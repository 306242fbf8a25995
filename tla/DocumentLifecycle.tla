-------------------------- MODULE DocumentLifecycle --------------------------
(***************************************************************************)
(* What the ingestion queue promises for a document, with no workers,       *)
(* leases, heartbeats or crashes in sight: a document is created, queued,   *)
(* held by one attempt at a time, and what readers see of it is the output  *)
(* of the attempt that held it until it published.  A deleted document      *)
(* stays deleted.  DocumentQueue implements this.                           *)
(***************************************************************************)
EXTENDS Naturals, FiniteSets

CONSTANTS Doc, Token, None

VARIABLES
  life,       \* the stage of each document
  holder,     \* the attempt that holds it while it is processed
  published,  \* the attempt whose output readers see
  used        \* the attempts started so far

lifeVars == <<life, holder, published, used>>

Stage == {"new", "uploading", "queued", "processing", "ready", "failed", "gone"}

LifeInit ==
  /\ life = [d \in Doc |-> "new"]
  /\ holder = [d \in Doc |-> None]
  /\ published = [d \in Doc |-> None]
  /\ used = {}

(* The documents of D move to a stage that nobody holds. *)
MoveAll(D, stage) ==
  /\ life' = [d \in Doc |-> IF d \in D THEN stage ELSE life[d]]
  /\ holder' = [d \in Doc |-> IF d \in D THEN None ELSE holder[d]]
  /\ UNCHANGED used

Create(d) ==
  life[d] = "new" /\ MoveAll({d}, "uploading") /\ UNCHANGED published

Enqueue(d) ==
  life[d] = "uploading" /\ MoveAll({d}, "queued") /\ UNCHANGED published

(* Each document of h's domain is taken by an attempt of its own. *)
Claim ==
  \E D \in SUBSET {d \in Doc : life[d] = "queued"} :
    \E h \in [D -> Token \ used] :
      /\ D # {}
      /\ \A d, e \in D : h[d] = h[e] => d = e
      /\ life' = [d \in Doc |-> IF d \in D THEN "processing" ELSE life[d]]
      /\ holder' = [d \in Doc |-> IF d \in D THEN h[d] ELSE holder[d]]
      /\ used' = used \cup {h[d] : d \in D}
      /\ UNCHANGED published

(* Attempts presumed dead lose their documents. *)
Release ==
  \E D \in SUBSET {d \in Doc : life[d] = "processing"} :
    MoveAll(D, "queued") /\ UNCHANGED published

Publish(d) ==
  /\ life[d] = "processing"
  /\ published' = [published EXCEPT ![d] = holder[d]]
  /\ MoveAll({d}, "ready")

Fail(d) ==
  life[d] = "processing" /\ MoveAll({d}, "failed") /\ UNCHANGED published

Retry(d) ==
  /\ life[d] \in {"ready", "failed"}
  /\ published' = [published EXCEPT ![d] = None]
  /\ MoveAll({d}, "queued")

Withdraw(d) ==
  /\ life[d] \notin {"new", "gone"}
  /\ published' = [published EXCEPT ![d] = None]
  /\ MoveAll({d}, "gone")

LifeNext ==
  \/ \E d \in Doc : Create(d) \/ Enqueue(d) \/ Publish(d) \/ Fail(d) \/ Retry(d) \/ Withdraw(d)
  \/ Claim
  \/ Release

LifeSpec == LifeInit /\ [][LifeNext]_lifeVars
=============================================================================
