---------------------------- MODULE DocumentQueue ----------------------------
(***************************************************************************)
(* The PDF ingestion queue: the rows of `documents' (and their chunks), the *)
(* upload request that creates a row, the delete and reprocess requests,    *)
(* and the PdfProcessorWorker of every server instance, which claims queued *)
(* rows, processes them under a lease and publishes the chunks.             *)
(*                                                                         *)
(* Each action is one database transaction, or one local step of a handler  *)
(* between two awaits.  A processing attempt is identified by the token     *)
(* that the claim writes on the row.  What the object store holds is added  *)
(* by DocumentStorage; who may act on a document is in DocumentSharing.     *)
(***************************************************************************)
EXTENDS Integers, FiniteSets

CONSTANTS
  Doc,          \* document ids, one per upload request
  Name,         \* resource names
  NameOf,       \* the resource name an upload of a document id uses
  Instance,     \* server instances, each running one worker
  Token,        \* processing tokens (gen_random_uuid), also naming attempts
  Concurrency,  \* PDF_PROCESSOR_CONCURRENCY
  None

ASSUME ConcurrencyAssumption == Concurrency \in Nat \ {0}
ASSUME NameOfAssumption      == NameOf \in [Doc -> Name]
ASSUME TokenAssumption      == IsFiniteSet(Token)
ASSUME NoneAssumption        == None \notin Token /\ None \notin Doc /\ None \notin Instance

VARIABLES
  status,       \* documents.status, "absent" when there is no row
  active,       \* documents.is_active
  token,        \* documents.processing_token
  fresh,        \* documents.updated_at is within staleProcessingMs
  cooling,      \* documents.last_reprocessed_at is within the cooldown
  chunks,       \* the attempt whose document_chunks rows the document has
  upload,       \* where the upload request of the document is
  phase,        \* where a processing attempt is
  docOf,        \* the document of an attempt
  hostOf,       \* the instance that runs it
  lost,         \* its heartbeat's ownershipLost flag
  generated,    \* its generatedArtifactsMayExist flag
  tick,         \* where a worker's tick is; "stopped" once worker.stopped is seen
  slots,        \* the limit it passes to claimQueued
  activeDocs,   \* worker.activeDocumentIds
  activeCount,  \* worker.activeCount
  revoked       \* history: tokens taken from a row by anyone but their attempt

docVars     == <<status, active, token, fresh, cooling, chunks>>
attemptVars == <<phase, docOf, hostOf, lost, generated>>
workerVars  == <<tick, slots, activeDocs, activeCount>>
vars == <<docVars, upload, attemptVars, workerVars, revoked>>

Status == {"absent", "uploading", "queued", "processing", "ready", "failed"}
UploadPhase == {"none", "storing", "finalizing", "rollback", "done"}
LivePhase == {"download", "pipeline", "storing", "completing", "failing", "cleaning"}
AttemptPhase == {"unused", "done"} \cup LivePhase

TypeOK ==
  /\ status \in [Doc -> Status]
  /\ active \in [Doc -> BOOLEAN]
  /\ token \in [Doc -> Token \cup {None}]
  /\ fresh \in [Doc -> BOOLEAN]
  /\ cooling \in [Doc -> BOOLEAN]
  /\ chunks \in [Doc -> Token \cup {None}]
  /\ upload \in [Doc -> UploadPhase]
  /\ phase \in [Token -> AttemptPhase]
  /\ docOf \in [Token -> Doc \cup {None}]
  /\ hostOf \in [Token -> Instance \cup {None}]
  /\ lost \in [Token -> BOOLEAN]
  /\ generated \in [Token -> BOOLEAN]
  /\ tick \in [Instance -> {"idle", "claim", "stopped"}]
  /\ slots \in [Instance -> Nat]
  /\ activeDocs \in [Instance -> SUBSET Doc]
  /\ activeCount \in [Instance -> Int]
  /\ revoked \in SUBSET Token

Init ==
  /\ status = [d \in Doc |-> "absent"]
  /\ active = [d \in Doc |-> FALSE]
  /\ token = [d \in Doc |-> None]
  /\ fresh = [d \in Doc |-> FALSE]
  /\ cooling = [d \in Doc |-> FALSE]
  /\ chunks = [d \in Doc |-> None]
  /\ upload = [d \in Doc |-> "none"]
  /\ phase = [t \in Token |-> "unused"]
  /\ docOf = [t \in Token |-> None]
  /\ hostOf = [t \in Token |-> None]
  /\ lost = [t \in Token |-> FALSE]
  /\ generated = [t \in Token |-> FALSE]
  /\ tick = [i \in Instance |-> "idle"]
  /\ slots = [i \in Instance |-> 0]
  /\ activeDocs = [i \in Instance |-> {}]
  /\ activeCount = [i \in Instance |-> 0]
  /\ revoked = {}

Live(t) == t \in Token /\ phase[t] \in LivePhase
AttemptsOn(i) == {t \in Token : hostOf[t] = i /\ Live(t)}

(* Mutant: the row is found by id and state alone. *)
OwnsRowByState(t) ==
  LET d == docOf[t]
  IN  d # None /\ status[d] = "processing" /\ active[d]

(* The WHERE clause by which heartbeatProcessing, completeProcessing and
   markFailed find the row: this exact attempt still holds it. *)
OwnsRow(t) ==
  LET d == docOf[t]
  IN  status[d] = "processing" /\ token[d] = t /\ active[d]

-----------------------------------------------------------------------------
(* The upload request: reserve a row, store the PDF, queue the row.        *)

(* Mutant: no unique index on the active resource names. *)
ReserveTaken(d) ==
  /\ upload[d] = "none"
  /\ upload' = [upload EXCEPT ![d] = "storing"]
  /\ status' = [status EXCEPT ![d] = "uploading"]
  /\ active' = [active EXCEPT ![d] = TRUE]
  /\ fresh' = [fresh EXCEPT ![d] = TRUE]
  /\ UNCHANGED <<token, cooling, chunks, attemptVars, workerVars, revoked>>

Reserve(d) ==
  /\ upload[d] = "none"
  /\ \A e \in Doc : NameOf[e] = NameOf[d] => ~active[e]
  /\ upload' = [upload EXCEPT ![d] = "storing"]
  /\ status' = [status EXCEPT ![d] = "uploading"]
  /\ active' = [active EXCEPT ![d] = TRUE]
  /\ fresh' = [fresh EXCEPT ![d] = TRUE]
  /\ UNCHANGED <<token, cooling, chunks, attemptVars, workerVars, revoked>>

StorePdf(d) ==
  /\ upload[d] = "storing"
  /\ upload' = [upload EXCEPT ![d] = "finalizing"]
  /\ UNCHANGED <<docVars, attemptVars, workerVars, revoked>>

StorePdfFails(d) ==
  /\ upload[d] = "storing"
  /\ upload' = [upload EXCEPT ![d] = "rollback"]
  /\ UNCHANGED <<docVars, attemptVars, workerVars, revoked>>

(* The commit may succeed and its acknowledgement be lost: the request then
   rolls back a row that is already queued. *)
Finalize(d) ==
  /\ upload[d] = "finalizing"
  /\ status[d] = "uploading" /\ active[d]
  /\ \E outcome \in {"done", "rollback"} : upload' = [upload EXCEPT ![d] = outcome]
  /\ status' = [status EXCEPT ![d] = "queued"]
  /\ fresh' = [fresh EXCEPT ![d] = TRUE]
  /\ UNCHANGED <<active, token, cooling, chunks, attemptVars, workerVars, revoked>>

(* Deleted meanwhile, membership lost, or a database error. *)
FinalizeRefused(d) ==
  /\ upload[d] = "finalizing"
  /\ upload' = [upload EXCEPT ![d] = "rollback"]
  /\ UNCHANGED <<docVars, attemptVars, workerVars, revoked>>

(* hardDelete: the row goes whatever its state; its chunks cascade. *)
RollbackRow(d) ==
  /\ upload[d] = "rollback"
  /\ upload' = [upload EXCEPT ![d] = "done"]
  /\ status' = [status EXCEPT ![d] = "absent"]
  /\ active' = [active EXCEPT ![d] = FALSE]
  /\ token' = [token EXCEPT ![d] = None]
  /\ fresh' = [fresh EXCEPT ![d] = FALSE]
  /\ cooling' = [cooling EXCEPT ![d] = FALSE]
  /\ chunks' = [chunks EXCEPT ![d] = None]
  /\ revoked' = revoked \cup ({token[d]} \ {None})
  /\ UNCHANGED <<attemptVars, workerVars>>

(* Promise.allSettled only logs a hardDelete that failed; a crash of the
   server leaves the request undone wherever it is. *)
UploadEndsWithRow(d) ==
  /\ upload[d] \in {"storing", "finalizing", "rollback"}
  /\ upload' = [upload EXCEPT ![d] = "done"]
  /\ UNCHANGED <<docVars, attemptVars, workerVars, revoked>>

-----------------------------------------------------------------------------
(* Requests on a document, already authorized.                             *)

(* Mutant: the soft delete leaves the token on the row. *)
DeleteKeepingToken(d) ==
  /\ active[d]
  /\ active' = [active EXCEPT ![d] = FALSE]
  /\ fresh' = [fresh EXCEPT ![d] = TRUE]
  /\ UNCHANGED <<status, token, cooling, chunks, upload, attemptVars, workerVars, revoked>>

Delete(d) ==
  /\ active[d]
  /\ active' = [active EXCEPT ![d] = FALSE]
  /\ token' = [token EXCEPT ![d] = None]
  /\ fresh' = [fresh EXCEPT ![d] = TRUE]
  /\ revoked' = revoked \cup ({token[d]} \ {None})
  /\ UNCHANGED <<status, cooling, chunks, upload, attemptVars, workerVars>>

(* Mutant: the old chunks stay until the new ones arrive. *)
ReprocessKeepingChunks(d) ==
  /\ active[d]
  /\ status[d] \in {"ready", "failed"}
  /\ ~cooling[d]
  /\ status' = [status EXCEPT ![d] = "queued"]
  /\ token' = [token EXCEPT ![d] = None]
  /\ fresh' = [fresh EXCEPT ![d] = TRUE]
  /\ cooling' = [cooling EXCEPT ![d] = TRUE]
  /\ UNCHANGED <<active, chunks, upload, attemptVars, workerVars, revoked>>

Reprocess(d) ==
  /\ active[d]
  /\ status[d] \in {"ready", "failed"}
  /\ ~cooling[d]
  /\ status' = [status EXCEPT ![d] = "queued"]
  /\ token' = [token EXCEPT ![d] = None]
  /\ fresh' = [fresh EXCEPT ![d] = TRUE]
  /\ cooling' = [cooling EXCEPT ![d] = TRUE]
  /\ chunks' = [chunks EXCEPT ![d] = None]
  /\ UNCHANGED <<active, upload, attemptVars, workerVars, revoked>>

(* updateExpiresAt and transferDocument write updated_at as well, and so renew
   the lease of whatever attempt has the row. *)
EditRow(d) ==
  /\ active[d]
  /\ fresh' = [fresh EXCEPT ![d] = TRUE]
  /\ UNCHANGED <<status, active, token, cooling, chunks, upload, attemptVars, workerVars, revoked>>

CooldownEnds(d) ==
  /\ cooling[d]
  /\ cooling' = [cooling EXCEPT ![d] = FALSE]
  /\ UNCHANGED <<status, active, token, fresh, chunks, upload, attemptVars, workerVars, revoked>>

(* Nothing has written updated_at for staleProcessingMs.  Only the stale check
   looks at it, and only for rows whose status is `processing'. *)
LeaseExpires(d) ==
  /\ status[d] = "processing" /\ fresh[d]
  /\ fresh' = [fresh EXCEPT ![d] = FALSE]
  /\ UNCHANGED <<status, active, token, cooling, chunks, upload, attemptVars, workerVars, revoked>>

-----------------------------------------------------------------------------
(* The worker's tick: an occasional stale check, then a claim.             *)

FreeSlots(i) == Concurrency - activeCount[i]

(* Mutant: the limit passed to the claim ignores what already runs. *)
GoClaimFullLimit(i) ==
  /\ tick' = [tick EXCEPT ![i] = "claim"]
  /\ slots' = [slots EXCEPT ![i] = Concurrency]

(* The part of tick() from the slot computation to the claimQueued call.   *)
GoClaim(i) ==
  IF FreeSlots(i) > 0
    THEN /\ tick' = [tick EXCEPT ![i] = "claim"]
         /\ slots' = [slots EXCEPT ![i] = FreeSlots(i)]
    ELSE /\ tick' = [tick EXCEPT ![i] = "idle"]
         /\ slots' = [slots EXCEPT ![i] = 0]

(* The tick in which no stale check is due, or in which it fails: its error is
   swallowed and the tick goes on. *)
TickPoll(i) ==
  /\ tick[i] = "idle"
  /\ GoClaim(i)
  /\ UNCHANGED <<docVars, upload, attemptVars, activeDocs, activeCount, revoked>>

(* Mutant: the comparison with staleBefore is the wrong way round. *)
StaleForRecent(i) ==
  {d \in Doc : /\ status[d] = "processing" /\ active[d] /\ fresh[d]
               /\ d \notin activeDocs[i]}

(* Mutant: deleted rows are requeued as well. *)
StaleForInactive(i) ==
  {d \in Doc : status[d] = "processing" /\ ~fresh[d] /\ d \notin activeDocs[i]}

StaleFor(i) ==
  {d \in Doc : /\ status[d] = "processing" /\ active[d] /\ ~fresh[d]
               /\ d \notin activeDocs[i]}

(* A stale check, which is due at start-up and then every staleCheckIntervalMs.
   No tick of this instance adds to activeDocumentIds meanwhile. *)
RequeueStale(i) ==
  /\ tick[i] = "idle"
  /\ LET R == StaleFor(i)
     IN  /\ status' = [d \in Doc |-> IF d \in R THEN "queued" ELSE status[d]]
         /\ token' = [d \in Doc |-> IF d \in R THEN None ELSE token[d]]
         /\ fresh' = [d \in Doc |-> IF d \in R THEN TRUE ELSE fresh[d]]
         /\ revoked' = revoked \cup ({token[d] : d \in R} \ {None})
  /\ GoClaim(i)
  /\ UNCHANGED <<active, cooling, chunks, upload, attemptVars, activeDocs, activeCount>>

Claimable == {d \in Doc : status[d] = "queued" /\ active[d]}
FreshTokens == {t \in Token : phase[t] = "unused"}

(* Which of `holders' the document got, when g gives their documents. *)
HolderOf(g, d) == CHOOSE t \in DOMAIN g : g[t] = d

(* The rows that claimQueued takes: g gives the document of each new attempt in
   T.  Rows locked by another transaction are skipped, so any subset within the
   limit may be taken. *)
TakeRows(i, T, g) ==
  /\ tick[i] = "claim"
  /\ Cardinality(T) <= slots[i]
  /\ \A t, u \in T : g[t] = g[u] => t = u
  /\ LET Claimed == {g[t] : t \in T}
     IN  /\ status' = [d \in Doc |-> IF d \in Claimed THEN "processing" ELSE status[d]]
         /\ token' = [d \in Doc |-> IF d \in Claimed THEN HolderOf(g, d) ELSE token[d]]
         /\ fresh' = [d \in Doc |-> IF d \in Claimed THEN TRUE ELSE fresh[d]]
  /\ tick' = [tick EXCEPT ![i] = "idle"]
  /\ slots' = [slots EXCEPT ![i] = 0]
  /\ UNCHANGED <<active, cooling, chunks, upload, lost, generated, revoked>>

(* The attempts that the tick starts for the rows it is given. *)
StartAttempts(i, T, g) ==
  /\ phase' = [t \in Token |-> IF t \in T THEN "download" ELSE phase[t]]
  /\ docOf' = [t \in Token |-> IF t \in T THEN g[t] ELSE docOf[t]]
  /\ hostOf' = [t \in Token |-> IF t \in T THEN i ELSE hostOf[t]]
  /\ activeCount' = [activeCount EXCEPT ![i] = @ + Cardinality(T)]
  /\ activeDocs' = [activeDocs EXCEPT ![i] = @ \cup {g[t] : t \in T}]

(* The claim committed but its answer is lost: nobody works on these rows. *)
StartNothing(T) ==
  /\ phase' = [t \in Token |-> IF t \in T THEN "done" ELSE phase[t]]
  /\ UNCHANGED <<docOf, hostOf, activeCount, activeDocs>>

ClaimQueued(i) ==
  \E T \in (SUBSET FreshTokens) \ {{}} : \E g \in [T -> Claimable] :
    TakeRows(i, T, g) /\ (StartAttempts(i, T, g) \/ StartNothing(T))

(* Mutant: an empty claim leaves tickInFlight set. *)
ClaimNothingWedged(i) ==
  /\ tick[i] = "claim"
  /\ tick' = [tick EXCEPT ![i] = "wedged"]
  /\ slots' = [slots EXCEPT ![i] = 0]
  /\ UNCHANGED <<docVars, upload, attemptVars, activeDocs, activeCount, revoked>>

(* Nothing queued that is not locked, or the claim threw. *)
ClaimNothing(i) ==
  /\ tick[i] = "claim"
  /\ tick' = [tick EXCEPT ![i] = "idle"]
  /\ slots' = [slots EXCEPT ![i] = 0]
  /\ UNCHANGED <<docVars, upload, attemptVars, activeDocs, activeCount, revoked>>

(* onModuleDestroy: no more ticks; what is in flight goes on.  Only the start
   of a tick reads the flag, so a tick under way ends first. *)
Stop(i) ==
  /\ tick[i] = "idle"
  /\ tick' = [tick EXCEPT ![i] = "stopped"]
  /\ UNCHANGED <<docVars, upload, attemptVars, slots, activeDocs, activeCount, revoked>>

(* The process dies and starts again: its attempts and its memory are gone. *)
Restart(i) ==
  /\ LET A == AttemptsOn(i)
     IN  /\ phase' = [t \in Token |-> IF t \in A THEN "done" ELSE phase[t]]
         /\ docOf' = [t \in Token |-> IF t \in A THEN None ELSE docOf[t]]
         /\ hostOf' = [t \in Token |-> IF t \in A THEN None ELSE hostOf[t]]
         /\ lost' = [t \in Token |-> t \notin A /\ lost[t]]
         /\ generated' = [t \in Token |-> t \notin A /\ generated[t]]
  /\ tick' = [tick EXCEPT ![i] = "idle"]
  /\ slots' = [slots EXCEPT ![i] = 0]
  /\ activeDocs' = [activeDocs EXCEPT ![i] = {}]
  /\ activeCount' = [activeCount EXCEPT ![i] = 0]
  /\ UNCHANGED <<docVars, upload, revoked>>

-----------------------------------------------------------------------------
(* processDocument, one step per await.                                    *)

Goto(t, p) ==
  /\ phase' = [phase EXCEPT ![t] = p]
  /\ UNCHANGED <<docOf, hostOf, lost, activeDocs, activeCount>>

GotoSame(t, p) == Goto(t, p) /\ UNCHANGED generated

(* Mutant: the slot is not given back. *)
FinishLeakingSlot(t) ==
  /\ phase' = [phase EXCEPT ![t] = "done"]
  /\ docOf' = [docOf EXCEPT ![t] = None]
  /\ hostOf' = [hostOf EXCEPT ![t] = None]
  /\ lost' = [lost EXCEPT ![t] = FALSE]
  /\ generated' = [generated EXCEPT ![t] = FALSE]
  /\ activeDocs' = [activeDocs EXCEPT ![hostOf[t]] = @ \ {docOf[t]}]
  /\ UNCHANGED activeCount

(* The attempt returns, its locals go, and tick()'s finally runs. *)
Finish(t) ==
  /\ phase' = [phase EXCEPT ![t] = "done"]
  /\ docOf' = [docOf EXCEPT ![t] = None]
  /\ hostOf' = [hostOf EXCEPT ![t] = None]
  /\ lost' = [lost EXCEPT ![t] = FALSE]
  /\ generated' = [generated EXCEPT ![t] = FALSE]
  /\ activeCount' = [activeCount EXCEPT ![hostOf[t]] = @ - 1]
  /\ activeDocs' = [activeDocs EXCEPT ![hostOf[t]] = @ \ {docOf[t]}]

(* A heartbeat renews the lease, or learns that the row was taken away. *)
Heartbeat(t) ==
  /\ Live(t) /\ ~lost[t]
  /\ IF OwnsRow(t)
       THEN /\ fresh' = [fresh EXCEPT ![docOf[t]] = TRUE]
            /\ UNCHANGED lost
       ELSE /\ lost' = [lost EXCEPT ![t] = TRUE]
            /\ UNCHANGED fresh
  /\ UNCHANGED <<status, active, token, cooling, chunks, upload, phase, docOf, hostOf,
                 generated, workerVars, revoked>>

Download(t) ==
  /\ phase[t] = "download"
  /\ \E p \in {"pipeline", "failing"} : GotoSame(t, p)
  /\ UNCHANGED <<docVars, upload, tick, slots, revoked>>

(* processPdf threw or produced no chunk. *)
PipelineFails(t) ==
  /\ phase[t] = "pipeline"
  /\ GotoSame(t, "failing")
  /\ UNCHANGED <<docVars, upload, tick, slots, revoked>>

(* hasLostOwnership decides whether the result is stored or dropped. *)
PipelineDone(t) ==
  /\ phase[t] = "pipeline"
  /\ IF lost[t]
       THEN Finish(t)
       ELSE Goto(t, "storing") /\ generated' = [generated EXCEPT ![t] = TRUE]
  /\ UNCHANGED <<docVars, upload, tick, slots, revoked>>

StoreArtifacts(t) ==
  /\ phase[t] = "storing"
  /\ \E p \in {"completing", "failing"} : GotoSame(t, p)
  /\ UNCHANGED <<docVars, upload, tick, slots, revoked>>

(* completeProcessing commits.  When only the acknowledgement is lost the
   attempt goes on to markFailed. *)
CompleteProcessing(t) ==
  /\ phase[t] = "completing" /\ OwnsRow(t)
  /\ status' = [status EXCEPT ![docOf[t]] = "ready"]
  /\ token' = [token EXCEPT ![docOf[t]] = None]
  /\ fresh' = [fresh EXCEPT ![docOf[t]] = TRUE]
  /\ chunks' = [chunks EXCEPT ![docOf[t]] = t]
  /\ Finish(t) \/ GotoSame(t, "failing")
  /\ UNCHANGED <<active, cooling, upload, tick, slots, revoked>>

(* completeProcessing finds no row (the result is discarded) or throws. *)
CompleteRefused(t) ==
  /\ phase[t] = "completing"
  /\ \/ ~OwnsRow(t) /\ Finish(t)
     \/ GotoSame(t, "failing")
  /\ UNCHANGED <<docVars, upload, tick, slots, revoked>>

(* Only an attempt that learns that its own markFailed took effect cleans up. *)
MarkFailed(t) ==
  /\ phase[t] = "failing" /\ OwnsRow(t)
  /\ status' = [status EXCEPT ![docOf[t]] = "failed"]
  /\ token' = [token EXCEPT ![docOf[t]] = None]
  /\ fresh' = [fresh EXCEPT ![docOf[t]] = TRUE]
  /\ Finish(t) \/ (generated[t] /\ GotoSame(t, "cleaning"))
  /\ UNCHANGED <<active, cooling, chunks, upload, tick, slots, revoked>>

(* markFailed finds no row, or throws: both end the attempt. *)
MarkFailedRefused(t) ==
  /\ phase[t] = "failing"
  /\ Finish(t)
  /\ UNCHANGED <<docVars, upload, tick, slots, revoked>>

CleanArtifacts(t) ==
  /\ phase[t] = "cleaning"
  /\ Finish(t)
  /\ UNCHANGED <<docVars, upload, tick, slots, revoked>>

-----------------------------------------------------------------------------
UploadStep(d) ==
  \/ Reserve(d) \/ StorePdf(d) \/ StorePdfFails(d) \/ Finalize(d)
  \/ FinalizeRefused(d) \/ RollbackRow(d) \/ UploadEndsWithRow(d)

RequestStep(d) ==
  Delete(d) \/ Reprocess(d) \/ EditRow(d) \/ CooldownEnds(d) \/ LeaseExpires(d)

WorkerStep(i) ==
  \/ TickPoll(i) \/ RequeueStale(i) \/ ClaimQueued(i) \/ ClaimNothing(i)
  \/ Stop(i) \/ Restart(i)

AttemptStep(t) ==
  \/ Download(t) \/ PipelineFails(t) \/ PipelineDone(t) \/ StoreArtifacts(t)
  \/ CompleteProcessing(t) \/ CompleteRefused(t) \/ MarkFailed(t)
  \/ MarkFailedRefused(t) \/ CleanArtifacts(t)

Next ==
  \/ \E d \in Doc : UploadStep(d) \/ RequestStep(d)
  \/ \E i \in Instance : WorkerStep(i)
  \/ \E t \in Token : Heartbeat(t) \/ AttemptStep(t)

Spec == Init /\ [][Next]_vars

(* A row that says it is being processed when nobody processes it. *)
Orphaned(d) == status[d] = "processing" /\ active[d] /\ ~Live(token[d])

(* Fairness.  Timers fire again and again and awaited calls return, so every
   attempt moves on and every worker keeps ticking; the stale check becomes
   due over and over, and the database does not fail it, nor find every queued
   row locked, for ever; a stopped process is replaced; time passes for a row
   that no live attempt renews.  Nothing makes users act or servers crash, but
   nobody goes on for ever editing a document whose attempt is dead. *)
ClockRunsOut(d) == LeaseExpires(d) /\ ~Live(token[d])
Replace(i) == tick[i] = "stopped" /\ Restart(i)
EditsOrphan == \E d \in Doc : Orphaned(d) /\ EditRow(d)

Fairness ==
  /\ \A t \in Token : WF_vars(AttemptStep(t))
  /\ \A d \in Doc : WF_vars(ClockRunsOut(d))
  /\ \A i \in Instance :
       /\ WF_vars(TickPoll(i)) /\ SF_vars(RequeueStale(i))
       /\ WF_vars(ClaimQueued(i) \/ ClaimNothing(i)) /\ SF_vars(ClaimQueued(i))
       /\ WF_vars(Replace(i))
  /\ <>[][~EditsOrphan]_vars

FairSpec == Spec /\ Fairness

-----------------------------------------------------------------------------
(* A row carries a token exactly while it is active and processing, no two
   rows carry the same one, and the attempt it names, while it lives, works on
   that row: the fence of documents.repository.ts has something to compare. *)
LeaseConsistent ==
  /\ \A d \in Doc : token[d] # None <=> status[d] = "processing" /\ active[d]
  /\ \A d \in Doc : Live(token[d]) => docOf[token[d]] = d
  /\ \A d, e \in Doc : token[d] = token[e] /\ token[d] # None => d = e

(* Chunks exist exactly for rows that are `ready': the catalog never offers a
   document that is being reprocessed, and never an empty ready one. *)
ChunksIffReady ==
  \A d \in Doc : chunks[d] # None <=> status[d] = "ready"

(* An attempt whose row was taken away (requeued as stale, deleted, rolled
   back) never publishes, however late it wakes up. *)
RevokedNeverPublishes ==
  \A d \in Doc : chunks[d] \notin revoked

(* A worker counts its attempts exactly and never runs more than
   PDF_PROCESSOR_CONCURRENCY of them, although the slots are computed before
   the claim is awaited; and it remembers no document it does not process. *)
WithinConcurrency ==
  \A i \in Instance :
    /\ activeCount[i] = Cardinality(AttemptsOn(i))
    /\ activeCount[i] <= Concurrency
    /\ activeDocs[i] \subseteq {docOf[t] : t \in AttemptsOn(i)}

(* What makes these inductive: the token of a row, of chunks, or taken from a
   row was given out before, and is in only one of these places; a live attempt
   has a document and a host; a row exists only once its upload has begun; the
   slots of a claim under way still fit beside the running attempts. *)
TokensSpent ==
  /\ \A d \in Doc :
       /\ token[d] # None => phase[token[d]] # "unused" /\ token[d] \notin revoked
       /\ chunks[d] # None => /\ phase[chunks[d]] # "unused"
                              /\ \A e \in Doc : token[e] # chunks[d]
  /\ \A t \in revoked : phase[t] # "unused"

AttemptsPlaced ==
  \A t \in Token : Live(t) => docOf[t] \in Doc /\ hostOf[t] \in Instance

RowsCreated ==
  \A d \in Doc : /\ active[d] => status[d] # "absent"
                 /\ status[d] # "absent" => upload[d] # "none"

SlotsFit ==
  \A i \in Instance : /\ activeCount[i] + slots[i] <= Concurrency
                      /\ tick[i] # "claim" => slots[i] = 0

RowInv ==
  /\ LeaseConsistent /\ ChunksIffReady /\ RevokedNeverPublishes
  /\ TokensSpent /\ AttemptsPlaced /\ RowsCreated

QueueInv == RowInv /\ WithinConcurrency /\ SlotsFit

(* A soft-deleted row never changes again, whatever late attempt, stale check
   or half-done upload still runs; only the rollback of its upload removes it. *)
KeepsWithdrawn ==
  \A d \in Doc :
    status[d] # "absent" /\ ~active[d] =>
      \/ status'[d] = "absent"
      \/ UNCHANGED <<status[d], active[d], token[d], chunks[d]>>

WithdrawnStaysWithdrawn == [][KeepsWithdrawn]_vars

(* What readers and the workers make of a row, in the terms of the abstract
   lifecycle. *)
StageOf(d) ==
  CASE upload[d] = "none" -> "new"
    [] upload[d] # "none" /\ ~active[d] -> "gone"
    [] OTHER -> status[d]

Abstract == INSTANCE DocumentLifecycle WITH
  life      <- [d \in Doc |-> StageOf(d)],
  holder    <- token,
  published <- [d \in Doc |-> IF active[d] THEN chunks[d] ELSE None],
  used      <- {t \in Token : phase[t] # "unused"}

(* The queue keeps the promise of DocumentLifecycle. *)
ImplementsLifecycle == Abstract!LifeSpec

(* A row whose attempt died with its server, or never started, is taken back. *)
OrphansRecovered == \A d \in Doc : Orphaned(d) ~> ~Orphaned(d)

(* A queued row is claimed in the end, unless the finite supply of tokens of
   the model has run out first: no slot is lost for good. *)
QueuedEventuallyClaimed ==
  \A d \in Doc : d \in Claimable ~> (d \notin Claimable \/ FreshTokens = {})
=============================================================================
