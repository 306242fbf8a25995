--------------------------- MODULE DocumentSharing ---------------------------
(***************************************************************************)
(* Who owns a document and whom it is shared with: sharing, unsharing,      *)
(* transferring, deleting and finalizing documents while memberships change *)
(* (upload.service.ts, organizations.repository.ts).                        *)
(*                                                                         *)
(* A request reads the document and its owner, then opens a transaction     *)
(* that locks the organizations it knows, in the order of their ids, then   *)
(* the document; compares the owner with the one it has read, checks the    *)
(* actor again, and writes.  Each lock is a step.  The insert of a share    *)
(* also takes a key-share lock on the organization it refers to, which      *)
(* waits for whoever holds that organization FOR UPDATE.                    *)
(***************************************************************************)
EXTENDS Integers, Sequences, FiniteSets, FiniteSetsExt

CONSTANTS
  NumOrgs,        \* how many organizations there are
  Doc,            \* documents
  User,           \* administrators
  Request,        \* requests in flight
  MaxTransfers,   \* bound: no transfer of a document is asked for beyond it
  None

(* Their ids are sorted as numbers are. *)
Org == 1 .. NumOrgs

ASSUME OrgAssumption  == NumOrgs \in Nat \ {0}
ASSUME MaxAssumption  == MaxTransfers \in Nat
VARIABLES
  owner,     \* documents.owner_organization_id
  shares,    \* document_organization_shares of a document
  status,    \* documents.status and is_active; "gone" when the row is deleted
  audit,     \* document_ownership_transfers of a document: <<source, target>>
  member,    \* accepted memberships of an organization
  supers,    \* administrators whose admins.role is SUPER_ADMIN
  orgLock,   \* the transaction that holds an organization FOR UPDATE
  docLock,   \* the transaction that holds a document FOR UPDATE
  pc,        \* where a request is
  req        \* what it wants

docVars == <<owner, shares, status, audit>>
memberVars == <<member, supers>>
lockVars == <<orgLock, docLock>>
vars == <<docVars, memberVars, lockVars, pc, req>>

Op == {"share", "unshare", "transfer", "delete", "finalize"}

(* `owner' is expectedOwnerOrganizationId, the owner the request has read. *)
Intent == [actor : User, op : Op, doc : Doc, owner : Org, target : Org]

ASSUME NoneAssumption == None \notin Request /\ None \notin Org /\ None \notin Intent

(* What lockOrganizations is called with. *)
Needs(r) == {req[r].owner} \cup (IF req[r].op = "transfer" THEN {req[r].target} ELSE {})
HeldBy(r) == {o \in Org : orgLock[o] = r}

(* A request holds the locks of the steps it has made. *)
HoldsItsLocks(r) ==
  /\ pc[r] = "idle" <=> req[r] = None
  /\ pc[r] = "idle" => HeldBy(r) = {}
  /\ pc[r] = "organizations" => HeldBy(r) \subseteq Needs(r) /\ HeldBy(r) # Needs(r)
  /\ pc[r] \in {"document", "authorize", "write"} => HeldBy(r) = Needs(r)
  /\ \A d \in Doc : docLock[d] = r <=> pc[r] \in {"authorize", "write"} /\ req[r].doc = d

TypeOK ==
  /\ owner \in [Doc -> Org]
  /\ shares \in [Doc -> SUBSET Org]
  /\ status \in [Doc -> {"uploading", "live", "deleted", "gone"}]
  /\ audit \in [Doc -> Seq(Org \X Org)]
  /\ member \in [Org -> SUBSET User]
  /\ supers \in SUBSET User
  /\ orgLock \in [Org -> Request \cup {None}]
  /\ docLock \in [Doc -> Request \cup {None}]
  /\ pc \in [Request -> {"idle", "organizations", "document", "authorize", "write"}]
  /\ req \in [Request -> Intent \cup {None}]
  /\ \A r \in Request : HoldsItsLocks(r)

(* documents.is_active *)
Active == {"uploading", "live"}

(* isCurrentMember *)
IsMember(o, u) == u \in supers \/ u \in member[o]

(* The documents have just been reserved by createUploadingDocument. *)
Init ==
  /\ owner \in [Doc -> Org]
  /\ shares = [d \in Doc |-> {}]
  /\ status = [d \in Doc |-> "uploading"]
  /\ audit = [d \in Doc |-> <<>>]
  /\ member \in [Org -> SUBSET User]
  /\ supers \in SUBSET User
  /\ orgLock = [o \in Org |-> None]
  /\ docLock = [d \in Doc |-> None]
  /\ pc = [r \in Request |-> "idle"]
  /\ req = [r \in Request |-> None]

-----------------------------------------------------------------------------
(* Mutant: the transaction of a request that returns early is never closed. *)
EndKeepingLocks(r) ==
  /\ pc' = [pc EXCEPT ![r] = "idle"]
  /\ req' = [req EXCEPT ![r] = None]
  /\ UNCHANGED lockVars

(* The request is over, and its transaction releases every lock. *)
End(r) ==
  /\ pc' = [pc EXCEPT ![r] = "idle"]
  /\ req' = [req EXCEPT ![r] = None]
  /\ orgLock' = [o \in Org |-> IF orgLock[o] = r THEN None ELSE orgLock[o]]
  /\ docLock' = [d \in Doc |-> IF docLock[d] = r THEN None ELSE docLock[d]]

Goto(r, p) == pc' = [pc EXCEPT ![r] = p] /\ UNCHANGED req

(* What is asked for before the transaction: a document whose owner the actor
   belongs to, and a target that is not the owner.  An upload's finalize comes
   with the organization the document was uploaded to. *)
Ask(r, q) ==
  /\ pc[r] = "idle"
  /\ status[q.doc] \in IF q.op = "finalize" THEN {"uploading"} ELSE Active
  /\ q.owner = owner[q.doc]
  /\ q.op # "finalize" => IsMember(q.owner, q.actor)
  /\ q.op \in {"share", "transfer"} => q.target # q.owner
  /\ q.op \in {"delete", "finalize"} => q.target = q.owner
  /\ q.op = "transfer" => IsMember(q.target, q.actor) /\ Len(audit[q.doc]) < MaxTransfers
  /\ pc' = [pc EXCEPT ![r] = "organizations"]
  /\ req' = [req EXCEPT ![r] = q]
  /\ UNCHANGED <<docVars, memberVars, lockVars>>

(* lockOrganizations sorts the ids. *)
NextOrg(r) == Min(Needs(r) \ HeldBy(r))

Lock(r, o) ==
  /\ orgLock[o] = None
  /\ orgLock' = [orgLock EXCEPT ![o] = r]
  /\ IF Needs(r) = HeldBy(r) \cup {o} THEN Goto(r, "document") ELSE UNCHANGED <<pc, req>>
  /\ UNCHANGED <<docVars, memberVars, docLock>>

(* Mutant: the organizations are locked in the order of the arguments. *)
LockInOrderOfArguments(r) ==
  /\ pc[r] = "organizations"
  /\ Lock(r, IF req[r].owner \in HeldBy(r) THEN req[r].target ELSE req[r].owner)

LockOrganization(r) == pc[r] = "organizations" /\ Lock(r, NextOrg(r))

(* Mutant: the owner is not compared with the one the request has read. *)
LockDocumentOfAnyOwner(r) ==
  LET d == req[r].doc IN
  /\ pc[r] = "document" /\ docLock[d] = None
  /\ IF status[d] \in Active
       THEN /\ docLock' = [docLock EXCEPT ![d] = r]
            /\ Goto(r, "authorize")
            /\ UNCHANGED orgLock
       ELSE End(r)
  /\ UNCHANGED <<docVars, memberVars>>

(* Mutant: only the row of the expected owner is looked for, and what to do
   when it is not found is forgotten. *)
LockDocumentIfFound(r) ==
  LET d == req[r].doc IN
  /\ pc[r] = "document" /\ docLock[d] = None
  /\ status[d] \in Active /\ owner[d] = req[r].owner
  /\ docLock' = [docLock EXCEPT ![d] = r]
  /\ Goto(r, "authorize")
  /\ UNCHANGED <<docVars, memberVars, orgLock>>

(* lockDocument: not_found, stale_owner or the locked row. *)
LockDocument(r) ==
  LET d == req[r].doc IN
  /\ pc[r] = "document" /\ docLock[d] = None
  /\ IF status[d] \in Active /\ owner[d] = req[r].owner
       THEN /\ docLock' = [docLock EXCEPT ![d] = r]
            /\ Goto(r, "authorize")
            /\ UNCHANGED orgLock
       ELSE End(r)
  /\ UNCHANGED <<docVars, memberVars>>

(* What the transaction checks before it writes. *)
Allowed(q) ==
  /\ IsMember(q.owner, q.actor)
  /\ q.op = "transfer" => status[q.doc] # "uploading" /\ IsMember(q.target, q.actor)
  /\ q.op = "finalize" => status[q.doc] = "uploading"

(* Mutant: the checks before the transaction are enough. *)
AuthorizeBlindly(r) ==
  /\ pc[r] = "authorize"
  /\ Goto(r, "write")
  /\ UNCHANGED <<docVars, memberVars, lockVars>>

Authorize(r) ==
  /\ pc[r] = "authorize"
  /\ IF Allowed(req[r]) THEN Goto(r, "write") /\ UNCHANGED lockVars ELSE End(r)
  /\ UNCHANGED <<docVars, memberVars>>

(* The writes, each with the commit that follows it. *)

(* The insert of a share waits for the organization it refers to, unless the
   share is there already and nothing is inserted. *)
Inserting(r) == pc[r] = "write" /\ req[r].op = "share" /\ req[r].target \notin shares[req[r].doc]

Share(r) ==
  LET q == req[r] IN
  /\ pc[r] = "write" /\ q.op = "share"
  /\ Inserting(r) => orgLock[q.target] = None
  /\ shares' = [shares EXCEPT ![q.doc] = @ \cup {q.target}]
  /\ End(r)
  /\ UNCHANGED <<owner, status, audit, memberVars>>

Unshare(r) ==
  LET q == req[r] IN
  /\ pc[r] = "write" /\ q.op = "unshare"
  /\ shares' = [shares EXCEPT ![q.doc] = @ \ {q.target}]
  /\ End(r)
  /\ UNCHANGED <<owner, status, audit, memberVars>>

(* Mutant: the shares are left as they are. *)
TransferKeepingShares(r) ==
  LET q == req[r] IN
  /\ pc[r] = "write" /\ q.op = "transfer"
  /\ owner' = [owner EXCEPT ![q.doc] = q.target]
  /\ audit' = [audit EXCEPT ![q.doc] = Append(@, <<q.owner, q.target>>)]
  /\ End(r)
  /\ UNCHANGED <<shares, status, memberVars>>

Transfer(r) ==
  LET q == req[r] IN
  /\ pc[r] = "write" /\ q.op = "transfer"
  /\ owner' = [owner EXCEPT ![q.doc] = q.target]
  /\ shares' = [shares EXCEPT ![q.doc] = @ \ {q.target}]
  /\ audit' = [audit EXCEPT ![q.doc] = Append(@, <<q.owner, q.target>>)]
  /\ End(r)
  /\ UNCHANGED <<status, memberVars>>

Delete(r) ==
  LET q == req[r] IN
  /\ pc[r] = "write" /\ q.op = "delete"
  /\ status' = [status EXCEPT ![q.doc] = "deleted"]
  /\ End(r)
  /\ UNCHANGED <<owner, shares, audit, memberVars>>

Finalize(r) ==
  LET q == req[r] IN
  /\ pc[r] = "write" /\ q.op = "finalize"
  /\ status' = [status EXCEPT ![q.doc] = "live"]
  /\ End(r)
  /\ UNCHANGED <<owner, shares, audit, memberVars>>

Write(r) == Share(r) \/ Unshare(r) \/ Transfer(r) \/ Delete(r) \/ Finalize(r)

(* The connection is lost or the server dies. *)
Abort(r) ==
  /\ pc[r] # "idle"
  /\ End(r)
  /\ UNCHANGED <<docVars, memberVars>>

-----------------------------------------------------------------------------
(* A request cannot go on before another one ends. *)
Blocks(q, r) ==
  \/ pc[r] = "organizations" /\ orgLock[NextOrg(r)] = q
  \/ pc[r] = "document" /\ docLock[req[r].doc] = q
  \/ Inserting(r) /\ orgLock[req[r].target] = q

WaitCycle(S) == S # {} /\ \A r \in S : \E q \in S : Blocks(q, r)

(* PostgreSQL finds requests that wait for each other and aborts one. *)
DetectDeadlock(r) ==
  /\ \E S \in SUBSET Request : r \in S /\ WaitCycle(S)
  /\ Abort(r)

(* The deletion of the row by the rollback of its upload, in whatever state it
   is: neither a finalize whose answer was lost nor a deletion after that stops
   it.  The shares go with the row; the audit log refers to it and keeps it. *)
RollbackRow(d) ==
  /\ status[d] # "gone"
  /\ docLock[d] = None
  /\ audit[d] = <<>>
  /\ status' = [status EXCEPT ![d] = "gone"]
  /\ shares' = [shares EXCEPT ![d] = {}]
  /\ UNCHANGED <<owner, audit, memberVars, lockVars, pc, req>>

(* acceptInvitation takes no lock that matters here; removeMembership holds
   the organization. *)
JoinOrganization(o, u) ==
  /\ member' = [member EXCEPT ![o] = @ \cup {u}]
  /\ UNCHANGED <<supers, docVars, lockVars, pc, req>>

(* Mutant: the membership is deleted without the lock of the organization. *)
LeaveAtOnce(o, u) ==
  /\ member' = [member EXCEPT ![o] = @ \ {u}]
  /\ UNCHANGED <<supers, docVars, lockVars, pc, req>>

LeaveOrganization(o, u) ==
  /\ orgLock[o] = None
  /\ member' = [member EXCEPT ![o] = @ \ {u}]
  /\ UNCHANGED <<supers, docVars, lockVars, pc, req>>

(* A change of admins.role waits for the FOR SHARE lock that a transaction
   takes on the row of a super administrator. *)
Demote(u) ==
  /\ \A r \in Request : pc[r] = "write" => req[r].actor # u
  /\ supers' = supers \ {u}
  /\ UNCHANGED <<docVars, member, lockVars, pc, req>>

-----------------------------------------------------------------------------
RequestStep(r) ==
  \/ LockOrganization(r) \/ LockDocument(r) \/ Authorize(r) \/ Write(r)
  \/ DetectDeadlock(r) \/ Abort(r)

Next ==
  \/ \E r \in Request : RequestStep(r) \/ \E q \in Intent : Ask(r, q)
  \/ \E d \in Doc : RollbackRow(d)
  \/ \E o \in Org, u \in User : JoinOrganization(o, u) \/ LeaveOrganization(o, u)
  \/ \E u \in User : Demote(u)

Spec == Init /\ [][Next]_vars

(* Statements run to their end; a row lock is granted in the order of the
   queue, so nobody waits for ever for a lock that keeps being released. *)
Fairness ==
  \A r \in Request :
    /\ SF_vars(LockOrganization(r)) /\ SF_vars(LockDocument(r))
    /\ WF_vars(Authorize(r)) /\ SF_vars(Write(r))
    /\ WF_vars(DetectDeadlock(r))

FairSpec == Spec /\ Fairness

-----------------------------------------------------------------------------
(* A document is never shared with the organization that owns it (the comment
   of document_organization_shares), whatever order shares and transfers
   commit in. *)
OwnerNeverShared == \A d \in Doc : owner[d] \notin shares[d]

(* The audit log tells the whole story of a document: each transfer starts
   where the one before it ended, the last one ends at the owner, and there is
   none that would keep the rollback of an upload from deleting its row. *)
TransfersChain ==
  \A d \in Doc :
    /\ \A i \in 1 .. Len(audit[d]) - 1 : audit[d][i][2] = audit[d][i + 1][1]
    /\ audit[d] # <<>> => audit[d][Len(audit[d])][2] = owner[d]
    /\ status[d] \in {"uploading", "gone"} => audit[d] = <<>>

(* A document only changes through a request whose actor belongs to its owner
   when the change commits, and to the new owner when it is transferred. *)
AuthorizedAtCommit ==
  [][\A d \in Doc :
       /\ <<owner'[d], shares'[d], status'[d]>> # <<owner[d], shares[d], status[d]>>
       /\ status'[d] # "gone"
       => \E r \in Request :
            /\ pc[r] = "write" /\ req[r].doc = d
            /\ IsMember(owner[d], req[r].actor) /\ IsMember(owner'[d], req[r].actor)]_vars

(* Requests wait for each other in a circle only when one of them waits to
   insert a share: the sorted locks exclude every other deadlock. *)
OnlySharesDeadlock ==
  \A S \in SUBSET Request : WaitCycle(S) => \E r \in S : Inserting(r)

(* Every request ends, if only by being aborted. *)
RequestsEnd == \A r \in Request : pc[r] # "idle" ~> pc[r] = "idle"
=============================================================================
