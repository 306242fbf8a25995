------------------------- MODULE OrganizationMembers -------------------------
(***************************************************************************)
(* The memberships of one organization: invitations, role changes, removals *)
(* and the answers of the invited (organizations.repository.ts).            *)
(*                                                                         *)
(* A manager's request checks the actor, then opens a transaction that locks *)
(* the organization row, checks the actor again, reads the membership,      *)
(* counts the managers and writes.  Each of these is a step: transactions   *)
(* run at READ COMMITTED, and acceptInvitation and rejectInvitation lock    *)
(* only the membership row, so they commit in between.  Organizations share *)
(* no rows here, so one stands for all.                                     *)
(***************************************************************************)
EXTENDS Naturals, FiniteSets

CONSTANTS
  User,        \* administrators (admins.idp_uuid)
  Row,         \* ids of organization_memberships
  Request,     \* requests of managers that are in flight
  Creator,     \* the first manager
  None

ASSUME RowAssumption     == IsFiniteSet(Row) /\ Row # {}
ASSUME CreatorAssumption == Creator \in User
ASSUME NoneAssumption    == None \notin User /\ None \notin Row /\ None \notin Request

VARIABLES
  member,   \* whom a row is for: inviteeEmail and memberIdpUuid
  role,     \* organization_memberships.role
  state,    \* organization_memberships.status, "absent" when there is no row
  supers,   \* administrators whose admins.role is SUPER_ADMIN
  lock,     \* the transaction that holds the organization row FOR UPDATE
  pc,       \* where a request is
  actor,    \* on whose behalf
  change,   \* what it wants: a role, "remove" or "invite"
  target,   \* the membership it is about, None for an invitation
  seen      \* the <<status, role>> that its transaction has read

rowVars == <<member, role, state>>
requestVars == <<pc, actor, change, target, seen>>
vars == <<rowVars, supers, lock, requestVars>>

Role == {"MANAGER", "MEMBER"}
State == {"absent", "PENDING", "ACCEPTED"}
Change == Role \cup {"remove", "invite"}
InTransaction == {"authorize", "read", "count", "write"}

TypeOK ==
  /\ member \in [Row -> User \cup {None}]
  /\ role \in [Row -> Role]
  /\ state \in [Row -> State]
  /\ supers \in SUBSET User
  /\ lock \in Request \cup {None}
  /\ pc \in [Request -> {"idle", "lock"} \cup InTransaction]
  /\ actor \in [Request -> User \cup {None}]
  /\ change \in [Request -> Change]
  /\ target \in [Request -> Row \cup {None}]
  /\ seen \in [Request -> State \X Role]
  /\ \A r \in Request :
       /\ lock = r <=> pc[r] \in InTransaction
       /\ pc[r] # "idle" => (change[r] = "invite" <=> target[r] = None)
       /\ pc[r] \in {"read", "count"} => change[r] # "invite"
  /\ \A m \in Row : member[m] = None <=> state[m] = "absent"
  /\ \A m, n \in Row : member[m] = member[n] /\ member[m] # None => m = n

Managers == {m \in Row : state[m] = "ACCEPTED" /\ role[m] = "MANAGER"}

(* isCurrentManager; the same question is asked before the transaction. *)
IsManager(u) == u \in supers \/ \E m \in Managers : member[m] = u

(* createOrganization inserts its creator as an accepted manager; only a
   super administrator can create one. *)
Init ==
  /\ \E m \in Row :
       /\ member = [n \in Row |-> IF n = m THEN Creator ELSE None]
       /\ role = [n \in Row |-> IF n = m THEN "MANAGER" ELSE "MEMBER"]
       /\ state = [n \in Row |-> IF n = m THEN "ACCEPTED" ELSE "absent"]
  /\ supers = {Creator}
  /\ lock = None
  /\ pc = [r \in Request |-> "idle"]
  /\ actor = [r \in Request |-> None]
  /\ change = [r \in Request |-> "remove"]
  /\ target = [r \in Request |-> None]
  /\ seen = [r \in Request |-> <<"absent", "MEMBER">>]

-----------------------------------------------------------------------------
Goto(r, p) == pc' = [pc EXCEPT ![r] = p]

(* Mutant: a transaction that returns early is never closed. *)
EndLeavingLock(r) ==
  /\ pc' = [pc EXCEPT ![r] = "idle"]
  /\ actor' = [actor EXCEPT ![r] = None]
  /\ change' = [change EXCEPT ![r] = "remove"]
  /\ target' = [target EXCEPT ![r] = None]
  /\ seen' = [seen EXCEPT ![r] = <<"absent", "MEMBER">>]
  /\ UNCHANGED lock

(* The request is over; its transaction, if any, releases the organization. *)
End(r) ==
  /\ pc' = [pc EXCEPT ![r] = "idle"]
  /\ actor' = [actor EXCEPT ![r] = None]
  /\ change' = [change EXCEPT ![r] = "remove"]
  /\ target' = [target EXCEPT ![r] = None]
  /\ seen' = [seen EXCEPT ![r] = <<"absent", "MEMBER">>]
  /\ lock' = IF lock = r THEN None ELSE lock

(* requireOrganizationManager, before the transaction. *)
Ask(r, u, c, m) ==
  /\ pc[r] = "idle"
  /\ c = "invite" <=> m = None
  /\ IsManager(u)
  /\ Goto(r, "lock")
  /\ actor' = [actor EXCEPT ![r] = u]
  /\ change' = [change EXCEPT ![r] = c]
  /\ target' = [target EXCEPT ![r] = m]
  /\ UNCHANGED <<rowVars, supers, lock, seen>>

(* Mutant: the organization row is read but not locked. *)
LockNothing(r) ==
  /\ pc[r] = "lock"
  /\ Goto(r, "authorize")
  /\ UNCHANGED <<rowVars, supers, lock, actor, change, target, seen>>

LockOrganization(r) ==
  /\ pc[r] = "lock" /\ lock = None
  /\ lock' = r
  /\ Goto(r, "authorize")
  /\ UNCHANGED <<rowVars, supers, actor, change, target, seen>>

(* Mutant: the check before the transaction is enough. *)
AuthorizeBlindly(r) ==
  /\ pc[r] = "authorize"
  /\ Goto(r, IF change[r] = "invite" THEN "write" ELSE "read")
  /\ UNCHANGED <<rowVars, supers, lock, actor, change, target, seen>>

Authorize(r) ==
  /\ pc[r] = "authorize"
  /\ IF IsManager(actor[r])
       THEN /\ Goto(r, IF change[r] = "invite" THEN "write" ELSE "read")
            /\ UNCHANGED <<lock, actor, change, target, seen>>
       ELSE End(r)
  /\ UNCHANGED <<rowVars, supers>>

ReadMembership(r) ==
  /\ pc[r] = "read"
  /\ IF state[target[r]] # "absent"
       THEN /\ seen' = [seen EXCEPT ![r] = <<state[target[r]], role[target[r]]>>]
            /\ Goto(r, "count")
            /\ UNCHANGED <<lock, actor, change, target>>
       ELSE End(r)
  /\ UNCHANGED <<rowVars, supers>>

(* Taking an accepted manager away asks for another one. *)
TakesManager(r) == seen[r] = <<"ACCEPTED", "MANAGER">> /\ change[r] # "MANAGER"

CountManagers(r) ==
  /\ pc[r] = "count"
  /\ IF TakesManager(r) /\ Cardinality(Managers) <= 1
       THEN End(r)
       ELSE /\ Goto(r, "write")
            /\ UNCHANGED <<lock, actor, change, target, seen>>
  /\ UNCHANGED <<rowVars, supers>>

(* The three writes, each with the commit that releases the organization. *)

(* Mutant: the row is written back as it was read, status and all. *)
SetRoleAndStatus(r) ==
  /\ pc[r] = "write" /\ change[r] \in Role
  /\ IF state[target[r]] # "absent"
       THEN /\ role' = [role EXCEPT ![target[r]] = change[r]]
            /\ state' = [state EXCEPT ![target[r]] = seen[r][1]]
       ELSE UNCHANGED <<role, state>>
  /\ End(r)
  /\ UNCHANGED <<member, supers>>

SetRole(r) ==
  /\ pc[r] = "write" /\ change[r] \in Role
  /\ IF state[target[r]] # "absent"
       THEN role' = [role EXCEPT ![target[r]] = change[r]]
       ELSE UNCHANGED role
  /\ End(r)
  /\ UNCHANGED <<member, state, supers>>

Remove(r) ==
  /\ pc[r] = "write" /\ change[r] = "remove"
  /\ state' = [state EXCEPT ![target[r]] = "absent"]
  /\ member' = [member EXCEPT ![target[r]] = None]
  /\ role' = [role EXCEPT ![target[r]] = "MEMBER"]
  /\ End(r)
  /\ UNCHANGED supers

(* Nobody invites himself; a unique index keeps a second row for the same
   administrator out, as it does a second pending one for the same address. *)
Invite(r, m, u, p) ==
  /\ pc[r] = "write" /\ change[r] = "invite"
  /\ state[m] = "absent"
  /\ u # actor[r]
  /\ \A n \in Row : member[n] # u
  /\ member' = [member EXCEPT ![m] = u]
  /\ role' = [role EXCEPT ![m] = p]
  /\ state' = [state EXCEPT ![m] = "PENDING"]
  /\ End(r)
  /\ UNCHANGED supers

(* The connection is lost, the insert violates an index, or the server dies:
   the transaction is rolled back. *)
Abort(r) ==
  /\ pc[r] # "idle"
  /\ End(r)
  /\ UNCHANGED <<rowVars, supers>>

-----------------------------------------------------------------------------
(* The invited answer under the lock of the membership row alone; whoever else
   writes that row waits for the commit. *)
AcceptInvitation(m) ==
  /\ state[m] = "PENDING"
  /\ state' = [state EXCEPT ![m] = "ACCEPTED"]
  /\ UNCHANGED <<member, role, supers, lock, requestVars>>

RejectInvitation(m) ==
  /\ state[m] = "PENDING"
  /\ state' = [state EXCEPT ![m] = "absent"]
  /\ member' = [member EXCEPT ![m] = None]
  /\ role' = [role EXCEPT ![m] = "MEMBER"]
  /\ UNCHANGED <<supers, lock, requestVars>>

(* An operator changes admins.role; the FOR SHARE lock that isCurrentManager
   takes on the row of a super administrator makes the change wait. *)
Demote(u) ==
  /\ u \in supers
  /\ \A r \in Request : actor[r] = u => pc[r] \notin {"read", "count", "write"}
  /\ supers' = supers \ {u}
  /\ UNCHANGED <<rowVars, lock, requestVars>>

-----------------------------------------------------------------------------
Next ==
  \/ \E r \in Request :
       \/ \E u \in User, c \in Change, m \in Row \cup {None} : Ask(r, u, c, m)
       \/ \E m \in Row, u \in User, p \in Role : Invite(r, m, u, p)
       \/ LockOrganization(r) \/ Authorize(r) \/ ReadMembership(r) \/ CountManagers(r)
       \/ SetRole(r) \/ Remove(r) \/ Abort(r)
  \/ \E m \in Row : AcceptInvitation(m) \/ RejectInvitation(m)
  \/ \E u \in User : Demote(u)

Spec == Init /\ [][Next]_vars

-----------------------------------------------------------------------------
(* An organization never loses its last accepted manager, however demotions,
   removals and answers to invitations interleave. *)
ManagerRemains == Managers # {}

(* Whoever changes or removes a membership is a manager at the moment the
   change commits, not only when the request came in.  The one change of a row
   that is not a manager's is its own invitee's answer. *)
ChangesByManagers ==
  [][\A r \in Request :
       pc[r] = "write" /\ rowVars' # rowVars /\ pc'[r] = "idle" => IsManager(actor[r])]_vars

(* Accepting and changing the role at the same time loses neither: an accepted
   membership is never pending again. *)
AcceptedStaysAccepted ==
  [][\A m \in Row : state[m] = "ACCEPTED" => state'[m] # "PENDING"]_vars
=============================================================================
