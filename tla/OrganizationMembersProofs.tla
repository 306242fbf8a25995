---------------------- MODULE OrganizationMembersProofs ----------------------
(***************************************************************************)
(* An organization keeps a manager, and only managers change it, for any    *)
(* number of administrators, memberships and concurrent requests.           *)
(*                                                                         *)
(* ManagerRemains is not inductive: a request that is about to write must   *)
(* know that its write leaves somebody.  It does for two reasons.  If it    *)
(* takes away a membership that was an accepted manager when it was read,   *)
(* it has counted another.  If the membership was not, the managers there   *)
(* were at that moment are others, even when the membership itself is       *)
(* accepted before the write.  Neither can go away before the write, for    *)
(* whoever takes a manager away holds the organization row.                 *)
(***************************************************************************)
EXTENDS OrganizationMembers, FiniteSetTheorems, TLAPS

OtherManager(r) == \E m \in Managers : m # target[r]

(* A transaction past its check acts for a manager, and past its read on an
   existing row; its write leaves a manager. *)
Guarded ==
  \A r \in Request :
    /\ pc[r] \in {"read", "count", "write"} => IsManager(actor[r])
    /\ pc[r] = "count" /\ seen[r] # <<"ACCEPTED", "MANAGER">> => OtherManager(r)
    /\ pc[r] = "write" /\ change[r] \in {"MEMBER", "remove"} => OtherManager(r)

IInv == TypeOK /\ ManagerRemains /\ Guarded

(* At most one transaction is open: the organization row has one holder. *)
LEMMA OneTransaction ==
  ASSUME TypeOK, NEW r \in Request, NEW q \in Request,
         pc[r] \in InTransaction, pc[q] \in InTransaction
  PROVE  r = q
BY NoneAssumption DEF TypeOK

(* More than one manager: one of them is not the given row. *)
LEMMA AnotherOne ==
  ASSUME NEW t, IsFiniteSet(Row), ~(Cardinality(Managers) <= 1)
  PROVE  \E m \in Managers : m # t
<1> SUFFICES ASSUME \A m \in Managers : m = t PROVE FALSE
  OBVIOUS
<1>1. CASE Managers = {}
  BY <1>1, FS_EmptySet
<1>2. CASE Managers # {}
  <2>1. Managers = {t}
    BY <1>2
  <2> QED BY <2>1, FS_Singleton
<1> QED BY <1>1, <1>2

LEMMA InitEstablishes == Init => IInv
<1> SUFFICES ASSUME Init PROVE IInv
  OBVIOUS
<1>1. TypeOK
  BY CreatorAssumption, NoneAssumption DEF Init, TypeOK, Role, State, Change, InTransaction
<1>2. ManagerRemains
  BY DEF Init, ManagerRemains, Managers
<1>3. Guarded
  BY DEF Init, Guarded
<1> QED BY <1>1, <1>2, <1>3 DEF IInv

-----------------------------------------------------------------------------
(* Giving up a request that has written nothing. *)
LEMMA GivingUp ==
  ASSUME TypeOK, NEW r \in Request, End(r), UNCHANGED <<rowVars, supers>>
  PROVE  TypeOK'
BY NoneAssumption DEF TypeOK, End, rowVars, InTransaction, Role, State, Change

(* Every action keeps the types, and with them the one holder of the lock. *)
LEMMA TypeNext == TypeOK /\ [Next]_vars => TypeOK'
<1> SUFFICES ASSUME TypeOK, [Next]_vars PROVE TypeOK'
  OBVIOUS
<1> USE NoneAssumption DEF TypeOK, rowVars, requestVars, InTransaction, Role, State, Change, Goto
<1>1. ASSUME NEW r \in Request, NEW u \in User, NEW c \in Change, NEW m \in Row \cup {None}, Ask(r, u, c, m)
      PROVE  TypeOK'
  BY <1>1 DEF Ask
<1>2. ASSUME NEW r \in Request, NEW m \in Row, NEW u \in User, NEW p \in Role, Invite(r, m, u, p)
      PROVE  TypeOK'
  BY <1>2 DEF Invite, End
<1>3. ASSUME NEW r \in Request, LockOrganization(r) PROVE TypeOK'
  BY <1>3 DEF LockOrganization
<1>4. ASSUME NEW r \in Request, Authorize(r) PROVE TypeOK'
  <2>1. CASE IsManager(actor[r])
    BY <1>4, <2>1 DEF Authorize
  <2>2. CASE ~IsManager(actor[r])
    BY <1>4, <2>2, GivingUp DEF Authorize
  <2> QED BY <2>1, <2>2
<1>5. ASSUME NEW r \in Request, ReadMembership(r) PROVE TypeOK'
  <2>0. target[r] \in Row
    BY <1>5 DEF ReadMembership
  <2>1. CASE state[target[r]] # "absent"
    BY <1>5, <2>0, <2>1 DEF ReadMembership
  <2>2. CASE state[target[r]] = "absent"
    BY <1>5, <2>2, GivingUp DEF ReadMembership
  <2> QED BY <2>1, <2>2
<1>6. ASSUME NEW r \in Request, CountManagers(r) PROVE TypeOK'
  <2>1. CASE TakesManager(r) /\ Cardinality(Managers) <= 1
    BY <1>6, <2>1, GivingUp DEF CountManagers
  <2>2. CASE ~(TakesManager(r) /\ Cardinality(Managers) <= 1)
    BY <1>6, <2>2 DEF CountManagers
  <2> QED BY <2>1, <2>2
<1>7. ASSUME NEW r \in Request, SetRole(r) PROVE TypeOK'
  BY <1>7 DEF SetRole, End
<1>8. ASSUME NEW r \in Request, Remove(r) PROVE TypeOK'
  BY <1>8 DEF Remove, End
<1>9. ASSUME NEW r \in Request, Abort(r) PROVE TypeOK'
  BY <1>9, GivingUp DEF Abort
<1>10. ASSUME NEW m \in Row, AcceptInvitation(m) PROVE TypeOK'
  BY <1>10 DEF AcceptInvitation
<1>11. ASSUME NEW m \in Row, RejectInvitation(m) PROVE TypeOK'
  BY <1>11 DEF RejectInvitation
<1>12. ASSUME NEW u \in User, Demote(u) PROVE TypeOK'
  BY <1>12 DEF Demote
<1>13. CASE UNCHANGED vars
  BY <1>13 DEF vars
<1> QED
  BY <1>1, <1>2, <1>3, <1>4, <1>5, <1>6, <1>7, <1>8, <1>9, <1>10, <1>11, <1>12, <1>13 DEF Next

-----------------------------------------------------------------------------
(* A step that takes nobody's management away keeps what is guarded of a
   request it leaves alone. *)
LEMMA UntouchedRequest ==
  ASSUME Guarded, NEW r \in Request,
         pc'[r] = pc[r], actor'[r] = actor[r], change'[r] = change[r],
         target'[r] = target[r], seen'[r] = seen[r],
         supers' = supers, Managers \subseteq Managers',
         \A m \in Managers : member'[m] = member[m]
  PROVE  /\ pc'[r] \in {"read", "count", "write"} => IsManager(actor[r])'
         /\ pc'[r] = "count" /\ seen'[r] # <<"ACCEPTED", "MANAGER">> => OtherManager(r)'
         /\ pc'[r] = "write" /\ change'[r] \in {"MEMBER", "remove"} => OtherManager(r)'
BY DEF Guarded, IsManager, OtherManager

(* While one transaction is open the other requests are outside of theirs,
   where nothing is guarded: only that request matters. *)
LEMMA OnlyTheHolder ==
  ASSUME TypeOK, NEW r \in Request, pc[r] \in InTransaction,
         pc' = [pc EXCEPT ![r] = pc'[r]],
         /\ pc'[r] \in {"read", "count", "write"} => IsManager(actor[r])'
         /\ pc'[r] = "count" /\ seen'[r] # <<"ACCEPTED", "MANAGER">> => OtherManager(r)'
         /\ pc'[r] = "write" /\ change'[r] \in {"MEMBER", "remove"} => OtherManager(r)'
  PROVE  Guarded'
<1> SUFFICES ASSUME NEW q \in Request, q # r
             PROVE  pc'[q] \notin {"read", "count", "write"}
  BY DEF Guarded
<1>1. pc'[q] = pc[q]
  BY DEF TypeOK
<1>2. pc[q] \notin InTransaction
  BY OneTransaction
<1> QED BY <1>1, <1>2 DEF InTransaction

(* A write that ends the open transaction leaves nothing guarded. *)
LEMMA AfterTheWrite ==
  ASSUME TypeOK, NEW r \in Request, pc[r] \in InTransaction, End(r)
  PROVE  Guarded'
<1>1. pc'[r] = "idle" /\ pc' = [pc EXCEPT ![r] = pc'[r]]
  BY DEF End, TypeOK
<1> QED BY <1>1, OnlyTheHolder

(* Every step keeps a manager and keeps what is guarded. *)
LEMMA ManagersNext == IInv /\ [Next]_vars => ManagerRemains' /\ Guarded'
<1> SUFFICES ASSUME TypeOK, ManagerRemains, Guarded, [Next]_vars
             PROVE  ManagerRemains' /\ Guarded'
  BY DEF IInv
<1> DEFINE Goal == ManagerRemains' /\ Guarded'
<1> USE DEF rowVars, requestVars
<1>1. ASSUME NEW r \in Request, NEW u \in User, NEW c \in Change, NEW m \in Row \cup {None}, Ask(r, u, c, m)
      PROVE  Goal
  <2>1. Managers' = Managers
    BY <1>1 DEF Ask, Managers
  <2>2. pc'[r] = "lock" /\ \A q \in Request \ {r} : pc'[q] = pc[q] /\ actor'[q] = actor[q] /\ change'[q] = change[q] /\ target'[q] = target[q] /\ seen'[q] = seen[q]
    BY <1>1 DEF Ask, Goto, TypeOK
  <2>3. supers' = supers /\ member' = member
    BY <1>1 DEF Ask
  <2> QED BY <2>1, <2>2, <2>3, UntouchedRequest DEF Guarded, ManagerRemains
<1>2. ASSUME NEW r \in Request, NEW m \in Row, NEW u \in User, NEW p \in Role, Invite(r, m, u, p)
      PROVE  Goal
  <2>1. Managers \subseteq Managers'
    BY <1>2 DEF Invite, Managers, TypeOK
  <2>2. Guarded'
    BY <1>2, AfterTheWrite DEF Invite, InTransaction
  <2> QED BY <2>1, <2>2 DEF ManagerRemains
<1>3. ASSUME NEW r \in Request, LockOrganization(r) PROVE Goal
  <2>1. Managers' = Managers
    BY <1>3 DEF LockOrganization, Managers
  <2>2. pc'[r] = "authorize" /\ \A q \in Request \ {r} : pc'[q] = pc[q]
    BY <1>3 DEF LockOrganization, Goto, TypeOK
  <2>3. UNCHANGED <<supers, member, actor, change, target, seen>>
    BY <1>3 DEF LockOrganization
  <2> QED BY <2>1, <2>2, <2>3, UntouchedRequest DEF Guarded, ManagerRemains
<1>4. ASSUME NEW r \in Request, Authorize(r) PROVE Goal
  <2>1. Managers' = Managers /\ UNCHANGED <<member, supers>>
    BY <1>4 DEF Authorize, Managers
  <2>2. pc[r] \in InTransaction
    BY <1>4 DEF Authorize, InTransaction
  <2>3. CASE ~IsManager(actor[r])
    BY <1>4, <2>1, <2>2, <2>3, AfterTheWrite DEF Authorize, ManagerRemains
  <2>4. CASE IsManager(actor[r])
    <3>1. UNCHANGED <<actor, change, target, seen>>
      BY <1>4, <2>4 DEF Authorize
    <3>2. pc' = [pc EXCEPT ![r] = pc'[r]] /\ pc'[r] = IF change[r] = "invite" THEN "write" ELSE "read"
      BY <1>4, <2>4 DEF Authorize, Goto, TypeOK
    <3>3. IsManager(actor[r])'
      BY <2>1, <2>4, <3>1 DEF IsManager
    <3> QED BY <2>1, <2>2, <3>1, <3>2, <3>3, OnlyTheHolder DEF ManagerRemains
  <2> QED BY <2>3, <2>4
<1>5. ASSUME NEW r \in Request, ReadMembership(r) PROVE Goal
  <2>1. Managers' = Managers /\ UNCHANGED <<member, supers>>
    BY <1>5 DEF ReadMembership, Managers
  <2>2. pc[r] \in InTransaction
    BY <1>5 DEF ReadMembership, InTransaction
  <2>3. CASE state[target[r]] = "absent"
    BY <1>5, <2>1, <2>2, <2>3, AfterTheWrite DEF ReadMembership, ManagerRemains
  <2>4. CASE state[target[r]] # "absent"
    <3>1. UNCHANGED <<actor, change, target>>
      BY <1>5, <2>4 DEF ReadMembership
    <3>2. pc' = [pc EXCEPT ![r] = pc'[r]] /\ pc'[r] = "count"
      BY <1>5, <2>4 DEF ReadMembership, Goto, TypeOK
    <3>3. IsManager(actor[r])'
      BY <1>5, <2>1, <3>1 DEF ReadMembership, IsManager, Guarded
    <3>4. seen'[r] = <<state[target[r]], role[target[r]]>>
      BY <1>5, <2>4 DEF ReadMembership, TypeOK
    <3>5. ASSUME seen'[r] # <<"ACCEPTED", "MANAGER">> PROVE OtherManager(r)'
      <4>1. target[r] \notin Managers
        BY <3>4, <3>5 DEF Managers
      <4> QED BY <2>1, <3>1, <4>1 DEF ManagerRemains, OtherManager
    <3> QED BY <2>1, <2>2, <3>1, <3>2, <3>3, <3>5, OnlyTheHolder DEF ManagerRemains
  <2> QED BY <2>3, <2>4
<1>6. ASSUME NEW r \in Request, CountManagers(r) PROVE Goal
  <2>1. Managers' = Managers /\ UNCHANGED <<member, supers>>
    BY <1>6 DEF CountManagers, Managers
  <2>2. pc[r] \in InTransaction
    BY <1>6 DEF CountManagers, InTransaction
  <2>3. CASE TakesManager(r) /\ Cardinality(Managers) <= 1
    BY <1>6, <2>1, <2>2, <2>3, AfterTheWrite DEF CountManagers, ManagerRemains
  <2>4. CASE ~(TakesManager(r) /\ Cardinality(Managers) <= 1)
    <3>1. UNCHANGED <<actor, change, target, seen>>
      BY <1>6, <2>4 DEF CountManagers
    <3>2. pc' = [pc EXCEPT ![r] = pc'[r]] /\ pc'[r] = "write"
      BY <1>6, <2>4 DEF CountManagers, Goto, TypeOK
    <3>3. IsManager(actor[r])'
      BY <1>6, <2>1, <3>1 DEF CountManagers, IsManager, Guarded
    <3>4. ASSUME change[r] \in {"MEMBER", "remove"} PROVE OtherManager(r)'
      <4>1. CASE seen[r] # <<"ACCEPTED", "MANAGER">>
        BY <1>6, <2>1, <3>1, <4>1 DEF CountManagers, Guarded, OtherManager
      <4>2. CASE seen[r] = <<"ACCEPTED", "MANAGER">>
        <5>1. ~(Cardinality(Managers) <= 1)
          BY <2>4, <3>4, <4>2 DEF TakesManager
        <5> QED BY <2>1, <3>1, <5>1, AnotherOne, RowAssumption DEF OtherManager
      <4> QED BY <4>1, <4>2
    <3> QED BY <2>1, <2>2, <3>1, <3>2, <3>3, <3>4, OnlyTheHolder DEF ManagerRemains
  <2> QED BY <2>3, <2>4
<1>7. ASSUME NEW r \in Request, SetRole(r) PROVE Goal
  <2>1. Guarded'
    BY <1>7, AfterTheWrite DEF SetRole, InTransaction
  <2>2. \E m \in Managers : m # target[r] \/ change[r] = "MANAGER"
    BY <1>7 DEF SetRole, Guarded, OtherManager, ManagerRemains, Role
  <2>3. PICK m \in Managers : m # target[r] \/ change[r] = "MANAGER"
    BY <2>2
  <2>4. m \in Managers'
    BY <1>7, <2>3 DEF SetRole, Managers, TypeOK
  <2> QED BY <2>1, <2>4 DEF ManagerRemains
<1>8. ASSUME NEW r \in Request, Remove(r) PROVE Goal
  <2>1. Guarded'
    BY <1>8, AfterTheWrite DEF Remove, InTransaction
  <2>2. PICK m \in Managers : m # target[r]
    BY <1>8 DEF Remove, Guarded, OtherManager
  <2>3. m \in Managers'
    BY <1>8, <2>2 DEF Remove, Managers, TypeOK
  <2> QED BY <2>1, <2>3 DEF ManagerRemains
<1>9. ASSUME NEW r \in Request, Abort(r) PROVE Goal
  <2>1. Managers' = Managers /\ UNCHANGED <<member, supers>>
    BY <1>9 DEF Abort, Managers
  <2>2. pc'[r] = "idle" /\ \A q \in Request \ {r} : pc'[q] = pc[q] /\ actor'[q] = actor[q] /\ change'[q] = change[q] /\ target'[q] = target[q] /\ seen'[q] = seen[q]
    BY <1>9 DEF Abort, End, TypeOK
  <2> QED BY <2>1, <2>2, UntouchedRequest DEF Guarded, ManagerRemains
<1>10. ASSUME NEW m \in Row, AcceptInvitation(m) PROVE Goal
  <2>1. Managers \subseteq Managers'
    BY <1>10 DEF AcceptInvitation, Managers, TypeOK
  <2>2. UNCHANGED <<supers, member, pc, actor, change, target, seen>>
    BY <1>10 DEF AcceptInvitation
  <2> QED BY <2>1, <2>2, UntouchedRequest DEF Guarded, ManagerRemains
<1>11. ASSUME NEW m \in Row, RejectInvitation(m) PROVE Goal
  <2>1. Managers \subseteq Managers' /\ \A n \in Managers : member'[n] = member[n]
    BY <1>11 DEF RejectInvitation, Managers, TypeOK
  <2>2. UNCHANGED <<supers, pc, actor, change, target, seen>>
    BY <1>11 DEF RejectInvitation
  <2> QED BY <2>1, <2>2, UntouchedRequest DEF Guarded, ManagerRemains
<1>12. ASSUME NEW u \in User, Demote(u) PROVE Goal
  <2>1. Managers' = Managers /\ UNCHANGED <<member, pc, actor, change, target, seen>>
    BY <1>12 DEF Demote, Managers
  <2>2. supers' = supers \ {u} /\ \A r \in Request : pc[r] \in {"read", "count", "write"} => actor[r] # u
    BY <1>12 DEF Demote
  <2> QED BY <2>1, <2>2 DEF Guarded, OtherManager, IsManager, ManagerRemains
<1>13. CASE UNCHANGED vars
  BY <1>13 DEF vars, Guarded, OtherManager, IsManager, Managers, ManagerRemains
<1> QED
  BY <1>1, <1>2, <1>3, <1>4, <1>5, <1>6, <1>7, <1>8, <1>9, <1>10, <1>11, <1>12, <1>13 DEF Next

-----------------------------------------------------------------------------
(* The invariant with everything it rests on. *)
LEMMA Invariance == Spec => []IInv
<1>1. IInv /\ [Next]_vars => IInv'
  BY TypeNext, ManagersNext DEF IInv
<1> QED BY <1>1, InitEstablishes, PTL DEF Spec

(* The variables have their types, one transaction at a time holds the
   organization row, and a person has at most one membership. *)
THEOREM MembersTypeOK == Spec => []TypeOK
BY Invariance, PTL DEF IInv

(* An organization always has an accepted manager (the last_manager checks of
   updateMembershipRole and removeMembership are enough). *)
THEOREM MembersManagerRemains == Spec => []ManagerRemains
BY Invariance, PTL DEF IInv

(* Whoever commits a change is a manager at that moment. *)
THEOREM MembersChangesByManagers == Spec => ChangesByManagers
<1>1. IInv /\ [Next]_vars
        => [\A r \in Request :
              pc[r] = "write" /\ rowVars' # rowVars /\ pc'[r] = "idle" => IsManager(actor[r])]_vars
  BY DEF IInv, Guarded
<1> QED BY <1>1, Invariance, PTL DEF Spec, ChangesByManagers

(* A role change or a removal never makes an accepted membership pending. *)
THEOREM MembersAcceptedStaysAccepted == Spec => AcceptedStaysAccepted
<1>1. TypeOK /\ [Next]_vars
        => [\A m \in Row : state[m] = "ACCEPTED" => state'[m] # "PENDING"]_vars
  <2> SUFFICES ASSUME TypeOK, Next, NEW m \in Row, state[m] = "ACCEPTED"
               PROVE  state'[m] # "PENDING"
    OBVIOUS
  <2> USE DEF TypeOK, rowVars
  <2>1. ASSUME NEW r \in Request, NEW n \in Row, NEW u \in User, NEW p \in Role, Invite(r, n, u, p)
        PROVE  state'[m] # "PENDING"
    BY <2>1 DEF Invite
  <2>2. ASSUME NEW r \in Request, Remove(r) PROVE state'[m] # "PENDING"
    BY <2>2 DEF Remove
  <2>3. ASSUME NEW n \in Row, AcceptInvitation(n) \/ RejectInvitation(n) PROVE state'[m] # "PENDING"
    BY <2>3 DEF AcceptInvitation, RejectInvitation
  <2> QED
    BY <2>1, <2>2, <2>3 DEF Next, Ask, LockOrganization, Authorize, ReadMembership, CountManagers,
                            SetRole, Abort, Demote
<1> QED BY <1>1, Invariance, PTL DEF Spec, AcceptedStaysAccepted, IInv
=============================================================================
