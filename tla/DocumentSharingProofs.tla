------------------------ MODULE DocumentSharingProofs ------------------------
(***************************************************************************)
(* Owners, shares and the audit log of documents, for any number of         *)
(* documents, organizations, administrators and concurrent requests.        *)
(*                                                                         *)
(* Two facts carry everything.  A row lock has one holder, so the document  *)
(* that a transaction has locked and compared keeps its owner until that    *)
(* transaction ends.  And a transaction that still waits for an             *)
(* organization holds only smaller ones.                                    *)
(***************************************************************************)
EXTENDS DocumentSharing, WellFoundedInduction, TLAPS

(* A request that has locked its document acts for the owner; past its check
   its actor may. *)
ComparedBy(r) ==
  /\ pc[r] \in {"authorize", "write"} =>
       req[r].owner = owner[req[r].doc] /\ status[req[r].doc] \in Active
  /\ pc[r] = "write" => Allowed(req[r])

Compared == \A r \in Request : ComparedBy(r)

(* The rules of Ask that the writes rely on. *)
Intended ==
  \A r \in Request :
    pc[r] # "idle" /\ req[r].op \in {"share", "transfer"} => req[r].target # req[r].owner

(* Organizations are locked from the smallest on. *)
LockedInOrder ==
  \A r \in Request : pc[r] = "organizations" =>
    \A o \in HeldBy(r), p \in Needs(r) \ HeldBy(r) : o < p

IInv == TypeOK /\ OwnerNeverShared /\ TransfersChain /\ Compared /\ Intended /\ LockedInOrder

(* The smallest of one or two organizations. *)
LEMMA MinOrg ==
  ASSUME NEW S \in SUBSET Org, NEW a \in Org, NEW b \in Org, S \subseteq {a, b}, S # {}
  PROVE  Min(S) \in S /\ \A o \in S : Min(S) <= o
<1>0. a \in Int /\ b \in Int
  BY DEF Org
<1>1. \E x \in S : \A o \in S : x <= o
  <2>1. CASE a \in S /\ b \in S /\ b < a
    BY <1>0, <2>1
  <2>2. CASE a \in S /\ ~(b \in S /\ b < a)
    BY <1>0, <2>2
  <2>3. CASE a \notin S
    <3>1. S = {b}
      BY <2>3
    <3> QED BY <1>0, <3>1
  <2> QED BY <2>1, <2>2, <2>3
<1> QED BY <1>1 DEF Min

(* What a request asks for consists of organizations. *)
LEMMA NeedsOrgs ==
  ASSUME TypeOK, NEW r \in Request, pc[r] # "idle"
  PROVE  /\ req[r] \in Intent
         /\ req[r].actor \in User /\ req[r].doc \in Doc /\ req[r].op \in Op
         /\ req[r].owner \in Org /\ req[r].target \in Org
         /\ Needs(r) \subseteq {req[r].owner, req[r].target}
         /\ Needs(r) \in SUBSET Org
<1>1. req[r] \in Intent
  BY DEF TypeOK, HoldsItsLocks
<1> QED BY <1>1 DEF Intent, Needs

(* The next organization is one that is needed and not held, and the smallest. *)
LEMMA NextOrgLeast ==
  ASSUME TypeOK, NEW r \in Request, pc[r] = "organizations"
  PROVE  /\ NextOrg(r) \in Needs(r) \ HeldBy(r)
         /\ \A o \in Needs(r) \ HeldBy(r) : NextOrg(r) <= o
<1> DEFINE S == Needs(r) \ HeldBy(r)
<1>1. S # {}
  <2>1. HeldBy(r) \subseteq Needs(r) /\ HeldBy(r) # Needs(r)
    BY DEF TypeOK, HoldsItsLocks
  <2> HIDE DEF S
  <2>2. \A A, B : A \subseteq B /\ A # B => B \ A # {}
    OBVIOUS
  <2> QED BY <2>1, <2>2 DEF S
<1>2. S \in SUBSET Org /\ S \subseteq {req[r].owner, req[r].target}
  BY NeedsOrgs
<1>3. req[r].owner \in Org /\ req[r].target \in Org
  BY NeedsOrgs
<1>4. Min(S) \in S /\ \A o \in S : Min(S) <= o
  BY <1>1, <1>2, <1>3, MinOrg
<1> QED BY <1>4 DEF NextOrg

(* Nobody has locked anything when the documents have just been reserved. *)
LEMMA InitEstablishes == Init => IInv
<1> SUFFICES ASSUME Init PROVE IInv
  OBVIOUS
<1>1. TypeOK
  BY NoneAssumption DEF Init, TypeOK, HoldsItsLocks, HeldBy
<1>2. OwnerNeverShared /\ TransfersChain
  BY DEF Init, OwnerNeverShared, TransfersChain
<1>3. Compared /\ Intended /\ LockedInOrder
  BY DEF Init, Compared, ComparedBy, Intended, LockedInOrder
<1> QED BY <1>1, <1>2, <1>3 DEF IInv

-----------------------------------------------------------------------------
(* A request whose place, wishes and locks a step leaves alone still holds
   what it should. *)
LEMMA Untouched ==
  ASSUME NEW q, HoldsItsLocks(q),
         pc'[q] = pc[q], req'[q] = req[q],
         \A o \in Org : orgLock'[o] = q <=> orgLock[o] = q,
         \A d \in Doc : docLock'[d] = q <=> docLock[d] = q
  PROVE  HoldsItsLocks(q)' /\ HeldBy(q)' = HeldBy(q) /\ Needs(q)' = Needs(q)
<1>1. HeldBy(q)' = HeldBy(q)
  BY DEF HeldBy
<1>2. Needs(q)' = Needs(q)
  BY DEF Needs
<1> QED BY <1>1, <1>2 DEF HoldsItsLocks

(* The end of a request releases its locks and disturbs no other request. *)
LEMMA EndReleases ==
  ASSUME TypeOK, NEW r \in Request, End(r)
  PROVE  /\ orgLock' \in [Org -> Request \cup {None}]
         /\ docLock' \in [Doc -> Request \cup {None}]
         /\ pc' \in [Request -> {"idle", "organizations", "document", "authorize", "write"}]
         /\ req' \in [Request -> Intent \cup {None}]
         /\ pc'[r] = "idle"
         /\ \A q \in Request \ {r} :
              /\ pc'[q] = pc[q] /\ req'[q] = req[q]
              /\ HeldBy(q)' = HeldBy(q) /\ Needs(q)' = Needs(q)
         /\ \A q \in Request : HoldsItsLocks(q)'
<1>1. /\ orgLock' \in [Org -> Request \cup {None}]
      /\ docLock' \in [Doc -> Request \cup {None}]
      /\ pc' \in [Request -> {"idle", "organizations", "document", "authorize", "write"}]
      /\ req' \in [Request -> Intent \cup {None}]
  BY DEF TypeOK, End
<1>2. pc'[r] = "idle" /\ req'[r] = None
  BY DEF TypeOK, End
<1>3. HoldsItsLocks(r)'
  <2>1. \A o \in Org : orgLock'[o] # r
    BY NoneAssumption DEF End
  <2>2. \A d \in Doc : docLock'[d] # r
    BY NoneAssumption DEF End
  <2> QED BY <1>2, <2>1, <2>2 DEF HoldsItsLocks, HeldBy
<1>4. ASSUME NEW q \in Request \ {r}
      PROVE  /\ pc'[q] = pc[q] /\ req'[q] = req[q]
             /\ HeldBy(q)' = HeldBy(q) /\ Needs(q)' = Needs(q)
             /\ HoldsItsLocks(q)'
  <2>1. pc'[q] = pc[q] /\ req'[q] = req[q]
    BY DEF TypeOK, End
  <2>2. \A o \in Org : orgLock'[o] = q <=> orgLock[o] = q
    BY NoneAssumption DEF TypeOK, End
  <2>3. \A d \in Doc : docLock'[d] = q <=> docLock[d] = q
    BY NoneAssumption DEF TypeOK, End
  <2>4. HoldsItsLocks(q)
    BY DEF TypeOK
  <2> QED BY <2>1, <2>2, <2>3, <2>4, Untouched
<1> QED BY <1>1, <1>2, <1>3, <1>4

-----------------------------------------------------------------------------
(* The types, action by action. *)
LEMMA AskType ==
  ASSUME TypeOK, NEW r \in Request, NEW q \in Intent, Ask(r, q)
  PROVE  TypeOK'
<1>1. /\ pc' = [pc EXCEPT ![r] = "organizations"]
      /\ req' = [req EXCEPT ![r] = q]
      /\ UNCHANGED <<docVars, memberVars, lockVars>>
      /\ pc[r] = "idle"
  BY DEF Ask
<1>2. pc'[r] = "organizations" /\ req'[r] = q /\ q # None
  BY <1>1, NoneAssumption DEF TypeOK
<1>3. HoldsItsLocks(r)'
  <2>1. HeldBy(r)' = {}
    BY <1>1 DEF TypeOK, HoldsItsLocks, HeldBy, lockVars
  <2>2. Needs(r)' # {}
    BY DEF Needs
  <2>3. \A d \in Doc : docLock'[d] # r
    BY <1>1 DEF TypeOK, HoldsItsLocks, lockVars
  <2> QED BY <1>2, <2>1, <2>2, <2>3 DEF HoldsItsLocks
<1>4. ASSUME NEW p \in Request \ {r} PROVE HoldsItsLocks(p)'
  <2>1. pc'[p] = pc[p] /\ req'[p] = req[p] /\ HoldsItsLocks(p)
    BY <1>1 DEF TypeOK
  <2> QED BY <1>1, <2>1, Untouched DEF lockVars
<1>5. /\ pc' \in [Request -> {"idle", "organizations", "document", "authorize", "write"}]
      /\ req' \in [Request -> Intent \cup {None}]
  BY <1>1 DEF TypeOK
<1> QED BY <1>1, <1>3, <1>4, <1>5 DEF TypeOK, docVars, memberVars, lockVars

LEMMA LockOrganizationType ==
  ASSUME TypeOK, NEW r \in Request, LockOrganization(r)
  PROVE  TypeOK'
<1> DEFINE o == NextOrg(r)
<1>1. o \in Needs(r) \ HeldBy(r) /\ o \in Org
  BY NextOrgLeast, NeedsOrgs DEF LockOrganization
<1> HIDE DEF o
<1>2. /\ pc[r] = "organizations" /\ orgLock[o] = None
      /\ orgLock' = [orgLock EXCEPT ![o] = r]
      /\ req' = req
      /\ UNCHANGED <<docVars, memberVars, docLock>>
  BY DEF LockOrganization, Lock, Goto, o
<1>3. HeldBy(r)' = HeldBy(r) \cup {o} /\ Needs(r)' = Needs(r)
  BY <1>1, <1>2 DEF TypeOK, HeldBy, Needs
<1>4. \/ Needs(r) = HeldBy(r) \cup {o} /\ pc' = [pc EXCEPT ![r] = "document"]
      \/ Needs(r) # HeldBy(r) \cup {o} /\ pc' = pc
  BY DEF LockOrganization, Lock, Goto, o
<1>5. HoldsItsLocks(r) /\ req[r] # None
  BY <1>2 DEF TypeOK, HoldsItsLocks
<1>6. HoldsItsLocks(r)'
  <2>1. CASE Needs(r) = HeldBy(r) \cup {o}
    <3>1. pc'[r] = "document"
      BY <1>4, <2>1 DEF TypeOK
    <3>2. \A d \in Doc : docLock'[d] # r
      BY <1>2, <1>5 DEF HoldsItsLocks
    <3> QED BY <1>2, <1>3, <1>5, <2>1, <3>1, <3>2 DEF HoldsItsLocks
  <2>2. CASE Needs(r) # HeldBy(r) \cup {o}
    <3>1. pc'[r] = "organizations"
      BY <1>2, <1>4, <2>2 DEF TypeOK
    <3>2. \A d \in Doc : docLock'[d] # r
      BY <1>2, <1>5 DEF HoldsItsLocks
    <3>3. HeldBy(r)' \subseteq Needs(r)'
      BY <1>1, <1>2, <1>3, <1>5 DEF HoldsItsLocks
    <3> QED BY <1>2, <1>3, <1>5, <2>2, <3>1, <3>2, <3>3 DEF HoldsItsLocks
  <2> QED BY <2>1, <2>2
<1>7. ASSUME NEW p \in Request \ {r} PROVE HoldsItsLocks(p)'
  <2>1. pc'[p] = pc[p] /\ req'[p] = req[p] /\ HoldsItsLocks(p)
    BY <1>2, <1>4 DEF TypeOK
  <2>2. \A x \in Org : orgLock'[x] = p <=> orgLock[x] = p
    BY <1>1, <1>2, NoneAssumption DEF TypeOK
  <2> QED BY <1>2, <2>1, <2>2, Untouched
<1>8. pc' \in [Request -> {"idle", "organizations", "document", "authorize", "write"}]
  BY <1>4 DEF TypeOK
<1>9. orgLock' \in [Org -> Request \cup {None}]
  BY <1>2 DEF TypeOK
<1> QED BY <1>2, <1>6, <1>7, <1>8, <1>9 DEF TypeOK, docVars, memberVars

(* The end of a request, whatever it has written. *)
LEMMA EndType ==
  ASSUME TypeOK, NEW r \in Request, End(r),
         owner' \in [Doc -> Org], shares' \in [Doc -> SUBSET Org],
         status' \in [Doc -> {"uploading", "live", "deleted", "gone"}],
         audit' \in [Doc -> Seq(Org \X Org)], UNCHANGED memberVars
  PROVE  TypeOK'
BY EndReleases DEF TypeOK, memberVars

LEMMA LockDocumentType ==
  ASSUME TypeOK, NEW r \in Request, LockDocument(r)
  PROVE  TypeOK'
<1>1. UNCHANGED <<docVars, memberVars>>
  BY DEF LockDocument
<1>2. CASE End(r)
  BY <1>1, <1>2, EndType DEF TypeOK, docVars
<1>3. CASE ~End(r)
  <2> DEFINE e == req[r].doc
  <2>1. pc[r] = "document" /\ docLock[e] = None
    BY DEF LockDocument
  <2>2. /\ docLock' = [docLock EXCEPT ![e] = r]
        /\ pc' = [pc EXCEPT ![r] = "authorize"]
        /\ UNCHANGED <<req, orgLock>>
    BY <1>3 DEF LockDocument, Goto
  <2>3. e \in Doc
    BY <2>1, NeedsOrgs
  <2> HIDE DEF e
  <2>4. HoldsItsLocks(r)
    BY DEF TypeOK
  <2>5. pc'[r] = "authorize" /\ docLock'[e] = r
    BY <2>2, <2>3 DEF TypeOK
  <2>6. \A d \in Doc : docLock'[d] = r <=> e = d
    BY <2>1, <2>2, <2>3, <2>4 DEF TypeOK, HoldsItsLocks
  <2>7. HeldBy(r)' = HeldBy(r) /\ Needs(r)' = Needs(r)
    BY <2>2 DEF HeldBy, Needs
  <2>8. HoldsItsLocks(r)'
    BY <2>1, <2>2, <2>4, <2>5, <2>6, <2>7 DEF HoldsItsLocks, e
  <2>9. ASSUME NEW p \in Request \ {r} PROVE HoldsItsLocks(p)'
    <3>1. pc'[p] = pc[p] /\ req'[p] = req[p] /\ HoldsItsLocks(p)
      BY <2>2 DEF TypeOK
    <3>2. \A d \in Doc : docLock'[d] = p <=> docLock[d] = p
      BY <2>1, <2>2, <2>3, NoneAssumption DEF TypeOK
    <3> QED BY <2>2, <3>1, <3>2, Untouched
  <2>10. /\ pc' \in [Request -> {"idle", "organizations", "document", "authorize", "write"}]
         /\ docLock' \in [Doc -> Request \cup {None}]
    BY <2>2 DEF TypeOK
  <2> QED BY <1>1, <2>2, <2>8, <2>9, <2>10 DEF TypeOK, docVars, memberVars
<1> QED BY <1>2, <1>3

LEMMA AuthorizeType ==
  ASSUME TypeOK, NEW r \in Request, Authorize(r)
  PROVE  TypeOK'
<1>1. UNCHANGED <<docVars, memberVars>>
  BY DEF Authorize
<1>2. CASE End(r)
  BY <1>1, <1>2, EndType DEF TypeOK, docVars
<1>3. CASE ~End(r)
  <2>1. pc[r] = "authorize" /\ pc' = [pc EXCEPT ![r] = "write"] /\ UNCHANGED <<req, lockVars>>
    BY <1>3 DEF Authorize, Goto
  <2>2. HoldsItsLocks(r) /\ pc'[r] = "write" /\ req'[r] = req[r]
    BY <2>1 DEF TypeOK
  <2>3. HeldBy(r)' = HeldBy(r) /\ Needs(r)' = Needs(r)
    BY <2>1 DEF HeldBy, Needs, lockVars
  <2>4. HoldsItsLocks(r)'
    BY <2>1, <2>2, <2>3 DEF HoldsItsLocks, lockVars
  <2>5. ASSUME NEW p \in Request \ {r} PROVE HoldsItsLocks(p)'
    <3>1. pc'[p] = pc[p] /\ req'[p] = req[p] /\ HoldsItsLocks(p)
      BY <2>1 DEF TypeOK
    <3> QED BY <2>1, <3>1, Untouched DEF lockVars
  <2>6. pc' \in [Request -> {"idle", "organizations", "document", "authorize", "write"}]
    BY <2>1 DEF TypeOK
  <2> QED BY <1>1, <2>1, <2>4, <2>5, <2>6 DEF TypeOK, docVars, memberVars, lockVars
<1> QED BY <1>2, <1>3

LEMMA WriteType ==
  ASSUME TypeOK, NEW r \in Request, Write(r)
  PROVE  TypeOK'
<1> DEFINE q == req[r]
<1>1. pc[r] = "write" /\ End(r) /\ UNCHANGED memberVars
  BY DEF Write, Share, Unshare, Transfer, Delete, Finalize
<1>2. q.doc \in Doc /\ q.owner \in Org /\ q.target \in Org
  BY <1>1, NeedsOrgs
<1>3. CASE Share(r)
  BY <1>1, <1>2, <1>3, EndType DEF TypeOK, Share
<1>4. CASE Unshare(r)
  BY <1>1, <1>2, <1>4, EndType DEF TypeOK, Unshare
<1>5. CASE Transfer(r)
  <2>1. audit' = [audit EXCEPT ![q.doc] = Append(@, <<q.owner, q.target>>)]
    BY <1>5 DEF Transfer
  <2>2. audit[q.doc] \in Seq(Org \X Org)
    BY <1>2 DEF TypeOK
  <2>3. Append(audit[q.doc], <<q.owner, q.target>>) \in Seq(Org \X Org)
    BY <1>2, <2>2
  <2>4. audit' \in [Doc -> Seq(Org \X Org)]
    BY <2>1, <2>3 DEF TypeOK
  <2> QED BY <1>1, <1>2, <1>5, <2>4, EndType DEF TypeOK, Transfer
<1>6. CASE Delete(r)
  BY <1>1, <1>6, EndType DEF TypeOK, Delete
<1>7. CASE Finalize(r)
  BY <1>1, <1>7, EndType DEF TypeOK, Finalize
<1> QED BY <1>3, <1>4, <1>5, <1>6, <1>7 DEF Write

(* What happens around the requests leaves their locks alone. *)
LEMMA AroundType ==
  ASSUME TypeOK, UNCHANGED <<owner, audit, lockVars, pc, req>>,
         shares' \in [Doc -> SUBSET Org],
         status' \in [Doc -> {"uploading", "live", "deleted", "gone"}],
         member' \in [Org -> SUBSET User], supers' \in SUBSET User
  PROVE  TypeOK'
<1>1. ASSUME NEW p \in Request PROVE HoldsItsLocks(p)'
  <2>1. HoldsItsLocks(p)
    BY DEF TypeOK
  <2> QED BY <2>1, Untouched DEF lockVars
<1> QED BY <1>1 DEF TypeOK, lockVars

LEMMA TypeNext == TypeOK /\ [Next]_vars => TypeOK'
<1> SUFFICES ASSUME TypeOK, [Next]_vars PROVE TypeOK'
  OBVIOUS
<1>1. CASE UNCHANGED vars
  BY <1>1, AroundType DEF TypeOK, vars, docVars, memberVars
<1>2. ASSUME NEW r \in Request, RequestStep(r) PROVE TypeOK'
  <2>1. CASE DetectDeadlock(r) \/ Abort(r)
    BY <2>1, EndType DEF DetectDeadlock, Abort, TypeOK, docVars
  <2> QED BY <1>2, <2>1, LockOrganizationType, LockDocumentType, AuthorizeType, WriteType
        DEF RequestStep
<1>3. ASSUME NEW r \in Request, NEW q \in Intent, Ask(r, q) PROVE TypeOK'
  BY <1>3, AskType
<1>4. ASSUME NEW d \in Doc, RollbackRow(d) PROVE TypeOK'
  BY <1>4, AroundType DEF TypeOK, RollbackRow, memberVars
<1>5. ASSUME NEW o \in Org, NEW u \in User, JoinOrganization(o, u) \/ LeaveOrganization(o, u)
      PROVE  TypeOK'
  BY <1>5, AroundType DEF TypeOK, JoinOrganization, LeaveOrganization, docVars
<1>6. ASSUME NEW u \in User, Demote(u) PROVE TypeOK'
  BY <1>6, AroundType DEF TypeOK, Demote, docVars
<1> QED BY <1>1, <1>2, <1>3, <1>4, <1>5, <1>6 DEF Next

-----------------------------------------------------------------------------
(* A step of one request leaves the place, the wishes and the organizations of
   every other one alone. *)
LEMMA StepsAlone ==
  ASSUME TypeOK, NEW r \in Request, RequestStep(r) \/ (\E w \in Intent : Ask(r, w)),
         NEW q \in Request, q # r
  PROVE  /\ pc'[q] = pc[q] /\ req'[q] = req[q]
         /\ HeldBy(q)' = HeldBy(q) /\ Needs(q)' = Needs(q)
<1>1. CASE End(r)
  BY <1>1, EndReleases
<1>2. CASE ~End(r)
  <2>1. pc'[q] = pc[q] /\ req'[q] = req[q]
    <3>1. CASE \E w \in Intent : Ask(r, w)
      BY <3>1 DEF Ask, TypeOK
    <3>2. CASE RequestStep(r)
      BY <1>2, <3>2 DEF RequestStep, LockOrganization, Lock, LockDocument, Authorize, Goto, Write,
        Share, Unshare, Transfer, Delete, Finalize, DetectDeadlock, Abort, TypeOK
    <3> QED BY <3>1, <3>2
  <2>2. \A o \in Org : orgLock'[o] = q <=> orgLock[o] = q
    <3>1. CASE LockOrganization(r)
      <4>1. orgLock' = [orgLock EXCEPT ![NextOrg(r)] = r] /\ orgLock[NextOrg(r)] = None
        BY <3>1 DEF LockOrganization, Lock
      <4> QED BY <4>1, NoneAssumption DEF TypeOK
    <3>2. CASE ~LockOrganization(r)
      <4>1. orgLock' = orgLock
        BY <1>2, <3>2 DEF RequestStep, Ask, LockDocument, Authorize, Write, Share, Unshare, Transfer,
          Delete, Finalize, DetectDeadlock, Abort, lockVars
      <4> QED BY <4>1
    <3> QED BY <3>1, <3>2
  <2> QED BY <2>1, <2>2 DEF HeldBy, Needs
<1> QED BY <1>1, <1>2

(* Two transactions never hold the same document. *)
LEMMA OwnDocument ==
  ASSUME TypeOK, NEW r \in Request, NEW q \in Request, q # r,
         pc[r] \in {"authorize", "write"}, pc[q] \in {"authorize", "write"}
  PROVE  req[q].doc # req[r].doc
<1>1. req[r].doc \in Doc /\ req[q].doc \in Doc
  BY NeedsOrgs
<1>2. docLock[req[r].doc] = r /\ docLock[req[q].doc] = q
  BY <1>1 DEF TypeOK, HoldsItsLocks
<1> QED BY <1>2

(* What a transaction has compared stays true as long as nobody writes its
   document or takes away a membership it relies on. *)
LEMMA StaysCompared ==
  ASSUME NEW q, ComparedBy(q), pc'[q] = pc[q], req'[q] = req[q],
         pc[q] \in {"authorize", "write"} =>
           owner'[req[q].doc] = owner[req[q].doc] /\ status'[req[q].doc] = status[req[q].doc],
         pc[q] = "write" => \A o \in Needs(q) :
           IsMember(o, req[q].actor) => IsMember(o, req[q].actor)'
  PROVE  ComparedBy(q)'
<1>1. pc'[q] \in {"authorize", "write"} =>
        req'[q].owner = owner'[req'[q].doc] /\ status'[req'[q].doc] \in Active
  BY DEF ComparedBy
<1>2. ASSUME pc[q] = "write" PROVE Allowed(req[q])'
  BY <1>2 DEF ComparedBy, Allowed, Needs
<1> QED BY <1>1, <1>2 DEF ComparedBy

(* The same for everybody but the request that makes the step. *)
LEMMA OthersCompared ==
  ASSUME TypeOK, Compared, NEW r \in Request, UNCHANGED memberVars,
         RequestStep(r) \/ (\E w \in Intent : Ask(r, w)),
         pc[r] # "write" => UNCHANGED docVars,
         \A d \in Doc : d # req[r].doc => owner'[d] = owner[d] /\ status'[d] = status[d],
         NEW q \in Request, q # r
  PROVE  ComparedBy(q)'
<1>1. pc'[q] = pc[q] /\ req'[q] = req[q] /\ ComparedBy(q)
  BY StepsAlone DEF Compared
<1>2. ASSUME pc[q] \in {"authorize", "write"}
      PROVE  owner'[req[q].doc] = owner[req[q].doc] /\ status'[req[q].doc] = status[req[q].doc]
  <2>1. req[q].doc \in Doc
    BY <1>2, NeedsOrgs
  <2>2. CASE pc[r] = "write"
    BY <1>2, <2>1, <2>2, OwnDocument
  <2> QED BY <2>2 DEF docVars
<1>3. \A o : IsMember(o, req[q].actor) => IsMember(o, req[q].actor)'
  BY <1>1 DEF IsMember, memberVars
<1> QED BY <1>1, <1>2, <1>3, StaysCompared

LEMMA ComparedNext == TypeOK /\ Compared /\ [Next]_vars => Compared'
<1> SUFFICES ASSUME TypeOK, Compared, [Next]_vars PROVE Compared'
  OBVIOUS
<1>1. CASE UNCHANGED vars
  <2>1. \A q \in Request : ComparedBy(q)'
    BY <1>1 DEF Compared, ComparedBy, Allowed, IsMember, vars, docVars, memberVars
  <2> QED BY <2>1 DEF Compared
<1>2. ASSUME NEW r \in Request, RequestStep(r) PROVE Compared'
  <2>1. UNCHANGED memberVars
    BY <1>2 DEF RequestStep, LockOrganization, Lock, LockDocument, Authorize, Write, Share, Unshare,
      Transfer, Delete, Finalize, DetectDeadlock, Abort
  <2>2. pc[r] # "write" => UNCHANGED docVars
    BY <1>2 DEF RequestStep, LockOrganization, Lock, LockDocument, Authorize, Write, Share, Unshare,
      Transfer, Delete, Finalize, DetectDeadlock, Abort
  <2>3. \A d \in Doc : d # req[r].doc => owner'[d] = owner[d] /\ status'[d] = status[d]
    <3>1. CASE Write(r)
      BY <3>1 DEF Write, Share, Unshare, Transfer, Delete, Finalize, TypeOK
    <3>2. CASE ~Write(r)
      <4>1. UNCHANGED docVars
        BY <1>2, <3>2 DEF RequestStep, LockOrganization, Lock, LockDocument, Authorize,
          DetectDeadlock, Abort
      <4> QED BY <4>1 DEF docVars
    <3> QED BY <3>1, <3>2
  <2>4. ComparedBy(r)'
    <3>1. CASE End(r)
      BY <3>1, EndReleases DEF ComparedBy
    <3>2. CASE ~End(r) /\ LockOrganization(r)
      <4>1. pc'[r] \in {"organizations", "document"}
        BY <3>2 DEF LockOrganization, Lock, Goto, TypeOK
      <4> QED BY <4>1 DEF ComparedBy
    <3>3. CASE ~End(r) /\ LockDocument(r)
      <4>1. pc'[r] = "authorize" /\ UNCHANGED <<docVars, req>>
        BY <3>3 DEF LockDocument, Goto, TypeOK
      <4>2. status[req[r].doc] \in Active /\ owner[req[r].doc] = req[r].owner
        BY <3>3 DEF LockDocument
      <4> QED BY <4>1, <4>2 DEF ComparedBy, docVars
    <3>4. CASE ~End(r) /\ Authorize(r)
      <4>1. pc[r] = "authorize" /\ Allowed(req[r]) /\ UNCHANGED <<docVars, memberVars, req>>
        BY <3>4 DEF Authorize, Goto
      <4>2. ComparedBy(r)
        BY DEF Compared
      <4> QED BY <4>1, <4>2 DEF ComparedBy, Allowed, IsMember, docVars, memberVars
    <3> QED BY <1>2, <3>1, <3>2, <3>3, <3>4
          DEF RequestStep, Write, Share, Unshare, Transfer, Delete, Finalize, DetectDeadlock, Abort
  <2>5. ASSUME NEW q \in Request, q # r PROVE ComparedBy(q)'
    BY <1>2, <2>1, <2>2, <2>3, <2>5, OthersCompared
  <2> QED BY <2>4, <2>5 DEF Compared
<1>3. ASSUME NEW r \in Request, NEW w \in Intent, Ask(r, w) PROVE Compared'
  <2>1. UNCHANGED <<docVars, memberVars>> /\ pc'[r] = "organizations"
    BY <1>3 DEF Ask, TypeOK
  <2>2. ComparedBy(r)'
    BY <2>1 DEF ComparedBy
  <2>3. ASSUME NEW q \in Request, q # r PROVE ComparedBy(q)'
    BY <1>3, <2>1, <2>3, OthersCompared DEF docVars
  <2> QED BY <2>2, <2>3 DEF Compared
<1>4. ASSUME NEW d \in Doc, RollbackRow(d) PROVE Compared'
  <2> SUFFICES ASSUME NEW q \in Request PROVE ComparedBy(q)'
    BY DEF Compared
  <2>1. ComparedBy(q) /\ HoldsItsLocks(q)
    BY DEF Compared, TypeOK
  <2>2. UNCHANGED <<owner, memberVars, pc, req>> /\ docLock[d] = None
        /\ status' = [status EXCEPT ![d] = "gone"]
    BY <1>4 DEF RollbackRow
  <2>3. ASSUME pc[q] \in {"authorize", "write"} PROVE status'[req[q].doc] = status[req[q].doc]
    <3>1. req[q].doc \in Doc
      BY <2>3, NeedsOrgs
    <3>2. docLock[req[q].doc] = q
      BY <2>1, <2>3, <3>1 DEF HoldsItsLocks
    <3> QED BY <2>2, <3>1, <3>2, NoneAssumption DEF TypeOK
  <2>4. \A o : IsMember(o, req[q].actor) => IsMember(o, req[q].actor)'
    BY <2>2 DEF IsMember, memberVars
  <2> QED BY <2>1, <2>2, <2>3, <2>4, StaysCompared
<1>5. ASSUME NEW o \in Org, NEW u \in User, JoinOrganization(o, u) PROVE Compared'
  <2> SUFFICES ASSUME NEW q \in Request PROVE ComparedBy(q)'
    BY DEF Compared
  <2>1. ComparedBy(q) /\ UNCHANGED <<owner, status, supers, pc, req>>
    BY <1>5 DEF Compared, JoinOrganization, docVars
  <2>2. ASSUME pc[q] = "write", NEW x \in Needs(q), IsMember(x, req[q].actor)
        PROVE  IsMember(x, req[q].actor)'
    <3>1. x \in Org
      BY <2>2, NeedsOrgs
    <3> QED BY <1>5, <2>1, <2>2, <3>1 DEF IsMember, JoinOrganization, TypeOK
  <2> QED BY <2>1, <2>2, StaysCompared
<1>6. ASSUME NEW o \in Org, NEW u \in User, LeaveOrganization(o, u) PROVE Compared'
  <2> SUFFICES ASSUME NEW q \in Request PROVE ComparedBy(q)'
    BY DEF Compared
  <2>1. ComparedBy(q) /\ UNCHANGED <<owner, status, supers, pc, req>>
    BY <1>6 DEF Compared, LeaveOrganization, docVars
  <2>2. ASSUME pc[q] = "write", NEW x \in Needs(q), IsMember(x, req[q].actor)
        PROVE  IsMember(x, req[q].actor)'
    <3>1. x \in Org
      BY <2>2, NeedsOrgs
    <3>2. orgLock[x] = q
      BY <2>2 DEF TypeOK, HoldsItsLocks, HeldBy
    <3>3. x # o
      BY <1>6, <3>2, NoneAssumption DEF LeaveOrganization
    <3> QED BY <1>6, <2>1, <2>2, <3>1, <3>3 DEF IsMember, LeaveOrganization, TypeOK
  <2> QED BY <2>1, <2>2, StaysCompared
<1>7. ASSUME NEW u \in User, Demote(u) PROVE Compared'
  <2> SUFFICES ASSUME NEW q \in Request PROVE ComparedBy(q)'
    BY DEF Compared
  <2>1. ComparedBy(q) /\ UNCHANGED <<owner, status, member, pc, req>>
    BY <1>7 DEF Compared, Demote, docVars
  <2>2. ASSUME pc[q] = "write", NEW x \in Needs(q), IsMember(x, req[q].actor)
        PROVE  IsMember(x, req[q].actor)'
    BY <1>7, <2>1, <2>2 DEF IsMember, Demote
  <2> QED BY <2>1, <2>2, StaysCompared
<1> QED BY <1>1, <1>2, <1>3, <1>4, <1>5, <1>6, <1>7 DEF Next

(* A request's wishes do not change while it runs. *)
LEMMA IntendedNext == TypeOK /\ Intended /\ [Next]_vars => Intended'
<1> SUFFICES ASSUME TypeOK, Intended, [Next]_vars, NEW q \in Request,
                    pc'[q] # "idle", req'[q].op \in {"share", "transfer"}
             PROVE  req'[q].target # req'[q].owner
  BY DEF Intended
<1>1. ASSUME NEW r \in Request, RequestStep(r)
      PROVE  pc[q] # "idle" /\ req'[q] = req[q]
  <2>1. CASE q # r
    BY <1>1, <2>1, StepsAlone
  <2>2. CASE q = r /\ End(r)
    BY <2>2, EndReleases
  <2>3. CASE q = r /\ ~End(r)
    BY <1>1, <2>3 DEF RequestStep, LockOrganization, Lock, LockDocument, Authorize, Goto, Write,
      Share, Unshare, Transfer, Delete, Finalize, DetectDeadlock, Abort
  <2> QED BY <2>1, <2>2, <2>3
<1>2. ASSUME NEW r \in Request, NEW w \in Intent, Ask(r, w)
      PROVE  req'[q].target # req'[q].owner
  <2>1. CASE q # r
    BY <1>2, <2>1, StepsAlone DEF Intended
  <2>2. CASE q = r
    BY <1>2, <2>2 DEF Ask, TypeOK
  <2> QED BY <2>1, <2>2
<1>3. CASE UNCHANGED <<pc, req>>
  BY <1>3 DEF Intended
<1>4. CASE UNCHANGED vars
  BY <1>3, <1>4 DEF vars
<1> QED BY <1>1, <1>2, <1>3, <1>4
      DEF Next, RollbackRow, JoinOrganization, LeaveOrganization, Demote, Intended

(* The organization a request locks is the smallest that it lacks. *)
LEMMA LockedInOrderNext == TypeOK /\ LockedInOrder /\ [Next]_vars => LockedInOrder'
<1> SUFFICES ASSUME TypeOK, LockedInOrder, [Next]_vars, NEW q \in Request,
                    pc'[q] = "organizations",
                    NEW o \in HeldBy(q)', NEW p \in Needs(q)' \ HeldBy(q)'
             PROVE  o < p
  BY DEF LockedInOrder
<1>1. CASE /\ pc[q] = "organizations"
           /\ HeldBy(q)' = HeldBy(q) /\ Needs(q)' = Needs(q)
  BY <1>1 DEF LockedInOrder
<1>2. ASSUME NEW r \in Request, RequestStep(r) PROVE o < p
  <2>1. CASE q # r
    BY <1>1, <1>2, <2>1, StepsAlone
  <2>2. CASE q = r /\ LockOrganization(r)
    <3> DEFINE n == NextOrg(r)
    <3>1. pc[r] = "organizations" /\ orgLock' = [orgLock EXCEPT ![n] = r] /\ req' = req
      BY <2>2 DEF LockOrganization, Lock, Goto
    <3>2. n \in Needs(r) \ HeldBy(r) /\ (\A x \in Needs(r) \ HeldBy(r) : n <= x)
      BY <3>1, NextOrgLeast
    <3>3. Needs(r) \in SUBSET Org
      BY <3>1, NeedsOrgs
    <3> HIDE DEF n
    <3>4. HeldBy(r)' = HeldBy(r) \cup {n} /\ Needs(r)' = Needs(r)
      BY <3>1, <3>2, <3>3 DEF TypeOK, HeldBy, Needs
    <3>5. p \in Needs(r) \ HeldBy(r) /\ p # n /\ n <= p /\ n \in Int /\ p \in Int
      BY <2>2, <3>2, <3>3, <3>4 DEF Org
    <3>6. CASE o = n
      BY <3>5, <3>6
    <3>7. CASE o \in HeldBy(r)
      BY <3>1, <3>5, <3>7 DEF LockedInOrder
    <3> QED BY <2>2, <3>4, <3>6, <3>7
  <2>3. CASE q = r /\ ~LockOrganization(r)
    <3>1. pc'[r] # "organizations"
      <4>1. CASE End(r)
        BY <4>1, EndReleases
      <4>2. CASE ~End(r)
        BY <1>2, <2>3, <4>2 DEF RequestStep, LockDocument, Authorize, Goto, Write, Share, Unshare,
          Transfer, Delete, Finalize, DetectDeadlock, Abort, TypeOK
      <4> QED BY <4>1, <4>2
    <3> QED BY <2>3, <3>1
  <2> QED BY <2>1, <2>2, <2>3
<1>3. ASSUME NEW r \in Request, NEW w \in Intent, Ask(r, w) PROVE o < p
  <2>1. CASE q # r
    BY <1>1, <1>3, <2>1, StepsAlone
  <2>2. CASE q = r
    BY <1>3, <2>2 DEF Ask, TypeOK, HoldsItsLocks, HeldBy, lockVars
  <2> QED BY <2>1, <2>2
<1>4. CASE UNCHANGED <<pc, req, orgLock>>
  BY <1>1, <1>4 DEF HeldBy, Needs
<1>5. CASE UNCHANGED vars
  BY <1>4, <1>5 DEF vars, lockVars
<1> QED BY <1>2, <1>3, <1>4, <1>5
      DEF Next, RollbackRow, JoinOrganization, LeaveOrganization, Demote, lockVars

(* What a write may rely on. *)
LEMMA WriterKnows ==
  ASSUME TypeOK, Compared, NEW r \in Request, pc[r] = "write"
  PROVE  /\ req[r].doc \in Doc /\ req[r].owner \in Org /\ req[r].target \in Org
         /\ req[r].owner = owner[req[r].doc] /\ status[req[r].doc] \in Active
         /\ Allowed(req[r])
BY NeedsOrgs DEF Compared, ComparedBy

(* An organization that gets a share is not the owner, and one that becomes
   the owner loses its share. *)
LEMMA OwnerNeverSharedNext ==
  TypeOK /\ Compared /\ Intended /\ OwnerNeverShared /\ [Next]_vars => OwnerNeverShared'
<1> SUFFICES ASSUME TypeOK, Compared, Intended, OwnerNeverShared, [Next]_vars, NEW d \in Doc
             PROVE  owner'[d] \notin shares'[d]
  BY DEF OwnerNeverShared
<1>1. CASE owner' = owner /\ shares'[d] \subseteq shares[d]
  BY <1>1 DEF OwnerNeverShared
<1>2. ASSUME NEW r \in Request, Write(r) PROVE owner'[d] \notin shares'[d]
  <2>1. pc[r] = "write"
    BY <1>2 DEF Write, Share, Unshare, Transfer, Delete, Finalize
  <2>2. CASE Share(r)
    <3>1. req[r].op = "share" /\ req[r].target # req[r].owner
      BY <2>1, <2>2 DEF Share, Intended
    <3> QED BY <2>1, <2>2, <3>1, WriterKnows DEF Share, OwnerNeverShared, TypeOK
  <2>3. CASE Transfer(r)
    BY <2>1, <2>3, WriterKnows DEF Transfer, OwnerNeverShared, TypeOK
  <2>4. CASE Unshare(r)
    BY <1>1, <2>4 DEF Unshare, TypeOK
  <2>5. CASE Delete(r) \/ Finalize(r)
    BY <1>1, <2>5 DEF Delete, Finalize
  <2> QED BY <1>2, <2>2, <2>3, <2>4, <2>5 DEF Write
<1>3. CASE \E x \in Doc : RollbackRow(x)
  BY <1>1, <1>3 DEF RollbackRow, TypeOK
<1>4. CASE UNCHANGED docVars
  BY <1>1, <1>4 DEF docVars
<1> QED BY <1>2, <1>3, <1>4 DEF Next, vars, RequestStep, LockOrganization, Lock, LockDocument,
      Authorize, DetectDeadlock, Abort, Ask, JoinOrganization, LeaveOrganization, Demote

(* A transfer starts at the owner and is recorded as the last one. *)
ChainOf(d) ==
  /\ \A i \in 1 .. Len(audit[d]) - 1 : audit[d][i][2] = audit[d][i + 1][1]
  /\ audit[d] # <<>> => audit[d][Len(audit[d])][2] = owner[d]
  /\ status[d] \in {"uploading", "gone"} => audit[d] = <<>>

LEMMA TransfersChainNext ==
  TypeOK /\ Compared /\ TransfersChain /\ [Next]_vars => TransfersChain'
<1> SUFFICES ASSUME TypeOK, Compared, TransfersChain, [Next]_vars, NEW d \in Doc
             PROVE  ChainOf(d)'
  BY DEF TransfersChain, ChainOf
<1>0. ChainOf(d) /\ audit[d] \in Seq(Org \X Org)
  BY DEF TransfersChain, ChainOf, TypeOK
<1>1. CASE /\ owner'[d] = owner[d] /\ audit'[d] = audit[d]
           /\ status'[d] = status[d] \/ status'[d] \in {"live", "deleted"} \/ audit[d] = <<>>
  BY <1>0, <1>1 DEF ChainOf
<1>2. ASSUME NEW r \in Request, Write(r) PROVE ChainOf(d)'
  <2>1. pc[r] = "write"
    BY <1>2 DEF Write, Share, Unshare, Transfer, Delete, Finalize
  <2>2. CASE Transfer(r) /\ d = req[r].doc
    <3> DEFINE t == <<req[r].owner, req[r].target>>
    <3>1. audit'[d] = Append(audit[d], t) /\ owner'[d] = t[2] /\ status'[d] = status[d]
      BY <2>2 DEF Transfer, TypeOK
    <3>2. t[1] = owner[d] /\ status[d] \notin {"uploading", "gone"}
      BY <2>1, <2>2, WriterKnows DEF Transfer, Allowed, Active
    <3>3. Len(audit'[d]) = Len(audit[d]) + 1 /\ Len(audit[d]) \in Nat
          /\ audit'[d][Len(audit[d]) + 1] = t
          /\ \A i \in 1 .. Len(audit[d]) : audit'[d][i] = audit[d][i]
      BY <1>0, <3>1
    <3> HIDE DEF t
    <3>4. ASSUME NEW i \in 1 .. Len(audit'[d]) - 1
          PROVE  audit'[d][i][2] = audit'[d][i + 1][1]
      <4>1. CASE i = Len(audit[d])
        <5>1. audit[d] # <<>>
          BY <4>1, <3>3
        <5> QED BY <1>0, <3>2, <3>3, <4>1, <5>1 DEF ChainOf
      <4>2. CASE i # Len(audit[d])
        <5>1. i \in 1 .. Len(audit[d]) - 1
          BY <3>3, <4>2
        <5> QED BY <1>0, <3>3, <5>1 DEF ChainOf
      <4> QED BY <4>1, <4>2
    <3> QED BY <3>1, <3>2, <3>3, <3>4 DEF ChainOf
  <2>3. CASE Transfer(r) /\ d # req[r].doc
    BY <1>1, <2>3 DEF Transfer, TypeOK
  <2>4. CASE Share(r) \/ Unshare(r)
    BY <1>1, <2>4 DEF Share, Unshare
  <2>5. CASE Delete(r) \/ Finalize(r)
    BY <1>1, <2>5 DEF Delete, Finalize, TypeOK
  <2> QED BY <1>2, <2>2, <2>3, <2>4, <2>5 DEF Write
<1>3. ASSUME NEW x \in Doc, RollbackRow(x) PROVE ChainOf(d)'
  BY <1>1, <1>3 DEF RollbackRow, TypeOK
<1>4. CASE UNCHANGED docVars
  BY <1>1, <1>4 DEF docVars
<1> QED BY <1>2, <1>3, <1>4 DEF Next, vars, RequestStep, LockOrganization, Lock, LockDocument,
      Authorize, DetectDeadlock, Abort, Ask, JoinOrganization, LeaveOrganization, Demote

LEMMA IInvNext == IInv /\ [Next]_vars => IInv'
BY TypeNext, ComparedNext, IntendedNext, LockedInOrderNext, OwnerNeverSharedNext, TransfersChainNext
  DEF IInv

-----------------------------------------------------------------------------
(* A bounded set of numbers has a largest one. *)
LEMMA LargestOrg ==
  ASSUME NEW T \in SUBSET Org, T # {}
  PROVE  \E t \in T : \A o \in T : o <= t
<1> DEFINE R == {ss \in Nat \X Nat : ss[1] < ss[2]}
           U == {NumOrgs - t : t \in T}
<1>1. IsWellFoundedOn(R, Nat)
  BY NatLessThanWellFounded DEF OpToRel
<1>2. U \subseteq Nat /\ U # {}
  <2>1. \A t \in T : NumOrgs - t \in Nat
    BY OrgAssumption DEF Org
  <2> QED BY <2>1
<1>3. \E u \in U : \A v \in U : ~(<<v, u>> \in R)
  <2> HIDE DEF U, R
  <2> QED BY <1>1, <1>2, WFMin
<1>4. PICK u \in U : \A v \in U : ~(v < u)
  BY <1>2, <1>3
<1>5. PICK t \in T : u = NumOrgs - t
  OBVIOUS
<1>6. \A o \in T : ~(NumOrgs - o < NumOrgs - t)
  BY <1>4, <1>5
<1> QED BY <1>6, OrgAssumption DEF Org

(* In a circle without inserts everybody waits for an organization, and for a
   larger one than whoever waits for it: there is no largest. *)
LEMMA CirclesInsert ==
  ASSUME TypeOK, LockedInOrder, NEW S \in SUBSET Request, WaitCycle(S)
  PROVE  \E r \in S : Inserting(r)
<1> SUFFICES ASSUME \A r \in S : ~Inserting(r) PROVE FALSE
  OBVIOUS
<1>1. ASSUME NEW r \in S, NEW q \in S, Blocks(q, r) PROVE pc[r] = "organizations"
  <2> SUFFICES ASSUME pc[r] = "document", docLock[req[r].doc] = q PROVE FALSE
    BY <1>1 DEF Blocks
  <2>1. req[r].doc \in Doc
    BY NeedsOrgs
  <2>2. pc[q] \in {"authorize", "write"}
    BY <2>1 DEF TypeOK, HoldsItsLocks
  <2>3. PICK p \in S : Blocks(p, q)
    BY DEF WaitCycle
  <2> QED BY <2>2, <2>3 DEF Blocks
<1>2. \A r \in S : pc[r] = "organizations" /\ \E q \in S : orgLock[NextOrg(r)] = q
  BY <1>1 DEF WaitCycle, Blocks
<1> DEFINE T == {NextOrg(r) : r \in S}
<1>3. \A r \in S : NextOrg(r) \in Org
  BY <1>2, NextOrgLeast, NeedsOrgs
<1>4. ASSUME NEW r \in S PROVE \E q \in S : NextOrg(r) < NextOrg(q)
  <2>1. PICK q \in S : orgLock[NextOrg(r)] = q
    BY <1>2
  <2>2. NextOrg(r) \in HeldBy(q)
    BY <1>3, <2>1 DEF HeldBy
  <2>3. pc[q] = "organizations" /\ NextOrg(q) \in Needs(q) \ HeldBy(q)
    BY <1>2, NextOrgLeast
  <2> QED BY <2>2, <2>3 DEF LockedInOrder
<1>5. PICK r \in S : \A q \in S : NextOrg(q) <= NextOrg(r)
  <2>1. T \in SUBSET Org /\ T # {}
    BY <1>3 DEF WaitCycle
  <2> QED BY <2>1, LargestOrg
<1>6. PICK q \in S : NextOrg(r) < NextOrg(q)
  BY <1>4
<1> QED BY <1>3, <1>5, <1>6 DEF Org

(* One step, as AuthorizedAtCommit wants it. *)
LEMMA CommitsAuthorized ==
  ASSUME TypeOK, Compared, [Next]_vars, NEW d \in Doc,
         <<owner'[d], shares'[d], status'[d]>> # <<owner[d], shares[d], status[d]>>,
         status'[d] # "gone"
  PROVE  \E r \in Request :
           /\ pc[r] = "write" /\ req[r].doc = d
           /\ IsMember(owner[d], req[r].actor) /\ IsMember(owner'[d], req[r].actor)
<1>1. ASSUME NEW r \in Request, Write(r)
      PROVE  /\ pc[r] = "write" /\ req[r].doc = d
             /\ IsMember(owner[d], req[r].actor) /\ IsMember(owner'[d], req[r].actor)
  <2>1. pc[r] = "write"
    BY <1>1 DEF Write, Share, Unshare, Transfer, Delete, Finalize
  <2>2. req[r].doc = d
    BY <1>1 DEF Write, Share, Unshare, Transfer, Delete, Finalize, TypeOK
  <2>3. req[r].owner = owner[d] /\ Allowed(req[r])
    BY <2>1, <2>2, WriterKnows
  <2>4. CASE Transfer(r)
    <3>1. owner'[d] = req[r].target /\ req[r].op = "transfer"
      BY <2>2, <2>4 DEF Transfer, TypeOK
    <3> QED BY <2>1, <2>2, <2>3, <3>1 DEF Allowed
  <2>5. CASE ~Transfer(r)
    <3>1. owner' = owner
      BY <1>1, <2>5 DEF Write, Share, Unshare, Delete, Finalize
    <3> QED BY <2>1, <2>2, <2>3, <3>1 DEF Allowed
  <2> QED BY <2>4, <2>5
<1>2. ASSUME NEW x \in Doc, RollbackRow(x) PROVE FALSE
  BY <1>2 DEF RollbackRow, TypeOK
<1>3. CASE UNCHANGED docVars
  BY <1>3 DEF docVars
<1> QED BY <1>1, <1>2, <1>3 DEF Next, vars, RequestStep, LockOrganization, Lock, LockDocument,
      Authorize, DetectDeadlock, Abort, Ask, JoinOrganization, LeaveOrganization, Demote

-----------------------------------------------------------------------------
LEMMA SharingInvariant == Spec => []IInv
BY InitEstablishes, IInvNext, PTL DEF Spec

(* The places, the wishes and the locks of the requests always fit: a lock is
   held exactly as long as the request that took it needs it. *)
THEOREM SharingTypeOK == Spec => []TypeOK
<1>1. IInv => TypeOK
  BY DEF IInv
<1> QED BY <1>1, SharingInvariant, PTL

(* A document is never shared with its owner. *)
THEOREM SharingOwnerNeverShared == Spec => []OwnerNeverShared
<1>1. IInv => OwnerNeverShared
  BY DEF IInv
<1> QED BY <1>1, SharingInvariant, PTL

(* The audit log of a document is a chain that ends at its owner. *)
THEOREM SharingTransfersChain == Spec => []TransfersChain
<1>1. IInv => TransfersChain
  BY DEF IInv
<1> QED BY <1>1, SharingInvariant, PTL

(* Only an insert of a share can close a circle of waiting requests, however
   many requests and organizations there are. *)
THEOREM SharingOnlySharesDeadlock == Spec => []OnlySharesDeadlock
<1>1. IInv => OnlySharesDeadlock
  BY CirclesInsert DEF IInv, OnlySharesDeadlock
<1> QED BY <1>1, SharingInvariant, PTL

(* Every change of a document is made by somebody who belongs, when it
   commits, to the organizations that own it before and after. *)
THEOREM SharingAuthorizedAtCommit == Spec => AuthorizedAtCommit
<1> DEFINE Step ==
      \A d \in Doc :
        /\ <<owner'[d], shares'[d], status'[d]>> # <<owner[d], shares[d], status[d]>>
        /\ status'[d] # "gone"
        => \E r \in Request :
             /\ pc[r] = "write" /\ req[r].doc = d
             /\ IsMember(owner[d], req[r].actor) /\ IsMember(owner'[d], req[r].actor)
<1>1. IInv /\ [Next]_vars => Step
  BY CommitsAuthorized DEF IInv
<1>2. IInv /\ [Next]_vars => [Step]_vars
  BY <1>1
<1> QED BY <1>2, SharingInvariant, PTL DEF Spec, AuthorizedAtCommit
=============================================================================
