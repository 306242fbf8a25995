--------------------------- MODULE WidgetKeysProofs ---------------------------
(***************************************************************************)
(* What widget keys and invitations promise, for any number of               *)
(* administrators, keys and requests.                                        *)
(*                                                                         *)
(* The change of a list of app ids is written by the request that has held   *)
(* the row since it read the list; a login takes the invitations that were    *)
(* open when it began, and an invitation's address never changes; an origin  *)
(* that is forbidden lets no further request past the check.                 *)
(***************************************************************************)
EXTENDS WidgetKeys, FiniteSetTheorems, TLAPS

Item == {None} \cup Pattern \cup ({"add", "remove"} \X AppId) \cup Email \cup Invitation \cup Admin \cup Origin
Seen == Pattern \cup AppId \cup Admin \cup Invitation \cup Key \cup Slot

KeyRecord == [status : {"none", "ACTIVE", "REVOKED"}, owner : Admin \cup {None},
              domains : SUBSET Pattern, apps : SUBSET AppId]
InviteRecord == [status : {"none", "PENDING", "ACCEPTED", "removed"}, key : Key \cup {None},
                 email : Email \cup {None}, invitee : Admin \cup {None}]
SessionRecord == [state : {"none", "empty", "open"}, key : Key \cup {None}, origin : Origin \cup {None}]
RequestRecord == [kind : {"none", "domain", "revoke", "app", "invite", "uninvite", "login", "stats", "session"},
                  pc : {"idle", "write", "lock", "admin", "accept", "answer", "shared", "report", "insert", "token"},
                  key : Key \cup {None}, item : Item, seen : SUBSET Seen, ok : BOOLEAN]

(* The records behind TypeOK. *)
Typed ==
  /\ key \in [Key -> KeyRecord]
  /\ lock \in [Key -> Request \cup {None}]
  /\ known \subseteq Admin
  /\ invite \in [Invitation -> InviteRecord]
  /\ session \in [Slot -> SessionRecord]
  /\ req \in [Request -> RequestRecord]
  /\ promised \in [Key -> [revoked : BOOLEAN, apps : SUBSET AppId]]

(* What committed changes left of a key; one that was never made has nothing. *)
Keys ==
  \A k \in Key : /\ key[k].status = "none" => key[k].owner = None /\ key[k].apps = {}
                 /\ key[k].apps = promised[k].apps
                 /\ promised[k].revoked => key[k].status = "REVOKED"

(* Whoever has accepted an invitation has the address it was sent to. *)
Invited ==
  \A i \in Invitation :
    /\ invite[i].status = "ACCEPTED" => /\ invite[i].invitee \in known
                                        /\ Normal[EmailOf[invite[i].invitee]] = invite[i].email
    /\ invite[i].status = "PENDING" => invite[i].invitee = None
    /\ invite[i].status = "none" => invite[i].key = None

OneEmpty ==
  \A s, q \in Slot : session[s].state = "empty" /\ session[q].state = "empty" => s = q

Locked ==
  \A k \in Key, r \in Request : lock[k] = r <=> At(r, "app", "write") /\ req[r].key = k

(* What a request knows of the statements it has already made. *)
Doing(r) ==
  /\ req[r].kind \in {"domain", "revoke", "app", "invite", "uninvite", "session"} => req[r].key \in Key
  /\ At(r, "domain", "write") => req[r].seen \subseteq Pattern
  /\ req[r].kind = "app" => /\ req[r].item \in {"add", "remove"} \X AppId
                            /\ key[req[r].key].status # "none"
  /\ At(r, "app", "write") => req[r].seen = Changed(key[req[r].key].apps, req[r].item)
  /\ req[r].kind = "invite" => req[r].item \in Email /\ Normal[req[r].item] = req[r].item
  /\ At(r, "invite", "write") => /\ req[r].seen \subseteq known
                                 /\ \A a \in req[r].seen : EmailOf[a] = req[r].item
  /\ req[r].kind = "uninvite" => req[r].item \in Invitation /\ invite[req[r].item].status # "none"
  /\ req[r].kind = "session" => req[r].item \in Origin
  /\ req[r].kind = "login" =>
       /\ req[r].item \in known /\ req[r].seen \subseteq Invitation
       /\ \A i \in req[r].seen : /\ invite[i].status # "none"
                                 /\ invite[i].email = Normal[EmailOf[req[r].item]]
                                 /\ req[r].ok => invite[i].status # "PENDING"
  /\ req[r].kind = "stats" =>
       /\ req[r].item \in known /\ req[r].seen \subseteq Key
       /\ \A k \in req[r].seen : Owns(req[r].item, k) \/ \E i \in Invitation :
            invite[i].key = k /\ invite[i].email = Normal[EmailOf[req[r].item]]

IInv == Typed /\ Keys /\ Invited /\ OneEmpty /\ Locked /\ \A r \in Request : Doing(r)

-----------------------------------------------------------------------------
(* The invariant has TypeOK and the safety invariants as parts. *)
LEMMA PartsFollow == IInv => TypeOK /\ ChangesKept /\ InvitationsReach
<1> SUFFICES ASSUME IInv PROVE TypeOK /\ ChangesKept /\ InvitationsReach
  OBVIOUS
<1>1. TypeOK
  <2>1. \A k \in Key : /\ key[k].status \in {"none", "ACTIVE", "REVOKED"} /\ key[k].owner \in Admin \cup {None}
                       /\ key[k].domains \subseteq Pattern /\ key[k].apps \subseteq AppId
    BY DEF IInv, Typed, KeyRecord
  <2>2. \A i \in Invitation : invite[i].status \in {"none", "PENDING", "ACCEPTED", "removed"}
    BY DEF IInv, Typed, InviteRecord
  <2>3. \A s \in Slot : session[s].state \in {"none", "empty", "open"}
    BY DEF IInv, Typed, SessionRecord
  <2> QED BY <2>1, <2>2, <2>3 DEF TypeOK, IInv, Typed, Invited, OneEmpty, Locked
<1>2. ChangesKept
  BY DEF ChangesKept, IInv, Keys
<1>3. InvitationsReach
  BY DEF InvitationsReach, IInv, Doing, At
<1> QED BY <1>1, <1>2, <1>3

(* What any step leaves of what requests in flight have read. *)
Steady ==
  /\ known \subseteq known'
  /\ \A k \in Key : /\ key[k].owner # None => key'[k].owner = key[k].owner
                    /\ key[k].status # "none" => key'[k].status # "none"
  /\ \A i \in Invitation : invite[i].status # "none" =>
       /\ invite'[i].status # "none" /\ invite'[i].key = invite[i].key /\ invite'[i].email = invite[i].email
       /\ invite[i].status # "PENDING" => invite'[i].status # "PENDING"

(* So a request that does nothing still knows what it knew, if nobody writes the
   app ids of a key that it holds. *)
LEMMA DoingStill ==
  ASSUME IInv, NEW r \in Request, req'[r] = req[r], Steady,
         At(r, "app", "write") => key'[req[r].key].apps = key[req[r].key].apps
  PROVE  Doing(r)'
<1>1. Doing(r) /\ req[r] \in RequestRecord
  BY DEF IInv, Typed
<1>2. req'[r].kind = "stats" =>
       \A k \in req'[r].seen : key'[k].owner = req'[r].item \/ \E i \in Invitation :
         invite'[i].key = k /\ invite'[i].email = Normal[EmailOf[req'[r].item]]
  <2> SUFFICES ASSUME req[r].kind = "stats", NEW k \in req[r].seen
               PROVE  key'[k].owner = req[r].item \/ \E i \in Invitation :
                        invite'[i].key = k /\ invite'[i].email = Normal[EmailOf[req[r].item]]
    OBVIOUS
  <2>1. k \in Key /\ k # None /\ req[r].item \in Admin /\ req[r].item # None
    BY <1>1, RequestAssumption DEF Doing, IInv, Typed
  <2>2. CASE Owns(req[r].item, k)
    BY <2>1, <2>2 DEF Owns, Steady
  <2>3. CASE \E i \in Invitation : invite[i].key = k /\ invite[i].email = Normal[EmailOf[req[r].item]]
    <3>1. PICK i \in Invitation : invite[i].key = k /\ invite[i].email = Normal[EmailOf[req[r].item]]
      BY <2>3
    <3>2. invite[i].status # "none"
      BY <2>1, <3>1 DEF IInv, Invited
    <3> QED BY <3>1, <3>2 DEF Steady
  <2>4. \/ Owns(req[r].item, k)
        \/ \E i \in Invitation : invite[i].key = k /\ invite[i].email = Normal[EmailOf[req[r].item]]
    BY <1>1 DEF Doing
  <2> QED BY <2>2, <2>3, <2>4
<1>3. At(r, "app", "write")' <=> At(r, "app", "write")
  BY DEF At
<1>4. req'[r].kind = "login" =>
       /\ req'[r].item \in known' /\ req'[r].seen \subseteq Invitation
       /\ \A i \in req'[r].seen : /\ invite'[i].status # "none"
                                  /\ invite'[i].email = Normal[EmailOf[req'[r].item]]
                                  /\ req'[r].ok => invite'[i].status # "PENDING"
  BY <1>1 DEF Doing, Steady
<1>5. /\ req'[r].kind = "uninvite" => req'[r].item \in Invitation /\ invite'[req'[r].item].status # "none"
      /\ req'[r].kind = "stats" => req'[r].item \in known' /\ req'[r].seen \subseteq Key
      /\ At(r, "invite", "write")' => /\ req'[r].seen \subseteq known'
                                     /\ \A a \in req'[r].seen : EmailOf[a] = req'[r].item
  BY <1>1 DEF Doing, Steady, At
<1>6. req'[r].kind = "app" => req'[r].item \in {"add", "remove"} \X AppId /\ key'[req'[r].key].status # "none"
  BY <1>1 DEF Doing, Steady
<1>7. At(r, "app", "write")' => req'[r].seen = Changed(key'[req'[r].key].apps, req'[r].item)
  BY <1>1, <1>3 DEF Doing, Changed
<1>8. /\ req'[r].kind \in {"domain", "revoke", "app", "invite", "uninvite", "session"} => req'[r].key \in Key
      /\ At(r, "domain", "write")' => req'[r].seen \subseteq Pattern
      /\ req'[r].kind = "invite" => req'[r].item \in Email /\ Normal[req'[r].item] = req'[r].item
      /\ req'[r].kind = "session" => req'[r].item \in Origin
  BY <1>1 DEF Doing, At
<1> QED BY <1>2, <1>4, <1>5, <1>6, <1>7, <1>8 DEF Doing, Owns

(* A step of a request, with what it does to the rows. *)
LEMMA RequestStepKeeps ==
  ASSUME IInv, NEW r \in Request, \A q \in Request \ {r} : req'[q] = req[q],
         Typed', Keys', Invited', OneEmpty', Locked', Doing(r)', Steady,
         \A q \in Request \ {r}, k \in Key : lock[k] = q => key'[k].apps = key[k].apps
  PROVE  IInv'
<1>1. ASSUME NEW q \in Request \ {r} PROVE Doing(q)'
  <2>1. ASSUME At(q, "app", "write") PROVE key'[req[q].key].apps = key[req[q].key].apps
    <3>1. req[q].key \in Key
      BY <2>1 DEF IInv, Doing, At
    <3>2. lock[req[q].key] = q
      BY <2>1, <3>1 DEF IInv, Locked
    <3> QED BY <3>1, <3>2
  <2> QED BY <2>1, DoingStill
<1> QED BY <1>1 DEF IInv

(* A step of a request that touches no row and no lock. *)
LEMMA RequestMoves ==
  ASSUME IInv, NEW r \in Request, NEW x \in RequestRecord, req' = [req EXCEPT ![r] = x],
         UNCHANGED <<key, lock, known, invite, session, promised>>,
         ~ At(r, "app", "write"), ~ (x.kind = "app" /\ x.pc = "write"), Doing(r)'
  PROVE  IInv'
<1>1. req'[r] = x /\ \A q \in Request \ {r} : req'[q] = req[q]
  BY DEF IInv, Typed
<1>2. Typed' /\ Keys' /\ Invited' /\ OneEmpty' /\ Steady
  BY DEF IInv, Typed, Keys, Invited, OneEmpty, Steady
<1>3. Locked'
  <2>1. ASSUME NEW k \in Key, NEW q \in Request
        PROVE  lock'[k] = q <=> At(q, "app", "write")' /\ req'[q].key = k
    <3>1. CASE q = r
      BY <1>1, <3>1 DEF IInv, Locked, At
    <3>2. CASE q # r
      BY <1>1, <3>2 DEF IInv, Locked, At
    <3> QED BY <3>1, <3>2
  <2> QED BY <2>1 DEF Locked
<1> QED BY <1>1, <1>2, <1>3, RequestStepKeeps

(* The requests that are not over have a kind of their own. *)
LEMMA IdleIsRequest == Idle \in RequestRecord
BY DEF Idle, RequestRecord, Item

(* A request begins with what it has read. *)
LEMMA BeginKeeps ==
  ASSUME IInv, NEW r \in Request, NEW kind, NEW pc, NEW k, NEW item, NEW seen,
         Begin(r, kind, pc, k, item, seen), ~ (kind = "app" /\ pc = "write"),
         [kind |-> kind, pc |-> pc, key |-> k, item |-> item, seen |-> seen, ok |-> FALSE] \in RequestRecord,
         UNCHANGED <<key, lock, known, invite, session, promised>>, Doing(r)'
  PROVE  IInv'
<1>1. ~ At(r, "app", "write")
  BY DEF Begin, Idle, At
<1>2. PICK x \in RequestRecord :
        /\ x = [kind |-> kind, pc |-> pc, key |-> k, item |-> item, seen |-> seen, ok |-> FALSE]
        /\ req' = [req EXCEPT ![r] = x]
  BY DEF Begin
<1>3. ~ (x.kind = "app" /\ x.pc = "write")
  BY <1>2
<1> QED BY <1>1, <1>2, <1>3, RequestMoves

-----------------------------------------------------------------------------
(* The owner's requests begin. *)
LEMMA BeginKeyRequestKeeps ==
  ASSUME IInv, NEW r \in Request, BeginKeyRequest(r) PROVE IInv'
<1>1. PICK k \in Key :
        \/ \E a \in Admin :
             \/ \E p \in Pattern : ChangeDomain(r, a, k, p)
             \/ RevokeWidgetKey(r, a, k)
             \/ \E e \in Email : InviteCollaborator(r, a, k, e)
             \/ \E i \in Invitation : RemoveCollaborator(r, a, k, i)
        \/ \E op \in {"add", "remove"}, app \in AppId : ChangeAppId(r, k, op, app)
        \/ \E o \in Origin : CreateSession(r, k, o)
  BY DEF BeginKeyRequest
<1>2. ASSUME NEW a \in Admin, NEW p \in Pattern, ChangeDomain(r, a, k, p) PROVE IInv'
  <2>1. PICK seen \in SUBSET Pattern :
          /\ Begin(r, "domain", "write", k, p, seen)
          /\ UNCHANGED <<key, lock, known, invite, session, promised>>
    <3>1. key[k].domains \subseteq Pattern
      BY DEF IInv, Typed, KeyRecord
    <3> QED BY <1>2, <3>1 DEF ChangeDomain
  <2>2. [kind |-> "domain", pc |-> "write", key |-> k, item |-> p, seen |-> seen, ok |-> FALSE] \in RequestRecord
    BY DEF RequestRecord, Item, Seen
  <2>3. Doing(r)'
    BY <2>1 DEF Begin, Doing, At, IInv, Typed
  <2> QED BY <2>1, <2>2, <2>3, BeginKeeps
<1>3. ASSUME NEW a \in Admin, RevokeWidgetKey(r, a, k) PROVE IInv'
  <2>1. /\ Begin(r, "revoke", "write", k, None, {})
        /\ UNCHANGED <<key, lock, known, invite, session, promised>>
    BY <1>3 DEF RevokeWidgetKey
  <2>2. [kind |-> "revoke", pc |-> "write", key |-> k, item |-> None, seen |-> {}, ok |-> FALSE] \in RequestRecord
    BY DEF RequestRecord, Item
  <2>3. Doing(r)'
    BY <2>1 DEF Begin, Doing, At, IInv, Typed
  <2> QED BY <2>1, <2>2, <2>3, BeginKeeps
<1>4. ASSUME NEW a \in Admin, NEW e \in Email, InviteCollaborator(r, a, k, e) PROVE IInv'
  <2>1. PICK email \in Email : email = Normal[e] /\ Normal[email] = email
    BY EmailAssumption
  <2>2. /\ Begin(r, "invite", "admin", k, email, {})
        /\ UNCHANGED <<key, lock, known, invite, session, promised>>
    BY <1>4, <2>1 DEF InviteCollaborator
  <2>3. [kind |-> "invite", pc |-> "admin", key |-> k, item |-> email, seen |-> {}, ok |-> FALSE] \in RequestRecord
    BY DEF RequestRecord, Item
  <2>4. Doing(r)'
    BY <2>1, <2>2 DEF Begin, Doing, At, IInv, Typed
  <2> QED BY <2>2, <2>3, <2>4, BeginKeeps
<1>5. ASSUME NEW a \in Admin, NEW i \in Invitation, RemoveCollaborator(r, a, k, i) PROVE IInv'
  <2>1. /\ Begin(r, "uninvite", "write", k, i, {}) /\ invite[i].status # "none"
        /\ UNCHANGED <<key, lock, known, invite, session, promised>>
    BY <1>5 DEF RemoveCollaborator, Present
  <2>2. [kind |-> "uninvite", pc |-> "write", key |-> k, item |-> i, seen |-> {}, ok |-> FALSE] \in RequestRecord
    BY DEF RequestRecord, Item
  <2>3. Doing(r)'
    BY <2>1 DEF Begin, Doing, At, IInv, Typed
  <2> QED BY <2>1, <2>2, <2>3, BeginKeeps
<1>6. ASSUME NEW op \in {"add", "remove"}, NEW app \in AppId, ChangeAppId(r, k, op, app) PROVE IInv'
  <2>1. PICK change \in {"add", "remove"} \X AppId : change = <<op, app>>
    OBVIOUS
  <2>2. /\ Begin(r, "app", "lock", k, change, {}) /\ key[k].status # "none"
        /\ UNCHANGED <<key, lock, known, invite, session, promised>>
    BY <1>6, <2>1 DEF ChangeAppId
  <2>3. [kind |-> "app", pc |-> "lock", key |-> k, item |-> change, seen |-> {}, ok |-> FALSE] \in RequestRecord
    BY DEF RequestRecord, Item
  <2>4. Doing(r)'
    BY <2>1, <2>2 DEF Begin, Doing, At, IInv, Typed
  <2> QED BY <2>2, <2>3, <2>4, BeginKeeps
<1>7. ASSUME NEW o \in Origin, CreateSession(r, k, o) PROVE IInv'
  <2>1. /\ Begin(r, "session", "insert", k, o, {})
        /\ UNCHANGED <<key, lock, known, invite, session, promised>>
    BY <1>7 DEF CreateSession
  <2>2. [kind |-> "session", pc |-> "insert", key |-> k, item |-> o, seen |-> {}, ok |-> FALSE] \in RequestRecord
    BY DEF RequestRecord, Item
  <2>3. Doing(r)'
    BY <2>1 DEF Begin, Doing, At, IInv, Typed
  <2> QED BY <2>1, <2>2, <2>3, BeginKeeps
<1> QED BY <1>1, <1>2, <1>3, <1>4, <1>5, <1>6, <1>7

-----------------------------------------------------------------------------
(* A key is made by one statement. *)
LEMMA CreateWidgetKeyKeeps ==
  ASSUME IInv, NEW a \in Admin, NEW k \in Key, CreateWidgetKey(a, k) PROVE IInv'
<1>1. PICK x \in KeyRecord : /\ x.status = "ACTIVE" /\ x.apps = {}
                             /\ key' = [key EXCEPT ![k] = x]
  <2>1. NoKey \in KeyRecord /\ NoKey.apps = {}
    BY DEF NoKey, KeyRecord
  <2>2. [NoKey EXCEPT !.status = "ACTIVE", !.owner = a] \in KeyRecord
    BY <2>1 DEF KeyRecord
  <2>3. /\ [NoKey EXCEPT !.status = "ACTIVE", !.owner = a].status = "ACTIVE"
        /\ [NoKey EXCEPT !.status = "ACTIVE", !.owner = a].apps = {}
    BY <2>1 DEF KeyRecord
  <2> QED BY <2>2, <2>3 DEF CreateWidgetKey
<1>2. /\ key[k].status = "none" /\ key[k].owner = None /\ key[k].apps = {}
      /\ UNCHANGED <<lock, known, invite, session, req, promised>>
  BY DEF CreateWidgetKey, IInv, Keys
<1>3. Typed' /\ Keys' /\ Invited' /\ OneEmpty' /\ Locked' /\ Steady
  <2>1. Typed'
    BY <1>1, <1>2 DEF IInv, Typed
  <2>2. key'[k] = x /\ \A q \in Key \ {k} : key'[q] = key[q]
    BY <1>1 DEF IInv, Typed
  <2>3. Keys'
    <3>1. Keys /\ promised' = promised /\ x.status # "none" /\ x.status # "REVOKED"
      BY <1>1, <1>2 DEF IInv
    <3>2. x.apps = promised[k].apps /\ ~ promised[k].revoked
      BY <1>1, <1>2, <3>1 DEF Keys
    <3> QED BY <2>2, <3>1, <3>2 DEF Keys
  <2>4. Steady
    BY <1>1, <1>2, <2>2 DEF Steady
  <2>5. Invited' /\ OneEmpty' /\ Locked'
    BY <1>2 DEF IInv, Invited, OneEmpty, Locked, At
  <2> QED BY <2>1, <2>3, <2>4, <2>5
<1>4. \A q \in Key : key'[q].apps = key[q].apps
  BY <1>1, <1>2 DEF IInv, Typed
<1>5. ASSUME NEW r \in Request PROVE Doing(r)'
  <2>1. At(r, "app", "write") => key'[req[r].key].apps = key[req[r].key].apps
    BY <1>4 DEF IInv, Doing, At
  <2> QED BY <1>2, <1>3, <2>1, DoingStill
<1> QED BY <1>3, <1>5 DEF IInv

(* What the end of a request leaves is a request that knows nothing. *)
LEMMA EndForgets ==
  ASSUME IInv, NEW r \in Request, End(r)
  PROVE  /\ req' \in [Request -> RequestRecord] /\ Doing(r)' /\ req'[r].kind = "none"
         /\ \A q \in Request \ {r} : req'[q] = req[q]
<1>1. /\ req' \in [Request -> RequestRecord] /\ req'[r] = Idle
      /\ \A q \in Request \ {r} : req'[q] = req[q]
  BY IdleIsRequest DEF End, IInv, Typed
<1> QED BY <1>1 DEF Doing, At, Idle

(* A request that ends without having held a row releases none. *)
LEMMA EndUnlocked ==
  ASSUME IInv, NEW r \in Request, End(r), ~ At(r, "app", "write"), lock' = lock
  PROVE  Locked'
<1>1. req'[r].kind = "none" /\ \A q \in Request \ {r} : req'[q] = req[q]
  BY EndForgets
<1>2. ASSUME NEW k \in Key, NEW q \in Request
      PROVE  lock'[k] = q <=> At(q, "app", "write")' /\ req'[q].key = k
  <2>1. CASE q = r
    BY <1>1, <2>1 DEF IInv, Locked, At
  <2>2. CASE q # r
    BY <1>1, <2>2 DEF IInv, Locked, At
  <2> QED BY <2>1, <2>2
<1> QED BY <1>2 DEF Locked

(* The list of domains is written as it was to be when it was read. *)
LEMMA WriteDomainsKeeps ==
  ASSUME IInv, NEW r \in Request, WriteDomains(r) PROVE IInv'
<1> DEFINE k == req[r].key
<1>1. /\ k \in Key /\ req[r].seen \subseteq Pattern /\ key' = [key EXCEPT ![k].domains = req[r].seen]
      /\ End(r) /\ ~ At(r, "app", "write") /\ UNCHANGED <<lock, known, invite, session, promised>>
  BY DEF WriteDomains, IInv, Doing, At
<1> HIDE DEF k
<1>2. Locked' /\ Doing(r)' /\ req' \in [Request -> RequestRecord] /\ \A q \in Request \ {r} : req'[q] = req[q]
  BY <1>1, EndForgets, EndUnlocked
<1>3. key' \in [Key -> KeyRecord]
  <2>1. key \in [Key -> KeyRecord]
    BY DEF IInv, Typed
  <2>2. [key[k] EXCEPT !.domains = req[r].seen] \in KeyRecord
    BY <1>1, <2>1 DEF KeyRecord
  <2> QED BY <1>1, <2>1, <2>2
<1>4. \A q \in Key : /\ key'[q].status = key[q].status /\ key'[q].owner = key[q].owner
                     /\ key'[q].apps = key[q].apps
  BY <1>1 DEF IInv, Typed, KeyRecord
<1>5. Typed' /\ Invited' /\ OneEmpty'
  BY <1>1, <1>2, <1>3 DEF IInv, Typed, Invited, OneEmpty
<1>6. Keys' /\ Steady
  BY <1>1, <1>4 DEF IInv, Keys, Steady
<1> QED BY <1>2, <1>4, <1>5, <1>6, RequestStepKeeps

(* A key is revoked for good. *)
LEMMA WriteRevokedKeeps ==
  ASSUME IInv, NEW r \in Request, WriteRevoked(r) PROVE IInv'
<1> DEFINE k == req[r].key
<1>1. /\ k \in Key /\ key' = [key EXCEPT ![k].status = "REVOKED"]
      /\ promised' = [promised EXCEPT ![k].revoked = TRUE]
      /\ End(r) /\ ~ At(r, "app", "write") /\ UNCHANGED <<lock, known, invite, session>>
  BY DEF WriteRevoked, IInv, Doing, At
<1> HIDE DEF k
<1>2. Locked' /\ Doing(r)' /\ req' \in [Request -> RequestRecord] /\ \A q \in Request \ {r} : req'[q] = req[q]
  BY <1>1, EndForgets, EndUnlocked
<1>3. key' \in [Key -> KeyRecord] /\ promised' \in [Key -> [revoked : BOOLEAN, apps : SUBSET AppId]]
  <2>1. key \in [Key -> KeyRecord] /\ promised \in [Key -> [revoked : BOOLEAN, apps : SUBSET AppId]]
    BY DEF IInv, Typed
  <2>2. [key[k] EXCEPT !.status = "REVOKED"] \in KeyRecord
    BY <1>1, <2>1 DEF KeyRecord
  <2>3. [promised[k] EXCEPT !.revoked = TRUE] \in [revoked : BOOLEAN, apps : SUBSET AppId]
    BY <1>1, <2>1
  <2> QED BY <1>1, <2>1, <2>2, <2>3
<1>4. \A q \in Key : /\ key'[q].status = IF q = k THEN "REVOKED" ELSE key[q].status
                     /\ key'[q].owner = key[q].owner /\ key'[q].apps = key[q].apps
                     /\ promised'[q].apps = promised[q].apps
                     /\ promised'[q].revoked => q = k \/ promised[q].revoked
  BY <1>1 DEF IInv, Typed, KeyRecord
<1>5. Typed' /\ Invited' /\ OneEmpty'
  BY <1>1, <1>2, <1>3 DEF IInv, Typed, Invited, OneEmpty
<1>6. Keys' /\ Steady
  BY <1>1, <1>4 DEF IInv, Keys, Steady
<1> QED BY <1>2, <1>4, <1>5, <1>6, RequestStepKeeps

-----------------------------------------------------------------------------
(* The row is held from the moment the list of app ids is read ... *)
LEMMA LockKeyKeeps ==
  ASSUME IInv, NEW r \in Request, LockKey(r) PROVE IInv'
<1> DEFINE k == req[r].key
           seen == Changed(key[k].apps, req[r].item)
<1>1. /\ k \in Key /\ req[r].kind = "app" /\ lock[k] = None /\ lock' = [lock EXCEPT ![k] = r]
      /\ req[r].pc = "lock" /\ req' = [req EXCEPT ![r].pc = "write", ![r].seen = seen]
      /\ UNCHANGED <<key, known, invite, session, promised>>
  BY DEF LockKey, IInv, Doing, At, Free
<1>2. seen \subseteq AppId
  <2>1. key[k].apps \subseteq AppId
    BY <1>1 DEF IInv, Typed, KeyRecord
  <2>2. req[r].item \in {"add", "remove"} \X AppId
    BY <1>1 DEF IInv, Doing
  <2> QED BY <2>1, <2>2 DEF Changed
<1> HIDE DEF seen
<1>3. /\ req' \in [Request -> RequestRecord] /\ \A q \in Request \ {r} : req'[q] = req[q]
      /\ req'[r].pc = "write" /\ req'[r].seen = seen /\ req'[r].key = k /\ req'[r].kind = "app"
      /\ req'[r].item = req[r].item
  <2>1. req[r] \in RequestRecord /\ req \in [Request -> RequestRecord]
    BY DEF IInv, Typed
  <2>2. req' = [req EXCEPT ![r] = [req[r] EXCEPT !.pc = "write", !.seen = seen]]
    BY <1>1, <2>1
  <2>3. PICK x \in RequestRecord : x = [req[r] EXCEPT !.pc = "write", !.seen = seen]
    BY <1>2, <2>1 DEF RequestRecord, Seen
  <2>4. /\ x.pc = "write" /\ x.seen = seen /\ x.key = req[r].key /\ x.kind = req[r].kind
        /\ x.item = req[r].item
    BY <2>1, <2>3 DEF RequestRecord
  <2>5. /\ req' \in [Request -> RequestRecord] /\ req'[r] = x
        /\ \A q \in Request \ {r} : req'[q] = req[q]
    BY <2>1, <2>2, <2>3
  <2> QED BY <1>1, <2>4, <2>5
<1>4. Doing(r)'
  <2>1. req[r].item \in {"add", "remove"} \X AppId /\ key[k].status # "none"
    BY <1>1 DEF IInv, Doing
  <2>2. key' = key /\ seen = Changed(key[k].apps, req[r].item)
    BY <1>1 DEF seen
  <2> HIDE DEF k
  <2> QED BY <1>1, <1>3, <2>1, <2>2 DEF Doing, At
<1>5. Typed' /\ Keys' /\ Invited' /\ OneEmpty' /\ Steady
  BY <1>1, <1>3 DEF IInv, Typed, Keys, Invited, OneEmpty, Steady
<1>6. Locked'
  <2>1. ASSUME NEW j \in Key, NEW q \in Request
        PROVE  lock'[j] = q <=> At(q, "app", "write")' /\ req'[q].key = j
    <3>1. lock'[j] = IF j = k THEN r ELSE lock[j]
      BY <1>1 DEF IInv, Typed
    <3>2. CASE q = r
      BY <1>1, <1>3, <3>1, <3>2 DEF IInv, Locked, At
    <3>3. CASE q # r
      <4>1. lock[k] # q
        BY <1>1, RequestAssumption
      <4> QED BY <1>1, <1>3, <3>1, <3>3, <4>1 DEF IInv, Locked, At
    <3> QED BY <3>2, <3>3
  <2> QED BY <2>1 DEF Locked
<1> QED BY <1>1, <1>3, <1>4, <1>5, <1>6, RequestStepKeeps

(* ... until the changed list is written: it is the list that was promised. *)
LEMMA WriteAppIdsKeeps ==
  ASSUME IInv, NEW r \in Request, WriteAppIds(r) PROVE IInv'
<1> DEFINE k == req[r].key
<1>1. /\ k \in Key /\ req[r].seen = Changed(key[k].apps, req[r].item) /\ key[k].status # "none"
      /\ req[r].item \in {"add", "remove"} \X AppId /\ lock[k] = r
      /\ key' = [key EXCEPT ![k].apps = req[r].seen]
      /\ promised' = [promised EXCEPT ![k].apps = Changed(promised[k].apps, req[r].item)]
      /\ lock' = [lock EXCEPT ![k] = None]
      /\ End(r) /\ UNCHANGED <<known, invite, session>>
  BY DEF WriteAppIds, IInv, Doing, At, Locked, Typed
<1>2. req[r].seen \subseteq AppId /\ key[k].apps = promised[k].apps
  BY <1>1 DEF IInv, Typed, KeyRecord, Changed, Keys
<1>3. At(r, "app", "write")
  BY DEF WriteAppIds
<1> HIDE DEF k
<1>4. /\ Doing(r)' /\ req' \in [Request -> RequestRecord] /\ \A q \in Request \ {r} : req'[q] = req[q]
      /\ req'[r].kind = "none"
  BY <1>1, EndForgets
<1>5. key' \in [Key -> KeyRecord] /\ promised' \in [Key -> [revoked : BOOLEAN, apps : SUBSET AppId]]
  <2>1. promised' = [promised EXCEPT ![k].apps = req[r].seen]
    BY <1>1, <1>2
  <2>2. promised \in [Key -> [revoked : BOOLEAN, apps : SUBSET AppId]] /\ key \in [Key -> KeyRecord]
    BY DEF IInv, Typed
  <2>3. [key[k] EXCEPT !.apps = req[r].seen] \in KeyRecord
    <3>1. k \in Key /\ key[k] \in KeyRecord
      BY <1>1, <2>2
    <3> QED BY <1>2, <3>1 DEF KeyRecord
  <2>4. [promised[k] EXCEPT !.apps = req[r].seen] \in [revoked : BOOLEAN, apps : SUBSET AppId]
    BY <1>1, <1>2, <2>2
  <2> QED BY <1>1, <2>1, <2>2, <2>3, <2>4
<1>6. \A q \in Key : /\ key'[q].status = key[q].status /\ key'[q].owner = key[q].owner
                     /\ key'[q].apps = IF q = k THEN req[r].seen ELSE key[q].apps
                     /\ promised'[q].apps = IF q = k THEN req[r].seen ELSE promised[q].apps
                     /\ promised'[q].revoked = promised[q].revoked
  BY <1>1, <1>2 DEF IInv, Typed, KeyRecord
<1>7. lock' \in [Key -> Request \cup {None}] /\ \A q \in Key : lock'[q] = IF q = k THEN None ELSE lock[q]
  BY <1>1 DEF IInv, Typed
<1>8. Typed' /\ Invited' /\ OneEmpty'
  BY <1>1, <1>4, <1>5, <1>7 DEF IInv, Typed, Invited, OneEmpty
<1>9. Keys' /\ Steady
  BY <1>1, <1>6 DEF IInv, Keys, Steady
<1>10. Locked'
  <2>1. ASSUME NEW j \in Key, NEW q \in Request
        PROVE  lock'[j] = q <=> At(q, "app", "write")' /\ req'[q].key = j
    <3>1. q # None
      BY RequestAssumption
    <3>2. CASE q = r
      BY <1>3, <1>4, <1>7, <3>1, <3>2 DEF IInv, Locked, At, k
    <3>3. CASE q # r
      BY <1>1, <1>4, <1>7, <3>1, <3>3 DEF IInv, Locked, At
    <3> QED BY <3>2, <3>3
  <2> QED BY <2>1 DEF Locked
<1>11. \A q \in Request \ {r}, j \in Key : lock[j] = q => key'[j].apps = key[j].apps
  BY <1>1, <1>6
<1> QED BY <1>4, <1>8, <1>9, <1>10, <1>11, RequestStepKeeps

-----------------------------------------------------------------------------
(* The administrator an invitation is for has been looked up by its address ... *)
LEMMA FindInviteeKeeps ==
  ASSUME IInv, NEW r \in Request, FindInvitee(r) PROVE IInv'
<1> DEFINE seen == {a \in known : EmailOf[a] = req[r].item}
<1>1. /\ req[r].kind = "invite" /\ req[r].pc = "admin" /\ req[r] \in RequestRecord
      /\ req[r].key \in Key /\ req[r].item \in Email /\ Normal[req[r].item] = req[r].item
      /\ req' = [req EXCEPT ![r].pc = "write", ![r].seen = seen]
      /\ UNCHANGED <<key, lock, known, invite, session, promised>>
  BY DEF FindInvitee, At, IInv, Doing, Typed
<1>2. PICK x \in RequestRecord : x = [req[r] EXCEPT !.pc = "write", !.seen = seen]
  BY <1>1 DEF RequestRecord, Seen, IInv, Typed
<1>3. req' = [req EXCEPT ![r] = x]
  BY <1>1, <1>2 DEF IInv, Typed
<1>4. x.kind = "invite" /\ x.pc = "write" /\ x.key = req[r].key /\ x.item = req[r].item /\ x.seen = seen
  BY <1>1, <1>2 DEF RequestRecord
<1>5. req'[r] = x
  BY <1>3 DEF IInv, Typed
<1>6. Doing(r)'
  BY <1>1, <1>4, <1>5 DEF Doing, At
<1>7. ~ At(r, "app", "write") /\ ~ (x.kind = "app" /\ x.pc = "write")
  BY <1>1, <1>4 DEF At
<1> QED BY <1>1, <1>3, <1>6, <1>7, RequestMoves

(* ... so that whoever accepts by it has that address. *)
LEMMA InsertInvitationKeeps ==
  ASSUME IInv, NEW r \in Request, InsertInvitation(r) PROVE IInv'
<1> DEFINE k == req[r].key
<1>1. /\ At(r, "invite", "write") /\ k \in Key /\ req[r].item \in Email /\ Normal[req[r].item] = req[r].item
      /\ req[r].seen \subseteq known /\ \A a \in req[r].seen : EmailOf[a] = req[r].item
      /\ End(r) /\ ~ At(r, "app", "write") /\ UNCHANGED <<key, lock, known, session, promised>>
  BY DEF InsertInvitation, IInv, Doing, At
<1>2. PICK i \in Invitation :
        /\ invite[i] = NoInvite
        /\ invite' = [invite EXCEPT ![i] =
             [key |-> k, email |-> req[r].item,
              status |-> IF req[r].seen = {} THEN "PENDING" ELSE "ACCEPTED",
              invitee |-> IF req[r].seen = {} THEN None ELSE CHOOSE a \in req[r].seen : TRUE]]
  BY DEF InsertInvitation
<1>3. PICK x \in InviteRecord :
        /\ invite' = [invite EXCEPT ![i] = x] /\ x.email = req[r].item
        /\ \/ x.status = "PENDING" /\ x.invitee = None
           \/ x.status = "ACCEPTED" /\ x.invitee \in req[r].seen
  <2>1. CASE req[r].seen = {}
    <3>1. [key |-> k, email |-> req[r].item, status |-> "PENDING", invitee |-> None] \in InviteRecord
      BY <1>1 DEF InviteRecord
    <3> QED BY <1>2, <2>1, <3>1
  <2>2. CASE req[r].seen # {}
    <3>1. PICK a \in req[r].seen : a = CHOOSE b \in req[r].seen : TRUE
      BY <2>2
    <3>2. a \in Admin
      BY <1>1 DEF IInv, Typed
    <3>3. [key |-> k, email |-> req[r].item, status |-> "ACCEPTED", invitee |-> a] \in InviteRecord
      BY <1>1, <3>2 DEF InviteRecord
    <3> QED BY <1>2, <2>2, <3>1, <3>3
  <2> QED BY <2>1, <2>2
<1> HIDE DEF k
<1>4. Locked' /\ Doing(r)' /\ req' \in [Request -> RequestRecord] /\ \A q \in Request \ {r} : req'[q] = req[q]
  BY <1>1, EndForgets, EndUnlocked
<1>5. invite'[i] = x /\ invite[i].status = "none" /\ \A j \in Invitation \ {i} : invite'[j] = invite[j]
  BY <1>2, <1>3 DEF NoInvite, IInv, Typed
<1>6. Typed' /\ Keys' /\ OneEmpty'
  BY <1>1, <1>3, <1>4 DEF IInv, Typed, Keys, OneEmpty
<1>7. Steady
  BY <1>1, <1>5 DEF Steady
<1>8. Invited'
  <2>1. /\ x.status = "ACCEPTED" => x.invitee \in known /\ Normal[EmailOf[x.invitee]] = x.email
        /\ x.status = "PENDING" => x.invitee = None
        /\ x.status # "none"
    BY <1>1, <1>3
  <2> QED BY <1>1, <1>5, <2>1 DEF IInv, Invited
<1>9. \A q \in Key : key'[q].apps = key[q].apps
  BY <1>1
<1> QED BY <1>4, <1>6, <1>7, <1>8, <1>9, RequestStepKeeps

(* An invitation that is removed is not open any more. *)
LEMMA DeleteInvitationKeeps ==
  ASSUME IInv, NEW r \in Request, DeleteInvitation(r) PROVE IInv'
<1> DEFINE i == req[r].item
<1>1. /\ i \in Invitation /\ invite[i].status # "none" /\ invite' = [invite EXCEPT ![i].status = "removed"]
      /\ End(r) /\ ~ At(r, "app", "write") /\ UNCHANGED <<key, lock, known, session, promised>>
  BY DEF DeleteInvitation, IInv, Doing, At
<1> HIDE DEF i
<1>2. Locked' /\ Doing(r)' /\ req' \in [Request -> RequestRecord] /\ \A q \in Request \ {r} : req'[q] = req[q]
  BY <1>1, EndForgets, EndUnlocked
<1>3. invite' \in [Invitation -> InviteRecord]
  <2>1. invite \in [Invitation -> InviteRecord]
    BY DEF IInv, Typed
  <2>2. [invite[i] EXCEPT !.status = "removed"] \in InviteRecord
    BY <1>1, <2>1 DEF InviteRecord
  <2> QED BY <1>1, <2>1, <2>2
<1>4. /\ invite'[i].status = "removed" /\ invite'[i].key = invite[i].key /\ invite'[i].email = invite[i].email
      /\ \A j \in Invitation \ {i} : invite'[j] = invite[j]
  BY <1>1 DEF IInv, Typed, InviteRecord
<1>5. Typed' /\ Keys' /\ OneEmpty'
  BY <1>1, <1>2, <1>3 DEF IInv, Typed, Keys, OneEmpty
<1>6. Steady /\ Invited'
  BY <1>1, <1>4 DEF Steady, IInv, Invited
<1>7. \A q \in Key : key'[q].apps = key[q].apps
  BY <1>1
<1> QED BY <1>2, <1>5, <1>6, <1>7, RequestStepKeeps

-----------------------------------------------------------------------------
(* A login makes the administrator known and sees what is open for him ... *)
LEMMA LoginKeeps ==
  ASSUME IInv, NEW r \in Request, NEW a \in Admin, Login(r, a) PROVE IInv'
<1> DEFINE seen == Pending(Normal[EmailOf[a]])
<1>1. /\ Begin(r, "login", "accept", None, a, seen) /\ known' = known \cup {a}
      /\ UNCHANGED <<key, lock, invite, session, promised>>
  BY DEF Login
<1>2. /\ seen \subseteq Invitation
      /\ \A i \in seen : invite[i].status # "none" /\ invite[i].email = Normal[EmailOf[a]]
  BY DEF Pending
<1> HIDE DEF seen
<1>3. PICK x \in RequestRecord :
        x = [kind |-> "login", pc |-> "accept", key |-> None, item |-> a, seen |-> seen, ok |-> FALSE]
  <2>1. [kind |-> "login", pc |-> "accept", key |-> None, item |-> a, seen |-> seen, ok |-> FALSE] \in RequestRecord
    BY <1>2 DEF RequestRecord, Item, Seen
  <2> QED BY <2>1
<1>4. /\ req' \in [Request -> RequestRecord] /\ req'[r] = x /\ req[r] = Idle
      /\ \A q \in Request \ {r} : req'[q] = req[q]
  BY <1>1, <1>3 DEF Begin, IInv, Typed
<1>5. Doing(r)'
  BY <1>1, <1>2, <1>3, <1>4 DEF Doing, At
<1>6. Typed' /\ Keys' /\ Invited' /\ OneEmpty' /\ Steady
  BY <1>1, <1>4 DEF IInv, Typed, Keys, Invited, OneEmpty, Steady
<1>7. Locked'
  <2>1. ASSUME NEW k \in Key, NEW q \in Request
        PROVE  lock'[k] = q <=> At(q, "app", "write")' /\ req'[q].key = k
    <3>1. CASE q = r
      BY <1>1, <1>3, <1>4, <3>1 DEF IInv, Locked, At, Idle
    <3>2. CASE q # r
      BY <1>1, <1>4, <3>2 DEF IInv, Locked, At
    <3> QED BY <3>1, <3>2
  <2> QED BY <2>1 DEF Locked
<1>8. \A q \in Key : key'[q].apps = key[q].apps
  BY <1>1
<1> QED BY <1>4, <1>5, <1>6, <1>7, <1>8, RequestStepKeeps

(* ... and accepts all that is open then. *)
LEMMA AcceptInvitationsKeeps ==
  ASSUME IInv, NEW r \in Request, AcceptInvitations(r) PROVE IInv'
<1> DEFINE a == req[r].item
           accepted == Pending(Normal[EmailOf[a]])
<1>1. /\ req[r].kind = "login" /\ req[r].pc = "accept" /\ req[r] \in RequestRecord
      /\ a \in known /\ a \in Admin /\ req[r].seen \subseteq Invitation
      /\ \A i \in req[r].seen : invite[i].status # "none" /\ invite[i].email = Normal[EmailOf[a]]
  BY DEF AcceptInvitations, AcceptAs, At, IInv, Doing, Typed
<1>2. /\ invite' = [i \in Invitation |-> IF i \in accepted
                                         THEN [invite[i] EXCEPT !.status = "ACCEPTED", !.invitee = a]
                                         ELSE invite[i]]
      /\ req' = [req EXCEPT ![r].pc = "answer", ![r].ok = TRUE]
      /\ UNCHANGED <<key, lock, known, session, promised>>
  BY DEF AcceptInvitations, AcceptAs
<1>3. \A i \in Invitation : i \in accepted <=> invite[i].status = "PENDING" /\ invite[i].email = Normal[EmailOf[a]]
  BY DEF Pending
<1> HIDE DEF a, accepted
<1>4. ASSUME NEW i \in Invitation
      PROVE  /\ invite'[i] \in InviteRecord
             /\ i \notin accepted => invite'[i] = invite[i]
             /\ i \in accepted => /\ invite'[i].status = "ACCEPTED" /\ invite'[i].invitee = a
                                  /\ invite'[i].key = invite[i].key /\ invite'[i].email = invite[i].email
  <2>1. invite[i] \in InviteRecord
    BY DEF IInv, Typed
  <2>2. CASE i \in accepted
    <3>1. invite'[i] = [invite[i] EXCEPT !.status = "ACCEPTED", !.invitee = a]
      BY <1>2, <2>2
    <3> QED BY <1>1, <2>1, <2>2, <3>1 DEF InviteRecord
  <2>3. CASE i \notin accepted
    BY <1>2, <2>1, <2>3
  <2> QED BY <2>2, <2>3
<1>5. invite' \in [Invitation -> InviteRecord]
  <2>1. invite' = [i \in Invitation |-> invite'[i]]
    BY <1>2
  <2> QED BY <1>4, <2>1
<1>6. PICK x \in RequestRecord : x = [req[r] EXCEPT !.pc = "answer", !.ok = TRUE]
  BY <1>1 DEF RequestRecord
<1>7. /\ x.kind = "login" /\ x.pc = "answer" /\ x.key = req[r].key /\ x.item = a /\ x.seen = req[r].seen
  BY <1>1, <1>6 DEF RequestRecord, a
<1>8. /\ req' \in [Request -> RequestRecord] /\ req'[r] = x
      /\ \A q \in Request \ {r} : req'[q] = req[q]
  BY <1>2, <1>6 DEF IInv, Typed
<1>9. Doing(r)'
  <2>1. ASSUME NEW i \in req[r].seen
        PROVE  /\ invite'[i].status # "none" /\ invite'[i].status # "PENDING"
               /\ invite'[i].email = Normal[EmailOf[a]]
    BY <1>1, <1>3, <1>4
  <2>2. /\ req'[r].kind = "login" /\ req'[r].item = a /\ req'[r].seen = req[r].seen
        /\ a \in known' /\ req[r].seen \subseteq Invitation
    BY <1>1, <1>2, <1>7, <1>8
  <2> QED BY <2>1, <2>2 DEF Doing, At
<1>10. Typed' /\ Keys' /\ OneEmpty'
  BY <1>2, <1>5, <1>8 DEF IInv, Typed, Keys, OneEmpty
<1>11. Invited' /\ Steady
  <2>1. ASSUME NEW i \in Invitation
        PROVE  /\ invite'[i].status = "ACCEPTED" => /\ invite'[i].invitee \in known
                                                    /\ Normal[EmailOf[invite'[i].invitee]] = invite'[i].email
               /\ invite'[i].status = "PENDING" => invite'[i].invitee = None
               /\ invite'[i].status = "none" => invite'[i].key = None
               /\ invite[i].status # "none" =>
                    /\ invite'[i].status # "none" /\ invite'[i].key = invite[i].key
                    /\ invite'[i].email = invite[i].email
                    /\ invite[i].status # "PENDING" => invite'[i].status # "PENDING"
    <3>1. CASE i \in accepted
      BY <1>1, <1>3, <1>4, <3>1
    <3>2. CASE i \notin accepted
      BY <1>4, <3>2 DEF IInv, Invited
    <3> QED BY <3>1, <3>2
  <2>2. known' = known /\ key' = key
    BY <1>2
  <2>3. Invited'
    BY <2>1, <2>2 DEF Invited
  <2> QED BY <2>1, <2>2, <2>3 DEF Steady
<1>12. Locked'
  <2>1. ASSUME NEW k \in Key, NEW q \in Request
        PROVE  lock'[k] = q <=> At(q, "app", "write")' /\ req'[q].key = k
    <3>1. CASE q = r
      BY <1>1, <1>2, <1>7, <1>8, <3>1 DEF IInv, Locked, At
    <3>2. CASE q # r
      <4>1. lock' = lock /\ req'[q] = req[q]
        BY <1>2, <1>8, <3>2
      <4> QED BY <4>1 DEF IInv, Locked, At
    <3> QED BY <3>1, <3>2
  <2> QED BY <2>1 DEF Locked
<1>13. \A q \in Key : key'[q].apps = key[q].apps
  BY <1>2
<1> QED BY <1>8, <1>9, <1>10, <1>11, <1>12, <1>13, RequestStepKeeps

(* A failure to accept is only logged; then a login knows nothing of them. *)
LEMMA AcceptFailsKeeps ==
  ASSUME IInv, NEW r \in Request, AcceptFails(r) PROVE IInv'
<1>1. /\ req[r].kind = "login" /\ req[r].pc = "accept" /\ req[r] \in RequestRecord /\ Doing(r)
      /\ req' = [req EXCEPT ![r].pc = "answer"]
      /\ UNCHANGED <<key, lock, known, invite, session, promised>>
  BY DEF AcceptFails, Goto, At, IInv, Typed
<1>2. PICK x \in RequestRecord : x = [req[r] EXCEPT !.pc = "answer"]
  BY <1>1 DEF RequestRecord
<1>3. x.kind = "login" /\ x.pc = "answer" /\ x.item = req[r].item /\ x.seen = req[r].seen /\ x.ok = req[r].ok
  BY <1>1, <1>2 DEF RequestRecord
<1>4. req' = [req EXCEPT ![r] = x] /\ req'[r] = x
  BY <1>1, <1>2 DEF IInv, Typed
<1>5. Doing(r)'
  BY <1>1, <1>3, <1>4 DEF Doing, At
<1>6. ~ At(r, "app", "write") /\ ~ (x.kind = "app" /\ x.pc = "write")
  BY <1>1, <1>3 DEF At
<1> QED BY <1>1, <1>4, <1>5, <1>6, RequestMoves

-----------------------------------------------------------------------------
(* A request that ends without having held or written a row. *)
LEMMA EndKeeps ==
  ASSUME IInv, NEW r \in Request, End(r), ~ At(r, "app", "write"),
         UNCHANGED <<key, lock, known, invite, session, promised>>
  PROVE  IInv'
<1>1. Locked' /\ Doing(r)' /\ req' \in [Request -> RequestRecord] /\ \A q \in Request \ {r} : req'[q] = req[q]
  BY EndForgets, EndUnlocked
<1>2. Typed' /\ Keys' /\ Invited' /\ OneEmpty' /\ Steady
  BY <1>1 DEF IInv, Typed, Keys, Invited, OneEmpty, Steady
<1>3. \A q \in Key : key'[q].apps = key[q].apps
  OBVIOUS
<1> QED BY <1>1, <1>2, <1>3, RequestStepKeeps

(* A report begins with the keys that the administrator owns ... *)
LEMMA ReadOwnedKeysKeeps ==
  ASSUME IInv, NEW r \in Request, NEW a \in Admin, ReadOwnedKeys(r, a) PROVE IInv'
<1> DEFINE seen == {k \in Key : Owns(a, k) /\ InUse(k)}
<1>1. /\ Begin(r, "stats", "shared", None, a, seen) /\ a \in known
      /\ UNCHANGED <<key, lock, known, invite, session, promised>>
  BY DEF ReadOwnedKeys
<1>2. seen \subseteq Key /\ \A k \in seen : key[k].owner = a
  BY DEF Owns
<1> HIDE DEF seen
<1>3. [kind |-> "stats", pc |-> "shared", key |-> None, item |-> a, seen |-> seen, ok |-> FALSE] \in RequestRecord
  BY <1>2 DEF RequestRecord, Item, Seen
<1>4. req'[r] = [kind |-> "stats", pc |-> "shared", key |-> None, item |-> a, seen |-> seen, ok |-> FALSE]
  BY <1>1 DEF Begin, IInv, Typed
<1>5. Doing(r)'
  BY <1>1, <1>2, <1>4 DEF Doing, At, Owns
<1> QED BY <1>1, <1>3, <1>5, BeginKeeps

(* ... and goes on with those shared with him, by an invitation to his address. *)
LEMMA ReadSharedKeysKeeps ==
  ASSUME IInv, NEW r \in Request, ReadSharedKeys(r) PROVE IInv'
<1> DEFINE a == req[r].item
           shared == {k \in Key : InUse(k) /\ \E i \in Invitation :
                        /\ invite[i].status = "ACCEPTED" /\ invite[i].key = k /\ invite[i].invitee = a}
           seen == req[r].seen \cup shared
<1>1. /\ req[r].kind = "stats" /\ req[r].pc = "shared" /\ req[r] \in RequestRecord
      /\ a \in known /\ req[r].seen \subseteq Key
      /\ \A k \in req[r].seen : Owns(a, k) \/ \E i \in Invitation :
           invite[i].key = k /\ invite[i].email = Normal[EmailOf[a]]
  BY DEF ReadSharedKeys, At, IInv, Doing, Typed
<1>2. req' = [req EXCEPT ![r].pc = "report", ![r].seen = seen]
  BY DEF ReadSharedKeys, IInv, Typed
<1>3. UNCHANGED <<key, lock, known, invite, session, promised>>
  BY DEF ReadSharedKeys
<1>4. seen \subseteq Key
  BY <1>1
<1>5. \A k \in seen : Owns(a, k) \/ \E i \in Invitation :
        invite[i].key = k /\ invite[i].email = Normal[EmailOf[a]]
  BY <1>1 DEF IInv, Invited
<1> HIDE DEF seen
<1>6. PICK x \in RequestRecord : x = [req[r] EXCEPT !.pc = "report", !.seen = seen]
  BY <1>1, <1>4 DEF RequestRecord, Seen
<1>7. x.kind = "stats" /\ x.pc = "report" /\ x.item = a /\ x.seen = seen
  BY <1>1, <1>6 DEF RequestRecord
<1>8. req' = [req EXCEPT ![r] = x] /\ req'[r] = x
  BY <1>2, <1>6 DEF IInv, Typed
<1>9. Doing(r)'
  BY <1>1, <1>3, <1>4, <1>5, <1>7, <1>8 DEF Doing, At, Owns
<1>10. ~ At(r, "app", "write") /\ ~ (x.kind = "app" /\ x.pc = "write")
  BY <1>1, <1>7 DEF At
<1> QED BY <1>3, <1>8, <1>9, <1>10, RequestMoves

-----------------------------------------------------------------------------
(* No second row with an empty token is inserted. *)
LEMMA InsertSessionKeeps ==
  ASSUME IInv, NEW r \in Request, InsertSession(r) PROVE IInv'
<1>1. PICK s \in Slot :
        /\ session' = [session EXCEPT ![s] = [state |-> "empty", key |-> req[r].key, origin |-> req[r].item]]
        /\ req' = [req EXCEPT ![r].pc = "token", ![r].seen = {s}]
  BY DEF InsertSession
<1>2. /\ req[r].kind = "session" /\ req[r].pc = "insert" /\ req[r] \in RequestRecord
      /\ req[r].key \in Key /\ req[r].item \in Origin
      /\ \A q \in Slot : session[q].state # "empty"
      /\ UNCHANGED <<key, lock, known, invite, promised>>
  BY DEF InsertSession, At, IInv, Doing, Typed
<1>3. [state |-> "empty", key |-> req[r].key, origin |-> req[r].item] \in SessionRecord
  BY <1>2 DEF SessionRecord
<1>4. session' \in [Slot -> SessionRecord] /\ \A q \in Slot \ {s} : session'[q] = session[q]
  BY <1>1, <1>3 DEF IInv, Typed
<1>5. PICK x \in RequestRecord : x = [req[r] EXCEPT !.pc = "token", !.seen = {s}]
  BY <1>2 DEF RequestRecord, Seen
<1>6. x.kind = "session" /\ x.pc = "token" /\ x.key = req[r].key /\ x.item = req[r].item
  BY <1>2, <1>5 DEF RequestRecord
<1>7. /\ req' \in [Request -> RequestRecord] /\ req'[r] = x
      /\ \A q \in Request \ {r} : req'[q] = req[q]
  BY <1>1, <1>5 DEF IInv, Typed
<1>8. Doing(r)'
  BY <1>2, <1>6, <1>7 DEF Doing, At
<1>9. Typed' /\ Keys' /\ Invited' /\ Steady
  BY <1>2, <1>4, <1>7 DEF IInv, Typed, Keys, Invited, Steady
<1>10. OneEmpty'
  BY <1>2, <1>4 DEF OneEmpty
<1>11. Locked'
  <2>1. ASSUME NEW k \in Key, NEW q \in Request
        PROVE  lock'[k] = q <=> At(q, "app", "write")' /\ req'[q].key = k
    <3>1. CASE q = r
      BY <1>2, <1>6, <1>7, <3>1 DEF IInv, Locked, At
    <3>2. CASE q # r
      <4>1. lock' = lock /\ req'[q] = req[q]
        BY <1>2, <1>7, <3>2
      <4> QED BY <4>1 DEF IInv, Locked, At
    <3> QED BY <3>1, <3>2
  <2> QED BY <2>1 DEF Locked
<1>12. \A q \in Key : key'[q].apps = key[q].apps
  BY <1>2
<1> QED BY <1>7, <1>8, <1>9, <1>10, <1>11, <1>12, RequestStepKeeps

(* What a row is opened with is what it was inserted with. *)
LEMMA TokenStored ==
  ASSUME IInv, NEW r \in Request, StoreToken(r), NEW s \in Slot
  PROVE  /\ session'[s] \in SessionRecord
         /\ session'[s].key = session[s].key /\ session'[s].origin = session[s].origin
         /\ session'[s].state = "empty" => session[s].state = "empty"
<1>1. session[s] \in SessionRecord
  BY DEF IInv, Typed
<1>2. session'[s] = IF s \in req[r].seen THEN [session[s] EXCEPT !.state = "open"] ELSE session[s]
  BY DEF StoreToken
<1>3. CASE s \in req[r].seen
  BY <1>1, <1>2, <1>3 DEF SessionRecord
<1>4. CASE s \notin req[r].seen
  BY <1>1, <1>2, <1>4
<1> QED BY <1>3, <1>4

(* A token is stored. *)
LEMMA StoreTokenKeeps ==
  ASSUME IInv, NEW r \in Request, StoreToken(r) PROVE IInv'
<1>1. /\ ~ At(r, "app", "write") /\ End(r) /\ UNCHANGED <<key, lock, known, invite, promised>>
      /\ session' = [s \in Slot |-> session'[s]]
  BY DEF StoreToken, At
<1>2. Locked' /\ Doing(r)' /\ req' \in [Request -> RequestRecord] /\ \A q \in Request \ {r} : req'[q] = req[q]
  BY <1>1, EndForgets, EndUnlocked
<1>3. session' \in [Slot -> SessionRecord] /\ \A s \in Slot : session'[s].state = "empty" => session[s].state = "empty"
  BY <1>1, TokenStored
<1>4. Typed' /\ Keys' /\ Invited' /\ Steady
  BY <1>1, <1>2, <1>3 DEF IInv, Typed, Keys, Invited, Steady
<1>5. OneEmpty'
  BY <1>3 DEF IInv, OneEmpty
<1>6. \A q \in Key : key'[q].apps = key[q].apps
  BY <1>1
<1> QED BY <1>2, <1>4, <1>5, <1>6, RequestStepKeeps

(* The time of a session is over. *)
LEMMA ExpireKeeps ==
  ASSUME IInv, NEW s \in Slot, Expire(s) PROVE IInv'
<1>1. /\ session' = [session EXCEPT ![s] = NoSession]
      /\ UNCHANGED <<key, lock, known, invite, req, promised>>
  BY DEF Expire
<1>2. NoSession \in SessionRecord /\ NoSession.state = "none"
  BY DEF NoSession, SessionRecord
<1>3. session' \in [Slot -> SessionRecord] /\ \A q \in Slot : session'[q] = IF q = s THEN NoSession ELSE session[q]
  BY <1>1, <1>2 DEF IInv, Typed
<1>4. Typed' /\ Keys' /\ Invited' /\ Locked' /\ Steady
  BY <1>1, <1>3 DEF IInv, Typed, Keys, Invited, Locked, At, Steady
<1>5. OneEmpty'
  BY <1>2, <1>3 DEF IInv, OneEmpty
<1>6. ASSUME NEW r \in Request PROVE Doing(r)'
  BY <1>1, <1>4, DoingStill
<1> QED BY <1>4, <1>5, <1>6 DEF IInv

(* A request that fails gives back the rows that it holds. *)
LEMMA FailKeeps ==
  ASSUME IInv, NEW r \in Request, Fail(r) PROVE IInv'
<1>1. /\ lock' = [k \in Key |-> IF lock[k] = r THEN None ELSE lock[k]]
      /\ End(r) /\ UNCHANGED <<key, known, invite, session, promised>>
  BY DEF Fail
<1>2. /\ Doing(r)' /\ req' \in [Request -> RequestRecord] /\ req'[r].kind = "none"
      /\ \A q \in Request \ {r} : req'[q] = req[q]
  BY <1>1, EndForgets
<1>3. lock' \in [Key -> Request \cup {None}]
  BY <1>1 DEF IInv, Typed
<1>4. Typed' /\ Keys' /\ Invited' /\ OneEmpty' /\ Steady
  BY <1>1, <1>2, <1>3 DEF IInv, Typed, Keys, Invited, OneEmpty, Steady
<1>5. Locked'
  <2>1. ASSUME NEW k \in Key, NEW q \in Request
        PROVE  lock'[k] = q <=> At(q, "app", "write")' /\ req'[q].key = k
    <3>1. q # None /\ lock'[k] = IF lock[k] = r THEN None ELSE lock[k]
      BY <1>1, RequestAssumption
    <3>2. CASE q = r
      BY <1>2, <3>1, <3>2 DEF At
    <3>3. CASE q # r
      BY <1>2, <3>1, <3>3 DEF IInv, Locked, At
    <3> QED BY <3>2, <3>3
  <2> QED BY <2>1 DEF Locked
<1>6. \A q \in Key : key'[q].apps = key[q].apps
  BY <1>1
<1> QED BY <1>2, <1>4, <1>5, <1>6, RequestStepKeeps

-----------------------------------------------------------------------------
(* At the beginning nothing was made. *)
LEMMA InitKeeps == Init => IInv
<1> SUFFICES ASSUME Init PROVE IInv
  OBVIOUS
<1>1. /\ NoKey \in KeyRecord /\ NoKey.owner = None /\ NoKey.apps = {}
      /\ NoInvite \in InviteRecord /\ NoInvite.status = "none" /\ NoInvite.key = None
      /\ NoSession \in SessionRecord /\ NoSession.state = "none"
      /\ Idle \in RequestRecord /\ Idle.kind = "none"
  BY IdleIsRequest DEF NoKey, KeyRecord, NoInvite, InviteRecord, NoSession, SessionRecord, Idle
<1>2. Typed
  BY <1>1 DEF Init, Typed
<1>3. Keys /\ Invited /\ OneEmpty
  BY <1>1 DEF Init, Keys, Invited, OneEmpty
<1>4. Locked
  BY <1>1, RequestAssumption DEF Init, Locked, At
<1>5. \A r \in Request : Doing(r)
  BY <1>1 DEF Init, Doing, At
<1> QED BY <1>2, <1>3, <1>4, <1>5 DEF IInv

(* Every step of a request keeps the invariant. *)
LEMMA RequestStepsKeep ==
  ASSUME IInv, NEW r \in Request, RequestStep(r) PROVE IInv'
<1>1. CASE AnswerLogin(r)
  <2>1. End(r) /\ ~ At(r, "app", "write") /\ UNCHANGED <<key, lock, known, invite, session, promised>>
    BY <1>1 DEF AnswerLogin, At
  <2> QED BY <2>1, EndKeeps
<1>2. CASE Report(r)
  <2>1. End(r) /\ ~ At(r, "app", "write") /\ UNCHANGED <<key, lock, known, invite, session, promised>>
    BY <1>2 DEF Report, At
  <2> QED BY <2>1, EndKeeps
<1> QED BY <1>1, <1>2, WriteDomainsKeeps, WriteRevokedKeeps, LockKeyKeeps, WriteAppIdsKeeps,
           FindInviteeKeeps, InsertInvitationKeeps, DeleteInvitationKeeps, AcceptInvitationsKeeps,
           AcceptFailsKeeps, ReadSharedKeysKeeps, InsertSessionKeeps, StoreTokenKeeps, FailKeeps
        DEF RequestStep

(* Every step keeps it. *)
LEMMA NextKeeps == IInv /\ [Next]_vars => IInv'
<1> SUFFICES ASSUME IInv, [Next]_vars PROVE IInv'
  OBVIOUS
<1>1. CASE UNCHANGED vars
  BY <1>1 DEF vars, IInv, Typed, Keys, Invited, OneEmpty, Locked, Doing, At, Owns
<1>2. CASE \E a \in Admin, k \in Key : CreateWidgetKey(a, k)
  BY <1>2, CreateWidgetKeyKeeps
<1>3. ASSUME NEW r \in Request,
             BeginKeyRequest(r) \/ (\E a \in Admin : Login(r, a) \/ ReadOwnedKeys(r, a)) \/ RequestStep(r)
      PROVE  IInv'
  BY <1>3, BeginKeyRequestKeeps, LoginKeeps, ReadOwnedKeysKeeps, RequestStepsKeep
<1>4. CASE \E s \in Slot : Expire(s)
  BY <1>4, ExpireKeeps
<1> QED BY <1>1, <1>2, <1>3, <1>4 DEF Next

(* The inductive invariant of widget keys and invitations. *)
THEOREM WidgetInvariant == Spec => []IInv
BY InitKeeps, NextKeeps, PTL DEF Spec

(* Type correctness, who holds the row of a key, and the one row without a token
   (schema.ts, admin.service.ts, widget-auth.service.ts). *)
THEOREM WidgetTypeOK == Spec => []TypeOK
BY WidgetInvariant, PartsFollow, PTL

(* No committed change of a list of app ids and no revocation is lost
   (addAppId, removeAppId, revokeWidgetKey). *)
THEOREM WidgetChangesKept == Spec => []ChangesKept
BY WidgetInvariant, PartsFollow, PTL

(* Invitations reach those they are for, and nobody else (inviteCollaborator,
   acceptPendingCollaboratorInvites, getWidgetKeyStats). *)
THEOREM WidgetInvitationsReach == Spec => []InvitationsReach
BY WidgetInvariant, PartsFollow, PTL

-----------------------------------------------------------------------------
SessionsOf(k, o) == {s \in Slot : session[s].key = k /\ session[s].origin = o}
RequestsOf(k, o) == {r \in Request : At(r, "session", "insert") /\ req[r].key = k /\ req[r].item = o}

(* Both are finite. *)
LEMMA SessionsFinite ==
  ASSUME NEW k, NEW o
  PROVE  /\ IsFiniteSet(SessionsOf(k, o)) /\ IsFiniteSet(RequestsOf(k, o))
         /\ IsFiniteSet(SessionsOf(k, o)') /\ IsFiniteSet(RequestsOf(k, o)')
         /\ Sessions(k, o) = Cardinality(SessionsOf(k, o)) + Cardinality(RequestsOf(k, o))
         /\ Sessions(k, o)' = Cardinality(SessionsOf(k, o)') + Cardinality(RequestsOf(k, o)')
<1>1. IsFiniteSet(Slot)
  BY FS_Interval, BoundsAssumption DEF Slot
<1>2. /\ SessionsOf(k, o) \subseteq Slot /\ SessionsOf(k, o)' \subseteq Slot
      /\ RequestsOf(k, o) \subseteq Request /\ RequestsOf(k, o)' \subseteq Request
  BY DEF SessionsOf, RequestsOf
<1>3. /\ Sessions(k, o) = Cardinality(SessionsOf(k, o)) + Cardinality(RequestsOf(k, o))
      /\ Sessions(k, o)' = Cardinality(SessionsOf(k, o)') + Cardinality(RequestsOf(k, o)')
  BY DEF Sessions, SessionsOf, RequestsOf
<1> QED BY <1>1, <1>2, <1>3, FS_Subset, RequestAssumption

(* There are no more of an origin when neither kind gets any. *)
LEMMA FewerDrain ==
  ASSUME NEW k, NEW o, SessionsOf(k, o)' \subseteq SessionsOf(k, o), RequestsOf(k, o)' \subseteq RequestsOf(k, o)
  PROVE  Sessions(k, o)' <= Sessions(k, o)
<1> DEFINE S == SessionsOf(k, o)
           R == RequestsOf(k, o)
<1>1. /\ IsFiniteSet(S) /\ IsFiniteSet(R) /\ IsFiniteSet(S') /\ IsFiniteSet(R')
      /\ Sessions(k, o) = Cardinality(S) + Cardinality(R)
      /\ Sessions(k, o)' = Cardinality(S') + Cardinality(R')
  BY SessionsFinite
<1>2. Cardinality(S') <= Cardinality(S) /\ Cardinality(R') <= Cardinality(R)
  BY <1>1, FS_Subset
<1>3. /\ Cardinality(S) \in Nat /\ Cardinality(R) \in Nat
      /\ Cardinality(S') \in Nat /\ Cardinality(R') \in Nat
  BY <1>1, FS_CardinalityType
<1> HIDE DEF S, R
<1> QED BY <1>1, <1>2, <1>3

(* A request that begins is not one that has passed the check of another origin. *)
LEMMA BegunElsewhere ==
  ASSUME IInv, NEW r \in Request, NEW kind, NEW pc, NEW h, NEW item, NEW seen,
         Begin(r, kind, pc, h, item, seen), UNCHANGED session,
         NEW k, NEW o, ~ (kind = "session" /\ h = k /\ item = o)
  PROVE  Sessions(k, o)' <= Sessions(k, o)
<1>1. /\ req'[r].kind = kind /\ req'[r].key = h /\ req'[r].item = item
      /\ \A q \in Request \ {r} : req'[q] = req[q]
  BY DEF Begin, IInv, Typed
<1>2. RequestsOf(k, o)' \subseteq RequestsOf(k, o)
  BY <1>1 DEF RequestsOf, At
<1>3. SessionsOf(k, o)' \subseteq SessionsOf(k, o)
  BY DEF SessionsOf
<1> QED BY <1>2, <1>3, FewerDrain

(* The check of createSession lets a forbidden origin not pass. *)
LEMMA BeginDrains ==
  ASSUME IInv, NEW r \in Request, BeginKeyRequest(r), NEW k \in Key, NEW o \in Origin, Forbidden(k, o)
  PROVE  Sessions(k, o)' <= Sessions(k, o)
<1>1. ASSUME NEW h \in Key, NEW p \in Origin, CreateSession(r, h, p)
      PROVE  Sessions(k, o)' <= Sessions(k, o)
  <2>1. /\ Begin(r, "session", "insert", h, p, {}) /\ UNCHANGED session
        /\ key[h].status = "ACTIVE" /\ IsAllowed(h, p)
    BY <1>1 DEF CreateSession, MayOpen, InUse
  <2>2. ~ (h = k /\ p = o)
    BY <2>1 DEF Forbidden
  <2> QED BY <2>1, <2>2, BegunElsewhere
<1>2. ASSUME NEW kind, NEW pc, NEW h, NEW item, NEW seen,
             Begin(r, kind, pc, h, item, seen), UNCHANGED session, kind # "session"
      PROVE  Sessions(k, o)' <= Sessions(k, o)
  BY <1>2, BegunElsewhere
<1>3. ASSUME NEW h \in Key, NEW a \in Admin, NEW p \in Pattern, ChangeDomain(r, a, h, p)
      PROVE  Sessions(k, o)' <= Sessions(k, o)
  BY <1>2, <1>3 DEF ChangeDomain
<1>4. ASSUME NEW h \in Key, NEW a \in Admin, RevokeWidgetKey(r, a, h)
      PROVE  Sessions(k, o)' <= Sessions(k, o)
  BY <1>2, <1>4 DEF RevokeWidgetKey
<1>5. ASSUME NEW h \in Key, NEW a \in Admin, NEW e \in Email, InviteCollaborator(r, a, h, e)
      PROVE  Sessions(k, o)' <= Sessions(k, o)
  BY <1>2, <1>5 DEF InviteCollaborator
<1>6. ASSUME NEW h \in Key, NEW a \in Admin, NEW i \in Invitation, RemoveCollaborator(r, a, h, i)
      PROVE  Sessions(k, o)' <= Sessions(k, o)
  BY <1>2, <1>6 DEF RemoveCollaborator
<1>7. ASSUME NEW h \in Key, NEW op \in {"add", "remove"}, NEW app \in AppId, ChangeAppId(r, h, op, app)
      PROVE  Sessions(k, o)' <= Sessions(k, o)
  BY <1>2, <1>7 DEF ChangeAppId
<1> QED BY <1>1, <1>3, <1>4, <1>5, <1>6, <1>7 DEF BeginKeyRequest

(* A request that has passed the check becomes the one session it opens. *)
LEMMA InsertDrains ==
  ASSUME IInv, NEW r \in Request, InsertSession(r), NEW k \in Key, NEW o \in Origin
  PROVE  Sessions(k, o)' <= Sessions(k, o)
<1>1. PICK s \in Slot :
        /\ session[s] = NoSession
        /\ session' = [session EXCEPT ![s] = [state |-> "empty", key |-> req[r].key, origin |-> req[r].item]]
        /\ req' = [req EXCEPT ![r].pc = "token", ![r].seen = {s}]
  BY DEF InsertSession
<1>2. req[r].kind = "session" /\ req[r].pc = "insert"
  BY DEF InsertSession, At
<1>3. /\ session'[s].key = req[r].key /\ session'[s].origin = req[r].item
      /\ \A q \in Slot \ {s} : session'[q] = session[q]
      /\ req'[r].pc = "token" /\ \A q \in Request \ {r} : req'[q] = req[q]
  BY <1>1 DEF IInv, Typed, RequestRecord
<1>4. CASE req[r].key = k /\ req[r].item = o
  <2> DEFINE S == SessionsOf(k, o)
             R == RequestsOf(k, o)
  <2>1. k # None
    BY RequestAssumption
  <2>2. S' = S \cup {s} /\ s \notin S
    BY <1>1, <1>3, <1>4, <2>1 DEF SessionsOf, NoSession
  <2>3. R' = R \ {r} /\ r \in R
    BY <1>2, <1>3, <1>4 DEF RequestsOf, At
  <2>4. /\ IsFiniteSet(S) /\ IsFiniteSet(R)
        /\ Sessions(k, o) = Cardinality(S) + Cardinality(R)
        /\ Sessions(k, o)' = Cardinality(S') + Cardinality(R')
    BY SessionsFinite
  <2> HIDE DEF S, R
  <2>5. Cardinality(S') = Cardinality(S) + 1
    BY <2>2, <2>4, FS_AddElement
  <2>6. Cardinality(R') = Cardinality(R) - 1
    BY <2>3, <2>4, FS_RemoveElement
  <2>7. Cardinality(S) \in Nat /\ Cardinality(R) \in Nat
    BY <2>4, FS_CardinalityType
  <2> QED BY <2>4, <2>5, <2>6, <2>7
<1>5. CASE ~ (req[r].key = k /\ req[r].item = o)
  <2>1. SessionsOf(k, o)' \subseteq SessionsOf(k, o)
    BY <1>3, <1>5 DEF SessionsOf
  <2>2. RequestsOf(k, o)' \subseteq RequestsOf(k, o)
    BY <1>3 DEF RequestsOf, At
  <2> QED BY <2>1, <2>2, FewerDrain
<1> QED BY <1>4, <1>5

(* A request that ends has passed no check any more. *)
LEMMA EndDrains ==
  ASSUME IInv, NEW r \in Request, End(r), NEW k, NEW o
  PROVE  RequestsOf(k, o)' \subseteq RequestsOf(k, o)
<1>1. req'[r].kind = "none" /\ \A q \in Request \ {r} : req'[q] = req[q]
  BY EndForgets
<1> QED BY <1>1 DEF RequestsOf, At

(* No other step of a request opens one. *)
LEMMA StepDrains ==
  ASSUME IInv, NEW r \in Request, RequestStep(r), NEW k \in Key, NEW o \in Origin
  PROVE  Sessions(k, o)' <= Sessions(k, o)
<1>1. CASE UNCHANGED session /\ End(r)
  <2>1. SessionsOf(k, o)' \subseteq SessionsOf(k, o)
    BY <1>1 DEF SessionsOf
  <2> QED BY <1>1, <2>1, EndDrains, FewerDrain
<1>2. CASE /\ UNCHANGED session /\ req[r].kind # "session" /\ req'[r].kind = req[r].kind
           /\ \A q \in Request \ {r} : req'[q] = req[q]
  <2>1. SessionsOf(k, o)' \subseteq SessionsOf(k, o)
    BY <1>2 DEF SessionsOf
  <2>2. RequestsOf(k, o)' \subseteq RequestsOf(k, o)
    BY <1>2 DEF RequestsOf, At
  <2> QED BY <2>1, <2>2, FewerDrain
<1>3. CASE StoreToken(r)
  <2>1. SessionsOf(k, o)' \subseteq SessionsOf(k, o)
    BY <1>3, TokenStored DEF SessionsOf
  <2>2. End(r)
    BY <1>3 DEF StoreToken
  <2> QED BY <2>1, <2>2, EndDrains, FewerDrain
<1>4. CASE LockKey(r) \/ FindInvitee(r) \/ AcceptInvitations(r) \/ AcceptFails(r) \/ ReadSharedKeys(r)
  <2>1. req \in [Request -> RequestRecord]
    BY DEF IInv, Typed
  <2>2. /\ req[r].kind # "session" /\ UNCHANGED session
        /\ \/ \E seen : req' = [req EXCEPT ![r].pc = "write", ![r].seen = seen]
           \/ req' = [req EXCEPT ![r].pc = "answer", ![r].ok = TRUE]
           \/ req' = [req EXCEPT ![r].pc = "answer"]
           \/ \E seen : req' = [req EXCEPT ![r].pc = "report", ![r].seen = seen]
    BY <1>4, <2>1 DEF LockKey, FindInvitee, AcceptInvitations, AcceptAs, AcceptFails, Goto, ReadSharedKeys, At
  <2>3. req'[r].kind = req[r].kind /\ \A q \in Request \ {r} : req'[q] = req[q]
    BY <2>1, <2>2 DEF RequestRecord
  <2> QED BY <1>2, <2>2, <2>3
<1>5. CASE WriteDomains(r) \/ WriteRevoked(r) \/ WriteAppIds(r) \/ InsertInvitation(r)
           \/ DeleteInvitation(r) \/ AnswerLogin(r) \/ Report(r) \/ Fail(r)
  BY <1>1, <1>5 DEF WriteDomains, WriteRevoked, WriteAppIds, InsertInvitation, DeleteInvitation,
                    AnswerLogin, Report, Fail
<1> QED BY <1>3, <1>4, <1>5, InsertDrains DEF RequestStep

(* A step lets no forbidden origin get more. *)
LEMMA NextDrains ==
  ASSUME IInv, [Next]_vars, NEW k \in Key, NEW o \in Origin, Forbidden(k, o)
  PROVE  Sessions(k, o)' <= Sessions(k, o)
<1>1. CASE UNCHANGED <<session, req>>
  BY <1>1, FewerDrain DEF SessionsOf, RequestsOf, At
<1>2. CASE \E a \in Admin, h \in Key : CreateWidgetKey(a, h)
  BY <1>1, <1>2 DEF CreateWidgetKey
<1>3. ASSUME NEW r \in Request, NEW a \in Admin, Login(r, a) \/ ReadOwnedKeys(r, a)
      PROVE  Sessions(k, o)' <= Sessions(k, o)
  <2>1. PICK kind, pc, item, seen : Begin(r, kind, pc, None, item, seen) /\ UNCHANGED session
    BY <1>3 DEF Login, ReadOwnedKeys
  <2>2. None # k
    BY RequestAssumption
  <2> QED BY <2>1, <2>2, BegunElsewhere
<1>4. ASSUME NEW s \in Slot, Expire(s)
      PROVE  Sessions(k, o)' <= Sessions(k, o)
  <2>1. session' = [session EXCEPT ![s] = NoSession] /\ UNCHANGED req /\ k # None
    BY <1>4, RequestAssumption DEF Expire
  <2>2. session'[s].key # k /\ \A q \in Slot \ {s} : session'[q] = session[q]
    BY <2>1 DEF IInv, Typed, NoSession
  <2>3. SessionsOf(k, o)' \subseteq SessionsOf(k, o) /\ RequestsOf(k, o)' \subseteq RequestsOf(k, o)
    BY <2>1, <2>2 DEF SessionsOf, RequestsOf, At
  <2> QED BY <2>3, FewerDrain
<1>5. CASE UNCHANGED vars
  BY <1>1, <1>5 DEF vars
<1> QED BY <1>2, <1>3, <1>4, <1>5, BeginDrains, StepDrains DEF Next

(* An origin that is forbidden runs out of sessions (createSession,
   WidgetSessionGuard). *)
THEOREM WidgetWithdrawnDrains == Spec => WithdrawnDrains
<1>1. IInv /\ [Next]_vars =>
        [\A k \in Key, o \in Origin : Forbidden(k, o) => Sessions(k, o)' <= Sessions(k, o)]_vars
  BY NextDrains
<1> QED BY <1>1, WidgetInvariant, PTL DEF Spec, WithdrawnDrains
=============================================================================
