------------------------------ MODULE WidgetKeys ------------------------------
(***************************************************************************)
(* Widget keys, the administrators who make and share them, and the sessions *)
(* that widgets open with them (admin.service.ts, admin-auth.service.ts,    *)
(* widget-auth.service.ts, getWidgetKeyStats of usage.service.ts).          *)
(*                                                                         *)
(* A request is a sequence of single statements, with others in between.    *)
(* Only the changes of app ids are transactions that lock the row of the    *)
(* key: they hold up every statement that writes the row or inserts a row   *)
(* that refers to it, and no statement that only reads it.                  *)
(***************************************************************************)
EXTENDS Integers, Sequences, FiniteSets

CONSTANTS
  Admin,           \* admins.idp_uuid
  Email,           \* addresses as they are typed
  EmailOf,         \* the address the identity provider has of an administrator
  Normal,          \* lower(trim(address))
  Key,             \* widget_keys.id
  AppId,
  Pattern,         \* entries of allowed_domains: sequences of labels
  Host,            \* hosts of page URLs: sequences of labels
  Request,         \* requests in flight
  MaxInvitations,  \* bound on the rows of widget_key_collaborators ever made
  MaxSessions,     \* bound on the sessions that are not expired
  None

ASSUME BoundsAssumption == MaxInvitations \in Nat /\ MaxSessions \in Nat
ASSUME RequestAssumption ==
  /\ IsFiniteSet(Request)
  /\ None \notin Request \cup Admin \cup Key
ASSUME EmailAssumption ==
  /\ EmailOf \in [Admin -> Email] /\ Normal \in [Email -> Email]
  /\ \A e \in Email : Normal[Normal[e]] = Normal[e]
  /\ \A a, b \in Admin : Normal[EmailOf[a]] = Normal[EmailOf[b]] => a = b

VARIABLES
  key,       \* widget_keys
  lock,      \* the request whose transaction holds the row of a key
  known,     \* administrators with a row in admins
  invite,    \* widget_key_collaborators
  session,   \* sessions that are not expired or have no token
  req,       \* what a request is doing
  promised   \* history: what the committed changes of a key amount to

vars == <<key, lock, known, invite, session, req, promised>>

Invitation == 1 .. MaxInvitations
Slot == 1 .. MaxSessions
Origin == ({"app"} \X AppId) \cup ({"web"} \X Host)

NoKey == [status |-> "none", owner |-> None, domains |-> {}, apps |-> {}]
NoInvite == [status |-> "none", key |-> None, email |-> None, invitee |-> None]
NoSession == [state |-> "none", key |-> None, origin |-> None]
Idle == [kind |-> "none", pc |-> "idle", key |-> None, item |-> None, seen |-> {}, ok |-> FALSE]

Init ==
  /\ key = [k \in Key |-> NoKey]
  /\ lock = [k \in Key |-> None]
  /\ known = {}
  /\ invite = [i \in Invitation |-> NoInvite]
  /\ session = [s \in Slot |-> NoSession]
  /\ req = [r \in Request |-> Idle]
  /\ promised = [k \in Key |-> [revoked |-> FALSE, apps |-> {}]]

-----------------------------------------------------------------------------
At(r, kind, pc) == req[r].kind = kind /\ req[r].pc = pc
Goto(r, pc) == req' = [req EXCEPT ![r].pc = pc]
End(r) == req' = [req EXCEPT ![r] = Idle]
Begin(r, kind, pc, k, item, seen) ==
  /\ req[r] = Idle
  /\ req' = [req EXCEPT ![r] = [kind |-> kind, pc |-> pc, key |-> k, item |-> item,
                                seen |-> seen, ok |-> FALSE]]

Owns(a, k) == key[k].owner = a
InUse(k) == key[k].status = "ACTIVE"
Free(k) == lock[k] = None
Present(i) == invite[i].status \in {"PENDING", "ACCEPTED"}

(* secret_key is UNIQUE, so that a key that is taken is generated again or the
   insert fails. *)
CreateWidgetKey(a, k) ==
  /\ a \in known /\ key[k].status = "none"
  /\ key' = [key EXCEPT ![k] = [NoKey EXCEPT !.status = "ACTIVE", !.owner = a]]
  /\ UNCHANGED <<lock, known, invite, session, req, promised>>

-----------------------------------------------------------------------------
(* registerDomains and removeDomain: the list is read, changed and, some time
   later, written back. *)
ChangeDomain(r, a, k, p) ==
  /\ Owns(a, k)
  /\ LET old == key[k].domains
     IN Begin(r, "domain", "write", k, p, IF p \in old THEN old \ {p} ELSE old \cup {p})
  /\ UNCHANGED <<key, lock, known, invite, session, promised>>

WriteDomains(r) ==
  LET k == req[r].key
  IN /\ At(r, "domain", "write") /\ Free(k)
     /\ key' = [key EXCEPT ![k].domains = req[r].seen]
     /\ End(r)
     /\ UNCHANGED <<lock, known, invite, session, promised>>

RevokeWidgetKey(r, a, k) ==
  /\ Owns(a, k)
  /\ Begin(r, "revoke", "write", k, None, {})
  /\ UNCHANGED <<key, lock, known, invite, session, promised>>

WriteRevoked(r) ==
  LET k == req[r].key
  IN /\ At(r, "revoke", "write") /\ Free(k)
     /\ key' = [key EXCEPT ![k].status = "REVOKED"]
     /\ promised' = [promised EXCEPT ![k].revoked = TRUE]
     /\ End(r)
     /\ UNCHANGED <<lock, known, invite, session>>

(* addAppId and removeAppId of the owner (others are refused once they hold the
   row): SELECT ... FOR UPDATE, the checks, and the UPDATE. *)
ChangeAppId(r, k, op, app) ==
  /\ key[k].status # "none"
  /\ Begin(r, "app", "lock", k, <<op, app>>, {})
  /\ UNCHANGED <<key, lock, known, invite, session, promised>>

Changed(apps, change) ==
  IF change[1] = "add" THEN apps \cup {change[2]} ELSE apps \ {change[2]}

(* Mutant: the row is read without FOR UPDATE. *)
ReadKeyUnlocked(r) ==
  LET k == req[r].key
  IN /\ At(r, "app", "lock")
     /\ Changed(key[k].apps, req[r].item) # key[k].apps
     /\ req' = [req EXCEPT ![r].pc = "write", ![r].seen = Changed(key[k].apps, req[r].item)]
     /\ UNCHANGED <<key, lock, known, invite, session, promised>>

LockKey(r) ==
  LET k == req[r].key
  IN /\ At(r, "app", "lock") /\ Free(k)
     /\ Changed(key[k].apps, req[r].item) # key[k].apps
     /\ lock' = [lock EXCEPT ![k] = r]
     /\ req' = [req EXCEPT ![r].pc = "write", ![r].seen = Changed(key[k].apps, req[r].item)]
     /\ UNCHANGED <<key, known, invite, session, promised>>

WriteAppIds(r) ==
  LET k == req[r].key
  IN /\ At(r, "app", "write")
     /\ key' = [key EXCEPT ![k].apps = req[r].seen]
     /\ promised' = [promised EXCEPT ![k].apps = Changed(@, req[r].item)]
     /\ lock' = [lock EXCEPT ![k] = None]
     /\ End(r)
     /\ UNCHANGED <<known, invite, session>>

-----------------------------------------------------------------------------
(* inviteCollaborator: the key and the invitations it has ... *)
InviteCollaborator(r, a, k, e) ==
  LET email == Normal[e]
  IN /\ Owns(a, k) /\ InUse(k)
     /\ email # Normal[EmailOf[a]]
     /\ ~ \E i \in Invitation : Present(i) /\ invite[i].key = k /\ invite[i].email = email
     /\ Begin(r, "invite", "admin", k, email, {})
     /\ UNCHANGED <<key, lock, known, invite, session, promised>>

(* ... the administrator whose stored address is the invited one ... *)
FindInvitee(r) ==
  /\ At(r, "invite", "admin")
  /\ req' = [req EXCEPT ![r].pc = "write", ![r].seen = {a \in known : EmailOf[a] = req[r].item}]
  /\ UNCHANGED <<key, lock, known, invite, session, promised>>

(* ... and the insert; the address of a key's invitation is UNIQUE. *)
InsertInvitation(r) ==
  LET k == req[r].key
  IN /\ At(r, "invite", "write") /\ Free(k)
     /\ ~ \E i \in Invitation : Present(i) /\ invite[i].key = k /\ invite[i].email = req[r].item
     /\ \E i \in Invitation :
          /\ invite[i] = NoInvite /\ \A j \in 1 .. i - 1 : invite[j] # NoInvite
          /\ invite' = [invite EXCEPT ![i] =
               [key |-> k, email |-> req[r].item,
                status |-> IF req[r].seen = {} THEN "PENDING" ELSE "ACCEPTED",
                invitee |-> IF req[r].seen = {} THEN None ELSE CHOOSE a \in req[r].seen : TRUE]]
     /\ End(r)
     /\ UNCHANGED <<key, lock, known, session, promised>>

RemoveCollaborator(r, a, k, i) ==
  /\ Owns(a, k) /\ InUse(k)
  /\ Present(i) /\ invite[i].key = k
  /\ Begin(r, "uninvite", "write", k, i, {})
  /\ UNCHANGED <<key, lock, known, invite, session, promised>>

DeleteInvitation(r) ==
  /\ At(r, "uninvite", "write")
  /\ invite' = [invite EXCEPT ![req[r].item].status = "removed"]
  /\ End(r)
  /\ UNCHANGED <<key, lock, known, session, promised>>

-----------------------------------------------------------------------------
Pending(email) == {i \in Invitation : invite[i].status = "PENDING" /\ invite[i].email = email}

(* loginWithCode and refresh, once the identity provider has answered:
   upsertAdmin ... *)
Login(r, a) ==
  /\ known' = known \cup {a}
  /\ Begin(r, "login", "accept", None, a, Pending(Normal[EmailOf[a]]))
  /\ UNCHANGED <<key, lock, invite, session, promised>>

AcceptAs(r, accepted) ==
  /\ At(r, "login", "accept")
  /\ invite' = [i \in Invitation |->
                  IF i \in accepted
                  THEN [invite[i] EXCEPT !.status = "ACCEPTED", !.invitee = req[r].item]
                  ELSE invite[i]]
  /\ req' = [req EXCEPT ![r].pc = "answer", ![r].ok = TRUE]
  /\ UNCHANGED <<key, lock, known, session, promised>>

(* Mutant: the address is compared as the identity provider writes it. *)
AcceptTypedAddress(r) == AcceptAs(r, Pending(EmailOf[req[r].item]))

(* ... then acceptPendingCollaboratorInvites ... *)
AcceptInvitations(r) ==
  /\ req[r].kind = "login"
  /\ AcceptAs(r, Pending(Normal[EmailOf[req[r].item]]))

(* ... whose failure is only logged ... *)
AcceptFails(r) ==
  /\ At(r, "login", "accept")
  /\ Goto(r, "answer")
  /\ UNCHANGED <<key, lock, known, invite, session, promised>>

(* ... and the token. *)
AnswerLogin(r) ==
  /\ At(r, "login", "answer")
  /\ End(r)
  /\ UNCHANGED <<key, lock, known, invite, session, promised>>

(* getAllWidgetKeys and getWidgetKeyStats: the keys that the administrator
   owns, then those shared with him, then what is reported of them. *)
ReadOwnedKeys(r, a) ==
  /\ a \in known
  /\ Begin(r, "stats", "shared", None, a, {k \in Key : Owns(a, k) /\ InUse(k)})
  /\ UNCHANGED <<key, lock, known, invite, session, promised>>

ReadSharedKeys(r) ==
  /\ At(r, "stats", "shared")
  /\ req' = [req EXCEPT ![r].pc = "report", ![r].seen = @ \cup
       {k \in Key : InUse(k) /\ \E i \in Invitation : /\ invite[i].status = "ACCEPTED"
                                                      /\ invite[i].key = k
                                                      /\ invite[i].invitee = req[r].item}]
  /\ UNCHANGED <<key, lock, known, invite, session, promised>>

Report(r) ==
  /\ At(r, "stats", "report")
  /\ End(r)
  /\ UNCHANGED <<key, lock, known, invite, session, promised>>

-----------------------------------------------------------------------------
(* patternToRegex: a star stands for one label or more. *)
Expands(p, h) ==
  \E f \in [DOMAIN h -> DOMAIN p] :
    /\ \A i \in DOMAIN h : p[f[i]] \in {"*", h[i]}
    /\ \A i, j \in DOMAIN h : i < j => f[i] < f[j] \/ (f[i] = f[j] /\ p[f[i]] = "*")
    /\ \A n \in DOMAIN p : \E i \in DOMAIN h : f[i] = n

(* A pattern without a star allows its subdomains, too. *)
IsDomainAllowed(h, patterns) ==
  \E p \in patterns :
    IF \E n \in DOMAIN p : p[n] = "*"
    THEN h = p \/ Expands(p, h)
    ELSE Len(h) >= Len(p) /\ SubSeq(h, Len(h) - Len(p) + 1, Len(h)) = p

IsAllowed(k, o) ==
  IF o[1] = "app" THEN o[2] \in key[k].apps ELSE IsDomainAllowed(o[2], key[k].domains)

(* Mutant: the status of the key is not looked at. *)
MayOpenRevoked(k, o) == key[k].status # "none" /\ IsAllowed(k, o)

(* The checks of createSession. *)
MayOpen(k, o) == InUse(k) /\ IsAllowed(k, o)

CreateSession(r, k, o) ==
  /\ MayOpen(k, o)
  /\ Begin(r, "session", "insert", k, o, {})
  /\ UNCHANGED <<key, lock, known, invite, session, promised>>

(* The row is inserted with an empty token, which is UNIQUE, too: while there is
   such a row, the insert fails. *)
InsertSession(r) ==
  LET k == req[r].key
  IN /\ At(r, "session", "insert") /\ Free(k)
     /\ \A s \in Slot : session[s].state # "empty"
     /\ \E s \in Slot :
          /\ session[s] = NoSession /\ \A q \in 1 .. s - 1 : session[q] # NoSession
          /\ session' = [session EXCEPT ![s] = [state |-> "empty", key |-> k, origin |-> req[r].item]]
          /\ req' = [req EXCEPT ![r].pc = "token", ![r].seen = {s}]
     /\ UNCHANGED <<key, lock, known, invite, promised>>

StoreToken(r) ==
  /\ At(r, "session", "token")
  /\ session' = [s \in Slot |-> IF s \in req[r].seen THEN [session[s] EXCEPT !.state = "open"]
                                ELSE session[s]]
  /\ End(r)
  /\ UNCHANGED <<key, lock, known, invite, promised>>

(* The half hour of a session is over, and WidgetSessionGuard lets nobody in
   with it.  Nothing removes a row, also not one without a token. *)
Expire(s) ==
  /\ session[s].state = "open"
  /\ session' = [session EXCEPT ![s] = NoSession]
  /\ UNCHANGED <<key, lock, known, invite, req, promised>>

-----------------------------------------------------------------------------
(* A check refuses, a statement or the signing of a token fails, or the server
   dies: a transaction is rolled back, what was committed stays. *)
Fail(r) ==
  /\ req[r] # Idle
  /\ lock' = [k \in Key |-> IF lock[k] = r THEN None ELSE lock[k]]
  /\ End(r)
  /\ UNCHANGED <<key, known, invite, session, promised>>

BeginKeyRequest(r) ==
  \E k \in Key :
    \/ \E a \in Admin :
         \/ \E p \in Pattern : ChangeDomain(r, a, k, p)
         \/ RevokeWidgetKey(r, a, k)
         \/ \E e \in Email : InviteCollaborator(r, a, k, e)
         \/ \E i \in Invitation : RemoveCollaborator(r, a, k, i)
    \/ \E op \in {"add", "remove"}, app \in AppId : ChangeAppId(r, k, op, app)
    \/ \E o \in Origin : CreateSession(r, k, o)

RequestStep(r) ==
  \/ WriteDomains(r) \/ WriteRevoked(r) \/ LockKey(r) \/ WriteAppIds(r)
  \/ FindInvitee(r) \/ InsertInvitation(r) \/ DeleteInvitation(r)
  \/ AcceptInvitations(r) \/ AcceptFails(r) \/ AnswerLogin(r)
  \/ ReadSharedKeys(r) \/ Report(r)
  \/ InsertSession(r) \/ StoreToken(r)
  \/ Fail(r)

Next ==
  \/ \E a \in Admin, k \in Key : CreateWidgetKey(a, k)
  \/ \E r \in Request : \/ BeginKeyRequest(r)
                        \/ \E a \in Admin : Login(r, a) \/ ReadOwnedKeys(r, a)
                        \/ RequestStep(r)
  \/ \E s \in Slot : Expire(s)

(* Every statement ends, whether it succeeds or fails, and time passes. *)
Fairness ==
  /\ \A r \in Request : WF_vars(RequestStep(r))
  /\ \A s \in Slot : WF_vars(Expire(s))

Spec == Init /\ [][Next]_vars /\ Fairness

-----------------------------------------------------------------------------
(* Type correctness; a key is locked by the change of its app ids that is about
   to be written (addAppId, removeAppId), and a row without a token is at most
   one, because session_token is UNIQUE. *)
TypeOK ==
  /\ \A k \in Key :
       /\ key[k].status \in {"none", "ACTIVE", "REVOKED"} /\ key[k].owner \in Admin \cup {None}
       /\ key[k].domains \subseteq Pattern /\ key[k].apps \subseteq AppId
       /\ \A r \in Request : lock[k] = r <=> At(r, "app", "write") /\ req[r].key = k
  /\ lock \in [Key -> Request \cup {None}]
  /\ known \subseteq Admin
  /\ \A i \in Invitation :
       /\ invite[i].status \in {"none", "PENDING", "ACCEPTED", "removed"}
       /\ invite[i].status = "ACCEPTED" => invite[i].invitee \in known
       /\ invite[i].status = "PENDING" => invite[i].invitee = None
  /\ \A s, q \in Slot :
       /\ session[s].state \in {"none", "empty", "open"}
       /\ session[s].state = "empty" /\ session[q].state = "empty" => s = q

(* What a committed request has changed stays as it left it until another
   commits: neither an app id nor a revocation is lost to a request that read
   the row before (addAppId, removeAppId, revokeWidgetKey; the lists of domains
   do lose changes). *)
ChangesKept ==
  \A k \in Key :
    /\ key[k].apps = promised[k].apps
    /\ promised[k].revoked => key[k].status = "REVOKED"

(* An origin that is forbidden, because the key is revoked or the app id or
   domain removed, runs out of sessions: what there are, and the requests that
   had passed the check and may still open one, only get fewer
   (createSession, WidgetSessionGuard, which does not look at the key). *)
Sessions(k, o) ==
  Cardinality({s \in Slot : session[s].key = k /\ session[s].origin = o})
    + Cardinality({r \in Request : At(r, "session", "insert") /\ req[r].key = k /\ req[r].item = o})

Forbidden(k, o) == key[k].status = "REVOKED" \/ ~ IsAllowed(k, o)

WithdrawnDrains ==
  [][\A k \in Key, o \in Origin : Forbidden(k, o) => Sessions(k, o)' <= Sessions(k, o)]_vars

(* An invitation reaches the one it is for and nobody else: a login that has
   accepted invitations leaves none open that was there when it began, and a
   report covers only keys of the reader's own and those he was invited to by
   his address, in whatever case it was typed (inviteCollaborator,
   acceptPendingCollaboratorInvites, getWidgetKeyStats). *)
InvitationsReach ==
  \A r \in Request :
    LET a == req[r].item
    IN /\ At(r, "login", "answer") /\ req[r].ok =>
            \A i \in req[r].seen : invite[i].status # "PENDING"
       /\ At(r, "stats", "report") =>
            \A k \in req[r].seen : Owns(a, k) \/ \E i \in Invitation :
              invite[i].key = k /\ invite[i].email = Normal[EmailOf[a]]

(* widget-auth.service.ts:89 calls the empty token temporary and stored below
   with the JWT. *)
EmptyTokenTemporary ==
  \A s \in Slot : session[s].state = "empty" ~> session[s].state # "empty"

=============================================================================
