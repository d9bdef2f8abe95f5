--------------------------- MODULE AssistantProofs ---------------------------
(***************************************************************************)
(* Proofs about Assistant for any users, emails, grants, changes, backends *)
(* and chains, and any number of requests.                                 *)
(***************************************************************************)
EXTENDS Assistant, FiniteSetTheorems, WellFoundedInduction, TLAPS

(* Where a request of the account service, or of another, can be.          *)
AccountPcs ==
  {"login", "grant", "regrant", "revoke", "merge", "write", "deleteEntries"}
OtherPcs ==
  {"newchat", "instruct", "list", "ask", "append", "attempt", "transit", "prompt"}

GrantType == [resource : Resources, permission : Permissions]
NeedType ==
  [resource : {"userservice", "accessservice", "chatservice",
               "taskenviromentservice", "promptexecservice"},
   permission : Permissions]

RequestType ==
  [pc : {"idle"} \cup AccountPcs \cup OtherPcs, by : Users \cup {None},
   need : NeedType \cup {None}, user : Users \cup {None},
   row : Rows \cup {None}, change : Changes \cup {None},
   todo : Seq(AllGrants), entry : EntryIds \cup {None}, chat : Chats \cup {None}]

(* The row an update is about to write is the user's present row with the  *)
(* change made, unless updates of the user have overlapped.                *)
Merged(q) ==
  /\ users[q.user] # None
  /\ q.row \in Rows /\ q.change \in Changes
  /\ q.user \notin overlapped => q.row = Override(users[q.user], q.change)

(* A request that is what it should be at its pc.                          *)
Sound(q) ==
  /\ q \in RequestType
  /\ q.pc = "idle" => q.by = None
  /\ q.pc \in AccountPcs \ {"revoke"} => q.user \in Users
  /\ q.pc = "regrant" => q.todo # <<>>
  /\ q.pc \in {"regrant", "revoke"} => q.entry \in EntryIds
  /\ q.pc \in {"merge", "write"} => Merged(q)

RequestsInv ==
  /\ req \in [Requests -> RequestType]
  /\ \A r \in Requests : Sound(req[r])
  /\ server # "up" => \A r \in Requests : req[r].pc = "idle"

TablesInv ==
  /\ AccountsTypeOK
  /\ entries \in [EntryIds -> AccessEntries \cup {None}]
  /\ \A u \in Users : users[u] = None <=> wanted[u] = None

(* What tokens claim and tables grant was held.                            *)
HeldInv ==
  /\ \A u \in Users : token[u] # None => token[u].claims \subseteq held[u]
  /\ \A e \in EntryIds : entries[e] # None =>
       Grant(entries[e].resource, entries[e].permission)
         \in held[entries[e].identity]

(* The worker has no row until it has its entries.                         *)
WorkerInv ==
  \/ stripped
  \/ EntryIdsOf(Worker) # {}
  \/ server # "up" /\ users[Worker] = None

AccountInv ==
  TablesInv /\ RequestsInv /\ HeldInv /\ WorkerInv /\ UpdatesSurvive

-----------------------------------------------------------------------------
(* Facts about the data.                                                   *)

LEMMA AllGrantsTyped == AllGrants \subseteq GrantType
<1>1. \A a \in Allowed : \A i \in DOMAIN a : a[i] \in GrantType
  <2> TAKE a \in Allowed
  <2> TAKE i \in DOMAIN a
  <2>1. a \in Seq(Grants)
    BY AccountsAssumption
  <2>2. a[i] \in Grants
    BY <2>1
  <2> QED
    BY <2>2, AccountsAssumption DEF GrantType
<1>2. /\ Grant("server", Manage) \in GrantType
      /\ Grant("server", 0) \in GrantType
      /\ Grant("files", View) \in GrantType
  <2>1. Manage \in Permissions /\ 0 \in Permissions /\ View \in Permissions
    BY DEF Manage, View, Permissions
  <2>2. "server" \in Resources /\ "files" \in Resources
    BY AccountsAssumption
  <2> QED
    BY <2>1, <2>2 DEF Grant, GrantType
<1>3. Grants \subseteq GrantType
  BY AccountsAssumption DEF GrantType
<1> QED
  <2>1. AllowedGrants \subseteq GrantType
    BY <1>1 DEF AllowedGrants
  <2> QED
    BY <1>2, <1>3, <2>1 DEF AllGrants

(* The entry that grants g is no missing row, and grants g.                *)
LEMMA EntryGrants ==
  ASSUME NEW u \in Users, NEW g \in AllGrants
  PROVE  /\ Entry(u, g) \in AccessEntries
         /\ Entry(u, g).identity = u
         /\ Grant(Entry(u, g).resource, Entry(u, g).permission) = g
BY AllGrantsTyped DEF Entry, AccessEntries, GrantType, Grant

LEMMA NoneIsNoRow ==
  /\ None \notin Rows
  /\ None \notin AccessEntries
BY AccountsAssumption

LEMMA IdleIsSound == Idle \in RequestType /\ Sound(Idle)
BY DEF Idle, Sound, RequestType, AccountPcs, OtherPcs

LEMMA OverrideTyped ==
  ASSUME NEW row \in Rows, NEW c \in Changes \cup Rows
  PROVE  /\ Override(row, c) \in Rows
         /\ Override(row, c) =
              [email |-> IF c.email = None THEN row.email ELSE c.email,
               name |-> IF c.name = None THEN row.name ELSE c.name,
               password |-> IF c.password = None THEN row.password ELSE c.password]
<1>1. DOMAIN row = {"email", "name", "password"}
  BY DEF Rows
<1>2. Override(row, c) =
        [email |-> IF c["email"] = None THEN row["email"] ELSE c["email"],
         name |-> IF c["name"] = None THEN row["name"] ELSE c["name"],
         password |-> IF c["password"] = None THEN row["password"] ELSE c["password"]]
  BY <1>1 DEF Override
<1>3. c.email \in Emails \cup {None} /\ c.name \in Names \cup {None}
      /\ c.password \in Passwords \cup {None}
  BY AccountsAssumption DEF Rows
<1> QED
  BY <1>2, <1>3 DEF Rows

(* The second reading of updateUser changes nothing of the merged row.     *)
LEMMA OverrideAgain ==
  ASSUME NEW row \in Rows, NEW c \in Changes
  PROVE  Override(row, Override(row, c)) = Override(row, c)
<1>1. Override(row, c) \in Rows
  BY OverrideTyped
<1>2. Override(row, c) =
        [email |-> IF c.email = None THEN row.email ELSE c.email,
         name |-> IF c.name = None THEN row.name ELSE c.name,
         password |-> IF c.password = None THEN row.password ELSE c.password]
  BY OverrideTyped
<1> DEFINE again == Override(row, c)
<1>3. Override(row, again) =
        [email |-> IF again.email = None THEN row.email ELSE again.email,
         name |-> IF again.name = None THEN row.name ELSE again.name,
         password |-> IF again.password = None THEN row.password ELSE again.password]
  BY <1>1, OverrideTyped
<1> QED
  BY <1>2, <1>3

LEMMA GrantedTyped ==
  ASSUME TablesInv, NEW u \in Users
  PROVE  GetAccessEntriesByIdentity(u) \in SUBSET AllGrants
<1> SUFFICES ASSUME NEW e \in EntryIds, entries[e] # None
             PROVE  Grant(entries[e].resource, entries[e].permission) \in AllGrants
  BY DEF GetAccessEntriesByIdentity, EntryIdsOf
<1>1. PICK v \in Users, g \in AllGrants : entries[e] = Entry(v, g)
  BY DEF TablesInv, AccountsTypeOK
<1> QED
  BY <1>1, EntryGrants

-----------------------------------------------------------------------------
(* The initial state.                                                      *)

LEMMA AccountInvInit == Init => AccountInv
<1> SUFFICES ASSUME Init PROVE AccountInv
  OBVIOUS
<1> USE DEF Init, AccountsInit
<1>1. TablesInv
  <2>1. begun \in 0 .. MaxRequests
    BY AccountsAssumption
  <2>2. /\ users \in [Users -> Rows \cup {None}]
        /\ wanted \in [Users -> Rows \cup {None}]
        /\ entries \in [EntryIds -> AccessEntries \cup {None}]
        /\ token \in [Users -> {None} \cup [claims : SUBSET AllGrants,
                                          age : {"fresh", "late"}]]
        /\ held \in [Users -> SUBSET AllGrants]
    OBVIOUS
  <2>3. \A e \in EntryIds : entries[e] = None
    OBVIOUS
  <2>4. /\ server \in Serving /\ stripped \in BOOLEAN /\ overlapped \subseteq Users
        /\ \A u \in Users : users[u] = None <=> wanted[u] = None
    BY DEF Serving
  <2> QED
    <3> HIDE DEF Init, AccountsInit
    <3> QED
      BY <2>1, <2>2, <2>3, <2>4 DEF TablesInv, AccountsTypeOK
<1>2. RequestsInv
  BY IdleIsSound DEF RequestsInv, Idle
<1>3. HeldInv /\ UpdatesSurvive
  BY DEF HeldInv, UpdatesSurvive
<1>4. WorkerInv
  BY AccountsAssumption DEF WorkerInv
<1> QED
  BY <1>1, <1>2, <1>3, <1>4 DEF AccountInv

-----------------------------------------------------------------------------
(* Steps that write requests only.                                         *)

(* What GrantedWasHeld says of a step.                                     *)
HeldStep ==
  \A r \in Requests :
    req[r].pc = "idle" /\ req'[r].by # None =>
      \E g \in held[req'[r].by] :
        /\ g.resource \in {req'[r].need.resource, "admin_panel", "server"}
        /\ g.permission >= req'[r].need.permission

Kept == AccountInv' /\ HeldStep

LEMMA QuietStep ==
  ASSUME AccountInv, NEW r \in Requests, NEW q,
         req' = [req EXCEPT ![r] = q], req[r].pc # "idle" \/ q.by = None
  PROVE  HeldStep
BY DEF AccountInv, RequestsInv, Sound, HeldStep

LEMMA SameRequests ==
  ASSUME AccountInv, req' = req
  PROVE  HeldStep
BY DEF AccountInv, RequestsInv, Sound, HeldStep

(* The invariant of the requests, when the tables they refer to stay.      *)
LEMMA RequestsStep ==
  ASSUME RequestsInv, NEW r \in Requests, NEW q, Sound(q),
         server = "up" \/ q.pc = "idle", req' = [req EXCEPT ![r] = q],
         UNCHANGED <<server, users, overlapped>>
  PROVE  RequestsInv'
<1>1. \A s \in Requests : req'[s] = IF s = r THEN q ELSE req[s]
  BY DEF RequestsInv
<1>2. req' \in [Requests -> RequestType]
  BY DEF RequestsInv, Sound
<1>3. ASSUME NEW s \in Requests PROVE Sound(req[s])'
  BY <1>1 DEF RequestsInv, Sound, Merged
<1>4. server' # "up" => \A s \in Requests : req'[s].pc = "idle"
  BY <1>1 DEF RequestsInv
<1> QED
  BY <1>2, <1>3, <1>4 DEF RequestsInv

LEMMA TablesStay ==
  ASSUME AccountInv, RequestsInv', begun' \in 0 .. MaxRequests,
         UNCHANGED <<server, users, entries, token, accountHistory>>
  PROVE  AccountInv'
<1> USE DEF AccountInv, accountHistory
<1>1. TablesInv'
  BY DEF TablesInv, AccountsTypeOK
<1>2. HeldInv' /\ UpdatesSurvive'
  BY DEF HeldInv, UpdatesSurvive
<1>3. WorkerInv'
  BY DEF WorkerInv, EntryIdsOf
<1> QED
  BY <1>1, <1>2, <1>3

LEMMA RequestStep ==
  ASSUME AccountInv, NEW r \in Requests, NEW q, Sound(q),
         server = "up" \/ q.pc = "idle", req' = [req EXCEPT ![r] = q],
         req[r].pc # "idle" \/ q.by = None, begun' \in 0 .. MaxRequests,
         UNCHANGED <<server, users, entries, token, accountHistory>>
  PROVE  Kept
<1>1. RequestsInv'
  BY RequestsStep DEF AccountInv, accountHistory
<1> QED
  BY <1>1, TablesStay, QuietStep DEF Kept

LEMMA DoneStep ==
  ASSUME AccountInv, NEW r \in Requests, Done(r), req[r].pc # "idle",
         UNCHANGED <<server, users, entries, token, begun, accountHistory>>
  PROVE  Kept
<1>1. begun \in 0 .. MaxRequests
  BY DEF AccountInv, TablesInv, AccountsTypeOK
<1> QED
  BY <1>1, IdleIsSound, RequestStep DEF Done, Idle

(* The record of a request that carries no token yet.                      *)
NewRequest(pc, user, row, change, todo, entry, ch) ==
  [pc |-> pc, by |-> None, need |-> None, user |-> user, row |-> row,
   change |-> change, todo |-> todo, entry |-> entry, chat |-> ch]

LEMMA RequestsAreNew ==
  ASSUME NEW pc, NEW user, NEW todo, NEW entry, NEW ch
  PROVE  /\ [Idle EXCEPT !.pc = pc] =
              NewRequest(pc, None, None, None, <<>>, None, None)
         /\ [Idle EXCEPT !.pc = pc, !.user = user] =
              NewRequest(pc, user, None, None, <<>>, None, None)
         /\ [Idle EXCEPT !.pc = pc, !.entry = entry] =
              NewRequest(pc, None, None, None, <<>>, entry, None)
         /\ [Idle EXCEPT !.pc = pc, !.chat = ch] =
              NewRequest(pc, None, None, None, <<>>, None, ch)
         /\ [Idle EXCEPT !.pc = pc, !.user = user, !.todo = todo] =
              NewRequest(pc, user, None, None, todo, None, None)
<1> DEFINE a == [Idle EXCEPT !.pc = pc]
           b == [a EXCEPT !.user = user]
<1>1. a = NewRequest(pc, None, None, None, <<>>, None, None)
  BY DEF Idle, NewRequest
<1> HIDE DEF a
<1>2. /\ b = NewRequest(pc, user, None, None, <<>>, None, None)
      /\ [a EXCEPT !.entry = entry] =
           NewRequest(pc, None, None, None, <<>>, entry, None)
      /\ [a EXCEPT !.chat = ch] =
           NewRequest(pc, None, None, None, <<>>, None, ch)
  BY <1>1 DEF NewRequest
<1> HIDE DEF b
<1>3. [b EXCEPT !.todo = todo] = NewRequest(pc, user, None, None, todo, None, None)
  BY <1>2 DEF NewRequest
<1> QED
  BY <1>1, <1>2, <1>3 DEF a, b

LEMMA RegrantIsNew ==
  ASSUME NEW user, NEW entry, NEW todo
  PROVE  [Idle EXCEPT !.pc = "regrant", !.user = user, !.entry = entry,
                      !.todo = todo] =
           NewRequest("regrant", user, None, None, todo, entry, None)
<1> DEFINE a == [Idle EXCEPT !.pc = "regrant", !.user = user]
           b == [a EXCEPT !.entry = entry]
<1>1. a = NewRequest("regrant", user, None, None, <<>>, None, None)
  BY RequestsAreNew
<1> HIDE DEF a
<1>2. b = NewRequest("regrant", user, None, None, <<>>, entry, None)
  BY <1>1 DEF NewRequest
<1> HIDE DEF b
<1>3. [b EXCEPT !.todo = todo] = NewRequest("regrant", user, None, None, todo, entry, None)
  BY <1>2 DEF NewRequest
<1> QED
  BY <1>3 DEF a, b

LEMMA MergeIsNew ==
  ASSUME NEW user, NEW change, NEW row
  PROVE  [Idle EXCEPT !.pc = "merge", !.user = user, !.change = change,
                      !.row = row] =
           NewRequest("merge", user, row, change, <<>>, None, None)
<1> DEFINE a == [Idle EXCEPT !.pc = "merge", !.user = user]
           b == [a EXCEPT !.change = change]
<1>1. a = NewRequest("merge", user, None, None, <<>>, None, None)
  BY RequestsAreNew
<1> HIDE DEF a
<1>2. b = NewRequest("merge", user, None, change, <<>>, None, None)
  BY <1>1 DEF NewRequest
<1> HIDE DEF b
<1>3. [b EXCEPT !.row = row] = NewRequest("merge", user, row, change, <<>>, None, None)
  BY <1>2 DEF NewRequest
<1> QED
  BY <1>3 DEF a, b

LEMMA NewRequestSound ==
  ASSUME NEW pc \in {"idle", "login", "grant", "regrant", "revoke", "deleteEntries"}
                     \cup OtherPcs,
         NEW user \in Users \cup {None}, NEW todo \in Seq(AllGrants),
         NEW entry \in EntryIds \cup {None}, NEW ch \in Chats \cup {None},
         pc \in AccountPcs \ {"revoke"} => user \in Users,
         pc = "regrant" => todo # <<>>,
         pc \in {"regrant", "revoke"} => entry \in EntryIds
  PROVE  Sound(NewRequest(pc, user, None, None, todo, entry, ch))
<1> DEFINE q == NewRequest(pc, user, None, None, todo, entry, ch)
<1>1. q \in RequestType
  BY DEF NewRequest, RequestType, AccountPcs
<1>2. q.pc = pc /\ q.by = None /\ q.user = user /\ q.todo = todo
      /\ q.entry = entry
  BY DEF NewRequest
<1>3. pc \notin {"merge", "write"}
  BY DEF OtherPcs
<1> HIDE DEF q
<1> QED
  BY <1>1, <1>2, <1>3 DEF Sound, q

LEMMA NothingToDo == <<>> \in Seq(AllGrants)
OBVIOUS

(* A request that is authorised was granted what it needs.                 *)
Services == {"userservice", "accessservice", "chatservice",
             "taskenviromentservice", "promptexecservice"}

LEMMA AuthorisedWasHeld ==
  ASSUME AccountInv, NEW u \in Users, NEW service, NEW permission \in Permissions,
         CheckServiceAuthorization(u, service, permission)
  PROVE  \E g \in held[u] : /\ g.resource \in {service, "admin_panel", "server"}
                            /\ g.permission >= permission
<1>1. PICK resource \in TryAuth(service) : checkAuth(u, resource, permission)
  BY DEF CheckServiceAuthorization
<1>2. token[u] # None
  BY DEF CheckServiceAuthorization, ValidateToken
<1>3. GetClaims(token[u]) \subseteq held[u]
  BY <1>2 DEF AccountInv, HeldInv, GetClaims
<1>4. GetAccessEntriesByIdentityAndResource(u, resource) \subseteq held[u]
  BY DEF AccountInv, HeldInv, GetAccessEntriesByIdentityAndResource,
         GetAccessEntriesByIdentity, EntryIdsOf
<1>5. \E g \in held[u] : g.resource = resource /\ g.permission >= permission
  BY <1>1, <1>3, <1>4 DEF checkAuth, RequireAuthorisation
<1> QED
  BY <1>1, <1>5 DEF TryAuth

(* The record a request begins with.                                       *)
Carried(request, by, service, permission) ==
  [request EXCEPT !.by = by, !.need = Grant(service, permission)]

LEMMA CarriedSound ==
  ASSUME NEW by \in Users, NEW service \in Services, NEW permission \in Permissions,
         NEW request, Sound(request), request.pc # "idle"
  PROVE  /\ Sound(Carried(request, by, service, permission))
         /\ Carried(request, by, service, permission).by = by
         /\ Carried(request, by, service, permission).need.resource = service
         /\ Carried(request, by, service, permission).need.permission = permission
<1> DEFINE q == Carried(request, by, service, permission)
<1>1. Grant(service, permission) \in NeedType
  BY DEF Grant, NeedType, Services
<1>2. request \in RequestType
  BY DEF Sound
<1>3. q \in RequestType
  BY <1>1, <1>2 DEF Carried, RequestType
<1>4. /\ q.pc = request.pc /\ q.user = request.user /\ q.row = request.row
      /\ q.change = request.change /\ q.todo = request.todo
      /\ q.entry = request.entry
  BY <1>2 DEF Carried, RequestType
<1>5. q.by = by /\ q.need = Grant(service, permission)
  BY <1>2 DEF Carried, RequestType
<1>6. Sound(q)
  BY <1>3, <1>4 DEF Sound, Merged
<1> QED
  BY <1>5, <1>6 DEF Grant

LEMMA BeginHeld ==
  ASSUME AccountInv, NEW r \in Requests, NEW by \in Users,
         NEW service \in Services, NEW permission \in Permissions,
         NEW request, Sound(request), request.pc # "idle",
         BeginAs(r, by, service, permission, request)
  PROVE  /\ HeldStep
         /\ server = "up"
         /\ begun' \in 0 .. MaxRequests
         /\ req' = [req EXCEPT ![r] = Carried(request, by, service, permission)]
         /\ Sound(Carried(request, by, service, permission))
<1> DEFINE q == Carried(request, by, service, permission)
<1>1. /\ server = "up"
      /\ CheckServiceAuthorization(by, service, permission)
      /\ req' = [req EXCEPT ![r] = q]
      /\ begun < MaxRequests /\ begun' = begun + 1
  BY DEF BeginAs, Begins, Carried
<1>2. begun' \in 0 .. MaxRequests
  BY <1>1, AccountsAssumption DEF AccountInv, TablesInv, AccountsTypeOK
<1>3. req'[r] = q /\ \A s \in Requests \ {r} : req'[s] = req[s]
  BY <1>1 DEF AccountInv, RequestsInv
<1>4. \A s \in Requests \ {r} : req[s].pc = "idle" => req[s].by = None
  BY DEF AccountInv, RequestsInv, Sound
<1>5. /\ q.by = by /\ q.need.resource = service /\ q.need.permission = permission
      /\ Sound(q)
  BY CarriedSound
<1>6. \E g \in held[by] : /\ g.resource \in {service, "admin_panel", "server"}
                          /\ g.permission >= permission
  BY <1>1, AuthorisedWasHeld
<1>7. HeldStep
  <2> HIDE DEF q
  <2> QED
    BY <1>3, <1>4, <1>5, <1>6 DEF HeldStep
<1> QED
  BY <1>1, <1>2, <1>5, <1>7

LEMMA BeginStep ==
  ASSUME AccountInv, NEW r \in Requests, NEW by \in Users,
         NEW service \in Services, NEW permission \in Permissions,
         NEW request, Sound(request), request.pc # "idle",
         BeginAs(r, by, service, permission, request),
         UNCHANGED <<server, users, entries, token, accountHistory>>
  PROVE  Kept
<1>1. /\ HeldStep /\ server = "up" /\ begun' \in 0 .. MaxRequests
      /\ req' = [req EXCEPT ![r] = Carried(request, by, service, permission)]
      /\ Sound(Carried(request, by, service, permission))
  BY BeginHeld
<1>2. RequestsInv'
  BY <1>1, RequestsStep DEF AccountInv, accountHistory
<1> QED
  BY <1>1, <1>2, TablesStay DEF Kept

-----------------------------------------------------------------------------
(* The requests and steps of the account and access services.              *)

(* Facts every step of a request uses.                                     *)
LEMMA RequestFacts ==
  ASSUME AccountInv, NEW r \in Requests
  PROVE  /\ req[r] \in RequestType /\ Sound(req[r])
         /\ begun \in 0 .. MaxRequests
         /\ req[r].pc # "idle" => server = "up"
BY DEF AccountInv, RequestsInv, TablesInv, AccountsTypeOK

LEMMA BegunStep ==
  ASSUME AccountInv, begun < MaxRequests
  PROVE  begun + 1 \in 0 .. MaxRequests
BY AccountsAssumption DEF AccountInv, TablesInv, AccountsTypeOK

LEMMA LoginStep ==
  ASSUME AccountInv, NEW r \in Requests, NEW email \in Emails,
         NEW password \in Passwords, Login(r, email, password)
  PROVE  Kept
<1>1. PICK u \in Users :
        req' = [req EXCEPT ![r] = [Idle EXCEPT !.pc = "login", !.user = u]]
  BY DEF Login, GetUserByEmail
<1> DEFINE q == [Idle EXCEPT !.pc = "login", !.user = u]
<1>2. q = NewRequest("login", u, None, None, <<>>, None, None)
  BY RequestsAreNew
<1> HIDE DEF q
<1>3. Sound(q)
  BY <1>2, NothingToDo, NewRequestSound
<1>4. q.by = None
  BY <1>2 DEF NewRequest
<1>5. server = "up" /\ begun' \in 0 .. MaxRequests
  BY BegunStep DEF Login, Begins
<1> QED
  BY <1>1, <1>3, <1>4, <1>5, RequestStep DEF Login, q

LEMMA RequestFailsStep ==
  ASSUME AccountInv, NEW r \in Requests, RequestFails(r)
  PROVE  Kept
BY DoneStep DEF RequestFails

LEMMA GrantedStep ==
  ASSUME AccountInv, NEW r \in Requests, Granted(r)
  PROVE  Kept
<1>1. req[r].user \in Users /\ server = "up" /\ begun' \in 0 .. MaxRequests
  BY RequestFacts DEF Granted, Sound, AccountPcs
<1> DEFINE toLogin == NewRequest("login", req[r].user, None, None, <<>>, None, None)
           toIdle == NewRequest("idle", None, None, None, <<>>, None, None)
<1>2. PICK q \in {toLogin, toIdle} : req' = [req EXCEPT ![r] = q]
  <2>1. CASE req[r].by = None
    <3>1. [Idle EXCEPT !.pc = "login", !.user = req[r].user] = toLogin
      BY RequestsAreNew
    <3> QED
      BY <2>1, <3>1 DEF Granted
  <2>2. CASE req[r].by # None
    BY <2>2, RequestsAreNew DEF Granted
  <2> QED
    BY <2>1, <2>2
<1>3. Sound(toLogin)
  BY <1>1, NothingToDo, NewRequestSound
<1>4. Sound(toIdle)
  BY NothingToDo, NewRequestSound DEF AccountPcs
<1>5. q.by = None
  BY <1>2 DEF NewRequest
<1>6. req[r].pc # "idle" /\ UNCHANGED <<server, users, entries, token, accountHistory>>
  BY DEF Granted
<1> HIDE DEF toLogin, toIdle
<1>7. Sound(q)
  BY <1>2, <1>3, <1>4
<1> QED
  BY <1>1, <1>2, <1>5, <1>6, <1>7, RequestStep

LEMMA CreateEntryStep ==
  ASSUME AccountInv, NEW r \in Requests, NEW by \in Users, NEW u \in Users,
         NEW g \in Grants,
         CreateEntry(r, by, u, g)
  PROVE  Kept
<1>1. "accessservice" \in Services /\ Manage \in Permissions
  BY DEF Services, Manage, Permissions
<1>2. <<g>> \in Seq(AllGrants) /\ <<g>> # <<>>
  BY DEF AllGrants
<1> DEFINE q == Granting(u, <<g>>)
<1>3. q = NewRequest("grant", u, None, None, <<g>>, None, None)
  BY RequestsAreNew DEF Granting
<1> HIDE DEF q
<1>4. Sound(q)
  BY <1>2, <1>3, NothingToDo, NewRequestSound
<1>5. q.pc # "idle"
  BY <1>3 DEF NewRequest
<1> QED
  BY <1>1, <1>4, <1>5, BeginStep DEF CreateEntry, q

LEMMA UpdateEntryStep ==
  ASSUME AccountInv, NEW r \in Requests, NEW by \in Users, NEW u \in Users,
         NEW e \in EntryIds, NEW g \in Grants,
         UpdateEntry(r, by, e, u, g)
  PROVE  Kept
<1>1. "accessservice" \in Services /\ Manage \in Permissions
  BY DEF Services, Manage, Permissions
<1>2. <<g>> \in Seq(AllGrants) /\ <<g>> # <<>>
  BY DEF AllGrants
<1> DEFINE q == [Idle EXCEPT !.pc = "regrant", !.user = u, !.entry = e,
                             !.todo = <<g>>]
<1> DEFINE todo == <<g>>
<1>3. q = NewRequest("regrant", u, None, None, todo, e, None)
  BY RegrantIsNew
<1> HIDE DEF q
<1>4. Sound(q)
  BY <1>2, <1>3, NothingToDo, NewRequestSound
<1>5. q.pc # "idle"
  BY <1>3 DEF NewRequest
<1> QED
  BY <1>1, <1>4, <1>5, BeginStep DEF UpdateEntry, q

LEMMA DeleteEntryStep ==
  ASSUME AccountInv, NEW r \in Requests, NEW by \in Users, NEW e \in EntryIds,
         DeleteEntry(r, by, e)
  PROVE  Kept
<1>1. "accessservice" \in Services /\ Manage \in Permissions
  BY DEF Services, Manage, Permissions
<1> DEFINE q == [Idle EXCEPT !.pc = "revoke", !.entry = e]
<1>2. q = NewRequest("revoke", None, None, None, <<>>, e, None)
  BY RequestsAreNew
<1> HIDE DEF q
<1>3. Sound(q)
  BY <1>2, NothingToDo, NewRequestSound
<1>4. q.pc # "idle"
  BY <1>2 DEF NewRequest
<1> QED
  BY <1>1, <1>3, <1>4, BeginStep DEF DeleteEntry, q

LEMMA UpdateUserFieldsStep ==
  ASSUME AccountInv, NEW r \in Requests, NEW by \in Users, NEW u \in Users,
         NEW c \in Changes,
         UpdateUserFields(r, by, u, c)
  PROVE  Kept
<1>1. "userservice" \in Services /\ Manage \in Permissions
  BY DEF Services, Manage, Permissions
<1> DEFINE q == [Idle EXCEPT !.pc = "merge", !.user = u, !.change = c,
                             !.row = Override(GetUserByID(u), c)]
<1>2. users[u] \in Rows
  BY DEF UpdateUserFields, AccountInv, TablesInv, AccountsTypeOK
<1>3. Override(users[u], c) \in Rows
  BY <1>2, OverrideTyped
<1>4. q = NewRequest("merge", u, Override(GetUserByID(u), c), c, <<>>, None, None)
  BY MergeIsNew
<1> HIDE DEF q
<1>5. /\ q \in RequestType
      /\ q.pc = "merge" /\ q.user = u /\ q.change = c
      /\ q.row = Override(users[u], c)
  BY <1>3, <1>4 DEF RequestType, AccountPcs, NewRequest, GetUserByID
<1>6. Sound(q)
  BY <1>3, <1>5 DEF Sound, Merged, UpdateUserFields
<1>7. q.pc # "idle"
  BY <1>5
<1> HIDE DEF q
<1> QED
  BY <1>1, <1>6, <1>7, BeginStep DEF UpdateUserFields, q

LEMMA DeleteUserStep ==
  ASSUME AccountInv, NEW r \in Requests, NEW by \in Users, NEW u \in Users,
         DeleteUser(r, by, u)
  PROVE  Kept
<1>1. "userservice" \in Services /\ Manage \in Permissions
  BY DEF Services, Manage, Permissions
<1> DEFINE q == [Idle EXCEPT !.pc = "deleteEntries", !.user = u]
<1>2. q = NewRequest("deleteEntries", u, None, None, <<>>, None, None)
  BY RequestsAreNew
<1> HIDE DEF q
<1>3. Sound(q)
  BY <1>2, NothingToDo, NewRequestSound DEF AccountPcs
<1>4. q.pc # "idle"
  BY <1>2 DEF NewRequest
<1> QED
  BY <1>1, <1>3, <1>4, BeginStep DEF DeleteUser, q

(* updateUser reads the user again, and changes nothing of the merged row. *)
LEMMA MergeStep ==
  ASSUME AccountInv, NEW r \in Requests, updateUser(r)
  PROVE  Kept
<1> DEFINE u == req[r].user
           q == [req[r] EXCEPT !.pc = "write",
                               !.row = Override(users[u], req[r].row)]
<1>1. /\ req[r] \in RequestType /\ Sound(req[r]) /\ server = "up" /\ u \in Users
      /\ begun' \in 0 .. MaxRequests
      /\ Merged(req[r])
  BY RequestFacts DEF updateUser, Sound, AccountPcs
<1>2. users[u] \in Rows
  BY <1>1 DEF Merged, AccountInv, TablesInv, AccountsTypeOK
<1>3. Override(users[u], req[r].row) \in Rows
  BY <1>1, <1>2, OverrideTyped DEF Merged
<1>4. /\ q \in RequestType
      /\ q.pc = "write" /\ q.user = u /\ q.change = req[r].change
      /\ q.row = Override(users[u], req[r].row)
  BY <1>1, <1>3 DEF RequestType, AccountPcs
<1>5. u \notin overlapped => q.row = Override(users[u], q.change)
  BY <1>1, <1>2, <1>4, OverrideAgain DEF Merged
<1>6. Sound(q)
  BY <1>1, <1>3, <1>4, <1>5 DEF Sound, Merged
<1>7. req' = [req EXCEPT ![r] = q] /\ req[r].pc # "idle"
  BY <1>1 DEF updateUser, GetUserByID, RequestsInv, AccountInv
<1> HIDE DEF q
<1> QED
  BY <1>1, <1>6, <1>7, RequestStep DEF updateUser

-----------------------------------------------------------------------------
(* Steps that write tables and tokens.                                     *)

(* The requests stay sound when no table they refer to changes.            *)
LEMMA RequestsSame ==
  ASSUME RequestsInv, UNCHANGED <<server, users, overlapped, req>>
  PROVE  RequestsInv'
BY DEF RequestsInv, Sound, Merged

LEMMA DoneRequests ==
  ASSUME AccountInv, NEW r \in Requests, Done(r), req[r].pc # "idle",
         UNCHANGED <<server, users, overlapped>>
  PROVE  RequestsInv' /\ HeldStep
<1>1. Idle.pc = "idle" /\ Idle.by = None
  BY DEF Idle
<1> QED
  BY <1>1, IdleIsSound, RequestsStep, QuietStep DEF Done, AccountInv

(* The worker's entries, when no entry changes or one is added.            *)
LEMMA WorkerStays ==
  ASSUME AccountInv, server = "up", server' = "up", stripped' = stripped,
         \A e \in EntryIds : entries[e] # None => entries'[e] = entries[e]
  PROVE  WorkerInv'
<1>1. EntryIdsOf(Worker) \subseteq EntryIdsOf(Worker)'
  BY DEF EntryIdsOf
<1> QED
  BY <1>1 DEF AccountInv, WorkerInv

(* Tokens keep their claims or go.                                         *)
LEMMA TokensStep ==
  ASSUME AccountInv, NEW u \in Users, NEW t, token[u] # None,
         token' = [token EXCEPT ![u] = t],
         t # None => /\ t.claims = token[u].claims
                     /\ t \in [claims : SUBSET AllGrants, age : {"fresh", "late"}],
         UNCHANGED <<server, users, entries, req, begun, accountHistory>>
  PROVE  Kept
<1> USE DEF accountHistory
<1>1. HeldStep
  BY SameRequests
<1>2. RequestsInv'
  BY RequestsSame DEF AccountInv
<1>3. TablesInv'
  BY DEF AccountInv, TablesInv, AccountsTypeOK
<1>4. HeldInv'
  BY DEF AccountInv, HeldInv, TablesInv, AccountsTypeOK
<1>5. WorkerInv' /\ UpdatesSurvive'
  BY DEF AccountInv, WorkerInv, EntryIdsOf, UpdatesSurvive
<1> QED
  BY <1>1, <1>2, <1>3, <1>4, <1>5 DEF Kept, AccountInv

LEMMA TokenSteps ==
  ASSUME AccountInv, NEW u \in Users,
         RefreshToken(u) \/ TokenAges(u) \/ Logout(u)
  PROVE  Kept
<1>1. token[u] # None
  BY DEF RefreshToken, TokenAges, Logout, ValidateToken
<1>2. token[u] \in [claims : SUBSET AllGrants, age : {"fresh", "late"}]
  BY <1>1 DEF AccountInv, TablesInv, AccountsTypeOK
<1>3. CASE RefreshToken(u)
  <2> DEFINE t == RefreshTokenWithGracePeriod(token[u])
  <2>1. t.claims = token[u].claims
        /\ t \in [claims : SUBSET AllGrants, age : {"fresh", "late"}]
    BY <1>2 DEF RefreshTokenWithGracePeriod, CreateToken, GetClaims
  <2>2. token' = [token EXCEPT ![u] = t]
    BY <1>3 DEF RefreshToken
  <2> HIDE DEF t
  <2> QED
    BY <1>1, <1>3, <2>1, <2>2, TokensStep DEF RefreshToken
<1>4. CASE TokenAges(u)
  <2> DEFINE t == IF token[u].age = "fresh" THEN [token[u] EXCEPT !.age = "late"]
                  ELSE None
  <2>1. t # None => /\ t.claims = token[u].claims
                    /\ t \in [claims : SUBSET AllGrants, age : {"fresh", "late"}]
    BY <1>2
  <2>2. token' = [token EXCEPT ![u] = t]
    BY <1>4 DEF TokenAges
  <2> HIDE DEF t
  <2> QED
    BY <1>1, <1>4, <2>1, <2>2, TokensStep DEF TokenAges
<1>5. CASE Logout(u)
  BY <1>1, <1>5, TokensStep DEF Logout
<1> QED
  BY <1>3, <1>4, <1>5

(* A login takes the entries as claims, and history is what they grant.    *)
LEMMA CreateAuthTokenStep ==
  ASSUME AccountInv, NEW r \in Requests, CreateAuthToken(r)
  PROVE  Kept
<1> DEFINE u == req[r].user
           list == GetAccessEntriesByIdentity(u)
<1>1. /\ u \in Users
      /\ token' = [token EXCEPT ![u] = CreateToken(list)]
      /\ held' = [held EXCEPT ![u] = list]
      /\ Done(r) /\ req[r].pc # "idle"
      /\ UNCHANGED <<server, users, entries, begun, wanted, overlapped, stripped>>
  BY RequestFacts DEF CreateAuthToken, Sound, AccountPcs
<1>2. list \in SUBSET AllGrants
  BY <1>1, GrantedTyped DEF AccountInv
<1>3. RequestsInv' /\ HeldStep
  BY <1>1, DoneRequests
<1>4. \A e \in EntryIds : entries[e] # None /\ entries[e].identity = u =>
        Grant(entries[e].resource, entries[e].permission) \in list
  BY DEF GetAccessEntriesByIdentity, EntryIdsOf
<1> HIDE DEF u, list
<1>5. TablesInv'
  BY <1>1, <1>2 DEF AccountInv, TablesInv, AccountsTypeOK, CreateToken
<1>6. HeldInv'
  <2>1. \A v \in Users : /\ token'[v] = IF v = u THEN CreateToken(list) ELSE token[v]
                         /\ held'[v] = IF v = u THEN list ELSE held[v]
    BY <1>1 DEF AccountInv, TablesInv, AccountsTypeOK
  <2>2. CreateToken(list).claims = list
    BY DEF CreateToken
  <2>3. \A v \in Users : token'[v] # None => token'[v].claims \subseteq held'[v]
    BY <2>1, <2>2 DEF AccountInv, HeldInv
  <2>4. \A e \in EntryIds : entries[e] # None => entries[e].identity \in Users
    BY DEF AccountInv, TablesInv, AccessEntries
  <2> QED
    BY <1>1, <1>4, <2>1, <2>3, <2>4 DEF AccountInv, HeldInv
<1>7. WorkerInv' /\ UpdatesSurvive'
  BY <1>1 DEF AccountInv, WorkerInv, EntryIdsOf, UpdatesSurvive
<1> QED
  BY <1>3, <1>5, <1>6, <1>7 DEF Kept, AccountInv

(* A new row is nobody's update and keeps the worker's entries.            *)
LEMMA InsertUserStep ==
  ASSUME AccountInv, NEW r \in Requests, NEW u \in Users, NEW row \in Rows,
         NEW q, Sound(q), q.pc \notin {"merge", "write"}, server = "up",
         req' = [req EXCEPT ![r] = q], begun' \in 0 .. MaxRequests,
         InsertUser(u, row)
  PROVE  AccountInv'
<1>1. /\ users[u] = None
      /\ users' = [users EXCEPT ![u] = row]
      /\ wanted' = [wanted EXCEPT ![u] = row]
      /\ UNCHANGED <<server, entries, token, held, overlapped, stripped>>
  BY DEF InsertUser
<1>2. TablesInv'
  BY <1>1, NoneIsNoRow DEF AccountInv, TablesInv, AccountsTypeOK
<1>3. \A s \in Requests : req'[s] = IF s = r THEN q ELSE req[s]
  BY DEF AccountInv, RequestsInv
<1>4. \A v \in Users : v # u => users'[v] = users[v]
  BY <1>1 DEF AccountInv, TablesInv, AccountsTypeOK
<1>5. req' \in [Requests -> RequestType]
  BY DEF AccountInv, RequestsInv, Sound
<1>6. ASSUME NEW s \in Requests PROVE Sound(req[s])'
  <2>1. CASE s = r
    BY <1>3, <2>1 DEF Sound
  <2>2. CASE s # r
    <3>1. Sound(req[s]) /\ req'[s] = req[s]
      BY <1>3, <2>2 DEF AccountInv, RequestsInv
    <3>2. req[s].pc \in {"merge", "write"} => Merged(req[s])'
      BY <1>1, <1>4, <3>1 DEF Sound, Merged, AccountPcs
    <3> QED
      BY <3>1, <3>2 DEF Sound
  <2> QED
    BY <2>1, <2>2
<1>7. RequestsInv'
  BY <1>1, <1>5, <1>6 DEF RequestsInv
<1>8. HeldInv' /\ UpdatesSurvive'
  BY <1>1, <1>4 DEF AccountInv, HeldInv, UpdatesSurvive, TablesInv, AccountsTypeOK
<1>9. WorkerInv'
  BY <1>1, WorkerStays
<1> QED
  BY <1>2, <1>7, <1>8, <1>9 DEF AccountInv

LEMMA GrantingIsSound ==
  ASSUME NEW u \in Users, NEW todo \in Seq(AllGrants)
  PROVE  Sound(Granting(u, todo)) /\ Granting(u, todo).pc = "grant"
         /\ Granting(u, todo).by = None
<1>1. Granting(u, todo) = NewRequest("grant", u, None, None, todo, None, None)
  BY RequestsAreNew DEF Granting
<1>2. Sound(Granting(u, todo))
  BY <1>1, NewRequestSound
<1> QED
  BY <1>1, <1>2 DEF NewRequest

LEMMA RegisterStep ==
  ASSUME AccountInv, NEW r \in Requests, NEW u \in Users, NEW row \in Forms,
         Register(r, u, row)
  PROVE  Kept
<1>1. row \in Rows
  BY AccountsAssumption
<1> DEFINE todo == <<RegistrationGrant(row.email)>>
           q == Granting(u, todo)
<1>2. RegistrationGrant(row.email) \in AllGrants
  BY DEF RegistrationGrant, AllGrants
<1>3. todo \in Seq(AllGrants)
  BY <1>2
<1> HIDE DEF todo
<1>4. Sound(q) /\ q.pc = "grant" /\ q.by = None
  BY <1>3, GrantingIsSound
<1>5. req' = [req EXCEPT ![r] = q] /\ server = "up" /\ InsertUser(u, row)
  BY DEF Register, Begins, todo
<1>6. begun' \in 0 .. MaxRequests
  BY BegunStep DEF Register, Begins
<1> HIDE DEF q
<1> QED
  BY <1>1, <1>4, <1>5, <1>6, InsertUserStep, QuietStep DEF Kept

LEMMA CreateUserStep ==
  ASSUME AccountInv, NEW r \in Requests, NEW by \in Users, NEW u \in Users,
         NEW row \in Forms, NEW allowed \in Allowed,
         CreateUser(r, by, u, row, allowed)
  PROVE  Kept
<1>1. row \in Rows
  BY AccountsAssumption
<1> DEFINE q == Granting(u, allowed)
           c == Carried(q, by, "userservice", Manage)
<1>2. "userservice" \in Services /\ Manage \in Permissions
  BY DEF Services, Manage, Permissions
<1>3. allowed \in Seq(AllGrants)
  BY AccountsAssumption DEF AllGrants
<1>4. Sound(q) /\ q.pc = "grant" /\ q.by = None
  BY <1>3, GrantingIsSound
<1>5. BeginAs(r, by, "userservice", Manage, q) /\ InsertUser(u, row)
  BY DEF CreateUser
<1> HIDE DEF q
<1>6. /\ HeldStep /\ server = "up" /\ begun' \in 0 .. MaxRequests
      /\ req' = [req EXCEPT ![r] = c] /\ Sound(c)
  BY <1>2, <1>4, <1>5, BeginHeld
<1>7. c.pc = "grant"
  BY <1>4 DEF Carried, Sound, RequestType
<1> HIDE DEF c
<1> QED
  BY <1>1, <1>5, <1>6, <1>7, InsertUserStep DEF Kept

-----------------------------------------------------------------------------
(* Entries are made, changed and deleted.                                  *)

(* An entry is written, or deleted when row is None.                       *)
LEMMA EntryWritten ==
  ASSUME AccountInv, NEW e \in EntryIds, NEW u \in Users, NEW g \in AllGrants,
         NEW row \in {None, Entry(u, g)}, server = "up",
         entries' = [entries EXCEPT ![e] = row],
         held' = IF row = None THEN held ELSE [held EXCEPT ![u] = @ \cup {g}],
         stripped' = (stripped \/ Strips),
         UNCHANGED <<server, users, token, begun, wanted, overlapped>>,
         RequestsInv'
  PROVE  AccountInv'
<1>1. /\ Entry(u, g) \in AccessEntries /\ Entry(u, g).identity = u
      /\ Grant(Entry(u, g).resource, Entry(u, g).permission) = g
      /\ Entry(u, g) # None
  BY EntryGrants, NoneIsNoRow
<1>2. \A d \in EntryIds : entries'[d] = IF d = e THEN row ELSE entries[d]
  BY DEF AccountInv, TablesInv
<1>3. \A v \in Users : held[v] \subseteq held'[v] /\ held'[v] \in SUBSET AllGrants
  BY DEF AccountInv, TablesInv, AccountsTypeOK
<1>4. row # None => g \in held'[u]
  BY DEF AccountInv, TablesInv, AccountsTypeOK
<1>5. stripped' \in BOOLEAN
  BY DEF AccountInv, TablesInv, AccountsTypeOK, Strips
<1>6. TablesInv'
  <2>1. \A d \in EntryIds :
          entries'[d] \in {None} \cup {Entry(v, h) : v \in Users, h \in AllGrants}
    BY <1>2 DEF AccountInv, TablesInv, AccountsTypeOK
  <2>2. entries' \in [EntryIds -> AccessEntries \cup {None}]
    BY <1>1 DEF AccountInv, TablesInv
  <2>3. held' \in [Users -> SUBSET AllGrants]
    BY DEF AccountInv, TablesInv, AccountsTypeOK
  <2> QED
    BY <1>5, <2>1, <2>2, <2>3 DEF AccountInv, TablesInv, AccountsTypeOK
<1>7. HeldInv'
  <2>1. \A v \in Users : token'[v] # None => token'[v].claims \subseteq held'[v]
    BY <1>3 DEF AccountInv, HeldInv
  <2>2. \A d \in EntryIds : entries[d] # None => entries[d].identity \in Users
    BY DEF AccountInv, TablesInv, AccessEntries
  <2>3. ASSUME NEW d \in EntryIds, entries'[d] # None
        PROVE  Grant(entries'[d].resource, entries'[d].permission)
                 \in held'[entries'[d].identity]
    <3>1. CASE d = e
      BY <1>1, <1>2, <1>4, <2>3, <3>1
    <3>2. CASE d # e
      BY <1>2, <1>3, <2>2, <2>3, <3>2 DEF AccountInv, HeldInv
    <3> QED
      BY <3>1, <3>2
  <2> QED
    BY <2>1, <2>3 DEF HeldInv
<1>8. WorkerInv'
  BY DEF AccountInv, WorkerInv, Strips
<1>9. UpdatesSurvive'
  BY DEF AccountInv, UpdatesSurvive
<1> QED
  BY <1>6, <1>7, <1>8, <1>9 DEF AccountInv

LEMMA CreateAccessEntryStep ==
  ASSUME AccountInv, NEW r \in Requests, NEW e \in EntryIds, CreateAccessEntry(r, e)
  PROVE  Kept
<1> DEFINE u == req[r].user
           g == Head(req[r].todo)
<1>1. /\ req[r].pc = "grant" /\ req[r].todo # <<>> /\ entries[e] = None
      /\ req[r] \in RequestType /\ Sound(req[r]) /\ server = "up" /\ u \in Users
  BY RequestFacts DEF CreateAccessEntry, Sound, AccountPcs
<1>2. req[r].todo \in Seq(AllGrants)
  BY <1>1 DEF RequestType
<1>3. g \in AllGrants /\ Tail(req[r].todo) \in Seq(AllGrants)
  BY <1>1, <1>2
<1>4. CASE users[u] = None
  BY <1>1, <1>4, DoneStep DEF CreateAccessEntry, accountHistory
<1>5. CASE users[u] # None
  <2> DEFINE q == [req[r] EXCEPT !.todo = Tail(req[r].todo)]
  <2>1. /\ entries' = [entries EXCEPT ![e] = Entry(u, g)]
        /\ held' = [held EXCEPT ![u] = @ \cup {g}]
        /\ req' = [req EXCEPT ![r] = q]
        /\ UNCHANGED <<server, users, token, begun, wanted, overlapped, stripped>>
    BY <1>1, <1>5 DEF CreateAccessEntry, Holds, AccountInv, RequestsInv
  <2>2. q \in RequestType /\ q.pc = "grant" /\ q.user = u
    BY <1>1, <1>3 DEF RequestType
  <2>3. Sound(q)
    BY <1>1, <2>2 DEF Sound
  <2> HIDE DEF q
  <2>4. RequestsInv' /\ HeldStep
    BY <1>1, <2>1, <2>3, RequestsStep, QuietStep DEF AccountInv
  <2>5. stripped' = (stripped \/ Strips)
    <3>1. entries[e] = None /\ \A d \in EntryIds \ {e} : entries'[d] = entries[d]
      BY <1>1, <2>1 DEF AccountInv, TablesInv
    <3>2. EntryIdsOf(Worker) \subseteq EntryIdsOf(Worker)'
      BY <3>1 DEF EntryIdsOf
    <3>3. ~Strips
      BY <3>2 DEF Strips
    <3>4. stripped \in BOOLEAN
      BY DEF AccountInv, TablesInv, AccountsTypeOK
    <3> QED
      BY <2>1, <3>3, <3>4
  <2>6. Entry(u, g) # None
    BY <1>1, <1>3, EntryGrants, NoneIsNoRow
  <2> HIDE DEF u, g
  <2> QED
    BY <1>1, <1>3, <2>1, <2>4, <2>5, <2>6, EntryWritten DEF Kept, u
<1> QED
  BY <1>4, <1>5

LEMMA UpdateAccessEntryStep ==
  ASSUME AccountInv, NEW r \in Requests, UpdateAccessEntry(r)
  PROVE  Kept
<1> DEFINE e == req[r].entry
           u == req[r].user
           g == Head(req[r].todo)
<1>1. /\ req[r] \in RequestType /\ Sound(req[r]) /\ server = "up"
      /\ u \in Users /\ req[r].todo # <<>> /\ e \in EntryIds
  BY RequestFacts DEF UpdateAccessEntry, Sound, AccountPcs
<1>2. g \in AllGrants
  BY <1>1 DEF RequestType
<1>3. RequestsInv' /\ HeldStep
  BY DoneRequests DEF UpdateAccessEntry
<1>4. CASE entries[e] # None /\ users[u] # None
  <2>1. Entry(u, g) # None
    BY <1>1, <1>2, EntryGrants, NoneIsNoRow
  <2>2. /\ entries' = [entries EXCEPT ![e] = Entry(u, g)]
        /\ held' = [held EXCEPT ![u] = @ \cup {g}]
        /\ stripped' = (stripped \/ Strips)
        /\ UNCHANGED <<server, users, token, begun, wanted, overlapped>>
    BY <1>4 DEF UpdateAccessEntry
  <2> HIDE DEF e, u, g
  <2> QED
    BY <1>1, <1>2, <1>3, <1>4, <2>1, <2>2, EntryWritten DEF Kept
<1>5. CASE entries' = entries /\ held' = held
  <2>1. ~Strips
    BY <1>5 DEF Strips, EntryIdsOf
  <2>2. stripped' = stripped
    BY <2>1 DEF UpdateAccessEntry, AccountInv, TablesInv, AccountsTypeOK
  <2>3. begun' \in 0 .. MaxRequests
    BY RequestFacts DEF UpdateAccessEntry
  <2> QED
    BY <1>3, <1>5, <2>2, <2>3, TablesStay DEF UpdateAccessEntry, Kept, accountHistory
<1> QED
  BY <1>4, <1>5 DEF UpdateAccessEntry

LEMMA DeleteAccessEntryStep ==
  ASSUME AccountInv, NEW r \in Requests, DeleteAccessEntry(r)
  PROVE  Kept
<1> DEFINE e == req[r].entry
<1>1. /\ e \in EntryIds /\ server = "up"
      /\ entries' = [entries EXCEPT ![e] = None]
      /\ stripped' = (stripped \/ Strips)
      /\ UNCHANGED <<server, users, token, begun, held, wanted, overlapped>>
  BY RequestFacts DEF DeleteAccessEntry, Sound
<1>2. RequestsInv' /\ HeldStep
  BY DoneRequests DEF DeleteAccessEntry
<1>3. Worker \in Users /\ Grant("server", Manage) \in AllGrants
  BY AccountsAssumption DEF AllGrants
<1> HIDE DEF e
<1> QED
  BY <1>1, <1>2, <1>3, EntryWritten DEF Kept

-----------------------------------------------------------------------------
(* A user is updated and deleted.                                          *)

(* What is written is the change made to the present row, and an update    *)
(* that it passes over is in overlapped from then on.                      *)
LEMMA UpdateUserStep ==
  ASSUME AccountInv, NEW r \in Requests, UpdateUser(r)
  PROVE  Kept
<1> DEFINE u == req[r].user
           row == req[r].row
           c == req[r].change
<1>1. /\ req[r] \in RequestType /\ Sound(req[r]) /\ server = "up" /\ u \in Users
      /\ Merged(req[r]) /\ req[r].pc # "idle"
  BY RequestFacts DEF UpdateUser, Sound, AccountPcs
<1>2. /\ row \in Rows /\ c \in Changes /\ users[u] # None
      /\ u \notin overlapped => row = Override(users[u], c)
  BY <1>1 DEF Merged
<1>3. CASE ~EmailFree(u, row.email)
  BY <1>1, <1>3, DoneStep DEF UpdateUser, accountHistory
<1>4. CASE EmailFree(u, row.email)
  <2>1. /\ users' = [users EXCEPT ![u] = row]
        /\ wanted' = [wanted EXCEPT ![u] = Override(wanted[u], c)]
        /\ overlapped' = IF OthersUpdating(r, u) # {}
                           THEN overlapped \cup {u} ELSE overlapped
        /\ Done(r)
        /\ UNCHANGED <<server, entries, token, begun, held, stripped>>
    BY <1>4 DEF UpdateUser
  <2>2. wanted[u] \in Rows
    BY <1>1, <1>2 DEF AccountInv, TablesInv, AccountsTypeOK
  <2>3. Override(wanted[u], c) \in Rows
    BY <1>2, <2>2, OverrideTyped
  <2> DEFINE w == Override(wanted[u], c)
  <2> HIDE DEF u, row, c, w
  <2>4. /\ \A v \in Users : users'[v] = IF v = u THEN row ELSE users[v]
        /\ \A v \in Users : wanted'[v] = IF v = u THEN w ELSE wanted[v]
    BY <2>1 DEF AccountInv, TablesInv, AccountsTypeOK, w
  <2>5. TablesInv'
    <3>1. w \in Rows
      BY <2>3 DEF w
    <3>2. /\ users' \in [Users -> Rows \cup {None}]
          /\ wanted' \in [Users -> Rows \cup {None}]
      <4>1. wanted' = [wanted EXCEPT ![u] = w]
        BY <2>1 DEF w
      <4> QED
        <5>1. /\ users \in [Users -> Rows \cup {None}]
              /\ wanted \in [Users -> Rows \cup {None}]
          BY DEF AccountInv, TablesInv, AccountsTypeOK
        <5> QED
          BY <1>2, <2>1, <3>1, <4>1, <5>1
    <3>3. \A v \in Users : users'[v] = None <=> wanted'[v] = None
      BY <1>2, <2>4, <3>1, NoneIsNoRow DEF AccountInv, TablesInv
    <3>4. overlapped' \subseteq Users
      BY <1>1, <2>1 DEF AccountInv, TablesInv, AccountsTypeOK, u
    <3> QED
      BY <2>1, <3>2, <3>3, <3>4 DEF AccountInv, TablesInv, AccountsTypeOK
  <2>6. RequestsInv'
    <3>1. req' = [req EXCEPT ![r] = Idle]
      BY <2>1 DEF Done
    <3>2. \A s \in Requests : req'[s] = IF s = r THEN Idle ELSE req[s]
      BY <3>1 DEF AccountInv, RequestsInv
    <3>3. req' \in [Requests -> RequestType]
      BY <3>1, IdleIsSound DEF AccountInv, RequestsInv
    <3>4. ASSUME NEW s \in Requests PROVE Sound(req[s])'
      <4>1. CASE s = r
        BY <3>2, <4>1, IdleIsSound DEF Sound, Idle
      <4>2. CASE s # r
        <5>1. Sound(req[s]) /\ req'[s] = req[s]
          BY <3>2, <4>2 DEF AccountInv, RequestsInv
        <5>2. ASSUME req[s].pc \in {"merge", "write"} PROVE Merged(req[s])'
          <6>1. Merged(req[s]) /\ req[s].user \in Users
            BY <5>1, <5>2 DEF Sound, AccountPcs
          <6>2. CASE req[s].user = u
            <7>1. s \in OthersUpdating(r, u)
              BY <4>2, <5>2, <6>2 DEF OthersUpdating
            <7>2. u \in overlapped'
              BY <2>1, <7>1
            <7> QED
              BY <1>1, <1>2, <2>4, <5>1, <6>1, <6>2, <7>2, NoneIsNoRow DEF Merged
          <6>3. CASE req[s].user # u
            BY <2>1, <2>4, <5>1, <6>1, <6>3 DEF Merged
          <6> QED
            BY <6>2, <6>3
        <5> QED
          BY <5>1, <5>2 DEF Sound
      <4> QED
        BY <4>1, <4>2
    <3> QED
      BY <1>1, <2>1, <3>3, <3>4 DEF RequestsInv
  <2>7. HeldInv'
    BY <2>1 DEF AccountInv, HeldInv
  <2>8. WorkerInv'
    BY <1>1, <2>1, WorkerStays
  <2>9. UpdatesSurvive'
    <3> SUFFICES ASSUME NEW v \in Users, v \notin overlapped'
                 PROVE  users'[v] = wanted'[v]
      BY DEF UpdatesSurvive
    <3>1. v \notin overlapped /\ users[v] = wanted[v]
      BY <2>1 DEF AccountInv, UpdatesSurvive
    <3> QED
      BY <1>2, <2>4, <3>1 DEF w
  <2>10. HeldStep
    BY <1>1, <2>1, QuietStep DEF Done
  <2> QED
    BY <2>5, <2>6, <2>7, <2>8, <2>9, <2>10 DEF Kept, AccountInv
<1> QED
  BY <1>3, <1>4

(* The deletion always finds that no entry is left, and is rolled back.    *)
LEMMA DeletionRolledBack ==
  ASSUME AccountInv, NEW r \in Requests, DeleteAccessEntriesByIdentity(r)
  PROVE  Kept
<1> DEFINE u == req[r].user
           seen == CascadedFrom(u)
           left == {e \in EntryIds : seen[e] # None /\ seen[e].identity = u}
<1>1. left = {}
  BY DEF CascadedFrom, EntryIdsOf
<1>2. /\ UNCHANGED <<server, users, entries, token, begun, accountHistory>>
      /\ Done(r) /\ req[r].pc # "idle"
  BY <1>1 DEF DeleteAccessEntriesByIdentity, accountHistory
<1> QED
  BY <1>2, DoneStep

-----------------------------------------------------------------------------
(* The server starts and crashes.                                          *)

(* The row the worker's account is made with.                              *)
LEMMA WorkerTyped == Worker \in Users /\ WorkerRow \in Rows
<1>1. (CHOOSE p \in Passwords : TRUE) \in Passwords
  BY AccountsAssumption
<1> QED
  BY <1>1, AccountsAssumption DEF WorkerRow, Row, Rows

(* A step of a start makes the worker's account or changes no table.       *)
LEMMA StartIsOneOf ==
  ASSUME Start
  PROVE  /\ server # "up" /\ server' \in Serving
         /\ UNCHANGED <<token, req, begun, overlapped, stripped>>
         /\ InitCredentials \/ UNCHANGED <<users, entries, held, wanted>>
         /\ server' \in {"embedder", "up"} => InitCredentials
<1>1. CASE initDatabase
  BY <1>1 DEF initDatabase, Serving, accountHistory
<1>2. CASE NewEmbedder
  BY <1>2 DEF NewEmbedder, Serving
<1>3. CASE NewExecRepo
  BY <1>3 DEF NewExecRepo, Serving
<1> QED
  BY <1>1, <1>2, <1>3 DEF Start

(* It leaves every table as it is, or the worker had no entry and gets its *)
(* row and both entries.                                                   *)
LEMMA InitCredentialsWrites ==
  ASSUME InitCredentials
  PROVE  \/ /\ EntryIdsOf(Worker) # {}
            /\ UNCHANGED <<users, entries, held, wanted>>
         \/ /\ EntryIdsOf(Worker) = {}
            /\ users' = [users EXCEPT ![Worker] = WorkerRow]
            /\ wanted' = [wanted EXCEPT ![Worker] = WorkerRow]
            /\ entries' = [entries EXCEPT ![ServerEntry] = ServerGrant,
                                          ![FilesEntry] = FilesGrant]
            /\ held' = [held EXCEPT ![Worker] = @ \cup {Grant("server", Manage),
                                                        Grant("files", View)}]
BY DEF InitCredentials

LEMMA StartStep ==
  ASSUME AccountInv, Start
  PROVE  Kept
<1>1. /\ server # "up" /\ server' \in Serving
      /\ UNCHANGED <<token, req, begun, overlapped, stripped>>
  BY StartIsOneOf
<1>2. \A r \in Requests : req[r].pc = "idle"
  BY <1>1 DEF AccountInv, RequestsInv
<1>3. RequestsInv'
  BY <1>1, <1>2 DEF AccountInv, RequestsInv, Sound
<1>4. HeldStep
  BY <1>1, SameRequests
<1>5. CASE /\ UNCHANGED <<users, entries, held, wanted>>
           /\ server' = "up" => EntryIdsOf(Worker) # {}
  <2>1. UNCHANGED <<users, entries, held, wanted>>
    BY <1>5
  <2>2. TablesInv'
    BY <1>1, <2>1 DEF AccountInv, TablesInv, AccountsTypeOK
  <2>3. HeldInv' /\ UpdatesSurvive'
    BY <1>1, <2>1 DEF AccountInv, HeldInv, UpdatesSurvive
  <2>4. WorkerInv'
    BY <1>1, <1>5, <2>1 DEF AccountInv, WorkerInv, EntryIdsOf
  <2> QED
    BY <1>3, <1>4, <2>2, <2>3, <2>4 DEF Kept, AccountInv
<1>6. CASE InitCredentials /\ EntryIdsOf(Worker) = {}
  <2> DEFINE g == Grant("server", Manage)
             h == Grant("files", View)
  <2>1. /\ users' = [users EXCEPT ![Worker] = WorkerRow]
        /\ wanted' = [wanted EXCEPT ![Worker] = WorkerRow]
        /\ entries' = [entries EXCEPT ![ServerEntry] = Entry(Worker, g),
                                      ![FilesEntry] = Entry(Worker, h)]
        /\ held' = [held EXCEPT ![Worker] = @ \cup {g, h}]
    BY <1>6, InitCredentialsWrites DEF ServerGrant, FilesGrant
  <2>2. /\ Worker \in Users /\ ServerEntry \in EntryIds /\ FilesEntry \in EntryIds
        /\ ServerEntry # FilesEntry
    BY AccountsAssumption
  <2>3. g \in AllGrants /\ h \in AllGrants
    BY DEF AllGrants
  <2>4. WorkerRow \in Rows
    BY WorkerTyped
  <2>5. /\ Entry(Worker, g) \in AccessEntries /\ Entry(Worker, g).identity = Worker
        /\ Grant(Entry(Worker, g).resource, Entry(Worker, g).permission) = g
        /\ Entry(Worker, h) \in AccessEntries /\ Entry(Worker, h).identity = Worker
        /\ Grant(Entry(Worker, h).resource, Entry(Worker, h).permission) = h
        /\ Entry(Worker, g) # None
    BY <2>2, <2>3, EntryGrants, NoneIsNoRow
  <2> DEFINE ge == Entry(Worker, g)
             he == Entry(Worker, h)
  <2>6. \A e \in EntryIds :
          entries'[e] = IF e = FilesEntry THEN he
                        ELSE IF e = ServerEntry THEN ge ELSE entries[e]
    BY <2>1, <2>2 DEF AccountInv, TablesInv
  <2> HIDE DEF g, h
  <2>7. held \in [Users -> SUBSET AllGrants]
    BY DEF AccountInv, TablesInv, AccountsTypeOK
  <2>8. held' = [held EXCEPT ![Worker] = held[Worker] \cup {g, h}]
    BY <2>1
  <2>9. \A v \in Users : held'[v] = IF v = Worker THEN held[v] \cup {g, h} ELSE held[v]
    BY <2>7, <2>8
  <2>10. TablesInv'
    <3>1. /\ users' \in [Users -> Rows \cup {None}]
          /\ wanted' \in [Users -> Rows \cup {None}]
          /\ \A u \in Users : users'[u] = None <=> wanted'[u] = None
      BY <2>1, <2>2, <2>4, NoneIsNoRow DEF AccountInv, TablesInv, AccountsTypeOK
    <3>2. \A e \in EntryIds :
            entries'[e] \in {None} \cup {Entry(v, f) : v \in Users, f \in AllGrants}
      BY <2>2, <2>3, <2>6 DEF AccountInv, TablesInv, AccountsTypeOK
    <3>3. entries' \in [EntryIds -> AccessEntries \cup {None}]
      BY <2>1, <2>5 DEF AccountInv, TablesInv
    <3>4. held' \in [Users -> SUBSET AllGrants]
      BY <2>2, <2>3, <2>7, <2>8
    <3> QED
      BY <1>1, <3>1, <3>2, <3>3, <3>4 DEF AccountInv, TablesInv, AccountsTypeOK
  <2> HIDE DEF ge, he
  <2>11. HeldInv'
    <3>1. \A v \in Users : token'[v] # None => token'[v].claims \subseteq held'[v]
      BY <1>1, <2>9 DEF AccountInv, HeldInv
    <3>2. ASSUME NEW e \in EntryIds, entries'[e] # None
          PROVE  Grant(entries'[e].resource, entries'[e].permission)
                   \in held'[entries'[e].identity]
      <4>1. CASE e \in {ServerEntry, FilesEntry}
        BY <2>2, <2>5, <2>6, <2>9, <4>1 DEF ge, he
      <4>2. CASE e \notin {ServerEntry, FilesEntry}
        <5>1. entries'[e] = entries[e] /\ entries[e].identity \in Users
          BY <2>6, <3>2, <4>2 DEF AccountInv, TablesInv, AccessEntries
        <5> QED
          BY <2>9, <3>2, <5>1 DEF AccountInv, HeldInv
      <4> QED
        BY <4>1, <4>2
    <3> QED
      BY <3>1, <3>2 DEF HeldInv
  <2>12. UpdatesSurvive'
    BY <1>1, <2>1 DEF AccountInv, TablesInv, AccountsTypeOK, UpdatesSurvive
  <2>13. WorkerInv'
    BY <2>2, <2>5, <2>6 DEF WorkerInv, EntryIdsOf, ge
  <2> QED
    BY <1>3, <1>4, <2>10, <2>11, <2>12, <2>13 DEF Kept, AccountInv
<1> QED
  BY <1>5, <1>6, StartIsOneOf, InitCredentialsWrites

LEMMA CrashStep ==
  ASSUME AccountInv, Crash
  PROVE  Kept
<1>1. /\ server' = "down" /\ req' = [r \in Requests |-> Idle]
      /\ UNCHANGED <<users, entries, token, begun, accountHistory>>
  BY DEF Crash
<1>2. Idle.pc = "idle" /\ Idle.by = None
  BY DEF Idle
<1>3. RequestsInv'
  <2>1. \A r \in Requests : Sound(req[r])'
    BY <1>1, IdleIsSound DEF Sound, Idle
  <2> QED
    BY <1>1, <1>2, <2>1, IdleIsSound DEF RequestsInv
<1>4. HeldStep
  BY <1>1, <1>2 DEF HeldStep
<1>5. TablesInv'
  <2>1. server' \in Serving /\ UNCHANGED <<users, entries, token, begun, held, wanted,
                                           overlapped, stripped>>
    BY <1>1 DEF accountHistory, Serving
  <2> QED
    BY <2>1 DEF AccountInv, TablesInv, AccountsTypeOK
<1>6. HeldInv' /\ UpdatesSurvive'
  BY <1>1 DEF AccountInv, HeldInv, UpdatesSurvive, accountHistory
<1>7. WorkerInv'
  BY <1>1 DEF AccountInv, WorkerInv, EntryIdsOf, accountHistory
<1> QED
  BY <1>3, <1>4, <1>5, <1>6, <1>7 DEF Kept, AccountInv

-----------------------------------------------------------------------------
(* The requests and steps of the other services.                           *)

(* A request of another service begins.                                    *)
LEMMA OtherBegins ==
  ASSUME AccountInv, NEW r \in Requests, NEW by \in Users,
         NEW service \in Services, NEW permission \in Permissions,
         NEW pc \in OtherPcs, NEW chatOf \in Chats \cup {None},
         BeginAs(r, by, service, permission,
                 NewRequest(pc, None, None, None, <<>>, None, chatOf)),
         UNCHANGED <<server, users, entries, token, accountHistory>>
  PROVE  Kept
<1> DEFINE q == NewRequest(pc, None, None, None, <<>>, None, chatOf)
<1>1. Sound(q)
  BY NothingToDo, NewRequestSound DEF AccountPcs, OtherPcs
<1>2. q.pc # "idle"
  BY DEF NewRequest, OtherPcs
<1> HIDE DEF q
<1> QED
  BY <1>1, <1>2, BeginStep DEF q

(* A request of another service goes on, and nothing else changes.         *)
LEMMA OtherStep ==
  ASSUME AccountInv, NEW r \in Requests, req[r].pc \in OtherPcs, NEW pc \in OtherPcs,
         req' = [req EXCEPT ![r].pc = pc],
         UNCHANGED <<server, users, entries, token, begun, accountHistory>>
  PROVE  Kept
<1> DEFINE q == [req[r] EXCEPT !.pc = pc]
<1>1. /\ req[r] \in RequestType /\ server = "up" /\ begun \in 0 .. MaxRequests
      /\ req[r].pc # "idle"
  BY RequestFacts DEF OtherPcs
<1>2. q \in RequestType /\ q.pc = pc
  BY <1>1 DEF RequestType
<1>3. Sound(q)
  BY <1>2 DEF Sound, AccountPcs, OtherPcs
<1>4. req' = [req EXCEPT ![r] = q]
  BY DEF AccountInv, RequestsInv
<1> HIDE DEF q
<1> QED
  BY <1>1, <1>3, <1>4, RequestStep

LEMMA ChatRequests ==
  ASSUME AccountInv, NEW r \in Requests, ChatRequest(r)
  PROVE  Kept
<1>1. "chatservice" \in Services /\ Manage \in Permissions
  BY DEF Services, Manage, Permissions
<1>2. ASSUME NEW by \in Users, NewInstance(r, by) PROVE Kept
  <2>1. BeginAs(r, by, "chatservice", Manage,
                NewRequest("newchat", None, None, None, <<>>, None, None))
    BY <1>2, RequestsAreNew DEF NewInstance
  <2>2. "newchat" \in OtherPcs
    BY DEF OtherPcs
  <2> QED
    BY <1>1, <1>2, <2>1, <2>2, OtherBegins DEF NewInstance, restVars
<1>3. ASSUME NEW by \in Users, NEW c \in Chats, AddInstruction(r, by, c) PROVE Kept
  <2>1. BeginAs(r, by, "chatservice", Manage,
                NewRequest("instruct", None, None, None, <<>>, None, c))
    BY <1>3, RequestsAreNew DEF AddInstruction
  <2>2. "instruct" \in OtherPcs
    BY DEF OtherPcs
  <2> QED
    BY <1>1, <1>3, <2>1, <2>2, OtherBegins DEF AddInstruction, restVars
<1>4. ASSUME NEW by \in Users, NEW c \in Chats, StartChat(r, by, c) PROVE Kept
  <2>1. BeginAs(r, by, "chatservice", Manage,
                NewRequest("list", None, None, None, <<>>, None, c))
    BY <1>4, RequestsAreNew DEF StartChat
  <2>2. "list" \in OtherPcs
    BY DEF OtherPcs
  <2> QED
    BY <1>1, <1>4, <2>1, <2>2, OtherBegins DEF StartChat, restVars
<1> QED
  BY <1>2, <1>3, <1>4 DEF ChatRequest, createChat, addInstruction, chat

LEMMA ChatSteps ==
  ASSUME AccountInv, NEW r \in Requests, ChatStep(r)
  PROVE  Kept
<1>1. ASSUME NEW c \in Chats, CreateMessageIndex(r, c) PROVE Kept
  BY <1>1, DoneStep DEF CreateMessageIndex, restVars
<1>2. CASE ListMessages(r)
  BY <1>2, OtherStep DEF ListMessages, restVars, OtherPcs
<1>3. CASE AskBackend(r)
  BY <1>3, OtherStep DEF AskBackend, restVars, OtherPcs
<1>4. CASE EndChat(r)
  BY <1>4, DoneStep DEF EndChat, AppendMessages, restVars
<1>5. CASE EndInstruction(r)
  BY <1>5, DoneStep DEF EndInstruction, AppendMessages, restVars
<1> QED
  BY <1>1, <1>2, <1>3, <1>4, <1>5 DEF ChatStep

LEMMA TaskRequests ==
  ASSUME AccountInv, NEW r \in Requests, TaskRequest(r)
  PROVE  Kept
<1>1. {"taskenviromentservice", "promptexecservice"} \subseteq Services
      /\ View \in Permissions
  BY DEF Services, View, Permissions
<1>2. ASSUME NEW by \in Users, NEW chain \in Chains, Execute(r, by, chain) PROVE Kept
  <2>1. BeginAs(r, by, "taskenviromentservice", View,
                NewRequest("attempt", None, None, None, <<>>, None, None))
    BY <1>2, RequestsAreNew DEF Execute
  <2>2. "attempt" \in OtherPcs
    BY DEF OtherPcs
  <2> QED
    BY <1>1, <1>2, <2>1, <2>2, OtherBegins DEF Execute
<1>3. ASSUME NEW by \in Users, ExecutePrompt(r, by) PROVE Kept
  <2>1. BeginAs(r, by, "promptexecservice", View,
                NewRequest("prompt", None, None, None, <<>>, None, None))
    BY <1>3, RequestsAreNew DEF ExecutePrompt
  <2>2. "prompt" \in OtherPcs
    BY DEF OtherPcs
  <2> QED
    BY <1>1, <1>3, <2>1, <2>2, OtherBegins DEF ExecutePrompt
<1> QED
  BY <1>2, <1>3 DEF TaskRequest, execute, tasks

LEMMA TaskSteps ==
  ASSUME AccountInv, NEW r \in Requests, TaskStep(r)
  PROVE  Kept
<1>1. CASE AnswerPrompt(r)
  BY <1>1, DoneStep DEF AnswerPrompt, aroundVars
<1>2. CASE CannotAttempt(r)
  BY <1>2, DoneStep DEF CannotAttempt, EndRun, aroundVars
<1>3. CASE Attempt(r)
  <2>1. PICK pc \in {"transit", "attempt"} : req' = [req EXCEPT ![r].pc = pc]
    <3>1. PICK raw, n \in BOOLEAN :
            req' = [req EXCEPT ![r].pc = IF n THEN "transit" ELSE "attempt"]
      BY <1>3, Zenon DEF Attempt
    <3> QED
      BY <3>1
  <2> QED
    BY <1>3, <2>1, OtherStep DEF Attempt, aroundVars, OtherPcs
<1>4. CASE Transit(r)
  <2>1. req[r].pc = "transit" /\ UNCHANGED aroundVars
        /\ (Done(r) \/ req' = [req EXCEPT ![r].pc = "attempt"])
    BY <1>4 DEF Transit, EndRun
  <2> QED
    BY <2>1, DoneStep, OtherStep DEF aroundVars, OtherPcs
<1> QED
  BY <1>1, <1>2, <1>3, <1>4 DEF TaskStep

-----------------------------------------------------------------------------
(* All steps.                                                              *)

LEMMA AccountRequests ==
  ASSUME AccountInv, NEW r \in Requests, AccountRequest(r)
  PROVE  Kept
<1>1. CASE login(r)
  BY <1>1, LoginStep DEF login
<1>2. CASE register(r)
  BY <1>2, RegisterStep DEF register
<1>3. CASE createUser(r)
  BY <1>3, CreateUserStep DEF createUser
<1>4. CASE update(r)
  BY <1>4, UpdateUserFieldsStep DEF update
<1>5. CASE delete(r)
  BY <1>5, DeleteUserStep DEF delete
<1>6. CASE createEntry(r)
  BY <1>6, CreateEntryStep DEF createEntry
<1>7. CASE updateEntry(r)
  BY <1>7, UpdateEntryStep DEF updateEntry
<1>8. CASE deleteEntry(r)
  BY <1>8, DeleteEntryStep DEF deleteEntry
<1> QED
  BY <1>1, <1>2, <1>3, <1>4, <1>5, <1>6, <1>7, <1>8 DEF AccountRequest

LEMMA AccountSteps ==
  ASSUME AccountInv, NEW r \in Requests, AccountStep(r)
  PROVE  Kept
BY CreateAuthTokenStep, GrantedStep, RequestFailsStep, CreateAccessEntryStep,
   UpdateAccessEntryStep, DeleteAccessEntryStep, MergeStep, UpdateUserStep,
   DeletionRolledBack
   DEF AccountStep

LEMMA AccountInvNext ==
  ASSUME AccountInv, [Next]_assistantVars
  PROVE  Kept
<1>1. CASE Accounting
  <2>1. CASE Start
    BY <2>1, StartStep
  <2>2. CASE Crash
    BY <2>2, CrashStep
  <2>3. CASE jwtRefresh \/ logout \/ \E u \in Users : TokenAges(u)
    BY <2>3, TokenSteps DEF jwtRefresh, logout
  <2>4. CASE \E r \in Requests : AccountRequest(r) \/ AccountStep(r)
    BY <2>4, AccountRequests, AccountSteps
  <2> QED
    BY <1>1, <2>1, <2>2, <2>3, <2>4 DEF Accounting, AccountsNext
<1>2. CASE Chatting
  BY <1>2, ChatRequests, ChatSteps DEF Chatting
<1>3. CASE Tasking
  BY <1>3, TaskRequests, TaskSteps DEF Tasking
<1>4. CASE UNCHANGED accountVars
  <2>1. UNCHANGED <<server, users, entries, token, req, begun, accountHistory>>
    BY <1>4 DEF accountVars
  <2>2. RequestsInv'
    BY <2>1, RequestsSame DEF AccountInv, accountHistory
  <2>3. begun' \in 0 .. MaxRequests
    BY <2>1 DEF AccountInv, TablesInv, AccountsTypeOK
  <2> QED
    BY <2>1, <2>2, <2>3, TablesStay, SameRequests DEF Kept
<1> QED
  BY <1>1, <1>2, <1>3, <1>4 DEF Next, Syncing, assistantVars

-----------------------------------------------------------------------------
(* The results.                                                            *)

(* The inductive invariant: types, sound requests, claims and entries that *)
(* were held, and the worker's account.                                    *)
THEOREM AccountInvariant == Spec => []AccountInv
<1>1. AccountInv /\ [Next]_assistantVars => AccountInv'
  BY AccountInvNext DEF Kept
<1> QED
  BY <1>1, AccountInvInit, PTL DEF Spec

(* The tables, tokens and histories of the accounts have their types.      *)
THEOREM AccountsTyped == Spec => []AccountsTypeOK
<1>1. AccountInv => AccountsTypeOK
  BY DEF AccountInv, TablesInv
<1> QED
  BY <1>1, AccountInvariant, PTL

(* Every request of every service that is let in was allowed to its user   *)
(* by an entry there was at the user's login or since (checkAuth).         *)
THEOREM GrantedWasHeldCorrect == Spec => GrantedWasHeld
<1>1. AccountInv /\ [Next]_assistantVars => [HeldStep]_accountVars
  BY AccountInvNext DEF Kept
<1>2. Spec => [][HeldStep]_accountVars
  BY <1>1, AccountInvariant, PTL DEF Spec
<1> QED
  BY <1>2 DEF GrantedWasHeld, HeldStep

(* Users keep every value they were last given, unless two updates of the  *)
(* user overlapped (UpdateUserFields).                                     *)
THEOREM UpdatesSurviveCorrect == Spec => []UpdatesSurvive
<1>1. AccountInv => UpdatesSurvive
  BY DEF AccountInv
<1> QED
  BY <1>1, AccountInvariant, PTL

-----------------------------------------------------------------------------
(* The places of requests: what a step of one does to those of others.     *)

(* Where a request runs a chain, and where it holds a turn of a chat.      *)
RunPcs == {"attempt", "transit"}
TalkPcs == {"list", "ask", "append"}
HeldPcs == RunPcs \cup TalkPcs

(* A request that runs a chain or holds a turn goes on with it or ends.    *)
PlacesKept ==
  \A s \in Requests :
    \/ req'[s].pc = req[s].pc /\ req'[s].chat = req[s].chat
    \/ req'[s].pc = "idle"
    \/ req'[s].pc \notin HeldPcs /\ req[s].pc \notin HeldPcs

LEMMA PlaceStep ==
  ASSUME AccountInv, NEW r \in Requests, NEW q, req' = [req EXCEPT ![r] = q],
         \/ q.pc = req[r].pc /\ q.chat = req[r].chat
         \/ q.pc = "idle"
         \/ q.pc \notin HeldPcs /\ req[r].pc \notin HeldPcs
  PROVE  PlacesKept
BY DEF AccountInv, RequestsInv, PlacesKept

LEMMA DonePlace ==
  ASSUME AccountInv, NEW r \in Requests, Done(r)
  PROVE  PlacesKept
<1>1. Idle.pc = "idle"
  BY DEF Idle
<1> QED
  BY <1>1, PlaceStep DEF Done

(* A request that begins was idle and is where it says.                    *)
LEMMA BeginsThere ==
  ASSUME AccountInv, NEW r \in Requests, NEW by, NEW service, NEW permission,
         NEW pc, NEW user, NEW row, NEW change, NEW todo, NEW entry, NEW chatOf,
         BeginAs(r, by, service, permission,
                 NewRequest(pc, user, row, change, todo, entry, chatOf))
  PROVE  /\ req[r].pc = "idle" /\ req'[r].pc = pc /\ req'[r].chat = chatOf
         /\ \A s \in Requests \ {r} : req'[s] = req[s]
<1> DEFINE request == NewRequest(pc, user, row, change, todo, entry, chatOf)
           a == [request EXCEPT !.by = by]
           n == Grant(service, permission)
           q == [a EXCEPT !.need = n]
<1>1. req' = [req EXCEPT ![r] = q] /\ req[r].pc = "idle"
  BY DEF BeginAs, Begins
<1>2. a = [pc |-> pc, by |-> by, need |-> None, user |-> user, row |-> row,
           change |-> change, todo |-> todo, entry |-> entry, chat |-> chatOf]
  BY DEF NewRequest
<1> HIDE DEF a, n
<1>3. q.pc = pc /\ q.chat = chatOf
  BY <1>2
<1>4. req \in [Requests -> RequestType]
  BY DEF AccountInv, RequestsInv
<1> HIDE DEF q
<1> QED
  BY <1>1, <1>3, <1>4

LEMMA BeginPlace ==
  ASSUME AccountInv, NEW r \in Requests, NEW by, NEW service, NEW permission,
         NEW pc, NEW user, NEW row, NEW change, NEW todo, NEW entry, NEW chatOf,
         pc \notin HeldPcs,
         BeginAs(r, by, service, permission,
                 NewRequest(pc, user, row, change, todo, entry, chatOf))
  PROVE  PlacesKept
<1>1. /\ req[r].pc = "idle" /\ req'[r].pc = pc
      /\ \A s \in Requests \ {r} : req'[s] = req[s]
  BY BeginsThere
<1> QED
  BY <1>1 DEF PlacesKept, HeldPcs, RunPcs, TalkPcs

LEMMA AccountRequestPlaces ==
  ASSUME AccountInv, NEW r \in Requests, AccountRequest(r)
  PROVE  PlacesKept
<1> USE DEF HeldPcs, RunPcs, TalkPcs
<1>1. CASE login(r)
  <2>1. PICK u \in Users :
          req' = [req EXCEPT ![r] = [Idle EXCEPT !.pc = "login", !.user = u]]
    BY <1>1 DEF login, Login, GetUserByEmail
  <2> DEFINE q == [Idle EXCEPT !.pc = "login", !.user = u]
  <2>2. req[r].pc = "idle"
    BY <1>1 DEF login, Login, Begins
  <2>3. q = NewRequest("login", u, None, None, <<>>, None, None)
    BY RequestsAreNew
  <2> HIDE DEF q
  <2>4. q.pc = "login"
    BY <2>3 DEF NewRequest
  <2> QED
    BY <2>1, <2>2, <2>4, PlaceStep DEF q
<1>2. ASSUME NEW u \in Users, NEW todo,
             req' = [req EXCEPT ![r] = Granting(u, todo)], req[r].pc = "idle"
      PROVE  PlacesKept
  <2>1. Granting(u, todo) = NewRequest("grant", u, None, None, todo, None, None)
    BY RequestsAreNew DEF Granting
  <2>2. Granting(u, todo).pc = "grant"
    BY <2>1 DEF NewRequest
  <2> QED
    BY <1>2, <2>2, PlaceStep
<1>3. CASE register(r)
  BY <1>2, <1>3 DEF register, Register, Begins
<1>4. ASSUME NEW by \in Users, NEW u \in Users, NEW service, NEW todo,
             BeginAs(r, by, service, Manage, Granting(u, todo))
      PROVE  PlacesKept
  <2>1. Granting(u, todo) = NewRequest("grant", u, None, None, todo, None, None)
    BY RequestsAreNew DEF Granting
  <2> QED
    BY <1>4, <2>1, BeginPlace
<1>5. CASE createUser(r)
  BY <1>4, <1>5 DEF createUser, CreateUser
<1>6. CASE createEntry(r)
  BY <1>4, <1>6 DEF createEntry, CreateEntry
<1>7. CASE update(r)
  <2>1. PICK by \in Users, u \in Users, c \in Changes : UpdateUserFields(r, by, u, c)
    BY <1>7 DEF update
  <2> DEFINE row == Override(GetUserByID(u), c)
  <2>2. BeginAs(r, by, "userservice", Manage,
                NewRequest("merge", u, row, c, <<>>, None, None))
    BY <2>1, MergeIsNew DEF UpdateUserFields
  <2> HIDE DEF row
  <2> QED
    BY <2>2, BeginPlace
<1>8. CASE delete(r)
  <2>1. PICK by \in Users, u \in Users : DeleteUser(r, by, u)
    BY <1>8 DEF delete
  <2>2. BeginAs(r, by, "userservice", Manage,
                NewRequest("deleteEntries", u, None, None, <<>>, None, None))
    BY <2>1, RequestsAreNew DEF DeleteUser
  <2> QED
    BY <2>2, BeginPlace
<1>9. CASE updateEntry(r)
  <2>1. PICK by \in Users, u \in Users, e \in EntryIds, g \in Grants :
          UpdateEntry(r, by, e, u, g)
    BY <1>9 DEF updateEntry
  <2> DEFINE todo == <<g>>
  <2>2. BeginAs(r, by, "accessservice", Manage,
                NewRequest("regrant", u, None, None, todo, e, None))
    BY <2>1, RegrantIsNew DEF UpdateEntry
  <2> HIDE DEF todo
  <2> QED
    BY <2>2, BeginPlace
<1>10. CASE deleteEntry(r)
  <2>1. PICK by \in Users, e \in EntryIds : DeleteEntry(r, by, e)
    BY <1>10 DEF deleteEntry
  <2>2. BeginAs(r, by, "accessservice", Manage,
                NewRequest("revoke", None, None, None, <<>>, e, None))
    BY <2>1, RequestsAreNew DEF DeleteEntry
  <2> QED
    BY <2>2, BeginPlace
<1> QED
  BY <1>1, <1>3, <1>5, <1>6, <1>7, <1>8, <1>9, <1>10 DEF AccountRequest

LEMMA AccountStepPlaces ==
  ASSUME AccountInv, NEW r \in Requests, AccountStep(r)
  PROVE  PlacesKept
<1>1. CASE Done(r)
  BY <1>1, DonePlace
<1>2. CASE Granted(r)
  <2> DEFINE toLogin == NewRequest("login", req[r].user, None, None, <<>>, None, None)
             toIdle == NewRequest("idle", None, None, None, <<>>, None, None)
  <2>1. PICK q \in {toLogin, toIdle} : req' = [req EXCEPT ![r] = q]
    <3>1. CASE req[r].by = None
      <4>1. [Idle EXCEPT !.pc = "login", !.user = req[r].user] = toLogin
        BY RequestsAreNew
      <4> QED
        BY <1>2, <3>1, <4>1 DEF Granted
    <3>2. CASE req[r].by # None
      BY <1>2, <3>2, RequestsAreNew DEF Granted
    <3> QED
      BY <3>1, <3>2
  <2>2. q.pc \notin HeldPcs
    BY <2>1 DEF NewRequest, HeldPcs, RunPcs, TalkPcs
  <2>3. req[r].pc \notin HeldPcs
    BY <1>2 DEF Granted, HeldPcs, RunPcs, TalkPcs
  <2> QED
    BY <2>1, <2>2, <2>3, PlaceStep
<1>3. CASE updateUser(r)
  <2> DEFINE q == [req[r] EXCEPT !.pc = "write",
                                 !.row = Override(GetUserByID(req[r].user), req[r].row)]
  <2>1. req[r] \in RequestType
    BY RequestFacts
  <2>2. req' = [req EXCEPT ![r] = q]
    BY <1>3 DEF updateUser, AccountInv, RequestsInv
  <2>3. q.pc = "write" /\ req[r].pc = "merge"
    BY <1>3, <2>1 DEF RequestType, updateUser
  <2> HIDE DEF q
  <2> QED
    BY <2>2, <2>3, PlaceStep DEF HeldPcs, RunPcs, TalkPcs
<1>4. ASSUME NEW e \in EntryIds, CreateAccessEntry(r, e), ~Done(r)
      PROVE  PlacesKept
  <2> DEFINE q == [req[r] EXCEPT !.todo = Tail(req[r].todo)]
  <2>1. req[r] \in RequestType
    BY RequestFacts
  <2>2. req' = [req EXCEPT ![r] = q]
    BY <1>4 DEF CreateAccessEntry, AccountInv, RequestsInv
  <2>3. q.pc = req[r].pc /\ q.chat = req[r].chat
    BY <2>1 DEF RequestType
  <2> HIDE DEF q
  <2> QED
    BY <2>2, <2>3, PlaceStep
<1> QED
  BY <1>1, <1>2, <1>3, <1>4
     DEF AccountStep, CreateAuthToken, RequestFails, UpdateAccessEntry,
         DeleteAccessEntry, UpdateUser, DeleteAccessEntriesByIdentity

LEMMA AccountingPlaces ==
  ASSUME AccountInv, AccountsNext
  PROVE  PlacesKept
<1>1. ASSUME req' = req PROVE PlacesKept
  BY <1>1 DEF PlacesKept
<1>2. CASE Start \/ jwtRefresh \/ logout \/ \E u \in Users : TokenAges(u)
  BY <1>1, <1>2, StartIsOneOf DEF jwtRefresh, RefreshToken, logout, Logout, TokenAges
<1>3. CASE Crash
  BY <1>3 DEF Crash, PlacesKept, Idle
<1>4. CASE \E r \in Requests : AccountRequest(r) \/ AccountStep(r)
  BY <1>4, AccountRequestPlaces, AccountStepPlaces
<1> QED
  BY <1>2, <1>3, <1>4 DEF AccountsNext

(* The requests that begin a chat, an instruction or a turn.               *)
LEMMA ChatBegins ==
  ASSUME NEW r \in Requests, ChatRequest(r)
  PROVE  \E by \in Users, pc \in {"newchat", "instruct", "list"},
            c \in Chats \cup {None} :
           BeginAs(r, by, "chatservice", Manage,
                   NewRequest(pc, None, None, None, <<>>, None, c))
<1>1. CASE createChat(r)
  <2>1. PICK by \in Users : NewInstance(r, by)
    BY <1>1 DEF createChat
  <2>2. BeginAs(r, by, "chatservice", Manage,
                NewRequest("newchat", None, None, None, <<>>, None, None))
    BY <2>1, RequestsAreNew DEF NewInstance
  <2> QED
    BY <2>2
<1>2. CASE addInstruction(r)
  <2>1. PICK by \in Users, c \in Chats : AddInstruction(r, by, c)
    BY <1>2 DEF addInstruction
  <2>2. BeginAs(r, by, "chatservice", Manage,
                NewRequest("instruct", None, None, None, <<>>, None, c))
    BY <2>1, RequestsAreNew DEF AddInstruction
  <2> QED
    BY <2>2
<1>3. CASE chat(r)
  <2>1. PICK by \in Users, c \in Chats : StartChat(r, by, c)
    BY <1>3 DEF chat
  <2>2. BeginAs(r, by, "chatservice", Manage,
                NewRequest("list", None, None, None, <<>>, None, c))
    BY <2>1, RequestsAreNew DEF StartChat
  <2> QED
    BY <2>2
<1> QED
  BY <1>1, <1>2, <1>3 DEF ChatRequest

(* A request of the chat service neither runs a chain nor ends one.        *)
LEMMA ChattingPlaces ==
  ASSUME AccountInv, NEW r \in Requests, ChatRequest(r) \/ ChatStep(r)
  PROVE  /\ req[r].pc \notin RunPcs /\ req'[r].pc \notin RunPcs
         /\ \A s \in Requests \ {r} : req'[s] = req[s]
<1> USE DEF RunPcs
<1>1. CASE ChatRequest(r)
  BY <1>1, ChatBegins, BeginsThere
<1>2. CASE ChatStep(r)
  <2>1. req[r].pc \in {"newchat", "list", "ask", "append", "instruct"}
        /\ \/ req' = [req EXCEPT ![r] = Idle]
           \/ \E pc \in {"ask", "append"} : req' = [req EXCEPT ![r].pc = pc]
    BY <1>2 DEF ChatStep, CreateMessageIndex, ListMessages, AskBackend, EndChat,
                EndInstruction, AppendMessages, Done
  <2>2. req \in [Requests -> RequestType]
    BY DEF AccountInv, RequestsInv
  <2>3. req[r] \in RequestType /\ Idle.pc = "idle"
    BY <2>2 DEF Idle
  <2> QED
    BY <2>1, <2>2, <2>3 DEF RequestType
<1> QED
  BY <1>1, <1>2

-----------------------------------------------------------------------------
(* The runs of chains: visits.                                             *)

LEMMA LeastIn == ASSUME NEW S \in SUBSET Nat, S # {} PROVE Least(S) \in S
<1> DEFINE Below == {0 .. i : i \in S}
           R == StrictSubsetOrdering(Nat)
<1>1. Below \subseteq FiniteSubsetsOf(Nat) /\ Below # {}
  <2>1. \A i \in S : IsFiniteSet(0 .. i) /\ 0 .. i \in SUBSET Nat
    BY FS_Interval
  <2> QED
    BY <2>1 DEF FiniteSubsetsOf
<1>2. IsWellFoundedOn(R, FiniteSubsetsOf(Nat))
  BY FS_StrictSubsetOrderingWellFounded
<1>3. PICK X \in Below : \A Y \in Below : <<Y, X>> \notin R
  <2> HIDE DEF Below, R
  <2> QED
    BY <1>1, <1>2, WFMin, Zenon
<1>4. PICK i \in S : X = 0 .. i
  BY <1>3
<1>5. \A j \in S : i <= j
  <2> SUFFICES ASSUME NEW j \in S, j < i PROVE FALSE
    OBVIOUS
  <2>1. 0 .. j \in Below
    OBVIOUS
  <2>2. 0 .. j \subseteq 0 .. i /\ 0 .. j # 0 .. i
    BY i \in Nat, j \in Nat
  <2>3. <<0 .. j, 0 .. i>> \in R
    BY <2>2 DEF StrictSubsetOrdering
  <2> QED
    BY <1>3, <1>4, <2>1, <2>3
<1> QED
  BY <1>5, Zenon DEF Least

(* The task an id leads to is a task of the list.                          *)
LEMMA FoundTask ==
  ASSUME NEW chain \in Chains, NEW id, findTaskByID(chain.tasks, id) # None
  PROVE  TaskOK(findTaskByID(chain.tasks, id))
<1> DEFINE found == {i \in DOMAIN chain.tasks : chain.tasks[i].id = id}
<1>1. found # {} /\ found \in SUBSET Nat
  BY TaskEngineAssumption DEF findTaskByID
<1>2. Least(found) \in found
  BY <1>1, LeastIn
<1>3. findTaskByID(chain.tasks, id) = chain.tasks[Least(found)]
  BY <1>1 DEF findTaskByID
<1> HIDE DEF found
<1>4. Least(found) \in DOMAIN chain.tasks
  BY <1>2 DEF found
<1> QED
  BY <1>3, <1>4, TaskEngineAssumption

(* A transition that is taken matches or is the default.                   *)
LEMMA TransitionMatches ==
  ASSUME NEW next, DOMAIN next \subseteq Nat, NEW response,
         evaluateTransitions(next, response) # None
  PROVE  \E k \in DOMAIN next :
           /\ evaluateTransitions(next, response) = next[k].id
           /\ \/ next[k].value = Default
              \/ compare(next[k].operator, response, next[k].value) = "yes"
<1> DEFINE defaults == {i \in DOMAIN next : next[i].value = Default}
           result(i) == compare(next[i].operator, response, next[i].value)
           decisive == {i \in DOMAIN next \ defaults : result(i) # "no"}
<1>1. evaluateTransitions(next, response) =
        IF decisive # {}
        THEN IF result(Least(decisive)) = "yes" THEN next[Least(decisive)].id ELSE None
        ELSE IF defaults # {} THEN next[Least(defaults)].id ELSE None
  BY DEF evaluateTransitions
<1>2. decisive \in SUBSET Nat /\ defaults \in SUBSET Nat
  OBVIOUS
<1>3. decisive \subseteq DOMAIN next
  OBVIOUS
<1>4. \A i \in defaults : i \in DOMAIN next /\ next[i].value = Default
  OBVIOUS
<1> HIDE DEF decisive, defaults
<1>5. CASE decisive # {}
  <2>1. Least(decisive) \in decisive
    BY <1>2, <1>5, LeastIn
  <2>2. result(Least(decisive)) = "yes"
    BY <1>1, <1>5
  <2>3. evaluateTransitions(next, response) = next[Least(decisive)].id
    BY <1>1, <1>5, <2>2
  <2>4. Least(decisive) \in DOMAIN next
    BY <1>3, <2>1
  <2> QED
    BY <2>2, <2>3, <2>4
<1>6. CASE decisive = {}
  <2>1. defaults # {}
    BY <1>1, <1>6
  <2>2. Least(defaults) \in defaults
    BY <1>2, <2>1, LeastIn
  <2> QED
    BY <1>1, <1>4, <1>6, <2>1, <2>2
<1> QED
  BY <1>5, <1>6

(* A visit counts its attempts and effects.                                *)
IsVisit(v) ==
  /\ v = [task |-> v.task, attempts |-> v.attempts, effects |-> v.effects,
           raw |-> v.raw]
  /\ v.attempts \in Nat /\ v.effects \in Nat /\ v.effects <= v.attempts

TimesAllowed(t) == IF t.retry > 0 THEN t.retry + 1 ELSE 1

(* Why a run went on from visit v of task t to the task next.              *)
Left(t, v, next) ==
  /\ IF v.raw = None
       THEN v.attempts = TimesAllowed(t) /\ next = t.onError
       ELSE /\ v.attempts <= TimesAllowed(t)
            /\ \E k \in DOMAIN t.next :
                 /\ next = t.next[k].id
                 /\ \/ t.next[k].value = Default
                    \/ compare(t.next[k].operator, v.raw, t.next[k].value) = "yes"
  /\ t.type = "hook" /\ v.raw # None => v.effects >= 1

(* What is known of the visit a run is at.                                 *)
At(pc, t, v) ==
  /\ pc = "attempt" => v.attempts < TimesAllowed(t)
  /\ pc = "transit" =>
       /\ v.raw = None => v.attempts = TimesAllowed(t)
       /\ v.raw # None => v.attempts <= TimesAllowed(t)
       /\ t.type = "hook" /\ v.raw # None => v.effects >= 1

IsSequence(s) == \E S : s \in Seq(S)
TaskOf(R, i) == findTaskByID(R.chain.tasks, R.visits[i].task)

RunSound(pc, R) ==
  /\ R = [chain |-> R.chain, visits |-> R.visits]
  /\ R.chain \in Chains
  /\ IsSequence(R.visits) /\ R.visits # <<>>
  /\ \A i \in 1 .. Len(R.visits) : IsVisit(R.visits[i])
  /\ \A i \in 1 .. Len(R.visits) - 1 :
       Left(TaskOf(R, i), R.visits[i], R.visits[i + 1].task)
  /\ TaskOf(R, Len(R.visits)) # None
  /\ At(pc, TaskOf(R, Len(R.visits)), R.visits[Len(R.visits)])

RunsInv ==
  /\ run = [r \in Requests |-> run[r]]
  /\ \A r \in Requests :
       IF req[r].pc \in RunPcs THEN RunSound(req[r].pc, run[r]) ELSE run[r] = NoRun

LEMMA RunsInvInit == Init => RunsInv
BY DEF Init, AccountsInit, RunInit, RunsInv, RunPcs, Idle

LEMMA ShownByRuns == RunsInv => VisitsExplained
<1> SUFFICES ASSUME RunsInv, NEW r \in Requests,
                    NEW i \in 1 .. Len(run[r].visits) - 1
             PROVE  LET v == run[r].visits[i]
                        t == findTaskByID(run[r].chain.tasks, v.task)
                    IN Left(t, v, run[r].visits[i + 1].task) /\ v.effects <= v.attempts
  BY DEF VisitsExplained, Left, TimesAllowed
<1>1. CASE req[r].pc \in RunPcs
  <2>1. RunSound(req[r].pc, run[r])
    BY <1>1 DEF RunsInv
  <2>2. Len(run[r].visits) \in Nat
    BY <2>1 DEF RunSound, IsSequence
  <2>3. i \in 1 .. Len(run[r].visits)
    BY <2>2
  <2> QED
    BY <2>1, <2>3 DEF RunSound, TaskOf, IsVisit
<1>2. CASE run[r] = NoRun
  BY <1>2 DEF NoRun
<1> QED
  BY <1>1, <1>2 DEF RunsInv

(* The runs of other requests go on or end with them.                      *)
LEMMA RunsStay ==
  ASSUME RunsInv, PlacesKept, RunsEnd
  PROVE  RunsInv'
<1>1. \A s \in Requests : run'[s] = IF req'[s].pc = "idle" THEN NoRun ELSE run[s]
  BY DEF RunsEnd
<1>2. run' = [r \in Requests |-> run'[r]]
  BY <1>1 DEF RunsEnd
<1>3. ASSUME NEW s \in Requests
      PROVE  IF req'[s].pc \in RunPcs THEN RunSound(req'[s].pc, run'[s]) ELSE run'[s] = NoRun
  BY <1>1 DEF RunsInv, PlacesKept, HeldPcs, RunPcs
<1>4. \A s \in Requests :
        RunSound(req[s].pc, run[s])' <=> RunSound(req'[s].pc, run'[s])
  BY DEF RunSound, IsSequence, IsVisit, TaskOf, At, Left
<1> QED
  BY <1>2, <1>3, <1>4 DEF RunsInv

(* A step of request r on its own run.                                     *)
LEMMA OwnRun ==
  ASSUME AccountInv, RunsInv, NEW r \in Requests, NEW pc, NEW R,
         req'[r].pc = pc, \A s \in Requests \ {r} : req'[s] = req[s],
         run' = [run EXCEPT ![r] = R],
         IF pc \in RunPcs THEN RunSound(pc, R) ELSE R = NoRun
  PROVE  RunsInv'
<1>1. run' = [s \in Requests |-> run'[s]]
  BY DEF RunsInv
<1>2. \A s \in Requests : run'[s] = IF s = r THEN R ELSE run[s]
  BY DEF RunsInv
<1>3. ASSUME NEW s \in Requests
      PROVE  IF req'[s].pc \in RunPcs THEN RunSound(req'[s].pc, run'[s]) ELSE run'[s] = NoRun
  BY <1>2 DEF RunsInv
<1>4. \A s \in Requests :
        RunSound(req[s].pc, run[s])' <=> RunSound(req'[s].pc, run'[s])
  BY DEF RunSound, IsSequence, IsVisit, TaskOf, At, Left
<1> QED
  BY <1>1, <1>3, <1>4 DEF RunsInv

(* What a request does to the requests when it is done, or goes on.        *)
LEMMA OwnPlace ==
  ASSUME AccountInv, NEW r \in Requests, NEW pc,
         \/ Done(r) /\ pc = "idle"
         \/ req' = [req EXCEPT ![r].pc = pc]
  PROVE  req'[r].pc = pc /\ \A s \in Requests \ {r} : req'[s] = req[s]
<1>1. req \in [Requests -> RequestType] /\ Idle.pc = "idle"
  BY DEF AccountInv, RequestsInv, Idle
<1> QED
  BY <1>1 DEF Done, RequestType

LEMMA BeginsRun ==
  ASSUME AccountInv, NEW r \in Requests, NEW by, NEW service, NEW permission, NEW pc,
         BeginAs(r, by, service, permission, [Idle EXCEPT !.pc = pc])
  PROVE  /\ req[r].pc = "idle" /\ req'[r].pc = pc
         /\ \A s \in Requests \ {r} : req'[s] = req[s]
<1>1. [Idle EXCEPT !.pc = pc] = NewRequest(pc, None, None, None, <<>>, None, None)
  BY RequestsAreNew
<1> QED
  BY <1>1, BeginsThere

(* A run begins with the first task of its chain.                          *)
LEMMA ExecuteRun ==
  ASSUME AccountInv, RunsInv, NEW r \in Requests, NEW by \in Users,
         NEW chain \in Chains, Execute(r, by, chain)
  PROVE  RunsInv'
<1> DEFINE v == Visit(chain.tasks[1].id)
           R == [chain |-> chain, visits |-> <<v>>]
<1>1. req'[r].pc = "attempt" /\ \A s \in Requests \ {r} : req'[s] = req[s]
  BY BeginsRun DEF Execute
<1>2. run' = [run EXCEPT ![r] = R]
  BY DEF Execute
<1>3. /\ IsVisit(v) /\ v.raw = None /\ v.attempts = 0
      /\ v.task = chain.tasks[1].id
  BY DEF Visit, IsVisit
<1>4. findTaskByID(chain.tasks, v.task) # None
  <2> DEFINE found == {i \in DOMAIN chain.tasks : chain.tasks[i].id = v.task}
  <2>1. 1 \in found
    BY <1>3, TaskEngineAssumption
  <2>2. found \in SUBSET Nat
    BY TaskEngineAssumption
  <2>3. Least(found) \in found
    BY <2>1, <2>2, LeastIn
  <2>4. findTaskByID(chain.tasks, v.task) = chain.tasks[Least(found)]
    BY <2>1 DEF findTaskByID
  <2> HIDE DEF v
  <2>5. Least(found) \in DOMAIN chain.tasks
    BY <2>3
  <2> QED
    BY <2>4, <2>5, TaskEngineAssumption
<1>5. TaskOK(findTaskByID(chain.tasks, v.task))
  BY <1>4, FoundTask
<1> DEFINE t == findTaskByID(chain.tasks, v.task)
<1>6. v.attempts < TimesAllowed(t)
  BY <1>3, <1>5 DEF TimesAllowed, TaskOK
<1>7. <<v>> \in Seq({v}) /\ Len(<<v>>) = 1 /\ <<v>>[1] = v /\ <<v>> # <<>>
  OBVIOUS
<1> DEFINE vs == <<v>>
<1> HIDE DEF v, vs, t
<1>8. TaskOf(R, Len(R.visits)) = t
  BY <1>7 DEF TaskOf, t, vs
<1>9. RunSound("attempt", R)
  <2>1. R.visits = vs /\ R.chain = chain /\ Len(vs) = 1 /\ vs[1] = v /\ vs # <<>>
    BY <1>7 DEF vs
  <2>2. IsSequence(vs)
    BY <1>7 DEF IsSequence, vs
  <2>3. \A i \in 1 .. Len(R.visits) - 1 : FALSE
    BY <2>1
  <2>4. At("attempt", t, v)
    BY <1>6 DEF At
  <2>5. t # None
    BY <1>4 DEF t
  <2>6. R = [chain |-> R.chain, visits |-> R.visits]
    BY DEF vs
  <2> HIDE DEF R
  <2> QED
    BY <1>3, <1>8, <2>1, <2>2, <2>3, <2>4, <2>5, <2>6 DEF RunSound
<1> HIDE DEF R
<1> QED
  BY <1>1, <1>2, <1>9, OwnRun DEF RunPcs

(* The visit a run is at, and its task.                                    *)
LEMMA RunFacts ==
  ASSUME RunsInv, NEW r \in Requests, req[r].pc \in RunPcs
  PROVE  /\ RunSound(req[r].pc, run[r])
         /\ IsVisit(CurrentVisit(r))
         /\ CurrentTask(r) # None /\ TaskOK(CurrentTask(r))
         /\ At(req[r].pc, CurrentTask(r), CurrentVisit(r))
         /\ Len(run[r].visits) \in Nat \ {0}
<1>1. RunSound(req[r].pc, run[r])
  BY DEF RunsInv
<1>2. Len(run[r].visits) \in Nat \ {0}
  BY <1>1 DEF RunSound, IsSequence
<1>3. CurrentTask(r) = TaskOf(run[r], Len(run[r].visits))
  BY DEF CurrentTask, CurrentVisit, TaskOf
<1>4. IsVisit(CurrentVisit(r)) /\ CurrentTask(r) # None
      /\ At(req[r].pc, CurrentTask(r), CurrentVisit(r))
  BY <1>1, <1>2, <1>3 DEF RunSound, CurrentVisit
<1>5. TaskOK(CurrentTask(r))
  BY <1>1, <1>4, FoundTask DEF RunSound, CurrentTask
<1> QED
  BY <1>1, <1>2, <1>4, <1>5

(* An attempt succeeds, fails for the last time, or is to be repeated.     *)
LEMMA AttemptRun ==
  ASSUME AccountInv, RunsInv, NEW r \in Requests, Attempt(r)
  PROVE  RunsInv'
<1> DEFINE t == CurrentTask(r)
           v == CurrentVisit(r)
           vs == run[r].visits
           isHook == t.type = "hook" /\ t.hook \in HookTypes
           results == TaskExec(t, run[r].chain.strategy)
<1>1. req[r].pc = "attempt"
  BY DEF Attempt
<1>2. PICK raw \in results \cup {None}, n \in IF isHook THEN {0, 1} ELSE {0} :
        /\ isHook /\ raw # None => n = 1
        /\ run' = [run EXCEPT ![r].visits[Len(vs)] =
                     [v EXCEPT !.attempts = @ + 1, !.effects = @ + n, !.raw = raw]]
        /\ req' = [req EXCEPT ![r].pc =
                     IF raw # None \/ OutOfAttempts(t, v.attempts + 1)
                     THEN "transit" ELSE "attempt"]
  BY DEF Attempt
<1>3. /\ RunSound("attempt", run[r]) /\ IsVisit(v) /\ t # None /\ TaskOK(t)
      /\ v.attempts < TimesAllowed(t) /\ Len(vs) \in Nat \ {0}
  BY <1>1, RunFacts DEF RunPcs, At
<1>4. t.type = "hook" /\ raw # None => isHook
  BY <1>2 DEF TaskExec
<1> DEFINE w == [task |-> v.task, attempts |-> v.attempts + 1,
                 effects |-> v.effects + n, raw |-> raw]
           pc == IF raw # None \/ OutOfAttempts(t, v.attempts + 1)
                 THEN "transit" ELSE "attempt"
           ws == [vs EXCEPT ![Len(vs)] = w]
           R == [chain |-> run[r].chain, visits |-> ws]
<1>5. [v EXCEPT !.attempts = @ + 1, !.effects = @ + n, !.raw = raw] = w
  <2> DEFINE a == [v EXCEPT !.attempts = v.attempts + 1]
             b == [a EXCEPT !.effects = a.effects + n]
  <2>1. v = [task |-> v.task, attempts |-> v.attempts, effects |-> v.effects,
             raw |-> v.raw]
    BY <1>3 DEF IsVisit
  <2> HIDE DEF v
  <2>2. a = [task |-> v.task, attempts |-> v.attempts + 1, effects |-> v.effects,
             raw |-> v.raw]
    BY <2>1
  <2> HIDE DEF a
  <2>3. b = [task |-> v.task, attempts |-> v.attempts + 1,
             effects |-> v.effects + n, raw |-> v.raw]
    BY <2>2
  <2> HIDE DEF b
  <2>4. [b EXCEPT !.raw = raw] = w
    BY <2>3
  <2> QED
    BY <2>4 DEF a, b
<1>6. run' = [run EXCEPT ![r] = R]
  <2>1. run[r] = [chain |-> run[r].chain, visits |-> vs]
    BY <1>3 DEF RunSound
  <2>2. run' = [run EXCEPT ![r].visits[Len(vs)] = w]
    BY <1>2, <1>5
  <2>3. run' = [run EXCEPT ![r] = [run[r] EXCEPT !.visits = ws]]
    <3> HIDE DEF w
    <3> QED
      BY <2>2
  <2>4. [run[r] EXCEPT !.visits = ws] = R
    <3> HIDE DEF ws
    <3> QED
      BY <2>1
  <2> QED
    BY <2>3, <2>4
<1>7. IsVisit(w) /\ w.task = v.task /\ w.raw = raw /\ w.attempts = v.attempts + 1
      /\ (t.type = "hook" /\ raw # None => w.effects >= 1)
  <2>1. n \in {0, 1} /\ v.attempts \in Nat /\ v.effects \in Nat
        /\ v.effects <= v.attempts
    BY <1>2, <1>3 DEF IsVisit
  <2> HIDE DEF v, t, isHook
  <2> QED
    BY <1>2, <1>4, <2>1 DEF IsVisit
<1> HIDE DEF w
<1>8. At(pc, t, w)
  <2>1. t.retry \in Int /\ v.attempts \in Nat
    BY <1>3 DEF TaskOK, IsVisit
  <2> HIDE DEF t, v
  <2> QED
    BY <1>3, <1>7, <2>1 DEF At, OutOfAttempts, TimesAllowed
<1>9. RunSound(pc, R)
  <2>1. /\ IsSequence(ws) /\ ws # <<>> /\ Len(ws) = Len(vs)
        /\ ws[Len(vs)] = w
        /\ \A i \in 1 .. Len(vs) - 1 : ws[i] = vs[i]
    <3>1. IsSequence(vs) /\ vs # <<>>
      BY <1>3 DEF RunSound
    <3>2. ws = [vs EXCEPT ![Len(vs)] = w]
      OBVIOUS
    <3> HIDE DEF vs, ws
    <3>3. PICK S : vs \in Seq(S)
      BY <3>1 DEF IsSequence
    <3>4. ws \in Seq(S \cup {w})
      <4>1. vs \in Seq(S \cup {w}) /\ Len(vs) \in 1 .. Len(vs)
        BY <3>1, <3>3
      <4> QED
        BY <3>2, <4>1
    <3> QED
      BY <3>1, <3>2, <3>3, <3>4 DEF IsSequence
  <2> HIDE DEF ws
  <2>2. R.visits = ws /\ R.chain = run[r].chain
        /\ R = [chain |-> R.chain, visits |-> R.visits]
    OBVIOUS
  <2> HIDE DEF R
  <2>3. \A i \in 1 .. Len(ws) : IsVisit(ws[i])
    BY <1>3, <1>7, <2>1 DEF RunSound
  <2>4. \A i \in 1 .. Len(ws) : ws[i].task = vs[i].task
    BY <1>3, <1>7, <2>1 DEF CurrentVisit
  <2>5. \A i \in 1 .. Len(ws) : TaskOf(R, i) = TaskOf(run[r], i)
    BY <2>2, <2>4 DEF TaskOf
  <2>6. \A i \in 1 .. Len(ws) - 1 : Left(TaskOf(R, i), ws[i], ws[i + 1].task)
    <3> SUFFICES ASSUME NEW i \in 1 .. Len(ws) - 1
                 PROVE  Left(TaskOf(R, i), ws[i], ws[i + 1].task)
      OBVIOUS
    <3>1. i \in 1 .. Len(ws) /\ i + 1 \in 1 .. Len(ws) /\ i \in 1 .. Len(vs) - 1
      BY <1>3, <2>1
    <3>2. Left(TaskOf(run[r], i), vs[i], vs[i + 1].task)
      BY <1>3, <3>1 DEF RunSound
    <3> QED
      BY <2>1, <2>4, <2>5, <3>1, <3>2
  <2>7. TaskOf(R, Len(ws)) = t
    <3>1. TaskOf(run[r], Len(vs)) = t
      BY DEF TaskOf, CurrentTask, CurrentVisit
    <3>2. Len(ws) \in 1 .. Len(ws)
      BY <1>3, <2>1
    <3> QED
      BY <2>1, <2>5, <3>1, <3>2
  <2>8. run[r].chain \in Chains
    BY <1>3 DEF RunSound
  <2> HIDE DEF t, pc
  <2> QED
    BY <1>3, <1>8, <2>1, <2>2, <2>3, <2>6, <2>7, <2>8 DEF RunSound
<1>10. req'[r].pc = pc /\ \A s \in Requests \ {r} : req'[s] = req[s]
  BY <1>2, OwnPlace
<1>11. pc \in RunPcs
  BY DEF RunPcs
<1> HIDE DEF pc, R
<1> QED
  BY <1>6, <1>9, <1>10, <1>11, OwnRun

(* A run that goes on has left the task for one of its transitions.        *)
LEMMA TransitRun ==
  ASSUME AccountInv, RunsInv, NEW r \in Requests, Transit(r)
  PROVE  RunsInv'
<1> DEFINE t == CurrentTask(r)
           v == CurrentVisit(r)
           vs == run[r].visits
           next == NextTask(t, v)
           ws == Append(vs, Visit(next))
           R == [chain |-> run[r].chain, visits |-> ws]
<1>1. req[r].pc = "transit"
  BY DEF Transit
<1>2. /\ RunSound("transit", run[r]) /\ IsVisit(v) /\ t # None /\ TaskOK(t)
      /\ At("transit", t, v) /\ Len(vs) \in Nat \ {0}
  BY <1>1, RunFacts DEF RunPcs
<1>3. CASE EndRun(r)
  <2>1. req'[r].pc = "idle" /\ \A s \in Requests \ {r} : req'[s] = req[s]
    BY <1>3, OwnPlace DEF EndRun
  <2>2. run' = [run EXCEPT ![r] = NoRun]
    BY <1>3 DEF EndRun
  <2> QED
    BY <2>1, <2>2, OwnRun DEF RunPcs
<1>4. CASE ~EndRun(r)
  <2>1. /\ next # None
        /\ findTaskByID(run[r].chain.tasks, next) # None
        /\ run' = [run EXCEPT ![r].visits = ws]
        /\ req' = [req EXCEPT ![r].pc = "attempt"]
    BY <1>4 DEF Transit
  <2>2. Left(t, v, next)
    <3>1. CASE v.raw = None
      BY <1>2, <2>1, <3>1 DEF NextTask, At, Left
    <3>2. CASE v.raw # None
      <4>1. next = evaluateTransitions(t.next, v.raw)
        BY <2>1, <3>2 DEF NextTask
      <4>2. DOMAIN t.next \subseteq Nat
        BY <1>2 DEF TaskOK
      <4> HIDE DEF t, v, next
      <4>3. \E k \in DOMAIN t.next :
              /\ next = t.next[k].id
              /\ \/ t.next[k].value = Default
                 \/ compare(t.next[k].operator, v.raw, t.next[k].value) = "yes"
        BY <2>1, <4>1, <4>2, TransitionMatches
      <4> QED
        BY <1>2, <3>2, <4>3 DEF At, Left
    <3> QED
      BY <3>1, <3>2
  <2>3. run' = [run EXCEPT ![r] = R]
    <3>1. run[r] = [chain |-> run[r].chain, visits |-> vs]
      BY <1>2 DEF RunSound
    <3>2. [run[r] EXCEPT !.visits = ws] = R
      <4> HIDE DEF ws
      <4> QED
        BY <3>1
    <3> QED
      BY <2>1, <3>2
  <2> DEFINE w == Visit(next)
  <2>4. IsVisit(w) /\ w.task = next /\ w.attempts = 0 /\ w.raw = None
    BY DEF Visit, IsVisit
  <2> HIDE DEF w, next
  <2>5. /\ IsSequence(ws) /\ ws # <<>> /\ Len(ws) = Len(vs) + 1
        /\ ws[Len(vs) + 1] = w
        /\ \A i \in 1 .. Len(vs) : ws[i] = vs[i]
    <3>1. IsSequence(vs)
      BY <1>2 DEF RunSound
    <3>2. ws = Append(vs, w)
      BY DEF w
    <3> HIDE DEF vs, ws
    <3>3. PICK S : vs \in Seq(S)
      BY <3>1 DEF IsSequence
    <3>4. vs \in Seq(S \cup {w})
      BY <3>3
    <3>5. ws \in Seq(S \cup {w})
      BY <3>2, <3>4
    <3> QED
      BY <3>1, <3>2, <3>3, <3>4, <3>5 DEF IsSequence
  <2> HIDE DEF ws
  <2>6. R.visits = ws /\ R.chain = run[r].chain
        /\ R = [chain |-> R.chain, visits |-> R.visits]
    OBVIOUS
  <2> HIDE DEF R
  <2>7. \A i \in 1 .. Len(ws) : IsVisit(ws[i])
    BY <1>2, <2>4, <2>5 DEF RunSound
  <2>8. \A i \in 1 .. Len(vs) : TaskOf(R, i) = TaskOf(run[r], i)
    BY <2>5, <2>6 DEF TaskOf
  <2>9. \A i \in 1 .. Len(ws) - 1 : Left(TaskOf(R, i), ws[i], ws[i + 1].task)
    <3> SUFFICES ASSUME NEW i \in 1 .. Len(vs)
                 PROVE  Left(TaskOf(R, i), ws[i], ws[i + 1].task)
      BY <1>2, <2>5
    <3>1. CASE i = Len(vs)
      <4>1. TaskOf(run[r], i) = t /\ vs[i] = v
        BY <3>1 DEF TaskOf, CurrentTask, CurrentVisit
      <4> HIDE DEF t, v
      <4> QED
        BY <2>2, <2>4, <2>5, <2>8, <3>1, <4>1
    <3>2. CASE i # Len(vs)
      <4>1. i \in 1 .. Len(vs) - 1 /\ i + 1 \in 1 .. Len(vs)
        BY <1>2, <3>2
      <4>2. Left(TaskOf(run[r], i), vs[i], vs[i + 1].task)
        BY <1>2, <4>1 DEF RunSound
      <4> QED
        BY <2>5, <2>8, <4>1, <4>2
    <3> QED
      BY <3>1, <3>2
  <2>10. run[r].chain \in Chains
    BY <1>2 DEF RunSound
  <2> DEFINE u == TaskOf(R, Len(ws))
  <2>11. u = findTaskByID(run[r].chain.tasks, next)
    BY <1>2, <2>4, <2>5, <2>6 DEF TaskOf
  <2>12. u # None /\ TaskOK(u)
    BY <2>1, <2>10, <2>11, FoundTask
  <2> HIDE DEF u
  <2>13. At("attempt", u, w)
    BY <2>4, <2>12 DEF At, TimesAllowed, TaskOK
  <2>14. RunSound("attempt", R)
    BY <1>2, <2>5, <2>6, <2>7, <2>9, <2>10, <2>12, <2>13 DEF RunSound, u
  <2>15. req'[r].pc = "attempt" /\ \A s \in Requests \ {r} : req'[s] = req[s]
    BY <2>1, OwnPlace
  <2> QED
    BY <2>3, <2>14, <2>15, OwnRun DEF RunPcs
<1> QED
  BY <1>3, <1>4

LEMMA RunsInvNext ==
  ASSUME AccountInv, RunsInv, [Next]_assistantVars
  PROVE  RunsInv'
<1>1. CASE Accounting
  BY <1>1, AccountingPlaces, RunsStay DEF Accounting
<1>2. CASE Chatting
  <2>1. PICK r \in Requests : ChatRequest(r) \/ ChatStep(r)
    BY <1>2 DEF Chatting
  <2>2. /\ req[r].pc \notin RunPcs /\ req'[r].pc \notin RunPcs
        /\ \A s \in Requests \ {r} : req'[s] = req[s]
    BY <2>1, ChattingPlaces
  <2>3. run' = [run EXCEPT ![r] = run[r]]
    BY <1>2 DEF Chatting, RunsInv
  <2>4. run[r] = NoRun
    BY <2>2 DEF RunsInv
  <2> DEFINE pc == req'[r].pc
             R == run[r]
  <2> HIDE DEF pc
  <2>5. pc = req'[r].pc
    BY DEF pc
  <2> QED
    BY <2>2, <2>3, <2>4, OwnRun
<1>3. CASE Tasking
  <2>1. PICK r \in Requests : TaskRequest(r) \/ TaskStep(r)
    BY <1>3 DEF Tasking
  <2>2. ASSUME NEW by \in Users, NEW chain \in Chains, Execute(r, by, chain)
        PROVE  RunsInv'
    BY <2>2, ExecuteRun
  <2>3. ASSUME NEW by \in Users, ExecutePrompt(r, by) PROVE RunsInv'
    <3>1. /\ req[r].pc = "idle" /\ req'[r].pc = "prompt"
          /\ \A s \in Requests \ {r} : req'[s] = req[s]
      BY <2>3, BeginsRun DEF ExecutePrompt
    <3>2. run[r] = NoRun
      BY <3>1 DEF RunsInv, RunPcs
    <3>3. run' = [run EXCEPT ![r] = NoRun]
      BY <2>3, <3>2 DEF ExecutePrompt, RunsInv
    <3> QED
      BY <3>1, <3>3, OwnRun DEF RunPcs
  <2>4. CASE AnswerPrompt(r) \/ CannotAttempt(r)
    <3>1. Done(r) /\ (run' = run \/ run' = [run EXCEPT ![r] = NoRun])
          /\ (run' = run => req[r].pc = "prompt" \/ run' = [run EXCEPT ![r] = NoRun])
      BY <2>4 DEF AnswerPrompt, CannotAttempt, EndRun
    <3>2. req[r].pc = "prompt" => run[r] = NoRun
      BY DEF RunsInv, RunPcs
    <3>3. run' = [run EXCEPT ![r] = NoRun]
      BY <3>1, <3>2 DEF RunsInv
    <3>4. req'[r].pc = "idle" /\ \A s \in Requests \ {r} : req'[s] = req[s]
      BY <3>1, OwnPlace
    <3> QED
      BY <3>3, <3>4, OwnRun DEF RunPcs
  <2>5. CASE Attempt(r)
    BY <2>5, AttemptRun
  <2>6. CASE Transit(r)
    BY <2>6, TransitRun
  <2> QED
    BY <2>1, <2>2, <2>3, <2>4, <2>5, <2>6
       DEF TaskRequest, execute, tasks, TaskStep
<1>4. CASE UNCHANGED <<accountVars, run>>
  <2>1. req' = req /\ run' = run
    BY <1>4 DEF accountVars
  <2>2. \A s \in Requests :
          RunSound(req[s].pc, run[s])' <=> RunSound(req'[s].pc, run'[s])
    BY DEF RunSound, IsSequence, IsVisit, TaskOf, At, Left
  <2> QED
    BY <2>1, <2>2 DEF RunsInv
<1> QED
  BY <1>1, <1>2, <1>3, <1>4 DEF Next, Syncing, assistantVars

(* Every run of every chain leaves its tasks as VisitsExplained says.      *)
THEOREM VisitsExplainedCorrect == Spec => []VisitsExplained
<1>1. Init => RunsInv
  BY RunsInvInit
<1>2. AccountInv /\ RunsInv /\ [Next]_assistantVars => RunsInv'
  BY RunsInvNext
<1>3. RunsInv => VisitsExplained
  BY ShownByRuns
<1> QED
  BY <1>1, <1>2, <1>3, AccountInvariant, PTL DEF Spec

-----------------------------------------------------------------------------
(* The turns of chats.                                                     *)

(* What a request knows of the chat it holds a turn of, unless it has met  *)
(* another's message: all it holds is older than the turn, and from the    *)
(* reading on the conversation is the chat.                                *)
TurnSound(r) ==
  req[r].pc \in TalkPcs =>
    /\ req[r].chat \in Chats
    /\ talk[r].at \in 1 .. MaxTime
    /\ ~talk[r].met =>
         /\ \A m \in log[req[r].chat] : m.at < talk[r].at
         /\ req[r].pc # "list" => talk[r].conversation = log[req[r].chat]

TurnsInv == ChatTypeOK /\ \A r \in Requests : TurnSound(r)

TalkType == [at : 0 .. MaxTime, conversation : SUBSET Messages, met : BOOLEAN]

LEMMA NoTalkTyped == NoTalk \in TalkType
BY ChatAssumption DEF NoTalk, TalkType

LEMMA MetTalk ==
  ASSUME NEW t \in TalkType
  PROVE  [t EXCEPT !.met = TRUE]
           = [at |-> t.at, conversation |-> t.conversation, met |-> TRUE]
<1>1. t = [at |-> t.at, conversation |-> t.conversation, met |-> t.met]
  BY DEF TalkType
<1> DEFINE done == TRUE
<1> HIDE DEF done
<1>2. [t EXCEPT !.met = done]
        = [at |-> t.at, conversation |-> t.conversation, met |-> done]
  BY <1>1
<1> QED
  BY <1>2 DEF done

(* The present is later than the messages and the turns of the chat.       *)
LEMMA NowIsLater ==
  ASSUME NEW c \in Chats, TimeLeft(c)
  PROVE  /\ Now(c) \in 1 .. MaxTime
         /\ \A m \in log[c] : m.at < Now(c)
         /\ \A r \in Requests : req[r].chat = c => talk[r].at < Now(c)
<1>1. Ahead(c) \in SUBSET Nat /\ Ahead(c) # {}
  BY ChatAssumption DEF Ahead, TimeLeft
<1>2. Now(c) = Least(Ahead(c))
  BY DEF Now, Least
<1>3. Now(c) \in Ahead(c)
  BY <1>1, <1>2, LeastIn
<1> QED
  BY <1>3 DEF Ahead, Stamps

LEMMA TurnsInvInit == Init => TurnsInv
<1> SUFFICES ASSUME Init PROVE TurnsInv
  OBVIOUS
<1>1. ChatTypeOK
  BY NoTalkTyped DEF Init, ChatInit, ChatTypeOK, TalkType
<1>2. \A r \in Requests : req[r].pc = "idle"
  BY DEF Init, AccountsInit, Idle
<1> QED
  BY <1>1, <1>2 DEF TurnsInv, TurnSound, TalkPcs

(* The turns of other requests go on or end with them.                     *)
LEMMA TurnsStay ==
  ASSUME TurnsInv, PlacesKept, TalksEnd
  PROVE  TurnsInv'
<1>1. /\ chats' = chats /\ log' = log
      /\ talk' = [r \in Requests |-> IF req'[r].pc = "idle" THEN NoTalk ELSE talk[r]]
  BY DEF TalksEnd
<1>2. ChatTypeOK'
  BY <1>1, NoTalkTyped DEF TurnsInv, ChatTypeOK, TalkType
<1>3. ASSUME NEW r \in Requests PROVE TurnSound(r)'
  BY <1>1 DEF TurnsInv, TurnSound, PlacesKept, HeldPcs, TalkPcs
<1> QED
  BY <1>2, <1>3 DEF TurnsInv

(* A step of request r that stores no message.                             *)
LEMMA OwnTurn ==
  ASSUME TurnsInv, NEW r \in Requests, TurnSound(r)', log' = log,
         chats' \in [Chats -> Users \cup {None}],
         talk' \in [Requests -> TalkType],
         \A s \in Requests \ {r} : req'[s] = req[s] /\ talk'[s] = talk[s]
  PROVE  TurnsInv'
<1>1. ChatTypeOK'
  BY DEF TurnsInv, ChatTypeOK, TalkType
<1>2. ASSUME NEW s \in Requests \ {r} PROVE TurnSound(s)'
  BY <1>2 DEF TurnsInv, TurnSound
<1> QED
  BY <1>1, <1>2 DEF TurnsInv

(* A step of request r that ends with messages for the chat c.             *)
LEMMA AppendTurn ==
  ASSUME AccountInv, TurnsInv, NEW r \in Requests, NEW c \in Chats,
         NEW messages \in SUBSET Messages, AppendMessages(r, c, messages),
         chats' = chats
  PROVE  TurnsInv'
<1>1. req'[r].pc = "idle" /\ \A s \in Requests \ {r} : req'[s] = req[s]
  BY OwnPlace DEF AppendMessages
<1>2. \A d \in Chats : log'[d] = IF d = c THEN log[d] \cup messages ELSE log[d]
  BY DEF AppendMessages, TurnsInv, ChatTypeOK
<1>3. talk' = Meet(c, r)
  BY DEF AppendMessages
<1>4. \A s \in Requests :
        [talk[s] EXCEPT !.met = TRUE]
          = [at |-> talk[s].at, conversation |-> talk[s].conversation, met |-> TRUE]
  BY MetTalk DEF TurnsInv, ChatTypeOK, TalkType
<1>5. ChatTypeOK'
  <2>1. log' \in [Chats -> SUBSET Messages]
    BY DEF AppendMessages, TurnsInv, ChatTypeOK
  <2>2. talk' \in [Requests -> TalkType]
    BY <1>3, <1>4, NoTalkTyped DEF Meet, TalkType, TurnsInv, ChatTypeOK
  <2> QED
    BY <2>1, <2>2 DEF TurnsInv, ChatTypeOK, TalkType
<1>6. ASSUME NEW s \in Requests PROVE TurnSound(s)'
  <2>1. CASE s = r
    BY <1>1, <2>1 DEF TurnSound, TalkPcs
  <2>2. CASE s # r
    <3>1. TurnSound(s) /\ req'[s] = req[s]
      BY <1>1, <2>2 DEF TurnsInv
    <3>2. CASE req[s].chat = c
      <4>1. talk'[s] = [at |-> talk[s].at, conversation |-> talk[s].conversation,
                        met |-> TRUE]
        BY <1>3, <1>4, <2>2, <3>2 DEF Meet
      <4> QED
        BY <3>1, <4>1 DEF TurnSound
    <3>3. CASE req[s].chat # c
      <4>1. talk'[s] = talk[s]
        BY <1>3, <2>2, <3>3 DEF Meet
      <4> QED
        BY <1>2, <3>1, <3>3, <4>1 DEF TurnSound
    <3> QED
      BY <3>2, <3>3
  <2> QED
    BY <2>1, <2>2
<1> QED
  BY <1>5, <1>6 DEF TurnsInv

(* The question and the answer of a turn.                                  *)
LEMMA EndChatFacts ==
  ASSUME TurnsInv, NEW r \in Requests, EndChat(r)
  PROVE  LET c == req[r].chat
             question == Message("user", talk[r].at)
             answer == Message("assistant", Now(c))
         IN /\ req[r].pc = "append" /\ c \in Chats
            /\ AppendMessages(r, c, {question, answer})
            /\ question \in Messages /\ answer \in Messages
            /\ Before(question, answer)
<1> DEFINE c == req[r].chat
<1>1. req[r].pc = "append" /\ TimeLeft(c)
      /\ AppendMessages(r, c, {Message("user", talk[r].at), Message("assistant", Now(c))})
  BY DEF EndChat
<1>2. c \in Chats /\ talk[r].at \in 1 .. MaxTime
  BY <1>1 DEF TurnsInv, TurnSound, TalkPcs
<1>3. Now(c) \in 1 .. MaxTime /\ talk[r].at < Now(c)
  BY <1>1, <1>2, NowIsLater
<1> QED
  BY <1>1, <1>2, <1>3 DEF Message, Messages, Before

LEMMA ChattingTurns ==
  ASSUME AccountInv, TurnsInv, NEW r \in Requests, ChatRequest(r) \/ ChatStep(r)
  PROVE  TurnsInv'
<1>1. \A s \in Requests \ {r} : req'[s] = req[s]
  BY ChattingPlaces
<1>2. /\ chats \in [Chats -> Users \cup {None}] /\ talk \in [Requests -> TalkType]
      /\ log \in [Chats -> SUBSET Messages]
      /\ req \in [Requests -> RequestType] /\ Idle.pc = "idle"
  BY DEF TurnsInv, ChatTypeOK, TalkType, AccountInv, RequestsInv, Idle
<1>3. CASE createChat(r) \/ addInstruction(r)
  <2>1. PICK by \in Users, pc \in {"newchat", "instruct"}, c \in Chats \cup {None} :
          BeginAs(r, by, "chatservice", Manage,
                  NewRequest(pc, None, None, None, <<>>, None, c))
    <3>1. ASSUME NEW by \in Users, NewInstance(r, by)
          PROVE  BeginAs(r, by, "chatservice", Manage,
                         NewRequest("newchat", None, None, None, <<>>, None, None))
      BY <3>1, RequestsAreNew DEF NewInstance
    <3>2. ASSUME NEW by \in Users, NEW c \in Chats, AddInstruction(r, by, c)
          PROVE  BeginAs(r, by, "chatservice", Manage,
                         NewRequest("instruct", None, None, None, <<>>, None, c))
      BY <3>2, RequestsAreNew DEF AddInstruction
    <3> QED
      BY <1>3, <3>1, <3>2 DEF createChat, addInstruction
  <2>2. req'[r].pc = pc
    BY <2>1, BeginsThere
  <2>3. TurnSound(r)'
    BY <2>2 DEF TurnSound, TalkPcs
  <2>4. UNCHANGED <<chats, log, talk>>
    BY <1>3 DEF createChat, NewInstance, addInstruction, AddInstruction
  <2> QED
    BY <1>1, <1>2, <2>3, <2>4, OwnTurn
<1>4. CASE chat(r)
  <2>1. PICK by \in Users, c \in Chats : StartChat(r, by, c)
    BY <1>4 DEF chat
  <2>2. BeginAs(r, by, "chatservice", Manage,
                NewRequest("list", None, None, None, <<>>, None, c))
    BY <2>1, RequestsAreNew DEF StartChat
  <2>3. req'[r].pc = "list" /\ req'[r].chat = c
    BY <2>2, BeginsThere
  <2>4. Now(c) \in 1 .. MaxTime /\ \A m \in log[c] : m.at < Now(c)
    BY <2>1, NowIsLater DEF StartChat
  <2>5. /\ log' = log /\ chats' = chats
        /\ talk' = [talk EXCEPT ![r].at = Now(c)]
    BY <2>1 DEF StartChat
  <2>6. talk'[r].at = Now(c) /\ talk' \in [Requests -> TalkType]
        /\ \A s \in Requests \ {r} : talk'[s] = talk[s]
    BY <1>2, <2>4, <2>5 DEF TalkType
  <2>7. TurnSound(r)'
    BY <2>3, <2>4, <2>5, <2>6 DEF TurnSound
  <2> QED
    BY <1>1, <1>2, <2>5, <2>6, <2>7, OwnTurn
<1>5. ASSUME NEW c \in Chats, CreateMessageIndex(r, c) PROVE TurnsInv'
  <2>1. req'[r].pc = "idle"
    BY <1>5, OwnPlace DEF CreateMessageIndex
  <2>2. log' = log /\ talk' = talk
    BY <1>5 DEF CreateMessageIndex
  <2>3. chats' \in [Chats -> Users \cup {None}]
    BY <1>2, <1>5 DEF CreateMessageIndex, RequestType
  <2>4. TurnSound(r)'
    BY <2>1 DEF TurnSound, TalkPcs
  <2> QED
    BY <1>1, <1>2, <2>2, <2>3, <2>4, OwnTurn
<1>6. CASE ListMessages(r)
  <2> DEFINE c == req[r].chat
  <2>1. /\ req[r].pc = "list" /\ log' = log /\ chats' = chats
        /\ talk' = [talk EXCEPT ![r].conversation = log[c]]
        /\ req' = [req EXCEPT ![r].pc = "ask"]
    BY <1>6 DEF ListMessages
  <2>2. TurnSound(r) /\ c \in Chats
    BY <2>1 DEF TurnsInv, TurnSound, TalkPcs
  <2>3. talk'[r].conversation = log[c] /\ talk'[r].at = talk[r].at
        /\ talk'[r].met = talk[r].met /\ talk' \in [Requests -> TalkType]
        /\ \A s \in Requests \ {r} : talk'[s] = talk[s]
    BY <1>2, <2>1, <2>2 DEF TalkType
  <2>4. req'[r].pc = "ask" /\ req'[r].chat = c
    BY <1>2, <2>1 DEF RequestType
  <2>5. TurnSound(r)'
    BY <2>1, <2>2, <2>3, <2>4 DEF TurnSound, TalkPcs
  <2> QED
    BY <1>1, <1>2, <2>1, <2>3, <2>5, OwnTurn
<1>7. CASE AskBackend(r)
  <2>1. /\ req[r].pc = "ask" /\ UNCHANGED <<chats, log, talk>>
        /\ req' = [req EXCEPT ![r].pc = "append"]
    BY <1>7 DEF AskBackend
  <2>2. req'[r].pc = "append" /\ req'[r].chat = req[r].chat
    BY <1>2, <2>1 DEF RequestType
  <2>3. TurnSound(r)'
    BY <2>1, <2>2 DEF TurnsInv, TurnSound, TalkPcs
  <2> QED
    BY <1>1, <1>2, <2>1, <2>3, OwnTurn
<1>8. CASE EndChat(r)
  <2> DEFINE messages == {Message("user", talk[r].at),
                          Message("assistant", Now(req[r].chat))}
  <2>1. /\ req[r].chat \in Chats /\ messages \in SUBSET Messages
        /\ AppendMessages(r, req[r].chat, messages)
    BY <1>8, EndChatFacts
  <2>2. chats' = chats
    BY <1>8 DEF EndChat
  <2> HIDE DEF messages
  <2> QED
    BY <2>1, <2>2, AppendTurn
<1>9. CASE EndInstruction(r)
  <2> DEFINE c == req[r].chat
             messages == {Message("system", Now(c))}
  <2>1. /\ TimeLeft(c) /\ AppendMessages(r, c, messages) /\ chats' = chats
    BY <1>9 DEF EndInstruction
  <2>2. CASE c \in Chats
    <3>1. messages \in SUBSET Messages
      BY <2>1, <2>2, NowIsLater DEF Message, Messages
    <3> HIDE DEF messages, c
    <3> QED
      BY <2>1, <2>2, <3>1, AppendTurn
  <2>3. CASE c \notin Chats
    <3>1. log' = log
      BY <1>2, <2>1, <2>3 DEF AppendMessages
    <3>2. req'[r].pc = "idle" /\ talk' = Meet(c, r)
      BY <2>1, OwnPlace DEF AppendMessages
    <3>3. \A s \in Requests \ {r} : talk'[s] = talk[s] \/ req[s].chat \notin Chats
      BY <2>3, <3>2 DEF Meet
    <3>4. talk' \in [Requests -> TalkType]
      <4>1. \A s \in Requests :
              [talk[s] EXCEPT !.met = TRUE]
                = [at |-> talk[s].at, conversation |-> talk[s].conversation, met |-> TRUE]
        BY <1>2, MetTalk
      <4> QED
        BY <1>2, <3>2, <4>1, NoTalkTyped DEF Meet, TalkType
    <3>5. ASSUME NEW s \in Requests PROVE TurnSound(s)'
      BY <1>1, <3>1, <3>2, <3>3 DEF TurnsInv, TurnSound, TalkPcs
    <3>6. ChatTypeOK'
      BY <1>2, <2>1, <3>1, <3>4 DEF ChatTypeOK, TalkType
    <3> QED
      BY <3>5, <3>6 DEF TurnsInv
  <2> QED
    BY <2>2, <2>3
<1> QED
  BY <1>3, <1>4, <1>5, <1>6, <1>7, <1>8, <1>9 DEF ChatRequest, ChatStep

(* A request of the task engine holds no turn and makes no token.          *)
LEMMA TaskingPlaces ==
  ASSUME AccountInv, Tasking
  PROVE  \E r \in Requests :
           /\ req'[r].pc \notin TalkPcs \cup {"login", "grant"}
           /\ \A s \in Requests \ {r} : req'[s] = req[s]
<1>1. PICK r \in Requests : TaskRequest(r) \/ TaskStep(r)
  BY DEF Tasking
<1>2. ASSUME NEW by \in Users, NEW chain \in Chains, Execute(r, by, chain)
      PROVE  req'[r].pc = "attempt" /\ \A s \in Requests \ {r} : req'[s] = req[s]
  BY <1>2, BeginsRun DEF Execute
<1>3. ASSUME NEW by \in Users, ExecutePrompt(r, by)
      PROVE  req'[r].pc = "prompt" /\ \A s \in Requests \ {r} : req'[s] = req[s]
  BY <1>3, BeginsRun DEF ExecutePrompt
<1>4. ASSUME TaskStep(r)
      PROVE  \E pc \in {"idle", "transit", "attempt"} :
               req'[r].pc = pc /\ \A s \in Requests \ {r} : req'[s] = req[s]
  <2>1. CASE AnswerPrompt(r) \/ CannotAttempt(r)
    BY <2>1, OwnPlace DEF AnswerPrompt, CannotAttempt, EndRun
  <2>2. CASE Attempt(r)
    <3>1. PICK raw, n \in BOOLEAN :
            req' = [req EXCEPT ![r].pc = IF n THEN "transit" ELSE "attempt"]
      BY <2>2, Zenon DEF Attempt
    <3> QED
      BY <3>1, OwnPlace
  <2>3. CASE Transit(r)
    <3>1. Done(r) \/ req' = [req EXCEPT ![r].pc = "attempt"]
      BY <2>3 DEF Transit, EndRun
    <3> QED
      BY <3>1, OwnPlace
  <2> QED
    BY <1>4, <2>1, <2>2, <2>3 DEF TaskStep
<1> QED
  BY <1>1, <1>2, <1>3, <1>4 DEF TaskRequest, execute, tasks, TalkPcs

LEMMA TaskingTurns ==
  ASSUME AccountInv, TurnsInv, Tasking
  PROVE  TurnsInv'
<1>1. PICK r \in Requests :
        req'[r].pc \notin TalkPcs /\ \A s \in Requests \ {r} : req'[s] = req[s]
  BY TaskingPlaces
<1>2. UNCHANGED <<chats, log, talk>>
  BY DEF Tasking, chatVars
<1>3. TurnSound(r)'
  BY <1>1 DEF TurnSound
<1>4. chats \in [Chats -> Users \cup {None}] /\ talk \in [Requests -> TalkType]
  BY DEF TurnsInv, ChatTypeOK, TalkType
<1> QED
  BY <1>1, <1>2, <1>3, <1>4, OwnTurn

LEMMA TurnsInvNext ==
  ASSUME AccountInv, TurnsInv, [Next]_assistantVars
  PROVE  TurnsInv'
<1>1. CASE Accounting
  BY <1>1, AccountingPlaces, TurnsStay DEF Accounting
<1>2. CASE Chatting
  BY <1>2, ChattingTurns DEF Chatting
<1>3. CASE Tasking
  BY <1>3, TaskingTurns
<1>4. CASE UNCHANGED <<accountVars, chatVars>>
  BY <1>4 DEF accountVars, chatVars, TurnsInv, TurnSound, ChatTypeOK
<1> QED
  BY <1>1, <1>2, <1>3, <1>4 DEF Next, Syncing, assistantVars

(* Every turn that nobody met stores its question and answer in order.     *)
LEMMA OrderStep ==
  ASSUME AccountInv, TurnsInv, [Next]_assistantVars,
         NEW r \in Requests, NEW c \in Chats,
         req[r].chat = c, req[r].pc = "append", req'[r].pc = "idle",
         log'[c] # log[c], ~talk[r].met
  PROVE  \E question, answer \in log'[c] :
           /\ log'[c] = talk[r].conversation \cup {question, answer}
           /\ question.role = "user" /\ answer.role = "assistant"
           /\ \A m \in talk[r].conversation : Before(m, question)
           /\ Before(question, answer)
<1>1. log' # log
  OBVIOUS
<1>2. PICK q \in Requests : ChatRequest(q) \/ ChatStep(q)
  BY <1>1 DEF Next, Accounting, TalksEnd, Chatting, Tasking, Syncing, chatVars,
              assistantVars
<1>3. q = r
  BY <1>2, ChattingPlaces
<1>4. EndChat(r)
  <2>1. EndChat(r) \/ EndInstruction(r)
    BY <1>1, <1>2, <1>3
       DEF ChatRequest, createChat, NewInstance, addInstruction, AddInstruction, chat,
           StartChat, ChatStep, CreateMessageIndex, ListMessages, AskBackend
  <2> QED
    BY <2>1 DEF EndInstruction
<1> DEFINE question == Message("user", talk[r].at)
           answer == Message("assistant", Now(c))
<1>5. AppendMessages(r, c, {question, answer}) /\ Before(question, answer)
  BY <1>4, EndChatFacts
<1>6. log'[c] = log[c] \cup {question, answer}
  BY <1>5 DEF AppendMessages, TurnsInv, ChatTypeOK
<1>7. talk[r].conversation = log[c] /\ \A m \in log[c] : m.at < talk[r].at
  BY DEF TurnsInv, TurnSound, TalkPcs
<1>8. question.role = "user" /\ question.at = talk[r].at /\ answer.role = "assistant"
  BY DEF Message
<1>9. \A m \in talk[r].conversation : Before(m, question)
  BY <1>7, <1>8 DEF Before
<1>10. question \in log'[c] /\ answer \in log'[c]
  BY <1>6
<1> HIDE DEF question, answer
<1> QED
  BY <1>5, <1>6, <1>7, <1>8, <1>9, <1>10

LEMMA TurnsInvariant == Spec => []TurnsInv
<1>1. Init => TurnsInv
  BY TurnsInvInit
<1>2. AccountInv /\ TurnsInv /\ [Next]_assistantVars => TurnsInv'
  BY TurnsInvNext
<1> QED
  BY <1>1, <1>2, AccountInvariant, PTL DEF Spec

(* The tables, the tokens, the turns and the histories have their types.   *)
THEOREM AssistantTyped == Spec => []TypeOK
<1>1. AccountInv /\ TurnsInv => TypeOK
  BY DEF AccountInv, TablesInv, TurnsInv, TypeOK
<1> QED
  BY <1>1, AccountInvariant, TurnsInvariant, PTL

(* In every chat, a turn that nobody met stores its question after what it *)
(* read and its answer after the question.                                 *)
THEOREM AnswersInOrderCorrect == Spec => AnswersInOrder
<1>1. AccountInv /\ TurnsInv /\ [Next]_assistantVars =>
        [\A r \in Requests, c \in Chats :
           /\ req[r].chat = c /\ req[r].pc = "append" /\ req'[r].pc = "idle"
           /\ log'[c] # log[c] /\ ~talk[r].met
           => \E question, answer \in log'[c] :
                /\ log'[c] = talk[r].conversation \cup {question, answer}
                /\ question.role = "user" /\ answer.role = "assistant"
                /\ \A m \in talk[r].conversation : Before(m, question)
                /\ Before(question, answer)]_log
  BY OrderStep
<1> QED
  BY <1>1, AccountInvariant, TurnsInvariant, PTL DEF Spec, AnswersInOrder

-----------------------------------------------------------------------------
(* The users that entries, chats and tokens are of.                        *)

(* A request that is going to make a token of its user.                    *)
LogsIn(q) == q.pc = "login" \/ (q.pc = "grant" /\ q.by = None)

UsersInv ==
  /\ UsersExist
  /\ \A r \in Requests : LogsIn(req[r]) => users[req[r].user] # None

(* Users that are there stay.                                              *)
UsersKept == \A u \in Users : users[u] # None => users'[u] # None

(* A request that is to make a token was to make it already, or is of a    *)
(* user that is there.                                                     *)
LoginsKept ==
  \A r \in Requests : LogsIn(req'[r]) =>
    \/ LogsIn(req[r]) /\ req'[r].user = req[r].user
    \/ users'[req'[r].user] # None

LEMMA UsersInvInit == Init => UsersInv
BY DEF Init, AccountsInit, ChatInit, UsersInv, UsersExist, LogsIn, Idle

(* A deletion finds no entry that its own cascade has left, and is rolled  *)
(* back.                                                                   *)
LEMMA NobodyIsDeleted ==
  ASSUME AccountInv, NEW r \in Requests, DeleteAccessEntriesByIdentity(r)
  PROVE  UNCHANGED <<users, entries, token>>
<1> DEFINE u == req[r].user
           left == {e \in EntryIds :
                      CascadedFrom(u)[e] # None /\ CascadedFrom(u)[e].identity = u}
<1>1. left = {}
  BY DEF CascadedFrom, EntryIdsOf
<1> QED
  BY <1>1 DEF DeleteAccessEntriesByIdentity

LEMMA AccountUsersKept ==
  ASSUME AccountInv, AccountsNext
  PROVE  UsersKept
<1>1. users \in [Users -> Rows \cup {None}] /\ None \notin Rows
  BY NoneIsNoRow DEF AccountInv, TablesInv, AccountsTypeOK
<1>2. ASSUME NEW u \in Users, NEW row \in Rows, users' = [users EXCEPT ![u] = row]
      PROVE  UsersKept
  BY <1>1, <1>2 DEF UsersKept
<1>3. ASSUME users' = users PROVE UsersKept
  BY <1>3 DEF UsersKept
<1>4. CASE Start
  <2>1. users' = users \/ users' = [users EXCEPT ![Worker] = WorkerRow]
    BY <1>4, StartIsOneOf, InitCredentialsWrites
  <2>2. Worker \in Users /\ WorkerRow \in Rows
    BY WorkerTyped
  <2> QED
    BY <1>2, <1>3, <2>1, <2>2
<1>5. ASSUME NEW r \in Requests, UpdateUser(r) PROVE UsersKept
  <2>1. users' = users \/ users' = [users EXCEPT ![req[r].user] = req[r].row]
    BY <1>5 DEF UpdateUser
  <2>2. req[r].user \in Users /\ req[r].row \in Rows
    BY <1>5, RequestFacts DEF UpdateUser, Sound, AccountPcs, Merged
  <2> QED
    BY <1>2, <1>3, <2>1, <2>2
<1>6. ASSUME NEW r \in Requests, AccountStep(r), ~UpdateUser(r) PROVE users' = users
  BY <1>6, NobodyIsDeleted
     DEF AccountStep, CreateAuthToken, Granted, RequestFails, CreateAccessEntry,
         UpdateAccessEntry, DeleteAccessEntry, updateUser
<1>7. ASSUME NEW r \in Requests, AccountRequest(r) PROVE UsersKept
  <2>1. ASSUME NEW u \in Users, NEW row \in Forms, InsertUser(u, row)
        PROVE  UsersKept
    BY <1>2, <2>1, AccountsAssumption DEF InsertUser
  <2>2. CASE register(r) \/ createUser(r)
    BY <2>1, <2>2 DEF register, Register, createUser, CreateUser
  <2>3. CASE ~(register(r) \/ createUser(r))
    <3>1. users' = users
      BY <1>7, <2>3
         DEF AccountRequest, login, Login, update, UpdateUserFields, delete, DeleteUser,
             createEntry, CreateEntry, updateEntry, UpdateEntry, deleteEntry, DeleteEntry
    <3> QED
      BY <1>3, <3>1
  <2> QED
    BY <2>2, <2>3
<1> QED
  BY <1>3, <1>4, <1>5, <1>6, <1>7
     DEF AccountsNext, Crash, jwtRefresh, RefreshToken, logout, Logout, TokenAges

(* Entries and tokens are made for users that are there.                   *)
LEMMA AccountUsersExist ==
  ASSUME AccountInv, UsersInv, AccountsNext
  PROVE  /\ \A e \in EntryIds : entries'[e] # None => users'[entries'[e].identity] # None
         /\ \A u \in Users : token'[u] # None => users'[u] # None
<1> DEFINE EntriesOwned ==
             \A e \in EntryIds : entries'[e] # None => users'[entries'[e].identity] # None
           TokensOwned == \A u \in Users : token'[u] # None => users'[u] # None
<1>1. UsersKept
  BY AccountUsersKept
<1>2. \A e \in EntryIds : entries[e] # None => entries[e].identity \in Users
  BY DEF AccountInv, TablesInv, AccessEntries
<1>3. ASSUME entries' = entries PROVE EntriesOwned
  BY <1>1, <1>2, <1>3 DEF UsersKept, UsersInv, UsersExist
<1>4. ASSUME NEW u \in Users, users[u] # None \/ users'[u] # None,
             NEW e \in EntryIds, NEW g, entries' = [entries EXCEPT ![e] = Entry(u, g)]
      PROVE  EntriesOwned
  <2>1. Entry(u, g).identity = u
    BY DEF Entry
  <2>2. \A d \in EntryIds : entries'[d] = IF d = e THEN Entry(u, g) ELSE entries[d]
    BY <1>4 DEF AccountInv, TablesInv
  <2> QED
    BY <1>1, <1>2, <1>4, <2>1, <2>2 DEF UsersKept, UsersInv, UsersExist
<1>5. ASSUME token' = token PROVE TokensOwned
  BY <1>1, <1>5 DEF UsersKept, UsersInv, UsersExist
<1>6. ASSUME NEW u \in Users, users[u] # None, NEW t, token' = [token EXCEPT ![u] = t]
      PROVE  TokensOwned
  <2>1. \A v \in Users : token'[v] = IF v = u THEN t ELSE token[v]
    BY <1>6 DEF AccountInv, TablesInv, AccountsTypeOK
  <2> QED
    BY <1>1, <1>6, <2>1 DEF UsersKept, UsersInv, UsersExist
<1>7. CASE Start
  <2>1. token' = token
    BY <1>7, StartIsOneOf
  <2>2. CASE entries' = entries
    BY <1>3, <1>5, <2>1, <2>2
  <2>3. CASE entries' # entries
    <3>1. /\ users' = [users EXCEPT ![Worker] = WorkerRow]
          /\ entries' = [entries EXCEPT ![ServerEntry] = ServerGrant,
                                        ![FilesEntry] = FilesGrant]
      BY <1>7, <2>3, StartIsOneOf, InitCredentialsWrites
    <3>2. ServerGrant.identity = Worker /\ FilesGrant.identity = Worker
      BY DEF ServerGrant, FilesGrant, Entry
    <3>3. users'[Worker] # None
      BY <3>1, WorkerTyped, NoneIsNoRow DEF AccountInv, TablesInv, AccountsTypeOK
    <3>4. \A e \in EntryIds : entries'[e] \in {ServerGrant, FilesGrant, entries[e]}
      BY <3>1 DEF AccountInv, TablesInv
    <3>5. EntriesOwned
      BY <1>1, <1>2, <3>2, <3>3, <3>4 DEF UsersKept, UsersInv, UsersExist
    <3> QED
      BY <1>5, <2>1, <3>5
  <2> QED
    BY <2>2, <2>3
<1>8. ASSUME NEW r \in Requests, AccountStep(r) PROVE EntriesOwned /\ TokensOwned
  <2>1. CASE CreateAuthToken(r)
    <3>1. req[r].user \in Users /\ users[req[r].user] # None
      BY <2>1, RequestFacts DEF CreateAuthToken, Sound, AccountPcs, UsersInv, LogsIn
    <3> QED
      BY <1>3, <1>6, <2>1, <3>1 DEF CreateAuthToken
  <2>2. ASSUME NEW e \in EntryIds, CreateAccessEntry(r, e) PROVE EntriesOwned /\ TokensOwned
    <3>1. req[r].user \in Users
      BY <2>2, RequestFacts DEF CreateAccessEntry, Sound, AccountPcs
    <3>2. CASE users[req[r].user] = None
      BY <1>3, <1>5, <2>2, <3>2 DEF CreateAccessEntry
    <3>3. CASE users[req[r].user] # None
      BY <1>4, <1>5, <2>2, <3>1, <3>3 DEF CreateAccessEntry
    <3> QED
      BY <3>2, <3>3
  <2>3. CASE UpdateAccessEntry(r)
    <3>1. req[r].user \in Users /\ req[r].entry \in EntryIds
      BY <2>3, RequestFacts DEF UpdateAccessEntry, Sound, AccountPcs
    <3>2. CASE entries' = entries
      BY <1>3, <1>5, <2>3, <3>2 DEF UpdateAccessEntry
    <3>3. CASE entries' # entries
      BY <1>4, <1>5, <2>3, <3>1, <3>3 DEF UpdateAccessEntry
    <3> QED
      BY <3>2, <3>3
  <2>4. CASE DeleteAccessEntry(r)
    <3>1. token' = token /\ \A e \in EntryIds : entries'[e] \in {None, entries[e]}
      BY <2>4 DEF DeleteAccessEntry, AccountInv, TablesInv
    <3> QED
      BY <1>1, <1>2, <1>5, <3>1 DEF UsersKept, UsersInv, UsersExist
  <2>5. CASE Granted(r) \/ RequestFails(r) \/ updateUser(r) \/ UpdateUser(r)
    BY <1>3, <1>5, <2>5 DEF Granted, RequestFails, updateUser, UpdateUser
  <2>6. CASE DeleteAccessEntriesByIdentity(r)
    BY <1>3, <1>5, <2>6, NobodyIsDeleted
  <2> QED
    BY <1>8, <2>1, <2>2, <2>3, <2>4, <2>5, <2>6 DEF AccountStep
<1>9. ASSUME NEW r \in Requests, AccountRequest(r) PROVE entries' = entries /\ token' = token
  BY <1>9
     DEF AccountRequest, login, Login, register, Register, createUser, CreateUser,
         InsertUser, update, UpdateUserFields, delete, DeleteUser, createEntry,
         CreateEntry, updateEntry, UpdateEntry, deleteEntry, DeleteEntry
<1>10. ASSUME NEW u \in Users, RefreshToken(u) \/ Logout(u) \/ TokenAges(u)
       PROVE  EntriesOwned /\ TokensOwned
  <2>1. token[u] # None /\ entries' = entries
        /\ \E t : token' = [token EXCEPT ![u] = t]
    BY <1>10 DEF RefreshToken, ValidateToken, Logout, TokenAges
  <2> QED
    BY <1>3, <1>6, <2>1 DEF UsersInv, UsersExist
<1> QED
  BY <1>3, <1>5, <1>7, <1>8, <1>9, <1>10 DEF AccountsNext, Crash, jwtRefresh, logout

(* Who is to log in: a user found by its email, a user just registered, or *)
(* one that was to log in before.                                          *)
LEMMA LoginStays ==
  ASSUME AccountInv, NEW r \in Requests, NEW q, req' = [req EXCEPT ![r] = q],
         LogsIn(q) => \/ LogsIn(req[r]) /\ q.user = req[r].user
                      \/ users'[q.user] # None
  PROVE  LoginsKept
<1>1. \A s \in Requests : req'[s] = IF s = r THEN q ELSE req[s]
  BY DEF AccountInv, RequestsInv
<1> QED
  BY <1>1 DEF LoginsKept

LEMMA DoneLogin ==
  ASSUME AccountInv, NEW r \in Requests, Done(r)
  PROVE  LoginsKept
<1>1. ~LogsIn(Idle)
  BY DEF LogsIn, Idle
<1> QED
  BY <1>1, LoginStays DEF Done

(* A request that carries a token makes none.                              *)
LEMMA BeginsLogin ==
  ASSUME AccountInv, NEW r \in Requests, NEW by \in Users, NEW service, NEW permission,
         NEW pc, NEW user, NEW row, NEW change, NEW todo, NEW entry, NEW chatOf,
         pc # "login",
         BeginAs(r, by, service, permission,
                 NewRequest(pc, user, row, change, todo, entry, chatOf))
  PROVE  LoginsKept
<1> DEFINE request == NewRequest(pc, user, row, change, todo, entry, chatOf)
           a == [request EXCEPT !.by = by]
           n == Grant(service, permission)
           q == [a EXCEPT !.need = n]
<1>1. req' = [req EXCEPT ![r] = q]
  BY DEF BeginAs
<1>2. a = [pc |-> pc, by |-> by, need |-> None, user |-> user, row |-> row,
           change |-> change, todo |-> todo, entry |-> entry, chat |-> chatOf]
  BY DEF NewRequest
<1> HIDE DEF a, n
<1>3. q.pc = pc /\ q.by = by
  BY <1>2
<1>4. by # None
  BY AccountsAssumption
<1> HIDE DEF q
<1> QED
  BY <1>1, <1>3, <1>4, LoginStays DEF LogsIn

LEMMA AccountRequestLogins ==
  ASSUME AccountInv, NEW r \in Requests, AccountRequest(r)
  PROVE  LoginsKept
<1>1. CASE login(r)
  <2>1. PICK u \in Users :
          /\ users[u] # None /\ users' = users
          /\ req' = [req EXCEPT ![r] = [Idle EXCEPT !.pc = "login", !.user = u]]
    BY <1>1 DEF login, Login, GetUserByEmail
  <2> DEFINE q == [Idle EXCEPT !.pc = "login", !.user = u]
  <2>2. q.user = u
    BY RequestsAreNew DEF NewRequest
  <2> HIDE DEF q
  <2> QED
    BY <2>1, <2>2, LoginStays DEF q
<1>2. CASE register(r)
  <2>1. PICK u \in Users, row \in Forms : Register(r, u, row)
    BY <1>2 DEF register
  <2> DEFINE todo == <<RegistrationGrant(row.email)>>
             q == Granting(u, todo)
  <2>2. q.user = u
    BY RequestsAreNew DEF Granting, NewRequest
  <2>3. users'[u] = row /\ row # None
    BY <2>1, NoneIsNoRow, AccountsAssumption
       DEF Register, InsertUser, AccountInv, TablesInv, AccountsTypeOK
  <2>4. req' = [req EXCEPT ![r] = q]
    BY <2>1 DEF Register
  <2> HIDE DEF q
  <2> QED
    BY <2>2, <2>3, <2>4, LoginStays
<1>3. ASSUME NEW by \in Users, NEW u \in Users, NEW service, NEW todo,
             BeginAs(r, by, service, Manage, Granting(u, todo))
      PROVE  LoginsKept
  <2>1. Granting(u, todo) = NewRequest("grant", u, None, None, todo, None, None)
    BY RequestsAreNew DEF Granting
  <2> QED
    BY <1>3, <2>1, BeginsLogin
<1>4. CASE createUser(r)
  BY <1>3, <1>4 DEF createUser, CreateUser
<1>5. CASE createEntry(r)
  BY <1>3, <1>5 DEF createEntry, CreateEntry
<1>6. CASE update(r)
  <2>1. PICK by \in Users, u \in Users, c \in Changes : UpdateUserFields(r, by, u, c)
    BY <1>6 DEF update
  <2> DEFINE row == Override(GetUserByID(u), c)
  <2>2. BeginAs(r, by, "userservice", Manage,
                NewRequest("merge", u, row, c, <<>>, None, None))
    BY <2>1, MergeIsNew DEF UpdateUserFields
  <2> HIDE DEF row
  <2> QED
    BY <2>2, BeginsLogin
<1>7. CASE delete(r)
  <2>1. PICK by \in Users, u \in Users : DeleteUser(r, by, u)
    BY <1>7 DEF delete
  <2>2. BeginAs(r, by, "userservice", Manage,
                NewRequest("deleteEntries", u, None, None, <<>>, None, None))
    BY <2>1, RequestsAreNew DEF DeleteUser
  <2> QED
    BY <2>2, BeginsLogin
<1>8. CASE updateEntry(r)
  <2>1. PICK by \in Users, u \in Users, e \in EntryIds, g \in Grants :
          UpdateEntry(r, by, e, u, g)
    BY <1>8 DEF updateEntry
  <2> DEFINE todo == <<g>>
  <2>2. BeginAs(r, by, "accessservice", Manage,
                NewRequest("regrant", u, None, None, todo, e, None))
    BY <2>1, RegrantIsNew DEF UpdateEntry
  <2> HIDE DEF todo
  <2> QED
    BY <2>2, BeginsLogin
<1>9. CASE deleteEntry(r)
  <2>1. PICK by \in Users, e \in EntryIds : DeleteEntry(r, by, e)
    BY <1>9 DEF deleteEntry
  <2>2. BeginAs(r, by, "accessservice", Manage,
                NewRequest("revoke", None, None, None, <<>>, e, None))
    BY <2>1, RequestsAreNew DEF DeleteEntry
  <2> QED
    BY <2>2, BeginsLogin
<1> QED
  BY <1>1, <1>2, <1>4, <1>5, <1>6, <1>7, <1>8, <1>9 DEF AccountRequest

LEMMA AccountStepLogins ==
  ASSUME AccountInv, NEW r \in Requests, AccountStep(r)
  PROVE  LoginsKept
<1>1. CASE Done(r)
  BY <1>1, DoneLogin
<1>2. CASE Granted(r)
  <2>1. CASE req[r].by = None
    <3> DEFINE q == [Idle EXCEPT !.pc = "login", !.user = req[r].user]
    <3>1. q.user = req[r].user
      BY RequestsAreNew DEF NewRequest
    <3>2. req' = [req EXCEPT ![r] = q] /\ LogsIn(req[r])
      BY <1>2, <2>1 DEF Granted, LogsIn
    <3> HIDE DEF q
    <3> QED
      BY <3>1, <3>2, LoginStays
  <2>2. CASE req[r].by # None
    <3> DEFINE q == [Idle EXCEPT !.pc = "idle", !.user = None]
    <3>1. q.pc = "idle"
      BY RequestsAreNew DEF NewRequest
    <3>2. req' = [req EXCEPT ![r] = q]
      BY <1>2, <2>2 DEF Granted
    <3> HIDE DEF q
    <3> QED
      BY <3>1, <3>2, LoginStays DEF LogsIn
  <2> QED
    BY <2>1, <2>2
<1>3. CASE updateUser(r)
  <2> DEFINE q == [req[r] EXCEPT !.pc = "write",
                                 !.row = Override(GetUserByID(req[r].user), req[r].row)]
  <2>1. req' = [req EXCEPT ![r] = q]
    BY <1>3 DEF updateUser, AccountInv, RequestsInv
  <2>2. q.pc = "write"
    BY RequestFacts DEF RequestType
  <2> HIDE DEF q
  <2> QED
    BY <2>1, <2>2, LoginStays DEF LogsIn
<1>4. ASSUME NEW e \in EntryIds, CreateAccessEntry(r, e), ~Done(r)
      PROVE  LoginsKept
  <2> DEFINE q == [req[r] EXCEPT !.todo = Tail(req[r].todo)]
  <2>1. req' = [req EXCEPT ![r] = q]
    BY <1>4 DEF CreateAccessEntry, AccountInv, RequestsInv
  <2>2. q.pc = req[r].pc /\ q.by = req[r].by /\ q.user = req[r].user
    BY RequestFacts DEF RequestType
  <2> HIDE DEF q
  <2> QED
    BY <2>1, <2>2, LoginStays DEF LogsIn
<1> QED
  BY <1>1, <1>2, <1>3, <1>4
     DEF AccountStep, CreateAuthToken, RequestFails, UpdateAccessEntry,
         DeleteAccessEntry, UpdateUser, DeleteAccessEntriesByIdentity

LEMMA AccountLogins ==
  ASSUME AccountInv, AccountsNext
  PROVE  LoginsKept
<1>1. ASSUME req' = req PROVE LoginsKept
  BY <1>1 DEF LoginsKept
<1>2. CASE Crash
  BY <1>2 DEF Crash, LoginsKept, LogsIn, Idle
<1> QED
  BY <1>1, <1>2, StartIsOneOf, AccountRequestLogins, AccountStepLogins
     DEF AccountsNext, jwtRefresh, RefreshToken, logout, Logout, TokenAges

(* A request of another service makes no token.                            *)
LEMMA OtherLogins ==
  ASSUME AccountInv, NEW r \in Requests, req'[r].pc \notin {"login", "grant"},
         \A s \in Requests \ {r} : req'[s] = req[s]
  PROVE  LoginsKept
BY DEF LoginsKept, LogsIn

LEMMA UsersInvNext ==
  ASSUME AccountInv, TurnsInv, UsersInv, [Next]_assistantVars
  PROVE  UsersInv' /\ UsersKept
<1>1. \A r \in Requests : LogsIn(req[r]) => req[r].user \in Users
  BY DEF AccountInv, RequestsInv, Sound, LogsIn, AccountPcs
<1>2. \A c \in Chats : chats[c] # None => chats[c] \in Users
  BY DEF TurnsInv, ChatTypeOK
<1>3. \A e \in EntryIds : entries[e] # None => entries[e].identity \in Users
  BY DEF AccountInv, TablesInv, AccessEntries
<1>4. ASSUME UsersKept, LoginsKept,
             \A e \in EntryIds : entries'[e] # None => users'[entries'[e].identity] # None,
             \A u \in Users : token'[u] # None => users'[u] # None,
             \A c \in Chats : chats'[c] # None => users'[chats'[c]] # None
      PROVE  UsersInv' /\ UsersKept
  <2>1. UsersExist'
    BY <1>4 DEF UsersExist
  <2>2. ASSUME NEW r \in Requests, LogsIn(req'[r]) PROVE users'[req'[r].user] # None
    BY <1>1, <1>4, <2>2 DEF LoginsKept, UsersKept, UsersInv
  <2>3. \A r \in Requests : LogsIn(req[r])' <=> LogsIn(req'[r])
    BY DEF LogsIn
  <2> QED
    BY <1>4, <2>1, <2>2, <2>3 DEF UsersInv
<1>5. CASE Accounting
  <2>1. AccountsNext /\ chats' = chats
    BY <1>5 DEF Accounting, TalksEnd
  <2>2. UsersKept /\ LoginsKept
    BY <2>1, AccountUsersKept, AccountLogins
  <2>3. \A c \in Chats : chats'[c] # None => users'[chats'[c]] # None
    BY <1>2, <2>1, <2>2 DEF UsersKept, UsersInv, UsersExist
  <2> QED
    BY <1>4, <2>1, <2>2, <2>3, AccountUsersExist
<1>6. ASSUME UNCHANGED <<users, entries, token>>, LoginsKept,
             \A c \in Chats : chats'[c] = chats[c] \/ users[chats'[c]] # None
      PROVE  UsersInv' /\ UsersKept
  BY <1>2, <1>3, <1>4, <1>6 DEF UsersKept, UsersInv, UsersExist
<1>7. CASE Chatting
  <2>1. PICK r \in Requests : ChatRequest(r) \/ ChatStep(r)
    BY <1>7 DEF Chatting
  <2>2. req'[r].pc \notin {"login", "grant"}
        /\ \A s \in Requests \ {r} : req'[s] = req[s]
    <3>1. CASE ChatRequest(r)
      BY <3>1, ChatBegins, BeginsThere
    <3>2. CASE ChatStep(r)
      <4>1. \/ Done(r)
            \/ \E pc \in {"ask", "append"} : req' = [req EXCEPT ![r].pc = pc]
        BY <3>2 DEF ChatStep, CreateMessageIndex, ListMessages, AskBackend, EndChat,
                    EndInstruction, AppendMessages
      <4> QED
        BY <4>1, OwnPlace
    <3> QED
      BY <2>1, <3>1, <3>2
  <2>3. UNCHANGED <<users, entries, token>>
    BY <2>1 DEF ChatRequest, createChat, NewInstance, addInstruction, AddInstruction,
                chat, StartChat, ChatStep, CreateMessageIndex, ListMessages, AskBackend,
                EndChat, EndInstruction, restVars
  <2>4. \A c \in Chats : chats'[c] = chats[c] \/ users[chats'[c]] # None
    <3>1. ASSUME NEW c \in Chats, CreateMessageIndex(r, c)
          PROVE  \A d \in Chats : chats'[d] = chats[d] \/ users[chats'[d]] # None
      BY <3>1 DEF CreateMessageIndex, TurnsInv, ChatTypeOK
    <3>2. (\E c \in Chats : CreateMessageIndex(r, c)) \/ chats' = chats
      BY <2>1 DEF ChatRequest, createChat, NewInstance, addInstruction, AddInstruction,
                  chat, StartChat, ChatStep, ListMessages, AskBackend, EndChat,
                  EndInstruction
    <3> QED
      BY <3>1, <3>2
  <2> QED
    BY <1>6, <2>2, <2>3, <2>4, OtherLogins
<1>8. CASE Tasking
  <2>1. PICK r \in Requests :
          /\ req'[r].pc \notin TalkPcs \cup {"login", "grant"}
          /\ \A s \in Requests \ {r} : req'[s] = req[s]
    BY <1>8, TaskingPlaces
  <2>2. UNCHANGED <<users, entries, token, chats>>
    <3>1. PICK r2 \in Requests : TaskRequest(r2) \/ TaskStep(r2)
      BY <1>8 DEF Tasking
    <3>2. UNCHANGED <<users, entries, token>>
      BY <3>1 DEF TaskRequest, execute, Execute, tasks, ExecutePrompt, TaskStep,
                  AnswerPrompt, CannotAttempt, Attempt, Transit, EndRun, aroundVars
    <3> QED
      BY <1>8, <3>2 DEF Tasking, chatVars
  <2> QED
    BY <1>6, <2>1, <2>2, OtherLogins
<1>9. CASE UNCHANGED <<accountVars, chats>>
  <2>1. LoginsKept /\ UNCHANGED <<users, entries, token, chats>>
    BY <1>9 DEF accountVars, LoginsKept
  <2> QED
    BY <1>6, <2>1
<1> QED
  BY <1>5, <1>7, <1>8, <1>9 DEF Next, Syncing, assistantVars, chatVars

(* Nobody who has a row ever loses it, whatever deletions are asked for.   *)
THEOREM UsersStay == Spec => [][UsersKept]_assistantVars
<1>1. AccountInv /\ TurnsInv /\ [Next]_assistantVars => (UsersInv => UsersInv' /\ UsersKept)
  BY UsersInvNext
<1> QED
  BY <1>1, UsersInvInit, AccountInvariant, TurnsInvariant, PTL DEF Spec

(* Entries, chats and tokens are always of users that exist.               *)
THEOREM UsersExistCorrect == Spec => []UsersExist
<1>1. AccountInv /\ TurnsInv /\ UsersInv /\ [Next]_assistantVars => UsersInv'
  BY UsersInvNext
<1>2. UsersInv => UsersExist
  BY DEF UsersInv
<1> QED
  BY <1>1, <1>2, UsersInvInit, AccountInvariant, TurnsInvariant, PTL DEF Spec

(* The worker is there when the first of the two transactions of a start   *)
(* that make its account is over.                                          *)
WorkerIsThere == server \in {"embedder", "up"} => users[Worker] # None

LEMMA WorkerIsMade ==
  ASSUME AccountInv, UsersInv, InitCredentials, UsersKept
  PROVE  users'[Worker] # None
<1>1. Worker \in Users
  BY WorkerTyped
<1>2. CASE EntryIdsOf(Worker) # {}
  <2>1. users[Worker] # None
    BY <1>2 DEF EntryIdsOf, UsersInv, UsersExist
  <2> QED
    BY <1>1, <2>1 DEF UsersKept
<1>3. CASE EntryIdsOf(Worker) = {}
  <2>1. users' = [users EXCEPT ![Worker] = WorkerRow]
    BY <1>3, InitCredentialsWrites
  <2> QED
    BY <2>1, WorkerTyped, NoneIsNoRow DEF AccountInv, TablesInv, AccountsTypeOK
<1> QED
  BY <1>2, <1>3

LEMMA RequestsDoNotStart ==
  ASSUME NEW r \in Requests, AccountRequest(r) \/ AccountStep(r)
  PROVE  server' = server
<1>1. CASE AccountRequest(r)
  BY <1>1
     DEF AccountRequest, login, Login, register, Register, createUser, CreateUser,
         InsertUser, update, UpdateUserFields, delete, DeleteUser, createEntry,
         CreateEntry, updateEntry, UpdateEntry, deleteEntry, DeleteEntry
<1>2. CASE AccountStep(r)
  BY <1>2
     DEF AccountStep, CreateAuthToken, Granted, RequestFails, CreateAccessEntry,
         UpdateAccessEntry, DeleteAccessEntry, updateUser, UpdateUser,
         DeleteAccessEntriesByIdentity
<1> QED
  BY <1>1, <1>2

LEMMA WorkerIsThereStep ==
  ASSUME AccountInv, UsersInv, WorkerIsThere, UsersKept, [Next]_assistantVars
  PROVE  WorkerIsThere'
<1>1. ASSUME server' = server \/ server' = "down" PROVE WorkerIsThere'
  BY <1>1, WorkerTyped DEF WorkerIsThere, UsersKept
<1>2. CASE Start
  BY <1>2, StartIsOneOf, WorkerIsMade DEF WorkerIsThere
<1>3. CASE AccountsNext /\ ~Start
  BY <1>1, <1>3, RequestsDoNotStart
     DEF AccountsNext, Crash, jwtRefresh, RefreshToken, logout, Logout, TokenAges
<1>4. CASE Chatting
  <2>1. PICK r \in Requests : ChatRequest(r) \/ ChatStep(r)
    BY <1>4 DEF Chatting
  <2>2. server' = server
    BY <2>1
       DEF ChatRequest, createChat, NewInstance, addInstruction, AddInstruction, chat,
           StartChat, ChatStep, CreateMessageIndex, ListMessages, AskBackend, EndChat,
           EndInstruction, restVars
  <2> QED
    BY <1>1, <2>2
<1>5. CASE Tasking
  <2>1. PICK r \in Requests : TaskRequest(r) \/ TaskStep(r)
    BY <1>5 DEF Tasking
  <2>2. server' = server
    BY <2>1
       DEF TaskRequest, execute, Execute, tasks, ExecutePrompt, TaskStep, AnswerPrompt,
           CannotAttempt, Attempt, Transit, aroundVars
  <2> QED
    BY <1>1, <2>2
<1>6. CASE UNCHANGED accountVars
  BY <1>1, <1>6 DEF accountVars
<1> QED
  BY <1>2, <1>3, <1>4, <1>5, <1>6 DEF Next, Accounting, Syncing, assistantVars

(* Once the first of the two transactions that make it is over, the worker *)
(* has its account until its last entry is taken away (InitCredentials).   *)
THEOREM WorkerHasAccountCorrect == Spec => []WorkerHasAccount
<1>1. AccountInv /\ UsersInv /\ WorkerIsThere /\ UsersKept /\ [Next]_assistantVars
        => WorkerIsThere'
  BY WorkerIsThereStep
<1>2. AccountInv /\ TurnsInv /\ UsersInv /\ [Next]_assistantVars => UsersInv' /\ UsersKept
  BY UsersInvNext
<1>3. Init => WorkerIsThere
  BY DEF Init, AccountsInit, WorkerIsThere
<1>4. AccountInv /\ WorkerIsThere => WorkerHasAccount
  BY DEF AccountInv, WorkerInv, WorkerIsThere, WorkerHasAccount
<1> QED
  BY <1>1, <1>2, <1>3, <1>4, UsersInvInit, AccountInvariant, TurnsInvariant, PTL DEF Spec

-----------------------------------------------------------------------------
(* Where chats and prompts are sent.                                       *)

(* The clients that may answer a chat: of every model that chats, has room *)
(* and a name that is asked for, on every backend that has it.             *)
THEOREM ChatCorrect ==
  ASSUME NEW names, NEW length \in Nat
  PROVE  \A x :
           x \in Chat(names, length) <=>
             \E b \in Backends : \E m \in pulled[b] :
               /\ m \in ChatModels
               /\ length > 0 => ContextLength[m] >= length
               /\ names # {} => \E n \in names : BaseName[m] = BaseName[n]
               /\ x = [model |-> m, backend |-> b]
<1> DEFINE Good(k) == /\ k \in ChatModels
                      /\ length > 0 => ContextLength[k] >= length
                      /\ names # {} => \E n \in names : BaseName[k] = BaseName[n]
           Client(m, b) == [model |-> m, backend |-> b]
           P(m) == NewOllamaModelProvider(m, BackendsWith(m, Backends))
           candidates == filterCandidates(ModelProviderAdapter, names, length, "chat")
<1>1. \A m : /\ P(m).model = m /\ P(m).backends = BackendsWith(m, Backends)
             /\ P(m).context = ContextLength[m] /\ P(m).chat = (m \in ChatModels)
  BY DEF NewOllamaModelProvider
<1>2. \A p : p \in ModelProviderAdapter <=>
               \E b \in Backends : \E m \in pulled[b] : p = P(m)
  BY DEF ModelProviderAdapter
<1> HIDE DEF P
<1>3. \A p : p \in candidates <=>
               \E b \in Backends : \E m \in pulled[b] : p = P(m) /\ Good(m)
  <2>1. \A p : p \in candidates <=>
          /\ p \in ModelProviderAdapter
          /\ names # {} => \E n \in names : BaseName[p.model] = BaseName[n]
          /\ length > 0 => p.context >= length
          /\ p.chat
    BY DEF filterCandidates, validateProvider
  <2>2. ASSUME NEW b \in Backends, NEW m \in pulled[b]
        PROVE  P(m) \in candidates <=> Good(m)
    <3>1. P(m) \in ModelProviderAdapter
      BY <1>2, <2>2
    <3> HIDE DEF candidates
    <3>2. /\ P(m).model = m
          /\ P(m).context = ContextLength[m] /\ P(m).chat = (m \in ChatModels)
      BY <1>1
    <3>3. P(m) \in candidates <=>
            /\ names # {} => \E n \in names : BaseName[P(m).model] = BaseName[n]
            /\ length > 0 => P(m).context >= length
            /\ P(m).chat
      BY <2>1, <3>1
    <3> QED
      BY <3>2, <3>3
  <2> HIDE DEF candidates, Good
  <2> QED
    BY <1>2, <2>1, <2>2
<1> HIDE DEF candidates
<1>4. \A x : x \in Chat(names, length) <=>
               \E p \in candidates : \E b \in p.backends : p.chat /\ x = Client(p.model, b)
  <2>1. Chat(names, length) =
          UNION {GetChatConnection(choice) : choice \in Randomly(candidates)}
    BY DEF Chat, candidates
  <2>2. \A choice : choice \in Randomly(candidates) <=>
          \E p \in candidates : \E b \in p.backends : choice = [provider |-> p, backend |-> b]
    BY DEF Randomly, selectRandomBackend
  <2>3. ASSUME NEW p, NEW b
        PROVE  GetChatConnection([provider |-> p, backend |-> b]) =
                 IF p.chat THEN {Client(p.model, b)} ELSE {}
    BY DEF GetChatConnection
  <2> HIDE DEF Client
  <2>4. \A x : x \in Chat(names, length) <=>
               \E choice \in Randomly(candidates) : x \in GetChatConnection(choice)
    BY <2>1
  <2>5. ASSUME NEW x, NEW p \in candidates, NEW b \in p.backends, p.chat,
               x = Client(p.model, b)
        PROVE  x \in Chat(names, length)
    BY <2>2, <2>3, <2>4, <2>5
  <2>6. ASSUME NEW x \in Chat(names, length)
        PROVE  \E p \in candidates : \E b \in p.backends : p.chat /\ x = Client(p.model, b)
    <3>1. PICK choice \in Randomly(candidates) : x \in GetChatConnection(choice)
      BY <2>4
    <3>2. PICK p \in candidates : \E b \in p.backends : choice = [provider |-> p, backend |-> b]
      BY <2>2
    <3>3. PICK b \in p.backends : choice = [provider |-> p, backend |-> b]
      BY <3>2
    <3>4. x \in IF p.chat THEN {Client(p.model, b)} ELSE {}
      BY <2>3, <3>1, <3>3
    <3>5. p.chat /\ x = Client(p.model, b)
      BY <3>4
    <3> QED
      BY <3>5
  <2> QED
    BY <2>5, <2>6
<1>5. \A x : x \in Chat(names, length) <=>
               \E b \in Backends : \E m \in pulled[b] : Good(m) /\ x = Client(m, b)
  <2>1. ASSUME NEW b \in Backends, NEW m \in pulled[b], Good(m)
        PROVE  /\ P(m) \in candidates /\ P(m).chat /\ b \in P(m).backends
    BY <1>1, <1>3, <2>1 DEF BackendsWith
  <2>2. ASSUME NEW p \in candidates, NEW b \in p.backends
        PROVE  /\ b \in Backends /\ p.model \in pulled[b] /\ Good(p.model)
    BY <1>1, <1>3, <2>2 DEF BackendsWith
  <2> HIDE DEF Client, Good
  <2> QED
    BY <1>1, <1>4, <2>1, <2>2
<1> QED
  BY <1>5

(* A prompt goes to any backend of the tasks' pool that has the tasks'     *)
(* model, whatever strategy its chain names: there is one provider, and it *)
(* is said to take prompts whatever its model.                             *)
THEOREM PromptsAreRoutedAlike ==
  ASSUME NEW strategy
  PROVE  PromptExecute(strategy) =
           {[model |-> TaskModel, backend |-> b] :
              b \in BackendsWith(TaskModel, PoolBackends)}
<1> DEFINE having == BackendsWith(TaskModel, PoolBackends)
           provider == [NewOllamaModelProvider(TaskModel, having) EXCEPT !.prompt = TRUE]
           names == {p.model : p \in GetProvider}
           candidates == filterCandidates(GetRuntime, names, 0, "prompt")
<1>1. provider.model = TaskModel /\ provider.backends = having /\ provider.prompt
  BY DEF NewOllamaModelProvider
<1>2. GetProvider = IF having = {} THEN {} ELSE {provider}
  BY DEF GetProvider
<1> HIDE DEF provider
<1>3. candidates = GetProvider
  BY <1>1, <1>2 DEF filterCandidates, validateProvider, GetRuntime
<1> HIDE DEF candidates, names
<1>4. HighestContext(candidates) = Randomly(candidates)
  <2>1. \A p, q \in candidates : p = q
    BY <1>2, <1>3
  <2>2. ContextLength[TaskModel] \in Nat
    BY ResolverAssumption
  <2>3. \A p \in candidates : p.context \in Nat
    BY <1>2, <1>3, <2>2 DEF provider, NewOllamaModelProvider
  <2>4. {p \in candidates : \A q \in candidates : q.context <= p.context} = candidates
    BY <2>1, <2>3
  <2> QED
    BY <2>4 DEF HighestContext
<1>5. PolicyFromString(strategy, candidates) = Randomly(candidates)
  BY <1>4 DEF PolicyFromString
<1>6. PromptExecute(strategy) =
        UNION {GetPromptConnection(choice) : choice \in Randomly(candidates)}
  BY <1>5 DEF PromptExecute, candidates, names
<1>7. \A choice : choice \in Randomly(candidates) <=>
        \E b \in having : choice = [provider |-> provider, backend |-> b]
  BY <1>1, <1>2, <1>3 DEF Randomly, selectRandomBackend
<1>8. \A b : GetPromptConnection([provider |-> provider, backend |-> b]) =
              {[model |-> TaskModel, backend |-> b]}
  BY <1>1 DEF GetPromptConnection
<1> HIDE DEF having
<1>9. \A x : x \in PromptExecute(strategy) <=>
             \E b \in having : x = [model |-> TaskModel, backend |-> b]
  <2>1. \A x : x \in PromptExecute(strategy) <=>
               \E choice \in Randomly(candidates) : x \in GetPromptConnection(choice)
    BY <1>6
  <2>2. ASSUME NEW b \in having
        PROVE  [model |-> TaskModel, backend |-> b] \in PromptExecute(strategy)
    <3>1. [provider |-> provider, backend |-> b] \in Randomly(candidates)
      BY <1>7
    <3> QED
      BY <1>8, <2>1, <3>1
  <2>3. ASSUME NEW x \in PromptExecute(strategy)
        PROVE  \E b \in having : x = [model |-> TaskModel, backend |-> b]
    <3>1. PICK choice \in Randomly(candidates) : x \in GetPromptConnection(choice)
      BY <2>1
    <3>2. PICK b \in having : choice = [provider |-> provider, backend |-> b]
      BY <1>7
    <3>3. x \in {[model |-> TaskModel, backend |-> b]}
      BY <1>8, <3>1, <3>2
    <3> QED
      BY <3>3
  <2> QED
    BY <2>2, <2>3
<1> QED
  BY <1>9 DEF having

=============================================================================
