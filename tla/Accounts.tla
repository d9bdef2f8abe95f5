------------------------------ MODULE Accounts ------------------------------
(***************************************************************************)
(* Users and access control: the tables users and accesslists, the tokens  *)
(* clients hold, and the requests of the user and access services that     *)
(* change them, one statement a step.  Only updates and deletions of a     *)
(* user are transactions; every other request commits each statement.      *)
(*                                                                         *)
(* Security is enabled.  A request is first checked against its token;     *)
(* one that is refused, or that only reads, changes nothing and is not an  *)
(* action.  Other services check their requests with BeginAs as well       *)
(* (ChatService, TaskEngine) and share the requests of this module.        *)
(*                                                                         *)
(* Not represented: the hashing of passwords, the signing of tokens,       *)
(* which secrets protect, and the entries for single files (FileTree).     *)
(***************************************************************************)
EXTENDS Naturals, FiniteSets, Sequences

CONSTANTS
  Users,        (* Ids of users, which are their subjects too: fresh uuids. *)
  Worker,       (* The account of the workers, made at start.              *)
  Emails, WorkerEmail, AdminEmail,
  Names, Passwords,
  EntryIds,     (* Ids of rows of accesslists.                             *)
  ServerEntry, FilesEntry,  (* The ids of the worker's two entries.        *)
  Requests,     (* Concurrent requests of the API server.                  *)
  None,         (* No row, no token, or an empty field.                    *)
  Resources,    (* What entries are for: services, types, the server.      *)
  Grants,       (* Permissions on resources that requests ask for.         *)
  Allowed,      (* The lists of them that new users are to get.            *)
  Forms,        (* Rows that users are registered with.                    *)
  Changes,      (* Changes of a user's fields that requests ask for.       *)
  MaxRequests   (* Bound: no request begins after so many.                 *)

Permissions == 0 .. 3     (* none, view, edit, manage *)
View == 1
Manage == 3
Grant(resource, permission) ==
  [resource |-> resource, permission |-> permission]
Row(email, name, password) ==
  [email |-> email, name |-> name, password |-> password]
Rows == [email : Emails, name : Names \cup {None}, password : Passwords]
AccessEntries ==
  [identity : Users, resource : Resources, permission : Permissions]

ASSUME AccountsAssumption ==
  /\ Worker \in Users /\ None \notin Users
  /\ {WorkerEmail, AdminEmail} \subseteq Emails /\ None \notin Emails
  /\ None \notin Names /\ None \notin Passwords /\ Passwords # {}
  /\ None \notin Rows \cup AccessEntries
  /\ {ServerEntry, FilesEntry} \subseteq EntryIds
  /\ ServerEntry # FilesEntry
  /\ Grants \subseteq [resource : Resources, permission : Permissions]
  /\ {"server", "files"} \subseteq Resources
  /\ Allowed \subseteq Seq(Grants)
  /\ Forms \subseteq Rows
  /\ Changes \subseteq [email : Emails \cup {None}, name : Names \cup {None},
                        password : Passwords \cup {None}]
  /\ MaxRequests \in Nat

VARIABLES
  server,   (* How far the server has come, see Serving.                   *)
  users,    (* The row of each user, or None.                              *)
  entries,  (* Identity, resource and permission of each entry, or None.   *)
  token,    (* The token each user's client holds, or None.                *)
  req,      (* What each request is doing.                                 *)
  begun,    (* How many requests have begun.                               *)
  held,     (* History: what each user was granted at or after the login   *)
            (* its token comes from.                                       *)
  wanted,   (* History: the row each user should have.                     *)
  overlapped, (* History: users with two updates at once.                  *)
  stripped  (* History: the worker's last entry was taken away.            *)

accountHistory == <<held, wanted, overlapped, stripped>>
accountVars == <<server, users, entries, token, req, begun, accountHistory>>

(* A request is at pc; by is whose token it carries and need what it was   *)
(* checked for.  user and row are the user it writes, change what it asked *)
(* for, todo the entries it still has to make, entry the row of            *)
(* accesslists it writes, and chat the chat it is about.                   *)
Idle == [pc |-> "idle", by |-> None, need |-> None, user |-> None,
         row |-> None, change |-> None, todo |-> <<>>, entry |-> None,
         chat |-> None]

(* A new token, with the time it is good for.                              *)
CreateToken(claims) == [claims |-> claims, age |-> "fresh"]

ValidateToken(t) == t # None
GetClaims(t) == t.claims

(* A token is renewed only when it is about to expire, with its claims.    *)
RefreshTokenWithGracePeriod(t) ==
  IF t.age = "late" THEN CreateToken(GetClaims(t)) ELSE t

GetUserByID(u) == users[u]
GetUserByEmail(email) == {u \in Users : users[u] # None /\ users[u].email = email}
CheckPassword(password, row) == row.password = password

EntryIdsOf(u) == {e \in EntryIds : entries[e] # None /\ entries[e].identity = u}

(* The entries of an identity, as GetAccessEntriesByIdentity reads them.   *)
GetAccessEntriesByIdentity(u) ==
  {Grant(entries[e].resource, entries[e].permission) : e \in EntryIdsOf(u)}

GetAccessEntriesByIdentityAndResource(u, resource) ==
  {g \in GetAccessEntriesByIdentity(u) : g.resource = resource}

(* What a registration grants: nothing on the server, or everything to the *)
(* administrator.                                                          *)
RegistrationGrant(email) ==
  Grant("server", IF email = AdminEmail THEN Manage ELSE 0)

Entry(u, g) ==
  [identity |-> u, resource |-> g.resource, permission |-> g.permission]
WorkerRow ==
  Row(WorkerEmail, None, CHOOSE p \in Passwords : TRUE)
ServerGrant == Entry(Worker, Grant("server", Manage))
FilesGrant == Entry(Worker, Grant("files", View))

(* new: no server has used the database.  schema and embedder: the first   *)
(* has executed the schema, and then set up the embedder.  up: it serves.  *)
(* down: it has ended, wherever it was.                                    *)
Serving == {"new", "schema", "embedder", "up", "down"}

(* An empty database.                                                      *)
AccountsInit ==
  /\ server = "new"
  /\ users = [u \in Users |-> None]
  /\ entries = [e \in EntryIds |-> None]
  /\ token = [u \in Users |-> None]
  /\ req = [r \in Requests |-> Idle]
  /\ begun = 0
  /\ held = [u \in Users |-> {}]
  /\ wanted = users
  /\ overlapped = {}
  /\ stripped = FALSE

-----------------------------------------------------------------------------
(* Authorisation.                                                          *)

(* Mutant: any entry on the resource will do.                              *)
RequireAuthorisationAny(list, resource, permission) ==
  \E g \in list : g.resource = resource

RequireAuthorisation(list, resource, permission) ==
  \E g \in list : g.resource = resource /\ g.permission >= permission

(* ErrAccessEntryNotFound: the list says nothing of the resource.          *)
NotFound(list, resource) == \A g \in list : g.resource # resource

(* The claims of the token decide; the table only where they are silent.   *)
checkAuth(u, resource, permission) ==
  IF NotFound(GetClaims(token[u]), resource)
  THEN RequireAuthorisation(GetAccessEntriesByIdentityAndResource(u, resource),
                            resource, permission)
  ELSE RequireAuthorisation(GetClaims(token[u]), resource, permission)

(* A grant counts for the service, for the group all services are in, and  *)
(* for the server.                                                         *)
TryAuth(service) == {service, "admin_panel", "server"}

(* The resources are tried with one statement each, but each of them alone *)
(* decides.                                                                *)
CheckServiceAuthorization(u, service, permission) ==
  /\ ValidateToken(token[u])
  /\ \E resource \in TryAuth(service) : checkAuth(u, resource, permission)

(* A request that carries by's token begins with the check.                *)
Begins(r) == server = "up" /\ req[r].pc = "idle" /\ begun < MaxRequests

BeginAs(r, by, service, permission, request) ==
  /\ Begins(r)
  /\ CheckServiceAuthorization(by, service, permission)
  /\ req' = [req EXCEPT ![r] = [request EXCEPT !.by = by,
                                 !.need = Grant(service, permission)]]
  /\ begun' = begun + 1

Done(r) == req' = [req EXCEPT ![r] = Idle]

(* u is now granted g as well.                                             *)
Holds(u, g) == held' = [held EXCEPT ![u] = @ \cup {g}]

-----------------------------------------------------------------------------
(* Logging in, and the life of a token.                                    *)

(* The user with this email is there and the password is its password.     *)
Login(r, email, password) ==
  /\ Begins(r)
  /\ \E u \in GetUserByEmail(email) :
       /\ CheckPassword(password, users[u])
       /\ req' = [req EXCEPT ![r] = [Idle EXCEPT !.pc = "login", !.user = u]]
  /\ begun' = begun + 1
  /\ UNCHANGED <<server, users, entries, token, accountHistory>>

(* The end of Login and Register: the token takes the entries there are.   *)
CreateAuthToken(r) ==
  LET u == req[r].user
  IN /\ req[r].pc = "login"
     /\ token' = [token EXCEPT ![u] =
                    CreateToken(GetAccessEntriesByIdentity(u))]
     /\ held' = [held EXCEPT ![u] = GetAccessEntriesByIdentity(u)]
     /\ Done(r)
     /\ UNCHANGED <<server, users, entries, begun, wanted, overlapped, stripped>>

(* A token that is about to expire is replaced by one with the same claims *)
(* when it is used; the entries are not read.                              *)
RefreshToken(u) ==
  /\ server = "up"
  /\ ValidateToken(token[u]) /\ token[u].age = "late"
  /\ token' = [token EXCEPT ![u] = RefreshTokenWithGracePeriod(@)]
  /\ UNCHANGED <<server, users, entries, req, begun, accountHistory>>

(* Time passes.                                                            *)
TokenAges(u) ==
  /\ token[u] # None
  /\ token' = [token EXCEPT ![u] =
                 IF @.age = "fresh" THEN [@ EXCEPT !.age = "late"] ELSE None]
  /\ UNCHANGED <<server, users, entries, req, begun, accountHistory>>

(* The cookie is cleared.                                                  *)
Logout(u) ==
  /\ server = "up" /\ token[u] # None
  /\ token' = [token EXCEPT ![u] = None]
  /\ UNCHANGED <<server, users, entries, req, begun, accountHistory>>

-----------------------------------------------------------------------------
(* Creating users and entries.                                             *)

(* email is UNIQUE.                                                        *)
EmailFree(u, email) ==
  \A v \in Users \ {u} : users[v] # None => users[v].email # email

(* The row of the user is inserted.                                        *)
InsertUser(u, row) ==
  /\ users[u] = None
  /\ EmailFree(u, row.email)
  /\ users' = [users EXCEPT ![u] = row]
  /\ wanted' = [wanted EXCEPT ![u] = row]
  /\ UNCHANGED <<server, entries, token, held, overlapped, stripped>>

(* The entries follow one by one, each in a statement that commits by      *)
(* itself: todo are still to be made for u.                                *)
Granting(u, todo) == [Idle EXCEPT !.pc = "grant", !.user = u, !.todo = todo]

(* Anybody may register.                                                   *)
Register(r, u, row) ==
  /\ Begins(r)
  /\ u # Worker
  /\ InsertUser(u, row)
  /\ req' = [req EXCEPT ![r] = Granting(u, <<RegistrationGrant(row.email)>>)]
  /\ begun' = begun + 1

(* An administrator makes a user.                                          *)
CreateUser(r, by, u, row, allowed) ==
  /\ BeginAs(r, by, "userservice", Manage, Granting(u, allowed))
  /\ u # Worker
  /\ InsertUser(u, row)

(* Create of the access service.                                           *)
CreateEntry(r, by, u, g) ==
  /\ BeginAs(r, by, "accessservice", Manage, Granting(u, <<g>>))
  /\ UNCHANGED <<server, users, entries, token, accountHistory>>

(* The next entry, unless there is no such user: identity is a foreign key. *)
CreateAccessEntry(r, e) ==
  LET u == req[r].user
      g == Head(req[r].todo)
  IN /\ req[r].pc = "grant" /\ req[r].todo # <<>>
     /\ entries[e] = None /\ e \notin {ServerEntry, FilesEntry}
     /\ IF users[u] = None
          THEN Done(r) /\ UNCHANGED <<entries, held>>
          ELSE /\ entries' = [entries EXCEPT ![e] = Entry(u, g)]
               /\ Holds(u, g)
               /\ req' = [req EXCEPT ![r].todo = Tail(@)]
     /\ UNCHANGED <<server, users, token, begun, wanted, overlapped, stripped>>

(* A statement fails: what has been written stays.  Login, which only      *)
(* reads, may fail as well.                                                *)
RequestFails(r) ==
  /\ req[r].pc # "idle"
  /\ Done(r)
  /\ UNCHANGED <<server, users, entries, token, begun, accountHistory>>

(* All entries are made.  Only a registration goes on to make a token.     *)
Granted(r) ==
  /\ req[r].pc = "grant" /\ req[r].todo = <<>>
  /\ req' = [req EXCEPT ![r] = [Idle EXCEPT
                !.pc = IF req[r].by = None THEN "login" ELSE "idle",
                !.user = IF req[r].by = None THEN req[r].user ELSE None]]
  /\ UNCHANGED <<server, users, entries, token, begun, accountHistory>>

-----------------------------------------------------------------------------
(* Changing and revoking entries.                                          *)

UpdateEntry(r, by, e, u, g) ==
  /\ BeginAs(r, by, "accessservice", Manage,
       [Idle EXCEPT !.pc = "regrant", !.user = u, !.entry = e, !.todo = <<g>>])
  /\ UNCHANGED <<server, users, entries, token, accountHistory>>

DeleteEntry(r, by, e) ==
  /\ BeginAs(r, by, "accessservice", Manage,
       [Idle EXCEPT !.pc = "revoke", !.entry = e])
  /\ UNCHANGED <<server, users, entries, token, accountHistory>>

(* The worker had entries and has none any more.                           *)
Strips == EntryIdsOf(Worker) # {} /\ EntryIdsOf(Worker)' = {}

(* UPDATE sets all columns of the row, if it and the user are there.  The  *)
(* error is dropped.                                                       *)
UpdateAccessEntry(r) ==
  LET e == req[r].entry
      u == req[r].user
      g == Head(req[r].todo)
      written == entries[e] # None /\ users[u] # None
  IN /\ req[r].pc = "regrant"
     /\ entries' = IF written THEN [entries EXCEPT ![e] = Entry(u, g)] ELSE entries
     /\ held' = IF written THEN [held EXCEPT ![u] = @ \cup {g}] ELSE held
     /\ stripped' = (stripped \/ Strips)
     /\ Done(r)
     /\ UNCHANGED <<server, users, token, begun, wanted, overlapped>>

DeleteAccessEntry(r) ==
  /\ req[r].pc = "revoke"
  /\ entries' = [entries EXCEPT ![req[r].entry] = None]
  /\ stripped' = (stripped \/ Strips)
  /\ Done(r)
  /\ UNCHANGED <<server, users, token, begun, held, wanted, overlapped>>

-----------------------------------------------------------------------------
(* Updating and deleting users.                                            *)

(* The fields c gives; an empty one leaves what there is.                  *)
Override(row, c) == [f \in DOMAIN row |-> IF c[f] = None THEN row[f] ELSE c[f]]

(* Inside its transaction the request reads the user on another connection *)
(* and puts the changed fields into the row it has read.                   *)
UpdateUserFields(r, by, u, change) ==
  /\ users[u] # None
  /\ BeginAs(r, by, "userservice", Manage,
       [Idle EXCEPT !.pc = "merge", !.user = u, !.change = change,
                    !.row = Override(GetUserByID(u), change)])
  /\ UNCHANGED <<server, users, entries, token, accountHistory>>

(* Mutant: the row just read overrides the changed one.                    *)
updateUserSwapped(r) ==
  /\ req[r].pc = "merge"
  /\ req' = [req EXCEPT ![r].pc = "write",
                        ![r].row = Override(@, users[req[r].user])]
  /\ UNCHANGED <<server, users, entries, token, begun, accountHistory>>

(* The user is read again, and every field the first reading did not leave *)
(* empty overrides it.                                                     *)
updateUser(r) ==
  /\ req[r].pc = "merge"
  /\ req' = [req EXCEPT ![r].pc = "write",
                        ![r].row = Override(GetUserByID(req[r].user), @)]
  /\ UNCHANGED <<server, users, entries, token, begun, accountHistory>>

(* Another update of u has read it and not yet written it.                 *)
OthersUpdating(r, u) ==
  {q \in Requests \ {r} : req[q].user = u /\ req[q].pc \in {"merge", "write"}}

(* UPDATE and commit; it fails if another user has the email.              *)
UpdateUser(r) ==
  LET u == req[r].user
      written == EmailFree(u, req[r].row.email)
  IN /\ req[r].pc = "write"
     /\ users' = IF written THEN [users EXCEPT ![u] = req[r].row] ELSE users
     /\ wanted' = IF written
                    THEN [wanted EXCEPT ![u] = Override(@, req[r].change)]
                    ELSE wanted
     /\ overlapped' = IF written /\ OthersUpdating(r, u) # {}
                        THEN overlapped \cup {u} ELSE overlapped
     /\ Done(r)
     /\ UNCHANGED <<server, entries, token, begun, held, stripped>>

(* A deletion begins a transaction.                                        *)
DeleteUser(r, by, u) ==
  /\ users[u] # None
  /\ BeginAs(r, by, "userservice", Manage,
       [Idle EXCEPT !.pc = "deleteEntries", !.user = u])
  /\ UNCHANGED <<server, users, entries, token, accountHistory>>

(* The entries its transaction sees once it has deleted the row of u:      *)
(* identity is a foreign key with ON DELETE CASCADE.                       *)
CascadedFrom(u) ==
  [e \in EntryIds |-> IF e \in EntryIdsOf(u) THEN None ELSE entries[e]]

(* Mutant: the entries are deleted first, and then the row.                *)
DeleteEntriesFirst(r) ==
  LET u == req[r].user
      left == EntryIdsOf(u)
  IN /\ req[r].pc = "deleteEntries"
     /\ users' = IF left = {} THEN users ELSE [users EXCEPT ![u] = None]
     /\ wanted' = IF left = {} THEN wanted ELSE [wanted EXCEPT ![u] = None]
     /\ entries' = CascadedFrom(u)
     /\ Done(r)
     /\ UNCHANGED <<server, token, begun, held, overlapped, stripped>>

(* The deletion of the entries that are left is an error when it finds     *)
(* none, and then the whole transaction is rolled back.                    *)
DeleteAccessEntriesByIdentity(r) ==
  LET u == req[r].user
      seen == CascadedFrom(u)
      left == {e \in EntryIds : seen[e] # None /\ seen[e].identity = u}
  IN /\ req[r].pc = "deleteEntries"
     /\ users' = IF left = {} THEN users ELSE [users EXCEPT ![u] = None]
     /\ wanted' = IF left = {} THEN wanted ELSE [wanted EXCEPT ![u] = None]
     /\ entries' = IF left = {}
                     THEN entries
                     ELSE [e \in EntryIds |-> IF e \in left THEN None ELSE seen[e]]
     /\ Done(r)
     /\ UNCHANGED <<server, token, begun, held, overlapped, stripped>>

-----------------------------------------------------------------------------
(* The start of the server.                                                *)

(* The worker needs an entry, or room for its row.                         *)
CanInitCredentials ==
  EntryIdsOf(Worker) # {} \/ (users[Worker] = None /\ EmailFree(Worker, WorkerEmail))

(* Mutant: the row is committed without the entries.                       *)
InitCredentialsRow ==
  /\ CanInitCredentials
  /\ IF EntryIdsOf(Worker) # {}
       THEN UNCHANGED <<users, entries, held, wanted>>
       ELSE /\ users' = [users EXCEPT ![Worker] = WorkerRow]
            /\ wanted' = [wanted EXCEPT ![Worker] = WorkerRow]
            /\ UNCHANGED <<entries, held>>

(* The worker's account is made, in one transaction, unless it has an      *)
(* entry; the insertion of a row that is there is an error.                *)
InitCredentials ==
  /\ CanInitCredentials
  /\ IF EntryIdsOf(Worker) # {}
       THEN UNCHANGED <<users, entries, held, wanted>>
       ELSE /\ users' = [users EXCEPT ![Worker] = WorkerRow]
            /\ wanted' = [wanted EXCEPT ![Worker] = WorkerRow]
            /\ entries' = [entries EXCEPT ![ServerEntry] = ServerGrant,
                                          ![FilesEntry] = FilesGrant]
            /\ held' = [held EXCEPT ![Worker] = @ \cup {Grant("server", Manage),
                                                        Grant("files", View)}]

(* Every start executes the whole schema, in one implicit transaction.  It *)
(* adds a constraint that must not be there, so on a database that has it  *)
(* the start ends here, before it has changed anything.                    *)
initDatabase ==
  /\ server = "new"
  /\ server' = "schema"
  /\ UNCHANGED <<users, entries, token, req, begun, accountHistory>>

(* Each of the two repositories has a transaction of its own that makes    *)
(* the account; a failure of either, or after them, ends the start.        *)
NewEmbedder ==
  /\ server = "schema"
  /\ server' = "embedder"
  /\ InitCredentials
  /\ UNCHANGED <<token, req, begun, overlapped, stripped>>

NewExecRepo ==
  /\ server = "embedder"
  /\ server' = "up"
  /\ InitCredentials
  /\ UNCHANGED <<token, req, begun, overlapped, stripped>>

Start == initDatabase \/ NewEmbedder \/ NewExecRepo

(* The process ends: its requests are gone, what is committed stays.       *)
Crash ==
  /\ server \in {"schema", "embedder", "up"}
  /\ server' = "down"
  /\ req' = [r \in Requests |-> Idle]
  /\ UNCHANGED <<users, entries, token, begun, accountHistory>>

-----------------------------------------------------------------------------
(* The routes, with all that may be asked of them.                         *)
login(r) == \E email \in Emails, password \in Passwords : Login(r, email, password)
register(r) == \E u \in Users, row \in Forms : Register(r, u, row)
logout == \E u \in Users : Logout(u)
jwtRefresh == \E u \in Users : RefreshToken(u)

createUser(r) ==
  \E by, u \in Users, row \in Forms, allowed \in Allowed :
    CreateUser(r, by, u, row, allowed)
update(r) == \E by, u \in Users, c \in Changes : UpdateUserFields(r, by, u, c)
delete(r) == \E by, u \in Users : DeleteUser(r, by, u)

createEntry(r) == \E by, u \in Users, g \in Grants : CreateEntry(r, by, u, g)
updateEntry(r) ==
  \E by, u \in Users, e \in EntryIds, g \in Grants : UpdateEntry(r, by, e, u, g)
deleteEntry(r) == \E by \in Users, e \in EntryIds : DeleteEntry(r, by, e)

AccountRequest(r) ==
  \/ login(r) \/ register(r)
  \/ createUser(r) \/ update(r) \/ delete(r)
  \/ createEntry(r) \/ updateEntry(r) \/ deleteEntry(r)

AccountStep(r) ==
  \/ CreateAuthToken(r) \/ Granted(r) \/ RequestFails(r)
  \/ \E e \in EntryIds : CreateAccessEntry(r, e)
  \/ UpdateAccessEntry(r) \/ DeleteAccessEntry(r)
  \/ updateUser(r) \/ UpdateUser(r) \/ DeleteAccessEntriesByIdentity(r)

AccountsNext ==
  \/ Start \/ Crash
  \/ jwtRefresh \/ logout
  \/ \E u \in Users : TokenAges(u)
  \/ \E r \in Requests : AccountRequest(r) \/ AccountStep(r)

AccountsSpec == AccountsInit /\ [][AccountsNext]_accountVars

-----------------------------------------------------------------------------
(* Properties.                                                             *)

AllowedGrants == UNION {{a[i] : i \in DOMAIN a} : a \in Allowed}
AllGrants == Grants \cup AllowedGrants
               \cup {Grant("server", Manage), Grant("server", 0),
                     Grant("files", View)}

(* The types of the tables, the tokens and the histories.                  *)
AccountsTypeOK ==
  /\ server \in Serving /\ stripped \in BOOLEAN
  /\ users \in [Users -> Rows \cup {None}]
  /\ wanted \in [Users -> Rows \cup {None}]
  /\ \A e \in EntryIds :
       entries[e] \in {None} \cup {Entry(u, g) : u \in Users, g \in AllGrants}
  /\ token \in [Users -> {None} \cup [claims : SUBSET AllGrants,
                                     age : {"fresh", "late"}]]
  /\ held \in [Users -> SUBSET AllGrants]
  /\ overlapped \subseteq Users
  /\ begun \in 0 .. MaxRequests

(* A request that a service accepts was allowed to its user by an entry    *)
(* that was there when the user logged in or was made since: of the        *)
(* permission asked for, on the service, on the group of all services or   *)
(* on the server.  (checkAuth asks the token before the table, and         *)
(* RefreshToken renews the token without asking the table again.)          *)
GrantedWasHeld ==
  [][\A r \in Requests :
       req[r].pc = "idle" /\ req'[r].by # None =>
         \E g \in held[req'[r].by] :
           /\ g.resource \in {req'[r].need.resource, "admin_panel", "server"}
           /\ g.permission >= req'[r].need.permission]_accountVars

(* Every field of a user has the value it was last set to, unless two      *)
(* updates of the user overlapped: UpdateUserFields reads the user twice   *)
(* and writes all of its columns.                                          *)
UpdatesSurvive ==
  \A u \in Users \ overlapped : users[u] = wanted[u]

(* From the first of the two transactions of a start that make it, the     *)
(* worker has its account, and never a row without an entry, which the     *)
(* second could not have mended (a row that is there is not inserted, and  *)
(* a start cannot be repeated): not when the start ends halfway, nor when  *)
(* deletions of the worker, whose cascade reaches its entries, overlap     *)
(* other requests.  Only its last entry may be taken away on its own.      *)
WorkerHasAccount ==
  /\ server \in {"embedder", "up"} => users[Worker] # None
  /\ users[Worker] # None => EntryIdsOf(Worker) # {} \/ stripped

=============================================================================
