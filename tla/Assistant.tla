----------------------------- MODULE Assistant -----------------------------
(***************************************************************************)
(* The API server with the services a user talks to: accounts, chats and   *)
(* chains of tasks share the requests, the tables users and accesslists    *)
(* and the runtime state.  A request that ends, fails or is lost in a      *)
(* crash leaves no turn of a chat and no run behind.                       *)
(***************************************************************************)
EXTENDS ChatService, TaskEngine

assistantVars == <<accountVars, pulled, chatVars, run>>

Init == AccountsInit /\ ResolverInit /\ ChatInit /\ RunInit

Accounting ==
  /\ AccountsNext
  /\ TalksEnd /\ RunsEnd
  /\ UNCHANGED pulled

Chatting ==
  /\ \E r \in Requests : ChatRequest(r) \/ ChatStep(r)
  /\ UNCHANGED run

Tasking ==
  /\ \E r \in Requests : TaskRequest(r) \/ TaskStep(r)
  /\ UNCHANGED chatVars

(* The runtime state is filled while the server runs.                      *)
Syncing ==
  /\ server = "up"
  /\ \E b \in Backends, models \in SUBSET Models : Sync(b, models)
  /\ UNCHANGED <<accountVars, chatVars, run>>

Next == Accounting \/ Chatting \/ Tasking \/ Syncing

Spec == Init /\ [][Next]_assistantVars

-----------------------------------------------------------------------------
(* The types of all parts.                                                 *)
TypeOK == AccountsTypeOK /\ ChatTypeOK

(* Every entry, every chat and every token that is still good is one of a  *)
(* user that exists, whatever requests overlap, fail or are lost.  Entries *)
(* and chats have a foreign key, but tokens have none, and a login makes   *)
(* its token one step after it has read the user: it holds because         *)
(* DeleteUser, whose own cascade makes it fail, never deletes anybody.     *)
UsersExist ==
  /\ \A e \in EntryIds : entries[e] # None => users[entries[e].identity] # None
  /\ \A c \in Chats : chats[c] # None => users[chats[c]] # None
  /\ \A u \in Users : token[u] # None => users[u] # None

=============================================================================
