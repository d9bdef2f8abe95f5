---------------------------- MODULE ChatService ----------------------------
(***************************************************************************)
(* Chats: the tables message_indices and messages, and the requests that   *)
(* begin a chat, put an instruction into it or hold a turn of it.  A turn  *)
(* reads the conversation, asks a backend and then stores question and     *)
(* answer in one statement; nothing keeps other turns of the same chat     *)
(* away in the meantime.  The requests are those of Accounts.              *)
(*                                                                         *)
(* Messages are listed by the time they carry.  A question carries the     *)
(* time its request began, every other message the time it is stored.      *)
(* Times of different chats are never compared, and each chat has its own. *)
(*                                                                         *)
(* The tokens of a conversation are counted as its questions (answers and  *)
(* instructions are not counted); the tokenizer may fail.  A listing of    *)
(* chats or messages changes nothing and is not an action.                 *)
(***************************************************************************)
EXTENDS Accounts, Resolver

CONSTANTS
  Chats,    (* Ids of chats: fresh uuids.                                  *)
  MaxTime   (* Bound: no message carries a later time.                     *)

ASSUME ChatAssumption == MaxTime \in Nat

VARIABLES
  chats,  (* The user each chat belongs to, or None: message_indices.      *)
  log,    (* The rows of messages of each chat.                            *)
  talk    (* What each request that holds a turn knows of its chat.        *)

chatVars == <<chats, log, talk>>

(* A message has a role and the time it carries, added_at.                 *)
Message(role, at) == [role |-> role, at |-> at]

(* When the turn began, the conversation it has read, and whether the chat *)
(* was written to since it began (a history).                              *)
NoTalk == [at |-> 0, conversation |-> {}, met |-> FALSE]

ChatInit ==
  /\ chats = [c \in Chats |-> None]
  /\ log = [c \in Chats |-> {}]
  /\ talk = [r \in Requests |-> NoTalk]

(* The present, the first time after those of the messages of c and of the *)
(* turns that have begun.                                                  *)
Stamps(c) ==
  {m.at : m \in log[c]} \cup {talk[r].at : r \in {q \in Requests : req[q].chat = c}}
Ahead(c) == {t \in 1 .. MaxTime : \A s \in Stamps(c) : s < t}
Now(c) == CHOOSE t \in Ahead(c) : \A s \in Ahead(c) : t <= s
TimeLeft(c) == Ahead(c) # {}

(* A request that is over keeps no turn.                                   *)
TalksEnd ==
  /\ talk' = [r \in Requests |-> IF req'[r].pc = "idle" THEN NoTalk ELSE talk[r]]
  /\ UNCHANGED <<chats, log>>

restVars == <<server, users, entries, token, accountHistory, pulled>>

-----------------------------------------------------------------------------
(* The request begins.                                                     *)

NewInstance(r, by) ==
  /\ BeginAs(r, by, "chatservice", Manage, [Idle EXCEPT !.pc = "newchat"])
  /\ UNCHANGED <<chats, log, talk, restVars>>

(* The chat need not be the user's own.                                    *)
AddInstruction(r, by, c) ==
  /\ BeginAs(r, by, "chatservice", Manage,
       [Idle EXCEPT !.pc = "instruct", !.chat = c])
  /\ UNCHANGED <<chats, log, talk, restVars>>

StartChat(r, by, c) ==
  /\ TimeLeft(c)
  /\ BeginAs(r, by, "chatservice", Manage, [Idle EXCEPT !.pc = "list", !.chat = c])
  /\ talk' = [talk EXCEPT ![r].at = Now(c)]
  /\ UNCHANGED <<chats, log, restVars>>

-----------------------------------------------------------------------------
(* The statements and calls of the requests.                               *)

(* The new chat belongs to the user, who is a foreign key.                 *)
CreateMessageIndex(r, c) ==
  /\ req[r].pc = "newchat"
  /\ chats[c] = None
  /\ chats' = IF users[req[r].by] # None
                THEN [chats EXCEPT ![c] = req[r].by] ELSE chats
  /\ Done(r)
  /\ UNCHANGED <<log, talk, begun, restVars>>

(* What is stored in the chat, in the order of the times.                  *)
Before(m, k) == m.at < k.at

ListMessages(r) ==
  /\ req[r].pc = "list"
  /\ talk' = [talk EXCEPT ![r].conversation = log[req[r].chat]]
  /\ req' = [req EXCEPT ![r].pc = "ask"]
  /\ UNCHANGED <<chats, log, begun, restVars>>

(* The questions so far and this one.                                      *)
CalculateContextSize(conversation) ==
  1 + Cardinality({m \in conversation : m.role = "user"})

(* Some backend that has a model with room for the conversation answers.   *)
AskBackend(r) ==
  /\ req[r].pc = "ask"
  /\ Chat({}, CalculateContextSize(talk[r].conversation)) # {}
  /\ req' = [req EXCEPT ![r].pc = "append"]
  /\ UNCHANGED <<chats, log, talk, begun, restVars>>

(* The other turns of the chat have met a message.                         *)
Meet(c, r) ==
  [q \in Requests |->
     IF q = r THEN NoTalk
     ELSE IF req[q].chat = c THEN [talk[q] EXCEPT !.met = TRUE] ELSE talk[q]]

(* Mutant: the time a message has is not kept.                             *)
AppendMessagesNow(r, c, messages) ==
  /\ log' = [log EXCEPT ![c] = @ \cup {Message(m.role, Now(c)) : m \in messages}]
  /\ talk' = Meet(c, r)
  /\ Done(r)

(* One statement inserts them all.                                         *)
AppendMessages(r, c, messages) ==
  /\ log' = [log EXCEPT ![c] = @ \cup messages]
  /\ talk' = Meet(c, r)
  /\ Done(r)

(* The chat is a foreign key: a turn of no chat fails in the end.          *)
EndChat(r) ==
  LET c == req[r].chat IN
  /\ req[r].pc = "append"
  /\ TimeLeft(c)
  /\ chats[c] # None
  /\ AppendMessages(r, c, {Message("user", talk[r].at), Message("assistant", Now(c))})
  /\ UNCHANGED <<chats, begun, restVars>>

EndInstruction(r) ==
  LET c == req[r].chat IN
  /\ req[r].pc = "instruct"
  /\ TimeLeft(c)
  /\ chats[c] # None
  /\ AppendMessages(r, c, {Message("system", Now(c))})
  /\ UNCHANGED <<chats, begun, restVars>>

(* The routes.                                                             *)
createChat(r) == \E by \in Users : NewInstance(r, by)
addInstruction(r) == \E by \in Users, c \in Chats : AddInstruction(r, by, c)
chat(r) == \E by \in Users, c \in Chats : StartChat(r, by, c)

ChatRequest(r) == createChat(r) \/ addInstruction(r) \/ chat(r)

ChatStep(r) ==
  \/ \E c \in Chats : CreateMessageIndex(r, c)
  \/ ListMessages(r) \/ AskBackend(r) \/ EndChat(r) \/ EndInstruction(r)

-----------------------------------------------------------------------------
(* Properties.                                                             *)

Messages == [role : {"user", "assistant", "system"}, at : 1 .. MaxTime]

(* The types of the tables and the turns.                                  *)
ChatTypeOK ==
  /\ chats \in [Chats -> Users \cup {None}]
  /\ log \in [Chats -> SUBSET Messages]
  /\ talk \in [Requests -> [at : 0 .. MaxTime, conversation : SUBSET Messages,
                            met : BOOLEAN]]

(* When a turn ends and the chat was not written to since it began, the    *)
(* chat is what the backend was asked with, then the question, then the    *)
(* answer, whatever requests failed or are still under way: Chat stamps    *)
(* the question before it reads and the answer after it, and stores both   *)
(* at once.                                                                *)
AnswersInOrder ==
  [][\A r \in Requests, c \in Chats :
       /\ req[r].chat = c /\ req[r].pc = "append" /\ req'[r].pc = "idle"
       /\ log'[c] # log[c] /\ ~talk[r].met
       => \E question, answer \in log'[c] :
            /\ log'[c] = talk[r].conversation \cup {question, answer}
            /\ question.role = "user" /\ answer.role = "assistant"
            /\ \A m \in talk[r].conversation : Before(m, question)
            /\ Before(question, answer)]_log

=============================================================================
