----------------------------- MODULE TaskEngine -----------------------------
(***************************************************************************)
(* Chains of tasks: a request runs the tasks of a chain one after another. *)
(* Each is attempted until it succeeds or has been retried often enough;   *)
(* its transitions, or its error transition, then name the next.           *)
(*                                                                         *)
(* A text is a sequence of words and numbers; numbers are in thousandths.  *)
(* What a model answers and whether a hook has its effect are outcomes of  *)
(* the attempt; a timeout is one way for it to fail.  Not represented:     *)
(* what templates put into prompts, and the tracker, which only reports.   *)
(* Hooks get neither the prompt nor the variables of the run.              *)
(* A chain without tasks, which makes its request panic before it has done *)
(* anything, is no chain here.                                             *)
(***************************************************************************)
EXTENDS Accounts, Resolver, Integers
Ext == INSTANCE SequencesExt

CONSTANTS
  Chains,      (* The chain definitions that requests bring.               *)
  Texts,       (* What models and hooks answer.                            *)
  Folded,      (* For each text, the texts that differ in case only.       *)
  True, False, (* The texts of a condition that holds and that does not.   *)
  Dash,        (* The sign between the bounds of a range.                  *)
  Default,     (* The value _default of a transition.                      *)
  HookTypes,   (* The hooks that are registered.                           *)
  MaxVisits    (* Bound: a run visits at most so many tasks.               *)

(* A task may be wrong in its template, its timeout or what it prints.     *)
TaskOK(t) ==
  /\ t.template \in {"text", "empty", "bad"}
  /\ t.timeout \in {"none", "set", "bad"}
  /\ t.print \in {"none", "text", "bad"}
  /\ t.retry \in Int
  /\ DOMAIN t.next \subseteq Nat

ASSUME TaskEngineAssumption ==
  /\ MaxVisits \in Nat \ {0}
  /\ Texts # {} /\ None \notin Texts /\ Default \notin Texts
  /\ DOMAIN Folded = Texts
  /\ \A chain \in Chains :
       /\ 1 \in DOMAIN chain.tasks /\ DOMAIN chain.tasks \subseteq Nat
       /\ \A i \in DOMAIN chain.tasks :
            chain.tasks[i] # None /\ TaskOK(chain.tasks[i])

VARIABLE run   (* The chain each request runs, and its visits to tasks.    *)

(* The attempts of a visit, how often its hook has had its effect, and the *)
(* text it succeeded with.                                                 *)
Visit(task) == [task |-> task, attempts |-> 0, effects |-> 0, raw |-> None]
NoRun == [chain |-> None, visits |-> <<>>]

RunInit == run = [r \in Requests |-> NoRun]

(* A request that is over runs nothing.                                    *)
RunsEnd ==
  run' = [r \in Requests |-> IF req'[r].pc = "idle" THEN NoRun ELSE run[r]]

aroundVars == <<server, users, entries, token, begun, accountHistory, pulled>>

-----------------------------------------------------------------------------
(* Answers and what a task makes of them.                                  *)

IsNumber(text) == Len(text) = 1 /\ text[1] \in Int
IsWhole(text) == IsNumber(text) /\ text[1] % 1000 = 0

(* What the model may answer; nothing when it cannot be asked.             *)
Prompt(task, strategy) ==
  IF task.template = "empty" \/ PromptExecute(strategy) = {} THEN {} ELSE Texts

(* The answer is a key of the mapping; the value of a key that differs in  *)
(* case only may decide.                                                   *)
condition(mapping, answer) ==
  {IF mapping[key] THEN True ELSE False :
     key \in IF answer \in DOMAIN mapping
             THEN DOMAIN mapping \cap ({answer} \cup Folded[answer]) ELSE {}}

(* A score is compared as it is formatted, with two decimals.              *)
Hundredths(n) == 10 * ((n + 5) \div 10)

(* One number stands for a range of itself.                                *)
rang(answer) ==
  IF IsWhole(answer) THEN {<<answer[1], Dash, answer[1]>>}
  ELSE IF /\ Len(answer) = 3 /\ answer[2] = Dash
          /\ IsWhole(<<answer[1]>>) /\ IsWhole(<<answer[3]>>)
  THEN {answer} ELSE {}

(* The texts task may succeed with.                                        *)
TaskExec(task, strategy) ==
  LET answers == Prompt(task, strategy)
  IN CASE task.type = "string" -> answers
       [] task.type = "condition" -> UNION {condition(task.mapping, a) : a \in answers}
       [] task.type = "number" -> {a \in answers : IsWhole(a)}
       [] task.type = "score" ->
            {<<Hundredths(a[1])>> : a \in {b \in answers : IsNumber(b)}}
       [] task.type = "range" -> UNION {rang(a) : a \in answers}
       [] task.type = "hook" -> IF task.hook \in HookTypes THEN Texts ELSE {}
       [] OTHER -> {}

-----------------------------------------------------------------------------
(* Transitions.                                                            *)

Least(S) == CHOOSE i \in S : \A j \in S : i <= j
Truth(b) == IF b THEN "yes" ELSE "no"

(* yes, no, or an error: an unknown operator, or text that is no number.   *)
compare(operator, response, value) ==
  CASE operator = "equals" -> Truth(response = value)
    [] operator = "contains" -> Truth(value \in Ext!SubSeqs(response))
    [] operator = "startsWith" -> Truth(Ext!IsPrefix(value, response))
    [] operator = "endsWith" -> Truth(Ext!IsSuffix(value, response))
    [] operator \in {">", "gt"} /\ IsNumber(response) /\ IsNumber(value) ->
         Truth(response[1] > value[1])
    [] operator \in {"<", "lt"} /\ IsNumber(response) /\ IsNumber(value) ->
         Truth(response[1] < value[1])
    [] operator = "between" /\ IsNumber(response) /\ Len(value) = 3 /\ value[2] = Dash ->
         Truth(value[1] <= response[1] /\ response[1] <= value[3])
    [] OTHER -> "error"

(* The first transition that matches, or else the default; None is an      *)
(* error.  An error of a comparison comes before later matches.            *)
evaluateTransitions(next, response) ==
  LET defaults == {i \in DOMAIN next : next[i].value = Default}
      result(i) == compare(next[i].operator, response, next[i].value)
      decisive == {i \in DOMAIN next \ defaults : result(i) # "no"}
  IN IF decisive # {}
     THEN IF result(Least(decisive)) = "yes" THEN next[Least(decisive)].id ELSE None
     ELSE IF defaults # {} THEN next[Least(defaults)].id ELSE None

findTaskByID(list, id) ==
  LET found == {i \in DOMAIN list : list[i].id = id}
  IN IF found = {} THEN None ELSE list[Least(found)]

-----------------------------------------------------------------------------
(* A run.                                                                  *)

CurrentVisit(r) == run[r].visits[Len(run[r].visits)]
CurrentTask(r) == findTaskByID(run[r].chain.tasks, CurrentVisit(r).task)

(* The bound lets no run visit another task after MaxVisits.               *)
MayVisit(r) == Len(run[r].visits) < MaxVisits

(* The chain's strategy is one there is.                                   *)
Execute(r, by, chain) ==
  /\ PolicyKnown(chain.strategy)
  /\ BeginAs(r, by, "taskenviromentservice", View, [Idle EXCEPT !.pc = "attempt"])
  /\ run' = [run EXCEPT ![r] =
               [chain |-> chain, visits |-> <<Visit(chain.tasks[1].id)>>]]
  /\ UNCHANGED <<server, users, entries, token, accountHistory, pulled>>

(* A prompt without a chain, to the same model.                            *)
ExecutePrompt(r, by) ==
  /\ GetProvider # {}
  /\ BeginAs(r, by, "promptexecservice", View, [Idle EXCEPT !.pc = "prompt"])
  /\ UNCHANGED <<run, server, users, entries, token, accountHistory, pulled>>

AnswerPrompt(r) ==
  /\ req[r].pc = "prompt"
  /\ PromptExecute("random") # {}
  /\ Done(r)
  /\ UNCHANGED <<run, aroundVars>>

(* The run ends.                                                           *)
EndRun(r) ==
  /\ Done(r)
  /\ run' = [run EXCEPT ![r] = NoRun]

(* A template or a timeout that cannot be parsed ends the run at once.     *)
CannotAttempt(r) ==
  /\ req[r].pc = "attempt"
  /\ "bad" \in {CurrentTask(r).template, CurrentTask(r).timeout}
  /\ EndRun(r)
  /\ UNCHANGED aroundVars

(* Mutant: the first attempt is counted among the retries.                 *)
OutOfAttemptsEarly(task, attempts) == attempts >= task.retry

(* One attempt and the retries, if there are any.                          *)
OutOfAttempts(task, attempts) == attempts > task.retry

(* One attempt.  A hook that fails may have had its effect nevertheless.   *)
Attempt(r) ==
  LET task == CurrentTask(r)
      visit == CurrentVisit(r)
      isHook == task.type = "hook" /\ task.hook \in HookTypes
  IN /\ req[r].pc = "attempt"
     /\ task.template # "bad" /\ task.timeout # "bad"
     /\ \E raw \in TaskExec(task, run[r].chain.strategy) \cup {None},
           effects \in IF isHook THEN {0, 1} ELSE {0} :
          /\ isHook /\ raw # None => effects = 1
          /\ run' = [run EXCEPT ![r].visits[Len(run[r].visits)] =
                       [visit EXCEPT !.attempts = @ + 1,
                                     !.effects = @ + effects,
                                     !.raw = raw]]
          /\ req' = [req EXCEPT ![r].pc =
                       IF raw # None \/ OutOfAttempts(task, visit.attempts + 1)
                       THEN "transit" ELSE "attempt"]
     /\ UNCHANGED aroundVars

(* The id that follows a visit; None is an error that ends the run.        *)
NextTask(task, visit) ==
  IF visit.raw # None
  THEN IF task.print = "bad" THEN None ELSE evaluateTransitions(task.next, visit.raw)
  ELSE IF task.onError = "" THEN None ELSE task.onError

(* A task that succeeded ends the run by naming no task, or "end".         *)
Transit(r) ==
  LET task == CurrentTask(r)
      visit == CurrentVisit(r)
      next == NextTask(task, visit)
      ends == \/ next = None
              \/ visit.raw # None /\ next \in {"", "end"}
              \/ findTaskByID(run[r].chain.tasks, next) = None
  IN /\ req[r].pc = "transit"
     /\ IF ends
          THEN EndRun(r)
          ELSE /\ MayVisit(r)
               /\ run' = [run EXCEPT ![r].visits = Append(@, Visit(next))]
               /\ req' = [req EXCEPT ![r].pc = "attempt"]
     /\ UNCHANGED aroundVars

(* The routes.                                                             *)
execute(r) == \E by \in Users : ExecutePrompt(r, by)
tasks(r) == \E by \in Users, chain \in Chains : Execute(r, by, chain)

TaskRequest(r) == execute(r) \/ tasks(r)

TaskStep(r) == AnswerPrompt(r) \/ CannotAttempt(r) \/ Attempt(r) \/ Transit(r)

-----------------------------------------------------------------------------
(* Properties.                                                             *)

(* A run left a task only with a success, by a transition its answer       *)
(* matches or by default, or, over its error transition, after the first   *)
(* attempt and as many retries as the task asks for have all failed; a     *)
(* hook had its effect in every visit that succeeded, and at most once in  *)
(* each attempt.                                                           *)
VisitsExplained ==
  \A r \in Requests :
    LET visits == run[r].visits
    IN \A i \in 1 .. Len(visits) - 1 :
         LET v == visits[i]
             t == findTaskByID(run[r].chain.tasks, v.task)
             allowed == IF t.retry > 0 THEN t.retry + 1 ELSE 1
         IN /\ IF v.raw = None
                 THEN v.attempts = allowed /\ visits[i + 1].task = t.onError
                 ELSE /\ v.attempts <= allowed
                      /\ \E k \in DOMAIN t.next :
                           /\ visits[i + 1].task = t.next[k].id
                           /\ \/ t.next[k].value = Default
                              \/ compare(t.next[k].operator, v.raw, t.next[k].value)
                                   = "yes"
            /\ v.effects <= v.attempts
            /\ t.type = "hook" /\ v.raw # None => v.effects >= 1

=============================================================================
