------------------------------- MODULE Routine -------------------------------
(***************************************************************************)
(* A circuit breaker used by several callers at once.  Execute asks Allow, *)
(* runs the function without the mutex and marks the result afterwards, so *)
(* a result may be marked in another state than the one that admitted the  *)
(* call.  The function returns success or failure and does not panic: a    *)
(* panic passes Execute by and leaves the result unmarked.                 *)
(***************************************************************************)
EXTENDS Breaker

CONSTANTS
  Callers,      (* Goroutines that call Execute or ExecuteWithRetry.       *)
  MaxAttempts,  (* The largest "iterations" of ExecuteWithRetry.           *)
  Manual        (* The methods somebody calls outside Execute.             *)

ASSUME MaxAttemptsAssumption == MaxAttempts \in Nat \ {0}
ASSUME ManualAssumption == Manual \subseteq {"Allow", "ForceOpen", "ForceClose"}

VARIABLES
  breaker,  (* The Routine.                                                *)
  caller,   (* What each caller is doing, the attempts it has left, and    *)
            (* whether Allow admitted it as the half-open test.            *)
  streak,   (* History: calls that failed in a row, up to Threshold, in    *)
            (* the order their results were marked.                        *)
  taker     (* History: who took the last half-open test, a "caller" or a  *)
            (* manual Allow ("hand"), which runs and marks nothing.       *)

history == <<streak, taker>>
vars == <<breaker, caller, history>>

Ready(n) == [pc |-> "ready", left |-> n, test |-> FALSE]
IdleCaller == [pc |-> "idle", left |-> 0, test |-> FALSE]

Init ==
  /\ breaker = NewRoutine
  /\ caller = [c \in Callers |-> IdleCaller]
  /\ streak = 0
  /\ taker = "caller"

-----------------------------------------------------------------------------
(* Execute is ExecuteWithRetry with one attempt.                           *)
StartCall(c) ==
  /\ caller[c].pc = "idle"
  /\ \E n \in 1..MaxAttempts : caller' = [caller EXCEPT ![c] = Ready(n)]
  /\ UNCHANGED <<breaker, history>>

(* The attempt failed or was denied: another one, or the error.            *)
Retry(c) ==
  IF caller[c].left = 1 THEN IdleCaller ELSE Ready(caller[c].left - 1)

(* Allow admits the caller as the half-open test.                          *)
TakesTest(b) == Allows(b) /\ b.state # "Closed"

(* Execute asks the breaker.                                               *)
Attempt(c) ==
  /\ caller[c].pc = "ready"
  /\ breaker' = AfterAllow(breaker)
  /\ caller' = [caller EXCEPT ![c] =
       IF Allows(breaker)
         THEN [pc |-> "running", left |-> caller[c].left,
               test |-> TakesTest(breaker)]
         ELSE Retry(c)]
  /\ taker' = IF TakesTest(breaker) THEN "caller" ELSE taker
  /\ UNCHANGED streak

(* The function has returned; Execute marks its result.                    *)
Succeed(c) ==
  /\ caller[c].pc = "running"
  /\ breaker' = AfterSuccess(breaker)
  /\ caller' = [caller EXCEPT ![c] = IdleCaller]
  /\ streak' = 0
  /\ UNCHANGED taker

Fail(c) ==
  /\ caller[c].pc = "running"
  /\ breaker' = AfterFailure(breaker)
  /\ caller' = [caller EXCEPT ![c] = Retry(c)]
  /\ streak' = IF streak < Threshold THEN streak + 1 ELSE streak
  /\ UNCHANGED taker

(* ExecuteWithRetry finds its context done before an attempt.              *)
GiveUp(c) ==
  /\ caller[c].pc = "ready"
  /\ caller' = [caller EXCEPT ![c] = IdleCaller]
  /\ UNCHANGED <<breaker, history>>

-----------------------------------------------------------------------------
ForceOpen ==
  /\ "ForceOpen" \in Manual
  /\ breaker' = AfterForceOpen(breaker)
  /\ UNCHANGED <<caller, history>>

ForceClose ==
  /\ "ForceClose" \in Manual
  /\ breaker' = AfterForceClose(breaker)
  /\ UNCHANGED <<caller, history>>

(* Somebody calls Allow and executes nothing.                              *)
ManualAllow ==
  /\ "Allow" \in Manual
  /\ breaker' = AfterAllow(breaker)
  /\ taker' = IF TakesTest(breaker) THEN "hand" ELSE taker
  /\ UNCHANGED <<caller, streak>>

TimeoutElapses ==
  /\ ~breaker.elapsed
  /\ breaker' = AfterTimeout(breaker)
  /\ UNCHANGED <<caller, history>>

CallerNext(c) == StartCall(c) \/ Attempt(c) \/ Succeed(c) \/ Fail(c) \/ GiveUp(c)

Next ==
  \/ \E c \in Callers : CallerNext(c)
  \/ ForceOpen
  \/ ForceClose
  \/ ManualAllow
  \/ TimeoutElapses

Spec == Init /\ [][Next]_vars

(* A function that was called returns, and time passes.                    *)
Fairness ==
  /\ \A c \in Callers : WF_vars(Succeed(c) \/ Fail(c))
  /\ WF_vars(TimeoutElapses)

FairSpec == Spec /\ Fairness

-----------------------------------------------------------------------------
(* Properties.                                                             *)

CallerState ==
  {IdleCaller} \cup [pc : {"ready", "running"}, left : 1..MaxAttempts, test : BOOLEAN]

TypeOK ==
  /\ breaker \in Breakers
  /\ caller \in [Callers -> CallerState]
  /\ streak \in 0..Threshold
  /\ taker \in {"caller", "hand"}

Testing(c) == caller[c].pc = "running" /\ caller[c].test

(* The breaker is closed exactly while its count is below the threshold:   *)
(* whoever closes it resets the count, and results marked late, when it is *)
(* open or half-open, do not move the count.                               *)
CountMatchesState == breaker.state = "Closed" <=> breaker.failureCount < Threshold

(* A half-open breaker denies everybody because its test is under way, and *)
(* some test really is, unless a manual Allow took it: the flag is never   *)
(* left behind by a result that was marked in another state, or the        *)
(* breaker would deny for ever.                                            *)
TestIsRunning ==
  /\ breaker.inTest <=> breaker.state = "HalfOpen"
  /\ breaker.state = "HalfOpen" => taker = "hand" \/ \E c \in Callers : Testing(c)

(* A closed breaker opens only when forced or when the last Threshold      *)
(* results, of whichever callers, were all failures: successes and         *)
(* closings in between wipe out older failures.                            *)
OpensAfterStreak ==
  [][breaker.state = "Closed" /\ breaker'.state = "Open" =>
       caller' = caller \/ streak' >= Threshold]_vars

(* The half-open state ends, even if nobody forces it, unless a manual     *)
(* Allow took its test.                                                    *)
HalfOpenEnds ==
  breaker.state = "HalfOpen" /\ taker = "caller" ~> breaker.state # "HalfOpen"

(* routine.go says HalfOpen allows a single operation attempt.             *)
SingleAttempt ==
  breaker.state = "HalfOpen" =>
    \A c, d \in Callers : Testing(c) /\ Testing(d) => c = d
=============================================================================
