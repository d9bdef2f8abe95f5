------------------------------- MODULE Breaker -------------------------------
(***************************************************************************)
(* One circuit breaker as a value, and what each method of Routine does to *)
(* it.  Every method holds the breaker's mutex from its first line to its  *)
(* last, so each is one function of the breaker.                           *)
(*                                                                         *)
(* The time of the last failure is represented by whether more than the    *)
(* reset timeout has passed since: nothing else is asked of it.            *)
(***************************************************************************)
EXTENDS Integers

CONSTANT Threshold  (* Failures that open a closed breaker.                *)

ASSUME ThresholdAssumption == Threshold \in Nat \ {0}

Breakers == [state : {"Closed", "Open", "HalfOpen"}, failureCount : 0..Threshold,
             inTest : BOOLEAN, elapsed : BOOLEAN]

(* A new breaker's last failure is the zero time.                          *)
NewRoutine ==
  [state |-> "Closed", failureCount |-> 0, inTest |-> FALSE, elapsed |-> TRUE]

(* What Allow returns ...                                                  *)
Allows(b) ==
  \/ b.state = "Closed"
  \/ b.state = "Open" /\ b.elapsed
  \/ b.state = "HalfOpen" /\ ~b.inTest

(* Mutant: the state does not become half-open.                            *)
AllowStaysOpen(b) == b

(* ... and what it leaves behind.                                          *)
AfterAllow(b) ==
  IF Allows(b) /\ b.state # "Closed"
    THEN [b EXCEPT !.state = "HalfOpen", !.inTest = TRUE]
    ELSE b

(* A closed breaker with no failures.                                      *)
AfterForceClose(b) ==
  [b EXCEPT !.state = "Closed", !.failureCount = 0, !.inTest = FALSE]

AfterForceOpen(b) ==
  [state |-> "Open", failureCount |-> Threshold, inTest |-> FALSE, elapsed |-> FALSE]

(* Mutants: the test's success closes without a reset; a success leaves    *)
(* the count; the test's success does not close.                           *)
SuccessKeepsTestCount(b) ==
  CASE b.state = "Closed"   -> [b EXCEPT !.failureCount = 0]
    [] b.state = "HalfOpen" -> [b EXCEPT !.state = "Closed", !.inTest = FALSE]
    [] b.state = "Open"     -> b

SuccessKeepsCount(b) == IF b.state = "HalfOpen" THEN AfterForceClose(b) ELSE b

SuccessStaysHalfOpen(b) ==
  CASE b.state = "Closed"   -> [b EXCEPT !.failureCount = 0]
    [] b.state = "HalfOpen" -> [b EXCEPT !.inTest = FALSE]
    [] b.state = "Open"     -> b

(* MarkSuccess: an open breaker ignores it.                                *)
AfterSuccess(b) ==
  CASE b.state = "Closed"   -> [b EXCEPT !.failureCount = 0]
    [] b.state = "HalfOpen" -> AfterForceClose(b)
    [] b.state = "Open"     -> b

(* Mutants: the test's failure leaves inTest; only a closed breaker        *)
(* notices failures.                                                       *)
FailureKeepsTest(b) ==
  IF b.state = "HalfOpen" THEN [b EXCEPT !.state = "Open", !.elapsed = FALSE]
  ELSE IF b.state = "Closed" /\ b.failureCount + 1 >= Threshold
    THEN [b EXCEPT !.state = "Open", !.failureCount = @ + 1, !.elapsed = FALSE]
  ELSE IF b.state = "Closed" THEN [b EXCEPT !.failureCount = @ + 1] ELSE b

FailureWhenClosedOnly(b) ==
  IF b.state # "Closed" THEN b
  ELSE IF b.failureCount + 1 >= Threshold
    THEN [b EXCEPT !.state = "Open", !.failureCount = @ + 1, !.elapsed = FALSE]
    ELSE [b EXCEPT !.failureCount = @ + 1]

(* MarkFailure: an open breaker ignores it.                                *)
AfterFailure(b) ==
  LET count == b.failureCount + 1 IN
  CASE b.state = "Closed" ->
         IF count >= Threshold
           THEN [b EXCEPT !.state = "Open", !.failureCount = count, !.elapsed = FALSE]
           ELSE [b EXCEPT !.failureCount = count]
    [] b.state = "HalfOpen" ->
         [b EXCEPT !.state = "Open", !.inTest = FALSE, !.elapsed = FALSE]
    [] b.state = "Open" -> b

(* The reset timeout passes.                                               *)
AfterTimeout(b) == [b EXCEPT !.elapsed = TRUE]
=============================================================================
