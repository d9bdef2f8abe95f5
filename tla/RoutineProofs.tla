---------------------------- MODULE RoutineProofs ----------------------------
(***************************************************************************)
(* Proofs about Routine for any number of callers, any threshold and any   *)
(* number of attempts.                                                     *)
(***************************************************************************)
EXTENDS Routine, BreakerProofs

-----------------------------------------------------------------------------
(* The breaker stays sound, however it is used.                            *)

BreakerSound == Sound(breaker)

LEMMA InitSound == Init => BreakerSound
BY ThresholdAssumption DEF Init, NewRoutine, BreakerSound, Sound, Breakers

LEMMA StepSound == BreakerSound /\ [Next]_vars => BreakerSound'
<1> SUFFICES ASSUME Sound(breaker), [Next]_vars
             PROVE  Sound(breaker')
  BY DEF BreakerSound
<1>1. ASSUME NEW c \in Callers, CallerNext(c)
      PROVE  Sound(breaker')
  BY <1>1, MethodsKeepSound
  DEF CallerNext, StartCall, Attempt, Succeed, Fail, GiveUp
<1>2. ASSUME ForceOpen \/ ForceClose \/ ManualAllow \/ TimeoutElapses
      PROVE  Sound(breaker')
  BY <1>2, MethodsKeepSound DEF ForceOpen, ForceClose, ManualAllow, TimeoutElapses
<1> QED
  BY <1>1, <1>2 DEF Next, vars

(* The count tells the state, under any mix of callers and manual calls.   *)
THEOREM CountMatchesStateCorrect == Spec => []CountMatchesState
<1>1. BreakerSound => CountMatchesState
  BY DEF BreakerSound, Sound, CountMatchesState
<1> QED
  BY <1>1, InitSound, StepSound, PTL DEF Spec

(* Every variable keeps its type.                                          *)
THEOREM TypeCorrect == Spec => []TypeOK
<1>1. Init => TypeOK
  <2> SUFFICES ASSUME Init PROVE TypeOK
    OBVIOUS
  <2>1. breaker \in Breakers
    BY InitSound DEF BreakerSound, Sound
  <2>2. caller \in [Callers -> CallerState]
    BY DEF Init, CallerState
  <2>3. streak \in 0..Threshold
    BY ThresholdAssumption DEF Init
  <2> QED
    BY <2>1, <2>2, <2>3 DEF Init, TypeOK
<1>2. TypeOK /\ BreakerSound' /\ [Next]_vars => TypeOK'
  <2> SUFFICES ASSUME TypeOK, BreakerSound', [Next]_vars
               PROVE  TypeOK'
    OBVIOUS
  <2> USE ThresholdAssumption, MaxAttemptsAssumption DEF history
  <2>1. ASSUME NEW c \in Callers
        PROVE  Retry(c) \in CallerState \/ caller[c].pc = "idle"
    BY DEF TypeOK, CallerState, Retry, Ready, IdleCaller
  <2>2. breaker' \in Breakers
    BY DEF BreakerSound, Sound
  <2>3. ASSUME NEW c \in Callers, StartCall(c)
        PROVE  TypeOK'
    BY <2>2, <2>3 DEF StartCall, TypeOK, CallerState, Ready
  <2>4. ASSUME NEW c \in Callers, Attempt(c)
        PROVE  TypeOK'
    <3>1. caller[c].left \in 1..MaxAttempts
      BY <2>4 DEF Attempt, TypeOK, CallerState, IdleCaller
    <3>2. caller'[c] \in CallerState
      <4>1. CASE Allows(breaker)
        <5>1. TakesTest(breaker) \in BOOLEAN
          BY DEF TakesTest
        <5>2. caller'[c] = [pc |-> "running", left |-> caller[c].left,
                            test |-> TakesTest(breaker)]
          BY <2>4, <4>1 DEF Attempt, TypeOK
        <5>3. \A b \in BOOLEAN :
                [pc |-> "running", left |-> caller[c].left, test |-> b]
                  \in [pc : {"ready", "running"}, left : 1..MaxAttempts, test : BOOLEAN]
          BY <3>1
        <5> QED
          BY <5>1, <5>2, <5>3, Zenon DEF CallerState
      <4>2. CASE ~Allows(breaker)
        <5>1. caller'[c] = Retry(c)
          BY <2>4, <4>2 DEF Attempt, TypeOK
        <5> QED
          BY <2>1, <2>4, <5>1 DEF Attempt
      <4> QED
        BY <4>1, <4>2
    <3> QED
      BY <2>2, <2>4, <3>2 DEF Attempt, TypeOK, history
  <2>5. ASSUME NEW c \in Callers, Succeed(c) \/ Fail(c) \/ GiveUp(c)
        PROVE  TypeOK'
    <3>1. caller'[c] \in CallerState
      BY <2>1, <2>5 DEF Succeed, Fail, GiveUp, TypeOK, CallerState
    <3> QED
      BY <2>2, <2>5, <3>1 DEF Succeed, Fail, GiveUp, TypeOK
  <2>6. ASSUME ForceOpen \/ ForceClose \/ ManualAllow \/ TimeoutElapses \/ UNCHANGED vars
        PROVE  TypeOK'
    BY <2>2, <2>6
    DEF ForceOpen, ForceClose, ManualAllow, TimeoutElapses, vars, TypeOK
  <2> QED
    BY <2>3, <2>4, <2>5, <2>6 DEF Next, CallerNext
<1> QED
  BY <1>1, <1>2, InitSound, StepSound, PTL DEF Spec

-----------------------------------------------------------------------------
(* The test of a half-open breaker.                                        *)

LEMMA StepTestIsRunning ==
  ASSUME TypeOK, BreakerSound, BreakerSound', TestIsRunning, [Next]_vars
  PROVE  TestIsRunning'
<1>1. SUFFICES ASSUME breaker'.state = "HalfOpen"
               PROVE  taker' = "hand" \/ \E c \in Callers : Testing(c)'
  BY DEF TestIsRunning, BreakerSound, Sound
<1>2. ASSUME breaker.state = "HalfOpen", taker' = taker,
             \A c \in Callers : Testing(c) => Testing(c)'
      PROVE  taker' = "hand" \/ \E c \in Callers : Testing(c)'
  BY <1>2 DEF TestIsRunning
<1>3. ASSUME NEW c \in Callers, Attempt(c)
      PROVE  taker' = "hand" \/ \E d \in Callers : Testing(d)'
  <2>1. CASE TakesTest(breaker)
    BY <1>3, <2>1 DEF Attempt, TakesTest, Testing, TypeOK
  <2>2. CASE ~TakesTest(breaker)
    <3>1. breaker.state = "HalfOpen"
      BY <1>1, <1>3, <2>2 DEF Attempt, AfterAllow, TakesTest
    <3>2. \A d \in Callers : Testing(d) => Testing(d)'
      BY <1>3 DEF Attempt, Testing, TypeOK
    <3>3. taker' = taker
      BY <1>3, <2>2 DEF Attempt, TypeOK
    <3> QED
      BY <1>2, <3>1, <3>2, <3>3
  <2> QED
    BY <2>1, <2>2
<1>4. ASSUME NEW c \in Callers, StartCall(c) \/ GiveUp(c)
      PROVE  taker' = "hand" \/ \E d \in Callers : Testing(d)'
  <2>1. breaker.state = "HalfOpen" /\ taker' = taker
    BY <1>1, <1>4 DEF StartCall, GiveUp, history
  <2>2. \A d \in Callers : Testing(d) => Testing(d)'
    BY <1>4 DEF StartCall, GiveUp, Testing, TypeOK
  <2> QED
    BY <1>2, <2>1, <2>2
<1>5. ASSUME TimeoutElapses \/ UNCHANGED vars
      PROVE  taker' = "hand" \/ \E d \in Callers : Testing(d)'
  <2>1. breaker.state = "HalfOpen"
    BY <1>1, <1>5, HalfOpenOnlyByAllow DEF BreakerSound, TimeoutElapses, vars
  <2>2. caller' = caller /\ taker' = taker
    BY <1>5 DEF TimeoutElapses, vars, history
  <2> QED
    BY <1>2, <2>1, <2>2 DEF Testing
<1>6. ASSUME ManualAllow
      PROVE  taker' = "hand" \/ \E d \in Callers : Testing(d)'
  <2>1. CASE TakesTest(breaker)
    BY <1>6, <2>1 DEF ManualAllow
  <2>2. CASE ~TakesTest(breaker)
    <3>1. breaker.state = "HalfOpen"
      BY <1>1, <1>6, <2>2 DEF ManualAllow, AfterAllow, TakesTest
    <3>2. caller' = caller /\ taker' = taker
      BY <1>6, <2>2 DEF ManualAllow, TypeOK
    <3> QED
      BY <1>2, <3>1, <3>2 DEF Testing
  <2> QED
    BY <2>1, <2>2
<1>7. ASSUME NEW c \in Callers, Succeed(c) \/ Fail(c)
      PROVE  FALSE
  BY <1>1, <1>7, HalfOpenOnlyByAllow DEF BreakerSound, Succeed, Fail
<1>8. ASSUME ForceOpen \/ ForceClose
      PROVE  FALSE
  BY <1>1, <1>8, HalfOpenOnlyByAllow DEF BreakerSound, ForceOpen, ForceClose
<1> QED
  BY <1>3, <1>4, <1>5, <1>6, <1>7, <1>8 DEF Next, CallerNext

(* A half-open breaker has a test running, whose result will end the       *)
(* half-open state, unless somebody called Allow and executed nothing.     *)
THEOREM TestIsRunningCorrect == Spec => []TestIsRunning
<1>1. Init => TestIsRunning
  BY DEF Init, NewRoutine, TestIsRunning
<1>2. TypeOK /\ BreakerSound /\ BreakerSound' /\ TestIsRunning /\ [Next]_vars
        => TestIsRunning'
  BY StepTestIsRunning
<1> QED
  BY <1>1, <1>2, InitSound, StepSound, TypeCorrect, PTL DEF Spec

-----------------------------------------------------------------------------
(* Opening after a streak of failures.                                     *)

(* The count of a closed breaker counts failures of the present streak.    *)
StreakInv ==
  /\ TypeOK
  /\ BreakerSound
  /\ breaker.state = "Closed" => breaker.failureCount <= streak

LEMMA StreakStep == StreakInv /\ TypeOK' /\ BreakerSound' /\ [Next]_vars => StreakInv'
<1> SUFFICES ASSUME StreakInv, TypeOK', BreakerSound', [Next]_vars,
                    breaker'.state = "Closed"
             PROVE  breaker'.failureCount <= streak'
  BY DEF StreakInv
<1> USE ThresholdAssumption DEF StreakInv, BreakerSound, Sound, TypeOK, Breakers, history
<1>1. ASSUME NEW c \in Callers, Succeed(c)
      PROVE  breaker'.failureCount <= streak'
  BY <1>1 DEF Succeed, AfterSuccess, AfterForceClose
<1>2. ASSUME NEW c \in Callers, Fail(c)
      PROVE  breaker'.failureCount <= streak'
  BY <1>2 DEF Fail, AfterFailure
<1>3. ASSUME NEW c \in Callers, Attempt(c)
      PROVE  breaker'.failureCount <= streak'
  BY <1>3 DEF Attempt, AfterAllow
<1>4. ASSUME NEW c \in Callers, StartCall(c) \/ GiveUp(c)
      PROVE  breaker'.failureCount <= streak'
  BY <1>4 DEF StartCall, GiveUp
<1>5. ASSUME ForceOpen \/ ForceClose
      PROVE  breaker'.failureCount <= streak'
  <2>1. breaker' = AfterForceOpen(breaker) \/ breaker' = AfterForceClose(breaker)
    BY <1>5 DEF ForceOpen, ForceClose
  <2>2. breaker' = AfterForceClose(breaker)
    BY <2>1 DEF AfterForceOpen
  <2>3. breaker'.failureCount = 0
    BY <2>2 DEF AfterForceClose
  <2> QED
    BY <2>3
<1>6. ASSUME ManualAllow \/ TimeoutElapses \/ UNCHANGED vars
      PROVE  breaker'.failureCount <= streak'
  BY <1>6 DEF ManualAllow, TimeoutElapses, vars, AfterAllow, AfterTimeout
<1> QED
  BY <1>1, <1>2, <1>3, <1>4, <1>5, <1>6 DEF Next, CallerNext

(* A closed breaker opens only when forced, or after Threshold failures    *)
(* with no success between them, whichever callers they were of.           *)
THEOREM OpensAfterStreakCorrect == Spec => OpensAfterStreak
<1> DEFINE Opens == breaker.state = "Closed" /\ breaker'.state = "Open" =>
                      caller' = caller \/ streak' >= Threshold
<1>1. Init => StreakInv
  BY InitSound, ThresholdAssumption
  DEF Init, NewRoutine, StreakInv, TypeOK, BreakerSound, Sound, CallerState
<1>2. StreakInv /\ [Next]_vars => [Opens]_vars
  <2> SUFFICES ASSUME StreakInv, Next, breaker.state = "Closed",
                      breaker'.state = "Open", caller' # caller
               PROVE  streak' >= Threshold
    OBVIOUS
  <2> USE ThresholdAssumption DEF StreakInv, BreakerSound, Sound, TypeOK, Breakers, history
  <2>1. ASSUME NEW c \in Callers, Fail(c)
        PROVE  streak' >= Threshold
    BY <2>1 DEF Fail, AfterFailure
  <2>2. ASSUME NEW c \in Callers, StartCall(c) \/ Attempt(c) \/ Succeed(c) \/ GiveUp(c)
        PROVE  breaker'.state = "Closed"
    BY <2>2 DEF StartCall, Attempt, Succeed, GiveUp, AfterAllow, AfterSuccess
  <2>3. ASSUME ForceOpen \/ ForceClose \/ ManualAllow \/ TimeoutElapses
        PROVE  caller' = caller
    BY <2>3 DEF ForceOpen, ForceClose, ManualAllow, TimeoutElapses
  <2> QED
    BY <2>1, <2>2, <2>3 DEF Next, CallerNext
<1>3. Spec => []StreakInv
  BY <1>1, StreakStep, InitSound, StepSound, TypeCorrect, PTL DEF Spec
<1> QED
  BY <1>2, <1>3, PTL DEF Spec, OpensAfterStreak
=============================================================================
