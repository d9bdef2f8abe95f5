---------------------------- MODULE BreakerProofs ----------------------------
(***************************************************************************)
(* What the methods do to a breaker, for any threshold.                    *)
(***************************************************************************)
EXTENDS Breaker, TLAPS

(* The methods keep a breaker a breaker.                                   *)
LEMMA MethodTypes ==
  ASSUME NEW b \in Breakers,
         b.state = "Closed" => b.failureCount < Threshold
  PROVE  /\ NewRoutine \in Breakers
         /\ AfterAllow(b) \in Breakers
         /\ AfterForceOpen(b) \in Breakers
         /\ AfterForceClose(b) \in Breakers
         /\ AfterSuccess(b) \in Breakers
         /\ AfterFailure(b) \in Breakers
         /\ AfterTimeout(b) \in Breakers
<1> USE DEF Breakers
<1>1. /\ Threshold \in Nat \ {0}
      /\ 0 \in 0..Threshold
      /\ Threshold \in 0..Threshold
  BY ThresholdAssumption
<1>2. NewRoutine \in Breakers
  BY <1>1 DEF NewRoutine
<1>3. AfterForceOpen(b) \in Breakers
  BY <1>1 DEF AfterForceOpen
<1>4. AfterTimeout(b) \in Breakers
  BY DEF AfterTimeout
<1>5. AfterAllow(b) \in Breakers
  BY DEF AfterAllow
<1>6. AfterForceClose(b) \in Breakers
  BY <1>1 DEF AfterForceClose
<1>7. AfterSuccess(b) \in Breakers
  BY <1>1, <1>6 DEF AfterSuccess
<1>8. AfterFailure(b) \in Breakers
  <2>1. b.state = "Closed" => b.failureCount + 1 \in 0..Threshold
    BY <1>1
  <2> QED
    BY <2>1 DEF AfterFailure
<1> QED
  BY <1>2, <1>3, <1>4, <1>5, <1>6, <1>7, <1>8

(* A breaker whose count and test flag agree with its state.               *)
Sound(b) ==
  /\ b \in Breakers
  /\ b.state = "Closed" <=> b.failureCount < Threshold
  /\ b.inTest <=> b.state = "HalfOpen"

(* The methods keep a breaker sound, and say which states they lead to.    *)
LEMMA MethodsKeepSound ==
  ASSUME NEW b, Sound(b)
  PROVE  /\ Sound(AfterAllow(b))
         /\ Sound(AfterForceOpen(b))
         /\ Sound(AfterForceClose(b))
         /\ Sound(AfterSuccess(b))
         /\ Sound(AfterFailure(b))
         /\ Sound(AfterTimeout(b))
<1> USE ThresholdAssumption DEF Sound
<1>1. b \in Breakers /\ (b.state = "Closed" => b.failureCount < Threshold)
  OBVIOUS
<1>2. /\ AfterAllow(b) \in Breakers
      /\ AfterForceOpen(b) \in Breakers
      /\ AfterForceClose(b) \in Breakers
      /\ AfterSuccess(b) \in Breakers
      /\ AfterFailure(b) \in Breakers
      /\ AfterTimeout(b) \in Breakers
  BY <1>1, MethodTypes
<1>3. Sound(AfterAllow(b))
  BY <1>2 DEF AfterAllow, Allows, Breakers
<1>4. Sound(AfterForceOpen(b)) /\ Sound(AfterForceClose(b))
  BY <1>2 DEF AfterForceOpen, AfterForceClose, Breakers
<1>5. Sound(AfterSuccess(b))
  BY <1>2 DEF AfterSuccess, AfterForceClose, Breakers
<1>6. Sound(AfterFailure(b))
  BY <1>2 DEF AfterFailure, Breakers
<1>7. Sound(AfterTimeout(b))
  BY <1>2 DEF AfterTimeout, Breakers
<1> QED
  BY <1>3, <1>4, <1>5, <1>6, <1>7

(* A half-open breaker is made by Allow alone, and survives only a denied  *)
(* Allow or the passing of time.                                           *)
LEMMA HalfOpenOnlyByAllow ==
  ASSUME NEW b, Sound(b)
  PROVE  /\ AfterSuccess(b).state # "HalfOpen"
         /\ AfterFailure(b).state # "HalfOpen"
         /\ AfterForceOpen(b).state # "HalfOpen"
         /\ AfterForceClose(b).state # "HalfOpen"
         /\ AfterTimeout(b).state = b.state
         /\ ~Allows(b) => AfterAllow(b) = b
<1> USE DEF Sound, Breakers
<1>1. AfterForceClose(b).state # "HalfOpen"
  BY DEF AfterForceClose
<1>2. AfterSuccess(b).state # "HalfOpen"
  BY <1>1 DEF AfterSuccess
<1>3. AfterFailure(b).state # "HalfOpen"
  BY DEF AfterFailure
<1>4. AfterForceOpen(b).state # "HalfOpen" /\ AfterTimeout(b).state = b.state
  BY DEF AfterForceOpen, AfterTimeout
<1>5. ~Allows(b) => AfterAllow(b) = b
  BY DEF AfterAllow
<1> QED
  BY <1>1, <1>2, <1>3, <1>4, <1>5
=============================================================================
