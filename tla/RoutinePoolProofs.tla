-------------------------- MODULE RoutinePoolProofs --------------------------
(***************************************************************************)
(* Proofs about RoutinePool for any keys, any number of StartLoop calls    *)
(* and any threshold.                                                      *)
(***************************************************************************)
EXTENDS RoutinePool, BreakerProofs

(* The call that writes managers holds the mutex, and its key is new.      *)
InsertInv ==
  \A s \in Starts :
    /\ loop[s].pc = "insert" => mu = s /\ loop[s].key \notin created
    /\ mu = s => loop[s].pc = "insert"

AllSound == \A k \in Keys : Sound(manager[k])

PoolInv == TypeOK /\ InsertInv /\ AllSound /\ OneLoop /\ BreakerGuardsLoop

(* A goroutine of key k is the only one.                                   *)
LEMMA OnlyOne ==
  ASSUME OneLoop, NEW k \in Keys, NEW s \in Starts, NEW t \in Starts,
         Runs(s, k), Runs(t, k)
  PROVE  s = t
BY DEF OneLoop

LEMMA PoolInvInit == Init => PoolInv
<1> SUFFICES ASSUME Init PROVE PoolInv
  OBVIOUS
<1>1. NewRoutine \in Breakers /\ Sound(NewRoutine)
  BY ThresholdAssumption DEF NewRoutine, Sound, Breakers
<1>2. TypeOK
  BY <1>1 DEF Init, TypeOK
<1>3. InsertInv
  BY NoneAssumption DEF Init, InsertInv, Idle
<1>4. AllSound
  BY <1>1 DEF Init, AllSound
<1>5. OneLoop
  BY NoneAssumption DEF Init, OneLoop, Runs, Idle
<1>6. BreakerGuardsLoop
  BY DEF Init, BreakerGuardsLoop, NewRoutine
<1> QED
  BY <1>2, <1>3, <1>4, <1>5, <1>6 DEF PoolInv

-----------------------------------------------------------------------------
(* Steps of the breakers.                                                  *)

(* manager[k] becomes b, the others stay.                                  *)
LEMMA SoundStep ==
  ASSUME PoolInv, NEW k \in Keys, NEW b, Sound(b),
         manager' = [manager EXCEPT ![k] = b]
  PROVE  manager' \in [Keys -> Breakers] /\ AllSound'
BY DEF PoolInv, TypeOK, AllSound, Sound

LEMMA ManagersStep ==
  ASSUME PoolInv, [Next]_vars
  PROVE  manager' \in [Keys -> Breakers] /\ AllSound'
<1> USE DEF PoolInv
<1>1. \A s \in Starts : loop[s].pc # "idle" => loop[s].key \in Keys
  BY DEF TypeOK, Idle
<1>2. Sound(NewRoutine)
  BY ThresholdAssumption DEF NewRoutine, Sound, Breakers
<1>3. UNCHANGED manager => manager' \in [Keys -> Breakers] /\ AllSound'
  BY DEF TypeOK, AllSound
<1>4. ASSUME NEW s \in Starts, Attempt(s) \/ Succeed(s) \/ Fail(s) \/ InsertManager(s)
      PROVE  manager' \in [Keys -> Breakers] /\ AllSound'
  <2>1. PICK k \in Keys : k = loop[s].key
    BY <1>1, <1>4 DEF Attempt, Succeed, Fail, InsertManager
  <2>2. Sound(manager[k])
    BY DEF AllSound
  <2>3. PICK b : Sound(b) /\ manager' = [manager EXCEPT ![k] = b]
    BY <1>2, <1>4, <2>1, <2>2, MethodsKeepSound DEF Attempt, Succeed, Fail, InsertManager
  <2> QED
    BY <2>3, SoundStep
<1>5. ASSUME NEW k \in Keys, ResetRoutine(k) \/ TimeoutElapses(k)
      PROVE  manager' \in [Keys -> Breakers] /\ AllSound'
  <2>1. Sound(manager[k])
    BY DEF AllSound
  <2>2. PICK b : Sound(b) /\ manager' = [manager EXCEPT ![k] = b]
    BY <1>5, <2>1, MethodsKeepSound DEF ResetRoutine, TimeoutElapses
  <2> QED
    BY <2>2, SoundStep
<1>6. ASSUME NEW s \in Starts, Crash(s)
      PROVE  manager' \in [Keys -> Breakers] /\ AllSound'
  BY <1>2, <1>6 DEF Crash, AllSound, Sound
<1>7. ASSUME NEW s \in Starts, NEW k \in Keys, StartLoop(s, k) \/ StartNewLoop(s, k)
      PROVE  UNCHANGED manager
  BY <1>7 DEF StartLoop, StartNewLoop, vars
<1>8. ASSUME NEW s \in Starts,
             \/ Cancel(s) \/ Lookup(s) \/ IntervalElapses(s) \/ TakeTrigger(s)
             \/ LeaveLoop(s) \/ CleanUp(s)
      PROVE  UNCHANGED manager
  BY <1>8 DEF Cancel, Lookup, IntervalElapses, TakeTrigger, LeaveLoop, CleanUp
<1>9. ASSUME NEW k \in Keys, ForceUpdate(k)
      PROVE  UNCHANGED manager
  BY <1>9 DEF ForceUpdate
<1> QED
  BY <1>3, <1>4, <1>5, <1>6, <1>7, <1>8, <1>9 DEF Next, PoolNext, LoopNext, vars

-----------------------------------------------------------------------------
(* Steps of the maps and the goroutines.                                   *)

(* The goroutine steps that leave the maps alone.                          *)
Stays(s) ==
  \/ Lookup(s) \/ Attempt(s) \/ Succeed(s) \/ Fail(s)
  \/ IntervalElapses(s) \/ TakeTrigger(s) \/ LeaveLoop(s)

(* Such a step moves the goroutine of s within its loop.                   *)
LEMMA StaysWithin ==
  ASSUME PoolInv, NEW s \in Starts, Stays(s)
  PROVE  /\ UNCHANGED <<maps, done>>
         /\ token' \in SUBSET token
         /\ loop[s].pc \in LoopPcs \ {"insert"}
         /\ loop[s].key \in Keys
         /\ \E pc \in LoopPcs \ {"insert"} : Goto(s, pc)
<1>1. loop[s] \in {Idle} \cup [pc : LoopPcs, key : Keys]
  BY DEF PoolInv, TypeOK
<1>2. /\ UNCHANGED <<maps, done>>
      /\ token' \in SUBSET token
      /\ loop[s].pc \in LoopPcs \ {"insert"}
  BY DEF Stays, Lookup, Attempt, Succeed, Fail, IntervalElapses, TakeTrigger,
    LeaveLoop, LoopPcs
<1>3. loop[s].key \in Keys
  BY <1>1, <1>2 DEF Idle, LoopPcs
<1>4. \E pc \in {"execute", "select", "running", "cleanup"} : Goto(s, pc)
  BY DEF Stays, Lookup, Attempt, Succeed, Fail, IntervalElapses, TakeTrigger, LeaveLoop
<1> QED
  BY <1>2, <1>3, <1>4 DEF LoopPcs

(* A goroutine moves within its loop: nobody starts or ends.               *)
LEMMA GotoRuns ==
  ASSUME PoolInv, NEW s \in Starts, NEW pc \in LoopPcs \ {"insert"}, Goto(s, pc),
         loop[s].pc \in LoopPcs \ {"insert"}
  PROVE  /\ \A r \in Starts, k \in Keys : Runs(r, k)' <=> Runs(r, k)
         /\ \A r \in Starts : loop'[r].pc = "insert" <=> loop[r].pc = "insert"
         /\ \A r \in Starts : loop'[r].key = loop[r].key
         /\ loop' \in [Starts -> {Idle} \cup [pc : LoopPcs, key : Keys]]
<1>1. loop[s] \in [pc : LoopPcs, key : Keys]
  BY DEF PoolInv, TypeOK, Idle, LoopPcs
<1>2. loop'[s] = [pc |-> pc, key |-> loop[s].key] /\ \A r \in Starts : r # s => loop'[r] = loop[r]
  BY DEF PoolInv, TypeOK, Goto
<1>3. loop' \in [Starts -> {Idle} \cup [pc : LoopPcs, key : Keys]]
  BY <1>1 DEF PoolInv, TypeOK, Goto
<1> QED
  BY <1>2, <1>3 DEF Runs, LoopPcs

(* What launching a loop of a key that is not active does.                 *)
LEMMA LaunchRuns ==
  ASSUME PoolInv, NEW s \in Starts, NEW k \in Keys, k \notin loops, Launch(s, k),
         loop[s].pc \in {"idle", "insert"}
  PROVE  /\ OneLoop'
         /\ loop' \in [Starts -> {Idle} \cup [pc : LoopPcs, key : Keys]]
         /\ \A r \in Starts : loop'[r].pc = "insert" => r # s /\ loop'[r] = loop[r]
<1>1. loop'[s] = [pc |-> "lookup", key |-> k] /\ \A r \in Starts : r # s => loop'[r] = loop[r]
  BY DEF PoolInv, TypeOK, Launch
<1>2. triggerCh'[k] = s /\ \A i \in Keys : i # k => triggerCh'[i] = triggerCh[i]
  BY DEF PoolInv, TypeOK, Launch
<1>3. \A r \in Starts : ~Runs(r, k)
  BY NoneAssumption DEF PoolInv, OneLoop
<1>4. \A i \in Keys : ~Runs(s, i)
  BY DEF Runs
<1>5. OneLoop'
  <2> SUFFICES ASSUME NEW i \in Keys
               PROVE  /\ \A r \in Starts : Runs(r, i)' <=> triggerCh'[i] = r
                      /\ i \in loops' <=> triggerCh'[i] # None
    BY DEF OneLoop
  <2>1. \A r \in Starts : Runs(r, i)' <=> triggerCh'[i] = r
    BY <1>1, <1>2, <1>3, <1>4 DEF PoolInv, OneLoop, Runs
  <2>2. i \in loops' <=> triggerCh'[i] # None
    BY <1>2, NoneAssumption DEF PoolInv, OneLoop, Launch
  <2> QED
    BY <2>1, <2>2
<1>6. loop' \in [Starts -> {Idle} \cup [pc : LoopPcs, key : Keys]]
  BY DEF PoolInv, TypeOK, Launch, LoopPcs
<1> QED
  BY <1>1, <1>5, <1>6

(* Everything but the breakers.                                            *)
LEMMA MapsStep ==
  ASSUME PoolInv, [Next]_vars
  PROVE  TypeOK' /\ InsertInv' /\ OneLoop'
<1>1. manager' \in [Keys -> Breakers]
  BY ManagersStep
<1>2. ASSUME NEW s \in Starts, Stays(s)
      PROVE  TypeOK' /\ InsertInv' /\ OneLoop'
  <2>1. PICK pc \in LoopPcs \ {"insert"} : Goto(s, pc)
    BY <1>2, StaysWithin
  <2>2. /\ \A r \in Starts, k \in Keys : Runs(r, k)' <=> Runs(r, k)
        /\ \A r \in Starts : loop'[r].pc = "insert" <=> loop[r].pc = "insert"
        /\ \A r \in Starts : loop'[r].key = loop[r].key
        /\ loop' \in [Starts -> {Idle} \cup [pc : LoopPcs, key : Keys]]
    BY <1>2, <2>1, StaysWithin, GotoRuns
  <2>3. UNCHANGED <<created, loops, triggerCh, mu, done>> /\ token' \in SUBSET token
    BY <1>2, StaysWithin DEF maps
  <2>4. TypeOK'
    BY <1>1, <2>2, <2>3 DEF PoolInv, TypeOK
  <2>5. InsertInv'
    BY <2>2, <2>3 DEF PoolInv, InsertInv
  <2>6. OneLoop'
    BY <2>2, <2>3 DEF PoolInv, OneLoop
  <2> QED
    BY <2>4, <2>5, <2>6
<1>3. ASSUME NEW s \in Starts, NEW k \in Keys, StartLoop(s, k), k \notin loops
      PROVE  TypeOK' /\ InsertInv' /\ OneLoop'
  <2>1. /\ Launch(s, k)
        /\ loop[s].pc = "idle"
        /\ mu = None
        /\ k \in created /\ k \notin loops
        /\ done' = done \ {s}
        /\ UNCHANGED <<created, mu>>
    BY <1>3 DEF StartLoop
  <2>2. TypeOK'
    BY <1>1, <2>1, LaunchRuns DEF PoolInv, TypeOK, Launch
  <2>3. InsertInv'
    BY <2>1, LaunchRuns, NoneAssumption DEF PoolInv, InsertInv
  <2> QED
    BY <2>1, <2>2, <2>3, LaunchRuns
<1>4. ASSUME NEW s \in Starts, NEW k \in Keys, StartNewLoop(s, k)
      PROVE  TypeOK' /\ InsertInv' /\ OneLoop'
  <2>1. /\ loop[s].pc = "idle"
        /\ mu = None
        /\ k \notin created
        /\ mu' = s
        /\ done' = done \ {s}
        /\ UNCHANGED <<created, manager, loops, triggerCh, token>>
    BY <1>4 DEF StartNewLoop
  <2>2. /\ loop' \in [Starts -> {Idle} \cup [pc : LoopPcs, key : Keys]]
        /\ loop'[s] = [pc |-> "insert", key |-> k]
        /\ \A r \in Starts : r # s => loop'[r] = loop[r]
    BY <1>4 DEF StartNewLoop, PoolInv, TypeOK, LoopPcs
  <2>3. TypeOK'
    BY <2>1, <2>2 DEF PoolInv, TypeOK
  <2>4. InsertInv'
    BY <2>1, <2>2, NoneAssumption DEF PoolInv, InsertInv
  <2>5. \A r \in Starts, i \in Keys : Runs(r, i)' <=> Runs(r, i)
    BY <2>1, <2>2 DEF Runs
  <2>6. OneLoop'
    BY <2>1, <2>5 DEF PoolInv, OneLoop
  <2> QED
    BY <2>3, <2>4, <2>6
<1>5. ASSUME NEW s \in Starts, InsertManager(s)
      PROVE  TypeOK' /\ InsertInv' /\ OneLoop'
  <2>1. PICK k \in Keys : k = loop[s].key
    BY <1>5 DEF InsertManager, PoolInv, TypeOK, Idle
  <2>2. /\ loop[s].pc = "insert"
        /\ created' = created \cup {k}
        /\ Launch(s, k)
        /\ mu' = None
        /\ UNCHANGED done
    BY <1>5, <2>1 DEF InsertManager
  <2>3. mu = s /\ k \notin created /\ k \notin loops
    BY <2>1, <2>2 DEF PoolInv, InsertInv, TypeOK
  <2>4. TypeOK'
    BY <1>1, <2>2, <2>3, LaunchRuns DEF PoolInv, TypeOK, Launch
  <2>5. \A r \in Starts : loop'[r].pc # "insert"
    BY <2>2, <2>3, LaunchRuns DEF PoolInv, InsertInv
  <2>6. InsertInv'
    BY <2>2, <2>5, NoneAssumption DEF InsertInv
  <2> QED
    BY <2>2, <2>3, <2>4, <2>6, LaunchRuns
<1>6. ASSUME NEW s \in Starts, CleanUp(s)
      PROVE  TypeOK' /\ InsertInv' /\ OneLoop'
  <2>1. PICK k \in Keys : k = loop[s].key
    BY <1>6 DEF CleanUp, PoolInv, TypeOK, Idle
  <2>2. /\ loops' = loops \ {k}
        /\ triggerCh' = [triggerCh EXCEPT ![k] = None]
        /\ token' = token \ {s}
        /\ loop' = [loop EXCEPT ![s] = Idle]
        /\ UNCHANGED <<created, manager, done, mu>>
        /\ Runs(s, k)
    BY <1>6, <2>1 DEF CleanUp, Runs
  <2>3. /\ loop'[s] = Idle
        /\ \A r \in Starts : r # s => loop'[r] = loop[r]
        /\ triggerCh'[k] = None
        /\ \A i \in Keys : i # k => triggerCh'[i] = triggerCh[i]
    BY <2>2 DEF PoolInv, TypeOK
  <2>4. TypeOK'
    BY <2>2 DEF PoolInv, TypeOK
  <2>5. InsertInv'
    <3>1. loop[s].pc # "insert" /\ Idle.pc # "insert"
      BY <2>2 DEF Runs, Idle
    <3> QED
      BY <2>2, <2>3, <3>1 DEF PoolInv, InsertInv
  <2>6. OneLoop'
    <3> SUFFICES ASSUME NEW i \in Keys
                 PROVE  /\ \A r \in Starts : Runs(r, i)' <=> triggerCh'[i] = r
                        /\ i \in loops' <=> triggerCh'[i] # None
      BY DEF OneLoop
    <3>1. \A r \in Starts : r # s => (Runs(r, i)' <=> Runs(r, i))
      BY <2>3 DEF Runs
    <3>2. ~Runs(s, i)'
      BY <2>3 DEF Runs, Idle
    <3>3. Runs(s, i) <=> i = k
      BY <2>1, <2>2 DEF Runs
    <3>4. triggerCh[k] = s
      BY <2>2 DEF PoolInv, OneLoop
    <3> QED
      BY <2>2, <2>3, <3>1, <3>2, <3>3, <3>4, NoneAssumption DEF PoolInv, OneLoop
  <2> QED
    BY <2>4, <2>5, <2>6
<1>7. ASSUME NEW s \in Starts, Crash(s)
      PROVE  TypeOK' /\ InsertInv' /\ OneLoop'
  <2>1. TypeOK'
    BY <1>1, <1>7 DEF Crash, TypeOK
  <2>2. InsertInv'
    BY <1>7, NoneAssumption DEF Crash, InsertInv, Idle
  <2>3. OneLoop'
    BY <1>7, NoneAssumption DEF Crash, OneLoop, Runs, Idle
  <2> QED
    BY <2>1, <2>2, <2>3
<1>8. ASSUME UNCHANGED <<created, loops, triggerCh, mu, loop>>,
             token' \in SUBSET Starts, done' \in SUBSET Starts
      PROVE  TypeOK' /\ InsertInv' /\ OneLoop'
  BY <1>1, <1>8 DEF PoolInv, TypeOK, InsertInv, OneLoop, Runs
<1>9. ASSUME NEW k \in Keys, ForceUpdate(k) \/ ResetRoutine(k) \/ TimeoutElapses(k)
      PROVE  /\ UNCHANGED <<created, loops, triggerCh, mu, loop>>
             /\ token' \in SUBSET Starts /\ done' \in SUBSET Starts
  BY <1>9 DEF ForceUpdate, ResetRoutine, TimeoutElapses, maps, PoolInv, TypeOK
<1>10. ASSUME NEW s \in Starts, Cancel(s)
       PROVE  /\ UNCHANGED <<created, loops, triggerCh, mu, loop>>
              /\ token' \in SUBSET Starts /\ done' \in SUBSET Starts
  BY <1>10 DEF Cancel, maps, PoolInv, TypeOK
<1>11. ASSUME UNCHANGED vars
       PROVE  /\ UNCHANGED <<created, loops, triggerCh, mu, loop>>
              /\ token' \in SUBSET Starts /\ done' \in SUBSET Starts
  BY <1>11 DEF vars, maps, PoolInv, TypeOK
<1>12. ASSUME NEW s \in Starts, NEW k \in Keys, StartLoop(s, k), k \in loops
       PROVE  UNCHANGED vars
  BY <1>12 DEF StartLoop
<1> QED
  BY <1>2, <1>3, <1>4, <1>5, <1>6, <1>7, <1>8, <1>9, <1>10, <1>11, <1>12
  DEF Next, PoolNext, LoopNext, Stays

-----------------------------------------------------------------------------
(* Steps of what runs.                                                     *)

(* Nobody starts or ends to execute.                                       *)
LEMMA ExecutingStays ==
  ASSUME NEW k \in Keys,
         \A r \in Starts :
           loop'[r] # loop[r] => loop[r].pc # "running" /\ loop'[r].pc # "running"
  PROVE  Executing(k)' <=> Executing(k)
BY DEF Executing, Runs

(* The only goroutine of a key is not running its function.                *)
LEMMA NotExecuting ==
  ASSUME PoolInv, NEW k \in Keys, NEW s \in Starts, Runs(s, k), loop[s].pc # "running"
  PROVE  ~Executing(k)
BY OnlyOne DEF Executing, PoolInv

LEMMA NotExecutingNext ==
  ASSUME OneLoop', NEW k \in Keys, NEW s \in Starts, Runs(s, k)', loop'[s].pc # "running"
  PROVE  ~Executing(k)'
BY DEF Executing, OneLoop

LEMMA GuardsStep ==
  ASSUME PoolInv, OneLoop', AllSound', [Next]_vars
  PROVE  BreakerGuardsLoop'
<1> SUFFICES ASSUME NEW k \in Keys
             PROVE  /\ manager'[k].state = "Open" => ~Executing(k)'
                    /\ manager'[k].state = "HalfOpen" => Executing(k)'
  BY DEF BreakerGuardsLoop, AllSound, Sound
<1> DEFINE Goal == /\ manager'[k].state = "Open" => ~Executing(k)'
                   /\ manager'[k].state = "HalfOpen" => Executing(k)'
<1> USE DEF PoolInv
<1>1. Sound(manager[k])
  BY DEF AllSound
<1>2. /\ manager[k].state = "Open" => ~Executing(k)
      /\ manager[k].state = "HalfOpen" => Executing(k)
  BY DEF BreakerGuardsLoop
<1> DEFINE Quiet == \A r \in Starts :
              loop'[r] # loop[r] => loop[r].pc # "running" /\ loop'[r].pc # "running"
<1>3. manager'[k].state = manager[k].state /\ Quiet => Goal
  BY <1>2, ExecutingStays
<1>4. manager'[k].state = "Closed" => Goal
  OBVIOUS
<1> HIDE DEF Goal, Quiet
<1>5. ASSUME NEW s \in Starts, Attempt(s) \/ Succeed(s) \/ Fail(s)
      PROVE  Goal
  <2>1. PICK i \in Keys : i = loop[s].key
    BY <1>5, StaysWithin DEF Stays
  <2>2. PICK pc \in LoopPcs \ {"insert"} : Goto(s, pc)
    BY <1>5, StaysWithin DEF Stays
  <2>3. loop'[s] = [pc |-> pc, key |-> i] /\ \A r \in Starts : r # s => loop'[r] = loop[r]
    BY <2>1, <2>2 DEF Goto, TypeOK
  <2>4. CASE i # k
    <3>1. manager'[k] = manager[k]
      BY <1>5, <2>1, <2>4 DEF Attempt, Succeed, Fail, TypeOK
    <3>2. Executing(k)' <=> Executing(k)
      BY <2>1, <2>3, <2>4 DEF Executing, Runs
    <3> QED
      BY <1>2, <3>1, <3>2 DEF Goal
  <2>5. CASE i = k /\ Attempt(s) /\ Allows(manager[k])
    <3>1. manager'[k] = AfterAllow(manager[k]) /\ loop'[s].pc = "running"
      BY <2>1, <2>3, <2>5 DEF Attempt, Goto, TypeOK
    <3>2. manager'[k].state # "Open"
      BY <1>1, <2>5, <3>1 DEF AfterAllow, Allows, Sound, Breakers
    <3>3. Executing(k)'
      BY <2>3, <2>5, <3>1 DEF Executing, Runs
    <3> QED
      BY <3>2, <3>3 DEF Goal
  <2>6. CASE i = k /\ Attempt(s) /\ ~Allows(manager[k])
    <3>1. manager'[k] = manager[k] /\ loop[s].pc = "execute" /\ loop'[s].pc = "select"
      BY <1>1, <2>1, <2>3, <2>6, HalfOpenOnlyByAllow DEF Attempt, Goto, TypeOK
    <3>2. Quiet
      BY <2>3, <3>1 DEF Quiet
    <3> QED
      BY <1>3, <3>1, <3>2
  <2>7. CASE i = k /\ (Succeed(s) \/ Fail(s))
    <3>1. manager'[k] = AfterSuccess(manager[k]) \/ manager'[k] = AfterFailure(manager[k])
      BY <2>1, <2>7 DEF Succeed, Fail, TypeOK
    <3>2. manager'[k].state # "HalfOpen"
      BY <1>1, <3>1, HalfOpenOnlyByAllow
    <3>3. loop'[s].pc = "select" /\ Runs(s, k)'
      BY <2>3, <2>7 DEF Succeed, Fail, Goto, TypeOK, Runs
    <3>4. ~Executing(k)'
      BY <3>3, NotExecutingNext
    <3> QED
      BY <3>2, <3>4 DEF Goal
  <2> QED
    BY <1>5, <2>4, <2>5, <2>6, <2>7
<1>6. ASSUME NEW s \in Starts,
             Lookup(s) \/ IntervalElapses(s) \/ TakeTrigger(s) \/ LeaveLoop(s) \/ CleanUp(s)
      PROVE  Goal
  <2>1. manager' = manager /\ loop[s].pc # "running"
    BY <1>6 DEF Lookup, IntervalElapses, TakeTrigger, LeaveLoop, CleanUp
  <2>2. loop'[s].pc # "running" /\ \A r \in Starts : r # s => loop'[r] = loop[r]
    BY <1>6 DEF Lookup, IntervalElapses, TakeTrigger, LeaveLoop, CleanUp, Goto, Idle, TypeOK
  <2>3. Quiet
    BY <2>1, <2>2 DEF Quiet
  <2> QED
    BY <1>3, <2>1, <2>3
<1>7. ASSUME NEW s \in Starts, NEW i \in Keys,
             (StartLoop(s, i) /\ i \notin loops) \/ StartNewLoop(s, i)
      PROVE  Goal
  <2>1. manager' = manager /\ loop[s].pc # "running"
    BY <1>7 DEF StartLoop, StartNewLoop
  <2>2. loop'[s].pc # "running" /\ \A r \in Starts : r # s => loop'[r] = loop[r]
    BY <1>7 DEF StartLoop, StartNewLoop, Launch, TypeOK
  <2>3. Quiet
    BY <2>1, <2>2 DEF Quiet
  <2> QED
    BY <1>3, <2>1, <2>3
<1>8. ASSUME NEW s \in Starts, InsertManager(s)
      PROVE  Goal
  <2>1. loop[s].pc = "insert" /\ manager' = [manager EXCEPT ![loop[s].key] = NewRoutine]
    BY <1>8 DEF InsertManager
  <2>2. manager'[k] = NewRoutine \/ manager'[k] = manager[k]
    BY <2>1 DEF TypeOK
  <2>3. loop'[s].pc # "running" /\ \A r \in Starts : r # s => loop'[r] = loop[r]
    BY <1>8 DEF InsertManager, Launch, TypeOK
  <2>4. Quiet
    BY <2>1, <2>3 DEF Quiet
  <2> QED
    BY <1>3, <1>4, <2>2, <2>4 DEF NewRoutine
<1>9. ASSUME NEW i \in Keys, ResetRoutine(i) \/ TimeoutElapses(i)
      PROVE  Goal
  <2>1. loop' = loop
    BY <1>9 DEF ResetRoutine, TimeoutElapses
  <2>2. \/ manager'[k] = AfterForceClose(manager[k])
        \/ manager'[k] = AfterTimeout(manager[k])
        \/ manager'[k] = manager[k]
    BY <1>9 DEF ResetRoutine, TimeoutElapses, TypeOK
  <2>3. manager'[k].state \in {"Closed", manager[k].state}
    BY <1>1, <2>2 DEF AfterForceClose, AfterTimeout, Sound, Breakers
  <2>4. Quiet
    BY <2>1 DEF Quiet
  <2> QED
    BY <1>3, <1>4, <2>3, <2>4
<1>10. ASSUME NEW s \in Starts, Crash(s)
       PROVE  Goal
  <2>1. manager'[k].state = "Closed"
    BY <1>10 DEF Crash, NewRoutine
  <2> QED
    BY <1>4, <2>1
<1>11. ASSUME UNCHANGED <<manager, loop>>
       PROVE  Goal
  BY <1>3, <1>11 DEF Quiet
<1>12. ASSUME NEW i \in Keys, ForceUpdate(i)
       PROVE  UNCHANGED <<manager, loop>>
  BY <1>12 DEF ForceUpdate
<1>13. ASSUME NEW s \in Starts, Cancel(s)
       PROVE  UNCHANGED <<manager, loop>>
  BY <1>13 DEF Cancel
<1>14. ASSUME NEW s \in Starts, NEW i \in Keys, StartLoop(s, i), i \in loops
       PROVE  UNCHANGED <<manager, loop>>
  BY <1>14 DEF StartLoop, vars
<1>15. UNCHANGED vars => UNCHANGED <<manager, loop>>
  BY DEF vars
<1>16. Goal
  BY <1>5, <1>6, <1>7, <1>8, <1>9, <1>10, <1>11, <1>12, <1>13, <1>14, <1>15
  DEF Next, PoolNext, LoopNext
<1> QED
  BY <1>16 DEF Goal

-----------------------------------------------------------------------------
LEMMA PoolInvCorrect == Spec => []PoolInv
<1>1. PoolInv /\ [Next]_vars => PoolInv'
  BY ManagersStep, MapsStep, GuardsStep DEF PoolInv
<1> QED
  BY <1>1, PoolInvInit, PTL DEF Spec

(* Every variable keeps its type, and only keys with a breaker are active. *)
THEOREM TypeCorrect == Spec => []TypeOK
<1>1. PoolInv => TypeOK
  BY DEF PoolInv
<1> QED
  BY <1>1, PoolInvCorrect, PTL

(* The breaker of every key stays sound however goroutines, callers and    *)
(* crashes mix: its count says whether it is closed, and it is in its test *)
(* exactly while it is half-open.                                          *)
THEOREM PoolBreakersSound == Spec => []AllSound
<1>1. PoolInv => AllSound
  BY DEF PoolInv
<1> QED
  BY <1>1, PoolInvCorrect, PTL

(* At most one loop per key, and the pool's maps name it.                  *)
THEOREM OneLoopCorrect == Spec => []OneLoop
<1>1. PoolInv => OneLoop
  BY DEF PoolInv
<1> QED
  BY <1>1, PoolInvCorrect, PTL

(* Nothing runs behind an open breaker; a half-open one has its test.      *)
THEOREM BreakerGuardsLoopCorrect == Spec => []BreakerGuardsLoop
<1>1. PoolInv => BreakerGuardsLoop
  BY DEF PoolInv
<1> QED
  BY <1>1, PoolInvCorrect, PTL
=============================================================================
