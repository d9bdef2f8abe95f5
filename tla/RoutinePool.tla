----------------------------- MODULE RoutinePool -----------------------------
(***************************************************************************)
(* The pool of keyed background loops.  Each key has one breaker, made by  *)
(* the first StartLoop of the key and never dropped, and at most one loop, *)
(* a goroutine that executes the key's function through the breaker, waits *)
(* in a select and starts over until its context is done.                  *)
(*                                                                         *)
(* The pool's mutex makes each method one step, but for the one that       *)
(* writes the map of breakers: the new goroutine reads that map without    *)
(* the mutex, so the write is a step of its own.                           *)
(***************************************************************************)
EXTENDS Breaker

CONSTANTS
  Keys,    (* Keys of routines.                                            *)
  Starts,  (* StartLoop calls under way, each with a context of its own.   *)
  None     (* No call.                                                     *)

ASSUME NoneAssumption == None \notin Starts

VARIABLES
  created,    (* The keys of the map managers ...                          *)
  manager,    (* ... and their breakers.                                   *)
  loops,      (* The keys marked active.                                   *)
  triggerCh,  (* The channel of each active key, named by the call that    *)
              (* made it.                                                  *)
  token,      (* The channels that hold a signal (their capacity is one).  *)
  loop,       (* What each call, or the goroutine it started, is doing.    *)
  done,       (* The calls whose context is done.                          *)
  mu          (* The call that holds the mutex while it writes managers.   *)

maps == <<created, loops, triggerCh, mu>>
vars == <<maps, manager, token, loop, done>>

Idle == [pc |-> "idle", key |-> None]
Goto(s, pc) == loop' = [loop EXCEPT ![s] = [pc |-> pc, key |-> loop[s].key]]

Init ==
  /\ created = {}
  /\ manager = [k \in Keys |-> NewRoutine]
  /\ loops = {}
  /\ triggerCh = [k \in Keys |-> None]
  /\ token = {}
  /\ loop = [s \in Starts |-> Idle]
  /\ done = {}
  /\ mu = None

-----------------------------------------------------------------------------
(* Methods of the pool.                                                    *)

(* StartLoop marks the key active and starts its goroutine.                *)
Launch(s, k) ==
  /\ loops' = loops \cup {k}
  /\ triggerCh' = [triggerCh EXCEPT ![k] = s]
  /\ token' = token \ {s}
  /\ loop' = [loop EXCEPT ![s] = [pc |-> "lookup", key |-> k]]

(* StartLoop of a key that has a breaker: nothing to do if it is active.   *)
StartLoop(s, k) ==
  /\ loop[s].pc = "idle"
  /\ mu = None
  /\ k \in created
  /\ IF k \in loops
       THEN UNCHANGED vars
       ELSE /\ Launch(s, k)
            /\ done' = done \ {s}
            /\ UNCHANGED <<created, manager, mu>>

(* StartLoop of a new key starts to write managers ...                     *)
StartNewLoop(s, k) ==
  /\ loop[s].pc = "idle"
  /\ mu = None
  /\ k \notin created
  /\ mu' = s
  /\ loop' = [loop EXCEPT ![s] = [pc |-> "insert", key |-> k]]
  /\ done' = done \ {s}
  /\ UNCHANGED <<created, manager, loops, triggerCh, token>>

(* Mutant: the new breaker is not stored.                                  *)
InsertNothing(s) ==
  /\ loop[s].pc = "insert"
  /\ Launch(s, loop[s].key)
  /\ mu' = None
  /\ UNCHANGED <<created, manager, done>>

(* ... and has written it.  A new key is not active.                       *)
InsertManager(s) ==
  LET k == loop[s].key IN
  /\ loop[s].pc = "insert"
  /\ created' = created \cup {k}
  /\ manager' = [manager EXCEPT ![k] = NewRoutine]
  /\ Launch(s, k)
  /\ mu' = None
  /\ UNCHANGED done

ForceUpdate(k) ==
  /\ mu = None
  /\ triggerCh[k] # None
  /\ token' = token \cup {triggerCh[k]}
  /\ UNCHANGED <<maps, manager, loop, done>>

ResetRoutine(k) ==
  /\ mu = None
  /\ k \in created
  /\ manager' = [manager EXCEPT ![k] = AfterForceClose(manager[k])]
  /\ UNCHANGED <<maps, token, loop, done>>

-----------------------------------------------------------------------------
(* The goroutine of a loop.                                                *)

(* It reads managers without the mutex.                                    *)
Lookup(s) ==
  /\ loop[s].pc = "lookup"
  /\ Goto(s, "execute")
  /\ UNCHANGED <<maps, manager, token, done>>

(* The runtime may notice a map read while it is written and kill the      *)
(* process: the server starts again with a new pool.                       *)
Crash(s) ==
  /\ loop[s].pc = "lookup"
  /\ mu # None
  /\ created' = {}
  /\ manager' = [k \in Keys |-> NewRoutine]
  /\ loops' = {}
  /\ triggerCh' = [k \in Keys |-> None]
  /\ token' = {}
  /\ loop' = [r \in Starts |-> Idle]
  /\ done' = {}
  /\ mu' = None

(* Execute asks the breaker.                                               *)
Attempt(s) ==
  LET k == loop[s].key IN
  /\ loop[s].pc = "execute"
  /\ manager' = [manager EXCEPT ![k] = AfterAllow(manager[k])]
  /\ Goto(s, IF Allows(manager[k]) THEN "running" ELSE "select")
  /\ UNCHANGED <<maps, token, done>>

(* The function has returned; Execute marks its result.                    *)
Succeed(s) ==
  LET k == loop[s].key IN
  /\ loop[s].pc = "running"
  /\ manager' = [manager EXCEPT ![k] = AfterSuccess(manager[k])]
  /\ Goto(s, "select")
  /\ UNCHANGED <<maps, token, done>>

Fail(s) ==
  LET k == loop[s].key IN
  /\ loop[s].pc = "running"
  /\ manager' = [manager EXCEPT ![k] = AfterFailure(manager[k])]
  /\ Goto(s, "select")
  /\ UNCHANGED <<maps, token, done>>

(* The three cases of the select: any ready one may be taken.              *)
IntervalElapses(s) ==
  /\ loop[s].pc = "select"
  /\ Goto(s, "execute")
  /\ UNCHANGED <<maps, manager, token, done>>

(* Mutant: a signal is taken and the loop waits on.                        *)
TakeTriggerAndWait(s) ==
  /\ loop[s].pc = "select"
  /\ s \in token
  /\ token' = token \ {s}
  /\ UNCHANGED <<maps, manager, loop, done>>

TakeTrigger(s) ==
  /\ loop[s].pc = "select"
  /\ s \in token
  /\ token' = token \ {s}
  /\ Goto(s, "execute")
  /\ UNCHANGED <<maps, manager, done>>

(* Mutant: the context is looked at only when nothing is triggered.        *)
LeaveUntriggeredLoop(s) ==
  /\ loop[s].pc = "select"
  /\ s \in done \ token
  /\ Goto(s, "cleanup")
  /\ UNCHANGED <<maps, manager, token, done>>

LeaveLoop(s) ==
  /\ loop[s].pc = "select"
  /\ s \in done
  /\ Goto(s, "cleanup")
  /\ UNCHANGED <<maps, manager, token, done>>

(* Mutant: the channel stays in the map.                                   *)
CleanUpLoopsOnly(s) ==
  /\ loop[s].pc = "cleanup"
  /\ mu = None
  /\ loops' = loops \ {loop[s].key}
  /\ token' = token \ {s}
  /\ loop' = [loop EXCEPT ![s] = Idle]
  /\ UNCHANGED <<created, triggerCh, manager, done, mu>>

(* The goroutine takes the mutex and deletes the key from both maps; a     *)
(* signal left in the channel goes with it.                                *)
CleanUp(s) ==
  LET k == loop[s].key IN
  /\ loop[s].pc = "cleanup"
  /\ mu = None
  /\ loops' = loops \ {k}
  /\ triggerCh' = [triggerCh EXCEPT ![k] = None]
  /\ token' = token \ {s}
  /\ loop' = [loop EXCEPT ![s] = Idle]
  /\ UNCHANGED <<created, manager, done, mu>>

-----------------------------------------------------------------------------
(* The environment.                                                        *)

Cancel(s) ==
  /\ loop[s].pc # "idle"
  /\ done' = done \cup {s}
  /\ UNCHANGED <<maps, manager, token, loop>>

TimeoutElapses(k) ==
  /\ ~manager[k].elapsed
  /\ manager' = [manager EXCEPT ![k] = AfterTimeout(manager[k])]
  /\ UNCHANGED <<maps, token, loop, done>>

-----------------------------------------------------------------------------
LoopNext(s) ==
  \/ Lookup(s)
  \/ Attempt(s)
  \/ Succeed(s)
  \/ Fail(s)
  \/ IntervalElapses(s)
  \/ TakeTrigger(s)
  \/ LeaveLoop(s)
  \/ CleanUp(s)

PoolNext(k) ==
  \/ \E s \in Starts : StartLoop(s, k) \/ StartNewLoop(s, k)
  \/ ForceUpdate(k)
  \/ ResetRoutine(k)
  \/ TimeoutElapses(k)

Next ==
  \/ \E k \in Keys : PoolNext(k)
  \/ \E s \in Starts : InsertManager(s) \/ Cancel(s) \/ Crash(s) \/ LoopNext(s)

Spec == Init /\ [][Next]_vars

(* Goroutines run, functions return, timers fire; select chooses at random *)
(* among its ready cases and the mutex is not held for ever from anybody   *)
(* who waits for it.                                                       *)
Fairness ==
  /\ \A s \in Starts :
       /\ WF_vars(InsertManager(s))
       /\ WF_vars(LoopNext(s))
       /\ SF_vars(TakeTrigger(s))
       /\ SF_vars(LeaveLoop(s))
       /\ SF_vars(CleanUp(s))
  /\ \A k \in Keys : WF_vars(TimeoutElapses(k))

FairSpec == Spec /\ Fairness

-----------------------------------------------------------------------------
(* Properties.                                                             *)

LoopPcs == {"insert", "lookup", "execute", "running", "select", "cleanup"}

TypeOK ==
  /\ created \in SUBSET Keys
  /\ manager \in [Keys -> Breakers]
  /\ loops \in SUBSET created
  /\ triggerCh \in [Keys -> Starts \cup {None}]
  /\ token \in SUBSET Starts
  /\ loop \in [Starts -> {Idle} \cup [pc : LoopPcs, key : Keys]]
  /\ done \in SUBSET Starts
  /\ mu \in Starts \cup {None}

(* s has a goroutine in or around the loop of key k.                       *)
Runs(s, k) == loop[s].pc \notin {"idle", "insert"} /\ loop[s].key = k
Executing(k) == \E s \in Starts : Runs(s, k) /\ loop[s].pc = "running"

(* For each key at most one loop is active, and the pool's maps say which: *)
(* a signal of ForceUpdate always reaches the loop that is running, never  *)
(* the channel of an earlier one, although a loop's end and its clean-up   *)
(* are two steps and a new StartLoop may come in between.                  *)
OneLoop ==
  \A k \in Keys :
    /\ \A s \in Starts : Runs(s, k) <=> triggerCh[k] = s
    /\ k \in loops <=> triggerCh[k] # None

(* No function runs while its breaker is open, and a half-open breaker has *)
(* exactly its own test running.  A breaker alone does not promise that    *)
(* (see Routine!SingleAttempt): it follows from one loop per key, through  *)
(* resets at any time.                                                     *)
BreakerGuardsLoop ==
  \A k \in Keys :
    /\ manager[k].state = "Open" => ~Executing(k)
    /\ manager[k].state = "HalfOpen" => manager[k].inTest /\ Executing(k)

(* A loop whose context is done ends, whatever its function returns and    *)
(* however often it is triggered.                                          *)
CancelledLoopEnds == \A s \in Starts : s \in done ~> loop[s].pc = "idle"

(* An update that was forced, or that was dropped because one was waiting  *)
(* in the channel, is followed by an attempt that starts after it, unless  *)
(* the loop ends: the signal is not lost while the function runs or the    *)
(* breaker is open, and the attempt does not come of the interval, however *)
(* long that is.                                                           *)
UpdateIsTaken ==
  \A s \in Starts :
    <>[][~IntervalElapses(s)]_vars
      => (s \in token ~> loop[s].pc \in {"execute", "idle"})

(* A loop that goes on and whose function stops failing closes its breaker *)
(* for good.                                                               *)
Recovers ==
  \A s \in Starts, k \in Keys :
    <>[][~Fail(s)]_vars /\ <>[](Runs(s, k) /\ s \notin done)
      => <>[](manager[k].state = "Closed")

(* routinepool.go says the mutex protects access to the maps.              *)
MapIsProtected == mu # None => \A s \in Starts : loop[s].pc # "lookup"
=============================================================================
