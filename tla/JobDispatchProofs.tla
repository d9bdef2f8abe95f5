-------------------------- MODULE JobDispatchProofs --------------------------
(***************************************************************************)
(* Proofs about JobDispatch, for every number of jobs, files, leasers,     *)
(* requests and calls.                                                     *)
(***************************************************************************)
EXTENDS JobDispatch, TLAPS

(* The records the actions store are of the declared types.                *)
LEMMA HandlerTypes ==
  /\ IdleHandler \in HandlerState
  /\ \A pc \in {"append", "sweepPending", "sweepLeased"}, f \in Files,
        S \in SUBSET Jobs : At(pc, f, S) \in HandlerState
  /\ \A r \in HandlerState :
       /\ r.held \in SUBSET Jobs
       /\ r.pc # "idle" => r.file \in Files
       /\ r.pc = "idle" => r = IdleHandler
BY DEF IdleHandler, At, HandlerState

LEMMA CallTypes ==
  /\ IdleCall \in CallState
  /\ \A op \in {"done", "fail"}, j \in Jobs, l \in Leasers :
       [pc |-> "check", op |-> op, job |-> j, leaser |-> l] \in CallState
  /\ \A r \in CallState : r.pc # "idle" =>
       /\ r.job \in Jobs
       /\ r.leaser \in Leasers
       /\ [r EXCEPT !.pc = "delete"] \in CallState
       /\ r.op = "fail" => [r EXCEPT !.pc = "append"] \in CallState
       /\ r.pc = "append" => r.op = "fail"
BY DEF IdleCall, CallState

(* Every variable stays in its type.                                       *)
THEOREM TypeCorrect == Spec => []TypeOK
<1>1. Init => TypeOK
  BY HandlerTypes, CallTypes DEF Init, TypeOK
<1>2. TypeOK /\ [Next]_vars => TypeOK'
  <2> SUFFICES ASSUME TypeOK, [Next]_vars
               PROVE  TypeOK'
    OBVIOUS
  <2> USE HandlerTypes, CallTypes DEF TypeOK, queue, rows, attributes, history
  <2>1. ASSUME NEW h \in Handlers, NEW f \in Files,
               CreateFile(h, f) \/ ChangeFile(h, f) \/ DeleteFile(h, f)
        PROVE  TypeOK'
    BY <2>1 DEF CreateFile, ChangeFile, DeleteFile
  <2>2. ASSUME NEW h \in Handlers, NEW j \in Jobs, NEW t \in Types, AppendJob(h, j, t)
        PROVE  TypeOK'
    BY <2>2 DEF AppendJob, Enqueue, NoteQueue, NoteCreated
  <2>3. ASSUME NEW h \in Handlers, SweepPending(h)
        PROVE  TypeOK'
    BY <2>3 DEF SweepPending
  <2>4. ASSUME NEW h \in Handlers, SweepLeased(h)
        PROVE  TypeOK'
    BY <2>4 DEF SweepLeased, Dequeue, NoteQueue, BeingFailed
  <2>5. ASSUME NEW h \in Handlers, HandlerFails(h)
        PROVE  TypeOK'
    BY <2>5 DEF HandlerFails
  <2>6. ASSUME NEW l \in Leasers, NEW t \in Types, AssignPendingJob(l, t)
        PROVE  TypeOK'
    BY <2>6 DEF AssignPendingJob, AppendLeasedJob, Dequeue, NoteQueue
  <2>7. ASSUME NEW c \in Calls, NEW l \in Leasers, NEW j \in Jobs,
               NEW op \in {"done", "fail"}, SendCall(c, l, j, op)
        PROVE  TypeOK'
    BY <2>7 DEF SendCall
  <2>8. ASSUME NEW l \in Leasers, NEW j \in Jobs, Forget(l, j)
        PROVE  TypeOK'
    BY <2>8 DEF Forget
  <2>9. ASSUME NEW c \in Calls, CheckLease(c) \/ DeleteFailedGone(c) \/ CallFails(c)
        PROVE  TypeOK'
    <3>1. call[c] \in CallState /\ call[c].pc # "idle"
      BY <2>9, Zenon DEF CheckLease, DeleteFailedGone, CallFails
    <3> QED
      BY <2>9, <3>1 DEF CheckLease, DeleteFailedGone, CallFails
  <2>10. ASSUME NEW c \in Calls, DeleteDone(c)
         PROVE  TypeOK'
    BY <2>10 DEF DeleteDone, DeleteLeasedJob
  <2>11. ASSUME NEW c \in Calls, DeleteFailed(c) \/ AppendFailed(c)
         PROVE  TypeOK'
    <3> DEFINE j == call[c].job
    <3>1. j \in Jobs
      BY <2>11 DEF DeleteFailed, DeleteLeasedJob, AppendFailed
    <3>2. /\ call' = [call EXCEPT ![c] = IdleCall]
          /\ UNCHANGED <<file, attributes, handler, known, finished, swept, late>>
          /\ leased' = leased \/ leased' = [leased EXCEPT ![j] = None]
          /\ UNCHANGED queue \/ Enqueue(j)
          /\ UNCHANGED slipped \/ NoteReturned(j)
      BY <2>11 DEF DeleteFailed, DeleteLeasedJob, AppendFailed
    <3> HIDE DEF j
    <3> QED
      BY <3>1, <3>2 DEF Enqueue, NoteQueue, NoteReturned
  <2>12. CASE UNCHANGED vars
    BY <2>12 DEF vars
  <2> HIDE DEF TypeOK, queue, rows, attributes, history
  <2> QED
    BY <2>1, <2>2, <2>3, <2>4, <2>5, <2>6, <2>7, <2>8, <2>9, <2>10, <2>11,
       <2>12
    DEF Next, HandlerNext, LeaserNext, CallProceeds, AssignNothing
<1> QED
  BY <1>1, <1>2, PTL DEF Spec
-----------------------------------------------------------------------------
(* Without overlapping calls: the inductive invariant behind Exclusive,    *)
(* LeaseIsNotStolen and ImplementsLedger.  A call that has checked its     *)
(* lease is the only one past its check for the job, the job is not in the *)
(* queue, and its lease is still the caller's unless a sweep has taken it. *)

(* Rows, leasers' memories and calls are of jobs that have been created.   *)
CreatedInv ==
  /\ \A j \in Jobs : jobFile[j] = None => j \notin pending /\ leased[j] = None
  /\ \A l \in Leasers : \A j \in known[l] : jobFile[j] # None
  /\ \A c \in Calls : call[c].pc # "idle" => jobFile[call[c].job] # None

Sweeping(h) == handler[h].pc \in {"sweepPending", "sweepLeased"}

(* A file is deleted once and swept by the request that deleted it, which  *)
(* locks only rows of the queue that are the file's.                       *)
LockInv ==
  /\ \A h \in Handlers : Sweeping(h) => file[handler[h].file] = "deleted"
  /\ \A g, h \in Handlers :
       g # h /\ Sweeping(g) /\ Sweeping(h) => handler[g].file # handler[h].file
  /\ \A h \in Handlers : \A j \in handler[h].held :
       /\ handler[h].pc = "sweepLeased"
       /\ j \in pending
       /\ jobFile[j] = handler[h].file

CallInv ==
  /\ \A c, d \in Calls :
       /\ c # d
       /\ call[c].pc # "idle"
       /\ call[d].pc # "idle"
       /\ call[c].job = call[d].job
       => call[c].leaser # call[d].leaser /\ (Past(c) => ~Past(d))
  /\ \A c \in Calls : Past(c) =>
       /\ call[c].job \notin pending
       /\ leased[call[c].job] \in {call[c].leaser, None}
       /\ call[c].pc = "append" => leased[call[c].job] = None /\ call[c].op = "fail"

(* A finished job has no row, and no call is about to queue it.            *)
FinishedInv ==
  \A j \in finished :
    /\ j \notin pending
    /\ leased[j] = None
    /\ jobFile[j] # None
    /\ \A c \in Calls : Past(c) => call[c].job # j

OwnInv == TypeOK /\ CreatedInv /\ LockInv /\ CallInv /\ FinishedInv /\ Exclusive
LEMMA OwnInvInit == Init => OwnInv
<1> SUFFICES ASSUME Init PROVE OwnInv
  OBVIOUS
<1>1. TypeOK
  BY HandlerTypes, CallTypes DEF Init, TypeOK
<1>2. \A h \in Handlers : handler[h].pc = "idle" /\ handler[h].held = {}
  BY DEF Init, IdleHandler, At
<1>3. \A c \in Calls : call[c].pc = "idle"
  BY DEF Init, IdleCall
<1> QED
  BY <1>1, <1>2, <1>3
  DEF Init, OwnInv, CreatedInv, LockInv, Sweeping, CallInv, FinishedInv, Exclusive, Past

(* The two invariants that hold whatever the leasers send.                 *)
LEMMA CreatedStep ==
  ASSUME TypeOK, CreatedInv, [Next]_vars, TypeOK'
  PROVE  CreatedInv'
<1> USE NoneAssumption DEF TypeOK, queue, rows, attributes, history
<1>1. ASSUME UNCHANGED <<rows, attributes, call, known>>
      PROVE  CreatedInv'
  BY <1>1 DEF CreatedInv
<1>2. ASSUME NEW h \in Handlers, NEW j \in Jobs, NEW t \in Types, AppendJob(h, j, t)
      PROVE  CreatedInv'
  <2>1. /\ pending' = pending \cup {j}
        /\ UNCHANGED <<leased, call, known>>
        /\ jobFile' = [jobFile EXCEPT ![j] = handler[h].file]
        /\ handler[h].pc # "idle"
    BY <1>2 DEF AppendJob, Enqueue
  <2>2. handler[h].file # None
    BY <2>1, HandlerTypes
  <2> QED
    BY <2>1, <2>2 DEF CreatedInv
<1>3. ASSUME NEW h \in Handlers, SweepLeased(h)
      PROVE  CreatedInv'
  BY <1>3 DEF SweepLeased, Dequeue, CreatedInv
<1>4. ASSUME NEW l \in Leasers, NEW t \in Types, AssignPendingJob(l, t)
      PROVE  CreatedInv'
  <2>1. PICK j \in Jobs :
          /\ j \in pending
          /\ Dequeue({j})
          /\ leased' = [leased EXCEPT ![j] = l]
          /\ \E heard \in {{}, {j}} : known' = [known EXCEPT ![l] = @ \cup heard]
    BY <1>4 DEF AssignPendingJob, AppendLeasedJob, Oldest
  <2>2. \A m \in Leasers : known'[m] \subseteq known[m] \cup {j}
    BY <2>1
  <2>3. UNCHANGED <<attributes, call>>
    BY <1>4 DEF AssignPendingJob, AppendLeasedJob
  <2> QED
    BY <2>1, <2>2, <2>3 DEF Dequeue, CreatedInv
<1>5. ASSUME NEW c \in Calls, NEW l \in Leasers, NEW j \in Jobs,
             NEW op \in {"done", "fail"}, SendCall(c, l, j, op)
      PROVE  CreatedInv'
  BY <1>5 DEF SendCall, CreatedInv
<1>6. ASSUME NEW l \in Leasers, NEW j \in Jobs, Forget(l, j)
      PROVE  CreatedInv'
  BY <1>6 DEF Forget, CreatedInv
<1>7. ASSUME NEW c \in Calls, CallProceeds(c) \/ CallFails(c)
      PROVE  CreatedInv'
  <2>1. /\ UNCHANGED <<attributes, known>>
        /\ call[c].pc # "idle"
        /\ pending' = pending \/ pending' = pending \cup {call[c].job}
        /\ leased' = leased \/ leased' = [leased EXCEPT ![call[c].job] = None]
    BY <1>7, Zenon DEF CallProceeds, CheckLease, DeleteDone, DeleteFailed, DeleteLeasedJob,
       DeleteFailedGone, AppendFailed, CallFails, Enqueue
  <2>2. /\ \A d \in Calls : d # c => call'[d] = call[d]
        /\ call'[c].pc # "idle" => call'[c].job = call[c].job
    <3>1. \A pc \in {"delete", "append"} : [call[c] EXCEPT !.pc = pc].job = call[c].job
      BY DEF CallState, IdleCall
    <3>2. CASE CheckLease(c)
      BY <3>1, <3>2 DEF CheckLease, IdleCall
    <3>3. CASE DeleteFailedGone(c)
      BY <3>1, <3>3 DEF DeleteFailedGone
    <3>4. CASE call' = [call EXCEPT ![c] = IdleCall]
      BY <3>4 DEF IdleCall
    <3> QED
      BY <1>7, <3>2, <3>3, <3>4, Zenon
      DEF CallProceeds, DeleteDone, DeleteFailed, AppendFailed, CallFails
  <2> QED
    BY <2>1, <2>2, CallTypes DEF CreatedInv
<1>8. ASSUME NEW h \in Handlers, NEW f \in Files,
             CreateFile(h, f) \/ ChangeFile(h, f) \/ DeleteFile(h, f)
      PROVE  CreatedInv'
  BY <1>8, <1>1 DEF CreateFile, ChangeFile, DeleteFile
<1>9. ASSUME NEW h \in Handlers, SweepPending(h) \/ HandlerFails(h)
      PROVE  CreatedInv'
  BY <1>9, <1>1 DEF SweepPending, HandlerFails
<1>10. CASE UNCHANGED vars
  BY <1>10, <1>1 DEF vars
<1> QED
  BY <1>2, <1>3, <1>4, <1>5, <1>6, <1>7, <1>8, <1>9, <1>10
  DEF Next, HandlerNext, LeaserNext, AssignNothing

(* What each group of actions does to the locks.                           *)
LEMMA LockStep ==
  ASSUME TypeOK, CreatedInv, LockInv, [Next]_vars, TypeOK'
  PROVE  LockInv'
<1> USE DEF TypeOK, queue, rows, attributes, history
<1>1. ASSUME NEW h \in Handlers, NEW f \in Files,
             CreateFile(h, f) \/ ChangeFile(h, f) \/ DeleteFile(h, f)
      PROVE  LockInv'
  <2>1. /\ UNCHANGED <<pending, jobFile>>
        /\ handler[h].pc = "idle"
        /\ \A g \in Handlers : g # h => handler'[g] = handler[g]
    BY <1>1 DEF CreateFile, ChangeFile, DeleteFile
  <2>2. /\ \/ handler'[h] = At("append", f, {}) /\ file[f] # "deleted"
           \/ handler'[h] = At("sweepPending", f, {}) /\ file[f] # "deleted"
                /\ file'[f] = "deleted"
        /\ \A g \in Files : file[g] = "deleted" => file'[g] = "deleted"
    BY <1>1 DEF CreateFile, ChangeFile, DeleteFile
  <2>3. /\ \A g \in Handlers : Sweeping(g) => handler[g].file \in Files
        /\ ~Sweeping(h)
    BY <2>1, HandlerTypes DEF Sweeping
  <2>4. /\ handler'[h].held = {}
        /\ handler'[h].file = f
        /\ Sweeping(h)' => file[f] # "deleted" /\ file'[f] = "deleted"
        /\ \A g \in Handlers : g # h => (Sweeping(g)' <=> Sweeping(g))
    BY <2>1, <2>2 DEF At, Sweeping
  <2> HIDE DEF Sweeping
  <2>5. \A g \in Handlers : Sweeping(g)' => file'[handler'[g].file] = "deleted"
    BY <2>1, <2>2, <2>3, <2>4 DEF LockInv
  <2>6. \A g, k \in Handlers :
          g # k /\ Sweeping(g)' /\ Sweeping(k)' => handler'[g].file # handler'[k].file
    BY <2>1, <2>2, <2>3, <2>4 DEF LockInv
  <2>7. \A g \in Handlers : \A j \in handler'[g].held :
          handler'[g].pc = "sweepLeased" /\ j \in pending' /\ jobFile'[j] = handler'[g].file
    BY <2>1, <2>4 DEF LockInv
  <2> QED
    BY <2>5, <2>6, <2>7 DEF LockInv
<1>2. ASSUME NEW h \in Handlers, NEW j \in Jobs, NEW t \in Types, AppendJob(h, j, t)
      PROVE  LockInv'
  <2>1. /\ pending \subseteq pending'
        /\ j \notin pending
        /\ \A k \in Jobs : k # j => jobFile'[k] = jobFile[k]
        /\ handler' = [handler EXCEPT ![h] = IdleHandler]
        /\ file' = file
    BY <1>2 DEF AppendJob, Enqueue, CreatedInv
  <2>2. \A g \in Handlers : handler[g].held \subseteq Jobs
    BY HandlerTypes
  <2> QED
    BY <2>1, <2>2 DEF LockInv, Sweeping, IdleHandler, At
<1>3. ASSUME NEW h \in Handlers, SweepPending(h)
      PROVE  LockInv'
  <2>1. /\ UNCHANGED <<file, pending, jobFile>>
        /\ handler[h].pc = "sweepPending"
        /\ \A g \in Handlers : g # h => handler'[g] = handler[g]
        /\ handler'[h] = At("sweepLeased", handler[h].file,
                            {j \in pending : jobFile[j] = handler[h].file})
    BY <1>3 DEF SweepPending
  <2> HIDE DEF TypeOK
  <2> QED
    BY <2>1 DEF LockInv, Sweeping, At
<1>4. ASSUME NEW h \in Handlers, SweepLeased(h)
      PROVE  LockInv'
  <2>1. /\ UNCHANGED <<file, jobFile>>
        /\ handler[h].pc = "sweepLeased"
        /\ pending' = pending \ handler[h].held
        /\ handler' = [handler EXCEPT ![h] = IdleHandler]
    BY <1>4 DEF SweepLeased, Dequeue
  <2> QED
    BY <2>1 DEF LockInv, Sweeping, IdleHandler, At
<1>5. ASSUME NEW h \in Handlers, HandlerFails(h)
      PROVE  LockInv'
  BY <1>5 DEF HandlerFails, LockInv, Sweeping, IdleHandler, At
<1>6. ASSUME NEW l \in Leasers, NEW t \in Types, AssignPendingJob(l, t)
      PROVE  LockInv'
  <2>1. PICK j \in Jobs : ~Locked(j) /\ Dequeue({j})
    BY <1>6 DEF AssignPendingJob, AppendLeasedJob
  <2>2. UNCHANGED <<file, jobFile, handler>>
    BY <1>6 DEF AssignPendingJob, AppendLeasedJob
  <2> QED
    BY <2>1, <2>2 DEF LockInv, Sweeping, Locked, Dequeue
<1>7. ASSUME UNCHANGED <<file, jobFile, handler>>, pending \subseteq pending'
      PROVE  LockInv'
  BY <1>7 DEF LockInv, Sweeping
<1>8. ASSUME NEW c \in Calls, CallProceeds(c) \/ CallFails(c)
      PROVE  LockInv'
  <2>1. UNCHANGED <<file, jobFile, handler>> /\ pending \subseteq pending'
    BY <1>8, Zenon DEF CallProceeds, CheckLease, DeleteDone, DeleteFailed,
       DeleteFailedGone, AppendFailed, CallFails, Enqueue
  <2> QED
    BY <2>1, <1>7
<1>9. ASSUME NEW l \in Leasers, NEW j \in Jobs, NEW c \in Calls,
             NEW op \in {"done", "fail"}, SendCall(c, l, j, op)
      PROVE  LockInv'
  <2>1. UNCHANGED <<file, jobFile, handler, pending>>
    BY <1>9 DEF SendCall
  <2> QED
    BY <2>1, <1>7
<1>10. CASE UNCHANGED vars
  BY <1>10, <1>7 DEF vars
<1>11. ASSUME NEW l \in Leasers, NEW j \in Jobs, Forget(l, j)
      PROVE  LockInv'
  <2>1. UNCHANGED <<file, jobFile, handler, pending>>
    BY <1>11 DEF Forget
  <2> QED
    BY <2>1, <1>7
<1> QED
  BY <1>1, <1>2, <1>3, <1>4, <1>5, <1>6, <1>8, <1>9, <1>10, <1>11
  DEF Next, HandlerNext, LeaserNext, AssignNothing

LEMMA OwnInvStep ==
  ASSUME ~Overlap, OwnInv, TypeOK', [Next]_vars
  PROVE  OwnInv'
<1> USE NoneAssumption DEF OwnInv, queue, rows, attributes, history
<1>0. CreatedInv' /\ LockInv'
  BY CreatedStep, LockStep
<1> SUFFICES CallInv' /\ FinishedInv' /\ Exclusive'
  BY <1>0
<1> DEFINE Rest == CallInv /\ FinishedInv /\ Exclusive
<1> SUFFICES Rest'
  OBVIOUS
<1>1. ASSUME UNCHANGED <<rows, attributes, call, known, finished>>
      PROVE  Rest'
  BY <1>1 DEF CallInv, FinishedInv, Exclusive, Past
<1>2. ASSUME NEW h \in Handlers, NEW j \in Jobs, NEW t \in Types, AppendJob(h, j, t)
      PROVE  Rest'
  <2>1. /\ pending' = pending \cup {j}
        /\ UNCHANGED <<leased, call, known, finished>>
        /\ jobFile' = [jobFile EXCEPT ![j] = handler[h].file]
        /\ jobFile[j] = None
        /\ handler[h].pc # "idle"
    BY <1>2 DEF AppendJob, Enqueue
  <2>4. \A c \in Calls : call[c].pc # "idle" => call[c].job # j
    BY <2>1 DEF CreatedInv
  <2>5. CallInv'
    BY <2>1, <2>4 DEF CallInv, Past
  <2>6. FinishedInv' /\ Exclusive'
    BY <2>1 DEF FinishedInv, Exclusive, CreatedInv, TypeOK, Past
  <2> QED
    BY <2>5, <2>6
<1>3. ASSUME NEW h \in Handlers, SweepLeased(h)
      PROVE  Rest'
  <2>1. /\ pending' \subseteq pending
        /\ \A j \in Jobs : leased'[j] \in {leased[j], None}
        /\ UNCHANGED <<attributes, call, known, finished>>
    BY <1>3, Zenon DEF SweepLeased, Dequeue
  <2> QED
    BY <2>1, CallTypes DEF CallInv, FinishedInv, Exclusive, Past, TypeOK
<1>4. ASSUME NEW l \in Leasers, NEW t \in Types, AssignPendingJob(l, t)
      PROVE  Rest'
  <2>1. PICK j \in Jobs :
          /\ j \in pending
          /\ leased' = [leased EXCEPT ![j] = l]
          /\ pending' = pending \ {j}
          /\ \A m \in Leasers : known'[m] \subseteq known[m] \cup {j}
    <3>1. PICK j \in Jobs :
            /\ Oldest(t, j)
            /\ Dequeue({j})
            /\ leased' = [leased EXCEPT ![j] = l]
            /\ \E heard \in {{}, {j}} : known' = [known EXCEPT ![l] = @ \cup heard]
      BY <1>4 DEF AssignPendingJob, AppendLeasedJob
    <3>2. \A m \in Leasers : known'[m] \subseteq known[m] \cup {j}
      BY <3>1 DEF TypeOK
    <3> QED
      BY <3>1, <3>2 DEF Oldest, Dequeue
  <2>2. UNCHANGED <<attributes, call, finished>>
    BY <1>4 DEF AssignPendingJob, AppendLeasedJob
  <2>3. \A c \in Calls : Past(c) => call[c].job # j
    BY <2>1 DEF CallInv
  <2> QED
    BY <2>1, <2>2, <2>3, CallTypes DEF CallInv, FinishedInv, Exclusive, Past, TypeOK
<1>5. ASSUME NEW c \in Calls, NEW l \in Leasers, NEW j \in Jobs,
             NEW op \in {"done", "fail"}, SendCall(c, l, j, op)
      PROVE  Rest'
  <2>1. /\ UNCHANGED <<rows, attributes, known, finished>>
        /\ call' = [call EXCEPT
             ![c] = [pc |-> "check", op |-> op, job |-> j, leaser |-> l]]
        /\ j \in known[l]
        /\ \A d \in Calls : ~Running(d, l, j)
    BY <1>5 DEF SendCall
  <2>2. \A d \in Calls : Past(d)' => Past(d) /\ d # c /\ call'[d] = call[d]
    BY <2>1 DEF Past, TypeOK
  <2> QED
    BY <2>1, <2>2 DEF CallInv, FinishedInv, Exclusive, Running, TypeOK
<1>6. ASSUME NEW l \in Leasers, NEW j \in Jobs, Forget(l, j)
      PROVE  Rest'
  <2>1. /\ UNCHANGED <<rows, attributes, call, finished>>
        /\ \A m \in Leasers : known'[m] \subseteq known[m]
    BY <1>6 DEF Forget, TypeOK
  <2> QED
    BY <2>1 DEF CallInv, FinishedInv, Exclusive, Past
<1>7. ASSUME NEW c \in Calls, CheckLease(c)
      PROVE  Rest'
  <2>1. /\ UNCHANGED <<rows, attributes, known, finished>>
        /\ call[c].pc = "check"
        /\ \A d \in Calls : d # c => call'[d] = call[d]
    BY <1>7 DEF CheckLease
  <2>2. CASE leased[call[c].job] = call[c].leaser
    <3>1. call'[c] = [call[c] EXCEPT !.pc = "delete"]
      BY <1>7, <2>2 DEF CheckLease, TypeOK
    <3>2. /\ call'[c].pc = "delete"
          /\ call'[c].job = call[c].job
          /\ call'[c].leaser = call[c].leaser
          /\ call[c].job \in Jobs
          /\ call[c].leaser # None
      BY <2>1, <3>1 DEF TypeOK, CallState, IdleCall
    <3>3. /\ call[c].job \notin pending
          /\ \A d \in Calls : Past(d) => call[d].job # call[c].job
      BY <2>1, <2>2, <3>2 DEF CallInv, Exclusive, Past
    <3>4. FinishedInv'
      BY <2>1, <2>2, <3>2 DEF FinishedInv, Past
    <3> QED
      BY <2>1, <2>2, <3>2, <3>3, <3>4 DEF CallInv, Exclusive, Past
  <2>3. CASE leased[call[c].job] # call[c].leaser
    <3>1. call'[c] = IdleCall
      BY <1>7, <2>3 DEF CheckLease, TypeOK
    <3> QED
      BY <2>1, <3>1 DEF CallInv, FinishedInv, Exclusive, Past, IdleCall
  <2> QED
    BY <2>2, <2>3
<1>8. ASSUME NEW c \in Calls, DeleteDone(c)
      PROVE  Rest'
  <2> DEFINE j == call[c].job
  <2>1. j \in Jobs /\ Past(c)
    BY <1>8, CallTypes DEF DeleteDone, TypeOK, Past
  <2>2. /\ leased' = [leased EXCEPT ![j] = None]
        /\ finished' = finished \cup {j}
        /\ call' = [call EXCEPT ![c] = IdleCall]
        /\ UNCHANGED <<queue, attributes, known>>
    BY <1>8 DEF DeleteDone, DeleteLeasedJob
  <2>3. \A d \in Calls : Past(d)' => Past(d) /\ d # c /\ call[d].job # j
    BY <2>1, <2>2 DEF Past, IdleCall, CallInv, TypeOK
  <2>4. j \notin pending /\ jobFile[j] # None
    BY <2>1 DEF CallInv, CreatedInv, Past
  <2>5. FinishedInv'
    BY <2>1, <2>2, <2>3, <2>4 DEF FinishedInv, TypeOK
  <2>6. Exclusive'
    BY <2>1, <2>2 DEF Exclusive, TypeOK
  <2>7. CallInv'
    BY <2>1, <2>2, <2>3, CallTypes DEF CallInv, TypeOK, IdleCall
  <2> QED
    BY <2>5, <2>6, <2>7
<1>9. ASSUME NEW c \in Calls, DeleteFailed(c) \/ AppendFailed(c)
      PROVE  Rest'
  <2> DEFINE j == call[c].job
  <2>1. j \in Jobs /\ Past(c)
    BY <1>9, CallTypes DEF DeleteFailed, AppendFailed, TypeOK, Past
  <2>2. j \notin pending
    BY <2>1 DEF CallInv
  <2>3. /\ leased' = [leased EXCEPT ![j] = None]
        /\ pending' = pending \cup {j}
        /\ call' = [call EXCEPT ![c] = IdleCall]
        /\ UNCHANGED <<attributes, known, finished>>
    <3>1. CASE DeleteFailed(c)
      BY <3>1, <2>2 DEF DeleteFailed, DeleteLeasedJob, Enqueue
    <3>2. CASE AppendFailed(c)
      <4>1. leased[j] = None
        BY <3>2 DEF AppendFailed, CallInv, Past
      <4>2. leased' = leased
        BY <3>2 DEF AppendFailed
      <4>3. leased' = [leased EXCEPT ![j] = None]
        BY <4>1, <4>2, <2>1 DEF TypeOK
      <4> QED
        BY <3>2, <2>2, <4>3 DEF AppendFailed, Enqueue
    <3> QED
      BY <1>9, <3>1, <3>2
  <2>4. \A d \in Calls : Past(d)' => Past(d) /\ d # c /\ call[d].job # j
    BY <2>1, <2>3 DEF Past, IdleCall, CallInv, TypeOK
  <2>6. j \notin finished
    BY <2>1 DEF FinishedInv
  <2>7. FinishedInv' /\ Exclusive'
    BY <2>1, <2>3, <2>4, <2>6 DEF FinishedInv, Exclusive, TypeOK
  <2>9. CallInv'
    BY <2>1, <2>3, <2>4, CallTypes DEF CallInv, TypeOK, IdleCall
  <2> QED
    BY <2>7, <2>9
<1>10. ASSUME NEW c \in Calls, DeleteFailedGone(c)
       PROVE  Rest'
  <2>1. /\ UNCHANGED <<rows, attributes, known, finished>>
        /\ call[c].pc = "delete"
        /\ call[c].op = "fail"
        /\ leased[call[c].job] = None
        /\ call' = [call EXCEPT ![c] = [call[c] EXCEPT !.pc = "append"]]
    BY <1>10 DEF DeleteFailedGone
  <2>2. /\ \A d \in Calls : d # c => call'[d] = call[d]
        /\ call'[c].pc = "append"
        /\ call'[c].op = "fail"
        /\ call'[c].job = call[c].job
        /\ call'[c].leaser = call[c].leaser
    BY <2>1 DEF TypeOK, CallState, IdleCall
  <2> QED
    BY <2>1, <2>2 DEF CallInv, FinishedInv, Exclusive, Past
<1>11. ASSUME NEW c \in Calls, CallFails(c)
       PROVE  Rest'
  <2>1. /\ UNCHANGED <<rows, attributes, known, finished>>
        /\ call' = [call EXCEPT ![c] = IdleCall]
    BY <1>11 DEF CallFails
  <2> QED
    BY <2>1 DEF CallInv, FinishedInv, Exclusive, Past, IdleCall, TypeOK
<1>12. ASSUME NEW h \in Handlers, NEW f \in Files,
              CreateFile(h, f) \/ ChangeFile(h, f) \/ DeleteFile(h, f)
       PROVE  Rest'
  BY <1>12, <1>1 DEF CreateFile, ChangeFile, DeleteFile
<1>13. ASSUME NEW h \in Handlers, SweepPending(h) \/ HandlerFails(h)
       PROVE  Rest'
  BY <1>13, <1>1 DEF SweepPending, HandlerFails
<1>14. CASE UNCHANGED vars
  BY <1>14, <1>1 DEF vars
<1> HIDE DEF Rest
<1> QED
  BY <1>2, <1>3, <1>4, <1>5, <1>6, <1>7, <1>8, <1>9, <1>10, <1>11, <1>12, <1>13, <1>14
  DEF Next, HandlerNext, LeaserNext, CallProceeds, AssignNothing
LEMMA OwnInvCorrect ==
  ASSUME ~Overlap
  PROVE  Spec => []OwnInv
<1>1. OwnInv /\ TypeOK' /\ [Next]_vars => OwnInv'
  BY OwnInvStep
<1> QED
  BY <1>1, OwnInvInit, TypeCorrect, PTL DEF Spec

(* While no leaser runs two ending calls for one job at a time, a job is   *)
(* never queued and leased at once, whatever is swept, fails or restarts.  *)
THEOREM ExclusiveCorrect ==
  ASSUME ~Overlap
  PROVE  Spec => []Exclusive
<1>1. OwnInv => Exclusive
  BY DEF OwnInv
<1> QED
  BY <1>1, OwnInvCorrect, PTL

-----------------------------------------------------------------------------
(* Whatever the leasers send: the sweep and the queue's order.             *)

(* A sweep still open has locked every row of its file in the queue but    *)
(* those inserted since it read the queue, and every MarkJobAsFailed that  *)
(* outlives a sweep is of a job noted when the sweep committed, or left.   *)
Escaped == late \cup slipped

(* c is a MarkJobAsFailed past its check.                                  *)
Outlives(c) == Past(c) /\ call[c].op = "fail"

SweepInv ==
  /\ \A f \in swept : file[f] = "deleted"
  /\ \A h \in Handlers : Sweeping(h) => handler[h].file \notin swept
  /\ \A h \in Handlers : handler[h].pc = "sweepLeased" =>
       \A j \in pending : jobFile[j] = handler[h].file => j \in handler[h].held \cup Escaped
  /\ \A c \in Calls : Outlives(c) /\ jobFile[call[c].job] \in swept
       => call[c].job \in Escaped
  /\ SweepComplete

(* What was queued since a job was has a younger created_at.               *)
OrderInv ==
  \A k \in pending : \A j \in since[k] : j \in pending /\ j # k /\ k \in ahead[j]

AnyInv == TypeOK /\ CreatedInv /\ LockInv /\ SweepInv /\ OrderInv

LEMMA AnyInvInit == Init => AnyInv
<1> SUFFICES ASSUME Init PROVE AnyInv
  OBVIOUS
<1>1. OwnInv
  BY OwnInvInit
<1>2. \A h \in Handlers : handler[h].pc = "idle"
  BY DEF Init, IdleHandler, At
<1>3. SweepInv
  BY <1>2 DEF Init, SweepInv, Sweeping, SweepComplete
<1>4. OrderInv
  BY DEF Init, OrderInv
<1> QED
  BY <1>1, <1>3, <1>4 DEF OwnInv, AnyInv

(* An insert into the queue, noted when the file's sweep has read it.      *)
LEMMA SweepInsert ==
  ASSUME SweepInv, CreatedInv, NEW j \in Jobs, NEW f,
         pending' = pending \cup {j},
         Escaped \subseteq Escaped',
         SweepHasRead(f) => j \in Escaped',
         jobFile'[j] = f,
         \A k \in Jobs : k # j => jobFile'[k] = jobFile[k],
         \A k \in Jobs : leased'[k] \in {leased[k], None},
         UNCHANGED <<file, swept>>,
         \A h \in Handlers : \/ handler'[h] = handler[h]
                             \/ handler'[h] = IdleHandler,
         \A c \in Calls : \/ (call'[c] = call[c] /\ (Past(c) => call[c].job \in Jobs))
                          \/ call'[c] = IdleCall,
         pending \subseteq Jobs
  PROVE  SweepInv'
<1> USE DEF SweepHasRead, SweepIsOpen, IdleHandler, At
<1> HIDE DEF Escaped
<1>2. \A h \in Handlers : Sweeping(h)' => Sweeping(h) /\ handler'[h] = handler[h]
  BY DEF Sweeping
<1>3. ASSUME NEW h \in Handlers, handler'[h].pc = "sweepLeased", NEW k \in pending',
             jobFile'[k] = handler'[h].file
      PROVE  k \in handler'[h].held \cup Escaped'
  <2>1. handler'[h] = handler[h]
    BY <1>3
  <2>2. CASE k = j
    BY <1>3, <2>1, <2>2
  <2>3. CASE k # j
    BY <1>3, <2>1, <2>3 DEF SweepInv
  <2> QED
    BY <2>2, <2>3
<1>4. SweepComplete'
  <2> SUFFICES ASSUME NEW k \in Jobs, jobFile'[k] \in swept',
                      k \in pending' \/ leased'[k] # None
               PROVE  k \in Escaped'
    BY DEF SweepComplete, Escaped
  <2>1. CASE k = j
    BY <2>1
  <2>2. CASE k # j
    BY <2>2 DEF SweepInv, SweepComplete, Escaped
  <2> QED
    BY <2>1, <2>2
<1>5. ASSUME NEW c \in Calls, Outlives(c)', jobFile'[call'[c].job] \in swept'
      PROVE  call'[c].job \in Escaped'
  <2>1. call'[c] = call[c] /\ Outlives(c) /\ call[c].job \in Jobs
    BY <1>5 DEF Outlives, Past, IdleCall
  <2>2. CASE call[c].job = j
    BY <1>5, <2>1, <2>2
  <2>3. CASE call[c].job # j
    BY <1>5, <2>1, <2>3 DEF SweepInv
  <2> QED
    BY <2>2, <2>3
<1> QED
  BY <1>2, <1>3, <1>4, <1>5 DEF SweepInv

LEMMA SweepStep ==
  ASSUME TypeOK, CreatedInv, LockInv, SweepInv, [Next]_vars, TypeOK'
  PROVE  SweepInv'
<1> USE DEF TypeOK, queue, rows, attributes, history
<1>1. ASSUME UNCHANGED <<file, handler, attributes, swept, late, slipped>>,
             pending' \subseteq pending,
             \A j \in Jobs : leased'[j] # None => leased[j] # None \/ j \in pending,
             \A c \in Calls : Outlives(c)' =>
               /\ call'[c].job = call[c].job
               /\ Outlives(c) \/ (call[c].job \in Jobs /\ leased[call[c].job] # None)
      PROVE  SweepInv'
  <2> HIDE DEF TypeOK
  <2>1. SweepComplete'
    BY <1>1 DEF SweepInv, SweepComplete
  <2>2. \A c \in Calls : Outlives(c)' /\ jobFile'[call'[c].job] \in swept'
          => call'[c].job \in Escaped'
    BY <1>1 DEF SweepInv, SweepComplete, Escaped
  <2> QED
    BY <1>1, <2>1, <2>2 DEF SweepInv, Sweeping, Escaped
<1>0. ASSUME UNCHANGED <<attributes, swept, late, slipped, call>>
      PROVE  \A c \in Calls : Outlives(c)' /\ jobFile'[call'[c].job] \in swept'
               => call'[c].job \in Escaped'
  BY <1>0 DEF SweepInv, Outlives, Past, Escaped
<1>2. ASSUME NEW h \in Handlers, NEW f \in Files,
             CreateFile(h, f) \/ ChangeFile(h, f) \/ DeleteFile(h, f)
      PROVE  SweepInv'
  <2>1. /\ UNCHANGED <<rows, attributes, call, swept, late, slipped>>
        /\ \A g \in Handlers : g # h => handler'[g] = handler[g]
        /\ handler'[h].pc # "sweepLeased"
        /\ handler'[h].file = f
        /\ file[f] # "deleted"
        /\ \A g \in Files : file[g] = "deleted" => file'[g] = "deleted"
    BY <1>2 DEF CreateFile, ChangeFile, DeleteFile, At
  <2>2. SweepComplete'
    BY <2>1 DEF SweepInv, SweepComplete
  <2>3. \A g \in Files : g \in swept => file'[g] = "deleted" /\ g # f
    BY <2>1 DEF SweepInv
  <2> HIDE DEF TypeOK
  <2>4. \A g \in Handlers : Sweeping(g)' => handler'[g].file \notin swept'
    BY <2>1, <2>3 DEF SweepInv, Sweeping
  <2>5. \A g \in Handlers : handler'[g].pc = "sweepLeased" =>
          \A j \in pending' : jobFile'[j] = handler'[g].file => j \in handler'[g].held \cup Escaped'
    BY <2>1 DEF SweepInv, Escaped
  <2>6. swept' \subseteq Files
    BY <2>1 DEF TypeOK
  <2> QED
    BY <1>0, <2>1, <2>2, <2>3, <2>4, <2>5, <2>6 DEF SweepInv
<1>3. ASSUME NEW h \in Handlers, NEW j \in Jobs, NEW t \in Types, AppendJob(h, j, t)
      PROVE  SweepInv'
  <2>1. /\ pending' = pending \cup {j}
        /\ NoteCreated(j, handler[h].file)
        /\ jobFile'[j] = handler[h].file
        /\ \A k \in Jobs : k # j => jobFile'[k] = jobFile[k]
        /\ UNCHANGED <<file, leased, swept, slipped, call>>
        /\ \A g \in Handlers : handler'[g] \in {handler[g], IdleHandler}
    BY <1>3 DEF AppendJob, Enqueue
  <2>2. Escaped \subseteq Escaped' /\ (SweepHasRead(handler[h].file) => j \in Escaped')
    BY <2>1 DEF NoteCreated, Escaped
  <2>3. \A c \in Calls : Past(c) => call[c].job \in Jobs
    BY CallTypes DEF Past
  <2> QED
    BY <2>1, <2>2, <2>3, SweepInsert
<1>4. ASSUME NEW h \in Handlers, SweepPending(h)
      PROVE  SweepInv'
  <2>1. /\ UNCHANGED <<file, rows, attributes, call, swept, late, slipped>>
        /\ handler[h].pc = "sweepPending"
        /\ \A g \in Handlers : g # h => handler'[g] = handler[g]
        /\ handler'[h] = At("sweepLeased", handler[h].file,
                            {j \in pending : jobFile[j] = handler[h].file})
    BY <1>4 DEF SweepPending
  <2> HIDE DEF TypeOK
  <2> QED
    BY <1>0, <2>1 DEF SweepInv, SweepComplete, Sweeping, At, Escaped
<1>5. ASSUME NEW h \in Handlers, SweepLeased(h)
      PROVE  SweepInv'
  <2> DEFINE f == handler[h].file
  <2>1. /\ UNCHANGED <<file, attributes, call, late>>
        /\ handler[h].pc = "sweepLeased"
        /\ pending' = pending \ handler[h].held
        /\ \A j \in Jobs : leased'[j] = IF jobFile[j] = f THEN None ELSE leased[j]
        /\ swept' = swept \cup {f}
        /\ slipped' = slipped \cup BeingFailed(f)
        /\ \A g \in Handlers : g # h => handler'[g] = handler[g]
        /\ handler'[h].pc = "idle"
    BY <1>5 DEF SweepLeased, Dequeue, IdleHandler, At
  <2>2. SweepComplete'
    BY <2>1 DEF SweepInv, SweepComplete, Escaped
  <2>5. \A c \in Calls : Outlives(c)' /\ jobFile'[call'[c].job] \in swept'
          => call'[c].job \in Escaped'
    <3>1. \A c \in Calls : Past(c) => call[c].job \in Jobs
      BY CallTypes DEF Past
    <3> HIDE DEF TypeOK, f
    <3> QED
      BY <2>1, <3>1 DEF SweepInv, Escaped, BeingFailed, Outlives, Past
  <2> HIDE DEF TypeOK
  <2>3. \A g \in Handlers : Sweeping(g)' => Sweeping(g) /\ handler[g].file # f /\ g # h
    BY <2>1 DEF LockInv, Sweeping
  <2>4. file[f] = "deleted"
    BY <2>1 DEF LockInv, Sweeping
  <2> HIDE DEF f
  <2> QED
    BY <2>1, <2>2, <2>3, <2>4, <2>5 DEF SweepInv, Sweeping, Escaped
<1>6. ASSUME NEW h \in Handlers, HandlerFails(h)
      PROVE  SweepInv'
  <2>1. /\ UNCHANGED <<file, rows, attributes, call, swept, late, slipped>>
        /\ \A g \in Handlers : g # h => handler'[g] = handler[g]
        /\ handler'[h].pc = "idle"
    BY <1>6 DEF HandlerFails, IdleHandler, At
  <2> HIDE DEF TypeOK
  <2> QED
    BY <1>0, <2>1 DEF SweepInv, SweepComplete, Sweeping, Escaped
<1>7. ASSUME NEW l \in Leasers, NEW t \in Types, AssignPendingJob(l, t)
      PROVE  SweepInv'
  <2>1. PICK j \in Jobs : j \in pending /\ Dequeue({j}) /\ leased' = [leased EXCEPT ![j] = l]
    BY <1>7 DEF AssignPendingJob, AppendLeasedJob, Oldest
  <2>2. UNCHANGED <<file, handler, attributes, call, swept, late, slipped>>
    BY <1>7 DEF AssignPendingJob, AppendLeasedJob
  <2>3. \A c \in Calls : Outlives(c)' => Outlives(c) /\ call'[c] = call[c]
    BY <2>2 DEF Outlives, Past
  <2>4. \A k \in Jobs : leased'[k] # None => leased[k] # None \/ k \in pending
    BY <2>1
  <2>5. pending' \subseteq pending
    BY <2>1 DEF Dequeue
  <2> HIDE DEF TypeOK
  <2>6. UNCHANGED <<file, handler, attributes, swept, late, slipped>>
    BY <2>2
  <2>7. \A c \in Calls : Outlives(c)' =>
               /\ call'[c].job = call[c].job
               /\ Outlives(c) \/ (call[c].job \in Jobs /\ leased[call[c].job] # None)
    BY <2>3
  <2> QED
    BY <2>6, <2>7, <2>4, <2>5, <1>1
<1>8. ASSUME NEW c \in Calls, DeleteFailed(c) \/ AppendFailed(c)
      PROVE  SweepInv'
  <2> DEFINE j == call[c].job
  <2>0. call[c].op = "fail" /\ call[c].pc \in {"delete", "append"}
    BY <1>8, CallTypes DEF DeleteFailed, AppendFailed
  <2>1. j \in Jobs /\ Outlives(c)
    BY <2>0, CallTypes DEF Outlives, Past
  <2>2. /\ UNCHANGED <<file, handler, attributes, swept, late>>
        /\ call' = [call EXCEPT ![c] = IdleCall]
        /\ \/ UNCHANGED <<pending, leased, slipped>>
           \/ /\ pending' = pending \cup {j}
              /\ NoteReturned(j)
              /\ leased' = leased \/ leased' = [leased EXCEPT ![j] = None]
    BY <1>8, Zenon DEF DeleteFailed, DeleteLeasedJob, AppendFailed, Enqueue
  <2>3. \A k \in Jobs : leased'[k] \in {leased[k], None}
    BY <2>1, <2>2
  <2>4. /\ \A d \in Calls : call'[d] = call[d] \/ call'[d] = IdleCall
        /\ \A d \in Calls : Past(d) => call[d].job \in Jobs
    BY <2>2, CallTypes DEF Past
  <2>5. CASE UNCHANGED <<pending, leased, slipped>>
    <3>1. \A d \in Calls : Outlives(d)' => Outlives(d) /\ call'[d] = call[d]
      BY <2>4 DEF Outlives, Past, IdleCall
    <3> HIDE DEF TypeOK
    <3> QED
      BY <2>2, <2>5, <3>1, <1>1 DEF Outlives, Past
  <2>6. CASE /\ pending' = pending \cup {j}
             /\ NoteReturned(j)
    <3>1. Escaped \subseteq Escaped'
      BY <2>2, <2>6 DEF NoteReturned, Escaped
    <3>2. SweepHasRead(jobFile[j]) => j \in Escaped'
      BY <2>1, <2>2, <2>6, <3>1 DEF NoteReturned, SweepHasRead, SweepInv, Escaped
    <3> QED
      BY <2>1, <2>2, <2>3, <2>4, <2>6, <3>1, <3>2, SweepInsert
  <2> QED
    BY <2>2, <2>5, <2>6
<1>9. ASSUME NEW c \in Calls,
             CheckLease(c) \/ DeleteDone(c) \/ DeleteFailedGone(c) \/ CallFails(c)
      PROVE  SweepInv'
  <2>1. /\ UNCHANGED <<file, handler, attributes, pending, swept, late, slipped>>
        /\ leased' = leased \/ leased' = [leased EXCEPT ![call[c].job] = None]
        /\ call[c].pc # "idle"
        /\ \/ call' = [call EXCEPT ![c] = IdleCall]
           \/ /\ leased[call[c].job] = call[c].leaser
              /\ call' = [call EXCEPT ![c] = [call[c] EXCEPT !.pc = "delete"]]
           \/ /\ Outlives(c)
              /\ call' = [call EXCEPT ![c] = [call[c] EXCEPT !.pc = "append"]]
    BY <1>9, Zenon DEF CheckLease, DeleteDone, DeleteLeasedJob, DeleteFailedGone, CallFails, Outlives, Past
  <2>2. \A k \in Jobs : leased'[k] \in {leased[k], None}
    BY <2>1
  <2>3. call[c].job \in Jobs /\ call[c].leaser # None
    <3>1. call[c] \in CallState /\ call[c].pc # "idle"
      BY <2>1
    <3> HIDE DEF TypeOK
    <3>2. call[c].job \in Jobs /\ call[c].leaser \in Leasers
      BY <3>1, CallTypes
    <3> QED
      BY <3>2, NoneAssumption
  <2>4. /\ \A d \in Calls : d # c => call'[d] = call[d]
        /\ call'[c].pc # "idle" => call'[c].job = call[c].job /\ call'[c].op = call[c].op
    <3>1. \A pc \in {"delete", "append"} :
            /\ [call[c] EXCEPT !.pc = pc].job = call[c].job
            /\ [call[c] EXCEPT !.pc = pc].op = call[c].op
      BY DEF CallState, IdleCall
    <3>2. call'[c] = IdleCall \/ \E pc \in {"delete", "append"} : call'[c] = [call[c] EXCEPT !.pc = pc]
      BY <2>1
    <3>3. \A d \in Calls : d # c => call'[d] = call[d]
      BY <2>1
    <3> HIDE DEF TypeOK
    <3>4. call'[c] = IdleCall => call'[c].pc = "idle"
      BY DEF IdleCall
    <3> QED
      BY <3>1, <3>2, <3>3, <3>4
  <2>5. call' = [call EXCEPT ![c] = IdleCall] => ~Outlives(c)'
    BY DEF IdleCall, Outlives, Past
  <2>7. Outlives(c)' =>
          /\ call'[c].job = call[c].job
          /\ Outlives(c) \/ leased[call[c].job] # None
    <3>1. Outlives(c)' => call'[c].job = call[c].job
      BY <2>4 DEF Outlives, Past
    <3> HIDE DEF TypeOK
    <3> QED
      BY <2>1, <2>3, <2>5, <3>1
  <2>6. \A d \in Calls : Outlives(d)' =>
          /\ call'[d].job = call[d].job
          /\ Outlives(d) \/ (call[d].job \in Jobs /\ leased[call[d].job] # None)
    <3> HIDE DEF TypeOK
    <3> QED
      BY <2>3, <2>4, <2>7 DEF Outlives, Past
  <2> HIDE DEF TypeOK
  <2> QED
    BY <2>1, <2>2, <2>6, <1>1 DEF Outlives, Past
<1>10. ASSUME NEW l \in Leasers, NEW j \in Jobs, NEW c \in Calls,
              NEW op \in {"done", "fail"}, SendCall(c, l, j, op)
       PROVE  SweepInv'
  <2>1. /\ UNCHANGED <<file, handler, attributes, rows, swept, late, slipped>>
        /\ call' = [call EXCEPT
             ![c] = [pc |-> "check", op |-> op, job |-> j, leaser |-> l]]
    BY <1>10 DEF SendCall
  <2>2. \A d \in Calls : Outlives(d)' => Outlives(d) /\ call'[d] = call[d]
    BY <2>1 DEF Outlives, Past
  <2> HIDE DEF TypeOK
  <2> QED
    BY <2>1, <2>2, <1>1 DEF Outlives, Past
<1>13. ASSUME UNCHANGED <<file, handler, attributes, rows, call, swept, late, slipped>>
       PROVE  SweepInv'
  BY <1>0, <1>13 DEF SweepInv, SweepComplete, Sweeping, Escaped
<1>11. ASSUME NEW l \in Leasers, NEW j \in Jobs, Forget(l, j)
       PROVE  SweepInv'
  BY <1>11, <1>13 DEF Forget
<1>12. CASE UNCHANGED vars
  BY <1>12, <1>13 DEF vars
<1> HIDE DEF TypeOK
<1> QED
  BY <1>2, <1>3, <1>4, <1>5, <1>6, <1>7, <1>8, <1>9, <1>10, <1>11, <1>12
  DEF Next, HandlerNext, LeaserNext, CallProceeds, AssignNothing

(* Rows leave the queue without disturbing the order of the others.        *)
LEMMA DequeueOrder ==
  ASSUME TypeOK, OrderInv, NEW S \in SUBSET Jobs, Dequeue(S)
  PROVE  OrderInv'
BY DEF TypeOK, OrderInv, Dequeue, NoteQueue

(* A row that joins the queue is younger than every row there.             *)
LEMMA EnqueueOrder ==
  ASSUME TypeOK, OrderInv, NEW j \in Jobs, j \notin pending, Enqueue(j)
  PROVE  OrderInv'
<1>1. /\ pending' = pending \cup {j}
      /\ ahead'[j] = pending
      /\ \A k \in Jobs : k # j => ahead'[k] = ahead[k]
      /\ since'[j] = {}
      /\ \A k \in pending : since'[k] \subseteq since[k] \cup {j}
  BY DEF Enqueue, NoteQueue, TypeOK
<1> QED
  BY <1>1 DEF TypeOK, OrderInv

LEMMA QueueStep ==
  ASSUME TypeOK, CreatedInv, OrderInv, [Next]_vars
  PROVE  OrderInv'
<1> USE DEF queue, rows, attributes, history
<1>1. UNCHANGED queue => OrderInv'
  BY DEF OrderInv
<1>2. ASSUME NEW h \in Handlers, NEW j \in Jobs, NEW t \in Types, AppendJob(h, j, t)
      PROVE  OrderInv'
  BY <1>2, EnqueueOrder DEF AppendJob, CreatedInv
<1>3. ASSUME NEW h \in Handlers, SweepLeased(h)
      PROVE  OrderInv'
  <2>1. handler[h].held \in SUBSET Jobs
    BY HandlerTypes DEF TypeOK
  <2> QED
    BY <1>3, <2>1, DequeueOrder DEF SweepLeased
<1>4. ASSUME NEW l \in Leasers, NEW t \in Types, AssignPendingJob(l, t)
      PROVE  OrderInv'
  BY <1>4, DequeueOrder DEF AssignPendingJob, AppendLeasedJob
<1>5. ASSUME NEW c \in Calls, DeleteFailed(c) \/ AppendFailed(c)
      PROVE  OrderInv'
  <2>1. call[c].job \in Jobs
    BY <1>5, CallTypes DEF DeleteFailed, AppendFailed, TypeOK
  <2>2. UNCHANGED queue \/ (call[c].job \notin pending /\ Enqueue(call[c].job))
    BY <1>5, Zenon DEF DeleteFailed, AppendFailed
  <2> QED
    BY <2>1, <2>2, <1>1, EnqueueOrder
<1>6. ASSUME NEW c \in Calls,
             CheckLease(c) \/ DeleteDone(c) \/ DeleteFailedGone(c) \/ CallFails(c)
      PROVE  UNCHANGED queue
  BY <1>6, Zenon DEF CheckLease, DeleteDone, DeleteFailedGone, CallFails
<1>7. ASSUME NEW h \in Handlers, NEW f \in Files,
             CreateFile(h, f) \/ ChangeFile(h, f) \/ DeleteFile(h, f)
      PROVE  UNCHANGED queue
  BY <1>7, Zenon DEF CreateFile, ChangeFile, DeleteFile
<1>8. ASSUME NEW h \in Handlers, SweepPending(h) \/ HandlerFails(h)
      PROVE  UNCHANGED queue
  BY <1>8, Zenon DEF SweepPending, HandlerFails
<1>9. ASSUME NEW l \in Leasers, NEW c \in Calls, NEW j \in Jobs,
             NEW op \in {"done", "fail"}, SendCall(c, l, j, op)
      PROVE  UNCHANGED queue
  BY <1>9, Zenon DEF SendCall
<1>10. ASSUME NEW l \in Leasers, NEW j \in Jobs, Forget(l, j)
       PROVE  UNCHANGED queue
  BY <1>10, Zenon DEF Forget
<1>11. UNCHANGED vars => UNCHANGED queue
  BY DEF vars
<1> QED
  BY <1>1, <1>2, <1>3, <1>4, <1>5, <1>6, <1>7, <1>8, <1>9, <1>10, <1>11
  DEF Next, HandlerNext, LeaserNext, CallProceeds, AssignNothing

LEMMA AnyInvCorrect == Spec => []AnyInv
<1>1. AnyInv /\ TypeOK' /\ [Next]_vars => AnyInv'
  BY CreatedStep, LockStep, SweepStep, QueueStep DEF AnyInv
<1> QED
  BY <1>1, AnyInvInit, TypeCorrect, PTL DEF Spec

(* Once the sweep of a deleted file has committed, a job of the file is    *)
(* left only if it was created after the sweep had read the queue, or      *)
(* taken back by a MarkJobAsFailed that had found its lease before the     *)
(* commit; overlapping calls or not.                                       *)
THEOREM SweepCompleteCorrect == Spec => []SweepComplete
<1>1. AnyInv => SweepComplete
  BY DEF AnyInv, SweepInv
<1> QED
  BY <1>1, AnyInvCorrect, PTL

(* A job is never leased before one of its type that was in the queue when *)
(* it came or came back, overlapping calls or not.                         *)
THEOREM ServedInOrderCorrect == Spec => ServedInOrder
<1> DEFINE Served(j) ==
      leased'[j] # leased[j] /\ leased'[j] # None =>
        \A k \in pending : jobType[k] = jobType[j] => j \notin since[k]
<1>1. ASSUME AnyInv, [Next]_vars, NEW j \in pending
      PROVE  Served(j)
  <2> USE <1>1 DEF queue, rows, attributes, history
  <2>0. j \in Jobs /\ leased \in [Jobs -> Leasers \cup {None}]
    BY DEF AnyInv, TypeOK
  <2>1. leased'[j] \in {leased[j], None} => Served(j)
    OBVIOUS
  <2> HIDE DEF Served
  <2>2. ASSUME NEW h \in Handlers, SweepLeased(h)
        PROVE  Served(j)
    <3>1. leased'[j] \in {leased[j], None}
      BY <2>0, <2>2, Zenon DEF SweepLeased
    <3> QED
      BY <2>1, <3>1
  <2>3. ASSUME NEW l \in Leasers, NEW t \in Types, AssignPendingJob(l, t)
        PROVE  Served(j)
    <3>1. PICK i \in Jobs : Oldest(t, i) /\ leased' = [leased EXCEPT ![i] = l]
      BY <2>3 DEF AssignPendingJob, AppendLeasedJob
    <3>2. CASE i # j
      BY <2>0, <2>1, <3>1, <3>2
    <3>3. CASE i = j
      <4>1. jobType[j] = t /\ \A k \in ahead[j] : jobType[k] # t
        BY <3>1, <3>3 DEF Oldest
      <4>2. \A k \in pending : j \in since[k] => k \in ahead[j]
        BY DEF AnyInv, OrderInv
      <4> QED
        BY <4>1, <4>2 DEF Served
    <3> QED
      BY <3>2, <3>3
  <2>4. ASSUME NEW c \in Calls, DeleteDone(c) \/ DeleteFailed(c)
        PROVE  Served(j)
    <3>1. leased' = leased \/ leased' = [leased EXCEPT ![call[c].job] = None]
      BY <2>4 DEF DeleteDone, DeleteFailed, DeleteLeasedJob
    <3> QED
      BY <2>0, <2>1, <3>1
  <2>5. leased' = leased => Served(j)
    BY <2>1
  <2>6. ASSUME NEW c \in Calls,
               CheckLease(c) \/ DeleteFailedGone(c) \/ AppendFailed(c) \/ CallFails(c)
        PROVE  leased' = leased
    BY <2>6, Zenon DEF CheckLease, DeleteFailedGone, AppendFailed, CallFails
  <2>7. ASSUME NEW h \in Handlers, NEW f \in Files,
               CreateFile(h, f) \/ ChangeFile(h, f) \/ DeleteFile(h, f)
        PROVE  leased' = leased
    BY <2>7, Zenon DEF CreateFile, ChangeFile, DeleteFile
  <2>8. ASSUME NEW h \in Handlers, NEW k \in Jobs, NEW t \in Types, AppendJob(h, k, t)
        PROVE  leased' = leased
    BY <2>8, Zenon DEF AppendJob
  <2>9. ASSUME NEW h \in Handlers, SweepPending(h) \/ HandlerFails(h)
        PROVE  leased' = leased
    BY <2>9, Zenon DEF SweepPending, HandlerFails
  <2>10. ASSUME NEW l \in Leasers, NEW k \in Jobs, Forget(l, k)
         PROVE  leased' = leased
    BY <2>10, Zenon DEF Forget
  <2>11. ASSUME NEW l \in Leasers, NEW c \in Calls, NEW k \in Jobs,
                NEW op \in {"done", "fail"}, SendCall(c, l, k, op)
         PROVE  leased' = leased
    BY <2>11, Zenon DEF SendCall
  <2>12. CASE UNCHANGED vars
    BY <2>12, <2>5 DEF vars
  <2> QED
    BY <2>2, <2>3, <2>4, <2>5, <2>6, <2>7, <2>8, <2>9, <2>10, <2>11, <2>12
    DEF Next, HandlerNext, LeaserNext, CallProceeds, AssignNothing
<1>2. AnyInv /\ [Next]_vars => [\A j \in pending : Served(j)]_vars
  BY <1>1
<1> QED
  BY <1>2, AnyInvCorrect, PTL DEF Spec, ServedInOrder

(* Under the same discipline a lease ends only by a call of its leaser or  *)
(* by the commit of its file's sweep, of which there is one, and never     *)
(* passes to another leaser; a lease taken after the sweep is no           *)
(* exception.                                                              *)
THEOREM LeaseIsNotStolenCorrect ==
  ASSUME ~Overlap
  PROVE  Spec => LeaseIsNotStolen
<1> DEFINE Ends(j) ==
      leased[j] # None /\ leased'[j] # leased[j] =>
        /\ leased'[j] = None
        /\ \/ \E c \in Calls : Running(c, leased[j], j) /\ call'[c] = IdleCall
           \/ jobFile[j] \in swept' \ swept
<1>1. ASSUME OwnInv, SweepInv, [Next]_vars, NEW j \in Jobs
      PROVE  Ends(j)
  <2> USE <1>1 DEF queue, rows, attributes, history
  <2>1. leased' = leased => Ends(j)
    OBVIOUS
  <2> HIDE DEF Ends
  <2>2. ASSUME NEW h \in Handlers, SweepLeased(h)
        PROVE  Ends(j)
    <3>1. /\ leased' = [k \in Jobs |->
               IF jobFile[k] = handler[h].file THEN None ELSE leased[k]]
          /\ swept' = swept \cup {handler[h].file}
          /\ handler[h].pc = "sweepLeased"
      BY <2>2 DEF SweepLeased
    <3>2. handler[h].file \notin swept
      BY <3>1 DEF SweepInv, Sweeping
    <3> QED
      BY <3>1, <3>2 DEF Ends
  <2>3. ASSUME NEW l \in Leasers, NEW t \in Types, AssignPendingJob(l, t)
        PROVE  Ends(j)
    <3>1. PICK k \in Jobs : leased[k] = None /\ leased' = [leased EXCEPT ![k] = l]
      BY <2>3 DEF AssignPendingJob, AppendLeasedJob
    <3>2. j # k => leased'[j] = leased[j]
      BY <3>1 DEF OwnInv, TypeOK
    <3> QED
      BY <3>1, <3>2 DEF Ends
  <2>4. ASSUME NEW c \in Calls, DeleteDone(c) \/ DeleteFailed(c)
        PROVE  Ends(j)
    <3> DEFINE k == call[c].job
    <3>1. /\ leased' = leased \/ leased' = [leased EXCEPT ![k] = None]
          /\ call' = [call EXCEPT ![c] = IdleCall]
          /\ call[c].pc = "delete"
      BY <2>4 DEF DeleteDone, DeleteFailed, DeleteLeasedJob
    <3>2. call'[c] = IdleCall
      BY <3>1 DEF OwnInv, TypeOK
    <3>3. leased[k] \in {call[c].leaser, None} /\ call[c].pc # "idle"
      <4>1. Past(c)
        BY <3>1 DEF Past
      <4> QED
        BY <3>1, <4>1 DEF OwnInv, CallInv
    <3>4. j # k => leased'[j] = leased[j]
      BY <3>1 DEF OwnInv, TypeOK
    <3>5. j = k => leased'[j] \in {leased[j], None}
      BY <3>1 DEF OwnInv, TypeOK
    <3> QED
      BY <3>2, <3>3, <3>4, <3>5 DEF Running, Ends
  <2>5. ASSUME NEW c \in Calls,
               CheckLease(c) \/ DeleteFailedGone(c) \/ AppendFailed(c) \/ CallFails(c)
        PROVE  leased' = leased
    BY <2>5, Zenon DEF CheckLease, DeleteFailedGone, AppendFailed, CallFails
  <2>6. ASSUME NEW h \in Handlers, NEW f \in Files,
               CreateFile(h, f) \/ ChangeFile(h, f) \/ DeleteFile(h, f)
        PROVE  leased' = leased
    BY <2>6, Zenon DEF CreateFile, ChangeFile, DeleteFile
  <2>7. ASSUME NEW h \in Handlers, NEW k \in Jobs, NEW t \in Types, AppendJob(h, k, t)
        PROVE  leased' = leased
    BY <2>7, Zenon DEF AppendJob
  <2>8. ASSUME NEW h \in Handlers, SweepPending(h) \/ HandlerFails(h)
        PROVE  leased' = leased
    BY <2>8, Zenon DEF SweepPending, HandlerFails
  <2>9. ASSUME NEW l \in Leasers, NEW k \in Jobs, Forget(l, k)
        PROVE  leased' = leased
    BY <2>9, Zenon DEF Forget
  <2>10. ASSUME NEW l \in Leasers, NEW c \in Calls, NEW k \in Jobs,
                NEW op \in {"done", "fail"}, SendCall(c, l, k, op)
         PROVE  leased' = leased
    BY <2>10, Zenon DEF SendCall
  <2>11. CASE UNCHANGED vars
    BY <2>11, <2>1 DEF vars
  <2> QED
    BY <2>1, <2>2, <2>3, <2>4, <2>5, <2>6, <2>7, <2>8, <2>9, <2>10, <2>11
    DEF Next, HandlerNext, LeaserNext, CallProceeds, AssignNothing
<1>2. OwnInv /\ SweepInv /\ [Next]_vars => [\A j \in Jobs : Ends(j)]_vars
  BY <1>1
<1>3. AnyInv => SweepInv
  BY DEF AnyInv
<1> QED
  BY <1>2, <1>3, OwnInvCorrect, AnyInvCorrect, PTL DEF Spec, LeaseIsNotStolen
-----------------------------------------------------------------------------
(* The refinement of JobLedger.                                            *)

(* What each status says of the rows.                                      *)
LEMMA StatusFacts ==
  ASSUME OwnInv, NEW j \in Jobs
  PROVE  /\ JobStatus(j) = "pending" <=> j \in pending
         /\ JobStatus(j) = "leased" <=> leased[j] # None
         /\ JobStatus(j) = "finished" <=> j \in finished
         /\ JobStatus(j) = "unborn" <=> jobFile[j] = None
         /\ JobStatus(j) = "withdrawn" <=>
              jobFile[j] # None /\ j \notin pending /\ leased[j] = None /\ j \notin finished
BY DEF JobStatus, OwnInv, CreatedInv, FinishedInv, Exclusive

(* When only j's rows change, only j's status and owner change.            *)
LEMMA OneMoves ==
  ASSUME OwnInv, OwnInv', NEW j \in Jobs,
         \A k \in Jobs : k # j => /\ k \in pending' <=> k \in pending
                                  /\ k \in finished' <=> k \in finished
                                  /\ leased'[k] = leased[k]
                                  /\ jobFile'[k] = jobFile[k]
  PROVE  /\ [k \in Jobs |-> JobStatus(k)]'
              = [[k \in Jobs |-> JobStatus(k)] EXCEPT ![j] = JobStatus(j)']
         /\ leased' = [leased EXCEPT ![j] = leased'[j]]
<1>1. \A k \in Jobs : k # j => JobStatus(k)' = JobStatus(k)
  BY DEF JobStatus
<1>2. leased \in [Jobs -> Leasers \cup {None}] /\ leased' \in [Jobs -> Leasers \cup {None}]
  BY DEF OwnInv, TypeOK
<1>3. leased' = [leased EXCEPT ![j] = leased'[j]]
  BY <1>2
<1> HIDE DEF JobStatus
<1>4. [k \in Jobs |-> JobStatus(k)]'
        = [[k \in Jobs |-> JobStatus(k)] EXCEPT ![j] = JobStatus(j)']
  BY <1>1
<1> QED
  BY <1>3, <1>4

LEMMA LedgerStep ==
  ASSUME OwnInv, OwnInv', [Next]_vars
  PROVE  [Ledger!LedgerNext]_(Ledger!ledger)
<1> USE NoneAssumption DEF queue, rows, attributes, history
<1> DEFINE Stays == UNCHANGED <<pending, leased, jobFile, finished>>
<1>1. Stays => UNCHANGED Ledger!ledger
  BY DEF Ledger!ledger, JobStatus
<1>2. ASSUME NEW h \in Handlers, NEW j \in Jobs, NEW t \in Types, AppendJob(h, j, t)
      PROVE  Ledger!Add(j)
  <2>1. /\ pending' = pending \cup {j}
        /\ jobFile' = [jobFile EXCEPT ![j] = handler[h].file]
        /\ jobFile[j] = None
        /\ UNCHANGED <<leased, finished>>
    BY <1>2 DEF AppendJob, Enqueue
  <2>2. \A k \in Jobs : k # j => jobFile'[k] = jobFile[k]
    BY <2>1 DEF OwnInv, TypeOK
  <2>3. JobStatus(j) = "unborn" /\ JobStatus(j)' = "pending"
    BY <2>1, StatusFacts DEF JobStatus
  <2>4. leased'[j] = None
    BY <2>1 DEF OwnInv, CreatedInv
  <2>5. \A k \in Jobs : k # j => k \in pending' <=> k \in pending
    BY <2>1
  <2>6. /\ [k \in Jobs |-> JobStatus(k)]'
             = [[k \in Jobs |-> JobStatus(k)] EXCEPT ![j] = JobStatus(j)']
        /\ leased' = [leased EXCEPT ![j] = leased'[j]]
    BY <2>1, <2>2, <2>5, OneMoves
  <2> HIDE DEF JobStatus
  <2> QED
    BY <2>3, <2>4, <2>6 DEF Ledger!Add, Ledger!Move
<1>3. ASSUME NEW h \in Handlers, SweepLeased(h)
      PROVE  \E S \in SUBSET Jobs : Ledger!Withdraw(S)
  <2> DEFINE f == handler[h].file
             S == handler[h].held \cup {j \in Jobs : leased[j] # None /\ jobFile[j] = f}
  <2>1. /\ pending' = pending \ handler[h].held
        /\ leased' = [j \in Jobs |-> IF jobFile[j] = f THEN None ELSE leased[j]]
        /\ UNCHANGED <<jobFile, finished>>
    BY <1>3 DEF SweepLeased, Dequeue
  <2>2. S \in SUBSET Jobs
    BY HandlerTypes DEF OwnInv, TypeOK
  <2>3. \A j \in handler[h].held : j \in pending /\ jobFile[j] = f
    BY DEF OwnInv, LockInv
  <2> HIDE DEF f
  <2>4. ASSUME NEW j \in S
        PROVE  /\ JobStatus(j) \in {"pending", "leased"}
               /\ JobStatus(j)' = "withdrawn"
               /\ leased'[j] = None
    <3>1. j \in Jobs /\ jobFile[j] = f /\ (j \in pending \/ leased[j] # None)
      BY <2>2, <2>3
    <3>2. JobStatus(j) \in {"pending", "leased"}
      BY <3>1, StatusFacts
    <3>3. jobFile[j] # None /\ j \notin finished
      BY <3>1 DEF OwnInv, CreatedInv, FinishedInv
    <3>4. j \notin pending' /\ leased'[j] = None
      BY <2>1, <3>1 DEF OwnInv, Exclusive
    <3>5. JobStatus(j)' = "withdrawn"
      BY <2>1, <3>3, <3>4 DEF JobStatus
    <3> QED
      BY <3>2, <3>4, <3>5
  <2>5. ASSUME NEW j \in Jobs \ S
        PROVE  JobStatus(j)' = JobStatus(j) /\ leased'[j] = leased[j]
    BY <2>1 DEF JobStatus
  <2>6. leased' = [j \in Jobs |-> IF j \in S THEN None ELSE leased[j]]
    BY <2>1, <2>4, <2>5
  <2> HIDE DEF S
  <2>7. [j \in Jobs |-> JobStatus(j)]' =
        [j \in Jobs |-> IF j \in S THEN "withdrawn" ELSE [i \in Jobs |-> JobStatus(i)][j]]
    BY <2>4, <2>5
  <2> QED
    BY <2>2, <2>4, <2>6, <2>7 DEF Ledger!Withdraw
<1>4. ASSUME NEW l \in Leasers, NEW t \in Types, AssignPendingJob(l, t)
      PROVE  \E j \in Jobs : Ledger!Lease(j, l)
  <2>1. PICK j \in Jobs :
          /\ j \in pending
          /\ pending' = pending \ {j}
          /\ leased' = [leased EXCEPT ![j] = l]
    BY <1>4 DEF AssignPendingJob, AppendLeasedJob, Oldest, Dequeue
  <2>2. UNCHANGED <<jobFile, finished>>
    BY <1>4 DEF AssignPendingJob, AppendLeasedJob
  <2>3. leased'[j] = l /\ \A k \in Jobs : k # j => leased'[k] = leased[k]
    BY <2>1 DEF OwnInv, TypeOK
  <2>4. JobStatus(j) = "pending" /\ JobStatus(j)' = "leased"
    BY <2>1, <2>3, StatusFacts DEF JobStatus
  <2>5. \A k \in Jobs : k # j => k \in pending' <=> k \in pending
    BY <2>1
  <2>6. /\ [k \in Jobs |-> JobStatus(k)]'
             = [[k \in Jobs |-> JobStatus(k)] EXCEPT ![j] = JobStatus(j)']
        /\ leased' = [leased EXCEPT ![j] = leased'[j]]
    BY <2>2, <2>3, <2>5, OneMoves
  <2> HIDE DEF JobStatus
  <2> QED
    BY <2>3, <2>4, <2>6 DEF Ledger!Lease
<1>5. ASSUME NEW c \in Calls, DeleteDone(c)
      PROVE  \E j \in Jobs : Ledger!Finish(j)
  <2>0. PICK j \in Jobs : j = call[c].job
    BY <1>5, CallTypes DEF DeleteDone, OwnInv, TypeOK
  <2>1. Past(c)
    BY <1>5 DEF DeleteDone, Past
  <2>2. /\ leased' = [leased EXCEPT ![j] = None]
        /\ finished' = finished \cup {j}
        /\ UNCHANGED <<pending, jobFile>>
    BY <2>0, <1>5 DEF DeleteDone, DeleteLeasedJob
  <2>3. j \notin pending /\ j \notin finished /\ jobFile[j] # None
    BY <2>0, <2>1 DEF OwnInv, CallInv, FinishedInv, CreatedInv, Past
  <2>4. leased'[j] = None /\ \A k \in Jobs : k # j => leased'[k] = leased[k]
    BY <2>1, <2>2 DEF OwnInv, TypeOK
  <2>5. JobStatus(j) \in {"leased", "withdrawn"} /\ JobStatus(j)' = "finished"
    BY <2>1, <2>2, <2>3, <2>4 DEF JobStatus
  <2>6. \A k \in Jobs : k # j => k \in finished' <=> k \in finished
    BY <2>2
  <2>7. /\ [k \in Jobs |-> JobStatus(k)]'
             = [[k \in Jobs |-> JobStatus(k)] EXCEPT ![j] = JobStatus(j)']
        /\ leased' = [leased EXCEPT ![j] = leased'[j]]
    BY <2>2, <2>4, <2>6, OneMoves
  <2> HIDE DEF JobStatus
  <2> QED
    BY <2>4, <2>5, <2>7 DEF Ledger!Finish, Ledger!Move
<1>6. ASSUME NEW c \in Calls, DeleteFailed(c) \/ AppendFailed(c)
      PROVE  \E j \in Jobs : Ledger!Return(j) \/ Ledger!Revive(j)
  <2>0. PICK j \in Jobs : j = call[c].job
    BY <1>6, CallTypes DEF DeleteFailed, AppendFailed, OwnInv, TypeOK
  <2>1. Past(c)
    BY <1>6 DEF DeleteFailed, AppendFailed, Past
  <2>2. j \notin pending /\ j \notin finished /\ jobFile[j] # None
    BY <2>0, <2>1 DEF OwnInv, CallInv, FinishedInv, CreatedInv, Past
  <2>3. /\ pending' = pending \cup {j}
        /\ UNCHANGED <<jobFile, finished>>
        /\ leased' = [leased EXCEPT ![j] = None] \/ (leased' = leased /\ call[c].pc = "append")
    BY <2>0, <1>6, <2>2, Zenon DEF DeleteFailed, DeleteLeasedJob, AppendFailed, Enqueue
  <2>4. call[c].pc = "append" => leased[j] = None
    BY <2>0, <2>1 DEF OwnInv, CallInv
  <2>5. leased'[j] = None /\ \A k \in Jobs : k # j => leased'[k] = leased[k]
    BY <2>1, <2>3, <2>4 DEF OwnInv, TypeOK
  <2>6. JobStatus(j)' = "pending"
    BY <2>3 DEF JobStatus
  <2>7. JobStatus(j) \in {"leased"} \/ JobStatus(j) \in {"withdrawn"}
    BY <2>1, <2>2 DEF JobStatus
  <2>8. \A k \in Jobs : k # j => k \in pending' <=> k \in pending
    BY <2>3
  <2>9. /\ [k \in Jobs |-> JobStatus(k)]'
             = [[k \in Jobs |-> JobStatus(k)] EXCEPT ![j] = JobStatus(j)']
        /\ leased' = [leased EXCEPT ![j] = leased'[j]]
    BY <2>3, <2>5, <2>8, OneMoves
  <2> HIDE DEF JobStatus
  <2> QED
    BY <2>5, <2>6, <2>7, <2>9 DEF Ledger!Return, Ledger!Revive, Ledger!Move
<1>7. ASSUME NEW c \in Calls, CheckLease(c) \/ DeleteFailedGone(c) \/ CallFails(c)
      PROVE  Stays
  BY <1>7, Zenon DEF CheckLease, DeleteFailedGone, CallFails
<1>8. ASSUME NEW h \in Handlers, NEW f \in Files,
             CreateFile(h, f) \/ ChangeFile(h, f) \/ DeleteFile(h, f)
      PROVE  Stays
  BY <1>8, Zenon DEF CreateFile, ChangeFile, DeleteFile
<1>9. ASSUME NEW h \in Handlers, SweepPending(h) \/ HandlerFails(h)
      PROVE  Stays
  BY <1>9, Zenon DEF SweepPending, HandlerFails
<1>10. ASSUME NEW l \in Leasers, NEW c \in Calls, NEW j \in Jobs,
              NEW op \in {"done", "fail"}, SendCall(c, l, j, op)
       PROVE  Stays
  BY <1>10, Zenon DEF SendCall
<1>11. ASSUME NEW l \in Leasers, NEW j \in Jobs, Forget(l, j)
       PROVE  Stays
  BY <1>11, Zenon DEF Forget
<1>12. UNCHANGED vars => Stays
  BY DEF vars
<1> HIDE DEF Stays
<1> QED
  BY <1>1, <1>2, <1>3, <1>4, <1>5, <1>6, <1>7, <1>8, <1>9, <1>10, <1>11, <1>12
  DEF Next, HandlerNext, LeaserNext, CallProceeds, AssignNothing, Ledger!LedgerNext

(* Without overlapping calls the tables implement the ledger: one leaser   *)
(* at a time, a finished job never comes back, and only a call that raced  *)
(* a withdrawal brings a withdrawn job back.                               *)
THEOREM ImplementsLedgerCorrect ==
  ASSUME ~Overlap
  PROVE  Spec => ImplementsLedger
<1>1. Init => Ledger!LedgerInit
  BY DEF Init, Ledger!LedgerInit, JobStatus
<1>2. OwnInv /\ OwnInv' /\ [Next]_vars => [Ledger!LedgerNext]_(Ledger!ledger)
  BY LedgerStep
<1> QED
  BY <1>1, <1>2, OwnInvCorrect, PTL DEF Spec, ImplementsLedger, Ledger!LedgerSpec
=============================================================================
