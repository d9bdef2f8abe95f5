----------------------------- MODULE JobDispatch -----------------------------
(***************************************************************************)
(* The vectorization jobs of files: the tables job_queue_v2 and            *)
(* leased_jobs, the dispatch service that moves rows between them, and the *)
(* activity tracker of the file service that creates a job after a file    *)
(* changed and sweeps a file's jobs after it was deleted.                  *)
(*                                                                         *)
(* Transactions run at PostgreSQL's READ COMMITTED: each statement sees    *)
(* what was committed when it started, a row a transaction has deleted     *)
(* stays visible to readers and blocks writers until the commit, and a     *)
(* primary-key conflict aborts the transaction.  A transaction is split    *)
(* into steps exactly where another one can change what its next statement *)
(* sees; a statement that locks the row all later statements write is one  *)
(* step with them and the commit.                                          *)
(*                                                                         *)
(* Not represented: the payload, the retry counter and the lease           *)
(* expiration, which no statement of the program reads back to decide      *)
(* anything, and the read-only listings.                                   *)
(***************************************************************************)

CONSTANTS
  Jobs,      (* Job ids: fresh uuids, each used at most once.              *)
  Files,     (* File ids: fresh uuids, never used again after deletion.    *)
  Types,     (* Task types: "vectorize_" followed by the content type.     *)
  Leasers,   (* Leaser ids the workers present.                            *)
  Handlers,  (* Concurrent file requests of the API server.                *)
  Calls,     (* Concurrent calls that end a lease.                         *)
  None,      (* No leaser, file, type or job.                              *)
  Overlap    (* May a leaser send an ending call for a job while another   *)
             (* ending call of its own for that job is still running?      *)

ASSUME NoneAssumption ==
  None \notin Jobs \cup Files \cup Types \cup Leasers

ASSUME OverlapAssumption == Overlap \in BOOLEAN

VARIABLES
  file,      (* Each file: "absent", "stored" or "deleted".                *)
  pending,   (* The ids of the rows of job_queue_v2.                       *)
  ahead,     (* For each pending job, the jobs with an older created_at.   *)
  since,     (* History: for each pending job, those queued since it was.  *)
  leased,    (* The leaser column of each row of leased_jobs, or None.     *)
  jobFile,   (* The entity_id a job was created with; None: not created.   *)
  jobType,   (* The task_type a job was created with.                      *)
  handler,   (* What each file request still has to do, and the rows of    *)
             (* job_queue_v2 its open transaction has deleted.             *)
  call,      (* What each ending call still has to do.                     *)
  known,     (* The jobs each leaser was told it holds and remembers.      *)
  finished,  (* History: jobs an ending call reported done.                *)
  swept,     (* History: files whose sweep has committed.                  *)
  late,      (* History: jobs created after the sweep of their file had    *)
             (* read the queue.                                            *)
  slipped    (* History: jobs that a MarkJobAsFailed took back while a     *)
             (* sweep had read the queue and not committed, or was about   *)
             (* to when the sweep committed.                               *)

queue == <<pending, ahead, since>>
rows == <<queue, leased>>
attributes == <<jobFile, jobType>>
history == <<finished, swept, late, slipped>>
vars == <<file, rows, attributes, handler, call, known, history>>

At(pc, f, S) == [pc |-> pc, file |-> f, held |-> S]
IdleHandler == At("idle", None, {})
IdleCall == [pc |-> "idle", op |-> None, job |-> None, leaser |-> None]

Init ==
  /\ file = [f \in Files |-> "absent"]
  /\ pending = {}
  /\ ahead = [j \in Jobs |-> {}]
  /\ since = [j \in Jobs |-> {}]
  /\ leased = [j \in Jobs |-> None]
  /\ jobFile = [j \in Jobs |-> None]
  /\ jobType = [j \in Jobs |-> None]
  /\ handler = [h \in Handlers |-> IdleHandler]
  /\ call = [c \in Calls |-> IdleCall]
  /\ known = [l \in Leasers |-> {}]
  /\ finished = {}
  /\ swept = {}
  /\ late = {}
  /\ slipped = {}

-----------------------------------------------------------------------------
(* The tables.                                                             *)

(* j's row of job_queue_v2 is deleted by a transaction still open.         *)
Locked(j) == \E h \in Handlers : j \in handler[h].held

(* Mutant: newest first.                                                   *)
Newest(t, j) ==
  /\ j \in pending
  /\ jobType[j] = t
  /\ \A k \in pending : j \in ahead[k] => jobType[k] # t

(* PopJobForType's subquery: the oldest pending job of type t.             *)
Oldest(t, j) ==
  /\ j \in pending
  /\ jobType[j] = t
  /\ \A k \in ahead[j] : jobType[k] # t

(* The history of the queue follows from what is in it, and says nothing   *)
(* of created_at.                                                          *)
NoteQueue ==
  since' = [k \in Jobs |->
    IF k \in pending /\ k \in pending'
      THEN (since[k] \cup (pending' \ pending)) \cap pending' ELSE {}]

(* Mutant: a job that returns keeps the created_at it was created with.    *)
EnqueueKeepsDate(j) ==
  /\ pending' = pending \cup {j}
  /\ ahead' = [k \in Jobs |->
       IF jobFile[j] = None
         THEN IF k = j THEN pending ELSE ahead[k]
         ELSE IF k \in pending THEN ahead[k] \cup {j} ELSE {}]
  /\ NoteQueue

(* AppendJob: created_at is the present time, so j is younger than every   *)
(* row there.  The clock is read just before the insert; that two inserts  *)
(* cross in between is not represented.                                    *)
Enqueue(j) ==
  /\ pending' = pending \cup {j}
  /\ ahead' = [ahead EXCEPT ![j] = pending]
  /\ NoteQueue

Dequeue(S) ==
  /\ pending' = pending \ S
  /\ ahead' = [j \in Jobs |-> IF j \in S THEN {} ELSE ahead[j] \ S]
  /\ NoteQueue

(* Mutants: two columns are swapped; the row is not deleted.               *)
AppendLeasedJobSwapped(j, l) == leased' = [leased EXCEPT ![j] = jobType[j]]
DeleteLeasedJobKeeps(j) == UNCHANGED leased

(* AppendLeasedJob, with the leaser in its column, and DeleteLeasedJob,    *)
(* which reports no error when there is no such row.                       *)
AppendLeasedJob(j, l) == leased' = [leased EXCEPT ![j] = l]
DeleteLeasedJob(j) == leased' = [leased EXCEPT ![j] = None]

(* The sweep of file f has read the queue, and not committed; or it may    *)
(* have.                                                                   *)
SweepIsOpen(f) ==
  \E h \in Handlers : handler[h].pc = "sweepLeased" /\ handler[h].file = f
SweepHasRead(f) == f \in swept \/ SweepIsOpen(f)

(* c has found the lease its leaser's.                                     *)
Past(c) == call[c].pc \in {"delete", "append"}

(* The jobs of file f that a MarkJobAsFailed past its check will take back.*)
BeingFailed(f) ==
  {j \in Jobs : jobFile[j] = f /\
     \E c \in Calls : Past(c) /\ call[c].op = "fail" /\ call[c].job = j}

(* The histories of an insert into job_queue_v2: of a new job of file f,   *)
(* and of a job that a call takes back.                                    *)
NoteCreated(j, f) ==
  late' = IF SweepHasRead(f) THEN late \cup {j} ELSE late
NoteReturned(j) ==
  slipped' = IF SweepIsOpen(jobFile[j]) THEN slipped \cup {j} ELSE slipped

-----------------------------------------------------------------------------
(* File requests: the file service commits its own transaction, then the   *)
(* tracker's end function runs.                                            *)

(* CreateFile has committed; its job is not in the queue yet.              *)
CreateFile(h, f) ==
  /\ handler[h].pc = "idle"
  /\ file[f] = "absent"
  /\ file' = [file EXCEPT ![f] = "stored"]
  /\ handler' = [handler EXCEPT ![h] = At("append", f, {})]
  /\ UNCHANGED <<rows, attributes, call, known, history>>

(* UpdateFile, MoveFile or RenameFile has committed.                       *)
ChangeFile(h, f) ==
  /\ handler[h].pc = "idle"
  /\ file[f] = "stored"
  /\ handler' = [handler EXCEPT ![h] = At("append", f, {})]
  /\ UNCHANGED <<file, rows, attributes, call, known, history>>

(* DeleteFile has committed; the file's jobs are still there.              *)
DeleteFile(h, f) ==
  /\ handler[h].pc = "idle"
  /\ file[f] = "stored"
  /\ file' = [file EXCEPT ![f] = "deleted"]
  /\ handler' = [handler EXCEPT ![h] = At("sweepPending", f, {})]
  /\ UNCHANGED <<rows, attributes, call, known, history>>

(* The tracker's end after a change: the job is inserted outside any       *)
(* transaction, whatever has happened to the file since.                   *)
AppendJob(h, j, t) ==
  /\ handler[h].pc = "append"
  /\ jobFile[j] = None
  /\ Enqueue(j)
  /\ jobFile' = [jobFile EXCEPT ![j] = handler[h].file]
  /\ jobType' = [jobType EXCEPT ![j] = t]
  /\ NoteCreated(j, handler[h].file)
  /\ handler' = [handler EXCEPT ![h] = IdleHandler]
  /\ UNCHANGED <<file, leased, call, known, finished, swept, slipped>>

(* The tracker's end after a delete, first statement: DeleteJobsByEntity   *)
(* deletes, and so locks, the queue's rows of the file.                    *)
SweepPending(h) ==
  /\ handler[h].pc = "sweepPending"
  /\ LET f == handler[h].file IN
       handler' = [handler EXCEPT ![h] =
         At("sweepLeased", f, {j \in pending : jobFile[j] = f})]
  /\ UNCHANGED <<file, rows, attributes, call, known, history>>

(* Mutant: the sweep leaves the leases.                                    *)
SweepQueueOnly(h) ==
  /\ handler[h].pc = "sweepLeased"
  /\ Dequeue(handler[h].held)
  /\ swept' = swept \cup {handler[h].file}
  /\ slipped' = slipped \cup BeingFailed(handler[h].file)
  /\ handler' = [handler EXCEPT ![h] = IdleHandler]
  /\ UNCHANGED <<file, leased, attributes, call, known, finished, late>>

(* Second statement, DeleteLeasedJobs, and the commit.                     *)
SweepLeased(h) ==
  /\ handler[h].pc = "sweepLeased"
  /\ Dequeue(handler[h].held)
  /\ leased' = [j \in Jobs |->
       IF jobFile[j] = handler[h].file THEN None ELSE leased[j]]
  /\ swept' = swept \cup {handler[h].file}
  /\ slipped' = slipped \cup BeingFailed(handler[h].file)
  /\ handler' = [handler EXCEPT ![h] = IdleHandler]
  /\ UNCHANGED <<file, attributes, call, known, finished, late>>

(* What is left of a request is lost: the server stops, the request's      *)
(* context is cancelled, or a statement fails and the tracker only prints  *)
(* the error.  An open transaction is rolled back.                         *)
HandlerFails(h) ==
  /\ handler[h].pc # "idle"
  /\ handler' = [handler EXCEPT ![h] = IdleHandler]
  /\ UNCHANGED <<file, rows, attributes, call, known, history>>

-----------------------------------------------------------------------------
(* Leasing.                                                                *)

(* AssignPendingJob, having picked type t: pop the oldest row, insert it   *)
(* into leased_jobs, commit.  The leaser may never hear the answer.        *)
AssignPendingJob(l, t) ==
  \E j \in Jobs :
    /\ Oldest(t, j)
    /\ ~Locked(j)
    /\ leased[j] = None
    /\ Dequeue({j})
    /\ AppendLeasedJob(j, l)
    /\ \E heard \in {{}, {j}} : known' = [known EXCEPT ![l] = @ \cup heard]
    /\ UNCHANGED <<file, attributes, handler, call, history>>

(* AssignPendingJob with an error and no effect: no row of the type, or a  *)
(* row whose id is also in leased_jobs, whose insert fails.                *)
AssignNothing(l, t) ==
  /\ \A j \in Jobs : Oldest(t, j) => ~Locked(j) /\ leased[j] # None
  /\ UNCHANGED vars

-----------------------------------------------------------------------------
(* Ending a lease.  Both calls read the lease and compare its leaser, and  *)
(* delete it later by id alone: "done" is MarkJobAsDone and the lease part *)
(* of Index, "fail" is MarkJobAsFailed.                                    *)

Running(c, l, j) ==
  call[c].pc # "idle" /\ call[c].leaser = l /\ call[c].job = j

(* A leaser sends an ending call for a job it remembers.                   *)
SendCall(c, l, j, op) ==
  /\ call[c].pc = "idle"
  /\ j \in known[l]
  /\ Overlap \/ \A d \in Calls : ~Running(d, l, j)
  /\ call' = [call EXCEPT ![c] = [pc |-> "check", op |-> op, job |-> j, leaser |-> l]]
  /\ UNCHANGED <<file, rows, attributes, handler, known, history>>

(* Mutants: anybody's lease will do; a failed call needs no lease.         *)
CheckAnyLease(c) ==
  /\ call[c].pc = "check"
  /\ call' = [call EXCEPT ![c] =
       IF leased[call[c].job] # None
         THEN [call[c] EXCEPT !.pc = "delete"] ELSE IdleCall]
  /\ UNCHANGED <<file, rows, attributes, handler, known, history>>

CheckNothing(c) ==
  /\ call[c].pc = "check"
  /\ call' = [call EXCEPT ![c] = [call[c] EXCEPT !.pc = "delete"]]
  /\ UNCHANGED <<file, rows, attributes, handler, known, history>>

(* GetLeasedJob and the comparison of the leaser: the call goes on or      *)
(* returns an error.                                                       *)
CheckLease(c) ==
  /\ call[c].pc = "check"
  /\ call' = [call EXCEPT ![c] =
       IF leased[call[c].job] = call[c].leaser
         THEN [call[c] EXCEPT !.pc = "delete"] ELSE IdleCall]
  /\ UNCHANGED <<file, rows, attributes, handler, known, history>>

(* DeleteLeasedJob of a "done" call, whether or not the row is there.      *)
DeleteDone(c) ==
  /\ call[c].pc = "delete"
  /\ call[c].op = "done"
  /\ DeleteLeasedJob(call[c].job)
  /\ finished' = finished \cup {call[c].job}
  /\ call' = [call EXCEPT ![c] = IdleCall]
  /\ UNCHANGED <<file, queue, attributes, handler, known, swept, late, slipped>>

(* DeleteLeasedJob of a "fail" call when the row is there: it is locked    *)
(* until the commit, so AppendJob and the commit follow.  If the id is     *)
(* already in job_queue_v2 the insert aborts the transaction, AppendJob's  *)
(* error is ignored and the commit reports one.                            *)
DeleteFailed(c) ==
  LET j == call[c].job IN
  /\ call[c].pc = "delete"
  /\ call[c].op = "fail"
  /\ leased[j] # None
  /\ ~Locked(j)
  /\ IF j \in pending
       THEN UNCHANGED <<rows, slipped>>
       ELSE /\ DeleteLeasedJob(j)
            /\ Enqueue(j)
            /\ NoteReturned(j)
  /\ call' = [call EXCEPT ![c] = IdleCall]
  /\ UNCHANGED <<file, attributes, handler, known, finished, swept, late>>

(* DeleteLeasedJob of a "fail" call when the row is gone: nothing is       *)
(* deleted, nothing is locked and there is no error.                       *)
DeleteFailedGone(c) ==
  /\ call[c].pc = "delete"
  /\ call[c].op = "fail"
  /\ leased[call[c].job] = None
  /\ call' = [call EXCEPT ![c] = [call[c] EXCEPT !.pc = "append"]]
  /\ UNCHANGED <<file, rows, attributes, handler, known, history>>

(* AppendJob and the commit of a "fail" call whose lease was gone.         *)
AppendFailed(c) ==
  LET j == call[c].job IN
  /\ call[c].pc = "append"
  /\ ~Locked(j)
  /\ IF j \in pending
       THEN UNCHANGED <<queue, slipped>>
       ELSE Enqueue(j) /\ NoteReturned(j)
  /\ call' = [call EXCEPT ![c] = IdleCall]
  /\ UNCHANGED <<file, leased, attributes, handler, known, finished, swept, late>>

(* An ending call fails before it has written: the server stops, the       *)
(* request is cancelled, or the indexing between check and delete fails.   *)
CallFails(c) ==
  /\ call[c].pc # "idle"
  /\ call' = [call EXCEPT ![c] = IdleCall]
  /\ UNCHANGED <<file, rows, attributes, handler, known, history>>

(* A worker has its answer, gives up or restarts: it will not call about j *)
(* again.  A worker that does not hear the answer may.                     *)
Forget(l, j) ==
  /\ j \in known[l]
  /\ known' = [known EXCEPT ![l] = @ \ {j}]
  /\ UNCHANGED <<file, rows, attributes, handler, call, history>>

-----------------------------------------------------------------------------
HandlerNext(h) ==
  \/ \E f \in Files : CreateFile(h, f) \/ ChangeFile(h, f) \/ DeleteFile(h, f)
  \/ \E j \in Jobs, t \in Types : AppendJob(h, j, t)
  \/ SweepPending(h)
  \/ SweepLeased(h)
  \/ HandlerFails(h)

CallProceeds(c) ==
  \/ CheckLease(c)
  \/ DeleteDone(c)
  \/ DeleteFailed(c)
  \/ DeleteFailedGone(c)
  \/ AppendFailed(c)

LeaserNext(l) ==
  \/ \E t \in Types : AssignPendingJob(l, t) \/ AssignNothing(l, t)
  \/ \E c \in Calls, j \in Jobs, op \in {"done", "fail"} : SendCall(c, l, j, op)
  \/ \E j \in Jobs : Forget(l, j)

Next ==
  \/ \E h \in Handlers : HandlerNext(h)
  \/ \E l \in Leasers : LeaserNext(l)
  \/ \E c \in Calls : CallProceeds(c) \/ CallFails(c)

Spec == Init /\ [][Next]_vars

-----------------------------------------------------------------------------
(* Properties.                                                             *)

HandlerState == {IdleHandler} \cup
  [pc : {"append", "sweepPending", "sweepLeased"}, file : Files, held : SUBSET Jobs]

CallState == {IdleCall} \cup
  {r \in [pc : {"check", "delete", "append"}, op : {"done", "fail"}, job : Jobs,
          leaser : Leasers] : r.pc = "append" => r.op = "fail"}

TypeOK ==
  /\ file \in [Files -> {"absent", "stored", "deleted"}]
  /\ pending \in SUBSET Jobs
  /\ ahead \in [Jobs -> SUBSET Jobs]
  /\ since \in [Jobs -> SUBSET Jobs]
  /\ leased \in [Jobs -> Leasers \cup {None}]
  /\ jobFile \in [Jobs -> Files \cup {None}]
  /\ jobType \in [Jobs -> Types \cup {None}]
  /\ handler \in [Handlers -> HandlerState]
  /\ call \in [Calls -> CallState]
  /\ known \in [Leasers -> SUBSET Jobs]
  /\ finished \in SUBSET Jobs
  /\ swept \in SUBSET Files
  /\ late \in SUBSET Jobs
  /\ slipped \in SUBSET Jobs

(* A job is never queued and leased at once, so no two workers are given   *)
(* it.  Nothing in the schema says so: MarkJobAsFailed inserts into the    *)
(* queue even when its delete found no lease.                              *)
Exclusive == \A j \in pending : leased[j] = None

(* Jobs of a type are leased in the order they were queued: a job that     *)
(* came, or came back from a failed call, while another of its type was in *)
(* the queue is not leased before that one.  The table keeps no order but  *)
(* that of created_at, which every insert writes anew.                     *)
ServedInOrder ==
  [][\A j \in pending : leased'[j] # leased[j] /\ leased'[j] # None =>
       \A k \in pending : jobType[k] = jobType[j] => j \notin since[k]]_vars

(* When the sweep of a deleted file has committed, a job of the file is    *)
(* left only if it was created after the sweep had read the queue, or if a *)
(* MarkJobAsFailed that had found its lease before the sweep committed     *)
(* took it from the table not yet read to the one already read, or put it  *)
(* back when both were clean.  No later call brings a job back.            *)
SweepComplete ==
  \A j \in Jobs :
    jobFile[j] \in swept /\ (j \in pending \/ leased[j] # None)
      => j \in late \cup slipped

(* A lease is ended by a call of the leaser that holds it or by the one    *)
(* commit of its file's sweep, and never passes from one leaser to another *)
(* in one step: a call that checked a lease long ago does not delete one   *)
(* taken since, before the sweep or after it, while no leaser has two      *)
(* ending calls about one job under way (Overlap).                         *)
LeaseIsNotStolen ==
  [][\A j \in Jobs :
       leased[j] # None /\ leased'[j] # leased[j] =>
         /\ leased'[j] = None
         /\ \/ \E c \in Calls : Running(c, leased[j], j) /\ call'[c] = IdleCall
            \/ jobFile[j] \in swept' \ swept]_vars

(* Every queued job leaves the queue, however often other jobs fail and    *)
(* return to it.                                                           *)
PendingIsServed == \A j \in Jobs : j \in pending ~> j \notin pending

(* The tables implement the ledger of JobLedger.                           *)
JobStatus(j) ==
  CASE j \in pending -> "pending"
    [] j \notin pending /\ leased[j] # None -> "leased"
    [] j \notin pending /\ leased[j] = None /\ j \in finished -> "finished"
    [] j \notin pending /\ leased[j] = None /\ j \notin finished
         /\ jobFile[j] # None -> "withdrawn"
    [] OTHER -> "unborn"

Ledger == INSTANCE JobLedger WITH
  status <- [j \in Jobs |-> JobStatus(j)], owner <- leased

(* A job is leased by one leaser at a time, returns to the queue only from *)
(* a lease or from a withdrawal that raced the call, and never comes back  *)
(* once it is finished.                                                    *)
ImplementsLedger == Ledger!LedgerSpec

(* filevectorizationjob_test.go says no job of a deleted file is left in   *)
(* the queue ("Found orphaned job for deleted file").                      *)
NoOrphanedJob == \A j \in pending : jobFile[j] \notin swept

(* dispatchservice_test.go says a failed call about a job whose lease was  *)
(* removed meanwhile does not requeue it ("Verify not requeued").          *)
GoneIsNotRequeued ==
  [][\A j \in Jobs :
       jobFile[j] # None /\ j \notin pending /\ leased[j] = None
         => j \notin pending']_vars
=============================================================================
