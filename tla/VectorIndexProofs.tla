-------------------------- MODULE VectorIndexProofs --------------------------
(***************************************************************************)
(* Proofs about VectorIndex, for every number of jobs, files, chunks,      *)
(* leasers, requests and calls.                                            *)
(***************************************************************************)
EXTENDS VectorIndex, JobDispatchProofs

(* What Index does is to the job tables one of the calls of JobDispatch.   *)
LEMMA IndexStepIsJobStep ==
  ASSUME [IndexNext]_allVars
  PROVE  [Next]_vars
<1>1. ASSUME NEW c \in Calls, IndexProceeds(c) \/ IndexFails(c)
      PROVE  [Next]_vars
  <2>1. CallProceeds(c) \/ CallFails(c) \/ UNCHANGED vars
    BY <1>1
    DEF IndexProceeds, IndexFails, CheckOnly, StartIndex, ListStale, DeleteStale,
        StaleDeleted, InsertVector, CreateChunkIndex, CommitIndex, EndWithoutIndex,
        CallProceeds
  <2> QED
    BY <2>1 DEF Next
<1> QED
  BY <1>1 DEF IndexNext, Next, Search, LookUp, CleanOrphan, SearchEnds, allVars

(* The job tables keep what JobDispatch promises when Index and Search     *)
(* work with them.                                                         *)
THEOREM IndexKeepsJobs == IndexSpec => Spec
<1>1. IndexInit => Init
  BY DEF IndexInit
<1> QED
  BY <1>1, IndexStepIsJobStep, PTL DEF IndexSpec, Spec

-----------------------------------------------------------------------------
(* The place of each Index.                                                *)

IndexState ==
  [pc : {"none", "list", "clear", "vector", "row", "end"}, file : Ids \cup {None},
   count : 0 .. MaxChunks, next : 1 .. MaxChunks + 1, stale : SUBSET Chunks]

(* Index works while its call is between its check and its deletion, on a  *)
(* file it was asked to; it has chunks left when it is about to insert one.*)
WorkInv ==
  /\ IndexTypeOK
  /\ \A c \in Calls :
       /\ index[c].pc = "none" => index[c] = NoIndex
       /\ index[c].pc # "none" => /\ FileOf(c) \in Ids
                                  /\ call[c].pc = "delete" /\ call[c].op = "done"
       /\ index[c].pc \in {"vector", "row"} => index[c].next <= index[c].count
       /\ index[c].pc \in {"list", "clear"} => index[c].next = 1

(* The places Index takes.                                                 *)
Works(i) ==
  /\ i \in IndexState
  /\ i.pc = "none" => i = NoIndex
  /\ i.pc # "none" => i.file \in Ids
  /\ i.pc \in {"vector", "row"} => i.next <= i.count
  /\ i.pc \in {"list", "clear"} => i.next = 1

LEMMA GoesOnWorks ==
  ASSUME NEW i \in IndexState, i.file \in Ids
  PROVE  /\ Works(GoesOn(i)) /\ GoesOn(i).pc # "none"
         /\ GoesOn(i).next = i.next /\ GoesOn(i).file = i.file
<1>1. i.next \in Nat /\ i.count \in Nat
  BY MaxChunksAssumption DEF IndexState
<1>2. CASE i.next > i.count
  BY <1>1, <1>2 DEF GoesOn, Works, IndexState
<1>3. CASE ~(i.next > i.count)
  BY <1>1, <1>3 DEF GoesOn, Works, IndexState
<1> QED
  BY <1>2, <1>3

LEMMA StartWorks ==
  ASSUME NEW f \in Ids, NEW n \in 0 .. MaxChunks
  PROVE  LET i == Indexing(f, n)
             l == [i EXCEPT !.pc = "list"]
         IN  /\ i \in IndexState /\ i.next = 1 /\ i.file \in Ids
             /\ Works(l) /\ l.pc # "none" /\ l.next = 1
<1> DEFINE i == Indexing(f, n)
<1>1. i \in IndexState /\ i.next = 1 /\ i.file \in Ids
  BY MaxChunksAssumption DEF Indexing, IndexState
<1> HIDE DEF i
<1>2. LET l == [i EXCEPT !.pc = "list"]
      IN  Works(l) /\ l.pc # "none" /\ l.next = 1
  BY <1>1 DEF Works, IndexState
<1> QED
  BY <1>1, <1>2 DEF i

(* A job keeps its file.                                                   *)
LEMMA FileKept ==
  ASSUME CreatedInv, [Next]_vars, NEW j \in Jobs, jobFile[j] # None,
         TypeOK
  PROVE  jobFile'[j] = jobFile[j]
<1>1. attributes' = attributes \/
      \E h \in Handlers, k \in Jobs, t \in Types : AppendJob(h, k, t)
  BY DEF Next, HandlerNext, LeaserNext, CallProceeds, AssignNothing, vars,
         CreateFile, ChangeFile, DeleteFile, SweepPending, SweepLeased, HandlerFails,
         AssignPendingJob, SendCall, Forget, CheckLease, DeleteDone, DeleteFailed,
         DeleteFailedGone, AppendFailed, CallFails
<1> QED
  BY <1>1 DEF AppendJob, attributes, TypeOK

(* A step of the job tables that Index takes changes its call only; every  *)
(* other step leaves the calls that are past their check alone.            *)
LEMMA OtherCallsKept ==
  ASSUME TypeOK, NEW c \in Calls, CallProceeds(c) \/ CallFails(c) \/ UNCHANGED vars
  PROVE  \A d \in Calls \ {c} : call'[d] = call[d]
BY DEF TypeOK, CallProceeds, CallFails, vars, CheckLease, DeleteDone, DeleteFailed,
       DeleteFailedGone, AppendFailed

LEMMA BusyCallsKept ==
  ASSUME TypeOK, NEW c \in Calls, call[c].pc = "delete",
         (\E h \in Handlers : HandlerNext(h)) \/ \E l \in Leasers : LeaserNext(l)
  PROVE  call'[c] = call[c]
<1>1. call' = call \/ \E d \in Calls, l \in Leasers, j \in Jobs, op \in {"done", "fail"} :
                        SendCall(d, l, j, op)
  BY DEF HandlerNext, LeaserNext, AssignNothing, vars,
         CreateFile, ChangeFile, DeleteFile, AppendJob, SweepPending, SweepLeased,
         HandlerFails, AssignPendingJob, Forget
<1> QED
  BY <1>1 DEF SendCall, TypeOK

LEMMA WorkInvInit == IndexInit => WorkInv
<1> SUFFICES ASSUME IndexInit PROVE WorkInv
  OBVIOUS
<1>1. TypeOK
  BY HandlerTypes, CallTypes DEF IndexInit, Init, TypeOK
<1>2. NoIndex \in IndexState /\ NoIndex.pc = "none"
  BY MaxChunksAssumption DEF NoIndex, IndexState
<1> QED
  BY <1>1, <1>2 DEF IndexInit, WorkInv, IndexTypeOK, NoSearch, IndexState

LEMMA NextChunkTyped ==
  ASSUME WorkInv, NEW c \in Calls, index[c].pc \in {"vector", "row"}
  PROVE  NextChunk(c) \in Chunks
<1>1. FileOf(c) \in Ids
  BY DEF WorkInv
<1>2. index[c].next \in 1 .. MaxChunks
  BY MaxChunksAssumption DEF WorkInv, IndexTypeOK
<1> QED
  BY <1>1, <1>2 DEF NextChunk, Chunks

LEMMA WorkInvStep ==
  ASSUME WorkInv, CreatedInv, TypeOK', [IndexNext]_allVars
  PROVE  WorkInv'
<1> USE DEF WorkInv, IndexTypeOK
<1>0. /\ index \in [Calls -> IndexState]
      /\ \A d \in Calls : Works(index[d])
  BY DEF IndexState, Works, FileOf
<1>1. ASSUME NEW c \in Calls, NEW i, Works(i), SetIndex(c, i),
             \A d \in Calls \ {c} : call'[d] = call[d],
             i.pc # "none" => call'[c].pc = "delete" /\ call'[c].op = "done",
             chunks' \in SUBSET Chunks, vectors' \in SUBSET Chunks,
             cleared' \in SUBSET Chunks, doubted' \in SUBSET Chunks,
             UNCHANGED search
      PROVE  WorkInv'
  BY <1>0, <1>1 DEF SetIndex, Works, IndexState, FileOf
<1>2. ASSUME NEW c \in Calls,
             CallProceeds(c) \/ CallFails(c) \/ UNCHANGED vars
      PROVE  \A d \in Calls \ {c} : call'[d] = call[d]
  BY <1>2, OtherCallsKept
<1>3. ASSUME UNCHANGED indexVars,
             \A c \in Calls : index[c].pc # "none" => call'[c] = call[c]
      PROVE  WorkInv'
  BY <1>3 DEF indexVars, stores, FileOf
<1>4. CASE /\ (\E h \in Handlers : HandlerNext(h)) \/ \E l \in Leasers : LeaserNext(l)
           /\ UNCHANGED indexVars
  BY <1>3, <1>4, BusyCallsKept
<1>5. ASSUME NEW c \in Calls, CheckOnly(c) \/ EndWithoutIndex(c)
      PROVE  WorkInv'
  <2>1. CallProceeds(c) /\ UNCHANGED indexVars /\ index[c].pc = "none"
    BY <1>5 DEF CheckOnly, EndWithoutIndex, CallProceeds, CheckLease
  <2> QED
    BY <1>2, <1>3, <2>1
<1>6. ASSUME NEW c \in Calls, NEW f \in Ids, NEW n \in 0 .. MaxChunks,
             NEW replace \in BOOLEAN, StartIndex(c, f, n, replace)
      PROVE  WorkInv'
  <2> DEFINE i == Indexing(f, n)
             l == [i EXCEPT !.pc = "list"]
  <2>1. /\ call'[c].pc = "delete" /\ call'[c].op = "done"
        /\ \A d \in Calls \ {c} : call'[d] = call[d]
    <3>1. call[c] \in CallState /\ call[c].pc # "idle"
      BY <1>6, Zenon DEF StartIndex, CheckLease, TypeOK
    <3>2. call'[c] = [call[c] EXCEPT !.pc = "delete"]
      BY <1>6 DEF StartIndex, CheckLease, TypeOK
    <3> QED
      BY <1>2, <1>6, <3>1, <3>2 DEF StartIndex, CallState, IdleCall, CallProceeds
  <2>2. Works(l) /\ Works(GoesOn(i))
    BY StartWorks, GoesOnWorks
  <2>3. SetIndex(c, l) \/ SetIndex(c, GoesOn(i))
    BY <1>6 DEF StartIndex
  <2> HIDE DEF i, l
  <2> QED
    BY <1>1, <1>6, <2>1, <2>2, <2>3 DEF StartIndex, stores
<1>7. ASSUME NEW c \in Calls, ListStale(c)
      PROVE  WorkInv'
  <2> DEFINE i == [index[c] EXCEPT !.pc = "clear", !.stale = RowsOf(FileOf(c))]
  <2>1. RowsOf(FileOf(c)) \in SUBSET Chunks
    BY DEF RowsOf
  <2>2. Works(i)
    BY <1>0, <1>7, <2>1 DEF ListStale, Works, IndexState
  <2> HIDE DEF i
  <2>3. SetIndex(c, i)
    BY <1>7 DEF ListStale, i
  <2> QED
    BY <1>1, <1>2, <1>7, <2>2, <2>3 DEF ListStale, stores, vars
<1>8. ASSUME NEW c \in Calls, DeleteStale(c)
      PROVE  WorkInv'
  <2>1. PICK k \in index[c].stale :
          /\ vectors' = Delete(k)
          /\ cleared' = cleared \cup {k}
          /\ SetIndex(c, [index[c] EXCEPT !.stale = @ \ {k}])
    BY <1>8 DEF DeleteStale
  <2> DEFINE i == [index[c] EXCEPT !.stale = @ \ {k}]
  <2>2. Works(i) /\ k \in Chunks
    BY <1>0, <1>8 DEF DeleteStale, Works, IndexState
  <2> HIDE DEF i
  <2>3. SetIndex(c, i)
    BY <2>1 DEF i
  <2> QED
    BY <1>1, <1>2, <1>8, <2>1, <2>2, <2>3 DEF DeleteStale, Delete, vars
<1>9. ASSUME NEW c \in Calls, StaleDeleted(c)
      PROVE  WorkInv'
  <2>1. Works(GoesOn(index[c]))
    BY <1>0, <1>9, GoesOnWorks DEF StaleDeleted, Works
  <2> QED
    BY <1>1, <1>2, <1>9, <2>1 DEF StaleDeleted, stores, vars
<1>10. ASSUME NEW c \in Calls, InsertVector(c)
       PROVE  WorkInv'
  <2> DEFINE i == [index[c] EXCEPT !.pc = "row"]
  <2>1. Works(i)
    BY <1>0, <1>10 DEF InsertVector, Works, IndexState
  <2> HIDE DEF i
  <2>2. SetIndex(c, i)
    BY <1>10 DEF InsertVector, i
  <2>3. NextChunk(c) \in Chunks
    BY <1>10, NextChunkTyped DEF InsertVector
  <2> QED
    BY <1>1, <1>2, <1>10, <2>1, <2>2, <2>3 DEF InsertVector, Insert, vars
<1>11. ASSUME NEW c \in Calls, CreateChunkIndex(c)
       PROVE  WorkInv'
  <2>1. CASE CallFails(c) /\ SetIndex(c, NoIndex)
    <3>1. Works(NoIndex) /\ NoIndex.pc = "none"
      BY MaxChunksAssumption DEF Works, NoIndex, IndexState
    <3> QED
      BY <1>1, <1>2, <1>11, <2>1, <3>1 DEF CreateChunkIndex, stores
  <2> DEFINE i == [index[c] EXCEPT !.next = @ + 1]
  <2>2. CASE SetIndex(c, GoesOn(i)) /\ UNCHANGED vars
    <3>1. i \in IndexState /\ i.file \in Ids
      BY <1>0, <1>11, MaxChunksAssumption DEF CreateChunkIndex, IndexState, Works
    <3> HIDE DEF i
    <3>2. Works(GoesOn(i))
      BY <3>1, GoesOnWorks
    <3> QED
      BY <1>1, <1>2, <1>11, <2>2, <3>2 DEF CreateChunkIndex, stores, vars
  <2> QED
    BY <1>11, <2>1, <2>2 DEF CreateChunkIndex
<1>12. ASSUME NEW c \in Calls, CommitIndex(c)
       PROVE  WorkInv'
  <2>1. Works(NoIndex) /\ NoIndex.pc = "none"
    BY MaxChunksAssumption DEF Works, NoIndex, IndexState
  <2>2. Inserted(c) \in SUBSET Chunks
    <3>1. FileOf(c) \in Ids
      BY <1>12 DEF CommitIndex
    <3>2. index[c].next - 1 \in 0 .. MaxChunks
      BY MaxChunksAssumption
    <3> QED
      BY <3>1, <3>2, MaxChunksAssumption DEF Inserted, Chunks
  <2> QED
    BY <1>1, <1>2, <1>12, <2>1, <2>2 DEF CommitIndex, CallProceeds
<1>13. ASSUME NEW c \in Calls, IndexFails(c)
       PROVE  WorkInv'
  <2>1. Works(NoIndex) /\ NoIndex.pc = "none"
    BY MaxChunksAssumption DEF Works, NoIndex, IndexState
  <2> QED
    BY <1>1, <1>2, <1>13, <2>1 DEF IndexFails, stores
<1>14. CASE Search \/ LookUp \/ CleanOrphan \/ SearchEnds
  <2>1. UNCHANGED <<vars, index, chunks, cleared>>
    BY <1>14 DEF Search, LookUp, CleanOrphan, SearchEnds, stores
  <2>2. search' \in [hits : SUBSET Chunks, orphan : Chunks \cup {None}]
        /\ vectors' \in SUBSET Chunks /\ doubted' \in SUBSET Chunks
    <3>1. CASE Search
      <4>1. PICK S \in SUBSET vectors : search' = [NoSearch EXCEPT !.hits = S]
        BY <3>1 DEF Search, Nearest
      <4> QED
        BY <3>1, <4>1 DEF Search, NoSearch, stores
    <3>2. CASE LookUp
      BY <3>2 DEF LookUp, HasRow, stores
    <3>3. CASE CleanOrphan
      BY <3>3 DEF CleanOrphan, Delete
    <3>4. CASE SearchEnds
      BY <3>4 DEF SearchEnds, NoSearch, stores
    <3> QED
      BY <1>14, <3>1, <3>2, <3>3, <3>4
  <2> QED
    BY <2>1, <2>2 DEF vars, FileOf
<1>15. CASE UNCHANGED allVars
  BY <1>3, <1>15 DEF allVars, vars
<1> QED
  BY <1>4, <1>5, <1>6, <1>7, <1>8, <1>9, <1>10, <1>11, <1>12, <1>13, <1>14, <1>15
  DEF IndexNext, IndexProceeds, Search, LookUp, CleanOrphan, SearchEnds

-----------------------------------------------------------------------------
(* The rows: those of a file appear from its first chunk on, and no two    *)
(* transactions have inserted the same one.                                *)

RowsInv ==
  /\ \A f \in Ids, i \in 1 .. MaxChunks :
       <<f, i>> \in chunks => <<f, 1>> \in chunks
  /\ \A c \in Calls : Inserted(c) \cap chunks = {}
  /\ \A c, d \in Calls : c # d => Inserted(c) \cap Inserted(d) = {}

(* What a step does to the rows open and committed: it changes none,       *)
(* forgets those of a call, adds a new one to a call's, or commits.        *)
RowsChange ==
  \/ chunks' = chunks /\ \A c \in Calls : Inserted(c)' \in {Inserted(c), {}}
  \/ \E c \in Calls :
       /\ chunks' = chunks
       /\ index[c].pc = "row"
       /\ RowFree(c, NextChunk(c))
       /\ NextChunk(c) \notin chunks
       /\ Inserted(c)' = Inserted(c) \cup {NextChunk(c)}
       /\ \A d \in Calls \ {c} : Inserted(d)' = Inserted(d)
  \/ \E c \in Calls :
       /\ CommitIndex(c)
       /\ chunks' = chunks \cup Inserted(c)
       /\ Inserted(c)' = {}
       /\ \A d \in Calls \ {c} : Inserted(d)' = Inserted(d)

LEMMA NothingInserted ==
  ASSUME NEW c \in Calls, index[c].next = 1
  PROVE  Inserted(c) = {}
BY DEF Inserted

LEMMA NothingInsertedNext ==
  ASSUME NEW c \in Calls, index'[c].next = 1
  PROVE  Inserted(c)' = {}
BY DEF Inserted

(* A call that goes on with its file and as many rows has the same rows.   *)
LEMMA InsertedKept ==
  ASSUME NEW c \in Calls, index'[c].next = index[c].next, index'[c].file = index[c].file
  PROVE  Inserted(c)' = Inserted(c)
BY DEF Inserted, FileOf

LEMMA RowsStep ==
  ASSUME WorkInv, CreatedInv, TypeOK', [IndexNext]_allVars
  PROVE  RowsChange
<1> USE DEF WorkInv, IndexTypeOK
<1>1. ASSUME chunks' = chunks, index' = index
      PROVE  RowsChange
  <2>1. ASSUME NEW c \in Calls PROVE Inserted(c)' \in {Inserted(c), {}}
    BY <1>1, InsertedKept
  <2> QED
    BY <1>1, <2>1 DEF RowsChange
<1>2. ASSUME NEW c \in Calls, NEW i, SetIndex(c, i)
      PROVE  /\ index'[c] = i
             /\ \A d \in Calls \ {c} : Inserted(d)' = Inserted(d)
  <2>1. /\ index'[c] = i
        /\ \A d \in Calls \ {c} : index'[d] = index[d]
    BY <1>2 DEF SetIndex
  <2> QED
    BY <2>1, InsertedKept
<1>3. ASSUME NEW c \in Calls, NEW i, SetIndex(c, i), chunks' = chunks,
             i.next = 1 \/ (i.next = index[c].next /\ i.file = index[c].file)
      PROVE  RowsChange
  <2>1. index'[c] = i /\ \A d \in Calls \ {c} : Inserted(d)' = Inserted(d)
    BY <1>2, <1>3
  <2>2. Inserted(c)' \in {Inserted(c), {}}
    BY <1>3, <2>1, InsertedKept, NothingInsertedNext
  <2>3. \A d \in Calls : Inserted(d)' \in {Inserted(d), {}}
    BY <2>1, <2>2
  <2> QED
    BY <1>3, <2>3 DEF RowsChange
<1>4. CASE /\ (\E h \in Handlers : HandlerNext(h)) \/ \E l \in Leasers : LeaserNext(l)
           /\ UNCHANGED indexVars
  BY <1>1, <1>4 DEF indexVars, stores
<1>5. ASSUME NEW c \in Calls, CheckOnly(c) \/ EndWithoutIndex(c)
      PROVE  RowsChange
  BY <1>1, <1>5 DEF CheckOnly, EndWithoutIndex, indexVars, stores
<1>6. ASSUME NEW c \in Calls, NEW f \in Ids, NEW n \in 0 .. MaxChunks,
             NEW replace \in BOOLEAN, StartIndex(c, f, n, replace)
      PROVE  RowsChange
  <2> DEFINE i == Indexing(f, n)
             l == [i EXCEPT !.pc = "list"]
  <2>0. i \in IndexState /\ i.next = 1 /\ i.file \in Ids /\ l.next = 1
    BY StartWorks
  <2>1. l.next = 1 /\ GoesOn(i).next = 1
    BY <2>0, GoesOnWorks
  <2>2. SetIndex(c, l) \/ SetIndex(c, GoesOn(i))
    BY <1>6 DEF StartIndex
  <2> HIDE DEF i, l
  <2> QED
    BY <1>3, <1>6, <2>1, <2>2 DEF StartIndex, stores, CallProceeds
<1>7. ASSUME NEW c \in Calls, ListStale(c)
      PROVE  RowsChange
  <2> DEFINE i == [index[c] EXCEPT !.pc = "clear", !.stale = RowsOf(FileOf(c))]
  <2>1. i.next = index[c].next /\ i.file = index[c].file
    OBVIOUS
  <2> HIDE DEF i
  <2>2. SetIndex(c, i)
    BY <1>7 DEF ListStale, i
  <2> QED
    BY <1>3, <1>7, <2>1, <2>2 DEF ListStale, stores, vars
<1>8. ASSUME NEW c \in Calls, DeleteStale(c)
      PROVE  RowsChange
  <2>1. PICK k \in index[c].stale :
          SetIndex(c, [index[c] EXCEPT !.stale = @ \ {k}])
    BY <1>8 DEF DeleteStale
  <2> DEFINE i == [index[c] EXCEPT !.stale = @ \ {k}]
  <2>2. i.next = index[c].next /\ i.file = index[c].file
    OBVIOUS
  <2> HIDE DEF i
  <2>3. SetIndex(c, i)
    BY <2>1 DEF i
  <2> QED
    BY <1>3, <1>8, <2>2, <2>3 DEF DeleteStale, vars
<1>9. ASSUME NEW c \in Calls, StaleDeleted(c)
      PROVE  RowsChange
  <2>1. GoesOn(index[c]).next = index[c].next /\ GoesOn(index[c]).file = index[c].file
    BY <1>9, GoesOnWorks DEF StaleDeleted, FileOf, IndexState
  <2> QED
    BY <1>3, <1>9, <2>1 DEF StaleDeleted, stores, vars
<1>10. ASSUME NEW c \in Calls, InsertVector(c)
       PROVE  RowsChange
  <2> DEFINE i == [index[c] EXCEPT !.pc = "row"]
  <2>1. i.next = index[c].next /\ i.file = index[c].file
    OBVIOUS
  <2> HIDE DEF i
  <2>2. SetIndex(c, i)
    BY <1>10 DEF InsertVector, i
  <2> QED
    BY <1>3, <1>10, <2>1, <2>2 DEF InsertVector, vars
<1>11. ASSUME NEW c \in Calls, CreateChunkIndex(c)
       PROVE  RowsChange
  <2>1. CASE CallFails(c) /\ SetIndex(c, NoIndex)
    BY <1>3, <1>11, <2>1 DEF CreateChunkIndex, stores, NoIndex
  <2> DEFINE i == [index[c] EXCEPT !.next = @ + 1]
  <2>2. CASE SetIndex(c, GoesOn(i)) /\ UNCHANGED vars /\ NextChunk(c) \notin chunks
    <3>1. /\ i \in IndexState /\ i.next = index[c].next + 1
          /\ i.file = index[c].file /\ i.file \in Ids
      BY <1>11, MaxChunksAssumption DEF CreateChunkIndex, IndexState, FileOf
    <3> HIDE DEF i
    <3>2. index'[c].next = index[c].next + 1 /\ index'[c].file = index[c].file
      BY <1>2, <2>2, <3>1, GoesOnWorks
    <3>3. FileOf(c)' = FileOf(c)
      BY <3>2 DEF FileOf
    <3>4. index[c].next \in Nat \ {0}
      BY MaxChunksAssumption
    <3>5. Inserted(c)' = Inserted(c) \cup {NextChunk(c)}
      BY <3>2, <3>3, <3>4 DEF Inserted, NextChunk
    <3> QED
      BY <1>2, <1>11, <2>2, <3>5 DEF CreateChunkIndex, stores, RowsChange
  <2> QED
    BY <1>11, <2>1, <2>2 DEF CreateChunkIndex
<1>12. ASSUME NEW c \in Calls, CommitIndex(c)
       PROVE  RowsChange
  <2>1. /\ index'[c] = NoIndex
        /\ \A d \in Calls \ {c} : Inserted(d)' = Inserted(d)
    BY <1>2, <1>12 DEF CommitIndex, CallProceeds
  <2>2. Inserted(c)' = {}
    BY <2>1, NothingInsertedNext DEF NoIndex
  <2> QED
    BY <1>12, <2>1, <2>2 DEF CommitIndex, RowsChange
<1>13. ASSUME NEW c \in Calls, IndexFails(c)
       PROVE  RowsChange
  BY <1>3, <1>13 DEF IndexFails, stores, NoIndex
<1>14. CASE Search \/ LookUp \/ CleanOrphan \/ SearchEnds
  <2>1. UNCHANGED <<vars, index, chunks>>
    BY <1>14 DEF Search, LookUp, CleanOrphan, SearchEnds, stores
  <2> QED
    BY <1>1, <2>1 DEF vars
<1>15. CASE UNCHANGED allVars
  BY <1>1, <1>15 DEF allVars, indexVars, stores, vars
<1> QED
  BY <1>4, <1>5, <1>6, <1>7, <1>8, <1>9, <1>10, <1>11, <1>12, <1>13, <1>14, <1>15
  DEF IndexNext, IndexProceeds, Search, LookUp, CleanOrphan, SearchEnds

LEMMA RowsInvStep ==
  ASSUME WorkInv, CreatedInv, RowsInv, RowsChange
  PROVE  RowsInv'
<1>1. CASE chunks' = chunks /\ \A c \in Calls : Inserted(c)' \in {Inserted(c), {}}
  <2> USE <1>1 DEF RowsInv
  <2>1. \A f \in Ids, i \in 1 .. MaxChunks : <<f, i>> \in chunks' => <<f, 1>> \in chunks'
    OBVIOUS
  <2>2. \A c \in Calls : Inserted(c)' \cap chunks' = {}
    OBVIOUS
  <2>3. \A c, d \in Calls : c # d => Inserted(c)' \cap Inserted(d)' = {}
    OBVIOUS
  <2> QED
    BY <2>1, <2>2, <2>3
<1>2. ASSUME NEW c \in Calls, chunks' = chunks, index[c].pc = "row",
             RowFree(c, NextChunk(c)), NextChunk(c) \notin chunks,
             Inserted(c)' = Inserted(c) \cup {NextChunk(c)},
             \A d \in Calls \ {c} : Inserted(d)' = Inserted(d)
      PROVE  RowsInv'
  BY <1>2 DEF RowsInv, RowFree
<1>3. ASSUME NEW c \in Calls, CommitIndex(c), chunks' = chunks \cup Inserted(c),
             Inserted(c)' = {}, \A d \in Calls \ {c} : Inserted(d)' = Inserted(d)
      PROVE  RowsInv'
  <2>1. index[c].next \in Nat
    BY MaxChunksAssumption DEF WorkInv, IndexTypeOK
  <2>2. \A f, i : <<f, i>> \in Inserted(c) => <<f, 1>> \in Inserted(c)
    BY <2>1 DEF Inserted
  <2> QED
    BY <1>3, <2>2 DEF RowsInv
<1> QED
  BY <1>1, <1>2, <1>3 DEF RowsChange

IndexInv == WorkInv /\ RowsInv

LEMMA IndexInvInit == IndexInit => IndexInv
<1> SUFFICES ASSUME IndexInit PROVE IndexInv
  OBVIOUS
<1>1. WorkInv
  BY WorkInvInit
<1>2. chunks = {} /\ \A c \in Calls : Inserted(c) = {}
  BY NothingInserted DEF IndexInit, NoIndex
<1> QED
  BY <1>1, <1>2 DEF IndexInv, RowsInv

LEMMA IndexInvCorrect == IndexSpec => [](IndexInv /\ AnyInv)
<1>1. IndexInv /\ AnyInv /\ AnyInv' /\ [IndexNext]_allVars => IndexInv'
  <2> SUFFICES ASSUME IndexInv, AnyInv, AnyInv', [IndexNext]_allVars
               PROVE  IndexInv'
    OBVIOUS
  <2>1. WorkInv' /\ RowsChange
    BY WorkInvStep, RowsStep DEF IndexInv, AnyInv
  <2> QED
    BY <2>1, RowsInvStep DEF IndexInv, AnyInv
<1>2. IndexSpec => []AnyInv
  BY IndexKeepsJobs, AnyInvCorrect, PTL
<1> QED
  BY <1>1, <1>2, IndexInvInit, PTL DEF IndexSpec

(* A call that indexes or searches is where its local variables say, and   *)
(* rows and vectors are of chunks there are: the index keeps its type.     *)
THEOREM IndexTyped == IndexSpec => []IndexTypeOK
<1>1. IndexInv => IndexTypeOK
  BY DEF IndexInv, WorkInv
<1> QED
  BY <1>1, IndexInvCorrect, PTL

(* A file is indexed once: its rows are committed together, and every      *)
(* later Index of it, which starts with its first chunk again, fails.      *)
THEOREM NeverReindexedCorrect == IndexSpec => NeverReindexed
<1>1. ASSUME IndexInv, CreatedInv, RowsChange, NEW f \in Ids, RowsOf(f) # {}
      PROVE  RowsOf(f)' = RowsOf(f)
  <2> USE <1>1 DEF IndexInv
  <2>1. CASE chunks' = chunks
    BY <2>1 DEF RowsOf
  <2>2. ASSUME NEW c \in Calls, CommitIndex(c), chunks' = chunks \cup Inserted(c)
        PROVE  RowsOf(f)' = RowsOf(f)
    <3>1. <<f, 1>> \in chunks
      BY DEF RowsOf, RowsInv, WorkInv, IndexTypeOK, Chunks
    <3>2. FileOf(c) = f => Inserted(c) = {}
      <4>1. index[c].next \in Nat
        BY MaxChunksAssumption DEF WorkInv, IndexTypeOK
      <4>2. Inserted(c) # {} => <<FileOf(c), 1>> \in Inserted(c)
        BY <4>1 DEF Inserted
      <4> QED
        BY <3>1, <4>2 DEF RowsInv
    <3>3. \A k \in Inserted(c) : k[1] = FileOf(c)
      BY DEF Inserted
    <3> QED
      BY <2>2, <3>2, <3>3 DEF RowsOf
  <2> QED
    BY <2>1, <2>2 DEF RowsChange
<1>2. IndexInv /\ AnyInv /\ AnyInv' /\ [IndexNext]_allVars =>
        [\A f \in Ids : RowsOf(f) # {} => RowsOf(f)' = RowsOf(f)]_allVars
  BY <1>1, RowsStep DEF IndexInv, AnyInv
<1> QED
  BY <1>2, IndexInvCorrect, PTL DEF IndexSpec, NeverReindexed

-----------------------------------------------------------------------------
(* The vectors.                                                            *)

(* Its vector is there, or it is known why it is not.                      *)
Accounted(k) == k \in vectors \cup cleared \cup doubted

(* The rows committed, the rows inserted and the row Index is about to     *)
(* insert are accounted for, and a search removes only what it doubts.     *)
VectorsInv ==
  /\ \A k \in chunks : Accounted(k)
  /\ \A c \in Calls : \A k \in Inserted(c) : Accounted(k)
  /\ \A c \in Calls : index[c].pc = "row" => Accounted(NextChunk(c))
  /\ search.orphan # None => search.orphan \in doubted

(* An Index about to insert a row has just inserted the vector, or has     *)
(* been there already.                                                     *)
LEMMA RowPlace ==
  ASSUME WorkInv, NEW c \in Calls, index'[c].pc = "row", [IndexNext]_allVars
  PROVE  \/ InsertVector(c)
         \/ index[c].pc = "row" /\ index'[c] = index[c] /\ call'[c] = call[c]
<1> USE DEF WorkInv, IndexTypeOK
<1>1. CASE /\ (\E h \in Handlers : HandlerNext(h)) \/ \E l \in Leasers : LeaserNext(l)
           /\ UNCHANGED indexVars
  BY <1>1, BusyCallsKept DEF indexVars
<1>2. CASE UNCHANGED <<index, vars>>
  BY <1>2 DEF vars
<1>3. ASSUME NEW d \in Calls, IndexProceeds(d) \/ IndexFails(d), d # c
      PROVE  index'[c] = index[c] /\ call'[c] = call[c]
  <2>1. CallProceeds(d) \/ CallFails(d) \/ UNCHANGED vars
    BY <1>3
    DEF IndexProceeds, IndexFails, CheckOnly, StartIndex, ListStale, DeleteStale,
        StaleDeleted, InsertVector, CreateChunkIndex, CommitIndex, EndWithoutIndex,
        CallProceeds
  <2>2. call'[c] = call[c]
    BY <1>3, <2>1, OtherCallsKept
  <2>3. index' = index \/ \E i : SetIndex(d, i)
    BY <1>3
    DEF IndexProceeds, IndexFails, CheckOnly, StartIndex, ListStale, DeleteStale,
        StaleDeleted, InsertVector, CreateChunkIndex, CommitIndex, EndWithoutIndex,
        indexVars
  <2> QED
    BY <1>3, <2>2, <2>3 DEF SetIndex
<1>4. ASSUME IndexProceeds(c) \/ IndexFails(c), ~InsertVector(c)
      PROVE  FALSE
  <2>1. CASE CheckOnly(c) \/ EndWithoutIndex(c)
    BY <2>1 DEF CheckOnly, EndWithoutIndex, indexVars, CheckLease
  <2>2. ASSUME NEW i, SetIndex(c, i), i.pc # "row"
        PROVE  FALSE
    BY <2>2 DEF SetIndex
  <2>3. \A i \in IndexState : GoesOn(i).pc # "row"
    BY DEF GoesOn, IndexState
  <2>4. CASE ListStale(c)
    <3>1. [index[c] EXCEPT !.pc = "clear", !.stale = RowsOf(FileOf(c))].pc = "clear"
      BY <2>4 DEF ListStale
    <3> QED
      BY <2>2, <2>4, <3>1 DEF ListStale
  <2>5. CASE DeleteStale(c)
    <3>1. PICK k \in index[c].stale :
            SetIndex(c, [index[c] EXCEPT !.stale = @ \ {k}])
      BY <2>5 DEF DeleteStale
    <3>2. [index[c] EXCEPT !.stale = @ \ {k}].pc = "clear"
      BY <2>5 DEF DeleteStale
    <3> QED
      BY <2>2, <3>1, <3>2
  <2>6. CASE StaleDeleted(c)
    BY <2>2, <2>3, <2>6 DEF StaleDeleted, IndexState
  <2>7. CASE CreateChunkIndex(c)
    <3> DEFINE i == [index[c] EXCEPT !.next = @ + 1]
    <3>1. i \in IndexState
      BY <2>7, MaxChunksAssumption DEF CreateChunkIndex, IndexState
    <3>2. SetIndex(c, NoIndex) \/ SetIndex(c, GoesOn(i))
      BY <2>7 DEF CreateChunkIndex
    <3> HIDE DEF i
    <3> QED
      BY <2>2, <2>3, <3>1, <3>2 DEF NoIndex
  <2>8. CASE CommitIndex(c) \/ IndexFails(c)
    BY <2>2, <2>8 DEF CommitIndex, IndexFails, NoIndex
  <2>9. ASSUME NEW f \in Ids, NEW n \in 0 .. MaxChunks, NEW replace \in BOOLEAN,
               StartIndex(c, f, n, replace)
        PROVE  FALSE
    <3> DEFINE i == Indexing(f, n)
               l == [i EXCEPT !.pc = "list"]
    <3>1. i \in IndexState
      BY StartWorks
    <3>2. SetIndex(c, l) \/ SetIndex(c, GoesOn(i))
      BY <2>9 DEF StartIndex
    <3> HIDE DEF i
    <3>3. l.pc = "list"
      BY <3>1 DEF IndexState
    <3> HIDE DEF l
    <3> QED
      BY <2>2, <2>3, <3>1, <3>2, <3>3
  <2> QED
    BY <1>4, <2>1, <2>4, <2>5, <2>6, <2>7, <2>8, <2>9 DEF IndexProceeds
<1> QED
  BY <1>1, <1>2, <1>3, <1>4
  DEF IndexNext, allVars, indexVars, Search, LookUp, CleanOrphan, SearchEnds

LEMMA VectorsInvStep ==
  ASSUME WorkInv, CreatedInv, TypeOK', RowsChange, VectorsInv, [IndexNext]_allVars
  PROVE  VectorsInv'
<1> USE DEF WorkInv, IndexTypeOK
(* A row that is accounted for stays so.                                   *)
<1>1. ASSUME NEW k, Accounted(k) PROVE Accounted(k)'
  <2>1. CASE UNCHANGED <<vectors, cleared, doubted>>
    BY <1>1, <2>1 DEF Accounted
  <2>2. ASSUME NEW c \in Calls, DeleteStale(c) PROVE Accounted(k)'
    BY <1>1, <2>2 DEF DeleteStale, Delete, Accounted
  <2>3. ASSUME NEW c \in Calls, InsertVector(c) PROVE Accounted(k)'
    BY <1>1, <2>3 DEF InsertVector, Insert, Accounted
  <2>4. CASE LookUp
    BY <1>1, <2>4 DEF LookUp, stores, Accounted
  <2>5. CASE CleanOrphan
    BY <1>1, <2>5 DEF CleanOrphan, Delete, Accounted, VectorsInv
  <2>6. \/ UNCHANGED <<vectors, cleared, doubted>>
        \/ LookUp \/ CleanOrphan
        \/ \E c \in Calls : DeleteStale(c) \/ InsertVector(c)
    BY DEF IndexNext, IndexProceeds, CheckOnly, StartIndex, ListStale, StaleDeleted,
           CreateChunkIndex, CommitIndex, EndWithoutIndex, IndexFails, Search,
           SearchEnds, allVars, indexVars, stores
  <2> QED
    BY <2>1, <2>2, <2>3, <2>4, <2>5, <2>6
<1>2. search'.orphan # None => search'.orphan \in doubted'
  <2>1. CASE UNCHANGED <<search, doubted>>
    BY <2>1 DEF VectorsInv
  <2>2. ASSUME NEW c \in Calls, InsertVector(c)
        PROVE  search'.orphan # None => search'.orphan \in doubted'
    BY <2>2 DEF InsertVector, VectorsInv
  <2>3. CASE Search \/ CleanOrphan \/ SearchEnds
    <3>1. search'.orphan = None
      BY <2>3 DEF Search, CleanOrphan, SearchEnds, NoSearch
    <3> QED
      BY <3>1
  <2>4. CASE LookUp
    BY <2>4 DEF LookUp, HasRow
  <2>5. \/ UNCHANGED <<search, doubted>>
        \/ Search \/ LookUp \/ CleanOrphan \/ SearchEnds
        \/ \E c \in Calls : InsertVector(c)
    BY DEF IndexNext, IndexProceeds, CheckOnly, StartIndex, ListStale, DeleteStale,
           StaleDeleted, CreateChunkIndex, CommitIndex, EndWithoutIndex, IndexFails,
           allVars, indexVars, stores
  <2> QED
    BY <2>1, <2>2, <2>3, <2>4, <2>5
<1>3. \A k \in chunks' : Accounted(k)'
  BY <1>1 DEF RowsChange, VectorsInv
<1>4. \A c \in Calls : \A k \in Inserted(c)' : Accounted(k)'
  <2>1. CASE \A c \in Calls : Inserted(c)' \in {Inserted(c), {}}
    BY <1>1, <2>1 DEF VectorsInv
  <2>2. ASSUME NEW c \in Calls, index[c].pc = "row",
               Inserted(c)' = Inserted(c) \cup {NextChunk(c)},
               \A d \in Calls \ {c} : Inserted(d)' = Inserted(d)
        PROVE  \A d \in Calls : \A k \in Inserted(d)' : Accounted(k)'
    BY <1>1, <2>2 DEF VectorsInv
  <2> QED
    BY <2>1, <2>2 DEF RowsChange
<1>5. ASSUME NEW c \in Calls, index'[c].pc = "row"
      PROVE  Accounted(NextChunk(c))'
  <2>1. CASE index[c].pc = "row" /\ index'[c] = index[c] /\ call'[c] = call[c]
    <3>1. NextChunk(c)' = NextChunk(c)
      BY <2>1 DEF NextChunk, FileOf
    <3>2. Accounted(NextChunk(c))
      BY <2>1 DEF VectorsInv
    <3> HIDE DEF WorkInv
    <3> QED
      BY <1>1, <3>1, <3>2
  <2>2. CASE InsertVector(c)
    <3> DEFINE i == [index[c] EXCEPT !.pc = "row"]
    <3>1. i.next = index[c].next /\ i.file = index[c].file
      OBVIOUS
    <3> HIDE DEF i
    <3>2. index'[c] = i
      BY <2>2 DEF InsertVector, SetIndex, i
    <3>3. NextChunk(c)' = NextChunk(c)
      BY <2>2, <3>1, <3>2 DEF NextChunk, FileOf
    <3> QED
      BY <2>2, <3>3 DEF InsertVector, Insert, Accounted
  <2> QED
    BY <1>5, <2>1, <2>2, RowPlace
<1> QED
  BY <1>2, <1>3, <1>4, <1>5 DEF VectorsInv

(* A row without its vector only comes of a Replace that removed it, or of *)
(* a search that looked for the row before Index had committed it.         *)
THEOREM LostVectorsExplainedCorrect == IndexSpec => []LostVectorsExplained
<1>1. IndexInit => VectorsInv
  BY NothingInserted DEF IndexInit, VectorsInv, NoIndex, NoSearch
<1>2. IndexInv /\ AnyInv /\ AnyInv' /\ VectorsInv /\ [IndexNext]_allVars => VectorsInv'
  <2> SUFFICES ASSUME IndexInv, AnyInv, AnyInv', VectorsInv, [IndexNext]_allVars
               PROVE  VectorsInv'
    OBVIOUS
  <2> QED
    BY RowsStep, VectorsInvStep DEF IndexInv, AnyInv
<1>3. VectorsInv => LostVectorsExplained
  BY DEF VectorsInv, Accounted, LostVectorsExplained
<1> QED
  BY <1>1, <1>2, <1>3, IndexInvCorrect, PTL DEF IndexSpec

-----------------------------------------------------------------------------
(* The lease at the end of Index.                                          *)

(* The lease a call has checked is still its leaser's, unless the jobs of  *)
(* the file have been swept.                                               *)
LeaseInv ==
  \A c \in Calls : call[c].pc = "delete" =>
    leased[call[c].job] = call[c].leaser \/ jobFile[call[c].job] \in swept

LEMMA LeaseInvStep ==
  ASSUME OwnInv, OwnInv', LeaseInv, [Next]_vars
  PROVE  LeaseInv'
<1> USE DEF OwnInv, queue, rows, attributes, history
<1> SUFFICES ASSUME NEW c \in Calls, call'[c].pc = "delete"
             PROVE  \/ leased'[call'[c].job] = call'[c].leaser
                    \/ jobFile'[call'[c].job] \in swept'
  BY DEF LeaseInv
<1>1. CASE CheckLease(c)
  <2>1. call[c] \in CallState /\ call[c].pc # "idle"
    BY <1>1, Zenon DEF CheckLease, TypeOK
  <2>2. call'[c] = IF leased[call[c].job] = call[c].leaser
                     THEN [call[c] EXCEPT !.pc = "delete"] ELSE IdleCall
    BY <1>1 DEF CheckLease, TypeOK
  <2>3. leased[call[c].job] = call[c].leaser
    BY <2>2 DEF IdleCall
  <2> QED
    BY <1>1, <2>1, <2>2, <2>3 DEF CheckLease, CallState, IdleCall
<1>2. CASE call'[c] = call[c]
  <2> DEFINE j == call[c].job
  <2>1. j \in Jobs /\ jobFile'[j] = jobFile[j] /\ jobFile[j] # None
    BY <1>2, CallTypes, FileKept DEF TypeOK, CreatedInv
  <2>2. leased[j] = call[c].leaser \/ jobFile[j] \in swept
    BY <1>2 DEF LeaseInv
  <2>3. j \notin pending
    BY <1>2 DEF CallInv, Past
  <2>4. CASE leased' = leased /\ swept \subseteq swept'
    BY <1>2, <2>1, <2>2, <2>4
  <2>5. ASSUME NEW h \in Handlers, SweepLeased(h)
        PROVE  leased'[j] = call[c].leaser \/ jobFile[j] \in swept'
    BY <2>1, <2>2, <2>5 DEF SweepLeased
  <2>6. ASSUME NEW l \in Leasers, NEW t \in Types, AssignPendingJob(l, t)
        PROVE  leased'[j] = leased[j] /\ swept' = swept
    BY <2>1, <2>3, <2>6 DEF AssignPendingJob, Oldest, AppendLeasedJob, TypeOK
  <2>7. ASSUME NEW d \in Calls, DeleteDone(d) \/ DeleteFailed(d)
        PROVE  leased'[j] = leased[j] /\ swept' = swept
    <3>1. d # c
      BY <1>2, <2>7 DEF DeleteDone, DeleteFailed, IdleCall, TypeOK
    <3>2. call[d].job # j
      BY <1>2, <2>7, <3>1 DEF DeleteDone, DeleteFailed, CallInv, Past
    <3> QED
      BY <2>1, <2>7, <3>2 DEF DeleteDone, DeleteFailed, DeleteLeasedJob, TypeOK
  <2>8. \/ leased' = leased /\ swept \subseteq swept'
        \/ \E h \in Handlers : SweepLeased(h)
        \/ \E l \in Leasers, t \in Types : AssignPendingJob(l, t)
        \/ \E d \in Calls : DeleteDone(d) \/ DeleteFailed(d)
    BY DEF Next, HandlerNext, LeaserNext, CallProceeds, AssignNothing, vars,
           CreateFile, ChangeFile, DeleteFile, AppendJob, SweepPending, HandlerFails,
           SendCall, Forget, CheckLease, DeleteFailedGone, AppendFailed, CallFails
  <2> QED
    BY <1>2, <2>1, <2>2, <2>4, <2>5, <2>6, <2>7, <2>8
<1>3. CheckLease(c) \/ call'[c] = call[c]
  <2>1. ASSUME NEW d \in Calls, CallProceeds(d) \/ CallFails(d), d # c
        PROVE  call'[c] = call[c]
    BY <2>1, OtherCallsKept
  <2>2. ASSUME NEW d \in Calls, NEW l \in Leasers, NEW j \in Jobs,
               NEW op \in {"done", "fail"}, SendCall(d, l, j, op)
        PROVE  call'[c] = call[c]
    BY <2>2 DEF SendCall, TypeOK
  <2>3. CASE (CallProceeds(c) \/ CallFails(c)) /\ ~CheckLease(c)
    <3>1. IdleCall.pc = "idle"
      BY DEF IdleCall
    <3>2. CASE call'[c] = IdleCall
      BY <3>1, <3>2
    <3>3. CASE DeleteFailedGone(c)
      <4>1. call[c] \in CallState /\ call[c].pc # "idle"
        BY <3>3, Zenon DEF DeleteFailedGone, TypeOK
      <4>2. [call[c] EXCEPT !.pc = "append"].pc = "append"
        BY <4>1, <3>1 DEF CallState
      <4> QED
        BY <3>3, <4>2 DEF DeleteFailedGone, TypeOK
    <3> QED
      BY <2>3, <3>2, <3>3 DEF CallProceeds, CallFails, DeleteDone, DeleteFailed,
                              AppendFailed, TypeOK
  <2>4. \/ call' = call
        \/ \E d \in Calls : CallProceeds(d) \/ CallFails(d)
        \/ \E d \in Calls, l \in Leasers, j \in Jobs, op \in {"done", "fail"} :
             SendCall(d, l, j, op)
    BY DEF Next, HandlerNext, LeaserNext, AssignNothing, vars,
           CreateFile, ChangeFile, DeleteFile, AppendJob, SweepPending, SweepLeased,
           HandlerFails, AssignPendingJob, Forget
  <2> QED
    BY <2>1, <2>2, <2>3, <2>4
<1> QED
  BY <1>1, <1>2, <1>3

(* While no leaser runs two ending calls for one job at a time, Index      *)
(* commits rows, of whichever file, together with the end of the lease it  *)
(* checked when it began: no other leaser has it, and it is gone only if   *)
(* the jobs of the job's file have been swept meanwhile.                   *)
THEOREM IndexUnderLeaseCorrect ==
  ASSUME ~Overlap
  PROVE  IndexSpec => IndexUnderLease
<1> DEFINE Leased(f) ==
      RowsOf(f)' # RowsOf(f) =>
        \E c \in Calls :
          /\ call[c].op = "done" /\ FileOf(c) = f
          /\ leased'[call[c].job] = None /\ call[c].job \in finished'
          /\ \/ leased[call[c].job] = call[c].leaser
             \/ leased[call[c].job] = None /\ jobFile[call[c].job] \in swept
<1>1. Spec => []LeaseInv
  <2>1. Init => LeaseInv
    BY DEF Init, LeaseInv, IdleCall
  <2>2. OwnInv /\ OwnInv' /\ LeaseInv /\ [Next]_vars => LeaseInv'
    BY LeaseInvStep
  <2> QED
    BY <2>1, <2>2, OwnInvCorrect, PTL DEF Spec
<1>2. ASSUME OwnInv, LeaseInv, RowsChange, NEW f \in Ids
      PROVE  Leased(f)
  <2>1. CASE chunks' = chunks
    BY <2>1 DEF RowsOf
  <2>2. ASSUME NEW c \in Calls, CommitIndex(c), chunks' = chunks \cup Inserted(c)
        PROVE  Leased(f)
    <3> DEFINE j == call[c].job
    <3>1. \A k \in Inserted(c) : k[1] = FileOf(c)
      BY DEF Inserted
    <3>2. RowsOf(f)' # RowsOf(f) => FileOf(c) = f
      BY <2>2, <3>1 DEF RowsOf
    <3>3. DeleteDone(c)
      BY <2>2 DEF CommitIndex
    <3>4. call[c].op = "done" /\ call[c].pc = "delete" /\ j \in Jobs
      BY <1>2, <3>3, CallTypes DEF DeleteDone, OwnInv, TypeOK
    <3>5. leased'[j] = None /\ j \in finished'
      BY <1>2, <3>3, <3>4 DEF DeleteDone, DeleteLeasedJob, history, OwnInv, TypeOK
    <3>6. leased[j] = call[c].leaser \/ jobFile[j] \in swept
      BY <1>2, <3>4 DEF LeaseInv
    <3>7. leased[j] \in {call[c].leaser, None}
      BY <1>2, <3>4 DEF OwnInv, CallInv, Past
    <3> QED
      BY <3>2, <3>4, <3>5, <3>6, <3>7
  <2> QED
    BY <1>2, <2>1, <2>2 DEF RowsChange
<1>3. IndexInv /\ AnyInv /\ AnyInv' /\ OwnInv /\ LeaseInv /\ [IndexNext]_allVars =>
        [\A f \in Ids : Leased(f)]_allVars
  BY <1>2, RowsStep DEF IndexInv, AnyInv
<1>4. IndexSpec => [](OwnInv /\ LeaseInv)
  BY <1>1, OwnInvCorrect, IndexKeepsJobs, PTL
<1> QED
  BY <1>3, <1>4, IndexInvCorrect, PTL DEF IndexSpec, IndexUnderLease

=============================================================================
