----------------------------- MODULE VectorIndex -----------------------------
(***************************************************************************)
(* The indexing service over the job tables of JobDispatch: Index, which   *)
(* puts the chunks of a file into the table chunks_idx and their vectors   *)
(* into the vector store and ends the job's lease, and Search, which asks  *)
(* the vector store and removes the vectors that have no row.              *)
(*                                                                         *)
(* Index is an ending call of JobDispatch that works between its check of  *)
(* the lease and its deletion.  It is one READ COMMITTED transaction: its  *)
(* rows are visible to others when it commits, but hold their primary keys *)
(* from their insert.  The vector store knows no transactions.             *)
(*                                                                         *)
(* Not represented: the contents of chunks, keywords and vectors, the      *)
(* calls to models between the steps (they only fail or take time), the    *)
(* order of search results, and the rows of files that results are         *)
(* completed with.                                                         *)
(***************************************************************************)
EXTENDS JobDispatch, Naturals

CONSTANTS
  Ids,       (* The file ids that requests name, of files or of none.      *)
  MaxChunks  (* Bound: the chunks a file is cut into.                      *)

ASSUME IdsAssumption == None \notin Ids

ASSUME MaxChunksAssumption == MaxChunks \in Nat

(* The i-th chunk of a file; its row and its vector have the same id.      *)
Chunks == Ids \X (1 .. MaxChunks)

VARIABLES
  chunks,    (* The rows of chunks_idx.                                    *)
  vectors,   (* The ids in the vector store.                               *)
  index,     (* What Index does in each ending call.                       *)
  search,    (* The vectors a search has found and not looked up, and the  *)
             (* one it has found no row of.                                *)
  cleared,   (* History: chunks whose vectors an Index call removed, and   *)
  doubted    (* chunks a search found no row of, each since the vector was *)
             (* last inserted or, doubted, with its removal still to come. *)

stores == <<chunks, vectors>>
indexVars == <<stores, index, search, cleared, doubted>>
allVars == <<vars, indexVars>>

(* Index at pc has count chunks of file to insert and is at the next of    *)
(* them; it has still to remove the vectors of stale.                      *)
Indexing(f, n) == [pc |-> "none", file |-> f, count |-> n, next |-> 1, stale |-> {}]
NoIndex == [pc |-> "none", file |-> None, count |-> 0, next |-> 1, stale |-> {}]
NoSearch == [hits |-> {}, orphan |-> None]

IndexInit ==
  /\ Init
  /\ chunks = {}
  /\ vectors = {}
  /\ index = [c \in Calls |-> NoIndex]
  /\ search = NoSearch
  /\ cleared = {}
  /\ doubted = {}

-----------------------------------------------------------------------------
(* The file whose rows c writes.  It is the id that the client sends,      *)
(* and nothing compares it with the entity of the job.                     *)
FileOf(c) == index[c].file
NextChunk(c) == <<FileOf(c), index[c].next>>

(* ListChunkIndicesByResource, and GetChunkIndexByID.                      *)
RowsOf(f) == {k \in chunks : k[1] = f}
HasRow(k) == k \in chunks

(* The vector store: Insert overwrites, Search answers with any vectors.   *)
Insert(k) == vectors \cup {k}
Delete(k) == vectors \ {k}
Nearest == SUBSET vectors

(* The rows c's transaction has inserted.                                  *)
Inserted(c) == {<<FileOf(c), i>> : i \in 1 .. index[c].next - 1}

SetIndex(c, i) == index' = [index EXCEPT ![c] = i]

(* Index goes on with its next chunk, if there is one left.                *)
GoesOn(i) == [i EXCEPT !.pc = IF i.next > i.count THEN "end" ELSE "vector"]

-----------------------------------------------------------------------------
(* Ending calls.                                                           *)

(* The check of a call that is not Index, or is refused.                   *)
CheckOnly(c) == CheckLease(c) /\ UNCHANGED indexVars

(* Index has found the lease its leaser's; the request has n chunks of f,  *)
(* whichever file the job is of, and may ask for f's to be replaced.       *)
StartIndex(c, f, n, replace) ==
  /\ call[c].op = "done"
  /\ CheckLease(c)
  /\ call'[c] # IdleCall
  /\ LET i == Indexing(f, n) IN
       SetIndex(c, IF replace THEN [i EXCEPT !.pc = "list"] ELSE GoesOn(i))
  /\ UNCHANGED <<stores, search, cleared, doubted>>

(* Replace: the rows of the file, one of which may come while their        *)
(* vectors are removed.                                                    *)
ListStale(c) ==
  /\ index[c].pc = "list"
  /\ SetIndex(c, [index[c] EXCEPT !.pc = "clear", !.stale = RowsOf(FileOf(c))])
  /\ UNCHANGED <<vars, stores, search, cleared, doubted>>

(* Mutant: the row goes with the vector.                                   *)
DeleteStaleRow(c) ==
  /\ index[c].pc = "clear"
  /\ \E k \in index[c].stale :
       /\ vectors' = Delete(k)
       /\ chunks' = chunks \ {k}
       /\ cleared' = cleared \cup {k}
       /\ SetIndex(c, [index[c] EXCEPT !.stale = @ \ {k}])
  /\ UNCHANGED <<vars, search, doubted>>

(* Replace removes the vectors one by one.  It leaves the rows.            *)
DeleteStale(c) ==
  /\ index[c].pc = "clear"
  /\ \E k \in index[c].stale :
       /\ vectors' = Delete(k)
       /\ cleared' = cleared \cup {k}
       /\ SetIndex(c, [index[c] EXCEPT !.stale = @ \ {k}])
  /\ UNCHANGED <<vars, chunks, search, doubted>>

StaleDeleted(c) ==
  /\ index[c].pc = "clear"
  /\ index[c].stale = {}
  /\ SetIndex(c, GoesOn(index[c]))
  /\ UNCHANGED <<vars, stores, search, cleared, doubted>>

(* The chunk has its keywords and its embedding.                           *)
InsertVector(c) ==
  /\ index[c].pc = "vector"
  /\ vectors' = Insert(NextChunk(c))
  /\ SetIndex(c, [index[c] EXCEPT !.pc = "row"])
  /\ cleared' = cleared \ {NextChunk(c)}
  /\ doubted' = doubted \ ({NextChunk(c)} \ {search.orphan})
  /\ UNCHANGED <<vars, chunks, search>>

(* No other open transaction has inserted the row k.                       *)
RowFree(c, k) == \A d \in Calls \ {c} : k \notin Inserted(d)

(* An insert of a row that is there fails, and Index with it; one that     *)
(* another transaction has inserted is waited for.                         *)
CreateChunkIndex(c) ==
  /\ index[c].pc = "row"
  /\ RowFree(c, NextChunk(c))
  /\ IF NextChunk(c) \in chunks
       THEN CallFails(c) /\ SetIndex(c, NoIndex)
       ELSE /\ SetIndex(c, GoesOn([index[c] EXCEPT !.next = @ + 1]))
            /\ UNCHANGED vars
  /\ UNCHANGED <<stores, search, cleared, doubted>>

(* The end of Index: the lease is deleted and the rows are committed.      *)
CommitIndex(c) ==
  /\ index[c].pc = "end"
  /\ DeleteDone(c)
  /\ chunks' = chunks \cup Inserted(c)
  /\ SetIndex(c, NoIndex)
  /\ UNCHANGED <<vectors, search, cleared, doubted>>

(* MarkJobAsDone and MarkJobAsFailed.                                      *)
EndWithoutIndex(c) ==
  /\ index[c].pc = "none"
  /\ DeleteDone(c) \/ DeleteFailed(c) \/ DeleteFailedGone(c) \/ AppendFailed(c)
  /\ UNCHANGED indexVars

(* Index ends early: its rows are rolled back, its vectors stay.           *)
IndexFails(c) ==
  /\ CallFails(c)
  /\ SetIndex(c, NoIndex)
  /\ UNCHANGED <<stores, search, cleared, doubted>>

-----------------------------------------------------------------------------
(* Searching.                                                              *)

(* A search of the service or of the hook for retrieval.                   *)
Search ==
  /\ search = NoSearch
  /\ \E S \in Nearest :
       S # {} /\ search' = [NoSearch EXCEPT !.hits = S]
  /\ UNCHANGED <<vars, stores, index, cleared, doubted>>

(* Mutant: any vector found is removed.                                    *)
LookUpNothing ==
  /\ search.orphan = None
  /\ \E k \in search.hits :
       /\ search' = [hits |-> search.hits \ {k}, orphan |-> k]
       /\ doubted' = doubted \cup ({k} \ chunks)
  /\ UNCHANGED <<vars, stores, index, cleared>>

(* GetChunkIndexByID of one of them.                                       *)
LookUp ==
  /\ search.orphan = None
  /\ \E k \in search.hits :
       /\ search' = [hits |-> search.hits \ {k},
                     orphan |-> IF HasRow(k) THEN None ELSE k]
       /\ doubted' = doubted \cup ({k} \ chunks)
  /\ UNCHANGED <<vars, stores, index, cleared>>

(* The vector that had no row is removed, or the removal fails and the     *)
(* search goes on.                                                         *)
CleanOrphan ==
  /\ search.orphan # None
  /\ search' = [search EXCEPT !.orphan = None]
  /\ vectors' = Delete(search.orphan) \/ UNCHANGED vectors
  /\ UNCHANGED <<vars, chunks, index, cleared, doubted>>

(* The search has its results, which are completed with their files, or it *)
(* fails: a result's file may be gone, rows are not deleted with it.       *)
SearchEnds ==
  /\ search # NoSearch
  /\ search' = NoSearch
  /\ UNCHANGED <<vars, stores, index, cleared, doubted>>

-----------------------------------------------------------------------------
IndexProceeds(c) ==
  \/ CheckOnly(c)
  \/ \E f \in Ids, n \in 0 .. MaxChunks, replace \in BOOLEAN :
       StartIndex(c, f, n, replace)
  \/ ListStale(c)
  \/ DeleteStale(c)
  \/ StaleDeleted(c)
  \/ InsertVector(c)
  \/ CreateChunkIndex(c)
  \/ CommitIndex(c)
  \/ EndWithoutIndex(c)

IndexNext ==
  \/ /\ \/ \E h \in Handlers : HandlerNext(h)
        \/ \E l \in Leasers : LeaserNext(l)
     /\ UNCHANGED indexVars
  \/ \E c \in Calls : IndexProceeds(c) \/ IndexFails(c)
  \/ Search
  \/ LookUp
  \/ CleanOrphan
  \/ SearchEnds

IndexSpec == IndexInit /\ [][IndexNext]_allVars

(* Workers poll forever and AssignPendingJob picks among their types at    *)
(* random, so a type with a job it could pop again and again is popped.    *)
(* A sweep runs to its end unless it fails.                                *)
IndexFairness ==
  /\ \A t \in Types : SF_vars(\E l \in Leasers : AssignPendingJob(l, t))
  /\ \A h \in Handlers : WF_vars(SweepPending(h) \/ SweepLeased(h))

FairIndexSpec == IndexSpec /\ IndexFairness

-----------------------------------------------------------------------------
(* Properties.                                                             *)

IndexTypeOK ==
  /\ TypeOK
  /\ chunks \in SUBSET Chunks
  /\ vectors \in SUBSET Chunks
  /\ index \in [Calls -> [pc : {"none", "list", "clear", "vector", "row", "end"},
                          file : Ids \cup {None}, count : 0 .. MaxChunks, next : 1 .. MaxChunks + 1,
                          stale : SUBSET Chunks]]
  /\ search \in [hits : SUBSET Chunks, orphan : Chunks \cup {None}]
  /\ cleared \in SUBSET Chunks
  /\ doubted \in SUBSET Chunks

(* indexservice.go says a failed Index may leave vectors without rows,     *)
(* which a search does not show.  The reverse, a row whose vector is gone  *)
(* so that its chunk is never found, only comes of a Replace that removed  *)
(* the vector, or of a search that looked for the row before Index had     *)
(* committed it and then removed the vector.                               *)
LostVectorsExplained == chunks \subseteq vectors \cup cleared \cup doubted

(* The rows of a file appear together and never change: ids are counted    *)
(* from the file's, rows are never deleted, and so every later Index of    *)
(* the file fails, the one that asks to replace among them.                *)
NeverReindexed ==
  [][\A f \in Ids : RowsOf(f) # {} => RowsOf(f)' = RowsOf(f)]_allVars

(* Rows are committed only together with the end of the lease that their   *)
(* Index call checked long before: no other leaser has taken the job in    *)
(* between, and the lease is still there unless the sweep of the job's     *)
(* file has committed, when the rows are written all the same.  Whether    *)
(* the rows are of the job's file is not looked at.                        *)
IndexUnderLease ==
  [][\A f \in Ids : RowsOf(f)' # RowsOf(f) =>
       \E c \in Calls :
         /\ call[c].op = "done" /\ FileOf(c) = f
         /\ leased'[call[c].job] = None /\ call[c].job \in finished'
         /\ \/ leased[call[c].job] = call[c].leaser
            \/ leased[call[c].job] = None /\ jobFile[call[c].job] \in swept]_allVars
=============================================================================
