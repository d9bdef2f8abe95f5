---------------------------- MODULE RuntimeState ----------------------------
(***************************************************************************)
(* The reconciliation of the Ollama backends with the declared pools: the  *)
(* backend cycle that reads the declarations, queues downloads of missing  *)
(* models and deletes undeclared ones, the download cycle that pulls one   *)
(* queued model, and the requests that change declarations or downloads    *)
(* meanwhile.  The server runs one loop of each cycle.                     *)
(*                                                                         *)
(* The backend cycle reads each pool in statements of their own, outside   *)
(* any transaction, and talks to a backend in separate calls; each is a    *)
(* step.  An id of a job is its backend's URL, which is unique, so         *)
(* backends stand for their URLs.  A backend whose URL does not parse or   *)
(* whose type is not supported is one whose listing always fails: all      *)
(* three store an entry without models.                                    *)
(*                                                                         *)
(* Not represented: the wording of errors in an entry, the progress        *)
(* messages of a pull, changes of a backend's URL, and syncBackends, the   *)
(* variant without pools that the server does not use.                     *)
(***************************************************************************)
EXTENDS Integers, Sequences, SequencesExt

CONSTANTS
  Pools,            (* Ids of pools.                                       *)
  Backends,         (* Backends, by their URLs.                            *)
  Models,           (* Full names of models, with their tags.              *)
  EmbedPool,        (* The pool the services refuse to delete, and         *)
  EmbedModel,       (* the model they refuse to delete.                    *)
  TasksModel,       (* The model of the prompts, in the same pool.         *)
  None,             (* No pool, backend or model.                          *)
  Reliable,         (* Backends where each call succeeds if it is tried    *)
                    (* again and again; the others may always fail.        *)
  MaxDisturbances   (* Bound: requests, crashes and failures of the        *)
                    (* database or the message bus in one behaviour.       *)

ASSUME NoneAssumption == None \notin Pools \cup Backends \cup Models
ASSUME EmbedAssumption ==
  EmbedPool \in Pools /\ EmbedModel \in Models /\ TasksModel \in Models
ASSUME ReliableAssumption == Reliable \subseteq Backends
ASSUME BoundAssumption == MaxDisturbances \in Nat

VARIABLES
  pools,         (* The rows of llm_pool.                                  *)
  members,       (* The backends assigned to each pool.                    *)
  declared,      (* The models assigned to each pool.                      *)
  queue,         (* The model_download rows, by created_at.                *)
  pulled,        (* The models present on each backend.                    *)
  observed,      (* The state map: the pulled models of each entry.        *)
  cycle,         (* The backend cycle's local variables.                   *)
  download,      (* The download cycle's job.                              *)
  purges,        (* Deletions of models that still have to purge them.     *)
  since,         (* History: assignments held since the cycle began.       *)
  ever,          (* History: assignments held at some time in the cycle.   *)
  disturbances   (* Counts up to MaxDisturbances.                          *)

declarations == <<pools, members, declared>>
history == <<since, ever>>
vars == <<declarations, queue, pulled, observed, cycle, download, purges,
          history, disturbances>>

NoCycle ==
  [pc |-> "idle", unread |-> {}, pool |-> None, found |-> {},
   active |-> {}, wanted |-> [b \in Backends |-> {}], left |-> {},
   backend |-> None, missing |-> {}, extra |-> {}]
NoDownload == [pc |-> "idle", url |-> None, model |-> None]
NoAssignments ==
  [members |-> [p \in Pools |-> {}], declared |-> [p \in Pools |-> {}]]
Assignments == [members |-> members, declared |-> declared]

(* The models a server that starts assigns to the embedding pool.          *)
InternalModels == {EmbedModel, TasksModel}

(* The server starts, with whatever the database holds and the backends    *)
(* have pulled.                                                            *)
Init ==
  /\ pools \in SUBSET Pools
  /\ members \in [Pools -> SUBSET Backends]
  /\ declared \in [Pools -> SUBSET Models]
  /\ \A p \in Pools \ pools : members[p] = {} /\ declared[p] = {}
  /\ EmbedPool \in pools
  /\ InternalModels \subseteq declared[EmbedPool]
  /\ queue = <<>>
  /\ pulled \in [Backends -> SUBSET Models]
  /\ observed = [b \in {} |-> {}]
  /\ cycle = NoCycle
  /\ download = NoDownload
  /\ purges = {}
  /\ since = NoAssignments
  /\ ever = NoAssignments
  /\ disturbances = 0

Disturb ==
  /\ disturbances < MaxDisturbances
  /\ disturbances' = disturbances + 1

-----------------------------------------------------------------------------
(* Requests that change the declarations.  Deleting a row cascades to its  *)
(* assignments.                                                            *)

(* The history of a change of the assignments while a cycle runs.          *)
Note ==
  IF cycle.pc = "idle" THEN UNCHANGED history ELSE
  /\ since' = [members |-> [p \in Pools |-> since.members[p] \cap members'[p]],
               declared |-> [p \in Pools |-> since.declared[p] \cap declared'[p]]]
  /\ ever' = [members |-> [p \in Pools |-> ever.members[p] \cup members'[p]],
              declared |-> [p \in Pools |-> ever.declared[p] \cup declared'[p]]]

Declare(newPools, newMembers, newDeclared) ==
  /\ Disturb
  /\ pools' = newPools
  /\ members' = newMembers
  /\ declared' = newDeclared
  /\ Note
  /\ UNCHANGED <<queue, pulled, observed, cycle, download>>

(* The statements: the assignments after each.                             *)
AssignBackendToPool(p, b) == [members EXCEPT ![p] = @ \cup {b}]
RemoveBackendFromPool(p, b) == [members EXCEPT ![p] = @ \ {b}]
AssignModelToPool(p, m) == [declared EXCEPT ![p] = @ \cup {m}]
RemoveModelFromPool(p, m) == [declared EXCEPT ![p] = @ \ {m}]
PoolDeleted(f, p) == [f EXCEPT ![p] = {}]
BackendDeleted(b) == [p \in Pools |-> members[p] \ {b}]
ModelDeleted(m) == [p \in Pools |-> declared[p] \ {m}]

(* The services.  An insert of a row that exists, or a deletion of none,   *)
(* fails and changes nothing.                                              *)

CreatePool(p) ==
  /\ p \notin pools
  /\ Declare(pools \cup {p}, members, declared)

DeletePool(p) ==
  /\ p \in pools \ {EmbedPool}
  /\ Declare(pools \ {p}, PoolDeleted(members, p), PoolDeleted(declared, p))

AssignBackend(p, b) ==
  /\ p \in pools
  /\ b \notin members[p]
  /\ Declare(pools, AssignBackendToPool(p, b), declared)

RemoveBackend(p, b) ==
  /\ b \in members[p]
  /\ Declare(pools, RemoveBackendFromPool(p, b), declared)

AssignModel(p, m) ==
  /\ p \in pools
  /\ m \notin declared[p]
  /\ Declare(pools, members, AssignModelToPool(p, m))

RemoveModel(p, m) ==
  /\ p # EmbedPool
  /\ m \in declared[p]
  /\ Declare(pools, members, RemoveModelFromPool(p, m))

DeleteBackend(b) ==
  /\ \E p \in pools : b \in members[p]
  /\ Declare(pools, BackendDeleted(b), declared)

(* Mutant: the embedding model can be deleted.                             *)
DeleteAnyModel(m) == Declare(pools, members, ModelDeleted(m))

(* A model that no pool holds may have a row or not.                       *)
DeleteModel(m) ==
  /\ m # EmbedModel
  /\ Declare(pools, members, ModelDeleted(m))

(* The routes.  A deletion of a model may ask for a purge, two calls of    *)
(* the download service that follow it.                                    *)
PoolCreation == \E p \in Pools : CreatePool(p)
PoolDeletion == \E p \in Pools : DeletePool(p)
BackendDeletion == \E b \in Backends : DeleteBackend(b)
BackendAssociations ==
  \E p \in Pools, b \in Backends : AssignBackend(p, b) \/ RemoveBackend(p, b)
ModelAssociations ==
  \E p \in Pools, m \in Models : AssignModel(p, m) \/ RemoveModel(p, m)

ModelRoute(m) ==
  /\ DeleteModel(m)
  /\ purges' \in {purges, purges \cup {[step |-> "remove", model |-> m]}}

ChangeDeclarations ==
  \/ /\ \/ PoolCreation \/ PoolDeletion \/ BackendDeletion
        \/ BackendAssociations \/ ModelAssociations
     /\ UNCHANGED purges
  \/ \E m \in Models : ModelRoute(m)

-----------------------------------------------------------------------------
(* The backend cycle reads the declarations.                               *)

cycleOnly == <<declarations, queue, pulled, observed, download, purges,
               disturbances>>

(* Where the cycle goes when the pools in unread are still to be read.     *)
NextRead(unread) == IF unread = {} THEN "process" ELSE "backends"

(* The three statements, each a read of its own.                           *)
ListPools == pools
ListBackendsForPool(p) == members[p]
ListModelsForPool(p) == declared[p]

StartCycle ==
  /\ cycle.pc = "idle"
  /\ cycle' = [NoCycle EXCEPT !.pc = NextRead(ListPools),
                               !.unread = ListPools]
  /\ since' = Assignments
  /\ ever' = Assignments
  /\ UNCHANGED cycleOnly

ReadPoolBackends(p) ==
  /\ cycle.pc = "backends"
  /\ p \in cycle.unread
  /\ cycle' = [cycle EXCEPT !.pc = "models", !.unread = @ \ {p},
                            !.pool = p, !.found = ListBackendsForPool(p)]
  /\ UNCHANGED <<cycleOnly, history>>

(* Mutants: a pool's models replace those of the pools read before, or go  *)
(* to every backend; only the last pool's backends are active.             *)
CollectLast(b) ==
  IF b \in cycle.found THEN ListModelsForPool(cycle.pool) ELSE cycle.wanted[b]
CollectForAll(b) == cycle.wanted[b] \cup ListModelsForPool(cycle.pool)
ActivateLast == cycle.found

(* The models of b and the active backends, with those of the pool read.   *)
Collect(b) ==
  IF b \in cycle.found THEN cycle.wanted[b] \cup ListModelsForPool(cycle.pool)
                       ELSE cycle.wanted[b]
Activate == cycle.active \cup cycle.found

(* The aggregation of the pool just read.                                  *)
ReadPoolModels ==
  /\ cycle.pc = "models"
  /\ cycle' = [cycle EXCEPT !.pc = NextRead(cycle.unread),
                            !.pool = None, !.found = {},
                            !.active = Activate,
                            !.wanted = [b \in Backends |-> Collect(b)],
                            !.left = cycle.left \cup cycle.found]
  /\ UNCHANGED <<cycleOnly, history>>

(* A statement fails: the cycle ends before it processed any backend.      *)
ReadFails ==
  /\ cycle.pc \in {"backends", "models"}
  /\ Disturb
  /\ cycle' = NoCycle
  /\ since' = NoAssignments
  /\ ever' = NoAssignments
  /\ UNCHANGED <<declarations, queue, pulled, observed, download, purges>>

-----------------------------------------------------------------------------
(* The backend cycle processes each active backend and cleans up.          *)

(* The entry of b in the state map becomes ms.                             *)
Store(b, ms) ==
  observed' = [c \in DOMAIN observed \cup {b} |->
                 IF c = b THEN ms ELSE observed[c]]

Missing(b) == cycle.wanted[b] \ pulled[b]

(* Mutant: the difference is taken the wrong way round.                    *)
ExtraSwapped(b) == cycle.wanted[b] \ pulled[b]

Extra(b) == pulled[b] \ cycle.wanted[b]

List(b) ==
  /\ cycle.pc = "process"
  /\ b \in cycle.left
  /\ cycle' = [cycle EXCEPT !.pc = "reconcile", !.left = @ \ {b},
                            !.backend = b,
                            !.missing = Missing(b), !.extra = Extra(b)]
  /\ UNCHANGED <<cycleOnly, history>>

ListFails(b) ==
  /\ cycle.pc = "process"
  /\ b \in cycle.left
  /\ Store(b, {})
  /\ cycle' = [cycle EXCEPT !.left = @ \ {b}]
  /\ UNCHANGED <<declarations, queue, pulled, download, purges, history,
                 disturbances>>

HasJob(b) == \E i \in 1..Len(queue) : queue[i].url = b

(* Mutant: a second job of a backend is accepted.                          *)
EnqueueAll(b, m) == queue' = Append(queue, [url |-> b, model |-> m])

(* The insert of a job: a row with the backend's URL makes it fail, which  *)
(* add only prints.                                                        *)
Enqueue(b, m) ==
  queue' = IF HasJob(b) THEN queue
                        ELSE Append(queue, [url |-> b, model |-> m])

(* The loop over the missing models, in the map's order.                   *)
AddJob(m) ==
  /\ cycle.pc = "reconcile"
  /\ m \in cycle.missing
  /\ Enqueue(cycle.backend, m)
  /\ cycle' = [cycle EXCEPT !.missing = @ \ {m}]
  /\ UNCHANGED <<declarations, pulled, observed, download, purges, history,
                 disturbances>>

(* Deletion of an extra model on the backend; a failure is only logged.    *)
RemoveExtra(m) ==
  /\ cycle.pc = "reconcile"
  /\ cycle.missing = {}
  /\ m \in cycle.extra
  /\ pulled' = [pulled EXCEPT ![cycle.backend] = @ \ {m}]
  /\ cycle' = [cycle EXCEPT !.extra = @ \ {m}]
  /\ UNCHANGED <<declarations, queue, observed, download, purges, history,
                 disturbances>>

RemoveFails(m) ==
  /\ cycle.pc = "reconcile"
  /\ cycle.missing = {}
  /\ m \in cycle.extra
  /\ cycle' = [cycle EXCEPT !.extra = @ \ {m}]
  /\ UNCHANGED <<cycleOnly, history>>

(* The second listing of the backend, which fails or not.                  *)
StoreListing(ms) ==
  /\ cycle.pc = "reconcile"
  /\ cycle.missing = {}
  /\ cycle.extra = {}
  /\ Store(cycle.backend, ms)
  /\ cycle' = [cycle EXCEPT !.pc = "process", !.backend = None]
  /\ UNCHANGED <<declarations, queue, pulled, download, purges, history,
                 disturbances>>

ListAgain == StoreListing(pulled[cycle.backend])
ListAgainFails == StoreListing({})

(* Mutant: no entry is ever removed.                                       *)
KeptAll == DOMAIN observed

(* The entries that are not stale.                                         *)
Kept == DOMAIN observed \cap cycle.active

(* cleanupStaleBackends, the end of the cycle.                             *)
CleanUp ==
  /\ cycle.pc = "process"
  /\ cycle.left = {}
  /\ observed' = [b \in Kept |-> observed[b]]
  /\ cycle' = NoCycle
  /\ since' = NoAssignments
  /\ ever' = NoAssignments
  /\ UNCHANGED <<declarations, queue, pulled, download, purges, disturbances>>

BackendCycle ==
  \/ StartCycle
  \/ \E p \in Pools : ReadPoolBackends(p)
  \/ ReadPoolModels
  \/ \E b \in Backends : List(b) \/ ListFails(b)
  \/ \E m \in Models : AddJob(m) \/ RemoveExtra(m) \/ RemoveFails(m)
  \/ ListAgain
  \/ ListAgainFails
  \/ CleanUp

-----------------------------------------------------------------------------
(* The download cycle.                                                     *)

downloadOnly == <<declarations, observed, cycle, history>>

(* Mutant: the job is read and not deleted.                                *)
Peeked(q) == q

(* What a pop leaves; the job it returns is the one with the oldest        *)
(* created_at.                                                             *)
Popped(q) == Tail(q)

Pop ==
  /\ download.pc = "idle"
  /\ queue # <<>>
  /\ download' = [pc |-> "popped", url |-> queue[1].url,
                  model |-> queue[1].model]
  /\ queue' = Popped(queue)
  /\ UNCHANGED <<downloadOnly, purges, pulled, disturbances>>

Subscribe ==
  /\ download.pc = "popped"
  /\ download' = [download EXCEPT !.pc = "pulling"]
  /\ UNCHANGED <<downloadOnly, purges, queue, pulled, disturbances>>

(* Without a subscription the cycle returns; the job is gone.              *)
SubscribeFails ==
  /\ download.pc = "popped"
  /\ Disturb
  /\ download' = NoDownload
  /\ UNCHANGED <<downloadOnly, purges, queue, pulled>>

PullSucceeds(b, m) ==
  /\ download = [pc |-> "pulling", url |-> b, model |-> m]
  /\ pulled' = [pulled EXCEPT ![b] = @ \cup {m}]
  /\ download' = NoDownload
  /\ UNCHANGED <<downloadOnly, purges, queue, disturbances>>

PullFails ==
  /\ download.pc = "pulling"
  /\ download' = NoDownload
  /\ UNCHANGED <<downloadOnly, purges, queue, pulled, disturbances>>

PullEnds ==
  \/ \E b \in Backends, m \in Models : PullSucceeds(b, m)
  \/ PullFails

-----------------------------------------------------------------------------
(* The download service.                                                   *)

(* Whoever pulls the URL or the model stops.  Nobody hears it between a    *)
(* pop and the subscription.                                               *)
CancelDownloads(id) ==
  /\ download' = IF download.pc = "pulling" /\ id \in {download.url, download.model}
                 THEN NoDownload ELSE download
  /\ UNCHANGED <<downloadOnly, queue, pulled>>

Jobs(q) == {q[i] : i \in 1..Len(q)}

(* All jobs are popped, and those of other models appended again with new  *)
(* dates, in no particular order; without a job of the model nothing is    *)
(* committed.  The rows stay locked until the commit, so this is one step. *)
RemoveDownloadFromQueue(m) ==
  /\ queue' \in IF \E job \in Jobs(queue) : job.model = m
               THEN SetToSeqs({job \in Jobs(queue) : job.model # m})
               ELSE {queue}
  /\ UNCHANGED <<downloadOnly, pulled, download>>

RemoveFromQueue(m) ==
  /\ Disturb
  /\ RemoveDownloadFromQueue(m)
  /\ UNCHANGED purges

(* The route escapes the URL it is given, which the item's never is, and   *)
(* drops the model: what it publishes is the id of no download.            *)
QueryEscape(url) == None

CancelRoute(url) ==
  /\ Disturb
  /\ CancelDownloads(QueryEscape(url))
  /\ UNCHANGED purges

(* The calls that follow the deletion of a model that asked for a purge.   *)
PurgeQueue(m) ==
  /\ [step |-> "remove", model |-> m] \in purges
  /\ RemoveDownloadFromQueue(m)
  /\ purges' = (purges \ {[step |-> "remove", model |-> m]})
                 \cup {[step |-> "cancel", model |-> m]}
  /\ UNCHANGED disturbances

PurgeDownload(m) ==
  /\ [step |-> "cancel", model |-> m] \in purges
  /\ CancelDownloads(m)
  /\ purges' = purges \ {[step |-> "cancel", model |-> m]}
  /\ UNCHANGED disturbances

PurgeFails ==
  /\ Disturb
  /\ \E x \in purges : purges' = purges \ {x}
  /\ UNCHANGED <<downloadOnly, queue, pulled, download>>

Downloads ==
  \/ \E m \in Models : RemoveFromQueue(m) \/ PurgeQueue(m) \/ PurgeDownload(m)
  \/ \E b \in Backends : CancelRoute(b)
  \/ PurgeFails

(* The process ends and starts again: what the cycles hold is lost, and    *)
(* the embedding pool and its models are declared again.  A start on its   *)
(* old database presumes that somebody has dropped the constraint that the *)
(* schema adds without asking whether it is there (module Accounts).       *)
Crash ==
  /\ Disturb
  /\ cycle' = NoCycle
  /\ download' = NoDownload
  /\ purges' = {}
  /\ observed' = [b \in {} |-> {}]
  /\ since' = NoAssignments
  /\ ever' = NoAssignments
  /\ pools' = pools \cup {EmbedPool}
  /\ declared' = [declared EXCEPT ![EmbedPool] = @ \cup InternalModels]
  /\ UNCHANGED <<members, queue, pulled>>

Requests == ChangeDeclarations \/ Downloads

Next ==
  \/ Requests
  \/ BackendCycle
  \/ ReadFails
  \/ Pop \/ Subscribe \/ SubscribeFails \/ PullEnds
  \/ Crash

-----------------------------------------------------------------------------
(* Fairness.  The routines run both cycles every interval, and every call  *)
(* of a cycle returns; a reliable backend does not fail for ever.  Nothing *)
(* is assumed of the order of the missing models, nor of the requests.     *)

Succeeds(b) ==
  /\ SF_vars(List(b))
  /\ SF_vars(ListAgain /\ cycle.backend = b)
  /\ \A m \in Models : /\ SF_vars(RemoveExtra(m) /\ cycle.backend = b)
                      /\ SF_vars(PullSucceeds(b, m))

Fairness ==
  /\ WF_vars(BackendCycle)
  /\ WF_vars(Pop)
  /\ WF_vars(Subscribe)
  /\ WF_vars(PullEnds)
  /\ \A b \in Reliable : Succeeds(b)

Spec == Init /\ [][Next]_vars /\ Fairness

-----------------------------------------------------------------------------
(* Properties.                                                             *)

(* The state has its type: among the jobs no two have the same id.         *)
CycleType ==
  [pc : {"idle", "backends", "models", "process", "reconcile"},
   unread : SUBSET Pools, pool : Pools \cup {None},
   found : SUBSET Backends, active : SUBSET Backends,
   wanted : [Backends -> SUBSET Models], left : SUBSET Backends,
   backend : Backends \cup {None}, missing : SUBSET Models,
   extra : SUBSET Models]

AssignmentsType ==
  [members : [Pools -> SUBSET Backends], declared : [Pools -> SUBSET Models]]

TypeOK ==
  /\ pools \subseteq Pools
  /\ Assignments \in AssignmentsType
  /\ queue \in Seq([url : Backends, model : Models])
  /\ \A i, j \in 1..Len(queue) : queue[i].url = queue[j].url => i = j
  /\ pulled \in [Backends -> SUBSET Models]
  /\ DOMAIN observed \subseteq Backends
  /\ observed \in [DOMAIN observed -> SUBSET Models]
  /\ cycle \in CycleType
  /\ download \in [pc : {"idle", "popped", "pulling"},
                   url : Backends \cup {None}, model : Models \cup {None}]
  /\ purges \subseteq [step : {"remove", "cancel"}, model : Models]
  /\ since \in AssignmentsType
  /\ ever \in AssignmentsType
  /\ disturbances \in 0..MaxDisturbances

(* However pools and models are deleted and models removed from pools, the *)
(* embedding pool keeps the embedding model.                               *)
EmbeddingIsDeclared == EmbedPool \in pools /\ EmbedModel \in declared[EmbedPool]

(* What a cycle must have seen, and all it may have seen: pools that held  *)
(* a backend, or a backend and a model, the whole cycle long; and pools    *)
(* that held them at some time, though not together perhaps.               *)
SteadyMembers == UNION {since.members[p] : p \in Pools}
EverMembers == UNION {ever.members[p] : p \in Pools}
Steady(b, m) == \E p \in Pools : b \in since.members[p] /\ m \in since.declared[p]
Ever(b, m) == \E p \in Pools : b \in ever.members[p] /\ m \in ever.declared[p]

(* A cycle never deletes from a backend a model that one pool declared for *)
(* it all through the cycle, whatever other pools held and whatever        *)
(* changed meanwhile.                                                      *)
DeclaredIsKept ==
  [][\A b \in Backends : \A m \in pulled[b] \ pulled'[b] : ~Steady(b, m)]_vars

(* A cycle queues only what the declarations asked for while it ran.       *)
QueuedWasDeclared ==
  [][\A job \in Jobs(queue') \ Jobs(queue) : Ever(job.url, job.model)]_vars

(* When a cycle has cleaned up, every backend that was a member of one     *)
(* pool all through it has an entry, and only backends that were members   *)
(* at some time have one.                                                  *)
EntriesMatchMembers ==
  [][CleanUp => /\ SteadyMembers \subseteq DOMAIN observed'
                /\ DOMAIN observed' \subseteq EverMembers]_vars

Active(b) == \E p \in Pools : b \in members[p]
Wanted(b, m) == \E p \in Pools : b \in members[p] /\ m \in declared[p]

(* When the disturbances end, every model a pool declares for a reliable   *)
(* backend is pulled and stays, though a backend has one job at a time and *)
(* other backends may be dead.                                             *)
AllModelsPulled ==
  \A b \in Reliable : <>[](\A m \in Models : Wanted(b, m) => m \in pulled[b])

(* And reliable backends in a pool lose every model no pool declares.      *)
UndeclaredRemoved ==
  \A b \in Reliable : <>[](Active(b) => \A m \in pulled[b] : Wanted(b, m))

(* The entry of a reliable backend in a pool is brought up to date again   *)
(* and again; that of a backend in no pool goes.                           *)
EntriesAreCurrent ==
  \A b \in Reliable :
    /\ []<>(Active(b) => b \in DOMAIN observed /\ observed[b] = pulled[b])
    /\ <>[](~Active(b) => b \notin DOMAIN observed)

=============================================================================
