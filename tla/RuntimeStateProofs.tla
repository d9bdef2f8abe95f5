------------------------- MODULE RuntimeStateProofs -------------------------
(***************************************************************************)
(* Proofs about RuntimeState for any pools, backends and models, and any   *)
(* number of disturbances.                                                 *)
(***************************************************************************)
EXTENDS RuntimeState, FiniteSetTheorems, TLAPS

Running == cycle.pc # "idle"

(* Only a pool that exists has assignments.                                *)
Owned == \A p \in Pools \ pools : members[p] = {} /\ declared[p] = {}

(* The present assignments lie between those held since the cycle began    *)
(* and those held at some time.                                            *)
Between ==
  Running => \A p \in Pools :
    /\ since.members[p] \subseteq members[p]
    /\ since.declared[p] \subseteq declared[p]
    /\ members[p] \subseteq ever.members[p]
    /\ declared[p] \subseteq ever.declared[p]

(* What pool p held all along is collected, or still to be read.           *)
ToRead(p, b) ==
  \/ p \in cycle.unread
  \/ cycle.pc = "models" /\ p = cycle.pool /\ b \in cycle.found

Covered ==
  Running => \A p \in Pools : \A b \in since.members[p] :
    ToRead(p, b) \/ (b \in cycle.active /\ since.declared[p] \subseteq cycle.wanted[b])

(* What was collected was declared at some time.                           *)
Justified ==
  Running =>
    /\ cycle.pc = "models" => cycle.found \subseteq ever.members[cycle.pool]
    /\ cycle.active \subseteq EverMembers
    /\ \A b \in Backends : \A m \in cycle.wanted[b] : Ever(b, m)

(* What the local variables hold in each part of the cycle.                *)
Phases ==
  /\ cycle.pc = "models" => cycle.pool \in Pools
  /\ cycle.pc \in {"process", "reconcile"} => cycle.unread = {}
  /\ cycle.pc \in {"backends", "models"} => cycle.left = cycle.active
  /\ cycle.pc = "process" => cycle.active \subseteq cycle.left \cup DOMAIN observed
  /\ cycle.pc = "reconcile" =>
       /\ cycle.backend \in Backends
       /\ cycle.active \subseteq cycle.left \cup {cycle.backend} \cup DOMAIN observed
       /\ cycle.missing \subseteq cycle.wanted[cycle.backend]
       /\ cycle.extra \cap cycle.wanted[cycle.backend] = {}

CycleInv == TypeOK /\ Owned /\ Between /\ Covered /\ Justified /\ Phases

LEMMA NothingTyped == NoAssignments \in AssignmentsType /\ NoCycle \in CycleType
BY DEF NoAssignments, AssignmentsType, NoCycle, CycleType

LEMMA CycleInvInit == Init => CycleInv
<1> SUFFICES ASSUME Init PROVE CycleInv
  OBVIOUS
<1>1. TypeOK
  BY NothingTyped, BoundAssumption
  DEF Init, TypeOK, Assignments, AssignmentsType, NoDownload
<1>2. Owned
  BY DEF Init, Owned
<1>3. Between /\ Covered /\ Justified /\ Phases
  BY DEF Init, NoCycle, Running, Between, Covered, Justified, Phases
<1> QED
  BY <1>1, <1>2, <1>3 DEF CycleInv

-----------------------------------------------------------------------------
(* The queue.                                                              *)

JobType == [url : Backends, model : Models]
QueueType(q) ==
  /\ q \in Seq(JobType)
  /\ \A i, j \in 1..Len(q) : q[i].url = q[j].url => i = j

(* An insert keeps the ids unique and adds no other job.                   *)
LEMMA EnqueueStep ==
  ASSUME QueueType(queue), NEW b \in Backends, NEW m \in Models, Enqueue(b, m)
  PROVE  /\ QueueType(queue')
         /\ \A job \in Jobs(queue') \ Jobs(queue) : job.url = b /\ job.model = m
<1>1. CASE HasJob(b)
  BY <1>1 DEF Enqueue
<1>2. CASE ~HasJob(b)
  <2> DEFINE job == [url |-> b, model |-> m]
  <2>1. queue' = Append(queue, job) /\ job \in JobType
    BY <1>2 DEF Enqueue, JobType
  <2>2. /\ queue' \in Seq(JobType)
        /\ Len(queue') = Len(queue) + 1
        /\ \A i \in 1..Len(queue) : queue'[i] = queue[i]
        /\ queue'[Len(queue) + 1] = job
    BY <2>1 DEF QueueType
  <2>3. \A i \in 1..Len(queue) : queue[i].url # b
    BY <1>2 DEF HasJob
  <2>4. Len(queue) \in Nat
    BY DEF QueueType
  <2>5. ASSUME NEW i \in 1..Len(queue'), NEW j \in 1..Len(queue'),
               queue'[i].url = queue'[j].url
        PROVE  i = j
    BY <2>2, <2>3, <2>4, <2>5 DEF QueueType
  <2>6. ASSUME NEW k \in 1..Len(queue')
        PROVE  queue'[k] = job \/ queue'[k] \in Jobs(queue)
    BY <2>2, <2>4 DEF Jobs
  <2> QED
    BY <2>2, <2>5, <2>6 DEF QueueType, Jobs
<1> QED
  BY <1>1, <1>2

LEMMA PopStep ==
  ASSUME QueueType(queue), queue # <<>>
  PROVE  /\ QueueType(Popped(queue))
         /\ Jobs(Popped(queue)) \subseteq Jobs(queue)
         /\ queue[1] \in JobType
<1>1. /\ Tail(queue) \in Seq(JobType)
      /\ Len(queue) \in Nat \ {0}
      /\ Len(Tail(queue)) = Len(queue) - 1
      /\ \A i \in 1..Len(Tail(queue)) : Tail(queue)[i] = queue[i + 1]
      /\ queue[1] \in JobType
  BY DEF QueueType
<1>2. ASSUME NEW i \in 1..Len(Tail(queue)), NEW j \in 1..Len(Tail(queue)),
             Tail(queue)[i].url = Tail(queue)[j].url
      PROVE  i = j
  <2>1. i + 1 \in 1..Len(queue) /\ j + 1 \in 1..Len(queue)
    BY <1>1
  <2>2. i + 1 = j + 1
    BY <1>1, <1>2, <2>1 DEF QueueType
  <2> QED
    BY <2>2
<1>3. ASSUME NEW i \in 1..Len(Tail(queue))
      PROVE  Tail(queue)[i] \in Jobs(queue)
  <2>1. i + 1 \in 1..Len(queue)
    BY <1>1
  <2> QED
    BY <1>1, <2>1 DEF Jobs
<1> QED
  BY <1>1, <1>2, <1>3 DEF QueueType, Popped, Jobs

(* Any order of some of the jobs has unique ids again.                     *)
LEMMA RequeueStep ==
  ASSUME QueueType(queue), NEW S \in SUBSET Jobs(queue), NEW q \in SetToSeqs(S)
  PROVE  QueueType(q) /\ Jobs(q) \subseteq Jobs(queue)
<1> DEFINE at == [i \in 1..Len(queue) |-> queue[i]]
<1>1. Len(queue) \in Nat /\ \A i \in 1..Len(queue) : queue[i] \in JobType
  BY DEF QueueType
<1>2. IsFiniteSet(1..Len(queue))
  BY <1>1, FS_Interval
<1>3. at \in Surjection(1..Len(queue), Jobs(queue))
  BY DEF Surjection, Jobs
<1>4. IsFiniteSet(Jobs(queue))
  BY <1>2, <1>3, FS_Surjection
<1>5. Cardinality(S) \in Nat
  BY <1>4, FS_Subset, FS_CardinalityType
<1> DEFINE n == Cardinality(S)
<1>6. /\ q \in [1..n -> S]
      /\ \A i, j \in 1..n : i # j => q[i] # q[j]
  BY DEF SetToSeqs
<1>7. S \subseteq JobType
  BY <1>1 DEF Jobs
<1>8. q \in Seq(JobType) /\ Len(q) = n
  BY <1>5, <1>6, <1>7
<1>9. ASSUME NEW i \in 1..n, NEW j \in 1..n, q[i].url = q[j].url
      PROVE  i = j
  <2>1. PICK k \in 1..Len(queue) : q[i] = queue[k]
    BY <1>6 DEF Jobs
  <2>2. PICK l \in 1..Len(queue) : q[j] = queue[l]
    BY <1>6 DEF Jobs
  <2>3. k = l
    BY <1>9, <2>1, <2>2 DEF QueueType
  <2> QED
    BY <1>6, <2>1, <2>2, <2>3
<1>10. Jobs(q) \subseteq Jobs(queue)
  BY <1>6, <1>8 DEF Jobs
<1> QED
  BY <1>8, <1>9, <1>10 DEF QueueType

-----------------------------------------------------------------------------
(* The steps of the requests.                                              *)

LEMMA DisturbStep ==
  ASSUME disturbances \in 0..MaxDisturbances, Disturb
  PROVE  disturbances' \in 0..MaxDisturbances
BY BoundAssumption DEF Disturb

(* What every change of the declarations does.                             *)
LEMMA DeclareShape ==
  ASSUME TypeOK, Owned, ChangeDeclarations
  PROVE  /\ pools' \subseteq Pools
         /\ members' \in [Pools -> SUBSET Backends]
         /\ declared' \in [Pools -> SUBSET Models]
         /\ Owned'
         /\ Disturb
         /\ Note
         /\ UNCHANGED <<queue, pulled, observed, cycle, download>>
<1> USE DEF TypeOK, Assignments, AssignmentsType, Owned, Declare
<1>1. CASE \E p \in Pools : CreatePool(p)
  BY <1>1 DEF CreatePool
<1>2. CASE \E p \in Pools : DeletePool(p)
  BY <1>2 DEF DeletePool, PoolDeleted
<1>3. CASE \E p \in Pools, b \in Backends : AssignBackend(p, b)
  BY <1>3 DEF AssignBackend, AssignBackendToPool
<1>4. CASE \E p \in Pools, b \in Backends : RemoveBackend(p, b)
  BY <1>4 DEF RemoveBackend, RemoveBackendFromPool
<1>5. CASE \E p \in Pools, m \in Models : AssignModel(p, m)
  BY <1>5 DEF AssignModel, AssignModelToPool
<1>6. CASE \E p \in Pools, m \in Models : RemoveModel(p, m)
  BY <1>6 DEF RemoveModel, RemoveModelFromPool
<1>7. CASE \E b \in Backends : DeleteBackend(b)
  BY <1>7 DEF DeleteBackend, BackendDeleted
<1>8. CASE \E m \in Models : ModelRoute(m)
  BY <1>8 DEF ModelRoute, DeleteModel, ModelDeleted
<1> QED
  BY <1>1, <1>2, <1>3, <1>4, <1>5, <1>6, <1>7, <1>8
  DEF ChangeDeclarations, PoolCreation, PoolDeletion, BackendDeletion,
      BackendAssociations, ModelAssociations

LEMMA DeclarePurges ==
  ASSUME TypeOK, ChangeDeclarations
  PROVE  purges' \subseteq [step : {"remove", "cancel"}, model : Models]
BY DEF TypeOK, ChangeDeclarations, ModelRoute

LEMMA DeclareStep ==
  ASSUME CycleInv, ChangeDeclarations
  PROVE  CycleInv'
<1> USE DEF CycleInv
<1>1. /\ pools' \subseteq Pools
      /\ members' \in [Pools -> SUBSET Backends]
      /\ declared' \in [Pools -> SUBSET Models]
      /\ Owned'
      /\ Disturb
      /\ Note
      /\ UNCHANGED <<queue, pulled, observed, cycle, download>>
  BY DeclareShape
<1>2. since \in AssignmentsType /\ ever \in AssignmentsType
  BY DEF TypeOK
<1>3. since' \in AssignmentsType /\ ever' \in AssignmentsType
  BY <1>1, <1>2 DEF Note, AssignmentsType, history
<1>4. TypeOK'
  BY <1>1, <1>3, DisturbStep, DeclarePurges
  DEF TypeOK, Assignments, AssignmentsType
<1>5. CASE ~Running
  BY <1>1, <1>4, <1>5 DEF Running, Between, Covered, Justified, Phases
<1>6. CASE Running
  <2>1. \A p \in Pools :
          /\ since'.members[p] = since.members[p] \cap members'[p]
          /\ since'.declared[p] = since.declared[p] \cap declared'[p]
          /\ ever'.members[p] = ever.members[p] \cup members'[p]
          /\ ever'.declared[p] = ever.declared[p] \cup declared'[p]
    BY <1>1, <1>6 DEF Note, Running
  <2>2. Between'
    BY <2>1 DEF Between
  <2>3. Covered'
    <3> SUFFICES ASSUME NEW p \in Pools, NEW b \in since'.members[p]
                 PROVE  \/ ToRead(p, b)'
                        \/ /\ b \in cycle'.active
                           /\ since'.declared[p] \subseteq cycle'.wanted[b]
      BY DEF Covered
    <3>1. b \in since.members[p] /\ since'.declared[p] \subseteq since.declared[p]
      BY <2>1
    <3>2. \/ ToRead(p, b)
          \/ b \in cycle.active /\ since.declared[p] \subseteq cycle.wanted[b]
      BY <1>6, <3>1 DEF Covered
    <3> QED
      BY <1>1, <3>1, <3>2 DEF ToRead
  <2>4. \A b \in Backends, m \in Models : Ever(b, m) => Ever(b, m)'
    BY <2>1 DEF Ever
  <2>5. EverMembers \subseteq EverMembers'
    BY <2>1 DEF EverMembers
  <2>6. \A b \in Backends : cycle.wanted[b] \subseteq Models
    BY DEF TypeOK, CycleType
  <2>7. Justified'
    BY <1>1, <1>6, <2>1, <2>4, <2>5, <2>6 DEF Justified, Running, Phases
  <2>8. Phases'
    BY <1>1 DEF Phases
  <2> QED
    BY <1>1, <1>4, <2>2, <2>3, <2>7, <2>8
<1> QED
  BY <1>5, <1>6

(* A step that leaves the cycle, the declarations and the entries alone.   *)
LEMMA ApartStep ==
  ASSUME CycleInv, UNCHANGED <<declarations, observed, cycle, history>>,
         TypeOK'
  PROVE  CycleInv'
<1>1. UNCHANGED <<pools, members, declared, since, ever>>
  BY DEF declarations, history
<1>2. Owned'
  BY <1>1 DEF CycleInv, Owned
<1>3. Between' /\ Phases'
  BY <1>1 DEF CycleInv, Between, Phases, Running
<1>4. Covered'
  BY <1>1 DEF CycleInv, Covered, Running, ToRead
<1>5. Justified'
  BY <1>1 DEF CycleInv, Justified, Running, EverMembers, Ever
<1> QED
  BY <1>2, <1>3, <1>4, <1>5 DEF CycleInv

LEMMA DownloadStep ==
  ASSUME CycleInv, \/ Pop \/ Subscribe \/ SubscribeFails \/ PullEnds
                   \/ Downloads
  PROVE  CycleInv'
<1>1. UNCHANGED <<declarations, observed, cycle, history>>
  BY DEF Pop, Subscribe, SubscribeFails, PullEnds, PullSucceeds, PullFails,
         Downloads, RemoveFromQueue, PurgeQueue, PurgeDownload, CancelRoute,
         PurgeFails, CancelDownloads, RemoveDownloadFromQueue, downloadOnly
<1>2. UNCHANGED <<pools, members, declared, since, ever, observed, cycle>>
  BY <1>1 DEF declarations, history
<1>3. TypeOK /\ QueueType(queue)
  BY DEF CycleInv, TypeOK, QueueType, JobType
<1> DEFINE Loads == [pc : {"idle", "popped", "pulling"},
                     url : Backends \cup {None}, model : Models \cup {None}]
<1> DEFINE Purges == [step : {"remove", "cancel"}, model : Models]
<1>4. ASSUME /\ QueueType(queue')
             /\ download' \in Loads
             /\ purges' \subseteq Purges
             /\ pulled' \in [Backends -> SUBSET Models]
             /\ disturbances' \in 0..MaxDisturbances
      PROVE  CycleInv'
  <2>1. TypeOK'
    BY <1>2, <1>3, <1>4 DEF TypeOK, QueueType, JobType, Assignments
  <2> QED
    BY <1>1, <2>1, ApartStep
<1>5. /\ download \in Loads
      /\ purges \subseteq Purges
      /\ pulled \in [Backends -> SUBSET Models]
      /\ disturbances \in 0..MaxDisturbances
      /\ NoDownload \in Loads
  BY <1>3 DEF TypeOK, NoDownload
<1>6. CASE Pop
  <2>1. QueueType(queue') /\ queue[1] \in JobType
    BY <1>3, <1>6, PopStep DEF Pop
  <2> QED
    BY <1>4, <1>5, <1>6, <2>1 DEF Pop, JobType
<1>7. CASE Subscribe
  BY <1>3, <1>4, <1>5, <1>7 DEF Subscribe
<1>8. CASE SubscribeFails
  BY <1>3, <1>4, <1>5, <1>8, DisturbStep DEF SubscribeFails
<1>9. CASE PullEnds
  BY <1>3, <1>4, <1>5, <1>9 DEF PullEnds, PullSucceeds, PullFails
<1>10. CASE PurgeFails
  BY <1>3, <1>4, <1>5, <1>10, DisturbStep DEF PurgeFails
<1>11. ASSUME NEW b \in Backends, CancelRoute(b)
       PROVE  CycleInv'
  BY <1>3, <1>4, <1>5, <1>11, DisturbStep DEF CancelRoute, CancelDownloads
<1>12. ASSUME NEW m \in Models, PurgeDownload(m)
       PROVE  CycleInv'
  BY <1>3, <1>4, <1>5, <1>12 DEF PurgeDownload, CancelDownloads
<1>13. ASSUME NEW m \in Models, RemoveDownloadFromQueue(m)
       PROVE  QueueType(queue') /\ UNCHANGED <<pulled, download>>
  BY <1>3, <1>13, RequeueStep DEF RemoveDownloadFromQueue
<1>14. ASSUME NEW m \in Models, RemoveFromQueue(m)
       PROVE  CycleInv'
  BY <1>4, <1>5, <1>13, <1>14, DisturbStep DEF RemoveFromQueue
<1>15. ASSUME NEW m \in Models, PurgeQueue(m)
       PROVE  CycleInv'
  BY <1>4, <1>5, <1>13, <1>15 DEF PurgeQueue
<1> QED
  BY <1>6, <1>7, <1>8, <1>9, <1>10, <1>11, <1>12, <1>14, <1>15 DEF Downloads

-----------------------------------------------------------------------------
(* The steps of the cycle.                                                 *)

(* The cycle ends or is lost.                                              *)
LEMMA EndStep ==
  ASSUME CycleInv, Owned', cycle' = NoCycle,
         since' = NoAssignments, ever' = NoAssignments, TypeOK'
  PROVE  CycleInv'
BY DEF CycleInv, NoCycle, Running, Between, Covered, Justified, Phases

LEMMA StartStep ==
  ASSUME CycleInv, StartCycle
  PROVE  CycleInv'
<1> USE DEF CycleInv
<1>1. /\ cycle' = [NoCycle EXCEPT !.pc = NextRead(pools), !.unread = pools]
      /\ since' = Assignments
      /\ ever' = Assignments
      /\ UNCHANGED <<pools, members, declared, queue, pulled, observed,
                     download, purges, disturbances>>
  BY DEF StartCycle, cycleOnly, declarations, ListPools
<1>2. /\ cycle' \in CycleType
      /\ cycle'.pc = NextRead(pools)
      /\ cycle'.unread = pools
      /\ cycle'.active = {} /\ cycle'.left = {}
      /\ \A b \in Backends : cycle'.wanted[b] = {}
      /\ cycle'.pc \in {"backends", "process"}
  BY <1>1 DEF TypeOK, NextRead, NoCycle, CycleType
<1>3. TypeOK'
  BY <1>1, <1>2 DEF TypeOK, Assignments
<1>4. Owned' /\ Between'
  BY <1>1 DEF Owned, Between, Assignments
<1>5. Covered'
  <2>1. \A p \in Pools : p \notin pools => since'.members[p] = {}
    BY <1>1 DEF Owned, Assignments
  <2> QED
    BY <1>2, <2>1 DEF Covered, ToRead
<1>6. Justified'
  BY <1>2 DEF Justified
<1>7. Phases'
  BY <1>1, <1>2 DEF Phases, NextRead
<1> QED
  BY <1>3, <1>4, <1>5, <1>6, <1>7

LEMMA ReadBackendsStep ==
  ASSUME CycleInv, NEW p \in Pools, ReadPoolBackends(p)
  PROVE  CycleInv'
<1> USE DEF CycleInv
<1>1. /\ cycle.pc = "backends" /\ p \in cycle.unread
      /\ UNCHANGED <<pools, members, declared, queue, pulled, observed,
                     download, purges, since, ever, disturbances>>
  BY DEF ReadPoolBackends, cycleOnly, declarations, history
<1>2. /\ cycle' \in CycleType
      /\ cycle'.pc = "models" /\ cycle'.pool = p
      /\ cycle'.unread = cycle.unread \ {p}
      /\ cycle'.found = members[p]
      /\ cycle'.active = cycle.active /\ cycle'.left = cycle.left
      /\ cycle'.wanted = cycle.wanted
  BY DEF ReadPoolBackends, ListBackendsForPool, TypeOK, CycleType, Assignments,
         AssignmentsType
<1>3. TypeOK'
  BY <1>1, <1>2 DEF TypeOK, Assignments
<1>4. Owned' /\ Between'
  BY <1>1 DEF Owned, Between, Running
<1>5. since.members[p] \subseteq members[p] /\ members[p] \subseteq ever.members[p]
  BY <1>1 DEF Between, Running
<1>6. Covered'
  BY <1>1, <1>2, <1>5 DEF Covered, Running, ToRead
<1>7. Justified'
  BY <1>1, <1>2, <1>5 DEF Justified, Running, EverMembers, Ever
<1>8. Phases'
  BY <1>1, <1>2 DEF Phases
<1> QED
  BY <1>3, <1>4, <1>6, <1>7, <1>8

LEMMA ReadModelsStep ==
  ASSUME CycleInv, ReadPoolModels
  PROVE  CycleInv'
<1> USE DEF CycleInv
<1> DEFINE p == cycle.pool
<1>1. /\ cycle.pc = "models" /\ p \in Pools
      /\ UNCHANGED <<pools, members, declared, queue, pulled, observed,
                     download, purges, since, ever, disturbances>>
  BY DEF ReadPoolModels, cycleOnly, declarations, history, Phases
<1>2. declared[p] \subseteq Models
  BY <1>1 DEF TypeOK, Assignments, AssignmentsType
<1>3. \A b \in Backends :
        /\ cycle.wanted[b] \subseteq Collect(b)
        /\ b \in cycle.found => declared[p] \subseteq Collect(b)
        /\ Collect(b) \subseteq cycle.wanted[b] \cup declared[p]
        /\ b \notin cycle.found => Collect(b) = cycle.wanted[b]
        /\ Collect(b) \in SUBSET Models
  BY <1>1, <1>2 DEF Collect, ListModelsForPool, TypeOK, CycleType
<1>4. [b \in Backends |-> Collect(b)] \in [Backends -> SUBSET Models]
  BY <1>3
<1>5. /\ cycle' \in CycleType
      /\ cycle'.pc = NextRead(cycle.unread)
      /\ cycle'.unread = cycle.unread
      /\ cycle'.active = cycle.active \cup cycle.found
      /\ cycle'.left = cycle.left \cup cycle.found
      /\ \A b \in Backends : cycle'.wanted[b] = Collect(b)
      /\ cycle'.pc \in {"backends", "process"}
  BY <1>4 DEF ReadPoolModels, TypeOK, CycleType, Activate, NextRead
<1>6. TypeOK'
  BY <1>1, <1>5 DEF TypeOK, Assignments
<1>7. Owned' /\ Between'
  BY <1>1 DEF Owned, Between, Running
<1>8. Covered'
  <2> SUFFICES ASSUME NEW q \in Pools, NEW b \in since.members[q]
               PROVE  \/ ToRead(q, b)'
                      \/ /\ b \in cycle'.active
                         /\ since.declared[q] \subseteq cycle'.wanted[b]
    BY <1>1 DEF Covered
  <2>1. b \in Backends
    BY DEF TypeOK, AssignmentsType
  <2>2. CASE ToRead(q, b)
    <3>1. since.declared[p] \subseteq declared[p]
      BY <1>1 DEF Between, Running
    <3> QED
      BY <1>1, <1>3, <1>5, <2>1, <2>2, <3>1 DEF ToRead
  <2>3. CASE b \in cycle.active /\ since.declared[q] \subseteq cycle.wanted[b]
    BY <1>3, <1>5, <2>1, <2>3
  <2> QED
    BY <1>1, <2>2, <2>3 DEF Covered, Running
<1>9. Justified'
  <2>1. /\ cycle.found \subseteq ever.members[p]
        /\ declared[p] \subseteq ever.declared[p]
        /\ cycle.active \subseteq EverMembers
        /\ \A b \in Backends : \A m \in cycle.wanted[b] : Ever(b, m)
    BY <1>1 DEF Justified, Between, Running
  <2>2. \A b \in Backends : \A m \in Collect(b) : Ever(b, m)
    BY <1>1, <1>3, <2>1 DEF Ever
  <2>3. cycle.found \subseteq EverMembers
    BY <1>1, <2>1 DEF EverMembers
  <2>4. UNCHANGED EverMembers /\ \A b \in Backends : \A m \in Models : Ever(b, m)' = Ever(b, m)
    BY <1>1 DEF EverMembers, Ever
  <2> QED
    BY <1>1, <1>3, <1>5, <2>1, <2>2, <2>3, <2>4 DEF Justified
<1>10. Phases'
  BY <1>1, <1>5 DEF Phases, NextRead
<1> QED
  BY <1>6, <1>7, <1>8, <1>9, <1>10

(* A step after the declarations were read.                                *)
LEMMA ProcessStep ==
  ASSUME CycleInv, UNCHANGED <<declarations, history>>,
         cycle.pc \in {"process", "reconcile"},
         cycle'.pc \in {"process", "reconcile"},
         cycle'.unread = cycle.unread, cycle'.active = cycle.active,
         cycle'.wanted = cycle.wanted, TypeOK', Phases'
  PROVE  CycleInv'
<1> USE DEF CycleInv
<1>1. UNCHANGED <<pools, members, declared, since, ever>>
  BY DEF declarations, history
<1>2. Owned' /\ Between'
  BY <1>1 DEF Owned, Between, Running
<1>3. Covered'
  BY <1>1 DEF Covered, Running, ToRead
<1>4. Justified'
  BY <1>1 DEF Justified, Running, EverMembers, Ever
<1> QED
  BY <1>2, <1>3, <1>4

LEMMA StoreStep ==
  ASSUME TypeOK, NEW b \in Backends, NEW ms \in SUBSET Models, Store(b, ms)
  PROVE  /\ DOMAIN observed' = DOMAIN observed \cup {b}
         /\ DOMAIN observed' \subseteq Backends
         /\ observed' \in [DOMAIN observed' -> SUBSET Models]
BY DEF TypeOK, Store

LEMMA ListStep ==
  ASSUME CycleInv, NEW b \in Backends, List(b) \/ ListFails(b)
  PROVE  CycleInv'
<1> USE DEF CycleInv
<1>1. /\ cycle.pc = "process" /\ b \in cycle.left
      /\ UNCHANGED <<declarations, queue, pulled, download, purges, history,
                     disturbances>>
  BY DEF List, ListFails, cycleOnly
<1>2. CASE List(b)
  <2>1. cycle.wanted[b] \subseteq Models /\ pulled[b] \subseteq Models
    BY DEF TypeOK, CycleType
  <2>2. /\ cycle' \in CycleType
        /\ cycle'.pc = "reconcile" /\ cycle'.backend = b
        /\ cycle'.left = cycle.left \ {b}
        /\ cycle'.missing = Missing(b) /\ cycle'.extra = Extra(b)
        /\ cycle'.unread = cycle.unread /\ cycle'.active = cycle.active
        /\ cycle'.wanted = cycle.wanted
    BY <1>2, <2>1 DEF List, TypeOK, CycleType, Missing, Extra
  <2>3. observed' = observed
    BY <1>2 DEF List, cycleOnly
  <2>4. TypeOK'
    BY <1>1, <2>2, <2>3 DEF TypeOK, Assignments, declarations, history
  <2>5. Phases'
    BY <1>1, <2>2, <2>3 DEF Phases, Missing, Extra
  <2> QED
    BY <1>1, <2>2, <2>4, <2>5, ProcessStep
<1>3. CASE ListFails(b)
  <2>1. /\ cycle' \in CycleType
        /\ cycle'.pc = "process"
        /\ cycle'.left = cycle.left \ {b}
        /\ cycle'.unread = cycle.unread /\ cycle'.active = cycle.active
        /\ cycle'.wanted = cycle.wanted
    BY <1>3 DEF ListFails, TypeOK, CycleType
  <2>2. /\ DOMAIN observed' = DOMAIN observed \cup {b}
        /\ DOMAIN observed' \subseteq Backends
        /\ observed' \in [DOMAIN observed' -> SUBSET Models]
    BY <1>3, StoreStep, {} \in SUBSET Models DEF ListFails
  <2>3. TypeOK'
    BY <1>1, <2>1, <2>2 DEF TypeOK, Assignments, declarations, history
  <2>4. Phases'
    BY <1>1, <2>1, <2>2 DEF Phases
  <2> QED
    BY <1>1, <2>1, <2>3, <2>4, ProcessStep
<1> QED
  BY <1>2, <1>3

LEMMA ReconcileStep ==
  ASSUME CycleInv,
         \/ \E m \in Models : AddJob(m) \/ RemoveExtra(m) \/ RemoveFails(m)
         \/ ListAgain \/ ListAgainFails
  PROVE  CycleInv'
<1> USE DEF CycleInv
<1>1. /\ cycle.pc = "reconcile" /\ cycle.backend \in Backends
      /\ UNCHANGED <<declarations, download, purges, history, disturbances>>
  BY DEF AddJob, RemoveExtra, RemoveFails, ListAgain, ListAgainFails,
         StoreListing, cycleOnly, Phases
<1>2. UNCHANGED <<pools, members, declared, since, ever>>
  BY <1>1 DEF declarations, history
<1>3. QueueType(queue)
  BY DEF TypeOK, QueueType, JobType
<1>4. ASSUME NEW m \in Models, AddJob(m) \/ RemoveExtra(m) \/ RemoveFails(m)
      PROVE  CycleInv'
  <2>1. /\ cycle' \in CycleType
        /\ cycle'.pc = "reconcile" /\ cycle'.backend = cycle.backend
        /\ cycle'.left = cycle.left
        /\ cycle'.missing \subseteq cycle.missing
        /\ cycle'.extra \subseteq cycle.extra
        /\ cycle'.unread = cycle.unread /\ cycle'.active = cycle.active
        /\ cycle'.wanted = cycle.wanted
    BY <1>1, <1>4 DEF AddJob, RemoveExtra, RemoveFails, TypeOK, CycleType
  <2>2. QueueType(queue')
    <3>1. CASE AddJob(m)
      BY <1>1, <1>3, <3>1, EnqueueStep DEF AddJob
    <3>2. CASE RemoveExtra(m) \/ RemoveFails(m)
      BY <1>3, <3>2 DEF RemoveExtra, RemoveFails, cycleOnly
    <3> QED
      BY <1>4, <3>1, <3>2
  <2>3. pulled' \in [Backends -> SUBSET Models] /\ observed' = observed
    BY <1>1, <1>4 DEF AddJob, RemoveExtra, RemoveFails, cycleOnly, TypeOK
  <2>4. TypeOK'
    BY <1>1, <1>2, <2>1, <2>2, <2>3 DEF TypeOK, QueueType, JobType, Assignments
  <2>5. Phases'
    BY <1>1, <2>1, <2>3 DEF Phases
  <2> QED
    BY <1>1, <2>1, <2>4, <2>5, ProcessStep
<1>5. ASSUME NEW ms \in SUBSET Models, StoreListing(ms)
      PROVE  CycleInv'
  <2>1. /\ cycle' \in CycleType
        /\ cycle'.pc = "process"
        /\ cycle'.left = cycle.left
        /\ cycle'.unread = cycle.unread /\ cycle'.active = cycle.active
        /\ cycle'.wanted = cycle.wanted
    BY <1>5 DEF StoreListing, TypeOK, CycleType
  <2>2. /\ DOMAIN observed' = DOMAIN observed \cup {cycle.backend}
        /\ DOMAIN observed' \subseteq Backends
        /\ observed' \in [DOMAIN observed' -> SUBSET Models]
    BY <1>1, <1>5, StoreStep DEF StoreListing
  <2>3. UNCHANGED <<queue, pulled>>
    BY <1>5 DEF StoreListing
  <2>4. TypeOK'
    BY <1>1, <1>2, <2>1, <2>2, <2>3 DEF TypeOK, Assignments
  <2>5. Phases'
    BY <1>1, <2>1, <2>2 DEF Phases
  <2> QED
    BY <1>1, <2>1, <2>4, <2>5, ProcessStep
<1>6. pulled[cycle.backend] \in SUBSET Models /\ {} \in SUBSET Models
  BY <1>1 DEF TypeOK
<1> QED
  BY <1>4, <1>5, <1>6 DEF ListAgain, ListAgainFails

LEMMA FinishStep ==
  ASSUME CycleInv, ReadFails \/ CleanUp \/ Crash
  PROVE  CycleInv'
<1> USE DEF CycleInv
<1>1. /\ UNCHANGED <<queue, pulled>>
      /\ cycle' = NoCycle /\ since' = NoAssignments /\ ever' = NoAssignments
  BY DEF ReadFails, CleanUp, Crash
<1>2. disturbances' \in 0..MaxDisturbances
  BY DisturbStep DEF TypeOK, ReadFails, CleanUp, Crash
<1>3. /\ download' = download \/ download' = NoDownload
      /\ purges' = purges \/ purges' = {}
  BY DEF ReadFails, CleanUp, Crash
<1>4. /\ DOMAIN observed' \subseteq Backends
      /\ observed' \in [DOMAIN observed' -> SUBSET Models]
  <2>1. CASE ReadFails
    BY <2>1 DEF ReadFails, TypeOK
  <2>2. CASE CleanUp
    BY <2>2 DEF CleanUp, Kept, TypeOK
  <2>3. CASE Crash
    BY <2>3 DEF Crash
  <2> QED
    BY <2>1, <2>2, <2>3
<1>5. /\ pools' \subseteq Pools
      /\ members' \in [Pools -> SUBSET Backends]
      /\ declared' \in [Pools -> SUBSET Models]
      /\ Owned'
  <2> USE DEF TypeOK, Assignments, AssignmentsType, Owned
  <2>1. CASE ReadFails \/ CleanUp
    BY <2>1 DEF ReadFails, CleanUp, declarations
  <2>2. CASE Crash
    BY <2>2, EmbedAssumption DEF Crash, InternalModels
  <2> QED
    BY <2>1, <2>2
<1>6. TypeOK'
  BY <1>1, <1>2, <1>3, <1>4, <1>5, NothingTyped
  DEF TypeOK, Assignments, AssignmentsType, NoDownload
<1> QED
  BY <1>1, <1>5, <1>6, EndStep

LEMMA CycleInvNext == CycleInv /\ [Next]_vars => CycleInv'
<1> SUFFICES ASSUME CycleInv, [Next]_vars PROVE CycleInv'
  OBVIOUS
<1>1. CASE ChangeDeclarations
  BY <1>1, DeclareStep
<1>2. CASE \/ Pop \/ Subscribe \/ SubscribeFails \/ PullEnds
           \/ Downloads
  BY <1>2, DownloadStep
<1>3. CASE StartCycle
  BY <1>3, StartStep
<1>4. CASE \E p \in Pools : ReadPoolBackends(p)
  BY <1>4, ReadBackendsStep
<1>5. CASE ReadPoolModels
  BY <1>5, ReadModelsStep
<1>6. CASE \E b \in Backends : List(b) \/ ListFails(b)
  BY <1>6, ListStep
<1>7. CASE \/ \E m \in Models : AddJob(m) \/ RemoveExtra(m) \/ RemoveFails(m)
           \/ ListAgain \/ ListAgainFails
  BY <1>7, ReconcileStep
<1>8. CASE ReadFails \/ CleanUp \/ Crash
  BY <1>8, FinishStep
<1>9. CASE UNCHANGED vars
  <2>1. UNCHANGED <<pools, members, declared, queue, pulled, observed, cycle,
                    download, purges, since, ever, disturbances>>
    BY <1>9 DEF vars, declarations, history
  <2>2. TypeOK'
    BY <2>1 DEF CycleInv, TypeOK, Assignments
  <2> QED
    BY <2>1, <2>2, ApartStep DEF declarations, history
<1> QED
  BY <1>1, <1>2, <1>3, <1>4, <1>5, <1>6, <1>7, <1>8, <1>9
  DEF Next, Requests, BackendCycle

LEMMA CycleInvariant == Spec => []CycleInv
BY CycleInvInit, CycleInvNext, PTL DEF Spec

-----------------------------------------------------------------------------
(* What follows from it.                                                   *)

(* The state has its type; in particular no two jobs of the queue have the *)
(* same backend's URL, after any insert, pop or removal.                   *)
THEOREM TypeCorrect == Spec => []TypeOK
BY CycleInvariant, PTL DEF CycleInv

(* The embedding pool keeps the embedding model, whatever the services are *)
(* asked to delete or remove.                                              *)
THEOREM EmbeddingStays == Spec => []EmbeddingIsDeclared
<1>1. Init => EmbeddingIsDeclared
  BY DEF Init, InternalModels, EmbeddingIsDeclared
<1>2. TypeOK /\ EmbeddingIsDeclared /\ [Next]_vars => EmbeddingIsDeclared'
  <2> SUFFICES ASSUME TypeOK, EmbeddingIsDeclared, [Next]_vars
               PROVE  EmbeddingIsDeclared'
    OBVIOUS
  <2>1. CASE ChangeDeclarations
    <3> USE EmbedAssumption DEF TypeOK, Assignments, AssignmentsType,
                                EmbeddingIsDeclared, Declare
    <3>1. ASSUME NEW p \in Pools, CreatePool(p) \/ DeletePool(p)
          PROVE  EmbeddingIsDeclared'
      BY <3>1 DEF CreatePool, DeletePool, PoolDeleted
    <3>2. CASE BackendAssociations
      BY <3>2 DEF BackendAssociations, AssignBackend, RemoveBackend
    <3>3. CASE ModelAssociations
      BY <3>3 DEF ModelAssociations, AssignModel, RemoveModel,
                  AssignModelToPool, RemoveModelFromPool
    <3>4. ASSUME NEW b \in Backends, DeleteBackend(b)
          PROVE  EmbeddingIsDeclared'
      BY <3>4 DEF DeleteBackend
    <3>5. ASSUME NEW m \in Models, ModelRoute(m)
          PROVE  EmbeddingIsDeclared'
      BY <3>5 DEF ModelRoute, DeleteModel, ModelDeleted
    <3> QED
      BY <2>1, <3>1, <3>2, <3>3, <3>4, <3>5
      DEF ChangeDeclarations, PoolCreation, PoolDeletion, BackendDeletion
  <2>2. CASE Crash
    BY <2>2, EmbedAssumption
    DEF Crash, TypeOK, Assignments, AssignmentsType, EmbeddingIsDeclared
  <2>3. CASE ~ChangeDeclarations /\ ~Crash
    <3>1. UNCHANGED <<pools, declared>>
      BY <2>3 DEF Next, Requests, Downloads, RemoveFromQueue, PurgeQueue,
        PurgeDownload, CancelRoute, PurgeFails, CancelDownloads,
        RemoveDownloadFromQueue, BackendCycle, StartCycle, ReadPoolBackends,
        ReadPoolModels, List, ListFails, AddJob, RemoveExtra, RemoveFails,
        ListAgain, ListAgainFails, StoreListing, CleanUp, ReadFails, Pop,
        Subscribe, SubscribeFails, PullEnds, PullSucceeds, PullFails, cycleOnly,
        downloadOnly, declarations, vars
    <3> QED
      BY <3>1 DEF EmbeddingIsDeclared
  <2> QED
    BY <2>1, <2>2, <2>3
<1> QED
  BY <1>1, <1>2, TypeCorrect, PTL DEF Spec

(* A cycle never deletes what one pool declared for a backend all through  *)
(* it: by the end of the reading all of that is in wanted.                 *)
THEOREM NeverDeletesDeclared == Spec => DeclaredIsKept
<1>1. ASSUME CycleInv, [Next]_vars, NEW b \in Backends,
             NEW m \in pulled[b] \ pulled'[b]
      PROVE  ~Steady(b, m)
  <2>1. \E x \in Models : RemoveExtra(x)
    BY <1>1 DEF Next, Requests, ChangeDeclarations, PoolCreation, CreatePool,
      PoolDeletion, DeletePool, BackendDeletion,
      BackendAssociations, AssignBackend, RemoveBackend, ModelAssociations,
      AssignModel, RemoveModel, DeleteBackend, ModelRoute, DeleteModel, Declare,
      Downloads, RemoveFromQueue, PurgeQueue, PurgeDownload, CancelRoute,
      PurgeFails, CancelDownloads, RemoveDownloadFromQueue, BackendCycle,
      StartCycle,
      ReadPoolBackends, ReadPoolModels, List, ListFails, AddJob, RemoveFails,
      ListAgain, ListAgainFails, StoreListing, CleanUp, ReadFails, Pop,
      Subscribe, SubscribeFails, PullEnds, PullSucceeds, PullFails, Crash,
      cycleOnly, downloadOnly, vars, CycleInv, TypeOK
  <2>2. PICK x \in Models : RemoveExtra(x)
    BY <2>1
  <2>3. b = cycle.backend /\ m = x /\ m \in cycle.extra /\ cycle.pc = "reconcile"
    BY <1>1, <2>2 DEF RemoveExtra, CycleInv, TypeOK
  <2>4. m \notin cycle.wanted[b] /\ cycle.unread = {}
    BY <1>1, <2>3 DEF CycleInv, Phases
  <2>5. ASSUME NEW p \in Pools, b \in since.members[p], m \in since.declared[p]
        PROVE  FALSE
    BY <1>1, <2>3, <2>4, <2>5 DEF CycleInv, Covered, Running, ToRead
  <2> QED
    BY <2>5 DEF Steady
<1>2. CycleInv /\ [Next]_vars =>
        [\A b \in Backends : \A m \in pulled[b] \ pulled'[b] : ~Steady(b, m)]_vars
  BY <1>1
<1> QED
  BY <1>2, CycleInvariant, PTL DEF Spec, DeclaredIsKept

(* A cycle queues a model for a backend only if one pool held both at some *)
(* time while the cycle ran.                                               *)
THEOREM QueuesOnlyDeclared == Spec => QueuedWasDeclared
<1>1. ASSUME CycleInv, [Next]_vars, NEW job \in Jobs(queue') \ Jobs(queue)
      PROVE  Ever(job.url, job.model)
  <2>1. QueueType(queue)
    BY <1>1 DEF CycleInv, TypeOK, QueueType, JobType
  <2>2. ~Pop
    BY <2>1, PopStep, <1>1 DEF Pop
  <2>3. ASSUME NEW x \in Models, RemoveDownloadFromQueue(x)
        PROVE  FALSE
    <3> DEFINE S == {j \in Jobs(queue) : j.model # x}
    <3>1. queue' = queue \/ queue' \in SetToSeqs(S)
      BY <2>3 DEF RemoveDownloadFromQueue
    <3>2. Jobs(queue') \subseteq Jobs(queue)
      <4>1. CASE queue' = queue
        BY <4>1
      <4>2. CASE queue' \in SetToSeqs(S)
        BY <2>1, <4>2, S \in SUBSET Jobs(queue), RequeueStep
      <4> QED
        BY <3>1, <4>1, <4>2
    <3> QED
      BY <1>1, <3>2
  <2>4. queue' # queue
    BY <1>1
  <2>5. PICK x \in Models : AddJob(x)
    BY <1>1, <2>2, <2>3, <2>4 DEF Next, Requests, ChangeDeclarations,
      PoolCreation, CreatePool, PoolDeletion, DeletePool, BackendDeletion,
      BackendAssociations, AssignBackend, RemoveBackend, ModelAssociations,
      AssignModel, RemoveModel, DeleteBackend, ModelRoute, DeleteModel, Declare,
      Downloads, RemoveFromQueue, PurgeQueue, PurgeDownload, CancelRoute,
      PurgeFails, CancelDownloads, BackendCycle, StartCycle,
      ReadPoolBackends, ReadPoolModels, List, ListFails, RemoveExtra,
      RemoveFails, ListAgain, ListAgainFails, StoreListing, CleanUp, ReadFails,
      Subscribe, SubscribeFails, PullEnds, PullSucceeds, PullFails, Crash,
      cycleOnly, downloadOnly, vars
  <2>6. /\ cycle.pc = "reconcile" /\ cycle.backend \in Backends
        /\ x \in cycle.wanted[cycle.backend]
    BY <1>1, <2>5 DEF AddJob, CycleInv, Phases
  <2>7. job.url = cycle.backend /\ job.model = x
    BY <1>1, <2>1, <2>5, <2>6, EnqueueStep DEF AddJob
  <2> QED
    BY <1>1, <2>6, <2>7 DEF CycleInv, Justified, Running
<1>2. CycleInv /\ [Next]_vars =>
        [\A job \in Jobs(queue') \ Jobs(queue) : Ever(job.url, job.model)]_vars
  BY <1>1
<1> QED
  BY <1>2, CycleInvariant, PTL DEF Spec, QueuedWasDeclared

(* After a clean-up the entries lie between the backends that were members *)
(* of one pool all along and those that were members at some time.         *)
THEOREM EntriesMatch == Spec => EntriesMatchMembers
<1>1. ASSUME CycleInv, CleanUp
      PROVE  /\ SteadyMembers \subseteq DOMAIN observed'
             /\ DOMAIN observed' \subseteq EverMembers
  <2>1. /\ cycle.pc = "process" /\ cycle.left = {}
        /\ DOMAIN observed' = DOMAIN observed \cap cycle.active
    BY <1>1 DEF CleanUp, Kept
  <2>2. cycle.active \subseteq DOMAIN observed /\ cycle.unread = {}
    BY <1>1, <2>1 DEF CycleInv, Phases
  <2>3. SteadyMembers \subseteq cycle.active
    BY <1>1, <2>1, <2>2 DEF CycleInv, Covered, Running, ToRead, SteadyMembers
  <2>4. cycle.active \subseteq EverMembers
    BY <1>1, <2>1 DEF CycleInv, Justified, Running
  <2> QED
    BY <2>1, <2>2, <2>3, <2>4
<1>2. CycleInv /\ [Next]_vars =>
        [CleanUp => /\ SteadyMembers \subseteq DOMAIN observed'
                    /\ DOMAIN observed' \subseteq EverMembers]_vars
  BY <1>1
<1> QED
  BY <1>2, CycleInvariant, PTL DEF Spec, EntriesMatchMembers

=============================================================================
