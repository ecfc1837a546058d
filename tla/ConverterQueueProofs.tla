------------------------ MODULE ConverterQueueProofs ------------------------
(***************************************************************************)
(* Proofs about ConverterQueue: the queue drives the cache manager only in *)
(* ways ArtCache allows, so that all that is proved of ArtCache holds of   *)
(* the two together.                                                       *)
(***************************************************************************)
EXTENDS ConverterQueue, ArtCacheProofs, SequenceTheorems

JobSet == [src : Sources, res : Results]

(* A job that is new, or takes another key along, is a job.                *)
LEMMA JobTypes ==
    ASSUME NEW k \in Keys
    PROVE  /\ \A s \in Sources : Job(s, k) \in JobSet /\ Job(s, k).src = s
           /\ \A j \in JobSet : AddPendingKey(j, k) \in JobSet /\ AddPendingKey(j, k).src = j.src
<1>1. "SOURCE_UNKNOWN" \in JobResult
  BY DEF JobResult, AddKeyResult
<1>2. ASSUME NEW s \in Sources
      PROVE  Job(s, k) \in JobSet /\ Job(s, k).src = s
  <2>1. [x \in {k} |-> "SOURCE_UNKNOWN"] \in [{k} -> JobResult]
    BY <1>1
  <2>2. [x \in {k} |-> "SOURCE_UNKNOWN"] \in Results
    BY <2>1 DEF Results
  <2>3. QED
    BY <2>2 DEF Job, JobSet
<1>3. ASSUME NEW j \in JobSet
      PROVE  AddPendingKey(j, k) \in JobSet /\ AddPendingKey(j, k).src = j.src
  <2>1. PICK pending \in SUBSET Keys : j.res \in [pending -> JobResult]
    BY DEF JobSet, Results
  <2>2. AddPendingKey(j, k).res \in [pending \cup {k} -> JobResult]
    BY <1>1, <2>1 DEF AddPendingKey
  <2>3. AddPendingKey(j, k).res \in Results
    BY <2>2 DEF Results
  <2>4. QED
    BY <2>3 DEF AddPendingKey, JobSet
<1>4. QED
  BY <1>2, <1>3

(* What update_source reports for a job's keys are results.                *)
LEMMA ReportedResults ==
    ASSUME NEW s \in Sources, NEW pending \in SUBSET Keys, NEW i,
           NEW run \in Runs(s, pending, i), NEW u \in BOOLEAN
    PROVE  KeyResults(pending, run, u) \in [pending -> JobResult]
<1>1. ASSUME NEW k \in DOMAIN run
      PROVE  run[k].res \in JobResult
  <2>1. run[k] \in LinkToSource(k, s, refs, "INSERTED")
    BY RunOutcome
  <2>2. QED
    BY <2>1 DEF LinkToSource, When, JobResult, AddKeyResult
<1>2. {"SOURCE_UNKNOWN", "INSERTED"} \subseteq JobResult
  BY DEF JobResult, AddKeyResult
<1>3. QED
  BY <1>1, <1>2 DEF KeyResults

(* A key joins a job: the jobs stay jobs, of the same sources.             *)
LEMMA JoinedJobs ==
    ASSUME QTypeOK, NEW k \in Keys, NEW s, AddKeyToPendingSource(k, s)
    PROVE  /\ jobs' \in Seq(JobSet) /\ Len(jobs') = Len(jobs)
           /\ \A i \in 1..Len(jobs) : jobs'[i].src = jobs[i].src
           /\ running' \subseteq JobSet
           /\ \A i, j \in running' : i = j
           /\ running' = {} <=> running = {}
           /\ \A x : Running(x)' => Running(x)
<1>1. jobs \in Seq(JobSet) /\ running \subseteq JobSet /\ \A i, j \in running : i = j
  BY DEF QTypeOK, JobSet
<1>2. CASE Running(s)
  <2>1. jobs' = jobs
    BY <1>2 DEF AddKeyToPendingSource
  <2>2. running' = running \/ running' = {AddPendingKey(j, k) : j \in running}
    BY <1>2 DEF AddKeyToPendingSource
  <2>3. QED
    BY <1>1, <2>1, <2>2, JobTypes DEF Running
<1>3. CASE ~Running(s)
  <2>1. running' = running /\ jobs' = [jobs EXCEPT ![FirstJob(s)] = AddPendingKey(@, k)]
    BY <1>3 DEF AddKeyToPendingSource
  <2>2. \A i \in 1..Len(jobs) : jobs[i] \in JobSet
    BY <1>1
  <2>3. \A i \in 1..Len(jobs) : jobs'[i] \in JobSet /\ jobs'[i].src = jobs[i].src
    BY <1>1, <2>1, <2>2, JobTypes
  <2>4. jobs' \in [1..Len(jobs) -> JobSet]
    <3>1. jobs \in [1..Len(jobs) -> JobSet]
      BY <1>1
    <3>2. jobs' = [i \in 1..Len(jobs) |-> IF i = FirstJob(s) THEN AddPendingKey(jobs[i], k)
                                                             ELSE jobs[i]]
      BY <2>1, <3>1
    <3>3. QED
      BY <2>3, <3>1, <3>2
  <2>5. Len(jobs) \in Nat
    BY <1>1
  <2>6. jobs' \in Seq(JobSet) /\ Len(jobs') = Len(jobs)
    BY <2>4, <2>5
  <2>7. QED
    BY <1>1, <2>1, <2>3, <2>6 DEF Running
<1>4. QED
  BY <1>2, <1>3

(* A request is a request to the manager with the queue's own answers.     *)
LEMMA AddIsAStep ==
    ASSUME NEW k \in Keys, NEW s \in Sources, Add(k, s)
    PROVE  Next
<1> DEFINE old == OldLink(k)
           oldPending == links[k] # {} /\ (Running(old) \/ Queued(old))
<1>1. PICK src \in MkSourceEntry(s) : \E out \in AddOutcomes(k, s, src, Queued(s), oldPending) :
        AddStreamKeyForSource(k, src, out)
  BY DEF Add
<1>2. Queued(s) \in BOOLEAN /\ oldPending \in BOOLEAN /\ (oldPending => links[k] # {})
  BY DEF Queued
<1>3. QED
  BY <1>1, <1>2 DEF Next

(* Deleting a key that is not there is no step of the manager.             *)
LEMMA DeleteIsAStep ==
    ASSUME NEW k \in Keys, DeleteKeyIfAny(k)
    PROVE  Next \/ UNCHANGED vars
BY DEF DeleteKeyIfAny, Next

(* Handing over the pictures is an update with the job's pending keys.     *)
LEMMA MoveIsAStep ==
    ASSUME QTypeOK, MoveFilesToCache
    PROVE  Next
<1>1. PICK j \in running, o \in Objects : \E import \in Import(j.src, o) :
        \E run \in Runs(j.src, DOMAIN j.res, import) : UpdateSource(import, run)
  BY DEF MoveFilesToCache
<1>2. j.src \in Sources /\ DOMAIN j.res \in SUBSET Keys
  BY DEF QTypeOK, Results
<1>3. QED
  BY <1>1, <1>2 DEF Next

(* Every other step of the worker leaves the manager alone.                *)
LEMMA StepIsAStep ==
    ASSUME QTypeOK, [QNext]_qvars
    PROVE  [Next]_vars
<1>1. ASSUME NEW k \in Keys, NEW s \in Sources, Add(k, s)
      PROVE  Next
  BY <1>1, AddIsAStep
<1>2. CASE AddFailed
  <2>1. PICK k \in failing : DeleteKeyIfAny(k)
    BY <1>2 DEF AddFailed
  <2>2. k \in Keys
    BY <2>1 DEF QTypeOK
  <2>3. QED
    BY <2>1, <2>2, DeleteIsAStep
<1>3. CASE Notify
  <2>1. PICK k \in Keys : DeleteKeyIfAny(k) \/ UNCHANGED vars
    BY <1>3 DEF Notify
  <2>2. QED
    BY <2>1, DeleteIsAStep
<1>4. CASE MoveFilesToCache
  BY <1>4, MoveIsAStep
<1>5. CASE Take \/ Prepare \/ ScriptFails \/ Finalize \/ Release
  BY <1>5 DEF Take, Prepare, ScriptFails, Finalize, Release
<1>6. CASE Collect \/ Crash
  BY <1>6 DEF Collect, Crash, Next
<1>7. ASSUME NEW k \in Keys, Lookup(k)
      PROVE  Next
  BY <1>7 DEF Next
<1>8. CASE UNCHANGED qvars
  BY <1>8 DEF qvars
<1>9. QED
  BY <1>1, <1>2, <1>3, <1>4, <1>5, <1>6, <1>7, <1>8 DEF LookUp, HighestPriority, QNext, QRun, Worker

(* A step of the queue together with the manager keeps the queue's types.  *)
LEMMA AddTypes ==
    ASSUME QTypeOK, NEW k \in Keys, NEW s \in Sources, Add(k, s)
    PROVE  QTypeOK'
<1> USE DEF JobSet
<1>1. /\ jobs \in Seq(JobSet) /\ running \subseteq JobSet
      /\ status \in [Keys -> {"none", "associated", "added", "failed"}]
  BY DEF QTypeOK
<1>2. worker' = worker
  BY DEF Add
<1>3. CASE QueueURI(k, s) \/ QueueData(k, s) \/ Fail(k)
  <2>1. CASE Enqueue(k, s) /\ workdirs' \in {workdirs, workdirs \cup {s}}
    <3>1. jobs' \in Seq(JobSet)
      BY <1>1, <2>1, JobTypes DEF Enqueue
    <3>2. QED
      BY <1>1, <1>2, <2>1, <3>1 DEF QTypeOK, Enqueue, Signal
  <2>2. CASE UNCHANGED <<jobs, running, failing, workdirs>> /\ Signal(k, "associated")
    BY <1>1, <1>2, <2>2 DEF QTypeOK, Signal
  <2>3. CASE Fail(k)
    BY <1>2, <2>3 DEF QTypeOK, Fail
  <2>4. QED
    BY <1>3, <2>1, <2>2, <2>3 DEF QueueURI, QueueData
<1>4. CASE \E t : AddKeyToPendingSource(k, t) /\ Signal(k, "associated") /\ UNCHANGED <<failing, workdirs>>
  <2>1. PICK t : AddKeyToPendingSource(k, t)
    BY <1>4
  <2>2. /\ jobs' \in Seq(JobSet) /\ running' \subseteq JobSet
        /\ \A i, j \in running' : i = j
        /\ running' = {} <=> running = {}
    BY <2>1, JoinedJobs
  <2>3. QED
    BY <1>1, <1>2, <1>4, <2>2 DEF QTypeOK, Signal
<1>5. CASE Signal(k, "added") /\ UNCHANGED <<jobs, running, failing, workdirs>>
  BY <1>1, <1>2, <1>5 DEF QTypeOK, Signal
<1>6. QED
  BY <1>3, <1>4, <1>5 DEF Add

(* The other steps keep the queue's types.                                 *)
LEMMA WorkerTypes ==
    ASSUME QTypeOK, Worker \/ AddFailed
    PROVE  QTypeOK'
<1> USE DEF JobSet
<1>1. /\ jobs \in Seq(JobSet) /\ running \subseteq JobSet
      /\ \A i, j \in running : i = j
      /\ status \in [Keys -> {"none", "associated", "added", "failed"}]
  BY DEF QTypeOK
<1>2. CASE AddFailed
  BY <1>1, <1>2 DEF QTypeOK, AddFailed, Signal
<1>3. CASE Take
  <2>1. Head(jobs) \in JobSet /\ Tail(jobs) \in Seq(JobSet)
    BY <1>1, <1>3, HeadTailProperties DEF Take
  <2>2. QED
    BY <1>1, <1>3, <2>1 DEF QTypeOK, Take
<1>4. CASE Prepare
  BY <1>1, <1>4 DEF QTypeOK, Prepare
<1>5. CASE ScriptFails \/ Finalize
  BY <1>1, <1>5 DEF QTypeOK, ScriptFails, Finalize
<1>6. CASE MoveFilesToCache
  <2>1. PICK j \in running, o \in Objects : \E import \in Import(j.src, o) :
          \E run \in Runs(j.src, DOMAIN j.res, import) :
            running' = {[src |-> j.src,
                         res |-> KeyResults(DOMAIN j.res, run, import.res = "UPDATED")]}
    BY <1>6 DEF MoveFilesToCache
  <2>2. PICK import \in Import(j.src, o) : \E run \in Runs(j.src, DOMAIN j.res, import) :
            running' = {[src |-> j.src,
                         res |-> KeyResults(DOMAIN j.res, run, import.res = "UPDATED")]}
    BY <2>1
  <2>3. PICK run \in Runs(j.src, DOMAIN j.res, import) :
            running' = {[src |-> j.src,
                         res |-> KeyResults(DOMAIN j.res, run, import.res = "UPDATED")]}
    BY <2>2
  <2>4. j.src \in Sources /\ DOMAIN j.res \in SUBSET Keys
    BY <1>1, <2>1 DEF Results
  <2>5. KeyResults(DOMAIN j.res, run, import.res = "UPDATED") \in Results
    <3>1. (import.res = "UPDATED") \in BOOLEAN
      OBVIOUS
    <3>2. KeyResults(DOMAIN j.res, run, import.res = "UPDATED") \in [DOMAIN j.res -> JobResult]
      BY <2>3, <2>4, <3>1, ReportedResults, Zenon
    <3>3. QED
      BY <2>4, <3>2 DEF Results
  <2>6. running' \subseteq JobSet /\ running' # {} /\ \A x, y \in running' : x = y
    BY <2>3, <2>4, <2>5
  <2>7. QED
    BY <1>1, <1>6, <2>6 DEF QTypeOK, MoveFilesToCache
<1>7. CASE Notify
  <2>1. PICK j \in running, k \in Keys :
          /\ running' = {[src |-> j.src, res |-> [x \in DOMAIN j.res \ {k} |-> j.res[x]]]}
          /\ Signal(k, SignalFor(j.res[k]))
    BY <1>7 DEF Notify
  <2>2. PICK pending \in SUBSET Keys : j.res \in [pending -> JobResult]
    BY <1>1, <2>1 DEF Results
  <2>3. [x \in DOMAIN j.res \ {k} |-> j.res[x]] \in [pending \ {k} -> JobResult]
    BY <2>2
  <2>4. [x \in DOMAIN j.res \ {k} |-> j.res[x]] \in Results
    BY <2>3 DEF Results
  <2>5. running' \subseteq JobSet /\ running' # {} /\ \A x, y \in running' : x = y
    BY <1>1, <2>1, <2>4
  <2>6. status' \in [Keys -> {"none", "associated", "added", "failed"}]
    BY <1>1, <2>1 DEF Signal, SignalFor
  <2>7. QED
    BY <1>1, <1>7, <2>5, <2>6 DEF QTypeOK, Notify
<1>8. CASE Release
  BY <1>1, <1>8 DEF QTypeOK, Release
<1>9. QED
  BY <1>2, <1>3, <1>4, <1>5, <1>6, <1>7, <1>8 DEF Worker

(* Every step keeps the queue's types.                                     *)
LEMMA NextTypes ==
    ASSUME QTypeOK, [QNext]_qvars
    PROVE  QTypeOK'
<1>1. CASE LookUp \/ Collect \/ UNCHANGED qvars
  BY <1>1 DEF QTypeOK, LookUp, Collect, qvars, queue
<1>2. CASE Crash
  BY <1>2 DEF QTypeOK, Crash
<1>3. QED
  BY <1>1, <1>2, AddTypes, WorkerTypes DEF QNext, QRun

(* The queue and the manager together implement the manager's              *)
(* specification: the answers the manager gets from the queue, and the     *)
(* order in which the queue calls it, are among those ArtCache allows.     *)
THEOREM QueueImplementsCache == QSpec => Spec
<1>1. QInit => Init /\ QTypeOK
  BY DEF QInit, QTypeOK
<1>2. QTypeOK /\ [QNext]_qvars => QTypeOK'
  BY NextTypes
<1>3. QTypeOK /\ [QNext]_qvars => [Next]_vars
  BY StepIsAStep
<1>4. QED
  BY <1>1, <1>2, <1>3, PTL DEF QSpec, Spec

(* The jobs and the queue's bookkeeping keep their types.                  *)
THEOREM QueueTypeCorrect == QSpec => []QTypeOK
<1>1. QInit => QTypeOK
  BY DEF QInit, QTypeOK
<1>2. QTypeOK /\ [QNext]_qvars => QTypeOK'
  BY NextTypes
<1>3. QED
  BY <1>1, <1>2, PTL DEF QSpec

(* What holds of the cache alone holds while the queue drives it.          *)
THEOREM QueueKeepsCacheSound == QSpec => [](NoDanglingKey /\ NoDanglingPicture)
BY QueueImplementsCache, KeysDoNotDangle, PicturesDoNotDangle, PTL

(* Neither a job nor a request takes a picture away from under a key that  *)
(* still links its source.                                                 *)
THEOREM QueueKeepsPictures == QSpec => LivePictureKept
BY QueueImplementsCache, PicturesAreKept, PTL

(* Nor do they keep a collection from getting nearer to its end by each of *)
(* its own steps.                                                          *)
THEOREM QueueCollectionGetsOn == QSpec => CollectionShrinks
BY QueueImplementsCache, CollectionGetsOn, PTL

-----------------------------------------------------------------------------
(* The inductive form of DataJobUnique: the running job of picture data    *)
(* has its directory, too, so that nothing is queued behind it.            *)
DataJobInv ==
    /\ DataJobUnique
    /\ \A s \in DataSources : Running(s) => s \in workdirs

(* No new jobs, and no directory goes.                                     *)
LEMMA SameJobs ==
    ASSUME QTypeOK, DataJobInv, jobs' \in Seq(JobSet), Len(jobs') = Len(jobs),
           \A i \in 1..Len(jobs) : jobs'[i].src = jobs[i].src,
           \A s : Running(s)' => Running(s),
           workdirs \subseteq workdirs'
    PROVE  DataJobInv'
<1>1. DOMAIN jobs = 1..Len(jobs) /\ DOMAIN jobs' = 1..Len(jobs)
  BY DEF QTypeOK
<1>2. \A s : Queued(s)' <=> Queued(s)
  BY <1>1 DEF Queued
<1>3. QED
  BY <1>1, <1>2 DEF DataJobInv, DataJobUnique

(* A job is appended: one for a URI, or one for data with a new directory. *)
LEMMA AppendedJob ==
    ASSUME QTypeOK, DataJobInv, NEW k \in Keys, NEW s \in Sources,
           QueueURI(k, s) \/ QueueData(k, s),
           jobs' = Append(jobs, Job(s, k)), running' = running
    PROVE  DataJobInv'
<1>1. /\ Len(jobs) \in Nat
      /\ DOMAIN jobs = 1..Len(jobs) /\ DOMAIN jobs' = 1..(Len(jobs) + 1)
      /\ \A i \in 1..Len(jobs) : jobs'[i] = jobs[i]
      /\ jobs'[Len(jobs) + 1] = Job(s, k)
  <2>1. jobs \in Seq(JobSet) /\ Job(s, k) \in JobSet
    BY JobTypes DEF QTypeOK, JobSet
  <2>2. QED
    BY <2>1
<1>2. jobs'[Len(jobs) + 1].src = s
  BY <1>1 DEF Job
<1>3. \A t : Queued(t)' <=> (Queued(t) \/ t = s)
  BY <1>1, <1>2 DEF Queued
<1>4. \A t : Running(t)' <=> Running(t)
  BY DEF Running
<1>5. CASE s \notin DataSources /\ workdirs' = workdirs
  BY <1>1, <1>2, <1>3, <1>4, <1>5 DEF DataJobInv, DataJobUnique
<1>6. CASE s \notin workdirs /\ workdirs' = workdirs \cup {s}
  <2>1. CASE s \notin DataSources
    BY <1>1, <1>2, <1>3, <1>4, <1>6, <2>1 DEF DataJobInv, DataJobUnique
  <2>2. CASE s \in DataSources
    <3>1. ~Queued(s) /\ ~Running(s)
      BY <1>6, <2>2 DEF DataJobInv, DataJobUnique
    <3>2. \A i \in DOMAIN jobs : jobs[i].src # s
      BY <3>1 DEF Queued
    <3>3. QED
      BY <1>1, <1>2, <1>3, <1>4, <1>6, <3>1, <3>2 DEF DataJobInv, DataJobUnique
  <2>3. QED
    BY <2>1, <2>2
<1>7. QED
  <2>1. jobs' # jobs
    <3>1. Len(jobs) + 1 \in DOMAIN jobs' /\ Len(jobs) + 1 \notin DOMAIN jobs
      BY <1>1
    <3>2. QED
      BY <3>1
  <2>2. QED
    BY <1>5, <1>6, <2>1 DEF QueueURI, QueueData, Fail

(* A request keeps it: nothing but a new job and its new directory.        *)
LEMMA AddKeepsDataJobs ==
    ASSUME QTypeOK, DataJobInv, NEW k \in Keys, NEW s \in Sources, Add(k, s)
    PROVE  DataJobInv'
<1>1. jobs \in Seq(JobSet)
  BY DEF QTypeOK, JobSet
<1>2. CASE UNCHANGED <<jobs, running, workdirs>>
  <2>1. \A x : Running(x)' => Running(x)
    BY <1>2 DEF Running
  <2>2. QED
    BY <1>1, <1>2, <2>1, SameJobs
<1>3. CASE QueueURI(k, s) \/ QueueData(k, s)
  <2>1. CASE jobs' = Append(jobs, Job(s, k)) /\ running' = running
    BY <1>3, <2>1, AppendedJob
  <2>2. CASE UNCHANGED <<jobs, running, workdirs>>
    BY <1>2, <2>2
  <2>3. QED
    BY <1>3, <2>1, <2>2 DEF QueueURI, QueueData, Enqueue, Fail
<1>4. CASE \E t : AddKeyToPendingSource(k, t) /\ workdirs' = workdirs
  BY <1>4, JoinedJobs, SameJobs
<1>5. CASE Fail(k)
  BY <1>2, <1>5 DEF Fail
<1>6. QED
  BY <1>2, <1>3, <1>4, <1>5 DEF Add

(* Taking the first job makes it the running one; no other is of its data. *)
LEMMA TakeKeepsDataJobs ==
    ASSUME QTypeOK, DataJobInv, Take
    PROVE  DataJobInv'
<1>1. /\ jobs \in Seq(JobSet) /\ jobs # <<>>
      /\ jobs' = Tail(jobs) /\ running' = {Head(jobs)} /\ workdirs' = workdirs
  BY DEF QTypeOK, JobSet, Take
<1>2. /\ Len(jobs) \in Nat \ {0} /\ DOMAIN jobs = 1..Len(jobs)
      /\ DOMAIN jobs' = 1..(Len(jobs) - 1)
      /\ \A i \in DOMAIN jobs' : jobs'[i] = jobs[i + 1] /\ i + 1 \in DOMAIN jobs
      /\ 1 \in DOMAIN jobs /\ Head(jobs) = jobs[1]
  BY <1>1
<1>3. \A s : Running(s)' <=> s = jobs[1].src
  BY <1>1, <1>2 DEF Running
<1>4. \A s : Queued(s)' => Queued(s)
  BY <1>2 DEF Queued
<1>5. \A s : Running(s)' => Queued(s)
  BY <1>2, <1>3 DEF Queued
<1>6. ASSUME NEW s \in DataSources, Queued(s)', Running(s)'
      PROVE  FALSE
  <2>1. PICK i \in DOMAIN jobs' : jobs'[i].src = s
    BY <1>6 DEF Queued
  <2>2. jobs[i + 1].src = s /\ jobs[1].src = s
    BY <1>2, <1>3, <1>6, <2>1
  <2>3. i + 1 = 1
    BY <1>2, <2>1, <2>2 DEF DataJobInv, DataJobUnique
  <2>4. QED
    BY <1>2, <2>3
<1>7. ASSUME NEW s \in DataSources, NEW i \in DOMAIN jobs', NEW n \in DOMAIN jobs',
             jobs'[i].src = s, jobs'[n].src = s
      PROVE  i = n
  <2>1. i + 1 = n + 1
    BY <1>2, <1>7 DEF DataJobInv, DataJobUnique
  <2>2. QED
    BY <1>2, <2>1
<1>8. QED
  BY <1>1, <1>4, <1>5, <1>6, <1>7 DEF DataJobInv, DataJobUnique

(* The rest of the worker, the collector and a restart.                    *)
LEMMA OthersKeepDataJobs ==
    ASSUME QTypeOK, QTypeOK', DataJobInv, (Worker /\ ~Take) \/ AddFailed \/ LookUp \/ Collect \/ Crash \/ UNCHANGED qvars
    PROVE  DataJobInv'
<1>1. jobs \in Seq(JobSet) /\ \A i, j \in running : i = j
  BY DEF QTypeOK, JobSet
<1>2. CASE jobs' = jobs /\ workdirs \subseteq workdirs' /\ \A s : Running(s)' => Running(s)
  BY <1>1, <1>2, SameJobs
<1>3. CASE AddFailed \/ LookUp \/ Collect \/ UNCHANGED qvars
  BY <1>2, <1>3 DEF AddFailed, LookUp, Collect, qvars, queue, Running
<1>4. CASE Prepare \/ ScriptFails \/ Finalize
  BY <1>2, <1>4 DEF Prepare, ScriptFails, Finalize, Running
<1>5. CASE MoveFilesToCache
  BY <1>2, <1>5 DEF MoveFilesToCache, Running
<1>6. CASE Notify
  BY <1>2, <1>6 DEF Notify, Running
<1>7. CASE Release
  <2>1. PICK j \in running : workdirs' = workdirs \ {j.src} \/ workdirs' = workdirs
    BY <1>7 DEF Release
  <2>2. jobs' = jobs /\ running' = {}
    BY <1>7 DEF Release
  <2>3. Running(j.src) /\ \A s : ~Running(s)'
    BY <2>1, <2>2 DEF Running
  <2>4. \A s : Queued(s)' <=> Queued(s)
    BY <2>2 DEF Queued
  <2>5. QED
    BY <2>1, <2>2, <2>3, <2>4 DEF DataJobInv, DataJobUnique
<1>8. CASE Crash
  <2>1. jobs' = <<>> /\ running' = {}
    BY <1>8 DEF Crash
  <2>2. DOMAIN jobs' = {}
    BY <2>1
  <2>3. QED
    BY <2>1, <2>2 DEF DataJobInv, DataJobUnique, Queued, Running
<1>9. QED
  BY <1>3, <1>4, <1>5, <1>6, <1>7, <1>8 DEF Worker

(* The data of one picture never have two jobs, and a job never loses its  *)
(* working directory to another: at any number of clients' keys, jobs and  *)
(* restarts.                                                               *)
THEOREM DataJobsAreUnique == QSpec => []DataJobUnique
<1>1. QInit => QTypeOK /\ DataJobInv
  <2>1. ASSUME QInit
        PROVE  DataJobInv
    <3>1. DOMAIN jobs = {} /\ running = {}
      BY <2>1 DEF QInit
    <3>2. QED
      BY <3>1 DEF DataJobInv, DataJobUnique, Queued, Running
  <2>2. QED
    BY <2>1 DEF QInit, QTypeOK
<1>2. QTypeOK /\ DataJobInv /\ [QNext]_qvars => (QTypeOK /\ DataJobInv)'
  <2>1. SUFFICES ASSUME QTypeOK, DataJobInv, [QNext]_qvars
                 PROVE  QTypeOK' /\ DataJobInv'
    OBVIOUS
  <2>2. QTypeOK'
    BY <2>1, NextTypes
  <2>3. DataJobInv'
    BY <2>1, <2>2, AddKeepsDataJobs, TakeKeepsDataJobs, OthersKeepDataJobs DEF QNext, QRun, Worker
  <2>4. QED
    BY <2>2, <2>3
<1>3. DataJobInv => DataJobUnique
  BY DEF DataJobInv
<1>4. QED
  BY <1>1, <1>2, <1>3, PTL DEF QSpec

-----------------------------------------------------------------------------
(* Requests.  The keys that wait are those the jobs carry.                 *)
Waiting == {k \in Keys : Pending(k)}

\* A signal for a key is recorded for it alone.
LEMMA Signalled ==
    ASSUME QTypeOK, NEW k \in Keys, NEW what, Signal(k, what)
    PROVE  status' = [status EXCEPT ![k] = what]
BY DEF Signal

(* A key that joins a job waits from then on, unless the job is done.      *)
LEMMA JoinWaits ==
    ASSUME QTypeOK, NEW k \in Keys, NEW s, AddKeyToPendingSource(k, s)
    PROVE  Waiting' \in {Waiting, Waiting \cup {k}}
<1>1. /\ jobs \in Seq(JobSet) /\ running \subseteq JobSet /\ \A i, j \in running : i = j
      /\ DOMAIN jobs = 1..Len(jobs)
  BY DEF QTypeOK, JobSet
<1>2. \A j : DOMAIN AddPendingKey(j, k).res = DOMAIN j.res \cup {k}
  BY DEF AddPendingKey
<1>3. CASE UNCHANGED <<jobs, running>>
  BY <1>3 DEF Waiting, Pending
<1>4. CASE jobs' = jobs /\ running' = {AddPendingKey(j, k) : j \in running}
  <2>1. CASE running = {}
    BY <1>3, <1>4, <2>1
  <2>2. CASE running # {}
    <3>1. PICK j : running = {j}
      BY <1>1, <2>2
    <3>2. running' = {AddPendingKey(j, k)}
      BY <1>4, <3>1
    <3>3. \A x : Pending(x)' <=> Pending(x) \/ x = k
      BY <1>2, <1>4, <3>1, <3>2 DEF Pending
    <3> QED
      BY <3>3 DEF Waiting
  <2> QED
    BY <2>1, <2>2
<1>5. CASE jobs' = [jobs EXCEPT ![FirstJob(s)] = AddPendingKey(@, k)] /\ running' = running
  <2>1. DOMAIN jobs' = DOMAIN jobs
    BY <1>1, <1>5
  <2>2. \A i \in DOMAIN jobs : jobs'[i] = IF i = FirstJob(s) THEN AddPendingKey(jobs[i], k)
                                                             ELSE jobs[i]
    BY <1>1, <1>5
  <2>3. CASE FirstJob(s) \in DOMAIN jobs
    <3>1. \A x : Pending(x)' <=> Pending(x) \/ x = k
      BY <1>2, <1>5, <2>1, <2>2, <2>3 DEF Pending
    <3> QED
      BY <3>1 DEF Waiting
  <2>4. CASE FirstJob(s) \notin DOMAIN jobs
    <3>1. \A x : Pending(x)' <=> Pending(x)
      BY <1>5, <2>1, <2>2, <2>4 DEF Pending
    <3> QED
      BY <3>1 DEF Waiting
  <2> QED
    BY <2>3, <2>4
<1> QED
  BY <1>3, <1>4, <1>5 DEF AddKeyToPendingSource

(* A new job makes its key wait.                                           *)
LEMMA EnqueueWaits ==
    ASSUME QTypeOK, NEW k \in Keys, NEW s \in Sources, Enqueue(k, s)
    PROVE  Waiting' = Waiting \cup {k}
<1>1. /\ Len(jobs) \in Nat
      /\ DOMAIN jobs = 1..Len(jobs) /\ DOMAIN jobs' = 1..(Len(jobs) + 1)
      /\ \A i \in 1..Len(jobs) : jobs'[i] = jobs[i]
      /\ jobs'[Len(jobs) + 1] = Job(s, k)
  <2>1. jobs \in Seq(JobSet) /\ Job(s, k) \in JobSet /\ jobs' = Append(jobs, Job(s, k))
    BY JobTypes DEF QTypeOK, JobSet, Enqueue
  <2> QED
    BY <2>1
<1>2. DOMAIN jobs'[Len(jobs) + 1].res = {k} /\ running' = running
  BY <1>1 DEF Job, Enqueue
<1>3. \A x : Pending(x)' <=> Pending(x) \/ x = k
  BY <1>1, <1>2 DEF Pending
<1> QED
  BY <1>3 DEF Waiting

(* A request is answered at once, or its key waits, or it has failed and   *)
(* is about to be answered.                                                *)
LEMMA AddPromises ==
    ASSUME QTypeOK, NEW k \in Keys, NEW s \in Sources, Add(k, s)
    PROVE  \/ Promised!Associate(k)
           \/ Promised!AnswerAtOnce(k)
           \/ UNCHANGED <<Waiting, status>>
<1> USE DEF Promised!Associate, Promised!AnswerAtOnce, Promised!Signals, Promised!Answers
<1>1. CASE Enqueue(k, s)
  <2>1. status' = [status EXCEPT ![k] = "associated"]
    BY <1>1, Signalled DEF Enqueue
  <2> QED
    BY <1>1, <2>1, EnqueueWaits DEF Waiting
<1>2. CASE \E t : AddKeyToPendingSource(k, t) /\ Signal(k, "associated")
  <2>1. status' = [status EXCEPT ![k] = "associated"]
    BY <1>2, Signalled
  <2>2. Waiting' \in {Waiting, Waiting \cup {k}}
    BY <1>2, JoinWaits
  <2> QED
    BY <2>1, <2>2 DEF Waiting
<1>3. CASE UNCHANGED <<jobs, running>> /\ \E what \in {"associated", "added"} : Signal(k, what)
  <2>1. Waiting' = Waiting
    BY <1>3 DEF Waiting, Pending
  <2>2. \E what \in {"associated", "added"} : status' = [status EXCEPT ![k] = what]
    BY <1>3, Signalled
  <2> QED
    BY <2>1, <2>2 DEF Waiting
<1>4. CASE Fail(k)
  BY <1>4 DEF Fail, Waiting, Pending
<1> QED
  BY <1>1, <1>2, <1>3, <1>4 DEF Add, QueueURI, QueueData

(* The worker takes keys along from the deque to the signals.              *)
LEMMA TakeWaits == ASSUME QTypeOK, Take PROVE Waiting' = Waiting
<1>1. /\ jobs \in Seq(JobSet) /\ jobs # <<>> /\ running = {}
      /\ jobs' = Tail(jobs) /\ running' = {Head(jobs)}
  BY DEF QTypeOK, JobSet, Take
<1>2. /\ Len(jobs) \in Nat \ {0} /\ DOMAIN jobs = 1..Len(jobs)
      /\ DOMAIN jobs' = 1..(Len(jobs) - 1)
      /\ \A i \in DOMAIN jobs' : jobs'[i] = jobs[i + 1] /\ i + 1 \in DOMAIN jobs
      /\ 1 \in DOMAIN jobs /\ Head(jobs) = jobs[1]
  BY <1>1
<1>3. \A i \in DOMAIN jobs : i = 1 \/ (i - 1 \in DOMAIN jobs' /\ jobs'[i - 1] = jobs[i])
  BY <1>1, <1>2
<1>4. \A x : Pending(x)' => Pending(x)
  BY <1>1, <1>2 DEF Pending
<1>5. \A x : Pending(x) => Pending(x)'
  BY <1>1, <1>2, <1>3 DEF Pending
<1> QED
  BY <1>4, <1>5 DEF Waiting

LEMMA MoveWaits == ASSUME QTypeOK, MoveFilesToCache PROVE Waiting' = Waiting
<1>1. PICK j \in running, o \in Objects : \E import \in Import(j.src, o) :
        \E run \in Runs(j.src, DOMAIN j.res, import) :
          running' = {[src |-> j.src,
                       res |-> KeyResults(DOMAIN j.res, run, import.res = "UPDATED")]}
  BY DEF MoveFilesToCache
<1>2. running = {j} /\ jobs' = jobs
  BY <1>1 DEF QTypeOK, MoveFilesToCache
<1>3. PICK i : running' = {i} /\ DOMAIN i.res = DOMAIN j.res
  <2>1. PICK import, run :
          running' = {[src |-> j.src,
                       res |-> KeyResults(DOMAIN j.res, run, import.res = "UPDATED")]}
    BY <1>1
  <2> DEFINE results == KeyResults(DOMAIN j.res, run, import.res = "UPDATED")
  <2>2. DOMAIN results = DOMAIN j.res
    BY DEF KeyResults
  <2>3. running' = {[src |-> j.src, res |-> results]}
    BY <2>1
  <2> HIDE DEF results
  <2>4. [src |-> j.src, res |-> results].res = results
    OBVIOUS
  <2> QED
    BY <2>2, <2>3, <2>4
<1>4. \A x : Pending(x)' <=> Pending(x)
  BY <1>2, <1>3 DEF Pending
<1> QED
  BY <1>4 DEF Waiting

(* A key that is taken off the running job gets its answer.                *)
LEMMA NotifyPromises ==
    ASSUME QTypeOK, Notify
    PROVE  \E k \in Keys : Promised!Resolve(k)
<1>1. PICK j \in running, k \in Keys :
        /\ k \in DOMAIN j.res
        /\ Signal(k, SignalFor(j.res[k]))
        /\ running' = {[src |-> j.src, res |-> [x \in DOMAIN j.res \ {k} |-> j.res[x]]]}
  BY DEF Notify
<1>2. running = {j} /\ jobs' = jobs /\ j \in JobSet
  BY <1>1 DEF QTypeOK, Notify, JobSet
<1>3. SignalFor(j.res[k]) \in {"added", "failed"}
  <2>1. j.res[k] # "SOURCE_PENDING"
    BY <1>1, <1>2 DEF JobSet, Results, JobResult
  <2> QED
    BY <2>1 DEF SignalFor
<1>4. status' \in {[status EXCEPT ![k] = answer] : answer \in {"added", "failed"}}
  BY <1>1, <1>3, Signalled
<1>5. PICK i : running' = {i} /\ DOMAIN i.res = DOMAIN j.res \ {k}
  <2> DEFINE rest == [x \in DOMAIN j.res \ {k} |-> j.res[x]]
  <2>1. [src |-> j.src, res |-> rest].res = rest /\ DOMAIN rest = DOMAIN j.res \ {k}
    OBVIOUS
  <2>2. running' = {[src |-> j.src, res |-> rest]}
    BY <1>1
  <2> HIDE DEF rest
  <2> QED
    BY <2>1, <2>2
<1>6. \A x : x # k => (Pending(x)' <=> Pending(x))
  BY <1>2, <1>5 DEF Pending
<1>7. k \in Waiting
  BY <1>1, <1>2 DEF Waiting, Pending
<1>8. Waiting' \in {Waiting, Waiting \ {k}}
  BY <1>6, <1>7 DEF Waiting
<1> QED
  BY <1>4, <1>7, <1>8 DEF Promised!Resolve, Promised!Answers, Waiting

(* No key stops waiting without an answer: at any number of keys, sources, *)
(* jobs and restarts, and with calls that fail.                            *)
THEOREM PromisesAreKept == QSpec => Promised!Safety
<1>1. QInit => QTypeOK /\ Promised!Init
  <2>1. ASSUME QInit
        PROVE  Promised!Init
    <3>1. DOMAIN jobs = {} /\ running = {}
      BY <2>1 DEF QInit
    <3> QED
      BY <2>1, <3>1 DEF QInit, Promised!Init, Pending
  <2> QED
    BY <2>1 DEF QInit, QTypeOK
<1>2. QTypeOK /\ [QNext]_qvars => QTypeOK'
  BY NextTypes
<1>3. ASSUME QTypeOK, [QNext]_qvars
      PROVE  [Promised!Next]_Promised!vars
  <2> USE DEF Promised!vars, Waiting
  <2>1. ASSUME NEW k \in Keys, NEW s \in Sources, Add(k, s)
        PROVE  [Promised!Next]_Promised!vars
    BY <1>3, <2>1, AddPromises DEF Promised!Next
  <2>2. CASE AddFailed
    <3>1. PICK k \in Keys : Signal(k, "failed")
      BY <1>3, <2>2 DEF AddFailed, QTypeOK
    <3>2. Waiting' = Waiting
      BY <2>2 DEF AddFailed, Pending
    <3>3. status' = [status EXCEPT ![k] = "failed"]
      BY <1>3, <3>1, Signalled
    <3>4. Promised!AnswerAtOnce(k)
      BY <3>2, <3>3 DEF Promised!AnswerAtOnce, Promised!Signals, Promised!Answers
    <3> QED
      BY <3>4 DEF Promised!Next
  <2>3. CASE Take
    BY <1>3, <2>3, TakeWaits DEF Take
  <2>4. CASE Prepare \/ ScriptFails \/ Finalize
    BY <2>4 DEF Prepare, ScriptFails, Finalize, Pending
  <2>5. CASE MoveFilesToCache
    BY <1>3, <2>5, MoveWaits DEF MoveFilesToCache
  <2>6. CASE Notify
    BY <1>3, <2>6, NotifyPromises DEF Promised!Next
  <2>7. CASE Release
    <3>1. jobs' = jobs /\ running' = {} /\ status' = status
      BY <2>7 DEF Release
    <3>2. \A j \in running : DOMAIN j.res = {}
      BY <1>3, <2>7 DEF Release, QTypeOK
    <3> QED
      BY <3>1, <3>2 DEF Pending
  <2>8. CASE LookUp \/ Collect \/ UNCHANGED qvars
    BY <2>8 DEF LookUp, Collect, qvars, queue, Pending
  <2>9. CASE Crash
    <3>1. DOMAIN jobs' = {} /\ running' = {}
      BY <2>9 DEF Crash
    <3>2. Waiting' = {}
      BY <3>1 DEF Pending
    <3> QED
      BY <2>9, <3>2 DEF Crash, Promised!Forget, Promised!Next
  <2> QED
    BY <1>3, <2>1, <2>2, <2>3, <2>4, <2>5, <2>6, <2>7, <2>8, <2>9 DEF QNext, QRun, Worker
<1> QED
  BY <1>1, <1>2, <1>3, PTL DEF QSpec, Promised!Safety

-----------------------------------------------------------------------------
(* No collection makes a key.                                              *)
LEMMA CollectingMakesNoKey ==
    ASSUME GC
    PROVE  keys' \subseteq keys
<1>1. CASE GCBegin \/ GCCollect \/ GCNextListing \/ GCRoundEnd
  BY <1>1 DEF GCBegin, GCCollect, GCCount, GCNextListing, GCRoundEnd, disk
<1>2. ASSUME NEW x, Keep(x)
      PROVE  keys' \subseteq keys
  BY <1>2 DEF Keep, disk
<1>3. ASSUME NEW st \in StreamKeys, NEW old \in BOOLEAN, GCVisitStream(st, old)
      PROVE  keys' \subseteq keys
  BY <1>2, <1>3 DEF GCVisitStream, RemoveStream, StreamRemains
<1>4. ASSUME NEW s \in Sources, NEW old \in BOOLEAN, GCVisitSource(s, old)
      PROVE  keys' \subseteq keys
  BY <1>2, <1>4 DEF GCVisitSource, RemoveSource, SourceRemains
<1>5. ASSUME NEW o \in Objects, NEW old \in BOOLEAN, GCVisitObject(o, old)
      PROVE  keys' \subseteq keys
  BY <1>2, <1>5 DEF GCVisitObject, RemoveObject, ObjectRemains, disk
<1>. QED  BY <1>1, <1>3, <1>4, <1>5 DEF GC

(* Deleting a key removes it, for its one link goes; the other keys stay   *)
(* as they are.                                                            *)
LEMMA DeletedKeyGone ==
    ASSUME IInv, NEW k \in Keys, DeleteKeyIfAny(k)
    PROVE  /\ keys' = keys \ {k}
           /\ links' = [links EXCEPT ![k] = {}]
<1>1. Dropped(k) = {} /\ links \in [Keys -> SUBSET Sources]
  BY OneLink DEF IInv, TypeOK
<1>2. CASE k \in keys
  <2>1. links' = [links EXCEPT ![k] = {}] /\ links'[k] = {}
    BY <1>1, <1>2 DEF DeleteKeyIfAny, DeleteKey
  <2>. QED  BY <1>2, <2>1 DEF DeleteKeyIfAny, DeleteKey
<1>3. CASE k \notin keys
  <2>1. links[k] = {}
    BY <1>3 DEF IInv, TypeOK
  <2>. QED  BY <1>1, <1>3, <2>1 DEF DeleteKeyIfAny, vars, disk
<1>. QED  BY <1>2, <1>3

(* While "failed" is the last word on a key, the key is not in the cache:  *)
(* whichever calls fail, whatever jobs still carry the key, and also when  *)
(* it is collected or the process restarts.  It rests on a key having one  *)
(* link: delete_key would keep a key that has another.                     *)
THEOREM FailedKeysAreGone == QSpec => []FailedKeyGone
<1>1. QInit => FailedKeyGone
  BY DEF QInit, Init, FailedKeyGone
<1>2. ASSUME IInv, QTypeOK, FailedKeyGone, [QNext]_qvars
      PROVE  FailedKeyGone'
  <2>1. CASE keys' \subseteq keys /\ UNCHANGED <<failing, status>>
    BY <1>2, <2>1 DEF FailedKeyGone
  <2>2. ASSUME NEW k \in Keys, NEW s \in Sources, Add(k, s)
        PROVE  FailedKeyGone'
    <3>1. keys' \subseteq keys \cup {k} /\ failing = {}
      BY <2>2 DEF Add, AddStreamKeyForSource, QueueFree
    <3>2. CASE \E what \in {"associated", "added"} : Signal(k, what)
      <4>1. \E what \in {"associated", "added"} : status' = [status EXCEPT ![k] = what]
        BY <1>2, <3>2, Signalled
      <4>2. status'[k] # "failed" /\ \A x \in Keys : x # k => status'[x] = status[x]
        BY <1>2, <4>1 DEF QTypeOK
      <4>3. keys \subseteq Keys
        BY <1>2 DEF IInv, TypeOK
      <4>. QED  BY <1>2, <3>1, <4>2, <4>3 DEF FailedKeyGone
    <3>3. CASE Fail(k)
      BY <1>2, <3>1, <3>3 DEF Fail, FailedKeyGone
    <3>. QED  BY <2>2, <3>2, <3>3 DEF Add, QueueURI, QueueData, Enqueue
  <2>3. CASE AddFailed
    <3>1. PICK k \in failing : DeleteKeyIfAny(k) /\ Signal(k, "failed")
      BY <2>3 DEF AddFailed
    <3>2. k \in Keys /\ failing = {k}
      BY <1>2, <3>1 DEF QTypeOK
    <3>3. keys' = keys \ {k}
      BY <1>2, <3>1, <3>2, DeletedKeyGone
    <3>4. \A x \in Keys : x # k => status'[x] = status[x]
      BY <1>2, <3>1 DEF Signal, QTypeOK
    <3>5. keys \subseteq Keys
      BY <1>2 DEF IInv, TypeOK
    <3>. QED  BY <1>2, <3>2, <3>3, <3>4, <3>5 DEF FailedKeyGone
  <2>4. CASE Notify
    <3>1. PICK j \in running, k \in Keys :
            /\ IF SignalFor(j.res[k]) = "failed" THEN DeleteKeyIfAny(k) ELSE UNCHANGED vars
            /\ Signal(k, SignalFor(j.res[k]))
      BY <2>4 DEF Notify
    <3>2. keys' = IF SignalFor(j.res[k]) = "failed" THEN keys \ {k} ELSE keys
      BY <1>2, <3>1, DeletedKeyGone DEF vars, disk
    <3>3. /\ status'[k] = SignalFor(j.res[k])
          /\ \A x \in Keys : x # k => status'[x] = status[x]
      BY <1>2, <3>1 DEF Signal, QTypeOK
    <3>4. keys \subseteq Keys /\ failing' = failing
      BY <1>2, <2>4 DEF IInv, TypeOK, Notify
    <3>. QED  BY <1>2, <3>2, <3>3, <3>4 DEF FailedKeyGone
  <2>5. CASE Take \/ Prepare \/ ScriptFails \/ MoveFilesToCache \/ Finalize \/ Release
    BY <2>1, <2>5 DEF Take, Prepare, ScriptFails, MoveFilesToCache, UpdateSource, Finalize, Release,
                      vars, disk
  <2>6. CASE LookUp \/ Collect \/ UNCHANGED qvars
    BY <2>1, <2>6, CollectingMakesNoKey DEF LookUp, Lookup, Collect, qvars, queue, vars, disk
  <2>7. CASE Crash
    <3>1. \A k \in Keys : status'[k] # "failed"
      BY <2>7 DEF Crash
    <3>2. keys' \subseteq Keys
      BY <1>2, <2>7 DEF Crash, Restart, Wipe, disk, IInv, TypeOK
    <3>. QED  BY <3>1, <3>2 DEF FailedKeyGone
  <2>. QED  BY <1>2, <2>2, <2>3, <2>4, <2>5, <2>6, <2>7 DEF QNext, QRun, Worker
<1>. QED
  BY <1>1, <1>2, QueueImplementsCache, Invariance, QueueTypeCorrect, PTL DEF QSpec

-----------------------------------------------------------------------------
(* One life of the process is a life of the process.                       *)
LEMMA LiveRuns == QLive => QSpec
<1>1. [QRun]_qvars => [QNext]_qvars
  BY DEF QNext
<1>. QED  BY <1>1, PTL DEF QLive, QSpec

(* A request keeps the jobs there are.                                     *)
LEMMA AddKeepsSources ==
    ASSUME QTypeOK, NEW k \in Keys, NEW s \in Sources, Add(k, s)
    PROVE  /\ \A t : Queued(t) \/ Running(t) => (Queued(t) \/ Running(t))'
           /\ workdirs' \subseteq workdirs \cup {t \in Sources : Queued(t)'}
<1>1. jobs \in Seq(JobSet) /\ DOMAIN jobs = 1..Len(jobs)
  BY DEF QTypeOK, JobSet
<1>2. CASE Enqueue(k, s) /\ workdirs' \subseteq workdirs \cup {s}
  <2>1. jobs' = Append(jobs, Job(s, k)) /\ running' = running
    BY <1>2 DEF Enqueue
  <2>2. /\ Len(jobs) \in Nat /\ DOMAIN jobs' = 1..(Len(jobs) + 1)
        /\ \A i \in 1..Len(jobs) : jobs'[i] = jobs[i]
        /\ jobs'[Len(jobs) + 1] = Job(s, k)
    <3>1. Job(s, k) \in JobSet
      BY JobTypes
    <3>. QED  BY <1>1, <2>1, <3>1
  <2>3. Queued(s)'
    BY <2>2 DEF Queued, Job
  <2>4. \A t : Queued(t) => Queued(t)'
    BY <1>1, <2>2 DEF Queued
  <2>. QED  BY <1>2, <2>1, <2>3, <2>4 DEF Running
<1>3. CASE UNCHANGED <<jobs, running, workdirs>>
  BY <1>3 DEF Queued, Running
<1>4. CASE \E t : AddKeyToPendingSource(k, t) /\ workdirs' = workdirs
  <2>1. PICK t : AddKeyToPendingSource(k, t)
    BY <1>4
  <2>2. /\ jobs' \in Seq(JobSet) /\ Len(jobs') = Len(jobs)
        /\ \A i \in 1..Len(jobs) : jobs'[i].src = jobs[i].src
        /\ running' = {} <=> running = {}
        /\ \A x : Running(x)' => Running(x)
    BY <2>1, JoinedJobs
  <2>3. \A x : Queued(x) => Queued(x)'
    <3>1. DOMAIN jobs' = 1..Len(jobs)
      BY <2>2
    <3>. QED  BY <1>1, <2>2, <3>1 DEF Queued
  <2>4. \A x : Running(x) => Running(x)'
    <3>1. \A i, j \in running : i = j
      BY DEF QTypeOK
    <3>2. ASSUME NEW x, Running(x)
          PROVE  Running(x)'
      <4>1. PICK j \in running' : Running(j.src)'
        BY <2>2, <3>2 DEF Running
      <4>2. Running(j.src)
        BY <2>2, <4>1
      <4>. QED  BY <3>1, <3>2, <4>1, <4>2 DEF Running
    <3>. QED  BY <3>2
  <2>. QED  BY <1>4, <2>3, <2>4
<1>. QED  BY <1>2, <1>3, <1>4 DEF Add, QueueURI, QueueData, Enqueue, Fail

(* Within one life of the process, and unless a directory cannot be        *)
(* removed, every working directory belongs to a job that waits or runs:   *)
(* none is left behind to swallow later requests for the same picture.     *)
THEOREM WorkdirsAreOwned ==
    ASSUME ~WorkdirFaults
    PROVE  QLive => []WorkdirOwned
<1>1. QInit => WorkdirOwned
  BY DEF QInit, WorkdirOwned
<1>2. ASSUME QTypeOK, WorkdirOwned, [QRun]_qvars
      PROVE  WorkdirOwned'
  <2>1. CASE UNCHANGED <<jobs, workdirs>> /\ \A s : Running(s) => Running(s)'
    BY <1>2, <2>1 DEF WorkdirOwned, Queued
  <2>2. ASSUME NEW k \in Keys, NEW s \in Sources, Add(k, s)
        PROVE  WorkdirOwned'
    BY <1>2, <2>2, AddKeepsSources DEF WorkdirOwned
  <2>3. CASE Take
    <3>1. jobs \in Seq(JobSet) /\ jobs # <<>>
      BY <1>2, <2>3 DEF QTypeOK, JobSet, Take
    <3>2. running = {} /\ workdirs' = workdirs /\ jobs' = Tail(jobs) /\ running' = {Head(jobs)}
      BY <1>2, <2>3 DEF QTypeOK, Take
    <3>3. /\ Len(jobs) \in Nat \ {0} /\ DOMAIN jobs = 1..Len(jobs)
          /\ DOMAIN jobs' = 1..(Len(jobs) - 1)
          /\ \A i \in DOMAIN jobs' : jobs'[i] = jobs[i + 1]
          /\ Head(jobs) = jobs[1]
      BY <3>1, <3>2
    <3>4. \A i \in DOMAIN jobs : i = 1 \/ (i - 1 \in DOMAIN jobs' /\ jobs'[i - 1] = jobs[i])
      BY <3>1, <3>3
    <3>5. \A s : Queued(s) => (Queued(s) \/ Running(s))'
      BY <3>2, <3>3, <3>4 DEF Queued, Running
    <3>. QED  BY <1>2, <3>2, <3>5 DEF WorkdirOwned, Running
  <2>4. CASE Prepare
    BY <1>2, <2>4 DEF WorkdirOwned, Queued, Running, Prepare
  <2>5. CASE MoveFilesToCache
    <3>1. PICK j \in running : \E res : running' = {[src |-> j.src, res |-> res]}
      BY <2>5 DEF MoveFilesToCache
    <3>2. running = {j} /\ Running(j.src)'
      BY <1>2, <3>1 DEF QTypeOK, Running
    <3>. QED  BY <2>1, <2>5, <3>2 DEF MoveFilesToCache, Running
  <2>6. CASE Notify
    <3>1. PICK j \in running : \E res : running' = {[src |-> j.src, res |-> res]}
      BY <2>6 DEF Notify
    <3>2. running = {j} /\ Running(j.src)'
      BY <1>2, <3>1 DEF QTypeOK, Running
    <3>. QED  BY <2>1, <2>6, <3>2 DEF Notify, Running
  <2>7. CASE Release
    <3>1. PICK j \in running : workdirs' = workdirs \ {j.src}
      BY <2>7 DEF Release
    <3>2. running = {j} /\ jobs' = jobs
      BY <1>2, <2>7, <3>1 DEF QTypeOK, Release
    <3>. QED  BY <1>2, <3>1, <3>2 DEF WorkdirOwned, Queued, Running
  <2>8. CASE AddFailed \/ ScriptFails \/ Finalize \/ LookUp \/ Collect \/ UNCHANGED qvars
    BY <2>1, <2>8 DEF AddFailed, ScriptFails, Finalize, LookUp, Collect, qvars, queue, Running
  <2>. QED  BY <1>2, <2>2, <2>3, <2>4, <2>5, <2>6, <2>7, <2>8 DEF QRun, Worker
<1>. QED
  BY <1>1, <1>2, LiveRuns, QueueTypeCorrect, PTL DEF QLive

-----------------------------------------------------------------------------
(* A collection takes a stream key, wholly or in part.                     *)
KeyCollected == \E st \in StreamKeys : RemoveStream(st) \/ StreamRemains(st)

(* The inductive form of AddedKeyLinked.  A job has no results before the  *)
(* pictures are handed over, and a result that will be announced as added  *)
(* is that of a key that has kept its link since.  It needs that no        *)
(* request fails in the manager: that would delete a key under a job.      *)
Untouched(job) == \A k \in DOMAIN job.res : job.res[k] = "SOURCE_UNKNOWN"

ResultsLinked ==
    worker \in {"done", "notify"} =>
        \A j \in running : \A k \in DOMAIN j.res : SignalFor(j.res[k]) = "added" => links[k] # {}

AddedInv ==
    /\ failing = {}
    /\ AddedKeyLinked
    /\ \A i \in DOMAIN jobs : Untouched(jobs[i])
    /\ worker \in {"taken", "script"} => \A j \in running : Untouched(j)
    /\ ResultsLinked

RequestFaults == {"mkdir", "touch", "mkkey", "link"}

(* A key in whose directory link_to_source leaves nothing gets an error.   *)
LEMMA LostLink ==
    ASSUME NEW k \in Keys, NEW s, NEW have, NEW ifAdded, ifAdded # "IO_ERROR",
           NEW e \in LinkToSource(k, s, have, ifAdded)
    PROVE  /\ e.link = {} => e.res = "IO_ERROR"
           /\ s \in have /\ "link" \notin Faults => e.res # "IO_ERROR"
<1>1. CASE links[k] # {} /\ OldLink(k) = s
  BY <1>1 DEF LinkToSource
<1>2. CASE ~(links[k] # {} /\ OldLink(k) = s)
  <2>1. \/ /\ s \in have
           /\ e = [link |-> Dropped(k) \cup {s},
                   res  |-> IF links[k] = {} THEN ifAdded ELSE "REPLACED"]
        \/ /\ s \in have => "link" \in Faults
           /\ e = [link |-> Dropped(k), res |-> "IO_ERROR"]
    BY <1>2 DEF LinkToSource, When
  <2>. QED  BY <2>1
<1>. QED  BY <1>1, <1>2

(* A request that meets no failing call leaves a linked key linked, and    *)
(* links a key that it reports as done.                                    *)
LEMMA RequestLinks ==
    ASSUME Faults \cap RequestFaults = {}, NEW k \in Keys, NEW s \in Sources,
           NEW src \in MkSourceEntry(s), NEW queued \in BOOLEAN, NEW oldPending \in BOOLEAN,
           NEW out \in AddOutcomes(k, s, src, queued, oldPending)
    PROVE  /\ out.res # "IO_ERROR"
           /\ links[k] # {} => out.link # {}
           /\ out.res \in {"NOT_CHANGED", "INSERTED", "REPLACED"} => out.link # {}
<1>1. /\ "link" \notin Faults /\ "mkkey" \notin Faults
      /\ "touch" \notin Faults /\ "mkdir" \notin Faults
  BY DEF RequestFaults
<1>2. src.res # "IO_ERROR" /\ s \in src.refs
  BY <1>1 DEF MkSourceEntry, When
<1>3. ASSUME NEW m, NEW ifAdded, ifAdded # "IO_ERROR",
             out \in {[res |-> e.res, link |-> e.link, made |-> m] :
                        e \in LinkToSource(k, s, src.refs, ifAdded)}
      PROVE  out.res # "IO_ERROR" /\ out.link # {}
  <2>1. PICK e \in LinkToSource(k, s, src.refs, ifAdded) :
          out = [res |-> e.res, link |-> e.link, made |-> m]
    BY <1>3
  <2>2. e.res # "IO_ERROR" /\ e.link # {}
    BY <1>1, <1>2, <1>3, LostLink
  <2>. QED  BY <2>1, <2>2
<1>4. CASE k \notin keys
  BY <1>1, <1>2, <1>3, <1>4 DEF AddOutcomes, When
<1>5. CASE k \in keys
  <2>1. CASE out \in {[res |-> r, link |-> links[k], made |-> "nothing"] :
                        r \in {"SOURCE_UNKNOWN", "SOURCE_PENDING"}}
    BY <2>1
  <2>. QED  BY <1>2, <1>3, <1>5, <2>1 DEF AddOutcomes
<1>. QED  BY <1>4, <1>5

(* A key that joins a job has no result yet.                               *)
LEMMA JoinUntouched ==
    ASSUME QTypeOK, AddedInv, QueueFree, NEW k \in Keys, NEW t, AddKeyToPendingSource(k, t)
    PROVE  /\ \A i \in DOMAIN jobs' : Untouched(jobs'[i])
           /\ worker \in {"taken", "script"} => \A j \in running' : Untouched(j)
           /\ worker \in {"done", "notify"} => running' = running
<1>1. \A j : Untouched(j) => Untouched(AddPendingKey(j, k))
  BY DEF Untouched, AddPendingKey
<1>2. jobs \in Seq(JobSet)
  BY DEF QTypeOK, JobSet
<1>3. CASE Running(t)
  BY <1>1, <1>3 DEF AddKeyToPendingSource, AddedInv, QueueFree
<1>4. CASE ~Running(t)
  <2>1. running' = running /\ jobs' = [jobs EXCEPT ![FirstJob(t)] = AddPendingKey(@, k)]
    BY <1>4 DEF AddKeyToPendingSource
  <2>2. \A i \in DOMAIN jobs' : i \in DOMAIN jobs /\ jobs'[i] \in {jobs[i], AddPendingKey(jobs[i], k)}
    BY <1>2, <2>1
  <2>. QED  BY <1>1, <2>1, <2>2 DEF AddedInv
<1>. QED  BY <1>3, <1>4

(* A request: the other keys, the jobs' results so far and the failures    *)
(* that are due stay as they are.                                          *)
LEMMA AddKeepsAdded ==
    ASSUME Faults \cap RequestFaults = {}, ~WorkdirFaults,
           IInv, QTypeOK, AddedInv, NEW k \in Keys, NEW s \in Sources, Add(k, s)
    PROVE  AddedInv'
<1> DEFINE old == OldLink(k)
           oldPending == links[k] # {} /\ (Running(old) \/ Queued(old))
<1>1. PICK src, out :
        /\ src \in MkSourceEntry(s)
        /\ out \in AddOutcomes(k, s, src, Queued(s), oldPending)
        /\ AddStreamKeyForSource(k, src, out)
        /\ \/ out.res = "SOURCE_UNKNOWN" /\ (QueueURI(k, s) \/ QueueData(k, s))
           \/ /\ out.res = "SOURCE_PENDING"
              /\ AddKeyToPendingSource(k, old)
              /\ Signal(k, "associated")
              /\ UNCHANGED <<failing, workdirs>>
           \/ /\ out.res \in {"NOT_CHANGED", "INSERTED", "REPLACED"}
              /\ Signal(k, "added")
              /\ UNCHANGED <<jobs, running, failing, workdirs>>
           \/ out.res = "IO_ERROR" /\ Fail(k)
  BY DEF Add
<1>2. Queued(s) \in BOOLEAN /\ oldPending \in BOOLEAN
  BY DEF Queued
<1>3. /\ out.res # "IO_ERROR"
      /\ links[k] # {} => out.link # {}
      /\ out.res \in {"NOT_CHANGED", "INSERTED", "REPLACED"} => out.link # {}
  BY <1>1, <1>2, RequestLinks
<1>4. /\ links'[k] = out.link
      /\ \A x \in Keys : x # k => links'[x] = links[x]
  BY <1>1 DEF AddStreamKeyForSource, IInv, TypeOK
<1>5. QueueFree /\ worker' = worker /\ worker # "notify" /\ failing = {}
  BY DEF Add, QueueFree
<1>6. /\ failing' = {}
      /\ \A i \in DOMAIN jobs' : Untouched(jobs'[i])
      /\ worker \in {"taken", "script"} => \A j \in running' : Untouched(j)
      /\ worker \in {"done", "notify"} => running' = running
      /\ \/ Signal(k, "associated")
         \/ Signal(k, "added") /\ out.link # {}
  <2>1. CASE Enqueue(k, s)
    <3>1. jobs \in Seq(JobSet) /\ Job(s, k) \in JobSet /\ jobs' = Append(jobs, Job(s, k))
      BY <2>1, JobTypes DEF QTypeOK, JobSet, Enqueue
    <3>2. /\ Len(jobs) \in Nat
          /\ DOMAIN jobs = 1..Len(jobs) /\ DOMAIN jobs' = 1..(Len(jobs) + 1)
          /\ \A i \in 1..Len(jobs) : jobs'[i] = jobs[i]
          /\ jobs'[Len(jobs) + 1] = Job(s, k)
      BY <3>1
    <3>3. Untouched(Job(s, k))
      BY DEF Untouched, Job
    <3>4. \A i \in DOMAIN jobs' : Untouched(jobs'[i])
      BY <3>2, <3>3 DEF AddedInv
    <3>. QED  BY <2>1, <3>4 DEF Enqueue, AddedInv
  <2>2. CASE UNCHANGED <<jobs, running, failing>> /\ Signal(k, "associated")
    BY <2>2 DEF AddedInv
  <2>3. CASE UNCHANGED <<jobs, running, failing>> /\ Signal(k, "added") /\ out.link # {}
    BY <2>3 DEF AddedInv
  <2>4. CASE AddKeyToPendingSource(k, old) /\ Signal(k, "associated") /\ failing' = failing
    BY <1>5, <2>4, JoinUntouched
  <2>. QED  BY <1>1, <1>3, <2>1, <2>2, <2>3, <2>4 DEF QueueURI, QueueData
<1>7. ASSUME NEW x \in Keys, status'[x] = "added"
      PROVE  links'[x] # {} \/ FailureDue(x)'
  <2>1. CASE x = k
    <3>1. status'[k] = "associated" \/ (status'[k] = "added" /\ out.link # {})
      BY <1>6 DEF Signal, QTypeOK
    <3>. QED  BY <1>4, <1>7, <2>1, <3>1
  <2>2. CASE x # k
    <3>1. status[x] = "added"
      BY <1>6, <1>7, <2>2 DEF Signal, QTypeOK
    <3>2. links[x] # {} \/ FailureDue(x)
      BY <3>1 DEF AddedInv, AddedKeyLinked
    <3>. QED  BY <1>4, <1>5, <1>6, <2>2, <3>2 DEF FailureDue
  <2>. QED  BY <2>1, <2>2
<1>8. ResultsLinked'
  <2>1. \A x \in Keys : links[x] # {} => links'[x] # {}
    BY <1>3, <1>4
  <2>2. \A j \in running : DOMAIN j.res \subseteq Keys
    BY DEF QTypeOK, Results
  <2>. QED  BY <1>5, <1>6, <2>1, <2>2 DEF AddedInv, ResultsLinked
<1>. QED  BY <1>5, <1>6, <1>7, <1>8 DEF AddedInv, AddedKeyLinked

(* Handing over the pictures: a key that loses its link gets an error as   *)
(* its result, and so do the keys that are not reached.                    *)
LEMMA MoveKeepsAdded ==
    ASSUME IInv, QTypeOK, AddedInv, MoveFilesToCache
    PROVE  AddedInv'
<1>1. PICK j \in running : \E import, run :
        /\ run \in Runs(j.src, DOMAIN j.res, import)
        /\ UpdateSource(import, run)
        /\ running' = {[src |-> j.src,
                        res |-> KeyResults(DOMAIN j.res, run, import.res = "UPDATED")]}
  BY DEF MoveFilesToCache
<1>2. PICK import, run :
        /\ run \in Runs(j.src, DOMAIN j.res, import)
        /\ UpdateSource(import, run)
        /\ running' = {[src |-> j.src,
                        res |-> KeyResults(DOMAIN j.res, run, import.res = "UPDATED")]}
  BY <1>1
<1>3. j.src \in Sources /\ DOMAIN j.res \in SUBSET Keys
  BY DEF QTypeOK, Results
<1>4. DOMAIN run \subseteq DOMAIN j.res
  <2>1. CASE import.res = "IO_ERROR"
    BY <1>2, <2>1 DEF Runs
  <2>2. CASE import.res # "IO_ERROR"
    BY <1>2, <2>2 DEF Runs, LinkRuns
  <2>. QED  BY <2>1, <2>2
<1>5. \A k \in DOMAIN run : run[k].link = {} => run[k].res = "IO_ERROR"
  <2>1. \A k \in DOMAIN run : run[k] \in LinkToSource(k, j.src, refs, "INSERTED")
    BY <1>2, <1>3, RunOutcome
  <2>. QED  BY <1>3, <1>4, <2>1, LostLink
<1> DEFINE results == KeyResults(DOMAIN j.res, run, import.res = "UPDATED")
<1>6. /\ DOMAIN results = DOMAIN j.res
      /\ \A k \in DOMAIN j.res : k \notin DOMAIN run => results[k] = "SOURCE_UNKNOWN"
      /\ \A k \in DOMAIN run : run[k].res = "IO_ERROR" => results[k] = "IO_ERROR"
  <2>1. results = [k \in DOMAIN j.res |->
          CASE k \notin DOMAIN run                         -> "SOURCE_UNKNOWN"
            [] k \in DOMAIN run /\ run[k].res = "NOT_CHANGED" /\ import.res = "UPDATED" -> "INSERTED"
            [] OTHER                                       -> run[k].res]
    BY DEF KeyResults
  <2> HIDE DEF results
  <2>. QED  BY <1>4, <2>1
<1> HIDE DEF results
<1>7. /\ running' = {[src |-> j.src, res |-> results]}
      /\ worker = "script" /\ worker' = "done"
      /\ UNCHANGED <<jobs, failing, status>>
      /\ \A k \in Keys : links'[k] = IF k \in DOMAIN run THEN run[k].link ELSE links[k]
  BY <1>2 DEF MoveFilesToCache, UpdateSource, results
<1>8. ASSUME NEW k \in Keys, status'[k] = "added"
      PROVE  links'[k] # {} \/ FailureDue(k)'
  <2>1. links[k] # {}
    BY <1>7, <1>8 DEF AddedInv, AddedKeyLinked, FailureDue
  <2>2. CASE k \in DOMAIN run /\ run[k].link = {}
    <3>1. k \in DOMAIN results /\ SignalFor(results[k]) = "failed"
      BY <1>4, <1>5, <1>6, <2>2 DEF SignalFor
    <3>. QED  BY <1>7, <3>1 DEF FailureDue
  <2>. QED  BY <1>7, <2>1, <2>2
<1>9. ASSUME NEW k \in DOMAIN results, SignalFor(results[k]) = "added"
      PROVE  links'[k] # {}
  <2>1. k \in DOMAIN run
    BY <1>6, <1>9 DEF SignalFor
  <2>2. run[k].res # "IO_ERROR"
    BY <1>6, <1>9, <2>1 DEF SignalFor
  <2>. QED  BY <1>3, <1>5, <1>6, <1>7, <2>1, <2>2
<1>10. ResultsLinked'
  BY <1>7, <1>9 DEF ResultsLinked
<1>. QED  BY <1>7, <1>8, <1>10 DEF AddedInv, AddedKeyLinked

(* A key that is told the outcome: it is linked, or it is deleted.         *)
LEMMA NotifyKeepsAdded ==
    ASSUME IInv, QTypeOK, AddedInv, Notify
    PROVE  AddedInv'
<1>1. PICK j \in running, k \in Keys :
        /\ k \in DOMAIN j.res
        /\ IF SignalFor(j.res[k]) = "failed" THEN DeleteKeyIfAny(k) ELSE UNCHANGED vars
        /\ Signal(k, SignalFor(j.res[k]))
        /\ running' = {[src |-> j.src, res |-> [x \in DOMAIN j.res \ {k} |-> j.res[x]]]}
  BY DEF Notify
<1> DEFINE rest == [x \in DOMAIN j.res \ {k} |-> j.res[x]]
<1>2. DOMAIN rest = DOMAIN j.res \ {k} /\ \A x \in DOMAIN j.res \ {k} : rest[x] = j.res[x]
  OBVIOUS
<1>3. running' = {[src |-> j.src, res |-> rest]}
  BY <1>1
<1> HIDE DEF rest
<1>4. /\ running = {j} /\ DOMAIN j.res \subseteq Keys
      /\ worker = "notify" /\ UNCHANGED <<jobs, worker, failing>>
  BY DEF QTypeOK, Results, Notify
<1>5. /\ \A x \in Keys : x # k => links'[x] = links[x]
      /\ SignalFor(j.res[k]) = "added" => links'[k] = links[k]
  <2>1. CASE SignalFor(j.res[k]) = "failed"
    BY <1>1, <2>1, DeletedKeyGone DEF IInv, TypeOK
  <2>2. CASE SignalFor(j.res[k]) # "failed"
    BY <1>1, <2>2 DEF vars, disk
  <2>. QED  BY <2>1, <2>2
<1>6. /\ status'[k] = SignalFor(j.res[k])
      /\ \A x \in Keys : x # k => status'[x] = status[x]
  BY <1>1 DEF Signal, QTypeOK
<1>7. ASSUME NEW x \in Keys, status'[x] = "added"
      PROVE  links'[x] # {} \/ FailureDue(x)'
  <2>1. CASE x = k
    BY <1>1, <1>4, <1>5, <1>6, <1>7, <2>1 DEF AddedInv, ResultsLinked
  <2>2. CASE x # k
    <3>1. links[x] # {} \/ FailureDue(x)
      BY <1>6, <1>7, <2>2 DEF AddedInv, AddedKeyLinked
    <3>2. FailureDue(x) => FailureDue(x)'
      BY <1>2, <1>3, <1>4, <2>2 DEF FailureDue
    <3>. QED  BY <1>5, <2>2, <3>1, <3>2
  <2>. QED  BY <2>1, <2>2
<1>8. ResultsLinked'
  BY <1>2, <1>3, <1>4, <1>5 DEF AddedInv, ResultsLinked
<1>. QED  BY <1>4, <1>7, <1>8 DEF AddedInv, AddedKeyLinked

(* A collection that takes no stream key leaves the keys' links alone.     *)
LEMMA CollectingKeepsLinks ==
    ASSUME GC, ~KeyCollected
    PROVE  links' = links
<1>1. CASE GCBegin \/ GCCollect \/ GCNextListing \/ GCRoundEnd
  BY <1>1 DEF GCBegin, GCCollect, GCCount, GCNextListing, GCRoundEnd, disk
<1>2. ASSUME NEW x, Keep(x)
      PROVE  links' = links
  BY <1>2 DEF Keep, disk
<1>3. ASSUME NEW st \in StreamKeys, NEW old \in BOOLEAN, GCVisitStream(st, old)
      PROVE  links' = links
  BY <1>2, <1>3 DEF GCVisitStream, KeyCollected
<1>4. ASSUME NEW s \in Sources, NEW old \in BOOLEAN, GCVisitSource(s, old)
      PROVE  links' = links
  BY <1>2, <1>4 DEF GCVisitSource, RemoveSource, SourceRemains
<1>5. ASSUME NEW o \in Objects, NEW old \in BOOLEAN, GCVisitObject(o, old)
      PROVE  links' = links
  BY <1>2, <1>5 DEF GCVisitObject, RemoveObject, ObjectRemains, disk
<1>. QED  BY <1>1, <1>3, <1>4, <1>5 DEF GC

(* The other steps: the job moves on, links and results stay.              *)
LEMMA OthersKeepAdded ==
    ASSUME ~WorkdirFaults, QTypeOK, AddedInv,
           \/ Take \/ Prepare \/ ScriptFails \/ Finalize \/ Release \/ AddFailed
           \/ LookUp \/ (Collect /\ ~KeyCollected) \/ Crash \/ UNCHANGED qvars
    PROVE  AddedInv'
<1> USE DEF AddedInv, AddedKeyLinked
<1>1. CASE Take
  <2>1. jobs \in Seq(JobSet) /\ jobs # <<>> /\ jobs' = Tail(jobs) /\ running' = {Head(jobs)}
    BY <1>1 DEF QTypeOK, JobSet, Take
  <2>2. /\ 1 \in DOMAIN jobs /\ Head(jobs) = jobs[1]
        /\ \A i \in DOMAIN jobs' : i + 1 \in DOMAIN jobs /\ jobs'[i] = jobs[i + 1]
    BY <2>1
  <2>3. /\ \A j \in running' : Untouched(j)
        /\ \A i \in DOMAIN jobs' : Untouched(jobs'[i])
    BY <2>1, <2>2
  <2>4. worker = "idle" /\ worker' = "taken" /\ UNCHANGED <<links, failing, status>>
    BY <1>1 DEF Take, vars, disk
  <2>5. \A k \in Keys : status[k] = "added" => links[k] # {}
    BY <2>4 DEF FailureDue
  <2>. QED  BY <2>3, <2>4, <2>5 DEF ResultsLinked
<1>2. CASE Prepare
  <2>1. worker = "taken" /\ worker' = "script" /\ UNCHANGED <<links, jobs, running, failing, status>>
    BY <1>2 DEF Prepare, vars, disk
  <2>. QED  BY <2>1 DEF ResultsLinked, FailureDue
<1>3. CASE ScriptFails
  <2>1. worker = "script" /\ worker' = "done" /\ UNCHANGED <<links, jobs, running, failing, status>>
    BY <1>3 DEF ScriptFails, vars, disk
  <2>2. \A j \in running : \A k \in DOMAIN j.res : SignalFor(j.res[k]) = "failed"
    BY <2>1 DEF Untouched, SignalFor
  <2>. QED  BY <2>1, <2>2 DEF ResultsLinked, FailureDue
<1>4. CASE Finalize
  <2>1. worker = "done" /\ worker' = "notify" /\ UNCHANGED <<links, jobs, running, failing, status>>
    BY <1>4 DEF Finalize, vars, disk
  <2>. QED  BY <2>1 DEF ResultsLinked, FailureDue
<1>5. CASE Release
  <2>1. /\ worker' = "idle" /\ running' = {} /\ UNCHANGED <<links, jobs, failing, status>>
        /\ \A j \in running : DOMAIN j.res = {}
    BY <1>5 DEF Release, vars, disk, QTypeOK
  <2>2. \A k \in Keys : ~FailureDue(k)
    BY <2>1 DEF FailureDue
  <2>. QED  BY <2>1, <2>2 DEF ResultsLinked
<1>6. CASE AddFailed
  BY <1>6 DEF AddFailed
<1>7. CASE LookUp \/ (Collect /\ ~KeyCollected) \/ UNCHANGED qvars
  <2>1. links' = links /\ UNCHANGED queue
    BY <1>7, CollectingKeepsLinks DEF LookUp, Lookup, Collect, qvars, vars, disk
  <2>. QED  BY <2>1 DEF queue, ResultsLinked, FailureDue
<1>8. CASE Crash
  <2>1. /\ failing' = {} /\ DOMAIN jobs' = {} /\ worker' = "idle"
        /\ \A k \in Keys : status'[k] # "added"
    BY <1>8 DEF Crash
  <2>. QED  BY <2>1 DEF ResultsLinked
<1>. QED  BY <1>1, <1>2, <1>3, <1>4, <1>5, <1>6, <1>7, <1>8

(* A key that was announced as added points to a source, or is about to be *)
(* announced as failed: as long as no directory or link fails to be made   *)
(* and no collection takes the key itself; pictures that cannot be read or *)
(* moved, removals of sources and objects that fail, restarts and          *)
(* collected sources do not matter.                                        *)
THEOREM AddedKeysAreLinked ==
    ASSUME Faults \cap RequestFaults = {}, ~WorkdirFaults
    PROVE  QSpec /\ [][~KeyCollected]_vars => []AddedKeyLinked
<1>1. QInit => AddedInv
  <2>1. QInit => DOMAIN jobs = {}
    BY DEF QInit
  <2>. QED  BY <2>1 DEF QInit, AddedInv, AddedKeyLinked, ResultsLinked
<1>2. ASSUME IInv, QTypeOK, AddedInv, [QNext]_qvars, [~KeyCollected]_vars
      PROVE  AddedInv'
  <2>1. Collect => (Collect /\ ~KeyCollected) \/ UNCHANGED qvars
    BY <1>2 DEF Collect, qvars
  <2>. QED
    BY <1>2, <2>1, AddKeepsAdded, MoveKeepsAdded, NotifyKeepsAdded, OthersKeepAdded
       DEF QNext, QRun, Worker
<1>3. AddedInv => AddedKeyLinked
  BY DEF AddedInv
<1>. QED
  BY <1>1, <1>2, <1>3, QueueImplementsCache, Invariance, QueueTypeCorrect, PTL DEF QSpec
=============================================================================
