--------------------------- MODULE LifecycleProofs ---------------------------
(***************************************************************************)
(* Theorems about Lifecycle, for any number of jobs.                       *)
(***************************************************************************)
EXTENDS Lifecycle, TLAPS

(* There is no thread before Manager::init starts it, and the queue's      *)
(* shutdown has not been requested until main() gets there.                *)
RequestedLate ==
    /\ main = "start" => background = "none"
    /\ main \in {"start", "mkdir", "reset", "count", "dbus", "exported", "loop", "quit"} =>
          ~shutdown_request

(* SHUTDOWN is put into the deque when the manager is destroyed, and       *)
(* nothing else from then on: main() is in no other function of the task.  *)
ShutdownIsLast ==
    /\ main = "push_task" \/ Closed => call = NoCall
    /\ ~Closed => pending \in Seq(Actions)
    /\ main \in {"notify_task", "join_task"} => pending \in {<<>>, <<SHUTDOWN>>}

(* A thread that has passed its test finds a cell to read unless something *)
(* has gone wrong before, and what it has read there is still to be        *)
(* removed, if not the same cell any more.                                 *)
FrontCells ==
    /\ background = "front" => pending # <<>> \/ race # "none"
    /\ background = "pop" => pending # <<>> /\ race # "underrun"

LInv ==
    /\ LTypeOK /\ OnlyShutdownRaces /\ ManagerOutlivesJobs
    /\ RequestedLate /\ ShutdownIsLast /\ FrontCells

USE DEF SHUTDOWN

-----------------------------------------------------------------------------
LEMMA LInvInit == ASSUME LifecycleAssumption, LInit PROVE LInv
<1>1. call \in Calls /\ main \in MainAt
  BY DEF LInit, Calls, MainAt
<1>2. pending \in Seq(Actions) /\ pending \in Seq(Actions \cup {"SHUTDOWN"})
  BY DEF LInit
<1>3. jobs \in 0..MaxJobs
  BY DEF LInit, LifecycleAssumption
<1>4. LTypeOK
  BY <1>1, <1>2, <1>3 DEF LInit, LTypeOK
<1>5. OnlyShutdownRaces /\ ManagerOutlivesJobs /\ RequestedLate /\ FrontCells
  BY DEF LInit, OnlyShutdownRaces, ManagerOutlivesJobs, RequestedLate, FrontCells
<1>6. ShutdownIsLast
  BY <1>2 DEF LInit, ShutdownIsLast, Closed
<1> QED
  BY <1>4, <1>5, <1>6 DEF LInv

LEMMA WorkerInv == ASSUME LifecycleAssumption, LInv, Worker PROVE LInv'
<1> USE DEF LifecycleAssumption, LInv, LTypeOK, OnlyShutdownRaces, Empty, Running,
            ManagerOutlivesJobs, RequestedLate, ShutdownIsLast, FrontCells, Closed, taskVars
<1>1. CASE WorkerTest
  BY <1>1 DEF WorkerTest
<1>2. CASE WorkerSleep
  BY <1>2 DEF WorkerSleep
<1>3. CASE WorkerJob
  BY <1>3 DEF WorkerJob
<1> QED
  BY <1>1, <1>2, <1>3 DEF Worker

LEMMA BackgroundInv == ASSUME LInv, Background PROVE LInv'
<1> USE DEF LInv, LTypeOK, OnlyShutdownRaces, Empty, Running, ManagerOutlivesJobs,
            RequestedLate, ShutdownIsLast, FrontCells, Closed, workerVars
<1>1. CASE BackgroundTop
  BY <1>1 DEF BackgroundTop
<1>2. CASE BackgroundAnnounce
  BY <1>2 DEF BackgroundAnnounce, Calls, NoCall, SyncAsleep
<1>3. CASE BackgroundTest
  BY <1>3 DEF BackgroundTest
<1>4. CASE BackgroundSleep
  BY <1>4 DEF BackgroundSleep
<1>5. CASE BackgroundFront
  <2>1. CASE race = "underrun" \/ pending = <<>>
    BY <1>5, <2>1 DEF BackgroundFront
  <2>2. CASE race # "underrun" /\ pending # <<>>
    <3>1. pending \in Seq(Actions \cup {"SHUTDOWN"})
      OBVIOUS
    <3>2. Head(pending) \in Actions \cup {"SHUTDOWN"}
      BY <2>2, <3>1
    <3> QED
      BY <1>5, <2>2, <3>2 DEF BackgroundFront
  <2> QED
    BY <2>1, <2>2
<1>6. CASE BackgroundPop
  <2>1. pending # <<>>
    BY <1>6 DEF BackgroundPop
  <2>2. pending' \in Seq(Actions \cup {"SHUTDOWN"})
    BY <1>6, <2>1 DEF BackgroundPop
  <2>3. ShutdownIsLast'
    BY <1>6, <2>1 DEF BackgroundPop
  <2> QED
    BY <1>6, <2>1, <2>2, <2>3 DEF BackgroundPop
<1>7. CASE BackgroundAction
  BY <1>7 DEF BackgroundAction
<1>8. CASE BackgroundAstray
  <2>1. main = "push_task" \/ Closed
    BY <1>8 DEF BackgroundAstray
  <2> QED
    BY <1>8, <2>1 DEF BackgroundAstray, MainAt
<1> QED
  BY <1>1, <1>2, <1>3, <1>4, <1>5, <1>6, <1>7, <1>8 DEF Background

LEMMA TaskCallInv == ASSUME LInv, TaskCall PROVE LInv'
<1> USE DEF LInv, LTypeOK, OnlyShutdownRaces, Empty, Running, ManagerOutlivesJobs,
            RequestedLate, ShutdownIsLast, FrontCells, Closed, workerVars, taskVars
<1>1. CASE AppendActionStep
  <2>1. call.action \in Actions
    BY <1>1 DEF AppendActionStep, Calls, NoCall, Notify, Sync, SyncAsleep, AppendAction
  <2>2. call' \in Calls
    BY <1>1 DEF AppendActionStep, Calls
  <2>3. ~TaskLocked /\ UNCHANGED <<main, jobs, shutdown_request, worker, current, background, race>>
    BY <1>1 DEF AppendActionStep
  <2>4. ~Closed /\ main # "push_task"
    BY <1>1 DEF AppendActionStep, NoCall
  <2>5. CASE UNCHANGED pending
    BY <2>2, <2>3, <2>4, <2>5
  <2>6. CASE pending' = Append(pending, call.action)
    BY <1>1, <2>1, <2>2, <2>3, <2>4, <2>6 DEF TaskLocked
  <2> QED
    BY <1>1, <2>5, <2>6 DEF AppendActionStep
<1>2. CASE NotifyStep
  BY <1>2 DEF NotifyStep, WakeBackground, Calls, NoCall, Notify
<1>3. CASE SyncStep
  BY <1>3 DEF SyncStep, Calls, NoCall, Sync
<1> QED
  BY <1>1, <1>2, <1>3 DEF TaskCall

LEMMA MainInv == ASSUME LInv, Main PROVE LInv'
<1> USE DEF LInv, LTypeOK, OnlyShutdownRaces, Empty, Running, ManagerOutlivesJobs,
            RequestedLate, ShutdownIsLast, FrontCells, Closed, workerVars, taskVars,
            Continue, MainAt, Calls, Actions
<1>1. CASE TaskCall
  BY <1>1, TaskCallInv
<1>2. CASE Start
  BY <1>2 DEF Start
<1>3. CASE ManagerInit
  BY <1>3 DEF ManagerInit
<1>4. CASE DBusSetup
  BY <1>4 DEF DBusSetup
<1>5. CASE QueueShutdownRequest
  BY <1>5 DEF QueueShutdownRequest
<1>6. CASE QueueShutdownNotify
  BY <1>6 DEF QueueShutdownNotify, WakeWorker
<1>7. CASE QueueShutdownJoin
  BY <1>7 DEF QueueShutdownJoin
<1>8. CASE TaskShutdownClear
  BY <1>8 DEF TaskShutdownClear
<1>9. CASE TaskShutdownPush
  <2>1. pending' \in {<<>>, <<"SHUTDOWN">>} /\ (pending' = <<>> => race' = "swallowed")
    BY <1>9 DEF TaskShutdownPush
  <2>2. pending' \in Seq(Actions \cup {"SHUTDOWN"})
    <3>1. /\ <<>> \in Seq(Actions \cup {"SHUTDOWN"})
          /\ <<"SHUTDOWN">> \in Seq(Actions \cup {"SHUTDOWN"})
      OBVIOUS
    <3> QED
      BY <2>1, <3>1
  <2>3. LTypeOK' /\ ManagerOutlivesJobs' /\ RequestedLate' /\ ShutdownIsLast'
    BY <1>9, <2>1, <2>2 DEF TaskShutdownPush
  <2>4. OnlyShutdownRaces' /\ FrontCells'
    BY <1>9, <2>1 DEF TaskShutdownPush
  <2> QED
    BY <2>3, <2>4
<1>10. CASE TaskShutdownNotify
  BY <1>10 DEF TaskShutdownNotify, WakeBackground
<1>11. CASE TaskShutdownJoin
  BY <1>11 DEF TaskShutdownJoin
<1> QED
  BY <1>1, <1>2, <1>3, <1>4, <1>5, <1>6, <1>7, <1>8, <1>9, <1>10, <1>11
     DEF Main, Shutdown

LEMMA ClientInv == ASSUME LifecycleAssumption, LInv, Client PROVE LInv'
<1> USE DEF LInv, LTypeOK, OnlyShutdownRaces, Empty, Running, ManagerOutlivesJobs,
            RequestedLate, ShutdownIsLast, FrontCells, Closed, workerVars, taskVars,
            Continue, MainAt, Calls, HandlesRequests
<1>1. CASE QueueJob
  BY <1>1 DEF QueueJob, WakeWorker, LifecycleAssumption
<1>2. CASE QueueAction
  BY <1>2 DEF QueueAction
<1>3. CASE Quit
  BY <1>3 DEF Quit
<1> QED
  BY <1>1, <1>2, <1>3 DEF Client

LEMMA WakeupInv == ASSUME LInv, SpuriousWakeup PROVE LInv'
BY DEF LInv, LTypeOK, OnlyShutdownRaces, Empty, Running, ManagerOutlivesJobs,
       RequestedLate, ShutdownIsLast, FrontCells, Closed, workerVars, taskVars, Calls,
       SpuriousWakeup, WakeWorker, WakeBackground, NoCall, SyncAsleep

LEMMA StutterInv == ASSUME LInv, UNCHANGED lvars PROVE LInv'
BY DEF LInv, LTypeOK, OnlyShutdownRaces, Empty, Running, ManagerOutlivesJobs,
       RequestedLate, ShutdownIsLast, FrontCells, Closed, lvars, workerVars, taskVars, Calls

(* The invariant of the three threads.                                     *)
LEMMA LifecycleInvariance == LSpec => []LInv
<1>1. LInit => LInv
  BY LifecycleAssumption, LInvInit
<1>2. LInv /\ [LNext]_lvars => LInv'
  BY LifecycleAssumption, WorkerInv, BackgroundInv, MainInv, ClientInv, WakeupInv, StutterInv
     DEF LNext
<1> QED
  BY <1>1, <1>2, PTL DEF LSpec

(* As long as the manager lives, the thread removes what it has read, and  *)
(* from no empty deque; whatever clear() and push_back() without the mutex *)
(* do to it afterwards is one of the named races.                          *)
THEOREM RacesAreShutdowns == LSpec => []OnlyShutdownRaces
BY LifecycleInvariance, PTL DEF LInv

(* After SIGINT or SIGTERM, the manager is destroyed only when the worker  *)
(* thread is gone.                                                         *)
THEOREM JobsAreOutlived == LSpec => []ManagerOutlivesJobs
BY LifecycleInvariance, PTL DEF LInv

(* All variables keep to their ranges: the number of jobs is never wrong,  *)
(* and what is read from the deque is an action.                           *)
THEOREM LifecycleTypes == LSpec => []LTypeOK
BY LifecycleInvariance, PTL DEF LInv

-----------------------------------------------------------------------------
(* Whether a thread misses something depends on where the others stand: a  *)
(* worker that is about to sleep holds the mutex that a request and its    *)
(* notification need.                                                      *)
LEMMA WorkerSleeps == ASSUME LInv, NothingSleptThrough, Worker PROVE NothingSleptThrough'
<1> USE DEF LInv, LTypeOK, NothingSleptThrough, OnlyShutdownRaces, Empty, Closed, taskVars
<1>1. CASE WorkerTest
  BY <1>1 DEF WorkerTest
<1>2. CASE WorkerSleep
  BY <1>2 DEF WorkerSleep
<1>3. CASE WorkerJob
  BY <1>3 DEF WorkerJob
<1>. QED  BY <1>1, <1>2, <1>3 DEF Worker

LEMMA BackgroundSleeps == ASSUME LInv, NothingSleptThrough, Background PROVE NothingSleptThrough'
<1> USE DEF LInv, NothingSleptThrough, OnlyShutdownRaces, Empty, Closed, workerVars
<1>1. CASE BackgroundTop
  BY <1>1 DEF BackgroundTop, ShutdownIsLast, NoCall, SyncAsleep
<1>2. CASE BackgroundAnnounce
  BY <1>2 DEF BackgroundAnnounce, Sync, SyncAsleep, Notify
<1>3. CASE BackgroundTest
  BY <1>3 DEF BackgroundTest
<1>4. CASE BackgroundSleep
  BY <1>4 DEF BackgroundSleep
<1>5. CASE BackgroundFront
  BY <1>5 DEF BackgroundFront
<1>6. CASE BackgroundPop
  <2>1. race # "swallowed" => current = Head(pending) /\ pending # <<>>
    BY <1>6 DEF BackgroundPop, FrontCells
  <2>2. main = "push_task" \/ Closed => call # SyncAsleep
    BY DEF ShutdownIsLast, NoCall, SyncAsleep
  <2>3. CASE Closed
    <3>1. race = "none" => current = "SHUTDOWN"
      BY <1>6, <2>1, <2>3 DEF Background, Running, ShutdownIsLast
    <3>. QED  BY <1>6, <2>2, <2>3, <3>1 DEF BackgroundPop
  <2>4. CASE ~Closed /\ main # "push_task"
    <3>1. Head(pending) \in Actions
      BY <2>1, <2>4 DEF ShutdownIsLast
    <3>2. background' = "action"
      BY <1>6, <2>1, <2>4, <3>1 DEF BackgroundPop, Actions
    <3>. QED  BY <1>6, <2>4, <3>2 DEF BackgroundPop
  <2>5. CASE main = "push_task"
    BY <1>6, <2>2, <2>5 DEF BackgroundPop
  <2>. QED  BY <2>3, <2>4, <2>5
<1>7. CASE BackgroundAction
  BY <1>7 DEF BackgroundAction
<1>8. CASE BackgroundAstray
  BY <1>8 DEF BackgroundAstray, ShutdownIsLast, NoCall, SyncAsleep
<1>. QED  BY <1>1, <1>2, <1>3, <1>4, <1>5, <1>6, <1>7, <1>8 DEF Background

LEMMA TaskCallSleeps == ASSUME LInv, NothingSleptThrough, TaskCall PROVE NothingSleptThrough'
<1> USE DEF NothingSleptThrough, OnlyShutdownRaces, Empty, Closed, workerVars, taskVars,
            NoCall, Notify, Sync, SyncAsleep
<1>1. CASE AppendActionStep
  <2>1. ~Closed
    BY <1>1 DEF AppendActionStep, LInv, ShutdownIsLast
  <2>2. CASE call.action \in Range(pending)
    <3>1. pending # <<>>
      BY <2>2 DEF Range
    <3>. QED  BY <1>1, <2>1, <2>2, <3>1 DEF AppendActionStep, TaskLocked
  <2>3. CASE call.action \notin Range(pending)
    BY <1>1, <2>1, <2>3 DEF AppendActionStep, TaskLocked
  <2>. QED  BY <2>2, <2>3
<1>2. CASE NotifyStep
  BY <1>2 DEF NotifyStep, WakeBackground
<1>3. CASE SyncStep
  BY <1>3 DEF SyncStep
<1>. QED  BY <1>1, <1>2, <1>3 DEF TaskCall

LEMMA MainSleeps == ASSUME LInv, NothingSleptThrough, Main PROVE NothingSleptThrough'
<1> USE DEF NothingSleptThrough, OnlyShutdownRaces, Empty, Closed, workerVars, taskVars,
            Continue, NoCall, Notify, Sync, SyncAsleep, AppendAction
<1>1. CASE TaskCall
  BY <1>1, TaskCallSleeps
<1>2. CASE Start
  BY <1>2 DEF Start
<1>3. CASE ManagerInit
  BY <1>3 DEF ManagerInit
<1>4. CASE DBusSetup
  BY <1>4 DEF DBusSetup
<1>5. CASE QueueShutdownRequest
  BY <1>5 DEF QueueShutdownRequest
<1>6. CASE QueueShutdownNotify
  BY <1>6 DEF QueueShutdownNotify, WakeWorker, QueueLocked
<1>7. CASE QueueShutdownJoin
  BY <1>7 DEF QueueShutdownJoin
<1>8. CASE TaskShutdownClear
  BY <1>8 DEF TaskShutdownClear
<1>9. CASE TaskShutdownPush
  BY <1>9 DEF TaskShutdownPush
<1>10. CASE TaskShutdownNotify
  BY <1>10 DEF TaskShutdownNotify, WakeBackground
<1>11. CASE TaskShutdownJoin
  BY <1>11 DEF TaskShutdownJoin
<1>. QED
  BY <1>1, <1>2, <1>3, <1>4, <1>5, <1>6, <1>7, <1>8, <1>9, <1>10, <1>11
     DEF Main, Shutdown

LEMMA ClientSleeps == ASSUME NothingSleptThrough, Client PROVE NothingSleptThrough'
<1> USE DEF NothingSleptThrough, OnlyShutdownRaces, Empty, Closed, workerVars, taskVars,
            Continue, NoCall, Notify, SyncAsleep, AppendAction, HandlesRequests
<1>1. CASE QueueJob
  BY <1>1 DEF QueueJob, WakeWorker, QueueLocked
<1>2. CASE QueueAction
  BY <1>2 DEF QueueAction
<1>3. CASE Quit
  BY <1>3 DEF Quit
<1>. QED  BY <1>1, <1>2, <1>3 DEF Client

LEMMA WakeupSleeps == ASSUME NothingSleptThrough, SpuriousWakeup PROVE NothingSleptThrough'
BY DEF NothingSleptThrough, Empty, SpuriousWakeup, WakeWorker, WakeBackground,
       workerVars, taskVars, Notify, Sync, SyncAsleep

(* Nobody sleeps through a job, an action, a request to shut down or the   *)
(* end of the work it waits for, however the threads' steps interleave: it *)
(* is what makes every waiting loop end, given that the threads run.       *)
THEOREM NoWakeupIsLost == LSpec => []NothingSleptThrough
<1>1. LInit => NothingSleptThrough
  BY DEF LInit, NothingSleptThrough, NoCall, SyncAsleep
<1>2. ASSUME LInv, NothingSleptThrough, [LNext]_lvars
      PROVE  NothingSleptThrough'
  <2>1. CASE UNCHANGED lvars
    BY <1>2, <2>1 DEF NothingSleptThrough, Empty, lvars, workerVars, taskVars
  <2>. QED
    BY <1>2, <2>1, WorkerSleeps, BackgroundSleeps, MainSleeps, ClientSleeps, WakeupSleeps DEF LNext
<1>. QED
  BY <1>1, <1>2, LifecycleInvariance, PTL DEF LSpec

-----------------------------------------------------------------------------
(* Each step of the background thread is a step of the ActionQueue, or     *)
(* none: reading the front takes an action, removing it changes nothing    *)
(* any more, not even if it is SHUTDOWN that is removed; a thread that has *)
(* gone astray closes the queue if it takes the program down with it.      *)
LEMMA BackgroundRefines ==
    ASSUME LInv, Background
    PROVE  [Abstract!Next]_Abstract!vars
<1> USE DEF LInv, LTypeOK, OnlyShutdownRaces, ShutdownIsLast, FrontCells, Todo, Doing, workerVars,
            Abstract!vars
<1>0. UNCHANGED main => UNCHANGED Closed
  BY DEF Closed
<1>1. CASE BackgroundTop
  BY <1>0, <1>1 DEF BackgroundTop
<1>2. CASE BackgroundAnnounce
  BY <1>0, <1>2 DEF BackgroundAnnounce
<1>3. CASE BackgroundTest
  BY <1>0, <1>3 DEF BackgroundTest
<1>4. CASE BackgroundSleep
  BY <1>0, <1>4 DEF BackgroundSleep
<1>5. CASE BackgroundFront
  <2>1. CASE race = "underrun" \/ pending = <<>>
    BY <1>0, <1>5, <2>1 DEF BackgroundFront
  <2>2. CASE race # "underrun" /\ pending # <<>> /\ Closed
    <3>1. pending = <<"SHUTDOWN">>
      BY <2>2 DEF Background, Running, Closed
    <3>2. current' = "SHUTDOWN" /\ background' = "pop" /\ background = "front"
      BY <1>5, <2>2, <3>1 DEF BackgroundFront
    <3>3. UNCHANGED Closed
      BY <1>0, <1>5 DEF BackgroundFront
    <3> QED
      BY <2>2, <3>2, <3>3
  <2>3. CASE race # "underrun" /\ pending # <<>> /\ ~Closed
    <3>1. Todo = pending /\ pending # <<>> /\ Doing = {}
      BY <1>5, <2>3 DEF BackgroundFront
    <3>2. Head(pending) \in Actions
      BY <2>3, <3>1
    <3>3. Todo' = Tail(pending) /\ Doing' = {Head(pending)}
      BY <1>0, <1>5, <2>3, <3>2 DEF BackgroundFront, Actions
    <3>4. Abstract!Take
      BY <1>0, <1>5, <3>1, <3>3 DEF BackgroundFront, Abstract!Take
    <3> QED
      BY <3>4 DEF Abstract!Next
  <2> QED
    BY <2>1, <2>2, <2>3
<1>6. CASE BackgroundPop
  <2>1. UNCHANGED Closed
    BY <1>0, <1>6 DEF BackgroundPop
  <2>2. Todo' = Todo
    BY <1>6, <2>1 DEF BackgroundPop
  <2>3. Doing' = Doing
    BY <1>6 DEF BackgroundPop
  <2> QED
    BY <2>1, <2>2, <2>3
<1>7. CASE BackgroundAction
  <2>1. Todo' = Todo /\ Doing' = {} /\ UNCHANGED Closed
    BY <1>0, <1>7 DEF BackgroundAction
  <2>2. CASE Doing = {}
    BY <2>1, <2>2
  <2>3. CASE Doing # {}
    BY <2>1, <2>3 DEF Abstract!Finish, Abstract!Next
  <2> QED
    BY <2>2, <2>3
<1>8. CASE BackgroundAstray
  <2>1. Doing = {} /\ Doing' = {}
    BY <1>8 DEF BackgroundAstray
  <2>2. CASE UNCHANGED Closed
    <3>1. Todo' = Todo
      BY <1>8, <2>2 DEF BackgroundAstray
    <3> QED
      BY <2>1, <2>2, <3>1
  <2>3. CASE Closed' # Closed
    <3>1. main' = "terminated"
      BY <1>0, <1>8, <2>3 DEF BackgroundAstray
    <3>2. Closed' /\ ~Closed
      BY <2>3, <3>1 DEF Closed
    <3>3. Todo' = <<>>
      BY <3>2
    <3> QED
      BY <2>1, <3>2, <3>3 DEF Abstract!Close, Abstract!Next
  <2> QED
    BY <2>2, <2>3
<1> QED
  BY <1>1, <1>2, <1>3, <1>4, <1>5, <1>6, <1>7, <1>8 DEF Background

(* Of what main() does, append_action submits and ~Manager closes.         *)
LEMMA MainRefines ==
    ASSUME LInv, Main
    PROVE  [Abstract!Next]_Abstract!vars
<1> USE DEF LInv, LTypeOK, Todo, Doing, Closed, workerVars, taskVars, Continue, Abstract!vars
<1>1. CASE AppendActionStep
  <2>1. ~Closed /\ background # "pop"
    BY <1>1 DEF AppendActionStep, ShutdownIsLast, NoCall, TaskLocked
  <2>2. CASE call.action \in Range(pending)
    BY <1>1, <2>2 DEF AppendActionStep
  <2>3. CASE call.action \notin Range(pending)
    <3>1. call.action \in Actions
      BY <1>1 DEF AppendActionStep, Calls, NoCall, Notify, Sync, SyncAsleep, AppendAction
    <3>2. Todo = pending /\ Todo' = Append(pending, call.action)
      BY <1>1, <2>1, <2>3 DEF AppendActionStep
    <3>3. Abstract!Submit(call.action)
      BY <1>1, <2>1, <2>3, <3>2 DEF AppendActionStep, Abstract!Submit, Abstract!Range, Range
    <3> QED
      BY <3>1, <3>3 DEF Abstract!Next
  <2> QED
    BY <2>2, <2>3
<1>2. CASE NotifyStep
  BY <1>2 DEF NotifyStep, WakeBackground
<1>3. CASE SyncStep
  BY <1>3 DEF SyncStep
<1>4. CASE Start
  BY <1>4 DEF Start, RequestedLate
<1>5. CASE ManagerInit
  BY <1>5 DEF ManagerInit
<1>6. CASE DBusSetup
  BY <1>6 DEF DBusSetup
<1>7. CASE QueueShutdownRequest
  BY <1>7 DEF QueueShutdownRequest
<1>8. CASE QueueShutdownNotify
  BY <1>8 DEF QueueShutdownNotify
<1>9. CASE QueueShutdownJoin
  BY <1>9 DEF QueueShutdownJoin
<1>10. CASE TaskShutdownClear
  BY <1>10 DEF TaskShutdownClear
<1>11. CASE TaskShutdownPush
  BY <1>11 DEF TaskShutdownPush, Abstract!Close, Abstract!Next
<1>12. CASE TaskShutdownNotify
  BY <1>12 DEF TaskShutdownNotify, WakeBackground
<1>13. CASE TaskShutdownJoin
  BY <1>13 DEF TaskShutdownJoin
<1> QED
  BY <1>1, <1>2, <1>3, <1>4, <1>5, <1>6, <1>7, <1>8, <1>9, <1>10, <1>11, <1>12, <1>13
     DEF Main, TaskCall, Shutdown

(* The deque, its mutex, its two condition variables and the thread do     *)
(* what an ActionQueue does, until shutdown() has put its request into the *)
(* deque.  Whether that request arrives is not part of it, nor is what a   *)
(* thread does that clear() has sent astray.                               *)
THEOREM TaskIsActionQueue == LSpec => Abstract!Safety
<1>1. LInit => Abstract!Init
  BY DEF LInit, Abstract!Init, Todo, Doing, Closed
<1>2. ASSUME LInv, [LNext]_lvars
      PROVE  [Abstract!Next]_Abstract!vars
  <2> USE DEF Todo, Doing, Closed, Abstract!vars
  <2>1. CASE Client
    <3> USE DEF Continue, HandlesRequests, workerVars, taskVars
    <3>1. CASE QueueJob
      BY <3>1 DEF QueueJob
    <3>2. CASE QueueAction
      BY <3>2 DEF QueueAction
    <3>3. CASE Quit
      BY <3>3 DEF Quit
    <3> QED
      BY <2>1, <3>1, <3>2, <3>3 DEF Client
  <2>2. CASE Worker
    BY <2>2 DEF Worker, WorkerTest, WorkerSleep, WorkerJob, taskVars
  <2>3. CASE SpuriousWakeup
    BY <2>3 DEF SpuriousWakeup, WakeBackground, workerVars, taskVars
  <2>4. CASE UNCHANGED lvars
    BY <2>4 DEF lvars, taskVars
  <2> QED
    BY <1>2, <2>1, <2>2, <2>3, <2>4, BackgroundRefines, MainRefines DEF LNext
<1> QED
  BY <1>1, <1>2, LifecycleInvariance, PTL DEF LSpec, Abstract!Safety
=============================================================================
