------------------------------ MODULE Lifecycle ------------------------------
(***************************************************************************)
(* The life of the program: main() and the two threads it starts and       *)
(* joins, down to their mutexes and condition variables                    *)
(* (src/src/tacaman.cc, src/src/artcache_background.cc, and the thread     *)
(* functions of src/src/converterqueue.cc).  What jobs and actions do is   *)
(* left to the other modules.                                              *)
(*                                                                         *)
(* A thread holds a mutex across steps in few places only, which tell who  *)
(* owns it.  A thread that is "asleep" in a condition variable wakes up    *)
(* when notified, or without a reason, as the standard allows.             *)
(***************************************************************************)
EXTENDS Naturals, Sequences, Functions

CONSTANT MaxJobs    \* bound: no job is added while so many wait

ASSUME LifecycleAssumption == MaxJobs \in Nat \ {0}

Actions == {"GC", "RESET_TIMESTAMPS"}
SHUTDOWN == "SHUTDOWN"

VARIABLES
    main,               \* where main() stands
    call,               \* the BackgroundTask function main() is in
    jobs,               \* how many jobs are in Queue::jobs_
    shutdown_request,   \* Queue::shutdown_request_
    worker,             \* where Queue::worker_main stands
    pending,            \* BackgroundTask::pending_actions_
    current,            \* current_action of task_main
    background,         \* where task_main stands
    race                \* what the unlocked accesses of shutdown() have met

workerVars == <<jobs, shutdown_request, worker>>
taskVars == <<pending, current, background, race>>
lvars == <<main, call, workerVars, taskVars>>

NoCall == [name |-> "none"]
AppendAction(a) == [name |-> "append_action", action |-> a]
Notify == [name |-> "notify"]
Sync == [name |-> "sync"]
SyncAsleep == [name |-> "asleep"]
Calls == {NoCall, Notify, Sync, SyncAsleep} \cup {AppendAction(a) : a \in Actions}

(* Between two steps, the queue's mutex is held by a worker that has found *)
(* nothing to do; the task's by a background thread that has found nothing *)
(* to do or takes an action off the deque.                                 *)
QueueLocked == worker = "nothing"
TaskLocked == background \in {"nothing", "front", "pop"}

Running == main \notin {"ended", "terminated"}

(* pending_actions_.empty().  Between the unlocked clear() and push_back() *)
(* of shutdown(), no element is left, but the cells, and with them the     *)
(* variable pending, still hold what they held.  A pop_front() in between  *)
(* moves the front past the end: from then on, a deque with less than no   *)
(* element does not look empty.                                            *)
Empty == race # "underrun" /\ (pending = <<>> \/ main = "push_task")

-----------------------------------------------------------------------------
(* Queue::worker_main.                                                     *)
WakeWorker == worker' = IF worker = "asleep" THEN "lock" ELSE worker

\* Mutant: the worker takes any wake-up for work.
WorkerTestAwake ==
    /\ worker = "lock"
    /\ worker' = IF shutdown_request THEN "gone" ELSE "job"
    /\ jobs' = IF worker' = "job" THEN jobs - 1 ELSE jobs
    /\ UNCHANGED <<main, call, shutdown_request, taskVars>>

WorkerTest ==
    /\ worker = "lock"
    /\ worker' = CASE shutdown_request -> "gone"
                   [] jobs > 0         -> "job"
                   [] OTHER            -> "nothing"
    /\ jobs' = IF worker' = "job" THEN jobs - 1 ELSE jobs
    /\ UNCHANGED <<main, call, shutdown_request, taskVars>>

WorkerSleep ==
    /\ worker = "nothing"
    /\ worker' = "asleep"
    /\ UNCHANGED <<main, call, jobs, shutdown_request, taskVars>>

(* Job::execute and Job::finalize.                                         *)
WorkerJob ==
    /\ worker = "job"
    /\ worker' = "lock"
    /\ UNCHANGED <<main, call, jobs, shutdown_request, taskVars>>

Worker == Running /\ (WorkerTest \/ WorkerSleep \/ WorkerJob)

-----------------------------------------------------------------------------
(* BackgroundTask::task_main.                                              *)
WakeBackground == background' = IF background = "asleep" THEN "relock" ELSE background

\* Mutant: nobody is told that there is nothing left to do.
BackgroundTopQuiet ==
    /\ background = "top"
    /\ background' = IF Empty THEN "relock" ELSE "front"
    /\ UNCHANGED <<main, call, workerVars, pending, current, race>>

BackgroundTop ==
    /\ background = "top"
    /\ background' = IF Empty THEN "announce" ELSE "front"
    /\ UNCHANGED <<main, call, workerVars, pending, current, race>>

(* all_work_done_.notify_all()                                             *)
BackgroundAnnounce ==
    /\ background = "announce"
    /\ background' = "relock"
    /\ call' = IF call = SyncAsleep THEN Sync ELSE call
    /\ UNCHANGED <<main, workerVars, pending, current, race>>

\* Mutant: the thread takes any wake-up for work.
BackgroundTestAwake ==
    /\ background = "relock"
    /\ background' = "front"
    /\ UNCHANGED <<main, call, workerVars, pending, current, race>>

BackgroundTest ==
    /\ background = "relock"
    /\ background' = IF Empty THEN "nothing" ELSE "front"
    /\ UNCHANGED <<main, call, workerVars, pending, current, race>>

BackgroundSleep ==
    /\ background = "nothing"
    /\ background' = "asleep"
    /\ UNCHANGED <<main, call, workerVars, pending, current, race>>

(* front() reads the first cell, also when the deque has been emptied      *)
(* since the test.  A thread that has passed the test of an under-run      *)
(* deque reads beyond.                                                     *)
BackgroundFront ==
    /\ background = "front"
    /\ IF race = "underrun" \/ pending = <<>>
         THEN background' = "astray" /\ UNCHANGED current
         ELSE background' = "pop" /\ current' = Head(pending)
    /\ UNCHANGED <<main, call, workerVars, pending, race>>

BackgroundPop ==
    /\ background = "pop"
    /\ pending' = Tail(pending)
    /\ background' = IF current = SHUTDOWN THEN "gone" ELSE "action"
    /\ race' = IF Empty THEN "underrun" ELSE race
    /\ UNCHANGED <<main, call, workerVars, current>>

(* The thread goes from cell to cell and does what they happen to say,     *)
(* until one says SHUTDOWN or it runs over the end of the memory.          *)
BackgroundAstray ==
    /\ background = "astray"
    /\ \/ background' = "gone" /\ UNCHANGED main
       \/ main' = "terminated" /\ UNCHANGED background
    /\ UNCHANGED <<call, workerVars, pending, current, race>>

BackgroundAction ==
    /\ background = "action"
    /\ background' = "top"
    /\ UNCHANGED <<main, call, workerVars, pending, current, race>>

Background ==
    Running /\ (\/ BackgroundTop \/ BackgroundAnnounce \/ BackgroundTest \/ BackgroundSleep
                \/ BackgroundFront \/ BackgroundPop \/ BackgroundAction \/ BackgroundAstray)

-----------------------------------------------------------------------------
(* BackgroundTask's functions as main() calls them: append_action, its     *)
(* notification after the mutex is unlocked, and sync.                     *)
\* Mutant: an action that waits already is queued again.
AppendActionAgain ==
    /\ call.name = "append_action"
    /\ ~TaskLocked
    /\ call' = Notify
    /\ pending' = Append(pending, call.action)
    /\ UNCHANGED <<main, workerVars, current, background, race>>

\* Mutant: the action is queued without the mutex.
AppendActionUnlocked ==
    /\ call.name = "append_action"
    /\ IF call.action \in Range(pending)
         THEN call' = NoCall /\ UNCHANGED pending
         ELSE call' = Notify /\ pending' = Append(pending, call.action)
    /\ UNCHANGED <<main, workerVars, current, background, race>>

AppendActionStep ==
    /\ call.name = "append_action"
    /\ ~TaskLocked
    /\ IF call.action \in Range(pending)
         THEN call' = NoCall /\ UNCHANGED pending
         ELSE call' = Notify /\ pending' = Append(pending, call.action)
    /\ UNCHANGED <<main, workerVars, current, background, race>>

NotifyStep ==
    /\ call = Notify
    /\ call' = NoCall
    /\ WakeBackground
    /\ UNCHANGED <<main, workerVars, pending, current, race>>

SyncStep ==
    /\ call = Sync
    /\ ~TaskLocked
    /\ call' = IF pending = <<>> THEN NoCall ELSE SyncAsleep
    /\ UNCHANGED <<main, workerVars, taskVars>>

TaskCall == AppendActionStep \/ NotifyStep \/ SyncStep

(* main() goes on to m, and begins the call c.                             *)
Continue(m, c) == call = NoCall /\ main' = m /\ call' = c

-----------------------------------------------------------------------------
(* Queue::init, and BackgroundTask::start by Manager::init.                *)
Start ==
    /\ main = "start"
    /\ Continue("mkdir", NoCall)
    /\ worker' = "lock"
    /\ background' = "top"
    /\ UNCHANGED <<jobs, shutdown_request, pending, current, race>>

(* The rest of Manager::init: main() returns if the directories cannot be  *)
(* made; timestamps are reset if there were no objects; it may turn out    *)
(* that there is too much in the cache.                                    *)
ManagerInit ==
    /\ \/ main = "mkdir" /\ Continue("exit", NoCall)
       \/ main = "mkdir" /\ Continue("count", NoCall)
       \/ main = "mkdir" /\ Continue("reset", AppendAction("RESET_TIMESTAMPS"))
       \/ main = "reset" /\ Continue("count", Sync)
       \/ main = "count" /\ Continue("dbus", NoCall)
       \/ main = "count" /\ Continue("dbus", AppendAction("GC"))
    /\ UNCHANGED <<workerVars, taskVars>>

(* dbus_setup: the interfaces are exported in bus_acquired, if there is a  *)
(* bus, and it returns after name_acquired or name_lost; main() returns in *)
(* the second case.                                                        *)
DBusSetup ==
    /\ \/ main = "dbus" /\ Continue("exported", NoCall)
       \/ main = "exported" /\ Continue("loop", NoCall)
       \/ main \in {"dbus", "exported"} /\ Continue("exit", NoCall)
    /\ UNCHANGED <<workerVars, taskVars>>

(* Requests, handled by the main loop, or by dbus_setup while it waits: a  *)
(* job is queued, the cache exceeds a limit, the hot path clock has        *)
(* overflown.                                                              *)
HandlesRequests == main \in {"exported", "loop"} /\ call = NoCall

QueueJob ==
    /\ HandlesRequests
    /\ ~QueueLocked
    /\ jobs < MaxJobs
    /\ jobs' = jobs + 1
    /\ WakeWorker
    /\ UNCHANGED <<main, call, shutdown_request, taskVars>>

QueueAction ==
    /\ HandlesRequests
    /\ \E a \in Actions : Continue(main, AppendAction(a))
    /\ UNCHANGED <<workerVars, taskVars>>

(* SIGINT or SIGTERM: the loop returns.                                    *)
Quit ==
    /\ main = "loop"
    /\ Continue("quit", NoCall)
    /\ UNCHANGED <<workerVars, taskVars>>

(* Queue::shutdown: the request is made without the mutex, which is taken  *)
(* to notify the worker.                                                   *)
QueueShutdownRequest ==
    /\ main = "quit"
    /\ Continue("notify_worker", NoCall)
    /\ shutdown_request' = TRUE
    /\ UNCHANGED <<jobs, worker, taskVars>>

\* Mutant: the worker is notified without the mutex.
QueueShutdownNotifyUnlocked ==
    /\ main = "notify_worker"
    /\ Continue("join_worker", NoCall)
    /\ WakeWorker
    /\ UNCHANGED <<jobs, shutdown_request, taskVars>>

QueueShutdownNotify ==
    /\ main = "notify_worker"
    /\ ~QueueLocked
    /\ Continue("join_worker", NoCall)
    /\ WakeWorker
    /\ UNCHANGED <<jobs, shutdown_request, taskVars>>

\* Mutant: the worker is left alone.
QueueShutdownDetach ==
    /\ main = "join_worker"
    /\ Continue("exit", NoCall)
    /\ UNCHANGED <<workerVars, taskVars>>

QueueShutdownJoin ==
    /\ main = "join_worker"
    /\ worker = "gone"
    /\ Continue("exit", NoCall)
    /\ UNCHANGED <<workerVars, taskVars>>

(* ~Manager: BackgroundTask::shutdown(true) clears the deque, puts its     *)
(* request there and notifies the thread, all without the mutex.           *)
TaskShutdownClear ==
    /\ main = "exit"
    /\ Continue("push_task", NoCall)
    /\ UNCHANGED <<workerVars, taskVars>>

(* The request is lost if it only makes up for the element that an         *)
(* under-run deque lacks, or if it comes between front() and pop_front().  *)
TaskShutdownPush ==
    /\ main = "push_task"
    /\ Continue("notify_task", NoCall)
    /\ pending' = IF race = "underrun" THEN <<>> ELSE <<SHUTDOWN>>
    /\ race' = IF race = "underrun" \/ background = "pop" THEN "swallowed" ELSE race
    /\ UNCHANGED <<workerVars, current, background>>

\* Mutant: the thread is not notified.
TaskShutdownQuiet ==
    /\ main = "notify_task"
    /\ Continue("join_task", NoCall)
    /\ UNCHANGED <<workerVars, taskVars>>

TaskShutdownNotify ==
    /\ main = "notify_task"
    /\ Continue("join_task", NoCall)
    /\ WakeBackground
    /\ race' = IF background = "nothing" THEN "missed" ELSE race
    /\ UNCHANGED <<workerVars, pending, current>>

(* The process ends; if the worker was not joined, ~thread terminates it.  *)
TaskShutdownJoin ==
    /\ main = "join_task"
    /\ background = "gone"
    /\ Continue(IF shutdown_request THEN "ended" ELSE "terminated", NoCall)
    /\ UNCHANGED <<workerVars, taskVars>>

Shutdown ==
    \/ QueueShutdownRequest \/ QueueShutdownNotify \/ QueueShutdownJoin
    \/ TaskShutdownClear \/ TaskShutdownPush \/ TaskShutdownNotify \/ TaskShutdownJoin

Main == TaskCall \/ Start \/ ManagerInit \/ DBusSetup \/ Shutdown

Client == QueueJob \/ QueueAction \/ Quit

SpuriousWakeup ==
    /\ Running
    /\ \/ WakeWorker /\ UNCHANGED <<main, call, jobs, shutdown_request, taskVars>>
       \/ WakeBackground /\ UNCHANGED <<main, call, workerVars, pending, current, race>>
       \/ /\ call = SyncAsleep
          /\ call' = Sync
          /\ UNCHANGED <<main, workerVars, taskVars>>

LInit ==
    /\ main = "start" /\ call = NoCall
    /\ jobs = 0 /\ shutdown_request = FALSE /\ worker = "none"
    /\ pending = <<>> /\ current = "none" /\ background = "none" /\ race = "none"

LNext == Main \/ Client \/ Worker \/ Background \/ SpuriousWakeup

(* The threads run, jobs and actions end, and main() gets a mutex that     *)
(* comes free again and again.  Nobody has to send a request or a signal.  *)
LSpec == LInit /\ [][LNext]_lvars /\ SF_lvars(Main) /\ WF_lvars(Worker) /\ WF_lvars(Background)

-----------------------------------------------------------------------------
MainAt == {"start", "mkdir", "reset", "count", "dbus", "exported", "loop", "quit",
           "notify_worker", "join_worker", "exit", "push_task", "notify_task", "join_task",
           "ended", "terminated"}

(* BackgroundTask::shutdown has put its request into the deque.            *)
Closed == main \in {"notify_task", "join_task", "ended", "terminated"}

LTypeOK ==
    /\ main \in MainAt
    /\ call \in Calls
    /\ jobs \in 0..MaxJobs
    /\ shutdown_request \in BOOLEAN
    /\ worker \in {"none", "lock", "nothing", "asleep", "job", "gone"}
    /\ pending \in Seq(Actions \cup {SHUTDOWN})
    /\ current \in Actions \cup {SHUTDOWN, "none"}
    /\ background \in {"none", "top", "announce", "relock", "nothing", "asleep",
                       "front", "pop", "action", "astray", "gone"}
    /\ race \in {"none", "underrun", "swallowed", "missed"}

(* Only shutdown(true) takes the deque from under the thread that has      *)
(* found something in it: before that, what front() has read is what       *)
(* pop_front() removes, and the deque is never used beyond its end.  From  *)
(* the write on, the thread may remove from an empty deque, or remove what *)
(* it has not read, or go astray; whichever it is has left its name in     *)
(* race, and there is none if the write has met no thread in between.      *)
OnlyShutdownRaces ==
    /\ race # "none" => main = "push_task" \/ Closed
    /\ race = "underrun" => main = "push_task" \/ ~Running
    /\ background \in {"front", "pop"} /\ Empty => main = "push_task" \/ race = "swallowed"
    /\ background = "pop" => current = Head(pending) \/ race = "swallowed"
    /\ background = "astray" => race # "none"

(* After a signal, no job runs while the cache manager that it calls is    *)
(* being destroyed.  (One may if the name on the bus is not got after a    *)
(* request was handled already: main() does not shut the queue down then.) *)
ManagerOutlivesJobs ==
    shutdown_request /\ main \in {"exit", "push_task", "notify_task", "join_task", "ended"} =>
        worker = "gone"

(* No wake-up is lost.  A thread goes to sleep, or sleeps, only while what *)
(* it waits for has not come, or is just about to be announced to it; the  *)
(* unlocked accesses of shutdown() are the exception.                      *)
NothingSleptThrough ==
    /\ worker \in {"nothing", "asleep"} =>
          jobs = 0 /\ (shutdown_request => main = "notify_worker")
    /\ background \in {"nothing", "asleep"} =>
          \/ Empty \/ main = "notify_task" \/ race # "none"
          \/ background = "asleep" /\ call = Notify
    /\ call = SyncAsleep => pending # <<>> \/ background \in {"action", "top", "announce"}
    /\ main \in {"notify_task", "join_task"} =>
          pending # <<>> \/ background = "gone" \/ race # "none"

(* From outside, the deque and its thread are an ActionQueue: what is      *)
(* queued is done, in order and once, until shutdown() has put its request *)
(* into the deque.  An action that is still read between clear() and       *)
(* push_back() counts as done; what a thread does that has gone astray     *)
(* does not count.                                                         *)
Todo == IF Closed THEN <<>> ELSE IF background = "pop" THEN Tail(pending) ELSE pending
Doing == IF background \in {"pop", "action"} /\ current # SHUTDOWN THEN {current} ELSE {}

Abstract == INSTANCE ActionQueue WITH todo <- Todo, doing <- Doing, closed <- Closed

ImplementsActionQueue == Abstract!Spec

(* BackgroundTask::sync returns, whatever else is being queued.            *)
SyncReturns == (call.name \in {"sync", "asleep"}) ~> (call = NoCall)

(* A signal ends the worker thread, whatever job it was in or was about to *)
(* wait for.                                                               *)
WorkerStops == (main = "quit") ~> (worker = "gone")

(* Destroying the manager ends the background thread and with it the       *)
(* program, unless one of the unlocked accesses has hit the thread: the    *)
(* notification between its test and its sleep, push_back() between        *)
(* front() and pop_front(), or clear() between its test and pop_front().   *)
ProgramEnds == (main = "exit") ~> (~Running \/ race # "none")
=============================================================================
