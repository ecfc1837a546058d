# TACAMan in TLA+

TACAMan keeps a cache of cover art for a streaming player. Clients announce
pictures over D-Bus, either as a URI or as raw picture data, under a *stream key*
and a *priority*; a worker thread downloads and converts them; clients look them up
later. This directory holds TLA+ models of that program, TLC configurations that
check them on small instances, and TLAPS proofs for all instances.

Paths below are those of the repository (`src/artcache.cc` and so on); the
`sources` in `PROJECT.json` have another `src/` in front.

## Inventory

Three threads exist: the *main* thread runs the GLib loop and every D-Bus handler,
the *worker* (`Converter::Queue::worker_main`) runs conversion jobs one at a time,
and the *background* thread (`ArtCache::BackgroundTask::task_main`) collects garbage
and resets timestamps.

| Component | State | Operations | Correct if |
|---|---|---|---|
| Cache manager, `artcache.cc/.hh` | Directory tree: `<key>/<prio>/src:<hash>`, `.src/<hash>/.ref` and `<format>:<hash>`, `.obj/<hash>`; all pointers are hard links. Counters of streams, sources, objects. | `init`, `reset`, `add_stream_key_for_source`, `update_source`, `delete_key`, `lookup`, `do_gc`, `do_reset_all_timestamps` | no pointer dangles; one source per key and priority; a picture in use is never collected; the counters are what a scan would find |
| Converter queue and jobs, `converterqueue.cc`, `converterjob.cc` | Deque of jobs, the running job, pending keys in each, working directories in `<cache>/.tmp` | `add_to_cache_by_uri`, `add_to_cache_by_data`, `worker_main`, `Job::execute`, `Job::finalize`, `shutdown` | every key in a job is reported; what is reported is true; no two jobs write to one directory |
| Background task, `artcache_background.cc` | Deque of two kinds of action, mutex, two condition variables | `gc`, `reset_all_timestamps`, `sync`, `shutdown` | no action is lost, `sync` and `shutdown` return |
| Hot path timestamps, in `artcache.cc/.hh` | A clock of microseconds, stored as the *access time* of the object directory; access times of stream keys, `.ref` files and objects | `increment`, `reset`, `mark_hot_path`, `compute_threshold` | stamps tell the order of use; what was used last is collected last; the clock's overflow is noticed |
| D-Bus handlers, `dbus_handlers.cc` | none | call queue or manager, emit signals | every call returns; an error is reported |
| Cache paths, `cachepath.cc` | none | build and split path names | tested by `tests/test_cachepath.cc` |
| Start and end, `tacaman.cc` | none | set up and tear down queue, manager and bus, in order | the program ends, and nothing is destroyed that a thread still uses |
| D-Bus connection, `dbus_iface.c`; formats, `formats.cc` | none | set-up | |

How they interact:

* A handler calls `Queue::add_to_cache_by_*`, which holds the queue's lock while it
  calls `Manager::add_stream_key_for_source`. The manager holds its own lock while it
  calls *back* into the queue (`PendingIface`) to ask whether a source is pending,
  or to add the key to a job.
* The worker takes a job, runs the conversion script without any lock, calls
  `Manager::update_source` with the job locked, then locks the queue again to emit
  one signal per pending key; for a failed key it calls `Manager::delete_key` first.
* The manager queues a collection for the background thread when a counter exceeds
  its limit. The collector locks the manager for one file at a time and lists
  directories without any lock.
* Nothing but the directory tree survives the process; that includes the working
  directories, which nobody cleans at start.

What is hard: the manager is entered from three threads, with decisions taken
on the answers of a queue that excludes its running job; a request spans several
critical sections; a job's results are computed in one section and announced in
a later one; the collector works on stale listings; every file system call may
fail half way; the process may die anywhere. There are no tests of any of it.
The hazards are listed line by line in `PROJECT.json`.

## Modules

| Module | Content |
|---|---|
| `ArtCache` | The manager: tree, counters, collector; the queue may give *any* answer, and any file may be old. |
| `Timestamp` | Pure arithmetic: the hot path clock, differences, sums, thresholds. |
| `Collector` | Extends `ArtCache` and `Timestamp`: which files are old, by their access times. |
| `ConverterQueue` | Extends `ArtCache` by queue, worker, jobs, working directories and signals; gives the real answers. |
| `Requests` | Abstract: what a client who adds keys is promised. |
| `Lifecycle` | `main()`, the worker and the background thread, from start to end, with their mutexes and condition variables. |
| `ActionQueue` | Abstract: what the program expects of the background task. |
| `LockOrder` | The nesting of the four mutexes. |
| `...Proofs` | Theorems about `ArtCache`, `Timestamp`, `Collector`, `ConverterQueue`, `Lifecycle`, `LockOrder`. |
| `MC...` | Symmetry and small instances for TLC. |

Refinements. The safety of each is proved, and all but `Collector`'s are checked by TLC:

    ConverterQueue  --identity-->                  ArtCache
    Collector       --identity-->                  ArtCache
    ConverterQueue  --open, last-->                Requests
    Lifecycle       --todo, doing, closed-->       ActionQueue

`ArtCache` is thus the abstract specification of what the queue, and what a choice by
age, may do to the cache: whatever is proved of it holds of both. `Collector` and
`ConverterQueue` are not composed: the one has any queue, the other any choice by age.

### ArtCache

One action is one critical section of `Manager::lock_`.

| Code | Model |
|---|---|
| `<key>/`, `<key>/<prio>/`, `src:<hash>` in it | `streams`, `keys`, `links[k]` |
| `.src/<hash>/`, `.ref` in it, `<format>:<hash>` in it | `dirs`, `refs`, `outs[s]` |
| `.obj/<hash>` | `pool` |
| `statistics_` | `nkeys`, `nsrcs`, `nobjs`, `changed` |
| link count of a file | derived: `Referenced`, `ObjectReferenced` |
| `add_stream_key_for_source` | `MkSourceEntry`, `LinkToSource`, `AddOutcomes` compute what may happen, `AddStreamKeyForSource` does it |
| `update_source` | `Import` and `LinkRuns` compute, `UpdateSource` does |
| `delete_key`, `delete_source` | `DeleteKey`, `DeleteSource` |
| `do_gc`, `decimate`, `decimate_entry` | `GCBegin` (the action is taken off the task's deque), `GCCount`, `GCVisit...`, `GCNextListing`, `GCRoundEnd` |
| `lookup` | `Lookup`: what it leaves behind in the counters; its result is in `ConverterQueue`, its stamps in `Collector` |
| `init`, after the end or death of a process | `Restart` |

Choices made, and why:

* `Faults` names the calls that may fail. "Disk full" and other I/O errors are one
  error: no caller treats them differently but for the code it reports.
* There is one output format (`formats.cc` has a constant list of formats).
* Age is left open: any stream, and any entry that nothing links to, may be old
  enough to be removed or not. `Collector` says which.
* A directory is listed at once when its phase begins. An entry made during the
  traversal is left to the next round, as if `readdir` had not returned it.
* `link_pending_keys_to_source` stops at the first result it does not expect, also
  at `INSERTED`, which it takes for unreachable. In the model the keys after it keep
  `SOURCE_UNKNOWN`, and which keys come first is open. Pending keys are a set: a
  vector with a key twice would signal it twice.
* Counters wrap at `SizeMax` as `size_t` does; the assertion before the decrement
  only logs.
* A restart happens between two critical sections. Half-done entries (a source
  directory without `.ref`, a stream key without priority, a key without link)
  arise from `Faults` and survive it.
* `"rm"` in `Faults`: the collector's `rm -r` fails or ends half way
  (`StreamRemains`, `SourceRemains`, `ObjectRemains`). The code ignores its result, so
  what remains is counted as removed. Without this fault `rm -r` is complete. The
  removals of `reset` and `delete_key` always succeed.
* Hashes of URIs and of data are distinct.

### Timestamp and Collector

`Timestamp` has the arithmetic as operators: `Increment` (`Timestamp::increment`),
`Delta` (`delta_us`), `AddToTime` (`add_to_timespec`), `Threshold`
(`compute_threshold`). `UsecPerSec`, `SecMax` and `FracMax` are the widths: a million,
and the greatest value of `long` twice. Sums of seconds wrap as the machine's do,
since minimum and maximum of a scan start from the type's extreme values, which then
enter the arithmetic. A difference of more than 292 years would overflow the code's
64-bit nanoseconds and is not modelled.

| Code | Model |
|---|---|
| access times | `atime`, `rootTime` (object directory) |
| `timestamp_for_hot_path_` | `clock`, which after a restart begins at `rootTime` |
| `mark_hot_path`: object directory, object, stream key, `.ref` | `Stamp`, up to its n-th call; `Look` is the whole, `LookCut` a kill in between |
| `Action::RESET_TIMESTAMPS`, `do_reset_all_timestamps` | `resetQueued`, `ResetAll`; `ResetCut` is a kill amid it |
| `MinMax` objects, thresholds and locals of `do_gc` | `scan`, `round` |
| first pass of `do_gc` and its repetition | `CountStreams`, `CountSources`, `CountObjects` |
| `decimate` | `Decimate`, `Decimated` |

A file without a stamp of its own shows the time of day (`day`): a stream key's
directory and an object are made that way, a `.ref` is stamped with the clock as it
stands. A request for a key that exists stamps nothing. The file system is assumed not to
change access times on reading.

History variables say what the properties are about. `recent` is the order of
lookups, `touched` the stream keys looked up since the limits were computed. `inOrder`
ends when the clock runs out, or a reset is cut off by a kill (nobody begins it
again), and comes back with a reset. `setBack` names the kinds of files of which a lookup
amid a collection has given one an *earlier* stamp than it had: with a clock that has run
out or has been reset half way, or for a new key or picture which still shows the time of
day. In these cases the hottest one does become the coldest; the properties exclude them
by name and hold in all others.

### ConverterQueue

One action is what one thread does between two points at which another can get in.
`failing` and `worker = "notify"` say that the queue's lock is held across several of
them.

| Code | Model |
|---|---|
| `jobs_`, `running_job_` | `jobs`, `running` |
| where `worker_main` and `Job::execute` stand | `worker` |
| directories in `temp_dir_` | `workdirs` |
| last signal for a key | `status` ("added" with either flag is one value) |
| `add_to_cache_by_uri`, `add_to_cache_by_data` | `Add`; `AddFailed` is its error path, which enters the manager a second time |
| `worker_main`: pop, `Job::execute`, `Job::finalize` | `Take`; `Prepare`, `ScriptFails`, `MoveFilesToCache`; `Finalize`, `Notify`, `Release` |
| `GetScaledImageData` on D-Bus | `HighestPriority` (the key looked at), `LookupResult`, `Reply`; `LookUp` is the step |
| end or death of the process, and its next start | `Crash` |

`MaxJobs` bounds the number of waiting jobs; the code has no bound. An orderly
shutdown ends the worker after its job; what it leaves behind is what `Crash`
leaves, and how it comes about is in `Lifecycle`.

`Requests` has two variables: the keys that wait for a conversion, and the last signal
for each. A key starts to wait, is answered at once, or is answered by a job; only the
end of the process makes it forgotten. `ConverterQueue` implements it with
`open <- {k : Pending(k)}`, the keys in any job's vector, and `last <- status`. This
leaves finding 5 outside: a key announced as associated which no job took was never
waiting there.

### Lifecycle

Steps end where another thread can get in. A mutex held across steps is not a
variable: `QueueLocked` and `TaskLocked` derive it from where its holder stands.

| Code | Model |
|---|---|
| `main()` | `main`: `Start`, `ManagerInit`, `DBusSetup`, `Quit`, `Shutdown`, with the early returns for directories that cannot be made and a bus or name not got |
| `BackgroundTask::append_action`, `sync` | `call`, `AppendActionStep`, `NotifyStep`, `SyncStep` |
| `task_main` | `background`, `pending`, `current` |
| `BackgroundTask::shutdown(true)` | `TaskShutdownClear`, `TaskShutdownPush`, `TaskShutdownNotify`, `TaskShutdownJoin` |
| `Queue::worker_main` | `worker`, `jobs` (their number) |
| `Queue::shutdown` | `QueueShutdownRequest`, `QueueShutdownNotify`, `QueueShutdownJoin` |

A thread that is asleep wakes when notified, or spuriously.

`shutdown(true)` clears the deque, writes its request and notifies without the mutex: a
data race in C++, so what it does depends on the build. Each of the three calls, and each
of the thread's `empty()`, `front()` and `pop_front()`, is a step; their effects are those
of libstdc++'s deque, which is a range of cells. `clear()` makes the range empty and leaves
what is in the cells: `pending` keeps its value while `main = "push_task"`, and `Empty` is
true. A thread that has passed its test reads the old front there (`BackgroundFront`), and
`pop_front()` moves the begin of the range past its end. `race` records what goes wrong:

* "underrun": this `pop_front()`. The deque does not look empty any more. `push_back()`
  then moves the end to the begin, and the deque is empty: the request is lost, and
  `race` is "swallowed";
* "swallowed": also when `push_back()` comes between `front()` and `pop_front()`, so that the
  request is removed unread;
* "missed": the notification comes between the thread's test and its sleep.

A thread that has passed the test of an under-run deque, or finds the range empty at
`front()`, is "astray": it does what the cells behind the range say, until one says
`SHUTDOWN` (which is 0) or the program crashes (`BackgroundAstray`). `OnlyShutdownRaces`
says that nothing else does this, that none of it happens before the manager is destroyed,
and that whatever happens then is on record. Single calls that are torn, memory orders
weaker than sequential, and a front that stands at the end of a block of cells just then, are
not modelled.

Handlers run as
soon as the interfaces are exported, before the name is acquired (`HandlesRequests`), so
a program that does not get its name may end with a job running; the worker is
then not joined, and its destructor terminates the program.

`ActionQueue` is a queue without duplicates, of which one action is done at a time.
`Lifecycle` implements it with `todo <- Todo`, `doing <- Doing`, `closed <- Closed`: an
action read but not yet removed from the deque counts as being done. `push_back()` in
`shutdown` is what closes the queue, or the end of a program whose thread goes astray
before: an action read between `clear()` and `push_back()` is still taken from the abstract
queue, and what a thread does that has gone astray does not count as an action.

### LockOrder

Each function is the sequence of its lock and unlock operations, over
all paths through it; a thread runs the functions the program lets it run, in any
order. It says when the coarse actions of the other two modules are justified (a
section that holds the manager's lock is atomic to everyone else in the
manager) and where threads may wait for each other. The other modules have no
deadlock because they take each section as a whole: in the program, two nestings
are in opposite order, see *Findings*. `MaxPending` is the number of keys of a job.

## Runs

| Run | Instance | Shows |
|---|---|---|
| `cache` | 2 keys, 2 sources, 1 picture, limits of 1, counters mod 3, every call but `rm` may fail | `TypeOK`, `NoDanglingKey`, `NoDanglingPicture`, `OneSourcePerKey`, `ObjectCountExact`, `LivePictureKept` against any queue, any interleaving with the collector, restarts (355,417 states) |
| `collector` | 2 keys, 1 source, 1 picture, a clock of four moments, `rm` may fail | `CTypeOK`; `UseOrder` over restarts and kills amid a lookup; `HotPathKept`; `LatestKept`; `NoDanglingKey` with removals that end half way (2.1 million states) |
| `queue` | 2 keys, one URI, one set of data, 2 waiting jobs, working directories fail, crashes | `QTypeOK`, `DataJobUnique`, `FailedKeyGone` (1.3 million states) |
| `queue_gc` | 1 key, one set of data, collections, failing links | `ConverterQueue` implements `ArtCache` (`Spec`); `DataJobUnique` while the cache entry of a job's source is collected and made again; `CollectionShrinks`, `CollectionEnds` (559,451 states) |
| `queue_live` | 2 keys, one URI, one set of data, fair threads, one life of the process | `KeepsPromises` (`ConverterQueue` implements `Requests`, its liveness included), `BusyEnds`, `AddedKeyLinked`, `WorkdirOwned` (176,952 states) |
| `task` | 2 waiting jobs, start to end | `ImplementsActionQueue` with its liveness; `SyncReturns`, `WorkerStops`, `ProgramEnds`; `OnlyShutdownRaces`, `NothingSleptThrough`, `ManagerOutlivesJobs` (10,824 states) |
| `locks` | up to 2 keys in a job | `NoSelfDeadlock`, `OnlyTwoDeadlocks`, `BackgroundBlocksNobody` |
| `stream_count`, `delete_key`, `existing_key`, `associated`, `calls_return` | smallest that suffices | the five findings |

Bounds and why they are enough. Two keys and two sources let a key leave a
source that another still links, and two keys meet in one job. One picture
suffices for sharing, since two sources may both link it. Limits of 1 (in
`queue_gc` a source limit of 0, so that collections happen with one key) make the
collector run in every order with the other actions, with both fail rounds and
repeated rounds. `SizeMax = 2` is the least width that can count
everything, so that a counter that drifts wraps. Two waiting jobs and the running
one give a source with a job, a second source's job in front, and a repetition
of the first. Collections are left out of `queue` and `queue_live` (limits of 7 are
never exceeded) to keep them small; `queue_gc` adds them for one key, and `cache`
has them with every queue there could be.

In `collector`, two keys give an order of use. A second has one microsecond and there are
four seconds, so that the fourth lookup at the latest finds that the clock has run out, and
the carry is taken in each. The time of day stands still at the second moment: new files are
ahead of the clock, level with it and behind it in turn. `MaxRequests = 4` bounds the
requests that change the cache, and the kills amid a lookup or a reset; lookups, orderly
restarts and collections are not bounded. That suffices for two keys to be added, looked up
in both orders, and one of them deleted or collected and added again. `TimestampProofs`
covers the real widths.

In `task`, two jobs may wait while one runs; each kind of action is in the deque once at
most, so the deque is bounded by the code. Deadlock is not checked in `task`,
where the program ends, and may hang at its end as `ProgramEnds` says; nor in `locks`,
where there are two, which `OnlyTwoDeadlocks` names.

Each property of a passing run has a mutant of the code, a definition marked
*Mutant* in the module, that violates it under that run's configuration.

Fairness.

* `QLive`: weak fairness of `AddFailed` (the main thread ends the request it is in) and
  of `Worker` as a whole (a thread that loops until shut down, and waits only for a
  job). No client has to make a request, and a script may fail or succeed each
  time; scripts do end (the code waits for the child without a timeout, so that a
  script that hangs would hang the queue). `Crash` is not part of `QLive`: a process that
  is killed reports nothing.
* `QCollecting`: weak fairness of `Collect`, the background thread, which does what is
  queued. `CollectionEnds` asks for an end only once nothing but the collector touches
  the cache, and in an instance where removals succeed.
* `LSpec`: weak fairness of the two threads; strong fairness of `main()`, which gets a
  mutex that comes free again and again. No client has to send a request, no user a
  signal, and spurious wake-ups may come or not.
* `LockOrder`: strong fairness of each thread's operations, for the same reason;
  nobody has to begin a new function.

`BusyEnds` needs no fairness of clients: it supposes that requests stop.

## Proofs

All theorems rest on the named assumptions on the constants (finite sets no larger
than `SizeMax`, natural limits, widths that fit, any `Faults`; for `Collector`, that the
cache can be counted). Two theorems of the queue, named below, need more, and say so in
their statements.

`ArtCacheProofs` proves the six properties of the run `cache` as theorems of `Spec`.
The invariant is

    IInv == TypeOK /\ NoDanglingKey /\ NoDanglingPicture /\ OneSourcePerKey
            /\ ObjectCountExact /\ ListedObjectsExist

`ListedObjectsExist` (what the collector has listed and not yet visited is still in
the pool) is what `ObjectCountExact` lacks to be inductive: visiting an object that
is gone would count it down a second time. That nobody else removes objects is a
fact about all other actions; the same is *not* true of streams and
sources, whose counters drift. The lemmas on `LinkToSource`, `MkSourceEntry`,
`AddOutcomes`, `Import` and `LinkRuns` state what each half of an operation may do,
and there is one lemma for each action, those of failing removals included.
`PicturesAreKept` proves the action property `LivePictureKept` from the same invariant.

`CollectionGetsOn` proves `CollectionShrinks` (checked in `queue_gc`), the safety half of "a
collection ends": each step of `do_gc` lowers (`Remaining`, rounds that may fail,
`PhasesLeft`, entries listed), in this order, or ends the collection. The property supposes
that removals succeed, since a collection does not end otherwise. A round may begin anew
only at the price of something removed or of a fail round. A source that was listed and has
been deleted since is removed once more and makes the round a success; it still counts as
remaining until it is visited. For objects `ListedObjectsExist` says that this does not
happen. That each step *is* taken needs fairness, so `CollectionEnds` stays with TLC. The
theorem says nothing against clients who add as fast as the collector removes: their steps
do not lower the measure.

`ConverterQueueProofs` proves `QSpec => Spec` (`QueueImplementsCache`): the state of
`ArtCache` is part of that of `ConverterQueue`, so the mapping is the identity, and each
action of the queue is a step of the manager or a stutter. It needs `QTypeOK`, which
says that pending keys are keys and that the source of a job is a source. Theorems
about `ArtCache` hold of the two together by this (`QueueKeepsPictures`,
`QueueCollectionGetsOn`).
`DataJobsAreUnique` proves that picture data have one job at most, over any number of
requests and crashes; the inductive form adds that the *running* job has its
directory, too, without which a job could be queued behind it. `PromisesAreKept` proves
`QSpec => Promised!Safety`, the safety part of `Requests`.

The signals are true:

* `FailedKeysAreGone`: deleting a key that failed takes its only link (`OneSourcePerKey`,
  from `ArtCache`), and so the key. `FailedKeyGone` is then inductive next to `IInv`.
* `WorkdirsAreOwned` (of `QLive`, one life of the process) needs that files below the
  working directory can be made and removed, since the code does not try again.
* `AddedKeysAreLinked` has `AddedInv`, checked by TLC before the proof: a waiting
  job has no results, and a result that will be announced as added is that of a key that has had its
  link since. It supposes that no call of a request fails, in the manager (`RequestFaults`)
  or at its working directory (`WorkdirFaults`), and, as
  `[][~KeyCollected]_vars`, that no collection takes a stream key; restarts, pictures that
  cannot be read or moved, and collected sources are allowed. Both are needed:
  TLC finds that a request that fails deletes its key while a job carries it, and if the
  job's results are computed already, the key is announced as added after it is gone; and a
  key that a collection takes after it was announced has no link either.

`CollectorProofs` proves `CSpec => Spec` (`CollectorIsCache`), and with `IInv` for free
the invariant

    CInv == IInv /\ OrderInv /\ LatestInv

* `OrderInv` is for `UseOrder` (`UseIsOrdered`): the clock is what the object directory
  shows, and no key in the order is ahead of it. This is why the code stamps
  the object directory *first*: if it came after the stream key, a kill in between would
  leave a clock that starts behind that key.
* `LatestInv` is for `LatestKept` and `HotPathKept` (`LatestIsKept`, `HotPathIsKept`). Its
  core, `ScanReached`, is stated for each of the `KeptKinds`, stream keys and pictures: the
  youngest time found, on which the limit rests, is still reached by an entry of that kind
  that exists. Entries that are removed lie below the limit, and so below that one, and
  stamps do not go back without `setBack`. For pictures it also takes `ListedObjectsExist`
  of `IInv`: one that could not be read would be removed whatever it shows, but nobody else
  takes what the collector has listed. The run has one picture, so there `LatestKept` says
  that it is never removed; the theorem is about any number of them. Sources are left out
  because it is not true of them: `delete_key` deletes a source whatever it shows.
  `TouchedLater` says that keys looked up since the limits were computed lie beyond them.
* Of the arithmetic, `LatestInv` needs only that the limit is no later than the youngest
  file found, or the oldest, or earlier than any file: `ThresholdBounded` of
  `TimestampProofs`, for all widths, extreme values included.

`TimestampProofs` proves, for all widths, that the clock goes on by one microsecond or
runs out in its last second (`IncrementTicks`), that differences and sums are exact where
they can be shown (`DeltaExact`, `AddToTimeExact`), that a limit lies between
oldest and youngest (`ThresholdBetween`), and that no overflow makes everything old, even
after an empty or crossed scan (`ThresholdBounded`).

`LifecycleProofs` proves `LTypeOK`, `OnlyShutdownRaces` (`RacesAreShutdowns`),
`ManagerOutlivesJobs` (`JobsAreOutlived`) and the safety part of the refinement, `LSpec =>
Abstract!Safety` (`TaskIsActionQueue`), for any number of jobs. The invariant adds to the
three that there is no thread before it is started and no request to shut down before
`main()` gets there (`RequestedLate`); that once written, the request is all the deque
holds, if anything, and before it is never there (`ShutdownIsLast`), so that what the thread
takes before is an action, and what it takes after is none of the abstract queue's; and that
a thread that has passed its test finds a cell unless a race is on record, and the one it
has read is not yet removed (`FrontCells`). `NoWakeupIsLost` proves `NothingSleptThrough` on
top of it: who tests an empty queue holds the mutex until asleep, so that requests and their
notification come before the test or after the sleep has begun. Of the unlocked accesses of
`shutdown(true)` this is not true: a race is exempt by name, and `OnlyShutdownRaces` says
that races occur from `clear()` on only.

`LockOrderProofs` proves the three invariants of `locks` for jobs with any number of keys.
`LockInv` says of each thread that what it has still to do gives back every mutex it holds,
and takes others only as the table `Order` has it: which mutex is taken in which function
while exactly which are held. That the paths of the code keep to the table is checked path
by path (`PathsLead`), for `finalize` along the sequence of its deletions. The three
invariants are then read off the table: nothing is taken twice, the background thread holds
nothing when it waits, and only two pairs of rows cross.

Only model-checked: liveness, which is out of the prover's reach (`CollectionEnds`,
`BusyEnds`, the fairness in `KeepsPromises` and `ImplementsActionQueue`, `SyncReturns`,
`WorkerStops`, `ProgramEnds`), and the properties that are violated. Every other property of a
passing run is a theorem.

## Findings

Each is a run that violates what the repository says of itself.

1. *Calls may block for ever* (`calls_return`; README.md says they never
   block). `lookup` asks the queue with the manager locked, `Job::finalize` deletes
   keys with the queue locked; likewise an added key joins the running job with the
   manager locked, while the job updates the manager with itself locked.
2. *Stream counter* (`stream_count`; the message "expected ..., but found ..." in
   `compute_threshold` is a bug message). Two priorities of one key are counted as two
   streams and collected as one.
3. *Sources stay behind* (`delete_key`; `artcache.hh` says the source is removed).
   `delete_object` gets the name of a link in place of an object's hash.
4. *A picture disappears early* (`existing_key`; `artcache.hh` says an existing pair
   remains unchanged while its new source is not filled in).
   A key added twice for a new URI is linked to the empty source.
5. *No signal* (`associated`; README.md says results are communicated as
   signals). A key added for data whose job runs, or whose working directory a
   killed process left, is announced as associated; no job carries it.

Met while modelling, and left without a run:

* A second key for a source whose job still waits is linked to the empty source and
  announced as *added* (`artcache.cc:735`); if the job fails, nobody is told.
* A lookup takes the highest priority a stream key has, even if a lower one has a
  picture and this one has none (`artcache.cc:1232`; README.md:65 speaks of the best
  available picture).
* README.md:235-241 says that a key that is added again becomes the least likely to be
  removed; nothing stamps it.
* `main()` returns from a failed start without shutting the queue down
  (`tacaman.cc:240`).
* `shutdown(true)` races with its thread, which may never end or run on behind the end of the
  deque (`artcache_background.cc:87`); `task` names the races and shows there are no others.
* A collection does not end while `rm` goes on failing, since a failed removal makes a
  round a success (`artcache.cc:1619`).

## Not modelled

* Path names, their middle directories, blobs and hexadecimal strings, parameter
  checks: string building, tested where it is tested at all by
  `tests/test_cachepath.cc`. Hashes are model values.
* A second output format: `formats.cc` has one.
* The text of the conversion script, and what is inside a picture: outcomes.
* Failing removals in `Manager::reset`, `delete_key` and of the old link in `link_to_source`;
  the overflow of nanoseconds.
* That `Manager::init` may count while the reset it has waited for with `sync` still runs: the
  two are in different modules, and `SyncReturns` says only that `sync` returns.
* Logging, command line, daemon set-up, D-Bus proxies.
* The hint of a lookup beyond what it changes: `Look` skips the clock's overflow with
  it, and "not changed" is a reply like "uncached".

## Plan

Done: the manager, the queue, the locks; the life of threads and program; the
hot path, its clock and the collector's choice; the abstract specifications of
requests and actions; removals that fail; theorems for all safety properties. What is
left:

1. `UseOrder` for sources and pictures, as it is for stream keys.
2. Runs for the disagreements above that have none.
3. A measure for the queue's worker, as `CollectionShrinks` is one for the collector.
