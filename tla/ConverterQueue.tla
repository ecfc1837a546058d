--------------------------- MODULE ConverterQueue ---------------------------
(***************************************************************************)
(* Converter::Queue and Converter::Job (src/src/converterqueue.cc,         *)
(* src/src/converterjob.cc) on top of the cache manager: clients add keys  *)
(* for a URI or for picture data, one worker thread runs the jobs one at a *)
(* time, and the outcome for each key is emitted on the monitoring         *)
(* interface.                                                              *)
(*                                                                         *)
(* One action is what one thread does between two points at which another  *)
(* thread can get in.  The queue's lock is held from Add to AddFailed when *)
(* a request fails, and from Finalize to Release: failing and worker tell. *)
(***************************************************************************)
EXTENDS ArtCache, Sequences

CONSTANTS
    DataSources,    \* sources that are picture data; the others are URIs
    MaxJobs,        \* bound: no request is made while so many jobs wait
    WorkdirFaults   \* files and directories below temp_dir_ may fail

ASSUME QueueAssumption ==
    /\ DataSources \subseteq Sources
    /\ MaxJobs \in Nat \ {0}
    /\ WorkdirFaults \in BOOLEAN

VARIABLES
    jobs,       \* jobs_: each has a source, and its pending keys with results
    running,    \* running_job_: no job or one
    worker,     \* where the worker thread stands
    failing,    \* no key, or the one whose request has failed in the manager
    workdirs,   \* the working directories that exist, named by the source
    status      \* the last signal emitted for each key

queue == <<jobs, running, worker, failing, workdirs, status>>
qvars == <<vars, queue>>

Job(s, k) == [src |-> s, res |-> [x \in {k} |-> "SOURCE_UNKNOWN"]]

(* Job::add_pending_key; a key that is pending already is pending once.    *)
AddPendingKey(job, k) ==
    [src |-> job.src,
     res |-> [x \in DOMAIN job.res \cup {k} |->
                 IF x = k THEN "SOURCE_UNKNOWN" ELSE job.res[x]]]

QueueFree == failing = {} /\ worker # "notify"

(* is_source_pending__unlocked with exclude_current set: the running job   *)
(* is not looked at.                                                       *)
Queued(s) == \E i \in DOMAIN jobs : jobs[i].src = s
Running(s) == \E j \in running : j.src = s

FirstJob(s) == CHOOSE i \in DOMAIN jobs :
    jobs[i].src = s /\ \A n \in 1..(i - 1) : jobs[n].src # s

(* add_key_to_pending_source for a source with a job; a job that is done   *)
(* ignores the key, but the caller is told it was taken.                   *)
AddKeyToPendingSource(k, s) ==
    IF Running(s)
      THEN /\ running' = IF worker = "done" THEN running
                         ELSE {AddPendingKey(j, k) : j \in running}
           /\ UNCHANGED jobs
      ELSE /\ jobs' = [jobs EXCEPT ![FirstJob(s)] = AddPendingKey(@, k)]
           /\ UNCHANGED running

Signal(k, what) == status' = [status EXCEPT ![k] = what]

\* Mutant: an error the switch forgets.
SignalForForgotten(res) == IF res = "SOURCE_PENDING" THEN "associated"
                           ELSE IF res = "SOURCE_UNKNOWN" THEN "failed"
                           ELSE "added"

SignalFor(res) == IF res \in {"NOT_CHANGED", "INSERTED", "REPLACED"} THEN "added"
                  ELSE IF res = "SOURCE_PENDING" THEN "associated"
                  ELSE "failed"

-----------------------------------------------------------------------------
Enqueue(k, s) ==
    /\ jobs' = Append(jobs, Job(s, k))
    /\ Signal(k, "associated")
    /\ UNCHANGED <<running, failing>>

(* A request that fails still has to delete its key, holding the queue.    *)
Fail(k) ==
    /\ failing' = {k}
    /\ UNCHANGED <<jobs, running, workdirs, status>>

(* The rest of add_to_cache_by_uri.                                        *)
QueueURI(k, s) ==
    /\ s \notin DataSources
    /\ Enqueue(k, s)
    /\ UNCHANGED workdirs

\* Mutant: a working directory that exists is taken over.
QueueDataAnyway(k, s) ==
    /\ s \in DataSources
    /\ workdirs' = workdirs \cup {s}
    /\ Enqueue(k, s)

(* The rest of add_to_cache_by_data: the data are written to a new working *)
(* directory, and one that exists means that a job for them exists.        *)
QueueData(k, s) ==
    /\ s \in DataSources
    /\ \/ /\ s \notin workdirs
          /\ workdirs' = workdirs \cup {s}
          /\ Enqueue(k, s)
       \/ /\ s \in workdirs
          /\ Signal(k, "associated")
          /\ UNCHANGED <<jobs, running, failing, workdirs>>
       \/ /\ s \notin workdirs
          /\ WorkdirFaults
          /\ Fail(k)

(* add_to_cache_by_uri and add_to_cache_by_data.                           *)
Add(k, s) ==
    /\ QueueFree
    /\ Len(jobs) < MaxJobs
    /\ \E src \in MkSourceEntry(s) :
         LET old == OldLink(k)
             oldPending == links[k] # {} /\ (Running(old) \/ Queued(old))
         IN  \E out \in AddOutcomes(k, s, src, Queued(s), oldPending) :
                /\ AddStreamKeyForSource(k, src, out)
                /\ \/ /\ out.res = "SOURCE_UNKNOWN"
                      /\ QueueURI(k, s) \/ QueueData(k, s)
                   \/ /\ out.res = "SOURCE_PENDING"
                      /\ AddKeyToPendingSource(k, old)
                      /\ Signal(k, "associated")
                      /\ UNCHANGED <<failing, workdirs>>
                   \/ /\ out.res \in {"NOT_CHANGED", "INSERTED", "REPLACED"}
                      /\ Signal(k, "added")
                      /\ UNCHANGED <<jobs, running, failing, workdirs>>
                   \/ /\ out.res = "IO_ERROR"
                      /\ Fail(k)
    /\ UNCHANGED worker

\* Mutant: the key is deleted, not counted.
DeleteKeyUncounted(k) ==
    /\ keys' = keys \ {k}
    /\ links' = [links EXCEPT ![k] = {}]
    /\ UNCHANGED <<streams, dirs, refs, outs, pool, stats, gcQueued, gc>>

DeleteKeyIfAny(k) == IF k \in keys THEN DeleteKey(k) ELSE UNCHANGED vars

\* Mutant: the signal is sent, the key stays.
AddFailedKept ==
    \E k \in failing :
        /\ failing' = {}
        /\ Signal(k, "failed")
        /\ UNCHANGED <<vars, jobs, running, worker, workdirs>>

AddFailed ==
    \E k \in failing :
        /\ DeleteKeyIfAny(k)
        /\ failing' = {}
        /\ Signal(k, "failed")
        /\ UNCHANGED <<jobs, running, worker, workdirs>>

-----------------------------------------------------------------------------
(* The worker thread: take a job, make its directory and script, run the   *)
(* script, hand the pictures over to the manager, tell the clients.        *)
Take ==
    /\ worker = "idle"
    /\ QueueFree
    /\ jobs # <<>>
    /\ running' = {Head(jobs)}
    /\ jobs' = Tail(jobs)
    /\ worker' = "taken"
    /\ UNCHANGED <<vars, failing, workdirs, status>>

Prepare ==
    /\ worker = "taken"
    /\ \E j \in running :
         \/ /\ workdirs' = workdirs \cup {j.src}
            /\ worker' = "script"
         \/ /\ WorkdirFaults
            /\ workdirs' \in {workdirs, workdirs \cup {j.src}}
            /\ worker' = "done"
    /\ UNCHANGED <<vars, jobs, running, failing, status>>

\* Mutant: a job that has failed is forgotten.
ScriptFailsQuietly ==
    /\ worker = "script"
    /\ worker' = "idle"
    /\ running' = {}
    /\ UNCHANGED <<vars, jobs, failing, workdirs, status>>

(* Not downloaded, not a picture, not converted.                           *)
ScriptFails ==
    /\ worker = "script"
    /\ worker' = "done"
    /\ UNCHANGED <<vars, jobs, running, failing, workdirs, status>>

MoveFilesToCache ==
    /\ worker = "script"
    /\ worker' = "done"
    /\ \E j \in running, o \in Objects :
         \E import \in Import(j.src, o) : \E run \in Runs(j.src, DOMAIN j.res, import) :
            /\ UpdateSource(import, run)
            /\ running' = {[src |-> j.src,
                            res |-> KeyResults(DOMAIN j.res, run, import.res = "UPDATED")]}
    /\ UNCHANGED <<jobs, failing, workdirs, status>>

Finalize ==
    /\ worker = "done"
    /\ QueueFree
    /\ worker' = "notify"
    /\ UNCHANGED <<vars, jobs, running, failing, workdirs, status>>

(* notify_pending_key_processed for one key of the job.                    *)
Notify ==
    /\ worker = "notify"
    /\ \E j \in running, k \in Keys :
         /\ k \in DOMAIN j.res
         /\ IF SignalFor(j.res[k]) = "failed" THEN DeleteKeyIfAny(k) ELSE UNCHANGED vars
         /\ Signal(k, SignalFor(j.res[k]))
         /\ running' = {[src |-> j.src, res |-> [x \in DOMAIN j.res \ {k} |-> j.res[x]]]}
    /\ UNCHANGED <<jobs, worker, failing, workdirs>>

\* Mutant: the job is still taken for the running one.
ReleaseKept ==
    /\ worker = "notify"
    /\ \A j \in running : DOMAIN j.res = {}
    /\ worker' = "idle"
    /\ UNCHANGED <<vars, jobs, running, failing, workdirs, status>>

\* Mutant: the working directory is left behind.
ReleaseDirty ==
    /\ worker = "notify"
    /\ \A j \in running : DOMAIN j.res = {}
    /\ running' = {}
    /\ worker' = "idle"
    /\ UNCHANGED <<vars, jobs, failing, workdirs, status>>

Release ==
    /\ worker = "notify"
    /\ \E j \in running :
         /\ DOMAIN j.res = {}
         /\ workdirs' = workdirs \ {j.src} \/ (WorkdirFaults /\ UNCHANGED workdirs)
    /\ running' = {}
    /\ worker' = "idle"
    /\ UNCHANGED <<vars, jobs, failing, status>>

Worker == Take \/ Prepare \/ ScriptFails \/ MoveFilesToCache \/ Finalize \/ Notify \/ Release

-----------------------------------------------------------------------------
(* find_highest_priority: a client that names no priority gets the key with *)
(* the highest one, whether or not it has a picture.                       *)
HighestPriority(stream) ==
    {k \in Keys : /\ k \in keys /\ k[1] = stream
                  /\ \A j \in keys : j[1] = stream => j[2] <= k[2]}

(* do_lookup for a key that exists: the job that runs counts here.         *)
SourcePending(s) == Running(s) \/ Queued(s)

LookupResult(k) ==
    CASE \E s \in links[k] : outs[s] # {}         -> "FOUND"
      [] \E s \in links[k] : outs[s] = {} /\ SourcePending(s)
                                                  -> "PENDING"
      [] \E s \in links[k] \cap dirs : outs[s] = {} /\ ~SourcePending(s)
                                                  -> "FORMAT_NOT_SUPPORTED"
      [] OTHER                                    -> "ORPHANED"

(* The reply to GetScaledImageData; a stream without a directory cannot be *)
(* listed.  Clients take "OK", for a hint that is right, as "UNCACHED".    *)
Reply(stream) ==
    LET best == HighestPriority(stream)
        replies == [FOUND |-> "UNCACHED", PENDING |-> "BUSY", ORPHANED |-> "KEY_UNKNOWN",
                    FORMAT_NOT_SUPPORTED |-> "FORMAT_NOT_SUPPORTED"]
    IN  IF best # {} THEN {replies[LookupResult(k)] : k \in best}
        ELSE IF stream \in streams THEN {"KEY_UNKNOWN"} ELSE {"IO_FAILURE"}

(* A lookup; main() is not in another request then.                        *)
LookUp ==
    /\ failing = {}
    /\ \E stream \in StreamKeys : \E k \in HighestPriority(stream) : Lookup(k)
    /\ UNCHANGED queue

Collect == GC /\ UNCHANGED queue

(* The process ends or is killed: the jobs are lost, the working           *)
(* directories stay, and Queue::init leaves them as they are; they are in  *)
(* the cache, though, and gone if that is wiped.                           *)
Crash ==
    /\ Restart
    /\ \/ UNCHANGED disk /\ UNCHANGED workdirs
       \/ Wipe /\ workdirs' = {}
    /\ jobs' = <<>> /\ running' = {} /\ worker' = "idle" /\ failing' = {}
    /\ status' = [k \in Keys |-> "none"]

QInit ==
    /\ Init
    /\ jobs = <<>> /\ running = {} /\ worker = "idle" /\ failing = {}
    /\ workdirs = {}
    /\ status = [k \in Keys |-> "none"]

QRun ==
    \/ \E k \in Keys, s \in Sources : Add(k, s)
    \/ AddFailed
    \/ Worker
    \/ LookUp
    \/ Collect

QNext == QRun \/ Crash

QSpec == QInit /\ [][QNext]_qvars

(* The background thread does what is queued and goes on with what it has  *)
(* begun.                                                                  *)
QCollecting == QSpec /\ WF_qvars(Collect)

(* One life of the process.  The threads run: main() ends a request it has *)
(* begun, and the worker, which nothing blocks for ever here, does its     *)
(* next step.  Nobody has to make requests, and a script may always fail.  *)
QLive ==
    /\ QInit /\ [][QRun]_qvars
    /\ WF_qvars(AddFailed)
    /\ WF_qvars(Worker)

-----------------------------------------------------------------------------
(* A key that a job carries is never found to be pending elsewhere: the    *)
(* job's outcome for it is known when the job is done.                     *)
JobResult == AddKeyResult \ {"SOURCE_PENDING"}
Results == UNION {[pending -> JobResult] : pending \in SUBSET Keys}

QTypeOK ==
    /\ jobs \in Seq([src : Sources, res : Results])
    /\ running \subseteq [src : Sources, res : Results]
    /\ \A i, j \in running : i = j
    /\ worker \in {"idle", "taken", "script", "done", "notify"}
    /\ worker = "idle" <=> running = {}
    /\ failing \subseteq Keys /\ \A k, l \in failing : k = l
    /\ workdirs \subseteq Sources
    /\ status \in [Keys -> {"none", "associated", "added", "failed"}]

(* Two jobs never convert the same picture data: they would write to one   *)
(* working directory.  What guards it is the directory itself, not the     *)
(* queue, and it holds across restarts and while the source's cache entry  *)
(* is collected and made again.                                            *)
DataJobUnique ==
    \A s \in DataSources :
        /\ \A i, n \in DOMAIN jobs : jobs[i].src = s /\ jobs[n].src = s => i = n
        /\ Queued(s) => ~Running(s)
        /\ Queued(s) => s \in workdirs

(* The "failed" signal tells the truth: while it is the last word on a     *)
(* key, the key is not in the cache, whatever jobs still carry it.         *)
FailedKeyGone == \A k \in keys : status[k] = "failed" => k \in failing

(* The "added" signal tells the truth as long as no request fails in the   *)
(* manager and no key is collected: the key points to a source, or its job *)
(* has taken the link away and is about to emit "failed" for it.           *)
FailureDue(k) == \E j \in running :
    /\ worker \in {"done", "notify"}
    /\ k \in DOMAIN j.res
    /\ SignalFor(j.res[k]) = "failed"
AddedKeyLinked ==
    \A k \in Keys : status[k] = "added" => links[k] # {} \/ FailureDue(k)

(* Within one life of the process a working directory belongs to a job.    *)
WorkdirOwned == \A s \in workdirs : Queued(s) \/ Running(s)

(* The queue keeps the promises of Requests: no key gets lost between the  *)
(* deque, the running job and the signals, whatever jobs carry it, and     *)
(* each is answered in the end.                                            *)
Pending(k) ==
    \/ \E i \in DOMAIN jobs : k \in DOMAIN jobs[i].res
    \/ \E j \in running : k \in DOMAIN j.res

Promised == INSTANCE Requests WITH open <- {k \in Keys : Pending(k)}, last <- status

KeepsPromises == Promised!Spec

(* A client that polls while it is told "BUSY" comes to an end: when the   *)
(* requests stop, each source has its pictures or has not got them, and    *)
(* no job is taken for pending that is done.                               *)
BusyEnds ==
    (<>[][LookUp \/ Collect \/ Worker \/ AddFailed]_qvars) =>
        <>[](\A stream \in StreamKeys : "BUSY" \notin Reply(stream))

(* A collection ends once the cache is left alone, however far over its    *)
(* limits it stays and whatever the counters say: a source that is gone    *)
(* before it is visited, or a counter taken below zero, keeps do_gc in its *)
(* loop for a while only.                                                  *)
CollectionEnds == (<>[][GC]_vars) => <>[](gc.phase = "idle" /\ ~gcQueued)

(* "While the source is not filled in, a possibly existing key/prio pair   *)
(* will remain unchanged" (artcache.hh), so that a picture can be looked   *)
(* up meanwhile.                                                           *)
HasPicture(k) == \E s \in links[k] : outs[s] # {}
ExistingKeyKeepsPicture ==
    [][\A k \in keys : HasPicture(k) /\ k \in keys' => HasPicture(k)']_qvars

(* Results of background tasks "are communicated as signals" (README): a   *)
(* key that was announced as associated is announced again.                *)
AssociatedResolves ==
    \A k \in Keys : status[k] = "associated" ~> status[k] # "associated"
=============================================================================
