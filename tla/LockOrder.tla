------------------------------ MODULE LockOrder ------------------------------
(***************************************************************************)
(* The mutexes of the three threads.  ArtCache and ConverterQueue take a   *)
(* critical section for one step; this module says what the sections are   *)
(* made of: which lock each piece of code takes while it holds which.      *)
(*                                                                         *)
(*   queue    Converter::Queue::lock_                                      *)
(*   manager  ArtCache::Manager::lock_                                     *)
(*   job      Converter::Job::lock_ of the running job                     *)
(*   task     ArtCache::BackgroundTask::lock_                              *)
(*                                                                         *)
(* None of them is recursive.  A piece of code is the sequence of its lock *)
(* and unlock operations; the data decide which of its paths is taken, and *)
(* here any of them may be.                                                *)
(***************************************************************************)
EXTENDS Naturals, Sequences

CONSTANT MaxPending     \* bound: keys that a job carries

ASSUME LockAssumption == MaxPending \in Nat

Locks == {"queue", "manager", "job", "task"}
Threads == {"main", "worker", "background"}

VARIABLES
    owner,      \* the thread that holds each lock, or "nobody"
    code,       \* the piece of code each thread is in
    ops         \* the operations left of it

vars == <<owner, code, ops>>

Nothing == <<>>
With(lock, inner) == <<<<"lock", lock>>>> \o inner \o <<<<"unlock", lock>>>>

-----------------------------------------------------------------------------
(* Manager::lookup: a source that is gone or has no picture may be pending,*)
(* which is asked of the queue; timestamps may have to be reset.           *)
Lookup == {With("manager", inner) : inner \in
             {Nothing, With("queue", Nothing), With("task", Nothing)}}

\* Mutant: the queue is asked through the function that locks it.
AddToCacheRelocking ==
    LET manager(inner) == With("queue", With("manager", inner))
    IN  {manager(Nothing), manager(With("queue", Nothing))}

(* Queue::add_to_cache_by_uri, add_to_cache_by_data: the manager looks at  *)
(* the queue without locking it again, may add the key to the running job  *)
(* or start a collection, and is called again to delete a key that failed. *)
AddToCache ==
    LET ended(inner) == With("queue", With("manager", inner))
        failed == With("queue", With("manager", Nothing) \o With("manager", Nothing))
        collectedAndFailed ==
            With("queue", With("manager", With("task", Nothing)) \o With("manager", Nothing))
    IN  {ended(Nothing), ended(With("job", Nothing)), ended(With("task", Nothing)),
         failed, collectedAndFailed}

(* Queue::worker_main takes a job out of the queue ...                     *)
TakeJob == {With("queue", Nothing)}

(* ... Job::execute holds the job but for the script, and calls            *)
(* Manager::update_source ...                                              *)
Execute == {With("job", Nothing),
            With("job", Nothing) \o With("job", Nothing),
            With("job", Nothing) \o With("job", With("manager", Nothing))}

(* n keys are deleted, one after the other.                                *)
Deletions(n) ==
    [i \in 1..(2 * n) |-> <<IF i % 2 = 1 THEN "lock" ELSE "unlock", "manager">>]

\* Mutant: the job locks itself before the queue is locked.
FinalizeJobFirst == {With("job", With("queue", Deletions(n))) : n \in 0..MaxPending}

(* ... and Job::finalize, called with the queue locked, deletes the keys   *)
(* that have failed.                                                       *)
FinalizeJob == {With("queue", With("job", Deletions(n))) : n \in 0..MaxPending}

\* Mutant: the collector asks whether a source is pending.
CollectAsking == {With("manager", With("queue", Nothing))}

(* BackgroundTask::task_main waits for work ...                            *)
WaitForWork == {With("task", Nothing)}

(* ... and do_gc and do_reset_all_timestamps lock the manager for one      *)
(* entry at a time.                                                        *)
Collect == {With("manager", Nothing)}

Paths == [lookup |-> Lookup, add |-> AddToCache, take |-> TakeJob, execute |-> Execute,
          finalize |-> FinalizeJob, wait |-> WaitForWork, collect |-> Collect]

(* What a thread may do next: D-Bus methods in any order, jobs one after   *)
(* the other, background actions of any number of steps.                   *)
Following(c) ==
    CASE c \in {"main", "lookup", "add"}           -> {"lookup", "add"}
      [] c \in {"worker", "finalize"}              -> {"take"}
      [] c = "take"                                -> {"execute"}
      [] c = "execute"                             -> {"finalize"}
      [] c \in {"background", "wait", "collect"}   -> {"wait", "collect"}

-----------------------------------------------------------------------------
Begin(t) ==
    /\ ops[t] = <<>>
    /\ \E c \in Following(code[t]) : \E path \in Paths[c] :
          /\ code' = [code EXCEPT ![t] = c]
          /\ ops' = [ops EXCEPT ![t] = path]
    /\ UNCHANGED owner

Wants(t, lock) == ops[t] # <<>> /\ Head(ops[t]) = <<"lock", lock>>

Lock(t, lock) ==
    /\ Wants(t, lock)
    /\ owner[lock] = "nobody"
    /\ owner' = [owner EXCEPT ![lock] = t]
    /\ ops' = [ops EXCEPT ![t] = Tail(@)]
    /\ UNCHANGED code

Unlock(t, lock) ==
    /\ ops[t] # <<>> /\ Head(ops[t]) = <<"unlock", lock>>
    /\ owner' = [owner EXCEPT ![lock] = "nobody"]
    /\ ops' = [ops EXCEPT ![t] = Tail(@)]
    /\ UNCHANGED code

Operation(t) == \E lock \in Locks : Lock(t, lock) \/ Unlock(t, lock)

Init ==
    /\ owner = [lock \in Locks |-> "nobody"]
    /\ code = [t \in Threads |-> t]
    /\ ops = [t \in Threads |-> <<>>]

Next == \E t \in Threads : Begin(t) \/ Operation(t)

(* A thread in the middle of its code goes on, and a lock that comes free  *)
(* again and again is got in the end; nobody has to begin anything new.    *)
Spec == Init /\ [][Next]_vars /\ \A t \in Threads : SF_vars(Operation(t))

-----------------------------------------------------------------------------
(* No thread waits for a lock it holds itself: the queue's and the         *)
(* manager's "__unlocked" functions are called where they have to be.      *)
NoSelfDeadlock == \A t \in Threads, lock \in Locks : ~(Wants(t, lock) /\ owner[lock] = t)

WaitsFor(t, u) == \E lock \in Locks : Wants(t, lock) /\ owner[lock] = u

Deadlocked(c, d) ==
    /\ WaitsFor("main", "worker") /\ WaitsFor("worker", "main")
    /\ code["main"] = c /\ code["worker"] = d

(* Two threads wait for each other only where a lookup asks the queue      *)
(* about a source while a finished job deletes a key, and where an added   *)
(* key joins the running job while that hands over its pictures.           *)
OnlyTwoDeadlocks ==
    \A t, u \in Threads : WaitsFor(t, u) /\ WaitsFor(u, t) /\ t # u =>
        Deadlocked("lookup", "finalize") \/ Deadlocked("add", "execute")

(* The background thread is no part of any deadlock: nobody ever waits for *)
(* a background thread that waits itself.                                  *)
BackgroundBlocksNobody ==
    \A t, u \in Threads : ~(WaitsFor(t, "background") /\ WaitsFor("background", u))

(* D-Bus functions "will never block" (README): every call returns.        *)
CallsReturn == (ops["main"] # <<>>) ~> (ops["main"] = <<>>)
=============================================================================
