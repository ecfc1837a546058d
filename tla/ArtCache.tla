------------------------------ MODULE ArtCache ------------------------------
(***************************************************************************)
(* The cover art cache on disk and its manager, ArtCache::Manager          *)
(* (src/src/artcache.cc): stream keys with a priority point to sources,    *)
(* sources point to converted pictures (objects), and a background thread  *)
(* decimates all three when a limit is exceeded.                           *)
(*                                                                         *)
(* Every pointer is a hard link: a key directory holds "src:<hash>", a     *)
(* link to the source's ".ref" file, and a source directory holds          *)
(* "<format>:<hash>", a link to the object.  The link count the code reads *)
(* from the file system is therefore derived here, not stored.             *)
(*                                                                         *)
(* One action is one critical section of Manager::lock_.  What the manager *)
(* asks of the job queue (pending_) is a parameter of the action: this     *)
(* module lets the queue give any answer, ConverterQueue gives the real    *)
(* one.                                                                    *)
(***************************************************************************)
EXTENDS Naturals, FiniteSets

CONSTANTS
    StreamKeys,     \* stream keys (hashes chosen by the clients)
    Priorities,     \* priorities a picture may be added with
    Sources,        \* source hashes (of a URI, or of raw picture data)
    Objects,        \* object hashes (of converted pictures)
    KeyLimit,       \* upper limits, tacaman.cc
    SourceLimit,
    ObjectLimit,
    SizeMax,        \* greatest value of a size_t counter
    Faults          \* the calls that may fail: a subset of Calls

Keys == StreamKeys \X Priorities

Calls == {"mkdir", "touch", "mkkey", "link", "map", "rename", "count", "rm"}

ASSUME CacheAssumption ==
    /\ IsFiniteSet(StreamKeys) /\ IsFiniteSet(Sources) /\ IsFiniteSet(Objects)
    /\ KeyLimit \in Nat /\ SourceLimit \in Nat /\ ObjectLimit \in Nat
    /\ SizeMax \in Nat \ {0}
    /\ Cardinality(StreamKeys) <= SizeMax
    /\ Cardinality(Sources) <= SizeMax
    /\ Cardinality(Objects) <= SizeMax
    /\ Faults \subseteq Calls

VARIABLES
    streams,    \* stream key directories
    keys,       \* priority directories in them
    links,      \* "src:<hash>" files in each priority directory
    dirs,       \* source directories
    refs,       \* source directories that hold a .ref file
    outs,       \* "<format>:<hash>" files in each source directory
    pool,       \* object files
    nkeys,      \* statistics_: the three counters ...
    nsrcs,
    nobjs,
    changed,    \* ... and whether they changed since the last look
    gcQueued,   \* Action::GC waits in the background task's queue
    gc          \* where Manager::do_gc stands, and its locals

disk  == <<streams, keys, links, dirs, refs, outs, pool>>
stats == <<nkeys, nsrcs, nobjs, changed>>
vars  == <<disk, stats, gcQueued, gc>>

AddKeyResult == {"NOT_CHANGED", "INSERTED", "REPLACED", "SOURCE_PENDING",
                 "SOURCE_UNKNOWN", "IO_ERROR"}

Phases == {"idle", "begin", "count sources", "count objects",
           "streams", "sources", "objects", "end"}

MaxFailRounds == 2

-----------------------------------------------------------------------------
(* Counters of a machine's width; the assertion in sub_from_counter only   *)
(* logs, so a counter taken below zero wraps around.                       *)
Incr(n) == (n + 1) % (SizeMax + 1)
Decr(n) == IF n = 0 THEN SizeMax ELSE n - 1

ExceedsLimits(k, s, o) == k > KeyLimit \/ s > SourceLimit \/ o > ObjectLimit

Percent60(limit) == (limit * 60) \div 100
ExceedsLowerLimits(k, s, o) ==
    \/ k > Percent60(KeyLimit)
    \/ s > Percent60(SourceLimit)
    \/ o > Percent60(ObjectLimit)

(* An outcome that is possible only under a condition. *)
When(condition, outcome) == IF condition THEN {outcome} ELSE {}

(* A link count above 1. *)
Referenced(s) == \E k \in Keys : s \in links[k]
ObjectReferenced(o) == \E s \in Sources : o \in outs[s]

(* The link found in a key directory, and what is left once it is deleted. *)
OldLink(k) == CHOOSE s \in links[k] : TRUE

\* Mutant: the old link is not deleted.
DroppedNothing(k) == links[k]

Dropped(k) == IF links[k] = {} THEN {} ELSE links[k] \ {OldLink(k)}

-----------------------------------------------------------------------------
\* Mutant: the directory is emptied although it holds .ref.
MkSourceEntryEmptied(s) ==
    {[res |-> IF s \in refs THEN "EMPTY" ELSE "INSERTED", dirs |-> dirs \cup {s},
      refs |-> refs \cup {s}, outs |-> [outs EXCEPT ![s] = {}]]}

(* mk_source_entry: what it may return, and what it leaves on disk.  A     *)
(* source directory without .ref is emptied and taken as new.              *)
MkSourceEntry(s) ==
    LET same(r) == [res |-> r, dirs |-> dirs, refs |-> refs, outs |-> outs]
        made(r, rf) == [res |-> r, dirs |-> dirs \cup {s}, refs |-> rf,
                        outs |-> [outs EXCEPT ![s] = {}]]
    IN  IF s \in refs
          THEN {same(IF outs[s] = {} THEN "EMPTY" ELSE "NOT_CHANGED")}
          ELSE {made("INSERTED", refs \cup {s})}
               \cup When("touch" \in Faults, made("IO_ERROR", refs))
               \cup When("mkdir" \in Faults /\ s \notin dirs, same("IO_ERROR"))

(* link_to_source for key k, where the sources in have hold a .ref: the    *)
(* links left in the key's directory, and the result.  The old link goes   *)
(* first, and is gone when link(2) then fails.                             *)
LinkToSource(k, s, have, ifAdded) ==
    IF links[k] # {} /\ OldLink(k) = s
      THEN {[link |-> links[k], res |-> "NOT_CHANGED"]}
      ELSE When(s \in have, [link |-> Dropped(k) \cup {s},
                              res  |-> IF links[k] = {} THEN ifAdded ELSE "REPLACED"])
           \cup When(s \in have => "link" \in Faults,
                     [link |-> Dropped(k), res |-> "IO_ERROR"])

-----------------------------------------------------------------------------
(* The outcomes of add_stream_key_for_source once mk_source_entry has      *)
(* returned src.  queued: the queue holds a job for s, the running one not *)
(* counted; oldPending: it has a job for the source k is linked to now,    *)
(* and that job took k along.                                              *)
HaveNewSource(src, queued) ==
    src.res = "INSERTED" \/ (src.res = "EMPTY" /\ ~queued)

AddOutcomes(k, s, src, queued, oldPending) ==
    LET new == HaveNewSource(src, queued)
        outcome(r, l, m) == [res |-> r, link |-> l, made |-> m]
        keep(r) == {outcome(r, links[k], "nothing")}
        relink(m, ifAdded) == {outcome(e.res, e.link, m) : e \in LinkToSource(k, s, src.refs, ifAdded)}
    IN  IF src.res = "IO_ERROR" THEN keep("IO_ERROR")
        ELSE IF k \notin keys
          THEN \* a new key is linked right away; os_mkdir_hierarchy may have
               \* made the stream key's directory when it fails
               relink("key", IF new THEN "SOURCE_UNKNOWN" ELSE "INSERTED")
               \cup UNION {When("mkkey" \in Faults, outcome("IO_ERROR", {}, m)) :
                             m \in {"nothing", "stream"}}
        ELSE IF new THEN keep("SOURCE_UNKNOWN")
        ELSE IF oldPending THEN keep("SOURCE_PENDING")
        ELSE relink("nothing", "INSERTED")

(* add_stream_key_for_source, given the outcomes of its two halves.        *)
AddStreamKeyForSource(k, src, out) ==
    /\ dirs' = src.dirs /\ refs' = src.refs /\ outs' = src.outs
    /\ nsrcs' = IF src.res = "INSERTED" THEN Incr(nsrcs) ELSE nsrcs
    /\ streams' = IF out.made = "nothing" THEN streams ELSE streams \cup {k[1]}
    /\ links' = [links EXCEPT ![k] = out.link]
    /\ IF out.made = "key"
         THEN /\ keys' = keys \cup {k}
              /\ nkeys' = Incr(nkeys)
              /\ gcQueued' = (gcQueued \/ ExceedsLimits(nkeys', nsrcs', nobjs))
         ELSE UNCHANGED <<keys, nkeys, gcQueued>>
    /\ changed' = (changed \/ src.res = "INSERTED" \/ out.made = "key")
    /\ UNCHANGED <<pool, nobjs, gc>>

-----------------------------------------------------------------------------
(* move_objects_and_update_source for the one output format: the converted *)
(* picture o moves into the pool and is linked into the source directory.  *)
(* An object that cannot be read is skipped; a link that fails is ignored, *)
(* and so is a source directory that is gone.                              *)
Import(s, o) ==
    LET outcome(r, p, l) == [res |-> r, pool |-> p, outs |-> l]
        linked == IF s \in dirs THEN [outs EXCEPT ![s] = @ \cup {o}] ELSE outs
        done(l) == outcome(IF o \in pool THEN "NOT_CHANGED" ELSE "UPDATED",
                           pool \cup {o}, l)
    IN  {done(linked)}
        \cup When("link" \in Faults, done(outs))
        \cup When("map" \in Faults, outcome("NOT_CHANGED", pool, outs))
        \cup When("rename" \in Faults /\ o \notin pool, outcome("IO_ERROR", pool, outs))

(* link_pending_keys_to_source: the outcomes of link_to_source for the     *)
(* keys it gets to.  Keys that do not exist are passed over, and the first *)
(* result other than NOT_CHANGED and REPLACED ends the loop.               *)
Stops(e) == e.res \notin {"NOT_CHANGED", "REPLACED"}

LinkRuns(s, pending) ==
    LET tried(ks) == {f \in [ks -> UNION {LinkToSource(k, s, refs, "INSERTED") : k \in ks}] :
                         \A k \in ks : f[k] \in LinkToSource(k, s, refs, "INSERTED")}
    IN  UNION {{f \in tried(ks) :
                   /\ \A j, k \in ks : Stops(f[j]) /\ Stops(f[k]) => j = k
                   /\ ks # pending \cap keys => \E k \in ks : Stops(f[k])} :
               ks \in SUBSET (pending \cap keys)}

(* key.second of every pending key after update_source: a key that was not *)
(* reached stays SOURCE_UNKNOWN.                                           *)
KeyResults(pending, run, updated) ==
    [k \in pending |->
        CASE k \notin DOMAIN run                         -> "SOURCE_UNKNOWN"
          [] k \in DOMAIN run /\ run[k].res = "NOT_CHANGED" /\ updated -> "INSERTED"
          [] OTHER                                       -> run[k].res]

(* An import that fails leaves the keys alone.                             *)
Runs(s, pending, import) ==
    IF import.res = "IO_ERROR" THEN {[k \in {} |-> {}]} ELSE LinkRuns(s, pending)

\* Mutant: an object that was there already is counted again.
UpdateSourceRecounted(import, run) ==
    /\ pool' = import.pool
    /\ outs' = import.outs
    /\ nobjs' = IF import.res = "IO_ERROR" THEN nobjs ELSE Incr(nobjs)
    /\ changed' = TRUE
    /\ links' = [k \in Keys |-> IF k \in DOMAIN run THEN run[k].link ELSE links[k]]
    /\ UNCHANGED <<streams, keys, dirs, refs, nkeys, nsrcs, gcQueued, gc>>

(* update_source, given the outcomes of its two halves.                    *)
UpdateSource(import, run) ==
    /\ pool' = import.pool
    /\ outs' = import.outs
    /\ nobjs' = IF import.res = "UPDATED" THEN Incr(nobjs) ELSE nobjs
    /\ changed' = (changed \/ import.res = "UPDATED")
    /\ links' = [k \in Keys |-> IF k \in DOMAIN run THEN run[k].link ELSE links[k]]
    /\ UNCHANGED <<streams, keys, dirs, refs, nkeys, nsrcs, gcQueued, gc>>

-----------------------------------------------------------------------------
\* Mutant: the link count is not looked at.
DeleteSourceAlways(s, others) ==
    /\ refs' = refs \ {s}
    /\ dirs' = IF outs[s] = {} THEN dirs \ {s} ELSE dirs
    /\ nsrcs' = IF outs[s] = {} THEN Decr(nsrcs) ELSE nsrcs

(* delete_source as delete_key calls it once the key's link is gone, where *)
(* others says whether a key still links the source.  delete_object is     *)
(* given the name of the link, "<format>:<hash>", which names no object:   *)
(* it deletes nothing, the directory of a source with a picture cannot be  *)
(* removed, and the function returns with .ref deleted.                    *)
DeleteSource(s, others) ==
    IF s \notin refs \/ others
      THEN UNCHANGED <<dirs, refs, nsrcs>>
      ELSE /\ refs' = refs \ {s}
           /\ dirs' = IF outs[s] = {} THEN dirs \ {s} ELSE dirs
           /\ nsrcs' = IF outs[s] = {} THEN Decr(nsrcs) ELSE nsrcs

(* delete_key: the stream key's own directory stays, and one priority      *)
(* counts as one stream.                                                   *)
DeleteKey(k) ==
    /\ k \in keys
    /\ links' = [links EXCEPT ![k] = Dropped(k)]
    /\ IF links[k] = {}
         THEN UNCHANGED <<dirs, refs, nsrcs>>
         ELSE DeleteSource(OldLink(k), \E j \in Keys : OldLink(k) \in links'[j])
    /\ IF links'[k] = {}
         THEN keys' = keys \ {k} /\ nkeys' = Decr(nkeys)
         ELSE UNCHANGED <<keys, nkeys>>
    /\ changed' = (changed \/ nkeys' # nkeys \/ nsrcs' # nsrcs)
    /\ UNCHANGED <<streams, outs, pool, nobjs, gcQueued, gc>>

(* lookup: a picture that is found marks the counters as changed, for its  *)
(* timestamps have; other lookups leave no trace.                          *)
Lookup(k) ==
    /\ \E s \in links[k] : outs[s] # {}
    /\ changed' = TRUE
    /\ UNCHANGED <<disk, nkeys, nsrcs, nobjs, gcQueued, gc>>

-----------------------------------------------------------------------------
Locals(phase, todo, rounds, deleted) ==
    [phase |-> phase, todo |-> todo, rounds |-> rounds, deleted |-> deleted]

Idle == Locals("idle", {}, MaxFailRounds, FALSE)

(* Manager::reset, rm -r of the whole cache.                               *)
Wipe ==
    /\ streams' = {} /\ keys' = {} /\ links' = [k \in Keys |-> {}]
    /\ dirs' = {} /\ refs' = {} /\ outs' = [s \in Sources |-> {}]
    /\ pool' = {}

(* The process ends, or is killed between two critical sections, and       *)
(* Manager::init reads the cache again: streams are counted by their       *)
(* directories.  If it cannot be read, it is wiped (Manager::reset).       *)
Restart ==
    /\ \/ UNCHANGED disk
       \/ /\ "count" \in Faults
          /\ Wipe
    /\ nkeys' = Cardinality(streams')
    /\ nsrcs' = Cardinality(dirs')
    /\ nobjs' = Cardinality(pool')
    /\ changed' = FALSE
    /\ gcQueued' = ExceedsLimits(nkeys', nsrcs', nobjs')
    /\ gc' = Idle

-----------------------------------------------------------------------------
(* do_gc on the background thread.  One critical section is one action:    *)
(* a look at the counters (the timestamps taken with it are abstracted: an *)
(* entry that nothing links to may be old or not), and the visit of one    *)
(* entry of a directory that was listed without the lock.                  *)
GCBegin ==
    /\ gc.phase = "idle"
    /\ gcQueued
    /\ gcQueued' = FALSE
    /\ gc' = Locals("begin", {}, MaxFailRounds, FALSE)
    /\ UNCHANGED <<disk, stats>>

GCCount(phase, next, listed) ==
    /\ gc.phase = phase
    /\ gc' = Locals(next, listed, gc.rounds, gc.deleted)
    /\ changed' = FALSE
    /\ UNCHANGED <<disk, nkeys, nsrcs, nobjs, gcQueued>>

GCCollect ==
    \/ GCCount("begin", "count sources", {})
    \/ GCCount("count sources", "count objects", {})
    \/ GCCount("count objects", "streams", streams)

Visited(x, removed) ==
    gc' = Locals(gc.phase, gc.todo \ {x}, gc.rounds, gc.deleted \/ removed)

\* Mutant: an entry that is kept makes the round a success.
KeepAsSuccess(x) ==
    /\ Visited(x, TRUE)
    /\ UNCHANGED <<disk, stats, gcQueued>>

Keep(x) ==
    /\ Visited(x, FALSE)
    /\ UNCHANGED <<disk, stats, gcQueued>>

\* Mutant: only the priorities are removed, the links of the keys survive.
RemoveStreamOnly(st) ==
    /\ Visited(st, TRUE)
    /\ streams' = streams \ {st}
    /\ keys' = {k \in keys : k[1] # st}
    /\ nkeys' = Decr(nkeys)
    /\ UNCHANGED <<links, dirs, refs, outs, pool, nsrcs, nobjs, changed, gcQueued>>

RemoveStream(st) ==
    /\ Visited(st, TRUE)
    /\ streams' = streams \ {st}
    /\ keys' = {k \in keys : k[1] # st}
    /\ links' = [k \in Keys |-> IF k[1] = st THEN {} ELSE links[k]]
    /\ nkeys' = Decr(nkeys)
    /\ UNCHANGED <<dirs, refs, outs, pool, nsrcs, nobjs, changed, gcQueued>>

(* rm -r fails, or ends half way: what is left is counted as removed, here *)
(* and for sources and objects.                                            *)
StreamRemains(st) ==
    /\ "rm" \in Faults
    /\ Visited(st, TRUE)
    /\ \E left \in SUBSET {k \in keys : k[1] = st} : \E linked \in SUBSET left :
          /\ keys' = {k \in keys : k[1] = st => k \in left}
          /\ links' = [k \in Keys |-> IF k[1] = st /\ k \notin linked THEN {} ELSE links[k]]
    /\ nkeys' = Decr(nkeys)
    /\ UNCHANGED <<streams, dirs, refs, outs, pool, nsrcs, nobjs, changed, gcQueued>>

(* A stream key directory that is gone by now is passed over ...           *)
GCVisitStream(st, old) ==
    /\ gc.phase = "streams"
    /\ st \in gc.todo
    /\ IF st \in streams /\ old THEN RemoveStream(st) \/ StreamRemains(st) ELSE Keep(st)

RemoveSource(s) ==
    /\ Visited(s, TRUE)
    /\ dirs' = dirs \ {s}
    /\ refs' = refs \ {s}
    /\ outs' = [outs EXCEPT ![s] = {}]
    /\ nsrcs' = Decr(nsrcs)
    /\ UNCHANGED <<streams, keys, links, pool, nkeys, nobjs, changed, gcQueued>>

SourceRemains(s) ==
    /\ "rm" \in Faults
    /\ Visited(s, TRUE)
    /\ refs' \in {refs, refs \ {s}}
    /\ \E left \in SUBSET outs[s] : outs' = [outs EXCEPT ![s] = left]
    /\ nsrcs' = Decr(nsrcs)
    /\ UNCHANGED <<streams, keys, links, dirs, pool, nkeys, nobjs, changed, gcQueued>>

(* ... a source whose .ref cannot be read, gone or not, is removed.        *)
GCVisitSource(s, old) ==
    /\ gc.phase = "sources"
    /\ s \in gc.todo
    /\ IF s \in refs /\ (Referenced(s) \/ ~old)
         THEN Keep(s) ELSE RemoveSource(s) \/ SourceRemains(s)

RemoveObject(o) ==
    /\ Visited(o, TRUE)
    /\ pool' = pool \ {o}
    /\ nobjs' = Decr(nobjs)
    /\ UNCHANGED <<streams, keys, links, dirs, refs, outs, nkeys, nsrcs, changed, gcQueued>>

ObjectRemains(o) ==
    /\ "rm" \in Faults
    /\ Visited(o, TRUE)
    /\ nobjs' = Decr(nobjs)
    /\ UNCHANGED <<disk, nkeys, nsrcs, changed, gcQueued>>

\* Mutant: an old object is removed whatever its link count.
GCVisitObjectOld(o, old) ==
    /\ gc.phase = "objects"
    /\ o \in gc.todo
    /\ IF o \in pool /\ ~old THEN Keep(o) ELSE RemoveObject(o)

GCVisitObject(o, old) ==
    /\ gc.phase = "objects"
    /\ o \in gc.todo
    /\ IF o \in pool /\ (ObjectReferenced(o) \/ ~old)
         THEN Keep(o) ELSE RemoveObject(o) \/ ObjectRemains(o)

GCNextListing ==
    /\ gc.todo = {}
    /\ \/ /\ gc.phase = "streams"
          /\ gc' = Locals("sources", dirs, gc.rounds, gc.deleted)
       \/ /\ gc.phase = "sources"
          /\ gc' = Locals("objects", pool, gc.rounds, gc.deleted)
       \/ /\ gc.phase = "objects"
          /\ gc' = Locals("end", {}, gc.rounds, gc.deleted)
    /\ UNCHANGED <<disk, stats, gcQueued>>

\* Mutant: a round that removes nothing is not counted.
GCRoundEndUncounted ==
    /\ gc.phase = "end"
    /\ IF (gc.deleted \/ gc.rounds > 0) /\ ExceedsLowerLimits(nkeys, nsrcs, nobjs)
         THEN /\ gc' = Locals("count sources", {}, MaxFailRounds, FALSE)
              /\ changed' = FALSE
         ELSE /\ gc' = Idle
              /\ UNCHANGED changed
    /\ UNCHANGED <<disk, nkeys, nsrcs, nobjs, gcQueued>>

(* The end of a round and the first count of the next one are one critical *)
(* section.                                                                *)
GCRoundEnd ==
    /\ gc.phase = "end"
    /\ IF (gc.deleted \/ gc.rounds > 0) /\ ExceedsLowerLimits(nkeys, nsrcs, nobjs)
         THEN /\ gc' = Locals("count sources", {},
                              IF gc.deleted THEN MaxFailRounds ELSE gc.rounds - 1, FALSE)
              /\ changed' = FALSE
         ELSE /\ gc' = Idle
              /\ UNCHANGED changed
    /\ UNCHANGED <<disk, nkeys, nsrcs, nobjs, gcQueued>>

GC ==
    \/ GCBegin \/ GCCollect \/ GCNextListing \/ GCRoundEnd
    \/ \E st \in StreamKeys, old \in BOOLEAN : GCVisitStream(st, old)
    \/ \E s \in Sources, old \in BOOLEAN : GCVisitSource(s, old)
    \/ \E o \in Objects, old \in BOOLEAN : GCVisitObject(o, old)

-----------------------------------------------------------------------------
Init ==
    /\ streams = {} /\ keys = {} /\ links = [k \in Keys |-> {}]
    /\ dirs = {} /\ refs = {} /\ outs = [s \in Sources |-> {}] /\ pool = {}
    /\ nkeys = 0 /\ nsrcs = 0 /\ nobjs = 0 /\ changed = FALSE
    /\ gcQueued = FALSE
    /\ gc = Idle

Next ==
    \/ \E k \in Keys, s \in Sources, queued, oldPending \in BOOLEAN :
          /\ oldPending => links[k] # {}
          /\ \E src \in MkSourceEntry(s) :
                \E out \in AddOutcomes(k, s, src, queued, oldPending) :
                    AddStreamKeyForSource(k, src, out)
    \/ \E s \in Sources, o \in Objects, pending \in SUBSET Keys :
          \E import \in Import(s, o) : \E run \in Runs(s, pending, import) :
             UpdateSource(import, run)
    \/ \E k \in Keys : DeleteKey(k) \/ Lookup(k)
    \/ Restart
    \/ GC

Spec == Init /\ [][Next]_vars

-----------------------------------------------------------------------------
(* The types of the variables, with what the directory tree gives for free:*)
(* a file is in a directory, a priority below a stream key.                *)
TypeOK ==
    /\ streams \subseteq StreamKeys /\ keys \subseteq Keys
    /\ \A k \in keys : k[1] \in streams
    /\ links \in [Keys -> SUBSET Sources]
    /\ \A k \in Keys \ keys : links[k] = {}
    /\ dirs \subseteq Sources /\ refs \subseteq dirs
    /\ outs \in [Sources -> SUBSET Objects]
    /\ \A s \in Sources \ dirs : outs[s] = {}
    /\ pool \subseteq Objects
    /\ nkeys \in 0..SizeMax /\ nsrcs \in 0..SizeMax /\ nobjs \in 0..SizeMax
    /\ changed \in BOOLEAN /\ gcQueued \in BOOLEAN
    /\ gc \in [phase : Phases, todo : SUBSET (StreamKeys \cup Sources \cup Objects),
               rounds : 0..MaxFailRounds, deleted : BOOLEAN]
    /\ gc.phase = "streams" => gc.todo \subseteq StreamKeys
    /\ gc.phase = "sources" => gc.todo \subseteq Sources
    /\ gc.phase = "objects" => gc.todo \subseteq Objects

(* A key never points to a source that is gone: delete_source and the      *)
(* garbage collector leave a source alone while a key links its .ref, no   *)
(* matter how their steps interleave with adding and updating.             *)
NoDanglingKey == \A k \in Keys : links[k] \subseteq refs

(* A source never names a picture that is gone from the object pool.       *)
NoDanglingPicture == \A s \in Sources : outs[s] \subseteq pool

(* "There is always only one file stored in any priority directory"        *)
(* (README): re-linking a key, also when link(2) fails half way, never     *)
(* leaves two links.                                                       *)
OneSourcePerKey == \A k \in Keys : \A s, t \in links[k] : s = t

(* The object counter is what a scan of the pool finds; the decision to    *)
(* collect garbage and when to stop rest on it.  Only removals that fail   *)
(* break it, until the next start.                                         *)
ObjectCountExact == "rm" \notin Faults => nobjs = Cardinality(pool)

(* A picture a client can see through a key stays available for as long as *)
(* the key is not re-linked or deleted: no deletion of other keys, no      *)
(* update, no garbage collection takes it away from under the key.         *)
PictureKept(k) ==
    \A s \in links[k] \cap links'[k] : s \in dirs' /\ outs[s] \subseteq outs'[s] /\ outs[s] \subseteq pool'
LivePictureKept == [][\A k \in Keys : PictureKept(k)]_vars

(* Every step of a collection takes it nearer to its end: there is less    *)
(* left to remove, or fewer rounds that may fail, or less of the round is  *)
(* left.  A source that was listed and is gone counts as removed, so it is *)
(* left until it is visited; so is a removal until the end of its round.   *)
Remaining ==
    LET listed == IF gc.phase = "sources" THEN gc.todo ELSE {}
    IN  Cardinality(streams) + Cardinality(dirs \cup listed) + Cardinality(pool)
          + (IF gc.deleted THEN 1 ELSE 0)

PhasesLeft(phase) ==
    CASE phase = "begin"         -> 6
      [] phase = "count sources" -> 5
      [] phase = "count objects" -> 4
      [] phase = "streams"       -> 3
      [] phase = "sources"       -> 2
      [] phase = "objects"       -> 1
      [] phase = "end"           -> 0

CollectionShrinks ==
    [][gc.phase # "idle" /\ "rm" \notin Faults /\ GC =>
          \/ gc'.phase = "idle"
          \/ Remaining' < Remaining
          \/ Remaining' = Remaining /\ gc'.rounds < gc.rounds
          \/ /\ Remaining' = Remaining /\ gc'.rounds = gc.rounds
             /\ \/ PhasesLeft(gc'.phase) < PhasesLeft(gc.phase)
                \/ gc'.phase = gc.phase /\ Cardinality(gc'.todo) < Cardinality(gc.todo)]_vars

(* What compute_threshold expects of the first round of a collection: the  *)
(* streams it found are the streams that were counted.                     *)
StreamCountExpected ==
    gc.phase = "begin" /\ changed => nkeys = Cardinality(streams)

(* What delete_key promises: a source left unreferenced is removed.        *)
DeleteKeyRemovesSource ==
    [][\A k \in Keys, s \in Sources :
          DeleteKey(k) /\ s \in links[k] /\ (\A j \in Keys : s \notin links'[j])
             => s \notin dirs']_vars
=============================================================================
