----------------------------- MODULE Collector -----------------------------
(***************************************************************************)
(* The hot path: what a lookup leaves behind in the access times of files, *)
(* and how the garbage collector chooses by them.  ArtCache leaves open    *)
(* which entries are old; here their timestamps say so.                    *)
(*                                                                         *)
(* A picture that is found stamps four files with the hot path clock: the  *)
(* object directory, the object, the stream key's directory and the        *)
(* source's .ref.  The stamp of the object directory is what the clock     *)
(* starts from after a restart.  Stream key directories and objects are    *)
(* made without a stamp of their own, they show the time of day.           *)
(***************************************************************************)
EXTENDS ArtCache, Timestamp

CONSTANTS
    FirstDay,       \* the time of day when the cache is made ...
    LastDay,        \* ... and bound: the time of day stands still here
    MaxRequests     \* bound: requests that change the cache, and kills amid
                    \* a lookup or a reset

ASSUME CollectorAssumption ==
    /\ FirstDay \in Times /\ LastDay \in Times
    /\ AtLeast(LastDay, FirstDay)
    /\ MaxRequests \in Nat
    /\ "count" \notin Faults    \* a cache that cannot be read is wiped

VARIABLES
    atime,      \* access times of stream key directories, .refs and objects
    rootTime,   \* access time of the object directory
    clock,      \* timestamp_for_hot_path_
    day,        \* the time of day
    resetQueued,\* Action::RESET_TIMESTAMPS waits in the background task's queue
    scan,       \* streams_minmax, sources_minmax, objects_minmax, thresholds
    round,      \* the other locals of do_gc and decimate
    recent,     \* history: stream keys that have been looked up, each paired
                \* with itself and with those looked up after it
    inOrder,    \* history: the clock has not run out, and no reset was cut off
    requests,   \* history: how many of them there were
    touched,    \* history: stream keys looked up while streams are decimated
    setBack     \* history: the kinds of files of which a lookup in this
                \* collection has set a stamp back

files == <<atime, rootTime, clock, day, resetQueued>>
locals == <<scan, round>>
history == <<recent, inOrder, touched, setBack, requests>>
cvars == <<vars, files, locals, history>>

Kinds == {"streams", "sources", "objects"}

-----------------------------------------------------------------------------
(* The files of each kind that carry a timestamp, now and then.            *)
Stamped == [streams |-> streams, sources |-> refs, objects |-> pool]

Untouched == [streams |-> [st \in StreamKeys |-> Zero],
              sources |-> [s \in Sources |-> Zero],
              objects |-> [o \in Objects |-> Zero]]

(* A file that is made gets the time of day, but for a .ref, which touch   *)
(* stamps with the clock as it stands.                                     *)
FilesMadeAndGone ==
    /\ day' \in {day} \cup
         When(day # LastDay /\ (streams' \ streams) \cup (pool' \ pool) # {},
              Increment(Clock(day)).time)
    /\ atime' = [streams |-> [st \in StreamKeys |->
                                CASE st \notin streams' -> Zero
                                  [] st \in streams' \ streams -> day
                                  [] OTHER -> atime.streams[st]],
                 sources |-> [s \in Sources |->
                                CASE s \notin refs' -> Zero
                                  [] s \in refs' \ refs -> clock.time
                                  [] OTHER -> atime.sources[s]],
                 objects |-> [o \in Objects |->
                                CASE o \notin pool' -> Zero
                                  [] o \in pool' \ pool -> day
                                  [] OTHER -> atime.objects[o]]]

-----------------------------------------------------------------------------
Bounded ==
    /\ requests < MaxRequests
    /\ requests' = requests + 1

(* Requests and jobs, as in ArtCache: none of them stamps what is there,   *)
(* also not an added key that exists.                                      *)
Requests ==
    /\ Bounded
    /\ \/ \E k \in Keys, s \in Sources, queued, oldPending \in BOOLEAN :
             /\ oldPending => links[k] # {}
             /\ \E src \in MkSourceEntry(s) :
                   \E out \in AddOutcomes(k, s, src, queued, oldPending) :
                       AddStreamKeyForSource(k, src, out)
       \/ \E s \in Sources, o \in Objects, pending \in SUBSET Keys :
             \E import \in Import(s, o) : \E run \in Runs(s, pending, import) :
                UpdateSource(import, run)
       \/ \E k \in Keys : DeleteKey(k)
    /\ FilesMadeAndGone
    /\ UNCHANGED <<rootTime, clock, resetQueued, locals, recent, inOrder, touched, setBack>>

-----------------------------------------------------------------------------
(* What the lookups say of the order of use, whatever they have stamped.   *)
Used(st, complete) ==
    /\ inOrder' = (inOrder /\ ~Increment(clock).overflown)
    /\ recent' = IF ~inOrder' THEN {}
                 ELSE IF complete
                   THEN {p \in recent : p[1] # st /\ p[2] # st}
                        \cup ({p[1] : p \in recent} \cup {st}) \X {st}
                   ELSE recent

\* Mutant: the object directory comes last.
StampRootLast(st, s, o, t, n) ==
    /\ rootTime' = IF n >= 4 THEN t ELSE rootTime
    /\ atime' = [atime EXCEPT !.objects[o] = t,
                              !.streams[st] = IF n >= 2 THEN t ELSE @,
                              !.sources[s] = IF n >= 3 THEN t ELSE @]
    /\ Used(st, n >= 2)

(* The stamps of mark_hot_path, up to the n-th of its four calls.          *)
Stamp(st, s, o, t, n) ==
    /\ rootTime' = t
    /\ atime' = [atime EXCEPT !.objects[o] = IF n >= 2 THEN t ELSE @,
                              !.streams[st] = IF n >= 3 THEN t ELSE @,
                              !.sources[s] = IF n >= 4 THEN t ELSE @]
    /\ Used(st, n >= 3)

(* The streams are being decimated, no stream key is ahead of the stamp    *)
(* that this lookup sets, and none has been set back.                      *)
Fresh ==
    /\ gc.phase = "streams" /\ "streams" \notin setBack
    /\ ~Increment(clock).overflown
    /\ \A st \in streams : AtLeast(Increment(clock).time, atime.streams[st])

(* A lookup amid a collection that stamps a file with an earlier time than *)
(* it shows.                                                               *)
SetsBack(st, o, t) ==
    setBack' = setBack
        \cup When(gc.phase # "idle" /\ Later(atime.streams[st], t), "streams")
        \cup When(gc.phase # "idle" /\ Later(atime.objects[o], t), "objects")

\* Mutant: the clock ticks after the stamps.
LookTickLater(k, hint) ==
    /\ Lookup(k)
    /\ clock' = Increment(clock)
    /\ \E s \in links[k] : \E o \in outs[s] :
          Stamp(k[1], s, o, clock.time, 4) /\ SetsBack(k[1], o, clock.time)
    /\ resetQueued' = (resetQueued \/ (clock'.overflown /\ ~hint))
    /\ touched' = (touched \ {k[1]}) \cup When(Fresh, k[1])
    /\ UNCHANGED <<day, locals, requests>>

(* A lookup that finds a picture.  One that comes with a hint, the hash of *)
(* the object the client has, does not look whether the clock has run out. *)
Look(k, hint) ==
    /\ Lookup(k)
    /\ clock' = Increment(clock)
    /\ \E s \in links[k] : \E o \in outs[s] :
          Stamp(k[1], s, o, clock'.time, 4) /\ SetsBack(k[1], o, clock'.time)
    /\ resetQueued' = (resetQueued \/ (clock'.overflown /\ ~hint))
    /\ touched' = (touched \ {k[1]}) \cup When(Fresh, k[1])
    /\ UNCHANGED <<day, locals, requests>>

-----------------------------------------------------------------------------
NoScan == [kind \in Kinds |-> [lo |-> Infinity, hi |-> MinusInfinity, limit |-> Zero]]
NoRound == [need |-> TRUE, dirty |-> FALSE, oldest |-> Infinity, removed |-> FALSE]

(* do_reset_all_timestamps, one critical section of the manager.           *)
ResetAll ==
    /\ gc.phase = "idle"
    /\ resetQueued
    /\ resetQueued' = FALSE
    /\ clock' = Clock(Zero)
    /\ rootTime' = Zero
    /\ atime' = Untouched
    /\ recent' = {} /\ inOrder' = TRUE
    /\ UNCHANGED <<vars, day, locals, touched, setBack, requests>>

(* The process ends, or is killed, between critical sections ...           *)
Reboot ==
    /\ Restart
    /\ resetQueued' = FALSE
    /\ clock' = Clock(rootTime')
    /\ scan' = NoScan /\ round' = NoRound
    /\ touched' = {} /\ setBack' = {}
    /\ UNCHANGED day

Rebooted == UNCHANGED <<atime, rootTime, recent, inOrder, requests>> /\ Reboot

(* ... or amid the stamps of a lookup ...                                  *)
LookCut ==
    /\ Bounded
    /\ \E k \in Keys, n \in 1..3 : \E s \in links[k] : \E o \in outs[s] :
          Stamp(k[1], s, o, Increment(clock).time, n)
    /\ Reboot

(* ... or amid a reset, which nobody begins again: some stream keys are    *)
(* done, or all of them and some sources, or these and some objects.       *)
ResetCut ==
    /\ Bounded
    /\ gc.phase = "idle"
    /\ resetQueued
    /\ rootTime' = Zero
    /\ \E sts \in SUBSET streams, srcs \in SUBSET refs, objs \in SUBSET pool :
         /\ srcs # {} => sts = streams
         /\ objs # {} => srcs = refs /\ sts = streams
         /\ atime' = [streams |-> [st \in StreamKeys |-> IF st \in sts THEN Zero ELSE atime.streams[st]],
                      sources |-> [s \in Sources |-> IF s \in srcs THEN Zero ELSE atime.sources[s]],
                      objects |-> [o \in Objects |-> IF o \in objs THEN Zero ELSE atime.objects[o]]]
    /\ inOrder' = FALSE
    /\ recent' = {}
    /\ Reboot

-----------------------------------------------------------------------------
(* The garbage collector.  A traversal of the files of one kind widens     *)
(* what earlier ones have found; the set holds just one scan.              *)
Found(kind) == {atime[kind][x] : x \in Stamped[kind]}

Oldest(times) == {t \in times : \A u \in times : AtLeast(u, t)}
Youngest(times) == {t \in times : \A u \in times : AtLeast(t, u)}

Scanned(kind) ==
    {[scan EXCEPT ![kind] = [lo |-> lo, hi |-> hi, limit |-> @.limit]] :
        lo \in Oldest(Found(kind) \cup {scan[kind].lo}),
        hi \in Youngest(Found(kind) \cup {scan[kind].hi})}

ScanIfNeeded(kind) == IF round.need THEN Scanned(kind) ELSE {scan}

WithLimits(sc) ==
    [kind \in Kinds |->
        [lo |-> sc[kind].lo, hi |-> sc[kind].hi,
         limit |-> Threshold(sc[kind].lo, sc[kind].hi, round.removed)]]

Begin ==
    /\ GCBegin
    /\ UNCHANGED <<files, locals, history>>

StreamsCounted(rd) ==
    /\ scan' \in ScanIfNeeded("streams")
    /\ round' = [rd EXCEPT !.dirty = changed]
    /\ UNCHANGED <<files, history>>

CountStreams ==
    /\ GCCount("begin", "count sources", {})
    /\ StreamsCounted(round)

CountSources ==
    /\ GCCount("count sources", "count objects", {})
    /\ scan' \in ScanIfNeeded("sources")
    /\ round' = [round EXCEPT !.dirty = @ \/ changed]
    /\ UNCHANGED <<files, history>>

(* The last look before the thresholds are computed; what has changed by   *)
(* then decides whether the next round looks again.                        *)
CountObjects ==
    /\ GCCount("count objects", "streams", streams)
    /\ \E sc \in ScanIfNeeded("objects") : scan' = WithLimits(sc)
    /\ round' = [round EXCEPT !.need = round.dirty \/ changed, !.dirty = FALSE]
    /\ UNCHANGED <<files, history>>

\* Mutant: off by one, the entry at the limit goes as well.
OldOrAtLimit(kind, x) == ~Later(atime[kind][x], scan[kind].limit)

Old(kind, x) == ~AtLeast(atime[kind][x], scan[kind].limit)

Visit(kind, x, kept) ==
    /\ round' = IF kept THEN [round EXCEPT !.oldest = Earliest(@, atime[kind][x])] ELSE round
    /\ FilesMadeAndGone
    /\ recent' = recent \cap (streams' \X streams')
    /\ UNCHANGED <<rootTime, clock, resetQueued, scan, inOrder, touched, setBack, requests>>

Decimate ==
    \/ \E st \in StreamKeys :
          /\ GCVisitStream(st, Old("streams", st))
          /\ Visit("streams", st, st \in streams /\ ~Old("streams", st))
    \/ \E s \in Sources :
          /\ GCVisitSource(s, Old("sources", s))
          /\ Visit("sources", s, s \in refs /\ (Referenced(s) \/ ~Old("sources", s)))
    \/ \E o \in Objects :
          /\ GCVisitObject(o, Old("objects", o))
          /\ Visit("objects", o, o \in pool /\ (ObjectReferenced(o) \/ ~Old("objects", o)))

(* The oldest entry that is left is the minimum from then on.              *)
Decimated ==
    /\ GCNextListing
    /\ scan' = IF round.oldest[1] < SecMax
                 THEN [scan EXCEPT ![gc.phase].lo = round.oldest] ELSE scan
    /\ round' = [round EXCEPT !.oldest = Infinity]
    /\ touched' = {}
    /\ UNCHANGED <<files, recent, inOrder, setBack, requests>>

RoundEnd ==
    /\ GCRoundEnd
    /\ IF gc'.phase = "idle"
         THEN /\ scan' = NoScan /\ round' = NoRound /\ setBack' = {}
              /\ UNCHANGED <<files, recent, inOrder, touched, requests>>
         ELSE StreamsCounted([round EXCEPT !.removed = @ \/ gc.deleted])

Background ==
    \/ ResetAll
    \/ Begin \/ CountStreams \/ CountSources \/ CountObjects
    \/ Decimate \/ Decimated \/ RoundEnd

-----------------------------------------------------------------------------
(* The first start has made the object directory and has reset its stamp,  *)
(* or was killed in between and has been followed by another.              *)
CInit ==
    /\ Init
    /\ atime = Untouched
    /\ rootTime \in {Zero, FirstDay}
    /\ clock = Clock(rootTime)
    /\ day = FirstDay
    /\ resetQueued = FALSE
    /\ scan = NoScan /\ round = NoRound
    /\ recent = {} /\ inOrder = TRUE /\ touched = {} /\ setBack = {} /\ requests = 0

CNext ==
    \/ Requests
    \/ \E k \in Keys, hint \in BOOLEAN : Look(k, hint)
    \/ Rebooted \/ LookCut \/ ResetCut
    \/ Background

CSpec == CInit /\ [][CNext]_cvars

-----------------------------------------------------------------------------
(* What the clock shows and what the files carry are times: a microsecond  *)
(* field is never full, and a clock that has run out is stuck, not reset.  *)
CTypeOK ==
    /\ atime \in [streams : [StreamKeys -> Times], sources : [Sources -> Times],
                  objects : [Objects -> Times]]
    /\ rootTime \in Times /\ clock \in Clocks /\ day \in Times

(* The access times of the stream keys tell in which order they were last  *)
(* looked up, whatever restarts and kills came in between, amid a lookup   *)
(* too: this is what "least recently used" rests on.  It holds until the   *)
(* clock runs out, and again after a reset that was not cut off.           *)
UseOrder ==
    inOrder => \A p \in recent : p[1] # p[2] =>
        Later(atime.streams[p[2]], atime.streams[p[1]])

(* A stream key that is looked up after the thresholds were computed is    *)
(* not removed by that round, wherever the traversal stands: the stamp is  *)
(* read when the entry is visited.  (The stamp of a clock that lags behind *)
(* what other stream keys show does not help, see Fresh.)                  *)
HotPathKept == touched \subseteq streams

(* The collector only ever removes a stream key while one with a later     *)
(* stamp stays, so it never takes the latest one, and never all: also when *)
(* keys come and are looked up meanwhile, and in a round that goes by the  *)
(* youngest entry of an earlier scan and the oldest one that was left.     *)
(* The same is true of the pictures, be they linked or not.                *)
(* It holds as long as no lookup meanwhile sets a stamp back: a clock that *)
(* has run out, or has been reset half way, or is behind the time of day   *)
(* which new stream keys and pictures show, turns the hottest one into the *)
(* coldest.                                                                *)
LatestKept ==
    [][\A kind \in {"streams", "objects"} \ setBack : \A x \in Stamped[kind] \ Stamped'[kind] :
          \E other \in Stamped'[kind] : Later(atime[kind][other], atime[kind][x])]_cvars
=============================================================================
