-------------------------- MODULE CollectorProofs --------------------------
(***************************************************************************)
(* Proofs about Collector, for every set of stream keys, sources and       *)
(* objects, every limit, every width of the timestamps, and any number of  *)
(* requests.                                                               *)
(***************************************************************************)
EXTENDS Collector, ArtCacheProofs, TimestampProofs

(* The collector that goes by timestamps is one of those that the cache    *)
(* manager's module allows: what is proved of ArtCache holds here.         *)
LEMMA StepIsCacheStep == [CNext]_cvars => [Next]_vars
<1>1. ASSUME Requests PROVE Next
  BY <1>1 DEF Requests, Next
<1>2. ASSUME NEW k \in Keys, NEW hint \in BOOLEAN, Look(k, hint) PROVE Next
  BY <1>2 DEF Look, Next
<1>3. ASSUME Rebooted \/ LookCut \/ ResetCut PROVE Next
  BY <1>3 DEF Rebooted, LookCut, ResetCut, Reboot, Next
<1>4. ASSUME Background PROVE Next \/ UNCHANGED vars
  <2>1. CASE ResetAll
    BY <2>1 DEF ResetAll
  <2>2. CASE Begin \/ CountStreams \/ CountSources \/ CountObjects
    BY <2>2 DEF Begin, CountStreams, CountSources, CountObjects, Next, GC, GCCollect
  <2>3. CASE Decimate
    <3>1. \A kind, x : Old(kind, x) \in BOOLEAN
      BY DEF Old, AtLeast
    <3>2. \/ \E st \in StreamKeys : GCVisitStream(st, Old("streams", st))
          \/ \E s \in Sources : GCVisitSource(s, Old("sources", s))
          \/ \E o \in Objects : GCVisitObject(o, Old("objects", o))
      BY <2>3 DEF Decimate
    <3>. QED  BY <3>1, <3>2 DEF Next, GC
  <2>4. CASE Decimated \/ RoundEnd
    BY <2>4 DEF Decimated, RoundEnd, Next, GC
  <2>. QED  BY <1>4, <2>1, <2>2, <2>3, <2>4 DEF Background
<1>5. UNCHANGED cvars => UNCHANGED vars
  BY DEF cvars
<1>. QED  BY <1>1, <1>2, <1>3, <1>4, <1>5 DEF CNext

(* Collector implements ArtCache.                                          *)
THEOREM CollectorIsCache == CSpec => Spec
<1>1. CInit => Init
  BY DEF CInit
<1>. QED  BY <1>1, StepIsCacheStep, PTL DEF CSpec, Spec

-----------------------------------------------------------------------------
(* Why the order of use is kept: the clock is never behind the object      *)
(* directory, and that is never behind a stream key that was looked up.    *)
OrderInv ==
    /\ CTypeOK
    /\ clock.time = rootTime
    /\ recent \subseteq streams \X streams
    /\ inOrder => \A p \in recent :
          /\ AtLeast(rootTime, atime.streams[p[1]])
          /\ AtLeast(rootTime, atime.streams[p[2]])
    /\ UseOrder

LEMMA ZeroIsTime == Zero \in Times
BY TimestampAssumption DEF Zero, Times

LEMMA ClockOfTime == ASSUME NEW t \in Times PROVE Clock(t) \in Clocks /\ Clock(t).time = t
BY DEF Clock, Clocks

LEMMA TimeOrder ==
    ASSUME NEW a \in Int \X Int, NEW b \in Int \X Int, NEW c \in Int \X Int
    PROVE  /\ AtLeast(a, a)
           /\ Later(a, b) => AtLeast(a, b)
           /\ Later(a, b) <=> ~AtLeast(b, a)
           /\ AtLeast(a, b) /\ AtLeast(b, c) => AtLeast(a, c)
           /\ Later(a, b) /\ AtLeast(b, c) => Later(a, c)
BY DEF AtLeast, Later

LEMMA TimesArePairs == Times \subseteq Int \X Int
BY TimestampAssumption DEF Times

(* Stream keys and pictures that stay keep their stamps while files come   *)
(* and go.                                                                 *)
LEMMA MadeAndGone ==
    ASSUME TypeOK, TypeOK', CTypeOK, FilesMadeAndGone, UNCHANGED <<rootTime, clock>>
    PROVE  /\ CTypeOK'
           /\ \A st \in streams \cap streams' : atime'.streams[st] = atime.streams[st]
           /\ \A o \in pool \cap pool' : atime'.objects[o] = atime.objects[o]
<1>1. /\ streams \subseteq StreamKeys /\ streams' \subseteq StreamKeys
      /\ pool \subseteq Objects /\ pool' \subseteq Objects
      /\ clock.time \in Times
  BY DEF TypeOK, CTypeOK, Clocks
<1>2. day' \in Times
  <2>1. Increment(Clock(day)).time \in Times
    BY IncrementTicks, ClockOfTime DEF CTypeOK, Clocks
  <2>. QED  BY <2>1 DEF FilesMadeAndGone, When, CTypeOK
<1>3. atime' \in [streams : [StreamKeys -> Times], sources : [Sources -> Times],
                  objects : [Objects -> Times]]
  <2>1. /\ atime.streams \in [StreamKeys -> Times]
        /\ atime.sources \in [Sources -> Times]
        /\ atime.objects \in [Objects -> Times]
        /\ day \in Times
    BY DEF CTypeOK
  <2>. QED  BY <1>1, <2>1, ZeroIsTime DEF FilesMadeAndGone
<1>4. /\ \A st \in streams \cap streams' : atime'.streams[st] = atime.streams[st]
      /\ \A o \in pool \cap pool' : atime'.objects[o] = atime.objects[o]
  BY <1>1 DEF FilesMadeAndGone
<1>. QED  BY <1>2, <1>3, <1>4 DEF CTypeOK

LEMMA OrderInit == CInit => OrderInv
BY ZeroIsTime, ClockOfTime, CollectorAssumption, TimestampAssumption
   DEF CInit, OrderInv, CTypeOK, UseOrder, Untouched, Init

(* What a lookup stamps, also one that is cut off.                         *)
LEMMA StampStep ==
    ASSUME IInv, OrderInv, NEW k \in Keys, NEW s \in Sources, NEW o \in Objects, NEW n \in 1..4,
           s \in links[k], Stamp(k[1], s, o, Increment(clock).time, n), UNCHANGED streams
    PROVE  /\ atime' \in [streams : [StreamKeys -> Times], sources : [Sources -> Times],
                           objects : [Objects -> Times]]
           /\ rootTime' \in Times
           /\ rootTime' = Increment(clock).time
           /\ \A st \in StreamKeys \ {k[1]} : atime'.streams[st] = atime.streams[st]
           /\ n >= 3 => atime'.streams[k[1]] = rootTime'
           /\ n < 3 => atime'.streams[k[1]] = atime.streams[k[1]]
           /\ \A x \in Objects \ {o} : atime'.objects[x] = atime.objects[x]
           /\ n >= 2 => atime'.objects[o] = rootTime'
           /\ recent' \subseteq streams' \X streams'
           /\ inOrder' => \A p \in recent' :
                 /\ AtLeast(rootTime', atime'.streams[p[1]])
                 /\ AtLeast(rootTime', atime'.streams[p[2]])
           /\ UseOrder'
<1> DEFINE st == k[1]
           t == Increment(clock).time
<1>1. k \in keys /\ st \in streams /\ st \in StreamKeys /\ streams \subseteq StreamKeys
  BY DEF IInv, TypeOK, Keys
<1>2. Increment(clock) \in Clocks /\ t \in Times /\ clock.time \in Times
  BY IncrementTicks DEF OrderInv, CTypeOK, Clocks
<1>3. /\ atime \in [streams : [StreamKeys -> Times], sources : [Sources -> Times],
                      objects : [Objects -> Times]]
      /\ rootTime \in Times
  BY DEF OrderInv, CTypeOK
<1>4. atime' = [atime EXCEPT !.objects[o] = IF n >= 2 THEN t ELSE @,
                             !.streams[st] = IF n >= 3 THEN t ELSE @,
                             !.sources[s] = IF n >= 4 THEN t ELSE @]
  BY DEF Stamp
<1>. HIDE DEF st, t
<1>5. /\ atime' \in [streams : [StreamKeys -> Times], sources : [Sources -> Times],
                      objects : [Objects -> Times]]
      /\ atime'.streams = [atime.streams EXCEPT ![st] = IF n >= 3 THEN t ELSE @]
      /\ atime'.objects = [atime.objects EXCEPT ![o] = IF n >= 2 THEN t ELSE @]
  BY <1>1, <1>2, <1>3, <1>4
<1>6. /\ \A x \in StreamKeys \ {st} : atime'.streams[x] = atime.streams[x]
      /\ n >= 3 => atime'.streams[st] = t
      /\ n < 3 => atime'.streams[st] = atime.streams[st]
      /\ \A x \in Objects \ {o} : atime'.objects[x] = atime.objects[x]
      /\ n >= 2 => atime'.objects[o] = t
  BY <1>1, <1>3, <1>5
<1>7. rootTime' = t /\ Used(st, n >= 3)
  BY DEF Stamp, st, t
<1>8. inOrder' => /\ inOrder /\ Later(t, rootTime)
                  /\ \A p \in recent :
                        /\ Later(t, atime.streams[p[1]])
                        /\ Later(t, atime.streams[p[2]])
  <2>1. inOrder' => inOrder /\ Later(t, rootTime)
    BY <1>7, IncrementTicks DEF Used, OrderInv, CTypeOK, t
  <2>2. \A p \in recent : p[1] \in StreamKeys /\ p[2] \in StreamKeys
    BY <1>1 DEF OrderInv
  <2>. QED  BY <1>2, <1>3, <2>1, <2>2, TimeOrder, TimesArePairs DEF OrderInv
<1>9. /\ recent' \subseteq streams' \X streams'
      /\ \A p \in recent' :
            \/ p \in recent /\ (n >= 3 => p[1] # st /\ p[2] # st)
            \/ n >= 3 /\ p[2] = st /\ (p[1] = st \/ \E q \in recent : q[1] = p[1])
  BY <1>1, <1>7 DEF Used, OrderInv
<1>10. ASSUME inOrder', NEW p \in recent'
       PROVE  /\ AtLeast(rootTime', atime'.streams[p[1]])
              /\ AtLeast(rootTime', atime'.streams[p[2]])
              /\ p[1] # p[2] => Later(atime'.streams[p[2]], atime'.streams[p[1]])
  <2>1. \A x \in StreamKeys : atime.streams[x] \in Int \X Int /\ t \in Int \X Int
    BY <1>2, <1>3, TimesArePairs
  <2>2. p[1] \in StreamKeys /\ p[2] \in StreamKeys
    BY <1>1, <1>9
  <2>3. CASE p \in recent /\ (n >= 3 => p[1] # st /\ p[2] # st)
    <3>1. /\ atime'.streams[p[1]] = atime.streams[p[1]]
          /\ atime'.streams[p[2]] = atime.streams[p[2]]
      BY <1>6, <2>2, <2>3
    <3>. QED  BY <1>7, <1>8, <1>10, <2>1, <2>2, <2>3, <3>1, TimeOrder DEF OrderInv, UseOrder
  <2>4. CASE n >= 3 /\ p[2] = st /\ (p[1] = st \/ \E q \in recent : q[1] = p[1])
    <3>1. atime'.streams[p[2]] = t
      BY <1>6, <2>4
    <3>2. CASE p[1] = st
      BY <1>7, <2>1, <2>2, <2>4, <3>1, <3>2, TimeOrder
    <3>3. CASE p[1] # st
      <4>1. atime'.streams[p[1]] = atime.streams[p[1]]
        BY <1>6, <2>2, <3>3
      <4>2. Later(t, atime.streams[p[1]])
        BY <1>8, <1>10, <2>4, <3>3
      <4>. QED  BY <1>7, <2>1, <2>2, <3>1, <4>1, <4>2, TimeOrder
    <3>. QED  BY <3>2, <3>3
  <2>. QED  BY <1>9, <2>3, <2>4
<1>. QED  BY <1>2, <1>5, <1>6, <1>7, <1>9, <1>10 DEF UseOrder, st, t

(* The rest of the invariant once the variables it is about are known.     *)
LEMMA OrderRest ==
    ASSUME OrderInv, CTypeOK', clock'.time = rootTime', UNCHANGED inOrder,
           UNCHANGED rootTime \/ recent' = {},
           recent' \subseteq recent \cap (streams' \X streams'),
           \A st \in streams \cap streams' : atime'.streams[st] = atime.streams[st]
    PROVE  OrderInv'
<1>1. \A p \in recent' : /\ p \in recent
                         /\ atime'.streams[p[1]] = atime.streams[p[1]]
                         /\ atime'.streams[p[2]] = atime.streams[p[2]]
  BY DEF OrderInv
<1>. QED  BY <1>1 DEF OrderInv, UseOrder

LEMMA OrderStep == ASSUME IInv, IInv', OrderInv, [CNext]_cvars PROVE OrderInv'
<1>0. TypeOK /\ TypeOK' /\ CTypeOK
  BY DEF IInv, OrderInv
<1>1. ASSUME Requests PROVE OrderInv'
  <2>1. streams \subseteq streams'
    BY <1>1 DEF Requests, AddStreamKeyForSource, UpdateSource, DeleteKey
  <2>. QED  BY <1>0, <1>1, <2>1, MadeAndGone, OrderRest DEF Requests, OrderInv
<1>2. ASSUME NEW k \in Keys, NEW hint \in BOOLEAN, Look(k, hint) PROVE OrderInv'
  <2>1. PICK s \in links[k] : \E o \in outs[s] : Stamp(k[1], s, o, clock'.time, 4)
    BY <1>2 DEF Look
  <2>2. PICK o \in outs[s] : Stamp(k[1], s, o, clock'.time, 4)
    BY <2>1
  <2>3. s \in Sources /\ o \in Objects
    BY <1>0 DEF TypeOK
  <2>4. /\ UNCHANGED streams /\ clock' = Increment(clock) /\ UNCHANGED day
        /\ Stamp(k[1], s, o, Increment(clock).time, 4)
    BY <1>2, <2>2 DEF Look, Lookup, disk
  <2>5. clock' \in Clocks
    BY <1>0, <2>4, IncrementTicks DEF CTypeOK
  <2>. QED  BY <1>0, <2>3, <2>4, <2>5, StampStep DEF OrderInv, CTypeOK
<1>3. ASSUME Reboot PROVE UNCHANGED <<streams, day>> /\ clock' = Clock(rootTime')
  BY <1>3, CollectorAssumption DEF Reboot, Restart, disk
<1>4. ASSUME Rebooted PROVE OrderInv'
  BY <1>0, <1>3, <1>4, OrderRest, ClockOfTime DEF Rebooted, OrderInv, CTypeOK
<1>5. ASSUME LookCut PROVE OrderInv'
  <2>a. PICK k \in Keys, n \in 1..3 : \E s \in links[k] : \E o \in outs[s] :
          Stamp(k[1], s, o, Increment(clock).time, n)
    BY <1>5 DEF LookCut
  <2>1. PICK s \in links[k] : \E o \in outs[s] : Stamp(k[1], s, o, Increment(clock).time, n)
    BY <2>a
  <2>2. PICK o \in outs[s] : Stamp(k[1], s, o, Increment(clock).time, n)
    BY <2>1
  <2>3. s \in Sources /\ o \in Objects /\ n \in 1..4
    BY <1>0 DEF TypeOK
  <2>4. UNCHANGED <<streams, day>> /\ clock' = Clock(rootTime')
    BY <1>3, <1>5 DEF LookCut
  <2>. QED  BY <1>0, <2>2, <2>3, <2>4, StampStep, ClockOfTime DEF OrderInv, CTypeOK
<1>6. ASSUME ResetCut PROVE OrderInv'
  <2>1. UNCHANGED <<streams, day>> /\ clock' = Clock(Zero) /\ rootTime' = Zero
        /\ recent' = {} /\ inOrder' = FALSE
    BY <1>3, <1>6 DEF ResetCut
  <2>2. atime' \in [streams : [StreamKeys -> Times], sources : [Sources -> Times],
                    objects : [Objects -> Times]]
    BY <1>0, <1>6, ZeroIsTime DEF ResetCut, CTypeOK
  <2>. QED  BY <1>0, <2>1, <2>2, ZeroIsTime, ClockOfTime DEF OrderInv, CTypeOK, UseOrder
<1>7. ASSUME ResetAll PROVE OrderInv'
  BY <1>0, <1>7, ZeroIsTime, ClockOfTime DEF ResetAll, OrderInv, CTypeOK, UseOrder, Untouched
<1>8. ASSUME UNCHANGED <<streams, atime, rootTime, clock, day, recent, inOrder>> PROVE OrderInv'
  BY <1>8 DEF OrderInv, CTypeOK, UseOrder
<1>9. ASSUME Begin \/ CountStreams \/ CountSources \/ CountObjects \/ Decimated \/ RoundEnd
      PROVE  OrderInv'
  <2>1. UNCHANGED streams
    BY <1>9 DEF Begin, CountStreams, CountSources, CountObjects, Decimated, RoundEnd,
                GCBegin, GCCount, GCNextListing, GCRoundEnd, disk
  <2>2. UNCHANGED <<files, recent, inOrder>>
    BY <1>9 DEF Begin, CountStreams, CountSources, CountObjects, Decimated, RoundEnd,
                StreamsCounted, history
  <2>. QED  BY <1>8, <2>1, <2>2 DEF files
<1>10. ASSUME Decimate PROVE OrderInv'
  <2>1. /\ FilesMadeAndGone
        /\ recent' = recent \cap (streams' \X streams')
        /\ UNCHANGED <<rootTime, clock, inOrder>>
    BY <1>10 DEF Decimate, Visit
  <2>. QED  BY <1>0, <2>1, MadeAndGone, OrderRest DEF OrderInv
<1>11. ASSUME UNCHANGED cvars PROVE OrderInv'
  BY <1>8, <1>11 DEF cvars, vars, disk, files, history
<1>. QED  BY <1>1, <1>2, <1>4, <1>5, <1>6, <1>7, <1>9, <1>10, <1>11 DEF CNext, Background

LEMMA OrderInvariance == CSpec => [](IInv /\ OrderInv)
<1>1. CInit => IInv /\ OrderInv
  BY InitInv, OrderInit DEF CInit
<1>2. IInv /\ OrderInv /\ [CNext]_cvars => (IInv /\ OrderInv)'
  BY NextInv, StepIsCacheStep, OrderStep
<1>. QED  BY <1>1, <1>2, PTL DEF CSpec

(* The stamps are times: no field of one is ever full.                     *)
THEOREM StampsAreTimes == CSpec => []CTypeOK
<1>1. OrderInv => CTypeOK
  BY DEF OrderInv
<1>. QED  BY <1>1, OrderInvariance, PTL

(* The stamps tell the order of use, across restarts and kills.            *)
THEOREM UseIsOrdered == CSpec => []UseOrder
<1>1. OrderInv => UseOrder
  BY DEF OrderInv
<1>. QED  BY <1>1, OrderInvariance, PTL

-----------------------------------------------------------------------------
(* Why the latest stream key is kept, and the latest picture: whatever the *)
(* collector goes by, the youngest entry of the scan, the oldest one left  *)
(* by a round, or the limit made of them, there is an entry that is not    *)
(* behind it.  (Sources are also deleted by delete_key, whatever they      *)
(* show, so that this is not true of them.)                                *)
KeptKinds == {"streams", "objects"}

Reached(b, xs, at) ==
    (\A t \in Times : AtLeast(t, b)) \/ \E x \in xs : AtLeast(at[x], b)

ScanType ==
    /\ scan \in [Kinds -> [lo : Los, hi : His, limit : Int \X Int]]
    /\ round \in [need : BOOLEAN, dirty : BOOLEAN, oldest : Los, removed : BOOLEAN]

ScanReached(kind) ==
    /\ Reached(scan[kind].hi, Stamped[kind], atime[kind])
    /\ scan[kind].lo \in Times => Reached(scan[kind].lo, Stamped[kind], atime[kind])
    /\ gc.phase \in Kinds => Reached(scan[kind].limit, Stamped[kind], atime[kind])
    /\ gc.phase = kind /\ round.oldest \in Times =>
          Reached(round.oldest, Stamped[kind], atime[kind])

TouchedLater ==
    /\ touched \subseteq streams
    /\ touched # {} => gc.phase = "streams"
    /\ \A st \in touched : AtLeast(atime.streams[st], scan.streams.limit)

LatestInv ==
    /\ ScanType
    /\ gc.phase \in {"idle", "begin"} => scan = NoScan /\ round = NoRound
    /\ gc.phase \notin Kinds => round.oldest = Infinity
    /\ \A kind \in KeptKinds \ setBack : ScanReached(kind)
    /\ TouchedLater

(* What was reached stays reached while entries come, and stamps only      *)
(* grow.                                                                   *)
LEMMA ReachedStays ==
    ASSUME NEW b \in Int \X Int, NEW xs, NEW xs2, NEW at, NEW at2,
           Reached(b, xs, at),
           \A x \in xs : /\ x \in xs2
                         /\ at[x] \in Times /\ at2[x] \in Times
                         /\ AtLeast(at2[x], at[x])
    PROVE  Reached(b, xs2, at2)
BY TimeOrder, TimesArePairs DEF Reached

(* It stays so, too, when an entry goes that is behind a limit reached.    *)
LEMMA ReachedWithout ==
    ASSUME NEW b \in Int \X Int, NEW limit \in Int \X Int, NEW xs, NEW at, NEW at2, NEW gone \in xs,
           Reached(b, xs, at), Reached(limit, xs, at), ~AtLeast(at[gone], limit),
           \A x \in xs : at[x] \in Times,
           \A x \in xs \ {gone} : at2[x] = at[x]
    PROVE  Reached(b, xs \ {gone}, at2)
<1>1. PICK x \in xs : AtLeast(at[x], limit)
  BY DEF Reached
<1>2. x # gone /\ AtLeast(at[x], at[gone])
  BY <1>1, TimeOrder, TimesArePairs
<1>. QED  BY <1>1, <1>2, TimeOrder, TimesArePairs DEF Reached

LEMMA BoundsArePairs ==
    /\ Los \subseteq Int \X Int /\ His \subseteq Int \X Int
    /\ \A t \in Times : AtLeast(t, MinusInfinity)
    /\ Infinity \notin Times /\ Infinity[1] = SecMax
    /\ Zero \in Int \X Int
BY TimesArePairs, TimestampAssumption
   DEF Los, His, Infinity, MinusInfinity, SecMin, AtLeast, Times, Zero

(* The files of a kind show times, and what a scan has of it are pairs.    *)
LEMMA KindOfFile ==
    ASSUME TypeOK, CTypeOK, NEW kind \in KeptKinds
    PROVE  /\ kind \in Kinds
           /\ \A x \in Stamped[kind] : atime[kind][x] \in Times
           /\ ScanType => /\ scan[kind].hi \in Int \X Int /\ scan[kind].lo \in Int \X Int
                          /\ scan[kind].limit \in Int \X Int /\ round.oldest \in Int \X Int
<1>1. kind \in Kinds
  BY DEF Kinds, KeptKinds
<1>2. \A x \in Stamped[kind] : atime[kind][x] \in Times
  <2>1. CASE kind = "streams"
    BY <2>1 DEF Stamped, TypeOK, CTypeOK
  <2>2. CASE kind = "objects"
    BY <2>2 DEF Stamped, TypeOK, CTypeOK
  <2>. QED  BY <2>1, <2>2 DEF KeptKinds
<1>. QED  BY <1>1, <1>2, BoundsArePairs DEF ScanType

LEMMA NothingScanned ==
    /\ NoScan \in [Kinds -> [lo : Los, hi : His, limit : Int \X Int]]
    /\ NoRound \in [need : BOOLEAN, dirty : BOOLEAN, oldest : Los, removed : BOOLEAN]
    /\ NoRound.oldest = Infinity
    /\ \A kind \in KeptKinds : /\ NoScan[kind].lo \notin Times
                               /\ \A xs, at : Reached(NoScan[kind].hi, xs, at)
<1>1. \A kind \in KeptKinds : NoScan[kind].hi = MinusInfinity /\ NoScan[kind].lo = Infinity
  BY DEF NoScan, Kinds, KeptKinds
<1>2. /\ NoScan \in [Kinds -> [lo : Los, hi : His, limit : Int \X Int]]
      /\ NoRound \in [need : BOOLEAN, dirty : BOOLEAN, oldest : Los, removed : BOOLEAN]
      /\ NoRound.oldest = Infinity
  BY BoundsArePairs DEF NoScan, NoRound, Los, His
<1>. QED  BY <1>1, <1>2, BoundsArePairs DEF Reached

LEMMA LatestInit == CInit => LatestInv
<1>. SUFFICES ASSUME CInit PROVE LatestInv
  OBVIOUS
<1>1. gc.phase = "idle" /\ gc.phase \notin Kinds
  BY DEF CInit, Init, Idle, Locals, Kinds
<1>2. TouchedLater
  BY DEF CInit, TouchedLater
<1>3. \A kind \in KeptKinds : ScanReached(kind)
  BY <1>1, NothingScanned DEF CInit, ScanReached, KeptKinds, Kinds
<1>. QED  BY <1>1, <1>2, <1>3, NothingScanned DEF CInit, LatestInv, ScanType

(* Steps that leave the scan alone and take no entry of a kind.            *)
LEMMA KindGrows ==
    ASSUME TypeOK, TypeOK', CTypeOK, CTypeOK', ScanType, NEW kind \in KeptKinds, ScanReached(kind),
           UNCHANGED <<scan, round>>, gc'.phase = gc.phase,
           Stamped[kind] \subseteq Stamped'[kind],
           \A x \in Stamped[kind] : AtLeast(atime'[kind][x], atime[kind][x])
    PROVE  ScanReached(kind)'
<1>1. \A x \in Stamped'[kind] : atime'[kind][x] \in Times
  <2>1. CASE kind = "streams"
    BY <2>1 DEF Stamped, TypeOK, CTypeOK
  <2>2. CASE kind = "objects"
    BY <2>2 DEF Stamped, TypeOK, CTypeOK
  <2>. QED  BY <2>1, <2>2 DEF KeptKinds
<1>2. \A x \in Stamped[kind] : /\ x \in Stamped'[kind]
                               /\ atime[kind][x] \in Times
                               /\ atime'[kind][x] \in Times
                               /\ AtLeast(atime'[kind][x], atime[kind][x])
  BY <1>1, KindOfFile
<1>3. \A b \in Int \X Int : Reached(b, Stamped[kind], atime[kind]) =>
                            Reached(b, Stamped'[kind], atime'[kind])
  BY <1>2, ReachedStays
<1>. QED  BY <1>3, KindOfFile DEF ScanReached

LEMMA StampsGrow ==
    ASSUME TypeOK, TypeOK', CTypeOK, CTypeOK', LatestInv, UNCHANGED <<scan, round>>, gc'.phase = gc.phase,
           UNCHANGED setBack, UNCHANGED touched,
           streams \subseteq streams', pool \subseteq pool',
           \A st \in streams : AtLeast(atime'.streams[st], atime.streams[st]),
           \A o \in pool : AtLeast(atime'.objects[o], atime.objects[o])
    PROVE  LatestInv'
<1>1. ASSUME NEW kind \in KeptKinds \ setBack PROVE ScanReached(kind)'
  <2>1. Stamped[kind] \subseteq Stamped'[kind]
    BY DEF Stamped, KeptKinds
  <2>2. \A x \in Stamped[kind] : AtLeast(atime'[kind][x], atime[kind][x])
    BY DEF Stamped, KeptKinds
  <2>. QED  BY <2>1, <2>2, KindGrows DEF LatestInv
<1>2. TouchedLater'
  <2>1. \A st \in streams : /\ atime.streams[st] \in Int \X Int
                            /\ atime'.streams[st] \in Int \X Int
    BY TimesArePairs DEF TypeOK, CTypeOK
  <2>2. scan.streams.limit \in Int \X Int
    BY DEF LatestInv, ScanType, Kinds
  <2>. QED  BY <2>1, <2>2, TimeOrder DEF LatestInv, TouchedLater
<1>. QED  BY <1>1, <1>2 DEF LatestInv, ScanType

LEMMA LatestLook ==
    ASSUME IInv, IInv', OrderInv, OrderInv', LatestInv,
           NEW k \in Keys, NEW hint \in BOOLEAN, Look(k, hint)
    PROVE  LatestInv'
<1> DEFINE st == k[1]
<1>0. TypeOK /\ TypeOK' /\ CTypeOK /\ CTypeOK' /\ ScanType
  BY DEF IInv, OrderInv, LatestInv
<1>1. PICK s \in links[k] : \E o \in outs[s] :
        Stamp(k[1], s, o, clock'.time, 4) /\ SetsBack(k[1], o, clock'.time)
  BY DEF Look
<1>2. PICK o \in outs[s] : Stamp(k[1], s, o, clock'.time, 4) /\ SetsBack(k[1], o, clock'.time)
  BY <1>1
<1>3. s \in Sources /\ o \in Objects
  BY <1>0 DEF TypeOK
<1>4. /\ UNCHANGED <<streams, pool, gc, scan, round>> /\ clock' = Increment(clock)
      /\ touched' = (touched \ {st}) \cup When(Fresh, st)
      /\ SetsBack(st, o, clock'.time)
      /\ Stamp(k[1], s, o, Increment(clock).time, 4)
  BY <1>2 DEF Look, Lookup, disk, locals
<1>5. /\ \A x \in StreamKeys \ {st} : atime'.streams[x] = atime.streams[x]
      /\ atime'.streams[st] = clock'.time
      /\ \A x \in Objects \ {o} : atime'.objects[x] = atime.objects[x]
      /\ atime'.objects[o] = clock'.time
  BY <1>3, <1>4, StampStep
<1>6. /\ streams \subseteq StreamKeys /\ k \in keys /\ st \in streams /\ clock'.time \in Times
      /\ \A x \in streams : atime.streams[x] \in Times /\ atime'.streams[x] \in Times
      /\ pool \subseteq Objects /\ \A x \in Objects : atime.objects[x] \in Times
  BY <1>0 DEF TypeOK, CTypeOK, Clocks, Keys
<1>. HIDE DEF st
<1>7. scan.streams.limit \in Int \X Int
  BY DEF LatestInv, ScanType, Kinds
<1>8. ASSUME NEW kind \in KeptKinds \ setBack' PROVE ScanReached(kind)'
  <2>1. CASE gc.phase = "idle"
    <3>1. scan' = NoScan /\ gc'.phase \notin Kinds
      BY <1>4, <2>1 DEF LatestInv, Kinds
    <3>. QED  BY <3>1, NothingScanned DEF ScanReached, KeptKinds, Kinds
  <2>2. CASE gc.phase # "idle"
    <3>1. /\ kind \notin setBack
          /\ kind = "streams" => AtLeast(clock'.time, atime.streams[st])
          /\ kind = "objects" => AtLeast(clock'.time, atime.objects[o])
      BY <1>3, <1>4, <1>6, <2>2, TimeOrder, TimesArePairs DEF SetsBack, When
    <3>2. kind = "streams" => \A x \in streams : AtLeast(atime'.streams[x], atime.streams[x])
      BY <1>5, <1>6, <3>1, TimeOrder, TimesArePairs
    <3>3. kind = "objects" => \A x \in pool : AtLeast(atime'.objects[x], atime.objects[x])
      BY <1>5, <1>6, <3>1, TimeOrder, TimesArePairs
    <3>4. /\ Stamped[kind] \subseteq Stamped'[kind]
          /\ \A x \in Stamped[kind] : AtLeast(atime'[kind][x], atime[kind][x])
      BY <1>4, <3>2, <3>3 DEF Stamped, KeptKinds
    <3>. QED  BY <1>0, <1>4, <3>1, <3>4, KindGrows DEF LatestInv
  <2>. QED  BY <2>1, <2>2
<1>9. TouchedLater'
  <2>1. \A x \in touched \ {st} : /\ x \in streams'
                                  /\ AtLeast(atime'.streams[x], scan'.streams.limit)
    BY <1>4, <1>5, <1>6 DEF LatestInv, TouchedLater
  <2>2. ASSUME Fresh PROVE gc.phase = "streams" /\ AtLeast(clock'.time, scan.streams.limit)
    <3>1. Reached(scan.streams.limit, streams, atime.streams)
      BY <2>2 DEF Fresh, LatestInv, ScanReached, Stamped, Kinds, KeptKinds
    <3>2. \A x \in streams : AtLeast(clock'.time, atime.streams[x])
      BY <1>4, <2>2 DEF Fresh
    <3>. QED  BY <1>6, <1>7, <2>2, <3>1, <3>2, TimeOrder, TimesArePairs DEF Reached, Fresh
  <2>3. touched' \subseteq (touched \ {st}) \cup {st} /\ (st \in touched' => Fresh)
    BY <1>4 DEF When
  <2>. QED  BY <1>4, <1>5, <1>6, <2>1, <2>2, <2>3 DEF TouchedLater, LatestInv
<1>. QED  BY <1>4, <1>8, <1>9 DEF LatestInv, ScanType

(* A traversal finds times, and finds them on files that are there.        *)
LEMMA ScanStep ==
    ASSUME TypeOK, CTypeOK, ScanType, NEW kind \in Kinds, NEW sc \in ScanIfNeeded(kind)
    PROVE  /\ sc \in [Kinds -> [lo : Los, hi : His, limit : Int \X Int]]
           /\ \A kd \in KeptKinds :
                 /\ sc[kd].limit = scan[kd].limit
                 /\ sc[kd].lo = scan[kd].lo \/ Reached(sc[kd].lo, Stamped[kd], atime[kd])
                 /\ sc[kd].hi = scan[kd].hi \/ Reached(sc[kd].hi, Stamped[kd], atime[kd])
<1>1. CASE sc = scan
  BY <1>1 DEF ScanType
<1>2. CASE sc \in Scanned(kind)
  <2>1. PICK lo \in Oldest(Found(kind) \cup {scan[kind].lo}),
             hi \in Youngest(Found(kind) \cup {scan[kind].hi}) :
          sc = [scan EXCEPT ![kind] = [lo |-> lo, hi |-> hi, limit |-> @.limit]]
    BY <1>2 DEF Scanned
  <2>2. lo \in Found(kind) \cup {scan[kind].lo} /\ hi \in Found(kind) \cup {scan[kind].hi}
    BY DEF Oldest, Youngest
  <2>3. Found(kind) \subseteq Times
    BY DEF Found, Stamped, Kinds, TypeOK, CTypeOK
  <2>4. /\ lo \in Los /\ hi \in His
        /\ scan \in [Kinds -> [lo : Los, hi : His, limit : Int \X Int]]
    BY <2>2, <2>3 DEF ScanType, Los, His
  <2>5. ASSUME NEW kd \in KeptKinds
        PROVE  /\ sc[kd].limit = scan[kd].limit
               /\ sc[kd].lo = scan[kd].lo \/ Reached(sc[kd].lo, Stamped[kd], atime[kd])
               /\ sc[kd].hi = scan[kd].hi \/ Reached(sc[kd].hi, Stamped[kd], atime[kd])
    <3>1. kd \in Kinds /\ \A x \in Stamped[kd] : atime[kd][x] \in Int \X Int
      BY KindOfFile, TimesArePairs
    <3>2. \A t \in Found(kd) : Reached(t, Stamped[kd], atime[kd])
      BY <3>1, TimeOrder DEF Found, Reached
    <3>3. CASE kind = kd
      BY <2>1, <2>2, <2>4, <3>1, <3>2, <3>3
    <3>4. CASE kind # kd
      BY <2>1, <2>4, <3>1, <3>4
    <3>. QED  BY <3>3, <3>4
  <2>. QED  BY <2>1, <2>4, <2>5
<1>. QED  BY <1>1, <1>2 DEF ScanIfNeeded

(* The steps of the collector between the removals.                        *)
LEMMA LatestCount ==
    ASSUME IInv, IInv', OrderInv, OrderInv', LatestInv,
           CountStreams \/ CountSources \/ CountObjects \/ (RoundEnd /\ gc'.phase # "idle")
    PROVE  LatestInv'
<1>0. TypeOK /\ CTypeOK /\ ScanType
  BY DEF IInv, OrderInv, LatestInv
<1>1. /\ gc.phase \in {"begin", "count sources", "count objects", "end"}
      /\ gc'.phase \in {"count sources", "count objects", "streams"}
      /\ gc'.phase = "streams" <=> CountObjects
      /\ UNCHANGED <<streams, pool>>
  <2>1. CASE CountStreams
    BY <2>1 DEF CountStreams, CountObjects, GCCount, Locals, disk
  <2>2. CASE CountSources
    BY <2>2 DEF CountSources, CountObjects, GCCount, Locals, disk
  <2>3. CASE CountObjects
    BY <2>3 DEF CountObjects, GCCount, Locals, disk
  <2>4. CASE RoundEnd /\ gc'.phase # "idle"
    <3>1. gc.phase = "end" /\ gc'.phase = "count sources" /\ UNCHANGED <<streams, pool>>
      <4>1. gc.phase = "end" /\ UNCHANGED disk
        BY <2>4 DEF RoundEnd, GCRoundEnd
      <4> DEFINE n == IF gc.deleted THEN MaxFailRounds ELSE gc.rounds - 1
      <4>2. gc' = Idle \/ gc' = Locals("count sources", {}, n, FALSE)
        BY <2>4 DEF RoundEnd, GCRoundEnd
      <4> HIDE DEF n
      <4>3. gc'.phase = "idle" \/ gc'.phase = "count sources"
        <5>1. Idle.phase = "idle"
          BY DEF Idle, Locals
        <5>2. Locals("count sources", {}, n, FALSE).phase = "count sources"
          BY DEF Locals
        <5>. QED  BY <4>2, <5>1, <5>2
      <4>4. UNCHANGED <<streams, pool>>
        BY <4>1 DEF disk
      <4>. QED  BY <2>4, <4>1, <4>3, <4>4
    <3>2. ~CountObjects
      BY <3>1 DEF CountObjects, GCCount
    <3>. QED  BY <3>1, <3>2
  <2>. QED  BY <2>1, <2>2, <2>3, <2>4
<1>2. UNCHANGED <<atime, touched, setBack>>
  BY DEF CountStreams, CountSources, CountObjects, RoundEnd, StreamsCounted, files, history
<1>b. \A kd \in KeptKinds : Stamped'[kd] = Stamped[kd] /\ atime'[kd] = atime[kd]
  <2>1. streams' = streams /\ pool' = pool /\ atime' = atime
    BY <1>1, <1>2
  <2>2. Stamped'["streams"] = Stamped["streams"] /\ Stamped'["objects"] = Stamped["objects"]
    BY <2>1 DEF Stamped
  <2>. QED  BY <2>1, <2>2 DEF KeptKinds
<1>3. /\ round' \in [need : BOOLEAN, dirty : BOOLEAN, oldest : Los, removed : BOOLEAN]
      /\ round'.oldest = Infinity
  <2>1. round.oldest = Infinity
    BY <1>1 DEF LatestInv, Kinds
  <2>2. changed \in BOOLEAN /\ gc.deleted \in BOOLEAN
    BY <1>0 DEF TypeOK
  <2>. QED  BY <1>0, <1>1, <2>1, <2>2 DEF CountStreams, CountSources, CountObjects, RoundEnd,
               StreamsCounted, ScanType
<1>4. TouchedLater'
  <2>1. touched = {}
    BY <1>1 DEF LatestInv, TouchedLater
  <2>. QED  BY <1>2, <2>1 DEF TouchedLater
<1>a. PICK kind \in Kinds : \E sc \in ScanIfNeeded(kind) :
        IF CountObjects THEN scan' = WithLimits(sc) ELSE scan' = sc
  <2>1. CASE CountObjects
    BY <2>1 DEF CountObjects, Kinds
  <2>2. CASE ~CountObjects
    <3>1. \E kind \in Kinds : scan' \in ScanIfNeeded(kind)
      BY <2>2 DEF CountStreams, CountSources, RoundEnd, StreamsCounted, Kinds
    <3>. QED  BY <2>2, <3>1
  <2>. QED  BY <2>1, <2>2
<1>5. PICK sc \in ScanIfNeeded(kind) :
        IF CountObjects THEN scan' = WithLimits(sc) ELSE scan' = sc
  BY <1>a
<1>6. sc \in [Kinds -> [lo : Los, hi : His, limit : Int \X Int]]
  BY <1>0, ScanStep
<1>7. \A kd \in KeptKinds \ setBack :
         /\ Reached(sc[kd].hi, Stamped[kd], atime[kd])
         /\ sc[kd].lo \in Times => Reached(sc[kd].lo, Stamped[kd], atime[kd])
  BY <1>0, ScanStep DEF LatestInv, ScanReached
<1>8. CASE scan' = sc /\ ~CountObjects
  <2>1. gc'.phase \notin Kinds
    BY <1>1, <1>8 DEF Kinds
  <2>2. \A kd \in KeptKinds \ setBack' : ScanReached(kd)'
    BY <1>2, <1>7, <1>8, <1>b, <2>1 DEF ScanReached, KeptKinds, Kinds
  <2>. QED  BY <1>1, <1>3, <1>4, <1>6, <1>8, <2>2 DEF LatestInv, ScanType
<1>9. CASE CountObjects /\ scan' = WithLimits(sc)
  <2>2. \A kd \in Kinds : Threshold(sc[kd].lo, sc[kd].hi, round.removed) \in Int \X Int
    BY <1>0, <1>6, ThresholdBounded DEF ScanType
  <2>3. scan' \in [Kinds -> [lo : Los, hi : His, limit : Int \X Int]]
    BY <1>6, <1>9, <2>2 DEF WithLimits
  <2>4. ASSUME NEW kd \in KeptKinds \ setBack PROVE ScanReached(kd)'
    <3>0. kd \in Kinds /\ \A x \in Stamped[kd] : atime[kd][x] \in Times
      BY <1>0, KindOfFile
    <3>1. /\ scan'[kd].lo = sc[kd].lo /\ scan'[kd].hi = sc[kd].hi
          /\ scan'[kd].limit = Threshold(sc[kd].lo, sc[kd].hi, round.removed)
          /\ scan'[kd].limit \in Int \X Int
          /\ sc[kd].lo \in Los /\ sc[kd].hi \in His
      BY <1>6, <1>9, <2>3, <3>0 DEF WithLimits
    <3>2. \/ \A t \in Times : AtLeast(t, scan'[kd].limit)
          \/ sc[kd].hi \in Times /\ AtLeast(sc[kd].hi, scan'[kd].limit)
          \/ sc[kd].lo \in Times /\ scan'[kd].limit = sc[kd].lo
      BY <1>0, <3>1, ThresholdBounded DEF ScanType
    <3>3. /\ Reached(sc[kd].hi, Stamped[kd], atime[kd])
          /\ sc[kd].lo \in Times => Reached(sc[kd].lo, Stamped[kd], atime[kd])
      BY <1>7
    <3>4. Reached(scan'[kd].limit, Stamped[kd], atime[kd])
      <4>1. CASE \A t \in Times : AtLeast(t, scan'[kd].limit)
        BY <4>1 DEF Reached
      <4>2. CASE sc[kd].hi \in Times /\ AtLeast(sc[kd].hi, scan'[kd].limit)
        BY <3>0, <3>1, <3>3, <4>2, TimeOrder, TimesArePairs DEF Reached
      <4>3. CASE sc[kd].lo \in Times /\ scan'[kd].limit = sc[kd].lo
        BY <3>3, <4>3
      <4>. QED  BY <3>2, <4>1, <4>2, <4>3
    <3>. QED  BY <1>3, <1>b, <3>1, <3>3, <3>4, BoundsArePairs DEF ScanReached
  <2>. QED  BY <1>1, <1>2, <1>3, <1>4, <2>3, <2>4 DEF LatestInv, ScanType
<1>. QED  BY <1>5, <1>8, <1>9

(* What the visit of one entry changes: it may go if it is behind the      *)
(* limit, and what a round has left is still there.                        *)
EntryVisited(kind, x) ==
    /\ FilesMadeAndGone /\ UNCHANGED <<rootTime, clock, scan, setBack, touched>>
    /\ gc.phase = kind /\ gc'.phase = kind
    /\ atime[kind][x] \in Times
    /\ \/ round' = round
       \/ /\ round' = [round EXCEPT !.oldest = Earliest(@, atime[kind][x])]
          /\ kind \in KeptKinds => x \in Stamped[kind] /\ x \in Stamped'[kind]
    /\ \A kd \in KeptKinds :
          \/ Stamped'[kd] = Stamped[kd]
          \/ /\ kd = kind /\ x \in Stamped[kd] /\ Stamped'[kd] = Stamped[kd] \ {x}
             /\ round' = round
             /\ ~AtLeast(atime[kd][x], scan[kd].limit)

LEMMA DecimateVisits ==
    ASSUME IInv, CTypeOK, Decimate
    PROVE  \E kind \in Kinds : \E x \in StreamKeys \cup Sources \cup Objects : EntryVisited(kind, x)
<1>0. TypeOK /\ ListedObjectsExist
  BY DEF IInv
<1>1. CASE \E st \in StreamKeys : /\ GCVisitStream(st, Old("streams", st))
                                  /\ Visit("streams", st, st \in streams /\ ~Old("streams", st))
  <2>1. PICK st \in StreamKeys : /\ GCVisitStream(st, Old("streams", st))
                                 /\ Visit("streams", st, st \in streams /\ ~Old("streams", st))
    BY <1>1
  <2>2. gc.phase = "streams" /\ gc'.phase = "streams" /\ atime["streams"][st] \in Times
        /\ UNCHANGED pool
    BY <2>1 DEF GCVisitStream, RemoveStream, StreamRemains, Keep, Visited, Locals, CTypeOK, disk
  <2>3. \/ UNCHANGED streams
        \/ st \in streams /\ Old("streams", st) /\ streams' = streams \ {st}
    BY <2>1 DEF GCVisitStream, RemoveStream, StreamRemains, Keep, disk
  <2>4. \/ round' = round /\ ~(st \in streams /\ ~Old("streams", st))
        \/ /\ round' = [round EXCEPT !.oldest = Earliest(@, atime["streams"][st])]
           /\ st \in streams /\ ~Old("streams", st)
    BY <2>1 DEF Visit
  <2>5. EntryVisited("streams", st)
    BY <2>1, <2>2, <2>3, <2>4 DEF EntryVisited, Visit, Stamped, KeptKinds, Old
  <2>. QED  BY <2>5 DEF Kinds
<1>2. CASE \E s \in Sources : /\ GCVisitSource(s, Old("sources", s))
                              /\ Visit("sources", s, s \in refs /\ (Referenced(s) \/ ~Old("sources", s)))
  <2>1. PICK s \in Sources : /\ GCVisitSource(s, Old("sources", s))
                             /\ Visit("sources", s, s \in refs /\ (Referenced(s) \/ ~Old("sources", s)))
    BY <1>2
  <2>2. gc.phase = "sources" /\ gc'.phase = "sources" /\ atime["sources"][s] \in Times
        /\ UNCHANGED <<streams, pool>>
    BY <2>1 DEF GCVisitSource, RemoveSource, SourceRemains, Keep, Visited, Locals, CTypeOK, disk
  <2>3. EntryVisited("sources", s)
    BY <2>1, <2>2 DEF EntryVisited, Visit, Stamped, KeptKinds
  <2>. QED  BY <2>3 DEF Kinds
<1>3. CASE \E o \in Objects : /\ GCVisitObject(o, Old("objects", o))
                              /\ Visit("objects", o, o \in pool /\ (ObjectReferenced(o) \/ ~Old("objects", o)))
  <2>1. PICK o \in Objects : /\ GCVisitObject(o, Old("objects", o))
                             /\ Visit("objects", o, o \in pool /\ (ObjectReferenced(o) \/ ~Old("objects", o)))
    BY <1>3
  <2>2. gc.phase = "objects" /\ gc'.phase = "objects" /\ atime["objects"][o] \in Times
        /\ UNCHANGED streams
    BY <2>1 DEF GCVisitObject, RemoveObject, ObjectRemains, Keep, Visited, Locals, CTypeOK, disk
  <2>3. o \in pool
    BY <1>0, <2>1 DEF GCVisitObject, ListedObjectsExist
  <2>4. \/ UNCHANGED pool
        \/ ~ObjectReferenced(o) /\ Old("objects", o) /\ pool' = pool \ {o}
    BY <2>1, <2>3 DEF GCVisitObject, RemoveObject, ObjectRemains, Keep, disk
  <2>5. \/ round' = round /\ ~(ObjectReferenced(o) \/ ~Old("objects", o))
        \/ /\ round' = [round EXCEPT !.oldest = Earliest(@, atime["objects"][o])]
           /\ ObjectReferenced(o) \/ ~Old("objects", o)
    BY <2>1, <2>3 DEF Visit
  <2>6. EntryVisited("objects", o)
    BY <2>1, <2>2, <2>3, <2>4, <2>5 DEF EntryVisited, Visit, Stamped, KeptKinds, Old
  <2>. QED  BY <2>6 DEF Kinds
<1>. QED  BY <1>1, <1>2, <1>3 DEF Decimate

LEMMA LatestDecimate ==
    ASSUME IInv, IInv', OrderInv, OrderInv', LatestInv, Decimate
    PROVE  LatestInv'
<1>0. TypeOK /\ TypeOK' /\ CTypeOK /\ CTypeOK' /\ ScanType
  BY DEF IInv, OrderInv, LatestInv
<1>1. PICK kind \in Kinds, x \in StreamKeys \cup Sources \cup Objects : EntryVisited(kind, x)
  BY <1>0, DecimateVisits
<1>2. /\ FilesMadeAndGone /\ UNCHANGED <<rootTime, clock, scan, setBack, touched>>
      /\ gc.phase = kind /\ gc'.phase = kind
  BY <1>1 DEF EntryVisited
<1>3. /\ round' \in [need : BOOLEAN, dirty : BOOLEAN, oldest : Los, removed : BOOLEAN]
      /\ \/ round' = round
         \/ /\ round'.oldest = round.oldest \/ round'.oldest = atime[kind][x]
            /\ kind \in KeptKinds => x \in Stamped[kind] /\ x \in Stamped'[kind]
  BY <1>0, <1>1 DEF ScanType, Earliest, Los, EntryVisited
<1>4. \A kd \in KeptKinds : \A y \in Stamped[kd] \cap Stamped'[kd] : atime'[kd][y] = atime[kd][y]
  BY <1>0, <1>2, MadeAndGone DEF Stamped, KeptKinds
<1>5. ASSUME NEW kd \in KeptKinds \ setBack' PROVE ScanReached(kd)'
  <2>0. /\ kd \in Kinds /\ \A y \in Stamped[kd] : atime[kd][y] \in Times
        /\ scan[kd].hi \in Int \X Int /\ scan[kd].lo \in Int \X Int
        /\ scan[kd].limit \in Int \X Int /\ round.oldest \in Int \X Int
    BY <1>0, KindOfFile
  <2>1. ScanReached(kd) /\ Reached(scan[kd].limit, Stamped[kd], atime[kd])
    BY <1>2 DEF LatestInv, ScanReached
  <2>2. \A b \in Int \X Int : Reached(b, Stamped[kd], atime[kd]) => Reached(b, Stamped'[kd], atime'[kd])
    <3>1. CASE Stamped'[kd] = Stamped[kd]
      BY <1>4, <3>1 DEF Reached
    <3>2. CASE Stamped'[kd] # Stamped[kd]
      <4>1. /\ x \in Stamped[kd] /\ Stamped'[kd] = Stamped[kd] \ {x}
            /\ ~AtLeast(atime[kd][x], scan[kd].limit)
        BY <1>1, <3>2 DEF EntryVisited
      <4>2. \A y \in Stamped[kd] \ {x} : atime'[kd][y] = atime[kd][y]
        BY <1>4, <4>1
      <4>3. \A b \in Int \X Int : Reached(b, Stamped[kd], atime[kd])
                                   => Reached(b, Stamped[kd] \ {x}, atime'[kd])
        BY <2>0, <2>1, <4>1, <4>2, ReachedWithout
      <4>. QED  BY <4>1, <4>3
    <3>. QED  BY <3>1, <3>2
  <2>3. ASSUME kind = kd, round'.oldest \in Times
        PROVE  Reached(round'.oldest, Stamped'[kd], atime'[kd])
    <3>1. CASE round'.oldest = round.oldest
      BY <1>2, <2>0, <2>1, <2>2, <2>3, <3>1 DEF ScanReached
    <3>2. CASE round'.oldest # round.oldest
      <4>1. round'.oldest = atime[kd][x] /\ x \in Stamped[kd] /\ x \in Stamped'[kd]
        BY <1>3, <2>3, <3>2
      <4>2. atime'[kd][x] = round'.oldest /\ round'.oldest \in Int \X Int
        BY <1>4, <2>3, <4>1, TimesArePairs
      <4>. QED  BY <4>1, <4>2, TimeOrder DEF Reached
    <3>. QED  BY <3>1, <3>2
  <2>. QED  BY <1>2, <2>0, <2>1, <2>2, <2>3 DEF ScanReached
<1>6. TouchedLater'
  <2>1. ASSUME NEW st \in touched
        PROVE  st \in streams' /\ AtLeast(atime'.streams[st], scan.streams.limit)
    <3>1. st \in streams /\ AtLeast(atime.streams[st], scan.streams.limit)
      BY DEF LatestInv, TouchedLater
    <3>2. st \in streams'
      BY <1>1, <3>1 DEF EntryVisited, Stamped, KeptKinds
    <3>. QED  BY <1>4, <3>1, <3>2 DEF Stamped, KeptKinds
  <2>. QED  BY <1>2, <2>1 DEF LatestInv, TouchedLater
<1>. QED  BY <1>0, <1>2, <1>3, <1>5, <1>6 DEF LatestInv, ScanType, Kinds

(* Requests and jobs only bring stream keys and pictures.                  *)
LEMMA RequestsBring ==
    ASSUME IInv, Requests
    PROVE  streams \subseteq streams' /\ pool \subseteq pool' /\ UNCHANGED gc
<1>1. CASE \E k \in Keys, s \in Sources, queued, oldPending \in BOOLEAN :
             /\ oldPending => links[k] # {}
             /\ \E src \in MkSourceEntry(s) :
                   \E out \in AddOutcomes(k, s, src, queued, oldPending) :
                       AddStreamKeyForSource(k, src, out)
  BY <1>1 DEF AddStreamKeyForSource
<1>2. CASE \E s \in Sources, o \in Objects, pending \in SUBSET Keys :
             \E import \in Import(s, o) : \E run \in Runs(s, pending, import) :
                UpdateSource(import, run)
  <2>1. PICK s \in Sources, o \in Objects : \E pending \in SUBSET Keys :
             \E import \in Import(s, o) : \E run \in Runs(s, pending, import) :
                UpdateSource(import, run)
    BY <1>2
  <2>2. PICK import \in Import(s, o) :
             pool' = import.pool /\ UNCHANGED <<streams, gc>>
    BY <2>1 DEF UpdateSource
  <2>3. s \in Sources /\ o \in Objects /\ TypeOK
    BY DEF IInv
  <2>4. import.pool = pool \cup {o} \/ import.pool = pool
    BY <2>3, ImportOutcome
  <2>. QED  BY <2>2, <2>4
<1>3. CASE \E k \in Keys : DeleteKey(k)
  BY <1>3 DEF DeleteKey
<1>. QED  BY <1>1, <1>2, <1>3 DEF Requests

LEMMA LatestStep ==
    ASSUME IInv, IInv', OrderInv, OrderInv', LatestInv, [CNext]_cvars PROVE LatestInv'
<1>0. TypeOK /\ TypeOK' /\ CTypeOK /\ CTypeOK' /\ ScanType
  BY DEF IInv, OrderInv, LatestInv
<1>1. ASSUME Requests PROVE LatestInv'
  <2>1. /\ streams \subseteq streams' /\ pool \subseteq pool' /\ gc'.phase = gc.phase
    BY <1>1, RequestsBring
  <2>2. /\ FilesMadeAndGone /\ UNCHANGED <<rootTime, clock, scan, round, touched, setBack>>
    BY <1>1 DEF Requests, locals
  <2>3. /\ \A st \in streams : atime'.streams[st] = atime.streams[st]
        /\ \A o \in pool : atime'.objects[o] = atime.objects[o]
    BY <1>0, <2>1, <2>2, MadeAndGone
  <2>4. /\ \A st \in streams : AtLeast(atime'.streams[st], atime.streams[st])
        /\ \A o \in pool : AtLeast(atime'.objects[o], atime.objects[o])
    BY <1>0, <2>3, TimeOrder, TimesArePairs DEF TypeOK, CTypeOK
  <2>. QED  BY <1>0, <2>1, <2>2, <2>4, StampsGrow
<1>2. ASSUME NEW k \in Keys, NEW hint \in BOOLEAN, Look(k, hint) PROVE LatestInv'
  BY <1>2, LatestLook
<1>3. ASSUME scan' = NoScan, round' = NoRound, gc'.phase = "idle", touched' = {}, setBack' = {}
      PROVE  LatestInv'
  <2>1. \A kind \in KeptKinds : ScanReached(kind)'
    BY <1>3, NothingScanned DEF ScanReached, KeptKinds, Kinds
  <2>. QED  BY <1>3, <2>1, NothingScanned DEF LatestInv, TouchedLater, ScanType
<1>4. ASSUME Rebooted \/ LookCut \/ ResetCut PROVE LatestInv'
  <2>1. Reboot
    BY <1>4 DEF Rebooted, LookCut, ResetCut
  <2>2. gc'.phase = "idle"
    BY <2>1 DEF Reboot, Restart, Idle, Locals
  <2>. QED  BY <1>3, <2>1, <2>2 DEF Reboot
<1>5. ASSUME ResetAll PROVE LatestInv'
  <2>1. /\ UNCHANGED <<gc, scan, round, touched, setBack>> /\ gc.phase = "idle"
    BY <1>5 DEF ResetAll, vars, locals
  <2>2. touched = {} /\ scan = NoScan /\ round = NoRound
    BY <2>1 DEF LatestInv, TouchedLater
  <2>3. \A kind \in KeptKinds : ScanReached(kind)'
    BY <2>1, <2>2, NothingScanned DEF ScanReached, KeptKinds, Kinds
  <2>. QED  BY <2>1, <2>2, <2>3, NothingScanned DEF LatestInv, TouchedLater, ScanType
<1>6. ASSUME Begin PROVE LatestInv'
  <2>1. /\ UNCHANGED <<streams, pool, atime, scan, round, touched, setBack>>
        /\ gc.phase = "idle" /\ gc'.phase = "begin"
    BY <1>6 DEF Begin, GCBegin, Locals, files, locals, history, disk
  <2>2. touched = {} /\ scan = NoScan /\ round = NoRound
    BY <2>1 DEF LatestInv, TouchedLater
  <2>3. \A kind \in KeptKinds : ScanReached(kind)'
    BY <2>1, <2>2, NothingScanned DEF ScanReached, KeptKinds, Kinds
  <2>. QED  BY <2>1, <2>2, <2>3, NothingScanned DEF LatestInv, TouchedLater, ScanType
<1>7. ASSUME CountStreams \/ CountSources \/ CountObjects \/ (RoundEnd /\ gc'.phase # "idle")
      PROVE  LatestInv'
  BY <1>7, LatestCount
<1>8. ASSUME RoundEnd, gc'.phase = "idle" PROVE LatestInv'
  <2>1. touched = {}
    BY <1>8 DEF RoundEnd, GCRoundEnd, LatestInv, TouchedLater
  <2>. QED  BY <1>3, <1>8, <2>1 DEF RoundEnd
<1>9. ASSUME Decimate PROVE LatestInv'
  BY <1>9, LatestDecimate
<1>10. ASSUME Decimated PROVE LatestInv'
  <2>1. /\ gc.phase \in Kinds /\ gc'.phase \in {"sources", "objects", "end"}
        /\ gc'.phase # gc.phase
        /\ UNCHANGED <<streams, pool, atime, setBack>> /\ touched' = {}
        /\ round' = [round EXCEPT !.oldest = Infinity]
        /\ scan' = IF round.oldest[1] < SecMax
                     THEN [scan EXCEPT ![gc.phase].lo = round.oldest] ELSE scan
    BY <1>10 DEF Decimated, GCNextListing, Locals, Kinds, files, disk
  <2>2. scan' \in [Kinds -> [lo : Los, hi : His, limit : Int \X Int]]
    BY <1>0, <2>1 DEF ScanType
  <2>3. round' \in [need : BOOLEAN, dirty : BOOLEAN, oldest : Los, removed : BOOLEAN]
        /\ round'.oldest = Infinity
    BY <1>0, <2>1 DEF ScanType, Los
  <2>4. ASSUME NEW kind \in KeptKinds \ setBack PROVE ScanReached(kind)'
    <3>1. /\ scan'[kind].hi = scan[kind].hi /\ scan'[kind].limit = scan[kind].limit
          /\ \/ scan'[kind].lo = scan[kind].lo
             \/ gc.phase = kind /\ scan'[kind].lo = round.oldest
      BY <1>0, <2>1 DEF ScanType, Kinds, KeptKinds
    <3>2. Stamped'["streams"] = Stamped["streams"] /\ Stamped'["objects"] = Stamped["objects"]
      BY <2>1 DEF Stamped
    <3>3. Stamped'[kind] = Stamped[kind] /\ atime'[kind] = atime[kind]
      BY <2>1, <3>2 DEF KeptKinds
    <3>4. ScanReached(kind)
      BY DEF LatestInv
    <3>. QED  BY <2>1, <2>3, <3>1, <3>3, <3>4, BoundsArePairs DEF ScanReached
  <2>. QED  BY <2>1, <2>2, <2>3, <2>4 DEF LatestInv, ScanType, TouchedLater
<1>11. ASSUME UNCHANGED cvars PROVE LatestInv'
  <2>1. UNCHANGED <<streams, pool, gc, atime, scan, round, touched, setBack>>
    BY <1>11 DEF cvars, vars, disk, files, locals, history
  <2>2. Stamped'["streams"] = Stamped["streams"] /\ Stamped'["objects"] = Stamped["objects"]
    BY <2>1 DEF Stamped
  <2>3. \A kind \in KeptKinds : Stamped'[kind] = Stamped[kind]
    BY <2>2 DEF KeptKinds
  <2>4. \A kind \in KeptKinds \ setBack' : ScanReached(kind)'
    BY <2>1, <2>3 DEF LatestInv, ScanReached
  <2>. QED  BY <2>1, <2>4 DEF LatestInv, TouchedLater, ScanType
<1>. QED  BY <1>1, <1>2, <1>4, <1>5, <1>6, <1>7, <1>8, <1>9, <1>10, <1>11 DEF CNext, Background

CInv == IInv /\ OrderInv /\ LatestInv

LEMMA CollectorInvariance == CSpec => []CInv
<1>1. CInit => CInv
  BY InitInv, OrderInit, LatestInit DEF CInit, CInv
<1>2. CInv /\ [CNext]_cvars => CInv'
  BY NextInv, StepIsCacheStep, OrderStep, LatestStep DEF CInv
<1>. QED  BY <1>1, <1>2, PTL DEF CSpec

(* A stream key that is looked up during a removal survives it.            *)
THEOREM HotPathIsKept == CSpec => []HotPathKept
<1>1. CInv => HotPathKept
  BY DEF CInv, LatestInv, TouchedLater, HotPathKept
<1>. QED  BY <1>1, CollectorInvariance, PTL

(* Only the removals of the collector take a stream key or a picture.      *)
LEMMA OnlyDecimateTakes ==
    ASSUME IInv, [CNext]_cvars, ~Decimate
    PROVE  streams \subseteq streams' /\ pool \subseteq pool'
<1>1. CASE Requests
  BY <1>1, RequestsBring
<1>2. CASE \E k \in Keys, hint \in BOOLEAN : Look(k, hint)
  BY <1>2 DEF Look, Lookup, disk
<1>3. CASE Rebooted \/ LookCut \/ ResetCut
  BY <1>3, CollectorAssumption DEF Rebooted, LookCut, ResetCut, Reboot, Restart, disk
<1>4. CASE ResetAll \/ Begin \/ CountStreams \/ CountSources \/ CountObjects \/ Decimated \/ RoundEnd
  BY <1>4 DEF ResetAll, Begin, CountStreams, CountSources, CountObjects, Decimated, RoundEnd,
              GCBegin, GCCount, GCNextListing, GCRoundEnd, vars, disk
<1>5. CASE UNCHANGED cvars
  BY <1>5 DEF cvars, vars, disk
<1>. QED  BY <1>1, <1>2, <1>3, <1>4, <1>5 DEF CNext, Background

(* Whatever the widths of the timestamps and the order of the steps, no    *)
(* stream key and no picture is removed unless one with a later stamp      *)
(* stays.                                                                  *)
THEOREM LatestIsKept == CSpec => LatestKept
<1> DEFINE Kept == \A kind \in {"streams", "objects"} \ setBack : \A x \in Stamped[kind] \ Stamped'[kind] :
                      \E other \in Stamped'[kind] : Later(atime[kind][other], atime[kind][x])
<1>1. CInv /\ CInv' /\ [CNext]_cvars => Kept
  <2>. SUFFICES ASSUME CInv, CInv', [CNext]_cvars, NEW kind \in KeptKinds \ setBack,
                       NEW x \in Stamped[kind] \ Stamped'[kind]
                PROVE  \E other \in Stamped'[kind] : Later(atime[kind][other], atime[kind][x])
    BY DEF KeptKinds
  <2>0. IInv /\ TypeOK /\ CTypeOK /\ ScanType
    BY DEF CInv, IInv, OrderInv, LatestInv
  <2>1. Decimate
    BY <2>0, OnlyDecimateTakes DEF Stamped, KeptKinds
  <2>2. PICK kd \in Kinds, y \in StreamKeys \cup Sources \cup Objects : EntryVisited(kd, y)
    BY <2>0, <2>1, DecimateVisits
  <2>3. /\ gc.phase = kind
        /\ Stamped'[kind] = Stamped[kind] \ {x}
        /\ ~AtLeast(atime[kind][x], scan[kind].limit)
    BY <2>2 DEF EntryVisited
  <2>4. /\ kind \in Kinds /\ \A z \in Stamped[kind] : atime[kind][z] \in Times
        /\ scan[kind].limit \in Int \X Int
    BY <2>0, KindOfFile
  <2>5. Reached(scan[kind].limit, Stamped[kind], atime[kind])
    BY <2>3, <2>4 DEF CInv, LatestInv, ScanReached
  <2>6. PICK other \in Stamped[kind] : AtLeast(atime[kind][other], scan[kind].limit)
    BY <2>3, <2>4, <2>5 DEF Reached
  <2>7. other # x /\ Later(atime[kind][other], atime[kind][x])
    BY <2>3, <2>4, <2>6, TimeOrder, TimesArePairs
  <2>. QED  BY <2>3, <2>7
<1>2. Kept => [\A kind \in {"streams", "objects"} \ setBack : \A x \in Stamped[kind] \ Stamped'[kind] :
                 \E other \in Stamped'[kind] : Later(atime[kind][other], atime[kind][x])]_cvars
  OBVIOUS
<1>. QED  BY <1>1, CollectorInvariance, PTL DEF CSpec, LatestKept
=============================================================================
