--------------------------- MODULE ArtCacheProofs ---------------------------
(***************************************************************************)
(* Proofs about ArtCache, for every set of keys, sources and objects,      *)
(* every limit, counter width and set of failing calls.                    *)
(***************************************************************************)
EXTENDS ArtCache, FiniteSetTheorems, TLAPS

(* The listing of the object directory only shrinks by the collector's own *)
(* hand: nobody else deletes an object, so none is counted down twice.     *)
ListedObjectsExist == gc.phase = "objects" => gc.todo \subseteq pool

IInv ==
    /\ TypeOK
    /\ NoDanglingKey
    /\ NoDanglingPicture
    /\ OneSourcePerKey
    /\ ObjectCountExact
    /\ ListedObjectsExist

-----------------------------------------------------------------------------
(* The link found in a key directory that holds at most one is the one     *)
(* there is, and deleting it leaves none.                                  *)
LEMMA OneLink ==
    ASSUME TypeOK, OneSourcePerKey, NEW k \in Keys
    PROVE  /\ links[k] # {} => links[k] = {OldLink(k)}
           /\ Dropped(k) = {}
<1>1. links[k] # {} => OldLink(k) \in links[k]
  BY DEF OldLink
<1>2. links[k] # {} => links[k] = {OldLink(k)}
  BY <1>1 DEF OneSourcePerKey
<1> QED
  BY <1>2 DEF Dropped

(* link_to_source leaves one link at most, and a new one only to a source  *)
(* that has a .ref.                                                        *)
LEMMA LinkOutcome ==
    ASSUME TypeOK, OneSourcePerKey, NEW k \in Keys, NEW s \in Sources,
           NEW have, NEW ifAdded, NEW e \in LinkToSource(k, s, have, ifAdded)
    PROVE  /\ e.link \subseteq links[k] \cup {s}
           /\ \A t, u \in e.link : t = u
           /\ s \notin have => e.link \subseteq links[k]
<1>1. CASE links[k] # {} /\ OldLink(k) = s
  BY <1>1 DEF LinkToSource, OneSourcePerKey
<1>2. CASE ~(links[k] # {} /\ OldLink(k) = s)
  <2>1. \/ e.link = Dropped(k)
        \/ s \in have /\ e.link = Dropped(k) \cup {s}
    BY <1>2 DEF LinkToSource, When
  <2> QED
    BY <2>1, OneLink
<1> QED
  BY <1>1, <1>2

(* mk_source_entry adds at most the directory and the .ref of s, and       *)
(* empties no directory that has a .ref.                                   *)
LEMMA SourceOutcome ==
    ASSUME TypeOK, NEW s \in Sources, NEW src \in MkSourceEntry(s)
    PROVE  /\ dirs \subseteq src.dirs /\ src.dirs \subseteq dirs \cup {s}
           /\ refs \subseteq src.refs /\ src.refs \subseteq refs \cup {s}
           /\ src.refs \subseteq src.dirs
           /\ src.outs \in [Sources -> SUBSET Objects]
           /\ \A t \in Sources : src.outs[t] \subseteq outs[t]
           /\ \A t \in refs : src.outs[t] = outs[t]
           /\ \A t \in Sources \ src.dirs : src.outs[t] = {}
           /\ src.res # "IO_ERROR" => s \in src.refs
<1>1. CASE s \in refs
  <2>1. /\ src.dirs = dirs /\ src.refs = refs /\ src.outs = outs
    BY <1>1 DEF MkSourceEntry
  <2> QED
    BY <1>1, <2>1 DEF TypeOK
<1>2. CASE s \notin refs
  <2>1. \/ /\ src.dirs = dirs /\ src.refs = refs /\ src.outs = outs
           /\ src.res = "IO_ERROR"
        \/ /\ src.dirs = dirs \cup {s}
           /\ src.outs = [outs EXCEPT ![s] = {}]
           /\ \/ src.refs = refs \cup {s}
              \/ src.refs = refs /\ src.res = "IO_ERROR"
    BY <1>2 DEF MkSourceEntry, When
  <2> QED
    BY <1>2, <2>1 DEF TypeOK
<1> QED
  BY <1>1, <1>2

(* add_stream_key_for_source leaves one link at most in the key directory, *)
(* and touches the link of a key only if the key exists then and the       *)
(* source has a .ref.                                                      *)
LEMMA AddOutcome ==
    ASSUME TypeOK, OneSourcePerKey, NEW k \in Keys, NEW s \in Sources,
           NEW src \in MkSourceEntry(s), NEW queued \in BOOLEAN, NEW oldPending \in BOOLEAN,
           NEW out \in AddOutcomes(k, s, src, queued, oldPending)
    PROVE  /\ out.link \subseteq links[k] \cup {s}
           /\ \A t, u \in out.link : t = u
           /\ out.link \subseteq links[k] \/ s \in src.refs
           /\ k \notin keys /\ out.made # "key" => out.link = {}
           /\ k \in keys => out.made = "nothing"
           /\ out.made \in {"nothing", "stream", "key"}
<1> DEFINE new == HaveNewSource(src, queued)
<1>1. k \notin keys => links[k] = {}
  BY DEF TypeOK
<1>2. CASE src.res = "IO_ERROR"
  <2>1. out = [res |-> "IO_ERROR", link |-> links[k], made |-> "nothing"]
    BY <1>2 DEF AddOutcomes
  <2> QED
    BY <1>1, <2>1 DEF OneSourcePerKey
<1>3. ASSUME NEW ifAdded, NEW m, src.res # "IO_ERROR",
             NEW e \in LinkToSource(k, s, src.refs, ifAdded),
             out = [res |-> e.res, link |-> e.link, made |-> m]
      PROVE  /\ out.link \subseteq links[k] \cup {s}
             /\ \A t, u \in out.link : t = u
             /\ s \in src.refs
  <2>1. /\ e.link \subseteq links[k] \cup {s}
        /\ \A t, u \in e.link : t = u
    BY <1>3, LinkOutcome
  <2>2. s \in src.refs
    BY <1>3, SourceOutcome
  <2>3. out.link = e.link
    BY <1>3
  <2> QED
    BY <2>1, <2>2, <2>3
<1>4. CASE src.res # "IO_ERROR" /\ k \notin keys
  <2>1. CASE \E m \in {"nothing", "stream"} : out = [res |-> "IO_ERROR", link |-> {}, made |-> m]
    BY <1>4, <2>1
  <2>2. CASE \E e \in LinkToSource(k, s, src.refs, IF new THEN "SOURCE_UNKNOWN" ELSE "INSERTED") :
                out = [res |-> e.res, link |-> e.link, made |-> "key"]
    <3>1. out.made = "key"
      BY <2>2
    <3> QED
      BY <1>3, <1>4, <2>2, <3>1
  <2> QED
    BY <1>4, <2>1, <2>2 DEF AddOutcomes, When
<1>5. CASE src.res # "IO_ERROR" /\ k \in keys
  <2>1. CASE out.link = links[k] /\ out.made = "nothing"
    BY <1>5, <2>1 DEF OneSourcePerKey
  <2>2. CASE \E e \in LinkToSource(k, s, src.refs, "INSERTED") :
                out = [res |-> e.res, link |-> e.link, made |-> "nothing"]
    <3>1. out.made = "nothing"
      BY <2>2
    <3> QED
      BY <1>3, <1>5, <2>2, <3>1
  <2> QED
    BY <1>5, <2>1, <2>2 DEF AddOutcomes
<1> QED
  BY <1>2, <1>4, <1>5

(* An import adds at most the object o to the pool, and links nothing that *)
(* is not in the pool afterwards.                                          *)
LEMMA ImportOutcome ==
    ASSUME TypeOK, NEW s \in Sources, NEW o \in Objects, NEW i \in Import(s, o)
    PROVE  /\ i.res = "UPDATED" => o \notin pool /\ i.pool = pool \cup {o}
           /\ i.res # "UPDATED" => i.pool = pool
           /\ \/ i.outs = outs
              \/ /\ i.outs = [outs EXCEPT ![s] = @ \cup {o}]
                 /\ s \in dirs
                 /\ o \in i.pool
<1>1. CASE i \in When("map" \in Faults, [res |-> "NOT_CHANGED", pool |-> pool, outs |-> outs])
  BY <1>1 DEF When
<1>2. CASE i \in When("rename" \in Faults /\ o \notin pool,
                      [res |-> "IO_ERROR", pool |-> pool, outs |-> outs])
  BY <1>2 DEF When
<1>3. CASE \E l \in {outs, IF s \in dirs THEN [outs EXCEPT ![s] = @ \cup {o}] ELSE outs} :
              i = [res |-> IF o \in pool THEN "NOT_CHANGED" ELSE "UPDATED",
                   pool |-> pool \cup {o}, outs |-> l]
  <2>1. o \in pool => pool \cup {o} = pool
    OBVIOUS
  <2> QED
    BY <1>3, <2>1
<1> QED
  BY <1>1, <1>2, <1>3 DEF Import, When

(* Every key that link_pending_keys_to_source touches exists, and is left  *)
(* as link_to_source leaves it.                                            *)
LEMMA RunOutcome ==
    ASSUME NEW s \in Sources, NEW pending \in SUBSET Keys, NEW i,
           NEW run \in Runs(s, pending, i), NEW k \in DOMAIN run
    PROVE  k \in keys /\ run[k] \in LinkToSource(k, s, refs, "INSERTED")
<1>1. CASE i.res = "IO_ERROR"
  BY <1>1 DEF Runs
<1>2. CASE i.res # "IO_ERROR"
  BY <1>2 DEF Runs, LinkRuns
<1> QED
  BY <1>1, <1>2

(* A counter stays within its width.                                       *)
LEMMA CounterRange ==
    ASSUME NEW n \in 0..SizeMax
    PROVE  Incr(n) \in 0..SizeMax /\ Decr(n) \in 0..SizeMax
BY CacheAssumption DEF Incr, Decr

(* The pool is never larger than the object counter can say, so that       *)
(* counting one more or one less is exact.                                 *)
LEMMA PoolCount ==
    ASSUME TypeOK, nobjs = Cardinality(pool)
    PROVE  /\ IsFiniteSet(pool)
           /\ \A o \in Objects \ pool : Cardinality(pool \cup {o}) = Incr(nobjs)
           /\ \A o \in pool : Cardinality(pool \ {o}) = Decr(nobjs)
<1>1. IsFiniteSet(pool) /\ Cardinality(pool) \in Nat
  BY CacheAssumption, FS_Subset, FS_CardinalityType DEF TypeOK
<1>2. ASSUME NEW o \in Objects \ pool
      PROVE  Cardinality(pool \cup {o}) = Incr(nobjs)
  <2>1. Cardinality(pool \cup {o}) = Cardinality(pool) + 1
    BY <1>1, FS_AddElement
  <2>2. Cardinality(pool \cup {o}) <= Cardinality(Objects)
    BY CacheAssumption, FS_Subset DEF TypeOK
  <2>3. Cardinality(Objects) \in Nat
    BY CacheAssumption, FS_CardinalityType
  <2> QED
    BY <1>1, <2>1, <2>2, <2>3, CacheAssumption DEF Incr
<1>3. ASSUME NEW o \in pool
      PROVE  Cardinality(pool \ {o}) = Decr(nobjs)
  <2>1. Cardinality(pool \ {o}) = Cardinality(pool) - 1
    BY <1>1, FS_RemoveElement
  <2>2. Cardinality(pool) # 0
    BY <1>1, FS_EmptySet
  <2> QED
    BY <1>1, <2>1, <2>2 DEF Decr
<1> QED
  BY <1>1, <1>2, <1>3

-----------------------------------------------------------------------------
(* The locals of do_gc; the conjuncts of TypeOK about gc.                  *)
GCTypeOK ==
    /\ gc \in [phase : Phases, todo : SUBSET (StreamKeys \cup Sources \cup Objects),
               rounds : 0..MaxFailRounds, deleted : BOOLEAN]
    /\ gc.phase = "streams" => gc.todo \subseteq StreamKeys
    /\ gc.phase = "sources" => gc.todo \subseteq Sources
    /\ gc.phase = "objects" => gc.todo \subseteq Objects

(* The locals of do_gc have their types when what is listed has its own.   *)
LEMMA LocalsType ==
    ASSUME NEW phase \in Phases, NEW todo, NEW rounds \in 0..MaxFailRounds, NEW deleted \in BOOLEAN,
           todo \subseteq CASE phase = "streams" -> StreamKeys
                            [] phase = "sources" -> Sources
                            [] phase = "objects" -> Objects
                            [] OTHER             -> {},
           gc' = Locals(phase, todo, rounds, deleted)
    PROVE  GCTypeOK' /\ gc'.phase = phase /\ gc'.todo = todo
<1>1. /\ phase = "streams" => todo \subseteq StreamKeys
      /\ phase = "sources" => todo \subseteq Sources
      /\ phase = "objects" => todo \subseteq Objects
      /\ todo \subseteq StreamKeys \cup Sources \cup Objects
  OBVIOUS
<1>2. /\ gc'.phase = phase /\ gc'.todo = todo
      /\ gc' \in [phase : Phases, todo : SUBSET (StreamKeys \cup Sources \cup Objects),
                  rounds : 0..MaxFailRounds, deleted : BOOLEAN]
  BY <1>1 DEF Locals
<1> QED
  BY <1>1, <1>2 DEF GCTypeOK

(* An empty cache.                                                         *)
LEMMA InitInv == Init => IInv
<1> SUFFICES ASSUME Init PROVE IInv
  OBVIOUS
<1>1. gc = Locals("idle", {}, MaxFailRounds, FALSE)
  BY DEF Init, Idle
<1>2. GCTypeOK /\ ListedObjectsExist
  BY <1>1 DEF GCTypeOK, ListedObjectsExist, Locals, Phases, MaxFailRounds
<1>3. TypeOK
  <2>1. nkeys \in 0..SizeMax /\ nsrcs \in 0..SizeMax /\ nobjs \in 0..SizeMax
    BY CacheAssumption DEF Init
  <2>2. links \in [Keys -> SUBSET Sources] /\ \A k \in Keys : links[k] = {}
    BY DEF Init
  <2>3. outs \in [Sources -> SUBSET Objects] /\ \A s \in Sources : outs[s] = {}
    BY DEF Init
  <2>4. changed \in BOOLEAN /\ gcQueued \in BOOLEAN
    BY DEF Init
  <2>5. /\ streams \subseteq StreamKeys /\ keys \subseteq Keys /\ keys = {}
        /\ dirs \subseteq Sources /\ refs \subseteq dirs /\ pool \subseteq Objects
    BY DEF Init
  <2> QED
    BY <1>2, <2>1, <2>2, <2>3, <2>4, <2>5 DEF TypeOK, GCTypeOK
<1>4. ObjectCountExact
  BY FS_EmptySet DEF Init, ObjectCountExact
<1> QED
  BY <1>2, <1>3, <1>4 DEF Init, IInv, NoDanglingKey, NoDanglingPicture, OneSourcePerKey

(* add_stream_key_for_source keeps the invariant, whatever the queue       *)
(* answers and whichever call fails.                                       *)
LEMMA AddStep ==
    ASSUME IInv, NEW k \in Keys, NEW s \in Sources, NEW queued \in BOOLEAN,
           NEW oldPending \in BOOLEAN, NEW src \in MkSourceEntry(s),
           NEW out \in AddOutcomes(k, s, src, queued, oldPending),
           AddStreamKeyForSource(k, src, out)
    PROVE  IInv'
<1> USE DEF IInv
<1>1. /\ dirs \subseteq src.dirs /\ src.dirs \subseteq dirs \cup {s}
      /\ refs \subseteq src.refs /\ src.refs \subseteq refs \cup {s}
      /\ src.refs \subseteq src.dirs
      /\ src.outs \in [Sources -> SUBSET Objects]
      /\ \A t \in Sources : src.outs[t] \subseteq outs[t]
      /\ \A t \in Sources \ src.dirs : src.outs[t] = {}
  BY SourceOutcome
<1>2. /\ out.link \subseteq links[k] \cup {s}
      /\ \A t, u \in out.link : t = u
      /\ out.link \subseteq links[k] \/ s \in src.refs
      /\ k \notin keys /\ out.made # "key" => out.link = {}
      /\ k \in keys => out.made = "nothing"
      /\ out.made \in {"nothing", "stream", "key"}
  BY AddOutcome
<1>3. /\ dirs' = src.dirs /\ refs' = src.refs /\ outs' = src.outs
      /\ links' = [links EXCEPT ![k] = out.link]
      /\ pool' = pool /\ nobjs' = nobjs /\ gc' = gc
  BY DEF AddStreamKeyForSource
<1>4. k = <<k[1], k[2]>> /\ k[1] \in StreamKeys
  BY DEF Keys
<1>5. TypeOK'
  <2>1. /\ streams' \subseteq StreamKeys /\ keys' \subseteq Keys
        /\ \A j \in keys' : j[1] \in streams'
    BY <1>2, <1>4 DEF AddStreamKeyForSource, TypeOK
  <2>2. /\ links' \in [Keys -> SUBSET Sources]
        /\ \A j \in Keys \ keys' : links'[j] = {}
    BY <1>2, <1>3 DEF AddStreamKeyForSource, TypeOK
  <2>3. /\ dirs' \subseteq Sources /\ refs' \subseteq dirs'
        /\ outs' \in [Sources -> SUBSET Objects]
        /\ \A t \in Sources \ dirs' : outs'[t] = {}
    BY <1>1, <1>3 DEF TypeOK
  <2>4. nkeys' \in 0..SizeMax /\ nsrcs' \in 0..SizeMax /\ nobjs' \in 0..SizeMax
    BY <1>3, CounterRange DEF AddStreamKeyForSource, TypeOK
  <2>5. changed' \in BOOLEAN /\ gcQueued' \in BOOLEAN
    BY DEF AddStreamKeyForSource, TypeOK
  <2> QED
    BY <1>3, <2>1, <2>2, <2>3, <2>4, <2>5 DEF TypeOK
<1>6. NoDanglingKey'
  BY <1>1, <1>2, <1>3 DEF NoDanglingKey, TypeOK
<1>7. NoDanglingPicture'
  BY <1>1, <1>3 DEF NoDanglingPicture
<1>8. OneSourcePerKey'
  BY <1>2, <1>3 DEF OneSourcePerKey, TypeOK
<1>9. ObjectCountExact' /\ ListedObjectsExist'
  BY <1>3 DEF ObjectCountExact, ListedObjectsExist
<1> QED
  BY <1>5, <1>6, <1>7, <1>8, <1>9

(* update_source keeps it: the picture is in the pool before it is linked, *)
(* and a key is linked only to a source whose .ref is there.               *)
LEMMA UpdateStep ==
    ASSUME IInv, NEW s \in Sources, NEW o \in Objects, NEW pending \in SUBSET Keys,
           NEW i \in Import(s, o), NEW run \in Runs(s, pending, i),
           UpdateSource(i, run)
    PROVE  IInv'
<1> USE DEF IInv
<1>1. /\ i.res = "UPDATED" => o \notin pool /\ i.pool = pool \cup {o}
      /\ i.res # "UPDATED" => i.pool = pool
      /\ \/ i.outs = outs
         \/ /\ i.outs = [outs EXCEPT ![s] = @ \cup {o}]
            /\ s \in dirs
            /\ o \in i.pool
  BY ImportOutcome
<1>2. /\ pool' = i.pool /\ outs' = i.outs
      /\ nobjs' = IF i.res = "UPDATED" THEN Incr(nobjs) ELSE nobjs
      /\ changed' = (changed \/ i.res = "UPDATED")
      /\ links' = [k \in Keys |-> IF k \in DOMAIN run THEN run[k].link ELSE links[k]]
      /\ UNCHANGED <<streams, keys, dirs, refs, nkeys, nsrcs, gcQueued, gc>>
  BY DEF UpdateSource
<1>3. ASSUME NEW k \in Keys
      PROVE  /\ links'[k] \subseteq links[k] \cup {s}
             /\ \A t, u \in links'[k] : t = u
             /\ s \notin refs => links'[k] \subseteq links[k]
             /\ k \notin keys => links'[k] = links[k]
  <2>1. CASE k \in DOMAIN run
    <3>1. k \in keys /\ run[k] \in LinkToSource(k, s, refs, "INSERTED")
      BY <2>1, RunOutcome
    <3>2. links'[k] = run[k].link
      BY <1>2, <2>1
    <3> QED
      BY <3>1, <3>2, LinkOutcome
  <2>2. CASE k \notin DOMAIN run
    BY <1>2, <2>2 DEF OneSourcePerKey
  <2> QED
    BY <2>1, <2>2
<1>4. pool \subseteq pool' /\ pool' \subseteq Objects
  BY <1>1, <1>2 DEF TypeOK
<1>5. TypeOK'
  <2>1. nobjs' \in 0..SizeMax
    BY <1>2, CounterRange DEF TypeOK
  <2>2. /\ links' \in [Keys -> SUBSET Sources]
        /\ \A k \in Keys \ keys' : links'[k] = {}
    BY <1>2, <1>3 DEF TypeOK
  <2>3. /\ outs' \in [Sources -> SUBSET Objects]
        /\ \A t \in Sources \ dirs' : outs'[t] = {}
    <3>1. CASE i.outs = outs
      BY <1>2, <3>1 DEF TypeOK
    <3>2. CASE i.outs = [outs EXCEPT ![s] = @ \cup {o}] /\ s \in dirs
      BY <1>2, <3>2 DEF TypeOK
    <3> QED
      BY <1>1, <3>1, <3>2
  <2>4. changed' \in BOOLEAN
    BY <1>2 DEF TypeOK
  <2> QED
    BY <1>2, <1>4, <2>1, <2>2, <2>3, <2>4 DEF TypeOK
<1>6. NoDanglingKey'
  BY <1>2, <1>3 DEF NoDanglingKey
<1>7. NoDanglingPicture'
  <2>1. CASE i.outs = outs
    BY <1>2, <1>4, <2>1 DEF NoDanglingPicture
  <2>2. CASE i.outs = [outs EXCEPT ![s] = @ \cup {o}] /\ o \in pool'
    BY <1>2, <1>4, <2>2 DEF NoDanglingPicture, TypeOK
  <2> QED
    BY <1>1, <1>2, <2>1, <2>2
<1>8. OneSourcePerKey'
  BY <1>3 DEF OneSourcePerKey
<1>9. ObjectCountExact'
  BY <1>1, <1>2, PoolCount DEF ObjectCountExact
<1>10. ListedObjectsExist'
  BY <1>2, <1>4 DEF ListedObjectsExist
<1> QED
  BY <1>5, <1>6, <1>7, <1>8, <1>9, <1>10

(* delete_key keeps it: a source that another key links is left alone.     *)
LEMMA DeleteStep ==
    ASSUME IInv, NEW k \in Keys, DeleteKey(k)
    PROVE  IInv'
<1> USE DEF IInv
<1>1. /\ links' = [links EXCEPT ![k] = {}]
      /\ keys' = keys \ {k} /\ nkeys' = Decr(nkeys)
      /\ UNCHANGED <<streams, outs, pool, nobjs, gcQueued, gc>>
  BY OneLink DEF DeleteKey, TypeOK
<1>2. \/ UNCHANGED <<dirs, refs, nsrcs>>
      \/ \E s \in Sources :
            /\ \A j \in Keys : s \notin links'[j]
            /\ refs' = refs \ {s}
            /\ dirs' = IF outs[s] = {} THEN dirs \ {s} ELSE dirs
            /\ nsrcs' = IF outs[s] = {} THEN Decr(nsrcs) ELSE nsrcs
  <2>1. CASE links[k] = {}
    BY <2>1 DEF DeleteKey
  <2>2. CASE links[k] # {}
    <3>1. OldLink(k) \in Sources
      BY <2>2, OneLink DEF TypeOK
    <3> QED
      BY <2>2, <3>1 DEF DeleteKey, DeleteSource
  <2> QED
    BY <2>1, <2>2
<1>3. TypeOK'
  <2>1. nkeys' \in 0..SizeMax /\ nsrcs' \in 0..SizeMax
    BY <1>1, <1>2, CounterRange DEF TypeOK
  <2>2. /\ links' \in [Keys -> SUBSET Sources]
        /\ \A j \in Keys \ keys' : links'[j] = {}
    BY <1>1 DEF TypeOK
  <2>3. /\ dirs' \subseteq Sources /\ refs' \subseteq dirs'
        /\ \A t \in Sources \ dirs' : outs[t] = {}
    BY <1>2 DEF TypeOK
  <2>4. changed' \in BOOLEAN
    BY DEF DeleteKey, TypeOK
  <2> QED
    BY <1>1, <2>1, <2>2, <2>3, <2>4 DEF TypeOK
<1>4. NoDanglingKey'
  BY <1>1, <1>2 DEF NoDanglingKey, TypeOK
<1>5. OneSourcePerKey'
  BY <1>1 DEF OneSourcePerKey, TypeOK
<1>6. NoDanglingPicture' /\ ObjectCountExact' /\ ListedObjectsExist'
  BY <1>1 DEF NoDanglingPicture, ObjectCountExact, ListedObjectsExist
<1> QED
  BY <1>3, <1>4, <1>5, <1>6

(* A restart reads the cache as it is, or wipes all of it.                 *)
LEMMA RestartStep ==
    ASSUME IInv, Restart
    PROVE  IInv'
<1> USE DEF IInv
<1>1. gc' = Locals("idle", {}, MaxFailRounds, FALSE)
  BY DEF Restart, Idle
<1>2. GCTypeOK' /\ ListedObjectsExist'
  BY <1>1 DEF GCTypeOK, ListedObjectsExist, Locals, Phases, MaxFailRounds
<1>3. /\ streams' \subseteq StreamKeys /\ dirs' \subseteq Sources /\ pool' \subseteq Objects
      /\ nkeys' = Cardinality(streams') /\ nsrcs' = Cardinality(dirs')
      /\ nobjs' = Cardinality(pool')
  BY DEF Restart, Wipe, TypeOK, disk
<1>4. nkeys' \in 0..SizeMax /\ nsrcs' \in 0..SizeMax /\ nobjs' \in 0..SizeMax
  BY <1>3, CacheAssumption, FS_Subset, FS_CardinalityType
<1>5. changed' \in BOOLEAN /\ gcQueued' \in BOOLEAN
  BY DEF Restart, ExceedsLimits
<1>6. CASE UNCHANGED disk
  BY <1>2, <1>3, <1>4, <1>5, <1>6
     DEF disk, TypeOK, GCTypeOK, NoDanglingKey, NoDanglingPicture, OneSourcePerKey, ObjectCountExact
<1>7. CASE Wipe
  BY <1>2, <1>3, <1>4, <1>5, <1>7
     DEF Wipe, TypeOK, GCTypeOK, NoDanglingKey, NoDanglingPicture, OneSourcePerKey, ObjectCountExact
<1> QED
  BY <1>6, <1>7 DEF Restart

-----------------------------------------------------------------------------
(* The garbage collector: steps that only move it along leave the disk and *)
(* the counters, so they keep the invariant if they keep the types of its  *)
(* locals.                                                                 *)
LEMMA GCMoves ==
    ASSUME IInv, UNCHANGED <<disk, nkeys, nsrcs, nobjs>>,
           changed' \in BOOLEAN, gcQueued' \in BOOLEAN, GCTypeOK', ListedObjectsExist'
    PROVE  IInv'
BY DEF IInv, disk, TypeOK, GCTypeOK, NoDanglingKey, NoDanglingPicture, OneSourcePerKey,
       ObjectCountExact

(* The collector starts with nothing listed.                               *)
LEMMA GCBeginStep == ASSUME IInv, GCBegin PROVE IInv'
<1>1. GCTypeOK' /\ ListedObjectsExist'
  BY DEF GCBegin, GCTypeOK, ListedObjectsExist, Locals, Phases, MaxFailRounds
<1>2. UNCHANGED <<disk, stats>> /\ changed' \in BOOLEAN /\ gcQueued' \in BOOLEAN
  BY DEF GCBegin, IInv, TypeOK, stats
<1> QED
  BY <1>1, <1>2, GCMoves DEF stats

(* Looking at the counters lists, in the end, the streams that exist.      *)
LEMMA GCCollectStep == ASSUME IInv, GCCollect PROVE IInv'
<1>1. /\ gc.rounds \in 0..MaxFailRounds /\ gc.deleted \in BOOLEAN
      /\ streams \subseteq StreamKeys /\ gcQueued \in BOOLEAN
  BY DEF IInv, TypeOK
<1>2. GCTypeOK' /\ ListedObjectsExist'
  <2>1. CASE gc' = Locals("count sources", {}, gc.rounds, gc.deleted)
    BY <1>1, <2>1, LocalsType DEF ListedObjectsExist, Phases
  <2>2. CASE gc' = Locals("count objects", {}, gc.rounds, gc.deleted)
    BY <1>1, <2>2, LocalsType DEF ListedObjectsExist, Phases
  <2>3. CASE gc' = Locals("streams", streams, gc.rounds, gc.deleted)
    BY <1>1, <2>3, LocalsType DEF ListedObjectsExist, Phases
  <2> QED
    BY <2>1, <2>2, <2>3 DEF GCCollect, GCCount
<1>3. UNCHANGED <<disk, nkeys, nsrcs, nobjs, gcQueued>> /\ changed' = FALSE
  BY DEF GCCollect, GCCount
<1> QED
  BY <1>1, <1>2, <1>3, GCMoves

(* A listing holds what exists when it is made.                            *)
LEMMA GCNextListingStep == ASSUME IInv, GCNextListing PROVE IInv'
<1>1. /\ gc.rounds \in 0..MaxFailRounds /\ gc.deleted \in BOOLEAN
      /\ dirs \subseteq Sources /\ pool \subseteq Objects
      /\ changed \in BOOLEAN /\ gcQueued \in BOOLEAN
  BY DEF IInv, TypeOK
<1>2. /\ UNCHANGED <<disk, stats, gcQueued>>
      /\ \/ gc' = Locals("sources", dirs, gc.rounds, gc.deleted)
         \/ gc' = Locals("objects", pool, gc.rounds, gc.deleted)
         \/ gc' = Locals("end", {}, gc.rounds, gc.deleted)
  BY DEF GCNextListing
<1>3. GCTypeOK' /\ ListedObjectsExist'
  <2>1. CASE gc' = Locals("sources", dirs, gc.rounds, gc.deleted)
    BY <1>1, <2>1, LocalsType DEF ListedObjectsExist, Phases
  <2>2. CASE gc' = Locals("objects", pool, gc.rounds, gc.deleted)
    BY <1>1, <1>2, <2>2, LocalsType DEF ListedObjectsExist, Phases, disk
  <2>3. CASE gc' = Locals("end", {}, gc.rounds, gc.deleted)
    BY <1>1, <2>3, LocalsType DEF ListedObjectsExist, Phases
  <2> QED
    BY <1>2, <2>1, <2>2, <2>3
<1> QED
  BY <1>1, <1>2, <1>3, GCMoves DEF stats

(* The end of a round counts the failures down.                            *)
LEMMA GCRoundEndStep == ASSUME IInv, GCRoundEnd PROVE IInv'
<1>1. /\ gc.rounds \in 0..MaxFailRounds /\ gc.deleted \in BOOLEAN
      /\ changed \in BOOLEAN /\ gcQueued \in BOOLEAN
  BY DEF IInv, TypeOK
<1>2. UNCHANGED <<disk, nkeys, nsrcs, nobjs, gcQueued>> /\ changed' \in BOOLEAN
  BY <1>1 DEF GCRoundEnd
<1>3. GCTypeOK' /\ ListedObjectsExist'
  <2> DEFINE left == IF gc.deleted THEN MaxFailRounds ELSE gc.rounds - 1
  <2>1. CASE gc' = Locals("count sources", {}, left, FALSE) /\ (gc.deleted \/ gc.rounds > 0)
    <3>1. left \in 0..MaxFailRounds
      <4>1. CASE gc.deleted
        BY <4>1 DEF MaxFailRounds
      <4>2. CASE ~gc.deleted
        <5>1. gc.rounds > 0
          BY <2>1, <4>2
        <5>2. gc.rounds - 1 \in 0..MaxFailRounds
          BY <1>1, <5>1 DEF MaxFailRounds
        <5> QED
          BY <4>2, <5>2
      <4> QED
        BY <4>1, <4>2
    <3> HIDE DEF left
    <3> QED
      BY <2>1, <3>1, LocalsType DEF ListedObjectsExist, Phases
  <2>2. CASE gc' = Locals("idle", {}, MaxFailRounds, FALSE)
    <3>1. MaxFailRounds \in 0..MaxFailRounds
      BY DEF MaxFailRounds
    <3> QED
      BY <2>2, <3>1, LocalsType DEF ListedObjectsExist, Phases
  <2> QED
    BY <2>1, <2>2 DEF GCRoundEnd, Idle
<1> QED
  BY <1>1, <1>2, <1>3, GCMoves

(* A visit ticks one entry off the listing.                                *)
LEMMA VisitType ==
    ASSUME IInv, NEW x, NEW removed \in BOOLEAN, Visited(x, removed)
    PROVE  GCTypeOK' /\ gc'.phase = gc.phase /\ gc'.todo = gc.todo \ {x}
<1>1. /\ gc.phase \in Phases /\ gc.todo \subseteq StreamKeys \cup Sources \cup Objects
      /\ gc.rounds \in 0..MaxFailRounds /\ gc.deleted \in BOOLEAN
      /\ gc.phase = "streams" => gc.todo \subseteq StreamKeys
      /\ gc.phase = "sources" => gc.todo \subseteq Sources
      /\ gc.phase = "objects" => gc.todo \subseteq Objects
  BY DEF IInv, TypeOK
<1>2. /\ gc' = Locals(gc.phase, gc.todo \ {x}, gc.rounds, gc.deleted \/ removed)
      /\ gc.deleted \/ removed \in BOOLEAN
  BY <1>1 DEF Visited
<1> QED
  BY <1>1, <1>2 DEF GCTypeOK, Locals

(* An entry that is kept changes nothing but the work left.                *)
LEMMA KeepStep == ASSUME IInv, NEW x, Keep(x) PROVE IInv'
<1>1. /\ UNCHANGED <<disk, stats, gcQueued>> /\ Visited(x, FALSE)
      /\ changed \in BOOLEAN /\ gcQueued \in BOOLEAN
  BY DEF Keep, IInv, TypeOK
<1>2. GCTypeOK' /\ gc'.phase = gc.phase /\ gc'.todo = gc.todo \ {x}
  BY <1>1, VisitType
<1>3. ListedObjectsExist'
  BY <1>1, <1>2 DEF IInv, ListedObjectsExist, disk
<1> QED
  BY <1>1, <1>2, <1>3, GCMoves DEF stats

(* A stream goes with all its keys and links.                              *)
LEMMA VisitStreamStep ==
    ASSUME IInv, NEW st \in StreamKeys, RemoveStream(st)
    PROVE  IInv'
<1> USE DEF IInv
<1>1. /\ streams' = streams \ {st}
      /\ keys' = {k \in keys : k[1] # st}
      /\ links' = [k \in Keys |-> IF k[1] = st THEN {} ELSE links[k]]
      /\ nkeys' = Decr(nkeys)
      /\ UNCHANGED <<dirs, refs, outs, pool, nsrcs, nobjs, changed, gcQueued>>
  BY DEF RemoveStream
<1>2. GCTypeOK' /\ gc'.phase = gc.phase /\ gc'.todo = gc.todo \ {st}
  BY VisitType DEF RemoveStream
<1>3. TypeOK'
  <2>1. nkeys' \in 0..SizeMax
    BY <1>1, CounterRange DEF TypeOK
  <2>2. /\ links' \in [Keys -> SUBSET Sources]
        /\ \A k \in Keys \ keys' : links'[k] = {}
    BY <1>1 DEF TypeOK
  <2>3. /\ streams' \subseteq StreamKeys /\ keys' \subseteq Keys
        /\ \A k \in keys' : k[1] \in streams'
    BY <1>1 DEF TypeOK
  <2> QED
    BY <1>1, <1>2, <2>1, <2>2, <2>3 DEF TypeOK, GCTypeOK
<1>4. NoDanglingKey' /\ OneSourcePerKey'
  BY <1>1 DEF NoDanglingKey, OneSourcePerKey
<1>5. NoDanglingPicture' /\ ObjectCountExact' /\ ListedObjectsExist'
  BY <1>1, <1>2 DEF NoDanglingPicture, ObjectCountExact, ListedObjectsExist
<1> QED
  BY <1>3, <1>4, <1>5

(* A source that is removed is not linked by any key: either it has no     *)
(* .ref, and then no key points to it, or its link count was looked at.    *)
LEMMA VisitSourceStep ==
    ASSUME IInv, NEW s \in Sources, RemoveSource(s), s \notin refs \/ ~Referenced(s)
    PROVE  IInv'
<1> USE DEF IInv
<1>1. /\ dirs' = dirs \ {s} /\ refs' = refs \ {s}
      /\ outs' = [outs EXCEPT ![s] = {}]
      /\ nsrcs' = Decr(nsrcs)
      /\ UNCHANGED <<streams, keys, links, pool, nkeys, nobjs, changed, gcQueued>>
  BY DEF RemoveSource
<1>2. GCTypeOK' /\ gc'.phase = gc.phase /\ gc'.todo = gc.todo \ {s}
  BY VisitType DEF RemoveSource
<1>3. TypeOK'
  <2>1. nsrcs' \in 0..SizeMax
    BY <1>1, CounterRange DEF TypeOK
  <2>2. /\ dirs' \subseteq Sources /\ refs' \subseteq dirs'
        /\ outs' \in [Sources -> SUBSET Objects]
        /\ \A t \in Sources \ dirs' : outs'[t] = {}
    BY <1>1 DEF TypeOK
  <2> QED
    BY <1>1, <1>2, <2>1, <2>2 DEF TypeOK, GCTypeOK
<1>4. NoDanglingKey'
  <2>1. \A k \in Keys : s \notin links[k]
    BY DEF Referenced, NoDanglingKey
  <2> QED
    BY <1>1, <2>1 DEF NoDanglingKey
<1>5. NoDanglingPicture'
  BY <1>1 DEF NoDanglingPicture, TypeOK
<1>6. OneSourcePerKey' /\ ObjectCountExact' /\ ListedObjectsExist'
  BY <1>1, <1>2 DEF OneSourcePerKey, ObjectCountExact, ListedObjectsExist
<1> QED
  BY <1>3, <1>4, <1>5, <1>6

(* An object that is removed was there when it is counted down, and no     *)
(* source names it.                                                        *)
LEMMA VisitObjectStep ==
    ASSUME IInv, NEW o \in pool, RemoveObject(o), ~ObjectReferenced(o)
    PROVE  IInv'
<1> USE DEF IInv
<1>1. /\ pool' = pool \ {o} /\ nobjs' = Decr(nobjs)
      /\ UNCHANGED <<streams, keys, links, dirs, refs, outs, nkeys, nsrcs, changed, gcQueued>>
  BY DEF RemoveObject
<1>2. GCTypeOK' /\ gc'.phase = gc.phase /\ gc'.todo = gc.todo \ {o}
  BY VisitType DEF RemoveObject
<1>3. TypeOK'
  <2>1. nobjs' \in 0..SizeMax
    BY <1>1, CounterRange DEF TypeOK
  <2> QED
    BY <1>1, <1>2, <2>1 DEF TypeOK, GCTypeOK
<1>4. NoDanglingPicture'
  BY <1>1 DEF NoDanglingPicture, ObjectReferenced
<1>5. ObjectCountExact'
  BY <1>1, PoolCount DEF ObjectCountExact
<1>6. NoDanglingKey' /\ OneSourcePerKey'
  BY <1>1 DEF NoDanglingKey, OneSourcePerKey
<1>7. ListedObjectsExist'
  BY <1>1, <1>2 DEF ListedObjectsExist
<1> QED
  BY <1>3, <1>4, <1>5, <1>6, <1>7

(* What a failed removal leaves of a stream are keys that were there, with *)
(* links that they had or without.                                         *)
LEMMA StreamRemainsStep ==
    ASSUME IInv, NEW st \in StreamKeys, StreamRemains(st)
    PROVE  IInv'
<1> USE DEF IInv
<1>0. PICK left \in SUBSET {k \in keys : k[1] = st} : \E linked \in SUBSET left :
        /\ keys' = {k \in keys : k[1] = st => k \in left}
        /\ links' = [k \in Keys |-> IF k[1] = st /\ k \notin linked THEN {} ELSE links[k]]
  BY DEF StreamRemains
<1>1. PICK linked \in SUBSET left :
        /\ keys' = {k \in keys : k[1] = st => k \in left}
        /\ links' = [k \in Keys |-> IF k[1] = st /\ k \notin linked THEN {} ELSE links[k]]
  BY <1>0
<1>2. /\ nkeys' = Decr(nkeys)
      /\ UNCHANGED <<streams, dirs, refs, outs, pool, nsrcs, nobjs, changed, gcQueued>>
  BY DEF StreamRemains
<1>3. GCTypeOK' /\ gc'.phase = gc.phase /\ gc'.todo = gc.todo \ {st}
  BY VisitType DEF StreamRemains
<1>4. TypeOK'
  <2>1. nkeys' \in 0..SizeMax
    BY <1>2, CounterRange DEF TypeOK
  <2>2. /\ links' \in [Keys -> SUBSET Sources]
        /\ \A k \in Keys \ keys' : links'[k] = {}
    BY <1>1 DEF TypeOK
  <2>3. /\ streams' \subseteq StreamKeys /\ keys' \subseteq Keys
        /\ \A k \in keys' : k[1] \in streams'
    BY <1>1, <1>2 DEF TypeOK
  <2> QED
    BY <1>2, <1>3, <2>1, <2>2, <2>3 DEF TypeOK, GCTypeOK
<1>5. NoDanglingKey' /\ OneSourcePerKey'
  BY <1>1, <1>2 DEF NoDanglingKey, OneSourcePerKey
<1>6. NoDanglingPicture' /\ ObjectCountExact' /\ ListedObjectsExist'
  BY <1>2, <1>3 DEF NoDanglingPicture, ObjectCountExact, ListedObjectsExist
<1> QED
  BY <1>4, <1>5, <1>6

(* What is left of a source no key links has fewer files.                  *)
LEMMA SourceRemainsStep ==
    ASSUME IInv, NEW s \in Sources, SourceRemains(s), s \notin refs \/ ~Referenced(s)
    PROVE  IInv'
<1> USE DEF IInv
<1>1. PICK left \in SUBSET outs[s] : outs' = [outs EXCEPT ![s] = left]
  BY DEF SourceRemains
<1>2. /\ refs' \in {refs, refs \ {s}}
      /\ nsrcs' = Decr(nsrcs)
      /\ UNCHANGED <<streams, keys, links, dirs, pool, nkeys, nobjs, changed, gcQueued>>
  BY DEF SourceRemains
<1>3. GCTypeOK' /\ gc'.phase = gc.phase /\ gc'.todo = gc.todo \ {s}
  BY VisitType DEF SourceRemains
<1>4. TypeOK'
  <2>1. nsrcs' \in 0..SizeMax
    BY <1>2, CounterRange DEF TypeOK
  <2>2. /\ dirs' \subseteq Sources /\ refs' \subseteq dirs'
        /\ outs' \in [Sources -> SUBSET Objects]
        /\ \A t \in Sources \ dirs' : outs'[t] = {}
    BY <1>1, <1>2 DEF TypeOK
  <2> QED
    BY <1>2, <1>3, <2>1, <2>2 DEF TypeOK, GCTypeOK
<1>5. NoDanglingKey'
  <2>1. \A k \in Keys : s \notin links[k]
    BY DEF Referenced, NoDanglingKey
  <2> QED
    BY <1>2, <2>1 DEF NoDanglingKey
<1>6. NoDanglingPicture'
  BY <1>1, <1>2 DEF NoDanglingPicture, TypeOK
<1>7. OneSourcePerKey' /\ ObjectCountExact' /\ ListedObjectsExist'
  BY <1>2, <1>3 DEF OneSourcePerKey, ObjectCountExact, ListedObjectsExist
<1> QED
  BY <1>4, <1>5, <1>6, <1>7

(* An object that remains is no longer counted, which ObjectCountExact     *)
(* allows for.                                                             *)
LEMMA ObjectRemainsStep ==
    ASSUME IInv, NEW o \in pool, ObjectRemains(o)
    PROVE  IInv'
<1> USE DEF IInv
<1>1. /\ "rm" \in Faults
      /\ nobjs' = Decr(nobjs)
      /\ UNCHANGED <<streams, keys, links, dirs, refs, outs, pool, nkeys, nsrcs, changed, gcQueued>>
  BY DEF ObjectRemains, disk
<1>2. GCTypeOK' /\ gc'.phase = gc.phase /\ gc'.todo = gc.todo \ {o}
  BY VisitType DEF ObjectRemains
<1>3. TypeOK'
  <2>1. nobjs' \in 0..SizeMax
    BY <1>1, CounterRange DEF TypeOK
  <2> QED
    BY <1>1, <1>2, <2>1 DEF TypeOK, GCTypeOK
<1>4. NoDanglingPicture' /\ NoDanglingKey' /\ OneSourcePerKey' /\ ObjectCountExact'
  BY <1>1 DEF NoDanglingPicture, NoDanglingKey, OneSourcePerKey, ObjectCountExact
<1>5. ListedObjectsExist'
  BY <1>1, <1>2 DEF ListedObjectsExist
<1> QED
  BY <1>3, <1>4, <1>5

(* Every step of the collector keeps the invariant.                        *)
LEMMA GCStep == ASSUME IInv, GC PROVE IInv'
<1>1. CASE GCBegin \/ GCCollect \/ GCNextListing \/ GCRoundEnd
  BY <1>1, GCBeginStep, GCCollectStep, GCNextListingStep, GCRoundEndStep
<1>2. ASSUME NEW st \in StreamKeys, NEW old \in BOOLEAN, GCVisitStream(st, old)
      PROVE  IInv'
  BY <1>2, VisitStreamStep, StreamRemainsStep, KeepStep DEF GCVisitStream
<1>3. ASSUME NEW s \in Sources, NEW old \in BOOLEAN, GCVisitSource(s, old)
      PROVE  IInv'
  BY <1>3, VisitSourceStep, SourceRemainsStep, KeepStep DEF GCVisitSource
<1>4. ASSUME NEW o \in Objects, NEW old \in BOOLEAN, GCVisitObject(o, old)
      PROVE  IInv'
  <2>1. o \in pool
    BY <1>4 DEF GCVisitObject, IInv, ListedObjectsExist
  <2> QED
    BY <1>4, <2>1, VisitObjectStep, ObjectRemainsStep, KeepStep DEF GCVisitObject
<1> QED
  BY <1>1, <1>2, <1>3, <1>4 DEF GC

(* A lookup changes one flag, and a stuttering step nothing.               *)
LEMMA LookupStep == ASSUME IInv, NEW k \in Keys, Lookup(k) PROVE IInv'
<1>1. UNCHANGED <<disk, nkeys, nsrcs, nobjs, gcQueued, gc>> /\ changed' = TRUE
  BY DEF Lookup
<1>2. GCTypeOK' /\ ListedObjectsExist'
  BY <1>1 DEF disk, IInv, TypeOK, GCTypeOK, ListedObjectsExist
<1> QED
  BY <1>1, <1>2, GCMoves DEF IInv, TypeOK

(* Nothing changes.                                                        *)
LEMMA StutterStep == ASSUME IInv, UNCHANGED vars PROVE IInv'
BY DEF IInv, vars, disk, stats, TypeOK, NoDanglingKey, NoDanglingPicture, OneSourcePerKey,
       ObjectCountExact, ListedObjectsExist

(* The invariant is inductive.                                             *)
LEMMA NextInv == IInv /\ [Next]_vars => IInv'
<1> SUFFICES ASSUME IInv, [Next]_vars PROVE IInv'
  OBVIOUS
<1>1. ASSUME NEW k \in Keys, NEW s \in Sources, NEW queued \in BOOLEAN, NEW oldPending \in BOOLEAN,
             NEW src \in MkSourceEntry(s), NEW out \in AddOutcomes(k, s, src, queued, oldPending),
             AddStreamKeyForSource(k, src, out)
      PROVE  IInv'
  BY <1>1, AddStep
<1>2. ASSUME NEW s \in Sources, NEW o \in Objects, NEW pending \in SUBSET Keys,
             NEW i \in Import(s, o), NEW run \in Runs(s, pending, i), UpdateSource(i, run)
      PROVE  IInv'
  BY <1>2, UpdateStep
<1>3. ASSUME NEW k \in Keys, DeleteKey(k)
      PROVE  IInv'
  BY <1>3, DeleteStep
<1>4. CASE Restart
  BY <1>4, RestartStep
<1>5. CASE GC
  BY <1>5, GCStep
<1>6. ASSUME NEW k \in Keys, Lookup(k)
      PROVE  IInv'
  BY <1>6, LookupStep
<1>7. CASE UNCHANGED vars
  BY <1>7, StutterStep
<1> QED
  BY <1>1, <1>2, <1>3, <1>4, <1>5, <1>6, <1>7 DEF Next

(* The strengthened invariant holds of every reachable state.              *)
THEOREM Invariance == Spec => []IInv
BY InitInv, NextInv, PTL DEF Spec

(* Every variable keeps its type, and the parts of the cache nest: a file  *)
(* is in a directory, a priority below its stream key.                     *)
THEOREM TypeCorrect == Spec => []TypeOK
<1>1. IInv => TypeOK
  BY DEF IInv
<1> QED
  BY <1>1, Invariance, PTL

(* A key never points to a source that is gone, for all interleavings of   *)
(* the manager's operations with the garbage collector.                    *)
THEOREM KeysDoNotDangle == Spec => []NoDanglingKey
<1>1. IInv => NoDanglingKey
  BY DEF IInv
<1> QED
  BY <1>1, Invariance, PTL

(* A source never names a picture that is gone.                            *)
THEOREM PicturesDoNotDangle == Spec => []NoDanglingPicture
<1>1. IInv => NoDanglingPicture
  BY DEF IInv
<1> QED
  BY <1>1, Invariance, PTL

(* Re-linking, also when it fails half way, leaves one source link at most *)
(* in a priority directory.                                                *)
THEOREM OneFilePerPriority == Spec => []OneSourcePerKey
<1>1. IInv => OneSourcePerKey
  BY DEF IInv
<1> QED
  BY <1>1, Invariance, PTL

(* The object counter is the number of objects on disk.                    *)
THEOREM ObjectsAreCounted == Spec => []ObjectCountExact
<1>1. IInv => ObjectCountExact
  BY DEF IInv
<1> QED
  BY <1>1, Invariance, PTL

-----------------------------------------------------------------------------
(* A step that keeps every source directory with a .ref, and its contents, *)
(* keeps the pictures of all keys.                                         *)
LEMMA KeptIfGrowing ==
    ASSUME IInv, IInv', NEW k \in Keys,
           \A s \in refs : s \in links'[k] => s \in dirs' /\ outs[s] \subseteq outs'[s]
    PROVE  PictureKept(k)
BY DEF PictureKept, IInv, NoDanglingKey, NoDanglingPicture, TypeOK

(* No step takes the picture from under a key that still links it.         *)
LEMMA NextKeepsPictures ==
    ASSUME IInv, Next, NEW k \in Keys
    PROVE  PictureKept(k)
<1> USE DEF IInv
<1>1. IInv'
  BY NextInv
<1>2. ASSUME NEW j \in Keys, NEW s \in Sources, NEW queued \in BOOLEAN, NEW oldPending \in BOOLEAN,
             NEW src \in MkSourceEntry(s), NEW out \in AddOutcomes(j, s, src, queued, oldPending),
             AddStreamKeyForSource(j, src, out)
      PROVE  PictureKept(k)
  <2>1. \A t \in refs : t \in src.dirs /\ src.outs[t] = outs[t]
    BY SourceOutcome DEF TypeOK
  <2>2. dirs' = src.dirs /\ outs' = src.outs
    BY <1>2 DEF AddStreamKeyForSource
  <2> QED
    BY <1>1, <2>1, <2>2, KeptIfGrowing
<1>3. ASSUME NEW s \in Sources, NEW o \in Objects, NEW pending \in SUBSET Keys,
             NEW i \in Import(s, o), NEW run \in Runs(s, pending, i), UpdateSource(i, run)
      PROVE  PictureKept(k)
  <2>1. \A t \in Sources : outs[t] \subseteq i.outs[t]
    <3>1. CASE i.outs = outs
      BY <3>1
    <3>2. CASE i.outs = [outs EXCEPT ![s] = @ \cup {o}]
      BY <3>2 DEF TypeOK
    <3> QED
      BY <3>1, <3>2, ImportOutcome
  <2>2. dirs' = dirs /\ outs' = i.outs
    BY <1>3 DEF UpdateSource
  <2> QED
    BY <1>1, <2>1, <2>2, KeptIfGrowing DEF TypeOK
<1>4. ASSUME NEW j \in Keys, DeleteKey(j)
      PROVE  PictureKept(k)
  <2>1. outs' = outs
    BY <1>4 DEF DeleteKey
  <2>2. ASSUME NEW t \in refs, t \in links'[k]
        PROVE  t \in dirs'
    <3>1. CASE links[j] = {}
      BY <1>4, <3>1 DEF DeleteKey, TypeOK
    <3>2. CASE links[j] # {}
      BY <1>4, <2>2, <3>2 DEF DeleteKey, DeleteSource, TypeOK
    <3> QED
      BY <3>1, <3>2
  <2> QED
    BY <1>1, <2>1, <2>2, KeptIfGrowing
<1>5. CASE Restart
  <2>1. CASE UNCHANGED disk
    <3>1. dirs' = dirs /\ outs' = outs /\ refs \subseteq dirs
      BY <2>1 DEF disk, TypeOK
    <3> QED
      BY <1>1, <3>1, KeptIfGrowing
  <2>2. CASE Wipe
    BY <2>2 DEF Wipe, PictureKept
  <2> QED
    BY <1>5, <2>1, <2>2 DEF Restart
<1>6. ASSUME dirs' = dirs, outs' = outs
      PROVE  PictureKept(k)
  BY <1>1, <1>6, KeptIfGrowing DEF TypeOK
<1>7. CASE GC
  <2>1. CASE GCBegin \/ GCCollect \/ GCNextListing \/ GCRoundEnd
    <3>1. UNCHANGED disk
      BY <2>1 DEF GCBegin, GCCollect, GCCount, GCNextListing, GCRoundEnd
    <3> QED
      BY <1>6, <3>1 DEF disk
  <2>2. ASSUME NEW st \in StreamKeys, NEW old \in BOOLEAN, GCVisitStream(st, old)
        PROVE  PictureKept(k)
    <3>1. dirs' = dirs /\ outs' = outs
      BY <2>2 DEF GCVisitStream, RemoveStream, StreamRemains, Keep, disk
    <3> QED
      BY <1>6, <3>1
  <2>3. ASSUME NEW s \in Sources, NEW old \in BOOLEAN, GCVisitSource(s, old)
        PROVE  PictureKept(k)
    <3>1. CASE Keep(s)
      BY <1>6, <3>1 DEF Keep, disk
    <3>2. CASE RemoveSource(s) /\ (s \notin refs \/ ~Referenced(s))
      <4>1. s \notin links[k]
        BY <3>2 DEF Referenced, NoDanglingKey
      <4>2. /\ links' = links /\ dirs' = dirs \ {s} /\ pool' = pool
            /\ outs' = [outs EXCEPT ![s] = {}]
        BY <3>2 DEF RemoveSource
      <4> QED
        BY <4>1, <4>2 DEF PictureKept, NoDanglingKey, NoDanglingPicture, TypeOK
    <3>3. CASE SourceRemains(s) /\ (s \notin refs \/ ~Referenced(s))
      <4>1. s \notin links[k]
        BY <3>3 DEF Referenced, NoDanglingKey
      <4>2. /\ links' = links /\ dirs' = dirs /\ pool' = pool
            /\ \A t \in Sources \ {s} : outs'[t] = outs[t]
        BY <3>3 DEF SourceRemains, TypeOK
      <4> QED
        BY <4>1, <4>2 DEF PictureKept, NoDanglingKey, NoDanglingPicture, TypeOK
    <3> QED
      BY <2>3, <3>1, <3>2, <3>3 DEF GCVisitSource
  <2>4. ASSUME NEW o \in Objects, NEW old \in BOOLEAN, GCVisitObject(o, old)
        PROVE  PictureKept(k)
    <3>1. dirs' = dirs /\ outs' = outs
      BY <2>4 DEF GCVisitObject, RemoveObject, ObjectRemains, Keep, disk
    <3> QED
      BY <1>6, <3>1
  <2> QED
    BY <1>7, <2>1, <2>2, <2>3, <2>4 DEF GC
<1>8. ASSUME NEW j \in Keys, Lookup(j)
      PROVE  PictureKept(k)
  BY <1>6, <1>8 DEF Lookup, disk
<1> QED
  BY <1>2, <1>3, <1>4, <1>5, <1>7, <1>8 DEF Next

(* The picture of a key stays for as long as the key is neither re-linked  *)
(* nor deleted.                                                            *)
THEOREM PicturesAreKept == Spec => LivePictureKept
<1>1. ASSUME IInv, [Next]_vars
      PROVE  [\A k \in Keys : PictureKept(k)]_vars
  <2>1. CASE Next
    BY <1>1, <2>1, NextKeepsPictures
  <2>2. CASE UNCHANGED vars
    BY <2>2
  <2> QED
    BY <1>1, <2>1, <2>2
<1>2. Spec => []IInv
  BY Invariance
<1> QED
  BY <1>1, <1>2, PTL DEF Spec, LivePictureKept

-----------------------------------------------------------------------------
(* The sources on disk, with those that were listed and are gone by now.   *)
Listed == dirs \cup (IF gc.phase = "sources" THEN gc.todo ELSE {})

(* The step of a collection that CollectionShrinks allows.                 *)
Nearer ==
    \/ gc'.phase = "idle"
    \/ Remaining' < Remaining
    \/ Remaining' = Remaining /\ gc'.rounds < gc.rounds
    \/ /\ Remaining' = Remaining /\ gc'.rounds = gc.rounds
       /\ \/ PhasesLeft(gc'.phase) < PhasesLeft(gc.phase)
          \/ gc'.phase = gc.phase /\ Cardinality(gc'.todo) < Cardinality(gc.todo)

(* All that can be removed, and all that is listed, can be counted.        *)
LEMMA Countable ==
    ASSUME IInv
    PROVE  /\ IsFiniteSet(streams) /\ Cardinality(streams) \in Nat
           /\ IsFiniteSet(Listed) /\ Cardinality(Listed) \in Nat
           /\ IsFiniteSet(pool) /\ Cardinality(pool) \in Nat
           /\ IsFiniteSet(gc.todo) /\ Cardinality(gc.todo) \in Nat
<1>1. /\ streams \subseteq StreamKeys /\ dirs \subseteq Sources /\ pool \subseteq Objects
      /\ gc.todo \subseteq StreamKeys \cup Sources \cup Objects
      /\ gc.phase = "sources" => gc.todo \subseteq Sources
  BY DEF IInv, TypeOK
<1>2. IsFiniteSet(StreamKeys) /\ IsFiniteSet(Sources) /\ IsFiniteSet(Objects)
  BY CacheAssumption
<1>3. IsFiniteSet(StreamKeys \cup Sources \cup Objects)
  BY <1>2, FS_Union
<1>4. IsFiniteSet(streams) /\ IsFiniteSet(pool) /\ IsFiniteSet(gc.todo)
  BY <1>1, <1>2, <1>3, FS_Subset
<1>5. IsFiniteSet(Listed)
  BY <1>1, <1>2, FS_Subset DEF Listed
<1> QED
  BY <1>4, <1>5, FS_CardinalityType

(* What is left, in terms of the sets it counts.                           *)
LEMMA RemainingIs ==
    ASSUME IInv
    PROVE  /\ Remaining = Cardinality(streams) + Cardinality(Listed) + Cardinality(pool)
                             + (IF gc.deleted THEN 1 ELSE 0)
           /\ Remaining \in Nat
<1>1. Remaining = Cardinality(streams) + Cardinality(Listed) + Cardinality(pool)
                    + (IF gc.deleted THEN 1 ELSE 0)
  BY DEF Remaining, Listed
<1> QED
  BY <1>1, Countable

(* A visit that leaves no more than there was has one entry less to go.    *)
LEMMA VisitIsNearer ==
    ASSUME IInv, NEW x \in gc.todo, NEW removed \in BOOLEAN, Visited(x, removed),
           Remaining \in Nat, Remaining' \in Nat, Remaining' <= Remaining
    PROVE  Nearer
<1>1. /\ gc'.phase = gc.phase /\ gc'.todo = gc.todo \ {x} /\ gc'.rounds = gc.rounds
  BY DEF Visited, Locals
<1>2. /\ IsFiniteSet(gc.todo) /\ Cardinality(gc.todo) \in Nat
      /\ gc.rounds \in 0..MaxFailRounds
  BY Countable DEF IInv, TypeOK
<1>3. Cardinality(gc.todo \ {x}) = Cardinality(gc.todo) - 1
  BY <1>2, FS_RemoveElement
<1>4. Cardinality(gc'.todo) < Cardinality(gc.todo)
  BY <1>1, <1>2, <1>3
<1> QED
  BY <1>1, <1>4 DEF Nearer

(* A visit that removes one entry, or none, leaves no more than there was: *)
(* the entry that is gone makes up for the note that something is.         *)
LEMMA VisitLeavesLess ==
    ASSUME IInv, NEW x \in gc.todo, NEW removed \in BOOLEAN, Visited(x, removed),
           \/ /\ ~removed
              /\ streams' = streams /\ pool' = pool
              /\ Listed' \subseteq Listed
           \/ x \in streams /\ streams' = streams \ {x} /\ Listed' = Listed /\ pool' = pool
           \/ x \in Listed /\ streams' = streams /\ Listed' = Listed \ {x} /\ pool' = pool
           \/ x \in pool /\ streams' = streams /\ Listed' = Listed /\ pool' = pool \ {x}
    PROVE  Nearer
<1>1. /\ gc.deleted \in BOOLEAN
      /\ gc'.deleted = (gc.deleted \/ removed)
  BY DEF Visited, Locals, IInv, TypeOK
<1>2. /\ Remaining = Cardinality(streams) + Cardinality(Listed) + Cardinality(pool)
                       + (IF gc.deleted THEN 1 ELSE 0)
      /\ Remaining \in Nat
  BY RemainingIs
<1>3. Remaining' = Cardinality(streams') + Cardinality(Listed') + Cardinality(pool')
                     + (IF gc'.deleted THEN 1 ELSE 0)
  BY DEF Remaining, Listed
<1>4. /\ Cardinality(streams') \in Nat /\ Cardinality(Listed') \in Nat
      /\ Cardinality(pool') \in Nat
  <2>1. streams' \subseteq streams /\ Listed' \subseteq Listed /\ pool' \subseteq pool
    OBVIOUS
  <2> QED
    BY <2>1, Countable, FS_Subset, FS_CardinalityType
<1>5. Remaining' \in Nat
  BY <1>1, <1>3, <1>4
<1>6. Remaining' <= Remaining
  <2>1. CASE ~removed /\ streams' = streams /\ pool' = pool /\ Listed' \subseteq Listed
    <3>1. Cardinality(Listed') <= Cardinality(Listed)
      BY <2>1, Countable, FS_Subset
    <3>2. gc'.deleted = gc.deleted
      BY <1>1, <2>1
    <3> QED
      BY <1>2, <1>3, <1>4, <2>1, <3>1, <3>2, Countable
  <2>2. CASE x \in streams /\ streams' = streams \ {x} /\ Listed' = Listed /\ pool' = pool
    <3>1. Cardinality(streams') = Cardinality(streams) - 1
      BY <2>2, Countable, FS_RemoveElement
    <3> QED
      BY <1>1, <1>2, <1>3, <1>4, <2>2, <3>1, Countable
  <2>3. CASE x \in Listed /\ streams' = streams /\ Listed' = Listed \ {x} /\ pool' = pool
    <3>1. Cardinality(Listed') = Cardinality(Listed) - 1
      BY <2>3, Countable, FS_RemoveElement
    <3> QED
      BY <1>1, <1>2, <1>3, <1>4, <2>3, <3>1, Countable
  <2>4. CASE x \in pool /\ streams' = streams /\ Listed' = Listed /\ pool' = pool \ {x}
    <3>1. Cardinality(pool') = Cardinality(pool) - 1
      BY <2>4, Countable, FS_RemoveElement
    <3> QED
      BY <1>1, <1>2, <1>3, <1>4, <2>4, <3>1, Countable
  <2> QED
    BY <2>1, <2>2, <2>3, <2>4
<1> QED
  BY <1>2, <1>5, <1>6, VisitIsNearer

(* A look at the counters, or the next listing: nothing is removed, and    *)
(* one phase less is left.                                                 *)
LEMMA PhaseIsNearer ==
    ASSUME IInv, UNCHANGED <<streams, dirs, pool>>,
           dirs \cup (IF gc'.phase = "sources" THEN gc'.todo ELSE {}) \subseteq Listed,
           gc'.rounds = gc.rounds, gc'.deleted = gc.deleted,
           PhasesLeft(gc'.phase) < PhasesLeft(gc.phase)
    PROVE  Nearer
<1>1. Remaining' = Cardinality(streams) + Cardinality(Listed') + Cardinality(pool)
                     + (IF gc.deleted THEN 1 ELSE 0)
  BY DEF Remaining, Listed
<1>2. Listed' \subseteq Listed
  BY DEF Listed
<1>3. Cardinality(Listed') <= Cardinality(Listed) /\ Cardinality(Listed') \in Nat
  BY <1>2, Countable, FS_Subset, FS_CardinalityType
<1>4. Remaining' <= Remaining /\ Remaining' \in Nat
  BY <1>1, <1>3, Countable, RemainingIs
<1> QED
  BY <1>4, RemainingIs DEF Nearer

(* The end of a round ends the collection, or what was removed in it is    *)
(* gone for good, or one of the rounds that may fail is used up.           *)
LEMMA RoundIsNearer == ASSUME IInv, GCRoundEnd PROVE Nearer
<1>1. CASE gc' = Idle
  BY <1>1 DEF Idle, Locals, Nearer
<1>2. CASE /\ gc.deleted \/ gc.rounds > 0
           /\ gc' = Locals("count sources", {}, IF gc.deleted THEN MaxFailRounds ELSE gc.rounds - 1, FALSE)
  <2>1. streams' = streams /\ dirs' = dirs /\ pool' = pool
    BY DEF GCRoundEnd, disk
  <2>2. gc.phase = "end" /\ gc'.phase = "count sources" /\ ~gc'.deleted
    BY <1>2 DEF GCRoundEnd, Locals
  <2>3. gc.rounds \in Nat
    BY DEF IInv, TypeOK, MaxFailRounds
  <2>4. Listed' = Listed
    BY <2>1, <2>2 DEF Listed
  <2>5. Remaining' = Cardinality(streams) + Cardinality(Listed) + Cardinality(pool)
    <3>1. Remaining' = Cardinality(streams') + Cardinality(Listed') + Cardinality(pool') + 0
      BY <2>2 DEF Remaining, Listed
    <3> QED
      BY <2>1, <2>4, <3>1, Countable
  <2>6. CASE gc.deleted
    <3>1. Remaining' < Remaining
      BY <2>5, <2>6, Countable, RemainingIs
    <3> QED
      BY <3>1 DEF Nearer
  <2>7. CASE ~gc.deleted
    <3>1. Remaining' = Remaining
      BY <2>5, <2>7, Countable, RemainingIs
    <3>2. gc' = Locals("count sources", {}, gc.rounds - 1, FALSE)
      BY <1>2, <2>7
    <3>3. gc'.rounds = gc.rounds - 1
      BY <3>2 DEF Locals
    <3>4. gc'.rounds < gc.rounds
      BY <2>3, <3>3
    <3> QED
      BY <3>1, <3>4 DEF Nearer
  <2> QED
    BY <2>6, <2>7
<1> QED
  BY <1>1, <1>2 DEF GCRoundEnd

(* Every step of a collection that has begun, unless a removal may fail.   *)
LEMMA CollectingIsNearer ==
    ASSUME IInv, GC, gc.phase # "idle", "rm" \notin Faults
    PROVE  Nearer
<1>1. CASE GCCollect
  <2>1. ASSUME NEW phase, NEW next, NEW listed, GCCount(phase, next, listed),
               next # "sources", PhasesLeft(next) < PhasesLeft(phase)
        PROVE  Nearer
    <3>1. /\ UNCHANGED <<streams, dirs, pool>>
          /\ gc.phase = phase
          /\ gc' = Locals(next, listed, gc.rounds, gc.deleted)
      BY <2>1 DEF GCCount, disk
    <3>2. /\ gc'.phase = next /\ gc'.rounds = gc.rounds /\ gc'.deleted = gc.deleted
      BY <3>1 DEF Locals
    <3>3. dirs \cup (IF gc'.phase = "sources" THEN gc'.todo ELSE {}) \subseteq Listed
      BY <2>1, <3>2 DEF Listed
    <3> QED
      BY <2>1, <3>1, <3>2, <3>3, PhaseIsNearer
  <2>2. /\ PhasesLeft("count sources") < PhasesLeft("begin")
        /\ PhasesLeft("count objects") < PhasesLeft("count sources")
        /\ PhasesLeft("streams") < PhasesLeft("count objects")
    BY DEF PhasesLeft
  <2>3. CASE GCCount("begin", "count sources", {})
    BY <2>1, <2>2, <2>3
  <2>4. CASE GCCount("count sources", "count objects", {})
    BY <2>1, <2>2, <2>4
  <2>5. CASE GCCount("count objects", "streams", streams)
    BY <2>1, <2>2, <2>5
  <2> QED
    BY <1>1, <2>3, <2>4, <2>5 DEF GCCollect
<1>2. CASE GCNextListing
  <2>1. ASSUME NEW next, NEW todo, gc' = Locals(next, todo, gc.rounds, gc.deleted),
               next = "sources" => todo = dirs, PhasesLeft(next) < PhasesLeft(gc.phase)
        PROVE  Nearer
    <3>1. UNCHANGED <<streams, dirs, pool>>
      BY <1>2 DEF GCNextListing, disk
    <3>2. /\ gc'.phase = next /\ gc'.todo = todo
          /\ gc'.rounds = gc.rounds /\ gc'.deleted = gc.deleted
      BY <2>1 DEF Locals
    <3>3. dirs \cup (IF gc'.phase = "sources" THEN gc'.todo ELSE {}) \subseteq Listed
      BY <2>1, <3>2 DEF Listed
    <3> QED
      BY <2>1, <3>1, <3>2, <3>3, PhaseIsNearer
  <2>2. /\ PhasesLeft("streams") = 3 /\ PhasesLeft("sources") = 2
        /\ PhasesLeft("objects") = 1 /\ PhasesLeft("end") = 0
    BY DEF PhasesLeft
  <2> QED
    BY <1>2, <2>1, <2>2 DEF GCNextListing
<1>3. CASE GCRoundEnd
  BY <1>3, RoundIsNearer
<1>4. ASSUME NEW x \in gc.todo, Keep(x)
      PROVE  Nearer
  <2>1. /\ Visited(x, FALSE) /\ UNCHANGED <<streams, dirs, pool>>
    BY <1>4 DEF Keep, disk
  <2>2. Listed' \subseteq Listed
    BY <2>1 DEF Listed, Visited, Locals
  <2> QED
    BY <2>1, <2>2, VisitLeavesLess
<1>5. ASSUME NEW st \in StreamKeys, NEW old \in BOOLEAN, GCVisitStream(st, old)
      PROVE  Nearer
  <2>1. CASE Keep(st)
    BY <1>4, <1>5, <2>1 DEF GCVisitStream
  <2>2. CASE st \in streams /\ RemoveStream(st)
    <3>1. /\ st \in gc.todo /\ gc.phase = "streams" /\ Visited(st, TRUE)
          /\ streams' = streams \ {st} /\ UNCHANGED <<dirs, pool>>
      BY <1>5, <2>2 DEF GCVisitStream, RemoveStream
    <3>2. Listed' = Listed
      BY <3>1 DEF Listed, Visited, Locals
    <3> QED
      BY <2>2, <3>1, <3>2, VisitLeavesLess
  <2> QED
    BY <1>5, <2>1, <2>2 DEF GCVisitStream, StreamRemains
<1>6. ASSUME NEW s \in Sources, NEW old \in BOOLEAN, GCVisitSource(s, old)
      PROVE  Nearer
  <2>1. CASE Keep(s)
    BY <1>4, <1>6, <2>1 DEF GCVisitSource
  <2>2. CASE RemoveSource(s)
    <3>1. /\ s \in gc.todo /\ gc.phase = "sources" /\ Visited(s, TRUE)
          /\ dirs' = dirs \ {s} /\ UNCHANGED <<streams, pool>>
      BY <1>6, <2>2 DEF GCVisitSource, RemoveSource
    <3>2. s \in Listed /\ Listed' = Listed \ {s}
      BY <3>1 DEF Listed, Visited, Locals
    <3> QED
      BY <3>1, <3>2, VisitLeavesLess
  <2> QED
    BY <1>6, <2>1, <2>2 DEF GCVisitSource, SourceRemains
<1>7. ASSUME NEW o \in Objects, NEW old \in BOOLEAN, GCVisitObject(o, old)
      PROVE  Nearer
  <2>1. CASE Keep(o)
    BY <1>4, <1>7, <2>1 DEF GCVisitObject
  <2>2. CASE RemoveObject(o)
    <3>1. /\ o \in gc.todo /\ gc.phase = "objects" /\ Visited(o, TRUE)
          /\ pool' = pool \ {o} /\ UNCHANGED <<streams, dirs>>
      BY <1>7, <2>2 DEF GCVisitObject, RemoveObject
    <3>2. o \in pool /\ Listed' = Listed
      BY <3>1 DEF IInv, Listed, ListedObjectsExist, Visited, Locals
    <3> QED
      BY <3>1, <3>2, VisitLeavesLess
  <2> QED
    BY <1>7, <2>1, <2>2 DEF GCVisitObject, ObjectRemains
<1> QED
  BY <1>1, <1>2, <1>3, <1>5, <1>6, <1>7 DEF GC, GCBegin

(* do_gc cannot go round for ever by its own hand: each of its steps takes *)
(* it nearer to the end, whatever clients and converter do in between.     *)
THEOREM CollectionGetsOn == Spec => CollectionShrinks
<1>1. ASSUME IInv, [Next]_vars
      PROVE  [gc.phase # "idle" /\ "rm" \notin Faults /\ GC => Nearer]_vars
  BY <1>1, CollectingIsNearer
<1>2. Spec => []IInv
  BY Invariance
<1>3. [][gc.phase # "idle" /\ "rm" \notin Faults /\ GC => Nearer]_vars => CollectionShrinks
  BY PTL DEF CollectionShrinks, Nearer
<1> QED
  BY <1>1, <1>2, <1>3, PTL DEF Spec
=============================================================================
