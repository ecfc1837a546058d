--------------------------- MODULE LockOrderProofs ---------------------------
(***************************************************************************)
(* Proofs about LockOrder, for jobs with any number of keys.               *)
(***************************************************************************)
EXTENDS LockOrder, TLAPS, SequenceTheorems

Ops == {"lock", "unlock"} \X Locks

Pieces(t) == CASE t = "main"       -> {"main", "lookup", "add"}
               [] t = "worker"     -> {"worker", "take", "execute", "finalize"}
               [] t = "background" -> {"background", "wait", "collect"}

(* The order in which locks are nested: a thread that wants a lock in a    *)
(* piece of code holds exactly these.                                      *)
Order ==
    {<<"lookup", "manager", {}>>, <<"lookup", "queue", {"manager"}>>,
     <<"lookup", "task", {"manager"}>>,
     <<"add", "queue", {}>>, <<"add", "manager", {"queue"}>>,
     <<"add", "job", {"queue", "manager"}>>, <<"add", "task", {"queue", "manager"}>>,
     <<"take", "queue", {}>>,
     <<"execute", "job", {}>>, <<"execute", "manager", {"job"}>>,
     <<"finalize", "queue", {}>>, <<"finalize", "job", {"queue"}>>,
     <<"finalize", "manager", {"queue", "job"}>>,
     <<"wait", "task", {}>>, <<"collect", "manager", {}>>}

(* One operation in the piece of code c, and the locks held before it and  *)
(* after it.                                                               *)
Takes(c, lock, before, after) ==
    /\ <<c, lock, before>> \in Order
    /\ lock \notin before
    /\ after = before \cup {lock}

GivesBack(lock, before, after) ==
    /\ lock \in before
    /\ after = before \ {lock}

Changes(c, op, before, after) == \E lock \in Locks :
    \/ op = <<"lock", lock>> /\ Takes(c, lock, before, after)
    \/ op = <<"unlock", lock>> /\ GivesBack(lock, before, after)

LEMMA ChangesLock ==
    ASSUME NEW c, NEW lock \in Locks, NEW before, NEW after,
           Changes(c, <<"lock", lock>>, before, after)
    PROVE  Takes(c, lock, before, after)
<1>1. \A other : <<"lock", lock>> # <<"unlock", other>>
  OBVIOUS
<1>2. \A other : <<"lock", lock>> = <<"lock", other>> => lock = other
  OBVIOUS
<1>. QED  BY <1>1, <1>2 DEF Changes

LEMMA ChangesUnlock ==
    ASSUME NEW c, NEW lock \in Locks, NEW before, NEW after,
           Changes(c, <<"unlock", lock>>, before, after)
    PROVE  GivesBack(lock, before, after)
<1>1. \A other : <<"unlock", lock>> # <<"lock", other>>
  OBVIOUS
<1>2. \A other : <<"unlock", lock>> = <<"unlock", other>> => lock = other
  OBVIOUS
<1>. QED  BY <1>1, <1>2 DEF Changes

(* The operations p lead from one set of held locks to another; held names *)
(* the sets in between.                                                    *)
Leads(c, from, p, to) ==
    /\ p \in Seq(Ops)
    /\ \E held \in [1..(Len(p) + 1) -> SUBSET Locks] :
          /\ held[1] = from /\ held[Len(p) + 1] = to
          /\ \A i \in 1..Len(p) : Changes(c, p[i], held[i], held[i + 1])

Holding(t) == {lock \in Locks : owner[lock] = t}

(* The inductive invariant: what a thread has still to do gives back all   *)
(* locks it holds, and takes others in the order above only.               *)
LockInv ==
    /\ owner \in [Locks -> Threads \cup {"nobody"}]
    /\ code \in [Threads -> UNION {Pieces(t) : t \in Threads}]
    /\ \A t \in Threads : code[t] \in Pieces(t)
    /\ ops \in [Threads -> Seq(Ops)]
    /\ \A t \in Threads : Leads(code[t], Holding(t), ops[t], {})

-----------------------------------------------------------------------------
(* How pieces of code are put together.                                    *)
LEMMA LeadsNothing ==
    ASSUME NEW c, NEW held \in SUBSET Locks
    PROVE  Leads(c, held, Nothing, held)
<1> DEFINE h == [i \in 1..1 |-> held]
<1>1. Nothing \in Seq(Ops) /\ Len(Nothing) = 0
  BY DEF Nothing
<1>2. h \in [1..(Len(Nothing) + 1) -> SUBSET Locks] /\ h[1] = held
  BY <1>1
<1>. HIDE DEF h
<1>. QED  BY <1>1, <1>2 DEF Leads

LEMMA LeadsOperation ==
    ASSUME NEW c, NEW op \in Ops, NEW from \in SUBSET Locks, NEW to \in SUBSET Locks,
           Changes(c, op, from, to)
    PROVE  Leads(c, from, <<op>>, to)
<1> DEFINE h == [i \in 1..2 |-> IF i = 1 THEN from ELSE to]
<1>1. <<op>> \in Seq(Ops) /\ Len(<<op>>) = 1 /\ <<op>>[1] = op
  OBVIOUS
<1>2. h \in [1..(Len(<<op>>) + 1) -> SUBSET Locks] /\ h[1] = from /\ h[2] = to
  BY <1>1
<1>. HIDE DEF h
<1>3. \A i \in 1..Len(<<op>>) : Changes(c, <<op>>[i], h[i], h[i + 1])
  BY <1>1, <1>2
<1>. QED  BY <1>1, <1>2, <1>3 DEF Leads

LEMMA LeadsOn ==
    ASSUME NEW c, NEW a, NEW b, NEW d, NEW p, NEW q,
           Leads(c, a, p, b), Leads(c, b, q, d)
    PROVE  Leads(c, a, p \o q, d)
<1>1. p \in Seq(Ops) /\ q \in Seq(Ops)
  BY DEF Leads
<1>2. PICK f \in [1..(Len(p) + 1) -> SUBSET Locks] :
        /\ f[1] = a /\ f[Len(p) + 1] = b
        /\ \A i \in 1..Len(p) : Changes(c, p[i], f[i], f[i + 1])
  BY DEF Leads
<1>3. PICK g \in [1..(Len(q) + 1) -> SUBSET Locks] :
        /\ g[1] = b /\ g[Len(q) + 1] = d
        /\ \A i \in 1..Len(q) : Changes(c, q[i], g[i], g[i + 1])
  BY DEF Leads
<1>4. /\ Len(p) \in Nat /\ Len(q) \in Nat
      /\ p \o q \in Seq(Ops) /\ Len(p \o q) = Len(p) + Len(q)
      /\ \A i \in 1..(Len(p) + Len(q)) :
            (p \o q)[i] = IF i <= Len(p) THEN p[i] ELSE q[i - Len(p)]
  BY <1>1, ConcatProperties
<1> DEFINE h == [i \in 1..(Len(p \o q) + 1) |->
                    IF i <= Len(p) THEN f[i] ELSE g[i - Len(p)]]
<1>5. h \in [1..(Len(p \o q) + 1) -> SUBSET Locks]
  BY <1>4
<1>6. \A i \in 1..(Len(p \o q) + 1) : h[i] = IF i <= Len(p) THEN f[i] ELSE g[i - Len(p)]
  OBVIOUS
<1>. HIDE DEF h
<1>7. h[1] = a /\ h[Len(p \o q) + 1] = d /\ h[Len(p) + 1] = b
  <2>1. h[Len(p) + 1] = g[1]
    <3>1. Len(p) + 1 \in 1..(Len(p \o q) + 1) /\ ~(Len(p) + 1 <= Len(p)) /\ (Len(p) + 1) - Len(p) = 1
      BY <1>4
    <3>. QED  BY <1>6, <3>1
  <2>2. h[Len(p \o q) + 1] = g[Len(q) + 1]
    <3>1. /\ Len(p \o q) + 1 \in 1..(Len(p \o q) + 1) /\ ~(Len(p \o q) + 1 <= Len(p))
          /\ (Len(p \o q) + 1) - Len(p) = Len(q) + 1
      BY <1>4
    <3>. QED  BY <1>6, <3>1
  <2>3. CASE Len(p) = 0
    BY <1>2, <1>3, <2>1, <2>2, <2>3
  <2>4. CASE Len(p) # 0
    <3>1. 1 \in 1..(Len(p \o q) + 1) /\ 1 <= Len(p)
      BY <1>4, <2>4
    <3>. QED  BY <1>2, <1>3, <1>6, <2>1, <2>2, <3>1
  <2>. QED  BY <2>3, <2>4
<1>8. ASSUME NEW i \in 1..Len(p \o q)
      PROVE  Changes(c, (p \o q)[i], h[i], h[i + 1])
  <2>1. CASE i < Len(p)
    <3>1. (p \o q)[i] = p[i] /\ h[i] = f[i] /\ h[i + 1] = f[i + 1]
      <4>1. /\ i \in 1..(Len(p \o q) + 1) /\ i <= Len(p)
            /\ i + 1 \in 1..(Len(p \o q) + 1) /\ i + 1 <= Len(p)
        BY <1>4, <2>1
      <4>2. h[i] = f[i] /\ h[i + 1] = f[i + 1]
        BY <1>6, <4>1
      <4>3. (p \o q)[i] = p[i]
        BY <1>4, <4>1
      <4>. QED  BY <4>2, <4>3
    <3>. QED  BY <1>2, <1>4, <2>1, <3>1
  <2>2. CASE i = Len(p)
    <3>1. (p \o q)[i] = p[i] /\ h[i] = f[i] /\ h[i + 1] = f[i + 1]
      <4>1. i \in 1..(Len(p \o q) + 1) /\ i <= Len(p)
        BY <1>4, <2>2
      <4>2. h[i] = f[i]
        BY <1>6, <4>1
      <4>3. (p \o q)[i] = p[i]
        BY <1>4, <4>1
      <4>4. h[i + 1] = f[i + 1]
        BY <1>2, <1>7, <2>2
      <4>. QED  BY <4>2, <4>3, <4>4
    <3>. QED  BY <1>2, <1>4, <2>2, <3>1
  <2>3. CASE i > Len(p)
    <3>1. /\ i - Len(p) \in 1..Len(q) /\ (i + 1) - Len(p) = (i - Len(p)) + 1
          /\ (p \o q)[i] = q[i - Len(p)] /\ h[i] = g[i - Len(p)] /\ h[i + 1] = g[(i + 1) - Len(p)]
      BY <1>4, <1>6, <2>3
    <3>. QED  BY <1>3, <3>1
  <2>. QED  BY <1>4, <2>1, <2>2, <2>3
<1>. QED  BY <1>4, <1>5, <1>7, <1>8 DEF Leads

LEMMA LeadsWith ==
    ASSUME NEW c, NEW lock \in Locks, NEW held \in SUBSET Locks, NEW inner,
           lock \notin held, <<c, lock, held>> \in Order,
           Leads(c, held \cup {lock}, inner, held \cup {lock})
    PROVE  Leads(c, held, With(lock, inner), held)
<1>1. <<"lock", lock>> \in Ops /\ <<"unlock", lock>> \in Ops
  BY DEF Ops
<1>2. /\ Changes(c, <<"lock", lock>>, held, held \cup {lock})
      /\ Changes(c, <<"unlock", lock>>, held \cup {lock}, held)
  BY DEF Changes, Takes, GivesBack
<1>3. /\ Leads(c, held, <<<<"lock", lock>>>>, held \cup {lock})
      /\ Leads(c, held \cup {lock}, <<<<"unlock", lock>>>>, held)
  BY <1>1, <1>2, LeadsOperation
<1>4. Leads(c, held, <<<<"lock", lock>>>> \o inner, held \cup {lock})
  BY <1>3, LeadsOn
<1>. QED  BY <1>3, <1>4, LeadsOn DEF With

(* Deleting keys takes the manager's lock again and again.                 *)
LEMMA LeadsDeletions ==
    ASSUME NEW n \in Nat
    PROVE  Leads("finalize", {"queue", "job"}, Deletions(n), {"queue", "job"})
<1> DEFINE h == [i \in 1..(2 * n + 1) |-> IF i % 2 = 1 THEN {"queue", "job"}
                                          ELSE {"queue", "job", "manager"}]
<1>1. /\ Deletions(n) \in [1..(2 * n) -> Ops]
      /\ \A i \in 1..(2 * n) : Deletions(n)[i] = <<IF i % 2 = 1 THEN "lock" ELSE "unlock", "manager">>
  BY DEF Deletions, Ops, Locks
<1>2. Deletions(n) \in Seq(Ops) /\ Len(Deletions(n)) = 2 * n
  <2>1. 2 * n \in Nat
    OBVIOUS
  <2>. QED  BY <1>1, <2>1
<1>3. h \in [1..(2 * n + 1) -> SUBSET Locks]
  BY DEF Locks
<1>4. \A i \in 1..(2 * n + 1) : h[i] = IF i % 2 = 1 THEN {"queue", "job"}
                                       ELSE {"queue", "job", "manager"}
  OBVIOUS
<1>. HIDE DEF h
<1>5. h[1] = {"queue", "job"} /\ h[2 * n + 1] = {"queue", "job"}
  BY <1>4
<1>6. ASSUME NEW i \in 1..(2 * n)
      PROVE  Changes("finalize", Deletions(n)[i], h[i], h[i + 1])
  <2>1. i \in 1..(2 * n + 1) /\ i + 1 \in 1..(2 * n + 1)
    OBVIOUS
  <2>2. CASE i % 2 = 1
    <3>1. (i + 1) % 2 # 1
      BY <2>2
    <3>2. /\ Deletions(n)[i] = <<"lock", "manager">>
          /\ h[i] = {"queue", "job"} /\ h[i + 1] = {"queue", "job", "manager"}
      BY <1>1, <1>4, <2>1, <2>2, <3>1
    <3>. QED  BY <3>2 DEF Changes, Takes, GivesBack, Order, Locks
  <2>3. CASE i % 2 # 1
    <3>1. (i + 1) % 2 = 1
      BY <2>3
    <3>2. /\ Deletions(n)[i] = <<"unlock", "manager">>
          /\ h[i] = {"queue", "job", "manager"} /\ h[i + 1] = {"queue", "job"}
      BY <1>1, <1>4, <2>1, <2>3, <3>1
    <3>. QED  BY <3>2 DEF Changes, Takes, GivesBack, Order, Locks
  <2>. QED  BY <2>2, <2>3
<1>. QED  BY <1>2, <1>3, <1>5, <1>6 DEF Leads

(* Every piece of code is in order, and holds nothing before and after.    *)
LEMMA PathsLead ==
    ASSUME LockAssumption, NEW c \in DOMAIN Paths, NEW path \in Paths[c]
    PROVE  Leads(c, {}, path, {})
<1> USE LeadsNothing, LeadsWith, LeadsOn
<1> USE DEF Order, Locks
<1>1. CASE c = "lookup"
  <2>1. ASSUME NEW inner, Leads("lookup", {"manager"}, inner, {"manager"})
        PROVE  Leads("lookup", {}, With("manager", inner), {})
    BY <2>1
  <2>2. \A lock \in {"queue", "task"} :
          Leads("lookup", {"manager"}, With(lock, Nothing), {"manager"})
    OBVIOUS
  <2>. QED  BY <1>1, <2>1, <2>2 DEF Paths, Lookup
<1>2. CASE c = "add"
  <2>1. ASSUME NEW inner, Leads("add", {"queue"}, inner, {"queue"})
        PROVE  Leads("add", {}, With("queue", inner), {})
    BY <2>1
  <2>2. ASSUME NEW inner, Leads("add", {"queue", "manager"}, inner, {"queue", "manager"})
        PROVE  Leads("add", {"queue"}, With("manager", inner), {"queue"})
    BY <2>2
  <2>3. \A lock \in {"job", "task"} :
          Leads("add", {"queue", "manager"}, With(lock, Nothing), {"queue", "manager"})
    OBVIOUS
  <2>4. Leads("add", {"queue"}, With("manager", Nothing), {"queue"})
    BY <2>2
  <2>. QED  BY <1>2, <2>1, <2>2, <2>3, <2>4 DEF Paths, AddToCache
<1>3. CASE c = "take"
  BY <1>3 DEF Paths, TakeJob
<1>4. CASE c = "execute"
  <2>1. /\ Leads("execute", {}, With("job", Nothing), {})
        /\ Leads("execute", {"job"}, With("manager", Nothing), {"job"})
    OBVIOUS
  <2>2. Leads("execute", {}, With("job", With("manager", Nothing)), {})
    BY <2>1
  <2>. QED  BY <1>4, <2>1, <2>2 DEF Paths, Execute
<1>5. CASE c = "finalize"
  <2>1. PICK n \in 0..MaxPending : path = With("queue", With("job", Deletions(n)))
    BY <1>5 DEF Paths, FinalizeJob
  <2>2. Leads("finalize", {"queue", "job"}, Deletions(n), {"queue", "job"})
    BY LeadsDeletions DEF LockAssumption
  <2>3. Leads("finalize", {"queue"}, With("job", Deletions(n)), {"queue"})
    BY <2>2
  <2>. QED  BY <1>5, <2>1, <2>3
<1>6. CASE c = "wait"
  BY <1>6 DEF Paths, WaitForWork
<1>7. CASE c = "collect"
  BY <1>7 DEF Paths, Collect
<1>. QED  BY <1>1, <1>2, <1>3, <1>4, <1>5, <1>6, <1>7 DEF Paths

-----------------------------------------------------------------------------
(* The first operation done, the rest leads on from there.                 *)
LEMMA LeadsFirst ==
    ASSUME NEW c, NEW from, NEW p, NEW to, p # <<>>, Leads(c, from, p, to)
    PROVE  /\ Head(p) \in Ops
           /\ \E next \in SUBSET Locks : /\ Changes(c, Head(p), from, next)
                                        /\ Leads(c, next, Tail(p), to)
<1>1. PICK h \in [1..(Len(p) + 1) -> SUBSET Locks] :
        /\ h[1] = from /\ h[Len(p) + 1] = to
        /\ \A i \in 1..Len(p) : Changes(c, p[i], h[i], h[i + 1])
  BY DEF Leads
<1>2. /\ p \in Seq(Ops) /\ Head(p) \in Ops /\ Tail(p) \in Seq(Ops)
      /\ Len(p) \in Nat /\ Len(p) >= 1 /\ Len(Tail(p)) = Len(p) - 1
      /\ Head(p) = p[1]
      /\ \A i \in 1..Len(Tail(p)) : Tail(p)[i] = p[i + 1]
  BY HeadTailProperties, EmptySeq DEF Leads
<1> DEFINE g == [i \in 1..(Len(Tail(p)) + 1) |-> h[i + 1]]
<1>3. g \in [1..(Len(Tail(p)) + 1) -> SUBSET Locks]
  BY <1>2
<1>4. \A i \in 1..(Len(Tail(p)) + 1) : g[i] = h[i + 1]
  OBVIOUS
<1>. HIDE DEF g
<1>5. g[1] = h[2] /\ g[Len(Tail(p)) + 1] = to
  BY <1>1, <1>2, <1>4
<1>6. ASSUME NEW i \in 1..Len(Tail(p))
      PROVE  Changes(c, Tail(p)[i], g[i], g[i + 1])
  <2>1. i + 1 \in 1..Len(p) /\ i \in 1..(Len(Tail(p)) + 1) /\ i + 1 \in 1..(Len(Tail(p)) + 1)
    BY <1>2
  <2>2. Tail(p)[i] = p[i + 1] /\ g[i] = h[i + 1] /\ g[i + 1] = h[(i + 1) + 1]
    BY <1>2, <1>4, <2>1
  <2>. QED  BY <1>1, <2>1, <2>2
<1>7. Leads(c, h[2], Tail(p), to)
  BY <1>2, <1>3, <1>5, <1>6 DEF Leads
<1>8. Changes(c, Head(p), from, h[2]) /\ h[2] \in SUBSET Locks
  BY <1>1, <1>2
<1>. QED  BY <1>2, <1>7, <1>8

LEMMA LeadsNowhere ==
    ASSUME NEW c, NEW from, NEW to, Leads(c, from, <<>>, to)
    PROVE  from = to
BY EmptySeq DEF Leads

-----------------------------------------------------------------------------
LEMMA LockInvInit == ASSUME Init PROVE LockInv
<1>1. \A t \in Threads : Holding(t) = {} /\ ops[t] = Nothing
  BY DEF Init, Holding, Threads, Nothing
<1>2. \A t \in Threads : Leads(code[t], Holding(t), ops[t], {})
  BY <1>1, LeadsNothing
<1>3. \A t \in Threads : t \in Pieces(t)
  BY DEF Threads, Pieces
<1>. QED  BY <1>2, <1>3, EmptySeq DEF Init, LockInv

(* A thread that has done a piece of code holds nothing, and does another. *)
LEMMA BeginKeeps ==
    ASSUME LockAssumption, LockInv, NEW t \in Threads, Begin(t)
    PROVE  LockInv'
<1>0. PICK c \in Following(code[t]) : \E path \in Paths[c] :
        code' = [code EXCEPT ![t] = c] /\ ops' = [ops EXCEPT ![t] = path]
  BY DEF Begin
<1>1. PICK path \in Paths[c] :
        code' = [code EXCEPT ![t] = c] /\ ops' = [ops EXCEPT ![t] = path]
  BY <1>0
<1>2. c \in Pieces(t) /\ c \in DOMAIN Paths
  BY DEF LockInv, Following, Pieces, Threads, Paths
<1>3. Holding(t) = {}
  BY LeadsNowhere DEF Begin, LockInv
<1>4. Leads(c, {}, path, {}) /\ path \in Seq(Ops)
  BY <1>2, PathsLead DEF Leads
<1>5. \A u \in Threads : Holding(u)' = Holding(u)
  BY DEF Begin, Holding
<1>6. ASSUME NEW u \in Threads
      PROVE  Leads(code'[u], Holding(u)', ops'[u], {}) /\ code'[u] \in Pieces(u)
  <2>1. CASE u = t
    BY <1>1, <1>2, <1>3, <1>4, <1>5, <2>1 DEF LockInv
  <2>2. CASE u # t
    BY <1>1, <1>5, <2>2 DEF LockInv
  <2>. QED  BY <2>1, <2>2
<1>. QED  BY <1>1, <1>2, <1>4, <1>6 DEF LockInv, Begin

(* A lock that is taken or given back changes what its thread holds, and   *)
(* leaves the others what they hold.                                       *)
LEMMA OperationKeeps ==
    ASSUME LockInv, NEW t \in Threads, Operation(t)
    PROVE  LockInv'
<1>1. PICK lock \in Locks : Lock(t, lock) \/ Unlock(t, lock)
  BY DEF Operation
<1>2. ops[t] # <<>> /\ ops' = [ops EXCEPT ![t] = Tail(@)] /\ code' = code
  BY <1>1 DEF Lock, Unlock, Wants
<1>3. PICK next \in SUBSET Locks : /\ Changes(code[t], Head(ops[t]), Holding(t), next)
                                 /\ Leads(code[t], next, Tail(ops[t]), {})
  BY <1>2, LeadsFirst DEF LockInv
<1>4. "nobody" \notin Threads
  BY DEF Threads
<1>5. /\ owner' \in [Locks -> Threads \cup {"nobody"}]
      /\ Holding(t)' = next
      /\ \A u \in Threads : u # t => Holding(u)' = Holding(u)
  <2>1. CASE Lock(t, lock)
    <3>1. Head(ops[t]) = <<"lock", lock>>
      BY <2>1 DEF Lock, Wants
    <3>2. Changes(code[t], <<"lock", lock>>, Holding(t), next)
      BY <1>3, <3>1
    <3>3. Takes(code[t], lock, Holding(t), next)
      BY <3>2, ChangesLock, Zenon
    <3>. QED  BY <1>4, <2>1, <3>3 DEF LockInv, Holding, Lock, Takes
  <2>2. CASE Unlock(t, lock)
    <3>1. Head(ops[t]) = <<"unlock", lock>>
      BY <2>2 DEF Unlock
    <3>2. Changes(code[t], <<"unlock", lock>>, Holding(t), next)
      BY <1>3, <3>1
    <3>3. GivesBack(lock, Holding(t), next)
      BY <3>2, ChangesUnlock, Zenon
    <3>. QED  BY <1>4, <2>2, <3>3 DEF LockInv, Holding, Unlock, GivesBack
  <2>. QED  BY <1>1, <2>1, <2>2
<1>6. Tail(ops[t]) \in Seq(Ops)
  BY <1>3 DEF Leads
<1>7. ASSUME NEW u \in Threads
      PROVE  Leads(code'[u], Holding(u)', ops'[u], {})
  <2>1. CASE u = t
    BY <1>2, <1>3, <1>5, <2>1 DEF LockInv
  <2>2. CASE u # t
    BY <1>2, <1>5, <2>2 DEF LockInv
  <2>. QED  BY <2>1, <2>2
<1>. QED  BY <1>2, <1>5, <1>6, <1>7 DEF LockInv

LEMMA LockInvariance == Spec => []LockInv
<1>1. Init => LockInv
  BY LockInvInit
<1>2. LockInv /\ [Next]_vars => LockInv'
  <2>1. LockInv /\ Next => LockInv'
    BY LockAssumption, BeginKeeps, OperationKeeps DEF Next
  <2>2. LockInv /\ UNCHANGED vars => LockInv'
    BY DEF LockInv, Holding, vars
  <2>. QED  BY <2>1, <2>2
<1>. QED  BY <1>1, <1>2, PTL DEF Spec

-----------------------------------------------------------------------------
(* What a thread holds when it waits: the order says.                      *)
LEMMA WaitingHolds ==
    ASSUME LockInv, NEW t \in Threads, NEW lock \in Locks, Wants(t, lock)
    PROVE  <<code[t], lock, Holding(t)>> \in Order /\ lock \notin Holding(t)
<1>1. PICK next \in SUBSET Locks : Changes(code[t], Head(ops[t]), Holding(t), next)
  BY LeadsFirst DEF LockInv, Wants
<1>2. Head(ops[t]) = <<"lock", lock>>
  BY DEF Wants
<1>3. Changes(code[t], <<"lock", lock>>, Holding(t), next)
  BY <1>1, <1>2
<1>4. Takes(code[t], lock, Holding(t), next)
  BY <1>3, ChangesLock, Zenon
<1>. QED  BY <1>4 DEF Takes

(* No thread ever waits for a lock it holds, whichever of the "__unlocked" *)
(* functions are called on the way, for a job of any number of keys.       *)
THEOREM NoThreadBlocksItself == Spec => []NoSelfDeadlock
<1>1. LockInv => NoSelfDeadlock
  BY WaitingHolds DEF NoSelfDeadlock, Holding
<1>. QED  BY <1>1, LockInvariance, PTL

(* Whoever waits for the background thread is served: it holds one lock at *)
(* a time, and wants no other while it does.                               *)
THEOREM BackgroundIsHarmless == Spec => []BackgroundBlocksNobody
<1>1. ASSUME LockInv, NEW t \in Threads, NEW u \in Threads,
             WaitsFor(t, "background"), WaitsFor("background", u)
      PROVE  FALSE
  <2>1. PICK lock \in Locks : Wants("background", lock)
    BY <1>1 DEF WaitsFor
  <2>2. /\ <<code["background"], lock, Holding("background")>> \in Order
        /\ code["background"] \in {"background", "wait", "collect"}
    BY <1>1, <2>1, WaitingHolds DEF LockInv, Threads, Pieces
  <2>3. Holding("background") = {}
    BY <2>2 DEF Order
  <2>4. PICK other \in Locks : owner[other] = "background"
    BY <1>1 DEF WaitsFor
  <2>. QED  BY <2>3, <2>4 DEF Holding
<1>2. LockInv => BackgroundBlocksNobody
  BY <1>1 DEF BackgroundBlocksNobody
<1>. QED  BY <1>2, LockInvariance, PTL

(* Of all nestings only two pairs contradict each other, for a job of any  *)
(* number of keys: these two deadlocks are the only ones there are.        *)
THEOREM DeadlocksAreKnown == Spec => []OnlyTwoDeadlocks
<1>1. ASSUME LockInv, NEW l \in Locks, NEW m \in Locks,
             Wants("main", l), owner[l] = "worker", Wants("worker", m), owner[m] = "main"
      PROVE  \/ code["main"] = "lookup" /\ code["worker"] = "finalize"
             \/ code["main"] = "add" /\ code["worker"] = "execute"
  <2>1. /\ <<code["main"], l, Holding("main")>> \in Order
        /\ <<code["worker"], m, Holding("worker")>> \in Order
        /\ code["main"] \in {"main", "lookup", "add"}
        /\ code["worker"] \in {"worker", "take", "execute", "finalize"}
    BY <1>1, WaitingHolds DEF LockInv, Threads, Pieces
  <2>2. /\ m \in Holding("main") /\ l \in Holding("worker")
        /\ Holding("main") \cap Holding("worker") = {}
    BY <1>1 DEF Holding
  <2>. QED  BY <2>1, <2>2 DEF Order
<1>2. ASSUME LockInv, BackgroundBlocksNobody, NEW t \in Threads, NEW u \in Threads,
             WaitsFor(t, u), WaitsFor(u, t), t # u
      PROVE  Deadlocked("lookup", "finalize") \/ Deadlocked("add", "execute")
  <2>1. t # "background" /\ u # "background"
    BY <1>2 DEF BackgroundBlocksNobody
  <2>2. WaitsFor("main", "worker") /\ WaitsFor("worker", "main")
    BY <1>2, <2>1 DEF Threads
  <2>. QED  BY <1>1, <1>2, <2>2 DEF WaitsFor, Deadlocked
<1>3. LockInv /\ BackgroundBlocksNobody => OnlyTwoDeadlocks
  BY <1>2 DEF OnlyTwoDeadlocks
<1>. QED  BY <1>3, LockInvariance, BackgroundIsHarmless, PTL
=============================================================================
