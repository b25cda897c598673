-------------------------- MODULE CommandLineProofs --------------------------
(***************************************************************************)
(* Proofs about the command line program: types and the wait group, the    *)
(* end of the program, and what its watchers make of an edited profile.    *)
(***************************************************************************)
EXTENDS CommandLine, FiniteSetTheorems, SequenceTheorems, TLAPS

-----------------------------------------------------------------------------
(* The invariant of types *)

PoolState ==
  [pc : {"spawn", "trigger", "check", "ended"}, rate : Nat \ {0}, concurrency : Nat,
   thinkTime : Nat, spawned : Nat, count : Nat, working : Nat, reporting : Nat, pills : Nat,
   strickers : Nat, destroy : 0 .. DestroyCap]

WatchState ==
  [pc : {"wait", "next", "read", "apply", "store", "adjust", "stuck"},
   todo : SUBSET Nat, task : Nat, copy : Object, new : Nat]

\* How many tasks are in the map and how many have a pool, by the point of main.
MainOK ==
  /\ next \in 1 .. Len(tasks) + 1
  /\ Len(taskObjectMap) = IF mainPc \in {"launch", "trigger"} THEN next ELSE next - 1
  /\ Len(pool) = IF mainPc = "trigger" THEN next ELSE next - 1
  /\ mainPc \in {"launch", "trigger"} => next <= Len(tasks)
  /\ mainPc \in {"wait", "exit"} => next = Len(tasks) + 1
  /\ mainPc = "config" => tasks = <<>>
  /\ tasks # <<>> => Len(tasks) = Len(profile)

MainTyped ==
  /\ profile \in Seq(Settings) /\ tasks \in Seq(Settings)
  /\ truncated \in BOOLEAN /\ changes \in Nat
  /\ mainPc \in {"config", "store", "launch", "trigger", "wait", "exit", "failed"}
  /\ MainOK

\* A task that has no pool is what main stored.
MapTyped ==
  /\ taskObjectMap \in Seq(Object)
  /\ \A k \in DOMAIN taskObjectMap : k \notin DOMAIN pool => taskObjectMap[k] = tasks[k]

\* Only a watcher whose task has a pool stores.
WatcherOK(w, r) ==
  /\ r.todo \subseteq DOMAIN taskObjectMap
  /\ r.pc = "wait" => r.todo = {}
  /\ r.pc \in {"read", "apply", "store", "adjust"} => r.task \in DOMAIN taskObjectMap
  /\ r.pc \in {"read", "apply"} /\ r.task \notin DOMAIN pool => r.copy = tasks[r.task]
  /\ r.pc \in {"store", "adjust"} => r.task \in DOMAIN pool
  /\ r.pc = "store" => w \in {"rate", "concurrency"}
  /\ r.pc = "adjust" => w = "thinkTime"

WatchersTyped ==
  /\ Watchers \subseteq Fields
  /\ pending \in [Watchers -> Nat]
  /\ watcher \in [Watchers -> WatchState]
  /\ \A w \in Watchers : WatcherOK(w, watcher[w])

FlagsTyped ==
  /\ crashed \in BOOLEAN /\ stolen \in BOOLEAN /\ lost \in BOOLEAN
  /\ missed \in BOOLEAN /\ implicit \in BOOLEAN

\* The producers that are at work or report, by their pool.
Busy(k) == pool[k].working + pool[k].reporting
Work == {x \in (DOMAIN pool) \X (Nat \ {0}) : x[2] <= Busy(x[1])}

WorkCounted == IsFiniteSet(Work) /\ wg = Cardinality(Work)

Typed ==
  /\ MainTyped /\ MapTyped /\ WatchersTyped /\ FlagsTyped
  /\ pool \in Seq(PoolState)
  /\ deleted \in 0 .. DeleteCap
  /\ WorkCounted

-----------------------------------------------------------------------------
(* The invariant of the end *)

Started ==
  /\ \A k \in DOMAIN pool : pool[k].pc # "spawn" => pool[k].spawned > 0
  /\ ~stolen => \A k \in DOMAIN pool : k < next => pool[k].pc # "spawn"
  /\ mainPc = "exit" => wg = 0

-----------------------------------------------------------------------------
(* The invariant of the watchers *)

At(w, k, points) == w \in Watchers /\ watcher[w].pc \in points /\ watcher[w].task = k

\* Nobody stored over a watcher's field: its copy and the pool have the value
\* of the map, but for the watcher that is between pool and map.
Copied(w, r) ==
  r.pc \in {"read", "apply", "store"} => r.copy[w] = taskObjectMap[r.task][w]

RateAligned(k) ==
  pool[k].rate = IF At("rate", k, {"store"}) THEN watcher["rate"].new
                                             ELSE taskObjectMap[k]["rate"]

ThinkTimeAligned(k) ==
  IF At("thinkTime", k, {"adjust"})
  THEN /\ pool[k].thinkTime = watcher["thinkTime"].copy["thinkTime"]
       /\ taskObjectMap[k]["thinkTime"] = watcher["thinkTime"].new
  ELSE pool[k].thinkTime = taskObjectMap[k]["thinkTime"]

Aligned ==
  /\ \A w \in Watchers : Copied(w, watcher[w])
  /\ \A k \in DOMAIN pool : RateAligned(k) /\ ThinkTimeAligned(k)

\* A task as main read or stored it, or as a watcher has stored it since.
Known(k) == IF k \in DOMAIN taskObjectMap THEN taskObjectMap[k] ELSE tasks[k]

\* The watcher has an event left, looks at the task, or has the profile's value.
Noticed(w, k) ==
  \/ pending[w] > 0 \/ truncated \/ k \in watcher[w].todo \/ At(w, k, {"read"})

Fresh(w, k) ==
  \/ Noticed(w, k)
  \/ IF At(w, k, {"apply", "store"}) THEN watcher[w].new = profile[k][w]
                                     ELSE Known(k)[w] = profile[k][w]

Followed ==
  /\ ~lost => Aligned
  /\ ~lost /\ ~missed =>
       \A w \in Watchers \cap {"rate", "thinkTime"}, k \in DOMAIN tasks : Fresh(w, k)

\* The consumers that a pool has or will start.
Strickers(q) == q.strickers + (IF q.pc = "spawn" THEN q.concurrency ELSE 0)
Consumers(k) == IF k \in DOMAIN pool THEN Strickers(pool[k]) ELSE tasks[k].concurrency

\* They are no fewer than the task and any copy of it say.
WellSupplied(w, r) ==
  /\ r.pc \in {"read", "apply", "store"} => Consumers(r.task) >= r.copy.concurrency
  /\ w = "concurrency" /\ r.pc = "apply" => r.copy.concurrency # 0
  /\ w = "concurrency" /\ r.pc = "store" => Consumers(r.task) >= r.new

Supplied ==
  /\ \A k \in DOMAIN taskObjectMap : Consumers(k) >= taskObjectMap[k].concurrency
  /\ \A w \in Watchers : WellSupplied(w, watcher[w])

Enough(k) ==
  \/ Noticed("concurrency", k)
  \/ At("concurrency", k, {"apply"}) /\ watcher["concurrency"].new = profile[k].concurrency
  \/ Consumers(k) >= profile[k].concurrency

Provided ==
  ~implicit =>
    /\ Supplied
    /\ ~missed /\ "concurrency" \in Watchers => \A k \in DOMAIN tasks : Enough(k)

-----------------------------------------------------------------------------
(* Settings of tasks *)

LEMMA SpawnCountTyped ==
  ASSUME NEW r \in Nat
  PROVE  /\ GetTaskGeneratorSpawnCount(r) \in Nat
         /\ r # 0 => GetTaskGeneratorSpawnCount(r) > 0
<1>1. Base \in Nat \ {0}
  BY BasePositive
<1>2. PICK q \in Nat, m \in Nat : r + Base - 1 = Base * q + m /\ m < Base /\ q = (r + Base - 1) \div Base
  <2>1. PICK a \in Nat : a = r + Base - 1
    BY <1>1
  <2>2. a = Base * (a \div Base) + (a % Base) /\ a \div Base \in Nat /\ a % Base \in Nat /\ a % Base < Base
    BY <1>1
  <2> QED
    BY <2>1, <2>2
<1>3. ASSUME r # 0, q = 0 PROVE FALSE
  <2>1. Base * q = 0
    BY <1>1, <1>3
  <2> QED
    BY <1>1, <1>2, <1>3, <2>1
<1> QED
  BY <1>2, <1>3 DEF GetTaskGeneratorSpawnCount

LEMMA ObjectFields ==
  ASSUME NEW r \in Object, NEW w \in Fields
  PROVE  r[w] \in Nat
BY DEF Object, Fields

LEMMA ObjectSet ==
  ASSUME NEW r \in Object, NEW w \in Fields, NEW n \in Nat
  PROVE  /\ [r EXCEPT ![w] = n] \in Object /\ [r EXCEPT ![w] = n][w] = n
         /\ \A v \in Fields \ {w} : [r EXCEPT ![w] = n][v] = r[v]
BY DEF Object, Fields

LEMMA NamedFields ==
  ASSUME NEW r \in Object
  PROVE  r["rate"] = r.rate /\ r["concurrency"] = r.concurrency /\ r["thinkTime"] = r.thinkTime
BY DEF Object

LEMMA SettingsTyped ==
  /\ Settings \subseteq Object /\ \A s \in Settings : s.rate # 0
  /\ Nothing \in Object
<1>1. Settings \subseteq [rate : Nat \ {0}, concurrency : Nat, thinkTime : Nat]
  BY CommandLineConstants
<1> QED
  BY <1>1 DEF Object, Nothing

LEMMA ConcurrencyTyped ==
  ASSUME NEW r \in Object
  PROVE  /\ GetConcurrency(r) \in Nat /\ GetConcurrency(r) >= r.concurrency
         /\ r.concurrency # 0 => GetConcurrency(r) = r.concurrency
BY DEF Object, GetConcurrency

-----------------------------------------------------------------------------
(* Counting the producers of all pools *)

Column(k, n) == {<<k, i>> : i \in 1 .. n}

LEMMA ColumnCounted ==
  ASSUME NEW k, NEW n \in Nat
  PROVE  IsFiniteSet(Column(k, n)) /\ Cardinality(Column(k, n)) = n
<1>1. PICK f : f = [i \in 1 .. n |-> <<k, i>>]
  OBVIOUS
<1>2. f \in Bijection(1 .. n, Column(k, n))
  BY <1>1 DEF Bijection, Injection, Surjection, IsInjective, Column
<1>3. IsFiniteSet(1 .. n) /\ Cardinality(1 .. n) = n
  BY FS_Interval
<1> QED
  BY <1>2, <1>3, FS_Bijection DEF ExistsBijection

\* A set that has nothing in a column, and the column.
LEMMA ColumnAdded ==
  ASSUME NEW R, IsFiniteSet(R), NEW k, \A x \in R : x[1] # k
  PROVE  /\ Cardinality(R) \in Nat
         /\ \A n \in Nat : /\ IsFiniteSet(R \cup Column(k, n))
                           /\ Cardinality(R \cup Column(k, n)) = Cardinality(R) + n
<1>1. Cardinality(R) \in Nat
  BY FS_CardinalityType
<1>2. ASSUME NEW n \in Nat
      PROVE  /\ IsFiniteSet(R \cup Column(k, n))
             /\ Cardinality(R \cup Column(k, n)) = Cardinality(R) + n
  <2>1. R \cap Column(k, n) = {}
    BY DEF Column
  <2>2. IsFiniteSet(Column(k, n)) /\ Cardinality(Column(k, n)) = n
    BY ColumnCounted
  <2>3. Cardinality(R \cap Column(k, n)) = 0
    BY <2>1, FS_EmptySet
  <2>4. /\ IsFiniteSet(R \cup Column(k, n))
        /\ Cardinality(R \cup Column(k, n)) =
             Cardinality(R) + Cardinality(Column(k, n)) - Cardinality(R \cap Column(k, n))
    BY <2>2, FS_Union
  <2> QED
    BY <1>1, <2>2, <2>3, <2>4
<1> QED
  BY <1>1, <1>2

LEMMA BusyTyped ==
  ASSUME pool \in Seq(PoolState), NEW k \in DOMAIN pool
  PROVE  Busy(k) \in Nat
<1>1. PICK p \in PoolState : p = pool[k]
  OBVIOUS
<1>2. p.working \in Nat /\ p.reporting \in Nat
  BY DEF PoolState
<1> QED
  BY <1>1, <1>2 DEF Busy

\* Producers come or go in one pool.
LEMMA WorkChanged ==
  ASSUME pool \in Seq(PoolState), pool' \in Seq(PoolState), DOMAIN pool' = DOMAIN pool,
         NEW k \in DOMAIN pool,
         \A l \in DOMAIN pool \ {k} : pool'[l] = pool[l],
         WorkCounted, wg' = wg - Busy(k) + Busy(k)'
  PROVE  WorkCounted'
<1>1. PICK a \in Nat, b \in Nat : a = Busy(k) /\ b = Busy(k)'
  <2>1. Busy(k) \in Nat
    BY BusyTyped
  <2>2. Busy(k)' \in Nat
    <3>1. PICK p \in PoolState : p = pool'[k]
      OBVIOUS
    <3>2. p.working \in Nat /\ p.reporting \in Nat
      BY DEF PoolState
    <3> QED
      BY <3>1, <3>2 DEF Busy
  <2> QED
    BY <2>1, <2>2
<1>2. PICK R : R = {x \in Work : x[1] # k}
  OBVIOUS
<1>3. Work = R \cup Column(k, a)
  <2>1. ASSUME NEW x \in Work PROVE x \in R \cup Column(k, a)
    BY <1>1, <1>2, <2>1 DEF Work, Column
  <2>2. ASSUME NEW x \in R \cup Column(k, a) PROVE x \in Work
    BY <1>1, <1>2, <2>2 DEF Work, Column
  <2> QED
    BY <2>1, <2>2
<1>4. Work' = R \cup Column(k, b)
  <2>1. ASSUME NEW x \in Work' PROVE x \in R \cup Column(k, b)
    <3>1. x \in (DOMAIN pool) \X (Nat \ {0}) /\ x[2] <= Busy(x[1])'
      BY <2>1 DEF Work, Busy
    <3>2. CASE x[1] = k
      BY <1>1, <3>1, <3>2 DEF Column, Busy
    <3>3. CASE x[1] # k
      BY <1>2, <3>1, <3>3 DEF Work, Busy
    <3> QED
      BY <3>2, <3>3
  <2>2. ASSUME NEW x \in R PROVE x \in Work'
    BY <1>2, <2>2 DEF Work, Busy
  <2>3. ASSUME NEW x \in Column(k, b) PROVE x \in Work'
    BY <1>1, <2>3 DEF Work, Column, Busy
  <2> QED
    BY <2>1, <2>2, <2>3
<1>5. IsFiniteSet(Work) /\ wg = Cardinality(R \cup Column(k, a))
  BY <1>3 DEF WorkCounted
<1>6. IsFiniteSet(R) /\ \A x \in R : x[1] # k
  BY <1>2, <1>5, FS_Subset
<1>7. /\ Cardinality(R) \in Nat
      /\ \A n \in Nat : /\ IsFiniteSet(R \cup Column(k, n))
                        /\ Cardinality(R \cup Column(k, n)) = Cardinality(R) + n
  BY <1>6, ColumnAdded, Zenon
<1>8. PICK c \in Nat : c = Cardinality(R)
  BY <1>7
<1>9. wg = c + a
  BY <1>5, <1>7, <1>8
<1>10. IsFiniteSet(Work') /\ Cardinality(Work') = c + b
  BY <1>4, <1>7, <1>8
<1> QED
  BY <1>1, <1>9, <1>10 DEF WorkCounted

-----------------------------------------------------------------------------
(* What changes of the pools, the map and the watchers *)

LEMMA SeqPut ==
  ASSUME NEW R, NEW q \in Seq(R), NEW k \in DOMAIN q, NEW r \in R
  PROVE  LET p == [q EXCEPT ![k] = r]
         IN  /\ p \in Seq(R) /\ Len(p) = Len(q) /\ DOMAIN p = DOMAIN q /\ p[k] = r
             /\ \A j \in DOMAIN q \ {k} : p[j] = q[j]
OBVIOUS

LEMMA SeqAdd ==
  ASSUME NEW R, NEW q \in Seq(R), NEW r \in R
  PROVE  LET p == Append(q, r)
             n == Len(q)
         IN  /\ n \in Nat /\ p \in Seq(R) /\ Len(p) = n + 1 /\ p[n + 1] = r
             /\ DOMAIN q = 1 .. n /\ DOMAIN p = 1 .. n + 1 /\ \A j \in DOMAIN q : p[j] = q[j]
BY AppendProperties

\* The pool p after a step of its run goroutine or of a producer; q was before.
PoolStepped(q, p) ==
  /\ p.rate = q.rate /\ p.concurrency = q.concurrency /\ p.thinkTime = q.thinkTime
  /\ p.pc = "spawn" => q.pc = "spawn" /\ p.strickers = q.strickers
  /\ p.pc # "spawn" => p.strickers = q.strickers + (IF q.pc = "spawn" THEN q.concurrency ELSE 0)
  /\ p.pc # "spawn" /\ (q.pc # "spawn" => q.spawned > 0) => p.spawned > 0
  /\ wg' = wg - (q.working + q.reporting) + (p.working + p.reporting)

LEMMA PoolStepDoes ==
  ASSUME pool \in Seq(PoolState), deleted \in 0 .. DeleteCap, wg \in Nat,
         NEW k \in DOMAIN pool, PoolStep(k)
  PROVE  /\ \E p \in PoolState : pool' = [pool EXCEPT ![k] = p] /\ PoolStepped(pool[k], p)
         /\ deleted' \in 0 .. DeleteCap
         /\ UNCHANGED othersThanPools
<1>1. PICK q \in PoolState : q = pool[k]
  OBVIOUS
<1>2. PICK s \in Nat, w \in Nat, r \in Nat, c \in Nat,
           n \in Nat, i \in Nat, d \in Nat :
        /\ q.spawned = s /\ q.working = w /\ q.reporting = r
        /\ q.strickers = c /\ q.concurrency = n /\ q.count = i
        /\ q.pills = d /\ q.rate \in Nat \ {0}
  BY DEF PoolState
<1>3. GetTaskGeneratorSpawnCount(q.rate) \in Nat /\ GetTaskGeneratorSpawnCount(q.rate) > 0
  BY <1>2, SpawnCountTyped
<1>4. ASSUME SpawnProducer(k)
      PROVE  \E p \in PoolState : pool' = [pool EXCEPT ![k] = p] /\ PoolStepped(q, p)
  <2>1. PICK s1 \in Nat, w1 \in Nat : s1 = s + 1 /\ w1 = w + 1
    OBVIOUS
  <2>2. PICK p : p = [q EXCEPT !.spawned = s1, !.working = w1]
    OBVIOUS
  <2>3. p \in PoolState
    BY <2>2 DEF PoolState
  <2>4. /\ p.rate = q.rate /\ p.concurrency = q.concurrency /\ p.thinkTime = q.thinkTime
        /\ p.pc = q.pc /\ p.strickers = c /\ p.reporting = r
        /\ p.working = w1
    BY <1>2, <2>1, <2>2 DEF PoolState
  <2>5. pool' = [pool EXCEPT ![k] = p] /\ q.pc = "spawn" /\ wg' = wg + 1
    BY <1>1, <1>2, <1>4, <2>1, <2>2 DEF SpawnProducer
  <2>6. PoolStepped(q, p)
    <3>1. wg' = wg - (w + r) + (w1 + r)
      <4>1. wg' = wg + 1
        BY <2>5
      <4> QED
        BY <2>1, <4>1
    <3>2. wg' = wg - (q.working + q.reporting) + (p.working + p.reporting)
      BY <1>2, <2>4, <3>1
    <3>3. p.pc = "spawn" /\ q.pc = "spawn" /\ p.strickers = q.strickers
      BY <1>2, <2>4, <2>5
    <3> QED
      BY <2>4, <3>2, <3>3 DEF PoolStepped
  <2> QED
    BY <2>3, <2>5, <2>6
<1>5. ASSUME SpawnStrickers(k)
      PROVE  \E p \in PoolState : pool' = [pool EXCEPT ![k] = p] /\ PoolStepped(q, p)
  <2>1. PICK c1 \in Nat : c1 = c + n
    OBVIOUS
  <2>2. PICK p : p = [q EXCEPT !.pc = "trigger", !.strickers = c1]
    OBVIOUS
  <2>3. p \in PoolState
    BY <2>2 DEF PoolState
  <2>4. /\ p.rate = q.rate /\ p.concurrency = q.concurrency /\ p.thinkTime = q.thinkTime
        /\ p.pc = "trigger" /\ p.strickers = c1
        /\ p.reporting = r /\ p.working = w /\ p.spawned = s
    BY <1>2, <2>1, <2>2 DEF PoolState
  <2>5. pool' = [pool EXCEPT ![k] = p] /\ q.pc = "spawn" /\ wg' = wg
    BY <1>1, <1>2, <1>5, <2>1, <2>2 DEF SpawnStrickers
  <2>6. s > 0
    BY <1>1, <1>2, <1>3, <1>5 DEF SpawnStrickers
  <2>7. PoolStepped(q, p)
    BY <1>2, <2>1, <2>4, <2>5, <2>6 DEF PoolStepped
  <2> QED
    BY <2>3, <2>5, <2>7
<1>6. ASSUME AnnounceEnd(k)
      PROVE  \E p \in PoolState : pool' = [pool EXCEPT ![k] = p] /\ PoolStepped(q, p)
  <2>1. PICK p : p = [q EXCEPT !.pc = "ended"]
    OBVIOUS
  <2>2. p \in PoolState
    BY <2>1 DEF PoolState
  <2>3. /\ p.rate = q.rate /\ p.concurrency = q.concurrency /\ p.thinkTime = q.thinkTime
        /\ p.pc = "ended" /\ p.strickers = c
        /\ p.reporting = r /\ p.working = w /\ p.spawned = s
    BY <1>2, <2>1 DEF PoolState
  <2>4. pool' = [pool EXCEPT ![k] = p] /\ q.pc = "check" /\ wg' = wg
    BY <1>1, <1>2, <1>6, <2>1 DEF AnnounceEnd
  <2>5. PoolStepped(q, p)
    <3>1. wg' = wg - (q.working + q.reporting) + (p.working + p.reporting)
      <4>1. wg = wg - (w + r) + (w + r)
        OBVIOUS
      <4>2. wg' = wg
        BY <2>4
      <4> QED
        BY <1>2, <2>3, <4>1, <4>2
    <3>2. p.pc # "spawn" /\ q.pc # "spawn" /\ p.spawned = q.spawned
      BY <1>2, <2>3, <2>4
    <3>3. p.strickers = q.strickers /\ q.strickers = q.strickers + 0
      BY <1>2, <2>3
    <3> QED
      BY <2>3, <3>1, <3>2, <3>3 DEF PoolStepped
  <2> QED
    BY <2>2, <2>4, <2>5
<1>7. ASSUME ReceiveDone(k)
      PROVE  \E p \in PoolState : pool' = [pool EXCEPT ![k] = p] /\ PoolStepped(q, p)
  <2>1. PICK i1 \in Nat, r1 \in Nat : i1 = i + 1 /\ r1 = r - 1
    BY <1>1, <1>2, <1>7 DEF ReceiveDone
  <2>2. PICK p : p = [q EXCEPT !.pc = "trigger", !.count = i1, !.reporting = r1]
    OBVIOUS
  <2>3. pool' = [pool EXCEPT ![k] = p] /\ q.pc = "check" /\ wg' = wg - 1 /\ r > 0
    BY <1>1, <1>2, <1>7, <2>1, <2>2 DEF ReceiveDone
  <2>4. p \in PoolState
    BY <1>2, <2>1, <2>2 DEF PoolState
  <2>5. /\ p.rate = q.rate /\ p.concurrency = q.concurrency /\ p.thinkTime = q.thinkTime
        /\ p.pc = "trigger" /\ p.strickers = c
        /\ p.reporting = r1 /\ p.working = w /\ p.spawned = s
    BY <1>2, <2>1, <2>2 DEF PoolState
  <2>6. PoolStepped(q, p)
    <3>1. wg' = wg - (w + r) + (w + r1)
      <4>1. wg' = wg - 1
        BY <2>3
      <4> QED
        BY <2>1, <4>1
    <3>2. wg' = wg - (q.working + q.reporting) + (p.working + p.reporting)
      BY <1>2, <2>5, <3>1
    <3>3. p.pc # "spawn" /\ q.pc # "spawn" /\ p.spawned = q.spawned
      BY <1>2, <2>3, <2>5
    <3>4. p.strickers = q.strickers /\ q.strickers = q.strickers + 0
      BY <1>2, <2>5
    <3> QED
      BY <2>5, <3>2, <3>3, <3>4 DEF PoolStepped
  <2> QED
    BY <2>3, <2>4, <2>6
<1>8. ASSUME FinishWork(k)
      PROVE  \E p \in PoolState : pool' = [pool EXCEPT ![k] = p] /\ PoolStepped(q, p)
  <2>1. PICK w1 \in Nat, r1 \in Nat : w1 = w - 1 /\ r1 = r + 1
    BY <1>1, <1>2, <1>8 DEF FinishWork
  <2>2. PICK p : p = [q EXCEPT !.working = w1, !.reporting = r1]
    OBVIOUS
  <2>3. pool' = [pool EXCEPT ![k] = p] /\ wg' = wg /\ w > 0
    BY <1>1, <1>2, <1>8, <2>1, <2>2 DEF FinishWork
  <2>4. p \in PoolState
    BY <1>2, <2>1, <2>2 DEF PoolState
  <2>5. /\ p.rate = q.rate /\ p.concurrency = q.concurrency /\ p.thinkTime = q.thinkTime
        /\ p.pc = q.pc /\ p.strickers = c
        /\ p.reporting = r1 /\ p.working = w1 /\ p.spawned = s
    BY <1>2, <2>1, <2>2 DEF PoolState
  <2>6. wg' = wg - (w + r) + (p.working + p.reporting)
    BY <2>1, <2>3, <2>5
  <2>7. PoolStepped(q, p)
    <3>1. wg' = wg - (q.working + q.reporting) + (p.working + p.reporting)
      BY <1>2, <2>6
    <3>2. p.strickers = q.strickers /\ p.spawned = q.spawned /\ q.strickers = q.strickers + 0
      BY <1>2, <2>5
    <3> QED
      BY <2>5, <3>1, <3>2 DEF PoolStepped
  <2> QED
    BY <2>3, <2>4, <2>7
<1>9. ASSUME EndPill(k)
      PROVE  \E p \in PoolState : pool' = [pool EXCEPT ![k] = p] /\ PoolStepped(q, p)
  <2>1. PICK w1 \in Nat, d1 \in Nat : w1 = w - 1 /\ d1 = d - 1
    BY <1>1, <1>2, <1>9 DEF EndPill
  <2>2. PICK p : p = [q EXCEPT !.working = w1, !.pills = d1]
    OBVIOUS
  <2>3. pool' = [pool EXCEPT ![k] = p] /\ wg' = wg - 1 /\ w > 0 /\ d > 0
    BY <1>1, <1>2, <1>9, <2>1, <2>2 DEF EndPill
  <2>4. p \in PoolState
    BY <1>2, <2>1, <2>2 DEF PoolState
  <2>5. /\ p.rate = q.rate /\ p.concurrency = q.concurrency /\ p.thinkTime = q.thinkTime
        /\ p.pc = q.pc /\ p.strickers = c
        /\ p.reporting = r /\ p.working = w1 /\ p.spawned = s
    BY <1>2, <2>1, <2>2 DEF PoolState
  <2>6. wg' = wg - (w + r) + (p.working + p.reporting)
    BY <2>1, <2>3, <2>5
  <2>7. PoolStepped(q, p)
    <3>1. wg' = wg - (q.working + q.reporting) + (p.working + p.reporting)
      BY <1>2, <2>6
    <3>2. p.strickers = q.strickers /\ p.spawned = q.spawned /\ q.strickers = q.strickers + 0
      BY <1>2, <2>5
    <3> QED
      BY <2>5, <3>1, <3>2 DEF PoolStepped
  <2> QED
    BY <2>3, <2>4, <2>7
<1>10. deleted' \in 0 .. DeleteCap
  <2>1. DeleteCap \in Nat
    BY CommandLineConstants
  <2> QED
    BY <2>1, SMT DEF PoolStep, RunStep, SpawnProducer, SpawnStrickers, AnnounceEnd, ReceiveDone,
                     FinishWork, EndPill
<1> QED
  BY <1>1, <1>4, <1>5, <1>6, <1>7, <1>8, <1>9, <1>10 DEF PoolStep, RunStep

-----------------------------------------------------------------------------
(* What stays well typed *)

USE DEF fileVars, mainVars, poolVars, watchVars, historyVars, othersThanPools

LEMMA Domains ==
  ASSUME Typed
  PROVE  /\ Len(tasks) \in Nat /\ Len(pool) \in Nat /\ Len(taskObjectMap) \in Nat
         /\ DOMAIN pool = 1 .. Len(pool) /\ DOMAIN taskObjectMap = 1 .. Len(taskObjectMap)
         /\ DOMAIN tasks = 1 .. Len(tasks) /\ next \in Nat \ {0}
         /\ Len(pool) <= Len(taskObjectMap) /\ Len(taskObjectMap) <= Len(tasks)
         /\ DOMAIN pool \subseteq DOMAIN taskObjectMap
         /\ DOMAIN taskObjectMap \subseteq DOMAIN tasks
         /\ DOMAIN tasks \subseteq DOMAIN profile
         /\ tasks # <<>> => DOMAIN tasks = DOMAIN profile
<1>1. tasks \in Seq(Settings) /\ profile \in Seq(Settings) /\ taskObjectMap \in Seq(Object)
      /\ pool \in Seq(PoolState)
  BY DEF Typed, MainTyped, MapTyped
<1>2. /\ Len(tasks) \in Nat /\ Len(pool) \in Nat /\ Len(taskObjectMap) \in Nat
      /\ DOMAIN pool = 1 .. Len(pool) /\ DOMAIN taskObjectMap = 1 .. Len(taskObjectMap)
      /\ DOMAIN tasks = 1 .. Len(tasks) /\ DOMAIN profile = 1 .. Len(profile)
  BY <1>1
<1>3. MainOK
  BY DEF Typed, MainTyped
<1>4. PICK T \in Nat, M \in Nat, Q \in Nat : T = Len(tasks) /\ M = Len(taskObjectMap) /\ Q = Len(pool)
  BY <1>2, Zenon
<1>5. next \in 1 .. T + 1 /\ (mainPc \in {"launch", "trigger"} => next <= T)
      /\ M = (IF mainPc \in {"launch", "trigger"} THEN next ELSE next - 1)
      /\ Q = (IF mainPc = "trigger" THEN next ELSE next - 1)
  BY <1>3, <1>4 DEF MainOK
<1>6. next \in Nat \ {0} /\ next <= T + 1
  BY <1>5
<1>7. M <= T /\ Q <= M
  <2>1. CASE mainPc = "launch"
    BY <1>5, <1>6, <2>1
  <2>2. CASE mainPc = "trigger"
    BY <1>5, <1>6, <2>2
  <2>3. CASE mainPc \notin {"launch", "trigger"}
    BY <1>5, <1>6, <2>3
  <2> QED
    BY <2>1, <2>2, <2>3
<1>8. tasks # <<>> => DOMAIN tasks = DOMAIN profile
  <2>1. SUFFICES ASSUME tasks # <<>> PROVE DOMAIN tasks = DOMAIN profile
    OBVIOUS
  <2>2. Len(tasks) = Len(profile)
    BY <1>3, <2>1 DEF MainOK
  <2> QED
    BY <1>2, <2>2
<1>9. DOMAIN tasks \subseteq DOMAIN profile
  <2>1. CASE tasks = <<>>
    BY <2>1
  <2> QED
    BY <1>8, <2>1
<1>10. DOMAIN pool \subseteq DOMAIN taskObjectMap /\ DOMAIN taskObjectMap \subseteq DOMAIN tasks
  <2>1. DOMAIN pool = 1 .. Q /\ DOMAIN taskObjectMap = 1 .. M /\ DOMAIN tasks = 1 .. T
    BY <1>2, <1>4
  <2> QED
    BY <1>7, <2>1
<1>11. Len(pool) <= Len(taskObjectMap) /\ Len(taskObjectMap) <= Len(tasks)
  BY <1>4, <1>7
<1> QED
  BY <1>2, <1>6, <1>8, <1>9, <1>10, <1>11, Zenon

LEMMA WatcherTyped ==
  ASSUME WatchersTyped, NEW w \in Watchers
  PROVE  w \in Fields /\ watcher[w] \in WatchState /\ WatcherOK(w, watcher[w]) /\ pending[w] \in Nat
BY DEF WatchersTyped

LEMMA LookTyped ==
  ASSUME NEW S \in SUBSET Nat
  PROVE  /\ Look(S) \in WatchState /\ Look(S).todo = S
         /\ Look(S).pc = IF S = {} THEN "wait" ELSE "next"
<1>1. Nothing \in Object
  BY SettingsTyped
<1> QED
  BY <1>1 DEF Look, WatchState

LEMMA LookOK ==
  ASSUME NEW S \in SUBSET Nat, S \subseteq DOMAIN taskObjectMap, NEW w
  PROVE  WatcherOK(w, Look(S))
BY LookTyped DEF WatcherOK

\* A watcher's state stays legal while tasks and pools are added.
LEMMA OKKept ==
  ASSUME NEW w, NEW r, WatcherOK(w, r),
         DOMAIN taskObjectMap \subseteq DOMAIN taskObjectMap',
         DOMAIN pool \subseteq DOMAIN pool',
         \A k \in DOMAIN taskObjectMap : tasks'[k] = tasks[k]
  PROVE  WatcherOK(w, r)'
BY DEF WatcherOK

LEMMA WatchersKept ==
  ASSUME WatchersTyped, UNCHANGED watcher, pending' \in [Watchers -> Nat],
         DOMAIN taskObjectMap \subseteq DOMAIN taskObjectMap',
         DOMAIN pool \subseteq DOMAIN pool',
         \A k \in DOMAIN taskObjectMap : tasks'[k] = tasks[k]
  PROVE  WatchersTyped'
<1>1. \A w \in Watchers : WatcherOK(w, watcher[w])
  BY DEF WatchersTyped
<1>2. ASSUME NEW w \in Watchers PROVE WatcherOK(w, watcher[w])'
  BY <1>1, <1>2 DEF WatcherOK
<1> QED
  BY <1>2 DEF WatchersTyped, Watchers

LEMMA WatcherSet ==
  ASSUME WatchersTyped, NEW w \in Watchers, NEW r \in WatchState, WatcherOK(w, r)',
         watcher' = [watcher EXCEPT ![w] = r], pending' \in [Watchers -> Nat],
         DOMAIN taskObjectMap \subseteq DOMAIN taskObjectMap',
         DOMAIN pool \subseteq DOMAIN pool',
         \A k \in DOMAIN taskObjectMap : tasks'[k] = tasks[k]
  PROVE  WatchersTyped'
<1>1. \A v \in Watchers : WatcherOK(v, watcher[v])
  BY DEF WatchersTyped
<1>2. DOMAIN watcher' = Watchers /\ watcher'[w] = r
      /\ \A v \in Watchers \ {w} : watcher'[v] = watcher[v]
  BY DEF Watchers
<1>3. ASSUME NEW v \in Watchers PROVE WatcherOK(v, watcher[v])'
  <2>1. CASE v = w
    BY <1>2, <2>1
  <2>2. CASE v # w
    <3>1. PICK s : s = watcher[v]
      OBVIOUS
    <3>2. WatcherOK(v, s)
      BY <1>1, <3>1
    <3>3. WatcherOK(v, s)'
      BY <3>2, OKKept
    <3> QED
      BY <1>2, <2>2, <3>1, <3>3
  <2> QED
    BY <2>1, <2>2
<1>4. watcher' \in [Watchers -> WatchState]
  BY DEF WatchersTyped, Watchers
<1> QED
  BY <1>2, <1>3, <1>4 DEF WatchersTyped, Watchers

LEMMA MainKept ==
  ASSUME MainTyped, UNCHANGED <<fileVars, mainVars>>,
         Len(taskObjectMap') = Len(taskObjectMap), Len(pool') = Len(pool)
  PROVE  MainTyped'
BY DEF MainTyped, MainOK

LEMMA MapKept ==
  ASSUME MapTyped, UNCHANGED <<taskObjectMap, tasks>>, DOMAIN pool \subseteq DOMAIN pool'
  PROVE  MapTyped'
BY DEF MapTyped

LEMMA WorkKept ==
  ASSUME WorkCounted, UNCHANGED <<pool, wg>>
  PROVE  WorkCounted'
<1>1. Work' = Work
  BY DEF Work, Busy
<1> QED
  BY <1>1 DEF WorkCounted

LEMMA GroupTyped ==
  ASSUME WorkCounted
  PROVE  wg \in Nat
BY FS_CardinalityType DEF WorkCounted

\* One watcher moves, and nothing else but the events and the history.
LEMMA TypedMoved ==
  ASSUME Typed, NEW w \in Watchers, NEW r \in WatchState, WatcherOK(w, r),
         watcher' = [watcher EXCEPT ![w] = r], pending' \in [Watchers -> Nat], FlagsTyped',
         UNCHANGED <<fileVars, mainVars, taskObjectMap, poolVars>>
  PROVE  Typed'
<1>1. WatcherOK(w, r)'
  BY OKKept
<1>2. WatchersTyped'
  BY <1>1, WatcherSet DEF Typed
<1> QED
  BY <1>2, MainKept, MapKept, WorkKept DEF Typed

\* One pool changes, and the watchers and the history.
LEMMA TypedPool ==
  ASSUME Typed, NEW k \in DOMAIN pool, NEW p \in PoolState,
         pool' = [pool EXCEPT ![k] = p],
         wg' = wg - (pool[k].working + pool[k].reporting) + (p.working + p.reporting),
         deleted' \in 0 .. DeleteCap, WatchersTyped', FlagsTyped', MainTyped',
         UNCHANGED <<taskObjectMap, tasks>>
  PROVE  Typed'
<1>1. pool \in Seq(PoolState)
  BY DEF Typed
<1>2. pool' \in Seq(PoolState) /\ DOMAIN pool' = DOMAIN pool /\ pool'[k] = p
      /\ \A j \in DOMAIN pool \ {k} : pool'[j] = pool[j]
  BY <1>1, SeqPut
<1>3. wg' = wg - Busy(k) + Busy(k)'
  BY <1>2 DEF Busy
<1>4. WorkCounted'
  BY <1>1, <1>2, <1>3, WorkChanged DEF Typed
<1>5. MapTyped'
  BY <1>2, MapKept DEF Typed
<1> QED
  BY <1>2, <1>4, <1>5 DEF Typed

-----------------------------------------------------------------------------
(* What each step does, where the rest of the module need not know how *)

LEMMA FileStepDoes ==
  ASSUME Typed, Rewrite \/ Truncate \/ Write
  PROVE  /\ profile' \in Seq(Settings) /\ Len(profile') = Len(profile)
         /\ DOMAIN profile' = DOMAIN profile
         /\ truncated' \in BOOLEAN /\ changes' \in Nat
         /\ pending' \in [Watchers -> Nat] /\ \A w \in Watchers : pending'[w] > 0
         /\ Running
         /\ UNCHANGED <<mainVars, taskObjectMap, poolVars, watcher, crashed, historyVars>>
<1>1. profile \in Seq(Settings) /\ truncated \in BOOLEAN /\ changes \in Nat
  BY DEF Typed, MainTyped
<1>2. \A w \in Watchers : pending[w] \in Nat
  BY DEF Typed, WatchersTyped
<1>3. Notify /\ Running /\ truncated' \in BOOLEAN /\ (Save \/ UNCHANGED profile)
  BY <1>1 DEF Rewrite, Truncate, Write
<1>4. profile' \in Seq(Settings) /\ Len(profile') = Len(profile) /\ DOMAIN profile' = DOMAIN profile
  <2>1. CASE UNCHANGED profile
    BY <1>1, <2>1
  <2>2. CASE Save
    <3>1. PICK k \in DOMAIN profile, s \in Settings : profile' = [profile EXCEPT ![k] = s]
      BY <2>2 DEF Save
    <3> QED
      BY <1>1, <3>1, SeqPut
  <2> QED
    BY <1>3, <2>1, <2>2
<1>5. changes' \in Nat /\ pending' = [w \in Watchers |-> pending[w] + 1]
      /\ UNCHANGED <<mainVars, taskObjectMap, poolVars, watcher, crashed, historyVars>>
  BY <1>1, <1>3 DEF Notify
<1>6. pending' \in [Watchers -> Nat] /\ \A w \in Watchers : pending'[w] > 0
  BY <1>2, <1>5
<1> QED
  BY <1>3, <1>4, <1>5, <1>6

LEMMA TakeEventDoes ==
  ASSUME Typed, NEW w \in Watchers, TakeEvent(w)
  PROVE  \E r \in WatchState :
           /\ watcher[w].pc = "wait" /\ WatcherOK(w, r)
           /\ r.todo = DOMAIN taskObjectMap /\ r.pc \in {"wait", "next"}
           /\ watcher' = [watcher EXCEPT ![w] = r]
           /\ pending' \in [Watchers -> Nat] /\ \A v \in Watchers \ {w} : pending'[v] = pending[v]
           /\ missed' = (missed \/ (mainPc # "config" /\ Len(taskObjectMap) < Len(tasks)))
           /\ UNCHANGED <<fileVars, mainVars, taskObjectMap, poolVars, crashed, stolen, lost, implicit>>
<1>1. PICK r : r = Look(DOMAIN taskObjectMap)
  OBVIOUS
<1>2. DOMAIN taskObjectMap \in SUBSET Nat
  BY Domains
<1>3. r \in WatchState /\ r.todo = DOMAIN taskObjectMap /\ r.pc \in {"wait", "next"}
  BY <1>1, <1>2, LookTyped
<1>4. WatcherOK(w, r)
  BY <1>1, <1>2, LookOK
<1>5. PICK n \in Nat : n = pending[w] - 1
  <2>1. pending[w] \in Nat /\ pending[w] > 0
    BY DEF TakeEvent, Typed, WatchersTyped
  <2> QED
    BY <2>1
<1>6. pending' = [pending EXCEPT ![w] = n]
  BY <1>5 DEF TakeEvent
<1>7. pending' \in [Watchers -> Nat] /\ \A v \in Watchers \ {w} : pending'[v] = pending[v]
  <2>1. pending \in [Watchers -> Nat]
    BY DEF Typed, WatchersTyped
  <2> QED
    BY <1>6, <2>1
<1> QED
  BY <1>1, <1>3, <1>4, <1>7 DEF TakeEvent

LEMMA CopyTaskDoes ==
  ASSUME Typed, NEW w \in Watchers, CopyTask(w)
  PROVE  \E k \in watcher[w].todo, r \in WatchState :
           /\ WatcherOK(w, r) /\ k \in DOMAIN taskObjectMap
           /\ watcher[w].pc = "next"
           /\ r.pc = "read" /\ r.task = k /\ r.copy = taskObjectMap[k]
           /\ r.todo = watcher[w].todo \ {k}
           /\ watcher' = [watcher EXCEPT ![w] = r]
           /\ UNCHANGED <<fileVars, mainVars, taskObjectMap, poolVars, pending, crashed, historyVars>>
<1>1. PICK q \in WatchState : q = watcher[w] /\ WatcherOK(w, q)
  BY WatcherTyped DEF Typed
<1>2. PICK k \in watcher[w].todo :
        watcher' = [watcher EXCEPT ![w] = [watcher[w] EXCEPT
          !.pc = "read", !.todo = watcher[w].todo \ {k}, !.task = k, !.copy = taskObjectMap[k]]]
  BY Zenon DEF CopyTask
<1>3. /\ UNCHANGED <<fileVars, mainVars, taskObjectMap, poolVars, pending, crashed, historyVars>>
      /\ q.pc = "next"
  BY <1>1 DEF CopyTask
<1>4. k \in DOMAIN taskObjectMap /\ q.todo \subseteq DOMAIN taskObjectMap
  BY <1>1, <1>2 DEF WatcherOK
<1>5. PICK o \in Object : o = taskObjectMap[k]
  BY <1>4 DEF Typed, MapTyped
<1>6. k \in Nat
  BY <1>4, Domains
<1>7. PICK r : r = [q EXCEPT !.pc = "read", !.todo = q.todo \ {k}, !.task = k, !.copy = o]
  OBVIOUS
<1>8. r \in WatchState
  BY <1>5, <1>6, <1>7 DEF WatchState
<1>9. r.pc = "read" /\ r.task = k /\ r.copy = o /\ r.todo = q.todo \ {k}
  BY <1>7 DEF WatchState
<1>10. k \notin DOMAIN pool => o = tasks[k]
  BY <1>4, <1>5 DEF Typed, MapTyped
<1>11. WatcherOK(w, r)
  BY <1>4, <1>9, <1>10 DEF WatcherOK
<1>12. watcher' = [watcher EXCEPT ![w] = r]
  BY <1>1, <1>2, <1>5, <1>7
<1> QED
  BY <1>1, <1>2, <1>3, <1>4, <1>5, <1>8, <1>9, <1>11, <1>12

\* What a watcher reads is a number.
LEMMA ContentsTyped ==
  ASSUME Typed, NEW w \in Watchers, watcher[w].task \in DOMAIN taskObjectMap
  PROVE  /\ Contents(watcher[w].task) \in Object
         /\ Contents(watcher[w].task)[w] \in Nat
<1>1. watcher[w].task \in DOMAIN profile
  BY Domains
<1>2. profile[watcher[w].task] \in Settings
  BY <1>1 DEF Typed, MainTyped
<1>3. Contents(watcher[w].task) \in Object
  BY <1>2, SettingsTyped DEF Contents
<1>4. w \in Fields
  BY WatcherTyped DEF Typed
<1> QED
  BY <1>3, <1>4, ObjectFields

LEMMA ReadProfileDoes ==
  ASSUME Typed, NEW w \in Watchers, ReadProfile(w)
  PROVE  \E n \in Nat, r \in WatchState :
           /\ n = Contents(watcher[w].task)[w]
           /\ WatcherOK(w, r) /\ watcher[w].pc = "read" /\ r.todo = watcher[w].todo
           /\ \/ r.pc \in {"wait", "next"} /\ w = "rate" /\ watcher[w].copy.rate = n
              \/ r.pc = "apply" /\ r.task = watcher[w].task /\ r.copy = watcher[w].copy /\ r.new = n
           /\ watcher' = [watcher EXCEPT ![w] = r]
           /\ implicit' = (implicit \/ (w = "concurrency" /\ 0 \in {n, watcher[w].copy.concurrency}))
           /\ UNCHANGED <<fileVars, mainVars, taskObjectMap, poolVars, pending, crashed, stolen,
                          lost, missed>>
<1>1. PICK q \in WatchState : q = watcher[w] /\ WatcherOK(w, q)
  BY WatcherTyped DEF Typed
<1>2. q.pc = "read"
  BY <1>1 DEF ReadProfile
<1>3. q.task \in DOMAIN taskObjectMap /\ q.todo \subseteq DOMAIN taskObjectMap
      /\ (q.task \notin DOMAIN pool => q.copy = tasks[q.task])
  BY <1>1, <1>2 DEF WatcherOK
<1>4. PICK n \in Nat : n = Contents(q.task)[w]
  BY <1>1, <1>3, ContentsTyped
<1>5. implicit' = (implicit \/ (w = "concurrency" /\ 0 \in {n, watcher[w].copy.concurrency}))
      /\ UNCHANGED <<fileVars, mainVars, taskObjectMap, poolVars, pending, crashed, stolen,
                     lost, missed>>
  BY <1>1, <1>4 DEF ReadProfile
<1>6. CASE w = "rate" /\ q.copy.rate = n
  <2>1. PICK r : r = Look(q.todo)
    OBVIOUS
  <2>2. watcher' = [watcher EXCEPT ![w] = r]
    BY <1>1, <1>4, <1>6, <2>1 DEF ReadProfile, Resume
  <2>3. q.todo \in SUBSET Nat
    BY DEF WatchState
  <2>4. r \in WatchState /\ r.todo = q.todo /\ r.pc \in {"wait", "next"}
    BY <2>1, <2>3, LookTyped
  <2>5. WatcherOK(w, r)
    BY <1>3, <2>1, <2>3, LookOK
  <2> QED
    BY <1>1, <1>2, <1>4, <1>5, <1>6, <2>2, <2>4, <2>5
<1>7. CASE ~(w = "rate" /\ q.copy.rate = n)
  <2>1. PICK r : r = [q EXCEPT !.pc = "apply", !.new = n]
    OBVIOUS
  <2>2. watcher' = [watcher EXCEPT ![w] = r]
    BY <1>1, <1>4, <1>7, <2>1 DEF ReadProfile
  <2>3. r \in WatchState
    BY <2>1 DEF WatchState
  <2>4. r.pc = "apply" /\ r.new = n /\ r.task = q.task /\ r.copy = q.copy /\ r.todo = q.todo
    BY <2>1 DEF WatchState
  <2>5. WatcherOK(w, r)
    BY <1>3, <2>4 DEF WatcherOK
  <2> QED
    BY <1>1, <1>2, <1>4, <1>5, <2>2, <2>3, <2>4, <2>5
<1> QED
  BY <1>6, <1>7

\* The state r of a watcher is q but for its point.
Moved(q, r, to) ==
  r.pc = to /\ r.todo = q.todo /\ r.task = q.task /\ r.copy = q.copy /\ r.new = q.new

LEMMA MovedTyped ==
  ASSUME NEW q \in WatchState, NEW to \in {"next", "store", "adjust", "stuck"}
  PROVE  [q EXCEPT !.pc = to] \in WatchState /\ Moved(q, [q EXCEPT !.pc = to], to)
BY DEF WatchState, Moved

\* A watcher that is done with a task.
LEMMA ResumeDoes ==
  ASSUME Typed, NEW w \in Watchers
  PROVE  \E r \in WatchState :
           /\ r = Resume(w) /\ WatcherOK(w, r)
           /\ r.todo = watcher[w].todo /\ r.pc \in {"wait", "next"}
<1>1. PICK q \in WatchState : q = watcher[w] /\ WatcherOK(w, q)
  BY WatcherTyped DEF Typed
<1>2. q.todo \in SUBSET Nat /\ q.todo \subseteq DOMAIN taskObjectMap
  BY <1>1 DEF WatchState, WatcherOK
<1>3. PICK r : r = Look(q.todo)
  OBVIOUS
<1>4. r \in WatchState /\ r.todo = q.todo /\ r.pc \in {"wait", "next"}
  BY <1>2, <1>3, LookTyped
<1>5. WatcherOK(w, r)
  BY <1>2, <1>3, LookOK
<1> QED
  BY <1>1, <1>3, <1>4, <1>5 DEF Resume

\* The pool p is q but for what a watcher changes.
Adjusted(q, p) ==
  p.pc = q.pc /\ p.spawned = q.spawned /\ p.concurrency = q.concurrency /\ p.reporting = q.reporting

LEMMA ApplyRateDoes ==
  ASSUME Typed, "rate" \in Watchers, ApplyRate
  PROVE  \E k \in DOMAIN pool, p \in PoolState, r \in WatchState :
           /\ k = watcher["rate"].task /\ watcher["rate"].pc = "apply"
           /\ WatcherOK("rate", r) /\ Moved(watcher["rate"], r, "store")
           /\ watcher' = [watcher EXCEPT !["rate"] = r]
           /\ pool' = [pool EXCEPT ![k] = p] /\ Adjusted(pool[k], p)
           /\ p.rate = watcher["rate"].new /\ p.thinkTime = pool[k].thinkTime
           /\ p.strickers = pool[k].strickers
           /\ wg' = wg - (pool[k].working + pool[k].reporting) + (p.working + p.reporting)
           /\ UNCHANGED <<fileVars, mainVars, taskObjectMap, deleted, pending, crashed, historyVars>>
<1>1. PICK v \in WatchState : v = watcher["rate"] /\ WatcherOK("rate", v)
  BY WatcherTyped DEF Typed
<1>2. PICK k \in DOMAIN pool : k = v.task
  BY <1>1 DEF ApplyRate, Panics
<1>3. PICK q \in PoolState : q = pool[k]
  BY DEF Typed
<1>4. PICK n \in Nat \ {0} : n = v.new
  BY <1>1 DEF ApplyRate, Panics, WatchState
<1>5. PICK w \in Nat, i \in Nat, d \in Nat, g \in Nat :
        q.working = w /\ q.pills = d /\ q.rate \in Nat /\ q.reporting = i /\ wg = g
  BY GroupTyped DEF PoolState, Typed
<1>6. PICK a \in Nat, b \in Nat : a = GetTaskGeneratorSpawnCount(n) /\ b = GetTaskGeneratorSpawnCount(q.rate)
  BY <1>5, SpawnCountTyped
<1>7. PICK m \in Int : m = a - b
  OBVIOUS
<1>8. PICK e \in Nat : e = (IF m > 0 THEN m ELSE 0)
  OBVIOUS
<1>9. PICK w1 \in Nat, d1 \in Nat : w1 = w + e /\ d1 = d + e - m
  BY <1>8
<1>10. PICK p : p = [q EXCEPT !.rate = n, !.working = w1, !.pills = d1]
  OBVIOUS
<1>11. p \in PoolState
  BY <1>10 DEF PoolState
<1>12. /\ Adjusted(q, p) /\ p.rate = n /\ p.thinkTime = q.thinkTime /\ p.strickers = q.strickers
       /\ p.working = w1 /\ p.reporting = i
  BY <1>5, <1>10 DEF PoolState, Adjusted
<1>13. pool' = [pool EXCEPT ![k] = p]
  BY <1>1, <1>2, <1>3, <1>4, <1>5, <1>6, <1>7, <1>8, <1>9, <1>10 DEF ApplyRate
<1>14. wg' = g + e
  BY <1>1, <1>2, <1>3, <1>4, <1>5, <1>6, <1>7, <1>8 DEF ApplyRate
<1>15. wg' = wg - (q.working + q.reporting) + (p.working + p.reporting)
  <2>1. g + e = g - (w + i) + (w1 + i)
    BY <1>9
  <2> QED
    BY <1>5, <1>12, <1>14, <2>1
<1>16. PICK r : r = [v EXCEPT !.pc = "store"]
  OBVIOUS
<1>17. r \in WatchState /\ Moved(v, r, "store")
  BY <1>16, MovedTyped
<1>18. WatcherOK("rate", r)
  <2>1. v.todo \subseteq DOMAIN taskObjectMap
    BY <1>1 DEF WatcherOK
  <2>2. k \in DOMAIN taskObjectMap
    BY Domains
  <2> QED
    BY <1>2, <1>17, <2>1, <2>2 DEF WatcherOK, Moved
<1>19. watcher' = [watcher EXCEPT !["rate"] = r] /\ v.pc = "apply"
  BY <1>1, <1>16 DEF ApplyRate, WatcherGoto
<1>20. UNCHANGED <<fileVars, mainVars, taskObjectMap, deleted, pending, crashed, historyVars>>
  BY DEF ApplyRate
<1> QED
  BY <1>1, <1>2, <1>3, <1>4, <1>11, <1>12, <1>13, <1>15, <1>17, <1>18, <1>19, <1>20

\* A watcher whose task has a pool may be anywhere with it.
LEMMA MovedOK ==
  ASSUME Typed, NEW w \in Watchers, NEW r, NEW to \in {"next", "store", "adjust", "stuck"},
         Moved(watcher[w], r, to), watcher[w].task \in DOMAIN pool,
         to = "store" => w \in {"rate", "concurrency"}, to = "adjust" => w = "thinkTime"
  PROVE  WatcherOK(w, r)
<1>1. watcher[w].todo \subseteq DOMAIN taskObjectMap
  BY WatcherTyped DEF WatcherOK, Typed
<1>2. watcher[w].task \in DOMAIN taskObjectMap
  BY Domains
<1> QED
  BY <1>1, <1>2 DEF WatcherOK, Moved

LEMMA ApplyConcurrencyDoes ==
  ASSUME Typed, "concurrency" \in Watchers, ApplyConcurrency
  PROVE  \E k \in DOMAIN pool, p \in PoolState, r \in WatchState :
           /\ k = watcher["concurrency"].task /\ watcher["concurrency"].pc = "apply"
           /\ WatcherOK("concurrency", r) /\ r.todo = watcher["concurrency"].todo
           /\ \/ r.pc \in {"wait", "next"}
                 /\ watcher["concurrency"].new = GetConcurrency(watcher["concurrency"].copy)
              \/ Moved(watcher["concurrency"], r, "store")
              \/ Moved(watcher["concurrency"], r, "stuck")
           /\ watcher' = [watcher EXCEPT !["concurrency"] = r]
           /\ pool' = [pool EXCEPT ![k] = p] /\ Adjusted(pool[k], p)
           /\ p.rate = pool[k].rate /\ p.thinkTime = pool[k].thinkTime
           /\ p.working = pool[k].working
           /\ p.strickers >= pool[k].strickers
           /\ watcher["concurrency"].new - GetConcurrency(watcher["concurrency"].copy)
                + pool[k].strickers <= p.strickers
           /\ UNCHANGED <<fileVars, mainVars, taskObjectMap, wg, deleted, pending, crashed,
                          historyVars>>
<1>1. PICK v \in WatchState : v = watcher["concurrency"] /\ WatcherOK("concurrency", v)
  BY WatcherTyped DEF Typed
<1>2. PICK k \in DOMAIN pool : k = v.task
  BY <1>1 DEF ApplyConcurrency, Panics
<1>3. PICK q \in PoolState : q = pool[k]
  BY DEF Typed
<1>4. PICK n \in Nat, o \in Nat : n = v.new /\ o = GetConcurrency(v.copy)
  <2>1. v.copy \in Object /\ v.new \in Nat
    BY DEF WatchState
  <2>2. GetConcurrency(v.copy) \in Nat
    BY <2>1, ConcurrencyTyped
  <2> QED
    BY <2>1, <2>2, Zenon
<1>5. PICK s \in Nat, d \in 0 .. DestroyCap : q.strickers = s /\ q.destroy = d
  BY DEF PoolState
<1>6. PICK m \in Int : m = n - o
  OBVIOUS
<1>7. DestroyCap \in Nat
  BY CommandLineConstants
<1>8. PICK s1 \in Nat : s1 = IF m > 0 THEN s + m ELSE s
  <2>1. (IF m > 0 THEN s + m ELSE s) \in Nat
    OBVIOUS
  <2> QED
    BY <2>1, Zenon
<1>9. PICK d1 \in 0 .. DestroyCap :
        d1 = IF m > 0 THEN d ELSE IF d - m <= DestroyCap THEN d - m ELSE DestroyCap
  <2>1. (IF m > 0 THEN d ELSE IF d - m <= DestroyCap THEN d - m ELSE DestroyCap) \in 0 .. DestroyCap
    BY <1>7
  <2> QED
    BY <2>1, Zenon
<1>10. PICK p : p = [q EXCEPT !.strickers = s1, !.destroy = d1]
  OBVIOUS
<1>11. p \in PoolState
  BY <1>10 DEF PoolState
<1>12. /\ Adjusted(q, p) /\ p.rate = q.rate /\ p.thinkTime = q.thinkTime /\ p.strickers = s1
       /\ p.working = q.working
  BY <1>10 DEF PoolState, Adjusted
<1>13. pool' = [pool EXCEPT ![k] = p]
  BY <1>1, <1>2, <1>3, <1>4, <1>5, <1>6, <1>8, <1>9, <1>10 DEF ApplyConcurrency
<1>14. s1 >= s /\ m + s <= s1
  BY <1>5, <1>6, <1>8
<1>15. v.pc = "apply" /\ UNCHANGED <<fileVars, mainVars, taskObjectMap, wg, deleted, pending, crashed,
                                     historyVars>>
  BY <1>1 DEF ApplyConcurrency
<1>16. ASSUME m = 0
       PROVE  \E r \in WatchState :
                /\ WatcherOK("concurrency", r) /\ r.todo = v.todo
                /\ r.pc \in {"wait", "next"}
                /\ watcher' = [watcher EXCEPT !["concurrency"] = r]
  <2>1. PICK r \in WatchState :
          /\ r = Resume("concurrency") /\ WatcherOK("concurrency", r)
          /\ r.todo = v.todo /\ r.pc \in {"wait", "next"}
    BY <1>1, ResumeDoes
  <2>2. watcher' = [watcher EXCEPT !["concurrency"] = r]
    BY <1>1, <1>4, <1>6, <1>16, <2>1 DEF ApplyConcurrency
  <2> QED
    BY <2>1, <2>2
<1>17. ASSUME m # 0
       PROVE  \E r \in WatchState :
                /\ WatcherOK("concurrency", r)
                /\ Moved(v, r, "store") \/ Moved(v, r, "stuck")
                /\ watcher' = [watcher EXCEPT !["concurrency"] = r]
  <2>1. PICK to : to = IF m > 0 \/ d - m <= DestroyCap THEN "store" ELSE "stuck"
    OBVIOUS
  <2>2. to \in {"store", "stuck"}
    BY <2>1
  <2>3. PICK r : r = [v EXCEPT !.pc = to]
    OBVIOUS
  <2>4. r \in WatchState /\ Moved(v, r, to)
    BY <2>2, <2>3, MovedTyped
  <2>5. WatcherOK("concurrency", r)
    BY <1>1, <1>2, <2>2, <2>4, MovedOK
  <2>6. watcher' = [watcher EXCEPT !["concurrency"] = r]
    BY <1>1, <1>2, <1>3, <1>4, <1>5, <1>6, <1>17, <2>1, <2>3 DEF ApplyConcurrency
  <2> QED
    BY <2>2, <2>4, <2>5, <2>6
<1>18. n - o + s <= s1
  BY <1>6, <1>14
<1>19. m = 0 => n = o
  BY <1>6
<1>20. \E r \in WatchState :
         /\ WatcherOK("concurrency", r) /\ r.todo = v.todo
         /\ \/ r.pc \in {"wait", "next"} /\ n = o
            \/ Moved(v, r, "store")
            \/ Moved(v, r, "stuck")
         /\ watcher' = [watcher EXCEPT !["concurrency"] = r]
  BY <1>16, <1>17, <1>19, Zenon DEF Moved
<1> QED
  BY <1>1, <1>2, <1>3, <1>4, <1>5, <1>11, <1>12, <1>13, <1>14, <1>15, <1>18, <1>20

LEMMA ApplyThinkTimeDoes ==
  ASSUME Typed, "thinkTime" \in Watchers, ApplyThinkTime
  PROVE  \E k \in DOMAIN pool, p \in PoolState, r \in WatchState :
           /\ k = watcher["thinkTime"].task /\ watcher["thinkTime"].pc = "adjust"
           /\ WatcherOK("thinkTime", r) /\ r.todo = watcher["thinkTime"].todo
           /\ r.pc \in {"wait", "next"}
           /\ watcher' = [watcher EXCEPT !["thinkTime"] = r]
           /\ pool' = [pool EXCEPT ![k] = p] /\ Adjusted(pool[k], p)
           /\ p.rate = pool[k].rate /\ p.strickers = pool[k].strickers
           /\ p.working = pool[k].working
           /\ p.thinkTime = IF watcher["thinkTime"].new = watcher["thinkTime"].copy.thinkTime
                            THEN pool[k].thinkTime ELSE watcher["thinkTime"].new
           /\ UNCHANGED <<fileVars, mainVars, taskObjectMap, wg, deleted, pending, crashed,
                          historyVars>>
<1>1. PICK v \in WatchState : v = watcher["thinkTime"] /\ WatcherOK("thinkTime", v)
  BY WatcherTyped DEF Typed
<1>2. v.pc = "adjust" /\ UNCHANGED <<fileVars, mainVars, taskObjectMap, wg, deleted, pending,
                                     crashed, historyVars>>
  BY <1>1 DEF ApplyThinkTime
<1>3. PICK k \in DOMAIN pool : k = v.task
  BY <1>1, <1>2 DEF WatcherOK
<1>4. PICK q \in PoolState : q = pool[k]
  BY DEF Typed
<1>5. PICK n \in Nat : n = v.new
  BY DEF WatchState
<1>6. PICK t : t = IF n = v.copy.thinkTime THEN q.thinkTime ELSE n
  OBVIOUS
<1>7. t \in Nat
  BY <1>6 DEF PoolState
<1>8. PICK p : p = [q EXCEPT !.thinkTime = t]
  OBVIOUS
<1>9. p \in PoolState
  BY <1>7, <1>8 DEF PoolState
<1>10. /\ Adjusted(q, p) /\ p.rate = q.rate /\ p.thinkTime = t /\ p.strickers = q.strickers
       /\ p.working = q.working
  BY <1>8 DEF PoolState, Adjusted
<1>11. pool' = [pool EXCEPT ![k] = p]
  <2>1. CASE n = v.copy.thinkTime
    <3>1. p = q
      BY <1>6, <1>8, <2>1 DEF PoolState
    <3>2. pool' = pool
      BY <1>1, <1>5, <2>1 DEF ApplyThinkTime
    <3> QED
      BY <1>4, <3>1, <3>2 DEF Typed
  <2>2. CASE n # v.copy.thinkTime
    BY <1>1, <1>3, <1>4, <1>5, <1>6, <1>8, <2>2 DEF ApplyThinkTime
  <2> QED
    BY <2>1, <2>2
<1>12. PICK r \in WatchState :
         /\ r = Resume("thinkTime") /\ WatcherOK("thinkTime", r)
         /\ r.todo = v.todo /\ r.pc \in {"wait", "next"}
  BY <1>1, ResumeDoes
<1>13. watcher' = [watcher EXCEPT !["thinkTime"] = r]
  BY <1>12 DEF ApplyThinkTime
<1> QED
  BY <1>1, <1>2, <1>3, <1>4, <1>5, <1>6, <1>9, <1>10, <1>11, <1>12, <1>13

LEMMA StoreCopyDoes ==
  ASSUME Typed, NEW w \in Watchers, watcher[w].pc \in {"apply", "store"},
         watcher[w].task \in DOMAIN pool, StoreCopy(w)
  PROVE  \E k \in DOMAIN pool, o \in Object :
           /\ k = watcher[w].task /\ k \in DOMAIN taskObjectMap
           /\ taskObjectMap' = [taskObjectMap EXCEPT ![k] = o]
           /\ o[w] = watcher[w].new /\ \A f \in Fields \ {w} : o[f] = watcher[w].copy[f]
           /\ lost' = (lost \/ taskObjectMap[k] # watcher[w].copy)
           /\ UNCHANGED <<fileVars, mainVars, poolVars, pending, crashed, stolen, missed, implicit>>
<1>1. PICK v \in WatchState : v = watcher[w] /\ w \in Fields
  BY WatcherTyped DEF Typed
<1>2. v.copy \in Object /\ v.new \in Nat
  BY DEF WatchState
<1>3. PICK k \in DOMAIN pool : k = v.task /\ k \in DOMAIN taskObjectMap
  BY <1>1, Domains
<1>4. PICK o : o = [v.copy EXCEPT ![w] = v.new]
  OBVIOUS
<1>5. o \in Object /\ o[w] = v.new /\ \A f \in Fields \ {w} : o[f] = v.copy[f]
  BY <1>1, <1>2, <1>4, ObjectSet
<1>6. /\ taskObjectMap' = [taskObjectMap EXCEPT ![k] = o]
      /\ lost' = (lost \/ taskObjectMap[k] # v.copy)
  BY <1>1, <1>3, <1>4 DEF StoreCopy
<1>7. UNCHANGED <<fileVars, mainVars, poolVars, pending, crashed, stolen, missed, implicit>>
  BY DEF StoreCopy
<1> QED
  BY <1>1, <1>3, <1>5, <1>6, <1>7

LEMMA StoreDoes ==
  ASSUME Typed, NEW w \in Watchers, Store(w)
  PROVE  /\ watcher[w].pc = "store" /\ watcher[w].task \in DOMAIN pool /\ StoreCopy(w)
         /\ w \in {"rate", "concurrency"}
         /\ \E r \in WatchState :
              /\ WatcherOK(w, r) /\ r.todo = watcher[w].todo /\ r.pc \in {"wait", "next"}
              /\ watcher' = [watcher EXCEPT ![w] = r]
<1>1. watcher[w].pc = "store" /\ StoreCopy(w) /\ watcher' = [watcher EXCEPT ![w] = Resume(w)]
  BY DEF Store
<1>2. watcher[w].task \in DOMAIN pool /\ w \in {"rate", "concurrency"}
  BY <1>1, WatcherTyped DEF WatcherOK, Typed
<1>3. PICK r \in WatchState :
        /\ r = Resume(w) /\ WatcherOK(w, r)
        /\ r.todo = watcher[w].todo /\ r.pc \in {"wait", "next"}
  BY ResumeDoes
<1> QED
  BY <1>1, <1>2, <1>3

LEMMA StoreThinkTimeDoes ==
  ASSUME Typed, "thinkTime" \in Watchers, StoreThinkTime
  PROVE  /\ watcher["thinkTime"].pc = "apply" /\ watcher["thinkTime"].task \in DOMAIN pool
         /\ StoreCopy("thinkTime")
         /\ \E r \in WatchState :
              /\ WatcherOK("thinkTime", r) /\ Moved(watcher["thinkTime"], r, "adjust")
              /\ watcher' = [watcher EXCEPT !["thinkTime"] = r]
<1>1. PICK v \in WatchState : v = watcher["thinkTime"]
  BY WatcherTyped DEF Typed
<1>2. v.pc = "apply" /\ v.task \in DOMAIN pool /\ StoreCopy("thinkTime")
      /\ watcher' = [watcher EXCEPT !["thinkTime"].pc = "adjust"]
  BY <1>1 DEF StoreThinkTime, WatcherGoto, Panics
<1>3. PICK r : r = [v EXCEPT !.pc = "adjust"]
  OBVIOUS
<1>4. r \in WatchState /\ Moved(v, r, "adjust")
  BY <1>3, MovedTyped
<1>5. WatcherOK("thinkTime", r)
  BY <1>1, <1>2, <1>4, MovedOK
<1>6. watcher' = [watcher EXCEPT !["thinkTime"] = r]
  BY <1>1, <1>2, <1>3
<1> QED
  BY <1>1, <1>2, <1>4, <1>5, <1>6

\* main stores the next task; the watchers that meet it have more to look at.
LEMMA StoreTaskDoes ==
  ASSUME Typed, StoreTask
  PROVE  /\ Running /\ mainPc = "store" /\ mainPc' = "launch"
         /\ next \in DOMAIN tasks /\ tasks[next] \in Settings
         /\ Len(taskObjectMap) = next - 1 /\ Len(pool) = next - 1
         /\ taskObjectMap' \in Seq(Object) /\ Len(taskObjectMap') = next
         /\ DOMAIN taskObjectMap' = DOMAIN taskObjectMap \cup {next}
         /\ next \notin DOMAIN taskObjectMap /\ taskObjectMap'[next] = tasks[next]
         /\ \A k \in DOMAIN taskObjectMap : taskObjectMap'[k] = taskObjectMap[k]
         /\ Watchers' = Watchers /\ watcher' \in [Watchers -> WatchState]
         /\ \A w \in Watchers :
              /\ Moved(watcher[w], [watcher'[w] EXCEPT !.todo = watcher[w].todo], watcher[w].pc)
              /\ watcher'[w].todo \in {watcher[w].todo, watcher[w].todo \cup {next}}
              /\ watcher[w].pc = "wait" => watcher'[w].todo = watcher[w].todo
         /\ UNCHANGED <<fileVars, tasks, next, poolVars, pending, crashed, historyVars>>
<1>1. /\ Running /\ mainPc = "store" /\ mainPc' = "launch" /\ next <= Len(tasks)
      /\ taskObjectMap' = Append(taskObjectMap, tasks[next])
      /\ UNCHANGED <<fileVars, tasks, next, poolVars, pending, crashed, historyVars>>
  BY DEF StoreTask, MainGoto
<1>2. next \in DOMAIN tasks
  BY <1>1, Domains
<1>3. tasks[next] \in Settings
  BY <1>2 DEF Typed, MainTyped
<1>4. PICK o \in Object : o = tasks[next]
  BY <1>3, SettingsTyped
<1>5. Len(taskObjectMap) = next - 1 /\ Len(pool) = next - 1
  BY <1>1 DEF Typed, MainTyped, MainOK
<1>6. PICK n \in Nat : n = Len(taskObjectMap)
  BY Domains, Zenon
<1>7. next = n + 1
  BY <1>5, <1>6, Domains
<1>8. taskObjectMap \in Seq(Object)
  BY DEF Typed, MapTyped
<1>9. PICK m : m = taskObjectMap'
  OBVIOUS
<1>10. /\ m \in Seq(Object) /\ Len(m) = n + 1 /\ m[n + 1] = o
       /\ DOMAIN taskObjectMap = 1 .. n /\ DOMAIN m = 1 .. n + 1
       /\ \A j \in DOMAIN taskObjectMap : m[j] = taskObjectMap[j]
  BY <1>1, <1>4, <1>6, <1>8, <1>9, SeqAdd
<1>11. DOMAIN m = DOMAIN taskObjectMap \cup {next} /\ next \notin DOMAIN taskObjectMap
  BY <1>7, <1>10
<1>12. PICK seeing \in SUBSET {w \in Watchers : watcher[w].pc \notin {"wait", "stuck"}} :
         watcher' = [w \in Watchers |->
           IF w \in seeing THEN [watcher[w] EXCEPT !.todo = @ \cup {next}] ELSE watcher[w]]
  BY DEF StoreTask
<1>13. Watchers' = Watchers
  BY <1>12 DEF Watchers
<1>14. ASSUME NEW w \in Watchers
       PROVE  /\ watcher'[w] \in WatchState
              /\ Moved(watcher[w], [watcher'[w] EXCEPT !.todo = watcher[w].todo], watcher[w].pc)
              /\ watcher'[w].todo \in {watcher[w].todo, watcher[w].todo \cup {next}}
              /\ watcher[w].pc = "wait" => watcher'[w].todo = watcher[w].todo
  <2>1. PICK q \in WatchState : q = watcher[w]
    BY WatcherTyped DEF Typed
  <2>2. CASE w \in seeing
    <3>1. next \in Nat
      BY Domains
    <3>2. PICK r : r = [q EXCEPT !.todo = q.todo \cup {next}]
      OBVIOUS
    <3>3. watcher'[w] = r /\ q.pc # "wait"
      BY <1>12, <2>1, <2>2, <3>2
    <3>4. r \in WatchState /\ r.todo = q.todo \cup {next} /\ Moved(q, [r EXCEPT !.todo = q.todo], q.pc)
      BY <3>1, <3>2 DEF WatchState, Moved
    <3> QED
      BY <2>1, <3>3, <3>4
  <2>3. CASE w \notin seeing
    <3>1. watcher'[w] = q
      BY <1>12, <2>1, <2>3
    <3>2. Moved(q, [q EXCEPT !.todo = q.todo], q.pc)
      BY DEF WatchState, Moved
    <3> QED
      BY <2>1, <3>1, <3>2
  <2> QED
    BY <2>2, <2>3
<1>15. watcher' \in [Watchers -> WatchState]
  BY <1>12, <1>14
<1> QED
  BY <1>1, <1>2, <1>3, <1>4, <1>5, <1>7, <1>9, <1>10, <1>11, <1>13, <1>14, <1>15

LEMMA LaunchDoes ==
  ASSUME Typed, Launch
  PROVE  \E p \in PoolState :
           /\ Running /\ mainPc = "launch" /\ mainPc' = "trigger"
           /\ next \in DOMAIN tasks /\ next \in DOMAIN taskObjectMap
           /\ taskObjectMap[next] = tasks[next]
           /\ Len(taskObjectMap) = next /\ Len(pool) = next - 1
           /\ pool' \in Seq(PoolState) /\ Len(pool') = next
           /\ DOMAIN pool' = DOMAIN pool \cup {next} /\ next \notin DOMAIN pool
           /\ pool'[next] = p /\ \A k \in DOMAIN pool : pool'[k] = pool[k]
           /\ p.pc = "spawn" /\ p.working = 0 /\ p.reporting = 0 /\ p.strickers = 0
           /\ p.rate = tasks[next].rate /\ p.thinkTime = tasks[next].thinkTime
           /\ p.concurrency >= tasks[next].concurrency
           /\ UNCHANGED <<fileVars, tasks, next, taskObjectMap, wg, deleted, watchVars, crashed,
                          historyVars>>
<1>1. /\ Running /\ mainPc = "launch" /\ mainPc' = "trigger"
      /\ pool' = Append(pool, NewPool(tasks[next]))
      /\ UNCHANGED <<fileVars, tasks, next, taskObjectMap, wg, deleted, watchVars, crashed,
                     historyVars>>
  BY DEF Launch, MainGoto
<1>2. Len(taskObjectMap) = next /\ Len(pool) = next - 1 /\ next <= Len(tasks)
  BY <1>1 DEF Typed, MainTyped, MainOK
<1>3. next \in DOMAIN tasks /\ next \in DOMAIN taskObjectMap
  BY <1>2, Domains
<1>4. PICK s \in Settings : s = tasks[next]
  BY <1>3 DEF Typed, MainTyped
<1>5. s \in Object /\ s.rate # 0
  BY SettingsTyped
<1>6. PICK c \in Nat : c = GetConcurrency(s) /\ c >= s.concurrency
  BY <1>5, ConcurrencyTyped, Zenon
<1>7. PICK p : p = NewPool(s)
  OBVIOUS
<1>8. p.pc = "spawn" /\ p.rate = s.rate /\ p.thinkTime = s.thinkTime /\ p.concurrency = c
      /\ p.working = 0 /\ p.reporting = 0 /\ p.strickers = 0
  BY <1>6, <1>7 DEF NewPool
<1>9. DestroyCap \in Nat
  BY CommandLineConstants
<1>10. p \in PoolState
  BY <1>5, <1>6, <1>7, <1>9 DEF NewPool, PoolState, Object
<1>11. PICK n \in Nat : n = Len(pool) /\ next = n + 1
  BY <1>2, Domains
<1>12. pool \in Seq(PoolState)
  BY DEF Typed
<1>13. PICK m : m = pool'
  OBVIOUS
<1>14. /\ m \in Seq(PoolState) /\ Len(m) = n + 1 /\ m[n + 1] = p
       /\ DOMAIN pool = 1 .. n /\ DOMAIN m = 1 .. n + 1
       /\ \A j \in DOMAIN pool : m[j] = pool[j]
  BY <1>1, <1>4, <1>7, <1>10, <1>11, <1>12, <1>13, SeqAdd
<1>15. DOMAIN m = DOMAIN pool \cup {next} /\ next \notin DOMAIN pool
  BY <1>11, <1>14
<1>16. taskObjectMap[next] = tasks[next]
  BY <1>3, <1>15 DEF Typed, MapTyped
<1> QED
  BY <1>1, <1>2, <1>3, <1>4, <1>6, <1>8, <1>10, <1>11, <1>13, <1>14, <1>15, <1>16

LEMMA TriggeredDoes ==
  ASSUME Typed, NEW k \in DOMAIN pool, Triggered(k)
  PROVE  \E p \in PoolState :
           /\ Running /\ mainPc = "trigger" /\ mainPc' = "store" /\ next' = next + 1
           /\ pool[k].pc = "trigger" /\ p.pc = "check"
           /\ pool' = [pool EXCEPT ![k] = p]
           /\ p.spawned = pool[k].spawned /\ p.strickers = pool[k].strickers
           /\ p.rate = pool[k].rate /\ p.thinkTime = pool[k].thinkTime
           /\ p.concurrency = pool[k].concurrency
           /\ p.working = pool[k].working /\ p.reporting = pool[k].reporting
           /\ stolen' = (stolen \/ k # next)
           /\ UNCHANGED <<fileVars, tasks, taskObjectMap, wg, deleted, watchVars, crashed, lost,
                          missed, implicit>>
<1>1. PICK q \in PoolState : q = pool[k]
  BY DEF Typed
<1>2. PICK p : p = [q EXCEPT !.pc = "check"]
  OBVIOUS
<1>3. p \in PoolState
  BY <1>2 DEF PoolState
<1>4. /\ p.pc = "check" /\ p.spawned = q.spawned /\ p.strickers = q.strickers
      /\ p.rate = q.rate /\ p.thinkTime = q.thinkTime /\ p.concurrency = q.concurrency
      /\ p.working = q.working /\ p.reporting = q.reporting
  BY <1>2 DEF PoolState
<1>5. pool' = [pool EXCEPT ![k] = p]
  BY <1>1, <1>2 DEF Triggered
<1>6. /\ Running /\ mainPc = "trigger" /\ mainPc' = "store" /\ next' = next + 1
      /\ q.pc = "trigger"
      /\ stolen' = (stolen \/ k # next)
      /\ UNCHANGED <<fileVars, tasks, taskObjectMap, wg, deleted, watchVars, crashed, lost,
                     missed, implicit>>
  BY <1>1 DEF Triggered, MainGoto
<1> QED
  BY <1>1, <1>3, <1>4, <1>5, <1>6

-----------------------------------------------------------------------------
(* Every state is well typed *)

LEMMA TypedStored ==
  ASSUME Typed, NEW w \in Watchers, NEW r \in WatchState, WatcherOK(w, r),
         NEW k \in DOMAIN pool, NEW o \in Object,
         watcher' = [watcher EXCEPT ![w] = r],
         taskObjectMap' = [taskObjectMap EXCEPT ![k] = o],
         FlagsTyped', UNCHANGED <<fileVars, mainVars, poolVars, pending>>
  PROVE  Typed'
<1>1. taskObjectMap \in Seq(Object) /\ k \in DOMAIN taskObjectMap
  BY Domains DEF Typed, MapTyped
<1>2. PICK m : m = taskObjectMap'
  OBVIOUS
<1>3. /\ m \in Seq(Object) /\ DOMAIN m = DOMAIN taskObjectMap /\ Len(m) = Len(taskObjectMap)
      /\ \A j \in DOMAIN taskObjectMap \ {k} : m[j] = taskObjectMap[j]
  BY <1>1, <1>2, SeqPut
<1>4. MapTyped'
  BY <1>2, <1>3 DEF Typed, MapTyped
<1>5. MainTyped'
  BY <1>2, <1>3, MainKept DEF Typed
<1>6. WatcherOK(w, r)'
  BY <1>2, <1>3 DEF WatcherOK
<1>7. pending' \in [Watchers -> Nat]
  BY DEF Typed, WatchersTyped
<1>8. WatchersTyped'
  BY <1>2, <1>3, <1>6, <1>7, WatcherSet DEF Typed
<1> QED
  BY <1>4, <1>5, <1>8, WorkKept DEF Typed

LEMMA TypedInit == Init => Typed
<1> SUFFICES ASSUME Init PROVE Typed
  OBVIOUS
<1>1. profile \in Seq(Settings)
  BY CommandLineConstants DEF Init
<1>2. PICK W \in Watching : pending = [w \in W |-> 0] /\ watcher = [w \in W |-> Look({})]
  BY DEF Init
<1>3. W \subseteq Fields
  BY CommandLineConstants
<1>4. Watchers = W
  BY <1>2 DEF Watchers
<1>5. Look({}) \in WatchState
  BY LookTyped
<1>6. WatchersTyped
  <2>1. \A w \in W : WatcherOK(w, watcher[w])
    BY <1>2, LookOK
  <2>2. pending \in [W -> Nat] /\ watcher \in [W -> WatchState]
    BY <1>2, <1>5
  <2> QED
    BY <1>3, <1>4, <2>1, <2>2 DEF WatchersTyped
<1>7. Len(tasks) = 0 /\ Len(pool) = 0 /\ Len(taskObjectMap) = 0
  BY DEF Init
<1>8. MainTyped
  <2>1. mainPc = "config" /\ tasks = <<>> /\ next = 1 /\ truncated = FALSE /\ changes = 0
    BY DEF Init
  <2>2. MainOK
    BY <1>7, <2>1 DEF MainOK
  <2>3. tasks \in Seq(Settings)
    BY <2>1
  <2> QED
    BY <1>1, <2>1, <2>2, <2>3 DEF MainTyped
<1>9. MapTyped
  BY DEF MapTyped, Init
<1>10. WorkCounted
  <2>1. DOMAIN pool = {}
    BY DEF Init
  <2>2. Work = {}
    BY <2>1 DEF Work
  <2> QED
    BY <2>2, FS_EmptySet DEF WorkCounted, Init
<1>11. FlagsTyped /\ pool \in Seq(PoolState)
  <2>1. pool = <<>> /\ crashed = FALSE /\ stolen = FALSE /\ lost = FALSE /\ missed = FALSE
        /\ implicit = FALSE
    BY DEF Init
  <2>2. FlagsTyped
    BY <2>1 DEF FlagsTyped
  <2>3. pool \in Seq(PoolState)
    BY <2>1
  <2> QED
    BY <2>2, <2>3
<1>12. deleted \in 0 .. DeleteCap
  BY CommandLineConstants DEF Init
<1> QED
  BY <1>6, <1>8, <1>9, <1>10, <1>11, <1>12 DEF Typed

LEMMA TypedMain ==
  ASSUME Typed, ReadConfig \/ StoreTask \/ Launch \/ Wait \/ Exit \/ LoadFails
  PROVE  Typed'
<1>1. MainTyped /\ MapTyped /\ WatchersTyped /\ FlagsTyped /\ WorkCounted /\ MainOK
      /\ pool \in Seq(PoolState) /\ deleted \in 0 .. DeleteCap
  BY DEF Typed, MainTyped
<1>2. pending \in [Watchers -> Nat] /\ watcher \in [Watchers -> WatchState]
      /\ \A w \in Watchers : WatcherOK(w, watcher[w])
  BY <1>1 DEF WatchersTyped
<1>3. ASSUME ReadConfig PROVE Typed'
  <2>1. /\ mainPc = "config"
        /\ \/ mainPc' = "store" /\ tasks' = profile
           \/ mainPc' = "failed" /\ UNCHANGED tasks
        /\ UNCHANGED <<fileVars, next, taskObjectMap, poolVars, watchVars, crashed, historyVars>>
    BY <1>3 DEF ReadConfig, MainGoto
  <2>2. tasks = <<>> /\ Len(tasks) = 0
    BY <1>1, <2>1 DEF MainOK
  <2>3. next = 1 /\ Len(taskObjectMap) = 0 /\ Len(pool) = 0
    BY <1>1, <2>1, <2>2 DEF MainOK
  <2>4. DOMAIN taskObjectMap = {} /\ DOMAIN pool = {}
    BY <2>3, Domains
  <2>5. profile \in Seq(Settings) /\ Len(profile) \in Nat
    BY <1>1 DEF MainTyped
  <2>6. MainTyped'
    <3>1. CASE mainPc' = "store" /\ tasks' = profile
      BY <1>1, <2>1, <2>3, <2>5, <3>1 DEF MainTyped, MainOK
    <3>2. CASE mainPc' = "failed" /\ UNCHANGED tasks
      BY <1>1, <2>1, <2>2, <2>3, <3>2 DEF MainTyped, MainOK
    <3> QED
      BY <2>1, <3>1, <3>2
  <2>7. MapTyped'
    BY <1>1, <2>1, <2>4 DEF MapTyped
  <2>8. WatchersTyped'
    BY <1>1, <1>2, <2>1, <2>4, WatchersKept
  <2> QED
    BY <1>1, <2>1, <2>6, <2>7, <2>8, WorkKept DEF Typed, FlagsTyped
<1>4. ASSUME StoreTask PROVE Typed'
  <2>1. /\ mainPc = "store" /\ mainPc' = "launch" /\ next \in DOMAIN tasks
        /\ Len(pool) = next - 1 /\ Len(taskObjectMap') = next
        /\ UNCHANGED <<fileVars, tasks, next, poolVars, pending, crashed, historyVars>>
    BY <1>4, StoreTaskDoes
  <2>2. /\ taskObjectMap' \in Seq(Object)
        /\ DOMAIN taskObjectMap' = DOMAIN taskObjectMap \cup {next}
        /\ taskObjectMap'[next] = tasks[next]
        /\ \A k \in DOMAIN taskObjectMap : taskObjectMap'[k] = taskObjectMap[k]
    BY <1>4, StoreTaskDoes
  <2>3. MainTyped'
    <3>1. next <= Len(tasks) /\ next \in 1 .. Len(tasks) + 1
      BY <2>1, Domains
    <3> QED
      BY <1>1, <2>1, <3>1 DEF MainTyped, MainOK
  <2>4. MapTyped'
    BY <1>1, <2>1, <2>2 DEF MapTyped
  <2>5. ASSUME NEW w \in Watchers PROVE WatcherOK(w, watcher[w])'
    <3>1. PICK q \in WatchState, r \in WatchState : q = watcher[w] /\ r = watcher'[w]
      BY <1>2, <1>4, StoreTaskDoes
    <3>2. /\ Moved(q, [r EXCEPT !.todo = q.todo], q.pc)
          /\ r.todo \in {q.todo, q.todo \cup {next}}
          /\ q.pc = "wait" => r.todo = q.todo
      BY <1>4, <3>1, StoreTaskDoes
    <3>3. r.pc = q.pc /\ r.task = q.task /\ r.copy = q.copy
      BY <3>2 DEF Moved, WatchState
    <3>4. WatcherOK(w, q)
      BY <1>2, <3>1
    <3>5. WatcherOK(w, r)'
      BY <2>1, <2>2, <3>2, <3>3, <3>4 DEF WatcherOK
    <3> QED
      BY <3>1, <3>5
  <2>6. Watchers' = Watchers /\ watcher' \in [Watchers -> WatchState]
    BY <1>4, StoreTaskDoes
  <2>7. WatchersTyped'
    BY <1>1, <2>1, <2>5, <2>6 DEF WatchersTyped
  <2> QED
    BY <1>1, <2>1, <2>3, <2>4, <2>7, WorkKept DEF Typed, FlagsTyped
<1>5. ASSUME Launch PROVE Typed'
  <2>1. PICK p \in PoolState :
          /\ mainPc = "launch" /\ mainPc' = "trigger" /\ next \in DOMAIN tasks
          /\ Len(taskObjectMap) = next
          /\ pool' \in Seq(PoolState) /\ Len(pool') = next
          /\ DOMAIN pool' = DOMAIN pool \cup {next} /\ next \notin DOMAIN pool
          /\ pool'[next] = p /\ \A k \in DOMAIN pool : pool'[k] = pool[k]
          /\ p.working = 0 /\ p.reporting = 0
          /\ UNCHANGED <<fileVars, tasks, next, taskObjectMap, wg, deleted, watchVars, crashed,
                         historyVars>>
    BY <1>5, LaunchDoes
  <2>2. MainTyped'
    <3>1. next <= Len(tasks) /\ next \in 1 .. Len(tasks) + 1
      BY <2>1, Domains
    <3> QED
      BY <1>1, <2>1, <3>1 DEF MainTyped, MainOK
  <2>3. MapTyped'
    BY <1>1, <2>1, MapKept
  <2>4. WatchersTyped'
    BY <1>1, <1>2, <2>1, WatchersKept
  <2>5. Work' = Work
    <3>1. \A k \in DOMAIN pool : Busy(k)' = Busy(k)
      BY <2>1 DEF Busy
    <3>2. Busy(next)' = 0
      BY <2>1 DEF Busy
    <3> QED
      BY <2>1, <3>1, <3>2 DEF Work, Busy
  <2>6. WorkCounted'
    BY <1>1, <2>1, <2>5 DEF WorkCounted
  <2> QED
    BY <1>1, <2>1, <2>2, <2>3, <2>4, <2>6 DEF Typed, FlagsTyped
<1>6. ASSUME Wait \/ Exit \/ LoadFails PROVE Typed'
  <2>1. /\ \/ mainPc = "store" /\ mainPc' = "wait" /\ next > Len(tasks)
           \/ mainPc = "wait" /\ mainPc' = "exit"
           \/ mainPc = "store" /\ mainPc' = "failed"
        /\ UNCHANGED <<fileVars, tasks, next, taskObjectMap, poolVars, watchVars, crashed, historyVars>>
    BY <1>6 DEF Wait, Exit, LoadFails, MainGoto
  <2>2. MainOK'
    <3>1. next \in 1 .. Len(tasks) + 1 /\ Len(tasks) \in Nat
      BY <1>1, Domains DEF MainOK
    <3>2. next > Len(tasks) => next = Len(tasks) + 1
      BY <3>1
    <3> QED
      BY <1>1, <2>1, <3>1, <3>2 DEF MainOK
  <2>3. MainTyped'
    BY <1>1, <2>1, <2>2 DEF MainTyped
  <2> QED
    BY <1>1, <1>2, <2>1, <2>3, MapKept, WatchersKept, WorkKept DEF Typed, FlagsTyped
<1> QED
  BY <1>3, <1>4, <1>5, <1>6

LEMMA TypedPools ==
  ASSUME Typed, NEW k \in DOMAIN pool, Triggered(k) \/ PoolStep(k)
  PROVE  Typed'
<1>1. pending' \in [Watchers -> Nat]
  <2>1. UNCHANGED pending
    BY DEF Triggered, PoolStep
  <2> QED
    BY <2>1 DEF Typed, WatchersTyped
<1>2. pool \in Seq(PoolState) /\ MainTyped /\ MainOK /\ FlagsTyped /\ WatchersTyped
      /\ deleted \in 0 .. DeleteCap
  BY DEF Typed, MainTyped
<1>3. CASE Triggered(k)
  <2>1. PICK p \in PoolState :
          /\ mainPc = "trigger" /\ mainPc' = "store" /\ next' = next + 1
          /\ pool' = [pool EXCEPT ![k] = p]
          /\ p.working = pool[k].working /\ p.reporting = pool[k].reporting
          /\ stolen' = (stolen \/ k # next)
          /\ UNCHANGED <<fileVars, tasks, taskObjectMap, wg, deleted, watchVars, crashed, lost,
                         missed, implicit>>
    BY <1>3, TriggeredDoes
  <2>2. DOMAIN pool' = DOMAIN pool /\ Len(pool') = Len(pool)
    BY <1>2, <2>1, SeqPut
  <2>3. WatchersTyped'
    BY <1>1, <1>2, <2>1, <2>2, WatchersKept
  <2>4. next \in Nat /\ Len(tasks) \in Nat /\ next <= Len(tasks) /\ Len(taskObjectMap) = next
        /\ Len(pool) = next
    BY <1>2, <2>1, Domains DEF MainOK
  <2>5. MainOK'
    BY <1>2, <2>1, <2>2, <2>4 DEF MainOK
  <2>6. MainTyped'
    BY <1>2, <2>1, <2>5 DEF MainTyped
  <2>7. FlagsTyped'
    BY <1>2, <2>1 DEF FlagsTyped
  <2>8. wg \in Nat /\ pool[k].working + pool[k].reporting \in Nat
    <3>1. Busy(k) \in Nat
      BY <1>2, BusyTyped
    <3> QED
      BY <3>1, GroupTyped DEF Busy, Typed
  <2>9. wg' = wg - (pool[k].working + pool[k].reporting) + (p.working + p.reporting)
    BY <2>1, <2>8
  <2> QED
    BY <1>2, <2>1, <2>3, <2>6, <2>7, <2>9, TypedPool
<1>4. CASE PoolStep(k)
  <2>1. /\ \E p \in PoolState : pool' = [pool EXCEPT ![k] = p] /\ PoolStepped(pool[k], p)
        /\ deleted' \in 0 .. DeleteCap
        /\ UNCHANGED othersThanPools
    BY <1>2, <1>4, PoolStepDoes, GroupTyped DEF Typed
  <2>2. PICK p \in PoolState : pool' = [pool EXCEPT ![k] = p] /\ PoolStepped(pool[k], p)
    BY <2>1
  <2>3. DOMAIN pool' = DOMAIN pool /\ Len(pool') = Len(pool)
    BY <1>2, <2>2, SeqPut
  <2>4. WatchersTyped'
    BY <1>1, <1>2, <2>1, <2>3, WatchersKept
  <2>5. MainTyped'
    BY <1>2, <2>1, <2>3, MainKept
  <2>6. FlagsTyped'
    BY <1>2, <2>1 DEF FlagsTyped
  <2>7. wg' = wg - (pool[k].working + pool[k].reporting) + (p.working + p.reporting)
    BY <2>2 DEF PoolStepped
  <2> QED
    BY <1>2, <2>1, <2>2, <2>4, <2>5, <2>6, <2>7, TypedPool
<1> QED
  BY <1>3, <1>4

\* A watcher changes a pool and moves.
LEMMA TypedApplied ==
  ASSUME Typed, NEW w \in Watchers, NEW r \in WatchState, WatcherOK(w, r),
         watcher' = [watcher EXCEPT ![w] = r],
         NEW k \in DOMAIN pool, NEW p \in PoolState, pool' = [pool EXCEPT ![k] = p],
         wg' = wg - (pool[k].working + pool[k].reporting) + (p.working + p.reporting),
         UNCHANGED <<fileVars, mainVars, taskObjectMap, deleted, pending, crashed, historyVars>>
  PROVE  Typed'
<1>1. pool \in Seq(PoolState) /\ FlagsTyped /\ WatchersTyped /\ MainTyped
      /\ deleted \in 0 .. DeleteCap
  BY DEF Typed
<1>2. DOMAIN pool' = DOMAIN pool /\ Len(pool') = Len(pool)
  BY <1>1, SeqPut
<1>3. WatcherOK(w, r)'
  BY <1>2, OKKept
<1>4. pending' \in [Watchers -> Nat]
  BY <1>1 DEF WatchersTyped
<1>5. WatchersTyped'
  BY <1>1, <1>2, <1>3, <1>4, WatcherSet
<1>6. MainTyped'
  BY <1>1, <1>2, MainKept
<1>7. FlagsTyped'
  BY <1>1 DEF FlagsTyped
<1> QED
  BY <1>1, <1>5, <1>6, <1>7, TypedPool

LEMMA GroupKept ==
  ASSUME Typed, NEW k \in DOMAIN pool, NEW p \in PoolState, UNCHANGED wg,
         p.working = pool[k].working, p.reporting = pool[k].reporting
  PROVE  wg' = wg - (pool[k].working + pool[k].reporting) + (p.working + p.reporting)
<1>1. Busy(k) \in Nat
  BY BusyTyped DEF Typed
<1> QED
  BY <1>1, GroupTyped DEF Busy, Typed

LEMMA TypedWatch ==
  ASSUME Typed, NEW w \in Watchers, Watch(w)
  PROVE  Typed'
<1>1. FlagsTyped /\ pending \in [Watchers -> Nat] /\ w \in Fields
  BY DEF Typed, WatchersTyped
<1>2. ASSUME TakeEvent(w) PROVE Typed'
  <2>1. PICK r \in WatchState :
          /\ WatcherOK(w, r) /\ watcher' = [watcher EXCEPT ![w] = r]
          /\ pending' \in [Watchers -> Nat]
          /\ missed' = (missed \/ (mainPc # "config" /\ Len(taskObjectMap) < Len(tasks)))
          /\ UNCHANGED <<fileVars, mainVars, taskObjectMap, poolVars, crashed, stolen, lost, implicit>>
    BY <1>2, TakeEventDoes
  <2>2. FlagsTyped'
    BY <1>1, <2>1 DEF FlagsTyped
  <2> QED
    BY <2>1, <2>2, TypedMoved
<1>3. ASSUME CopyTask(w) PROVE Typed'
  <2>1. PICK k \in watcher[w].todo, r \in WatchState :
           /\ WatcherOK(w, r) /\ watcher' = [watcher EXCEPT ![w] = r]
           /\ UNCHANGED <<fileVars, mainVars, taskObjectMap, poolVars, pending, crashed, historyVars>>
    BY <1>3, CopyTaskDoes
  <2>2. FlagsTyped'
    BY <1>1, <2>1 DEF FlagsTyped
  <2> QED
    BY <1>1, <2>1, <2>2, TypedMoved
<1>4. ASSUME ReadProfile(w) PROVE Typed'
  <2>1. PICK n \in Nat, r \in WatchState :
           /\ WatcherOK(w, r) /\ watcher' = [watcher EXCEPT ![w] = r]
           /\ implicit' = (implicit \/ (w = "concurrency" /\ 0 \in {n, watcher[w].copy.concurrency}))
           /\ UNCHANGED <<fileVars, mainVars, taskObjectMap, poolVars, pending, crashed, stolen,
                          lost, missed>>
    BY <1>4, ReadProfileDoes
  <2>2. FlagsTyped'
    BY <1>1, <2>1 DEF FlagsTyped
  <2> QED
    BY <1>1, <2>1, <2>2, TypedMoved
<1>5. ASSUME Panic(w) PROVE Typed'
  <2>1. crashed' = TRUE
        /\ UNCHANGED <<fileVars, mainVars, taskObjectMap, poolVars, watchVars, historyVars>>
    BY <1>5 DEF Panic
  <2>2. FlagsTyped'
    BY <1>1, <2>1 DEF FlagsTyped
  <2>3. WatchersTyped'
    BY <1>1, <2>1, WatchersKept DEF Typed
  <2> QED
    BY <2>1, <2>2, <2>3, MainKept, MapKept, WorkKept DEF Typed
<1>6. ASSUME w = "rate", ApplyRate PROVE Typed'
  <2>1. PICK k \in DOMAIN pool, p \in PoolState, r \in WatchState :
          /\ WatcherOK("rate", r) /\ watcher' = [watcher EXCEPT !["rate"] = r]
          /\ pool' = [pool EXCEPT ![k] = p]
          /\ wg' = wg - (pool[k].working + pool[k].reporting) + (p.working + p.reporting)
          /\ UNCHANGED <<fileVars, mainVars, taskObjectMap, deleted, pending, crashed, historyVars>>
    BY <1>6, ApplyRateDoes
  <2> QED
    BY <1>6, <2>1, TypedApplied
<1>7. ASSUME w = "concurrency", ApplyConcurrency PROVE Typed'
  <2>1. PICK k \in DOMAIN pool, p \in PoolState, r \in WatchState :
          /\ WatcherOK("concurrency", r) /\ watcher' = [watcher EXCEPT !["concurrency"] = r]
          /\ pool' = [pool EXCEPT ![k] = p] /\ Adjusted(pool[k], p) /\ p.working = pool[k].working
          /\ UNCHANGED <<fileVars, mainVars, taskObjectMap, wg, deleted, pending, crashed, historyVars>>
    BY <1>7, ApplyConcurrencyDoes
  <2>2. wg' = wg - (pool[k].working + pool[k].reporting) + (p.working + p.reporting)
    BY <2>1, GroupKept DEF Adjusted
  <2> QED
    BY <1>7, <2>1, <2>2, TypedApplied
<1>8. ASSUME w = "thinkTime", ApplyThinkTime PROVE Typed'
  <2>1. PICK k \in DOMAIN pool, p \in PoolState, r \in WatchState :
          /\ WatcherOK("thinkTime", r) /\ watcher' = [watcher EXCEPT !["thinkTime"] = r]
          /\ pool' = [pool EXCEPT ![k] = p] /\ Adjusted(pool[k], p) /\ p.working = pool[k].working
          /\ UNCHANGED <<fileVars, mainVars, taskObjectMap, wg, deleted, pending, crashed, historyVars>>
    BY <1>8, ApplyThinkTimeDoes
  <2>2. wg' = wg - (pool[k].working + pool[k].reporting) + (p.working + p.reporting)
    BY <2>1, GroupKept DEF Adjusted
  <2> QED
    BY <1>8, <2>1, <2>2, TypedApplied
<1>9. ASSUME watcher[w].pc \in {"apply", "store"}, watcher[w].task \in DOMAIN pool, StoreCopy(w),
             NEW r \in WatchState, WatcherOK(w, r), watcher' = [watcher EXCEPT ![w] = r]
      PROVE  Typed'
  <2>1. PICK k \in DOMAIN pool, o \in Object :
           /\ taskObjectMap' = [taskObjectMap EXCEPT ![k] = o]
           /\ lost' = (lost \/ taskObjectMap[k] # watcher[w].copy)
           /\ UNCHANGED <<fileVars, mainVars, poolVars, pending, crashed, stolen, missed, implicit>>
    BY <1>9, StoreCopyDoes
  <2>2. FlagsTyped'
    BY <1>1, <2>1 DEF FlagsTyped
  <2> QED
    BY <1>9, <2>1, <2>2, TypedStored
<1>10. ASSUME Store(w) PROVE Typed'
  <2>1. PICK r \in WatchState : WatcherOK(w, r) /\ watcher' = [watcher EXCEPT ![w] = r]
    BY <1>10, StoreDoes
  <2> QED
    BY <1>9, <1>10, <2>1, StoreDoes
<1>11. ASSUME w = "thinkTime", StoreThinkTime PROVE Typed'
  <2>1. PICK r \in WatchState : WatcherOK(w, r) /\ watcher' = [watcher EXCEPT ![w] = r]
    BY <1>11, StoreThinkTimeDoes
  <2> QED
    BY <1>9, <1>11, <2>1, StoreThinkTimeDoes
<1> QED
  BY <1>2, <1>3, <1>4, <1>5, <1>6, <1>7, <1>8, <1>10, <1>11 DEF Watch

LEMMA TypedFile ==
  ASSUME Typed, Rewrite \/ Truncate \/ Write
  PROVE  Typed'
<1>1. /\ profile' \in Seq(Settings) /\ Len(profile') = Len(profile)
      /\ truncated' \in BOOLEAN /\ changes' \in Nat
      /\ pending' \in [Watchers -> Nat]
      /\ UNCHANGED <<mainVars, taskObjectMap, poolVars, watcher, crashed, historyVars>>
  BY FileStepDoes
<1>2. MainTyped'
  BY <1>1 DEF Typed, MainTyped, MainOK
<1>3. WatchersTyped'
  BY <1>1, WatchersKept DEF Typed
<1>4. FlagsTyped'
  BY <1>1 DEF FlagsTyped, Typed
<1> QED
  BY <1>1, <1>2, <1>3, <1>4, MapKept, WorkKept DEF Typed

LEMMA TypedNext ==
  ASSUME Typed, [Next]_vars
  PROVE  Typed'
<1>1. ASSUME UNCHANGED vars PROVE Typed'
  <2>1. UNCHANGED <<fileVars, mainVars, taskObjectMap, poolVars, watchVars, crashed, historyVars>>
    BY <1>1 DEF vars
  <2>2. pending \in [Watchers -> Nat]
    BY DEF Typed, WatchersTyped
  <2>3. WatchersTyped' /\ MainTyped' /\ MapTyped' /\ WorkCounted'
    BY <2>1, <2>2, WatchersKept, MainKept, MapKept, WorkKept DEF Typed
  <2>4. FlagsTyped'
    BY <2>1 DEF FlagsTyped, Typed
  <2> QED
    BY <2>1, <2>3, <2>4 DEF Typed
<1> QED
  BY <1>1, TypedMain, TypedPools, TypedWatch, TypedFile DEF Next, Main

\* Every state is well typed, and the wait group counts the producers.
LEMMA TypedAlways == Spec => []Typed
BY TypedInit, TypedNext, PTL DEF Spec

\* Every state is well typed: the wait group of the program (main.go) never
\* falls below zero, and the channels keep to their capacities.
THEOREM CommandLineTypeCorrect == Spec => []CommandLineTypeOK
<1>1. Typed => CommandLineTypeOK
  <2> SUFFICES ASSUME Typed PROVE CommandLineTypeOK
    OBVIOUS
  <2>1. PoolState \subseteq
          [pc : {"spawn", "trigger", "check", "ended"}, rate : Nat, concurrency : Nat,
           thinkTime : Nat, spawned : Nat, count : Nat, working : Nat,
           reporting : Nat, pills : Nat, strickers : Nat, destroy : 0 .. DestroyCap]
    BY DEF PoolState
  <2>2. pool \in Seq([pc : {"spawn", "trigger", "check", "ended"}, rate : Nat, concurrency : Nat,
                      thinkTime : Nat, spawned : Nat, count : Nat, working : Nat,
                      reporting : Nat, pills : Nat, strickers : Nat, destroy : 0 .. DestroyCap])
    BY <2>1, SeqMonotonic, Zenon DEF Typed
  <2>3. next \in Nat
    BY Domains
  <2>4. wg \in Nat
    BY GroupTyped DEF Typed
  <2>5. {crashed, stolen, lost, missed, implicit} \subseteq BOOLEAN
    BY DEF Typed, FlagsTyped
  <2>6. watcher \in [Watchers -> [pc : {"wait", "next", "read", "apply", "store", "adjust", "stuck"},
                                  todo : SUBSET Nat, task : Nat, copy : Object, new : Nat]]
    BY DEF Typed, WatchersTyped, WatchState
  <2>7. /\ profile \in Profiles \cup Seq(Settings) /\ truncated \in BOOLEAN /\ changes \in Nat
        /\ mainPc \in {"config", "store", "launch", "trigger", "wait", "exit", "failed"}
        /\ tasks \in Seq(Settings)
    <3>1. profile \in Seq(Settings)
      BY DEF Typed, MainTyped
    <3>2. profile \in Profiles \cup Seq(Settings)
      BY <3>1
    <3> QED
      BY <3>2, Zenon DEF Typed, MainTyped
  <2>8. taskObjectMap \in Seq(Object) /\ deleted \in 0 .. DeleteCap /\ pending \in [Watchers -> Nat]
    BY DEF Typed, MapTyped, WatchersTyped
  <2> QED
    BY <2>2, <2>3, <2>4, <2>5, <2>6, <2>7, <2>8, Zenon DEF CommandLineTypeOK
<1> QED
  BY <1>1, TypedAlways, PTL

-----------------------------------------------------------------------------
(* The end of the program *)

\* After main has returned nothing happens.
LEMMA NextRunning == Next => Running
<1>1. ReadConfig \/ StoreTask \/ Wait \/ Exit \/ Launch \/ LoadFails => Running
  BY Zenon DEF ReadConfig, StoreTask, Launch, Wait, Exit, LoadFails, MainGoto
<1>2. ASSUME NEW w, Watch(w) PROVE Running
  <2>1. TakeEvent(w) \/ CopyTask(w) \/ ReadProfile(w) \/ Panic(w) \/ Store(w) => Running
    BY Zenon DEF TakeEvent, CopyTask, ReadProfile, Panic, Store
  <2>2. ApplyRate \/ ApplyConcurrency \/ StoreThinkTime \/ ApplyThinkTime => Running
    BY Zenon DEF ApplyRate, ApplyConcurrency, StoreThinkTime, ApplyThinkTime, WatcherGoto
  <2> QED
    BY <1>2, <2>1, <2>2 DEF Watch
<1>3. Rewrite \/ Truncate \/ Write => Running
  BY Zenon DEF Rewrite, Truncate, Write
<1>4. \A k : Triggered(k) \/ PoolStep(k) => Running
  BY Zenon DEF Triggered, MainGoto, PoolStep
<1> QED
  BY <1>1, <1>2, <1>3, <1>4, Zenon DEF Next, Main

LEMMA StartedKept ==
  ASSUME Started, UNCHANGED <<pool, next, stolen>>, mainPc' = "exit" => wg' = 0
  PROVE  Started'
BY DEF Started

LEMMA StartedPool ==
  ASSUME Typed, Started, NEW k \in DOMAIN pool, NEW p \in PoolState,
         pool' = [pool EXCEPT ![k] = p],
         p.pc = "spawn" => pool[k].pc = "spawn",
         p.pc # "spawn" /\ (pool[k].pc # "spawn" => pool[k].spawned > 0) => p.spawned > 0,
         UNCHANGED <<next, stolen>>, mainPc' # "exit"
  PROVE  Started'
<1>1. pool \in Seq(PoolState)
  BY DEF Typed
<1>2. DOMAIN pool' = DOMAIN pool /\ pool'[k] = p
      /\ \A j \in DOMAIN pool \ {k} : pool'[j] = pool[j]
  BY <1>1, SeqPut
<1>3. ASSUME NEW j \in DOMAIN pool
      PROVE  /\ pool'[j].pc # "spawn" => pool'[j].spawned > 0
             /\ ~stolen /\ j < next => pool'[j].pc # "spawn"
  <2>1. CASE j = k
    BY <1>2, <2>1 DEF Started
  <2>2. CASE j # k
    BY <1>2, <2>2 DEF Started
  <2> QED
    BY <2>1, <2>2
<1> QED
  BY <1>2, <1>3 DEF Started

LEMMA StartedNext ==
  ASSUME Typed, Started, [Next]_vars
  PROVE  Started'
<1>1. ASSUME UNCHANGED vars PROVE Started'
  BY <1>1, StartedKept DEF vars, Started
<1>2. ASSUME Running, UNCHANGED <<pool, next, stolen, mainPc>> PROVE Started'
  BY <1>2, StartedKept DEF Running
<1>3. ASSUME Rewrite \/ Truncate \/ Write PROVE Started'
  BY <1>2, <1>3, FileStepDoes
<1>4. ASSUME ReadConfig \/ StoreTask \/ Wait \/ LoadFails PROVE Started'
  <2>1. UNCHANGED <<pool, next, stolen>> /\ mainPc' # "exit"
    BY <1>4 DEF ReadConfig, StoreTask, Wait, LoadFails, MainGoto
  <2> QED
    BY <2>1, StartedKept
<1>5. ASSUME Exit PROVE Started'
  <2>1. UNCHANGED <<pool, next, stolen>> /\ wg' = 0
    BY <1>5 DEF Exit
  <2> QED
    BY <2>1, StartedKept
<1>6. ASSUME Launch PROVE Started'
  <2>1. PICK p \in PoolState :
          /\ mainPc' = "trigger"
          /\ DOMAIN pool' = DOMAIN pool \cup {next}
          /\ pool'[next] = p /\ \A k \in DOMAIN pool : pool'[k] = pool[k]
          /\ p.pc = "spawn" /\ UNCHANGED <<next, stolen>>
    BY <1>6, LaunchDoes
  <2>2. next \in Nat
    BY Domains
  <2> QED
    BY <2>1, <2>2 DEF Started
<1>7. ASSUME NEW k \in DOMAIN pool, Triggered(k) PROVE Started'
  <2>1. PICK p \in PoolState :
          /\ mainPc' = "store" /\ next' = next + 1
          /\ pool[k].pc = "trigger" /\ p.pc = "check" /\ p.spawned = pool[k].spawned
          /\ pool' = [pool EXCEPT ![k] = p]
          /\ stolen' = (stolen \/ k # next)
    BY <1>7, TriggeredDoes
  <2>2. pool \in Seq(PoolState)
    BY DEF Typed
  <2>3. DOMAIN pool' = DOMAIN pool /\ pool'[k] = p
        /\ \A j \in DOMAIN pool \ {k} : pool'[j] = pool[j]
    BY <2>1, <2>2, SeqPut
  <2>4. next \in Nat /\ DOMAIN pool \subseteq Nat
    BY Domains
  <2>5. ASSUME NEW j \in DOMAIN pool PROVE pool'[j].pc # "spawn" => pool'[j].spawned > 0
    <3>1. CASE j = k
      BY <2>1, <2>3, <3>1 DEF Started
    <3>2. CASE j # k
      BY <2>3, <3>2 DEF Started
    <3> QED
      BY <3>1, <3>2
  <2>6. ASSUME ~stolen', NEW j \in DOMAIN pool, j < next' PROVE pool'[j].pc # "spawn"
    <3>1. ~stolen /\ k = next
      BY <2>1, <2>6
    <3>2. CASE j = k
      BY <2>1, <2>3, <3>2
    <3>3. CASE j # k
      <4>1. j < next
        BY <2>1, <2>4, <2>6, <3>1, <3>3
      <4> QED
        BY <2>3, <3>1, <3>3, <4>1 DEF Started
    <3> QED
      BY <3>2, <3>3
  <2> QED
    BY <2>1, <2>3, <2>5, <2>6 DEF Started
<1>8. ASSUME NEW k \in DOMAIN pool, PoolStep(k) PROVE Started'
  <2>1. /\ \E p \in PoolState : pool' = [pool EXCEPT ![k] = p] /\ PoolStepped(pool[k], p)
        /\ UNCHANGED othersThanPools
    BY <1>8, PoolStepDoes, GroupTyped DEF Typed
  <2>2. PICK p \in PoolState : pool' = [pool EXCEPT ![k] = p] /\ PoolStepped(pool[k], p)
    BY <2>1
  <2>3. mainPc' # "exit"
    BY <1>8, <2>1 DEF PoolStep, Running
  <2>4. /\ p.pc = "spawn" => pool[k].pc = "spawn"
        /\ p.pc # "spawn" /\ (pool[k].pc # "spawn" => pool[k].spawned > 0) => p.spawned > 0
    BY <2>2 DEF PoolStepped
  <2> QED
    BY <2>1, <2>2, <2>3, <2>4, StartedPool
<1>9. ASSUME NEW k \in DOMAIN pool, NEW p \in PoolState, pool' = [pool EXCEPT ![k] = p],
             Adjusted(pool[k], p), UNCHANGED <<next, stolen, mainPc>>, Running
      PROVE  Started'
  <2>1. /\ p.pc = "spawn" => pool[k].pc = "spawn"
        /\ p.pc # "spawn" /\ (pool[k].pc # "spawn" => pool[k].spawned > 0) => p.spawned > 0
        /\ mainPc' # "exit"
    BY <1>9 DEF Adjusted, Running
  <2> QED
    BY <1>9, <2>1, StartedPool
<1>10. ASSUME NEW w \in Watchers, Watch(w), Running PROVE Started'
  <2>1. CASE TakeEvent(w) \/ CopyTask(w) \/ ReadProfile(w) \/ Panic(w)
    <3>1. UNCHANGED <<mainVars, poolVars, stolen>>
      BY <2>1, Zenon DEF TakeEvent, CopyTask, ReadProfile, Panic
    <3> QED
      BY <1>2, <1>10, <3>1
  <2>2. CASE Store(w) \/ (w = "thinkTime" /\ StoreThinkTime)
    <3>1. UNCHANGED <<pool, next, stolen, mainPc>>
      BY <2>2 DEF Store, StoreThinkTime, StoreCopy
    <3> QED
      BY <1>2, <1>10, <3>1
  <2>3. CASE w = "rate" /\ ApplyRate
    <3>1. PICK k \in DOMAIN pool, p \in PoolState :
            /\ pool' = [pool EXCEPT ![k] = p] /\ Adjusted(pool[k], p)
            /\ UNCHANGED <<mainVars, historyVars>>
      BY <2>3, ApplyRateDoes
    <3> QED
      BY <1>9, <1>10, <3>1
  <2>4. CASE w = "concurrency" /\ ApplyConcurrency
    <3>1. PICK k \in DOMAIN pool, p \in PoolState :
            /\ pool' = [pool EXCEPT ![k] = p] /\ Adjusted(pool[k], p)
            /\ UNCHANGED <<mainVars, historyVars>>
      BY <2>4, ApplyConcurrencyDoes
    <3> QED
      BY <1>9, <1>10, <3>1
  <2>5. CASE w = "thinkTime" /\ ApplyThinkTime
    <3>1. PICK k \in DOMAIN pool, p \in PoolState :
            /\ pool' = [pool EXCEPT ![k] = p] /\ Adjusted(pool[k], p)
            /\ UNCHANGED <<mainVars, historyVars>>
      BY <2>5, ApplyThinkTimeDoes
    <3> QED
      BY <1>9, <1>10, <3>1
  <2> QED
    BY <1>10, <2>1, <2>2, <2>3, <2>4, <2>5 DEF Watch
<1> QED
  BY <1>1, <1>3, <1>4, <1>5, <1>6, <1>7, <1>8, <1>10, NextRunning DEF Next, Main

\* When the program has ended every task was run and no producer is at work,
\* unless main took the trigger of one pool for that of another (startTasks
\* and monitorTasks of main.go, the wait group of workerPool.go).
THEOREM ExitCompleteCorrect == Spec => []ExitComplete
<1>1. Init => Started
  BY DEF Init, Started
<1>2. Typed /\ Started => ExitComplete
  <2> SUFFICES ASSUME Typed, Started, mainPc = "exit", ~stolen, NEW k \in DOMAIN tasks
               PROVE  k \in DOMAIN pool /\ pool[k].spawned > 0 /\ pool[k].working + pool[k].reporting = 0
    BY DEF ExitComplete
  <2>1. next = Len(tasks) + 1 /\ Len(pool) = next - 1
    BY DEF Typed, MainTyped, MainOK
  <2>2. k \in DOMAIN pool /\ k < next
    BY <2>1, Domains
  <2>3. pool[k].spawned > 0
    BY <2>2 DEF Started
  <2>4. Work = {}
    <3>1. Cardinality(Work) = 0 /\ IsFiniteSet(Work)
      BY DEF Started, Typed, WorkCounted
    <3> QED
      BY <3>1, FS_EmptySet
  <2>5. Busy(k) \in Nat
    BY <2>2, BusyTyped DEF Typed
  <2>6. Busy(k) = 0
    <3>1. SUFFICES ASSUME Busy(k) > 0 PROVE FALSE
      BY <2>5
    <3>2. <<k, 1>> \in Work
      BY <2>2, <2>5, <3>1 DEF Work
    <3> QED
      BY <2>4, <3>2
  <2> QED
    BY <2>2, <2>3, <2>6 DEF Busy
<1> QED
  BY <1>1, <1>2, TypedInit, TypedNext, StartedNext, PTL DEF Spec

-----------------------------------------------------------------------------
(* The consumers *)

\* What went wrong once is remembered.
Remembered == (missed => missed') /\ (implicit => implicit') /\ (lost => lost')

LEMMA HistoryKept ==
  ASSUME Typed, [Next]_vars
  PROVE  Remembered
<1>1. ASSUME UNCHANGED <<missed, implicit, lost>> PROVE Remembered
  BY <1>1 DEF Remembered
<1>2. ASSUME Rewrite \/ Truncate \/ Write PROVE Remembered
  BY <1>1, <1>2, FileStepDoes
<1>3. ASSUME ReadConfig \/ StoreTask \/ Launch \/ Wait \/ Exit \/ LoadFails PROVE Remembered
  <2>1. UNCHANGED historyVars
    BY <1>3, Zenon DEF ReadConfig, StoreTask, Launch, Wait, Exit, LoadFails
  <2> QED
    BY <1>1, <2>1
<1>4. ASSUME NEW k, Triggered(k) PROVE Remembered
  BY <1>1, <1>4 DEF Triggered
<1>5. ASSUME NEW k, PoolStep(k) PROVE Remembered
  BY <1>1, <1>5 DEF PoolStep
<1>6. ASSUME NEW w, TakeEvent(w) PROVE Remembered
  BY <1>6 DEF TakeEvent, Remembered
<1>7. ASSUME NEW w, CopyTask(w) \/ Panic(w) \/ ApplyRate \/ ApplyConcurrency \/ ApplyThinkTime
      PROVE  Remembered
  <2>1. UNCHANGED historyVars
    BY <1>7, Zenon DEF CopyTask, Panic, ApplyRate, ApplyConcurrency, ApplyThinkTime
  <2> QED
    BY <1>1, <2>1
<1>8. ASSUME NEW w, ReadProfile(w) PROVE Remembered
  <2>1. (implicit => implicit') /\ missed' = missed /\ lost' = lost
    BY <1>8 DEF ReadProfile
  <2> QED
    BY <2>1 DEF Remembered
<1>9. ASSUME NEW w, StoreCopy(w) PROVE Remembered
  BY <1>9 DEF StoreCopy, Remembered
<1>10. ASSUME NEW w, Store(w) PROVE Remembered
  BY <1>9, <1>10 DEF Store
<1>11. ASSUME StoreThinkTime PROVE Remembered
  BY <1>9, <1>11 DEF StoreThinkTime
<1>12. ASSUME NEW w, Watch(w) PROVE Remembered
  BY <1>6, <1>7, <1>8, <1>10, <1>11, <1>12 DEF Watch
<1>13. ASSUME UNCHANGED vars PROVE Remembered
  BY <1>1, <1>13 DEF vars
<1> QED
  BY <1>2, <1>3, <1>4, <1>5, <1>12, <1>13 DEF Next, Main

LEMMA StrickersTyped ==
  ASSUME NEW q \in PoolState
  PROVE  Strickers(q) \in Nat /\ (q.pc # "spawn" => Strickers(q) = q.strickers)
BY DEF Strickers, PoolState

LEMMA ConsumersTyped ==
  ASSUME Typed, NEW k \in DOMAIN tasks
  PROVE  Consumers(k) \in Nat /\ profile[k] \in Object
<1>1. tasks[k] \in Settings
  BY DEF Typed, MainTyped
<1>2. tasks[k] \in Object
  BY <1>1, SettingsTyped
<1>3. k \in DOMAIN pool => pool[k] \in PoolState
  BY DEF Typed
<1>4. profile[k] \in Settings
  BY Domains DEF Typed, MainTyped
<1> QED
  BY <1>2, <1>3, <1>4, SettingsTyped, StrickersTyped DEF Consumers, Object

LEMMA PoolPut ==
  ASSUME Typed, NEW k \in DOMAIN pool, NEW p \in PoolState, pool' = [pool EXCEPT ![k] = p]
  PROVE  /\ pool[k] \in PoolState
         /\ DOMAIN pool' = DOMAIN pool /\ pool'[k] = p
         /\ \A j \in DOMAIN pool \ {k} : pool'[j] = pool[j]
<1>1. pool \in Seq(PoolState)
  BY DEF Typed
<1> QED
  BY <1>1, SeqPut

LEMMA ConsumersKept ==
  ASSUME Typed, UNCHANGED <<pool, tasks>>, NEW k
  PROVE  Consumers(k)' = Consumers(k)
BY DEF Consumers

\* A pool keeps its consumers.
NoFewer(j) ==
  Consumers(j) \in Nat /\ Consumers(j)' \in Nat /\ Consumers(j)' >= Consumers(j)

LEMMA ConsumersPut ==
  ASSUME Typed, NEW k \in DOMAIN pool, NEW p \in PoolState, pool' = [pool EXCEPT ![k] = p],
         UNCHANGED tasks, Strickers(p) >= Strickers(pool[k]),
         NEW j \in DOMAIN tasks
  PROVE  NoFewer(j)
<1>1. /\ DOMAIN pool' = DOMAIN pool /\ pool'[k] = p
      /\ \A i \in DOMAIN pool \ {k} : pool'[i] = pool[i]
  BY PoolPut
<1>2. CASE j = k
  <2>1. Strickers(p) \in Nat
    BY StrickersTyped
  <2> QED
    BY <1>1, <1>2, <2>1, ConsumersTyped DEF Consumers, NoFewer
<1>3. CASE j # k
  <2>1. Consumers(j)' = Consumers(j)
    BY <1>1, <1>3 DEF Consumers
  <2> QED
    BY <2>1, ConsumersTyped DEF NoFewer
<1> QED
  BY <1>2, <1>3

\* No step takes a consumer away.
LEMMA ConsumersGrow ==
  ASSUME Typed, [Next]_vars, NEW j \in DOMAIN tasks
  PROVE  NoFewer(j)
<1>1. Consumers(j) \in Nat
  BY ConsumersTyped
<1>2. ASSUME UNCHANGED <<pool, tasks>> PROVE NoFewer(j)
  BY <1>1, <1>2, ConsumersKept DEF NoFewer
<1>3. ASSUME Rewrite \/ Truncate \/ Write PROVE NoFewer(j)
  BY <1>2, <1>3, FileStepDoes
<1>4. ASSUME ReadConfig PROVE FALSE
  <2>1. mainPc = "config"
    BY <1>4 DEF ReadConfig, MainGoto
  <2> QED
    BY <2>1 DEF Typed, MainTyped, MainOK
<1>5. ASSUME StoreTask \/ Wait \/ Exit \/ LoadFails PROVE NoFewer(j)
  <2>1. UNCHANGED <<poolVars, tasks>>
    BY <1>5, Zenon DEF StoreTask, Wait, Exit, LoadFails
  <2> QED
    BY <1>2, <2>1
<1>6. ASSUME Launch PROVE NoFewer(j)
  <2>1. PICK p \in PoolState :
          /\ DOMAIN pool' = DOMAIN pool \cup {next} /\ next \notin DOMAIN pool
          /\ pool'[next] = p /\ \A k \in DOMAIN pool : pool'[k] = pool[k]
          /\ p.pc = "spawn" /\ p.strickers = 0 /\ p.concurrency >= tasks[next].concurrency
          /\ UNCHANGED tasks
    BY <1>6, LaunchDoes
  <2>2. CASE j = next
    <3>1. Strickers(p) = p.concurrency /\ Strickers(p) \in Nat
      BY <2>1 DEF Strickers, PoolState
    <3> QED
      BY <1>1, <2>1, <2>2, <3>1 DEF Consumers, NoFewer
  <2>3. CASE j # next
    <3>1. Consumers(j)' = Consumers(j)
      BY <2>1, <2>3 DEF Consumers
    <3> QED
      BY <1>1, <3>1 DEF NoFewer
  <2> QED
    BY <2>2, <2>3
<1>7. ASSUME NEW k \in DOMAIN pool, Triggered(k) PROVE NoFewer(j)
  <2>1. PICK p \in PoolState :
          /\ pool[k].pc = "trigger" /\ p.pc = "check" /\ pool' = [pool EXCEPT ![k] = p]
          /\ p.strickers = pool[k].strickers /\ UNCHANGED tasks
    BY <1>7, TriggeredDoes
  <2>2. PICK q \in PoolState : q = pool[k]
    BY <2>1, PoolPut
  <2>3. Strickers(p) >= Strickers(q)
    BY <2>1, <2>2, StrickersTyped
  <2> QED
    BY <2>1, <2>2, <2>3, ConsumersPut
<1>8. ASSUME NEW k \in DOMAIN pool, PoolStep(k) PROVE NoFewer(j)
  <2>1. /\ \E p \in PoolState : pool' = [pool EXCEPT ![k] = p] /\ PoolStepped(pool[k], p)
        /\ UNCHANGED othersThanPools
    BY <1>8, PoolStepDoes, GroupTyped DEF Typed
  <2>2. PICK p \in PoolState : pool' = [pool EXCEPT ![k] = p] /\ PoolStepped(pool[k], p)
    BY <2>1
  <2>3. Strickers(p) >= Strickers(pool[k])
    <3>1. PICK q \in PoolState : q = pool[k]
      BY <2>2, PoolPut
    <3>2. q.strickers \in Nat /\ q.concurrency \in Nat
      BY DEF PoolState
    <3>3. /\ p.concurrency = q.concurrency
          /\ p.pc = "spawn" => q.pc = "spawn" /\ p.strickers = q.strickers
          /\ p.pc # "spawn" => p.strickers = q.strickers + (IF q.pc = "spawn" THEN q.concurrency ELSE 0)
      BY <2>2, <3>1 DEF PoolStepped
    <3> QED
      BY <3>1, <3>2, <3>3 DEF Strickers
  <2> QED
    BY <2>1, <2>2, <2>3, ConsumersPut
<1>9. ASSUME NEW k \in DOMAIN pool, NEW p \in PoolState, pool' = [pool EXCEPT ![k] = p],
             Adjusted(pool[k], p), p.strickers >= pool[k].strickers, UNCHANGED tasks
      PROVE  NoFewer(j)
  <2>1. PICK q \in PoolState : q = pool[k]
    BY <1>9, PoolPut
  <2>2. q.strickers \in Nat /\ q.concurrency \in Nat /\ p.strickers \in Nat
    BY DEF PoolState
  <2>3. Strickers(p) >= Strickers(q)
    BY <1>9, <2>1, <2>2 DEF Strickers, Adjusted
  <2> QED
    BY <1>9, <2>1, <2>3, ConsumersPut
<1>10. ASSUME NEW w \in Watchers, Watch(w) PROVE NoFewer(j)
  <2>1. CASE TakeEvent(w) \/ CopyTask(w) \/ ReadProfile(w) \/ Panic(w)
    <3>1. UNCHANGED <<mainVars, poolVars>>
      BY <2>1, Zenon DEF TakeEvent, CopyTask, ReadProfile, Panic
    <3> QED
      BY <1>2, <3>1
  <2>2. CASE Store(w) \/ (w = "thinkTime" /\ StoreThinkTime)
    <3>1. UNCHANGED <<mainVars, poolVars>>
      BY <2>2, Zenon DEF Store, StoreThinkTime, StoreCopy
    <3> QED
      BY <1>2, <3>1
  <2>3. CASE w = "rate" /\ ApplyRate
    <3>1. PICK k \in DOMAIN pool, p \in PoolState :
            /\ pool' = [pool EXCEPT ![k] = p] /\ Adjusted(pool[k], p)
            /\ p.strickers = pool[k].strickers /\ UNCHANGED mainVars
      BY <2>3, ApplyRateDoes
    <3>2. p.strickers >= pool[k].strickers
      BY <3>1 DEF PoolState
    <3> QED
      BY <1>9, <3>1, <3>2
  <2>4. CASE w = "concurrency" /\ ApplyConcurrency
    <3>1. PICK k \in DOMAIN pool, p \in PoolState :
            /\ pool' = [pool EXCEPT ![k] = p] /\ Adjusted(pool[k], p)
            /\ p.strickers >= pool[k].strickers /\ UNCHANGED mainVars
      BY <2>4, ApplyConcurrencyDoes
    <3> QED
      BY <1>9, <3>1
  <2>5. CASE w = "thinkTime" /\ ApplyThinkTime
    <3>1. PICK k \in DOMAIN pool, p \in PoolState :
            /\ pool' = [pool EXCEPT ![k] = p] /\ Adjusted(pool[k], p)
            /\ p.strickers = pool[k].strickers /\ UNCHANGED mainVars
      BY <2>5, ApplyThinkTimeDoes
    <3>2. p.strickers >= pool[k].strickers
      BY <3>1 DEF PoolState
    <3> QED
      BY <1>9, <3>1, <3>2
  <2> QED
    BY <1>10, <2>1, <2>2, <2>3, <2>4, <2>5 DEF Watch
<1>11. UNCHANGED vars => UNCHANGED <<pool, tasks>>
  BY DEF vars
<1> QED
  BY <1>2, <1>3, <1>4, <1>5, <1>6, <1>7, <1>8, <1>10, <1>11 DEF Next, Main

\* As long as no consumer goes a watcher's state stays supplied.
LEMMA WellSuppliedKept ==
  ASSUME Typed, \A j \in DOMAIN tasks : NoFewer(j),
         NEW w, NEW r \in WatchState, WatcherOK(w, r), WellSupplied(w, r)
  PROVE  WellSupplied(w, r)'
<1>1. r.copy.concurrency \in Nat /\ r.new \in Nat
  BY DEF WatchState, Object
<1>2. r.pc \in {"read", "apply", "store"} => r.task \in DOMAIN tasks
  BY Domains DEF WatcherOK
<1>3. r.pc \in {"read", "apply", "store"} =>
        /\ Consumers(r.task) \in Nat /\ Consumers(r.task)' \in Nat
        /\ Consumers(r.task)' >= Consumers(r.task)
  BY <1>2 DEF NoFewer
<1>4. PICK c, d : c = Consumers(r.task) /\ d = Consumers(r.task)'
  OBVIOUS
<1>5. /\ r.pc \in {"read", "apply", "store"} => d >= r.copy.concurrency
      /\ w = "concurrency" /\ r.pc = "apply" => r.copy.concurrency # 0
      /\ w = "concurrency" /\ r.pc = "store" => d >= r.new
  BY <1>1, <1>3, <1>4 DEF WellSupplied
<1> QED
  BY <1>4, <1>5 DEF WellSupplied

LEMMA WatchersSupplied ==
  ASSUME Typed, Supplied, \A j \in DOMAIN tasks : NoFewer(j),
         NEW w \in Watchers, NEW r, watcher' = [watcher EXCEPT ![w] = r], WellSupplied(w, r)'
  PROVE  \A v \in Watchers' : WellSupplied(v, watcher[v])'
<1>1. Watchers' = Watchers /\ watcher'[w] = r
      /\ \A v \in Watchers \ {w} : watcher'[v] = watcher[v]
  BY DEF Watchers, Typed, WatchersTyped
<1>2. ASSUME NEW v \in Watchers PROVE WellSupplied(v, watcher[v])'
  <2>1. CASE v = w
    BY <1>1, <2>1
  <2>2. CASE v # w
    <3>1. PICK q \in WatchState : q = watcher[v] /\ WatcherOK(v, q)
      BY WatcherTyped DEF Typed
    <3>2. WellSupplied(v, q)
      BY <3>1 DEF Supplied
    <3>3. WellSupplied(v, q)'
      BY <3>1, <3>2, WellSuppliedKept
    <3>4. watcher'[v] = q
      BY <1>1, <2>2, <3>1
    <3> QED
      BY <3>3, <3>4
  <2> QED
    BY <2>1, <2>2
<1> QED
  BY <1>1, <1>2

LEMMA MapSupplied ==
  ASSUME Typed, Supplied, \A j \in DOMAIN tasks : NoFewer(j), UNCHANGED taskObjectMap
  PROVE  \A k \in DOMAIN taskObjectMap' : Consumers(k)' >= taskObjectMap'[k].concurrency
<1>1. ASSUME NEW k \in DOMAIN taskObjectMap PROVE Consumers(k)' >= taskObjectMap[k].concurrency
  <2>1. k \in DOMAIN tasks
    BY Domains
  <2>2. PICK c \in Nat, d \in Nat : c = Consumers(k) /\ d = Consumers(k)' /\ d >= c
    BY <2>1 DEF NoFewer
  <2>3. PICK n \in Nat : n = taskObjectMap[k].concurrency
    <3>1. PICK o \in Object : o = taskObjectMap[k]
      BY DEF Typed, MapTyped
    <3> QED
      BY <3>1 DEF Object
  <2>4. c >= n
    BY <2>2, <2>3 DEF Supplied
  <2> QED
    BY <2>2, <2>3, <2>4
<1> QED
  BY <1>1

LEMMA SuppliedKept ==
  ASSUME Typed, Supplied, \A j \in DOMAIN tasks : NoFewer(j), UNCHANGED <<taskObjectMap, watcher>>
  PROVE  Supplied'
<1>1. \A k \in DOMAIN taskObjectMap' : Consumers(k)' >= taskObjectMap'[k].concurrency
  BY MapSupplied
<1>2. ASSUME NEW v \in Watchers PROVE WellSupplied(v, watcher[v])'
  <2>1. PICK q \in WatchState : q = watcher[v] /\ WatcherOK(v, q)
    BY WatcherTyped DEF Typed
  <2>2. WellSupplied(v, q)
    BY <2>1 DEF Supplied
  <2>3. WellSupplied(v, q)'
    BY <2>1, <2>2, WellSuppliedKept
  <2> QED
    BY <2>1, <2>3
<1> QED
  BY <1>1, <1>2 DEF Supplied, Watchers

LEMMA SuppliedMoved ==
  ASSUME Typed, Supplied, \A j \in DOMAIN tasks : NoFewer(j), UNCHANGED taskObjectMap,
         NEW w \in Watchers, NEW r, watcher' = [watcher EXCEPT ![w] = r], WellSupplied(w, r)'
  PROVE  Supplied'
<1>1. \A k \in DOMAIN taskObjectMap' : Consumers(k)' >= taskObjectMap'[k].concurrency
  BY MapSupplied
<1>2. \A v \in Watchers' : WellSupplied(v, watcher[v])'
  BY WatchersSupplied
<1> QED
  BY <1>1, <1>2 DEF Supplied

\* A store writes a concurrency that its pool has the consumers for.
LEMMA SuppliedStored ==
  ASSUME Typed, Supplied, \A j \in DOMAIN tasks : NoFewer(j),
         NEW w \in Watchers, watcher[w].task \in DOMAIN pool, StoreCopy(w),
         watcher[w].pc = "store" \/ (w = "thinkTime" /\ watcher[w].pc = "apply"),
         NEW r, watcher' = [watcher EXCEPT ![w] = r], r.pc \notin {"read", "apply", "store"}
  PROVE  Supplied'
<1>1. PICK k \in DOMAIN pool, o \in Object :
        /\ k = watcher[w].task /\ k \in DOMAIN taskObjectMap
        /\ taskObjectMap' = [taskObjectMap EXCEPT ![k] = o]
        /\ o[w] = watcher[w].new /\ \A f \in Fields \ {w} : o[f] = watcher[w].copy[f]
  BY StoreCopyDoes
<1>2. PICK v \in WatchState : v = watcher[w] /\ w \in Fields
  BY WatcherTyped DEF Typed
<1>3. v.copy \in Object /\ v.new \in Nat
  BY DEF WatchState
<1>4. o.concurrency = o["concurrency"] /\ v.copy.concurrency = v.copy["concurrency"]
  BY <1>3, NamedFields
<1>5. o.concurrency = IF w = "concurrency" THEN v.new ELSE v.copy.concurrency
  BY <1>1, <1>2, <1>4 DEF Fields
<1>6. WellSupplied(w, v)
  BY <1>2 DEF Supplied
<1>7. Consumers(k) >= o.concurrency
  <2>1. CASE w = "concurrency"
    BY <1>1, <1>2, <1>5, <1>6, <2>1 DEF WellSupplied
  <2>2. CASE w # "concurrency"
    BY <1>1, <1>2, <1>5, <1>6, <2>2 DEF WellSupplied
  <2> QED
    BY <2>1, <2>2
<1>8. PICK m : m = taskObjectMap'
  OBVIOUS
<1>9. /\ DOMAIN m = DOMAIN taskObjectMap /\ m[k] = o
      /\ \A j \in DOMAIN taskObjectMap \ {k} : m[j] = taskObjectMap[j]
  <2>1. taskObjectMap \in Seq(Object)
    BY DEF Typed, MapTyped
  <2> QED
    BY <1>1, <1>8, <2>1, SeqPut
<1>10. ASSUME NEW j \in DOMAIN taskObjectMap PROVE Consumers(j)' >= m[j].concurrency
  <2>1. j \in DOMAIN tasks
    BY Domains
  <2>2. PICK c \in Nat, d \in Nat : c = Consumers(j) /\ d = Consumers(j)' /\ d >= c
    BY <2>1 DEF NoFewer
  <2>3. PICK a \in Object : a = m[j]
    <3>1. CASE j = k
      BY <1>9, <3>1
    <3>2. CASE j # k
      BY <1>9, <3>2 DEF Typed, MapTyped
    <3> QED
      BY <3>1, <3>2
  <2>4. c >= a.concurrency
    <3>1. CASE j = k
      BY <1>7, <1>9, <2>2, <2>3, <3>1
    <3>2. CASE j # k
      BY <1>9, <2>2, <2>3, <3>2 DEF Supplied
    <3> QED
      BY <3>1, <3>2
  <2>5. a.concurrency \in Nat
    BY DEF Object
  <2> QED
    BY <2>2, <2>3, <2>4, <2>5
<1>11. WellSupplied(w, r)'
  BY DEF WellSupplied
<1>12. \A u \in Watchers' : WellSupplied(u, watcher[u])'
  BY <1>11, WatchersSupplied
<1> QED
  BY <1>8, <1>9, <1>10, <1>12 DEF Supplied

\* The watcher of the concurrency makes up for what is missing.
LEMMA ConcurrencyApplied ==
  ASSUME Typed, Supplied, "concurrency" \in Watchers, ApplyConcurrency
  PROVE  \E k \in DOMAIN pool :
           k = watcher["concurrency"].task /\ Consumers(k)' >= watcher["concurrency"].new
<1>1. PICK k \in DOMAIN pool, p \in PoolState :
        /\ k = watcher["concurrency"].task /\ watcher["concurrency"].pc = "apply"
        /\ pool' = [pool EXCEPT ![k] = p] /\ Adjusted(pool[k], p)
        /\ watcher["concurrency"].new - GetConcurrency(watcher["concurrency"].copy)
             + pool[k].strickers <= p.strickers
  BY ApplyConcurrencyDoes
<1>2. PICK v \in WatchState : v = watcher["concurrency"] /\ WellSupplied("concurrency", v)
  BY WatcherTyped DEF Typed, Supplied
<1>3. PICK q \in PoolState : q = pool[k] /\ DOMAIN pool' = DOMAIN pool /\ pool'[k] = p
  BY <1>1, PoolPut
<1>4. v.copy \in Object /\ v.new \in Nat
  BY DEF WatchState
<1>5. PICK c \in Nat, n \in Nat, g \in Nat :
        c = v.copy.concurrency /\ n = v.new /\ g = GetConcurrency(v.copy) /\ (c # 0 => g = c)
  <2>1. v.copy.concurrency \in Nat
    BY <1>4 DEF Object
  <2>2. /\ GetConcurrency(v.copy) \in Nat
        /\ v.copy.concurrency # 0 => GetConcurrency(v.copy) = v.copy.concurrency
    BY <1>4, ConcurrencyTyped
  <2> QED
    BY <1>4, <2>1, <2>2, Zenon
<1>6. c # 0 /\ Consumers(k) >= c
  BY <1>1, <1>2, <1>5 DEF WellSupplied
<1>7. Consumers(k) = Strickers(q) /\ Consumers(k)' = Strickers(p)
  BY <1>3 DEF Consumers
<1>8. PICK a \in Nat, b \in Nat, d \in Nat : a = q.strickers /\ b = p.strickers /\ d = q.concurrency
  BY DEF PoolState
<1>9. p.pc = q.pc /\ p.concurrency = d
  BY <1>1, <1>3, <1>8 DEF Adjusted
<1>10. n - g + a <= b
  BY <1>1, <1>2, <1>3, <1>5, <1>8
<1>11. PICK e \in Nat : e = IF q.pc = "spawn" THEN d ELSE 0
  OBVIOUS
<1>12. Strickers(q) = a + e /\ Strickers(p) = b + e
  BY <1>8, <1>9, <1>11 DEF Strickers
<1>13. a + e >= c
  BY <1>6, <1>7, <1>12
<1>14. b + e >= n
  BY <1>5, <1>6, <1>10, <1>13
<1> QED
  BY <1>1, <1>2, <1>5, <1>7, <1>12, <1>14

LEMMA SuppliedNext ==
  ASSUME Typed, Supplied, ~implicit', [Next]_vars
  PROVE  Supplied'
<1>1. \A j \in DOMAIN tasks : NoFewer(j)
  BY ConsumersGrow
<1>2. ASSUME UNCHANGED <<taskObjectMap, watcher>> PROVE Supplied'
  BY <1>1, <1>2, SuppliedKept
<1>3. ASSUME Rewrite \/ Truncate \/ Write PROVE Supplied'
  BY <1>2, <1>3, FileStepDoes
<1>4. ASSUME ReadConfig \/ Wait \/ Exit \/ LoadFails \/ Launch PROVE Supplied'
  <2>1. UNCHANGED <<taskObjectMap, watchVars>>
    BY <1>4, Zenon DEF ReadConfig, Wait, Exit, LoadFails, Launch
  <2> QED
    BY <1>2, <2>1
<1>5. ASSUME NEW k \in DOMAIN pool, Triggered(k) \/ PoolStep(k) PROVE Supplied'
  <2>1. UNCHANGED <<taskObjectMap, watchVars>>
    BY <1>5, Zenon DEF Triggered, PoolStep
  <2> QED
    BY <1>2, <2>1
<1>6. ASSUME StoreTask PROVE Supplied'
  <2>1. /\ next \in DOMAIN tasks /\ DOMAIN taskObjectMap' = DOMAIN taskObjectMap \cup {next}
        /\ next \notin DOMAIN taskObjectMap /\ taskObjectMap'[next] = tasks[next]
        /\ \A k \in DOMAIN taskObjectMap : taskObjectMap'[k] = taskObjectMap[k]
        /\ Watchers' = Watchers /\ watcher' \in [Watchers -> WatchState]
        /\ UNCHANGED <<pool, tasks>>
    BY <1>6, StoreTaskDoes
  <2>2. \A k : Consumers(k)' = Consumers(k)
    BY <2>1, ConsumersKept
  <2>3. ASSUME NEW k \in DOMAIN taskObjectMap' PROVE Consumers(k)' >= taskObjectMap'[k].concurrency
    <3>1. CASE k = next
      <4>1. Consumers(next) = tasks[next].concurrency
        BY <2>1, Domains DEF Consumers
      <4>2. Consumers(next) \in Nat
        BY <2>1, ConsumersTyped
      <4> QED
        BY <2>1, <2>2, <3>1, <4>1, <4>2
    <3>2. CASE k # next
      BY <2>1, <2>2, <3>2 DEF Supplied
    <3> QED
      BY <3>1, <3>2
  <2>4. ASSUME NEW w \in Watchers PROVE WellSupplied(w, watcher[w])'
    <3>1. PICK q \in WatchState, r \in WatchState : q = watcher[w] /\ r = watcher'[w]
      BY <2>1, WatcherTyped DEF Typed
    <3>2. Moved(q, [r EXCEPT !.todo = q.todo], q.pc)
      BY <1>6, <3>1, StoreTaskDoes
    <3>3. r.pc = q.pc /\ r.task = q.task /\ r.copy = q.copy /\ r.new = q.new
      BY <3>2 DEF Moved, WatchState
    <3>4. WellSupplied(w, q)
      BY <3>1 DEF Supplied
    <3>5. WellSupplied(w, r)'
      BY <2>2, <3>3, <3>4 DEF WellSupplied
    <3> QED
      BY <3>1, <3>5
  <2> QED
    BY <2>1, <2>3, <2>4 DEF Supplied
<1>7. ASSUME NEW w \in Watchers, TakeEvent(w) PROVE Supplied'
  <2>1. PICK r \in WatchState :
          /\ r.pc \in {"wait", "next"} /\ watcher' = [watcher EXCEPT ![w] = r]
          /\ UNCHANGED taskObjectMap
    BY <1>7, TakeEventDoes
  <2>2. WellSupplied(w, r)'
    BY <2>1 DEF WellSupplied
  <2> QED
    BY <1>1, <2>1, <2>2, SuppliedMoved
<1>8. ASSUME NEW w \in Watchers, CopyTask(w) PROVE Supplied'
  <2>1. PICK k \in watcher[w].todo, r \in WatchState :
          /\ k \in DOMAIN taskObjectMap /\ WatcherOK(w, r)
          /\ r.pc = "read" /\ r.task = k /\ r.copy = taskObjectMap[k]
          /\ watcher' = [watcher EXCEPT ![w] = r] /\ UNCHANGED taskObjectMap
    BY <1>8, CopyTaskDoes
  <2>2. WellSupplied(w, r)
    BY <2>1 DEF WellSupplied, Supplied
  <2>3. WellSupplied(w, r)'
    BY <1>1, <2>1, <2>2, WellSuppliedKept
  <2> QED
    BY <1>1, <2>1, <2>3, SuppliedMoved
<1>9. ASSUME NEW w \in Watchers, ReadProfile(w) PROVE Supplied'
  <2>1. PICK n \in Nat, r \in WatchState :
          /\ WatcherOK(w, r) /\ watcher[w].pc = "read"
          /\ \/ r.pc \in {"wait", "next"}
             \/ r.pc = "apply" /\ r.task = watcher[w].task /\ r.copy = watcher[w].copy
          /\ watcher' = [watcher EXCEPT ![w] = r]
          /\ implicit' = (implicit \/ (w = "concurrency" /\ 0 \in {n, watcher[w].copy.concurrency}))
          /\ UNCHANGED taskObjectMap
    BY <1>9, ReadProfileDoes
  <2>2. WellSupplied(w, watcher[w])
    BY DEF Supplied
  <2>3. w = "concurrency" => watcher[w].copy.concurrency # 0
    BY <2>1
  <2>4. WellSupplied(w, r)
    <3>1. CASE r.pc \in {"wait", "next"}
      BY <3>1 DEF WellSupplied
    <3>2. CASE r.pc = "apply" /\ r.task = watcher[w].task /\ r.copy = watcher[w].copy
      BY <2>1, <2>2, <2>3, <3>2 DEF WellSupplied
    <3> QED
      BY <2>1, <3>1, <3>2
  <2>5. WellSupplied(w, r)'
    BY <1>1, <2>1, <2>4, WellSuppliedKept
  <2> QED
    BY <1>1, <2>1, <2>5, SuppliedMoved
<1>10. ASSUME NEW w \in Watchers, Panic(w) PROVE Supplied'
  <2>1. UNCHANGED <<taskObjectMap, watchVars>>
    BY <1>10 DEF Panic
  <2> QED
    BY <1>2, <2>1
<1>11. ASSUME NEW w \in Watchers, Store(w) PROVE Supplied'
  <2>1. PICK r \in WatchState : r.pc \in {"wait", "next"} /\ watcher' = [watcher EXCEPT ![w] = r]
    BY <1>11, StoreDoes
  <2>2. watcher[w].pc = "store" /\ watcher[w].task \in DOMAIN pool /\ StoreCopy(w)
    BY <1>11, StoreDoes
  <2>3. r.pc \notin {"read", "apply", "store"}
    BY <2>1
  <2> QED
    BY <1>1, <2>1, <2>2, <2>3, SuppliedStored
<1>12. ASSUME "thinkTime" \in Watchers, StoreThinkTime PROVE Supplied'
  <2>1. PICK r \in WatchState :
          /\ Moved(watcher["thinkTime"], r, "adjust") /\ watcher' = [watcher EXCEPT !["thinkTime"] = r]
    BY <1>12, StoreThinkTimeDoes
  <2>2. /\ watcher["thinkTime"].pc = "apply" /\ watcher["thinkTime"].task \in DOMAIN pool
        /\ StoreCopy("thinkTime")
    BY <1>12, StoreThinkTimeDoes
  <2>3. r.pc \notin {"read", "apply", "store"}
    BY <2>1 DEF Moved
  <2> QED
    BY <1>1, <1>12, <2>1, <2>2, <2>3, SuppliedStored
<1>13. ASSUME "rate" \in Watchers, ApplyRate PROVE Supplied'
  <2>1. PICK r \in WatchState :
          /\ watcher["rate"].pc = "apply" /\ WatcherOK("rate", r)
          /\ Moved(watcher["rate"], r, "store")
          /\ watcher' = [watcher EXCEPT !["rate"] = r] /\ UNCHANGED taskObjectMap
    BY <1>13, ApplyRateDoes
  <2>2. WellSupplied("rate", watcher["rate"])
    BY <1>13 DEF Supplied
  <2>3. WellSupplied("rate", r)
    BY <2>1, <2>2 DEF WellSupplied, Moved
  <2>4. WellSupplied("rate", r)'
    BY <1>1, <2>1, <2>3, WellSuppliedKept
  <2> QED
    BY <1>1, <1>13, <2>1, <2>4, SuppliedMoved
<1>14. ASSUME "concurrency" \in Watchers, ApplyConcurrency PROVE Supplied'
  <2>1. PICK r \in WatchState :
          /\ watcher["concurrency"].pc = "apply" /\ WatcherOK("concurrency", r)
          /\ \/ r.pc \in {"wait", "next"}
             \/ Moved(watcher["concurrency"], r, "store")
             \/ Moved(watcher["concurrency"], r, "stuck")
          /\ watcher' = [watcher EXCEPT !["concurrency"] = r] /\ UNCHANGED taskObjectMap
    BY <1>14, ApplyConcurrencyDoes
  <2>2. PICK v \in WatchState : v = watcher["concurrency"]
    BY <1>14, WatcherTyped DEF Typed
  <2>3. WellSupplied("concurrency", v) /\ v.task \in DOMAIN tasks
    <3>1. WatcherOK("concurrency", v)
      BY <1>14, <2>2, WatcherTyped DEF Typed
    <3> QED
      BY <1>14, <2>1, <2>2, <3>1, Domains DEF Supplied, WatcherOK
  <2>4. Consumers(v.task)' >= v.new /\ Consumers(v.task)' >= v.copy.concurrency
    <3>1. v.copy.concurrency \in Nat
      BY DEF WatchState, Object
    <3>2. Consumers(v.task) >= v.copy.concurrency
      BY <2>1, <2>2, <2>3 DEF WellSupplied
    <3>3. Consumers(v.task)' >= v.new
      BY <1>14, <2>2, ConcurrencyApplied
    <3> QED
      BY <1>1, <2>3, <3>1, <3>2, <3>3 DEF NoFewer
  <2>5. WellSupplied("concurrency", r)'
    BY <2>1, <2>2, <2>4 DEF WellSupplied, Moved
  <2> QED
    BY <1>1, <1>14, <2>1, <2>5, SuppliedMoved
<1>15. ASSUME "thinkTime" \in Watchers, ApplyThinkTime PROVE Supplied'
  <2>1. PICK r \in WatchState :
          /\ r.pc \in {"wait", "next"} /\ watcher' = [watcher EXCEPT !["thinkTime"] = r]
          /\ UNCHANGED taskObjectMap
    BY <1>15, ApplyThinkTimeDoes
  <2>2. WellSupplied("thinkTime", r)'
    BY <2>1 DEF WellSupplied
  <2> QED
    BY <1>1, <1>15, <2>1, <2>2, SuppliedMoved
<1>16. ASSUME NEW w \in Watchers, Watch(w) PROVE Supplied'
  BY <1>7, <1>8, <1>9, <1>10, <1>11, <1>12, <1>13, <1>14, <1>15, <1>16 DEF Watch
<1>17. ASSUME UNCHANGED vars PROVE Supplied'
  BY <1>2, <1>17 DEF vars
<1> QED
  BY <1>3, <1>4, <1>5, <1>6, <1>16, <1>17 DEF Next, Main

\* What is enough stays enough while nobody edits the profile and the watcher
\* of the concurrency stays where it is, even when it has more to look at.
LEMMA EnoughKept ==
  ASSUME Typed, NEW k \in DOMAIN tasks, Enough(k), NoFewer(k), "concurrency" \in Watchers,
         NEW q \in WatchState, NEW r \in WatchState,
         q = watcher["concurrency"], r = watcher'["concurrency"], "concurrency" \in Watchers',
         r.pc = q.pc, r.task = q.task, r.new = q.new, q.todo \subseteq r.todo,
         UNCHANGED <<profile, truncated>>, pending'["concurrency"] = pending["concurrency"]
  PROVE  Enough(k)'
<1>1. CASE Noticed("concurrency", k)
  <2>1. Noticed("concurrency", k)'
    BY <1>1 DEF Noticed, At
  <2> QED
    BY <2>1 DEF Enough
<1>2. CASE At("concurrency", k, {"apply"}) /\ watcher["concurrency"].new = profile[k].concurrency
  BY <1>2 DEF Enough, At
<1>3. CASE Consumers(k) >= profile[k].concurrency
  <2>1. profile[k].concurrency \in Nat
    BY ConsumersTyped DEF Object
  <2>2. Consumers(k)' >= profile'[k].concurrency
    BY <1>3, <2>1 DEF NoFewer
  <2> QED
    BY <2>2 DEF Enough
<1> QED
  BY <1>1, <1>2, <1>3 DEF Enough

LEMMA EnoughNext ==
  ASSUME Typed, Supplied, "concurrency" \in Watchers, ~missed', [Next]_vars,
         \A k \in DOMAIN tasks : Enough(k)
  PROVE  \A k \in DOMAIN tasks' : Enough(k)'
<1> DEFINE Kept == \A k \in DOMAIN tasks' : Enough(k)'
<1>1. \A j \in DOMAIN tasks : NoFewer(j)
  BY ConsumersGrow
<1>2. PICK q \in WatchState : q = watcher["concurrency"] /\ WatcherOK("concurrency", q)
  BY WatcherTyped DEF Typed
<1>3. ASSUME UNCHANGED <<profile, truncated, tasks>>, Watchers' = Watchers,
             UNCHANGED <<pending["concurrency"], watcher["concurrency"]>>
      PROVE  Kept
  <2>1. ASSUME NEW k \in DOMAIN tasks PROVE Enough(k)'
    BY <1>1, <1>2, <1>3, EnoughKept
  <2> QED
    BY <1>3, <2>1
<1>4. ASSUME UNCHANGED <<profile, truncated, tasks, pending, watcher>> PROVE Kept
  BY <1>3, <1>4 DEF Watchers
<1>5. ASSUME NEW w \in Watchers, w # "concurrency", NEW r, watcher' = [watcher EXCEPT ![w] = r],
             UNCHANGED <<profile, truncated, tasks, pending["concurrency"]>>
      PROVE  Kept
  <2>1. Watchers' = Watchers /\ UNCHANGED watcher["concurrency"]
    BY <1>5 DEF Watchers
  <2> QED
    BY <1>3, <1>5, <2>1
<1>6. ASSUME Rewrite \/ Truncate \/ Write PROVE Kept
  <2>1. pending'["concurrency"] > 0 /\ UNCHANGED tasks
    BY <1>6, FileStepDoes
  <2>2. \A k : Noticed("concurrency", k)'
    BY <2>1 DEF Noticed
  <2> QED
    BY <2>2 DEF Enough
<1>7. ASSUME ReadConfig PROVE Kept
  <2>1. /\ mainPc = "config" /\ (tasks' = profile \/ UNCHANGED tasks)
        /\ UNCHANGED <<profile, pool>>
    BY <1>7 DEF ReadConfig, MainGoto
  <2>2. tasks = <<>> /\ DOMAIN pool = {}
    <3>1. tasks = <<>>
      BY <2>1 DEF Typed, MainTyped, MainOK
    <3> QED
      BY <3>1, Domains
  <2>3. CASE UNCHANGED tasks
    BY <2>2, <2>3
  <2>4. CASE tasks' = profile
    <3>1. ASSUME NEW k \in DOMAIN profile PROVE Enough(k)'
      <4>1. profile[k] \in Settings
        BY DEF Typed, MainTyped
      <4>2. profile[k].concurrency \in Nat
        BY <4>1, SettingsTyped DEF Object
      <4>3. Consumers(k)' = profile[k].concurrency
        BY <2>1, <2>2, <2>4 DEF Consumers
      <4>4. Consumers(k)' >= profile'[k].concurrency
        BY <2>1, <4>2, <4>3
      <4> QED
        BY <4>4 DEF Enough
    <3> QED
      BY <2>4, <3>1
  <2> QED
    BY <2>1, <2>3, <2>4
<1>8. ASSUME StoreTask PROVE Kept
  <2>1. /\ Watchers' = Watchers /\ watcher' \in [Watchers -> WatchState]
        /\ UNCHANGED <<profile, truncated, tasks, pending>>
    BY <1>8, StoreTaskDoes
  <2>2. PICK r \in WatchState : r = watcher'["concurrency"]
    BY <2>1
  <2>3. /\ Moved(q, [r EXCEPT !.todo = q.todo], q.pc)
        /\ r.todo \in {q.todo, q.todo \cup {next}}
    BY <1>2, <1>8, <2>2, StoreTaskDoes
  <2>4. r.pc = q.pc /\ r.task = q.task /\ r.new = q.new /\ q.todo \subseteq r.todo
    BY <2>3 DEF Moved, WatchState
  <2>5. ASSUME NEW k \in DOMAIN tasks PROVE Enough(k)'
    BY <1>1, <1>2, <2>1, <2>2, <2>4, EnoughKept
  <2> QED
    BY <2>1, <2>5
<1>9. ASSUME Wait \/ Exit \/ LoadFails \/ Launch PROVE Kept
  <2>1. UNCHANGED <<fileVars, tasks, watchVars>>
    BY <1>9, Zenon DEF Wait, Exit, LoadFails, Launch
  <2> QED
    BY <1>4, <2>1
<1>10. ASSUME NEW k \in DOMAIN pool, Triggered(k) \/ PoolStep(k) PROVE Kept
  <2>1. UNCHANGED <<fileVars, tasks, watchVars>>
    BY <1>10, Zenon DEF Triggered, PoolStep
  <2> QED
    BY <1>4, <2>1
<1>11. ASSUME NEW w \in Watchers, TakeEvent(w) PROVE Kept
  <2>1. PICK r \in WatchState :
          /\ q.pc = "wait" \/ w # "concurrency"
          /\ r.todo = DOMAIN taskObjectMap /\ watcher' = [watcher EXCEPT ![w] = r]
          /\ \A v \in Watchers \ {w} : pending'[v] = pending[v]
          /\ missed' = (missed \/ (mainPc # "config" /\ Len(taskObjectMap) < Len(tasks)))
          /\ UNCHANGED <<fileVars, mainVars>>
    BY <1>2, <1>11, TakeEventDoes
  <2>2. CASE w # "concurrency"
    BY <1>5, <2>1, <2>2
  <2>3. CASE w = "concurrency"
    <3>1. mainPc = "config" \/ Len(taskObjectMap) >= Len(tasks)
      <4>1. ~(mainPc # "config" /\ Len(taskObjectMap) < Len(tasks))
        BY <2>1, Zenon
      <4>2. Len(taskObjectMap) \in Nat /\ Len(tasks) \in Nat
        BY Domains
      <4> QED
        BY <4>1, <4>2
    <3>2. CASE mainPc = "config"
      <4>1. DOMAIN tasks = {}
        BY <3>2 DEF Typed, MainTyped, MainOK
      <4> QED
        BY <2>1, <4>1
    <3>3. CASE Len(taskObjectMap) >= Len(tasks)
      <4>1. DOMAIN tasks \subseteq DOMAIN taskObjectMap
        BY <3>3, Domains
      <4>2. watcher'["concurrency"] = r
        BY <2>1, <2>3 DEF Watchers
      <4>3. \A k \in DOMAIN tasks : Noticed("concurrency", k)'
        BY <2>1, <4>1, <4>2 DEF Noticed
      <4> QED
        BY <2>1, <4>3 DEF Enough
    <3> QED
      BY <3>1, <3>2, <3>3
  <2> QED
    BY <2>2, <2>3
<1>12. ASSUME NEW w \in Watchers, CopyTask(w) PROVE Kept
  <2>1. PICK k \in watcher[w].todo, r \in WatchState :
           /\ watcher[w].pc = "next" /\ r.pc = "read" /\ r.task = k
           /\ r.todo = watcher[w].todo \ {k} /\ watcher' = [watcher EXCEPT ![w] = r]
           /\ UNCHANGED <<fileVars, mainVars, poolVars, pending>>
    BY <1>12, CopyTaskDoes
  <2>2. CASE w # "concurrency"
    BY <1>5, <2>1, <2>2
  <2>3. CASE w = "concurrency"
    <3>1. watcher'["concurrency"] = r /\ "concurrency" \in Watchers'
      BY <2>1, <2>3 DEF Watchers
    <3>2. ASSUME NEW j \in DOMAIN tasks PROVE Enough(j)'
      <4>1. CASE Noticed("concurrency", j)
        <5>1. pending["concurrency"] > 0 \/ truncated \/ j \in q.todo
          BY <1>2, <2>1, <2>3, <4>1 DEF Noticed, At
        <5>2. Noticed("concurrency", j)'
          <6>1. CASE j = k
            BY <2>1, <3>1, <6>1 DEF Noticed, At
          <6>2. CASE j # k
            BY <1>2, <2>1, <2>3, <3>1, <5>1, <6>2 DEF Noticed
          <6> QED
            BY <6>1, <6>2
        <5> QED
          BY <5>2 DEF Enough
      <4>2. CASE ~Noticed("concurrency", j)
        <5>1. Consumers(j) >= profile[j].concurrency
          BY <2>1, <2>3, <4>2 DEF Enough, At
        <5>2. Consumers(j)' = Consumers(j)
          BY <2>1, ConsumersKept
        <5> QED
          BY <2>1, <5>1, <5>2 DEF Enough
      <4> QED
        BY <4>1, <4>2
    <3> QED
      BY <2>1, <3>2
  <2> QED
    BY <2>2, <2>3
<1>13. ASSUME NEW w \in Watchers, ReadProfile(w) PROVE Kept
  <2>1. PICK n \in Nat, r \in WatchState :
           /\ n = Contents(watcher[w].task)[w] /\ watcher[w].pc = "read"
           /\ r.todo = watcher[w].todo
           /\ \/ w = "rate"
              \/ r.pc = "apply" /\ r.task = watcher[w].task /\ r.new = n
           /\ watcher' = [watcher EXCEPT ![w] = r]
           /\ UNCHANGED <<fileVars, mainVars, poolVars, pending>>
    BY <1>13, ReadProfileDoes
  <2>2. CASE w # "concurrency"
    BY <1>5, <2>1, <2>2
  <2>3. CASE w = "concurrency"
    <3>1. /\ watcher'["concurrency"] = r /\ "concurrency" \in Watchers'
          /\ r.pc = "apply" /\ r.task = q.task /\ r.new = n /\ r.todo = q.todo /\ q.pc = "read"
      BY <1>2, <2>1, <2>3 DEF Watchers
    <3>2. ASSUME NEW j \in DOMAIN tasks PROVE Enough(j)'
      <4>1. CASE truncated \/ pending["concurrency"] > 0 \/ j \in q.todo
        <5>1. Noticed("concurrency", j)'
          BY <2>1, <3>1, <4>1 DEF Noticed
        <5> QED
          BY <5>1 DEF Enough
      <4>2. CASE ~truncated /\ j = q.task
        <5>1. Contents(q.task) = profile[j]
          BY <4>2 DEF Contents
        <5>2. profile[j] \in Object
          BY ConsumersTyped
        <5>3. n = profile[j].concurrency
          BY <1>2, <2>1, <2>3, <5>1, <5>2, NamedFields
        <5>4. watcher'["concurrency"].new = profile'[j].concurrency
          BY <2>1, <3>1, <5>3
        <5>5. At("concurrency", j, {"apply"})'
          BY <3>1, <4>2 DEF At
        <5> QED
          BY <5>4, <5>5 DEF Enough
      <4>3. CASE ~(truncated \/ pending["concurrency"] > 0 \/ j \in q.todo) /\ j # q.task
        <5>1. Consumers(j) >= profile[j].concurrency
          BY <1>2, <3>1, <4>3 DEF Enough, Noticed, At
        <5>2. Consumers(j)' = Consumers(j)
          BY <2>1, ConsumersKept
        <5> QED
          BY <2>1, <5>1, <5>2 DEF Enough
      <4> QED
        BY <4>1, <4>2, <4>3
    <3> QED
      BY <2>1, <3>2
  <2> QED
    BY <2>2, <2>3
<1>14. ASSUME NEW w \in Watchers, Panic(w) PROVE Kept
  <2>1. UNCHANGED <<fileVars, mainVars, watchVars>>
    BY <1>14 DEF Panic
  <2> QED
    BY <1>4, <2>1
\* The watcher of the concurrency is done with a task whose consumers suffice.
<1>15. ASSUME NEW r \in WatchState, watcher' = [watcher EXCEPT !["concurrency"] = r],
              r.todo = q.todo, q.pc \in {"apply", "store"},
              q.pc = "apply" => Consumers(q.task)' >= q.new,
              UNCHANGED <<profile, truncated, tasks, pending>>
       PROVE  Kept
  <2>1. watcher'["concurrency"] = r /\ "concurrency" \in Watchers'
    BY <1>15 DEF Watchers
  <2>2. ASSUME NEW j \in DOMAIN tasks PROVE Enough(j)'
    <3>1. CASE Noticed("concurrency", j)
      <4>1. pending["concurrency"] > 0 \/ truncated \/ j \in q.todo
        BY <1>2, <1>15, <3>1 DEF Noticed, At
      <4>2. Noticed("concurrency", j)'
        BY <1>15, <2>1, <4>1 DEF Noticed
      <4> QED
        BY <4>2 DEF Enough
    <3>2. CASE At("concurrency", j, {"apply"}) /\ watcher["concurrency"].new = profile[j].concurrency
      <4>1. Consumers(j)' >= profile'[j].concurrency
        BY <1>2, <1>15, <3>2 DEF At
      <4> QED
        BY <4>1 DEF Enough
    <3>3. CASE Consumers(j) >= profile[j].concurrency
      <4>1. profile[j].concurrency \in Nat
        BY ConsumersTyped DEF Object
      <4>2. Consumers(j)' >= profile'[j].concurrency
        BY <1>1, <1>15, <3>3, <4>1 DEF NoFewer
      <4> QED
        BY <4>2 DEF Enough
    <3> QED
      BY <3>1, <3>2, <3>3 DEF Enough
  <2> QED
    BY <1>15, <2>2
<1>16. ASSUME NEW w \in Watchers, Store(w) PROVE Kept
  <2>1. PICK r \in WatchState : r.todo = watcher[w].todo /\ watcher' = [watcher EXCEPT ![w] = r]
    BY <1>16, StoreDoes
  <2>2. UNCHANGED <<profile, truncated, tasks, pending>> /\ watcher[w].pc = "store"
    BY <1>16 DEF Store, StoreCopy
  <2>3. CASE w # "concurrency"
    BY <1>5, <2>1, <2>2, <2>3
  <2>4. CASE w = "concurrency"
    BY <1>2, <1>15, <2>1, <2>2, <2>4
  <2> QED
    BY <2>3, <2>4
<1>17. ASSUME "thinkTime" \in Watchers, StoreThinkTime PROVE Kept
  <2>1. PICK r \in WatchState : watcher' = [watcher EXCEPT !["thinkTime"] = r]
    BY <1>17, StoreThinkTimeDoes
  <2>2. UNCHANGED <<profile, truncated, tasks, pending>>
    BY <1>17 DEF StoreThinkTime, StoreCopy
  <2> QED
    BY <1>5, <1>17, <2>1, <2>2
<1>18. ASSUME "rate" \in Watchers, ApplyRate PROVE Kept
  <2>1. PICK r \in WatchState :
          watcher' = [watcher EXCEPT !["rate"] = r] /\ UNCHANGED <<fileVars, mainVars, pending>>
    BY <1>18, ApplyRateDoes
  <2> QED
    BY <1>5, <1>18, <2>1
<1>19. ASSUME "thinkTime" \in Watchers, ApplyThinkTime PROVE Kept
  <2>1. PICK r \in WatchState :
          watcher' = [watcher EXCEPT !["thinkTime"] = r] /\ UNCHANGED <<fileVars, mainVars, pending>>
    BY <1>19, ApplyThinkTimeDoes
  <2> QED
    BY <1>5, <1>19, <2>1
<1>20. ASSUME ApplyConcurrency PROVE Kept
  <2>1. PICK r \in WatchState :
          /\ q.pc = "apply" /\ r.todo = q.todo
          /\ watcher' = [watcher EXCEPT !["concurrency"] = r]
          /\ UNCHANGED <<fileVars, mainVars, pending>>
    BY <1>2, <1>20, ApplyConcurrencyDoes
  <2>2. PICK k \in DOMAIN pool : k = q.task /\ Consumers(k)' >= q.new
    BY <1>2, <1>20, ConcurrencyApplied
  <2> QED
    BY <1>15, <2>1, <2>2
<1>21. ASSUME NEW w \in Watchers, Watch(w) PROVE Kept
  BY <1>11, <1>12, <1>13, <1>14, <1>16, <1>17, <1>18, <1>19, <1>20, <1>21 DEF Watch
<1>22. ASSUME UNCHANGED vars PROVE Kept
  BY <1>4, <1>22 DEF vars
<1> QED
  BY <1>6, <1>7, <1>8, <1>9, <1>10, <1>21, <1>22 DEF Next, Main

\* The watchers stay the same.
LEMMA WatchersSame ==
  ASSUME Typed, [Next]_vars
  PROVE  Watchers' = Watchers
<1>1. ASSUME UNCHANGED watcher PROVE Watchers' = Watchers
  BY <1>1 DEF Watchers
<1>2. ASSUME NEW w, NEW r, watcher' = [watcher EXCEPT ![w] = r] PROVE Watchers' = Watchers
  BY <1>2 DEF Watchers
<1>3. ASSUME Rewrite \/ Truncate \/ Write PROVE Watchers' = Watchers
  BY <1>1, <1>3, FileStepDoes
<1>4. ASSUME ReadConfig \/ Wait \/ Exit \/ LoadFails \/ Launch PROVE Watchers' = Watchers
  <2>1. UNCHANGED watchVars
    BY <1>4, Zenon DEF ReadConfig, Wait, Exit, LoadFails, Launch
  <2> QED
    BY <1>1, <2>1
<1>5. ASSUME NEW k \in DOMAIN pool, Triggered(k) \/ PoolStep(k) PROVE Watchers' = Watchers
  <2>1. UNCHANGED watchVars
    BY <1>5, Zenon DEF Triggered, PoolStep
  <2> QED
    BY <1>1, <2>1
<1>6. ASSUME StoreTask PROVE Watchers' = Watchers
  BY <1>6, StoreTaskDoes
<1>7. ASSUME NEW w \in Watchers, Watch(w) PROVE Watchers' = Watchers
  <2>1. CASE TakeEvent(w)
    BY <1>2, <2>1 DEF TakeEvent
  <2>2. CASE CopyTask(w)
    BY <1>2, <2>2, CopyTaskDoes
  <2>3. CASE ReadProfile(w)
    BY <1>2, <2>3, ReadProfileDoes
  <2>4. CASE Panic(w)
    BY <1>1, <2>4 DEF Panic
  <2>5. CASE Store(w)
    BY <1>2, <2>5, StoreDoes
  <2>6. CASE w = "rate" /\ ApplyRate
    BY <1>2, <2>6, ApplyRateDoes
  <2>7. CASE w = "concurrency" /\ ApplyConcurrency
    BY <1>2, <2>7, ApplyConcurrencyDoes
  <2>8. CASE w = "thinkTime" /\ StoreThinkTime
    BY <1>2, <2>8, StoreThinkTimeDoes
  <2>9. CASE w = "thinkTime" /\ ApplyThinkTime
    BY <1>2, <2>9, ApplyThinkTimeDoes
  <2> QED
    BY <1>7, <2>1, <2>2, <2>3, <2>4, <2>5, <2>6, <2>7, <2>8, <2>9 DEF Watch
<1> QED
  BY <1>1, <1>3, <1>4, <1>5, <1>6, <1>7 DEF Next, Main, vars

\* A pool has the consumers its profile asks for (ConcurrencyUpdateExecutor
\* of main.go adds them), even when stores are lost, as long as the profile and
\* the task always named a concurrency.
THEOREM EnoughStrickersCorrect == Spec => []EnoughStrickers
<1>1. Init => Provided
  <2> SUFFICES ASSUME Init PROVE Provided
    OBVIOUS
  <2>1. PICK W \in Watching : watcher = [w \in W |-> Look({})]
    BY DEF Init
  <2>2. DOMAIN taskObjectMap = {} /\ DOMAIN tasks = {}
    BY DEF Init
  <2>3. \A w \in Watchers : watcher[w].pc = "wait"
    BY <2>1 DEF Watchers, Look
  <2>4. Supplied
    BY <2>2, <2>3 DEF Supplied, WellSupplied
  <2> QED
    BY <2>2, <2>4 DEF Provided
<1>2. Typed /\ Provided /\ [Next]_vars => Provided'
  <2> SUFFICES ASSUME Typed, Provided, [Next]_vars, ~implicit' PROVE Provided'
    BY DEF Provided
  <2>1. Remembered
    BY HistoryKept
  <2>2. Supplied
    BY <2>1 DEF Provided, Remembered
  <2>3. Supplied'
    BY <2>2, SuppliedNext
  <2>4. ASSUME ~missed', "concurrency" \in Watchers' PROVE \A k \in DOMAIN tasks' : Enough(k)'
    <3>1. "concurrency" \in Watchers
      BY <2>4, WatchersSame
    <3>2. \A k \in DOMAIN tasks : Enough(k)
      BY <2>1, <2>4, <3>1 DEF Provided, Remembered
    <3> QED
      BY <2>2, <2>4, <3>1, <3>2, EnoughNext
  <2> QED
    BY <2>3, <2>4 DEF Provided
<1>3. Typed /\ Provided => EnoughStrickers
  <2> SUFFICES ASSUME Typed, Provided, AtRest, ~missed, ~implicit, "concurrency" \in Watchers,
                      NEW k \in DOMAIN pool, pool[k].pc # "spawn"
               PROVE  pool[k].strickers >= profile[k].concurrency
    BY DEF EnoughStrickers
  <2>1. k \in DOMAIN tasks
    BY Domains
  <2>2. watcher["concurrency"].pc = "wait" /\ pending["concurrency"] = 0 /\ ~truncated
    BY DEF AtRest, Settled
  <2>3. watcher["concurrency"].todo = {}
    BY <2>2, WatcherTyped DEF WatcherOK, Typed
  <2>4. ~Noticed("concurrency", k) /\ ~At("concurrency", k, {"apply"})
    BY <2>2, <2>3 DEF Noticed, At
  <2>5. Consumers(k) >= profile[k].concurrency
    BY <2>1, <2>4 DEF Provided, Enough
  <2>6. pool[k] \in PoolState
    BY DEF Typed
  <2>7. Consumers(k) = pool[k].strickers
    BY <2>6, StrickersTyped DEF Consumers
  <2> QED
    BY <2>5, <2>7
<1> QED
  BY <1>1, <1>2, <1>3, TypedInit, TypedNext, PTL DEF Spec

-----------------------------------------------------------------------------
(* What the pools work with *)

\* Every pool works with the rate and the think time it had.
SamePace ==
  /\ DOMAIN pool' = DOMAIN pool
  /\ \A k \in DOMAIN pool : pool'[k].rate = pool[k].rate /\ pool'[k].thinkTime = pool[k].thinkTime

LEMMA SamePut ==
  ASSUME Typed, NEW k \in DOMAIN pool, NEW p \in PoolState, pool' = [pool EXCEPT ![k] = p],
         p.rate = pool[k].rate, p.thinkTime = pool[k].thinkTime
  PROVE  SamePace
<1>1. /\ DOMAIN pool' = DOMAIN pool /\ pool'[k] = p
      /\ \A j \in DOMAIN pool \ {k} : pool'[j] = pool[j]
  BY PoolPut
<1>2. ASSUME NEW j \in DOMAIN pool
      PROVE  pool'[j].rate = pool[j].rate /\ pool'[j].thinkTime = pool[j].thinkTime
  <2>1. CASE j = k
    BY <1>1, <2>1
  <2>2. CASE j # k
    BY <1>1, <2>2
  <2> QED
    BY <2>1, <2>2
<1> QED
  BY <1>1, <1>2 DEF SamePace

LEMMA AlignedKept ==
  ASSUME Aligned, UNCHANGED <<watcher, taskObjectMap>>, SamePace
  PROVE  Aligned'
<1>1. \A w \in Watchers' : Copied(w, watcher[w])'
  BY DEF Aligned, Copied, Watchers
<1>2. ASSUME NEW k \in DOMAIN pool' PROVE RateAligned(k)' /\ ThinkTimeAligned(k)'
  <2>1. RateAligned(k) /\ ThinkTimeAligned(k)
    BY DEF Aligned, SamePace
  <2>2. RateAligned(k)'
    BY <2>1 DEF RateAligned, At, Watchers, SamePace
  <2>3. ThinkTimeAligned(k)'
    BY <2>1 DEF ThinkTimeAligned, At, Watchers, SamePace
  <2> QED
    BY <2>2, <2>3
<1> QED
  BY <1>1, <1>2 DEF Aligned

\* The other watchers' copies stay what they are.
LEMMA CopiedSet ==
  ASSUME Typed, Aligned, NEW w \in Watchers, NEW r, watcher' = [watcher EXCEPT ![w] = r],
         Copied(w, r)', DOMAIN taskObjectMap \subseteq DOMAIN taskObjectMap',
         \A k \in DOMAIN taskObjectMap : \A f \in Fields \ {w} :
           taskObjectMap'[k][f] = taskObjectMap[k][f]
  PROVE  /\ Watchers' = Watchers /\ watcher'[w] = r
         /\ \A v \in Watchers \ {w} : watcher'[v] = watcher[v]
         /\ \A v \in Watchers' : Copied(v, watcher[v])'
<1>1. Watchers' = Watchers /\ watcher'[w] = r
      /\ \A v \in Watchers \ {w} : watcher'[v] = watcher[v]
  BY DEF Watchers
<1>2. ASSUME NEW v \in Watchers PROVE Copied(v, watcher[v])'
  <2>1. CASE v = w
    BY <1>1, <2>1 DEF Copied
  <2>2. CASE v # w
    <3>1. PICK q \in WatchState : q = watcher[v] /\ WatcherOK(v, q) /\ v \in Fields
      BY WatcherTyped DEF Typed
    <3>2. Copied(v, q)
      BY <3>1 DEF Aligned
    <3>3. q.pc \in {"read", "apply", "store"} => q.task \in DOMAIN taskObjectMap
      BY <3>1 DEF WatcherOK
    <3>4. watcher'[v] = q
      BY <1>1, <2>2, <3>1
    <3> QED
      BY <2>2, <3>1, <3>2, <3>3, <3>4 DEF Copied
  <2> QED
    BY <2>1, <2>2
<1> QED
  BY <1>1, <1>2

LEMMA AlignedMoved ==
  ASSUME Typed, Aligned, SamePace, UNCHANGED taskObjectMap,
         NEW w \in Watchers, NEW r, watcher' = [watcher EXCEPT ![w] = r], Copied(w, r),
         w = "rate" => watcher[w].pc # "store" /\ r.pc # "store",
         w = "thinkTime" => watcher[w].pc # "adjust" /\ r.pc # "adjust"
  PROVE  Aligned'
<1>1. Copied(w, r)'
  BY DEF Copied
<1>2. /\ Watchers' = Watchers /\ watcher'[w] = r
      /\ \A v \in Watchers \ {w} : watcher'[v] = watcher[v]
      /\ \A v \in Watchers' : Copied(v, watcher[v])'
  BY <1>1, CopiedSet
<1>3. ASSUME NEW k \in DOMAIN pool' PROVE RateAligned(k)' /\ ThinkTimeAligned(k)'
  <2>1. RateAligned(k) /\ ThinkTimeAligned(k)
    BY DEF Aligned, SamePace
  <2>2. RateAligned(k)'
    <3>1. CASE w = "rate"
      BY <1>2, <2>1, <3>1 DEF RateAligned, At, SamePace
    <3>2. CASE w # "rate"
      BY <1>2, <2>1, <3>2 DEF RateAligned, At, SamePace
    <3> QED
      BY <3>1, <3>2
  <2>3. ThinkTimeAligned(k)'
    <3>1. CASE w = "thinkTime"
      BY <1>2, <2>1, <3>1 DEF ThinkTimeAligned, At, SamePace
    <3>2. CASE w # "thinkTime"
      BY <1>2, <2>1, <3>2 DEF ThinkTimeAligned, At, SamePace
    <3> QED
      BY <3>1, <3>2
  <2> QED
    BY <2>2, <2>3
<1> QED
  BY <1>2, <1>3 DEF Aligned

\* A store that overwrites nothing changes the watcher's own field only.
LEMMA OwnFieldStored ==
  ASSUME Typed, NEW w \in Watchers, watcher[w].pc \in {"apply", "store"},
         watcher[w].task \in DOMAIN pool, StoreCopy(w), ~lost'
  PROVE  \E k \in DOMAIN pool :
           /\ k = watcher[w].task /\ k \in DOMAIN taskObjectMap
           /\ DOMAIN taskObjectMap' = DOMAIN taskObjectMap
           /\ taskObjectMap[k] = watcher[w].copy
           /\ taskObjectMap'[k][w] = watcher[w].new
           /\ \A j \in DOMAIN taskObjectMap : \A f \in Fields :
                f # w \/ j # k => taskObjectMap'[j][f] = taskObjectMap[j][f]
<1>1. PICK k \in DOMAIN pool, o \in Object :
        /\ k = watcher[w].task /\ k \in DOMAIN taskObjectMap
        /\ taskObjectMap' = [taskObjectMap EXCEPT ![k] = o]
        /\ o[w] = watcher[w].new /\ \A f \in Fields \ {w} : o[f] = watcher[w].copy[f]
        /\ lost' = (lost \/ taskObjectMap[k] # watcher[w].copy)
  BY StoreCopyDoes
<1>2. taskObjectMap[k] = watcher[w].copy
  BY <1>1
<1>3. PICK m : m = taskObjectMap'
  OBVIOUS
<1>4. /\ DOMAIN m = DOMAIN taskObjectMap /\ m[k] = o
      /\ \A j \in DOMAIN taskObjectMap \ {k} : m[j] = taskObjectMap[j]
  <2>1. taskObjectMap \in Seq(Object)
    BY DEF Typed, MapTyped
  <2> QED
    BY <1>1, <1>3, <2>1, SeqPut
<1>5. ASSUME NEW j \in DOMAIN taskObjectMap, NEW f \in Fields, f # w \/ j # k
      PROVE  m[j][f] = taskObjectMap[j][f]
  <2>1. CASE j = k
    BY <1>1, <1>2, <1>4, <1>5, <2>1
  <2>2. CASE j # k
    BY <1>4, <2>2
  <2> QED
    BY <2>1, <2>2
<1> QED
  BY <1>1, <1>2, <1>3, <1>4, <1>5

LEMMA AlignedStored ==
  ASSUME Typed, Aligned, ~lost', NEW w \in Watchers, Store(w)
  PROVE  Aligned'
<1>1. watcher[w].pc = "store" /\ watcher[w].task \in DOMAIN pool /\ StoreCopy(w)
      /\ w \in {"rate", "concurrency"}
  BY StoreDoes
<1>2. PICK r \in WatchState : r.pc \in {"wait", "next"} /\ watcher' = [watcher EXCEPT ![w] = r]
  BY StoreDoes
<1>3. PICK k \in DOMAIN pool :
        /\ k = watcher[w].task
        /\ DOMAIN taskObjectMap' = DOMAIN taskObjectMap
        /\ taskObjectMap'[k][w] = watcher[w].new
        /\ \A j \in DOMAIN taskObjectMap : \A f \in Fields :
             f # w \/ j # k => taskObjectMap'[j][f] = taskObjectMap[j][f]
  BY <1>1, OwnFieldStored
<1>4. Copied(w, r)'
  BY <1>2 DEF Copied
<1>5. /\ Watchers' = Watchers /\ watcher'[w] = r
      /\ \A v \in Watchers \ {w} : watcher'[v] = watcher[v]
      /\ \A v \in Watchers' : Copied(v, watcher[v])'
  BY <1>2, <1>3, <1>4, CopiedSet
<1>6. pool' = pool
  BY <1>1 DEF StoreCopy
<1>7. ASSUME NEW j \in DOMAIN pool PROVE RateAligned(j)' /\ ThinkTimeAligned(j)'
  <2>1. RateAligned(j) /\ ThinkTimeAligned(j) /\ j \in DOMAIN taskObjectMap
    BY Domains DEF Aligned
  <2>2. RateAligned(j)'
    <3>1. CASE w = "rate"
      <4>1. ~At("rate", j, {"store"})'
        BY <1>2, <1>5, <3>1 DEF At
      <4>2. CASE j = k
        BY <1>1, <1>3, <1>6, <2>1, <3>1, <4>1, <4>2 DEF RateAligned, At
      <4>3. CASE j # k
        BY <1>1, <1>3, <1>6, <2>1, <3>1, <4>1, <4>3 DEF RateAligned, At, Fields
      <4> QED
        BY <4>2, <4>3
    <3>2. CASE w # "rate"
      BY <1>3, <1>5, <1>6, <2>1, <3>2 DEF RateAligned, At, Fields
    <3> QED
      BY <3>1, <3>2
  <2>3. ThinkTimeAligned(j)'
    <3>1. taskObjectMap'[j]["thinkTime"] = taskObjectMap[j]["thinkTime"]
      BY <1>1, <1>3, <2>1 DEF Fields
    <3> QED
      BY <1>1, <1>5, <1>6, <2>1, <3>1 DEF ThinkTimeAligned, At
  <2> QED
    BY <2>2, <2>3
<1> QED
  BY <1>5, <1>6, <1>7 DEF Aligned

LEMMA AlignedThinkTimeStored ==
  ASSUME Typed, Aligned, ~lost', "thinkTime" \in Watchers, StoreThinkTime
  PROVE  Aligned'
<1>1. watcher["thinkTime"].pc = "apply" /\ watcher["thinkTime"].task \in DOMAIN pool
      /\ StoreCopy("thinkTime")
  BY StoreThinkTimeDoes
<1>2. PICK r \in WatchState : Moved(watcher["thinkTime"], r, "adjust")
                              /\ watcher' = [watcher EXCEPT !["thinkTime"] = r]
  BY StoreThinkTimeDoes
<1>3. PICK k \in DOMAIN pool :
        /\ k = watcher["thinkTime"].task
        /\ DOMAIN taskObjectMap' = DOMAIN taskObjectMap
        /\ taskObjectMap[k] = watcher["thinkTime"].copy
        /\ taskObjectMap'[k]["thinkTime"] = watcher["thinkTime"].new
        /\ \A j \in DOMAIN taskObjectMap : \A f \in Fields :
             f # "thinkTime" \/ j # k => taskObjectMap'[j][f] = taskObjectMap[j][f]
  BY <1>1, OwnFieldStored
<1>4. Copied("thinkTime", r)'
  BY <1>2 DEF Copied, Moved
<1>5. /\ Watchers' = Watchers /\ watcher'["thinkTime"] = r
      /\ \A v \in Watchers \ {"thinkTime"} : watcher'[v] = watcher[v]
      /\ \A v \in Watchers' : Copied(v, watcher[v])'
  BY <1>2, <1>3, <1>4, CopiedSet
<1>6. pool' = pool
  BY <1>1 DEF StoreCopy
<1>7. ASSUME NEW j \in DOMAIN pool PROVE RateAligned(j)' /\ ThinkTimeAligned(j)'
  <2>1. RateAligned(j) /\ ThinkTimeAligned(j) /\ j \in DOMAIN taskObjectMap
    BY Domains DEF Aligned
  <2>2. RateAligned(j)'
    <3>1. taskObjectMap'[j]["rate"] = taskObjectMap[j]["rate"]
      BY <1>3, <2>1 DEF Fields
    <3> QED
      BY <1>5, <1>6, <2>1, <3>1 DEF RateAligned, At
  <2>3. ThinkTimeAligned(j)'
    <3>1. pool[j].thinkTime = taskObjectMap[j]["thinkTime"]
      BY <1>1, <2>1 DEF ThinkTimeAligned, At
    <3>2. CASE j = k
      BY <1>2, <1>3, <1>5, <1>6, <3>1, <3>2 DEF ThinkTimeAligned, At, Moved
    <3>3. CASE j # k
      <4>1. taskObjectMap'[j]["thinkTime"] = taskObjectMap[j]["thinkTime"]
        BY <1>3, <2>1, <3>3 DEF Fields
      <4>2. ~At("thinkTime", j, {"adjust"})'
        BY <1>2, <1>3, <1>5, <3>3 DEF At, Moved
      <4> QED
        BY <1>6, <3>1, <4>1, <4>2 DEF ThinkTimeAligned
    <3> QED
      BY <3>2, <3>3
  <2> QED
    BY <2>2, <2>3
<1> QED
  BY <1>5, <1>6, <1>7 DEF Aligned

LEMMA AlignedRate ==
  ASSUME Typed, Aligned, "rate" \in Watchers, ApplyRate
  PROVE  Aligned'
<1>1. PICK k \in DOMAIN pool, p \in PoolState, r \in WatchState :
        /\ k = watcher["rate"].task /\ watcher["rate"].pc = "apply"
        /\ Moved(watcher["rate"], r, "store")
        /\ watcher' = [watcher EXCEPT !["rate"] = r]
        /\ pool' = [pool EXCEPT ![k] = p]
        /\ p.rate = watcher["rate"].new /\ p.thinkTime = pool[k].thinkTime
        /\ UNCHANGED taskObjectMap
  BY ApplyRateDoes
<1>2. /\ DOMAIN pool' = DOMAIN pool /\ pool'[k] = p
      /\ \A j \in DOMAIN pool \ {k} : pool'[j] = pool[j]
  BY <1>1, PoolPut
<1>3. Copied("rate", r)'
  BY <1>1 DEF Copied, Moved, Aligned
<1>4. /\ Watchers' = Watchers /\ watcher'["rate"] = r
      /\ \A v \in Watchers \ {"rate"} : watcher'[v] = watcher[v]
      /\ \A v \in Watchers' : Copied(v, watcher[v])'
  BY <1>1, <1>3, CopiedSet
<1>5. ASSUME NEW j \in DOMAIN pool PROVE RateAligned(j)' /\ ThinkTimeAligned(j)'
  <2>1. RateAligned(j) /\ ThinkTimeAligned(j)
    BY DEF Aligned
  <2>2. RateAligned(j)'
    <3>1. CASE j = k
      BY <1>1, <1>2, <1>4, <3>1 DEF RateAligned, At, Moved
    <3>2. CASE j # k
      <4>1. ~At("rate", j, {"store"})'
        BY <1>1, <1>4, <3>2 DEF At, Moved
      <4>2. ~At("rate", j, {"store"})
        BY <1>1 DEF At
      <4> QED
        BY <1>1, <1>2, <2>1, <3>2, <4>1, <4>2 DEF RateAligned
    <3> QED
      BY <3>1, <3>2
  <2>3. ThinkTimeAligned(j)'
    <3>1. pool'[j].thinkTime = pool[j].thinkTime
      BY <1>1, <1>2
    <3> QED
      BY <1>1, <1>4, <2>1, <3>1 DEF ThinkTimeAligned, At
  <2> QED
    BY <2>2, <2>3
<1> QED
  BY <1>2, <1>4, <1>5 DEF Aligned

LEMMA AlignedThinkTime ==
  ASSUME Typed, Aligned, "thinkTime" \in Watchers, ApplyThinkTime
  PROVE  Aligned'
<1>1. PICK k \in DOMAIN pool, p \in PoolState, r \in WatchState :
        /\ k = watcher["thinkTime"].task /\ watcher["thinkTime"].pc = "adjust"
        /\ r.pc \in {"wait", "next"}
        /\ watcher' = [watcher EXCEPT !["thinkTime"] = r]
        /\ pool' = [pool EXCEPT ![k] = p] /\ p.rate = pool[k].rate
        /\ p.thinkTime = IF watcher["thinkTime"].new = watcher["thinkTime"].copy.thinkTime
                         THEN pool[k].thinkTime ELSE watcher["thinkTime"].new
        /\ UNCHANGED taskObjectMap
  BY ApplyThinkTimeDoes
<1>2. /\ DOMAIN pool' = DOMAIN pool /\ pool'[k] = p
      /\ \A j \in DOMAIN pool \ {k} : pool'[j] = pool[j]
  BY <1>1, PoolPut
<1>3. Copied("thinkTime", r)'
  BY <1>1 DEF Copied
<1>4. /\ Watchers' = Watchers /\ watcher'["thinkTime"] = r
      /\ \A v \in Watchers \ {"thinkTime"} : watcher'[v] = watcher[v]
      /\ \A v \in Watchers' : Copied(v, watcher[v])'
  BY <1>1, <1>3, CopiedSet
<1>5. watcher["thinkTime"].copy.thinkTime = watcher["thinkTime"].copy["thinkTime"]
  <2>1. watcher["thinkTime"].copy \in Object
    BY WatcherTyped DEF Typed, WatchState
  <2> QED
    BY <2>1, NamedFields
<1>6. ASSUME NEW j \in DOMAIN pool PROVE RateAligned(j)' /\ ThinkTimeAligned(j)'
  <2>1. RateAligned(j) /\ ThinkTimeAligned(j)
    BY DEF Aligned
  <2>2. RateAligned(j)'
    <3>1. pool'[j].rate = pool[j].rate
      BY <1>1, <1>2
    <3> QED
      BY <1>1, <1>4, <2>1, <3>1 DEF RateAligned, At
  <2>3. ThinkTimeAligned(j)'
    <3>1. ~At("thinkTime", j, {"adjust"})'
      BY <1>1, <1>4 DEF At
    <3>2. CASE j = k
      <4>1. /\ pool[k].thinkTime = watcher["thinkTime"].copy["thinkTime"]
            /\ taskObjectMap[k]["thinkTime"] = watcher["thinkTime"].new
        BY <1>1, <2>1, <3>2 DEF ThinkTimeAligned, At
      <4>2. p.thinkTime = watcher["thinkTime"].new
        BY <1>1, <1>5, <4>1
      <4> QED
        BY <1>1, <1>2, <3>1, <3>2, <4>1, <4>2 DEF ThinkTimeAligned
    <3>3. CASE j # k
      <4>1. ~At("thinkTime", j, {"adjust"})
        BY <1>1, <3>3 DEF At
      <4> QED
        BY <1>1, <1>2, <2>1, <3>1, <3>3, <4>1 DEF ThinkTimeAligned
    <3> QED
      BY <3>2, <3>3
  <2> QED
    BY <2>2, <2>3
<1> QED
  BY <1>2, <1>4, <1>6 DEF Aligned

LEMMA AlignedMain ==
  ASSUME Typed, Aligned, StoreTask \/ Launch
  PROVE  Aligned'
<1>1. ASSUME StoreTask PROVE Aligned'
  <2>1. /\ next \notin DOMAIN taskObjectMap
        /\ \A k \in DOMAIN taskObjectMap : taskObjectMap'[k] = taskObjectMap[k]
        /\ Watchers' = Watchers /\ watcher' \in [Watchers -> WatchState]
        /\ UNCHANGED pool
    BY <1>1, StoreTaskDoes
  <2>2. ASSUME NEW w \in Watchers
        PROVE  /\ watcher'[w].pc = watcher[w].pc /\ watcher'[w].task = watcher[w].task
               /\ watcher'[w].copy = watcher[w].copy /\ watcher'[w].new = watcher[w].new
    <3>1. PICK q \in WatchState, r \in WatchState : q = watcher[w] /\ r = watcher'[w]
      BY <2>1, WatcherTyped DEF Typed
    <3>2. Moved(q, [r EXCEPT !.todo = q.todo], q.pc)
      BY <1>1, <3>1, StoreTaskDoes
    <3> QED
      BY <3>1, <3>2 DEF Moved, WatchState
  <2>3. ASSUME NEW w \in Watchers PROVE Copied(w, watcher[w])'
    <3>1. Copied(w, watcher[w])
      BY DEF Aligned
    <3>2. watcher[w].pc \in {"read", "apply", "store"} => watcher[w].task \in DOMAIN taskObjectMap
      BY WatcherTyped DEF WatcherOK, Typed
    <3> QED
      BY <2>1, <2>2, <3>1, <3>2 DEF Copied
  <2>4. ASSUME NEW k \in DOMAIN pool PROVE RateAligned(k)' /\ ThinkTimeAligned(k)'
    <3>1. RateAligned(k) /\ ThinkTimeAligned(k) /\ k \in DOMAIN taskObjectMap
      BY Domains DEF Aligned
    <3>2. RateAligned(k)'
      BY <2>1, <2>2, <3>1 DEF RateAligned, At
    <3>3. ThinkTimeAligned(k)'
      BY <2>1, <2>2, <3>1 DEF ThinkTimeAligned, At
    <3> QED
      BY <3>2, <3>3
  <2> QED
    BY <2>1, <2>3, <2>4 DEF Aligned
<1>2. ASSUME Launch PROVE Aligned'
  <2>1. PICK p \in PoolState :
          /\ next \in DOMAIN tasks /\ next \in DOMAIN taskObjectMap
          /\ taskObjectMap[next] = tasks[next]
          /\ DOMAIN pool' = DOMAIN pool \cup {next} /\ next \notin DOMAIN pool
          /\ pool'[next] = p /\ \A k \in DOMAIN pool : pool'[k] = pool[k]
          /\ p.rate = tasks[next].rate /\ p.thinkTime = tasks[next].thinkTime
          /\ UNCHANGED <<taskObjectMap, watchVars>>
    BY <1>2, LaunchDoes
  <2>2. Watchers' = Watchers
    BY <2>1 DEF Watchers
  <2>3. \A w \in Watchers' : Copied(w, watcher[w])'
    BY <2>1, <2>2 DEF Aligned, Copied
  <2>4. ASSUME NEW k \in DOMAIN pool PROVE RateAligned(k)' /\ ThinkTimeAligned(k)'
    <3>1. RateAligned(k) /\ ThinkTimeAligned(k)
      BY DEF Aligned
    <3>2. RateAligned(k)'
      BY <2>1, <2>2, <3>1 DEF RateAligned, At
    <3>3. ThinkTimeAligned(k)'
      BY <2>1, <2>2, <3>1 DEF ThinkTimeAligned, At
    <3> QED
      BY <3>2, <3>3
  <2>5. ASSUME NEW n, n = next PROVE RateAligned(n)' /\ ThinkTimeAligned(n)'
    <3>1. /\ n \in DOMAIN pool' /\ n \in DOMAIN taskObjectMap /\ n \notin DOMAIN pool
          /\ taskObjectMap'[n] = tasks[n] /\ pool'[n] = p /\ tasks[n] \in Object
      BY <2>1, <2>5 DEF Typed, MapTyped
    <3>2. p.rate = tasks[n]["rate"] /\ p.thinkTime = tasks[n]["thinkTime"]
      BY <2>1, <2>5, <3>1, NamedFields
    <3>3. ~At("rate", n, {"store"}) /\ ~At("thinkTime", n, {"adjust"})
      BY <3>1, WatcherTyped DEF At, WatcherOK, Typed
    <3>4. ~At("rate", n, {"store"})' /\ ~At("thinkTime", n, {"adjust"})'
      BY <2>1, <2>2, <3>3 DEF At
    <3>5. RateAligned(n)'
      BY <3>1, <3>2, <3>4 DEF RateAligned
    <3>6. ThinkTimeAligned(n)'
      BY <3>1, <3>2, <3>4 DEF ThinkTimeAligned
    <3> QED
      BY <3>5, <3>6
  <2>6. ASSUME NEW k \in DOMAIN pool' PROVE RateAligned(k)' /\ ThinkTimeAligned(k)'
    BY <2>1, <2>4, <2>5, <2>6
  <2> QED
    BY <2>3, <2>6 DEF Aligned
<1> QED
  BY <1>1, <1>2

LEMMA AlignedNext ==
  ASSUME Typed, Aligned, ~lost', [Next]_vars
  PROVE  Aligned'
<1>1. ASSUME UNCHANGED <<watcher, taskObjectMap, pool>> PROVE Aligned'
  BY <1>1, AlignedKept DEF SamePace
<1>2. ASSUME Rewrite \/ Truncate \/ Write PROVE Aligned'
  <2>1. UNCHANGED <<watcher, taskObjectMap, poolVars>>
    BY <1>2, FileStepDoes
  <2> QED
    BY <1>1, <2>1 DEF poolVars
<1>3. ASSUME ReadConfig \/ Wait \/ Exit \/ LoadFails PROVE Aligned'
  <2>1. UNCHANGED <<taskObjectMap, poolVars, watchVars>>
    BY <1>3, Zenon DEF ReadConfig, Wait, Exit, LoadFails
  <2> QED
    BY <1>1, <2>1 DEF poolVars, watchVars
<1>4. ASSUME NEW k \in DOMAIN pool, Triggered(k) \/ PoolStep(k) PROVE Aligned'
  <2>1. UNCHANGED <<taskObjectMap, watcher>>
    <3>1. UNCHANGED <<taskObjectMap, watchVars>>
      BY <1>4, Zenon DEF Triggered, PoolStep, othersThanPools
    <3> QED
      BY <3>1 DEF watchVars
  <2>2. \E p \in PoolState :
          /\ pool' = [pool EXCEPT ![k] = p]
          /\ p.rate = pool[k].rate /\ p.thinkTime = pool[k].thinkTime
    <3>1. CASE Triggered(k)
      <4>1. PICK p \in PoolState :
              /\ pool' = [pool EXCEPT ![k] = p]
              /\ p.rate = pool[k].rate /\ p.thinkTime = pool[k].thinkTime
        BY <3>1, TriggeredDoes
      <4> QED
        BY <4>1
    <3>2. CASE PoolStep(k)
      <4>1. PICK p \in PoolState : pool' = [pool EXCEPT ![k] = p] /\ PoolStepped(pool[k], p)
        <5>1. pool \in Seq(PoolState) /\ deleted \in 0 .. DeleteCap /\ wg \in Nat
          BY GroupTyped DEF Typed
        <5> QED
          BY <3>2, <5>1, PoolStepDoes
      <4> QED
        BY <4>1 DEF PoolStepped
    <3> QED
      BY <1>4, <3>1, <3>2
  <2>3. SamePace
    BY <2>2, SamePut
  <2> QED
    BY <2>1, <2>3, AlignedKept
<1>5. ASSUME UNCHANGED pool PROVE SamePace
  BY <1>5 DEF SamePace
<1>6. ASSUME NEW w \in Watchers, TakeEvent(w) PROVE Aligned'
  <2>1. PICK r \in WatchState :
          /\ watcher[w].pc = "wait" /\ r.pc \in {"wait", "next"}
          /\ watcher' = [watcher EXCEPT ![w] = r] /\ UNCHANGED <<taskObjectMap, poolVars>>
    BY <1>6, TakeEventDoes
  <2>2. Copied(w, r)
    BY <2>1 DEF Copied
  <2>3. SamePace
    BY <1>5, <2>1 DEF poolVars
  <2> QED
    BY <2>1, <2>2, <2>3, AlignedMoved
<1>7. ASSUME NEW w \in Watchers, CopyTask(w) PROVE Aligned'
  <2>1. PICK k \in watcher[w].todo, r \in WatchState :
          /\ watcher[w].pc = "next" /\ r.pc = "read" /\ r.task = k /\ r.copy = taskObjectMap[k]
          /\ watcher' = [watcher EXCEPT ![w] = r] /\ UNCHANGED <<taskObjectMap, poolVars>>
    BY <1>7, CopyTaskDoes
  <2>2. Copied(w, r)
    BY <2>1 DEF Copied
  <2>3. SamePace
    BY <1>5, <2>1 DEF poolVars
  <2> QED
    BY <2>1, <2>2, <2>3, AlignedMoved
<1>8. ASSUME NEW w \in Watchers, ReadProfile(w) PROVE Aligned'
  <2>1. PICK n \in Nat, r \in WatchState :
          /\ watcher[w].pc = "read"
          /\ \/ r.pc \in {"wait", "next"}
             \/ r.pc = "apply" /\ r.task = watcher[w].task /\ r.copy = watcher[w].copy
          /\ watcher' = [watcher EXCEPT ![w] = r] /\ UNCHANGED <<taskObjectMap, poolVars>>
    BY <1>8, ReadProfileDoes
  <2>2. Copied(w, watcher[w])
    BY DEF Aligned
  <2>3. Copied(w, r)
    BY <2>1, <2>2 DEF Copied
  <2>4. SamePace
    BY <1>5, <2>1 DEF poolVars
  <2> QED
    BY <2>1, <2>3, <2>4, AlignedMoved
<1>9. ASSUME "concurrency" \in Watchers, ApplyConcurrency PROVE Aligned'
  <2>1. PICK k \in DOMAIN pool, p \in PoolState, r \in WatchState :
          /\ watcher["concurrency"].pc = "apply"
          /\ \/ r.pc \in {"wait", "next"}
             \/ Moved(watcher["concurrency"], r, "store")
             \/ Moved(watcher["concurrency"], r, "stuck")
          /\ watcher' = [watcher EXCEPT !["concurrency"] = r]
          /\ pool' = [pool EXCEPT ![k] = p]
          /\ p.rate = pool[k].rate /\ p.thinkTime = pool[k].thinkTime
          /\ UNCHANGED taskObjectMap
    BY <1>9, ApplyConcurrencyDoes
  <2>2. Copied("concurrency", watcher["concurrency"])
    BY <1>9 DEF Aligned
  <2>3. Copied("concurrency", r)
    BY <2>1, <2>2 DEF Copied, Moved
  <2>4. SamePace
    BY <2>1, SamePut
  <2> QED
    BY <1>9, <2>1, <2>3, <2>4, AlignedMoved
<1>10. ASSUME NEW w \in Watchers, Watch(w) PROVE Aligned'
  <2>1. CASE Panic(w)
    BY <1>1, <2>1 DEF Panic, poolVars, watchVars
  <2>2. CASE Store(w)
    BY <2>2, AlignedStored
  <2>3. CASE w = "rate" /\ ApplyRate
    BY <2>3, AlignedRate
  <2>4. CASE w = "thinkTime" /\ StoreThinkTime
    BY <2>4, AlignedThinkTimeStored
  <2>5. CASE w = "thinkTime" /\ ApplyThinkTime
    BY <2>5, AlignedThinkTime
  <2> QED
    BY <1>6, <1>7, <1>8, <1>9, <1>10, <2>1, <2>2, <2>3, <2>4, <2>5 DEF Watch
<1>11. ASSUME UNCHANGED vars PROVE Aligned'
  BY <1>1, <1>11 DEF vars, poolVars, watchVars
<1> QED
  BY <1>2, <1>3, <1>4, <1>10, <1>11, AlignedMain DEF Next, Main

-----------------------------------------------------------------------------
(* What the watchers make of an edited profile *)

\* A watcher that stays at its point knows what it knew, or has more to look at.
LEMMA FreshKept ==
  ASSUME NEW w, w \in Watchers', NEW k, Fresh(w, k), w \in Watchers,
         NEW q \in WatchState, NEW r \in WatchState, q = watcher[w], r = watcher'[w],
         r.pc = q.pc, r.task = q.task, r.new = q.new, q.todo \subseteq r.todo,
         UNCHANGED <<profile, truncated>>, pending'[w] = pending[w],
         Known(k)'[w] = Known(k)[w]
  PROVE  Fresh(w, k)'
<1>1. CASE Noticed(w, k)
  <2>1. Noticed(w, k)'
    BY <1>1 DEF Noticed, At
  <2> QED
    BY <2>1 DEF Fresh
<1>2. CASE At(w, k, {"apply", "store"}) /\ watcher[w].new = profile[k][w]
  <2>1. At(w, k, {"apply", "store"})' /\ watcher'[w].new = profile'[k][w]
    BY <1>2 DEF At
  <2> QED
    BY <2>1 DEF Fresh
<1>3. CASE ~At(w, k, {"apply", "store"}) /\ Known(k)[w] = profile[k][w]
  <2>1. ~At(w, k, {"apply", "store"})' /\ Known(k)'[w] = profile'[k][w]
    BY <1>3 DEF At
  <2> QED
    BY <2>1 DEF Fresh
<1> QED
  BY <1>1, <1>2, <1>3 DEF Fresh

LEMMA KnownKept ==
  ASSUME UNCHANGED tasks, NEW k, NEW f, DOMAIN taskObjectMap' = DOMAIN taskObjectMap,
         \A j \in DOMAIN taskObjectMap : taskObjectMap'[j][f] = taskObjectMap[j][f]
  PROVE  Known(k)'[f] = Known(k)[f]
BY DEF Known

\* A watcher that is done with a task, or has applied its value.
LEMMA FreshMoved ==
  ASSUME NEW w, w \in Watchers, NEW k, Fresh(w, k),
         NEW q \in WatchState, NEW r \in WatchState, q = watcher[w],
         watcher' = [watcher EXCEPT ![w] = r], r.todo = q.todo,
         q.pc # "read", r.pc # "read",
         \/ Moved(q, r, "store") /\ q.pc = "apply"
         \/ q.pc \notin {"apply", "store"} /\ r.pc \notin {"apply", "store"},
         UNCHANGED <<profile, truncated, tasks, taskObjectMap>>, pending'[w] = pending[w]
  PROVE  Fresh(w, k)'
<1>1. watcher'[w] = r /\ w \in Watchers' /\ Known(k)'[w] = Known(k)[w]
  BY DEF Watchers, Known
<1>2. CASE Noticed(w, k)
  <2>1. Noticed(w, k)'
    BY <1>1, <1>2 DEF Noticed, At
  <2> QED
    BY <2>1 DEF Fresh
<1>3. CASE At(w, k, {"apply", "store"}) /\ watcher[w].new = profile[k][w]
  <2>1. At(w, k, {"apply", "store"})' /\ watcher'[w].new = profile'[k][w]
    BY <1>1, <1>3 DEF At, Moved
  <2> QED
    BY <2>1 DEF Fresh
<1>4. CASE ~At(w, k, {"apply", "store"}) /\ Known(k)[w] = profile[k][w]
  <2>1. ~At(w, k, {"apply", "store"})' /\ Known(k)'[w] = profile'[k][w]
    BY <1>1, <1>4 DEF At, Moved
  <2> QED
    BY <2>1 DEF Fresh
<1> QED
  BY <1>2, <1>3, <1>4 DEF Fresh

\* A watcher that stores its value.
LEMMA FreshStored ==
  ASSUME Typed, ~lost', NEW w \in Watchers, NEW q \in WatchState, NEW r \in WatchState,
         q = watcher[w], q.pc \in {"apply", "store"}, q.task \in DOMAIN pool, StoreCopy(w),
         watcher' = [watcher EXCEPT ![w] = r], r.todo = q.todo,
         r.pc \notin {"read", "apply", "store"},
         NEW j \in DOMAIN tasks, Fresh(w, j)
  PROVE  Fresh(w, j)'
<1>1. watcher'[w] = r /\ w \in Watchers' /\ UNCHANGED <<profile, truncated, tasks, pending>>
  BY DEF Watchers, StoreCopy, fileVars, mainVars
<1>2. PICK k \in DOMAIN pool :
        /\ k = q.task /\ k \in DOMAIN taskObjectMap
        /\ DOMAIN taskObjectMap' = DOMAIN taskObjectMap
        /\ taskObjectMap'[k][w] = q.new
        /\ \A i \in DOMAIN taskObjectMap : \A f \in Fields :
             f # w \/ i # k => taskObjectMap'[i][f] = taskObjectMap[i][f]
  BY OwnFieldStored
<1>3. w \in Fields
  BY WatcherTyped DEF Typed
<1>4. ~At(w, j, {"apply", "store"})'
  BY <1>1 DEF At
<1>5. CASE Noticed(w, j)
  <2>1. Noticed(w, j)'
    BY <1>1, <1>5 DEF Noticed, At
  <2> QED
    BY <2>1 DEF Fresh
<1>6. CASE ~Noticed(w, j) /\ j = k
  <2>1. q.new = profile[j][w]
    BY <1>2, <1>6 DEF Fresh, At
  <2>2. Known(j)'[w] = q.new
    BY <1>2, <1>6 DEF Known
  <2> QED
    BY <1>1, <1>4, <2>1, <2>2 DEF Fresh
<1>7. CASE ~Noticed(w, j) /\ j # k
  <2>1. Known(j)[w] = profile[j][w]
    BY <1>2, <1>7 DEF Fresh, At
  <2>2. Known(j)'[w] = Known(j)[w]
    BY <1>1, <1>2, <1>3, <1>7 DEF Known
  <2> QED
    BY <1>1, <1>4, <2>1, <2>2 DEF Fresh
<1> QED
  BY <1>5, <1>6, <1>7

LEMMA FreshTaken ==
  ASSUME Typed, ~missed', NEW w \in Watchers, TakeEvent(w), NEW k \in DOMAIN tasks
  PROVE  Fresh(w, k)'
<1>1. PICK r \in WatchState :
        /\ r.todo = DOMAIN taskObjectMap /\ watcher' = [watcher EXCEPT ![w] = r]
        /\ missed' = (missed \/ (mainPc # "config" /\ Len(taskObjectMap) < Len(tasks)))
  BY TakeEventDoes
<1>2. mainPc # "config"
  BY Domains DEF Typed, MainTyped, MainOK
<1>3. Len(taskObjectMap) >= Len(tasks)
  <2>1. ~(mainPc # "config" /\ Len(taskObjectMap) < Len(tasks))
    BY <1>1, Zenon
  <2> QED
    BY <1>2, <2>1, Domains
<1>4. k \in DOMAIN taskObjectMap
  BY <1>3, Domains
<1>5. watcher'[w] = r
  BY <1>1 DEF Watchers
<1>6. Noticed(w, k)'
  BY <1>1, <1>4, <1>5 DEF Noticed
<1> QED
  BY <1>6 DEF Fresh

LEMMA FreshCopied ==
  ASSUME Typed, NEW w \in Watchers, CopyTask(w), NEW j \in DOMAIN tasks, Fresh(w, j)
  PROVE  Fresh(w, j)'
<1>1. PICK k \in watcher[w].todo, r \in WatchState :
        /\ watcher[w].pc = "next" /\ r.pc = "read" /\ r.task = k
        /\ r.todo = watcher[w].todo \ {k} /\ watcher' = [watcher EXCEPT ![w] = r]
        /\ UNCHANGED <<fileVars, mainVars, taskObjectMap, pending>>
  BY CopyTaskDoes
<1>2. watcher'[w] = r /\ w \in Watchers' /\ UNCHANGED <<profile, truncated, tasks>>
  BY <1>1 DEF Watchers, fileVars, mainVars
<1>3. CASE j = k
  <2>1. Noticed(w, j)'
    BY <1>1, <1>2, <1>3 DEF Noticed, At
  <2> QED
    BY <2>1 DEF Fresh
<1>4. CASE j # k /\ Noticed(w, j)
  <2>1. Noticed(w, j)'
    BY <1>1, <1>2, <1>4 DEF Noticed, At
  <2> QED
    BY <2>1 DEF Fresh
<1>5. CASE j # k /\ ~Noticed(w, j)
  <2>1. Known(j)[w] = profile[j][w]
    BY <1>1, <1>5 DEF Fresh, At
  <2>2. Known(j)'[w] = Known(j)[w]
    BY <1>1, <1>2 DEF Known
  <2>3. ~At(w, j, {"apply", "store"})'
    BY <1>1, <1>2 DEF At
  <2> QED
    BY <1>2, <2>1, <2>2, <2>3 DEF Fresh
<1> QED
  BY <1>3, <1>4, <1>5

\* The watcher of the rate passes over a task whose copy has the profile's
\* rate, and no store came between copy and map.
LEMMA FreshRead ==
  ASSUME Typed, Aligned, NEW w \in Watchers, ReadProfile(w), NEW j \in DOMAIN tasks, Fresh(w, j)
  PROVE  Fresh(w, j)'
<1>1. PICK q \in WatchState : q = watcher[w] /\ WatcherOK(w, q)
  BY WatcherTyped DEF Typed
<1>2. PICK n \in Nat, r \in WatchState :
        /\ n = Contents(watcher[w].task)[w] /\ watcher[w].pc = "read"
        /\ r.todo = watcher[w].todo
        /\ \/ r.pc \in {"wait", "next"} /\ w = "rate" /\ watcher[w].copy.rate = n
           \/ r.pc = "apply" /\ r.task = watcher[w].task /\ r.new = n
        /\ watcher' = [watcher EXCEPT ![w] = r]
        /\ UNCHANGED <<fileVars, mainVars, taskObjectMap, pending>>
  BY ReadProfileDoes
<1>3. /\ watcher'[w] = r /\ w \in Watchers' /\ UNCHANGED <<profile, truncated, tasks>>
      /\ Known(j)'[w] = Known(j)[w]
  BY <1>2 DEF Watchers, fileVars, mainVars, Known
<1>4. CASE truncated \/ pending[w] > 0 \/ j \in q.todo
  <2>1. Noticed(w, j)'
    BY <1>1, <1>2, <1>3, <1>4 DEF Noticed
  <2> QED
    BY <2>1 DEF Fresh
<1>5. CASE ~truncated /\ j = q.task
  <2>1. n = profile[j][w]
    BY <1>1, <1>2, <1>5 DEF Contents
  <2>2. CASE r.pc = "apply"
    <3>1. At(w, j, {"apply", "store"})' /\ watcher'[w].new = profile'[j][w]
      BY <1>1, <1>2, <1>3, <1>5, <2>1, <2>2 DEF At
    <3> QED
      BY <3>1 DEF Fresh
  <2>3. CASE r.pc # "apply"
    <3>1. w = "rate" /\ q.copy.rate = n /\ r.pc \in {"wait", "next"}
      BY <1>1, <1>2, <2>3
    <3>2. q.copy["rate"] = n
      <4>1. q.copy \in Object
        BY DEF WatchState
      <4> QED
        BY <3>1, <4>1, NamedFields
    <3>3. q.copy["rate"] = taskObjectMap[j]["rate"] /\ j \in DOMAIN taskObjectMap
      BY <1>1, <1>2, <1>5, <3>1 DEF Aligned, Copied, WatcherOK
    <3>4. Known(j)[w] = profile[j][w]
      BY <2>1, <3>1, <3>2, <3>3 DEF Known
    <3>5. ~At(w, j, {"apply", "store"})'
      BY <1>3, <3>1 DEF At
    <3> QED
      BY <1>3, <3>4, <3>5 DEF Fresh
  <2> QED
    BY <2>2, <2>3
<1>6. CASE ~(truncated \/ pending[w] > 0 \/ j \in q.todo) /\ j # q.task
  <2>1. Known(j)[w] = profile[j][w]
    BY <1>1, <1>2, <1>6 DEF Fresh, Noticed, At
  <2>2. ~At(w, j, {"apply", "store"})'
    BY <1>1, <1>2, <1>3, <1>6 DEF At
  <2> QED
    BY <1>3, <2>1, <2>2 DEF Fresh
<1> QED
  BY <1>4, <1>5, <1>6

LEMMA FreshNext ==
  ASSUME Typed, Aligned, ~lost', ~missed', [Next]_vars,
         NEW w \in Watchers, w \in {"rate", "thinkTime"},
         \A k \in DOMAIN tasks : Fresh(w, k)
  PROVE  \A k \in DOMAIN tasks' : Fresh(w, k)'
<1> DEFINE Kept == \A k \in DOMAIN tasks' : Fresh(w, k)'
<1>1. PICK q \in WatchState : q = watcher[w] /\ WatcherOK(w, q) /\ w \in Fields
  BY WatcherTyped DEF Typed
<1>2. ASSUME UNCHANGED <<profile, truncated, tasks>>, Watchers' = Watchers,
             UNCHANGED <<pending[w], watcher[w]>>, \A k : Known(k)'[w] = Known(k)[w]
      PROVE  Kept
  <2>1. ASSUME NEW k \in DOMAIN tasks PROVE Fresh(w, k)'
    BY <1>1, <1>2, FreshKept
  <2> QED
    BY <1>2, <2>1
<1>3. ASSUME UNCHANGED <<profile, truncated, tasks, pending, watcher, taskObjectMap>> PROVE Kept
  <2>1. Watchers' = Watchers /\ \A k : Known(k)'[w] = Known(k)[w]
    BY <1>3 DEF Watchers, Known
  <2> QED
    BY <1>2, <1>3, <2>1
<1>4. ASSUME NEW v \in Watchers, v # w, NEW r, watcher' = [watcher EXCEPT ![v] = r],
             UNCHANGED <<profile, truncated, tasks, pending[w], taskObjectMap>>
      PROVE  Kept
  <2>1. /\ Watchers' = Watchers /\ UNCHANGED watcher[w]
        /\ \A k : Known(k)'[w] = Known(k)[w]
    BY <1>4 DEF Watchers, Known
  <2> QED
    BY <1>2, <1>4, <2>1
<1>5. ASSUME Rewrite \/ Truncate \/ Write PROVE Kept
  <2>1. pending'[w] > 0 /\ UNCHANGED tasks
    BY <1>5, FileStepDoes
  <2>2. \A k : Noticed(w, k)'
    BY <2>1 DEF Noticed
  <2> QED
    BY <2>2 DEF Fresh
\* What main has read is the profile.
<1>6. ASSUME ReadConfig PROVE Kept
  <2>1. /\ mainPc = "config" /\ (tasks' = profile \/ UNCHANGED tasks)
        /\ UNCHANGED <<profile, taskObjectMap, watcher>>
    BY <1>6 DEF ReadConfig, MainGoto, fileVars, watchVars
  <2>2. tasks = <<>> /\ DOMAIN taskObjectMap = {}
    <3>1. tasks = <<>>
      BY <2>1 DEF Typed, MainTyped, MainOK
    <3> QED
      BY <3>1, Domains
  <2>3. CASE UNCHANGED tasks
    BY <2>2, <2>3
  <2>4. CASE tasks' = profile
    <3>1. ASSUME NEW k \in DOMAIN profile PROVE Fresh(w, k)'
      <4>1. Known(k)' = profile[k]
        BY <2>1, <2>2, <2>4 DEF Known
      <4>2. ~At(w, k, {"apply", "store"})'
        BY <1>1, <2>1, <2>2 DEF At, WatcherOK
      <4> QED
        BY <2>1, <4>1, <4>2 DEF Fresh
    <3> QED
      BY <2>4, <3>1
  <2> QED
    BY <2>1, <2>3, <2>4
<1>7. ASSUME StoreTask PROVE Kept
  <2>1. /\ next \notin DOMAIN taskObjectMap /\ taskObjectMap'[next] = tasks[next]
        /\ DOMAIN taskObjectMap' = DOMAIN taskObjectMap \cup {next}
        /\ \A k \in DOMAIN taskObjectMap : taskObjectMap'[k] = taskObjectMap[k]
        /\ Watchers' = Watchers /\ watcher' \in [Watchers -> WatchState]
        /\ UNCHANGED <<profile, truncated, tasks, pending>>
    BY <1>7, StoreTaskDoes DEF fileVars
  <2>2. PICK r \in WatchState : r = watcher'[w]
    BY <2>1
  <2>3. /\ Moved(q, [r EXCEPT !.todo = q.todo], q.pc)
        /\ r.todo \in {q.todo, q.todo \cup {next}}
    BY <1>1, <1>7, <2>2, StoreTaskDoes
  <2>4. r.pc = q.pc /\ r.task = q.task /\ r.new = q.new /\ q.todo \subseteq r.todo
    BY <2>3 DEF Moved, WatchState
  <2>5. \A k : Known(k)' = Known(k)
    BY <2>1 DEF Known
  <2>6. ASSUME NEW k \in DOMAIN tasks PROVE Fresh(w, k)'
    BY <1>1, <2>1, <2>2, <2>4, <2>5, FreshKept
  <2> QED
    BY <2>1, <2>6
<1>8. ASSUME Wait \/ Exit \/ LoadFails \/ Launch PROVE Kept
  <2>1. UNCHANGED <<fileVars, tasks, watchVars, taskObjectMap>>
    BY <1>8, Zenon DEF Wait, Exit, LoadFails, Launch
  <2> QED
    BY <1>3, <2>1 DEF fileVars, watchVars
<1>9. ASSUME NEW k \in DOMAIN pool, Triggered(k) \/ PoolStep(k) PROVE Kept
  <2>1. UNCHANGED <<fileVars, tasks, watchVars, taskObjectMap>>
    <3>1. CASE Triggered(k)
      BY <3>1 DEF Triggered
    <3>2. CASE PoolStep(k)
      BY <3>2 DEF PoolStep, othersThanPools, mainVars
    <3> QED
      BY <1>9, <3>1, <3>2
  <2> QED
    BY <1>3, <2>1 DEF fileVars, watchVars
<1>10. ASSUME NEW v \in Watchers, TakeEvent(v) PROVE Kept
  <2>1. UNCHANGED <<profile, truncated, tasks, taskObjectMap>>
    BY <1>10 DEF TakeEvent, fileVars, mainVars
  <2>2. CASE v = w
    BY <1>10, <2>1, <2>2, FreshTaken
  <2>3. CASE v # w
    <3>1. PICK r \in WatchState :
            watcher' = [watcher EXCEPT ![v] = r] /\ \A u \in Watchers \ {v} : pending'[u] = pending[u]
      BY <1>10, TakeEventDoes
    <3> QED
      BY <1>4, <2>1, <2>3, <3>1
  <2> QED
    BY <2>2, <2>3
<1>11. ASSUME NEW v \in Watchers, CopyTask(v) \/ ReadProfile(v) PROVE Kept
  <2>1. UNCHANGED <<profile, truncated, tasks, taskObjectMap, pending>>
    <3>1. UNCHANGED <<fileVars, mainVars, taskObjectMap, pending>>
      BY <1>11, Zenon DEF CopyTask, ReadProfile
    <3> QED
      BY <3>1 DEF fileVars, mainVars
  <2>2. CASE v = w
    BY <1>11, <2>1, <2>2, FreshCopied, FreshRead
  <2>3. CASE v # w
    <3>1. \E r : watcher' = [watcher EXCEPT ![v] = r]
      BY <1>11, CopyTaskDoes, ReadProfileDoes
    <3> QED
      BY <1>4, <2>1, <2>3, <3>1
  <2> QED
    BY <2>2, <2>3
<1>12. ASSUME NEW v \in Watchers, Panic(v) PROVE Kept
  BY <1>3, <1>12 DEF Panic, fileVars, mainVars, watchVars
\* Another watcher that stores leaves this one's field what it is.
<1>13. ASSUME NEW v \in Watchers, watcher[v].pc \in {"apply", "store"},
              watcher[v].task \in DOMAIN pool, StoreCopy(v),
              NEW r \in WatchState, watcher' = [watcher EXCEPT ![v] = r],
              r.todo = watcher[v].todo, r.pc \notin {"read", "apply", "store"}
       PROVE  Kept
  <2>1. UNCHANGED <<profile, truncated, tasks, pending>>
    BY <1>13 DEF StoreCopy, fileVars, mainVars
  <2>2. CASE v = w
    <3>1. ASSUME NEW j \in DOMAIN tasks PROVE Fresh(w, j)'
      BY <1>1, <1>13, <2>2, FreshStored
    <3> QED
      BY <2>1, <3>1
  <2>3. CASE v # w
    <3>1. PICK k \in DOMAIN pool :
            /\ DOMAIN taskObjectMap' = DOMAIN taskObjectMap
            /\ \A j \in DOMAIN taskObjectMap : \A f \in Fields :
                 f # v \/ j # k => taskObjectMap'[j][f] = taskObjectMap[j][f]
      BY <1>13, OwnFieldStored
    <3>2. \A k0 : Known(k0)'[w] = Known(k0)[w]
      BY <1>1, <2>1, <2>3, <3>1, KnownKept
    <3>3. Watchers' = Watchers /\ UNCHANGED watcher[w]
      BY <1>13, <2>3 DEF Watchers
    <3> QED
      BY <1>2, <2>1, <3>2, <3>3
  <2> QED
    BY <2>2, <2>3
<1>14. ASSUME NEW v \in Watchers, Store(v) PROVE Kept
  <2>1. watcher[v].pc = "store" /\ watcher[v].task \in DOMAIN pool /\ StoreCopy(v)
    BY <1>14, StoreDoes
  <2>2. PICK r \in WatchState :
          r.todo = watcher[v].todo /\ r.pc \in {"wait", "next"} /\ watcher' = [watcher EXCEPT ![v] = r]
    BY <1>14, StoreDoes
  <2> QED
    BY <1>13, <2>1, <2>2
<1>15. ASSUME "thinkTime" \in Watchers, StoreThinkTime PROVE Kept
  <2>1. /\ watcher["thinkTime"].pc = "apply" /\ watcher["thinkTime"].task \in DOMAIN pool
        /\ StoreCopy("thinkTime")
    BY <1>15, StoreThinkTimeDoes
  <2>2. PICK r \in WatchState :
          Moved(watcher["thinkTime"], r, "adjust") /\ watcher' = [watcher EXCEPT !["thinkTime"] = r]
    BY <1>15, StoreThinkTimeDoes
  <2> QED
    BY <1>13, <1>15, <2>1, <2>2 DEF Moved
<1>16. ASSUME "rate" \in Watchers, ApplyRate PROVE Kept
  <2>1. PICK r \in WatchState :
          /\ watcher["rate"].pc = "apply" /\ Moved(watcher["rate"], r, "store")
          /\ watcher' = [watcher EXCEPT !["rate"] = r]
          /\ UNCHANGED <<fileVars, mainVars, taskObjectMap, pending>>
    BY <1>16, ApplyRateDoes
  <2>2. UNCHANGED <<profile, truncated, tasks>>
    BY <2>1 DEF fileVars, mainVars
  <2>3. CASE w = "rate"
    <3>1. ASSUME NEW k \in DOMAIN tasks PROVE Fresh(w, k)'
      <4>1. r.todo = q.todo /\ r.pc = "store"
        BY <1>1, <2>1, <2>3 DEF Moved
      <4> QED
        BY <1>1, <2>1, <2>2, <2>3, <4>1, FreshMoved
    <3> QED
      BY <2>2, <3>1
  <2>4. CASE w # "rate"
    BY <1>4, <1>16, <2>1, <2>2, <2>4
  <2> QED
    BY <2>3, <2>4
<1>17. ASSUME "thinkTime" \in Watchers, ApplyThinkTime PROVE Kept
  <2>1. PICK r \in WatchState :
          /\ watcher["thinkTime"].pc = "adjust" /\ r.todo = watcher["thinkTime"].todo
          /\ r.pc \in {"wait", "next"}
          /\ watcher' = [watcher EXCEPT !["thinkTime"] = r]
          /\ UNCHANGED <<fileVars, mainVars, taskObjectMap, pending>>
    BY <1>17, ApplyThinkTimeDoes
  <2>2. UNCHANGED <<profile, truncated, tasks>>
    BY <2>1 DEF fileVars, mainVars
  <2>3. CASE w = "thinkTime"
    <3>1. ASSUME NEW k \in DOMAIN tasks PROVE Fresh(w, k)'
      BY <1>1, <2>1, <2>2, <2>3, FreshMoved
    <3> QED
      BY <2>2, <3>1
  <2>4. CASE w # "thinkTime"
    BY <1>4, <1>17, <2>1, <2>2, <2>4
  <2> QED
    BY <2>3, <2>4
<1>18. ASSUME "concurrency" \in Watchers, ApplyConcurrency PROVE Kept
  <2>1. PICK r \in WatchState :
          watcher' = [watcher EXCEPT !["concurrency"] = r]
          /\ UNCHANGED <<fileVars, mainVars, taskObjectMap, pending>>
    BY <1>18, ApplyConcurrencyDoes
  <2>2. UNCHANGED <<profile, truncated, tasks>>
    BY <2>1 DEF fileVars, mainVars
  <2> QED
    BY <1>4, <1>18, <2>1, <2>2
<1>19. ASSUME NEW v \in Watchers, Watch(v) PROVE Kept
  BY <1>10, <1>11, <1>12, <1>14, <1>15, <1>16, <1>17, <1>18, <1>19 DEF Watch
<1>20. ASSUME UNCHANGED vars PROVE Kept
  BY <1>3, <1>20 DEF vars, fileVars, mainVars, watchVars
<1> QED
  BY <1>5, <1>6, <1>7, <1>8, <1>9, <1>19, <1>20 DEF Next, Main

\* When the watchers have dealt with every event, the pools work with the rate
\* and the think time of the profile (TaskUpdateExecutor and
\* ThinkTimeUpdateExecutor of main.go), unless a change met no task or a watcher
\* overwrote what another one had stored.
THEOREM FollowsProfileCorrect == Spec => []FollowsProfile
<1>1. Init => Followed
  <2> SUFFICES ASSUME Init PROVE Followed
    OBVIOUS
  <2>1. PICK W \in Watching : watcher = [w \in W |-> Look({})]
    BY DEF Init
  <2>2. DOMAIN pool = {} /\ DOMAIN tasks = {}
    BY DEF Init
  <2>3. \A w \in Watchers : watcher[w].pc = "wait"
    BY <2>1 DEF Watchers, Look
  <2>4. Aligned
    BY <2>2, <2>3 DEF Aligned, Copied
  <2> QED
    BY <2>2, <2>4 DEF Followed
<1>2. Typed /\ Followed /\ [Next]_vars => Followed'
  <2> SUFFICES ASSUME Typed, Followed, [Next]_vars, ~lost' PROVE Followed'
    BY DEF Followed
  <2>1. Remembered /\ Watchers' = Watchers
    BY HistoryKept, WatchersSame
  <2>2. Aligned
    BY <2>1 DEF Followed, Remembered
  <2>3. Aligned'
    BY <2>2, AlignedNext
  <2>4. ASSUME ~missed', NEW w \in Watchers, w \in {"rate", "thinkTime"}
        PROVE  \A k \in DOMAIN tasks' : Fresh(w, k)'
    <3>1. \A k \in DOMAIN tasks : Fresh(w, k)
      BY <2>1, <2>4 DEF Followed, Remembered
    <3> QED
      BY <2>2, <2>4, <3>1, FreshNext
  <2> QED
    BY <2>1, <2>3, <2>4 DEF Followed
<1>3. Typed /\ Followed => FollowsProfile
  <2> SUFFICES ASSUME Typed, Followed, AtRest, ~lost, ~missed, NEW k \in DOMAIN pool
               PROVE  /\ "rate" \in Watchers => pool[k].rate = profile[k].rate
                      /\ "thinkTime" \in Watchers => pool[k].thinkTime = profile[k].thinkTime
    BY DEF FollowsProfile
  <2>1. k \in DOMAIN tasks /\ k \in DOMAIN taskObjectMap /\ k \in DOMAIN profile
    BY Domains
  <2>2. PICK s \in Object : s = profile[k]
    BY <2>1, SettingsTyped DEF Typed, MainTyped
  <2>3. RateAligned(k) /\ ThinkTimeAligned(k)
    BY DEF Followed, Aligned
  <2>4. ASSUME NEW w \in Watchers, w \in {"rate", "thinkTime"}
        PROVE  watcher[w].pc = "wait" /\ taskObjectMap[k][w] = s[w]
    <3>1. watcher[w].pc = "wait" /\ pending[w] = 0 /\ ~truncated
      BY DEF AtRest, Settled
    <3>2. watcher[w].todo = {}
      BY <3>1, WatcherTyped DEF WatcherOK, Typed
    <3>3. ~Noticed(w, k) /\ ~At(w, k, {"apply", "store"})
      BY <3>1, <3>2 DEF Noticed, At
    <3>4. Fresh(w, k)
      BY <2>1, <2>4 DEF Followed
    <3> QED
      BY <2>1, <2>2, <3>1, <3>3, <3>4 DEF Fresh, Known
  <2>5. "rate" \in Watchers => pool[k].rate = s["rate"]
    BY <2>3, <2>4 DEF RateAligned, At
  <2>6. "thinkTime" \in Watchers => pool[k].thinkTime = s["thinkTime"]
    BY <2>3, <2>4 DEF ThinkTimeAligned, At
  <2> QED
    BY <2>2, <2>5, <2>6, NamedFields
<1> QED
  BY <1>1, <1>2, <1>3, TypedInit, TypedNext, PTL DEF Spec

=============================================================================
