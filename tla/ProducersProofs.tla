-------------------------- MODULE ProducersProofs --------------------------
(***************************************************************************)
(* Proofs about the producers of a pool at a fixed rate, for any number of *)
(* producers and any rates, and lemmas about single steps that the proofs  *)
(* about a changing rate use as well.                                      *)
(***************************************************************************)
EXTENDS Producers, TLAPS, FiniteSetTheorems, SequenceTheorems

\* The number of producers for a rate is a natural number.
LEMMA SpawnCountNat ==
  ASSUME NEW r \in Rates
  PROVE  GetTaskGeneratorSpawnCount(r) \in Nat
<1>1. r \in Nat \ {0} /\ Base \in Nat \ {0}
  BY ProducersConstants, BasePositive
<1>2. r + Base - 1 \in Nat
  BY <1>1
<1> QED
  BY <1>1, <1>2, SMT DEF GetTaskGeneratorSpawnCount

\* The producers of a pool are finitely many.
LEMMA LiveFinite == IsFiniteSet(Live)
  BY ProducersConstants, FS_Subset DEF Live

\* Starting a producer in a free slot adds one live producer.
LEMMA JoinAddsOne ==
  ASSUME TypeOK, NEW p \in Producer, pc[p] = "none",
         pc' = [pc EXCEPT ![p] = "readLimiter"]
  PROVE  p \notin Live /\ Live' = Live \cup {p}
         /\ Cardinality(Live') = Cardinality(Live) + 1
<1>1. p \notin Live /\ Live' = Live \cup {p}
  BY DEF TypeOK, Live
<1> QED
  BY <1>1, LiveFinite, FS_AddElement

\* A goroutine that leaves takes one producer away.
LEMMA LeaveRemovesOne ==
  ASSUME TypeOK, NEW p \in Producer, pc[p] # "none",
         pc' = [pc EXCEPT ![p] = "none"]
  PROVE  p \in Live /\ Live' = Live \ {p}
         /\ Cardinality(Live') = Cardinality(Live) - 1
<1>1. p \in Live /\ Live' = Live \ {p}
  BY DEF TypeOK, Live
<1> QED
  BY <1>1, LiveFinite, FS_RemoveElement

\* A producer that goes on to another point of its loop stays alive.
LEMMA GotoKeepsLive ==
  ASSUME TypeOK, NEW p \in Producer, NEW from \in ProducerPoints \ {"none"},
         NEW to \in ProducerPoints \ {"none"}, Goto(p, from, to)
  PROVE  Live' = Live
  BY DEF TypeOK, Live, Goto

-----------------------------------------------------------------------------
(* Type correctness *)

LEMMA InitTypeOK == Init => TypeOK
<1> SUFFICES ASSUME Init PROVE TypeOK
  OBVIOUS
<1>1. pills = <<>>
  BY DEF Init
<1>2. pills \in Seq(BOOLEAN)
  BY <1>1, EmptySeq, Zenon
<1>3. /\ rate \in Rates /\ stopped \in BOOLEAN /\ waitGroup \in Int
      /\ pc \in [Producer -> ProducerPoints]
      /\ current \in [Producer -> BOOLEAN] /\ myCount \in [Producer -> Nat]
      /\ late \in [Producer -> BOOLEAN]
      /\ runPc \in RunPoints /\ runI \in Nat /\ count \in Nat
      /\ tailed \subseteq Producer
  <2>1. /\ rate \in Rates /\ stopped = FALSE /\ waitGroup = 0
        /\ pc = [p \in Producer |-> "none"]
        /\ current = [p \in Producer |-> FALSE]
        /\ myCount = [p \in Producer |-> 0]
        /\ late = [p \in Producer |-> FALSE]
        /\ runPc = "idle" /\ runI = 0 /\ count = 0
        /\ tailed = {}
    BY Zenon DEF Init
  <2>2. pc \in [Producer -> ProducerPoints] /\ current \in [Producer -> BOOLEAN]
        /\ myCount \in [Producer -> Nat] /\ late \in [Producer -> BOOLEAN]
    BY <2>1 DEF ProducerPoints
  <2>3. runPc \in RunPoints
    BY <2>1 DEF RunPoints
  <2>4. waitGroup \in Int /\ runI \in Nat /\ count \in Nat
    BY <2>1
  <2>5. stopped \in BOOLEAN /\ tailed \subseteq Producer
    BY <2>1, Zenon
  <2> QED
    BY <2>1, <2>2, <2>3, <2>4, <2>5
<1> QED
  BY <1>2, <1>3, Zenon DEF TypeOK

\* Taking a pill leaves a sequence of pills.
LEMMA TailTyped ==
  ASSUME TypeOK, pills # <<>>
  PROVE  Tail(pills) \in Seq(BOOLEAN)
<1>1. pills \in Seq(BOOLEAN)
  BY DEF TypeOK
<1> QED
  BY <1>1, HeadTailProperties

LEMMA RunTypeOK ==
  ASSUME TypeOK, RunGoroutine
  PROVE  TypeOK'
<1> USE DEF TypeOK, ProducerPoints, RunPoints, poolVars, producerVars, runVars, RunGoto
<1>1. CASE SpawnProducer
  BY <1>1 DEF SpawnProducer, TaskGenerator
<1>2. CASE ProducersSpawned
  BY <1>2 DEF ProducersSpawned
<1>3. CASE StrickersSpawned
  BY <1>3 DEF StrickersSpawned
<1>4. CASE Trigger
  BY <1>4 DEF Trigger
<1>5. CASE AnnounceEnd
  BY <1>5 DEF AnnounceEnd
<1>6. CASE AwaitDone
  BY <1>6 DEF AwaitDone
<1>7. CASE \E p \in Producer : ReceiveDone(p)
  BY <1>7 DEF ReceiveDone, Leave
<1> QED
  BY <1>1, <1>2, <1>3, <1>4, <1>5, <1>6, <1>7 DEF RunGoroutine

LEMMA ProducerTypeOK ==
  ASSUME TypeOK, NEW p \in Producer, ProducerStep(p)
  PROVE  TypeOK'
<1> USE DEF TypeOK, ProducerPoints, poolVars, producerVars, runVars, Goto
<1>1. CASE ReadLimiter(p)
  BY <1>1 DEF ReadLimiter
<1>2. CASE ReadCount(p)
  BY <1>2, SpawnCountNat DEF ReadCount
<1>3. CASE NextTick(p)
  BY <1>3 DEF NextTick
<1>4. CASE Deadline(p)
  BY <1>4 DEF Deadline
<1>5. CASE CheckStop(p)
  BY <1>5 DEF CheckStop
<1>6. CASE CheckLimiter(p)
  BY <1>6 DEF CheckLimiter
<1>7. CASE CheckCount(p)
  BY <1>7 DEF CheckCount
<1>8. CASE KeepPill(p)
  <2>1. pills' \in Seq(BOOLEAN)
    BY <1>8, TailTyped DEF KeepPill
  <2>2. pc' \in [Producer -> ProducerPoints]
        /\ UNCHANGED <<rate, stopped, waitGroup, current, myCount, late, runVars, tailed>>
    BY <1>8 DEF KeepPill
  <2> QED
    BY <2>1, <2>2, Zenon
<1>9. CASE EndPill(p)
  <2>1. pills' \in Seq(BOOLEAN)
    BY <1>9, TailTyped DEF EndPill
  <2>2. Leave(p) /\ UNCHANGED <<rate, stopped, runVars>>
    BY <1>9, Zenon DEF EndPill
  <2> QED
    BY <2>1, <2>2 DEF Leave
<1>10. CASE Send(p)
  BY <1>10 DEF Send
<1> QED
  BY <1>1, <1>2, <1>3, <1>4, <1>5, <1>6, <1>7, <1>8, <1>9, <1>10
  DEF ProducerStep, Proceed, Steady, Adopt

LEMMA NextTypeOK == TypeOK /\ [Next]_vars => TypeOK'
<1> SUFFICES ASSUME TypeOK, [Next]_vars PROVE TypeOK'
  OBVIOUS
<1>1. CASE StartRun
  BY <1>1 DEF StartRun, ReplaceLimiter, TypeOK, RunPoints
<1>2. CASE StopRunning
  BY <1>2 DEF StopRunning, StopTask, TypeOK, producerVars, runVars
<1>3. CASE RunGoroutine
  BY <1>3, RunTypeOK
<1>4. CASE \E p \in Producer : ProducerStep(p)
  BY <1>4, ProducerTypeOK
<1>5. CASE UNCHANGED vars
  BY <1>5 DEF vars, poolVars, producerVars, runVars, TypeOK
<1> QED
  BY <1>1, <1>2, <1>3, <1>4, <1>5 DEF Next, FixedRateStep, ProducerStep, Proceed

\* Every variable stays within its type.
THEOREM TypeCorrect == Spec => []TypeOK
<1> QED
  BY InitTypeOK, NextTypeOK, PTL DEF Spec

-----------------------------------------------------------------------------
(* The wait group *)

\* What a step does to the producers and to their wait group, at once.
Counted ==
  \/ Live' = Live /\ waitGroup' = waitGroup
  \/ \E p \in Producer : /\ p \notin Live /\ Live' = Live \cup {p}
                         /\ waitGroup' = waitGroup + 1
  \/ \E p \in Producer : /\ p \in Live /\ Live' = Live \ {p}
                         /\ waitGroup' = waitGroup - 1

LEMMA SpawnCounted ==
  ASSUME TypeOK, TaskGenerator
  PROVE  \E p \in Producer : /\ p \notin Live /\ Live' = Live \cup {p}
                             /\ waitGroup' = waitGroup + 1
<1>1. PICK p \in Producer : /\ pc[p] = "none"
                            /\ pc' = [pc EXCEPT ![p] = "readLimiter"]
                            /\ waitGroup' = waitGroup + 1
  BY DEF TaskGenerator
<1> QED
  BY <1>1, JoinAddsOne

LEMMA LeaveCounted ==
  ASSUME TypeOK, NEW p \in Producer, pc[p] # "none", Leave(p)
  PROVE  p \in Live /\ Live' = Live \ {p} /\ waitGroup' = waitGroup - 1
  BY LeaveRemovesOne DEF Leave

LEMMA ProducerCounted ==
  ASSUME TypeOK, NEW p \in Producer, ProducerStep(p)
  PROVE  \/ Live' = Live /\ waitGroup' = waitGroup
         \/ EndPill(p) /\ p \in Live /\ Live' = Live \ {p} /\ waitGroup' = waitGroup - 1
<1>1. CASE EndPill(p)
  BY <1>1, LeaveCounted DEF EndPill
<1>2. CASE ~EndPill(p)
  <2>1. \E from, to \in ProducerPoints \ {"none"} : Goto(p, from, to)
    BY <1>2 DEF ProducerStep, Proceed, Steady, Adopt, ReadLimiter, ReadCount, NextTick,
                Deadline, Send,
                CheckStop, CheckLimiter, CheckCount, KeepPill, ProducerPoints
  <2>2. waitGroup' = waitGroup
    BY <1>2 DEF ProducerStep, Proceed, Steady, Adopt, ReadLimiter, ReadCount, NextTick,
                Deadline, Send,
                CheckStop, CheckLimiter, CheckCount, KeepPill, poolVars
  <2> QED
    BY <2>1, <2>2, GotoKeepsLive
<1> QED
  BY <1>1, <1>2

LEMMA RunCounted ==
  ASSUME TypeOK, RunGoroutine
  PROVE  Counted
<1> USE DEF Counted
<1>1. CASE SpawnProducer
  BY <1>1, SpawnCounted DEF SpawnProducer
<1>2. CASE \E p \in Producer : ReceiveDone(p)
  BY <1>2, LeaveCounted DEF ReceiveDone
<1>3. CASE ProducersSpawned \/ StrickersSpawned \/ Trigger \/ AnnounceEnd \/ AwaitDone
  BY <1>3 DEF ProducersSpawned, StrickersSpawned, Trigger, AnnounceEnd, AwaitDone,
              poolVars, producerVars, Live
<1> QED
  BY <1>1, <1>2, <1>3 DEF RunGoroutine

\* Whatever changes the producers and their wait group together keeps the
\* wait group exact.
LEMMA CountedKeepsExact ==
  ASSUME WaitGroupExact, Counted
  PROVE  WaitGroupExact'
<1> USE LiveFinite DEF WaitGroupExact
<1>1. CASE Live' = Live /\ waitGroup' = waitGroup
  BY <1>1
<1>2. ASSUME NEW p \in Producer, p \notin Live, Live' = Live \cup {p},
             waitGroup' = waitGroup + 1
      PROVE  WaitGroupExact'
  BY <1>2, FS_AddElement
<1>3. ASSUME NEW p \in Producer, p \in Live, Live' = Live \ {p},
             waitGroup' = waitGroup - 1
      PROVE  WaitGroupExact'
  BY <1>3, FS_RemoveElement
<1> QED
  BY <1>1, <1>2, <1>3 DEF Counted

LEMMA NextCounted ==
  ASSUME TypeOK, [Next]_vars
  PROVE  Counted
<1>1. CASE RunGoroutine
  BY <1>1, RunCounted
<1>2. CASE \E p \in Producer : ProducerStep(p)
  BY <1>2, ProducerCounted DEF Counted
<1>3. CASE StartRun \/ StopRunning \/ UNCHANGED vars
  BY <1>3 DEF StartRun, StopRunning, StopTask, vars, poolVars, producerVars, Live, Counted
<1> QED
  BY <1>1, <1>2, <1>3 DEF Next, FixedRateStep, ProducerStep, Proceed

LEMMA InitExact == Init => WaitGroupExact
<1> SUFFICES ASSUME Init PROVE WaitGroupExact
  OBVIOUS
<1>1. Live = {}
  BY DEF Init, Live
<1> QED
  BY <1>1, FS_EmptySet DEF Init, WaitGroupExact

\* The wait group counts exactly the live producers, however many there are:
\* WaitForTaskToComplete and StopTask return when the last one is gone.
THEOREM WaitGroupCorrect == Spec => []WaitGroupExact
<1>1. TypeOK /\ WaitGroupExact /\ [Next]_vars => WaitGroupExact'
  BY NextCounted, CountedKeepsExact
<1> QED
  BY <1>1, InitExact, TypeCorrect, PTL DEF Spec

-----------------------------------------------------------------------------
(* The end of a run *)

\* StopTail and why it holds: only a stopped task has a producer that queued a
\* token after StopTask, and that producer is past the point where it queues.
TailInv == \A p \in tailed : stopped /\ pc[p] \in {"checkStop", "finish"}

\* The live producers of a run and its reports add up to what the rate calls
\* for; nobody sends pills.  This is what makes the announced end the end.
RunAccounting ==
  /\ pills = <<>>
  /\ runPc \in {"idle", "ended"} => waitGroup = 0
  /\ runPc = "producers" =>
       waitGroup = runI /\ count = 0 /\ runI <= GetTaskGeneratorSpawnCount(rate)
  /\ runPc \in {"strickers", "trigger", "check", "recvDone"} =>
       waitGroup + count = GetTaskGeneratorSpawnCount(rate)

LEMMA NextTailInv == TypeOK /\ TailInv /\ [Next]_vars => TailInv'
<1> SUFFICES ASSUME TypeOK, TailInv, [Next]_vars PROVE TailInv'
  OBVIOUS
<1> USE DEF TailInv, TypeOK
<1>1. CASE StartRun
  BY <1>1 DEF StartRun
<1>2. CASE StopRunning
  BY <1>2 DEF StopRunning, StopTask, producerVars
<1>3. CASE SpawnProducer
  BY <1>3 DEF SpawnProducer, TaskGenerator
<1>4. CASE ProducersSpawned \/ StrickersSpawned \/ Trigger \/ AnnounceEnd \/ AwaitDone
  BY <1>4 DEF ProducersSpawned, StrickersSpawned, Trigger, AnnounceEnd, AwaitDone,
              poolVars, producerVars
<1>5. ASSUME NEW p \in Producer, ReceiveDone(p) PROVE TailInv'
  BY <1>5 DEF ReceiveDone, Leave
<1>6. ASSUME NEW p \in Producer, FixedRateStep(p) PROVE TailInv'
  <2>1. CASE Send(p)
    BY <2>1 DEF Send, Goto
  <2>2. CASE CheckStop(p) \/ Deadline(p)
    BY <2>2 DEF CheckStop, Deadline, Goto, poolVars
  <2>3. CASE ReadLimiter(p) \/ ReadCount(p) \/ NextTick(p) \/ CheckLimiter(p)
    BY <2>3 DEF ReadLimiter, ReadCount, NextTick, CheckLimiter, Goto, poolVars
  <2> QED
    BY <1>6, <2>1, <2>2, <2>3 DEF FixedRateStep, Steady
<1>7. CASE UNCHANGED vars
  BY <1>7 DEF vars, poolVars, producerVars
<1> QED
  BY <1>1, <1>2, <1>3, <1>4, <1>5, <1>6, <1>7 DEF Next, RunGoroutine

\* A producer queues at most one token after StopTask, at any scale.
THEOREM StopTailCorrect == Spec => []StopTail
<1>1. Init => TailInv
  BY DEF Init, TailInv
<1>2. TailInv => StopTail
  BY DEF TailInv, StopTail
<1> QED
  BY <1>1, <1>2, NextTailInv, TypeCorrect, PTL DEF Spec

LEMMA NextRunAccounting ==
  TypeOK /\ WaitGroupExact /\ RunAccounting /\ [Next]_vars => RunAccounting'
<1> SUFFICES ASSUME TypeOK, WaitGroupExact, RunAccounting, [Next]_vars
             PROVE  RunAccounting'
  OBVIOUS
<1> DEFINE S == GetTaskGeneratorSpawnCount(rate)
<1>0. S \in Nat /\ waitGroup \in Nat /\ count \in Nat /\ runI \in Nat
  BY SpawnCountNat, LiveFinite, FS_CardinalityType DEF TypeOK, WaitGroupExact
<1>1. CASE StartRun
  BY <1>0, <1>1 DEF StartRun, RunAccounting
<1>2. CASE StopRunning \/ UNCHANGED vars
  BY <1>0, <1>2 DEF StopRunning, StopTask, vars, poolVars, producerVars, runVars,
                    RunAccounting
<1>3. CASE SpawnProducer
  BY <1>0, <1>3 DEF SpawnProducer, TaskGenerator, RunAccounting
<1>4. CASE ProducersSpawned
  BY <1>0, <1>4 DEF ProducersSpawned, RunGoto, poolVars, RunAccounting
<1>5. CASE StrickersSpawned \/ Trigger \/ AwaitDone
  BY <1>0, <1>5 DEF StrickersSpawned, Trigger, AwaitDone, RunGoto, poolVars, RunAccounting
<1>6. CASE AnnounceEnd
  BY <1>0, <1>6 DEF AnnounceEnd, RunGoto, poolVars, RunAccounting
<1>7. ASSUME NEW p \in Producer, ReceiveDone(p) PROVE RunAccounting'
  BY <1>0, <1>7 DEF ReceiveDone, Leave, RunGoto, RunAccounting
<1>8. ASSUME NEW p \in Producer, FixedRateStep(p) PROVE RunAccounting'
  <2>1. UNCHANGED <<rate, pills, waitGroup, runVars>>
    BY <1>8 DEF FixedRateStep, Steady, ReadLimiter, ReadCount, NextTick, Deadline,
                Send, CheckStop, CheckLimiter, poolVars
  <2> QED
    BY <2>1 DEF runVars, RunAccounting, GetTaskGeneratorSpawnCount
<1> QED
  BY <1>1, <1>2, <1>3, <1>4, <1>5, <1>6, <1>7, <1>8 DEF Next, RunGoroutine

THEOREM AccountingCorrect == Spec => []RunAccounting
<1>1. Init => RunAccounting
  BY DEF Init, RunAccounting
<1> QED
  BY <1>1, NextRunAccounting, TypeCorrect, WaitGroupCorrect, PTL DEF Spec

LEMMA AccountingNoOrphan == TypeOK /\ WaitGroupExact /\ RunAccounting => NoOrphan
  BY LiveFinite, FS_EmptySet DEF RunAccounting, WaitGroupExact, NoOrphan

\* While nobody changes the rate, the announced end of a task is the end of
\* all its producers, for every rate and every number of them.
THEOREM NoOrphanCorrect == Spec => []NoOrphan
<1> QED
  BY AccountingNoOrphan, TypeCorrect, WaitGroupCorrect, AccountingCorrect, PTL

-----------------------------------------------------------------------------
(* A run is a barrier *)

LEMMA InitIsBarrier == Init => Barrier!BarrierInit
  BY DEF Init, Barrier!BarrierInit, Live

LEMMA StepIsBarrier ==
  TypeOK /\ WaitGroupExact /\ RunAccounting /\ [Next]_vars
    => [Barrier!BarrierNext]_(Barrier!barrierVars)
<1> SUFFICES ASSUME TypeOK, WaitGroupExact, RunAccounting, [Next]_vars
             PROVE  [Barrier!BarrierNext]_(Barrier!barrierVars)
  OBVIOUS
<1> USE DEF Barrier!BarrierNext, Barrier!barrierVars
<1>0. NoOrphan
  BY AccountingNoOrphan
<1>1. CASE StartRun
  BY <1>1 DEF StartRun, Live, Barrier!Begin
<1>2. CASE StopRunning \/ UNCHANGED vars
  BY <1>2 DEF StopRunning, StopTask, vars, poolVars, producerVars, runVars, Live
<1>3. CASE SpawnProducer
  <2>1. PICK p \in Producer : p \notin Live /\ Live' = Live \cup {p}
    BY <1>3, SpawnCounted DEF SpawnProducer
  <2> QED
    BY <1>3, <2>1 DEF SpawnProducer, Barrier!Join
<1>4. CASE ProducersSpawned
  BY <1>4 DEF ProducersSpawned, RunGoto, producerVars, Live, Barrier!Close
<1>5. CASE StrickersSpawned \/ Trigger \/ AwaitDone
  BY <1>5 DEF StrickersSpawned, Trigger, AwaitDone, RunGoto, producerVars, Live
<1>6. CASE AnnounceEnd
  <2>1. Live = {} /\ Live' = Live
    <3>1. waitGroup = 0
      <4>1. GetTaskGeneratorSpawnCount(rate) \in Nat /\ waitGroup \in Nat /\ count \in Nat
        BY SpawnCountNat, LiveFinite, FS_CardinalityType DEF TypeOK, WaitGroupExact
      <4> QED
        BY <1>6, <4>1 DEF AnnounceEnd, RunGoto, RunAccounting
    <3> QED
      BY <1>6, <3>1, LiveFinite, FS_EmptySet DEF WaitGroupExact, AnnounceEnd, producerVars, Live
  <2> QED
    BY <1>6, <2>1 DEF AnnounceEnd, RunGoto, Barrier!Announce
<1>7. ASSUME NEW p \in Producer, ReceiveDone(p)
      PROVE  [Barrier!BarrierNext]_(Barrier!barrierVars)
  BY <1>7, LeaveCounted DEF ReceiveDone, RunGoto, Barrier!Depart
<1>8. ASSUME NEW p \in Producer, FixedRateStep(p)
      PROVE  [Barrier!BarrierNext]_(Barrier!barrierVars)
  <2>1. runPc' = runPc
    BY <1>8 DEF FixedRateStep, Steady, ReadLimiter, ReadCount, NextTick, Deadline,
                Send, CheckStop, CheckLimiter, runVars
  <2>2. ProducerStep(p) /\ ~EndPill(p)
    BY <1>8 DEF FixedRateStep, ProducerStep, Proceed, Steady, EndPill, ReadLimiter, ReadCount,
                NextTick, Deadline, Send, CheckStop, CheckLimiter, Goto, Leave, RunAccounting
  <2> QED
    BY <2>1, <2>2, ProducerCounted
<1> QED
  BY <1>1, <1>2, <1>3, <1>4, <1>5, <1>6, <1>7, <1>8 DEF Next, RunGoroutine

\* Every step of the pool is a step of the barrier or changes nothing in it.
\* (That the barrier also makes progress is checked by TLC.)
THEOREM BarrierCorrect ==
  Spec => Barrier!BarrierInit /\ [][Barrier!BarrierNext]_(Barrier!barrierVars)
<1> QED
  BY InitIsBarrier, StepIsBarrier, TypeCorrect, WaitGroupCorrect, AccountingCorrect, PTL
  DEF Spec
=============================================================================
