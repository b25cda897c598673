-------------------------- MODULE WorkerPoolProofs --------------------------
(***************************************************************************)
(* Proofs about the whole pool at a fixed rate: its producers step like    *)
(* those of Producers, so that what is proved there holds here, and its    *)
(* Strickers stay until they are stopped.  Any number of producers and     *)
(* Strickers, any capacities of the channels.                              *)
(***************************************************************************)
EXTENDS WorkerPool, ProducersProofs

\* No producer finds another limiter than the one it remembers, because the
\* limiter is replaced only when no producer is alive.
Fresh ==
  \A p \in Producer :
    /\ pc[p] \notin {"checkCount", "takePill"}
    /\ pc[p] \in {"readCount", "loop", "send", "checkStop", "checkLimiter"} => current[p]

ProducersInv == TypeOK /\ WaitGroupExact /\ RunAccounting /\ TailInv /\ Fresh

\* The Strickers that a run has started so far are there, unless it is stopped.
StrickersInv ==
  /\ ~stopped /\ runPc = "strickers" => Strickers >= runI
  /\ StrickersStay

-----------------------------------------------------------------------------
(* The producers of a pool are those of Producers *)

LEMMA ProduceIsFixedRate ==
  ASSUME TypeOK, Fresh, NEW p \in Producer, Produce(p)
  PROVE  FixedRateStep(p)
<1>1. ~Adopt(p)
  BY DEF Fresh, Adopt, CheckCount, KeepPill, EndPill, Goto
<1> QED
  BY <1>1 DEF Produce, SendToken, Proceed, FixedRateStep

\* Every step of the pool is a step of its producers, is none of their
\* business, or counts one more Stricker.
LEMMA PoolStepIsStep ==
  ASSUME TypeOK, Fresh, [PoolNext]_workVars
  PROVE  [Next]_vars \/ SpawnStricker
<1>1. CASE Run \/ Stop
  BY <1>1 DEF Run, Stop, Next
<1>2. CASE Main
  BY <1>2 DEF Main, AllStrickersSpawned, SendTrigger, RunGoroutine, Next
<1>3. CASE \/ TakeTrigger \/ StrickerReceive \/ ExecutorDone \/ LineNeverComes
           \/ StrickerDecide \/ AddStricker
  BY <1>3 DEF TakeTrigger, StrickerReceive, ExecutorDone, LineNeverComes, StrickerDecide,
              AddStricker
<1>4. ASSUME NEW p \in Producer, Produce(p) PROVE [Next]_vars
  BY <1>4, ProduceIsFixedRate DEF Next
<1>5. CASE UNCHANGED workVars
  BY <1>5 DEF workVars
<1> QED
  BY <1>1, <1>2, <1>3, <1>4, <1>5 DEF PoolNext

LEMMA NextFresh ==
  ASSUME TypeOK, NoOrphan, Fresh, [Next]_vars
  PROVE  Fresh'
<1> USE DEF Fresh, TypeOK
<1>1. CASE StartRun
  BY <1>1 DEF StartRun, NoOrphan, Live
<1>2. CASE StopRunning \/ UNCHANGED vars
  BY <1>2 DEF StopRunning, StopTask, vars, producerVars
<1>3. CASE SpawnProducer
  BY <1>3 DEF SpawnProducer, TaskGenerator
<1>4. CASE ProducersSpawned \/ StrickersSpawned \/ Trigger \/ AnnounceEnd \/ AwaitDone
  BY <1>4 DEF ProducersSpawned, StrickersSpawned, Trigger, AnnounceEnd, AwaitDone,
              producerVars
<1>5. ASSUME NEW p \in Producer, ReceiveDone(p) PROVE Fresh'
  BY <1>5 DEF ReceiveDone, Leave
<1>6. ASSUME NEW p \in Producer, FixedRateStep(p) PROVE Fresh'
  BY <1>6 DEF FixedRateStep, Steady, ReadLimiter, ReadCount, NextTick, Deadline, Send,
              CheckStop, CheckLimiter, Goto
<1> QED
  BY <1>1, <1>2, <1>3, <1>4, <1>5, <1>6 DEF Next, RunGoroutine

LEMMA SpawnStrickerKeeps ==
  ASSUME ProducersInv, SpawnStricker
  PROVE  ProducersInv'
<1>1. UNCHANGED <<poolVars, producerVars, runPc, count, tailed>>
      /\ runPc = "strickers" /\ runI' = runI + 1
  BY DEF SpawnStricker
<1> QED
  BY <1>1 DEF ProducersInv, TypeOK, WaitGroupExact, RunAccounting, TailInv, Fresh, poolVars,
              producerVars, Live

LEMMA PoolNextProducersInv ==
  ASSUME ProducersInv, [PoolNext]_workVars
  PROVE  ProducersInv'
<1>1. CASE [Next]_vars
  <2>1. NoOrphan /\ Counted
    BY <1>1, AccountingNoOrphan, NextCounted DEF ProducersInv
  <2> QED
    BY <1>1, <2>1, NextTypeOK, CountedKeepsExact, NextRunAccounting, NextTailInv, NextFresh
       DEF ProducersInv
<1>2. CASE SpawnStricker
  BY <1>2, SpawnStrickerKeeps
<1> QED
  BY <1>1, <1>2, PoolStepIsStep DEF ProducersInv

LEMMA PoolInitProducersInv == PoolInit => ProducersInv
<1> SUFFICES ASSUME PoolInit PROVE ProducersInv
  OBVIOUS
<1>1. Init
  BY DEF PoolInit
<1>2. RunAccounting /\ TailInv /\ Fresh
  BY <1>1 DEF Init, RunAccounting, TailInv, Fresh
<1> QED
  BY <1>1, <1>2, InitTypeOK, InitExact DEF ProducersInv

\* With its Strickers, its bounded channels and the end of isTriggered that the
\* executor holds, a pool keeps what its producers promise: the wait group is
\* exact, no producer outlives its run, one token at most follows a stop.
THEOREM PoolProducersCorrect == PoolSpec => [](WaitGroupExact /\ NoOrphan /\ StopTail)
<1>1. ProducersInv => WaitGroupExact /\ NoOrphan /\ StopTail
  BY AccountingNoOrphan DEF ProducersInv, TailInv, StopTail
<1>2. ProducersInv /\ [PoolNext]_workVars => ProducersInv'
  BY PoolNextProducersInv
<1> QED
  BY <1>1, <1>2, PoolInitProducersInv, PTL DEF PoolSpec

\* A run of the whole pool is a barrier as well: nobody who waits for its
\* producers meets those of another run.
THEOREM PoolBarrierCorrect ==
  PoolSpec => Barrier!BarrierInit /\ [][Barrier!BarrierNext]_(Barrier!barrierVars)
<1>1. PoolInit => Barrier!BarrierInit
  BY InitIsBarrier DEF PoolInit
<1>2. ProducersInv /\ [PoolNext]_workVars => [Barrier!BarrierNext]_(Barrier!barrierVars)
  <2> SUFFICES ASSUME ProducersInv, [PoolNext]_workVars
               PROVE  [Barrier!BarrierNext]_(Barrier!barrierVars)
    OBVIOUS
  <2>1. CASE [Next]_vars
    BY <2>1, StepIsBarrier DEF ProducersInv
  <2>2. CASE SpawnStricker
    BY <2>2 DEF SpawnStricker, producerVars, Live, Barrier!barrierVars
  <2> QED
    BY <2>1, <2>2, PoolStepIsStep DEF ProducersInv
<1>3. ProducersInv /\ [PoolNext]_workVars => ProducersInv'
  BY PoolNextProducersInv
<1> QED
  BY <1>1, <1>2, <1>3, PoolInitProducersInv, PTL DEF PoolSpec

-----------------------------------------------------------------------------
(* Tokens, triggers and Strickers *)

\* The channels and the counts of Strickers are well typed.
WorkTyped ==
  /\ sync \in BOOLEAN /\ endless \in BOOLEAN
  /\ queue \in 0 .. QueueCap
  /\ triggers \in 0 .. TriggerCap /\ started \in BOOLEAN
  /\ receiving \in Nat /\ waiting \in Nat /\ deciding \in Nat /\ stuck \in Nat

\* Both channels may be empty.
LEMMA EmptyTyped == 0 \in 0 .. QueueCap /\ 0 \in 0 .. TriggerCap /\ 0 \in Nat
BY WorkerPoolConstants

LEMMA PoolInitWorkTyped == PoolInit => WorkTyped
BY EmptyTyped, Zenon DEF PoolInit, WorkTyped

LEMMA PoolNextWorkTyped ==
  ASSUME WorkTyped, [PoolNext]_workVars
  PROVE  WorkTyped'
<1> USE WorkerPoolConstants DEF WorkTyped, strickerVars, triggerVars, settingVars
<1>1. CASE Run
  BY <1>1, EmptyTyped, Zenon DEF Run
<1>9. CASE Stop
  BY <1>9 DEF Stop
<1>2. CASE Main
  BY <1>2 DEF Main, SpawnStricker, AllStrickersSpawned, SendTrigger
<1>3. CASE TakeTrigger
  BY <1>3 DEF TakeTrigger
<1>4. CASE StrickerReceive
  BY <1>4 DEF StrickerReceive
<1>5. CASE ExecutorDone \/ LineNeverComes
  BY <1>5 DEF ExecutorDone, LineNeverComes
<1>6. CASE StrickerDecide \/ AddStricker
  BY <1>6 DEF StrickerDecide, AddStricker
<1>7. ASSUME NEW p \in Producer, Produce(p) PROVE WorkTyped'
  BY <1>7 DEF Produce, SendToken
<1>8. CASE UNCHANGED workVars
  BY <1>8 DEF workVars
<1> QED
  BY <1>1, <1>2, <1>3, <1>4, <1>5, <1>6, <1>7, <1>8, <1>9 DEF PoolNext

\* The channels of a pool stay within their capacities.
THEOREM PoolTypeCorrect == PoolSpec => []PoolTypeOK
<1>1. PoolInit => WorkTyped
  BY PoolInitWorkTyped
<1>2. WorkTyped /\ [PoolNext]_workVars => WorkTyped'
  BY PoolNextWorkTyped
<1>3. ProducersInv /\ [PoolNext]_workVars => ProducersInv'
  BY PoolNextProducersInv
<1>4. ProducersInv /\ WorkTyped => PoolTypeOK
  BY DEF ProducersInv, WorkTyped, PoolTypeOK
<1> QED
  BY <1>1, <1>2, <1>3, <1>4, PoolInitProducersInv, PTL DEF PoolSpec

LEMMA PoolNextStrickersInv ==
  ASSUME ProducersInv, WorkTyped, StrickersInv, [PoolNext]_workVars
  PROVE  StrickersInv'
<1> USE DEF StrickersInv, StrickersStay, Strickers, WorkTyped
<1>0. runI \in Nat /\ stopped \in BOOLEAN /\ Concurrency \in Nat
  BY WorkerPoolConstants DEF ProducersInv, TypeOK
<1>1. CASE Run
  BY <1>1 DEF Run, StartRun
<1>2. CASE Stop
  BY <1>2 DEF Stop, StopRunning, StopTask
<1>3. CASE SpawnStricker
  BY <1>0, <1>3 DEF SpawnStricker, poolVars
<1>4. CASE AllStrickersSpawned
  BY <1>0, <1>4 DEF AllStrickersSpawned, StrickersSpawned, RunGoto, poolVars, strickerVars
<1>5. CASE Main /\ ~SpawnStricker /\ ~AllStrickersSpawned
  <2>1. UNCHANGED strickerVars /\ stopped' = stopped
    BY <1>5 DEF Main, SendTrigger, Trigger, SpawnProducer, ProducersSpawned, AnnounceEnd,
                AwaitDone, ReceiveDone, poolVars
  <2>2. \/ runPc' \in {"producers", "ended"}
        \/ runPc' = "strickers" /\ runI' = 0
        \/ {runPc, runPc'} \subseteq {"trigger", "check", "recvDone"}
    BY <1>5 DEF Main, SendTrigger, Trigger, SpawnProducer, ProducersSpawned, AnnounceEnd,
                AwaitDone, ReceiveDone, RunGoto
  <2> QED
    BY <1>0, <2>1, <2>2 DEF strickerVars
<1>6. CASE \/ TakeTrigger \/ StrickerReceive \/ ExecutorDone \/ LineNeverComes
           \/ StrickerDecide \/ AddStricker
  <2>1. UNCHANGED <<stopped, runPc, runI>>
    BY <1>6 DEF TakeTrigger, StrickerReceive, ExecutorDone, LineNeverComes, StrickerDecide,
                AddStricker, vars, poolVars, runVars
  <2>2. ~stopped => Strickers' >= Strickers
    BY <1>6 DEF TakeTrigger, StrickerReceive, ExecutorDone, LineNeverComes, StrickerDecide,
                AddStricker, strickerVars
  <2>3. Strickers \in Int /\ Strickers' \in Int
    <3>1. WorkTyped'
      BY PoolNextWorkTyped
    <3> QED
      BY <3>1
  <2> HIDE DEF Strickers
  <2> QED
    BY <1>0, <2>1, <2>2, <2>3
<1>7. ASSUME NEW p \in Producer, Produce(p) PROVE StrickersInv'
  <2>1. FixedRateStep(p) /\ UNCHANGED strickerVars
    BY <1>7, ProduceIsFixedRate DEF ProducersInv, Produce, SendToken
  <2>2. UNCHANGED <<stopped, runVars>>
    BY <2>1 DEF FixedRateStep, Steady, ReadLimiter, ReadCount, NextTick, Deadline, Send,
                CheckStop, CheckLimiter, poolVars
  <2> QED
    BY <2>1, <2>2 DEF strickerVars, runVars
<1>8. CASE UNCHANGED workVars
  BY <1>8 DEF workVars, vars, poolVars, runVars, strickerVars
<1> QED
  BY <1>1, <1>2, <1>3, <1>4, <1>5, <1>6, <1>7, <1>8 DEF PoolNext

\* No Stricker leaves the pool until the task is stopped, however many runs there
\* were before and whatever their Strickers are doing.
THEOREM StrickersStayCorrect == PoolSpec => []StrickersStay
<1>1. PoolInit => WorkTyped /\ StrickersInv
  BY PoolInitWorkTyped DEF PoolInit, Init, StrickersInv, StrickersStay
<1>2. ProducersInv /\ WorkTyped /\ StrickersInv /\ [PoolNext]_workVars =>
        ProducersInv' /\ WorkTyped' /\ StrickersInv'
  BY PoolNextProducersInv, PoolNextWorkTyped, PoolNextStrickersInv
<1>3. StrickersInv => StrickersStay
  BY DEF StrickersInv
<1> QED
  BY <1>1, <1>2, <1>3, PoolInitProducersInv, PTL DEF PoolSpec
=============================================================================
