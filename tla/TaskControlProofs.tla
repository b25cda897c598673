------------------------- MODULE TaskControlProofs -------------------------
(***************************************************************************)
(* Proofs about a task whose rate any number of clients change, stop and   *)
(* restart at the same time; then about updates of the rate that do not    *)
(* overlap another call, the first spawns or the end of a run: the copies  *)
(* of the rate agree again, and producers, reports and pills add up, for   *)
(* any rates and any number of updates, runs and stops.                    *)
(***************************************************************************)
EXTENDS TaskControl, ProducersProofs

-----------------------------------------------------------------------------
(* Type correctness *)

\* The part of the type invariant that is not about history.
WorkTypeOK == TypeOK /\ ControlTypeOK

LEMMA TaskInitTypeOK == TaskInit => WorkTypeOK
<1> SUFFICES ASSUME TaskInit PROVE WorkTypeOK
  OBVIOUS
<1>1. TypeOK
  BY InitTypeOK DEF TaskInit
<1>2. rate \in Rates /\ Rates \subseteq Nat
  BY <1>1, ProducersConstants DEF TypeOK
<1>3. active \in BOOLEAN
  BY Zenon DEF TaskInit
<1>4. ControlTypeOK
  BY <1>2, <1>3, TaskControlConstants
  DEF TaskInit, ControlTypeOK, UpdaterPoints, StopPoints
<1> QED
  BY <1>1, <1>4 DEF WorkTypeOK

LEMMA UnchangedTypeOK == TypeOK /\ UNCHANGED vars => TypeOK'
  BY DEF TypeOK, vars, poolVars, producerVars, runVars

\* Sending a pill leaves a sequence of pills.
LEMMA PushTyped ==
  ASSUME TypeOK
  PROVE  Append(pills, TRUE) \in Seq(BOOLEAN) /\ Append(pills, FALSE) \in Seq(BOOLEAN)
<1>1. pills \in Seq(BOOLEAN)
  BY DEF TypeOK
<1>2. TRUE \in BOOLEAN /\ FALSE \in BOOLEAN
  BY Zenon
<1> QED
  BY <1>1, <1>2, AppendProperties

\* The steps of UpdateTaskRate.
LEMMA UpdateTypeOK ==
  ASSUME WorkTypeOK, NEW u \in Updaters, UpdateTaskRate(u)
  PROVE  WorkTypeOK'
<1> USE DEF WorkTypeOK
<1> DEFINE E == GetTaskGeneratorSpawnCount(rate)
<1>0. E \in Nat /\ Rates \subseteq Nat
  BY SpawnCountNat, ProducersConstants DEF TypeOK
<1>1. CASE CurrentProducers(u)
  BY <1>0, <1>1, UnchangedTypeOK
  DEF CurrentProducers, Step, ControlTypeOK, UpdaterPoints, taskVars, clientVars, historyVars
<1>2. CASE SetRateLimiter(u)
  <2>1. TypeOK'
    BY <1>2 DEF SetRateLimiter, ReplaceLimiter, TypeOK, poolVars, runVars
  <2>2. ControlTypeOK'
    BY <1>2 DEF SetRateLimiter, Step, ControlTypeOK, UpdaterPoints, clientVars, historyVars
  <2> QED
    BY <2>1, <2>2
<1>3. CASE SetTaskRate(u)
  <2>1. TypeOK'
    BY <1>3 DEF SetTaskRate, Step, TypeOK, ControlTypeOK, producerVars, runVars
  <2>2. ControlTypeOK'
    BY <1>3
    DEF SetTaskRate, Step, ControlTypeOK, UpdaterPoints, taskVars, clientVars, historyVars
  <2> QED
    BY <2>1, <2>2
<1>4. CASE PlanProducers(u)
  BY <1>0, <1>4, UnchangedTypeOK
  DEF PlanProducers, Step, ControlTypeOK, UpdaterPoints, taskVars, clientVars
<1>5. CASE AddProducer(u)
  <2>1. TypeOK'
    BY <1>5 DEF AddProducer, TaskGenerator, TypeOK, ProducerPoints, runVars
  <2>2. ControlTypeOK'
    BY <1>5 DEF AddProducer, ControlTypeOK, taskVars, clientVars, historyVars
  <2> QED
    BY <2>1, <2>2
<1>6. CASE PushPill(u)
  <2>1. pills' \in Seq(BOOLEAN)
    BY <1>6, PushTyped DEF PushPill
  <2>2. TypeOK'
    BY <1>6, <2>1 DEF PushPill, TypeOK, producerVars, runVars
  <2>3. ControlTypeOK'
    <3>1. /\ \/ uKeep[u] > 0 /\ uKeep' = [uKeep EXCEPT ![u] = @ - 1] /\ UNCHANGED uKill
             \/ uKeep[u] = 0 /\ uKill' = [uKill EXCEPT ![u] = @ - 1] /\ UNCHANGED uKeep
          /\ uKeep[u] + uKill[u] > 0
          /\ UNCHANGED <<taskVars, uPc, uRate, uOld, uCur, uSpawn, clientVars, historyVars>>
      BY <1>6, Zenon DEF PushPill
    <3> QED
      BY <3>1 DEF ControlTypeOK, taskVars, clientVars, historyVars
  <2> QED
    BY <2>2, <2>3
<1>7. CASE ProducersChanged(u) \/ AddStrickers(u)
  BY <1>7, UnchangedTypeOK
  DEF ProducersChanged, AddStrickers, Step, ControlTypeOK, UpdaterPoints,
      taskVars, clientVars, historyVars
<1>8. CASE DestroyStrickers(u)
  BY <1>8, UnchangedTypeOK, TaskControlConstants
  DEF DestroyStrickers, Step, ControlTypeOK, UpdaterPoints, clientVars, historyVars
<1>9. CASE StoreRate(u)
  BY <1>9, UnchangedTypeOK
  DEF StoreRate, Step, ControlTypeOK, UpdaterPoints, clientVars, historyVars
<1> QED
  BY <1>1, <1>2, <1>3, <1>4, <1>5, <1>6, <1>7, <1>8, <1>9 DEF UpdateTaskRate

\* Counting an accepted call.
LEMMA CallTyped ==
  ASSUME ControlTypeOK, NEW k \in CallKinds, Call(k)
  PROVE  calls' \in [CallKinds -> Nat]
<1>1. calls[k] - 1 \in Nat
  BY DEF ControlTypeOK, Call
<1> QED
  BY <1>1 DEF ControlTypeOK, Call

LEMMA TaskNextTypeOK == WorkTypeOK /\ [TaskNext]_allVars => WorkTypeOK'
<1> SUFFICES ASSUME WorkTypeOK, [TaskNext]_allVars PROVE WorkTypeOK'
  OBVIOUS
<1> USE DEF WorkTypeOK
<1>0. Rates \subseteq Nat \ {0}
  BY ProducersConstants, BasePositive
<1>1. CASE Run
  <2>1. TypeOK'
    BY <1>1 DEF Run, StartRun, ReplaceLimiter, TypeOK, RunPoints
  <2>2. ControlTypeOK'
    <3>1. Call("run") /\ pace' = taskRate /\ active' = TRUE
          /\ UNCHANGED <<taskRate, destroy, updaterVars, clientVars>>
      BY <1>1, Zenon DEF Run
    <3> QED
      BY <3>1, CallTyped DEF ControlTypeOK, CallKinds, updaterVars, clientVars
  <2> QED
    BY <2>1, <2>2
<1>2. CASE TaskDelete
  BY <1>2, UnchangedTypeOK
  DEF TaskDelete, ControlTypeOK, updaterVars, clientVars, historyVars
<1>3. CASE MainWork
  BY <1>3, RunTypeOK
  DEF MainWork, ControlTypeOK, taskVars, updaterVars, clientVars
<1>4. ASSUME NEW p \in Producer, ProducerWork(p) PROVE WorkTypeOK'
  BY <1>4, ProducerTypeOK
  DEF ProducerWork, ControlTypeOK, controlVars, taskVars, updaterVars, clientVars, historyVars
<1>5. ASSUME NEW u \in Updaters, BeginUpdate(u) PROVE WorkTypeOK'
  <2>1. /\ Call("update") /\ Step(u, "idle", "current")
        /\ \E r \in Rates : uRate' = [uRate EXCEPT ![u] = r]
        /\ uOld' = [uOld EXCEPT ![u] = taskRate]
        /\ UNCHANGED <<vars, active, taskRate, pace, destroy, uCur, uSpawn, uKeep, uKill,
                       clientVars>>
    BY <1>5, Zenon DEF BeginUpdate
  <2> QED
    BY <1>0, <2>1, CallTyped, UnchangedTypeOK
    DEF Step, ControlTypeOK, CallKinds, UpdaterPoints, clientVars
<1>6. ASSUME NEW u \in Updaters, UpdateTaskRate(u) PROVE WorkTypeOK'
  BY <1>6, UpdateTypeOK
<1>7. CASE BeginStop
  <2>1. Call("stop") /\ StopGoto("idle", "set")
        /\ UNCHANGED <<vars, taskVars, updaterVars, sRate>>
    BY <1>7, Zenon DEF BeginStop
  <2> QED
    BY <2>1, CallTyped, UnchangedTypeOK
    DEF StopGoto, ControlTypeOK, CallKinds, StopPoints, taskVars, updaterVars
<1>8. CASE StopStep
  <2>1. TypeOK'
    BY <1>8, UnchangedTypeOK
    DEF StopStep, SetStopped, StopTask, CopyTask, StoreTask, WaitForProducers, TypeOK,
        producerVars, runVars
  <2>2. ControlTypeOK'
    BY <1>8
    DEF StopStep, SetStopped, CopyTask, StoreTask, WaitForProducers, StopGoto, ControlTypeOK,
        StopPoints, taskVars, updaterVars, historyVars
  <2> QED
    BY <2>1, <2>2
<1>9. CASE UNCHANGED allVars
  BY <1>9, UnchangedTypeOK
  DEF allVars, controlVars, ControlTypeOK, taskVars, updaterVars, clientVars, historyVars
<1> QED
  BY <1>1, <1>2, <1>3, <1>4, <1>5, <1>6, <1>7, <1>8, <1>9 DEF TaskNext

LEMMA HistoryTyped == HistoryTypeOK /\ [TaskNext]_allVars => HistoryTypeOK'
  BY ZenonT(60)
  DEF HistoryTypeOK, TaskNext, Run, TaskDelete, MainWork, ProducerWork, BeginUpdate,
      UpdateTaskRate, CurrentProducers, SetRateLimiter, SetTaskRate, PlanProducers, AddProducer,
      PushPill, ProducersChanged, AddStrickers, DestroyStrickers, StoreRate, BeginStop, StopStep,
      SetStopped, CopyTask, StoreTask, WaitForProducers, controlVars, historyVars, allVars

\* Every variable stays within its type, however many clients there are.
THEOREM TaskTypeCorrect == TaskSpec => []TaskTypeOK
<1>1. TaskInit => HistoryTypeOK
  BY Zenon DEF TaskInit, HistoryTypeOK
<1>2. WorkTypeOK /\ HistoryTypeOK => TaskTypeOK
  BY DEF WorkTypeOK, TaskTypeOK
<1> QED
  BY <1>1, <1>2, TaskInitTypeOK, TaskNextTypeOK, HistoryTyped, PTL DEF TaskSpec

-----------------------------------------------------------------------------
(* The wait group *)

LEMMA TaskNextCounted ==
  ASSUME TaskTypeOK, [TaskNext]_allVars
  PROVE  Counted
<1> USE DEF TaskTypeOK
<1>1. CASE MainWork
  BY <1>1, RunCounted DEF MainWork
<1>2. ASSUME NEW p \in Producer, ProducerWork(p) PROVE Counted
  BY <1>2, ProducerCounted DEF ProducerWork, Counted
<1>3. ASSUME NEW u \in Updaters, AddProducer(u) PROVE Counted
  BY <1>3, SpawnCounted DEF AddProducer, Counted
<1>4. ASSUME NEW u \in Updaters, UpdateTaskRate(u), ~AddProducer(u) PROVE Counted
  BY <1>4
  DEF UpdateTaskRate, CurrentProducers, SetRateLimiter, SetTaskRate, PlanProducers, PushPill,
      ProducersChanged, AddStrickers, DestroyStrickers, StoreRate, Counted, Live,
      vars, poolVars, producerVars
<1>5. CASE Run \/ TaskDelete \/ BeginStop \/ StopStep \/ UNCHANGED allVars
           \/ \E u \in Updaters : BeginUpdate(u)
  BY <1>5
  DEF Run, StartRun, TaskDelete, BeginStop, StopStep, SetStopped, StopTask, CopyTask, StoreTask,
      WaitForProducers, BeginUpdate, allVars, Counted, Live, vars, poolVars, producerVars
<1> QED
  BY <1>1, <1>2, <1>3, <1>4, <1>5 DEF TaskNext

\* However updates, stops and restarts overlap, the wait group counts exactly
\* the live producers: StopTask and WaitForTaskToComplete return when the
\* last one is gone, and Done never panics.
THEOREM TaskWaitGroupCorrect == TaskSpec => []WaitGroupExact
<1>1. TaskInit => WaitGroupExact
  BY InitExact DEF TaskInit
<1>2. TaskTypeOK /\ WaitGroupExact /\ [TaskNext]_allVars => WaitGroupExact'
  BY TaskNextCounted, CountedKeepsExact
<1> QED
  BY <1>1, <1>2, TaskTypeCorrect, PTL DEF TaskSpec

-----------------------------------------------------------------------------
(* Producers left behind *)

\* Producers an update in progress still has to add.
Pending(u) ==
  CASE uPc[u] = "plan" -> GetTaskGeneratorSpawnCount(rate) - uCur[u]
    [] uPc[u] = "change" -> uSpawn[u]
    [] OTHER -> 0

\* Until an update calls for fewer producers nobody sends a pill.
Quiet ==
  ~lowered => pills = <<>> /\ \A u \in Updaters : uKeep[u] = 0 /\ uKill[u] = 0

\* As long as updates only raise the rate and do not overlap anything, live
\* producers, reports and producers still to be added make up the count of
\* the rate, and at most one update is in progress, of a run under way.
Orderly ==
  /\ \A u, v \in Updating : u = v
  /\ Updating # {} => runPc \in UnderWay
  /\ runPc \in {"idle", "ended"} => waitGroup = 0
  /\ runPc = "producers" =>
       waitGroup = runI /\ count = 0 /\ runI <= GetTaskGeneratorSpawnCount(rate)
  /\ runPc \in UnderWay =>
       /\ Updating = {} => waitGroup + count = GetTaskGeneratorSpawnCount(rate)
       /\ \A u \in Updating :
            waitGroup + count = GetTaskGeneratorSpawnCount(rate) - Pending(u)
  /\ \A u \in Updaters :
       uPc[u] \in {"limiter", "rate"} => uCur[u] = GetTaskGeneratorSpawnCount(rate)

OrderlyInv == ~lowered /\ ~raced => Orderly

\* What the history variables record is not forgotten.
LEMMA HistoryGrows ==
  ASSUME [TaskNext]_allVars
  PROVE  (lowered => lowered') /\ (raced => raced')
<1>1. ASSUME NEW u \in Updaters, BeginUpdate(u)
      PROVE  (lowered => lowered') /\ (raced => raced')
  BY <1>1, Zenon DEF BeginUpdate
<1>2. ASSUME NEW u \in Updaters, PlanProducers(u)
      PROVE  (lowered => lowered') /\ (raced => raced')
  BY <1>2, Zenon DEF PlanProducers
<1>3. CASE BeginStop
  BY <1>3, Zenon DEF BeginStop
<1>4. CASE Run
  BY <1>4, Zenon DEF Run
<1>5. CASE MainWork
  BY <1>5, Zenon DEF MainWork
<1>6. ASSUME NEW u \in Updaters, UpdateTaskRate(u), ~PlanProducers(u)
      PROVE  (lowered => lowered') /\ (raced => raced')
  <2>1. UNCHANGED historyVars
    BY <1>6
    DEF UpdateTaskRate, CurrentProducers, SetRateLimiter, SetTaskRate, AddProducer, PushPill,
        ProducersChanged, AddStrickers, DestroyStrickers, StoreRate, historyVars
  <2> QED
    BY <2>1, Zenon DEF historyVars
<1>7. CASE \/ TaskDelete \/ StopStep \/ UNCHANGED allVars
           \/ \E p \in Producer : ProducerWork(p)
  <2>1. UNCHANGED historyVars
    BY <1>7
    DEF TaskDelete, StopStep, SetStopped, CopyTask, StoreTask, WaitForProducers, ProducerWork,
        allVars, controlVars, historyVars
  <2> QED
    BY <2>1, Zenon DEF historyVars
<1>8. ASSUME NEW u \in Updaters, UpdateTaskRate(u)
      PROVE  (lowered => lowered') /\ (raced => raced')
  BY <1>2, <1>6, <1>8, Zenon
<1> QED
  BY <1>1, <1>3, <1>4, <1>5, <1>7, <1>8, Zenon DEF TaskNext

LEMMA NextQuiet == TaskTypeOK /\ Quiet /\ [TaskNext]_allVars => Quiet'
<1> SUFFICES ASSUME TaskTypeOK, Quiet, [TaskNext]_allVars, ~lowered' PROVE Quiet'
  BY DEF Quiet
<1>0. ~lowered /\ pills = <<>> /\ \A u \in Updaters : uKeep[u] = 0 /\ uKill[u] = 0
  BY HistoryGrows DEF Quiet
<1>1. ASSUME NEW p \in Producer, ProducerWork(p) PROVE Quiet'
  <2>1. ~KeepPill(p) /\ ~EndPill(p)
    BY <1>0, Zenon DEF KeepPill, EndPill
  <2>2. UNCHANGED <<pills, uKeep, uKill>>
    BY <1>1, <2>1
    DEF ProducerWork, ProducerStep, Proceed, Steady, Adopt, ReadLimiter, ReadCount, NextTick,
        Deadline, Send,
        CheckStop, CheckLimiter, CheckCount, poolVars, controlVars, updaterVars
  <2> QED
    BY <1>0, <2>2, Zenon DEF Quiet
<1>2. ASSUME NEW u \in Updaters, PlanProducers(u) PROVE Quiet'
  <2>1. ~(GetTaskGeneratorSpawnCount(rate) < uCur[u])
    BY <1>2, Zenon DEF PlanProducers
  <2>2. uKeep' = [uKeep EXCEPT ![u] = 0] /\ uKill' = [uKill EXCEPT ![u] = 0] /\ UNCHANGED pills
    BY <1>2, <2>1, Zenon DEF PlanProducers, vars, poolVars
  <2>3. \A v \in Updaters : uKeep'[v] = 0 /\ uKill'[v] = 0
    BY <1>0, <2>2 DEF TaskTypeOK, ControlTypeOK
  <2> QED
    BY <1>0, <2>2, <2>3, Zenon DEF Quiet
<1>3. ASSUME NEW u \in Updaters, PushPill(u) PROVE Quiet'
  <2>1. uKeep[u] + uKill[u] > 0
    BY <1>3, Zenon DEF PushPill
  <2> QED
    BY <1>0, <2>1
<1>4. CASE \/ Run \/ TaskDelete \/ MainWork \/ BeginStop \/ StopStep \/ UNCHANGED allVars
           \/ \E u \in Updaters : BeginUpdate(u)
           \/ \E u \in Updaters : UpdateTaskRate(u) /\ ~PlanProducers(u) /\ ~PushPill(u)
  <2>1. UNCHANGED <<pills, uKeep, uKill>>
    BY <1>4
    DEF Run, StartRun, TaskDelete, MainWork, RunGoroutine, SpawnProducer, ProducersSpawned,
        StrickersSpawned, Trigger, AnnounceEnd, AwaitDone, ReceiveDone, BeginStop, StopStep,
        SetStopped, StopTask, CopyTask, StoreTask, WaitForProducers, BeginUpdate, UpdateTaskRate,
        CurrentProducers, SetRateLimiter, SetTaskRate, AddProducer, ProducersChanged,
        AddStrickers, DestroyStrickers, StoreRate, allVars, controlVars, updaterVars, vars,
        poolVars
  <2> QED
    BY <1>0, <2>1, Zenon DEF Quiet
<1>5. ASSUME NEW u \in Updaters, UpdateTaskRate(u) PROVE Quiet'
  BY <1>2, <1>3, <1>4, <1>5, Zenon
<1> QED
  BY <1>1, <1>4, <1>5, Zenon DEF TaskNext

\* The orderly part of the accounting, one step at a time.
LEMMA NextOrderly ==
  TaskTypeOK /\ WaitGroupExact /\ Quiet /\ OrderlyInv /\ [TaskNext]_allVars => OrderlyInv'
<1> SUFFICES ASSUME TaskTypeOK, WaitGroupExact, Quiet, OrderlyInv, [TaskNext]_allVars,
                    ~lowered', ~raced'
             PROVE  Orderly'
  BY DEF OrderlyInv
<1> DEFINE S == GetTaskGeneratorSpawnCount(rate)
<1>0. ~lowered /\ ~raced /\ Orderly
  BY HistoryGrows DEF OrderlyInv
<1>n. /\ S \in Nat /\ waitGroup \in Nat /\ count \in Nat /\ runI \in Nat
      /\ \A u \in Updaters : uCur[u] \in Nat /\ uSpawn[u] \in Nat
  BY SpawnCountNat, LiveFinite, FS_CardinalityType
  DEF TaskTypeOK, TypeOK, ControlTypeOK, WaitGroupExact
<1>q. pills = <<>> /\ \A u \in Updaters : uKeep[u] = 0 /\ uKill[u] = 0
  BY <1>0, Zenon DEF Quiet
<1> HIDE DEF S
<1> USE <1>n DEF Orderly, Updating, UnderWay, Pending
<1>1. CASE Run
  <2>1. Updating = {}
    BY <1>1, Zenon DEF Run
  <2>2. /\ runPc' = "producers" /\ runI' = 0 /\ count' = 0 /\ runPc \in {"idle", "ended"}
        /\ UNCHANGED <<rate, waitGroup, updaterVars>>
    BY <1>1, Zenon DEF Run, StartRun
  <2> QED
    BY <1>0, <2>1, <2>2 DEF updaterVars, GetTaskGeneratorSpawnCount, S
<1>2. CASE TaskDelete \/ BeginStop \/ StopStep \/ UNCHANGED allVars
  <2>1. UNCHANGED <<rate, waitGroup, count, runPc, runI, updaterVars>>
    BY <1>2
    DEF TaskDelete, BeginStop, StopStep, SetStopped, StopTask, CopyTask, StoreTask,
        WaitForProducers, allVars, controlVars, vars, poolVars, runVars
  <2> QED
    BY <1>0, <2>1 DEF updaterVars, S
<1>3. CASE MainWork
  <2>1. RunGoroutine /\ UNCHANGED updaterVars
        /\ (runPc' = "ended" => Updating = {})
    BY <1>3, Zenon DEF MainWork
  <2>2. CASE SpawnProducer
    <3>1. /\ runPc = "producers" /\ runPc' = runPc /\ count' = count /\ rate' = rate
          /\ runI < S /\ runI' = runI + 1 /\ waitGroup' = waitGroup + 1
      BY <2>2, Zenon DEF SpawnProducer, TaskGenerator, S
    <3> QED
      BY <1>0, <2>1, <3>1 DEF updaterVars, S
  <2>3. CASE ProducersSpawned
    <3>1. /\ runPc = "producers" /\ runPc' = "strickers" /\ count' = count
          /\ UNCHANGED <<rate, waitGroup>> /\ runI >= S
      BY <2>3, Zenon DEF ProducersSpawned, RunGoto, poolVars, S
    <3> QED
      BY <1>0, <2>1, <3>1 DEF updaterVars, S
  <2>4. CASE StrickersSpawned \/ Trigger \/ AwaitDone
    <3>1. runPc \in UnderWay /\ runPc' \in UnderWay /\ UNCHANGED <<rate, waitGroup, count>>
      BY <2>4 DEF StrickersSpawned, Trigger, AwaitDone, RunGoto, poolVars
    <3> QED
      BY <1>0, <2>1, <3>1 DEF updaterVars, S
  <2>5. CASE AnnounceEnd
    <3>1. /\ runPc = "check" /\ runPc' = "ended" /\ count >= S
          /\ UNCHANGED <<rate, waitGroup, count>>
      BY <2>5, Zenon DEF AnnounceEnd, RunGoto, poolVars, S
    <3> QED
      BY <1>0, <2>1, <3>1 DEF updaterVars, S
  <2>6. ASSUME NEW p \in Producer, ReceiveDone(p) PROVE Orderly'
    <3>1. /\ runPc = "recvDone" /\ runPc' = "trigger" /\ count' = count + 1
          /\ waitGroup' = waitGroup - 1 /\ rate' = rate
      BY <2>6, Zenon DEF ReceiveDone, Leave, RunGoto
    <3> QED
      BY <1>0, <2>1, <3>1 DEF updaterVars, S
  <2> QED
    BY <2>1, <2>2, <2>3, <2>4, <2>5, <2>6 DEF RunGoroutine
<1>4. ASSUME NEW p \in Producer, ProducerWork(p) PROVE Orderly'
  <2>1. ~KeepPill(p) /\ ~EndPill(p)
    BY <1>q, Zenon DEF KeepPill, EndPill
  <2>2. UNCHANGED <<rate, waitGroup, count, runPc, runI, updaterVars>>
    BY <1>4, <2>1
    DEF ProducerWork, ProducerStep, Proceed, Steady, Adopt, ReadLimiter, ReadCount, NextTick,
        Deadline, Send,
        CheckStop, CheckLimiter, CheckCount, poolVars, runVars, controlVars
  <2> QED
    BY <1>0, <2>2 DEF updaterVars, S
<1>5. ASSUME NEW u \in Updaters, BeginUpdate(u) PROVE Orderly'
  <2>1. Updating = {} /\ runPc \in UnderWay
    BY <1>5, Zenon DEF BeginUpdate
  <2>2. /\ uPc' = [uPc EXCEPT ![u] = "current"]
        /\ UNCHANGED <<rate, waitGroup, count, runPc, runI, uCur, uSpawn>>
    BY <1>5, Zenon DEF BeginUpdate, Step, vars, poolVars, runVars
  <2> QED
    BY <1>0, <2>1, <2>2 DEF TaskTypeOK, ControlTypeOK, S
<1>6. ASSUME NEW u \in Updaters, UpdateTaskRate(u) PROVE Orderly'
  <2>0. u \in Updating /\ Updating = {u} /\ runPc \in UnderWay
    <3>1. u \in Updating
      BY <1>6
      DEF UpdateTaskRate, CurrentProducers, SetRateLimiter, SetTaskRate, PlanProducers,
          AddProducer, PushPill, ProducersChanged, AddStrickers, DestroyStrickers, StoreRate, Step
    <3> QED
      BY <1>0, <3>1
  <2>1. CASE CurrentProducers(u)
    <3>1. /\ uPc[u] = "current" /\ uPc' = [uPc EXCEPT ![u] = "limiter"]
          /\ uCur' = [uCur EXCEPT ![u] = S]
          /\ UNCHANGED <<rate, waitGroup, count, runPc, runI, uSpawn>>
      BY <2>1, Zenon DEF CurrentProducers, Step, vars, poolVars, runVars, S
    <3> QED
      BY <1>0, <2>0, <3>1 DEF TaskTypeOK, ControlTypeOK, S
  <2>2. CASE SetRateLimiter(u)
    <3>1. /\ uPc[u] = "limiter" /\ uPc' = [uPc EXCEPT ![u] = "rate"]
          /\ UNCHANGED <<rate, waitGroup, count, runPc, runI, uCur, uSpawn>>
      BY <2>2, Zenon DEF SetRateLimiter, Step, poolVars, runVars
    <3> QED
      BY <1>0, <2>0, <3>1 DEF TaskTypeOK, ControlTypeOK, S
  <2>3. CASE SetTaskRate(u)
    <3>1. /\ uPc[u] = "rate" /\ uPc' = [uPc EXCEPT ![u] = "plan"] /\ rate' = uRate[u]
          /\ UNCHANGED <<waitGroup, count, runPc, runI, uCur, uSpawn>>
      BY <2>3, Zenon DEF SetTaskRate, Step, runVars
    <3>2. GetTaskGeneratorSpawnCount(rate') \in Nat
      BY <3>1, TaskNextTypeOK, SpawnCountNat DEF TaskTypeOK, TypeOK, WorkTypeOK
    <3> QED
      BY <1>0, <2>0, <3>1, <3>2 DEF TaskTypeOK, ControlTypeOK, S
  <2>4. CASE PlanProducers(u)
    <3>1. ~(S < uCur[u])
      BY <2>4, Zenon DEF PlanProducers, S
    <3>2. /\ uPc[u] = "plan" /\ uPc' = [uPc EXCEPT ![u] = "change"]
          /\ uSpawn' = [uSpawn EXCEPT ![u] = S - uCur[u]]
          /\ UNCHANGED <<rate, waitGroup, count, runPc, runI, uCur>>
      BY <2>4, <3>1, Zenon DEF PlanProducers, Step, vars, poolVars, runVars, S
    <3> QED
      BY <1>0, <2>0, <3>1, <3>2 DEF TaskTypeOK, ControlTypeOK, S
  <2>5. CASE AddProducer(u)
    <3>1. /\ uPc[u] = "change" /\ waitGroup' = waitGroup + 1
          /\ uSpawn' = [uSpawn EXCEPT ![u] = @ - 1]
          /\ UNCHANGED <<rate, count, runPc, runI, uPc, uCur>>
      BY <2>5, Zenon DEF AddProducer, TaskGenerator, runVars
    <3> QED
      BY <1>0, <2>0, <3>1 DEF TaskTypeOK, ControlTypeOK, S
  <2>6. CASE PushPill(u)
    <3>1. uKeep[u] + uKill[u] > 0
      BY <2>6, Zenon DEF PushPill
    <3> QED
      BY <1>q, <3>1
  <2>7. CASE ProducersChanged(u) \/ AddStrickers(u) \/ DestroyStrickers(u)
    <3>1. /\ uPc[u] = "change" => uSpawn[u] = 0
          /\ uPc[u] \in {"change", "strickers"}
          /\ \E to \in {"strickers", "store", "stuck"} : uPc' = [uPc EXCEPT ![u] = to]
          /\ UNCHANGED <<rate, waitGroup, count, runPc, runI, uCur, uSpawn>>
      BY <2>7 DEF ProducersChanged, AddStrickers, DestroyStrickers, Step, vars, poolVars, runVars
    <3> QED
      BY <1>0, <2>0, <3>1 DEF TaskTypeOK, ControlTypeOK, S
  <2>8. CASE StoreRate(u)
    <3>1. /\ uPc[u] = "store" /\ uPc' = [uPc EXCEPT ![u] = "idle"]
          /\ uCur' = [uCur EXCEPT ![u] = 0]
          /\ UNCHANGED <<rate, waitGroup, count, runPc, runI, uSpawn>>
      BY <2>8, Zenon DEF StoreRate, Step, vars, poolVars, runVars
    <3> QED
      BY <1>0, <2>0, <3>1 DEF TaskTypeOK, ControlTypeOK, S
  <2> QED
    BY <1>6, <2>1, <2>2, <2>3, <2>4, <2>5, <2>6, <2>7, <2>8, Zenon DEF UpdateTaskRate
<1> QED
  BY <1>1, <1>2, <1>3, <1>4, <1>5, <1>6, Zenon DEF TaskNext

\* Only an update that calls for fewer producers, or that overlaps another
\* call, the first spawns or the end of the run, leaves a producer behind.
THEOREM OrphanCauseCorrect == TaskSpec => []OrphanCause
<1>1. TaskInit => Quiet
  BY Zenon DEF TaskInit, Init, Quiet
<1>2. TaskInit => OrderlyInv
  BY DEF TaskInit, Init, OrderlyInv, Orderly, Updating, UnderWay
<1>3. WaitGroupExact /\ OrderlyInv => OrphanCause
  BY LiveFinite, FS_EmptySet DEF OrderlyInv, Orderly, WaitGroupExact, OrphanCause
<1> QED
  BY <1>1, <1>2, <1>3, NextQuiet, NextOrderly, TaskTypeCorrect, TaskWaitGroupCorrect, PTL
  DEF TaskSpec

-----------------------------------------------------------------------------
(* The copies of the rate *)

\* At most one update is in progress, while nobody stores an older copy; it
\* has changed the limiter first, then the pool, and is to store the rate last.
OneRate ==
  /\ \A u, v \in Updating : u = v
  /\ Updating # {} => ~Stopping
  /\ Updating = {} => rate = taskRate /\ pace = rate
  /\ \A u \in Updating :
       /\ uPc[u] = "rate" => pace = uRate[u]
       /\ uPc[u] \in {"plan", "change", "strickers", "store", "stuck"} =>
            rate = uRate[u] /\ pace = uRate[u]
  /\ sPc = "store" => sRate = taskRate

OneRateInv == ~raced => OneRate

LEMMA UpdatingStep ==
  ASSUME NEW u \in Updaters, UpdateTaskRate(u)
  PROVE  u \in Updating
BY DEF UpdateTaskRate, CurrentProducers, SetRateLimiter, SetTaskRate, PlanProducers,
       AddProducer, PushPill, ProducersChanged, AddStrickers, DestroyStrickers, StoreRate, Step,
       Updating

LEMMA NextOneRate == TaskTypeOK /\ OneRateInv /\ [TaskNext]_allVars => OneRateInv'
<1> SUFFICES ASSUME TaskTypeOK, OneRateInv, [TaskNext]_allVars, ~raced' PROVE OneRate'
  BY DEF OneRateInv
<1>0. ~raced /\ OneRate
  BY HistoryGrows DEF OneRateInv
<1> USE DEF OneRate, Updating, Stopping
<1>1. CASE Run
  <2>1. Updating = {} /\ ~Stopping /\ pace' = taskRate
        /\ UNCHANGED <<rate, taskRate, uPc, uRate, sPc, sRate>>
    BY <1>1 DEF Run, StartRun, updaterVars, clientVars
  <2> QED
    BY <1>0, <2>1
<1>2. CASE TaskDelete \/ MainWork \/ UNCHANGED allVars
  <2>1. UNCHANGED <<rate, pace, taskRate, uPc, uRate, sPc, sRate>>
    BY <1>2 DEF TaskDelete, MainWork, RunGoroutine, SpawnProducer, ProducersSpawned,
      StrickersSpawned, Trigger, AnnounceEnd, AwaitDone, ReceiveDone, allVars, controlVars,
      taskVars, updaterVars, clientVars, vars, poolVars
  <2> QED
    BY <1>0, <2>1
<1>3. ASSUME NEW p \in Producer, ProducerWork(p) PROVE OneRate'
  <2>1. UNCHANGED <<rate, pace, taskRate, uPc, uRate, sPc, sRate>>
    BY <1>3 DEF ProducerWork, ProducerStep, Proceed, Steady, Adopt, ReadLimiter, ReadCount,
      NextTick, Deadline, Send, CheckStop, CheckLimiter, CheckCount, KeepPill, EndPill,
      controlVars, taskVars, updaterVars, clientVars, poolVars
  <2> QED
    BY <1>0, <2>1
<1>4. ASSUME NEW u \in Updaters, BeginUpdate(u) PROVE OneRate'
  <2>1. Updating = {} /\ ~Stopping /\ uPc' = [uPc EXCEPT ![u] = "current"]
        /\ UNCHANGED <<rate, pace, taskRate, sPc, sRate>>
    BY <1>4 DEF BeginUpdate, Step, vars, poolVars, clientVars
  <2> QED
    BY <1>0, <2>1 DEF TaskTypeOK, ControlTypeOK
<1>5. ASSUME NEW u \in Updaters, UpdateTaskRate(u) PROVE OneRate'
  <2>0. Updating = {u} /\ ~Stopping
    BY <1>0, <1>5, UpdatingStep
  <2>1. CASE SetRateLimiter(u)
    <3>1. uPc' = [uPc EXCEPT ![u] = "rate"] /\ pace' = uRate[u]
          /\ UNCHANGED <<rate, taskRate, uRate, sPc, sRate>>
      BY <2>1 DEF SetRateLimiter, Step, poolVars, clientVars
    <3> QED
      BY <1>0, <2>0, <3>1 DEF TaskTypeOK, ControlTypeOK
  <2>2. CASE SetTaskRate(u)
    <3>1. uPc[u] = "rate" /\ uPc' = [uPc EXCEPT ![u] = "plan"] /\ rate' = uRate[u]
          /\ UNCHANGED <<pace, taskRate, uRate, sPc, sRate>>
      BY <2>2 DEF SetTaskRate, Step, taskVars, clientVars
    <3> QED
      BY <1>0, <2>0, <3>1 DEF TaskTypeOK, ControlTypeOK
  <2>3. CASE StoreRate(u)
    <3>1. uPc[u] = "store" /\ uPc' = [uPc EXCEPT ![u] = "idle"] /\ taskRate' = uRate[u]
          /\ UNCHANGED <<rate, pace, sPc, sRate>>
      BY <2>3 DEF StoreRate, Step, vars, poolVars, clientVars
    <3> QED
      BY <1>0, <2>0, <3>1 DEF TaskTypeOK, ControlTypeOK
  <2>4. CASE CurrentProducers(u) \/ AddProducer(u) \/ PushPill(u)
    <3>1. /\ \/ uPc[u] = "current" /\ uPc' = [uPc EXCEPT ![u] = "limiter"]
             \/ uPc' = uPc
          /\ UNCHANGED <<rate, pace, taskRate, uRate, sPc, sRate>>
      BY <2>4 DEF CurrentProducers, AddProducer, PushPill, Step, vars, poolVars, taskVars,
        clientVars
    <3> QED
      BY <1>0, <2>0, <3>1 DEF TaskTypeOK, ControlTypeOK
  <2>5. CASE PlanProducers(u) \/ ProducersChanged(u) \/ AddStrickers(u) \/ DestroyStrickers(u)
    <3>1. /\ uPc[u] \in {"plan", "change", "strickers"}
          /\ \E to \in {"change", "strickers", "store", "stuck"} : uPc' = [uPc EXCEPT ![u] = to]
          /\ UNCHANGED <<rate, pace, taskRate, uRate, sPc, sRate>>
      BY <2>5 DEF PlanProducers, ProducersChanged, AddStrickers, DestroyStrickers, Step, vars,
        poolVars, taskVars, clientVars
    <3> QED
      BY <1>0, <2>0, <3>1 DEF TaskTypeOK, ControlTypeOK
  <2> QED
    BY <1>5, <2>1, <2>2, <2>3, <2>4, <2>5 DEF UpdateTaskRate
<1>6. CASE BeginStop
  <2>1. Updating = {} /\ sPc' = "set" /\ UNCHANGED <<rate, pace, taskRate, uPc, uRate, sRate>>
    BY <1>6 DEF BeginStop, StopGoto, vars, poolVars, taskVars, updaterVars
  <2> QED
    BY <1>0, <2>1
<1>7. CASE StopStep
  <2>1. /\ UNCHANGED <<rate, pace, uPc, uRate>>
        /\ \/ sPc \in {"set", "wait"} /\ sPc' \in {"copy", "idle"} /\ taskRate' = taskRate
              /\ sRate' = sRate /\ (sPc' = "copy" => sPc = "set")
           \/ sPc = "copy" /\ sPc' = "store" /\ taskRate' = taskRate /\ sRate' = taskRate
           \/ sPc = "store" /\ sPc' = "wait" /\ taskRate' = sRate /\ sRate' = sRate
    BY <1>7 DEF StopStep, SetStopped, StopTask, CopyTask, StoreTask, WaitForProducers, StopGoto,
      vars, poolVars, taskVars, updaterVars
  <2> QED
    BY <1>0, <2>1
<1> QED
  BY <1>1, <1>2, <1>3, <1>4, <1>5, <1>6, <1>7 DEF TaskNext

\* Whatever was updated, stopped and run again, one rate is left, unless two
\* calls overlapped.
THEOREM SettingsAgreeCorrect == TaskSpec => []SettingsAgree
<1>1. TaskInit => OneRateInv
  BY DEF TaskInit, Init, OneRateInv, OneRate, Updating, Stopping
<1>2. OneRateInv => SettingsAgree
  BY DEF OneRateInv, OneRate, SettingsAgree
<1> QED
  BY <1>1, <1>2, NextOneRate, TaskTypeCorrect, PTL DEF TaskSpec
-----------------------------------------------------------------------------
(* Pills in a sequence *)

\* The pills of a sequence that end a producer.
Ends(s) == {i \in DOMAIN s : s[i]}

LEMMA EndsFinite ==
  ASSUME NEW s \in Seq(BOOLEAN)
  PROVE  /\ IsFiniteSet(Ends(s)) /\ Cardinality(Ends(s)) \in Nat
         /\ Cardinality(Ends(s)) <= Len(s) /\ Ends(s) \subseteq 1 .. Len(s)
<1>1. Len(s) \in Nat /\ Ends(s) \subseteq 1 .. Len(s)
  <2>1. Len(s) \in Nat /\ DOMAIN s = 1 .. Len(s)
    BY LenProperties, Zenon
  <2>2. Ends(s) \subseteq DOMAIN s
    BY Zenon DEF Ends
  <2> QED
    BY <2>1, <2>2, Zenon
<1>2. IsFiniteSet(1 .. Len(s)) /\ Cardinality(1 .. Len(s)) = Len(s)
  <2>1. /\ IsFiniteSet(1 .. Len(s))
        /\ Cardinality(1 .. Len(s)) = IF 1 > Len(s) THEN 0 ELSE Len(s) - 1 + 1
    <3>1. 1 \in Int /\ Len(s) \in Int
      BY <1>1
    <3> QED
      BY <3>1, FS_Interval, Zenon
  <2> QED
    BY <1>1, <2>1
<1>3. Ends(s) \in SUBSET (1 .. Len(s))
  BY <1>1
<1> HIDE DEF Ends
<1> QED
  BY <1>1, <1>2, <1>3, FS_Subset, FS_CardinalityType

LEMMA EndsAppend ==
  ASSUME NEW s \in Seq(BOOLEAN)
  PROVE  /\ Cardinality(Ends(Append(s, TRUE))) = Cardinality(Ends(s)) + 1
         /\ Cardinality(Ends(Append(s, FALSE))) = Cardinality(Ends(s))
<1>0. TRUE \in BOOLEAN /\ FALSE \in BOOLEAN /\ Len(s) \in Nat /\ DOMAIN s = 1 .. Len(s)
  BY Zenon, LenProperties
<1>1. ASSUME NEW b \in BOOLEAN
      PROVE  /\ DOMAIN Append(s, b) = 1 .. Len(s) + 1
             /\ \A i \in 1 .. Len(s) : Append(s, b)[i] = s[i]
             /\ Append(s, b)[Len(s) + 1] = b
  BY <1>0, <1>1, AppendProperties, LenProperties
<1>2. Ends(Append(s, TRUE)) = Ends(s) \cup {Len(s) + 1}
  <2>1. Append(s, TRUE)[Len(s) + 1]
    BY <1>0, <1>1
  <2> QED
    BY <1>0, <1>1, <2>1 DEF Ends
<1>3. Ends(Append(s, FALSE)) = Ends(s)
  <2>1. ~Append(s, FALSE)[Len(s) + 1]
    BY <1>0, <1>1
  <2> QED
    BY <1>0, <1>1, <2>1 DEF Ends
<1>4. Len(s) + 1 \notin Ends(s)
  BY <1>0 DEF Ends
<1> QED
  BY <1>2, <1>3, <1>4, EndsFinite, FS_AddElement

LEMMA EndsTail ==
  ASSUME NEW s \in Seq(BOOLEAN), s # <<>>
  PROVE  /\ Head(s) => Cardinality(Ends(Tail(s))) = Cardinality(Ends(s)) - 1
         /\ ~Head(s) => Cardinality(Ends(Tail(s))) = Cardinality(Ends(s))
<1> DEFINE R == Ends(s) \ {1}
           f == [i \in R |-> i - 1]
<1>1. /\ Tail(s) \in Seq(BOOLEAN) /\ Len(Tail(s)) = Len(s) - 1 /\ Len(s) \in Nat
      /\ \A i \in 1 .. Len(Tail(s)) : Tail(s)[i] = s[i + 1]
  BY HeadTailProperties
<1>2. DOMAIN s = 1 .. Len(s) /\ DOMAIN Tail(s) = 1 .. Len(s) - 1
  BY <1>1, LenProperties
<1>3. f \in Bijection(R, Ends(Tail(s)))
  <2>1. \A i \in R : i - 1 \in Ends(Tail(s))
    BY <1>1, <1>2 DEF Ends
  <2>2. \A j \in Ends(Tail(s)) : j + 1 \in R /\ f[j + 1] = j
    <3>1. \A j \in Ends(Tail(s)) : j \in 1 .. Len(s) - 1 /\ s[j + 1]
      BY <1>1, <1>2 DEF Ends
    <3>2. \A j \in 1 .. Len(s) - 1 : j + 1 \in 1 .. Len(s) /\ j + 1 # 1 /\ (j + 1) - 1 = j
      BY <1>1
    <3> QED
      BY <1>2, <3>1, <3>2 DEF Ends
  <2>3. f \in [R -> Ends(Tail(s))]
    BY <2>1
  <2>4. \A i, j \in R : f[i] = f[j] => i = j
    BY <1>1, <1>2 DEF Ends
  <2> HIDE DEF f
  <2> QED
    BY <2>2, <2>3, <2>4 DEF Bijection, Injection, IsInjective, Surjection
<1>4. IsFiniteSet(R) /\ IsFiniteSet(Ends(s))
  BY EndsFinite, FS_RemoveElement
<1>5. Cardinality(Ends(Tail(s))) = Cardinality(R)
  <2>1. ExistsBijection(R, Ends(Tail(s)))
    BY <1>3 DEF ExistsBijection
  <2> HIDE DEF R
  <2> QED
    BY <1>4, <2>1, FS_Bijection
<1>6. Head(s) <=> 1 \in Ends(s)
  <2>1. Head(s) = s[1] /\ 1 \in DOMAIN s
    BY <1>2, <1>1, EmptySeq, LenProperties
  <2> QED
    BY <2>1 DEF Ends
<1> QED
  BY <1>4, <1>5, <1>6, EndsFinite, FS_RemoveElement

-----------------------------------------------------------------------------
(* Producers, reports and pills *)

\* As long as updates and calls do not overlap: live producers and reports make
\* up what the rate calls for, plus a producer for every pill that will end one.
Balanced ==
  /\ \A u, v \in Updating : u = v
  /\ Updating # {} => runPc \in UnderWay
  /\ runPc = "producers" =>
       /\ waitGroup = runI /\ count = 0 /\ runI <= GetTaskGeneratorSpawnCount(rate)
       /\ pills = <<>>
  /\ runPc \in UnderWay \cup {"ended"} =>
       LET spawned == GetTaskGeneratorSpawnCount(rate)
           deadly == Cardinality(Deadly)
       IN  /\ Updating = {} => waitGroup + count = spawned + deadly
           /\ \A u \in Updating :
                /\ uPc[u] = "plan" => waitGroup + count = deadly + uCur[u]
                /\ uPc[u] = "change" =>
                     waitGroup + count = spawned + deadly + uKill[u] - uSpawn[u]
                /\ uPc[u] \notin {"plan", "change"} => waitGroup + count = spawned + deadly
  /\ \A u \in Updaters :
       uPc[u] \in {"limiter", "rate"} => uCur[u] = GetTaskGeneratorSpawnCount(rate)

BalancedInv == ~raced /\ ~leftover => Balanced

LEMMA LeftoverStays == [TaskNext]_allVars => (leftover => leftover')
BY Zenon
   DEF TaskNext, Run, TaskDelete, MainWork, ProducerWork, BeginUpdate, UpdateTaskRate,
      CurrentProducers, SetRateLimiter, SetTaskRate, PlanProducers, AddProducer, PushPill,
      ProducersChanged, AddStrickers, DestroyStrickers, StoreRate, BeginStop, StopStep,
      SetStopped, CopyTask, StoreTask, WaitForProducers, controlVars, historyVars, allVars

\* What a producer does to the pills and to the wait group.
LEMMA PillsTaken ==
  ASSUME TypeOK, NEW p \in Producer, ProducerStep(p)
  PROVE  /\ UNCHANGED <<rate, runVars>>
         /\ \/ pills' = pills /\ waitGroup' = waitGroup
            \/ /\ pills # <<>> /\ pills' = Tail(pills) /\ pc[p] = "takePill"
               /\ \/ ~Head(pills) /\ waitGroup' = waitGroup
                  \/ Head(pills) /\ waitGroup' = waitGroup - 1
BY DEF ProducerStep, Proceed, Steady, Adopt, ReadLimiter, ReadCount, NextTick, Deadline, Send,
       CheckStop, CheckLimiter, CheckCount, KeepPill, EndPill, Leave, Goto, poolVars

LEMMA DeadlyIs == Deadly = Ends(pills)
BY DEF Deadly, Ends

LEMMA NextBalanced ==
  TaskTypeOK /\ WaitGroupExact /\ BalancedInv /\ [TaskNext]_allVars => BalancedInv'
<1> SUFFICES ASSUME TaskTypeOK, WaitGroupExact, BalancedInv, [TaskNext]_allVars,
                    ~raced', ~leftover'
             PROVE  Balanced'
  BY DEF BalancedInv
<1> DEFINE S == GetTaskGeneratorSpawnCount(rate)
           D == Cardinality(Deadly)
<1>0. ~raced /\ ~leftover /\ Balanced
  BY HistoryGrows, LeftoverStays DEF BalancedInv
<1>n. /\ S \in Nat /\ waitGroup \in Nat /\ count \in Nat /\ runI \in Nat /\ D \in Nat
      /\ pills \in Seq(BOOLEAN)
      /\ \A u \in Updaters :
           uCur[u] \in Nat /\ uSpawn[u] \in Nat /\ uKeep[u] \in Nat /\ uKill[u] \in Nat
  BY SpawnCountNat, LiveFinite, FS_CardinalityType, DeadlyIs, EndsFinite
  DEF TaskTypeOK, TypeOK, ControlTypeOK, WaitGroupExact
<1>d. pills' = pills => D' = D
  BY DEF Deadly
<1>s. rate' = rate => S' = S
  OBVIOUS
<1> HIDE DEF S, D
<1> USE <1>n DEF Balanced, Updating, UnderWay
<1>1. CASE Run
  <2>1. Updating = {} /\ Live = {} /\ pills = <<>>
    BY <1>1, Zenon DEF Run
  <2>2. /\ runPc' = "producers" /\ runI' = 0 /\ count' = 0
        /\ UNCHANGED <<rate, waitGroup, pills, uPc, uCur>>
    BY <1>1, Zenon DEF Run, StartRun, updaterVars
  <2>3. waitGroup = 0
    BY <2>1, FS_EmptySet DEF WaitGroupExact
  <2> QED
    BY <1>0, <1>s, <2>1, <2>2, <2>3 DEF S, D
<1>2. CASE TaskDelete \/ BeginStop \/ StopStep \/ UNCHANGED allVars
  <2>1. UNCHANGED <<rate, pills, waitGroup, count, runPc, runI, updaterVars>>
    BY <1>2
    DEF TaskDelete, BeginStop, StopStep, SetStopped, StopTask, CopyTask, StoreTask,
        WaitForProducers, allVars, controlVars, vars, poolVars, runVars
  <2> QED
    BY <1>0, <1>s, <1>d, <2>1 DEF updaterVars, S, D
<1>3. CASE MainWork
  <2>1. RunGoroutine /\ UNCHANGED updaterVars /\ (runPc' = "ended" => Updating = {})
    BY <1>3, Zenon DEF MainWork
  <2>2. CASE SpawnProducer
    <3>1. /\ runPc = "producers" /\ runPc' = runPc /\ count' = count /\ rate' = rate
          /\ pills' = pills /\ runI < S /\ runI' = runI + 1 /\ waitGroup' = waitGroup + 1
      BY <2>2, Zenon DEF SpawnProducer, TaskGenerator, S
    <3> QED
      BY <1>0, <1>s, <1>d, <2>1, <3>1 DEF updaterVars, S, D
  <2>3. CASE ProducersSpawned
    <3>1. /\ runPc = "producers" /\ runPc' = "strickers" /\ count' = count
          /\ UNCHANGED <<rate, waitGroup, pills>> /\ runI >= S
      BY <2>3, Zenon DEF ProducersSpawned, RunGoto, poolVars, S
    <3>2. D = 0 /\ Updating = {}
      <4>1. pills = <<>> /\ Updating = {}
        BY <1>0, <3>1
      <4>2. Deadly = {}
        <5>1. DOMAIN pills = {}
          BY <4>1
        <5> QED
          BY <5>1, Zenon DEF Deadly
      <4> QED
        BY <4>1, <4>2, FS_EmptySet, Zenon DEF D
    <3> QED
      BY <1>0, <1>s, <1>d, <2>1, <3>1, <3>2 DEF updaterVars, S, D
  <2>4. CASE StrickersSpawned \/ Trigger \/ AwaitDone
    <3>1. runPc \in UnderWay /\ runPc' \in UnderWay /\ UNCHANGED <<rate, pills, waitGroup, count>>
      BY <2>4 DEF StrickersSpawned, Trigger, AwaitDone, RunGoto, poolVars
    <3> QED
      BY <1>0, <1>s, <1>d, <2>1, <3>1 DEF updaterVars, S, D
  <2>5. CASE AnnounceEnd
    <3>1. /\ runPc = "check" /\ runPc' = "ended"
          /\ UNCHANGED <<rate, pills, waitGroup, count>>
      BY <2>5, Zenon DEF AnnounceEnd, RunGoto, poolVars
    <3> QED
      BY <1>0, <1>s, <1>d, <2>1, <3>1 DEF updaterVars, S, D
  <2>6. ASSUME NEW p \in Producer, ReceiveDone(p) PROVE Balanced'
    <3>1. /\ runPc = "recvDone" /\ runPc' = "trigger" /\ count' = count + 1
          /\ waitGroup' = waitGroup - 1 /\ rate' = rate /\ pills' = pills
      BY <2>6, Zenon DEF ReceiveDone, Leave, RunGoto
    <3> QED
      BY <1>0, <1>s, <1>d, <2>1, <3>1 DEF updaterVars, S, D
  <2> QED
    BY <2>1, <2>2, <2>3, <2>4, <2>5, <2>6 DEF RunGoroutine
<1>4. ASSUME NEW p \in Producer, ProducerWork(p) PROVE Balanced'
  <2>1. ProducerStep(p) /\ TypeOK /\ UNCHANGED updaterVars
    BY <1>4 DEF ProducerWork, controlVars, TaskTypeOK
  <2>2. /\ UNCHANGED <<rate, runVars>>
        /\ \/ pills' = pills /\ waitGroup' = waitGroup
           \/ /\ pills # <<>> /\ pills' = Tail(pills)
              /\ \/ ~Head(pills) /\ waitGroup' = waitGroup
                 \/ Head(pills) /\ waitGroup' = waitGroup - 1
    BY <2>1, PillsTaken
  <2>3. CASE pills' = pills /\ waitGroup' = waitGroup
    BY <1>0, <1>s, <1>d, <2>1, <2>2, <2>3 DEF updaterVars, runVars, S, D
  <2>4. CASE pills # <<>> /\ pills' = Tail(pills) /\ ~Head(pills) /\ waitGroup' = waitGroup
    <3>1. D' = D
      BY <2>4, EndsTail DEF D, Deadly, Ends
    <3> QED
      BY <1>0, <1>s, <2>1, <2>2, <2>4, <3>1 DEF updaterVars, runVars, S, D
  <2>5. CASE pills # <<>> /\ pills' = Tail(pills) /\ Head(pills) /\ waitGroup' = waitGroup - 1
    <3>1. D' = D - 1
      BY <2>5, EndsTail DEF D, Deadly, Ends
    <3>2. waitGroup' = waitGroup - 1 /\ UNCHANGED <<rate, runPc, count, uPc, uCur, uKill, uSpawn>>
      BY <2>1, <2>2, <2>5, Zenon DEF updaterVars, runVars
    <3>3. runPc # "producers"
      BY <1>0, <2>5
    <3>4. Updating' = Updating /\ S' = S /\ waitGroup' + count' = waitGroup + count - 1
      BY <1>s, <3>2
    <3>5. \A u \in Updating : u \in Updaters
      OBVIOUS
    <3>6. runPc \in UnderWay \cup {"ended"} =>
            /\ Updating' = {} => waitGroup' + count' = S' + D'
            /\ \A u \in Updating' :
                 /\ uPc'[u] = "plan" => waitGroup' + count' = D' + uCur'[u]
                 /\ uPc'[u] = "change" => waitGroup' + count' = S' + D' + uKill'[u] - uSpawn'[u]
                 /\ uPc'[u] \notin {"plan", "change"} => waitGroup' + count' = S' + D'
      <4>1. runPc \in UnderWay \cup {"ended"} =>
              /\ Updating = {} => waitGroup + count = S + D
              /\ \A u \in Updating :
                   /\ uPc[u] = "plan" => waitGroup + count = D + uCur[u]
                   /\ uPc[u] = "change" => waitGroup + count = S + D + uKill[u] - uSpawn[u]
                   /\ uPc[u] \notin {"plan", "change"} => waitGroup + count = S + D
        BY <1>0 DEF S, D
      <4>2. uPc' = uPc /\ uCur' = uCur /\ uKill' = uKill /\ uSpawn' = uSpawn
        BY <3>2, Zenon
      <4> HIDE DEF Balanced, Updating
      <4>3. /\ waitGroup + count \in Int /\ S \in Int /\ D \in Int
            /\ \A u \in Updating : uCur[u] \in Int /\ uKill[u] \in Int /\ uSpawn[u] \in Int
        BY <3>5
      <4>4. waitGroup' = waitGroup - 1 /\ count' = count /\ S' = S /\ D' = D - 1
        BY <3>1, <3>2, <3>4, Zenon
      <4>n. waitGroup \in Int /\ count \in Int /\ S \in Int /\ D \in Int
        BY <1>n
      <4>m. waitGroup' \in Int /\ count' \in Int /\ S' \in Int /\ D' \in Int
        BY <4>n, <4>4
      <4>5. waitGroup + count = S + D => waitGroup' + count' = S' + D'
        BY <4>n, <4>m, <4>4
      <4>6. ASSUME NEW u \in Updating
            PROVE  /\ waitGroup + count = D + uCur[u] => waitGroup' + count' = D' + uCur'[u]
                   /\ waitGroup + count = S + D + uKill[u] - uSpawn[u]
                        => waitGroup' + count' = S' + D' + uKill'[u] - uSpawn'[u]
        <5>1. uCur[u] \in Int /\ uKill[u] \in Int /\ uSpawn[u] \in Int
          BY <4>3
        <5>2. uCur'[u] = uCur[u] /\ uKill'[u] = uKill[u] /\ uSpawn'[u] = uSpawn[u]
          BY <4>2
        <5>3. uCur'[u] \in Int /\ uKill'[u] \in Int /\ uSpawn'[u] \in Int
          BY <5>1, <5>2
        <5> HIDE <1>n
        <5>4. waitGroup + count = D + uCur[u] => waitGroup' + count' = D' + uCur'[u]
          BY <4>n, <4>m, <4>4, <5>1, <5>2, <5>3
        <5>5. waitGroup + count = S + D + uKill[u] - uSpawn[u]
                => waitGroup' + count' = S' + D' + uKill'[u] - uSpawn'[u]
          BY <4>n, <4>m, <4>4, <5>1, <5>2, <5>3
        <5> QED
          BY <5>4, <5>5
      <4> QED
        BY <3>4, <4>1, <4>2, <4>5, <4>6, Zenon
    <3> HIDE DEF Updating
    <3> QED
      BY <1>0, <3>2, <3>3, <3>4, <3>6 DEF S, D
  <2> QED
    BY <2>2, <2>3, <2>4, <2>5, Zenon
<1>5. ASSUME NEW u \in Updaters, BeginUpdate(u) PROVE Balanced'
  <2>1. Updating = {} /\ runPc \in UnderWay
    BY <1>5, Zenon DEF BeginUpdate
  <2>2. /\ uPc' = [uPc EXCEPT ![u] = "current"]
        /\ UNCHANGED <<rate, pills, waitGroup, count, runPc, runI, uCur, uSpawn, uKill>>
    BY <1>5, Zenon DEF BeginUpdate, Step, vars, poolVars, runVars
  <2>3. Updating' = {u} /\ uPc'[u] = "current"
        /\ \A v \in Updaters : uPc'[v] \in {"limiter", "rate"} => uPc[v] = uPc'[v]
    BY <2>1, <2>2 DEF TaskTypeOK, ControlTypeOK
  <2> HIDE DEF Updating
  <2> QED
    BY <1>0, <1>s, <1>d, <2>1, <2>2, <2>3 DEF S, D
<1>6. ASSUME NEW u \in Updaters, UpdateTaskRate(u) PROVE Balanced'
  <2>0. Updating = {u} /\ runPc \in UnderWay
    BY <1>0, <1>6, UpdatingStep
  <2>u. uPc \in [Updaters -> UpdaterPoints] /\ uCur \in [Updaters -> Nat]
        /\ uSpawn \in [Updaters -> Nat] /\ uKeep \in [Updaters -> Nat]
        /\ uKill \in [Updaters -> Nat]
    BY DEF TaskTypeOK, ControlTypeOK
  <2>1. CASE CurrentProducers(u)
    <3>1. /\ uPc[u] = "current" /\ uPc' = [uPc EXCEPT ![u] = "limiter"]
          /\ uCur' = [uCur EXCEPT ![u] = S]
          /\ UNCHANGED <<rate, pills, waitGroup, count, runPc, runI, uSpawn, uKill>>
      BY <2>1, Zenon DEF CurrentProducers, Step, vars, poolVars, runVars, S
    <3> QED
      BY <1>0, <1>s, <1>d, <2>0, <2>u, <3>1 DEF S, D
  <2>2. CASE SetRateLimiter(u)
    <3>1. /\ uPc[u] = "limiter" /\ uPc' = [uPc EXCEPT ![u] = "rate"]
          /\ UNCHANGED <<rate, pills, waitGroup, count, runPc, runI, uCur, uSpawn, uKill>>
      BY <2>2, Zenon DEF SetRateLimiter, Step, poolVars, runVars
    <3> QED
      BY <1>0, <1>s, <1>d, <2>0, <2>u, <3>1 DEF S, D
  <2>3. CASE SetTaskRate(u)
    <3>1. /\ uPc[u] = "rate" /\ uPc' = [uPc EXCEPT ![u] = "plan"] /\ rate' = uRate[u]
          /\ UNCHANGED <<pills, waitGroup, count, runPc, runI, uCur, uSpawn, uKill>>
      BY <2>3, Zenon DEF SetTaskRate, Step, runVars
    <3>2. S' \in Nat
      BY <3>1, TaskNextTypeOK, SpawnCountNat DEF TaskTypeOK, TypeOK, WorkTypeOK, S
    <3>3. waitGroup + count = S + D /\ uCur[u] = S
      BY <1>0, <2>0, <3>1 DEF S, D
    <3>4. Updating' = {u} /\ uPc'[u] = "plan"
          /\ \A v \in Updaters : uPc'[v] \in {"limiter", "rate"} => v \in Updating'
      BY <2>0, <2>u, <3>1
    <3>5. D' = D
      BY <1>d, <3>1
    <3> HIDE DEF Updating
    <3> QED
      BY <2>0, <3>1, <3>2, <3>3, <3>4, <3>5 DEF S, D
  <2>4. CASE PlanProducers(u)
    <3>1. /\ uPc[u] = "plan" /\ uPc' = [uPc EXCEPT ![u] = "change"]
          /\ \/ /\ S < uCur[u] /\ uSpawn' = [uSpawn EXCEPT ![u] = 0]
                /\ uKill' = [uKill EXCEPT ![u] = uCur[u] - S]
             \/ /\ ~(S < uCur[u]) /\ uSpawn' = [uSpawn EXCEPT ![u] = S - uCur[u]]
                /\ uKill' = [uKill EXCEPT ![u] = 0]
          /\ UNCHANGED <<rate, pills, waitGroup, count, runPc, runI, uCur>>
      BY <2>4, Zenon DEF PlanProducers, Step, vars, poolVars, runVars, S
    <3>2. waitGroup + count = D + uCur[u]
      BY <1>0, <2>0, <3>1 DEF S, D
    <3>3. Updating' = {u} /\ uPc'[u] = "change"
          /\ \A v \in Updaters : uPc'[v] \in {"limiter", "rate"} => v \in Updating'
      BY <2>0, <2>u, <3>1
    <3>4. uCur[u] = S + uKill'[u] - uSpawn'[u]
      <4>1. \/ uSpawn'[u] = 0 /\ uKill'[u] = uCur[u] - S
            \/ uSpawn'[u] = S - uCur[u] /\ uKill'[u] = 0
        BY <2>u, <3>1, Zenon
      <4> QED
        BY <4>1
    <3>5. D' = D /\ S' = S
      BY <1>s, <1>d, <3>1
    <3>6. waitGroup' + count' = S' + D' + uKill'[u] - uSpawn'[u]
      <4>1. uKill'[u] \in Nat /\ uSpawn'[u] \in Nat
        BY TaskNextTypeOK DEF TaskTypeOK, TypeOK, ControlTypeOK, WorkTypeOK
      <4>2. waitGroup' = waitGroup /\ count' = count
        BY <3>1
      <4> QED
        BY <3>2, <3>4, <3>5, <4>1, <4>2
    <3> HIDE DEF Updating
    <3> QED
      BY <2>0, <3>1, <3>3, <3>6 DEF S, D
  <2>5. CASE AddProducer(u)
    <3>1. /\ uPc[u] = "change" /\ waitGroup' = waitGroup + 1
          /\ uSpawn' = [uSpawn EXCEPT ![u] = @ - 1]
          /\ UNCHANGED <<rate, pills, count, runPc, runI, uPc, uCur, uKill>>
      BY <2>5, Zenon DEF AddProducer, TaskGenerator, runVars
    <3> QED
      BY <1>0, <1>s, <1>d, <2>0, <2>u, <3>1, SMTT(40) DEF S, D
  <2>6. CASE PushPill(u)
    <3>1. /\ uPc[u] = "change"
          /\ UNCHANGED <<rate, waitGroup, count, runPc, runI, uPc, uCur, uSpawn>>
          /\ \/ pills' = Append(pills, FALSE) /\ uKill' = uKill
             \/ pills' = Append(pills, TRUE) /\ uKill' = [uKill EXCEPT ![u] = @ - 1]
      BY <2>6, Zenon DEF PushPill, runVars
    <3>2. CASE pills' = Append(pills, FALSE) /\ uKill' = uKill
      <4>1. D' = D
        BY <3>2, EndsAppend DEF D, Deadly, Ends
      <4> QED
        BY <1>0, <1>s, <2>0, <2>u, <3>1, <3>2, <4>1 DEF S, D
    <3>3. CASE pills' = Append(pills, TRUE) /\ uKill' = [uKill EXCEPT ![u] = @ - 1]
      <4>1. D' = D + 1
        BY <3>3, EndsAppend DEF D, Deadly, Ends
      <4>2. uKill'[u] = uKill[u] - 1
        BY <2>u, <3>3, Zenon
      <4>3. waitGroup + count = S + D + uKill[u] - uSpawn[u]
        BY <1>0, <2>0, <3>1 DEF S, D
      <4>4. UNCHANGED <<rate, waitGroup, count, runPc, uPc, uCur, uSpawn>> /\ uPc[u] = "change"
        BY <3>1, Zenon
      <4>5. S' = S
        BY <1>s, <4>4
      <4>6. waitGroup' + count' = S' + D' + uKill'[u] - uSpawn'[u]
        <5>1. waitGroup' = waitGroup /\ count' = count /\ uSpawn'[u] = uSpawn[u]
          BY <4>4, Zenon
        <5>2. /\ S \in Nat /\ D \in Nat /\ uKill[u] \in Nat /\ uSpawn[u] \in Nat
              /\ waitGroup \in Nat /\ count \in Nat
          BY <1>n
        <5> HIDE DEF Balanced, Updating
        <5> QED
          BY <4>1, <4>2, <4>3, <4>5, <5>1, <5>2
      <4>7. Updating' = {u} /\ uPc'[u] = "change"
            /\ \A v \in Updaters : uPc'[v] \in {"limiter", "rate"} => v \in Updating'
        BY <2>0, <2>u, <4>4
      <4> HIDE DEF Updating
      <4> QED
        BY <2>0, <4>4, <4>6, <4>7 DEF S, D
    <3> QED
      BY <3>1, <3>2, <3>3, Zenon
  <2>7. CASE ProducersChanged(u) \/ AddStrickers(u) \/ DestroyStrickers(u)
    <3>1. /\ uPc[u] = "change" => uSpawn[u] = 0 /\ uKill[u] = 0
          /\ uPc[u] \in {"change", "strickers"}
          /\ \E to \in {"strickers", "store", "stuck"} : uPc' = [uPc EXCEPT ![u] = to]
          /\ UNCHANGED <<rate, pills, waitGroup, count, runPc, runI, uCur, uSpawn, uKill>>
      BY <2>7 DEF ProducersChanged, AddStrickers, DestroyStrickers, Step, vars, poolVars, runVars
    <3> QED
      BY <1>0, <1>s, <1>d, <2>0, <2>u, <3>1, SMTT(40) DEF S, D
  <2>8. CASE StoreRate(u)
    <3>1. /\ uPc[u] = "store" /\ uPc' = [uPc EXCEPT ![u] = "idle"]
          /\ uCur' = [uCur EXCEPT ![u] = 0]
          /\ UNCHANGED <<rate, pills, waitGroup, count, runPc, runI, uSpawn, uKill>>
      BY <2>8, Zenon DEF StoreRate, Step, vars, poolVars, runVars
    <3> QED
      BY <1>0, <1>s, <1>d, <2>0, <2>u, <3>1 DEF S, D
  <2> QED
    BY <1>6, <2>1, <2>2, <2>3, <2>4, <2>5, <2>6, <2>7, <2>8, Zenon DEF UpdateTaskRate
<1> QED
  BY <1>1, <1>2, <1>3, <1>4, <1>5, <1>6, Zenon DEF TaskNext

LEMMA InitBalanced == TaskInit => BalancedInv
BY DEF TaskInit, Init, BalancedInv, Balanced, Updating, UnderWay

THEOREM BalancedCorrect == TaskSpec => []BalancedInv
BY InitBalanced, NextBalanced, TaskTypeCorrect, TaskWaitGroupCorrect, PTL DEF TaskSpec

LEMMA BalancedAccounts == TaskTypeOK /\ WaitGroupExact /\ BalancedInv => PillAccounting
<1> SUFFICES ASSUME TaskTypeOK, WaitGroupExact, Balanced,
                    runPc \notin {"idle", "producers"}, NEW u \in Updaters, Updating \subseteq {u}
             PROVE  waitGroup + count
                      = GetTaskGeneratorSpawnCount(rate) + Cardinality(Deadly) + Owed(u)
  BY DEF BalancedInv, PillAccounting, WaitGroupExact
<1>1. runPc \in UnderWay \cup {"ended"}
  BY DEF TaskTypeOK, TypeOK, RunPoints, UnderWay
<1>2. CASE u \in Updating
  <2>1. /\ uPc[u] = "plan" => Owed(u) = uCur[u] - GetTaskGeneratorSpawnCount(rate)
        /\ uPc[u] = "change" => Owed(u) = uKill[u] - uSpawn[u]
        /\ uPc[u] \notin {"plan", "change"} => Owed(u) = 0
    BY Zenon DEF Owed
  <2>2. /\ GetTaskGeneratorSpawnCount(rate) \in Nat /\ waitGroup \in Nat /\ count \in Nat
        /\ Cardinality(Deadly) \in Nat
        /\ uCur[u] \in Nat /\ uSpawn[u] \in Nat /\ uKill[u] \in Nat
    BY SpawnCountNat, LiveFinite, FS_CardinalityType, DeadlyIs, EndsFinite
    DEF TaskTypeOK, TypeOK, ControlTypeOK, WaitGroupExact
  <2> QED
    BY <1>1, <1>2, <2>1, <2>2 DEF Balanced
<1>3. CASE u \notin Updating
  <2>1. Updating = {} /\ Owed(u) = 0
    BY <1>3 DEF Updating, Owed
  <2>2. GetTaskGeneratorSpawnCount(rate) + Cardinality(Deadly) \in Int
    BY SpawnCountNat, DeadlyIs, EndsFinite DEF TaskTypeOK, TypeOK
  <2> QED
    BY <1>1, <2>1, <2>2 DEF Balanced
<1> QED
  BY <1>2, <1>3

\* Producers, reports and pills add up for any sequence of updates, up or down.
THEOREM PillAccountingCorrect == TaskSpec => []PillAccounting
BY BalancedAccounts, BalancedCorrect, TaskTypeCorrect, TaskWaitGroupCorrect, PTL

-----------------------------------------------------------------------------
(* Producers that wait for a pill *)

\* As long as updates and calls do not overlap, the pills in the channel and
\* those an update is still to send are enough for every producer that takes
\* one.
TakersMet ==
  LET takers == Cardinality(PillTakers)
      spawned == GetTaskGeneratorSpawnCount(rate)
  IN  /\ Updating = {} => takers <= Len(pills)
      /\ \A u \in Updating :
           /\ uPc[u] = "plan" /\ spawned < uCur[u] => takers <= Len(pills) + uCur[u]
           /\ uPc[u] = "plan" /\ spawned >= uCur[u] => takers <= Len(pills)
           /\ uPc[u] = "change" => takers <= Len(pills) + (uKeep[u] + uKill[u])
           /\ uPc[u] \notin {"plan", "change"} => takers <= Len(pills)

TakersInv == ~raced /\ ~leftover => TakersMet

LEMMA TakersFinite ==
  WaitGroupExact =>
    /\ IsFiniteSet(PillTakers) /\ Cardinality(PillTakers) \in Nat
    /\ Cardinality(PillTakers) <= waitGroup
<1>1. PillTakers \in SUBSET Live
  BY DEF PillTakers
<1> HIDE DEF PillTakers
<1> QED
  BY <1>1, LiveFinite, FS_Subset, FS_CardinalityType DEF WaitGroupExact

\* What producers and the goroutine of the pool do to those that wait.
LEMMA TakersStep ==
  ASSUME TypeOK, NEW p \in Producer, ProducerStep(p)
  PROVE  \/ pills' = pills /\ PillTakers' \subseteq PillTakers
         \/ /\ pills # <<>> /\ pills' = Tail(pills)
            /\ p \in PillTakers /\ PillTakers' \subseteq PillTakers \ {p}
<1> DEFINE Fresh == {"none", "readLimiter", "readCount", "finish"}
           spawned == GetTaskGeneratorSpawnCount(rate)
<1>1. /\ \A q \in PillTakers : pc[q] \notin Fresh
      /\ \A q \in Producer : pc[q] = "takePill" => q \in PillTakers
      /\ \A q \in Producer : pc[q] \notin Fresh /\ myCount[q] > spawned => q \in PillTakers
  BY DEF PillTakers, Live
<1>2. ASSUME UNCHANGED rate, \A q \in Producer \ {p} : pc'[q] = pc[q] /\ myCount'[q] = myCount[q],
             p \in PillTakers' => p \in PillTakers
      PROVE  PillTakers' \subseteq PillTakers
  BY <1>2 DEF PillTakers, Live
<1>3. ASSUME pc'[p] \in Fresh PROVE p \notin PillTakers'
  BY <1>3 DEF PillTakers, Live
<1>4. CASE KeepPill(p) \/ EndPill(p)
  <2>1. /\ pc[p] = "takePill" /\ pills # <<>> /\ pills' = Tail(pills) /\ UNCHANGED rate
        /\ pc'[p] \in Fresh
        /\ \A q \in Producer \ {p} : pc'[q] = pc[q] /\ myCount'[q] = myCount[q]
    <3>1. /\ pc[p] = "takePill" /\ pills # <<>> /\ pills' = Tail(pills) /\ UNCHANGED rate
          /\ \/ pc' = [pc EXCEPT ![p] = "readLimiter"] /\ UNCHANGED myCount
             \/ /\ pc' = [pc EXCEPT ![p] = "none"]
                /\ myCount' = [myCount EXCEPT ![p] = 0]
      BY <1>4, Zenon DEF KeepPill, EndPill, Goto, Leave
    <3>2. pc \in [Producer -> ProducerPoints] /\ myCount \in [Producer -> Nat]
      BY DEF TypeOK
    <3>3. pc'[p] \in Fresh
      BY <3>1, <3>2, Zenon
    <3>4. \A q \in Producer \ {p} : pc'[q] = pc[q] /\ myCount'[q] = myCount[q]
      BY <3>1, <3>2, Zenon
    <3> QED
      BY <3>1, <3>3, <3>4, Zenon
  <2>2. p \in PillTakers /\ p \notin PillTakers'
    BY <1>1, <1>3, <2>1
  <2>3. PillTakers' \subseteq PillTakers
    BY <1>2, <2>1, <2>2
  <2> QED
    BY <2>1, <2>2, <2>3, Zenon
<1>5. CASE ReadLimiter(p) \/ ReadCount(p) \/ Deadline(p)
  <2>1. /\ UNCHANGED <<pills, rate>> /\ pc'[p] \in Fresh \cup {"loop"}
        /\ \A q \in Producer \ {p} : pc'[q] = pc[q] /\ myCount'[q] = myCount[q]
        /\ pc'[p] = "loop" => myCount'[p] = spawned
    BY <1>5 DEF ReadLimiter, ReadCount, Deadline, Goto, TypeOK, poolVars
  <2>2. p \notin PillTakers'
    <3>1. spawned \in Nat
      BY SpawnCountNat DEF TypeOK
    <3>2. CASE pc'[p] = "loop"
      <4>1. ~(myCount'[p] > spawned) /\ GetTaskGeneratorSpawnCount(rate)' = spawned
        BY <2>1, <3>1, <3>2
      <4> HIDE DEF spawned
      <4> QED
        BY <3>2, <4>1 DEF PillTakers
    <3> QED
      BY <1>3, <2>1, <3>2
  <2> QED
    BY <1>2, <2>1, <2>2
<1>6. CASE NextTick(p) \/ CheckStop(p) \/ CheckLimiter(p) \/ CheckCount(p) \/ Send(p)
  <2>1. /\ UNCHANGED <<pills, rate, myCount>> /\ pc[p] \notin Fresh
        /\ \A q \in Producer \ {p} : pc'[q] = pc[q] /\ myCount'[q] = myCount[q]
        /\ pc'[p] = "takePill" => myCount[p] > spawned
    BY <1>6, SpawnCountNat
    DEF NextTick, CheckStop, CheckLimiter, CheckCount, Send, Goto, TypeOK, poolVars
  <2>2. p \in PillTakers' => p \in PillTakers
    BY <1>1, <2>1 DEF PillTakers, Live
  <2> QED
    BY <1>2, <2>1, <2>2
<1> QED
  BY <1>4, <1>5, <1>6, Zenon DEF ProducerStep, Proceed, Steady, Adopt

LEMMA GoroutineTakers ==
  ASSUME TypeOK, RunGoroutine
  PROVE  pills' = pills /\ rate' = rate /\ PillTakers' \subseteq PillTakers
<1>1. CASE SpawnProducer
  BY <1>1 DEF SpawnProducer, TaskGenerator, TypeOK, PillTakers, Live
<1>2. ASSUME NEW p \in Producer, ReceiveDone(p)
      PROVE  pills' = pills /\ rate' = rate /\ PillTakers' \subseteq PillTakers
  BY <1>2 DEF ReceiveDone, Leave, TypeOK, PillTakers, Live
<1>3. CASE ProducersSpawned \/ StrickersSpawned \/ Trigger \/ AnnounceEnd \/ AwaitDone
  BY <1>3
  DEF ProducersSpawned, StrickersSpawned, Trigger, AnnounceEnd, AwaitDone, poolVars, producerVars,
      PillTakers, Live
<1> QED
  BY <1>1, <1>2, <1>3 DEF RunGoroutine

LEMMA NextTakers ==
  /\ TaskTypeOK /\ WaitGroupExact /\ BalancedInv /\ TakersInv /\ [TaskNext]_allVars
  /\ TaskTypeOK' /\ WaitGroupExact'
  => TakersInv'
<1> SUFFICES ASSUME TaskTypeOK, WaitGroupExact, BalancedInv, TakersInv, [TaskNext]_allVars,
                    TaskTypeOK', WaitGroupExact', ~raced', ~leftover'
             PROVE  TakersMet'
  BY DEF TakersInv
<1> DEFINE S == GetTaskGeneratorSpawnCount(rate)
           T == Cardinality(PillTakers)
           L == Len(pills)
<1>0. ~raced /\ ~leftover /\ TakersMet /\ Balanced
  BY HistoryGrows, LeftoverStays DEF TakersInv, BalancedInv
<1>n. /\ S \in Nat /\ T \in Nat /\ L \in Nat /\ IsFiniteSet(PillTakers)
      /\ pills \in Seq(BOOLEAN)
      /\ \A u \in Updaters : uCur[u] \in Nat /\ uKeep[u] \in Nat /\ uKill[u] \in Nat
  BY SpawnCountNat, TakersFinite, LenProperties DEF TaskTypeOK, TypeOK, ControlTypeOK
<1>m. S' \in Nat /\ T' \in Nat /\ L' \in Nat /\ T' <= waitGroup'
  <2>1. (WaitGroupExact =>
           /\ IsFiniteSet(PillTakers) /\ Cardinality(PillTakers) \in Nat
           /\ Cardinality(PillTakers) <= waitGroup)'
    BY TakersFinite, PTL
  <2>2. rate' \in Rates /\ pills' \in Seq(BOOLEAN)
    BY DEF TaskTypeOK, TypeOK
  <2> QED
    BY <2>1, <2>2, SpawnCountNat, LenProperties
<1>s. rate' = rate => S' = S
  OBVIOUS
<1>f. PillTakers' \subseteq PillTakers => T' <= T
  BY <1>n, FS_Subset
<1>l. pills' = pills => L' = L
  OBVIOUS
<1>u. ASSUME S' = S, T <= L => T' <= L', \A n \in Nat : T <= L + n => T' <= L' + n,
             UNCHANGED <<uPc, uCur, uKeep, uKill>>
      PROVE  TakersMet'
  <2>1. \A u \in Updating : u \in Updaters
    BY DEF Updating
  <2>2. Updating' = Updating
    BY <1>u DEF Updating
  <2>3. /\ Updating = {} => T' <= L'
        /\ \A u \in Updating :
             /\ uPc[u] = "plan" /\ S < uCur[u] => T' <= L' + uCur[u]
             /\ uPc[u] = "plan" /\ S >= uCur[u] => T' <= L'
             /\ uPc[u] = "change" => T' <= L' + (uKeep[u] + uKill[u])
             /\ uPc[u] \notin {"plan", "change"} => T' <= L'
    <3>1. /\ Updating = {} => T <= L
          /\ \A u \in Updating :
               /\ uPc[u] = "plan" /\ S < uCur[u] => T <= L + uCur[u]
               /\ uPc[u] = "plan" /\ S >= uCur[u] => T <= L
               /\ uPc[u] = "change" => T <= L + (uKeep[u] + uKill[u])
               /\ uPc[u] \notin {"plan", "change"} => T <= L
      BY <1>0 DEF TakersMet
    <3>2. \A u \in Updating : uCur[u] \in Nat /\ uKeep[u] + uKill[u] \in Nat
      BY <1>n, <2>1
    <3> HIDE DEF S, T, L
    <3> QED
      BY <1>u, <3>1, <3>2, Zenon
  <2> HIDE DEF Updating
  <2> QED
    BY <1>u, <2>2, <2>3 DEF TakersMet
<1>1. CASE Run
  <2>1. Updating = {} /\ Live' = {} /\ UNCHANGED uPc
    BY <1>1 DEF Run, StartRun, updaterVars, Live
  <2>2. PillTakers' = {} /\ Updating' = {}
    BY <2>1 DEF PillTakers, Updating
  <2>3. T' = 0
    BY <2>2, FS_EmptySet, Zenon
  <2> QED
    BY <1>m, <2>2, <2>3 DEF TakersMet
<1>2. CASE TaskDelete \/ BeginStop \/ StopStep \/ UNCHANGED allVars
  <2>1. UNCHANGED <<rate, pills, pc, myCount, uPc, uCur, uKeep, uKill>>
    BY <1>2
    DEF TaskDelete, BeginStop, StopStep, SetStopped, StopTask, CopyTask, StoreTask,
        WaitForProducers, allVars, controlVars, vars, poolVars, producerVars, updaterVars
  <2>2. PillTakers' = PillTakers
    BY <2>1 DEF PillTakers, Live
  <2>3. T' = T /\ L' = L /\ S' = S
    BY <2>1, <2>2
  <2> HIDE DEF S, T, L
  <2> QED
    BY <1>u, <2>1, <2>3, Zenon
<1>3. CASE MainWork
  <2>1. pills' = pills /\ rate' = rate /\ PillTakers' \subseteq PillTakers
    BY <1>3, GoroutineTakers DEF MainWork, TaskTypeOK
  <2>2. UNCHANGED <<uPc, uCur, uKeep, uKill>>
    BY <1>3, Zenon DEF MainWork, updaterVars
  <2>3. T' <= T /\ L' = L /\ S' = S
    BY <1>f, <2>1
  <2> HIDE DEF S, T, L
  <2>4. (T <= L => T' <= L') /\ \A n \in Nat : T <= L + n => T' <= L' + n
    BY <1>n, <1>m, <2>3
  <2> QED
    BY <1>u, <2>2, <2>3, <2>4
<1>4. ASSUME NEW p \in Producer, ProducerWork(p) PROVE TakersMet'
  <2>1. ProducerStep(p) /\ TypeOK /\ UNCHANGED <<uPc, uCur, uKeep, uKill>>
    BY <1>4 DEF ProducerWork, controlVars, updaterVars, TaskTypeOK
  <2>2. UNCHANGED rate
    <3>1. UNCHANGED <<rate, runVars>>
      BY <2>1, PillsTaken, Zenon
    <3> QED
      BY <3>1, Zenon
  <2>3. CASE pills' = pills /\ PillTakers' \subseteq PillTakers
    <3>1. T' <= T /\ L' = L /\ S' = S
      BY <1>f, <2>2, <2>3
    <3> HIDE DEF S, T, L
    <3>2. (T <= L => T' <= L') /\ \A n \in Nat : T <= L + n => T' <= L' + n
      BY <1>n, <1>m, <3>1
    <3> QED
      BY <1>u, <2>1, <3>1, <3>2
  <2>4. CASE /\ pills # <<>> /\ pills' = Tail(pills)
             /\ p \in PillTakers /\ PillTakers' \subseteq PillTakers \ {p}
    <3>1. L' = L - 1 /\ S' = S
      BY <1>n, <2>2, <2>4, HeadTailProperties
    <3>2. T' <= T - 1
      <4> DEFINE R == PillTakers \ {p}
      <4>1. IsFiniteSet(R) /\ Cardinality(R) = T - 1
        BY <1>n, <2>4, FS_RemoveElement
      <4>2. PillTakers' \in SUBSET R
        BY <2>4
      <4> HIDE DEF R
      <4>3. T' <= Cardinality(R)
        BY <4>1, <4>2, FS_Subset
      <4> QED
        BY <4>1, <4>3
    <3> HIDE DEF S, T, L
    <3>3. (T <= L => T' <= L') /\ \A n \in Nat : T <= L + n => T' <= L' + n
      BY <1>n, <1>m, <3>1, <3>2
    <3> QED
      BY <1>u, <2>1, <3>1, <3>3
  <2> QED
    BY <2>1, <2>3, <2>4, TakersStep
<1>5. ASSUME NEW u \in Updaters, BeginUpdate(u) PROVE TakersMet'
  <2>1. /\ Updating = {} /\ uPc' = [uPc EXCEPT ![u] = "current"]
        /\ UNCHANGED <<rate, pills, pc, myCount>>
    BY <1>5, Zenon DEF BeginUpdate, Step, vars, poolVars, producerVars
  <2>2. Updating' = {u} /\ uPc'[u] = "current"
    BY <2>1 DEF Updating, TaskTypeOK, ControlTypeOK
  <2>3. T' = T /\ L' = L
    <3>1. PillTakers' = PillTakers
      BY <2>1 DEF PillTakers, Live
    <3> QED
      BY <2>1, <3>1
  <2>4. T <= L
    BY <1>0, <2>1 DEF TakersMet
  <2> QED
    BY <2>2, <2>3, <2>4 DEF TakersMet
<1>6. ASSUME NEW u \in Updaters, UpdateTaskRate(u) PROVE TakersMet'
  <2>0. Updating = {u} /\ runPc \in UnderWay
    BY <1>0, <1>6, UpdatingStep DEF Balanced
  <2>u. /\ uPc \in [Updaters -> UpdaterPoints] /\ uCur \in [Updaters -> Nat]
        /\ uKeep \in [Updaters -> Nat] /\ uKill \in [Updaters -> Nat]
    BY DEF TaskTypeOK, ControlTypeOK
  <2>n. uCur[u] \in Nat /\ uKeep[u] \in Nat /\ uKill[u] \in Nat
    BY <1>n
  <2>t. /\ uPc[u] = "plan" /\ S < uCur[u] => T <= L + uCur[u]
        /\ uPc[u] = "plan" /\ S >= uCur[u] => T <= L
        /\ uPc[u] = "change" => T <= L + (uKeep[u] + uKill[u])
        /\ uPc[u] \notin {"plan", "change"} => T <= L
    BY <1>0, <2>0 DEF TakersMet
  <2>e. ASSUME \E to \in {"idle", "limiter", "rate", "plan", "change", "strickers", "store", "stuck"} :
                 uPc' = [uPc EXCEPT ![u] = to]
        PROVE  Updating' \subseteq {u} /\ (u \notin Updating' => Updating' = {} /\ uPc'[u] = "idle")
    BY <2>0, <2>u, <2>e DEF Updating
  <2>m. ASSUME Updating' \subseteq {u}, u \notin Updating' => Updating' = {} /\ uPc'[u] = "idle",
               /\ uPc'[u] = "plan" /\ S' < uCur'[u] => T' <= L' + uCur'[u]
               /\ uPc'[u] = "plan" /\ S' >= uCur'[u] => T' <= L'
               /\ uPc'[u] = "change" => T' <= L' + (uKeep'[u] + uKill'[u])
               /\ uPc'[u] \notin {"plan", "change"} => T' <= L'
        PROVE  TakersMet'
    BY <2>m DEF TakersMet
  <2>k. UNCHANGED <<pc, myCount, rate>> => T' = T /\ S' = S
    <3>1. UNCHANGED <<pc, myCount, rate>> => PillTakers' = PillTakers
      BY DEF PillTakers, Live
    <3> QED
      BY <3>1
  <2>1. CASE CurrentProducers(u) \/ SetRateLimiter(u) \/ StoreRate(u)
             \/ AddStrickers(u) \/ DestroyStrickers(u)
    <3>1. /\ uPc[u] \notin {"plan", "change"}
          /\ \E to \in {"idle", "limiter", "rate", "store", "stuck"} :
               uPc' = [uPc EXCEPT ![u] = to]
          /\ UNCHANGED <<rate, pills, pc, myCount>>
      BY <2>1
      DEF CurrentProducers, SetRateLimiter, StoreRate, AddStrickers, DestroyStrickers, Step,
          vars, poolVars, producerVars
    <3>2. uPc'[u] \notin {"plan", "change"}
      BY <2>u, <3>1
    <3>3. T' <= L'
      BY <2>k, <2>t, <3>1
    <3> HIDE DEF S, T, L
    <3> QED
      BY <2>e, <2>m, <3>1, <3>2, <3>3
  <2>2. CASE SetTaskRate(u)
    <3>1. /\ uPc[u] = "rate" /\ uPc' = [uPc EXCEPT ![u] = "plan"]
          /\ UNCHANGED <<pills, pc, myCount, uCur, count, waitGroup>>
      BY <2>2, Zenon DEF SetTaskRate, Step, producerVars, runVars
    <3>2. uPc'[u] = "plan" /\ uCur'[u] = uCur[u] /\ L' = L
      BY <2>u, <3>1
    <3>3. uCur[u] = S /\ T <= L
      BY <1>0, <2>t, <3>1 DEF Balanced
    <3>4. CASE S' < uCur[u]
      <4>1. /\ waitGroup + count = S + Cardinality(Deadly) /\ waitGroup \in Nat /\ count \in Nat
            /\ Cardinality(Deadly) \in Nat /\ Cardinality(Deadly) <= L
        <5>1. u \in Updating /\ uPc[u] \notin {"plan", "change"}
          BY <2>0, <3>1
        <5>2. waitGroup \in Nat /\ count \in Nat
          BY LiveFinite, FS_CardinalityType DEF WaitGroupExact, TaskTypeOK, TypeOK
        <5> QED
          BY <1>0, <1>n, <2>0, <5>1, <5>2, DeadlyIs, EndsFinite DEF Balanced
      <4>2. T' <= waitGroup
        BY <1>m, <3>1
      <4> HIDE DEF S, T, L
      <4>3. T' <= L' + uCur'[u]
        BY <1>n, <1>m, <3>2, <3>3, <4>1, <4>2
      <4> QED
        BY <1>m, <2>e, <2>m, <2>n, <3>1, <3>2, <3>4, <4>3
    <3>5. CASE ~(S' < uCur[u])
      <4>1. PillTakers' \subseteq PillTakers
        <5>1. S' >= S
          BY <1>n, <1>m, <3>3, <3>5
        <5>2. \A p \in Producer : myCount[p] \in Nat
          BY DEF TaskTypeOK, TypeOK
        <5>3. \A p \in Producer : myCount'[p] > S' => myCount[p] > S
          BY <1>n, <1>m, <3>1, <5>1, <5>2
        <5> QED
          BY <3>1, <5>3 DEF PillTakers, Live
      <4>2. T' <= L'
        BY <1>n, <1>m, <1>f, <3>2, <3>3, <4>1
      <4> HIDE DEF S, T, L
      <4> QED
        BY <1>m, <2>e, <2>m, <2>n, <3>1, <3>2, <3>5, <4>2
    <3> QED
      BY <3>4, <3>5
  <2>3. CASE PlanProducers(u)
    <3>1. /\ uPc[u] = "plan" /\ uPc' = [uPc EXCEPT ![u] = "change"]
          /\ \/ /\ S < uCur[u] /\ uKeep' = [uKeep EXCEPT ![u] = S]
                /\ uKill' = [uKill EXCEPT ![u] = uCur[u] - S]
             \/ /\ ~(S < uCur[u]) /\ uKeep' = [uKeep EXCEPT ![u] = 0]
                /\ uKill' = [uKill EXCEPT ![u] = 0]
          /\ UNCHANGED <<rate, pills, pc, myCount>>
      BY <2>3, Zenon DEF PlanProducers, Step, vars, poolVars, producerVars
    <3>2. uPc'[u] = "change" /\ L' = L /\ T' = T
      BY <2>k, <2>u, <3>1
    <3> HIDE DEF S, T, L
    <3>3. \/ S < uCur[u] /\ uKeep'[u] = S /\ uKill'[u] = uCur[u] - S
          \/ ~(S < uCur[u]) /\ uKeep'[u] = 0 /\ uKill'[u] = 0
      BY <2>u, <3>1, Zenon
    <3>4. T' <= L' + (uKeep'[u] + uKill'[u])
      BY <1>n, <2>n, <2>t, <3>1, <3>2, <3>3
    <3> QED
      BY <2>e, <2>m, <3>1, <3>2, <3>4
  <2>4. CASE AddProducer(u)
    <3>1. /\ uPc[u] = "change" /\ UNCHANGED <<rate, pills, uPc, uKeep, uKill>>
          /\ TaskGenerator
      BY <2>4, Zenon DEF AddProducer
    <3>2. PillTakers' \subseteq PillTakers
      BY <3>1 DEF TaskGenerator, TaskTypeOK, TypeOK, PillTakers, Live
    <3>3. uPc'[u] = "change" /\ L' = L /\ T' <= T /\ Updating' = {u}
      BY <1>f, <2>0, <3>1, <3>2 DEF Updating
    <3>4. uKeep'[u] = uKeep[u] /\ uKill'[u] = uKill[u]
      BY <3>1, Zenon
    <3> HIDE DEF S, T, L
    <3>5. T' <= L' + (uKeep'[u] + uKill'[u])
      BY <1>n, <1>m, <2>n, <2>t, <3>1, <3>3, <3>4
    <3> QED
      BY <2>m, <3>3, <3>5
  <2>5. CASE PushPill(u)
    <3>1. /\ uPc[u] = "change" /\ UNCHANGED <<rate, uPc, pc, myCount>>
          /\ \/ /\ pills' = Append(pills, FALSE) /\ uKeep' = [uKeep EXCEPT ![u] = @ - 1]
                /\ uKill' = uKill
             \/ /\ pills' = Append(pills, TRUE) /\ uKill' = [uKill EXCEPT ![u] = @ - 1]
                /\ uKeep' = uKeep
      BY <2>5, Zenon DEF PushPill, producerVars
    <3>2. uPc'[u] = "change" /\ T' = T /\ Updating' = {u}
      BY <2>0, <2>k, <3>1 DEF Updating
    <3>3. L' = L + 1
      <4>1. TRUE \in BOOLEAN /\ FALSE \in BOOLEAN
        OBVIOUS
      <4>2. \A b \in BOOLEAN : Len(Append(pills, b)) = Len(pills) + 1
        BY <1>n, AppendProperties
      <4> QED
        BY <3>1, <4>1, <4>2, Zenon
    <3>4. \/ uKeep'[u] = uKeep[u] - 1 /\ uKill'[u] = uKill[u]
          \/ uKill'[u] = uKill[u] - 1 /\ uKeep'[u] = uKeep[u]
      BY <2>u, <3>1, Zenon
    <3> HIDE DEF S, T, L
    <3>5. T' <= L' + (uKeep'[u] + uKill'[u])
      <4>1. T <= L + (uKeep[u] + uKill[u])
        BY <2>t, <3>1, Zenon
      <4>2. uKeep'[u] + uKill'[u] = uKeep[u] + uKill[u] - 1
        BY <2>n, <3>4
      <4>3. uKeep[u] + uKill[u] \in Nat
        BY <2>n
      <4>4. T \in Nat /\ L \in Nat
        BY <1>n
      <4>5. T' = T
        BY <3>2
      <4>6. uKeep[u] \in Int /\ uKill[u] \in Int /\ uKeep'[u] \in Int /\ uKill'[u] \in Int
        BY <2>n, <3>4
      <4> QED
        BY <1>m, <3>3, <4>1, <4>2, <4>3, <4>4, <4>5, <4>6
    <3> QED
      BY <2>m, <3>2, <3>5
  <2>6. CASE ProducersChanged(u)
    <3>1. /\ uPc[u] = "change" /\ uPc' = [uPc EXCEPT ![u] = "strickers"]
          /\ uKeep[u] = 0 /\ uKill[u] = 0 /\ UNCHANGED <<rate, pills, pc, myCount>>
      BY <2>6, Zenon DEF ProducersChanged, Step, vars, poolVars, producerVars
    <3>2. uPc'[u] = "strickers" /\ L' = L /\ T' = T
      BY <2>k, <2>u, <3>1
    <3> HIDE DEF S, T, L
    <3>3. T' <= L'
      BY <1>n, <2>t, <3>1, <3>2
    <3> QED
      BY <2>e, <2>m, <3>1, <3>2, <3>3
  <2> QED
    BY <1>6, <2>1, <2>2, <2>3, <2>4, <2>5, <2>6, Zenon DEF UpdateTaskRate
<1> QED
  BY <1>1, <1>2, <1>3, <1>4, <1>5, <1>6, Zenon DEF TaskNext

\* No producer waits for a pill that nobody sends, whatever the rates and
\* however often they change: an update keeps nobody of the run waiting.
THEOREM PillsSufficeCorrect == TaskSpec => []PillsSuffice
<1>1. TaskInit => TakersInv
  <2> SUFFICES ASSUME TaskInit PROVE TakersMet
    BY DEF TakersInv
  <2>1. PillTakers = {} /\ Updating = {} /\ pills = <<>>
    BY DEF TaskInit, Init, PillTakers, Live, Updating
  <2>2. Cardinality(PillTakers) = 0 /\ Len(pills) = 0
    BY <2>1, FS_EmptySet
  <2> QED
    BY <2>1, <2>2 DEF TakersMet
<1>2. TakersInv => PillsSuffice
  BY DEF TakersInv, TakersMet, PillsSuffice
<1> QED
  BY <1>1, <1>2, NextTakers, BalancedCorrect, TaskTypeCorrect, TaskWaitGroupCorrect, PTL
  DEF TaskSpec
=============================================================================
