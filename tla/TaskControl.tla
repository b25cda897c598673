---------------------------- MODULE TaskControl ----------------------------
(***************************************************************************)
(* One task of the library (lib/main.go) and the clients that call         *)
(* UpdateTaskRate, StopTask and Run on it while its pool works: Hudor takes *)
(* no lock, so each read or write of what two goroutines share is a step   *)
(* of its own.  TaskObjectMap holds structs: a client reads a copy, changes *)
(* one field of it and stores the whole copy back later.                   *)
(***************************************************************************)
EXTENDS Producers

CONSTANTS
  Updaters,    \* clients that may be inside UpdateTaskRate at the same time
  PillCap,     \* capacity of ProducerDestroyChannel (20000)
  DestroyCap,  \* capacity of DestroyChannel (20000)
  Budgets      \* BOUND: how many calls of each kind one behaviour may have

CallKinds == {"run", "update", "stop"}

ASSUME TaskControlConstants ==
  PillCap \in Nat /\ DestroyCap \in Nat /\ Budgets \subseteq [CallKinds -> Nat]

VARIABLES
  active,    \* the task is in ActiveTaskMap
  taskRate,  \* the Rate of its copy in TaskObjectMap
  pace,      \* the rate the pool's current limiter ticks at
  calls,     \* calls of Run, UpdateTaskRate and StopTask still to come
  destroy,   \* values in DestroyChannel, which no goroutine reads
  \* clients in UpdateTaskRate and their local variables
  uPc, uRate, uOld, uCur, uSpawn, uKeep, uKill,
  \* the client in StopTask and the Rate of the struct it copied
  sPc, sRate,
  \* history: an update called for fewer producers; a call overlapped another
  \* one, the spawning of the first producers or the end of the run; a run
  \* began with producers or pills of the run before
  lowered, raced, leftover

updaterVars == <<uPc, uRate, uOld, uCur, uSpawn, uKeep, uKill>>
taskVars == <<active, taskRate, pace, destroy>>
clientVars == <<sPc, sRate>>
historyVars == <<calls, lowered, raced, leftover>>
controlVars == <<taskVars, updaterVars, clientVars, historyVars>>
allVars == <<vars, controlVars>>

UpdaterPoints ==
  {"idle", "current", "limiter", "rate", "plan", "change", "strickers", "store", "stuck"}
StopPoints == {"idle", "set", "copy", "store", "wait"}

\* The points of the run goroutine between the spawns and the end.
UnderWay == {"strickers", "trigger", "check", "recvDone"}

Updating == {u \in Updaters : uPc[u] # "idle"}
Stopping == sPc \in {"set", "copy", "store"}

-----------------------------------------------------------------------------
TaskInit ==
  /\ Init
  /\ active = FALSE /\ taskRate = rate /\ pace = rate
  /\ destroy \in 0 .. DestroyCap  \* left there by earlier updates
  /\ calls \in Budgets
  /\ uPc = [u \in Updaters |-> "idle"]
  /\ uRate = [u \in Updaters |-> 0]
  /\ uOld = [u \in Updaters |-> 0]
  /\ uCur = [u \in Updaters |-> 0]
  /\ uSpawn = [u \in Updaters |-> 0]
  /\ uKeep = [u \in Updaters |-> 0]
  /\ uKill = [u \in Updaters |-> 0]
  /\ sPc = "idle" /\ sRate = rate
  /\ lowered = FALSE /\ raced = FALSE /\ leftover = FALSE

Call(k) == calls[k] > 0 /\ calls' = [calls EXCEPT ![k] = @ - 1]

\* Hudor.Run, when the task is not active; taskExecutor enters it in
\* ActiveTaskMap before the pool's goroutine starts.  The new limiter ticks at
\* the rate in TaskObjectMap; the pool keeps its own.
Run ==
  /\ ~active
  /\ Call("run")
  /\ StartRun
  /\ active' = TRUE
  /\ pace' = taskRate
  /\ raced' = (raced \/ Updating # {} \/ Stopping)
  /\ leftover' = (leftover \/ Live # {} \/ pills # <<>>)
  /\ UNCHANGED <<taskRate, destroy, updaterVars, clientVars, lowered>>

\* taskDelete takes the name the pool announced.
TaskDelete ==
  /\ runPc = "ended" /\ active
  /\ active' = FALSE
  /\ UNCHANGED <<vars, taskRate, pace, destroy, updaterVars, clientVars, historyVars>>

-----------------------------------------------------------------------------
(* UpdateTaskRate *)

Step(u, from, to) == uPc[u] = from /\ uPc' = [uPc EXCEPT ![u] = to]

\* The test of ActiveTaskMap and the copy of the task.
BeginUpdate(u) ==
  /\ active
  /\ Call("update")
  /\ Step(u, "idle", "current")
  /\ \E r \in Rates : uRate' = [uRate EXCEPT ![u] = r]
  /\ uOld' = [uOld EXCEPT ![u] = taskRate]
  /\ raced' = (raced \/ Updating # {} \/ Stopping \/ runPc \notin UnderWay)
  /\ UNCHANGED <<vars, active, taskRate, pace, destroy, uCur, uSpawn, uKeep, uKill,
                 clientVars, lowered, leftover>>

CurrentProducers(u) ==
  /\ Step(u, "current", "limiter")
  /\ uCur' = [uCur EXCEPT ![u] = GetTaskGeneratorSpawnCount(rate)]
  /\ UNCHANGED <<vars, taskVars, uRate, uOld, uSpawn, uKeep, uKill, clientVars, historyVars>>

SetRateLimiter(u) ==
  /\ Step(u, "limiter", "rate")
  /\ ReplaceLimiter
  /\ pace' = uRate[u]
  /\ UNCHANGED <<poolVars, pc, myCount, late, runVars, tailed, active, taskRate, destroy,
                 uRate, uOld, uCur, uSpawn, uKeep, uKill, clientVars, historyVars>>

SetTaskRate(u) ==
  /\ Step(u, "rate", "plan")
  /\ rate' = uRate[u]
  /\ UNCHANGED <<stopped, pills, waitGroup, producerVars, runVars, tailed, taskVars,
                 uRate, uOld, uCur, uSpawn, uKeep, uKill, clientVars, historyVars>>

\* Mutants of PlanProducers: no branch for fewer producers, no pills for those
\* that stay.
PlanProducersUnsigned(u) ==
  LET expected == GetTaskGeneratorSpawnCount(rate)
  IN  /\ Step(u, "plan", "change")
      /\ uSpawn' = [uSpawn EXCEPT ![u] = expected - uCur[u]]
      /\ UNCHANGED <<vars, taskVars, uRate, uOld, uCur, uKeep, uKill, clientVars, historyVars>>

PlanProducersKeepingNone(u) ==
  LET expected == GetTaskGeneratorSpawnCount(rate)
      fewer == expected < uCur[u]
  IN  /\ Step(u, "plan", "change")
      /\ uSpawn' = [uSpawn EXCEPT ![u] = IF fewer THEN 0 ELSE expected - uCur[u]]
      /\ uKill' = [uKill EXCEPT ![u] = IF fewer THEN uCur[u] - expected ELSE 0]
      /\ lowered' = (lowered \/ fewer)
      /\ UNCHANGED <<vars, taskVars, uRate, uOld, uCur, uKeep, clientVars, calls, raced, leftover>>

\* The difference to the producers counted before, from the pool's rate now.
PlanProducers(u) ==
  LET expected == GetTaskGeneratorSpawnCount(rate)
      fewer == expected < uCur[u]
  IN  /\ Step(u, "plan", "change")
      /\ uSpawn' = [uSpawn EXCEPT ![u] = IF fewer THEN 0 ELSE expected - uCur[u]]
      /\ uKeep' = [uKeep EXCEPT ![u] = IF fewer THEN expected ELSE 0]
      /\ uKill' = [uKill EXCEPT ![u] = IF fewer THEN uCur[u] - expected ELSE 0]
      /\ lowered' = (lowered \/ fewer)
      /\ UNCHANGED <<vars, taskVars, uRate, uOld, uCur, clientVars, calls, raced, leftover>>

AddProducer(u) ==
  /\ uPc[u] = "change" /\ uSpawn[u] > 0
  /\ TaskGenerator
  /\ uSpawn' = [uSpawn EXCEPT ![u] = @ - 1]
  /\ UNCHANGED <<rate, stopped, pills, runVars, tailed,
                 taskVars, uPc, uRate, uOld, uCur, uKeep, uKill, clientVars, historyVars>>

\* First one false for each producer to keep, then one true for each to end.
PushPill(u) ==
  /\ uPc[u] = "change" /\ uKeep[u] + uKill[u] > 0
  /\ Len(pills) < PillCap
  /\ \/ /\ uKeep[u] > 0
        /\ pills' = Append(pills, FALSE)
        /\ uKeep' = [uKeep EXCEPT ![u] = @ - 1]
        /\ UNCHANGED uKill
     \/ /\ uKeep[u] = 0
        /\ pills' = Append(pills, TRUE)
        /\ uKill' = [uKill EXCEPT ![u] = @ - 1]
        /\ UNCHANGED uKeep
  /\ UNCHANGED <<rate, stopped, waitGroup, producerVars, runVars, tailed, taskVars,
                 uPc, uRate, uOld, uCur, uSpawn, clientVars, historyVars>>

ProducersChanged(u) ==
  /\ Step(u, "change", "strickers")
  /\ uSpawn[u] = 0 /\ uKeep[u] = 0 /\ uKill[u] = 0
  /\ UNCHANGED <<vars, taskVars, uRate, uOld, uCur, uSpawn, uKeep, uKill,
                 clientVars, historyVars>>

\* One more Stricker per unit of rate; they are in WorkerPool (AddStricker).
AddStrickers(u) ==
  /\ Step(u, "strickers", "store")
  /\ uRate[u] >= uOld[u]
  /\ UNCHANGED <<vars, taskVars, uRate, uOld, uCur, uSpawn, uKeep, uKill,
                 clientVars, historyVars>>

\* A lower rate puts as many values as the old rate into DestroyChannel, and
\* never returns once they do not fit.
DestroyStrickers(u) ==
  /\ uRate[u] < uOld[u]
  /\ \/ /\ destroy + uOld[u] <= DestroyCap
        /\ Step(u, "strickers", "store")
        /\ destroy' = destroy + uOld[u]
     \/ /\ destroy + uOld[u] > DestroyCap
        /\ Step(u, "strickers", "stuck")
        /\ destroy' = DestroyCap
  /\ UNCHANGED <<vars, active, taskRate, pace,
                 uRate, uOld, uCur, uSpawn, uKeep, uKill, clientVars, historyVars>>

\* Mutant of StoreRate: the changed copy is not stored.
StoreRateForgotten(u) ==
  /\ Step(u, "store", "idle")
  /\ uRate' = [uRate EXCEPT ![u] = 0]
  /\ uOld' = [uOld EXCEPT ![u] = 0]
  /\ uCur' = [uCur EXCEPT ![u] = 0]
  /\ UNCHANGED <<vars, taskVars, uSpawn, uKeep, uKill, clientVars, historyVars>>

StoreRate(u) ==
  /\ Step(u, "store", "idle")
  /\ taskRate' = uRate[u]
  /\ uRate' = [uRate EXCEPT ![u] = 0]
  /\ uOld' = [uOld EXCEPT ![u] = 0]
  /\ uCur' = [uCur EXCEPT ![u] = 0]
  /\ UNCHANGED <<vars, active, pace, destroy, uSpawn, uKeep, uKill, clientVars, historyVars>>

UpdateTaskRate(u) ==
  \/ CurrentProducers(u) \/ SetRateLimiter(u) \/ SetTaskRate(u) \/ PlanProducers(u)
  \/ AddProducer(u) \/ PushPill(u) \/ ProducersChanged(u)
  \/ AddStrickers(u) \/ DestroyStrickers(u) \/ StoreRate(u)

-----------------------------------------------------------------------------
(* Hudor.StopTask *)

StopGoto(from, to) == sPc = from /\ sPc' = to

BeginStop ==
  /\ active
  /\ Call("stop")
  /\ StopGoto("idle", "set")
  /\ raced' = (raced \/ Updating # {})
  /\ UNCHANGED <<vars, taskVars, updaterVars, sRate, lowered, leftover>>

SetStopped ==
  /\ StopGoto("set", "copy")
  /\ StopTask
  /\ UNCHANGED <<taskVars, updaterVars, sRate, historyVars>>

CopyTask ==
  /\ StopGoto("copy", "store")
  /\ sRate' = taskRate
  /\ UNCHANGED <<vars, taskVars, updaterVars, historyVars>>

StoreTask ==
  /\ StopGoto("store", "wait")
  /\ taskRate' = sRate
  /\ UNCHANGED <<vars, active, pace, destroy, updaterVars, sRate, historyVars>>

WaitForProducers ==
  /\ StopGoto("wait", "idle")
  /\ waitGroup = 0
  /\ UNCHANGED <<vars, taskVars, updaterVars, sRate, historyVars>>

StopStep == SetStopped \/ CopyTask \/ StoreTask \/ WaitForProducers

-----------------------------------------------------------------------------
\* A step of the pool; one that announces the end may overlap an update.
MainWork ==
  /\ RunGoroutine
  /\ raced' = (raced \/ (runPc' = "ended" /\ Updating # {}))
  /\ UNCHANGED <<taskVars, updaterVars, clientVars, calls, lowered, leftover>>

ProducerWork(p) == ProducerStep(p) /\ UNCHANGED controlVars

TaskNext ==
  \/ Run \/ TaskDelete \/ MainWork
  \/ \E p \in Producer : ProducerWork(p)
  \/ \E u \in Updaters : BeginUpdate(u) \/ UpdateTaskRate(u)
  \/ BeginStop \/ StopStep

\* Every goroutine is scheduled; nobody has to call Hudor.
TaskFairness ==
  /\ WF_allVars(TaskDelete) /\ WF_allVars(MainWork) /\ WF_allVars(StopStep)
  /\ \A u \in Updaters : WF_allVars(UpdateTaskRate(u))
  /\ \A p \in Producer :
       /\ WF_allVars(ProducerWork(p))
       /\ SF_allVars(NextTick(p) /\ late'[p] /\ UNCHANGED controlVars)

TaskSpec == TaskInit /\ [][TaskNext]_allVars /\ TaskFairness

-----------------------------------------------------------------------------
(* What holds for a task whose rate is changed while it runs *)

ControlTypeOK ==
  /\ active \in BOOLEAN /\ taskRate \in Rates /\ pace \in Rates
  /\ destroy \in 0 .. DestroyCap
  /\ uPc \in [Updaters -> UpdaterPoints]
  /\ uRate \in [Updaters -> Rates \cup {0}]
  /\ \A u \in Updaters : uPc[u] # "idle" => uRate[u] # 0
  /\ uOld \in [Updaters -> Nat] /\ uCur \in [Updaters -> Nat]
  /\ uSpawn \in [Updaters -> Nat] /\ uKeep \in [Updaters -> Nat]
  /\ uKill \in [Updaters -> Nat]
  /\ sPc \in StopPoints /\ sRate \in Rates
  /\ calls \in [CallKinds -> Nat]

HistoryTypeOK == lowered \in BOOLEAN /\ raced \in BOOLEAN /\ leftover \in BOOLEAN

TaskTypeOK == TypeOK /\ ControlTypeOK /\ HistoryTypeOK

\* The end of a run leaves a producer behind only when an update called for
\* fewer producers, or overlapped another call, the first spawns or the end.
OrphanCause == runPc = "ended" /\ Live # {} => lowered \/ raced

Deadly == {i \in DOMAIN pills : pills[i]}

\* Producers an update in progress still has to end, less those it has to add.
Owed(u) ==
  CASE uPc[u] = "plan" -> uCur[u] - GetTaskGeneratorSpawnCount(rate)
    [] uPc[u] = "change" -> uKill[u] - uSpawn[u]
    [] OTHER -> 0

\* Every producer of a run beyond those the rate calls for is matched by a
\* pill on its way or by one an update is about to send.
PillAccounting ==
  ~raced /\ ~leftover /\ runPc \notin {"idle", "producers"} =>
    \A u \in Updaters : Updating \subseteq {u} =>
      Cardinality(Live) + count
        = GetTaskGeneratorSpawnCount(rate) + Cardinality(Deadly) + Owed(u)

\* Producers that wait for a pill, or will once they notice the new limiter.
PillTakers ==
  {p \in Live : \/ pc[p] = "takePill"
                \/ /\ pc[p] \notin {"readLimiter", "readCount", "finish"}
                   /\ myCount[p] > GetTaskGeneratorSpawnCount(rate)}

\* No producer waits for a pill that nobody sends.
PillsSuffice ==
  ~raced /\ ~leftover /\ Updating = {} => Cardinality(PillTakers) <= Len(pills)

\* When nobody is changing it, a task has one rate: the pool's, the one its
\* limiter ticks at and the one the next run will be paced by.
SettingsAgree ==
  ~raced /\ Updating = {} => rate = taskRate /\ pace = rate

\* An active task becomes inactive, also when an update lowers its rate:
\* neither a pill nor a report that never comes keeps its goroutine waiting,
\* given room for its tokens (when there is none is in WorkerPool).
\* And the update returns: producers make room for its pills, and only values
\* that do not fit into DestroyChannel, which nobody reads, keep it for ever.
TaskEnds ==
  /\ active ~> ~active \/ raced
  /\ \A u \in Updaters :
       uPc[u] # "idle" ~> uPc[u] = "idle" \/ raced \/ destroy + uOld[u] > DestroyCap
=============================================================================
