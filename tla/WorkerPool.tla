----------------------------- MODULE WorkerPool -----------------------------
(***************************************************************************)
(* The whole pool of one task (concurrency/workerPool.go) at a fixed rate: *)
(* the producers, the bounded channel of tokens, and the consumers         *)
(* (Stricker) that take a token and start one request each, plus the task  *)
(* executor's end of the isTriggered channel (lib/main.go).                *)
(*                                                                         *)
(* Strickers are identical and keep no state a decision depends on, so     *)
(* they are counted per program point.  Their branch on DestroyChannel is  *)
(* guarded by p.concurrency # concurrency and nothing writes p.concurrency *)
(* after CreateNewPool: it is never taken and has no action here.          *)
(***************************************************************************)
EXTENDS Producers

CONSTANTS
  Concurrency,  \* p.concurrency, the number of Strickers a run starts
  QueueCap,     \* capacity of the token channel (20000 in the code)
  TriggerCap,   \* capacity of isTriggered (100 in lib)
  MaxStrickers  \* BOUND: Strickers alive when a run or an update adds some

ASSUME WorkerPoolConstants ==
  /\ Concurrency \in Nat
  /\ QueueCap \in Nat \ {0}
  /\ TriggerCap \in Nat \ {0}
  /\ MaxStrickers \in Nat

VARIABLES
  \* the task's settings: taskobject.sync, by which a Stricker waits for its
  \* request; a duration longer than anybody looks at
  sync, endless,
  queue,               \* tokens in p.channel
  triggers, started,   \* values in isTriggered; whether one has been taken
  \* Strickers waiting for a token, for their request, about to test IsStopped,
  \* and for a request that will never return
  receiving, waiting, deciding, stuck

triggerVars == <<triggers, started>>
settingVars == <<sync, endless>>
strickerVars == <<settingVars, receiving, waiting, deciding, stuck>>
workVars == <<vars, queue, triggerVars, strickerVars>>

Strickers == receiving + waiting + deciding + stuck

-----------------------------------------------------------------------------
PoolInit ==
  /\ Init
  /\ sync \in BOOLEAN /\ endless \in BOOLEAN
  /\ queue = 0 /\ triggers = 0 /\ started = FALSE
  /\ receiving = 0 /\ waiting = 0 /\ deciding = 0 /\ stuck = 0

\* taskExecutor makes a fresh isTriggered; tokens and Strickers of the run
\* before are still there.
Run ==
  /\ StartRun
  /\ Strickers <= MaxStrickers
  /\ triggers' = 0 /\ started' = FALSE
  /\ UNCHANGED <<queue, strickerVars>>

SpawnStricker ==
  /\ runPc = "strickers"
  /\ runI < Concurrency
  /\ runI' = runI + 1
  /\ receiving' = receiving + 1
  /\ UNCHANGED <<poolVars, producerVars, runPc, count, tailed, queue, triggerVars,
                 waiting, deciding, stuck, settingVars>>

AllStrickersSpawned ==
  /\ StrickersSpawned
  /\ runI >= Concurrency
  /\ UNCHANGED <<queue, triggerVars, strickerVars>>

SendTrigger ==
  /\ Trigger
  /\ triggers < TriggerCap
  /\ triggers' = triggers + 1
  /\ UNCHANGED <<queue, started, strickerVars>>

\* The task executor takes the first trigger, and never another one.
TakeTrigger ==
  /\ triggers > 0 /\ ~started
  /\ triggers' = triggers - 1
  /\ started' = TRUE
  /\ UNCHANGED <<vars, queue, strickerVars>>

Main ==
  \/ SpawnStricker \/ AllStrickersSpawned \/ SendTrigger
  \/ /\ \/ SpawnProducer \/ ProducersSpawned \/ AnnounceEnd \/ AwaitDone
        \/ \E p \in Producer : ReceiveDone(p)
     /\ UNCHANGED <<queue, triggerVars, strickerVars>>

-----------------------------------------------------------------------------
\* Mutant of SendToken: a channel without a bound.
SendTokenUnbounded(p) ==
  /\ Send(p)
  /\ queue' = queue + 1
  /\ UNCHANGED <<triggerVars, strickerVars>>

SendToken(p) ==
  /\ Send(p)
  /\ queue < QueueCap
  /\ queue' = queue + 1
  /\ UNCHANGED <<triggerVars, strickerVars>>

Produce(p) ==
  \/ SendToken(p)
  \/ Proceed(p) /\ UNCHANGED <<queue, triggerVars, strickerVars>>

\* Take a token and start its request; only a synchronous task waits for it.
StrickerReceive ==
  /\ receiving > 0 /\ queue > 0
  /\ queue' = queue - 1
  /\ receiving' = receiving - 1
  /\ waiting' = IF sync THEN waiting + 1 ELSE waiting
  /\ deciding' = IF sync THEN deciding ELSE deciding + 1
  /\ UNCHANGED <<vars, triggerVars, stuck, settingVars>>

\* libExecutor or executor returns and meets its Stricker on executorChannel.
ExecutorDone ==
  /\ waiting > 0
  /\ waiting' = waiting - 1
  /\ deciding' = deciding + 1
  /\ UNCHANGED <<vars, queue, triggerVars, receiving, stuck, settingVars>>

\* The request waits for a line of a serial file that is used up, or was not
\* loaded (csv/csvHelpers.go): its Stricker waits with it for ever.
LineNeverComes ==
  /\ waiting > 0
  /\ waiting' = waiting - 1
  /\ stuck' = stuck + 1
  /\ UNCHANGED <<vars, queue, triggerVars, receiving, deciding, settingVars>>

\* Mutant of StrickerDecide: a Stricker serves one request.
StrickerDecideOnce ==
  /\ deciding > 0
  /\ deciding' = deciding - 1
  /\ UNCHANGED <<vars, queue, triggerVars, receiving, waiting, stuck, settingVars>>

\* The test of IsStopped, then the think time and the next round.
StrickerDecide ==
  /\ deciding > 0
  /\ deciding' = deciding - 1
  /\ receiving' = IF stopped THEN receiving ELSE receiving + 1
  /\ UNCHANGED <<vars, queue, triggerVars, waiting, stuck, settingVars>>

\* UpdateTaskRate to a higher rate that needs no further producer.
AddStricker ==
  /\ runPc \notin {"idle", "ended"}
  /\ Strickers < MaxStrickers
  /\ receiving' = receiving + 1
  /\ UNCHANGED <<vars, queue, triggerVars, waiting, deciding, stuck, settingVars>>

Stop == StopRunning /\ UNCHANGED <<queue, triggerVars, strickerVars>>

PoolNext ==
  \/ Run \/ Stop \/ AddStricker
  \/ Main \/ TakeTrigger
  \/ \E p \in Producer : Produce(p)
  \/ StrickerReceive \/ ExecutorDone \/ LineNeverComes \/ StrickerDecide

\* Goroutines are scheduled, tickers tick, requests return or time out unless
\* they wait for a line that never comes; a producer that goes on reading the
\* time reads one past its deadline, if the task has one.  Nobody has to start,
\* to stop or to update a task.
PoolFairness ==
  /\ WF_workVars(Main) /\ WF_workVars(TakeTrigger)
  /\ \A p \in Producer :
       /\ WF_workVars(Produce(p))
       /\ SF_workVars(NextTick(p) /\ late'[p] /\ ~endless
                        /\ UNCHANGED <<queue, triggerVars, strickerVars>>)
  /\ WF_workVars(StrickerReceive) /\ WF_workVars(ExecutorDone) /\ WF_workVars(StrickerDecide)

PoolSpec == PoolInit /\ [][PoolNext]_workVars /\ PoolFairness

-----------------------------------------------------------------------------
(* What the pool guarantees *)

PoolTypeOK ==
  /\ TypeOK
  /\ sync \in BOOLEAN /\ endless \in BOOLEAN
  /\ queue \in 0 .. QueueCap
  /\ triggers \in 0 .. TriggerCap /\ started \in BOOLEAN
  /\ receiving \in Nat /\ waiting \in Nat /\ deciding \in Nat /\ stuck \in Nat

\* Strickers leave only a stopped task: a run that has started its Strickers
\* has at least p.concurrency of them until it is stopped, those whose request
\* never returns included.
StrickersStay ==
  ~stopped /\ runPc \in {"trigger", "check", "recvDone"} => Strickers >= Concurrency

\* Only a task of more than 100 producers (a rate beyond 30000) fills the slots
\* of isTriggered, of which the task executor empties one.
TooManyTriggers == GetTaskGeneratorSpawnCount(rate) > TriggerCap

\* The channel is full and a producer wants to send, but no Stricker will take
\* a token: each has left a stopped task, or waits for a line that never comes.
\* The producer will never test IsStopped again.
TokensBlocked ==
  /\ queue = QueueCap /\ \E p \in Producer : pc[p] = "send"
  /\ receiving + waiting + deciding = 0

\* A task that started ends: its producers notice the deadline, the run
\* goroutine hears all of them and announces the end, unless it blocks on
\* isTriggered, or the channel is full and no Stricker is left to empty it: the
\* run was stopped, or the requests of all of them wait for ever at a serial
\* file.
RunEnds ==
  runPc = "producers" /\ ~endless ~> runPc = "ended" \/ TooManyTriggers \/ TokensBlocked

\* StopTask returns, also when the deadline of the task is far away: the
\* producers it waits for finish, with the same exceptions.
StopReturns == stopped ~> waitGroup = 0 \/ TooManyTriggers \/ TokensBlocked
=============================================================================
