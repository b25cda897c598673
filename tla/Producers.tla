----------------------------- MODULE Producers -----------------------------
(***************************************************************************)
(* The producers of a pool and the goroutine that waits for them           *)
(* (concurrency/workerPool.go).                                            *)
(*                                                                         *)
(* A producer (TaskGenerator) puts one token into the pool's channel per   *)
(* tick of the shared rate limiter until its deadline, until it sees       *)
(* IsStopped, or until it draws a pill that ends it.  The goroutine of     *)
(* Pool.Run (spawnRoutines) starts them, counts those that report done     *)
(* until as many have reported as the CURRENT rate calls for, and          *)
(* announces the end of the task.  Everything a second goroutine can       *)
(* change between two reads of the same field is a step of its own.        *)
(*                                                                         *)
(* A producer is a slot that a goroutine occupies while it runs.  The      *)
(* channel of tokens, which may block a producer, and its consumers are    *)
(* in WorkerPool; the clients that change the rate are in TaskControl.     *)
(***************************************************************************)
EXTENDS TaskSettings, Sequences, FiniteSets

CONSTANTS
  Producer,  \* slots for producers; BOUND: how many run at the same time
  Rates      \* the rates a profile or a client may ask for

ASSUME ProducersConstants ==
  /\ IsFiniteSet(Producer)
  /\ Rates \subseteq Nat \ {0}

VARIABLES
  \* fields of Pool that its goroutines share without a lock
  rate, stopped,
  pills,        \* contents of p.ProducerDestroyChannel
  waitGroup,    \* counter of p.waitGroup
  \* producers: program point, whether the limiter they remember is the one
  \* the pool has now, the count they remember, whether the time they read
  \* last is past their deadline
  pc, current, myCount, late,
  \* the goroutine of Pool.Run and its number of reports
  runPc, runI, count,
  \* history: producers that queued a token after StopTask
  tailed

poolVars == <<rate, stopped, pills, waitGroup>>
producerVars == <<pc, current, myCount, late>>
runVars == <<runPc, runI, count>>
vars == <<poolVars, producerVars, runVars, tailed>>

ProducerPoints ==
  {"none", "readLimiter", "readCount", "loop", "send", "checkStop",
   "checkLimiter", "checkCount", "takePill", "finish"}
RunPoints == {"idle", "producers", "strickers", "trigger", "check", "recvDone", "ended"}

Live == {p \in Producer : pc[p] # "none"}

-----------------------------------------------------------------------------
Init ==
  /\ rate \in Rates /\ stopped = FALSE /\ pills = <<>> /\ waitGroup = 0
  /\ pc = [p \in Producer |-> "none"]
  /\ current = [p \in Producer |-> FALSE]
  /\ myCount = [p \in Producer |-> 0]
  /\ late = [p \in Producer |-> FALSE]
  /\ runPc = "idle" /\ runI = 0 /\ count = 0
  /\ tailed = {}

-----------------------------------------------------------------------------
(* The goroutine of Pool.Run *)

\* SetRateLimiter: no producer remembers the new channel yet.
ReplaceLimiter == current' = [p \in Producer |-> FALSE]

\* Mutant of StartRun: the reports of the run before still count.
StartRunKeepingCount ==
  /\ runPc \in {"idle", "ended"}
  /\ stopped' = FALSE
  /\ ReplaceLimiter
  /\ runPc' = "producers" /\ runI' = 0
  /\ tailed' = {}
  /\ UNCHANGED <<rate, pills, waitGroup, pc, myCount, late, count>>

\* Hudor.Run prepares an inactive task (StartTask, SetRateLimiter) and the
\* task executor launches its pool.
StartRun ==
  /\ runPc \in {"idle", "ended"}
  /\ stopped' = FALSE
  /\ ReplaceLimiter
  /\ runPc' = "producers" /\ runI' = 0 /\ count' = 0
  /\ tailed' = {}
  /\ UNCHANGED <<rate, pills, waitGroup, pc, myCount, late>>

\* TaskGenerator up to its rendezvous with the spawner, which waits for it.  A
\* duration of 0 is over at once, or when the next second begins.
TaskGenerator ==
  \E p \in Producer :
    /\ pc[p] = "none"
    /\ pc' = [pc EXCEPT ![p] = "readLimiter"]
    /\ waitGroup' = waitGroup + 1
    /\ \E past \in BOOLEAN : late' = [late EXCEPT ![p] = past]
    /\ UNCHANGED <<current, myCount>>

\* spawntaskGenerator reads the rate again before every producer.
SpawnProducer ==
  /\ runPc = "producers"
  /\ runI < GetTaskGeneratorSpawnCount(rate)
  /\ runI' = runI + 1
  /\ TaskGenerator
  /\ UNCHANGED <<rate, stopped, pills, runPc, count, tailed>>

RunGoto(from, to) == runPc = from /\ runPc' = to

ProducersSpawned ==
  /\ RunGoto("producers", "strickers")
  /\ runI >= GetTaskGeneratorSpawnCount(rate)
  /\ runI' = 0
  /\ UNCHANGED <<poolVars, producerVars, count, tailed>>

StrickersSpawned ==
  /\ RunGoto("strickers", "trigger")
  /\ UNCHANGED <<poolVars, producerVars, runI, count, tailed>>

\* isTriggered <- true, before every look at the number of reports.
Trigger ==
  /\ RunGoto("trigger", "check")
  /\ UNCHANGED <<poolVars, producerVars, runI, count, tailed>>

\* Mutants of AnnounceEnd: one report too few, one too many.
AnnounceEndEarly ==
  /\ RunGoto("check", "ended")
  /\ count + 1 >= GetTaskGeneratorSpawnCount(rate)
  /\ UNCHANGED <<poolVars, producerVars, runI, count, tailed>>

AnnounceEndLate ==
  /\ RunGoto("check", "ended")
  /\ count > GetTaskGeneratorSpawnCount(rate)
  /\ UNCHANGED <<poolVars, producerVars, runI, count, tailed>>

\* Enough reports for the rate of this moment: the name goes to
\* deleteTaskChannel and the goroutine ends.
AnnounceEnd ==
  /\ RunGoto("check", "ended")
  /\ count >= GetTaskGeneratorSpawnCount(rate)
  /\ UNCHANGED <<poolVars, producerVars, runI, count, tailed>>

AwaitDone ==
  /\ RunGoto("check", "recvDone")
  /\ count < GetTaskGeneratorSpawnCount(rate)
  /\ UNCHANGED <<poolVars, producerVars, runI, count, tailed>>

\* Mutant of Leave: no Done on the wait group.
LeaveWithoutDone(p) ==
  /\ pc' = [pc EXCEPT ![p] = "none"]
  /\ current' = [current EXCEPT ![p] = FALSE]
  /\ myCount' = [myCount EXCEPT ![p] = 0]
  /\ late' = [late EXCEPT ![p] = FALSE]
  /\ tailed' = tailed \ {p}
  /\ UNCHANGED waitGroup

\* The goroutine of p ends; its slot and its local variables are free.
Leave(p) ==
  /\ pc' = [pc EXCEPT ![p] = "none"]
  /\ current' = [current EXCEPT ![p] = FALSE]
  /\ myCount' = [myCount EXCEPT ![p] = 0]
  /\ late' = [late EXCEPT ![p] = FALSE]
  /\ tailed' = tailed \ {p}
  /\ waitGroup' = waitGroup - 1

\* The unbuffered donechannel: a producer that is done meets the goroutine.
ReceiveDone(p) ==
  /\ RunGoto("recvDone", "trigger")
  /\ pc[p] = "finish"
  /\ Leave(p)
  /\ count' = count + 1
  /\ UNCHANGED <<rate, stopped, pills, runI>>

-----------------------------------------------------------------------------
(* Producers *)

Goto(p, from, to) == pc[p] = from /\ pc' = [pc EXCEPT ![p] = to]

\* The two reads at the start of the goroutine, repeated when it adopts a
\* new limiter.
ReadLimiter(p) ==
  /\ Goto(p, "readLimiter", "readCount")
  /\ current' = [current EXCEPT ![p] = TRUE]
  /\ UNCHANGED <<poolVars, myCount, late, runVars, tailed>>

ReadCount(p) ==
  /\ Goto(p, "readCount", "loop")
  /\ myCount' = [myCount EXCEPT ![p] = GetTaskGeneratorSpawnCount(rate)]
  /\ UNCHANGED <<poolVars, current, late, runVars, tailed>>

\* The loop condition tests the time read in the previous round; then the
\* producer reads the time, past its deadline or not, and waits for a tick.
NextTick(p) ==
  /\ Goto(p, "loop", "send")
  /\ ~late[p]
  /\ \E past \in BOOLEAN : late' = [late EXCEPT ![p] = past]
  /\ UNCHANGED <<poolVars, current, myCount, runVars, tailed>>

\* Mutant of Deadline: the producer leaves without its report.
DeadlineUnreported(p) ==
  /\ pc[p] = "loop" /\ late[p]
  /\ Leave(p)
  /\ UNCHANGED <<rate, stopped, pills, runVars>>

Deadline(p) ==
  /\ Goto(p, "loop", "finish")
  /\ late[p]
  /\ UNCHANGED <<poolVars, current, myCount, late, runVars, tailed>>

\* The channel takes the token at once here; WorkerPool gives it a capacity.
Send(p) ==
  /\ Goto(p, "send", "checkStop")
  /\ tailed' = IF stopped THEN tailed \cup {p} ELSE tailed
  /\ UNCHANGED <<rate, stopped, pills, waitGroup, current, myCount, late,
                 runVars>>

\* Mutant of CheckStop: IsStopped is not looked at.
CheckStopIgnored(p) ==
  /\ Goto(p, "checkStop", "checkLimiter")
  /\ UNCHANGED <<poolVars, current, myCount, late, runVars, tailed>>

CheckStop(p) ==
  /\ \/ stopped /\ Goto(p, "checkStop", "finish")
     \/ ~stopped /\ Goto(p, "checkStop", "checkLimiter")
  /\ UNCHANGED <<poolVars, current, myCount, late, runVars, tailed>>

CheckLimiter(p) ==
  /\ \/ current[p] /\ Goto(p, "checkLimiter", "loop")
     \/ ~current[p] /\ Goto(p, "checkLimiter", "checkCount")
  /\ UNCHANGED <<poolVars, current, myCount, late, runVars, tailed>>

CheckCount(p) ==
  /\ \/ /\ GetTaskGeneratorSpawnCount(rate) < myCount[p]
        /\ Goto(p, "checkCount", "takePill")
     \/ /\ GetTaskGeneratorSpawnCount(rate) >= myCount[p]
        /\ Goto(p, "checkCount", "readLimiter")
  /\ UNCHANGED <<poolVars, current, myCount, late, runVars, tailed>>

\* Mutant of KeepPill: the value of the pill is not looked at.
KeepAnyPill(p) ==
  /\ Goto(p, "takePill", "readLimiter")
  /\ pills # <<>>
  /\ pills' = Tail(pills)
  /\ UNCHANGED <<rate, stopped, waitGroup, current, myCount, late, runVars, tailed>>

\* A pill that says false keeps the producer, one that says true ends it
\* without a report to donechannel.
KeepPill(p) ==
  /\ Goto(p, "takePill", "readLimiter")
  /\ pills # <<>> /\ ~Head(pills)
  /\ pills' = Tail(pills)
  /\ UNCHANGED <<rate, stopped, waitGroup, current, myCount, late,
                 runVars, tailed>>

EndPill(p) ==
  /\ pc[p] = "takePill"
  /\ pills # <<>> /\ Head(pills)
  /\ pills' = Tail(pills)
  /\ Leave(p)
  /\ UNCHANGED <<rate, stopped, runVars>>

\* A producer that has noticed a new limiter.
Adopt(p) == CheckCount(p) \/ KeepPill(p) \/ EndPill(p)

Steady(p) ==
  \/ ReadLimiter(p) \/ ReadCount(p) \/ NextTick(p) \/ Deadline(p)
  \/ CheckStop(p) \/ CheckLimiter(p)

Proceed(p) == Steady(p) \/ Adopt(p)

ProducerStep(p) == Proceed(p) \/ Send(p)

-----------------------------------------------------------------------------
StopTask ==
  /\ stopped' = TRUE
  /\ UNCHANGED <<rate, pills, waitGroup, producerVars, runVars, tailed>>

\* Hudor.StopTask refuses a task that is not active.
StopRunning == runPc \notin {"idle", "ended"} /\ StopTask

RunGoroutine ==
  \/ SpawnProducer \/ ProducersSpawned \/ StrickersSpawned
  \/ Trigger \/ AnnounceEnd \/ AwaitDone
  \/ \E p \in Producer : ReceiveDone(p)

\* A pool whose rate nobody changes: no producer ever adopts another limiter.
FixedRateStep(p) == Steady(p) \/ Send(p)

Next == StartRun \/ StopRunning \/ RunGoroutine \/ \E p \in Producer : FixedRateStep(p)

\* Goroutines are scheduled and tickers tick; a producer that goes on reading
\* the time reads one past its deadline.  Nobody has to start or stop a task.
Fairness ==
  /\ WF_vars(RunGoroutine)
  /\ \A p \in Producer : WF_vars(FixedRateStep(p)) /\ SF_vars(NextTick(p) /\ late'[p])

Spec == Init /\ [][Next]_vars /\ Fairness

-----------------------------------------------------------------------------
(* What the producers guarantee *)

TypeOK ==
  /\ rate \in Rates /\ stopped \in BOOLEAN
  /\ pills \in Seq(BOOLEAN) /\ waitGroup \in Int
  /\ pc \in [Producer -> ProducerPoints]
  /\ current \in [Producer -> BOOLEAN] /\ myCount \in [Producer -> Nat]
  /\ late \in [Producer -> BOOLEAN]
  /\ runPc \in RunPoints /\ runI \in Nat /\ count \in Nat
  /\ tailed \subseteq Producer

\* p.waitGroup counts the producers that have not reported or been destroyed:
\* WaitForTaskToComplete and StopTask, which wait on it, return exactly when
\* no producer of the pool is left, and Done never takes it below zero.
WaitGroupExact == waitGroup = Cardinality(Live)

\* While nobody changes the rate, the end of a task is announced only once
\* every producer of the run has reported: none goes on queueing requests
\* for a task that may already be started again.
NoOrphan == runPc \in {"idle", "ended"} => Live = {}

\* A producer queues at most one token after StopTask.
StopTail == stopped => \A p \in tailed : pc[p] \in {"checkStop", "finish"}

\* Without a change of the rate a run is a barrier: producers join before the
\* first report, and the end comes after the last.
Barrier == INSTANCE RunBarrier WITH
  working <- Live,
  phase <- IF runPc \in {"idle", "ended"} THEN "ready"
           ELSE IF runPc = "producers" THEN "open" ELSE "draining"

RunIsBarrier == Barrier!BarrierSpec
=============================================================================
