----------------------------- MODULE HudorTasks -----------------------------
(***************************************************************************)
(* The tasks of the library (lib/main.go) and the handlers of the server   *)
(* (server/server.go) that load, run, stop and reset them.                 *)
(*                                                                         *)
(* Init makes a Hudor and replaces three channels the whole package shares. *)
(* Its task executor takes the names that Run queues, registers each as    *)
(* active, launches its pool and answers with a token that carries no name; *)
(* its deleter removes the names the pools announce.  Handlers run         *)
(* concurrently and take no lock.  A Hudor and a set of channels are       *)
(* numbered by the Init that made them; 0 stands for nil.                  *)
(*                                                                         *)
(* One launch is a run of a pool: all that Producers and WorkerPool say of *)
(* it is folded into start, work, finish, announce.                        *)
(***************************************************************************)
EXTENDS Integers, Sequences, FiniteSets

CONSTANTS
  Client,    \* handlers that may be inside a call at the same time
  Task,      \* enabled tasks of the profile
  Closing,   \* the empty name, which closes a Hudor
  MaxInits,  \* BOUND: calls of Init
  MaxRuns    \* BOUND: accepted calls of Run

ASSUME HudorTasksConstants ==
  /\ IsFiniteSet(Client) /\ IsFiniteSet(Task)
  /\ Closing \notin Task
  /\ MaxInits \in Nat /\ MaxRuns \in Nat

Generation == 1 .. MaxInits
Owners == 0 .. MaxInits
Names == Task \cup {Closing}

VARIABLES
  chans, hudor, session,  \* current channels; the package's and the session's Hudor
  taskChannel, doneTaskChannel, deleteTaskChannel,
  activeTasks,  \* ActiveTaskMap of each Hudor
  executor,     \* taskExecutor: point, the channel it waits at, its task
  deleter,      \* taskDelete: point and the channel it waits at
  launches,     \* runs of pools, in the order of their launch
  call,         \* handlers: point, Hudor, channel, task, tasks still to stop
  runCalls,     \* calls of Run so far
  \* history: a handler loaded or closed a Hudor while another one was in a
  \* call, or before its executor had started; two were in Run; Hudors closed
  overlapped, together, closed

globals == <<chans, hudor, session>>
channels == <<taskChannel, doneTaskChannel, deleteTaskChannel>>
goroutines == <<executor, deleter, launches>>
historyVars == <<overlapped, together, closed>>
hudorVars == <<globals, channels, activeTasks, goroutines, call, runCalls, historyVars>>

Initializing == {"initClose", "initWait", "newChannels"}
Lifecycle == Initializing \cup {"newHudor", "stopAll", "resetWait"}
InRun == {"enqueue", "receive", "await"}
ClientPoints == {"idle", "stopWait"} \cup Lifecycle \cup InRun
ExecutorPoints ==
  {"none", "start", "loop", "recv", "taken", "registered", "trigger", "done", "close", "ended"}
DeleterPoints == {"none", "loop", "recv", "ended"}
LaunchPoints == {"start", "working", "finished", "ended"}

NoCall == [pc |-> "idle", hudor |-> 0, on |-> 0, task |-> Closing, todo |-> {}]
At(points) == {c \in Client : call[c].pc \in points}

\* Launches of a Hudor, or of one of its tasks, that have producers.
Working(h) == {l \in DOMAIN launches : launches[l].hudor = h /\ launches[l].pc = "working"}
WorkingOn(h, t) == {l \in Working(h) : launches[l].task = t}

\* The counter of hudor.WG: its executor and its producers.
WG(h) ==
  Cardinality(Working(h)) + (IF executor[h].pc \in {"none", "start", "ended"} THEN 0 ELSE 1)

-----------------------------------------------------------------------------
HudorInit ==
  /\ chans = 0 /\ hudor = 0 /\ session = 0
  /\ taskChannel = [g \in Generation |-> <<>>]
  /\ doneTaskChannel = [g \in Generation |-> 0]
  /\ deleteTaskChannel = [g \in Generation |-> <<>>]
  /\ activeTasks = [g \in Generation |-> {}]
  /\ executor = [g \in Generation |-> [pc |-> "none", on |-> 0, task |-> Closing]]
  /\ deleter = [g \in Generation |-> [pc |-> "none", on |-> 0]]
  /\ launches = <<>>
  /\ call = [c \in Client |-> NoCall] /\ runCalls = 0
  /\ overlapped = FALSE /\ together = FALSE /\ closed = {}

Push(channel, g, x) == [channel EXCEPT ![g] = Append(@, x)]

-----------------------------------------------------------------------------
(* Handlers: run and stop *)

\* A call begins; it may meet another one that loads or closes a Hudor.
Begin(c, to, h, t, todo) ==
  /\ call[c].pc = "idle"
  /\ call' = [call EXCEPT ![c] = [pc |-> to, hudor |-> h, on |-> 0, task |-> t, todo |-> todo]]
  /\ overlapped' = (overlapped \/ \E d \in At(ClientPoints \ {"idle"}) :
                                    to \in Lifecycle \/ call[d].pc \in Lifecycle)

Goto(c, from, to) == call[c].pc = from /\ call' = [call EXCEPT ![c].pc = to]
Return(c, from) == call[c].pc = from /\ call' = [call EXCEPT ![c] = NoCall]

\* Mutant of BeginRun: an active task is not refused.
BeginRunUnchecked(c, t) ==
  /\ session # 0
  /\ runCalls < MaxRuns /\ runCalls' = runCalls + 1
  /\ Begin(c, "enqueue", session, t, {})
  /\ together' = (together \/ At(InRun) # {})
  /\ UNCHANGED <<globals, channels, activeTasks, goroutines, closed>>

\* Hudor.Run up to the test of ActiveTaskMap; a handler without a Hudor panics
\* and an active task is refused, neither of which changes anything.
BeginRun(c, t) ==
  /\ session # 0 /\ t \notin activeTasks[session]
  /\ runCalls < MaxRuns /\ runCalls' = runCalls + 1
  /\ Begin(c, "enqueue", session, t, {})
  /\ together' = (together \/ At(InRun) # {})
  /\ UNCHANGED <<globals, channels, activeTasks, goroutines, closed>>

Enqueue(c) ==
  /\ Goto(c, "enqueue", "receive")
  /\ taskChannel' = Push(taskChannel, chans, call[c].task)
  /\ UNCHANGED <<globals, doneTaskChannel, deleteTaskChannel, activeTasks, goroutines,
                 runCalls, historyVars>>

\* The channel is read before the handler waits at it.
Receive(c) ==
  /\ call[c].pc = "receive"
  /\ call' = [call EXCEPT ![c].pc = "await", ![c].on = chans]
  /\ UNCHANGED <<globals, channels, activeTasks, goroutines, runCalls, historyVars>>

TakeToken(g) ==
  /\ doneTaskChannel' = [doneTaskChannel EXCEPT ![g] = @ - 1]
  /\ UNCHANGED <<globals, taskChannel, deleteTaskChannel, activeTasks, goroutines,
                 runCalls, historyVars>>

\* Mutant of Await: takes a token that is not there.
AwaitWithoutToken(c) == Return(c, "await") /\ TakeToken(call[c].on)

Await(c) ==
  /\ Return(c, "await")
  /\ doneTaskChannel[call[c].on] > 0
  /\ TakeToken(call[c].on)

\* Hudor.StopTask of an active task; its producers notice in their own time.
BeginStop(c, t) ==
  /\ session # 0 /\ t \in activeTasks[session]
  /\ Begin(c, "stopWait", session, t, {})
  /\ UNCHANGED <<globals, channels, activeTasks, goroutines, runCalls, together, closed>>

StopWait(c) ==
  /\ Return(c, "stopWait")
  /\ WorkingOn(call[c].hudor, call[c].task) = {}
  /\ UNCHANGED <<globals, channels, activeTasks, goroutines, runCalls, historyVars>>

-----------------------------------------------------------------------------
(* Handlers: load and reset *)

\* Close first queues the empty name, in the channel of this moment.
CloseFrom(c, from, to) ==
  /\ Goto(c, from, to)
  /\ taskChannel' = Push(taskChannel, chans, Closing)
  /\ overlapped' = (overlapped \/ executor[call[c].hudor].pc = "start")
  /\ UNCHANGED <<globals, doneTaskChannel, deleteTaskChannel, activeTasks, goroutines,
                 runCalls, together, closed>>

\* lib.Init closes the package's Hudor if there is one.
BeginInit(c) ==
  /\ chans + Cardinality(At(Initializing)) < MaxInits
  /\ Begin(c, IF hudor = 0 THEN "newChannels" ELSE "initClose", hudor, Closing, {})
  /\ UNCHANGED <<globals, channels, activeTasks, goroutines, runCalls, together, closed>>

InitClose(c) == CloseFrom(c, "initClose", "initWait")

Drained(c) ==
  /\ closed' = closed \cup {call[c].hudor}
  /\ UNCHANGED <<chans, hudor, channels, activeTasks, goroutines, runCalls, overlapped, together>>

\* Mutant of InitWait: waits for producers only, not for the executor.
InitWaitForProducers(c) ==
  /\ Goto(c, "initWait", "newChannels")
  /\ Working(call[c].hudor) = {}
  /\ Drained(c) /\ UNCHANGED session

\* Close returns when hudor.WG is zero.
InitWait(c) ==
  /\ Goto(c, "initWait", "newChannels")
  /\ WG(call[c].hudor) = 0
  /\ Drained(c) /\ UNCHANGED session

NewChannels(c) ==
  /\ call[c].pc = "newChannels"
  /\ chans' = chans + 1
  /\ call' = [call EXCEPT ![c].pc = "newHudor", ![c].on = chans + 1]
  /\ UNCHANGED <<hudor, session, channels, activeTasks, goroutines, runCalls, historyVars>>

\* The object, its two goroutines and, in the handler, the session's Hudor.
NewHudor(c) ==
  LET h == call[c].on IN
  /\ Return(c, "newHudor")
  /\ hudor' = h /\ session' = h
  /\ executor' = [executor EXCEPT ![h].pc = "start"]
  /\ deleter' = [deleter EXCEPT ![h].pc = "loop"]
  /\ UNCHANGED <<chans, channels, activeTasks, launches, runCalls, historyVars>>

\* The reset handler stops and closes a Hudor with active tasks.
BeginReset(c) ==
  /\ session # 0 /\ activeTasks[session] # {}
  /\ Begin(c, "stopAll", session, Closing, activeTasks[session])
  /\ UNCHANGED <<globals, channels, activeTasks, goroutines, runCalls, together, closed>>

\* Without an active task it only forgets the Hudor.
ResetIdle(c) ==
  /\ session # 0 /\ activeTasks[session] = {}
  /\ call[c].pc = "idle"
  /\ session' = 0
  /\ overlapped' = (overlapped \/ At(ClientPoints \ {"idle"}) # {})
  /\ UNCHANGED <<chans, hudor, channels, activeTasks, goroutines, call, runCalls,
                 together, closed>>

\* StopAllTasks: one task after the other, those no longer active skipped.
StopNext(c) ==
  /\ call[c].pc = "stopAll"
  /\ \E t \in call[c].todo :
       /\ t \in activeTasks[call[c].hudor] => WorkingOn(call[c].hudor, t) = {}
       /\ call' = [call EXCEPT ![c].todo = @ \ {t}]
  /\ UNCHANGED <<globals, channels, activeTasks, goroutines, runCalls, historyVars>>

ResetClose(c) == call[c].todo = {} /\ CloseFrom(c, "stopAll", "resetWait")

ResetWait(c) ==
  /\ Return(c, "resetWait")
  /\ WG(call[c].hudor) = 0
  /\ Drained(c) /\ session' = 0

Handle(c) ==
  \/ Enqueue(c) \/ Receive(c) \/ Await(c) \/ StopWait(c)
  \/ InitClose(c) \/ InitWait(c) \/ NewChannels(c) \/ NewHudor(c)
  \/ StopNext(c) \/ ResetClose(c) \/ ResetWait(c)

-----------------------------------------------------------------------------
(* The goroutines of a Hudor *)

handlerVars == <<globals, call, runCalls, historyVars>>

ExecutorStep(h, from, to) ==
  executor[h].pc = from /\ executor' = [executor EXCEPT ![h].pc = to]

\* hudor.WG.Add(1), only when the goroutine runs.
ExecutorStart(h) ==
  /\ ExecutorStep(h, "start", "loop")
  /\ UNCHANGED <<handlerVars, channels, activeTasks, deleter, launches>>

\* The package's channel is read anew in every round.
ExecutorLoop(h) ==
  /\ executor[h].pc = "loop"
  /\ executor' = [executor EXCEPT ![h].pc = "recv", ![h].on = chans]
  /\ UNCHANGED <<handlerVars, channels, activeTasks, deleter, launches>>

TakeName(h) ==
  LET on == executor[h].on
      name == Head(taskChannel[on])
  IN  /\ executor[h].pc = "recv" /\ taskChannel[on] # <<>>
      /\ executor' = [executor EXCEPT ![h].pc = IF name = Closing THEN "close" ELSE "taken",
                                      ![h].task = name]
      /\ taskChannel' = [taskChannel EXCEPT ![on] = Tail(@)]
      /\ UNCHANGED <<handlerVars, doneTaskChannel, deleteTaskChannel, activeTasks,
                     deleter, launches>>

Register(h) ==
  /\ ExecutorStep(h, "taken", "registered")
  /\ activeTasks' = [activeTasks EXCEPT ![h] = @ \cup {executor[h].task}]
  /\ UNCHANGED <<handlerVars, channels, deleter, launches>>

Launch(h) ==
  /\ ExecutorStep(h, "registered", "trigger")
  /\ launches' = Append(launches, [hudor |-> h, task |-> executor[h].task, on |-> chans,
                                   pc |-> "start"])
  /\ UNCHANGED <<handlerVars, channels, activeTasks, deleter>>

\* Mutant of Triggered: the executor does not wait for the pool.
TriggeredAtOnce(h) ==
  /\ ExecutorStep(h, "trigger", "done")
  /\ UNCHANGED <<handlerVars, channels, activeTasks, deleter, launches>>

\* <-isTriggered: the pool it launched has its producers.
Triggered(h) ==
  /\ ExecutorStep(h, "trigger", "done")
  /\ \A l \in DOMAIN launches : launches[l].hudor = h => launches[l].pc # "start"
  /\ UNCHANGED <<handlerVars, channels, activeTasks, deleter, launches>>

\* Mutant of Answer: no token.
AnswerForgotten(h) ==
  /\ executor[h].pc = "done"
  /\ executor' = [executor EXCEPT ![h].pc = "loop", ![h].task = Closing]
  /\ UNCHANGED <<handlerVars, channels, activeTasks, deleter, launches>>

Answer(h) ==
  /\ executor[h].pc = "done"
  /\ executor' = [executor EXCEPT ![h].pc = "loop", ![h].task = Closing]
  /\ doneTaskChannel' = [doneTaskChannel EXCEPT ![chans] = @ + 1]
  /\ UNCHANGED <<handlerVars, taskChannel, deleteTaskChannel, activeTasks, deleter, launches>>

\* Mutant of ExecutorClose: the empty name is answered like any other.
ExecutorCloseAnswering(h) ==
  /\ ExecutorStep(h, "close", "ended")
  /\ deleteTaskChannel' = Push(deleteTaskChannel, chans, Closing)
  /\ doneTaskChannel' = [doneTaskChannel EXCEPT ![chans] = @ + 1]
  /\ UNCHANGED <<handlerVars, taskChannel, activeTasks, deleter, launches>>

\* The empty name: the deleter is told, hudor.WG.Done().
ExecutorClose(h) ==
  /\ ExecutorStep(h, "close", "ended")
  /\ deleteTaskChannel' = Push(deleteTaskChannel, chans, Closing)
  /\ UNCHANGED <<handlerVars, taskChannel, doneTaskChannel, activeTasks, deleter, launches>>

TaskExecutor(h) ==
  \/ ExecutorStart(h) \/ ExecutorLoop(h) \/ TakeName(h) \/ Register(h) \/ Launch(h)
  \/ Triggered(h) \/ Answer(h) \/ ExecutorClose(h)

DeleterLoop(h) ==
  /\ deleter[h].pc = "loop"
  /\ deleter' = [deleter EXCEPT ![h] = [pc |-> "recv", on |-> chans]]
  /\ UNCHANGED <<handlerVars, channels, activeTasks, executor, launches>>

\* The deleter takes a name; one of the names in last is its last.
DeleteThen(h, last) ==
  LET on == deleter[h].on
      name == Head(deleteTaskChannel[on])
  IN  /\ deleter[h].pc = "recv" /\ deleteTaskChannel[on] # <<>>
      /\ deleter' = [deleter EXCEPT ![h].pc = IF name \in last THEN "ended" ELSE "loop"]
      /\ activeTasks' = [activeTasks EXCEPT ![h] = @ \ {name}]
      /\ deleteTaskChannel' = [deleteTaskChannel EXCEPT ![on] = Tail(@)]
      /\ UNCHANGED <<handlerVars, taskChannel, doneTaskChannel, executor, launches>>

\* Mutant of Delete: the deleter ends after its first name.
DeleteOnce(h) == DeleteThen(h, Names)

Delete(h) == DeleteThen(h, {Closing})

TaskDelete(h) == DeleterLoop(h) \/ Delete(h)

\* Pool.Run: producers, the end of the last of them, the announcement.
LaunchStep(l, from, to) == launches[l].pc = from /\ launches' = [launches EXCEPT ![l].pc = to]

TellDeleter(l) ==
  deleteTaskChannel' = Push(deleteTaskChannel, launches[l].on, launches[l].task)

\* Mutant of StartWork: the end is announced before the work.
StartWorkAnnounced(l) == LaunchStep(l, "start", "working") /\ TellDeleter(l)

StartWork(l) == LaunchStep(l, "start", "working") /\ UNCHANGED deleteTaskChannel
FinishWork(l) == LaunchStep(l, "working", "finished") /\ UNCHANGED deleteTaskChannel
Announce(l) == LaunchStep(l, "finished", "ended") /\ TellDeleter(l)

PoolRun(l) ==
  /\ StartWork(l) \/ FinishWork(l) \/ Announce(l)
  /\ UNCHANGED <<handlerVars, taskChannel, doneTaskChannel, activeTasks, executor, deleter>>

-----------------------------------------------------------------------------
HudorNext ==
  \/ \E c \in Client :
       \/ \E t \in Task : BeginRun(c, t) \/ BeginStop(c, t)
       \/ BeginInit(c) \/ BeginReset(c) \/ ResetIdle(c)
       \/ Handle(c)
  \/ \E h \in Generation : TaskExecutor(h) \/ TaskDelete(h)
  \/ \E l \in DOMAIN launches : PoolRun(l)

\* Goroutines are scheduled and the producers of a run end (RunEnds of
\* WorkerPool); nobody has to send a request.
HudorFairness ==
  /\ \A c \in Client : WF_hudorVars(Handle(c))
  /\ \A h \in Generation : WF_hudorVars(TaskExecutor(h)) /\ WF_hudorVars(TaskDelete(h))
  /\ \A l \in 1 .. MaxRuns : WF_hudorVars(l \in DOMAIN launches /\ PoolRun(l))

HudorSpec == HudorInit /\ [][HudorNext]_hudorVars /\ HudorFairness

-----------------------------------------------------------------------------
(* What a Hudor guarantees *)

HudorTypeOK ==
  /\ chans \in Owners /\ hudor \in Owners /\ session \in Owners
  /\ taskChannel \in [Generation -> Seq(Names)]
  /\ doneTaskChannel \in [Generation -> Nat]
  /\ deleteTaskChannel \in [Generation -> Seq(Names)]
  /\ activeTasks \in [Generation -> SUBSET Task]
  /\ executor \in [Generation -> [pc : ExecutorPoints, on : Owners, task : Names]]
  /\ deleter \in [Generation -> [pc : DeleterPoints, on : Owners]]
  /\ launches \in Seq([hudor : Generation, task : Task, on : Generation, pc : LaunchPoints])
  /\ call \in [Client -> [pc : ClientPoints, hudor : Owners, on : Owners, task : Names,
                          todo : SUBSET Task]]
  /\ runCalls \in 0 .. MaxRuns
  /\ overlapped \in BOOLEAN /\ together \in BOOLEAN /\ closed \subseteq Owners

\* A goroutine of one Hudor waits at the channels of a later one.
Stray == \E h \in Generation : executor[h].on \notin {0, h} \/ deleter[h].on \notin {0, h}

Orderly == ~overlapped /\ ~Stray

\* Run refuses a task "already in running state": it never starts a pool that
\* still runs.
OneRun ==
  \A k, l \in DOMAIN launches :
    k # l /\ launches[k].hudor = launches[l].hudor /\ launches[k].task = launches[l].task
      => "ended" \in {launches[k].pc, launches[l].pc}

\* That much holds as long as no two handlers are in Run at the same time,
\* whatever stops, executor, deleter and pools do in the meantime.
OneRunAlone == Orderly /\ ~together => OneRun

\* A handler that waits for its task to start is owed one token: its name is
\* queued, with the executor, or the token is there.  None is left over for a
\* later call.
TokensOwed ==
  Orderly /\ chans # 0 =>
    Cardinality(At({"receive", "await"}))
      = Cardinality({i \in DOMAIN taskChannel[chans] : taskChannel[chans][i] # Closing})
        + Cardinality({h \in Generation :
                         executor[h].pc \in {"taken", "registered", "trigger", "done"}})
        + doneTaskChannel[chans]

\* A pool that works is listed as active, so that it can be stopped: neither
\* the executor nor the deleter is ever late or early with its name.
WorkingListed ==
  Orderly /\ ~together =>
    \A h \in Generation, t \in Task : WorkingOn(h, t) # {} => t \in activeTasks[h]

\* When Close has returned, the executor is gone and no producer works.
CloseDrains == Orderly => \A h \in closed : Working(h) = {} /\ executor[h].pc = "ended"

\* Run returns once the task it was called for has started.
RunStarts ==
  [][\A c \in Client :
       Orderly /\ ~together /\ Await(c) =>
         LET last == launches[Len(launches)]
         IN  last.hudor = call[c].hudor /\ last.task = call[c].task /\ last.pc # "start"]_hudorVars

\* Every call returns: Run, StopTask, Init and reset wait for nothing that
\* never happens.
CallsReturn == \A c \in Client : call[c].pc # "idle" ~> call[c].pc = "idle" \/ ~Orderly

\* An active task becomes inactive, unless its Hudor is closed first: the
\* deleter ends with it and may leave a name behind.
TaskRetires ==
  \A h \in Generation, t \in Task :
    t \in activeTasks[h] ~> t \notin activeTasks[h] \/ h \in closed \/ ~Orderly
=============================================================================
