---------------------------- MODULE HudorProofs ----------------------------
(***************************************************************************)
(* Proofs about the tasks of the library, for any handlers, tasks, loads   *)
(* and runs: every state is well typed; as long as loads and resets meet   *)
(* no other call, Close leaves nothing behind and every handler in Run is  *)
(* owed one token; and if, besides, no two handlers are in Run at the same *)
(* time, a task runs once at a time, is listed while it works, and is the  *)
(* one Run was called for.                                                 *)
(***************************************************************************)
EXTENDS HudorTasks, FiniteSetTheorems, SequenceTheorems, TLAPS

CallState == [pc : ClientPoints, hudor : Owners, on : Owners, task : Names, todo : SUBSET Task]
ExecutorState == [pc : ExecutorPoints, on : Owners, task : Names]
DeleterState == [pc : DeleterPoints, on : Owners]
LaunchState == [hudor : Generation, task : Task, on : Generation, pc : LaunchPoints]

-----------------------------------------------------------------------------
(* What a step does to the record of a goroutine *)

\* The call of c gets these fields, the other calls stay.
CallIs(c, pc, h, on, t) ==
  /\ call' \in [Client -> CallState]
  /\ \A d \in Client \ {c} : call'[d] = call[d]
  /\ call'[c].pc = pc /\ call'[c].hudor = h /\ call'[c].on = on /\ call'[c].task = t

ExecutorIs(h, pc, on, t) ==
  /\ executor' \in [Generation -> ExecutorState]
  /\ \A g \in Generation \ {h} : executor'[g] = executor[g]
  /\ executor'[h].pc = pc /\ executor'[h].on = on /\ executor'[h].task = t

DeleterIs(h, pc, on) ==
  /\ deleter' \in [Generation -> DeleterState]
  /\ \A g \in Generation \ {h} : deleter'[g] = deleter[g]
  /\ deleter'[h].pc = pc /\ deleter'[h].on = on

LaunchIs(l, pc) ==
  /\ launches' \in Seq(LaunchState) /\ DOMAIN launches' = DOMAIN launches
  /\ \A k \in DOMAIN launches \ {l} : launches'[k] = launches[k]
  /\ launches'[l].pc = pc /\ launches'[l].hudor = launches[l].hudor
  /\ launches'[l].task = launches[l].task /\ launches'[l].on = launches[l].on

LEMMA CallPut ==
  ASSUME call \in [Client -> CallState], NEW c \in Client, NEW r \in CallState,
         call' = [call EXCEPT ![c] = r]
  PROVE  CallIs(c, r.pc, r.hudor, r.on, r.task)
BY DEF CallIs

LEMMA CallGoto ==
  ASSUME call \in [Client -> CallState], NEW c \in Client, NEW from,
         NEW to \in ClientPoints, Goto(c, from, to)
  PROVE  CallIs(c, to, call[c].hudor, call[c].on, call[c].task)
<1> DEFINE r == [call[c] EXCEPT !.pc = to]
<1>1. r \in CallState /\ call' = [call EXCEPT ![c] = r]
  BY DEF Goto, CallState
<1>2. r.pc = to /\ r.hudor = call[c].hudor /\ r.on = call[c].on /\ r.task = call[c].task
  BY DEF CallState
<1> HIDE DEF r
<1> QED
  BY <1>1, <1>2, CallPut

LEMMA CallReturn ==
  ASSUME call \in [Client -> CallState], NEW c \in Client, NEW from, Return(c, from)
  PROVE  CallIs(c, "idle", 0, 0, Closing)
<1>1. NoCall \in CallState
  BY HudorTasksConstants DEF NoCall, CallState, ClientPoints, Owners, Names
<1> QED
  BY <1>1, CallPut DEF Return, NoCall

LEMMA CallBegin ==
  ASSUME call \in [Client -> CallState], NEW c \in Client, NEW to \in ClientPoints,
         NEW h \in Owners, NEW t \in Names, NEW todo \in SUBSET Task, Begin(c, to, h, t, todo)
  PROVE  CallIs(c, to, h, 0, t)
<1> DEFINE r == [pc |-> to, hudor |-> h, on |-> 0, task |-> t, todo |-> todo]
<1>1. r \in CallState
  BY HudorTasksConstants DEF CallState, Owners
<1>2. call' = [call EXCEPT ![c] = r]
  BY DEF Begin
<1>3. r.pc = to /\ r.hudor = h /\ r.on = 0 /\ r.task = t
  OBVIOUS
<1> HIDE DEF r
<1> QED
  BY <1>1, <1>2, <1>3, CallPut

LEMMA CallWaitsOn ==
  ASSUME call \in [Client -> CallState], NEW c \in Client,
         NEW to \in ClientPoints, NEW on \in Owners,
         call' = [call EXCEPT ![c].pc = to, ![c].on = on]
  PROVE  CallIs(c, to, call[c].hudor, on, call[c].task)
<1> DEFINE r == [call[c] EXCEPT !.pc = to, !.on = on]
<1>1. r \in CallState /\ call' = [call EXCEPT ![c] = r]
  BY DEF CallState
<1>2. r.pc = to /\ r.hudor = call[c].hudor /\ r.on = on /\ r.task = call[c].task
  BY DEF CallState
<1> HIDE DEF r
<1> QED
  BY <1>1, <1>2, CallPut

LEMMA CallTodo ==
  ASSUME call \in [Client -> CallState], NEW c \in Client, NEW t,
         call' = [call EXCEPT ![c].todo = @ \ {t}]
  PROVE  CallIs(c, call[c].pc, call[c].hudor, call[c].on, call[c].task)
<1> DEFINE r == [call[c] EXCEPT !.todo = @ \ {t}]
<1>1. r \in CallState /\ call' = [call EXCEPT ![c] = r]
  BY DEF CallState
<1>2. /\ r.pc = call[c].pc /\ r.hudor = call[c].hudor
      /\ r.on = call[c].on /\ r.task = call[c].task
  BY DEF CallState
<1> HIDE DEF r
<1> QED
  BY <1>1, <1>2, CallPut

LEMMA ExecutorPut ==
  ASSUME executor \in [Generation -> ExecutorState], NEW h \in Generation,
         NEW r \in ExecutorState, executor' = [executor EXCEPT ![h] = r]
  PROVE  ExecutorIs(h, r.pc, r.on, r.task)
BY DEF ExecutorIs

LEMMA ExecutorGoto ==
  ASSUME executor \in [Generation -> ExecutorState], NEW h \in Generation, NEW from,
         NEW to \in ExecutorPoints, ExecutorStep(h, from, to)
  PROVE  ExecutorIs(h, to, executor[h].on, executor[h].task)
<1> DEFINE r == [executor[h] EXCEPT !.pc = to]
<1>1. r \in ExecutorState /\ executor' = [executor EXCEPT ![h] = r]
  BY DEF ExecutorState, ExecutorStep
<1>2. r.pc = to /\ r.on = executor[h].on /\ r.task = executor[h].task
  BY DEF ExecutorState
<1> HIDE DEF r
<1> QED
  BY <1>1, <1>2, ExecutorPut

LEMMA ExecutorWaitsOn ==
  ASSUME executor \in [Generation -> ExecutorState], NEW h \in Generation,
         NEW to \in ExecutorPoints, NEW on \in Owners,
         executor' = [executor EXCEPT ![h].pc = to, ![h].on = on]
  PROVE  ExecutorIs(h, to, on, executor[h].task)
<1> DEFINE r == [executor[h] EXCEPT !.pc = to, !.on = on]
<1>1. r \in ExecutorState /\ executor' = [executor EXCEPT ![h] = r]
  BY DEF ExecutorState
<1>2. r.pc = to /\ r.on = on /\ r.task = executor[h].task
  BY DEF ExecutorState
<1> HIDE DEF r
<1> QED
  BY <1>1, <1>2, ExecutorPut

LEMMA ExecutorHas ==
  ASSUME executor \in [Generation -> ExecutorState], NEW h \in Generation,
         NEW to \in ExecutorPoints, NEW t \in Names,
         executor' = [executor EXCEPT ![h].pc = to, ![h].task = t]
  PROVE  ExecutorIs(h, to, executor[h].on, t)
<1> DEFINE r == [executor[h] EXCEPT !.pc = to, !.task = t]
<1>1. r \in ExecutorState /\ executor' = [executor EXCEPT ![h] = r]
  BY DEF ExecutorState
<1>2. r.pc = to /\ r.on = executor[h].on /\ r.task = t
  BY DEF ExecutorState
<1> HIDE DEF r
<1> QED
  BY <1>1, <1>2, ExecutorPut

LEMMA DeleterPut ==
  ASSUME deleter \in [Generation -> DeleterState], NEW h \in Generation,
         NEW r \in DeleterState, deleter' = [deleter EXCEPT ![h] = r]
  PROVE  DeleterIs(h, r.pc, r.on)
BY DEF DeleterIs

LEMMA LaunchPut ==
  ASSUME launches \in Seq(LaunchState), NEW l \in DOMAIN launches, NEW from,
         NEW to \in LaunchPoints, LaunchStep(l, from, to)
  PROVE  LaunchIs(l, to)
<1> DEFINE r == [launches[l] EXCEPT !.pc = to]
<1>1. launches[l] \in LaunchState
  OBVIOUS
<1>2. r \in LaunchState /\ launches' = [launches EXCEPT ![l] = r]
  BY <1>1 DEF LaunchState, LaunchStep
<1>3. /\ r.pc = to /\ r.hudor = launches[l].hudor
      /\ r.task = launches[l].task /\ r.on = launches[l].on
  BY <1>1 DEF LaunchState
<1> HIDE DEF r
<1> QED
  BY <1>2, <1>3 DEF LaunchIs

-----------------------------------------------------------------------------
(* Type correctness *)

HasTask == {"taken", "registered", "trigger", "done"}

GlobalsOK ==
  /\ chans \in Owners /\ hudor \in 0 .. chans /\ session \in 0 .. chans
  /\ runCalls \in 0 .. MaxRuns
  /\ overlapped \in BOOLEAN /\ together \in BOOLEAN /\ closed \subseteq Owners

\* Whoever makes channels has a number for them.
InitsBounded == chans + Cardinality(At(Initializing)) <= MaxInits

ChannelsOK ==
  /\ taskChannel \in [Generation -> Seq(Names)]
  /\ doneTaskChannel \in [Generation -> Nat]
  /\ deleteTaskChannel \in [Generation -> Seq(Names)]
  /\ activeTasks \in [Generation -> SUBSET Task]

\* A goroutine waits at channels that were there when its Hudor was made, or at
\* later ones.
ExecutorsOK ==
  /\ executor \in [Generation -> ExecutorState]
  /\ \A h \in Generation :
       /\ executor[h].pc # "none" => h <= chans
       /\ executor[h].on # 0 => h <= executor[h].on /\ executor[h].on <= chans
       /\ executor[h].pc = "recv" => executor[h].on # 0
       /\ executor[h].pc \in HasTask => executor[h].task \in Task

DeletersOK ==
  /\ deleter \in [Generation -> DeleterState]
  /\ \A h \in Generation :
       /\ deleter[h].pc # "none" => h <= chans
       /\ deleter[h].on # 0 => h <= deleter[h].on /\ deleter[h].on <= chans
       /\ deleter[h].pc = "recv" => deleter[h].on # 0

\* The executor waits for the pool it has launched.
LaunchesOK ==
  /\ launches \in Seq(LaunchState)
  /\ \A l \in DOMAIN launches :
       launches[l].pc = "start" => executor[launches[l].hudor].pc = "trigger"

CallsOK ==
  /\ call \in [Client -> CallState]
  /\ \A c \in Client :
       /\ call[c].on <= chans
       /\ call[c].pc \in InRun => chans # 0
       /\ call[c].pc \in {"await", "newHudor"} => call[c].on # 0

\* A Hudor that is still to be made has no goroutine, and one maker.
FreshHudors ==
  \A c \in Client :
    call[c].pc = "newHudor" =>
      /\ executor[call[c].on].pc = "none"
      /\ \A d \in Client : call[d].pc = "newHudor" /\ call[d].on = call[c].on => c = d

TypeInv ==
  /\ GlobalsOK /\ InitsBounded /\ ChannelsOK
  /\ ExecutorsOK /\ DeletersOK /\ LaunchesOK /\ CallsOK /\ FreshHudors

\* What a handler does to its call, and how many channels there are then.
LEMMA HandlerCall ==
  ASSUME TypeInv, NEW c \in Client
  PROVE  /\ \A t \in Task : BeginRun(c, t) => CallIs(c, "enqueue", session, 0, t)
         /\ Enqueue(c) => CallIs(c, "receive", call[c].hudor, call[c].on, call[c].task)
         /\ Receive(c) => CallIs(c, "await", call[c].hudor, chans, call[c].task)
         /\ Await(c) \/ StopWait(c) \/ NewHudor(c) \/ ResetWait(c) =>
              CallIs(c, "idle", 0, 0, Closing)
         /\ \A t \in Task : BeginStop(c, t) => CallIs(c, "stopWait", session, 0, t)
         /\ BeginInit(c) =>
              CallIs(c, IF hudor = 0 THEN "newChannels" ELSE "initClose", hudor, 0, Closing)
         /\ InitClose(c) => CallIs(c, "initWait", call[c].hudor, call[c].on, call[c].task)
         /\ InitWait(c) => CallIs(c, "newChannels", call[c].hudor, call[c].on, call[c].task)
         /\ NewChannels(c) => CallIs(c, "newHudor", call[c].hudor, chans + 1, call[c].task)
         /\ BeginReset(c) => CallIs(c, "stopAll", session, 0, Closing)
         /\ StopNext(c) =>
              CallIs(c, call[c].pc, call[c].hudor, call[c].on, call[c].task)
         /\ ResetClose(c) => CallIs(c, "resetWait", call[c].hudor, call[c].on, call[c].task)
<1> USE DEF TypeInv, CallsOK, GlobalsOK
<1> USE DEF ClientPoints, InRun, Lifecycle, Initializing
<1>1. Closing \in Names /\ Task \subseteq Names /\ {} \in SUBSET Task
  BY DEF Names
<1>2. hudor \in Owners /\ session \in Owners /\ chans \in Owners
  BY HudorTasksConstants DEF Owners
<1>3. ASSUME NEW t \in Task, BeginRun(c, t)
      PROVE  CallIs(c, "enqueue", session, 0, t)
  BY <1>1, <1>2, <1>3, CallBegin DEF BeginRun
<1>4. Enqueue(c) => CallIs(c, "receive", call[c].hudor, call[c].on, call[c].task)
  BY CallGoto DEF Enqueue
<1>5. Receive(c) => CallIs(c, "await", call[c].hudor, chans, call[c].task)
  BY <1>2, CallWaitsOn DEF Receive
<1>6. Await(c) \/ StopWait(c) \/ NewHudor(c) \/ ResetWait(c) => CallIs(c, "idle", 0, 0, Closing)
  BY CallReturn DEF Await, StopWait, NewHudor, ResetWait
<1>7. ASSUME NEW t \in Task, BeginStop(c, t)
      PROVE  CallIs(c, "stopWait", session, 0, t)
  BY <1>1, <1>2, <1>7, CallBegin DEF BeginStop
<1>8. BeginInit(c) =>
        CallIs(c, IF hudor = 0 THEN "newChannels" ELSE "initClose", hudor, 0, Closing)
  BY <1>1, <1>2, CallBegin DEF BeginInit
<1>9. InitClose(c) => CallIs(c, "initWait", call[c].hudor, call[c].on, call[c].task)
  BY CallGoto DEF InitClose, CloseFrom
<1>10. InitWait(c) => CallIs(c, "newChannels", call[c].hudor, call[c].on, call[c].task)
  BY CallGoto DEF InitWait
<1>11. NewChannels(c) => CallIs(c, "newHudor", call[c].hudor, chans + 1, call[c].task)
  <2>1. SUFFICES ASSUME NewChannels(c)
                 PROVE  CallIs(c, "newHudor", call[c].hudor, chans + 1, call[c].task)
    OBVIOUS
  <2>2. At(Initializing) # {} /\ IsFiniteSet(At(Initializing))
    BY <2>1, HudorTasksConstants, FS_Subset DEF NewChannels, At
  <2>3. Cardinality(At(Initializing)) \in Nat \ {0}
    BY <2>2, FS_CardinalityType, FS_EmptySet
  <2>4. chans + 1 \in Owners
    BY <2>3, <1>2, HudorTasksConstants DEF InitsBounded, Owners
  <2> QED
    BY <2>1, <2>4, CallWaitsOn DEF NewChannels
<1>12. BeginReset(c) => CallIs(c, "stopAll", session, 0, Closing)
  <2>1. session # 0 => activeTasks[session] \in SUBSET Task
    BY <1>2 DEF ChannelsOK, Owners, Generation
  <2> QED
    BY <1>1, <1>2, <2>1, CallBegin DEF BeginReset
<1>13. StopNext(c) => CallIs(c, call[c].pc, call[c].hudor, call[c].on, call[c].task)
  BY CallTodo DEF StopNext
<1>14. ResetClose(c) => CallIs(c, "resetWait", call[c].hudor, call[c].on, call[c].task)
  BY CallGoto DEF ResetClose, CloseFrom
<1> QED
  BY <1>3, <1>4, <1>5, <1>6, <1>7, <1>8, <1>9, <1>10, <1>11, <1>12, <1>13, <1>14

\* Steps of a handler that change nothing but its own call and history.
Light(c) ==
  \/ \E t \in Task : BeginRun(c, t) \/ BeginStop(c, t)
  \/ BeginInit(c) \/ BeginReset(c) \/ Receive(c) \/ StopWait(c) \/ StopNext(c)

\* Steps that queue a name for the executor.
Queueing(c) == Enqueue(c) \/ InitClose(c) \/ ResetClose(c)

\* Steps that change the Hudor or the session.
Replacing(c) == ResetIdle(c) \/ InitWait(c) \/ NewChannels(c) \/ NewHudor(c) \/ ResetWait(c)

HandlerStep(c) == Light(c) \/ Queueing(c) \/ Await(c) \/ Replacing(c)

Goroutine ==
  \/ \E h \in Generation : TaskExecutor(h) \/ TaskDelete(h)
  \/ \E l \in DOMAIN launches : PoolRun(l)

LEMMA StepCases == HudorNext => (\E c \in Client : HandlerStep(c)) \/ Goroutine
BY DEF HudorNext, Handle, HandlerStep, Light, Queueing, Replacing, Goroutine

LEMMA LightFrame ==
  ASSUME NEW c \in Client, Light(c)
  PROVE  UNCHANGED <<globals, channels, activeTasks, goroutines, closed>>
BY DEF Light, BeginRun, BeginStop, BeginInit, BeginReset, Receive, StopWait, StopNext,
       historyVars, globals, channels, goroutines

LEMMA QueueingFrame ==
  ASSUME NEW c \in Client, Queueing(c)
  PROVE  /\ UNCHANGED <<globals, doneTaskChannel, deleteTaskChannel, activeTasks, goroutines>>
         /\ UNCHANGED <<runCalls, together, closed>>
         /\ taskChannel' = Push(taskChannel, chans,
                                IF call[c].pc = "enqueue" THEN call[c].task ELSE Closing)
<1>1. CASE Enqueue(c)
  BY <1>1 DEF Enqueue, Goto, historyVars
<1>2. CASE InitClose(c) \/ ResetClose(c)
  BY <1>2 DEF InitClose, ResetClose, CloseFrom, Goto
<1> QED
  BY <1>1, <1>2 DEF Queueing

LEMMA ReplacingFrame ==
  ASSUME NEW c \in Client, Replacing(c)
  PROVE  /\ UNCHANGED <<channels, activeTasks, launches, runCalls, together>>
         /\ ~NewHudor(c) => UNCHANGED <<executor, deleter>>
         /\ ~NewChannels(c) => chans' = chans
         /\ ~ResetIdle(c) => overlapped' = overlapped
BY DEF Replacing, ResetIdle, InitWait, NewChannels, NewHudor, ResetWait, Drained,
       historyVars, goroutines

LEMMA GoroutineFrame ==
  ASSUME Goroutine
  PROVE  UNCHANGED handlerVars
BY DEF Goroutine, TaskExecutor, ExecutorStart, ExecutorLoop, TakeName, Register, Launch,
       Triggered, Answer, ExecutorClose, TaskDelete, DeleterLoop, Delete, DeleteThen, PoolRun

LEMMA RoomForChannels ==
  ASSUME TypeInv, NEW c \in Client, NewChannels(c)
  PROVE  /\ chans' = chans + 1 /\ chans' \in Generation
         /\ chans' + Cardinality(At(Initializing) \ {c}) <= MaxInits
<1>1. c \in At(Initializing) /\ IsFiniteSet(At(Initializing))
  BY HudorTasksConstants, FS_Subset DEF NewChannels, At, Initializing
<1>2. /\ IsFiniteSet(At(Initializing) \ {c})
      /\ Cardinality(At(Initializing) \ {c}) = Cardinality(At(Initializing)) - 1
  BY <1>1, FS_RemoveElement
<1>3. /\ Cardinality(At(Initializing) \ {c}) \in Nat
      /\ Cardinality(At(Initializing)) \in Nat
  BY <1>1, <1>2, FS_CardinalityType
<1>4. chans' = chans + 1
  BY DEF NewChannels
<1> QED
  BY <1>2, <1>3, <1>4, HudorTasksConstants
     DEF TypeInv, InitsBounded, GlobalsOK, Owners, Generation

LEMMA NextGlobals ==
  ASSUME TypeInv, HudorNext
  PROVE  GlobalsOK' /\ chans \in Nat /\ chans' >= chans
<1>6. ASSUME NEW c \in Client, NewChannels(c)
      PROVE  chans' = chans + 1 /\ chans' \in Owners
  <2>1. chans' = chans + 1 /\ chans' \in Generation
    BY <1>6, RoomForChannels
  <2> QED
    BY <2>1, HudorTasksConstants DEF Generation, Owners
<1> USE DEF TypeInv, GlobalsOK
<1>0. chans \in Nat /\ MaxInits \in Nat /\ MaxRuns \in Nat
  BY HudorTasksConstants DEF Owners
<1>1. ASSUME NEW c \in Client, Light(c)
      PROVE  GlobalsOK' /\ chans' = chans
  <2>1. UNCHANGED <<chans, hudor, session, closed>>
    BY <1>1, LightFrame DEF globals
  <2>2. runCalls' \in 0 .. MaxRuns
    BY <1>0, <1>1 DEF Light, BeginRun, BeginStop, BeginInit, BeginReset, Receive, StopWait, StopNext
  <2>3. overlapped' \in BOOLEAN
    BY <1>1 DEF Light, BeginRun, BeginStop, BeginInit, BeginReset, Receive, StopWait, StopNext,
                Begin, historyVars
  <2>4. together' \in BOOLEAN
    BY <1>1 DEF Light, BeginRun, BeginStop, BeginInit, BeginReset, Receive, StopWait, StopNext,
                Begin, historyVars
  <2> QED
    BY <2>1, <2>2, <2>3, <2>4
<1>2. ASSUME NEW c \in Client, Queueing(c)
      PROVE  GlobalsOK' /\ chans' = chans
  <2>1. UNCHANGED <<chans, hudor, session, closed, runCalls, together>>
    BY <1>2, QueueingFrame DEF globals
  <2>2. overlapped' \in BOOLEAN
    BY <1>2 DEF Queueing, Enqueue, InitClose, ResetClose, CloseFrom, historyVars
  <2> QED
    BY <2>1, <2>2
<1>3. ASSUME NEW c \in Client, Await(c)
      PROVE  GlobalsOK' /\ chans' = chans
  BY <1>3 DEF Await, TakeToken, globals, historyVars
<1>4. ASSUME NEW c \in Client, Replacing(c)
      PROVE  GlobalsOK' /\ chans' >= chans
  <2>1. CASE ResetIdle(c)
    BY <1>0, <2>1 DEF ResetIdle
  <2>2. call[c].hudor \in Owners /\ call[c].on \in Owners
    BY DEF CallsOK, CallState
  <2>3. CASE InitWait(c) \/ ResetWait(c)
    <3>1. /\ UNCHANGED <<chans, hudor, runCalls, overlapped, together>>
          /\ session' \in {0, session} /\ closed' = closed \cup {call[c].hudor}
      BY <2>3 DEF InitWait, ResetWait, Drained
    <3>2. closed' \subseteq Owners
      BY <2>2, <3>1
    <3>3. session' \in 0 .. chans'
      BY <1>0, <3>1
    <3> QED
      BY <1>0, <3>1, <3>2, <3>3
  <2>4. CASE NewChannels(c)
    <3>1. chans' = chans + 1 /\ chans' \in Owners
      BY <1>6, <2>4
    <3>2. UNCHANGED <<hudor, session, runCalls, overlapped, together, closed>>
      BY <2>4 DEF NewChannels, historyVars
    <3> QED
      BY <1>0, <3>1, <3>2
  <2>5. CASE NewHudor(c)
    BY <1>0, <2>2, <2>5 DEF NewHudor, historyVars, CallsOK, Owners
  <2> QED
    BY <1>4, <2>1, <2>3, <2>4, <2>5 DEF Replacing
<1>5. CASE Goroutine
  <2>1. UNCHANGED <<chans, hudor, session, runCalls, overlapped, together, closed>>
    BY <1>5, GoroutineFrame DEF handlerVars, globals, historyVars
  <2> QED
    BY <1>0, <2>1
<1> QED
  BY <1>0, <1>1, <1>2, <1>3, <1>4, <1>5, StepCases DEF HandlerStep

LEMMA PushTyped ==
  ASSUME NEW channel \in [Generation -> Seq(Names)], NEW g, NEW x \in Names
  PROVE  /\ Push(channel, g, x) \in [Generation -> Seq(Names)]
         /\ \A k \in Generation \ {g} : Push(channel, g, x)[k] = channel[k]
         /\ g \in Generation => Push(channel, g, x)[g] = Append(channel[g], x)
<1>1. CASE g \in Generation
  <2>1. Append(channel[g], x) \in Seq(Names)
    BY <1>1
  <2> QED
    BY <1>1, <2>1 DEF Push
<1>2. CASE g \notin Generation
  BY <1>2 DEF Push
<1> QED
  BY <1>1, <1>2

LEMMA TailTyped ==
  ASSUME NEW channel \in [Generation -> Seq(Names)], NEW g \in Generation, channel[g] # <<>>
  PROVE  /\ Head(channel[g]) \in Names
         /\ [channel EXCEPT ![g] = Tail(@)] \in [Generation -> Seq(Names)]
<1>1. channel[g] \in Seq(Names)
  OBVIOUS
<1>2. Head(channel[g]) \in Names /\ Tail(channel[g]) \in Seq(Names)
  BY <1>1, HeadTailProperties
<1> QED
  BY <1>2

\* What the goroutines of a Hudor do to its executor.
LEMMA ExecutorMoves ==
  ASSUME TypeInv, NEW h \in Generation
  PROVE  /\ ExecutorStart(h) => ExecutorIs(h, "loop", executor[h].on, executor[h].task)
         /\ ExecutorLoop(h) => ExecutorIs(h, "recv", chans, executor[h].task)
         /\ TakeName(h) =>
              LET on == executor[h].on
                  name == Head(taskChannel[on])
              IN  /\ on \in Generation /\ name \in Names
                  /\ ExecutorIs(h, IF name = Closing THEN "close" ELSE "taken", on, name)
         /\ Register(h) => ExecutorIs(h, "registered", executor[h].on, executor[h].task)
         /\ Launch(h) => ExecutorIs(h, "trigger", executor[h].on, executor[h].task)
         /\ Triggered(h) => ExecutorIs(h, "done", executor[h].on, executor[h].task)
         /\ Answer(h) => ExecutorIs(h, "loop", executor[h].on, Closing)
         /\ ExecutorClose(h) => ExecutorIs(h, "ended", executor[h].on, executor[h].task)
<1> USE DEF ExecutorPoints
<1>0. executor \in [Generation -> ExecutorState] /\ executor[h] \in ExecutorState
  BY DEF TypeInv, ExecutorsOK
<1>1. chans \in Owners /\ Closing \in Names
  BY DEF TypeInv, GlobalsOK, Names
<1>2. ExecutorStart(h) => ExecutorIs(h, "loop", executor[h].on, executor[h].task)
  BY <1>0, ExecutorGoto DEF ExecutorStart
<1>3. ExecutorLoop(h) => ExecutorIs(h, "recv", chans, executor[h].task)
  BY <1>0, <1>1, ExecutorWaitsOn DEF ExecutorLoop
<1>4. ASSUME TakeName(h), NEW on, on = executor[h].on, NEW name, name = Head(taskChannel[on])
      PROVE  /\ on \in Generation /\ name \in Names
             /\ ExecutorIs(h, IF name = Closing THEN "close" ELSE "taken", on, name)
  <2>1. on \in Generation
    BY <1>0, <1>4, HudorTasksConstants
       DEF TakeName, TypeInv, ExecutorsOK, ExecutorState, Owners, Generation
  <2>2. name \in Names
    BY <1>4, <2>1, TailTyped DEF TakeName, TypeInv, ChannelsOK
  <2>3. executor' = [executor EXCEPT ![h].pc = IF name = Closing THEN "close" ELSE "taken",
                                     ![h].task = name]
    BY <1>4 DEF TakeName
  <2> QED
    BY <1>0, <1>4, <2>1, <2>2, <2>3, ExecutorHas
<1>5. Register(h) => ExecutorIs(h, "registered", executor[h].on, executor[h].task)
  BY <1>0, ExecutorGoto DEF Register
<1>6. Launch(h) => ExecutorIs(h, "trigger", executor[h].on, executor[h].task)
  BY <1>0, ExecutorGoto DEF Launch
<1>7. Triggered(h) => ExecutorIs(h, "done", executor[h].on, executor[h].task)
  BY <1>0, ExecutorGoto DEF Triggered
<1>8. Answer(h) => ExecutorIs(h, "loop", executor[h].on, Closing)
  BY <1>0, <1>1, ExecutorHas DEF Answer
<1>9. ExecutorClose(h) => ExecutorIs(h, "ended", executor[h].on, executor[h].task)
  BY <1>0, ExecutorGoto DEF ExecutorClose
<1> QED
  BY <1>2, <1>3, <1>4, <1>5, <1>6, <1>7, <1>8, <1>9

LEMMA DeleterMoves ==
  ASSUME TypeInv, NEW h \in Generation
  PROVE  /\ DeleterLoop(h) => DeleterIs(h, "recv", chans)
         /\ Delete(h) =>
              LET on == deleter[h].on
                  name == Head(deleteTaskChannel[on])
              IN  /\ on \in Generation /\ name \in Names
                  /\ DeleterIs(h, IF name = Closing THEN "ended" ELSE "loop", on)
<1> USE DEF DeleterPoints
<1>0. deleter \in [Generation -> DeleterState] /\ deleter[h] \in DeleterState
  BY DEF TypeInv, DeletersOK
<1>1. chans \in Owners
  BY DEF TypeInv, GlobalsOK
<1>2. ASSUME DeleterLoop(h)
      PROVE  DeleterIs(h, "recv", chans)
  <2> DEFINE r == [pc |-> "recv", on |-> chans]
  <2>1. r \in DeleterState /\ deleter' = [deleter EXCEPT ![h] = r]
    BY <1>1, <1>2 DEF DeleterLoop, DeleterState
  <2>2. r.pc = "recv" /\ r.on = chans
    OBVIOUS
  <2> HIDE DEF r
  <2> QED
    BY <1>0, <2>1, <2>2, DeleterPut
<1>3. ASSUME Delete(h), NEW on, on = deleter[h].on, NEW name, name = Head(deleteTaskChannel[on])
      PROVE  /\ on \in Generation /\ name \in Names
             /\ DeleterIs(h, IF name = Closing THEN "ended" ELSE "loop", on)
  <2>1. on \in Generation
    BY <1>0, <1>3, HudorTasksConstants
       DEF Delete, DeleteThen, TypeInv, DeletersOK, DeleterState, Owners, Generation
  <2>2. name \in Names
    BY <1>3, <2>1, TailTyped DEF Delete, DeleteThen, TypeInv, ChannelsOK
  <2> DEFINE r == [deleter[h] EXCEPT !.pc = IF name = Closing THEN "ended" ELSE "loop"]
  <2>3. r \in DeleterState /\ deleter' = [deleter EXCEPT ![h] = r]
    BY <1>0, <1>3 DEF Delete, DeleteThen, DeleterState
  <2>4. r.pc = (IF name = Closing THEN "ended" ELSE "loop") /\ r.on = on
    BY <1>0, <1>3 DEF DeleterState
  <2> HIDE DEF r
  <2> QED
    BY <1>0, <2>1, <2>2, <2>3, <2>4, DeleterPut
<1> QED
  BY <1>2, <1>3

\* The channels a goroutine sends to, and those of the handlers.
LEMMA NextChannels ==
  ASSUME TypeInv, HudorNext
  PROVE  ChannelsOK'
<1>0. ChannelsOK /\ chans \in Owners /\ Closing \in Names
  BY DEF TypeInv, GlobalsOK, Names
<1>1. ASSUME UNCHANGED <<channels, activeTasks>>
      PROVE  ChannelsOK'
  BY <1>0, <1>1 DEF ChannelsOK, channels
<1>2. ASSUME NEW c \in Client, Light(c)
      PROVE  ChannelsOK'
  BY <1>1, <1>2, LightFrame
<1>3. ASSUME NEW c \in Client, Queueing(c)
      PROVE  ChannelsOK'
  <2>1. call[c].task \in Names
    BY DEF TypeInv, CallsOK, CallState
  <2> DEFINE x == IF call[c].pc = "enqueue" THEN call[c].task ELSE Closing
  <2>2. x \in Names /\ taskChannel' = Push(taskChannel, chans, x)
    BY <1>0, <1>3, <2>1, QueueingFrame
  <2> HIDE DEF x
  <2>3. taskChannel' \in [Generation -> Seq(Names)]
    BY <1>0, <2>2, PushTyped DEF ChannelsOK
  <2> QED
    BY <1>0, <1>3, <2>3, QueueingFrame DEF ChannelsOK
<1>4. ASSUME NEW c \in Client, Await(c)
      PROVE  ChannelsOK'
  <2>1. call[c].on \in Generation
    BY <1>4, HudorTasksConstants
       DEF Await, Return, TypeInv, CallsOK, CallState, Owners, Generation
  <2>2. doneTaskChannel[call[c].on] \in Nat
    BY <1>0, <2>1 DEF ChannelsOK
  <2>3. doneTaskChannel[call[c].on] - 1 \in Nat
    BY <1>4, <2>2 DEF Await
  <2>4. /\ doneTaskChannel' = [doneTaskChannel EXCEPT ![call[c].on] = @ - 1]
        /\ UNCHANGED <<taskChannel, deleteTaskChannel, activeTasks>>
    BY <1>4 DEF Await, TakeToken
  <2> QED
    BY <1>0, <2>1, <2>3, <2>4 DEF ChannelsOK
<1>5. ASSUME NEW c \in Client, Replacing(c)
      PROVE  ChannelsOK'
  BY <1>1, <1>5, ReplacingFrame
<1>6. ASSUME NEW h \in Generation, TaskExecutor(h)
      PROVE  ChannelsOK'
  <2>1. CASE ExecutorStart(h) \/ ExecutorLoop(h) \/ Launch(h) \/ Triggered(h)
    BY <1>1, <2>1 DEF ExecutorStart, ExecutorLoop, Launch, Triggered
  <2>2. CASE TakeName(h)
    <3>1. executor[h].on \in Generation
      BY <2>2, ExecutorMoves
    <3>2. /\ taskChannel[executor[h].on] # <<>>
          /\ taskChannel' = [taskChannel EXCEPT ![executor[h].on] = Tail(@)]
          /\ UNCHANGED <<doneTaskChannel, deleteTaskChannel, activeTasks>>
      BY <2>2 DEF TakeName
    <3>3. taskChannel' \in [Generation -> Seq(Names)]
      BY <1>0, <3>1, <3>2, TailTyped DEF ChannelsOK
    <3> QED
      BY <1>0, <3>2, <3>3 DEF ChannelsOK
  <2>3. CASE Register(h)
    <3>1. executor[h].task \in Task
      BY <2>3 DEF Register, ExecutorStep, TypeInv, ExecutorsOK, HasTask
    <3>2. /\ activeTasks' = [activeTasks EXCEPT ![h] = @ \cup {executor[h].task}]
          /\ UNCHANGED channels
      BY <2>3 DEF Register
    <3> QED
      BY <1>0, <3>1, <3>2 DEF ChannelsOK, channels
  <2>4. CASE Answer(h)
    <3>1. /\ doneTaskChannel' = [doneTaskChannel EXCEPT ![chans] = @ + 1]
          /\ UNCHANGED <<taskChannel, deleteTaskChannel, activeTasks>>
      BY <2>4 DEF Answer
    <3>2. doneTaskChannel' \in [Generation -> Nat]
      <4>1. CASE chans \in Generation
        BY <1>0, <3>1, <4>1 DEF ChannelsOK
      <4>2. CASE chans \notin Generation
        BY <1>0, <3>1, <4>2 DEF ChannelsOK
      <4> QED
        BY <4>1, <4>2
    <3> QED
      BY <1>0, <3>1, <3>2 DEF ChannelsOK
  <2>5. CASE ExecutorClose(h)
    <3>1. /\ deleteTaskChannel' = Push(deleteTaskChannel, chans, Closing)
          /\ UNCHANGED <<taskChannel, doneTaskChannel, activeTasks>>
      BY <2>5 DEF ExecutorClose
    <3> QED
      BY <1>0, <3>1, PushTyped DEF ChannelsOK
  <2> QED
    BY <1>6, <2>1, <2>2, <2>3, <2>4, <2>5 DEF TaskExecutor
<1>7. ASSUME NEW h \in Generation, TaskDelete(h)
      PROVE  ChannelsOK'
  <2>1. CASE DeleterLoop(h)
    BY <1>1, <2>1 DEF DeleterLoop
  <2>2. CASE Delete(h)
    <3>1. deleter[h].on \in Generation
      BY <2>2, DeleterMoves
    <3>2. /\ deleteTaskChannel[deleter[h].on] # <<>>
          /\ deleteTaskChannel' = [deleteTaskChannel EXCEPT ![deleter[h].on] = Tail(@)]
          /\ activeTasks' =
               [activeTasks EXCEPT ![h] = @ \ {Head(deleteTaskChannel[deleter[h].on])}]
          /\ UNCHANGED <<taskChannel, doneTaskChannel>>
      BY <2>2 DEF Delete, DeleteThen
    <3>3. deleteTaskChannel' \in [Generation -> Seq(Names)]
      BY <1>0, <3>1, <3>2, TailTyped DEF ChannelsOK
    <3> QED
      BY <1>0, <3>2, <3>3 DEF ChannelsOK
  <2> QED
    BY <1>7, <2>1, <2>2 DEF TaskDelete
<1>8. ASSUME NEW l \in DOMAIN launches, PoolRun(l)
      PROVE  ChannelsOK'
  <2>1. UNCHANGED <<taskChannel, doneTaskChannel, activeTasks>>
    BY <1>8 DEF PoolRun
  <2>2. launches[l].task \in Names
    <3>1. launches[l] \in LaunchState
      BY DEF TypeInv, LaunchesOK
    <3> QED
      BY <3>1 DEF LaunchState, Names
  <2>3. deleteTaskChannel' \in {deleteTaskChannel,
                                Push(deleteTaskChannel, launches[l].on, launches[l].task)}
    BY <1>8 DEF PoolRun, StartWork, FinishWork, Announce, TellDeleter
  <2>4. /\ deleteTaskChannel \in [Generation -> Seq(Names)]
        /\ Push(deleteTaskChannel, launches[l].on, launches[l].task)
             \in [Generation -> Seq(Names)]
    BY <1>0, <2>2, PushTyped DEF ChannelsOK
  <2> QED
    BY <1>0, <2>1, <2>3, <2>4 DEF ChannelsOK
<1> QED
  BY <1>2, <1>3, <1>4, <1>5, <1>6, <1>7, <1>8, StepCases DEF HandlerStep, Goroutine

LEMMA NextExecutors ==
  ASSUME TypeInv, HudorNext
  PROVE  ExecutorsOK'
<1>0. /\ ExecutorsOK /\ CallsOK /\ GlobalsOK
      /\ chans \in Nat /\ chans' \in Nat /\ chans' >= chans
  BY NextGlobals DEF TypeInv, GlobalsOK, Owners
<1>a. \A h \in Generation : h \in Nat \ {0} /\ executor[h].on \in Nat
  BY <1>0, HudorTasksConstants DEF ExecutorsOK, ExecutorState, Owners, Generation
<1>1. ASSUME UNCHANGED executor
      PROVE  ExecutorsOK'
  <2>1. ASSUME NEW h \in Generation
        PROVE  /\ executor[h].pc # "none" => h <= chans'
               /\ executor[h].on # 0 => h <= executor[h].on /\ executor[h].on <= chans'
    BY <1>0, <1>a DEF ExecutorsOK
  <2> QED
    BY <1>0, <1>1, <2>1 DEF ExecutorsOK
<1>2. ASSUME NEW h \in Generation, NEW pc, NEW on, NEW t, ExecutorIs(h, pc, on, t),
             h <= chans', on \in Nat,
             on # 0 => h <= on /\ on <= chans',
             pc = "recv" => on # 0,
             pc \in HasTask => t \in Task
      PROVE  ExecutorsOK'
  <2>1. executor' \in [Generation -> ExecutorState]
    BY <1>2 DEF ExecutorIs
  <2>2. ASSUME NEW g \in Generation
        PROVE  /\ executor'[g].pc # "none" => g <= chans'
               /\ executor'[g].on # 0 => g <= executor'[g].on /\ executor'[g].on <= chans'
               /\ executor'[g].pc = "recv" => executor'[g].on # 0
               /\ executor'[g].pc \in HasTask => executor'[g].task \in Task
    <3>1. CASE g = h
      BY <1>2, <3>1 DEF ExecutorIs
    <3>2. CASE g # h
      BY <1>0, <1>2, <1>a, <3>2 DEF ExecutorIs, ExecutorsOK
    <3> QED
      BY <3>1, <3>2
  <2> QED
    BY <2>1, <2>2 DEF ExecutorsOK
<1>3. ASSUME NEW c \in Client, HandlerStep(c), ~NewHudor(c)
      PROVE  ExecutorsOK'
  <2>1. UNCHANGED executor
    <3>1. CASE Light(c)
      BY <3>1, LightFrame DEF goroutines
    <3>2. CASE Queueing(c)
      BY <3>2, QueueingFrame DEF goroutines
    <3>3. CASE Await(c)
      BY <3>3 DEF Await, TakeToken, goroutines
    <3>4. CASE Replacing(c)
      BY <1>3, <3>4, ReplacingFrame
    <3> QED
      BY <1>3, <3>1, <3>2, <3>3, <3>4 DEF HandlerStep
  <2> QED
    BY <1>1, <2>1
<1>4. ASSUME NEW c \in Client, NewHudor(c)
      PROVE  ExecutorsOK'
  <2> DEFINE h == call[c].on
  <2>1. h \in Generation /\ h <= chans
    BY <1>0, <1>4, HudorTasksConstants
       DEF NewHudor, Return, CallsOK, CallState, Owners, Generation
  <2>2. ExecutorStep(h, executor[h].pc, "start")
    BY <1>4 DEF NewHudor, ExecutorStep
  <2>3. ExecutorIs(h, "start", executor[h].on, executor[h].task)
    BY <1>0, <2>1, <2>2, ExecutorGoto DEF ExecutorsOK, ExecutorPoints
  <2>4. executor[h].on # 0 => h <= executor[h].on /\ executor[h].on <= chans'
    BY <1>0, <1>a, <2>1 DEF ExecutorsOK
  <2>5. h <= chans' /\ executor[h].on \in Nat
    BY <1>0, <1>a, <2>1
  <2> HIDE DEF h
  <2> QED
    BY <1>2, <2>1, <2>3, <2>4, <2>5 DEF HasTask
<1>5. ASSUME NEW h \in Generation, TaskExecutor(h)
      PROVE  ExecutorsOK'
  <2>1. executor[h].pc # "none"
    BY <1>5 DEF TaskExecutor, ExecutorStart, ExecutorLoop, TakeName, Register, Launch, Triggered,
                Answer, ExecutorClose, ExecutorStep
  <2>2. h <= chans' /\ executor[h].on \in Nat
    BY <1>0, <1>a, <2>1 DEF ExecutorsOK
  <2>3. executor[h].on # 0 => h <= executor[h].on /\ executor[h].on <= chans'
    BY <1>0, <1>a DEF ExecutorsOK
  <2>4. executor[h].pc \in HasTask => executor[h].task \in Task
    BY <1>0 DEF ExecutorsOK
  <2>5. ASSUME NEW pc, NEW t, ExecutorIs(h, pc, executor[h].on, t), pc # "recv",
               pc \in HasTask => t \in Task
        PROVE  ExecutorsOK'
    BY <1>2, <2>2, <2>3, <2>5
  <2>6. CASE ExecutorStart(h) \/ Answer(h) \/ ExecutorClose(h)
    BY <2>5, <2>6, ExecutorMoves DEF HasTask
  <2>7. CASE ExecutorLoop(h)
    <3>1. ExecutorIs(h, "recv", chans, executor[h].task)
      BY <2>7, ExecutorMoves
    <3>2. h <= chans /\ chans # 0 /\ chans <= chans'
      BY <1>0, <1>a, <2>1 DEF ExecutorsOK
    <3> QED
      BY <1>0, <1>2, <2>2, <3>1, <3>2 DEF HasTask
  <2>8. CASE TakeName(h)
    <3> DEFINE name == Head(taskChannel[executor[h].on])
    <3>1. /\ name \in Names
          /\ ExecutorIs(h, IF name = Closing THEN "close" ELSE "taken", executor[h].on, name)
      BY <2>8, ExecutorMoves
    <3> HIDE DEF name
    <3>2. CASE name = Closing
      BY <2>5, <3>1, <3>2 DEF HasTask
    <3>3. CASE name # Closing
      BY <2>5, <3>1, <3>3 DEF HasTask, Names
    <3> QED
      BY <3>2, <3>3
  <2>9. CASE Register(h) \/ Launch(h) \/ Triggered(h)
    <3>1. executor[h].task \in Task
      BY <2>4, <2>9 DEF Register, Launch, Triggered, ExecutorStep, HasTask
    <3> QED
      BY <2>5, <2>9, <3>1, ExecutorMoves DEF HasTask
  <2> QED
    BY <1>5, <2>6, <2>7, <2>8, <2>9 DEF TaskExecutor
<1>6. ASSUME NEW h \in Generation, TaskDelete(h)
      PROVE  ExecutorsOK'
  BY <1>1, <1>6 DEF TaskDelete, DeleterLoop, Delete, DeleteThen
<1>7. ASSUME NEW l \in DOMAIN launches, PoolRun(l)
      PROVE  ExecutorsOK'
  BY <1>1, <1>7 DEF PoolRun
<1> QED
  BY <1>3, <1>4, <1>5, <1>6, <1>7, StepCases DEF Goroutine

LEMMA NextDeleters ==
  ASSUME TypeInv, HudorNext
  PROVE  DeletersOK'
<1>0. /\ DeletersOK /\ CallsOK
      /\ chans \in Nat /\ chans' \in Nat /\ chans' >= chans
  BY NextGlobals DEF TypeInv, GlobalsOK, Owners
<1>a. \A h \in Generation : h \in Nat \ {0} /\ deleter[h].on \in Nat
  BY <1>0, HudorTasksConstants DEF DeletersOK, DeleterState, Owners, Generation
<1>1. ASSUME UNCHANGED deleter
      PROVE  DeletersOK'
  <2>1. ASSUME NEW h \in Generation
        PROVE  /\ deleter[h].pc # "none" => h <= chans'
               /\ deleter[h].on # 0 => h <= deleter[h].on /\ deleter[h].on <= chans'
    BY <1>0, <1>a DEF DeletersOK
  <2> QED
    BY <1>0, <1>1, <2>1 DEF DeletersOK
<1>2. ASSUME NEW h \in Generation, NEW pc, NEW on, DeleterIs(h, pc, on), h <= chans',
             on \in Nat, on # 0 => h <= on /\ on <= chans', pc = "recv" => on # 0
      PROVE  DeletersOK'
  <2>1. deleter' \in [Generation -> DeleterState]
    BY <1>2 DEF DeleterIs
  <2>2. ASSUME NEW g \in Generation
        PROVE  /\ deleter'[g].pc # "none" => g <= chans'
               /\ deleter'[g].on # 0 => g <= deleter'[g].on /\ deleter'[g].on <= chans'
               /\ deleter'[g].pc = "recv" => deleter'[g].on # 0
    <3>1. CASE g = h
      BY <1>2, <3>1 DEF DeleterIs
    <3>2. CASE g # h
      BY <1>0, <1>2, <1>a, <3>2 DEF DeleterIs, DeletersOK
    <3> QED
      BY <3>1, <3>2
  <2> QED
    BY <2>1, <2>2 DEF DeletersOK
<1>3. ASSUME NEW c \in Client, HandlerStep(c), ~NewHudor(c)
      PROVE  DeletersOK'
  <2>1. UNCHANGED deleter
    <3>1. CASE Light(c)
      BY <3>1, LightFrame DEF goroutines
    <3>2. CASE Queueing(c)
      BY <3>2, QueueingFrame DEF goroutines
    <3>3. CASE Await(c)
      BY <3>3 DEF Await, TakeToken, goroutines
    <3>4. CASE Replacing(c)
      BY <1>3, <3>4, ReplacingFrame
    <3> QED
      BY <1>3, <3>1, <3>2, <3>3, <3>4 DEF HandlerStep
  <2> QED
    BY <1>1, <2>1
<1>4. ASSUME NEW c \in Client, NewHudor(c)
      PROVE  DeletersOK'
  <2> DEFINE h == call[c].on
             r == [deleter[h] EXCEPT !.pc = "loop"]
  <2>1. h \in Generation /\ h <= chans
    BY <1>0, <1>4, HudorTasksConstants
       DEF NewHudor, Return, CallsOK, CallState, Owners, Generation
  <2>2. r \in DeleterState /\ deleter' = [deleter EXCEPT ![h] = r]
    BY <1>0, <1>4, <2>1 DEF NewHudor, DeletersOK, DeleterState, DeleterPoints
  <2>3. r.pc = "loop" /\ r.on = deleter[h].on
    BY <1>0, <2>1 DEF DeletersOK, DeleterState
  <2>4. deleter[h].on # 0 => h <= deleter[h].on /\ deleter[h].on <= chans'
    BY <1>0, <1>a, <2>1 DEF DeletersOK
  <2>5. h <= chans' /\ deleter[h].on \in Nat
    BY <1>0, <1>a, <2>1
  <2> HIDE DEF h, r
  <2>6. DeleterIs(h, "loop", deleter[h].on)
    BY <1>0, <2>1, <2>2, <2>3, DeleterPut DEF DeletersOK
  <2> QED
    BY <1>2, <2>1, <2>4, <2>5, <2>6
<1>5. ASSUME NEW h \in Generation, TaskDelete(h)
      PROVE  DeletersOK'
  <2>1. deleter[h].pc # "none"
    BY <1>5 DEF TaskDelete, DeleterLoop, Delete, DeleteThen
  <2>2. h <= chans' /\ deleter[h].on \in Nat
    BY <1>0, <1>a, <2>1 DEF DeletersOK
  <2>3. deleter[h].on # 0 => h <= deleter[h].on /\ deleter[h].on <= chans'
    BY <1>0, <1>a DEF DeletersOK
  <2>4. CASE DeleterLoop(h)
    <3>1. DeleterIs(h, "recv", chans)
      BY <2>4, DeleterMoves
    <3>2. h <= chans /\ chans # 0 /\ chans <= chans'
      BY <1>0, <1>a, <2>1 DEF DeletersOK
    <3> QED
      BY <1>0, <1>2, <2>2, <3>1, <3>2
  <2>5. CASE Delete(h)
    <3>1. DeleterIs(h, "ended", deleter[h].on) \/ DeleterIs(h, "loop", deleter[h].on)
      BY <2>5, DeleterMoves
    <3> QED
      BY <1>2, <2>2, <2>3, <3>1
  <2> QED
    BY <1>5, <2>4, <2>5 DEF TaskDelete
<1>6. ASSUME NEW h \in Generation, TaskExecutor(h)
      PROVE  DeletersOK'
  BY <1>1, <1>6 DEF TaskExecutor, ExecutorStart, ExecutorLoop, TakeName, Register, Launch,
                    Triggered, Answer, ExecutorClose
<1>7. ASSUME NEW l \in DOMAIN launches, PoolRun(l)
      PROVE  DeletersOK'
  BY <1>1, <1>7 DEF PoolRun
<1> QED
  BY <1>3, <1>4, <1>5, <1>6, <1>7, StepCases DEF Goroutine

\* A launch is put behind the others, at the channels of its moment.
LEMMA LaunchAppends ==
  ASSUME TypeInv, NEW h \in Generation, Launch(h)
  PROVE  /\ launches' \in Seq(LaunchState)
         /\ DOMAIN launches' = DOMAIN launches \cup {Len(launches) + 1}
         /\ Len(launches) + 1 \notin DOMAIN launches /\ Len(launches') = Len(launches) + 1
         /\ \A k \in DOMAIN launches : launches'[k] = launches[k]
         /\ LET new == launches'[Len(launches) + 1]
            IN  /\ new.hudor = h /\ new.task = executor[h].task
                /\ new.on = chans /\ new.pc = "start"
<1> DEFINE new == [hudor |-> h, task |-> executor[h].task, on |-> chans, pc |-> "start"]
<1>1. launches \in Seq(LaunchState) /\ launches' = Append(launches, new)
  BY DEF Launch, TypeInv, LaunchesOK
<1>2. new \in LaunchState
  <2>1. executor[h].task \in Task
    BY DEF Launch, ExecutorStep, TypeInv, ExecutorsOK, HasTask
  <2>2. chans \in Generation
    BY HudorTasksConstants
       DEF Launch, ExecutorStep, TypeInv, ExecutorsOK, GlobalsOK, Generation, Owners
  <2> QED
    BY <2>1, <2>2 DEF LaunchState, LaunchPoints
<1>3. new.hudor = h /\ new.task = executor[h].task /\ new.on = chans /\ new.pc = "start"
  OBVIOUS
<1> HIDE DEF new
<1> QED
  BY <1>1, <1>2, <1>3

LEMMA PoolMoves ==
  ASSUME TypeInv, NEW l \in DOMAIN launches
  PROVE  /\ StartWork(l) => LaunchIs(l, "working")
         /\ FinishWork(l) => LaunchIs(l, "finished")
         /\ Announce(l) => LaunchIs(l, "ended")
         /\ launches[l] \in LaunchState
<1>1. launches \in Seq(LaunchState)
  BY DEF TypeInv, LaunchesOK
<1> QED
  BY <1>1, LaunchPut DEF StartWork, FinishWork, Announce, LaunchPoints

LEMMA NextLaunches ==
  ASSUME TypeInv, HudorNext
  PROVE  LaunchesOK'
<1>0. LaunchesOK /\ \A l \in DOMAIN launches : launches[l].hudor \in Generation
  BY PoolMoves DEF TypeInv, LaunchState
<1>1. ASSUME UNCHANGED <<executor, launches>>
      PROVE  LaunchesOK'
  BY <1>0, <1>1 DEF LaunchesOK
<1>2. ASSUME NEW h \in Generation, NEW pc, NEW on, NEW t, ExecutorIs(h, pc, on, t),
             UNCHANGED launches,
             executor[h].pc = "trigger" =>
               \A l \in DOMAIN launches : launches[l].hudor = h => launches[l].pc # "start"
      PROVE  LaunchesOK'
  BY <1>0, <1>2 DEF LaunchesOK, ExecutorIs
<1>3. ASSUME NEW c \in Client, HandlerStep(c), ~NewHudor(c)
      PROVE  LaunchesOK'
  <2>1. UNCHANGED <<executor, launches>>
    <3>1. CASE Light(c)
      BY <3>1, LightFrame DEF goroutines
    <3>2. CASE Queueing(c)
      BY <3>2, QueueingFrame DEF goroutines
    <3>3. CASE Await(c)
      BY <3>3 DEF Await, TakeToken, goroutines
    <3>4. CASE Replacing(c)
      BY <1>3, <3>4, ReplacingFrame
    <3> QED
      BY <1>3, <3>1, <3>2, <3>3, <3>4 DEF HandlerStep
  <2> QED
    BY <1>1, <2>1
<1>4. ASSUME NEW c \in Client, NewHudor(c)
      PROVE  LaunchesOK'
  <2> DEFINE h == call[c].on
  <2>1. h \in Generation /\ executor[h].pc = "none"
    BY <1>4, HudorTasksConstants
       DEF NewHudor, Return, TypeInv, CallsOK, CallState, FreshHudors, Owners, Generation
  <2>2. ExecutorStep(h, executor[h].pc, "start") /\ UNCHANGED launches
    BY <1>4 DEF NewHudor, ExecutorStep
  <2>3. ExecutorIs(h, "start", executor[h].on, executor[h].task)
    BY <2>1, <2>2, ExecutorGoto DEF TypeInv, ExecutorsOK, ExecutorPoints
  <2> HIDE DEF h
  <2> QED
    BY <1>2, <2>1, <2>2, <2>3
<1>5. ASSUME NEW h \in Generation, TaskExecutor(h), ~Launch(h)
      PROVE  LaunchesOK'
  <2>1. UNCHANGED launches
    BY <1>5 DEF TaskExecutor, ExecutorStart, ExecutorLoop, TakeName, Register, Triggered,
                Answer, ExecutorClose
  <2>2. \E pc, on, t : ExecutorIs(h, pc, on, t)
    BY <1>5, ExecutorMoves DEF TaskExecutor
  <2>3. executor[h].pc = "trigger" => Triggered(h)
    BY <1>5 DEF TaskExecutor, ExecutorStart, ExecutorLoop, TakeName, Register, Answer,
                ExecutorClose, ExecutorStep
  <2>4. executor[h].pc = "trigger" =>
          \A l \in DOMAIN launches : launches[l].hudor = h => launches[l].pc # "start"
    BY <2>3 DEF Triggered
  <2> QED
    BY <1>2, <2>1, <2>2, <2>4
<1>6. ASSUME NEW h \in Generation, Launch(h)
      PROVE  LaunchesOK'
  <2>1. /\ ExecutorIs(h, "trigger", executor[h].on, executor[h].task)
        /\ executor[h].pc = "registered"
    BY <1>6, ExecutorMoves DEF Launch, ExecutorStep
  <2>2. ASSUME NEW l \in DOMAIN launches', launches'[l].pc = "start"
        PROVE  executor'[launches'[l].hudor].pc = "trigger"
    <3>1. CASE l \in DOMAIN launches
      BY <1>0, <1>6, <2>1, <2>2, <3>1, LaunchAppends DEF LaunchesOK, ExecutorIs
    <3>2. CASE l = Len(launches) + 1
      BY <1>6, <2>1, <3>2, LaunchAppends DEF ExecutorIs
    <3> QED
      BY <1>6, <3>1, <3>2, LaunchAppends
  <2> QED
    BY <1>6, <2>2, LaunchAppends DEF LaunchesOK
<1>7. ASSUME NEW h \in Generation, TaskDelete(h)
      PROVE  LaunchesOK'
  BY <1>1, <1>7 DEF TaskDelete, DeleterLoop, Delete, DeleteThen
<1>8. ASSUME NEW l \in DOMAIN launches, PoolRun(l)
      PROVE  LaunchesOK'
  <2>1. PICK pc : LaunchIs(l, pc) /\ pc # "start"
    BY <1>8, PoolMoves DEF PoolRun
  <2>2. UNCHANGED executor
    BY <1>8 DEF PoolRun
  <2> QED
    BY <1>0, <2>1, <2>2 DEF LaunchesOK, LaunchIs
<1> QED
  BY <1>3, <1>4, <1>5, <1>6, <1>7, <1>8, StepCases DEF Goroutine

LEMMA NextCalls ==
  ASSUME TypeInv, HudorNext
  PROVE  CallsOK'
<1>0. /\ CallsOK /\ GlobalsOK
      /\ chans \in Nat /\ chans' \in Nat /\ chans' >= chans
      /\ \A c \in Client : call[c].on \in Nat
  BY NextGlobals, HudorTasksConstants DEF TypeInv, GlobalsOK, CallsOK, CallState, Owners
<1>1. ASSUME NEW c \in Client, NEW pc, NEW h, NEW on, NEW t, CallIs(c, pc, h, on, t),
             on \in Nat, on <= chans', pc \in InRun => chans' # 0,
             pc \in {"await", "newHudor"} => on # 0
      PROVE  CallsOK'
  <2>1. call' \in [Client -> CallState]
    BY <1>1 DEF CallIs
  <2>2. ASSUME NEW d \in Client
        PROVE  /\ call'[d].on <= chans'
               /\ call'[d].pc \in InRun => chans' # 0
               /\ call'[d].pc \in {"await", "newHudor"} => call'[d].on # 0
    <3>1. CASE d = c
      BY <1>1, <3>1 DEF CallIs
    <3>2. CASE d # c
      BY <1>0, <1>1, <3>2 DEF CallIs, CallsOK
    <3> QED
      BY <3>1, <3>2
  <2> QED
    BY <2>1, <2>2 DEF CallsOK
<1>2. ASSUME UNCHANGED call
      PROVE  CallsOK'
  BY <1>0, <1>2 DEF CallsOK
<1>3. ASSUME NEW c \in Client, HandlerStep(c)
      PROVE  CallsOK'
  <2>1. CASE \E t \in Task : BeginRun(c, t)
    <3>1. PICK t \in Task : CallIs(c, "enqueue", session, 0, t)
      BY <2>1, HandlerCall
    <3>2. chans' # 0
      BY <1>0, <2>1 DEF BeginRun, GlobalsOK
    <3> QED
      BY <1>0, <1>1, <3>1, <3>2
  <2>2. CASE \E t \in Task : BeginStop(c, t)
    <3>1. PICK t \in Task : CallIs(c, "stopWait", session, 0, t)
      BY <2>2, HandlerCall
    <3> QED
      BY <1>0, <1>1, <3>1 DEF InRun
  <2>3. CASE Enqueue(c)
    <3>1. /\ CallIs(c, "receive", call[c].hudor, call[c].on, call[c].task)
          /\ call[c].pc = "enqueue"
      BY <2>3, HandlerCall DEF Enqueue, Goto
    <3> QED
      BY <1>0, <1>1, <3>1 DEF CallsOK, InRun
  <2>4. CASE Receive(c)
    <3>1. /\ CallIs(c, "await", call[c].hudor, chans, call[c].task)
          /\ call[c].pc = "receive"
      BY <2>4, HandlerCall DEF Receive
    <3>2. chans # 0
      BY <1>0, <3>1 DEF CallsOK, InRun
    <3> QED
      BY <1>0, <1>1, <3>1, <3>2
  <2>5. CASE Await(c) \/ StopWait(c) \/ NewHudor(c) \/ ResetWait(c)
    <3>1. CallIs(c, "idle", 0, 0, Closing)
      BY <2>5, HandlerCall
    <3> QED
      BY <1>0, <1>1, <3>1 DEF InRun
  <2>6. CASE BeginInit(c) \/ BeginReset(c)
    <3>1. \E pc \in Lifecycle \ {"newHudor"}, h \in Owners : CallIs(c, pc, h, 0, Closing)
      BY <1>0, <2>6, HandlerCall, HudorTasksConstants DEF Lifecycle, Initializing, GlobalsOK, Owners
    <3> QED
      BY <1>0, <1>1, <3>1 DEF InRun, Lifecycle, Initializing
  <2>7. CASE InitClose(c) \/ InitWait(c) \/ ResetClose(c) \/ StopNext(c)
    <3>1. \E pc \in Lifecycle \ {"newHudor"} :
            CallIs(c, pc, call[c].hudor, call[c].on, call[c].task)
      BY <2>7, HandlerCall DEF Lifecycle, Initializing, StopNext
    <3> QED
      BY <1>0, <1>1, <3>1 DEF InRun, Lifecycle, Initializing, CallsOK
  <2>8. CASE NewChannels(c)
    <3>1. /\ CallIs(c, "newHudor", call[c].hudor, chans + 1, call[c].task)
          /\ chans' = chans + 1
      BY <2>8, HandlerCall DEF NewChannels
    <3> QED
      BY <1>0, <1>1, <3>1 DEF InRun
  <2>9. CASE ResetIdle(c)
    BY <1>2, <2>9 DEF ResetIdle
  <2> QED
    BY <1>3, <2>1, <2>2, <2>3, <2>4, <2>5, <2>6, <2>7, <2>8, <2>9
       DEF HandlerStep, Light, Queueing, Replacing
<1>4. CASE Goroutine
  BY <1>2, <1>4, GoroutineFrame DEF handlerVars
<1> QED
  BY <1>3, <1>4, StepCases

LEMMA NextFresh ==
  ASSUME TypeInv, HudorNext
  PROVE  FreshHudors'
<1>0. /\ FreshHudors /\ ExecutorsOK /\ call \in [Client -> CallState]
      /\ chans \in Nat /\ \A c \in Client : call[c].on \in Nat /\ call[c].on <= chans
      /\ \A c \in Client : call[c].pc = "newHudor" => call[c].on \in Generation
  BY HudorTasksConstants
     DEF TypeInv, GlobalsOK, CallsOK, CallState, Owners, Generation
<1>1. ASSUME UNCHANGED <<executor, call>>
      PROVE  FreshHudors'
  BY <1>0, <1>1 DEF FreshHudors
<1>2. ASSUME NEW c \in Client, NEW pc, NEW h, NEW on, NEW t, CallIs(c, pc, h, on, t),
             pc # "newHudor" \/ (pc = call[c].pc /\ on = call[c].on), UNCHANGED executor
      PROVE  FreshHudors'
  BY <1>0, <1>2 DEF FreshHudors, CallIs
<1>3. ASSUME NEW c \in Client, HandlerStep(c)
      PROVE  FreshHudors'
  <2>1. CASE Light(c) \/ Queueing(c) \/ Await(c) \/ InitWait(c) \/ ResetWait(c)
    <3>1. UNCHANGED executor
      <4>1. CASE Light(c)
        BY <4>1, LightFrame DEF goroutines
      <4>2. CASE Queueing(c)
        BY <4>2, QueueingFrame DEF goroutines
      <4>3. CASE Await(c) \/ InitWait(c) \/ ResetWait(c)
        BY <4>3 DEF Await, TakeToken, InitWait, ResetWait, Drained, goroutines
      <4> QED
        BY <2>1, <4>1, <4>2, <4>3
    <3>2. \E pc, h, on, t :
            CallIs(c, pc, h, on, t) /\ (pc # "newHudor" \/ (pc = call[c].pc /\ on = call[c].on))
      <4>1. CASE StopNext(c)
        BY <4>1, HandlerCall
      <4>2. CASE BeginInit(c)
        BY <4>2, HandlerCall
      <4>3. CASE Light(c) /\ ~StopNext(c) /\ ~BeginInit(c)
        BY <4>3, HandlerCall DEF Light
      <4>4. CASE Queueing(c) \/ Await(c) \/ InitWait(c) \/ ResetWait(c)
        BY <4>4, HandlerCall DEF Queueing
      <4> QED
        BY <2>1, <4>1, <4>2, <4>3, <4>4
    <3> QED
      BY <1>2, <3>1, <3>2
  <2>2. CASE NewChannels(c)
    <3>1. /\ CallIs(c, "newHudor", call[c].hudor, chans + 1, call[c].task)
          /\ chans + 1 \in Generation /\ UNCHANGED executor
      BY <2>2, HandlerCall, RoomForChannels, ReplacingFrame DEF NewChannels, goroutines
    <3>2. executor[chans + 1].pc = "none"
      BY <1>0, <3>1 DEF ExecutorsOK
    <3>3. \A d \in Client : call[d].on # chans + 1
      BY <1>0
    <3>4. ASSUME NEW d \in Client, call'[d].pc = "newHudor"
          PROVE  /\ executor'[call'[d].on].pc = "none"
                 /\ \A e \in Client : call'[e].pc = "newHudor" /\ call'[e].on = call'[d].on => d = e
      <4>1. CASE d = c
        BY <3>1, <3>2, <3>3, <4>1 DEF CallIs
      <4>2. CASE d # c
        BY <1>0, <3>1, <3>3, <3>4, <4>2 DEF CallIs, FreshHudors
      <4> QED
        BY <4>1, <4>2
    <3> QED
      BY <3>4 DEF FreshHudors
  <2>3. CASE NewHudor(c)
    <3> DEFINE g == call[c].on
    <3>1. CallIs(c, "idle", 0, 0, Closing) /\ call[c].pc = "newHudor" /\ g \in Generation
      BY <1>0, <2>3, HandlerCall DEF NewHudor, Return
    <3>2. ExecutorStep(g, executor[g].pc, "start")
      BY <2>3 DEF NewHudor, ExecutorStep
    <3>3. ExecutorIs(g, "start", executor[g].on, executor[g].task)
      BY <1>0, <3>1, <3>2, ExecutorGoto DEF ExecutorsOK, ExecutorPoints
    <3>4. ASSUME NEW d \in Client, call'[d].pc = "newHudor"
          PROVE  /\ executor'[call'[d].on].pc = "none"
                 /\ \A e \in Client : call'[e].pc = "newHudor" /\ call'[e].on = call'[d].on => d = e
      <4>1. d # c /\ call'[d] = call[d]
        BY <3>1, <3>4 DEF CallIs
      <4>2. call[d].on # g /\ call[d].on \in Generation
        BY <1>0, <3>1, <3>4, <4>1 DEF FreshHudors
      <4>3. executor'[call[d].on] = executor[call[d].on]
        BY <3>3, <4>2 DEF ExecutorIs
      <4> QED
        BY <1>0, <3>1, <3>4, <4>1, <4>3 DEF FreshHudors, CallIs
    <3> QED
      BY <3>4 DEF FreshHudors
  <2>4. CASE ResetIdle(c)
    BY <1>1, <2>4 DEF ResetIdle, goroutines
  <2> QED
    BY <1>3, <2>1, <2>2, <2>3, <2>4 DEF HandlerStep, Replacing
<1>4. ASSUME NEW h \in Generation, TaskExecutor(h)
      PROVE  FreshHudors'
  <2>1. executor[h].pc # "none" /\ UNCHANGED call
    BY <1>4 DEF TaskExecutor, ExecutorStart, ExecutorLoop, TakeName, Register, Launch, Triggered,
                Answer, ExecutorClose, ExecutorStep, handlerVars
  <2>2. \E pc, on, t : ExecutorIs(h, pc, on, t)
    BY <1>4, ExecutorMoves DEF TaskExecutor
  <2> QED
    BY <1>0, <2>1, <2>2 DEF FreshHudors, ExecutorIs
<1>5. ASSUME NEW h \in Generation, TaskDelete(h)
      PROVE  FreshHudors'
  BY <1>1, <1>5 DEF TaskDelete, DeleterLoop, Delete, DeleteThen, handlerVars
<1>6. ASSUME NEW l \in DOMAIN launches, PoolRun(l)
      PROVE  FreshHudors'
  BY <1>1, <1>6 DEF PoolRun, handlerVars
<1> QED
  BY <1>3, <1>4, <1>5, <1>6, StepCases DEF Goroutine

LEMMA NextBounded ==
  ASSUME TypeInv, HudorNext
  PROVE  InitsBounded'
<1> DEFINE now == At(Initializing)
           next == At(Initializing)'
<1>0. InitsBounded /\ chans \in Nat /\ call \in [Client -> CallState]
  BY DEF TypeInv, GlobalsOK, CallsOK, Owners
<1>a. IsFiniteSet(now) /\ Cardinality(now) \in Nat
  BY HudorTasksConstants, FS_Subset, FS_CardinalityType DEF At
<1>1. ASSUME next \subseteq now, chans' = chans
      PROVE  InitsBounded'
  <2>1. Cardinality(next) <= Cardinality(now) /\ Cardinality(next) \in Nat
    BY <1>1, <1>a, FS_Subset, FS_CardinalityType
  <2> QED
    BY <1>0, <1>a, <1>1, <2>1, HudorTasksConstants DEF InitsBounded
<1>2. ASSUME NEW c \in Client, NEW pc, NEW h, NEW on, NEW t, CallIs(c, pc, h, on, t),
             chans' = chans, pc \in Initializing => call[c].pc \in Initializing
      PROVE  InitsBounded'
  <2>1. next \subseteq now
    BY <1>2 DEF At, CallIs
  <2> QED
    BY <1>1, <1>2, <2>1
<1>3. ASSUME NEW c \in Client, HandlerStep(c)
      PROVE  InitsBounded'
  <2>1. CASE NewChannels(c)
    <3>1. CallIs(c, "newHudor", call[c].hudor, chans + 1, call[c].task)
      BY <2>1, HandlerCall
    <3>2. next = now \ {c}
      BY <3>1 DEF At, CallIs, Initializing
    <3> QED
      BY <2>1, <3>2, RoomForChannels DEF InitsBounded
  <2>2. CASE BeginInit(c)
    <3>1. \E pc, h, on, t : CallIs(c, pc, h, on, t) /\ chans' = chans
      BY <2>2, HandlerCall, LightFrame DEF Light, globals
    <3>2. next \subseteq now \cup {c}
      BY <3>1 DEF At, CallIs
    <3>3. /\ IsFiniteSet(now \cup {c})
          /\ Cardinality(now \cup {c}) <= Cardinality(now) + 1
          /\ Cardinality(now \cup {c}) \in Nat
      BY <1>a, FS_AddElement, FS_CardinalityType
    <3>4. Cardinality(next) <= Cardinality(now \cup {c}) /\ Cardinality(next) \in Nat
      BY <3>2, <3>3, FS_Subset, FS_CardinalityType
    <3>5. chans + Cardinality(now) < MaxInits
      BY <2>2 DEF BeginInit
    <3> QED
      BY <1>0, <1>a, <3>1, <3>3, <3>4, <3>5, HudorTasksConstants DEF InitsBounded
  <2>3. CASE ResetIdle(c)
    BY <1>1, <2>3 DEF ResetIdle, At
  <2>4. CASE Light(c) /\ ~BeginInit(c)
    <3>1. chans' = chans
      BY <2>4, LightFrame DEF globals
    <3> QED
      BY <1>2, <2>4, <3>1, HandlerCall DEF Light, Initializing
  <2>5. CASE Queueing(c)
    <3>1. chans' = chans
      BY <2>5, QueueingFrame DEF globals
    <3>2. \E pc, h, on, t :
            CallIs(c, pc, h, on, t) /\ (pc \in Initializing => call[c].pc \in Initializing)
      BY <2>5, HandlerCall DEF Queueing, InitClose, CloseFrom, Goto, Initializing
    <3> QED
      BY <1>2, <3>1, <3>2
  <2>6. CASE Await(c) \/ InitWait(c) \/ NewHudor(c) \/ ResetWait(c)
    <3>1. chans' = chans
      BY <2>6 DEF Await, TakeToken, InitWait, NewHudor, ResetWait, Drained, globals
    <3>2. \E pc, h, on, t :
            CallIs(c, pc, h, on, t) /\ (pc \in Initializing => call[c].pc \in Initializing)
      BY <2>6, HandlerCall DEF InitWait, Goto, Initializing
    <3> QED
      BY <1>2, <3>1, <3>2
  <2> QED
    BY <1>3, <2>1, <2>2, <2>3, <2>4, <2>5, <2>6 DEF HandlerStep, Replacing
<1>4. CASE Goroutine
  <2>1. UNCHANGED <<chans, call>>
    BY <1>4, GoroutineFrame DEF handlerVars, globals
  <2> QED
    BY <1>1, <2>1 DEF At
<1> QED
  BY <1>3, <1>4, StepCases

LEMMA HudorInitTyped == HudorInit => TypeInv
<1> SUFFICES ASSUME HudorInit PROVE TypeInv
  OBVIOUS
<1> USE HudorTasksConstants DEF HudorInit
<1>1. GlobalsOK
  <2>1. /\ chans = 0 /\ hudor = 0 /\ session = 0 /\ runCalls = 0
        /\ overlapped = FALSE /\ together = FALSE /\ closed = {}
    OBVIOUS
  <2>2. MaxInits \in Nat /\ MaxRuns \in Nat
    OBVIOUS
  <2> HIDE DEF HudorInit
  <2>3. /\ chans \in Owners /\ hudor \in 0 .. chans /\ session \in 0 .. chans
        /\ runCalls \in 0 .. MaxRuns
    BY <2>1, <2>2 DEF Owners
  <2>4. overlapped \in BOOLEAN /\ together \in BOOLEAN /\ closed \subseteq Owners
    BY <2>1, Zenon
  <2> QED
    BY <2>3, <2>4, Zenon DEF GlobalsOK
<1>2. At(Initializing) = {}
  BY DEF At, Initializing, NoCall
<1>3. InitsBounded
  BY <1>2, FS_EmptySet DEF InitsBounded
<1>4. ChannelsOK
  <2>1. <<>> \in Seq(Names) /\ 0 \in Nat /\ {} \in SUBSET Task
    OBVIOUS
  <2> QED
    BY <2>1 DEF ChannelsOK
<1>5. ExecutorsOK
  <2>1. [pc |-> "none", on |-> 0, task |-> Closing] \in ExecutorState
    BY DEF ExecutorState, ExecutorPoints, Owners, Names
  <2> QED
    BY <2>1 DEF ExecutorsOK, HasTask
<1>6. DeletersOK
  <2>1. [pc |-> "none", on |-> 0] \in DeleterState
    BY DEF DeleterState, DeleterPoints, Owners
  <2> QED
    BY <2>1 DEF DeletersOK
<1>7. LaunchesOK
  BY DEF LaunchesOK
<1>8. CallsOK
  <2>1. NoCall \in CallState
    BY DEF NoCall, CallState, ClientPoints, Owners, Names
  <2> QED
    BY <2>1 DEF CallsOK, NoCall, InRun
<1>9. FreshHudors
  BY DEF FreshHudors, NoCall
<1> QED
  BY <1>1, <1>3, <1>4, <1>5, <1>6, <1>7, <1>8, <1>9 DEF TypeInv

LEMMA HudorNextTyped == TypeInv /\ [HudorNext]_hudorVars => TypeInv'
<1>1. CASE HudorNext /\ TypeInv
  BY <1>1, NextGlobals, NextBounded, NextChannels, NextExecutors, NextDeleters, NextLaunches,
     NextCalls, NextFresh DEF TypeInv
<1>2. CASE UNCHANGED hudorVars /\ TypeInv
  <2>1. UNCHANGED <<chans, hudor, session, taskChannel, doneTaskChannel, deleteTaskChannel,
                    activeTasks, executor, deleter, launches, call, runCalls,
                    overlapped, together, closed>>
    BY <1>2 DEF hudorVars, globals, channels, goroutines, historyVars
  <2>2. At(Initializing)' = At(Initializing)
    BY <2>1 DEF At
  <2> QED
    BY <1>2, <2>1, <2>2
       DEF TypeInv, GlobalsOK, InitsBounded, ChannelsOK, ExecutorsOK, DeletersOK, LaunchesOK,
           CallsOK, FreshHudors
<1> QED
  BY <1>1, <1>2

LEMMA TypeInvAlways == HudorSpec => []TypeInv
BY HudorInitTyped, HudorNextTyped, PTL DEF HudorSpec

\* Every state of any number of handlers, tasks, loads and runs is well typed:
\* no goroutine of lib/main.go waits at a channel that was never made, and the
\* executor has a task whenever it starts one.
THEOREM HudorTypeCorrect == HudorSpec => []HudorTypeOK
<1>1. TypeInv => HudorTypeOK
  <2> SUFFICES ASSUME TypeInv PROVE HudorTypeOK
    OBVIOUS
  <2>1. chans \in Owners /\ hudor \in Owners /\ session \in Owners
    BY HudorTasksConstants DEF TypeInv, GlobalsOK, Owners
  <2> QED
    BY <2>1
       DEF TypeInv, GlobalsOK, ChannelsOK, ExecutorsOK, DeletersOK, LaunchesOK, CallsOK,
           ExecutorState, DeleterState, LaunchState, CallState, HudorTypeOK
<1> QED
  BY <1>1, TypeInvAlways, PTL

-----------------------------------------------------------------------------
(* Order: loads and resets that meet no other call *)

\* A handler that loads or closes a Hudor is alone.
LifecycleAlone ==
  \A c, d \in Client : call[c].pc \in Lifecycle /\ c # d => call[d].pc = "idle"

\* There is one Hudor, that of the newest channels, unless a load is about to
\* make it; calls are about that one, and its executor has started before
\* somebody waits for its end.
OneHudor ==
  /\ session \in {0, hudor}
  /\ At({"newHudor"}) = {} => hudor = chans
  /\ \A c \in Client :
       /\ call[c].pc \in InRun \cup {"initClose", "initWait", "stopAll", "resetWait"} =>
            call[c].hudor = chans /\ chans # 0
       /\ call[c].pc \in {"await", "newHudor"} => call[c].on = chans
       /\ call[c].pc \in {"initWait", "resetWait"} => executor[chans].pc \notin {"none", "start"}
       /\ call[c].pc = "newChannels" /\ chans # 0 => executor[chans].pc = "ended"

\* Only its executor works; the others have ended or are not made yet, and so
\* are their channels.
OneExecutor ==
  /\ \A h \in Generation :
       /\ h < chans => executor[h].pc = "ended"
       /\ h = chans /\ executor[h].pc = "none" => At({"newHudor"}) # {}
       /\ h > chans => taskChannel[h] = <<>> /\ doneTaskChannel[h] = 0
  /\ \A l \in DOMAIN launches : launches[l].on = launches[l].hudor

Drains ==
  /\ closed \subseteq Generation
  /\ \A h \in closed : Working(h) = {} /\ executor[h].pc = "ended"

Ordered == LifecycleAlone /\ OneHudor /\ OneExecutor /\ Drains

OrderInv == Orderly => Ordered

LEMMA OverlappedStays == HudorNext => (overlapped => overlapped')
<1> SUFFICES ASSUME HudorNext, overlapped PROVE overlapped'
  OBVIOUS
<1>1. ASSUME NEW c \in Client, Light(c)
      PROVE  overlapped'
  BY <1>1 DEF Light, BeginRun, BeginStop, BeginInit, BeginReset, Begin, Receive, StopWait, StopNext,
              historyVars
<1>2. ASSUME NEW c \in Client, Queueing(c)
      PROVE  overlapped'
  BY <1>2 DEF Queueing, Enqueue, InitClose, ResetClose, CloseFrom, historyVars
<1>3. ASSUME NEW c \in Client, Await(c)
      PROVE  overlapped'
  BY <1>3 DEF Await, TakeToken, historyVars
<1>4. ASSUME NEW c \in Client, Replacing(c)
      PROVE  overlapped'
  BY <1>4 DEF Replacing, ResetIdle, InitWait, NewChannels, NewHudor, ResetWait, Drained, historyVars
<1>5. CASE Goroutine
  BY <1>5, GoroutineFrame DEF handlerVars, historyVars
<1> QED
  BY <1>1, <1>2, <1>3, <1>4, <1>5, StepCases DEF HandlerStep

\* Who waits at later channels never comes back.
LEMMA StrayStays ==
  ASSUME TypeInv, HudorNext, Stray
  PROVE  Stray'
<1>0. /\ executor \in [Generation -> ExecutorState] /\ deleter \in [Generation -> DeleterState]
      /\ chans \in Nat
      /\ \A h \in Generation : /\ executor[h].on \in Nat /\ deleter[h].on \in Nat /\ h \in Nat
                               /\ executor[h].on # 0 => h <= executor[h].on /\ executor[h].on <= chans
                               /\ deleter[h].on # 0 => h <= deleter[h].on /\ deleter[h].on <= chans
  BY HudorTasksConstants DEF TypeInv, GlobalsOK, ExecutorsOK, DeletersOK, ExecutorState,
     DeleterState, Owners, Generation
<1>1. PICK g \in Generation : executor[g].on \notin {0, g} \/ deleter[g].on \notin {0, g}
  BY DEF Stray
<1>2. chans \notin {0, g}
  BY <1>0, <1>1
<1>3. executor'[g].on \in {executor[g].on, chans} /\ deleter'[g].on \in {deleter[g].on, chans}
  <2>1. ASSUME NEW c \in Client, HandlerStep(c), ~NewHudor(c)
        PROVE  UNCHANGED <<executor, deleter>>
    <3>1. CASE Light(c)
      BY <3>1, LightFrame DEF goroutines
    <3>2. CASE Queueing(c)
      BY <3>2, QueueingFrame DEF goroutines
    <3>3. CASE Await(c)
      BY <3>3 DEF Await, TakeToken, goroutines
    <3>4. CASE Replacing(c)
      BY <2>1, <3>4, ReplacingFrame
    <3> QED
      BY <2>1, <3>1, <3>2, <3>3, <3>4 DEF HandlerStep
  <2>2. ASSUME NEW c \in Client, NewHudor(c)
        PROVE  executor'[g].on = executor[g].on /\ deleter'[g].on = deleter[g].on
    <3>1. /\ executor' = [executor EXCEPT ![call[c].on].pc = "start"]
          /\ deleter' = [deleter EXCEPT ![call[c].on].pc = "loop"]
      BY <2>2 DEF NewHudor
    <3> QED
      BY <1>0, <3>1 DEF ExecutorState, DeleterState
  <2>3. ASSUME NEW h \in Generation, TaskExecutor(h)
        PROVE  executor'[g].on \in {executor[g].on, chans} /\ UNCHANGED deleter
    <3>1. UNCHANGED deleter
      BY <2>3 DEF TaskExecutor, ExecutorStart, ExecutorLoop, TakeName, Register, Launch, Triggered,
                  Answer, ExecutorClose
    <3>2. \E pc, t : \E on \in {executor[h].on, chans} : ExecutorIs(h, pc, on, t)
      BY <2>3, ExecutorMoves DEF TaskExecutor
    <3> QED
      BY <3>1, <3>2 DEF ExecutorIs
  <2>4. ASSUME NEW h \in Generation, TaskDelete(h)
        PROVE  deleter'[g].on \in {deleter[g].on, chans} /\ UNCHANGED executor
    <3>1. UNCHANGED executor
      BY <2>4 DEF TaskDelete, DeleterLoop, Delete, DeleteThen
    <3>2. \E pc : \E on \in {deleter[h].on, chans} : DeleterIs(h, pc, on)
      BY <2>4, DeleterMoves DEF TaskDelete
    <3> QED
      BY <3>1, <3>2 DEF DeleterIs
  <2>5. ASSUME NEW l \in DOMAIN launches, PoolRun(l)
        PROVE  UNCHANGED <<executor, deleter>>
    BY <2>5 DEF PoolRun
  <2> QED
    BY <2>1, <2>2, <2>3, <2>4, <2>5, StepCases DEF Goroutine
<1>4. executor'[g].on \notin {0, g} \/ deleter'[g].on \notin {0, g}
  BY <1>1, <1>2, <1>3
<1> QED
  BY <1>4 DEF Stray

LEMMA OrderlyBefore ==
  ASSUME TypeInv, HudorNext, Orderly'
  PROVE  Orderly /\ ~overlapped'
BY OverlappedStays, StrayStays DEF Orderly

\* A call that meets nobody, or whose step leaves everything as it was.
LEMMA CallOrdered ==
  ASSUME TypeInv, Ordered, NEW c \in Client, NEW pc, NEW h, NEW on, NEW t,
         CallIs(c, pc, h, on, t), UNCHANGED <<hudor, chans, executor>>,
         session' \in {session, 0},
         pc \in Lifecycle => \A d \in Client \ {c} : call[d].pc = "idle",
         pc # "idle" => \A d \in Client \ {c} : call[d].pc \notin Lifecycle,
         pc # "newHudor", call[c].pc # "newHudor",
         pc \in InRun \cup {"initClose", "initWait", "stopAll", "resetWait"} =>
           h = chans /\ chans # 0,
         pc = "await" => on = chans,
         pc \in {"initWait", "resetWait"} => executor[chans].pc \notin {"none", "start"},
         pc = "newChannels" /\ chans # 0 => executor[chans].pc = "ended"
  PROVE  LifecycleAlone' /\ OneHudor' /\ (At({"newHudor"}) # {} => At({"newHudor"})' # {})
<1>1. At({"newHudor"})' = At({"newHudor"})
  BY DEF At, CallIs
<1>2. LifecycleAlone'
  BY DEF Ordered, LifecycleAlone, CallIs, Lifecycle, Initializing
<1>3. ASSUME NEW d \in Client
      PROVE  /\ call'[d].pc \in InRun \cup {"initClose", "initWait", "stopAll", "resetWait"} =>
                  call'[d].hudor = chans /\ chans # 0
             /\ call'[d].pc \in {"await", "newHudor"} => call'[d].on = chans
             /\ call'[d].pc \in {"initWait", "resetWait"} =>
                  executor[chans].pc \notin {"none", "start"}
             /\ call'[d].pc = "newChannels" /\ chans # 0 => executor[chans].pc = "ended"
  <2>1. CASE d = c
    BY <2>1 DEF CallIs
  <2>2. CASE d # c
    BY <2>2 DEF Ordered, OneHudor, CallIs
  <2> QED
    BY <2>1, <2>2
<1> QED
  BY <1>1, <1>2, <1>3 DEF Ordered, OneHudor

LEMMA OneExecutorStays ==
  ASSUME OneExecutor, UNCHANGED <<chans, doneTaskChannel, executor, launches>>,
         \A g \in Generation : g > chans => taskChannel'[g] = taskChannel[g],
         At({"newHudor"}) # {} => At({"newHudor"})' # {}
  PROVE  OneExecutor'
BY DEF OneExecutor

LEMMA DrainsStays == Drains /\ UNCHANGED <<closed, executor, launches>> => Drains'
BY DEF Drains, Working

LEMMA LightOrdered ==
  ASSUME TypeInv, Ordered, NEW c \in Client, Light(c), ~overlapped'
  PROVE  Ordered'
<1>1. UNCHANGED <<chans, hudor, session, taskChannel, doneTaskChannel, executor, launches, closed>>
  BY LightFrame DEF globals, channels, goroutines
<1>2. \A g \in Generation : taskChannel'[g] = taskChannel[g]
  BY <1>1
<1>3. SUFFICES LifecycleAlone' /\ OneHudor' /\ (At({"newHudor"}) # {} => At({"newHudor"})' # {})
  BY <1>1, <1>2, OneExecutorStays, DrainsStays DEF Ordered
<1> USE DEF Lifecycle, Initializing, InRun
<1>4. ASSUME NEW to \in ClientPoints \ {"idle", "newHudor", "await", "initWait", "resetWait"},
             NEW h, NEW t, NEW todo, Begin(c, to, h, t, todo), CallIs(c, to, h, 0, t),
             to \in InRun \cup {"initClose", "stopAll"} => h = chans /\ chans # 0,
             to = "newChannels" => chans = 0
      PROVE  LifecycleAlone' /\ OneHudor' /\ (At({"newHudor"}) # {} => At({"newHudor"})' # {})
  <2>1. /\ call[c].pc = "idle"
        /\ \A d \in Client : call[d].pc # "idle" => to \notin Lifecycle /\ call[d].pc \notin Lifecycle
    BY <1>4 DEF Begin, At, ClientPoints, TypeInv, CallsOK, CallState
  <2> QED
    BY <1>1, <1>4, <2>1, CallOrdered
<1>5. ASSUME NEW to, NEW h, NEW t, NEW todo, Begin(c, to, h, t, todo)
      PROVE  hudor = chans
  <2>1. \A d \in Client : call[d].pc # "newHudor"
    BY <1>5 DEF Begin, At, ClientPoints
  <2> QED
    BY <2>1 DEF Ordered, OneHudor, At
<1>6. CASE \E t \in Task : BeginRun(c, t)
  <2>1. PICK t \in Task : BeginRun(c, t)
    BY <1>6
  <2>2. Begin(c, "enqueue", session, t, {}) /\ CallIs(c, "enqueue", session, 0, t) /\ session # 0
    BY <2>1, HandlerCall DEF BeginRun
  <2>3. session = chans
    BY <1>5, <2>2 DEF Ordered, OneHudor
  <2> QED
    BY <1>4, <2>2, <2>3 DEF ClientPoints
<1>7. CASE \E t \in Task : BeginStop(c, t)
  <2>1. PICK t \in Task : BeginStop(c, t)
    BY <1>7
  <2>2. Begin(c, "stopWait", session, t, {}) /\ CallIs(c, "stopWait", session, 0, t)
    BY <2>1, HandlerCall DEF BeginStop
  <2> QED
    BY <1>4, <2>2 DEF ClientPoints
<1>8. CASE BeginInit(c)
  <2> DEFINE to == IF hudor = 0 THEN "newChannels" ELSE "initClose"
  <2>1. Begin(c, to, hudor, Closing, {}) /\ CallIs(c, to, hudor, 0, Closing)
    BY <1>8, HandlerCall DEF BeginInit
  <2>2. hudor = chans
    BY <1>5, <2>1
  <2>3. CASE hudor = 0
    BY <1>4, <2>1, <2>2, <2>3 DEF ClientPoints
  <2>4. CASE hudor # 0
    BY <1>4, <2>1, <2>2, <2>4 DEF ClientPoints
  <2> QED
    BY <2>3, <2>4
<1>9. CASE BeginReset(c)
  <2>1. /\ Begin(c, "stopAll", session, Closing, activeTasks[session])
        /\ CallIs(c, "stopAll", session, 0, Closing) /\ session # 0
    BY <1>9, HandlerCall DEF BeginReset
  <2>2. session = chans
    BY <1>5, <2>1 DEF Ordered, OneHudor
  <2> QED
    BY <1>4, <2>1, <2>2 DEF ClientPoints
<1>10. CASE Receive(c)
  <2>1. CallIs(c, "await", call[c].hudor, chans, call[c].task) /\ call[c].pc = "receive"
    BY <1>10, HandlerCall DEF Receive
  <2>2. call[c].hudor = chans /\ chans # 0
    BY <2>1 DEF Ordered, OneHudor
  <2>3. \A d \in Client \ {c} : call[d].pc \notin Lifecycle
    BY <2>1 DEF Ordered, LifecycleAlone
  <2> QED
    BY <1>1, <2>1, <2>2, <2>3, CallOrdered
<1>11. CASE StopWait(c)
  <2>1. CallIs(c, "idle", 0, 0, Closing) /\ call[c].pc = "stopWait"
    BY <1>11, HandlerCall DEF StopWait, Return
  <2> QED
    BY <1>1, <2>1, CallOrdered
<1>12. CASE StopNext(c)
  <2>1. /\ CallIs(c, "stopAll", call[c].hudor, call[c].on, call[c].task)
        /\ call[c].pc = "stopAll"
    BY <1>12, HandlerCall DEF StopNext
  <2>2. call[c].hudor = chans /\ chans # 0
    BY <2>1 DEF Ordered, OneHudor
  <2>3. \A d \in Client \ {c} : call[d].pc = "idle"
    BY <2>1 DEF Ordered, LifecycleAlone
  <2> QED
    BY <1>1, <2>1, <2>2, <2>3, CallOrdered
<1> QED
  BY <1>6, <1>7, <1>8, <1>9, <1>10, <1>11, <1>12 DEF Light

LEMMA QueueingOrdered ==
  ASSUME TypeInv, Ordered, NEW c \in Client, Queueing(c), ~overlapped'
  PROVE  Ordered'
<1>1. UNCHANGED <<chans, hudor, session, doneTaskChannel, executor, launches, closed>>
  BY QueueingFrame DEF globals, goroutines
<1>2. ASSUME NEW g \in Generation, g > chans
      PROVE  taskChannel'[g] = taskChannel[g]
  <2>1. chans # g
    BY <1>2 DEF TypeInv, GlobalsOK, Owners
  <2>2. taskChannel \in [Generation -> Seq(Names)]
    BY DEF TypeInv, ChannelsOK
  <2>3. taskChannel' = Push(taskChannel, chans, IF call[c].pc = "enqueue" THEN call[c].task ELSE Closing)
    BY QueueingFrame
  <2> QED
    BY <2>1, <2>2, <2>3 DEF Push
<1>3. SUFFICES LifecycleAlone' /\ OneHudor' /\ (At({"newHudor"}) # {} => At({"newHudor"})' # {})
  BY <1>1, <1>2, OneExecutorStays, DrainsStays DEF Ordered
<1> USE DEF Lifecycle, Initializing, InRun
<1>4. CASE Enqueue(c)
  <2>1. CallIs(c, "receive", call[c].hudor, call[c].on, call[c].task) /\ call[c].pc = "enqueue"
    BY <1>4, HandlerCall DEF Enqueue, Goto
  <2>2. call[c].hudor = chans /\ chans # 0
    BY <2>1 DEF Ordered, OneHudor
  <2>3. \A d \in Client \ {c} : call[d].pc \notin Lifecycle
    BY <2>1 DEF Ordered, LifecycleAlone
  <2> QED
    BY <1>1, <2>1, <2>2, <2>3, CallOrdered
<1>5. CASE InitClose(c) \/ ResetClose(c)
  <2>1. PICK to \in {"initWait", "resetWait"} :
          /\ CallIs(c, to, call[c].hudor, call[c].on, call[c].task)
          /\ call[c].pc \in {"initClose", "stopAll"} /\ executor[call[c].hudor].pc # "start"
    BY <1>5, HandlerCall DEF InitClose, ResetClose, CloseFrom, Goto
  <2>2. call[c].hudor = chans /\ chans # 0
    BY <2>1 DEF Ordered, OneHudor
  <2>3. \A d \in Client \ {c} : call[d].pc = "idle"
    BY <2>1 DEF Ordered, LifecycleAlone
  <2>4. chans \in Generation
    BY <2>2, HudorTasksConstants DEF TypeInv, GlobalsOK, Owners, Generation
  <2>5. executor[chans].pc # "none"
    BY <2>1, <2>3, <2>4 DEF Ordered, OneExecutor, At
  <2> QED
    BY <1>1, <2>1, <2>2, <2>3, <2>5, CallOrdered
<1> QED
  BY <1>4, <1>5 DEF Queueing

LEMMA AwaitOrdered ==
  ASSUME TypeInv, Ordered, NEW c \in Client, Await(c)
  PROVE  Ordered'
<1>1. UNCHANGED <<chans, hudor, session, taskChannel, executor, launches, closed>>
  BY DEF Await, TakeToken, globals, goroutines, historyVars
<1>2. CallIs(c, "idle", 0, 0, Closing) /\ call[c].pc = "await" /\ call[c].on = chans
  BY HandlerCall DEF Await, Return, Ordered, OneHudor
<1>3. LifecycleAlone' /\ OneHudor' /\ (At({"newHudor"}) # {} => At({"newHudor"})' # {})
  BY <1>1, <1>2, CallOrdered DEF InRun, Lifecycle, Initializing
<1>4. \A g \in Generation : g > chans => doneTaskChannel'[g] = doneTaskChannel[g]
  BY <1>2 DEF Await, TakeToken, TypeInv, GlobalsOK, ChannelsOK, Owners
<1>5. OneExecutor'
  BY <1>1, <1>3, <1>4 DEF Ordered, OneExecutor
<1> QED
  BY <1>1, <1>3, <1>5, DrainsStays DEF Ordered

LEMMA WaitedFor ==
  ASSUME TypeInv, NEW h \in Generation, WG(h) = 0, executor[h].pc \notin {"none", "start"}
  PROVE  Working(h) = {} /\ executor[h].pc = "ended"
<1>1. IsFiniteSet(Working(h))
  <2>1. launches \in Seq(LaunchState)
    BY DEF TypeInv, LaunchesOK
  <2>2. Len(launches) \in Nat /\ DOMAIN launches = 1 .. Len(launches)
    BY <2>1
  <2>3. IsFiniteSet(DOMAIN launches)
    BY <2>2, FS_Interval
  <2> QED
    BY <2>3, FS_Subset DEF Working
<1>2. Cardinality(Working(h)) \in Nat
  BY <1>1, FS_CardinalityType
<1>3. Cardinality(Working(h)) = 0 /\ executor[h].pc = "ended"
  BY <1>2 DEF WG
<1> QED
  BY <1>1, <1>3, FS_EmptySet

\* Loads and resets: only a new Hudor changes what the goroutines do.
LEMMA ReplacingOrdered ==
  ASSUME TypeInv, Ordered, NEW c \in Client, Replacing(c), ~overlapped'
  PROVE  Ordered'
<1> USE DEF Lifecycle, Initializing, InRun
<1>0. /\ UNCHANGED <<taskChannel, doneTaskChannel, launches>>
      /\ ~NewHudor(c) => executor' = executor
      /\ ~NewChannels(c) => chans' = chans
  BY ReplacingFrame DEF channels
<1>1. CASE ResetIdle(c)
  <2>1. UNCHANGED <<chans, hudor, executor, launches, closed, call>> /\ session' = 0
    BY <1>1 DEF ResetIdle, goroutines
  <2>2. LifecycleAlone' /\ OneHudor' /\ At({"newHudor"})' = At({"newHudor"})
    BY <2>1 DEF Ordered, LifecycleAlone, OneHudor, At
  <2> QED
    BY <1>0, <2>1, <2>2, OneExecutorStays, DrainsStays DEF Ordered
<1>2. CASE InitWait(c) \/ ResetWait(c)
  <2>1. /\ call[c].pc \in {"initWait", "resetWait"} /\ WG(call[c].hudor) = 0
        /\ UNCHANGED <<chans, hudor, executor, launches>> /\ session' \in {session, 0}
        /\ closed' = closed \cup {call[c].hudor}
    BY <1>2 DEF InitWait, ResetWait, Goto, Return, Drained, goroutines
  <2>2. call[c].hudor = chans /\ chans \in Generation /\ executor[chans].pc \notin {"none", "start"}
    BY <2>1, HudorTasksConstants DEF Ordered, OneHudor, TypeInv, GlobalsOK, Owners, Generation
  <2>3. Working(chans) = {} /\ executor[chans].pc = "ended"
    BY <2>1, <2>2, WaitedFor
  <2>4. \A d \in Client \ {c} : call[d].pc = "idle"
    BY <2>1 DEF Ordered, LifecycleAlone
  <2>5. \/ CallIs(c, "newChannels", call[c].hudor, call[c].on, call[c].task)
        \/ CallIs(c, "idle", 0, 0, Closing)
    BY <1>2, HandlerCall
  <2>6. LifecycleAlone' /\ OneHudor' /\ (At({"newHudor"}) # {} => At({"newHudor"})' # {})
    BY <2>1, <2>3, <2>4, <2>5, CallOrdered
  <2>7. OneExecutor'
    BY <1>0, <2>1, <2>6, OneExecutorStays DEF Ordered
  <2>8. Drains'
    BY <2>1, <2>2, <2>3 DEF Ordered, Drains, Working
  <2> QED
    BY <2>6, <2>7, <2>8 DEF Ordered
<1>3. CASE NewChannels(c)
  <2>1. /\ call[c].pc = "newChannels" /\ UNCHANGED <<hudor, session, executor, launches, closed>>
        /\ CallIs(c, "newHudor", call[c].hudor, chans + 1, call[c].task)
    BY <1>3, HandlerCall DEF NewChannels, goroutines, historyVars
  <2>0. chans \in Nat
    BY DEF TypeInv, GlobalsOK, Owners
  <2>2. chans' = chans + 1 /\ chans' \in Generation /\ chans \in Nat
    BY <1>3, <2>0, RoomForChannels
  <2>3. \A d \in Client \ {c} : call[d].pc = "idle"
    BY <2>1 DEF Ordered, LifecycleAlone
  <2>4. c \in At({"newHudor"})'
    BY <2>1 DEF At, CallIs
  <2>5. LifecycleAlone'
    BY <2>1, <2>3 DEF LifecycleAlone, CallIs
  <2>6. OneHudor'
    <3>1. call'[c].pc = "newHudor" /\ call'[c].on = chans'
      BY <2>1, <2>2 DEF CallIs
    <3>2. \A d \in Client \ {c} : call'[d].pc = "idle"
      BY <2>1, <2>3 DEF CallIs
    <3>3. session' \in {0, hudor'}
      BY <2>1 DEF Ordered, OneHudor
    <3> QED
      BY <2>4, <3>1, <3>2, <3>3 DEF OneHudor
  <2>7. chans # 0 => executor[chans].pc = "ended"
    BY <2>1 DEF Ordered, OneHudor
  <2>8. ASSUME NEW g \in Generation
        PROVE  /\ g < chans' => executor'[g].pc = "ended"
               /\ g > chans' => taskChannel'[g] = <<>> /\ doneTaskChannel'[g] = 0
    <3>1. g < chans' => g < chans \/ (g = chans /\ chans # 0)
      BY <2>2 DEF Generation
    <3>2. g > chans' => g > chans
      BY <2>2 DEF Generation
    <3> QED
      BY <1>0, <2>1, <2>7, <3>1, <3>2 DEF Ordered, OneExecutor
  <2>9. OneExecutor'
    BY <1>0, <2>4, <2>8 DEF Ordered, OneExecutor
  <2> QED
    BY <2>1, <2>5, <2>6, <2>9, DrainsStays DEF Ordered
<1>4. CASE NewHudor(c)
  <2>1. /\ call[c].pc = "newHudor" /\ hudor' = call[c].on /\ session' = call[c].on
        /\ executor' = [executor EXCEPT ![call[c].on].pc = "start"]
        /\ UNCHANGED <<chans, launches, closed>> /\ CallIs(c, "idle", 0, 0, Closing)
    BY <1>4, HandlerCall DEF NewHudor, Return, historyVars
  <2>2. call[c].on = chans /\ chans \in Generation /\ executor[chans].pc = "none"
    BY <2>1, HudorTasksConstants
       DEF Ordered, OneHudor, TypeInv, CallsOK, GlobalsOK, FreshHudors, Owners, Generation
  <2>3. \A d \in Client : call'[d].pc = "idle"
    BY <2>1 DEF Ordered, LifecycleAlone, CallIs
  <2>4. ExecutorIs(chans, "start", executor[chans].on, executor[chans].task)
    BY <2>1, <2>2, ExecutorGoto DEF TypeInv, ExecutorsOK, ExecutorPoints, ExecutorStep
  <2>5. LifecycleAlone' /\ OneHudor'
    BY <2>1, <2>2, <2>3 DEF LifecycleAlone, OneHudor
  <2>6. OneExecutor'
    <3>1. \A g \in Generation \ {chans} : executor'[g] = executor[g]
      BY <2>4 DEF ExecutorIs
    <3>2. executor'[chans].pc = "start" /\ chans' = chans /\ chans \in Nat
      BY <2>1, <2>4 DEF ExecutorIs, TypeInv, GlobalsOK, Owners
    <3>3. ASSUME NEW g \in Generation
          PROVE  /\ g < chans' => executor'[g].pc = "ended"
                 /\ g = chans' => executor'[g].pc # "none"
                 /\ g > chans' => taskChannel'[g] = <<>> /\ doneTaskChannel'[g] = 0
      <4>1. g < chans => g # chans
        BY <3>2 DEF Generation
      <4> QED
        BY <1>0, <3>1, <3>2, <4>1 DEF Ordered, OneExecutor
    <3> QED
      BY <2>1, <3>3 DEF Ordered, OneExecutor
  <2>7. Drains'
    <3>1. chans \notin closed
      BY <2>2 DEF Ordered, Drains
    <3>2. \A h \in closed : h \in Generation \ {chans} /\ Working(h) = {}
      BY <3>1 DEF Ordered, Drains
    <3>3. \A h \in closed : executor'[h].pc = "ended"
      BY <2>4, <3>2 DEF Ordered, Drains, ExecutorIs
    <3>4. \A h \in closed : Working(h)' = {}
      BY <2>1, <3>2 DEF Working
    <3> QED
      BY <2>1, <3>2, <3>3, <3>4 DEF Drains
  <2> QED
    BY <2>5, <2>6, <2>7 DEF Ordered
<1> QED
  BY <1>1, <1>2, <1>3, <1>4 DEF Replacing

\* In an orderly state only the executor of the newest channels takes steps.
LEMMA ExecutorAlone ==
  ASSUME TypeInv, Ordered, ~Stray, NEW h \in Generation, TaskExecutor(h)
  PROVE  /\ h = chans /\ h \notin closed /\ executor[h].on \in {0, h}
         /\ executor[h].pc \notin {"none", "ended"}
<1>1. executor[h].pc \notin {"none", "ended"}
  BY DEF TaskExecutor, ExecutorStart, ExecutorLoop, TakeName, Register, Launch, Triggered, Answer,
         ExecutorClose, ExecutorStep
<1>2. h <= chans /\ h \in Nat /\ chans \in Nat
  BY <1>1 DEF TypeInv, ExecutorsOK, GlobalsOK, Owners, Generation
<1>3. h = chans /\ h \notin closed
  BY <1>1, <1>2 DEF Ordered, OneExecutor, Drains
<1> QED
  BY <1>1, <1>3 DEF Stray

LEMMA ExecutorOrdered ==
  ASSUME TypeInv, Ordered, ~Stray, NEW h \in Generation, TaskExecutor(h)
  PROVE  Ordered'
<1> USE DEF Lifecycle, Initializing, InRun
<1>1. UNCHANGED <<chans, hudor, session, call, closed>>
  BY GoroutineFrame DEF Goroutine, handlerVars, globals, historyVars
<1>2. h = chans /\ h \notin closed /\ executor[h].pc \notin {"none", "ended"}
  BY ExecutorAlone
<1>3. PICK pc \in ExecutorPoints : \E on, t :
        ExecutorIs(h, pc, on, t) /\ pc \notin {"none", "start"}
  BY ExecutorMoves DEF TaskExecutor, ExecutorPoints
<1>4. /\ \A g \in Generation \ {h} : executor'[g] = executor[g]
      /\ executor'[h].pc \notin {"none", "start"}
  BY <1>3 DEF ExecutorIs
<1>5. LifecycleAlone'
  BY <1>1 DEF Ordered, LifecycleAlone
<1>6. OneHudor'
  <2>1. \A c \in Client : call[c].pc = "newChannels" /\ chans # 0 => FALSE
    BY <1>2 DEF Ordered, OneHudor
  <2>2. At({"newHudor"})' = At({"newHudor"})
    BY <1>1 DEF At
  <2> QED
    BY <1>1, <1>2, <1>4, <2>1, <2>2 DEF Ordered, OneHudor
<1>7. chans \in Nat /\ \A g \in Generation : g \in Nat
  BY DEF TypeInv, GlobalsOK, Owners, Generation
<1>8. \A g \in Generation : g > chans => taskChannel'[g] = <<>> /\ doneTaskChannel'[g] = 0
  <2>1. \A g \in Generation : g > chans => g # h
    BY <1>2, <1>7
  <2>2. ASSUME TakeName(h), NEW g \in Generation, g # h
        PROVE  taskChannel'[g] = taskChannel[g] /\ doneTaskChannel'[g] = doneTaskChannel[g]
    <3>1. executor[h].on = h
      <4>1. executor[h].on \in Generation /\ executor[h].on \in {0, h}
        BY <2>2, ExecutorMoves, ExecutorAlone
      <4> QED
        BY <4>1, HudorTasksConstants DEF Generation
    <3> QED
      BY <2>2, <3>1 DEF TakeName, TypeInv, ChannelsOK
  <2>3. ASSUME Answer(h), NEW g \in Generation, g # h
        PROVE  taskChannel'[g] = taskChannel[g] /\ doneTaskChannel'[g] = doneTaskChannel[g]
    BY <1>2, <2>3 DEF Answer, TypeInv, ChannelsOK
  <2>4. TakeName(h) \/ Answer(h) \/ UNCHANGED <<taskChannel, doneTaskChannel>>
    BY DEF TaskExecutor, ExecutorStart, ExecutorLoop, Register, Launch, Triggered, ExecutorClose,
           channels
  <2> QED
    BY <2>1, <2>2, <2>3, <2>4 DEF Ordered, OneExecutor
<1>9. CASE Launch(h)
  <2>1. launches' = Append(launches, [hudor |-> h, task |-> executor[h].task, on |-> chans,
                                      pc |-> "start"])
    BY <1>9 DEF Launch
  <2>2. launches \in Seq(LaunchState)
    BY DEF TypeInv, LaunchesOK
  <2>3. /\ DOMAIN launches' = DOMAIN launches \cup {Len(launches) + 1}
        /\ \A l \in DOMAIN launches : launches'[l] = launches[l]
        /\ launches'[Len(launches) + 1].on = h /\ launches'[Len(launches) + 1].hudor = h
        /\ launches'[Len(launches) + 1].pc = "start"
    BY <1>2, <2>1, <2>2
  <2>4. \A l \in DOMAIN launches' : launches'[l].on = launches'[l].hudor
    BY <2>3 DEF Ordered, OneExecutor
  <2>5. OneExecutor'
    BY <1>1, <1>2, <1>4, <1>7, <1>8, <2>4 DEF Ordered, OneExecutor
  <2>6. \A g \in Generation : Working(g)' = Working(g)
    BY <2>3 DEF Working
  <2>7. Drains'
    BY <1>1, <1>2, <1>4, <2>6 DEF Ordered, Drains
  <2> QED
    BY <1>5, <1>6, <2>5, <2>7 DEF Ordered
<1>10. CASE UNCHANGED launches
  <2>1. OneExecutor'
    BY <1>1, <1>2, <1>4, <1>7, <1>8, <1>10 DEF Ordered, OneExecutor
  <2>2. \A g \in Generation : Working(g)' = Working(g)
    BY <1>10 DEF Working
  <2>3. Drains'
    BY <1>1, <1>2, <1>4, <2>2 DEF Ordered, Drains
  <2> QED
    BY <1>5, <1>6, <2>1, <2>3 DEF Ordered
<1>11. Launch(h) \/ UNCHANGED launches
  BY DEF TaskExecutor, ExecutorStart, ExecutorLoop, TakeName, Register, Triggered, Answer,
         ExecutorClose
<1> QED
  BY <1>9, <1>10, <1>11

LEMMA DeleterOrdered ==
  ASSUME TypeInv, Ordered, NEW h \in Generation, TaskDelete(h)
  PROVE  Ordered'
<1>1. UNCHANGED <<chans, hudor, session, call, closed, taskChannel, doneTaskChannel, executor, launches>>
  BY DEF TaskDelete, DeleterLoop, Delete, DeleteThen, handlerVars, globals, historyVars, channels
<1> QED
  BY <1>1 DEF Ordered, LifecycleAlone, OneHudor, OneExecutor, Drains, Working, At

\* What a run of a pool does to its record.
LEMMA LaunchMoves ==
  ASSUME TypeInv, NEW l \in DOMAIN launches
  PROVE  /\ StartWork(l) => LaunchIs(l, "working")
         /\ FinishWork(l) => LaunchIs(l, "finished")
         /\ Announce(l) => LaunchIs(l, "ended")
<1>1. launches \in Seq(LaunchState)
  BY DEF TypeInv, LaunchesOK
<1> QED
  BY <1>1, LaunchPut DEF StartWork, FinishWork, Announce, LaunchPoints

LEMMA PoolOrdered ==
  ASSUME TypeInv, Ordered, NEW l \in DOMAIN launches, PoolRun(l)
  PROVE  Ordered'
<1>1. UNCHANGED <<chans, hudor, session, call, closed, taskChannel, doneTaskChannel, executor>>
  BY DEF PoolRun, handlerVars, globals, historyVars
<1>2. PICK pc \in LaunchPoints : /\ LaunchIs(l, pc)
                                 /\ pc = "working" => launches[l].pc = "start"
  BY LaunchMoves DEF PoolRun, StartWork, FinishWork, Announce, LaunchStep, LaunchPoints
<1>3. launches \in Seq(LaunchState)
  BY DEF TypeInv, LaunchesOK
<1>4. \A k \in DOMAIN launches' :
        /\ k \in DOMAIN launches /\ launches'[k].hudor = launches[k].hudor
        /\ launches'[k].on = launches[k].on
        /\ k # l => launches'[k].pc = launches[k].pc
  BY <1>2 DEF LaunchIs
<1>5. launches[l].pc = "start" => launches[l].hudor \notin closed
  BY DEF TypeInv, LaunchesOK, Ordered, Drains
<1>6. ASSUME NEW h \in closed
      PROVE  Working(h)' = {}
  <2>1. ASSUME NEW k \in DOMAIN launches', launches'[k].hudor = h, launches'[k].pc = "working"
        PROVE  FALSE
    <3>1. Working(h) = {}
      BY DEF Ordered, Drains
    <3>2. k # l => k \in Working(h)
      BY <1>4, <2>1 DEF Working
    <3>3. k = l => launches[l].hudor \notin closed
      BY <1>2, <1>5, <2>1 DEF LaunchIs
    <3> QED
      BY <1>4, <2>1, <3>1, <3>2, <3>3
  <2> QED
    BY <2>1 DEF Working
<1>7. Drains'
  BY <1>1, <1>6 DEF Ordered, Drains
<1>8. OneExecutor'
  BY <1>1, <1>4 DEF Ordered, OneExecutor, At
<1> QED
  BY <1>1, <1>7, <1>8 DEF Ordered, LifecycleAlone, OneHudor, At

LEMMA NextOrdered ==
  ASSUME TypeInv, OrderInv, [HudorNext]_hudorVars
  PROVE  OrderInv'
<1>1. CASE HudorNext
  <2>1. SUFFICES ASSUME Orderly' PROVE Ordered'
    BY DEF OrderInv
  <2>2. Orderly /\ ~overlapped'
    BY <1>1, <2>1, OrderlyBefore
  <2>3. Ordered /\ ~Stray
    BY <2>2 DEF OrderInv, Orderly
  <2> QED
    BY <1>1, <2>2, <2>3, StepCases, LightOrdered, QueueingOrdered, AwaitOrdered, ReplacingOrdered,
       ExecutorOrdered, DeleterOrdered, PoolOrdered DEF HandlerStep, Goroutine
<1>2. CASE UNCHANGED hudorVars
  <2>1. UNCHANGED <<chans, hudor, session, taskChannel, doneTaskChannel, executor, deleter,
                    launches, call, overlapped, closed>>
    BY <1>2 DEF hudorVars, globals, channels, goroutines, historyVars
  <2>2. Orderly' <=> Orderly
    BY <2>1 DEF Orderly, Stray
  <2>3. Ordered => Ordered'
    BY <2>1 DEF Ordered, LifecycleAlone, OneHudor, OneExecutor, Drains, Working, At
  <2> QED
    BY <2>2, <2>3 DEF OrderInv
<1> QED
  BY <1>1, <1>2

LEMMA InitOrdered == HudorInit => OrderInv
<1> SUFFICES ASSUME HudorInit PROVE Ordered
  BY DEF OrderInv
<1> USE DEF HudorInit
<1>1. \A c \in Client : call[c].pc = "idle" /\ call[c].on = 0
  BY DEF NoCall
<1>2. LifecycleAlone
  BY <1>1 DEF LifecycleAlone
<1>3. OneHudor
  BY <1>1 DEF OneHudor, InRun
<1>4. OneExecutor
  <2>1. \A g \in Generation : ~(g < 0) /\ g # 0
    BY HudorTasksConstants DEF Generation
  <2>2. chans = 0 /\ \A g \in Generation : taskChannel[g] = <<>> /\ doneTaskChannel[g] = 0
    OBVIOUS
  <2>3. DOMAIN launches = {}
    OBVIOUS
  <2> HIDE DEF HudorInit
  <2> QED
    BY <2>1, <2>2, <2>3 DEF OneExecutor
<1>5. Drains
  BY DEF Drains
<1> QED
  BY <1>2, <1>3, <1>4, <1>5 DEF Ordered

LEMMA OrderAlways == HudorSpec => [](TypeInv /\ OrderInv)
<1>1. HudorInit => TypeInv /\ OrderInv
  BY HudorInitTyped, InitOrdered
<1>2. TypeInv /\ OrderInv /\ [HudorNext]_hudorVars => (TypeInv /\ OrderInv)'
  BY HudorNextTyped, NextOrdered
<1> QED
  BY <1>1, <1>2, PTL DEF HudorSpec

\* Hudor.Close and the waiting group of lib/main.go: once Close has returned,
\* the executor of the Hudor is gone and no producer of it works, nor will one
\* start, however many Hudors and runs there have been, as long as loads and
\* resets meet no other call.
THEOREM CloseDrainsCorrect == HudorSpec => []CloseDrains
<1>1. OrderInv => CloseDrains
  BY DEF OrderInv, Ordered, Drains, CloseDrains
<1> QED
  BY <1>1, OrderAlways, PTL

-----------------------------------------------------------------------------
(* One run of a task at a time, as long as one handler is in Run at a time *)

Waiting == At({"receive", "await"})

\* Places of tasks in the channels of a Hudor, and its launches that last.
Queued(h) == {i \in DOMAIN taskChannel[h] : taskChannel[h][i] \in Task}
Leaving(h) == {i \in DOMAIN deleteTaskChannel[h] : deleteTaskChannel[h][i] \in Task}
Live(h) == {l \in DOMAIN launches : launches[l].hudor = h /\ launches[l].pc # "ended"}

Busy(h) == executor[h].pc \in HasTask
Free(h) == Queued(h) = {} /\ ~Busy(h) /\ doneTaskChannel[h] = 0

\* A task is queued, or with the executor, or answered, and only while the
\* handler that asked for it waits.
OneName(h) ==
  /\ \A i, j \in Queued(h) : i = j
  /\ Queued(h) # {} => ~Busy(h) /\ doneTaskChannel[h] = 0
  /\ Busy(h) => doneTaskChannel[h] = 0
  /\ doneTaskChannel[h] <= 1
  /\ Free(h) \/ (h = chans /\ Waiting # {})

\* A task that is about to run, runs, or has announced its end is listed; it is
\* in one of these three states, once.
LiveListed(h) ==
  \A l \in Live(h) :
    /\ launches[l].task \in activeTasks[h]
    /\ \A k \in Live(h) : launches[k].task = launches[l].task => k = l
    /\ \A i \in Leaving(h) : deleteTaskChannel[h][i] # launches[l].task
    /\ executor[h].pc = "registered" => executor[h].task # launches[l].task

LeavingListed(h) ==
  \A i \in Leaving(h) :
    /\ deleteTaskChannel[h][i] \in activeTasks[h]
    /\ \A j \in Leaving(h) : deleteTaskChannel[h][j] = deleteTaskChannel[h][i] => i = j
    /\ executor[h].pc = "registered" => executor[h].task # deleteTaskChannel[h][i]

\* A task that was asked for is not listed before it is registered.
NewListed(h) ==
  /\ executor[h].pc = "registered" => executor[h].task \in activeTasks[h]
  /\ executor[h].pc = "taken" => executor[h].task \notin activeTasks[h]
  /\ \A i \in Queued(h) : taskChannel[h][i] \notin activeTasks[h]

Listed(h) == LiveListed(h) /\ LeavingListed(h) /\ NewListed(h)

\* One handler is in Run, and what it asks for is not listed.
OneInRun ==
  /\ \A c, d \in At(InRun) : c = d
  /\ \A c \in At({"enqueue"}) : call[c].task \in Task \ activeTasks[chans]

Alone == OneInRun /\ \A h \in Generation : OneName(h) /\ Listed(h)

AloneInv == Orderly /\ ~together => Alone

LEMMA SameName ==
  ASSUME NEW h \in Generation, OneName(h),
         taskChannel'[h] = taskChannel[h], doneTaskChannel'[h] = doneTaskChannel[h],
         executor'[h].pc \in HasTask <=> executor[h].pc \in HasTask,
         Free(h) \/ (h = chans' /\ Waiting' # {})
  PROVE  OneName(h)'
<1>1. Queued(h)' = Queued(h) /\ (Busy(h)' <=> Busy(h))
  BY DEF Queued, Busy
<1>2. Free(h)' <=> Free(h)
  BY <1>1 DEF Free
<1> QED
  BY <1>1, <1>2 DEF OneName

LEMMA SameListed ==
  ASSUME NEW h \in Generation, Listed(h), UNCHANGED launches,
         taskChannel'[h] = taskChannel[h], deleteTaskChannel'[h] = deleteTaskChannel[h],
         activeTasks'[h] = activeTasks[h],
         executor'[h].pc \in {"registered", "taken"} => executor'[h] = executor[h]
  PROVE  Listed(h)'
<1>1. Queued(h)' = Queued(h) /\ Leaving(h)' = Leaving(h) /\ Live(h)' = Live(h)
  BY DEF Queued, Leaving, Live
<1> QED
  BY <1>1 DEF Listed, LiveListed, LeavingListed, NewListed

LEMMA TogetherStays == HudorNext => (together => together')
<1> SUFFICES ASSUME HudorNext, together PROVE together'
  OBVIOUS
<1>1. ASSUME NEW c \in Client, Light(c)
      PROVE  together'
  BY <1>1 DEF Light, BeginRun, BeginStop, BeginInit, BeginReset, Receive, StopWait, StopNext,
              historyVars
<1>2. ASSUME NEW c \in Client, Await(c)
      PROVE  together'
  BY <1>2 DEF Await, TakeToken, historyVars
<1>3. CASE Goroutine
  BY <1>3, GoroutineFrame DEF handlerVars, historyVars
<1> QED
  BY <1>1, <1>2, <1>3, StepCases, QueueingFrame, ReplacingFrame DEF HandlerStep

\* A call that is not in Run changes nothing of this.
LEMMA CallAlone ==
  ASSUME Alone, NEW c \in Client, NEW pc, NEW h, NEW on, NEW t, CallIs(c, pc, h, on, t),
         pc \notin InRun, call[c].pc \notin InRun,
         UNCHANGED <<chans, channels, activeTasks, executor, launches>>
  PROVE  Alone'
<1>1. At(InRun)' = At(InRun) /\ Waiting' = Waiting /\ At({"enqueue"})' = At({"enqueue"})
  BY DEF At, Waiting, CallIs, InRun
<1>2. \A d \in At({"enqueue"}) : call'[d] = call[d]
  BY DEF At, CallIs, InRun
<1>3. OneInRun'
  BY <1>1, <1>2 DEF Alone, OneInRun
<1>4. ASSUME NEW g \in Generation
      PROVE  OneName(g)' /\ Listed(g)'
  <2>1. OneName(g) /\ Listed(g) /\ UNCHANGED <<taskChannel, doneTaskChannel, deleteTaskChannel>>
    BY DEF Alone, channels
  <2>2. Free(g) \/ (g = chans' /\ Waiting' # {})
    BY <1>1, <2>1 DEF OneName
  <2> QED
    BY <2>1, <2>2, SameName, SameListed
<1> QED
  BY <1>3, <1>4 DEF Alone

LEMMA LightAlone ==
  ASSUME TypeInv, Ordered, Alone, NEW c \in Client, Light(c), ~overlapped', ~together'
  PROVE  Alone'
<1> USE DEF InRun
<1>1. UNCHANGED <<chans, taskChannel, doneTaskChannel, deleteTaskChannel, activeTasks, executor, launches>>
  BY LightFrame DEF globals, channels, goroutines
<1>2. CASE \E t \in Task : BeginRun(c, t)
  <2>1. PICK t \in Task : BeginRun(c, t)
    BY <1>2
  <2>2. /\ CallIs(c, "enqueue", session, 0, t) /\ call[c].pc = "idle"
        /\ session # 0 /\ t \notin activeTasks[session] /\ At(InRun) = {}
    BY <2>1, HandlerCall DEF BeginRun, Begin
  <2>3. session = chans
    <3>1. \A d \in Client : call[d].pc # "newHudor"
      BY <2>1 DEF BeginRun, Begin, At, ClientPoints, Lifecycle
    <3> QED
      BY <2>2, <3>1 DEF Ordered, OneHudor, At
  <2>4. At(InRun)' = {c} /\ Waiting' = {} /\ Waiting = {}
    BY <2>2 DEF At, Waiting, CallIs
  <2>5. OneInRun'
    <3>1. At({"enqueue"})' \subseteq {c} /\ call'[c].task = t /\ t \in Task \ activeTasks'[chans']
      BY <1>1, <2>2, <2>3, <2>4 DEF At, CallIs
    <3> QED
      BY <2>4, <3>1 DEF OneInRun
  <2>6. ASSUME NEW g \in Generation
        PROVE  OneName(g)' /\ Listed(g)'
    <3>1. OneName(g) /\ Listed(g)
      BY DEF Alone
    <3>2. Free(g)
      BY <2>4, <3>1 DEF OneName
    <3> QED
      BY <1>1, <3>1, <3>2, SameName, SameListed
  <2> QED
    BY <2>5, <2>6 DEF Alone
<1>3. CASE Receive(c)
  <2>1. CallIs(c, "await", call[c].hudor, chans, call[c].task) /\ call[c].pc = "receive"
    BY <1>3, HandlerCall DEF Receive
  <2>2. At(InRun)' = At(InRun) /\ Waiting' = Waiting /\ At({"enqueue"})' = At({"enqueue"})
    BY <2>1 DEF At, Waiting, CallIs
  <2>3. \A d \in At({"enqueue"}) : call'[d] = call[d]
    BY <2>1 DEF At, CallIs
  <2>4. OneInRun'
    BY <1>1, <2>2, <2>3 DEF Alone, OneInRun
  <2>5. ASSUME NEW g \in Generation
        PROVE  OneName(g)' /\ Listed(g)'
    <3>1. OneName(g) /\ Listed(g)
      BY DEF Alone
    <3>2. Free(g) \/ (g = chans' /\ Waiting' # {})
      BY <1>1, <2>2, <3>1 DEF OneName
    <3> QED
      BY <1>1, <3>1, <3>2, SameName, SameListed
  <2> QED
    BY <2>4, <2>5 DEF Alone
<1>4. CASE \/ \E t \in Task : BeginStop(c, t)
           \/ BeginInit(c) \/ BeginReset(c) \/ StopWait(c) \/ StopNext(c)
  <2>1. \E pc, h, on, t : /\ CallIs(c, pc, h, on, t)
                          /\ pc \notin InRun /\ call[c].pc \notin InRun
    BY <1>4, HandlerCall DEF BeginStop, BeginInit, BeginReset, Begin, StopWait, StopNext, Return
  <2> QED
    BY <1>1, <2>1, CallAlone DEF channels
<1> QED
  BY <1>2, <1>3, <1>4 DEF Light

LEMMA QueuedPush ==
  ASSUME ChannelsOK, NEW g \in Generation, NEW x \in Names, taskChannel' = Push(taskChannel, g, x)
  PROVE  LET n == Len(taskChannel[g]) + 1
         IN  /\ n \notin DOMAIN taskChannel[g] /\ taskChannel'[g][n] = x
             /\ \A i \in DOMAIN taskChannel[g] : taskChannel'[g][i] = taskChannel[g][i]
             /\ Queued(g)' = Queued(g) \cup (IF x \in Task THEN {n} ELSE {})
             /\ \A h \in Generation \ {g} : taskChannel'[h] = taskChannel[h]
<1>1. taskChannel \in [Generation -> Seq(Names)] /\ taskChannel[g] \in Seq(Names)
  BY DEF ChannelsOK
<1>2. /\ taskChannel'[g] = Append(taskChannel[g], x)
      /\ \A h \in Generation \ {g} : taskChannel'[h] = taskChannel[h]
  BY <1>1, PushTyped
<1> DEFINE s == taskChannel[g]
           n == Len(taskChannel[g]) + 1
<1>3. /\ DOMAIN Append(s, x) = DOMAIN s \cup {n} /\ n \notin DOMAIN s /\ Append(s, x)[n] = x
      /\ \A i \in DOMAIN s : Append(s, x)[i] = s[i]
  BY <1>1
<1>4. Queued(g)' = {i \in DOMAIN Append(s, x) : Append(s, x)[i] \in Task}
  BY <1>2 DEF Queued
<1> QED
  BY <1>2, <1>3, <1>4 DEF Queued

LEMMA QueueingAlone ==
  ASSUME TypeInv, Ordered, Alone, NEW c \in Client, Queueing(c)
  PROVE  Alone'
<1> USE DEF InRun
<1>1. UNCHANGED <<chans, doneTaskChannel, deleteTaskChannel, activeTasks, executor, launches>>
  BY QueueingFrame DEF globals, goroutines
<1>2. ChannelsOK /\ call[c].pc \in {"enqueue", "initClose", "stopAll"} /\ call[c].task \in Names
  BY DEF Queueing, Enqueue, InitClose, ResetClose, CloseFrom, Goto, TypeInv, CallsOK, CallState
<1> DEFINE x == IF call[c].pc = "enqueue" THEN call[c].task ELSE Closing
<1>3. taskChannel' = Push(taskChannel, chans, x) /\ x \in Names
  BY <1>2, QueueingFrame DEF Names
<1>4. chans \in Generation
  BY <1>2, HudorTasksConstants DEF Ordered, OneHudor, TypeInv, GlobalsOK, Owners, Generation
<1> DEFINE n == Len(taskChannel[chans]) + 1
<1> HIDE DEF x, n
<1>5. /\ n \notin DOMAIN taskChannel[chans] /\ taskChannel'[chans][n] = x
      /\ \A i \in DOMAIN taskChannel[chans] : taskChannel'[chans][i] = taskChannel[chans][i]
      /\ Queued(chans)' = Queued(chans) \cup (IF x \in Task THEN {n} ELSE {})
      /\ \A h \in Generation \ {chans} : taskChannel'[h] = taskChannel[h]
  BY <1>1, <1>2, <1>3, <1>4, QueuedPush DEF n
<1>6. ASSUME NEW g \in Generation, g # chans
      PROVE  OneName(g)' /\ Listed(g)'
  <2>1. OneName(g) /\ Listed(g) /\ taskChannel'[g] = taskChannel[g]
    BY <1>5, <1>6 DEF Alone
  <2>2. Free(g)
    BY <1>6, <2>1 DEF OneName
  <2> QED
    BY <1>1, <2>1, <2>2, SameName, SameListed
<1>7. OneName(chans) /\ Listed(chans)
  BY <1>4 DEF Alone
<1>8. /\ Leaving(chans)' = Leaving(chans) /\ Live(chans)' = Live(chans)
      /\ (Busy(chans)' <=> Busy(chans))
  BY <1>1 DEF Leaving, Live, Busy
<1>9. LiveListed(chans)' /\ LeavingListed(chans)'
  BY <1>1, <1>7, <1>8 DEF Listed, LiveListed, LeavingListed
<1>10. CASE call[c].pc = "enqueue"
  <2>1. x = call[c].task /\ x \in Task \ activeTasks[chans] /\ At(InRun) = {c} /\ Waiting = {}
    BY <1>10 DEF x, Alone, OneInRun, At, Waiting
  <2>2. Enqueue(c) /\ CallIs(c, "receive", call[c].hudor, call[c].on, call[c].task)
    BY <1>10, HandlerCall DEF Queueing, InitClose, ResetClose, CloseFrom, Goto
  <2>3. At(InRun)' = {c} /\ Waiting' = {c} /\ At({"enqueue"})' = {}
    BY <2>1, <2>2 DEF At, Waiting, CallIs
  <2>4. Free(chans)
    BY <1>7, <2>1 DEF OneName
  <2>5. OneName(chans)'
    BY <1>1, <1>5, <1>8, <2>1, <2>3, <2>4 DEF OneName, Free
  <2>6. NewListed(chans)'
    BY <1>1, <1>5, <1>7, <2>1, <2>4 DEF Listed, NewListed, Free
  <2>7. OneInRun'
    BY <2>3 DEF OneInRun
  <2> QED
    BY <1>1, <1>4, <1>6, <1>9, <2>5, <2>6, <2>7 DEF Alone, Listed
<1>11. CASE call[c].pc # "enqueue"
  <2>1. x = Closing /\ x \notin Task
    BY <1>11, HudorTasksConstants DEF x
  <2>2. PICK pc \in {"initWait", "resetWait"} : \E h, on, t : CallIs(c, pc, h, on, t)
    BY <1>11, HandlerCall DEF Queueing, Enqueue, Goto
  <2>3. /\ At(InRun)' = At(InRun) /\ Waiting' = Waiting /\ At({"enqueue"})' = At({"enqueue"})
        /\ \A d \in At({"enqueue"}) : call'[d] = call[d]
    BY <1>2, <1>11, <2>2 DEF At, Waiting, CallIs
  <2>4. Queued(chans)' = Queued(chans)
        /\ \A i \in Queued(chans) : taskChannel'[chans][i] = taskChannel[chans][i]
    BY <1>5, <2>1 DEF Queued
  <2>5. OneName(chans)'
    BY <1>1, <1>7, <1>8, <2>3, <2>4 DEF OneName, Free
  <2>6. NewListed(chans)'
    BY <1>1, <1>7, <2>4 DEF Listed, NewListed
  <2>7. OneInRun'
    BY <1>1, <2>3 DEF Alone, OneInRun
  <2> QED
    BY <1>1, <1>4, <1>6, <1>9, <2>5, <2>6, <2>7 DEF Alone, Listed
<1> QED
  BY <1>10, <1>11

LEMMA AwaitAlone ==
  ASSUME TypeInv, Ordered, Alone, NEW c \in Client, Await(c)
  PROVE  Alone'
<1> USE DEF InRun
<1>1. UNCHANGED <<chans, taskChannel, deleteTaskChannel, activeTasks, executor, launches>>
  BY DEF Await, TakeToken, globals, goroutines
<1>2. /\ CallIs(c, "idle", 0, 0, Closing) /\ call[c].pc = "await"
      /\ call[c].on = chans /\ call[c].on \in Owners /\ chans # 0
  BY HandlerCall DEF Await, Return, Ordered, OneHudor, TypeInv, CallsOK, CallState
<1>3. chans \in Generation
  BY <1>2, HudorTasksConstants DEF Owners, Generation
<1>4. /\ doneTaskChannel[chans] > 0 /\ doneTaskChannel[chans] \in Nat
      /\ doneTaskChannel'[chans] = doneTaskChannel[chans] - 1
      /\ \A g \in Generation \ {chans} : doneTaskChannel'[g] = doneTaskChannel[g]
  BY <1>2, <1>3 DEF Await, TakeToken, TypeInv, ChannelsOK
<1>5. At(InRun) = {c}
  BY <1>2 DEF Alone, OneInRun, At
<1>6. At(InRun)' = {}
  BY <1>2, <1>5 DEF At, CallIs
<1>7. OneInRun'
  <2>1. At({"enqueue"})' = {}
    BY <1>6 DEF At
  <2> QED
    BY <1>6, <2>1 DEF OneInRun
<1>8. ASSUME NEW g \in Generation
      PROVE  OneName(g)' /\ Listed(g)'
  <2>1. OneName(g) /\ Listed(g)
    BY DEF Alone
  <2>2. Listed(g)'
    BY <1>1, <2>1, SameListed
  <2>3. CASE g # chans
    <3>1. Free(g)
      BY <2>1, <2>3 DEF OneName
    <3> QED
      BY <1>1, <1>4, <2>1, <2>2, <2>3, <3>1, SameName
  <2>4. CASE g = chans
    <3>1. Queued(g) = {} /\ ~Busy(g) /\ doneTaskChannel[g] = 1
      BY <1>4, <2>1, <2>4 DEF OneName
    <3>2. Queued(g)' = Queued(g) /\ (Busy(g)' <=> Busy(g))
      BY <1>1 DEF Queued, Busy
    <3>3. Free(g)'
      BY <1>1, <1>4, <2>4, <3>1, <3>2 DEF Free
    <3>4. OneName(g)'
      BY <3>1, <3>2, <3>3 DEF OneName, Free
    <3> QED
      BY <2>2, <3>4
  <2> QED
    BY <2>3, <2>4
<1> QED
  BY <1>7, <1>8 DEF Alone

LEMMA ReplacingAlone ==
  ASSUME TypeInv, Ordered, Alone, NEW c \in Client, Replacing(c)
  PROVE  Alone'
<1> USE DEF InRun
<1>0. /\ UNCHANGED <<channels, taskChannel, doneTaskChannel, deleteTaskChannel, activeTasks, launches>>
      /\ ~NewHudor(c) => executor' = executor
      /\ ~NewChannels(c) => chans' = chans
  BY ReplacingFrame DEF channels
<1>1. CASE ResetIdle(c)
  <2>1. UNCHANGED <<chans, executor, call>>
    BY <1>1 DEF ResetIdle, goroutines
  <2>2. OneInRun'
    BY <1>0, <2>1 DEF Alone, OneInRun, At
  <2>3. Waiting' = Waiting
    BY <2>1 DEF Waiting, At
  <2>4. ASSUME NEW g \in Generation
        PROVE  OneName(g)' /\ Listed(g)'
    <3>1. OneName(g) /\ Listed(g)
      BY DEF Alone
    <3>2. Free(g) \/ (g = chans' /\ Waiting' # {})
      BY <2>1, <2>3, <3>1 DEF OneName
    <3> QED
      BY <1>0, <2>1, <3>1, <3>2, SameName, SameListed
  <2> QED
    BY <2>2, <2>4 DEF Alone
<1>2. CASE InitWait(c) \/ ResetWait(c)
  <2>1. \E pc, h, on, t : /\ CallIs(c, pc, h, on, t)
                          /\ pc \notin InRun /\ call[c].pc \notin InRun
    BY <1>2, HandlerCall DEF InitWait, ResetWait, Goto, Return
  <2>2. UNCHANGED <<chans, executor>>
    BY <1>2 DEF InitWait, ResetWait, Drained, goroutines
  <2> QED
    BY <1>0, <2>1, <2>2, CallAlone
<1>3. CASE NewChannels(c) \/ NewHudor(c)
  <2>1. /\ call[c].pc \in {"newChannels", "newHudor"}
        /\ \E pc \in {"idle", "newHudor"} : \E h, on, t : CallIs(c, pc, h, on, t)
    BY <1>3, HandlerCall DEF NewChannels, NewHudor, Return
  <2>2. \A d \in Client : call[d].pc \notin InRun
    BY <2>1 DEF Ordered, LifecycleAlone, Lifecycle, Initializing
  <2>3. \A d \in Client : call'[d].pc \notin InRun
    BY <2>1, <2>2 DEF CallIs
  <2>4. OneInRun'
    BY <2>3 DEF OneInRun, At
  <2>5. Waiting = {}
    BY <2>2 DEF Waiting, At
  <2>6. ASSUME NEW g \in Generation
        PROVE  \/ executor'[g] = executor[g]
               \/ executor[g].pc = "none" /\ executor'[g].pc = "start"
    <3>1. CASE NewHudor(c)
      <4>1. call[c].on \in Generation /\ executor[call[c].on].pc = "none"
        BY <3>1, HudorTasksConstants
           DEF NewHudor, Return, TypeInv, CallsOK, CallState, FreshHudors, Owners, Generation
      <4>2. executor' = [executor EXCEPT ![call[c].on].pc = "start"]
        BY <3>1 DEF NewHudor
      <4> QED
        BY <4>1, <4>2 DEF TypeInv, ExecutorsOK, ExecutorState
    <3>2. CASE ~NewHudor(c)
      BY <1>0, <3>2
    <3> QED
      BY <3>1, <3>2
  <2>7. ASSUME NEW g \in Generation
        PROVE  OneName(g)' /\ Listed(g)'
    <3>1. OneName(g) /\ Listed(g)
      BY DEF Alone
    <3>2. Free(g)
      BY <2>5, <3>1 DEF OneName
    <3>3. /\ executor'[g].pc \in HasTask <=> executor[g].pc \in HasTask
          /\ executor'[g].pc \in {"registered", "taken"} => executor'[g] = executor[g]
      BY <2>6 DEF HasTask
    <3> QED
      BY <1>0, <3>1, <3>2, <3>3, SameName, SameListed
  <2> QED
    BY <2>4, <2>7 DEF Alone
<1> QED
  BY <1>1, <1>2, <1>3 DEF Replacing

LEMMA ListedAgain ==
  ASSUME NEW h \in Generation, Listed(h), Live(h)' \subseteq Live(h),
         \A l \in Live(h)' : launches'[l].task = launches[l].task,
         taskChannel'[h] = taskChannel[h], deleteTaskChannel'[h] = deleteTaskChannel[h],
         activeTasks'[h] = activeTasks[h],
         executor'[h].pc \in {"registered", "taken"} => executor'[h] = executor[h]
  PROVE  Listed(h)'
<1>1. Queued(h)' = Queued(h) /\ Leaving(h)' = Leaving(h)
  BY DEF Queued, Leaving
<1>2. LiveListed(h)'
  BY <1>1 DEF Listed, LiveListed
<1>3. LeavingListed(h)' /\ NewListed(h)'
  BY <1>1 DEF Listed, LeavingListed, NewListed
<1> QED
  BY <1>2, <1>3 DEF Listed

\* What the executor does to the channels, launches and names of its Hudor.
LEMMA ExecutorWrites ==
  ASSUME TypeInv, Ordered, ~Stray, NEW h \in Generation, TaskExecutor(h)
  PROVE  \A g \in Generation \ {h} :
           /\ taskChannel'[g] = taskChannel[g] /\ doneTaskChannel'[g] = doneTaskChannel[g]
           /\ deleteTaskChannel'[g] = deleteTaskChannel[g] /\ activeTasks'[g] = activeTasks[g]
           /\ executor'[g] = executor[g] /\ Live(g)' = Live(g)
           /\ \A l \in Live(g) : launches'[l].task = launches[l].task
<1>0. h = chans /\ executor[h].on \in {0, h} /\ ChannelsOK /\ launches \in Seq(LaunchState)
  BY ExecutorAlone DEF TypeInv, LaunchesOK
<1>1. TakeName(h) => executor[h].on = h
  <2>1. TakeName(h) => executor[h].on \in Generation
    BY ExecutorMoves
  <2> QED
    BY <1>0, <2>1, HudorTasksConstants DEF Generation
<1>2. SUFFICES ASSUME NEW g \in Generation, g # h
               PROVE  /\ taskChannel'[g] = taskChannel[g]
                      /\ doneTaskChannel'[g] = doneTaskChannel[g]
                      /\ deleteTaskChannel'[g] = deleteTaskChannel[g]
                      /\ activeTasks'[g] = activeTasks[g]
                      /\ executor'[g] = executor[g] /\ Live(g)' = Live(g)
                      /\ \A l \in Live(g) : launches'[l].task = launches[l].task
  OBVIOUS
<1>3. /\ taskChannel'[g] = taskChannel[g] /\ doneTaskChannel'[g] = doneTaskChannel[g]
      /\ deleteTaskChannel'[g] = deleteTaskChannel[g] /\ activeTasks'[g] = activeTasks[g]
  BY <1>0, <1>1, <1>2
     DEF ChannelsOK, Push, TaskExecutor, ExecutorStart, ExecutorLoop, TakeName, Register, Launch,
         Triggered, Answer, ExecutorClose, channels
<1>4. executor'[g] = executor[g]
  BY <1>2, ExecutorMoves DEF TaskExecutor, ExecutorIs
<1>5. CASE UNCHANGED launches
  BY <1>3, <1>4, <1>5 DEF Live
<1>6. CASE Launch(h)
  <2>1. launches' = Append(launches, [hudor |-> h, task |-> executor[h].task, on |-> chans,
                                      pc |-> "start"])
    BY <1>6 DEF Launch
  <2>2. /\ DOMAIN launches' = DOMAIN launches \cup {Len(launches) + 1}
        /\ \A l \in DOMAIN launches : launches'[l] = launches[l]
        /\ launches'[Len(launches) + 1].hudor = h
    BY <1>0, <2>1
  <2>3. Live(g)' = Live(g)
    BY <1>2, <2>2 DEF Live
  <2>4. \A l \in Live(g) : launches'[l].task = launches[l].task
    BY <2>2 DEF Live
  <2> QED
    BY <1>3, <1>4, <2>3, <2>4
<1> QED
  BY <1>5, <1>6
     DEF TaskExecutor, ExecutorStart, ExecutorLoop, TakeName, Register, Triggered, Answer,
         ExecutorClose

LEMMA ExecutorElsewhere ==
  ASSUME TypeInv, Ordered, ~Stray, Alone, NEW h \in Generation, TaskExecutor(h)
  PROVE  /\ h = chans /\ chans' = chans /\ Waiting' = Waiting /\ OneInRun'
         /\ \A g \in Generation \ {h} : OneName(g)' /\ Listed(g)'
<1> USE DEF InRun
<1>1. h = chans
  BY ExecutorAlone
<1>2. UNCHANGED <<chans, call>>
  BY GoroutineFrame DEF Goroutine, handlerVars, globals
<1>3. Waiting' = Waiting /\ At(InRun)' = At(InRun) /\ At({"enqueue"})' = At({"enqueue"})
  BY <1>2 DEF Waiting, At
<1>4. OneName(h)
  BY DEF Alone
<1>5. At({"enqueue"}) # {} => ~Register(h)
  <2>1. At({"enqueue"}) # {} => Waiting = {}
    BY DEF Alone, OneInRun, At, Waiting
  <2>2. Register(h) => ~Free(h)
    BY DEF Register, ExecutorStep, Free, Busy, HasTask
  <2> QED
    BY <1>4, <2>1, <2>2 DEF OneName
<1>6. ~Register(h) => UNCHANGED activeTasks
  BY DEF TaskExecutor, ExecutorStart, ExecutorLoop, TakeName, Launch, Triggered, Answer,
         ExecutorClose
<1>7. OneInRun'
  BY <1>2, <1>3, <1>5, <1>6 DEF Alone, OneInRun
<1>8. ASSUME NEW g \in Generation, g # h
      PROVE  OneName(g)' /\ Listed(g)'
  <2>1. OneName(g) /\ Listed(g)
    BY DEF Alone
  <2>2. Free(g)
    BY <1>1, <1>8, <2>1 DEF OneName
  <2>3. /\ taskChannel'[g] = taskChannel[g] /\ doneTaskChannel'[g] = doneTaskChannel[g]
        /\ deleteTaskChannel'[g] = deleteTaskChannel[g] /\ activeTasks'[g] = activeTasks[g]
        /\ executor'[g] = executor[g] /\ Live(g)' = Live(g)
        /\ \A l \in Live(g) : launches'[l].task = launches[l].task
    BY <1>8, ExecutorWrites
  <2> QED
    BY <2>1, <2>2, <2>3, SameName, ListedAgain
<1> QED
  BY <1>1, <1>2, <1>3, <1>7, <1>8

LEMMA TailShifts ==
  ASSUME NEW s \in Seq(Names), s # <<>>
  PROVE  /\ 1 \in DOMAIN s /\ Head(s) = s[1]
         /\ DOMAIN Tail(s) \subseteq Nat \ {0}
         /\ \A i \in DOMAIN Tail(s) : i + 1 \in DOMAIN s /\ Tail(s)[i] = s[i + 1]
OBVIOUS

LEMMA TakeNameAlone ==
  ASSUME TypeInv, Ordered, ~Stray, Alone, NEW h \in Generation, TakeName(h)
  PROVE  OneName(h)' /\ Listed(h)'
<1> DEFINE s == taskChannel[h]
           name == Head(s)
<1>1. h = chans /\ executor[h].on = h
  <2>1. TaskExecutor(h) /\ executor[h].on \in Generation
    BY ExecutorMoves DEF TaskExecutor
  <2> QED
    BY <2>1, ExecutorAlone, HudorTasksConstants DEF Generation
<1>2. /\ executor[h].pc = "recv" /\ s # <<>> /\ taskChannel'[h] = Tail(s)
      /\ UNCHANGED <<doneTaskChannel, deleteTaskChannel, activeTasks, launches, chans, Waiting>>
  BY <1>1 DEF TakeName, TypeInv, ChannelsOK, handlerVars, globals, Waiting, At
<1>3. s \in Seq(Names) /\ name \in Names
  BY <1>1, ExecutorMoves DEF TypeInv, ChannelsOK
<1>4. ExecutorIs(h, IF name = Closing THEN "close" ELSE "taken", h, name)
  BY <1>1, ExecutorMoves
<1>5. /\ executor'[h].pc = (IF name = Closing THEN "close" ELSE "taken")
      /\ executor'[h].task = name
  BY <1>4 DEF ExecutorIs
<1>6. OneName(h) /\ Listed(h)
  BY DEF Alone
<1>7. /\ 1 \in DOMAIN s /\ name = s[1]
      /\ \A i \in Queued(h)' : i \in Nat \ {0} /\ i + 1 \in Queued(h) /\ taskChannel'[h][i] = s[i + 1]
  BY <1>2, <1>3, TailShifts DEF Queued
<1>8. Leaving(h)' = Leaving(h) /\ Live(h)' = Live(h)
  BY <1>2 DEF Leaving, Live
<1> HIDE DEF name
<1>9. LiveListed(h)' /\ LeavingListed(h)'
  BY <1>2, <1>5, <1>6, <1>8 DEF Listed, LiveListed, LeavingListed
<1>10. CASE name \in Task
  <2>1. 1 \in Queued(h) /\ executor'[h].pc = "taken"
    BY <1>5, <1>7, <1>10, HudorTasksConstants DEF Queued
  <2>2. Queued(h)' = {}
    BY <1>6, <1>7, <2>1 DEF OneName
  <2>3. doneTaskChannel[h] = 0 /\ h = chans /\ Waiting # {}
    BY <1>6, <2>1 DEF OneName, Free
  <2>4. OneName(h)'
    BY <1>2, <2>2, <2>3 DEF OneName
  <2>5. name \notin activeTasks[h]
    BY <1>6, <1>7, <2>1 DEF Listed, NewListed
  <2>6. NewListed(h)'
    BY <1>2, <1>5, <2>1, <2>2, <2>5 DEF NewListed
  <2> QED
    BY <1>9, <2>4, <2>6 DEF Listed
<1>11. CASE name = Closing
  <2>1. ~Busy(h) /\ ~Busy(h)' /\ executor'[h].pc = "close"
    BY <1>2, <1>5, <1>11 DEF Busy, HasTask
  <2>2. Free(h) => Free(h)'
    BY <1>2, <1>7, <2>1 DEF Free
  <2>3. \A i, j \in Queued(h)' : i = j
    <3>1. TAKE i \in Queued(h)', j \in Queued(h)'
    <3>2. i + 1 = j + 1 /\ i \in Nat /\ j \in Nat
      BY <1>6, <1>7 DEF OneName
    <3> QED
      BY <3>2
  <2>4. Queued(h)' # {} => Queued(h) # {}
    BY <1>7
  <2>5. OneName(h)'
    BY <1>2, <1>6, <2>1, <2>2, <2>3, <2>4 DEF OneName
  <2>6. NewListed(h)'
    BY <1>2, <1>6, <1>7, <2>1 DEF Listed, NewListed
  <2> QED
    BY <1>9, <2>5, <2>6 DEF Listed
<1> QED
  BY <1>3, <1>10, <1>11 DEF Names

LEMMA RegisterAlone ==
  ASSUME TypeInv, Ordered, ~Stray, Alone, NEW h \in Generation, Register(h)
  PROVE  OneName(h)' /\ Listed(h)'
<1> DEFINE t == executor[h].task
<1>1. /\ UNCHANGED <<taskChannel, doneTaskChannel, deleteTaskChannel, launches, chans, Waiting>>
      /\ executor[h].pc = "taken"
  BY DEF Register, ExecutorStep, channels, handlerVars, globals, Waiting, At
<1>2. activeTasks'[h] = activeTasks[h] \cup {t}
  BY DEF Register, TypeInv, ChannelsOK
<1>3. executor'[h].pc = "registered" /\ executor'[h].task = t
  BY ExecutorMoves DEF ExecutorIs
<1>4. OneName(h) /\ Listed(h) /\ t \notin activeTasks[h] /\ Busy(h) /\ Busy(h)'
  BY <1>1, <1>3 DEF Alone, Listed, NewListed, Busy, HasTask
<1>5. Queued(h)' = {} /\ Queued(h) = {} /\ Leaving(h)' = Leaving(h) /\ Live(h)' = Live(h)
  BY <1>1, <1>4 DEF Queued, Leaving, Live, OneName
<1>6. OneName(h)'
  BY <1>1, <1>4, <1>5 DEF OneName, Free
<1>7. LiveListed(h)'
  BY <1>1, <1>2, <1>3, <1>4, <1>5 DEF Listed, LiveListed
<1>8. LeavingListed(h)' /\ NewListed(h)'
  BY <1>1, <1>2, <1>3, <1>4, <1>5 DEF Listed, LeavingListed, NewListed
<1> QED
  BY <1>6, <1>7, <1>8 DEF Listed

LEMMA LaunchAlone ==
  ASSUME TypeInv, Ordered, ~Stray, Alone, NEW h \in Generation, Launch(h)
  PROVE  OneName(h)' /\ Listed(h)'
<1> DEFINE t == executor[h].task
           n == Len(launches) + 1
<1>1. /\ UNCHANGED <<taskChannel, doneTaskChannel, deleteTaskChannel, activeTasks, chans, Waiting>>
      /\ executor[h].pc = "registered"
      /\ launches' = Append(launches, [hudor |-> h, task |-> t, on |-> chans, pc |-> "start"])
  BY DEF Launch, ExecutorStep, channels, handlerVars, globals, Waiting, At
<1>2. executor'[h].pc = "trigger"
  BY ExecutorMoves DEF ExecutorIs
<1>3. OneName(h) /\ Listed(h) /\ h = chans
  BY ExecutorAlone DEF Alone, TaskExecutor
<1>4. launches \in Seq(LaunchState)
  BY DEF TypeInv, LaunchesOK
<1>5. /\ DOMAIN launches' = DOMAIN launches \cup {n} /\ n \notin DOMAIN launches
      /\ \A l \in DOMAIN launches : launches'[l] = launches[l]
      /\ launches'[n].hudor = h /\ launches'[n].task = t /\ launches'[n].pc = "start"
  BY <1>1, <1>4
<1> HIDE DEF n
<1>6. /\ Live(h)' = Live(h) \cup {n} /\ n \notin Live(h)
      /\ \A l \in Live(h) : launches'[l].task = launches[l].task
  BY <1>5 DEF Live
<1>7. Queued(h)' = Queued(h) /\ Leaving(h)' = Leaving(h)
  BY <1>1 DEF Queued, Leaving
<1>8. /\ t \in activeTasks[h]
      /\ \A l \in Live(h) : launches[l].task # t
      /\ \A i \in Leaving(h) : deleteTaskChannel[h][i] # t
  BY <1>1, <1>3 DEF Listed, LiveListed, LeavingListed, NewListed
<1>9. LiveListed(h)'
  <2>1. ASSUME NEW l \in Live(h)'
        PROVE  /\ launches'[l].task \in activeTasks[h]
               /\ \A i \in Leaving(h) : deleteTaskChannel[h][i] # launches'[l].task
    BY <1>3, <1>5, <1>6, <1>8 DEF Listed, LiveListed
  <2>2. ASSUME NEW l \in Live(h)', NEW k \in Live(h)', launches'[k].task = launches'[l].task
        PROVE  k = l
    BY <1>3, <1>5, <1>6, <1>8, <2>2 DEF Listed, LiveListed
  <2> QED
    BY <1>1, <1>2, <1>7, <2>1, <2>2 DEF LiveListed
<1>10. LeavingListed(h)' /\ NewListed(h)'
  BY <1>1, <1>2, <1>3, <1>7 DEF Listed, LeavingListed, NewListed
<1>11. OneName(h)'
  BY <1>1, <1>2, <1>3, <1>7 DEF OneName, Free, Busy, HasTask
<1> QED
  BY <1>9, <1>10, <1>11 DEF Listed

LEMMA LeavingPush ==
  ASSUME ChannelsOK, NEW g \in Generation, NEW x \in Names,
         deleteTaskChannel' = Push(deleteTaskChannel, g, x)
  PROVE  LET n == Len(deleteTaskChannel[g]) + 1
         IN  /\ n \notin Leaving(g)
             /\ deleteTaskChannel'[g][n] = x
             /\ \A i \in Leaving(g) : deleteTaskChannel'[g][i] = deleteTaskChannel[g][i]
             /\ Leaving(g)' = Leaving(g) \cup (IF x \in Task THEN {n} ELSE {})
             /\ \A h \in Generation \ {g} : deleteTaskChannel'[h] = deleteTaskChannel[h]
<1>1. deleteTaskChannel \in [Generation -> Seq(Names)] /\ deleteTaskChannel[g] \in Seq(Names)
  BY DEF ChannelsOK
<1>2. /\ deleteTaskChannel'[g] = Append(deleteTaskChannel[g], x)
      /\ \A h \in Generation \ {g} : deleteTaskChannel'[h] = deleteTaskChannel[h]
  BY <1>1, PushTyped
<1> DEFINE s == deleteTaskChannel[g]
           n == Len(deleteTaskChannel[g]) + 1
<1>3. /\ DOMAIN Append(s, x) = DOMAIN s \cup {n} /\ n \notin DOMAIN s /\ Append(s, x)[n] = x
      /\ \A i \in DOMAIN s : Append(s, x)[i] = s[i]
  BY <1>1
<1>4. Leaving(g)' = {i \in DOMAIN Append(s, x) : Append(s, x)[i] \in Task}
  BY <1>2 DEF Leaving
<1> QED
  BY <1>2, <1>3, <1>4 DEF Leaving

LEMMA AnswerAlone ==
  ASSUME TypeInv, Ordered, ~Stray, Alone, NEW h \in Generation, Answer(h)
  PROVE  OneName(h)' /\ Listed(h)'
<1>1. /\ UNCHANGED <<taskChannel, deleteTaskChannel, activeTasks, launches, chans, Waiting>>
      /\ executor[h].pc = "done"
  BY DEF Answer, handlerVars, globals, Waiting, At
<1>2. OneName(h) /\ Listed(h) /\ h = chans
  BY ExecutorAlone DEF Alone, TaskExecutor
<1>3. doneTaskChannel'[h] = doneTaskChannel[h] + 1
  BY <1>2 DEF Answer, TypeInv, ChannelsOK
<1>4. executor'[h].pc = "loop"
  BY ExecutorMoves DEF ExecutorIs
<1>5. Listed(h)'
  BY <1>1, <1>2, <1>4, SameListed
<1>6. Busy(h) /\ ~Busy(h)' /\ doneTaskChannel[h] = 0 /\ Queued(h) = {} /\ Queued(h)' = {}
  BY <1>1, <1>2, <1>4 DEF Busy, HasTask, OneName, Queued
<1>7. OneName(h)'
  BY <1>1, <1>2, <1>3, <1>6 DEF OneName, Free
<1> QED
  BY <1>5, <1>7

LEMMA ExecutorStepAlone ==
  ASSUME TypeInv, Ordered, ~Stray, Alone, NEW h \in Generation, TaskExecutor(h)
  PROVE  Alone'
<1>1. /\ h = chans /\ chans' = chans /\ Waiting' = Waiting /\ OneInRun'
      /\ \A g \in Generation \ {h} : OneName(g)' /\ Listed(g)'
  BY ExecutorElsewhere
<1>2. OneName(h) /\ Listed(h)
  BY DEF Alone
<1>3. Free(h) \/ (h = chans' /\ Waiting' # {})
  BY <1>1, <1>2 DEF OneName
<1>4. CASE ExecutorStart(h) \/ ExecutorLoop(h) \/ Triggered(h)
  <2>1. UNCHANGED <<taskChannel, doneTaskChannel, deleteTaskChannel, activeTasks, launches>>
    BY <1>4 DEF ExecutorStart, ExecutorLoop, Triggered, channels
  <2>2. /\ executor'[h].pc \in HasTask <=> executor[h].pc \in HasTask
        /\ executor'[h].pc \notin {"registered", "taken"}
    BY <1>4, ExecutorMoves
       DEF ExecutorIs, ExecutorStart, ExecutorLoop, Triggered, ExecutorStep, HasTask
  <2> QED
    BY <1>1, <1>2, <1>3, <2>1, <2>2, SameName, SameListed DEF Alone
<1>5. CASE ExecutorClose(h)
  <2>1. /\ UNCHANGED <<taskChannel, doneTaskChannel, activeTasks, launches>>
        /\ deleteTaskChannel' = Push(deleteTaskChannel, h, Closing)
    BY <1>1, <1>5 DEF ExecutorClose
  <2>2. /\ executor'[h].pc \in HasTask <=> executor[h].pc \in HasTask
        /\ executor'[h].pc = "ended"
    BY <1>5, ExecutorMoves DEF ExecutorIs, ExecutorClose, ExecutorStep, HasTask
  <2>3. OneName(h)'
    BY <1>2, <1>3, <2>1, <2>2, SameName
  <2>4. /\ Leaving(h)' = Leaving(h)
        /\ \A i \in Leaving(h) : deleteTaskChannel'[h][i] = deleteTaskChannel[h][i]
    BY <2>1, LeavingPush, HudorTasksConstants DEF TypeInv, Names
  <2>5. Live(h)' = Live(h) /\ Queued(h)' = Queued(h)
    BY <2>1 DEF Live, Queued
  <2>6. Listed(h)'
    BY <1>2, <2>1, <2>2, <2>4, <2>5 DEF Listed, LiveListed, LeavingListed, NewListed
  <2> QED
    BY <1>1, <2>3, <2>6 DEF Alone
<1> QED
  BY <1>1, <1>4, <1>5, TakeNameAlone, RegisterAlone, LaunchAlone, AnswerAlone
     DEF TaskExecutor, Alone

LEMMA DeleteListed ==
  ASSUME TypeInv, ~Stray, Alone, NEW h \in Generation, Delete(h)
  PROVE  Listed(h)' /\ \A g \in Generation \ {h} : activeTasks'[g] = activeTasks[g]
                                                   /\ deleteTaskChannel'[g] = deleteTaskChannel[g]
<1> DEFINE s == deleteTaskChannel[h]
           name == Head(s)
<1>1. deleter[h].on = h
  <2>1. deleter[h].on \in Generation
    BY DeleterMoves
  <2> QED
    BY <2>1, HudorTasksConstants DEF Stray, Generation
<1>2. /\ s # <<>> /\ deleteTaskChannel'[h] = Tail(s) /\ activeTasks'[h] = activeTasks[h] \ {name}
      /\ UNCHANGED <<taskChannel, executor, launches>>
      /\ \A g \in Generation \ {h} : activeTasks'[g] = activeTasks[g]
                                     /\ deleteTaskChannel'[g] = deleteTaskChannel[g]
  BY <1>1 DEF Delete, DeleteThen, TypeInv, ChannelsOK
<1>3. s \in Seq(Names) /\ name \in Names /\ activeTasks[h] \subseteq Task
  BY <1>1, DeleterMoves DEF TypeInv, ChannelsOK
<1>4. /\ 1 \in DOMAIN s /\ name = s[1]
      /\ \A i \in Leaving(h)' : i \in Nat \ {0} /\ i + 1 \in Leaving(h)
                                /\ deleteTaskChannel'[h][i] = s[i + 1]
  BY <1>2, <1>3, TailShifts DEF Leaving
<1> HIDE DEF name
<1>5. Listed(h) /\ Live(h)' = Live(h) /\ Queued(h)' = Queued(h)
  BY <1>2 DEF Alone, Live, Queued
<1>6. name \in Task => 1 \in Leaving(h)
  BY <1>4 DEF Leaving
<1>7. name \in Task \/ name \notin activeTasks[h]
  BY <1>3
<1>8. \A l \in Live(h) : launches[l].task # name
  BY <1>4, <1>5, <1>6, <1>7 DEF Listed, LiveListed
<1>9. \A i \in Leaving(h)' : s[i + 1] # name
  <2>1. \A i \in Leaving(h)' : i + 1 # 1
    BY <1>4
  <2> QED
    BY <1>4, <1>5, <1>6, <1>7, <2>1 DEF Listed, LeavingListed
<1>10. executor[h].pc = "registered" => executor[h].task # name
  BY <1>4, <1>5, <1>6, <1>7 DEF Listed, LeavingListed, NewListed
<1>11. LiveListed(h)'
  <2>1. ASSUME NEW l \in Live(h)
        PROVE  /\ launches[l].task \in activeTasks'[h]
               /\ \A i \in Leaving(h)' : deleteTaskChannel'[h][i] # launches[l].task
    <3>1. /\ launches[l].task \in activeTasks[h]
          /\ \A i \in Leaving(h) : s[i] # launches[l].task
      BY <1>5, <2>1 DEF Listed, LiveListed
    <3>2. launches[l].task \in activeTasks'[h]
      BY <1>2, <1>8, <3>1
    <3>3. \A i \in Leaving(h)' : deleteTaskChannel'[h][i] # launches[l].task
      BY <1>4, <3>1
    <3> QED
      BY <3>2, <3>3
  <2>2. ASSUME NEW l \in Live(h)
        PROVE  /\ \A k \in Live(h) : launches[k].task = launches[l].task => k = l
               /\ executor[h].pc = "registered" => executor[h].task # launches[l].task
    BY <1>5 DEF Listed, LiveListed
  <2> QED
    BY <1>2, <1>5, <2>1, <2>2 DEF LiveListed
<1>12. LeavingListed(h)'
  <2>1. ASSUME NEW i \in Leaving(h)', NEW j \in Leaving(h)', s[i + 1] = s[j + 1]
        PROVE  i = j
    <3>1. i + 1 = j + 1 /\ i \in Nat /\ j \in Nat
      BY <1>4, <1>5, <2>1 DEF Listed, LeavingListed
    <3> QED
      BY <3>1
  <2>2. ASSUME NEW i \in Leaving(h)'
        PROVE  /\ s[i + 1] \in activeTasks'[h]
               /\ executor'[h].pc = "registered" => executor'[h].task # s[i + 1]
    BY <1>2, <1>4, <1>5, <1>9 DEF Listed, LeavingListed
  <2> QED
    BY <1>4, <2>1, <2>2 DEF LeavingListed
<1>13. NewListed(h)'
  BY <1>2, <1>5, <1>10 DEF Listed, NewListed
<1> QED
  BY <1>2, <1>11, <1>12, <1>13 DEF Listed

LEMMA DeleterAlone ==
  ASSUME TypeInv, Ordered, ~Stray, Alone, NEW h \in Generation, TaskDelete(h)
  PROVE  Alone'
<1>1. UNCHANGED <<chans, call, taskChannel, doneTaskChannel, executor, launches>>
  BY DEF TaskDelete, DeleterLoop, Delete, DeleteThen, handlerVars, globals, channels
<1>2. ASSUME NEW g \in Generation
      PROVE  Listed(g)' /\ activeTasks'[g] \subseteq activeTasks[g]
  <2>1. CASE DeleterLoop(h)
    <3>1. UNCHANGED <<deleteTaskChannel, activeTasks>> /\ Listed(g)
      BY <2>1 DEF DeleterLoop, channels, Alone
    <3> QED
      BY <1>1, <3>1, SameListed
  <2>2. CASE Delete(h) /\ g = h
    <3>1. Listed(h)' /\ activeTasks' = [activeTasks EXCEPT ![h] = @ \ {Head(deleteTaskChannel[deleter[h].on])}]
      BY <2>2, DeleteListed DEF Delete, DeleteThen
    <3> QED
      BY <2>2, <3>1 DEF TypeInv, ChannelsOK
  <2>3. CASE Delete(h) /\ g # h
    <3>1. /\ activeTasks'[g] = activeTasks[g] /\ deleteTaskChannel'[g] = deleteTaskChannel[g]
          /\ Listed(g)
      BY <2>3, DeleteListed DEF Alone
    <3> QED
      BY <1>1, <3>1, SameListed
  <2> QED
    BY <2>1, <2>2, <2>3 DEF TaskDelete
<1>3. At(InRun)' = At(InRun) /\ At({"enqueue"})' = At({"enqueue"}) /\ Waiting' = Waiting
  BY <1>1 DEF At, Waiting
<1>4. OneInRun'
  <2>1. At({"enqueue"}) # {} => chans \in Generation
    BY HudorTasksConstants DEF At, TypeInv, CallsOK, GlobalsOK, InRun, Owners, Generation
  <2> QED
    BY <1>1, <1>2, <1>3, <2>1 DEF Alone, OneInRun
<1>5. ASSUME NEW g \in Generation
      PROVE  OneName(g)'
  <2>1. OneName(g)
    BY DEF Alone
  <2>2. Free(g) \/ (g = chans' /\ Waiting' # {})
    BY <1>1, <1>3, <2>1 DEF OneName
  <2> QED
    BY <1>1, <2>1, <2>2, SameName
<1> QED
  BY <1>2, <1>4, <1>5 DEF Alone

LEMMA AnnounceListed ==
  ASSUME TypeInv, Ordered, Alone, NEW l \in DOMAIN launches, Announce(l), PoolRun(l)
  PROVE  \A g \in Generation : Listed(g)'
<1>1. UNCHANGED <<taskChannel, activeTasks, executor>>
  BY DEF PoolRun
<1>2. launches[l] \in LaunchState /\ launches[l].pc = "finished"
      /\ launches[l].on = launches[l].hudor
  <2>1. launches \in Seq(LaunchState)
    BY DEF TypeInv, LaunchesOK
  <2>2. launches[l] \in LaunchState
    BY <2>1
  <2> QED
    BY <2>2 DEF Ordered, OneExecutor, Announce, LaunchStep
<1>3. PICK h \in Generation, t \in Task : launches[l].hudor = h /\ launches[l].task = t
  BY <1>2 DEF LaunchState
<1> DEFINE n == Len(deleteTaskChannel[h]) + 1
<1>4. deleteTaskChannel' = Push(deleteTaskChannel, h, t) /\ t \in Names
  BY <1>2, <1>3 DEF Announce, TellDeleter, Names
<1>5. /\ n \notin Leaving(h) /\ deleteTaskChannel'[h][n] = t
      /\ \A i \in Leaving(h) : deleteTaskChannel'[h][i] = deleteTaskChannel[h][i]
      /\ Leaving(h)' = Leaving(h) \cup {n}
      /\ \A g \in Generation \ {h} : deleteTaskChannel'[g] = deleteTaskChannel[g]
  BY <1>3, <1>4, LeavingPush DEF TypeInv
<1>6. LaunchIs(l, "ended") /\ l \in Live(h)
  BY <1>2, <1>3, LaunchMoves DEF Live
<1>7. ASSUME NEW g \in Generation
      PROVE  /\ Live(g)' = Live(g) \ {l}
             /\ \A k \in Live(g)' : launches'[k].task = launches[k].task
  BY <1>6 DEF Live, LaunchIs
<1>8. ASSUME NEW g \in Generation, g # h
      PROVE  Listed(g)'
  <2>1. Listed(g) /\ deleteTaskChannel'[g] = deleteTaskChannel[g]
    BY <1>5, <1>8 DEF Alone
  <2> QED
    BY <1>1, <1>7, <2>1, ListedAgain
<1>9. PICK m : /\ m \notin Leaving(h) /\ Leaving(h)' = Leaving(h) \cup {m}
               /\ deleteTaskChannel'[h][m] = t
  BY <1>5
<1>10. /\ t \in activeTasks[h] /\ Listed(h)
       /\ \A k \in Live(h) \ {l} : launches[k].task # t
       /\ \A i \in Leaving(h) : deleteTaskChannel[h][i] # t
       /\ executor[h].pc = "registered" => executor[h].task # t
  BY <1>3, <1>6 DEF Alone, Listed, LiveListed
<1>11. LiveListed(h)'
  <2>1. Live(h)' = Live(h) \ {l} /\ \A k \in Live(h) \ {l} : launches'[k].task = launches[k].task
    BY <1>7
  <2>2. ASSUME NEW k \in Live(h) \ {l}
        PROVE  /\ launches[k].task \in activeTasks[h]
               /\ \A j \in Live(h) : launches[j].task = launches[k].task => j = k
               /\ executor[h].pc = "registered" => executor[h].task # launches[k].task
    BY <1>10 DEF Listed, LiveListed
  <2>3. ASSUME NEW k \in Live(h) \ {l}, NEW i \in Leaving(h)'
        PROVE  deleteTaskChannel'[h][i] # launches[k].task
    <3>1. i \in Leaving(h) => deleteTaskChannel[h][i] # launches[k].task
      BY <1>10 DEF Listed, LiveListed
    <3> QED
      BY <1>5, <1>9, <1>10, <3>1
  <2> QED
    BY <1>1, <2>1, <2>2, <2>3 DEF LiveListed
<1>12. LeavingListed(h)'
  <2>1. ASSUME NEW i \in Leaving(h)', NEW j \in Leaving(h)',
               deleteTaskChannel'[h][j] = deleteTaskChannel'[h][i]
        PROVE  i = j
    BY <1>5, <1>9, <1>10, <2>1 DEF Listed, LeavingListed
  <2>2. ASSUME NEW i \in Leaving(h)'
        PROVE  /\ deleteTaskChannel'[h][i] \in activeTasks[h]
               /\ executor[h].pc = "registered" => executor[h].task # deleteTaskChannel'[h][i]
    BY <1>5, <1>9, <1>10 DEF Listed, LeavingListed
  <2> QED
    BY <1>1, <2>1, <2>2 DEF LeavingListed
<1>13. NewListed(h)'
  <2>1. Queued(h)' = Queued(h)
    BY <1>1 DEF Queued
  <2> QED
    BY <1>1, <1>10, <2>1 DEF Listed, NewListed
<1> QED
  BY <1>8, <1>11, <1>12, <1>13 DEF Listed

LEMMA PoolAlone ==
  ASSUME TypeInv, Ordered, Alone, NEW l \in DOMAIN launches, PoolRun(l)
  PROVE  Alone'
<1>1. UNCHANGED <<chans, call, taskChannel, doneTaskChannel, activeTasks, executor>>
  BY DEF PoolRun, handlerVars, globals
<1>2. At(InRun)' = At(InRun) /\ At({"enqueue"})' = At({"enqueue"}) /\ Waiting' = Waiting
  BY <1>1 DEF At, Waiting
<1>3. OneInRun'
  BY <1>1, <1>2 DEF Alone, OneInRun
<1>4. ASSUME NEW g \in Generation
      PROVE  OneName(g)'
  <2>1. OneName(g)
    BY DEF Alone
  <2>2. Free(g) \/ (g = chans' /\ Waiting' # {})
    BY <1>1, <1>2, <2>1 DEF OneName
  <2> QED
    BY <1>1, <2>1, <2>2, SameName
<1>5. ASSUME ~Announce(l), NEW g \in Generation
      PROVE  Listed(g)'
  <2>1. \E pc : LaunchIs(l, pc) /\ launches[l].pc # "ended" /\ UNCHANGED deleteTaskChannel
    BY <1>5, LaunchMoves DEF PoolRun, StartWork, FinishWork, LaunchStep
  <2>2. Live(g)' \subseteq Live(g) /\ \A k \in Live(g)' : launches'[k].task = launches[k].task
    BY <2>1 DEF Live, LaunchIs
  <2> QED
    BY <1>1, <2>1, <2>2, ListedAgain DEF Alone
<1> QED
  BY <1>3, <1>4, <1>5, AnnounceListed DEF Alone

LEMMA NextAlone ==
  ASSUME TypeInv, OrderInv, AloneInv, [HudorNext]_hudorVars
  PROVE  AloneInv'
<1>1. CASE HudorNext
  <2>1. SUFFICES ASSUME Orderly', ~together' PROVE Alone'
    BY DEF AloneInv
  <2>2. Orderly /\ ~overlapped' /\ ~together
    BY <1>1, <2>1, OrderlyBefore, TogetherStays
  <2>3. Ordered /\ ~Stray /\ Alone
    BY <2>2 DEF OrderInv, AloneInv, Orderly
  <2> QED
    BY <1>1, <2>1, <2>2, <2>3, StepCases, LightAlone, QueueingAlone, AwaitAlone, ReplacingAlone,
       ExecutorStepAlone, DeleterAlone, PoolAlone DEF HandlerStep, Goroutine
<1>2. CASE UNCHANGED hudorVars
  <2>1. UNCHANGED <<chans, taskChannel, doneTaskChannel, deleteTaskChannel, activeTasks,
                    executor, deleter, launches, call, overlapped, together>>
    BY <1>2 DEF hudorVars, globals, channels, goroutines, historyVars
  <2>2. Orderly' <=> Orderly
    BY <2>1 DEF Orderly, Stray
  <2>3. At(InRun)' = At(InRun) /\ At({"enqueue"})' = At({"enqueue"}) /\ Waiting' = Waiting
    BY <2>1 DEF At, Waiting
  <2>4. Alone => OneInRun'
    BY <2>1, <2>3 DEF Alone, OneInRun
  <2>5. ASSUME Alone, NEW g \in Generation
        PROVE  OneName(g)' /\ Listed(g)'
    <3>1. OneName(g) /\ Listed(g)
      BY <2>5 DEF Alone
    <3>2. Free(g) \/ (g = chans' /\ Waiting' # {})
      BY <2>1, <2>3, <3>1 DEF OneName
    <3> QED
      BY <2>1, <3>1, <3>2, SameName, SameListed
  <2> QED
    BY <2>1, <2>2, <2>4, <2>5 DEF AloneInv, Alone
<1> QED
  BY <1>1, <1>2

LEMMA InitAlone == HudorInit => AloneInv
<1> SUFFICES ASSUME HudorInit PROVE Alone
  BY DEF AloneInv
<1>1. OneInRun
  BY DEF HudorInit, OneInRun, At, NoCall, InRun
<1>2. ASSUME NEW h \in Generation
      PROVE  /\ Queued(h) = {} /\ Leaving(h) = {} /\ Live(h) = {}
             /\ executor[h].pc = "none" /\ doneTaskChannel[h] = 0
  BY DEF HudorInit, Queued, Leaving, Live
<1>3. ASSUME NEW h \in Generation
      PROVE  OneName(h)
  BY <1>2 DEF OneName, Free, Busy, HasTask
<1>4. ASSUME NEW h \in Generation
      PROVE  Listed(h)
  BY <1>2 DEF Listed, LiveListed, LeavingListed, NewListed
<1> QED
  BY <1>1, <1>3, <1>4 DEF Alone

LEMMA AloneAlways == HudorSpec => []AloneInv
<1>1. HudorInit => TypeInv /\ OrderInv /\ AloneInv
  BY HudorInitTyped, InitOrdered, InitAlone
<1>2. TypeInv /\ OrderInv /\ AloneInv /\ [HudorNext]_hudorVars => (TypeInv /\ OrderInv /\ AloneInv)'
  BY HudorNextTyped, NextOrdered, NextAlone
<1> QED
  BY <1>1, <1>2, PTL DEF HudorSpec

\* Hudor.Run of lib/main.go: a task "already in running state" is refused, so
\* that no two of its pools exist at once, whatever stops, executor, deleter and
\* pools do meanwhile: one handler in Run at a time is all it takes.
THEOREM OneRunAloneCorrect == HudorSpec => []OneRunAlone
<1>1. TypeInv /\ AloneInv => OneRunAlone
  <2>1. SUFFICES ASSUME TypeInv, Alone, NEW k \in DOMAIN launches, NEW l \in DOMAIN launches,
                        k # l, launches[k].hudor = launches[l].hudor,
                        launches[k].task = launches[l].task
                 PROVE  "ended" \in {launches[k].pc, launches[l].pc}
    BY DEF AloneInv, OneRunAlone, OneRun
  <2>2. launches \in Seq(LaunchState)
    BY <2>1 DEF TypeInv, LaunchesOK
  <2>3. launches[l] \in LaunchState
    BY <2>1, <2>2
  <2>4. PICK h \in Generation : launches[l].hudor = h
    BY <2>3 DEF LaunchState
  <2>5. LiveListed(h)
    BY <2>1 DEF Alone, Listed
  <2> QED
    BY <2>1, <2>4, <2>5 DEF LiveListed, Live
<1> QED
  BY <1>1, AloneAlways, TypeInvAlways, PTL

\* ActiveTaskMap of lib/main.go: a pool whose producers work is listed, so that
\* StopTask finds it; the executor lists it before it launches it, and the
\* deleter never takes the name of a later run.
THEOREM WorkingListedCorrect == HudorSpec => []WorkingListed
<1>1. AloneInv => WorkingListed
  <2>1. SUFFICES ASSUME Alone, NEW h \in Generation, NEW t \in Task, WorkingOn(h, t) # {}
                 PROVE  t \in activeTasks[h]
    BY DEF AloneInv, WorkingListed
  <2>2. PICK l \in Live(h) : launches[l].task = t
    BY <2>1 DEF WorkingOn, Working, Live
  <2> QED
    BY <2>1, <2>2 DEF Alone, Listed, LiveListed
<1> QED
  BY <1>1, AloneAlways, PTL


-----------------------------------------------------------------------------
(* Every handler that waits is owed one token *)

\* What is queued, with the executor and answered is as much as is waited for.
Owed ==
  /\ \A c \in At({"enqueue"}) : call[c].task \in Task
  /\ chans # 0 =>
       Cardinality(Waiting)
         = Cardinality(Queued(chans)) + (IF Busy(chans) THEN 1 ELSE 0) + doneTaskChannel[chans]

OwedInv == Orderly => Owed

LEMMA TasksCounted ==
  ASSUME NEW s \in Seq(Names)
  PROVE  LET Q == {i \in DOMAIN s : s[i] \in Task}
         IN  IsFiniteSet(Q) /\ Cardinality(Q) \in Nat
<1>1. DOMAIN s = 1 .. Len(s) /\ Len(s) \in Nat
  OBVIOUS
<1>2. IsFiniteSet(DOMAIN s)
  BY <1>1, FS_Interval
<1> QED
  BY <1>2, FS_Subset, FS_CardinalityType

LEMMA WaitingCounted == IsFiniteSet(Waiting) /\ Cardinality(Waiting) \in Nat
<1>1. IsFiniteSet(Waiting)
  BY HudorTasksConstants, FS_Subset DEF Waiting, At
<1> QED
  BY <1>1, FS_CardinalityType

\* The places of tasks in a channel move up when its first name is taken.
LEMMA TailCounted ==
  ASSUME NEW s \in Seq(Names), s # <<>>
  PROVE  LET Q == {i \in DOMAIN s : s[i] \in Task}
             R == {i \in DOMAIN Tail(s) : Tail(s)[i] \in Task}
         IN  Cardinality(Q) = Cardinality(R) + (IF Head(s) \in Task THEN 1 ELSE 0)
<1> DEFINE Q == {i \in DOMAIN s : s[i] \in Task}
           R == {i \in DOMAIN Tail(s) : Tail(s)[i] \in Task}
           f == [i \in R |-> i + 1]
<1>1. /\ Tail(s) \in Seq(Names) /\ Len(s) \in Nat \ {0} /\ Len(Tail(s)) = Len(s) - 1
      /\ DOMAIN s = 1 .. Len(s) /\ DOMAIN Tail(s) = 1 .. Len(s) - 1 /\ Head(s) = s[1]
      /\ \A i \in 1 .. Len(s) - 1 : Tail(s)[i] = s[i + 1]
  OBVIOUS
<1>2. f \in Bijection(R, Q \ {1})
  <2>1. \A i \in R : i + 1 \in Q \ {1}
    BY <1>1
  <2>2. f \in Injection(R, Q \ {1})
    BY <1>1, <2>1 DEF Injection, IsInjective
  <2>3. \A j \in Q \ {1} : j - 1 \in R /\ j = (j - 1) + 1
    BY <1>1
  <2>4. f \in Surjection(R, Q \ {1})
    BY <2>1, <2>3 DEF Surjection
  <2> QED
    BY <2>2, <2>4 DEF Bijection
<1>3. IsFiniteSet(Q) /\ IsFiniteSet(R) /\ Cardinality(Q) \in Nat /\ Cardinality(R) \in Nat
  BY <1>1, TasksCounted
<1> HIDE DEF f
<1>4. Cardinality(Q \ {1}) = Cardinality(R)
  BY <1>2, <1>3, FS_Bijection DEF ExistsBijection
<1>5. 1 \in Q <=> Head(s) \in Task
  BY <1>1
<1>6. Cardinality(Q \ {1}) = IF 1 \in Q THEN Cardinality(Q) - 1 ELSE Cardinality(Q)
  BY <1>3, FS_RemoveElement
<1> HIDE DEF Q, R
<1>7. Cardinality(Q) = Cardinality(R) + (IF Head(s) \in Task THEN 1 ELSE 0)
  BY <1>3, <1>4, <1>5, <1>6
<1> QED
  BY <1>7 DEF Q, R

LEMMA OwedKept ==
  ASSUME Owed, UNCHANGED <<chans, taskChannel, doneTaskChannel>>, Waiting' = Waiting,
         \A c \in At({"enqueue"})' : call'[c].task \in Task,
         executor'[chans].pc \in HasTask <=> executor[chans].pc \in HasTask
  PROVE  Owed'
<1>1. Queued(chans)' = Queued(chans) /\ (Busy(chans)' <=> Busy(chans))
  BY DEF Queued, Busy
<1> QED
  BY <1>1 DEF Owed

\* A call that does not wait for a token, before or after.
LEMMA CallOwed ==
  ASSUME Owed, NEW c \in Client, NEW pc, NEW h, NEW on, NEW t, CallIs(c, pc, h, on, t),
         pc = "enqueue" => t \in Task,
         pc \in {"receive", "await"} <=> call[c].pc \in {"receive", "await"},
         UNCHANGED <<chans, taskChannel, doneTaskChannel>>,
         executor'[chans].pc \in HasTask <=> executor[chans].pc \in HasTask
  PROVE  Owed'
<1>1. Waiting' = Waiting
  BY DEF Waiting, At, CallIs
<1>2. \A d \in At({"enqueue"})' : call'[d].task \in Task
  BY DEF Owed, At, CallIs
<1> QED
  BY <1>1, <1>2, OwedKept

LEMMA LightOwed ==
  ASSUME TypeInv, Owed, NEW c \in Client, Light(c)
  PROVE  Owed'
<1>1. UNCHANGED <<chans, taskChannel, doneTaskChannel, executor>>
  BY LightFrame DEF globals, channels, goroutines
<1>2. CASE \E t \in Task : BeginRun(c, t)
  <2>1. PICK t \in Task : BeginRun(c, t)
    BY <1>2
  <2>2. call[c].pc = "idle"
    BY <2>1 DEF BeginRun, Begin
  <2>3. CallIs(c, "enqueue", session, 0, t)
    BY <2>1, HandlerCall
  <2> QED
    BY <1>1, <2>2, <2>3, CallOwed
<1>3. CASE Receive(c)
  <2>1. call[c].pc = "receive"
    BY <1>3 DEF Receive
  <2>2. CallIs(c, "await", call[c].hudor, chans, call[c].task)
    BY <1>3, HandlerCall
  <2> QED
    BY <1>1, <2>1, <2>2, CallOwed
<1>4. CASE (\E t \in Task : BeginStop(c, t)) \/ BeginInit(c) \/ BeginReset(c)
           \/ StopWait(c) \/ StopNext(c)
  <2>1. call[c].pc \in {"idle", "stopWait", "stopAll"}
    BY <1>4 DEF BeginStop, BeginInit, BeginReset, Begin, StopWait, StopNext, Return
  <2>2. \E pc \in {"stopWait", "newChannels", "initClose", "stopAll", "idle"} :
          \E h, on, t : CallIs(c, pc, h, on, t)
    <3>1. CASE \E t \in Task : BeginStop(c, t)
      BY <3>1, HandlerCall
    <3>2. CASE BeginInit(c)
      BY <3>2, HandlerCall
    <3>3. CASE BeginReset(c)
      BY <3>3, HandlerCall
    <3>4. CASE StopWait(c)
      BY <3>4, HandlerCall
    <3>5. CASE StopNext(c)
      BY <2>1, <3>5, HandlerCall
    <3> QED
      BY <1>4, <3>1, <3>2, <3>3, <3>4, <3>5
  <2> QED
    BY <1>1, <2>1, <2>2, CallOwed
<1> QED
  BY <1>2, <1>3, <1>4 DEF Light

LEMMA QueueingOwed ==
  ASSUME TypeInv, Ordered, Owed, NEW c \in Client, Queueing(c)
  PROVE  Owed'
<1>1. UNCHANGED <<chans, doneTaskChannel, executor>>
  BY QueueingFrame DEF globals, goroutines
<1>2. ChannelsOK /\ call[c].pc \in {"enqueue", "initClose", "stopAll"} /\ call[c].task \in Names
  BY DEF Queueing, Enqueue, InitClose, ResetClose, CloseFrom, Goto, TypeInv, CallsOK, CallState
<1> DEFINE x == IF call[c].pc = "enqueue" THEN call[c].task ELSE Closing
<1>3. taskChannel' = Push(taskChannel, chans, x) /\ x \in Names
  BY <1>2, QueueingFrame DEF Names
<1>4. chans \in Generation
  BY <1>2, HudorTasksConstants
     DEF Ordered, OneHudor, TypeInv, GlobalsOK, Owners, Generation, InRun
<1>5. PICK g \in Generation : g = chans
  BY <1>4
<1> HIDE DEF x
<1>6. PICK n, q :
        /\ q = Queued(g) /\ n \notin q
        /\ Queued(g)' = q \cup (IF x \in Task THEN {n} ELSE {})
  <2> DEFINE n == Len(taskChannel[g]) + 1
  <2>1. /\ n \notin DOMAIN taskChannel[g]
        /\ Queued(g)' = Queued(g) \cup (IF x \in Task THEN {n} ELSE {})
    BY <1>2, <1>3, <1>5, QueuedPush
  <2> HIDE DEF n
  <2>2. n \notin Queued(g)
    BY <2>1 DEF Queued
  <2> QED
    BY <2>1, <2>2
<1>7. IsFiniteSet(q) /\ Cardinality(q) \in Nat
  BY <1>2, <1>6, TasksCounted DEF Queued, ChannelsOK
<1>8. chans # 0 /\ doneTaskChannel[g] \in Nat /\ (Busy(g)' <=> Busy(g))
  BY <1>1, <1>2, <1>4, HudorTasksConstants DEF Busy, ChannelsOK, Generation
<1>9. Cardinality(Waiting) = Cardinality(q) + (IF Busy(g) THEN 1 ELSE 0) + doneTaskChannel[g]
  BY <1>5, <1>6, <1>8 DEF Owed
<1>10. CASE call[c].pc = "enqueue"
  <2>1. x \in Task
    BY <1>10 DEF x, Owed, At
  <2>2. CallIs(c, "receive", call[c].hudor, call[c].on, call[c].task)
    BY <1>10, HandlerCall DEF Queueing, InitClose, ResetClose, CloseFrom, Goto
  <2>3. Waiting' = Waiting \cup {c} /\ c \notin Waiting
    BY <1>10, <2>2 DEF Waiting, At, CallIs
  <2>4. \A d \in At({"enqueue"})' : call'[d].task \in Task
    BY <2>2 DEF At, CallIs, Owed
  <2>5. Cardinality(Waiting') = Cardinality(Waiting) + 1
    BY <2>3, WaitingCounted, FS_AddElement
  <2>6. Cardinality(Queued(g)') = Cardinality(q) + 1
    BY <1>6, <1>7, <2>1, FS_AddElement
  <2>7. Cardinality(Waiting')
          = Cardinality(Queued(g)') + (IF Busy(g)' THEN 1 ELSE 0) + doneTaskChannel'[g]
    BY <1>1, <1>7, <1>8, <1>9, <2>5, <2>6
  <2> QED
    BY <1>1, <1>5, <2>4, <2>7 DEF Owed
<1>11. CASE call[c].pc # "enqueue"
  <2>1. x \notin Task
    BY <1>11, HudorTasksConstants DEF x
  <2>2. PICK pc \in {"initWait", "resetWait"} : \E h, on, t : CallIs(c, pc, h, on, t)
    BY <1>11, HandlerCall DEF Queueing, Enqueue, Goto
  <2>3. Waiting' = Waiting
    BY <1>2, <1>11, <2>2 DEF Waiting, At, CallIs
  <2>4. \A d \in At({"enqueue"})' : call'[d].task \in Task
    BY <2>2 DEF At, CallIs, Owed
  <2>5. Queued(g)' = q
    BY <1>6, <2>1
  <2>6. Cardinality(Waiting')
          = Cardinality(Queued(g)') + (IF Busy(g)' THEN 1 ELSE 0) + doneTaskChannel'[g]
    BY <1>1, <1>8, <1>9, <2>3, <2>5
  <2> QED
    BY <1>1, <1>5, <2>4, <2>6 DEF Owed
<1> QED
  BY <1>10, <1>11

LEMMA AwaitOwed ==
  ASSUME TypeInv, Ordered, Owed, NEW c \in Client, Await(c)
  PROVE  Owed'
<1>1. UNCHANGED <<chans, taskChannel, executor>>
  BY DEF Await, TakeToken, globals, goroutines
<1>2. CallIs(c, "idle", 0, 0, Closing)
  BY HandlerCall
<1>3. call[c].pc = "await" /\ call[c].on = chans /\ chans # 0 /\ chans \in Generation
  <2>1. call[c].pc = "await"
    BY DEF Await, Return
  <2> QED
    BY <2>1, HudorTasksConstants
       DEF Ordered, OneHudor, TypeInv, CallsOK, CallState, InRun, Owners, Generation
<1>4. PICK g \in Generation : g = chans
  BY <1>3
<1>5. /\ doneTaskChannel[g] > 0 /\ doneTaskChannel[g] \in Nat
      /\ doneTaskChannel'[g] = doneTaskChannel[g] - 1
  BY <1>3, <1>4 DEF Await, TakeToken, TypeInv, ChannelsOK
<1>6. Waiting' = Waiting \ {c} /\ c \in Waiting
  BY <1>2, <1>3 DEF Waiting, At, CallIs
<1>7. Cardinality(Waiting') = Cardinality(Waiting) - 1
  BY <1>6, WaitingCounted, FS_RemoveElement
<1>8. \A d \in At({"enqueue"})' : call'[d].task \in Task
  BY <1>2 DEF At, CallIs, Owed
<1>9. PICK q : q = Queued(g) /\ q = Queued(g)' /\ (Busy(g)' <=> Busy(g))
  BY <1>1 DEF Queued, Busy
<1>10. Cardinality(q) \in Nat
  BY <1>9, TasksCounted DEF Queued, TypeInv, ChannelsOK
<1>11. Cardinality(Waiting) = Cardinality(q) + (IF Busy(g) THEN 1 ELSE 0) + doneTaskChannel[g]
  BY <1>3, <1>4, <1>9 DEF Owed
<1>12. Cardinality(Waiting')
         = Cardinality(Queued(g)') + (IF Busy(g)' THEN 1 ELSE 0) + doneTaskChannel'[g]
  BY <1>5, <1>7, <1>9, <1>10, <1>11
<1> QED
  BY <1>1, <1>4, <1>8, <1>12 DEF Owed

\* New channels are empty, and nobody waits at the old ones.
LEMMA ReplacingOwed ==
  ASSUME TypeInv, Ordered, Owed, NEW c \in Client, Replacing(c)
  PROVE  Owed'
<1>1. /\ UNCHANGED <<taskChannel, doneTaskChannel>>
      /\ ~NewHudor(c) => executor' = executor
      /\ ~NewChannels(c) => chans' = chans
  BY ReplacingFrame DEF channels
<1>2. CASE ResetIdle(c)
  <2>1. UNCHANGED <<call, executor>>
    BY <1>2 DEF ResetIdle, goroutines
  <2>2. Waiting' = Waiting /\ chans' = chans /\ \A d \in At({"enqueue"})' : call'[d].task \in Task
    <3>1. chans' = chans
      BY <1>2 DEF ResetIdle
    <3> QED
      BY <2>1, <3>1 DEF Waiting, At, Owed
  <2> QED
    BY <1>1, <2>1, <2>2, OwedKept
<1>3. CASE InitWait(c) \/ ResetWait(c)
  <2>1. call[c].pc \in {"initWait", "resetWait"} /\ UNCHANGED <<chans, executor>>
    BY <1>3 DEF InitWait, ResetWait, Drained, Goto, Return, goroutines
  <2>2. \E pc \in {"newChannels", "idle"} : \E h, on, t : CallIs(c, pc, h, on, t)
    BY <1>3, HandlerCall
  <2> QED
    BY <1>1, <2>1, <2>2, CallOwed
<1>4. CASE NewHudor(c)
  <2>1. call[c].pc = "newHudor" /\ call[c].on = chans /\ chans \in Generation
    <3>1. call[c].pc = "newHudor"
      BY <1>4 DEF NewHudor, Return
    <3> QED
      BY <3>1, HudorTasksConstants
         DEF Ordered, OneHudor, TypeInv, CallsOK, CallState, Owners, Generation
  <2>2. CallIs(c, "idle", 0, 0, Closing)
    BY <1>4, HandlerCall
  <2>3. executor[chans].pc = "none" /\ executor' = [executor EXCEPT ![chans].pc = "start"]
    BY <1>4, <2>1 DEF NewHudor, TypeInv, FreshHudors
  <2>4. executor'[chans].pc = "start"
    BY <2>1, <2>3 DEF TypeInv, ExecutorsOK, ExecutorState
  <2>5. chans' = chans
    BY <1>4 DEF NewHudor
  <2> QED
    BY <1>1, <2>1, <2>2, <2>3, <2>4, <2>5, CallOwed DEF HasTask
<1>5. CASE NewChannels(c)
  <2>1. call[c].pc = "newChannels" /\ CallIs(c, "newHudor", call[c].hudor, chans + 1, call[c].task)
    BY <1>5, HandlerCall DEF NewChannels
  <2>2. \A d \in Client \ {c} : call[d].pc = "idle"
    BY <2>1 DEF Ordered, LifecycleAlone, Lifecycle, Initializing
  <2>3. Waiting' = {} /\ At({"enqueue"})' = {}
    BY <2>1, <2>2 DEF Waiting, At, CallIs
  <2>4. PICK g \in Generation : g = chans' /\ g > chans /\ ~(g <= chans)
    <3>1. chans' = chans + 1 /\ chans' \in Generation
      BY <1>5, RoomForChannels
    <3>2. chans \in Nat
      BY HudorTasksConstants DEF TypeInv, GlobalsOK, Owners
    <3> QED
      BY <3>1, <3>2
  <2>5. taskChannel'[g] = <<>> /\ doneTaskChannel'[g] = 0 /\ executor[g].pc = "none"
    BY <1>1, <2>4 DEF Ordered, OneExecutor, TypeInv, ExecutorsOK
  <2>6. executor' = executor
    BY <1>5 DEF NewChannels, goroutines
  <2>7. Queued(g)' = {} /\ ~Busy(g)'
    BY <2>5, <2>6 DEF Queued, Busy, HasTask
  <2>8. Cardinality(Waiting')
          = Cardinality(Queued(g)') + (IF Busy(g)' THEN 1 ELSE 0) + doneTaskChannel'[g]
    BY <2>3, <2>5, <2>7, FS_EmptySet
  <2> QED
    BY <2>3, <2>4, <2>8 DEF Owed
<1> QED
  BY <1>2, <1>3, <1>4, <1>5 DEF Replacing

\* A task goes from the channel to the executor, and from there to its answer.
LEMMA ExecutorOwed ==
  ASSUME TypeInv, Ordered, ~Stray, Owed, NEW h \in Generation, TaskExecutor(h)
  PROVE  Owed'
<1>1. h = chans /\ executor[h].on \in {0, h} /\ chans # 0
  BY ExecutorAlone, HudorTasksConstants DEF Generation
<1>2. UNCHANGED <<chans, call>>
  BY GoroutineFrame DEF Goroutine, handlerVars, globals
<1>3. Waiting' = Waiting /\ \A d \in At({"enqueue"})' : call'[d].task \in Task
  BY <1>2 DEF Waiting, At, Owed
<1>4. PICK s \in Seq(Names), d \in Nat : s = taskChannel[h] /\ d = doneTaskChannel[h]
  BY DEF TypeInv, ChannelsOK
<1>5. PICK q : q = Queued(h) /\ q = {i \in DOMAIN s : s[i] \in Task} /\ Cardinality(q) \in Nat
  BY <1>4, TasksCounted DEF Queued
<1>6. Cardinality(Waiting) = Cardinality(q) + (IF Busy(h) THEN 1 ELSE 0) + d
  BY <1>1, <1>4, <1>5 DEF Owed
<1>7. CASE TakeName(h)
  <2>1. /\ executor[h].pc = "recv" /\ executor[h].on = h /\ s # <<>>
        /\ taskChannel'[h] = Tail(s) /\ UNCHANGED doneTaskChannel
    <3>1. executor[h].on = h
      BY <1>1, <1>7, ExecutorMoves, HudorTasksConstants DEF Generation
    <3> QED
      BY <1>4, <1>7, <3>1 DEF TakeName, TypeInv, ChannelsOK
  <2>2. executor'[h].pc = (IF Head(s) = Closing THEN "close" ELSE "taken") /\ Head(s) \in Names
    BY <1>4, <1>7, <2>1, ExecutorMoves DEF ExecutorIs
  <2>3. PICK r : r = Queued(h)' /\ r = {i \in DOMAIN Tail(s) : Tail(s)[i] \in Task}
    BY <2>1 DEF Queued
  <2>4. Cardinality(r) \in Nat
    <3>1. Tail(s) \in Seq(Names)
      BY <2>1
    <3> QED
      BY <2>3, <3>1, TasksCounted
  <2>5. Cardinality(q) = Cardinality(r) + (IF Head(s) \in Task THEN 1 ELSE 0)
    BY <1>5, <2>1, <2>3, TailCounted
  <2>6. ~Busy(h) /\ (Busy(h)' <=> Head(s) \in Task)
    BY <2>1, <2>2, HudorTasksConstants DEF Busy, HasTask, Names
  <2>7. Cardinality(Waiting')
          = Cardinality(Queued(h)') + (IF Busy(h)' THEN 1 ELSE 0) + doneTaskChannel'[h]
    <3>1. doneTaskChannel'[h] = d
      BY <1>4, <2>1
    <3>2. Cardinality(Waiting') = Cardinality(q) + d
      BY <1>3, <1>5, <1>6, <2>6
    <3>3. (IF Busy(h)' THEN 1 ELSE 0) = (IF Head(s) \in Task THEN 1 ELSE 0)
      BY <2>6
    <3>4. Cardinality(Queued(h)') = Cardinality(r)
      BY <2>3
    <3> QED
      BY <2>4, <2>5, <3>1, <3>2, <3>3, <3>4
  <2> QED
    BY <1>1, <1>2, <1>3, <2>7 DEF Owed
<1>8. CASE Answer(h)
  <2>1. executor[h].pc = "done" /\ UNCHANGED taskChannel /\ doneTaskChannel'[h] = d + 1
    BY <1>1, <1>4, <1>8 DEF Answer, TypeInv, ChannelsOK
  <2>2. executor'[h].pc = "loop"
    BY <1>8, ExecutorMoves DEF ExecutorIs
  <2>3. Busy(h) /\ ~Busy(h)' /\ Queued(h)' = q
    BY <1>5, <2>1, <2>2 DEF Busy, HasTask, Queued
  <2>4. Cardinality(Waiting')
          = Cardinality(Queued(h)') + (IF Busy(h)' THEN 1 ELSE 0) + doneTaskChannel'[h]
    BY <1>3, <1>5, <1>6, <2>1, <2>3
  <2> QED
    BY <1>1, <1>2, <1>3, <2>4 DEF Owed
<1>9. CASE \/ ExecutorStart(h) \/ ExecutorLoop(h) \/ Register(h) \/ Launch(h)
           \/ Triggered(h) \/ ExecutorClose(h)
  <2>1. UNCHANGED <<taskChannel, doneTaskChannel>>
    BY <1>9 DEF ExecutorStart, ExecutorLoop, Register, Launch, Triggered, ExecutorClose, channels
  <2>2. executor'[h].pc \in HasTask <=> executor[h].pc \in HasTask
    BY <1>9, ExecutorMoves
       DEF ExecutorIs, ExecutorStart, ExecutorLoop, Register, Launch, Triggered, ExecutorClose,
           ExecutorStep, HasTask
  <2> QED
    BY <1>1, <1>2, <1>3, <2>1, <2>2, OwedKept
<1> QED
  BY <1>7, <1>8, <1>9 DEF TaskExecutor

LEMMA NextOwed ==
  ASSUME TypeInv, OrderInv, OwedInv, [HudorNext]_hudorVars
  PROVE  OwedInv'
<1>1. ASSUME Owed, UNCHANGED <<chans, call, taskChannel, doneTaskChannel, executor>>
      PROVE  Owed'
  BY <1>1, OwedKept DEF Waiting, At, Owed
<1>2. CASE HudorNext
  <2>1. SUFFICES ASSUME Orderly' PROVE Owed'
    BY DEF OwedInv
  <2>2. Orderly
    BY <1>2, <2>1, OrderlyBefore
  <2>3. Ordered /\ ~Stray /\ Owed
    BY <2>2 DEF OrderInv, OwedInv, Orderly
  <2>4. ASSUME NEW h \in Generation, TaskDelete(h) PROVE Owed'
    BY <1>1, <2>3, <2>4 DEF TaskDelete, DeleterLoop, Delete, DeleteThen, channels, handlerVars, globals
  <2>5. ASSUME NEW l \in DOMAIN launches, PoolRun(l) PROVE Owed'
    BY <1>1, <2>3, <2>5 DEF PoolRun, handlerVars, globals
  <2> QED
    BY <1>2, <2>3, <2>4, <2>5, StepCases, LightOwed, QueueingOwed, AwaitOwed, ReplacingOwed,
       ExecutorOwed DEF HandlerStep, Goroutine
<1>3. CASE UNCHANGED hudorVars
  <2>1. UNCHANGED <<chans, taskChannel, doneTaskChannel, executor, deleter, call, overlapped>>
    BY <1>3 DEF hudorVars, globals, channels, goroutines, historyVars
  <2>2. Orderly' <=> Orderly
    BY <2>1 DEF Orderly, Stray
  <2> QED
    BY <1>1, <2>1, <2>2 DEF OwedInv
<1> QED
  BY <1>2, <1>3

\* taskChannel, doneTaskChannel and taskExecutor of lib/main.go: tokens carry no
\* name, and still every handler that waits in Run is owed exactly one, in
\* whatever order handlers queue, wait and take: its task is queued, with the
\* executor, or answered, and no token is left over for a later call.
THEOREM TokensOwedCorrect == HudorSpec => []TokensOwed
<1>1. HudorInit => OwedInv
  BY DEF HudorInit, NoCall, OwedInv, Owed, At
<1>2. TypeInv /\ OrderInv /\ OwedInv => TokensOwed
  <2> SUFFICES ASSUME TypeInv, Ordered, Owed, chans # 0
               PROVE  Cardinality(At({"receive", "await"}))
                        = Cardinality({i \in DOMAIN taskChannel[chans] :
                                         taskChannel[chans][i] # Closing})
                          + Cardinality({h \in Generation : executor[h].pc \in HasTask})
                          + doneTaskChannel[chans]
    BY DEF TokensOwed, OrderInv, OwedInv, HasTask
  <2>1. chans \in Generation
    BY HudorTasksConstants DEF TypeInv, GlobalsOK, Owners, Generation
  <2>2. {i \in DOMAIN taskChannel[chans] : taskChannel[chans][i] # Closing} = Queued(chans)
    <3>1. PICK s \in Seq(Names) : s = taskChannel[chans]
      BY <2>1 DEF TypeInv, ChannelsOK
    <3>2. \A i \in DOMAIN s : s[i] \in Names
      OBVIOUS
    <3> QED
      BY <3>1, <3>2, HudorTasksConstants DEF Queued, Names
  <2>3. Cardinality({h \in Generation : executor[h].pc \in HasTask}) = IF Busy(chans) THEN 1 ELSE 0
    <3>1. ASSUME NEW h \in Generation, h # chans PROVE executor[h].pc \notin HasTask
      <4>1. h \in Int /\ chans \in Int
        BY <2>1 DEF Generation
      <4>2. CASE h < chans
        BY <4>2 DEF Ordered, OneExecutor, HasTask
      <4>3. CASE ~(h <= chans)
        BY <4>3 DEF TypeInv, ExecutorsOK, HasTask
      <4> QED
        BY <3>1, <4>1, <4>2, <4>3
    <3>2. {h \in Generation : executor[h].pc \in HasTask} = IF Busy(chans) THEN {chans} ELSE {}
      BY <2>1, <3>1 DEF Busy
    <3> QED
      BY <3>2, FS_EmptySet, FS_Singleton
  <2> QED
    BY <2>2, <2>3 DEF Owed, Waiting
<1> QED
  BY <1>1, <1>2, OrderAlways, NextOwed, PTL DEF HudorSpec

-----------------------------------------------------------------------------
(* Run returns for the task it was called for *)

\* The pool of the current Hudor has been launched, its answer not yet taken.
Launched == executor[chans].pc \in {"trigger", "done"} \/ doneTaskChannel[chans] # 0

\* The newest launch is of this task, in the current Hudor.
LastIs(t) ==
  /\ launches # <<>>
  /\ launches[Len(launches)].hudor = chans /\ launches[Len(launches)].task = t

\* What is queued, with the executor or launched is this task.
Asked(t) ==
  /\ \A i \in Queued(chans) : taskChannel[chans][i] = t
  /\ Busy(chans) => executor[chans].task = t
  /\ Launched => LastIs(t)

Asks == \A c \in Waiting : Asked(call[c].task)

AsksInv == Orderly /\ ~together => Asks

\* Nobody new waits, and what the others wait for is still what is under way.
LEMMA AsksKept ==
  ASSUME Asks, Waiting' \subseteq Waiting,
         \A c \in Waiting' : call'[c].task = call[c].task,
         \A t \in Names : Asked(t) => Asked(t)',
         \A c \in Waiting : call[c].task \in Names
  PROVE  Asks'
<1>1. ASSUME NEW c \in Waiting'
      PROVE  Asked(call[c].task)'
  <2>1. PICK t \in Names : t = call[c].task /\ t = call'[c].task
    BY <1>1
  <2>2. Asked(t)
    BY <1>1, <2>1 DEF Asks
  <2>3. Asked(t)'
    BY <2>2
  <2> QED
    BY <2>1, <2>3
<1> QED
  BY <1>1 DEF Asks

LEMMA NamesAwaited == TypeInv => \A c \in Waiting : call[c].task \in Names
BY DEF TypeInv, CallsOK, CallState, Waiting, At

LEMMA AskedSame ==
  ASSUME NEW t, Asked(t), UNCHANGED <<chans, taskChannel, doneTaskChannel, executor, launches>>
  PROVE  Asked(t)'
<1>1. /\ Queued(chans)' = Queued(chans) /\ (Busy(chans)' <=> Busy(chans))
      /\ (Launched' <=> Launched) /\ (LastIs(t)' <=> LastIs(t))
  BY DEF Queued, Busy, Launched, LastIs
<1> QED
  BY <1>1 DEF Asked

\* A handler that does not begin to wait.
LEMMA CallAsks ==
  ASSUME TypeInv, Asks, NEW c \in Client, NEW pc, NEW h, NEW on, CallIs(c, pc, h, on, call[c].task),
         pc \in {"receive", "await"} => call[c].pc \in {"receive", "await"},
         UNCHANGED <<chans, taskChannel, doneTaskChannel, executor, launches>>
  PROVE  Asks'
<1>1. Waiting' \subseteq Waiting /\ \A d \in Waiting' : call'[d].task = call[d].task
  BY DEF Waiting, At, CallIs
<1> QED
  BY <1>1, AskedSame, AsksKept, NamesAwaited

LEMMA LightAsks ==
  ASSUME TypeInv, Asks, NEW c \in Client, Light(c)
  PROVE  Asks'
<1>1. UNCHANGED <<chans, taskChannel, doneTaskChannel, executor, launches>>
  BY LightFrame DEF globals, channels, goroutines
<1>2. CASE Receive(c)
  <2>1. call[c].pc = "receive" /\ CallIs(c, "await", call[c].hudor, chans, call[c].task)
    BY <1>2, HandlerCall DEF Receive
  <2> QED
    BY <1>1, <2>1, CallAsks
<1>3. CASE ~Receive(c)
  <2>1. \E pc, h, on, t : CallIs(c, pc, h, on, t) /\ pc \notin {"receive", "await"}
    <3>1. CASE \E t \in Task : BeginRun(c, t)
      BY <3>1, HandlerCall
    <3>2. CASE \E t \in Task : BeginStop(c, t)
      BY <3>2, HandlerCall
    <3>3. CASE BeginInit(c)
      BY <3>3, HandlerCall
    <3>4. CASE BeginReset(c)
      BY <3>4, HandlerCall
    <3>5. CASE StopWait(c)
      BY <3>5, HandlerCall
    <3>6. CASE StopNext(c)
      <4>1. call[c].pc = "stopAll"
        BY <3>6 DEF StopNext
      <4> QED
        BY <3>6, <4>1, HandlerCall
    <3> QED
      BY <1>3, <3>1, <3>2, <3>3, <3>4, <3>5, <3>6 DEF Light
  <2>2. Waiting' \subseteq Waiting /\ \A d \in Waiting' : call'[d].task = call[d].task
    BY <2>1 DEF Waiting, At, CallIs
  <2> QED
    BY <1>1, <2>2, AskedSame, AsksKept, NamesAwaited
<1> QED
  BY <1>2, <1>3

\* While a handler loads or closes, and before a handler queues, nobody waits.
LEMMA QueueingAsks ==
  ASSUME TypeInv, Ordered, Alone, Asks, NEW c \in Client, Queueing(c)
  PROVE  Asks'
<1>1. UNCHANGED <<chans, doneTaskChannel, executor>>
  BY QueueingFrame DEF globals, goroutines
<1>2. CASE call[c].pc = "enqueue"
  <2>1. CallIs(c, "receive", call[c].hudor, call[c].on, call[c].task)
    BY <1>2, HandlerCall DEF Queueing, InitClose, ResetClose, CloseFrom, Goto
  <2>2. Waiting = {} /\ Waiting' = {c}
    BY <1>2, <2>1 DEF Alone, OneInRun, Waiting, At, CallIs, InRun
  <2>3. PICK g \in Generation : g = chans
    <3>1. chans # 0
      BY <1>2 DEF Ordered, OneHudor, InRun
    <3> QED
      BY <3>1, HudorTasksConstants DEF TypeInv, GlobalsOK, Owners, Generation
  <2>4. Free(g)
    BY <2>2, <2>3 DEF Alone, OneName
  <2>5. PICK x \in Names : x = call[c].task /\ x = call'[c].task
    BY <2>1 DEF TypeInv, CallsOK, CallState, CallIs
  <2>6. taskChannel' = Push(taskChannel, g, x)
    BY <1>2, <2>3, <2>5, QueueingFrame
  <2>7. \A i \in Queued(g)' : taskChannel'[g][i] = x
    <3>1. PICK n : taskChannel'[g][n] = x /\ Queued(g)' \subseteq Queued(g) \cup {n}
      BY <2>6, QueuedPush DEF TypeInv
    <3> QED
      BY <2>4, <3>1 DEF Free
  <2>8. ~Busy(g)' /\ doneTaskChannel'[g] = 0
    BY <1>1, <2>4 DEF Free, Busy
  <2>9. Asked(x)'
    BY <1>1, <2>3, <2>7, <2>8 DEF Asked, Launched, Busy, HasTask
  <2> QED
    BY <2>2, <2>5, <2>9 DEF Asks
<1>3. CASE call[c].pc # "enqueue"
  <2>1. call[c].pc \in Lifecycle
    BY <1>3 DEF Queueing, Enqueue, InitClose, ResetClose, CloseFrom, Goto, Lifecycle, Initializing
  <2>2. PICK pc \in {"initWait", "resetWait"} : \E h, on, t : CallIs(c, pc, h, on, t)
    BY <1>3, HandlerCall DEF Queueing, Enqueue, Goto
  <2>3. Waiting' = {}
    BY <2>1, <2>2 DEF Ordered, LifecycleAlone, Waiting, At, CallIs
  <2> QED
    BY <2>3 DEF Asks
<1> QED
  BY <1>2, <1>3

LEMMA AwaitAsks ==
  ASSUME TypeInv, Alone, NEW c \in Client, Await(c)
  PROVE  Asks'
<1>1. CallIs(c, "idle", 0, 0, Closing) /\ call[c].pc = "await"
  BY HandlerCall DEF Await, Return
<1>2. Waiting' = {}
  BY <1>1 DEF Alone, OneInRun, Waiting, At, CallIs, InRun
<1> QED
  BY <1>2 DEF Asks

LEMMA ReplacingAsks ==
  ASSUME TypeInv, Ordered, Asks, NEW c \in Client, Replacing(c)
  PROVE  Asks'
<1>1. CASE ResetIdle(c)
  <2>1. UNCHANGED <<chans, taskChannel, doneTaskChannel, executor, launches, call>>
    BY <1>1 DEF ResetIdle, channels, goroutines
  <2>2. Waiting' = Waiting
    BY <2>1 DEF Waiting, At
  <2> QED
    BY <2>1, <2>2, AskedSame, AsksKept, NamesAwaited
<1>2. CASE InitWait(c) \/ ResetWait(c) \/ NewChannels(c) \/ NewHudor(c)
  <2>1. call[c].pc \in Lifecycle
    BY <1>2 DEF InitWait, ResetWait, NewChannels, NewHudor, Goto, Return, Lifecycle, Initializing
  <2>2. \E pc, h, on, t : CallIs(c, pc, h, on, t) /\ pc \notin {"receive", "await"}
    <3>1. CASE InitWait(c)
      BY <3>1, HandlerCall
    <3>2. CASE ResetWait(c)
      BY <3>2, HandlerCall
    <3>3. CASE NewChannels(c)
      BY <3>3, HandlerCall
    <3>4. CASE NewHudor(c)
      BY <3>4, HandlerCall
    <3> QED
      BY <1>2, <3>1, <3>2, <3>3, <3>4
  <2>3. Waiting' = {}
    BY <2>1, <2>2 DEF Ordered, LifecycleAlone, Waiting, At, CallIs
  <2> QED
    BY <2>3 DEF Asks
<1> QED
  BY <1>1, <1>2 DEF Replacing

\* The name moves from the channel to the executor and into the launch.
LEMMA ExecutorAsks ==
  ASSUME TypeInv, Ordered, ~Stray, Alone, Asks, NEW h \in Generation, TaskExecutor(h)
  PROVE  Asks'
<1>1. h = chans /\ executor[h].on \in {0, h}
  BY ExecutorAlone
<1>2. UNCHANGED <<chans, call>>
  BY GoroutineFrame DEF Goroutine, handlerVars, globals
<1>3. Waiting' = Waiting
  BY <1>2 DEF Waiting, At
<1>4. SUFFICES ASSUME NEW t \in Names, Asked(t) PROVE Asked(t)'
  BY <1>2, <1>3, <1>4, AsksKept, NamesAwaited
<1>5. /\ \A i \in Queued(h) : taskChannel[h][i] = t
      /\ Busy(h) => executor[h].task = t
      /\ executor[h].pc \in {"trigger", "done"} \/ doneTaskChannel[h] # 0 => LastIs(t)
  BY <1>1, <1>4 DEF Asked, Launched
<1>6. UNCHANGED launches => LastIs(t)' = LastIs(t)
  BY <1>2 DEF LastIs
<1>7. SUFFICES /\ \A i \in Queued(h)' : taskChannel'[h][i] = t
               /\ Busy(h)' => executor'[h].task = t
               /\ executor'[h].pc \in {"trigger", "done"} \/ doneTaskChannel'[h] # 0 => LastIs(t)'
  BY <1>1, <1>2 DEF Asked, Launched, Queued, Busy
<1>8. CASE TakeName(h)
  <2>1. PICK s \in Seq(Names) : s = taskChannel[h]
    BY DEF TypeInv, ChannelsOK
  <2>2. executor[h].on = h
    BY <1>1, <1>8, ExecutorMoves, HudorTasksConstants DEF Generation
  <2>3. s # <<>> /\ taskChannel'[h] = Tail(s) /\ UNCHANGED <<doneTaskChannel, launches>>
    BY <1>8, <2>1, <2>2 DEF TakeName, TypeInv, ChannelsOK
  <2>4. /\ executor'[h].pc = (IF Head(s) = Closing THEN "close" ELSE "taken")
        /\ executor'[h].task = Head(s) /\ Head(s) \in Names
    BY <1>8, <2>1, <2>2, ExecutorMoves DEF ExecutorIs
  <2>5. /\ 1 \in DOMAIN s /\ Head(s) = s[1]
        /\ \A i \in DOMAIN Tail(s) : i + 1 \in DOMAIN s /\ Tail(s)[i] = s[i + 1]
    BY <2>1, <2>3, TailShifts
  <2>6. \A i \in Queued(h)' : taskChannel'[h][i] = t
    BY <1>5, <2>1, <2>3, <2>5 DEF Queued
  <2>7. Busy(h)' => executor'[h].task = t
    <3>1. Busy(h)' => Head(s) \in Task
      BY <2>4 DEF Busy, HasTask, Names
    <3>2. Head(s) \in Task => Head(s) = t
      BY <1>5, <2>1, <2>5 DEF Queued
    <3> QED
      BY <2>4, <3>1, <3>2
  <2>8. executor'[h].pc \notin {"trigger", "done"}
    BY <2>4
  <2> QED
    BY <1>5, <1>6, <2>3, <2>6, <2>7, <2>8
<1>9. CASE Launch(h)
  <2>1. UNCHANGED <<taskChannel, doneTaskChannel>> /\ executor[h].pc = "registered"
    BY <1>9 DEF Launch, ExecutorStep, channels
  <2>2. executor'[h].task = t /\ executor[h].task = t
    BY <1>5, <1>9, <2>1, ExecutorMoves DEF ExecutorIs, Busy, HasTask
  <2>3. LastIs(t)'
    <3>1. launches \in Seq(LaunchState)
      BY DEF TypeInv, LaunchesOK
    <3>2. /\ Len(launches') = Len(launches) + 1 /\ launches' \in Seq(LaunchState)
          /\ launches'[Len(launches) + 1].hudor = h /\ launches'[Len(launches) + 1].task = t
      BY <1>9, <2>2, LaunchAppends
    <3> QED
      BY <1>1, <1>2, <3>1, <3>2 DEF LastIs
  <2> QED
    BY <1>5, <2>1, <2>2, <2>3 DEF Queued
<1>10. CASE Answer(h)
  <2>1. executor[h].pc = "done" /\ UNCHANGED <<taskChannel, launches>>
    BY <1>10 DEF Answer
  <2>2. executor'[h].pc = "loop"
    BY <1>10, ExecutorMoves DEF ExecutorIs
  <2> QED
    BY <1>5, <1>6, <2>1, <2>2 DEF Queued, Busy, HasTask
<1>11. CASE ExecutorStart(h) \/ ExecutorLoop(h) \/ Register(h) \/ Triggered(h) \/ ExecutorClose(h)
  <2>1. UNCHANGED <<taskChannel, doneTaskChannel, launches>>
    BY <1>11 DEF ExecutorStart, ExecutorLoop, Register, Triggered, ExecutorClose, channels
  <2>2. /\ executor'[h].task = executor[h].task
        /\ executor'[h].pc \in HasTask => executor[h].pc \in HasTask
        /\ executor'[h].pc \in {"trigger", "done"} => executor[h].pc \in {"trigger", "done"}
    BY <1>11, ExecutorMoves
       DEF ExecutorIs, ExecutorStart, ExecutorLoop, Register, Triggered, ExecutorClose,
           ExecutorStep, HasTask
  <2> QED
    BY <1>5, <1>6, <2>1, <2>2 DEF Queued, Busy
<1> QED
  BY <1>8, <1>9, <1>10, <1>11 DEF TaskExecutor

LEMMA PoolAsks ==
  ASSUME TypeInv, Asks, NEW l \in DOMAIN launches, PoolRun(l)
  PROVE  Asks'
<1>1. UNCHANGED <<chans, call, taskChannel, doneTaskChannel, executor>>
  BY DEF PoolRun, handlerVars, globals
<1>2. Waiting' = Waiting
  BY <1>1 DEF Waiting, At
<1>3. launches \in Seq(LaunchState)
  BY DEF TypeInv, LaunchesOK
<1>4. PICK pc : LaunchIs(l, pc)
  BY PoolMoves DEF PoolRun
<1>5. /\ Len(launches') = Len(launches) /\ launches' \in Seq(LaunchState)
      /\ \A k \in DOMAIN launches :
           launches'[k].hudor = launches[k].hudor /\ launches'[k].task = launches[k].task
  BY <1>3, <1>4 DEF LaunchIs
<1>6. \A t \in Names : LastIs(t) => LastIs(t)'
  BY <1>1, <1>3, <1>5 DEF LastIs
<1>7. \A t \in Names : Asked(t) => Asked(t)'
  BY <1>1, <1>6 DEF Asked, Launched, Queued, Busy
<1> QED
  BY <1>1, <1>2, <1>7, AsksKept, NamesAwaited

LEMMA NextAsks ==
  ASSUME TypeInv, OrderInv, AloneInv, AsksInv, [HudorNext]_hudorVars
  PROVE  AsksInv'
<1>1. ASSUME Asks, UNCHANGED <<chans, call, taskChannel, doneTaskChannel, executor, launches>>
      PROVE  Asks'
  BY <1>1, AskedSame, AsksKept, NamesAwaited DEF Waiting, At
<1>2. CASE HudorNext
  <2>1. SUFFICES ASSUME Orderly', ~together' PROVE Asks'
    BY DEF AsksInv
  <2>2. Orderly /\ ~together
    BY <1>2, <2>1, OrderlyBefore, TogetherStays
  <2>3. Ordered /\ ~Stray /\ Alone /\ Asks
    BY <2>2 DEF OrderInv, AloneInv, AsksInv, Orderly
  <2>4. ASSUME NEW h \in Generation, TaskDelete(h) PROVE Asks'
    BY <1>1, <2>3, <2>4 DEF TaskDelete, DeleterLoop, Delete, DeleteThen, channels, handlerVars, globals
  <2> QED
    BY <1>2, <2>3, <2>4, StepCases, LightAsks, QueueingAsks, AwaitAsks, ReplacingAsks,
       ExecutorAsks, PoolAsks DEF HandlerStep, Goroutine
<1>3. CASE UNCHANGED hudorVars
  <2>1. UNCHANGED <<chans, taskChannel, doneTaskChannel, executor, deleter, launches, call,
                    overlapped, together>>
    BY <1>3 DEF hudorVars, globals, channels, goroutines, historyVars
  <2>2. Orderly' <=> Orderly
    BY <2>1 DEF Orderly, Stray
  <2> QED
    BY <1>1, <2>1, <2>2 DEF AsksInv
<1> QED
  BY <1>2, <1>3

\* A token is taken for the newest launch, whose producers run.
LEMMA AwaitStarted ==
  ASSUME TypeInv, OrderInv, AloneInv, AsksInv, Orderly, ~together, NEW c \in Client, Await(c)
  PROVE  LET last == launches[Len(launches)]
         IN  last.hudor = call[c].hudor /\ last.task = call[c].task /\ last.pc # "start"
<1>1. Ordered /\ Alone /\ Asks
  BY DEF OrderInv, AloneInv, AsksInv
<1>2. call[c].pc = "await" /\ call[c].on = chans /\ call[c].hudor = chans /\ chans # 0
  BY <1>1 DEF Await, Return, Ordered, OneHudor, InRun
<1>3. PICK g \in Generation : g = chans
  BY <1>2, HudorTasksConstants DEF TypeInv, GlobalsOK, Owners, Generation
<1>4. doneTaskChannel[g] > 0 /\ doneTaskChannel[g] # 0
  BY <1>2, <1>3 DEF Await, TypeInv, ChannelsOK
<1>5. ~Busy(g)
  BY <1>1, <1>4 DEF Alone, OneName
<1>6. LastIs(call[c].task)
  BY <1>1, <1>2, <1>3, <1>4 DEF Asks, Asked, Launched, Waiting, At
<1>7. launches # <<>> /\ launches \in Seq(LaunchState)
  BY <1>6 DEF LastIs, TypeInv, LaunchesOK
<1>8. Len(launches) \in DOMAIN launches
  BY <1>7
<1>9. launches[Len(launches)].pc # "start"
  BY <1>3, <1>5, <1>6, <1>8 DEF LastIs, TypeInv, LaunchesOK, Busy, HasTask
<1> QED
  BY <1>2, <1>6, <1>9 DEF LastIs

\* Run of lib/main.go returns with a token that says nothing of the task it
\* answers; as long as one handler is in Run at a time it is the right one: the
\* newest pool is of the task it was called for, in its Hudor, and has its
\* producers.
THEOREM RunStartsCorrect == HudorSpec => RunStarts
<1>1. HudorInit => TypeInv /\ OrderInv /\ AloneInv /\ AsksInv
  <2>1. HudorInit => AsksInv
    BY DEF HudorInit, NoCall, AsksInv, Asks, Waiting, At
  <2> QED
    BY <2>1, HudorInitTyped, InitOrdered, InitAlone
<1>2. TypeInv /\ OrderInv /\ AloneInv /\ AsksInv /\ [HudorNext]_hudorVars
        => (TypeInv /\ OrderInv /\ AloneInv /\ AsksInv)'
  BY HudorNextTyped, NextOrdered, NextAlone, NextAsks
<1>3. TypeInv /\ OrderInv /\ AloneInv /\ AsksInv /\ [HudorNext]_hudorVars
        => [\A c \in Client :
              Orderly /\ ~together /\ Await(c) =>
                LET last == launches[Len(launches)]
                IN  last.hudor = call[c].hudor /\ last.task = call[c].task
                      /\ last.pc # "start"]_hudorVars
  BY AwaitStarted
<1> QED
  BY <1>1, <1>2, <1>3, PTL DEF HudorSpec, RunStarts

=============================================================================
