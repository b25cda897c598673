--------------------------- MODULE SessionProofs ---------------------------
(***************************************************************************)
(* Proofs about the session of the server, for any clients, profiles and   *)
(* mixes of calls and any size of a page: every state is well typed; no    *)
(* Hudor works out of reach, as long as calls do not get in each other's   *)
(* way; a handler panics only for the causes named; and the log reaches    *)
(* the sessions in order and the pages show it without gaps.               *)
(***************************************************************************)
EXTENDS ServerSession, SequenceTheorems, TLAPS

USE DEF S, H, session

Routes == Loads \cup TaskRoutes \cup {"getsession", "getresults", "reset", "logs"}
PanicRecords == Routes \X {"hudor", "profile", "rate", "task", "line"}

LogState == [lines : Nat, new : BOOLEAN]
TailState == [file : Nat, at : Nat, ended : BOOLEAN]
ReaderState == [pc : {"start", "lines", "append", "ended"}, tail : Nat, line : Line,
                session : Nat, output : Seq(Line)]
SessionState == [hudor : Nat, profile : Profiles, tasks : SUBSET Task, output : Seq(Line),
                 offset : Nat, shown : Seq(Line)]
HudorState == [open : BOOLEAN, tasks : SUBSET Task, active : SUBSET Task,
               working : SUBSET Task, updated : SUBSET Task, doubled : SUBSET Task]
CallState == [pc : Points, route : Routes \cup {"none"}, profile : Profiles, hudor : Nat,
              tasks : SUBSET Task, doing : SUBSET Task, i : Nat, page : Seq(Line), session : Nat, offset : Nat]

\* Points at which a handler does one of its tasks, and at which it has found a Hudor.
Doing == {"start", "wait", "update"}
WithHudor == Doing \cup {"stopping", "closing"}

\* The handler that is at a point.
RouteAt(pc, route) ==
  /\ pc = "profile" => route = "getalltasks"
  /\ pc \in {"create", "close", "store"} => route \in Loads
  /\ pc \in {"list", "tasks"} => route = "getalltasks"
  /\ pc = "next" => route \in TaskRoutes
  /\ pc = "start" => route = "runtask"
  /\ pc = "wait" => route = "stoptask"
  /\ pc = "update" => route = "updatetaskrate"
  /\ pc = "use" => route \in {"getsession", "getresults"}
  /\ pc = "results" => route = "getresults"
  /\ pc \in {"active", "stopAll", "stopping", "closing", "resetFile", "resetSession"}
       => route = "reset"
  /\ pc \in {"test", "take", "advance", "return"} => route = "logs"

SessTyped ==
  /\ sess \in Seq(SessionState) /\ Len(sess) # 0
  /\ \A k \in DOMAIN sess : sess[k].hudor <= Len(hudors)

FilesTyped ==
  /\ file \in Seq(LogState) /\ Len(file) # 0
  /\ tails \in Seq(TailState)
  /\ \A k \in DOMAIN tails : tails[k].file \in DOMAIN file

ReadersTyped ==
  /\ tailObj = Len(tails)
  /\ readers \in Seq(ReaderState) /\ Len(readers) = Len(tails)
  /\ \A r \in DOMAIN readers :
       /\ readers[r].tail <= Len(tails) /\ readers[r].session <= Len(sess)
       /\ readers[r].pc # "start" => readers[r].tail # 0
       /\ readers[r].pc = "append" => readers[r].session # 0

HudorsTyped ==
  /\ mix \in Mixes /\ config \in Profiles
  /\ hudors \in Seq(HudorState) /\ hudor \in 0 .. Len(hudors)

CallOK(r) ==
  /\ r \in CallState /\ r.hudor <= Len(hudors)
  /\ Len(r.page) = r.i /\ r.i <= PageSize
  /\ r.pc = "take" => r.i # PageSize
  /\ r.session <= Len(sess) /\ (r.pc = "return" => r.session # 0)
  /\ RouteAt(r.pc, r.route)
  /\ r.doing \subseteq r.tasks /\ (r.pc \notin Doing => r.doing = {})
  /\ r.pc \in WithHudor => r.hudor # 0

CallsTyped == call \in [Client -> CallState] /\ \A c \in Client : CallOK(call[c])

Typed ==
  /\ SessTyped /\ FilesTyped /\ ReadersTyped /\ HudorsTyped /\ CallsTyped
  /\ panicked \subseteq PanicRecords

-----------------------------------------------------------------------------
(* Sequences of records *)

LEMMA SeqPut ==
  ASSUME NEW R, NEW q \in Seq(R), NEW k \in DOMAIN q, NEW r \in R
  PROVE  LET p == [q EXCEPT ![k] = r]
         IN  /\ p \in Seq(R) /\ Len(p) = Len(q) /\ DOMAIN p = DOMAIN q /\ p[k] = r
             /\ \A j \in DOMAIN q \ {k} : p[j] = q[j]
OBVIOUS

LEMMA SeqAdd ==
  ASSUME NEW R, NEW q \in Seq(R), NEW r \in R
  PROVE  LET p == Append(q, r)
         IN  /\ p \in Seq(R) /\ Len(p) = Len(q) + 1 /\ DOMAIN p = DOMAIN q \cup {Len(p)}
             /\ Len(p) \notin DOMAIN q /\ p[Len(p)] = r /\ \A j \in DOMAIN q : p[j] = q[j]
OBVIOUS

LEMMA SeqTyped ==
  ASSUME NEW R, NEW q \in Seq(R), NEW T, \A k \in DOMAIN q : q[k] \in T
  PROVE  q \in Seq(T)
<1>1. q \in [1 .. Len(q) -> T] /\ Len(q) \in Nat
  OBVIOUS
<1> QED
  BY <1>1, SeqDef

-----------------------------------------------------------------------------
(* The initial state *)

LEMMA EmptySessionTyped == EmptySession \in SessionState
BY DEF EmptySession, SessionState, Profiles

LEMMA NoCallOK == SessTyped /\ HudorsTyped => CallOK(NoCall)
<1> SUFFICES ASSUME SessTyped, HudorsTyped PROVE CallOK(NoCall)
  OBVIOUS
<1>1. NoCall \in CallState
  BY DEF NoCall, CallState, Points, Profiles
<1>2. /\ NoCall.pc = "idle" /\ NoCall.hudor = 0 /\ NoCall.i = 0 /\ NoCall.page = <<>>
      /\ NoCall.session = 0 /\ NoCall.doing = {}
  BY DEF NoCall
<1>3. 0 <= Len(hudors) /\ 0 <= Len(sess) /\ 0 <= PageSize
  BY ServerSessionConstants DEF SessTyped, HudorsTyped
<1>4. RouteAt(NoCall.pc, NoCall.route)
  BY <1>2 DEF RouteAt
<1>5. Len(NoCall.page) = NoCall.i
  BY <1>2
<1> QED
  BY <1>1, <1>2, <1>3, <1>4, <1>5 DEF CallOK, Doing, WithHudor

LEMMA TypedInit == Init => Typed
<1> SUFFICES ASSUME Init PROVE Typed
  OBVIOUS
<1>1. SessTyped
  <2>1. sess \in Seq(SessionState) /\ Len(sess) = 1 /\ sess[1] = EmptySession
    BY EmptySessionTyped DEF Init
  <2> QED
    BY <2>1 DEF SessTyped, Init, EmptySession
<1>2. FilesTyped
  <2>1. [lines |-> 0, new |-> TRUE] \in LogState
    BY DEF LogState
  <2>2. file = <<[lines |-> 0, new |-> TRUE]>> /\ tails = <<>>
    BY DEF Init, Created
  <2>3. file \in Seq(LogState) /\ Len(file) = 1
    BY <2>1, <2>2
  <2> QED
    BY <2>2, <2>3 DEF FilesTyped
<1>3. ReadersTyped
  BY DEF Init, ReadersTyped
<1>4. HudorsTyped
  BY DEF Init, HudorsTyped, Profiles
<1>5. CallsTyped
  <2>1. CallOK(NoCall)
    BY <1>1, <1>4, NoCallOK
  <2> QED
    BY <2>1 DEF CallsTyped, CallOK, Init
<1> QED
  BY <1>1, <1>2, <1>3, <1>4, <1>5 DEF Typed, Init

-----------------------------------------------------------------------------
(* Which step changes what *)

Handler(c) == Load(c) \/ Tasks(c) \/ Reset(c) \/ Logs(c)

LogStep == \/ LogLine
           \/ \E k \in DOMAIN tails : TailTurns(k)
           \/ \E r \in DOMAIN readers : Reader(r)

\* Steps of a handler that change a Hudor.
Changes(c) ==
  \/ \E t \in call[c].doing : StartTask(c, t) \/ UpdateRate(c, t)
  \/ CreateLog(c) \/ CloseHudor(c)

TaskStep == \E h \in DOMAIN hudors, t \in Task : FinishTask(h, t) \/ ForgetTask(h, t)

Followed == \E c \in Client, p \in mix.profiles : FollowLog(c, p)

\* Steps of a handler that change the session.
Writes(c) == SetProfile(c) \/ StoreHudor(c) \/ StoreTasks(c) \/ ResetSession(c) \/ StoreOffset(c)

LEMMA StepCases == Next => LogStep \/ (\E c \in Client : Handler(c)) \/ TaskStep
BY DEF Next, LogStep, Handler, TaskStep

LEMMA LogStepFrame ==
  ASSUME LogStep
  PROVE  /\ UNCHANGED <<tailObj, hudorVars, call, calls, historyVars>>
         /\ LogLine \/ UNCHANGED file
         /\ (\E k \in DOMAIN tails : TailTurns(k)) \/ (\E r \in DOMAIN readers : ReaderReceive(r))
            \/ UNCHANGED tails
         /\ (\E r \in DOMAIN readers : Reader(r)) \/ UNCHANGED readers
         /\ (\E r \in DOMAIN readers : ReaderAppend(r)) \/ UNCHANGED sess
<1>1. CASE LogLine
  BY <1>1 DEF LogLine
<1>2. CASE \E k \in DOMAIN tails : TailTurns(k)
  BY <1>2 DEF TailTurns
<1>3. ASSUME NEW r \in DOMAIN readers, Reader(r)
      PROVE  /\ UNCHANGED <<tailObj, hudorVars, call, calls, historyVars, file>>
             /\ ReaderReceive(r) \/ UNCHANGED tails
             /\ ReaderAppend(r) \/ UNCHANGED sess
  BY <1>3 DEF Reader, ReaderStart, ReaderReceive, ReaderAppend, ReaderEnd
<1> QED
  BY <1>1, <1>2, <1>3 DEF LogStep

LEMMA TaskStepFrame ==
  ASSUME TaskStep
  PROVE  UNCHANGED <<sess, logVars, config, hudor, mix, call, calls, historyVars>>
BY DEF TaskStep, FinishTask, ForgetTask

LEMMA UseHudorFrame ==
  ASSUME NEW c, NEW from, NEW then, UseHudor(c, from, then)
  PROVE  UNCHANGED <<sess, file, tails, tailObj, readers, hudorVars, calls, overlapped, crowded>>
BY DEF UseHudor, Panic, CallOnly, logVars, historyVars

LEMMA PanicFrame ==
  ASSUME NEW c, NEW for, Panic(c, for)
  PROVE  UNCHANGED <<sess, file, tails, tailObj, readers, hudorVars, calls, overlapped, crowded>>
BY DEF Panic, logVars

LEMMA BeginFrame ==
  ASSUME NEW c, NEW route, NEW to, NEW p, NEW T, Begin(c, route, to, p, T)
  PROVE  UNCHANGED <<sess, file, tails, tailObj, readers, hudorVars, panicked, crowded>>
BY DEF Begin, Enter, logVars

LEMMA LoadFrame ==
  ASSUME NEW c \in Client, Load(c)
  PROVE  /\ Followed \/ UNCHANGED <<tails, tailObj, readers, crowded>>
         /\ CreateLog(c) \/ UNCHANGED file
         /\ Writes(c) \/ UNCHANGED sess
         /\ NewHudor(c) \/ UNCHANGED <<config, hudor, mix>>
         /\ NewHudor(c) \/ Changes(c) \/ UNCHANGED hudors
<1>1. ASSUME NEW p \in mix.profiles, FollowLog(c, p)
      PROVE  Followed /\ UNCHANGED <<file, sess, hudorVars>>
  <2>1. Followed
    BY <1>1 DEF Followed
  <2>2. UNCHANGED <<file, sess, hudorVars>>
    BY <1>1 DEF FollowLog, Enter
  <2> QED
    BY <2>1, <2>2
<1>2. ASSUME NEW p \in mix.profiles, BeginLoad(c, p)
      PROVE  UNCHANGED <<tails, tailObj, readers, crowded, file, sess, hudorVars>>
  BY <1>2, BeginFrame DEF BeginLoad
<1>3. CASE SetProfile(c) \/ StoreHudor(c) \/ StoreTasks(c)
  BY <1>3 DEF SetProfile, StoreHudor, StoreTasks, SessionOnly, logVars, historyVars, hudorVars, Writes
<1>4. CASE CreateLog(c)
  BY <1>4 DEF CreateLog, historyVars, Changes
<1>5. CASE NewHudor(c)
  BY <1>5 DEF NewHudor, logVars, historyVars
<1>6. CASE ListTasks(c)
  BY <1>6, UseHudorFrame DEF ListTasks, hudorVars
<1> QED
  BY <1>1, <1>2, <1>3, <1>4, <1>5, <1>6 DEF Load, hudorVars

LEMMA TasksFrame ==
  ASSUME NEW c \in Client, Tasks(c)
  PROVE  /\ UNCHANGED <<sess, file, tails, tailObj, readers, config, hudor, mix, crowded>>
         /\ Changes(c) \/ UNCHANGED hudors
<1>1. ASSUME NEW route, NEW T, BeginTasks(c, route, T)
      PROVE  UNCHANGED <<sess, file, tails, tailObj, readers, hudorVars, crowded>>
  BY <1>1, BeginFrame DEF BeginTasks
<1>2. ASSUME NEW route, BeginRead(c, route)
      PROVE  UNCHANGED <<sess, file, tails, tailObj, readers, hudorVars, crowded>>
  BY <1>2, BeginFrame DEF BeginRead
<1>3. CASE NextTask(c)
  BY <1>3, UseHudorFrame, PanicFrame DEF NextTask, TestTask, hudorVars
<1>4. ASSUME NEW t, ResultOf(c, t)
      PROVE  UNCHANGED <<sess, file, tails, tailObj, readers, hudorVars, crowded>>
  BY <1>4, UseHudorFrame, PanicFrame DEF ResultOf
<1>5. CASE Use(c)
  BY <1>5, UseHudorFrame DEF Use, hudorVars
<1>6. ASSUME NEW t \in call[c].doing, StartTask(c, t) \/ UpdateRate(c, t)
      PROVE  Changes(c) /\ UNCHANGED <<sess, logVars, config, hudor, mix, crowded>>
  <2>1. Changes(c)
    BY <1>6 DEF Changes
  <2>2. StartTask(c, t) => UNCHANGED <<sess, logVars, config, hudor, mix, crowded>>
    BY DEF StartTask, historyVars
  <2>3. UpdateRate(c, t) => UNCHANGED <<sess, logVars, config, hudor, mix, crowded>>
    BY DEF UpdateRate, historyVars
  <2> QED
    BY <1>6, <2>1, <2>2, <2>3
<1>7. ASSUME NEW t \in call[c].doing, Stopped(c, t)
      PROVE  UNCHANGED <<sess, logVars, hudorVars, crowded>>
  BY <1>7 DEF Stopped, CallOnly, historyVars
<1> QED
  BY <1>1, <1>2, <1>3, <1>4, <1>5, <1>6, <1>7 DEF Tasks, hudorVars, logVars

LEMMA ResetFrame ==
  ASSUME NEW c \in Client, Reset(c)
  PROVE  /\ UNCHANGED <<tails, tailObj, readers, config, hudor, mix, crowded>>
         /\ ResetFile(c) \/ UNCHANGED file
         /\ Writes(c) \/ UNCHANGED sess
         /\ Changes(c) \/ UNCHANGED hudors
<1>1. CASE BeginReset(c)
  BY <1>1, BeginFrame DEF BeginReset, hudorVars
<1>2. CASE TestActive(c) \/ StopAll(c)
  BY <1>2, UseHudorFrame DEF TestActive, StopAll, hudorVars
<1>3. CASE ResetFile(c)
  BY <1>3 DEF ResetFile, historyVars, hudorVars
<1>4. CASE ResetSession(c)
  BY <1>4 DEF ResetSession, SessionOnly, logVars, historyVars, hudorVars, Writes
<1>5. CASE CloseHudor(c)
  BY <1>5, PanicFrame DEF CloseHudor, Changes, logVars, historyVars, hudorVars
<1> QED
  BY <1>1, <1>2, <1>3, <1>4, <1>5 DEF Reset

LEMMA LogsFrame ==
  ASSUME NEW c \in Client, Logs(c)
  PROVE  /\ UNCHANGED <<file, tails, tailObj, readers, hudorVars, crowded>>
         /\ Writes(c) \/ UNCHANGED sess
<1>1. CASE BeginLogs(c)
  BY <1>1, BeginFrame DEF BeginLogs
<1>2. CASE TestLine(c) \/ TakeLine(c) \/ ReadOffset(c)
  BY <1>2 DEF TestLine, TakeLine, ReadOffset, Panic, CallOnly, logVars, historyVars
<1>3. CASE StoreOffset(c)
  BY <1>3 DEF StoreOffset, SessionOnly, logVars, historyVars, Writes
<1> QED
  BY <1>1, <1>2, <1>3 DEF Logs

\* All of them together.
LEMMA StepFrame ==
  ASSUME [Next]_vars
  PROVE  /\ LogLine \/ (\E c \in Client : CreateLog(c) \/ ResetFile(c)) \/ UNCHANGED file
         /\ (\E k \in DOMAIN tails : TailTurns(k)) \/ (\E r \in DOMAIN readers : ReaderReceive(r))
            \/ Followed \/ UNCHANGED tails
         /\ Followed \/ UNCHANGED <<tailObj, crowded>>
         /\ (\E r \in DOMAIN readers : Reader(r)) \/ Followed \/ UNCHANGED readers
         /\ (\E r \in DOMAIN readers : ReaderAppend(r)) \/ (\E c \in Client : Writes(c))
            \/ UNCHANGED sess
         /\ TaskStep \/ (\E c \in Client : NewHudor(c) \/ Changes(c)) \/ UNCHANGED hudors
         /\ (\E c \in Client : NewHudor(c)) \/ UNCHANGED <<config, hudor, mix>>
<1>1. CASE LogStep
  BY <1>1, LogStepFrame DEF hudorVars, historyVars
<1>2. CASE TaskStep
  BY <1>2, TaskStepFrame DEF logVars, historyVars
<1>3. ASSUME NEW c \in Client, Load(c)
      PROVE  /\ CreateLog(c) \/ UNCHANGED file
             /\ Followed \/ UNCHANGED <<tails, tailObj, readers, crowded>>
             /\ Writes(c) \/ UNCHANGED sess
             /\ NewHudor(c) \/ UNCHANGED <<config, hudor, mix>>
             /\ NewHudor(c) \/ Changes(c) \/ UNCHANGED hudors
  BY <1>3, LoadFrame
<1>4. ASSUME NEW c \in Client, Tasks(c)
      PROVE  /\ UNCHANGED <<sess, file, tails, tailObj, readers, config, hudor, mix, crowded>>
             /\ Changes(c) \/ UNCHANGED hudors
  BY <1>4, TasksFrame
<1>5. ASSUME NEW c \in Client, Reset(c) \/ Logs(c)
      PROVE  /\ UNCHANGED <<tails, tailObj, readers, config, hudor, mix, crowded>>
             /\ Changes(c) \/ UNCHANGED hudors
             /\ ResetFile(c) \/ UNCHANGED file
             /\ Writes(c) \/ UNCHANGED sess
  BY <1>5, ResetFrame, LogsFrame DEF hudorVars
<1>6. CASE UNCHANGED vars
  BY <1>6 DEF vars, logVars, hudorVars, historyVars
<1> QED
  BY <1>1, <1>2, <1>3, <1>4, <1>5, <1>6, StepCases DEF Handler

-----------------------------------------------------------------------------
(* Every step keeps the types *)

LEMMA SessionTyped ==
  ASSUME Typed
  PROVE  /\ sess \in Seq(SessionState) /\ session \in DOMAIN sess /\ S \in SessionState
         /\ S.hudor \in 0 .. Len(hudors)
<1>1. sess \in Seq(SessionState) /\ Len(sess) # 0
  BY DEF Typed, SessTyped
<1>2. session \in DOMAIN sess /\ S \in SessionState
  BY <1>1
<1>3. S.hudor \in Nat
  BY <1>2 DEF SessionState
<1>4. S.hudor <= Len(hudors) /\ Len(hudors) \in Nat
  BY <1>2 DEF Typed, SessTyped, HudorsTyped
<1> QED
  BY <1>1, <1>2, <1>3, <1>4

LEMMA HudorTyped ==
  ASSUME Typed, S.hudor # 0
  PROVE  S.hudor \in DOMAIN hudors /\ H \in HudorState
<1>1. hudors \in Seq(HudorState)
  BY DEF Typed, HudorsTyped
<1>2. S.hudor \in DOMAIN hudors
  BY <1>1, SessionTyped
<1> QED
  BY <1>1, <1>2

\* A call is moved to another point.
LEMMA CallMoved ==
  ASSUME NEW r, NEW pc, CallOK(r), pc \in Points, RouteAt(pc, r.route), pc \notin {"take", "return"},
         r.doing = {}, pc \in WithHudor => r.hudor # 0
  PROVE  CallOK([r EXCEPT !.pc = pc])
<1>1. [r EXCEPT !.pc = pc] \in CallState
  BY DEF CallOK, CallState
<1>2. /\ [r EXCEPT !.pc = pc].pc = pc
      /\ [r EXCEPT !.pc = pc].route = r.route /\ [r EXCEPT !.pc = pc].hudor = r.hudor
      /\ [r EXCEPT !.pc = pc].page = r.page /\ [r EXCEPT !.pc = pc].i = r.i
      /\ [r EXCEPT !.pc = pc].session = r.session /\ [r EXCEPT !.pc = pc].doing = r.doing
      /\ [r EXCEPT !.pc = pc].tasks = r.tasks
  BY DEF CallOK, CallState
<1> QED
  BY <1>1, <1>2 DEF CallOK

LEMMA CallWithHudor ==
  ASSUME NEW r, NEW h \in Nat, CallOK(r), h <= Len(hudors), h # 0 \/ r.pc \notin WithHudor
  PROVE  CallOK([r EXCEPT !.hudor = h])
<1>1. [r EXCEPT !.hudor = h] \in CallState
  BY DEF CallOK, CallState
<1>2. /\ [r EXCEPT !.hudor = h].pc = r.pc
      /\ [r EXCEPT !.hudor = h].route = r.route /\ [r EXCEPT !.hudor = h].hudor = h
      /\ [r EXCEPT !.hudor = h].page = r.page /\ [r EXCEPT !.hudor = h].i = r.i
      /\ [r EXCEPT !.hudor = h].session = r.session /\ [r EXCEPT !.hudor = h].doing = r.doing
      /\ [r EXCEPT !.hudor = h].tasks = r.tasks
  BY DEF CallOK, CallState
<1> QED
  BY <1>1, <1>2 DEF CallOK

LEMMA CallWithTasks ==
  ASSUME NEW r, NEW T \in SUBSET Task, CallOK(r), r.doing = {}
  PROVE  CallOK([r EXCEPT !.tasks = T])
<1>1. [r EXCEPT !.tasks = T] \in CallState
  BY DEF CallOK, CallState
<1>2. /\ [r EXCEPT !.tasks = T].pc = r.pc
      /\ [r EXCEPT !.tasks = T].route = r.route /\ [r EXCEPT !.tasks = T].hudor = r.hudor
      /\ [r EXCEPT !.tasks = T].page = r.page /\ [r EXCEPT !.tasks = T].i = r.i
      /\ [r EXCEPT !.tasks = T].session = r.session /\ [r EXCEPT !.tasks = T].doing = r.doing
      /\ [r EXCEPT !.tasks = T].tasks = T
  BY DEF CallOK, CallState
<1> QED
  BY <1>1, <1>2 DEF CallOK

LEMMA CallEntered ==
  ASSUME SessTyped, HudorsTyped, NEW pc \in Points, NEW route \in Routes, NEW p \in Profiles,
         NEW T \in SUBSET Task, RouteAt(pc, route), pc \notin WithHudor, pc \notin {"take", "return"}
  PROVE  CallOK([NoCall EXCEPT !.pc = pc, !.route = route, !.profile = p, !.tasks = T])
<1> DEFINE r == [NoCall EXCEPT !.pc = pc, !.route = route, !.profile = p, !.tasks = T]
<1>1. CallOK(NoCall)
  BY NoCallOK
<1>2. r \in CallState
  BY <1>1 DEF CallOK, CallState
<1>3. /\ r.pc = pc /\ r.route = route /\ r.hudor = NoCall.hudor /\ r.i = NoCall.i
      /\ r.page = NoCall.page /\ r.session = NoCall.session /\ r.doing = NoCall.doing
  BY <1>1 DEF CallOK, CallState
<1>4. NoCall.hudor = 0 /\ NoCall.i = 0 /\ NoCall.page = <<>> /\ NoCall.session = 0
      /\ NoCall.doing = {}
  BY DEF NoCall
<1>5. 0 <= Len(hudors) /\ 0 <= Len(sess) /\ 0 <= PageSize
  BY ServerSessionConstants DEF SessTyped, HudorsTyped
<1>6. Len(r.page) = r.i
  BY <1>3, <1>4
<1> HIDE DEF r
<1>7. CallOK(r)
  BY <1>2, <1>3, <1>4, <1>5, <1>6 DEF CallOK
<1> QED
  BY <1>7 DEF r

\* The Hudors: a step changes one of them, and never its tasks.
Put(h, r) ==
  /\ h \in DOMAIN hudors /\ r \in HudorState /\ hudors' = [hudors EXCEPT ![h] = r]
  /\ r.tasks = hudors[h].tasks

HudorShut(h) == \E r : Put(h, r) /\ r = [hudors[h] EXCEPT !.open = FALSE]

HudorStarts(h, t) ==
  \E r : /\ Put(h, r)
         /\ r.active = hudors[h].active \cup {t} /\ r.working = hudors[h].working \cup {t}
         /\ r.updated = hudors[h].updated
         /\ r.doubled = hudors[h].doubled \cup (hudors[h].active \cap {t})

HudorUpdates(h, t) ==
  \E r : /\ Put(h, r)
         /\ r.active = hudors[h].active /\ r.working \subseteq hudors[h].working \cup {t}
         /\ r.updated = hudors[h].updated \cup {t} /\ r.doubled = hudors[h].doubled

HudorEnds(h) ==
  \E r : /\ Put(h, r)
         /\ r.updated = hudors[h].updated /\ r.doubled = hudors[h].doubled
         /\ r.active \subseteq hudors[h].active /\ r.working \subseteq hudors[h].working
         /\ \A t \in hudors[h].active \ r.active :
              t \notin hudors[h].working \/ t \in hudors[h].updated \cup hudors[h].doubled

LEMMA EachHudor ==
  ASSUME Typed, NEW h \in DOMAIN hudors
  PROVE  hudors[h] \in HudorState /\ hudors[h].working \in SUBSET Task /\ hudors[h].active \in SUBSET Task
<1>1. hudors[h] \in HudorState
  BY DEF Typed, HudorsTyped
<1> QED
  BY <1>1 DEF HudorState

LEMMA ClosedEffect ==
  ASSUME Typed, NEW h \in 0 .. Len(hudors), hudors' = Closed(h)
  PROVE  UNCHANGED hudors \/ (h # 0 /\ HudorShut(h))
<1>1. CASE h = 0
  BY <1>1 DEF Closed
<1>2. CASE h # 0
  <2>1. hudors \in Seq(HudorState) /\ h \in DOMAIN hudors /\ hudors[h] \in HudorState
    BY <1>2 DEF Typed, HudorsTyped
  <2>2. PICK r : r = [hudors[h] EXCEPT !.open = FALSE]
    OBVIOUS
  <2>3. r \in HudorState /\ r.tasks = hudors[h].tasks
    BY <2>1, <2>2 DEF HudorState
  <2>4. hudors' = [hudors EXCEPT ![h] = r]
    BY <1>2, <2>1, <2>2 DEF Closed
  <2> QED
    BY <1>2, <2>1, <2>2, <2>3, <2>4 DEF HudorShut, Put
<1> QED
  BY <1>1, <1>2

LEMMA CreateLogEffect ==
  ASSUME Typed, NEW c \in Client, CreateLog(c)
  PROVE  UNCHANGED hudors \/ (hudor # 0 /\ HudorShut(hudor))
BY ClosedEffect DEF CreateLog, Typed, HudorsTyped

LEMMA CloseHudorEffect ==
  ASSUME Typed, NEW c \in Client, CloseHudor(c)
  PROVE  UNCHANGED hudors \/ (S.hudor # 0 /\ HudorShut(S.hudor))
<1>1. CASE S.hudor = 0
  BY <1>1, PanicFrame DEF CloseHudor, hudorVars
<1>2. CASE S.hudor # 0
  <2>1. S.hudor \in 0 .. Len(hudors) /\ hudors' = Closed(S.hudor)
    BY <1>2, SessionTyped DEF CloseHudor
  <2>2. PICK h : h = S.hudor
    OBVIOUS
  <2>3. UNCHANGED hudors \/ (h # 0 /\ HudorShut(h))
    BY <2>1, <2>2, ClosedEffect
  <2> QED
    BY <2>2, <2>3
<1> QED
  BY <1>1, <1>2

\* A handler that does a task of a Hudor.
LEMMA DoingTyped ==
  ASSUME Typed, NEW c \in Client, call[c].pc \in Doing, NEW t \in call[c].doing
  PROVE  /\ t \in Task /\ t \in call[c].tasks
         /\ call[c].hudor \in DOMAIN hudors /\ hudors[call[c].hudor] \in HudorState
<1>1. CallOK(call[c]) /\ hudors \in Seq(HudorState)
  BY DEF Typed, CallsTyped, HudorsTyped
<1>2. call[c].hudor \in Nat /\ call[c].tasks \in SUBSET Task
  BY <1>1 DEF CallOK, CallState
<1>3. call[c].hudor # 0 /\ call[c].hudor <= Len(hudors) /\ call[c].doing \subseteq call[c].tasks
  BY <1>1 DEF CallOK, WithHudor
<1>4. call[c].hudor \in DOMAIN hudors
  BY <1>1, <1>2, <1>3
<1> QED
  BY <1>1, <1>2, <1>3, <1>4

LEMMA StartTaskEffect ==
  ASSUME Typed, NEW c \in Client, NEW t \in call[c].doing, StartTask(c, t)
  PROVE  HudorStarts(call[c].hudor, t)
<1>1. call[c].pc = "start"
  BY DEF StartTask
<1>2. PICK h : h = call[c].hudor
  OBVIOUS
<1>3. t \in Task /\ h \in DOMAIN hudors /\ hudors[h] \in HudorState /\ hudors \in Seq(HudorState)
  BY <1>1, <1>2, DoingTyped DEF Doing, Typed, HudorsTyped
<1>4. PICK d : d = hudors[h].active \cap {t}
  OBVIOUS
<1>5. PICK r : r = [hudors[h] EXCEPT !.active = @ \cup {t}, !.working = @ \cup {t},
                                     !.doubled = @ \cup d]
  OBVIOUS
<1>6. hudors' = [hudors EXCEPT ![h].active = @ \cup {t}, ![h].working = @ \cup {t},
                               ![h].doubled = @ \cup d]
  BY <1>2, <1>4 DEF StartTask
<1>7. hudors' = [hudors EXCEPT ![h] = r]
  BY <1>3, <1>5, <1>6
<1>8. d \subseteq Task
  BY <1>3, <1>4
<1>9. r \in HudorState
  BY <1>3, <1>5, <1>8 DEF HudorState
<1>10. /\ r.tasks = hudors[h].tasks /\ r.updated = hudors[h].updated
       /\ r.active = hudors[h].active \cup {t} /\ r.working = hudors[h].working \cup {t}
       /\ r.doubled = hudors[h].doubled \cup d
  BY <1>3, <1>5 DEF HudorState
<1>11. HudorStarts(h, t)
  BY <1>3, <1>4, <1>7, <1>9, <1>10 DEF HudorStarts, Put
<1> QED
  BY <1>1, <1>2, <1>11

LEMMA UpdateRateEffect ==
  ASSUME Typed, NEW c \in Client, NEW t \in call[c].doing, UpdateRate(c, t)
  PROVE  HudorUpdates(call[c].hudor, t)
<1>1. PICK more \in BOOLEAN :
        LET h == call[c].hudor IN
        /\ call[c].pc = "update"
        /\ hudors' = [hudors EXCEPT ![h].updated = @ \cup {t},
                                    ![h].working = IF more THEN @ \cup {t} ELSE @]
  BY Zenon DEF UpdateRate
<1>2. PICK h : h = call[c].hudor
  OBVIOUS
<1>3. t \in Task /\ h \in DOMAIN hudors /\ hudors[h] \in HudorState /\ hudors \in Seq(HudorState)
  BY <1>1, <1>2, DoingTyped DEF Doing, Typed, HudorsTyped
<1>4. PICK w : w = IF more THEN hudors[h].working \cup {t} ELSE hudors[h].working
  OBVIOUS
<1>5. PICK r : r = [hudors[h] EXCEPT !.updated = @ \cup {t}, !.working = w]
  OBVIOUS
<1>6. hudors' = [hudors EXCEPT ![h].updated = @ \cup {t},
                               ![h].working = IF more THEN @ \cup {t} ELSE @]
  BY <1>1, <1>2
<1>7. hudors' = [hudors EXCEPT ![h] = r]
  BY <1>3, <1>4, <1>5, <1>6
<1>8. w \subseteq Task /\ w \subseteq hudors[h].working \cup {t}
  BY <1>3, <1>4 DEF HudorState
<1>9. r \in HudorState
  BY <1>3, <1>5, <1>8 DEF HudorState
<1>10. /\ r.tasks = hudors[h].tasks /\ r.active = hudors[h].active
       /\ r.updated = hudors[h].updated \cup {t} /\ r.working = w
       /\ r.doubled = hudors[h].doubled
  BY <1>3, <1>5 DEF HudorState
<1>11. HudorUpdates(h, t)
  BY <1>3, <1>7, <1>8, <1>9, <1>10 DEF HudorUpdates, Put
<1> QED
  BY <1>1, <1>2, <1>11

LEMMA TaskStepEffect ==
  ASSUME Typed, TaskStep
  PROVE  \E h \in DOMAIN hudors : HudorEnds(h)
<1>1. PICK h \in DOMAIN hudors : \E t \in Task : FinishTask(h, t) \/ ForgetTask(h, t)
  BY DEF TaskStep
<1>2. PICK t \in Task : FinishTask(h, t) \/ ForgetTask(h, t)
  BY <1>1
<1>3. hudors \in Seq(HudorState) /\ hudors[h] \in HudorState
  BY DEF Typed, HudorsTyped
<1>4. CASE FinishTask(h, t)
  <2>1. PICK r : r = [hudors[h] EXCEPT !.working = @ \ {t}]
    OBVIOUS
  <2>2. r \in HudorState
    BY <1>3, <2>1 DEF HudorState
  <2>3. /\ r.tasks = hudors[h].tasks /\ r.active = hudors[h].active
        /\ r.working = hudors[h].working \ {t}
        /\ r.updated = hudors[h].updated /\ r.doubled = hudors[h].doubled
    BY <1>3, <2>1 DEF HudorState
  <2>4. hudors' = [hudors EXCEPT ![h] = r]
    BY <1>3, <1>4, <2>1 DEF FinishTask
  <2> QED
    BY <2>2, <2>3, <2>4 DEF HudorEnds, Put
<1>5. CASE ForgetTask(h, t)
  <2>1. PICK r : r = [hudors[h] EXCEPT !.active = @ \ {t}]
    OBVIOUS
  <2>2. r \in HudorState
    BY <1>3, <2>1 DEF HudorState
  <2>3. /\ r.tasks = hudors[h].tasks /\ r.working = hudors[h].working
        /\ r.active = hudors[h].active \ {t}
        /\ r.updated = hudors[h].updated /\ r.doubled = hudors[h].doubled
    BY <1>3, <2>1 DEF HudorState
  <2>4. hudors' = [hudors EXCEPT ![h] = r]
    BY <1>3, <1>5, <2>1 DEF ForgetTask
  <2>5. t \notin hudors[h].working \/ t \in hudors[h].updated \cup hudors[h].doubled
    BY <1>5 DEF ForgetTask
  <2> QED
    BY <2>2, <2>3, <2>4, <2>5 DEF HudorEnds, Put
<1> QED
  BY <1>2, <1>4, <1>5

LEMMA NewHudorEffect ==
  ASSUME Typed, NEW c \in Client, NewHudor(c)
  PROVE  /\ config' \in Profiles
         /\ \/ \E T \in SUBSET Task :
                 /\ hudors' = Append(hudors, NewTasks(T)) /\ hudor' = Len(hudors')
                 /\ call' = [call EXCEPT ![c].pc = "store", ![c].hudor = hudor']
                 /\ UNCHANGED panicked
            \/ Panics(c, "profile") /\ UNCHANGED <<hudors, hudor>>
<1> DEFINE parsed == IF call[c].profile = Missing THEN config ELSE call[c].profile
<1>1. call[c].profile \in Profiles
  BY DEF Typed, CallsTyped, CallOK, CallState
<1>2. config \in Profiles
  BY DEF Typed, HudorsTyped
<1>3. config' = parsed /\ parsed \in Profiles
  BY <1>1, <1>2 DEF NewHudor
<1>4. \A p \in Profiles \ {Missing} : TasksOf[p] \subseteq Task
  BY ServerSessionConstants DEF Profiles
<1>5. (IF parsed = Missing THEN {} ELSE TasksOf[parsed]) \in SUBSET Task
  BY <1>3, <1>4
<1>6. \/ /\ hudors' = Append(hudors, NewTasks(IF parsed = Missing THEN {} ELSE TasksOf[parsed]))
         /\ hudor' = Len(hudors')
         /\ call' = [call EXCEPT ![c].pc = "store", ![c].hudor = hudor']
         /\ UNCHANGED panicked
      \/ Panics(c, "profile") /\ UNCHANGED <<hudors, hudor>>
  BY DEF NewHudor
<1> HIDE DEF parsed
<1> QED
  BY <1>3, <1>5, <1>6

\* What becomes of the Hudors in a step.
HudorsGrow ==
  /\ HudorsTyped' /\ DOMAIN hudors \subseteq DOMAIN hudors' /\ Len(hudors') >= Len(hudors)
  /\ \A h \in DOMAIN hudors : hudors'[h].tasks = hudors[h].tasks

LEMMA PutGrows ==
  ASSUME Typed, NEW h, NEW r, Put(h, r), UNCHANGED <<config, hudor, mix>>
  PROVE  /\ HudorsGrow /\ DOMAIN hudors' = DOMAIN hudors
         /\ \A g \in DOMAIN hudors : hudors'[g] = IF g = h THEN r ELSE hudors[g]
<1>1. /\ mix \in Mixes /\ config \in Profiles
      /\ hudors \in Seq(HudorState) /\ hudor \in 0 .. Len(hudors)
  BY DEF Typed, HudorsTyped
<1>2. h \in DOMAIN hudors /\ r \in HudorState /\ hudors' = [hudors EXCEPT ![h] = r]
      /\ r.tasks = hudors[h].tasks
  BY DEF Put
<1>3. hudors' \in Seq(HudorState) /\ Len(hudors') = Len(hudors) /\ DOMAIN hudors' = DOMAIN hudors
  BY <1>1, <1>2
<1>4. \A g \in DOMAIN hudors : hudors'[g] = IF g = h THEN r ELSE hudors[g]
  BY <1>1, <1>2
<1>5. HudorsTyped'
  BY <1>1, <1>3 DEF HudorsTyped
<1>6. \A g \in DOMAIN hudors : hudors'[g].tasks = hudors[g].tasks
  BY <1>2, <1>4
<1>7. Len(hudors') >= Len(hudors)
  BY <1>1, <1>3
<1> QED
  BY <1>3, <1>4, <1>5, <1>6, <1>7 DEF HudorsGrow

LEMMA ChangesEffect ==
  ASSUME Typed, NEW c \in Client, Changes(c)
  PROVE  /\ UNCHANGED <<config, hudor, mix>>
         /\ UNCHANGED hudors \/ \E h, r : Put(h, r)
<1>1. ASSUME NEW t \in call[c].doing, StartTask(c, t)
      PROVE  UNCHANGED <<config, hudor, mix>> /\ \E h, r : Put(h, r)
  <2>1. UNCHANGED <<config, hudor, mix>>
    BY <1>1 DEF StartTask
  <2> QED
    BY <1>1, <2>1, StartTaskEffect DEF HudorStarts
<1>2. ASSUME NEW t \in call[c].doing, UpdateRate(c, t)
      PROVE  UNCHANGED <<config, hudor, mix>> /\ \E h, r : Put(h, r)
  <2>1. UNCHANGED <<config, hudor, mix>>
    BY <1>2 DEF UpdateRate
  <2> QED
    BY <1>2, <2>1, UpdateRateEffect DEF HudorUpdates
<1>3. CASE CreateLog(c)
  <2>1. UNCHANGED <<config, hudor, mix>>
    BY <1>3 DEF CreateLog
  <2> QED
    BY <1>3, <2>1, CreateLogEffect DEF HudorShut
<1>4. CASE CloseHudor(c)
  <2>1. UNCHANGED <<config, hudor, mix>>
    BY <1>4, PanicFrame DEF CloseHudor, hudorVars
  <2> QED
    BY <1>4, <2>1, CloseHudorEffect DEF HudorShut
<1> QED
  BY <1>1, <1>2, <1>3, <1>4 DEF Changes

LEMMA HudorsStep == Typed /\ [Next]_vars => HudorsGrow
<1> SUFFICES ASSUME Typed, [Next]_vars PROVE HudorsGrow
  OBVIOUS
<1>1. /\ mix \in Mixes /\ config \in Profiles
      /\ hudors \in Seq(HudorState) /\ hudor \in 0 .. Len(hudors)
  BY DEF Typed, HudorsTyped
<1>2. CASE TaskStep
  <2>1. \E h, r : Put(h, r)
    BY <1>2, TaskStepEffect DEF HudorEnds
  <2>2. UNCHANGED <<config, hudor, mix>>
    BY <1>2, TaskStepFrame
  <2> QED
    BY <2>1, <2>2, PutGrows
<1>3. ASSUME NEW c \in Client, Changes(c), hudors' # hudors PROVE HudorsGrow
  BY <1>3, ChangesEffect, PutGrows
<1>4. ASSUME NEW c \in Client, NewHudor(c), hudors' # hudors PROVE HudorsGrow
  <2>1. PICK T \in SUBSET Task : hudors' = Append(hudors, NewTasks(T)) /\ hudor' = Len(hudors')
    BY <1>4, NewHudorEffect
  <2>2. PICK r : r = NewTasks(T)
    OBVIOUS
  <2>3. r \in HudorState
    BY <2>2 DEF HudorState, NewTasks
  <2>4. hudors' = Append(hudors, r)
    BY <2>1, <2>2
  <2>5. /\ hudors' \in Seq(HudorState) /\ Len(hudors') = Len(hudors) + 1
        /\ DOMAIN hudors' = DOMAIN hudors \cup {Len(hudors')} /\ hudors'[Len(hudors')] = r
        /\ \A j \in DOMAIN hudors : hudors'[j] = hudors[j]
    BY <1>1, <2>3, <2>4, SeqAdd
  <2>6. config' \in Profiles /\ mix' = mix
    BY <1>4, NewHudorEffect DEF NewHudor
  <2>7. HudorsTyped'
    BY <1>1, <2>1, <2>5, <2>6 DEF HudorsTyped
  <2> QED
    BY <1>1, <2>5, <2>7 DEF HudorsGrow
<1>5. ASSUME NEW c \in Client, NewHudor(c), hudors' = hudors PROVE HudorsGrow
  <2>1. config' \in Profiles /\ mix' = mix
    BY <1>5, NewHudorEffect DEF NewHudor
  <2>2. hudor' = hudor
    <3>1. ASSUME NEW T, hudors' = Append(hudors, NewTasks(T)) PROVE FALSE
      <4>1. Len(hudors') = Len(hudors) + 1
        BY <1>1, <3>1
      <4> QED
        BY <1>1, <1>5, <4>1
    <3> QED
      BY <1>5, <3>1, NewHudorEffect
  <2> QED
    BY <1>1, <1>5, <2>1, <2>2 DEF HudorsGrow, HudorsTyped
<1>6. CASE UNCHANGED hudors /\ UNCHANGED <<config, hudor, mix>>
  BY <1>1, <1>6 DEF HudorsGrow, HudorsTyped
<1> QED
  BY <1>2, <1>3, <1>4, <1>5, <1>6, StepFrame, ChangesEffect

\* What becomes of the sessions in a step: the current one gets another Hudor,
\* one gets a line, one gets the lines of an answer, or there is a new one.
HudorStored(k) ==
  k = session /\ \E c \in Client : StoreHudor(c) /\ sess'[k].hudor = call[c].hudor

LineAppended(k) ==
  \E r \in DOMAIN readers :
    /\ ReaderAppend(r) /\ k = readers[r].session
    /\ sess'[k].output = Append(readers[r].output, readers[r].line)

AnswerSent(k) ==
  \E c \in Client :
    /\ StoreOffset(c) /\ k = call[c].session
    /\ sess'[k].offset = call[c].offset + call[c].i /\ sess'[k].shown = sess[k].shown \o call[c].page

SessGrow ==
  /\ SessTyped' /\ Len(sess') >= Len(sess) /\ DOMAIN sess \subseteq DOMAIN sess'
  /\ Len(sess') = Len(sess) \/ \E c \in Client : ResetSession(c) /\ sess' = Append(sess, EmptySession)
  /\ \A k \in DOMAIN sess :
       /\ sess'[k].hudor = sess[k].hudor \/ HudorStored(k)
       /\ sess'[k].output = sess[k].output \/ LineAppended(k)
       /\ (sess'[k].offset = sess[k].offset /\ sess'[k].shown = sess[k].shown) \/ AnswerSent(k)

LEMMA EachSession ==
  ASSUME Typed, NEW k \in DOMAIN sess
  PROVE  sess[k] \in SessionState /\ sess[k].hudor \in Nat /\ sess[k].hudor <= Len(hudors)
<1>1. sess \in Seq(SessionState) /\ sess[k].hudor <= Len(hudors)
  BY DEF Typed, SessTyped
<1>2. sess[k] \in SessionState
  BY <1>1
<1> QED
  BY <1>1, <1>2 DEF SessionState

LEMMA SessPut ==
  ASSUME Typed, HudorsGrow, NEW k \in DOMAIN sess, NEW s \in SessionState,
         s.hudor <= Len(hudors), sess' = [sess EXCEPT ![k] = s]
  PROVE  /\ SessTyped' /\ Len(sess') = Len(sess) /\ DOMAIN sess' = DOMAIN sess
         /\ \A j \in DOMAIN sess : sess'[j] = IF j = k THEN s ELSE sess[j]
<1>1. sess \in Seq(SessionState) /\ Len(sess) # 0
  BY DEF Typed, SessTyped
<1>2. sess' \in Seq(SessionState) /\ Len(sess') = Len(sess) /\ DOMAIN sess' = DOMAIN sess
  BY <1>1
<1>3. \A j \in DOMAIN sess : sess'[j] = IF j = k THEN s ELSE sess[j]
  BY <1>1
<1>4. \A j \in DOMAIN sess' : sess'[j].hudor <= Len(hudors) /\ sess'[j].hudor \in Nat
  <2>1. s.hudor \in Nat
    BY DEF SessionState
  <2>2. \A j \in DOMAIN sess : sess[j].hudor <= Len(hudors) /\ sess[j].hudor \in Nat
    BY EachSession
  <2> QED
    BY <1>2, <1>3, <2>1, <2>2
<1>5. \A j \in DOMAIN sess' : sess'[j].hudor <= Len(hudors')
  <2>1. Len(hudors) \in Nat
    BY DEF Typed, HudorsTyped
  <2>2. Len(hudors') \in Nat
    BY DEF HudorsGrow, HudorsTyped
  <2> QED
    BY <1>4, <2>1, <2>2 DEF HudorsGrow
<1> QED
  BY <1>1, <1>2, <1>3, <1>5 DEF SessTyped

\* Only these fields of the session k are other than before.
LEMMA SessWrite ==
  ASSUME Typed, HudorsGrow, NEW k \in DOMAIN sess, NEW s, s \in SessionState,
         s.hudor <= Len(hudors), sess' = [sess EXCEPT ![k] = s],
         s.hudor = sess[k].hudor \/ HudorStored(k),
         s.output = sess[k].output \/ LineAppended(k),
         (s.offset = sess[k].offset /\ s.shown = sess[k].shown) \/ AnswerSent(k)
  PROVE  SessGrow
<1>2. /\ SessTyped' /\ Len(sess') = Len(sess) /\ DOMAIN sess' = DOMAIN sess
      /\ \A j \in DOMAIN sess : sess'[j] = IF j = k THEN s ELSE sess[j]
  BY SessPut
<1>3. Len(sess) \in Nat
  BY DEF Typed, SessTyped
<1>4. \A j \in DOMAIN sess :
        /\ sess'[j].hudor = sess[j].hudor \/ HudorStored(j)
        /\ sess'[j].output = sess[j].output \/ LineAppended(j)
        /\ (sess'[j].offset = sess[j].offset /\ sess'[j].shown = sess[j].shown) \/ AnswerSent(j)
  BY <1>2
<1>5. Len(sess') >= Len(sess) /\ DOMAIN sess \subseteq DOMAIN sess'
  BY <1>2, <1>3
<1> QED
  BY <1>2, <1>4, <1>5 DEF SessGrow

LEMMA CallTyped ==
  ASSUME Typed, NEW c \in Client
  PROVE  /\ call[c] \in CallState /\ CallOK(call[c])
         /\ call[c].hudor \in 0 .. Len(hudors) /\ call[c].tasks \in SUBSET Task
         /\ call[c].page \in Seq(Line) /\ call[c].i \in Nat /\ call[c].offset \in Nat
         /\ call[c].profile \in Profiles
<1>1. CallOK(call[c])
  BY DEF Typed, CallsTyped
<1>2. call[c] \in CallState /\ call[c].hudor <= Len(hudors)
  BY <1>1 DEF CallOK
<1> QED
  BY <1>1, <1>2 DEF CallState

LEMMA SessStep == Typed /\ [Next]_vars => SessGrow
<1> SUFFICES ASSUME Typed, [Next]_vars PROVE SessGrow
  OBVIOUS
<1>1. HudorsGrow
  BY HudorsStep
<1>2. sess \in Seq(SessionState) /\ session \in DOMAIN sess /\ S \in SessionState
      /\ S.hudor \in 0 .. Len(hudors) /\ Len(hudors) \in Nat /\ Len(hudors') \in Nat
  BY <1>1, SessionTyped DEF Typed, HudorsTyped, HudorsGrow
<1>3. CASE UNCHANGED sess
  <2>1. \A k \in DOMAIN sess : sess[k].hudor \in Nat /\ sess[k].hudor <= Len(hudors)
    BY EachSession
  <2>2. SessTyped'
    BY <1>1, <1>2, <1>3, <2>1 DEF Typed, SessTyped, HudorsGrow
  <2> QED
    BY <1>2, <1>3, <2>2 DEF SessGrow
<1>4. ASSUME NEW r \in DOMAIN readers, ReaderAppend(r) PROVE SessGrow
  <2>1. PICK k : k = readers[r].session
    OBVIOUS
  <2>2. /\ readers[r] \in ReaderState
        /\ readers[r].session <= Len(sess) /\ readers[r].session # 0
    BY <1>4 DEF Typed, ReadersTyped, ReaderAppend
  <2>3. k \in DOMAIN sess /\ sess[k] \in SessionState /\ sess[k].hudor <= Len(hudors)
    BY <1>2, <2>1, <2>2 DEF ReaderState, Typed, SessTyped
  <2>4. PICK out : out = Append(readers[r].output, readers[r].line)
    OBVIOUS
  <2>5. out \in Seq(Line)
    BY <2>2, <2>4 DEF ReaderState
  <2>6. PICK s : s = [sess[k] EXCEPT !.output = out]
    OBVIOUS
  <2>7. s \in SessionState /\ s.hudor = sess[k].hudor /\ s.offset = sess[k].offset
        /\ s.shown = sess[k].shown /\ s.output = out
    BY <2>3, <2>5, <2>6 DEF SessionState
  <2>8. sess' = [sess EXCEPT ![k].output = out]
    BY <1>4, <2>1, <2>4 DEF ReaderAppend
  <2>9. sess' = [sess EXCEPT ![k] = s]
    BY <2>3, <2>6, <2>8
  <2>10. LineAppended(k)
    <3>1. sess'[k] = s
      BY <1>2, <2>3, <2>9
    <3> QED
      BY <1>4, <2>1, <2>4, <2>7, <3>1 DEF LineAppended
  <2> QED
    BY <1>1, <2>3, <2>7, <2>9, <2>10, SessWrite
<1>5. ASSUME NEW c \in Client, SetProfile(c) PROVE SessGrow
  <2>1. PICK k : k = session
    OBVIOUS
  <2>2. PICK s : s = [sess[k] EXCEPT !.profile = call[c].profile]
    OBVIOUS
  <2>3. k \in DOMAIN sess /\ sess[k] \in SessionState /\ sess[k].hudor <= Len(hudors)
    BY <1>2, <2>1
  <2>4. s \in SessionState /\ s.hudor = sess[k].hudor /\ s.offset = sess[k].offset
        /\ s.shown = sess[k].shown /\ s.output = sess[k].output
    BY <2>2, <2>3, CallTyped DEF SessionState
  <2>5. sess' = [sess EXCEPT ![k] = s]
    BY <1>5, <2>1, <2>2, <2>3 DEF SetProfile
  <2> QED
    BY <1>1, <2>3, <2>4, <2>5, SessWrite
<1>6. ASSUME NEW c \in Client, StoreHudor(c) PROVE SessGrow
  <2>1. PICK k : k = session
    OBVIOUS
  <2>2. PICK T : T = IF call[c].route = "getalltasks" THEN {} ELSE sess[k].tasks
    OBVIOUS
  <2>3. k \in DOMAIN sess /\ sess[k] \in SessionState /\ sess[k].hudor <= Len(hudors)
    BY <1>2, <2>1
  <2>4. PICK s : s = [sess[k] EXCEPT !.hudor = call[c].hudor, !.tasks = T]
    OBVIOUS
  <2>5. T \in SUBSET Task /\ call[c].hudor \in Nat /\ call[c].hudor <= Len(hudors)
    BY <1>2, <2>2, <2>3, CallTyped DEF SessionState
  <2>6. s \in SessionState /\ s.hudor = call[c].hudor /\ s.offset = sess[k].offset
        /\ s.shown = sess[k].shown /\ s.output = sess[k].output
    BY <2>3, <2>4, <2>5 DEF SessionState
  <2>7. sess' = [sess EXCEPT ![k].hudor = call[c].hudor,
                             ![k].tasks = IF call[c].route = "getalltasks" THEN {} ELSE @]
    BY <1>6, <2>1 DEF StoreHudor
  <2>8. sess' = [sess EXCEPT ![k] = s]
    BY <1>2, <2>2, <2>3, <2>4, <2>7
  <2>9. HudorStored(k)
    <3>1. sess'[k] = s
      BY <1>2, <2>3, <2>8
    <3> QED
      BY <1>6, <2>1, <2>6, <3>1 DEF HudorStored
  <2> QED
    BY <1>1, <2>3, <2>5, <2>6, <2>8, <2>9, SessWrite
<1>7. ASSUME NEW c \in Client, StoreTasks(c) PROVE SessGrow
  <2>1. PICK k : k = session
    OBVIOUS
  <2>2. PICK s : s = [sess[k] EXCEPT !.tasks = call[c].tasks]
    OBVIOUS
  <2>3. k \in DOMAIN sess /\ sess[k] \in SessionState /\ sess[k].hudor <= Len(hudors)
    BY <1>2, <2>1
  <2>4. s \in SessionState /\ s.hudor = sess[k].hudor /\ s.offset = sess[k].offset
        /\ s.shown = sess[k].shown /\ s.output = sess[k].output
    BY <2>2, <2>3, CallTyped DEF SessionState
  <2>5. sess' = [sess EXCEPT ![k] = s]
    BY <1>7, <2>1, <2>2, <2>3 DEF StoreTasks
  <2> QED
    BY <1>1, <2>3, <2>4, <2>5, SessWrite
<1>8. ASSUME NEW c \in Client, ResetSession(c) PROVE SessGrow
  <2>1. sess' = Append(sess, EmptySession)
    BY <1>8 DEF ResetSession
  <2>2. EmptySession.hudor = 0
    BY DEF EmptySession
  <2>3. /\ sess' \in Seq(SessionState) /\ Len(sess') = Len(sess) + 1
        /\ DOMAIN sess' = DOMAIN sess \cup {Len(sess')} /\ sess'[Len(sess')] = EmptySession
        /\ \A j \in DOMAIN sess : sess'[j] = sess[j]
    BY <1>2, <2>1, EmptySessionTyped, SeqAdd
  <2>4. \A k \in DOMAIN sess : sess[k].hudor \in Nat /\ sess[k].hudor <= Len(hudors)
    BY EachSession
  <2>5. \A k \in DOMAIN sess' : sess'[k].hudor <= Len(hudors')
    BY <1>1, <1>2, <2>2, <2>3, <2>4 DEF HudorsGrow
  <2>6. SessTyped'
    BY <1>2, <2>3, <2>5 DEF SessTyped
  <2> QED
    BY <1>2, <1>8, <2>1, <2>3, <2>6 DEF SessGrow
<1>9. ASSUME NEW c \in Client, StoreOffset(c) PROVE SessGrow
  <2>1. PICK k : k = call[c].session
    OBVIOUS
  <2>2. k \in DOMAIN sess
    BY <1>2, <1>9, <2>1, CallTyped DEF CallOK, CallState, StoreOffset, Return
  <2>3. sess[k] \in SessionState /\ sess[k].hudor <= Len(hudors)
    BY <1>2, <2>2 DEF Typed, SessTyped
  <2>4. PICK n : n = call[c].offset + call[c].i
    OBVIOUS
  <2>5. PICK w : w = sess[k].shown \o call[c].page
    OBVIOUS
  <2>6. n \in Nat /\ w \in Seq(Line)
    <3>1. sess[k].shown \in Seq(Line)
      BY <2>3 DEF SessionState
    <3> QED
      BY <2>4, <2>5, <3>1, CallTyped
  <2>7. PICK s : s = [sess[k] EXCEPT !.offset = n, !.shown = w]
    OBVIOUS
  <2>8. s \in SessionState /\ s.hudor = sess[k].hudor /\ s.offset = n
        /\ s.shown = w /\ s.output = sess[k].output
    BY <2>3, <2>6, <2>7 DEF SessionState
  <2>9. sess' = [sess EXCEPT ![k].offset = n, ![k].shown = sess[k].shown \o call[c].page]
    BY <1>9, <2>1, <2>2, <2>4, <2>5 DEF StoreOffset
  <2>10. sess' = [sess EXCEPT ![k] = s]
    <3>1. sess' = [sess EXCEPT ![k].offset = n, ![k].shown = w]
      BY <2>5, <2>9
    <3> QED
      BY <1>2, <2>2, <2>7, <3>1
  <2>11. AnswerSent(k)
    <3>1. sess'[k] = s
      BY <1>2, <2>2, <2>10
    <3> QED
      BY <1>9, <2>1, <2>4, <2>5, <2>8, <3>1 DEF AnswerSent
  <2> QED
    BY <1>1, <2>2, <2>3, <2>8, <2>10, <2>11, SessWrite
<1> QED
  BY <1>3, <1>4, <1>5, <1>6, <1>7, <1>8, <1>9, StepFrame DEF Writes

-----------------------------------------------------------------------------
(* The log and those that follow it *)

\* A tail gets ahead of its position, also when it takes up the new file.
AtMost(l, m) == l[1] < m[1] \/ (l[1] = m[1] /\ l[2] <= m[2])
Position(k) == <<tails[k].file, tails[k].at>>
EndedBehind == \A k \in DOMAIN tails : tails[k].ended => tails[k].file < Len(file)

FilesGrow ==
  /\ FilesTyped' /\ Len(file') >= Len(file) /\ DOMAIN file \subseteq DOMAIN file'
  /\ Len(tails') >= Len(tails) /\ DOMAIN tails \subseteq DOMAIN tails'
  /\ \A k \in DOMAIN tails :
       /\ AtMost(Position(k), <<tails'[k].file, tails'[k].at>>)
       /\ tails[k].ended => tails'[k] = tails[k]
       /\ tails'[k].ended /\ ~tails[k].ended => tails[k].file < Len(file) /\ tails'[k].file = tails[k].file
  /\ Len(tails') = Len(tails) \/ Followed

LEMMA FileStep ==
  ASSUME Typed, [Next]_vars
  PROVE  /\ file' \in Seq(LogState) /\ Len(file') >= Len(file) /\ Len(file') # 0
         /\ DOMAIN file \subseteq DOMAIN file'
<1>1. file \in Seq(LogState) /\ Len(file) # 0
  BY DEF Typed, FilesTyped
<1>2. CASE UNCHANGED file
  BY <1>1, <1>2
<1>3. CASE LogLine
  <2>1. PICK n : n = Len(file)
    OBVIOUS
  <2>2. n \in DOMAIN file /\ file[n] \in LogState
    BY <1>1, <2>1
  <2>3. PICK r : r = [file[n] EXCEPT !.lines = @ + 1]
    OBVIOUS
  <2>4. r \in LogState
    BY <2>2, <2>3 DEF LogState
  <2>5. file' = [file EXCEPT ![n].lines = @ + 1]
    BY <1>3, <2>1 DEF LogLine
  <2>6. file' = [file EXCEPT ![n] = r]
    BY <1>1, <2>2, <2>3, <2>5
  <2> QED
    BY <1>1, <2>2, <2>4, <2>6
<1>4. ASSUME NEW c \in Client, CreateLog(c) \/ ResetFile(c)
      PROVE  /\ file' \in Seq(LogState) /\ Len(file') >= Len(file) /\ Len(file') # 0
             /\ DOMAIN file \subseteq DOMAIN file'
  <2>1. PICK new \in BOOLEAN : file' = Append(file, [lines |-> 0, new |-> new])
    BY <1>4 DEF CreateLog, ResetFile, Created
  <2>2. PICK r : r = [lines |-> 0, new |-> new]
    OBVIOUS
  <2>3. r \in LogState
    BY <2>2 DEF LogState
  <2>4. file' = Append(file, r)
    BY <2>1, <2>2
  <2> QED
    BY <1>1, <2>3, <2>4
<1> QED
  BY <1>2, <1>3, <1>4, StepFrame

LEMMA EachTail ==
  ASSUME Typed, NEW k \in DOMAIN tails
  PROVE  /\ tails[k] \in TailState /\ tails[k].file \in DOMAIN file /\ tails[k].file \in Nat
         /\ tails[k].at \in Nat /\ tails[k].ended \in BOOLEAN
<1>1. tails \in Seq(TailState) /\ tails[k].file \in DOMAIN file
  BY DEF Typed, FilesTyped
<1>2. tails[k] \in TailState
  BY <1>1
<1> QED
  BY <1>1, <1>2 DEF TailState

LEMMA EachReader ==
  ASSUME Typed, NEW r \in DOMAIN readers
  PROVE  /\ readers[r] \in ReaderState
         /\ readers[r].tail \in 0 .. Len(tails) /\ readers[r].session \in 0 .. Len(sess)
         /\ readers[r].output \in Seq(Line) /\ readers[r].line \in Line
         /\ readers[r].pc \in {"start", "lines", "append", "ended"}
         /\ readers[r].pc # "start" => readers[r].tail \in DOMAIN tails
         /\ readers[r].pc = "append" => readers[r].session \in DOMAIN sess
<1>1. /\ readers \in Seq(ReaderState) /\ readers[r].tail <= Len(tails)
      /\ readers[r].session <= Len(sess)
      /\ readers[r].pc # "start" => readers[r].tail # 0
      /\ readers[r].pc = "append" => readers[r].session # 0
  BY DEF Typed, ReadersTyped
<1>2. readers[r] \in ReaderState
  BY <1>1
<1>3. /\ readers[r].tail \in Nat /\ readers[r].session \in Nat
      /\ readers[r].output \in Seq(Line) /\ readers[r].line \in Line
      /\ readers[r].pc \in {"start", "lines", "append", "ended"}
  BY <1>2 DEF ReaderState
<1>4. tails \in Seq(TailState) /\ sess \in Seq(SessionState)
  BY DEF Typed, FilesTyped, SessTyped
<1> QED
  BY <1>1, <1>2, <1>3, <1>4

LEMMA TailTurnsEffect ==
  ASSUME Typed, NEW k \in DOMAIN tails, TailTurns(k)
  PROVE  /\ ~tails[k].ended /\ tails[k].file < Len(file)
         /\ \E t \in TailState :
              /\ tails' = [tails EXCEPT ![k] = t]
              /\ \/ t.file = Len(file) /\ ~t.ended
                 \/ t.file = tails[k].file /\ t.at = tails[k].at
<1>1. ~tails[k].ended /\ tails[k].file < Len(file)
  BY DEF TailTurns
<1>2. tails \in Seq(TailState) /\ file \in Seq(LogState)
  BY DEF Typed, FilesTyped
<1>3. CASE \E at \in {0, tails[k].at} :
             tails' = [tails EXCEPT ![k].file = Len(file), ![k].at = at]
  <2>1. PICK at \in {0, tails[k].at} :
             tails' = [tails EXCEPT ![k].file = Len(file), ![k].at = at]
    BY <1>3
  <2>2. PICK t : t = [tails[k] EXCEPT !.file = Len(file), !.at = at]
    OBVIOUS
  <2>3. at \in Nat /\ Len(file) \in Nat
    BY <1>2, EachTail
  <2>4. t \in TailState /\ t.file = Len(file) /\ t.ended = tails[k].ended
    BY <2>2, <2>3, EachTail DEF TailState
  <2>5. tails' = [tails EXCEPT ![k] = t]
    BY <1>2, <2>1, <2>2
  <2> QED
    BY <1>1, <2>4, <2>5
<1>4. CASE tails' = [tails EXCEPT ![k].ended = TRUE]
  <2>1. PICK t : t = [tails[k] EXCEPT !.ended = TRUE]
    OBVIOUS
  <2>2. t \in TailState /\ t.file = tails[k].file /\ t.at = tails[k].at
    BY <2>1, EachTail DEF TailState
  <2>3. tails' = [tails EXCEPT ![k] = t]
    BY <1>2, <1>4, <2>1
  <2> QED
    BY <1>1, <2>2, <2>3
<1> QED
  BY <1>3, <1>4 DEF TailTurns

LEMMA ReceiveEffect ==
  ASSUME Typed, NEW r \in DOMAIN readers, ReaderReceive(r)
  PROVE  LET k == readers[r].tail IN
         /\ k \in DOMAIN tails /\ ~tails[k].ended
         /\ \E t \in TailState :
              /\ tails' = [tails EXCEPT ![k] = t]
              /\ t.file = tails[k].file /\ t.at = tails[k].at + 1 /\ ~t.ended
<1>1. PICK k : k = readers[r].tail
  OBVIOUS
<1>2. k \in DOMAIN tails /\ ~tails[k].ended /\ tails' = [tails EXCEPT ![k].at = @ + 1]
  BY <1>1, EachReader DEF ReaderReceive
<1>3. PICK t : t = [tails[k] EXCEPT !.at = @ + 1]
  OBVIOUS
<1>4. t \in TailState /\ t.file = tails[k].file /\ t.at = tails[k].at + 1 /\ t.ended = tails[k].ended
  BY <1>2, <1>3, EachTail DEF TailState
<1>5. tails \in Seq(TailState)
  BY DEF Typed, FilesTyped
<1>6. tails' = [tails EXCEPT ![k] = t]
  BY <1>2, <1>3, <1>5
<1> QED
  BY <1>1, <1>2, <1>4, <1>6

LEMMA FollowEffect ==
  ASSUME Typed, Followed
  PROVE  /\ \E t \in TailState : /\ tails' = Append(tails, t)
                                 /\ t.file = Len(file) /\ t.at = 0 /\ ~t.ended
         /\ tailObj' = Len(tails')
         /\ \E r \in ReaderState : /\ readers' = Append(readers, r) /\ r.pc = "start"
                                   /\ r.tail = 0 /\ r.session = 0
         /\ UNCHANGED <<sess, file, hudors, hudor, config, mix, panicked>>
         /\ crowded' = (crowded \/ \E r \in DOMAIN readers : readers[r].pc # "ended")
<1>1. PICK c \in Client : \E p \in mix.profiles : FollowLog(c, p)
  BY DEF Followed
<1>2. PICK p \in mix.profiles : FollowLog(c, p)
  BY <1>1
<1>3. file \in Seq(LogState)
  BY DEF Typed, FilesTyped
<1>4. PICK t : t = [file |-> Len(file), at |-> 0, ended |-> FALSE]
  OBVIOUS
<1>5. t \in TailState /\ t.file = Len(file) /\ t.at = 0 /\ ~t.ended
  BY <1>3, <1>4 DEF TailState
<1>6. tails' = Append(tails, t) /\ tailObj' = Len(tails')
  BY <1>2, <1>4 DEF FollowLog
<1>7. PICK r : r = [pc |-> "start", tail |-> 0, line |-> <<0, 0>>, session |-> 0, output |-> <<>>]
  OBVIOUS
<1>8. r \in ReaderState /\ r.pc = "start" /\ r.tail = 0 /\ r.session = 0
  BY <1>7 DEF ReaderState, Line
<1>9. readers' = Append(readers, r)
  <2>1. [Idle(0) EXCEPT !.pc = "start"] = r
    BY <1>7 DEF Idle
  <2> QED
    BY <1>2, <2>1 DEF FollowLog
<1>10. /\ UNCHANGED <<sess, file, hudors, hudor, config, mix, panicked>>
       /\ crowded' = (crowded \/ \E q \in DOMAIN readers : readers[q].pc # "ended")
  BY <1>2 DEF FollowLog, Enter, hudorVars
<1> QED
  BY <1>5, <1>6, <1>8, <1>9, <1>10

LEMMA FilesStep == Typed /\ [Next]_vars => FilesGrow
<1> SUFFICES ASSUME Typed, [Next]_vars PROVE FilesGrow
  OBVIOUS
<1>1. /\ file' \in Seq(LogState) /\ Len(file') >= Len(file) /\ Len(file') # 0
      /\ DOMAIN file \subseteq DOMAIN file'
  BY FileStep
<1>2. tails \in Seq(TailState) /\ file \in Seq(LogState) /\ Len(file) # 0
  BY DEF Typed, FilesTyped
<1>3. \A k \in DOMAIN tails :
        /\ tails[k].file \in DOMAIN file /\ tails[k].file \in Nat
        /\ tails[k].at \in Nat /\ tails[k].ended \in BOOLEAN
  BY EachTail
<1>4. ASSUME NEW k \in DOMAIN tails, NEW t \in TailState, tails' = [tails EXCEPT ![k] = t],
             ~tails[k].ended,
             \/ tails[k].file < Len(file) /\ t.file = Len(file) /\ ~t.ended
             \/ tails[k].file < Len(file) /\ t.file = tails[k].file /\ t.at = tails[k].at
             \/ t.file = tails[k].file /\ t.at = tails[k].at + 1 /\ ~t.ended
      PROVE  FilesGrow
  <2>1. /\ tails' \in Seq(TailState) /\ Len(tails') = Len(tails) /\ DOMAIN tails' = DOMAIN tails
        /\ \A j \in DOMAIN tails : tails'[j] = IF j = k THEN t ELSE tails[j]
    BY <1>2, <1>4
  <2>2. t.file \in DOMAIN file /\ t.at \in Nat
    BY <1>2, <1>3, <1>4 DEF TailState
  <2>3. FilesTyped'
    BY <1>1, <1>3, <2>1, <2>2 DEF FilesTyped
  <2>4. ASSUME NEW j \in DOMAIN tails
        PROVE  /\ AtMost(Position(j), <<tails'[j].file, tails'[j].at>>)
               /\ tails[j].ended => tails'[j] = tails[j]
               /\ tails'[j].ended /\ ~tails[j].ended
                    => tails[j].file < Len(file) /\ tails'[j].file = tails[j].file
    <3>1. CASE j = k
      BY <1>2, <1>3, <1>4, <2>1, <2>2, <3>1 DEF AtMost, Position
    <3>2. CASE j # k
      BY <1>3, <2>1, <3>2 DEF AtMost, Position
    <3> QED
      BY <3>1, <3>2
  <2>5. Len(tails') >= Len(tails) /\ DOMAIN tails \subseteq DOMAIN tails'
    BY <1>2, <2>1
  <2> QED
    BY <1>1, <2>1, <2>3, <2>4, <2>5 DEF FilesGrow
<1>5. ASSUME NEW k \in DOMAIN tails, TailTurns(k) PROVE FilesGrow
  BY <1>4, <1>5, TailTurnsEffect
<1>6. ASSUME NEW r \in DOMAIN readers, ReaderReceive(r) PROVE FilesGrow
  BY <1>4, <1>6, ReceiveEffect
<1>7. CASE Followed
  <2>1. PICK t \in TailState : tails' = Append(tails, t) /\ t.file = Len(file)
    BY <1>7, FollowEffect
  <2>2. /\ tails' \in Seq(TailState) /\ Len(tails') = Len(tails) + 1
        /\ DOMAIN tails' = DOMAIN tails \cup {Len(tails')} /\ tails'[Len(tails')] = t
        /\ \A j \in DOMAIN tails : tails'[j] = tails[j]
    BY <1>2, <2>1, SeqAdd
  <2>3. t.file \in DOMAIN file
    BY <1>2, <2>1
  <2>4. FilesTyped'
    BY <1>1, <1>3, <2>2, <2>3 DEF FilesTyped
  <2>5. \A k \in DOMAIN tails : AtMost(Position(k), <<tails'[k].file, tails'[k].at>>)
    BY <1>3, <2>2 DEF AtMost, Position
  <2> QED
    BY <1>1, <1>2, <1>7, <2>2, <2>4, <2>5 DEF FilesGrow
<1>8. CASE UNCHANGED tails
  <2>1. FilesTyped'
    BY <1>1, <1>2, <1>3, <1>8 DEF FilesTyped
  <2>2. \A k \in DOMAIN tails : AtMost(Position(k), <<tails'[k].file, tails'[k].at>>)
    BY <1>3, <1>8 DEF AtMost, Position
  <2> QED
    BY <1>1, <1>2, <1>8, <2>1, <2>2 DEF FilesGrow
<1> QED
  BY <1>5, <1>6, <1>7, <1>8, StepFrame

\* A goroutine takes the last tail, reads a line, appends it or ends.
Starts(r, q) == readers[r].pc = "start" /\ q.pc = "lines" /\ q.tail = Len(tails)
Receives(r, q) ==
  /\ readers[r].pc = "lines" /\ q.pc = "append" /\ q.tail = readers[r].tail
  /\ q.line = <<tails[q.tail].file, tails[q.tail].at + 1>>
  /\ q.session = session /\ q.output = S.output
Appends(r, q) == readers[r].pc = "append" /\ q.pc = "lines" /\ q.tail = readers[r].tail
Ends(r, q) ==
  /\ readers[r].pc = "lines" /\ q.pc = "ended" /\ q.tail = readers[r].tail
  /\ tails[q.tail].ended

LEMMA ReaderEffect ==
  ASSUME Typed, NEW r \in DOMAIN readers, Reader(r)
  PROVE  \E q \in ReaderState :
           /\ readers' = [readers EXCEPT ![r] = q]
           /\ q.session \in 0 .. Len(sess)
           /\ \/ ReaderStart(r) /\ Starts(r, q)
              \/ ReaderReceive(r) /\ Receives(r, q)
              \/ ReaderAppend(r) /\ Appends(r, q)
              \/ ReaderEnd(r) /\ Ends(r, q)
<1>1. readers \in Seq(ReaderState) /\ readers[r] \in ReaderState /\ readers[r].session \in 0 .. Len(sess)
  BY EachReader DEF Typed, ReadersTyped
<1>2. tails \in Seq(TailState) /\ tailObj = Len(tails)
  BY DEF Typed, FilesTyped, ReadersTyped
<1>3. sess \in Seq(SessionState) /\ session \in DOMAIN sess /\ S.output \in Seq(Line)
  BY SessionTyped DEF SessionState
<1>4. CASE ReaderStart(r)
  <2>1. PICK q : q = [readers[r] EXCEPT !.pc = "lines", !.tail = tailObj]
    OBVIOUS
  <2>0. tailObj \in Nat
    BY <1>2
  <2>2. q \in ReaderState /\ q.session = readers[r].session /\ q.pc = "lines" /\ q.tail = tailObj
    BY <1>1, <2>0, <2>1 DEF ReaderState
  <2>3. readers[r].pc = "start"
        /\ readers' = [readers EXCEPT ![r].pc = "lines", ![r].tail = tailObj]
    BY <1>4 DEF ReaderStart
  <2>4. readers' = [readers EXCEPT ![r] = q]
    BY <1>1, <2>1, <2>3
  <2>5. Starts(r, q)
    BY <1>2, <2>2, <2>3 DEF Starts
  <2> QED
    BY <1>1, <1>4, <2>2, <2>4, <2>5
<1>5. CASE ReaderReceive(r)
  <2>1. PICK k : k = readers[r].tail
    OBVIOUS
  <2>2. readers[r].pc = "lines" /\ k \in DOMAIN tails
    BY <1>5, <2>1, EachReader DEF ReaderReceive
  <2>3. PICK l : l = <<tails[k].file, tails[k].at + 1>>
    OBVIOUS
  <2>4. PICK q : q = [pc |-> "append", tail |-> k, line |-> l, session |-> session,
                      output |-> S.output]
    OBVIOUS
  <2>5. l \in Line
    BY <2>2, <2>3, EachTail DEF Line
  <2>6. q \in ReaderState
    BY <1>2, <1>3, <2>2, <2>4, <2>5 DEF ReaderState
  <2>7. /\ q.pc = "append" /\ q.tail = k /\ q.line = l /\ q.session = session /\ q.output = S.output
    BY <2>4
  <2>8. readers' = [readers EXCEPT ![r] = q]
    BY <1>5, <2>1, <2>3, <2>4 DEF ReaderReceive
  <2>9. q.session \in 0 .. Len(sess)
    BY <1>3, <2>7
  <2>10. Receives(r, q)
    BY <2>1, <2>2, <2>3, <2>7 DEF Receives
  <2> QED
    BY <1>5, <2>6, <2>8, <2>9, <2>10
<1>6. CASE ReaderAppend(r)
  <2>1. PICK q : q = [pc |-> "lines", tail |-> readers[r].tail, line |-> <<0, 0>>, session |-> 0,
                      output |-> <<>>]
    OBVIOUS
  <2>2. readers[r].tail \in Nat
    BY <1>1 DEF ReaderState
  <2>3. q \in ReaderState /\ q.session = 0 /\ q.pc = "lines" /\ q.tail = readers[r].tail
    BY <2>1, <2>2 DEF ReaderState, Line
  <2>4. readers[r].pc = "append" /\ readers' = [readers EXCEPT ![r] = q]
    BY <1>6, <2>1 DEF ReaderAppend, Idle
  <2>5. Appends(r, q)
    BY <2>3, <2>4 DEF Appends
  <2>6. q.session \in 0 .. Len(sess)
    BY <1>3, <2>3
  <2> QED
    BY <1>6, <2>3, <2>4, <2>5, <2>6
<1>7. CASE ReaderEnd(r)
  <2>1. PICK q : q = [readers[r] EXCEPT !.pc = "ended"]
    OBVIOUS
  <2>2. q \in ReaderState /\ q.session = readers[r].session /\ q.pc = "ended"
        /\ q.tail = readers[r].tail
    BY <1>1, <2>1 DEF ReaderState
  <2>3. /\ readers[r].pc = "lines" /\ tails[readers[r].tail].ended
        /\ readers' = [readers EXCEPT ![r].pc = "ended"]
    BY <1>7 DEF ReaderEnd
  <2>4. readers' = [readers EXCEPT ![r] = q]
    BY <1>1, <2>1, <2>3
  <2> QED
    BY <1>1, <1>7, <2>2, <2>3, <2>4 DEF Ends
<1> QED
  BY <1>4, <1>5, <1>6, <1>7 DEF Reader

LEMMA ReadersStep == Typed /\ [Next]_vars => ReadersTyped'
<1> SUFFICES ASSUME Typed, [Next]_vars PROVE ReadersTyped'
  OBVIOUS
<1>1. readers \in Seq(ReaderState) /\ Len(readers) = Len(tails) /\ tailObj = Len(tails)
  BY DEF Typed, ReadersTyped
<1>2. /\ sess \in Seq(SessionState) /\ tails \in Seq(TailState) /\ sess' \in Seq(SessionState)
      /\ tails' \in Seq(TailState) /\ Len(sess') >= Len(sess) /\ Len(tails') >= Len(tails)
  BY SessStep, FilesStep DEF Typed, SessTyped, FilesTyped, SessGrow, FilesGrow
<1>3. \A r \in DOMAIN readers :
        /\ readers[r].tail \in Nat /\ readers[r].tail <= Len(tails)
        /\ readers[r].session \in Nat /\ readers[r].session <= Len(sess)
        /\ readers[r].pc # "start" => readers[r].tail # 0
        /\ readers[r].pc = "append" => readers[r].session # 0
  BY <1>1, <1>2, EachReader
<1>4. CASE Followed
  <2>1. PICK r \in ReaderState : readers' = Append(readers, r) /\ r.pc = "start" /\ r.tail = 0
                                 /\ r.session = 0
    BY <1>4, FollowEffect
  <2>2. PICK t \in TailState : tails' = Append(tails, t)
    BY <1>4, FollowEffect
  <2>3. tailObj' = Len(tails')
    BY <1>4, FollowEffect
  <2>4. /\ readers' \in Seq(ReaderState) /\ Len(readers') = Len(readers) + 1
        /\ DOMAIN readers' = DOMAIN readers \cup {Len(readers')} /\ readers'[Len(readers')] = r
        /\ \A j \in DOMAIN readers : readers'[j] = readers[j]
    BY <1>1, <2>1, SeqAdd
  <2>5. Len(tails') = Len(tails) + 1
    BY <1>2, <2>2
  <2> QED
    BY <1>1, <1>2, <1>3, <2>1, <2>3, <2>4, <2>5 DEF ReadersTyped
<1>5. CASE ~Followed
  <2>1. tailObj' = tailObj /\ Len(tails') = Len(tails)
    BY <1>5, StepFrame, FilesStep DEF FilesGrow
  <2>2. CASE UNCHANGED readers
    BY <1>1, <1>2, <1>3, <2>1, <2>2 DEF ReadersTyped
  <2>3. ASSUME NEW r \in DOMAIN readers, Reader(r) PROVE ReadersTyped'
    <3>1. PICK q \in ReaderState :
           /\ readers' = [readers EXCEPT ![r] = q]
           /\ q.session \in 0 .. Len(sess)
           /\ \/ ReaderStart(r) /\ Starts(r, q)
              \/ ReaderReceive(r) /\ Receives(r, q)
              \/ ReaderAppend(r) /\ Appends(r, q)
              \/ ReaderEnd(r) /\ Ends(r, q)
      BY <2>3, ReaderEffect
    <3>2. q.tail # 0 /\ q.tail <= Len(tails) /\ q.tail \in Nat
      BY <1>1, <1>2, <1>3, <3>1 DEF Starts, Receives, Appends, Ends
    <3>3. q.pc = "append" => q.session # 0
      BY <1>2, <3>1, SessionTyped DEF Starts, Receives, Appends, Ends
    <3>4. /\ readers' \in Seq(ReaderState) /\ Len(readers') = Len(readers)
          /\ DOMAIN readers' = DOMAIN readers
          /\ \A j \in DOMAIN readers : readers'[j] = IF j = r THEN q ELSE readers[j]
      BY <1>1, <3>1
    <3>5. q.session \in Nat /\ q.session <= Len(sess')
      BY <1>2, <3>1
    <3>6. \A j \in DOMAIN readers' :
            /\ readers'[j].tail <= Len(tails') /\ readers'[j].session <= Len(sess')
            /\ readers'[j].pc # "start" => readers'[j].tail # 0
            /\ readers'[j].pc = "append" => readers'[j].session # 0
      BY <1>2, <1>3, <2>1, <3>2, <3>3, <3>4, <3>5
    <3> QED
      BY <1>1, <2>1, <3>4, <3>6 DEF ReadersTyped
  <2> QED
    BY <1>5, <2>2, <2>3, StepFrame
<1> QED
  BY <1>4, <1>5

-----------------------------------------------------------------------------
(* The calls *)

\* The call of c becomes another one, and nobody panics but at its route.
Moves(c) ==
  /\ \E r : CallOK(r) /\ call' = [call EXCEPT ![c] = r]
  /\ panicked' \subseteq PanicRecords

LEMMA RouteOf ==
  ASSUME NEW r, CallOK(r), r.pc # "idle"
  PROVE  r.route \in Routes
<1>1. r.pc \in Points /\ r.route \in Routes \cup {"none"}
  BY DEF CallOK, CallState
<1>2. RouteAt(r.pc, r.route)
  BY DEF CallOK
<1> QED
  BY <1>1, <1>2 DEF RouteAt, Points, Routes, Loads

LEMMA IdleMoves ==
  ASSUME Typed, NEW c \in Client, call' = [call EXCEPT ![c] = NoCall], UNCHANGED panicked
  PROVE  Moves(c)
BY NoCallOK DEF Typed, Moves

LEMMA PanicMoves ==
  ASSUME Typed, NEW c \in Client, call[c].pc # "idle",
         NEW for \in {"hudor", "profile", "rate", "task", "line"}, Panic(c, for)
  PROVE  Moves(c)
<1>1. CallOK(NoCall) /\ call[c].route \in Routes /\ panicked \subseteq PanicRecords
  BY NoCallOK, CallTyped, RouteOf DEF Typed
<1>2. <<call[c].route, for>> \in PanicRecords
  BY <1>1 DEF PanicRecords
<1>3. call' = [call EXCEPT ![c] = NoCall] /\ panicked' = panicked \cup {<<call[c].route, for>>}
  BY DEF Panic, Panics
<1> QED
  BY <1>1, <1>2, <1>3 DEF Moves

LEMMA UseHudorMoves ==
  ASSUME Typed, NEW c \in Client, NEW from, from # "idle", NEW then, UseHudor(c, from, then),
         S.hudor # 0 => CallOK(then)
  PROVE  Moves(c)
<1>1. CASE S.hudor = 0
  BY <1>1, PanicMoves DEF UseHudor
<1>2. CASE S.hudor # 0
  BY <1>2 DEF UseHudor, CallOnly, historyVars, Typed, Moves
<1> QED
  BY <1>1, <1>2

LEMMA EnterMoves ==
  ASSUME Typed, NEW c \in Client, NEW route \in Routes, NEW to \in Points, NEW p \in Profiles,
         NEW T \in SUBSET Task, RouteAt(to, route), to \notin WithHudor \cup {"take", "return"},
         Enter(c, route, to, p, T)
  PROVE  Moves(c)
<1>0. SessTyped /\ HudorsTyped
  BY DEF Typed
<1>2. to \notin WithHudor /\ to \notin {"take", "return"}
  OBVIOUS
<1>1. CallOK([NoCall EXCEPT !.pc = to, !.route = route, !.profile = p, !.tasks = T])
  BY <1>0, <1>2, CallEntered, Zenon
<1> QED
  BY <1>1 DEF Enter, Moves, Typed

LEMMA GotoMoves ==
  ASSUME Typed, NEW c \in Client, NEW from, NEW to \in Points, Goto(c, from, to),
         RouteAt(to, call[c].route), to \notin WithHudor \cup {"take", "return"},
         from \notin Doing, UNCHANGED panicked
  PROVE  Moves(c)
<1>1. CallOK(call[c]) /\ call[c].doing = {}
  BY CallTyped DEF CallOK, Goto
<1>2. PICK r : r = [call[c] EXCEPT !.pc = to]
  OBVIOUS
<1>3. CallOK(r)
  BY <1>1, <1>2, CallMoved
<1>4. call' = [call EXCEPT ![c] = r]
  BY <1>2 DEF Goto, Typed, CallsTyped
<1> QED
  BY <1>3, <1>4 DEF Moves, Typed

LEMMA ProfilesOfMix == Typed => mix.profiles \subseteq Profiles
BY ServerSessionConstants DEF Typed, HudorsTyped, Profiles

LEMMA LoadMoves ==
  ASSUME Typed, NEW c \in Client, Load(c), ~NewHudor(c)
  PROVE  Moves(c)
<1>0. CallOK(call[c]) /\ RouteAt(call[c].pc, call[c].route)
  BY CallTyped DEF CallOK
<1>1. ASSUME NEW p \in mix.profiles, FollowLog(c, p) PROVE Moves(c)
  <2>1. Enter(c, "getalltasks", "profile", p, {}) /\ p \in Profiles
    BY <1>1, ProfilesOfMix DEF FollowLog
  <2>2. RouteAt("profile", "getalltasks") /\ "profile" \in Points /\ "getalltasks" \in Routes
        /\ "profile" \notin WithHudor
    BY DEF RouteAt, Points, Routes, Loads, WithHudor, Doing
  <2> QED
    BY <2>1, <2>2, EnterMoves
<1>2. ASSUME NEW p \in mix.profiles, BeginLoad(c, p) PROVE Moves(c)
  <2>1. Enter(c, "loadprofile", "create", p, {}) /\ p \in Profiles
    BY <1>2, ProfilesOfMix DEF BeginLoad, Begin
  <2>2. RouteAt("create", "loadprofile") /\ "create" \in Points /\ "loadprofile" \in Routes
        /\ "create" \notin WithHudor
    BY DEF RouteAt, Points, Routes, Loads, WithHudor, Doing
  <2> QED
    BY <2>1, <2>2, EnterMoves
<1>3. CASE SetProfile(c)
  <2>1. Goto(c, "profile", "create") /\ UNCHANGED panicked
    BY <1>3 DEF SetProfile, SessionOnly, historyVars
  <2>2. RouteAt("create", call[c].route) /\ "create" \in Points
        /\ "create" \notin WithHudor /\ "profile" \notin Doing
    BY <1>0, <2>1 DEF Goto, RouteAt, Points, Loads, WithHudor, Doing
  <2> QED
    BY <2>1, <2>2, GotoMoves
<1>4. CASE CreateLog(c)
  <2>1. PICK r : r = [call[c] EXCEPT !.pc = "close"]
    OBVIOUS
  <2>2. call[c].pc = "create"
    BY <1>4 DEF CreateLog
  <2>3. RouteAt("close", call[c].route) /\ "close" \in Points
        /\ "close" \notin WithHudor /\ call[c].doing = {}
    BY <1>0, <2>2 DEF RouteAt, Points, WithHudor, Doing, CallOK
  <2>4. CallOK(r) /\ r.pc = "close"
    BY <1>0, <2>1, <2>3, CallMoved DEF CallOK, CallState
  <2>5. hudor \in Nat /\ hudor <= Len(hudors)
    BY DEF Typed, HudorsTyped
  <2>6. CallOK([r EXCEPT !.hudor = hudor])
    BY <2>3, <2>4, <2>5, CallWithHudor
  <2>7. call' = [call EXCEPT ![c] = [r EXCEPT !.hudor = hudor]]
    <3>1. call' = [call EXCEPT ![c].pc = "close", ![c].hudor = hudor]
      BY <1>4 DEF CreateLog
    <3> QED
      BY <2>1, <3>1 DEF Typed, CallsTyped
  <2> QED
    BY <1>4, <2>6, <2>7 DEF Moves, Typed, CreateLog, historyVars
<1>5. CASE StoreHudor(c)
  <2>1. UNCHANGED panicked
    BY <1>5 DEF StoreHudor, SessionOnly, historyVars
  <2>2. CASE Goto(c, "store", "list") /\ call[c].route = "getalltasks"
    <3>1. RouteAt("list", call[c].route) /\ "list" \in Points
          /\ "list" \notin WithHudor /\ "store" \notin Doing
      BY <2>2 DEF RouteAt, Points, WithHudor, Doing
    <3> QED
      BY <2>1, <2>2, <3>1, GotoMoves
  <2>3. CASE Return(c, "store")
    BY <2>1, <2>3, IdleMoves DEF Return
  <2> QED
    BY <1>5, <2>2, <2>3 DEF StoreHudor
<1>6. CASE ListTasks(c)
  <2>1. PICK r : r = [call[c] EXCEPT !.pc = "tasks"]
    OBVIOUS
  <2>2. UseHudor(c, "list", [call[c] EXCEPT !.pc = "tasks", !.tasks = H.tasks])
    BY <1>6 DEF ListTasks
  <2>3. RouteAt("tasks", call[c].route) /\ "tasks" \in Points
        /\ "tasks" \notin WithHudor /\ call[c].doing = {}
    BY <1>0, <2>2 DEF UseHudor, RouteAt, Points, WithHudor, Doing, CallOK
  <2>4. CallOK(r) /\ r.doing = {}
    BY <1>0, <2>1, <2>3, CallMoved DEF CallOK, CallState
  <2>5. ASSUME S.hudor # 0 PROVE CallOK([call[c] EXCEPT !.pc = "tasks", !.tasks = H.tasks])
    <3>1. H.tasks \in SUBSET Task
      BY <2>5, HudorTyped DEF HudorState
    <3>2. CallOK([r EXCEPT !.tasks = H.tasks])
      BY <2>4, <3>1, CallWithTasks
    <3>3. [call[c] EXCEPT !.pc = "tasks", !.tasks = H.tasks] = [r EXCEPT !.tasks = H.tasks]
      BY <2>1
    <3> QED
      BY <3>2, <3>3
  <2> QED
    BY <2>2, <2>5, UseHudorMoves
<1>7. CASE StoreTasks(c)
  BY <1>7, IdleMoves DEF StoreTasks, SessionOnly, historyVars, Return
<1> QED
  BY <1>1, <1>2, <1>3, <1>4, <1>5, <1>6, <1>7 DEF Load

\* The task t is done, and another is left.
LEMMA WithoutFields ==
  ASSUME Typed, NEW c \in Client, NEW t, call[c].tasks # {t}
  PROVE  /\ Without(c, t) \in CallState
         /\ Without(c, t).pc = IF call[c].pc = "results" THEN "results" ELSE "next"
         /\ Without(c, t).doing = {} /\ Without(c, t).tasks = call[c].tasks \ {t}
         /\ Without(c, t).route = call[c].route /\ Without(c, t).hudor = call[c].hudor
         /\ Without(c, t).page = call[c].page /\ Without(c, t).i = call[c].i
         /\ Without(c, t).session = call[c].session
<1>1. call[c] \in CallState /\ call[c].tasks \ {t} \in SUBSET Task
  BY CallTyped
<1>2. PICK pc : pc = IF call[c].pc = "results" THEN "results" ELSE "next"
  OBVIOUS
<1>3. PICK r : r = [call[c] EXCEPT !.pc = pc, !.tasks = call[c].tasks \ {t}, !.doing = {}]
  OBVIOUS
<1>4. pc \in Points
  BY <1>2 DEF Points
<1>5. r \in CallState
  BY <1>1, <1>3, <1>4 DEF CallState
<1>6. /\ r.pc = pc /\ r.doing = {} /\ r.tasks = call[c].tasks \ {t}
      /\ r.route = call[c].route /\ r.hudor = call[c].hudor /\ r.page = call[c].page
      /\ r.i = call[c].i /\ r.session = call[c].session
  BY <1>1, <1>3 DEF CallState
<1>7. Without(c, t) = r
  BY <1>2, <1>3 DEF Without
<1> QED
  BY <1>2, <1>5, <1>6, <1>7

LEMMA WithoutOK ==
  ASSUME Typed, NEW c \in Client, NEW t, call[c].pc \in Doing \cup {"next", "results"}
  PROVE  CallOK(Without(c, t))
<1>1. CASE call[c].tasks = {t}
  BY <1>1, NoCallOK DEF Typed, Without
<1>2. CASE call[c].tasks # {t}
  <2>1. CallOK(call[c])
    BY CallTyped
  <2>2. PICK r : r = Without(c, t)
    OBVIOUS
  <2>3. /\ r \in CallState /\ r.pc = IF call[c].pc = "results" THEN "results" ELSE "next"
        /\ r.doing = {} /\ r.route = call[c].route /\ r.hudor = call[c].hudor
        /\ r.page = call[c].page /\ r.i = call[c].i /\ r.session = call[c].session
    BY <1>2, <2>2, WithoutFields
  <2>4. RouteAt(r.pc, call[c].route)
    BY <2>1, <2>3 DEF CallOK, RouteAt, Doing, TaskRoutes
  <2>5. CallOK(r)
    BY <2>1, <2>3, <2>4 DEF CallOK, Doing, WithHudor
  <2> QED
    BY <2>2, <2>5
<1> QED
  BY <1>1, <1>2

\* A task is found, and there is a Hudor to do it in.
LEMMA WithFields ==
  ASSUME Typed, NEW c \in Client, NEW t, NEW to \in Points, call[c].pc \in Points
  PROVE  LET r == With(c, t, to)
         IN  /\ r.pc = to /\ r.doing = {t} /\ r.hudor = S.hudor /\ r.tasks = call[c].tasks
             /\ r.route = call[c].route /\ r.page = call[c].page /\ r.i = call[c].i
             /\ r.session = call[c].session
BY CallTyped DEF With, CallState

LEMMA WithOK ==
  ASSUME Typed, NEW c \in Client, NEW t \in call[c].tasks, S.hudor # 0, call[c].pc = "next"
  PROVE  CallOK(With(c, t, PointOf(call[c].route)))
<1>1. CallOK(call[c]) /\ call[c] \in CallState /\ call[c].tasks \in SUBSET Task
  BY CallTyped
<1>2. PICK h : h = S.hudor
  OBVIOUS
<1>3. PICK to : to = PointOf(call[c].route)
  OBVIOUS
<1>4. to \in Doing /\ to \in Points /\ RouteAt(to, call[c].route)
  BY <1>1, <1>3 DEF PointOf, CallOK, RouteAt, TaskRoutes, Doing, Points
<1>5. h \in Nat /\ h # 0 /\ h <= Len(hudors)
  BY <1>2, SessionTyped DEF Typed, HudorsTyped
<1>6. PICK r : r = [call[c] EXCEPT !.pc = to, !.hudor = h, !.doing = {t}]
  OBVIOUS
<1>7. r \in CallState
  BY <1>1, <1>4, <1>5, <1>6 DEF CallState
<1>8. /\ r.pc = to /\ r.doing = {t} /\ r.hudor = h /\ r.tasks = call[c].tasks
      /\ r.route = call[c].route /\ r.page = call[c].page /\ r.i = call[c].i
      /\ r.session = call[c].session
  BY <1>1, <1>6 DEF CallState
<1>9. CallOK(r)
  BY <1>1, <1>4, <1>5, <1>7, <1>8 DEF CallOK, Doing
<1>10. With(c, t, to) = r
  BY <1>2, <1>6 DEF With
<1> QED
  BY <1>3, <1>9, <1>10

LEMMA TasksMoves ==
  ASSUME Typed, NEW c \in Client, Tasks(c)
  PROVE  Moves(c)
<1>0. CallOK(call[c]) /\ RouteAt(call[c].pc, call[c].route)
  BY CallTyped DEF CallOK
<1>1. ASSUME NEW T \in SUBSET Task, NEW route \in TaskRoutes, BeginTasks(c, route, T) PROVE Moves(c)
  <2>1. Enter(c, route, "next", Missing, T) /\ Missing \in Profiles
    BY <1>1 DEF BeginTasks, Begin, Profiles
  <2>2. RouteAt("next", route) /\ "next" \in Points /\ route \in Routes /\ "next" \notin WithHudor
    BY DEF RouteAt, Points, Routes, WithHudor, Doing
  <2> QED
    BY <2>1, <2>2, EnterMoves
<1>2. ASSUME NEW route \in {"getsession", "getresults"}, BeginRead(c, route) PROVE Moves(c)
  <2>1. Enter(c, route, "use", Missing, {}) /\ Missing \in Profiles
    BY <1>2 DEF BeginRead, Begin, Profiles
  <2>2. RouteAt("use", route) /\ "use" \in Points /\ route \in Routes /\ "use" \notin WithHudor
    BY DEF RouteAt, Points, Routes, WithHudor, Doing
  <2> QED
    BY <2>1, <2>2, EnterMoves
<1>3. ASSUME NEW t \in call[c].tasks, TestTask(c, t) PROVE Moves(c)
  <2>1. CASE UseHudor(c, "next", Without(c, t))
    <3>1. call[c].pc = "next"
      BY <2>1 DEF UseHudor
    <3> QED
      BY <2>1, <3>1, WithoutOK, UseHudorMoves
  <2>2. CASE UseHudor(c, "next", With(c, t, PointOf(call[c].route)))
    <3>1. call[c].pc = "next"
      BY <2>2 DEF UseHudor
    <3> QED
      BY <2>2, <3>1, WithOK, UseHudorMoves
  <2>3. CASE call[c].pc = "next" /\ Panic(c, "rate")
    BY <2>3, PanicMoves
  <2> QED
    BY <1>3, <2>1, <2>2, <2>3 DEF TestTask
<1>4. ASSUME NEW t \in Task, ResultOf(c, t) PROVE Moves(c)
  <2>0. call[c].pc = "results"
    BY <1>4 DEF ResultOf
  <2>1. CASE Panic(c, "task")
    BY <2>0, <2>1, PanicMoves
  <2>2. CASE UseHudor(c, "results", Without(c, t))
    BY <2>0, <2>2, WithoutOK, UseHudorMoves
  <2> QED
    BY <1>4, <2>1, <2>2 DEF ResultOf
<1>6. ASSUME NEW t \in call[c].doing, StartTask(c, t) \/ Stopped(c, t) \/ UpdateRate(c, t)
      PROVE  Moves(c)
  <2>1. StartTask(c, t) => /\ call[c].pc = "start" /\ call' = [call EXCEPT ![c] = Without(c, t)]
                           /\ UNCHANGED panicked
    BY DEF StartTask, historyVars
  <2>2. Stopped(c, t) => /\ call[c].pc = "wait" /\ call' = [call EXCEPT ![c] = Without(c, t)]
                         /\ UNCHANGED panicked
    BY DEF Stopped, CallOnly, historyVars
  <2>3. UpdateRate(c, t) => /\ call[c].pc = "update" /\ call' = [call EXCEPT ![c] = Without(c, t)]
                            /\ UNCHANGED panicked
    BY DEF UpdateRate, historyVars
  <2>4. call[c].pc \in Doing /\ call' = [call EXCEPT ![c] = Without(c, t)] /\ UNCHANGED panicked
    BY <1>6, <2>1, <2>2, <2>3 DEF Doing
  <2>5. CallOK(Without(c, t))
    BY <2>4, WithoutOK
  <2> QED
    BY <2>4, <2>5 DEF Moves, Typed
<1>5. CASE Use(c)
  <2>1. PICK T : T = IF call[c].route = "getresults" THEN H.active ELSE {}
    OBVIOUS
  <2>2. UseHudor(c, "use", IF T = {} THEN NoCall
                           ELSE [call[c] EXCEPT !.pc = "results", !.tasks = T])
    BY <1>5, <2>1 DEF Use
  <2>3. CallOK(NoCall)
    BY NoCallOK DEF Typed
  <2>4. ASSUME S.hudor # 0, T # {}
        PROVE  CallOK([call[c] EXCEPT !.pc = "results", !.tasks = T])
    <3>1. T \in SUBSET Task
      BY <2>1, <2>4, HudorTyped DEF HudorState
    <3>2. RouteAt("results", call[c].route) /\ "results" \in Points
          /\ "results" \notin WithHudor /\ call[c].doing = {}
      BY <1>0, <2>1, <2>2, <2>4 DEF UseHudor, RouteAt, Points, WithHudor, Doing, CallOK
    <3>3. PICK r : r = [call[c] EXCEPT !.pc = "results"]
      OBVIOUS
    <3>4. CallOK(r) /\ r.doing = {}
      BY <1>0, <3>2, <3>3, CallMoved DEF CallOK, CallState
    <3>5. CallOK([r EXCEPT !.tasks = T])
      BY <3>1, <3>4, CallWithTasks
    <3>6. [call[c] EXCEPT !.pc = "results", !.tasks = T] = [r EXCEPT !.tasks = T]
      BY <3>3
    <3> QED
      BY <3>5, <3>6
  <2> QED
    BY <2>2, <2>3, <2>4, UseHudorMoves
<1> QED
  BY <1>1, <1>2, <1>3, <1>4, <1>5, <1>6 DEF Tasks, NextTask

LEMMA ResetMoves ==
  ASSUME Typed, NEW c \in Client, Reset(c), ~ResetSession(c)
  PROVE  Moves(c)
<1>0. CallOK(call[c]) /\ RouteAt(call[c].pc, call[c].route)
  BY CallTyped DEF CallOK
<1>1. CASE BeginReset(c)
  <2>1. PICK to \in {"resetFile", "active"} : Enter(c, "reset", to, Missing, {})
    BY <1>1 DEF BeginReset, Begin
  <2>2. RouteAt(to, "reset") /\ to \in Points /\ "reset" \in Routes /\ Missing \in Profiles
        /\ to \notin WithHudor
    BY DEF RouteAt, Points, Routes, Profiles, WithHudor, Doing
  <2> QED
    BY <2>1, <2>2, EnterMoves
<1>2. CASE TestActive(c)
  <2>1. PICK to \in {"resetFile", "stopAll"} : UseHudor(c, "active", [call[c] EXCEPT !.pc = to])
    BY <1>2 DEF TestActive
  <2>2. RouteAt(to, call[c].route) /\ to \in Points /\ to \notin WithHudor /\ call[c].doing = {}
    BY <1>0, <2>1 DEF UseHudor, RouteAt, Points, WithHudor, Doing, CallOK
  <2>3. CallOK([call[c] EXCEPT !.pc = to])
    BY <1>0, <2>2, CallMoved
  <2> QED
    BY <2>1, <2>3, UseHudorMoves
<1>3. ASSUME NEW r, r \in CallState, r.pc = "stopping" \/ r.pc = "closing",
             r.hudor = S.hudor, S.hudor # 0, r.route = "reset", r.page = call[c].page,
             r.i = call[c].i, r.session = call[c].session, r.doing = {}
      PROVE  CallOK(r)
  <2>1. r.hudor # 0 /\ r.hudor <= Len(hudors)
    BY <1>3, SessionTyped DEF Typed, HudorsTyped
  <2>2. RouteAt(r.pc, r.route) /\ r.pc \notin {"take", "return"}
    BY <1>3 DEF RouteAt
  <2> QED
    BY <1>0, <1>3, <2>1, <2>2 DEF CallOK
<1>5. CASE StopAll(c)
  <2>1. PICK h : h = S.hudor
    OBVIOUS
  <2>5. PICK r : r = [call[c] EXCEPT !.pc = "stopping", !.hudor = h]
    OBVIOUS
  <2>2. UseHudor(c, "stopAll", r)
    BY <1>5, <2>1, <2>5 DEF StopAll
  <2>3. call[c].pc = "stopAll"
    BY <2>2 DEF UseHudor
  <2>6. call[c] \in CallState /\ h \in Nat /\ call[c].route = "reset" /\ call[c].doing = {}
    BY <1>0, <2>1, <2>3, CallTyped, SessionTyped DEF RouteAt, CallOK, Doing
  <2>7. /\ r \in CallState /\ r.pc = "stopping" /\ r.hudor = S.hudor /\ r.route = "reset"
        /\ r.page = call[c].page /\ r.i = call[c].i /\ r.session = call[c].session /\ r.doing = {}
    BY <2>1, <2>5, <2>6 DEF CallState, Points
  <2>4. S.hudor # 0 => CallOK(r)
    BY <1>3, <2>7
  <2> QED
    BY <2>2, <2>4, UseHudorMoves
<1>6. CASE CloseHudor(c)
  <2>1. call[c].pc = "stopping"
    BY <1>6 DEF CloseHudor
  <2>2. CASE S.hudor = 0
    BY <1>6, <2>1, <2>2, PanicMoves DEF CloseHudor
  <2>3. CASE S.hudor # 0
    <3>1. PICK h : h = S.hudor
      OBVIOUS
    <3>5. PICK r : r = [call[c] EXCEPT !.pc = "closing", !.hudor = h]
      OBVIOUS
    <3>6. call[c] \in CallState /\ h \in Nat /\ call[c].route = "reset" /\ call[c].doing = {}
      BY <1>0, <2>1, <3>1, CallTyped, SessionTyped DEF RouteAt, CallOK, Doing
    <3>7. /\ r \in CallState /\ r.pc = "closing" /\ r.hudor = S.hudor /\ r.route = "reset"
          /\ r.page = call[c].page /\ r.i = call[c].i /\ r.session = call[c].session /\ r.doing = {}
      BY <3>1, <3>5, <3>6 DEF CallState, Points
    <3>2. CallOK(r)
      BY <1>3, <2>3, <3>7
    <3>3. call' = [call EXCEPT ![c].pc = "closing", ![c].hudor = h] /\ UNCHANGED panicked
      BY <1>6, <2>3, <3>1 DEF CloseHudor, historyVars
    <3>4. call' = [call EXCEPT ![c] = r]
      BY <3>3, <3>5 DEF Typed, CallsTyped
    <3> QED
      BY <3>2, <3>3, <3>4 DEF Moves, Typed
  <2> QED
    BY <2>2, <2>3
<1>4. CASE ResetFile(c)
  <2>1. UNCHANGED panicked
    BY <1>4 DEF ResetFile, historyVars
  <2>2. PICK from \in {"resetFile", "closing"} : Goto(c, from, "resetSession")
    BY <1>4 DEF ResetFile
  <2>3. RouteAt("resetSession", call[c].route) /\ "resetSession" \in Points
        /\ "resetSession" \notin WithHudor /\ from \notin Doing
    BY <1>0, <2>2 DEF Goto, RouteAt, Points, WithHudor, Doing
  <2> QED
    BY <2>1, <2>2, <2>3, GotoMoves
<1> QED
  BY <1>1, <1>2, <1>4, <1>5, <1>6 DEF Reset

LEMMA LogsMoves ==
  ASSUME Typed, NEW c \in Client, Logs(c)
  PROVE  Moves(c)
<1>0. CallOK(call[c]) /\ RouteAt(call[c].pc, call[c].route) /\ call[c] \in CallState
  BY CallTyped DEF CallOK
<1>1. CASE BeginLogs(c)
  <2>1. Enter(c, "logs", "test", Missing, {})
    BY <1>1 DEF BeginLogs, Begin
  <2>2. RouteAt("test", "logs") /\ "test" \in Points /\ "logs" \in Routes /\ Missing \in Profiles
        /\ "test" \notin WithHudor
    BY DEF RouteAt, Points, Routes, Profiles, WithHudor, Doing
  <2> QED
    BY <2>1, <2>2, EnterMoves
<1>2. CASE TestLine(c)
  <2>1. UNCHANGED panicked
    BY <1>2 DEF TestLine, CallOnly, historyVars
  <2>2. CASE Goto(c, "test", "advance")
    <3>1. RouteAt("advance", call[c].route) /\ "advance" \in Points
          /\ "advance" \notin WithHudor /\ "test" \notin Doing
      BY <1>0, <2>2 DEF Goto, RouteAt, Points, WithHudor, Doing
    <3> QED
      BY <2>1, <2>2, <3>1, GotoMoves
  <2>3. CASE Goto(c, "test", "take") /\ call[c].i < PageSize
    <3>1. PICK r : r = [call[c] EXCEPT !.pc = "take"]
      OBVIOUS
    <3>2. call[c].pc = "test" /\ call' = [call EXCEPT ![c] = r]
      BY <2>3, <3>1 DEF Goto, Typed, CallsTyped
    <3>3. r \in CallState
      BY <1>0, <3>1 DEF CallState, Points
    <3>4. /\ r.pc = "take" /\ r.route = call[c].route /\ r.hudor = call[c].hudor
          /\ r.page = call[c].page /\ r.i = call[c].i /\ r.session = call[c].session
          /\ r.doing = call[c].doing
      BY <1>0, <3>1 DEF CallState
    <3>5. RouteAt("take", call[c].route)
      BY <1>0, <3>2 DEF RouteAt
    <3>6. r.i # PageSize
      BY <2>3, <3>4, CallTyped, ServerSessionConstants
    <3>7. CallOK(r)
      <4>1. call[c].doing = {} /\ "take" \notin WithHudor
        BY <1>0, <3>2 DEF CallOK, Doing, WithHudor
      <4> QED
        BY <1>0, <3>3, <3>4, <3>5, <3>6, <4>1 DEF CallOK
    <3> QED
      BY <2>1, <3>2, <3>7 DEF Moves, Typed
  <2> QED
    BY <1>2, <2>2, <2>3 DEF TestLine
<1>3. CASE TakeLine(c)
  <2>1. PICK n : n = call[c].i + S.offset + 1
    OBVIOUS
  <2>2. call[c].pc = "take"
    BY <1>3 DEF TakeLine
  <2>3. CASE n > Len(S.output)
    BY <1>3, <2>1, <2>2, <2>3, PanicMoves DEF TakeLine
  <2>4. CASE ~(n > Len(S.output))
    <3>1. PICK l : l = S.output[n]
      OBVIOUS
    <3>2. l \in Line
      <4>1. S.output \in Seq(Line) /\ S.offset \in Nat
        BY SessionTyped DEF SessionState
      <4>2. call[c].i \in Nat /\ Len(S.output) \in Nat
        BY <4>1, CallTyped
      <4>3. n \in 1 .. Len(S.output)
        BY <2>1, <2>4, <4>1, <4>2
      <4> QED
        BY <3>1, <4>1, <4>3
    <3>3. PICK p : p = Append(call[c].page, l)
      OBVIOUS
    <3>4. PICK r : r = [call[c] EXCEPT !.pc = "test", !.i = @ + 1, !.page = p]
      OBVIOUS
    <3>5. p \in Seq(Line) /\ Len(p) = Len(call[c].page) + 1
      <4>1. PICK g : g = call[c].page
        OBVIOUS
      <4>2. g \in Seq(Line)
        BY <4>1, CallTyped
      <4>3. Append(g, l) \in Seq(Line) /\ Len(Append(g, l)) = Len(g) + 1
        BY <3>2, <4>2
      <4> QED
        BY <3>3, <4>1, <4>3
    <3>6. r \in CallState
      <4>1. PICK j : j = call[c].i + 1
        OBVIOUS
      <4>2. j \in Nat
        BY <4>1, CallTyped
      <4>3. r = [call[c] EXCEPT !.pc = "test", !.i = j, !.page = p]
        BY <3>4, <4>1
      <4> QED
        BY <1>0, <3>5, <4>2, <4>3 DEF CallState, Points
    <3>7. /\ r.pc = "test" /\ r.route = call[c].route /\ r.hudor = call[c].hudor
          /\ r.page = p /\ r.i = call[c].i + 1 /\ r.session = call[c].session
          /\ r.doing = call[c].doing
      BY <1>0, <3>4 DEF CallState
    <3>8. RouteAt("test", call[c].route)
      BY <1>0, <2>2 DEF RouteAt
    <3>9. r.i <= PageSize /\ Len(r.page) = r.i
      BY <1>0, <2>2, <3>5, <3>7, CallTyped, ServerSessionConstants DEF CallOK
    <3>10. CallOK(r)
      <4>1. call[c].doing = {} /\ "test" \notin WithHudor
        BY <1>0, <2>2 DEF CallOK, Doing, WithHudor
      <4> QED
        BY <1>0, <3>6, <3>7, <3>8, <3>9, <4>1 DEF CallOK
    <3>11. call' = [call EXCEPT ![c].pc = "test", ![c].i = @ + 1, ![c].page = Append(@, l)]
      BY <1>3, <2>1, <2>4, <3>1 DEF TakeLine
    <3>12. call' = [call EXCEPT ![c] = r]
      BY <3>3, <3>4, <3>11 DEF Typed, CallsTyped
    <3>13. UNCHANGED panicked
      BY <1>3, <2>1, <2>4 DEF TakeLine, CallOnly, historyVars
    <3> QED
      BY <3>10, <3>12, <3>13 DEF Moves, Typed
  <2> QED
    BY <2>3, <2>4
<1>4. CASE ReadOffset(c)
  <2>1. call[c].pc = "advance"
    BY <1>4 DEF ReadOffset
  <2>2. PICK s : s = session
    OBVIOUS
  <2>3. PICK n : n = S.offset
    OBVIOUS
  <2>4. s \in Nat /\ n \in Nat /\ s # 0 /\ s <= Len(sess)
    BY <2>2, <2>3, SessionTyped DEF SessionState
  <2>5. PICK r : r = [call[c] EXCEPT !.pc = "return", !.session = s, !.offset = n]
    OBVIOUS
  <2>6. r \in CallState
    BY <1>0, <2>4, <2>5 DEF CallState, Points
  <2>7. /\ r.pc = "return" /\ r.route = call[c].route /\ r.hudor = call[c].hudor
        /\ r.page = call[c].page /\ r.i = call[c].i /\ r.session = s
        /\ r.doing = call[c].doing
    BY <1>0, <2>5 DEF CallState
  <2>8. RouteAt("return", call[c].route)
    BY <1>0, <2>1 DEF RouteAt
  <2>9. CallOK(r)
    <3>1. call[c].doing = {} /\ "return" \notin WithHudor
      BY <1>0, <2>1 DEF CallOK, Doing, WithHudor
    <3> QED
      BY <1>0, <2>4, <2>6, <2>7, <2>8, <3>1 DEF CallOK
  <2>10. call' = [call EXCEPT ![c].pc = "return", ![c].session = s, ![c].offset = n]
    BY <1>4, <2>2, <2>3 DEF ReadOffset
  <2>11. call' = [call EXCEPT ![c] = r]
    BY <2>5, <2>10 DEF Typed, CallsTyped
  <2> QED
    BY <1>4, <2>9, <2>11 DEF Moves, Typed, ReadOffset, CallOnly, historyVars
<1>5. CASE StoreOffset(c)
  BY <1>5, IdleMoves DEF StoreOffset, SessionOnly, historyVars, Return
<1> QED
  BY <1>1, <1>2, <1>3, <1>4, <1>5 DEF Logs

\* A call that is possible now is possible after the step.
LEMMA CallKept ==
  ASSUME HudorsGrow, SessGrow, Typed, NEW r, CallOK(r)
  PROVE  CallOK(r)'
<1>1. r \in CallState /\ r.hudor <= Len(hudors) /\ r.session <= Len(sess)
  BY DEF CallOK
<1>2. r.hudor \in Nat /\ r.session \in Nat
  BY <1>1 DEF CallState
<1>3. /\ Len(hudors) \in Nat /\ Len(hudors') \in Nat /\ Len(sess) \in Nat /\ Len(sess') \in Nat
      /\ Len(hudors') >= Len(hudors) /\ Len(sess') >= Len(sess)
  BY DEF Typed, HudorsTyped, HudorsGrow, SessTyped, SessGrow
<1>4. r.hudor <= Len(hudors') /\ r.session <= Len(sess')
  BY <1>1, <1>2, <1>3
<1> QED
  BY <1>4 DEF CallOK

LEMMA CallsStep == Typed /\ [Next]_vars => CallsTyped' /\ panicked' \subseteq PanicRecords
<1> SUFFICES ASSUME Typed, [Next]_vars PROVE CallsTyped' /\ panicked' \subseteq PanicRecords
  OBVIOUS
<1>1. HudorsGrow /\ SessGrow
  BY HudorsStep, SessStep
<1>2. call \in [Client -> CallState] /\ panicked \subseteq PanicRecords
  BY DEF Typed, CallsTyped
<1>3. \A d \in Client : \A r : r = call[d] => CallOK(r)'
  BY <1>1, CallTyped, CallKept
<1>4. ASSUME NEW c \in Client, NEW r, CallOK(r)', call' = [call EXCEPT ![c] = r]
      PROVE  CallsTyped'
  <2>1. \A d \in Client : \A q : q = call'[d] => CallOK(q)'
    BY <1>2, <1>3, <1>4
  <2>2. r \in CallState
    BY <1>4 DEF CallOK
  <2>3. call' \in [Client -> CallState]
    BY <1>2, <1>4, <2>2
  <2>4. ASSUME NEW d \in Client PROVE CallOK(call[d])'
    <3>1. PICK q : q = call'[d]
      OBVIOUS
    <3>2. CallOK(q)'
      BY <2>1, <3>1
    <3> QED
      BY <3>1, <3>2 DEF CallOK
  <2> QED
    BY <2>3, <2>4 DEF CallsTyped
<1>5. ASSUME NEW c \in Client, Moves(c) PROVE CallsTyped' /\ panicked' \subseteq PanicRecords
  <2>1. PICK r : CallOK(r) /\ call' = [call EXCEPT ![c] = r]
    BY <1>5 DEF Moves
  <2>2. CallOK(r)'
    BY <1>1, <2>1, CallKept
  <2> QED
    BY <1>4, <1>5, <2>1, <2>2 DEF Moves
<1>6. ASSUME NEW c \in Client, NewHudor(c) PROVE CallsTyped' /\ panicked' \subseteq PanicRecords
  <2>0. CallOK(call[c]) /\ call[c].pc = "close" /\ RouteAt(call[c].pc, call[c].route)
    BY <1>6, CallTyped DEF NewHudor, CallOK
  <2>1. CASE Panics(c, "profile")
    <3>1. CallOK(NoCall)' /\ call[c].route \in Routes
      BY <1>1, <2>0, NoCallOK, CallKept, RouteOf DEF Typed
    <3>2. <<call[c].route, "profile">> \in PanicRecords
      BY <3>1 DEF PanicRecords
    <3>3. call' = [call EXCEPT ![c] = NoCall] /\ panicked' = panicked \cup {<<call[c].route, "profile">>}
      BY <2>1 DEF Panics
    <3> QED
      BY <1>2, <1>4, <3>1, <3>2, <3>3
  <2>2. CASE UNCHANGED panicked /\ call' = [call EXCEPT ![c].pc = "store", ![c].hudor = hudor']
    <3>1. PICK h : h = hudor'
      OBVIOUS
    <3>2. h \in Nat /\ h <= Len(hudors')
      BY <1>1, <3>1 DEF HudorsGrow, HudorsTyped
    <3>3. PICK q : q = [call[c] EXCEPT !.pc = "store", !.hudor = h]
      OBVIOUS
    <3>4. q \in CallState
      BY <2>0, <3>2, <3>3 DEF CallOK, CallState, Points
    <3>5. /\ q.pc = "store" /\ q.route = call[c].route /\ q.hudor = h /\ q.page = call[c].page
          /\ q.i = call[c].i /\ q.session = call[c].session
          /\ q.doing = call[c].doing /\ q.tasks = call[c].tasks
      BY <2>0, <3>3 DEF CallOK, CallState
    <3>6. RouteAt("store", call[c].route) /\ "store" \notin WithHudor /\ call[c].doing = {}
      BY <2>0 DEF RouteAt, CallOK, WithHudor, Doing
    <3>7. PICK r : r = call[c]
      OBVIOUS
    <3>8. CallOK(r)' /\ r.session <= Len(sess')
      BY <1>3, <3>7 DEF CallOK
    <3>9. CallOK(q)'
      BY <2>0, <3>2, <3>4, <3>5, <3>6, <3>7, <3>8 DEF CallOK
    <3>10. call' = [call EXCEPT ![c] = q]
      BY <1>2, <2>2, <3>1, <3>3
    <3> QED
      BY <1>2, <1>4, <2>2, <3>9, <3>10
  <2> QED
    BY <1>6, <2>1, <2>2, NewHudorEffect
<1>7. CASE UNCHANGED <<call, panicked>>
  <2>1. ASSUME NEW d \in Client PROVE CallOK(call[d])'
    <3>1. PICK q : q = call[d]
      OBVIOUS
    <3>2. CallOK(q)'
      BY <1>3, <3>1
    <3> QED
      BY <1>7, <3>1, <3>2 DEF CallOK
  <2> QED
    BY <1>2, <1>7, <2>1 DEF CallsTyped
<1>8. ASSUME NEW c \in Client, Handler(c), ~NewHudor(c) PROVE Moves(c)
  <2>1. CASE ResetSession(c)
    BY <2>1, IdleMoves DEF ResetSession, SessionOnly, historyVars, Return
  <2> QED
    BY <1>8, <2>1, LoadMoves, TasksMoves, ResetMoves, LogsMoves DEF Handler
<1>9. LogStep \/ TaskStep \/ UNCHANGED vars => UNCHANGED <<call, panicked>>
  BY LogStepFrame, TaskStepFrame DEF historyVars, vars
<1> QED
  BY <1>5, <1>6, <1>7, <1>8, <1>9, StepCases

-----------------------------------------------------------------------------
(* Type correctness *)

LEMMA TypedStep == Typed /\ [Next]_vars => Typed'
BY HudorsStep, SessStep, FilesStep, ReadersStep, CallsStep
   DEF Typed, HudorsGrow, SessGrow, FilesGrow

LEMMA AlwaysTyped == Spec => []Typed
BY TypedInit, TypedStep, PTL DEF Spec

LEMMA TypedImplies == Typed => SessionTypeOK
<1> SUFFICES ASSUME Typed PROVE SessionTypeOK
  OBVIOUS
<1>1. /\ sess \in Seq(SessionState) /\ file \in Seq(LogState) /\ tails \in Seq(TailState)
      /\ readers \in Seq(ReaderState) /\ hudors \in Seq(HudorState)
      /\ tailObj = Len(tails) /\ config \in Profiles /\ hudor \in 0 .. Len(hudors)
      /\ panicked \subseteq PanicRecords
  BY DEF Typed, SessTyped, FilesTyped, ReadersTyped, HudorsTyped
<1>2. sess \in Seq([hudor : 0 .. Len(hudors), profile : Profiles, tasks : SUBSET Task,
                    output : Seq(Line), offset : Nat, shown : Seq(Line)])
  <2>1. ASSUME NEW k \in DOMAIN sess
        PROVE  sess[k] \in [hudor : 0 .. Len(hudors), profile : Profiles, tasks : SUBSET Task,
                            output : Seq(Line), offset : Nat, shown : Seq(Line)]
    <3>1. sess[k] \in SessionState /\ sess[k].hudor \in 0 .. Len(hudors)
      BY <1>1, EachSession
    <3> QED
      BY <3>1 DEF SessionState
  <2> QED
    BY <1>1, <2>1, SeqTyped
<1>3. file \in Seq([lines : Nat, new : BOOLEAN])
  BY <1>1 DEF LogState
<1>4. tails \in Seq([file : DOMAIN file, at : Nat, ended : BOOLEAN])
  <2>1. ASSUME NEW k \in DOMAIN tails PROVE tails[k] \in [file : DOMAIN file, at : Nat, ended : BOOLEAN]
    <3>1. tails[k] \in TailState /\ tails[k].file \in DOMAIN file
      BY EachTail
    <3> QED
      BY <3>1 DEF TailState
  <2> QED
    BY <1>1, <2>1, SeqTyped
<1>5. readers \in Seq([pc : {"start", "lines", "append", "ended"}, tail : 0 .. Len(tails),
                       line : Line, session : 0 .. Len(sess), output : Seq(Line)])
  <2>1. ASSUME NEW r \in DOMAIN readers
        PROVE  readers[r] \in [pc : {"start", "lines", "append", "ended"}, tail : 0 .. Len(tails),
                               line : Line, session : 0 .. Len(sess), output : Seq(Line)]
    <3>1. readers[r] \in ReaderState /\ readers[r].tail \in 0 .. Len(tails)
          /\ readers[r].session \in 0 .. Len(sess)
      BY EachReader
    <3> QED
      BY <3>1 DEF ReaderState
  <2> QED
    BY <1>1, <2>1, SeqTyped
<1>6. ASSUME NEW c \in Client
      PROVE  /\ call[c].pc \in Points
             /\ call[c].tasks \subseteq Task /\ call[c].doing \subseteq call[c].tasks
             /\ call[c].hudor \in 0 .. Len(hudors) /\ Len(call[c].page) \in 0 .. PageSize
  BY CallTyped, ServerSessionConstants DEF CallOK, CallState
<1>7. panicked \subseteq (Loads \cup TaskRoutes \cup {"getsession", "getresults", "reset", "logs"})
                          \X {"hudor", "profile", "rate", "task", "line"}
  BY <1>1 DEF PanicRecords, Routes
<1>8. tailObj \in 0 .. Len(tails)
  BY <1>1
<1>9. hudors \in Seq([open : BOOLEAN, tasks : SUBSET Task, active : SUBSET Task,
                      working : SUBSET Task, updated : SUBSET Task, doubled : SUBSET Task])
  BY <1>1 DEF HudorState
<1> QED
  BY <1>1, <1>2, <1>3, <1>4, <1>5, <1>6, <1>7, <1>8, <1>9 DEF SessionTypeOK

\* The variables of the server have their types: what a session, a tail or a
\* call refers to exists, and a page has no more lines than /logs returns.
THEOREM SessionTypeCorrect == Spec => []SessionTypeOK
BY AlwaysTyped, TypedImplies, PTL

-----------------------------------------------------------------------------
(* Nothing works out of reach *)

NoWork == \A h \in DOMAIN hudors : hudors[h].working \subseteq hudors[h].updated

\* What a handler counts on at its point, as long as calls do not get in each
\* other's way.
Held(r) ==
  /\ r.pc \in {"list", "use", "results", "active", "stopAll", "stopping", "closing"} \cup Doing
       => S.hudor # 0
  /\ r.pc \in {"close", "store"} => r.hudor = hudor
  /\ r.pc = "store" => hudor # 0
  /\ r.pc \in {"store", "resetFile", "resetSession"} => NoWork
  /\ r.pc \in {"closing"} \cup Doing => r.hudor = S.hudor
  /\ r.pc = "results" => r.tasks \subseteq H.tasks
  /\ r.pc = "start" => r.doing \subseteq H.tasks \ H.active

\* An active task has a definition and one run; a task with producers is active,
\* but for those left from an update.
Named == \A h \in DOMAIN hudors :
  /\ hudors[h].active \subseteq hudors[h].tasks /\ hudors[h].doubled = {}
  /\ hudors[h].working \ hudors[h].updated \subseteq hudors[h].active

Alone ==
  \A c, d \in Client :
    c # d /\ call[c].pc # "idle" /\ call[d].pc # "idle" => ~Meet(call[c].route, call[d].route)
OneWorks == \A h \in DOMAIN hudors : hudors[h].working \subseteq hudors[h].updated \/ h = S.hudor
Known == (\A c \in Client : call[c].pc # "store") => S.hudor \in {0, hudor}

Apart == Alone /\ Named /\ OneWorks /\ Known /\ \A c \in Client : Held(call[c])
Quiet == ~overlapped => Apart

\* A step that lets nothing more work.
Eased ==
  /\ DOMAIN hudors' = DOMAIN hudors /\ Named'
  /\ \A h \in DOMAIN hudors :
       /\ hudors'[h].tasks = hudors[h].tasks /\ hudors'[h].active \subseteq hudors[h].active
       /\ hudors'[h].working \ hudors'[h].updated \subseteq hudors[h].working \ hudors[h].updated

LEMMA EasedUnchanged ==
  ASSUME Named, UNCHANGED hudors
  PROVE  Eased
BY DEF Eased, Named

LEMMA EasedPut ==
  ASSUME Typed, Named, NEW h, NEW r, Put(h, r), r.active \subseteq hudors[h].active,
         r.doubled = {}, r.working \ r.updated \subseteq r.active,
         r.working \ r.updated \subseteq hudors[h].working \ hudors[h].updated
  PROVE  Eased
<1>1. hudors \in Seq(HudorState) /\ h \in DOMAIN hudors /\ r.tasks = hudors[h].tasks
      /\ hudors' = [hudors EXCEPT ![h] = r]
  BY DEF Typed, HudorsTyped, Put
<1>2. DOMAIN hudors' = DOMAIN hudors
      /\ \A g \in DOMAIN hudors : hudors'[g] = IF g = h THEN r ELSE hudors[g]
  BY <1>1
<1>3. ASSUME NEW g \in DOMAIN hudors
      PROVE  /\ hudors'[g].active \subseteq hudors'[g].tasks /\ hudors'[g].doubled = {}
             /\ hudors'[g].working \ hudors'[g].updated \subseteq hudors'[g].active
             /\ hudors'[g].tasks = hudors[g].tasks /\ hudors'[g].active \subseteq hudors[g].active
             /\ hudors'[g].working \ hudors'[g].updated \subseteq hudors[g].working \ hudors[g].updated
  <2>1. CASE g = h
    <3>1. hudors'[g] = r
      BY <1>2, <2>1
    <3>2. r.active \subseteq r.tasks
      BY <1>1 DEF Named
    <3> QED
      BY <1>1, <2>1, <3>1, <3>2
  <2>2. CASE g # h
    <3>1. hudors'[g] = hudors[g]
      BY <1>2, <2>2
    <3> QED
      BY <3>1 DEF Named
  <2> QED
    BY <2>1, <2>2
<1> QED
  BY <1>2, <1>3 DEF Eased, Named

LEMMA EasedShut ==
  ASSUME Typed, Named, NEW h, HudorShut(h)
  PROVE  Eased
<1>1. PICK r : Put(h, r) /\ r = [hudors[h] EXCEPT !.open = FALSE]
  BY DEF HudorShut
<1>2. h \in DOMAIN hudors /\ hudors[h] \in HudorState
  BY <1>1, EachHudor DEF Put
<1>3. /\ r.active = hudors[h].active /\ r.working = hudors[h].working
      /\ r.updated = hudors[h].updated /\ r.doubled = hudors[h].doubled
  BY <1>1, <1>2 DEF HudorState
<1>4. r.doubled = {} /\ r.working \ r.updated \subseteq r.active
  BY <1>2, <1>3 DEF Named
<1> QED
  BY <1>1, <1>3, <1>4, EasedPut

LEMMA EasedUpdates ==
  ASSUME Typed, Named, NEW h, NEW t, HudorUpdates(h, t)
  PROVE  Eased
<1>1. PICK r : /\ Put(h, r)
               /\ r.active = hudors[h].active /\ r.working \subseteq hudors[h].working \cup {t}
               /\ r.updated = hudors[h].updated \cup {t} /\ r.doubled = hudors[h].doubled
  BY DEF HudorUpdates
<1>2. h \in DOMAIN hudors
  BY <1>1 DEF Put
<1>3. r.working \ r.updated \subseteq hudors[h].working \ hudors[h].updated
  BY <1>1
<1>4. r.doubled = {} /\ r.working \ r.updated \subseteq r.active
  BY <1>1, <1>2, <1>3 DEF Named
<1> QED
  BY <1>1, <1>3, <1>4, EasedPut

LEMMA EasedEnds ==
  ASSUME Typed, Named, NEW h, HudorEnds(h)
  PROVE  Eased
<1>1. PICK r : /\ Put(h, r)
               /\ r.updated = hudors[h].updated /\ r.doubled = hudors[h].doubled
               /\ r.active \subseteq hudors[h].active /\ r.working \subseteq hudors[h].working
               /\ \A t \in hudors[h].active \ r.active :
                    t \notin hudors[h].working \/ t \in hudors[h].updated \cup hudors[h].doubled
  BY DEF HudorEnds
<1>2. h \in DOMAIN hudors
  BY <1>1 DEF Put
<1>3. /\ hudors[h].doubled = {}
      /\ hudors[h].working \ hudors[h].updated \subseteq hudors[h].active
  BY <1>2 DEF Named
<1>4. r.working \ r.updated \subseteq r.active
  BY <1>1, <1>3
<1>5. r.working \ r.updated \subseteq hudors[h].working \ hudors[h].updated
  BY <1>1
<1> QED
  BY <1>1, <1>3, <1>4, <1>5, EasedPut

\* What is held stays so.
LEMMA HeldKept ==
  ASSUME Typed, Eased, NEW q, Held(q), S.hudor' = S.hudor, UNCHANGED hudor
  PROVE  Held(q)'
<1>1. NoWork => NoWork'
  BY DEF NoWork, Eased
<1>2. S.hudor # 0 => H.tasks' = H.tasks /\ H.active' \subseteq H.active
  BY HudorTyped DEF Eased
<1> QED
  BY <1>1, <1>2 DEF Held, Doing

LEMMA OneWorksKept ==
  ASSUME Eased, OneWorks, S.hudor' = S.hudor
  PROVE  OneWorks'
<1>1. ASSUME NEW h \in DOMAIN hudors'
      PROVE  hudors'[h].working \subseteq hudors'[h].updated \/ h = S.hudor'
  <2>1. h \in DOMAIN hudors
        /\ hudors'[h].working \ hudors'[h].updated \subseteq hudors[h].working \ hudors[h].updated
    BY DEF Eased
  <2> QED
    BY <2>1 DEF OneWorks
<1> QED
  BY <1>1 DEF OneWorks

LEMMA ReachKept ==
  ASSUME Typed, NEW k \in DOMAIN sess, NEW s, s.hudor = sess[k].hudor,
         sess' = [sess EXCEPT ![k] = s]
  PROVE  S.hudor' = S.hudor
<1>1. sess \in Seq(SessionState) /\ session \in DOMAIN sess
  BY SessionTyped
<1>2. Len(sess') = Len(sess)
  BY <1>1
<1>3. \A j \in DOMAIN sess : sess'[j] = IF j = k THEN s ELSE sess[j]
  BY <1>1
<1> QED
  BY <1>1, <1>2, <1>3

\* Who does not store a Hudor or reset leaves the session's Hudor as it is.
LEMMA SameHudor ==
  ASSUME Typed, NEW c \in Client, SetProfile(c) \/ StoreTasks(c) \/ StoreOffset(c)
  PROVE  S.hudor' = S.hudor
<1>0. session \in DOMAIN sess /\ S \in SessionState
  BY SessionTyped
<1>1. CASE SetProfile(c)
  <2>1. PICK k : k = session
    OBVIOUS
  <2>2. PICK s : s = [sess[k] EXCEPT !.profile = call[c].profile]
    OBVIOUS
  <2>3. s.hudor = sess[k].hudor
    BY <1>0, <2>1, <2>2 DEF SessionState
  <2>4. sess' = [sess EXCEPT ![k] = s]
    BY <1>1, <2>1, <2>2 DEF SetProfile
  <2> QED
    BY <1>0, <2>1, <2>3, <2>4, ReachKept
<1>2. CASE StoreTasks(c)
  <2>1. PICK k : k = session
    OBVIOUS
  <2>2. PICK s : s = [sess[k] EXCEPT !.tasks = call[c].tasks]
    OBVIOUS
  <2>3. s.hudor = sess[k].hudor
    BY <1>0, <2>1, <2>2 DEF SessionState
  <2>4. sess' = [sess EXCEPT ![k] = s]
    BY <1>2, <2>1, <2>2 DEF StoreTasks
  <2> QED
    BY <1>0, <2>1, <2>3, <2>4, ReachKept
<1>3. CASE StoreOffset(c)
  <2>1. PICK k : k = call[c].session
    OBVIOUS
  <2>2. k \in DOMAIN sess
    <3>1. call[c].pc = "return"
      BY <1>3 DEF StoreOffset, Return
    <3>2. k \in Nat /\ k # 0 /\ k <= Len(sess)
      BY <2>1, <3>1, CallTyped DEF CallOK, CallState
    <3>3. sess \in Seq(SessionState)
      BY SessionTyped
    <3> QED
      BY <3>2, <3>3
  <2>3. PICK n : n = call[c].offset + call[c].i
    OBVIOUS
  <2>4. PICK w : w = sess[k].shown \o call[c].page
    OBVIOUS
  <2>5. PICK s : s = [sess[k] EXCEPT !.offset = n, !.shown = w]
    OBVIOUS
  <2>6. s.hudor = sess[k].hudor
    BY <2>2, <2>5, EachSession DEF SessionState
  <2>7. sess' = [sess EXCEPT ![k].offset = n, ![k].shown = sess[k].shown \o call[c].page]
    BY <1>3, <2>1, <2>2, <2>3, <2>4 DEF StoreOffset
  <2>8. sess' = [sess EXCEPT ![k] = s]
    BY <2>2, <2>4, <2>5, <2>7, SessionTyped
  <2> QED
    BY <2>2, <2>6, <2>8, ReachKept
<1> QED
  BY <1>1, <1>2, <1>3

LEMMA LogStepSameHudor ==
  ASSUME Typed, LogStep
  PROVE  S.hudor' = S.hudor
<1>1. ASSUME NEW r \in DOMAIN readers, ReaderAppend(r) PROVE S.hudor' = S.hudor
  <2>1. PICK k : k = readers[r].session
    OBVIOUS
  <2>2. k \in DOMAIN sess
    BY <1>1, <2>1, EachReader DEF ReaderAppend
  <2>3. PICK s : s = [sess[k] EXCEPT !.output = Append(readers[r].output, readers[r].line)]
    OBVIOUS
  <2>4. s.hudor = sess[k].hudor
    BY <2>2, <2>3, EachSession DEF SessionState
  <2>5. sess' = [sess EXCEPT ![k] = s]
    BY <1>1, <2>1, <2>2, <2>3 DEF ReaderAppend
  <2> QED
    BY <2>2, <2>4, <2>5, ReachKept
<1> QED
  BY <1>1, LogStepFrame

-----------------------------------------------------------------------------
(* Calls that do not get in each other's way *)

LEMMA MeetSymmetric == \A r, q : Meet(r, q) <=> Meet(q, r)
BY DEF Meet

\* A handler goes on, or is done, and nothing else changes what others count on.
LEMMA ApartMove ==
  ASSUME Typed, Apart, NEW c \in Client, NEW r, call' = [call EXCEPT ![c] = r],
         r.pc = "idle" \/ (call[c].pc # "idle" /\ r.route = call[c].route),
         call[c].pc # "store", Held(r), Eased, S.hudor' = S.hudor, UNCHANGED hudor
  PROVE  Apart'
<1>1. call \in [Client -> CallState]
  BY DEF Typed, CallsTyped
<1>2. \A d \in Client : call'[d] = IF d = c THEN r ELSE call[d]
  BY <1>1
<1>3. Alone'
  BY <1>2, MeetSymmetric DEF Apart, Alone
<1>4. OneWorks' /\ Named'
  BY OneWorksKept DEF Apart, Eased
<1>5. Known'
  BY <1>2 DEF Apart, Known
<1>6. ASSUME NEW d \in Client PROVE Held(call[d])'
  <2>1. PICK q : q = call'[d]
    OBVIOUS
  <2>2. Held(q)
    BY <1>2, <2>1 DEF Apart
  <2>3. Held(q)'
    BY <2>2, HeldKept
  <2> QED
    BY <2>1, <2>3 DEF Held, NoWork
<1> QED
  BY <1>3, <1>4, <1>5, <1>6 DEF Apart

\* Next to a load there are only calls for /logs, which count on nothing.
LEMMA NextToLoad ==
  ASSUME Typed, Apart, NEW c \in Client, call[c].pc # "idle", call[c].route \in Loads,
         NEW d \in Client \ {c}
  PROVE  call[d].pc \in {"idle", "test", "take", "advance", "return"}
<1>1. CASE call[d].pc = "idle"
  BY <1>1
<1>2. CASE call[d].pc # "idle"
  <2>1. call[d].route = "logs"
    BY <1>2 DEF Apart, Alone, Meet, Loads
  <2>2. RouteAt(call[d].pc, "logs") /\ call[d].pc \in Points
    BY <2>1, CallTyped DEF CallOK, CallState
  <2> QED
    BY <2>2 DEF RouteAt, Points, Loads, TaskRoutes
<1> QED
  BY <1>1, <1>2

\* Next to a reset there is no other call.
LEMMA NextToReset ==
  ASSUME Apart, NEW c \in Client, call[c].pc # "idle", call[c].route = "reset",
         NEW d \in Client \ {c}
  PROVE  call[d].pc = "idle"
BY DEF Apart, Alone, Meet

LEMMA HeldOfPage ==
  ASSUME NEW r, r.pc \in {"idle", "profile", "create", "tasks", "next",
                         "test", "take", "advance", "return"}
  PROVE  Held(r) /\ Held(r)'
BY DEF Held, Doing

LEMMA ApartEnter ==
  ASSUME Typed, Apart, NEW c \in Client, NEW route, NEW to, NEW p, NEW T,
         Enter(c, route, to, p, T), ~overlapped',
         \/ to \in {"profile", "create", "next", "test"}
         \/ to \in {"use", "active"} /\ S.hudor # 0
         \/ to = "resetFile" /\ S.hudor = 0
  PROVE  Apart'
<1>1. call \in [Client -> CallState]
  BY DEF Typed, CallsTyped
<1>2. PICK r : r = [NoCall EXCEPT !.pc = to, !.route = route, !.profile = p, !.tasks = T]
  OBVIOUS
<1>3. r.pc = to /\ r.route = route
  BY <1>2 DEF NoCall
<1>4. call' = [call EXCEPT ![c] = r] /\ UNCHANGED <<sess, hudors, hudor>> /\ call[c].pc = "idle"
  BY <1>2 DEF Enter, hudorVars
<1>5. \A d \in Client : call'[d] = IF d = c THEN r ELSE call[d]
  BY <1>1, <1>4
<1>6. \A d \in Client : call[d].pc # "idle" => ~Meet(route, call[d].route)
  BY DEF Enter
<1>7. Alone'
  BY <1>3, <1>4, <1>5, <1>6, MeetSymmetric DEF Apart, Alone
<1>11. Eased
  BY <1>4, EasedUnchanged DEF Apart
<1>8. Named' /\ OneWorks' /\ Known'
  <2>1. S.hudor' = S.hudor
    BY <1>4
  <2>2. Known'
    BY <1>3, <1>4, <1>5, <2>1 DEF Apart, Known
  <2> QED
    BY <1>11, <2>1, <2>2, OneWorksKept DEF Apart, Eased
<1>9. Held(r)
  <2>1. CASE to = "resetFile"
    <3>1. \A h \in DOMAIN hudors : h # 0
      BY DEF Typed, HudorsTyped
    <3> QED
      BY <1>3, <2>1, <3>1 DEF Held, Apart, OneWorks, NoWork, Doing
  <2> QED
    BY <1>3, <2>1 DEF Held, Doing
<1>10. ASSUME NEW d \in Client PROVE Held(call[d])'
  <2>1. PICK q : q = call'[d]
    OBVIOUS
  <2>2. Held(q)
    BY <1>5, <1>9, <2>1 DEF Apart
  <2>3. Held(q)'
    BY <1>4, <1>11, <2>2, HeldKept
  <2> QED
    BY <2>1, <2>3 DEF Held, NoWork
<1> QED
  BY <1>7, <1>8, <1>10 DEF Apart

LEMMA ApartIdle ==
  ASSUME Typed, Apart, NEW c \in Client, call' = [call EXCEPT ![c] = NoCall],
         call[c].pc # "store", S.hudor' = S.hudor, UNCHANGED <<hudors, hudor>>
  PROVE  Apart'
<1>1. NoCall.pc = "idle"
  BY DEF NoCall
<1>2. Held(NoCall) /\ Eased
  BY <1>1, HeldOfPage, EasedUnchanged DEF Apart
<1> QED
  BY <1>1, <1>2, ApartMove

LEMMA ApartUse ==
  ASSUME Typed, Apart, NEW c \in Client, NEW from, from \notin {"idle", "store"}, NEW then,
         UseHudor(c, from, then), then.pc = "idle" \/ then.route = call[c].route,
         S.hudor # 0 => Held(then)
  PROVE  Apart'
<1>1. UNCHANGED <<sess, hudors, hudor>>
  BY UseHudorFrame DEF hudorVars
<1>2. call[c].pc = from
  BY DEF UseHudor
<1>3. CASE S.hudor = 0
  BY <1>1, <1>2, <1>3, ApartIdle DEF UseHudor, Panic, Panics
<1>4. CASE S.hudor # 0
  BY <1>1, <1>2, <1>4, ApartMove, EasedUnchanged DEF UseHudor, Apart
<1> QED
  BY <1>3, <1>4

LEMMA ApartGoto ==
  ASSUME Typed, Apart, NEW c \in Client, NEW from, NEW to, from \notin {"idle", "store"},
         Goto(c, from, to), S.hudor' = S.hudor, UNCHANGED <<hudors, hudor>>,
         to \in {"create", "tasks", "test", "take", "advance", "return"}
         \/ (to = "resetSession" /\ NoWork)
  PROVE  Apart'
<1>1. PICK r : r = [call[c] EXCEPT !.pc = to]
  OBVIOUS
<1>2. r.pc = to /\ r.route = call[c].route
  BY <1>1, CallTyped DEF CallState
<1>3. call[c].pc = from /\ call' = [call EXCEPT ![c] = r]
  BY <1>1 DEF Goto, Typed, CallsTyped
<1>4. Held(r) /\ Eased
  BY <1>2, EasedUnchanged DEF Held, Doing, Apart
<1> QED
  BY <1>2, <1>3, <1>4, ApartMove

LEMMA ApartLoad ==
  ASSUME Typed, Apart, NEW c \in Client, Load(c), ~overlapped'
  PROVE  Apart'
<1>0. call \in [Client -> CallState] /\ call[c] \in CallState /\ RouteAt(call[c].pc, call[c].route)
      /\ Held(call[c])
  BY CallTyped DEF Typed, CallsTyped, CallOK, Apart
<1>1. ASSUME NEW p \in mix.profiles, FollowLog(c, p) \/ BeginLoad(c, p) PROVE Apart'
  BY <1>1, ApartEnter DEF FollowLog, BeginLoad, Begin
<1>2. CASE SetProfile(c)
  <2>1. Goto(c, "profile", "create") /\ UNCHANGED <<hudors, hudor>>
    BY <1>2 DEF SetProfile, SessionOnly, hudorVars
  <2> QED
    BY <1>2, <2>1, SameHudor, ApartGoto
<1>3. CASE CreateLog(c)
  <2>1. call[c].pc = "create" /\ UNCHANGED <<sess, hudor>>
    BY <1>3 DEF CreateLog
  <2>7. Eased
    <3>1. Named
      BY DEF Apart
    <3>2. UNCHANGED hudors \/ HudorShut(hudor)
      BY <1>3, CreateLogEffect
    <3> QED
      BY <3>1, <3>2, EasedUnchanged, EasedShut
  <2>2. PICK r : r = [call[c] EXCEPT !.pc = "close", !.hudor = hudor]
    OBVIOUS
  <2>3. r.pc = "close" /\ r.route = call[c].route /\ r.hudor = hudor
    BY <1>0, <2>2 DEF CallState
  <2>4. call' = [call EXCEPT ![c].pc = "close", ![c].hudor = hudor]
    BY <1>3 DEF CreateLog
  <2>5. call' = [call EXCEPT ![c] = r]
    BY <1>0, <2>2, <2>4
  <2>6. Held(r)
    BY <2>3 DEF Held, Doing
  <2> QED
    BY <2>1, <2>3, <2>5, <2>6, <2>7, ApartMove
<1>8. CASE NewHudor(c) /\ Panics(c, "profile") /\ UNCHANGED <<hudors, hudor>>
  <2>1. /\ call[c].pc = "close" /\ call' = [call EXCEPT ![c] = NoCall]
        /\ UNCHANGED <<sess, hudors, hudor>>
    BY <1>8 DEF NewHudor, Panics
  <2> QED
    BY <2>1, ApartIdle
<1>4. ASSUME NEW T \in SUBSET Task, NewHudor(c), hudors' = Append(hudors, NewTasks(T)),
             hudor' = Len(hudors'),
             call' = [call EXCEPT ![c].pc = "store", ![c].hudor = hudor']
      PROVE  Apart'
  <2>1. call[c].pc = "close" /\ (call[c].hudor # 0 => hudors[call[c].hudor].working = {})
        /\ UNCHANGED sess /\ hudor' = Len(hudors')
    BY <1>4 DEF NewHudor
  <2>2. call[c].hudor = hudor /\ call[c].route \in Loads
    BY <1>0, <2>1 DEF Held, RouteAt
  <2>3. \A d \in Client \ {c} : call[d].pc \in {"idle", "test", "take", "advance", "return"}
    BY <2>1, <2>2, NextToLoad
  <2>4. S.hudor \in {0, hudor}
    BY <2>1, <2>3 DEF Apart, Known
  <2>5. NoWork
    <3>1. \A h \in DOMAIN hudors : h # 0
      BY DEF Typed, HudorsTyped
    <3> QED
      BY <2>1, <2>2, <2>4, <3>1 DEF Apart, OneWorks, NoWork
  <2>7. PICK q : q = NewTasks(T)
    OBVIOUS
  <2>8. q \in HudorState /\ q.working = {} /\ q.active = {} /\ q.doubled = {}
    BY <2>7 DEF HudorState, NewTasks
  <2>9. hudors \in Seq(HudorState) /\ hudors' = Append(hudors, q)
    BY <1>4, <2>7 DEF Typed, HudorsTyped
  <2>10. /\ Len(hudors') = Len(hudors) + 1 /\ Len(hudors) \in Nat
         /\ DOMAIN hudors' = DOMAIN hudors \cup {Len(hudors')} /\ hudors'[Len(hudors')] = q
         /\ \A j \in DOMAIN hudors : hudors'[j] = hudors[j]
    BY <2>8, <2>9, SeqAdd
  <2>11. NoWork'
    BY <2>5, <2>8, <2>10 DEF NoWork
  <2>12. hudor' # 0
    BY <2>1, <2>10
  <2>13. PICK r : r = [call[c] EXCEPT !.pc = "store", !.hudor = hudor']
    OBVIOUS
  <2>14. r.pc = "store" /\ r.route = call[c].route /\ r.hudor = hudor'
    BY <1>0, <2>13 DEF CallState
  <2>15. call' = [call EXCEPT ![c].pc = "store", ![c].hudor = hudor']
    BY <1>4 DEF NewHudor
  <2>16. \A d \in Client : call'[d] = IF d = c THEN r ELSE call[d]
    BY <1>0, <2>13, <2>15
  <2>17. Held(r)'
    BY <2>11, <2>12, <2>14 DEF Held, Doing
  <2>18. ASSUME NEW d \in Client PROVE Held(call[d])'
    <3>1. PICK g : g = call'[d]
      OBVIOUS
    <3>2. Held(g)'
      BY <2>3, <2>16, <2>17, <3>1, HeldOfPage
    <3> QED
      BY <3>1, <3>2 DEF Held, NoWork
  <2>19. Alone'
    BY <2>1, <2>14, <2>16, MeetSymmetric DEF Apart, Alone
  <2>20. OneWorks' /\ Known'
    BY <2>11, <2>14, <2>16 DEF OneWorks, NoWork, Known
  <2>21. Named'
    BY <2>8, <2>10 DEF Apart, Named
  <2> QED
    BY <2>18, <2>19, <2>20, <2>21 DEF Apart
<1>5. CASE StoreHudor(c)
  <2>1. call[c].pc = "store" /\ UNCHANGED <<hudors, hudor>>
    BY <1>5 DEF StoreHudor, Goto, Return, SessionOnly, hudorVars
  <2>2. call[c].hudor = hudor /\ hudor # 0 /\ NoWork /\ call[c].route \in Loads
    BY <1>0, <2>1 DEF Held, RouteAt
  <2>3. \A d \in Client \ {c} : call[d].pc \in {"idle", "test", "take", "advance", "return"}
    BY <2>1, <2>2, NextToLoad
  <2>4. S.hudor' = hudor
    <3>1. sess \in Seq(SessionState) /\ session \in DOMAIN sess /\ S \in SessionState
      BY SessionTyped
    <3>2. PICK k : k = session
      OBVIOUS
    <3>3. PICK s : s = [sess[k] EXCEPT !.hudor = call[c].hudor,
                                       !.tasks = IF call[c].route = "getalltasks" THEN {} ELSE @]
      OBVIOUS
    <3>4. s.hudor = hudor
      BY <2>2, <3>1, <3>2, <3>3 DEF SessionState
    <3>5. sess' = [sess EXCEPT ![k].hudor = call[c].hudor,
                               ![k].tasks = IF call[c].route = "getalltasks" THEN {} ELSE @]
      BY <1>5, <3>2 DEF StoreHudor
    <3>6. sess' = [sess EXCEPT ![k] = s]
      BY <3>1, <3>2, <3>3, <3>5
    <3>7. Len(sess') = Len(sess) /\ sess'[k] = s
      BY <3>1, <3>2, <3>6
    <3> QED
      BY <3>2, <3>4, <3>7
  <2>5. PICK r : /\ call' = [call EXCEPT ![c] = r]
                 /\ r.pc = "idle" \/ (r.pc = "list" /\ r.route = call[c].route)
    <3>1. NoCall.pc = "idle"
      BY DEF NoCall
    <3>2. /\ [call[c] EXCEPT !.pc = "list"].pc = "list"
          /\ [call[c] EXCEPT !.pc = "list"].route = call[c].route
      BY <1>0 DEF CallState
    <3>3. CASE Return(c, "store")
      BY <3>1, <3>3 DEF Return
    <3>4. CASE Goto(c, "store", "list")
      <4>1. call' = [call EXCEPT ![c] = [call[c] EXCEPT !.pc = "list"]]
        BY <1>0, <3>4 DEF Goto
      <4> QED
        BY <3>2, <4>1
    <3> QED
      BY <1>5, <3>3, <3>4 DEF StoreHudor
  <2>6. \A d \in Client : call'[d] = IF d = c THEN r ELSE call[d]
    BY <1>0, <2>5
  <2>7. Held(r)'
    BY <2>2, <2>4, <2>1, <2>5 DEF Held, Doing
  <2>8. ASSUME NEW d \in Client PROVE Held(call[d])'
    <3>1. PICK g : g = call'[d]
      OBVIOUS
    <3>2. Held(g)'
      BY <2>3, <2>6, <2>7, <3>1, HeldOfPage
    <3> QED
      BY <3>1, <3>2 DEF Held, NoWork
  <2>9. Alone'
    BY <2>1, <2>5, <2>6, MeetSymmetric DEF Apart, Alone
  <2>10. OneWorks' /\ Known'
    BY <2>1, <2>2, <2>4 DEF OneWorks, NoWork, Known
  <2>11. Named'
    BY <2>1 DEF Apart, Named
  <2> QED
    BY <2>8, <2>9, <2>10, <2>11 DEF Apart
<1>6. CASE ListTasks(c)
  <2>1. PICK r : r = [call[c] EXCEPT !.pc = "tasks", !.tasks = H.tasks]
    OBVIOUS
  <2>2. r.pc = "tasks" /\ r.route = call[c].route
    BY <1>0, <2>1 DEF CallState
  <2>3. UseHudor(c, "list", r)
    BY <1>6, <2>1 DEF ListTasks
  <2> QED
    BY <2>2, <2>3, HeldOfPage, ApartUse
<1>7. CASE StoreTasks(c)
  <2>1. /\ call[c].pc = "tasks" /\ call' = [call EXCEPT ![c] = NoCall]
        /\ UNCHANGED <<hudors, hudor>>
    BY <1>7 DEF StoreTasks, Return, SessionOnly, hudorVars
  <2> QED
    BY <1>7, <2>1, SameHudor, ApartIdle
<1> QED
  BY <1>1, <1>2, <1>3, <1>4, <1>5, <1>6, <1>7, <1>8, NewHudorEffect DEF Load

LEMMA HeldWithout ==
  ASSUME Typed, NEW c \in Client, NEW t, Held(call[c])
  PROVE  /\ Held(Without(c, t))
         /\ Without(c, t).pc = "idle" \/ Without(c, t).route = call[c].route
         /\ Without(c, t).pc \in {"idle", "next", "results"}
         /\ Without(c, t).pc = "results" => call[c].pc = "results"
<1>2. CASE call[c].tasks = {t}
  <2>1. NoCall.pc = "idle" /\ Without(c, t) = NoCall
    BY <1>2 DEF NoCall, Without
  <2> QED
    BY <2>1, HeldOfPage
<1>3. CASE call[c].tasks # {t}
  <2>1. PICK r : r = Without(c, t)
    OBVIOUS
  <2>2. /\ r.pc = IF call[c].pc = "results" THEN "results" ELSE "next"
        /\ r.route = call[c].route /\ r.tasks = call[c].tasks \ {t}
    BY <1>3, <2>1, WithoutFields
  <2>3. Held(r)
    BY <2>2 DEF Held, Doing
  <2> QED
    BY <2>1, <2>2, <2>3
<1> QED
  BY <1>2, <1>3

\* A task is started: no other call counts on what that changes.
LEMMA ApartStart ==
  ASSUME Typed, Apart, NEW c \in Client, NEW t \in call[c].doing, StartTask(c, t)
  PROVE  Apart'
<1>1. /\ call[c].pc = "start" /\ call' = [call EXCEPT ![c] = Without(c, t)]
      /\ UNCHANGED <<sess, hudor>>
  BY DEF StartTask
<1>2. call \in [Client -> CallState] /\ call[c].route = "runtask" /\ Held(call[c])
  BY <1>1, CallTyped DEF Typed, CallsTyped, CallOK, RouteAt, Apart
<1>3. S.hudor # 0 /\ call[c].hudor = S.hudor /\ t \in H.tasks \ H.active
  BY <1>1, <1>2 DEF Held, Doing
<1>4. PICK h : h = S.hudor
  OBVIOUS
<1>5. HudorStarts(h, t)
  BY <1>3, <1>4, StartTaskEffect
<1>6. PICK q : /\ Put(h, q)
               /\ q.active = hudors[h].active \cup {t} /\ q.working = hudors[h].working \cup {t}
               /\ q.updated = hudors[h].updated
               /\ q.doubled = hudors[h].doubled \cup (hudors[h].active \cap {t})
  BY <1>5 DEF HudorStarts
<1>7. /\ hudors \in Seq(HudorState) /\ h \in DOMAIN hudors /\ q.tasks = hudors[h].tasks
      /\ hudors' = [hudors EXCEPT ![h] = q]
  BY <1>6 DEF Typed, HudorsTyped, Put
<1>8. DOMAIN hudors' = DOMAIN hudors
      /\ \A g \in DOMAIN hudors : hudors'[g] = IF g = h THEN q ELSE hudors[g]
  BY <1>7
<1>9. /\ q.doubled = {} /\ q.active \subseteq q.tasks
      /\ q.working \ q.updated \subseteq q.active
  <2>1. /\ hudors[h].doubled = {} /\ hudors[h].active \subseteq hudors[h].tasks
        /\ hudors[h].working \ hudors[h].updated \subseteq hudors[h].active
    BY <1>7 DEF Apart, Named
  <2>2. t \in hudors[h].tasks /\ t \notin hudors[h].active
    BY <1>3, <1>4
  <2> QED
    BY <1>6, <1>7, <2>1, <2>2
<1>10. Named'
  BY <1>8, <1>9 DEF Apart, Named
<1>11. OneWorks'
  BY <1>1, <1>4, <1>8 DEF Apart, OneWorks
<1>12. PICK r : r = Without(c, t)
  OBVIOUS
<1>13. Held(r) /\ (r.pc = "idle" \/ r.route = call[c].route) /\ r.pc \in {"idle", "next"}
  BY <1>1, <1>2, <1>12, HeldWithout
<1>14. \A d \in Client : call'[d] = IF d = c THEN r ELSE call[d]
  BY <1>1, <1>2, <1>12
<1>15. Alone'
  BY <1>1, <1>13, <1>14, MeetSymmetric DEF Apart, Alone
<1>16. ASSUME NEW d \in Client \ {c}
       PROVE  call[d].pc \notin {"store", "resetFile", "resetSession", "start"}
  <2>1. ASSUME call[d].pc \in {"store", "resetFile", "resetSession", "start"} PROVE FALSE
    <3>1. call[d].route \in Loads \cup {"reset", "runtask"}
      BY <2>1, CallTyped DEF CallOK, RouteAt
    <3>2. ~Meet("runtask", call[d].route)
      BY <1>1, <1>2, <2>1 DEF Apart, Alone
    <3> QED
      BY <3>1, <3>2 DEF Meet, Loads
  <2> QED
    BY <2>1
<1>17. Known'
  BY <1>1, <1>13, <1>14 DEF Apart, Known
<1>18. ASSUME NEW d \in Client PROVE Held(call[d])'
  <2>1. PICK g : g = call'[d]
    OBVIOUS
  <2>2. Held(g) /\ g.pc \notin {"store", "resetFile", "resetSession", "start"}
    BY <1>13, <1>14, <1>16, <2>1 DEF Apart
  <2>3. H.tasks' = H.tasks /\ S.hudor' = S.hudor
    BY <1>1, <1>4, <1>7, <1>8
  <2>4. Held(g)'
    BY <1>1, <2>2, <2>3 DEF Held
  <2> QED
    BY <2>1, <2>4 DEF Held, NoWork
<1> QED
  BY <1>10, <1>11, <1>15, <1>17, <1>18 DEF Apart

LEMMA ApartTasks ==
  ASSUME Typed, Apart, NEW c \in Client, Tasks(c), ~overlapped'
  PROVE  Apart'
<1>0. call \in [Client -> CallState] /\ call[c] \in CallState /\ RouteAt(call[c].pc, call[c].route)
      /\ Held(call[c])
  BY CallTyped DEF Typed, CallsTyped, CallOK, Apart
<1>1. ASSUME NEW route, NEW T, BeginTasks(c, route, T) PROVE Apart'
  BY <1>1, ApartEnter DEF BeginTasks, Begin
<1>2. ASSUME NEW route, BeginRead(c, route) PROVE Apart'
  BY <1>2, ApartEnter DEF BeginRead, Begin
<1>3. ASSUME NEW t \in call[c].tasks, TestTask(c, t) PROVE Apart'
  <2>1. CASE UseHudor(c, "next", Without(c, t))
    BY <1>0, <2>1, HeldWithout, ApartUse
  <2>2. CASE S.hudor # 0 /\ Wanted(c, t) /\ UseHudor(c, "next", With(c, t, PointOf(call[c].route)))
    <3>1. call[c].pc = "next"
      BY <2>2 DEF UseHudor
    <3>2. PICK to : to = PointOf(call[c].route)
      OBVIOUS
    <3>3. to \in Doing /\ to \in Points /\ (to = "start" <=> call[c].route = "runtask")
      BY <1>0, <3>1, <3>2 DEF PointOf, Doing, Points, RouteAt, TaskRoutes
    <3>4. PICK r : r = With(c, t, to)
      OBVIOUS
    <3>5. /\ r.pc = to /\ r.doing = {t} /\ r.hudor = S.hudor
          /\ r.route = call[c].route
      BY <1>0, <3>3, <3>4, WithFields DEF CallState
    <3>6. call[c].route = "runtask" => t \in H.tasks \ H.active
      BY <2>2 DEF Wanted
    <3>7. Held(r)
      BY <2>2, <3>3, <3>5, <3>6 DEF Held, Doing
    <3> QED
      BY <2>2, <3>1, <3>2, <3>4, <3>5, <3>7, ApartUse
  <2>3. CASE call[c].pc = "next" /\ Panic(c, "rate")
    BY <2>3, PanicFrame, ApartIdle DEF Panic, Panics, hudorVars
  <2> QED
    BY <1>3, <2>1, <2>2, <2>3 DEF TestTask
<1>6. ASSUME NEW t \in call[c].doing, Stopped(c, t) \/ UpdateRate(c, t) PROVE Apart'
  <2>1. /\ call[c].pc \in {"wait", "update"} /\ call' = [call EXCEPT ![c] = Without(c, t)]
        /\ UNCHANGED <<sess, hudor>>
    BY <1>6 DEF Stopped, UpdateRate, CallOnly, hudorVars
  <2>2. Eased
    <3>1. Named
      BY DEF Apart
    <3>2. Stopped(c, t) => UNCHANGED hudors
      BY DEF Stopped, CallOnly, hudorVars
    <3>3. UpdateRate(c, t) => HudorUpdates(call[c].hudor, t)
      BY UpdateRateEffect
    <3> QED
      BY <1>6, <3>1, <3>2, <3>3, EasedUnchanged, EasedUpdates
  <2> QED
    BY <1>0, <2>1, <2>2, HeldWithout, ApartMove
<1>4. ASSUME NEW t \in Task, ResultOf(c, t) PROVE Apart'
  <2>1. CASE Panic(c, "task")
    <3>1. UNCHANGED <<sess, hudors, hudor>> /\ call[c].pc = "results"
          /\ call' = [call EXCEPT ![c] = NoCall]
      BY <1>4, <2>1 DEF Panic, Panics, ResultOf, hudorVars
    <3> QED
      BY <3>1, ApartIdle
  <2>2. CASE UseHudor(c, "results", Without(c, t))
    BY <1>0, <2>2, HeldWithout, ApartUse
  <2> QED
    BY <1>4, <2>1, <2>2 DEF ResultOf
<1>5. CASE Use(c)
  <2>1. PICK T : T = IF call[c].route = "getresults" THEN H.active ELSE {}
    OBVIOUS
  <2>2. PICK r : r = IF T = {} THEN NoCall ELSE [call[c] EXCEPT !.pc = "results", !.tasks = T]
    OBVIOUS
  <2>3. UseHudor(c, "use", r)
    BY <1>5, <2>1, <2>2 DEF Use
  <2>4. CASE T = {}
    <3>1. r.pc = "idle"
      BY <2>2, <2>4 DEF NoCall
    <3> QED
      BY <2>3, <3>1, HeldOfPage, ApartUse
  <2>5. CASE T # {}
    <3>1. r.pc = "results" /\ r.route = call[c].route /\ r.tasks = T
      BY <1>0, <2>2, <2>5 DEF CallState
    <3>2. S.hudor # 0 => Held(r)
      <4>1. ASSUME S.hudor # 0 PROVE T \subseteq H.tasks
        BY <2>1, <4>1, HudorTyped DEF Apart, Named
      <4> QED
        BY <3>1, <4>1 DEF Held, Doing
    <3> QED
      BY <2>3, <3>1, <3>2, ApartUse
  <2> QED
    BY <2>4, <2>5
<1> QED
  BY <1>1, <1>2, <1>3, <1>4, <1>5, <1>6, ApartStart DEF Tasks, NextTask

LEMMA ApartReset ==
  ASSUME Typed, Apart, NEW c \in Client, Reset(c), ~overlapped'
  PROVE  Apart'
<1>0. call \in [Client -> CallState] /\ call[c] \in CallState /\ RouteAt(call[c].pc, call[c].route)
      /\ Held(call[c])
  BY CallTyped DEF Typed, CallsTyped, CallOK, Apart
<1>1. CASE BeginReset(c)
  BY <1>1, ApartEnter DEF BeginReset, Begin
<1>2. CASE TestActive(c)
  <2>1. PICK to : /\ UseHudor(c, "active", [call[c] EXCEPT !.pc = to])
                  /\ to = IF H.active = {} THEN "resetFile" ELSE "stopAll"
    BY <1>2 DEF TestActive
  <2>2. PICK r : r = [call[c] EXCEPT !.pc = to]
    OBVIOUS
  <2>3. r.pc = to /\ r.route = call[c].route
    BY <1>0, <2>2 DEF CallState
  <2>4. ASSUME S.hudor # 0 PROVE Held(r)
    <3>1. CASE H.active = {}
      <4>1. NoWork
        BY <2>4, <3>1, HudorTyped DEF NoWork, Apart, OneWorks, Named
      <4> QED
        BY <2>1, <2>3, <3>1, <4>1 DEF Held, Doing
    <3>2. CASE H.active # {}
      BY <2>1, <2>3, <2>4, <3>2 DEF Held, Doing
    <3> QED
      BY <3>1, <3>2
  <2> QED
    BY <2>1, <2>2, <2>3, <2>4, ApartUse
<1>3. CASE StopAll(c)
  <2>1. PICK r : r = [call[c] EXCEPT !.pc = "stopping", !.hudor = S.hudor]
    OBVIOUS
  <2>2. UseHudor(c, "stopAll", r)
    BY <1>3, <2>1 DEF StopAll
  <2>3. r.pc = "stopping" /\ r.route = call[c].route
    BY <1>0, <2>1 DEF CallState
  <2>4. S.hudor # 0 => Held(r)
    BY <2>3 DEF Held, Doing
  <2> QED
    BY <2>2, <2>3, <2>4, ApartUse
<1>6. CASE CloseHudor(c)
  <2>1. call[c].pc = "stopping" /\ S.hudor # 0
    BY <1>0, <1>6 DEF CloseHudor, Held
  <2>2. PICK h : h = S.hudor
    OBVIOUS
  <2>3. call' = [call EXCEPT ![c].pc = "closing", ![c].hudor = h] /\ UNCHANGED <<sess, hudor>>
    BY <1>6, <2>1, <2>2 DEF CloseHudor
  <2>4. PICK r : r = [call[c] EXCEPT !.pc = "closing", !.hudor = h]
    OBVIOUS
  <2>5. r.pc = "closing" /\ r.hudor = h /\ r.route = call[c].route
    BY <1>0, <2>4 DEF CallState
  <2>6. call' = [call EXCEPT ![c] = r]
    BY <1>0, <2>3, <2>4
  <2>7. Held(r)
    BY <2>1, <2>2, <2>5 DEF Held, Doing
  <2>8. Eased
    <3>1. Named
      BY DEF Apart
    <3>2. UNCHANGED hudors \/ HudorShut(S.hudor)
      BY <1>6, CloseHudorEffect
    <3> QED
      BY <3>1, <3>2, EasedUnchanged, EasedShut
  <2> QED
    BY <2>1, <2>3, <2>5, <2>6, <2>7, <2>8, ApartMove
<1>4. CASE ResetFile(c)
  <2>1. UNCHANGED <<sess, hudors, hudor>>
    BY <1>4 DEF ResetFile, hudorVars
  <2>2. CASE Goto(c, "resetFile", "resetSession")
    <3>1. NoWork
      BY <1>0, <2>2 DEF Goto, Held
    <3> QED
      BY <2>1, <2>2, <3>1, ApartGoto
  <2>3. CASE Goto(c, "closing", "resetSession") /\ hudors[call[c].hudor].working = {}
    <3>1. call[c].hudor = S.hudor
      BY <1>0, <2>3 DEF Goto, Held
    <3>2. NoWork
      BY <2>3, <3>1 DEF NoWork, Apart, OneWorks
    <3> QED
      BY <2>1, <2>3, <3>2, ApartGoto
  <2> QED
    BY <1>4, <2>2, <2>3 DEF ResetFile
<1>5. CASE ResetSession(c)
  <2>1. /\ call[c].pc = "resetSession" /\ call' = [call EXCEPT ![c] = NoCall]
        /\ sess' = Append(sess, EmptySession) /\ UNCHANGED <<hudors, hudor>>
    BY <1>5 DEF ResetSession, Return, SessionOnly, hudorVars
  <2>2. NoWork /\ call[c].route = "reset"
    BY <1>0, <2>1 DEF Held, RouteAt
  <2>3. \A d \in Client \ {c} : call[d].pc = "idle"
    BY <2>1, <2>2, NextToReset
  <2>4. S.hudor' = 0
    <3>1. sess \in Seq(SessionState)
      BY SessionTyped
    <3>2. sess'[Len(sess')] = EmptySession
      BY <2>1, <3>1, EmptySessionTyped, SeqAdd
    <3> QED
      BY <3>2 DEF EmptySession
  <2>5. \A d \in Client : call'[d].pc = "idle"
    BY <1>0, <2>1, <2>3 DEF NoCall
  <2>6. \A d \in Client : Held(call[d])'
    BY <2>5 DEF Held, Doing
  <2>7. Alone' /\ OneWorks' /\ Known' /\ Named'
    BY <2>1, <2>2, <2>4, <2>5 DEF Alone, OneWorks, NoWork, Known, Apart, Named
  <2> QED
    BY <2>6, <2>7 DEF Apart
<1> QED
  BY <1>1, <1>2, <1>3, <1>4, <1>5, <1>6 DEF Reset

LEMMA ApartLogs ==
  ASSUME Typed, Apart, NEW c \in Client, Logs(c), ~overlapped'
  PROVE  Apart'
<1>0. call \in [Client -> CallState] /\ call[c] \in CallState
  BY CallTyped DEF Typed, CallsTyped
<1>6. UNCHANGED hudors => Eased
  BY EasedUnchanged DEF Apart
<1>1. CASE BeginLogs(c)
  BY <1>1, ApartEnter DEF BeginLogs, Begin
<1>2. CASE TestLine(c)
  <2>1. PICK to \in {"take", "advance"} : Goto(c, "test", to)
    BY <1>2 DEF TestLine
  <2>2. UNCHANGED <<sess, hudors, hudor>>
    BY <1>2 DEF TestLine, CallOnly, hudorVars
  <2> QED
    BY <2>1, <2>2, ApartGoto
<1>3. CASE TakeLine(c)
  <2>1. UNCHANGED <<sess, hudors, hudor>> /\ call[c].pc = "take"
    BY <1>3 DEF TakeLine, CallOnly, Panic, hudorVars
  <2>2. CASE Panic(c, "line")
    BY <2>1, <2>2, ApartIdle DEF Panic, Panics
  <2>3. CASE call' = [call EXCEPT ![c].pc = "test", ![c].i = @ + 1,
                                  ![c].page = Append(@, S.output[call[c].i + S.offset + 1])]
    <3>1. PICK l : l = S.output[call[c].i + S.offset + 1]
      OBVIOUS
    <3>2. PICK r : r = [call[c] EXCEPT !.pc = "test", !.i = @ + 1, !.page = Append(@, l)]
      OBVIOUS
    <3>3. r.pc = "test" /\ r.route = call[c].route
      BY <1>0, <3>2 DEF CallState
    <3>4. call' = [call EXCEPT ![c] = r]
      BY <1>0, <2>3, <3>1, <3>2
    <3>5. Held(r)
      BY <3>3, HeldOfPage
    <3> QED
      BY <1>6, <2>1, <3>3, <3>4, <3>5, ApartMove
  <2> QED
    BY <1>3, <2>2, <2>3 DEF TakeLine
<1>4. CASE ReadOffset(c)
  <2>1. PICK r : r = [call[c] EXCEPT !.pc = "return", !.session = session, !.offset = S.offset]
    OBVIOUS
  <2>2. r.pc = "return" /\ r.route = call[c].route
    BY <1>0, <2>1 DEF CallState
  <2>3. /\ call[c].pc = "advance" /\ UNCHANGED <<sess, hudors, hudor>>
        /\ call' = [call EXCEPT ![c].pc = "return", ![c].session = session, ![c].offset = S.offset]
    BY <1>4 DEF ReadOffset, CallOnly, hudorVars
  <2>4. call' = [call EXCEPT ![c] = r]
    BY <1>0, <2>1, <2>3
  <2>5. Held(r)
    BY <2>2, HeldOfPage
  <2> QED
    BY <1>6, <2>2, <2>3, <2>4, <2>5, ApartMove
<1>5. CASE StoreOffset(c)
  <2>1. /\ call[c].pc = "return" /\ call' = [call EXCEPT ![c] = NoCall]
        /\ UNCHANGED <<hudors, hudor>>
    BY <1>5 DEF StoreOffset, Return, SessionOnly, hudorVars
  <2> QED
    BY <1>5, <2>1, SameHudor, ApartIdle
<1> QED
  BY <1>1, <1>2, <1>3, <1>4, <1>5 DEF Logs

\* Producers that end and goroutines that follow the log take nothing away.
LEMMA ApartOther ==
  ASSUME Typed, Apart, LogStep \/ TaskStep \/ UNCHANGED vars
  PROVE  Apart'
<1>1. UNCHANGED <<call, hudor>> /\ S.hudor' = S.hudor
  BY LogStepFrame, LogStepSameHudor, TaskStepFrame DEF vars, hudorVars
<1>2. Eased
  <2>1. Named
    BY DEF Apart
  <2>2. TaskStep => \E h : HudorEnds(h)
    BY TaskStepEffect
  <2>3. LogStep \/ UNCHANGED vars => UNCHANGED hudors
    BY LogStepFrame DEF vars, hudorVars
  <2> QED
    BY <2>1, <2>2, <2>3, EasedEnds, EasedUnchanged
<1>3. Alone' /\ Known'
  BY <1>1 DEF Apart, Alone, Known
<1>4. OneWorks' /\ Named'
  BY <1>1, <1>2, OneWorksKept DEF Apart, Eased
<1>5. ASSUME NEW d \in Client PROVE Held(call[d])'
  <2>1. PICK q : q = call[d]
    OBVIOUS
  <2>2. Held(q) /\ q = call'[d]
    BY <1>1, <2>1 DEF Apart
  <2>3. Held(q)'
    BY <1>1, <1>2, <2>2, HeldKept
  <2> QED
    BY <2>2, <2>3 DEF Held, NoWork
<1> QED
  BY <1>3, <1>4, <1>5 DEF Apart

LEMMA OverlappedStays ==
  ASSUME [Next]_vars, overlapped
  PROVE  overlapped'
<1>1. ASSUME NEW c, NEW route, NEW to, NEW p, NEW T, Enter(c, route, to, p, T) PROVE overlapped'
  BY <1>1, Zenon DEF Enter
<1>2. ASSUME NEW c \in Client, Load(c) PROVE overlapped'
  <2>1. CASE \E p \in mix.profiles : FollowLog(c, p) \/ BeginLoad(c, p)
    BY <1>1, <2>1 DEF FollowLog, BeginLoad, Begin
  <2>2. CASE \/ SetProfile(c) \/ CreateLog(c) \/ NewHudor(c)
             \/ StoreHudor(c) \/ ListTasks(c) \/ StoreTasks(c)
    <3>1. overlapped' = overlapped
      BY <2>2, UseHudorFrame DEF SetProfile, CreateLog, NewHudor, StoreHudor, ListTasks, StoreTasks,
         SessionOnly, historyVars
    <3> QED
      BY <3>1
  <2> QED
    BY <1>2, <2>1, <2>2 DEF Load
<1>3. ASSUME NEW c \in Client, Tasks(c) PROVE overlapped'
  <2>1. CASE \/ \E T \in SUBSET Task, route \in TaskRoutes : BeginTasks(c, route, T)
             \/ \E route \in {"getsession", "getresults"} : BeginRead(c, route)
    BY <1>1, <2>1 DEF BeginTasks, BeginRead, Begin
  <2>2. CASE NextTask(c) \/ Use(c) \/ \E t \in Task : ResultOf(c, t)
    <3>1. overlapped' = overlapped
      BY <2>2, UseHudorFrame, PanicFrame DEF NextTask, TestTask, Use, ResultOf
    <3> QED
      BY <3>1
  <2>3. ASSUME NEW t \in call[c].doing, StartTask(c, t) \/ Stopped(c, t) \/ UpdateRate(c, t)
        PROVE  overlapped'
    <3>1. (StartTask(c, t) => overlapped' = overlapped) /\ (Stopped(c, t) => overlapped' = overlapped)
      BY DEF StartTask, Stopped, CallOnly, historyVars
    <3>2. UpdateRate(c, t) => overlapped' = overlapped
      BY DEF UpdateRate, historyVars
    <3> QED
      BY <2>3, <3>1, <3>2
  <2> QED
    BY <1>3, <2>1, <2>2, <2>3 DEF Tasks
<1>4. ASSUME NEW c \in Client, Reset(c) PROVE overlapped'
  <2>1. CASE BeginReset(c)
    BY <1>1, <2>1 DEF BeginReset, Begin
  <2>2. CASE TestActive(c) \/ StopAll(c) \/ CloseHudor(c) \/ ResetFile(c) \/ ResetSession(c)
    <3>1. overlapped' = overlapped
      BY <2>2, UseHudorFrame, PanicFrame DEF TestActive, StopAll, CloseHudor, ResetFile, ResetSession,
         SessionOnly, historyVars
    <3> QED
      BY <3>1
  <2> QED
    BY <1>4, <2>1, <2>2 DEF Reset
<1>5. ASSUME NEW c \in Client, Logs(c) PROVE overlapped'
  <2>1. CASE BeginLogs(c)
    BY <1>1, <2>1 DEF BeginLogs, Begin
  <2>2. CASE TestLine(c) \/ TakeLine(c) \/ ReadOffset(c) \/ StoreOffset(c)
    <3>1. overlapped' = overlapped
      BY <2>2 DEF TestLine, TakeLine, ReadOffset, StoreOffset, Panic, CallOnly, SessionOnly, historyVars
    <3> QED
      BY <3>1
  <2> QED
    BY <1>5, <2>1, <2>2 DEF Logs
<1>6. LogStep => overlapped' = overlapped
  BY LogStepFrame DEF historyVars
<1>7. TaskStep => overlapped' = overlapped
  BY TaskStepFrame DEF historyVars
<1>8. CASE UNCHANGED vars
  BY <1>8 DEF vars, historyVars
<1> QED
  BY <1>2, <1>3, <1>4, <1>5, <1>6, <1>7, <1>8, StepCases DEF Handler

LEMMA QuietStep == Typed /\ Quiet /\ [Next]_vars => Quiet'
<1> SUFFICES ASSUME Typed, Quiet, [Next]_vars PROVE Quiet'
  OBVIOUS
<1>2. ASSUME ~overlapped' PROVE Apart'
  <2>1. Apart
    BY <1>2, OverlappedStays DEF Quiet
  <2> QED
    BY <1>2, <2>1, StepCases, ApartLoad, ApartTasks, ApartReset, ApartLogs, ApartOther DEF Handler
<1> QED
  BY <1>2 DEF Quiet

LEMMA QuietInit == Init => Quiet
<1> SUFFICES ASSUME Init PROVE Quiet
  OBVIOUS
<1>1. DOMAIN hudors = {} /\ S.hudor = 0 /\ \A c \in Client : call[c].pc = "idle"
  BY DEF Init, EmptySession, NoCall
<1> QED
  BY <1>1 DEF Quiet, Named, Apart, Alone, OneWorks, Known, Held, Doing

\* Every Hudor that has producers is the one that the session's handlers can
\* stop, as long as calls do not get in each other's way.
THEOREM InReachCorrect == Spec => []InReach
<1>1. Typed /\ Quiet /\ [Next]_vars => (Typed /\ Quiet)'
  BY TypedStep, QuietStep
<1>2. Quiet => InReach
  BY DEF Quiet, Apart, OneWorks, InReach
<1> QED
  BY <1>1, <1>2, TypedInit, QuietInit, PTL DEF Spec

-----------------------------------------------------------------------------
(* The lines come in order *)

\* The goroutines: all but the last have ended, and the last one follows the
\* last tail, until that one has ended.
OneReads ==
  \A r \in DOMAIN readers :
    /\ readers[r].pc # "ended" => r = Len(readers)
    /\ r = Len(readers) =>
         /\ readers[r].pc # "start" => readers[r].tail = Len(tails)
         /\ readers[r].pc = "ended" => tails[Len(tails)].ended

\* The outputs: in order, and not ahead of the last tail.
OutputsOrdered ==
  \A k \in DOMAIN sess :
    /\ InOrder(sess[k].output)
    /\ \A j \in DOMAIN sess[k].output :
         Len(tails) # 0 /\ AtMost(sess[k].output[j], Position(Len(tails)))

\* The line that is about to be appended: behind those of every output.
LineNext ==
  \A r \in DOMAIN readers : readers[r].pc = "append" =>
    /\ readers[r].output = sess[readers[r].session].output
    /\ AtMost(readers[r].line, Position(Len(tails)))
    /\ \A k \in DOMAIN sess : \A j \in DOMAIN sess[k].output :
         Before(sess[k].output[j], readers[r].line)

Ordered == OneReads /\ OutputsOrdered /\ LineNext
LogOrder == EndedBehind /\ (~crowded => Ordered)

LEMMA AtMostTransitive ==
  ASSUME NEW l \in Line, NEW m \in Line, NEW n \in Line, AtMost(l, m), AtMost(m, n)
  PROVE  AtMost(l, n)
BY DEF AtMost, Line

LEMMA AtMostNext ==
  ASSUME NEW l \in Line, NEW f \in Nat, NEW a \in Nat, AtMost(l, <<f, a>>)
  PROVE  Before(l, <<f, a + 1>>)
BY DEF AtMost, Before, Line

LEMMA BeforeAtMost ==
  ASSUME NEW l \in Line, NEW m \in Line, Before(l, m)
  PROVE  AtMost(l, m)
BY DEF AtMost, Before, Line

LEMMA AppendInOrder ==
  ASSUME NEW q \in Seq(Line), NEW l \in Line, InOrder(q), \A j \in DOMAIN q : Before(q[j], l)
  PROVE  InOrder(Append(q, l))
<1>1. PICK p : p = Append(q, l)
  OBVIOUS
<1>2. /\ p \in Seq(Line) /\ Len(p) = Len(q) + 1 /\ DOMAIN p = DOMAIN q \cup {Len(p)}
      /\ p[Len(p)] = l /\ \A j \in DOMAIN q : p[j] = q[j]
  BY <1>1, SeqAdd
<1>3. ASSUME NEW i \in DOMAIN p, NEW j \in DOMAIN p, i < j PROVE Before(p[i], p[j])
  <2>1. i \in DOMAIN q
    BY <1>2, <1>3
  <2>2. CASE j \in DOMAIN q
    BY <1>2, <1>3, <2>1, <2>2 DEF InOrder
  <2>3. CASE j = Len(p)
    BY <1>2, <2>1, <2>3
  <2> QED
    BY <1>2, <2>2, <2>3
<1> QED
  BY <1>1, <1>3 DEF InOrder

LEMMA EachLine ==
  ASSUME Typed, NEW k \in DOMAIN sess
  PROVE  sess[k].output \in Seq(Line) /\ \A j \in DOMAIN sess[k].output : sess[k].output[j] \in Line
<1>1. PICK q : q = sess[k].output
  OBVIOUS
<1>2. q \in Seq(Line)
  BY <1>1, EachSession DEF SessionState
<1>3. \A j \in DOMAIN q : q[j] \in Line
  BY <1>2
<1> QED
  BY <1>1, <1>2, <1>3

LEMMA PositionTyped ==
  ASSUME Typed, NEW k \in DOMAIN tails
  PROVE  Position(k) \in Line
BY EachTail DEF Position, Line

LEMMA LastTail ==
  ASSUME Typed
  PROVE  /\ Len(tails) \in Nat /\ Len(readers) = Len(tails)
         /\ DOMAIN readers = 1 .. Len(tails) /\ DOMAIN tails = 1 .. Len(tails)
BY DEF Typed, FilesTyped, ReadersTyped

\* Only the goroutine that appends changes an output.
LEMMA OutputsKept ==
  ASSUME Typed, [Next]_vars, UNCHANGED readers
  PROVE  /\ \A k \in DOMAIN sess : sess'[k].output = sess[k].output
         /\ \A k \in DOMAIN sess' \ DOMAIN sess : sess'[k].output = <<>>
<1>1. SessGrow
  BY SessStep
<1>2. ASSUME NEW r \in DOMAIN readers PROVE ~ReaderAppend(r)
  <2>1. SUFFICES ASSUME ReaderAppend(r) PROVE FALSE
    OBVIOUS
  <2>2. readers' = [readers EXCEPT ![r] = Idle(readers[r].tail)] /\ readers[r].pc = "append"
    BY <2>1 DEF ReaderAppend
  <2>3. readers'[r] = Idle(readers[r].tail)
    BY <2>2
  <2>4. Idle(readers[r].tail).pc = "lines"
    BY DEF Idle
  <2> QED
    BY <2>2, <2>3, <2>4
<1>3. \A k \in DOMAIN sess : sess'[k].output = sess[k].output
  BY <1>1, <1>2 DEF SessGrow, LineAppended
<1>4. sess \in Seq(SessionState) /\ sess' \in Seq(SessionState)
  BY <1>1, SessionTyped DEF SessGrow, SessTyped
<1>5. \A k \in DOMAIN sess' \ DOMAIN sess : sess'[k].output = <<>>
  <2>1. CASE Len(sess') = Len(sess)
    BY <1>4, <2>1
  <2>2. CASE sess' = Append(sess, EmptySession)
    <3>1. DOMAIN sess' = DOMAIN sess \cup {Len(sess')} /\ sess'[Len(sess')] = EmptySession
      BY <1>4, <2>2, EmptySessionTyped, SeqAdd
    <3>2. EmptySession.output = <<>>
      BY DEF EmptySession
    <3> QED
      BY <3>1, <3>2
  <2> QED
    BY <1>1, <2>1, <2>2 DEF SessGrow
<1> QED
  BY <1>3, <1>5

LEMMA EndedBehindStep == Typed /\ EndedBehind /\ [Next]_vars => EndedBehind'
<1> SUFFICES ASSUME Typed, EndedBehind, [Next]_vars PROVE EndedBehind'
  OBVIOUS
<1>1. FilesGrow
  BY FilesStep
<1>2. Len(file) \in Nat /\ Len(file') \in Nat /\ Len(file') >= Len(file)
  BY <1>1 DEF Typed, FilesTyped, FilesGrow
<1>3. ASSUME NEW k \in DOMAIN tails, tails'[k].ended PROVE tails'[k].file < Len(file')
  <2>1. tails[k].file < Len(file) /\ tails'[k].file = tails[k].file
    <3>1. CASE tails[k].ended
      BY <1>1, <3>1 DEF FilesGrow, EndedBehind
    <3>2. CASE ~tails[k].ended
      BY <1>1, <1>3, <3>2 DEF FilesGrow
    <3> QED
      BY <3>1, <3>2
  <2>2. tails[k].file \in Nat
    BY EachTail
  <2> QED
    BY <1>2, <2>1, <2>2
<1>4. CASE ~Followed
  <2>1. Len(tails') = Len(tails)
    BY <1>1, <1>4 DEF FilesGrow
  <2>2. DOMAIN tails' = DOMAIN tails
    BY <1>1, <2>1 DEF Typed, FilesTyped, FilesGrow
  <2> QED
    BY <1>3, <2>2 DEF EndedBehind
<1>5. CASE Followed
  <2>1. PICK t \in TailState : tails' = Append(tails, t) /\ ~t.ended
    BY <1>5, FollowEffect
  <2>2. tails \in Seq(TailState)
    BY DEF Typed, FilesTyped
  <2>3. DOMAIN tails' = DOMAIN tails \cup {Len(tails')} /\ tails'[Len(tails')] = t
    BY <2>1, <2>2, SeqAdd
  <2> QED
    BY <1>3, <2>1, <2>3 DEF EndedBehind
<1> QED
  BY <1>4, <1>5

\* A new goroutine, when those before have ended: it is given the file of now,
\* which is newer than every line.
LEMMA OrderedFollow ==
  ASSUME Typed, EndedBehind, Ordered, Followed, ~crowded'
  PROVE  Ordered'
<1>1. PICK t \in TailState : /\ tails' = Append(tails, t)
                             /\ t.file = Len(file) /\ t.at = 0 /\ ~t.ended
  BY FollowEffect
<1>2. PICK q \in ReaderState : readers' = Append(readers, q) /\ q.pc = "start"
  BY FollowEffect
<1>3. UNCHANGED <<sess, file>> /\ \A r \in DOMAIN readers : readers[r].pc = "ended"
  BY FollowEffect
<1>4. tails \in Seq(TailState) /\ readers \in Seq(ReaderState) /\ file \in Seq(LogState)
  BY DEF Typed, FilesTyped, ReadersTyped
<1>5. /\ Len(tails') = Len(tails) + 1 /\ tails'[Len(tails')] = t
      /\ DOMAIN readers' = DOMAIN readers \cup {Len(readers')} /\ readers'[Len(readers')] = q
      /\ \A r \in DOMAIN readers : readers'[r] = readers[r]
      /\ Len(readers') = Len(readers) + 1
  BY <1>1, <1>2, <1>4, SeqAdd
<1>6. OneReads'
  <2>1. \A r \in DOMAIN readers : r # Len(readers')
    BY <1>4, <1>5
  <2> QED
    BY <1>2, <1>3, <1>5, <2>1 DEF OneReads
<1>7. ASSUME NEW k \in DOMAIN sess, NEW j \in DOMAIN sess[k].output
      PROVE  AtMost(sess[k].output[j], <<Len(file), 0>>)
  <2>1. Len(tails) # 0 /\ AtMost(sess[k].output[j], Position(Len(tails)))
    BY DEF Ordered, OutputsOrdered
  <2>2. Len(tails) \in DOMAIN tails /\ Len(tails) \in DOMAIN readers
    BY <2>1, LastTail
  <2>3. tails[Len(tails)].ended
    BY <1>3, <2>2, LastTail DEF Ordered, OneReads
  <2>4. tails[Len(tails)].file < Len(file) /\ tails[Len(tails)].file \in Nat
    BY <2>2, <2>3, EachTail DEF EndedBehind
  <2>5. sess[k].output[j] \in Line /\ Len(file) \in Nat
    BY <1>4, EachLine
  <2> QED
    BY <2>1, <2>4, <2>5 DEF AtMost, Position, Line
<1>8. OutputsOrdered'
  <2>1. Len(tails') # 0 /\ Position(Len(tails))' = <<Len(file), 0>>
    BY <1>1, <1>4, <1>5 DEF Position
  <2> QED
    BY <1>3, <1>7, <2>1 DEF Ordered, OutputsOrdered
<1>9. LineNext'
  BY <1>2, <1>3, <1>5 DEF LineNext
<1> QED
  BY <1>6, <1>8, <1>9 DEF Ordered

\* What the last tail has reached stays behind it.
LEMMA LastTailAhead ==
  ASSUME Typed, [Next]_vars, ~Followed, NEW l \in Line,
         Len(tails) # 0, AtMost(l, Position(Len(tails)))
  PROVE  Len(tails') # 0 /\ AtMost(l, Position(Len(tails))')
<1>1. FilesGrow
  BY FilesStep
<1>2. Len(tails') = Len(tails) /\ Len(tails) \in DOMAIN tails
  BY <1>1, LastTail DEF FilesGrow
<1>3. PICK m : m = Position(Len(tails))
  OBVIOUS
<1>4. PICK n : n = <<tails'[Len(tails)].file, tails'[Len(tails)].at>>
  OBVIOUS
<1>5. m \in Line /\ AtMost(m, n)
  BY <1>1, <1>2, <1>3, <1>4, PositionTyped DEF FilesGrow
<1>6. n \in Line
  <2>1. tails' \in Seq(TailState) /\ Len(tails) \in DOMAIN tails'
    BY <1>1, <1>2 DEF FilesGrow, FilesTyped
  <2>2. tails'[Len(tails)] \in TailState
    BY <2>1
  <2> QED
    BY <1>4, <2>2 DEF TailState, Line
<1>7. AtMost(l, n)
  BY <1>3, <1>5, <1>6, AtMostTransitive
<1> QED
  BY <1>2, <1>4, <1>7 DEF Position

\* Steps of the log and of handlers that leave the goroutines alone.
LEMMA OrderedOther ==
  ASSUME Typed, Ordered, [Next]_vars, ~Followed, UNCHANGED readers
  PROVE  Ordered'
<1>1. FilesGrow /\ SessGrow
  BY FilesStep, SessStep
<1>2. Len(tails') = Len(tails)
  BY <1>1 DEF FilesGrow
<1>3. /\ \A k \in DOMAIN sess : sess'[k].output = sess[k].output
      /\ \A k \in DOMAIN sess' \ DOMAIN sess : sess'[k].output = <<>>
  BY OutputsKept
<1>4. OneReads'
  <2>1. ASSUME NEW r \in DOMAIN readers, r = Len(readers), readers[r].pc = "ended"
        PROVE  tails'[Len(tails)].ended
    <3>1. tails[Len(tails)].ended /\ Len(tails) \in DOMAIN tails
      BY <2>1, LastTail DEF Ordered, OneReads
    <3> QED
      BY <1>1, <3>1 DEF FilesGrow
  <2> QED
    BY <1>2, <2>1 DEF Ordered, OneReads
<1>5. OutputsOrdered'
  <2>1. ASSUME NEW k \in DOMAIN sess' PROVE InOrder(sess'[k].output)
    <3>1. CASE k \in DOMAIN sess
      BY <1>3, <3>1 DEF Ordered, OutputsOrdered
    <3>2. CASE k \notin DOMAIN sess
      BY <1>3, <3>2 DEF InOrder
    <3> QED
      BY <3>1, <3>2
  <2>2. ASSUME NEW k \in DOMAIN sess', NEW j \in DOMAIN sess'[k].output
        PROVE  Len(tails') # 0 /\ AtMost(sess'[k].output[j], Position(Len(tails))')
    <3>1. CASE k \in DOMAIN sess
      BY <1>3, <2>2, <3>1, EachLine, LastTailAhead DEF Ordered, OutputsOrdered
    <3>2. CASE k \notin DOMAIN sess
      BY <1>3, <2>2, <3>2
    <3> QED
      BY <3>1, <3>2
  <2> QED
    BY <2>1, <2>2 DEF OutputsOrdered
<1>6. ASSUME NEW r \in DOMAIN readers, readers[r].pc = "append"
      PROVE  /\ readers[r].output = sess'[readers[r].session].output
             /\ AtMost(readers[r].line, Position(Len(tails))')
             /\ \A k \in DOMAIN sess' : \A j \in DOMAIN sess'[k].output :
                  Before(sess'[k].output[j], readers[r].line)
  <2>1. readers[r].session \in DOMAIN sess /\ readers[r].line \in Line
    BY <1>6, EachReader
  <2>2. Len(tails) # 0
    BY LastTail
  <2>3. AtMost(readers[r].line, Position(Len(tails))')
    BY <1>6, <2>1, <2>2, LastTailAhead DEF Ordered, LineNext
  <2>4. readers[r].output = sess'[readers[r].session].output
    BY <1>3, <1>6, <2>1 DEF Ordered, LineNext
  <2>5. ASSUME NEW k \in DOMAIN sess', NEW j \in DOMAIN sess'[k].output
        PROVE  Before(sess'[k].output[j], readers[r].line)
    <3>1. CASE k \in DOMAIN sess
      BY <1>3, <1>6, <2>5, <3>1 DEF Ordered, LineNext
    <3>2. CASE k \notin DOMAIN sess
      BY <1>3, <2>5, <3>2
    <3> QED
      BY <3>1, <3>2
  <2> QED
    BY <2>3, <2>4, <2>5
<1>7. LineNext'
  BY <1>6 DEF LineNext
<1> QED
  BY <1>4, <1>5, <1>7 DEF Ordered

LEMMA OrderedReader ==
  ASSUME Typed, Ordered, [Next]_vars, NEW r \in DOMAIN readers, Reader(r)
  PROVE  Ordered'
<1>1. PICK q \in ReaderState :
        /\ readers' = [readers EXCEPT ![r] = q]
        /\ q.session \in 0 .. Len(sess)
        /\ \/ ReaderStart(r) /\ Starts(r, q)
           \/ ReaderReceive(r) /\ Receives(r, q)
           \/ ReaderAppend(r) /\ Appends(r, q)
           \/ ReaderEnd(r) /\ Ends(r, q)
  BY ReaderEffect
<1>2. readers \in Seq(ReaderState) /\ tails \in Seq(TailState)
  BY DEF Typed, ReadersTyped, FilesTyped
<1>3. /\ Len(readers') = Len(readers) /\ DOMAIN readers' = DOMAIN readers
      /\ \A p \in DOMAIN readers : readers'[p] = IF p = r THEN q ELSE readers[p]
  BY <1>1, <1>2
<1>4. ~Followed
  <2>1. SUFFICES ASSUME Followed PROVE FALSE
    OBVIOUS
  <2>2. PICK p \in ReaderState : readers' = Append(readers, p)
    BY <2>1, FollowEffect
  <2> QED
    BY <1>2, <1>3, <2>2
<1>5. readers[r].pc \in {"start", "lines", "append"}
  BY <1>1 DEF Starts, Receives, Appends, Ends
<1>6. r = Len(readers) /\ Len(readers) = Len(tails) /\ r \in DOMAIN tails /\ r \in DOMAIN tails
  BY <1>5, LastTail DEF Ordered, OneReads
<1>7. FilesGrow /\ SessGrow
  BY FilesStep, SessStep
<1>8. Len(tails') = Len(tails)
  BY <1>4, <1>7 DEF FilesGrow
<1>9. \A p \in DOMAIN readers : p # r => readers[p].pc = "ended"
  BY <1>6 DEF Ordered, OneReads
<1>10. q.tail = Len(tails)
  BY <1>1, <1>5, <1>6 DEF Starts, Receives, Appends, Ends, Ordered, OneReads
<1>11. OneReads'
  <2>1. q.pc = "ended" => tails[Len(tails)].ended
    BY <1>1, <1>10 DEF Starts, Receives, Appends, Ends
  <2>2. q.pc = "ended" => tails'[Len(tails)].ended
    BY <1>6, <1>7, <2>1 DEF FilesGrow
  <2>3. q.pc # "start"
    BY <1>1 DEF Starts, Receives, Appends, Ends
  <2> QED
    BY <1>3, <1>6, <1>8, <1>9, <1>10, <2>2, <2>3 DEF OneReads
<1>12. CASE ReaderAppend(r)
  <2>1. PICK k : k = readers[r].session
    OBVIOUS
  <2>2. PICK out : out = readers[r].output
    OBVIOUS
  <2>3. PICK l : l = readers[r].line
    OBVIOUS
  <2>4. readers[r].pc = "append" /\ sess' = [sess EXCEPT ![k].output = Append(out, l)]
    BY <1>12, <2>1, <2>2, <2>3 DEF ReaderAppend
  <2>5. k \in DOMAIN sess /\ out \in Seq(Line) /\ l \in Line
    BY <2>1, <2>2, <2>3, <2>4, EachReader
  <2>6. /\ out = sess[k].output /\ AtMost(l, Position(Len(tails)))
        /\ \A g \in DOMAIN sess : \A j \in DOMAIN sess[g].output : Before(sess[g].output[j], l)
    BY <2>1, <2>2, <2>3, <2>4 DEF Ordered, LineNext
  <2>7. PICK s : s = [sess[k] EXCEPT !.output = Append(out, l)]
    OBVIOUS
  <2>8. s.output = Append(out, l)
    BY <2>5, <2>7, EachSession DEF SessionState
  <2>9. sess' = [sess EXCEPT ![k] = s]
    BY <2>4, <2>5, <2>7, SessionTyped
  <2>10. DOMAIN sess' = DOMAIN sess
         /\ \A g \in DOMAIN sess : sess'[g] = IF g = k THEN s ELSE sess[g]
    BY <2>5, <2>9, SessionTyped
  <2>11. UNCHANGED tails
    BY <1>12 DEF ReaderAppend
  <2>12. PICK w : w = Append(out, l)
    OBVIOUS
  <2>13. /\ DOMAIN w = DOMAIN out \cup {Len(w)} /\ w[Len(w)] = l
         /\ \A j \in DOMAIN out : w[j] = out[j]
    BY <2>5, <2>12, SeqAdd
  <2>14. InOrder(w)
    BY <2>5, <2>6, <2>12, AppendInOrder DEF Ordered, OutputsOrdered
  <2>15. \A j \in DOMAIN w : AtMost(w[j], Position(Len(tails)))
    BY <2>5, <2>6, <2>13 DEF Ordered, OutputsOrdered
  <2>16. OutputsOrdered'
    <3>1. Position(Len(tails))' = Position(Len(tails)) /\ Len(tails') # 0
      BY <1>6, <1>8, <2>11, LastTail DEF Position
    <3>2. ASSUME NEW g \in DOMAIN sess
          PROVE  /\ InOrder(sess'[g].output)
                 /\ \A j \in DOMAIN sess'[g].output :
                      AtMost(sess'[g].output[j], Position(Len(tails)))
      <4>1. CASE g = k
        BY <2>8, <2>10, <2>12, <2>14, <2>15, <4>1
      <4>2. CASE g # k
        BY <2>10, <4>2 DEF Ordered, OutputsOrdered
      <4> QED
        BY <4>1, <4>2
    <3> QED
      BY <2>10, <3>1, <3>2 DEF OutputsOrdered
  <2>17. q.pc = "lines"
    BY <1>1, <2>4 DEF Starts, Receives, Appends, Ends
  <2>18. LineNext'
    BY <1>3, <1>9, <2>17 DEF LineNext
  <2> QED
    BY <1>11, <2>16, <2>18 DEF Ordered
<1>13. CASE ~ReaderAppend(r)
  <2>1. UNCHANGED sess
    BY <1>1, <1>13 DEF ReaderStart, ReaderReceive, ReaderEnd
  <2>2. OutputsOrdered'
    BY <1>4, <2>1, EachLine, LastTailAhead DEF Ordered, OutputsOrdered
  <2>3. LineNext'
    <3>1. CASE q.pc # "append"
      BY <1>3, <1>9, <3>1 DEF LineNext
    <3>2. CASE q.pc = "append"
      <4>1. ReaderReceive(r) /\ Receives(r, q)
        BY <1>1, <1>13, <3>2 DEF Starts, Ends
      <4>2. PICK f : f = tails[Len(tails)].file
        OBVIOUS
      <4>3. PICK a : a = tails[Len(tails)].at
        OBVIOUS
      <4>4. f \in Nat /\ a \in Nat
        BY <1>6, <4>2, <4>3, EachTail
      <4>5. q.line = <<f, a + 1>>
        BY <1>10, <4>1, <4>2, <4>3 DEF Receives
      <4>6. Position(Len(tails))' = <<f, a + 1>>
        <5>1. readers[r].tail = Len(tails)
          BY <1>10, <4>1 DEF Receives
        <5>2. PICK t \in TailState :
                /\ tails' = [tails EXCEPT ![Len(tails)] = t]
                /\ t.file = tails[Len(tails)].file /\ t.at = tails[Len(tails)].at + 1
          BY <4>1, <5>1, ReceiveEffect
        <5>3. tails'[Len(tails)] = t
          BY <1>2, <1>6, <5>2
        <5> QED
          BY <1>8, <4>2, <4>3, <5>2, <5>3 DEF Position
      <4>7. AtMost(q.line, Position(Len(tails))')
        BY <4>4, <4>5, <4>6 DEF AtMost
      <4>8. ASSUME NEW k \in DOMAIN sess, NEW j \in DOMAIN sess[k].output
            PROVE  Before(sess[k].output[j], q.line)
        <5>1. AtMost(sess[k].output[j], <<f, a>>) /\ sess[k].output[j] \in Line
          BY <4>2, <4>3, <4>8, EachLine DEF Ordered, OutputsOrdered, Position
        <5> QED
          BY <4>4, <4>5, <5>1, AtMostNext
      <4>9. q.output = sess[q.session].output
        BY <4>1 DEF Receives
      <4> QED
        BY <1>3, <1>9, <2>1, <4>7, <4>8, <4>9 DEF LineNext
    <3> QED
      BY <3>1, <3>2
  <2> QED
    BY <1>11, <2>2, <2>3 DEF Ordered
<1> QED
  BY <1>12, <1>13

LEMMA LogOrderStep == Typed /\ LogOrder /\ [Next]_vars => LogOrder'
<1> SUFFICES ASSUME Typed, LogOrder, [Next]_vars PROVE LogOrder'
  OBVIOUS
<1>1. EndedBehind'
  BY EndedBehindStep DEF LogOrder
<1>2. ASSUME ~crowded' PROVE Ordered'
  <2>1. ~crowded
    <3>1. CASE Followed
      BY <1>2, <3>1, FollowEffect, Zenon
    <3>2. CASE UNCHANGED crowded
      BY <1>2, <3>2
    <3> QED
      BY <3>1, <3>2, StepFrame
  <2>2. EndedBehind /\ Ordered
    BY <2>1 DEF LogOrder
  <2>3. CASE Followed
    BY <1>2, <2>2, <2>3, OrderedFollow
  <2>4. CASE ~Followed /\ UNCHANGED readers
    BY <2>2, <2>4, OrderedOther
  <2>5. ASSUME NEW r \in DOMAIN readers, Reader(r) PROVE Ordered'
    BY <2>2, <2>5, OrderedReader
  <2> QED
    BY <2>3, <2>4, <2>5, StepFrame
<1> QED
  BY <1>1, <1>2 DEF LogOrder

LEMMA LogOrderInit == Init => LogOrder
<1> SUFFICES ASSUME Init PROVE LogOrder
  OBVIOUS
<1>1. DOMAIN readers = {} /\ DOMAIN tails = {} /\ sess = <<EmptySession>>
  BY DEF Init
<1>2. \A k \in DOMAIN sess : sess[k].output = <<>>
  BY <1>1 DEF EmptySession
<1>3. \A k \in DOMAIN sess : InOrder(sess[k].output) /\ DOMAIN sess[k].output = {}
  BY <1>2 DEF InOrder
<1> QED
  BY <1>1, <1>3 DEF LogOrder, EndedBehind, Ordered, OneReads, OutputsOrdered, LineNext

-----------------------------------------------------------------------------
(* When handlers panic *)

\* The panics of one handler alone.
OwnPanic(p) ==
  \/ p[1] \in TaskRoutes /\ p[2] = "hudor"
  \/ p = <<"updatetaskrate", "rate">>
  \/ p[1] \in Loads /\ p[2] = "profile"

Panicked == UNCHANGED panicked \/ \E p : OwnPanic(p) /\ panicked' = panicked \cup {p}

LEMMA UseHudorSafe ==
  ASSUME NEW c \in Client, Held(call[c]), NEW then,
         NEW from \in {"list", "use", "results", "active", "stopAll"},
         UseHudor(c, from, then)
  PROVE  UNCHANGED panicked
<1>1. call[c].pc = from
  BY DEF UseHudor
<1>2. S.hudor # 0
  BY <1>1 DEF Held
<1> QED
  BY <1>2 DEF UseHudor, CallOnly, historyVars

LEMMA LoadPanics ==
  ASSUME Typed, NEW c \in Client, Held(call[c]), Load(c)
  PROVE  Panicked
<1>1. CASE \E p \in mix.profiles : FollowLog(c, p) \/ BeginLoad(c, p)
  BY <1>1 DEF FollowLog, BeginLoad, Begin, Enter, Panicked
<1>2. CASE SetProfile(c) \/ CreateLog(c) \/ StoreHudor(c) \/ StoreTasks(c)
  BY <1>2 DEF SetProfile, CreateLog, StoreHudor, StoreTasks, SessionOnly, historyVars, Panicked
<1>3. CASE ListTasks(c)
  <2>1. UNCHANGED panicked
    BY <1>3, UseHudorSafe DEF ListTasks
  <2> QED
    BY <2>1 DEF Panicked
<1>4. CASE NewHudor(c)
  <2>1. call[c].route \in Loads
    BY <1>4, CallTyped DEF NewHudor, CallOK, RouteAt, Loads
  <2>2. CASE Panics(c, "profile")
    <3>1. PICK p : p = <<call[c].route, "profile">>
      OBVIOUS
    <3>2. p[1] = call[c].route /\ p[2] = "profile" /\ panicked' = panicked \cup {p}
      BY <2>2, <3>1 DEF Panics
    <3> QED
      BY <2>1, <3>2 DEF Panicked, OwnPanic
  <2>3. CASE UNCHANGED panicked
    BY <2>3 DEF Panicked
  <2> QED
    BY <1>4, <2>2, <2>3, NewHudorEffect
<1> QED
  BY <1>1, <1>2, <1>3, <1>4 DEF Load

LEMMA TasksPanics ==
  ASSUME Typed, NEW c \in Client, Held(call[c]), Tasks(c)
  PROVE  Panicked
<1>1. CASE \/ \E T \in SUBSET Task, route \in TaskRoutes : BeginTasks(c, route, T)
           \/ \E route \in {"getsession", "getresults"} : BeginRead(c, route)
  <2>1. UNCHANGED panicked
    BY <1>1, BeginFrame DEF BeginTasks, BeginRead
  <2> QED
    BY <2>1 DEF Panicked
<1>2. CASE NextTask(c)
  <2>1. PICK t \in call[c].tasks : TestTask(c, t)
    BY <1>2 DEF NextTask
  <2>2. call[c].pc = "next"
    BY <2>1 DEF TestTask, UseHudor
  <2>3. call[c].route \in TaskRoutes
    BY <2>2, CallTyped DEF CallOK, RouteAt, TaskRoutes
  <2>4. ASSUME NEW then, UseHudor(c, "next", then) PROVE Panicked
    <3>1. CASE S.hudor = 0
      <4>1. PICK p : p = <<call[c].route, "hudor">>
        OBVIOUS
      <4>2. p[1] = call[c].route /\ p[2] = "hudor" /\ panicked' = panicked \cup {p}
        BY <2>4, <3>1, <4>1 DEF UseHudor, Panic, Panics
      <4> QED
        BY <2>3, <4>2 DEF Panicked, OwnPanic
    <3>2. CASE S.hudor # 0
      BY <2>4, <3>2 DEF UseHudor, CallOnly, historyVars, Panicked
    <3> QED
      BY <3>1, <3>2
  <2>5. CASE call[c].route = "updatetaskrate" /\ Panic(c, "rate")
    BY <2>5 DEF Panic, Panics, Panicked, OwnPanic
  <2> QED
    BY <2>1, <2>4, <2>5 DEF TestTask
<1>3. ASSUME NEW t \in call[c].doing, StartTask(c, t) \/ Stopped(c, t) \/ UpdateRate(c, t)
      PROVE  Panicked
  <2>1. StartTask(c, t) => UNCHANGED panicked
    BY DEF StartTask, historyVars
  <2>2. Stopped(c, t) => UNCHANGED panicked
    BY DEF Stopped, CallOnly, historyVars
  <2>3. UpdateRate(c, t) => UNCHANGED panicked
    BY DEF UpdateRate, historyVars
  <2> QED
    BY <1>3, <2>1, <2>2, <2>3 DEF Panicked
<1>4. CASE Use(c)
  <2>1. UNCHANGED panicked
    BY <1>4, UseHudorSafe DEF Use
  <2> QED
    BY <2>1 DEF Panicked
<1>5. ASSUME NEW t \in Task, ResultOf(c, t) PROVE Panicked
  <2>1. call[c].pc = "results" /\ t \in call[c].tasks
    BY <1>5 DEF ResultOf
  <2>2. t \in H.tasks
    BY <2>1 DEF Held
  <2>3. UseHudor(c, "results", Without(c, t))
    BY <1>5, <2>2 DEF ResultOf
  <2>4. UNCHANGED panicked
    BY <2>3, UseHudorSafe
  <2> QED
    BY <2>4 DEF Panicked
<1> QED
  BY <1>1, <1>2, <1>3, <1>4, <1>5 DEF Tasks

LEMMA ResetPanics ==
  ASSUME Typed, NEW c \in Client, Held(call[c]), Reset(c)
  PROVE  Panicked
<1>1. CASE BeginReset(c)
  BY <1>1 DEF BeginReset, Begin, Enter, Panicked
<1>2. CASE TestActive(c) \/ StopAll(c)
  <2>1. UNCHANGED panicked
    BY <1>2, UseHudorSafe DEF TestActive, StopAll
  <2> QED
    BY <2>1 DEF Panicked
<1>3. CASE CloseHudor(c)
  <2>1. S.hudor # 0
    BY <1>3 DEF CloseHudor, Held
  <2> QED
    BY <1>3, <2>1 DEF CloseHudor, historyVars, Panicked
<1>4. CASE ResetFile(c) \/ ResetSession(c)
  BY <1>4 DEF ResetFile, ResetSession, SessionOnly, historyVars, Panicked
<1> QED
  BY <1>1, <1>2, <1>3, <1>4 DEF Reset

\* As long as calls do not get in each other's way a handler panics for a reason
\* of its own, or it is TakeLine.
LEMMA PanicKinds ==
  ASSUME Typed, Apart, [Next]_vars
  PROVE  \/ Panicked
         \/ \E c \in Client : /\ TakeLine(c) /\ call[c].i + S.offset + 1 > Len(S.output)
                              /\ panicked' = panicked \cup {<<"logs", "line">>}
<1>1. ASSUME NEW c \in Client PROVE Held(call[c])
  BY DEF Apart
<1>2. ASSUME NEW c \in Client, Load(c) \/ Tasks(c) \/ Reset(c) PROVE Panicked
  BY <1>1, <1>2, LoadPanics, TasksPanics, ResetPanics
<1>3. ASSUME NEW c \in Client, Logs(c), ~UNCHANGED panicked
      PROVE  /\ TakeLine(c) /\ call[c].i + S.offset + 1 > Len(S.output)
             /\ panicked' = panicked \cup {<<"logs", "line">>}
  <2>1. TakeLine(c)
    BY <1>3 DEF Logs, BeginLogs, Begin, Enter, TestLine, ReadOffset, StoreOffset, CallOnly,
       SessionOnly, historyVars
  <2>2. call[c].route = "logs"
    BY <2>1, CallTyped DEF TakeLine, CallOK, RouteAt
  <2>3. call[c].i + S.offset + 1 > Len(S.output) /\ Panic(c, "line")
    BY <1>3, <2>1 DEF TakeLine, CallOnly, historyVars
  <2> QED
    BY <2>1, <2>2, <2>3 DEF Panic, Panics
<1>4. LogStep \/ TaskStep \/ UNCHANGED vars => UNCHANGED panicked
  BY LogStepFrame, TaskStepFrame DEF vars, historyVars
<1>5. UNCHANGED panicked => Panicked
  BY DEF Panicked
<1> QED
  BY <1>2, <1>3, <1>4, <1>5, StepCases DEF Handler

-----------------------------------------------------------------------------
(* The pages *)

PagePoints == {"test", "take", "advance", "return"}

\* The lines that were shown are the first ones of the session's output, as
\* many as its offset says.
ShownIsRead ==
  /\ S.offset <= Len(S.output) /\ Len(S.shown) = S.offset
  /\ \A j \in 1 .. S.offset : S.shown[j] = S.output[j]

\* The page of a call holds the next ones.
PageOf(r) ==
  r.pc \in PagePoints =>
    /\ S.offset + r.i <= Len(S.output)
    /\ \A j \in 1 .. r.i : r.page[j] = S.output[S.offset + j]
    /\ r.pc = "take" => S.offset + r.i < Len(S.output)
    /\ r.pc = "return" => r.session = session /\ r.offset = S.offset

Paging == ShownIsRead /\ \A c \in Client : PageOf(call[c])

\* An output gets longer, and keeps its lines.
LEMMA OutputsGrow ==
  ASSUME Typed, Ordered, [Next]_vars, NEW k \in DOMAIN sess
  PROVE  /\ Len(sess'[k].output) >= Len(sess[k].output)
         /\ \A j \in 1 .. Len(sess[k].output) : sess'[k].output[j] = sess[k].output[j]
<1>1. SessGrow
  BY SessStep
<1>2. sess[k].output \in Seq(Line)
  BY EachLine
<1>3. CASE sess'[k].output = sess[k].output
  BY <1>2, <1>3
<1>4. CASE LineAppended(k)
  <2>1. PICK r \in DOMAIN readers :
          /\ ReaderAppend(r) /\ k = readers[r].session
          /\ sess'[k].output = Append(readers[r].output, readers[r].line)
    BY <1>4 DEF LineAppended
  <2>2. readers[r].pc = "append"
    BY <2>1 DEF ReaderAppend
  <2>3. readers[r].output = sess[k].output /\ readers[r].line \in Line
    BY <2>1, <2>2, EachReader DEF Ordered, LineNext
  <2>4. PICK q : q = sess[k].output
    OBVIOUS
  <2>5. PICK l : l = readers[r].line
    OBVIOUS
  <2>6. sess'[k].output = Append(q, l) /\ q \in Seq(Line) /\ l \in Line
    BY <1>2, <2>1, <2>3, <2>4, <2>5
  <2>7. Len(Append(q, l)) = Len(q) + 1 /\ \A j \in DOMAIN q : Append(q, l)[j] = q[j]
    BY <2>6, SeqAdd
  <2>8. Len(q) \in Nat /\ DOMAIN q = 1 .. Len(q)
    BY <2>6
  <2> QED
    BY <2>4, <2>6, <2>7, <2>8
<1> QED
  BY <1>1, <1>3, <1>4 DEF SessGrow

\* What a step makes of the calls for /logs.
Turned(d) ==
  \/ call'[d].pc \notin PagePoints
  \/ call'[d] = call[d]
  \/ call'[d].pc = "test" /\ call'[d].i = 0
  \/ /\ call[d].pc = "test" /\ call'[d].pc \in {"take", "advance"}
     /\ call'[d].i = call[d].i /\ call'[d].page = call[d].page
     /\ call'[d].pc = "take" => Len(S.output) > call[d].i + S.offset
  \/ /\ call[d].pc = "take" /\ call'[d].pc = "test" /\ call'[d].i = call[d].i + 1
     /\ call'[d].page = Append(call[d].page, S.output[call[d].i + S.offset + 1])
     /\ call[d].i + S.offset + 1 <= Len(S.output)
  \/ /\ call[d].pc = "advance" /\ call'[d].pc = "return" /\ call'[d].session = session
     /\ call'[d].offset = S.offset /\ call'[d].i = call[d].i /\ call'[d].page = call[d].page

LEMMA OffPage ==
  ASSUME Typed, NEW c \in Client, NEW r, call' = [call EXCEPT ![c] = r], r.pc \notin PagePoints
  PROVE  \A d \in Client : Turned(d)
<1>1. \A d \in Client : call'[d] = IF d = c THEN r ELSE call[d]
  BY DEF Typed, CallsTyped
<1> QED
  BY <1>1 DEF Turned

LEMMA OffPageIdle ==
  ASSUME Typed, NEW c \in Client, call' = [call EXCEPT ![c] = NoCall]
  PROVE  \A d \in Client : Turned(d)
<1>1. NoCall.pc \notin PagePoints
  BY DEF NoCall, PagePoints
<1> QED
  BY <1>1, OffPage

LEMMA OffPageGoto ==
  ASSUME Typed, NEW c \in Client, NEW from, NEW to, to \notin PagePoints, Goto(c, from, to)
  PROVE  \A d \in Client : Turned(d)
<1>1. [call[c] EXCEPT !.pc = to].pc = to
  BY CallTyped DEF CallState
<1>2. call' = [call EXCEPT ![c] = [call[c] EXCEPT !.pc = to]]
  BY DEF Goto, Typed, CallsTyped
<1> QED
  BY <1>1, <1>2, OffPage

LEMMA OffPageEnter ==
  ASSUME Typed, NEW c \in Client, NEW route, NEW to, NEW p, NEW T, Enter(c, route, to, p, T),
         to \notin PagePoints \ {"test"}
  PROVE  \A d \in Client : Turned(d)
<1>1. PICK r : r = [NoCall EXCEPT !.pc = to, !.route = route, !.profile = p, !.tasks = T]
  OBVIOUS
<1>2. r.pc = to /\ r.i = 0
  BY <1>1 DEF NoCall
<1>3. call' = [call EXCEPT ![c] = r]
  BY <1>1 DEF Enter
<1>4. \A d \in Client : call'[d] = IF d = c THEN r ELSE call[d]
  BY <1>3 DEF Typed, CallsTyped
<1> QED
  BY <1>2, <1>4 DEF Turned

LEMMA OffPageUse ==
  ASSUME Typed, NEW c \in Client, NEW from, NEW then, then.pc \notin PagePoints,
         UseHudor(c, from, then)
  PROVE  \A d \in Client : Turned(d)
BY OffPageIdle, OffPage DEF UseHudor, Panic, Panics

LEMMA LoadTurns ==
  ASSUME Typed, NEW c \in Client, Load(c)
  PROVE  \A d \in Client : Turned(d)
<1>0. call \in [Client -> CallState] /\ call[c] \in CallState
  BY CallTyped DEF Typed, CallsTyped
<1>1. CASE \E p \in mix.profiles : FollowLog(c, p) \/ BeginLoad(c, p)
  <2>1. PICK p, route, to, T : Enter(c, route, to, p, T) /\ to \in {"profile", "create"}
    BY <1>1 DEF FollowLog, BeginLoad, Begin
  <2> QED
    BY <2>1, OffPageEnter DEF PagePoints
<1>2. CASE SetProfile(c)
  BY <1>2, OffPageGoto DEF SetProfile, PagePoints
<1>3. CASE CreateLog(c)
  <2>1. call' = [call EXCEPT ![c] = [call[c] EXCEPT !.pc = "close", !.hudor = hudor]]
    BY <1>0, <1>3 DEF CreateLog
  <2>2. [call[c] EXCEPT !.pc = "close", !.hudor = hudor].pc \notin PagePoints
    BY <1>0 DEF CallState, PagePoints
  <2> QED
    BY <2>1, <2>2, OffPage
<1>4. CASE NewHudor(c)
  <2>1. CASE call' = [call EXCEPT ![c].pc = "store", ![c].hudor = hudor']
    <3>1. PICK r : r = [call[c] EXCEPT !.pc = "store", !.hudor = hudor']
      OBVIOUS
    <3>2. call' = [call EXCEPT ![c] = r]
      BY <1>0, <2>1, <3>1
    <3>3. r.pc \notin PagePoints
      BY <1>0, <3>1 DEF CallState, PagePoints
    <3> QED
      BY <3>2, <3>3, OffPage
  <2>2. CASE Panics(c, "profile")
    BY <2>2, OffPageIdle DEF Panics
  <2> QED
    BY <1>4, <2>1, <2>2, NewHudorEffect
<1>5. CASE StoreHudor(c)
  BY <1>5, OffPageGoto, OffPageIdle DEF StoreHudor, Return, PagePoints
<1>6. CASE ListTasks(c)
  <2>1. PICK r : r = [call[c] EXCEPT !.pc = "tasks", !.tasks = H.tasks]
    OBVIOUS
  <2>2. r.pc \notin PagePoints
    BY <1>0, <2>1 DEF CallState, PagePoints
  <2>3. UseHudor(c, "list", r)
    BY <1>6, <2>1 DEF ListTasks
  <2> QED
    BY <2>2, <2>3, OffPageUse
<1>7. CASE StoreTasks(c)
  BY <1>7, OffPageIdle DEF StoreTasks, Return
<1> QED
  BY <1>1, <1>2, <1>3, <1>4, <1>5, <1>6, <1>7 DEF Load

LEMMA WithoutOffPage ==
  ASSUME Typed, NEW c \in Client, NEW t
  PROVE  Without(c, t).pc \notin PagePoints
<1>1. CASE call[c].tasks = {t}
  BY <1>1 DEF Without, NoCall, PagePoints
<1>2. CASE call[c].tasks # {t}
  <2>1. Without(c, t).pc \in {"results", "next"}
    BY <1>2, WithoutFields
  <2> QED
    BY <2>1 DEF PagePoints
<1> QED
  BY <1>1, <1>2

LEMMA TasksTurns ==
  ASSUME Typed, NEW c \in Client, Tasks(c)
  PROVE  \A d \in Client : Turned(d)
<1>0. call \in [Client -> CallState] /\ call[c] \in CallState
  BY CallTyped DEF Typed, CallsTyped
<1>1. CASE \/ \E T \in SUBSET Task, route \in TaskRoutes : BeginTasks(c, route, T)
           \/ \E route \in {"getsession", "getresults"} : BeginRead(c, route)
  <2>1. PICK p, route, to, T : Enter(c, route, to, p, T) /\ to \in {"next", "use"}
    BY <1>1 DEF BeginTasks, BeginRead, Begin
  <2> QED
    BY <2>1, OffPageEnter DEF PagePoints
<1>2. CASE NextTask(c)
  <2>1. PICK t \in call[c].tasks : TestTask(c, t)
    BY <1>2 DEF NextTask
  <2>2. Without(c, t).pc \notin PagePoints
    BY WithoutOffPage
  <2>3. PICK to : to = PointOf(call[c].route)
    OBVIOUS
  <2>4. to \in {"start", "wait", "update"}
    BY <2>3 DEF PointOf
  <2>5. With(c, t, to).pc = to
    BY <1>0 DEF With, CallState
  <2>7. With(c, t, to).pc \notin PagePoints
    BY <2>4, <2>5 DEF PagePoints
  <2>6. \/ UseHudor(c, "next", Without(c, t)) \/ UseHudor(c, "next", With(c, t, to))
        \/ Panic(c, "rate")
    BY <2>1, <2>3 DEF TestTask
  <2> QED
    BY <2>2, <2>6, <2>7, OffPageUse, OffPageIdle DEF Panic, Panics
<1>5. ASSUME NEW t \in call[c].doing, StartTask(c, t) \/ Stopped(c, t) \/ UpdateRate(c, t)
      PROVE  \A d \in Client : Turned(d)
  <2>1. call' = [call EXCEPT ![c] = Without(c, t)]
    BY <1>5 DEF StartTask, Stopped, UpdateRate
  <2>2. Without(c, t).pc \notin PagePoints
    BY WithoutOffPage
  <2> QED
    BY <2>1, <2>2, OffPage
<1>3. ASSUME NEW t \in Task, ResultOf(c, t) PROVE \A d \in Client : Turned(d)
  <2>1. Without(c, t).pc \notin PagePoints
    BY WithoutOffPage
  <2> QED
    BY <1>3, <2>1, OffPageUse, OffPageIdle DEF ResultOf, Panic, Panics
<1>4. CASE Use(c)
  <2>1. PICK T : T = IF call[c].route = "getresults" THEN H.active ELSE {}
    OBVIOUS
  <2>2. PICK r : r = IF T = {} THEN NoCall ELSE [call[c] EXCEPT !.pc = "results", !.tasks = T]
    OBVIOUS
  <2>3. UseHudor(c, "use", r)
    BY <1>4, <2>1, <2>2 DEF Use
  <2>4. r.pc \notin PagePoints
    <3>1. CASE T = {}
      BY <2>2, <3>1 DEF NoCall, PagePoints
    <3>2. CASE T # {}
      BY <1>0, <2>2, <3>2 DEF CallState, PagePoints
    <3> QED
      BY <3>1, <3>2
  <2> QED
    BY <2>3, <2>4, OffPageUse
<1> QED
  BY <1>1, <1>2, <1>3, <1>4, <1>5 DEF Tasks

LEMMA ResetTurns ==
  ASSUME Typed, NEW c \in Client, Reset(c)
  PROVE  \A d \in Client : Turned(d)
<1>0. call \in [Client -> CallState] /\ call[c] \in CallState
  BY CallTyped DEF Typed, CallsTyped
<1>1. CASE BeginReset(c)
  <2>1. PICK to \in {"resetFile", "active"} : Enter(c, "reset", to, Missing, {})
    BY <1>1 DEF BeginReset, Begin
  <2> QED
    BY <2>1, OffPageEnter DEF PagePoints
<1>2. CASE TestActive(c)
  <2>1. PICK to \in {"resetFile", "stopAll"} : UseHudor(c, "active", [call[c] EXCEPT !.pc = to])
    BY <1>2 DEF TestActive
  <2>2. [call[c] EXCEPT !.pc = to].pc = to
    BY <1>0 DEF CallState
  <2> QED
    BY <2>1, <2>2, OffPageUse DEF PagePoints
<1>3. CASE StopAll(c) \/ CloseHudor(c)
  <2>1. PICK to \in {"stopping", "closing"} :
          \/ UseHudor(c, "stopAll", [call[c] EXCEPT !.pc = to, !.hudor = S.hudor])
          \/ call' = [call EXCEPT ![c].pc = to, ![c].hudor = S.hudor]
          \/ Panic(c, "hudor")
    BY <1>3 DEF StopAll, CloseHudor
  <2>2. PICK r : r = [call[c] EXCEPT !.pc = to, !.hudor = S.hudor]
    OBVIOUS
  <2>3. r.pc \notin PagePoints
    BY <1>0, <2>2 DEF CallState, PagePoints
  <2>4. \/ UseHudor(c, "stopAll", r) \/ call' = [call EXCEPT ![c] = r] \/ Panic(c, "hudor")
    BY <1>0, <2>1, <2>2
  <2> QED
    BY <2>3, <2>4, OffPageUse, OffPage, OffPageIdle DEF Panic, Panics
<1>4. CASE ResetFile(c)
  BY <1>4, OffPageGoto DEF ResetFile, PagePoints
<1>5. CASE ResetSession(c)
  BY <1>5, OffPageIdle DEF ResetSession, Return
<1> QED
  BY <1>1, <1>2, <1>3, <1>4, <1>5 DEF Reset

LEMMA LogsTurns ==
  ASSUME Typed, NEW c \in Client, Logs(c)
  PROVE  \A d \in Client : Turned(d)
<1>0. call \in [Client -> CallState] /\ call[c] \in CallState
  BY CallTyped DEF Typed, CallsTyped
<1>1. CASE BeginLogs(c)
  BY <1>1, OffPageEnter DEF BeginLogs, Begin
<1>2. CASE TestLine(c)
  <2>1. PICK to \in {"take", "advance"} :
          /\ Goto(c, "test", to)
          /\ to = "take" => Len(S.output) > call[c].i + S.offset
    BY <1>2 DEF TestLine
  <2>2. PICK r : r = [call[c] EXCEPT !.pc = to]
    OBVIOUS
  <2>3. r.pc = to /\ r.i = call[c].i /\ r.page = call[c].page
    BY <1>0, <2>2 DEF CallState
  <2>4. call[c].pc = "test" /\ \A d \in Client : call'[d] = IF d = c THEN r ELSE call[d]
    BY <1>0, <2>1, <2>2 DEF Goto
  <2> QED
    BY <2>1, <2>3, <2>4 DEF Turned
<1>3. CASE TakeLine(c)
  <2>1. CASE Panic(c, "line")
    BY <2>1, OffPageIdle DEF Panic, Panics
  <2>2. CASE ~Panic(c, "line")
    <3>1. PICK l : l = S.output[call[c].i + S.offset + 1]
      OBVIOUS
    <3>2. PICK r : r = [call[c] EXCEPT !.pc = "test", !.i = @ + 1, !.page = Append(@, l)]
      OBVIOUS
    <3>3. r.pc = "test" /\ r.i = call[c].i + 1 /\ r.page = Append(call[c].page, l)
      BY <1>0, <3>2 DEF CallState
    <3>4. /\ call[c].pc = "take" /\ ~(call[c].i + S.offset + 1 > Len(S.output))
          /\ call' = [call EXCEPT ![c].pc = "test", ![c].i = @ + 1, ![c].page = Append(@, l)]
      BY <1>3, <2>2, <3>1 DEF TakeLine
    <3>5. \A d \in Client : call'[d] = IF d = c THEN r ELSE call[d]
      BY <1>0, <3>2, <3>4
    <3>6. call[c].i + S.offset + 1 <= Len(S.output)
      <4>1. call[c].i \in Nat /\ S.offset \in Nat /\ S.output \in Seq(Line)
        BY CallTyped, SessionTyped DEF SessionState
      <4> QED
        BY <3>4, <4>1
    <3> QED
      BY <3>1, <3>3, <3>4, <3>5, <3>6 DEF Turned
  <2> QED
    BY <2>1, <2>2
<1>4. CASE ReadOffset(c)
  <2>1. PICK r : r = [call[c] EXCEPT !.pc = "return", !.session = session, !.offset = S.offset]
    OBVIOUS
  <2>2. /\ r.pc = "return" /\ r.i = call[c].i /\ r.page = call[c].page
        /\ r.session = session /\ r.offset = S.offset
    BY <1>0, <2>1 DEF CallState
  <2>3. /\ call[c].pc = "advance"
        /\ call' = [call EXCEPT ![c].pc = "return", ![c].session = session, ![c].offset = S.offset]
    BY <1>4 DEF ReadOffset
  <2>4. \A d \in Client : call'[d] = IF d = c THEN r ELSE call[d]
    BY <1>0, <2>1, <2>3
  <2> QED
    BY <2>2, <2>3, <2>4 DEF Turned
<1>5. CASE StoreOffset(c)
  BY <1>5, OffPageIdle DEF StoreOffset, Return
<1> QED
  BY <1>1, <1>2, <1>3, <1>4, <1>5 DEF Logs

LEMMA StepTurns == Typed /\ [Next]_vars => \A d \in Client : Turned(d)
<1> SUFFICES ASSUME Typed, [Next]_vars PROVE \A d \in Client : Turned(d)
  OBVIOUS
<1>1. LogStep \/ TaskStep \/ UNCHANGED vars => UNCHANGED call
  BY LogStepFrame, TaskStepFrame DEF vars
<1>2. UNCHANGED call => \A d \in Client : Turned(d)
  BY DEF Turned
<1> QED
  BY <1>1, <1>2, StepCases, LoadTurns, TasksTurns, ResetTurns, LogsTurns DEF Handler

LEMMA PagingReset ==
  ASSUME Typed, Apart, NEW c \in Client, ResetSession(c)
  PROVE  Paging'
<1>1. /\ call[c].pc = "resetSession" /\ call' = [call EXCEPT ![c] = NoCall]
      /\ sess' = Append(sess, EmptySession)
  BY DEF ResetSession, Return
<1>2. call[c].route = "reset"
  BY <1>1, CallTyped DEF CallOK, RouteAt
<1>3. \A d \in Client \ {c} : call[d].pc = "idle"
  BY <1>1, <1>2, NextToReset
<1>4. \A d \in Client : call'[d].pc = "idle"
  BY <1>1, <1>3 DEF NoCall, Typed, CallsTyped
<1>5. sess' # <<>> /\ sess'[Len(sess')] = EmptySession
  <2>1. sess \in Seq(SessionState)
    BY SessionTyped
  <2> QED
    BY <1>1, <2>1, EmptySessionTyped, SeqAdd
<1>6. EmptySession.offset = 0 /\ EmptySession.output = <<>> /\ EmptySession.shown = <<>>
  BY DEF EmptySession
<1>7. ShownIsRead'
  BY <1>5, <1>6 DEF ShownIsRead
<1> QED
  BY <1>4, <1>7 DEF Paging, PageOf, PagePoints

LEMMA NextToEachOther ==
  ASSUME NEW w \in Seq(Line), NEW g \in Seq(Line), NEW out \in Seq(Line),
         \A j \in 1 .. Len(w) : w[j] = out[j],
         \A j \in 1 .. Len(g) : g[j] = out[Len(w) + j]
  PROVE  /\ Len(w \o g) = Len(w) + Len(g)
         /\ \A j \in 1 .. Len(w) + Len(g) : (w \o g)[j] = out[j]
<1>1. /\ Len(w \o g) = Len(w) + Len(g)
      /\ \A j \in 1 .. Len(w) + Len(g) : (w \o g)[j] = IF j <= Len(w) THEN w[j] ELSE g[j - Len(w)]
  BY ConcatProperties
<1>2. PICK n \in Nat : n = Len(w)
  OBVIOUS
<1>3. PICK m \in Nat : m = Len(g)
  OBVIOUS
<1>4. ASSUME NEW j \in 1 .. n + m PROVE (w \o g)[j] = out[j]
  <2>1. (w \o g)[j] = IF j <= n THEN w[j] ELSE g[j - n]
    BY <1>1, <1>2, <1>3
  <2>2. CASE j <= n
    <3>1. j \in 1 .. n
      BY <2>2
    <3>2. (w \o g)[j] = w[j] /\ w[j] = out[j]
      BY <1>2, <2>1, <2>2, <3>1
    <3> QED
      BY <3>2
  <2>3. CASE ~(j <= n)
    <3>1. PICK i : i = j - n
      OBVIOUS
    <3>2. i \in 1 .. m /\ n + i = j
      BY <2>3, <3>1
    <3>3. g[i] = out[n + i]
      BY <1>2, <1>3, <3>2
    <3>4. (w \o g)[j] = g[i]
      BY <2>1, <2>3, <3>1, Zenon
    <3> QED
      BY <3>2, <3>3, <3>4
  <2> QED
    BY <2>2, <2>3
<1> QED
  BY <1>1, <1>2, <1>3, <1>4

LEMMA PagingAnswer ==
  ASSUME Typed, Apart, Paging, NEW c \in Client, StoreOffset(c)
  PROVE  Paging'
<1>1. call[c].pc = "return" /\ call' = [call EXCEPT ![c] = NoCall]
  BY DEF StoreOffset, Return
<1>2. call[c].route = "logs"
  BY <1>1, CallTyped DEF CallOK, RouteAt
<1>3. ASSUME NEW d \in Client \ {c} PROVE call[d].pc \notin PagePoints
  <2>1. SUFFICES ASSUME call[d].pc \in PagePoints PROVE FALSE
    OBVIOUS
  <2>2. call[d].route = "logs" /\ call[d].pc # "idle"
    BY <2>1, CallTyped DEF CallOK, RouteAt, PagePoints
  <2> QED
    BY <1>1, <1>2, <2>2 DEF Apart, Alone, Meet
<1>4. \A d \in Client : call'[d].pc \notin PagePoints
  <2>1. NoCall.pc \notin PagePoints
    BY DEF NoCall, PagePoints
  <2>2. \A d \in Client : call'[d] = IF d = c THEN NoCall ELSE call[d]
    BY <1>1 DEF Typed, CallsTyped
  <2> QED
    BY <1>3, <2>1, <2>2
<1>5. PICK k : k = session
  OBVIOUS
<1>6. PICK r : r = call[c]
  OBVIOUS
<1>7. /\ r.session = k /\ r.offset = sess[k].offset
      /\ sess[k].offset + r.i <= Len(sess[k].output)
      /\ \A j \in 1 .. r.i : r.page[j] = sess[k].output[sess[k].offset + j]
  BY <1>1, <1>5, <1>6 DEF Paging, PageOf, PagePoints
<1>8. /\ k \in DOMAIN sess /\ sess \in Seq(SessionState) /\ sess[k] \in SessionState
      /\ r.page \in Seq(Line) /\ r.i \in Nat /\ Len(r.page) = r.i
  BY <1>5, <1>6, SessionTyped, CallTyped DEF CallOK
<1>9. PICK n : n = sess[k].offset
  OBVIOUS
<1>10. PICK w : w = sess[k].shown
  OBVIOUS
<1>11. PICK g : g = r.page
  OBVIOUS
<1>12. PICK out : out = sess[k].output
  OBVIOUS
<1>13. n \in Nat /\ w \in Seq(Line) /\ g \in Seq(Line) /\ out \in Seq(Line)
  BY <1>8, <1>9, <1>10, <1>11, <1>12 DEF SessionState
<1>14. /\ n <= Len(out) /\ Len(w) = n /\ \A j \in 1 .. n : w[j] = out[j]
       /\ n + r.i <= Len(out) /\ Len(g) = r.i /\ \A j \in 1 .. r.i : g[j] = out[n + j]
  BY <1>5, <1>7, <1>8, <1>9, <1>10, <1>11, <1>12 DEF Paging, ShownIsRead
<1>15. PICK s : s = [sess[k] EXCEPT !.offset = n + r.i, !.shown = w \o g]
  OBVIOUS
<1>16. s.offset = n + r.i /\ s.shown = w \o g /\ s.output = out
  BY <1>8, <1>12, <1>15 DEF SessionState
<1>17. sess' = [sess EXCEPT ![k].offset = n + r.i, ![k].shown = @ \o g]
  BY <1>6, <1>7, <1>9, <1>11 DEF StoreOffset
<1>18. sess' = [sess EXCEPT ![k] = s]
  BY <1>8, <1>10, <1>15, <1>17
<1>19. Len(sess') = k /\ sess'[k] = s
  BY <1>5, <1>8, <1>18
<1>20. Len(w \o g) = n + r.i /\ \A j \in 1 .. n + r.i : (w \o g)[j] = out[j]
  <2>1. (\A j \in 1 .. Len(w) : w[j] = out[j]) /\ \A j \in 1 .. Len(g) : g[j] = out[Len(w) + j]
    BY <1>14
  <2>2. Len(w \o g) = Len(w) + Len(g) /\ \A j \in 1 .. Len(w) + Len(g) : (w \o g)[j] = out[j]
    <3>1. w \in Seq(Line) /\ g \in Seq(Line) /\ out \in Seq(Line)
      BY <1>13
    <3> QED
      BY <2>1, <3>1, NextToEachOther, Zenon
  <2>3. Len(w) = n /\ Len(g) = r.i
    BY <1>14
  <2>4. Len(w) + Len(g) = n + r.i
    BY <2>3
  <2> QED
    BY <2>2, <2>4, Zenon
<1>21. ShownIsRead'
  BY <1>14, <1>16, <1>19, <1>20 DEF ShownIsRead
<1> QED
  BY <1>4, <1>21 DEF Paging, PageOf

LEMMA PagingOther ==
  ASSUME Typed, Apart, Ordered, Paging, [Next]_vars,
         \A c \in Client : ~ResetSession(c) /\ ~StoreOffset(c)
  PROVE  Paging'
<1>1. SessGrow /\ Typed'
  BY SessStep, TypedStep
<1>2. PICK k : k = session
  OBVIOUS
<1>3. k \in DOMAIN sess /\ Len(sess') = k
  BY <1>1, <1>2, SessionTyped DEF SessGrow
<1>4. PICK out : out = sess[k].output
  OBVIOUS
<1>5. PICK more : more = sess'[k].output
  OBVIOUS
<1>6. PICK n : n = sess[k].offset
  OBVIOUS
<1>7. Len(more) >= Len(out) /\ \A j \in 1 .. Len(out) : more[j] = out[j]
  BY <1>3, <1>4, <1>5, OutputsGrow
<1>8. sess'[k].offset = n /\ sess'[k].shown = sess[k].shown
  BY <1>1, <1>3, <1>6 DEF SessGrow, AnswerSent
<1>9. n \in Nat /\ out \in Seq(Line) /\ more \in Seq(Line) /\ Len(out) \in Nat /\ Len(more) \in Nat
  <2>1. sess'[k] \in SessionState
    <3>1. sess' \in Seq(SessionState) /\ k \in DOMAIN sess'
      BY <1>1, <1>3 DEF Typed, SessTyped, SessGrow
    <3> QED
      BY <3>1
  <2>2. out \in Seq(Line) /\ more \in Seq(Line) /\ n \in Nat
    BY <1>3, <1>4, <1>5, <1>6, <2>1, EachSession DEF SessionState
  <2> QED
    BY <2>2
<1>10. /\ n <= Len(out) /\ Len(sess[k].shown) = n /\ \A j \in 1 .. n : sess[k].shown[j] = out[j]
  BY <1>2, <1>4, <1>6 DEF Paging, ShownIsRead
<1>11. ShownIsRead'
  <2>1. n <= Len(more) /\ \A j \in 1 .. n : more[j] = out[j]
    BY <1>7, <1>9, <1>10
  <2> QED
    BY <1>3, <1>5, <1>8, <1>10, <2>1 DEF ShownIsRead
<1>12. ASSUME NEW d \in Client PROVE PageOf(call[d])'
  <2>1. PICK r : r = call[d]
    OBVIOUS
  <2>2. PICK q : q = call'[d]
    OBVIOUS
  <2>3. Turned(d)
    BY StepTurns
  <2>4. r.i \in Nat /\ r.page \in Seq(Line) /\ Len(r.page) = r.i /\ q.i \in Nat
    <3>1. q \in CallState
      BY <1>1, <2>2 DEF Typed, CallsTyped
    <3> QED
      BY <2>1, <3>1, CallTyped DEF CallOK, CallState
  <2>5. r.pc \in PagePoints =>
          /\ n + r.i <= Len(out) /\ \A j \in 1 .. r.i : r.page[j] = out[n + j]
          /\ r.pc = "take" => n + r.i < Len(out)
          /\ r.pc = "return" => r.session = k /\ r.offset = n
    BY <1>2, <1>4, <1>6, <2>1 DEF Paging, PageOf
  <2>6. q.pc \in PagePoints =>
          /\ n + q.i <= Len(out) /\ \A j \in 1 .. q.i : q.page[j] = out[n + j]
          /\ q.pc = "take" => n + q.i < Len(out)
          /\ q.pc = "return" => q.session = k /\ q.offset = n
    <3>1. CASE q.pc \notin PagePoints \/ q = r
      BY <2>5, <3>1
    <3>2. CASE q.pc = "test" /\ q.i = 0
      BY <1>9, <1>10, <3>2
    <3>3. CASE /\ r.pc = "test" /\ q.pc \in {"take", "advance"} /\ q.i = r.i /\ q.page = r.page
               /\ q.pc = "take" => Len(out) > r.i + n
      BY <1>9, <2>4, <2>5, <3>3 DEF PagePoints
    <3>4. CASE /\ r.pc = "take" /\ q.pc = "test" /\ q.i = r.i + 1
               /\ q.page = Append(r.page, out[r.i + n + 1]) /\ r.i + n + 1 <= Len(out)
      <4>1. PICK g : g = r.page
        OBVIOUS
      <4>2. PICK l : l = out[r.i + n + 1]
        OBVIOUS
      <4>3. g \in Seq(Line) /\ Len(g) = r.i
        BY <2>4, <4>1
      <4>4. l \in Line
        <5>1. r.i + n + 1 \in 1 .. Len(out)
          <6>1. PICK m : m = r.i
            OBVIOUS
          <6>2. m \in Nat /\ m + n + 1 <= Len(out)
            BY <2>4, <3>4, <6>1
          <6>3. m + n + 1 \in 1 .. Len(out)
            BY <1>9, <6>2
          <6> QED
            BY <6>1, <6>3
        <5> QED
          BY <1>9, <4>2, <5>1
      <4>5. Append(g, l)[Len(g) + 1] = l /\ \A j \in 1 .. Len(g) : Append(g, l)[j] = g[j]
        BY <4>3, <4>4
      <4>6. q.page = Append(g, l)
        BY <3>4, <4>1, <4>2
      <4>7. ASSUME NEW j \in 1 .. q.i PROVE q.page[j] = out[n + j]
        <5>1. CASE j <= r.i
          <6>1. j \in 1 .. r.i
            BY <2>4, <5>1
          <6>2. r.page[j] = out[n + j]
            BY <2>5, <3>4, <6>1 DEF PagePoints
          <6> QED
            BY <4>1, <4>3, <4>5, <4>6, <6>1, <6>2
        <5>2. CASE j = r.i + 1
          <6>1. n + j = r.i + n + 1
            BY <1>9, <2>4, <5>2
          <6> QED
            BY <4>2, <4>3, <4>5, <4>6, <5>2, <6>1
        <5> QED
          BY <2>4, <3>4, <5>1, <5>2
      <4>8. n + q.i <= Len(out)
        BY <1>9, <2>4, <3>4
      <4> QED
        BY <3>4, <4>7, <4>8
    <3>5. CASE /\ r.pc = "advance" /\ q.pc = "return" /\ q.session = k /\ q.offset = n
               /\ q.i = r.i /\ q.page = r.page
      BY <2>5, <3>5 DEF PagePoints
    <3> QED
      BY <1>2, <1>4, <1>6, <2>1, <2>2, <2>3, <3>1, <3>2, <3>3, <3>4, <3>5 DEF Turned
  <2>7. q.pc \in PagePoints =>
          /\ n + q.i <= Len(more) /\ \A j \in 1 .. q.i : q.page[j] = more[n + j]
          /\ q.pc = "take" => n + q.i < Len(more)
          /\ q.pc = "return" => q.session = k /\ q.offset = n
    <3>1. SUFFICES ASSUME q.pc \in PagePoints
                   PROVE  /\ n + q.i <= Len(more) /\ \A j \in 1 .. q.i : q.page[j] = more[n + j]
                          /\ q.pc = "take" => n + q.i < Len(more)
                          /\ q.pc = "return" => q.session = k /\ q.offset = n
      OBVIOUS
    <3>2. ASSUME NEW j \in 1 .. q.i PROVE q.page[j] = more[n + j]
      <4>1. n + j \in 1 .. Len(out) /\ q.page[j] = out[n + j]
        BY <1>9, <2>4, <2>6, <3>1
      <4> QED
        BY <1>7, <4>1
    <3> QED
      BY <1>7, <1>9, <2>4, <2>6, <3>1, <3>2
  <2> QED
    BY <1>3, <1>5, <1>8, <2>2, <2>7 DEF PageOf
<1> QED
  BY <1>11, <1>12 DEF Paging

LEMMA PagingInit == Init => Paging
<1> SUFFICES ASSUME Init PROVE Paging
  OBVIOUS
<1>1. S = EmptySession /\ \A c \in Client : call[c].pc = "idle"
  BY DEF Init, NoCall
<1>2. EmptySession.offset = 0 /\ EmptySession.output = <<>> /\ EmptySession.shown = <<>>
  BY DEF EmptySession
<1> QED
  BY <1>1, <1>2 DEF Paging, ShownIsRead, PageOf, PagePoints

-----------------------------------------------------------------------------
(* The theorems *)

PanicsKnown == ~overlapped => \A p \in panicked : OwnPanic(p) \/ (p = <<"logs", "line">> /\ crowded)

Safe ==
  /\ Typed /\ Quiet /\ LogOrder
  /\ ~overlapped /\ ~crowded => Paging
  /\ PanicsKnown

LEMMA CrowdedStays ==
  ASSUME Typed, [Next]_vars, ~crowded'
  PROVE  ~crowded
<1>1. CASE Followed
  BY <1>1, FollowEffect, Zenon
<1>2. CASE UNCHANGED crowded
  BY <1>2
<1> QED
  BY <1>1, <1>2, StepFrame

LEMMA SafeStep == Safe /\ [Next]_vars => Safe'
<1> SUFFICES ASSUME Safe, [Next]_vars PROVE Safe'
  OBVIOUS
<1>1. Typed' /\ Quiet' /\ LogOrder'
  BY TypedStep, QuietStep, LogOrderStep DEF Safe
<1>2. ~overlapped' => ~overlapped /\ Apart
  BY OverlappedStays DEF Safe, Quiet
<1>3. ~crowded' => ~crowded /\ Ordered
  BY CrowdedStays DEF Safe, LogOrder
<1>4. ASSUME ~overlapped', ~crowded' PROVE Paging'
  <2>1. Typed /\ Apart /\ Ordered /\ Paging
    BY <1>2, <1>3, <1>4 DEF Safe
  <2> QED
    BY <2>1, PagingReset, PagingAnswer, PagingOther
<1>5. ASSUME ~overlapped', NEW p \in panicked'
      PROVE  OwnPanic(p) \/ (p = <<"logs", "line">> /\ crowded')
  <2>1. Typed /\ Apart /\ (p \in panicked => OwnPanic(p) \/ (p = <<"logs", "line">> /\ crowded))
    BY <1>2, <1>5 DEF Safe, PanicsKnown
  <2>2. crowded => crowded'
    BY <1>3
  <2>3. CASE Panicked
    BY <1>5, <2>1, <2>2, <2>3 DEF Panicked
  <2>4. ASSUME NEW c \in Client, TakeLine(c), call[c].i + S.offset + 1 > Len(S.output),
               panicked' = panicked \cup {<<"logs", "line">>}
        PROVE  OwnPanic(p) \/ (p = <<"logs", "line">> /\ crowded')
    <3>1. crowded
      <4>1. SUFFICES ASSUME ~crowded PROVE FALSE
        OBVIOUS
      <4>2. S.offset + call[c].i < Len(S.output)
        BY <1>2, <1>5, <2>4, <4>1 DEF Safe, Paging, PageOf, PagePoints, TakeLine
      <4>3. call[c].i \in Nat /\ S.offset \in Nat /\ S.output \in Seq(Line)
        BY <2>1, CallTyped, SessionTyped DEF SessionState
      <4> QED
        BY <2>4, <4>2, <4>3
    <3> QED
      BY <1>5, <2>1, <2>2, <2>4, <3>1
  <2> QED
    BY <2>1, <2>3, <2>4, PanicKinds
<1>6. PanicsKnown'
  BY <1>5 DEF PanicsKnown
<1> QED
  BY <1>1, <1>4, <1>6 DEF Safe

LEMMA AlwaysSafe == Spec => []Safe
<1>1. Init => Safe
  BY TypedInit, QuietInit, LogOrderInit, PagingInit DEF Safe, PanicsKnown, Init
<1> QED
  BY <1>1, SafeStep, PTL DEF Spec

\* When calls do not get in each other's way a handler panics because it runs,
\* stops or updates tasks of a session that has no Hudor; because the new rate
\* has no ticker; because lib.Init cannot make the pools of the profile; or, for
\* /logs, because goroutines have overwritten each other's lines.
THEOREM PanicCauseCorrect == Spec => []PanicCause
<1>1. Safe => PanicCause
  BY DEF Safe, PanicsKnown, OwnPanic, PanicCause
<1> QED
  BY <1>1, AlwaysSafe, PTL

\* As long as one goroutine at a time appends, a session gets its lines in the
\* order in which they were written and none twice, over loads and resets; and
\* the pages add up to those lines when no calls get in each other's way.
THEOREM PageOrderCorrect == Spec => []PageOrder
<1>1. Safe => PageOrder
  <2> SUFFICES ASSUME Safe, ~crowded
      PROVE  InOrder(S.output) /\ (~overlapped => IsPrefix(S.shown, S.output))
    BY DEF PageOrder
  <2>1. session \in DOMAIN sess /\ S \in SessionState
    BY SessionTyped DEF Safe
  <2>2. InOrder(S.output)
    BY <2>1 DEF Safe, LogOrder, Ordered, OutputsOrdered
  <2>3. ASSUME ~overlapped PROVE IsPrefix(S.shown, S.output)
    <3>1. PICK w : w = S.shown
      OBVIOUS
    <3>2. PICK out : out = S.output
      OBVIOUS
    <3>3. w \in Seq(Line) /\ out \in Seq(Line)
      BY <2>1, <3>1, <3>2 DEF SessionState
    <3>4. Len(w) <= Len(out) /\ \A j \in 1 .. Len(w) : w[j] = out[j]
      BY <2>3, <3>1, <3>2 DEF Safe, Paging, ShownIsRead
    <3>5. SubSeq(w, 1, Len(w)) = SubSeq(out, 1, Len(w))
      BY <3>3, <3>4
    <3>6. IsPrefix(w, out)
      BY <3>4, <3>5 DEF IsPrefix
    <3> QED
      BY <3>1, <3>2, <3>6
  <2> QED
    BY <2>2, <2>3
<1> QED
  BY <1>1, AlwaysSafe, PTL

=============================================================================
