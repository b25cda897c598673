--------------------------- MODULE ServerSession ---------------------------
(***************************************************************************)
(* The session of the server (server/server.go): one package variable that *)
(* every handler reads anew in each statement and that reset replaces.     *)
(*                                                                         *)
(* getAllTasks follows stdout.log with a new goroutine that appends to the *)
(* session's log output, from which /logs serves one page after the other; *)
(* every load and every reset creates the file anew.  Loads also replace   *)
(* the session's Hudor, which other handlers test and then use, or use     *)
(* without a test.  Of what a Hudor does inside, the subject of HudorTasks *)
(* and TaskControl, this module has what lets a task work out of reach:    *)
(* the test of Run and the registration by the executor, updates of a      *)
(* rate, the end of the producers and that of the name in ActiveTaskMap.   *)
(***************************************************************************)
EXTENDS Integers, Sequences, SequencesExt, FiniteSets

CONSTANTS
  Client,    \* handlers that may be inside a call at the same time
  Task,
  TasksOf,   \* from the profiles that can be read to their enabled tasks
  Missing,   \* a profile that cannot be read
  Broken,    \* profiles that can be read, with an enabled task whose think time or
             \* gRPC options cannot, or whose rate is beyond 10^9
  PageSize,  \* lines /logs returns at most (10)
  Mixes,     \* BOUND: which routes are called, for which profiles, how many calls
             \* in all and of getAllTasks; a run has one of these mixes
  MaxLines   \* BOUND: lines written to the log, where somebody asks for them

ASSUME ServerSessionConstants ==
  /\ IsFiniteSet(Client)
  /\ \A p \in DOMAIN TasksOf : TasksOf[p] \subseteq Task
  /\ Missing \notin DOMAIN TasksOf /\ Broken \subseteq DOMAIN TasksOf
  /\ \A m \in Mixes : m.profiles \subseteq DOMAIN TasksOf \cup {Missing}
  /\ PageSize \in Nat \ {0} /\ MaxLines \in Nat

VARIABLES
  mix,      \* the calls of this run
  sess,     \* the sessions, the current one last
  file,     \* stdout.log since each of its creations: lines, whether it was
            \* removed before
  tails,    \* files that are followed: creation, lines delivered, ended
  tailObj,  \* TailObj, the last of them
  readers,  \* goroutines that append lines: point, tail, line, session, its output
  config,   \* profile the package's config was last parsed from
  hudors, hudor,  \* the Hudors by number, 0 is nil; the package's current one
  \* handlers: point, route, profile, Hudor, tasks to do and the one being done,
  \* and those of /logs
  call, calls,
  \* history: calls met that get in each other's way; two goroutines appended
  \* at a time; routes whose handler panicked and for want of what
  overlapped, crowded, panicked

logVars == <<file, tails, tailObj, readers>>
hudorVars == <<config, hudors, hudor, mix>>
historyVars == <<overlapped, crowded, panicked>>
vars == <<sess, logVars, hudorVars, call, calls, historyVars>>

Profiles == DOMAIN TasksOf \cup {Missing}
session == Len(sess)
S == sess[session]
H == hudors[S.hudor]

Created(new) == [lines |-> 0, new |-> new]

EmptySession ==
  [hudor |-> 0, profile |-> Missing, tasks |-> {}, output |-> <<>>, offset |-> 0, shown |-> <<>>]

\* A Hudor has its executor until it is closed.  working: tasks with producers;
\* updated, doubled: those whose rate was updated, or which were started while
\* active.
NewTasks(T) ==
  [open |-> TRUE, tasks |-> T, active |-> {}, working |-> {}, updated |-> {}, doubled |-> {}]

NoCall == [pc |-> "idle", route |-> "none", profile |-> Missing, hudor |-> 0, tasks |-> {},
           doing |-> {}, i |-> 0, page |-> <<>>, session |-> 0, offset |-> 0]

Loads == {"getalltasks", "loadprofile"}
TaskRoutes == {"runtask", "stoptask", "updatetaskrate"}

\* Calls that get in each other's way: two for /logs, a load and one that
\* uses the Hudor, a reset and any other, two that start a task or update one.
Meet(r, q) ==
  \/ "reset" \in {r, q}
  \/ {r, q} = {"logs"}
  \/ {r, q} \cap Loads # {} /\ "logs" \notin {r, q}
  \/ {r, q} \subseteq {"runtask", "updatetaskrate"}

Init ==
  /\ mix \in Mixes
  /\ sess = <<EmptySession>>
  /\ file = <<Created(TRUE)>> /\ tails = <<>> /\ tailObj = 0 /\ readers = <<>>
  /\ config = Missing /\ hudors = <<>> /\ hudor = 0
  /\ call = [c \in Client |-> NoCall] /\ calls = 0
  /\ overlapped = FALSE /\ crowded = FALSE /\ panicked = {}

\* A request arrives.
Enter(c, route, to, p, T) ==
  /\ call[c].pc = "idle" /\ route \in mix.routes
  /\ calls < mix.calls /\ calls' = calls + 1
  /\ call' = [call EXCEPT ![c] = [NoCall EXCEPT !.pc = to, !.route = route, !.profile = p,
                                                !.tasks = T]]
  /\ overlapped' = (overlapped \/ \E d \in Client :
                                    call[d].pc # "idle" /\ Meet(route, call[d].route))
  /\ UNCHANGED <<sess, hudorVars, panicked>>

Begin(c, route, to, p, T) == Enter(c, route, to, p, T) /\ UNCHANGED <<logVars, crowded>>

Goto(c, from, to) == call[c].pc = from /\ call' = [call EXCEPT ![c].pc = to]
Return(c, from) == call[c].pc = from /\ call' = [call EXCEPT ![c] = NoCall]
CallOnly == UNCHANGED <<sess, logVars, hudorVars, calls, historyVars>>
SessionOnly == UNCHANGED <<logVars, hudorVars, calls, historyVars>>

\* gin recovers from the panic of a handler, which ends it where it is.
Panics(c, for) ==
  /\ call' = [call EXCEPT ![c] = NoCall]
  /\ panicked' = panicked \cup {<<call[c].route, for>>}

Panic(c, for) ==
  Panics(c, for) /\ UNCHANGED <<sess, logVars, hudorVars, calls, overlapped, crowded>>

\* A handler uses the Hudor the session has now, and panics without one.
UseHudor(c, from, then) ==
  /\ call[c].pc = from
  /\ IF S.hudor = 0 THEN Panic(c, "hudor") ELSE call' = [call EXCEPT ![c] = then] /\ CallOnly

\* Close ends the executor of a Hudor, if there is one.
Closed(h) == IF h = 0 THEN hudors ELSE [hudors EXCEPT ![h].open = FALSE]

-----------------------------------------------------------------------------
(* stdout.log and the goroutines that follow it *)

Written == FoldSeq(LAMBDA f, n : f.lines + n, 0, file)

\* Somebody calls log.Println.
LogLine ==
  /\ "logs" \in mix.routes /\ Written < MaxLines
  /\ file' = [file EXCEPT ![Len(file)].lines = @ + 1]
  /\ UNCHANGED <<sess, tails, tailObj, readers, hudorVars, call, calls, historyVars>>

\* tail.TailFile (github.com/hpcloud/tail): once the file was created anew and
\* has lines, it starts over or goes on where it was; it may end when the file
\* it follows was removed.
TailTurns(k) ==
  /\ ~tails[k].ended /\ tails[k].file < Len(file)
  /\ \/ /\ file[Len(file)].lines > 0
        /\ \E at \in {0, tails[k].at} :
             tails' = [tails EXCEPT ![k].file = Len(file), ![k].at = at]
     \/ /\ \E n \in tails[k].file + 1 .. Len(file) : file[n].new
        /\ tails' = [tails EXCEPT ![k].ended = TRUE]
  /\ UNCHANGED <<sess, file, tailObj, readers, hudorVars, call, calls, historyVars>>

\* The goroutine reads TailObj when it begins to run.
ReaderStart(r) ==
  /\ readers[r].pc = "start"
  /\ readers' = [readers EXCEPT ![r].pc = "lines", ![r].tail = tailObj]
  /\ UNCHANGED <<sess, file, tails, tailObj, hudorVars, call, calls, historyVars>>

\* A line arrives; lines a tail has read arrive also when the file is gone.
\* The goroutine reads the session and its output.
ReaderReceive(r) ==
  LET k == readers[r].tail IN
  /\ readers[r].pc = "lines"
  /\ ~tails[k].ended /\ tails[k].at < file[tails[k].file].lines
  /\ tails' = [tails EXCEPT ![k].at = @ + 1]
  /\ readers' = [readers EXCEPT ![r] =
       [pc |-> "append", tail |-> k, line |-> <<tails[k].file, tails[k].at + 1>>,
        session |-> session, output |-> S.output]]
  /\ UNCHANGED <<sess, file, tailObj, hudorVars, call, calls, historyVars>>

Idle(tail) == [pc |-> "lines", tail |-> tail, line |-> <<0, 0>>, session |-> 0, output |-> <<>>]

\* The assignment: what another goroutine appended in between is lost.
ReaderAppend(r) ==
  /\ readers[r].pc = "append"
  /\ sess' = [sess EXCEPT ![readers[r].session].output = Append(readers[r].output, readers[r].line)]
  /\ readers' = [readers EXCEPT ![r] = Idle(readers[r].tail)]
  /\ UNCHANGED <<file, tails, tailObj, hudorVars, call, calls, historyVars>>

ReaderEnd(r) ==
  /\ readers[r].pc = "lines" /\ tails[readers[r].tail].ended
  /\ readers' = [readers EXCEPT ![r].pc = "ended"]
  /\ UNCHANGED <<sess, file, tails, tailObj, hudorVars, call, calls, historyVars>>

Reader(r) == ReaderStart(r) \/ ReaderReceive(r) \/ ReaderAppend(r) \/ ReaderEnd(r)

-----------------------------------------------------------------------------
(* getAllTasks and loadProfile *)

FollowLog(c, p) ==
  /\ Len(tails) < mix.loads
  /\ Enter(c, "getalltasks", "profile", p, {})
  /\ tails' = Append(tails, [file |-> Len(file), at |-> 0, ended |-> FALSE])
  /\ tailObj' = Len(tails')
  /\ readers' = Append(readers, [Idle(0) EXCEPT !.pc = "start"])
  /\ crowded' = (crowded \/ \E r \in DOMAIN readers : readers[r].pc # "ended")
  /\ UNCHANGED file

SetProfile(c) ==
  /\ Goto(c, "profile", "create")
  /\ sess' = [sess EXCEPT ![session].profile = call[c].profile]
  /\ SessionOnly

BeginLoad(c, p) ==
  Begin(c, "loadprofile", "create", p, {})

\* lib.Init truncates the log and then closes the package's Hudor, whose
\* executor ends ...
CreateLog(c) ==
  /\ call[c].pc = "create"
  /\ file' = Append(file, Created(FALSE))
  /\ call' = [call EXCEPT ![c].pc = "close", ![c].hudor = hudor]
  /\ hudors' = Closed(hudor)
  /\ UNCHANGED <<sess, tails, tailObj, readers, config, hudor, mix, calls, historyVars>>

\* ... and has waited for its producers.  ConfigManager parses into a package
\* variable: a profile that cannot be read leaves the tasks of the one before.
NewHudor(c) ==
  LET parsed == IF call[c].profile = Missing THEN config ELSE call[c].profile IN
  /\ call[c].pc = "close"
  /\ call[c].hudor # 0 => hudors[call[c].hudor].working = {}
  /\ config' = parsed
  /\ \/ /\ parsed \notin Broken
        /\ hudors' = Append(hudors, NewTasks(IF parsed = Missing THEN {} ELSE TasksOf[parsed]))
        /\ hudor' = Len(hudors')
        /\ call' = [call EXCEPT ![c].pc = "store", ![c].hudor = hudor']
        /\ UNCHANGED panicked
     \/ /\ parsed \in Broken
        /\ Panics(c, "profile")
        /\ UNCHANGED <<hudors, hudor>>
  /\ UNCHANGED <<mix, sess, logVars, calls, overlapped, crowded>>

StoreHudor(c) ==
  /\ IF call[c].route = "getalltasks" /\ call[c].profile # Missing
       THEN Goto(c, "store", "list") ELSE Return(c, "store")
  /\ sess' = [sess EXCEPT ![session].hudor = call[c].hudor,
                          ![session].tasks = IF call[c].route = "getalltasks" THEN {} ELSE @]
  /\ SessionOnly

ListTasks(c) == UseHudor(c, "list", [call[c] EXCEPT !.pc = "tasks", !.tasks = H.tasks])

StoreTasks(c) ==
  /\ Return(c, "tasks")
  /\ sess' = [sess EXCEPT ![session].tasks = call[c].tasks]
  /\ SessionOnly

Load(c) ==
  \/ \E p \in mix.profiles : FollowLog(c, p) \/ BeginLoad(c, p)
  \/ SetProfile(c) \/ CreateLog(c) \/ NewHudor(c)
  \/ StoreHudor(c) \/ ListTasks(c) \/ StoreTasks(c)

-----------------------------------------------------------------------------
(* Tasks: runTasks, stopTask, updateTaskRate, and the handlers that read *)

\* A list of tasks, of which updateTaskRate has one.  Nobody looks whether the
\* session has a Hudor.
BeginTasks(c, route, T) ==
  /\ T # {} /\ (route = "updatetaskrate" => \E t \in Task : T = {t})
  /\ Begin(c, route, "next", Missing, T)

\* The handler is done with one of its tasks.
Without(c, t) ==
  IF call[c].tasks = {t} THEN NoCall
  ELSE [call[c] EXCEPT !.pc = IF @ = "results" THEN "results" ELSE "next",
                       !.tasks = @ \ {t}, !.doing = {}]

\* It goes on with one of them in the Hudor it has found.
With(c, t, to) == [call[c] EXCEPT !.pc = to, !.hudor = S.hudor, !.doing = {t}]

\* Run wants a task that is there and not active, StopTask and UpdateTaskRate
\* one that is active.
Wanted(c, t) == IF call[c].route = "runtask" THEN t \in H.tasks \ H.active ELSE t \in H.active

PointOf(route) ==
  CASE route = "runtask" -> "start" [] route = "stoptask" -> "wait" [] OTHER -> "update"

\* A task is left alone, also by Run when its csv file cannot be read; or the
\* handler goes on with it; or there is no ticker for the new rate: it is no
\* number, not positive or beyond 10^9.
TestTask(c, t) ==
  \/ /\ (S.hudor # 0 /\ Wanted(c, t)) => call[c].route = "runtask"
     /\ UseHudor(c, "next", Without(c, t))
  \/ /\ S.hudor # 0 /\ Wanted(c, t)
     /\ UseHudor(c, "next", With(c, t, PointOf(call[c].route)))
  \/ /\ call[c].pc = "next" /\ call[c].route = "updatetaskrate"
     /\ S.hudor # 0 /\ Wanted(c, t)
     /\ Panic(c, "rate")

NextTask(c) == \E t \in call[c].tasks : TestTask(c, t)

\* The executor puts the task into ActiveTaskMap and launches its run, whatever
\* Run has seen; its token lets Run return.  Which executor takes the name when
\* a load came in between, and which of two Runs the token, is in HudorTasks.
StartTask(c, t) ==
  LET h == call[c].hudor IN
  /\ call[c].pc = "start" /\ hudors[h].open
  /\ hudors' = [hudors EXCEPT ![h].active = @ \cup {t}, ![h].working = @ \cup {t},
                              ![h].doubled = @ \cup (hudors[h].active \cap {t})]
  /\ call' = [call EXCEPT ![c] = Without(c, t)]
  /\ UNCHANGED <<sess, logVars, config, hudor, mix, calls, historyVars>>

\* StopTask has waited for the producers of the task.
Stopped(c, t) ==
  /\ call[c].pc = "wait" /\ t \notin hudors[call[c].hudor].working
  /\ call' = [call EXCEPT ![c] = Without(c, t)]
  /\ CallOnly

\* UpdateTaskRate starts producers, also when those of the run are done by now,
\* or has some of them end.
UpdateRate(c, t) == \E more \in BOOLEAN :
  LET h == call[c].hudor IN
  /\ call[c].pc = "update"
  /\ hudors' = [hudors EXCEPT ![h].updated = @ \cup {t},
                              ![h].working = IF more THEN @ \cup {t} ELSE @]
  /\ call' = [call EXCEPT ![c] = Without(c, t)]
  /\ UNCHANGED <<sess, logVars, config, hudor, mix, calls, historyVars>>

\* The producers of a task are done.
FinishTask(h, t) ==
  /\ t \in hudors[h].working
  /\ hudors' = [hudors EXCEPT ![h].working = @ \ {t}]
  /\ UNCHANGED <<sess, logVars, config, hudor, mix, call, calls, historyVars>>

\* The deleter removes the name that a run has announced: when its producers
\* are done, or earlier when there are fewer reports to wait for since an update
\* or those of another run of the task are taken for its own.
ForgetTask(h, t) ==
  /\ t \in hudors[h].active
  /\ t \in hudors[h].working => t \in hudors[h].updated \cup hudors[h].doubled
  /\ hudors' = [hudors EXCEPT ![h].active = @ \ {t}]
  /\ UNCHANGED <<sess, logVars, config, hudor, mix, call, calls, historyVars>>

\* getSession, getActiveTasks and getResults return without a Hudor, or find one
\* ...
BeginRead(c, route) ==
  /\ S.hudor # 0
  /\ Begin(c, route, "use", Missing, {})

\* ... and read the session again for its active tasks.
Use(c) ==
  LET T == IF call[c].route = "getresults" THEN H.active ELSE {}
  IN  UseHudor(c, "use", IF T = {} THEN NoCall
                         ELSE [call[c] EXCEPT !.pc = "results", !.tasks = T])

\* getResults looks each of them up, in the Hudor of that moment.
ResultOf(c, t) ==
  /\ call[c].pc = "results" /\ t \in call[c].tasks
  /\ IF S.hudor # 0 /\ t \notin H.tasks THEN Panic(c, "task") ELSE UseHudor(c, "results", Without(c, t))

Tasks(c) ==
  \/ \E T \in SUBSET Task, route \in TaskRoutes : BeginTasks(c, route, T)
  \/ NextTask(c)
  \/ \E t \in call[c].doing : StartTask(c, t) \/ Stopped(c, t) \/ UpdateRate(c, t)
  \/ \E route \in {"getsession", "getresults"} : BeginRead(c, route)
  \/ Use(c)
  \/ \E t \in Task : ResultOf(c, t)

-----------------------------------------------------------------------------
(* reset *)

BeginReset(c) ==
  Begin(c, "reset", IF S.hudor = 0 THEN "resetFile" ELSE "active", Missing, {})

\* Mutant of TestActive: the Hudor is dropped as it is.
TestActiveNever(c) == UseHudor(c, "active", [call[c] EXCEPT !.pc = "resetFile"])

TestActive(c) ==
  UseHudor(c, "active", [call[c] EXCEPT !.pc = IF H.active = {} THEN "resetFile" ELSE "stopAll"])

\* StopAllTasks sets off in the Hudor of this moment ...
StopAll(c) == UseHudor(c, "stopAll", [call[c] EXCEPT !.pc = "stopping", !.hudor = S.hudor])

\* ... waits for the producers of its active tasks; then Close, in the Hudor of
\* that moment, ends the executor ...
CloseHudor(c) ==
  /\ call[c].pc = "stopping"
  /\ hudors[call[c].hudor].active \cap hudors[call[c].hudor].working = {}
  /\ IF S.hudor = 0 THEN Panic(c, "hudor")
     ELSE /\ call' = [call EXCEPT ![c].pc = "closing", ![c].hudor = S.hudor]
          /\ hudors' = Closed(S.hudor)
          /\ UNCHANGED <<sess, logVars, config, hudor, mix, calls, historyVars>>

\* ... and waits for all producers.  Remove, create and use stdout.log.
ResetFile(c) ==
  /\ \/ Goto(c, "resetFile", "resetSession")
     \/ /\ Goto(c, "closing", "resetSession")
        /\ hudors[call[c].hudor].working = {}
  /\ file' = Append(file, Created(TRUE))
  /\ UNCHANGED <<sess, tails, tailObj, readers, hudorVars, calls, historyVars>>

ResetSession(c) ==
  /\ Return(c, "resetSession")
  /\ sess' = Append(sess, EmptySession)
  /\ SessionOnly

Reset(c) ==
  \/ BeginReset(c) \/ TestActive(c)
  \/ StopAll(c) \/ CloseHudor(c)
  \/ ResetFile(c) \/ ResetSession(c)

-----------------------------------------------------------------------------
(* logs *)

BeginLogs(c) ==
  Begin(c, "logs", "test", Missing, {})

\* Mutant of TestLine: one line too many.
TestLineOffByOne(c) ==
  /\ Goto(c, "test", IF call[c].i < PageSize /\ Len(S.output) >= call[c].i + S.offset
                       THEN "take" ELSE "advance")
  /\ CallOnly

TestLine(c) ==
  /\ Goto(c, "test", IF call[c].i < PageSize /\ Len(S.output) > call[c].i + S.offset
                       THEN "take" ELSE "advance")
  /\ CallOnly

\* Mutant of TakeLine: the lines of the page are not counted.
TakeLineUncounted(c) ==
  LET n == call[c].i + S.offset + 1 IN
  /\ call[c].pc = "take"
  /\ IF n > Len(S.output) THEN Panic(c, "line")
     ELSE call' = [call EXCEPT ![c].pc = "test", ![c].page = Append(@, S.output[n])] /\ CallOnly

TakeLine(c) ==
  LET n == call[c].i + S.offset + 1 IN
  /\ call[c].pc = "take"
  /\ IF n > Len(S.output) THEN Panic(c, "line")
     ELSE /\ call' = [call EXCEPT ![c].pc = "test", ![c].i = @ + 1,
                                  ![c].page = Append(@, S.output[n])]
          /\ CallOnly

ReadOffset(c) ==
  /\ call[c].pc = "advance"
  /\ call' = [call EXCEPT ![c].pc = "return", ![c].session = session, ![c].offset = S.offset]
  /\ CallOnly

\* Mutant of StoreOffset: the offset advances with full pages only.
StoreOffsetOfFullPage(c) ==
  /\ Return(c, "return")
  /\ sess' = [sess EXCEPT ![call[c].session].offset =
                            IF call[c].i = PageSize THEN call[c].offset + call[c].i ELSE @,
                          ![call[c].session].shown = @ \o call[c].page]
  /\ SessionOnly

\* The answer is sent; shown is what the session's answers held so far.
StoreOffset(c) ==
  /\ Return(c, "return")
  /\ sess' = [sess EXCEPT ![call[c].session].offset = call[c].offset + call[c].i,
                          ![call[c].session].shown = @ \o call[c].page]
  /\ SessionOnly

Logs(c) == BeginLogs(c) \/ TestLine(c) \/ TakeLine(c) \/ ReadOffset(c) \/ StoreOffset(c)

-----------------------------------------------------------------------------
Next ==
  \/ LogLine
  \/ \E k \in DOMAIN tails : TailTurns(k)
  \/ \E r \in DOMAIN readers : Reader(r)
  \/ \E c \in Client : Load(c) \/ Tasks(c) \/ Reset(c) \/ Logs(c)
  \/ \E h \in DOMAIN hudors, t \in Task : FinishTask(h, t) \/ ForgetTask(h, t)

Spec == Init /\ [][Next]_vars

-----------------------------------------------------------------------------
(* What the server guarantees *)

Line == Nat \X Nat
Points == {"idle", "profile", "create", "close", "store", "list", "tasks", "next", "start",
           "wait", "update", "use", "results", "active", "stopAll", "stopping", "closing", "resetFile", "resetSession",
           "test", "take", "advance", "return"}

SessionTypeOK ==
  /\ sess \in Seq([hudor : 0 .. Len(hudors), profile : Profiles, tasks : SUBSET Task,
                   output : Seq(Line), offset : Nat, shown : Seq(Line)])
  /\ file \in Seq([lines : Nat, new : BOOLEAN])
  /\ tails \in Seq([file : DOMAIN file, at : Nat, ended : BOOLEAN])
  /\ tailObj \in 0 .. Len(tails)
  /\ readers \in Seq([pc : {"start", "lines", "append", "ended"}, tail : 0 .. Len(tails),
                      line : Line, session : 0 .. Len(sess), output : Seq(Line)])
  /\ config \in Profiles /\ hudor \in 0 .. Len(hudors)
  /\ hudors \in Seq([open : BOOLEAN, tasks : SUBSET Task, active : SUBSET Task,
                     working : SUBSET Task, updated : SUBSET Task, doubled : SUBSET Task])
  /\ \A c \in Client :
       /\ call[c].pc \in Points
       /\ call[c].tasks \subseteq Task /\ call[c].doing \subseteq call[c].tasks
       /\ call[c].hudor \in 0 .. Len(hudors) /\ Len(call[c].page) \in 0 .. PageSize
  /\ panicked \subseteq (Loads \cup TaskRoutes \cup {"getsession", "getresults", "reset", "logs"})
                   \X {"hudor", "profile", "rate", "task", "line"}

Before(l, m) == l[1] < m[1] \/ (l[1] = m[1] /\ l[2] < m[2])
InOrder(lines) == \A i, j \in DOMAIN lines : i < j => Before(lines[i], lines[j])

\* As long as one goroutine at a time appends, a session gets its lines in the
\* order in which they were written and none twice, over loads and resets and
\* from a goroutine an earlier session left behind; and the pages add up to
\* those lines when no two requests for /logs, and no reset, get in the way.
PageOrder ==
  ~crowded => InOrder(S.output) /\ (~overlapped => IsPrefix(S.shown, S.output))

\* When calls do not get in each other's way a handler panics for four reasons:
\* it runs, stops or updates tasks of a session that has no Hudor; the new rate
\* has no ticker; lib.Init cannot make the pools of the profile; or /logs reads
\* lines that goroutines have overwritten.  The handlers that look for a Hudor
\* first, and loads and resets that do their own part of the work, find it still
\* there, and an active task among its tasks.
PanicCause ==
  ~overlapped => \A p \in panicked :
    \/ p[1] \in TaskRoutes /\ p[2] = "hudor"
    \/ p = <<"updatetaskrate", "rate">>
    \/ p[1] \in Loads /\ p[2] = "profile"
    \/ p = <<"logs", "line">> /\ crowded

\* Nothing works out of reach: a task that has producers belongs to the Hudor
\* that the session's handlers can stop, also in the middle of a run, a load or
\* a reset, unless calls got in each other's way or the rate of the task was
\* updated, after which producers may outlive the name and with it the test of
\* a reset.
InReach ==
  ~overlapped => \A h \in DOMAIN hudors :
    hudors[h].working \subseteq hudors[h].updated \/ h = S.hudor
=============================================================================
