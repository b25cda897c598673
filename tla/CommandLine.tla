---------------------------- MODULE CommandLine ----------------------------
(***************************************************************************)
(* The command line program (main.go): main starts the pool of each task   *)
(* of the profile and waits until their producers are done, while three    *)
(* watchers follow the profile file and change the running tasks.          *)
(*                                                                         *)
(* All pools announce their progress on one unbuffered channel.  The tasks *)
(* are structs in a map: a watcher copies one, changes the field it looks  *)
(* after and stores the whole copy back.  A pool is reduced to its run     *)
(* goroutine and to the numbers of its producers (Producers has their      *)
(* steps, TaskControl the protocol by which a lower rate ends some).       *)
(***************************************************************************)
EXTENDS TaskSettings, Sequences, FiniteSets

CONSTANTS
  Settings,    \* what a profile may say about an enabled task
  Profiles,    \* the profiles the program may be started with
  MaxChanges,  \* BOUND: how often the file changes, by its number of tasks
  Watching,    \* BOUND: which watchers get events; a run has one of these sets
  DeleteCap,   \* capacity of TaskDeleteChannel (100)
  DestroyCap   \* capacity of DestroyChannel (20000)

Fields == {"rate", "concurrency", "thinkTime"}

ASSUME CommandLineConstants ==
  /\ Settings \subseteq [rate : Nat \ {0}, concurrency : Nat, thinkTime : Nat]
  /\ Profiles \subseteq Seq(Settings)
  /\ \A q \in Profiles : MaxChanges[Len(q)] \in Nat
  /\ Watching \subseteq SUBSET Fields
  /\ DeleteCap \in Nat /\ DestroyCap \in Nat

VARIABLES
  \* the file; an editor truncates it before it writes the new contents
  profile, truncated, changes,
  \* main: its point, the tasks of the profile it has read, the next of them
  mainPc, tasks, next,
  taskObjectMap,  \* from the tasks in the map to their structs
  pool,           \* PoolObjectMap: the pools, their run goroutines and producers
  wg, deleted,    \* the wait group; names in TaskDeleteChannel, which nobody reads
  pending,        \* file events a watcher has not taken yet
  watcher,        \* per watcher: point, tasks to look at, task, copy, new value
  crashed,        \* a watcher panicked
  \* history: main took the trigger of another pool than the one it started
  \* last; a watcher stored over what another one had stored since it copied;
  \* a change of the profile met a watcher before every task was in its map;
  \* the watcher of the concurrency found none
  stolen, lost, missed, implicit

fileVars == <<profile, truncated, changes>>
mainVars == <<mainPc, tasks, next>>
poolVars == <<pool, wg, deleted>>
watchVars == <<pending, watcher>>
historyVars == <<stolen, lost, missed, implicit>>
vars == <<fileVars, mainVars, taskObjectMap, poolVars, watchVars, crashed, historyVars>>

\* gjson finds nothing in an empty file.
Nothing == [rate |-> 0, concurrency |-> 0, thinkTime |-> 0]
Contents(k) == IF truncated THEN Nothing ELSE profile[k]

\* A watcher between two tasks, or two events; its local variables are reset.
Look(S) == [pc |-> IF S = {} THEN "wait" ELSE "next", todo |-> S, task |-> 0,
            copy |-> Nothing, new |-> 0]

\* Mutant of Resume: the watcher ends after its first task.
ResumeNever(w) == [Look(watcher[w].todo) EXCEPT !.pc = "stuck"]

Resume(w) == Look(watcher[w].todo)

Watchers == DOMAIN watcher

NewPool(object) ==
  [pc |-> "spawn", rate |-> object.rate, concurrency |-> GetConcurrency(object),
   thinkTime |-> object.thinkTime, spawned |-> 0, count |-> 0,
   working |-> 0, reporting |-> 0, pills |-> 0, strickers |-> 0, destroy |-> 0]

Init ==
  /\ profile \in Profiles /\ truncated = FALSE /\ changes = 0
  /\ mainPc = "config" /\ tasks = <<>> /\ next = 1
  /\ taskObjectMap = <<>> /\ pool = <<>> /\ wg = 0 /\ deleted = 0
  /\ \E W \in Watching : pending = [w \in W |-> 0] /\ watcher = [w \in W |-> Look({})]
  /\ crashed = FALSE
  /\ stolen = FALSE /\ lost = FALSE /\ missed = FALSE /\ implicit = FALSE

Running == ~crashed /\ mainPc \notin {"exit", "failed"}

-----------------------------------------------------------------------------
(* The file.  The watchers see every change; that one of them begins to watch *)
(* only after an early change is left out, as it is like taking the event     *)
(* before there are tasks.                                                    *)

Notify ==
  /\ changes' = changes + 1
  /\ pending' = [w \in Watchers |-> pending[w] + 1]
  /\ UNCHANGED <<mainVars, taskObjectMap, poolVars, watcher, crashed, historyVars>>

Save == \E k \in DOMAIN profile, s \in Settings : profile' = [profile EXCEPT ![k] = s]

\* An editor that writes in place, and one that truncates the file first.
Rewrite ==
  /\ Running /\ ~truncated /\ changes < MaxChanges[Len(profile)]
  /\ Save /\ Notify
  /\ UNCHANGED truncated

Truncate ==
  /\ Running /\ ~truncated /\ changes + 1 < MaxChanges[Len(profile)]
  /\ truncated' = TRUE /\ Notify
  /\ UNCHANGED profile

Write ==
  /\ Running /\ truncated
  /\ truncated' = FALSE /\ Save /\ Notify

-----------------------------------------------------------------------------
(* main *)

MainGoto(from, to) == Running /\ mainPc = from /\ mainPc' = to

\* ConfigManager; an empty file is not JSON.
ReadConfig ==
  /\ \/ MainGoto("config", "store") /\ ~truncated /\ tasks' = profile
     \/ MainGoto("config", "failed") /\ truncated /\ UNCHANGED tasks
  /\ UNCHANGED <<fileVars, next, taskObjectMap, poolVars, watchVars, crashed, historyVars>>

\* A watcher that iterates over the map may or may not meet the new entry.
StoreTask ==
  /\ next <= Len(tasks)
  /\ MainGoto("store", "launch")
  /\ taskObjectMap' = Append(taskObjectMap, tasks[next])
  /\ \E seeing \in SUBSET {w \in Watchers : watcher[w].pc \notin {"wait", "stuck"}} :
       watcher' = [w \in Watchers |->
         IF w \in seeing THEN [watcher[w] EXCEPT !.todo = @ \cup {next}] ELSE watcher[w]]
  /\ UNCHANGED <<fileVars, tasks, next, poolVars, pending, crashed, historyVars>>

\* LoadCSVData fails: the program exits with code 100.
LoadFails ==
  /\ next <= Len(tasks)
  /\ MainGoto("store", "failed")
  /\ UNCHANGED <<fileVars, tasks, next, taskObjectMap, poolVars, watchVars, crashed, historyVars>>

Launch ==
  /\ MainGoto("launch", "trigger")
  /\ pool' = Append(pool, NewPool(tasks[next]))
  /\ UNCHANGED <<fileVars, tasks, next, taskObjectMap, wg, deleted, watchVars, crashed,
                 historyVars>>

\* <-IsTriggered meets the send of any pool.
Triggered(k) ==
  /\ MainGoto("trigger", "store")
  /\ next' = next + 1
  /\ pool[k].pc = "trigger" /\ pool' = [pool EXCEPT ![k].pc = "check"]
  /\ stolen' = (stolen \/ k # next)
  /\ UNCHANGED <<fileVars, tasks, taskObjectMap, wg, deleted, watchVars, crashed, lost, missed, implicit>>

\* Mutant of Wait: the last task is not started.
WaitEarly ==
  /\ next >= Len(tasks)
  /\ MainGoto("store", "wait")
  /\ UNCHANGED <<fileVars, tasks, next, taskObjectMap, poolVars, watchVars, crashed, historyVars>>

Wait ==
  /\ next > Len(tasks)
  /\ MainGoto("store", "wait")
  /\ UNCHANGED <<fileVars, tasks, next, taskObjectMap, poolVars, watchVars, crashed, historyVars>>

\* main returns, and every goroutine of the program with it.
Exit ==
  /\ MainGoto("wait", "exit")
  /\ wg = 0
  /\ UNCHANGED <<fileVars, tasks, next, taskObjectMap, poolVars, watchVars, crashed, historyVars>>

Main ==
  \/ ReadConfig \/ StoreTask \/ Launch \/ Wait \/ Exit
  \/ \E k \in DOMAIN pool : Triggered(k)

-----------------------------------------------------------------------------
(* A pool: its run goroutine and its producers *)

othersThanPools == <<fileVars, mainVars, taskObjectMap, watchVars, crashed, historyVars>>

SpawnProducer(k) ==
  /\ pool[k].pc = "spawn" /\ pool[k].spawned < GetTaskGeneratorSpawnCount(pool[k].rate)
  /\ pool' = [pool EXCEPT ![k].spawned = @ + 1, ![k].working = @ + 1]
  /\ wg' = wg + 1
  /\ UNCHANGED deleted

\* The Strickers follow the last producer.
SpawnStrickers(k) ==
  /\ pool[k].pc = "spawn" /\ pool[k].spawned >= GetTaskGeneratorSpawnCount(pool[k].rate)
  /\ pool' = [pool EXCEPT ![k].pc = "trigger", ![k].strickers = @ + pool[k].concurrency]
  /\ UNCHANGED <<wg, deleted>>

AnnounceEnd(k) ==
  /\ pool[k].pc = "check" /\ pool[k].count >= GetTaskGeneratorSpawnCount(pool[k].rate)
  /\ deleted < DeleteCap /\ deleted' = deleted + 1
  /\ pool' = [pool EXCEPT ![k].pc = "ended"]
  /\ UNCHANGED wg

\* Mutant of ReceiveDone: no Done on the wait group of the program.
ReceiveDoneUncounted(k) ==
  /\ pool[k].pc = "check" /\ pool[k].count < GetTaskGeneratorSpawnCount(pool[k].rate)
  /\ pool[k].reporting > 0
  /\ pool' = [pool EXCEPT ![k].pc = "trigger", ![k].count = @ + 1, ![k].reporting = @ - 1]
  /\ UNCHANGED <<wg, deleted>>

ReceiveDone(k) ==
  /\ pool[k].pc = "check" /\ pool[k].count < GetTaskGeneratorSpawnCount(pool[k].rate)
  /\ pool[k].reporting > 0
  /\ pool' = [pool EXCEPT ![k].pc = "trigger", ![k].count = @ + 1, ![k].reporting = @ - 1]
  /\ wg' = wg - 1
  /\ UNCHANGED deleted

\* A producer passes its deadline and reports.
FinishWork(k) ==
  /\ pool[k].working > 0
  /\ pool' = [pool EXCEPT ![k].working = @ - 1, ![k].reporting = @ + 1]
  /\ UNCHANGED <<wg, deleted>>

\* A producer takes a pill that ends it.
EndPill(k) ==
  /\ pool[k].working > 0 /\ pool[k].pills > 0
  /\ pool' = [pool EXCEPT ![k].working = @ - 1, ![k].pills = @ - 1]
  /\ wg' = wg - 1
  /\ UNCHANGED deleted

RunStep(k) == SpawnProducer(k) \/ SpawnStrickers(k) \/ AnnounceEnd(k) \/ ReceiveDone(k)

PoolStep(k) ==
  /\ Running
  /\ RunStep(k) \/ FinishWork(k) \/ EndPill(k)
  /\ UNCHANGED othersThanPools

-----------------------------------------------------------------------------
(* Watchers *)

WatcherGoto(w, from, to) ==
  Running /\ watcher[w].pc = from /\ watcher' = [watcher EXCEPT ![w].pc = to]

\* An event; the tasks in the map at this moment are looked at.
TakeEvent(w) ==
  /\ Running /\ watcher[w].pc = "wait" /\ pending[w] > 0
  /\ pending' = [pending EXCEPT ![w] = @ - 1]
  /\ watcher' = [watcher EXCEPT ![w] = Look(DOMAIN taskObjectMap)]
  /\ missed' = (missed \/ (mainPc # "config" /\ Len(taskObjectMap) < Len(tasks)))
  /\ UNCHANGED <<fileVars, mainVars, taskObjectMap, poolVars, crashed, stolen, lost, implicit>>

CopyTask(w) ==
  /\ Running /\ watcher[w].pc = "next"
  /\ \E k \in watcher[w].todo :
       watcher' = [watcher EXCEPT ![w] = [watcher[w] EXCEPT
         !.pc = "read", !.todo = watcher[w].todo \ {k}, !.task = k, !.copy = taskObjectMap[k]]]
  /\ UNCHANGED <<fileVars, mainVars, taskObjectMap, poolVars, pending, crashed, historyVars>>

\* The rate watcher goes on only if the rate in its copy is another one.
ReadProfile(w) ==
  LET new == Contents(watcher[w].task)[w]
      same == w = "rate" /\ watcher[w].copy.rate = new
  IN  /\ Running /\ watcher[w].pc = "read"
      /\ watcher' = [watcher EXCEPT ![w] = IF same THEN Resume(w)
                                            ELSE [@ EXCEPT !.pc = "apply", !.new = new]]
      /\ implicit' = (implicit \/ (w = "concurrency" /\ 0 \in {new, watcher[w].copy.concurrency}))
      /\ UNCHANGED <<fileVars, mainVars, taskObjectMap, poolVars, pending, crashed, stolen,
                     lost, missed>>

\* GetRateLimiter divides by the rate; a task enters its map before its pool.
Panics(w) == (w = "rate" /\ watcher[w].new = 0) \/ watcher[w].task \notin DOMAIN pool

Panic(w) ==
  /\ Running /\ watcher[w].pc = "apply" /\ Panics(w)
  /\ crashed' = TRUE
  /\ UNCHANGED <<fileVars, mainVars, taskObjectMap, poolVars, watchVars, historyVars>>

\* Mutant of ApplyRate: no branch for more producers.
ApplyRateUnsigned ==
  LET k == watcher["rate"].task
      new == watcher["rate"].new
      more == GetTaskGeneratorSpawnCount(new) - GetTaskGeneratorSpawnCount(pool[k].rate)
  IN  /\ WatcherGoto("rate", "apply", "store") /\ ~Panics("rate")
      /\ pool' = [pool EXCEPT ![k].rate = new, ![k].pills = @ - more]
      /\ UNCHANGED <<fileVars, mainVars, taskObjectMap, wg, deleted, pending, crashed,
                     historyVars>>

\* More producers at once, or pills for those that are too many.
ApplyRate ==
  LET k == watcher["rate"].task
      new == watcher["rate"].new
      more == GetTaskGeneratorSpawnCount(new) - GetTaskGeneratorSpawnCount(pool[k].rate)
      added == IF more > 0 THEN more ELSE 0
  IN  /\ WatcherGoto("rate", "apply", "store") /\ ~Panics("rate")
      /\ pool' = [pool EXCEPT ![k].rate = new, ![k].working = @ + added,
                              ![k].pills = @ + added - more]
      /\ wg' = wg + added
      /\ UNCHANGED <<fileVars, mainVars, taskObjectMap, deleted, pending, crashed, historyVars>>

\* Mutant of ApplyConcurrency: one Stricker too few.
ApplyConcurrencyShort ==
  LET me == watcher["concurrency"]
      k == me.task
      more == me.new - GetConcurrency(me.copy)
      fits == pool[k].destroy - more <= DestroyCap
  IN  /\ Running /\ me.pc = "apply" /\ ~Panics("concurrency")
      /\ watcher' = [watcher EXCEPT !["concurrency"] =
           IF more = 0 THEN Resume("concurrency")
           ELSE [@ EXCEPT !.pc = IF more > 0 \/ fits THEN "store" ELSE "stuck"]]
      /\ pool' = [pool EXCEPT ![k].strickers = IF more > 0 THEN @ + more - 1 ELSE @,
                              ![k].destroy = IF more > 0 THEN @
                                             ELSE IF fits THEN @ - more ELSE DestroyCap]
      /\ UNCHANGED <<fileVars, mainVars, taskObjectMap, wg, deleted, pending, crashed,
                     historyVars>>

\* More Strickers, or as many values in DestroyChannel as there are too many,
\* which no Stricker reads: the watcher never returns when they do not fit.
ApplyConcurrency ==
  LET me == watcher["concurrency"]
      k == me.task
      more == me.new - GetConcurrency(me.copy)
      fits == pool[k].destroy - more <= DestroyCap
  IN  /\ Running /\ me.pc = "apply" /\ ~Panics("concurrency")
      /\ watcher' = [watcher EXCEPT !["concurrency"] =
           IF more = 0 THEN Resume("concurrency")
           ELSE [@ EXCEPT !.pc = IF more > 0 \/ fits THEN "store" ELSE "stuck"]]
      /\ pool' = [pool EXCEPT ![k].strickers = IF more > 0 THEN @ + more ELSE @,
                              ![k].destroy = IF more > 0 THEN @
                                             ELSE IF fits THEN @ - more ELSE DestroyCap]
      /\ UNCHANGED <<fileVars, mainVars, taskObjectMap, wg, deleted, pending, crashed,
                     historyVars>>

\* The whole copy, with the watcher's own field changed.
StoreCopy(w) ==
  LET k == watcher[w].task IN
  /\ taskObjectMap' = [taskObjectMap EXCEPT ![k] = [watcher[w].copy EXCEPT ![w] = watcher[w].new]]
  /\ lost' = (lost \/ taskObjectMap[k] # watcher[w].copy)
  /\ UNCHANGED <<fileVars, mainVars, poolVars, pending, crashed, stolen, missed, implicit>>

Store(w) ==
  /\ Running /\ watcher[w].pc = "store" /\ watcher' = [watcher EXCEPT ![w] = Resume(w)]
  /\ StoreCopy(w)

\* The watcher of think times stores its copy before it compares.
StoreThinkTime ==
  /\ WatcherGoto("thinkTime", "apply", "adjust") /\ ~Panics("thinkTime")
  /\ StoreCopy("thinkTime")

\* Mutant of ApplyThinkTime: both readings are made of the changed copy.
ApplyThinkTimeCompared ==
  /\ Running /\ watcher["thinkTime"].pc = "adjust"
  /\ watcher' = [watcher EXCEPT !["thinkTime"] = Resume("thinkTime")]
  /\ UNCHANGED <<fileVars, mainVars, taskObjectMap, poolVars, pending, crashed, historyVars>>

\* The pool's times change only when they differ from those of the copy.
ApplyThinkTime ==
  LET me == watcher["thinkTime"]
  IN  /\ Running /\ me.pc = "adjust"
      /\ watcher' = [watcher EXCEPT !["thinkTime"] = Resume("thinkTime")]
      /\ pool' = IF me.new = me.copy.thinkTime THEN pool
                 ELSE [pool EXCEPT ![me.task].thinkTime = me.new]
      /\ UNCHANGED <<fileVars, mainVars, taskObjectMap, wg, deleted, pending, crashed,
                     historyVars>>

Watch(w) ==
  \/ TakeEvent(w) \/ CopyTask(w) \/ ReadProfile(w)
  \/ Panic(w) \/ Store(w)
  \/ w = "rate" /\ ApplyRate
  \/ w = "concurrency" /\ ApplyConcurrency
  \/ w = "thinkTime" /\ (StoreThinkTime \/ ApplyThinkTime)

-----------------------------------------------------------------------------
Next ==
  \/ Rewrite \/ Truncate \/ Write
  \/ Main \/ LoadFails
  \/ \E k \in DOMAIN pool : PoolStep(k)
  \/ \E w \in Watchers : Watch(w)

\* Goroutines are scheduled, deadlines pass, an editor that truncated the file
\* writes it.  Nobody has to edit the profile.
Fairness ==
  /\ WF_vars(Main) /\ WF_vars(Write)
  /\ \A w \in Fields : WF_vars(w \in Watchers /\ Watch(w))
  /\ \A k \in UNION {DOMAIN q : q \in Profiles} :
       /\ WF_vars(k \in DOMAIN pool /\ Running /\ RunStep(k) /\ UNCHANGED othersThanPools)
       /\ WF_vars(k \in DOMAIN pool /\ Running /\ FinishWork(k) /\ UNCHANGED othersThanPools)

Spec == Init /\ [][Next]_vars /\ Fairness

-----------------------------------------------------------------------------
(* What the program guarantees *)

Object == [rate : Nat, concurrency : Nat, thinkTime : Nat]

\* Every state is well typed; the wait group of the program never falls below
\* zero, at which Go would panic, and DestroyChannel keeps its capacity.
CommandLineTypeOK ==
  /\ profile \in Profiles \cup Seq(Settings) /\ truncated \in BOOLEAN /\ changes \in Nat
  /\ mainPc \in {"config", "store", "launch", "trigger", "wait", "exit", "failed"}
  /\ tasks \in Seq(Settings) /\ next \in Nat
  /\ taskObjectMap \in Seq(Object)
  /\ pool \in Seq([pc : {"spawn", "trigger", "check", "ended"}, rate : Nat, concurrency : Nat,
                   thinkTime : Nat, spawned : Nat, count : Nat, working : Nat,
                   reporting : Nat, pills : Nat, strickers : Nat, destroy : 0 .. DestroyCap])
  /\ wg \in Nat /\ deleted \in 0 .. DeleteCap
  /\ pending \in [Watchers -> Nat]
  /\ watcher \in [Watchers -> [pc : {"wait", "next", "read", "apply", "store", "adjust", "stuck"},
                               todo : SUBSET Nat, task : Nat, copy : Object, new : Nat]]
  /\ {crashed, stolen, lost, missed, implicit} \subseteq BOOLEAN

\* The program ends only when every task has been run and no producer is at
\* work, unless main took the trigger of one pool for that of another.
ExitComplete ==
  mainPc = "exit" /\ ~stolen =>
    \A k \in DOMAIN tasks :
      k \in DOMAIN pool /\ pool[k].spawned > 0 /\ pool[k].working + pool[k].reporting = 0

\* A run goroutine at a trigger that main, which waits for the producers, will
\* not take, while producers have not reported to it: neither ever goes on.
WaitForEachOther(k) ==
  /\ mainPc = "wait" /\ pool[k].pc = "trigger"
  /\ pool[k].working + pool[k].reporting > 0

\* The program ends after its tasks, unless a watcher panics or main and a pool
\* wait for each other.  They do so for three reasons only, each of which hangs
\* the real program as well: the pool has a second producer and sends another
\* trigger after the first report, main took the trigger of another pool for
\* that of the one it started, or an edit of the profile changed the producers.
ProgramEnds ==
  mainPc = "wait" ~>
    \/ mainPc = "exit" \/ crashed
    \/ \E k \in DOMAIN pool :
         /\ WaitForEachOther(k)
         /\ GetTaskGeneratorSpawnCount(pool[k].rate) > 1 \/ stolen \/ changes > 0

Settled == \A w \in Watchers : watcher[w].pc = "wait" /\ pending[w] = 0

AtRest == mainPc = "wait" /\ ~crashed /\ ~truncated /\ Settled

\* When the watchers have dealt with every event, the pools work with the
\* rate and the think time of the profile; only a change that met no task and
\* a watcher that overwrote what another one stored leave them behind.
FollowsProfile ==
  AtRest /\ ~lost /\ ~missed =>
    \A k \in DOMAIN pool :
      /\ "rate" \in Watchers => pool[k].rate = profile[k].rate
      /\ "thinkTime" \in Watchers => pool[k].thinkTime = profile[k].thinkTime

\* A pool has the consumers its profile asks for, even when stores are lost,
\* as long as profile and task always named a concurrency.
EnoughStrickers ==
  AtRest /\ ~missed /\ ~implicit /\ "concurrency" \in Watchers =>
    \A k \in DOMAIN pool :
      pool[k].pc # "spawn" => pool[k].strickers >= profile[k].concurrency

\* Every edit is dealt with, unless the watcher of the concurrency waits at a
\* full DestroyChannel for ever.
EditsSettle ==
  [](changes > 0 => <>(Settled \/ ~Running \/ \E k \in DOMAIN pool : pool[k].destroy = DestroyCap))
=============================================================================
