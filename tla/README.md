# A TLA+ model of goranger

goranger ("Hudor" in the code) generates HTTP load.  A profile lists *tasks*,
each with a rate, a duration and a request; a task's *pool* of goroutines sends
that request at that rate until the duration is over or somebody stops it.
Tasks are driven from the command line (`main.go`) or through a web server
(`server/server.go`) on top of a library (`lib/main.go`).

This directory holds TLA+ modules for the parts of it where goroutines meet,
configurations that check them with TLC on small instances, and theorems that
TLAPS checks for all values of the constants.  `PROJECT.json` maps every
definition to the lines it models.  Paths below are relative to `src/`.

There is no test in the repository and little documentation, so the reference
for everything here is the code; the comments, error texts and the README of
the repository say what is intended where they say anything.

## Inventory

| Component | State | Operations | Hard because |
|---|---|---|---|
| Pool, `concurrency/workerPool.go` | rate, limiter, IsStopped, channels for tokens, reports, pills and triggers, wait group | `Run` (spawn and count producers), `TaskGenerator` (producer), `Stricker` (consumer), `SetRateLimiter`, `SetTaskRate`, `StartTask`, `StopTask` | all fields are shared without a lock; three bounded channels; two ways for a producer to end; the count to wait for is read anew from a rate that changes |
| Hudor, `lib/main.go` | maps of tasks, pools and active tasks; the package's three channels and current Hudor | `Init`, `Run`, `UpdateTaskRate`, `StopTask`, `StopAllTasks`, `WaitFor...`, `Close`, executor and deleter goroutines | handlers, executor, deleter and pools interleave; structs are copied out of a map, changed and stored back; channels are replaced by each `Init` |
| Server, `server/server.go` | session: Hudor, profile, task list, log lines and offset | one handler per route; goroutines that follow `stdout.log` | gin runs handlers concurrently; nothing is locked; any order of calls is legal; each statement reads the package variable `session` anew |
| Command line, `main.go` | the same maps as Hudor, one trigger channel | start every task, wait; three watchers that follow the profile file | one unbuffered channel for all pools; watchers overwrite each other's copies |
| Request data, `csv/`, `actions/`, `configparsers/structs.go` | one slice or channel of lines per file | load, read serially or at random, replace placeholders | loading is test-then-set; the channel is shared by all tasks and readers; index arithmetic |
| Settings, `configparsers/structs.go`, `config/` | profile and environment | spawn counts, concurrency, think times | zero, absent and malformed values |
| HTTP client, `request/httpClient.go` | fasthttp's pools of requests and responses; a task's counts of answers | `MakeHTTPRequest`, `IncrementSuccess`, `IncrementError`, the reset in `Run` | a response judged, given back and reused by another request; goroutines that count under a lock which the reset does not take |
| Redis helpers, `redis/` | one bounded connection pool per task and rate; the keys of a database all tasks share | 13 getters and setters | connections taken within connections from a pool that never waits; several commands per call; replies that are nil or of another type |
| Metrics, `genericUtilities/metricsCollector.go` | counters nobody registers | `Increment` | a nil counter in a goroutine of its own |
| gRPC, environment, web page | one connection; constants; none | | plain I/O |

**How they interact.**  A handler calls `Hudor.Run`, which puts the name of the
task into `taskChannel` and waits for a token in `doneTaskChannel`.  The
executor takes the name, enters it in `ActiveTaskMap`, starts `Pool.Run` in a
goroutine, waits for its first value in `isTriggered` and answers the token.
`Pool.Run` spawns producers (each waits for the next before the loop goes on),
then Strickers, then counts reports on `donechannel`; when it has as many as
the rate of the moment calls for, it puts the name into `deleteTaskChannel` and
the deleter takes it out of `ActiveTaskMap`.  Producers tick, put a token into
`channel`, and look at IsStopped, the limiter and the rate; Strickers take
tokens and start requests: each calls an action, which builds and sends a
request, has its answer counted, and may call Redis helpers, all out of pools
that the Strickers of a task share.  `UpdateTaskRate` replaces limiter and rate under
their hands, spawns producers, or sends *pills* (`ProducerDestroyChannel`):
`false` for each producer to keep and `true` for each one to end; it also gives
the task another pool of Redis connections.

**What makes each correct.**  Pool: the wait group counts the live producers;
the end is announced once, after the last of them; a stop takes effect after
one more token; nobody waits for a message that is never sent.  Rate changes:
producers, reports and pills add up to the count the rate calls for; the copies
of the rate agree.  Hudor: a task runs once at a time; `Run` returns when its
own task has started; what works is listed as active; `Close` leaves nothing
behind; every call returns.  Server: the pages of `/logs` add up to the log; a
handler panics only for what it was asked or finds missing; what works can be
stopped through the session.  Command line: it ends after the last producer,
unless main and a pool wait for each other, and follows the profile.  Data: each line of a serial file is used once per
round and in order; a read always gets an answer.  Actions: every call returns;
each answer is counted once; a read finds what is there; what is set with a
lifetime gets one; only named failures end the program.

The file lists each hazard, at its line, under `hazards` in `PROJECT.json`,
with the properties that guard against it.

## Modules

| Module | Models | Kind |
|---|---|---|
| `TaskSettings` | number of producers for a rate, concurrency of a task | operators |
| `RunBarrier` | what a pool promises about one run | abstract specification |
| `Producers` | producers, the goroutine of `Pool.Run`, the wait group, StopTask | component, `Spec` |
| `WorkerPool` | `Producers` plus Strickers, tokens, triggers, the executor's end of `isTriggered` | composition, `PoolSpec` |
| `TaskControl` | `Producers` plus `Hudor.Run`, `UpdateTaskRate`, `StopTask`, `taskDelete` for one task | composition, `TaskSpec` |
| `HudorTasks` | several tasks and Hudors: `Init`, executor, deleter, `Run`, `StopTask`, `StopAllTasks`, `Close`, the server's handlers | component, `HudorSpec` |
| `CommandLine` | `main.go`: main, the pools it waits for, the watchers of the profile | component, `Spec` |
| `ServerSession` | the session of `server.go`: handlers that load, drive, read and reset it, `/logs`, the goroutines that follow the log | component, `Spec` |
| `TaskData` | files of lines, how they are parsed, how tasks load and read them, how a request is built | component, `Spec` |
| `Executors` | the goroutines that execute actions | constant |
| `RedisHelpers` | the helpers of `redis/`, their connections and the keys they work on | component |
| `Requests` | `MakeHTTPRequest`, the responses it reuses, the counting of answers, the metrics | component |
| `Actions` | `RedisHelpers` and `Requests` for the Strickers of one task | composition, `ActionsSpec` |
| `MCTaskControl`, `MCHudorTasks`, `MCCommandLine`, `MCServerSession`, `MCTaskData`, `MCActions` | instances, symmetry and bounds for TLC | |
| `ProducersProofs`, `WorkerPoolProofs`, `TaskControlProofs`, `HudorProofs`, `CommandLineProofs`, `SessionProofs`, `TaskDataProofs`, `ActionsProofs` | theorems and proofs | |

### Producers

A producer is a slot that a goroutine occupies while it runs (`pc[p] = "none"`
when free), so spawning picks any free slot.  Its program points are the reads
and writes of shared fields in `TaskGenerator`: `readLimiter`, `readCount`
(lines 161-162 and 183-184), `loop` (the condition at 164 and the new time at
165), `send` (166-167), `checkStop` (170), `checkLimiter` (173), `checkCount`
(174), `takePill` (175), `finish` (the send to `donechannel`, 188).  Time is
reduced to what the loop condition can tell: whether the time read last is past
the deadline, chosen freely at each read and when a producer is spawned (a
duration of 0 is over before the first token).  The limiter is reduced to whether the
one a producer remembers is still the pool's (`current`).  The run goroutine
has the points of `spawntaskGenerator` and `spawnRoutines`; a report on the
unbuffered `donechannel` is one joint step of both.  `tailed` is a history
variable: producers that queued a token after StopTask.

### WorkerPool

Adds the channel of tokens with a capacity, the Strickers counted per program
point (waiting for a token, for their request, about to test IsStopped, or
`stuck` with a request that waits for a line of a serial file that never comes,
`LineNeverComes`, which is `ReadEnds` seen from the pool) and the
`isTriggered` channel, of which the task executor reads exactly one value per
run.  The Stricker's branch on `DestroyChannel` (215-225) is guarded by
`p.concurrency != concurrency`, and no statement of the program assigns
`p.concurrency` after `CreateNewPool`, so it can never be taken.  Ramp-up and
think times delay Strickers but decide nothing; fairness covers them.  `sync`
and `endless` are settings of the task, chosen at the start: whether a Stricker
waits for its request, and a duration longer than anybody looks at.

### TaskControl

A client inside `UpdateTaskRate` is a process whose local variables are the
`u...` functions; one that is inside `StopTask` is `sPc`/`sRate`.  The rate has
three copies: the pool's (`rate`), the one in `TaskObjectMap` (`taskRate`) and
the one the limiter ticks at (`pace`).  `DestroyChannel` is the number of values
in it, because nobody reads it: a lowering puts as many there as the old rate,
and an update whose values do not fit stays in `stuck`.  `calls` are the calls
still to come, of each kind (`Budgets` bounds them).  History variables: `lowered` (an update called for fewer
producers), `raced` (a call overlapped another call, the first spawns or the end
of the run), `leftover` (a run began with producers or pills of the one
before).  They say under which circumstances a property holds: the code takes
no lock, and without them most of what follows is false.

### HudorTasks

`lib.Init` replaces three package variables; a Hudor and the channels made with
it share a number (`Generation`), so a goroutine that reads the variable again
after a later `Init` finds the later number.  A pool is reduced to what
`Producers` and `WorkerPool` establish: it starts, works, is finished, announces.
Each run of `Pool.Run` is an element of `launches`.  `overlapped` and `together`
are history variables: handlers overlapped a load or a reset in a way the code
cannot sort out (`Stray` says that a goroutine of one Hudor waits at another's
channels), two handlers were in `Run` at once.  `OneRun` without these
conditions is violated, see below.

### CommandLine

One action per statement of `main` that other goroutines can notice: reading the
profile, entering a task in its map, creating and starting its pool, taking a
value from `IsTriggered`, waiting and returning.  A watcher is a loop over file
events and tasks; between two of its steps the others run.  Its program points
are the copy of the map's struct (`range`), the reading of the file, the change
of the pool, and the store of the whole copy; the watcher of think times stores
before it changes the pool.  A pool has its run goroutine and the *numbers* of
its producers, which is what `Producers` and `TaskControl` leave of them; pills
are only those that end a producer.  An editor writes the file in place or
truncates it first, and a read in between finds no rate: `GetRateLimiter`
divides by zero (`crashed`).  The same happens to a watcher that finds a task
whose pool is not there yet.  `WaitForEachOther` is the deadlock of main, which
waits for producers, and a run goroutine at a trigger that main no longer takes;
`ProgramEnds` lists what leads there: a second producer, a stolen trigger, an
edit.  History variables record the four ways in which
the program falls behind its file, ends too early or not at all: `stolen`, `lost`, `missed`,
`implicit`; each is needed, TLC shows a counterexample without it.

### ServerSession

`sess` is the sequence of sessions, of which handlers use the last one; a
handler is a process whose points are the statements that read `session` or
write to it.  The Hudor of a session is reduced to its tasks, the names in its
`ActiveTaskMap` and the tasks that have producers, have been updated or started
twice; how it gets there is in `HudorTasks`.  Run's test of `ActiveTaskMap`
(`TestTask`) and the registration by the executor (`StartTask`) are two steps,
so two handlers may start a task twice, after which its name may go while it
works (`ForgetTask`).  `UpdateRate` starts producers or has some end, and a rate
may have no ticker: it is 0, negative, no number or beyond 10^9.  A route that
runs, stops or updates tasks does not look whether there is a Hudor (`UseHudor`).
A `Broken` profile is one whose pools cannot be made, so that `lib.Init` panics,
after it has closed the Hudor there was.  A line of the log is the creation of the file it went to (each
load truncates it, each reset removes it) and its number.  A followed file
(`tails`, a library) may start over, go on where it was, or end when the file is
created anew.  `getAllTasks` starts one more goroutine each time (`readers`);
it finds its tail in the package variable `TailObj` only when it begins to run,
and its `append` is a read and, later, a store.  `NewHudor` keeps what
`ConfigManager` parsed last, because that lives in a package variable: a profile
that cannot be read is answered with an error, and the session then has the
tasks of the profile before.  History variables: `overlapped` (calls met that
get in each other's way, as `Meet` lists them: two for `/logs`, a load and one
that uses the Hudor, a reset and any other, two that start tasks or update one),
`crowded` (two goroutines follow the log), `panicked` (which routes panicked, and
for want of what).

### TaskData

A line is its number, because properties are about order and not about text.
`ParseFile` reads a line one buffer at a time: empty lines are left out, a last
line without a newline that fills its buffers exactly is lost, and a folder,
which can be opened but not read, keeps the handler in its loop for ever.  A
serial file is a channel in `channels` with the goroutine that feeds it; the
maps tell which files and channels the package knows.  Loading is a test and,
in a later step, a store, since the file is parsed in between.
`LoadCSVData` returns from within its loop, so only the first file is loaded
(`FirstFile`).  A request reads its files one by one and then replaces
placeholders, each a file and an index, which may be negative; what matters of a
text is the first placeholder that has no value, and whether its index exceeds
the number of values, which is an error, or not (the test at
`actions/sample.go:105` lets the number itself and a negative one pass).  URL and
payload are replaced whatever becomes of each other, headers up to the first one
with an error (`ReplacePanics`).  A request that panics stays at the point
`panicked`, so that a panic has an owner; `crash` tells a panic from the abort by which Go's runtime may answer two
goroutines in one map.

### RedisHelpers, Requests, Actions

A helper is a script of steps (`Script`): take a connection, send a command,
give the connection back; `LGet` takes a second one in between, for TYPE and the
length.  A Stricker in a helper is a record of the script, its place in it and
what it has found out so far; other Strickers move between any two steps.  A
pool hands out three connections per unit of rate and never waits: beyond them
`Get` yields a connection on which every command fails (`refused`).  `Fault`
lets a connection break at any command.  A key is the type of its value, the
number of elements and whether it has a lifetime; a command on a key of another
type is an error.  An action that names a Redis its task has not panics
(`UnknownConnection`); `redisPanic` tells this panic from that of an empty reply.
`rates` lists the rates the task has had: each update makes a
pool, and helpers go on with the one they began with.

`Requests` has a response per buffer of the client's pool: `AcquireResponse`
takes one nobody holds, `ReleaseResponse` resets it, and in between the status
decides what is counted.  `IncrementSuccess` and `IncrementError` are a read and
a write under one lock; the reset in `Run` writes both counts without it.  A
goroutine that increments a metric finds none, because
`RegisterTasksToPrometheus` has no caller, and panics.

`Actions` puts both under the Strickers of one task, each in one call at a time.
`mix` says what may meet in one behaviour: any value of `Mixes` for the proofs,
those of `MCActions` for TLC.  History variables: `misused`, `excused`, `shrunk`
(why a read may find nothing), `torn` (a reset came between the read and the
write of a count), `answered` (what the counts should be).

The runtime may abort the program for the maps of `HudorTasks`, `TaskControl`
and `CommandLine` too; there an access is one step and the abort is left out, as
it would only cut a behaviour short.

## Runs

| Run | Instance | Shows |
|---|---|---|
| `producers` | 3 slots, base 2, rates needing 1 to 3 producers; any number of runs and stops | `WaitGroupExact`, and that a run refines `RunBarrier` (`RunIsBarrier`, fairness included) |
| `worker_pool` | 2 slots, channels of 1 token and 2 triggers, synchronous or not, with or without a deadline | Strickers outlive runs but not stops; a run that started ends and StopTask's wait ends, unless the triggers are too few, or the token channel is full and every Stricker has left a stopped task or waits for a line that never comes |
| `task_control` | 3 slots; a task at rate 2 updated twice, or two runs with an update or a stop, or one run with both, or one update that finds no room in `DestroyChannel` | producers, reports and pills add up; nobody waits for a pill that does not come; a producer outlives its run only after a lowering; the copies of the rate agree |
| `task_ends` | 2 slots, one run, one update, a pill channel of one slot | an active task becomes inactive, and the update returns |
| `actions` | three Strickers in the helpers that take a second connection or panic without one, two in helpers that share a key or name no known connection, or two in requests; one failure, one update of the rate, one reset | what makes an action panic, a read find nothing or a key stay; counts are exact; every call returns |
| `hudor_tasks` | 2 handlers, 2 tasks, one load, 3 runs | tokens owed and sent match, working tasks are listed, a task runs once, `Run` returns for its own task |
| `hudor_lifecycle` | 1 handler, 1 task, 2 loads, 3 runs | `Close` drains, every call returns, active tasks retire |
| `hudor_double_run` | 2 handlers, 1 task | **violation** of `OneRun` |
| `command_line` | one task edited twice, or two tasks left alone; channels of one slot | what has been done at exit, when pools follow the file, and that the program ends unless main and a pool wait for each other, for one of three reasons |
| `server_session` | 2 handlers, 2 lines, pages of 2; a load, pages and resets in 4 calls, or 2 loads that follow the log and pages in 3, or loads of 3 profiles, one of them missing and one whose pools cannot be made, tasks and resets in 3, or one load, runs, updates and resets in 5 | pages of the log add up; for which reasons a lone handler panics; which calls must meet for a Hudor to get out of reach |
| `task_data` | 2 handlers, 2 requests at a time, four pairs out of 6 tasks, files of 1 and 2 lines and a folder, buffers of 2, 3 reads of each | order of lines, which tasks panic, which requests never end |
| `csv_eof` | one task with a file that is read once | **violation** of `ReadEnds` |

The bounds are named where they are declared (`BOUND`).  They are enough for
what each run asks: a lowering needs two producers of which one goes, an overlap
of a lowering with a new producer needs a third slot; a blocked send needs a
channel of one slot, not of 20000 or 100; two updates show an update that meets
what the one before has left; a rerun needs two runs; a name
confused with another one needs two tasks; a stale Hudor needs a second load; a
wrap needs one line more than the file has; two pages, or a load, a task and a
reset, need three calls; a double start that leaves a Hudor behind needs a load,
two runs, the end of the name and a reset (`RunMix`: five calls, so that an
update fits in as well); a pool of rate 1 has three connections, so three
Strickers of which two take a second one exhaust it; a key that shrinks between
its length and an element needs two elements.  In `task_control` the only client
overlaps StopTask, the first spawns and the end of a run.  An overlap sets
`raced`, which never becomes false again and under which nothing but the wait
group and the types is claimed; the run does not continue such states
(`CONSTRAINT NotRaced`), the theorems cover them, and any number of clients.
Behaviours with two updates start from rate 2 only: from rate 1 the first one
is the start of another behaviour.  Requests do not use the Redis pool, so that
`MCInit` gives them one rate.

CHECK_DEADLOCK is off everywhere: a program that has ended, or a pool that
nobody starts, has nothing left to do.  That nobody waits for ever is stated by
the liveness properties instead.

Every property has a mutant in `PROJECT.json`: a definition replaced by the one
called "Mutant of ..." in front of it, a plausible slip in that code, for which
TLC finds the property violated with the same configuration.  It shows that the
instance reaches the situation the property is about.

### Disagreements found

* `OneRun`.  `Hudor.Run` returns "Task already in running state"
  (`lib/main.go:154`) when the name is in `ActiveTaskMap`; the name gets there
  later, by the executor.  Two handlers in between both start the pool.
  `OneRunAlone` shows that the code is right when handlers take turns.
* `ReadEnds`.  `GetValueFromFileSerially` has a return for the end of the file,
  "Reached EOF" (`csv/csvHelpers.go:12` and `:73`), that is reached only when
  the channel is closed, and nothing closes it.  `RequestEnds` states what does
  hold.

### Also seen in the code

Nothing in the repository says otherwise, so these are no disagreements; the
models contain them.

* `LPushRedis` always reports an error: it converts the number LPUSH replies
  with to a string (`Converts`).
* SELECT is sent only when dialing has failed, so that all tasks share database
  0 whatever index their profile names (`Dial`, header of `RedisHelpers`).
* An update of the rate replaces the pool of connections; those of the old one
  are never closed.
* `GetLength` ignores the error of TYPE: a refused second connection makes
  `LGetRedisValue` return an empty string without an error, and so does a key
  that is neither a list nor a set (`ReadCause`).
* `LGetRedisValue` never finds an element of a set: `GetLength` counts with SCARD
  (`redis/redisHelper.go:190`), but line 24 asks with LINDEX (`ReadCause`).
* An action that names a Redis the profile does not list ends the program
  (`configparsers/structs.go:154`, `UnknownConnection`).
* `runTasks`, `stopTask` and `updateTaskRate` panic in a session without a Hudor,
  and `updateTaskRate` panics for a rate that has no ticker, since it uses what
  `strconv.Atoi` returns with an error as well (`PanicCause`).
* `lib.Init` closes the Hudor there was before it reads the profile: when it then
  panics, the session keeps a closed Hudor, in which `Run` waits for ever.
* The command line program hangs with a task of more than one producer: `main`
  takes one trigger per pool and a pool sends one per report (`ProgramEnds`).
* A negative index of a placeholder passes the test and panics (`OutOfRange`).
* `WaitForRedisKeyToBeAvailable` looks ttl - 1 times.
* With metrics turned on, the first request ends the program (`Increment`).
* A header without a colon ends the program; of one with two, the rest of the
  value is lost.
* An update that lowers the rate may wait for ever, after enough earlier ones
  have filled `DestroyChannel` (`TaskEnds`).
* The body of a response is used after `ReleaseResponse`, but only to print it
  while debugging; what is judged and counted is read before (`CountsExact`).

## Fairness

Goroutines are scheduled: each step of a goroutine that stays enabled is taken
(weak fairness per goroutine; of a pair that meets on an unbuffered channel,
per pair).  A ticker ticks, and a request returns or times out, so those steps
are among them; but a request that waits for a line of a serial file that never
comes (`LineNeverComes`) does not return, and nothing is asked of it.  A producer that reads the clock again and again reads a time
past its deadline in the end: strong fairness of that reading (`NextTick` with
`late'`), because it alternates with other steps; `PoolSpec` does not ask for it when the task is
`endless`, one whose duration is too long to help.  `RunEnds` and `StopReturns` name what
blocks a pool: triggers beyond the slots of `isTriggered`, and a full channel of
tokens with no Stricker left to empty it.  `TaskControl`, `HudorTasks` and
`CommandLine` take it that the tokens of a producer find room, that is, that a
run ends as far as `RunEnds` says.  An answer or the client's timeout ends
what a Stricker waits for, in a request and in a helper (`ActionsFairness`), and
the goroutines that count are scheduled.  Nobody has to
call anything: runs, stops, updates, loads, edits and requests carry no
fairness, only their later steps do.  An editor that truncated the file goes on
to write it.

## Proofs

`ProducersProofs`, for any finite set of slots, any base > 0 and any set of
positive rates (`BasePositive`, `ProducersConstants`):

* `TypeCorrect`, and `WaitGroupCorrect`: the wait group counts the live
  producers.  The lemmas named ...`Counted` state once what each step does to
  both, with `JoinAddsOne` and `LeaveRemovesOne` about cardinalities.
* `StopTailCorrect`: `StopTail` is not inductive; `TailInv` adds where a producer
  that queued a token after the stop can be, so that it cannot queue another.
* `NoOrphanCorrect`: from `RunAccounting`, live producers plus reports are what
  the rate calls for while the run goroutine counts.
* `BarrierCorrect`: initial states and steps map to those of `RunBarrier`; the
  fairness of `RunIsBarrier` is left to TLC.

`WorkerPoolProofs`, for any capacities, any concurrency and any number of
Strickers:

* `PoolProducersCorrect` carries the three theorems above over to the pool: each
  of its steps is a step of the producers, leaves them alone or is one that
  consumes (`PoolStepIsStep`), and the invariant of `ProducersProofs` needs one
  more conjunct, `Fresh`: a pool of fixed rate never replaces its limiter, so no
  producer comes to wait for a pill.
* `PoolBarrierCorrect`: by the same classification the pool maps to `RunBarrier`.
* `PoolTypeCorrect`; `StrickersStayCorrect` from `StrickersInv`, which counts
  those already spawned while the run goroutine spawns.

`TaskControlProofs`, for any number of clients and any bounds on their calls:

* `TaskTypeCorrect` and `TaskWaitGroupCorrect`: the lemmas about the steps of
  `Producers` are used again, steps of clients are added.
* `OrphanCauseCorrect`: `Quiet` (no pill without a lowering) and `OrderlyInv` (as
  long as updates only raise the rate and overlap nothing, live producers,
  reports and producers still to be added make up the count).
* `SettingsAgreeCorrect` from `OneRate`: at most one update is in progress, it
  has changed limiter and pool to its own rate in that order, and nobody holds
  an older copy of the task.
* `PillAccountingCorrect` from `Balanced`, the equation at every point of an
  update and of the run goroutine, also where `PillAccounting` says nothing.
  `EndsAppend` and `EndsTail` say what a pill sent or taken does to the number
  of deadly ones; `LeftoverStays` that the premise cannot come back.
* `PillsSufficeCorrect` from `TakersMet`: the pills in the channel and those the
  update has still to send cover every producer that waits for one or will.
  `NextTakers` has one case per step that makes a taker or takes a pill.

`HudorProofs`, for any handlers, tasks, loads and runs:

* `HudorTypeCorrect` from `TypeInv`: a load has a number for its channels
  (`InitsBounded`), the Hudor it is about to make has no goroutine yet and no
  other maker (`FreshHudors`), an executor or deleter waits at channels that
  exist.  Lemmas named ...`Is` and ...`Moves` state once what a step does to the
  record of a goroutine.
* `CloseDrainsCorrect` from `Ordered`: as long as loads and resets meet no other
  call, there is one Hudor, that of the newest channels; only its executor
  works; whoever waits for its end found it started.  `CloseDrains` is not
  inductive without it: a closed Hudor stays closed only because no executor
  but the newest can launch.  `StrayStays` and `OverlappedStays` say that the
  premise does not come back.
* `OneRunAloneCorrect` and `WorkingListedCorrect` from `Alone`: one handler is in
  Run, and its task is queued, or with the executor, or answered (`OneName`); a
  task is about to run, runs, or has announced its end, once, and is listed all
  that time (`Listed`).  The name in the deleter's channel has to be part of it:
  a run refused until its name is deleted is what keeps the deleter from taking
  the name of the next one.
* `TokensOwedCorrect` from `Owed`: the handlers that wait are as many as the tasks
  queued, with the executor and answered.  It needs no handler to be alone, only
  that loads and resets are (`Ordered`): new channels start with nobody waiting.
  `TailCounted` and `QueuedPush` say what taking and queueing a name does to the
  count.
* `RunStartsCorrect`, an action property, from `Asks`: what is queued, with the
  executor or launched is the task of the one handler that waits, and once the
  executor is past the launch, the newest launch is that one.  That its producers
  run when the token is taken follows from `TypeInv`: the executor waits for a
  pool that starts, and `OneName` puts it elsewhere than the token.

`CommandLineProofs`, for any profile, edits, choice of watchers and capacities:

* `CommandLineTypeCorrect` from `Typed`.  The wait group all pools share counts
  the pairs of a pool and one of its producers (`WorkCounted`), a finite set that
  loses or gains one pair at a time, because a sum over pools would be a
  recursion.
* `ExitCompleteCorrect` from `Started`: a pool that left `spawn` has a producer,
  and unless a trigger was stolen the pools before the one main waits for have
  left it.
* `EnoughStrickersCorrect` from `Provided`.  A pool only gains consumers, so this
  holds even when a watcher overwrites what another one stored, but the
  invariant must follow every copy of a task: no stored value and no copy about
  to be stored asks for more than the pool has (`Supplied`), and the pool has
  what the profile asks for or the watcher still has to look (`Enough`).
* `FollowsProfileCorrect` from `Followed`.  As long as no store was lost, a
  watcher's copy has the map's value of its own field, and the pool has it too
  but for the watcher that is between pool and map (`Aligned`); and that value is
  the profile's, or an event is left, or the watcher has not come to the task
  (`Fresh`).  Without the first part the second is not inductive: a store of
  another field would undo it.

`TaskDataProofs`, for any files, contents, profiles and size of the buffer:

* `ParseFileCorrect`: what the loop of `ParseFile` returns, for every file: the
  lines that are not empty, each once, in order, but for a last one lost with a
  full buffer.  The library's induction takes an operator the provers cannot
  instantiate; the lemmas about `Collect` argue instead from the least length at
  which a fact would be false (`LeastNumber`).
* `DataTypeCorrect` from `Typed`.
* `CrashCauseCorrect` from `InMaps`: the first file of a loaded task is in its map,
  and every request is of a loaded task; by `PanicsOfUnsound` the step that makes a
  request panic is that of a task which is not sound.
* `FileOrderCorrect` from `InOrder`: unless two handlers loaded a file at once, a
  file has one channel, and what was taken from it, what is inside it and the
  line its goroutine feeds next continue one another (`Continued`), modulo the
  number of lines when the file is read in circles.  `FileOrder` alone says
  nothing of the lines under way.

`ActionsProofs`, for any finite set of Strickers, any
keys, rates and mixes of calls:

* `ActionsTypeCorrect`: rests on `ScriptShape`, what stands where in a script,
  so that a helper is always at a step it knows.
* `ActionPanicCauseCorrect`: `Room` counts the connections of a pool (two per
  Stricker at most) and shows that a pool that fits refuses none; `HelperInv`
  says where a connection is held and that a refused one, or an error in
  HMGETRedis, has one of the causes named; `NameInv` and `RequestInv` are the causes
  of the other panics.
* `CountsExactCorrect` from `CountInv`: one goroutine is inside the lock, and
  unless a reset tore it, what it has read is still the count.
* `KeysExpireCorrect` from `KeyInv`: a string without lifetime has a Stricker
  between SET and EXPIRE of that key.
* `ReadCauseCorrect` from `ReadInv`: after the length is read (`Measured`), the
  key has at least as many elements of that type or one of the excuses holds, and
  a key counted as a set stays one unless it was emptied; at the end (`Explained`)
  a missing value has its reason, and a value found in a set as well.

`SessionProofs`, for any clients, profiles, mixes of calls and size of a page:

* `SessionTypeCorrect` from `Typed`, which also says which handler can be at
  which point, and what a session, a goroutine or a call refers to.  Lemmas named
  ...`Frame`, ...`Moves` and ...`Turns` state once what a step leaves alone and
  where it takes a call.
* `InReachCorrect` from `Quiet`: until calls get in each other's way, no two that
  would are in progress (`Alone`), and every handler finds what it counts on at
  its point (`Held`).  `InReach` alone is not inductive: a new Hudor replaces the
  session's only after the old one was closed, and that nothing works in between
  (`NoWork`) holds because no other handler can start a task meanwhile.  A task with
  producers is active but for what an update left (`Named`), and between Run's test
  and the registration it is still inactive (`Held`).
* `PageOrderCorrect` from `LogOrder` and `Paging`: as long as one goroutine at a
  time appends, it is the last one (`OneReads`), no line of any session is ahead of
  its tail (`OutputsOrdered`), and the line it is about to append is behind all
  of them (`LineNext`); what was shown is as many lines of the session as its
  offset says, and the page in progress holds the next ones (`PageOf`).
* `PanicCauseCorrect` from all of these: a handler that looked for a Hudor finds it
  still there by `Held`, `/logs` finds its line by `PageOf`, and what is left are
  the panics a handler brings about itself (`OwnPanic`).

Every safety property a passing run checks is a theorem.  Only model-checked are
the liveness properties and the fairness of the refinement: TLAPS proves neither
liveness under fairness nor anything about ENABLED.

## Not modelled

* Uploads and listings of the server, and its handlers with constant answers:
  they store or list files and keep no state.
* The abort by which Go's runtime may answer two goroutines in one map
  (`lib/main.go:119`, handlers that iterate over the maps of a Hudor, and others),
  except in `TaskData`: there loading is all about the maps; elsewhere it only
  cuts a behaviour short.
* The branch and the host that `getProfiles` and `getSession` write into the
  session, and the panic of `lib.Init` when `config/env.json` is missing.
* gRPC: one connection is dialed per task at load time and never used.
* The environment (`config/`): its values are constants of the modules.
* Parsing of JSON and of think times; ramp-up.  They decide nothing the
  properties are about.
* Latencies and gauges of the metrics, which fail like `Increment`.
* `PropabilityUpdateExecutor`, which reloads a map nothing reads.
* The transport of HTTP and Redis: libraries, reduced to an answer or an error.
* The web page (`ui/`), which calls the handlers and is mostly vendored.

## Plan

Done: the pool (`Producers`, `WorkerPool`), one task (`TaskControl`), several
tasks and Hudors (`HudorTasks`), the two programs around them (`CommandLine`,
`ServerSession`), data (`TaskData`) and actions (`RedisHelpers`, `Requests`,
`Actions`), with the theorems above.

Open, in the order of what they would add: an abstract specification of a Hudor
(a task is inactive, starting, running or retiring) that `HudorTasks` implements
as long as loads and resets are alone; the session of `ServerSession` as a caller
of it.
