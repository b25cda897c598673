------------------------------ MODULE TaskData ------------------------------
(***************************************************************************)
(* The data of requests: the lines of CSV files (csv/csvHelpers.go), how a *)
(* task loads and reads them (configparsers/structs.go) and how a request  *)
(* is built from them (actions/sample.go).                                 *)
(*                                                                         *)
(* A file that is read serially is a channel that one goroutine fills,     *)
(* once or in circles, and all requests of all tasks empty; the others are *)
(* slices.  Both are in maps of the package: loading tests the map, parses *)
(* the file and sets the map, without a lock.  A line is its number; its   *)
(* values are counted, because placeholders index them.                    *)
(***************************************************************************)
EXTENDS Integers, Sequences, FiniteSets, SequencesExt

CONSTANTS
  Client,    \* handlers inside Hudor.Run
  Stricker,  \* goroutines that build requests
  Task, File,
  FilesOf,   \* the files of a task, in the order of its profile
  Kind,      \* per file: read at random, serially once, serially in circles
  Content,   \* per file: the sizes of its lines and whether the last one ends
             \* with a newline; or Missing, or Folder
  Missing, Folder,
  BufferSize, \* of the reader of a file (4096)
  Values,    \* per file: values of a line
  Texts,     \* per task: the placeholders of its URL, its payload and each header
  Profiles,  \* sets of tasks the program may be started with
  MaxReads   \* BOUND: lines taken from a serial file

Placeholder == [file : File, index : Int]

ASSUME TaskDataConstants ==
  /\ Task # {} /\ Missing # Folder
  /\ FilesOf \in [Task -> Seq(File)]
  /\ Kind \in [File -> {"random", "once", "circle"}]
  /\ Content \in
       [File -> [sizes : Seq(Nat), ended : BOOLEAN] \cup {Missing, Folder}]
  /\ BufferSize \in Nat \ {0}
  /\ Values \in [File -> Nat \ {0}]
  /\ Texts \in [Task -> Seq(Seq(Placeholder))]
  /\ Profiles \subseteq SUBSET Task

VARIABLES
  profile,        \* tasks in TaskObjectMap
  csvMap,         \* files in CSVMap
  csvChannelMap,  \* per file: its channel in CSVChannelMap, 0 if there is none
  channels,       \* all channels made: file, lines inside, line to feed next
  client,         \* handlers in LoadCSVData: point and task
  loaded,         \* tasks that Run has loaded and started
  request,        \* per Stricker: point, task, file to read next, channel
  crash,          \* what ended the program: a goroutine panicked, or Go's runtime
                  \* noticed two goroutines in one of the maps
  \* history: lines in the order they were taken; two handlers were loading
  \* the same file at the same time
  taken, together

loadVars == <<profile, client, loaded, together>>
vars == <<csvMap, csvChannelMap, channels, request, crash, taken, loadVars>>

AnyTask == CHOOSE t \in Task : TRUE
NoCall == [pc |-> "idle", task |-> AnyTask]
NoRequest == [pc |-> "idle", task |-> AnyTask, at |-> 1, on |-> 0]

Running == crash = "no"

-----------------------------------------------------------------------------
(* ParseFile *)

Readable == {f \in File : Content[f] \notin {Missing, Folder}}

\* A line is read one buffer at a time.  The end of the file after a full one
\* ends the loop before the line is added.
LastLineLost(f) ==
  LET c == Content[f]
      last == c.sizes[Len(c.sizes)]
  IN  c.sizes # <<>> /\ ~c.ended /\ last > 0 /\ last % BufferSize = 0

\* The loop over n lines, which appends those in S.
Collect(n, S) ==
  LET lines[i \in 0 .. n] ==
        IF i = 0 THEN <<>> ELSE IF i \in S THEN Append(lines[i - 1], i) ELSE lines[i - 1]
  IN  lines[n]

NotEmpty(f) == {i \in DOMAIN Content[f].sizes : Content[f].sizes[i] > 0}

\* Per file: the numbers of the lines that are read from it.
ParseFile ==
  [f \in Readable |->
     LET n == Len(Content[f].sizes)
     IN  Collect(n, IF LastLineLost(f) THEN NotEmpty(f) \ {n} ELSE NotEmpty(f))]

Lines(f) == Len(ParseFile[f])

Init ==
  /\ profile \in Profiles
  /\ csvMap = {} /\ csvChannelMap = [f \in File |-> 0] /\ channels = <<>>
  /\ client = [c \in Client |-> NoCall] /\ loaded = {}
  /\ request = [s \in Stricker |-> NoRequest]
  /\ crash = "no" /\ taken = [f \in File |-> <<>>] /\ together = FALSE

-----------------------------------------------------------------------------
(* LoadCSVData *)

\* Mutant of InMap: the test is forgotten for files that are read serially.
InMapRandomOnly(f) == Kind[f] = "random" /\ f \in csvMap

InMap(f) == IF Kind[f] = "random" THEN f \in csvMap ELSE csvChannelMap[f] # 0

\* LoadCSVData returns from within its loop over the files.
FirstFile(t) == FilesOf[t][1]

BeginLoad(c, t) ==
  /\ Running /\ client[c].pc = "idle" /\ t \in profile \ loaded
  /\ IF FilesOf[t] = <<>>
       THEN loaded' = loaded \cup {t} /\ UNCHANGED client
       ELSE client' = [client EXCEPT ![c] = [pc |-> "test", task |-> t]] /\ UNCHANGED loaded
  /\ UNCHANGED <<profile, csvMap, csvChannelMap, channels, request, crash, taken, together>>

\* A file that cannot be opened is an error, and Run does not start the task.
\* A folder can be opened, and each read of it fails, but not with io.EOF.
TestMap(c) ==
  LET t == client[c].task
      f == FirstFile(t)
  IN  /\ Running /\ client[c].pc = "test"
      /\ client' = [client EXCEPT ![c] =
           CASE InMap(f) \/ Content[f] = Missing -> NoCall
             [] ~InMap(f) /\ Content[f] = Folder -> [@ EXCEPT !.pc = "parse"]
             [] ~InMap(f) /\ f \in Readable -> [@ EXCEPT !.pc = "store"]]
      /\ loaded' = IF InMap(f) THEN loaded \cup {t} ELSE loaded
      /\ together' = (together \/ \E d \in Client : /\ client[d].pc = "store"
                                                     /\ FirstFile(client[d].task) = f)
      /\ UNCHANGED <<profile, csvMap, csvChannelMap, channels, request, crash, taken>>

StoreFile(c) ==
  LET t == client[c].task
      f == FirstFile(t)
  IN  /\ Running /\ client[c].pc = "store"
      /\ client' = [client EXCEPT ![c] = NoCall]
      /\ loaded' = loaded \cup {t}
      /\ IF Kind[f] = "random"
           THEN csvMap' = csvMap \cup {f} /\ UNCHANGED <<csvChannelMap, channels>>
           ELSE /\ channels' = Append(channels, [file |-> f, inside |-> <<>>, feed |-> 1])
                /\ csvChannelMap' = [csvChannelMap EXCEPT ![f] = Len(channels')]
                /\ UNCHANGED csvMap
      /\ UNCHANGED <<profile, request, crash, taken, together>>

\* The file that s reads next.
Reading(s) == FilesOf[request[s].task][request[s].at]
HasFile(s) == request[s].at <= Len(FilesOf[request[s].task])

\* Another goroutine may be in the map that StoreFile writes.
SameMap(f, g) == (Kind[f] = "random") = (Kind[g] = "random")
MapShared(c) ==
  LET f == FirstFile(client[c].task) IN
  \/ \E d \in Client \ {c} : client[d].pc # "idle" /\ SameMap(f, FirstFile(client[d].task))
  \/ \E s \in Stricker : request[s].pc = "read" /\ HasFile(s) /\ SameMap(f, Reading(s))

\* concurrent map writes, concurrent map read and map write
MapsAbort(c) ==
  /\ Running /\ client[c].pc = "store" /\ MapShared(c)
  /\ crash' = "maps"
  /\ UNCHANGED <<csvMap, csvChannelMap, channels, request, taken, loadVars>>

Load(c) == TestMap(c) \/ StoreFile(c)

\* Mutant of Feed: the loop runs once more, i <= len(values).
FeedOffByOne(k) ==
  LET ch == channels[k]
      n == Lines(ch.file)
  IN  /\ Running
      /\ ch.feed <= n + 1 /\ Len(ch.inside) < n
      /\ channels' = [channels EXCEPT
           ![k].inside = Append(@, ch.feed),
           ![k].feed = IF @ = n + 1 /\ Kind[ch.file] = "circle" THEN 1 ELSE @ + 1]
      /\ UNCHANGED <<csvMap, csvChannelMap, request, crash, taken, loadVars>>

\* Mutant of Feed: the loop does not begin again, whatever isEOF is.
FeedOnce(k) ==
  LET ch == channels[k]
      n == Lines(ch.file)
  IN  /\ Running
      /\ ch.feed <= n /\ Len(ch.inside) < n
      /\ channels' = [channels EXCEPT
           ![k].inside = Append(@, ch.feed), ![k].feed = @ + 1]
      /\ UNCHANGED <<csvMap, csvChannelMap, request, crash, taken, loadVars>>

\* The goroutine of a channel; it has room for all lines of the file.
Feed(k) ==
  LET ch == channels[k]
      n == Lines(ch.file)
  IN  /\ Running
      /\ ch.feed <= n /\ Len(ch.inside) < n
      /\ channels' = [channels EXCEPT
           ![k].inside = Append(@, ch.feed),
           ![k].feed = IF @ = n /\ Kind[ch.file] = "circle" THEN 1 ELSE @ + 1]
      /\ UNCHANGED <<csvMap, csvChannelMap, request, crash, taken, loadVars>>

-----------------------------------------------------------------------------
(* BaseFunc *)

RequestUnchanged == <<csvMap, csvChannelMap, loadVars>>

\* Mutant of BeginRequest: Run starts the task before it loads its files.
BeginRequestEarly(s, t) ==
  /\ Running /\ request[s].pc = "idle" /\ t \in profile
  /\ request' = [request EXCEPT ![s] = [pc |-> "read", task |-> t, at |-> 1, on |-> 0]]
  /\ UNCHANGED <<channels, crash, taken, RequestUnchanged>>

BeginRequest(s, t) ==
  /\ Running /\ request[s].pc = "idle" /\ t \in loaded
  /\ request' = [request EXCEPT ![s] = [pc |-> "read", task |-> t, at |-> 1, on |-> 0]]
  /\ UNCHANGED <<channels, crash, taken, RequestUnchanged>>

\* A request panics; no goroutine goes on.
Panic(s) ==
  /\ crash' = "panic"
  /\ request' = [request EXCEPT ![s].pc = "panicked"]

\* GetRandomValueFromFile draws from an empty range when there are no lines,
\* which panics.
ReadRandom(s) ==
  /\ Running /\ request[s].pc = "read" /\ HasFile(s) /\ Kind[Reading(s)] = "random"
  /\ IF Reading(s) \in csvMap /\ Lines(Reading(s)) > 0
       THEN request' = [request EXCEPT ![s].at = @ + 1] /\ UNCHANGED crash
       ELSE Panic(s)
  /\ UNCHANGED <<channels, taken, RequestUnchanged>>

\* GetValueFromFileSerially finds the channel, then waits at it; at a channel
\* that is not in the map it waits for ever.
FindChannel(s) ==
  /\ Running /\ request[s].pc = "read" /\ HasFile(s) /\ Kind[Reading(s)] # "random"
  /\ request' = [request EXCEPT ![s].pc = "receive", ![s].on = csvChannelMap[Reading(s)]]
  /\ UNCHANGED <<channels, crash, taken, RequestUnchanged>>

AtBound(s) == Len(taken[Reading(s)]) >= MaxReads

ReceiveLine(s) ==
  LET on == request[s].on IN
  /\ Running /\ request[s].pc = "receive" /\ on # 0
  /\ channels[on].inside # <<>>
  /\ ~AtBound(s)
  /\ channels' = [channels EXCEPT ![on].inside = Tail(@)]
  /\ taken' = [taken EXCEPT ![Reading(s)] =
                Append(@, ParseFile[Reading(s)][Head(channels[on].inside)])]
  /\ request' = [request EXCEPT ![s].pc = "read", ![s].at = @ + 1, ![s].on = 0]
  /\ UNCHANGED <<crash, RequestUnchanged>>

\* Values of a file the task has read; any other name finds nothing.
ValuesFor(t, f) == IF Contains(FilesOf[t], f) THEN Values[f] ELSE 0

\* replaceString ends at the first placeholder it has no value for: with an
\* error when the index is beyond the number of values, and out of range when
\* it is equal to it or negative.  A placeholder without an underscore ends like
\* the latter.
Unreplaced(t, text) == SelectSeq(text, LAMBDA p : p.index \notin 0 .. ValuesFor(t, p.file) - 1)
OutOfRange(t, text) ==
  LET bad == Unreplaced(t, text)
  IN  bad # <<>> /\ bad[1].index <= ValuesFor(t, bad[1].file)

\* URL and payload are replaced whatever becomes of the other; replaceHeaders
\* ends at the first header with an error.
ReplacePanics(t) ==
  \E i \in DOMAIN Texts[t] :
    /\ OutOfRange(t, Texts[t][i])
    /\ \A j \in 3 .. i - 1 : Unreplaced(t, Texts[t][j]) = <<>>

\* Send the request or log the error.
Replace(s) ==
  LET t == request[s].task IN
  /\ Running /\ request[s].pc = "read" /\ ~HasFile(s)
  /\ IF ReplacePanics(t)
       THEN Panic(s)
       ELSE request' = [request EXCEPT ![s] = NoRequest] /\ UNCHANGED crash
  /\ UNCHANGED <<channels, taken, RequestUnchanged>>

Request(s) == ReadRandom(s) \/ FindChannel(s) \/ ReceiveLine(s) \/ Replace(s)

-----------------------------------------------------------------------------
Next ==
  \/ \E c \in Client : Load(c) \/ MapsAbort(c) \/ \E t \in Task : BeginLoad(c, t)
  \/ \E k \in DOMAIN channels : Feed(k)
  \/ \E s \in Stricker : Request(s) \/ \E t \in Task : BeginRequest(s, t)

\* Goroutines are scheduled; nobody has to load a task or make a request.
Fairness ==
  /\ \A c \in Client : WF_vars(Load(c))
  /\ \A k \in 1 .. Cardinality(Task) * Cardinality(Client) : WF_vars(k \in DOMAIN channels /\ Feed(k))
  /\ \A s \in Stricker : WF_vars(Request(s))

Spec == Init /\ [][Next]_vars /\ Fairness

-----------------------------------------------------------------------------
(* What holds for the data of requests *)

\* Every state is well typed; a channel holds lines of its file only.
DataTypeOK ==
  /\ profile \subseteq Task
  /\ csvMap \subseteq File
  /\ csvChannelMap \in [File -> 0 .. Len(channels)]
  /\ \A k \in DOMAIN channels :
       LET n == Lines(channels[k].file)
       IN  channels[k].feed \in 1 .. n + 1 /\ channels[k].inside \in Seq(1 .. n)
  /\ client \in [Client -> [pc : {"idle", "test", "parse", "store"}, task : Task]]
  /\ loaded \subseteq Task
  /\ request \in [Stricker -> [pc : {"idle", "read", "receive", "panicked"}, task : Task,
                               at : Nat \ {0}, on : 0 .. Len(channels)]]
  /\ crash \in {"no", "panic", "maps"} /\ together \in BOOLEAN
  /\ \A f \in File : taken[f] \in Seq(Nat)

\* The lines of a serial file that are not empty.
Data(f) == Collect(Len(Content[f].sizes), NotEmpty(f))

\* The lines of a serial file are used in their order, each that is not empty
\* once per round and those of a file that is read once in one round only,
\* whichever tasks and requests share it; unless two handlers loaded it at the
\* same time, since each of them made a channel then, or its last line has no
\* newline and fills the reader's buffer, which loses that line.
FileOrder ==
  ~together =>
    \A f \in Readable : \A i \in DOMAIN taken[f] :
      LET lines == IF LastLineLost(f) THEN Front(Data(f)) ELSE Data(f)
      IN  /\ taken[f][i] = lines[((i - 1) % Len(lines)) + 1]
          /\ Kind[f] = "once" => i <= Len(lines)

\* A task of at most one file, which has lines if it can be read at all, and
\* whose placeholders index the values of that file.
Sound(t) ==
  /\ Len(FilesOf[t]) <= 1
  /\ \A i \in DOMAIN FilesOf[t] : FilesOf[t][i] \in Readable => Lines(FilesOf[t][i]) # 0
  /\ ~ReplacePanics(t)

\* A request of a sound task never panics, whatever the other tasks load, in
\* whichever order and beside whichever requests: a panic is that of a request
\* whose own task is not sound.  That Go's runtime ends the program because two
\* goroutines meet in a map is not a panic, and happens to sound tasks as well.
CrashCause ==
  /\ crash = "panic" => \E s \in Stricker : request[s].pc = "panicked"
  /\ \A s \in Stricker : request[s].pc = "panicked" => ~Sound(request[s].task)

Exhausted(f) == Len(taken[f]) >= Lines(f) /\ (Kind[f] = "once" \/ Lines(f) = 0)

\* A request gets its values in the end, unless it reads on from a file that
\* is read once and used up, or from one that was never loaded; and a handler
\* comes back from loading a task, unless its first file is a folder.
RequestEnds ==
  /\ \A c \in Client :
       client[c].pc # "idle" ~> client[c].pc = "idle" \/ ~Running \/ client[c].pc = "parse"
  /\ \A s \in Stricker :
       request[s].pc # "idle" ~>
         \/ request[s].pc = "idle" \/ ~Running
         \/ /\ request[s].pc = "receive"
            /\ request[s].on = 0 \/ Exhausted(Reading(s)) \/ AtBound(s)

\* GetValueFromFileSerially returns: a line, or the error "Reached EOF".
ReadEnds ==
  \A s \in Stricker :
    request[s].pc = "receive" /\ request[s].on # 0 ~>
      request[s].pc # "receive" \/ ~Running \/ AtBound(s)
=============================================================================
