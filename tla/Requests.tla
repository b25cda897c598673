------------------------------ MODULE Requests ------------------------------
(***************************************************************************)
(* A request of the built-in action once its placeholders are replaced     *)
(* (actions/sample.go), sent by MakeHTTPRequest (request/httpClient.go)    *)
(* and counted (configparsers/structs.go).                                 *)
(*                                                                         *)
(* Responses come from a pool and go back to it when MakeHTTPRequest       *)
(* returns, so that another request may be answered into one whose body    *)
(* the first one is still printing.  Counting is left to goroutines that   *)
(* share a lock; Run, which sets the counts to zero, does not take it.     *)
(***************************************************************************)
EXTENDS Executors

CONSTANTS
  Buffer,       \* BOUND: responses of the pool, which makes more as needed
  MaxAnswers,   \* BOUND: requests
  MaxResets     \* BOUND: runs of the task

ASSUME RequestConstants ==
  Buffer # {} /\ {MaxAnswers, MaxResets} \subseteq Nat

Outcomes == {"success", "error"}

VARIABLES
  request,   \* per Stricker: point, response it holds, outcome
  response,  \* what each response says: its status, as far as errors go
  count,     \* the TaskCount of the task
  waiting,   \* goroutines that are to count, per outcome
  inside,    \* those between the read and the write of a count: which one, and
             \* what they have read
  resetting, \* Run has reset one of the two counts
  unregistered, \* a goroutine is to increment a metric nobody registered
  requestPanic,
  \* history: requests, resets, outcomes since the last reset, a reset that
  \* came between the read and the write of a count
  made, resets, answered, torn

countVars == <<count, waiting, inside, resetting>>
requestHistory == <<made, resets, answered, torn>>
requestVars == <<request, response, countVars, unregistered, requestPanic, requestHistory>>

AnyBuffer == CHOOSE b \in Buffer : TRUE
NoRequest == [pc |-> "idle", buffer |-> AnyBuffer, outcome |-> "success"]

Holding == {"build", "do", "judge", "release"}
Held == {request[s].buffer : s \in {u \in Stricker : request[u].pc \in Holding}}

RequestInit ==
  /\ request = [s \in Stricker |-> NoRequest]
  /\ response = [b \in Buffer |-> "success"]
  /\ count = [k \in Outcomes |-> 0] /\ waiting = [k \in Outcomes |-> 0]
  /\ inside = <<>> /\ resetting = FALSE /\ unregistered = FALSE
  /\ requestPanic = "no"
  /\ made = 0 /\ resets = 0 /\ answered = [k \in Outcomes |-> 0] /\ torn = FALSE

Point(s, from, to) == request[s].pc = from /\ request' = [request EXCEPT ![s].pc = to]

-----------------------------------------------------------------------------
(* Metrics *)

\* Who counts in a metric leaves it to a goroutine, if the environment asks for
\* metrics.
IncrementMetric(prometheus) == unregistered' = (unregistered \/ prometheus)

\* RegisterTasksToPrometheus has no caller: no metric is found, and the nil one
\* panics.
Increment ==
  /\ unregistered
  /\ requestPanic' = "metric"
  /\ UNCHANGED <<request, response, countVars, unregistered, requestHistory>>

-----------------------------------------------------------------------------
(* MakeHTTPRequest *)

\* Stricker and executor count the request before they make it.
AcquireResponse(s, prometheus) ==
  /\ request[s].pc = "idle" /\ made < MaxAnswers
  /\ made' = made + 1
  /\ IncrementMetric(prometheus)
  /\ \E b \in Buffer \ Held :
       request' = [request EXCEPT ![s] = [NoRequest EXCEPT !.pc = "build", !.buffer = b]]
  /\ UNCHANGED <<response, countVars, requestPanic, resets, answered, torn>>

\* A header without a colon is out of range.
AddHeaders(s, wellFormed) ==
  /\ Point(s, "build", "do")
  /\ requestPanic' = IF wellFormed THEN requestPanic ELSE "header"
  /\ UNCHANGED <<response, countVars, unregistered, requestHistory>>

\* The answer; a timeout or an error of the network leaves the response as it
\* is, and it is the error that counts.
ClientDo(s) ==
  /\ Point(s, "do", "judge")
  /\ \E status \in Outcomes : response' = [response EXCEPT ![request[s].buffer] = status]
  /\ UNCHANGED <<countVars, unregistered, requestPanic, requestHistory>>

\* Only the status 200 is a success.
Judge(s) ==
  /\ request[s].pc = "judge"
  /\ LET outcome == response[request[s].buffer]
     IN  /\ request' = [request EXCEPT ![s].pc = "release", ![s].outcome = outcome]
         /\ answered' = [answered EXCEPT ![outcome] = @ + 1]
  /\ UNCHANGED <<response, countVars, unregistered, requestPanic, made, resets, torn>>

\* A response that is given back is reset, which makes its status 200.
ReleaseResponse(s) ==
  /\ Point(s, "release", "count")
  /\ response' = [response EXCEPT ![request[s].buffer] = "success"]
  /\ UNCHANGED <<countVars, unregistered, requestPanic, requestHistory>>

-----------------------------------------------------------------------------
(* Counting *)

\* A goroutine to count and, if the environment asks for metrics, one for the
\* metric of errors.
Count(s, prometheus) ==
  /\ Point(s, "count", "idle")
  /\ waiting' = [waiting EXCEPT ![request[s].outcome] = @ + 1]
  /\ IncrementMetric(prometheus /\ request[s].outcome = "error")
  /\ UNCHANGED <<response, count, inside, resetting, requestPanic, requestHistory>>

\* Mutant of ReadCount: IncrementSuccess and IncrementError take no lock.
ReadCountUnlocked(k) ==
  /\ waiting[k] > 0
  /\ inside' = Append(inside, [kind |-> k, read |-> count[k]])
  /\ waiting' = [waiting EXCEPT ![k] = @ - 1]
  /\ UNCHANGED <<request, response, count, resetting, unregistered, requestPanic, requestHistory>>

\* IncrementSuccess or IncrementError takes the lock and reads its count.
ReadCount(k) ==
  /\ waiting[k] > 0 /\ inside = <<>>
  /\ inside' = Append(inside, [kind |-> k, read |-> count[k]])
  /\ waiting' = [waiting EXCEPT ![k] = @ - 1]
  /\ UNCHANGED <<request, response, count, resetting, unregistered, requestPanic, requestHistory>>

WriteCount ==
  /\ inside # <<>>
  /\ count' = [count EXCEPT ![Head(inside).kind] = Head(inside).read + 1]
  /\ inside' = Tail(inside)
  /\ UNCHANGED <<request, response, waiting, resetting, unregistered, requestPanic, requestHistory>>

Counted(k) == {s \in Stricker : request[s].pc \in {"release", "count"} /\ request[s].outcome = k}
Inside(k) == {i \in DOMAIN inside : inside[i].kind = k}

\* Answers whose outcome is known and that are not counted yet.
Uncounted(k) == waiting[k] + Cardinality(Inside(k)) + Cardinality(Counted(k))

\* Run sets one count to zero, then the other, while requests of the run before
\* may still be on their way.
Reset(k) ==
  /\ count' = [count EXCEPT ![k] = 0]
  /\ answered' = [answered EXCEPT ![k] = Uncounted(k)]
  /\ torn' = (torn \/ Inside(k) # {})
  /\ UNCHANGED <<request, response, waiting, inside, unregistered, requestPanic, made>>

ResetSuccess ==
  /\ ~resetting /\ resets < MaxResets
  /\ resetting' = TRUE /\ resets' = resets + 1
  /\ Reset("success")

ResetError ==
  /\ resetting /\ resetting' = FALSE
  /\ Reset("error")
  /\ UNCHANGED resets

RequestStep(s, wellFormed, prometheus) ==
  \/ AddHeaders(s, wellFormed) \/ ClientDo(s) \/ Judge(s) \/ ReleaseResponse(s)
  \/ Count(s, prometheus)

Counting == WriteCount \/ \E k \in Outcomes : ReadCount(k)
=============================================================================
