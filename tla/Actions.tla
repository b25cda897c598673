------------------------------ MODULE Actions ------------------------------
(***************************************************************************)
(* What the Strickers of one task execute: actions of the user, which call *)
(* Redis helpers, and requests of the built-in action.  A Stricker is in   *)
(* one call at a time; they share the pool of connections, the keys and    *)
(* the counts of the task.  A panic in any of them ends the program.       *)
(***************************************************************************)
EXTENDS RedisHelpers, Requests

CONSTANT Mixes  \* BOUND: what meets in one behaviour

ASSUME ActionConstants ==
  Mixes \subseteq
    [helpers : [Stricker -> SUBSET Helpers], keys : SUBSET Key, update : SUBSET Rates,
     named : BOOLEAN, requests : SUBSET Stricker, wellFormed : BOOLEAN, prometheus : BOOLEAN]

\* What each Stricker may call and with which keys, the rates the task may be
\* updated to, whether its actions name a Redis the task has, who makes requests,
\* whether the headers of the task have a colon each and whether config/env.json
\* turns the metrics on.
VARIABLE mix

actionVars == <<redisVars, requestVars, mix>>

ActionsInit == RedisInit /\ RequestInit /\ mix \in Mixes

Running == redisPanic = "no" /\ requestPanic = "no"

Free(s) == ~Busy(s) /\ request[s].pc = "idle"

CallHelper(s) ==
  /\ Running /\ Free(s)
  /\ \E op \in mix.helpers[s], k \in mix.keys :
       IF mix.named THEN Call(s, op, k) ELSE UnknownConnection(s)
  /\ IncrementMetric(mix.prometheus)
  /\ UNCHANGED <<request, response, countVars, requestPanic, requestHistory, mix>>

HelperStep(s) == Running /\ RedisStep(s) /\ UNCHANGED <<requestVars, mix>>

UpdateRate ==
  /\ Running /\ \E r \in mix.update : SetRedisConnectionPool(r)
  /\ UNCHANGED <<requestVars, mix>>

BeginRequest(s) ==
  /\ Running /\ s \in mix.requests /\ Free(s)
  /\ AcquireResponse(s, mix.prometheus)
  /\ UNCHANGED <<redisVars, mix>>

MakeRequest(s) ==
  /\ Running /\ RequestStep(s, mix.wellFormed, mix.prometheus)
  /\ UNCHANGED <<redisVars, mix>>

CountAnswer == Running /\ Counting /\ UNCHANGED <<redisVars, mix>>
CountMetric == Running /\ Increment /\ UNCHANGED <<redisVars, mix>>

Run ==
  /\ Running /\ mix.requests # {}
  /\ ResetSuccess \/ ResetError
  /\ UNCHANGED <<redisVars, mix>>

ActionsNext ==
  \/ \E s \in Stricker : CallHelper(s) \/ HelperStep(s) \/ BeginRequest(s) \/ MakeRequest(s)
  \/ UpdateRate \/ CountAnswer \/ CountMetric \/ Run

\* Goroutines are scheduled and the timeouts of both clients end what they wait
\* for; nobody has to call anything.
ActionsFairness ==
  /\ \A s \in Stricker : WF_actionVars(HelperStep(s)) /\ WF_actionVars(MakeRequest(s))
  /\ WF_actionVars(CountAnswer)

ActionsSpec == ActionsInit /\ [][ActionsNext]_actionVars /\ ActionsFairness

-----------------------------------------------------------------------------
(* What holds for the actions of a task *)

KeyState == [type : Types, size : 0 .. MaxElements, expires : BOOLEAN]
HelperState ==
  [op : DOMAIN Script, key : Key \cup {NoKey}, pool : Nat, at : Nat, type : Types,
   length : Nat, tries : Nat, found : BOOLEAN, err : BOOLEAN]

RedisTypeOK ==
  /\ rates \in Seq(Rates) /\ rates # <<>>
  /\ db \in [Key -> KeyState]
  /\ helper \in [Stricker -> HelperState]
  /\ \A s \in Stricker : helper[s].pool \in DOMAIN rates
  /\ \A s \in Stricker : Busy(s) => helper[s].at \in DOMAIN Script[helper[s].op]
  /\ conn \in [Stricker \X Levels -> Conns]
  /\ faults \in Nat /\ redisPanic \in {"no", "index", "name"}
  /\ misused \in BOOLEAN
  /\ excused \in [Stricker -> BOOLEAN] /\ shrunk \in [Stricker -> BOOLEAN]

RequestTypeOK ==
  /\ request \in [Stricker -> [pc : {"idle", "count"} \cup Holding, buffer : Buffer,
                               outcome : Outcomes]]
  /\ response \in [Buffer -> Outcomes]
  /\ count \in [Outcomes -> Nat] /\ waiting \in [Outcomes -> Nat]
  /\ inside \in Seq([kind : Outcomes, read : Nat])
  /\ resetting \in BOOLEAN /\ unregistered \in BOOLEAN
  /\ requestPanic \in {"no", "header", "metric"}
  /\ made \in Nat /\ resets \in Nat /\ answered \in [Outcomes -> Nat] /\ torn \in BOOLEAN

\* Every state is well typed, and no helper has a step it does not know.
ActionsTypeOK == RedisTypeOK /\ RequestTypeOK /\ mix \in Mixes

\* The pools hold enough connections for Strickers that need two at a time.
Fits == \A p \in DOMAIN rates : 3 * rates[p] >= 2 * Cardinality(Stricker)

\* Each panic of a call has its own cause.  HMGETRedis has no first value only
\* because Redis failed, a key held another type, or the pool of some rate has
\* too few connections for the Strickers; a connection is missing only if the
\* action names a Redis the task has not; a header is out of range only without
\* a colon; a metric is nil only with the metrics on.
ActionPanicCause ==
  /\ redisPanic = "index" => faults > 0 \/ misused \/ ~Fits
  /\ redisPanic = "name" => ~mix.named
  /\ requestPanic = "header" => ~mix.wellFormed
  /\ requestPanic = "metric" => mix.prometheus

\* A read at random of a list fails only for a reason: Redis failed, or the key
\* was gone or changed its type under the helper's hands; with an error also when
\* the key lost elements after they were counted; without one also when what it
\* held was no list.  A set is never read: its elements are counted with SCARD,
\* but asked for with LINDEX, which finds a value only if the set was emptied and
\* became a list in between.
ReadCause ==
  \A s \in Stricker :
    helper[s].op = "LGet" /\ Busy(s) /\ At(s) = "close" =>
      IF helper[s].type = "set"
        THEN helper[s].found => shrunk[s]
        ELSE ~helper[s].found =>
               excused[s] \/ IF helper[s].err THEN shrunk[s] ELSE helper[s].type # "list"

\* A string stays for ever only if Redis failed between SET and EXPIRE, also
\* when several Strickers set the same key.
KeysExpire ==
  \A k \in Key :
    db[k].type = "string" /\ ~db[k].expires =>
      \/ faults > 0
      \/ \E s \in Stricker : helper[s].op = "SetData" /\ helper[s].key = k /\ At(s) = "EXPIRE"

\* The counts of a run are those of the answers since Run reset them, with the
\* late ones of the run before, whichever goroutines count at the same time and
\* whoever is answered into the same response; unless the reset came between
\* the read and the write of a count.
CountsExact ==
  ~torn => \A k \in Outcomes : count[k] + Uncounted(k) = answered[k]

\* Every call returns, whether there is a connection or not, and is counted.
CallsEnd ==
  /\ \A s \in Stricker : ~Free(s) ~> Free(s) \/ ~Running
  /\ \A k \in Outcomes : waiting[k] > 0 \/ Inside(k) # {} ~>
       (waiting[k] = 0 /\ Inside(k) = {}) \/ ~Running
=============================================================================
