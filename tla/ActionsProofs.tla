--------------------------- MODULE ActionsProofs ---------------------------
(***************************************************************************)
(* Proofs about the actions of a task, for any number of Strickers, keys,  *)
(* rates and responses, and whatever they call: every state is well typed; *)
(* then what makes an action panic, find no value, leave a key for ever or *)
(* miscount.                                                               *)
(***************************************************************************)
EXTENDS Actions, FiniteSetTheorems, SequenceTheorems, TLAPS

-----------------------------------------------------------------------------
(* Scripts *)

LEMMA ScriptNames ==
  DOMAIN Script = {"none", "LPop", "LGet", "LPush", "SPop", "SGet", "SAdd", "HMSet", "HMGet",
                   "SetData", "GetData", "GetSession", "Wait"}
BY DEF Script

\* Where the steps that are not commands are.
LEMMA ScriptShape ==
  ASSUME NEW op \in Helpers, NEW i \in DOMAIN Script[op]
  PROVE  /\ i \in Nat \ {0} /\ 1 \in DOMAIN Script[op]
         /\ Script[op][1] = "get"
         /\ i + 1 \in DOMAIN Script[op] <=> Script[op][i] # "close"
         /\ Script[op][i] = "get" => i = 1
         /\ Script[op][i] = "getInner" => op = "LGet" /\ i = 2
         /\ Script[op][i] = "closeInner" => op = "LGet" /\ i = 5
         /\ Script[op][i] = "close" => ~(op = "LGet" /\ i \in 3 .. 5)
<1>1. CASE op \in {"LPop", "LPush", "SPop", "SGet", "SAdd", "HMSet"}
  BY <1>1 DEF Script
<1>2. CASE op \in {"HMGet", "GetData", "Wait"}
  BY <1>2 DEF Script
<1>3. CASE op = "LGet"
  BY <1>3 DEF Script
<1>4. CASE op = "SetData"
  BY <1>4 DEF Script, SetRedisData
<1>5. CASE op = "GetSession"
  BY <1>5 DEF Script
<1> QED
  BY <1>1, <1>2, <1>3, <1>4, <1>5, ScriptNames DEF Helpers

-----------------------------------------------------------------------------
(* Type correctness of the helpers *)

\* What every step of a helper does to it, and to nobody else.
Advance(s, h) ==
  /\ helper' = [helper EXCEPT ![s] = h]
  /\ h \in HelperState /\ h.pool = helper[s].pool
  /\ h.op # "none" => h.at \in DOMAIN Script[h.op]
  /\ rates' = rates

LEMMA HelperFacts ==
  ASSUME RedisTypeOK, NEW s \in Stricker, Busy(s)
  PROVE  /\ helper[s] \in HelperState /\ helper[s].op \in Helpers
         /\ helper[s].at \in DOMAIN Script[helper[s].op] /\ helper[s].at \in Nat
         /\ At(s) # "close" => helper[s].at + 1 \in DOMAIN Script[helper[s].op]
BY ScriptShape DEF RedisTypeOK, Busy, Helpers, HelperState, At

LEMMA AdvanceTyped ==
  ASSUME RedisTypeOK, NEW s \in Stricker, NEW h, Advance(s, h)
  PROVE  /\ rates' \in Seq(Rates) /\ rates' # <<>>
         /\ helper' \in [Stricker -> HelperState]
         /\ \A u \in Stricker : helper'[u].pool \in DOMAIN rates'
         /\ \A u \in Stricker : Busy(u)' => helper'[u].at \in DOMAIN Script[helper'[u].op]
BY DEF RedisTypeOK, Advance, Busy

\* A command over a connection leaves it a connection.
LEMMA ReachTyped ==
  ASSUME RedisTypeOK, NEW s \in Stricker, NEW level \in Levels, NEW reached \in BOOLEAN,
         Reach(s, level, reached)
  PROVE  conn' \in [Stricker \X Levels -> Conns] /\ faults' \in Nat
<1>1. <<s, level>> \in Stricker \X Levels
  OBVIOUS
<1>2. CASE UNCHANGED <<conn, faults>>
  BY <1>2 DEF RedisTypeOK
<1>3. CASE conn' = [conn EXCEPT ![<<s, level>>] = "broken"] /\ Fault
  <2>1. faults' = faults + 1 /\ "broken" \in Conns
    BY <1>3 DEF Fault, Conns
  <2> QED
    BY <1>1, <1>3, <2>1 DEF RedisTypeOK
<1> QED
  BY <1>2, <1>3, Zenon DEF Reach

LEMMA AfterTyped ==
  ASSUME NEW v \in KeyState, NEW cmd \in Plain
  PROVE  After(cmd, v) \in KeyState
<1>1. CASE cmd \in {"LPOP", "SPOP"}
  BY <1>1, RedisConstants DEF KeyState, After, Less, Absent, Types
<1>2. CASE cmd \in {"LPUSH", "SADD", "HMSET"}
  <2>1. For[cmd] \in Types
    <3>1. For["LPUSH"] = "list" /\ For["SADD"] = "set" /\ For["HMSET"] = "hash"
      BY DEF For
    <3> QED
      BY <1>2, <3>1 DEF Types
  <2>2. More(v, For[cmd]) \in KeyState
    <3>1. \A t \in Types : More(v, t) \in KeyState
      <4>1. (IF v.size < MaxElements THEN v.size + 1 ELSE v.size) \in 0 .. MaxElements
        BY RedisConstants DEF KeyState
      <4> QED
        BY <4>1, Zenon DEF KeyState, More
    <3> QED
      BY <2>1, <3>1
  <2>3. After(cmd, v) = More(v, For[cmd])
    <3>1. cmd \notin {"LPOP", "SPOP"}
      BY <1>2
    <3> QED
      BY <1>2, <3>1, Zenon DEF After
  <2> QED
    BY <2>2, <2>3
<1>3. CASE cmd = "SET"
  <2>1. After(cmd, v) = [type |-> "string", size |-> 1, expires |-> FALSE]
    BY <1>3 DEF After
  <2> QED
    BY <2>1, RedisConstants DEF KeyState, Types
<1>4. CASE cmd = "EXPIRE"
  <2>1. After(cmd, v) = [v EXCEPT !.expires = TRUE] \/ After(cmd, v) = v
    BY <1>4 DEF After
  <2> QED
    BY <2>1 DEF KeyState
<1>5. CASE cmd \in {"SRANDMEMBER", "GET", "HMGET"}
  BY <1>5 DEF After
<1> QED
  BY <1>1, <1>2, <1>3, <1>4, <1>5 DEF Plain, Reads

LEMMA CallTypeOK ==
  ASSUME RedisTypeOK, NEW s \in Stricker, NEW op \in Helpers, NEW k \in Key, Call(s, op, k)
  PROVE  RedisTypeOK'
<1> DEFINE h == [Idle EXCEPT !.op = op, !.key = k, !.pool = Len(rates)]
<1>1. h.op = op /\ h.pool = Len(rates) /\ h.at = 1 /\ h \in HelperState
  <2>1. Len(rates) \in Nat /\ op \in DOMAIN Script
    BY DEF RedisTypeOK, Helpers
  <2> QED
    BY <2>1 DEF HelperState, Idle, Types
<1>2. Len(rates) \in DOMAIN rates
  BY DEF RedisTypeOK
<1>3. 1 \in DOMAIN Script[op]
  BY ScriptNames, ScriptShape DEF Helpers, Script, SetRedisData
<1>4. helper' = [helper EXCEPT ![s] = h]
      /\ UNCHANGED <<rates, db, conn, faults, redisPanic, historyVars>>
  BY DEF Call
<1> HIDE DEF h
<1> QED
  BY <1>1, <1>2, <1>3, <1>4 DEF RedisTypeOK, Busy, historyVars

LEMMA GetTypeOK ==
  ASSUME RedisTypeOK, NEW s \in Stricker, NEW level \in Levels, Busy(s), At(s) # "close",
         Get(s, level)
  PROVE  RedisTypeOK'
<1> DEFINE h == [helper[s] EXCEPT !.at = @ + 1]
<1>1. Advance(s, h)
  BY HelperFacts DEF Get, Advance, HelperState
<1>2. PICK c \in {"open", "refused"} : conn' = [conn EXCEPT ![<<s, level>>] = c]
  BY DEF Get
<1>3. faults' \in Nat
  BY DEF Get, Fault, RedisTypeOK
<1>4. conn' \in [Stricker \X Levels -> Conns]
  BY <1>2 DEF RedisTypeOK, Conns
<1>5. UNCHANGED <<db, redisPanic, historyVars>>
  BY DEF Get
<1> QED
  BY <1>1, <1>3, <1>4, <1>5, AdvanceTyped DEF RedisTypeOK, historyVars

LEMMA CloseInnerTypeOK ==
  ASSUME RedisTypeOK, NEW s \in Stricker, Busy(s), CloseInner(s)
  PROVE  RedisTypeOK'
<1> DEFINE h == [helper[s] EXCEPT !.at = @ + 1]
<1>1. Advance(s, h)
  BY HelperFacts DEF CloseInner, Advance, HelperState
<1>2. conn' \in [Stricker \X Levels -> Conns]
  BY DEF CloseInner, RedisTypeOK, Conns
<1>3. UNCHANGED <<db, faults, redisPanic, historyVars>>
  BY DEF CloseInner
<1> QED
  BY <1>1, <1>2, <1>3, AdvanceTyped DEF RedisTypeOK, historyVars

LEMMA ReturnTypeOK ==
  ASSUME RedisTypeOK, NEW s \in Stricker, Busy(s), Return(s)
  PROVE  RedisTypeOK'
<1>1. Idle \in HelperState /\ Idle.op = "none" /\ Idle.pool = 1
  BY ScriptNames DEF Idle, HelperState, Types
<1>2. 1 \in DOMAIN rates
  BY DEF RedisTypeOK
<1>3. conn' \in [Stricker \X Levels -> Conns]
  BY DEF Return, RedisTypeOK, Conns
<1>4. redisPanic' \in {"no", "index", "name"}
  BY DEF Return, RedisTypeOK
<1>5. excused' \in [Stricker -> BOOLEAN] /\ shrunk' \in [Stricker -> BOOLEAN]
  BY DEF Return, RedisTypeOK
<1>6. helper' = [helper EXCEPT ![s] = Idle] /\ UNCHANGED <<rates, db, faults, misused>>
  BY DEF Return
<1> QED
  BY <1>1, <1>2, <1>3, <1>4, <1>5, <1>6 DEF RedisTypeOK, Busy

\* A command changes what its helper has learnt, and may break its connection.
LEMMA LearnTypeOK ==
  ASSUME RedisTypeOK, NEW s \in Stricker, NEW h, NEW served, Busy(s),
         Learn(s, h, served),
         h \in HelperState, h.pool = helper[s].pool, h.op = helper[s].op,
         h.at \in {helper[s].at, helper[s].at + 1}, At(s) # "close",
         conn' \in [Stricker \X Levels -> Conns], faults' \in Nat,
         db' \in [Key -> KeyState], misused' \in BOOLEAN, shrunk' \in [Stricker -> BOOLEAN]
  PROVE  RedisTypeOK'
<1>1. Advance(s, h)
  BY HelperFacts DEF Learn, Advance
<1>2. excused' \in [Stricker -> BOOLEAN]
  BY DEF Learn, RedisTypeOK
<1>3. redisPanic' \in {"no", "index", "name"}
  BY DEF Learn, RedisTypeOK
<1> QED
  BY <1>1, <1>2, <1>3, AdvanceTyped DEF RedisTypeOK

\* A command whose reply is the result, as far as its effects go.
LEMMA DoFacts ==
  ASSUME NEW s \in Stricker, Do(s)
  PROVE  \E reached, wrong, ok, found, err \in BOOLEAN :
           LET h == [helper[s] EXCEPT !.at = @ + 1, !.found = found, !.err = err] IN
           /\ At(s) \in Plain /\ Reach(s, "outer", reached)
           /\ Learn(s, h, reached /\ ~wrong)
           /\ wrong = (reached /\ WrongType(At(s), Value(s)))
           /\ ok = (reached /\ ~wrong /\ Converts(At(s), Value(s)))
           /\ err = (helper[s].err \/ ~ok)
           /\ db' = IF reached /\ ~wrong /\ helper[s].key # NoKey
                      THEN [db EXCEPT ![helper[s].key] = After(At(s), Value(s))] ELSE db
           /\ misused' = (misused \/ wrong)
           /\ \E f \in [Stricker -> BOOLEAN] : shrunk' = f
<1>1. PICK reached \in BOOLEAN :
        LET cmd == At(s)
            k == helper[s].key
            v == Value(s)
            wrong == reached /\ WrongType(cmd, v)
            ok == reached /\ ~wrong /\ Converts(cmd, v)
        IN  /\ cmd \in Plain
            /\ Reach(s, "outer", reached)
            /\ db' = IF reached /\ ~wrong /\ k # NoKey THEN [db EXCEPT ![k] = After(cmd, v)] ELSE db
            /\ Learn(s, [helper[s] EXCEPT !.at = @ + 1, !.found = ok /\ cmd \in Reads,
                                          !.err = @ \/ ~ok], reached /\ ~wrong)
            /\ misused' = (misused \/ wrong)
            /\ shrunk' = [u \in Stricker |->
                 \/ shrunk[u]
                 \/ /\ ok /\ cmd \in {"LPOP", "SPOP"}
                    /\ helper[u].op = "LGet" /\ helper[u].at \in 5 .. 6 /\ helper[u].key = k]
  BY Zenon DEF Do
<1> QED
  BY <1>1, Zenon

LEMMA DoTypeOK ==
  ASSUME RedisTypeOK, NEW s \in Stricker, Busy(s), Do(s)
  PROVE  RedisTypeOK'
<1>1. PICK reached, wrong, ok, found, err \in BOOLEAN :
        LET h == [helper[s] EXCEPT !.at = @ + 1, !.found = found, !.err = err] IN
        /\ At(s) \in Plain /\ Reach(s, "outer", reached)
        /\ Learn(s, h, reached /\ ~wrong)
        /\ wrong = (reached /\ WrongType(At(s), Value(s)))
        /\ ok = (reached /\ ~wrong /\ Converts(At(s), Value(s)))
        /\ err = (helper[s].err \/ ~ok)
        /\ db' = IF reached /\ ~wrong /\ helper[s].key # NoKey
                   THEN [db EXCEPT ![helper[s].key] = After(At(s), Value(s))] ELSE db
        /\ misused' = (misused \/ wrong)
        /\ \E f \in [Stricker -> BOOLEAN] : shrunk' = f
  BY DoFacts
<1> DEFINE h == [helper[s] EXCEPT !.at = @ + 1, !.found = found, !.err = err]
<1>2. Learn(s, h, reached /\ ~wrong) /\ Reach(s, "outer", reached) /\ At(s) \in Plain
  BY <1>1
<1>3. h \in HelperState /\ h.pool = helper[s].pool /\ h.op = helper[s].op
      /\ h.at = helper[s].at + 1
  <2>1. helper[s] \in HelperState /\ helper[s].at + 1 \in Nat
    BY HelperFacts
  <2> QED
    BY <2>1, Zenon DEF HelperState
<1>4. At(s) # "close"
  BY <1>2 DEF Plain, Reads
<1>5. conn' \in [Stricker \X Levels -> Conns] /\ faults' \in Nat
  BY <1>2, ReachTyped DEF Levels
<1>6. db' \in [Key -> KeyState]
  <2>1. CASE helper[s].key # NoKey
    <3>1. helper[s].key \in Key /\ Value(s) \in KeyState
      BY <2>1, HelperFacts DEF HelperState, Value, RedisTypeOK
    <3>2. After(At(s), Value(s)) \in KeyState
      BY <1>2, <3>1, AfterTyped
    <3> QED
      BY <1>1, <3>1, <3>2 DEF RedisTypeOK
  <2>2. CASE helper[s].key = NoKey
    BY <1>1, <2>2 DEF RedisTypeOK
  <2> QED
    BY <2>1, <2>2
<1>7. misused' \in BOOLEAN
  BY <1>1, Zenon
<1>8. shrunk' \in [Stricker -> BOOLEAN]
  BY <1>1, Zenon
<1> HIDE DEF h
<1> QED
  BY <1>2, <1>3, <1>4, <1>5, <1>6, <1>7, <1>8, LearnTypeOK

LEMMA ValueTyped ==
  ASSUME RedisTypeOK, NEW s \in Stricker, Busy(s)
  PROVE  Value(s).type \in Types /\ Value(s).size \in Nat
BY RedisConstants, HelperFacts DEF RedisTypeOK, Value, Absent, Types, KeyState, HelperState

\* The commands of LGetRedisValue, GetSessionData and the wait for a key.
LEMMA AskTypeOK ==
  ASSUME RedisTypeOK, NEW s \in Stricker, Busy(s),
         GetKeyType(s) \/ GetLength(s) \/ LIndex(s) \/ RandomKey(s) \/ IsKeyAvailable(s)
  PROVE  RedisTypeOK'
<1>f. /\ helper[s] \in HelperState
      /\ helper[s].at + 1 \in Nat /\ helper[s].tries + 1 \in Nat
  BY HelperFacts DEF HelperState
<1>v. Value(s).type \in Types /\ Value(s).size \in Nat
  BY ValueTyped
<1>u. ASSUME UNCHANGED <<conn, faults>>
      PROVE  conn' \in [Stricker \X Levels -> Conns] /\ faults' \in Nat
  BY <1>u DEF RedisTypeOK
<1>k. ASSUME UNCHANGED <<db, shrunk>>
      PROVE  db' \in [Key -> KeyState] /\ shrunk' \in [Stricker -> BOOLEAN]
  BY <1>k DEF RedisTypeOK
<1>l. "inner" \in Levels /\ "outer" \in Levels
  BY DEF Levels
<1>1. CASE GetKeyType(s)
  <2>1. PICK reached \in BOOLEAN :
          /\ At(s) = "TYPE" /\ Reach(s, "inner", reached)
          /\ Learn(s, [helper[s] EXCEPT !.at = @ + 1,
                        !.type = IF reached THEN Value(s).type ELSE "none"], reached)
          /\ UNCHANGED <<db, misused, shrunk>>
    BY <1>1, Zenon DEF GetKeyType
  <2> DEFINE h == [helper[s] EXCEPT !.at = @ + 1,
                                    !.type = IF reached THEN Value(s).type ELSE "none"]
  <2>0. "none" \in Types
    BY DEF Types
  <2>2. h \in HelperState /\ h.pool = helper[s].pool /\ h.op = helper[s].op
        /\ h.at = helper[s].at + 1
    BY <1>f, <1>v, <2>0, Zenon DEF HelperState
  <2>3. Learn(s, h, reached) /\ At(s) # "close"
    BY <2>1
  <2>4. misused' \in BOOLEAN
    BY <2>1 DEF RedisTypeOK
  <2> HIDE DEF h
  <2> QED
    BY <1>k, <1>l, <2>1, <2>2, <2>3, <2>4, ReachTyped, LearnTypeOK
<1>2. CASE GetLength(s)
  <2>1. PICK reached \in BOOLEAN, wrong \in BOOLEAN, measured \in BOOLEAN :
          /\ At(s) = "LEN"
          /\ Reach(s, "inner", reached) \/ UNCHANGED <<conn, faults>>
          /\ Learn(s, [helper[s] EXCEPT !.at = @ + 1,
               !.length = IF measured /\ reached /\ ~wrong THEN Value(s).size ELSE 0],
                      reached /\ ~wrong)
          /\ misused' = (misused \/ wrong)
          /\ UNCHANGED <<db, shrunk>>
    BY <1>2, Zenon DEF GetLength
  <2> DEFINE h == [helper[s] EXCEPT !.at = @ + 1,
                !.length = IF measured /\ reached /\ ~wrong THEN Value(s).size ELSE 0]
  <2>2. h \in HelperState /\ h.pool = helper[s].pool /\ h.op = helper[s].op
        /\ h.at = helper[s].at + 1
    BY <1>f, <1>v, Zenon DEF HelperState
  <2>3. Learn(s, h, reached /\ ~wrong) /\ At(s) # "close"
    BY <2>1
  <2>4. misused' \in BOOLEAN
    BY <2>1, Zenon
  <2> HIDE DEF h
  <2> QED
    BY <1>k, <1>l, <1>u, <2>1, <2>2, <2>3, <2>4, ReachTyped, LearnTypeOK
<1>3. CASE LIndex(s)
  <2>1. PICK reached \in BOOLEAN, wrong \in BOOLEAN, found \in BOOLEAN, err \in BOOLEAN :
          /\ At(s) = "LINDEX"
          /\ Reach(s, "outer", reached) \/ UNCHANGED <<conn, faults>>
          /\ Learn(s, [helper[s] EXCEPT !.at = @ + 1, !.found = found, !.err = err],
                      reached /\ ~wrong)
          /\ misused' = (misused \/ wrong)
          /\ UNCHANGED <<db, shrunk>>
    BY <1>3, Zenon DEF LIndex
  <2> DEFINE h == [helper[s] EXCEPT !.at = @ + 1, !.found = found, !.err = err]
  <2>2. h \in HelperState /\ h.pool = helper[s].pool /\ h.op = helper[s].op
        /\ h.at = helper[s].at + 1
    BY <1>f, Zenon DEF HelperState
  <2>3. Learn(s, h, reached /\ ~wrong) /\ At(s) # "close"
    BY <2>1
  <2>4. misused' \in BOOLEAN
    BY <2>1, Zenon
  <2> HIDE DEF h
  <2> QED
    BY <1>k, <1>l, <1>u, <2>1, <2>2, <2>3, <2>4, ReachTyped, LearnTypeOK
<1>4. CASE RandomKey(s)
  <2>1. PICK reached \in BOOLEAN, k \in Key \cup {NoKey} :
          /\ At(s) = "RANDOMKEY" /\ Reach(s, "outer", reached)
          /\ Learn(s, [helper[s] EXCEPT !.at = @ + 1, !.key = k], reached)
          /\ UNCHANGED <<db, misused, shrunk>>
    BY <1>4, Zenon DEF RandomKey
  <2> DEFINE h == [helper[s] EXCEPT !.at = @ + 1, !.key = k]
  <2>2. h \in HelperState /\ h.pool = helper[s].pool /\ h.op = helper[s].op
        /\ h.at = helper[s].at + 1
    BY <1>f, Zenon DEF HelperState
  <2>3. Learn(s, h, reached) /\ At(s) # "close"
    BY <2>1
  <2>4. misused' \in BOOLEAN
    BY <2>1 DEF RedisTypeOK
  <2> HIDE DEF h
  <2> QED
    BY <1>k, <1>l, <2>1, <2>2, <2>3, <2>4, ReachTyped, LearnTypeOK
<1>5. CASE IsKeyAvailable(s)
  <2>1. PICK reached \in BOOLEAN, there \in BOOLEAN, asks \in BOOLEAN :
          /\ At(s) = "EXISTS"
          /\ Reach(s, "outer", reached) \/ UNCHANGED <<conn, faults>>
          /\ Learn(s, [helper[s] EXCEPT !.at = IF there \/ ~asks THEN @ + 1 ELSE @,
               !.tries = IF asks THEN @ + 1 ELSE @, !.found = there], reached)
          /\ UNCHANGED <<db, misused, shrunk>>
    BY <1>5, Zenon DEF IsKeyAvailable
  <2> DEFINE h == [helper[s] EXCEPT !.at = IF there \/ ~asks THEN @ + 1 ELSE @,
                      !.tries = IF asks THEN @ + 1 ELSE @, !.found = there]
  <2>2. h \in HelperState /\ h.pool = helper[s].pool /\ h.op = helper[s].op
        /\ h.at \in {helper[s].at, helper[s].at + 1}
    BY <1>f, Zenon DEF HelperState
  <2>3. Learn(s, h, reached) /\ At(s) # "close"
    BY <2>1
  <2>4. misused' \in BOOLEAN
    BY <2>1 DEF RedisTypeOK
  <2> HIDE DEF h
  <2> QED
    BY <1>k, <1>l, <1>u, <2>1, <2>2, <2>3, <2>4, ReachTyped, LearnTypeOK
<1> QED
  BY <1>1, <1>2, <1>3, <1>4, <1>5

LEMMA RedisStepTypeOK ==
  ASSUME RedisTypeOK, NEW s \in Stricker, RedisStep(s)
  PROVE  RedisTypeOK'
<1>1. Busy(s) /\ "outer" \in Levels /\ "inner" \in Levels
  BY DEF RedisStep, Levels
<1>2. CASE At(s) = "get" /\ Get(s, "outer")
  BY <1>1, <1>2, GetTypeOK
<1>3. CASE At(s) = "getInner" /\ Get(s, "inner")
  BY <1>1, <1>3, GetTypeOK
<1> QED
  BY <1>1, <1>2, <1>3, CloseInnerTypeOK, ReturnTypeOK, DoTypeOK, AskTypeOK DEF RedisStep

-----------------------------------------------------------------------------
(* Type correctness of requests and counts *)

RequestState ==
  [pc : {"idle", "count"} \cup Holding, buffer : Buffer, outcome : Outcomes]

LEMMA RequestStepTypeOK ==
  ASSUME RequestTypeOK, NEW s \in Stricker, NEW w \in BOOLEAN, NEW m \in BOOLEAN,
         AcquireResponse(s, m) \/ RequestStep(s, w, m)
  PROVE  RequestTypeOK'
<1>0. request \in [Stricker -> RequestState] /\ request[s] \in RequestState
  BY DEF RequestTypeOK, RequestState
<1>1. CASE AcquireResponse(s, m)
  <2>1. PICK b \in Buffer :
          request' = [request EXCEPT ![s] = [NoRequest EXCEPT !.pc = "build", !.buffer = b]]
    BY <1>1 DEF AcquireResponse
  <2>2. [NoRequest EXCEPT !.pc = "build", !.buffer = b] \in RequestState
    BY DEF NoRequest, RequestState, Holding, Outcomes
  <2>3. request' \in [Stricker -> RequestState]
    BY <1>0, <2>1, <2>2
  <2>4. unregistered' \in BOOLEAN
    BY <1>1, Zenon DEF AcquireResponse, IncrementMetric
  <2>5. UNCHANGED <<response, countVars, requestPanic, resets, answered, torn>>
    BY <1>1, Zenon DEF AcquireResponse
  <2>6. made' = made + 1
    BY <1>1, Zenon DEF AcquireResponse
  <2> QED
    BY <2>3, <2>4, <2>5, <2>6, SMTT(40) DEF RequestTypeOK, RequestState, countVars
<1>2. ASSUME NEW from, NEW to \in {"do", "judge", "count", "idle"}, Point(s, from, to)
      PROVE  request' \in [Stricker -> RequestState]
  BY <1>0, <1>2 DEF Point, RequestState, Holding
<1>3. CASE AddHeaders(s, w)
  <2>1. request' \in [Stricker -> RequestState]
    BY <1>2, <1>3 DEF AddHeaders
  <2>2. requestPanic' \in {"no", "header", "metric"}
    BY <1>3 DEF AddHeaders, RequestTypeOK
  <2>3. UNCHANGED <<response, countVars, unregistered, requestHistory>>
    BY <1>3 DEF AddHeaders
  <2> QED
    BY <2>1, <2>2, <2>3 DEF RequestTypeOK, RequestState, countVars, requestHistory
<1>4. CASE ClientDo(s)
  <2>1. request' \in [Stricker -> RequestState]
    BY <1>2, <1>4 DEF ClientDo
  <2>2. response' \in [Buffer -> Outcomes]
    BY <1>4 DEF ClientDo, RequestTypeOK
  <2>3. UNCHANGED <<countVars, unregistered, requestPanic, requestHistory>>
    BY <1>4 DEF ClientDo
  <2> QED
    BY <2>1, <2>2, <2>3 DEF RequestTypeOK, RequestState, countVars, requestHistory
<1>5. CASE Judge(s)
  <2>1. response[request[s].buffer] \in Outcomes
    BY <1>0 DEF RequestTypeOK, RequestState
  <2>2. PICK k \in Outcomes :
          /\ request' = [request EXCEPT ![s].pc = "release", ![s].outcome = k]
          /\ answered' = [answered EXCEPT ![k] = @ + 1]
    BY <1>5, <2>1 DEF Judge
  <2>3. request' \in [Stricker -> RequestState]
    BY <1>0, <2>2 DEF RequestState, Holding
  <2>4. answered' \in [Outcomes -> Nat]
    BY <2>2 DEF RequestTypeOK
  <2>5. UNCHANGED <<response, countVars, unregistered, requestPanic, made, resets, torn>>
    BY <1>5 DEF Judge
  <2> QED
    BY <2>3, <2>4, <2>5 DEF RequestTypeOK, RequestState, countVars
<1>6. CASE ReleaseResponse(s)
  <2>1. request' \in [Stricker -> RequestState]
    BY <1>2, <1>6 DEF ReleaseResponse
  <2>2. response' \in [Buffer -> Outcomes]
    BY <1>6 DEF ReleaseResponse, RequestTypeOK, Outcomes
  <2>3. UNCHANGED <<countVars, unregistered, requestPanic, requestHistory>>
    BY <1>6 DEF ReleaseResponse
  <2> QED
    BY <2>1, <2>2, <2>3 DEF RequestTypeOK, RequestState, countVars, requestHistory
<1>7. CASE Count(s, m)
  <2>1. request' \in [Stricker -> RequestState]
    BY <1>2, <1>7 DEF Count
  <2>2. waiting' \in [Outcomes -> Nat]
    BY <1>0, <1>7 DEF Count, RequestTypeOK, RequestState
  <2>3. unregistered' \in BOOLEAN
    BY <1>7, Zenon DEF Count, IncrementMetric
  <2>4. UNCHANGED <<response, count, inside, resetting, requestPanic, requestHistory>>
    BY <1>7 DEF Count
  <2> QED
    BY <2>1, <2>2, <2>3, <2>4 DEF RequestTypeOK, RequestState, requestHistory
<1> QED
  BY <1>1, <1>3, <1>4, <1>5, <1>6, <1>7 DEF RequestStep

LEMMA CountingTypeOK ==
  ASSUME RequestTypeOK, Counting \/ ResetSuccess \/ ResetError \/ Increment
  PROVE  RequestTypeOK'
<1>1. CASE WriteCount
  <2>1. Head(inside) \in [kind : Outcomes, read : Nat]
        /\ Tail(inside) \in Seq([kind : Outcomes, read : Nat])
    BY <1>1, HeadTailProperties DEF WriteCount, RequestTypeOK
  <2>2. count' \in [Outcomes -> Nat] /\ inside' \in Seq([kind : Outcomes, read : Nat])
    BY <1>1, <2>1, SMTT(40) DEF WriteCount, RequestTypeOK
  <2>3. UNCHANGED <<request, response, waiting, resetting, unregistered, requestPanic,
                    requestHistory>>
    BY <1>1 DEF WriteCount
  <2> QED
    BY <2>2, <2>3 DEF RequestTypeOK, requestHistory
<1>2. ASSUME NEW k \in Outcomes, ReadCount(k) PROVE RequestTypeOK'
  <2>1. [kind |-> k, read |-> count[k]] \in [kind : Outcomes, read : Nat]
    BY DEF RequestTypeOK
  <2>2. inside' \in Seq([kind : Outcomes, read : Nat])
    BY <1>2, <2>1, AppendProperties DEF ReadCount, RequestTypeOK
  <2>3. waiting' \in [Outcomes -> Nat]
    BY <1>2 DEF ReadCount, RequestTypeOK
  <2>4. UNCHANGED <<request, response, count, resetting, unregistered, requestPanic,
                    requestHistory>>
    BY <1>2 DEF ReadCount
  <2> QED
    BY <2>2, <2>3, <2>4 DEF RequestTypeOK, requestHistory
<1>3. ASSUME NEW k \in Outcomes, Reset(k), resetting' \in BOOLEAN, resets' \in Nat
      PROVE  RequestTypeOK'
  <2>1. Uncounted(k) \in Nat
    <3>1. IsFiniteSet(Counted(k))
      BY SomeStrickers, FS_Subset DEF Counted
    <3>2. IsFiniteSet(Inside(k))
      <4>1. IsFiniteSet(1 .. Len(inside)) /\ Inside(k) \subseteq 1 .. Len(inside)
        <5>1. Len(inside) \in Nat /\ DOMAIN inside = 1 .. Len(inside)
          BY DEF RequestTypeOK
        <5>2. IsFiniteSet(1 .. Len(inside))
          BY <5>1, FS_Interval
        <5> QED
          BY <5>1, <5>2 DEF Inside
      <4> QED
        BY <4>1, FS_Subset
    <3>3. Cardinality(Counted(k)) \in Nat /\ Cardinality(Inside(k)) \in Nat
      BY <3>1, <3>2, FS_CardinalityType
    <3> QED
      BY <3>3 DEF Uncounted, RequestTypeOK
  <2>2. count' \in [Outcomes -> Nat] /\ answered' \in [Outcomes -> Nat]
    BY <1>3, <2>1 DEF Reset, RequestTypeOK
  <2>3. torn' \in BOOLEAN
    BY <1>3, Zenon DEF Reset
  <2>4. UNCHANGED <<request, response, waiting, inside, unregistered, requestPanic, made>>
    BY <1>3 DEF Reset
  <2> QED
    BY <1>3, <2>2, <2>3, <2>4 DEF RequestTypeOK
<1>4. CASE ResetSuccess
  BY <1>3, <1>4, SMTT(40) DEF ResetSuccess, RequestTypeOK, Outcomes
<1>5. CASE ResetError
  BY <1>3, <1>5 DEF ResetError, RequestTypeOK, Outcomes
<1>6. CASE Increment
  BY <1>6 DEF Increment, RequestTypeOK, countVars, requestHistory
<1> QED
  BY <1>1, <1>2, <1>4, <1>5, <1>6 DEF Counting

-----------------------------------------------------------------------------
LEMMA RedisUnchanged == RedisTypeOK /\ UNCHANGED redisVars => RedisTypeOK'
BY DEF RedisTypeOK, redisVars, historyVars, Busy

LEMMA RequestUnchanged == RequestTypeOK /\ UNCHANGED requestVars => RequestTypeOK'
BY DEF RequestTypeOK, requestVars, countVars, requestHistory

LEMMA MixFacts ==
  ASSUME mix \in Mixes
  PROVE  /\ \A s \in Stricker : mix.helpers[s] \subseteq Helpers
         /\ mix.keys \subseteq Key /\ mix.update \subseteq Rates
         /\ mix.wellFormed \in BOOLEAN /\ mix.prometheus \in BOOLEAN /\ mix.named \in BOOLEAN
BY ActionConstants

LEMMA CallOrPanic ==
  ASSUME NEW s \in Stricker, CallHelper(s)
  PROVE  \E op \in mix.helpers[s], k \in mix.keys :
           Call(s, op, k) \/ (UnknownConnection(s) /\ ~mix.named)
<1>1. PICK op \in mix.helpers[s], k \in mix.keys :
        IF mix.named THEN Call(s, op, k) ELSE UnknownConnection(s)
  BY DEF CallHelper
<1>2. CASE mix.named
  BY <1>1, <1>2, Zenon
<1>3. CASE ~mix.named
  BY <1>1, <1>3, Zenon
<1> QED
  BY <1>2, <1>3, Zenon

LEMMA ActionsInitTypeOK == ActionsInit => ActionsTypeOK
<1> SUFFICES ASSUME ActionsInit PROVE ActionsTypeOK
  OBVIOUS
<1>1. RedisTypeOK
  <2>1. Idle \in HelperState /\ Idle.op = "none" /\ Idle.pool = 1
    BY ScriptNames DEF Idle, HelperState, Types
  <2>2. Absent \in KeyState
    BY RedisConstants DEF Absent, KeyState, Types
  <2>3. PICK r \in Rates : rates = <<r>>
    BY DEF ActionsInit, RedisInit
  <2>4. rates \in Seq(Rates) /\ rates # <<>> /\ 1 \in DOMAIN rates
    BY <2>3
  <2> QED
    BY <2>1, <2>2, <2>4 DEF ActionsInit, RedisInit, RedisTypeOK, Busy, Conns
<1>2. RequestTypeOK
  <2>1. AnyBuffer \in Buffer
    BY RequestConstants DEF AnyBuffer
  <2> QED
    <3>1. NoRequest \in RequestState
      BY <2>1 DEF NoRequest, RequestState, Outcomes
    <3>2. request \in [Stricker -> RequestState] /\ response \in [Buffer -> Outcomes]
      BY <3>1 DEF ActionsInit, RequestInit, Outcomes
    <3>3. /\ count \in [Outcomes -> Nat] /\ waiting \in [Outcomes -> Nat]
          /\ answered \in [Outcomes -> Nat]
          /\ made \in Nat /\ resets \in Nat
          /\ inside \in Seq([kind : Outcomes, read : Nat])
      BY DEF ActionsInit, RequestInit
    <3>4. resetting \in BOOLEAN /\ unregistered \in BOOLEAN /\ torn \in BOOLEAN
      BY Zenon DEF ActionsInit, RequestInit
    <3>5. requestPanic \in {"no", "header", "metric"}
      BY DEF ActionsInit, RequestInit
    <3> QED
      BY <3>2, <3>3, <3>4, <3>5 DEF RequestTypeOK, RequestState
<1> QED
  BY <1>1, <1>2 DEF ActionsTypeOK, ActionsInit

LEMMA ActionsNextTypeOK == ActionsTypeOK /\ [ActionsNext]_actionVars => ActionsTypeOK'
<1> SUFFICES ASSUME ActionsTypeOK, [ActionsNext]_actionVars PROVE ActionsTypeOK'
  OBVIOUS
<1> USE DEF ActionsTypeOK
<1>1. ASSUME NEW s \in Stricker, CallHelper(s) PROVE ActionsTypeOK'
  <2>1. PICK op \in mix.helpers[s], k \in mix.keys : Call(s, op, k) \/ UnknownConnection(s)
    BY <1>1, CallOrPanic
  <2>2. RedisTypeOK'
    <3>1. CASE Call(s, op, k)
      BY <2>1, <3>1, MixFacts, CallTypeOK
    <3>2. CASE UnknownConnection(s)
      BY <3>2 DEF UnknownConnection, RedisTypeOK, historyVars, Busy
    <3> QED
      BY <2>1, <3>1, <3>2
  <2>3. unregistered' \in BOOLEAN
    BY <1>1, Zenon DEF CallHelper, IncrementMetric
  <2>4. UNCHANGED <<request, response, countVars, requestPanic, requestHistory, mix>>
    BY <1>1 DEF CallHelper
  <2>5. RequestTypeOK'
    BY <2>3, <2>4 DEF RequestTypeOK, countVars, requestHistory
  <2> QED
    BY <2>2, <2>4, <2>5
<1>2. ASSUME NEW s \in Stricker, HelperStep(s) PROVE ActionsTypeOK'
  BY <1>2, RedisStepTypeOK, RequestUnchanged DEF HelperStep
<1>3. ASSUME NEW s \in Stricker, BeginRequest(s) \/ MakeRequest(s) PROVE ActionsTypeOK'
  <2>1. RequestTypeOK'
    BY <1>3, MixFacts, RequestStepTypeOK DEF BeginRequest, MakeRequest
  <2> QED
    BY <1>3, <2>1, RedisUnchanged DEF BeginRequest, MakeRequest
<1>4. CASE UpdateRate
  <2>1. PICK r \in Rates : SetRedisConnectionPool(r)
    BY <1>4, MixFacts DEF UpdateRate
  <2>2. rates' \in Seq(Rates) /\ rates' # <<>> /\ DOMAIN rates \subseteq DOMAIN rates'
    BY <2>1, AppendProperties DEF SetRedisConnectionPool, RedisTypeOK
  <2>3. UNCHANGED <<db, helper, conn, faults, redisPanic, historyVars>>
    BY <2>1 DEF SetRedisConnectionPool
  <2>4. RedisTypeOK'
    BY <2>2, <2>3 DEF RedisTypeOK, historyVars, Busy
  <2> QED
    BY <1>4, <2>4, RequestUnchanged DEF UpdateRate
<1>5. CASE CountAnswer \/ CountMetric \/ Run
  BY <1>5, CountingTypeOK, RedisUnchanged DEF CountAnswer, CountMetric, Run
<1>6. CASE UNCHANGED actionVars
  BY <1>6, RedisUnchanged, RequestUnchanged DEF actionVars
<1> QED
  BY <1>1, <1>2, <1>3, <1>4, <1>5, <1>6 DEF ActionsNext

\* Every helper stays within its script and within the pools its task has had,
\* and every state is well typed, whatever the actions call.
THEOREM ActionsTypeCorrect == ActionsSpec => []ActionsTypeOK
BY ActionsInitTypeOK, ActionsNextTypeOK, PTL DEF ActionsSpec

-----------------------------------------------------------------------------
(* Room in the pool *)

LEMMA StrickersAtLevel ==
  ASSUME NEW l \in Levels
  PROVE  /\ IsFiniteSet(Stricker \X {l})
         /\ Cardinality(Stricker \X {l}) = Cardinality(Stricker)
<1> DEFINE f == [s \in Stricker |-> <<s, l>>]
<1>1. f \in Bijection(Stricker, Stricker \X {l})
  <2>1. f \in [Stricker -> Stricker \X {l}]
    OBVIOUS
  <2>2. \A s, u \in Stricker : f[s] = f[u] => s = u
    OBVIOUS
  <2>3. \A x \in Stricker \X {l} : \E s \in Stricker : f[s] = x
    OBVIOUS
  <2> HIDE DEF f
  <2> QED
    BY <2>1, <2>2, <2>3 DEF Bijection, Injection, IsInjective, Surjection
<1>2. ExistsBijection(Stricker, Stricker \X {l})
  BY <1>1 DEF ExistsBijection
<1> QED
  BY <1>2, SomeStrickers, FS_Bijection

\* Every Stricker has two connections at most.
LEMMA AllConnections ==
  /\ IsFiniteSet(Stricker \X Levels)
  /\ Cardinality(Stricker \X Levels) = 2 * Cardinality(Stricker)
<1> DEFINE Outer == Stricker \X {"outer"}
           Inner == Stricker \X {"inner"}
<1>1. /\ IsFiniteSet(Outer) /\ Cardinality(Outer) = Cardinality(Stricker)
      /\ IsFiniteSet(Inner) /\ Cardinality(Inner) = Cardinality(Stricker)
  BY StrickersAtLevel DEF Levels
<1>2. Stricker \X Levels = Outer \cup Inner /\ Outer \cap Inner = {}
  BY DEF Levels
<1>3. Cardinality(Stricker) \in Nat
  BY SomeStrickers, FS_CardinalityType
<1> HIDE DEF Outer, Inner
<1> QED
  BY <1>1, <1>2, <1>3, FS_Union, FS_EmptySet

\* A pool that fits has a connection for whoever needs one.
LEMMA Room ==
  ASSUME RedisTypeOK, Fits, NEW s \in Stricker, NEW l \in Levels, conn[<<s, l>>] = "none"
  PROVE  Cardinality(InUse(helper[s].pool)) < MaxActive(helper[s].pool)
<1> DEFINE p == helper[s].pool
           All == Stricker \X Levels
<1>1. <<s, l>> \in All /\ InUse(p) \subseteq All \ {<<s, l>>}
  BY DEF InUse
<1>2. IsFiniteSet(All) /\ Cardinality(All) = 2 * Cardinality(Stricker)
  BY AllConnections
<1>3. IsFiniteSet(All \ {<<s, l>>})
      /\ Cardinality(All \ {<<s, l>>}) = Cardinality(All) - 1
  BY <1>1, <1>2, FS_RemoveElement
<1>4. IsFiniteSet(InUse(p)) /\ Cardinality(InUse(p)) <= Cardinality(All) - 1
  BY <1>1, <1>3, FS_Subset
<1>5. Cardinality(InUse(p)) \in Nat /\ Cardinality(Stricker) \in Nat
  BY <1>4, SomeStrickers, FS_CardinalityType
<1>6. 3 * rates[p] >= 2 * Cardinality(Stricker)
  BY DEF Fits, RedisTypeOK
<1>7. rates[p] \in Nat
  <2>1. p \in DOMAIN rates /\ rates \in Seq(Rates) /\ Rates \subseteq Nat
    BY RedisConstants DEF RedisTypeOK
  <2>2. rates[p] \in Rates
    BY <2>1
  <2> QED
    BY <2>1, <2>2
<1>8. Cardinality(InUse(p)) < 3 * rates[p]
  <2> HIDE DEF p, All
  <2> QED
    BY <1>2, <1>4, <1>5, <1>6, <1>7
<1> QED
  BY <1>8, Zenon DEF MaxActive

-----------------------------------------------------------------------------
(* What a command does to connections and to the helper that sends it *)

Trouble == faults > 0 \/ misused \/ ~Fits

LEMMA ReachFacts ==
  ASSUME RedisTypeOK, NEW s \in Stricker, NEW level \in Levels, NEW reached \in BOOLEAN,
         Reach(s, level, reached) \/ UNCHANGED <<conn, faults>>
  PROVE  /\ \A x \in Stricker \X Levels : conn'[x] = "none" <=> conn[x] = "none"
         /\ \A x \in Stricker \X Levels :
              conn'[x] \in {"refused", "broken"} =>
                conn[x] \in {"refused", "broken"} \/ faults' > 0
         /\ \A u \in Stricker \ {s}, l \in Levels : conn'[<<u, l>>] = conn[<<u, l>>]
         /\ faults' \in Nat /\ faults' >= faults
<1>1. <<s, level>> \in Stricker \X Levels
  OBVIOUS
<1>2. CASE UNCHANGED <<conn, faults>>
  BY <1>2 DEF RedisTypeOK
<1>3. CASE /\ conn[<<s, level>>] = "open"
           /\ conn' = [conn EXCEPT ![<<s, level>>] = "broken"] /\ Fault
  <2>1. faults \in Nat /\ faults' = faults + 1
    BY <1>3 DEF RedisTypeOK, Fault
  <2>2. \A x \in Stricker \X Levels :
          conn'[x] = IF x = <<s, level>> THEN "broken" ELSE conn[x]
    BY <1>3 DEF RedisTypeOK
  <2> QED
    BY <1>3, <2>1, <2>2
<1> QED
  BY <1>2, <1>3, Zenon DEF Reach

Commands(s) ==
  Do(s) \/ GetKeyType(s) \/ GetLength(s) \/ LIndex(s) \/ RandomKey(s) \/ IsKeyAvailable(s)

\* What all commands have in common; h is what the helper has become.
CommandStep(s, h) ==
  /\ helper' = [helper EXCEPT ![s] = h]
  /\ h.op = helper[s].op /\ h.pool = helper[s].pool
  /\ h.at \in {helper[s].at, helper[s].at + 1}
  /\ \A x \in Stricker \X Levels : conn'[x] = "none" <=> conn[x] = "none"
  /\ \A x \in Stricker \X Levels :
       conn'[x] \in {"refused", "broken"} => conn[x] \in {"refused", "broken"} \/ faults' > 0
  /\ \A u \in Stricker \ {s}, l \in Levels : conn'[<<u, l>>] = conn[<<u, l>>]
  /\ faults' \in Nat /\ faults' >= faults
  /\ misused => misused'
  /\ h.op = "HMGet" /\ h.err =>
       helper[s].err \/ faults' > 0 \/ misused' \/ conn[<<s, "outer">>] # "open"
  /\ UNCHANGED <<rates, redisPanic>>

LEMMA HMGetOnly ==
  ASSUME NEW s \in Stricker, helper[s].op = "HMGet", helper[s].at \in DOMAIN Script["HMGet"]
  PROVE  At(s) \in {"get", "HMGET", "close"}
BY DEF At, Script

LEMMA DoIsCommand ==
  ASSUME RedisTypeOK, NEW s \in Stricker, Busy(s), Do(s)
  PROVE  \E h : CommandStep(s, h)
<1>1. PICK reached, wrong, ok, found, err \in BOOLEAN :
        LET h == [helper[s] EXCEPT !.at = @ + 1, !.found = found, !.err = err] IN
        /\ At(s) \in Plain /\ Reach(s, "outer", reached)
        /\ Learn(s, h, reached /\ ~wrong)
        /\ wrong = (reached /\ WrongType(At(s), Value(s)))
        /\ ok = (reached /\ ~wrong /\ Converts(At(s), Value(s)))
        /\ err = (helper[s].err \/ ~ok)
        /\ db' = IF reached /\ ~wrong /\ helper[s].key # NoKey
                   THEN [db EXCEPT ![helper[s].key] = After(At(s), Value(s))] ELSE db
        /\ misused' = (misused \/ wrong)
        /\ \E f \in [Stricker -> BOOLEAN] : shrunk' = f
  BY DoFacts
<1> DEFINE h == [helper[s] EXCEPT !.at = @ + 1, !.found = found, !.err = err]
<1>2. helper[s] \in HelperState
  BY HelperFacts
<1>3. /\ h.op = helper[s].op /\ h.pool = helper[s].pool /\ h.at = helper[s].at + 1
      /\ h.err = err
  BY <1>2 DEF HelperState
<1>4. helper' = [helper EXCEPT ![s] = h] /\ UNCHANGED <<rates, redisPanic>>
  BY <1>1 DEF Learn
<1>5. misused => misused'
  BY <1>1, Zenon
<1>6. ASSUME helper[s].op = "HMGet", err, ~helper[s].err
      PROVE  faults' > 0 \/ misused' \/ conn[<<s, "outer">>] # "open"
  <2>1. At(s) = "HMGET"
    BY <1>1, <1>6, HMGetOnly, HelperFacts DEF Plain, Reads
  <2>2. Converts(At(s), Value(s))
    BY <2>1 DEF Converts
  <2>3. ~reached \/ wrong
    BY <1>1, <1>6, <2>2, Zenon
  <2>4. CASE wrong
    BY <1>1, <2>4, Zenon
  <2>5. CASE ~reached
    <3>1. \/ reached = (conn[<<s, "outer">>] = "open")
          \/ faults' = faults + 1
      BY <1>1, Zenon DEF Reach, Fault
    <3> QED
      BY <2>5, <3>1 DEF RedisTypeOK
  <2> QED
    BY <2>3, <2>4, <2>5
<1>7. "outer" \in Levels /\ Reach(s, "outer", reached)
  BY <1>1 DEF Levels
<1>8. CommandStep(s, h)
  <2> HIDE DEF h
  <2> QED
    BY <1>3, <1>4, <1>5, <1>6, <1>7, ReachFacts, Zenon DEF CommandStep
<1> QED
  BY <1>8

Asked(s, h, level, reached) ==
  /\ helper' = [helper EXCEPT ![s] = h] /\ UNCHANGED <<rates, redisPanic>>
  /\ h.op = helper[s].op /\ h.pool = helper[s].pool
  /\ h.at \in {helper[s].at, helper[s].at + 1}
  /\ h.err = helper[s].err \/ At(s) = "LINDEX"
  /\ Reach(s, level, reached) \/ UNCHANGED <<conn, faults>>
  /\ misused => misused'

\* The other commands leave the error of HMGETRedis alone.
LEMMA AskIsCommand ==
  ASSUME RedisTypeOK, NEW s \in Stricker, Busy(s), Commands(s), ~Do(s)
  PROVE  \E h : CommandStep(s, h)
<1>0. helper[s] \in HelperState /\ helper[s].at \in Nat
  BY HelperFacts
<1>1. \E h : \E level \in Levels, reached \in BOOLEAN : Asked(s, h, level, reached)
  <2>l. "inner" \in Levels /\ "outer" \in Levels
    BY DEF Levels
  <2>1. CASE GetKeyType(s)
    <3>1. PICK reached \in BOOLEAN :
            /\ Reach(s, "inner", reached)
            /\ Learn(s, [helper[s] EXCEPT !.at = @ + 1,
                          !.type = IF reached THEN Value(s).type ELSE "none"], reached)
            /\ misused' = misused
      BY <2>1, Zenon DEF GetKeyType
    <3> DEFINE h == [helper[s] EXCEPT !.at = @ + 1,
                                      !.type = IF reached THEN Value(s).type ELSE "none"]
    <3>2. /\ h.op = helper[s].op /\ h.pool = helper[s].pool /\ h.at = helper[s].at + 1
          /\ h.err = helper[s].err
      BY <1>0 DEF HelperState
    <3>3. helper' = [helper EXCEPT ![s] = h] /\ UNCHANGED <<rates, redisPanic>>
      BY <3>1 DEF Learn
    <3>4. h.at \in {helper[s].at, helper[s].at + 1} /\ (misused => misused')
      BY <3>1, <3>2, Zenon
    <3>5. Asked(s, h, "inner", reached)
      <4> HIDE DEF h
      <4> QED
        BY <3>1, <3>2, <3>3, <3>4, Zenon DEF Asked
    <3> QED
      BY <2>l, <3>1, <3>5, Zenon
  <2>2. CASE GetLength(s)
    <3>0. PICK reached \in BOOLEAN, wrong \in BOOLEAN, measured \in BOOLEAN :
            /\ Reach(s, "inner", reached) \/ UNCHANGED <<conn, faults>>
            /\ Learn(s, [helper[s] EXCEPT !.at = @ + 1,
                          !.length = IF measured /\ reached /\ ~wrong THEN Value(s).size ELSE 0],
                        reached /\ ~wrong)
            /\ misused' = (misused \/ wrong)
      BY <2>2, Zenon DEF GetLength
    <3> DEFINE length == IF measured /\ reached /\ ~wrong THEN Value(s).size ELSE 0
    <3>1. /\ Reach(s, "inner", reached) \/ UNCHANGED <<conn, faults>>
          /\ Learn(s, [helper[s] EXCEPT !.at = @ + 1, !.length = length], reached /\ ~wrong)
          /\ misused' = (misused \/ wrong)
      BY <3>0
    <3> HIDE DEF length
    <3> DEFINE h == [helper[s] EXCEPT !.at = @ + 1, !.length = length]
    <3>2. /\ h.op = helper[s].op /\ h.pool = helper[s].pool /\ h.at = helper[s].at + 1
          /\ h.err = helper[s].err
      BY <1>0 DEF HelperState
    <3>3. helper' = [helper EXCEPT ![s] = h] /\ UNCHANGED <<rates, redisPanic>>
      BY <3>1 DEF Learn
    <3>4. h.at \in {helper[s].at, helper[s].at + 1} /\ (misused => misused')
      BY <3>1, <3>2, Zenon
    <3>5. Asked(s, h, "inner", reached)
      <4> HIDE DEF h
      <4> QED
        BY <3>1, <3>2, <3>3, <3>4, Zenon DEF Asked
    <3> QED
      BY <2>l, <3>1, <3>5, Zenon
  <2>3. CASE LIndex(s)
    <3>1. PICK reached \in BOOLEAN, wrong \in BOOLEAN, found \in BOOLEAN, err \in BOOLEAN :
            /\ At(s) = "LINDEX"
            /\ Reach(s, "outer", reached) \/ UNCHANGED <<conn, faults>>
            /\ Learn(s, [helper[s] EXCEPT !.at = @ + 1, !.found = found, !.err = err],
                        reached /\ ~wrong)
            /\ misused' = (misused \/ wrong)
      BY <2>3, Zenon DEF LIndex
    <3> DEFINE h == [helper[s] EXCEPT !.at = @ + 1, !.found = found, !.err = err]
    <3>2. h.op = helper[s].op /\ h.pool = helper[s].pool /\ h.at = helper[s].at + 1
      BY <1>0 DEF HelperState
    <3>3. helper' = [helper EXCEPT ![s] = h] /\ UNCHANGED <<rates, redisPanic>>
      BY <3>1 DEF Learn
    <3>4. h.at \in {helper[s].at, helper[s].at + 1} /\ (misused => misused')
      BY <3>1, <3>2, Zenon
    <3>5. Asked(s, h, "outer", reached)
      <4> HIDE DEF h
      <4> QED
        BY <3>1, <3>2, <3>3, <3>4, Zenon DEF Asked
    <3> QED
      BY <2>l, <3>1, <3>5, Zenon
  <2>4. CASE RandomKey(s)
    <3>1. PICK reached \in BOOLEAN, k \in Key \cup {NoKey} :
            /\ Reach(s, "outer", reached)
            /\ Learn(s, [helper[s] EXCEPT !.at = @ + 1, !.key = k], reached)
            /\ misused' = misused
      BY <2>4, Zenon DEF RandomKey
    <3> DEFINE h == [helper[s] EXCEPT !.at = @ + 1, !.key = k]
    <3>2. /\ h.op = helper[s].op /\ h.pool = helper[s].pool /\ h.at = helper[s].at + 1
          /\ h.err = helper[s].err
      BY <1>0 DEF HelperState
    <3>3. helper' = [helper EXCEPT ![s] = h] /\ UNCHANGED <<rates, redisPanic>>
      BY <3>1 DEF Learn
    <3>4. h.at \in {helper[s].at, helper[s].at + 1} /\ (misused => misused')
      BY <3>1, <3>2, Zenon
    <3>5. Asked(s, h, "outer", reached)
      <4> HIDE DEF h
      <4> QED
        BY <3>1, <3>2, <3>3, <3>4, Zenon DEF Asked
    <3> QED
      BY <2>l, <3>1, <3>5, Zenon
  <2>5. CASE IsKeyAvailable(s)
    <3>1. PICK reached \in BOOLEAN, asks \in BOOLEAN, there \in BOOLEAN :
            /\ Reach(s, "outer", reached) \/ UNCHANGED <<conn, faults>>
            /\ Learn(s, [helper[s] EXCEPT !.at = IF there \/ ~asks THEN @ + 1 ELSE @,
                 !.tries = IF asks THEN @ + 1 ELSE @, !.found = there], reached)
            /\ misused' = misused
      BY <2>5, Zenon DEF IsKeyAvailable
    <3> DEFINE h == [helper[s] EXCEPT !.at = IF there \/ ~asks THEN @ + 1 ELSE @,
                        !.tries = IF asks THEN @ + 1 ELSE @, !.found = there]
    <3>2. /\ h.op = helper[s].op /\ h.pool = helper[s].pool
          /\ h.at \in {helper[s].at, helper[s].at + 1} /\ h.err = helper[s].err
      BY <1>0 DEF HelperState
    <3>3. helper' = [helper EXCEPT ![s] = h] /\ UNCHANGED <<rates, redisPanic>>
      BY <3>1 DEF Learn
    <3>4. h.at \in {helper[s].at, helper[s].at + 1} /\ (misused => misused')
      BY <3>1, <3>2, Zenon
    <3>5. Asked(s, h, "outer", reached)
      <4> HIDE DEF h
      <4> QED
        BY <3>1, <3>2, <3>3, <3>4, Zenon DEF Asked
    <3> QED
      BY <2>l, <3>1, <3>5, Zenon
  <2> QED
    BY <2>1, <2>2, <2>3, <2>4, <2>5 DEF Commands
<1>2. At(s) = "LINDEX" => helper[s].op # "HMGet"
  BY HMGetOnly, HelperFacts
<1>3. PICK h : \E level \in Levels, reached \in BOOLEAN : Asked(s, h, level, reached)
  BY <1>1
<1>4. CommandStep(s, h)
  BY <1>2, <1>3, ReachFacts, Zenon DEF CommandStep, Asked
<1> QED
  BY <1>4

LEMMA CommandFacts ==
  ASSUME RedisTypeOK, NEW s \in Stricker, Busy(s), Commands(s)
  PROVE  /\ \E h : CommandStep(s, h)
         /\ At(s) \notin {"get", "getInner", "closeInner", "close"}
<1>1. \E h : CommandStep(s, h)
  BY DoIsCommand, AskIsCommand
<1>2. At(s) \in Plain \cup {"TYPE", "LEN", "LINDEX", "RANDOMKEY", "EXISTS"}
  BY DEF Commands, Do, GetKeyType, GetLength, LIndex, RandomKey, IsKeyAvailable
<1> QED
  BY <1>1, <1>2 DEF Plain, Reads

-----------------------------------------------------------------------------
(* What makes an action panic *)

\* A helper has its connection from its first step on, and the second one only
\* in GetLength.
ConnPoints ==
  \A s \in Stricker :
    /\ conn[<<s, "outer">>] = "none" <=> ~Busy(s) \/ helper[s].at = 1
    /\ conn[<<s, "inner">>] # "none" => helper[s].op = "LGet" /\ helper[s].at \in 3 .. 5

RefusedCause ==
  \A x \in Stricker \X Levels : conn[x] \in {"refused", "broken"} => Trouble

ErrorCause ==
  /\ \A s \in Stricker : helper[s].op = "HMGet" /\ helper[s].err => Trouble
  /\ redisPanic = "index" => Trouble

HelperInv == ConnPoints /\ RefusedCause /\ ErrorCause

\* Trouble stays: nobody counts failures down, and the pools that were made stay.
LEMMA TroubleStays ==
  ASSUME RedisTypeOK, rates' = rates, faults' \in Nat, faults' >= faults, misused => misused'
  PROVE  Trouble => Trouble'
<1>1. Fits' <=> Fits
  BY DEF Fits
<1>2. faults > 0 => faults' > 0
  BY DEF RedisTypeOK
<1> QED
  BY <1>1, <1>2, Zenon DEF Trouble

LEMMA CommandHelperInv ==
  ASSUME RedisTypeOK, RedisTypeOK', HelperInv, NEW s \in Stricker, Busy(s), Commands(s)
  PROVE  HelperInv'
<1>1. PICK h : CommandStep(s, h)
  BY CommandFacts
<1>2. At(s) \notin {"get", "getInner", "closeInner", "close"}
  BY CommandFacts
<1>3. helper[s].op \in Helpers /\ helper[s].at \in DOMAIN Script[helper[s].op]
      /\ helper[s].at \in Nat
  BY HelperFacts
<1>4. helper[s].at # 1 /\ ~(helper[s].op = "LGet" /\ helper[s].at = 5)
  <2>1. helper[s].at = 1 => At(s) = "get"
    BY <1>3, ScriptShape DEF At
  <2>2. helper[s].op = "LGet" /\ helper[s].at = 5 => At(s) = "closeInner"
    BY DEF At, Script
  <2> QED
    BY <1>2, <2>1, <2>2
<1>5. /\ helper' = [helper EXCEPT ![s] = h]
      /\ h.op = helper[s].op /\ h.at \in {helper[s].at, helper[s].at + 1}
      /\ helper' \in [Stricker -> HelperState] /\ helper \in [Stricker -> HelperState]
  BY <1>1 DEF CommandStep, RedisTypeOK
<1>6. Trouble => Trouble'
  BY <1>1, TroubleStays DEF CommandStep
<1>7. ConnPoints'
  <2> SUFFICES ASSUME NEW u \in Stricker
               PROVE  /\ conn'[<<u, "outer">>] = "none" <=> ~(Busy(u)') \/ helper'[u].at = 1
                      /\ conn'[<<u, "inner">>] # "none" =>
                           helper'[u].op = "LGet" /\ helper'[u].at \in 3 .. 5
    BY DEF ConnPoints
  <2>1. /\ conn'[<<u, "outer">>] = "none" <=> conn[<<u, "outer">>] = "none"
        /\ conn'[<<u, "inner">>] = "none" <=> conn[<<u, "inner">>] = "none"
    BY <1>1 DEF CommandStep, Levels
  <2>2. /\ conn[<<u, "outer">>] = "none" <=> ~Busy(u) \/ helper[u].at = 1
        /\ conn[<<u, "inner">>] # "none" => helper[u].op = "LGet" /\ helper[u].at \in 3 .. 5
    BY DEF HelperInv, ConnPoints
  <2>3. CASE u # s
    BY <1>5, <2>1, <2>2, <2>3 DEF Busy
  <2>4. CASE u = s
    <3>1. helper'[u] = h /\ h.op = helper[u].op /\ helper[u].at \in Nat
          /\ h.at \in {helper[u].at, helper[u].at + 1} /\ helper[u].at # 1
          /\ ~(helper[u].op = "LGet" /\ helper[u].at = 5) /\ helper[u].at # 0
      BY <1>3, <1>4, <1>5, <2>4, ScriptShape
    <3>2. h.at # 1 /\ (helper[u].op = "LGet" /\ helper[u].at \in 3 .. 5 => h.at \in 3 .. 5)
      BY <3>1
    <3>3. (Busy(u)' <=> Busy(u)) /\ helper'[u].op = helper[u].op /\ helper'[u].at = h.at
      BY <3>1 DEF Busy
    <3> QED
      BY <2>1, <2>2, <3>1, <3>2, <3>3
  <2> QED
    BY <2>3, <2>4
<1>8. RefusedCause'
  <2> SUFFICES ASSUME NEW x \in Stricker \X Levels, conn'[x] \in {"refused", "broken"}
               PROVE  Trouble'
    BY DEF RefusedCause
  <2>1. conn[x] \in {"refused", "broken"} \/ faults' > 0
    BY <1>1, Zenon DEF CommandStep
  <2> QED
    BY <1>6, <2>1, Zenon DEF HelperInv, RefusedCause, Trouble
<1>9. ErrorCause'
  <2>1. redisPanic' = "index" => Trouble'
    BY <1>1, <1>6 DEF CommandStep, HelperInv, ErrorCause
  <2>2. ASSUME NEW u \in Stricker, helper'[u].op = "HMGet", helper'[u].err
        PROVE  Trouble'
    <3>1. CASE u # s
      BY <1>5, <1>6, <2>2, <3>1 DEF HelperInv, ErrorCause
    <3>2. CASE u = s
      <4>1. h.op = "HMGet" /\ h.err
        BY <1>5, <2>2, <3>2
      <4>2. helper[s].err \/ faults' > 0 \/ misused' \/ conn[<<s, "outer">>] # "open"
        BY <1>1, <4>1, Zenon DEF CommandStep
      <4>3. conn[<<s, "outer">>] # "open" => conn[<<s, "outer">>] \in {"refused", "broken"}
        <5>1. <<s, "outer">> \in Stricker \X Levels
          BY DEF Levels
        <5>2. conn[<<s, "outer">>] # "none"
          BY <1>3, <1>4 DEF HelperInv, ConnPoints, Busy
        <5> QED
          BY <5>1, <5>2 DEF RedisTypeOK, Conns
      <4>4. <<s, "outer">> \in Stricker \X Levels
        BY DEF Levels
      <4>5. conn[<<s, "outer">>] # "open" => Trouble'
        BY <1>6, <4>3, <4>4 DEF HelperInv, RefusedCause
      <4>6. helper[s].err => Trouble'
        BY <1>5, <1>6, <4>1, Zenon DEF HelperInv, ErrorCause
      <4> QED
        BY <4>2, <4>5, <4>6, Zenon DEF Trouble
    <3> QED
      BY <3>1, <3>2
  <2> QED
    BY <2>1, <2>2 DEF ErrorCause
<1> QED
  BY <1>7, <1>8, <1>9 DEF HelperInv

\* A connection is refused only by a pool that does not fit, or for a failure.
LEMMA GetHelperInv ==
  ASSUME RedisTypeOK, RedisTypeOK', HelperInv, NEW s \in Stricker, Busy(s),
         \/ At(s) = "get" /\ Get(s, "outer")
         \/ At(s) = "getInner" /\ Get(s, "inner")
  PROVE  HelperInv'
<1>1. PICK level \in Levels :
        /\ Get(s, level)
        /\ At(s) = (IF level = "outer" THEN "get" ELSE "getInner")
  BY DEF Levels
<1>2. helper[s] \in HelperState /\ helper[s].op \in Helpers
      /\ helper[s].at \in DOMAIN Script[helper[s].op] /\ helper[s].at \in Nat
  BY HelperFacts
<1>3. /\ level = "outer" => helper[s].at = 1
      /\ level # "outer" => helper[s].op = "LGet" /\ helper[s].at = 2 /\ level = "inner"
  BY <1>1, <1>2, ScriptShape DEF At, Levels
<1>4. <<s, level>> \in Stricker \X Levels /\ conn[<<s, level>>] = "none"
  <2>1. /\ conn[<<s, "outer">>] = "none" <=> ~Busy(s) \/ helper[s].at = 1
        /\ conn[<<s, "inner">>] # "none" => helper[s].op = "LGet" /\ helper[s].at \in 3 .. 5
    BY DEF HelperInv, ConnPoints
  <2>2. CASE level = "outer"
    BY <1>3, <2>1, <2>2
  <2>3. CASE level # "outer"
    BY <1>3, <2>1, <2>3
  <2> QED
    BY <2>2, <2>3
<1> DEFINE h == [helper[s] EXCEPT !.at = @ + 1]
<1>5. /\ helper' = [helper EXCEPT ![s] = h]
      /\ h.op = helper[s].op /\ h.at = helper[s].at + 1 /\ h.err = helper[s].err
      /\ helper \in [Stricker -> HelperState]
  BY <1>1, <1>2 DEF Get, RedisTypeOK, HelperState
<1> HIDE DEF h
<1>6. PICK c \in {"open", "refused"} :
        /\ conn' = [conn EXCEPT ![<<s, level>>] = c]
        /\ c = "refused" =>
             \/ ~(Cardinality(InUse(helper[s].pool)) < MaxActive(helper[s].pool))
             \/ faults' > 0
  <2>1. CASE /\ conn' = [conn EXCEPT ![<<s, level>>] =
                  IF Cardinality(InUse(helper[s].pool)) < MaxActive(helper[s].pool)
                    THEN "open" ELSE "refused"]
             /\ UNCHANGED faults
    <3>1. CASE Cardinality(InUse(helper[s].pool)) < MaxActive(helper[s].pool)
      BY <2>1, <3>1, Zenon
    <3>2. CASE ~(Cardinality(InUse(helper[s].pool)) < MaxActive(helper[s].pool))
      BY <2>1, <3>2, Zenon
    <3> QED
      BY <3>1, <3>2
  <2>2. CASE conn' = [conn EXCEPT ![<<s, level>>] = "refused"] /\ Fault
    <3>1. faults' > 0
      BY <2>2 DEF Fault, RedisTypeOK
    <3> QED
      BY <2>2, <3>1, Zenon
  <2> QED
    BY <1>1, <2>1, <2>2, Zenon DEF Get
<1>7. /\ rates' = rates /\ redisPanic' = redisPanic /\ misused' = misused
      /\ faults' \in Nat /\ faults' >= faults
  BY <1>1 DEF Get, Fault, RedisTypeOK, historyVars
<1>8. Trouble => Trouble'
  BY <1>7, TroubleStays
<1>9. \A x \in Stricker \X Levels :
        conn'[x] = IF x = <<s, level>> THEN c ELSE conn[x]
  BY <1>6 DEF RedisTypeOK
<1>10. ConnPoints'
  <2> SUFFICES ASSUME NEW u \in Stricker
               PROVE  /\ conn'[<<u, "outer">>] = "none" <=> ~(Busy(u)') \/ helper'[u].at = 1
                      /\ conn'[<<u, "inner">>] # "none" =>
                           helper'[u].op = "LGet" /\ helper'[u].at \in 3 .. 5
    BY DEF ConnPoints
  <2>1. /\ conn[<<u, "outer">>] = "none" <=> ~Busy(u) \/ helper[u].at = 1
        /\ conn[<<u, "inner">>] # "none" => helper[u].op = "LGet" /\ helper[u].at \in 3 .. 5
    BY DEF HelperInv, ConnPoints
  <2>2. <<u, "outer">> \in Stricker \X Levels /\ <<u, "inner">> \in Stricker \X Levels
    BY DEF Levels
  <2>3. CASE u # s
    <3>1. conn'[<<u, "outer">>] = conn[<<u, "outer">>]
          /\ conn'[<<u, "inner">>] = conn[<<u, "inner">>]
      BY <1>9, <2>2, <2>3
    <3> QED
      BY <1>5, <2>1, <2>3, <3>1 DEF Busy
  <2>4. CASE u = s /\ level = "outer"
    <3>1. conn'[<<u, "outer">>] = c /\ conn'[<<u, "inner">>] = conn[<<u, "inner">>]
      BY <1>9, <2>2, <2>4
    <3>2. helper'[u] = h /\ h.at = 2 /\ conn[<<u, "inner">>] = "none" /\ h.op # "none"
      BY <1>2, <1>3, <1>5, <2>1, <2>4 DEF Helpers
    <3> QED
      BY <3>1, <3>2 DEF Busy
  <2>5. CASE u = s /\ level # "outer"
    <3>1. conn'[<<u, "inner">>] = c /\ conn'[<<u, "outer">>] = conn[<<u, "outer">>]
      BY <1>3, <1>9, <2>2, <2>5
    <3>2. helper'[u] = h /\ h.at = 3 /\ h.op = "LGet" /\ conn[<<u, "outer">>] # "none"
      BY <1>2, <1>3, <1>5, <2>1, <2>5 DEF Busy
    <3> QED
      BY <3>1, <3>2 DEF Busy
  <2> QED
    BY <2>3, <2>4, <2>5
<1>11. RefusedCause'
  <2> SUFFICES ASSUME NEW x \in Stricker \X Levels, conn'[x] \in {"refused", "broken"}
               PROVE  Trouble'
    BY DEF RefusedCause
  <2>1. CASE x # <<s, level>>
    BY <1>8, <1>9, <2>1 DEF HelperInv, RefusedCause
  <2>2. CASE x = <<s, level>>
    <3>1. c = "refused"
      BY <1>9, <2>2
    <3>2. faults' > 0 \/ ~Fits
      BY <1>4, <1>6, <3>1, Room
    <3>3. ~Fits => Trouble'
      BY <1>8 DEF Trouble
    <3> QED
      BY <3>2, <3>3, Zenon DEF Trouble
  <2> QED
    BY <2>1, <2>2
<1>12. ErrorCause'
  <2>1. redisPanic' = "index" => Trouble'
    BY <1>7, <1>8 DEF HelperInv, ErrorCause
  <2>2. \A u \in Stricker : helper'[u].op = helper[u].op /\ helper'[u].err = helper[u].err
    BY <1>5
  <2> QED
    BY <1>8, <2>1, <2>2, Zenon DEF HelperInv, ErrorCause
<1> QED
  BY <1>10, <1>11, <1>12 DEF HelperInv

LEMMA CloseHelperInv ==
  ASSUME RedisTypeOK, RedisTypeOK', HelperInv, NEW s \in Stricker, Busy(s),
         CloseInner(s) \/ Return(s)
  PROVE  HelperInv'
<1>1. helper[s] \in HelperState /\ helper[s].op \in Helpers
      /\ helper[s].at \in DOMAIN Script[helper[s].op] /\ helper[s].at \in Nat
  BY HelperFacts
<1>2. /\ rates' = rates /\ misused' = misused /\ faults' = faults
      /\ faults' \in Nat /\ faults' >= faults
  BY DEF CloseInner, Return, RedisTypeOK, historyVars
<1>3. Trouble => Trouble'
  BY <1>2, TroubleStays
<1>4. PICK level \in Levels :
        /\ conn' = [conn EXCEPT ![<<s, level>>] = "none"]
        /\ \/ CloseInner(s) /\ level = "inner"
           \/ Return(s) /\ level = "outer"
  BY DEF CloseInner, Return, Levels
<1>5. \A x \in Stricker \X Levels :
        conn'[x] = IF x = <<s, level>> THEN "none" ELSE conn[x]
  BY <1>4 DEF RedisTypeOK
<1>6. PICK h :
        /\ helper' = [helper EXCEPT ![s] = h]
        /\ \/ level = "inner" /\ h.op = helper[s].op /\ h.at = helper[s].at + 1
              /\ h.err = helper[s].err /\ helper[s].op = "LGet" /\ helper[s].at = 5
           \/ level = "outer" /\ h.op = "none"
              /\ ~(helper[s].op = "LGet" /\ helper[s].at \in 3 .. 5)
  <2>1. CASE CloseInner(s) /\ level = "inner"
    <3> DEFINE h == [helper[s] EXCEPT !.at = @ + 1]
    <3>1. helper' = [helper EXCEPT ![s] = h] /\ At(s) = "closeInner"
      BY <2>1 DEF CloseInner
    <3>2. h.op = helper[s].op /\ h.at = helper[s].at + 1 /\ h.err = helper[s].err
      BY <1>1 DEF HelperState
    <3>3. helper[s].op = "LGet" /\ helper[s].at = 5
      BY <1>1, <3>1, ScriptShape DEF At
    <3> HIDE DEF h
    <3> QED
      BY <2>1, <3>1, <3>2, <3>3
  <2>2. CASE Return(s) /\ level = "outer"
    <3>1. helper' = [helper EXCEPT ![s] = Idle] /\ At(s) = "close" /\ Idle.op = "none"
      BY <2>2 DEF Return, Idle
    <3>2. ~(helper[s].op = "LGet" /\ helper[s].at \in 3 .. 5)
      BY <1>1, <3>1, ScriptShape DEF At
    <3> QED
      BY <2>2, <3>1, <3>2
  <2> QED
    BY <1>4, <2>1, <2>2
<1>7. helper \in [Stricker -> HelperState]
  BY DEF RedisTypeOK
<1>8. ConnPoints'
  <2> SUFFICES ASSUME NEW u \in Stricker
               PROVE  /\ conn'[<<u, "outer">>] = "none" <=> ~(Busy(u)') \/ helper'[u].at = 1
                      /\ conn'[<<u, "inner">>] # "none" =>
                           helper'[u].op = "LGet" /\ helper'[u].at \in 3 .. 5
    BY DEF ConnPoints
  <2>1. /\ conn[<<u, "outer">>] = "none" <=> ~Busy(u) \/ helper[u].at = 1
        /\ conn[<<u, "inner">>] # "none" => helper[u].op = "LGet" /\ helper[u].at \in 3 .. 5
    BY DEF HelperInv, ConnPoints
  <2>2. <<u, "outer">> \in Stricker \X Levels /\ <<u, "inner">> \in Stricker \X Levels
    BY DEF Levels
  <2>3. CASE u # s
    <3>1. conn'[<<u, "outer">>] = conn[<<u, "outer">>]
          /\ conn'[<<u, "inner">>] = conn[<<u, "inner">>]
      BY <1>5, <2>2, <2>3
    <3> QED
      BY <1>6, <1>7, <2>1, <2>3, <3>1 DEF Busy
  <2>4. CASE u = s /\ level = "inner"
    <3>1. conn'[<<u, "inner">>] = "none" /\ conn'[<<u, "outer">>] = conn[<<u, "outer">>]
      BY <1>5, <2>2, <2>4
    <3>2. helper'[u] = h /\ h.at = 6 /\ h.op = "LGet" /\ conn[<<u, "outer">>] # "none"
      BY <1>6, <1>7, <2>1, <2>4 DEF Busy
    <3> QED
      BY <3>1, <3>2 DEF Busy
  <2>5. CASE u = s /\ level = "outer"
    <3>1. conn'[<<u, "outer">>] = "none" /\ conn'[<<u, "inner">>] = conn[<<u, "inner">>]
      BY <1>5, <2>2, <2>5
    <3>2. helper'[u] = h /\ h.op = "none" /\ conn[<<u, "inner">>] = "none"
      BY <1>6, <1>7, <2>1, <2>5
    <3> QED
      BY <3>1, <3>2 DEF Busy
  <2> QED
    BY <2>3, <2>4, <2>5 DEF Levels
<1>9. RefusedCause'
  BY <1>3, <1>5, Zenon DEF HelperInv, RefusedCause
<1>10. ErrorCause'
  <2>1. redisPanic' = "index" => Trouble'
    BY <1>3, Zenon DEF CloseInner, Return, HelperInv, ErrorCause
  <2>2. ASSUME NEW u \in Stricker, helper'[u].op = "HMGet", helper'[u].err
        PROVE  helper[u].op = "HMGet" /\ helper[u].err
    BY <1>6, <1>7, <2>2
  <2> QED
    BY <1>3, <2>1, <2>2, Zenon DEF HelperInv, ErrorCause
<1> QED
  BY <1>8, <1>9, <1>10 DEF HelperInv

LEMMA RedisStepHelperInv ==
  ASSUME RedisTypeOK, HelperInv, NEW s \in Stricker, RedisStep(s)
  PROVE  HelperInv'
BY RedisStepTypeOK, CommandHelperInv, GetHelperInv, CloseHelperInv DEF RedisStep, Commands

LEMMA CallHelperInv ==
  ASSUME RedisTypeOK, HelperInv, NEW s \in Stricker, NEW op \in Helpers, NEW k \in Key,
         Call(s, op, k)
  PROVE  HelperInv'
<1> DEFINE h == [Idle EXCEPT !.op = op, !.key = k, !.pool = Len(rates)]
<1>1. helper' = [helper EXCEPT ![s] = h] /\ ~Busy(s)
      /\ UNCHANGED <<rates, conn, faults, redisPanic, misused>>
  BY DEF Call, historyVars
<1>2. h.op = op /\ h.at = 1 /\ ~h.err
  BY DEF Idle
<1> HIDE DEF h
<1>3. Trouble' <=> Trouble
  BY <1>1 DEF Trouble, Fits
<1>4. ConnPoints'
  <2> SUFFICES ASSUME NEW u \in Stricker
               PROVE  /\ conn'[<<u, "outer">>] = "none" <=> ~(Busy(u)') \/ helper'[u].at = 1
                      /\ conn'[<<u, "inner">>] # "none" =>
                           helper'[u].op = "LGet" /\ helper'[u].at \in 3 .. 5
    BY DEF ConnPoints
  <2>1. /\ conn[<<u, "outer">>] = "none" <=> ~Busy(u) \/ helper[u].at = 1
        /\ conn[<<u, "inner">>] # "none" => helper[u].op = "LGet" /\ helper[u].at \in 3 .. 5
    BY DEF HelperInv, ConnPoints
  <2>2. helper'[u] = IF u = s THEN h ELSE helper[u]
    BY <1>1 DEF RedisTypeOK
  <2> QED
    BY <1>1, <1>2, <2>1, <2>2 DEF Busy
<1>5. RefusedCause'
  BY <1>1, <1>3, Zenon DEF HelperInv, RefusedCause
<1>6. ErrorCause'
  <2>1. \A u \in Stricker : helper'[u] = IF u = s THEN h ELSE helper[u]
    BY <1>1 DEF RedisTypeOK
  <2> QED
    BY <1>1, <1>2, <1>3, <2>1, Zenon DEF HelperInv, ErrorCause
<1> QED
  BY <1>4, <1>5, <1>6 DEF HelperInv

\* A pool that does not fit was made once and stays on the list.
LEMMA RateHelperInv ==
  ASSUME RedisTypeOK, HelperInv, NEW r \in Rates, SetRedisConnectionPool(r)
  PROVE  HelperInv'
<1>1. UNCHANGED <<helper, conn, faults, redisPanic, misused>> /\ rates' = Append(rates, r)
  BY DEF SetRedisConnectionPool, historyVars
<1>2. Fits' => Fits
  <2>1. \A p \in DOMAIN rates : p \in DOMAIN rates' /\ rates'[p] = rates[p]
    BY <1>1, AppendProperties DEF RedisTypeOK
  <2> QED
    BY <2>1 DEF Fits
<1>3. Trouble => Trouble'
  BY <1>1, <1>2 DEF Trouble
<1> QED
  BY <1>1, <1>3, Zenon DEF HelperInv, ConnPoints, RefusedCause, ErrorCause, Busy

LEMMA HelperInvUnchanged == HelperInv /\ UNCHANGED redisVars => HelperInv'
<1> SUFFICES ASSUME HelperInv, UNCHANGED redisVars PROVE HelperInv'
  OBVIOUS
<1>1. UNCHANGED <<rates, helper, conn, faults, redisPanic, misused>>
  BY DEF redisVars, historyVars
<1> QED
  BY <1>1, Zenon DEF HelperInv, ConnPoints, RefusedCause, ErrorCause, Busy, Trouble, Fits

\* What stops the requests: their headers, or the metrics.
RequestInv ==
  /\ unregistered => mix.prometheus
  /\ requestPanic = "header" => ~mix.wellFormed
  /\ requestPanic = "metric" => mix.prometheus

\* A connection that is missing was named by an action.
NameInv == redisPanic = "name" => ~mix.named

PanicInv == ActionsTypeOK /\ HelperInv /\ RequestInv /\ NameInv

LEMMA NameInvNext == NameInv /\ [ActionsNext]_actionVars => NameInv'
<1> SUFFICES ASSUME NameInv, [ActionsNext]_actionVars PROVE NameInv'
  OBVIOUS
<1>1. mix' = mix
  BY DEF ActionsNext, actionVars, CallHelper, HelperStep, BeginRequest, MakeRequest, UpdateRate,
    CountAnswer, CountMetric, Run
<1>2. ASSUME NEW s \in Stricker, CallHelper(s) PROVE NameInv'
  BY <1>1, <1>2, CallOrPanic DEF Call, UnknownConnection, NameInv
<1>3. ASSUME NEW s \in Stricker, HelperStep(s) PROVE NameInv'
  <2>1. redisPanic' \in {redisPanic, "index"}
    BY <1>3 DEF HelperStep, RedisStep, Get, CloseInner, Return, Do, GetKeyType, GetLength, LIndex,
      RandomKey, IsKeyAvailable, Learn
  <2> QED
    BY <1>1, <2>1 DEF NameInv
<1>4. ASSUME NEW s \in Stricker, BeginRequest(s) \/ MakeRequest(s) PROVE NameInv'
  BY <1>1, <1>4 DEF BeginRequest, MakeRequest, redisVars, NameInv
<1>5. CASE UpdateRate
  BY <1>1, <1>5 DEF UpdateRate, SetRedisConnectionPool, NameInv
<1>6. CASE CountAnswer \/ CountMetric \/ Run \/ UNCHANGED actionVars
  BY <1>1, <1>6 DEF CountAnswer, CountMetric, Run, actionVars, redisVars, NameInv
<1> QED
  BY <1>2, <1>3, <1>4, <1>5, <1>6 DEF ActionsNext

LEMMA PanicInvInit == ActionsInit => PanicInv
<1> SUFFICES ASSUME ActionsInit PROVE PanicInv
  OBVIOUS
<1>1. HelperInv
  <2>1. Idle.op = "none"
    BY DEF Idle
  <2> QED
    BY <2>1
    DEF ActionsInit, RedisInit, HelperInv, ConnPoints, RefusedCause, ErrorCause, Busy, Levels
<1>2. RequestInv
  BY DEF ActionsInit, RequestInit, RequestInv
<1>3. NameInv
  BY DEF ActionsInit, RedisInit, NameInv
<1> QED
  BY <1>1, <1>2, <1>3, ActionsInitTypeOK DEF PanicInv

LEMMA PanicInvNext == PanicInv /\ [ActionsNext]_actionVars => PanicInv'
<1> SUFFICES ASSUME PanicInv, [ActionsNext]_actionVars PROVE PanicInv'
  OBVIOUS
<1>0. ActionsTypeOK /\ HelperInv /\ RequestInv /\ RedisTypeOK /\ mix \in Mixes /\ ActionsTypeOK'
      /\ NameInv'
  BY ActionsNextTypeOK, NameInvNext DEF PanicInv, ActionsTypeOK
<1> USE <1>0
<1>1. ASSUME NEW s \in Stricker, CallHelper(s) PROVE HelperInv' /\ RequestInv'
  <2>1. PICK op \in mix.helpers[s], k \in mix.keys : Call(s, op, k) \/ UnknownConnection(s)
    BY <1>1, CallOrPanic
  <2>2. HelperInv'
    <3>1. CASE Call(s, op, k)
      BY <2>1, <3>1, MixFacts, CallHelperInv
    <3>2. CASE UnknownConnection(s)
      <4>1. UNCHANGED <<rates, helper, conn, faults, misused>> /\ redisPanic' # "index"
        BY <3>2 DEF UnknownConnection, historyVars
      <4> QED
        BY <4>1, Zenon
        DEF HelperInv, ConnPoints, RefusedCause, ErrorCause, Busy, Trouble, Fits
    <3> QED
      BY <2>1, <3>1, <3>2
  <2>3. unregistered' = (unregistered \/ mix.prometheus) /\ UNCHANGED <<requestPanic, mix>>
    BY <1>1, Zenon DEF CallHelper, IncrementMetric
  <2> QED
    BY <2>2, <2>3, Zenon DEF RequestInv
<1>2. ASSUME NEW s \in Stricker, HelperStep(s) PROVE HelperInv' /\ RequestInv'
  <2>1. UNCHANGED <<unregistered, requestPanic, mix>>
    BY <1>2 DEF HelperStep, requestVars
  <2> QED
    BY <1>2, <2>1, RedisStepHelperInv DEF HelperStep, RequestInv
<1>3. ASSUME NEW s \in Stricker, BeginRequest(s) \/ MakeRequest(s)
      PROVE  HelperInv' /\ RequestInv'
  <2>1. HelperInv' /\ mix' = mix
    BY <1>3, HelperInvUnchanged DEF BeginRequest, MakeRequest
  <2>2. unregistered' => unregistered \/ mix.prometheus
    BY <1>3, Zenon DEF BeginRequest, MakeRequest, AcquireResponse, RequestStep, AddHeaders,
      ClientDo, Judge, ReleaseResponse, Count, IncrementMetric
  <2>3. requestPanic' = requestPanic \/ (requestPanic' = "header" /\ ~mix.wellFormed)
    BY <1>3, Zenon DEF BeginRequest, MakeRequest, AcquireResponse, RequestStep, AddHeaders,
      ClientDo, Judge, ReleaseResponse, Count
  <2> QED
    BY <2>1, <2>2, <2>3 DEF RequestInv
<1>4. CASE UpdateRate
  <2>1. PICK r \in Rates : SetRedisConnectionPool(r)
    BY <1>4, MixFacts DEF UpdateRate
  <2>2. UNCHANGED <<unregistered, requestPanic, mix>>
    BY <1>4 DEF UpdateRate, requestVars
  <2> QED
    BY <2>1, <2>2, RateHelperInv DEF RequestInv, PanicInv
<1>5. CASE CountAnswer \/ CountMetric \/ Run
  <2>1. HelperInv' /\ mix' = mix
    BY <1>5, HelperInvUnchanged DEF CountAnswer, CountMetric, Run
  <2>2. unregistered' = unregistered
    BY <1>5 DEF CountAnswer, CountMetric, Run, Counting, WriteCount, ReadCount, Increment,
      ResetSuccess, ResetError, Reset
  <2>3. requestPanic' = requestPanic \/ (requestPanic' = "metric" /\ unregistered)
    BY <1>5 DEF CountAnswer, CountMetric, Run, Counting, WriteCount, ReadCount, Increment,
      ResetSuccess, ResetError, Reset
  <2> QED
    BY <2>1, <2>2, <2>3 DEF RequestInv, PanicInv
<1>6. CASE UNCHANGED actionVars
  <2>1. UNCHANGED <<unregistered, requestPanic, mix>>
    BY <1>6 DEF actionVars, requestVars
  <2> QED
    BY <1>6, <2>1, HelperInvUnchanged DEF actionVars, RequestInv, PanicInv
<1> QED
  BY <1>1, <1>2, <1>3, <1>4, <1>5, <1>6 DEF ActionsNext, PanicInv

LEMMA PanicInvExplains == PanicInv => ActionPanicCause
BY Zenon DEF PanicInv, HelperInv, ErrorCause, RequestInv, NameInv, ActionPanicCause, Trouble

\* HMGETRedis has no first value only for a failure of Redis, a key of another
\* type or a pool too small for the Strickers (the connections in use never
\* exceed what a pool that fits has); a connection that is missing was named
\* wrongly, a header out of range is malformed, a nil metric was asked for.
THEOREM ActionPanicCauseCorrect == ActionsSpec => []ActionPanicCause
<1>1. ActionsSpec => []PanicInv
  BY PanicInvInit, PanicInvNext, PTL DEF ActionsSpec
<1> QED
  BY <1>1, PanicInvExplains, PTL

-----------------------------------------------------------------------------
(* The counts of a run *)

\* One goroutine at a time is between the read and the write of a count, and the
\* count is still the one it has read, unless Run has reset it.
OneInside ==
  /\ Len(inside) <= 1
  /\ ~torn /\ inside # <<>> => inside[1].read = count[inside[1].kind]

CountInv == OneInside /\ CountsExact

LEMMA CountedFinite ==
  ASSUME NEW k \in Outcomes
  PROVE  IsFiniteSet(Counted(k)) /\ Cardinality(Counted(k)) \in Nat
<1>1. Counted(k) \subseteq Stricker
  BY DEF Counted
<1> QED
  BY <1>1, SomeStrickers, FS_Subset, FS_CardinalityType

LEMMA InsideCardinality ==
  ASSUME RequestTypeOK, Len(inside) <= 1, NEW k \in Outcomes
  PROVE  Cardinality(Inside(k)) = IF inside # <<>> /\ inside[1].kind = k THEN 1 ELSE 0
<1>1. Len(inside) \in Nat /\ DOMAIN inside = 1 .. Len(inside)
      /\ (inside = <<>> <=> Len(inside) = 0)
  BY DEF RequestTypeOK
<1>2. CASE inside # <<>> /\ inside[1].kind = k
  <2>1. DOMAIN inside = {1}
    BY <1>1, <1>2
  <2>2. Inside(k) = {1}
    BY <1>2, <2>1 DEF Inside
  <2> QED
    BY <1>2, <2>2, FS_Singleton
<1>3. CASE ~(inside # <<>> /\ inside[1].kind = k)
  <2>1. DOMAIN inside \subseteq {1} /\ (inside = <<>> => DOMAIN inside = {})
    BY <1>1
  <2>2. Inside(k) = {}
    BY <1>3, <2>1 DEF Inside
  <2> QED
    BY <1>3, <2>2, FS_EmptySet
<1> QED
  BY <1>2, <1>3

\* What is not counted yet, in numbers.
Owed(k) ==
  waiting[k] + (IF inside # <<>> /\ inside[1].kind = k THEN 1 ELSE 0) + Cardinality(Counted(k))

UncountedOwed ==
  \A k \in Outcomes :
    Uncounted(k) = Owed(k) /\ waiting[k] \in Nat /\ Cardinality(Counted(k)) \in Nat

LEMMA UncountedIs == RequestTypeOK /\ Len(inside) <= 1 => UncountedOwed
BY InsideCardinality, CountedFinite DEF Uncounted, RequestTypeOK, UncountedOwed, Owed

LEMMA UncountedIsNext == (RequestTypeOK /\ Len(inside) <= 1 => UncountedOwed)'
BY UncountedIs, PTL

\* A step of the request of s, from one point to another with an outcome, makes
\* it one of those to be counted, or no longer one of them.
LEMMA CountedMoves ==
  ASSUME RequestTypeOK, RequestTypeOK', NEW s \in Stricker, NEW k \in Outcomes,
         \A u \in Stricker \ {s} : request'[u] = request[u]
  PROVE  Cardinality(Counted(k)') =
           IF s \in Counted(k)' /\ s \notin Counted(k) THEN Cardinality(Counted(k)) + 1
           ELSE IF s \notin Counted(k)' /\ s \in Counted(k) THEN Cardinality(Counted(k)) - 1
           ELSE Cardinality(Counted(k))
<1>1. IsFiniteSet(Counted(k))
  BY CountedFinite
<1>2. \A u \in Stricker \ {s} : u \in Counted(k)' <=> u \in Counted(k)
  BY DEF Counted
<1>3. Counted(k)' \subseteq Stricker /\ Counted(k) \subseteq Stricker
  BY DEF Counted
<1>4. CASE s \in Counted(k)' /\ s \notin Counted(k)
  <2>1. Counted(k)' = Counted(k) \cup {s}
    BY <1>2, <1>3, <1>4
  <2> QED
    BY <1>1, <1>4, <2>1, FS_AddElement
<1>5. CASE s \notin Counted(k)' /\ s \in Counted(k)
  <2>1. Counted(k)' = Counted(k) \ {s}
    BY <1>2, <1>3, <1>5
  <2> QED
    BY <1>1, <1>5, <2>1, FS_RemoveElement
<1>6. CASE s \in Counted(k)' <=> s \in Counted(k)
  <2>1. Counted(k)' = Counted(k)
    BY <1>2, <1>3, <1>6
  <2> QED
    BY <1>6, <2>1
<1> QED
  BY <1>4, <1>5, <1>6

LEMMA RequestStepCountInv ==
  ASSUME RequestTypeOK, RequestTypeOK', CountInv, NEW s \in Stricker,
         NEW w \in BOOLEAN, NEW m \in BOOLEAN,
         AcquireResponse(s, m) \/ RequestStep(s, w, m)
  PROVE  CountInv'
<1>1. UNCHANGED <<count, inside, torn>>
  BY DEF AcquireResponse, RequestStep, AddHeaders, ClientDo, Judge, ReleaseResponse, Count,
    countVars, requestHistory
<1>2. OneInside'
  BY <1>1 DEF OneInside, CountInv
<1>3. request \in [Stricker -> RequestState] /\ request[s] \in RequestState
  BY DEF RequestTypeOK, RequestState
<1>4. \A u \in Stricker \ {s} : request'[u] = request[u]
  BY <1>3 DEF AcquireResponse, RequestStep, AddHeaders, ClientDo, Judge, ReleaseResponse, Count,
    Point
<1>5. ASSUME NEW k \in Outcomes, ~torn
      PROVE  count'[k] + Uncounted(k)' = answered'[k]
  <2>0. count[k] + Uncounted(k) = answered[k]
    BY <1>5 DEF CountInv, CountsExact
  <2>1. /\ Uncounted(k) = waiting[k] + (IF inside # <<>> /\ inside[1].kind = k THEN 1 ELSE 0)
                            + Cardinality(Counted(k))
        /\ waiting[k] \in Nat /\ Cardinality(Counted(k)) \in Nat
    BY UncountedIs DEF CountInv, OneInside, UncountedOwed, Owed
  <2>2. /\ Uncounted(k)' = waiting'[k] + (IF inside # <<>> /\ inside[1].kind = k THEN 1 ELSE 0)
                             + Cardinality(Counted(k)')
        /\ waiting'[k] \in Nat /\ Cardinality(Counted(k)') \in Nat
    BY <1>1, <1>2, UncountedIsNext DEF OneInside, UncountedOwed, Owed
  <2>3. count[k] \in Nat /\ answered[k] \in Nat
    BY DEF RequestTypeOK
  <2>4. CASE UNCHANGED <<waiting, answered>> /\ (s \in Counted(k)' <=> s \in Counted(k))
    <3>1. Cardinality(Counted(k)') = Cardinality(Counted(k))
      BY <1>4, <2>4, CountedMoves
    <3> QED
      BY <1>1, <2>0, <2>1, <2>2, <2>4, <3>1
  <2>5. \A pc \in {"idle", "build", "do", "judge"} :
          /\ request[s].pc = pc => s \notin Counted(k)
          /\ request'[s].pc = pc => s \notin Counted(k)'
    BY DEF Counted
  <2>6. CASE AcquireResponse(s, m) \/ AddHeaders(s, w) \/ ClientDo(s)
    <3>1. request[s].pc \in {"idle", "build", "do"} /\ request'[s].pc \in {"build", "do", "judge"}
      <4>1. CASE AcquireResponse(s, m)
        <5>1. PICK b \in Buffer :
                /\ request[s].pc = "idle"
                /\ request' = [request EXCEPT ![s] =
                                 [NoRequest EXCEPT !.pc = "build", !.buffer = b]]
          BY <4>1 DEF AcquireResponse
        <5>2. request'[s].pc = "build"
          BY <1>3, <5>1 DEF NoRequest
        <5> QED
          BY <5>1, <5>2
      <4>2. CASE AddHeaders(s, w) \/ ClientDo(s)
        BY <1>3, <4>2 DEF AddHeaders, ClientDo, Point, RequestState
      <4> QED
        BY <2>6, <4>1, <4>2
    <3>2. UNCHANGED <<waiting, answered>>
      BY <2>6 DEF AcquireResponse, AddHeaders, ClientDo, countVars, requestHistory
    <3> QED
      BY <2>4, <2>5, <3>1, <3>2
  <2>7. CASE ReleaseResponse(s)
    <3>1. /\ request[s].pc = "release" /\ request'[s].pc = "count"
          /\ request'[s].outcome = request[s].outcome
      BY <1>3, <2>7 DEF ReleaseResponse, Point, RequestState
    <3>2. UNCHANGED <<waiting, answered>>
      BY <2>7 DEF ReleaseResponse, countVars, requestHistory
    <3> QED
      BY <2>4, <3>1, <3>2 DEF Counted
  <2>8. CASE Judge(s)
    <3>1. PICK o \in Outcomes :
            /\ request' = [request EXCEPT ![s].pc = "release", ![s].outcome = o]
            /\ answered' = [answered EXCEPT ![o] = @ + 1]
            /\ request[s].pc = "judge" /\ waiting' = waiting
      <4>1. response[request[s].buffer] \in Outcomes
        BY <1>3 DEF RequestTypeOK, RequestState
      <4> QED
        BY <2>8, <4>1 DEF Judge, countVars
    <3>2. request'[s].pc = "release" /\ request'[s].outcome = o
      BY <1>3, <3>1 DEF RequestState
    <3>3. s \notin Counted(k) /\ (s \in Counted(k)' <=> k = o)
      BY <2>5, <3>1, <3>2 DEF Counted
    <3>4. Cardinality(Counted(k)') = Cardinality(Counted(k)) + (IF k = o THEN 1 ELSE 0)
      BY <1>4, <2>1, <3>3, CountedMoves
    <3>5. answered'[k] = answered[k] + (IF k = o THEN 1 ELSE 0)
      <4>1. answered \in [Outcomes -> Nat]
        BY DEF RequestTypeOK
      <4>2. CASE k = o
        BY <3>1, <4>1, <4>2
      <4>3. CASE k # o
        BY <2>3, <3>1, <4>1, <4>3
      <4> QED
        BY <4>2, <4>3
    <3> QED
      BY <1>1, <2>0, <2>1, <2>2, <2>3, <3>1, <3>4, <3>5, SMTT(40)
  <2>9. CASE Count(s, m)
    <3>1. /\ request[s].pc = "count" /\ request'[s].pc = "idle"
          /\ waiting' = [waiting EXCEPT ![request[s].outcome] = @ + 1]
          /\ answered' = answered
      BY <1>3, <2>9 DEF Count, Point, RequestState, requestHistory
    <3>2. s \notin Counted(k)' /\ (s \in Counted(k) <=> k = request[s].outcome)
      BY <2>5, <3>1 DEF Counted
    <3>3. Cardinality(Counted(k)') =
            Cardinality(Counted(k)) - (IF k = request[s].outcome THEN 1 ELSE 0)
      BY <1>4, <2>1, <3>2, CountedMoves
    <3>4. waiting'[k] = waiting[k] + (IF k = request[s].outcome THEN 1 ELSE 0)
      <4>1. waiting \in [Outcomes -> Nat]
        BY DEF RequestTypeOK
      <4>2. CASE k = request[s].outcome
        BY <3>1, <4>1, <4>2
      <4>3. CASE k # request[s].outcome
        BY <2>1, <3>1, <4>1, <4>3
      <4> QED
        BY <4>2, <4>3
    <3>5. CASE k = request[s].outcome
      BY <1>1, <2>0, <2>1, <2>2, <2>3, <3>1, <3>3, <3>4, <3>5, SMTT(40)
    <3>6. CASE k # request[s].outcome
      BY <1>1, <2>0, <2>1, <2>2, <2>3, <3>1, <3>3, <3>4, <3>6
    <3> QED
      BY <3>5, <3>6
  <2> QED
    BY <2>6, <2>7, <2>8, <2>9 DEF RequestStep
<1> QED
  BY <1>1, <1>2, <1>5 DEF CountInv, CountsExact

\* The only goroutine that has read a count.
LEMMA InsideIs ==
  ASSUME RequestTypeOK, Len(inside) <= 1, inside # <<>>
  PROVE  /\ Len(inside) = 1 /\ 1 \in DOMAIN inside
         /\ Head(inside) = inside[1] /\ Tail(inside) = <<>>
         /\ inside[1].kind \in Outcomes /\ inside[1].read \in Nat
<1> DEFINE S == [kind : Outcomes, read : Nat]
<1>1. inside \in Seq(S)
  BY DEF RequestTypeOK
<1>2. \A e \in S : e.kind \in Outcomes /\ e.read \in Nat
  OBVIOUS
<1> HIDE DEF S
<1>3. Len(inside) \in Nat /\ Len(inside) # 0
  BY <1>1, EmptySeq
<1>4. Len(inside) = 1
  <2>1. \A n \in Nat : n <= 1 /\ n # 0 => n = 1
    OBVIOUS
  <2> QED
    BY <1>3, <2>1, Zenon
<1>5. Head(inside) = inside[1] /\ inside[1] \in S /\ 1 \in DOMAIN inside
  BY <1>1, <1>4
<1>6. Tail(inside) \in Seq(S) /\ Len(Tail(inside)) = 0
  BY <1>1, <1>4, HeadTailProperties
<1>7. Tail(inside) = <<>>
  BY <1>6, EmptySeq
<1> QED
  BY <1>2, <1>4, <1>5, <1>7

\* What the steps of counting leave alone.
LEMMA CountedStays ==
  ASSUME request' = request, NEW k \in Outcomes
  PROVE  Counted(k)' = Counted(k)
BY DEF Counted

LEMMA ReadCountInv ==
  ASSUME RequestTypeOK, RequestTypeOK', CountInv, NEW j \in Outcomes, ReadCount(j)
  PROVE  CountInv'
<1> DEFINE entry == [kind |-> j, read |-> count[j]]
<1>1. /\ inside = <<>> /\ inside' = Append(inside, entry) /\ waiting[j] > 0
      /\ waiting' = [waiting EXCEPT ![j] = @ - 1]
      /\ UNCHANGED <<request, count, answered, torn>>
  BY DEF ReadCount, requestHistory
<1>2. inside' = <<entry>> /\ inside'[1] = entry /\ Len(inside') = 1 /\ inside' # <<>>
  BY <1>1
<1>3. entry.kind = j /\ entry.read = count[j]
  OBVIOUS
<1> HIDE DEF entry
<1>4. OneInside'
  BY <1>1, <1>2, <1>3 DEF OneInside
<1>5. ASSUME NEW k \in Outcomes, ~torn
      PROVE  count'[k] + Uncounted(k)' = answered'[k]
  <2>1. count[k] + Uncounted(k) = answered[k] /\ count[k] \in Nat
    BY <1>5 DEF CountInv, CountsExact, RequestTypeOK
  <2>2. Uncounted(k) = waiting[k] + Cardinality(Counted(k))
        /\ waiting[k] \in Nat /\ Cardinality(Counted(k)) \in Nat
    BY <1>1, UncountedIs DEF CountInv, OneInside, UncountedOwed, Owed
  <2>3. Uncounted(k)' = waiting'[k] + (IF k = j THEN 1 ELSE 0) + Cardinality(Counted(k))
    BY <1>1, <1>2, <1>3, <1>4, UncountedIsNext, CountedStays DEF OneInside, UncountedOwed, Owed
  <2>4. waiting'[k] = waiting[k] - (IF k = j THEN 1 ELSE 0)
    <3>1. waiting \in [Outcomes -> Nat]
      BY DEF RequestTypeOK
    <3>2. CASE k = j
      BY <1>1, <3>1, <3>2
    <3>3. CASE k # j
      BY <1>1, <2>2, <3>1, <3>3
    <3> QED
      BY <3>2, <3>3
  <2> QED
    BY <1>1, <2>1, <2>2, <2>3, <2>4
<1> QED
  BY <1>1, <1>4, <1>5 DEF CountInv, CountsExact

LEMMA WriteCountInv ==
  ASSUME RequestTypeOK, RequestTypeOK', CountInv, WriteCount
  PROVE  CountInv'
<1>1. /\ inside # <<>> /\ inside' = Tail(inside)
      /\ count' = [count EXCEPT ![Head(inside).kind] = Head(inside).read + 1]
      /\ UNCHANGED <<request, waiting, answered, torn>>
  BY DEF WriteCount, requestHistory
<1>2. inside' = <<>> /\ Len(inside') = 0 /\ Head(inside) = inside[1]
      /\ inside[1].kind \in Outcomes
  BY <1>1, InsideIs DEF CountInv, OneInside
<1> DEFINE j == inside[1].kind
<1>3. j \in Outcomes /\ count' = [count EXCEPT ![j] = inside[1].read + 1]
  BY <1>1, <1>2
<1>4. OneInside'
  BY <1>2 DEF OneInside
<1>5. ASSUME NEW k \in Outcomes, ~torn
      PROVE  count'[k] + Uncounted(k)' = answered'[k]
  <2>1. count[k] + Uncounted(k) = answered[k] /\ count[k] \in Nat
    BY <1>5 DEF CountInv, CountsExact, RequestTypeOK
  <2>2. Uncounted(k) = waiting[k] + (IF k = j THEN 1 ELSE 0) + Cardinality(Counted(k))
        /\ waiting[k] \in Nat /\ Cardinality(Counted(k)) \in Nat
    BY <1>1, UncountedIs DEF CountInv, OneInside, UncountedOwed, Owed
  <2>3. Uncounted(k)' = waiting[k] + Cardinality(Counted(k))
    BY <1>1, <1>2, <1>4, UncountedIsNext, CountedStays DEF OneInside, UncountedOwed, Owed
  <2>4. count'[k] = count[k] + (IF k = j THEN 1 ELSE 0)
    <3>1. count \in [Outcomes -> Nat] /\ inside[1].read = count[j]
      BY <1>1, <1>5 DEF RequestTypeOK, CountInv, OneInside
    <3>2. CASE k = j
      BY <1>3, <3>1, <3>2
    <3>3. CASE k # j
      BY <1>3, <2>1, <3>1, <3>3
    <3> QED
      BY <3>2, <3>3
  <2>5. CASE k = j
    BY <1>1, <2>1, <2>2, <2>3, <2>4, <2>5
  <2>6. CASE k # j
    BY <1>1, <2>1, <2>2, <2>3, <2>4, <2>6
  <2> QED
    BY <2>5, <2>6
<1> QED
  BY <1>1, <1>4, <1>5 DEF CountInv, CountsExact

\* A reset starts from what is still to be counted; one that meets a goroutine
\* which has read that count is the exception.
LEMMA ResetCountInv ==
  ASSUME RequestTypeOK, RequestTypeOK', CountInv, NEW j \in Outcomes, Reset(j)
  PROVE  CountInv'
<1>1. /\ count' = [count EXCEPT ![j] = 0]
      /\ answered' = [answered EXCEPT ![j] = Uncounted(j)]
      /\ UNCHANGED <<request, waiting, inside>>
  BY DEF Reset
<1>2. torn' <=> torn \/ Inside(j) # {}
  BY Zenon DEF Reset
<1>3. \A k \in Outcomes : Uncounted(k)' = Uncounted(k)
  BY <1>1 DEF Uncounted, Inside, Counted
<1>4. count \in [Outcomes -> Nat] /\ answered \in [Outcomes -> Nat]
  BY DEF RequestTypeOK
<1>5. OneInside'
  <2>1. ASSUME ~torn', inside # <<>> PROVE inside[1].read = count'[inside[1].kind]
    <3>1. inside[1].read = count[inside[1].kind] /\ Inside(j) = {}
      BY <1>2, <2>1 DEF CountInv, OneInside
    <3>2. 1 \in DOMAIN inside /\ inside[1].kind \in Outcomes
      BY <2>1, InsideIs DEF CountInv, OneInside
    <3>3. inside[1].kind # j
      BY <3>1, <3>2 DEF Inside
    <3> QED
      BY <1>1, <1>4, <3>1, <3>2, <3>3
  <2> QED
    BY <1>1, <2>1 DEF CountInv, OneInside
<1>6. ASSUME ~torn', NEW k \in Outcomes
      PROVE  count'[k] + Uncounted(k)' = answered'[k]
  <2>1. Uncounted(k) \in Nat
    BY UncountedIs, <1>1 DEF CountInv, OneInside, UncountedOwed, Owed
  <2>2. CASE k = j
    BY <1>1, <1>3, <1>4, <2>1, <2>2
  <2>3. CASE k # j
    <3>1. count[k] + Uncounted(k) = answered[k]
      BY <1>2, <1>6 DEF CountInv, CountsExact
    <3> QED
      BY <1>1, <1>3, <1>4, <2>3, <3>1
  <2> QED
    BY <2>2, <2>3
<1> QED
  BY <1>5, <1>6 DEF CountInv, CountsExact

LEMMA CountInvUnchanged ==
  CountInv /\ UNCHANGED <<request, count, waiting, inside, answered, torn>> => CountInv'
BY DEF CountInv, OneInside, CountsExact, Uncounted, Inside, Counted

LEMMA CountInvInit == ActionsInit => CountInv
<1> SUFFICES ASSUME ActionsInit PROVE CountInv
  OBVIOUS
<1>1. RequestTypeOK /\ inside = <<>> /\ Len(inside) = 0
  BY ActionsInitTypeOK DEF ActionsTypeOK, ActionsInit, RequestInit
<1>2. ASSUME NEW k \in Outcomes PROVE count[k] + Uncounted(k) = answered[k]
  <2>1. \A s \in Stricker : request[s].pc = "idle"
    BY DEF ActionsInit, RequestInit, NoRequest
  <2>2. Counted(k) = {}
    BY <2>1 DEF Counted
  <2>3. Cardinality(Counted(k)) = 0
    BY <2>2, FS_EmptySet
  <2>4. waiting[k] = 0 /\ count[k] = 0 /\ answered[k] = 0
    BY DEF ActionsInit, RequestInit
  <2>5. Uncounted(k) = Owed(k)
    BY <1>1, UncountedIs DEF UncountedOwed
  <2> QED
    BY <1>1, <2>3, <2>4, <2>5 DEF Owed
<1> QED
  BY <1>1, <1>2 DEF CountInv, OneInside, CountsExact

LEMMA CountInvNext ==
  ActionsTypeOK /\ CountInv /\ [ActionsNext]_actionVars => CountInv'
<1> SUFFICES ASSUME ActionsTypeOK, CountInv, [ActionsNext]_actionVars PROVE CountInv'
  OBVIOUS
<1>0. RequestTypeOK /\ RequestTypeOK' /\ mix \in Mixes
  BY ActionsNextTypeOK DEF ActionsTypeOK
<1>1. ASSUME NEW s \in Stricker, CallHelper(s) \/ HelperStep(s) PROVE CountInv'
  BY <1>1, CountInvUnchanged DEF CallHelper, HelperStep, countVars, requestHistory, requestVars
<1>2. ASSUME NEW s \in Stricker, BeginRequest(s) \/ MakeRequest(s) PROVE CountInv'
  BY <1>0, <1>2, MixFacts, RequestStepCountInv DEF BeginRequest, MakeRequest
<1>3. CASE UpdateRate
  BY <1>3, CountInvUnchanged DEF UpdateRate, countVars, requestHistory, requestVars
<1>4. CASE CountAnswer
  BY <1>0, <1>4, ReadCountInv, WriteCountInv DEF CountAnswer, Counting
<1>5. CASE CountMetric
  BY <1>5, CountInvUnchanged DEF CountMetric, Increment, countVars, requestHistory
<1>6. CASE Run
  BY <1>0, <1>6, ResetCountInv DEF Run, ResetSuccess, ResetError, Outcomes
<1>7. CASE UNCHANGED actionVars
  BY <1>7, CountInvUnchanged DEF actionVars, countVars, requestHistory, requestVars
<1> QED
  BY <1>1, <1>2, <1>3, <1>4, <1>5, <1>6, <1>7 DEF ActionsNext

\* The counts of a run are exact for any number of requests at the same time:
\* every answer is counted once, unless Run resets a count between its read and
\* its write.
THEOREM CountsExactCorrect == ActionsSpec => []CountsExact
<1>1. CountInv => CountsExact
  BY DEF CountInv
<1> QED
  BY <1>1, ActionsTypeCorrect, CountInvInit, CountInvNext, PTL DEF ActionsSpec

-----------------------------------------------------------------------------
(* What commands do to keys *)

\* A key has a type as long as it has a value.
KeysTyped == \A k \in Key : db[k].type = "none" <=> db[k].size = 0

ValueTypedRight(v) == v.type = "none" <=> v.size = 0

LEMMA ForIs ==
  /\ DOMAIN For = {"LPOP", "LPUSH", "LINDEX", "SPOP", "SRANDMEMBER", "SADD", "HMSET", "HMGET",
                   "GET"}
  /\ For["LPOP"] = "list" /\ For["LPUSH"] = "list" /\ For["LINDEX"] = "list"
  /\ For["SPOP"] = "set" /\ For["SRANDMEMBER"] = "set" /\ For["SADD"] = "set"
  /\ For["HMSET"] = "hash" /\ For["HMGET"] = "hash" /\ For["GET"] = "string"
BY DEF For

\* The effects of a command that met a value it is for.
LEMMA AfterIs ==
  ASSUME NEW v \in KeyState, NEW cmd \in Plain, ~WrongType(cmd, v), ValueTypedRight(v)
  PROVE  /\ ValueTypedRight(After(cmd, v))
         /\ After(cmd, v).type = "string" /\ ~After(cmd, v).expires =>
              cmd = "SET" \/ (v.type = "string" /\ ~v.expires /\ cmd # "EXPIRE")
         /\ v.type = "string" => After(cmd, v).type = "string"
         /\ v.type \in {"list", "set"} /\ cmd \notin {"LPOP", "SPOP"} =>
              \/ After(cmd, v).type = "string"
              \/ After(cmd, v).type = v.type /\ After(cmd, v).size >= v.size
<1>0. v.size \in Nat /\ v.size <= MaxElements /\ MaxElements \in Nat \ {0}
  BY RedisConstants DEF KeyState
<1>1. CASE cmd \in {"LPOP", "SPOP"}
  <2>1. v.type \in {"none", "list", "set"}
    BY <1>1, ForIs DEF WrongType
  <2>2. CASE v.size = 0
    <3>1. After(cmd, v) = v
      BY <1>1, <2>2 DEF After
    <3> QED
      BY <1>1, <2>1, <3>1
  <2>3. CASE v.size = 1
    <3>1. After(cmd, v) = Absent
      BY <1>1, <2>3 DEF After, Less
    <3> QED
      BY <1>1, <2>1, <3>1 DEF Absent, ValueTypedRight
  <2>4. CASE v.size > 1
    <3>1. After(cmd, v) = [v EXCEPT !.size = @ - 1]
      BY <1>0, <1>1, <2>4 DEF After, Less
    <3>2. After(cmd, v).type = v.type /\ After(cmd, v).size = v.size - 1
      BY <3>1 DEF KeyState
    <3> QED
      BY <1>0, <1>1, <2>1, <2>4, <3>2 DEF ValueTypedRight
  <2> QED
    BY <1>0, <2>2, <2>3, <2>4
<1>2. CASE cmd \in {"LPUSH", "SADD", "HMSET"}
  <2>1. For[cmd] \in {"list", "set", "hash"} /\ v.type \in {"none", For[cmd]}
    BY <1>2, ForIs DEF WrongType
  <2>2. After(cmd, v) = More(v, For[cmd])
    <3>1. cmd \notin {"LPOP", "SPOP"}
      BY <1>2
    <3> QED
      BY <1>2, <3>1, Zenon DEF After
  <2>3. /\ After(cmd, v).type = For[cmd]
        /\ After(cmd, v).size = IF v.size < MaxElements THEN v.size + 1 ELSE v.size
    BY <2>2 DEF More, KeyState
  <2>4. After(cmd, v).size >= v.size /\ After(cmd, v).size > 0
    BY <1>0, <2>3
  <2> QED
    BY <1>2, <2>1, <2>3, <2>4 DEF ValueTypedRight
<1>3. CASE cmd = "SET"
  <2>1. After(cmd, v) = [type |-> "string", size |-> 1, expires |-> FALSE]
    BY <1>3 DEF After
  <2> QED
    BY <1>3, <2>1 DEF ValueTypedRight
<1>4. CASE cmd = "EXPIRE"
  <2>1. CASE v.size > 0
    <3>1. After(cmd, v) = [v EXCEPT !.expires = TRUE]
      BY <1>4, <2>1 DEF After
    <3>2. After(cmd, v).type = v.type /\ After(cmd, v).size = v.size /\ After(cmd, v).expires
      BY <3>1 DEF KeyState
    <3> QED
      BY <1>0, <3>2 DEF ValueTypedRight
  <2>2. CASE v.size = 0
    <3>1. After(cmd, v) = v /\ v.type = "none"
      BY <1>4, <2>2 DEF After, ValueTypedRight
    <3> QED
      BY <1>0, <3>1
  <2> QED
    BY <1>0, <2>1, <2>2
<1>5. CASE cmd \in {"SRANDMEMBER", "GET", "HMGET"}
  <2>1. After(cmd, v) = v
    BY <1>5 DEF After
  <2> QED
    BY <1>0, <1>5, <2>1
<1> QED
  BY <1>1, <1>2, <1>3, <1>4, <1>5 DEF Plain, Reads

-----------------------------------------------------------------------------
(* What a step of one Stricker is to the others, and to the keys *)

\* The command of s reached Redis and was for the value it met.
Served(s, reached) == reached /\ ~WrongType(At(s), Value(s))

\* What Do(s) does besides answering s.
DoEffect(s, reached) ==
  /\ At(s) \in Plain
  /\ reached => conn[<<s, "outer">>] = "open" /\ UNCHANGED <<conn, faults>>
  /\ ~reached /\ conn[<<s, "outer">>] = "open" => faults' > 0
  /\ db' = IF Served(s, reached) /\ helper[s].key # NoKey
             THEN [db EXCEPT ![helper[s].key] = After(At(s), Value(s))] ELSE db
  /\ \A u \in Stricker : shrunk[u] => shrunk'[u]
  /\ Served(s, reached) /\ At(s) \in {"LPOP", "SPOP"} /\ Value(s).size > 0 =>
       \A u \in Stricker :
         helper[u].op = "LGet" /\ helper[u].at \in 5 .. 6 /\ helper[u].key = helper[s].key =>
           shrunk'[u]

LEMMA DoEffects ==
  ASSUME RedisTypeOK, NEW s \in Stricker, Do(s)
  PROVE  \E reached \in BOOLEAN : DoEffect(s, reached)
<1>1. PICK reached \in BOOLEAN, wrong \in BOOLEAN, ok \in BOOLEAN :
        /\ At(s) \in Plain /\ Reach(s, "outer", reached)
        /\ wrong = (reached /\ WrongType(At(s), Value(s)))
        /\ ok = (reached /\ ~wrong /\ Converts(At(s), Value(s)))
        /\ db' = IF reached /\ ~wrong /\ helper[s].key # NoKey
                   THEN [db EXCEPT ![helper[s].key] = After(At(s), Value(s))] ELSE db
        /\ shrunk' = [u \in Stricker |->
             \/ shrunk[u]
             \/ /\ ok /\ At(s) \in {"LPOP", "SPOP"}
                /\ helper[u].op = "LGet" /\ helper[u].at \in 5 .. 6
                /\ helper[u].key = helper[s].key]
  BY Zenon DEF Do
<1>2. Served(s, reached) <=> reached /\ ~wrong
  BY <1>1, Zenon DEF Served
<1>3. reached => conn[<<s, "outer">>] = "open" /\ UNCHANGED <<conn, faults>>
  BY <1>1, Zenon DEF Reach
<1>4. ~reached /\ conn[<<s, "outer">>] = "open" => faults' > 0
  <2>1. ~reached /\ conn[<<s, "outer">>] = "open" => faults' = faults + 1
    BY <1>1, Zenon DEF Reach, Fault
  <2> QED
    BY <2>1 DEF RedisTypeOK
<1>5. db' = IF Served(s, reached) /\ helper[s].key # NoKey
              THEN [db EXCEPT ![helper[s].key] = After(At(s), Value(s))] ELSE db
  <2>1. CASE Served(s, reached) /\ helper[s].key # NoKey
    BY <1>1, <1>2, <2>1, Zenon
  <2>2. CASE ~(Served(s, reached) /\ helper[s].key # NoKey)
    BY <1>1, <1>2, <2>2, Zenon
  <2> QED
    BY <2>1, <2>2
<1>6. \A u \in Stricker :
        shrunk'[u] = (\/ shrunk[u]
                      \/ /\ ok /\ At(s) \in {"LPOP", "SPOP"}
                         /\ helper[u].op = "LGet" /\ helper[u].at \in 5 .. 6
                         /\ helper[u].key = helper[s].key)
  BY <1>1, Zenon
<1>7. Served(s, reached) /\ At(s) \in {"LPOP", "SPOP"} /\ Value(s).size > 0 => ok
  <2>1. At(s) \in {"LPOP", "SPOP"} /\ Value(s).size > 0 => Converts(At(s), Value(s))
    BY DEF Converts
  <2> QED
    BY <1>1, <1>2, <2>1, Zenon
<1>8. DoEffect(s, reached)
  BY <1>1, <1>3, <1>4, <1>5, <1>6, <1>7, Zenon DEF DoEffect
<1> QED
  BY <1>8

\* The value of each key after the command.
LEMMA DoKeys ==
  ASSUME RedisTypeOK, NEW s \in Stricker, Busy(s), NEW reached \in BOOLEAN,
         DoEffect(s, reached), NEW k \in Key
  PROVE  \/ /\ helper[s].key = k /\ Served(s, reached)
            /\ Value(s) = db[k] /\ db'[k] = After(At(s), db[k])
         \/ db'[k] = db[k] /\ ~(helper[s].key = k /\ Served(s, reached))
<1>1. k # NoKey
  BY RedisConstants
<1>2. CASE helper[s].key = k /\ Served(s, reached)
  <2>1. Value(s) = db[k]
    BY <1>1, <1>2 DEF Value
  <2>2. db' = [db EXCEPT ![k] = After(At(s), db[k])]
    BY <1>1, <1>2, <2>1, Zenon DEF DoEffect
  <2> QED
    BY <1>2, <2>1, <2>2 DEF RedisTypeOK
<1>3. CASE ~(helper[s].key = k /\ Served(s, reached))
  <2>1. CASE Served(s, reached) /\ helper[s].key # NoKey
    <3>1. db' = [db EXCEPT ![helper[s].key] = After(At(s), Value(s))]
      BY <2>1, Zenon DEF DoEffect
    <3> QED
      BY <1>3, <2>1, <3>1 DEF RedisTypeOK
  <2>2. CASE ~(Served(s, reached) /\ helper[s].key # NoKey)
    <3>1. db' = db
      BY <2>2, Zenon DEF DoEffect
    <3> QED
      BY <1>3, <3>1
  <2> QED
    BY <2>1, <2>2
<1> QED
  BY <1>2, <1>3

\* Whatever s does, the others keep their place, their connection and excuses.
OthersStay(s) ==
  \A u \in Stricker \ {s} :
    /\ helper'[u] = helper[u] /\ conn'[<<u, "outer">>] = conn[<<u, "outer">>]
    /\ excused'[u] = excused[u] /\ (shrunk[u] => shrunk'[u])

LEMMA OthersUnmoved ==
  ASSUME RedisTypeOK, NEW s \in Stricker, RedisStep(s)
  PROVE  OthersStay(s)
<1>0. Busy(s)
  BY DEF RedisStep
<1>1. CASE Commands(s)
  <2>1. PICK h : CommandStep(s, h)
    BY <1>0, <1>1, CommandFacts
  <2>2. \A u \in Stricker \ {s} : helper'[u] = helper[u]
    BY <2>1 DEF CommandStep, RedisTypeOK
  <2>3. \A u \in Stricker \ {s} : conn'[<<u, "outer">>] = conn[<<u, "outer">>]
    BY <2>1 DEF CommandStep, Levels
  <2>4. \A u \in Stricker \ {s} : excused'[u] = excused[u]
    <3>1. \E v : excused' = [excused EXCEPT ![s] = v]
      BY <1>1, Zenon DEF Commands, Do, GetKeyType, GetLength, LIndex, RandomKey, IsKeyAvailable,
        Learn
    <3> QED
      BY <3>1 DEF RedisTypeOK
  <2>5. \A u \in Stricker : shrunk[u] => shrunk'[u]
    <3>1. CASE Do(s)
      BY <3>1, DoEffects DEF DoEffect
    <3>2. CASE ~Do(s)
      BY <1>1, <3>2 DEF Commands, GetKeyType, GetLength, LIndex, RandomKey, IsKeyAvailable
    <3> QED
      BY <3>1, <3>2
  <2> QED
    BY <2>2, <2>3, <2>4, <2>5 DEF OthersStay
<1>2. CASE Get(s, "outer") \/ Get(s, "inner")
  BY <1>2 DEF Get, historyVars, RedisTypeOK, OthersStay, Levels
<1>3. CASE CloseInner(s)
  BY <1>3 DEF CloseInner, historyVars, RedisTypeOK, OthersStay, Levels
<1>4. CASE Return(s)
  BY <1>4 DEF Return, RedisTypeOK, OthersStay, Levels
<1> QED
  BY <1>1, <1>2, <1>3, <1>4 DEF RedisStep, Commands

-----------------------------------------------------------------------------
(* Keys that expire *)

\* s has set k and is about to give it a lifetime, over a connection that works.
Setting(s, k) ==
  /\ helper[s].op = "SetData" /\ helper[s].key = k /\ helper[s].at = 3
  /\ conn[<<s, "outer">>] = "open"

KeysKept ==
  \A k \in Key :
    db[k].type = "string" /\ ~db[k].expires =>
      faults > 0 \/ \E s \in Stricker : Setting(s, k)

KeyInv == KeysTyped /\ KeysKept

LEMMA SetDataSteps ==
  ASSUME NEW s \in Stricker, helper[s].op = "SetData"
  PROVE  /\ helper[s].at = 3 => At(s) = "EXPIRE"
         /\ helper[s].at = 2 => At(s) = "SET"
BY DEF At, Script, SetRedisData

\* Only SetRedisData sends SET.
LEMMA SetIsSetData ==
  ASSUME NEW op \in Helpers, NEW i \in DOMAIN Script[op], Script[op][i] = "SET"
  PROVE  op = "SetData" /\ i = 2
<1>1. CASE op \in {"LPop", "LPush", "SPop", "SGet", "SAdd", "HMSet"}
  BY <1>1 DEF Script
<1>2. CASE op \in {"HMGet", "GetData", "Wait"}
  BY <1>2 DEF Script
<1>3. CASE op = "LGet"
  BY <1>3 DEF Script
<1>4. CASE op = "SetData"
  BY <1>4 DEF Script, SetRedisData
<1>5. CASE op = "GetSession"
  BY <1>5 DEF Script
<1> QED
  BY <1>1, <1>2, <1>3, <1>4, <1>5, ScriptNames DEF Helpers

LEMMA SettingStays ==
  ASSUME NEW s \in Stricker, OthersStay(s), NEW u \in Stricker \ {s}, NEW k, Setting(u, k)
  PROVE  Setting(u, k)'
BY DEF OthersStay, Setting

LEMMA DoKeyInv ==
  ASSUME RedisTypeOK, KeyInv, NEW s \in Stricker, RedisStep(s), Do(s)
  PROVE  KeyInv'
<1>0. Busy(s) /\ OthersStay(s)
  BY OthersUnmoved DEF RedisStep
<1>1. PICK reached \in BOOLEAN : DoEffect(s, reached)
  BY DoEffects
<1>2. \A k \in Key : db[k] \in KeyState /\ ValueTypedRight(db[k])
  BY DEF RedisTypeOK, KeyInv, KeysTyped, ValueTypedRight
<1>3. PICK h : CommandStep(s, h)
  BY <1>0, CommandFacts DEF Commands
<1>4. /\ helper' = [helper EXCEPT ![s] = h] /\ h.op = helper[s].op
      /\ helper \in [Stricker -> HelperState] /\ faults' \in Nat /\ faults' >= faults
  BY <1>3 DEF CommandStep, RedisTypeOK
<1>5. helper[s].op \in Helpers /\ helper[s].at \in DOMAIN Script[helper[s].op]
  BY <1>0, HelperFacts
<1>6. KeysTyped'
  <2> SUFFICES ASSUME NEW k \in Key PROVE ValueTypedRight(db'[k])
    BY DEF KeysTyped, ValueTypedRight
  <2>1. CASE db'[k] = db[k]
    BY <1>2, <2>1
  <2>2. CASE Served(s, reached) /\ Value(s) = db[k] /\ db'[k] = After(At(s), db[k])
    <3>1. ~WrongType(At(s), db[k]) /\ At(s) \in Plain
      BY <1>1, <2>2 DEF Served, DoEffect
    <3> QED
      BY <1>2, <2>2, <3>1, AfterIs
  <2> QED
    BY <1>0, <1>1, <2>1, <2>2, DoKeys
<1>7. KeysKept'
  <2> SUFFICES ASSUME NEW k \in Key, db'[k].type = "string", ~db'[k].expires, ~(faults' > 0)
               PROVE  \E u \in Stricker : Setting(u, k)'
    BY DEF KeysKept
  <2>0. ~(faults > 0)
    BY <1>4 DEF RedisTypeOK
  <2>1. ASSUME db[k].type = "string", ~db[k].expires, ~Setting(s, k)
        PROVE  \E u \in Stricker : Setting(u, k)'
    <3>1. PICK u \in Stricker : Setting(u, k)
      BY <2>0, <2>1 DEF KeyInv, KeysKept
    <3> QED
      BY <1>0, <2>1, <3>1, SettingStays
  <2>2. CASE Setting(s, k)
    <3>1. At(s) = "EXPIRE" /\ helper[s].key = k /\ conn[<<s, "outer">>] = "open"
      BY <2>2, SetDataSteps DEF Setting
    <3>2. reached
      BY <1>1, <3>1 DEF DoEffect
    <3>3. Served(s, reached)
      BY <3>1, <3>2, ForIs DEF Served, WrongType
    <3>4. Value(s) = db[k] /\ db'[k] = After(At(s), db[k])
      BY <1>0, <1>1, <3>1, <3>3, DoKeys
    <3>5. ~WrongType(At(s), db[k]) /\ At(s) \in Plain /\ At(s) # "SET"
      BY <1>1, <3>1, <3>3, <3>4 DEF Served, DoEffect
    <3> QED
      BY <1>2, <3>1, <3>4, <3>5, AfterIs
  <2>3. CASE ~Setting(s, k) /\ db'[k] = db[k]
    BY <2>1, <2>3
  <2>4. CASE ~Setting(s, k) /\ Served(s, reached) /\ Value(s) = db[k]
             /\ db'[k] = After(At(s), db[k]) /\ helper[s].key = k
    <3>1. ~WrongType(At(s), db[k]) /\ At(s) \in Plain
      BY <1>1, <2>4 DEF Served, DoEffect
    <3>2. At(s) = "SET" \/ (db[k].type = "string" /\ ~db[k].expires)
      BY <1>2, <2>4, <3>1, AfterIs
    <3>3. CASE At(s) = "SET"
      <4>1. helper[s].op = "SetData" /\ helper[s].at = 2
        BY <1>5, <3>3, SetIsSetData DEF At
      <4>2. conn[<<s, "outer">>] = "open" /\ conn' = conn
        BY <1>1, <2>4 DEF Served, DoEffect
      <4>3. helper'[s].op = "SetData" /\ helper'[s].key = k /\ helper'[s].at = 3
        <5>1. \E found, err \in BOOLEAN :
                helper' = [helper EXCEPT ![s] =
                  [helper[s] EXCEPT !.at = @ + 1, !.found = found, !.err = err]]
          BY Zenon DEF Do, Learn
        <5>2. PICK found \in BOOLEAN, err \in BOOLEAN :
                helper' = [helper EXCEPT ![s] =
                  [helper[s] EXCEPT !.at = @ + 1, !.found = found, !.err = err]]
          BY <5>1
        <5> DEFINE n == [helper[s] EXCEPT !.at = @ + 1, !.found = found, !.err = err]
        <5>3. helper[s] \in HelperState
          BY <1>4
        <5>4. n.op = "SetData" /\ n.key = k /\ n.at = 3
          BY <2>4, <4>1, <5>3 DEF HelperState
        <5>5. helper'[s] = n
          BY <1>4, <5>2
        <5> QED
          BY <5>4, <5>5
      <4> QED
        BY <4>2, <4>3 DEF Setting
    <3> QED
      BY <2>1, <2>4, <3>2, <3>3
  <2> QED
    BY <1>0, <1>1, <2>2, <2>3, <2>4, DoKeys
<1> QED
  BY <1>6, <1>7 DEF KeyInv

LEMMA OtherKeyInv ==
  ASSUME RedisTypeOK, RedisTypeOK', KeyInv, NEW s \in Stricker, RedisStep(s), ~Do(s)
  PROVE  KeyInv'
<1>1. db' = db
  BY DEF RedisStep, Get, CloseInner, Return, GetKeyType, GetLength, LIndex, RandomKey,
    IsKeyAvailable
<1>2. faults > 0 => faults' > 0
  <2>1. CASE Commands(s)
    <3>1. faults' \in Nat /\ faults' >= faults
      BY <2>1, CommandFacts DEF RedisStep, CommandStep
    <3> QED
      BY <3>1 DEF RedisTypeOK
  <2>2. CASE ~Commands(s)
    BY <2>2 DEF RedisStep, Commands, Get, CloseInner, Return, Fault, RedisTypeOK
  <2> QED
    BY <2>1, <2>2
<1>3. ASSUME NEW k \in Key PROVE ~Setting(s, k)
  <2>1. SUFFICES ASSUME Setting(s, k) PROVE FALSE
    OBVIOUS
  <2>2. At(s) = "EXPIRE"
    BY <2>1, SetDataSteps DEF Setting
  <2> QED
    BY <2>2 DEF RedisStep, CloseInner, Return, GetKeyType, GetLength, LIndex, RandomKey,
      IsKeyAvailable
<1>4. OthersStay(s)
  BY OthersUnmoved
<1> QED
  BY <1>1, <1>2, <1>3, <1>4, SettingStays DEF KeyInv, KeysTyped, KeysKept

LEMMA KeyInvUnchanged == KeyInv /\ UNCHANGED <<db, helper, conn, faults>> => KeyInv'
BY DEF KeyInv, KeysTyped, KeysKept, Setting

LEMMA KeyInvNext ==
  ActionsTypeOK /\ KeyInv /\ [ActionsNext]_actionVars => KeyInv'
<1> SUFFICES ASSUME ActionsTypeOK, KeyInv, [ActionsNext]_actionVars PROVE KeyInv'
  OBVIOUS
<1>0. RedisTypeOK /\ RedisTypeOK' /\ mix \in Mixes
  BY ActionsNextTypeOK DEF ActionsTypeOK
<1>1. ASSUME NEW s \in Stricker, CallHelper(s) PROVE KeyInv'
  <2>1. PICK op \in mix.helpers[s], k \in mix.keys : Call(s, op, k) \/ UnknownConnection(s)
    BY <1>1, CallOrPanic
  <2>2. /\ helper[s].op = "none" /\ UNCHANGED <<db, conn, faults>>
        /\ \A u \in Stricker \ {s} : helper'[u] = helper[u]
    BY <1>0, <2>1 DEF Call, UnknownConnection, Busy, RedisTypeOK
  <2>3. \A u \in Stricker, j \in Key : Setting(u, j) => Setting(u, j)'
    BY <2>2 DEF Setting
  <2> QED
    BY <2>2, <2>3 DEF KeyInv, KeysTyped, KeysKept
<1>2. ASSUME NEW s \in Stricker, HelperStep(s) PROVE KeyInv'
  BY <1>0, <1>2, DoKeyInv, OtherKeyInv DEF HelperStep
<1>3. ASSUME NEW s \in Stricker, BeginRequest(s) \/ MakeRequest(s) PROVE KeyInv'
  BY <1>3, KeyInvUnchanged DEF BeginRequest, MakeRequest, redisVars
<1>4. CASE UpdateRate
  BY <1>4, KeyInvUnchanged DEF UpdateRate, SetRedisConnectionPool
<1>5. CASE CountAnswer \/ CountMetric \/ Run \/ UNCHANGED actionVars
  BY <1>5, KeyInvUnchanged DEF CountAnswer, CountMetric, Run, actionVars, redisVars
<1> QED
  BY <1>1, <1>2, <1>3, <1>4, <1>5 DEF ActionsNext

LEMMA KeyInvInit == ActionsInit => KeyInv
BY DEF ActionsInit, RedisInit, KeyInv, KeysTyped, KeysKept, Absent

\* A string is left without a lifetime only by a failure, however many Strickers
\* set the same key at the same time.
THEOREM KeysExpireCorrect == ActionsSpec => []KeysExpire
<1>1. KeyInv => KeysExpire
  BY SetDataSteps, Zenon DEF KeyInv, KeysKept, KeysExpire, Setting
<1> QED
  BY <1>1, ActionsTypeCorrect, KeyInvInit, KeyInvNext, PTL DEF ActionsSpec
-----------------------------------------------------------------------------
(* Values that are read at random *)

\* s knows the length of its key: it is still right, or there is a reason.
Measured(s) ==
  \/ excused[s] /\ helper[s].length = 0
  \/ helper[s].type \notin {"list", "set"} /\ helper[s].length = 0
  \/ /\ helper[s].type \in {"list", "set"} /\ helper[s].length > 0
     /\ \/ shrunk[s]
        \/ db[helper[s].key].type = "string"
        \/ /\ db[helper[s].key].type = helper[s].type
           /\ db[helper[s].key].size >= helper[s].length

Explained(s) ==
  IF helper[s].type = "set"
    THEN helper[s].found => shrunk[s]
    ELSE ~helper[s].found =>
           excused[s] \/ IF helper[s].err THEN shrunk[s] ELSE helper[s].type # "list"

Reading(s) ==
  helper[s].op = "LGet" =>
    /\ helper[s].key \in Key
    /\ helper[s].at \in 5 .. 6 => Measured(s)
    /\ helper[s].at = 7 => Explained(s)

ReadInv == \A s \in Stricker : Reading(s)

LEMMA LGetSteps ==
  ASSUME NEW s \in Stricker, helper[s].op = "LGet", helper[s].at \in DOMAIN Script["LGet"]
  PROVE  /\ helper[s].at \in 1 .. 7
         /\ helper[s].at = 1 <=> At(s) = "get"
         /\ helper[s].at = 2 <=> At(s) = "getInner"
         /\ helper[s].at = 3 <=> At(s) = "TYPE"
         /\ helper[s].at = 4 <=> At(s) = "LEN"
         /\ helper[s].at = 5 <=> At(s) = "closeInner"
         /\ helper[s].at = 6 <=> At(s) = "LINDEX"
         /\ helper[s].at = 7 <=> At(s) = "close"
BY DEF At, Script

\* Another Stricker's command leaves the length of s right, or tells s.
LEMMA OthersKeepMeasured ==
  ASSUME RedisTypeOK, KeysTyped, NEW u \in Stricker, NEW s \in Stricker \ {u},
         Busy(u), Do(u), OthersStay(u), helper[s].op = "LGet", helper[s].key \in Key,
         helper[s].at \in 5 .. 6, Measured(s)
  PROVE  Measured(s)'
<1> DEFINE k == helper[s].key
<1>1. helper'[s] = helper[s] /\ excused'[s] = excused[s] /\ (shrunk[s] => shrunk'[s])
  BY DEF OthersStay
<1>2. PICK reached \in BOOLEAN : DoEffect(u, reached)
  BY DoEffects
<1>3. db[k] \in KeyState /\ ValueTypedRight(db[k]) /\ helper[s].length \in Nat
  BY DEF RedisTypeOK, KeysTyped, ValueTypedRight, HelperState
<1>4. CASE \/ excused[s] /\ helper[s].length = 0
           \/ shrunk[s]
           \/ helper[s].type \notin {"list", "set"}
  BY <1>1, <1>4 DEF Measured
<1>5. CASE db'[k] = db[k]
  BY <1>1, <1>5 DEF Measured
<1>6. CASE /\ ~(excused[s] /\ helper[s].length = 0) /\ ~shrunk[s]
           /\ helper[s].type \in {"list", "set"}
           /\ helper[u].key = k /\ Served(u, reached) /\ Value(u) = db[k]
           /\ db'[k] = After(At(u), db[k])
  <2>1. At(u) \in Plain /\ ~WrongType(At(u), db[k])
    BY <1>2, <1>6 DEF DoEffect, Served
  <2>2. CASE db[k].type = "string"
    BY <1>1, <1>3, <1>6, <2>1, <2>2, AfterIs DEF Measured
  <2>3. CASE db[k].type = helper[s].type /\ db[k].size >= helper[s].length
    <3>1. db[k].size > 0 /\ db[k].size \in Nat /\ helper[s].length > 0
      BY <1>3, <1>6, <2>3 DEF Measured, KeyState
    <3>2. CASE At(u) \in {"LPOP", "SPOP"}
      <4>1. shrunk'[s]
        BY <1>2, <1>6, <3>1, <3>2 DEF DoEffect
      <4> QED
        BY <1>1, <1>6, <3>1, <4>1 DEF Measured
    <3>3. CASE At(u) \notin {"LPOP", "SPOP"}
      <4>1. \/ db'[k].type = "string"
            \/ db'[k].type = db[k].type /\ db'[k].size >= db[k].size
        BY <1>3, <1>6, <2>1, <2>3, <3>3, AfterIs
      <4>2. After(At(u), db[k]).size \in Nat
        BY <1>3, <2>1, AfterTyped DEF KeyState
      <4>3. db'[k].type = helper[s].type => db'[k].size >= helper[s].length
        BY <1>3, <1>6, <2>3, <3>1, <4>1, <4>2
      <4> QED
        BY <1>1, <1>6, <2>3, <3>1, <4>1, <4>3 DEF Measured
    <3> QED
      BY <3>2, <3>3
  <2> QED
    BY <1>6, <2>2, <2>3 DEF Measured
<1> QED
  BY <1>2, <1>4, <1>5, <1>6, DoKeys

LEMMA OthersRead ==
  ASSUME RedisTypeOK, KeysTyped, NEW u \in Stricker, NEW s \in Stricker \ {u},
         RedisStep(u), Reading(s)
  PROVE  Reading(s)'
<1>1. OthersStay(u) /\ Busy(u)
  BY OthersUnmoved DEF RedisStep
<1>2. helper'[s] = helper[s] /\ excused'[s] = excused[s] /\ (shrunk[s] => shrunk'[s])
  BY <1>1 DEF OthersStay
<1>3. SUFFICES ASSUME helper[s].op = "LGet" PROVE Reading(s)'
  BY <1>2 DEF Reading
<1>4. helper[s].at = 7 => Explained(s)'
  BY <1>2, <1>3 DEF Reading, Explained
<1>5. helper[s].at \in 5 .. 6 => Measured(s)'
  <2>1. CASE Do(u)
    BY <1>1, <1>3, <2>1, OthersKeepMeasured DEF Reading
  <2>2. CASE ~Do(u)
    <3>1. db' = db
      BY <2>2 DEF RedisStep, Get, CloseInner, Return, GetKeyType, GetLength, LIndex, RandomKey,
        IsKeyAvailable
    <3> QED
      BY <1>2, <1>3, <3>1 DEF Reading, Measured
  <2> QED
    BY <2>1, <2>2
<1> QED
  BY <1>2, <1>3, <1>4, <1>5 DEF Reading

\* The length that s is told is right at that moment.
LEMMA LengthMeasured ==
  ASSUME RedisTypeOK, KeysTyped, NEW s \in Stricker, helper[s].op = "LGet",
         helper[s].key \in Key, GetLength(s)
  PROVE  Measured(s)' /\ helper'[s].key = helper[s].key
<1> DEFINE k == helper[s].key
<1>0. Value(s) = db[k] /\ db[k] \in KeyState
  BY RedisConstants DEF Value, RedisTypeOK
<1> DEFINE measured == helper[s].type \in {"list", "set"}
           wrongIf(r) == measured /\ r /\ Value(s).type \notin {"none", helper[s].type}
           lengthIf(r) == IF measured /\ r /\ ~wrongIf(r) THEN Value(s).size ELSE 0
<1>1. PICK reached \in BOOLEAN :
        /\ Learn(s, [helper[s] EXCEPT !.at = @ + 1, !.length = lengthIf(reached)],
                 reached /\ ~wrongIf(reached))
        /\ UNCHANGED <<db, shrunk>>
  BY Zenon DEF GetLength
<1> DEFINE wrong == wrongIf(reached)
           n == lengthIf(reached)
           h == [helper[s] EXCEPT !.at = @ + 1, !.length = n]
<1>2. helper[s] \in HelperState /\ helper \in [Stricker -> HelperState]
      /\ excused \in [Stricker -> BOOLEAN]
  BY DEF RedisTypeOK
<1>3. helper' = [helper EXCEPT ![s] = h]
  BY <1>1, Zenon DEF Learn
<1>4. excused' = [excused EXCEPT ![s] = @ \/ ~(reached /\ ~wrong) \/ Value(s).size = 0]
  BY <1>1, Zenon DEF Learn
<1>5. excused[s] \/ ~reached \/ wrong \/ Value(s).size = 0 => excused'[s]
  BY <1>2, <1>4, Zenon
<1>6. h.type = helper[s].type /\ h.key = k /\ h.length = n
  BY <1>2 DEF HelperState
<1>7. helper'[s] = h
  BY <1>2, <1>3, Zenon
<1>8. helper'[s].type = helper[s].type /\ helper'[s].key = k /\ helper'[s].length = n
  BY <1>6, <1>7, Zenon
<1>9. CASE ~reached \/ wrong \/ Value(s).size = 0
  <2>1. n = 0
    BY <1>9
  <2> QED
    BY <1>5, <1>8, <1>9, <2>1, Zenon DEF Measured
<1>10. CASE reached /\ ~wrong /\ Value(s).size # 0 /\ ~measured
  BY <1>1, <1>8, <1>10 DEF Measured
<1>11. CASE reached /\ ~wrong /\ Value(s).size # 0 /\ measured
  <2>1. n = db[k].size /\ n > 0
    BY <1>0, <1>11 DEF KeyState
  <2>2. db[k].type = helper[s].type /\ helper[s].type \in {"list", "set"}
    BY <1>0, <1>1, <1>11 DEF KeysTyped
  <2>3. db[k].size \in Nat
    BY <1>0 DEF KeyState
  <2>4. db' = db
    BY <1>1
  <2> HIDE DEF n
  <2> QED
    BY <1>8, <2>1, <2>2, <2>3, <2>4 DEF Measured
<1> QED
  BY <1>8, <1>9, <1>10, <1>11

\* An index below a length that is still right finds an element.
LEMMA IndexExplained ==
  ASSUME RedisTypeOK, KeysTyped, NEW s \in Stricker, helper[s].op = "LGet",
         helper[s].key \in Key, Measured(s), LIndex(s)
  PROVE  Explained(s)' /\ helper'[s].key = helper[s].key
<1> DEFINE k == helper[s].key
<1>0. Value(s) = db[k] /\ db[k] \in KeyState
  BY RedisConstants DEF Value, RedisTypeOK
<1> DEFINE asks == helper[s].length > 0
           wrongIf(r) == asks /\ r /\ WrongType("LINDEX", Value(s))
           okIf(r, j) == asks /\ r /\ ~wrongIf(r) /\ j < Value(s).size
<1>1. PICK reached \in BOOLEAN, i \in 0 .. MaxElements :
        /\ asks => i \in GetRandomIndex(helper[s].length)
        /\ Learn(s, [helper[s] EXCEPT !.at = @ + 1, !.found = okIf(reached, i),
                                     !.err = asks /\ ~okIf(reached, i)],
                 reached /\ ~wrongIf(reached))
        /\ UNCHANGED <<db, shrunk>>
  BY Zenon DEF LIndex
<1> DEFINE wrong == wrongIf(reached)
           ok == okIf(reached, i)
           h == [helper[s] EXCEPT !.at = @ + 1, !.found = ok, !.err = asks /\ ~ok]
<1>2. helper[s] \in HelperState /\ helper \in [Stricker -> HelperState]
      /\ excused \in [Stricker -> BOOLEAN]
  BY DEF RedisTypeOK
<1>3. helper' = [helper EXCEPT ![s] = h]
  BY <1>1, Zenon DEF Learn
<1>4. excused' = [excused EXCEPT ![s] = @ \/ ~(reached /\ ~wrong) \/ Value(s).size = 0]
  BY <1>1, Zenon DEF Learn
<1>5. excused[s] \/ ~reached \/ wrong => excused'[s]
  BY <1>2, <1>4, Zenon
<1>6. h.type = helper[s].type /\ h.key = k /\ h.found = ok /\ h.err = (asks /\ ~ok)
  BY <1>2 DEF HelperState
<1>7. helper'[s] = h
  BY <1>2, <1>3, Zenon
<1>8. /\ helper'[s].type = helper[s].type /\ helper'[s].key = k
      /\ helper'[s].err = (asks /\ ~ok) /\ helper'[s].found = ok
  BY <1>6, <1>7, Zenon
<1>9. CASE ~ok /\ (excused[s] \/ ~reached \/ wrong)
  BY <1>5, <1>8, <1>9, Zenon DEF Explained
<1>10. CASE ~asks /\ ~excused[s]
  <2>1. helper[s].type \notin {"list", "set"}
    BY <1>2, <1>10 DEF Measured, HelperState
  <2>2. ~ok
    BY <1>10
  <2> QED
    BY <1>8, <1>10, <2>1, <2>2, Zenon DEF Explained
<1>12. CASE ok
  <2>1. asks /\ i < db[k].size /\ i \in Nat /\ db[k].size \in Nat
    BY <1>0, <1>12 DEF KeyState
  <2>2. ~WrongType("LINDEX", db[k])
    BY <1>0, <1>12
  <2>3. ValueTypedRight(db[k])
    BY DEF KeysTyped, ValueTypedRight
  <2>4. db[k].type = "list"
    BY <2>1, <2>2, <2>3, ForIs DEF WrongType, ValueTypedRight
  <2>5. helper[s].type = "set" => shrunk[s]
    BY <2>1, <2>4 DEF Measured
  <2>6. shrunk'[s] = shrunk[s]
    BY <1>1
  <2> QED
    BY <1>8, <1>12, <2>5, <2>6, Zenon DEF Explained
<1>11. CASE ~ok /\ ~(excused[s] \/ ~reached \/ wrong) /\ asks
  <2>1. helper[s].length > 0 /\ helper[s].length \in Nat /\ i < helper[s].length /\ i \in Nat
    BY <1>1, <1>2, <1>11 DEF GetRandomIndex, HelperState
  <2>2. ~(i < db[k].size) /\ db[k].size \in Nat
    BY <1>0, <1>1, <1>8, <1>11 DEF KeyState
  <2>3. ~WrongType("LINDEX", db[k])
    BY <1>0, <1>1, <1>11
  <2>4. db[k].type # "string"
    BY <2>3, ForIs DEF WrongType
  <2>5. shrunk[s]
    BY <1>11, <2>1, <2>2, <2>4 DEF Measured
  <2>6. shrunk'[s] /\ helper'[s].err
    BY <1>1, <1>8, <1>11, <2>5
  <2> QED
    BY <1>8, <2>6, Zenon DEF Explained
<1> QED
  BY <1>8, <1>9, <1>10, <1>11, <1>12

LEMMA OwnRead ==
  ASSUME RedisTypeOK, KeysTyped, NEW s \in Stricker, RedisStep(s), Reading(s)
  PROVE  Reading(s)'
<1>0. /\ Busy(s) /\ helper[s] \in HelperState /\ helper \in [Stricker -> HelperState]
      /\ helper[s].at \in DOMAIN Script[helper[s].op]
  BY HelperFacts DEF RedisStep, RedisTypeOK
<1>1. CASE helper[s].op # "LGet"
  <2>1. CASE Commands(s)
    <3>1. PICK h : CommandStep(s, h)
      BY <1>0, <2>1, CommandFacts
    <3>2. helper'[s].op # "LGet"
      BY <1>0, <1>1, <3>1 DEF CommandStep
    <3> QED
      BY <3>2 DEF Reading
  <2>2. CASE ~Commands(s)
    <3>1. helper'[s].op # "LGet"
      <4>1. [helper[s] EXCEPT !.at = @ + 1].op = helper[s].op /\ Idle.op = "none"
        BY <1>0 DEF HelperState, Idle
      <4>2. helper'[s] = [helper[s] EXCEPT !.at = @ + 1] \/ helper'[s] = Idle
        BY <1>0, <2>2 DEF RedisStep, Commands, Get, CloseInner, Return
      <4> QED
        BY <1>1, <4>1, <4>2
    <3> QED
      BY <3>1 DEF Reading
  <2> QED
    BY <2>1, <2>2
<1>2. CASE helper[s].op = "LGet"
  <2>0. helper[s].key \in Key /\ helper[s].at \in 1 .. 7
    BY <1>0, <1>2, LGetSteps DEF Reading
  <2>1. CASE helper[s].at \in {1, 2, 5}
    <3>1. At(s) \in {"get", "getInner", "closeInner"}
      BY <1>0, <1>2, <2>1, LGetSteps
    <3>2. /\ helper' = [helper EXCEPT ![s].at = @ + 1]
          /\ UNCHANGED <<db, excused, shrunk>>
      BY <3>1 DEF RedisStep, Get, CloseInner, Return, Do, Plain, Reads, GetKeyType, GetLength,
        LIndex, RandomKey, IsKeyAvailable, historyVars
    <3> DEFINE h == [helper[s] EXCEPT !.at = @ + 1]
    <3>3. h.at = helper[s].at + 1 /\ h.type = helper[s].type /\ h.key = helper[s].key
          /\ h.length = helper[s].length /\ helper'[s] = h
      BY <1>0, <3>2 DEF HelperState
    <3>4. helper[s].at = 5 => Measured(s)'
      BY <1>2, <3>2, <3>3 DEF Reading, Measured
    <3> HIDE DEF h
    <3> QED
      BY <2>0, <2>1, <3>3, <3>4 DEF Reading
  <2>2. CASE helper[s].at = 3
    <3>1. At(s) = "TYPE"
      BY <1>0, <1>2, <2>2, LGetSteps
    <3>2. GetKeyType(s)
      BY <3>1 DEF RedisStep, CloseInner, Return, Do, Plain, Reads, GetLength, LIndex, RandomKey,
        IsKeyAvailable
    <3>3. PICK t : helper' = [helper EXCEPT ![s] = [helper[s] EXCEPT !.at = @ + 1, !.type = t]]
      BY <3>2 DEF GetKeyType, Learn
    <3>4. helper'[s].at = 4 /\ helper'[s].key = helper[s].key
      BY <1>0, <2>2, <3>3 DEF HelperState
    <3> QED
      BY <2>0, <3>4 DEF Reading
  <2>3. CASE helper[s].at = 4
    <3>1. At(s) = "LEN"
      BY <1>0, <1>2, <2>3, LGetSteps
    <3>2. GetLength(s)
      BY <3>1 DEF RedisStep, CloseInner, Return, Do, Plain, Reads, GetKeyType, LIndex, RandomKey,
        IsKeyAvailable
    <3>3. PICK n : helper' = [helper EXCEPT ![s] = [helper[s] EXCEPT !.at = @ + 1, !.length = n]]
      BY <3>2 DEF GetLength, Learn
    <3>4. helper'[s].at = 5
      BY <1>0, <2>3, <3>3 DEF HelperState
    <3> QED
      BY <1>2, <2>0, <3>2, <3>4, LengthMeasured DEF Reading
  <2>4. CASE helper[s].at = 6
    <3>1. At(s) = "LINDEX"
      BY <1>0, <1>2, <2>4, LGetSteps
    <3>2. LIndex(s)
      BY <3>1 DEF RedisStep, CloseInner, Return, Do, Plain, Reads, GetKeyType, GetLength,
        RandomKey, IsKeyAvailable
    <3>3. PICK found, err :
            helper' = [helper EXCEPT ![s] =
              [helper[s] EXCEPT !.at = @ + 1, !.found = found, !.err = err]]
      BY <3>2, ZenonT(40) DEF LIndex, Learn
    <3>4. helper'[s].at = 7 /\ helper'[s].key = helper[s].key
      BY <1>0, <2>4, <3>3 DEF HelperState
    <3>5. Measured(s)
      BY <1>2, <2>4 DEF Reading
    <3> QED
      BY <1>2, <2>0, <3>2, <3>4, <3>5, IndexExplained DEF Reading
  <2>5. CASE helper[s].at = 7
    <3>1. At(s) = "close"
      BY <1>0, <1>2, <2>5, LGetSteps
    <3>2. helper'[s] = Idle
      BY <1>0, <3>1 DEF RedisStep, CloseInner, Return, Do, Plain, Reads, GetKeyType, GetLength,
        LIndex, RandomKey, IsKeyAvailable
    <3> QED
      BY <3>2 DEF Reading, Idle
  <2> QED
    BY <2>0, <2>1, <2>2, <2>3, <2>4, <2>5
<1> QED
  BY <1>1, <1>2

LEMMA ReadInvUnchanged ==
  ReadInv /\ UNCHANGED <<db, helper, excused, shrunk>> => ReadInv'
BY DEF ReadInv, Reading, Measured, Explained

LEMMA ReadInvNext ==
  ActionsTypeOK /\ KeyInv /\ ReadInv /\ [ActionsNext]_actionVars => ReadInv'
<1> SUFFICES ASSUME ActionsTypeOK, KeyInv, ReadInv, [ActionsNext]_actionVars PROVE ReadInv'
  OBVIOUS
<1>0. RedisTypeOK /\ KeysTyped /\ mix \in Mixes
  BY DEF ActionsTypeOK, KeyInv
<1>1. ASSUME NEW s \in Stricker, CallHelper(s) PROVE ReadInv'
  <2>0. CASE UnknownConnection(s)
    BY <2>0, ReadInvUnchanged DEF UnknownConnection, historyVars
  <2> SUFFICES ASSUME ~UnknownConnection(s) PROVE ReadInv'
    BY <2>0
  <2>1. PICK op \in mix.helpers[s], k \in mix.keys : Call(s, op, k)
    BY <1>1, CallOrPanic
  <2>2. k \in Key
    BY <1>0, MixFacts
  <2>3. /\ UNCHANGED <<db, excused, shrunk>>
        /\ \A u \in Stricker \ {s} : helper'[u] = helper[u]
        /\ helper'[s] = [Idle EXCEPT !.op = op, !.key = k, !.pool = Len(rates)]
    BY <1>0, <2>1 DEF Call, RedisTypeOK, historyVars
  <2>4. helper'[s].key \in Key /\ helper'[s].at = 1
    BY <2>2, <2>3 DEF Idle
  <2>5. Reading(s)'
    BY <2>4 DEF Reading
  <2>6. \A u \in Stricker \ {s} : Reading(u)'
    BY <2>3 DEF ReadInv, Reading, Measured, Explained
  <2> QED
    BY <2>5, <2>6 DEF ReadInv
<1>2. ASSUME NEW s \in Stricker, HelperStep(s) PROVE ReadInv'
  BY <1>0, <1>2, OwnRead, OthersRead DEF HelperStep, ReadInv
<1>3. ASSUME NEW s \in Stricker, BeginRequest(s) \/ MakeRequest(s) PROVE ReadInv'
  BY <1>3, ReadInvUnchanged DEF BeginRequest, MakeRequest, redisVars, historyVars
<1>4. CASE UpdateRate
  BY <1>4, ReadInvUnchanged DEF UpdateRate, SetRedisConnectionPool, historyVars
<1>5. CASE CountAnswer \/ CountMetric \/ Run \/ UNCHANGED actionVars
  BY <1>5, ReadInvUnchanged DEF CountAnswer, CountMetric, Run, actionVars, redisVars, historyVars
<1> QED
  BY <1>1, <1>2, <1>3, <1>4, <1>5 DEF ActionsNext

LEMMA ReadInvInit == ActionsInit => ReadInv
BY DEF ActionsInit, RedisInit, ReadInv, Reading, Idle

LEMMA ReadInvExplains == ActionsTypeOK /\ ReadInv => ReadCause
<1> SUFFICES ASSUME ActionsTypeOK, ReadInv, NEW s \in Stricker, helper[s].op = "LGet", Busy(s),
                    At(s) = "close"
             PROVE  Explained(s)
  BY DEF ReadCause, Explained
<1>1. helper[s].at \in DOMAIN Script["LGet"]
  BY HelperFacts DEF ActionsTypeOK
<1> QED
  BY <1>1, LGetSteps DEF ReadInv, Reading

\* A read at random of a list finds its value or has a reason, whatever the other
\* Strickers do to the key between its type, its length and its index; a read of
\* a set finds one only in what became a list in between.
THEOREM ReadCauseCorrect == ActionsSpec => []ReadCause
BY ActionsTypeCorrect, KeyInvInit, KeyInvNext, ReadInvInit, ReadInvNext, ReadInvExplains, PTL
   DEF ActionsSpec
=============================================================================
