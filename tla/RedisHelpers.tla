---------------------------- MODULE RedisHelpers ----------------------------
(***************************************************************************)
(* The Redis helpers an action may call (redis/redisHelper.go), and the    *)
(* connection pool of a task that they draw on (redis/redisConnUtility.go). *)
(*                                                                         *)
(* A helper takes a connection, sends commands over it one by one and      *)
(* gives it back; other Strickers do the same in between.  The pool allows *)
(* three connections per unit of rate and never makes anyone wait: beyond  *)
(* them it hands out a connection on which every command fails.            *)
(*                                                                         *)
(* A script lists the steps of a helper: its connections, and commands in  *)
(* capitals.  A key is what type of value it holds, how many elements, and *)
(* whether it expires.  No connection selects the index of the profile     *)
(* (Dial sends SELECT only after an error), so that all tasks share the    *)
(* keys of one database.                                                   *)
(***************************************************************************)
EXTENDS Executors

CONSTANTS
  Key, NoKey, \* keys; the empty name
  Rates,
  MaxElements, \* BOUND: elements of a key
  MaxRates,    \* BOUND: updates of the rate, less one
  MaxFaults,   \* BOUND: connections that break
  Ttl          \* the seconds WaitForRedisKeyToBeAvailable is called with

ASSUME RedisConstants ==
  /\ NoKey \notin Key
  /\ Rates \subseteq Nat \ {0}
  /\ MaxElements \in Nat \ {0} /\ {MaxRates, MaxFaults, Ttl} \subseteq Nat

\* Mutant of SetRedisData: the lifetime is set before the value.
ExpireFirst == <<"get", "EXPIRE", "SET", "close">>

SetRedisData == <<"get", "SET", "EXPIRE", "close">>

Script == [
  none       |-> <<>>,
  LPop       |-> <<"get", "LPOP", "close">>,
  LGet       |-> <<"get", "getInner", "TYPE", "LEN", "closeInner", "LINDEX", "close">>,
  LPush      |-> <<"get", "LPUSH", "close">>,
  SPop       |-> <<"get", "SPOP", "close">>,
  SGet       |-> <<"get", "SRANDMEMBER", "close">>,
  SAdd       |-> <<"get", "SADD", "close">>,
  HMSet      |-> <<"get", "HMSET", "close">>,
  HMGet      |-> <<"get", "HMGET", "close">>,
  SetData    |-> SetRedisData,
  GetData    |-> <<"get", "GET", "close">>,
  GetSession |-> <<"get", "RANDOMKEY", "GET", "close">>,
  Wait       |-> <<"get", "EXISTS", "close">>]

Helpers == DOMAIN Script \ {"none"}
Types == {"none", "list", "set", "hash", "string"}

\* The type of value a command is for; the others take any.
For == [LPOP |-> "list", LPUSH |-> "list", LINDEX |-> "list", SPOP |-> "set",
        SRANDMEMBER |-> "set", SADD |-> "set", HMSET |-> "hash", HMGET |-> "hash",
        GET |-> "string"]

VARIABLES
  rates,   \* the rate each pool was made for; the last one is the task's
  db,
  helper,  \* per Stricker: helper, key, pool, step, what it has found out
  conn,    \* the connections of each: a helper may take one within another
  faults,  \* connections that broke
  redisPanic, \* "no"; "index": no first value; "name": no such connection
  \* history: a command met a value of another type; per Stricker, since its
  \* call began: a command did not reach Redis, met a value of another type or
  \* none; an element was taken from the key whose length it has read
  misused, excused, shrunk

historyVars == <<misused, excused, shrunk>>
redisVars == <<rates, db, helper, conn, faults, redisPanic, historyVars>>

Levels == {"outer", "inner"}
Conns == {"none", "refused", "open", "broken"}
Idle == [op |-> "none", key |-> NoKey, pool |-> 1, at |-> 1,
         type |-> "none", length |-> 0, tries |-> 1, found |-> FALSE, err |-> FALSE]

Absent == [type |-> "none", size |-> 0, expires |-> FALSE]

\* The step s is at.
At(s) == Script[helper[s].op][helper[s].at]
Busy(s) == helper[s].op # "none"

RedisInit ==
  /\ \E r \in Rates : rates = <<r>>
  /\ db = [k \in Key |-> Absent]
  /\ helper = [s \in Stricker |-> Idle]
  /\ conn = [x \in Stricker \X Levels |-> "none"]
  /\ faults = 0 /\ redisPanic = "no" /\ misused = FALSE
  /\ excused = [s \in Stricker |-> FALSE] /\ shrunk = [s \in Stricker |-> FALSE]

-----------------------------------------------------------------------------
(* The pool *)

\* UpdateTaskRate gives the task another pool; helpers go on with theirs, whose
\* connections nobody closes.
SetRedisConnectionPool(r) ==
  /\ Len(rates) < MaxRates
  /\ rates' = Append(rates, r)
  /\ UNCHANGED <<db, helper, conn, faults, redisPanic, historyVars>>

InUse(p) == {x \in Stricker \X Levels : helper[x[1]].pool = p /\ conn[x] \in {"open", "broken"}}

\* Mutant of MaxActive: one connection per unit of rate.
MaxActiveOnce(p) == rates[p]

MaxActive(p) == 3 * rates[p]

\* Redis is out of reach: a connection breaks, or cannot be made.
Fault == faults < MaxFaults /\ faults' = faults + 1

\* Mutant of Get: the pool is made with Wait set.
GetWaiting(s, level) ==
  /\ Cardinality(InUse(helper[s].pool)) < MaxActive(helper[s].pool)
  /\ conn' = [conn EXCEPT ![<<s, level>>] = "open"]
  /\ helper' = [helper EXCEPT ![s].at = @ + 1]
  /\ UNCHANGED <<rates, db, faults, redisPanic, historyVars>>

\* Pool.Get, which does not wait.
Get(s, level) ==
  /\ helper' = [helper EXCEPT ![s].at = @ + 1]
  /\ \/ /\ conn' = [conn EXCEPT ![<<s, level>>] =
             IF Cardinality(InUse(helper[s].pool)) < MaxActive(helper[s].pool)
               THEN "open" ELSE "refused"]
        /\ UNCHANGED faults
     \/ conn' = [conn EXCEPT ![<<s, level>>] = "refused"] /\ Fault
  /\ UNCHANGED <<rates, db, redisPanic, historyVars>>

\* GetLength gives its connection back.
CloseInner(s) ==
  /\ At(s) = "closeInner"
  /\ conn' = [conn EXCEPT ![<<s, "inner">>] = "none"]
  /\ helper' = [helper EXCEPT ![s].at = @ + 1]
  /\ UNCHANGED <<rates, db, faults, redisPanic, historyVars>>

\* A helper closes its connection and returns; HMGETRedis then takes the first
\* of the values it got, and there is none after an error.
Return(s) ==
  /\ At(s) = "close"
  /\ conn' = [conn EXCEPT ![<<s, "outer">>] = "none"]
  /\ helper' = [helper EXCEPT ![s] = Idle]
  /\ redisPanic' = IF helper[s].op = "HMGet" /\ helper[s].err THEN "index" ELSE redisPanic
  /\ excused' = [excused EXCEPT ![s] = FALSE]
  /\ shrunk' = [shrunk EXCEPT ![s] = FALSE]
  /\ UNCHANGED <<rates, db, faults, misused>>

-----------------------------------------------------------------------------
(* Commands *)

\* Whether a command over a connection of s reaches Redis and is answered.
Reach(s, level, reached) ==
  \/ reached = (conn[<<s, level>>] = "open") /\ UNCHANGED <<conn, faults>>
  \/ /\ conn[<<s, level>>] = "open" /\ ~reached
     /\ conn' = [conn EXCEPT ![<<s, level>>] = "broken"]
     /\ Fault

\* The key of s; the empty name has no value.
Value(s) == IF helper[s].key = NoKey THEN Absent ELSE db[helper[s].key]

\* What a helper learns from a command, and what its call may be excused by.
Learn(s, result, served) ==
  /\ helper' = [helper EXCEPT ![s] = result]
  /\ excused' = [excused EXCEPT ![s] = @ \/ ~served \/ Value(s).size = 0]
  /\ UNCHANGED <<rates, redisPanic>>

WrongType(cmd, v) == cmd \in DOMAIN For /\ v.type \notin {"none", For[cmd]}

\* The value of a key after a command; the last element takes the key with it.
More(v, type) ==
  [v EXCEPT !.type = type, !.size = IF @ < MaxElements THEN @ + 1 ELSE @]
Less(v) == IF v.size = 1 THEN Absent ELSE [v EXCEPT !.size = @ - 1]
After(cmd, v) ==
  CASE cmd \in {"LPOP", "SPOP"} /\ v.size > 0 -> Less(v)
    [] cmd \in {"LPUSH", "SADD", "HMSET"} -> More(v, For[cmd])
    [] cmd = "SET" -> [type |-> "string", size |-> 1, expires |-> FALSE]
    [] cmd = "EXPIRE" /\ v.size > 0 -> [v EXCEPT !.expires = TRUE]
    [] OTHER -> v

\* Whether the helper can convert the reply: String refuses nil and, in
\* LPushRedis, the number that LPUSH replies with.
Converts(cmd, v) ==
  /\ cmd # "LPUSH"
  /\ cmd \in {"LPOP", "SPOP", "SRANDMEMBER", "GET"} => v.size > 0

Reads == {"LPOP", "SPOP", "SRANDMEMBER", "GET", "HMGET"}
Plain == Reads \cup {"LPUSH", "SADD", "HMSET", "SET", "EXPIRE"}

\* A command whose reply is the helper's result.
Do(s) ==
  \E reached \in BOOLEAN :
    LET cmd == At(s)
        k == helper[s].key
        v == Value(s)
        wrong == reached /\ WrongType(cmd, v)
        ok == reached /\ ~wrong /\ Converts(cmd, v)
    IN  /\ cmd \in Plain
        /\ Reach(s, "outer", reached)
        /\ db' = IF reached /\ ~wrong /\ k # NoKey THEN [db EXCEPT ![k] = After(cmd, v)] ELSE db
        /\ Learn(s, [helper[s] EXCEPT !.at = @ + 1, !.found = ok /\ cmd \in Reads,
                                      !.err = @ \/ ~ok], reached /\ ~wrong)
        /\ misused' = (misused \/ wrong)
        /\ shrunk' = [u \in Stricker |->
             \/ shrunk[u]
             \/ /\ ok /\ cmd \in {"LPOP", "SPOP"}
                /\ helper[u].op = "LGet" /\ helper[u].at \in 5 .. 6 /\ helper[u].key = k]

\* GetKeyType, whose error GetLength ignores.
GetKeyType(s) ==
  \E reached \in BOOLEAN :
    /\ At(s) = "TYPE"
    /\ Reach(s, "inner", reached)
    /\ Learn(s, [helper[s] EXCEPT !.at = @ + 1,
                                  !.type = IF reached THEN Value(s).type ELSE "none"], reached)
    /\ UNCHANGED <<db, misused, shrunk>>

\* LLEN or SCARD, for a list or a set; anything else has no length.
GetLength(s) ==
  \E reached \in BOOLEAN :
    LET measured == helper[s].type \in {"list", "set"}
        wrong == measured /\ reached /\ Value(s).type \notin {"none", helper[s].type}
    IN  /\ At(s) = "LEN"
        /\ IF measured THEN Reach(s, "inner", reached)
                       ELSE reached /\ UNCHANGED <<conn, faults>>
        /\ Learn(s, [helper[s] EXCEPT !.at = @ + 1,
             !.length = IF measured /\ reached /\ ~wrong THEN Value(s).size ELSE 0],
                 reached /\ ~wrong)
        /\ misused' = (misused \/ wrong)
        /\ UNCHANGED <<db, shrunk>>

\* Mutant of GetRandomIndex: the length is an index as well.
GetRandomIndexUpTo(length) == 0 .. length

GetRandomIndex(length) == 0 .. length - 1

\* An element at random, of as many as there were.
LIndex(s) ==
  \E reached \in BOOLEAN, i \in 0 .. MaxElements :
    LET asks == helper[s].length > 0
        wrong == asks /\ reached /\ WrongType("LINDEX", Value(s))
        ok == asks /\ reached /\ ~wrong /\ i < Value(s).size
    IN  /\ At(s) = "LINDEX"
        /\ IF asks THEN i \in GetRandomIndex(helper[s].length) /\ Reach(s, "outer", reached)
                   ELSE i = 0 /\ reached /\ UNCHANGED <<conn, faults>>
        /\ Learn(s, [helper[s] EXCEPT !.at = @ + 1, !.found = ok, !.err = asks /\ ~ok],
                 reached /\ ~wrong)
        /\ misused' = (misused \/ wrong)
        /\ UNCHANGED <<db, shrunk>>

\* Any key of the database, whoever made it and whatever it holds.
RandomKey(s) ==
  \E reached \in BOOLEAN, k \in Key \cup {NoKey} :
    /\ At(s) = "RANDOMKEY"
    /\ Reach(s, "outer", reached)
    /\ IF reached /\ \E j \in Key : db[j].size > 0
         THEN k # NoKey /\ db[k].size > 0
         ELSE k = NoKey
    /\ Learn(s, [helper[s] EXCEPT !.at = @ + 1, !.key = k], reached)
    /\ UNCHANGED <<db, misused, shrunk>>

\* WaitForRedisKeyToBeAvailable: one look per second, for i from 1 to below ttl.
IsKeyAvailable(s) ==
  \E reached \in BOOLEAN :
    LET asks == helper[s].tries < Ttl
        there == asks /\ reached /\ Value(s).size > 0
    IN  /\ At(s) = "EXISTS"
        /\ IF asks THEN Reach(s, "outer", reached) ELSE reached /\ UNCHANGED <<conn, faults>>
        /\ Learn(s, [helper[s] EXCEPT !.at = IF there \/ ~asks THEN @ + 1 ELSE @,
             !.tries = IF asks THEN @ + 1 ELSE @, !.found = there], reached)
        /\ UNCHANGED <<db, misused, shrunk>>

-----------------------------------------------------------------------------
\* Mutant of Call: the pools are counted from zero.
CallNextPool(s, op, k) ==
  /\ ~Busy(s)
  /\ helper' = [helper EXCEPT ![s] = [Idle EXCEPT !.op = op, !.key = k, !.pool = Len(rates) + 1]]
  /\ UNCHANGED <<rates, db, conn, faults, redisPanic, historyVars>>

\* An action calls a helper on the pool its task has now; SetSessionData makes
\* up a key of its own.
Call(s, op, k) ==
  /\ ~Busy(s)
  /\ helper' = [helper EXCEPT ![s] = [Idle EXCEPT !.op = op, !.key = k, !.pool = Len(rates)]]
  /\ UNCHANGED <<rates, db, conn, faults, redisPanic, historyVars>>

\* No Redis of the task has the name the action asks for.
UnknownConnection(s) ==
  /\ ~Busy(s)
  /\ redisPanic' = "name"
  /\ UNCHANGED <<rates, db, helper, conn, faults, historyVars>>

RedisStep(s) ==
  /\ Busy(s)
  /\ \/ At(s) = "get" /\ Get(s, "outer")
     \/ At(s) = "getInner" /\ Get(s, "inner")
     \/ CloseInner(s) \/ Return(s)
     \/ Do(s) \/ GetKeyType(s) \/ GetLength(s) \/ LIndex(s) \/ RandomKey(s) \/ IsKeyAvailable(s)
=============================================================================
