----------------------------- MODULE MCActions -----------------------------
(* Three Strickers in the calls that take a second connection or panic     *)
(* without one, two in those that share a key, and two in requests.        *)
EXTENDS Actions

CONSTANTS s1, s2, s3, k1, k2

Nothing == [helpers |-> [s \in Stricker |-> {}], keys |-> {}, update |-> {}, named |-> TRUE,
            requests |-> {}, wellFormed |-> TRUE, prometheus |-> FALSE]

Crowd == [Nothing EXCEPT
  !.helpers = [s \in Stricker |-> IF s = s3 THEN {"HMGet"} ELSE {"LGet"}],
  !.keys = {k1}, !.update = {1}]

Pair(first, second, keys) == [Nothing EXCEPT
  !.helpers = [s \in Stricker |-> IF s = s1 THEN first ELSE IF s = s2 THEN second ELSE {}],
  !.keys = keys]

Http(wellFormed, prometheus) == [Nothing EXCEPT
  !.requests = {s1, s2}, !.wellFormed = wellFormed, !.prometheus = prometheus]

SomeMixes == {
  Crowd,
  Pair({"LGet"}, {"LPop", "LPush", "SetData"}, {k1}),
  Pair({"LGet", "SAdd"}, {"SPop", "LPush"}, {k1}),
  Pair({"SetData"}, {"SetData", "GetData", "GetSession"}, {k1, k2}),
  Pair({"LPush", "SGet"}, {"GetSession", "Wait"}, {k1}),
  Pair({"HMSet", "HMGet"}, {"HMGet", "LPop"}, {k1}),
  [Pair({"GetData"}, {"GetData"}, {k1}) EXCEPT !.named = FALSE],
  Http(TRUE, FALSE), Http(FALSE, FALSE), Http(TRUE, TRUE)}

\* Requests do not use the pool: one rate is enough for them.
MCInit == ActionsInit /\ (mix.requests # {} => rates = <<1>>)
MCSpec == MCInit /\ [][ActionsNext]_actionVars /\ ActionsFairness
=============================================================================
