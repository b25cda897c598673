--------------------------- MODULE MCCommandLine ---------------------------
(* A profile of one task that is edited while it runs, and profiles of two *)
(* tasks that are left alone.                                              *)
EXTENDS CommandLine

Setting(r, c, t) == [rate |-> r, concurrency |-> c, thinkTime |-> t]

SomeSettings == {Setting(1, 1, 0), Setting(2, 2, 1)}
SomeProfiles == {<<Setting(1, 1, 0)>>}
                  \cup {<<s, t>> : s, t \in SomeSettings}
Changes == <<2, 0>>

\* The watcher of the rate and another one.
Pairs == {{"rate", "concurrency"}, {"rate", "thinkTime"}}
=============================================================================
