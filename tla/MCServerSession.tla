-------------------------- MODULE MCServerSession --------------------------
(* Two handlers, a profile of one task and one of another task, which is   *)
(* broken.                                                                *)
EXTENDS ServerSession, TLC

CONSTANTS p1, p2, t1, t2

SomeTasks == {t1, t2}
SomeProfiles == p1 :> {t1} @@ p2 :> {t2}
SomeBroken == {p2}
\* One goroutine follows the log, also over a reset; two do; nobody asks for
\* the log but for tasks.
ResetMix ==
  [routes |-> {"getalltasks", "logs", "reset"}, profiles |-> {p1}, calls |-> 4, loads |-> 1]
LogMix ==
  [routes |-> {"getalltasks", "logs"}, profiles |-> {p1}, calls |-> 3, loads |-> 2]
TaskMix ==
  [routes |-> {"getalltasks", "loadprofile", "runtask", "stoptask", "updatetaskrate",
               "getsession", "getresults", "reset"},
   profiles |-> {p1, p2, Missing}, calls |-> 3, loads |-> 2]
RunMix ==
  [routes |-> {"loadprofile", "runtask", "updatetaskrate", "reset"}, profiles |-> {p1},
   calls |-> 5, loads |-> 1]
SomeMixes == {ResetMix, LogMix, TaskMix, RunMix}

Symmetry == Permutations(Client)
=============================================================================
