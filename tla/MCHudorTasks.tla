---------------------------- MODULE MCHudorTasks ----------------------------
(* Two handlers and two tasks, which are interchangeable. *)
EXTENDS HudorTasks, TLC

Symmetry == Permutations(Client) \cup Permutations(Task)
=============================================================================
