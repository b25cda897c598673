--------------------------- MODULE MCTaskControl ---------------------------
(* One task, its producers and its clients, small enough for TLC. *)
EXTENDS TaskControl, TLC

Symmetry == Permutations(Producer)

\* Calls per run, update and stop: a task that starts with two producers and is
\* updated twice; one that is stopped or updated, and runs again; one whose
\* DestroyChannel has no room for the update.
Calls(runs, updates, stops) == [run |-> runs, update |-> updates, stop |-> stops]
Twice == Calls(1, 2, 0)
Crammed == Calls(1, 1, 0)
Mixes == {Twice, Calls(2, 1, 0), Calls(2, 0, 1), Calls(1, 1, 1), Crammed}

MixedInit ==
  /\ TaskInit
  /\ calls = Twice => rate = 2
  /\ destroy = IF calls = Crammed THEN DestroyCap - 1 ELSE 0
MixedSpec == MixedInit /\ [][TaskNext]_allVars

\* raced never becomes false again, and every invariant that names it holds of
\* whatever follows: such states are not continued.
NotRaced == ~raced

\* One update, whose values find room in DestroyChannel.
OneUpdate == {Calls(1, 1, 0)}
EndsInit == TaskInit /\ destroy = 0
EndsSpec == EndsInit /\ [][TaskNext]_allVars /\ TaskFairness
=============================================================================
