----------------------------- MODULE RunBarrier -----------------------------
(***************************************************************************)
(* What a pool promises about one run of its task: the run is a barrier.   *)
(* Producers join only before any of them leaves, and the end is announced *)
(* only when none is left.  Somebody who waits for "no producer left"      *)
(* while a run is under way therefore waits for all of them, and the next  *)
(* run never meets a producer of the one before.                           *)
(***************************************************************************)
CONSTANT Producer

VARIABLES phase, working

barrierVars == <<phase, working>>

BarrierInit == phase = "ready" /\ working = {}

Begin ==
  /\ phase = "ready" /\ phase' = "open"
  /\ UNCHANGED working

Join(p) ==
  /\ phase = "open" /\ UNCHANGED phase
  /\ p \notin working
  /\ working' = working \cup {p}

Close ==
  /\ phase = "open" /\ phase' = "draining"
  /\ UNCHANGED working

Depart(p) ==
  /\ phase = "draining" /\ UNCHANGED phase
  /\ p \in working
  /\ working' = working \ {p}

Announce ==
  /\ phase = "draining" /\ working = {}
  /\ phase' = "ready"
  /\ UNCHANGED working

BarrierNext ==
  Begin \/ Close \/ Announce \/ \E p \in Producer : Join(p) \/ Depart(p)

\* A run that began ends; nobody has to begin another.
BarrierFairness ==
  /\ WF_barrierVars(Close) /\ WF_barrierVars(Announce)
  /\ \A p \in Producer : WF_barrierVars(Depart(p))

BarrierSpec == BarrierInit /\ [][BarrierNext]_barrierVars /\ BarrierFairness
=============================================================================
