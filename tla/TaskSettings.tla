---------------------------- MODULE TaskSettings ----------------------------
(***************************************************************************)
(* What the settings of a task are turned into                             *)
(* (configparsers/structs.go, concurrency/workerPool.go).                  *)
(***************************************************************************)
EXTENDS Integers

CONSTANT Base  \* config producerBaseCountPerForLoop: the rate one producer serves

ASSUME BasePositive == Base \in Nat \ {0}

\* Ceiling of rate / base, the float division of the source.
GetTaskGeneratorSpawnCount(r) == (r + Base - 1) \div Base

\* A task without a concurrency of its own has one consumer per unit of rate.
GetConcurrency(object) ==
  IF object.concurrency > 0 THEN object.concurrency ELSE object.rate
=============================================================================
