----------------------------- MODULE Executors -----------------------------
(* The goroutines that execute actions (Stricker, concurrency/workerPool.go). *)
EXTENDS Integers, Sequences, FiniteSets

CONSTANT Stricker

ASSUME SomeStrickers == IsFiniteSet(Stricker)
=============================================================================
