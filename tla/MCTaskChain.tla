----------------------------- MODULE MCTaskChain -----------------------------
(* Instances of a task's chain for TLC. *)
EXTENDS TaskChain, TLC

CONSTANTS f1, f2

MCFiles == <<f1, f2>>

\* The first version is sealed in one block, the second in two.
MCText == <<<<3, 1, 4>>, <<3, 1, 4, 9>>>>
=============================================================================
