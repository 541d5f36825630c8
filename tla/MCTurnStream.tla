---------------------------- MODULE MCTurnStream ----------------------------
(* Instances of turn streaming for TLC: tabs a and b, texts p and q. *)
EXTENDS TurnStream

CONSTANTS a, b, p, q
=============================================================================
