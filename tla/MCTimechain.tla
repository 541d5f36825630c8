----------------------------- MODULE MCTimechain -----------------------------
(* Instances of the record chain, and of a quorum of witnesses beside it, for *)
(* TLC: connections a and b, targets x and y.                                 *)
EXTENDS AttestedChain

CONSTANTS a, b, x, y
=============================================================================
