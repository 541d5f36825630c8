--------------------------- MODULE MCApprovalGate ---------------------------
(* Instances of the approval gate for TLC. *)
EXTENDS ApprovalGate

CONSTANTS o1, o2, r1, r2
=============================================================================
