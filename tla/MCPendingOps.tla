---------------------------- MODULE MCPendingOps ----------------------------
(* Instances of the write gate for TLC. *)
EXTENDS PendingOps, TLC

CONSTANTS w1, w2, t1, f1, old, new1, new2

MCOneWrite  == {w1}
MCTwoWrites == {w1, w2}
MCOneTool   == {t1}

\* All writes are proposed against the same file.
MCTarget   == [o \in WriteOps |-> f1]
MCProposed == [o \in WriteOps |-> IF o = w1 THEN new1 ELSE new2]

\* new1 is long enough for two chunks.
MCChunks == [c \in Contents |-> IF c = new1 THEN 2 ELSE 1]
=============================================================================
