------------------------------ MODULE WriteGate ------------------------------
(***************************************************************************)
(* What the write gate promises, without files, retries or crashes.  An    *)
(* operation is proposed, then refused, or started, effected, recorded on  *)
(* its task chain and approved.  Only an attempt that recorded nothing can *)
(* be backed out of, a tool call never, and nothing happens to an operation*)
(* that was approved or refused.                                           *)
(***************************************************************************)
EXTENDS Naturals

CONSTANTS
    Writes, Tools,
    Recorded,   \* the writes that name a task
    Required    \* those that are not approved without a record: all of them,
                \* unless there are texts that have nothing to record

VARIABLES
    phase,      \* [operation -> where it stands]
    effect,     \* the operations whose effect has taken place
    records     \* [operation -> number of blocks sealed for it]

gateVars == <<phase, effect, records>>

Operations == Writes \cup Tools

Move(o, from, to) ==
    /\ phase[o] = from
    /\ phase' = [phase EXCEPT ![o] = to]
    /\ UNCHANGED <<effect, records>>

GateInit ==
    /\ phase = [o \in Operations |-> "none"]
    /\ effect \in SUBSET Writes        \* a file may already hold the content
    /\ records = [o \in Operations |-> 0]

Propose(o) == Move(o, "none", "open")
Start(o)   == Move(o, "open", "started")
Refuse(o)  == Move(o, "open", "refused")
BackOut(o) == o \in Writes /\ records[o] = 0 /\ Move(o, "started", "open")

\* Files are shared: one change can bring several writes' contents about.
WriteEffect == /\ \E W \in SUBSET Writes : effect' = effect \cup W
               /\ UNCHANGED <<phase, records>>

ToolEffect(o) ==
    /\ o \in Tools \ effect /\ phase[o] = "started"
    /\ effect' = effect \cup {o}
    /\ UNCHANGED <<phase, records>>

Record(o) ==
    /\ o \in Recorded \cap effect /\ phase[o] = "started"
    /\ records' = [records EXCEPT ![o] = @ + 1]
    /\ UNCHANGED <<phase, effect>>

Accept(o) == /\ o \in effect
             /\ o \in Required => records[o] > 0
             /\ Move(o, "started", "approved")

GateNext ==
    \/ \E o \in Operations :
        \/ Propose(o) \/ Start(o) \/ Refuse(o) \/ BackOut(o)
        \/ ToolEffect(o) \/ Record(o) \/ Accept(o)
    \/ WriteEffect

GateSpec == GateInit /\ [][GateNext]_gateVars
=============================================================================
