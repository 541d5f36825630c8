----------------------------- MODULE PendingOps -----------------------------
(***************************************************************************)
(* The durable write gate (pending_ops.py): a proposed write, or a tool    *)
(* call that needs confirmation, is a JSON file that moves                 *)
(*   pending -> writing -> written -> approved                             *)
(* (or rejected / expired / ingest_failed) while a USER approves it.       *)
(*                                                                         *)
(* Calls are serialised (the REPL is one thread, the web server holds      *)
(* state.lock), so at most one call runs; `call` is its stack frame.  Every*)
(* durable write of that call is a step of its own: the process may die, a *)
(* library call may raise, and another program may edit a target file      *)
(* between any two of them.  A hash is modelled by the content it pins.    *)
(***************************************************************************)
EXTENDS Naturals, Sequences, FiniteSets

CONSTANTS
    WriteOps,      \* proposals made by write_file
    ToolOps,       \* confirmation-gated tool calls deferred for approval
    NoOp,          \* "no operation"
    Files,         \* target files
    Contents,      \* what a file can hold
    NoFile,        \* the file does not exist
    Torn,          \* a temp file whose write did not finish
    Target,        \* [WriteOps -> Files]
    Proposed,      \* [WriteOps -> Contents]
    Tasked,        \* the write operations that name a task chain
    Chunks,        \* [Contents -> Nat]: chunks an ingest of a text seals
    MaxEdits,      \* bound on edits by other programs
    MaxFaults      \* bound on crashes and raised exceptions

Ops == WriteOps \cup ToolOps

ASSUME ConstantsAssumption ==
    /\ WriteOps \cap ToolOps = {} /\ NoOp \notin Ops
    /\ NoFile \notin Contents /\ Torn \notin Contents /\ NoFile # Torn
    /\ Target \in [WriteOps -> Files]
    /\ Proposed \in [WriteOps -> Contents]
    /\ Tasked \subseteq WriteOps
    /\ Chunks \in [Contents -> Nat]
    /\ MaxEdits \in Nat /\ MaxFaults \in Nat

VARIABLES
    status,     \* the status last saved in an operation's JSON file; "none"
                \* before it is created
    deleted,    \* the operations whose JSON file has been deleted
    pre,        \* pre_write_file_hash (NoFile: target_existed is False)
    lapsed,     \* time.time() > expires_at
    file,       \* the target files
    tmp,        \* each write operation's temp file
    blocks,     \* the texts sealed on the task chain under operation_id
    identity,   \* the `resolution` records on the identity chain
    gate,       \* the operation the running turn is parked on, or NoOp
    call,       \* the frame of the running call
    ran,        \* history: times a deferred tool call was executed
    held,       \* history: everything a file has ever held
    edits,      \* edits by other programs so far
    faults      \* crashes and exceptions so far

store  == <<status, deleted, pre, lapsed>>
disk   == <<file, tmp, held>>
ledger == <<blocks, identity>>
bounds == <<edits, faults>>
vars   == <<store, disk, ledger, gate, call, ran, bounds>>

Status == {"none", "pending", "writing", "written", "ingest_failed",
           "approved", "rejected", "expired"}

Stored(o) == status[o] # "none" /\ o \notin deleted     \* load(o) # None
Live(o) == file[Target[o]]

(***************************************************************************)
(* The frame.  mem is op.status in memory, live the last hash read, text   *)
(* and todo the text task_ingest read and its unsealed chunks, seal the    *)
(* seal_resolution flag, rec whether a recovery branch is running (where   *)
(* an ingest exception propagates).                                        *)
(***************************************************************************)
Frame(at, o, mem, seal) ==
    [at |-> at, op |-> o, mem |-> mem, live |-> NoFile, text |-> NoFile,
     todo |-> 0, seal |-> seal, rec |-> FALSE]

Idle == Frame("idle", NoOp, "none", FALSE)
Down == Frame("down", NoOp, "none", FALSE)

At(l) == call.at = l
Goto(l) == call' = [call EXCEPT !.at = l]
Return == call' = Idle

Init ==
    /\ status = [o \in Ops |-> "none"]
    /\ deleted = {}
    /\ pre = [o \in Ops |-> NoFile]
    /\ lapsed = [o \in Ops |-> FALSE]
    /\ file \in [Files -> Contents \cup {NoFile}]
    /\ tmp = [o \in Ops |-> NoFile]
    /\ blocks = [o \in Ops |-> <<>>]
    /\ identity = <<>>
    /\ gate = NoOp
    /\ call = Idle
    /\ ran = [o \in Ops |-> 0]
    /\ held = [f \in Files |-> {file[f]}]
    /\ edits = 0 /\ faults = 0

-----------------------------------------------------------------------------
(* Creation, during a turn.  With an approval hook (or in the web loop) the *)
(* turn parks on the operation; without one it is left for a later action.  *)

Create(o) ==
    /\ At("idle") /\ gate = NoOp
    /\ status[o] = "none"
    /\ status' = [status EXCEPT ![o] = "pending"]
    /\ gate' \in {o, NoOp}
    /\ UNCHANGED <<deleted, lapsed, disk, ledger, call, ran, bounds>>

CreateWrite(o) ==
    /\ o \in WriteOps /\ Create(o)
    /\ pre' = [pre EXCEPT ![o] = Live(o)]

CreateToolCall(o) ==
    /\ o \in ToolOps /\ Create(o)
    /\ UNCHANGED pre

-----------------------------------------------------------------------------
(* Calls.  A user action comes when no turn is parked (state.lock) and      *)
(* seals a resolution record; a gate decision is for the parked operation,  *)
(* comes once and seals none.                                               *)

Begin(o, seal) ==
    /\ At("idle")
    /\ gate = IF seal THEN NoOp ELSE o
    /\ gate' = NoOp
    /\ UNCHANGED <<store, disk, ledger, ran, bounds>>

Approve(o, seal) ==
    /\ Stored(o)
    /\ Begin(o, seal)
    /\ call' = [Frame("dispatch", o, status[o], seal) EXCEPT
                    !.live = IF o \in WriteOps THEN Live(o) ELSE NoFile]

\* Mutant: the status is not looked at.
RejectAnyStatus(o, seal) ==
    /\ Stored(o)
    /\ Begin(o, seal)
    /\ call' = Frame("save", o, "rejected", seal)

Reject(o, seal) ==
    /\ Stored(o) /\ status[o] = "pending"
    /\ Begin(o, seal)
    /\ call' = Frame("save", o, "rejected", seal)

\* resolve_inline(op, "expired"): the gate timed out.  No status check.
ExpireInline(o) ==
    /\ Stored(o)
    /\ Begin(o, FALSE)
    /\ call' = Frame("save", o, "expired", FALSE)

-----------------------------------------------------------------------------
(* execute_approve_write: which branch the loaded status selects.           *)

Dispatching(mem) == At("dispatch") /\ call.op \in WriteOps /\ call.mem = mem

OnDisk == call.live = Proposed[call.op]      \* live_hash = proposed hash

AlreadyProcessed ==
    /\ At("dispatch")
    /\ \/ call.mem \in {"approved", "rejected", "expired"}
       \/ call.op \in ToolOps /\ call.mem # "pending"
    /\ Return
    /\ UNCHANGED <<store, disk, ledger, gate, ran, bounds>>

\* written / ingest_failed: verify the disk, then retry the ingest only.
RetryIngest ==
    /\ \/ Dispatching("ingest_failed") \/ Dispatching("written")
       \/ At("verify")
    /\ IF OnDisk THEN call' = [call EXCEPT !.at = "ingest", !.rec = TRUE]
                 ELSE Return                 \* manual intervention required
    /\ UNCHANGED <<store, disk, ledger, gate, ran, bounds>>

\* writing, and the replace took place before the crash.
RecoverReplaced ==
    /\ Dispatching("writing") /\ OnDisk
    /\ tmp' = [tmp EXCEPT ![call.op] = NoFile]
    /\ call' = [call EXCEPT !.at = "save", !.mem = "written", !.rec = TRUE]
    /\ UNCHANGED <<store, file, held, ledger, gate, ran, bounds>>

\* Mutant: a temp file with the wrong content is kept.
RecoverTmpKept ==
    LET o == call.op IN
    /\ Dispatching("writing") /\ ~OnDisk /\ tmp[o] # NoFile
    /\ IF tmp[o] = Proposed[o]
         THEN call' = [call EXCEPT !.at = "replace", !.rec = TRUE]
         ELSE Return
    /\ UNCHANGED <<store, disk, ledger, gate, ran, bounds>>

\* writing, and a temp file is left: complete the replace, unless the temp
\* file is not the proposed content.
RecoverTmp ==
    LET o == call.op IN
    /\ Dispatching("writing") /\ ~OnDisk /\ tmp[o] # NoFile
    /\ IF tmp[o] = Proposed[o]
         THEN /\ call' = [call EXCEPT !.at = "replace", !.rec = TRUE]
              /\ UNCHANGED tmp
         ELSE /\ Return
              /\ tmp' = [tmp EXCEPT ![o] = NoFile]
    /\ UNCHANGED <<store, file, held, ledger, gate, ran, bounds>>

\* writing, and nothing was written: restart from pending if the file is
\* still in its pre-write state.
RecoverNothing ==
    LET o == call.op IN
    /\ Dispatching("writing") /\ ~OnDisk /\ tmp[o] = NoFile
    /\ IF call.live = pre[o]
         THEN /\ status' = [status EXCEPT ![o] = "pending"]
              /\ call' = [call EXCEPT !.mem = "pending"]
         ELSE Return /\ UNCHANGED status
    /\ UNCHANGED <<deleted, pre, lapsed, disk, ledger, gate, ran, bounds>>

\* Mutant: a tool call left in "writing" is started again.
StartToolAgain ==
    LET o == call.op IN
    /\ At("dispatch")
    /\ call.mem = "pending" \/ (o \in ToolOps /\ call.mem = "writing")
    /\ call' = [call EXCEPT !.at = "save", !.mem = "writing"]
    /\ UNCHANGED <<store, disk, ledger, gate, ran, bounds>>

\* pending: expiry, then optimistic concurrency, then the write phase.
StartPending ==
    LET o == call.op IN
    /\ At("dispatch") /\ call.mem = "pending"
    /\ CASE lapsed[o] ->
              call' = [call EXCEPT !.at = "save", !.mem = "expired",
                                   !.seal = FALSE]
         [] ~lapsed[o] /\ o \in WriteOps /\ Live(o) # pre[o] -> Return
         [] OTHER ->
              call' = [call EXCEPT !.at = "save", !.mem = "writing",
                                   !.rec = FALSE]
    /\ UNCHANGED <<store, disk, ledger, gate, ran, bounds>>

-----------------------------------------------------------------------------
(* PendingOpStore.save (temp file + os.replace: atomic) and where the call  *)
(* goes on from there.                                                      *)

AfterSave ==
    CASE call.mem = "writing" ->
            IF call.op \in ToolOps THEN "run" ELSE "tmp_open"
      [] call.mem = "written" -> IF call.rec THEN "verify" ELSE "ingest"
      [] call.mem = "ingest_failed" -> "idle"
      [] call.mem = "approved" -> "delete"
      [] OTHER -> "discard"

Save ==
    /\ At("save")
    /\ status' = [status EXCEPT ![call.op] = call.mem]
    /\ IF AfterSave = "idle" THEN Return ELSE Goto(AfterSave)
    /\ UNCHANGED <<deleted, pre, lapsed, disk, ledger, gate, ran, bounds>>

(* _atomic_write: the temp file is opened, filled, and replaces the target. *)

WriteTmp ==
    /\ \/ /\ At("tmp_open") /\ Goto("tmp_fill")
          /\ tmp' = [tmp EXCEPT ![call.op] = Torn]
       \/ /\ At("tmp_fill") /\ Goto("replace")
          /\ tmp' = [tmp EXCEPT ![call.op] = Proposed[call.op]]
    /\ UNCHANGED <<store, file, held, ledger, gate, ran, bounds>>

SetFile(f, c) ==
    /\ file' = [file EXCEPT ![f] = c]
    /\ held' = [held EXCEPT ![f] = @ \cup {c}]

Replace ==
    LET o == call.op IN
    /\ At("replace")
    /\ SetFile(Target[o], tmp[o])
    /\ tmp' = [tmp EXCEPT ![o] = NoFile]
    /\ call' = [call EXCEPT !.at = IF call.rec THEN "rehash" ELSE "save",
                            !.mem = "written"]
    /\ UNCHANGED <<store, ledger, gate, ran, bounds>>

\* Recovery reads the file again after its os.replace (and raises when it
\* has gone).
Rehash ==
    /\ At("rehash")
    /\ IF Live(call.op) = NoFile
         THEN Return
         ELSE call' = [call EXCEPT !.at = "save", !.live = Live(call.op)]
    /\ UNCHANGED <<store, disk, ledger, gate, ran, bounds>>

-----------------------------------------------------------------------------
(* AgentContext.task_ingest: skipped without a task, skipped when any block *)
(* carries this operation_id; otherwise the live file is read and its       *)
(* chunks are sealed one record at a time.                                  *)

Approved == call' = [call EXCEPT !.at = "save", !.mem = "approved",
                                 !.text = NoFile, !.todo = 0, !.rec = FALSE]

IngestDone ==
    /\ At("ingest")
    /\ call.op \notin Tasked \/ blocks[call.op] # <<>>
    /\ Approved
    /\ UNCHANGED <<store, disk, ledger, gate, ran, bounds>>

\* Mutant: the operation_id is not looked up.
IngestAgain ==
    LET c == Live(call.op) IN
    /\ At("ingest") /\ call.op \in Tasked /\ c # NoFile
    /\ call' = [call EXCEPT !.at = "chunk", !.text = c, !.todo = Chunks[c]]
    /\ UNCHANGED <<store, disk, ledger, gate, ran, bounds>>

IngestRead ==
    LET c == Live(call.op) IN
    /\ At("ingest")
    /\ call.op \in Tasked /\ blocks[call.op] = <<>>
    /\ c # NoFile
    /\ IF Chunks[c] = 0
         THEN Approved
         ELSE call' = [call EXCEPT !.at = "chunk", !.text = c,
                                   !.todo = Chunks[c]]
    /\ UNCHANGED <<store, disk, ledger, gate, ran, bounds>>

SealChunk ==
    /\ At("chunk")
    /\ blocks' = [blocks EXCEPT ![call.op] = Append(@, call.text)]
    /\ IF call.todo = 1 THEN Approved
                        ELSE call' = [call EXCEPT !.todo = @ - 1]
    /\ UNCHANGED <<store, disk, identity, gate, ran, bounds>>

\* Mutant: the exception is swallowed and the write approved.
IngestSwallows ==
    /\ \/ At("ingest") /\ call.op \in Tasked /\ blocks[call.op] = <<>>
       \/ At("chunk")
    /\ faults < MaxFaults /\ faults' = faults + 1
    /\ Approved
    /\ UNCHANGED <<store, disk, ledger, gate, ran, edits>>

\* The main path catches an ingest exception and records ingest_failed; in a
\* recovery branch it propagates and the operation keeps its status.
IngestRaises ==
    /\ \/ (At("ingest") /\ call.op \in Tasked /\ blocks[call.op] = <<>>)
       \/ At("chunk")
    /\ \/ (At("ingest") /\ Live(call.op) = NoFile /\ UNCHANGED faults)
       \/ (faults < MaxFaults /\ faults' = faults + 1)
    /\ IF call.rec
         THEN Return
         ELSE call' = [call EXCEPT !.at = "save", !.mem = "ingest_failed",
                                   !.text = NoFile, !.todo = 0]
    /\ UNCHANGED <<store, disk, ledger, gate, ran, edits>>

-----------------------------------------------------------------------------
(* The end of a call: _discard_tmp, delete the JSON file, seal the          *)
(* resolution (best effort).                                                *)

Discard ==
    /\ At("discard")
    /\ tmp' = [tmp EXCEPT ![call.op] = NoFile]
    /\ Goto("delete")
    /\ UNCHANGED <<store, file, held, ledger, gate, ran, bounds>>

Delete ==
    /\ At("delete")
    /\ deleted' = deleted \cup {call.op}
    /\ IF call.seal THEN Goto("seal") ELSE Return
    /\ UNCHANGED <<status, pre, lapsed, disk, ledger, gate, ran, bounds>>

SealResolution ==
    /\ At("seal")
    /\ identity' = Append(identity, [op |-> call.op, event |-> call.mem])
    /\ Return
    /\ UNCHANGED <<store, disk, blocks, gate, ran, bounds>>

\* _approve_tool_call runs the tool between its two saves; execute_tool
\* turns an exception into an error string.
RunTool ==
    /\ At("run")
    /\ ran' = [ran EXCEPT ![call.op] = @ + 1]
    /\ call' = [call EXCEPT !.at = "save", !.mem = "approved"]
    /\ UNCHANGED <<store, disk, ledger, gate, bounds>>

-----------------------------------------------------------------------------
(* The environment.                                                         *)

\* Time passes the operation's expires_at (during a sweep: before or after it
\* visits the operation, so just before or after the sweep).
Lapse(o) ==
    /\ ~At("sweep") /\ Stored(o) /\ ~lapsed[o]
    /\ lapsed' = [lapsed EXCEPT ![o] = TRUE]
    /\ UNCHANGED <<status, deleted, pre, disk, ledger, gate, call, ran, bounds>>

\* Another program writes or removes a target file.
Edit(f) ==
    /\ edits < MaxEdits /\ edits' = edits + 1
    /\ \E c \in (Contents \cup {NoFile}) \ {file[f]} : SetFile(f, c)
    /\ UNCHANGED <<store, tmp, ledger, gate, call, ran, faults>>

Fault == faults < MaxFaults /\ faults' = faults + 1

\* An I/O error outside the ingest leaves the call by an exception: the
\* process lives, a parked turn does not.
Raise ==
    /\ call.at \in {"save", "tmp_open", "tmp_fill", "replace", "delete"}
    /\ Fault /\ Return
    /\ UNCHANGED <<store, disk, ledger, gate, ran, edits>>

\* Sealing the resolution fails; the call still returns normally.
SealFails ==
    /\ At("seal") /\ Fault /\ Return
    /\ UNCHANGED <<store, disk, ledger, gate, ran, edits>>

Crash ==
    /\ ~At("down")
    /\ Fault /\ call' = Down /\ gate' = NoOp
    /\ UNCHANGED <<store, disk, ledger, ran, edits>>

\* PendingOpStore.__init__ sweeps the expired operations still pending, one
\* file at a time.
Restart ==
    /\ At("down")
    /\ call' = Frame("sweep", NoOp, "none", FALSE)
    /\ UNCHANGED <<store, disk, ledger, gate, ran, bounds>>

Sweepable(o) == Stored(o) /\ status[o] = "pending" /\ lapsed[o]

SweepOne(o) ==
    /\ At("sweep") /\ Sweepable(o)
    /\ tmp' = [tmp EXCEPT ![o] = NoFile]
    /\ deleted' = deleted \cup {o}
    /\ UNCHANGED <<status, pre, lapsed, file, held, ledger, gate, call, ran,
                   bounds>>

SweepEnd ==
    /\ At("sweep") /\ \A o \in Ops : ~Sweepable(o)
    /\ Return
    /\ UNCHANGED <<store, disk, ledger, gate, ran, bounds>>

-----------------------------------------------------------------------------
Request(o) ==
    \/ \E seal \in BOOLEAN : Approve(o, seal) \/ Reject(o, seal)
    \/ ExpireInline(o)

Step ==     \* the running call, or the restarting process, makes its next move
    \/ AlreadyProcessed \/ RetryIngest \/ RecoverReplaced \/ RecoverTmp
    \/ RecoverNothing \/ StartPending \/ Save \/ WriteTmp \/ Replace \/ Rehash
    \/ IngestDone \/ IngestRead \/ SealChunk \/ IngestRaises
    \/ Discard \/ Delete \/ SealResolution \/ RunTool
    \/ Restart \/ (\E o \in Ops : SweepOne(o)) \/ SweepEnd

Environment ==
    \/ \E o \in Ops : Lapse(o)
    \/ \E f \in Files : Edit(f)
    \/ Raise \/ SealFails \/ Crash

Next ==
    \/ \E o \in Ops : CreateWrite(o) \/ CreateToolCall(o) \/ Request(o)
    \/ Step
    \/ Environment

Spec == Init /\ [][Next]_vars

\* The process keeps running and restarts after a crash, time passes, and the
\* user keeps answering: a parked turn gets a decision or its timeout, and an
\* operation left behind is approved again and again.
Fairness ==
    /\ WF_vars(Step)
    /\ \A o \in Ops :
        /\ WF_vars(Lapse(o))
        /\ SF_vars(ExpireInline(o))
        /\ SF_vars(Approve(o, TRUE))

FairSpec == Spec /\ Fairness

-----------------------------------------------------------------------------
(* Properties.                                                              *)

Labels == {"idle", "down", "dispatch", "save", "tmp_open", "tmp_fill",
           "replace", "rehash", "verify", "ingest", "chunk", "discard",
           "delete", "seal", "run", "sweep"}

FileContents == Contents \cup {NoFile}
Frames == [at : Labels, op : Ops \cup {NoOp}, mem : Status,
           live : FileContents, text : FileContents, todo : Nat,
           seal : BOOLEAN, rec : BOOLEAN]

\* Every variable has the values the code can give it; in particular a
\* target never holds a half-written temp file.
TypeOK ==
    /\ status \in [Ops -> Status] /\ deleted \in SUBSET Ops
    /\ pre \in [Ops -> FileContents]
    /\ lapsed \in [Ops -> BOOLEAN]
    /\ file \in [Files -> FileContents]
    /\ tmp \in [Ops -> FileContents \cup {Torn}]
    /\ blocks \in [Ops -> Seq(Contents)]
    /\ identity \in Seq([op : Ops, event : {"approved", "rejected"}])
    /\ gate \in Ops \cup {NoOp}
    /\ call \in Frames
    /\ ran \in [Ops -> Nat]
    /\ held \in [Files -> SUBSET FileContents]
    /\ edits \in Nat /\ faults \in Nat

\* The content an operation proposes has been on its file (a write), or the
\* call it defers has run (a tool call).
Effected(o) == IF o \in ToolOps THEN ran[o] > 0
                                ELSE Proposed[o] \in held[Target[o]]

\* A temp file exists only while the stored status is "writing": no expiry,
\* rejection, sweep or completed write leaves one behind, whatever crashed.
TmpOnlyWhileWriting ==
    \A o \in WriteOps : tmp[o] # NoFile => status[o] = "writing" /\ Stored(o)

\* However often the approval is retried after crashes and ingest failures,
\* an operation's text is sealed at most once: never more blocks than the
\* text has chunks, and all blocks of one text.
SealedAtMostOnce ==
    \A o \in WriteOps : blocks[o] # <<>> =>
        /\ Len(blocks[o]) <= Chunks[blocks[o][1]]
        /\ \A i \in DOMAIN blocks[o] : blocks[o][i] = blocks[o][1]

\* A crash during a deferred tool call can never run it twice.
ToolRunsAtMostOnce == \A o \in ToolOps : ran[o] <= 1

\* A resolution record on the identity chain tells the truth: "approved" is
\* sealed for an effect that took place, "rejected" for an operation with no
\* provenance and no run, and an operation is resolved once.
ResolutionTruthful ==
    /\ \A i \in DOMAIN identity :
        LET r == identity[i] IN
        /\ status[r.op] = r.event /\ r.op \in deleted
        /\ r.event = "approved" => Effected(r.op)
        /\ r.event = "rejected" => blocks[r.op] = <<>> /\ ran[r.op] = 0
    /\ \A i, j \in DOMAIN identity : identity[i].op = identity[j].op => i = j

\* No lost update: a write replaces only the content it was proposed against
\* ("Approval verifies optimistic concurrency (pre-write hash)").
NoLostUpdate == [][Replace => Live(call.op) = pre[call.op]]_vars

\* "resume deterministically": a write the user keeps approving is resolved at
\* last, whatever steps crashed, unless its file is edited meanwhile.
Resolved(o) == status[o] \in {"approved", "rejected", "expired"} \/ o \in deleted
EventuallyResolved ==
    [](edits = 0) => \A o \in WriteOps : status[o] # "none" ~> Resolved(o)

-----------------------------------------------------------------------------
(* The abstract gate, seen through the store, the disk and the chain. *)
Phase(o) ==
    CASE status[o] = "none" -> "none"
      [] status[o] = "pending" -> IF o \in deleted THEN "refused" ELSE "open"
      [] status[o] \in {"writing", "written", "ingest_failed"} -> "started"
      [] status[o] = "approved" -> "approved"
      [] OTHER -> "refused"

Gate == INSTANCE WriteGate WITH
    Writes   <- WriteOps,
    Tools    <- ToolOps,
    Recorded <- Tasked,
    Required <- IF \E c \in Contents : Chunks[c] = 0 THEN {} ELSE Tasked,
    phase    <- [o \in Ops |-> Phase(o)],
    effect   <- {o \in Ops : Effected(o)},
    records  <- [o \in Ops |-> Len(blocks[o])]

\* The write gate implements its promise, crashes and retries included.
ImplementsGate == Gate!GateSpec
=============================================================================
