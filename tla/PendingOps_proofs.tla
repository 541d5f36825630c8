-------------------------- MODULE PendingOps_proofs --------------------------
(***************************************************************************)
(* Theorems about the write gate, for any set of operations, files and     *)
(* contents, any chunk counts and any bounds on edits and faults.          *)
(***************************************************************************)
EXTENDS PendingOps, TLAPS

\* What the frame of a running call says about the operation it works on.
FrameInv ==
    LET o == call.op IN
    /\ gate # NoOp => At("idle") /\ status[gate] = "pending"
    /\ ~At("idle") /\ ~At("down") /\ ~At("sweep") => o \in Ops
    /\ At("dispatch") => call.mem = status[o] /\ Stored(o)
    /\ call.at \in {"tmp_open", "tmp_fill", "replace", "rehash", "verify",
                    "ingest", "chunk"} => o \in WriteOps
    /\ call.at \in {"tmp_open", "tmp_fill", "replace", "rehash"} =>
        Stored(o) /\ status[o] = "writing"
    /\ At("rehash") => call.mem = "written" /\ tmp[o] = NoFile
    /\ call.at \in {"verify", "ingest", "chunk"} =>
        /\ Stored(o) /\ status[o] \in {"written", "ingest_failed"}
        /\ call.mem = status[o]
    /\ At("replace") => tmp[o] = Proposed[o]
    /\ At("run") => o \in ToolOps /\ Stored(o) /\ status[o] = "writing"
    /\ At("save") =>
        /\ Stored(o)
        /\ \/ call.mem \in {"writing", "rejected", "expired"}
              /\ status[o] = "pending"
           \/ call.mem = "written" /\ o \in WriteOps /\ status[o] = "writing"
              /\ tmp[o] = NoFile
           \/ call.mem = "ingest_failed" /\ o \in WriteOps
              /\ status[o] \in {"written", "ingest_failed"}
           \/ call.mem = "approved" /\ o \in WriteOps
              /\ status[o] \in {"written", "ingest_failed"}
           \/ call.mem = "approved" /\ o \in ToolOps /\ status[o] = "writing"
    /\ At("discard") => status[o] \in {"rejected", "expired"} /\ call.mem = status[o]
    /\ At("delete") => /\ status[o] \in {"approved", "rejected", "expired"}
                       /\ call.mem = status[o]
    /\ At("seal") => call.mem \in {"approved", "rejected"}

\* An expired operation is deleted without a resolution record.
SealInv == call.mem = "expired" /\ ~At("dispatch") => ~call.seal

\* The blocks of an operation are a prefix of one text's chunks, and a call
\* that is sealing has exactly the rest of them left.
BlocksInv ==
    /\ SealedAtMostOnce
    /\ At("chunk") =>
        LET b == blocks[call.op] IN
        /\ call.text \in Contents /\ call.todo > 0
        /\ Len(b) + call.todo = Chunks[call.text]
        /\ \A i \in DOMAIN b : b[i] = call.text

\* A tool call has not run while its operation is undecided.
ToolInv ==
    \A o \in ToolOps :
        /\ ran[o] <= 1
        /\ status[o] \in {"none", "pending"} => ran[o] = 0
        /\ At("run") /\ call.op = o => ran[o] = 0

IInv == TypeOK /\ FrameInv /\ SealInv /\ TmpOnlyWhileWriting /\ BlocksInv /\ ToolInv

-----------------------------------------------------------------------------
(* Steps that leave the call, and steps that only move its frame.           *)

USE ConstantsAssumption

LEMMA FrameTypes ==
    /\ Idle \in Frames
    /\ \A o \in Ops, mem \in Status, seal \in BOOLEAN :
         Frame("save", o, mem, seal) \in Frames
  BY DEF Idle, Frame, Frames, Labels, FileContents, Status

\* A call that returns and changes nothing else.
LEMMA ReturnStep ==
  ASSUME IInv, call' = Idle, UNCHANGED <<store, disk, ledger, ran>>,
         gate' = gate, edits' = edits, faults' \in Nat
  PROVE  IInv'
  <1>1. TypeOK'
    BY FrameTypes DEF IInv, TypeOK, store, disk, ledger
  <1>2. FrameInv' /\ SealInv'
    BY DEF IInv, FrameInv, SealInv, At, Idle, Frame, Stored, store
  <1>3. TmpOnlyWhileWriting' /\ BlocksInv' /\ ToolInv'
    BY DEF IInv, TmpOnlyWhileWriting, BlocksInv, SealedAtMostOnce, ToolInv,
           At, Idle, Frame, Stored, store, disk, ledger
  <1> QED BY <1>1, <1>2, <1>3 DEF IInv

\* A call that moves on and changes nothing else.
LEMMA MoveStep ==
  ASSUME IInv, call' \in Frames, FrameInv', SealInv',
         call'.at # "chunk", call'.at # "run",
         UNCHANGED <<store, disk, ledger, ran>>,
         gate' = gate, edits' = edits, faults' \in Nat
  PROVE  IInv'
  <1>1. TypeOK'
    BY DEF IInv, TypeOK, store, disk, ledger
  <1>2. TmpOnlyWhileWriting' /\ ToolInv'
    BY DEF IInv, TmpOnlyWhileWriting, ToolInv, At, Stored, store, disk
  <1>3. BlocksInv'
    BY DEF IInv, BlocksInv, SealedAtMostOnce, At, ledger
  <1> QED BY <1>1, <1>2, <1>3 DEF IInv

-----------------------------------------------------------------------------
(* One lemma for each step whose frame or store changes need care.          *)

LEMMA StepRetryIngest == ASSUME IInv, RetryIngest PROVE IInv'
  <1>1. CASE call' = Idle
    BY <1>1, ReturnStep DEF RetryIngest, bounds, IInv, TypeOK
  <1>2. CASE call' = [call EXCEPT !.at = "ingest", !.rec = TRUE]
    <2>1. /\ call' \in Frames /\ call'.at = "ingest"
          /\ call'.op = call.op /\ call'.mem = call.mem
      BY <1>2 DEF IInv, TypeOK, Frames, Labels
    <2>2. /\ call.op \in WriteOps /\ Stored(call.op) /\ gate = NoOp
          /\ status[call.op] \in {"written", "ingest_failed"}
          /\ call.mem = status[call.op]
      BY DEF RetryIngest, Dispatching, IInv, FrameInv, At
    <2>3. gate' = gate /\ UNCHANGED <<store, disk, ledger, ran, edits, faults>>
      BY DEF RetryIngest, bounds
    <2>4. FrameInv'
      BY <2>1, <2>2, <2>3 DEF FrameInv, At, Stored, Ops, store
    <2>5. SealInv'
      BY <2>1, <2>2 DEF SealInv
    <2>6. faults' \in Nat
      BY <2>3 DEF IInv, TypeOK
    <2> QED
      BY <2>1, <2>3, <2>4, <2>5, <2>6, MoveStep
  <1> QED
    BY <1>1, <1>2 DEF RetryIngest, Return

LEMMA StepRecoverTmp == ASSUME IInv, RecoverTmp PROVE IInv'
  <1> DEFINE o == call.op
  <1>1. /\ o \in WriteOps /\ Stored(o) /\ gate = NoOp
        /\ status[o] = "writing" /\ call.mem = "writing"
    BY DEF RecoverTmp, Dispatching, IInv, FrameInv, At
  <1>2. CASE call' = [call EXCEPT !.at = "replace", !.rec = TRUE]
             /\ tmp[o] = Proposed[o] /\ UNCHANGED tmp
    <2>1. /\ call' \in Frames /\ call'.at = "replace"
          /\ call'.op = o /\ call'.mem = "writing"
      BY <1>1, <1>2 DEF IInv, TypeOK, Frames, Labels
    <2>2. gate' = gate /\ UNCHANGED <<store, disk, ledger, ran, edits, faults>>
      BY <1>2 DEF RecoverTmp, bounds, disk
    <2>3. FrameInv'
      BY <1>1, <1>2, <2>1, <2>2 DEF FrameInv, At, Stored, Ops, store
    <2>4. SealInv'
      BY <2>1 DEF SealInv
    <2>5. faults' \in Nat
      BY <2>2 DEF IInv, TypeOK
    <2> QED BY <2>1, <2>2, <2>3, <2>4, <2>5, MoveStep
  <1>3. CASE call' = Idle /\ tmp' = [tmp EXCEPT ![o] = NoFile]
    <2>1. /\ gate' = gate
          /\ UNCHANGED <<store, file, held, ledger, ran, edits, faults>>
      BY DEF RecoverTmp, bounds
    <2>2. TypeOK'
      BY <1>3, <2>1, FrameTypes DEF IInv, TypeOK, store, ledger, FileContents
    <2>3. FrameInv' /\ SealInv'
      BY <1>1, <1>3, <2>1 DEF FrameInv, SealInv, At, Idle, Frame
    <2>4. TmpOnlyWhileWriting' /\ ToolInv'
      BY <1>3, <2>1 DEF IInv, TypeOK, TmpOnlyWhileWriting, ToolInv, At, Idle,
         Frame, Stored, store
    <2>5. BlocksInv'
      BY <1>3, <2>1 DEF IInv, BlocksInv, SealedAtMostOnce, At, Idle, Frame,
         ledger
    <2> QED BY <2>2, <2>3, <2>4, <2>5 DEF IInv
  <1> QED BY <1>2, <1>3 DEF RecoverTmp, Return

LEMMA StepRecoverNothing == ASSUME IInv, RecoverNothing PROVE IInv'
  <1> DEFINE o == call.op
  <1>1. /\ o \in WriteOps /\ Stored(o) /\ gate = NoOp /\ At("dispatch")
        /\ status[o] = "writing" /\ tmp[o] = NoFile
    BY DEF RecoverNothing, Dispatching, IInv, FrameInv, At
  <1>2. CASE call' = Idle /\ UNCHANGED status
    BY <1>2, ReturnStep DEF RecoverNothing, store, bounds, IInv, TypeOK
  <1>3. CASE /\ status' = [status EXCEPT ![o] = "pending"]
             /\ call' = [call EXCEPT !.mem = "pending"]
    <2>1. /\ call' \in Frames /\ call'.at = "dispatch" /\ call'.op = o
          /\ call'.mem = "pending"
      BY <1>1, <1>3 DEF IInv, TypeOK, Frames, Labels, Status, At
    <2>2. /\ gate' = gate
          /\ UNCHANGED <<deleted, pre, lapsed, disk, ledger, ran, bounds>>
      BY DEF RecoverNothing
    <2>3. o \in Ops /\ status'[o] = "pending" /\ \A p \in Ops \ {o} : status'[p] = status[p]
      BY <1>1, <1>3 DEF IInv, TypeOK, Ops
    <2>4. TypeOK'
      BY <1>3, <2>1, <2>2 DEF IInv, TypeOK, disk, ledger, bounds, Status
    <2>5. FrameInv' /\ SealInv'
      BY <1>1, <2>1, <2>2, <2>3 DEF FrameInv, SealInv, At, Stored
    <2>6. TmpOnlyWhileWriting'
      BY <1>1, <2>2, <2>3 DEF IInv, TmpOnlyWhileWriting, Stored, Ops, disk
    <2>7. BlocksInv'
      BY <2>1, <2>2 DEF IInv, BlocksInv, SealedAtMostOnce, At, ledger
    <2>8. ToolInv'
      BY <1>1, <2>1, <2>2, <2>3, ConstantsAssumption DEF IInv, ToolInv, At, Ops
    <2> QED BY <2>4, <2>5, <2>6, <2>7, <2>8 DEF IInv
  <1> QED BY <1>2, <1>3 DEF RecoverNothing, Return

LEMMA StepStartPending == ASSUME IInv, StartPending PROVE IInv'
  <1> DEFINE o == call.op
  <1>1. /\ o \in Ops /\ Stored(o) /\ gate = NoOp /\ status[o] = "pending"
    BY DEF StartPending, IInv, FrameInv, At
  <1>2. /\ gate' = gate
        /\ UNCHANGED <<store, disk, ledger, ran, edits, faults>>
    BY DEF StartPending, bounds
  <1>3. faults' \in Nat
    BY <1>2 DEF IInv, TypeOK
  <1>4. CASE call' = Idle
    BY <1>2, <1>3, <1>4, ReturnStep
  <1>5. CASE call' = [call EXCEPT !.at = "save", !.mem = "expired",
                                  !.seal = FALSE]
    <2>1. /\ call' \in Frames /\ call'.at = "save" /\ call'.op = o
          /\ call'.mem = "expired" /\ call'.seal = FALSE
      BY <1>5 DEF IInv, TypeOK, Frames, Labels, Status
    <2>2. FrameInv' /\ SealInv'
      BY <1>1, <1>2, <2>1 DEF FrameInv, SealInv, At, Stored, store
    <2> QED BY <1>2, <1>3, <2>1, <2>2, MoveStep
  <1>6. CASE call' = [call EXCEPT !.at = "save", !.mem = "writing",
                                  !.rec = FALSE]
    <2>1. /\ call' \in Frames /\ call'.at = "save" /\ call'.op = o
          /\ call'.mem = "writing"
      BY <1>6 DEF IInv, TypeOK, Frames, Labels, Status
    <2>2. FrameInv' /\ SealInv'
      BY <1>1, <1>2, <2>1 DEF FrameInv, SealInv, At, Stored, store
    <2> QED BY <1>2, <1>3, <2>1, <2>2, MoveStep
  <1> QED BY <1>4, <1>5, <1>6 DEF StartPending, Return

LEMMA StepSave == ASSUME IInv, Save PROVE IInv'
  <1> DEFINE o == call.op
  <1>1. At("save") /\ o \in Ops /\ Stored(o) /\ gate = NoOp /\ call.mem \in Status
    BY DEF Save, IInv, TypeOK, Frames, FrameInv, At
  <1>2. /\ status' = [status EXCEPT ![o] = call.mem] /\ gate' = gate
        /\ UNCHANGED <<deleted, pre, lapsed, disk, ledger, ran, bounds>>
    BY DEF Save
  <1>3. status'[o] = call.mem /\ \A p \in Ops \ {o} : status'[p] = status[p]
    BY <1>1, <1>2 DEF IInv, TypeOK
  <1>4. CASE call.mem = "ingest_failed" /\ call' = Idle
    <2>1. o \in WriteOps /\ status[o] \in {"written", "ingest_failed"}
      BY <1>1, <1>4 DEF IInv, FrameInv
    <2>2. TypeOK'
      BY <1>1, <1>2, <1>4, FrameTypes DEF IInv, TypeOK, disk, ledger, bounds
    <2>3. FrameInv' /\ SealInv'
      BY <1>1, <1>2, <1>4 DEF FrameInv, SealInv, At, Idle, Frame
    <2>4. TmpOnlyWhileWriting' /\ ToolInv'
      BY <1>1, <1>2, <1>3, <1>4, <2>1, ConstantsAssumption DEF IInv,
         TmpOnlyWhileWriting, ToolInv, At, Idle, Frame, Stored, Ops, disk
    <2>5. BlocksInv'
      BY <1>2, <1>4 DEF IInv, BlocksInv, SealedAtMostOnce, At, Idle, Frame,
         ledger
    <2> QED BY <2>2, <2>3, <2>4, <2>5 DEF IInv
  <1>5. CASE call.mem # "ingest_failed" /\ call' = [call EXCEPT !.at = AfterSave]
    <2>1. AfterSave \in {"run", "tmp_open", "verify", "ingest", "delete", "discard"}
      BY <1>5 DEF AfterSave
    <2>2. /\ call' \in Frames /\ call'.at = AfterSave /\ call'.op = o
          /\ call'.mem = call.mem /\ call'.seal = call.seal
      BY <1>5, <2>1 DEF IInv, TypeOK, Frames, Labels
    <2>3. TypeOK'
      BY <1>1, <1>2, <2>2 DEF IInv, TypeOK, disk, ledger, bounds
    <2>4. ASSUME call.mem = "writing"
         PROVE  FrameInv' /\ SealInv' /\ TmpOnlyWhileWriting' /\ ToolInv'
      <3>1. status[o] = "pending" /\ status'[o] = "writing"
        BY <1>1, <1>3, <2>4 DEF IInv, FrameInv
      <3>2. \/ o \in ToolOps /\ call'.at = "run"
            \/ o \in WriteOps /\ call'.at = "tmp_open"
        BY <1>1, <2>2, <2>4 DEF AfterSave, Ops
      <3>8. FrameInv' /\ SealInv'
        BY <1>1, <1>2, <1>3, <2>2, <2>4, <3>1, <3>2
           DEF IInv, FrameInv, SealInv, At, Stored, Ops, disk
      <3>9. TmpOnlyWhileWriting' /\ ToolInv'
        BY <1>1, <1>2, <1>3, <2>2, <2>4, <3>1, <3>2
           DEF IInv, TmpOnlyWhileWriting, ToolInv, At, Stored, Ops, disk
      <3> QED BY <3>8, <3>9
    <2>5. ASSUME call.mem = "written"
         PROVE  FrameInv' /\ SealInv' /\ TmpOnlyWhileWriting' /\ ToolInv'
      <3>1. o \in WriteOps /\ tmp[o] = NoFile /\ status'[o] = "written"
        BY <1>1, <1>3, <2>5 DEF IInv, FrameInv
      <3>2. call'.at \in {"verify", "ingest"}
        BY <2>2, <2>5 DEF AfterSave
      <3>8. FrameInv' /\ SealInv'
        BY <1>1, <1>2, <1>3, <2>2, <2>5, <3>1, <3>2
           DEF IInv, FrameInv, SealInv, At, Stored, Ops, disk
      <3>9. TmpOnlyWhileWriting' /\ ToolInv'
        BY <1>1, <1>2, <1>3, <2>2, <2>5, <3>1, <3>2
           DEF IInv, TmpOnlyWhileWriting, ToolInv, At, Stored, Ops, disk
      <3> QED BY <3>8, <3>9
    <2>6. ASSUME call.mem = "approved"
         PROVE  FrameInv' /\ SealInv' /\ TmpOnlyWhileWriting' /\ ToolInv'
      <3>1. call'.at = "delete"
        BY <2>2, <2>6 DEF AfterSave
      <3>2. \/ o \in WriteOps /\ status[o] \in {"written", "ingest_failed"}
            \/ o \in ToolOps /\ status[o] = "writing"
        BY <1>1, <2>6 DEF IInv, FrameInv
      <3>8. FrameInv' /\ SealInv'
        BY <1>1, <1>2, <1>3, <2>2, <2>6, <3>1, <3>2
           DEF IInv, FrameInv, SealInv, At, Stored, Ops, disk
      <3>9. TmpOnlyWhileWriting' /\ ToolInv'
        BY <1>1, <1>2, <1>3, <2>2, <2>6, <3>1, <3>2
           DEF IInv, TmpOnlyWhileWriting, ToolInv, At, Stored, Ops, disk
      <3> QED BY <3>8, <3>9
    <2>7. ASSUME call.mem \in {"rejected", "expired"}
         PROVE  FrameInv' /\ SealInv' /\ TmpOnlyWhileWriting' /\ ToolInv'
      <3>1. call'.at = "discard" /\ status[o] = "pending"
        BY <1>1, <2>2, <2>7 DEF AfterSave, IInv, FrameInv
      <3>8. FrameInv' /\ SealInv'
        BY <1>1, <1>2, <1>3, <2>2, <2>7, <3>1
           DEF IInv, FrameInv, SealInv, At, Stored, Ops, disk
      <3>9. TmpOnlyWhileWriting' /\ ToolInv'
        BY <1>1, <1>2, <1>3, <2>2, <2>7, <3>1
           DEF IInv, TmpOnlyWhileWriting, ToolInv, At, Stored, Ops, disk
      <3> QED BY <3>8, <3>9
    <2>8. FrameInv' /\ SealInv' /\ TmpOnlyWhileWriting' /\ ToolInv'
      BY <1>1, <1>5, <2>4, <2>5, <2>6, <2>7 DEF IInv, FrameInv
    <2>9. BlocksInv'
      BY <1>2, <2>1, <2>2 DEF IInv, BlocksInv, SealedAtMostOnce, At, ledger
    <2> QED BY <2>3, <2>8, <2>9 DEF IInv
  <1> QED
    <2>1. (AfterSave = "idle") <=> (call.mem = "ingest_failed")
      BY DEF AfterSave
    <2> QED BY <1>4, <1>5, <2>1 DEF Save, Return, Goto

LEMMA StepWriteTmp == ASSUME IInv, WriteTmp PROVE IInv'
  <1> DEFINE o == call.op
  <1>1. /\ o \in WriteOps /\ o \in Ops /\ Stored(o) /\ gate = NoOp
        /\ status[o] = "writing" /\ call.at \in {"tmp_open", "tmp_fill"}
    BY DEF WriteTmp, IInv, FrameInv, At, Ops
  <1>2. /\ gate' = gate
        /\ UNCHANGED <<store, file, held, ledger, ran, bounds>>
    BY DEF WriteTmp
  <1>3. PICK c \in {Torn, Proposed[o]} : /\ tmp' = [tmp EXCEPT ![o] = c]
          /\ \/ call' = [call EXCEPT !.at = "tmp_fill"]
             \/ call' = [call EXCEPT !.at = "replace"] /\ c = Proposed[o]
    BY DEF WriteTmp, Goto
  <1>4. /\ call' \in Frames /\ call'.at \in {"tmp_fill", "replace"}
        /\ call'.op = o /\ call'.mem = call.mem /\ call'.seal = call.seal
    BY <1>3, ZenonT(40) DEF IInv, TypeOK, Frames, Labels
  <1>5. TypeOK'
    BY <1>1, <1>2, <1>3, <1>4, ConstantsAssumption
       DEF IInv, TypeOK, store, ledger, bounds, FileContents
  <1>6. call'.at = "replace" => tmp'[o] = Proposed[o]
    BY <1>1, <1>3 DEF IInv, TypeOK, Frames
  <1>7. FrameInv' /\ SealInv'
    BY <1>1, <1>2, <1>4, <1>6 DEF IInv, FrameInv, SealInv, At, Stored, store
  <1>8. TmpOnlyWhileWriting' /\ ToolInv'
    BY <1>1, <1>2, <1>3, <1>4 DEF IInv, TypeOK, TmpOnlyWhileWriting, ToolInv,
       At, Stored, Ops, store
  <1>9. BlocksInv'
    BY <1>2, <1>4 DEF IInv, BlocksInv, SealedAtMostOnce, At, ledger
  <1> QED BY <1>5, <1>7, <1>8, <1>9 DEF IInv

LEMMA StepReplace == ASSUME IInv, Replace PROVE IInv'
  <1> DEFINE o == call.op
  <1>1. /\ o \in WriteOps /\ o \in Ops /\ Stored(o) /\ gate = NoOp
        /\ status[o] = "writing" /\ tmp[o] = Proposed[o]
    BY DEF Replace, IInv, FrameInv, At, Ops
  <1>2. /\ gate' = gate /\ tmp' = [tmp EXCEPT ![o] = NoFile]
        /\ UNCHANGED <<store, ledger, ran, bounds>>
    BY DEF Replace
  <1>3. /\ call' \in Frames /\ call'.at \in {"rehash", "save"}
        /\ call'.op = o /\ call'.mem = "written" /\ tmp'[o] = NoFile
    <2>1. PICK l \in {"rehash", "save"} :
            call' = [call EXCEPT !.at = l, !.mem = "written"]
      BY DEF Replace
    <2> QED BY <1>1, <1>2, <2>1 DEF IInv, TypeOK, Frames, Labels, Status
  <1>4. TypeOK'
    <2>1. Proposed[o] \in Contents /\ Target[o] \in Files
      BY <1>1, ConstantsAssumption
    <2>2. file' \in [Files -> FileContents] /\ held' \in [Files -> SUBSET FileContents]
      BY <1>1, <2>1 DEF Replace, SetFile, IInv, TypeOK, FileContents
    <2> QED
      BY <1>2, <1>3, <2>2 DEF IInv, TypeOK, store, ledger, bounds, FileContents
  <1>5. FrameInv' /\ SealInv'
    BY <1>1, <1>2, <1>3 DEF FrameInv, SealInv, At, Stored, store
  <1>6. TmpOnlyWhileWriting' /\ ToolInv'
    BY <1>1, <1>2, <1>3 DEF IInv, TypeOK, TmpOnlyWhileWriting, ToolInv,
       At, Stored, Ops, store
  <1>7. BlocksInv'
    BY <1>2, <1>3 DEF IInv, BlocksInv, SealedAtMostOnce, At, ledger
  <1> QED BY <1>4, <1>5, <1>6, <1>7 DEF IInv

LEMMA StepRehash == ASSUME IInv, Rehash PROVE IInv'
  <1> DEFINE o == call.op
  <1>1. /\ o \in WriteOps /\ Stored(o) /\ gate = NoOp /\ status[o] = "writing"
        /\ call.mem = "written" /\ tmp[o] = NoFile
    BY DEF Rehash, IInv, FrameInv, At
  <1>2. /\ gate' = gate
        /\ UNCHANGED <<store, disk, ledger, ran, edits, faults>>
    BY DEF Rehash, bounds
  <1>3. faults' \in Nat
    BY <1>2 DEF IInv, TypeOK
  <1>4. CASE call' = Idle
    BY <1>2, <1>3, <1>4, ReturnStep
  <1>5. CASE call' = [call EXCEPT !.at = "save", !.live = Live(o)]
    <2>1. Live(o) \in FileContents
      BY <1>1, ConstantsAssumption DEF Live, IInv, TypeOK
    <2>2. /\ call' \in Frames /\ call'.at = "save" /\ call'.op = o
          /\ call'.mem = "written"
      BY <1>1, <1>5, <2>1 DEF IInv, TypeOK, Frames, Labels
    <2>3. FrameInv' /\ SealInv'
      BY <1>1, <1>2, <2>2 DEF FrameInv, SealInv, At, Stored, Ops, store, disk
    <2> QED BY <1>2, <1>3, <2>2, <2>3, MoveStep
  <1> QED BY <1>4, <1>5 DEF Rehash, Return

\* The frame task_ingest leaves on success: on to the save of "approved".
LEMMA ApprovedFrame ==
  ASSUME TypeOK, Approved
  PROVE  /\ call' \in Frames /\ call'.at = "save" /\ call'.op = call.op
         /\ call'.mem = "approved"
  BY DEF Approved, TypeOK, Frames, Labels, Status, FileContents

LEMMA StepIngestDone == ASSUME IInv, IngestDone PROVE IInv'
  <1>1. /\ call.op \in WriteOps /\ Stored(call.op) /\ gate = NoOp
        /\ status[call.op] \in {"written", "ingest_failed"}
    BY DEF IngestDone, IInv, FrameInv, At
  <1>2. /\ gate' = gate
        /\ UNCHANGED <<store, disk, ledger, ran, edits, faults>>
    BY DEF IngestDone, bounds
  <1>3. faults' \in Nat
    BY <1>2 DEF IInv, TypeOK
  <1>4. /\ call' \in Frames /\ call'.at = "save" /\ call'.op = call.op
        /\ call'.mem = "approved"
    BY ApprovedFrame DEF IngestDone, IInv
  <1>5. FrameInv' /\ SealInv'
    BY <1>1, <1>2, <1>4 DEF FrameInv, SealInv, At, Stored, Ops, store
  <1> QED BY <1>2, <1>3, <1>4, <1>5, MoveStep

LEMMA StepIngestRead == ASSUME IInv, IngestRead PROVE IInv'
  <1> DEFINE o == call.op  c == Live(o)
  <1>1. /\ o \in WriteOps /\ Stored(o) /\ gate = NoOp
        /\ status[o] \in {"written", "ingest_failed"} /\ call.mem = status[o]
    BY DEF IngestRead, IInv, FrameInv, At
  <1>2. /\ gate' = gate /\ blocks[o] = <<>>
        /\ UNCHANGED <<store, disk, ledger, ran, edits, faults>>
    BY DEF IngestRead, bounds
  <1>3. faults' \in Nat
    BY <1>2 DEF IInv, TypeOK
  <1>4. CASE Approved
    <2>1. /\ call' \in Frames /\ call'.at = "save" /\ call'.op = o
          /\ call'.mem = "approved"
      BY <1>4, ApprovedFrame DEF IInv
    <2>2. FrameInv' /\ SealInv'
      BY <1>1, <1>2, <2>1 DEF FrameInv, SealInv, At, Stored, Ops, store
    <2> QED BY <1>2, <1>3, <2>1, <2>2, MoveStep
  <1>5. CASE /\ Chunks[c] # 0
             /\ call' = [call EXCEPT !.at = "chunk", !.text = c, !.todo = Chunks[c]]
    <2>1. c \in Contents /\ Chunks[c] \in Nat \ {0}
      BY <1>1, <1>5 DEF IngestRead, Live, IInv, TypeOK, FileContents
    <2>2. /\ call' \in Frames /\ call'.at = "chunk" /\ call'.op = o
          /\ call'.mem = call.mem /\ call'.text = c /\ call'.todo = Chunks[c]
      BY <1>5, <2>1 DEF IInv, TypeOK, Frames, Labels, FileContents
    <2>3. TypeOK'
      BY <1>2, <1>3, <2>2 DEF IInv, TypeOK, store, disk, ledger
    <2>4. FrameInv' /\ SealInv'
      BY <1>1, <1>2, <2>2 DEF FrameInv, SealInv, At, Stored, Ops, store
    <2>5. TmpOnlyWhileWriting' /\ ToolInv'
      BY <1>1, <1>2, <2>2 DEF IInv, TmpOnlyWhileWriting, ToolInv, At, Stored,
         store, disk
    <2>6. BlocksInv'
      <3>1. SealedAtMostOnce'
        BY <1>2 DEF IInv, BlocksInv, SealedAtMostOnce, ledger
      <3>2. blocks'[o] = <<>> /\ Len(blocks'[o]) = 0 /\ DOMAIN blocks'[o] = {}
        BY <1>2 DEF ledger
      <3> QED BY <2>1, <2>2, <3>1, <3>2 DEF BlocksInv
    <2> QED BY <2>3, <2>4, <2>5, <2>6 DEF IInv
  <1> QED BY <1>4, <1>5 DEF IngestRead

LEMMA AppendFacts ==
  ASSUME NEW S, NEW b \in Seq(S), NEW x \in S
  PROVE  /\ Append(b, x) \in Seq(S) /\ Len(Append(b, x)) = Len(b) + 1
         /\ DOMAIN Append(b, x) = 1 .. (Len(b) + 1) /\ Len(b) \in Nat
         /\ \A i \in 1 .. Len(b) : Append(b, x)[i] = b[i] /\ i \in DOMAIN b
         /\ Append(b, x)[Len(b) + 1] = x
  OBVIOUS

LEMMA StepSealChunk == ASSUME IInv, SealChunk PROVE IInv'
  <1> DEFINE o == call.op  b == blocks[o]
  <1>1. /\ o \in WriteOps /\ o \in Ops /\ Stored(o) /\ gate = NoOp
        /\ status[o] \in {"written", "ingest_failed"} /\ call.mem = status[o]
    BY DEF SealChunk, IInv, FrameInv, At, Ops
  <1>2. /\ gate' = gate /\ blocks' = [blocks EXCEPT ![o] = Append(b, call.text)]
        /\ UNCHANGED <<store, disk, identity, ran, bounds>>
    BY DEF SealChunk
  <1>3. /\ b \in Seq(Contents) /\ call.text \in Contents
        /\ call.todo \in Nat \ {0}
        /\ Len(b) + call.todo = Chunks[call.text]
        /\ \A i \in DOMAIN b : b[i] = call.text
    BY <1>1 DEF SealChunk, IInv, TypeOK, Frames, BlocksInv, At
  <1>4. /\ blocks'[o] = Append(b, call.text)
        /\ \A p \in Ops \ {o} : blocks'[p] = blocks[p]
        /\ blocks' \in [Ops -> Seq(Contents)]
    BY <1>1, <1>2, <1>3 DEF IInv, TypeOK
  <1>5. /\ Len(blocks'[o]) = Len(b) + 1
        /\ \A i \in DOMAIN blocks'[o] : blocks'[o][i] = call.text
        /\ 1 \in DOMAIN blocks'[o]
    <2>1. blocks'[o] = Append(b, call.text)
      BY <1>4
    <2>2. /\ Len(Append(b, call.text)) = Len(b) + 1 /\ Len(b) \in Nat
          /\ DOMAIN Append(b, call.text) = 1 .. (Len(b) + 1)
          /\ \A i \in 1 .. Len(b) : Append(b, call.text)[i] = b[i] /\ i \in DOMAIN b
          /\ Append(b, call.text)[Len(b) + 1] = call.text
      BY <1>3, AppendFacts
    <2> HIDE DEF b
    <2> QED BY <1>3, <2>1, <2>2
  <1>6. SealedAtMostOnce'
    <2> SUFFICES ASSUME NEW p \in WriteOps, blocks'[p] # <<>>
                 PROVE  /\ Len(blocks'[p]) <= Chunks[blocks'[p][1]]
                        /\ \A i \in DOMAIN blocks'[p] : blocks'[p][i] = blocks'[p][1]
      BY DEF SealedAtMostOnce
    <2>1. CASE p = o
      <3>1. blocks'[o][1] = call.text
        BY <1>5
      <3>2. Len(blocks'[o]) <= Chunks[call.text]
        BY <1>3, <1>5
      <3> QED BY <2>1, <3>1, <3>2, <1>5
    <2>2. CASE p # o
      BY <2>2, <1>4, SMTT(30) DEF IInv, BlocksInv, SealedAtMostOnce, Ops
    <2> QED BY <2>1, <2>2
  <1>7. CASE Approved
    <2>1. /\ call' \in Frames /\ call'.at = "save" /\ call'.op = o
          /\ call'.mem = "approved"
      BY <1>7, ApprovedFrame DEF IInv
    <2>2. TypeOK'
      BY <1>2, <1>4, <2>1 DEF IInv, TypeOK, store, disk, bounds
    <2>3. FrameInv' /\ SealInv'
      BY <1>1, <1>2, <2>1 DEF FrameInv, SealInv, At, Stored, store
    <2>4. TmpOnlyWhileWriting' /\ ToolInv'
      BY <1>2, <2>1 DEF IInv, TmpOnlyWhileWriting, ToolInv, At, Stored, store,
         disk
    <2>5. BlocksInv'
      BY <1>6, <2>1 DEF BlocksInv, At
    <2> QED BY <2>2, <2>3, <2>4, <2>5 DEF IInv
  <1>8. ASSUME NEW n, n = call.todo - 1, call.todo # 1,
               call' = [call EXCEPT !.todo = n]
        PROVE  IInv'
    <2>0. n \in Nat /\ n > 0 /\ n + 1 = call.todo
      BY <1>3, <1>8
    <2>1. /\ call' \in Frames /\ call'.at = "chunk" /\ call'.op = o
          /\ call'.mem = call.mem /\ call'.text = call.text
          /\ call'.todo = n /\ call'.seal = call.seal
      BY <1>8, <2>0 DEF SealChunk, At, IInv, TypeOK, Frames
    <2>2. TypeOK'
      BY <1>2, <1>4, <2>1 DEF IInv, TypeOK, store, disk, bounds
    <2>3. FrameInv'
      BY <1>1, <1>2, <2>1 DEF FrameInv, At, Stored, store
    <2>4. SealInv'
      BY <1>1, <2>1 DEF SealInv
    <2>5. TmpOnlyWhileWriting' /\ ToolInv'
      BY <1>2, <2>1 DEF IInv, TmpOnlyWhileWriting, ToolInv, At, Stored, store,
         disk
    <2>6. BlocksInv'
      <3>1. Len(b) \in Nat
        BY <1>3, AppendFacts
      <3>2. Len(blocks'[o]) + n = Chunks[call.text]
        <4>1. /\ Len(blocks'[o]) = Len(b) + 1
              /\ Len(b) + call.todo = Chunks[call.text]
              /\ n \in Nat /\ call.todo = n + 1
          BY <1>3, <1>5, <2>0
        <4> HIDE DEF b, o
        <4> QED BY <3>1, <4>1
      <3> QED BY <1>3, <1>5, <1>6, <2>0, <2>1, <3>2 DEF BlocksInv, At
    <2> QED BY <2>2, <2>3, <2>4, <2>5, <2>6 DEF IInv
  <1> QED BY <1>7, <1>8 DEF SealChunk

LEMMA StepIngestRaises == ASSUME IInv, IngestRaises PROVE IInv'
  <1> DEFINE o == call.op
  <1>1. /\ o \in WriteOps /\ Stored(o) /\ gate = NoOp
        /\ status[o] \in {"written", "ingest_failed"}
    BY DEF IngestRaises, IInv, FrameInv, At
  <1>2. /\ gate' = gate /\ UNCHANGED <<store, disk, ledger, ran, edits>>
    BY DEF IngestRaises
  <1>3. faults' \in Nat
    BY DEF IngestRaises, IInv, TypeOK
  <1>4. CASE call' = Idle
    BY <1>2, <1>3, <1>4, ReturnStep
  <1>5. CASE call' = [call EXCEPT !.at = "save", !.mem = "ingest_failed",
                                  !.text = NoFile, !.todo = 0]
    <2>1. /\ call' \in Frames /\ call'.at = "save" /\ call'.op = o
          /\ call'.mem = "ingest_failed"
      BY <1>5 DEF IInv, TypeOK, Frames, Labels, Status, FileContents
    <2>2. FrameInv' /\ SealInv'
      BY <1>1, <1>2, <2>1 DEF FrameInv, SealInv, At, Stored, Ops, store
    <2> QED BY <1>2, <1>3, <2>1, <2>2, MoveStep
  <1> QED BY <1>4, <1>5 DEF IngestRaises, Return

LEMMA StepDelete == ASSUME IInv, Delete PROVE IInv'
  <1> DEFINE o == call.op
  <1>1. /\ o \in Ops /\ gate = NoOp /\ call.mem = status[o]
        /\ status[o] \in {"approved", "rejected", "expired"}
        /\ call.mem = "expired" => ~call.seal
    BY DEF Delete, IInv, FrameInv, SealInv, At
  <1>2. /\ gate' = gate /\ deleted' = deleted \cup {o}
        /\ UNCHANGED <<status, pre, lapsed, disk, ledger, ran, bounds>>
    BY DEF Delete
  <1>3. /\ call' \in Frames /\ call'.at \in {"seal", "idle"}
        /\ call'.at = "seal" => /\ call'.op = o /\ call'.mem = call.mem
                                /\ call'.seal = TRUE /\ call.seal = TRUE
        /\ call'.at = "idle" => call'.mem = "none"
    <2>1. CASE call' = Idle
      BY <2>1, FrameTypes DEF Idle, Frame
    <2>2. CASE call.seal /\ call' = [call EXCEPT !.at = "seal"]
      BY <2>2 DEF IInv, TypeOK, Frames, Labels
    <2> QED BY <2>1, <2>2 DEF Delete, Return, Goto
  <1>4. TypeOK'
    BY <1>1, <1>2, <1>3 DEF IInv, TypeOK, disk, ledger, bounds
  <1>5. FrameInv' /\ SealInv'
    BY <1>1, <1>2, <1>3 DEF FrameInv, SealInv, At
  <1>6. TmpOnlyWhileWriting' /\ ToolInv'
    BY <1>1, <1>2, <1>3 DEF IInv, TmpOnlyWhileWriting, ToolInv, At, Stored, disk
  <1>7. BlocksInv'
    BY <1>2, <1>3 DEF IInv, BlocksInv, SealedAtMostOnce, At, ledger
  <1> QED BY <1>4, <1>5, <1>6, <1>7 DEF IInv

LEMMA StepRunTool == ASSUME IInv, RunTool PROVE IInv'
  <1> DEFINE o == call.op
  <1>1. /\ o \in ToolOps /\ o \in Ops /\ Stored(o) /\ gate = NoOp
        /\ status[o] = "writing" /\ ran[o] = 0
    BY DEF RunTool, IInv, FrameInv, ToolInv, At, Ops
  <1>2. /\ gate' = gate /\ ran' = [ran EXCEPT ![o] = @ + 1]
        /\ UNCHANGED <<store, disk, ledger, bounds>>
    BY DEF RunTool
  <1>3. /\ call' \in Frames /\ call'.at = "save" /\ call'.op = o
        /\ call'.mem = "approved"
    BY DEF RunTool, IInv, TypeOK, Frames, Labels, Status
  <1>4. ran' \in [Ops -> Nat] /\ ran'[o] = 1 /\ \A p \in Ops \ {o} : ran'[p] = ran[p]
    BY <1>1, <1>2 DEF IInv, TypeOK
  <1>5. TypeOK'
    BY <1>2, <1>3, <1>4 DEF IInv, TypeOK, store, disk, ledger, bounds
  <1>6. FrameInv' /\ SealInv'
    BY <1>1, <1>2, <1>3 DEF FrameInv, SealInv, At, Stored, store
  <1>7. TmpOnlyWhileWriting' /\ ToolInv'
    BY <1>1, <1>2, <1>3, <1>4 DEF IInv, TmpOnlyWhileWriting, ToolInv, At,
       Stored, Ops, store, disk
  <1>8. BlocksInv'
    BY <1>2, <1>3 DEF IInv, BlocksInv, SealedAtMostOnce, At, ledger
  <1> QED BY <1>5, <1>6, <1>7, <1>8 DEF IInv

LEMMA StepCreate ==
  ASSUME IInv, NEW o \in Ops, CreateWrite(o) \/ CreateToolCall(o)
  PROVE  IInv'
  <1>1. /\ At("idle") /\ status[o] = "none" /\ gate' \in {o, NoOp}
        /\ status' = [status EXCEPT ![o] = "pending"]
        /\ UNCHANGED <<deleted, lapsed, disk, ledger, call, ran, bounds>>
    BY DEF CreateWrite, CreateToolCall, Create
  <1>2. pre' \in [Ops -> FileContents]
    <2>1. CASE CreateWrite(o)
      BY <2>1 DEF CreateWrite, Live, IInv, TypeOK
    <2>2. CASE CreateToolCall(o)
      BY <2>2 DEF CreateToolCall, IInv, TypeOK
    <2> QED BY <2>1, <2>2
  <1>3. status'[o] = "pending" /\ \A p \in Ops \ {o} : status'[p] = status[p]
    BY <1>1 DEF IInv, TypeOK
  <1>5. TypeOK'
    BY <1>1, <1>2 DEF IInv, TypeOK, Status, disk, ledger, bounds
  <1>6. FrameInv' /\ SealInv'
    BY <1>1, <1>3 DEF IInv, FrameInv, SealInv, At, Stored
  <1>7. TmpOnlyWhileWriting' /\ ToolInv'
    BY <1>1, <1>3 DEF IInv, TmpOnlyWhileWriting, ToolInv, At, Stored, Ops, disk
  <1>8. BlocksInv'
    BY <1>1 DEF IInv, BlocksInv, SealedAtMostOnce, At, ledger
  <1> QED BY <1>5, <1>6, <1>7, <1>8 DEF IInv

LEMMA StepApprove ==
  ASSUME IInv, NEW o \in Ops, NEW seal \in BOOLEAN, Approve(o, seal)
  PROVE  IInv'
  <1>1. /\ Stored(o) /\ gate' = NoOp
        /\ UNCHANGED <<store, disk, ledger, ran, bounds>>
    BY DEF Approve, Begin
  <1>2. /\ call' \in Frames /\ call'.at = "dispatch" /\ call'.op = o
        /\ call'.mem = status[o]
    <2>1. PICK l \in FileContents :
            call' = [Frame("dispatch", o, status[o], seal) EXCEPT !.live = l]
      BY DEF Approve, Live, FileContents, IInv, TypeOK
    <2>2. status[o] \in Status
      BY DEF IInv, TypeOK
    <2> QED BY <2>1, <2>2 DEF Frame, Frames, Labels, FileContents
  <1>3. TypeOK'
    BY <1>1, <1>2 DEF IInv, TypeOK, store, disk, ledger, bounds
  <1>4. FrameInv' /\ SealInv'
    BY <1>1, <1>2 DEF FrameInv, SealInv, At, Stored, store
  <1>5. TmpOnlyWhileWriting' /\ ToolInv'
    BY <1>1, <1>2 DEF IInv, TmpOnlyWhileWriting, ToolInv, At, Stored, store, disk
  <1>6. BlocksInv'
    BY <1>1, <1>2 DEF IInv, BlocksInv, SealedAtMostOnce, At, ledger
  <1> QED BY <1>3, <1>4, <1>5, <1>6 DEF IInv

\* The decisions that discard an operation: rejection and the gate's timeout.
LEMMA StepDiscard ==
  ASSUME IInv, NEW o \in Ops, NEW seal \in BOOLEAN,
         Reject(o, seal) \/ ExpireInline(o)
  PROVE  IInv'
  <1>1. /\ Stored(o) /\ gate' = NoOp /\ status[o] = "pending"
        /\ UNCHANGED <<store, disk, ledger, ran, bounds>>
    BY DEF Reject, ExpireInline, Begin, IInv, FrameInv
  <1>2. /\ call' \in Frames /\ call'.at = "save" /\ call'.op = o
        /\ call'.mem \in {"rejected", "expired"}
        /\ call'.mem = "expired" => ~call'.seal
    <2>1. CASE call' = Frame("save", o, "rejected", seal)
      BY <2>1, FrameTypes DEF Frame, Status
    <2>2. CASE call' = Frame("save", o, "expired", FALSE)
      BY <2>2, FrameTypes DEF Frame, Status
    <2> QED BY <2>1, <2>2 DEF Reject, ExpireInline
  <1>3. TypeOK'
    BY <1>1, <1>2 DEF IInv, TypeOK, store, disk, ledger, bounds
  <1>4. FrameInv' /\ SealInv'
    BY <1>1, <1>2 DEF FrameInv, SealInv, At, Stored, store
  <1>5. TmpOnlyWhileWriting' /\ ToolInv'
    BY <1>1, <1>2 DEF IInv, TmpOnlyWhileWriting, ToolInv, At, Stored, store, disk
  <1>6. BlocksInv'
    BY <1>1, <1>2 DEF IInv, BlocksInv, SealedAtMostOnce, At, ledger
  <1> QED BY <1>3, <1>4, <1>5, <1>6 DEF IInv

-----------------------------------------------------------------------------
(* The invariant.                                                           *)

LEMMA InvInit == Init => IInv
  <1> SUFFICES ASSUME Init PROVE IInv
    OBVIOUS
  <1> USE DEF Init, Idle, Frame, At
  <1>1. TypeOK
    BY FrameTypes DEF TypeOK, FileContents, Status
  <1>2. FrameInv /\ SealInv /\ TmpOnlyWhileWriting
    BY DEF FrameInv, SealInv, TmpOnlyWhileWriting, Ops
  <1>3. BlocksInv /\ ToolInv
    BY DEF BlocksInv, SealedAtMostOnce, ToolInv, Ops
  <1> QED BY <1>1, <1>2, <1>3 DEF IInv

LEMMA InvStep == IInv /\ [Next]_vars => IInv'
  <1> SUFFICES ASSUME IInv, [Next]_vars PROVE IInv'
    OBVIOUS
  <1> USE DEF store, disk, ledger, bounds, vars, Frame, Idle, Down, At,
              Goto, Return, Live, Stored, FileContents, Frames, Labels, Status
  <1>1. ASSUME AlreadyProcessed PROVE IInv'
    BY <1>1, ReturnStep DEF AlreadyProcessed, IInv, TypeOK
  <1>2. ASSUME RecoverReplaced PROVE IInv'
    BY <1>2, ZenonT(40) DEF RecoverReplaced, Dispatching, OnDisk, IInv, TypeOK, FrameInv,
           SealInv, TmpOnlyWhileWriting, BlocksInv, SealedAtMostOnce, ToolInv, Ops
  <1>3. ASSUME Discard PROVE IInv'
    BY <1>3, ZenonT(40) DEF Discard, IInv, TypeOK, FrameInv,
           SealInv, TmpOnlyWhileWriting, BlocksInv, SealedAtMostOnce, ToolInv, Ops
  <1>4. ASSUME SealResolution PROVE IInv'
    BY <1>4 DEF SealResolution, IInv, TypeOK, FrameInv,
           SealInv, TmpOnlyWhileWriting, BlocksInv, SealedAtMostOnce, ToolInv, Ops
  <1>5. ASSUME Restart PROVE IInv'
    BY <1>5 DEF Restart, IInv, TypeOK, FrameInv,
           SealInv, TmpOnlyWhileWriting, BlocksInv, SealedAtMostOnce, ToolInv, Ops
  <1>6. ASSUME SweepEnd PROVE IInv'
    BY <1>6, ReturnStep DEF SweepEnd, IInv, TypeOK
  <1>7. ASSUME Raise PROVE IInv'
    BY <1>7, ReturnStep DEF Raise, Fault, IInv, TypeOK, FrameInv
  <1>8. ASSUME SealFails PROVE IInv'
    BY <1>8, ReturnStep DEF SealFails, Fault, IInv, TypeOK, FrameInv
  <1>9. ASSUME Crash PROVE IInv'
    BY <1>9 DEF Crash, Fault, IInv, TypeOK, FrameInv,
           SealInv, TmpOnlyWhileWriting, BlocksInv, SealedAtMostOnce, ToolInv, Ops
  <1>10. ASSUME NEW o \in Ops, SweepOne(o) PROVE IInv'
    BY <1>10 DEF SweepOne, Sweepable, IInv, TypeOK, FrameInv,
           SealInv, TmpOnlyWhileWriting, BlocksInv, SealedAtMostOnce, ToolInv, Ops
  <1>11. ASSUME NEW o \in Ops, Lapse(o) PROVE IInv'
    BY <1>11 DEF Lapse, IInv, TypeOK, FrameInv,
           SealInv, TmpOnlyWhileWriting, BlocksInv, SealedAtMostOnce, ToolInv, Ops
  <1>12. ASSUME NEW f \in Files, Edit(f) PROVE IInv'
    BY <1>12 DEF Edit, SetFile, IInv, TypeOK, FrameInv,
           SealInv, TmpOnlyWhileWriting, BlocksInv, SealedAtMostOnce, ToolInv, Ops
  <1>13. CASE UNCHANGED vars
    BY <1>13 DEF IInv, TypeOK, FrameInv,
           SealInv, TmpOnlyWhileWriting, BlocksInv, SealedAtMostOnce, ToolInv, Ops
  <1> QED
    BY <1>1, <1>2, <1>3, <1>4, <1>5, <1>6, <1>7, <1>8, <1>9, <1>10, <1>11, <1>12, <1>13,
       StepRetryIngest, StepRecoverTmp, StepRecoverNothing, StepStartPending,
       StepSave, StepWriteTmp, StepReplace, StepRehash, StepIngestDone,
       StepIngestRead, StepSealChunk, StepIngestRaises, StepDelete,
       StepRunTool, StepCreate, StepApprove, StepDiscard
       DEF Next, Request, Step, Environment

LEMMA InvAlways == Spec => []IInv
  BY InvInit, InvStep, PTL DEF Spec

\* Every variable keeps its type; a target never holds a torn temp file.
THEOREM TypeCorrect == Spec => []TypeOK
  BY InvAlways, PTL DEF IInv

\* No expiry, rejection, sweep or completed write leaves a temp file behind.
THEOREM NoTmpLeak == Spec => []TmpOnlyWhileWriting
  BY InvAlways, PTL DEF IInv

\* No retry seals an operation's text twice.
THEOREM NoDoubleSeal == Spec => []SealedAtMostOnce
  <1>1. IInv => SealedAtMostOnce
    BY DEF IInv, BlocksInv
  <1> QED BY <1>1, InvAlways, PTL

\* A deferred tool call runs at most once, whatever crashes.
THEOREM ToolSingleShot == Spec => []ToolRunsAtMostOnce
  <1>1. IInv => ToolRunsAtMostOnce
    BY DEF IInv, ToolInv, ToolRunsAtMostOnce
  <1> QED BY <1>1, InvAlways, PTL
-----------------------------------------------------------------------------
(* What is recorded is true, and the abstract gate.                         *)

\* What took effect stays in effect: a file's history holds what the file holds,
\* and a status beyond "writing" (for a tool call: "approved") is backed by an
\* effect, which the running call has seen before it saves that status.
EffectInv ==
    LET o == call.op IN
    /\ \A f \in Files : file[f] \in held[f]
    /\ \A w \in WriteOps :
         status[w] \in {"written", "ingest_failed", "approved"} => Effected(w)
    /\ \A t \in ToolOps : status[t] = "approved" => ran[t] > 0
    /\ At("dispatch") /\ o \in WriteOps => call.live \in held[Target[o]]
    /\ At("rehash") => Effected(o)
    /\ At("save") /\ call.mem \in {"written", "approved"} => Effected(o)

\* An attempt that can still be backed out of, or was refused, left no provenance
\* and ran nothing; an approved text with chunks left some.
ProvenanceInv ==
    LET o == call.op IN
    /\ \A p \in Ops : status[p] \notin {"written", "ingest_failed", "approved", "expired"}
                        => blocks[p] = <<>>
    /\ \A p \in Ops : p \notin Tasked => blocks[p] = <<>>
    /\ \A w \in WriteOps : ran[w] = 0
    /\ \A t \in ToolOps : status[t] = "rejected" => ran[t] = 0
    /\ At("chunk") => o \in Tasked
    /\ At("save") /\ call.mem = "approved" /\ o \in Tasked =>
         blocks[o] # <<>> \/ \E c \in Contents : Chunks[c] = 0

\* An operation is deleted before it is recorded, and nothing is left to do for
\* it afterwards.
LedgerInv ==
    LET o == call.op IN
    /\ ResolutionTruthful
    /\ \A p \in deleted : status[p] # "none"
    /\ call.at \in {"discard", "delete"} => o \notin deleted
    /\ At("seal") => /\ o \in deleted /\ status[o] = call.mem
                     /\ \A i \in DOMAIN identity : identity[i].op # o

TruthInv == EffectInv /\ ProvenanceInv /\ LedgerInv

\* A step of a call that changes nothing the invariant is about, and goes on to a
\* save of what is already in effect, or returns.
LEMMA QuietStep ==
  ASSUME IInv, TruthInv, UNCHANGED <<store, file, held, ledger, ran>>,
         \/ call' = Idle
         \/ /\ call'.op = call.op
            /\ call'.at \notin {"dispatch", "rehash", "discard", "delete", "seal"}
            /\ call'.at = "chunk" => call.op \in Tasked
            /\ call'.at = "save" /\ call'.mem \in {"written", "approved"} =>
                 Effected(call.op)
            /\ call'.at = "save" /\ call'.mem = "approved" /\ call.op \in Tasked =>
                 blocks[call.op] # <<>> \/ \E c \in Contents : Chunks[c] = 0
  PROVE  TruthInv'
  <1> USE DEF store, ledger, Idle, Frame, At, TruthInv
  <1>1. EffectInv'
    BY DEF EffectInv, Effected
  <1>2. ProvenanceInv'
    BY DEF ProvenanceInv
  <1>3. LedgerInv'
    BY DEF LedgerInv, ResolutionTruthful, Effected
  <1> QED BY <1>1, <1>2, <1>3

\* Every resolution record names an operation and one of the two outcomes.
LEMMA RecordedOp ==
  ASSUME TypeOK
  PROVE  /\ DOMAIN identity = 1 .. Len(identity) /\ Len(identity) \in Nat
         /\ \A i \in DOMAIN identity : /\ identity[i].op \in Ops
                                       /\ identity[i].event \in {"approved", "rejected"}
  <1> DEFINE R == [op : Ops, event : {"approved", "rejected"}]
  <1>1. identity \in Seq(R)
    BY DEF TypeOK
  <1>2. \A i \in DOMAIN identity : identity[i] \in R
    <2> HIDE DEF R
    <2> QED BY <1>1
  <1> QED BY <1>1, <1>2

LEMMA TruthRetryIngest == ASSUME IInv, TruthInv, RetryIngest PROVE TruthInv'
  <1>1. CASE call' = Idle
    BY <1>1, QuietStep DEF RetryIngest, disk
  <1>2. CASE call' = [call EXCEPT !.at = "ingest", !.rec = TRUE]
    <2>1. call'.at = "ingest" /\ call'.op = call.op
      BY <1>2 DEF IInv, TypeOK, Frames
    <2> QED BY <2>1, QuietStep DEF RetryIngest, disk
  <1> QED BY <1>1, <1>2 DEF RetryIngest, Return

LEMMA TruthRecoverTmp == ASSUME IInv, TruthInv, RecoverTmp PROVE TruthInv'
  <1>1. CASE call' = Idle
    BY <1>1, QuietStep DEF RecoverTmp
  <1>2. CASE call' = [call EXCEPT !.at = "replace", !.rec = TRUE]
    <2>1. call'.at = "replace" /\ call'.op = call.op
      BY <1>2 DEF IInv, TypeOK, Frames
    <2> QED BY <2>1, QuietStep DEF RecoverTmp
  <1> QED BY <1>1, <1>2 DEF RecoverTmp, Return

LEMMA TruthStartPending == ASSUME IInv, TruthInv, StartPending PROVE TruthInv'
  <1>1. CASE call' = Idle
    BY <1>1, QuietStep DEF StartPending, disk
  <1>2. ASSUME NEW m \in {"expired", "writing"},
               \/ call' = [call EXCEPT !.at = "save", !.mem = m, !.seal = FALSE]
               \/ call' = [call EXCEPT !.at = "save", !.mem = m, !.rec = FALSE]
        PROVE  TruthInv'
    <2>1. call'.at = "save" /\ call'.op = call.op /\ call'.mem \notin {"written", "approved"}
      BY <1>2 DEF IInv, TypeOK, Frames
    <2> QED BY <2>1, QuietStep DEF StartPending, disk
  <1> QED BY <1>1, <1>2 DEF StartPending, Return

LEMMA TruthRehash == ASSUME IInv, TruthInv, Rehash PROVE TruthInv'
  <1>1. CASE call' = Idle
    BY <1>1, QuietStep DEF Rehash, disk
  <1>2. CASE call' = [call EXCEPT !.at = "save", !.live = Live(call.op)]
    <2>1. call'.at = "save" /\ call'.op = call.op /\ call'.mem = "written"
      BY <1>2 DEF Rehash, At, IInv, TypeOK, FrameInv, Frames
    <2>2. Effected(call.op)
      BY DEF Rehash, TruthInv, EffectInv
    <2> QED BY <2>1, <2>2, QuietStep DEF Rehash, disk
  <1> QED BY <1>1, <1>2 DEF Rehash, Return

\* The three ways an ingest is over or begins to seal.
LEMMA TruthIngest ==
  ASSUME IInv, TruthInv, IngestDone \/ IngestRead PROVE TruthInv'
  <1>1. /\ UNCHANGED <<store, disk, ledger, ran>>
        /\ call.op \in WriteOps /\ status[call.op] \in {"written", "ingest_failed"}
    BY DEF IngestDone, IngestRead, IInv, FrameInv, At
  <1>2. Effected(call.op)
    BY <1>1 DEF TruthInv, EffectInv
  <1>3. ASSUME Approved, call.op \in Tasked =>
                           blocks[call.op] # <<>> \/ \E c \in Contents : Chunks[c] = 0
        PROVE  TruthInv'
    <2>1. call'.at = "save" /\ call'.op = call.op
      BY <1>3, ApprovedFrame DEF IInv
    <2> QED BY <1>1, <1>2, <1>3, <2>1, QuietStep DEF disk
  <1>4. CASE IngestDone
    BY <1>3, <1>4 DEF IngestDone
  <1>5. CASE IngestRead
    <2> DEFINE c == Live(call.op)
    <2>1. call.op \in Tasked /\ c \in Contents
      BY <1>1, <1>5 DEF IngestRead, Live, IInv, TypeOK, FileContents
    <2>2. CASE Chunks[c] = 0 /\ Approved
      BY <1>3, <2>1, <2>2
    <2>3. CASE call' = [call EXCEPT !.at = "chunk", !.text = c, !.todo = Chunks[c]]
      <3>1. call'.at = "chunk" /\ call'.op = call.op
        BY <2>3 DEF IInv, TypeOK, Frames
      <3> QED BY <1>1, <2>1, <3>1, QuietStep DEF disk
    <2> QED BY <1>5, <2>2, <2>3 DEF IngestRead
  <1> QED BY <1>4, <1>5

LEMMA TruthIngestRaises == ASSUME IInv, TruthInv, IngestRaises PROVE TruthInv'
  <1>1. CASE call' = Idle
    BY <1>1, QuietStep DEF IngestRaises, disk
  <1>2. CASE call' = [call EXCEPT !.at = "save", !.mem = "ingest_failed",
                                  !.text = NoFile, !.todo = 0]
    <2>1. call'.at = "save" /\ call'.op = call.op /\ call'.mem = "ingest_failed"
      BY <1>2 DEF IInv, TypeOK, Frames
    <2> QED BY <2>1, QuietStep DEF IngestRaises, disk
  <1> QED BY <1>1, <1>2 DEF IngestRaises, Return

\* Nothing was recorded of an attempt that is backed out of.
LEMMA TruthRecoverNothing == ASSUME IInv, TruthInv, RecoverNothing PROVE TruthInv'
  <1> DEFINE o == call.op
  <1>1. CASE call' = Idle /\ UNCHANGED status
    BY <1>1, QuietStep DEF RecoverNothing, store, disk
  <1>2. CASE /\ status' = [status EXCEPT ![o] = "pending"]
             /\ call' = [call EXCEPT !.mem = "pending"]
    <2>1. /\ o \in WriteOps /\ Stored(o) /\ At("dispatch")
          /\ status[o] = "writing"
          /\ UNCHANGED <<deleted, pre, lapsed, disk, ledger, ran>>
      BY DEF RecoverNothing, Dispatching, IInv, FrameInv, At
    <2>2. /\ call'.at = "dispatch" /\ call'.op = o /\ call'.live = call.live
          /\ o \in Ops /\ status'[o] = "pending"
          /\ \A p \in Ops \ {o} : status'[p] = status[p]
      BY <1>2, <2>1 DEF IInv, TypeOK, Frames, At, Ops
    <2>3. EffectInv'
      BY <2>1, <2>2 DEF TruthInv, EffectInv, Effected, At, Ops, disk
    <2>4. ProvenanceInv'
      BY <2>1, <2>2, ConstantsAssumption DEF TruthInv, ProvenanceInv, At, Ops, ledger
    <2>5. LedgerInv'
      BY <2>1, <2>2, SMTT(30) DEF IInv, TypeOK, TruthInv, LedgerInv, ResolutionTruthful, Effected,
         At, Stored, ledger, disk
    <2> QED BY <2>3, <2>4, <2>5 DEF TruthInv
  <1> QED BY <1>1, <1>2 DEF RecoverNothing, Return

\* A chunk is sealed for an operation that is written but not deleted.
LEMMA TruthSealChunk == ASSUME IInv, TruthInv, SealChunk PROVE TruthInv'
  <1> DEFINE o == call.op
  <1>1. /\ o \in WriteOps /\ o \in Ops /\ Stored(o) /\ o \in Tasked
        /\ status[o] \in {"written", "ingest_failed"}
        /\ blocks[o] \in Seq(Contents) /\ call.text \in Contents
    BY DEF SealChunk, IInv, TypeOK, FrameInv, BlocksInv, TruthInv, ProvenanceInv, At, Ops
  <1>2. UNCHANGED <<store, disk, identity, ran>>
    BY DEF SealChunk
  <1>3. /\ blocks'[o] # <<>>
        /\ \A p \in Ops \ {o} : blocks'[p] = blocks[p]
    <2>1. blocks' = [blocks EXCEPT ![o] = Append(blocks[o], call.text)]
      BY DEF SealChunk
    <2>2. Append(blocks[o], call.text) # <<>>
      BY <1>1
    <2> QED BY <1>1, <2>1, <2>2 DEF IInv, TypeOK
  <1>4. /\ call'.op = o
        /\ \/ call'.at = "save" /\ call'.mem = "approved"
           \/ call'.at = "chunk"
    <2>1. CASE Approved
      BY <2>1, ApprovedFrame DEF IInv
    <2>2. CASE call' = [call EXCEPT !.todo = @ - 1]
      BY <2>2 DEF SealChunk, At, IInv, TypeOK, Frames
    <2> QED BY <2>1, <2>2 DEF SealChunk
  <1>5. EffectInv'
    BY <1>1, <1>2, <1>4 DEF TruthInv, EffectInv, Effected, At, store, disk
  <1>6. ProvenanceInv'
    BY <1>1, <1>2, <1>3, <1>4 DEF TruthInv, ProvenanceInv, At, store
  <1>7. LedgerInv'
    BY <1>1, <1>2, <1>3, <1>4 DEF IInv, TypeOK, TruthInv, LedgerInv, ResolutionTruthful,
       Effected, At, Stored, store, disk
  <1> QED BY <1>5, <1>6, <1>7 DEF TruthInv

LEMMA TruthDelete == ASSUME IInv, TruthInv, Delete PROVE TruthInv'
  <1> DEFINE o == call.op
  <1>1. /\ At("delete") /\ o \in Ops /\ o \notin deleted /\ call.mem = status[o]
        /\ status[o] # "none"
        /\ deleted' = deleted \cup {o}
        /\ UNCHANGED <<status, disk, ledger, ran>>
    BY DEF Delete, IInv, FrameInv, TruthInv, LedgerInv, At
  <1>2. \/ call'.at = "idle"
        \/ call'.at = "seal" /\ call'.op = o /\ call'.mem = call.mem
    <2>1. CASE call' = Idle
      BY <2>1 DEF Idle, Frame
    <2>2. CASE call' = [call EXCEPT !.at = "seal"]
      BY <2>2 DEF IInv, TypeOK, Frames
    <2> QED BY <2>1, <2>2 DEF Delete, Return, Goto
  <1>3. EffectInv' /\ ProvenanceInv'
    BY <1>1, <1>2 DEF TruthInv, EffectInv, ProvenanceInv, Effected, At, disk, ledger
  <1>4. LedgerInv'
    BY <1>1, <1>2 DEF TruthInv, LedgerInv, ResolutionTruthful, Effected, At, disk, ledger
  <1> QED BY <1>3, <1>4 DEF TruthInv

\* The record that is appended says what the operation's status says.
LEMMA TruthSealResolution == ASSUME IInv, TruthInv, SealResolution PROVE TruthInv'
  <1> DEFINE r == [op |-> call.op, event |-> call.mem]
  <1>1. /\ At("seal") /\ call.op \in Ops /\ call.mem \in {"approved", "rejected"}
        /\ call.op \in deleted /\ status[call.op] = call.mem
        /\ \A i \in DOMAIN identity : identity[i].op # call.op
    BY DEF SealResolution, IInv, FrameInv, TruthInv, LedgerInv, At
  <1>2. /\ call' = Idle /\ identity' = Append(identity, r)
        /\ UNCHANGED <<store, disk, blocks, ran>>
    BY DEF SealResolution, Return
  <1>3. /\ r.event = "approved" => Effected(r.op)
        /\ r.event = "rejected" => blocks[r.op] = <<>> /\ ran[r.op] = 0
    BY <1>1 DEF TruthInv, EffectInv, ProvenanceInv, Effected, Ops
  <1>4. EffectInv' /\ ProvenanceInv'
    BY <1>2 DEF TruthInv, EffectInv, ProvenanceInv, Effected, At, Idle, Frame, store, disk
  <1>5. ResolutionTruthful'
    <2>1. /\ DOMAIN identity' = 1 .. (Len(identity) + 1) /\ Len(identity) \in Nat
          /\ \A i \in 1 .. Len(identity) : identity'[i] = identity[i] /\ i \in DOMAIN identity
          /\ identity'[Len(identity) + 1] = r
      BY <1>1, <1>2, AppendFacts DEF IInv, TypeOK
    <2>2. \A o \in Ops : Effected(o)' = Effected(o)
      BY <1>2 DEF Effected, disk
    <2>3. DOMAIN identity' = DOMAIN identity \cup {Len(identity) + 1}
      BY <2>1, RecordedOp DEF IInv
    <2>4. ASSUME NEW i \in DOMAIN identity', NEW q, q = identity'[i]
          PROVE  /\ status'[q.op] = q.event /\ q.op \in deleted'
                 /\ q.event = "approved" => Effected(q.op)'
                 /\ q.event = "rejected" => blocks'[q.op] = <<>> /\ ran'[q.op] = 0
      <3>1. CASE i = Len(identity) + 1
        <4>1. q.op = call.op /\ q.event = call.mem
          BY <2>1, <2>4, <3>1
        <4> QED BY <1>1, <1>2, <1>3, <2>2, <4>1 DEF store
      <3>2. CASE i \in DOMAIN identity
        <4>1. q = identity[i] /\ q.op \in Ops
          BY <2>1, <2>4, <3>2, RecordedOp DEF IInv
        <4>2. /\ status[q.op] = q.event /\ q.op \in deleted
              /\ q.event = "approved" => Effected(q.op)
              /\ q.event = "rejected" => blocks[q.op] = <<>> /\ ran[q.op] = 0
          BY <3>2, <4>1 DEF TruthInv, LedgerInv, ResolutionTruthful
        <4> QED BY <1>2, <2>2, <4>1, <4>2 DEF store
      <3> QED BY <2>3, <2>4, <3>1, <3>2
    <2>5. ASSUME NEW i \in DOMAIN identity', NEW j \in DOMAIN identity',
                 identity'[i].op = identity'[j].op
          PROVE  i = j
      <3>1. identity'[Len(identity) + 1].op = call.op
        BY <2>1
      <3>2. \A k \in DOMAIN identity : identity'[k].op # call.op
        BY <1>1, <2>1, RecordedOp DEF IInv
      <3>3. i \in DOMAIN identity /\ j \in DOMAIN identity => i = j
        BY <2>1, <2>5, RecordedOp DEF IInv, TruthInv, LedgerInv, ResolutionTruthful
      <3> QED BY <2>3, <2>5, <3>1, <3>2, <3>3
    <2> QED BY <2>4, <2>5 DEF ResolutionTruthful, Effected
  <1>6. LedgerInv'
    BY <1>2, <1>5 DEF TruthInv, LedgerInv, At, Idle, Frame, store
  <1> QED BY <1>4, <1>6 DEF TruthInv

LEMMA TruthCreate ==
  ASSUME IInv, TruthInv, NEW o \in Ops, CreateWrite(o) \/ CreateToolCall(o)
  PROVE  TruthInv'
  <1>1. /\ At("idle") /\ status[o] = "none"
        /\ status' = [status EXCEPT ![o] = "pending"]
        /\ UNCHANGED <<deleted, disk, ledger, call, ran>>
    BY DEF CreateWrite, CreateToolCall, Create
  <1>2. status'[o] = "pending" /\ \A p \in Ops \ {o} : status'[p] = status[p]
    BY <1>1 DEF IInv, TypeOK
  <1>3. EffectInv' /\ ProvenanceInv'
    BY <1>1, <1>2 DEF TruthInv, EffectInv, ProvenanceInv, Effected, At, disk, ledger, Ops
  <1>4. ASSUME NEW i \in DOMAIN identity
        PROVE  identity[i].op \in Ops \ {o}
    <2>1. identity[i].op \in Ops
      BY RecordedOp DEF IInv
    <2>2. status[identity[i].op] \in {"approved", "rejected"}
      BY RecordedOp DEF IInv, TruthInv, LedgerInv, ResolutionTruthful
    <2> QED BY <1>1, <2>1, <2>2
  <1>5. LedgerInv'
    BY <1>1, <1>2, <1>4 DEF TruthInv, LedgerInv, ResolutionTruthful, Effected, At, disk, ledger
  <1> QED BY <1>3, <1>5 DEF TruthInv

LEMMA TruthInit == Init => TruthInv
  BY ConstantsAssumption DEF Init, TruthInv, EffectInv, ProvenanceInv, LedgerInv, ResolutionTruthful,
     Effected, Idle, Frame, At, Ops

LEMMA TruthStep == ASSUME IInv, TruthInv, [Next]_vars PROVE TruthInv'
  <1> USE DEF store, disk, ledger, bounds, vars, Frame, Idle, Down, At,
              Goto, Return, Live, Stored, TruthInv, EffectInv, ProvenanceInv,
              LedgerInv, ResolutionTruthful, Effected, IInv, TypeOK, FrameInv, Frames, Ops
  <1>1. ASSUME AlreadyProcessed PROVE TruthInv'
    BY <1>1 DEF AlreadyProcessed
  <1>2. ASSUME RecoverReplaced PROVE TruthInv'
    BY <1>2 DEF RecoverReplaced, Dispatching, OnDisk
  <1>3. ASSUME Save PROVE TruthInv'
    BY <1>3, SMTT(30) DEF Save, AfterSave, SealInv, ToolInv
  <1>4. ASSUME WriteTmp PROVE TruthInv'
    BY <1>4 DEF WriteTmp
  <1>5. ASSUME Replace PROVE TruthInv'
    BY <1>5 DEF Replace, SetFile
  <1>6. ASSUME Discard PROVE TruthInv'
    BY <1>6 DEF Discard
  <1>7. ASSUME RunTool PROVE TruthInv'
    BY <1>7 DEF RunTool, ToolInv
  <1>8. ASSUME Restart PROVE TruthInv'
    BY <1>8 DEF Restart
  <1>9. ASSUME SweepEnd PROVE TruthInv'
    BY <1>9 DEF SweepEnd
  <1>10. ASSUME Raise PROVE TruthInv'
    BY <1>10 DEF Raise, Fault
  <1>11. ASSUME SealFails PROVE TruthInv'
    BY <1>11 DEF SealFails, Fault
  <1>12. ASSUME Crash PROVE TruthInv'
    BY <1>12 DEF Crash, Fault
  <1>13. ASSUME NEW o \in Ops, SweepOne(o) PROVE TruthInv'
    BY <1>13 DEF SweepOne, Sweepable
  <1>14. ASSUME NEW o \in Ops, Lapse(o) PROVE TruthInv'
    BY <1>14 DEF Lapse
  <1>15. ASSUME NEW o \in Ops, ExpireInline(o) PROVE TruthInv'
    BY <1>15 DEF ExpireInline, Begin
  <1>16. ASSUME NEW o \in Ops, NEW seal \in BOOLEAN, Approve(o, seal) PROVE TruthInv'
    BY <1>16 DEF Approve, Begin
  <1>17. ASSUME NEW o \in Ops, NEW seal \in BOOLEAN, Reject(o, seal) PROVE TruthInv'
    BY <1>17 DEF Reject, Begin
  <1>18. ASSUME NEW o \in Files, Edit(o) PROVE TruthInv'
    BY <1>18 DEF Edit, SetFile
  <1>19. CASE UNCHANGED vars
    BY <1>19
  <1> HIDE DEF TruthInv, EffectInv, ProvenanceInv, LedgerInv, ResolutionTruthful, Effected,
              IInv, TypeOK, FrameInv, Frames, Frame, At, Stored, vars, store, disk, ledger, bounds
  <1> QED
    BY <1>1, <1>2, <1>3, <1>4, <1>5, <1>6, <1>7, <1>8, <1>9, <1>10, <1>11, <1>12, <1>13, <1>14, <1>15, <1>16, <1>17, <1>18, <1>19,
       TruthRetryIngest, TruthRecoverTmp, TruthStartPending, TruthRehash, TruthIngest,
       TruthIngestRaises, TruthRecoverNothing, TruthSealChunk, TruthDelete,
       TruthSealResolution, TruthCreate DEF Next, Request, Step, Environment
-----------------------------------------------------------------------------
(* Refinement: every step of the write gate is a step of WriteGate or none. *)

LEMMA GateStutters ==
  ASSUME \A p \in Ops : Phase(p)' = Phase(p), UNCHANGED <<blocks, ran, held>>
  PROVE  UNCHANGED Gate!gateVars
  <1>1. [p \in Ops |-> Phase(p)'] = [p \in Ops |-> Phase(p)]
    OBVIOUS
  <1>2. {p \in Ops : Effected(p)'} = {p \in Ops : Effected(p)}
    BY DEF Effected
  <1> QED BY <1>1, <1>2 DEF Gate!gateVars

LEMMA GateMoves ==
  ASSUME NEW o \in Ops, NEW from, NEW to, Phase(o) = from, Phase(o)' = to,
         \A p \in Ops \ {o} : Phase(p)' = Phase(p), UNCHANGED <<blocks, ran, held>>
  PROVE  Gate!Move(o, from, to)
  <1>1. [p \in Ops |-> Phase(p)'] = [[p \in Ops |-> Phase(p)] EXCEPT ![o] = to]
    OBVIOUS
  <1>2. {p \in Ops : Effected(p)'} = {p \in Ops : Effected(p)}
    BY DEF Effected
  <1> QED BY <1>1, <1>2 DEF Gate!Move

\* A file that changes may bring the contents of several writes about.
LEMMA GateWrites ==
  ASSUME UNCHANGED <<status, deleted, blocks, ran>>, NEW f \in Files, NEW c, SetFile(f, c),
         IInv
  PROVE  Gate!GateNext
  <1> DEFINE W == {w \in WriteOps : Target[w] = f /\ Proposed[w] = c}
  <1>1. \A p \in Ops : Effected(p)' <=> Effected(p) \/ p \in W
    BY ConstantsAssumption DEF SetFile, Effected, IInv, TypeOK, Ops
  <1>2. {p \in Ops : Effected(p)'} = {p \in Ops : Effected(p)} \cup W
    <2> HIDE DEF W
    <2>1. W \subseteq Ops
      BY DEF W, Ops
    <2> QED BY <1>1, <2>1
  <1>3. [p \in Ops |-> Phase(p)'] = [p \in Ops |-> Phase(p)]
    BY DEF Phase
  <1>4. W \in SUBSET WriteOps
    OBVIOUS
  <1>5. Gate!WriteEffect
    <2> HIDE DEF W
    <2> QED BY <1>2, <1>3, <1>4 DEF Gate!WriteEffect
  <1> QED BY <1>5 DEF Gate!GateNext

LEMMA GateOperations == Gate!Operations = Ops
  BY DEF Gate!Operations, Ops

LEMMA GateSave == ASSUME IInv, TruthInv, Save PROVE [Gate!GateNext]_(Gate!gateVars)
  <1>0. PICK o : o = call.op
    OBVIOUS
  <1>1. /\ At("save") /\ o \in Ops /\ Stored(o)
        /\ status' = [status EXCEPT ![o] = call.mem]
        /\ UNCHANGED <<deleted, disk, ledger, ran>>
    BY <1>0 DEF Save, IInv, FrameInv, At
  <1>2. status'[o] = call.mem /\ \A p \in Ops \ {o} : status'[p] = status[p]
    BY <1>1 DEF IInv, TypeOK
  <1>3. /\ \A p \in Ops \ {o} : Phase(p)' = Phase(p)
        /\ UNCHANGED <<blocks, ran, held>>
    BY <1>1, <1>2 DEF Phase, ledger, disk
  <1>4. CASE call.mem = "writing"
    <2>1. Phase(o) = "open" /\ Phase(o)' = "started"
      BY <1>0, <1>1, <1>2, <1>4 DEF IInv, FrameInv, Phase, Stored
    <2> QED BY <1>1, <1>3, <2>1, GateMoves, GateOperations DEF Gate!GateNext, Gate!Start
  <1>5. CASE call.mem \in {"rejected", "expired"}
    <2>1. Phase(o) = "open" /\ Phase(o)' = "refused"
      BY <1>0, <1>1, <1>2, <1>5 DEF IInv, FrameInv, Phase, Stored
    <2> QED BY <1>1, <1>3, <2>1, GateMoves, GateOperations DEF Gate!GateNext, Gate!Refuse
  <1>6. CASE call.mem \in {"written", "ingest_failed"}
    <2>1. Phase(o)' = Phase(o)
      BY <1>0, <1>1, <1>2, <1>6 DEF IInv, FrameInv, Phase
    <2> QED BY <1>3, <2>1, GateStutters
  <1>7. CASE call.mem = "approved"
    <2>1. Phase(o) = "started" /\ Phase(o)' = "approved"
      BY <1>0, <1>1, <1>2, <1>7 DEF IInv, FrameInv, Phase
    <2>2. Gate!Move(o, "started", "approved")
      BY <1>1, <1>3, <2>1, GateMoves
    <2>3. o \in {p \in Ops : Effected(p)}
      BY <1>0, <1>1, <1>7 DEF TruthInv, EffectInv
    <2>4. ASSUME o \in IF \E c \in Contents : Chunks[c] = 0 THEN {} ELSE Tasked
          PROVE  [p \in Ops |-> Len(blocks[p])][o] > 0
      <3>1. blocks[o] # <<>> /\ blocks[o] \in Seq(Contents)
        BY <1>0, <1>1, <1>7, <2>4 DEF TruthInv, ProvenanceInv, IInv, TypeOK
      <3> QED BY <1>1, <3>1
    <2>5. Gate!Accept(o)
      BY <2>2, <2>3, <2>4 DEF Gate!Accept
    <2> QED BY <1>1, <2>5, GateOperations DEF Gate!GateNext
  <1> QED
    <2>1. call.mem \in {"writing", "rejected", "expired", "written", "ingest_failed", "approved"}
      BY <1>0, <1>1 DEF IInv, FrameInv
    <2> QED BY <1>4, <1>5, <1>6, <1>7, <2>1

LEMMA GateBacksOut == ASSUME IInv, TruthInv, RecoverNothing
                      PROVE  [Gate!GateNext]_(Gate!gateVars)
  <1>0. PICK o : o = call.op
    OBVIOUS
  <1>1. /\ o \in WriteOps /\ o \in Ops /\ Stored(o) /\ status[o] = "writing"
        /\ UNCHANGED <<deleted, disk, ledger, ran>>
    BY <1>0 DEF RecoverNothing, Dispatching, IInv, FrameInv, At, Ops
  <1>2. CASE UNCHANGED status
    BY <1>1, <1>2, GateStutters DEF Phase, ledger, disk
  <1>3. CASE status' = [status EXCEPT ![o] = "pending"]
    <2>1. status'[o] = "pending" /\ \A p \in Ops \ {o} : status'[p] = status[p]
      BY <1>1, <1>3 DEF IInv, TypeOK
    <2>2. Phase(o) = "started" /\ Phase(o)' = "open"
      BY <1>1, <2>1 DEF Phase, Stored
    <2>3. Gate!Move(o, "started", "open")
      BY <1>1, <2>1, <2>2, GateMoves DEF Phase, ledger, disk
    <2>4. [p \in Ops |-> Len(blocks[p])][o] = 0
      <3>1. blocks[o] = <<>>
        BY <1>1 DEF TruthInv, ProvenanceInv
      <3> QED BY <1>1, <3>1
    <2> QED BY <1>1, <2>3, <2>4, GateOperations DEF Gate!GateNext, Gate!BackOut
  <1> QED BY <1>0, <1>2, <1>3 DEF RecoverNothing

LEMMA GateRecords == ASSUME IInv, TruthInv, SealChunk PROVE Gate!GateNext
  <1>0. PICK o : o = call.op
    OBVIOUS
  <1>1. /\ o \in Ops /\ o \in Tasked /\ status[o] \in {"written", "ingest_failed"}
        /\ o \in WriteOps /\ blocks[o] \in Seq(Contents) /\ call.text \in Contents
    BY <1>0 DEF SealChunk, IInv, TypeOK, FrameInv, BlocksInv, TruthInv, ProvenanceInv, At, Ops
  <1>2. /\ blocks' = [blocks EXCEPT ![o] = Append(blocks[o], call.text)]
        /\ UNCHANGED <<store, disk, ran>>
    BY <1>0 DEF SealChunk
  <1>3. /\ Len(blocks'[o]) = Len(blocks[o]) + 1
        /\ \A p \in Ops \ {o} : blocks'[p] = blocks[p]
    <2>1. Len(Append(blocks[o], call.text)) = Len(blocks[o]) + 1
      BY <1>1, AppendFacts
    <2> QED BY <1>1, <1>2, <2>1 DEF IInv, TypeOK
  <1>4. [p \in Ops |-> Len(blocks'[p])]
          = [[p \in Ops |-> Len(blocks[p])] EXCEPT ![o] = @ + 1]
    BY <1>1, <1>3
  <1>5. /\ [p \in Ops |-> Phase(p)'] = [p \in Ops |-> Phase(p)]
        /\ {p \in Ops : Effected(p)'} = {p \in Ops : Effected(p)}
    BY <1>2 DEF Phase, Effected, store, disk
  <1>6. /\ Phase(o) = "started"
        /\ o \in {p \in Ops : Effected(p)}
    BY <1>1 DEF Phase, TruthInv, EffectInv
  <1>7. Gate!Record(o)
    BY <1>1, <1>4, <1>5, <1>6 DEF Gate!Record
  <1> QED BY <1>1, <1>7, GateOperations DEF Gate!GateNext

LEMMA GateRuns == ASSUME IInv, TruthInv, RunTool PROVE Gate!GateNext
  <1>0. PICK o : o = call.op
    OBVIOUS
  <1>1. /\ o \in ToolOps /\ o \in Ops /\ status[o] = "writing" /\ ran[o] = 0
        /\ ran' = [ran EXCEPT ![o] = @ + 1]
        /\ UNCHANGED <<store, disk, ledger>>
    BY <1>0 DEF RunTool, IInv, FrameInv, ToolInv, At, Ops
  <1>2. ran'[o] = 1 /\ \A p \in Ops \ {o} : ran'[p] = ran[p]
    BY <1>1 DEF IInv, TypeOK
  <1>3. ~Effected(o) /\ Effected(o)' /\ \A p \in Ops \ {o} : Effected(p)' <=> Effected(p)
    BY <1>1, <1>2 DEF Effected, disk
  <1>4. /\ {p \in Ops : Effected(p)'} = {p \in Ops : Effected(p)} \cup {o}
        /\ o \in ToolOps \ {p \in Ops : Effected(p)}
    BY <1>1, <1>3
  <1>5. /\ [p \in Ops |-> Phase(p)'] = [p \in Ops |-> Phase(p)]
        /\ Phase(o) = "started"
    BY <1>1 DEF Phase, store
  <1>6. Gate!ToolEffect(o)
    BY <1>1, <1>4, <1>5 DEF Gate!ToolEffect, ledger
  <1> QED BY <1>1, <1>6, GateOperations DEF Gate!GateNext

LEMMA GateProposes ==
  ASSUME IInv, TruthInv, NEW o \in Ops, CreateWrite(o) \/ CreateToolCall(o)
  PROVE  Gate!GateNext
  <1>1. /\ status[o] = "none" /\ status' = [status EXCEPT ![o] = "pending"]
        /\ UNCHANGED <<deleted, disk, ledger, ran>>
    BY DEF CreateWrite, CreateToolCall, Create
  <1>2. /\ status'[o] = "pending" /\ \A p \in Ops \ {o} : status'[p] = status[p]
        /\ o \notin deleted
    BY <1>1 DEF IInv, TypeOK, TruthInv, LedgerInv
  <1>3. Phase(o) = "none" /\ Phase(o)' = "open"
    BY <1>1, <1>2 DEF Phase
  <1> QED BY <1>1, <1>2, <1>3, GateMoves, GateOperations
             DEF Phase, ledger, disk, Gate!GateNext, Gate!Propose

LEMMA GateSweeps == ASSUME IInv, NEW o \in Ops, SweepOne(o) PROVE Gate!GateNext
  <1>1. /\ status[o] = "pending" /\ o \notin deleted /\ deleted' = deleted \cup {o}
        /\ UNCHANGED <<status, held, ledger, ran>>
    BY DEF SweepOne, Sweepable, Stored
  <1>2. /\ Phase(o) = "open" /\ Phase(o)' = "refused"
        /\ \A p \in Ops \ {o} : Phase(p)' = Phase(p)
    BY <1>1 DEF Phase
  <1> QED BY <1>1, <1>2, GateMoves, GateOperations DEF ledger, Gate!GateNext, Gate!Refuse

LEMMA GateDeletes == ASSUME IInv, Delete PROVE UNCHANGED Gate!gateVars
  <1>1. /\ status[call.op] \in {"approved", "rejected", "expired"}
        /\ deleted' = deleted \cup {call.op}
        /\ UNCHANGED <<status, disk, ledger, ran>>
    BY DEF Delete, IInv, FrameInv, At
  <1>2. \A p \in Ops : Phase(p)' = Phase(p)
    BY <1>1 DEF Phase
  <1> QED BY <1>1, <1>2, GateStutters DEF disk, ledger

LEMMA GateStep == ASSUME IInv, TruthInv, [Next]_vars
                  PROVE  [Gate!GateNext]_(Gate!gateVars)
  <1>1. CASE Replace
    <2>1. Target[call.op] \in Files
      BY <1>1, ConstantsAssumption DEF Replace, IInv, FrameInv, At
    <2> QED BY <1>1, <2>1, GateWrites DEF Replace, store, ledger
  <1>2. ASSUME NEW f \in Files, Edit(f) PROVE Gate!GateNext
    BY <1>2, GateWrites DEF Edit, store, ledger
  <1>3. ASSUME UNCHANGED <<status, deleted, blocks, ran, held>>
        PROVE  UNCHANGED Gate!gateVars
    BY <1>3, GateStutters DEF Phase
  <1>4. \/ Save \/ RecoverNothing \/ SealChunk \/ RunTool \/ Delete \/ Replace
        \/ \E o \in Ops : CreateWrite(o) \/ CreateToolCall(o) \/ SweepOne(o)
        \/ \E f \in Files : Edit(f)
        \/ UNCHANGED <<status, deleted, blocks, ran, held>>
    BY DEF Next, vars, store, disk, ledger, Request, Step, Environment, Approve, Reject,
       ExpireInline, Begin, AlreadyProcessed, RetryIngest, RecoverReplaced, RecoverTmp,
       StartPending, WriteTmp, Rehash, IngestDone, IngestRead, IngestRaises, Discard,
       SealResolution, Restart, SweepEnd, Lapse, Raise, SealFails, Crash
  <1> QED BY <1>1, <1>2, <1>3, <1>4, GateSave, GateBacksOut, GateRecords, GateRuns,
             GateProposes, GateSweeps, GateDeletes

LEMMA GateBegins == ASSUME Init PROVE Gate!GateInit
  <1>1. [p \in Ops |-> Phase(p)] = [p \in Gate!Operations |-> "none"]
    BY GateOperations DEF Init, Phase
  <1>2. {p \in Ops : Effected(p)} \in SUBSET WriteOps
    BY DEF Init, Effected, Ops
  <1>3. [p \in Ops |-> Len(blocks[p])] = [p \in Gate!Operations |-> 0]
    BY GateOperations DEF Init
  <1> QED BY <1>1, <1>2, <1>3 DEF Gate!GateInit

-----------------------------------------------------------------------------
LEMMA TruthAlways == Spec => [](IInv /\ TruthInv)
  <1>1. Init => IInv /\ TruthInv
    BY InvInit, TruthInit
  <1>2. IInv /\ TruthInv /\ [Next]_vars => (IInv /\ TruthInv)'
    BY InvStep, TruthStep
  <1> QED BY <1>1, <1>2, PTL DEF Spec

\* A resolution record tells the truth: what it calls approved took effect, what it
\* calls rejected left no provenance and never ran, and it is the only one.
THEOREM RecordsTruth == Spec => []ResolutionTruthful
  <1>1. TruthInv => ResolutionTruthful
    BY DEF TruthInv, LedgerInv
  <1> QED BY <1>1, TruthAlways, PTL

\* The write gate, with its temp files, retries and crashes, keeps the promise of the
\* abstract one.
THEOREM KeepsPromise == Spec => ImplementsGate
  <1>1. Init => Gate!GateInit
    BY GateBegins
  <1>2. IInv /\ TruthInv /\ [Next]_vars => [Gate!GateNext]_(Gate!gateVars)
    BY GateStep
  <1> QED BY <1>1, <1>2, TruthAlways, PTL DEF Spec, ImplementsGate, Gate!GateSpec
=============================================================================
