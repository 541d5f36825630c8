---------------------------- MODULE ApprovalGate ----------------------------
(***************************************************************************)
(* The mid-turn approval gate of the web server (timechain_web/webapp.py). *)
(* A turn holds state.lock from start to end.  When one of its tool calls  *)
(* creates a pending operation, the turn parks on a future registered in   *)
(* state.approval_waiters; an approve or reject request that finds the     *)
(* future resolves it without the lock, any other request queues for the   *)
(* lock and runs the user action itself.                                   *)
(*                                                                         *)
(* A request handler runs on the event loop, so what it does between two   *)
(* awaits is one step.  The calls into pending_ops run in a worker thread: *)
(* here they are one step with the outcomes PendingOps gives them.         *)
(***************************************************************************)
EXTENDS Naturals, Sequences, FiniteSets

CONSTANTS
    Ops,           \* pending operations the turns can create
    Requests,      \* approve / reject requests
    Turn,          \* the turn's entry in the lock queue
    NoOp,          \* "no operation"
    TimerWins,     \* does a timer that fires before the woken turn runs win
                   \* over the answer?  FALSE: Python 3.10, 3.11; TRUE: 3.12
    MaxFaults      \* bound on exceptions that leave a turn

ASSUME ConstantsAssumption ==
    /\ NoOp \notin Ops /\ Turn \notin Requests
    /\ TimerWins \in BOOLEAN /\ MaxFaults \in Nat

VARIABLES
    queue,      \* state.lock (FIFO): the holder, then the waiters
    turn,       \* the running turn: where it is, the operation it is gated
                \* on, the decision it resolves it with
    created,    \* the operations the running turn created
    entries,    \* the running turn's `resolutions`
    waiter,     \* approval_waiters: "none", or the future's state
    req,        \* the requests: where they are, their operation and action
    status,     \* the operations in the store; "partial" stands for
                \* writing, written and ingest_failed
    lapsed,     \* the operations past expires_at
    records,    \* resolutions embedded in committed response records
    sealed,     \* `resolution` records of their own
    owed,       \* history: the operations created by committed turns
    faults

gateVars == <<turn, created, entries, waiter>>
storeVars == <<status, lapsed>>
chainVars == <<records, sealed, owed>>
vars == <<queue, gateVars, req, storeVars, chainVars, faults>>

Actions == {"approved", "rejected"}
Decisions == Actions \cup {"expired"}
Outcomes == Decisions \cup {"approve_failed"}
Final == {"approved", "rejected", "expired"}

NoTurn == [at |-> "none", op |-> NoOp, decision |-> "expired"]
TurnAt(l) == turn.at = l
Moved(l) == turn' = [turn EXCEPT !.at = l]
Holds(x) == queue # <<>> /\ Head(queue) = x

Init ==
    /\ queue = <<>>
    /\ turn = NoTurn /\ created = {} /\ entries = <<>>
    /\ waiter = [o \in Ops |-> "none"]
    /\ req = [r \in Requests |-> [at |-> "new", op |-> NoOp, action |-> "approved"]]
    /\ status = [o \in Ops |-> "none"] /\ lapsed = {}
    /\ records = <<>> /\ sealed = <<>> /\ owed = {}
    /\ faults = 0

-----------------------------------------------------------------------------
(* What a call into pending_ops leaves in the store.                        *)

\* execute_approve_write: done; refused because the target changed (still
\* pending); stopped half-way; expired.  A half-done write may be finished,
\* fail again or restart from pending.
AfterApprove(o) ==
    CASE status[o] = "pending" ->
            IF o \in lapsed THEN {"expired"} ELSE {"approved", "pending", "partial"}
      [] status[o] = "partial" ->
            {"approved", "pending", "partial"}
                \cup (IF o \in lapsed THEN {"expired"} ELSE {})
      [] OTHER -> {status[o]}

\* execute_reject_write: only a pending operation is rejected.
AfterReject(o) == IF status[o] = "pending" THEN {"rejected"} ELSE {status[o]}

After(o, action) ==
    CASE action = "approved" -> AfterApprove(o)
      [] action = "rejected" -> AfterReject(o)
      [] OTHER -> {"expired"}

-----------------------------------------------------------------------------
(* The turn: _start_turn, _drive_turn, _turn_events.                        *)

StartTurn ==
    /\ TurnAt("none")
    /\ queue' = Append(queue, Turn)
    /\ Moved("lock")
    /\ UNCHANGED <<created, entries, waiter, req, storeVars, chainVars, faults>>

BeginTurn ==
    /\ TurnAt("lock") /\ Holds(Turn)
    /\ Moved("model")
    /\ UNCHANGED <<queue, created, entries, waiter, req, storeVars, chainVars,
                   faults>>

\* A tool call of the model creates a pending operation: execute_tool in a
\* worker thread (write_file), or defer_tool_call.
Propose(o) ==
    /\ TurnAt("model") /\ status[o] = "none"
    /\ status' = [status EXCEPT ![o] = "pending"]
    /\ created' = created \cup {o}
    /\ turn' = [turn EXCEPT !.at = "created", !.op = o]
    /\ UNCHANGED <<queue, entries, waiter, req, lapsed, chainVars, faults>>

\* The pending_op event is out: register the future and wait for it.
Park ==
    /\ TurnAt("created")
    /\ waiter' = [waiter EXCEPT ![turn.op] = "open"]
    /\ Moved("parked")
    /\ UNCHANGED <<queue, created, entries, req, storeVars, chainVars, faults>>

Resume(decision) ==
    /\ turn' = [turn EXCEPT !.at = "resolve", !.decision = decision]
    /\ UNCHANGED <<queue, created, entries, req, storeVars, chainVars, faults>>

Wake ==
    /\ TurnAt("parked") /\ waiter[turn.op] \in Actions
    /\ waiter' = [waiter EXCEPT ![turn.op] = "none"]
    /\ Resume(waiter[turn.op])

\* wait_for's timer.  From Python 3.12 on its cancellation still reaches a task
\* whose future has a result but which has not run since.
Timeout ==
    /\ TurnAt("parked")
    /\ waiter[turn.op] = "open" \/ TimerWins
    /\ waiter' = [waiter EXCEPT ![turn.op] = "none"]
    /\ Resume("expired")

\* What resolve_inline reports for a decision that leaves the operation in s;
\* a tool call that ran into an error is approved, and reported failed.
Reported(decision, s) ==
    CASE decision # "approved" -> {decision}
      [] s = "approved" -> {"approved", "approve_failed"}
      [] OTHER -> {"approve_failed"}

\* resolve_inline in a worker thread: the entry names what really happened.
ResolveInline ==
    LET o == turn.op IN
    /\ TurnAt("resolve")
    /\ \E s \in After(o, turn.decision) : \E d \in Reported(turn.decision, s) :
        /\ status' = [status EXCEPT ![o] = s]
        /\ entries' = Append(entries, [op |-> o, decision |-> d])
    /\ Moved("model")
    /\ UNCHANGED <<queue, created, waiter, req, lapsed, chainVars, faults>>

\* commit_response, also after a stream failure; the lock is released.
Commit ==
    /\ TurnAt("model")
    /\ records' = records \o entries
    /\ owed' = owed \cup created
    /\ turn' = NoTurn /\ created' = {} /\ entries' = <<>>
    /\ queue' = Tail(queue)
    /\ UNCHANGED <<waiter, req, storeVars, sealed, faults>>

\* Mutant: the lock is not released on the way out.
TurnFailsKeepsLock ==
    /\ turn.at \in {"model", "resolve"}
    /\ faults < MaxFaults /\ faults' = faults + 1
    /\ turn' = NoTurn /\ created' = {} /\ entries' = <<>>
    /\ UNCHANGED <<queue, waiter, req, storeVars, chainVars>>

\* An exception leaves _turn_events (prepare, score or commit, or
\* resolve_inline, which stops the operation where it stands): _drive_turn
\* emits an error event, nothing is committed.
TurnFails ==
    /\ faults < MaxFaults /\ faults' = faults + 1
    /\ \/ TurnAt("model") /\ UNCHANGED status
       \/ /\ TurnAt("resolve")
          /\ \E s \in After(turn.op, turn.decision) :
                status' = [status EXCEPT ![turn.op] = s]
    /\ turn' = NoTurn /\ created' = {} /\ entries' = <<>>
    /\ queue' = Tail(queue)
    /\ UNCHANGED <<waiter, req, lapsed, chainVars>>

-----------------------------------------------------------------------------
(* A request: _pending_op_action (and /approve, /reject of the command      *)
(* endpoint).                                                               *)

Enters(r, at, o, action) ==
    /\ req[r].at = "new" /\ status[o] # "none"
    /\ req' = [req EXCEPT ![r] = [at |-> at, op |-> o, action |-> action]]

\* _deliver_to_waiter: resolve the parked turn's future.
Deliver(r, o, action) ==
    /\ waiter[o] = "open"
    /\ Enters(r, "delivered", o, action)
    /\ waiter' = [waiter EXCEPT ![o] = action]
    /\ UNCHANGED <<queue, turn, created, entries, storeVars, chainVars, faults>>

\* Mutant: the user action runs without the lock.
QueueUpUnlocked(r, o, action) ==
    /\ waiter[o] # "open"
    /\ Enters(r, "run", o, action)
    /\ UNCHANGED <<queue, gateVars, storeVars, chainVars, faults>>

\* No turn is waiting: take the lock.
QueueUp(r, o, action) ==
    /\ waiter[o] # "open"
    /\ Enters(r, "lock", o, action)
    /\ queue' = Append(queue, r)
    /\ UNCHANGED <<gateVars, storeVars, chainVars, faults>>

Granted(r) ==
    /\ req[r].at = "lock" /\ Holds(r)
    /\ req' = [req EXCEPT ![r].at = "run"]
    /\ UNCHANGED <<queue, gateVars, storeVars, chainVars, faults>>

Answer(r) ==
    /\ req' = [req EXCEPT ![r].at = "answered"]
    /\ queue' = Tail(queue)

\* Mutant: whether the operation was already processed is not looked at.
RunUserActionAnyStatus(r) ==
    LET o == req[r].op IN
    /\ req[r].at = "run"
    /\ status' = [status EXCEPT ![o] = req[r].action]
    /\ sealed' = Append(sealed, [op |-> o, decision |-> req[r].action])
    /\ Answer(r)
    /\ UNCHANGED <<gateVars, lapsed, records, owed, faults>>

\* run_user_action: an exception becomes an ERROR answer; a decision that
\* took effect is sealed as a resolution record.
RunUserAction(r) ==
    LET o == req[r].op
        a == req[r].action
    IN
    /\ req[r].at = "run"
    /\ \E s \in After(o, a) :
        /\ status' = [status EXCEPT ![o] = s]
        /\ sealed' = IF s = a /\ s # status[o]
                       THEN Append(sealed, [op |-> o, decision |-> a])
                       ELSE sealed
    /\ Answer(r)
    /\ UNCHANGED <<gateVars, lapsed, records, owed, faults>>

Lapse(o) ==
    /\ status[o] # "none" /\ o \notin lapsed
    /\ lapsed' = lapsed \cup {o}
    /\ UNCHANGED <<queue, gateVars, req, status, chainVars, faults>>

-----------------------------------------------------------------------------
TurnStep ==
    BeginTurn \/ Park \/ Wake \/ Timeout \/ ResolveInline \/ Commit

RequestStep(r) == Granted(r) \/ RunUserAction(r)

Next ==
    \/ StartTurn \/ TurnStep \/ TurnFails
    \/ \E o \in Ops :
        \/ Propose(o) \/ Lapse(o)
        \/ \E r \in Requests, a \in Actions : Deliver(r, o, a) \/ QueueUp(r, o, a)
    \/ \E r \in Requests : RequestStep(r)

Spec == Init /\ [][Next]_vars

\* The event loop and its worker threads run; a parked turn's timer fires.
Fairness == WF_vars(TurnStep) /\ \A r \in Requests : WF_vars(RequestStep(r))
FairSpec == Spec /\ Fairness

-----------------------------------------------------------------------------
(* Properties.                                                              *)

Entries == [op : Ops, decision : Outcomes]

\* Every variable has the values the code can give it.
TypeOK ==
    /\ queue \in Seq(Requests \cup {Turn})
    /\ turn \in [at : {"none", "lock", "model", "created", "parked", "resolve"},
                 op : Ops \cup {NoOp}, decision : Decisions]
    /\ created \in SUBSET Ops /\ entries \in Seq(Entries)
    /\ waiter \in [Ops -> {"none", "open"} \cup Actions]
    /\ req \in [Requests -> [at : {"new", "lock", "run", "delivered", "answered"},
                             op : Ops \cup {NoOp}, action : Actions]]
    /\ status \in [Ops -> {"none", "pending", "partial"} \cup Final]
    /\ lapsed \in SUBSET Ops
    /\ records \in Seq(Entries) /\ sealed \in Seq(Entries)
    /\ owed \in SUBSET Ops
    /\ faults \in Nat

\* "Serialize all chain-touching work": no two of the running turn and the
\* user actions work on the store and the chain at the same time, although
\* decisions reach the turn without the lock.
Working == {r \in Requests : req[r].at = "run"}
           \cup (IF turn.at \in {"none", "lock"} THEN {} ELSE {Turn})
OneAtATime == \A x, y \in Working : x = y

\* A future is registered exactly while a turn is parked on its operation: no
\* decision can be delivered to a turn that has gone.
WaiterOnlyWhileParked ==
    \A o \in Ops : waiter[o] # "none" <=> TurnAt("parked") /\ turn.op = o

\* "the decision embeds in the response record": a committed turn accounts
\* once for every operation it created, and truthfully; and an approval or
\* rejection is on the chain once, embedded in its turn's record or as a
\* resolution record of its own.
Told(seq, o) == {i \in DOMAIN seq : seq[i].op = o}
Takes(seq, o) == {i \in Told(seq, o) : seq[i].decision \in Actions}
RecordTellsAll ==
    /\ \A o \in owed : Cardinality(Told(records, o)) = 1
    /\ \A i \in DOMAIN records :
        records[i].decision \in Final => status[records[i].op] = records[i].decision
    /\ \A o \in Ops :
        Cardinality(Takes(records, o)) + Cardinality(Takes(sealed, o)) <= 1

\* "decision (...) delivered to the running turn - it resolves the operation":
\* the turn resolves the operation with the decision the user was told it got.
\* It fails where TimerWins: the user is told "delivered", and the turn expires it.
DeliveredIsHonoured ==
    [][\A o \in Ops :
        waiter[o] \in Actions /\ waiter'[o] = "none" =>
            turn'.decision = waiter[o]]_vars

\* Nobody waits for ever: every turn ends and every request is answered.
EveryoneServed ==
    /\ (turn.at # "none") ~> TurnAt("none")
    /\ \A r \in Requests : (req[r].at = "lock") ~> (req[r].at = "answered")
=============================================================================
