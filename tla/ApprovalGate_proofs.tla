------------------------- MODULE ApprovalGate_proofs -------------------------
(***************************************************************************)
(* Theorems about the approval gate, for any operations and requests and   *)
(* for both behaviours of the timer.                                       *)
(***************************************************************************)
EXTENDS ApprovalGate, FiniteSetTheorems, TLAPS

-----------------------------------------------------------------------------
(* The lock queue.                                                          *)

InQ(s, x) == \E i \in 1..Len(s) : s[i] = x
NoDup(s) == \A i, j \in 1..Len(s) : s[i] = s[j] => i = j

LEMMA QueueAppend ==
    ASSUME NEW S, NEW s \in Seq(S), NEW y \in S, NoDup(s), ~InQ(s, y)
    PROVE  /\ Append(s, y) \in Seq(S)
           /\ NoDup(Append(s, y))
           /\ \A x : InQ(Append(s, y), x) <=> InQ(s, x) \/ x = y
           /\ Append(s, y) # <<>>
           /\ s # <<>> => Head(Append(s, y)) = Head(s)
<1> DEFINE t == Append(s, y)
<1>1. t \in Seq(S) /\ Len(t) = Len(s) + 1 /\ Len(s) \in Nat
  OBVIOUS
<1>2. \A i \in 1..Len(s) : t[i] = s[i]
  OBVIOUS
<1>3. t[Len(s) + 1] = y
  OBVIOUS
<1> HIDE DEF t
<1>4. NoDup(t)
  <2> SUFFICES ASSUME NEW i \in 1..Len(t), NEW j \in 1..Len(t), t[i] = t[j]
               PROVE  i = j
    BY DEF NoDup
  <2>1. CASE i \in 1..Len(s) /\ j \in 1..Len(s)
    BY <2>1, <1>2 DEF NoDup
  <2>2. CASE i = Len(s) + 1 /\ j \in 1..Len(s)
    BY <2>2, <1>1, <1>2, <1>3 DEF InQ
  <2>3. CASE j = Len(s) + 1 /\ i \in 1..Len(s)
    BY <2>3, <1>1, <1>2, <1>3 DEF InQ
  <2> QED BY <2>1, <2>2, <2>3, <1>1
<1>5. ASSUME NEW x PROVE InQ(t, x) <=> InQ(s, x) \/ x = y
  <2>1. ASSUME InQ(t, x) PROVE InQ(s, x) \/ x = y
    <3>1. PICK i \in 1..Len(t) : t[i] = x
      BY <2>1 DEF InQ
    <3>2. i \in 1..Len(s) \/ i = Len(s) + 1
      BY <1>1
    <3> QED BY <3>1, <3>2, <1>2, <1>3 DEF InQ
  <2>2. ASSUME InQ(s, x) \/ x = y PROVE InQ(t, x)
    <3>1. CASE x = y
      <4>1. Len(s) + 1 \in 1..Len(t)
        BY <1>1
      <4> QED BY <3>1, <4>1, <1>3 DEF InQ
    <3>2. CASE InQ(s, x)
      <4>1. PICK i \in 1..Len(s) : s[i] = x
        BY <3>2 DEF InQ
      <4>2. i \in 1..Len(t) /\ t[i] = x
        BY <4>1, <1>1, <1>2
      <4> QED BY <4>2 DEF InQ
    <3> QED BY <2>2, <3>1, <3>2
  <2> QED BY <2>1, <2>2
<1>6. t # <<>>
  <2>1. Len(t) # 0
    BY <1>1
  <2> QED BY <2>1
<1>7. ASSUME s # <<>> PROVE Head(t) = Head(s)
  <2>1. 1 \in 1..Len(s) /\ Head(s) = s[1]
    BY <1>7, <1>1
  <2>2. Head(t) = t[1]
    BY <1>1
  <2> QED BY <2>1, <2>2, <1>2
<1> QED BY <1>1, <1>4, <1>5, <1>6, <1>7 DEF t

LEMMA QueueTail ==
    ASSUME NEW S, NEW s \in Seq(S), s # <<>>, NoDup(s)
    PROVE  /\ Tail(s) \in Seq(S)
           /\ NoDup(Tail(s))
           /\ \A x : InQ(Tail(s), x) <=> InQ(s, x) /\ x # Head(s)
<1> DEFINE t == Tail(s)
<1>1. t \in Seq(S) /\ Len(s) \in Nat /\ Len(s) > 0 /\ Len(t) = Len(s) - 1
  OBVIOUS
<1>2. \A i \in 1..Len(t) : t[i] = s[i + 1]
  OBVIOUS
<1>3. Head(s) = s[1]
  OBVIOUS
<1> HIDE DEF t
<1>4. NoDup(t)
  <2> SUFFICES ASSUME NEW i \in 1..Len(t), NEW j \in 1..Len(t), t[i] = t[j]
               PROVE  i = j
    BY DEF NoDup
  <2>1. i + 1 \in 1..Len(s) /\ j + 1 \in 1..Len(s) /\ s[i + 1] = s[j + 1]
    BY <1>1, <1>2
  <2>2. i + 1 = j + 1
    BY <2>1 DEF NoDup
  <2> QED BY <2>2
<1>5. ASSUME NEW x PROVE InQ(t, x) <=> InQ(s, x) /\ x # Head(s)
  <2>1. ASSUME InQ(t, x) PROVE InQ(s, x) /\ x # Head(s)
    <3>1. PICK i \in 1..Len(t) : t[i] = x
      BY <2>1 DEF InQ
    <3>2. i + 1 \in 1..Len(s) /\ s[i + 1] = x /\ i + 1 # 1 /\ 1 \in 1..Len(s)
      BY <3>1, <1>1, <1>2
    <3> QED BY <3>2, <1>3 DEF InQ, NoDup
  <2>2. ASSUME InQ(s, x), x # Head(s) PROVE InQ(t, x)
    <3>1. PICK i \in 1..Len(s) : s[i] = x
      BY <2>2 DEF InQ
    <3>2. i # 1
      BY <3>1, <2>2, <1>3
    <3>3. i - 1 \in 1..Len(t) /\ (i - 1) + 1 = i
      BY <3>2, <1>1
    <3>4. t[i - 1] = s[i]
      BY <3>3, <1>2
    <3> QED BY <3>1, <3>3, <3>4 DEF InQ
  <2> QED BY <2>1, <2>2
<1> QED BY <1>1, <1>4, <1>5 DEF t

-----------------------------------------------------------------------------
(* The inductive invariant: the queue holds the turn and the requests that  *)
(* wait for the lock or work under it, each once, and who works is its head.*)

Waits(at) == at \in {"lock", "run"}
Past(at) == at \notin {"none", "lock"}

QueueInv ==
    /\ NoDup(queue)
    /\ InQ(queue, Turn) <=> turn.at # "none"
    /\ \A r \in Requests : InQ(queue, r) <=> Waits(req[r].at)
    /\ Past(turn.at) => Holds(Turn)
    /\ \A r \in Requests : req[r].at = "run" => Holds(r)

GateInv ==
    /\ turn.at \in {"created", "parked", "resolve"} => turn.op \in Ops
    /\ \A r \in Requests : req[r].at # "new" => req[r].op \in Ops
    /\ WaiterOnlyWhileParked

IInv == TypeOK /\ QueueInv /\ GateInv

\* Under QueueInv two different workers would both be the head of the queue.
LEMMA HeadIsAlone ==
    ASSUME QueueInv
    PROVE  OneAtATime
<1>1. \A x \in Working : x = Head(queue)
  BY DEF QueueInv, Working, Holds, Past
<1> QED BY <1>1 DEF OneAtATime

LEMMA QueueTyped ==
    ASSUME TypeOK
    PROVE  /\ queue \in Seq(Requests \cup {Turn})
           /\ turn \in [at : {"none", "lock", "model", "created", "parked", "resolve"},
                        op : Ops \cup {NoOp}, decision : Decisions]
           /\ req \in [Requests -> [at : {"new", "lock", "run", "delivered", "answered"},
                                    op : Ops \cup {NoOp}, action : Actions]]
  BY DEF TypeOK

\* A step that leaves the queue and everybody's standing in it alone.
LEMMA QueueSame ==
    ASSUME QueueInv, queue' = queue,
           turn'.at = "none" <=> turn.at = "none",
           Past(turn'.at) => Holds(Turn),
           \A r \in Requests : /\ Waits(req'[r].at) <=> Waits(req[r].at)
                               /\ req'[r].at = "run" => Holds(r)
    PROVE  QueueInv'
  BY DEF QueueInv, NoDup, InQ, Holds, Waits, Past

\* Somebody new queues up.
LEMMA QueueJoin ==
    ASSUME TypeOK, QueueInv, NEW x \in Requests \cup {Turn}, ~InQ(queue, x),
           queue' = Append(queue, x),
           x = Turn => turn'.at = "lock",
           x # Turn => turn' = turn /\ req'[x].at = "lock",
           \A r \in Requests : r # x => req'[r] = req[r]
    PROVE  QueueInv'
<1>1. /\ NoDup(queue')
      /\ \A y : InQ(queue', y) <=> InQ(queue, y) \/ y = x
      /\ queue' # <<>>
      /\ queue # <<>> => Head(queue') = Head(queue)
  BY QueueTyped, QueueAppend DEF QueueInv
<1>2. \A y : Holds(y) => Holds(y)'
  BY <1>1 DEF Holds
<1>3. Turn \notin Requests
  BY ConstantsAssumption
<1>4. InQ(queue', Turn) <=> turn'.at # "none"
  BY <1>1, <1>3 DEF QueueInv
<1>5. Past(turn'.at) => Holds(Turn)'
  BY <1>2 DEF QueueInv, Past
<1>6. \A r \in Requests : InQ(queue', r) <=> Waits(req'[r].at)
  BY <1>1, <1>3 DEF QueueInv, Waits
<1>7. \A r \in Requests : req'[r].at = "run" => Holds(r)'
  BY <1>2, <1>3 DEF QueueInv
<1> QED BY <1>1, <1>4, <1>5, <1>6, <1>7 DEF QueueInv

\* The holder releases the lock.
LEMMA QueueLeave ==
    ASSUME TypeOK, QueueInv, NEW x \in Requests \cup {Turn}, Holds(x),
           queue' = Tail(queue),
           IF x = Turn THEN turn'.at = "none" ELSE turn' = turn,
           \A r \in Requests : IF r = x THEN ~Waits(req'[r].at)
                                        ELSE req'[r] = req[r]
    PROVE  QueueInv'
<1>1. /\ NoDup(queue')
      /\ \A y : InQ(queue', y) <=> InQ(queue, y) /\ y # x
  BY QueueTyped, QueueTail DEF QueueInv, Holds
<1>2. Turn \notin Requests
  BY ConstantsAssumption
<1>3. \A y : Holds(y) => y = x
  BY DEF Holds
<1>4. InQ(queue', Turn) <=> turn'.at # "none"
  BY <1>1 DEF QueueInv
<1>5. ~Past(turn'.at)
  BY <1>3 DEF QueueInv, Past
<1>6. \A r \in Requests : InQ(queue', r) <=> Waits(req'[r].at)
  BY <1>1 DEF QueueInv
<1>7. \A r \in Requests : req'[r].at # "run"
  BY <1>3 DEF QueueInv, Waits
<1> QED BY <1>1, <1>4, <1>5, <1>6, <1>7 DEF QueueInv

-----------------------------------------------------------------------------
LEMMA AfterTyped ==
    ASSUME NEW o \in Ops, NEW a \in Decisions, NEW s \in After(o, a), TypeOK
    PROVE  s \in {"none", "pending", "partial"} \cup Final
  BY DEF After, AfterApprove, AfterReject, TypeOK, Decisions, Actions, Final

LEMMA InvInit == Init => IInv
<1> SUFFICES ASSUME Init PROVE IInv
  OBVIOUS
<1>1. TypeOK
  BY DEF Init, TypeOK, NoTurn, Decisions, Actions
<1>2. QueueInv
  BY DEF Init, QueueInv, NoTurn, NoDup, InQ, Waits, Past
<1>3. GateInv
  BY DEF Init, GateInv, WaiterOnlyWhileParked, NoTurn, TurnAt
<1> QED BY <1>1, <1>2, <1>3 DEF IInv

\* Type correctness, one step per action.
LEMMA TypeStep == IInv /\ [Next]_vars => TypeOK'
<1> SUFFICES ASSUME TypeOK, QueueInv, GateInv, [Next]_vars PROVE TypeOK'
  BY DEF IInv
<1> USE DEF Decisions, Actions, Final, Outcomes, Entries
<1>1. CASE StartTurn
  <2>1. queue' \in Seq(Requests \cup {Turn})
    BY <1>1 DEF StartTurn, TypeOK
  <2> QED BY <1>1, <2>1 DEF StartTurn, Moved, TypeOK, storeVars, chainVars
<1>2. CASE BeginTurn
  BY <1>2 DEF BeginTurn, Moved, TypeOK, storeVars, chainVars
<1>3. CASE Park
  BY <1>3 DEF Park, Moved, TypeOK, storeVars, chainVars, GateInv, TurnAt
<1>4. CASE Wake
  BY <1>4 DEF Wake, Resume, TypeOK, storeVars, chainVars, GateInv, TurnAt
<1>5. CASE Timeout
  BY <1>5 DEF Timeout, Resume, TypeOK, storeVars, chainVars, GateInv, TurnAt
<1>6. CASE ResolveInline
  <2>1. turn.op \in Ops /\ turn.decision \in Decisions
    BY <1>6 DEF ResolveInline, GateInv, TurnAt, TypeOK
  <2>2. PICK s \in After(turn.op, turn.decision) :
            /\ status' = [status EXCEPT ![turn.op] = s]
            /\ \E d \in Reported(turn.decision, s) :
                entries' = Append(entries, [op |-> turn.op, decision |-> d])
    BY <1>6 DEF ResolveInline
  <2>3. s \in {"none", "pending", "partial"} \cup Final
    BY <2>1, AfterTyped
  <2>4. \A d \in Reported(turn.decision, s) :
            [op |-> turn.op, decision |-> d] \in Entries
    BY <2>1 DEF Reported
  <2>5. entries' \in Seq(Entries)
    BY <2>2, <2>4 DEF TypeOK
  <2> QED BY <1>6, <2>1, <2>2, <2>3, <2>5
          DEF ResolveInline, Moved, TypeOK, chainVars
<1>7. CASE Commit
  <2>1. queue' \in Seq(Requests \cup {Turn})
    BY <1>7 DEF Commit, TypeOK, QueueInv, Past, Holds, TurnAt
  <2>2. records' \in Seq(Entries) /\ entries' \in Seq(Entries)
    BY <1>7 DEF Commit, TypeOK
  <2> QED BY <1>7, <2>1, <2>2 DEF Commit, NoTurn, TypeOK, storeVars
<1>8. CASE TurnFails
  <2>1. queue' \in Seq(Requests \cup {Turn})
    BY <1>8 DEF TurnFails, TypeOK, QueueInv, Past, Holds, TurnAt
  <2>2. status' \in [Ops -> {"none", "pending", "partial"} \cup Final]
    <3>1. CASE UNCHANGED status
      BY <3>1 DEF TypeOK
    <3>2. CASE ~UNCHANGED status
      <4>1. turn.op \in Ops /\ turn.decision \in Decisions
        BY <1>8, <3>2 DEF TurnFails, GateInv, TurnAt, TypeOK
      <4>2. PICK s \in After(turn.op, turn.decision) :
                status' = [status EXCEPT ![turn.op] = s]
        BY <1>8, <3>2 DEF TurnFails
      <4>3. s \in {"none", "pending", "partial"} \cup Final
        BY <4>1, AfterTyped
      <4> QED BY <4>2, <4>3 DEF TypeOK
    <3> QED BY <3>1, <3>2
  <2> QED BY <1>8, <2>1, <2>2 DEF TurnFails, NoTurn, TypeOK, chainVars
<1>9. ASSUME NEW o \in Ops, Propose(o) PROVE TypeOK'
  BY <1>9 DEF Propose, TypeOK, chainVars
<1>10. ASSUME NEW o \in Ops, Lapse(o) PROVE TypeOK'
  BY <1>10 DEF Lapse, TypeOK, chainVars, gateVars
<1>11. ASSUME NEW o \in Ops, NEW r \in Requests, NEW a \in Actions, Deliver(r, o, a)
       PROVE TypeOK'
  BY <1>11 DEF Deliver, Enters, TypeOK, chainVars, storeVars
<1>12. ASSUME NEW o \in Ops, NEW r \in Requests, NEW a \in Actions, QueueUp(r, o, a)
       PROVE TypeOK'
  <2>1. queue' \in Seq(Requests \cup {Turn})
    BY <1>12 DEF QueueUp, TypeOK
  <2> QED BY <1>12, <2>1 DEF QueueUp, Enters, TypeOK, chainVars, storeVars, gateVars
<1>13. ASSUME NEW r \in Requests, Granted(r) PROVE TypeOK'
  <2>1. req' \in [Requests -> [at : {"new", "lock", "run", "delivered", "answered"},
                              op : Ops \cup {NoOp}, action : Actions]]
    <3>1. req' = [req EXCEPT ![r].at = "run"]
      BY <1>13 DEF Granted
    <3>2. req[r] \in [at : {"new", "lock", "run", "delivered", "answered"},
                     op : Ops \cup {NoOp}, action : Actions]
      BY DEF TypeOK
    <3>3. [req[r] EXCEPT !.at = "run"] \in
            [at : {"new", "lock", "run", "delivered", "answered"},
             op : Ops \cup {NoOp}, action : Actions]
      BY <3>2
    <3> HIDE DEF Actions
    <3> QED BY <3>1, <3>3 DEF TypeOK
  <2> QED BY <1>13, <2>1 DEF Granted, TypeOK, chainVars, storeVars, gateVars
<1>14. ASSUME NEW r \in Requests, RunUserAction(r) PROVE TypeOK'
  <2>1. req[r].op \in Ops /\ req[r].action \in Actions
    BY <1>14 DEF RunUserAction, GateInv, TypeOK
  <2>2. queue' \in Seq(Requests \cup {Turn})
    BY <1>14 DEF RunUserAction, Answer, TypeOK, QueueInv, Holds
  <2>3. PICK s \in After(req[r].op, req[r].action) :
            /\ status' = [status EXCEPT ![req[r].op] = s]
            /\ sealed' = IF s = req[r].action /\ s # status[req[r].op]
                  THEN Append(sealed, [op |-> req[r].op, decision |-> req[r].action])
                  ELSE sealed
    BY <1>14 DEF RunUserAction
  <2>4. s \in {"none", "pending", "partial"} \cup Final
    BY <2>1, AfterTyped
  <2>5. sealed' \in Seq(Entries)
    <3>1. [op |-> req[r].op, decision |-> req[r].action] \in Entries
      BY <2>1
    <3>2. sealed \in Seq(Entries)
      BY DEF TypeOK
    <3>3. sealed' = sealed
            \/ sealed' = Append(sealed, [op |-> req[r].op, decision |-> req[r].action])
      BY <2>3
    <3> HIDE DEF Entries
    <3> QED BY <3>1, <3>2, <3>3
  <2>6. req' \in [Requests -> [at : {"new", "lock", "run", "delivered", "answered"},
                              op : Ops \cup {NoOp}, action : Actions]]
    BY <1>14 DEF RunUserAction, Answer, TypeOK
  <2> QED BY <1>14, <2>2, <2>3, <2>4, <2>5, <2>6
          DEF RunUserAction, TypeOK, gateVars
<1>15. CASE UNCHANGED vars
  BY <1>15 DEF vars, TypeOK, gateVars, storeVars, chainVars
<1> QED BY <1>1, <1>2, <1>3, <1>4, <1>5, <1>6, <1>7, <1>8, <1>9, <1>10, <1>11,
           <1>12, <1>13, <1>14, <1>15 DEF Next, TurnStep, RequestStep

\* The queue, one step per action.
LEMMA QueueStep == IInv /\ [Next]_vars => QueueInv'
<1> SUFFICES ASSUME TypeOK, QueueInv, GateInv, [Next]_vars PROVE QueueInv'
  BY DEF IInv
<1>0. Turn \notin Requests
  BY ConstantsAssumption
<1>1. CASE StartTurn
  <2>1. ~InQ(queue, Turn)
    BY <1>1 DEF StartTurn, QueueInv, TurnAt
  <2>2. turn'.at = "lock" /\ req' = req /\ queue' = Append(queue, Turn)
    BY <1>1 DEF StartTurn, Moved, TypeOK
  <2> QED BY <2>1, <2>2, QueueJoin
<1>2. CASE BeginTurn
  <2>1. turn.at = "lock" /\ turn'.at = "model" /\ Holds(Turn)
    BY <1>2, QueueTyped DEF BeginTurn, Moved, TurnAt
  <2>2. queue' = queue /\ req' = req
    BY <1>2 DEF BeginTurn
  <2> QED BY <2>1, <2>2, QueueSame DEF QueueInv
<1>3. ASSUME queue' = queue, req' = req, Past(turn.at), Past(turn'.at)
      PROVE  QueueInv'
  <2>1. Holds(Turn) /\ turn.at # "none" /\ turn'.at # "none"
    BY <1>3 DEF QueueInv, Past
  <2> QED BY <1>3, <2>1, QueueSame DEF QueueInv
<1>4. CASE Park
  <2>1. turn.at = "created" /\ turn'.at = "parked"
    BY <1>4, QueueTyped DEF Park, Moved, TurnAt
  <2> QED BY <1>3, <1>4, <2>1 DEF Park, Past
<1>5. CASE Wake
  <2>1. turn.at = "parked" /\ turn'.at = "resolve"
    BY <1>5, QueueTyped DEF Wake, Resume, TurnAt
  <2> QED BY <1>3, <1>5, <2>1 DEF Wake, Resume, Past
<1>6. CASE Timeout
  <2>1. turn.at = "parked" /\ turn'.at = "resolve"
    BY <1>6, QueueTyped DEF Timeout, Resume, TurnAt
  <2> QED BY <1>3, <1>6, <2>1 DEF Timeout, Resume, Past
<1>7. CASE ResolveInline
  <2>1. turn.at = "resolve" /\ turn'.at = "model"
    BY <1>7, QueueTyped DEF ResolveInline, Moved, TurnAt
  <2> QED BY <1>3, <1>7, <2>1 DEF ResolveInline, Past
<1>8. ASSUME NEW o \in Ops, Propose(o) PROVE QueueInv'
  <2>1. turn.at = "model" /\ turn'.at = "created"
    BY <1>8, QueueTyped DEF Propose, TurnAt
  <2> QED BY <1>3, <1>8, <2>1 DEF Propose, Past
<1>9. ASSUME Past(turn.at), turn' = NoTurn, queue' = Tail(queue), req' = req
      PROVE  QueueInv'
  <2>1. Holds(Turn) /\ turn'.at = "none"
    BY <1>9 DEF QueueInv, NoTurn
  <2> QED BY <1>0, <1>9, <2>1, QueueLeave
<1>10. CASE Commit
  BY <1>9, <1>10 DEF Commit, TurnAt, Past
<1>11. CASE TurnFails
  BY <1>9, <1>11 DEF TurnFails, TurnAt, Past
<1>12. ASSUME NEW o \in Ops, Lapse(o) PROVE QueueInv'
  BY <1>12, QueueSame DEF Lapse, gateVars, QueueInv
<1>13. ASSUME NEW o \in Ops, NEW r \in Requests, NEW a \in Actions, Deliver(r, o, a)
       PROVE QueueInv'
  <2>1. queue' = queue /\ turn' = turn
    BY <1>13 DEF Deliver
  <2>2. req[r].at = "new" /\ req'[r].at = "delivered"
    BY <1>13, QueueTyped DEF Deliver, Enters
  <2>3. \A q \in Requests : q # r => req'[q] = req[q]
    BY <1>13, QueueTyped DEF Deliver, Enters
  <2>4. \A q \in Requests : /\ Waits(req'[q].at) <=> Waits(req[q].at)
                            /\ req'[q].at = "run" => Holds(q)
    BY <2>2, <2>3 DEF Waits, QueueInv
  <2> QED BY <2>1, <2>4, QueueSame DEF QueueInv
<1>14. ASSUME NEW o \in Ops, NEW r \in Requests, NEW a \in Actions, QueueUp(r, o, a)
       PROVE QueueInv'
  <2>1. queue' = Append(queue, r) /\ turn' = turn
    BY <1>14 DEF QueueUp, gateVars
  <2>2. req[r].at = "new" /\ req'[r].at = "lock"
    BY <1>14, QueueTyped DEF QueueUp, Enters
  <2>3. \A q \in Requests : q # r => req'[q] = req[q]
    BY <1>14, QueueTyped DEF QueueUp, Enters
  <2>4. ~InQ(queue, r)
    BY <2>2 DEF QueueInv, Waits
  <2> QED BY <1>0, <2>1, <2>2, <2>3, <2>4, QueueJoin
<1>15. ASSUME NEW r \in Requests, Granted(r) PROVE QueueInv'
  <2>1. queue' = queue /\ turn' = turn
    BY <1>15 DEF Granted, gateVars
  <2>2. req[r].at = "lock" /\ Holds(r) /\ req'[r].at = "run"
    BY <1>15, QueueTyped DEF Granted
  <2>3. \A q \in Requests : q # r => req'[q] = req[q]
    BY <1>15, QueueTyped DEF Granted
  <2>4. \A q \in Requests : /\ Waits(req'[q].at) <=> Waits(req[q].at)
                            /\ req'[q].at = "run" => Holds(q)
    BY <2>2, <2>3 DEF Waits, QueueInv
  <2> QED BY <2>1, <2>4, QueueSame DEF QueueInv
<1>16. ASSUME NEW r \in Requests, RunUserAction(r) PROVE QueueInv'
  <2>1. queue' = Tail(queue) /\ turn' = turn /\ Holds(r)
    BY <1>16 DEF RunUserAction, Answer, gateVars, QueueInv
  <2>2. req'[r].at = "answered"
    BY <1>16, QueueTyped DEF RunUserAction, Answer
  <2>3. \A q \in Requests : q # r => req'[q] = req[q]
    BY <1>16, QueueTyped DEF RunUserAction, Answer
  <2>4. ~Waits(req'[r].at) /\ r # Turn
    BY <1>0, <2>2 DEF Waits
  <2> QED BY <2>1, <2>3, <2>4, QueueLeave
<1>17. CASE UNCHANGED vars
  BY <1>17, QueueSame DEF vars, gateVars, QueueInv
<1> QED BY <1>1, <1>2, <1>4, <1>5, <1>6, <1>7, <1>8, <1>10, <1>11, <1>12, <1>13,
           <1>14, <1>15, <1>16, <1>17 DEF Next, TurnStep, RequestStep

\* The futures, one step per action.
LEMMA GateStep == IInv /\ [Next]_vars => GateInv'
<1> SUFFICES ASSUME TypeOK, GateInv, [Next]_vars PROVE GateInv'
  BY DEF IInv
<1> DEFINE TurnOp == turn.at \in {"created", "parked", "resolve"} => turn.op \in Ops
           ReqOp == \A r \in Requests : req[r].at # "new" => req[r].op \in Ops
<1>0. waiter \in [Ops -> {"none", "open"} \cup Actions]
  BY DEF TypeOK
<1> USE DEF TurnAt
<1>1. ASSUME req' = req, waiter' = waiter,
             turn.at # "parked", turn'.at # "parked",
             turn'.at \in {"created", "resolve"} => turn'.op \in Ops
      PROVE  GateInv'
  BY <1>1 DEF GateInv, WaiterOnlyWhileParked
<1>2. CASE StartTurn
  <2>1. turn'.at = "lock"
    BY <1>2, QueueTyped DEF StartTurn, Moved
  <2> QED BY <1>1, <1>2, <2>1 DEF StartTurn
<1>3. CASE BeginTurn
  <2>1. turn'.at = "model"
    BY <1>3, QueueTyped DEF BeginTurn, Moved
  <2> QED BY <1>1, <1>3, <2>1 DEF BeginTurn
<1>4. CASE ResolveInline
  <2>1. turn'.at = "model"
    BY <1>4, QueueTyped DEF ResolveInline, Moved
  <2> QED BY <1>1, <1>4, <2>1 DEF ResolveInline
<1>5. ASSUME NEW o \in Ops, Propose(o) PROVE GateInv'
  <2>1. turn'.at = "created" /\ turn'.op = o
    BY <1>5, QueueTyped DEF Propose
  <2> QED BY <1>1, <1>5, <2>1 DEF Propose
<1>6. CASE Commit \/ TurnFails
  <2>1. turn'.at = "none"
    BY <1>6 DEF Commit, TurnFails, NoTurn
  <2> QED BY <1>1, <1>6, <2>1 DEF Commit, TurnFails
<1>7. CASE Park
  <2>1. turn.at = "created" /\ turn'.at = "parked" /\ turn'.op = turn.op
    BY <1>7, QueueTyped DEF Park, Moved
  <2>2. turn.op \in Ops /\ waiter' = [waiter EXCEPT ![turn.op] = "open"] /\ req' = req
    BY <1>7, <2>1 DEF Park, GateInv
  <2>3. \A o \in Ops : waiter'[o] # "none" <=> o = turn.op
    BY <1>0, <2>1, <2>2 DEF GateInv, WaiterOnlyWhileParked
  <2> QED BY <2>1, <2>2, <2>3 DEF GateInv, WaiterOnlyWhileParked
<1>8. CASE Wake \/ Timeout
  <2>1. turn.at = "parked" /\ turn'.at = "resolve" /\ turn'.op = turn.op
    BY <1>8, QueueTyped DEF Wake, Timeout, Resume
  <2>2. turn.op \in Ops /\ waiter' = [waiter EXCEPT ![turn.op] = "none"] /\ req' = req
    BY <1>8, <2>1 DEF Wake, Timeout, Resume, GateInv
  <2>3. \A o \in Ops : waiter'[o] = "none"
    BY <1>0, <2>1, <2>2 DEF GateInv, WaiterOnlyWhileParked
  <2> QED BY <2>1, <2>2, <2>3 DEF GateInv, WaiterOnlyWhileParked
<1>9. ASSUME NEW o \in Ops, Lapse(o) PROVE GateInv'
  BY <1>9 DEF Lapse, gateVars, GateInv, WaiterOnlyWhileParked
<1>10. ASSUME NEW o \in Ops, NEW r \in Requests, NEW a \in Actions, Deliver(r, o, a)
       PROVE GateInv'
  <2>1. turn' = turn /\ waiter[o] = "open" /\ waiter' = [waiter EXCEPT ![o] = a]
    BY <1>10 DEF Deliver
  <2>2. \A p \in Ops : waiter'[p] # "none" <=> waiter[p] # "none"
    BY <1>0, <2>1 DEF Actions
  <2>3. \A q \in Requests : req'[q].at # "new" => req'[q].op \in Ops
    BY <1>10, QueueTyped DEF Deliver, Enters, GateInv
  <2> QED BY <2>1, <2>2, <2>3 DEF GateInv, WaiterOnlyWhileParked
<1>11. ASSUME NEW o \in Ops, NEW r \in Requests, NEW a \in Actions, QueueUp(r, o, a)
       PROVE GateInv'
  <2>1. turn' = turn /\ waiter' = waiter
    BY <1>11 DEF QueueUp, gateVars
  <2>2. \A q \in Requests : req'[q].at # "new" => req'[q].op \in Ops
    BY <1>11, QueueTyped DEF QueueUp, Enters, GateInv
  <2> QED BY <2>1, <2>2 DEF GateInv, WaiterOnlyWhileParked
<1>12. ASSUME NEW r \in Requests, RequestStep(r) PROVE GateInv'
  <2>1. turn' = turn /\ waiter' = waiter
    BY <1>12 DEF RequestStep, Granted, RunUserAction, gateVars
  <2>2. \A q \in Requests : req'[q].at # "new" => req'[q].op \in Ops
    BY <1>12, QueueTyped DEF RequestStep, Granted, RunUserAction, Answer, GateInv
  <2> QED BY <2>1, <2>2 DEF GateInv, WaiterOnlyWhileParked
<1>13. CASE UNCHANGED vars
  BY <1>13 DEF vars, gateVars, GateInv, WaiterOnlyWhileParked
<1> QED BY <1>2, <1>3, <1>4, <1>5, <1>6, <1>7, <1>8, <1>9, <1>10, <1>11, <1>12,
           <1>13 DEF Next, TurnStep

LEMMA InvAlways == Spec => []IInv
<1>1. IInv /\ [Next]_vars => IInv'
  BY TypeStep, QueueStep, GateStep DEF IInv
<1> QED BY <1>1, InvInit, PTL DEF Spec

-----------------------------------------------------------------------------
\* The gate's variables stay in the ranges the code gives them.
THEOREM TypeCorrect == Spec => []TypeOK
<1>1. IInv => TypeOK
  BY DEF IInv
<1> QED BY <1>1, InvAlways, PTL

\* However many requests and turns there are, and although a parked turn is
\* answered without the lock, the store and the chain have one user at a time.
THEOREM Serialised == Spec => []OneAtATime
<1>1. IInv => OneAtATime
  BY HeadIsAlone DEF IInv
<1> QED BY <1>1, InvAlways, PTL

\* A future is registered exactly while a turn is parked on its operation.
THEOREM NoStaleFuture == Spec => []WaiterOnlyWhileParked
<1>1. IInv => WaiterOnlyWhileParked
  BY DEF IInv, GateInv
<1> QED BY <1>1, InvAlways, PTL

-----------------------------------------------------------------------------
(* What the records tell.                                                   *)

\* What records, entries and seals say of an operation.
Has(s, o) == \E i \in 1..Len(s) : s[i].op = o
AtMostOne(s) == \A i, j \in 1..Len(s) : s[i].op = s[j].op => i = j
True(s) == \A i \in 1..Len(s) : s[i].decision \in Final => status[s[i].op] = s[i].decision
Gated == turn.at \in {"created", "parked", "resolve"}

\* A running turn has an entry for every operation it created but the one it is
\* gated on, which is still pending; a turn that has not begun has neither.
TurnInv ==
    /\ turn.at \in {"none", "lock"} => created = {} /\ entries = <<>>
    /\ Gated => /\ turn.op \in created /\ status[turn.op] = "pending"
                /\ ~Has(entries, turn.op)
    /\ \A o \in Ops : Has(entries, o) => o \in created
    /\ \A o \in created : Has(entries, o) \/ (Gated /\ turn.op = o)

\* Committed records cover the owed operations; nothing is said twice; what is
\* said of a final outcome is so.
SaidInv ==
    /\ \A o \in Ops : Has(records, o) <=> o \in owed
    /\ created \cap owed = {}
    /\ \A o \in created \cup owed : status[o] # "none"
    /\ AtMostOne(entries) /\ AtMostOne(records) /\ AtMostOne(sealed)
    /\ True(entries) /\ True(records) /\ True(sealed)
    /\ \A i \in 1..Len(sealed) : sealed[i].decision \in Actions
    /\ \A i \in 1..Len(sealed) :
        /\ \A j \in 1..Len(entries) :
            entries[j].op = sealed[i].op => entries[j].decision \notin Actions
        /\ \A j \in 1..Len(records) :
            records[j].op = sealed[i].op => records[j].decision \notin Actions

RecInv == TurnInv /\ SaidInv

LEMMA SeqElems ==
    ASSUME NEW S, NEW s \in Seq(S)
    PROVE  /\ Len(s) \in Nat /\ DOMAIN s = 1..Len(s)
           /\ \A i \in 1..Len(s) : s[i] \in S
  OBVIOUS

LEMMA AppendElems ==
    ASSUME NEW S, NEW s \in Seq(S), NEW e \in S
    PROVE  /\ Append(s, e) \in Seq(S) /\ Len(Append(s, e)) = Len(s) + 1
           /\ \A i \in 1..Len(s) : Append(s, e)[i] = s[i]
           /\ Append(s, e)[Len(s) + 1] = e
           /\ \A i \in 1..Len(Append(s, e)) : i \in 1..Len(s) \/ i = Len(s) + 1
           /\ Len(s) + 1 \in 1..Len(Append(s, e))
           /\ \A i \in 1..Len(s) : i \in 1..Len(Append(s, e)) /\ i # Len(s) + 1
  OBVIOUS

LEMMA ConcatElems ==
    ASSUME NEW S, NEW s \in Seq(S), NEW t \in Seq(S)
    PROVE  /\ s \o t \in Seq(S) /\ Len(s \o t) = Len(s) + Len(t)
           /\ \A i \in 1..Len(s) : (s \o t)[i] = s[i]
           /\ \A i \in 1..Len(t) : (s \o t)[Len(s) + i] = t[i]
           /\ \A i \in 1..Len(s \o t) :
                i \in 1..Len(s) \/ (i - Len(s) \in 1..Len(t) /\ i = Len(s) + (i - Len(s)))
           /\ \A i \in 1..Len(s) : i \in 1..Len(s \o t)
           /\ \A i \in 1..Len(t) : Len(s) + i \in 1..Len(s \o t)
  OBVIOUS

LEMMA SeqsTyped ==
    ASSUME TypeOK
    PROVE  entries \in Seq(Entries) /\ records \in Seq(Entries) /\ sealed \in Seq(Entries)
  BY DEF TypeOK

LEMMA SaidOfOps ==
    ASSUME TypeOK, NEW s \in {entries, records, sealed}
    PROVE  DOMAIN s = 1..Len(s) /\ \A i \in 1..Len(s) : s[i].op \in Ops
<1>1. s \in Seq(Entries)
  BY SeqsTyped
<1>2. DOMAIN s = 1..Len(s) /\ \A i \in 1..Len(s) : s[i] \in Entries
  BY <1>1, SeqElems
<1> QED BY <1>2 DEF Entries

\* An entry more about an operation nothing was said of.
LEMMA HasAppend ==
    ASSUME NEW s \in Seq(Entries), NEW e \in Entries, AtMostOne(s), ~Has(s, e.op)
    PROVE  /\ AtMostOne(Append(s, e))
           /\ \A o : Has(Append(s, e), o) <=> Has(s, o) \/ o = e.op
<1> DEFINE t == Append(s, e)
<1>1. /\ Len(t) = Len(s) + 1 /\ t[Len(s) + 1] = e
      /\ \A i \in 1..Len(s) : t[i] = s[i]
      /\ \A i \in 1..Len(t) : i \in 1..Len(s) \/ i = Len(s) + 1
      /\ Len(s) + 1 \in 1..Len(t)
      /\ \A i \in 1..Len(s) : i \in 1..Len(t)
  BY AppendElems
<1> HIDE DEF t
<1>2. AtMostOne(t)
  BY <1>1 DEF AtMostOne, Has
<1>3. \A o : Has(t, o) <=> Has(s, o) \/ o = e.op
  BY <1>1 DEF Has
<1> QED BY <1>2, <1>3 DEF t

\* Two sequences about different operations, one after the other.
LEMMA HasConcat ==
    ASSUME NEW s \in Seq(Entries), NEW t \in Seq(Entries), AtMostOne(s), AtMostOne(t),
           \A o : ~(Has(s, o) /\ Has(t, o))
    PROVE  /\ AtMostOne(s \o t)
           /\ \A o : Has(s \o t, o) <=> Has(s, o) \/ Has(t, o)
<1> DEFINE u == s \o t
<1>0. /\ \A i \in 1..Len(s) : u[i] = s[i] /\ i \in 1..Len(u)
      /\ \A i \in 1..Len(t) : u[Len(s) + i] = t[i] /\ Len(s) + i \in 1..Len(u)
      /\ \A i \in 1..Len(u) : i \in 1..Len(s)
            \/ (i - Len(s) \in 1..Len(t) /\ i = Len(s) + (i - Len(s)))
  BY ConcatElems
<1>1. /\ \A i \in 1..Len(s) : u[i] = s[i]
      /\ \A i \in 1..Len(t) : u[Len(s) + i] = t[i]
      /\ \A i \in 1..Len(u) : i \in 1..Len(s) \/ \E k \in 1..Len(t) : i = Len(s) + k
      /\ \A i \in 1..Len(s) : i \in 1..Len(u)
      /\ \A i \in 1..Len(t) : Len(s) + i \in 1..Len(u)
  <2> HIDE DEF u
  <2> QED BY <1>0
<1> HIDE DEF u
<1>2. AtMostOne(u)
  <2> SUFFICES ASSUME NEW i \in 1..Len(u), NEW j \in 1..Len(u), u[i].op = u[j].op
               PROVE  i = j
    BY DEF AtMostOne
  <2>1. CASE i \in 1..Len(s) /\ j \in 1..Len(s)
    BY <1>1, <2>1 DEF AtMostOne
  <2>2. ASSUME NEW k \in 1..Len(t), i = Len(s) + k, NEW l \in 1..Len(t), j = Len(s) + l
        PROVE  i = j
    BY <1>1, <2>2 DEF AtMostOne
  <2>3. ASSUME NEW a \in 1..Len(s), NEW k \in 1..Len(t), u[a].op = u[Len(s) + k].op
        PROVE  FALSE
    <3>1. s[a].op = t[k].op
      BY <1>1, <2>3
    <3>2. Has(s, s[a].op) /\ Has(t, t[k].op)
      BY DEF Has
    <3> QED BY <3>1, <3>2
  <2> QED BY <1>1, <2>1, <2>2, <2>3
<1>3. ASSUME NEW o PROVE Has(u, o) <=> Has(s, o) \/ Has(t, o)
  <2>1. ASSUME Has(u, o) PROVE Has(s, o) \/ Has(t, o)
    BY <1>1, <2>1, ZenonT(40) DEF Has
  <2>2. ASSUME Has(s, o) PROVE Has(u, o)
    BY <1>1, <2>2 DEF Has
  <2>3. ASSUME Has(t, o) PROVE Has(u, o)
    BY <1>1, <2>3 DEF Has
  <2> QED BY <2>1, <2>2, <2>3
<1> QED BY <1>2, <1>3 DEF u

\* A final outcome stays, whatever a user action does to the operation.
LEMMA FinalStays ==
    ASSUME NEW o \in Ops, NEW a \in Actions, NEW s \in After(o, a), status[o] \in Final
    PROVE  s = status[o]
  BY DEF After, AfterApprove, AfterReject, Actions, Final

\* What is said stays true when the operations it is said of keep their status.
LEMMA StaysTrue ==
    ASSUME NEW s, True(s), \A o \in Ops : Has(s, o) /\ status[o] \in Final
                                            => status'[o] = status[o],
           \A i \in 1..Len(s) : s[i].op \in Ops
    PROVE  \A i \in 1..Len(s) :
              s[i].decision \in Final => status'[s[i].op] = s[i].decision
  BY DEF True, Has

\* A step that leaves the records, the created operations and the gate alone.
LEMMA RecSame ==
    ASSUME RecInv, UNCHANGED <<created, entries, records, sealed, owed, status>>,
           Gated' <=> Gated, Gated => turn'.op = turn.op,
           turn'.at \in {"none", "lock"} => turn.at \in {"none", "lock"}
    PROVE  RecInv'
<1>1. TurnInv'
  BY DEF RecInv, TurnInv, Has
<1>2. SaidInv'
  BY DEF RecInv, SaidInv, Has, AtMostOne, True
<1> QED BY <1>1, <1>2 DEF RecInv

LEMMA RecInit == Init => RecInv
  BY DEF Init, RecInv, TurnInv, SaidInv, Has, AtMostOne, True, NoTurn, Gated

LEMMA RecPropose ==
    ASSUME IInv, RecInv, NEW o \in Ops, Propose(o) PROVE RecInv'
<1>1. /\ turn.at = "model" /\ status[o] = "none" /\ ~Gated
      /\ status' = [status EXCEPT ![o] = "pending"] /\ created' = created \cup {o}
      /\ UNCHANGED <<entries, records, sealed, owed>>
  BY DEF Propose, TurnAt, Gated, chainVars
<1>2. turn'.at = "created" /\ turn'.op = o
  BY QueueTyped DEF IInv, Propose
<1>3. status'[o] = "pending" /\ \A p \in Ops \ {o} : status'[p] = status[p]
  BY <1>1 DEF IInv, TypeOK
<1>4. o \notin created /\ o \notin owed /\ ~Has(entries, o) /\ ~Has(records, o)
  BY <1>1 DEF RecInv, TurnInv, SaidInv
<1>5. \A s \in {entries, records, sealed} : \A i \in 1..Len(s) : s[i].op \in Ops
  BY SaidOfOps DEF IInv
<1>6. TurnInv'
  BY <1>1, <1>2, <1>3, <1>4 DEF RecInv, TurnInv, Has, Gated
<1>7. \A s \in {entries, records, sealed} : True(s) =>
         \A i \in 1..Len(s) : s[i].decision \in Final => status'[s[i].op] = s[i].decision
  BY <1>1, <1>3, <1>5, StaysTrue DEF Final
<1>8. SaidInv'
  <2>1. \A s \in {entries, records, sealed} : True(s)
    BY DEF RecInv, SaidInv
  <2>2. True(entries)' /\ True(records)' /\ True(sealed)'
    BY <1>1, <1>7, <2>1 DEF True
  <2>3. /\ created' \cap owed' = {}
        /\ \A p \in created' \cup owed' : status'[p] # "none"
    BY <1>1, <1>3, <1>4 DEF RecInv, SaidInv, IInv, TypeOK
  <2> QED BY <1>1, <2>2, <2>3 DEF RecInv, SaidInv, Has, AtMostOne
<1> QED BY <1>6, <1>8 DEF RecInv

LEMMA RecCommit == ASSUME IInv, RecInv, Commit PROVE RecInv'
<1>1. /\ turn.at = "model" /\ ~Gated
      /\ records' = records \o entries /\ owed' = owed \cup created
      /\ created' = {} /\ entries' = <<>> /\ turn'.at = "none" /\ ~Gated'
      /\ UNCHANGED <<sealed, status>>
  BY DEF Commit, TurnAt, NoTurn, Gated, storeVars
<1>2. entries \in Seq(Entries) /\ records \in Seq(Entries) /\ sealed \in Seq(Entries)
  BY SeqsTyped DEF IInv
<1>3. \A o \in Ops : Has(entries, o) <=> o \in created
  BY <1>1 DEF RecInv, TurnInv, IInv, TypeOK
<1>4. \A o : Has(records, o) \/ Has(entries, o) => o \in Ops
  BY SaidOfOps DEF Has, IInv
<1>5. \A o : ~(Has(records, o) /\ Has(entries, o))
  BY <1>3, <1>4 DEF RecInv, SaidInv
<1>6. /\ AtMostOne(records')
      /\ \A o : Has(records', o) <=> Has(records, o) \/ Has(entries, o)
  BY <1>1, <1>2, <1>5, HasConcat DEF RecInv, SaidInv
<1>7. ASSUME NEW i \in 1..Len(records')
      PROVE  \/ \E j \in 1..Len(records) : records'[i] = records[j]
             \/ \E j \in 1..Len(entries) : records'[i] = entries[j]
  BY <1>1, <1>2, <1>7, ConcatElems, SMTT(30)
<1>8. TurnInv'
  BY <1>1 DEF TurnInv, Has
<1>9. SaidInv'
  <2>1. \A o \in Ops : Has(records', o) <=> o \in owed'
    BY <1>1, <1>3, <1>6 DEF RecInv, SaidInv
  <2>2. True(records)'
    BY <1>1, <1>7 DEF RecInv, SaidInv, True
  <2>3. AtMostOne(entries)' /\ True(entries)' /\ AtMostOne(sealed)' /\ True(sealed)'
    BY <1>1 DEF RecInv, SaidInv, True, AtMostOne
  <2>4. \A i \in 1..Len(sealed) : \A j \in 1..Len(records') :
            records'[j].op = sealed[i].op => records'[j].decision \notin Actions
    BY <1>7 DEF RecInv, SaidInv
  <2>5. \A p \in owed' : status'[p] # "none"
    BY <1>1 DEF RecInv, SaidInv
  <2> QED BY <1>1, <1>6, <2>1, <2>2, <2>3, <2>4, <2>5 DEF SaidInv, RecInv, Has
<1> QED BY <1>8, <1>9 DEF RecInv

\* A turn that fails says nothing, and nothing was said of what it was gated on.
LEMMA RecTurnFails == ASSUME IInv, RecInv, TurnFails PROVE RecInv'
<1> DEFINE o == turn.op
<1>1. /\ created' = {} /\ entries' = <<>> /\ turn'.at = "none" /\ ~Gated'
      /\ UNCHANGED <<records, sealed, owed>>
  BY DEF TurnFails, NoTurn, Gated, chainVars
<1>2. \A s \in {records, sealed} : \A i \in 1..Len(s) : s[i].op \in Ops
  BY SaidOfOps DEF IInv
<1>3. /\ \A p \in Ops : status[p] \in Final => status'[p] = status[p]
      /\ \A p \in owed : status'[p] # "none"
  <2>1. CASE UNCHANGED status
    BY <2>1 DEF RecInv, SaidInv
  <2>2. CASE /\ TurnAt("resolve")
             /\ \E s \in After(o, turn.decision) : status' = [status EXCEPT ![o] = s]
    <3>1. o \in Ops /\ o \in created /\ o \notin owed /\ status[o] = "pending"
      BY <2>2 DEF RecInv, TurnInv, SaidInv, Gated, TurnAt, IInv, TypeOK
    <3>2. \A p \in Ops \ {o} : status'[p] = status[p]
      BY <2>2, <3>1 DEF IInv, TypeOK
    <3> QED BY <3>1, <3>2 DEF RecInv, SaidInv, Final, IInv, TypeOK
  <2> QED BY <2>1, <2>2 DEF TurnFails
<1>4. \A s \in {records, sealed} : True(s) =>
         \A i \in 1..Len(s) : s[i].decision \in Final => status'[s[i].op] = s[i].decision
  BY <1>2, <1>3, StaysTrue
<1>5. TurnInv'
  BY <1>1 DEF TurnInv, Has
<1>6. SaidInv'
  <2>1. True(records) /\ True(sealed)
    BY DEF RecInv, SaidInv
  <2>2. True(records)' /\ True(sealed)'
    BY <1>1, <1>4, <2>1 DEF True
  <2>3. AtMostOne(entries)' /\ True(entries)'
    BY <1>1 DEF True, AtMostOne
  <2> QED BY <1>1, <1>3, <2>2, <2>3 DEF RecInv, SaidInv, Has, AtMostOne
<1> QED BY <1>5, <1>6 DEF RecInv

\* The gated operation is pending, so nothing final was said of it; the entry says
\* what becomes of it.
LEMMA RecResolve == ASSUME IInv, RecInv, ResolveInline PROVE RecInv'
<1>0. PICK o : o = turn.op
  OBVIOUS
<1>1. /\ o \in Ops /\ o \in created /\ o \notin owed /\ status[o] = "pending"
      /\ ~Has(entries, o) /\ turn.at = "resolve" /\ turn.decision \in Decisions
  BY <1>0 DEF ResolveInline, RecInv, TurnInv, SaidInv, Gated, TurnAt, IInv, TypeOK
<1>2. PICK s \in After(o, turn.decision) : \E d \in Reported(turn.decision, s) :
        /\ status' = [status EXCEPT ![o] = s]
        /\ entries' = Append(entries, [op |-> o, decision |-> d])
  BY <1>0 DEF ResolveInline
<1>3. PICK d \in Reported(turn.decision, s) :
        /\ status' = [status EXCEPT ![o] = s]
        /\ entries' = Append(entries, [op |-> o, decision |-> d])
  BY <1>2
<1>4. /\ turn'.at = "model" /\ ~Gated'
      /\ UNCHANGED <<created, records, sealed, owed>>
  BY QueueTyped DEF IInv, ResolveInline, Moved, Gated, chainVars
<1>5. status'[o] = s /\ \A p \in Ops \ {o} : status'[p] = status[p]
  BY <1>1, <1>3 DEF IInv, TypeOK
<1>6. d \in Outcomes /\ (d \in Final => d = s) /\ s # "none"
  BY <1>1 DEF Reported, After, AfterApprove, AfterReject, Decisions, Actions, Outcomes, Final
<1>7. PICK e : e = [op |-> o, decision |-> d]
  OBVIOUS
<1>8. e \in Entries /\ e.op = o /\ e.decision = d
  BY <1>1, <1>6, <1>7 DEF Entries
<1>9. entries \in Seq(Entries) /\ entries' = Append(entries, e)
  BY <1>3, <1>7, SeqsTyped DEF IInv
<1>10. /\ AtMostOne(entries')
       /\ \A p : Has(entries', p) <=> Has(entries, p) \/ p = o
  BY <1>1, <1>8, <1>9, HasAppend DEF RecInv, SaidInv
<1>11. \A i \in 1..Len(entries') :
          entries'[i] = e \/ \E j \in 1..Len(entries) : entries'[i] = entries[j]
  BY <1>8, <1>9, AppendElems
<1>12. \A q \in {entries, records, sealed} : \A i \in 1..Len(q) : q[i].op \in Ops
  BY SaidOfOps DEF IInv
<1>13. \A q \in {entries, records, sealed} : True(q) =>
         \A i \in 1..Len(q) : q[i].decision \in Final => status'[q[i].op] = q[i].decision
  BY <1>1, <1>5, <1>12, StaysTrue DEF Final
<1>14. TurnInv'
  BY <1>1, <1>4, <1>10 DEF RecInv, TurnInv, Gated, Has, TurnAt
<1>15. SaidInv'
  <2>1. True(entries) /\ True(records) /\ True(sealed)
    BY DEF RecInv, SaidInv
  <2>2. True(records)' /\ True(sealed)'
    BY <1>4, <1>13, <2>1 DEF True
  <2>3. True(entries)'
    BY <1>5, <1>6, <1>8, <1>11, <1>13, <2>1 DEF True
  <2>4. \A i \in 1..Len(sealed) : sealed[i].op # o
    BY <1>1, <2>1 DEF RecInv, SaidInv, True, Actions, Final
  <2>5. \A i \in 1..Len(sealed) : \A j \in 1..Len(entries') :
            entries'[j].op = sealed[i].op => entries'[j].decision \notin Actions
    BY <1>8, <1>11, <2>4 DEF RecInv, SaidInv
  <2>6. \A p \in created' \cup owed' : status'[p] # "none"
    BY <1>4, <1>5, <1>6 DEF RecInv, SaidInv, IInv, TypeOK
  <2> QED BY <1>4, <1>10, <2>2, <2>3, <2>5, <2>6 DEF RecInv, SaidInv, Has, AtMostOne
<1> QED BY <1>14, <1>15 DEF RecInv

\* A user action runs while no turn works; what it seals was not final before, so
\* nothing final was said of it.
LEMMA RecUserAction ==
    ASSUME IInv, RecInv, NEW r \in Requests, RunUserAction(r) PROVE RecInv'
<1>0. PICK o, a : o = req[r].op /\ a = req[r].action
  OBVIOUS
<1>1. o \in Ops /\ a \in Actions
  BY <1>0 DEF RunUserAction, IInv, GateInv, TypeOK
<1>2. PICK s \in After(o, a) :
        /\ status' = [status EXCEPT ![o] = s]
        /\ sealed' = IF s = a /\ s # status[o]
                       THEN Append(sealed, [op |-> o, decision |-> a]) ELSE sealed
  BY <1>0 DEF RunUserAction
<1>3. UNCHANGED <<turn, created, entries, records, owed>>
  BY DEF RunUserAction, gateVars
<1>4. turn.at \in {"none", "lock"} /\ ~Gated /\ ~Gated'
  <2>1. Holds(r) /\ r # Turn
    BY ConstantsAssumption DEF RunUserAction, IInv, QueueInv
  <2>2. turn.at \in {"none", "lock"}
    BY <2>1 DEF IInv, QueueInv, Holds, Past
  <2> QED BY <1>3, <2>2 DEF Gated
<1>5. status'[o] = s /\ \A p \in Ops \ {o} : status'[p] = status[p]
  BY <1>1, <1>2 DEF IInv, TypeOK
<1>6. /\ \A p \in Ops : status[p] \in Final => status'[p] = status[p]
      /\ status[o] # "none" => s # "none"
  BY <1>1, <1>5, FinalStays DEF After, AfterApprove, AfterReject, Actions
<1>7. \A q \in {entries, records, sealed} : \A i \in 1..Len(q) : q[i].op \in Ops
  BY SaidOfOps DEF IInv
<1>8. \A q \in {entries, records, sealed} : True(q) =>
         \A i \in 1..Len(q) : q[i].decision \in Final => status'[q[i].op] = q[i].decision
  BY <1>6, <1>7, StaysTrue
<1>9. TurnInv'
  BY <1>3, <1>4 DEF RecInv, TurnInv, Has
<1>10. SaidInv'
  <2>1. True(entries) /\ True(records) /\ True(sealed)
    BY DEF RecInv, SaidInv
  <2>2. /\ True(entries)' /\ True(records)'
        /\ \A p \in created' \cup owed' : status'[p] # "none"
    BY <1>3, <1>5, <1>6, <1>8, <2>1 DEF True, RecInv, SaidInv, IInv, TypeOK
  <2>3. CASE sealed' = sealed
    <3>1. True(sealed)'
      BY <1>8, <2>1, <2>3 DEF True
    <3> QED BY <1>3, <2>2, <2>3, <3>1 DEF RecInv, SaidInv, Has, AtMostOne
  <2>4. ASSUME s = a, s # status[o], sealed' = Append(sealed, [op |-> o, decision |-> a])
        PROVE  SaidInv'
    <3>1. PICK e : e = [op |-> o, decision |-> a]
      OBVIOUS
    <3>2. e \in Entries /\ e.op = o /\ e.decision = a
      BY <1>1, <3>1 DEF Entries, Outcomes, Decisions
    <3>3. status[o] \notin Final
      BY <1>1, <2>4, FinalStays
    <3>4. sealed \in Seq(Entries) /\ sealed' = Append(sealed, e)
      BY <2>4, <3>1, SeqsTyped DEF IInv
    <3>5. \A i \in 1..Len(sealed) : sealed[i].op # o
      BY <2>1, <3>3 DEF RecInv, SaidInv, True, Actions, Final
    <3>6. AtMostOne(sealed')
      BY <3>2, <3>4, <3>5, HasAppend DEF RecInv, SaidInv, Has
    <3>7. \A i \in 1..Len(sealed') :
             sealed'[i] = e \/ \E j \in 1..Len(sealed) : sealed'[i] = sealed[j]
      BY <3>2, <3>4, AppendElems
    <3>8. True(sealed)'
      BY <1>5, <1>8, <2>1, <2>4, <3>2, <3>7 DEF True
    <3>9. \A q \in {entries, records} : \A j \in 1..Len(q) :
            q[j].op = o => q[j].decision \notin Actions
      BY <2>1, <3>3 DEF True, Actions, Final
    <3>10. \A i \in 1..Len(sealed') : sealed'[i].decision \in Actions
      BY <1>1, <3>2, <3>7 DEF RecInv, SaidInv
    <3>11. \A i \in 1..Len(sealed') :
        /\ \A j \in 1..Len(entries) :
            entries[j].op = sealed'[i].op => entries[j].decision \notin Actions
        /\ \A j \in 1..Len(records) :
            records[j].op = sealed'[i].op => records[j].decision \notin Actions
      BY <3>2, <3>7, <3>9 DEF RecInv, SaidInv
    <3> QED BY <1>3, <2>2, <3>6, <3>8, <3>10, <3>11 DEF RecInv, SaidInv, Has, AtMostOne
  <2> QED BY <1>2, <2>3, <2>4
<1> QED BY <1>9, <1>10 DEF RecInv

LEMMA RecStep == ASSUME IInv, RecInv, [Next]_vars PROVE RecInv'
<1>1. ASSUME StartTurn \/ BeginTurn \/ Park \/ Wake \/ Timeout PROVE RecInv'
  <2>1. UNCHANGED <<created, entries, records, sealed, owed, status>>
    BY <1>1 DEF StartTurn, BeginTurn, Park, Wake, Timeout, Resume, storeVars, chainVars
  <2>2. /\ Gated' <=> Gated
        /\ Gated => turn'.op = turn.op
        /\ turn'.at \in {"none", "lock"} => turn.at \in {"none", "lock"}
    BY <1>1, QueueTyped DEF IInv, StartTurn, BeginTurn, Park, Wake, Timeout, Resume,
       Moved, TurnAt, Gated
  <2> QED BY <2>1, <2>2, RecSame
<1>2. ASSUME \/ \E o \in Ops : Lapse(o) \/ \E r \in Requests, a \in Actions :
                                              Deliver(r, o, a) \/ QueueUp(r, o, a)
             \/ \E r \in Requests : Granted(r)
             \/ UNCHANGED vars
      PROVE  RecInv'
  <2>1. UNCHANGED <<turn, created, entries, records, sealed, owed, status>>
    BY <1>2 DEF Lapse, Deliver, QueueUp, Granted, gateVars, storeVars, chainVars, vars
  <2> QED BY <2>1, RecSame DEF Gated
<1> QED BY <1>1, <1>2, RecPropose, RecCommit, RecTurnFails, RecResolve, RecUserAction
           DEF Next, TurnStep, RequestStep

LEMMA RecAlways == Spec => [](IInv /\ RecInv)
<1>1. IInv /\ RecInv /\ [Next]_vars => RecInv'
  BY RecStep
<1> QED BY <1>1, InvAlways, RecInit, PTL DEF Spec

\* From the one-by-one statements to the counts of RecordTellsAll.
LEMMA RecTells == ASSUME IInv, RecInv PROVE RecordTellsAll
<1>1. \A s \in {entries, records, sealed} :
         /\ DOMAIN s = 1..Len(s) /\ \A i \in 1..Len(s) : s[i].op \in Ops
  BY SaidOfOps DEF IInv
<1>2. ASSUME NEW o \in owed PROVE Cardinality(Told(records, o)) = 1
  <2>1. o \in Ops
    BY DEF IInv, TypeOK
  <2>2. PICK i \in 1..Len(records) : records[i].op = o
    BY <2>1 DEF RecInv, SaidInv, Has
  <2>3. Told(records, o) = {i}
    BY <1>1, <2>2 DEF Told, RecInv, SaidInv, AtMostOne
  <2> QED BY <2>3, FS_Singleton
<1>3. ASSUME NEW o \in Ops
      PROVE  Cardinality(Takes(records, o)) + Cardinality(Takes(sealed, o)) <= 1
  <2>1. \A s \in {records, sealed} : \A i, j \in Takes(s, o) : i = j
    BY <1>1 DEF Takes, Told, RecInv, SaidInv, AtMostOne
  <2>2. Takes(records, o) = {} \/ Takes(sealed, o) = {}
    BY <1>1 DEF Takes, Told, RecInv, SaidInv
  <2>3. \A s \in {records, sealed} : Cardinality(Takes(s, o)) \in {0, 1}
    <3>1. ASSUME NEW s \in {records, sealed} PROVE Cardinality(Takes(s, o)) \in {0, 1}
      <4>1. CASE Takes(s, o) = {}
        BY <4>1, FS_EmptySet
      <4>2. ASSUME NEW i \in Takes(s, o) PROVE Cardinality(Takes(s, o)) \in {0, 1}
        <5>1. Takes(s, o) = {i}
          BY <2>1, <4>2
        <5> QED BY <5>1, FS_Singleton
      <4> QED BY <4>1, <4>2
    <3> QED BY <3>1
  <2>4. \A s \in {records, sealed} : Takes(s, o) = {} => Cardinality(Takes(s, o)) = 0
    BY FS_EmptySet
  <2> QED BY <2>2, <2>3, <2>4
<1>4. \A i \in DOMAIN records :
        records[i].decision \in Final => status[records[i].op] = records[i].decision
  BY <1>1 DEF RecInv, SaidInv, True
<1> QED BY <1>2, <1>3, <1>4 DEF RecordTellsAll

\* The chain accounts once, and truthfully, for every operation of a committed
\* turn, and for every approval and rejection once.
THEOREM RecordsTell == Spec => []RecordTellsAll
<1>1. IInv /\ RecInv => RecordTellsAll
  BY RecTells
<1> QED BY <1>1, RecAlways, PTL
=============================================================================
