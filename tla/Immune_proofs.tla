---------------------------- MODULE Immune_proofs ----------------------------
(***************************************************************************)
(* Theorems about the immune system.  That the sidecar is backed by the    *)
(* chain is not inductive: a rollback computes the new sidecar before it   *)
(* seals the recovery record and writes it two steps later.  The invariant *)
(* says of the sidecar in memory what SidecarBacked says of the file, but  *)
(* for the scar the running rollback is about to seal, and that the last   *)
(* record is that rollback's own once it is sealed.                        *)
(***************************************************************************)
EXTENDS Immune, SequenceTheorems, TLAPS

Rings == [type : {"genesis", "turn", "recovery"}, asked : SUBSET Words,
          said : SUBSET Words, hidden : BOOLEAN, blocks : SUBSET Nat,
          vector : SUBSET Words]

OwnScar(scar) == call.at = "seal" /\ scar.blocks = call.blocks
                                 /\ scar.vector = call.vector
OwnHeight(h) == call.at = "seal" /\ h \in call.blocks

CallBacked ==
    call.at # "idle" =>
        /\ \A k \in DOMAIN call.s.scars :
            BackedScar(call.s.scars[k]) \/ OwnScar(call.s.scars[k])
        /\ \A h \in call.s.quarantine : BackedHeight(h) \/ OwnHeight(h)

LastIsOwn ==
    /\ chain # <<>>
    /\ call.at = "seal" => ~call.s.locked /\ call.blocks = call.first..LastRing
    /\ call.at \in {"truncate", "write", "flag"} /\ ~call.s.locked =>
        call.blocks = call.first..(LastRing - 1)
    /\ call.at # "idle" /\ ~call.s.locked => call.blocks \subseteq call.s.quarantine
    /\ call.at \in {"truncate", "write", "flag"} /\ ~call.s.locked =>
        chain[Len(chain)].type = "recovery" /\ chain[Len(chain)].blocks = call.blocks
    /\ call.at = "flag" => file = call.s

IInv == TypeOK /\ SidecarBacked /\ CallBacked /\ LastIsOwn

-----------------------------------------------------------------------------
LEMMA DefaultTyped == Default \in Sidecars /\ Default.scars = <<>>
                      /\ Default.quarantine = {}
BY DEF Default, Sidecars, NoHeight

LEMMA StateTyped == TypeOK => State \in Sidecars
BY DefaultTyped DEF TypeOK, State

LEMMA IdleTyped ==
    /\ Idle \in [at : {"idle", "seal", "truncate", "write", "flag"}, s : Sidecars,
                 first : Nat, blocks : SUBSET Nat, vector : SUBSET Words]
    /\ Idle.at = "idle"
BY DefaultTyped DEF Idle

\* A record more takes no recovery away.
LEMMA BackingGrows ==
    ASSUME chain \in Seq(Rings), NEW r \in Rings, chain' = Append(chain, r)
    PROVE  /\ \A scar : BackedScar(scar) => BackedScar(scar)'
           /\ \A h : BackedHeight(h) => BackedHeight(h)'
           /\ chain' \in Seq(Rings) /\ chain' # <<>>
           /\ Len(chain') \in DOMAIN chain' /\ chain'[Len(chain')] = r
<1>1. /\ chain' \in Seq(Rings) /\ Len(chain') = Len(chain) + 1
      /\ Len(chain) \in Nat /\ DOMAIN chain = 1..Len(chain)
      /\ DOMAIN chain' = 1..Len(chain')
      /\ \A i \in 1..Len(chain) : chain'[i] = chain[i]
      /\ chain'[Len(chain) + 1] = r
  OBVIOUS
<1>2. \A i \in DOMAIN chain : i \in DOMAIN chain' /\ chain'[i] = chain[i]
  BY <1>1
<1>3. chain' # <<>> /\ Len(chain') \in DOMAIN chain' /\ chain'[Len(chain')] = r
  BY <1>1
<1>4. Recoveries \subseteq Recoveries' /\ \A i \in Recoveries : chain'[i] = chain[i]
  BY <1>2 DEF Recoveries
<1> QED BY <1>1, <1>3, <1>4 DEF BackedScar, BackedHeight

LEMMA RingTyped ==
    ASSUME NEW type \in {"genesis", "turn", "recovery"}, NEW asked \in SUBSET Words,
           NEW said \in SUBSET Words, NEW hidden \in BOOLEAN,
           NEW blocks \in SUBSET Nat, NEW vector \in SUBSET Words
    PROVE  /\ Ring(type, asked, said, hidden, blocks, vector) \in Rings
           /\ Ring(type, asked, said, hidden, blocks, vector).type = type
           /\ Ring(type, asked, said, hidden, blocks, vector).blocks = blocks
           /\ Ring(type, asked, said, hidden, blocks, vector).vector = vector
BY DEF Ring, Rings

LEMMA TypeOKRings == TypeOK => chain \in Seq(Rings)
BY DEF TypeOK, Rings

-----------------------------------------------------------------------------
LEMMA TurnKeeps ==
    ASSUME IInv, NEW input \in Texts, NEW reply \in Texts, Turn(input, reply)
    PROVE  IInv'
<1>1. PICK r \in Rings : chain' = Append(chain, r)
  <2>1. input \in SUBSET Words /\ reply \in SUBSET Words
    BY DEF Words
  <2>2. Ring("turn", input, {}, TRUE, {}, {}) \in Rings
        /\ Ring("turn", input, reply, FALSE, {}, {}) \in Rings
    BY <2>1, RingTyped
  <2> QED BY <2>2 DEF Turn
<1>2. UNCHANGED <<file, flag, call, faults>> /\ call.at = "idle"
  BY IdleTyped DEF Turn
<1>3. /\ \A scar : BackedScar(scar) => BackedScar(scar)'
      /\ \A h : BackedHeight(h) => BackedHeight(h)'
      /\ chain' \in Seq(Rings) /\ chain' # <<>>
  BY <1>1, TypeOKRings, BackingGrows DEF IInv
<1>4. TypeOK'
  BY <1>2, <1>3 DEF IInv, TypeOK, Rings
<1>5. State' = State
  BY <1>2 DEF State
<1>6. SidecarBacked'
  BY <1>3, <1>5 DEF IInv, SidecarBacked
<1>7. CallBacked' /\ LastIsOwn'
  BY <1>2, <1>3 DEF CallBacked, LastIsOwn
<1> QED BY <1>4, <1>6, <1>7 DEF IInv

LEMMA VectorTyped ==
    ASSUME TypeOK, NEW first \in 1..LastRing, NEW v \in MostCommon(first..LastRing)
    PROVE  v \in SUBSET Words /\ first..LastRing \in SUBSET Nat
           /\ first \in Nat /\ first - 1 \in Nat
<1>1. chain \in Seq(Rings)
  BY TypeOKRings
<1>2. Len(chain) \in Nat /\ LastRing = Len(chain) - 1
  BY <1>1 DEF LastRing
<1>3. first \in Nat /\ first - 1 \in Nat /\ first..LastRing \in SUBSET Nat
  BY <1>2
<1>4. \A i \in first..LastRing : i + 1 \in 1..Len(chain)
  BY <1>2
<1>5. \A i \in first..LastRing : chain[i + 1].said \in SUBSET Words
  <2> SUFFICES ASSUME NEW i \in first..LastRing PROVE chain[i + 1].said \in SUBSET Words
    OBVIOUS
  <2>1. chain[i + 1] \in Rings
    BY <1>1, <1>4
  <2> QED BY <2>1 DEF Rings
<1>6. v \in SUBSET UNION {chain[i + 1].said : i \in first..LastRing}
  BY DEF MostCommon
<1> QED BY <1>3, <1>5, <1>6

LEMMA RollbackKeeps ==
    ASSUME IInv, NEW first \in 1..LastRing, Rollback(first)
    PROVE  IInv'
<1> DEFINE blocks == first..LastRing
           scar(v) == [blocks |-> blocks, vector |-> v]
           s(v) == [locked |-> FALSE, safe |-> first - 1,
                    quarantine |-> State.quarantine \cup blocks,
                    scars |-> Append(State.scars, scar(v))]
<1>1. PICK v \in MostCommon(blocks) :
        call' = [at |-> "seal", first |-> first, blocks |-> blocks, vector |-> v,
                 s |-> s(v)]
  BY DEF Rollback, Rolls
<1>2. UNCHANGED <<chain, file, flag, faults>>
  BY DEF Rollback, Rolls
<1>3. v \in SUBSET Words /\ blocks \in SUBSET Nat /\ first \in Nat /\ first - 1 \in Nat
  BY VectorTyped DEF IInv
<1>4. State \in Sidecars /\ State.scars \in Seq(Scars) /\ State.quarantine \in SUBSET Nat
  BY StateTyped DEF IInv, Sidecars
<1> HIDE DEF blocks
<1>5. scar(v) \in Scars
  BY <1>3 DEF Scars
<1>6. /\ s(v).scars \in Seq(Scars)
      /\ DOMAIN s(v).scars = 1..(Len(State.scars) + 1)
      /\ s(v).scars[Len(State.scars) + 1] = scar(v)
      /\ \A k \in 1..Len(State.scars) : s(v).scars[k] = State.scars[k]
      /\ DOMAIN State.scars = 1..Len(State.scars) /\ Len(State.scars) \in Nat
  BY <1>4, <1>5
<1>7. s(v) \in Sidecars
  BY <1>3, <1>4, <1>6 DEF Sidecars
<1>8. /\ call'.at = "seal" /\ call'.blocks = blocks /\ call'.vector = v
      /\ call'.s = s(v) /\ s(v).locked = FALSE
      /\ s(v).quarantine = State.quarantine \cup blocks
      /\ call'.first = first
  BY <1>1
<1>9. call' \in [at : {"idle", "seal", "truncate", "write", "flag"}, s : Sidecars,
                 first : Nat, blocks : SUBSET Nat, vector : SUBSET Words]
  BY <1>1, <1>3, <1>7
<1>10. scar(v).blocks = blocks /\ scar(v).vector = v
  OBVIOUS
<1> HIDE DEF s, scar
<1>11. TypeOK'
  BY <1>2, <1>9 DEF IInv, TypeOK
<1>12. State' = State /\ SidecarBacked'
  BY <1>2 DEF IInv, State, SidecarBacked, BackedScar, BackedHeight, Recoveries
<1>13. CallBacked'
  <2>1. Recoveries' = Recoveries /\ chain' = chain
    BY <1>2 DEF Recoveries
  <2>2. ASSUME NEW k \in DOMAIN s(v).scars
        PROVE  \/ \E i \in Recoveries : /\ chain[i].blocks = s(v).scars[k].blocks
                                        /\ chain[i].vector = s(v).scars[k].vector
               \/ s(v).scars[k].blocks = blocks /\ s(v).scars[k].vector = v
    <3>1. CASE k = Len(State.scars) + 1
      BY <1>6, <1>10, <3>1
    <3>2. CASE k \in DOMAIN State.scars
      BY <1>6, <3>2 DEF IInv, SidecarBacked, BackedScar
    <3> QED BY <1>6, <2>2, <3>1, <3>2
  <2>3. ASSUME NEW h \in s(v).quarantine
        PROVE  (\E i \in Recoveries : h \in chain[i].blocks) \/ h \in blocks
    BY <1>8, <2>3 DEF IInv, SidecarBacked, BackedHeight
  <2>4. \A k \in DOMAIN call'.s.scars :
          \/ \E i \in Recoveries' : /\ chain'[i].blocks = call'.s.scars[k].blocks
                                    /\ chain'[i].vector = call'.s.scars[k].vector
          \/ /\ call'.at = "seal" /\ call'.s.scars[k].blocks = call'.blocks
             /\ call'.s.scars[k].vector = call'.vector
    BY <1>8, <2>1, <2>2
  <2>5. \A h \in call'.s.quarantine :
          (\E i \in Recoveries' : h \in chain'[i].blocks)
            \/ (call'.at = "seal" /\ h \in call'.blocks)
    BY <1>8, <2>1, <2>3
  <2> QED BY <2>4, <2>5 DEF CallBacked, BackedScar, BackedHeight, OwnScar, OwnHeight
<1>14. LastIsOwn'
  <2>1. blocks = first..LastRing /\ LastRing' = LastRing
    BY <1>2 DEF blocks, LastRing
  <2> QED BY <1>2, <1>8, <2>1 DEF IInv, LastIsOwn
<1> QED BY <1>11, <1>12, <1>13, <1>14 DEF IInv

LEMMA LockdownKeeps ==
    ASSUME IInv, Lockdown
    PROVE  IInv'
<1> DEFINE s == [State EXCEPT !.locked = TRUE]
<1>1. /\ UNCHANGED <<chain, file, flag, faults>>
      /\ call' = [Idle EXCEPT !.at = "truncate", !.s = s]
  BY DEF Lockdown
<1>2. State \in Sidecars
  BY StateTyped DEF IInv
<1>3. /\ s \in Sidecars /\ s.locked = TRUE /\ s.scars = State.scars
      /\ s.quarantine = State.quarantine
  BY <1>2 DEF Sidecars
<1> HIDE DEF s
<1>4. /\ call' \in [at : {"idle", "seal", "truncate", "write", "flag"}, s : Sidecars,
                    first : Nat, blocks : SUBSET Nat, vector : SUBSET Words]
      /\ call'.at = "truncate" /\ call'.s = s
  BY <1>1, <1>3, IdleTyped DEF Idle
<1>5. TypeOK'
  BY <1>1, <1>4 DEF IInv, TypeOK
<1>6. State' = State /\ SidecarBacked'
  BY <1>1 DEF IInv, State, SidecarBacked, BackedScar, BackedHeight, Recoveries
<1>7. CallBacked'
  <2>1. \A x : BackedScar(x)' = BackedScar(x) /\ BackedHeight(x)' = BackedHeight(x)
    BY <1>1 DEF BackedScar, BackedHeight, Recoveries
  <2> QED BY <1>3, <1>4, <2>1 DEF CallBacked, IInv, SidecarBacked
<1>8. LastIsOwn'
  BY <1>1, <1>3, <1>4 DEF IInv, LastIsOwn
<1> QED BY <1>5, <1>6, <1>7, <1>8 DEF IInv

LEMMA SealRecoveryKeeps ==
    ASSUME IInv, SealRecovery
    PROVE  IInv'
<1> DEFINE r == Ring("recovery", {}, {}, FALSE, call.blocks, call.vector)
<1>1. /\ UNCHANGED <<file, flag, faults>> /\ call.at = "seal"
      /\ chain' = Append(chain, r) /\ call' = [call EXCEPT !.at = "truncate"]
  BY DEF SealRecovery, Goto
<1>2. call.blocks \in SUBSET Nat /\ call.vector \in SUBSET Words
  BY DEF IInv, TypeOK
<1>3. /\ r \in Rings /\ r.type = "recovery" /\ r.blocks = call.blocks
      /\ r.vector = call.vector
  BY <1>2 DEF Ring, Rings
<1> HIDE DEF r
<1>4. /\ \A scar : BackedScar(scar) => BackedScar(scar)'
      /\ \A h : BackedHeight(h) => BackedHeight(h)'
      /\ chain' \in Seq(Rings) /\ chain' # <<>>
      /\ Len(chain') \in DOMAIN chain' /\ chain'[Len(chain')] = r
  BY <1>1, <1>3, TypeOKRings, BackingGrows DEF IInv
<1>5. /\ call' \in [at : {"idle", "seal", "truncate", "write", "flag"}, s : Sidecars,
                    first : Nat, blocks : SUBSET Nat, vector : SUBSET Words]
      /\ call'.at = "truncate" /\ call'.s = call.s /\ call'.blocks = call.blocks
      /\ call'.first = call.first
  BY <1>1 DEF IInv, TypeOK
<1>6. TypeOK'
  BY <1>1, <1>4, <1>5 DEF IInv, TypeOK, Rings
<1>7. State' = State /\ SidecarBacked'
  BY <1>1, <1>4 DEF IInv, State, SidecarBacked
<1>8. CallBacked'
  <2>1. Len(chain') \in Recoveries'
    BY <1>3, <1>4 DEF Recoveries
  <2>2. \A x : (OwnScar(x) => BackedScar(x)') /\ (OwnHeight(x) => BackedHeight(x)')
    BY <1>3, <1>4, <2>1 DEF OwnScar, OwnHeight, BackedScar, BackedHeight
  <2> QED BY <1>1, <1>4, <1>5, <2>2 DEF IInv, CallBacked
<1>9. LastIsOwn'
  <2>1. LastRing' - 1 = LastRing
    <3>1. chain \in Seq(Rings)
      BY TypeOKRings DEF IInv
    <3>2. Len(chain') = Len(chain) + 1 /\ Len(chain) \in Nat
      BY <1>1, <1>3, <3>1
    <3> QED BY <3>2 DEF LastRing
  <2> QED BY <1>1, <1>3, <1>4, <1>5, <2>1 DEF IInv, LastIsOwn
<1> QED BY <1>6, <1>7, <1>8, <1>9 DEF IInv

-----------------------------------------------------------------------------
(* The writes change the sidecar or the flag, never the chain.              *)

LEMMA TruncateKeeps ==
    ASSUME IInv, Truncate
    PROVE  IInv'
<1>1. /\ UNCHANGED <<chain, flag, faults>> /\ file' = Torn
      /\ call.at = "truncate" /\ call' = [call EXCEPT !.at = "write"]
  BY DEF Truncate, Goto
<1>2. /\ call' \in [at : {"idle", "seal", "truncate", "write", "flag"}, s : Sidecars,
                    first : Nat, blocks : SUBSET Nat, vector : SUBSET Words]
      /\ call'.at = "write" /\ call'.s = call.s /\ call'.blocks = call.blocks
      /\ call'.first = call.first
  BY <1>1 DEF IInv, TypeOK
<1>3. TypeOK'
  BY <1>1, <1>2 DEF IInv, TypeOK
<1>4. State' = Default
  BY <1>1 DEF State, Default
<1>5. SidecarBacked'
  BY <1>4, DefaultTyped DEF SidecarBacked
<1>6. Recoveries' = Recoveries
  BY <1>1 DEF Recoveries
<1>7. CallBacked'
  BY <1>1, <1>2, <1>6
     DEF IInv, CallBacked, BackedScar, BackedHeight, OwnScar, OwnHeight
<1>8. LastIsOwn'
  BY <1>1, <1>2 DEF IInv, LastIsOwn, LastRing
<1> QED BY <1>3, <1>5, <1>7, <1>8 DEF IInv

LEMMA WriteStateKeeps ==
    ASSUME IInv, WriteState
    PROVE  IInv'
<1>1. /\ UNCHANGED <<chain, flag, faults>> /\ file' = call.s
      /\ call.at = "write" /\ call' = [call EXCEPT !.at = "flag"]
  BY DEF WriteState, Goto
<1>2. /\ call' \in [at : {"idle", "seal", "truncate", "write", "flag"}, s : Sidecars,
                    first : Nat, blocks : SUBSET Nat, vector : SUBSET Words]
      /\ call'.at = "flag" /\ call'.s = call.s /\ call'.blocks = call.blocks
      /\ call'.first = call.first
      /\ call.s \in Sidecars
  BY <1>1 DEF IInv, TypeOK
<1>3. TypeOK'
  BY <1>1, <1>2 DEF IInv, TypeOK
<1>4. State' = call.s
  BY <1>1, <1>2, SentinelAssumption DEF State
<1>5. Recoveries' = Recoveries
  BY <1>1 DEF Recoveries
<1>6. CallBacked'
  BY <1>1, <1>2, <1>5
     DEF IInv, CallBacked, BackedScar, BackedHeight, OwnScar, OwnHeight
<1>7. SidecarBacked'
  <2>1. /\ \A k \in DOMAIN call.s.scars : BackedScar(call.s.scars[k])
        /\ \A h \in call.s.quarantine : BackedHeight(h)
    BY <1>1 DEF IInv, CallBacked, OwnScar, OwnHeight
  <2> QED BY <1>1, <1>4, <1>5, <2>1 DEF SidecarBacked, BackedScar, BackedHeight
<1>8. LastIsOwn'
  BY <1>1, <1>2 DEF IInv, LastIsOwn, LastRing
<1> QED BY <1>3, <1>6, <1>7, <1>8 DEF IInv

\* Lift, SetFlag and Stop end the call.
LEMMA EndingKeeps ==
    ASSUME IInv, Lift \/ SetFlag \/ Stop
    PROVE  IInv'
<1>1. UNCHANGED <<chain, file>> /\ call' = Idle
  BY DEF Lift, SetFlag, Stop
<1>2. flag' \in BOOLEAN /\ faults' \in Nat
  <2>1. flag \in BOOLEAN /\ faults \in Nat
    BY DEF IInv, TypeOK
  <2>2. flag' \in BOOLEAN
    <3>1. CASE flag' = flag
      BY <2>1, <3>1
    <3>2. CASE flag' = TRUE
      BY <3>2
    <3>3. CASE flag' = FALSE
      BY <3>3
    <3> QED BY <3>1, <3>2, <3>3 DEF Lift, SetFlag, Stop
  <2>3. faults' = faults \/ faults' = faults + 1
    BY DEF Lift, SetFlag, Stop
  <2>4. faults' \in Nat
    BY <2>1, <2>3
  <2> QED BY <2>2, <2>4
<1>4. TypeOK'
  BY <1>1, <1>2, IdleTyped DEF IInv, TypeOK
<1>5. State' = State /\ SidecarBacked'
  BY <1>1 DEF IInv, State, SidecarBacked, BackedScar, BackedHeight, Recoveries
<1>6. CallBacked' /\ LastIsOwn'
  BY <1>1, IdleTyped DEF IInv, CallBacked, LastIsOwn
<1> QED BY <1>4, <1>5, <1>6 DEF IInv

LEMMA InitHolds == Init => IInv
<1> SUFFICES ASSUME Init PROVE IInv
  OBVIOUS
<1>1. /\ chain = <<Genesis>> /\ file = Absent /\ flag = FALSE /\ call = Idle
      /\ faults = 0
  BY DEF Init
<1>2. Genesis \in Rings
  BY DEF Genesis, Ring, Rings
<1>3. chain \in Seq(Rings) /\ chain # <<>>
  BY <1>1, <1>2
<1>4. TypeOK
  BY <1>1, <1>3, IdleTyped DEF TypeOK, Rings
<1>5. SidecarBacked
  BY <1>1, DefaultTyped DEF State, SidecarBacked
<1>6. CallBacked /\ LastIsOwn
  BY <1>1, <1>3, IdleTyped DEF CallBacked, LastIsOwn
<1> QED BY <1>4, <1>5, <1>6 DEF IInv

LEMMA NextKeeps ==
    ASSUME IInv, [Next]_vars
    PROVE  IInv'
<1>1. CASE \E input, reply \in Texts : Turn(input, reply)
  BY <1>1, TurnKeeps
<1>2. CASE \E first \in 1..LastRing : Rollback(first)
  BY <1>2, RollbackKeeps
<1>3. CASE Lockdown
  BY <1>3, LockdownKeeps
<1>4. CASE SealRecovery
  BY <1>4, SealRecoveryKeeps
<1>5. CASE Truncate
  BY <1>5, TruncateKeeps
<1>6. CASE WriteState
  BY <1>6, WriteStateKeeps
<1>7. CASE Lift \/ SetFlag \/ Stop
  BY <1>7, EndingKeeps
<1>8. CASE UNCHANGED vars
  BY <1>8 DEF vars, IInv, TypeOK, State, SidecarBacked, CallBacked, LastIsOwn,
              BackedScar, BackedHeight, OwnScar, OwnHeight, Recoveries, LastRing
<1> QED BY <1>1, <1>2, <1>3, <1>4, <1>5, <1>6, <1>7, <1>8 DEF Next

LEMMA Invariance == Spec => []IInv
<1>1. Init => IInv
  BY InitHolds
<1>2. IInv /\ [Next]_vars => IInv'
  BY NextKeeps
<1> QED BY <1>1, <1>2, PTL DEF Spec

\* Every variable has the values the code can give it.
THEOREM TypeCorrect == Spec => []TypeOK
<1>1. IInv => TypeOK
  BY DEF IInv
<1> QED BY <1>1, Invariance, PTL

\* The sidecar never says more than the signed chain.
THEOREM AlwaysBacked == Spec => []SidecarBacked
<1>1. IInv => SidecarBacked
  BY DEF IInv
<1> QED BY <1>1, Invariance, PTL

-----------------------------------------------------------------------------
\* Where Lift stands: the last record is the rollback's own, the sidecar whole.
LEMMA AtLift ==
    ASSUME IInv, Lift
    PROVE  /\ chain \in Seq(Rings) /\ Len(chain) \in Recoveries
           /\ file \notin {Absent, Torn} /\ State = file
           /\ call.blocks = chain[Len(chain)].blocks
           /\ call.blocks = call.first..(LastRing - 1) /\ call.first \in Nat
           /\ call.blocks \subseteq State.quarantine
<1>1. call.at = "flag" /\ ~call.s.locked
  BY DEF Lift
<1>2. call.s \in Sidecars /\ call.first \in Nat /\ file = call.s
  BY <1>1 DEF IInv, TypeOK, LastIsOwn
<1>3. file \notin {Absent, Torn} /\ State = file
  BY <1>2, SentinelAssumption DEF State
<1>4. chain \in Seq(Rings) /\ chain # <<>>
  BY TypeOKRings DEF IInv, LastIsOwn
<1>5. Len(chain) \in DOMAIN chain
  BY <1>4
<1>6. /\ chain[Len(chain)].type = "recovery" /\ chain[Len(chain)].blocks = call.blocks
      /\ call.blocks = call.first..(LastRing - 1)
      /\ call.blocks \subseteq call.s.quarantine
  BY <1>1 DEF IInv, LastIsOwn
<1> QED BY <1>2, <1>3, <1>4, <1>5, <1>6 DEF Recoveries

\* The flag is lifted only over a whole sidecar with the last recovery's range.
THEOREM LiftsOnlyRecovered == Spec => LiftedOnlyRecovered
<1> DEFINE Wanted ==
        flag /\ ~flag' =>
          /\ file' \notin {Absent, Torn} /\ Recoveries # {}
          /\ \A i \in Recoveries :
              (\A j \in Recoveries : j <= i) => chain[i].blocks \subseteq State'.quarantine
<1>1. ASSUME IInv, Next PROVE Wanted
  <2> SUFFICES ASSUME flag, ~flag' PROVE Wanted
    OBVIOUS
  <2>1. Lift
    BY <1>1 DEF Next, Turn, Rollback, Rolls, Lockdown, SealRecovery, Truncate, WriteState,
                SetFlag, Stop
  <2>2. file' = file /\ State' = State
    BY <2>1 DEF Lift, State
  <2>3. /\ chain \in Seq(Rings) /\ Len(chain) \in Recoveries
        /\ file \notin {Absent, Torn}
        /\ chain[Len(chain)].blocks \subseteq State.quarantine
    BY <1>1, <2>1, AtLift
  <2>4. ASSUME NEW i \in Recoveries, \A j \in Recoveries : j <= i
        PROVE  i = Len(chain)
    <3>1. Len(chain) <= i /\ i \in 1..Len(chain) /\ Len(chain) \in Nat
      BY <2>3, <2>4 DEF Recoveries
    <3> QED BY <3>1
  <2> QED BY <2>2, <2>3, <2>4
<1>2. ASSUME IInv, UNCHANGED vars PROVE Wanted
  BY <1>2 DEF vars
<1>3. IInv /\ [Next]_vars => [Wanted]_vars
  BY <1>1, <1>2
<1> HIDE DEF Wanted
<1>4. Spec => [][Wanted]_vars
  BY <1>3, Invariance, PTL DEF Spec
<1> QED BY <1>4 DEF Wanted, LiftedOnlyRecovered

\* A rollback that completes leaves no breach at or above its first height.
THEOREM LeavesNoBreach == Spec => NoBreachLeft
<1> DEFINE Wanted == Lift => \A i \in Compromised(State.quarantine) : i < call.first
<1>1. ASSUME IInv, Lift, NEW i \in Compromised(State.quarantine) PROVE i < call.first
  <2>1. /\ chain \in Seq(Rings) /\ Len(chain) \in Recoveries /\ call.first \in Nat
        /\ call.first..(LastRing - 1) \subseteq State.quarantine
    BY <1>1, AtLift
  <2>2. /\ i \in 1..LastRing /\ chain[i + 1].type = "turn" /\ i \notin State.quarantine
    BY <1>1 DEF Compromised, Turns
  <2>3. Len(chain) \in Nat /\ LastRing = Len(chain) - 1
    BY <2>1 DEF LastRing
  <2>4. chain[Len(chain)].type = "recovery"
    BY <2>1 DEF Recoveries
  <2>5. i # LastRing
    BY <2>2, <2>3, <2>4
  <2> QED BY <2>1, <2>2, <2>3, <2>5
<1>2. IInv => Wanted
  BY <1>1
<1>3. IInv /\ [Next]_vars => [Wanted]_vars
  BY <1>2
<1> HIDE DEF Wanted
<1>4. Spec => [][Wanted]_vars
  BY <1>3, Invariance, PTL DEF Spec
<1> QED BY <1>4 DEF Wanted, NoBreachLeft

-----------------------------------------------------------------------------
(* What an uninterrupted sidecar has.                                       *)

\* s says what a recovery record of these blocks and this vector says.
Says(s, blocks, vector) ==
    /\ blocks \subseteq s.quarantine
    /\ \E k \in DOMAIN s.scars : s.scars[k] = [blocks |-> blocks, vector |-> vector]
SaysAll(s) == \A i \in Recoveries : Says(s, chain[i].blocks, chain[i].vector)

\* The sidecar is behind the chain only while a call is at work on it, and then the
\* state the call is about to save says it all.
Complete ==
    faults = 0 =>
        IF call.at = "idle" THEN SaysAll(State)
        ELSE /\ SaysAll(call.s)
             /\ call.at = "seal" => Says(call.s, call.blocks, call.vector)

\* Steps that seal no recovery record.
LEMMA SaysSame ==
    ASSUME Recoveries' = Recoveries, \A i \in Recoveries : chain'[i] = chain[i]
    PROVE  \A s : SaysAll(s)' <=> SaysAll(s)
  BY DEF SaysAll, Says

LEMMA TurnCompletes ==
    ASSUME IInv, Complete, NEW input \in Texts, NEW reply \in Texts, Turn(input, reply)
    PROVE  Complete'
<1>1. PICK r \in Rings : chain' = Append(chain, r) /\ r.type = "turn"
  <2>1. input \in SUBSET Words /\ reply \in SUBSET Words
    BY DEF Words
  <2>2. /\ Ring("turn", input, {}, TRUE, {}, {}) \in Rings
        /\ Ring("turn", input, reply, FALSE, {}, {}) \in Rings
    BY <2>1, RingTyped
  <2>3. \A said, hidden : Ring("turn", input, said, hidden, {}, {}).type = "turn"
    BY DEF Ring
  <2> QED BY <2>2, <2>3 DEF Turn
<1>2. UNCHANGED <<file, flag, call, faults>>
  BY DEF Turn
<1>3. chain \in Seq(Rings)
  BY TypeOKRings DEF IInv
<1>4. /\ DOMAIN chain' = DOMAIN chain \cup {Len(chain) + 1}
      /\ \A i \in DOMAIN chain : chain'[i] = chain[i] /\ i # Len(chain) + 1
      /\ chain'[Len(chain) + 1] = r
  BY <1>1, <1>3
<1>5. Recoveries' = Recoveries /\ \A i \in Recoveries : chain'[i] = chain[i]
  BY <1>1, <1>4 DEF Recoveries
<1>6. State' = State
  BY <1>2 DEF State
<1> QED BY <1>2, <1>5, <1>6, SaysSame DEF Complete

LEMMA RollbackCompletes ==
    ASSUME IInv, Complete, NEW first \in 1..LastRing, Rollback(first)
    PROVE  Complete'
<1> DEFINE blocks == first..LastRing
           scar(v) == [blocks |-> blocks, vector |-> v]
           s(v) == [locked |-> FALSE, safe |-> first - 1,
                    quarantine |-> State.quarantine \cup blocks,
                    scars |-> Append(State.scars, scar(v))]
<1>1. PICK v \in MostCommon(blocks) :
        call' = [at |-> "seal", first |-> first, blocks |-> blocks, vector |-> v,
                 s |-> s(v)]
  BY DEF Rollback, Rolls
<1>2. UNCHANGED <<chain, file, flag, faults>> /\ call.at = "idle"
  BY IdleTyped DEF Rollback, Rolls
<1>3. v \in SUBSET Words /\ blocks \in SUBSET Nat
  BY VectorTyped DEF IInv
<1>4. State.scars \in Seq(Scars)
  BY StateTyped DEF IInv, Sidecars
<1> HIDE DEF blocks
<1>5. scar(v) \in Scars
  BY <1>3 DEF Scars
<1>6. /\ DOMAIN s(v).scars = DOMAIN State.scars \cup {Len(State.scars) + 1}
      /\ s(v).scars[Len(State.scars) + 1] = scar(v)
      /\ \A k \in DOMAIN State.scars : s(v).scars[k] = State.scars[k]
      /\ s(v).quarantine = State.quarantine \cup blocks
  BY <1>4, <1>5
<1>7. call'.at = "seal" /\ call'.s = s(v) /\ call'.blocks = blocks /\ call'.vector = v
  BY <1>1
<1>8. Says(s(v), blocks, v)
  <2> HIDE DEF s
  <2> QED BY <1>6 DEF Says
<1>9. ASSUME NEW b, NEW w, Says(State, b, w) PROVE Says(s(v), b, w)
  <2> HIDE DEF s
  <2> QED BY <1>6, <1>9 DEF Says
<1> HIDE DEF s
<1>10. Recoveries' = Recoveries /\ chain' = chain
  BY <1>2 DEF Recoveries
<1>11. ASSUME faults = 0 PROVE SaysAll(s(v))
  BY <1>2, <1>9, <1>11 DEF Complete, SaysAll
<1>12. ASSUME faults = 0 PROVE SaysAll(call.s)'
  BY <1>7, <1>10, <1>11, <1>12 DEF SaysAll, Says
<1>13. Says(call.s, call.blocks, call.vector)'
  BY <1>7, <1>8 DEF Says
<1> QED BY <1>2, <1>7, <1>12, <1>13 DEF Complete

LEMMA LockdownCompletes == ASSUME IInv, Complete, Lockdown PROVE Complete'
<1> DEFINE s == [State EXCEPT !.locked = TRUE]
<1>1. /\ UNCHANGED <<chain, file, flag, faults>> /\ call.at = "idle"
      /\ call' = [Idle EXCEPT !.at = "truncate", !.s = s]
  BY IdleTyped DEF Lockdown
<1>2. s.scars = State.scars /\ s.quarantine = State.quarantine
  BY StateTyped DEF IInv, Sidecars
<1>3. call'.at = "truncate" /\ call'.s = s
  BY <1>1 DEF Idle
<1> HIDE DEF s
<1>4. Recoveries' = Recoveries
  BY <1>1 DEF Recoveries
<1> QED BY <1>1, <1>2, <1>3, <1>4 DEF Complete, SaysAll, Says

\* The record that is sealed is the one the state to save was computed for.
LEMMA SealRecoveryCompletes == ASSUME IInv, Complete, SealRecovery PROVE Complete'
<1> DEFINE r == Ring("recovery", {}, {}, FALSE, call.blocks, call.vector)
<1>1. /\ UNCHANGED <<file, flag, faults>> /\ call.at = "seal"
      /\ chain' = Append(chain, r) /\ call' = [call EXCEPT !.at = "truncate"]
  BY DEF SealRecovery, Goto
<1>2. call.blocks \in SUBSET Nat /\ call.vector \in SUBSET Words
  BY DEF IInv, TypeOK
<1>3. /\ r \in Rings /\ r.blocks = call.blocks /\ r.vector = call.vector
  BY <1>2 DEF Ring, Rings
<1> HIDE DEF r
<1>4. chain \in Seq(Rings)
  BY TypeOKRings DEF IInv
<1>5. /\ DOMAIN chain' = DOMAIN chain \cup {Len(chain) + 1}
      /\ \A i \in DOMAIN chain : chain'[i] = chain[i]
      /\ chain'[Len(chain) + 1] = r
  BY <1>1, <1>3, <1>4
<1>6. call'.at = "truncate" /\ call'.s = call.s
  BY <1>1 DEF IInv, TypeOK
<1>7. \A i \in Recoveries' : 
          \/ i \in Recoveries /\ chain'[i] = chain[i]
          \/ chain'[i].blocks = call.blocks /\ chain'[i].vector = call.vector
  BY <1>3, <1>5 DEF Recoveries
<1>8. ASSUME faults = 0 PROVE SaysAll(call.s)'
  BY <1>1, <1>6, <1>7, <1>8, ZenonT(40) DEF Complete, SaysAll, Says
<1> QED BY <1>1, <1>6, <1>8 DEF Complete

LEMMA WritesComplete ==
    ASSUME IInv, Complete, Truncate \/ WriteState \/ Lift \/ SetFlag PROVE Complete'
<1>1. UNCHANGED <<chain, faults>>
  BY DEF Truncate, WriteState, Lift, SetFlag
<1>2. Recoveries' = Recoveries
  BY <1>1 DEF Recoveries
<1>3. CASE Truncate \/ WriteState
  <2>1. /\ call.at \notin {"idle", "seal"} /\ call'.at \notin {"idle", "seal"}
        /\ call'.s = call.s
    BY <1>3 DEF Truncate, WriteState, Goto, IInv, TypeOK
  <2> QED BY <1>1, <1>2, <2>1 DEF Complete, SaysAll, Says
<1>4. CASE Lift \/ SetFlag
  <2>1. call.at = "flag" /\ call'.at = "idle" /\ file' = file
    BY <1>4, IdleTyped DEF Lift, SetFlag
  <2>2. file = call.s /\ call.s \in Sidecars
    BY <2>1 DEF IInv, LastIsOwn, TypeOK
  <2>3. State' = call.s
    BY <2>1, <2>2, SentinelAssumption DEF State
  <2> QED BY <1>1, <1>2, <2>1, <2>3 DEF Complete, SaysAll, Says
<1> QED BY <1>3, <1>4

LEMMA CompleteInit == Init => Complete
<1> SUFFICES ASSUME Init PROVE Complete
  OBVIOUS
<1>1. Recoveries = {}
  BY DEF Init, Recoveries, Genesis, Ring
<1> QED BY <1>1, IdleTyped DEF Init, Complete, SaysAll

LEMMA CompleteStep == ASSUME IInv, Complete, [Next]_vars PROVE Complete'
<1>1. CASE Stop
  <2>1. faults' = faults + 1 /\ faults \in Nat
    BY <1>1 DEF Stop, IInv, TypeOK
  <2> QED BY <2>1 DEF Complete
<1>2. CASE UNCHANGED vars
  BY <1>2 DEF vars, Complete, SaysAll, Says, Recoveries, State
<1> QED BY <1>1, <1>2, TurnCompletes, RollbackCompletes, LockdownCompletes,
           SealRecoveryCompletes, WritesComplete DEF Next

\* While no call was interrupted, every sealed recovery is quarantined and has its
\* scar in the sidecar.
THEOREM KeepsEveryRecovery == Spec => []SidecarComplete
<1>1. Init => IInv /\ Complete
  BY InitHolds, CompleteInit
<1>2. IInv /\ Complete /\ [Next]_vars => (IInv /\ Complete)'
  BY NextKeeps, CompleteStep
<1>3. IInv /\ Complete => SidecarComplete
  BY IdleTyped DEF Complete, SidecarComplete, SaysAll, Says
<1> QED BY <1>1, <1>2, <1>3, PTL DEF Spec
=============================================================================
