-------------------------------- MODULE Immune --------------------------------
(***************************************************************************)
(* The immune system (immune.py): screen refuses an input, scan reports a  *)
(* covenant breach that is sealed, lockdown freezes the chain with a flag  *)
(* file, rollback seals a `recovery` record, notes the compromised range   *)
(* and its attack vector in a sidecar (immune.json) and lifts the flag.    *)
(*                                                                         *)
(* Commands and turns are serialised (one REPL thread, or state.lock), so  *)
(* `call` is the one call running.  The sidecar is rewritten in place      *)
(* (write_text: truncate, then write), and the process may stop between    *)
(* any two steps.                                                          *)
(*                                                                         *)
(* A text is the set of its words, Breaches the words covenant_score       *)
(* counts as violations.  Ring i is chain[i + 1].                          *)
(***************************************************************************)
EXTENDS Naturals, Sequences, FiniteSets

CONSTANTS
    Texts,         \* what users and models say: sets of words
    Breaches,      \* words that violate the covenant
    VectorSize,    \* words kept in a scar's vector (8)
    Absent,        \* no immune.json
    Torn,          \* an immune.json that does not parse
    MaxRings,      \* bound on the chain
    MaxFaults      \* bound on crashes and exceptions

ASSUME ConstantsAssumption ==
    /\ \A t \in Texts : IsFiniteSet(t)
    /\ VectorSize \in Nat /\ MaxRings \in Nat \ {0} /\ MaxFaults \in Nat

VARIABLES
    chain,     \* the records, as load_rings shows them
    file,      \* immune.json
    flag,      \* the LOCKED file exists
    call,      \* the running lockdown or rollback
    faults

vars == <<chain, file, flag, call, faults>>

NoHeight == 0      \* safe_height None (no rollback is to below height 0)

\* _ring_summary looks at the reply (`text`), not at the input (`context`).
Ring(type, asked, said, hidden, blocks, vector) ==
    [type |-> type, asked |-> asked, said |-> said, hidden |-> hidden,
     blocks |-> blocks, vector |-> vector]
Genesis == Ring("genesis", {}, {}, FALSE, {}, {})

Default == [locked |-> FALSE, safe |-> NoHeight, quarantine |-> {}, scars |-> <<>>]

\* state(): a sidecar that is missing or does not parse reads as the default.
State == IF file \in {Absent, Torn} THEN Default ELSE file

Idle == [at |-> "idle", s |-> Default, first |-> 0, blocks |-> {}, vector |-> {}]
Goto(l) == call' = [call EXCEPT !.at = l]

Init ==
    /\ chain = <<Genesis>>
    /\ file = Absent /\ flag = FALSE
    /\ call = Idle
    /\ faults = 0

LastRing == Len(chain) - 1
Turns == {i \in 1..LastRing : chain[i + 1].type = "turn"}      \* not in SKIP_TYPES

-----------------------------------------------------------------------------
(* screen and scan.                                                         *)

Breach(text) == text \cap Breaches # {}

\* Half of the vector's words, and at least two, have to occur.
Overlaps(text, vector) ==
    LET common == Cardinality(text \cap vector) IN
    vector # {} /\ common >= 2 /\ common >= Cardinality(vector) \div 2

MatchScar(text, scars) == \E i \in DOMAIN scars : Overlaps(text, scars[i].vector)

Blocked(text) == Breach(text) \/ MatchScar(text, State.scars)

\* The rings scan reports; the first one is first_bad_height.
Compromised(quarantine) ==
    {i \in Turns \ quarantine : Breach(chain[i + 1].said)}

-----------------------------------------------------------------------------
(* A turn: refused at the membrane and sealed as one quarantined record, or *)
(* answered.  Under the flag append raises and nothing is sealed.           *)

Turn(input, reply) ==
    /\ call = Idle /\ ~flag /\ LastRing < MaxRings
    /\ chain' = Append(chain,
            IF Blocked(input) THEN Ring("turn", input, {}, TRUE, {}, {})
                              ELSE Ring("turn", input, reply, FALSE, {}, {}))
    /\ UNCHANGED <<file, flag, call, faults>>

-----------------------------------------------------------------------------
(* lockdown and rollback up to their first write.                           *)

Lockdown ==
    /\ call = Idle
    /\ call' = [Idle EXCEPT !.at = "truncate", !.s = [State EXCEPT !.locked = TRUE]]
    /\ UNCHANGED <<chain, file, flag, faults>>

\* The VectorSize most common words of the rings (one choice of the tied).
Frequency(w, rings) == Cardinality({i \in rings : w \in chain[i + 1].said})
MostCommon(rings) ==
    LET words == UNION {chain[i + 1].said : i \in rings} IN
    {v \in SUBSET words :
        /\ Cardinality(v) <= VectorSize
        /\ Cardinality(v) = VectorSize \/ v = words
        /\ \A w \in v, u \in words \ v : Frequency(w, rings) >= Frequency(u, rings)}

\* rollback up to its first write: the range, the scar's vector, and the state
\* to save, which adds them to the one read before.
Rolls(first, blocks, safe, old) ==
    /\ call = Idle /\ first \in 1..LastRing /\ LastRing < MaxRings
    /\ \E v \in MostCommon(blocks) :
        call' = [at |-> "seal", first |-> first, blocks |-> blocks, vector |-> v,
                 s |-> [locked |-> FALSE, safe |-> safe,
                        quarantine |-> old \cup blocks,
                        scars |-> Append(State.scars,
                                         [blocks |-> blocks, vector |-> v])]]
    /\ UNCHANGED <<chain, file, flag, faults>>

\* Mutants: the head is left out of the range; the range replaces what is
\* quarantined already.
RollbackShort(first) ==
    Rolls(first, first..(LastRing - 1), first - 1, State.quarantine)
RollbackForgets(first) == Rolls(first, first..LastRing, first - 1, {})
Rollback(first) == Rolls(first, first..LastRing, first - 1, State.quarantine)

-----------------------------------------------------------------------------
(* Their writes: the recovery record, the sidecar, the flag.                *)

\* Mutant: the sidecar is saved first, the recovery record sealed last.
SealRecoveryLater ==
    /\ call.at = "seal"
    /\ Goto("truncate")
    /\ UNCHANGED <<chain, file, flag, faults>>

\* `recovery` is the one type append accepts under the flag.
SealRecovery ==
    /\ call.at = "seal"
    /\ chain' = Append(chain, Ring("recovery", {}, {}, FALSE, call.blocks, call.vector))
    /\ Goto("truncate")
    /\ UNCHANGED <<file, flag, faults>>

Truncate ==
    /\ call.at = "truncate"
    /\ file' = Torn
    /\ Goto("write")
    /\ UNCHANGED <<chain, flag, faults>>

WriteState ==
    /\ call.at = "write"
    /\ file' = call.s
    /\ Goto("flag")
    /\ UNCHANGED <<chain, flag, faults>>

\* Mutant: the flag is lifted while the sidecar is being written.
LiftEarly ==
    /\ call.at \in {"write", "flag"} /\ ~call.s.locked
    /\ flag' = FALSE
    /\ IF call.at = "flag" THEN call' = Idle ELSE UNCHANGED call
    /\ UNCHANGED <<chain, file, faults>>

Lift ==
    /\ call.at = "flag" /\ ~call.s.locked
    /\ flag' = FALSE
    /\ call' = Idle
    /\ UNCHANGED <<chain, file, faults>>

SetFlag ==
    /\ call.at = "flag" /\ call.s.locked
    /\ flag' = TRUE
    /\ call' = Idle
    /\ UNCHANGED <<chain, file, faults>>

\* A crash, or an exception that ends the call, between two of its steps.
Stop ==
    /\ call # Idle
    /\ faults < MaxFaults /\ faults' = faults + 1
    /\ call' = Idle
    /\ UNCHANGED <<chain, file, flag>>

-----------------------------------------------------------------------------
Next ==
    \/ \E input, reply \in Texts : Turn(input, reply)
    \/ \E first \in 1..LastRing : Rollback(first)
    \/ Lockdown \/ SealRecovery \/ Truncate \/ WriteState \/ Lift \/ SetFlag \/ Stop

Spec == Init /\ [][Next]_vars

-----------------------------------------------------------------------------
(* Properties.                                                              *)

Words == UNION Texts
Scars == [blocks : SUBSET Nat, vector : SUBSET Words]
Sidecars == [locked : BOOLEAN, safe : Nat, quarantine : SUBSET Nat,
             scars : Seq(Scars)]

\* A sidecar that parses is neither missing nor torn.
ASSUME SentinelAssumption == {Absent, Torn} \cap Sidecars = {}

\* Every variable has the values the code can give it.
TypeOK ==
    /\ chain \in Seq([type : {"genesis", "turn", "recovery"},
                      asked : SUBSET Words, said : SUBSET Words,
                      hidden : BOOLEAN, blocks : SUBSET Nat,
                      vector : SUBSET Words])
    /\ file \in Sidecars \cup {Absent, Torn}
    /\ flag \in BOOLEAN
    /\ call \in [at : {"idle", "seal", "truncate", "write", "flag"}, s : Sidecars,
                 first : Nat, blocks : SUBSET Nat, vector : SUBSET Words]
    /\ faults \in Nat

Recoveries == {i \in DOMAIN chain : chain[i].type = "recovery"}

BackedScar(scar) == \E i \in Recoveries :
    chain[i].blocks = scar.blocks /\ chain[i].vector = scar.vector
BackedHeight(h) == \E i \in Recoveries : h \in chain[i].blocks

\* The sidecar never says more than the signed chain: every scar and every
\* quarantined height is in a recovery record that was sealed before.
SidecarBacked ==
    /\ \A k \in DOMAIN State.scars : BackedScar(State.scars[k])
    /\ \A h \in State.quarantine : BackedHeight(h)

\* The flag is lifted only when the range of the last recovery record is
\* quarantined in a sidecar that is whole.
LiftedOnlyRecovered ==
    [][flag /\ ~flag' =>
        /\ file' \notin {Absent, Torn} /\ Recoveries # {}
        /\ \A i \in Recoveries :
            (\A j \in Recoveries : j <= i) =>
                chain[i].blocks \subseteq State'.quarantine]_vars

\* A rollback that completes leaves no breach above its height in the active
\* self, whatever was left by rollbacks that did not complete.
NoBreachLeft ==
    [][Lift => \A i \in Compromised(State.quarantine) : i < call.first]_vars

\* As long as no call was interrupted, the sidecar says all the signed chain
\* does: every recovery's scar is kept and its range is quarantined.
SidecarComplete ==
    faults = 0 /\ call = Idle => \A i \in Recoveries :
        /\ chain[i].blocks \subseteq State.quarantine
        /\ \E k \in DOMAIN State.scars :
             State.scars[k] = [blocks |-> chain[i].blocks, vector |-> chain[i].vector]

\* "its attack vector is learned so `screen` recognizes the same attack next
\* time": the input of a ring that scan reported is refused once it is rolled
\* back.
AttackRecognised ==
    call = Idle => \A i \in Turns \cap State.quarantine :
        Breach(chain[i + 1].said) => Blocked(chain[i + 1].asked)

=============================================================================
