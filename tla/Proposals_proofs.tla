-------------------------- MODULE Proposals_proofs --------------------------
(***************************************************************************)
(* Theorems about the growth mechanism.  None of its invariants is         *)
(* inductive: what the scan does next depends on what it has read, and a   *)
(* command writes signals.py long before it records the decision.  The     *)
(* invariant says of each point in the scan and in the command what it     *)
(* still knows of the chain.                                               *)
(***************************************************************************)
EXTENDS Proposals, FiniteSetTheorems, SequenceTheorems, TLAPS

-----------------------------------------------------------------------------
\* A non-empty set of indices has a least one: the intervals below its members
\* are finite sets, among which inclusion is well-founded.
LEMMA MinIsLeast ==
    ASSUME NEW S \in SUBSET Nat, S # {}
    PROVE  Min(S) \in S /\ \A y \in S : Min(S) <= y
<1> DEFINE T == {0 .. x : x \in S}
<1>1. \A x \in S : IsFiniteSet(0 .. x)
  <2> SUFFICES ASSUME NEW x \in S PROVE IsFiniteSet(0 .. x) OBVIOUS
  <2> 0 \in Int /\ x \in Int OBVIOUS
  <2> QED BY FS_Interval
<1>2. T \subseteq FiniteSubsetsOf(Nat) /\ T # {}
  <2>1. \A x \in S : 0 .. x \in SUBSET Nat OBVIOUS
  <2> QED BY <1>1, <2>1 DEF FiniteSubsetsOf
<1>3. PICK t \in T : \A u \in T : ~(<<u, t>> \in StrictSubsetOrdering(Nat))
  BY <1>2, FS_StrictSubsetOrderingWellFounded, WFMin
<1>4. PICK x \in S : t = 0 .. x OBVIOUS
<1>5. ASSUME NEW y \in S PROVE x <= y
  <2>1. x \in Nat /\ y \in Nat OBVIOUS
  <2>2. SUFFICES ASSUME y < x PROVE FALSE BY <2>1
  <2>3. 0 .. y \subseteq 0 .. x /\ x \in 0 .. x /\ x \notin 0 .. y BY <2>1, <2>2
  <2>4. 0 .. y \in T /\ 0 .. y \in SUBSET Nat /\ t \in SUBSET Nat BY <1>4, <2>1
  <2>5. <<0 .. y, t>> \in StrictSubsetOrdering(Nat)
    BY <1>4, <2>3, <2>4 DEF StrictSubsetOrdering
  <2> QED BY <1>3, <2>4, <2>5
<1> QED BY <1>5 DEF Min

LEMMA MaxIsMember ==
    ASSUME NEW n \in Nat, NEW S \in SUBSET (0 .. n), S # {} PROVE Max(S) \in S
<1> DEFINE T == {n - x : x \in S}
<1>1. T \in SUBSET Nat /\ T # {}
  <2>1. \A x \in S : n - x \in Nat OBVIOUS
  <2> QED BY <2>1
<1>2. Min(T) \in T /\ \A t \in T : Min(T) <= t BY <1>1, MinIsLeast
<1>3. PICK x \in S : Min(T) = n - x BY <1>2
<1>4. ASSUME NEW y \in S PROVE x >= y
  <2>1. n - x <= n - y BY <1>2, <1>3
  <2> QED BY <2>1
<1> QED BY <1>4 DEF Max

\* A set without two different members has at most one.
LEMMA AtMostOne ==
    ASSUME NEW S, \A x, y \in S : x = y PROVE Cardinality(S) <= 1
<1>1. CASE S = {} BY <1>1, FS_EmptySet
<1>2. CASE S # {}
  <2>1. PICK x : S = {x} BY <1>2
  <2> QED BY <2>1, FS_Singleton
<1> QED BY <1>1, <1>2

LEMMA RecordsGrow == ASSUME NEW n \in Nat PROVE Record(n) \subseteq Record(n + 1)
<1>1. 1 .. n \subseteq 1 .. (n + 1) OBVIOUS
<1> QED BY <1>1 DEF Record

\* One record more: the earlier ones keep their places and their content.
LEMMA AppendFacts ==
    ASSUME NEW c, c \in Seq(Record(Len(c))), NEW r \in Record(Len(c) + 1),
           NEW d, d = Append(c, r)
    PROVE  /\ Len(c) \in Nat /\ Len(d) = Len(c) + 1
           /\ DOMAIN c = 1 .. Len(c) /\ DOMAIN d = 1 .. (Len(c) + 1)
           /\ d \in Seq(Record(Len(d)))
           /\ \A i \in DOMAIN c : d[i] = c[i]
           /\ d[Len(c) + 1] = r
<1> DEFINE n == Len(c)
<1>1. n \in Nat BY LenProperties
<1>2. Record(n) \subseteq Record(n + 1) BY <1>1, RecordsGrow
<1>3. c \in Seq(Record(n + 1)) BY <1>2
<1> QED BY <1>1, <1>3, AppendProperties, LenProperties

-----------------------------------------------------------------------------
(***************************************************************************)
(* Type correctness.                                                       *)
(***************************************************************************)
Agents(n) == [at : {"idle", "propose", "recur", "escalate", "save", "mark", "down"},
              full : BOOLEAN, length : 0 .. n,
              new : SUBSET Nos, again : [Nos -> {0} \union 1 .. n],
              target : {0} \union 1 .. n,
              committed : SUBSET (1 .. n), escalated : SUBSET (1 .. n),
              dirty : BOOLEAN]
Commands(n) == [at : {"idle", "open", "fill"} \union Decided,
                of : {0} \union 1 .. n, text : SUBSET (1 .. n)]
Budgets == [scans : 0 .. MaxScans, full : 0 .. MaxFull,
            decisions : 0 .. MaxDecisions, faults : 0 .. MaxFaults]

\* What a step works on is in the chain already
Known ==
    /\ \A m \in Modes : registry[m].status # "none" => registry[m].origin \in DOMAIN chain
    /\ disk # Torn => \A m \in Modes :
           disk[m].status # "none" => disk[m].origin \in DOMAIN chain
    /\ agent.at = "escalate" => agent.target \in DOMAIN chain
    /\ cli.at # "idle" => cli.of \in OfType("proposal")

\* TypeOK with the length of the chain for its domain
Typed ==
    /\ chain \in Seq(Record(Len(chain)))
    /\ watermark \in 0 .. Len(chain)
    /\ registry \in [Modes -> Entry]
    /\ disk \in [Modes -> Entry] \union {Torn}
    /\ signals \in {Torn} \union SUBSET (1 .. Len(chain))
    /\ agent \in Agents(Len(chain)) /\ cli \in Commands(Len(chain))
    /\ budget \in Budgets

LEMMA TypedIsTypeOK == Typed <=> TypeOK
<1>1. chain \in Seq(Record(Len(chain))) => DOMAIN chain = 1 .. Len(chain)
  BY LenProperties
<1> QED BY <1>1 DEF Typed, TypeOK, Agents, Commands, Budgets

LEMMA TypesGrow ==
    ASSUME NEW n \in Nat
    PROVE  /\ Agents(n) \subseteq Agents(n + 1) /\ Commands(n) \subseteq Commands(n + 1)
           /\ 0 .. n \subseteq 0 .. (n + 1) /\ 1 .. n \subseteq 1 .. (n + 1)
<1>1. 1 .. n \subseteq 1 .. (n + 1) /\ 0 .. n \subseteq 0 .. (n + 1) OBVIOUS
<1>2. [Nos -> {0} \union 1 .. n] \subseteq [Nos -> {0} \union 1 .. (n + 1)] BY <1>1
<1>3. Agents(n) \subseteq Agents(n + 1) BY <1>1, <1>2 DEF Agents
<1>4. Commands(n) \subseteq Commands(n + 1) BY <1>1 DEF Commands
<1> QED BY <1>1, <1>3, <1>4

LEMMA IdleTyped ==
    ASSUME NEW n \in Nat
    PROVE  Idle \in Agents(n) /\ [Idle EXCEPT !.at = "down"] \in Agents(n)
           /\ Idle.at = "idle" /\ [Idle EXCEPT !.at = "down"].at = "down"
           /\ NoCommand \in Commands(n) /\ NoCommand.at = "idle"
<1>1. [f \in Nos |-> 0] \in [Nos -> {0} \union 1 .. n] /\ 0 \in 0 .. n OBVIOUS
<1>2. Idle \in Agents(n) BY <1>1 DEF Idle, Agents
<1>3. [Idle EXCEPT !.at = "down"] \in Agents(n) BY <1>2 DEF Agents
<1>4. NoCommand \in Commands(n) /\ NoCommand.at = "idle" BY DEF NoCommand, Commands
<1>5. Idle.at = "idle" /\ [Idle EXCEPT !.at = "down"].at = "down" BY DEF Idle
<1> QED BY <1>2, <1>3, <1>4, <1>5

\* What an append leaves as it was.
LEMMA Appended ==
    ASSUME Typed, NEW r \in Record(Len(chain) + 1), chain' = Append(chain, r)
    PROVE  /\ Len(chain) \in Nat /\ Len(chain') = Len(chain) + 1
           /\ DOMAIN chain = 1 .. Len(chain) /\ DOMAIN chain' = 1 .. (Len(chain) + 1)
           /\ chain' \in Seq(Record(Len(chain')))
           /\ \A i \in DOMAIN chain : chain'[i] = chain[i]
           /\ chain'[Len(chain) + 1] = r
           /\ Agents(Len(chain)) \subseteq Agents(Len(chain'))
           /\ Commands(Len(chain)) \subseteq Commands(Len(chain'))
           /\ 0 .. Len(chain) \subseteq 0 .. Len(chain')
           /\ 1 .. Len(chain) \subseteq 1 .. Len(chain')
           /\ \A t : OfType(t) \subseteq OfType(t)'
<1>1. chain \in Seq(Record(Len(chain))) BY DEF Typed
<1>2. /\ Len(chain) \in Nat /\ Len(chain') = Len(chain) + 1
      /\ DOMAIN chain = 1 .. Len(chain) /\ DOMAIN chain' = 1 .. (Len(chain) + 1)
      /\ chain' \in Seq(Record(Len(chain')))
      /\ \A i \in DOMAIN chain : chain'[i] = chain[i]
      /\ chain'[Len(chain) + 1] = r
  BY <1>1, AppendFacts
<1>3. \A t : OfType(t) \subseteq OfType(t)'
  <2>1. \A i \in DOMAIN chain : i \in DOMAIN chain' BY <1>2
  <2> QED BY <1>2, <2>1 DEF OfType
<1> QED BY <1>2, <1>3, TypesGrow

\* An append that changes no other variable but the budget keeps the types of
\* the others.
LEMMA AppendKeepsTypes ==
    ASSUME Typed, Known, NEW r \in Record(Len(chain) + 1), chain' = Append(chain, r)
    PROVE  /\ watermark' = watermark => watermark' \in 0 .. Len(chain')
           /\ registry' = registry => /\ registry' \in [Modes -> Entry]
                                      /\ \A m \in Modes : registry'[m].status # "none" =>
                                             registry'[m].origin \in DOMAIN chain'
           /\ disk' = disk => /\ disk' \in [Modes -> Entry] \union {Torn}
                              /\ disk' # Torn => \A m \in Modes :
                                     disk'[m].status # "none" =>
                                         disk'[m].origin \in DOMAIN chain'
           /\ signals' = signals => signals' \in {Torn} \union SUBSET (1 .. Len(chain'))
           /\ agent' = agent => /\ agent' \in Agents(Len(chain'))
                                /\ agent'.at = "escalate" => agent'.target \in DOMAIN chain'
           /\ cli' = cli => /\ cli' \in Commands(Len(chain'))
                            /\ cli'.at # "idle" => cli'.of \in OfType("proposal")'
<1>1. /\ Len(chain) \in Nat /\ Len(chain') = Len(chain) + 1
      /\ DOMAIN chain = 1 .. Len(chain) /\ DOMAIN chain' = 1 .. (Len(chain) + 1)
      /\ Agents(Len(chain)) \subseteq Agents(Len(chain'))
      /\ Commands(Len(chain)) \subseteq Commands(Len(chain'))
      /\ 0 .. Len(chain) \subseteq 0 .. Len(chain')
      /\ 1 .. Len(chain) \subseteq 1 .. Len(chain')
      /\ OfType("proposal") \subseteq OfType("proposal")'
  BY Appended
<1>2. \A i \in DOMAIN chain : i \in DOMAIN chain' BY <1>1
<1>3. watermark' = watermark => watermark' \in 0 .. Len(chain') BY <1>1 DEF Typed
<1>4. registry' = registry => /\ registry' \in [Modes -> Entry]
                              /\ \A m \in Modes : registry'[m].status # "none" =>
                                     registry'[m].origin \in DOMAIN chain'
  BY <1>2 DEF Typed, Known
<1>5. disk' = disk => /\ disk' \in [Modes -> Entry] \union {Torn}
                      /\ disk' # Torn => \A m \in Modes :
                             disk'[m].status # "none" => disk'[m].origin \in DOMAIN chain'
  BY <1>2 DEF Typed, Known
<1>6. signals' = signals => signals' \in {Torn} \union SUBSET (1 .. Len(chain'))
  BY <1>1 DEF Typed
<1>7. agent' = agent => /\ agent' \in Agents(Len(chain'))
                        /\ agent'.at = "escalate" => agent'.target \in DOMAIN chain'
  BY <1>1, <1>2 DEF Typed, Known
<1>8. cli' = cli => /\ cli' \in Commands(Len(chain'))
                    /\ cli'.at # "idle" => cli'.of \in OfType("proposal")'
  BY <1>1 DEF Typed, Known
<1> QED BY <1>3, <1>4, <1>5, <1>6, <1>7, <1>8

LEMMA SpendTyped ==
    ASSUME budget \in Budgets
    PROVE  /\ \A what \in {"scans", "full", "decisions", "faults"} :
                  Spend(what) => budget' \in Budgets
           /\ Spend("faults") => /\ budget'.faults = budget.faults - 1
                                 /\ budget.faults > 0
           /\ \A what \in {"scans", "full", "decisions"} :
                  Spend(what) => budget'.faults = budget.faults
<1>1. /\ budget.scans \in 0 .. MaxScans /\ budget.full \in 0 .. MaxFull
      /\ budget.decisions \in 0 .. MaxDecisions /\ budget.faults \in 0 .. MaxFaults
  BY DEF Budgets
<1>2. /\ budget.scans > 0 => budget.scans - 1 \in 0 .. MaxScans
      /\ budget.full > 0 => budget.full - 1 \in 0 .. MaxFull
      /\ budget.decisions > 0 => budget.decisions - 1 \in 0 .. MaxDecisions
      /\ budget.faults > 0 => budget.faults - 1 \in 0 .. MaxFaults
  BY <1>1, BoundsAssumption
<1>3. \A what \in {"scans", "full", "decisions", "faults"} : Spend(what) => budget' \in Budgets
  BY <1>2 DEF Spend, Budgets
<1> QED BY <1>3 DEF Spend, Budgets

TypeInv == Typed /\ Known

LEMMA EvidenceTyped == ASSUME TypeInv, NEW f \in Nos, Evidence(f) PROVE TypeInv'
<1> DEFINE r == [type |-> "evidence", finding |-> f]
<1>1. Typed /\ Known BY DEF TypeInv
<1>2. r \in Record(Len(chain) + 1) BY DEF Record
<1>3. chain' = Append(chain, r) /\ UNCHANGED <<watermark, registry, disk, signals, agent, cli, budget>>
  BY DEF Evidence
<1> HIDE DEF r
<1>4. Typed' BY <1>1, <1>2, <1>3, Appended, AppendKeepsTypes DEF Typed
<1>5. Known' BY <1>1, <1>2, <1>3, AppendKeepsTypes DEF Known
<1> QED BY <1>4, <1>5 DEF TypeInv

LEMMA ScanTyped == ASSUME TypeInv, NEW full \in BOOLEAN, Scan(full) PROVE TypeInv'
<1> DEFINE W     == Window(full)
           old   == [f \in Nos |-> Existing(W, Findings[f].topic)]
           found == {f \in Nos : Crosses(W, f)}
           new   == {f \in found : old[f] = {}}
           again == [f \in Nos |-> IF f \in found /\ old[f] # {} THEN Min(old[f]) ELSE 0]
           n     == Len(chain)
<1>1. Typed /\ Known /\ n \in Nat /\ DOMAIN chain = 1 .. n
  BY LenProperties DEF TypeInv, Typed
<1>2. \A f \in Nos : old[f] \in SUBSET (1 .. n)
  BY <1>1 DEF Existing, Window
<1>3. again \in [Nos -> {0} \union 1 .. n]
  <2> SUFFICES ASSUME NEW f \in Nos, old[f] # {} PROVE Min(old[f]) \in 1 .. n OBVIOUS
  <2>1. old[f] \in SUBSET (1 .. n) BY <1>2
  <2> HIDE DEF old
  <2>2. old[f] \in SUBSET Nat BY <2>1, <1>1
  <2>3. Min(old[f]) \in old[f] BY <2>2, MinIsLeast
  <2> QED BY <2>1, <2>3
<1>4. new \in SUBSET Nos OBVIOUS
<1>5. /\ agent' = [Idle EXCEPT !.at = "propose", !.full = full, !.length = n,
                       !.new = new, !.again = again]
      /\ Spend(IF full THEN "full" ELSE "scans")
      /\ UNCHANGED <<chain, watermark, registry, disk, signals, cli>>
  BY DEF Scan
<1> HIDE DEF new, again
<1>7. agent' \in Agents(n) /\ agent'.at = "propose"
  <2>1. agent' = [at |-> "propose", full |-> full, length |-> n, new |-> new,
                  again |-> again, target |-> 0, committed |-> {},
                  escalated |-> {}, dirty |-> FALSE]
    BY <1>5 DEF Idle
  <2> QED BY <1>1, <1>3, <1>4, <2>1 DEF Agents
<1>8. budget' \in Budgets
  BY <1>1, <1>5, SpendTyped DEF Typed
<1>9. Typed' BY <1>1, <1>5, <1>7, <1>8 DEF Typed
<1>10. Known' BY <1>1, <1>5, <1>7 DEF Known, OfType
<1> QED BY <1>9, <1>10 DEF TypeInv

LEMMA CommitProposalTyped == ASSUME TypeInv, CommitProposal PROVE TypeInv'
<1>1. Typed /\ Known BY DEF TypeInv
<1>2. PICK f \in agent.new :
        /\ chain' = Append(chain, Proposal(f))
        /\ agent' = [agent EXCEPT !.new = agent.new \ {f},
                         !.committed = agent.committed \union {Len(chain) + 1}]
        /\ agent.at = "propose"
        /\ UNCHANGED <<watermark, registry, disk, signals, cli, budget>>
  BY DEF CommitProposal
<1>3. agent \in Agents(Len(chain)) /\ f \in Nos BY <1>1 DEF Typed, Agents
<1>4. Proposal(f) \in Record(Len(chain) + 1) BY <1>3 DEF Record
<1>5. /\ Len(chain) \in Nat /\ Len(chain') = Len(chain) + 1
      /\ agent \in Agents(Len(chain'))
  BY <1>1, <1>2, <1>3, <1>4, Appended
<1>6. Len(chain) + 1 \in 1 .. Len(chain') BY <1>5
<1>7. agent' \in Agents(Len(chain')) /\ agent'.at = "propose"
  BY <1>2, <1>5, <1>6 DEF Agents
<1>8. Typed' BY <1>1, <1>2, <1>4, <1>7, Appended, AppendKeepsTypes DEF Typed
<1>9. Known' BY <1>1, <1>2, <1>4, <1>7, AppendKeepsTypes DEF Known
<1> QED BY <1>8, <1>9 DEF TypeInv

LEMMA ReadEscalatedTyped == ASSUME TypeInv, ReadEscalated PROVE TypeInv'
<1> DEFINE seen == {chain[i].of : i \in {j \in OfType("status") : chain[j].to = "escalated"}}
<1>1. Typed /\ Known BY DEF TypeInv
<1>2. /\ agent' = [agent EXCEPT !.at = "recur", !.escalated = seen]
      /\ UNCHANGED <<chain, watermark, registry, disk, signals, cli, budget>>
  BY DEF ReadEscalated
<1>3. seen \in SUBSET (1 .. Len(chain))
  <2> SUFFICES ASSUME NEW i \in DOMAIN chain, chain[i].type = "status"
               PROVE  chain[i].of \in 1 .. Len(chain)
    BY DEF OfType
  <2>1. chain[i] \in Record(Len(chain)) BY <1>1, ElementOfSeq, LenProperties DEF Typed
  <2> QED BY <2>1 DEF Record, Proposal, Recurrence, Status, Sprout
<1> HIDE DEF seen
<1>4. agent' \in Agents(Len(chain)) /\ agent'.at = "recur"
  BY <1>1, <1>2, <1>3 DEF Typed, Agents
<1>5. Typed' BY <1>1, <1>2, <1>4 DEF Typed
<1>6. Known' BY <1>1, <1>2, <1>4 DEF Known, OfType
<1> QED BY <1>5, <1>6 DEF TypeInv

LEMMA CommitRecurrenceTyped == ASSUME TypeInv, CommitRecurrence PROVE TypeInv'
<1>1. Typed /\ Known BY DEF TypeInv
<1>2. PICK f \in Again :
        /\ chain' = Append(chain, Recurrence(agent.again[f]))
        /\ agent' = [agent EXCEPT !.again = [agent.again EXCEPT ![f] = 0],
               !.at = IF Due(agent.again[f]) THEN "escalate" ELSE "recur",
               !.target = IF Due(agent.again[f]) THEN agent.again[f] ELSE 0]
        /\ UNCHANGED <<watermark, registry, disk, signals, cli, budget>>
  BY DEF CommitRecurrence
<1> DEFINE p == agent.again[f]
<1>3. agent \in Agents(Len(chain)) /\ f \in Nos BY <1>1 DEF Typed, Again
<1>4. p \in 1 .. Len(chain) BY <1>2, <1>3 DEF Again, Agents
<1>5. p \in 1 .. (Len(chain) + 1)
  BY <1>1, <1>4, LenProperties DEF Typed
<1>6. Recurrence(p) \in Record(Len(chain) + 1) BY <1>5 DEF Record
<1>7. agent \in Agents(Len(chain')) /\ p \in 1 .. Len(chain') /\ DOMAIN chain' = 1 .. Len(chain')
  BY <1>1, <1>2, <1>3, <1>4, <1>6, Appended
<1> HIDE DEF p
<1>8. agent' \in Agents(Len(chain'))
  <2>1. [agent.again EXCEPT ![f] = 0] \in [Nos -> {0} \union 1 .. Len(chain')]
    BY <1>3, <1>7 DEF Agents
  <2>2. (IF Due(p) THEN p ELSE 0) \in {0} \union 1 .. Len(chain') BY <1>7
  <2>3. (IF Due(p) THEN "escalate" ELSE "recur") \in {"recur", "escalate"} OBVIOUS
  <2> QED BY <1>2, <1>7, <2>1, <2>2, <2>3, ZenonT(40) DEF Agents, p
<1>9. agent'.at = "escalate" => agent'.target \in DOMAIN chain'
  BY <1>2, <1>3, <1>7 DEF Agents, p
<1>10. Typed' BY <1>1, <1>2, <1>6, <1>8, Appended, AppendKeepsTypes DEF Typed, p
<1>11. Known' BY <1>1, <1>2, <1>6, <1>9, AppendKeepsTypes DEF Known, p
<1> QED BY <1>10, <1>11 DEF TypeInv

LEMMA EscalateTyped == ASSUME TypeInv, Escalate PROVE TypeInv'
<1> DEFINE r == Status(agent.target, "escalated")
<1>1. Typed /\ Known BY DEF TypeInv
<1>2. /\ chain' = Append(chain, r) /\ agent.at = "escalate"
      /\ agent' = [agent EXCEPT !.at = "recur", !.target = 0,
                       !.escalated = agent.escalated \union {agent.target}]
      /\ UNCHANGED <<watermark, registry, disk, signals, cli, budget>>
  BY DEF Escalate
<1>3. agent \in Agents(Len(chain)) /\ agent.target \in 1 .. Len(chain)
  BY <1>1, <1>2, LenProperties DEF Typed, Known
<1>4. agent.target \in 1 .. (Len(chain) + 1) BY <1>1, <1>3, LenProperties DEF Typed
<1>5. r \in Record(Len(chain) + 1) BY <1>4 DEF Record
<1> HIDE DEF r
<1>6. agent \in Agents(Len(chain')) /\ agent.target \in 1 .. Len(chain')
  BY <1>1, <1>2, <1>3, <1>5, Appended
<1>7. agent' \in Agents(Len(chain')) /\ agent'.at = "recur"
  BY <1>2, <1>6 DEF Agents
<1>8. Typed' BY <1>1, <1>2, <1>5, <1>7, Appended, AppendKeepsTypes DEF Typed
<1>9. Known' BY <1>1, <1>2, <1>5, <1>7, AppendKeepsTypes DEF Known
<1> QED BY <1>8, <1>9 DEF TypeInv

\* Staging and graduation change the registry first; the record and the rest
\* of the scan depend on the append.
LEMMA StageTyped ==
    ASSUME TypeInv, NEW done \in BOOLEAN, StageOne(done), budget' \in Budgets,
           UNCHANGED <<watermark, disk, signals, cli>>
    PROVE  TypeInv'
<1>1. Typed /\ Known BY DEF TypeInv
<1>2. PICK p \in Unstaged :
        /\ registry' = [registry EXCEPT ![Topic(p)] = [status |-> "tentative", origin |-> p]]
        /\ IF done THEN /\ chain' = Append(chain, Sprout(Topic(p), p, "tentative"))
                        /\ agent' = [agent EXCEPT !.dirty = TRUE]
                   ELSE agent' = Idle /\ UNCHANGED chain
        /\ agent.at = "recur"
  BY DEF StageOne, Staging
<1>3. /\ Len(chain) \in Nat /\ DOMAIN chain = 1 .. Len(chain)
      /\ agent \in Agents(Len(chain))
  BY <1>1, LenProperties DEF Typed
<1>4. p \in 1 .. Len(chain) /\ p \in 1 .. (Len(chain) + 1) /\ p \in Nat /\ Topic(p) \in Modes
  BY <1>3, <1>2 DEF Unstaged, Agents
<1>5. /\ registry' \in [Modes -> Entry]
      /\ \A m \in Modes : registry'[m].status # "none" => registry'[m].origin \in DOMAIN chain
  BY <1>1, <1>2, <1>3, <1>4 DEF Typed, Known, Entry
<1>6. CASE done
  <2> DEFINE r == Sprout(Topic(p), p, "tentative")
  <2>1. r \in Record(Len(chain) + 1) BY <1>4 DEF Record
  <2>2. chain' = Append(chain, r) /\ agent' = [agent EXCEPT !.dirty = TRUE]
    BY <1>2, <1>6
  <2> HIDE DEF r
  <2>3. /\ agent \in Agents(Len(chain'))
        /\ \A i \in DOMAIN chain : i \in DOMAIN chain'
    BY <1>1, <1>3, <2>1, <2>2, Appended
  <2>4. agent' \in Agents(Len(chain')) /\ agent'.at = "recur"
    BY <1>2, <2>2, <2>3 DEF Agents
  <2>5. Typed' BY <1>1, <1>5, <2>1, <2>2, <2>4, Appended, AppendKeepsTypes DEF Typed
  <2>6. Known' BY <1>1, <1>5, <2>1, <2>2, <2>3, <2>4, AppendKeepsTypes DEF Known
  <2> QED BY <2>5, <2>6 DEF TypeInv
<1>7. CASE ~done
  <2>1. UNCHANGED chain /\ agent' = Idle BY <1>2, <1>7
  <2>2. agent' \in Agents(Len(chain)) /\ agent'.at = "idle" BY <1>3, <2>1, IdleTyped DEF Idle
  <2>3. Typed' BY <1>1, <1>5, <2>1, <2>2 DEF Typed
  <2>4. Known' BY <1>1, <1>5, <2>1, <2>2 DEF Known, OfType
  <2> QED BY <2>3, <2>4 DEF TypeInv
<1> QED BY <1>6, <1>7

LEMMA GraduateTyped ==
    ASSUME TypeInv, NEW done \in BOOLEAN, GraduateOne(done), budget' \in Budgets,
           UNCHANGED <<watermark, disk, signals, cli>>
    PROVE  TypeInv'
<1>1. Typed /\ Known BY DEF TypeInv
<1>2. PICK m \in Confirmed :
        /\ registry' = [registry EXCEPT ![m] = [status |-> "active",
                                                origin |-> registry[m].origin]]
        /\ IF done THEN /\ chain' = Append(chain, Sprout(m, registry[m].origin, "active"))
                        /\ agent' = [agent EXCEPT !.dirty = TRUE]
                   ELSE agent' = Idle /\ UNCHANGED chain
        /\ agent.at = "recur"
  BY DEF GraduateOne, Graduating
<1> DEFINE p == registry[m].origin
<1>3. /\ Len(chain) \in Nat /\ DOMAIN chain = 1 .. Len(chain)
      /\ agent \in Agents(Len(chain))
  BY <1>1, LenProperties DEF Typed
<1>4. m \in Modes /\ registry[m].status = "tentative" BY <1>2 DEF Confirmed
<1>5. p \in 1 .. Len(chain) /\ p \in 1 .. (Len(chain) + 1) /\ p \in Nat
  BY <1>1, <1>3, <1>4 DEF Known
<1>6. /\ registry' \in [Modes -> Entry]
      /\ \A k \in Modes : registry'[k].status # "none" => registry'[k].origin \in DOMAIN chain
  BY <1>1, <1>2, <1>3, <1>4, <1>5 DEF Typed, Known, Entry
<1>7. CASE done
  <2> DEFINE r == Sprout(m, p, "active")
  <2>1. r \in Record(Len(chain) + 1) BY <1>4, <1>5 DEF Record
  <2>2. chain' = Append(chain, r) /\ agent' = [agent EXCEPT !.dirty = TRUE]
    BY <1>2, <1>7
  <2> HIDE DEF r
  <2>3. /\ agent \in Agents(Len(chain'))
        /\ \A i \in DOMAIN chain : i \in DOMAIN chain'
    BY <1>1, <1>3, <2>1, <2>2, Appended
  <2>4. agent' \in Agents(Len(chain')) /\ agent'.at = "recur"
    BY <1>2, <2>2, <2>3 DEF Agents
  <2>5. Typed' BY <1>1, <1>6, <2>1, <2>2, <2>4, Appended, AppendKeepsTypes DEF Typed
  <2>6. Known' BY <1>1, <1>6, <2>1, <2>2, <2>3, <2>4, AppendKeepsTypes DEF Known
  <2> QED BY <2>5, <2>6 DEF TypeInv
<1>8. CASE ~done
  <2>1. UNCHANGED chain /\ agent' = Idle BY <1>2, <1>8
  <2>2. agent' \in Agents(Len(chain)) /\ agent'.at = "idle" BY <1>3, <2>1, IdleTyped DEF Idle
  <2>3. Typed' BY <1>1, <1>6, <2>1, <2>2 DEF Typed
  <2>4. Known' BY <1>1, <1>6, <2>1, <2>2 DEF Known, OfType
  <2> QED BY <2>3, <2>4 DEF TypeInv
<1> QED BY <1>7, <1>8

\* The registry's file: each write is whole or leaves the file torn.
LEMMA SaveTyped ==
    ASSUME TypeInv, OpenRegistry \/ WriteRegistry \/ SaveFails PROVE TypeInv'
<1>1. Typed /\ Known BY DEF TypeInv
<1>2. /\ disk' \in {Torn, registry, disk} /\ budget' \in Budgets
      /\ \E at \in {"save", "mark"} : agent' = [agent EXCEPT !.at = at]
      /\ UNCHANGED <<chain, watermark, registry, signals, cli>>
  BY <1>1, SpendTyped DEF OpenRegistry, WriteRegistry, SaveFails, Typed
<1>3. agent' \in Agents(Len(chain)) /\ agent'.at # "escalate"
  BY <1>1, <1>2 DEF Typed, Agents
<1>4. /\ disk' \in [Modes -> Entry] \union {Torn}
      /\ disk' # Torn => \A m \in Modes :
             disk'[m].status # "none" => disk'[m].origin \in DOMAIN chain
  BY <1>1, <1>2 DEF Typed, Known
<1>5. Typed' BY <1>1, <1>2, <1>3, <1>4 DEF Typed
<1>6. Known' BY <1>1, <1>2, <1>3, <1>4 DEF Known, OfType
<1> QED BY <1>5, <1>6 DEF TypeInv

\* A scan ends, or the process does
LEMMA StopTyped ==
    ASSUME TypeInv, watermark' \in {watermark, agent.length}, budget' \in Budgets,
           agent' = Idle \/ agent' = [Idle EXCEPT !.at = "down"],
           UNCHANGED <<chain, registry, disk, signals, cli>>
    PROVE  TypeInv'
<1>1. Typed /\ Known BY DEF TypeInv
<1>2. agent' \in Agents(Len(chain)) /\ agent'.at # "escalate"
  BY <1>1, IdleTyped, LenProperties DEF Typed
<1>3. watermark' \in 0 .. Len(chain) BY <1>1 DEF Typed, Agents
<1>4. Typed' BY <1>1, <1>2, <1>3 DEF Typed
<1>5. Known' BY <1>1, <1>2 DEF Known, OfType
<1> QED BY <1>4, <1>5 DEF TypeInv

LEMMA RestartTyped == ASSUME TypeInv, Restart PROVE TypeInv'
<1>1. Typed /\ Known BY DEF TypeInv
<1>2. /\ agent' = Idle /\ registry' = Load(disk)
      /\ UNCHANGED <<chain, watermark, disk, signals, cli, budget>>
  BY DEF Restart
<1>3. agent' \in Agents(Len(chain)) /\ agent'.at # "escalate"
  BY <1>1, <1>2, IdleTyped, LenProperties DEF Typed, Idle
<1>4. /\ registry' \in [Modes -> Entry]
      /\ \A m \in Modes : registry'[m].status # "none" => registry'[m].origin \in DOMAIN chain
  BY <1>1, <1>2 DEF Load, NoSprouts, Entry, Typed, Known
<1>5. Typed' BY <1>1, <1>2, <1>3, <1>4 DEF Typed
<1>6. Known' BY <1>1, <1>2, <1>3, <1>4 DEF Known, OfType
<1> QED BY <1>5, <1>6 DEF TypeInv

\* A command starts, writes or ends without a record
LEMMA CommandTyped ==
    ASSUME TypeInv, cli' \in Commands(Len(chain)), budget' \in Budgets,
           cli'.at # "idle" => cli'.of \in OfType("proposal"),
           signals' \in {Torn} \union SUBSET (1 .. Len(chain)),
           UNCHANGED <<chain, watermark, registry, disk, agent>>
    PROVE  TypeInv'
<1>1. Typed /\ Known BY DEF TypeInv
<1>2. Typed' BY <1>1 DEF Typed
<1>3. Known' BY <1>1 DEF Known, OfType
<1> QED BY <1>2, <1>3 DEF TypeInv

LEMMA OperatorTyped == ASSUME TypeInv, OperatorStep PROVE TypeInv'
<1>1. /\ Typed /\ Known /\ Len(chain) \in Nat /\ DOMAIN chain = 1 .. Len(chain)
      /\ cli \in Commands(Len(chain)) /\ budget \in Budgets
      /\ signals \in {Torn} \union SUBSET (1 .. Len(chain))
  BY LenProperties DEF TypeInv, Typed
<1>2. ASSUME NEW p \in DOMAIN chain, Accept(p) PROVE TypeInv'
  <2>1. /\ p \in OfType("proposal") /\ Spend("decisions")
        /\ UNCHANGED <<chain, watermark, registry, disk, signals, agent>>
        /\ \/ signals # Torn /\ cli' = [at |-> "open", of |-> p, text |-> signals \union {p}]
           \/ cli' = [at |-> "accepted", of |-> p, text |-> {}]
    BY <1>2 DEF Accept, Undecided, Scaffoldable
  <2>2. signals # Torn => signals \union {p} \in SUBSET (1 .. Len(chain))
    BY <1>1
  <2>3. cli' \in Commands(Len(chain)) /\ cli'.of = p
    BY <1>1, <2>1, <2>2 DEF Commands, Decided
  <2> QED BY <1>1, <2>1, <2>3, SpendTyped, CommandTyped
<1>3. ASSUME NEW p \in DOMAIN chain, Decline(p) PROVE TypeInv'
  <2>1. /\ p \in OfType("proposal") /\ Spend("decisions")
        /\ UNCHANGED <<chain, watermark, registry, disk, signals, agent>>
        /\ cli' = [at |-> "declined", of |-> p, text |-> {}]
    BY <1>3 DEF Decline, Undecided
  <2>2. cli' \in Commands(Len(chain)) /\ cli'.of = p
    BY <1>1, <2>1 DEF Commands, Decided
  <2> QED BY <1>1, <2>1, <2>2, SpendTyped, CommandTyped
<1>4. ASSUME OpenSignals PROVE TypeInv'
  <2>1. /\ cli' = [cli EXCEPT !.at = "fill"] /\ signals' = Torn /\ cli.at = "open"
        /\ UNCHANGED <<chain, watermark, registry, disk, agent, budget>>
    BY <1>4 DEF OpenSignals
  <2>2. cli' \in Commands(Len(chain)) /\ cli'.of = cli.of
    BY <1>1, <2>1 DEF Commands
  <2>3. cli.of \in OfType("proposal") BY <1>1, <2>1 DEF Known
  <2>4. signals' \in {Torn} \union SUBSET (1 .. Len(chain)) /\ budget' \in Budgets
    BY <1>1, <2>1
  <2> QED BY <2>1, <2>2, <2>3, <2>4, CommandTyped
<1>5. ASSUME FillSignals PROVE TypeInv'
  <2>1. /\ cli' = [cli EXCEPT !.at = "accepted", !.text = {}] /\ signals' = cli.text
        /\ UNCHANGED <<chain, watermark, registry, disk, agent, budget>> /\ cli.at = "fill"
    BY <1>5 DEF FillSignals
  <2>2. cli' \in Commands(Len(chain)) /\ cli'.of = cli.of
        /\ signals' \in SUBSET (1 .. Len(chain))
    BY <1>1, <2>1 DEF Commands, Decided
  <2> QED BY <1>1, <2>1, <2>2, CommandTyped DEF Known
<1>6. ASSUME RecordDecision PROVE TypeInv'
  <2> DEFINE r == Status(cli.of, cli.at)
  <2>1. /\ chain' = Append(chain, r) /\ cli' = NoCommand /\ cli.at \in Decided
        /\ UNCHANGED <<watermark, registry, disk, signals, agent, budget>>
    BY <1>6 DEF RecordDecision
  <2>2. cli.of \in 1 .. (Len(chain) + 1)
    BY <1>1, <2>1 DEF Known, OfType, Decided
  <2>3. r \in Record(Len(chain) + 1) BY <2>1, <2>2 DEF Record
  <2> HIDE DEF r
  <2>4. Len(chain') \in Nat BY <1>1, <2>1, <2>3, Appended
  <2>5. cli' \in Commands(Len(chain')) /\ cli'.at = "idle" BY <2>1, <2>4, IdleTyped
  <2>6. Typed' BY <1>1, <2>1, <2>3, <2>5, Appended, AppendKeepsTypes DEF Typed
  <2>7. Known' BY <1>1, <2>1, <2>3, <2>5, AppendKeepsTypes DEF Known
  <2> QED BY <2>6, <2>7 DEF TypeInv
<1>7. ASSUME CommandDies PROVE TypeInv'
  <2>1. /\ cli' = NoCommand /\ Spend("faults")
        /\ UNCHANGED <<chain, watermark, registry, disk, signals, agent>>
    BY <1>7 DEF CommandDies
  <2>2. cli' \in Commands(Len(chain)) /\ cli'.at = "idle" BY <1>1, <2>1, IdleTyped
  <2> QED BY <1>1, <2>1, <2>2, SpendTyped, CommandTyped
<1> QED BY <1>2, <1>3, <1>4, <1>5, <1>6, <1>7 DEF OperatorStep

LEMMA AgentTyped == ASSUME TypeInv, AgentStep PROVE TypeInv'
<1>1. budget \in Budgets BY DEF TypeInv, Typed
<1>2. ASSUME Stage PROVE TypeInv'
  BY <1>1, <1>2, StageTyped DEF Stage
<1>3. ASSUME Graduate PROVE TypeInv'
  BY <1>1, <1>3, GraduateTyped DEF Graduate
<1>4. ASSUME Mark PROVE TypeInv'
  BY <1>1, <1>4, StopTyped DEF Mark
<1>5. ASSUME AppendFails PROVE TypeInv'
  <2>1. budget' \in Budgets /\ UNCHANGED <<watermark, disk, signals, cli>>
    BY <1>1, <1>5, SpendTyped DEF AppendFails
  <2>2. \/ agent' = Idle /\ UNCHANGED <<chain, registry>>
        \/ StageOne(FALSE) \/ GraduateOne(FALSE)
    BY <1>5 DEF AppendFails
  <2> QED BY <2>1, <2>2, StopTyped, StageTyped, GraduateTyped
<1>6. ASSUME Crash PROVE TypeInv'
  BY <1>1, <1>6, SpendTyped, StopTyped DEF Crash
<1> QED
  BY <1>2, <1>3, <1>4, <1>5, <1>6, EvidenceTyped, ScanTyped, CommitProposalTyped,
     ReadEscalatedTyped, CommitRecurrenceTyped, EscalateTyped, SaveTyped, RestartTyped
  DEF AgentStep

LEMMA InitTyped == Init => TypeInv
<1> SUFFICES ASSUME Init PROVE TypeInv OBVIOUS
<1>1. Len(chain) = 0 /\ chain \in Seq(Record(0)) /\ watermark = 0
  BY EmptySeq DEF Init
<1>2. agent \in Agents(0) /\ cli \in Commands(0) /\ agent.at = "idle" /\ cli.at = "idle"
  BY IdleTyped DEF Init
<1>3. /\ registry \in [Modes -> Entry] /\ disk \in [Modes -> Entry]
      /\ \A m \in Modes : registry[m].status = "none" /\ disk[m].status = "none"
  BY DEF Init, NoSprouts, Entry
<1>4. budget \in Budgets BY BoundsAssumption DEF Init, Budgets
<1>5. signals \in SUBSET (1 .. 0) BY DEF Init
<1>6. Typed BY <1>1, <1>2, <1>3, <1>4, <1>5 DEF Typed
<1>7. Known BY <1>2, <1>3 DEF Known
<1> QED BY <1>6, <1>7 DEF TypeInv

LEMMA StutterTyped == TypeInv /\ UNCHANGED vars => TypeInv'
BY DEF TypeInv, Typed, Known, OfType, vars

LEMMA AlwaysTyped == Spec => []TypeInv
<1>1. TypeInv /\ [Next]_vars => TypeInv'
  BY AgentTyped, OperatorTyped, StutterTyped DEF Next
<1> QED BY <1>1, InitTyped, PTL DEF Spec

\* Types hold for any findings, modes, thresholds and bounds; in particular no
\* recurrence, decision or sprout points at a record the chain does not have
\* (agent.py:1551-1776, apply_proposal.py:321-423).
THEOREM TypeCorrect == Spec => []TypeOK
<1>1. TypeInv => TypeOK BY TypedIsTypeOK DEF TypeInv
<1> QED BY <1>1, AlwaysTyped, PTL

-----------------------------------------------------------------------------
(***************************************************************************)
(* A proposal is escalated once.                                           *)
(***************************************************************************)
Escalations == {i \in OfType("status") : chain[i].to = "escalated"}

\* The scan's set is the chain's from the moment it was read, and what is about
\* to be escalated is not in it.
EscalatedInv ==
    /\ \A i, j \in Escalations : chain[i].of = chain[j].of => i = j
    /\ agent.at \in {"recur", "escalate"} =>
           agent.escalated = {chain[i].of : i \in Escalations}
    /\ agent.at = "escalate" => agent.target \notin agent.escalated

\* A record that is no escalation leaves them as they are.
LEMMA EscalationsStay ==
    ASSUME Typed, NEW r \in Record(Len(chain) + 1), chain' = Append(chain, r),
           r.type = "status" => r.to # "escalated"
    PROVE  /\ Escalations' = Escalations
           /\ \A i \in Escalations : chain'[i] = chain[i]
<1>1. /\ Len(chain) \in Nat /\ DOMAIN chain = 1 .. Len(chain)
      /\ DOMAIN chain' = 1 .. (Len(chain) + 1)
      /\ \A i \in DOMAIN chain : chain'[i] = chain[i]
      /\ chain'[Len(chain) + 1] = r
  BY Appended
<1>2. DOMAIN chain' = DOMAIN chain \union {Len(chain) + 1} BY <1>1
<1>3. Escalations = {i \in DOMAIN chain : chain[i].type = "status" /\ chain[i].to = "escalated"}
  BY DEF Escalations, OfType
<1>4. Escalations' = {i \in DOMAIN chain' : chain'[i].type = "status" /\ chain'[i].to = "escalated"}
  BY DEF Escalations, OfType
<1> QED BY <1>1, <1>2, <1>3, <1>4

\* Every step but an escalation keeps the escalations; a scan that goes on keeps
\* what it has read.
LEMMA EscalatedKept ==
    ASSUME EscalatedInv, Escalations' = Escalations,
           \A i \in Escalations : chain'[i] = chain[i],
           \/ agent'.at \notin {"recur", "escalate"}
           \/ /\ agent.at = "recur" /\ agent'.at \in {"recur", "escalate"}
              /\ agent'.escalated = agent.escalated
              /\ agent'.at = "escalate" => agent'.target \notin agent.escalated
           \/ agent' = agent
    PROVE  EscalatedInv'
<1>1. {chain'[i].of : i \in Escalations'} = {chain[i].of : i \in Escalations} OBVIOUS
<1>2. \A i, j \in Escalations' : chain'[i].of = chain'[j].of => i = j
  BY DEF EscalatedInv
<1>3. EscalatedInv' <=>
        /\ \A i, j \in Escalations' : chain'[i].of = chain'[j].of => i = j
        /\ agent'.at \in {"recur", "escalate"} =>
               agent'.escalated = {chain'[i].of : i \in Escalations'}
        /\ agent'.at = "escalate" => agent'.target \notin agent'.escalated
  BY DEF EscalatedInv
<1> QED BY <1>1, <1>2, <1>3 DEF EscalatedInv

LEMMA EscalationsSame ==
    ASSUME UNCHANGED chain
    PROVE  Escalations' = Escalations /\ \A i \in Escalations : chain'[i] = chain[i]
BY DEF Escalations, OfType

LEMMA ReadKeepsEscalated ==
    ASSUME TypeInv, EscalatedInv, ReadEscalated PROVE EscalatedInv'
<1> DEFINE seen == {chain[i].of : i \in {j \in OfType("status") : chain[j].to = "escalated"}}
<1>1. /\ UNCHANGED chain /\ agent \in Agents(Len(chain))
      /\ agent' = [agent EXCEPT !.at = "recur", !.escalated = seen]
  BY DEF ReadEscalated, TypeInv, Typed
<1> HIDE DEF seen
<1>2. agent'.at = "recur" /\ agent'.escalated = seen BY <1>1 DEF Agents
<1>3. seen = {chain[i].of : i \in Escalations} BY DEF seen, Escalations
<1> QED BY <1>1, <1>2, <1>3, EscalationsSame DEF EscalatedInv

LEMMA RecurrenceKeepsEscalated ==
    ASSUME TypeInv, EscalatedInv, CommitRecurrence PROVE EscalatedInv'
<1>1. PICK f \in Again :
        /\ chain' = Append(chain, Recurrence(agent.again[f])) /\ agent.at = "recur"
        /\ agent' = [agent EXCEPT !.again = [agent.again EXCEPT ![f] = 0],
               !.at = IF Due(agent.again[f]) THEN "escalate" ELSE "recur",
               !.target = IF Due(agent.again[f]) THEN agent.again[f] ELSE 0]
  BY DEF CommitRecurrence
<1> DEFINE p == agent.again[f]
<1>2. Typed /\ agent \in Agents(Len(chain)) /\ f \in Nos /\ Len(chain) \in Nat
  BY LenProperties DEF TypeInv, Typed, Again
<1>3. p \in 1 .. (Len(chain) + 1) BY <1>1, <1>2 DEF Again, Agents
<1>4. Recurrence(p) \in Record(Len(chain) + 1) BY <1>3 DEF Record
<1>5. Escalations' = Escalations /\ \A i \in Escalations : chain'[i] = chain[i]
  BY <1>1, <1>2, <1>4, EscalationsStay DEF Recurrence
<1>6. /\ agent'.at = IF Due(p) THEN "escalate" ELSE "recur"
      /\ agent'.target = IF Due(p) THEN p ELSE 0
      /\ agent'.escalated = agent.escalated
  BY <1>1, <1>2 DEF Agents
<1>7. Due(p) => p \notin agent.escalated BY DEF Due
<1> QED BY <1>1, <1>5, <1>6, <1>7, EscalatedKept

LEMMA EscalateKeepsEscalated ==
    ASSUME TypeInv, EscalatedInv, Escalate PROVE EscalatedInv'
<1> DEFINE p == agent.target
           r == Status(p, "escalated")
           k == Len(chain) + 1
<1>1. /\ chain' = Append(chain, r) /\ agent.at = "escalate"
      /\ agent' = [agent EXCEPT !.at = "recur", !.target = 0,
                       !.escalated = agent.escalated \union {p}]
  BY DEF Escalate
<1>2. /\ Typed /\ agent \in Agents(Len(chain)) /\ Len(chain) \in Nat
      /\ p \in DOMAIN chain /\ DOMAIN chain = 1 .. Len(chain)
  BY <1>1, LenProperties DEF TypeInv, Typed, Known
<1>3. r \in Record(k)
  <2>1. p \in 1 .. (Len(chain) + 1) BY <1>2
  <2> QED BY <2>1 DEF Record
<1>4. r.type = "status" /\ r.to = "escalated" /\ r.of = p BY DEF Status
<1>5. agent'.at = "recur" /\ agent'.escalated = agent.escalated \union {p}
  BY <1>1, <1>2 DEF Agents
<1> HIDE DEF r, p
<1>6. /\ DOMAIN chain' = DOMAIN chain \union {k} /\ k \notin DOMAIN chain
      /\ \A i \in DOMAIN chain : chain'[i] = chain[i]
      /\ chain'[k] = r
  <2>1. /\ DOMAIN chain = 1 .. Len(chain) /\ DOMAIN chain' = 1 .. (Len(chain) + 1)
        /\ \A i \in DOMAIN chain : chain'[i] = chain[i]
        /\ chain'[k] = r
    BY <1>1, <1>2, <1>3, Appended
  <2> QED BY <1>2, <2>1
<1>7. Escalations' = Escalations \union {k} /\ k \notin Escalations
  <2>1. Escalations = {i \in DOMAIN chain : chain[i].type = "status" /\ chain[i].to = "escalated"}
    BY DEF Escalations, OfType
  <2>2. Escalations' = {i \in DOMAIN chain' : chain'[i].type = "status" /\ chain'[i].to = "escalated"}
    BY DEF Escalations, OfType
  <2> HIDE DEF k
  <2> QED BY <1>4, <1>6, <2>1, <2>2
<1>8. \A i \in Escalations : chain'[i] = chain[i] BY <1>6 DEF Escalations, OfType
<1>9. \A i \in Escalations : chain[i].of # p
  BY <1>1 DEF EscalatedInv, p
<1> HIDE DEF k
<1>10. {chain'[i].of : i \in Escalations'} = {chain[i].of : i \in Escalations} \union {p}
  BY <1>4, <1>6, <1>7, <1>8
<1>11. \A i, j \in Escalations' : chain'[i].of = chain'[j].of => i = j
  BY <1>4, <1>6, <1>7, <1>8, <1>9 DEF EscalatedInv
<1>12. agent.escalated = {chain[i].of : i \in Escalations} BY <1>1 DEF EscalatedInv
<1>13. EscalatedInv' <=>
        /\ \A i, j \in Escalations' : chain'[i].of = chain'[j].of => i = j
        /\ agent'.at \in {"recur", "escalate"} =>
               agent'.escalated = {chain'[i].of : i \in Escalations'}
        /\ agent'.at = "escalate" => agent'.target \notin agent'.escalated
  BY DEF EscalatedInv
<1> QED BY <1>5, <1>10, <1>11, <1>12, <1>13

\* Staging, graduating and recording a decision append a record of another kind.
LEMMA AppendKeepsEscalated ==
    ASSUME TypeInv, EscalatedInv, NEW r \in Record(Len(chain) + 1),
           chain' = Append(chain, r), r.type = "status" => r.to # "escalated",
           \/ agent' = agent \/ agent'.at \notin {"recur", "escalate"}
           \/ agent.at = "recur" /\ \E b \in BOOLEAN : agent' = [agent EXCEPT !.dirty = b]
    PROVE  EscalatedInv'
<1>1. Typed /\ agent \in Agents(Len(chain)) BY DEF TypeInv, Typed
<1>2. Escalations' = Escalations /\ \A i \in Escalations : chain'[i] = chain[i]
  BY <1>1, EscalationsStay
<1>3. ASSUME agent.at = "recur", NEW b \in BOOLEAN, agent' = [agent EXCEPT !.dirty = b]
      PROVE  agent'.at = "recur" /\ agent'.escalated = agent.escalated
  BY <1>1, <1>3 DEF Agents
<1> QED BY <1>2, <1>3, EscalatedKept

LEMMA AgentKeepsEscalated == ASSUME TypeInv, EscalatedInv, AgentStep PROVE EscalatedInv'
<1>1. Typed /\ Known /\ Len(chain) \in Nat /\ DOMAIN chain = 1 .. Len(chain)
      /\ agent \in Agents(Len(chain))
  BY LenProperties DEF TypeInv, Typed
<1>2. ASSUME NEW f \in Nos, Evidence(f) PROVE EscalatedInv'
  <2> DEFINE r == [type |-> "evidence", finding |-> f]
  <2>1. r \in Record(Len(chain) + 1) /\ r.type # "status" BY DEF Record
  <2>2. chain' = Append(chain, r) /\ agent' = agent BY <1>2 DEF Evidence
  <2> HIDE DEF r
  <2> QED BY <2>1, <2>2, AppendKeepsEscalated
<1>3. ASSUME NEW full \in BOOLEAN, Scan(full) PROVE EscalatedInv'
  <2>1. UNCHANGED chain /\ agent'.at = "propose" BY <1>3 DEF Scan, Idle
  <2> QED BY <2>1, EscalationsSame, EscalatedKept
<1>4. ASSUME CommitProposal PROVE EscalatedInv'
  <2>1. PICK f \in agent.new :
          /\ chain' = Append(chain, Proposal(f)) /\ agent.at = "propose"
          /\ agent' = [agent EXCEPT !.new = agent.new \ {f},
                           !.committed = agent.committed \union {Len(chain) + 1}]
    BY <1>4 DEF CommitProposal
  <2>2. Proposal(f) \in Record(Len(chain) + 1) /\ Proposal(f).type # "status"
    BY <1>1 DEF Record, Proposal, Agents
  <2>3. agent'.at = "propose" BY <1>1, <2>1 DEF Agents
  <2> QED BY <2>1, <2>2, <2>3, AppendKeepsEscalated
<1>5. ASSUME NEW done \in BOOLEAN, StageOne(done) PROVE EscalatedInv'
  <2>1. PICK p \in Unstaged :
          /\ agent.at = "recur"
          /\ IF done THEN /\ chain' = Append(chain, Sprout(Topic(p), p, "tentative"))
                          /\ agent' = [agent EXCEPT !.dirty = TRUE]
                     ELSE agent' = Idle /\ UNCHANGED chain
    BY <1>5 DEF StageOne, Staging
  <2>2. p \in 1 .. (Len(chain) + 1) /\ Topic(p) \in Modes
    BY <1>1, <2>1 DEF Unstaged, Agents
  <2>3. /\ Sprout(Topic(p), p, "tentative") \in Record(Len(chain) + 1)
        /\ Sprout(Topic(p), p, "tentative").type # "status"
    BY <2>2 DEF Record, Sprout
  <2>4. CASE done BY <2>1, <2>3, <2>4, AppendKeepsEscalated
  <2>5. CASE ~done BY <1>1, <2>1, <2>5, IdleTyped, EscalationsSame, EscalatedKept
  <2> QED BY <2>4, <2>5
<1>6. ASSUME NEW done \in BOOLEAN, GraduateOne(done) PROVE EscalatedInv'
  <2>1. PICK m \in Confirmed :
          /\ agent.at = "recur"
          /\ IF done THEN /\ chain' = Append(chain, Sprout(m, registry[m].origin, "active"))
                          /\ agent' = [agent EXCEPT !.dirty = TRUE]
                     ELSE agent' = Idle /\ UNCHANGED chain
    BY <1>6 DEF GraduateOne, Graduating
  <2>2. registry[m].origin \in 1 .. (Len(chain) + 1) /\ m \in Modes
    BY <1>1, <2>1 DEF Confirmed, Known
  <2>3. /\ Sprout(m, registry[m].origin, "active") \in Record(Len(chain) + 1)
        /\ Sprout(m, registry[m].origin, "active").type # "status"
    BY <2>2 DEF Record, Sprout
  <2>4. CASE done BY <2>1, <2>3, <2>4, AppendKeepsEscalated
  <2>5. CASE ~done BY <1>1, <2>1, <2>5, IdleTyped, EscalationsSame, EscalatedKept
  <2> QED BY <2>4, <2>5
<1>7. ASSUME OpenRegistry \/ WriteRegistry \/ SaveFails PROVE EscalatedInv'
  <2>1. /\ UNCHANGED chain
        /\ \E at \in {"save", "mark"} : agent' = [agent EXCEPT !.at = at]
    BY <1>7 DEF OpenRegistry, WriteRegistry, SaveFails
  <2>2. agent'.at \notin {"recur", "escalate"} BY <1>1, <2>1 DEF Agents
  <2> QED BY <2>1, <2>2, EscalationsSame, EscalatedKept
<1>8. ASSUME UNCHANGED chain, agent' = Idle \/ agent' = [Idle EXCEPT !.at = "down"]
      PROVE  EscalatedInv'
  BY <1>1, <1>8, IdleTyped, EscalationsSame, EscalatedKept
<1>9. ASSUME Mark \/ Crash \/ Restart PROVE EscalatedInv'
  BY <1>8, <1>9 DEF Mark, Crash, Restart
<1>10. ASSUME AppendFails PROVE EscalatedInv'
  BY <1>5, <1>6, <1>8, <1>10 DEF AppendFails
<1> QED
  BY <1>2, <1>3, <1>4, <1>5, <1>6, <1>7, <1>9, <1>10, ReadKeepsEscalated,
     RecurrenceKeepsEscalated, EscalateKeepsEscalated
  DEF AgentStep, Stage, Graduate

LEMMA OperatorKeepsEscalated ==
    ASSUME TypeInv, EscalatedInv, OperatorStep PROVE EscalatedInv'
<1>1. UNCHANGED agent
  BY DEF OperatorStep, Accept, Decline, OpenSignals, FillSignals, RecordDecision, CommandDies
<1>2. UNCHANGED chain \/ RecordDecision
  BY DEF OperatorStep, Accept, Decline, OpenSignals, FillSignals, CommandDies
<1>3. CASE UNCHANGED chain BY <1>1, <1>3, EscalationsSame, EscalatedKept
<1>4. CASE RecordDecision
  <2>1. chain' = Append(chain, Status(cli.of, cli.at)) /\ cli.at \in Decided
    BY <1>4 DEF RecordDecision
  <2>2. cli.of \in 1 .. (Len(chain) + 1)
    BY <2>1, LenProperties DEF TypeInv, Typed, Known, OfType, Decided
  <2>3. /\ Status(cli.of, cli.at) \in Record(Len(chain) + 1)
        /\ Status(cli.of, cli.at).to # "escalated"
    BY <2>1, <2>2 DEF Record, Status, Decided
  <2> QED BY <1>1, <2>1, <2>3, AppendKeepsEscalated
<1> QED BY <1>2, <1>3, <1>4

LEMMA AlwaysEscalated == Spec => []EscalatedInv
<1>1. Init => EscalatedInv
  BY DEF Init, EscalatedInv, Escalations, OfType, Idle
<1>2. TypeInv /\ EscalatedInv /\ [Next]_vars => EscalatedInv'
  <2>1. TypeInv /\ EscalatedInv /\ UNCHANGED vars => EscalatedInv'
    BY EscalationsSame, EscalatedKept DEF vars
  <2> QED BY <2>1, AgentKeepsEscalated, OperatorKeepsEscalated DEF Next
<1> QED BY <1>1, <1>2, AlwaysTyped, PTL DEF Spec

\* A proposal is escalated at most once, over any number of scans, restarts and
\* decisions (agent.py:1576-1640, "Escalation is idempotent").
THEOREM EscalatesOnce == Spec => []EscalatedOnce
<1>1. ASSUME EscalatedInv PROVE EscalatedOnce
  <2> SUFFICES ASSUME NEW p \in OfType("proposal")
               PROVE  Cardinality({i \in OfType("status") : /\ chain[i].of = p
                                                            /\ chain[i].to = "escalated"}) <= 1
    BY DEF EscalatedOnce
  <2> DEFINE S == {i \in OfType("status") : chain[i].of = p /\ chain[i].to = "escalated"}
  <2>1. \A x, y \in S : x = y BY <1>1 DEF EscalatedInv, Escalations
  <2> HIDE DEF S
  <2>2. Cardinality(S) <= 1 BY <2>1, AtMostOne
  <2> QED BY <2>2 DEF S
<1> QED BY <1>1, AlwaysEscalated, PTL

-----------------------------------------------------------------------------
(***************************************************************************)
(* A detector is accepted once, and then its stub is in signals.py.        *)
(***************************************************************************)
\* What the agent appends, and by which step
SproutStep == \E done \in BOOLEAN : StageOne(done) \/ GraduateOne(done)

LEMMA AgentAppends ==
    ASSUME TypeInv, AgentStep
    PROVE  /\ UNCHANGED <<signals, cli>>
           /\ \/ UNCHANGED chain
              \/ \E r \in Record(Len(chain) + 1) :
                     /\ chain' = Append(chain, r)
                     /\ r.type = "status" => r.to = "escalated"
                     /\ r.type = "recurrence" => CommitRecurrence
                     /\ r.type = "sprout" => SproutStep
                     /\ r.type = "proposal" => CommitProposal
<1>1. /\ Typed /\ Known /\ Len(chain) \in Nat /\ DOMAIN chain = 1 .. Len(chain)
      /\ agent \in Agents(Len(chain))
  BY LenProperties DEF TypeInv, Typed
<1>2. UNCHANGED <<signals, cli>>
  BY DEF AgentStep, Evidence, Scan, CommitProposal, ReadEscalated, CommitRecurrence, Escalate,
         Stage, Graduate, OpenRegistry, WriteRegistry, SaveFails, Mark, AppendFails, Crash, Restart
<1> DEFINE Goal == \/ UNCHANGED chain
                   \/ \E r \in Record(Len(chain) + 1) :
                          /\ chain' = Append(chain, r)
                          /\ r.type = "status" => r.to = "escalated"
                          /\ r.type = "recurrence" => CommitRecurrence
                          /\ r.type = "sprout" => SproutStep
                          /\ r.type = "proposal" => CommitProposal
<1>3. ASSUME NEW f \in Nos, Evidence(f) PROVE Goal
  <2>1. [type |-> "evidence", finding |-> f] \in Record(Len(chain) + 1) BY DEF Record
  <2> QED BY <1>3, <2>1 DEF Evidence
<1>4. ASSUME CommitProposal PROVE Goal
  <2>1. PICK f \in agent.new : chain' = Append(chain, Proposal(f))
    BY <1>4 DEF CommitProposal
  <2>2. Proposal(f) \in Record(Len(chain) + 1) BY <1>1 DEF Record, Agents
  <2>3. Proposal(f).type \notin {"status", "recurrence", "sprout"} BY DEF Proposal
  <2> QED BY <1>4, <2>1, <2>2, <2>3
<1>5. ASSUME CommitRecurrence PROVE Goal
  <2>1. PICK f \in Again : chain' = Append(chain, Recurrence(agent.again[f]))
    BY <1>5 DEF CommitRecurrence
  <2>2. agent.again[f] \in 1 .. (Len(chain) + 1) BY <1>1, <2>1 DEF Again, Agents
  <2>3. Recurrence(agent.again[f]) \in Record(Len(chain) + 1) BY <2>2 DEF Record
  <2>4. Recurrence(agent.again[f]).type = "recurrence" BY DEF Recurrence
  <2> QED BY <1>5, <2>1, <2>3, <2>4
<1>6. ASSUME Escalate PROVE Goal
  <2>1. chain' = Append(chain, Status(agent.target, "escalated")) BY <1>6 DEF Escalate
  <2>2. agent.target \in 1 .. (Len(chain) + 1) BY <1>1, <1>6 DEF Known, Escalate
  <2>3. Status(agent.target, "escalated") \in Record(Len(chain) + 1) BY <2>2 DEF Record
  <2>4. /\ Status(agent.target, "escalated").to = "escalated"
        /\ Status(agent.target, "escalated").type = "status"
    BY DEF Status
  <2> QED BY <2>1, <2>3, <2>4
<1>7. ASSUME NEW done \in BOOLEAN, StageOne(done) PROVE Goal
  <2>1. PICK p \in Unstaged : IF done THEN chain' = Append(chain, Sprout(Topic(p), p, "tentative"))
                                      ELSE UNCHANGED chain
    BY <1>7 DEF StageOne
  <2>2. p \in 1 .. (Len(chain) + 1) /\ Topic(p) \in Modes
    BY <1>1, <2>1 DEF Unstaged, Agents
  <2>3. Sprout(Topic(p), p, "tentative") \in Record(Len(chain) + 1) BY <2>2 DEF Record
  <2>4. Sprout(Topic(p), p, "tentative").type = "sprout" BY DEF Sprout
  <2>5. SproutStep BY <1>7 DEF SproutStep
  <2> QED BY <2>1, <2>3, <2>4, <2>5
<1>8. ASSUME NEW done \in BOOLEAN, GraduateOne(done) PROVE Goal
  <2>1. PICK m \in Confirmed :
          IF done THEN chain' = Append(chain, Sprout(m, registry[m].origin, "active"))
                  ELSE UNCHANGED chain
    BY <1>8 DEF GraduateOne
  <2>2. registry[m].origin \in 1 .. (Len(chain) + 1) /\ m \in Modes
    BY <1>1, <2>1 DEF Confirmed, Known
  <2>3. Sprout(m, registry[m].origin, "active") \in Record(Len(chain) + 1) BY <2>2 DEF Record
  <2>4. Sprout(m, registry[m].origin, "active").type = "sprout" BY DEF Sprout
  <2>5. SproutStep BY <1>8 DEF SproutStep
  <2> QED BY <2>1, <2>3, <2>4, <2>5
<1>9. ASSUME \/ ReadEscalated \/ OpenRegistry \/ WriteRegistry \/ SaveFails \/ Mark
             \/ Crash \/ Restart \/ (\E full \in BOOLEAN : Scan(full))
      PROVE  Goal
  BY <1>9 DEF ReadEscalated, OpenRegistry, WriteRegistry, SaveFails, Mark, Crash, Restart, Scan
<1>10. ASSUME AppendFails PROVE Goal
  BY <1>7, <1>8, <1>10 DEF AppendFails
<1> HIDE DEF Goal
<1>11. Goal
  BY <1>3, <1>4, <1>5, <1>6, <1>7, <1>8, <1>9, <1>10 DEF AgentStep, Stage, Graduate
<1> QED BY <1>2, <1>11 DEF Goal

\* The records that accept a detector, and the proposals they accept
Accepted == {i \in OfType("status") : /\ chain[i].to = "accepted"
                                      /\ Kind(chain[i].of) \in CodeKinds}
Detectors == {chain[i].of : i \in Accepted}

\* A command that is about to write signals.py adds to what is accepted; once it
\* has, the stub is there although the record is not.
StubInv ==
    /\ \A i, j \in Accepted : chain[i].of = chain[j].of => i = j
    /\ signals # Torn => Detectors \subseteq signals
    /\ cli.at \in {"open", "fill"} =>
           cli.of \notin Detectors /\ Detectors \union {cli.of} \subseteq cli.text
    /\ cli.at = "accepted" /\ Kind(cli.of) \in CodeKinds =>
           cli.of \notin Detectors /\ (signals # Torn => cli.of \in signals)

LEMMA AcceptedAppend ==
    ASSUME Typed, NEW r \in Record(Len(chain) + 1), chain' = Append(chain, r)
    PROVE  /\ \A p \in DOMAIN chain : Kind(p)' = Kind(p)
           /\ \A i \in OfType("status") : chain[i].of \in DOMAIN chain /\ chain'[i] = chain[i]
           /\ chain'[Len(chain) + 1] = r /\ Len(chain) + 1 \notin DOMAIN chain
           /\ OfType("status")' = OfType("status")
                  \union (IF r.type = "status" THEN {Len(chain) + 1} ELSE {})
<1> DEFINE k == Len(chain) + 1
<1>1. /\ Len(chain) \in Nat /\ DOMAIN chain = 1 .. Len(chain)
      /\ DOMAIN chain' = 1 .. (Len(chain) + 1)
      /\ \A i \in DOMAIN chain : chain'[i] = chain[i]
      /\ chain'[k] = r
  BY Appended
<1>2. DOMAIN chain' = DOMAIN chain \union {k} /\ k \notin DOMAIN chain BY <1>1
<1>3. \A p \in DOMAIN chain : Kind(p)' = Kind(p) BY <1>1 DEF Kind
<1>4. ASSUME NEW i \in OfType("status") PROVE chain[i].of \in DOMAIN chain
  <2>1. i \in 1 .. Len(chain) /\ chain[i].type = "status" BY <1>1 DEF OfType
  <2>2. chain[i] \in Record(Len(chain)) BY <2>1, ElementOfSeq DEF Typed
  <2> QED BY <1>1, <2>1, <2>2 DEF Record, Proposal, Recurrence, Status, Sprout
<1> HIDE DEF k
<1>5. OfType("status")' = OfType("status") \union (IF r.type = "status" THEN {k} ELSE {})
  BY <1>1, <1>2 DEF OfType
<1>6. \A i \in OfType("status") : chain'[i] = chain[i] BY <1>1 DEF OfType
<1> QED BY <1>1, <1>2, <1>3, <1>4, <1>5, <1>6 DEF k

\* A record that accepts no detector leaves them as they are.
LEMMA AcceptedStay ==
    ASSUME Typed, NEW r \in Record(Len(chain) + 1), chain' = Append(chain, r),
           r.type = "status" =>
               r.to # "accepted" \/ (r.of \in DOMAIN chain /\ Kind(r.of) \notin CodeKinds)
    PROVE  /\ Accepted' = Accepted /\ Detectors' = Detectors
           /\ \A i \in Accepted : chain'[i] = chain[i]
<1> DEFINE k == Len(chain) + 1
<1>1. /\ \A p \in DOMAIN chain : Kind(p)' = Kind(p)
      /\ \A i \in OfType("status") : chain[i].of \in DOMAIN chain /\ chain'[i] = chain[i]
      /\ chain'[k] = r /\ k \notin DOMAIN chain
      /\ OfType("status")' = OfType("status") \union (IF r.type = "status" THEN {k} ELSE {})
  BY AcceptedAppend
<1>2. Accepted' = {i \in OfType("status")' : /\ chain'[i].to = "accepted"
                                             /\ Findings[chain'[chain'[i].of].finding].kind \in CodeKinds}
  BY DEF Accepted, Kind
<1>3. \A p \in DOMAIN chain : Findings[chain'[p].finding].kind = Kind(p)
  BY <1>1 DEF Kind
<1> HIDE DEF k
<1>4. Accepted' = Accepted
  <2>1. \A i \in OfType("status") : i \in Accepted' <=> i \in Accepted
    <3> SUFFICES ASSUME NEW i \in OfType("status") PROVE i \in Accepted' <=> i \in Accepted
      OBVIOUS
    <3>1. i \in OfType("status")' /\ chain'[i] = chain[i] /\ chain[i].of \in DOMAIN chain
      BY <1>1
    <3>2. Findings[chain'[chain'[i].of].finding].kind = Kind(chain[i].of)
      BY <1>3, <3>1
    <3>3. i \in Accepted' <=> chain[i].to = "accepted" /\ Kind(chain[i].of) \in CodeKinds
      BY <1>2, <3>1, <3>2
    <3>4. i \in Accepted <=> chain[i].to = "accepted" /\ Kind(chain[i].of) \in CodeKinds
      BY DEF Accepted
    <3> QED BY <3>3, <3>4
  <2>2. r.type = "status" => k \notin Accepted' BY <1>1, <1>2, <1>3
  <2>3. Accepted \subseteq OfType("status") BY DEF Accepted
  <2>4. Accepted' \subseteq OfType("status")' BY <1>2
  <2> QED BY <1>1, <2>1, <2>2, <2>3, <2>4
<1>5. \A i \in Accepted : chain'[i] = chain[i] BY <1>1 DEF Accepted
<1>6. Detectors' = {chain'[i].of : i \in Accepted'} BY DEF Detectors
<1> QED BY <1>4, <1>5, <1>6 DEF Detectors

LEMMA AcceptedAdd ==
    ASSUME Typed, NEW p \in DOMAIN chain, Kind(p) \in CodeKinds,
           chain' = Append(chain, Status(p, "accepted"))
    PROVE  /\ Accepted' = Accepted \union {Len(chain) + 1}
           /\ Len(chain) + 1 \notin Accepted /\ chain'[Len(chain) + 1].of = p
           /\ Detectors' = Detectors \union {p}
           /\ \A i \in Accepted : chain'[i] = chain[i]
<1> DEFINE k == Len(chain) + 1
           r == Status(p, "accepted")
<1>1. r \in Record(k)
  <2>1. p \in 1 .. (Len(chain) + 1) BY LenProperties DEF Typed
  <2> QED BY <2>1 DEF Record, Decided
<1>2. /\ \A q \in DOMAIN chain : Kind(q)' = Kind(q)
      /\ \A i \in OfType("status") : chain[i].of \in DOMAIN chain /\ chain'[i] = chain[i]
      /\ chain'[k] = r /\ k \notin DOMAIN chain
      /\ OfType("status")' = OfType("status") \union (IF r.type = "status" THEN {k} ELSE {})
  BY <1>1, AcceptedAppend
<1>3. r.type = "status" /\ r.to = "accepted" /\ r.of = p BY DEF Status
<1>4. Accepted' = {i \in OfType("status")' : /\ chain'[i].to = "accepted"
                                             /\ Findings[chain'[chain'[i].of].finding].kind \in CodeKinds}
  BY DEF Accepted, Kind
<1>5. \A q \in DOMAIN chain : Findings[chain'[q].finding].kind = Kind(q)
  BY <1>2 DEF Kind
<1> HIDE DEF k, r
<1>6. Accepted' = Accepted \union {k} /\ k \notin Accepted
  BY <1>2, <1>3, <1>4, <1>5 DEF Accepted, OfType
<1>7. \A i \in Accepted : chain'[i] = chain[i] BY <1>2 DEF Accepted
<1>8. Detectors' = {chain'[i].of : i \in Accepted'} BY DEF Detectors
<1> QED BY <1>2, <1>3, <1>6, <1>7, <1>8, ZenonT(40) DEF Detectors, k

LEMMA AcceptedSame ==
    ASSUME UNCHANGED chain
    PROVE  /\ Accepted' = Accepted /\ Detectors' = Detectors
           /\ \A i \in Accepted : chain'[i] = chain[i]
BY DEF Accepted, Detectors, OfType, Kind

\* While the command waits, what it knows of the chain stays true.
LEMMA StubPrimed ==
    StubInv' <=>
        /\ \A i, j \in Accepted' : chain'[i].of = chain'[j].of => i = j
        /\ signals' # Torn => Detectors' \subseteq signals'
        /\ cli'.at \in {"open", "fill"} =>
               cli'.of \notin Detectors' /\ Detectors' \union {cli'.of} \subseteq cli'.text
        /\ cli'.at = "accepted" /\ Findings[chain'[cli'.of].finding].kind \in CodeKinds =>
               cli'.of \notin Detectors' /\ (signals' # Torn => cli'.of \in signals')
BY DEF StubInv, Kind

LEMMA StubKeptByAgent == ASSUME TypeInv, StubInv, AgentStep PROVE StubInv'
<1>1. /\ Typed /\ Known /\ DOMAIN chain = 1 .. Len(chain)
      /\ UNCHANGED <<signals, cli>>
  BY AgentAppends, LenProperties DEF TypeInv, Typed
<1>2. cli.at # "idle" => cli.of \in DOMAIN chain BY <1>1 DEF Known, OfType
<1> DEFINE Same == /\ Accepted' = Accepted /\ Detectors' = Detectors
                   /\ \A i \in Accepted : chain'[i] = chain[i]
                   /\ \A p \in DOMAIN chain : Findings[chain'[p].finding].kind = Kind(p)
<1>3. Same
  <2>1. CASE UNCHANGED chain BY <2>1, AcceptedSame DEF Kind
  <2>2. ASSUME NEW r \in Record(Len(chain) + 1), chain' = Append(chain, r),
               r.type = "status" => r.to = "escalated"
        PROVE  Same
    BY <1>1, <2>2, AcceptedStay, AcceptedAppend DEF Kind
  <2> QED BY <2>1, <2>2, AgentAppends
<1> QED BY <1>1, <1>2, <1>3, StubPrimed DEF StubInv

LEMMA StubKeptByOperator == ASSUME TypeInv, StubInv, OperatorStep PROVE StubInv'
<1>1. /\ Typed /\ Known /\ DOMAIN chain = 1 .. Len(chain)
      /\ cli \in Commands(Len(chain))
      /\ signals \in {Torn} \union SUBSET (1 .. Len(chain))
  BY LenProperties DEF TypeInv, Typed
<1>2. UNCHANGED chain => /\ Accepted' = Accepted /\ Detectors' = Detectors
                         /\ \A i \in Accepted : chain'[i] = chain[i]
                         /\ \A p : Findings[chain'[p].finding].kind = Kind(p)
  BY AcceptedSame DEF Kind
<1>3. ASSUME NEW p \in DOMAIN chain, Accept(p) PROVE StubInv'
  <2>1. UNCHANGED <<chain, signals>> BY <1>3 DEF Accept
  <2>2. CASE /\ signals # Torn /\ p \notin signals
             /\ cli' = [at |-> "open", of |-> p, text |-> signals \union {p}]
    <3>1. cli'.at = "open" /\ cli'.of = p /\ cli'.text = signals \union {p} BY <2>2
    <3>2. Detectors \subseteq signals BY <2>2 DEF StubInv
    <3> QED BY <1>2, <2>1, <2>2, <3>1, <3>2, StubPrimed DEF StubInv
  <2>3. CASE Kind(p) \notin CodeKinds /\ cli' = [at |-> "accepted", of |-> p, text |-> {}]
    <3>1. cli'.at = "accepted" /\ cli'.of = p BY <2>3
    <3> QED BY <1>2, <2>1, <2>3, <3>1, StubPrimed DEF StubInv
  <2> QED BY <1>3, <2>2, <2>3 DEF Accept, Scaffoldable
<1>4. ASSUME NEW p \in DOMAIN chain, Decline(p) PROVE StubInv'
  <2>1. UNCHANGED <<chain, signals>> /\ cli' = [at |-> "declined", of |-> p, text |-> {}]
    BY <1>4 DEF Decline
  <2>2. cli'.at = "declined" BY <2>1
  <2> QED BY <1>2, <2>1, <2>2, StubPrimed DEF StubInv
<1>5. ASSUME OpenSignals PROVE StubInv'
  <2>1. UNCHANGED chain /\ signals' = Torn /\ cli.at = "open" /\ cli' = [cli EXCEPT !.at = "fill"]
    BY <1>5 DEF OpenSignals
  <2>2. cli'.at = "fill" /\ cli'.of = cli.of /\ cli'.text = cli.text
    BY <1>1, <2>1 DEF Commands
  <2> QED BY <1>2, <2>1, <2>2, StubPrimed DEF StubInv
<1>6. ASSUME FillSignals PROVE StubInv'
  <2>1. /\ UNCHANGED chain /\ signals' = cli.text /\ cli.at = "fill"
        /\ cli' = [cli EXCEPT !.at = "accepted", !.text = {}]
    BY <1>6 DEF FillSignals
  <2>2. cli'.at = "accepted" /\ cli'.of = cli.of
    BY <1>1, <2>1 DEF Commands
  <2>3. cli.of \notin Detectors /\ Detectors \union {cli.of} \subseteq cli.text
    BY <2>1 DEF StubInv
  <2> QED BY <1>2, <2>1, <2>2, <2>3, StubPrimed DEF StubInv
<1>7. ASSUME CommandDies PROVE StubInv'
  <2>1. UNCHANGED <<chain, signals>> /\ cli'.at = "idle"
    BY <1>7 DEF CommandDies, NoCommand
  <2> QED BY <1>2, <2>1, StubPrimed DEF StubInv
<1>8. ASSUME RecordDecision PROVE StubInv'
  <2>1. /\ chain' = Append(chain, Status(cli.of, cli.at)) /\ cli.at \in Decided
        /\ UNCHANGED signals /\ cli'.at = "idle"
    BY <1>8 DEF RecordDecision, NoCommand
  <2>2. cli.of \in DOMAIN chain BY <1>1, <2>1 DEF Known, OfType, Decided
  <2>3. CASE cli.at = "accepted" /\ Kind(cli.of) \in CodeKinds
    <3>1. /\ Accepted' = Accepted \union {Len(chain) + 1} /\ Len(chain) + 1 \notin Accepted
          /\ chain'[Len(chain) + 1].of = cli.of /\ Detectors' = Detectors \union {cli.of}
          /\ \A i \in Accepted : chain'[i] = chain[i]
      BY <1>1, <2>1, <2>2, <2>3, AcceptedAdd
    <3>2. cli.of \notin Detectors /\ (signals # Torn => cli.of \in signals)
      BY <2>3 DEF StubInv
    <3>3. \A i \in Accepted : chain[i].of \in Detectors BY DEF Detectors
    <3>4. \A i, j \in Accepted' : chain'[i].of = chain'[j].of => i = j
      <4> DEFINE k == Len(chain) + 1
      <4> HIDE DEF k
      <4>1. \A i \in Accepted : chain'[i].of # chain'[k].of
        BY <3>1, <3>2, <3>3 DEF k
      <4>2. \A i, j \in Accepted : chain'[i].of = chain'[j].of => i = j
        BY <3>1 DEF StubInv
      <4> QED BY <3>1, <4>1, <4>2 DEF k
    <3> QED BY <2>1, <3>1, <3>2, <3>4, StubPrimed DEF StubInv
  <2>4. CASE ~(cli.at = "accepted" /\ Kind(cli.of) \in CodeKinds)
    <3> DEFINE r == Status(cli.of, cli.at)
    <3>1. cli.of \in 1 .. (Len(chain) + 1) BY <1>1, <2>2, LenProperties DEF Typed
    <3>2. r \in Record(Len(chain) + 1) BY <2>1, <3>1 DEF Record
    <3>3. r.of = cli.of /\ r.to = cli.at BY DEF Status
    <3> HIDE DEF r
    <3>4. /\ Accepted' = Accepted /\ Detectors' = Detectors
          /\ \A i \in Accepted : chain'[i] = chain[i]
      BY <1>1, <2>1, <2>2, <2>4, <3>2, <3>3, AcceptedStay DEF r
    <3>5. signals' = signals /\ cli'.at = "idle" BY <2>1
    <3>6. \A i, j \in Accepted' : chain'[i].of = chain'[j].of => i = j
      BY <3>4 DEF StubInv
    <3> QED BY <3>4, <3>5, <3>6, StubPrimed DEF StubInv
  <2> QED BY <2>3, <2>4
<1> QED BY <1>3, <1>4, <1>5, <1>6, <1>7, <1>8 DEF OperatorStep

LEMMA AlwaysStub == Spec => []StubInv
<1>1. Init => StubInv
  BY DEF Init, StubInv, Accepted, Detectors, OfType, NoCommand
<1>2. TypeInv /\ StubInv /\ [Next]_vars => StubInv'
  <2>1. StubInv /\ UNCHANGED vars => StubInv'
    BY AcceptedSame DEF StubInv, vars, Kind
  <2> QED BY <2>1, StubKeptByAgent, StubKeptByOperator DEF Next
<1> QED BY <1>1, <1>2, AlwaysTyped, PTL DEF Spec

\* The stub of an accepted modality or sense is in signals.py, wherever a
\* command died (apply_proposal.py:366-401).
THEOREM AlwaysHasStub == Spec => []AcceptedHasStub
<1>1. StubInv => AcceptedHasStub
  BY DEF StubInv, AcceptedHasStub, Accepts, Accepted, Detectors
<1> QED BY <1>1, AlwaysStub, PTL

\* A detector is accepted at most once, although an escalation opens the decision
\* again and a command that died may be run again (apply_proposal.py:352-401).
THEOREM AcceptsOnce == Spec => []AcceptedOnce
<1>1. ASSUME StubInv PROVE AcceptedOnce
  <2> SUFFICES ASSUME NEW p \in OfType("proposal"), Kind(p) \in CodeKinds
               PROVE  Cardinality(Accepts(p)) <= 1
    BY DEF AcceptedOnce
  <2>1. \A x, y \in Accepts(p) : x = y BY <1>1 DEF StubInv, Accepts, Accepted
  <2> QED BY <2>1, AtMostOne
<1> QED BY <1>1, AlwaysStub, PTL

-----------------------------------------------------------------------------
(***************************************************************************)
(* Counts: an escalation that is due is not forgotten, and a sprout        *)
(* graduates on what the chain says.                                       *)
(***************************************************************************)
\* recurrence_count over a given chain
CountIn(c, p) == 1 + Cardinality({i \in {j \in DOMAIN c : c[j].type = "recurrence"} : c[i].of = p})

LEMMA CountIsCountIn == \A p : Count(p) = CountIn(chain, p)
BY DEF Count, CountIn, OfType

LEMMA CountAppend ==
    ASSUME NEW c, c \in Seq(Record(Len(c))), NEW r \in Record(Len(c) + 1),
           NEW d, d = Append(c, r), NEW p
    PROVE  /\ CountIn(c, p) \in Nat /\ CountIn(d, p) \in Nat
           /\ CountIn(d, p) = IF r.type = "recurrence" /\ r.of = p
                              THEN CountIn(c, p) + 1 ELSE CountIn(c, p)
<1> DEFINE Marks(s) == {i \in {j \in DOMAIN s : s[j].type = "recurrence"} : s[i].of = p}
           k == Len(c) + 1
<1>1. /\ Len(c) \in Nat /\ DOMAIN c = 1 .. Len(c) /\ DOMAIN d = 1 .. (Len(c) + 1)
      /\ \A i \in DOMAIN c : d[i] = c[i]
      /\ d[k] = r
  BY AppendFacts
<1>2. DOMAIN d = DOMAIN c \union {k} /\ k \notin DOMAIN c BY <1>1
<1>3. IsFiniteSet(Marks(c))
  <2>1. IsFiniteSet(1 .. Len(c)) BY <1>1, FS_Interval
  <2>2. Marks(c) \in SUBSET (1 .. Len(c)) BY <1>1
  <2> QED BY <2>1, <2>2, FS_Subset
<1>4. Marks(d) = IF r.type = "recurrence" /\ r.of = p THEN Marks(c) \union {k} ELSE Marks(c)
  <2> HIDE DEF k
  <2> QED BY <1>1, <1>2
<1>5. k \notin Marks(c) BY <1>2
<1>6. CountIn(c, p) = 1 + Cardinality(Marks(c)) /\ CountIn(d, p) = 1 + Cardinality(Marks(d))
  BY DEF CountIn
<1> HIDE DEF Marks, k
<1>7. /\ IsFiniteSet(Marks(c) \union {k})
      /\ Cardinality(Marks(c) \union {k}) = Cardinality(Marks(c)) + 1
  BY <1>3, <1>5, FS_AddElement
<1>8. Cardinality(Marks(c)) \in Nat BY <1>3, FS_CardinalityType
<1> QED BY <1>4, <1>6, <1>7, <1>8

\* A proposal is its own first sighting.
LEMMA FreshCount ==
    ASSUME NEW c, c \in Seq(Record(Len(c))) PROVE CountIn(c, Len(c) + 1) = 1
<1> DEFINE k == Len(c) + 1
<1>1. Len(c) \in Nat /\ DOMAIN c = 1 .. Len(c) BY LenProperties
<1>2. ASSUME NEW i \in DOMAIN c, c[i].type = "recurrence" PROVE c[i].of # k
  <2>1. c[i] \in Record(Len(c)) BY <1>1, ElementOfSeq
  <2>2. c[i].of \in 1 .. Len(c)
    BY <1>2, <2>1 DEF Record, Proposal, Recurrence, Status, Sprout
  <2> QED BY <1>1, <2>2
<1>3. {i \in {j \in DOMAIN c : c[j].type = "recurrence"} : c[i].of = k} = {} BY <1>2
<1>4. CountIn(c, k) = 1 + Cardinality({}) BY <1>3 DEF CountIn
<1> HIDE DEF k
<1>5. CountIn(c, k) = 1 BY <1>4, FS_EmptySet
<1> QED BY <1>5 DEF k

LEMMA StepAppends ==
    ASSUME TypeInv, Next
    PROVE  \/ UNCHANGED chain
           \/ \E r \in Record(Len(chain) + 1) :
                  /\ chain' = Append(chain, r)
                  /\ r.type = "recurrence" => CommitRecurrence
                  /\ r.type = "sprout" => SproutStep
                  /\ r.type = "proposal" => CommitProposal
<1>1. ASSUME OperatorStep, ~ UNCHANGED chain PROVE RecordDecision
  BY <1>1 DEF OperatorStep, Accept, Decline, OpenSignals, FillSignals, CommandDies
<1>2. ASSUME RecordDecision
      PROVE  /\ Status(cli.of, cli.at) \in Record(Len(chain) + 1)
             /\ chain' = Append(chain, Status(cli.of, cli.at))
             /\ Status(cli.of, cli.at).type = "status"
  <2>1. cli.of \in 1 .. (Len(chain) + 1) /\ cli.at \in Decided
    BY <1>2, LenProperties DEF RecordDecision, TypeInv, Typed, Known, OfType, Decided
  <2> QED BY <1>2, <2>1 DEF Record, Status, RecordDecision
<1> QED BY <1>1, <1>2, AgentAppends DEF Next

\* Whether a record is appended or none, a count only grows.
LEMMA CountsGrow ==
    ASSUME TypeInv, Next
    PROVE  \A p : /\ CountIn(chain, p) \in Nat /\ CountIn(chain', p) \in Nat
                  /\ CountIn(chain', p) >= CountIn(chain, p)
                  /\ ~ CommitRecurrence => CountIn(chain', p) = CountIn(chain, p)
<1> SUFFICES ASSUME NEW p
             PROVE  /\ CountIn(chain, p) \in Nat /\ CountIn(chain', p) \in Nat
                    /\ CountIn(chain', p) >= CountIn(chain, p)
                    /\ ~ CommitRecurrence => CountIn(chain', p) = CountIn(chain, p)
  OBVIOUS
<1>1. chain \in Seq(Record(Len(chain))) /\ Len(chain) \in Nat
  BY LenProperties DEF TypeInv, Typed
<1>2. CountIn(chain, p) \in Nat
  <2>1. 1 \in 1 .. (Len(chain) + 1) BY <1>1
  <2>2. Recurrence(1) \in Record(Len(chain) + 1) BY <2>1 DEF Record
  <2> QED BY <1>1, <2>2, CountAppend
<1>3. CASE UNCHANGED chain BY <1>2, <1>3
<1>4. ASSUME NEW r \in Record(Len(chain) + 1), chain' = Append(chain, r),
             r.type = "recurrence" => CommitRecurrence
      PROVE  /\ CountIn(chain', p) \in Nat /\ CountIn(chain', p) >= CountIn(chain, p)
             /\ ~ CommitRecurrence => CountIn(chain', p) = CountIn(chain, p)
  <2>1. /\ CountIn(chain', p) \in Nat
        /\ CountIn(chain', p) = IF r.type = "recurrence" /\ r.of = p
                                THEN CountIn(chain, p) + 1 ELSE CountIn(chain, p)
    BY <1>1, <1>4, CountAppend, ZenonT(40)
  <2> QED BY <1>2, <1>4, <2>1
<1> QED BY <1>2, <1>3, <1>4, StepAppends

-----------------------------------------------------------------------------
\* What a scan, a sprout or a file says graduated has its sightings.
Grown(m, reg, c) == reg[m].status = "active" => CountIn(c, reg[m].origin) >= GraduateAt

LEMMA GraduatedIs ==
    GraduatedIsConfirmed <=>
        /\ \A m \in Modes : Grown(m, registry, chain)
        /\ disk # Torn => \A m \in Modes : Grown(m, disk, chain)
        /\ \A i \in OfType("sprout") :
               chain[i].to = "active" => CountIn(chain, chain[i].of) >= GraduateAt
BY CountIsCountIn DEF GraduatedIsConfirmed, Grown

LEMMA GraduatedPrimed ==
    GraduatedIsConfirmed' <=>
        /\ \A m \in Modes : Grown(m, registry', chain')
        /\ disk' # Torn => \A m \in Modes : Grown(m, disk', chain')
        /\ \A i \in OfType("sprout")' :
               chain'[i].to = "active" => CountIn(chain', chain'[i].of) >= GraduateAt
BY DEF GraduatedIsConfirmed, Grown, Count, CountIn, OfType

\* A step that changes no registry and appends no active sprout
LEMMA GraduatedKept ==
    ASSUME TypeInv, Next, GraduatedIsConfirmed,
           \A m \in Modes : Grown(m, registry', chain) \/ Grown(m, registry', chain'),
           disk' # Torn => \A m \in Modes : Grown(m, disk', chain),
           \A i \in OfType("sprout")' :
               \/ i \in OfType("sprout") /\ chain'[i] = chain[i]
               \/ chain'[i].to = "active" => CountIn(chain', chain'[i].of) >= GraduateAt
    PROVE  GraduatedIsConfirmed'
<1>1. \A p : CountIn(chain, p) >= GraduateAt => CountIn(chain', p) >= GraduateAt
  BY CountsGrow, BoundsAssumption
<1>2. \A m \in Modes : Grown(m, registry', chain') BY <1>1 DEF Grown
<1>3. disk' # Torn => \A m \in Modes : Grown(m, disk', chain') BY <1>1 DEF Grown
<1>4. \A i \in OfType("sprout")' :
          chain'[i].to = "active" => CountIn(chain', chain'[i].of) >= GraduateAt
  BY <1>1, GraduatedIs
<1> QED BY <1>2, <1>3, <1>4, GraduatedPrimed

LEMMA StageKeepsGraduated ==
    ASSUME TypeInv, Next, GraduatedIsConfirmed, NEW done \in BOOLEAN, StageOne(done),
           UNCHANGED disk
    PROVE  GraduatedIsConfirmed'
<1>1. PICK p \in Unstaged :
        /\ registry' = [registry EXCEPT ![Topic(p)] = [status |-> "tentative", origin |-> p]]
        /\ IF done THEN chain' = Append(chain, Sprout(Topic(p), p, "tentative"))
                   ELSE UNCHANGED chain
  BY DEF StageOne
<1>2. /\ Typed /\ Len(chain) \in Nat /\ Topic(p) \in Modes
      /\ p \in 1 .. (Len(chain) + 1) /\ registry \in [Modes -> Entry]
  BY <1>1, LenProperties DEF TypeInv, Typed, Unstaged, Agents
<1>3. \A m \in Modes : Grown(m, registry', chain)
  <2>1. \A m \in Modes : registry'[m].status = "active" => registry'[m] = registry[m]
    BY <1>1, <1>2
  <2> QED BY <2>1, GraduatedIs DEF Grown
<1>4. \A i \in OfType("sprout")' :
          \/ i \in OfType("sprout") /\ chain'[i] = chain[i]
          \/ chain'[i].to # "active"
  <2> DEFINE r == Sprout(Topic(p), p, "tentative")
  <2>1. r \in Record(Len(chain) + 1) BY <1>2 DEF Record
  <2>2. r.to # "active" BY DEF Sprout
  <2> HIDE DEF r
  <2>3. CASE done
    <3>1. chain' = Append(chain, r) BY <1>1, <2>3 DEF r
    <3>2. /\ DOMAIN chain = 1 .. Len(chain) /\ DOMAIN chain' = 1 .. (Len(chain) + 1)
          /\ \A i \in DOMAIN chain : chain'[i] = chain[i]
          /\ chain'[Len(chain) + 1] = r
      BY <1>2, <2>1, <3>1, Appended
    <3>3. \A i \in DOMAIN chain' : i \in DOMAIN chain \/ i = Len(chain) + 1 BY <1>2, <3>2
    <3> QED BY <2>2, <3>2, <3>3 DEF OfType
  <2>4. CASE ~done
    <3>1. UNCHANGED chain BY <1>1, <2>4
    <3> QED BY <3>1 DEF OfType
  <2> QED BY <2>3, <2>4
<1>5. disk' # Torn => \A m \in Modes : Grown(m, disk', chain) BY GraduatedIs
<1> QED BY <1>3, <1>4, <1>5, GraduatedKept

LEMMA GraduateKeepsGraduated ==
    ASSUME TypeInv, Next, GraduatedIsConfirmed, NEW done \in BOOLEAN, GraduateOne(done),
           UNCHANGED disk
    PROVE  GraduatedIsConfirmed'
<1>1. PICK k \in Confirmed :
        /\ registry' = [registry EXCEPT ![k] = [status |-> "active",
                                                origin |-> registry[k].origin]]
        /\ IF done THEN chain' = Append(chain, Sprout(k, registry[k].origin, "active"))
                   ELSE UNCHANGED chain
  BY DEF GraduateOne
<1> DEFINE p == registry[k].origin
<1>2. /\ Typed /\ Len(chain) \in Nat /\ k \in Modes /\ registry \in [Modes -> Entry]
      /\ p \in 1 .. (Len(chain) + 1) /\ CountIn(chain, p) >= GraduateAt
  BY <1>1, CountIsCountIn, LenProperties DEF TypeInv, Typed, Known, Confirmed
<1>3. \A m \in Modes : Grown(m, registry', chain)
  <2>1. registry'[k].origin = p BY <1>1, <1>2
  <2>2. \A m \in Modes \ {k} : registry'[m] = registry[m] BY <1>1, <1>2
  <2> QED BY <1>2, <2>1, <2>2, GraduatedIs DEF Grown
<1> HIDE DEF p
<1>4. CountIn(chain', p) >= GraduateAt
  <2>1. /\ CountIn(chain, p) \in Nat /\ CountIn(chain', p) \in Nat
        /\ CountIn(chain', p) >= CountIn(chain, p)
    BY CountsGrow
  <2> QED BY <1>2, <2>1, BoundsAssumption
<1>5. \A i \in OfType("sprout")' :
          \/ i \in OfType("sprout") /\ chain'[i] = chain[i]
          \/ chain'[i].to = "active" => CountIn(chain', chain'[i].of) >= GraduateAt
  <2> DEFINE r == Sprout(k, p, "active")
  <2>1. r \in Record(Len(chain) + 1) BY <1>2 DEF Record
  <2>2. r.of = p BY DEF Sprout
  <2> HIDE DEF r
  <2>3. CASE done
    <3>1. chain' = Append(chain, r) BY <1>1, <2>3 DEF r, p
    <3>2. /\ DOMAIN chain = 1 .. Len(chain) /\ DOMAIN chain' = 1 .. (Len(chain) + 1)
          /\ \A i \in DOMAIN chain : chain'[i] = chain[i]
          /\ chain'[Len(chain) + 1] = r
      BY <1>2, <2>1, <3>1, Appended
    <3>3. \A i \in DOMAIN chain' : i \in DOMAIN chain \/ i = Len(chain) + 1 BY <1>2, <3>2
    <3> QED BY <1>4, <2>2, <3>2, <3>3 DEF OfType
  <2>4. CASE ~done
    <3>1. UNCHANGED chain BY <1>1, <2>4
    <3> QED BY <3>1 DEF OfType
  <2> QED BY <2>3, <2>4
<1>6. disk' # Torn => \A m \in Modes : Grown(m, disk', chain) BY GraduatedIs
<1> QED BY <1>3, <1>5, <1>6, GraduatedKept

LEMMA SproutsStay ==
    ASSUME TypeInv, Next, ~ SproutStep
    PROVE  \A i \in OfType("sprout")' : i \in OfType("sprout") /\ chain'[i] = chain[i]
<1>1. Typed /\ Len(chain) \in Nat BY LenProperties DEF TypeInv, Typed
<1>2. CASE UNCHANGED chain BY <1>2 DEF OfType
<1>3. ASSUME NEW r \in Record(Len(chain) + 1), chain' = Append(chain, r), r.type # "sprout"
      PROVE  \A i \in OfType("sprout")' : i \in OfType("sprout") /\ chain'[i] = chain[i]
  <2>1. /\ DOMAIN chain = 1 .. Len(chain) /\ DOMAIN chain' = 1 .. (Len(chain) + 1)
        /\ \A i \in DOMAIN chain : chain'[i] = chain[i]
        /\ chain'[Len(chain) + 1] = r
    BY <1>1, <1>3, Appended
  <2>2. \A i \in DOMAIN chain' : i \in DOMAIN chain \/ i = Len(chain) + 1 BY <1>1, <2>1
  <2> QED BY <1>3, <2>1, <2>2 DEF OfType
<1> QED BY <1>2, <1>3, StepAppends

LEMMA NextKeepsGraduated ==
    ASSUME TypeInv, Next, GraduatedIsConfirmed PROVE GraduatedIsConfirmed'
<1>1. CASE SproutStep
  <2>1. UNCHANGED disk
    <3>1. Staging \/ Graduating BY <1>1 DEF SproutStep, StageOne, GraduateOne
    <3>2. ~ OpenRegistry /\ ~ WriteRegistry
      BY <3>1 DEF Staging, Graduating, Settled, OpenRegistry, WriteRegistry
    <3> QED
      BY <3>2 DEF Next, AgentStep, OperatorStep, Evidence, Scan, CommitProposal,
         ReadEscalated, CommitRecurrence, Escalate, Stage, Graduate, SaveFails, Mark,
         AppendFails, Crash, Restart, Accept, Decline, OpenSignals, FillSignals,
         RecordDecision, CommandDies
  <2> QED BY <1>1, <2>1, StageKeepsGraduated, GraduateKeepsGraduated DEF SproutStep
<1>2. CASE ~ SproutStep
  <2>1. /\ registry' \in {registry, Load(disk)}
        /\ disk' \in {disk, registry, Torn}
    BY <1>2 DEF SproutStep, Next, AgentStep, OperatorStep, Evidence, Scan, CommitProposal,
       ReadEscalated, CommitRecurrence, Escalate, Stage, Graduate, OpenRegistry,
       WriteRegistry, SaveFails, Mark, AppendFails, Crash, Restart, Accept, Decline,
       OpenSignals, FillSignals, RecordDecision, CommandDies
  <2>2. \A m \in Modes : Grown(m, registry, chain)
    BY GraduatedIs
  <2>3. \A m \in Modes : Grown(m, registry', chain)
    <3>1. \A m \in Modes : Grown(m, Load(disk), chain)
      BY GraduatedIs DEF Grown, Load, NoSprouts
    <3> QED BY <2>1, <2>2, <3>1
  <2>4. disk' # Torn => \A m \in Modes : Grown(m, disk', chain)
    BY <2>1, <2>2, GraduatedIs
  <2> QED BY <1>2, <2>3, <2>4, SproutsStay, GraduatedKept
<1> QED BY <1>1, <1>2

\* A sprout has full weight, in memory, in its file and on the chain, only after
\* GraduateAt sightings of its proposal, whatever crashed in between
\* (agent.py:1738-1762, semantic_map.py:294-350).
THEOREM GraduatesConfirmed == Spec => []GraduatedIsConfirmed
<1>1. Init => GraduatedIsConfirmed
  BY DEF Init, GraduatedIsConfirmed, NoSprouts, OfType
<1>2. TypeInv /\ GraduatedIsConfirmed /\ [Next]_vars => GraduatedIsConfirmed'
  <2>1. GraduatedIsConfirmed /\ UNCHANGED vars => GraduatedIsConfirmed'
    BY DEF GraduatedIsConfirmed, vars, Count, OfType
  <2> QED BY <2>1, NextKeepsGraduated
<1> QED BY <1>1, <1>2, AlwaysTyped, PTL DEF Spec

-----------------------------------------------------------------------------
\* What has been escalated, and how far the others may count
Raised == {chain[i].of : i \in Escalations}
Line(p) == EscalateAt + (MaxFaults - budget.faults)
               + (IF agent.at = "escalate" /\ agent.target = p THEN 1 ELSE 0)

LEMMA NotMissedIs ==
    EscalationNotMissed <=>
        \A p \in OfType("proposal") : p \notin Raised => CountIn(chain, p) < Line(p)
<1>1. ASSUME NEW p
      PROVE  (\A i \in OfType("status") : chain[i].of = p => chain[i].to # "escalated")
                 <=> p \notin Raised
  BY DEF Raised, Escalations
<1> QED BY <1>1, CountIsCountIn DEF EscalationNotMissed, Line

LEMMA LineType ==
    ASSUME TypeInv, NEW p
    PROVE  /\ Line(p) \in Nat /\ Line(p) >= EscalateAt
           /\ budget.faults \in 0 .. MaxFaults /\ MaxFaults \in Nat
           /\ agent.at = "escalate" /\ agent.target = p =>
                  Line(p) = EscalateAt + (MaxFaults - budget.faults) + 1
           /\ ~ (agent.at = "escalate" /\ agent.target = p) =>
                  Line(p) = EscalateAt + (MaxFaults - budget.faults)
<1>1. budget.faults \in 0 .. MaxFaults BY DEF TypeInv, Typed, Budgets
<1>2. MaxFaults \in Nat /\ EscalateAt \in Nat BY BoundsAssumption
<1> QED BY <1>1, <1>2 DEF Line

\* A step raises more, and adds to the proposals only one that is counted once.
LEMMA ChainMoves ==
    ASSUME TypeInv, Next
    PROVE  /\ Raised \subseteq Raised'
           /\ \A p \in OfType("proposal")' : p \in OfType("proposal") \/ CountIn(chain, p) = 1
<1>1. Typed /\ Len(chain) \in Nat BY LenProperties DEF TypeInv, Typed
<1>2. CASE UNCHANGED chain BY <1>2 DEF OfType, Raised, Escalations
<1>3. ASSUME NEW r \in Record(Len(chain) + 1), chain' = Append(chain, r)
      PROVE  /\ Raised \subseteq Raised'
             /\ \A p \in OfType("proposal")' : p \in OfType("proposal") \/ CountIn(chain, p) = 1
  <2>1. /\ DOMAIN chain = 1 .. Len(chain) /\ DOMAIN chain' = 1 .. (Len(chain) + 1)
        /\ \A i \in DOMAIN chain : chain'[i] = chain[i]
        /\ chain'[Len(chain) + 1] = r
    BY <1>1, <1>3, Appended
  <2>2. CountIn(chain, Len(chain) + 1) = 1 BY <1>1, FreshCount DEF Typed
  <2>3. \A i \in DOMAIN chain' : i \in DOMAIN chain \/ i = Len(chain) + 1 BY <1>1, <2>1
  <2>4. \A i \in DOMAIN chain : i \in DOMAIN chain' BY <1>1, <2>1
  <2>5. \A i \in Escalations : i \in Escalations' /\ chain'[i] = chain[i]
    BY <2>1, <2>4 DEF Escalations, OfType
  <2> QED BY <2>1, <2>2, <2>3, <2>5 DEF OfType, Raised
<1> QED BY <1>2, <1>3, StepAppends

LEMMA NotMissedPrimed ==
    EscalationNotMissed' <=>
        \A p \in OfType("proposal")' : p \notin Raised' =>
            CountIn(chain', p) < EscalateAt + (MaxFaults - budget'.faults)
                + (IF agent'.at = "escalate" /\ agent'.target = p THEN 1 ELSE 0)
<1>1. ASSUME NEW p
      PROVE  (\A i \in OfType("status")' : chain'[i].of = p => chain'[i].to # "escalated")
                 <=> p \notin Raised'
  BY DEF Raised, Escalations
<1>2. ASSUME NEW p PROVE Count(p)' = CountIn(chain', p)
  BY DEF Count, CountIn, OfType
<1> QED BY <1>1, <1>2 DEF EscalationNotMissed

\* Only a recurrence counts; a fault may cost an escalation that was due.
LEMMA NotMissedKept ==
    ASSUME TypeInv, TypeInv', Next, EscalationNotMissed, ~ CommitRecurrence,
           budget'.faults <= budget.faults,
           agent.at = "escalate" =>
               \/ agent'.at = "escalate" /\ agent'.target = agent.target
               \/ agent.target \in Raised'
               \/ budget'.faults < budget.faults
    PROVE  EscalationNotMissed'
<1> SUFFICES ASSUME NEW p \in OfType("proposal")', p \notin Raised'
             PROVE  CountIn(chain', p) < EscalateAt + (MaxFaults - budget'.faults)
                        + (IF agent'.at = "escalate" /\ agent'.target = p THEN 1 ELSE 0)
  BY NotMissedPrimed
<1> DEFINE bonus == IF agent.at = "escalate" /\ agent.target = p THEN 1 ELSE 0
           next  == IF agent'.at = "escalate" /\ agent'.target = p THEN 1 ELSE 0
<1>1. /\ CountIn(chain, p) \in Nat /\ CountIn(chain', p) = CountIn(chain, p)
      /\ p \notin Raised /\ (p \in OfType("proposal") \/ CountIn(chain, p) = 1)
  BY CountsGrow, ChainMoves
<1>2. /\ budget.faults \in 0 .. MaxFaults /\ budget'.faults \in 0 .. MaxFaults
      /\ MaxFaults \in Nat /\ EscalateAt \in Nat /\ EscalateAt > 1
  BY BoundsAssumption DEF TypeInv, Typed, Budgets
<1>3. bonus \in {0, 1} /\ next \in {0, 1} OBVIOUS
<1>4. bonus = 1 => next = 1 \/ budget'.faults < budget.faults OBVIOUS
<1>5. p \in OfType("proposal") =>
          CountIn(chain, p) < EscalateAt + (MaxFaults - budget.faults) + bonus
  BY <1>1, NotMissedIs DEF Line
<1> HIDE DEF bonus, next
<1>6. CountIn(chain', p) < EscalateAt + (MaxFaults - budget'.faults) + next
  BY <1>1, <1>2, <1>3, <1>4, <1>5
<1> QED BY <1>6 DEF next

LEMMA RecurrenceMissesNone ==
    ASSUME TypeInv, Next, EscalatedInv, EscalationNotMissed, CommitRecurrence
    PROVE  EscalationNotMissed'
<1> SUFFICES ASSUME NEW q \in OfType("proposal")', q \notin Raised'
             PROVE  CountIn(chain', q) < EscalateAt + (MaxFaults - budget'.faults)
                        + (IF agent'.at = "escalate" /\ agent'.target = q THEN 1 ELSE 0)
  BY NotMissedPrimed
<1>1. PICK f \in Again :
        /\ chain' = Append(chain, Recurrence(agent.again[f])) /\ agent.at = "recur"
        /\ agent' = [agent EXCEPT !.again = [agent.again EXCEPT ![f] = 0],
               !.at = IF Due(agent.again[f]) THEN "escalate" ELSE "recur",
               !.target = IF Due(agent.again[f]) THEN agent.again[f] ELSE 0]
        /\ UNCHANGED budget
  BY DEF CommitRecurrence
<1> DEFINE p == agent.again[f]
<1>2. Typed /\ agent \in Agents(Len(chain)) /\ f \in Nos /\ Len(chain) \in Nat
  BY LenProperties DEF TypeInv, Typed, Again
<1>3. p \in 1 .. (Len(chain) + 1) BY <1>1, <1>2 DEF Again, Agents
<1>4. Recurrence(p) \in Record(Len(chain) + 1) BY <1>3 DEF Record
<1>5. /\ agent'.at = IF Due(p) THEN "escalate" ELSE "recur"
      /\ agent'.target = IF Due(p) THEN p ELSE 0
  BY <1>1, <1>2 DEF Agents
<1>6. Recurrence(p).type = "recurrence" /\ Recurrence(p).of = p BY DEF Recurrence
<1>7. /\ CountIn(chain, q) \in Nat /\ CountIn(chain', q) \in Nat
      /\ CountIn(chain', q) = IF q = p THEN CountIn(chain, q) + 1 ELSE CountIn(chain, q)
  <2> DEFINE r == Recurrence(p)
  <2>1. chain \in Seq(Record(Len(chain))) BY <1>2 DEF Typed
  <2>2. r \in Record(Len(chain) + 1) /\ chain' = Append(chain, r) BY <1>1, <1>4
  <2>3. r.type = "recurrence" /\ r.of = p BY <1>6
  <2> HIDE DEF r, p
  <2>4. /\ CountIn(chain, q) \in Nat /\ CountIn(chain', q) \in Nat
        /\ CountIn(chain', q) = IF r.type = "recurrence" /\ r.of = q
                                THEN CountIn(chain, q) + 1 ELSE CountIn(chain, q)
    BY <2>1, <2>2, CountAppend, ZenonT(40)
  <2> QED BY <2>3, <2>4
<1>8. Raised = agent.escalated BY <1>1 DEF EscalatedInv, Raised
<1>9. q \notin Raised /\ (q \in OfType("proposal") \/ CountIn(chain, q) = 1)
  BY ChainMoves
<1>10. /\ budget.faults \in 0 .. MaxFaults /\ budget'.faults = budget.faults
       /\ MaxFaults \in Nat /\ EscalateAt \in Nat /\ EscalateAt > 1
  BY <1>1, BoundsAssumption, SMTT(30) DEF TypeInv, Typed, Budgets
<1>11. CountIn(chain, q) < EscalateAt + (MaxFaults - budget.faults)
  BY <1>1, <1>7, <1>9, <1>10, NotMissedIs DEF Line
<1>12. q = p /\ ~ Due(p) => CountIn(chain, p) + 1 < EscalateAt
  BY <1>7, <1>8, <1>9, <1>10, CountIsCountIn DEF Due
<1> HIDE DEF p
<1>13. CASE q = p /\ Due(p)
  <2>1. agent'.at = "escalate" /\ agent'.target = q BY <1>5, <1>13
  <2>2. CountIn(chain', q) < EscalateAt + (MaxFaults - budget'.faults) + 1
    BY <1>7, <1>10, <1>11, <1>13
  <2> QED BY <2>1, <2>2
<1>14. CASE ~(q = p /\ Due(p))
  <2> DEFINE next == IF agent'.at = "escalate" /\ agent'.target = q THEN 1 ELSE 0
  <2>1. next \in {0, 1} OBVIOUS
  <2> HIDE DEF next
  <2>2. CountIn(chain', q) < EscalateAt + (MaxFaults - budget'.faults) + next
    BY <1>7, <1>10, <1>11, <1>12, <1>14, <2>1
  <2> QED BY <2>2 DEF next
<1> QED BY <1>13, <1>14

LEMMA EscalateRaises == ASSUME TypeInv, Escalate PROVE agent.target \in Raised'
<1> DEFINE r == Status(agent.target, "escalated")
           k == Len(chain) + 1
<1>1. Typed /\ Len(chain) \in Nat /\ agent.target \in 1 .. Len(chain)
  BY LenProperties DEF TypeInv, Typed, Known, Escalate
<1>2. agent.target \in 1 .. (Len(chain) + 1) BY <1>1
<1>3. r \in Record(k) BY <1>2 DEF Record
<1>4. chain' = Append(chain, r) BY DEF Escalate
<1>5. r.type = "status" /\ r.to = "escalated" /\ r.of = agent.target BY DEF Status
<1> HIDE DEF r
<1>6. DOMAIN chain' = 1 .. (Len(chain) + 1) /\ chain'[k] = r
  BY <1>1, <1>3, <1>4, Appended
<1>7. k \in DOMAIN chain' BY <1>1, <1>6
<1> HIDE DEF k
<1> QED BY <1>5, <1>6, <1>7 DEF Raised, Escalations, OfType

LEMMA NextMissesNone ==
    ASSUME TypeInv, TypeInv', Next, EscalatedInv, EscalationNotMissed
    PROVE  EscalationNotMissed'
<1>1. CASE CommitRecurrence BY <1>1, RecurrenceMissesNone
<1>2. CASE ~ CommitRecurrence
  <2>1. budget \in Budgets /\ budget.faults \in Nat
    BY BoundsAssumption DEF TypeInv, Typed, Budgets
  <2>2. budget'.faults <= budget.faults
    <3>1. \/ UNCHANGED budget \/ Spend("faults")
          \/ \E what \in {"scans", "full", "decisions"} : Spend(what)
      BY DEF Next, AgentStep, OperatorStep, Evidence, Scan, CommitProposal,
         ReadEscalated, CommitRecurrence, Escalate, Stage, Graduate, OpenRegistry,
         WriteRegistry, SaveFails, Mark, AppendFails, Crash, Restart, Accept, Decline,
         OpenSignals, FillSignals, RecordDecision, CommandDies
    <3> QED BY <2>1, <3>1, SpendTyped
  <2>3. ASSUME agent.at = "escalate"
        PROVE  \/ UNCHANGED agent \/ Escalate \/ Spend("faults")
    BY <2>3 DEF Next, AgentStep, OperatorStep, Evidence, Scan, CommitProposal,
       ReadEscalated, CommitRecurrence, Stage, StageOne, Staging, Graduate, GraduateOne,
       Graduating, OpenRegistry, Settled, WriteRegistry, SaveFails, Mark, AppendFails,
       Crash, Restart, Accept, Decline, OpenSignals, FillSignals, RecordDecision, CommandDies
  <2>4. Spend("faults") => budget'.faults < budget.faults
    BY <2>1, SpendTyped
  <2> QED BY <1>2, <2>2, <2>3, <2>4, EscalateRaises, NotMissedKept
<1> QED BY <1>1, <1>2

\* Whatever is lost between a recurrence and its escalation, the next recurrence
\* makes up for it: a proposal that was never escalated is past the line by no
\* more than the faults there were (agent.py:1597-1640).
THEOREM NoMissedEscalation == Spec => []EscalationNotMissed
<1>1. Init => EscalationNotMissed
  BY DEF Init, EscalationNotMissed, OfType
<1>2. TypeInv /\ TypeInv' /\ EscalatedInv /\ EscalationNotMissed /\ [Next]_vars
          => EscalationNotMissed'
  <2>1. EscalationNotMissed /\ UNCHANGED vars => EscalationNotMissed'
    BY DEF EscalationNotMissed, vars, Count, OfType
  <2> QED BY <2>1, NextMissesNone
<1> QED BY <1>1, <1>2, AlwaysTyped, AlwaysEscalated, PTL DEF Spec

-----------------------------------------------------------------------------
(***************************************************************************)
(* A finding is not proposed twice.                                        *)
(***************************************************************************)
\* The proposal is declined, or out of reach of a scan that proposes at q
Over(p, q) == (\E d \in Declines(p) : d < q) \/ q - p > Lookback

\* From the scan to the commit, whatever the operator decides meanwhile: no
\* earlier proposal stands in the way of a finding the scan took for new.
NewInv ==
    agent.at = "propose" =>
        \A f \in agent.new : \A p \in OfType("proposal") :
            chain[p].finding = f => Over(p, Len(chain) + 1)

\* What an append does to both
LEMMA OverGrows ==
    ASSUME TypeInv, NEW r \in Record(Len(chain) + 1), chain' = Append(chain, r)
    PROVE  \A p \in DOMAIN chain : /\ \A q : Over(p, q) => Over(p, q)'
                                   /\ Over(p, Len(chain) + 1) => Over(p, Len(chain) + 1)'
<1>1. /\ Typed /\ Len(chain) \in Nat /\ DOMAIN chain = 1 .. Len(chain)
      /\ Len(chain') = Len(chain) + 1
      /\ \A i \in OfType("status") : i \in OfType("status")' /\ chain'[i] = chain[i]
  <2>1. Typed /\ Len(chain) \in Nat /\ DOMAIN chain = 1 .. Len(chain)
    BY LenProperties DEF TypeInv, Typed
  <2>2. /\ DOMAIN chain' = 1 .. (Len(chain) + 1) /\ Len(chain') = Len(chain) + 1
        /\ \A i \in DOMAIN chain : chain'[i] = chain[i]
    BY <2>1, Appended
  <2>3. \A i \in DOMAIN chain : i \in DOMAIN chain' BY <2>1, <2>2
  <2> QED BY <2>1, <2>2, <2>3 DEF OfType
<1>2. ASSUME NEW p PROVE Declines(p) \subseteq Declines(p)'
  BY <1>1 DEF Declines
<1>3. ASSUME NEW p, NEW q, Over(p, q) PROVE Over(p, q)'
  BY <1>2, <1>3 DEF Over
<1>4. ASSUME NEW p \in DOMAIN chain, Over(p, Len(chain) + 1) PROVE Over(p, Len(chain) + 1)'
  <2>1. p \in Nat /\ Lookback \in Nat BY <1>1, BoundsAssumption
  <2>2. ASSUME NEW d \in Declines(p), d < Len(chain) + 1
        PROVE  d \in Declines(p)' /\ d < Len(chain') + 1
    <3>1. d \in Nat BY <1>1 DEF Declines, OfType
    <3> QED BY <1>1, <1>2, <2>2, <3>1
  <2>3. (Len(chain) + 1) - p > Lookback => (Len(chain') + 1) - p > Lookback BY <1>1, <2>1
  <2> QED BY <1>4, <2>2, <2>3 DEF Over
<1> QED BY <1>3, <1>4

\* What the scan decides
LEMMA ScanSeesAll == ASSUME TypeInv, NEW full \in BOOLEAN, Scan(full) PROVE NewInv'
<1> DEFINE W     == Window(full)
           old   == [f \in Nos |-> Existing(W, Findings[f].topic)]
           found == {f \in Nos : Crosses(W, f)}
<1>1. /\ Typed /\ Len(chain) \in Nat /\ DOMAIN chain = 1 .. Len(chain)
      /\ watermark \in 0 .. Len(chain)
  BY LenProperties DEF TypeInv, Typed
<1>2. /\ UNCHANGED chain
      /\ agent'.new = {f \in found : old[f] = {}}
  BY DEF Scan, Idle
<1>3. ASSUME NEW f \in Nos, old[f] = {}, NEW p \in OfType("proposal"), chain[p].finding = f
      PROVE  Over(p, Len(chain) + 1)
  <2>1. p \in 1 .. Len(chain) /\ Topic(p) = Findings[f].topic
    BY <1>1, <1>3 DEF OfType, Topic
  <2>2. CASE p \in W
    <3> DEFINE marks == {i \in W : chain[i].type = "status" /\ chain[i].of = p}
    <3>1. StatusIn(W, p) = "declined"
      BY <1>3, <2>1, <2>2 DEF Existing, OfType
    <3>2. marks # {} /\ chain[Max(marks)].to = "declined"
      BY <3>1 DEF StatusIn
    <3>3. marks \in SUBSET (0 .. Len(chain)) BY <1>1 DEF Window
    <3>4. Max(marks) \in marks
      <4> HIDE DEF marks
      <4> QED BY <1>1, <3>2, <3>3, MaxIsMember
    <3>5. Max(marks) \in Declines(p)
      BY <3>2, <3>4 DEF Declines, OfType, Window
    <3>6. Max(marks) < Len(chain) + 1 BY <1>1, <3>4 DEF Window
    <3> QED BY <3>5, <3>6 DEF Over
  <2>3. CASE p \notin W
    <3>1. ~ (p + Lookback > watermark) BY <1>1, <2>1, <2>3 DEF Window
    <3>2. Lookback \in Nat BY BoundsAssumption
    <3>3. (Len(chain) + 1) - p > Lookback BY <1>1, <2>1, <3>1, <3>2
    <3> QED BY <3>3 DEF Over
  <2> QED BY <2>2, <2>3
<1> HIDE DEF old
<1>4. \A f \in agent'.new : \A p \in OfType("proposal") :
          chain[p].finding = f => Over(p, Len(chain) + 1)
  BY <1>2, <1>3
<1> QED BY <1>2, <1>4 DEF NewInv, Over, Declines, OfType

\* Every other step keeps what the scan decided.
LEMMA NewKept ==
    ASSUME TypeInv, Next, NewInv,
           agent'.at = "propose" =>
               agent.at = "propose" /\ agent'.new \subseteq agent.new,
           agent'.at = "propose" =>
               \A p \in OfType("proposal")' \ OfType("proposal") :
                   chain'[p].finding \notin agent'.new
    PROVE  NewInv'
<1> SUFFICES ASSUME agent'.at = "propose", NEW f \in agent'.new,
                    NEW p \in OfType("proposal")', chain'[p].finding = f
             PROVE  Over(p, Len(chain) + 1)'
  BY DEF NewInv
<1>1. Typed /\ Len(chain) \in Nat /\ DOMAIN chain = 1 .. Len(chain)
  BY LenProperties DEF TypeInv, Typed
<1>2. p \in OfType("proposal") /\ f \in agent.new /\ agent.at = "propose" OBVIOUS
<1>3. p \in DOMAIN chain BY <1>2 DEF OfType
<1>4. CASE UNCHANGED chain
  <2>1. Over(p, Len(chain) + 1) BY <1>2, <1>4 DEF NewInv
  <2> QED BY <1>4, <2>1 DEF Over, Declines, OfType
<1>5. ASSUME NEW r \in Record(Len(chain) + 1), chain' = Append(chain, r)
      PROVE  Over(p, Len(chain) + 1)'
  <2>1. chain'[p] = chain[p] BY <1>1, <1>3, <1>5, Appended
  <2>2. Over(p, Len(chain) + 1) BY <1>2, <2>1 DEF NewInv
  <2> QED BY <1>3, <1>5, <2>2, OverGrows
<1> QED BY <1>4, <1>5, StepAppends

LEMMA ProposalsStay ==
    ASSUME TypeInv, Next, ~ CommitProposal
    PROVE  \A p \in OfType("proposal")' : p \in OfType("proposal") /\ chain'[p] = chain[p]
<1>1. Typed /\ Len(chain) \in Nat BY LenProperties DEF TypeInv, Typed
<1>2. CASE UNCHANGED chain BY <1>2 DEF OfType
<1>3. ASSUME NEW r \in Record(Len(chain) + 1), chain' = Append(chain, r), r.type # "proposal"
      PROVE  \A p \in OfType("proposal")' : p \in OfType("proposal") /\ chain'[p] = chain[p]
  <2>1. /\ DOMAIN chain = 1 .. Len(chain) /\ DOMAIN chain' = 1 .. (Len(chain) + 1)
        /\ \A i \in DOMAIN chain : chain'[i] = chain[i]
        /\ chain'[Len(chain) + 1] = r
    BY <1>1, <1>3, Appended
  <2>2. \A i \in DOMAIN chain' : i \in DOMAIN chain \/ i = Len(chain) + 1 BY <1>1, <2>1
  <2> QED BY <1>3, <2>1, <2>2 DEF OfType
<1> QED BY <1>2, <1>3, StepAppends

\* A scan commits a finding's proposal and then no longer has it for new.
LEMMA CommitAdds ==
    ASSUME TypeInv, Next, CommitProposal
    PROVE  \E f \in agent.new :
               /\ chain' = Append(chain, Proposal(f)) /\ agent.at = "propose"
               /\ agent'.new = agent.new \ {f} /\ agent'.at = "propose"
               /\ Proposal(f).finding = f /\ f \in Nos
               /\ \A p \in OfType("proposal") : chain'[p] = chain[p]
               /\ \A p \in OfType("proposal")' :
                      p \in OfType("proposal") \/ (p = Len(chain) + 1 /\ chain'[p].finding = f)
<1>1. Typed /\ Len(chain) \in Nat /\ agent \in Agents(Len(chain))
  BY LenProperties DEF TypeInv, Typed
<1>2. PICK f \in agent.new :
        /\ chain' = Append(chain, Proposal(f)) /\ agent.at = "propose"
        /\ agent' = [agent EXCEPT !.new = agent.new \ {f},
                         !.committed = agent.committed \union {Len(chain) + 1}]
  BY DEF CommitProposal
<1>3. f \in Nos /\ agent'.new = agent.new \ {f} /\ agent'.at = "propose"
  BY <1>1, <1>2 DEF Agents
<1> DEFINE r == Proposal(f)
<1>4. r \in Record(Len(chain) + 1) BY <1>3 DEF Record
<1>5. r.finding = f BY DEF Proposal
<1> HIDE DEF r
<1>6. /\ DOMAIN chain = 1 .. Len(chain) /\ DOMAIN chain' = 1 .. (Len(chain) + 1)
      /\ \A i \in DOMAIN chain : chain'[i] = chain[i]
      /\ chain'[Len(chain) + 1] = r
  BY <1>1, <1>2, <1>4, Appended DEF r
<1>7. \A i \in DOMAIN chain' : i \in DOMAIN chain \/ i = Len(chain) + 1 BY <1>1, <1>6
<1>8. /\ \A p \in OfType("proposal") : chain'[p] = chain[p]
      /\ \A p \in OfType("proposal")' :
             p \in OfType("proposal") \/ (p = Len(chain) + 1 /\ chain'[p].finding = f)
  BY <1>5, <1>6, <1>7 DEF OfType
<1> QED BY <1>2, <1>3, <1>5, <1>8 DEF r

LEMMA NextKeepsNew == ASSUME TypeInv, Next, NewInv PROVE NewInv'
<1>1. CASE CommitProposal
  <2>1. PICK f \in agent.new :
          /\ agent.at = "propose" /\ agent'.new = agent.new \ {f}
          /\ \A p \in OfType("proposal")' :
                 p \in OfType("proposal") \/ chain'[p].finding = f
    BY <1>1, CommitAdds
  <2> QED BY <2>1, NewKept
<1>2. CASE \E full \in BOOLEAN : Scan(full) BY <1>2, ScanSeesAll
<1>3. CASE ~ CommitProposal /\ ~ (\E full \in BOOLEAN : Scan(full))
  <2>1. agent'.at = "propose" => UNCHANGED agent
    <3>1. agent \in Agents(Len(chain)) BY DEF TypeInv, Typed
    <3>2. ASSUME SproutStep PROVE agent'.at # "propose"
      BY <3>1, <3>2 DEF SproutStep, StageOne, GraduateOne, Staging, Graduating, Idle, Agents
    <3>3. ASSUME \/ ReadEscalated \/ CommitRecurrence \/ Escalate \/ OpenRegistry
                 \/ WriteRegistry \/ SaveFails \/ Mark \/ Crash \/ Restart
                 \/ (AppendFails /\ ~ SproutStep)
          PROVE  agent'.at # "propose"
      <4>1. ASSUME \/ ReadEscalated \/ Escalate \/ OpenRegistry \/ WriteRegistry \/ SaveFails
            PROVE  agent'.at # "propose"
        BY <3>1, <4>1 DEF ReadEscalated, Escalate, OpenRegistry, WriteRegistry, SaveFails, Agents
      <4>2. ASSUME CommitRecurrence PROVE agent'.at # "propose"
        BY <3>1, <4>2 DEF CommitRecurrence, Agents
      <4>3. ASSUME Mark \/ Crash \/ Restart PROVE agent'.at # "propose"
        BY <4>3 DEF Mark, Crash, Restart, Idle
      <4>4. ASSUME AppendFails, ~ SproutStep PROVE agent'.at # "propose"
        <5>1. agent' = Idle BY <4>4 DEF AppendFails, SproutStep
        <5> QED BY <5>1 DEF Idle
      <4> QED BY <3>3, <4>1, <4>2, <4>3, <4>4
    <3>4. ASSUME OperatorStep \/ (\E f \in Nos : Evidence(f)) PROVE UNCHANGED agent
      BY <3>4 DEF OperatorStep, Evidence, Accept, Decline, OpenSignals, FillSignals,
         RecordDecision, CommandDies
    <3> QED BY <1>3, <3>2, <3>3, <3>4 DEF Next, AgentStep, Stage, Graduate, SproutStep
  <2> QED BY <1>3, <2>1, ProposalsStay, NewKept
<1> QED BY <1>1, <1>2, <1>3

LEMMA NoDuplicateIs ==
    NoDuplicate <=>
        \A p, q \in OfType("proposal") :
            p < q /\ chain[p].finding = chain[q].finding => Over(p, q)
BY DEF NoDuplicate, Over

LEMMA NextKeepsSingle ==
    ASSUME TypeInv, Next, NewInv, NoDuplicate PROVE NoDuplicate'
<1> SUFFICES ASSUME NEW p \in OfType("proposal")', NEW q \in OfType("proposal")',
                    p < q, chain'[p].finding = chain'[q].finding
             PROVE  Over(p, q)'
  BY DEF NoDuplicate, Over
<1>1. Typed /\ Len(chain) \in Nat /\ DOMAIN chain = 1 .. Len(chain)
  BY LenProperties DEF TypeInv, Typed
<1>2. ASSUME p \in OfType("proposal"), Over(p, q) PROVE Over(p, q)'
  <2>1. p \in DOMAIN chain BY <1>2 DEF OfType
  <2>2. CASE UNCHANGED chain BY <1>2, <2>2 DEF Over, Declines, OfType
  <2>3. ASSUME NEW r \in Record(Len(chain) + 1), chain' = Append(chain, r)
        PROVE  Over(p, q)'
    BY <1>2, <2>1, <2>3, OverGrows
  <2> QED BY <2>2, <2>3, StepAppends
<1>3. CASE ~ CommitProposal
  <2>1. /\ p \in OfType("proposal") /\ q \in OfType("proposal")
        /\ chain[p].finding = chain[q].finding
    BY <1>3, ProposalsStay
  <2> QED BY <1>2, <2>1, NoDuplicateIs
<1>4. CASE CommitProposal
  <2>1. PICK f \in agent.new :
          /\ agent.at = "propose" /\ f \in Nos
          /\ \A i \in OfType("proposal") : chain'[i] = chain[i]
          /\ \A i \in OfType("proposal")' :
                 i \in OfType("proposal") \/ (i = Len(chain) + 1 /\ chain'[i].finding = f)
    BY <1>4, CommitAdds
  <2>2. \A i \in OfType("proposal") : i \in 1 .. Len(chain) BY <1>1 DEF OfType
  <2>3. p \in OfType("proposal")
    BY <1>1, <2>1, <2>2
  <2>4. CASE q \in OfType("proposal") BY <1>2, <2>1, <2>3, <2>4, NoDuplicateIs
  <2>5. CASE q = Len(chain) + 1 /\ chain'[q].finding = f
    <3>1. chain[p].finding = f BY <2>1, <2>3, <2>5
    <3>2. Over(p, q) BY <2>1, <2>3, <2>5, <3>1 DEF NewInv
    <3> QED BY <1>2, <2>3, <3>2
  <2> QED BY <2>1, <2>4, <2>5
<1> QED BY <1>3, <1>4

\* A finding is proposed again only after its proposal was declined or has left
\* the lookback, although the scan decides long before it commits and operators
\* decide meanwhile (cambium.py:318-441, agent.py:1451-1574).
THEOREM ProposesOnce == Spec => []NoDuplicate
<1>1. Init => NewInv /\ NoDuplicate
  BY DEF Init, NewInv, NoDuplicate, OfType, Idle
<1>2. TypeInv /\ NewInv /\ NoDuplicate /\ [Next]_vars => NewInv' /\ NoDuplicate'
  <2>1. NewInv /\ NoDuplicate /\ UNCHANGED vars => NewInv' /\ NoDuplicate'
    BY DEF NewInv, NoDuplicate, Over, Declines, OfType, vars
  <2> QED BY <2>1, NextKeepsNew, NextKeepsSingle
<1> QED BY <1>1, <1>2, AlwaysTyped, PTL DEF Spec
=============================================================================
