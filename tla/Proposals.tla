------------------------------ MODULE Proposals ------------------------------
(***************************************************************************)
(* How the agent grows: cambium.py scans the chain for patterns that       *)
(* repeat, agent.py commits what it found (proposals, recurrences,         *)
(* escalations, sprouted modalities), and an operator decides in another   *)
(* process (apply_proposal.py) while the agent goes on.  The chain is the  *)
(* only thing the two share; a step here is one append, one write of a     *)
(* file, or the reads between two of them.                                 *)
(***************************************************************************)
EXTENDS Naturals, Sequences, FiniteSets, FiniteSetsExt

CONSTANTS
    Findings,     \* what the triggers look for, in their order: a sequence of
                  \* [kind, topic]; two triggers may meet in one topic
    Modes,        \* topics that are modes of output: their proposal has a spec
    OddModes,     \* modes none of whose words can be recovered from a pattern
    Repeat,       \* records that make a pattern (the thresholds of a trigger)
    EscalateAt,   \* RECURRENCE_ESCALATION_THRESHOLD
    GraduateAt,   \* OUTPUT_MODE_GRADUATION_CONFIRMATIONS
    Lookback,     \* max_records of run_cambium
    Torn,         \* a file that was truncated and not yet rewritten
    MaxEvidence,  \* bound: records the triggers count
    MaxScans,     \* bound: incremental scans
    MaxFull,      \* bound: full scans
    MaxDecisions, \* bound: runs of apply_proposal.py
    MaxFaults     \* bound: crashes, failed appends, failed writes

CodeKinds == {"modality", "sense"}
Kinds     == CodeKinds \union {"principle", "skill"}
Decided   == {"accepted", "declined"}

\* A finding is named by its place in the order
Nos == 1 .. Len(Findings)

ASSUME FindingsAssumption ==
    /\ Len(Findings) \in Nat /\ \A f \in Nos : Findings[f].kind \in Kinds
    /\ OddModes \subseteq Modes
ASSUME BoundsAssumption ==
    /\ {Repeat, GraduateAt} \subseteq Nat \ {0}
    /\ EscalateAt \in Nat \ {0, 1}     \* a proposal is its own first sighting
    /\ {Lookback, MaxEvidence, MaxScans, MaxFull, MaxDecisions, MaxFaults} \subseteq Nat

VARIABLES
    chain,      \* the records that matter here
    watermark,  \* chain_meta "cambium.last_scanned_idx"
    registry,   \* the sprout registry in the agent's memory
    disk,       \* sprouted_modalities.json
    signals,    \* the stubs in signals.py, by proposal
    agent,      \* the scan in progress
    cli,        \* the apply_proposal.py in progress
    budget      \* what is left of scans, decisions and faults

vars == <<chain, watermark, registry, disk, signals, agent, cli, budget>>

NoSprouts == [m \in Modes |-> [status |-> "none", origin |-> 0]]
Idle == [at |-> "idle", full |-> FALSE, length |-> 0, new |-> {},
         again |-> [f \in Nos |-> 0], target |-> 0, committed |-> {},
         escalated |-> {}, dirty |-> FALSE]
NoCommand == [at |-> "idle", of |-> 0, text |-> {}]

Init ==
    /\ chain = <<>> /\ watermark = 0
    /\ registry = NoSprouts /\ disk = NoSprouts /\ signals = {}
    /\ agent = Idle /\ cli = NoCommand
    /\ budget = [scans |-> MaxScans, full |-> MaxFull,
                 decisions |-> MaxDecisions, faults |-> MaxFaults]

Spend(what) == /\ budget[what] > 0
               /\ budget' = [budget EXCEPT ![what] = budget[what] - 1]

(***************************************************************************)
(* Reading the chain.                                                      *)
(***************************************************************************)
OfType(t) == {i \in DOMAIN chain : chain[i].type = t}
Topic(p)  == Findings[chain[p].finding].topic
Kind(p)   == Findings[chain[p].finding].kind

\* recurrence_count: the proposal itself and the recurrences that point at it
Count(p) == 1 + Cardinality({i \in OfType("recurrence") : chain[i].of = p})

\* the latest proposal_status among the records W decides
StatusIn(W, p) ==
    LET marks == {i \in W : chain[i].type = "status" /\ chain[i].of = p}
    IN  IF marks = {} THEN "open" ELSE chain[Max(marks)].to

Effective(p) == StatusIn(DOMAIN chain, p)

\* The records a scan reads: the new tail and a lookback before it, or all
Window(full) == {i \in DOMAIN chain : full \/ i + Lookback > watermark}

\* Mutant: a proposal somebody has already looked at counts as closed
ExistingOnlyOpen(W, topic) ==
    {p \in W : /\ chain[p].type = "proposal" /\ Topic(p) = topic
               /\ StatusIn(W, p) = "open"}
\* _existing_proposals_by_topic: the proposals recurrences may attach to
Existing(W, topic) ==
    {p \in W : /\ chain[p].type = "proposal" /\ Topic(p) = topic
               /\ StatusIn(W, p) # "declined"}

\* known_sprout_vocabulary: the modes whose words the registry gives back
Captured == {m \in Modes \ OddModes : registry[m].status # "none"}

\* A trigger's count: enough records on one topic (for a mode, with the spread
\* and the interleaving the diversity gate asks for)
Repeats(W, f) ==
    Cardinality({i \in W : chain[i] = [type |-> "evidence", finding |-> f]}) >= Repeat

\* A mode is not looked for by words the registry already has
Crosses(W, f) == Repeats(W, f) /\ Findings[f].topic \notin Captured

Proposal(f)      == [type |-> "proposal", finding |-> f]
Recurrence(p)    == [type |-> "recurrence", of |-> p]
Status(p, to)    == [type |-> "status", of |-> p, to |-> to]
Sprout(m, p, to) == [type |-> "sprout", mode |-> m, of |-> p, to |-> to]

\* What a chain of n records may hold
Record(n) ==
         {[type |-> "evidence", finding |-> f] : f \in Nos}
  \union {Proposal(f) : f \in Nos}
  \union {Recurrence(p) : p \in 1 .. n}
  \union {Status(p, to) : p \in 1 .. n, to \in Decided \union {"escalated"}}
  \union {Sprout(m, p, to) : m \in Modes, p \in 1 .. n, to \in {"tentative", "active"}}

(***************************************************************************)
(* The agent.                                                              *)
(***************************************************************************)
\* A turn leaves a record some trigger counts (a revision, a failure, ...)
Evidence(f) ==
    /\ agent.at = "idle" /\ Cardinality(OfType("evidence")) < MaxEvidence
    /\ chain' = Append(chain, [type |-> "evidence", finding |-> f])
    /\ UNCHANGED <<watermark, registry, disk, signals, agent, cli, budget>>

\* run_cambium and run_cambium_full: read the window, decide per finding
\* between a proposal and a recurrence of the earliest one
Scan(full) ==
    LET W     == Window(full)
        old   == [f \in Nos |-> Existing(W, Findings[f].topic)]
        found == {f \in Nos : Crosses(W, f)}
    IN  /\ agent.at = "idle" /\ Spend(IF full THEN "full" ELSE "scans")
        /\ agent' = [Idle EXCEPT
                !.at = "propose", !.full = full, !.length = Len(chain),
                !.new = {f \in found : old[f] = {}},
                !.again = [f \in Nos |-> IF f \in found /\ old[f] # {}
                                         THEN Min(old[f]) ELSE 0]]
        /\ UNCHANGED <<chain, watermark, registry, disk, signals, cli>>

First(S, x) == x \in S /\ \A y \in S : x <= y
Again == {f \in Nos : agent.again[f] # 0}

CommitProposal ==
    \E f \in agent.new :
        /\ agent.at = "propose" /\ First(agent.new, f)
        /\ chain' = Append(chain, Proposal(f))
        /\ agent' = [agent EXCEPT !.new = agent.new \ {f},
                         !.committed = agent.committed \union {Len(chain) + 1}]
        /\ UNCHANGED <<watermark, registry, disk, signals, cli, budget>>

\* Mutant: what this scan escalates is remembered, what the chain says is not
ReadNothing ==
    /\ agent.at = "propose" /\ agent.new = {}
    /\ agent' = [agent EXCEPT !.at = "recur"]
    /\ UNCHANGED <<chain, watermark, registry, disk, signals, cli, budget>>
\* already_escalated, read once before the recurrences are committed
ReadEscalated ==
    /\ agent.at = "propose" /\ agent.new = {}
    /\ agent' = [agent EXCEPT !.at = "recur", !.escalated =
            {chain[i].of : i \in {j \in OfType("status") : chain[j].to = "escalated"}}]
    /\ UNCHANGED <<chain, watermark, registry, disk, signals, cli, budget>>

\* Mutant: the exact-equality check the comment in agent.py warns of
DueExactly(p) == p \notin agent.escalated /\ Count(p) + 1 = EscalateAt
\* With the recurrence being committed, p is past the line and not on record
Due(p) == p \notin agent.escalated /\ Count(p) + 1 >= EscalateAt

CommitRecurrence ==
    \E f \in Again :
        LET p == agent.again[f]
        IN  /\ agent.at = "recur" /\ First(Again, f)
            /\ chain' = Append(chain, Recurrence(p))
            /\ agent' = [agent EXCEPT !.again = [agent.again EXCEPT ![f] = 0],
                   !.at = IF Due(p) THEN "escalate" ELSE "recur",
                   !.target = IF Due(p) THEN p ELSE 0]
            /\ UNCHANGED <<watermark, registry, disk, signals, cli, budget>>

Escalate ==
    /\ agent.at = "escalate"
    /\ chain' = Append(chain, Status(agent.target, "escalated"))
    /\ agent' = [agent EXCEPT !.at = "recur", !.target = 0,
                     !.escalated = agent.escalated \union {agent.target}]
    /\ UNCHANGED <<watermark, registry, disk, signals, cli, budget>>

\* _stage_and_graduate_sprouts: first what is new, then what is confirmed
Unstaged == {p \in agent.committed : /\ Topic(p) \in Modes
                                     /\ registry[Topic(p)].status = "none"}
Confirmed == {m \in Modes : /\ registry[m].status = "tentative"
                            /\ Count(registry[m].origin) >= GraduateAt}

Staging    == agent.at = "recur" /\ Again = {} /\ Unstaged # {}
Graduating == agent.at = "recur" /\ Again = {} /\ Unstaged = {} /\ Confirmed # {}
Settled    == agent.at = "recur" /\ Again = {} /\ Unstaged = {} /\ Confirmed = {}

\* The registry is changed before the record is appended: done tells whether
\* the append went through.
StageOne(done) ==
    \E p \in Unstaged :
        /\ Staging /\ First(Unstaged, p)
        /\ registry' = [registry EXCEPT ![Topic(p)] = [status |-> "tentative", origin |-> p]]
        /\ IF done THEN /\ chain' = Append(chain, Sprout(Topic(p), p, "tentative"))
                        /\ agent' = [agent EXCEPT !.dirty = TRUE]
                   ELSE /\ agent' = Idle
                        /\ UNCHANGED chain

GraduateOne(done) ==
    \E m \in Confirmed :
        /\ Graduating
        /\ registry' = [registry EXCEPT ![m] = [status |-> "active",
                                                origin |-> registry[m].origin]]
        /\ IF done THEN /\ chain' = Append(chain, Sprout(m, registry[m].origin, "active"))
                        /\ agent' = [agent EXCEPT !.dirty = TRUE]
                   ELSE /\ agent' = Idle
                        /\ UNCHANGED chain

Stage    == StageOne(TRUE) /\ UNCHANGED <<watermark, disk, signals, cli, budget>>
Graduate == GraduateOne(TRUE) /\ UNCHANGED <<watermark, disk, signals, cli, budget>>

\* registry.save: write_text truncates the file, then fills it
OpenRegistry ==
    /\ Settled /\ agent.dirty
    /\ disk' = Torn /\ agent' = [agent EXCEPT !.at = "save"]
    /\ UNCHANGED <<chain, watermark, registry, signals, cli, budget>>

WriteRegistry ==
    /\ agent.at = "save"
    /\ disk' = registry /\ agent' = [agent EXCEPT !.at = "mark"]
    /\ UNCHANGED <<chain, watermark, registry, signals, cli, budget>>

\* A save that fails is logged, whichever half failed, and the scan goes on
SaveFails ==
    /\ (Settled /\ agent.dirty) \/ agent.at = "save"
    /\ Spend("faults")
    /\ agent' = [agent EXCEPT !.at = "mark"]
    /\ UNCHANGED <<chain, watermark, registry, disk, signals, cli>>

\* The watermark moves to the length the scan started from; a full scan leaves it
Mark ==
    /\ (Settled /\ ~agent.dirty) \/ agent.at = "mark"
    /\ watermark' = IF agent.full THEN watermark ELSE agent.length
    /\ agent' = Idle
    /\ UNCHANGED <<chain, registry, disk, signals, cli, budget>>

\* An append raises (lock flag, busy database): the rest of the scan is lost
AppendFails ==
    /\ Spend("faults")
    /\ \/ /\ \/ agent.at = "propose" /\ agent.new # {}
             \/ agent.at = "recur" /\ Again # {}
             \/ agent.at = "escalate"
          /\ agent' = Idle
          /\ UNCHANGED <<chain, registry>>
       \/ StageOne(FALSE)
       \/ GraduateOne(FALSE)
    /\ UNCHANGED <<watermark, disk, signals, cli>>

\* The agent's process ends, in a scan or between two
Crash ==
    /\ agent.at # "down" /\ Spend("faults")
    /\ agent' = [Idle EXCEPT !.at = "down"]
    /\ UNCHANGED <<chain, watermark, registry, disk, signals, cli>>

\* SproutRegistry.load: what cannot be read is an empty registry
Load(file) == IF file = Torn THEN NoSprouts ELSE file

\* It starts again; a torn signals.py cannot be imported
Restart ==
    /\ agent.at = "down" /\ signals # Torn
    /\ agent' = Idle /\ registry' = Load(disk)
    /\ UNCHANGED <<chain, watermark, disk, signals, cli, budget>>

(***************************************************************************)
(* The operator's command.                                                 *)
(***************************************************************************)
Undecided(p) == p \in OfType("proposal") /\ Effective(p) \notin Decided

\* Mutant: no look for the stub's name in signals.py
ScaffoldAnyway(p) == signals # Torn
\* signals.py has its sentinels and does not define the stub yet
Scaffoldable(p) == signals # Torn /\ p \notin signals

\* cmd_accept up to its first write: the status is checked, signals.py read
Accept(p) ==
    /\ cli.at = "idle" /\ Undecided(p) /\ Spend("decisions")
    /\ \/ /\ Kind(p) \in CodeKinds /\ Scaffoldable(p)
          /\ cli' = [at |-> "open", of |-> p, text |-> signals \union {p}]
       \/ /\ Kind(p) \notin CodeKinds
          /\ cli' = [at |-> "accepted", of |-> p, text |-> {}]
    /\ UNCHANGED <<chain, watermark, registry, disk, signals, agent>>

\* _scaffold_detector's write_text, in its two halves
OpenSignals ==
    /\ cli.at = "open"
    /\ signals' = Torn /\ cli' = [cli EXCEPT !.at = "fill"]
    /\ UNCHANGED <<chain, watermark, registry, disk, agent, budget>>

FillSignals ==
    /\ cli.at = "fill"
    /\ signals' = cli.text /\ cli' = [cli EXCEPT !.at = "accepted", !.text = {}]
    /\ UNCHANGED <<chain, watermark, registry, disk, agent, budget>>

\* cmd_decline up to its write
Decline(p) ==
    /\ cli.at = "idle" /\ Undecided(p) /\ Spend("decisions")
    /\ cli' = [at |-> "declined", of |-> p, text |-> {}]
    /\ UNCHANGED <<chain, watermark, registry, disk, signals, agent>>

\* _commit_status
RecordDecision ==
    /\ cli.at \in Decided
    /\ chain' = Append(chain, Status(cli.of, cli.at))
    /\ cli' = NoCommand
    /\ UNCHANGED <<watermark, registry, disk, signals, agent, budget>>

\* The command is interrupted, or its append or write raises
CommandDies ==
    /\ cli.at # "idle" /\ Spend("faults")
    /\ cli' = NoCommand
    /\ UNCHANGED <<chain, watermark, registry, disk, signals, agent>>

(***************************************************************************)
(* The specification.                                                      *)
(***************************************************************************)
AgentStep ==
    \/ \E f \in Nos : Evidence(f)
    \/ \E full \in BOOLEAN : Scan(full)
    \/ CommitProposal \/ ReadEscalated \/ CommitRecurrence \/ Escalate
    \/ Stage \/ Graduate \/ OpenRegistry \/ WriteRegistry \/ SaveFails \/ Mark
    \/ AppendFails \/ Crash \/ Restart

OperatorStep ==
    \/ \E p \in DOMAIN chain : Accept(p) \/ Decline(p)
    \/ OpenSignals \/ FillSignals \/ RecordDecision \/ CommandDies

Next == AgentStep \/ OperatorStep
Spec == Init /\ [][Next]_vars

(***************************************************************************)
(* Properties.                                                             *)
(***************************************************************************)
Entry == [status : {"none", "tentative", "active"}, origin : Nat]

\* Every variable has its type; in particular a recurrence, a decision and a
\* sprout point at records the chain has (agent.py:1551-1776).
TypeOK ==
    /\ chain \in Seq(Record(Len(chain)))
    /\ watermark \in 0 .. Len(chain)
    /\ registry \in [Modes -> Entry]
    /\ disk \in [Modes -> Entry] \union {Torn}
    /\ signals \in {Torn} \union SUBSET (DOMAIN chain)
    /\ agent \in [at : {"idle", "propose", "recur", "escalate", "save", "mark", "down"},
                  full : BOOLEAN, length : 0 .. Len(chain),
                  new : SUBSET Nos, again : [Nos -> {0} \union DOMAIN chain],
                  target : {0} \union DOMAIN chain,
                  committed : SUBSET (DOMAIN chain), escalated : SUBSET (DOMAIN chain),
                  dirty : BOOLEAN]
    /\ cli \in [at : {"idle", "open", "fill"} \union Decided,
                of : {0} \union DOMAIN chain, text : SUBSET (DOMAIN chain)]
    /\ budget \in [scans : 0 .. MaxScans, full : 0 .. MaxFull,
                   decisions : 0 .. MaxDecisions, faults : 0 .. MaxFaults]

Declines(p) == {i \in OfType("status") : chain[i].of = p /\ chain[i].to = "declined"}

\* "They never create duplicate proposals" (agent.py:1451): a finding is
\* proposed again only if its earlier proposal was declined in between or lies
\* beyond the lookback, whatever was escalated, accepted, interrupted or
\* scanned in full meanwhile.
NoDuplicate ==
    \A p, q \in OfType("proposal") :
        p < q /\ chain[p].finding = chain[q].finding =>
            (\E d \in Declines(p) : d < q) \/ q - p > Lookback

\* "Escalation is idempotent" (agent.py:1580): a proposal is escalated once,
\* across restarts and however many recurrences one scan commits for it.
EscalatedOnce ==
    \A p \in OfType("proposal") :
        Cardinality({i \in OfType("status") : /\ chain[i].of = p
                                              /\ chain[i].to = "escalated"}) <= 1

\* "Threshold reached AND not yet escalated survives that" (agent.py:1587): a
\* recurrence that crosses the line without an escalation costs a fault each
\* time, and the next one makes up for it.
EscalationNotMissed ==
    \A p \in OfType("proposal") :
        (\A i \in OfType("status") : chain[i].of = p => chain[i].to # "escalated") =>
            Count(p) < EscalateAt + (MaxFaults - budget.faults)
                       + (IF agent.at = "escalate" /\ agent.target = p THEN 1 ELSE 0)

Accepts(p) == {i \in OfType("status") : chain[i].of = p /\ chain[i].to = "accepted"}

\* The record of an accepted modality or sense names a stub that is in
\* signals.py (apply_proposal.py:366-401), wherever the command died.
AcceptedHasStub ==
    \A p \in OfType("proposal") :
        Kind(p) \in CodeKinds /\ Accepts(p) # {} /\ signals # Torn => p \in signals

\* A detector is scaffolded and accepted at most once, although an escalation
\* opens the decision again and a command may be run again after it died.
AcceptedOnce ==
    \A p \in OfType("proposal") : Kind(p) \in CodeKinds => Cardinality(Accepts(p)) <= 1

\* A sprout has full weight, in memory, on disk and on the chain, only after
\* GraduateAt sightings of its originating proposal (agent.py:1738-1762).
GraduatedIsConfirmed ==
    /\ \A m \in Modes : registry[m].status = "active" => Count(registry[m].origin) >= GraduateAt
    /\ disk # Torn => \A m \in Modes :
           disk[m].status = "active" => Count(disk[m].origin) >= GraduateAt
    /\ \A i \in OfType("sprout") : chain[i].to = "active" => Count(chain[i].of) >= GraduateAt

\* "open | accepted | declined - set by a reviewer" (cambium.py:175):
\* once an operator has decided, the proposal's status is the decision.
DecisionIsFinal ==
    [][\A p \in OfType("proposal") :
           Effective(p) \in Decided => Effective(p)' = Effective(p)]_vars
=============================================================================
