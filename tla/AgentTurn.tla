----------------------------- MODULE AgentTurn -----------------------------
(***************************************************************************)
(* One agent's life on its identity chain (agent.py, tools.py and the turn *)
(* of webapp.py): boot, turns with tools, uploads that wait for the next   *)
(* turn, reflections and revisions, while another process may append to    *)
(* the same chain.                                                         *)
(*                                                                         *)
(* The record at position p of `chain` has index p - 1.  Record hashes are *)
(* positions: refs are sets of positions.                                  *)
(***************************************************************************)
EXTENDS Context, Quality

CONSTANTS Uploads,        \* the pointers of the files a user or a tool may upload
          Prompts,        \* the system prompts an operator configures
          Fronts,         \* the front ends: "repl" runs turn_with_tools, "web" _turn_events
          Scored,         \* what Proof-of-Quality may make of an answer
          EnforceVerdict, \* Agent(enforce_verdict=...), which only the REPL's path looks at
          SemanticK, RecentN, ContextBudget, MaxRounds, MaxReflect,
          MaxRecords,     \* bound on the chain
          MaxFaults,      \* bound on crashes, failed writes, failed appends and model failures
          MaxOther,       \* bound on the records of other processes
          MinSubstantive, \* what a reflection needs
          InitialChains,  \* the chains the program may find at its first boot
          MaxNamed,       \* bound on the records a question names
          MaxPulls        \* bound on what a turn has pulled or sealed when it calls a tool for more

\* A chain as the program leaves it: revisions point back at records that may be
\* revised and are never quarantined, each reflection begins where the one before it
\* ended unless the cap keeps it from reaching that far.
AsLeft(ch) ==
  LET R     == {p \in DOMAIN ch : ch[p].type = "reflection"}
      lo(r) == ch[r].covers[1]
      hi(r) == ch[r].covers[2]
  IN /\ ch \in Seq(ToSet(ch))
     /\ VerifySemantic(ch)
     /\ \A p \in DOMAIN ch : ch[p].type = "genesis" => p = 1
     /\ \A p \in DOMAIN ch : ch[p].type = "revision" =>
           ~IsQuarantined(ch[p]) /\ ch[ch[p].supersedes].type \notin ProtectedTypes
     /\ \A r \in R : /\ hi(r) < r
                     /\ lo(r) = 1 \/ lo(r) - 1 \in R \/ hi(r) - lo(r) + 1 = MaxReflect
                     /\ \A t \in R : t < r => t < lo(r)

ASSUME AgentTurnAssumption ==
  /\ Fronts \subseteq {"repl", "web"}
  /\ Scored \subseteq [action : {"commit", "light_log", "quarantine"}, verdict : Verdicts]
  /\ EnforceVerdict \in BOOLEAN
  /\ {SemanticK, RecentN, ContextBudget, MaxReflect, MaxRecords, MaxFaults, MaxOther, MaxNamed, MaxPulls} \subseteq Nat
  /\ {MaxRounds, MinSubstantive} \subseteq Nat \ {0}
  /\ \A ch \in InitialChains :
        /\ AsLeft(ch)
        /\ \A p, q \in DOMAIN ch : p # q => ch[p].attachments \cap ch[q].attachments \cap Uploads = {}

VARIABLES chain,    \* the identity chain
          front,    \* the front end of the running process
          prompt,   \* Agent.system_prompt
          turn,     \* the operation in progress, [pc |-> "idle"] if there is none
          recalled, \* AgentContext.recalled_refs
          staged,   \* AgentContext.staged_attachments
          disk,     \* staged_attachments.json
          \* observed by the properties only
          informed, \* what the model has read or sealed in this turn
          unsaved,  \* a write of staged_attachments.json has failed
          faults, others

vars == <<chain, front, prompt, turn, recalled, staged, disk, informed, unsaved, faults, others>>

(***************************************************************************)
(* Records.                                                                *)
(***************************************************************************)

\* What every record of a type begins as; text, covers and supersedes are the content
\* the other operations look at.
Blank(type) ==
  [type |-> type, whole |-> FALSE, refs |-> {}, size |-> 1, attachments |-> {},
   text |-> "", covers |-> <<>>, supersedes |-> 0, meta |-> BuildMeta(type, "none", Unset)]

GenesisRecord == [Blank("genesis") EXCEPT !.meta = BuildMeta("genesis", "none", 100)]

PromptRecord(text) == [Blank("system_prompt") EXCEPT !.text = text]

\* One record per turn: the input and the answer in one.  The answer's metadata comes
\* from the scoring.
ResponseRecord(refs, attachments, meta) ==
  [Blank("response") EXCEPT !.whole = TRUE, !.refs = refs, !.attachments = attachments, !.meta = meta]

RefusedRecord == ResponseRecord({}, {}, BuildMeta("response", Quarantine, Unset))

ReflectionRecord(lo, hi) == [Blank("reflection") EXCEPT !.refs = lo .. hi, !.covers = <<lo, hi>>]

RevisionRecord(p) == [Blank("revision") EXCEPT !.refs = {p}, !.supersedes = p]

SynthesisRecord == Blank("synthesis")

OfType(type) == {p \in DOMAIN chain : chain[p].type = type}

\* The record the last of a type, 0 if there is none.
LastOf(type) == Max(OfType(type) \cup {0})

(***************************************************************************)
(* Boot (commit_genesis, log_system_prompt).                               *)
(***************************************************************************)
NoTurn == [pc |-> "idle"]

\* MUTANT of Booted: any earlier record of the same prompt will do.
BootedAnyPrior(ch, text) ==
  LET founded == IF ch = <<>> THEN <<GenesisRecord>> ELSE ch
  IN IF \E p \in DOMAIN founded : founded[p].type = "system_prompt" /\ founded[p].text = text
     THEN founded
     ELSE Append(founded, PromptRecord(text))

\* The chain after a boot with a system prompt: founded if it was empty, and with the
\* prompt on record unless the last one on record says the same.
Booted(ch, text) ==
  LET founded == IF ch = <<>> THEN <<GenesisRecord>> ELSE ch
      prior   == {p \in DOMAIN founded : founded[p].type = "system_prompt"}
  IN IF prior # {} /\ founded[Max(prior)].text = text
     THEN founded
     ELSE Append(founded, PromptRecord(text))

\* Room is kept for the record of the turn that runs.
Room(n) == Len(chain) + n + (IF turn.pc = "idle" THEN 0 ELSE 1) =< MaxRecords

Fault == faults < MaxFaults /\ faults' = faults + 1

(***************************************************************************)
(* Staged attachments (tools.py).                                          *)
(***************************************************************************)

\* Memory is what the next turn drains; the file is for a restart.  A write that
\* fails is only logged.
SaveStaging(now) ==
  /\ staged' = now
  /\ \/ disk' = now /\ UNCHANGED <<unsaved, faults>>
     \/ Fault /\ unsaved' = TRUE /\ UNCHANGED disk

\* MUTANT of DrainStaged: the file is not rewritten.
DrainStagedMemoryOnly == staged' = {} /\ UNCHANGED <<disk, unsaved, faults>>

\* Draining nothing writes nothing.
DrainStaged ==
  IF staged = {} THEN UNCHANGED <<staged, disk, unsaved, faults>> ELSE SaveStaging({})

Fresh(a) == /\ a \notin staged \cup disk
            /\ turn.pc # "idle" => a \notin turn.taken
            /\ \A p \in DOMAIN chain : a \notin chain[p].attachments

Stage(a) == Fresh(a) /\ SaveStaging(staged \cup {a})

\* An upload by the user, between two turns.
Upload(a) ==
  /\ turn.pc = "idle"
  /\ Stage(a)
  /\ UNCHANGED <<chain, front, prompt, turn, recalled, informed, others>>

(***************************************************************************)
(* A turn.                                                                 *)
(***************************************************************************)

\* The REPL's path forgets earlier pulls before the screen, the web's after prepare.
ResetRecalledFirst == recalled' = (IF front = "repl" THEN {} ELSE recalled)

\* MUTANT of Refuse: the refused turn drains what the next one should take.
RefuseDrains ==
  /\ turn.pc = "idle"
  /\ Room(1)
  /\ chain' = Append(chain, RefusedRecord)
  /\ ResetRecalledFirst
  /\ DrainStaged
  /\ UNCHANGED <<front, prompt, turn, informed, others>>

\* The screen refuses the input: one quarantined record, nothing is drained.
Refuse ==
  /\ turn.pc = "idle"
  /\ Room(1)
  /\ chain' = Append(chain, RefusedRecord)
  /\ ResetRecalledFirst
  /\ UNCHANGED <<front, prompt, turn, staged, disk, informed, unsaved, faults, others>>

\* MUTANT of Prepare: what an earlier turn pulled is not forgotten.
PrepareKeepsRecalled(hits, indices) ==
  /\ turn.pc = "idle"
  /\ Room(1)
  /\ LET context == BuildContext(chain, hits, RecentN, indices)
     IN /\ turn' = [pc |-> "asking", context |-> context.retrieved, read |-> Len(chain),
                    taken |-> staged, rounds |-> 0, retried |-> FALSE, extra |-> {}]
        /\ informed' = context.retrieved
  /\ UNCHANGED recalled
  /\ DrainStaged
  /\ UNCHANGED <<chain, front, prompt, others>>

\* prepare_turn and consume_staged_attachments: the context is read, cut to the
\* prompt, and what was uploaded since the last turn is taken along.
Prepare(hits, indices) ==
  /\ turn.pc = "idle"
  /\ Room(1)
  /\ LET context == BuildContext(chain, hits, RecentN, indices)
         shown   == TruncateToBudget(chain, context.retrieved, context.pinned, ContextBudget)
     IN /\ turn' = [pc |-> "asking", context |-> context.retrieved, read |-> Len(chain),
                    taken |-> staged, rounds |-> 0, retried |-> FALSE, extra |-> {}]
        /\ informed' = shown
  /\ recalled' = {}
  /\ DrainStaged
  /\ UNCHANGED <<chain, front, prompt, others>>

(***************************************************************************)
(* The model answers with tool calls, with something that looks like a     *)
(* broken tool call, or with an answer.                                    *)
(***************************************************************************)

\* MUTANT of AnswerCalls: rounds are not counted.
AnswerCallsUncounted ==
  /\ turn.pc = "asking"
  /\ turn.rounds < MaxRounds
  /\ turn' = [turn EXCEPT !.pc = "tools"]
  /\ UNCHANGED <<chain, front, prompt, recalled, staged, disk, informed, unsaved, faults, others>>

\* Another round, while the budget allows one.
AnswerCalls ==
  /\ turn.pc = "asking"
  /\ turn.rounds < MaxRounds
  /\ turn' = [turn EXCEPT !.pc = "tools", !.rounds = @ + 1]
  /\ UNCHANGED <<chain, front, prompt, recalled, staged, disk, informed, unsaved, faults, others>>

\* One reflective retry per turn, which costs no round.
AnswerBroken ==
  /\ turn.pc = "asking"
  /\ turn.rounds < MaxRounds /\ ~turn.retried
  /\ turn' = [turn EXCEPT !.retried = TRUE]
  /\ UNCHANGED <<chain, front, prompt, recalled, staged, disk, informed, unsaved, faults, others>>

\* An answer; after the last round whatever comes is the answer.
AnswerText ==
  /\ turn.pc = "asking"
  /\ turn' = [turn EXCEPT !.pc = "answered"]
  /\ UNCHANGED <<chain, front, prompt, recalled, staged, disk, informed, unsaved, faults, others>>

\* The model raises: the REPL's turn is over, with what it took; the web's is sealed
\* with a note.
ModelRaises ==
  /\ turn.pc = "asking"
  /\ Fault
  /\ IF front = "repl"
     THEN turn' = NoTurn /\ informed' = {}
     ELSE turn' = [turn EXCEPT !.pc = "answered"] /\ UNCHANGED informed
  /\ UNCHANGED <<chain, front, prompt, recalled, staged, disk, unsaved, others>>

(***************************************************************************)
(* The calls of a round, one after the other (tools.py).  Calls that touch *)
(* neither the chain nor the staged files are left out.                    *)
(***************************************************************************)

\* recall_fetch of one record: quarantined ones are refused, a superseded one comes
\* with the last of its revisions.
Fetched(p) ==
  IF IsQuarantined(chain[p]) THEN {}
  ELSE {p} \cup (IF p \in Superseded(chain) THEN {Max(RevisionsTargeting(chain, {p}))} ELSE {})

RecallFetch(p) ==
  /\ turn.pc = "tools"
  /\ Cardinality(recalled) < MaxPulls
  /\ recalled' = recalled \cup Fetched(p)
  /\ informed' = informed \cup Fetched(p)
  /\ UNCHANGED <<chain, front, prompt, turn, staged, disk, unsaved, faults, others>>

\* think_collapse seals its synthesis at once; the answer will refer to it.
ThinkCollapse ==
  /\ turn.pc = "tools"
  /\ Cardinality(recalled) < MaxPulls /\ Room(1)
  /\ chain' = Append(chain, SynthesisRecord)
  /\ recalled' = recalled \cup {Len(chain) + 1}
  /\ informed' = informed \cup {Len(chain) + 1}
  /\ UNCHANGED <<front, prompt, turn, staged, disk, unsaved, faults, others>>

\* ingest_blob called by the model stages its pointer for this same turn.
IngestBlob(a) ==
  /\ turn.pc = "tools"
  /\ Stage(a)
  /\ UNCHANGED <<chain, front, prompt, turn, recalled, informed, others>>

CallsDone ==
  /\ turn.pc = "tools"
  /\ turn' = [turn EXCEPT !.pc = "asking"]
  /\ UNCHANGED <<chain, front, prompt, recalled, staged, disk, informed, unsaved, faults, others>>

(***************************************************************************)
(* The end of a turn: what was staged or recalled meanwhile is drained,    *)
(* the answer is scored, and one record is sealed.                         *)
(***************************************************************************)
LateDrain ==
  /\ turn.pc = "answered"
  /\ turn' = [turn EXCEPT !.pc = "committing", !.taken = @ \cup staged, !.extra = recalled]
  /\ recalled' = {}
  /\ DrainStaged
  /\ UNCHANGED <<chain, front, prompt, informed, others>>

\* Proof-of-Quality's action decides what the record may be used for, its verdict
\* whether an enforcing agent says the answer at all.
ExposureForCommit(action) == IF action = "quarantine" THEN Quarantine ELSE "none"

SalienceForCommit(action) == IF action = "light_log" THEN DefaultSalience("response") \div 2 ELSE Unset

ScoredMeta(action) == BuildMeta("response", ExposureForCommit(action), SalienceForCommit(action))

\* A rejected answer is replaced by a refusal, and its metadata by a plain one; an
\* overconfident one is rewritten and scored again, and then said whatever the score.
Enforced(score, again) ==
  IF ~EnforceVerdict \/ front = "web" \/ score.verdict \in {"seal", "revise"}
  THEN ScoredMeta(score.action)
  ELSE IF score.verdict = "reject" THEN BuildMeta("response", "none", Unset)
  ELSE ScoredMeta(again.action)

Commit(meta) ==
  /\ turn.pc = "committing"
  /\ chain' = Append(chain, ResponseRecord(turn.context \cup turn.extra, turn.taken, meta))
  /\ turn' = NoTurn
  /\ informed' = {}
  /\ UNCHANGED <<front, prompt, recalled, staged, disk, unsaved, faults, others>>

\* The append raises, and with it the turn.
CommitFails ==
  /\ turn.pc = "committing"
  /\ Fault
  /\ turn' = NoTurn
  /\ informed' = {}
  /\ UNCHANGED <<chain, front, prompt, recalled, staged, disk, unsaved, others>>

(***************************************************************************)
(* Reflection and revision.                                                *)
(***************************************************************************)
Substantive == {"observation", "response", "reflection", "revision"}

\* MUTANT of ReflectionStart: the record after the last reflection is left out.
ReflectionStartLate == LET last == LastOf("reflection") IN IF last = 0 THEN 1 ELSE last + 2

\* From the record after the last reflection to the head, or the last MaxReflect of these.
ReflectionStart == LastOf("reflection") + 1
EffectiveStart == Max({ReflectionStart, Len(chain) - MaxReflect + 1})

\* Counted in the window only, so that an empty window is never reflected on.
EnoughToReflect ==
  Cardinality({p \in EffectiveStart .. Len(chain) : chain[p].type \in Substantive}) >= MinSubstantive

StartReflection ==
  /\ turn.pc = "idle"
  /\ Room(1)
  /\ EnoughToReflect
  /\ turn' = [pc |-> "reflecting", lo |-> EffectiveStart, hi |-> Len(chain), taken |-> {}]
  /\ informed' = EffectiveStart .. Len(chain)
  /\ UNCHANGED <<chain, front, prompt, recalled, staged, disk, unsaved, faults, others>>

SealReflection ==
  /\ turn.pc = "reflecting"
  /\ chain' = Append(chain, ReflectionRecord(turn.lo, turn.hi))
  /\ turn' = NoTurn
  /\ informed' = {}
  /\ UNCHANGED <<front, prompt, recalled, staged, disk, unsaved, faults, others>>

\* The model or the append raises: nothing is sealed.
ReflectionFails ==
  /\ turn.pc = "reflecting"
  /\ Fault
  /\ turn' = NoTurn
  /\ informed' = {}
  /\ UNCHANGED <<chain, front, prompt, recalled, staged, disk, unsaved, others>>

Revise(p) ==
  /\ turn.pc = "idle"
  /\ Room(1)
  /\ CanRevise(chain[p])
  /\ chain' = Append(chain, RevisionRecord(p))
  /\ UNCHANGED <<front, prompt, turn, recalled, staged, disk, informed, unsaved, faults, others>>

(***************************************************************************)
(* Other processes, crashes.                                               *)
(***************************************************************************)

\* A second process on the same chain seals an answer or a correction of its own.
OtherAppends(rec) ==
  /\ others < MaxOther
  /\ Room(1)
  /\ others' = others + 1
  /\ chain' = Append(chain, rec)
  /\ UNCHANGED <<front, prompt, turn, recalled, staged, disk, informed, unsaved, faults>>

OtherRecords == {ResponseRecord({}, {}, ScoredMeta("commit"))}
                  \cup {RevisionRecord(p) : p \in {q \in DOMAIN chain : CanRevise(chain[q])}}

\* The process dies and is started again, with either front end and any prompt: what
\* was not in the file is gone, what the file still had is back.
Restart(f, text) ==
  /\ Fault
  /\ Len(Booted(chain, text)) =< MaxRecords
  /\ chain' = Booted(chain, text)
  /\ front' = f
  /\ prompt' = text
  /\ turn' = NoTurn
  /\ recalled' = {}
  /\ staged' = disk
  /\ informed' = {}
  /\ UNCHANGED <<disk, unsaved, others>>

(***************************************************************************)
(* Specification.                                                          *)
(***************************************************************************)
Init ==
  /\ prompt \in Prompts
  /\ front \in Fronts
  /\ \E ch \in InitialChains : chain = Booted(ch, prompt)
  /\ turn = NoTurn
  /\ recalled = {} /\ staged = {} /\ disk = {}
  /\ informed = {} /\ unsaved = FALSE
  /\ faults = 0 /\ others = 0

\* the records a question can name, and what the index may find
Questions == {indices \in SUBSET (0 .. Len(chain)) : Cardinality(indices) =< MaxNamed}

AnswerModel == AnswerCalls \/ AnswerBroken \/ AnswerText
ToolCall == (\E p \in DOMAIN chain : RecallFetch(p)) \/ ThinkCollapse \/ (\E a \in Uploads : IngestBlob(a))
Scores == {Enforced(score, again) : score \in Scored, again \in Scored}
Finish == LateDrain \/ (\E meta \in Scores : Commit(meta))

Next ==
  \/ \E a \in Uploads : Upload(a)
  \/ Refuse
  \/ \E found \in SUBSET DOMAIN chain : \E hits \in Hybrid(found, SemanticK), indices \in Questions :
       Prepare(hits, indices)
  \/ AnswerModel \/ ModelRaises
  \/ ToolCall \/ CallsDone
  \/ Finish \/ CommitFails
  \/ StartReflection \/ SealReflection \/ ReflectionFails
  \/ \E p \in DOMAIN chain : Revise(p)
  \/ \E rec \in OtherRecords : OtherAppends(rec)
  \/ \E f \in Fronts, text \in Prompts : Restart(f, text)

Spec == Init /\ [][Next]_vars

FairSpec == /\ Spec
            /\ WF_vars(AnswerModel) /\ WF_vars(CallsDone)
            /\ WF_vars(Finish) /\ WF_vars(SealReflection)

(***************************************************************************)
(* Properties.                                                             *)
(***************************************************************************)
InTurn == turn.pc \in {"asking", "tools", "answered", "committing"}

Held(a) == \/ a \in staged
           \/ InTurn /\ a \in turn.taken
           \/ \E p \in DOMAIN chain : a \in chain[p].attachments

\* An uploaded file's pointer waits in memory or with a turn until a record has it; only
\* a crash, a raising model or a failed append, each the end of its turn, may lose it,
\* and one that no turn took is lost only in a crash after its file could not be written
\* (stage_attachment, drain_staged_attachments, the turns that drain).
AttachmentsKept ==
  [][\A a \in Uploads : Held(a) /\ ~Held(a)' =>
       faults' > faults /\ turn'.pc = "idle" /\ (a \in staged => unsaved)]_vars

\* As long as its file could be written, no pointer is sealed into two records, whatever
\* crashes between a drain and its commit.
AttachmentSealedOnce ==
  ~unsaved => \A a \in Uploads : Cardinality({p \in DOMAIN chain : a \in chain[p].attachments}) =< 1

\* The record of a turn refers to everything its model read or sealed, and to nothing
\* that was neither retrieved nor pulled in this turn (commit_response, recalled_refs).
RefsTellAll ==
  [][turn.pc = "committing" /\ Len(chain') > Len(chain) /\ turn'.pc = "idle"
       /\ chain'[Len(chain')].type = "response"
       => /\ informed \subseteq chain'[Len(chain')].refs
          /\ chain'[Len(chain')].refs \subseteq informed \cup turn.context]_vars

\* Nothing quarantined reaches the model in a turn: not through search, recent records,
\* records the user names, corrections, stitched halves or recall_fetch.
QuarantineHolds == InTurn => informed \cap Quarantined(chain) = {}

\* A record that was retrieved comes with every correction there was when it was read.
\* Corrections of corrections and halves of old turn pairs are not promised theirs.
CorrectionsComeAlong ==
  InTurn => \A p \in turn.context :
              chain[p].type \in {"response", "reflection", "synthesis"} /\ chain[p].refs \cap OfType("observation") = {}
                => {r \in RevisionsTargeting(chain, {p}) : r =< turn.read} \subseteq turn.context

\* Reflections cover the chain slice by slice: no two of them the same record, and what
\* one leaves out was appended by another process while it was being written, or fell to
\* the cap (reflect).
ReflectionsCoverAll ==
  LET R      == OfType("reflection")
      lo(r)  == chain[r].covers[1]
      hi(r)  == chain[r].covers[2]
  IN /\ \A r, t \in R : r < t => hi(r) < lo(t)
     /\ \A p \in 1 .. LastOf("reflection") :
          \/ p \in R
          \/ \E r \in R : lo(r) =< p /\ p =< hi(r)
          \/ \E r \in R : hi(r) < p /\ p < r
          \/ \E r \in R : /\ p < lo(r) /\ hi(r) - lo(r) + 1 = MaxReflect
                          /\ \A t \in R : ~(p < t /\ t < r)

\* Every chain the agent builds, other processes writing too, passes the schema-level
\* check (verify_semantic), and the agent's constitution is on record: a genesis first,
\* the prompt in force as the last system prompt, neither ever corrected by a revision
\* (commit_genesis, log_system_prompt, can_revise).
SemanticallySound ==
  /\ VerifySemantic(chain)
  /\ \A p \in OfType("genesis") : p = 1
  /\ chain[LastOf("system_prompt")].text = prompt
  /\ Superseded(chain) \cap {p \in DOMAIN chain : chain[p].type \in ProtectedTypes} = {}

\* A turn or reflection that was begun ends: in a record, an exception or a crash.  The
\* model may go on calling tools as long as it likes.
EveryTurnEnds == turn.pc # "idle" ~> turn.pc = "idle"

\* What was quarantined is off every future prompt, reflections included.
HostileOffEveryPrompt == informed \cap Quarantined(chain) = {}

\* where properties of what needs no state are checked
FirstState == chain = Booted(<<>>, prompt) /\ turn = NoTurn /\ front = "repl" /\ faults = 0 /\ staged = {}

\* records to cut: short and long ones, of three saliences
Sized == {[ResponseRecord({}, {}, [exposure |-> Private, salience |-> s]) EXCEPT !.size = n] :
            n \in 1 .. 3, s \in {20, 40, 85}}

\* The cut to the prompt's budget loses no more than it must, for all chains of three
\* records: the best record is kept however long it is, another one goes only if it
\* does not fit beside better ones, and a record the user named or that was stitched in
\* never yields to one that is merely salient (_truncate_to_budget).
CutIsGreedy ==
  FirstState =>
    \A ch \in [1 .. 3 -> Sized], pinned \in SUBSET (1 .. 3), budget \in 0 .. 6 :
      LosesLittle(ch, 1 .. 3, pinned, budget)
=============================================================================
