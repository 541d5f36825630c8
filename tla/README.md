# Timechain Agent: TLA+ models and proofs

Timechain Agent (`src/`) is a local AI agent whose memory is a signed,
hash-linked chain of records in SQLite. Around that chain it keeps files and
in-memory state that must agree with it: the store of operations waiting for a
user's approval, the immune system's sidecar and lock flag, index tables,
sealed Merkle batches, task chains, proposals, an embedding index. Most of what
is hard about the program is in that agreement: several durable writes that are
not one transaction, a user who answers at the wrong moment, a second process
on the same database, a crash between two steps.

This directory holds TLA+ models of those parts, TLC configurations that check
small instances, and TLAPS proofs of the central properties for every instance.

## 1. Inventory

State kept | Component | Operations | Interacts with
--- | --- | --- | ---
one JSON file and one temp file per operation; the target files | **Write gate** `pending_ops.py` | create, approve (with five recovery branches), retry of the ingest, reject, inline expiry, deferred tool call, start-up sweep | task chain (ingest), identity chain (resolution records), tool loop, web server, REPL
`state.lock`, `approval_waiters` | **Mid-turn approval gate** `timechain_web/webapp.py` | park a turn on a future, deliver a decision to it without the lock, time out, run a user action under the lock | write gate, chain
`records`, `supersedes_index`, `blob_index`, `proposal_recurrence_index`, `merkle_batches`; the LOCKED flag | **Chain** `chain.py` | append, indexed reads with lazy backfill, verify, seal_batch, inclusion_proof | every component that seals
`immune.json`, LOCKED | **Immune system** `immune.py` | screen, scan, lockdown, rollback | chain, agent turn
event buffer of the running turn | **Turn streaming** `webapp.py` | start, drive, follow, re-attach, shutdown | agent turn, approval gate
staged attachments, protected zones, workspace | **Agent turn** `agent.py`, `protected_zones.py`, `metadata.py` | prepare, score, commit, reflect, revise | chain, immune system, tools, retrieval
round budget, task context, staged attachments | **Tool loop** `tools.py` | a round of calls, executors, task_* tools | write gate, continuum, registry
rolling state, chunks, key index | **Continuum** `continuum.py` | ingest, resume, walk, validate | task chain
proposals, recurrences, resolutions on the chain; `signals.py` | **Cambium** `cambium.py`, `apply_proposal.py`, `agent.py` | scan, recur, escalate, accept (scaffold), decline | chain; a second process
staging sidecar | **Auto-sprouting** `sprouted_modalities.py` | stage, graduate, load | chain, signals
`embeddings.sqlite` | **Embedding index** `retrieval.py` | add, rebuild, search, excavate | chain
`tasks.json` | **Task registry** `task_registry.py` | create, update, complete, repair | continuum, tools
attestations | **Quorum** `consensus.py` | attest, verify k of n | chain
files | **Capsules** `capsule.py` | export, verify, import | chain
none | **Signals, PoQ** `signals.py`, `poq.py` | route detectors, score, judge | agent turn
none | Recall, faculties, chronosynaptic scoring, source verification, LLM clients, REPL, document formats, viewers, migration | queries, dispatch, conversion | all

What makes each modelled part correct:

* *Write gate.* A target never holds a half-written file; a crash anywhere
  leaves an operation that a later approval can understand from hashes alone; a
  text is sealed once however often its ingest is retried; a deferred tool call
  never runs twice; a resolution record tells the truth; temp files do not leak.
* *Approval gate.* Decisions that bypass the lock break neither the
  serialisation of chain work nor the record of what was decided; nobody waits for
  ever. (That a decision reported as delivered is the one the turn acts on is
  promised, and fails: section 6.)
* *Chain.* Whatever connections, failures and restarts interleave, the stored
  chain verifies; nothing but an append changes it; an edit stays visible; index
  tables miss no record that was appended since they exist; batches partition the prefix they cover and
  prove the inclusion of every leaf; attested heads pin the history below them.
* *Immune system.* The sidecar and the flag are derived from signed recovery
  records: they never say more than the chain, and the flag is lifted only over
  a recovery that was recorded.
* *Proposals.* A finding is not proposed twice, an escalation is neither missed
  nor repeated, a detector is accepted once, with its stub in place.
* *Turn streaming.* Through reconnects a page shows the events of one turn, in
  order, and its end; a message is answered once.
* *Agent turn.* The model reads nothing quarantined and every correction of what
  it reads; the record says what it read; an uploaded file is sealed once and
  not forgotten; reflections cover the chain slice by slice; the constitution
  stays in force; every turn ends.
* *Task chain.* The rolling state of a record is what a count over the chain
  gives; a file that is skipped is in the chain in full; a record is embedded
  whole or not at all; semantic vectors are not given up; chunks are the text.
* *Scoring.* What is sealed is committed, what is an alert is quarantined, and an
  agent without memory is not blamed for it.
* *Capsules.* Nothing private or quarantined leaves; what was changed on the way
  is not taken over; what came in does not go out again.

Everything the code is exposed to that a test would hardly reach is listed, at
its line, under `hazards` in `PROJECT.json`, each with the properties that
watch it or the reason none does.

## 2. Modules

Module | What it is | Configurations
--- | --- | ---
`WriteGate` | abstract specification of the write gate | (refined by `PendingOps`)
`PendingOps`, `MCPendingOps`, `PendingOps_proofs` | the write gate, one step per durable write | `crash`, `lost_update`
`ApprovalGate`, `MCApprovalGate`, `ApprovalGate_proofs` | turn, requests, lock queue and futures | `turns`, `overtaken`
`Timechain`, `MCTimechain`, `Timechain_proofs` | the record table, index tables and batches over SQLite connections | `writers`, `edits`; also `legacy`, `wedged`
`Merkle` | roots and inclusion proofs, used by `Timechain` and `Capsule` | (as above)
`Attestation` | k of n witnesses: what they attest and what a quorum accepts | `Timechain_edits`
`AttestedChain` | what a quorum adds to the chain's own `verify`; composes `Timechain` and `Attestation` | `Timechain_edits`
`Immune`, `MCImmune`, `Immune_proofs` | screen, scan, lockdown and rollback with their three writes | `safety`; also `unrecognised`
`Proposals`, `MCProposals`, `Proposals_proofs` | cambium's scan, its commit, and the operator's command in another process | `cycle`; also `decided`
`TurnStream`, `MCTurnStream`, `TurnStream_proofs` | a turn's event buffer, its followers, the tabs and their EventSource | `follow`; also `rerun`
`Chunker` | the cutting of a text into chunks, used by `TaskChain` | `TaskChain_ingest`
`TaskChain`, `MCTaskChain`, `TaskChain_proofs` | registry entry, chain, cached state and embedding store of one task | `ingest`; also `raced`, `skipped`
`Context` | metadata, protected records, what a turn gets to read and the cut to the budget | `AgentTurn_reads`
`Quality` | routing of detectors and Proof-of-Quality | `AgentTurn_reads`
`Capsule` | export, verification and import of records | `AgentTurn_reads`
`AgentFunctions` | what must hold of `Quality` and of `Capsule`, with bounded inputs | `AgentTurn_reads`
`AgentTurn`, `MCAgentTurn`, `AgentTurn_proofs` | boot, turns with tools, uploads, reflection and revision; composes `Context` and `Quality` | `reads`, `writes`; also `reflected`

A configuration's file is `<Module>_<name>.cfg`, checked with the module
`MC<Module>`, which adds constants. What must hold of pure functions, and the
bounded inputs TLC evaluates it for, is in the module that uses them: of
`Attestation` in `AttestedChain`, of `Chunker` in `TaskChain`, of `Context` in
`AgentTurn`, of `Quality` and `Capsule` in `AgentFunctions`. TLC evaluates such an
invariant in the first states of a run only, but `QuorumPinsHistory`, which it
evaluates for every chain the run builds. The configurations listed after "also"
are not runs of `PROJECT.json`: each checks one property that does not hold
(section 6). Definitions marked *Mutant* in a comment are wrong variants of the
definition that follows; `PROJECT.json` names, for every property, a mutant TLC
finds with that property.

### PendingOps

`status`, `deleted`, `pre`, `lapsed` are the JSON files; `file` and `tmp` the
disk; `blocks` the task chain's records by `operation_id`; `identity` the
resolution records; `gate` the operation a turn is parked on. Calls are
serialised in the code (one REPL thread; `state.lock` in the web server), so a
single frame `call` stands for the running one: `at` is its next durable step,
`mem` the status it is about to save or has in memory, `text`/`todo` the rest of
an ingest. `execute_approve_write` (pending_ops.py:345-543) becomes
`Approve`, the dispatch actions `AlreadyProcessed`, `RetryIngest`,
`RecoverReplaced`, `RecoverTmp`, `RecoverNothing`, `StartPending`, and the steps
`Save`, `WriteTmp` (open, then fill), `Replace`, `Rehash`, `IngestRead`,
`SealChunk`, `IngestDone`, `IngestRaises`, `Discard`, `Delete`,
`SealResolution`, `RunTool`. `Reject`, `ExpireInline` and the sweep
(`Restart`, `SweepOne`, `SweepEnd`) are the other operations. Between any two
steps `Crash`, `Raise`, `SealFails`, `Lapse` and `Edit` may happen. A hash is
the content it pins (SHA-256 is assumed collision-free); an ingest is as many
chunks as `Chunks` says.

`WriteGate` is what the module promises: an operation is open, started, then
approved or refused; it takes effect only once started, and not if refused; an
approval whose text belongs in a task chain has records there. The refinement
mapping (`Gate`, at the end of `PendingOps`) reads the phase off the stored
status: an operation whose file is gone while its status is still `pending` is
refused. `Required` names the operations whose approval needs a record: all of
a task's, unless some content has no chunk at all, as an empty file's has not.

### ApprovalGate

What a handler does between two awaits is one step: `StartTurn`, `BeginTurn`,
`Propose`, `Park`, `Wake`, `Timeout`, `ResolveInline`, `Commit`, `TurnFails` for
`_start_turn`, `_drive_turn`, `_turn_events`; `Deliver`, `QueueUp`, `Granted`,
`RunUserAction` for `_pending_op_action`. `queue` is asyncio's FIFO lock with
its holder at the head. A call into the write gate runs in a worker thread while
the lock is held; here it is one step with the outcomes `AfterApprove` and
`AfterReject`, which are those `PendingOps` gives it (`partial` stands for
`writing`, `written`, `ingest_failed`). `Reported` is what the turn is told: a
tool call whose execution raises is approved in the store and reported as
`approve_failed`. `TimerWins` chooses between two versions of
`asyncio.wait_for`, both within `requires-python >= 3.10` and both declared in
`pyproject.toml` (3.10 to 3.13): up to 3.11 a future that is already resolved
wins over the timer, from 3.12 on the timer's cancellation may win. Both runs take
the latter: `turns` checks what holds all the same, `overtaken` that
`DeliveredIsHonoured` does not, a decision the user was told was delivered ending
as an expiry. Left out: `/api/capsule/import` (webapp.py:718) appends to the chain
without `state.lock`, so `OneAtATime` is about turns and user actions only.

### Timechain

`db` is the committed database, replaced as a whole by a commit; `txn` and
`seen` are what SQLite's WAL mode and Python's implicit transactions keep per
connection; `conn` is the append or `seal_batch` in progress. `Prepare` is
`append` up to its INSERT (lock check, head, hash, proof of work, signature);
`Insert`, `InsertConflict`, `InsertLockedOut` are the outcomes of the INSERT;
`ReadIndex` is any read of an index table with its lazy backfill; `SealRead` and
`SealInsert` are the two halves of `seal_batch`; `Die` a process that exits or
is restarted; `LegacyAppend` and `Upgrade` a chain written before the index
tables existed (`older` remembers which records it had then); `EditRow` a change of the table by something without the key. A
hash is the tuple it is computed from, a signature the hash it signs, a Merkle
root the sequence of its leaves. `verify()` is `Verify`.

Left out: other writes of a connection (`set_meta`, `attach_anchor`) also end
an open transaction; attachments embedded in a response record are indexed by
`append` but not by the backfill; the wait of the busy timeout is the outcome
at its end.

### Immune

`chain` holds the records as `load_rings` shows them, `file` is `immune.json`
(absent, torn or a state), `flag` the LOCKED file, `call` the running lockdown
or rollback with the state it is going to save. `Turn` is a turn as the membrane
lets it through: refused and sealed hidden, or answered. `Rollback` computes
range, vector and state; then `SealRecovery`, `Truncate`, `WriteState`, `Lift`
are its writes, `Truncate`, `WriteState`, `SetFlag` those of `Lockdown`; `Stop`
is a crash or exception between two of them. A text is a set of words; the
vector is a choice among the most frequent ones. The advisory injection signal,
the growing of an antibody faculty and the wording of the recovery record are
left out, and so is an answered turn that a later membrane hides (`hidden`
stands for refused turns only).

### Proposals

`chain` holds the records that matter (what a trigger counts, proposals,
recurrences, statuses, sprouts), `agent` the scan in progress: `Scan` reads the
window and decides, per finding, between a new proposal (`new`) and a recurrence
of the earliest open one (`again`); `CommitProposal`, `ReadEscalated`,
`CommitRecurrence`, `Escalate`, `Stage`, `Graduate`, `OpenRegistry`,
`WriteRegistry`, `Mark` are the writes that follow, in their order. `cli` is the
operator's command: `Accept` or `Decline` check the status, `OpenSignals` and
`FillSignals` write the stub, `RecordDecision` seals the decision. The two
processes share the chain and `signals.py`. `AppendFails` is an append that
raises in the middle of a scan (the registry has already changed in memory),
`SaveFails` a registry that cannot be saved, `Crash`, `Restart` and
`CommandDies` the rest.

A pattern is `Repeat` records of one finding in the window; the diversity gate
of output modes is part of what such a record stands for. A finding is a kind
and a topic, since two triggers may meet in one topic signature. `Captured` is
the vocabulary known from the registry: its expression recovers words of
letters, digits and underscores only, so `OddModes` names the modes whose words
all have a hyphen or an apostrophe. Only those can be found again once they are
staged, and so graduate; a mode of plain words stays tentative, whatever
README.md:70 says. Left out: the legacy scan of the tail alone, which nothing
calls, a watermark beyond the end of the chain, two agents on one chain, two
commands at the same time, the cap on sprouts, and two modes that share a name.

### Attestation and Merkle

A MAC is the tuple it is computed from; only the witness named has its key.
`Attest` appends a line of every witness, `QuorumVerify` is `Quorum.verify`.
`AttestedChain` takes each chain that `Timechain` reaches, has up to two heights
attested in any order (or one of them twice), while any one witness is sound, has
lost its key or attests another history, and compares the chain with one
that was rewritten from any record on and signed again, and with a cut one. A
Merkle node is the pair of its children. `Layers` are the values of the loop of
`merkle_root`, `Positions` those of the index in `merkle_proof`, `Height` the
number of rounds. `BatchesPartition` asks for every leaf
of every sealed batch that the proof made later leads to the root sealed then.

### TurnStream

`runs` are the `TurnRun`s with their buffers, `active` is `state.active_turn`,
`tab` each page with its EventSource: what it was opened for, the server's
follower (`run`, `pos`), events on the wire and events received. `Connect` is the
request of `GET /api/turn/stream` up to the first await (attach, start or refuse);
`Send`, `StreamEnds` the follower; `Receive`, `Blip`, `Probe`, `OpenPage`, `Leave`
the browser. `Last-Event-ID` is the last id received since the EventSource was
opened. `PostTurn` and `PostReturns` are the non-streaming endpoint. Every tab
has its own token, the last claim holds the session. Left out: the rate limit of
claims, and a shutdown under a running turn. All inputs but the first
are alike, so `NextInput` lets the first message have one text only.

### TaskChain and Chunker

`reg`, `ring`, `store` are durable (tasks.json, the task's chain, its embedding
store); `known`, `cached`, `index` are the copies in memory; `op` is the tool call
in progress, with the step it is at. `Create`, `Record`, `Repair` are the
registry; `IngestPath`, `IngestFile`, `Upload` begin an ingest, `SealOpen`,
`Plan`, `ReadFile`, `SealChunk`, `SealRaises`, `Sealed` are `walk` and
`_seal_chunks`. Hash and text come from one reading or from two, as in the code:
`task_ingest` reads the text, then hashes the file (`IngestFile`, `ReadAgain`;
the call of an approved write brings its hash), a walk streams a large file once
for hash and chunk count and again while it seals (`ReadFile`, then `NextChunk`,
which gives chunks of either version after an edit), and otherwise hashes the
text it has. `Edit` may come between the two; `op.read.edited` observes that it
did, and `cut` keeps it.
`OpenIndex` is `open_or_rebuild_index`, `IndexRecord` and `IndexRecordRaises` one
record of `index_chain`; `Reembed`, `EmbedBatch`, `Reembedded` the re-embedding in
batches; `Search` the matrix. A version of a file is the lengths of its lines;
`Chunker` cuts it, and every short text besides: `Scan` is the state of the loop
of `iter_chunks_with_lines` after each line, a recursive function. One process;
vectors are whose they are and of what. Left out: `mark_complete`, status and
stale marks.

### AgentTurn, Context, Quality

`chain` holds records with the fields the properties tell apart; a record's hash
is its position. `Prepare` is `prepare_turn` with any outcome of the search,
`BuildContext` what is pulled in and filtered, `TruncateToBudget` the cut: the
record of each `Rank` in turn is kept if it fits beside those kept before it.
`AnswerCalls`, `AnswerBroken`, `AnswerText`, `ModelRaises` are the model's call;
`RecallFetch`, `ThinkCollapse`, `IngestBlob` the tools that touch the turn;
`LateDrain`, `Commit`, `CommitFails` its end; `Refuse` a turn the membrane stops;
`StartReflection`, `SealReflection`, `ReflectionFails` and `Revise` the rest.
`front` tells the two front ends apart: both drain staged files before the model
is asked and again after it, but only the REPL honours `enforce_verdict`. `OtherAppends` is another process on the same chain,
`Restart` a crash or restart with the prompt the operator configures.
`informed` and `unsaved` only observe. `AsLeft` says which chains an agent may
find at its first boot: those earlier versions of the program leave, with older
metadata; revisions and reflections among them are as `revise` and `reflect`
make them.

`Quality` has the detectors' counts as inputs; scores are in hundredths, rounded
down where the code has floats. `GatesAgree` (in `AgentFunctions`) says how the
action and the verdict of an answer have to agree, and that routing changes
neither; of the verdict `reject` it says nothing (see 6). `ScoredAssumption` in `MCAgentTurn` compares the set of outcomes turns are
modelled with, `MCScored`, with what `Evaluate` returns over the inputs.

### Capsule

Hashes and signatures are tuples; a record's time goes by its index. The loops of
export and import are recursive functions, `Selected` and `WithRecordsOf`. The run
(`AgentFunctions`) exports every chain of three records with all exposures and
classes, changes any one field, drops, repeats or reverses records, and imports
the result. `indices = None` is the sequence of all indices.

## 3. What the runs show

Run | Instance | What holds
--- | --- | ---
`PendingOps_crash` | one write of two chunks and one deferred tool call, one foreign edit, 3 faults, fairness; 421,806 states | `SealedAtMostOnce`, `ToolRunsAtMostOnce`, `ResolutionTruthful`; the steps refine `WriteGate` (`ImplementsGate`); without the edit also `EventuallyResolved`
`PendingOps_lost_update` | two writes against one file, one crash | `NoLostUpdate` fails: see 6
`ApprovalGate_turns` | two operations, two requests, one exception, timers of Python 3.12 on, fairness; 99,998 states | `OneAtATime`, `RecordTellsAll`, `EveryoneServed`
`ApprovalGate_overtaken` | the same without fairness | `DeliveredIsHonoured` fails: see 6
`Timechain_writers` | a chain with one record from before the index tables or none, two connections, one of them sealing batches of 1 or 3, up to 3 records; 543,724 states | `ChainVerifies`, `BatchesPartition` (with an inclusion proof of every leaf), `IndexTellsNew`
`Timechain_edits` | one edit, up to 4 records; three witnesses, quorum 2, up to two attestations, one witness with any of three faults; 167,548 states | `EditsAreDetected`, `QuorumPinsHistory`
`Immune_safety` | two texts, rollbacks to any height, up to 5 records, 2 faults; 331,050 states | `SidecarBacked`, `SidecarComplete`, `LiftedOnlyRecovered`, `NoBreachLeft`
`Proposals_cycle` | a correction and a mode, two scans and a full one, two decisions, one fault; 1,462,386 states | `NoDuplicate`, `EscalatedOnce`, `EscalationNotMissed`, `AcceptedOnce`
`TurnStream_follow` | two tabs, two texts, 2 messages, one lost connection, 2 visits, one restart, fairness; 489,868 states | `FollowsOneRun`, `SeesTheEnd`
`TaskChain_ingest` | two files in two versions of 1 and 2 chunks, each read once or twice, one edit, one fault, up to 4 records; every text of up to 4 lines of 8 lengths, 4 characters to a token; 2,776,460 states | `HeadTellsAll`, `SkippedIsWhole`, `EmbeddedWhole`, `TextsAreWellCut`, `SemanticStoreKept`
`AgentTurn_reads` | new and old chains of up to 5 records, one record named, 2 tool calls, every outcome of the scoring, one fault; capsules of 3 records; 246,999 states | `QuarantineHolds`, `CorrectionsComeAlong`, `RefsTellAll`, `CutIsGreedy`, `GatesAgree`, `OnlyWhatWasShared`
`AgentTurn_writes` | one upload, two prompts, one record of another process, chains of up to 6 records, one fault, fairness; 125,236 states | `AttachmentSealedOnce`, `AttachmentsKept`, `ReflectionsCoverAll`, `SemanticallySound`, `EveryTurnEnds`

**Bounds.** Two contents per file and two writers are enough to tell "mine", "the
one I was proposed against" and "another's" apart. Three faults allow a crash in
the recovery of a crash and one more in its retry. Two operations and two requests
make every pair that can race for one future or for the lock. Two connections are
what a primary key, a write lock and a snapshot are about; three records are the
shortest chain with a first, a middle and a last record, with two batches that can
overlap or leave a gap, and with a Merkle tree of an odd level. Four rings after
genesis allow two rollbacks over ranges that overlap. For proposals, thresholds of
two keep a cycle (propose, recur and escalate, recur again) within three scans;
the lookback is shorter than the chain, so that a proposal leaves the window; two
decisions are an acceptance that an escalation opens again. For turn streaming,
two tabs are an owner and one who took the session over; two messages make a
reconnect that finds the wrong turn, and `MaxRuns` never binds. For task chains,
one file is smaller and one larger than a block, and one edit makes a seen file
unseen again, or falls between two readings of it; line lengths lie on both sides of every threshold of the chunker
(`MinTokens`, `TargetTokens`, `MaxTokens`). A token is four characters, as in the
code: with two, two rests always make a full token together, and `WellCut` passed
without its exception for those that do not (a line of 33 and one of 1). For
turns, five records hold an old question and answer, a revision and a record the
turn adds, with a budget that one of them exceeds; six hold two reflections with
records between and after them. One failure is a failure at every place it can
happen; `AgentTurn_writes` was also checked with two (278,408 states, all
properties hold). What properties of pure functions need no state for
(`TextsAreWellCut`, `CutIsGreedy`, `GatesAgree`, `OnlyWhatWasShared`) is evaluated
in the first states only.

Every bound is a constant, guarding one action. `CHECK_DEADLOCK FALSE` is set
where a bounded instance ends: all operations resolved (`PendingOps`), all
indices used (`Timechain`), all rings used (`Immune`, `TaskChain`), all scans and
decisions (`Proposals`), all messages sent and tabs left (`TurnStream`), a chain
without room for a turn (`AgentTurn`). `ApprovalGate` is checked for deadlock.

**Fairness.** `PendingOps!FairSpec`: a running call and a restarting process
make their next step (weak fairness of `Step`); time passes an expiry; the user
goes on approving an operation left behind, and a parked turn's timer expires it
(strong fairness, as the request is only possible between calls). The code
justifies the first two; the third is the environment the retry messages ask
for. Without it an operation a crash left in `writing` stays there: the sweep
deliberately spares it. `EventuallyResolved` is claimed of behaviours without
foreign edits: a file that somebody else changes blocks an approval for ever, as
it should.
`ApprovalGate!FairSpec`: the event loop and its worker threads run and the timer
of a parked turn fires (weak fairness of the turn's steps and of each request's
step). No user has to answer. `TurnStream!FairSpec`: the event loop runs (weak
fairness of the turn's producer and of each tab's follower, and of an EventSource
that is told to reconnect). `AgentTurn!FairSpec`: a call of the model returns or
raises, and the process goes on with what it returned (weak fairness of the
steps of a turn and of a reflection); that it ever stops calling tools is not
assumed, the round budget ends it.

## 4. What is proved

TLAPS proves the following for every value of the constants that meets the
module's assumptions: any number of operations, requests, connections,
records, tabs, files, faults. Each proof about behaviours is an inductive invariant, `Init`
implies it, one lemma per action (or group of actions that disturb the same
parts) for the step, and a `PTL` step. Where a run checks the property, it
is named after the theorem.

**`PendingOps_proofs`**: `TypeCorrect`, `NoTmpLeak`, `NoDoubleSeal`
(`SealedAtMostOnce`), `ToolSingleShot` (`ToolRunsAtMostOnce`), `RecordsTruth`
(`ResolutionTruthful`), `KeepsPromise` (`ImplementsGate`). The properties are
not inductive: they talk about the store, and what keeps them true is what the
running call knows. `FrameInv` states it label by label (at `replace` the temp
file holds the proposed content, at `run` the stored status is `writing`, ...);
`SealInv` that an expiry seals nothing; `BlocksInv` that a sealing call has
exactly the rest of the text's chunks left; `ToolInv` that an undecided tool call
has not run. For the record's truth, `EffectInv` and `ProvenanceInv` say that
what is stored beyond `writing` took effect and that what can still be refused
left nothing behind, `LedgerInv` that the record about to be sealed is the first
of its operation and has its status. The refinement maps each step to a step of
`WriteGate` or a stutter; most stutter, as a temp file, a check or a crash is
nothing the abstract gate knows of. An approval needs a record unless a text may have no
chunks (`Required`, see 2).

**`ApprovalGate_proofs`**: `TypeCorrect`, `Serialised` (`OneAtATime`),
`NoStaleFuture`, `RecordsTell` (`RecordTellsAll`), for both kinds of timer.
`QueueInv` says the queue holds the turn and each
waiting request once and that whoever works is its head, from which two workers
are the same; `GateInv` ties a future to its parked turn. `TurnInv` and `SaidInv`
say what each operation's entry in the chain, the turn and the waiting requests
have to do with its status.

**`Timechain_proofs`**: `TypeCorrect`, `AlwaysVerifies` (`ChainVerifies`),
`OnlyAppends`, `InclusionProven`, `IndexTellsAll` (`IndexTellsNew`),
`BatchesCover` (`BatchesPartition`), `EditsStayDetected` (`EditsAreDetected`),
`HashTellsHistory`, `QuorumTells`, `QuorumStandsBy` (`QuorumPinsHistory`). A
prepared record was computed from a head that may no longer be one: `ConnInv` says
it still *follows* some stored record, so that with the primary key, `Taken`, the
INSERT extends the chain by its successor; a snapshot is a subset of the table.
`DenseInv` (no gap below a record) makes an index that is free the largest, hence
what the index tables and a backfill say the same after it and the rows of a
sealed batch final (`BatchInv`). `IndexInv` says that each table is a backfill of
the records from some height on that is not above `older`; `SealInv` that a
`seal_batch` in progress still begins where the last batch ended. `EditInv` is
what an edit leaves: a record that is not authentic, or a gap that no append can
fill, since what is being inserted lies above it or comes from a snapshot older
than the edit, which cannot be committed. `InclusionProven` is about the functions
alone: every layer is half as long as the one below, so the loop ends with one
node, and going up from a leaf with its siblings meets the node of each layer.
`HashTellsHistory` says that two chains which verify and have a record of the same
hash have the same records up to it, since a hash contains the one before. For
`QuorumTells`, of any configuration and any file: as many sound witnesses as the
quorum, who wrote about every height in it, and fewer others decide alone, as a
witness counts once per height however often it signs; the file verifies exactly
if every height it names still has the hash the sound ones saw. `QuorumStandsBy`
puts the two together: what was attested verifies, a chain rewritten or cut at or
below an attested height does not, though it is linked, signed and passes
`verify()`. Hypotheses: at most one sealing connection for the batches (two cover
records twice, see 6), at most one edit for its detection (a second edit may undo
the first).

**`Immune_proofs`**: `TypeCorrect`, `AlwaysBacked` (`SidecarBacked`),
`KeepsEveryRecovery` (`SidecarComplete`), `LiftsOnlyRecovered`
(`LiftedOnlyRecovered`), `LeavesNoBreach` (`NoBreachLeft`). `CallBacked` says the
state a call is about to save is backed by the chain but for the scar it is about
to seal; `LastIsOwn` that from that record on the last record of the chain is the
call's own. For completeness the same is said the other way round: every recovery
but the one just sealed is in the file, and that one is in the state about to be
written.

**`Proposals_proofs`**: `TypeCorrect`, `ProposesOnce` (`NoDuplicate`),
`EscalatesOnce` (`EscalatedOnce`), `NoMissedEscalation`
(`EscalationNotMissed`), `AlwaysHasStub`, `AcceptsOnce` (`AcceptedOnce`),
`GraduatesConfirmed`. Each says what a process still knows of the chain when it
acts on what it read earlier: `Known`, that what a step points at is there;
`NewInv`, that from the scan to the commit nothing open stands behind a finding
taken for new, because declines stay and the chain grows away from the lookback;
`EscalatedInv`, that the set read once is the chain's while recurrences are
committed; `StubInv`, that the text about to be written, then the file, holds
every accepted stub and the one of the running command, which is not accepted
yet. Counts only grow (`CountsGrow`), from which graduation follows. The argument
needs one command at a time, as the model has it (see 2).

**`TurnStream_proofs`**: `TypeCorrect`, `ShowsOneRun` (`FollowsOneRun`). An event
id does not name its run, so a page that reconnects with the id it saw last could
be given the rest of another run. What prevents it is the session: only its
holder starts runs, so while a page holds it, the run it follows, or followed
before its connection was lost, is the active one (`PageInv`); a page that lost
the session is refused when it comes back.

**`TaskChain_proofs`**: `EveryTextWellCut`, `TextsCutWell` (`TextsAreWellCut`),
`CountsAgree` (`HeadTellsAll`), `SkipsOnlyWhole` (`SkippedIsWhole`),
`WholeOrAbsent` (`EmbeddedWhole`), `KeepsSemantics` (`SemanticStoreKept`). Between
two chunks of a file the cache is behind and the call carries the head's state; at
every other time a cache that is filled is the head's state, unless an append
raised (`CountInv`). What is sealed of the file in progress is a prefix of its
chunks (`PartInv`), unless it was edited between its two readings; every other
file that was not cut short or edited like that ends with all of them
(`WholeInv`). `RowsInv` says whose rows may be partial: those whose embedding was
cut short, in the store, in the transaction and beside the matrix; during a
re-embedding every row is written, still to be written or its record's is given
up. The last four use nothing of how a text is cut, not even into how many chunks.
The first two are about the cut alone, for a text of any number of lines of any
lengths: after each line the chunks so far and the buffer are the text so far,
each chunk holds the lines it says and had to end where it ends; a piece of a long
line and the last merge keep that.

**`AgentTurn_proofs`**: `StaysSound` (`SemanticallySound`), `ReflectionsMeet`
(`ReflectionsCoverAll`), `QuarantineKept` (`QuarantineHolds`), `CorrectionsCome`
(`CorrectionsComeAlong`), `RefsTell` (`RefsTellAll`), `SealedOnce`
(`AttachmentSealedOnce`), `PointersKept` (`AttachmentsKept`); of the cut
`CutLosesLittle`, `CutStaysGreedy` (`CutIsGreedy`); of the scoring
`RoutingDecidesNothing`, `DecisionsAgree`, `DecisionsStayAgreed` (`GatesAgree`),
`OnlyTheCovenantRejects`;
of capsules `OnlyTheSharedLeaves`, `TheSharedVerifies`, `VerifiedIsEndorsed`,
`ImportedOnce`, `ImportedStays`, `CapsulesStayTrue` (`OnlyWhatWasShared`). That a
chain is as the program leaves it (`AsLeft`) is inductive once the reflection in
progress is known to begin where the last one on the chain ended (`SliceInv`),
which holds as no two reflections are written at the same time and others append
turns only. What a turn read stays where it read it while the chain grows
(`ReadInv`), and retrieval, corrections, stitching, the quarantine filter and the
cut are taken one after the other for what they keep. That the cut keeps a part of
what it was given is an induction over the ranks. `PlacesInv` says a pointer is in
one place of three, on the chain, with the turn or staged, and that its file says
what memory says until a write of it fails. The assumption on `InitialChains` (the
chains at first boot are `AsLeft`, and no upload is on two records) is the same
property of the versions before.

`CutLosesLittle` is about any chain, records, pins and budget: `Outranks` is a strict
order of the records, so a rank is one record's, and what was kept when a record
came up is what is kept in the end of those before it. `RoutingDecidesNothing` is
about any text and answer: the detectors that routing may skip are in none of the
sums, maxima and alerts a decision is made from. `DecisionsAgree` is about any
measurements in their ranges (`Measured`, `Answered`, `Recollected`): it bounds
continuity, grounding, alignment and brightness by what they are weighted from.
`OnlyTheCovenantRejects` states what the floor of continuity does to the verdict
`reject`, against what the comments of poq.py say of it (see 6).

`OnlyTheSharedLeaves` and `TheSharedVerifies` are about every chain its agent sealed
(`SealedBy`), every selection and filter. `VerifiedIsEndorsed` is about any capsule
whatever, of whoever's making. If it verifies as an agent's, and the signatures and
commitments in it that bear that agent's name are ones it made (`Unforged`, the
unforgeability of Ed25519, stated as a hypothesis), then every body in it is a
record's as it was sealed, or the summary of a record that is for summaries only. A
record's hash and a summary's message have different forms, so that neither's
signature passes for the other's. `ImportedOnce` and `ImportedStays` are about any
chain and any capsule.

**Induction.** The library's induction theorems take an operator as parameter,
which the provers cannot instantiate. Where a proof needs induction, over the
layers of a tree, the ranks of a cut, the least gap, the greatest index of a
file's blocks, it is done with the set of the numbers for which the statement
holds, or fails, and the well-foundedness of `<` on the naturals (`LeastNumber`,
`Induction`). The recursive definitions involved are functions whose step is an
operator with a name, or is stated once in a lemma (`Selected`, `WithRecordsOf`,
`Attested`, `Rewritten`).

**Only model-checked.** The liveness properties `EventuallyResolved`,
`EveryoneServed`, `SeesTheEnd` and `EveryTurnEnds`: fairness and `ENABLED` are
out of the prover's reach. Every other property of a passing run is a theorem,
under the hypotheses named above.

The theorems without a property in brackets state what no run repeats: type
correctness, `NoTmpLeak`, `NoStaleFuture`, `OnlyAppends`, `AlwaysHasStub`,
`GraduatesConfirmed`, `InclusionProven`, and, for all inputs, what the properties of
pure functions say of bounded ones (`HashTellsHistory`, `QuorumTells`,
`EveryTextWellCut`, `CutLosesLittle`, `RoutingDecidesNothing`, `DecisionsAgree`,
`OnlyTheCovenantRejects` and the capsule's). The theorem with the property in brackets then follows from these
for the inputs TLC takes, without regard to the first state.

## 5. Plan

Done, in this order: `PendingOps` with `WriteGate`, `ApprovalGate`, `Timechain`,
`Immune`, `Proposals`; then `TurnStream`, `Merkle` and `Attestation`, `Chunker` and
`TaskChain`, `Context`, `Quality` and `AgentTurn`, `Capsule`; then the proofs of
their safety properties.

Left to model: a power loss (`synchronous=NORMAL` may lose the last commits while
files written after them survive), a shutdown under a running worker thread, a
second process with its own copy of the task registry, and what the notes of the
partly modelled components name.

Left to prove: nothing but liveness, for which TLC stays the tool.

## 6. Where code and text disagree

*Lost update after a crash* (`PendingOps_lost_update`, pending_ops.py:461) is a
run and a finding of `PROJECT.json`, which quotes both sides. The recovery
branch that finds the temp file replaces the target without comparing it with
the pre-write hash, so what another approved write put there after the crash is
overwritten.

*A delivered decision expires* (`ApprovalGate_overtaken`, webapp.py:1456) is the
other. The request that resolves the future of a parked turn answers that the
decision was "delivered to the running turn — it resolves the operation and
continues" (webapp.py:1790); when the timer fires before the turn has run, the
`wait_for` of Python 3.12 on cancels it, and the operation expires.

The following were found with a configuration of their own, which TLC ends with
a counterexample (`tlc -config <file>.cfg MC<Module>`):

* *Old records hidden from an index* (`Timechain_legacy.cfg`, `IndexMatchesScan`,
  chain.py:618). The lazy backfill is skipped once the table has a row, and an
  append can put one there before any read. It is documented as "what makes the
  upgrade transparent for chains created before the materialized index existed"
  (chain.py:608). Retrieval finds corrections through the same table
  (`revisions_targeting`), so on such a chain it may miss those of older records;
  the chains of `AgentTurn` have complete tables.
* *A body under another version's hash* (`TaskChain_raced.cfg`, `SealedAsRead`,
  continuum.py:642). Hash and chunk count of a large file come from one reading of
  it, the sealed chunks from a second one: after an edit in between the blocks are
  not "identical to `ingest(name, full_text)`" (continuum.py:390), and while the
  file has the hashed content `walk(changed_only)` skips it. `task_ingest` reads
  twice as well (tools.py:464 and 475).
* *Wedged connection* (`Timechain_wedged.cfg`, `NeverWedged`, chain.py:435). A
  failed INSERT leaves Python's implicit transaction open; another connection
  then ends on a snapshot on which every append fails until its process is
  restarted.
* *A decision is escalated away* (`Proposals_decided.cfg`, `DecisionIsFinal`,
  agent.py:1613). The escalation check asks for the recurrence count and for
  earlier escalations, not for the proposal's status, and an accepted proposal
  goes on collecting recurrences. The escalation is then the latest
  `proposal_status`, so the proposal counts as undecided again.
* *The attack is not recognised* (`Immune_unrecognised.cfg`, `AttackRecognised`,
  immune.py:230). A scar's vector is built from the reply, never from the input.
* *A message runs twice* (`TurnStream_rerun.cfg`, `MessageRunsOnce`,
  webapp.py:1667). A stream lost before its first event reconnects with the text
  of its message and no `Last-Event-ID`; if its turn has ended meanwhile, the
  message is taken for a new one.
* *A skipped record is not retried* (`TaskChain_skipped.cfg`, `SkippedIsRetried`,
  retrieval.py:655). A record whose embedding failed is skipped "until
  a later index_chain call succeeds on it", but a later call starts behind the
  newest record embedded.
* *A quarantined record is reflected on* (`AgentTurn_reflected.cfg`,
  `HostileOffEveryPrompt`, agent.py:1778). The history a reflection reads has no
  quarantine filter, although a refused turn is recorded so as to stay off future
  prompts (agent.py:763, retrieval.py:1551).

Met while modelling, without a configuration:

* *Write gate.* An ingest that failed half-way is taken for complete by its
  retry (tools.py:437: any block with the operation's id will do); a failed approval leaves its operation unresolved when the turn commits.
* *Chain.* An append that passed the lock check commits after the lockdown; two
  sealing processes cover records twice.
* *Immune system.* `immune.json` is rewritten in place, so a crash in a later
  lockdown forgets its scars; a rolled-back range stays in what retrieval reads.
* *Proposals.* Sprouts lost with a torn registry file are not restored; a stub
  written before its acceptance could be sealed blocks every later acceptance.
* *Agent turn.* An enforced REJECT builds the record's metadata anew and so drops
  the mark `quarantine` of its score (agent.py:865); the web server does not look
  at `enforce_verdict`. Drained attachments are lost when the model raises, the
  append fails or the process dies, and sealed twice after a failed save and a
  restart. What another process appends while a reflection is written is covered
  by no reflection. When an automatic reflection raises after the web turn's
  commit, the stream ends without `done`, and the page goes on reconnecting
  (index.html:1123).
* *Retrieval.* The references of a turn name records the budget cut (agent.py:683),
  and the cut can separate a question from its answer (retrieval.py:1646); a
  revision of a revision, or of the half that was stitched in, is not pulled in;
  `recall_fetch` adds the last revision without looking at its quarantine.
* *Scoring.* The verdict REJECT for a contradiction of sealed history, which
  poq.py:100-101, 465-468 and 484 describe, cannot occur: `_continuity` is never
  below 0.5 (poq.py:671) and the floor it is compared with is 0.45 (poq.py:114;
  `OnlyTheCovenantRejects`); a committed record
  may carry the verdict `reject` or `force_uncertainty` (poq.py:108).
* *Task chain.* A last block may stay below `MIN_TOKENS` although "below this,
  merge" (continuum.py:104): the end is merged once, and two rests that are less
  than a token together (after a line longer than `MAX_TOKENS`) are then one block
  still. A crash in the middle of a batch leaves a record embedded in part; after
  an append that raised in the middle of a file the counters repeat and
  `walk(changed_only)` skips the file; `repair()` forgets the choice of the
  embedder; two processes overwrite each other's registry.
* *Capsules.* With `indices` an export keeps the order and the repetitions it was
  given; without, the genesis is exported in summary, although the documentation
  has it named explicitly (capsule.py:283); a crash in the middle of an import
  leaves a part that is later taken for the whole; the capsule's id and root, a
  record's exposure and class, and a redacted record's index are covered by no
  signature.
* *Quorum.* A second `init` replaces the keys and fails all earlier attestations;
  an attestation written in part leaves its height below the quorum.

## 7. Not modelled

Recall and source verification, viewers and diagnostics only read. Faculties,
embeddings, the word lists and expressions of the detectors and the weights of
chronosynaptic scoring are float heuristics over text: what is built on their
outcome is modelled with every outcome they can have. LLM clients talk to services
outside the repository; their call returns text, tool calls or raises.
Extractors and the docx writer convert formats through libraries. Of the web
page only the EventSource and its Last-Event-ID are modelled, as external
definitions, and of asyncio and SQLite the lock, the timer, the transactions and
snapshots. Of the partly modelled components the notes in `PROJECT.json` name what
is left out. Assumed throughout: SHA-256 and Ed25519 are unforgeable,
`os.replace` is atomic, a SQLite commit is atomic and durable, and one process
at a time uses a workspace, except where section 2 names two.
