---------------------------- MODULE MCAgentTurn ----------------------------
(* Instances of AgentTurn for TLC. *)
EXTENDS AgentFunctions

CONSTANTS a1, a2, p1, p2

\* records as old versions left them, without metadata or with a mark
Old(type, refs) == [type |-> type, whole |-> FALSE, refs |-> refs, size |-> 1, attachments |-> {}]
Marked(rec) == rec @@ [meta |-> BuildMeta(rec.type, Quarantine, Unset)]

Answer == ResponseRecord({}, {}, ScoredMeta("commit"))

\* no chain yet; a chain that begins with a question and its answer from before the
\* single-record turn, of which one half is quarantined; one with a corrected answer
OldAndNew == {<<>>,
              <<GenesisRecord, Marked(Old("observation", {})), Old("response", {2})>>,
              <<GenesisRecord, Answer, RevisionRecord(2)>>}

\* no chain yet, one that was reflected on, and one whose prompt was changed
NewAndReflected == {<<>>, <<GenesisRecord, Answer, ReflectionRecord(1, 2)>>,
                    <<GenesisRecord, PromptRecord(p1), PromptRecord(p2)>>}

\* what Proof-of-Quality can make of an answer
MCScored ==
  [action : {"commit"}, verdict : {"seal", "force_uncertainty", "reject"}]
    \cup [action : {"light_log", "quarantine"}, verdict : {"revise", "force_uncertainty", "reject"}]

MCCommitted == {[action |-> "commit", verdict |-> "seal"]}

\* Turns are modelled with all outcomes there are.
ASSUME ScoredAssumption ==
  MCScored = {[action |-> e.action, verdict |-> e.verdict] :
                e \in {Evaluate(Plain, r, c, TRUE, TRUE, "none") : r \in Replies, c \in Contexts}}
=============================================================================
