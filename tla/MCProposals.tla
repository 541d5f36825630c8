---------------------------- MODULE MCProposals ----------------------------
(* Instances of the growth mechanism for TLC. *)
EXTENDS Proposals

\* What is corrected, and a mode of output that is spelt with hyphens.
MCFindings == <<[kind |-> "principle", topic |-> "scheduler"],
                [kind |-> "modality", topic |-> "co-op"]>>

\* One topic that is corrected and fails.
MCTwins == <<[kind |-> "principle", topic |-> "scheduler"],
             [kind |-> "skill", topic |-> "scheduler"]>>

MCModes == {"co-op"}
=============================================================================
