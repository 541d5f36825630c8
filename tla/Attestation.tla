----------------------------- MODULE Attestation -----------------------------
(***************************************************************************)
(* Attestation of chain heads by k of n witnesses (consensus.py).  The     *)
(* attestations are a file of lines beside the chain; a turn's commit      *)
(* appends the witnesses' lines for the head it finds.                     *)
(*                                                                         *)
(* A witness's key goes by its name; a MAC is the tuple it is computed     *)
(* from, so that nobody else can make it.                                  *)
(***************************************************************************)
EXTENDS Naturals, Sequences, FiniteSets, Functions

\* What init accepts.
ConfigOK(config) == config.quorum \in 1..Len(config.witnesses)

Mac(key, height, hash) == <<key, height, hash>>

Line(witness, height, hash) ==
    [witness |-> witness, height |-> height, hash |-> hash,
     mac |-> Mac(witness, height, hash)]

\* attest: a line of every witness about the head.
Attest(config, file, height, hash) ==
    file \o [i \in DOMAIN config.witnesses |-> Line(config.witnesses[i], height, hash)]

Heights(file) == {file[i].height : i \in DOMAIN file}

\* Mutant: a witness counts as often as it attests.
CountedEach(file, h) == {i \in DOMAIN file : file[i].height = h}

\* Of a witness's lines about a height, verify looks at the first.
Counted(file, h) ==
    {i \in DOMAIN file :
        /\ file[i].height = h
        /\ \A k \in 1..(i - 1) :
            file[k].height = h => file[k].witness # file[i].witness}

\* A known witness's own MAC, for the hash the record has when it is recomputed.
Agrees(config, line, actual) ==
    /\ line.witness \in Range(config.witnesses)
    /\ line.mac = Mac(line.witness, line.height, line.hash)
    /\ line.height \in DOMAIN actual /\ line.hash = actual[line.height]

\* verify: the chain is sound, and every attested height has its quorum.
\* actual maps the heights of the chain to the recomputed hashes.
QuorumVerify(config, chainOk, actual, file) ==
    /\ chainOk
    /\ \A h \in Heights(file) :
        Cardinality({i \in Counted(file, h) : Agrees(config, file[i], actual)})
            >= config.quorum
=============================================================================
