------------------------------- MODULE Merkle --------------------------------
(***************************************************************************)
(* Merkle roots and inclusion proofs (chain.py), with the last node of an  *)
(* odd layer doubled.  The hash of two nodes is the pair of them.          *)
(***************************************************************************)
EXTENDS Naturals, Sequences

Even(layer) ==
    IF Len(layer) > 1 /\ Len(layer) % 2 = 1
      THEN Append(layer, layer[Len(layer)]) ELSE layer

Up(layer) == LET e == Even(layer) IN
    [i \in 1..(Len(e) \div 2) |-> <<e[2 * i - 1], e[2 * i]>>]

\* The layers on the way up, and the first that is not longer than one node.
Layers(leaves) ==
    LET layer[k \in 0..Len(leaves)] ==
            IF k = 0 THEN leaves ELSE Up(layer[k - 1])
    IN  layer

Height(leaves) ==
    CHOOSE h \in 0..Len(leaves) :
        /\ Len(Layers(leaves)[h]) <= 1
        /\ \A k \in 0..(h - 1) : Len(Layers(leaves)[k]) > 1

MerkleRoot(leaves) == Layers(leaves)[Height(leaves)][1]

\* The position of the target on each layer, from 0.
Positions(target, height) ==
    LET at[k \in 0..height] == IF k = 0 THEN target ELSE at[k - 1] \div 2
    IN  at

\* Mutant: the sibling of an even position is looked up before the doubling.
MerkleProofShort(leaves, target) ==
    [k \in 1..Height(leaves) |->
        LET layer == Layers(leaves)[k - 1]
            i == Positions(target, Height(leaves))[k - 1]
        IN  IF i % 2 = 0
              THEN <<"R", IF i + 2 \in DOMAIN layer THEN layer[i + 2] ELSE layer[1]>>
              ELSE <<"L", layer[i]>>]

\* The side and the sibling on each layer on the way up.
MerkleProof(leaves, target) ==
    [k \in 1..Height(leaves) |->
        LET layer == Even(Layers(leaves)[k - 1])
            i == Positions(target, Height(leaves))[k - 1]
        IN  IF i % 2 = 0 THEN <<"R", layer[i + 2]>> ELSE <<"L", layer[i]>>]

VerifyMerkleProof(leaf, proof, root) ==
    LET h[k \in 0..Len(proof)] ==
            IF k = 0 THEN leaf
            ELSE IF proof[k][1] = "L" THEN <<proof[k][2], h[k - 1]>>
                                      ELSE <<h[k - 1], proof[k][2]>>
    IN  h[Len(proof)] = root
=============================================================================
