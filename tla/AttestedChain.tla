---------------------------- MODULE AttestedChain ----------------------------
(***************************************************************************)
(* What a quorum of witnesses (Attestation) adds to the chain's own verify *)
(* (Timechain): a history with the signing key's signatures and all links  *)
(* in place can still be told from the one that was attested.              *)
(***************************************************************************)
EXTENDS Timechain, Attestation

\* init without arguments
Config == [witnesses |-> <<"w0", "w1", "w2">>, quorum |-> 2]

\* verify's map from the heights to the records
At(rows, i) == CHOOSE r \in rows : r.idx = i

\* recompute_record_hash
Actual(rows) ==
    [i \in {r.idx : r \in rows} |->
        LET r == At(rows, i) IN <<r.idx, r.prior, r.type, r.target>>]

\* The file after the records at these heights were attested, one after the other.
Attested(config, heights, actual) ==
    LET file[n \in 0..Len(heights)] ==
            IF n = 0 THEN <<>>
            ELSE Attest(config, file[n - 1], heights[n], actual[heights[n]])
    IN  file[Len(heights)]

Faults == {"none", "broken", "equivocates"}

\* The lines of one witness become what its fault says: it has lost its key, or
\* attests another history.
Turned(line, faulty, fault, other) ==
    IF line.witness # faulty THEN line
    ELSE CASE fault = "none" -> line
           [] fault = "broken" -> [line EXCEPT !.mac = <<>>]
           [] fault = "equivocates" -> Line(faulty, line.height, other[line.height])

WithFault(file, faulty, fault, other) ==
    [i \in DOMAIN file |-> Turned(file[i], faulty, fault, other)]

\* The chain rewritten from index i on by somebody who has the signing key.
Rewritten(rows, i, type) ==
    LET last == Cardinality(rows) - 1
        row[k \in i..last] ==
            Record(k, IF k = i THEN At(rows, i).prior ELSE row[k - 1].hash,
                   IF k = i THEN type ELSE At(rows, k).type, At(rows, k).target)
    IN  {r \in rows : r.idx < i} \cup {row[k] : k \in i..last}

OtherType(type) == IF type = "plain" THEN "recovery" ELSE "plain"

\* The chain without what follows index i, and without the record at i.
Truncated(rows, i) == {r \in rows : r.idx < i}

\* Up to so many heights are attested, or one height so many times.
MaxAttested == 2

\* A witness may fail, or attest another history, without effect: what was
\* attested verifies.  And a history in which a record at or below an attested
\* height was changed, or from which the records from there on were removed, does
\* not, although it is signed and linked as it must be and passes the chain's own
\* verify (Quorum.verify: "at every attested head").
QuorumPinsHistory ==
    edits = 0 /\ db.rows # {} /\ (\A c \in Connections : conn[c] = Idle) =>
        LET last == Cardinality(db.rows) - 1 IN
        \A n \in 1..MaxAttested : \A heights \in [1..n -> 0..last] :
        \A faulty \in Range(Config.witnesses), fault \in Faults, i \in 0..last :
            LET forged == Rewritten(db.rows, i, OtherType(At(db.rows, i).type))
                file == WithFault(Attested(Config, heights, Actual(db.rows)),
                                  faulty, fault, Actual(forged))
            IN
            /\ QuorumVerify(Config, Verify(db.rows), Actual(db.rows), file)
            /\ \A other \in {forged, Truncated(db.rows, i)} :
                /\ Verify(other)
                /\ QuorumVerify(Config, Verify(other), Actual(other), file)
                     <=> \A k \in 1..n : heights[k] < i
=============================================================================
