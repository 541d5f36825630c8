------------------------------ MODULE Capsule ------------------------------
(***************************************************************************)
(* Experience capsules: the records of one agent's chain that may leave    *)
(* it, as a signed document that another agent verifies and imports        *)
(* (capsule.py).                                                           *)
(*                                                                         *)
(* A hash is what it is computed from, a signature the pair of the signer  *)
(* and what is signed; Merkle roots are those of chain.py.                 *)
(***************************************************************************)
EXTENDS Context, Merkle

None == "none"

Shared == "shared"
Public == "public"

\* from the strongest to the weakest
EpistemicStrength == <<"known", "user_context", "inferred", "speculative", "disputed">>

Ceiling == "inferred"

ImportedType == "imported_capsule"

\* A record's content: a title (None where it has none), a text, tags, and metadata as
\* read_meta gives it.  What an importing agent keeps of a foreign record is a text, too.
\* The time of a record goes by its index.
Sealed(chain, agent, type, content) ==
  LET prior == IF chain = <<>> THEN <<>> ELSE chain[Len(chain)].hash
      hash  == <<Len(chain), prior, Len(chain), type, content, agent>>
  IN [index |-> Len(chain), prior |-> prior, time |-> Len(chain), type |-> type,
      content |-> content, meta |-> content.meta, agent |-> agent,
      hash |-> hash, signature |-> <<agent, hash>>]

(***************************************************************************)
(* Export.                                                                 *)
(***************************************************************************)

\* The title and the metadata; the text is withheld.
Projection(content) == [content EXCEPT !.text = None, !.tags = {}]

\* What a filter asks for: a type, a least salience, a window of time, tags.
Matches(rec, filter) ==
  /\ filter.type \in {None, rec.type}
  /\ rec.meta.salience >= filter.salience
  /\ filter.after =< rec.time /\ rec.time < filter.before
  /\ filter.tags # {} => rec.content.tags \cap filter.tags # {}

Exported(rec) ==
  LET redacted == rec.meta.exposure = Summary
      body     == IF redacted THEN Projection(rec.content) ELSE rec.content
  IN [index |-> rec.index, prior |-> rec.prior, time |-> rec.time, type |-> rec.type,
      body |-> body, agent |-> rec.agent, content_hash |-> rec.content, hash |-> rec.hash,
      signature |-> rec.signature, exposure |-> rec.meta.exposure, class |-> rec.meta.class,
      redacted |-> redacted,
      commitment |-> IF redacted THEN <<rec.agent, <<rec.hash, body>>>> ELSE <<>>]

Hashes(records) == [k \in DOMAIN records |-> records[k].hash]

\* export_capsule raises: there is nothing to share.
NoCapsule == [records |-> <<>>]

MayLeave(rec) == rec.meta.exposure \notin {Private, Quarantine}

Asked(chain, i, filter) ==
  i + 1 \in DOMAIN chain /\ MayLeave(chain[i + 1]) /\ Matches(chain[i + 1], filter)

\* The records named, in the order in which they are named, that may leave and that the
\* filter asks for.
Selected(chain, indices, filter) ==
  LET selected[k \in 0 .. Len(indices)] ==
        IF k = 0 THEN <<>>
        ELSE IF Asked(chain, indices[k], filter)
             THEN Append(selected[k - 1], Exported(chain[indices[k] + 1]))
             ELSE selected[k - 1]
  IN selected[Len(indices)]

ExportCapsule(chain, agent, indices, filter, title) ==
  LET records == Selected(chain, indices, filter)
      header  == [version |-> 2, origin |-> agent, count |-> Len(records),
                  root |-> MerkleRoot(Hashes(records)), title |-> title]
  IN IF records = <<>> THEN NoCapsule
     ELSE [id |-> <<header, Hashes(records)>>, header |-> header, records |-> records]

(***************************************************************************)
(* Verification.                                                           *)
(***************************************************************************)

\* MUTANT of VerifyRecord: summaries are taken on trust, as in version 1 of the format.
VerifyRecordV1(rec, origin) ==
  /\ rec.agent = origin
  /\ rec.signature = <<rec.agent, rec.hash>>
  /\ ~rec.redacted => /\ rec.body = rec.content_hash
                      /\ rec.hash = <<rec.index, rec.prior, rec.time, rec.type, rec.body, rec.agent>>

\* A record in full is checked against its own hash, a summary against the commitment
\* that its origin signed.
VerifyRecord(rec, origin) ==
  /\ rec.agent = origin
  /\ rec.signature = <<rec.agent, rec.hash>>
  /\ IF rec.redacted
     THEN rec.commitment = <<rec.agent, <<rec.hash, rec.body>>>>
     ELSE /\ rec.body = rec.content_hash
          /\ rec.hash = <<rec.index, rec.prior, rec.time, rec.type, rec.body, rec.agent>>
          /\ rec.commitment = <<>>

VerifyCapsule(capsule) ==
  /\ capsule.header.version = 2
  /\ capsule.records # <<>>
  /\ \A k \in DOMAIN capsule.records : VerifyRecord(capsule.records[k], capsule.header.origin)
  /\ capsule.header.root = MerkleRoot(Hashes(capsule.records))
  /\ capsule.id = <<capsule.header, Hashes(capsule.records)>>

(***************************************************************************)
(* Import.                                                                 *)
(***************************************************************************)
Strength(class) == CHOOSE k \in DOMAIN EpistemicStrength : EpistemicStrength[k] = class

\* no stronger than the ceiling
Demoted(class) ==
  IF class \in ToSet(EpistemicStrength) /\ Strength(class) > Strength(Ceiling) THEN class ELSE Ceiling

\* Imported memory does not leave again, and is never ground truth.
ImportedMeta(rec) == [exposure |-> Private, salience |-> 35, class |-> Demoted(rec.class)]

ImportedContent(capsule, rec) ==
  [title |-> None, tags |-> {}, meta |-> ImportedMeta(rec),
   text |-> [capsule |-> capsule.id, origin |-> capsule.header.origin, hash |-> rec.hash,
             redacted |-> rec.redacted, body |-> rec.body]]

\* looked for in the imported records of the chain
AlreadyImported(chain, id) ==
  \E p \in DOMAIN chain : chain[p].type = ImportedType /\ chain[p].content.text.capsule = id

\* One record for each of the capsule's.
WithRecordsOf(chain, agent, capsule) ==
  LET grown[k \in 0 .. Len(capsule.records)] ==
        IF k = 0 THEN chain
        ELSE Append(grown[k - 1], Sealed(grown[k - 1], agent, ImportedType,
                                         ImportedContent(capsule, capsule.records[k])))
  IN grown[Len(capsule.records)]

\* All of them or none.
ImportCapsule(chain, agent, capsule) ==
  IF ~VerifyCapsule(capsule) \/ AlreadyImported(chain, capsule.id) THEN chain
  ELSE WithRecordsOf(chain, agent, capsule)
=============================================================================
