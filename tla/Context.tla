------------------------------ MODULE Context ------------------------------
(***************************************************************************)
(* What a turn gets to read: the blend of search hits, recent records and  *)
(* records the user named, the corrections and the other halves of old     *)
(* turn pairs that are pulled in, the quarantine filter, and the cut that  *)
(* fits the rest into the prompt (retrieval.py, agent.py,                  *)
(* protected_zones.py, metadata.py).                                       *)
(*                                                                         *)
(* A chain is a sequence of records; the record at position p has index    *)
(* p - 1 in the program.  Scores are floats over texts and are not         *)
(* modelled: the index may return any records it holds, in any order.      *)
(***************************************************************************)
EXTENDS Integers, Sequences, FiniteSets, SequencesExt

Private == "private"
Summary == "summary"
Quarantine == "quarantine"

Unset == -1

ProtectedTypes == {"genesis", "system_prompt", "principle"}

DefaultExposure(type) == IF type \in {"genesis", "system_prompt"} THEN Summary ELSE Private

\* hundredths of the salience a record of the type gets when nobody says otherwise
DefaultSalience(type) ==
  CASE type = "reflection"    -> 85
    [] type = "revision"      -> 80
    [] type = "synthesis"     -> 80
    [] type = "genesis"       -> 75
    [] type = "system_prompt" -> 55
    [] OTHER                  -> 40

\* The metadata of a new record: fields the writer leaves out get the defaults of
\* the type.  exposure is "none" and salience Unset where
\* the writer says nothing.
BuildMeta(type, exposure, salience) ==
  [exposure |-> IF exposure = "none" THEN DefaultExposure(type) ELSE exposure,
   salience |-> IF salience = Unset THEN DefaultSalience(type) ELSE salience]

\* A record without metadata, from before it existed, is read with the same defaults.
ReadMeta(rec) ==
  IF "meta" \in DOMAIN rec THEN rec.meta ELSE BuildMeta(rec.type, "none", Unset)

IsQuarantined(rec) == ReadMeta(rec).exposure = Quarantine

IsProtected(rec) == rec.type \in ProtectedTypes \/ ReadMeta(rec).exposure = Summary

CanRevise(rec) == ~IsProtected(rec)

Quarantined(chain) == {p \in DOMAIN chain : IsQuarantined(chain[p])}

Superseded(chain) == {chain[p].supersedes : p \in {q \in DOMAIN chain : chain[q].type = "revision"}} \cap DOMAIN chain

RevisionsTargeting(chain, ps) == {p \in DOMAIN chain : chain[p].type = "revision" /\ chain[p].supersedes \in ps}

(***************************************************************************)
(* Retrieval.                                                              *)
(***************************************************************************)

\* The k best of the records the embedding index found: any of them, as scores are
\* not modelled, but k of them if it found that many.
Hybrid(found, k) ==
  {hits \in SUBSET found : Cardinality(hits) = IF Cardinality(found) < k THEN Cardinality(found) ELSE k}

Recent(chain, n) == {p \in DOMAIN chain : p > Len(chain) - n}

\* Of the indices the question names, those the chain has.
Named(chain, indices) == {i + 1 : i \in {j \in indices : j >= 0 /\ j < Len(chain)}}

\* The other half of a question and its answer, sealed as two records by old
\* versions: the neighbour of the other type, if the answer refers to the question.
Partner(chain, p) ==
  LET answers(q, a) == /\ a \in DOMAIN chain /\ q \in DOMAIN chain
                       /\ chain[q].type = "observation"
                       /\ chain[a].type = "response"
                       /\ q \in chain[a].refs
  IN IF chain[p].type = "observation"
     THEN IF answers(p, p + 1) THEN {p + 1} ELSE {}
     ELSE IF chain[p].type = "response" /\ ~chain[p].whole /\ answers(p - 1, p) THEN {p - 1} ELSE {}

\* Everything pulled in beside what was found; nothing quarantined is a partner.
Stitched(chain, merged) ==
  {q \in UNION {Partner(chain, p) : p \in merged} : q \notin merged /\ ~IsQuarantined(chain[q])}

DropQuarantined(chain, ps) == {p \in ps : ~IsQuarantined(chain[p])}

\* MUTANT of BuildContext: records the user named are added after the filter.
BuildContextNamedLast(chain, hits, n_recent, indices) ==
  LET named    == Named(chain, indices)
      found    == hits \cup Recent(chain, n_recent)
      merged   == found \cup RevisionsTargeting(chain, found \cup named)
      stitched == Stitched(chain, merged)
      all      == merged \cup stitched
  IN [retrieved |-> DropQuarantined(chain, all) \cup named,
      pinned    |-> named \cup stitched,
      hidden    |-> all \ DropQuarantined(chain, all)]

\* MUTANT of BuildContext: the corrections are pulled in before the records the user named.
BuildContextRevisionsFirst(chain, hits, n_recent, indices) ==
  LET named    == Named(chain, indices)
      found    == hits \cup Recent(chain, n_recent)
      merged   == found \cup RevisionsTargeting(chain, found) \cup named
      stitched == Stitched(chain, merged)
      all      == merged \cup stitched
  IN [retrieved |-> DropQuarantined(chain, all),
      pinned    |-> named \cup stitched,
      hidden    |-> all \ DropQuarantined(chain, all)]

\* retrieved: what the prompt may show; pinned: what must not lose to salience;
\* hidden: what was found and filtered out, of which the prompt names only the index.
BuildContext(chain, hits, n_recent, indices) ==
  LET named    == Named(chain, indices)
      found    == hits \cup Recent(chain, n_recent) \cup named
      merged   == found \cup RevisionsTargeting(chain, found)
      stitched == Stitched(chain, merged)
      halves   == {p \in merged : Partner(chain, p) \cap stitched # {}}
      all      == merged \cup stitched
  IN [retrieved |-> DropQuarantined(chain, all),
      pinned    |-> named \cup stitched \cup halves,
      hidden    |-> all \ DropQuarantined(chain, all)]

(***************************************************************************)
(* The cut to the prompt's budget.                                         *)
(***************************************************************************)

\* pinned before unpinned, then the more salient, then the newer
Outranks(chain, pinned, p, q) ==
  LET salience(r) == ReadMeta(chain[r]).salience
      pin(r)      == r \in pinned
  IN \/ pin(p) /\ ~pin(q)
     \/ /\ pin(p) = pin(q)
        /\ \/ salience(p) > salience(q)
           \/ salience(p) = salience(q) /\ p > q

Size(chain, ps) == MapThenSumSet(LAMBDA p : chain[p].size, ps)

\* the place of a record in the order the cut goes through
Rank(chain, ps, pinned, p) == Cardinality({q \in ps : Outranks(chain, pinned, q, p)}) + 1

\* MUTANT of Taken: the first record that does not fit ends the list.
TakenInARow(chain, ps, pinned, budget, kept, n) ==
  {p \in ps : /\ Rank(chain, ps, pinned, p) = n
              /\ Cardinality(kept) = n - 1
              /\ n = 1 \/ Size(chain, kept \cup {p}) =< budget}

\* The record of rank n, if it fits beside those kept; the first is kept even where it
\* does not fit.
Taken(chain, ps, pinned, budget, kept, n) ==
  {p \in ps : /\ Rank(chain, ps, pinned, p) = n
              /\ n = 1 \/ Size(chain, kept \cup {p}) =< budget}

\* what is kept of the n best records, in order of rank
Greedy(chain, ps, pinned, budget) ==
  LET kept[n \in 0 .. Cardinality(ps)] ==
        IF n = 0 THEN {} ELSE kept[n - 1] \cup Taken(chain, ps, pinned, budget, kept[n - 1], n)
  IN kept

TruncateToBudget(chain, ps, pinned, budget) ==
  IF Size(chain, ps) =< budget THEN ps ELSE Greedy(chain, ps, pinned, budget)[Cardinality(ps)]

\* What the cut may cost: the best record is kept however long it is, another one goes
\* only if it does not fit beside the better ones that stay, and one that is pinned
\* never yields to one that is not.
LosesLittle(chain, ps, pinned, budget) ==
  LET kept      == TruncateToBudget(chain, ps, pinned, budget)
      better(p) == {q \in kept : Outranks(chain, pinned, q, p)}
  IN /\ \E p \in kept : \A q \in ps \ {p} : Outranks(chain, pinned, p, q)
     /\ Size(chain, kept) =< budget \/ Cardinality(kept) = 1
     /\ \A p \in ps \ kept :
          /\ ~(Size(chain, better(p) \cup {p}) =< budget)
          /\ p \in pinned => better(p) \subseteq pinned

(***************************************************************************)
(* Schema-level consistency of a chain, the part that is about revisions   *)
(* and reflections (verify_semantic).                                      *)
(***************************************************************************)
VerifySemantic(chain) ==
  \A p \in DOMAIN chain :
    /\ chain[p].type = "revision" => chain[p].supersedes \in DOMAIN chain
    /\ chain[p].type = "reflection" =>
         /\ chain[p].covers[1] \in DOMAIN chain
         /\ chain[p].covers[2] \in DOMAIN chain
         /\ chain[p].covers[1] =< chain[p].covers[2]
=============================================================================
