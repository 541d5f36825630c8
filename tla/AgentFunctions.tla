--------------------------- MODULE AgentFunctions ---------------------------
(***************************************************************************)
(* What must hold of the functions that a turn rests on, Proof-of-Quality  *)
(* (Quality), and of those by which agents share what they know (Capsule), *)
(* with inputs to check it of.                                             *)
(***************************************************************************)
EXTENDS AgentTurn, Capsule

(***************************************************************************)
(* Texts and answers to score.                                             *)
(***************************************************************************)
Plain == [coherence |-> 80, contradiction |-> 0, tension |-> 0, tagged |-> FALSE, called |-> {}, broken |-> {}]

Texts == [coherence : {80}, contradiction : {0, 100}, tension : {0, 34, 100}, tagged : BOOLEAN,
          called : {{}}, broken : {{}}]

Inputs == {[Plain EXCEPT !.tension = t] : t \in {0, 68}}

Replies == {[text |-> text, similar |-> on, covered |-> on, words |-> w, distinct |-> w, backed |-> b,
             filler |-> w < 8, flagged |-> f, asserts |-> a, hedges |-> 1] :
              text \in Texts, on \in {0, 50, 100}, w \in {0, 5, 60}, b \in {0, 5},
              f \in BOOLEAN, a \in {0, 4}}

Wordy == [text |-> Plain, similar |-> 50, covered |-> 50, words |-> 60, distinct |-> 40, backed |-> 5,
          filler |-> FALSE, flagged |-> FALSE, asserts |-> 4, hedges |-> 1]

Contexts == {{}, {[overlap |-> 0, class |-> "inferred"]},
             {[overlap |-> 60, class |-> "known"], [overlap |-> 20, class |-> "disputed"]}}

\* texts that call for any optional detectors, and on which some detectors raise
Calling ==
  {[Plain EXCEPT !.called = called, !.broken = broken, !.contradiction = 100, !.tension = 34, !.tagged = TRUE] :
     called \in SUBSET (ToSet(Modalities) \ MandatoryModalities)
                  \cup SUBSET (ToSet(Senses) \ MandatorySenses),
     broken \in {{}, {"contradiction", "archetype"}}}

Suspicious(text) == text.tension > 0 \/ text.tagged

\* The two decisions about an answer agree: what may be sealed as it is is committed as
\* ordinary memory, what has to be revised is not, and only an alert, never a
\* contradiction, quarantines.  An agent without memory is not told that it has no ground
\* in it.  None of it depends on which optional detectors run, on which words call for
\* them, or on detectors that raise (MANDATORY_MODALITIES, MANDATORY_SENSES, _decide,
\* _verdict, measure_grounding).
GatesAgree ==
  FirstState =>
    /\ \A input \in Inputs, reply \in Replies, context \in Contexts, covenant \in BOOLEAN :
         LET e == Evaluate(input, reply, context, covenant, TRUE, "none")
         IN /\ e.verdict = "seal" => e.action = "commit"
            /\ e.verdict = "revise" => e.action # "commit"
            /\ e.action = "quarantine" => Suspicious(input) \/ Suspicious(reply.text)
            /\ e.verdict = "force_uncertainty" => context # {}
    /\ \A text \in Calling, context \in Contexts :
         LET reply == [Wordy EXCEPT !.text = text]
         IN Evaluate(text, reply, context, TRUE, TRUE, "none")
              = Evaluate(text, reply, context, TRUE, FALSE, "none")

(***************************************************************************)
(* Capsules from agent "A" to agent "B".                                   *)
(***************************************************************************)
Content(title, exposure, class) ==
  [title |-> title, text |-> "told", tags |-> IF title = None THEN {} ELSE {title},
   meta |-> [exposure |-> exposure, salience |-> IF title = None THEN 40 ELSE 85, class |-> class]]

Genesis(agent) == Sealed(<<>>, agent, "genesis", Content("name", Summary, "known"))

\* a genesis, any record, and one that is shared
Origin(title, exposure, class) ==
  LET second == Append(<<Genesis("A")>>, Sealed(<<Genesis("A")>>, "A", "response", Content(title, exposure, class)))
  IN Append(second, Sealed(second, "A", "reflection", Content("view", Shared, "inferred")))

OriginChains ==
  {Origin(title, exposure, class) :
     title \in {None, "note"}, exposure \in {Private, Summary, Shared, Public, Quarantine},
     class \in ToSet(EpistemicStrength)}

All == [type |-> None, salience |-> 0, after |-> 0, before |-> 9, tags |-> {}]

Filters == {All, [All EXCEPT !.type = "response"], [All EXCEPT !.salience = 50],
            [All EXCEPT !.after = 1, !.before = 2], [All EXCEPT !.tags = {"note"}]}

\* what may happen to one field or one record of a capsule on its way
Changed(r) ==
  {[r EXCEPT !.body.text = "altered"], [r EXCEPT !.type = "other"], [r EXCEPT !.index = @ + 1],
   [r EXCEPT !.time = @ + 1], [r EXCEPT !.class = "known"], [r EXCEPT !.exposure = Public],
   [r EXCEPT !.redacted = ~@], [r EXCEPT !.commitment = <<>>], [r EXCEPT !.agent = "C"]}

Altered(capsule) ==
  {capsule, [capsule EXCEPT !.header.title = "altered"], [capsule EXCEPT !.header.origin = "C"],
   [capsule EXCEPT !.records = Reverse(@)], [capsule EXCEPT !.records = @ \o <<Last(@)>>]}
  \cup {[capsule EXCEPT !.records = RemoveAt(@, k)] : k \in DOMAIN capsule.records}
  \cup UNION {{[capsule EXCEPT !.records = ReplaceAt(@, k, r)] : r \in Changed(capsule.records[k])} :
                k \in DOMAIN capsule.records}

\* A capsule tells what its origin chose to share: nothing private or quarantined is in
\* it, and no text of a record that is for summaries only.  Whatever is changed on the
\* way, the importing agent takes over every body as the origin endorsed it or nothing at
\* all, once, as another's memory and no ground truth, and passes none of it on
\* (export_capsule, verify_capsule, import_capsule).
OnlyWhatWasShared ==
  FirstState =>
    \A ch \in OriginChains, indices \in {<<0, 1, 2>>, <<2, 1, 5>>, <<1, 1>>}, filter \in Filters :
      LET capsule == ExportCapsule(ch, "A", indices, filter, "title")
          home    == <<Genesis("B")>>
      IN capsule # NoCapsule =>
           /\ \A k \in DOMAIN capsule.records :
                LET exposure == ch[capsule.records[k].index + 1].meta.exposure
                IN /\ exposure \notin {Private, Quarantine}
                   /\ exposure = Summary => capsule.records[k].body.text = None
           /\ \A sent \in Altered(capsule) :
                LET after == ImportCapsule(home, "B", sent)
                    taken == [k \in DOMAIN capsule.records |-> after[k + 1]]
                    every == [k \in DOMAIN after |-> k - 1]
                IN IF after = home THEN sent # capsule
                   ELSE /\ Len(after) = 1 + Len(capsule.records)
                        /\ \A k \in DOMAIN taken :
                             /\ taken[k].agent = "B" /\ taken[k].type = ImportedType
                             /\ taken[k].content.text.origin = "A"
                             /\ taken[k].content.text.body = capsule.records[k].body
                             /\ Strength(taken[k].meta.class) >= Strength(Ceiling)
                        /\ ImportCapsule(after, "B", sent) = after
                        /\ ExportCapsule(after, "B", every, All, "on")
                             = ExportCapsule(home, "B", every, All, "on")
=============================================================================
