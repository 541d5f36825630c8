------------------------------ MODULE Quality ------------------------------
(***************************************************************************)
(* Proof-of-Quality: which detectors read a text, what their signals and   *)
(* the retrieved records make of an answer, what the record of the turn    *)
(* may be used for and whether the answer may be said (signals.py,         *)
(* poq.py).                                                                *)
(*                                                                         *)
(* What is counted in a text (overlaps, words, markers) comes as numbers.  *)
(* Scores are in hundredths and brightness in ten-thousandths, rounded     *)
(* down where the program has floats.                                      *)
(***************************************************************************)
EXTENDS Integers, Sequences, FiniteSets, SequencesExt

(***************************************************************************)
(* Detectors and their routing.                                            *)
(***************************************************************************)
Modalities ==
  <<"intent", "coherence", "temporal_span", "archetype", "clarity_weather", "belief_shift",
    "vulnerability", "abstraction_balance", "threshold", "convergence", "metacognition",
    "integrity_field", "artifact_content">>

Senses ==
  <<"emotional_contour", "topic_mass", "resolution", "density", "question_pressure",
    "contradiction", "trust_resonance", "context_echo", "memory_relevance", "uncertainty",
    "injection_scan", "insight_markers", "cognitive_weather", "symbolic_density",
    "buildup_pressure", "self_reference_depth", "temporal_orientation">>

\* detectors that run whatever the text is about
MandatoryModalities == {"integrity_field", "coherence", "intent", "vulnerability", "artifact_content"}

\* MUTANT of MandatorySenses: a detector that scoring reads may be routed away.
SensesWithoutContradiction ==
  {"injection_scan", "uncertainty", "memory_relevance", "trust_resonance", "topic_mass"}

MandatorySenses ==
  {"injection_scan", "contradiction", "uncertainty", "memory_relevance", "trust_resonance", "topic_mass"}

\* A detector that a word of the text calls for comes before one that none does, and
\* otherwise the first in the registry.
Preferred(registry, called, i, j) ==
  IF (registry[i] \in called) = (registry[j] \in called) THEN i < j ELSE registry[i] \in called

\* The detectors that run: the mandatory ones, and the others while the budget lasts.
Route(registry, mandatory, called, budget) ==
  LET optional == {i \in DOMAIN registry : registry[i] \notin mandatory}
      chosen   == {i \in optional :
                     Cardinality({j \in optional : Preferred(registry, called, j, i)}) < budget}
  IN {registry[i] : i \in (DOMAIN registry \ optional) \cup chosen}

\* What analyze makes of a text.  A detector that raises is skipped, and what it would
\* have measured is neutral.
Report(text, route) ==
  LET ran == (IF route
              THEN Route(Modalities, MandatoryModalities, text.called, 3)
                     \cup Route(Senses, MandatorySenses, text.called, 4)
              ELSE ToSet(Modalities) \cup ToSet(Senses))
             \ text.broken
      axis(name, value, neutral) == IF name \in ran THEN value ELSE neutral
  IN [coherence     |-> axis("coherence", text.coherence, 50),
      contradiction |-> axis("contradiction", text.contradiction, 0),
      risk          |-> axis("integrity_field", text.tension, 0),
      alert         |-> \/ "integrity_field" \in ran /\ text.tension > 0
                        \/ "injection_scan" \in ran /\ text.tagged]

(***************************************************************************)
(* The dimensions of an answer.  retrieved is the set of the records in    *)
(* context, each with its overlap with the answer and its epistemic class. *)
(***************************************************************************)
Clamp(x, low, high) == Max({low, Min({high, x})})

Relevance(answer) == Clamp(((40 * answer.similar + 60 * answer.covered) * 14) \div 1000, 25, 100)

Best(retrieved) == Max({0} \cup {r.overlap : r \in retrieved})

\* neutral where there is nothing to be consistent with
Continuity(answer, retrieved) ==
  IF retrieved = {} \/ answer.words = 0 THEN 60 ELSE Clamp(50 + Best(retrieved), 40, 100)

Usefulness(answer) ==
  IF answer.words = 0 THEN 0
  ELSE IF answer.filler /\ answer.words < 8 THEN 15
  ELSE Clamp((55 * Min({60, answer.words})) \div 60 + (45 * answer.distinct) \div answer.words, 20, 100)

CovenantAlignment(answer, covenant) ==
  IF ~covenant THEN 80 ELSE IF answer.flagged THEN 20 ELSE 85

\* how serious it is to contradict a record
Authority(class) ==
  CASE class \in {"known", "user_context"} -> 100
    [] class = "speculative"               -> 25
    [] class = "disputed"                  -> 20
    [] OTHER                               -> 50

\* Only records the answer is about count; capped, as contradiction is no attack.
ContradictionRisk(contradiction, retrieved) ==
  Min({50, Max({0} \cup {(contradiction * r.overlap * Authority(r.class)) \div 10000 :
                           r \in {s \in retrieved : s.overlap >= 12}})})

Grounding(answer, retrieved) ==
  IF answer.words = 0 \/ retrieved = {} THEN 50 ELSE (100 * answer.backed) \div answer.words

Assertiveness(answer) == (100 * answer.asserts) \div (answer.asserts + answer.hedges + 1)

\* 85 is the trust in what the user says
Brightness(answer, report, retrieved, covenant, risk) ==
  Clamp(25 * Relevance(answer) + 20 * report.coherence + 20 * Continuity(answer, retrieved)
          + 15 * Usefulness(answer) + 10 * 85 + 10 * CovenantAlignment(answer, covenant)
          - 60 * risk, 0, 10000)

(***************************************************************************)
(* The two decisions.                                                      *)
(***************************************************************************)
CommitThreshold == 5500

\* what the record of the turn may be used for
Decide(brightness, alert) ==
  IF brightness >= CommitThreshold THEN "commit"
  ELSE IF alert THEN "quarantine"
  ELSE "light_log"

Verdicts == {"seal", "revise", "force_uncertainty", "reject"}

\* whether an enforcing agent says the answer
Verdict(brightness, covenant, consistency, grounding, assertiveness) ==
  IF covenant < 55 \/ consistency < 45 THEN "reject"
  ELSE IF grounding < 25 /\ assertiveness > 60 THEN "force_uncertainty"
  ELSE IF brightness < CommitThreshold THEN "revise"
  ELSE "seal"

\* judged is the verdict of a model that acts as the judge, "none" without one.
Evaluate(input, answer, retrieved, covenant, route, judged) ==
  LET said   == Report(answer.text, route)
      asked  == Report(input, route)
      risk   == Max({said.risk, asked.risk, ContradictionRisk(said.contradiction, retrieved)})
      bright == Brightness(answer, said, retrieved, covenant, risk)
      alert  == said.alert \/ asked.alert
  IN [brightness |-> bright, alert |-> alert, action |-> Decide(bright, alert),
      verdict |-> IF judged \in Verdicts THEN judged
                  ELSE Verdict(bright, CovenantAlignment(answer, covenant), Continuity(answer, retrieved),
                               Grounding(answer, retrieved), Assertiveness(answer))]
=============================================================================
