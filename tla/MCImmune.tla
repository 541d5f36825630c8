------------------------------- MODULE MCImmune -------------------------------
(* Instances of the immune system for TLC: words are numbers. *)
EXTENDS Immune
Attack == {1, 2, 3}         \* an input the lexicon does not know ...
Deceit == {3, 4, 5, 6}      \* ... and a reply that breaches the covenant
MCBreaches == {6}
MCTwoTexts  == {Attack, Deceit}
=============================================================================
