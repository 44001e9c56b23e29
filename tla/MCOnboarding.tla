---------------------------- MODULE MCOnboarding ----------------------------
(* Instances of Onboarding for TLC: one need stands for the three, which   *)
(* differ in the table that is counted.                                    *)
EXTENDS Onboarding, TLC

MCNeed == <<"products">>

DocsAndCalls == Permutations(Doc) \cup Permutations(Call)
=============================================================================
