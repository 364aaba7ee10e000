----------------------------- MODULE MCOnboarding -----------------------------
(* Instances of Onboarding for TLC. *)
EXTENDS Onboarding, TLC

OneIP    == {11}
TwoIPs   == 11..12
ThreeIPs == 11..13

\* Tokens, keys and sites are interchangeable names.
Symmetry == Permutations(Tokens) \cup Permutations(Keys) \cup Permutations(Sites)
===============================================================================
