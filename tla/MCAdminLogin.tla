---------------------------- MODULE MCAdminLogin ----------------------------
(* Instances of AdminLogin for TLC. *)
EXTENDS AdminLogin, TLC

CONSTANTS r1, r2, a, s1, s2

\* Slots for requests and session ids are interchangeable names.
Symmetry == Permutations(Requests) \cup Permutations(Sessions)
===============================================================================
