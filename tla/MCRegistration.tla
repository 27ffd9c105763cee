--------------------------- MODULE MCRegistration ---------------------------
(* Registration for TLC: the sets of the configurations hold model values, *)
(* and emails, profiles, ids and goroutines are interchangeable.           *)
EXTENDS Registration, TLC

Symmetry == UNION {Permutations(S) : S \in {Email, Profile, AccountID, Call}}
=============================================================================
