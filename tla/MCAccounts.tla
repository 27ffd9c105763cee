----------------------------- MODULE MCAccounts -----------------------------
(* Accounts for TLC: the sets of the configurations hold model values, and *)
(* the goroutines, ids and passwords are interchangeable.                  *)
EXTENDS Accounts, TLC

Symmetry == UNION {Permutations(S) :
                     S \in {Password, AccountID, SessionID, Call, Task}}
=============================================================================
