----------------------------- MODULE MCSessions -----------------------------
(* Sessions for TLC: the sets of the configurations hold model values, and *)
(* the goroutines, ids, accounts and machines are interchangeable.         *)
EXTENDS Sessions, TLC

Symmetry == UNION {Permutations(S) :
                     S \in {SessionID, AccountID, MachineID, Call, Task}}
=============================================================================
