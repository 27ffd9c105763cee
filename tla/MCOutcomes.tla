----------------------------- MODULE MCOutcomes -----------------------------
(* Outcomes for TLC: it has no constants, and its state space is finite.   *)
EXTENDS Outcomes, TLC
=============================================================================
