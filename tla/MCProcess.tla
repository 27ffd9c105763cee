------------------------------ MODULE MCProcess ------------------------------
(* Process for TLC. Liveness is checked, so there is no symmetry.          *)
EXTENDS Process, TLC
=============================================================================
