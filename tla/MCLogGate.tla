----------------------------- MODULE MCLogGate -----------------------------
(* Instances of LogGate for TLC. *)
EXTENDS LogGate
=============================================================================
