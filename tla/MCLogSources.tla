----------------------------- MODULE MCLogSources -----------------------------
(* Instances of LogSources for TLC. *)
EXTENDS LogSources

===============================================================================
