---------------------------- MODULE MCLogStreams ----------------------------
(* Instances of LogStreams for TLC. *)
EXTENDS LogStreams
=============================================================================
