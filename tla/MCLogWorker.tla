---------------------------- MODULE MCLogWorker ----------------------------
(* Finite instances of LogWorker.                                          *)
EXTENDS LogWorker

=============================================================================
