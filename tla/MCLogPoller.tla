---------------------------- MODULE MCLogPoller ----------------------------
(* Instances of LogPoller for TLC. *)
EXTENDS LogPoller, TLC

\* Sinks are interchangeable.
SinkSymmetry == Permutations(Sinks)

=============================================================================
