------------------------------ MODULE LineSeqs ------------------------------
(***************************************************************************)
(* Sequences of log lines: how often one holds a line, and which of its    *)
(* places a filter keeps.  Both are stated by counting rather than by      *)
(* recursion, so that LineSeqProofs can prove what the log modules need.   *)
(***************************************************************************)
EXTENDS Integers, Sequences, FiniteSets

\* How often s holds l.
Count(s, l) == Cardinality({i \in DOMAIN s : s[i] = l})

\* s with x put behind its n-th line.
PutBehind(s, n, x) == SubSeq(s, 1, n) \o <<x>> \o SubSeq(s, n + 1, Len(s))

\* The numbers of the finite set W in increasing order: the k-th is the one
\* with k numbers of W up to it.
Ordered(W) ==
    [k \in 1..Cardinality(W) |->
        CHOOSE i \in W : Cardinality({j \in W : j <= i}) = k]

=============================================================================
