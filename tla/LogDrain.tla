------------------------------ MODULE LogDrain ------------------------------
(***************************************************************************)
(* What a log poller (internal/logs/poll.go, cursor.go) promises, with no  *)
(* page, queue, clock or timestamp: it delivers a growing log to every     *)
(* sink at least once.  A position counts, for every kind of line, how     *)
(* many of them are behind it; it moves only past what every sink took,    *)
(* is saved now and then, and a restart goes on from the saved one.  Lines *)
(* may be given up (a gap that is logged), and then no position counts     *)
(* them.  A source that is retired is left when what it is due has been    *)
(* delivered.                                                              *)
(***************************************************************************)
EXTENDS Integers

CONSTANTS
    Sinks,
    Lines,  \* the kinds of lines: identical lines are of one kind
    Scope,  \* those that are delivered
    None

VARIABLES
    log,       \* how many lines of each kind the source has
    given,     \* the kinds that are given up
    sent,      \* per sink, how many of each kind it took
    position,  \* of the running poller, or None
    saved,     \* the position a restart goes on from, or None
    retired,   \* the source has been replaced
    due,       \* what it has to deliver before it is left
    ended      \* the source has been left

vars == <<log, given, sent, position, saved, retired, due, ended>>

Init ==
    /\ log = [l \in Lines |-> 0] /\ given = {}
    /\ sent = [s \in Sinks |-> [l \in Lines |-> 0]]
    /\ position = None /\ saved = None
    /\ retired = FALSE /\ due = {} /\ ended = FALSE

Owed == Scope \ given

\* a is as far as b.
Past(a, b) == \A l \in Lines : a[l] >= b[l]

\* Position p without what is not owed.
Only(p, owed) ==
    IF p = None THEN None ELSE [l \in Lines |-> IF l \in owed THEN p[l] ELSE 0]

\* A line is logged: never behind a position, and for a source that has been left
\* only if it was not due, or is given up.
Log(l) ==
    /\ log'[l] = log[l] + 1
    /\ \A k \in Lines \ {l} : log'[k] = log[k]
    /\ ended /\ l \in due => l \notin Owed
    /\ UNCHANGED <<given, sent, position, saved, retired, due, ended>>

\* A sink takes lines that were logged and are in scope.
Deliver(s) ==
    /\ Past(sent'[s], sent[s])
    /\ \A l \in Lines : sent'[s][l] > sent[s][l] => l \in Scope /\ log[l] > 0
    /\ \A r \in Sinks \ {s} : sent'[r] = sent[r]
    /\ UNCHANGED <<log, given, position, saved, retired, due, ended>>

\* The poller starts where the saved position is, or anew: then what it does not
\* look at is given up.
Start ==
    /\ position = None /\ position' # None
    /\ IF saved # None
       THEN position' = saved /\ given' = given
       ELSE /\ position' = [l \in Lines |-> 0]
            /\ given \subseteq given'
    /\ UNCHANGED <<log, sent, saved, retired, due, ended>>

\* The position moves past lines that every sink took, and may be saved or, when
\* it is too old to keep, dropped.
Move ==
    /\ position # None /\ position' # None /\ ~ended
    /\ Past(position', position)
    /\ Past(log, position')
    /\ \A s \in Sinks : Past(sent[s], position')
    /\ saved' \in {saved, position', None}
    /\ UNCHANGED <<log, given, sent, retired, due, ended>>

\* Lines are given up: the poller is too far behind, or stuck.
Skip ==
    /\ position # None /\ ~ended
    /\ given \subseteq given'
    /\ position' = Only(position, Scope \ given')
    /\ saved' = Only(saved, Scope \ given')
    /\ UNCHANGED <<log, sent, retired, due, ended>>

\* The source has been replaced: from now on it is due what it has logged before.
Retire ==
    /\ ~retired /\ position # None
    /\ retired' = TRUE /\ due' \subseteq Lines
    /\ UNCHANGED <<log, given, sent, position, saved, ended>>

\* The poller of a retired source stops: all that was due is behind it.
End ==
    /\ position # None /\ retired /\ ~ended
    /\ \A l \in due \cap Owed : position[l] = log[l]
    /\ ended' = TRUE
    /\ saved' \in {saved, None}
    /\ UNCHANGED <<log, given, sent, position, retired, due>>

\* The process dies.
Crash ==
    /\ position # None /\ ~ended
    /\ position' = None
    /\ UNCHANGED <<log, given, sent, saved, retired, due, ended>>

Next ==
    \/ Start \/ Move \/ Skip \/ Retire \/ End \/ Crash
    \/ \E l \in Lines : Log(l)
    \/ \E s \in Sinks : Deliver(s)

Spec == Init /\ [][Next]_vars

=============================================================================
