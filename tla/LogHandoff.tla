----------------------------- MODULE LogHandoff -----------------------------
(***************************************************************************)
(* What a sink worker (internal/logs/worker.go) promises its callers, with *)
(* no queue, batch, counter or lock: records are handed over in order, are *)
(* settled in that order, each once, as accepted by the sink or dropped,   *)
(* and a poller is told "ok" only about a page that was accepted.  "lost"  *)
(* may be reported for a page that was accepted, never for an open one.    *)
(***************************************************************************)
EXTENDS Naturals

CONSTANT Pollers  \* the callers that ask for a verdict

VARIABLES
    handed,    \* records handed over so far; they are numbered from 1
    pending,   \* records handed over and not settled
    accepted,  \* records the sink took
    dropped,   \* records given up
    page,      \* per poller, the records it handed over since its last verdict
    verdict    \* per poller, "open", "ok" or "lost"

vars == <<handed, pending, accepted, dropped, page, verdict>>

Init ==
    /\ handed = 0
    /\ pending = {} /\ accepted = {} /\ dropped = {}
    /\ page = [p \in Pollers |-> {}]
    /\ verdict = [p \in Pollers |-> "open"]

\* A record is handed over, by a poller with an open page or by a stream.
HandOver ==
    /\ handed' = handed + 1
    /\ pending' = pending \cup {handed + 1}
    /\ \/ page' = page
       \/ \E p \in Pollers :
            /\ verdict[p] = "open"
            /\ page' = [page EXCEPT ![p] = @ \cup {handed + 1}]
    /\ UNCHANGED <<accepted, dropped, verdict>>

\* The oldest pending records, up to r, are settled together.
Settle(r) ==
    LET settled == {s \in pending : s <= r} IN
    /\ pending' = pending \ settled
    /\ \/ accepted' = accepted \cup settled /\ dropped' = dropped
       \/ dropped' = dropped \cup settled /\ accepted' = accepted
    /\ UNCHANGED <<handed, page, verdict>>

\* A poller learns the outcome of its page.
Decide(p) ==
    /\ verdict[p] = "open"
    /\ page[p] \cap pending = {}
    /\ \E v \in {"ok", "lost"} :
          /\ v = "ok" => page[p] \subseteq accepted
          /\ verdict' = [verdict EXCEPT ![p] = v]
    /\ UNCHANGED <<handed, pending, accepted, dropped, page>>

\* A poller starts its next page, or gives an undecided one up and stops.
Renew(p) ==
    /\ verdict' = [verdict EXCEPT ![p] = "open"]
    /\ page' = [page EXCEPT ![p] = {}]
    /\ UNCHANGED <<handed, pending, accepted, dropped>>

Next ==
    \/ HandOver \/ \E r \in pending : Settle(r)
    \/ \E p \in Pollers : Decide(p) \/ Renew(p)

Spec == Init /\ [][Next]_vars

=============================================================================
