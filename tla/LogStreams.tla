----------------------------- MODULE LogStreams -----------------------------
(***************************************************************************)
(* Subscribe mode (internal/logs/pipeline.go, internal/railway/ws.go and   *)
(* logs.go): an environment's log subscription over graphql-ws, which      *)
(* reconnects and resumes after the newest line it has seen, and the build *)
(* logs, fetched once per deployment behind a semaphore.  The goroutine of *)
(* an HTTP log subscription is the same with another query.  Railway sends *)
(* a subscription any part of what it asks for: subscriptions "deliver     *)
(* only part of the lines" and "cannot catch up after an outage"           *)
(* (README.md:269).                                                        *)
(*                                                                         *)
(* The waits between connections are untimed; Backoff has their lengths.   *)
(* dispatch does not block here (LogWorker has the queues behind it).      *)
(***************************************************************************)
EXTENDS LineSeqs

CONSTANTS
    Builds,     \* the deployments with build logs
    Slots,      \* BuildLogConcurrency
    LogBackfill,  \* lines of history asked for on connect
    NHosts,     \* the number of wsEndpoints
    MaxLines, MaxTs,  \* bounds: the lines, and their instants
    MaxFaults,  \* bound: lost connections and hosts
    None

ASSUME StreamsAssumption ==
    /\ IsFiniteSet(Builds) /\ Slots \in Nat \ {0}
    /\ LogBackfill \in Nat /\ NHosts \in Nat \ {0}
    /\ MaxLines \in Nat /\ MaxTs \in Nat /\ MaxFaults \in Nat

ASSUME NoneAssumption == None \notin Int

Hosts == 1..NHosts
Line == [ts : 1..MaxTs, dated : BOOLEAN]

VARIABLES
    ctx,      \* "live" or "ended"
    listed,   \* what discovery finds: "env" and deployments
    \* the subscription's goroutine
    phase,    \* "off", "dial", "init", "open", "wait" or "gone"
    host,     \* the endpoint that is dialled
    after,    \* the newest datable line's instant, None at first
    build,    \* per deployment: "unseen", "queued", "running", "hung", "tried"
              \* or "left"
    \* Railway and the network
    log,      \* the environment's lines, in the order they arrive
    feed,     \* the lines, by number, that the subscription is yet to send
    silent,   \* the connection is dead, and nobody has said so
    up,       \* the hosts that answer
    faults,
    received  \* history: how often each line was dispatched

stream  == <<phase, host, after, received>>
network == <<log, feed, silent, up, faults>>
vars == <<ctx, listed, stream, build, network>>

Init ==
    /\ ctx = "live" /\ listed = {}
    /\ phase = "off" /\ host = 1 /\ after = None
    /\ build = [b \in Builds |-> "unseen"]
    /\ log = <<>> /\ feed = <<>> /\ silent = FALSE
    /\ up = Hosts /\ faults = MaxFaults
    /\ received = <<>>

-----------------------------------------------------------------------------
(* Discovery and reconcile                                                 *)

Discover(x) ==
    /\ x \notin listed
    /\ listed' = listed \cup {x}
    /\ UNCHANGED <<ctx, stream, build, network>>

\* The deployments that hold a slot of buildSem.
Holding == {b \in Builds : build[b] \in {"running", "hung"}}
Unseen == {b \in listed \cap Builds : build[b] = "unseen"}

\* Faulty variant of ReconcileBuild: the slot is acquired in the loop.
ReconcileBuildAcquires ==
    /\ Cardinality(Holding \cup Unseen) <= Slots
    /\ build' = [b \in Builds |-> IF b \in Unseen THEN "running" ELSE build[b]]

\* reconcileBuild marks a deployment as seen before anything is fetched.
ReconcileBuild ==
    build' = [b \in Builds |-> IF b \in Unseen THEN "queued" ELSE build[b]]

\* A tick of Run: sources without a goroutine get one.
Reconcile ==
    /\ ctx = "live"
    /\ phase' = IF phase = "off" /\ "env" \in listed THEN "dial" ELSE phase
    /\ ReconcileBuild
    /\ UNCHANGED <<ctx, listed, host, after, received, network>>

-----------------------------------------------------------------------------
(* The subscription                                                        *)

\* Stream*Logs has returned, whether or not with an error: a wait, then again.
Disconnect ==
    /\ phase' = "wait" /\ host' = 1
    /\ feed' = <<>> /\ silent' = FALSE
    /\ UNCHANGED <<ctx, listed, after, build, log, received>>

\* dialWS: an endpoint that cannot be reached, and the next one's turn.
DialFails ==
    /\ phase = "dial" /\ host \notin up
    /\ IF host < NHosts
       THEN /\ host' = host + 1
            /\ UNCHANGED <<ctx, listed, phase, after, build, log, feed, silent, received>>
       ELSE Disconnect
    /\ UNCHANGED <<up, faults>>

\* dialWS succeeds, and connection_init goes out.
DialSucceeds ==
    /\ phase = "dial" /\ host \in up
    /\ phase' = "init"
    /\ UNCHANGED <<ctx, listed, host, after, build, network, received>>

\* What a new subscription asks for: what is newer than afterDate (without one,
\* only what is yet to come) and beforeLimit lines of history.
Wanted ==
    {i \in 1..Len(log) : \/ after # None /\ log[i].ts > after
                         \/ i > Len(log) - LogBackfill}

\* What Railway may send of that: any part of it, none of it included.
Resumed == {Ordered(part) : part \in SUBSET Wanted}

\* connection_ack, and the subscribe message.
Acknowledged ==
    /\ phase = "init" /\ ~silent
    /\ phase' = "open" /\ feed' \in Resumed
    /\ UNCHANGED <<ctx, listed, host, after, build, log, silent, up, faults, received>>

\* Faulty variant of AfterOf: the line received last, not the newest.
AfterOfLast(line) == IF line.dated THEN line.ts ELSE after

\* parseTimestamp fails on a line that is not dated; that one counts as
\* received now, and does not move the date to resume after.
AfterOf(line) ==
    IF ~line.dated THEN after
    ELSE IF after = None THEN line.ts
    ELSE IF line.ts > after THEN line.ts ELSE after

\* A "next" message is decoded and its lines are dispatched.
Receive ==
    /\ phase = "open" /\ ~silent /\ feed # <<>>
    /\ received' = [received EXCEPT ![Head(feed)] = @ + 1]
    /\ after' = AfterOf(log[Head(feed)])
    /\ feed' = Tail(feed)
    /\ UNCHANGED <<ctx, listed, phase, host, build, log, silent, up, faults>>

\* A read fails, or the server sends an "error", errors in a "next", or a
\* "complete".
Broken ==
    /\ phase \in {"init", "open"} /\ faults > 0
    /\ faults' = faults - 1
    /\ Disconnect
    /\ UNCHANGED up

\* Faulty variant of Keepalive: nothing is written to an idle connection.
KeepaliveNone == FALSE /\ UNCHANGED vars

\* The ping's write fails on a dead connection and closes it, so the read ends.
Keepalive ==
    /\ silent
    /\ Disconnect
    /\ UNCHANGED <<up, faults>>

\* After retryBackoff(attempt).
Reconnect ==
    /\ phase = "wait"
    /\ phase' = "dial"
    /\ UNCHANGED <<ctx, listed, host, after, build, network, received>>

\* Faulty variant of Leave: a read goes on until the connection ends.
LeaveBetweenReads ==
    /\ ctx = "ended" /\ phase \in {"dial", "wait"}
    /\ phase' = "gone" /\ feed' = <<>> /\ silent' = FALSE
    /\ UNCHANGED <<ctx, listed, host, after, build, log, up, faults, received>>

\* The context ends a dial, a read and a wait.
Leave ==
    /\ ctx = "ended" /\ phase \in {"dial", "init", "open", "wait"}
    /\ phase' = "gone" /\ feed' = <<>> /\ silent' = FALSE
    /\ UNCHANGED <<ctx, listed, host, after, build, log, up, faults, received>>

-----------------------------------------------------------------------------
(* Build logs                                                              *)

BuildStep(b, state) ==
    /\ build' = [build EXCEPT ![b] = state]
    /\ UNCHANGED <<ctx, listed, stream, network>>

\* Faulty variant of Acquire: the semaphore is not taken.
AcquireNothing(b) == build[b] = "queued" /\ BuildStep(b, "running")

Acquire(b) ==
    /\ build[b] = "queued" /\ Cardinality(Holding) < Slots
    /\ BuildStep(b, "running")

\* The stream completes or fails, in one attempt, and the slot is released.
FetchEnds(b) == build[b] = "running" /\ BuildStep(b, "tried")

\* The server keeps the connection and never completes the stream.
FetchHangs(b) == build[b] = "running" /\ BuildStep(b, "hung")

\* The context ends the wait for a slot, and a fetch.
BuildLeaves(b) ==
    /\ ctx = "ended" /\ build[b] \in {"queued", "running", "hung"}
    /\ BuildStep(b, "left")

-----------------------------------------------------------------------------
(* The environment                                                         *)

\* Railway stores a line, and sends it to a subscription that is open, or leaves
\* it out.
Emit(line) ==
    /\ Len(log) < MaxLines
    /\ log' = Append(log, line)
    /\ received' = Append(received, 0)
    /\ \/ UNCHANGED feed
       \/ phase = "open" /\ feed' = Append(feed, Len(log) + 1)
    /\ UNCHANGED <<ctx, listed, phase, host, after, build, silent, up, faults>>

\* The peer disappears without a word.
GoSilent ==
    /\ phase \in {"init", "open"} /\ ~silent /\ faults > 0
    /\ silent' = TRUE /\ faults' = faults - 1
    /\ UNCHANGED <<ctx, listed, stream, build, log, feed, up>>

HostDown(h) ==
    /\ h \in up /\ up # {h} /\ faults > 0
    /\ up' = up \ {h} /\ faults' = faults - 1
    /\ UNCHANGED <<ctx, listed, stream, build, log, feed, silent>>

Shutdown ==
    /\ ctx = "live"
    /\ ctx' = "ended"
    /\ UNCHANGED <<listed, stream, build, network>>

Stream == DialFails \/ DialSucceeds \/ Acknowledged \/ Receive \/ Keepalive \/ Reconnect

Next ==
    \/ Reconcile \/ Stream \/ Broken \/ Leave \/ GoSilent \/ Shutdown
    \/ \E x \in {"env"} \cup Builds : Discover(x)
    \/ \E b \in Builds :
        Acquire(b) \/ FetchEnds(b) \/ FetchHangs(b) \/ BuildLeaves(b)
    \/ \E line \in Line : Emit(line)
    \/ \E h \in Hosts : HostDown(h)

Spec == Init /\ [][Next]_vars

\* The ticker ticks, goroutines run, hosts that are up answer, and a context's
\* end is noticed.  A fetch ends unless it hangs; nothing makes it hang or end.
FairSpec ==
    /\ Spec
    /\ WF_vars(Reconcile) /\ WF_vars(Stream) /\ WF_vars(Leave)
    /\ \A b \in Builds :
        WF_vars(Acquire(b)) /\ WF_vars(FetchEnds(b) \/ BuildLeaves(b))

-----------------------------------------------------------------------------
(* Properties                                                              *)

TypeOK ==
    /\ ctx \in {"live", "ended"} /\ listed \subseteq {"env"} \cup Builds
    /\ phase \in {"off", "dial", "init", "open", "wait", "gone"}
    /\ host \in Hosts /\ after \in 1..MaxTs \cup {None}
    /\ build \in [Builds ->
                    {"unseen", "queued", "running", "hung", "tried", "left"}]
    /\ Cardinality(Holding) <= Slots
    /\ log \in Seq(Line) /\ feed \in Seq(1..Len(log)) /\ (feed # <<>> => phase = "open")
    /\ silent \in BOOLEAN /\ (silent => phase \in {"init", "open"})
    /\ up \in (SUBSET Hosts) \ {{}} /\ faults \in 0..MaxFaults
    /\ received \in [1..Len(log) -> Nat]

\* Without a backfill no reconnect delivers a datable line again, whatever the
\* order in which the lines of several connections came in (logs.go:17-18).
NoDuplicates ==
    LogBackfill = 0 =>
        \A i \in 1..Len(log) : log[i].dated => received[i] <= 1

\* runEnvSubscription "keeps one environment's deploy-log subscription alive,
\* reconnecting with backoff" (pipeline.go:395-396): once connections no longer
\* break, go silent or get refused, the last of them is open, and all that
\* Railway sent on it is dispatched.  A connection that died without a word is
\* found out by the ping, whether or not it was acknowledged (ws.go:61-62).
StaysSubscribed ==
    <>[](\/ ctx = "ended" \/ "env" \notin listed
         \/ phase = "open" /\ ~silent /\ feed = <<>>)

\* reconcile "must not block waiting for a build-log slot" (pipeline.go:620-622):
\* an environment that is found is subscribed to, even while fetches that never
\* end hold every slot, and however many fetches fail, every deployment's build
\* log is asked for in the end, unless those that never end hold every slot.
FoundIsStarted ==
    /\ "env" \in listed ~> phase # "off" \/ ctx = "ended"
    /\ \A b \in Builds :
        b \in listed ~> \/ build[b] \notin {"unseen", "queued"} \/ ctx = "ended"
                        \/ Cardinality({d \in Builds : build[d] = "hung"}) = Slots

\* shutdown's subWG.Wait comes to an end, with a connection that is quiet, a
\* fetch that hangs or builds in the queue (pipeline.go:197-215).
ShutdownCompletes ==
    ctx = "ended" ~> /\ phase \in {"off", "gone"}
                     /\ \A b \in Builds : build[b] \in {"unseen", "tried", "left"}

=============================================================================
