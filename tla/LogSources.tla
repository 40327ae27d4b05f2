----------------------------- MODULE LogSources -----------------------------
(***************************************************************************)
(* Which log sources are polled (internal/logs/pipeline.go, poll mode,     *)
(* environment scope), for one environment with one service that has a     *)
(* domain: Railway replaces the service's deployments, discovery           *)
(* (internal/target/provider.go) reads them through a cache, and reconcile *)
(* starts, retires and cancels pollers.                                    *)
(*                                                                         *)
(* A source is a key: a deployment (its HTTP logs), or Env (the deploy     *)
(* logs of the environment).  Its lines are abstracted to the instants at  *)
(* which it may log; a poller to the stretch it has read (LogPoller shows  *)
(* that a round reads its stretch without loss).  A round that fails is    *)
(* one that has not been yet, but for the cursor that it skips ahead.      *)
(***************************************************************************)
EXTENDS Integers

CONSTANTS
    Last,        \* deployments are numbered 1..Last as Railway makes them
    TTL,         \* DiscoveryTTL: the cache's lifetime and the reconcile interval
    Settle,      \* m.settle
    Lookback,    \* m.initialLookback
    CatchUp,     \* m.maxCatchUp
    PruneAfter,  \* of the cursor store
    ProjectToken,\* which provider: project token, or account token
    Staged,      \* a deployment is built before it serves, and may fail
    FetchTime,   \* bound: instants a discovery request may take
    MaxTroubles, \* bound: requests that fail, in whole or in part, and restarts
    MaxTime,     \* bound: the last instant
    None

ASSUME SourcesAssumption ==
    /\ Last \in Nat /\ TTL \in Nat \ {0} /\ Settle \in Nat /\ Lookback \in Nat
    /\ CatchUp \in Nat /\ PruneAfter \in Nat
    /\ ProjectToken \in BOOLEAN /\ Staged \in BOOLEAN
    /\ FetchTime \in Nat /\ MaxTroubles \in Nat /\ MaxTime \in Nat

Deployments == 1..Last
Env == 0
Sources == Deployments \cup {Env}

\* A target: is the environment found, and the service's DeploymentID (0: none).
Target == [env : BOOLEAN, dep : 0..Last]

\* A poller in the manager's maps: how far it has read, when its source was
\* retired, and whether runPoller has returned.
Poller == [cursor : Int, retireAt : (0..MaxTime) \cup {None}, left : BOOLEAN]

ASSUME NoneAssumption == None \notin Int \cup Target \cup Poller

VARIABLES
    \* Railway
    now, latest, status, active,
    served,     \* history: the instants at which a source may have logged
    \* discovery
    cached, expiry,
    flight,     \* when the request under way was made, or None
    failed,     \* history: the instants of its failures, in whole or in part
    \* the manager
    mgr,        \* "idle", "asking" or "apply"
    answer, lastReconcile,
    nextTick,   \* the ticker's next tick, or None before it runs
    startedAt,
    troubles,   \* failures and restarts still to come
    \* per source: its poller in the manager's maps, and its stored cursor
    poller, saved,
    \* history, as pairs of a source and an instant
    read,       \* by a poller of the source
    given,      \* given up: before a new source's start, or skipped at CatchUp
    withdrawn   \* the poller was retired or cancelled

railway   == <<now, latest, status, active, served>>
discovery == <<cached, expiry, flight, failed>>
manager   == <<mgr, answer, nextTick, lastReconcile, startedAt>>
pollers   == <<poller, saved, read, given, withdrawn>>
vars == <<railway, discovery, manager, pollers, troubles>>

Init ==
    /\ now = 0 /\ latest = 0 /\ active = 0
    /\ status = [d \in Deployments |-> "none"]
    /\ served = {}
    /\ cached = None /\ expiry = 0 /\ flight = None
    /\ failed = {} /\ troubles = MaxTroubles
    /\ mgr = "idle" /\ answer = None /\ nextTick = None /\ lastReconcile = None
    /\ startedAt = 0
    /\ poller = [k \in Sources |-> None]
    /\ saved = [k \in Sources |-> None]
    /\ read = {} /\ given = {} /\ withdrawn = {}

-----------------------------------------------------------------------------
(* Railway                                                                 *)

\* What the running deployment may log at this instant.
Logging == IF active = 0 THEN {} ELSE {<<active, now>>, <<Env, now>>}

Deploy ==
    /\ latest < Last
    /\ latest # 0 => status[latest] # "building"
    /\ latest' = latest + 1
    /\ status' = [status EXCEPT ![latest + 1] =
                     IF Staged THEN "building" ELSE "success"]
    /\ active' = IF Staged THEN active ELSE latest + 1
    /\ served' = served \cup Logging
    /\ UNCHANGED <<now, discovery, manager, pollers, troubles>>

\* The build ends; a successful deployment takes over.
Built ==
    /\ latest > 0 /\ status[latest] = "building"
    /\ \/ /\ status' = [status EXCEPT ![latest] = "success"]
          /\ active' = latest
       \/ /\ status' = [status EXCEPT ![latest] = "failed"]
          /\ active' = active
    /\ served' = served \cup Logging
    /\ UNCHANGED <<now, latest, discovery, manager, pollers, troubles>>

\* The manager waits for its ticker.
Waiting == mgr = "idle" /\ nextTick # None /\ nextTick > now

\* Time passes.  The manager's goroutine is prompt; a request takes no longer
\* than FetchTime.
Tick ==
    /\ now < MaxTime
    /\ mgr = "asking" \/ Waiting
    /\ flight # None => now - flight < FetchTime
    /\ now' = now + 1
    /\ served' = served \cup Logging
    /\ UNCHANGED <<latest, status, active, discovery, manager, pollers, troubles>>

-----------------------------------------------------------------------------
(* Discovery                                                               *)

\* Targets answers from the cache.
Valid == cached # None /\ now < expiry

\* buildTargets: the latest deployment counts only if it is up.
DeploymentID ==
    IF latest # 0 /\ status[latest] = "success" THEN latest ELSE 0

\* What a request finds when every query succeeds.
Found == [env |-> TRUE, dep |-> DeploymentID]

\* What it finds when the project query fails: a project token still knows its
\* environment, an account token skips the project.
Bare == [env |-> ProjectToken, dep |-> 0]

\* The metrics poller shares the cache, and refreshes it when it has expired.
MetricsAsks ==
    /\ ~Valid /\ flight = None
    /\ flight' = now
    /\ UNCHANGED <<railway, cached, expiry, failed, manager, pollers, troubles>>

\* The request's result goes to whoever waits for it.
Answer(t) ==
    IF mgr = "asking" THEN mgr' = "apply" /\ answer' = t
    ELSE UNCHANGED <<mgr, answer>>

\* reconcile returns; after the first one Run starts the ticker.
ReconcileEnds ==
    /\ mgr' = "idle"
    /\ nextTick' = IF nextTick = None THEN now + TTL ELSE nextTick

\* A list without targets is a nil slice, which the cache takes for empty.
FetchEnds(t) ==
    /\ flight # None
    /\ flight' = None
    /\ cached' = IF t.env THEN t ELSE None
    /\ expiry' = now + TTL
    /\ Answer(t)
    /\ UNCHANGED <<railway, nextTick, lastReconcile, startedAt, pollers>>

Fetched == FetchEnds(Found) /\ UNCHANGED <<failed, troubles>>

Hiccup ==
    /\ troubles > 0 /\ troubles' = troubles - 1
    /\ failed' = failed \cup {now}

FetchedBare ==
    /\ Hiccup
    /\ FetchEnds(Bare)

\* The request fails: the last targets are served again, if there are any;
\* otherwise reconcile keeps what runs.
FetchFails ==
    /\ flight # None /\ Hiccup
    /\ flight' = None
    /\ IF cached = None /\ mgr = "asking" THEN ReconcileEnds /\ UNCHANGED answer
       ELSE Answer(cached) /\ UNCHANGED nextTick
    /\ UNCHANGED <<railway, cached, expiry, lastReconcile, startedAt, pollers>>

-----------------------------------------------------------------------------
(* The manager                                                             *)

\* At the start, and when the ticker fires, reconcile asks for the targets.
AskTargets ==
    /\ mgr = "idle" /\ ~Waiting
    /\ nextTick' = IF nextTick = None THEN None ELSE nextTick + TTL
    /\ IF Valid
       THEN mgr' = "apply" /\ answer' = cached /\ UNCHANGED flight
       ELSE /\ mgr' = "asking" /\ UNCHANGED answer
            /\ flight' = IF flight = None THEN now ELSE flight
    /\ UNCHANGED <<railway, cached, expiry, failed, lastReconcile, startedAt,
                   pollers, troubles>>

\* Faulty variant of StartOf: a new source starts where it is found.
StartNow == now

\* Where a poller without a stored cursor starts.
StartOf == IF lastReconcile = None THEN startedAt - Lookback ELSE lastReconcile

\* Faulty variant of NewPoller: the cursor is loaded, never seeded.
NewPollerUnseeded(k) == [cursor |-> saved[k], retireAt |-> None, left |-> FALSE]

\* The poller that runPoller starts for a source.
NewPoller(k) ==
    [cursor |-> IF saved[k] # None THEN saved[k] ELSE StartOf,
     retireAt |-> None, left |-> FALSE]

\* Faulty variant of ReconcileDeploy: the stored cursor is not looked at.
ReconcileDeployAnew(t) ==
    IF ~t.env THEN None
    ELSE IF poller[Env] # None THEN poller[Env]
    ELSE [cursor |-> StartOf, retireAt |-> None, left |-> FALSE]

\* reconcileDeploy: the environment's poller is started, kept, or cancelled.
ReconcileDeploy(t) ==
    IF ~t.env THEN None
    ELSE IF poller[Env] # None THEN poller[Env] ELSE NewPoller(Env)

Wanted(d, t) == t.env /\ t.dep = d

\* Faulty variant of ReconcileHTTP: a running poller is retired although it is
\* still wanted.
ReconcileHTTPRetiresAll(d, t) ==
    IF poller[d] # None THEN [poller[d] EXCEPT !.retireAt = now]
    ELSE IF Wanted(d, t) THEN NewPoller(d) ELSE None

\* reconcileHTTP: the found deployment gets a poller unless the maps hold one,
\* even a retired one; the pollers of the others are retired.
ReconcileHTTP(d, t) ==
    IF poller[d] = None THEN (IF Wanted(d, t) THEN NewPoller(d) ELSE None)
    ELSE IF Wanted(d, t) \/ poller[d].retireAt # None THEN poller[d]
    ELSE [poller[d] EXCEPT !.retireAt = now]

\* What a source without a stored cursor starts past in a new process.
LookedBack ==
    {<<k, t>> : k \in {j \in Sources : /\ poller[j] = None /\ poller'[j] # None
                                     /\ saved[j] = None /\ lastReconcile = None},
                t \in 0 .. StartOf - 1}

\* The pollers that are retired or cancelled now.
Withdrawn ==
    {<<k, now>> : k \in {j \in Sources : /\ poller[j] # None
                                       /\ poller'[j] # poller[j]}}

Reconcile ==
    /\ mgr = "apply"
    /\ poller' = [k \in Sources |->
                     IF k = Env THEN ReconcileDeploy(answer)
                     ELSE ReconcileHTTP(k, answer)]
    /\ lastReconcile' = now
    /\ ReconcileEnds /\ answer' = None
    /\ given' = given \cup LookedBack
    /\ withdrawn' = withdrawn \cup Withdrawn
    /\ UNCHANGED <<railway, discovery, startedAt, saved, read, troubles>>

-----------------------------------------------------------------------------
(* The pollers                                                             *)

Greater(a, b) == IF a >= b THEN a ELSE b

\* Where a round starts: a cursor that is older than the catch-up limit skips.
From(k) == Greater(poller[k].cursor, now - CatchUp)
Horizon == now - Settle

\* What Save leaves of the stored cursors: whoever saves, the old ones go.
Stored(k) ==
    [j \in Sources |->
        LET c == IF j = k THEN Horizon ELSE saved[j]
        IN  IF c # None /\ c >= now - PruneAfter THEN c ELSE None]

\* The gap of a cursor that skips is logged and counted.
SkipAhead(k) ==
    given' = given \cup {<<k, t>> : t \in poller[k].cursor .. From(k) - 1}

\* pollOnce: from the cursor, or where it skips to, everything up to the horizon
\* is read, and the cursor is saved; or the cursor only skips, as the horizon
\* is not past it or the query fails.
Round(k) ==
    /\ poller[k] # None /\ ~poller[k].left
    /\ SkipAhead(k)
    /\ \/ /\ From(k) < Horizon
          /\ poller' = [poller EXCEPT ![k].cursor = Horizon]
          /\ saved' = Stored(k)
          /\ read' = read \cup {<<k, t>> : t \in From(k) .. Horizon}
       \/ /\ poller[k].cursor < From(k)
          /\ poller' = [poller EXCEPT ![k].cursor = From(k)]
          /\ UNCHANGED <<saved, read>>
    /\ UNCHANGED <<railway, discovery, manager, withdrawn, troubles>>

\* Faulty variant of Leave: the poller leaves at its retirement.
LeaveUndrained(d) ==
    /\ poller[d] # None /\ poller[d].retireAt # None /\ ~poller[d].left
    /\ poller' = [poller EXCEPT ![d].left = TRUE]
    /\ saved' = [saved EXCEPT ![d] = None]
    /\ UNCHANGED <<railway, discovery, manager, read, given, withdrawn, troubles>>

\* A retired poller that has drained deletes its cursor and returns.
Leave(d) ==
    /\ poller[d] # None /\ poller[d].retireAt # None /\ ~poller[d].left
    /\ poller[d].cursor >= poller[d].retireAt
    /\ poller' = [poller EXCEPT ![d].left = TRUE]
    /\ saved' = [saved EXCEPT ![d] = None]
    /\ UNCHANGED <<railway, discovery, manager, read, given, withdrawn, troubles>>

\* Its goroutine then takes it out of the manager's maps.
Remove(d) ==
    /\ poller[d] # None /\ poller[d].left
    /\ poller' = [poller EXCEPT ![d] = None]
    /\ UNCHANGED <<railway, discovery, manager, saved, read, given, withdrawn,
                   troubles>>

-----------------------------------------------------------------------------
\* The program restarts, with its cursor file.
Restart ==
    /\ troubles > 0 /\ troubles' = troubles - 1
    /\ startedAt' = now /\ nextTick' = None /\ lastReconcile' = None
    /\ mgr' = "idle" /\ answer' = None
    /\ cached' = None /\ expiry' = 0 /\ flight' = None
    /\ poller' = [k \in Sources |-> None]
    /\ UNCHANGED <<railway, failed, saved, read, given, withdrawn>>

\* The behaviour has reached its last instant and nothing is left to do.
Over ==
    /\ now = MaxTime /\ flight = None /\ Waiting
    /\ UNCHANGED vars

Next ==
    \/ Deploy \/ Built \/ Tick
    \/ MetricsAsks \/ Fetched \/ FetchedBare \/ FetchFails
    \/ AskTargets \/ Reconcile
    \/ \E k \in Sources : Round(k)
    \/ \E d \in Deployments : Leave(d) \/ Remove(d)
    \/ Restart \/ Over

Spec == Init /\ [][Next]_vars

-----------------------------------------------------------------------------
(* Properties                                                              *)

TypeOK ==
    /\ now \in 0..MaxTime /\ latest \in 0..Last /\ active \in 0..Last
    /\ status \in [Deployments -> {"none", "building", "success", "failed"}]
    /\ served \subseteq Sources \X (0..MaxTime)
    /\ cached \in Target \cup {None} /\ expiry \in Nat
    /\ flight \in 0..MaxTime \cup {None}
    /\ failed \subseteq 0..MaxTime /\ troubles \in 0..MaxTroubles
    /\ mgr \in {"idle", "asking", "apply"}
    /\ answer \in Target \cup {None} /\ nextTick \in Nat \cup {None}
    /\ lastReconcile \in 0..MaxTime \cup {None}
    /\ startedAt \in 0..MaxTime
    /\ poller \in [Sources -> Poller \cup {None}]
    /\ saved \in [Sources -> Int \cup {None}]
    /\ read \subseteq Sources \X Int /\ given \subseteq Sources \X Int
    /\ withdrawn \subseteq Sources \X (0..MaxTime)

\* pipeline.go:89-91: a source that appears "was not active before" the last
\* reconcile: no poller passes an instant at which its source may have logged,
\* that no poller of that source has read and that was not given up.
NothingPassedOver ==
    \A k \in Sources : poller[k] # None =>
        \A t \in 0..MaxTime :
            <<k, t>> \in served /\ t < poller[k].cursor
                => <<k, t>> \in read \cup given

\* Why a line may be lost all the same.  It is among the first of its source,
\* within a discovery interval; or discovery fails later, or failed within the
\* interval before; or it is a deployment's that discovery had taken away by then.
Explained(k, t) ==
    \/ \A u \in 0..MaxTime : <<k, u>> \in served => t < u + TTL
    \/ \E h \in failed : t < h + TTL
    \/ k # Env /\ \E r \in 0..t : <<k, r>> \in withdrawn

Settled(k, t) == <<k, t>> \in read \cup given \/ Explained(k, t)

\* What "was not active before" is worth with requests that take their time,
\* fail or answer in part, with restarts and long absences: a poller passes
\* over nothing that is not explained.
LossesExplained ==
    \A k \in Sources : poller[k] # None =>
        \A t \in 0..MaxTime :
            <<k, t>> \in served /\ t < poller[k].cursor => Settled(k, t)

\* README.md:272: a poller stops, unless the program does, only when it is
\* retired and all that its deployment served before has been read, but for
\* what is explained.
DrainedBeforeLeaving ==
    [][\A d \in Deployments :
          poller[d] # None /\ troubles' = troubles
              /\ (poller'[d] = None \/ poller'[d].left) =>
              /\ poller[d].retireAt # None
              /\ \A t \in 0..MaxTime :
                    <<d, t>> \in served /\ t < poller[d].retireAt
                        => Settled(d, t)]_vars

\* "When a redeploy replaces a deployment, the old poller keeps going until it has
\* read up to the handover, then stops" (README.md:272): a poller that has left
\* leaves nothing of its deployment unread.
ReadToHandover ==
    \A d \in Deployments : poller[d] # None /\ poller[d].left =>
        \A t \in 0..MaxTime : <<d, t>> \in served => <<d, t>> \in read \cup given

\* The stored cursor of the environment joins the stretches of the pollers it
\* has had: from one save to the next nothing is left out but what is skipped at
\* the catch-up limit, whatever discovery answered and however often and for
\* however long the poller was cancelled in between.
DeploySavesJoin ==
    [][saved[Env] # None /\ saved'[Env] # None =>
          \A t \in 0..MaxTime :
              <<Env, t>> \in served /\ saved[Env] <= t /\ t <= saved'[Env]
                  => <<Env, t>> \in read' \cup given']_vars

\* provider.go:94-95: "a transient Railway hiccup doesn't blank out all targets",
\* and a deployment is retired because another replaces it: a source that had a
\* poller was taken away only because a newer deployment was made, or because a
\* request failed within the discovery interval before, wholly or in part.
WithdrawnForCause ==
    \A k \in Sources : \A r \in 0..MaxTime : <<k, r>> \in withdrawn =>
        \/ k # Env /\ k < latest
        \/ \E h \in failed : h <= r /\ r < h + TTL

=============================================================================
