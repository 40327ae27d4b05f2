------------------------------ MODULE Process ------------------------------
(***************************************************************************)
(* The process (cmd/intermodal/main.go): serve starts the metrics poller,  *)
(* the push exporters, the log manager and the HTTP server, and waits for  *)
(* all of them when a signal or the server's failure ends the context.     *)
(* With them the metrics pipeline (internal/metrics, internal/exporter):   *)
(* concurrent queries under a semaphore, the snapshot that replaces the    *)
(* one before, and the exporters that push it.                             *)
(*                                                                         *)
(* The log manager is a goroutine that ends after the context (LogWorker,  *)
(* LogStreams); a query of the poller is a call that returns (ApiClient).  *)
(***************************************************************************)
EXTENDS Config, FiniteSets

CONSTANTS
    Configs,      \* the configurations that a behaviour may start with
    Targets,      \* the environments that discovery may find
    Concurrency,  \* p.concurrency
    MaxFailures,  \* bound: queries that fail, and answers of discovery that miss something
    None

ASSUME ProcessAssumption ==
    /\ Configs \subseteq [metrics : BOOLEAN, logs : BOOLEAN, otlp : BOOLEAN,
                          loki : BOOLEAN, cursors : BOOLEAN,
                          exporters : SUBSET Names, sinks : SUBSET Names]
    /\ IsFiniteSet(Targets) /\ Concurrency \in Nat \ {0} /\ MaxFailures \in Nat

VARIABLES
    cfg,
    main,     \* serve: "load", "metrics", "exporters", "logs", "server",
              \* "running", "draining", "done", or "failed"
    ctx,      \* "live" or "ended"
    mgr, srv, \* goroutines: "off", "run" or "gone"
    \* the metrics poller
    poller,   \* "off", "idle", "query" or "gone"
    found, todo, busy, good,  \* of a poll: the targets, those to start, those
                              \* with a slot, and those that answered
    store,    \* the snapshot: the targets with samples, and whether the
              \* context's end cost it some
    \* the exporters
    exp,      \* "off", "idle", "push" or "gone"
    pushed,   \* what is being pushed
    failures,
    \* history
    seen,     \* the targets that have been in a snapshot
    hurt,     \* those that a query or an answer of discovery failed since
    out       \* the snapshot that a backend accepted last

round  == <<found, todo, busy, good>>
polls  == <<poller, round, store, seen, hurt>>
pushes == <<exp, pushed, out>>
vars == <<cfg, main, ctx, mgr, srv, polls, pushes, failures>>

Init ==
    /\ cfg \in Configs
    /\ main = "load" /\ ctx = "live" /\ mgr = "off" /\ srv = "off"
    /\ poller = "off" /\ store = None
    /\ found = {} /\ todo = {} /\ busy = {} /\ good = {}
    /\ exp = "off" /\ pushed = None
    /\ failures = MaxFailures /\ seen = {} /\ hurt = {} /\ out = None

\* The exporters that serve builds: the pull path is not one of them.
Pushers == cfg.exporters \ {"prometheus"}
Alive == main \notin {"done", "failed"}

-----------------------------------------------------------------------------
(* serve                                                                   *)

\* run and serve up to the poller.
LoadConfig ==
    /\ main = "load"
    /\ main' = IF NamesValid(cfg) THEN "metrics" ELSE "failed"
    /\ UNCHANGED <<cfg, ctx, mgr, srv, polls, pushes, failures>>

StartPoller ==
    /\ main = "metrics"
    /\ main' = IF cfg.metrics THEN "exporters" ELSE "logs"
    /\ poller' = IF cfg.metrics THEN "idle" ELSE "off"
    /\ UNCHANGED <<cfg, ctx, mgr, srv, round, store, seen, hurt, pushes, failures>>

\* buildExporters: an error returns from serve, whatever already runs.
StartExporters ==
    /\ main = "exporters"
    /\ IF \A n \in Pushers : ExporterBuilds(cfg, n)
       THEN /\ main' = "logs"
            /\ exp' = IF Pushers # {} THEN "idle" ELSE "off"
       ELSE main' = "failed" /\ UNCHANGED exp
    /\ UNCHANGED <<cfg, ctx, mgr, srv, polls, pushed, out, failures>>

\* buildSinks
SinksBuild == cfg.sinks # {} /\ \A n \in cfg.sinks : SinkBuilds(cfg, n)

\* OpenCursorStore: the file is there and is read, or is not there.
CursorsOpen == cfg.cursors

\* The log manager starts, or serve returns as above.
StartLogs ==
    /\ main = "logs"
    /\ IF ~cfg.logs THEN main' = "server" /\ UNCHANGED mgr
       ELSE IF SinksBuild /\ CursorsOpen
       THEN main' = "server" /\ mgr' = "run"
       ELSE main' = "failed" /\ UNCHANGED mgr
    /\ UNCHANGED <<cfg, ctx, srv, polls, pushes, failures>>

StartServer ==
    /\ main = "server"
    /\ main' = "running" /\ srv' = "run"
    /\ UNCHANGED <<cfg, ctx, mgr, polls, pushes, failures>>

\* A signal: NotifyContext ends the context at any point of serve.
Signal ==
    /\ Alive /\ main # "load" /\ ctx = "live"
    /\ ctx' = "ended"
    /\ UNCHANGED <<cfg, main, mgr, srv, polls, pushes, failures>>

\* Faulty variant of ServerFails: the error is logged and nothing more.
ServerFailsAlone ==
    /\ Alive /\ srv = "run"
    /\ srv' = "gone"
    /\ UNCHANGED <<cfg, main, ctx, mgr, polls, pushes, failures>>

\* ListenAndServe fails: the goroutine calls stop.
ServerFails ==
    /\ Alive /\ srv = "run"
    /\ srv' = "gone" /\ ctx' = "ended"
    /\ UNCHANGED <<cfg, main, mgr, polls, pushes, failures>>

\* Shutdown with its timeout.
ServerStops ==
    /\ Alive /\ srv = "run" /\ ctx = "ended"
    /\ srv' = "gone"
    /\ UNCHANGED <<cfg, main, ctx, mgr, polls, pushes, failures>>

ManagerStops ==
    /\ Alive /\ mgr = "run" /\ ctx = "ended"
    /\ mgr' = "gone"
    /\ UNCHANGED <<cfg, main, ctx, srv, polls, pushes, failures>>

Drain ==
    /\ main = "running" /\ ctx = "ended"
    /\ main' = "draining"
    /\ UNCHANGED <<cfg, ctx, mgr, srv, polls, pushes, failures>>

\* wg.Wait
Finished == {poller, exp, mgr, srv} \subseteq {"off", "gone"}

Exit ==
    /\ main = "draining" /\ Finished
    /\ main' = "done"
    /\ UNCHANGED <<cfg, ctx, mgr, srv, polls, pushes, failures>>

-----------------------------------------------------------------------------
(* The metrics poller                                                      *)

\* Discovery fails: the snapshot stays.
PollFails ==
    /\ Alive /\ poller = "idle"
    /\ \/ ctx = "ended" /\ UNCHANGED failures
       \/ failures > 0 /\ failures' = failures - 1
    /\ UNCHANGED <<cfg, main, ctx, mgr, srv, polls, pushes>>

\* poll begins, at a tick: even after the context's end, when the targets come
\* from the provider's cache.  A target that discovery misses has no samples.
Poll(ts) ==
    /\ Alive /\ poller = "idle"
    /\ poller' = "query" /\ found' = ts /\ todo' = ts
    /\ busy' = {} /\ good' = {}
    /\ hurt' = hurt \cup (Targets \ ts)
    /\ \/ ts = Targets /\ UNCHANGED failures
       \/ ts # Targets /\ failures > 0 /\ failures' = failures - 1
    /\ UNCHANGED <<cfg, main, ctx, mgr, srv, store, seen, pushes>>

\* Faulty variant of StartQuery: a goroutine for every target.
StartQueryAtOnce(t) ==
    /\ Alive /\ poller = "query" /\ t \in todo
    /\ todo' = todo \ {t} /\ busy' = busy \cup {t}
    /\ UNCHANGED <<cfg, main, ctx, mgr, srv, poller, found, good, store, seen,
                   hurt, pushes, failures>>

\* The loop takes a slot for the next target.
StartQuery(t) ==
    /\ Alive /\ poller = "query" /\ t \in todo /\ Cardinality(busy) < Concurrency
    /\ todo' = todo \ {t} /\ busy' = busy \cup {t}
    /\ UNCHANGED <<cfg, main, ctx, mgr, srv, poller, found, good, store, seen,
                   hurt, pushes, failures>>

QueryAnswers(t) ==
    /\ Alive /\ poller = "query" /\ t \in busy
    /\ busy' = busy \ {t} /\ good' = good \cup {t}
    /\ UNCHANGED <<cfg, main, ctx, mgr, srv, poller, found, todo, store, seen,
                   hurt, pushes, failures>>

\* A query fails, as every query does after the context's end.
QueryFails(t) ==
    /\ Alive /\ poller = "query" /\ t \in busy
    /\ busy' = busy \ {t}
    /\ hurt' = hurt \cup {t}
    /\ IF ctx = "ended" THEN UNCHANGED failures
       ELSE failures > 0 /\ failures' = failures - 1
    /\ UNCHANGED <<cfg, main, ctx, mgr, srv, poller, found, todo, good, store,
                   seen, pushes>>

\* Faulty variant of Answered: the last queries are not waited for.
AnsweredSoFar == todo = {}

\* wg.Wait of a poll.
Answered == todo = {} /\ busy = {}

\* Set: the snapshot replaces the one before.
Set(snap) == store' = snap

PollEnds ==
    /\ Alive /\ poller = "query" /\ Answered
    /\ poller' = "idle"
    /\ Set([has |-> good, cut |-> ctx = "ended" /\ good # found])
    /\ seen' = seen \cup good
    /\ UNCHANGED <<cfg, main, ctx, mgr, srv, round, hurt, pushes, failures>>

PollerStops ==
    /\ Alive /\ poller = "idle" /\ ctx = "ended"
    /\ poller' = "gone"
    /\ UNCHANGED <<cfg, main, ctx, mgr, srv, round, store, seen, hurt, pushes, failures>>

-----------------------------------------------------------------------------
(* The exporters                                                           *)

\* push reads the store, at a tick, which may win over the context's end.
Push ==
    /\ Alive /\ exp = "idle" /\ store # None
    /\ exp' = "push" /\ pushed' = store
    /\ UNCHANGED <<cfg, main, ctx, mgr, srv, polls, out, failures>>

\* Faulty variant of Accepts: an export outlives the context, as Close does.
AcceptsAnyway == TRUE

\* An export has a context of its own, derived from the process's.
Accepts == ctx = "live"

\* Export: the backend takes it, or it fails, within 30 s.
Export ==
    /\ Alive /\ exp = "push"
    /\ exp' = "idle" /\ pushed' = None
    /\ out' \in {out} \cup (IF Accepts THEN {pushed} ELSE {})
    /\ UNCHANGED <<cfg, main, ctx, mgr, srv, polls, failures>>

\* The context's end closes the exporters.
ExportersStop ==
    /\ Alive /\ exp = "idle" /\ ctx = "ended"
    /\ exp' = "gone"
    /\ UNCHANGED <<cfg, main, ctx, mgr, srv, polls, pushed, out, failures>>

-----------------------------------------------------------------------------

Serve ==
    LoadConfig \/ StartPoller \/ StartExporters \/ StartLogs \/ StartServer
        \/ Drain \/ Exit
Stops == ServerStops \/ ManagerStops
Query == PollEnds \/ \E t \in Targets :
            StartQuery(t) \/ QueryAnswers(t) \/ QueryFails(t)

Next ==
    \/ Serve \/ Stops \/ Query \/ Signal \/ ServerFails
    \/ PollFails \/ PollerStops \/ Push \/ Export \/ ExportersStop
    \/ \E ts \in SUBSET Targets : Poll(ts)

Spec == Init /\ [][Next]_vars

\* Goroutines run; a query returns and an export ends within its timeout; of a
\* tick and the context's end, a select does not always take the tick.
FairSpec ==
    /\ Spec
    /\ WF_vars(Serve) /\ WF_vars(Stops) /\ WF_vars(Query)
    /\ WF_vars(Export) /\ SF_vars(PollerStops) /\ SF_vars(ExportersStop)

-----------------------------------------------------------------------------
(* Properties                                                              *)

TypeOK ==
    /\ cfg \in Configs /\ ctx \in {"live", "ended"}
    /\ main \in {"load", "metrics", "exporters", "logs", "server", "running",
                 "draining", "done", "failed"}
    /\ {mgr, srv} \subseteq {"off", "run", "gone"}
    /\ poller \in {"off", "idle", "query", "gone"}
    /\ exp \in {"off", "idle", "push", "gone"}
    /\ found \subseteq Targets /\ todo \subseteq found /\ busy \subseteq found
    /\ good \subseteq found /\ Cardinality(busy) <= Concurrency
    /\ store \in [has : SUBSET Targets, cut : BOOLEAN] \cup {None}
    /\ out \in [has : SUBSET Targets, cut : BOOLEAN] \cup {None}
    /\ pushed \in [has : SUBSET Targets, cut : BOOLEAN] \cup {None}
    /\ (pushed = None) = (exp # "push")
    /\ failures \in 0..MaxFailures /\ seen \subseteq Targets /\ hurt \subseteq Targets

\* "A snapshot is returned even on partial failure so healthy targets stay
\* visible" (metrics/poller.go:88-90): a target that was visible once and that
\* no query and no answer of discovery has failed is in every snapshot since,
\* whatever happened to the others.
HealthyStayVisible == store # None => seen \ hurt \subseteq store.has

\* The poll that the shutdown cuts short leaves a snapshot without the targets
\* it did not get to; no backend is told that they are gone.
NoShutdownGap == out # None => ~out.cut

\* What Load lets through, the queues, the semaphores and the manager's pollers
\* work with, and the manager and the cursor store agree on it (see Config); and
\* serve fails on nothing else than names that are not registered and a cursor
\* file that cannot be read, never on a missing endpoint.
ConfigSound ==
    main # "load" /\ NamesValid(cfg) =>
        /\ SizesSound /\ PollsSound
        /\ main = "failed" =>
            \/ cfg.metrics /\ ~Pushers \subseteq Exporters
            \/ cfg.logs /\ (~cfg.sinks \subseteq Sinks \/ cfg.sinks = {} \/ ~cfg.cursors)

\* After a signal, and when the server cannot listen (main.go:166-169), serve
\* returns, whatever poll, export or start is under way, and not before the
\* exporters are closed.
ShutdownCompletes ==
    ctx = "ended" \/ srv = "gone" ~>
        \/ main = "failed"
        \/ main = "done" /\ {poller, exp, mgr, srv} \subseteq {"off", "gone"}

=============================================================================
