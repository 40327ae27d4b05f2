------------------------------- MODULE Config -------------------------------
(***************************************************************************)
(* What internal/config/config.go accepts, and what the components make of *)
(* it (NewManager, newCursorStore's caller in main.go).  A setting is what *)
(* its variable parses to, its default included.  The limits are scaled    *)
(* down; only their order counts.                                          *)
(***************************************************************************)
EXTENDS Integers

MaxBatch == 4        \* 50000
MaxQueue == 6        \* 1_000_000
MaxConcurrency == 3  \* 256
DefaultConcurrency == 2  \* 4
DefaultCatchUp == 6  \* NewManager's 6 h
DefaultPollMin == 2  \* NewManager's 10 s

Names == {"prometheus", "otlp", "loki", "stdout", "OTLP", "bogus"}
Exporters == {"otlp"}                  \* exporter.Registered
Sinks == {"otlp", "loki", "stdout"}    \* sink.Registered

\* strings.EqualFold
Fold(name) == IF name = "OTLP" THEN "otlp" ELSE name
Contains(list, name) == \E n \in list : Fold(n) = name

Clamp(v, lo, hi) == IF v < lo THEN lo ELSE IF v > hi THEN hi ELSE v
AtLeast(a, b) == IF a >= b THEN a ELSE b

\* Load's clamps.
Sizes(raw) ==
    [batch |-> Clamp(raw.batch, 1, MaxBatch),
     queue |-> Clamp(raw.queue, Clamp(raw.batch, 1, MaxBatch), MaxQueue),
     slots |-> Clamp(raw.slots, 1, MaxConcurrency)]

\* NewPoller's own default for a concurrency that was not clamped.
PollerSlots(slots) == IF slots < 1 THEN DefaultConcurrency ELSE slots

\* validate, of the log source's settings.
PollValid(raw) ==
    /\ raw.source \in {"poll", "subscribe"}
    /\ raw.scope \in {"environment", "service"}
    /\ raw.scope = "service" => raw.source = "poll"
    /\ raw.source = "poll" =>
        /\ 0 < raw.min /\ raw.min <= raw.max
        /\ raw.settle >= 0 /\ raw.catchUp > 0 /\ raw.lookback >= 0

\* NewManager's own defaults, for a configuration that was not validated.
Managed(raw) ==
    LET min == IF raw.min <= 0 THEN DefaultPollMin ELSE raw.min
    IN  [min |-> min, max |-> AtLeast(raw.max, min),
         settle |-> AtLeast(raw.settle, 0), lookback |-> AtLeast(raw.lookback, 0),
         catchUp |-> IF raw.catchUp <= 0 THEN DefaultCatchUp ELSE raw.catchUp,
         perService |-> raw.source # "subscribe" /\ raw.scope = "service"]

\* serve: what the cursor store prunes after.
PruneAfter(raw) == 2 * raw.catchUp

\* Faulty variant of NamesValid: an exporter needs no endpoint.
NamesValidForSinks(cfg) ==
    /\ cfg.metrics \/ cfg.logs
    /\ cfg.logs /\ Contains(cfg.sinks, "loki") => cfg.loki
    /\ cfg.logs /\ Contains(cfg.sinks, "otlp") => cfg.otlp

\* validate, of what is switched on and of the endpoints it needs.
NamesValid(cfg) ==
    /\ cfg.metrics \/ cfg.logs
    /\ cfg.logs /\ Contains(cfg.sinks, "loki") => cfg.loki
    /\ \/ cfg.logs /\ Contains(cfg.sinks, "otlp")
       \/ cfg.metrics /\ Contains(cfg.exporters, "otlp")
       => cfg.otlp

\* The factories that can fail: of the exporter or sink otlp, and of loki.
NewOTLP(cfg) == cfg.otlp
NewLoki(cfg) == cfg.loki

\* Build of an exporter and of a sink: by its exact name.
ExporterBuilds(cfg, name) == name \in Exporters /\ NewOTLP(cfg)
SinkBuilds(cfg, name) ==
    /\ name \in Sinks
    /\ name = "otlp" => NewOTLP(cfg)
    /\ name = "loki" => NewLoki(cfg)

RawSizes == [batch : -1..7, queue : -1..7, slots : -1..5]
RawPolls ==
    [source : {"poll", "subscribe", "tail"}, scope : {"environment", "service", "all"},
     min : -1..2, max : -1..2, settle : -1..1, catchUp : -1..2, lookback : -1..1]

\* A queue takes a batch, and every semaphore has the slots that were asked for.
SizesSound ==
    \A raw \in RawSizes :
        LET s == Sizes(raw)
        IN  /\ 1 <= s.batch /\ s.batch <= s.queue
            /\ s.slots >= 1 /\ PollerSlots(s.slots) = s.slots
            /\ s.batch <= MaxBatch /\ s.queue <= MaxQueue /\ s.slots <= MaxConcurrency

\* The manager gets settings its pollers work with, uses those of poll mode as
\* they were given, and shares its catch-up limit with the cursor store.
PollsSound ==
    \A raw \in {r \in RawPolls : PollValid(r)} :
        LET m == Managed(raw)
        IN  /\ 0 < m.min /\ m.min <= m.max /\ m.settle >= 0
            /\ m.catchUp > 0 /\ m.lookback >= 0
            /\ m.perService <=> raw.scope = "service"
            /\ raw.source = "poll" =>
                /\ m.min = raw.min /\ m.max = raw.max /\ m.settle = raw.settle
                /\ PruneAfter(raw) = 2 * m.catchUp

=============================================================================
