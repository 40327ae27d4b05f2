----------------------------- MODULE MCProcess -----------------------------
(* Instances of Process for TLC. *)
EXTENDS Process

Config1(metrics, logs, otlp, exporters, sinks) ==
    [metrics |-> metrics, logs |-> logs, otlp |-> otlp, loki |-> FALSE,
     cursors |-> TRUE, exporters |-> exporters, sinks |-> sinks]

Full == Config1(TRUE, TRUE, TRUE, {"prometheus", "otlp"}, {"stdout"})

\* A full configuration, those that switch a part off, and those that validate
\* or a Build refuses.
MCConfigs ==
    {Full, [Full EXCEPT !.metrics = FALSE],
     [Full EXCEPT !.logs = FALSE, !.exporters = {"prometheus"}],
     [Full EXCEPT !.metrics = FALSE, !.logs = FALSE],
     [Full EXCEPT !.otlp = FALSE], [Full EXCEPT !.sinks = {"loki"}],
     [Full EXCEPT !.cursors = FALSE], [Full EXCEPT !.sinks = {"bogus"}],
     [Full EXCEPT !.exporters = {"OTLP"}]}

=============================================================================
