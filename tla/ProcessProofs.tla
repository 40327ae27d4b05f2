--------------------------- MODULE ProcessProofs ---------------------------
(***************************************************************************)
(* Proofs about the metrics pipeline of Process, for any configurations,   *)
(* any set of targets and any concurrency.                                 *)
(***************************************************************************)
EXTENDS Process, FiniteSetTheorems, TLAPS

\* A target of the poll under way is yet to start, has a slot, has answered, or
\* is one that the poll has lost; so is every other target.
PollInv ==
    /\ seen \subseteq Targets /\ good \subseteq Targets
    /\ poller = "query" => Targets \subseteq todo \cup busy \cup good \cup hurt

\* serve starts its parts one after the other; it builds exporters only for the
\* metrics, and nothing pushes before they are built.
Starting ==
    /\ main \in {"load", "metrics", "exporters"} => exp = "off"
    /\ main = "exporters" => cfg.metrics

\* What serve can fail on, when the names are valid.
FailsOnNames ==
    main = "failed" /\ NamesValid(cfg) =>
        \/ cfg.metrics /\ ~Pushers \subseteq Exporters
        \/ cfg.logs /\ (~cfg.sinks \subseteq Sinks \/ cfg.sinks = {} \/ ~cfg.cursors)

\* While the context lives no snapshot was cut short by its end.
Uncut ==
    ctx = "live" =>
        /\ store # None => ~store.cut
        /\ exp = "push" => ~pushed.cut

-----------------------------------------------------------------------------
(* Types                                                                   *)

\* The parts of serve that are not a poll or a push keep the data.
LEMMA ServeType ==
  ASSUME TypeOK, Starting,
         Serve \/ Stops \/ Signal \/ ServerFails \/ PollFails \/ PollerStops
  PROVE  TypeOK' /\ Starting'
<1> USE ProcessAssumption DEF ProcessAssumption, polls, pushes, round
<1>1. CASE LoadConfig
  BY <1>1 DEF LoadConfig, TypeOK, Starting
<1>2. CASE StartPoller
  BY <1>2 DEF StartPoller, TypeOK, Starting
<1>3. CASE StartExporters
  <2>1. exp = "off" /\ (exp' = exp \/ exp' \in {"idle", "off"})
        /\ main' \in {"logs", "failed"}
    BY <1>3 DEF StartExporters, Starting
  <2> QED
    BY <1>3, <2>1 DEF StartExporters, TypeOK, Starting
<1>4. CASE StartLogs
  <2>1. main' \in {"server", "failed"} /\ (mgr' = mgr \/ mgr' = "run")
    BY <1>4 DEF StartLogs
  <2> QED
    BY <1>4, <2>1 DEF StartLogs, TypeOK, Starting
<1>5. CASE StartServer \/ Drain \/ Exit
  BY <1>5 DEF StartServer, Drain, Exit, TypeOK, Starting
<1>6. CASE ServerStops \/ ManagerStops \/ Signal \/ ServerFails
  BY <1>6 DEF ServerStops, ManagerStops, Signal, ServerFails, TypeOK, Starting
<1>7. CASE PollFails
  <2>1. failures' \in 0..MaxFailures
    BY <1>7 DEF PollFails, TypeOK
  <2> QED
    BY <1>7, <2>1 DEF PollFails, TypeOK, Starting
<1>8. CASE PollerStops
  BY <1>8 DEF PollerStops, TypeOK, Starting
<1> QED
  BY <1>1, <1>2, <1>3, <1>4, <1>5, <1>6, <1>7, <1>8 DEF Serve, Stops

\* A poll keeps its targets apart, and to the slots.
LEMMA PollType ==
  ASSUME TypeOK, Starting,
         \/ PollEnds
         \/ \E ts \in SUBSET Targets : Poll(ts)
         \/ \E t \in Targets : StartQuery(t) \/ QueryAnswers(t) \/ QueryFails(t)
  PROVE  TypeOK' /\ Starting'
<1> USE ProcessAssumption DEF ProcessAssumption, polls, pushes, round
<1>0. /\ IsFiniteSet(busy) /\ Cardinality(busy) \in Nat /\ Cardinality(busy) <= Concurrency
  <2>1. busy \subseteq Targets /\ Cardinality(busy) <= Concurrency
    BY DEF TypeOK
  <2>2. IsFiniteSet(busy)
    BY <2>1, FS_Subset
  <2> QED
    BY <2>1, <2>2, FS_CardinalityType
<1>1. ASSUME NEW ts \in SUBSET Targets, Poll(ts)
      PROVE  TypeOK' /\ Starting'
  <2>1. Cardinality(busy') = 0
    BY <1>1, FS_EmptySet DEF Poll
  <2>2. failures' \in 0..MaxFailures
    BY <1>1 DEF Poll, TypeOK
  <2>3. Cardinality(busy') <= Concurrency
    BY <2>1
  <2> QED
    BY <1>1, <2>2, <2>3 DEF Poll, TypeOK, Starting
<1>2. ASSUME NEW t \in Targets, StartQuery(t)
      PROVE  TypeOK' /\ Starting'
  <2>1. busy' = busy \cup {t} /\ t \in todo /\ Cardinality(busy) < Concurrency
    BY <1>2 DEF StartQuery
  <2>2. Cardinality(busy') <= Cardinality(busy) + 1 /\ Cardinality(busy') \in Nat
    <3>1. Cardinality(busy') = IF t \in busy THEN Cardinality(busy) ELSE Cardinality(busy) + 1
      BY <1>0, <2>1, FS_AddElement
    <3> QED
      BY <1>0, <3>1
  <2>3. Cardinality(busy') <= Concurrency
    BY <1>0, <2>1, <2>2
  <2>4. busy' \subseteq found /\ todo' \subseteq found
    BY <1>2 DEF StartQuery, TypeOK
  <2> QED
    BY <1>2, <2>3, <2>4 DEF StartQuery, TypeOK, Starting
<1>3. ASSUME NEW t \in Targets, QueryAnswers(t) \/ QueryFails(t)
      PROVE  TypeOK' /\ Starting'
  <2>1. busy' = busy \ {t} /\ t \in busy
    BY <1>3 DEF QueryAnswers, QueryFails
  <2>2. Cardinality(busy') <= Cardinality(busy) /\ Cardinality(busy') \in Nat
    BY <1>0, <2>1, FS_Subset, FS_CardinalityType
  <2>3. Cardinality(busy') <= Concurrency
    BY <1>0, <2>2
  <2>4. /\ busy' \subseteq found /\ good' \subseteq found /\ hurt' \subseteq Targets
        /\ failures' \in 0..MaxFailures
    BY <1>3 DEF QueryAnswers, QueryFails, TypeOK
  <2> QED
    BY <1>3, <2>3, <2>4 DEF QueryAnswers, QueryFails, TypeOK, Starting
<1>4. CASE PollEnds
  <2>1. /\ store' = [has |-> good, cut |-> ctx = "ended" /\ good # found]
        /\ seen' = seen \cup good /\ poller' = "idle"
    BY <1>4 DEF PollEnds, Set
  <2>2. store' \in [has : SUBSET Targets, cut : BOOLEAN] /\ seen' \subseteq Targets
    BY <2>1 DEF TypeOK
  <2> QED
    BY <1>4, <2>1, <2>2 DEF PollEnds, TypeOK, Starting
<1> QED
  BY <1>1, <1>2, <1>3, <1>4

\* A push carries a snapshot of the store.
LEMMA PushType ==
  ASSUME TypeOK, Starting, Push \/ Export \/ ExportersStop
  PROVE  TypeOK' /\ Starting'
<1> USE DEF polls, pushes, round
<1>1. CASE Push
  BY <1>1 DEF Push, TypeOK, Starting
<1>2. CASE Export
  <2>1. out' \in {out, pushed}
    BY <1>2 DEF Export
  <2> QED
    BY <1>2, <2>1 DEF Export, TypeOK, Starting
<1>3. CASE ExportersStop
  BY <1>3 DEF ExportersStop, TypeOK, Starting
<1> QED
  BY <1>1, <1>2, <1>3

\* The types hold at first.
LEMMA TypeInit == Init => TypeOK /\ Starting
<1> SUFFICES ASSUME Init PROVE TypeOK /\ Starting
  OBVIOUS
<1>1. Cardinality(busy) <= Concurrency
  BY ProcessAssumption, FS_EmptySet DEF Init, ProcessAssumption
<1> QED
  BY <1>1, ProcessAssumption DEF Init, TypeOK, Starting, ProcessAssumption

\* Every step keeps them.
LEMMA TypeStep == TypeOK /\ Starting /\ [Next]_vars => TypeOK' /\ Starting'
<1> SUFFICES ASSUME TypeOK, Starting, [Next]_vars PROVE TypeOK' /\ Starting'
  OBVIOUS
<1>1. CASE UNCHANGED vars
  BY <1>1 DEF vars, polls, pushes, round, TypeOK, Starting
<1> QED
  BY <1>1, ServeType, PollType, PushType DEF Next, Query

-----------------------------------------------------------------------------
(* Healthy targets                                                         *)

\* At first nothing has been seen.
LEMMA InitVisible == Init => PollInv /\ HealthyStayVisible
  BY DEF Init, PollInv, HealthyStayVisible

\* A step that leaves the poll and the snapshot alone keeps them so.
LEMMA VisibleFrame ==
  ASSUME PollInv, HealthyStayVisible, UNCHANGED <<todo, busy, good, store, seen, hurt>>,
         poller' = "query" => poller = "query"
  PROVE  PollInv' /\ HealthyStayVisible'
  BY DEF PollInv, HealthyStayVisible

\* When all have answered, whoever was not lost is in the new snapshot.
LEMMA PollEndsVisible ==
  ASSUME PollInv, PollEnds
  PROVE  PollInv' /\ HealthyStayVisible'
<1>1. /\ todo = {} /\ busy = {} /\ poller = "query" /\ poller' = "idle"
      /\ store'.has = good /\ seen' = seen \cup good /\ UNCHANGED <<todo, busy, good, hurt>>
  BY DEF PollEnds, Answered, Set, round
<1>2. Targets \subseteq good \cup hurt
  BY <1>1 DEF PollInv
<1> QED
  BY <1>1, <1>2 DEF PollInv, HealthyStayVisible

\* A target only leaves the poll with an answer or a failure.
LEMMA PollVisible ==
  ASSUME PollInv, HealthyStayVisible,
         \/ \E ts \in SUBSET Targets : Poll(ts)
         \/ \E t \in Targets : StartQuery(t) \/ QueryAnswers(t) \/ QueryFails(t)
  PROVE  PollInv' /\ HealthyStayVisible'
<1>1. ASSUME NEW ts \in SUBSET Targets, Poll(ts)
      PROVE  PollInv' /\ HealthyStayVisible'
  BY <1>1 DEF Poll, PollInv, HealthyStayVisible
<1>2. ASSUME NEW t \in Targets, StartQuery(t)
      PROVE  PollInv' /\ HealthyStayVisible'
  BY <1>2 DEF StartQuery, PollInv, HealthyStayVisible
<1>3. ASSUME NEW t \in Targets, QueryAnswers(t)
      PROVE  PollInv' /\ HealthyStayVisible'
  BY <1>3 DEF QueryAnswers, PollInv, HealthyStayVisible
<1>4. ASSUME NEW t \in Targets, QueryFails(t)
      PROVE  PollInv' /\ HealthyStayVisible'
  BY <1>4 DEF QueryFails, PollInv, HealthyStayVisible
<1> QED
  BY <1>1, <1>2, <1>3, <1>4

\* Every step keeps healthy targets visible.
LEMMA NextVisible == PollInv /\ HealthyStayVisible /\ [Next]_vars
                        => PollInv' /\ HealthyStayVisible'
<1> SUFFICES ASSUME PollInv, HealthyStayVisible, [Next]_vars
             PROVE  PollInv' /\ HealthyStayVisible'
  OBVIOUS
<1>1. CASE Serve \/ Stops \/ Signal \/ ServerFails \/ PollFails \/ PollerStops
  <2>1. /\ UNCHANGED <<todo, busy, good, store, seen, hurt>>
        /\ poller' = "query" => poller = "query"
    BY <1>1 DEF Serve, LoadConfig, StartPoller, StartExporters, StartLogs, StartServer,
                Drain, Exit, Stops, ServerStops, ManagerStops, Signal, ServerFails, PollFails,
                PollerStops, polls, round
  <2> QED
    BY <2>1, VisibleFrame
<1>2. CASE Push \/ Export \/ ExportersStop \/ UNCHANGED vars
  <2>1. UNCHANGED <<todo, busy, good, store, seen, hurt, poller>>
    BY <1>2 DEF Push, Export, ExportersStop, vars, polls, round
  <2> QED
    BY <2>1, VisibleFrame
<1>3. CASE Query
  BY <1>3, PollEndsVisible, PollVisible DEF Query
<1>4. CASE \E ts \in SUBSET Targets : Poll(ts)
  BY <1>4, PollVisible
<1> QED
  BY <1>1, <1>2, <1>3, <1>4 DEF Next

-----------------------------------------------------------------------------
(* The gap a shutdown leaves                                               *)

\* Every step keeps cut snapshots from the backends: they are stored after the
\* context's end, and no backend accepts anything then.
LEMMA NextUncut == Uncut /\ NoShutdownGap /\ [Next]_vars => Uncut' /\ NoShutdownGap'
<1> SUFFICES ASSUME Uncut, NoShutdownGap, [Next]_vars PROVE Uncut' /\ NoShutdownGap'
  OBVIOUS
<1>1. ASSUME UNCHANGED <<store, pushed, out>>, exp' = exp \/ exp' # "push",
             ctx' = ctx \/ ctx' = "ended"
      PROVE  Uncut' /\ NoShutdownGap'
  BY <1>1 DEF Uncut, NoShutdownGap
<1>2. CASE Serve \/ Stops \/ Signal \/ ServerFails \/ PollFails \/ PollerStops \/ ExportersStop
  <2>1. /\ UNCHANGED <<store, pushed, out>> /\ (exp' = exp \/ exp' # "push")
        /\ (ctx' = ctx \/ ctx' = "ended")
    BY <1>2 DEF Serve, LoadConfig, StartPoller, StartExporters, StartLogs, StartServer,
                Drain, Exit, Stops, ServerStops, ManagerStops, Signal, ServerFails, PollFails,
                PollerStops, ExportersStop, polls, pushes
  <2> QED
    BY <1>1, <2>1
<1>3. CASE \/ \E ts \in SUBSET Targets : Poll(ts)
           \/ \E t \in Targets : StartQuery(t) \/ QueryAnswers(t) \/ QueryFails(t)
  <2>1. UNCHANGED <<store, pushed, out, exp, ctx>>
    BY <1>3 DEF Poll, StartQuery, QueryAnswers, QueryFails, pushes
  <2> QED
    BY <1>1, <2>1
<1>4. CASE PollEnds
  <2>1. UNCHANGED <<ctx, exp, pushed, out>>
    BY <1>4 DEF PollEnds, pushes
  <2>2. ctx = "live" => ~store'.cut
    BY <1>4 DEF PollEnds, Set
  <2> QED
    BY <2>1, <2>2 DEF Uncut, NoShutdownGap
<1>5. CASE Push
  <2>1. pushed' = store /\ store # None /\ UNCHANGED <<ctx, store, out>>
    BY <1>5 DEF Push, polls
  <2> QED
    BY <2>1 DEF Uncut, NoShutdownGap
<1>6. CASE Export
  <2>1. exp = "push" /\ exp' = "idle" /\ UNCHANGED <<ctx, store>>
    BY <1>6 DEF Export, polls
  <2>2. out' = out \/ (ctx = "live" /\ out' = pushed)
    BY <1>6 DEF Export, Accepts
  <2> QED
    BY <2>1, <2>2 DEF Uncut, NoShutdownGap
<1>7. CASE UNCHANGED vars
  BY <1>1, <1>7 DEF vars, polls, pushes
<1> QED
  BY <1>2, <1>3, <1>4, <1>5, <1>6, <1>7 DEF Next, Query

-----------------------------------------------------------------------------
(* The theorems                                                            *)

\* A target that was visible once and that nothing has failed since is in every
\* snapshot, however many others a poll loses (metrics/poller.go:88-90).
THEOREM HealthyTargetsStay == Spec => []HealthyStayVisible
<1> DEFINE Inv == PollInv /\ HealthyStayVisible
<1>1. Inv /\ [Next]_vars => Inv'
  BY NextVisible
<1>2. Init => Inv
  BY InitVisible
<1> QED
  BY <1>1, <1>2, PTL DEF Spec

\* No export that a backend accepts carries a snapshot that the end of the
\* context has cut short.
THEOREM GapIsNotPushed == Spec => []NoShutdownGap
<1> DEFINE Inv == Uncut /\ NoShutdownGap
<1>1. Inv /\ [Next]_vars => Inv'
  BY NextUncut
<1>2. Init => Inv
  BY DEF Init, Uncut, NoShutdownGap
<1> QED
  BY <1>1, <1>2, PTL DEF Spec

\* Every variable keeps its type; in particular no more queries run at a time
\* than the poller has slots (metrics/poller.go, poll), and an exporter holds a
\* snapshot exactly while it pushes.
THEOREM TypeCorrect == Spec => []TypeOK
<1>1. TypeOK /\ Starting => TypeOK
  OBVIOUS
<1> QED
  BY <1>1, TypeInit, TypeStep, PTL DEF Spec

-----------------------------------------------------------------------------
(* Configuration                                                           *)

\* Load's clamps are sound for every setting, not only for those of a run.
LEMMA AnySizesSound ==
  \A raw \in [batch : Int, queue : Int, slots : Int] :
      LET s == Sizes(raw)
      IN  /\ 1 <= s.batch /\ s.batch <= s.queue
          /\ s.slots >= 1 /\ PollerSlots(s.slots) = s.slots
          /\ s.batch <= MaxBatch /\ s.queue <= MaxQueue /\ s.slots <= MaxConcurrency
<1> SUFFICES ASSUME NEW raw \in [batch : Int, queue : Int, slots : Int]
             PROVE  /\ 1 <= Sizes(raw).batch /\ Sizes(raw).batch <= Sizes(raw).queue
                    /\ Sizes(raw).slots >= 1
                    /\ PollerSlots(Sizes(raw).slots) = Sizes(raw).slots
                    /\ Sizes(raw).batch <= MaxBatch /\ Sizes(raw).queue <= MaxQueue
                    /\ Sizes(raw).slots <= MaxConcurrency
  BY Zenon
<1>1. raw.batch \in Int /\ raw.queue \in Int /\ raw.slots \in Int
  OBVIOUS
<1>3. MaxBatch = 4 /\ MaxQueue = 6 /\ MaxConcurrency = 3
  BY DEF MaxBatch, MaxQueue, MaxConcurrency
<1> DEFINE b == Clamp(raw.batch, 1, MaxBatch)
           q == Clamp(raw.queue, b, MaxQueue)
           s == Clamp(raw.slots, 1, MaxConcurrency)
<1>4. Sizes(raw).batch = b /\ Sizes(raw).queue = q /\ Sizes(raw).slots = s
  BY DEF Sizes
<1>5. b \in Int /\ 1 <= b /\ b <= MaxBatch
  BY <1>1, <1>3 DEF Clamp
<1>6. s \in Int /\ 1 <= s /\ s <= MaxConcurrency
  BY <1>1, <1>3 DEF Clamp
<1> HIDE DEF b
<1>7. b <= q /\ q <= MaxQueue
  BY <1>1, <1>3, <1>5 DEF Clamp
<1> HIDE DEF s
<1>8. PollerSlots(s) = s
  BY <1>6 DEF PollerSlots
<1> QED
  BY <1>4, <1>5, <1>6, <1>7, <1>8

\* The settings of polling, with any numbers.
AnyPolls ==
    [source : {"poll", "subscribe", "tail"}, scope : {"environment", "service", "all"},
     min : Int, max : Int, settle : Int, catchUp : Int, lookback : Int]

\* The manager takes the valid settings of poll mode as they are, whatever they are.
LEMMA AnyPollsSound ==
  \A raw \in AnyPolls :
      PollValid(raw) =>
        LET m == Managed(raw)
        IN  /\ 0 < m.min /\ m.min <= m.max /\ m.settle >= 0
            /\ m.catchUp > 0 /\ m.lookback >= 0
            /\ m.perService <=> raw.scope = "service"
            /\ raw.source = "poll" =>
                /\ m.min = raw.min /\ m.max = raw.max /\ m.settle = raw.settle
                /\ PruneAfter(raw) = 2 * m.catchUp
<1> SUFFICES ASSUME NEW raw \in AnyPolls, PollValid(raw)
             PROVE  /\ 0 < Managed(raw).min /\ Managed(raw).min <= Managed(raw).max
                    /\ Managed(raw).settle >= 0
                    /\ Managed(raw).catchUp > 0 /\ Managed(raw).lookback >= 0
                    /\ Managed(raw).perService <=> raw.scope = "service"
                    /\ raw.source = "poll" =>
                        /\ Managed(raw).min = raw.min /\ Managed(raw).max = raw.max
                        /\ Managed(raw).settle = raw.settle
                        /\ PruneAfter(raw) = 2 * Managed(raw).catchUp
  BY Zenon
<1>1. /\ raw.min \in Int /\ raw.max \in Int /\ raw.settle \in Int
      /\ raw.catchUp \in Int /\ raw.lookback \in Int
  BY DEF AnyPolls
<1>2. /\ raw.source \in {"poll", "subscribe"} /\ raw.scope \in {"environment", "service"}
      /\ raw.scope = "service" => raw.source = "poll"
      /\ raw.source = "poll" =>
          /\ 0 < raw.min /\ raw.min <= raw.max
          /\ raw.settle >= 0 /\ raw.catchUp > 0 /\ raw.lookback >= 0
  BY DEF PollValid
<1>3. /\ Managed(raw).min = IF raw.min <= 0 THEN 2 ELSE raw.min
      /\ Managed(raw).max = AtLeast(raw.max, IF raw.min <= 0 THEN 2 ELSE raw.min)
      /\ Managed(raw).settle = AtLeast(raw.settle, 0)
      /\ Managed(raw).lookback = AtLeast(raw.lookback, 0)
      /\ Managed(raw).catchUp = IF raw.catchUp <= 0 THEN 6 ELSE raw.catchUp
  BY DEF Managed, DefaultPollMin, DefaultCatchUp
<1>4. Managed(raw).perService = (raw.source # "subscribe" /\ raw.scope = "service")
  BY DEF Managed
<1>5. Managed(raw).perService <=> raw.scope = "service"
  BY <1>2, <1>4
<1>6. /\ 0 < Managed(raw).min /\ Managed(raw).min <= Managed(raw).max
      /\ Managed(raw).settle >= 0 /\ Managed(raw).catchUp > 0 /\ Managed(raw).lookback >= 0
  BY <1>1, <1>3 DEF AtLeast
<1>7. raw.source = "poll" =>
        /\ Managed(raw).min = raw.min /\ Managed(raw).max = raw.max
        /\ Managed(raw).settle = raw.settle /\ Managed(raw).catchUp = raw.catchUp
  BY <1>1, <1>2, <1>3 DEF AtLeast
<1> QED
  BY <1>5, <1>6, <1>7 DEF PruneAfter

\* Every step keeps serve from failing on anything but names and the cursor file.
LEMMA FailsStep ==
  ASSUME TypeOK, Starting, FailsOnNames, [Next]_vars
  PROVE  FailsOnNames'
<1> USE DEF polls, pushes, round
<1>1. /\ cfg.exporters \subseteq Names /\ cfg.sinks \subseteq Names
  BY ProcessAssumption DEF TypeOK, ProcessAssumption
<1>2. cfg' = cfg
  BY DEF Next, Serve, LoadConfig, StartPoller, StartExporters, StartLogs, StartServer, Drain,
     Exit, Stops, ServerStops, ManagerStops, Query, PollEnds, StartQuery, QueryAnswers,
     QueryFails, Signal, ServerFails, PollFails, PollerStops, Push, Export, ExportersStop,
     Poll, vars
<1>3. Fold("otlp") = "otlp" /\ Fold("loki") = "loki"
  BY DEF Fold
<1>4. ASSUME StartExporters, main' = "failed", NamesValid(cfg)
      PROVE  cfg.metrics /\ ~Pushers \subseteq Exporters
  <2>1. PICK n \in Pushers : ~ExporterBuilds(cfg, n)
    BY <1>4 DEF StartExporters
  <2>2. cfg.metrics
    BY <1>4 DEF StartExporters, Starting
  <2>3. n \in Exporters => n = "otlp" /\ n \in cfg.exporters
    BY <2>1 DEF Exporters, Pushers
  <2>4. n \in Exporters => cfg.otlp
    BY <1>3, <1>4, <2>2, <2>3 DEF NamesValid, Contains
  <2> QED
    BY <2>1, <2>2, <2>4 DEF ExporterBuilds, NewOTLP
<1>5. ASSUME StartLogs, main' = "failed", NamesValid(cfg)
      PROVE  cfg.logs /\ (~cfg.sinks \subseteq Sinks \/ cfg.sinks = {} \/ ~cfg.cursors)
  <2>1. /\ cfg.logs
        /\ cfg.sinks = {} \/ ~cfg.cursors \/ \E n \in cfg.sinks : ~SinkBuilds(cfg, n)
    BY <1>5 DEF StartLogs, SinksBuild, CursorsOpen
  <2>2. ASSUME NEW n \in cfg.sinks, ~SinkBuilds(cfg, n)
        PROVE  n \notin Sinks
    <3>1. n = "otlp" => cfg.otlp
      BY <1>3, <1>5, <2>1 DEF NamesValid, Contains
    <3>2. n = "loki" => cfg.loki
      BY <1>3, <1>5, <2>1 DEF NamesValid, Contains
    <3> QED
      BY <2>2, <3>1, <3>2 DEF SinkBuilds, NewOTLP, NewLoki
  <2> QED
    BY <2>1, <2>2
<1>6. LoadConfig /\ main' = "failed" => ~NamesValid(cfg)
  BY DEF LoadConfig
<1>7. main' = "failed" => main = "failed" \/ LoadConfig \/ StartExporters \/ StartLogs
  BY DEF Next, Serve, StartPoller, StartServer, Drain, Exit, Stops, ServerStops, ManagerStops,
     Query, PollEnds, StartQuery, QueryAnswers, QueryFails, Signal, ServerFails, PollFails,
     PollerStops, Push, Export, ExportersStop, Poll, vars
<1> QED
  BY <1>2, <1>4, <1>5, <1>6, <1>7 DEF FailsOnNames, Pushers

\* What Load lets through, the parts of the program work with: the sizes and the
\* poll settings are sound, and serve fails on nothing but names that are not
\* registered and a cursor file it cannot read (config.go, validate and Load;
\* main.go, serve), whatever configuration it starts with.
THEOREM ConfigIsSound == Spec => []ConfigSound
<1> DEFINE Inv == TypeOK /\ Starting /\ FailsOnNames
<1>1. Init => Inv
  <2>1. Init => FailsOnNames
    BY DEF Init, FailsOnNames
  <2> QED
    BY <2>1, TypeInit
<1>2. Inv /\ [Next]_vars => Inv'
  BY TypeStep, FailsStep
<1>3. SizesSound
  <2>1. RawSizes \subseteq [batch : Int, queue : Int, slots : Int]
    BY DEF RawSizes
  <2> QED
    BY <2>1, AnySizesSound DEF SizesSound
<1>4. PollsSound
  <2>1. RawPolls \subseteq AnyPolls
    <3> SUFFICES ASSUME NEW raw \in RawPolls PROVE raw \in AnyPolls
      OBVIOUS
    <3>1. -1..2 \subseteq Int /\ -1..1 \subseteq Int
      OBVIOUS
    <3> QED
      BY <3>1 DEF RawPolls, AnyPolls
  <2> QED
    BY <2>1, AnyPollsSound DEF PollsSound
<1>5. Inv => ConfigSound
  BY <1>3, <1>4 DEF FailsOnNames, ConfigSound
<1> HIDE DEF Inv
<1> QED
  BY <1>1, <1>2, <1>5, PTL DEF Spec

=============================================================================
