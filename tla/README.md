# Verification of intermodal

intermodal reads metrics and logs of Railway projects and forwards them: metrics to a Prometheus endpoint and to
exporters, logs to sinks (stdout, Loki, OTLP). This directory holds TLA+ models of the program, TLC runs that check
them on small instances, and TLAPS proofs. File names below without a path are in `src/internal/logs/`.

The part of the program where correctness is hard is the log path. It promises that the lines of a source reach
every sink, that a restart or a failing sink costs duplicates and not lines, and that a slow sink does not hold up
what does not depend on it. These promises rest on two protocols: a queue with a watermark between producers and a
sink, and a durable cursor per source. Around them are the reconciler that decides which sources exist, the
subscriptions, the API client with its retries, the metrics pipeline, and the process that starts and stops them.

## Inventory

| Part | State | Operations | Interacts with | What is hard |
|---|---|---|---|---|
| Log worker, one per sink (`worker.go`) | queue (channel), `sendMu`, counters `enqueued`, `written`, `failed`, the `progress` channel, the batch | `enqueue`, `enqueueWait`, `mark`, `waitWritten`, `settle`, `run`, `drainAndClose`, `writeRecords` | called by pollers, subscriptions and build-log fetches; calls its sink | producers against the worker goroutine, verdicts from counters, shutdown, retries |
| Log poller, one per source (`poll.go`) | `*cur`, `pos`, `retire`, the locals of a page | `runPoller`, `pollOnce`, `dispatchWait`, `marks`, `waitWritten` | fetches from Railway, hands lines to every worker, saves to the cursor store, reads another poller's position | paging over shared timestamps, late lines, partial failure, restart, retirement |
| Cursor store (`cursor.go`) | map of cursors, the file | `Load`, `Save` (prunes), `Delete`, `flush` | all pollers | crash between memory and file, pruning of other sources' entries |
| Log manager (`pipeline.go`) | maps of running sources, targets, `lastReconcile`, `buildSeen`, `buildSem` | `Run`, `reconcile*`, `shutdown`, the subscriptions, `fetchBuildLogs`, `dispatch` | starts, retires and cancels pollers; asks discovery | sources that vanish and come back, a poller that removes itself, reconnects, shutdown order |
| Target discovery (`internal/target/provider.go`) | cached targets and their expiry, singleflight group | `Targets`, `fetch` of each token kind, `buildTargets` | asked by the log manager and the metrics poller | stale and partial answers, shared refreshes |
| Railway API client (`internal/railway/client.go`, `ws.go`, `logs.go`) | limiter, the connection | `Execute` with retries, `subscribe` over websockets, queries | everything that talks to Railway | retries, host rotation, Retry-After, connection loss |
| Metrics poller, store, collector (`internal/metrics`) | the latest snapshot | `pollAndStore`, `poll`, `Set`, `Collect` | discovery, client; read by the endpoint and the exporters | concurrent queries under a semaphore, partial failure, shutdown |
| Exporters (`internal/exporter`) | none of their own | periodic push, `Close` | the metrics store | a push that races with the shutdown |
| Sinks (`internal/sink`) | HTTP clients | `Write`, `Close` | called by one worker each | bounded reply time |
| Configuration (`internal/config/config.go`) | constants | `Load`: clamps, `validate` | read by everything | settings that pass and that a component then refuses |
| Process (`cmd/intermodal/main.go`), HTTP server | the root context, a wait group | `run`, `serve` | starts and stops everything | early returns, a signal during the start, a server that fails |
| Telemetry (`internal/telemetry`) | counters, the remaining request budget | `ObserveRateLimit`, `RateLimitBudget` | client, pollers | answers out of order |

What makes each part correct:

- *Worker.* Queue order equals number order; a record is settled once; a success verdict covers the caller's whole
  page; nobody waits for a wake-up that does not come; shutdown ends and loses nothing the worker took.
- *Poller and cursor store.* No line that a cursor (running, in memory, on file) has passed is missing from a sink,
  apart from gaps that are logged; no duplicates unless something failed; no cursor goes back; every settled line is
  delivered in the end; a retired poller leaves only when it is done; two pollers that share the store and a Loki stream
  do not cost each other lines.
- *Manager and discovery.* Every moment a deployment serves is read by some poller, or the loss has a known cause; at most one poller per cursor
  key; a source is taken away only for a reason; a subscription comes back after a lost connection and repeats nothing; build logs are asked for;
  shutdown reaches every goroutine.
- *Client.* Bounded attempts that reach every host, waits that end with the context, a budget that recovers.
- *Metrics.* A failing target does not take others out of the snapshot; a shutdown is not reported as their loss.
- *Process.* What `Load` accepts can be started; whatever ends the context, everything is drained before `serve` returns.

`PROJECT.json` lists the same parts under `components`, and under `hazards` each place where the code can go wrong in
a way a test would hardly reach, with the property that would notice.

## Modules

| Module | What it is | Theorems |
|---|---|---|
| `LineSeqs` | sequences of lines: how often one holds a line, and the places a filter keeps, by counting | `LineSeqProofs` (lemmas) |
| `LogHandoff` | abstract: what a worker promises its callers | |
| `LogWorker` | `worker.go`, step by step; implements `LogHandoff` | `LogWorkerProofs` |
| `LogDrain` | abstract: what a poller promises, an at-least-once drain of a growing log | |
| `LogPoller` | `poll.go` and `cursor.go` for one source, with the workers replaced by what `LogHandoff` promises; implements `LogDrain` | `LogPollerProofs` |
| `LogGate` | a deploy and an HTTP poller side by side: one cursor store, one Loki stream, gate and floor | `LogGateProofs` |
| `LogSources` | `reconcile*` of `pipeline.go` and `internal/target/provider.go`; a poller's round is one step | `LogSourcesProofs` |
| `LogStreams` | subscribe mode: subscriptions with reconnects over `ws.go`, and the build-log fetches | `LogStreamsProofs` |
| `Backoff` | the two exponential waits, with the overflow of their shift | |
| `ApiClient` | `Execute` of `client.go` for concurrent callers, with the request budget | `ApiClientProofs` |
| `Config` | the clamps and checks of `config.go`, and what the components make of the settings | |
| `Process` | `serve` with everything it starts, the metrics poller and the exporters | `ProcessProofs` |
| `MC*` | instances for TLC | |

The modules are stacked, each taking from the one below what that one is checked for. `LogWorker` models a worker in
full and its pollers only as callers. `LogPoller` models one poller in full and takes from the workers what `LogHandoff`
says: records are settled oldest first, each batch as a whole, and a verdict is given when nothing of the page is open.
`LogGate` and `LogSources` take from `LogPoller` that a round that succeeds reads from the cursor, or from where it skips to, up to
the horizon without a gap: the first puts two pollers next to each other, with the batches of their pages, the second models which
pollers exist. `LogStreams` and `ApiClient` model the
two ways of talking to Railway; the lengths of their waits are in `Backoff`. `Process` takes from all of them that
a part ends after its context. Definitions named "Faulty variant" are not part of the specifications: each is the model of
a plausible bug, and the property it breaks is named under `mutants` in `PROJECT.json`.

### LogWorker

One worker, any set of `Pollers` (callers of `enqueueWait` and `waitWritten`) and `Streamers` (callers of `enqueue`).
A record is its sequence number, which is all the protocol looks at.

- The worker's fields are the variables `queue`, `sendMu`, `enqueued`, `written`, `failed` and `progress` (a count of the
  channels closed so far; a waiter remembers the count it read in `channel`). All of them
  change under `w.mu`, one critical section per action: `settle` is part of the step that ends a write, and a
  waiter reads the counters and its channel in one section (`worker.go:118-120`).
- A producer's `pc` follows the call: `Lock`, `Send` (or `Overflow` or `SendCancelled`), `SetEnqueued` with the deferred
  unlock, then `ReadTarget`, `CheckWritten`, `Wake` or `WaitCancelled`. Between any two, everybody else may run.
- The goroutine's `wpc` and `stage` follow `run`: `Receive`, `Tick`, `StartDrain`, `DrainReceive`, `DrainEmpty`, and
  within a write `SinkAccepts`, `SinkFails`, `Retry`, `BackoffCancelled`. `Shutdown` ends the root context,
  `CancelPoller` one poller's, and `DrainExpires` the 10 s of `drainAndClose`.
- `accepted` and `dropped` are history: the records of the batches the sink took, and those given up.

### LogPoller

One source with its poller, both cursor copies (`memo` is the store's map, `disk` the file) and one abstract worker per
sink (`out`: handed over and not settled).

- `BeginRound` is `pollOnce` up to the first fetch (catch-up limit, floor, gate, horizon); `FetchPage` or `FetchFails`
  the request; `SkipRepeated` and `Dispatch` the loop over the page; `NotWritten` or `Written` the verdict with the
  cursor's move; `SavePage` and `FinishRound` the saves; `EndRound` the rest of `runPoller`, with retirement.
- `Save` sets the map and either replaces the file or fails, which the code only logs. It prunes by age.
- A line is a timestamp and a hash. `Ignored` are the hashes of services out of scope, `Garbled` those whose timestamp
  does not parse. `Arrive` stores a line late, by less than `Settle`; `PeerMoves` is the deploy poller whose position
  is the gate and the floor; `Crash` loses everything but the file, and `Start` is the restart.
- `skipped` is history: the instants given up on purpose (catch-up limit, floor, a page of one timestamp, lines before
  the start).
- `LogDrain` has no pages, queues, clock or timestamps: a log that grows, what each sink has of it, the position of the
  running poller and the saved one, what has been given up, and a source that may be replaced and then is due what it logged before.
  A position counts the lines of each kind that are behind it; the refinement takes `Vouched` of the poller's cursor and of the file's.

### LogGate

Two pollers, each reduced to its position: any instant may hold a line, and a page is written in batches, each a stretch of
instants. `LogPoller` has the gate and floor of one poller against a position that only grows; here that position is a poller's
own, which may fail, lag, crash and come back at a stored or a fresh cursor.

- `Boot` reads the file and seeds the deploy poller's published position (`pos`) before either poller runs; `Load` is each
  poller's start. `BeginRound` compares with the catch-up limit and the floor, `Gate` limits the horizon. Another
  poller may move between these two and between every later pair of steps.
- A page's batches follow one another up to `upTo`. `Write` is one that the sink behind the stream took, although another sink may
  have dropped it; `Drop` is one that this sink dropped. Either way the worker goes on with the rest of the page, and a page with a
  dropped batch has failed (`pc` is "failed"). `NextPage` and `EndRound` move the cursor past a page that was written in full and
  save it; `FailRound` leaves it, and so does a query that fails. The next round sends the page again.
- `Save` writes one map for both sources and drops every entry older than `PruneAfter`, whoever saves.
- The stream is what Loki keeps: `newest`, and a line more than `Window` behind it is refused.
- History: `reach` (up to where all is delivered or accounted for), `owed` (the entry that a poller that is yet to load should find);
  beyond `reach`, `had` and `dropped` are the instants whose lines were put to the stream, and those whose lines were dropped and
  not put to it since. `rejected` says of which source the stream refused a line that it never had, and whether lines of that source
  had overtaken it ("own") or only those of the other one ("other"). A line that it had before may be refused the second
  time without a loss.

### LogSources

One environment with one service that has a domain. Source 0 (`Env`) is the environment's deploy log, source `d` the
HTTP log of deployment `d`.

- Railway: `Deploy`, `Built` (only if `Staged`: a deployment is built first and may fail). `served` is history: when a
  source may have logged.
- Discovery: `cached`, `expiry`, and `flight`, the request under way, which the manager and the metrics poller share.
  `Fetched` is a full answer, `FetchedBare` one whose `project(id)` query failed, `FetchFails` a failed request; `failed` remembers
  when the latter two happened.
- The manager: `AskTargets` and `Reconcile`, in between it may wait for discovery. The ticker starts after the first
  reconcile, as in `Run`.
- The pollers: `Round` skips to the catch-up limit, and then reads up to the horizon and saves, which prunes every source's stored
  cursor that is too old; or it stops after the skip, when there is nothing to read or the query fails. `Leave` and `Remove` are the two
  steps of a drained poller (it deletes its cursor and returns; its goroutine then takes it out of the maps).
- `Restart` keeps only the stored cursors.
- History: `read`, `given` (given up: skipped at the catch-up limit, which the code counts, or from before the start of a source that a
  new process starts without a cursor) and `withdrawn` (when a poller was retired or cancelled).

### LogStreams

One environment subscription and the build logs of a set of deployments, both started by `Reconcile`.

- The subscription's `phase` follows `runEnvSubscription`, `subscribe` and `dialWS`: `DialFails` tries the next endpoint,
  `DialSucceeds` sends `connection_init`, `Acknowledged` subscribes and asks for what is newer than `after` (`Wanted`), `Receive`
  dispatches a line and moves `after`, `Broken` is a failed read or a server that ends the subscription, `Keepalive` the
  ping that finds out about a dead connection, `Reconnect` the end of the wait.
- A line has an instant and whether that parses. `feed` is what the subscription is yet to send, in the order
  of arrival, which need not be that of the instants. On a new connection it is any part of what was asked for (`Resumed`), and a line that is
  logged while the connection is open may be left out: subscriptions "deliver only part of the lines" and "cannot catch up after an
  outage" (README.md:269).
- A build goes from `queued` (marked as seen) over `Acquire` to `FetchEnds`, or `FetchHangs`: a server that neither completes
  the stream nor closes the connection.
- `GoSilent` and `HostDown` are the network's faults, bounded by `MaxFaults` together with `Broken`.

### ApiClient and Backoff

Callers that call `Execute` again and again. `TakeToken` waits for the limiter, `Unreachable` is a transport error (the
next host in the same attempt), `Answer` the reply with its kind and `X-RateLimit-Remaining`, `Decide` its reading,
`Retry` the end of the wait and `Cancelled` the context's end in each wait. The host of an attempt's n-th try is
`HostOf`. `remaining` is the gauge in `internal/telemetry/self.go` that pollers slow down by (`Throttle`, in tenths). A body that is cut
while it is read is a final error in the code (`Kinds`' `denied`).

`Backoff` computes the two waits with the width of their shift. Both bases are 1953125 times a power of two, so the 64-bit
result is exact without 64-bit numbers. `retryBackoff` and `backoff` rely on an overflow being negative or zero; with these bases one
that is not is a multiple of 2^43 ns, and so above the limit all the same.

### Config and Process

`Config` is pure: what `Load` clamps and `validate` refuses, and what `NewManager`, `NewPoller`, the factories and the cursor
store make of the rest. Limits are scaled down; only their order counts. A configuration in `Process` is what is switched on,
the names that are listed, and the endpoints that are set.

`Process` follows `serve`: `LoadConfig`, `StartPoller`, `StartExporters`, `StartLogs`, `StartServer`, `Drain`, `Exit`, with a `Signal`
possible before each. The metrics poller is in full (`Poll`, `StartQuery` with its slot, `QueryAnswers`, `QueryFails`, `PollEnds`
with the snapshot's replacement, `PollFails`), and so is the push loop (`Push`, `Export`, `ExportersStop`). A snapshot is the set of targets with
samples, and whether the context's end cost it some (history). The log manager is one step here, as `LogWorker`, `LogSources` and
`LogStreams` have it.

## Runs

`tlc -config <cfg> <module>`; all bounds are in the guards, so that liveness can be checked as well.

| Run | Instance | Distinct states | What it shows |
|---|---|---|---|
| `worker` | 1 poller, 1 stream, queue 1, batch 2, 2 attempts, 3 enqueues | 339,744 | numbers, queue order and watermark agree, sound verdicts, no lost wake-up, nothing unwritten at close, the refinement of `LogHandoff`, every page gets its verdict, shutdown completes |
| `poller_pages` | 1 sink, 2 hashes, page of 2, 3 lines, 4 instants, 1 fault | 468,334 | the refinement of `LogDrain` (no position passes what a sink lacks), no duplicates without a fault, no cursor goes back, every settled line is delivered or skipped on purpose |
| `poller_http` | 2 sinks, 2 hashes (1 out of scope), page of 1, 2 lines, gate and floor, retirement | 2,254,038 | the cursor passes only what both sinks took; a retired poller leaves drained |
| `sources` | 2 staged deployments, requests of up to 1 instant, 1 failure or restart, catch-up and pruning 3, 4 instants | 1,482,353 | what is passed over unread is explained, a source is taken away only for cause, pollers leave drained, the environment's saves join |
| `gate` | 4 instants, catch-up 3, pruning 2, skew, lag and window 1, 1 crash, pages of up to 4 batches | 247,467 | a save never costs the other poller what it still has to read, HTTP lines push no deploy line out of the stream's window, both pollers catch up |
| `streams` | 2 hosts, 2 lines, 2 instants, 2 faults, 2 builds with 1 slot | 299,066 | no duplicates over reconnects, a subscription is open again in the end, what is found is started, shutdown completes |
| `client` | 2 callers, 2 hosts, 2 retries, burst 1, budget 2, 2 faults | 115,434 | no call gives up before it has tried every host, waits are paced, calls return, the budget recovers |
| `process` | 9 configurations, 2 targets, 1 slot, 1 failure | 157,376 | healthy targets stay visible, no push of the shutdown's gap, accepted configurations start, shutdown completes |
| `poller_garbled` | as `poller_pages`, one hash does not parse | - | *violated* (`NothingLost`): a full page looks short |
| `sources_stale` | requests take up to 1 instant, no failures | - | *violated* (`NothingPassedOver`): a new source starts after its first lines |
| `sources_staged` | as `sources`, requests take no time and nothing fails, 8 instants | - | *violated* (`ReadToHandover`): the deployment that still serves is retired while the next is built |
| `gate_floor` | as `gate`, no crash | - | *violated* (`HttpInWindow`): the floor is read once per round |

Each run takes less than three minutes with two workers.

Why the bounds are enough:

- *Worker.* A queue of one is full with the first record, a batch of two mixes callers, and three enqueues let the
  poller have two pages, or a page of two, around the stream's record. Two attempts have a retry and a last one. What the
  bounds leave out of the safety properties is covered by the proofs, which hold for any sizes and any number of callers; only
  the two liveness properties rest on the instance.
- *Poller.* Three lines over two hashes are enough for identical lines, for a page that ends inside an instant, for an
  instant with as many lines as a page holds and for a late line below a horizon. One fault at any place is a crash or a
  dropped batch. `Settle`, `CatchUp`, `KindSkew` and `KindLag` are small numbers in the order of their real values.
- *Sources.* Four instants are two reconcile intervals after the first reconcile: a deployment is found, replaced, retired and drained, a
  cancelled source comes back, and one that was away for more than three instants skips. `MaxTroubles` is shared by failed requests,
  partial answers and restarts, so one of them happens at any point. In real time one instant is half of the discovery TTL. The
  catch-up limit is much longer than that, and the pruning age twice the limit; with the small values here both happen within the
  run, and the proofs have no bound on either. The two violated runs have room for eight instants.
- *Gate.* With four instants and limits of two and three, a poller can be behind the floor, behind the catch-up limit, and
  behind the pruning age after an outage, while the other is not; and a page can span more than the stream's window, so that a batch
  is dropped, a later one is taken, and the first comes too late when the page is sent again. In the code the pruning age is twice the catch-up limit;
  with a smaller one more entries are pruned, and the proofs hold for any.
- *Streams.* Two lines in either order of their instants, with or without a date, of which Railway sends any, and two faults: a connection is
  lost while the one before has left a gap, and a host is down when the connection breaks. Two builds compete for a slot.
- *Client.* Three attempts over two hosts come back to the first host; two callers overtake each other's answers.
- *Process.* The nine configurations are a full one, one per part that is switched off, and one per refusal, in `validate`,
  in each `Build` and at the cursor file. Two targets and one slot make a query wait for another.

### Fairness

- A goroutine that can run does run: weak fairness of each step of a producer, worker, poller, subscription and of `serve`.
- `sendMu` and the limiter: strong fairness, as Go's mutex hands over to a waiter after 1 ms and the limiter
  reserves in turn. The build semaphore needs only weak fairness of
  `Acquire`: each build takes a slot once, so in the end a slot that is free stays free until the last in the queue takes it.
- A select between a tick and `ctx.Done()` picks at random: strong fairness of `PollerStops` and `ExportersStop`, a loop does not take the tick for ever.
- A sink replies: the HTTP clients of `sink/loki.go` and `sink/otlp.go` time out after 30 s; so do exports and API calls.
- Hosts that are up answer a dial and acknowledge a connection. Nothing in the code bounds this wait (see below).
- A history query that is retried for ever succeeds now and then (strong fairness of `FetchPage`), and in `LogGate` neither do all
  queries fail nor all batches get dropped: strong fairness of a page that is written in one batch by every sink, and of `EndRound`.
  Crashes are bounded, and in `LogPoller` dropped batches (`MaxFaults`) too; without that a poller may repeat a page for ever.
- A round that has failed ends (weak fairness of `FailRound` once a batch was dropped). `LogSources` states no liveness and no fairness.
- A process that died is started again (`Boot`, `Start`); Railway's budget windows follow one another.
- Nothing forces a line to arrive, a deployment to be made, a shutdown, a signal or a hiccup; a build-log fetch may hang.

### What the models assume of the outside

Railway returns the lines at and after the anchor, oldest first, and a page is short only at the end of the history.
A line is stored within the settle window of its timestamp. The clock does not go back. `latestDeployment` is the most recent
deployment, whatever its status (`internal/railway/discovery.go:100`). Two different lines of one instant have different hashes.
The newest deployment that discovery reads is what Railway has when the answer arrives; if Railway looks earlier, its delay adds to a
request's. A subscription honours `afterDate` and `beforeLimit` (nothing older, apart from that much history), but
delivers any part of the lines. Railway's history, which the pollers read, is complete. Loki refuses a line that is more than its
window behind the newest of its stream, and takes any other.

## Findings

The runs marked *violated* each check one sentence of the repository against what the code does; `PROJECT.json`
(`findings`) has the lines and the quotes.

- `poller_garbled`: `full` is computed after lines without a valid timestamp have been removed, so such a line in a full
  page ends the round and the rest up to the horizon is never read.
- `sources_stale`: the cache expires one TTL after a request has ended and the ticker has the same period, so every
  second reconcile is answered from the cache; it moves `lastReconcile` all the same. A deployment that appears after
  the request and before that tick loses its first lines.
- `sources_staged`: discovery takes a service's latest deployment only if its status is SUCCESS, so it hides the one that serves while
  the next is being built, or for good after a failed build. Its poller is retired, drains up to that instant and leaves; what
  the deployment logs from then on, up to the handover, is not read. This needs no failure and no delay.
- `gate_floor`: the cursor is compared with the floor once, before the round's first page. While that page is fetched the deploy
  poller moves on, and the HTTP poller then sends lines that the stream refuses, without a count.

### Behaviours that differ from the documentation, without a run

Seen while modelling, and left out of the runs because another property already reaches them or because the model
would only repeat the code:

- `enqueue` "never blocks" (`worker.go:15-16`), but it waits for `sendMu`, which a poller holds while it waits for room in the queue
  (`worker.go:68`): a sink that stalls, stalls a stream.
- A full page can span more than the stream's window. If a sink drops a batch and takes a later one of the same page, "the next poll
  sends the page again" (README.md:274), but the stream may then refuse the lines that were dropped as too old, without a count: `rejected`
  with "own" in `LogGate`. `DeployInWindow` is about the other source.
- The bare target of a project token (`internal/target/provider.go:196`) has no services at all: a failed `project(id)` query retires every
  HTTP poller, although discovery keeps the old targets when the whole request fails. `LossesExplained` and `WithdrawnForCause` have this as a failure.
- A deployment that is replaced before a restart keeps its entry in the cursor file, but only sources that discovery lists get a
  poller (`pipeline.go:331`), so nobody reads the rest, although "a restart resumes from the cursors" (README.md:275).
- Names of sinks and exporters are compared without case in `validate` and with case in `Build`: `OTLP` passes the first, and
  needs the endpoint, but fails in the second. Unknown names fail there too, and so after goroutines have started.
- When the HTTP server cannot listen, `serve` drains and returns `nil`: the exit status is 0.
- A response body that is cut mid-way is decoded as it is, and is a final error (`internal/railway/client.go:274`), although `Execute`
  "retries transient failures" (`client.go:185-188`).
- A scrape of `/metrics` between the last poll and the server's end may see the snapshot that the shutdown has cut;
  a push may not (`NoShutdownGap`).
- After an outage longer than the pruning age, the first poller that saves decides whether the others still find their entries,
  and that gap is neither logged nor counted.
- The dial and its handshake, and the wait for `connection_ack`, end only with the context (`internal/railway/ws.go:142`).
- A build-log fetch whose server never completes the stream keeps its slot until shutdown (`pipeline.go:638`).
- At shutdown a stream's record can stay on the queue of a worker that has closed its sink.
- A deployment that lives between two reconciles is never polled.

## Proofs

All theorems hold for every value of the constants that satisfies the named assumptions of the module. `NoneAssumption` only says
that `None` is not one of the values it stands beside, as `NoneCountsAssumption` does for the counts of `LogDrain`. One hypothesis
goes further, and is explained below: `Garbled = {}`.

| Module | Theorem | Property |
|---|---|---|
| `LogWorkerProofs` | `TypeCorrect` | `TypeOK` |
| | `QueueOrdered` | `QueueInSeqOrder` |
| | `SettledOnce` | `SettledUpToWritten` |
| | `VerdictIsSound` | `VerdictSound` |
| | `WakeupsAreKept` | `NoLostWakeup` |
| | `NothingUnwrittenAtClose` | `FlushedBeforeClose` |
| | `WorkerImplementsHandoff` | `ImplementsHandoff` |
| `LogPollerProofs` | `TypeCorrect` | `TypeOK` |
| | `NothingIsLost` (if no timestamp is garbled) | `NothingLost` |
| | `NothingTwice` | `NoDuplicates` |
| | `NeverBack` | `CursorNeverBack` |
| | `DrainsBeforeGone` (if no timestamp is garbled) | `DrainedBeforeGone` |
| | `PollerImplementsDrain` (if no timestamp is garbled) | `ImplementsDrain` |
| `LogSourcesProofs` | `TypeCorrect` | `TypeOK` |
| | `DeployStretchesJoin` | `DeploySavesJoin` |
| | `EveryLossIsExplained` | `LossesExplained` |
| | `TakenAwayForCause` | `WithdrawnForCause` |
| | `DrainsBeforeLeaving` | `DrainedBeforeLeaving` |
| `LogStreamsProofs` | `TypeCorrect` | `TypeOK` |
| | `NoneTwice` | `NoDuplicates` |
| `LogGateProofs` | `GateTypeCorrect` | `TypeOK` |
| | `CursorsAccounted` | `Accounted` |
| | `DeployStaysInWindow` | `DeployInWindow` |
| `ApiClientProofs` | `ClientTypeCorrect` | `TypeOK` |
| | `ExhaustionIsReal` | `NoFalseExhaustion` |
| | `WaitsArePaced` | `WaitsPaced`, and the same of every attempt |
| `ProcessProofs` | `TypeCorrect` | `TypeOK` |
| | `ConfigIsSound` | `ConfigSound` |
| | `HealthyTargetsStay` | `HealthyStayVisible` |
| | `GapIsNotPushed` | `NoShutdownGap` |

*Worker* (`WorkerAssumption`: sizes are positive, pollers and streams are different processes, `None` is neither). The
theorems follow from `Invariance`, `Spec => []IInv`; none of the properties is inductive alone. That a verdict is sound
needs to know where a page lies among the sequence numbers (`PageInv`: after its mark, up to its target). That the
target counts all of the page needs that numbers are given out one at a time, which is the mutual exclusion of
`sendMu` (`MutexInv`), and that `enqueued` lags behind the channel by at most the one record whose sender is between
the send and `setEnqueued` (`OrderInv`, which also says that batch and queue continue `written` without a gap). That
`failed` alone tells of every drop after the mark needs that it is the greatest dropped number (`SettleInv`). `SizeInv`
bounds the batch, and `WaitInv` says that who waits on the current `progress` channel waits for something open. Each
conjunct has a lemma with one step per action. The refinement maps `pending` to the contents of batch and queue; with
`OrderInv` that is an interval, and settling a batch takes its lower part.

*Poller* (`PollerAssumption`). What holds whatever fails is `Inductive`: `Vouching` says that a cursor, be it the poller's, the map's, the
file's or the one the page builds, counts no more lines of its timestamp than are stored, and that a line behind it can no longer arrive unless
the gap was given up; hence lines that arrive late never move below a cursor. `Paging` says that the page in hand is sorted, goes on
where `next` is, and together with what is behind (`Handled`) has no line more often than it is stored; this is where pages that overlap
and identical lines matter. `Once` bounds what a sink has by what the poller's position vouches for, and gives `NoDuplicates`; `Vouching` and the
guards of `Written` and `FinishRound` give `CursorNeverBack`. `NothingLost` needs three more parts: a page misses nothing up to the
horizon, or up to its end if it is full (`Complete`); what `next` vouches for was accepted or handed over behind the mark, unless
a failure will show (`PageDelivered`, with `Fresh`, the part of the worker's queue behind the mark); and at the end of a round all of it was
accepted (`RoundDelivered`). `Complete` is false when a page holds a line whose timestamp does not parse, since `full` is computed after that
line is gone. Therefore `NothingIsLost` and `DrainsBeforeGone` assume `Garbled = {}`, and the run `poller_garbled` shows the loss without it.

That the poller implements `LogDrain` (`PollerImplementsDrain`) puts these together: a step of the poller is one of the drain's, or nothing the
drain sees. A move of the cursor is a `Move` because `NothingLost` holds after it too, hence the same assumption; that a late line lands behind no position
is `Vouching`, and so a poller that has left, with its cursor past the retirement, is due nothing that arrives later. Lines that are given
up leave both positions at once, so a `Skip` needs no delivery. `Logged` adds that nothing is invented: what is on a page or on a worker's queue
has been logged. The remaining theorems on the poller assume nothing of the timestamps.

*Lines* (`LineSeqProofs`). How often a sequence holds a line is a cardinality, so no induction over sequences is needed: `CountConcat`, `CountInsert`
and `CountTail` come from bijections between index sets. `OrderedLists` says that `Ordered` enumerates a finite set of numbers in order, which
is what a filter keeps of a page (`Parsed`) or of the log (`Resumed`). `SortedPrefix` finds an instant's place in a sorted history.

*Sources* (`SourcesAssumption`). "A source that appears later was not active before" the last reconcile (`pipeline.go:89-91`) is not
true of the code: `sources_stale` has a request that takes time, a partial answer hides a deployment that serves, a new process starts
its sources at `startedAt - Lookback`, and a cursor that is too old skips. `LossesExplained` says what is left, for requests of any
length, any failures, restarts, absences and settings. An instant at which a source may have logged, and which its poller has passed, was read; or it was
given up, with a count or before the start of the process; or it has one of three causes: it is among the source's first, within one discovery
interval; discovery failed later, or within the interval before; or discovery had taken the deployment away by then, which `WithdrawnForCause` says
happens only for a newer deployment or after a failure. The second cause is wide, since any later failure may take away a source that was
late to be found; without failures, what is lost is the first interval of a source, and what a deployment logs after it was taken away.

All of it follows from one invariant (`Inv`), proved inductive by `Invariance`. Only a deployment that has been up serves, is found or has a
poller (`Serving`). Unless discovery failed in the interval before it was filled, a cache names a deployment that has a poller until the next one is made
(`Named`), and what it does not name, and is not replaced, had served nothing by then (`Filled`). What is applied is the cache, or discovery has
just failed (`Answers`, with `Phases` and `Clocked`, which keep the ticker, the expiry and the clock in line). Hence what has no poller
and may still be found has lost nothing unexplained before the last reconcile (`Unpolled`), which is where `StartOf` lets it begin, and neither
has anything below a cursor, saved or running (`Polled`). A retired poller is recorded as withdrawn, and has drained when it leaves (`Retired`).
`DeployStretchesJoin` has its own invariant: `DeploySaved` says that the environment's saved cursor was read to, and that the poller,
which begins there, has since read or skipped with a count all it has passed. Pruning breaks the chain only by removing the entry,
and then no two saves are next to each other.

*Streams* (`StreamsAssumption`). Whatever part of the lines Railway sends: `Newest`: `after` is past every dated line that was received. `Fed`: what a subscription is yet to send
comes in order, each line once, and without a backfill none with a date has been received. The first gives the second at every reconnect.
`TypeOK` includes that no more builds are fetched than there are slots.

*Gate* (`GateAssumption`: `KindSkew <= KindLag <= Window`, as the constants of `poll.go` and Loki's default have it). `Accounted` needs `Stored`:
what the map and the file hold between a boot and a poller's load. `DeployInWindow` needs `Lead`, which bounds the
stream's newest line: either a deploy line that is not accounted for yet is as new (`had`), or it is at most `KindSkew` past `Edge`, where
the deploy logs are accounted for, or will be as soon as the deploy poller has loaded its cursor. `Edge` never goes
back, so a gate that was computed from an old position stays within it. A deploy line that the stream never had lies above `Edge`. So
when it is refused, it is refused for a newer deploy line, never for an HTTP line, which is at most `KindSkew <= Window` ahead; and without
dropped batches deploy lines come in order.

*Client* (`ClientAssumption`: no more hosts than attempts, as with the default two and five). `FirstHostsFailed`: of a call in attempt `k`, the
first hosts of attempts `0 .. k-1` have failed it, and so has that of attempt `k` once it has gone on to another. Attempt `k` starts with host
`k % NHosts`, so after `NHosts` attempts that is all of them.

*Process*. `PollInv`: during a poll every target is yet to start, holds a slot, has answered, or was lost by a query or by discovery;
at the end the first two are empty. `Uncut`: as long as the context lives no snapshot was cut by its end, and an export that is
accepted was accepted while it lived. `Starting` orders the start of the parts, which gives the types and `FailsOnNames`: an endpoint that
`validate` has asked for cannot be what a factory misses. `AnySizesSound` and `AnyPollsSound` state the clamps and the manager's defaults for all
integers, of which the tables of `Config` are a part.

*Waits*. The first ten attempts are computed one by one (`FirstWaits`): the waits double until they reach their limits. After the tenth, `Wait`
is the limit whether or not what is left of the shifted base is positive (`LaterWaits`). That `Wait` is right in this, i.e. that an overflow which
comes out positive is above the limit, is in the comment of `Backoff` and not proved against a 64-bit shift: the prover's integers
are not exact beyond 62 bits, so no proof here uses numbers of that size.

Only model-checked: liveness (`PageDecided`, `EventuallyDelivered`, `CaughtUp`, `StaysSubscribed`, `FoundIsStarted`, `CallsReturn`,
`BudgetRecovers`, `ShutdownCompletes`), which needs `ENABLED` and is out of the prover's reach. Every other property of a passing run
is stated by a theorem. What a recursive definition
computes is out of reach as well (induction over data), and `RECURSIVE` operators cannot be in a module with proofs; there are none here.

## Not modelled

- The per-service scope of the manager beyond its validation, and a subscription that discovery takes away.
- Filters, record conversion, sink and exporter encodings, the collector's rendering, the parsing of environment variables,
  tokens and attributes, the HTTP handlers, the discovery queries and the metrics catalogue: sequential code, tables or plain
  I/O without a protocol.
- The `doctor` command: sequential preflight queries. Counters and gauges, except the request budget, which the program reads back.
- Delays (batch timer, poll interval) only stretch steps, and are nondeterministic here.
- More than one source of each kind: `LogGate` has one deploy and one HTTP poller.

## Plan

Every safety property of the runs is proved, under the hypotheses named above. What is left, in this order:

1. The per-service scope, with its deploy poller per service and the gate keyed by service.
2. A subscription that discovery takes away and gives back.
3. Two more abstract specifications: one of what the manager promises (every moment a source serves is read by one poller), which
   `LogSources` implements up to what `LossesExplained` names, and one of two drains with a common stream for `LogGate`.
