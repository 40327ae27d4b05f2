----------------------------- MODULE LogPoller -----------------------------
(***************************************************************************)
(* One log poller (internal/logs/poll.go, cursor.go): it pages one         *)
(* source's log history from its cursor up to a horizon, hands every line  *)
(* to every sink's worker, waits for the workers' verdicts, and only then  *)
(* moves and saves the cursor.                                             *)
(*                                                                         *)
(* Railway, the sinks' workers and the clock are the environment.  Railway *)
(* keeps the source's lines in time order and may store a line late, but   *)
(* within Settle of its timestamp.  A worker keeps the promise of          *)
(* LogHandoff: what it was handed is settled oldest first, each batch      *)
(* accepted or dropped as a whole.                                         *)
(*                                                                         *)
(* The unit of time is the step of a timestamp (a nanosecond in the code). *)
(***************************************************************************)
EXTENDS LineSeqs

CONSTANTS
    Sinks,      \* one worker each
    Hashes,     \* what tells two lines with one timestamp apart
    Ignored,    \* hashes of the lines of services that are not in scope
    Garbled,    \* hashes of the lines whose timestamp does not parse
    PageSize,   \* pollPageSize
    Settle,     \* m.settle
    CatchUp,    \* m.maxCatchUp
    Lookback,   \* m.initialLookback
    PruneAfter, \* pruneAfter of the cursor store
    Http,       \* TRUE for an HTTP poller: it has a gate and a floor, and can be retired
    KindSkew, KindLag,  \* maxKindSkew, maxKindLag
    MaxTime,    \* bound: the last instant of a behaviour
    MaxLines,   \* bound: lines the source logs
    MaxFaults,  \* bound: crashes and dropped batches
    None

ASSUME PollerAssumption ==
    /\ Ignored \subseteq Hashes /\ Garbled \subseteq Hashes
    /\ PageSize \in Nat \ {0}
    /\ Settle \in Nat \ {0} /\ CatchUp \in Nat /\ Lookback \in Nat
    /\ PruneAfter \in Nat
    /\ Http \in BOOLEAN
    /\ KindSkew \in Nat /\ KindLag \in Nat
    /\ MaxTime \in Nat /\ MaxLines \in Nat /\ MaxFaults \in Nat

Line == [ts : 1..MaxTime, hash : Hashes]

\* Cursor: the lines up to ts are delivered, and of those at ts the ones that
\* seen counts.
Cursor == [ts : Int, seen : [Hashes -> Nat]]

ASSUME NoneAssumption == None \notin Cursor \cup Int

At(t) == [ts |-> t, seen |-> [h \in Hashes |-> 0]]

VARIABLES
    now, stored,
    peer,      \* the position of the deploy poller that an HTTP poller follows
    \* the poller
    pc,        \* "off", "idle", "fetch", "page", "save", "finish", "round" or "gone"
    cursor,    \* *cur, or None while the poller does not run
    retireAt,  \* None until the source is retired
    horizon, err,
    todo,      \* the lines of the page that are still to be dispatched
    full, next, seen,
    \* the cursor store: this poller's entry in memory, and in the file
    memo, disk,
    \* per worker
    out,       \* the lines handed over and not settled
    older,     \* how many of them were handed over before the page's mark
    failed,    \* a batch with a record enqueued since the mark was dropped
    \* history
    accepted,  \* how often the sink took a line
    skipped,   \* the timestamps given up: logged and counted, or before the start
    faults

source  == <<now, stored, peer>>
round   == <<horizon, err>>
page    == <<todo, full, next, seen>>
store   == <<memo, disk>>
workers == <<out, older, failed, accepted>>
vars == <<source, pc, cursor, retireAt, round, page, store, workers, skipped, faults>>

Lesser(a, b) == IF a <= b THEN a ELSE b
Greater(a, b) == IF a >= b THEN a ELSE b

NoPage ==
    /\ todo' = <<>> /\ full' = FALSE /\ next' = None
    /\ seen' = [h \in Hashes |-> 0]

Init ==
    /\ now = 0 /\ stored = <<>> /\ peer = 0
    /\ pc = "off" /\ cursor = None /\ retireAt = None
    /\ horizon = 0 /\ err = FALSE
    /\ todo = <<>> /\ full = FALSE /\ next = None
    /\ seen = [h \in Hashes |-> 0]
    /\ memo = None /\ disk = None
    /\ out = [s \in Sinks |-> <<>>]
    /\ older = [s \in Sinks |-> 0]
    /\ failed = [s \in Sinks |-> FALSE]
    /\ accepted = [s \in Sinks |-> [l \in Line |-> 0]]
    /\ skipped = {} /\ faults = MaxFaults

-----------------------------------------------------------------------------
(* The cursor                                                              *)

\* Faulty variant of Advance: the count starts over with every line.
AdvanceForgets(c, l) ==
    [ts |-> l.ts, seen |-> [At(l.ts).seen EXCEPT ![l.hash] = 1]]

\* advance records a delivered line.
Advance(c, l) ==
    IF l.ts > c.ts
    THEN [ts |-> l.ts, seen |-> [At(l.ts).seen EXCEPT ![l.hash] = 1]]
    ELSE [c EXCEPT !.seen[l.hash] = @ + 1]

\* Save: the entry is replaced, unless it is so old that it is pruned at once,
\* and the file is rewritten, or left as it was if writing it fails.
Save(c) ==
    /\ memo' = IF c.ts < now - PruneAfter THEN None ELSE c
    /\ disk' \in {memo', disk}

-----------------------------------------------------------------------------
(* The poller                                                              *)

\* runPoller loads the cursor.  Without one it starts a little before the
\* process did.  A retired source is not discovered after a restart.
Start ==
    /\ pc = "off" /\ retireAt = None
    /\ memo' = disk
    /\ IF disk # None
       THEN cursor' = disk /\ UNCHANGED skipped
       ELSE /\ cursor' = At(now - Lookback)
            /\ skipped' = skipped \cup {t \in 1..MaxTime : t < now - Lookback}
    /\ pc' = "idle"
    /\ UNCHANGED <<source, retireAt, round, page, disk, workers, faults>>

\* Faulty variant of Horizon: lines are read before they have settled.
HorizonNow == now

\* How far a round reads: only settled lines, and no further ahead of the
\* deploy poller than the gate allows.
Horizon ==
    IF Http THEN Lesser(now - Settle, peer + KindSkew) ELSE now - Settle

\* The oldest position a round still reads from.
Floor ==
    IF Http THEN Greater(now - CatchUp, peer - KindLag) ELSE now - CatchUp

\* pollOnce up to its page loop: skip ahead to the floor, and return at once
\* if nothing below the horizon is left to read.
BeginRound ==
    /\ pc = "idle"
    /\ LET c == IF cursor.ts < Floor THEN At(Floor) ELSE cursor IN
       /\ cursor' = c
       /\ skipped' = skipped \cup {t \in 1..MaxTime : cursor.ts <= t /\ t < c.ts}
       /\ horizon' = Horizon
       /\ pc' = IF Horizon > c.ts THEN "fetch" ELSE "round"
    /\ err' = FALSE
    /\ UNCHANGED <<source, retireAt, page, store, workers, faults>>

FetchFails ==
    /\ pc = "fetch"
    /\ err' = TRUE
    /\ pc' = "round"
    /\ UNCHANGED <<source, cursor, retireAt, horizon, page, store, workers,
                   skipped, faults>>

\* What Railway returns for an anchor: the oldest lines at or after it, up to
\* limit of them.
History(anchor, limit) ==
    LET passed == Cardinality({i \in DOMAIN stored : stored[i].ts < anchor})
    IN  SubSeq(stored, passed + 1, Lesser(passed + limit, Len(stored)))

Parses(l) == l.hash \notin Garbled

\* The lines of a page that convert could date.
Parsed(lines) ==
    LET kept == Ordered({i \in DOMAIN lines : Parses(lines[i])})
    IN  [k \in DOMAIN kept |-> lines[kept[k]]]

\* marks: from here on a worker's failures count against this page.
TakeMarks ==
    /\ older' = [s \in Sinks |-> Len(out[s])]
    /\ failed' = [s \in Sinks |-> FALSE]

\* A page arrives, without the lines that convert could not date, and the
\* workers' marks are taken.  Railway answers with up to one line more than it
\* was asked for.
FetchPage ==
    /\ pc = "fetch"
    /\ \E limit \in {PageSize, PageSize + 1} :
          todo' = Parsed(History(cursor.ts, limit))
    /\ full' = (Len(todo') >= PageSize)
    /\ next' = cursor /\ seen' = cursor.seen
    /\ TakeMarks
    /\ pc' = "page"
    /\ UNCHANGED <<source, cursor, retireAt, round, store, out, accepted,
                   skipped, faults>>

\* The next line of the page is at or below the horizon.
Within == todo # <<>> /\ Head(todo).ts <= horizon

\* Faulty variant of Repeated: a line that was seen once is never new again.
RepeatedAlways(l) == l.ts = cursor.ts

\* The line was delivered with the page before.
Repeated(l) == l.ts = cursor.ts /\ seen[l.hash] > 0

SkipRepeated ==
    /\ pc = "page" /\ Within
    /\ Repeated(Head(todo))
    /\ seen' = [seen EXCEPT ![Head(todo).hash] = @ - 1]
    /\ todo' = Tail(todo)
    /\ UNCHANGED <<source, pc, cursor, retireAt, round, full, next, store,
                   workers, skipped, faults>>

\* dispatchWait: the line goes to every worker if its service is in scope.
DispatchWait(l) ==
    out' = IF l.hash \in Ignored THEN out
           ELSE [s \in Sinks |-> Append(out[s], l)]

Dispatch ==
    /\ pc = "page" /\ Within
    /\ ~Repeated(Head(todo))
    /\ DispatchWait(Head(todo))
    /\ next' = Advance(next, Head(todo))
    /\ todo' = Tail(todo)
    /\ UNCHANGED <<source, pc, cursor, retireAt, round, full, seen, store,
                   older, failed, accepted, skipped, faults>>

\* Faulty variant of Settled: one worker speaks for all.
SettledAny == pc = "page" /\ ~Within /\ \E s \in Sinks : out[s] = <<>>

\* waitWritten: every worker has settled what it was handed.
Settled == pc = "page" /\ ~Within /\ \A s \in Sinks : out[s] = <<>>

\* A worker reports a failure (errDelivery).  Those after it in the list are
\* not asked, and may still hold lines of the page.
NotWritten ==
    /\ pc = "page" /\ ~Within
    /\ \E s \in Sinks : out[s] = <<>> /\ failed[s]
    /\ err' = TRUE
    /\ NoPage
    /\ pc' = "round"
    /\ UNCHANGED <<source, cursor, retireAt, horizon, store, workers, skipped,
                   faults>>

\* A line beyond the horizon ended the page.
Beyond == todo # <<>>

\* Faulty variant of Stuck: a page of one timestamp is read again and again.
NeverStuck == FALSE

\* A full page of lines with the cursor's timestamp: the anchor cannot pass it.
Stuck == full /\ ~Beyond /\ next.ts <= cursor.ts

\* Every sink accepted the page: the cursor moves.
Written ==
    /\ Settled
    /\ \A s \in Sinks : ~failed[s]
    /\ cursor' = IF Stuck THEN At(next.ts + 1) ELSE next
    /\ skipped' = IF Stuck THEN skipped \cup ({next.ts} \cap 1..MaxTime) ELSE skipped
    /\ pc' = IF Beyond \/ ~full THEN "finish" ELSE "save"
    /\ NoPage
    /\ UNCHANGED <<source, retireAt, round, store, workers, faults>>

\* The cursor is saved between two pages of a round.
SavePage ==
    /\ pc = "save"
    /\ Save(cursor)
    /\ pc' = "fetch"
    /\ UNCHANGED <<source, cursor, retireAt, round, page, workers, skipped, faults>>

\* Faulty variant of Reached: what was seen at the horizon is forgotten.
ReachedAnew(c) == At(horizon)

\* The cursor after the last page: at the horizon, even if the source was quiet.
Reached(c) == IF c.ts < horizon THEN At(horizon) ELSE c

FinishRound ==
    /\ pc = "finish"
    /\ cursor' = Reached(cursor)
    /\ Save(Reached(cursor))
    /\ pc' = "round"
    /\ UNCHANGED <<source, retireAt, round, page, workers, skipped, faults>>

\* Faulty variant of Drained: the time is up, whatever has been delivered.
DrainedByTime == retireAt # None /\ now - Settle >= retireAt

\* A retired source has been read up to its retirement.
Drained == retireAt # None /\ ~err /\ cursor.ts >= retireAt

\* runPoller between two rounds: stop if drained, deleting the cursor, or wait
\* for the next round.
EndRound ==
    /\ pc = "round"
    /\ IF Drained
       THEN /\ memo' = None
            /\ disk' \in {None, disk}
            /\ pc' = "gone"
       ELSE pc' = "idle" /\ UNCHANGED store
    /\ UNCHANGED <<source, cursor, retireAt, round, page, workers, skipped, faults>>

-----------------------------------------------------------------------------
(* The environment                                                         *)

Tick ==
    /\ now < MaxTime
    /\ now' = now + 1
    /\ UNCHANGED <<stored, peer, pc, cursor, retireAt, round, page, store,
                   workers, skipped, faults>>

\* Railway stores a line, within Settle of its timestamp.
Arrive(l) ==
    /\ Len(stored) < MaxLines
    /\ now - Settle < l.ts /\ l.ts <= now
    /\ \E i \in 0..Len(stored) :
          /\ \A j \in 1..i : stored[j].ts <= l.ts
          /\ \A j \in i+1..Len(stored) : stored[j].ts >= l.ts
          /\ stored' = PutBehind(stored, i, l)
    /\ UNCHANGED <<now, peer, pc, cursor, retireAt, round, page, store, workers,
                   skipped, faults>>

\* The deploy poller of the same environment moves on.
PeerMoves ==
    /\ Http /\ peer < now - Settle
    /\ peer' \in peer + 1 .. now - Settle
    /\ UNCHANGED <<now, stored, pc, cursor, retireAt, round, page, store, workers,
                   skipped, faults>>

\* reconcile no longer finds the deployment: it has been replaced.
Retire ==
    /\ Http /\ retireAt = None
    /\ pc \notin {"off", "gone"}
    /\ retireAt' = now
    /\ UNCHANGED <<source, pc, cursor, round, page, store, workers, skipped, faults>>

\* A sink takes a batch that ends with the n-th of the worker's lines.
Accept(s) ==
    /\ \E n \in 1..Len(out[s]) :
          /\ accepted' = [accepted EXCEPT ![s] =
                [l \in Line |-> @[l] + Count(SubSeq(out[s], 1, n), l)]]
          /\ out' = [out EXCEPT ![s] = SubSeq(@, n + 1, Len(@))]
          /\ older' = [older EXCEPT ![s] = Greater(@ - n, 0)]
    /\ UNCHANGED <<source, pc, cursor, retireAt, round, page, store, failed,
                   skipped, faults>>

\* A worker drops a batch.  With n = 0 the batch holds only another source's
\* records, enqueued since the mark.
Drop(s) ==
    /\ faults > 0 /\ faults' = faults - 1
    /\ \E n \in 0..Len(out[s]) :
          /\ failed' = [failed EXCEPT ![s] = @ \/ n = 0 \/ n > older[s]]
          /\ out' = [out EXCEPT ![s] = SubSeq(@, n + 1, Len(@))]
          /\ older' = [older EXCEPT ![s] = Greater(@ - n, 0)]
    /\ UNCHANGED <<source, pc, cursor, retireAt, round, page, store, accepted,
                   skipped>>

\* The process dies: what is left is the cursor file.
Crash ==
    /\ faults > 0 /\ faults' = faults - 1
    /\ pc \notin {"off", "gone"}
    /\ pc' = "off" /\ cursor' = None /\ memo' = None
    /\ horizon' = 0 /\ err' = FALSE
    /\ NoPage
    /\ out' = [s \in Sinks |-> <<>>]
    /\ older' = [s \in Sinks |-> 0]
    /\ failed' = [s \in Sinks |-> FALSE]
    /\ UNCHANGED <<source, retireAt, disk, accepted, skipped>>

\* The source is gone for good: drained, or retired before a restart.
Ended ==
    /\ pc = "gone" \/ (pc = "off" /\ retireAt # None)
    /\ UNCHANGED vars

Poll ==
    \/ Start \/ BeginRound \/ FetchFails \/ FetchPage \/ SkipRepeated
    \/ Dispatch \/ NotWritten \/ Written \/ SavePage \/ FinishRound \/ EndRound

Next ==
    \/ Poll
    \/ Tick \/ PeerMoves \/ Retire \/ Crash
    \/ \E l \in Line : Arrive(l)
    \/ \E s \in Sinks : Accept(s) \/ Drop(s)
    \/ Ended

Spec == Init /\ [][Next]_vars

(***************************************************************************)
(* Fairness: the poller's goroutine runs, the clock advances, Railway does *)
(* not fail every query, and a worker settles what it holds (PageDecided   *)
(* of LogWorker).  Dropped batches and crashes are bounded by MaxFaults: a *)
(* sink that rejects a line for ever holds its page for ever.              *)
(***************************************************************************)
FairSpec ==
    /\ Spec
    /\ WF_vars(Start) /\ WF_vars(BeginRound) /\ SF_vars(FetchPage)
    /\ WF_vars(SkipRepeated) /\ WF_vars(Dispatch)
    /\ WF_vars(NotWritten) /\ WF_vars(Written)
    /\ WF_vars(SavePage) /\ WF_vars(FinishRound) /\ WF_vars(EndRound)
    /\ WF_vars(Tick)
    /\ \A s \in Sinks : WF_vars(Accept(s))

-----------------------------------------------------------------------------
(* Properties                                                              *)

TypeOK ==
    /\ now \in 0..MaxTime /\ stored \in Seq(Line) /\ Len(stored) <= MaxLines
    /\ peer \in 0..MaxTime
    /\ pc \in {"off", "idle", "fetch", "page", "save", "finish", "round", "gone"}
    /\ cursor \in Cursor \cup {None}
    /\ retireAt \in 0..MaxTime \cup {None}
    /\ horizon \in Int /\ err \in BOOLEAN
    /\ todo \in Seq(Line) /\ full \in BOOLEAN
    /\ next \in Cursor \cup {None} /\ seen \in [Hashes -> Nat]
    /\ memo \in Cursor \cup {None} /\ disk \in Cursor \cup {None}
    /\ out \in [Sinks -> Seq(Line)]
    /\ older \in [Sinks -> Nat] /\ \A s \in Sinks : older[s] <= Len(out[s])
    /\ failed \in [Sinks -> BOOLEAN]
    /\ accepted \in [Sinks -> [Line -> Nat]]
    /\ skipped \subseteq 1..MaxTime
    /\ faults \in 0..MaxFaults

\* The lines the poller owes the sinks.
Wanted ==
    {l \in Line : l.hash \notin Ignored \cup Garbled /\ l.ts \notin skipped}

\* How many lines like l a cursor vouches for.
Vouched(c, l) ==
    IF l.ts < c.ts THEN Count(stored, l)
    ELSE IF l.ts = c.ts THEN c.seen[l.hash] ELSE 0

\* "Every line up to and including TS has been written to every sink"
\* (cursor.go:15-18): no line a cursor has passed is missing from a sink, for
\* the cursor the poller holds and for the one a restart would resume from,
\* but for the gaps that are logged and counted.
NothingLost ==
    \A c \in {cursor, memo, disk} \ {None} : \A s \in Sinks : \A l \in Wanted :
        accepted[s][l] >= Vouched(c, l)

\* A page that starts at the previous page's last timestamp repeats lines, and
\* two lines may be identical: while nothing fails, a sink still gets each
\* line exactly once.
NoDuplicates ==
    faults = MaxFaults =>
        \A s \in Sinks : \A l \in Line :
            accepted[s][l] + Count(out[s], l) <= Count(stored, l)

\* a is at least as far as b.
Ahead(a, b) ==
    \/ a.ts > b.ts
    \/ a.ts = b.ts /\ \A h \in Hashes : a.seen[h] >= b.seen[h]

\* Neither the running poller nor the cursor file ever goes back, not even when
\* a restarted poller redoes a stretch and saves it again.
CursorNeverBack ==
    [][/\ (cursor # None /\ cursor' # None) => Ahead(cursor', cursor)
       /\ (disk # None /\ disk' # None) => Ahead(disk', disk)]_vars

\* A retired poller stops only after it has delivered all that its deployment
\* logged before the handover (README.md:272), whatever failed on the way.  (A
\* line of the very instant retireAt can stay behind: a cursor that a skip has
\* put there counts as drained.)
DrainedBeforeGone ==
    pc = "gone" =>
        \A s \in Sinks : \A l \in Wanted :
            l.ts < retireAt => accepted[s][l] >= Count(stored, l)

\* Every line is delivered in the end, whatever failed on the way, unless its
\* timestamp is skipped, the source is retired, or the behaviour ends before
\* the line has settled.
EventuallyDelivered ==
    <>[](\A s \in Sinks : \A l \in Line :
            \/ accepted[s][l] >= Count(stored, l) \/ l.hash \in Ignored
            \/ l.ts \in skipped \/ retireAt # None
            \/ l.ts >= MaxTime - Settle)

\* None is no count of lines either.
ASSUME NoneCountsAssumption == None \notin [Line -> Nat]

\* What a cursor counts of the lines the poller owes.
Counted(c) ==
    IF c = None THEN None
    ELSE [l \in Line |-> IF l \in Wanted THEN Vouched(c, l) ELSE 0]

(***************************************************************************)
(* The poller implements the drain of a log that LogDrain specifies: its   *)
(* position is what its cursor vouches for, and a restart's is what the    *)
(* file's cursor does.                                                     *)
(***************************************************************************)
Drain == INSTANCE LogDrain WITH
    Lines <- Line,
    Scope <- {l \in Line : l.hash \notin Ignored \cup Garbled},
    log <- [l \in Line |-> Count(stored, l)],
    given <- {l \in Line : l.ts \in skipped},
    sent <- accepted,
    position <- Counted(cursor),
    saved <- Counted(disk),
    retired <- retireAt # None,
    due <- {l \in Line : retireAt # None /\ l.ts < retireAt},
    ended <- pc = "gone"

\* Every behaviour of the poller is one of LogDrain.
ImplementsDrain == Drain!Spec

=============================================================================
