------------------------------ MODULE LogGate ------------------------------
(***************************************************************************)
(* An environment's deploy poller and an HTTP poller side by side          *)
(* (internal/logs/poll.go, cursor.go): they share the cursor store and,    *)
(* behind an OTLP collector, one Loki stream, which rejects a line that is *)
(* more than Window behind the newest it holds.  The HTTP poller's gate    *)
(* and floor read the deploy poller's position while that one moves.       *)
(*                                                                         *)
(* LogPoller has the lines of one poller; here a poller is its position,   *)
(* any instant may hold a line, and a page is written in batches, each a   *)
(* stretch of instants, of which the sink may drop any.  The source stays  *)
(* in discovery (LogSources has its coming and going).                     *)
(***************************************************************************)
EXTENDS Integers

CONSTANTS
    Settle,     \* m.settle
    CatchUp,    \* m.maxCatchUp
    PruneAfter, \* of the store: serve makes it twice the catch-up limit
    Lookback,   \* m.initialLookback
    KindSkew, KindLag,  \* maxKindSkew, maxKindLag
    Window,     \* how far behind its stream's newest line Loki takes a line
    MaxTime,    \* bound: the last instant of a behaviour
    MaxCrashes, \* bound: crashes
    None

ASSUME GateAssumption ==
    /\ Settle \in Nat /\ CatchUp \in Nat \ {0}
    /\ PruneAfter \in Nat /\ Lookback \in Nat
    /\ KindSkew \in Nat /\ KindLag \in Nat /\ Window \in Nat
    /\ KindSkew <= KindLag /\ KindLag <= Window
    /\ MaxTime \in Nat \ {0} /\ MaxCrashes \in Nat /\ None \notin Int

Sources == {"deploy", "http"}
Time == -Lookback .. MaxTime

VARIABLES
    now, startedAt,
    pc,        \* per poller: "off", "new", "idle", "gate", "page" or, once a
               \* batch of the page was dropped, "failed"
    cur,       \* *cur
    pos,       \* p.pos of the deploy poller, None while deployPollers lacks it
    horizon, upTo,  \* of the round, and up to where its batches have come
    memo, disk,     \* the cursor store: the map, and the file
    \* history
    owed,      \* per source that is yet to load: its entry in the file, if any
    reach,     \* per source, up to where all is delivered or accounted for
    newest,    \* the newest line in the stream
    had,       \* per source, the instants whose lines were put to the stream
    dropped,   \* and those whose lines were dropped and not put to it since
    rejected,  \* of which source the stream refused a line it never had, and
               \* whose lines had overtaken that one: its "own", or an "other"'s
    crashes

clock  == <<now, startedAt>>
store  == <<memo, disk>>
stream == <<newest, had, dropped, rejected>>
history == <<reach, stream>>
vars == <<clock, pc, cur, pos, horizon, upTo, store, owed, reach, stream, crashes>>

Greater(a, b) == IF a >= b THEN a ELSE b
Lesser(a, b) == IF a <= b THEN a ELSE b
Nothing == [s \in Sources |-> None]

Init ==
    /\ now = 1 /\ startedAt = 0
    /\ pc = [s \in Sources |-> "off"]
    /\ cur = Nothing /\ pos = None /\ horizon = Nothing /\ upTo = Nothing
    /\ memo = Nothing /\ disk = Nothing /\ owed = Nothing
    /\ reach = [s \in Sources |-> 0]
    /\ newest = 0 /\ rejected = {}
    /\ had = [s \in Sources |-> {}] /\ dropped = [s \in Sources |-> {}]
    /\ crashes = MaxCrashes

Off == \A s \in Sources : pc[s] = "off"

\* Faulty variant of SetCursor: the position stays where it was seeded.
SetCursorUnpublished(s, t) == cur' = [cur EXCEPT ![s] = t] /\ UNCHANGED pos

\* setCursor: the deploy poller's position is published with its cursor.
SetCursor(s, t) ==
    /\ cur' = [cur EXCEPT ![s] = t]
    /\ pos' = IF s = "deploy" THEN t ELSE pos

\* All of s up to t is accounted for, and which lines of that the stream had
\* matters no more.
Account(s, t) ==
    /\ reach' = [reach EXCEPT ![s] = Greater(@, t)]
    /\ had' = [had EXCEPT ![s] = {i \in @ : i > reach'[s]}]
    /\ dropped' = [dropped EXCEPT ![s] = {i \in @ : i > reach'[s]}]
    /\ UNCHANGED <<newest, rejected>>

\* Faulty variant of Pruned: other sources' entries go with the first save.
PrunedToOwn(m, s) == [k \in Sources |-> IF k = s THEN m[k] ELSE None]

\* The entries that a save by s leaves: whoever saves, the old ones go.
Pruned(m, s) ==
    [k \in Sources |->
        IF m[k] # None /\ m[k] >= now - PruneAfter THEN m[k] ELSE None]

\* Save: one map, and one file for all of it, whose writing may fail.
Save(s, t) ==
    /\ memo' = Pruned([memo EXCEPT ![s] = t], s)
    /\ disk' \in {memo', disk}

-----------------------------------------------------------------------------
(* The pollers                                                             *)

\* Faulty variant of Boot: the position waits for the poller's own goroutine.
BootUnseeded ==
    /\ Off
    /\ startedAt' = now /\ memo' = disk /\ owed' = disk
    /\ pc' = [s \in Sources |-> "new"]
    /\ UNCHANGED <<now, cur, pos, horizon, upTo, disk, reach, stream, crashes>>

\* newCursorStore reads the file, and the first reconcile makes the pollers:
\* the deploy poller's position is seeded from its cursor before either runs.
Boot ==
    /\ Off
    /\ startedAt' = now /\ memo' = disk /\ owed' = disk
    /\ pc' = [s \in Sources |-> "new"]
    /\ pos' = IF disk["deploy"] # None THEN disk["deploy"] ELSE now - Lookback
    /\ UNCHANGED <<now, cur, horizon, upTo, disk, reach, stream, crashes>>

\* runPoller loads the cursor.  A source whose entry was never stored, or was
\* older than pruneAfter, owes nothing before the start.
Load(s) ==
    LET start == startedAt - Lookback
        from  == IF memo[s] # None THEN memo[s] ELSE start
    IN  /\ pc[s] = "new"
        /\ pc' = [pc EXCEPT ![s] = "idle"]
        /\ SetCursor(s, from)
        /\ IF owed[s] # None => owed[s] < now - PruneAfter
           THEN Account(s, from) ELSE UNCHANGED history
        /\ owed' = [owed EXCEPT ![s] = None]
        /\ UNCHANGED <<clock, horizon, upTo, store, crashes>>

\* The oldest position worth reading.
FloorOf(s) ==
    IF s = "http" /\ pos # None
    THEN Greater(now - CatchUp, pos - KindLag) ELSE now - CatchUp

\* pollOnce up to the floor: a cursor behind it skips ahead, and the gap is
\* logged and counted.
BeginRound(s) ==
    LET from == Greater(cur[s], FloorOf(s))
    IN  /\ pc[s] = "idle"
        /\ SetCursor(s, from)
        /\ IF cur[s] <= reach[s] THEN Account(s, from) ELSE UNCHANGED history
        /\ horizon' = [horizon EXCEPT ![s] = now - Settle]
        /\ pc' = [pc EXCEPT ![s] = "gate"]
        /\ UNCHANGED <<clock, upTo, store, owed, crashes>>

\* Faulty variant of GateOf: HTTP pollers run as far as they can.
GateOfNone(s) == horizon[s]

\* How far the round may go.
GateOf(s) ==
    IF s = "http" /\ pos # None
    THEN Lesser(horizon[s], pos + KindSkew) ELSE horizon[s]

\* pollOnce past the gate, with a horizon that is not behind the cursor.
Gate(s) ==
    /\ pc[s] = "gate"
    /\ IF GateOf(s) > cur[s]
       THEN /\ horizon' = [horizon EXCEPT ![s] = GateOf(s)]
            /\ upTo' = [upTo EXCEPT ![s] = cur[s]]
            /\ pc' = [pc EXCEPT ![s] = "page"]
       ELSE /\ horizon' = [horizon EXCEPT ![s] = None]
            /\ pc' = [pc EXCEPT ![s] = "idle"]
            /\ UNCHANGED upTo
    /\ UNCHANGED <<clock, cur, pos, store, owed, reach, stream, crashes>>

\* The lines of the next batch of the page, which comes up to t.
Batch(s, t) == upTo[s] + 1 .. t

\* A line that the stream never had and must not miss: neither accounted for
\* nor put to it before.
Fresh(s, i) == i > reach[s] /\ i \notin had[s]

\* Whose lines have left line i too far behind.
Overtaker(s, i) ==
    IF \E j \in had[s] : i < j - Window THEN "own" ELSE "other"

\* A batch is in order, and so is what follows a dropped one: the worker goes
\* on with the page, whose verdict is already that it failed.
Batched(s, t) ==
    /\ pc[s] \in {"page", "failed"} /\ upTo[s] < t /\ t <= horizon[s]
    /\ upTo' = [upTo EXCEPT ![s] = t]
    /\ UNCHANGED <<clock, cur, pos, horizon, store, owed, reach, crashes>>

\* A batch is written: the sink took it, and the stream behind the sink takes
\* each of its lines, oldest first, or refuses it as too far behind.  Another
\* sink may have dropped the batch, and then the page fails as well.
Write(s, t) ==
    LET late == {i \in Batch(s, t) : Fresh(s, i) /\ i < newest - Window} IN
    /\ Batched(s, t)
    /\ newest' = Greater(newest, t)
    /\ had' = [had EXCEPT ![s] = @ \cup Batch(s, t)]
    /\ dropped' = [dropped EXCEPT ![s] = @ \ Batch(s, t)]
    /\ rejected' = rejected \cup {<<s, Overtaker(s, i)>> : i \in late}
    /\ pc' \in {pc, [pc EXCEPT ![s] = "failed"]}

\* A batch is dropped: none of its lines reach the stream, and the page fails.
Drop(s, t) ==
    /\ Batched(s, t)
    /\ dropped' = [dropped EXCEPT ![s] = @ \cup (Batch(s, t) \ had[s])]
    /\ pc' = [pc EXCEPT ![s] = "failed"]
    /\ UNCHANGED <<newest, had, rejected>>

\* No line is left that was in a page before and has yet to be in the stream.
NoneOwed(s, t) == dropped[s] \cap (cur[s] + 1 .. t) = {}

\* The cursor moves to t and is saved.
MoveTo(s, t) ==
    /\ SetCursor(s, t) /\ Save(s, t)
    /\ IF cur[s] <= reach[s] THEN Account(s, t) ELSE UNCHANGED history
    /\ UNCHANGED <<clock, owed, crashes>>

\* A full page, all of it written: on to the next one.
NextPage(s) ==
    /\ pc[s] = "page" /\ upTo[s] > cur[s] /\ upTo[s] < horizon[s]
    /\ NoneOwed(s, upTo[s])
    /\ MoveTo(s, upTo[s])
    /\ UNCHANGED <<pc, upTo, horizon>>

\* A short page, or one that reaches the horizon, all of it written: nothing
\* below the horizon is left.
EndRound(s) ==
    /\ pc[s] = "page" /\ NoneOwed(s, horizon[s])
    /\ MoveTo(s, horizon[s])
    /\ horizon' = [horizon EXCEPT ![s] = None]
    /\ upTo' = [upTo EXCEPT ![s] = None]
    /\ pc' = [pc EXCEPT ![s] = "idle"]

\* The query for a page failed, or a sink dropped part of the page: the cursor
\* stays where the last page left it.
FailRound(s) ==
    /\ pc[s] = "failed" \/ (pc[s] = "page" /\ upTo[s] = cur[s])
    /\ pc' = [pc EXCEPT ![s] = "idle"]
    /\ horizon' = [horizon EXCEPT ![s] = None]
    /\ upTo' = [upTo EXCEPT ![s] = None]
    /\ UNCHANGED <<clock, cur, pos, store, owed, reach, stream, crashes>>

-----------------------------------------------------------------------------
(* The environment                                                         *)

\* The process dies, between any two steps, and stays down for a while.
Crash ==
    /\ crashes > 0 /\ ~Off
    /\ crashes' = crashes - 1
    /\ pc' = [s \in Sources |-> "off"]
    /\ cur' = Nothing /\ pos' = None /\ horizon' = Nothing /\ upTo' = Nothing
    /\ memo' = Nothing
    /\ owed' = Nothing /\ startedAt' = 0
    /\ UNCHANGED <<now, disk, reach, stream>>

Tick ==
    /\ now < MaxTime
    /\ now' = now + 1
    /\ UNCHANGED <<startedAt, pc, cur, pos, horizon, upTo, store, owed, reach,
                   stream, crashes>>

Step(s) ==
    \/ Load(s) \/ BeginRound(s) \/ Gate(s)
    \/ \E t \in Time : Write(s, t) \/ Drop(s, t)
    \/ NextPage(s) \/ EndRound(s)

Next ==
    \/ Boot \/ Crash \/ Tick
    \/ \E s \in Sources : Step(s) \/ FailRound(s)

Spec == Init /\ [][Next]_vars

\* A batch of a page that has not failed is written, and by every sink.
WriteWell(s, t) == pc[s] = "page" /\ Write(s, t) /\ UNCHANGED pc

\* The goroutines run, the clock advances, a process that died is started
\* again, and neither do all queries fail nor all batches get dropped.
FairSpec ==
    /\ Spec
    /\ WF_vars(Boot) /\ WF_vars(Tick)
    /\ \A s \in Sources :
        /\ WF_vars(Load(s) \/ BeginRound(s) \/ Gate(s))
        /\ WF_vars(pc[s] = "failed" /\ FailRound(s))
        /\ SF_vars(\E t \in Time : t = horizon[s] /\ WriteWell(s, t))
        /\ SF_vars(EndRound(s))

-----------------------------------------------------------------------------
(* Properties                                                              *)

TypeOK ==
    /\ now \in 1..MaxTime /\ startedAt \in 0..MaxTime
    /\ pc \in [Sources -> {"off", "new", "idle", "gate", "page", "failed"}]
    /\ cur \in [Sources -> Int \cup {None}] /\ pos \in Int \cup {None}
    /\ \A s \in Sources : cur[s] = None <=> pc[s] \in {"off", "new"}
    /\ (pos = None <=> Off)
    /\ horizon \in [Sources -> Int \cup {None}]
    /\ upTo \in [Sources -> Int \cup {None}]
    /\ memo \in [Sources -> Int \cup {None}]
    /\ disk \in [Sources -> Int \cup {None}] /\ owed \in [Sources -> Int \cup {None}]
    /\ reach \in [Sources -> Int]
    /\ newest \in 0..MaxTime
    /\ had \in [Sources -> SUBSET Int] /\ dropped \in [Sources -> SUBSET Int]
    /\ rejected \subseteq Sources \X {"own", "other"} /\ crashes \in 0..MaxCrashes

\* Wherever a cursor stands, in a poller, in the store's map or in its file,
\* every instant before it was delivered, or was given up with a warning and a
\* count, or lies before the source's first start.  So a save by one poller
\* never costs another one what it still has to read, whichever of them loads
\* and saves first after an outage and whichever saves reach the disk
\* (cursor.go:54-55), unless the outage outlasts pruneAfter.
Accounted ==
    \A s \in Sources : \A c \in {cur[s], memo[s], disk[s]} \ {None} : c <= reach[s]

\* "Without the gate, fast HTTP pollers finish a catch-up first and the deploy
\* lines behind them are rejected" (poll.go:34-38): with it, no HTTP line
\* pushes a deploy line out of the stream's window, whatever the pollers'
\* order, with restarts, dropped batches, failed queries and failed saves.  A
\* deploy line that the stream refuses at all was dropped, and sent again only
\* after later deploy lines of its own page.
DeployInWindow == <<"deploy", "other">> \notin rejected

\* "A poller further behind would only send lines Loki rejects, silently, so it
\* skips ahead and counts the gap instead" (poll.go:40-45): no HTTP line is
\* sent that the stream refuses.
HttpInWindow == \A who \in {"own", "other"} : <<"http", who>> \notin rejected

\* Neither limit holds a poller for ever: in the end both have read up to where
\* the logs have settled, the HTTP poller however far ahead of the deploy
\* poller it found itself.
CaughtUp == <>[](\A s \in Sources : cur[s] # None /\ cur[s] >= MaxTime - Settle)

=============================================================================
