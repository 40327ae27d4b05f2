--------------------------- MODULE LogGateProofs ---------------------------
(***************************************************************************)
(* Proofs about LogGate, for any settings with maxKindSkew <= maxKindLag   *)
(* <= Window, any horizon in time and any number of crashes.               *)
(***************************************************************************)
EXTENDS LogGate, TLAPS

\* A round's locals are set, and no horizon is closer than the settle window.
Rounds ==
    /\ startedAt <= now
    /\ (pc["deploy"] = "off" <=> pc["http"] = "off")
    /\ \A s \in Sources :
        /\ pc[s] \in {"gate", "page", "failed"} =>
            horizon[s] \in Int /\ horizon[s] <= now - Settle
        /\ pc[s] \in {"page", "failed"} => upTo[s] \in Int

\* What the store had for a poller that is yet to load is still there, unless
\* it has become too old; what it did not have nobody has added.
Stored ==
    \A s \in Sources :
        /\ owed[s] # None => owed[s] <= reach[s]
        /\ pc[s] = "new" =>
            /\ owed[s] # None /\ owed[s] >= now - PruneAfter => memo[s] = owed[s]
            /\ owed[s] = None => memo[s] = None /\ disk[s] = None

\* Up to where the deploy logs are accounted for, or will be as soon as the
\* deploy poller loads.
Edge ==
    IF pc["deploy"] = "new" /\ owed["deploy"] = None
    THEN Greater(reach["deploy"], startedAt - Lookback)
    ELSE IF pc["deploy"] = "off" /\ disk["deploy"] = None
    THEN Greater(reach["deploy"], now - Lookback)
    ELSE reach["deploy"]

\* Nothing in the stream is further ahead of the deploy logs than the gate lets
\* the HTTP poller run, but for deploy lines.
Lead ==
    /\ pos # None => pos <= Edge
    /\ pc["http"] \in {"page", "failed"} => horizon["http"] <= Edge + KindSkew
    /\ newest <= Edge + KindSkew \/ \E j \in had["deploy"] : newest <= j

IInv == TypeOK /\ Rounds /\ Accounted /\ Stored /\ Lead /\ DeployInWindow

USE GateAssumption DEF GateAssumption

-----------------------------------------------------------------------------
(* Types                                                                   *)

LEMMA InitTyped == Init => TypeOK /\ Rounds
<1> SUFFICES ASSUME Init PROVE TypeOK /\ Rounds
  OBVIOUS
<1>1. \A s \in Sources : pc[s] = "off" /\ cur[s] = None
  BY DEF Init, Nothing
<1>2. Off /\ pos = None
  BY <1>1 DEF Off, Init
<1>3. TypeOK
  BY <1>1, <1>2 DEF Init, TypeOK, Nothing
<1>4. Rounds
  BY <1>1 DEF Init, Rounds, Sources
<1> QED
  BY <1>3, <1>4

\* Accounting for more moves no line of the stream, and forgets only which of
\* the lines accounted for it had.
LEMMA AccountTyped ==
  ASSUME TypeOK, NEW s \in Sources, NEW t \in Int, Account(s, t) \/ UNCHANGED history
  PROVE  /\ reach' \in [Sources -> Int]
         /\ had' \in [Sources -> SUBSET Int] /\ dropped' \in [Sources -> SUBSET Int]
         /\ newest' = newest /\ rejected' = rejected
         /\ \A k \in Sources : \A j \in had[k] : j \in had'[k] \/ j <= reach'[k]
<1>1. CASE UNCHANGED history
  BY <1>1 DEF TypeOK, history, stream
<1>2. CASE Account(s, t)
  <2>1. reach' = [reach EXCEPT ![s] = Greater(@, t)] /\ reach' \in [Sources -> Int]
    BY <1>2 DEF TypeOK, Account, Greater
  <2>2. /\ had' = [had EXCEPT ![s] = {i \in had[s] : i > reach'[s]}]
        /\ dropped' = [dropped EXCEPT ![s] = {i \in dropped[s] : i > reach'[s]}]
        /\ newest' = newest /\ rejected' = rejected
    BY <1>2 DEF Account
  <2>3. had' \in [Sources -> SUBSET Int] /\ dropped' \in [Sources -> SUBSET Int]
    BY <2>2 DEF TypeOK
  <2>4. ASSUME NEW k \in Sources, NEW j \in had[k]
        PROVE  j \in had'[k] \/ j <= reach'[k]
    BY <2>1, <2>2 DEF TypeOK
  <2> QED
    BY <2>1, <2>2, <2>3, <2>4
<1> QED
  BY <1>1, <1>2

LEMMA BootTyped ==
  ASSUME TypeOK, Rounds, Boot
  PROVE  TypeOK' /\ Rounds'
<1>1. \A s \in Sources : pc'[s] = "new" /\ cur'[s] = None
  BY DEF TypeOK, Boot, Off
<1>2. ~Off' /\ pos' \in Int
  BY <1>1 DEF TypeOK, Boot, Off, Sources
<1>3. TypeOK'
  BY <1>1, <1>2 DEF TypeOK, Boot, stream
<1>4. Rounds'
  BY <1>1 DEF TypeOK, Rounds, Boot, Sources
<1> QED
  BY <1>3, <1>4

LEMMA LoadTyped ==
  ASSUME TypeOK, Rounds, NEW s \in Sources, Load(s)
  PROVE  TypeOK' /\ Rounds'
<1> DEFINE from == IF memo[s] # None THEN memo[s] ELSE startedAt - Lookback
<1>1. from \in Int
  BY DEF TypeOK
<1> HIDE DEF from
<1>2. pc' = [pc EXCEPT ![s] = "idle"] /\ cur' = [cur EXCEPT ![s] = from]
      /\ pos' \in {pos, from} /\ pc[s] = "new"
  BY DEF Load, SetCursor, from
<1>3. ~Off /\ ~Off'
  BY <1>2 DEF TypeOK, Off
<1>4. /\ reach' \in [Sources -> Int] /\ newest' = newest /\ rejected' = rejected
      /\ had' \in [Sources -> SUBSET Int] /\ dropped' \in [Sources -> SUBSET Int]
  BY <1>1, AccountTyped DEF Load, from
<1>5. TypeOK'
  BY <1>1, <1>2, <1>3, <1>4 DEF TypeOK, Load, clock, store
<1>6. Rounds'
  BY <1>2 DEF TypeOK, Rounds, Load, clock, Sources
<1> QED
  BY <1>5, <1>6

LEMMA BeginRoundTyped ==
  ASSUME TypeOK, Rounds, NEW s \in Sources, BeginRound(s)
  PROVE  TypeOK' /\ Rounds'
<1> DEFINE from == Greater(cur[s], FloorOf(s))
<1>1. pc[s] = "idle" /\ cur[s] \in Int
  BY DEF TypeOK, BeginRound
<1>2. from \in Int
  BY <1>1 DEF TypeOK, FloorOf, Greater
<1> HIDE DEF from
<1>3. /\ pc' = [pc EXCEPT ![s] = "gate"] /\ cur' = [cur EXCEPT ![s] = from]
      /\ pos' \in {pos, from}
      /\ horizon' = [horizon EXCEPT ![s] = now - Settle]
      /\ Account(s, from) \/ UNCHANGED history
  BY DEF BeginRound, SetCursor, from
<1>4. ~Off /\ ~Off'
  BY <1>1, <1>3 DEF TypeOK, Off
<1>5. /\ reach' \in [Sources -> Int] /\ newest' = newest /\ rejected' = rejected
      /\ had' \in [Sources -> SUBSET Int] /\ dropped' \in [Sources -> SUBSET Int]
  BY <1>2, <1>3, AccountTyped
<1>6. TypeOK'
  <2>1. /\ pc' \in [Sources -> {"off", "new", "idle", "gate", "page", "failed"}]
        /\ cur' \in [Sources -> Int \cup {None}] /\ pos' \in Int \cup {None}
        /\ horizon' \in [Sources -> Int \cup {None}]
    BY <1>1, <1>2, <1>3 DEF TypeOK
  <2>2. \A k \in Sources : cur'[k] = None <=> pc'[k] \in {"off", "new"}
    BY <1>1, <1>2, <1>3 DEF TypeOK
  <2>3. pos' = None <=> Off'
    BY <1>2, <1>3, <1>4 DEF TypeOK
  <2> QED
    BY <1>5, <2>1, <2>2, <2>3 DEF TypeOK, BeginRound, clock, store
<1>7. Rounds'
  BY <1>1, <1>3 DEF TypeOK, Rounds, BeginRound, clock, Sources
<1> QED
  BY <1>6, <1>7

LEMMA GateTyped ==
  ASSUME TypeOK, Rounds, NEW s \in Sources, Gate(s)
  PROVE  TypeOK' /\ Rounds'
<1>1. pc[s] = "gate" /\ cur[s] \in Int /\ horizon[s] \in Int /\ horizon[s] <= now - Settle
  BY DEF TypeOK, Rounds, Gate
<1>2. GateOf(s) \in Int /\ GateOf(s) <= horizon[s]
  BY <1>1 DEF TypeOK, GateOf, Lesser
<1>3. \/ /\ horizon' = [horizon EXCEPT ![s] = GateOf(s)] /\ pc' = [pc EXCEPT ![s] = "page"]
         /\ upTo' = [upTo EXCEPT ![s] = cur[s]]
      \/ /\ horizon' = [horizon EXCEPT ![s] = None] /\ pc' = [pc EXCEPT ![s] = "idle"]
         /\ upTo' = upTo
  BY DEF Gate
<1>4. ~Off /\ ~Off'
  BY <1>1, <1>3 DEF TypeOK, Off
<1>5. TypeOK'
  BY <1>1, <1>2, <1>3, <1>4 DEF TypeOK, Gate, clock, store, stream
<1>6. Rounds'
  <2>1. CASE /\ horizon' = [horizon EXCEPT ![s] = GateOf(s)] /\ pc' = [pc EXCEPT ![s] = "page"]
             /\ upTo' = [upTo EXCEPT ![s] = cur[s]]
    BY <1>1, <1>2, <2>1 DEF TypeOK, Rounds, Gate, clock, Sources
  <2>2. CASE /\ horizon' = [horizon EXCEPT ![s] = None] /\ pc' = [pc EXCEPT ![s] = "idle"]
             /\ upTo' = upTo
    BY <1>1, <2>2 DEF TypeOK, Rounds, Gate, clock, Sources
  <2> QED
    BY <1>3, <2>1, <2>2
<1> QED
  BY <1>5, <1>6

LEMMA BatchTyped ==
  ASSUME TypeOK, Rounds, NEW s \in Sources, NEW t \in Time, Write(s, t) \/ Drop(s, t)
  PROVE  TypeOK' /\ Rounds'
<1>1. /\ pc[s] \in {"page", "failed"} /\ t \in Int /\ t <= MaxTime
      /\ upTo[s] \in Int /\ upTo' = [upTo EXCEPT ![s] = t]
      /\ UNCHANGED <<now, startedAt, cur, pos, horizon, memo, disk, owed, reach, crashes>>
  BY DEF Write, Drop, Batched, Time, Rounds, clock, store
<1>2. pc' \in {pc, [pc EXCEPT ![s] = "failed"]}
  BY DEF Write, Drop
<1>3. ~Off /\ ~Off'
  BY <1>1, <1>2 DEF TypeOK, Off
<1>4. Batch(s, t) \subseteq Int
  BY <1>1 DEF Batch
<1>5. /\ newest' \in 0..MaxTime /\ rejected' \subseteq Sources \X {"own", "other"}
      /\ had' \in [Sources -> SUBSET Int] /\ dropped' \in [Sources -> SUBSET Int]
  <2>1. CASE Write(s, t)
    <3>1. newest' \in 0..MaxTime
      BY <1>1, <2>1 DEF TypeOK, Write, Greater
    <3>2. rejected' \subseteq Sources \X {"own", "other"}
      BY <2>1 DEF TypeOK, Write, Overtaker
    <3>3. had' \in [Sources -> SUBSET Int] /\ dropped' \in [Sources -> SUBSET Int]
      BY <1>4, <2>1 DEF TypeOK, Write
    <3> QED
      BY <3>1, <3>2, <3>3
  <2>2. CASE Drop(s, t)
    BY <1>4, <2>2 DEF TypeOK, Drop
  <2> QED
    BY <2>1, <2>2
<1>6. TypeOK'
  <2>1. pc' \in [Sources -> {"off", "new", "idle", "gate", "page", "failed"}]
        /\ \A k \in Sources : pc'[k] \in {"off", "new"} <=> pc[k] \in {"off", "new"}
    BY <1>1, <1>2 DEF TypeOK
  <2> QED
    BY <1>1, <1>3, <1>5, <2>1 DEF TypeOK
<1>7. Rounds'
  <2>1. ASSUME NEW k \in Sources
        PROVE  /\ pc'[k] \in {"gate", "page", "failed"} => pc[k] \in {"gate", "page", "failed"}
               /\ pc'[k] \in {"page", "failed"} => pc[k] \in {"page", "failed"}
               /\ pc'[k] = "off" <=> pc[k] = "off"
               /\ upTo'[k] \in {upTo[k], t}
    BY <1>1, <1>2 DEF TypeOK
  <2>2. ASSUME NEW k \in Sources
        PROVE  /\ pc'[k] \in {"gate", "page", "failed"} =>
                        horizon'[k] \in Int /\ horizon'[k] <= now' - Settle
               /\ pc'[k] \in {"page", "failed"} => upTo'[k] \in Int
    BY <1>1, <2>1 DEF Rounds
  <2>3. startedAt' <= now' /\ (pc'["deploy"] = "off" <=> pc'["http"] = "off")
    BY <1>1, <2>1 DEF Rounds, Sources
  <2> QED
    BY <2>2, <2>3 DEF Rounds
<1> QED
  BY <1>6, <1>7

LEMMA SaveTyped ==
  ASSUME TypeOK, NEW s \in Sources, NEW t \in Int, Save(s, t)
  PROVE  memo' \in [Sources -> Int \cup {None}] /\ disk' \in [Sources -> Int \cup {None}]
  BY DEF TypeOK, Save, Pruned

LEMMA MoveTyped ==
  ASSUME TypeOK, Rounds, NEW s \in Sources, NextPage(s) \/ EndRound(s)
  PROVE  TypeOK' /\ Rounds'
<1>1. pc[s] = "page" /\ cur[s] \in Int /\ upTo[s] \in Int /\ horizon[s] \in Int
  BY DEF TypeOK, Rounds, NextPage, EndRound
<1>2. PICK t \in Int : MoveTo(s, t)
  BY <1>1 DEF NextPage, EndRound
<1>3. memo' \in [Sources -> Int \cup {None}] /\ disk' \in [Sources -> Int \cup {None}]
  BY <1>2, SaveTyped DEF MoveTo
<1>4. /\ reach' \in [Sources -> Int] /\ newest' = newest /\ rejected' = rejected
      /\ had' \in [Sources -> SUBSET Int] /\ dropped' \in [Sources -> SUBSET Int]
  BY <1>2, AccountTyped DEF MoveTo
<1>5. cur' = [cur EXCEPT ![s] = t] /\ pos' \in {pos, t}
  BY <1>2 DEF MoveTo, SetCursor
<1>6. \/ UNCHANGED <<pc, upTo, horizon>>
      \/ /\ pc' = [pc EXCEPT ![s] = "idle"] /\ horizon' = [horizon EXCEPT ![s] = None]
         /\ upTo' = [upTo EXCEPT ![s] = None]
  BY DEF NextPage, EndRound
<1>7. ~Off /\ ~Off'
  BY <1>1, <1>6 DEF TypeOK, Off
<1>8. TypeOK'
  BY <1>1, <1>2, <1>3, <1>4, <1>5, <1>6, <1>7 DEF TypeOK, MoveTo, clock
<1>9. Rounds'
  <2>1. CASE UNCHANGED <<pc, upTo, horizon>>
    BY <1>2, <2>1 DEF Rounds, MoveTo, clock
  <2>2. CASE /\ pc' = [pc EXCEPT ![s] = "idle"] /\ horizon' = [horizon EXCEPT ![s] = None]
             /\ upTo' = [upTo EXCEPT ![s] = None]
    BY <1>1, <1>2, <2>2 DEF TypeOK, Rounds, MoveTo, clock, Sources
  <2> QED
    BY <1>6, <2>1, <2>2
<1> QED
  BY <1>8, <1>9

LEMMA FailRoundTyped ==
  ASSUME TypeOK, Rounds, NEW s \in Sources, FailRound(s)
  PROVE  TypeOK' /\ Rounds'
<1>1. pc[s] \in {"page", "failed"} /\ pc' = [pc EXCEPT ![s] = "idle"]
  BY DEF FailRound
<1>2. ~Off /\ ~Off'
  BY <1>1 DEF TypeOK, Off
<1>3. TypeOK'
  BY <1>1, <1>2 DEF TypeOK, FailRound, clock, store, stream
<1>4. Rounds'
  BY <1>1 DEF TypeOK, Rounds, FailRound, clock, Sources
<1> QED
  BY <1>3, <1>4

LEMMA CrashTyped ==
  ASSUME TypeOK, Rounds, Crash
  PROVE  TypeOK' /\ Rounds'
<1>1. \A s \in Sources : pc'[s] = "off" /\ cur'[s] = None
  BY DEF Crash, Nothing
<1>2. Off' /\ pos' = None
  BY <1>1 DEF Off, Crash
<1>3. TypeOK'
  BY <1>1, <1>2 DEF TypeOK, Crash, Nothing, stream
<1>4. Rounds'
  BY <1>1 DEF TypeOK, Rounds, Crash, Sources
<1> QED
  BY <1>3, <1>4

LEMMA TickTyped ==
  ASSUME TypeOK, Rounds, Tick
  PROVE  TypeOK' /\ Rounds'
<1>1. now' = now + 1 /\ now < MaxTime /\ UNCHANGED <<startedAt, pc, cur, pos, horizon, upTo>>
  BY DEF Tick
<1>2. Off' <=> Off
  BY <1>1 DEF Off
<1>3. TypeOK'
  BY <1>1, <1>2 DEF TypeOK, Tick, store, stream
<1>4. Rounds'
  BY <1>1 DEF TypeOK, Rounds, Sources
<1> QED
  BY <1>3, <1>4

LEMMA NextTyped ==
  ASSUME TypeOK, Rounds, [Next]_vars
  PROVE  TypeOK' /\ Rounds'
<1>1. CASE UNCHANGED vars
  BY <1>1 DEF TypeOK, Rounds, Off, vars, clock, store, stream
<1> QED
  BY <1>1, BootTyped, CrashTyped, TickTyped, LoadTyped, BeginRoundTyped, GateTyped,
     BatchTyped, MoveTyped, FailRoundTyped DEF Next, Step

-----------------------------------------------------------------------------
(* What is accounted for                                                   *)

LEMMA InitAccounted == Init => Accounted /\ Stored
  BY DEF Init, Accounted, Stored, Nothing, Sources

LEMMA BootAccounted ==
  ASSUME TypeOK, Accounted, Stored, Boot
  PROVE  Accounted' /\ Stored'
<1>1. UNCHANGED <<cur, disk, reach>> /\ memo' = disk /\ owed' = disk
  BY DEF Boot, stream
<1>2. Accounted'
  BY <1>1 DEF Accounted
<1>3. Stored'
  BY <1>1 DEF TypeOK, Accounted, Stored
<1> QED
  BY <1>2, <1>3

\* The poller starts where its own entry is, or its start is accounted for.
LEMMA LoadAccounted ==
  ASSUME TypeOK, Accounted, Stored, NEW s \in Sources, Load(s)
  PROVE  /\ Accounted' /\ Stored'
         /\ owed[s] = None =>
                /\ cur'[s] = startedAt - Lookback
                /\ reach'[s] = Greater(reach[s], startedAt - Lookback)
<1> DEFINE from == IF memo[s] # None THEN memo[s] ELSE startedAt - Lookback
<1>1. from \in Int /\ (memo[s] = None => from = startedAt - Lookback)
      /\ (memo[s] # None => from = memo[s])
  BY DEF TypeOK
<1> HIDE DEF from
<1>2. /\ pc[s] = "new" /\ pc' = [pc EXCEPT ![s] = "idle"]
      /\ cur' = [cur EXCEPT ![s] = from] /\ owed' = [owed EXCEPT ![s] = None]
      /\ UNCHANGED <<now, startedAt, memo, disk>>
      /\ reach' = IF owed[s] # None => owed[s] < now - PruneAfter
                  THEN [reach EXCEPT ![s] = Greater(@, from)] ELSE reach
  BY DEF Load, Account, history, SetCursor, from, clock, store
<1>3. \A k \in Sources : reach[k] \in Int /\ reach'[k] \in Int /\ reach[k] <= reach'[k]
  BY <1>1, <1>2 DEF TypeOK, Greater
<1>4. from <= reach'[s]
  <2>1. CASE owed[s] # None => owed[s] < now - PruneAfter
    BY <1>1, <1>2, <2>1 DEF TypeOK, Greater
  <2>2. CASE owed[s] # None /\ owed[s] >= now - PruneAfter
    <3>1. memo[s] = owed[s]
      BY <1>2, <2>2 DEF Stored
    <3>2. memo[s] <= reach[s]
      BY <2>2, <3>1 DEF Accounted
    <3> QED
      BY <1>1, <1>3, <2>2, <3>1, <3>2
  <2> QED
    BY <2>1, <2>2 DEF TypeOK
<1>5. Accounted'
  <2> SUFFICES ASSUME NEW k \in Sources, NEW c \in {cur'[k], memo'[k], disk'[k]} \ {None}
               PROVE  c <= reach'[k]
    BY DEF Accounted
  <2>1. CASE c = cur'[k] /\ k = s
    BY <1>1, <1>2, <1>4, <2>1 DEF TypeOK
  <2>2. CASE c \in {cur[k], memo[k], disk[k]}
    <3>1. c <= reach[k] /\ c \in Int
      BY <2>2 DEF Accounted, TypeOK
    <3> QED
      BY <1>3, <3>1
  <2> QED
    BY <1>2, <2>1, <2>2 DEF TypeOK
<1>6. Stored'
  BY <1>2, <1>3 DEF TypeOK, Stored
<1>7. ASSUME owed[s] = None
      PROVE  /\ cur'[s] = startedAt - Lookback
             /\ reach'[s] = Greater(reach[s], startedAt - Lookback)
  BY <1>1, <1>2, <1>7 DEF TypeOK, Stored
<1> QED
  BY <1>5, <1>6, <1>7

\* A skip is counted.
LEMMA BeginRoundAccounted ==
  ASSUME TypeOK, Accounted, Stored, NEW s \in Sources, BeginRound(s)
  PROVE  Accounted' /\ Stored' /\ \A k \in Sources : reach[k] <= reach'[k]
<1> DEFINE from == Greater(cur[s], FloorOf(s))
<1>1. pc[s] = "idle" /\ cur[s] \in Int /\ cur[s] # None
  BY DEF TypeOK, BeginRound
<1>2. from \in Int
  BY <1>1 DEF TypeOK, FloorOf, Greater
<1> HIDE DEF from
<1>3. /\ pc' = [pc EXCEPT ![s] = "gate"] /\ cur' = [cur EXCEPT ![s] = from]
      /\ reach' = IF cur[s] <= reach[s]
                  THEN [reach EXCEPT ![s] = Greater(@, from)] ELSE reach
      /\ UNCHANGED <<now, memo, disk, owed>>
  BY DEF BeginRound, Account, history, SetCursor, from, clock, store
<1>4. cur[s] <= reach[s]
  BY <1>1 DEF Accounted
<1>5. \A k \in Sources : reach[k] \in Int /\ reach'[k] \in Int /\ reach[k] <= reach'[k]
  BY <1>2, <1>3 DEF TypeOK, Greater
<1>6. Accounted'
  <2> SUFFICES ASSUME NEW k \in Sources, NEW c \in {cur'[k], memo'[k], disk'[k]} \ {None}
               PROVE  c <= reach'[k]
    BY DEF Accounted
  <2>1. CASE c = cur'[k] /\ k = s
    BY <1>2, <1>3, <1>4, <2>1 DEF TypeOK, Greater
  <2>2. CASE c \in {cur[k], memo[k], disk[k]}
    <3>1. c <= reach[k] /\ c \in Int
      BY <2>2 DEF Accounted, TypeOK
    <3> QED
      BY <1>5, <3>1
  <2> QED
    BY <1>3, <2>1, <2>2 DEF TypeOK
<1>7. Stored'
  BY <1>1, <1>3, <1>5 DEF TypeOK, Stored
<1> QED
  BY <1>5, <1>6, <1>7

\* A save prunes old entries only, and reaches the file or does not.
LEMMA Saved ==
  ASSUME TypeOK, NEW s \in Sources, NEW t \in Int, Save(s, t)
  PROVE  /\ memo'[s] \in {t, None} /\ disk'[s] \in {t, None, disk[s]}
         /\ \A k \in Sources \ {s} :
                /\ memo'[k] \in {memo[k], None} /\ disk'[k] \in {memo'[k], disk[k]}
                /\ memo[k] # None /\ memo[k] >= now - PruneAfter => memo'[k] = memo[k]
  BY DEF TypeOK, Save, Pruned

LEMMA MoveAccounted ==
  ASSUME TypeOK, Rounds, Accounted, Stored, NEW s \in Sources, NextPage(s) \/ EndRound(s)
  PROVE  Accounted' /\ Stored' /\ \A k \in Sources : reach[k] <= reach'[k]
<1>1. pc[s] = "page" /\ cur[s] \in Int /\ cur[s] # None /\ upTo[s] \in Int /\ horizon[s] \in Int
  BY DEF TypeOK, Rounds, NextPage, EndRound
<1>2. PICK t \in Int : MoveTo(s, t)
  BY <1>1 DEF NextPage, EndRound
<1>3. /\ cur' = [cur EXCEPT ![s] = t] /\ UNCHANGED <<now, owed>>
      /\ reach' = IF cur[s] <= reach[s]
                  THEN [reach EXCEPT ![s] = Greater(@, t)] ELSE reach
      /\ pc'[s] # "new" /\ \A k \in Sources \ {s} : pc'[k] = pc[k]
  BY <1>1, <1>2 DEF TypeOK, MoveTo, Account, history, SetCursor, clock, NextPage, EndRound
<1>4. cur[s] <= reach[s]
  BY <1>1 DEF Accounted
<1>5. \A k \in Sources : reach[k] \in Int /\ reach'[k] \in Int /\ reach[k] <= reach'[k]
  BY <1>3 DEF TypeOK, Greater
<1>6. t <= reach'[s]
  BY <1>3, <1>4 DEF TypeOK, Greater
<1>7. /\ memo'[s] \in {t, None} /\ disk'[s] \in {t, None, disk[s]}
      /\ \A k \in Sources \ {s} :
            /\ memo'[k] \in {memo[k], None} /\ disk'[k] \in {memo'[k], disk[k]}
            /\ memo[k] # None /\ memo[k] >= now - PruneAfter => memo'[k] = memo[k]
  BY <1>2, Saved DEF MoveTo
<1>8. Accounted'
  <2> SUFFICES ASSUME NEW k \in Sources, NEW c \in {cur'[k], memo'[k], disk'[k]} \ {None}
               PROVE  c <= reach'[k]
    BY DEF Accounted
  <2>1. CASE c = t /\ k = s
    BY <1>6, <2>1
  <2>2. CASE c \in {cur[k], memo[k], disk[k]}
    <3>1. c <= reach[k] /\ c \in Int
      BY <2>2 DEF Accounted, TypeOK
    <3> QED
      BY <1>5, <3>1
  <2>3. CASE k = s
    BY <1>3, <1>7, <2>1, <2>2, <2>3 DEF TypeOK
  <2>4. CASE k # s
    BY <1>3, <1>7, <2>2, <2>4 DEF TypeOK
  <2> QED
    BY <2>3, <2>4
<1>9. Stored'
  <2> SUFFICES ASSUME NEW k \in Sources
               PROVE  /\ owed[k] # None => owed[k] <= reach'[k]
                      /\ pc'[k] = "new" =>
                            /\ owed[k] # None /\ owed[k] >= now - PruneAfter => memo'[k] = owed[k]
                            /\ owed[k] = None => memo'[k] = None /\ disk'[k] = None
    BY <1>3 DEF Stored
  <2>1. owed[k] # None => owed[k] <= reach'[k]
    BY <1>5 DEF TypeOK, Stored
  <2>2. ASSUME pc'[k] = "new"
        PROVE  /\ owed[k] # None /\ owed[k] >= now - PruneAfter => memo'[k] = owed[k]
               /\ owed[k] = None => memo'[k] = None /\ disk'[k] = None
    <3>1. k \in Sources \ {s} /\ pc[k] = "new"
      BY <1>3, <2>2
    <3> QED
      BY <1>7, <3>1 DEF Stored
  <2> QED
    BY <2>1, <2>2
<1> QED
  BY <1>5, <1>8, <1>9

LEMMA OtherAccounted ==
  ASSUME TypeOK, Accounted, Stored,
         \/ \E s \in Sources : Gate(s) \/ FailRound(s) \/ \E t \in Time : Write(s, t) \/ Drop(s, t)
         \/ Crash \/ Tick \/ UNCHANGED vars
  PROVE  Accounted' /\ Stored'
<1>1. CASE \E s \in Sources : Gate(s) \/ FailRound(s) \/ \E t \in Time : Write(s, t) \/ Drop(s, t)
  <2>1. /\ UNCHANGED <<now, cur, memo, disk, reach, owed>>
        /\ \A k \in Sources : pc'[k] = "new" => pc[k] = "new"
    BY <1>1 DEF TypeOK, Gate, FailRound, Write, Drop, Batched, clock, store
  <2> QED
    BY <2>1 DEF Accounted, Stored
<1>2. CASE Crash
  BY <1>2 DEF Crash, Nothing, Accounted, Stored, TypeOK
<1>3. CASE Tick
  <2>1. UNCHANGED <<pc, cur, memo, disk, reach, owed>> /\ now' = now + 1
    BY <1>3 DEF Tick, store
  <2> QED
    BY <2>1 DEF TypeOK, Accounted, Stored
<1>4. CASE UNCHANGED vars
  BY <1>4 DEF Accounted, Stored, vars, clock, store
<1> QED
  BY <1>1, <1>2, <1>3, <1>4

LEMMA NextAccounted ==
  ASSUME TypeOK, Rounds, Accounted, Stored, [Next]_vars
  PROVE  Accounted' /\ Stored'
  BY BootAccounted, LoadAccounted, BeginRoundAccounted, MoveAccounted, OtherAccounted
     DEF Next, Step

-----------------------------------------------------------------------------
(* The deploy logs' lead                                                   *)

LEMMA EdgeIsInt == TypeOK => Edge \in Int /\ reach["deploy"] <= Edge
  BY DEF TypeOK, Edge, Greater, Sources

\* No step takes back what the HTTP poller was allowed to rely on: not a load
\* that finds nothing, not a restart, not a save that prunes.
LEMMA EdgeGrows ==
  ASSUME TypeOK, Rounds, Accounted, Stored, TypeOK', [Next]_vars
  PROVE  Edge <= Edge'
<1> DEFINE d == "deploy"
<1>1. d \in Sources /\ \A s \in Sources : reach[s] \in Int /\ reach'[s] \in Int
  BY DEF TypeOK, Sources
<1>2. now \in Int /\ startedAt \in Int /\ startedAt <= now /\ Lookback \in Int
  BY DEF TypeOK, Rounds
<1>3. CASE Boot
  <2>1. /\ pc[d] = "off" /\ pc'[d] = "new" /\ owed' = disk /\ startedAt' = now
        /\ reach' = reach
    BY <1>1, <1>3 DEF Boot, Off, stream
  <2> QED
    BY <1>1, <1>2, <2>1 DEF Edge, Greater
<1>4. ASSUME NEW s \in Sources, Load(s) PROVE Edge <= Edge'
  <2>1. /\ pc[s] = "new" /\ pc' = [pc EXCEPT ![s] = "idle"]
        /\ owed' = [owed EXCEPT ![s] = None]
        /\ UNCHANGED <<now, startedAt, disk>>
        /\ \A k \in Sources : reach[k] <= reach'[k]
    BY <1>4 DEF TypeOK, Load, Account, history, clock, store, Greater
  <2>2. CASE s = d
    <3>1. Edge' = reach'[d]
      BY <1>1, <2>1, <2>2 DEF Edge, TypeOK
    <3>2. CASE owed[d] = None
      <4>1. reach'[d] = Greater(reach[d], startedAt - Lookback)
        BY <1>4, <2>2, <3>2, LoadAccounted
      <4> QED
        BY <1>1, <1>2, <2>1, <2>2, <3>1, <3>2, <4>1 DEF Edge, Greater
    <3>3. CASE owed[d] # None
      BY <1>1, <2>1, <2>2, <3>1, <3>3 DEF Edge
    <3> QED
      BY <3>2, <3>3
  <2>3. CASE s # d
    <3>1. pc'[d] = pc[d] /\ owed'[d] = owed[d]
      BY <1>1, <2>1, <2>3 DEF TypeOK
    <3> QED
      BY <1>1, <1>2, <2>1, <3>1 DEF Edge, Greater
  <2> QED
    BY <2>2, <2>3
<1>5. ASSUME NEW s \in Sources,
             Gate(s) \/ FailRound(s) \/ (\E t \in Time : Write(s, t) \/ Drop(s, t)) \/ BeginRound(s)
                \/ NextPage(s) \/ EndRound(s)
      PROVE  Edge <= Edge'
  <2>1. /\ pc[s] \notin {"off", "new"} /\ pc'[s] \notin {"off", "new"}
        /\ \A k \in Sources \ {s} : pc'[k] = pc[k]
        /\ UNCHANGED <<now, startedAt, owed>>
    BY <1>5 DEF TypeOK, Gate, FailRound, Write, Drop, Batched, BeginRound, NextPage, EndRound, MoveTo, clock
  <2>2. \A k \in Sources : reach[k] <= reach'[k]
    <3>1. CASE BeginRound(s) \/ NextPage(s) \/ EndRound(s)
      BY <3>1, BeginRoundAccounted, MoveAccounted
    <3>2. CASE Gate(s) \/ FailRound(s) \/ (\E t \in Time : Write(s, t) \/ Drop(s, t))
      BY <3>2 DEF TypeOK, Gate, FailRound, Write, Drop, Batched
    <3> QED
      BY <1>5, <3>1, <3>2
  <2>3. CASE s = d
    BY <1>1, <2>1, <2>2, <2>3 DEF Edge
  <2>4. CASE s # d
    <3>1. pc[d] # "off" /\ pc'[d] = pc[d]
      BY <1>1, <2>1, <2>4 DEF Rounds, Sources
    <3> QED
      BY <1>1, <1>2, <2>1, <2>2, <3>1 DEF Edge, Greater
  <2> QED
    BY <2>3, <2>4
<1>6. CASE Crash
  <2>1. pc'[d] = "off" /\ UNCHANGED <<now, disk, reach>>
    BY <1>1, <1>6 DEF Crash
  <2>2. pc[d] # "off"
    BY <1>1, <1>6 DEF Crash, Off, Rounds, Sources
  <2>3. CASE pc[d] = "new" /\ owed[d] = None
    <3>1. disk[d] = None
      BY <1>1, <2>3 DEF Stored
    <3> QED
      BY <1>1, <1>2, <2>1, <2>3, <3>1 DEF Edge, Greater
  <2>4. CASE ~(pc[d] = "new" /\ owed[d] = None)
    BY <1>1, <1>2, <2>1, <2>2, <2>4 DEF Edge, Greater
  <2> QED
    BY <2>3, <2>4
<1>7. CASE Tick
  BY <1>1, <1>2, <1>7 DEF Tick, Edge, Greater, store
<1>8. CASE UNCHANGED vars
  BY <1>1, <1>2, <1>8 DEF vars, clock, store, Edge, Greater
<1> QED
  BY <1>3, <1>4, <1>5, <1>6, <1>7, <1>8 DEF Next, Step

\* The position is that of the deploy poller, or the one it will start at.
LEMMA PositionBehindEdge ==
  ASSUME TypeOK, Rounds, Accounted, Stored, Lead, TypeOK', Accounted', [Next]_vars
  PROVE  pos' # None => pos' <= Edge'
<1> DEFINE d == "deploy"
<1>1. d \in Sources /\ Edge \in Int /\ Edge' \in Int /\ Edge <= Edge' /\ reach'[d] <= Edge'
  BY EdgeIsInt, EdgeGrows DEF Sources, TypeOK, Edge, Greater
<1>2. CASE pos' = pos
  BY <1>1, <1>2 DEF Lead, TypeOK
<1>3. CASE pos' = cur'[d] /\ cur'[d] # None
  <2>1. cur'[d] <= reach'[d] /\ cur'[d] \in Int /\ reach'[d] \in Int
    BY <1>1, <1>3 DEF Accounted, TypeOK
  <2> QED
    BY <1>1, <1>3, <2>1
<1>4. CASE Boot
  <2>1. /\ pc'[d] = "new" /\ owed'[d] = disk[d] /\ startedAt' = now /\ reach' = reach
        /\ pos' = IF disk[d] # None THEN disk[d] ELSE now - Lookback
    BY <1>1, <1>4 DEF Boot, stream
  <2>2. disk[d] # None => disk[d] <= reach[d]
    BY <1>1 DEF Accounted
  <2> QED
    BY <1>1, <2>1, <2>2 DEF TypeOK, Edge, Greater
<1>5. CASE Crash
  BY <1>5 DEF Crash
<1>6. ASSUME NEW s \in Sources, NEW t \in Int, SetCursor(s, t)
      PROVE  pos' = pos \/ (pos' = cur'[d] /\ cur'[d] # None)
  BY <1>1, <1>6 DEF SetCursor, TypeOK
<1>7. ASSUME NEW s \in Sources, Load(s) \/ BeginRound(s) \/ NextPage(s) \/ EndRound(s)
      PROVE  \E t \in Int : SetCursor(s, t)
  <2>1. CASE Load(s)
    BY <2>1 DEF Load, TypeOK
  <2>2. CASE BeginRound(s)
    <3>1. cur[s] \in Int
      BY <2>2 DEF BeginRound, TypeOK
    <3>2. Greater(cur[s], FloorOf(s)) \in Int
      BY <3>1 DEF TypeOK, FloorOf, Greater
    <3> QED
      BY <2>2, <3>2 DEF BeginRound
  <2>3. CASE NextPage(s) \/ EndRound(s)
    BY <2>3 DEF NextPage, EndRound, MoveTo, Rounds
  <2> QED
    BY <1>7, <2>1, <2>2, <2>3
<1>8. CASE Tick \/ UNCHANGED vars
  BY <1>2, <1>8 DEF Tick, vars
<1>9. ASSUME NEW s \in Sources, Gate(s) \/ FailRound(s) \/ \E t \in Time : Write(s, t) \/ Drop(s, t)
      PROVE  pos' = pos
  BY <1>9 DEF Gate, FailRound, Write, Drop, Batched
<1>10. ASSUME NEW s \in Sources, Step(s) \/ FailRound(s)
       PROVE  pos' # None => pos' <= Edge'
  <2>1. CASE Load(s) \/ BeginRound(s) \/ NextPage(s) \/ EndRound(s)
    <3>1. PICK t \in Int : SetCursor(s, t)
      BY <1>7, <2>1
    <3>2. pos' = pos \/ (pos' = cur'[d] /\ cur'[d] # None)
      BY <1>6, <3>1
    <3> QED
      BY <1>2, <1>3, <3>2
  <2>2. CASE Gate(s) \/ FailRound(s) \/ \E t \in Time : Write(s, t) \/ Drop(s, t)
    BY <1>2, <1>9, <2>2
  <2> QED
    BY <1>10, <2>1, <2>2 DEF Step
<1> QED
  BY <1>4, <1>5, <1>8, <1>10 DEF Next

\* A round of the HTTP poller ends where its gate was, or before.
LEMMA HttpBehindGate ==
  ASSUME TypeOK, Rounds, Accounted, Stored, Lead, TypeOK', [Next]_vars,
         pc'["http"] \in {"page", "failed"}
  PROVE  horizon'["http"] <= Edge' + KindSkew
<1> DEFINE h == "http"
<1>1. h \in Sources /\ Edge \in Int /\ Edge' \in Int /\ Edge <= Edge'
  BY EdgeIsInt, EdgeGrows DEF Sources, TypeOK, Edge, Greater
<1>2. CASE UNCHANGED <<pc[h], horizon[h]>>
  <2>1. horizon[h] \in Int /\ horizon[h] <= Edge + KindSkew
    BY <1>1, <1>2 DEF Rounds, Lead
  <2> QED
    BY <1>1, <1>2, <2>1
<1>3. CASE Gate(h)
  <2>1. pos # None
    BY <1>1, <1>3 DEF Gate, TypeOK, Off
  <2>2. pos \in Int /\ pos <= Edge
    BY <2>1 DEF Lead, TypeOK
  <2>3. horizon[h] \in Int /\ horizon'[h] = GateOf(h)
    BY <1>1, <1>3 DEF Gate, Rounds, TypeOK
  <2>4. GateOf(h) <= pos + KindSkew
    BY <2>1, <2>2, <2>3 DEF GateOf, Lesser
  <2>5. GateOf(h) \in Int
    BY <2>1, <2>2, <2>3 DEF GateOf, Lesser
  <2> QED
    BY <1>1, <2>2, <2>3, <2>4, <2>5
<1>4. ASSUME (\E t \in Time : Write(h, t) \/ Drop(h, t)) \/ NextPage(h)
      PROVE  UNCHANGED horizon /\ pc[h] \in {"page", "failed"}
  BY <1>4 DEF Write, Drop, Batched, NextPage
<1>5. CASE UNCHANGED horizon /\ pc[h] \in {"page", "failed"}
  <2>1. horizon[h] \in Int /\ horizon[h] <= Edge + KindSkew
    BY <1>1, <1>5 DEF Rounds, Lead
  <2> QED
    BY <1>1, <1>5, <2>1
<1>6. ~Boot /\ ~Crash /\ ~Load(h) /\ ~BeginRound(h) /\ ~EndRound(h) /\ ~FailRound(h)
  BY <1>1 DEF Boot, Crash, Load, BeginRound, EndRound, FailRound, TypeOK
<1>7. CASE Tick \/ UNCHANGED vars
  BY <1>2, <1>7 DEF Tick, vars
<1>8. ASSUME NEW s \in Sources, Step(s) \/ FailRound(s), s # h
      PROVE  UNCHANGED <<pc[h], horizon[h]>>
  BY <1>1, <1>8 DEF TypeOK, Step, Load, BeginRound, Gate, Write, Drop, Batched, NextPage,
                   EndRound, FailRound, MoveTo
<1>9. ASSUME Step(h)
      PROVE  Gate(h) \/ (UNCHANGED horizon /\ pc[h] \in {"page", "failed"})
  BY <1>4, <1>6, <1>9 DEF Step
<1>10. CASE \E s \in Sources : Step(s) \/ FailRound(s)
  BY <1>2, <1>3, <1>5, <1>6, <1>8, <1>9, <1>10
<1> QED
  BY <1>6, <1>7, <1>10 DEF Next

\* A line of the deploy logs that is not accounted for is no further behind than
\* the window, but for deploy lines that came before it.
LEMMA BatchInWindow ==
  ASSUME TypeOK, Rounds, Accounted, Stored, Lead, DeployInWindow, TypeOK',
         NEW s \in Sources, NEW t \in Time, Write(s, t) \/ Drop(s, t)
  PROVE  /\ DeployInWindow'
         /\ newest' <= Edge' + KindSkew \/ \E j \in had'["deploy"] : newest' <= j
<1> DEFINE d == "deploy"
<1>1. /\ d \in Sources /\ reach[d] \in Int /\ had[d] \subseteq Int /\ newest \in Int
      /\ t \in Int /\ Edge \in Int
  BY EdgeIsInt DEF TypeOK, Sources, Time
<1>2. /\ pc[s] \in {"page", "failed"} /\ upTo[s] \in Int /\ horizon[s] \in Int
      /\ upTo[s] < t /\ t <= horizon[s]
      /\ UNCHANGED <<now, startedAt, disk, owed, reach>>
      /\ pc' \in {pc, [pc EXCEPT ![s] = "failed"]}
  BY DEF Write, Drop, Batched, Rounds, clock, store
<1>3. Edge' = Edge
  <2>1. (pc'[d] = "new" <=> pc[d] = "new") /\ (pc'[d] = "off" <=> pc[d] = "off")
    BY <1>1, <1>2 DEF TypeOK
  <2>2. Greater(reach'[d], startedAt' - Lookback) = Greater(reach[d], startedAt - Lookback)
        /\ Greater(reach'[d], now' - Lookback) = Greater(reach[d], now - Lookback)
    BY <1>2
  <2> QED
    BY <1>2, <2>1, <2>2 DEF Edge
<1>4. CASE Drop(s, t)
  BY <1>3, <1>4 DEF Drop, Lead, DeployInWindow
<1>5. CASE Write(s, t) /\ s = d
  <2>1. Edge = reach[d]
    BY <1>2, <1>5 DEF Edge
  <2>2. newest' = Greater(newest, t) /\ had'[d] = had[d] \cup Batch(d, t) /\ t \in Batch(d, t)
    BY <1>1, <1>2, <1>5 DEF Write, TypeOK, Batch
  <2>3. newest' <= Edge' + KindSkew \/ \E j \in had'[d] : newest' <= j
    <3>1. CASE newest <= t
      <4>1. newest' <= t /\ t \in had'[d]
        BY <1>1, <2>2, <3>1 DEF Greater
      <4> QED
        BY <4>1
    <3>2. CASE newest > t
      <4>1. newest' = newest
        BY <1>1, <2>2, <3>2 DEF Greater
      <4> QED
        BY <1>3, <2>2, <4>1 DEF Lead
    <3> QED
      BY <1>1, <3>1, <3>2
  <2>4. ASSUME NEW i \in Batch(d, t), Fresh(d, i), i < newest - Window
        PROVE  Overtaker(d, i) = "own"
    <3>1. i \in Int /\ i > reach[d]
      BY <1>1, <1>2, <1>5, <2>4 DEF Batch, Fresh
    <3>2. ~(newest <= Edge + KindSkew)
      BY <1>1, <2>1, <2>4, <3>1
    <3>3. PICK j \in had[d] : newest <= j
      BY <3>2 DEF Lead
    <3>4. i < j - Window
      BY <1>1, <2>4, <3>1, <3>3
    <3> QED
      BY <3>4 DEF Overtaker
  <2>5. DeployInWindow'
    BY <1>5, <2>4 DEF Write, DeployInWindow
  <2> QED
    BY <2>3, <2>5
<1>6. CASE Write(s, t) /\ s # d
  <2>1. s = "http" /\ had'[d] = had[d] /\ newest' \in {newest, t}
    BY <1>1, <1>6 DEF Sources, TypeOK, Write, Greater
  <2>2. horizon[s] <= Edge + KindSkew
    BY <1>2, <2>1 DEF Lead
  <2>3. t <= Edge + KindSkew
    BY <1>1, <1>2, <2>2
  <2>4. DeployInWindow'
    BY <1>6 DEF Write, DeployInWindow
  <2> QED
    BY <1>1, <1>3, <2>1, <2>3, <2>4 DEF Lead
<1> QED
  BY <1>4, <1>5, <1>6

\* A line that is accounted for, and forgotten, is behind the edge.
LEMMA AccountLead ==
  ASSUME TypeOK, Rounds, Accounted, Stored, Lead, TypeOK', [Next]_vars,
         \/ UNCHANGED history
         \/ \E s \in Sources : \E t \in Int : Account(s, t)
  PROVE  newest' <= Edge' + KindSkew \/ \E j \in had'["deploy"] : newest' <= j
<1> DEFINE d == "deploy"
<1>1. /\ d \in Sources /\ Edge \in Int /\ Edge' \in Int /\ Edge <= Edge'
      /\ reach'[d] \in Int /\ reach'[d] <= Edge' /\ had[d] \subseteq Int
  BY EdgeIsInt, EdgeGrows DEF TypeOK, Edge, Greater, Sources
<1>2. /\ newest' = newest /\ newest \in Int
      /\ \A j \in had[d] : j \in had'[d] \/ j <= reach'[d]
  BY <1>1, AccountTyped DEF TypeOK
<1>3. CASE newest <= Edge + KindSkew
  <2>1. newest' <= Edge' + KindSkew
    <3>1. ASSUME NEW a \in Int, NEW b \in Int, NEW n \in Int, a <= b, n <= a + KindSkew
          PROVE  n <= b + KindSkew
      BY <3>1
    <3> QED
      BY <1>1, <1>2, <1>3, <3>1
  <2> QED
    BY <2>1
<1>4. ASSUME NEW j \in had[d], newest <= j
      PROVE  newest' <= Edge' + KindSkew \/ \E k \in had'[d] : newest' <= k
  <2>1. CASE j \in had'[d]
    BY <1>2, <1>4, <2>1
  <2>2. CASE j <= reach'[d]
    <3>1. ASSUME NEW a \in Int, NEW b \in Int, NEW c \in Int, NEW n \in Int,
                 n <= a, a <= b, b <= c
          PROVE  n <= c + KindSkew
      BY <3>1
    <3>2. newest' <= Edge' + KindSkew
      BY <1>1, <1>2, <1>4, <2>2, <3>1
    <3> QED
      BY <3>2
  <2> QED
    BY <1>2, <2>1, <2>2
<1> QED
  BY <1>3, <1>4 DEF Lead

LEMMA NextLead ==
  ASSUME TypeOK, Rounds, Accounted, Stored, Lead, DeployInWindow,
         TypeOK', Accounted', [Next]_vars
  PROVE  Lead' /\ DeployInWindow'
<1>1. pos' # None => pos' <= Edge'
  BY PositionBehindEdge
<1>2. pc'["http"] \in {"page", "failed"} => horizon'["http"] <= Edge' + KindSkew
  BY HttpBehindGate
<1>3. CASE \E s \in Sources : \E t \in Time : Write(s, t) \/ Drop(s, t)
  BY <1>1, <1>2, <1>3, BatchInWindow DEF Lead
<1>4. CASE UNCHANGED history \/ \E s \in Sources : \E t \in Int : Account(s, t)
  <2>1. newest' <= Edge' + KindSkew \/ \E j \in had'["deploy"] : newest' <= j
    BY <1>4, AccountLead
  <2>2. rejected' = rejected
    BY <1>4 DEF Account, history, stream
  <2> QED
    BY <1>1, <1>2, <2>1, <2>2 DEF Lead, DeployInWindow
<1>5. CASE ~(\E s \in Sources : \E t \in Time : Write(s, t) \/ Drop(s, t))
  <2>1. CASE Boot \/ Crash \/ Tick \/ UNCHANGED vars
    BY <1>4, <2>1 DEF Boot, Crash, Tick, vars, history
  <2>2. ASSUME NEW s \in Sources, Gate(s) \/ FailRound(s)
        PROVE  UNCHANGED history
    BY <2>2 DEF Gate, FailRound, history
  <2>3. ASSUME NEW s \in Sources, Load(s) \/ BeginRound(s) \/ NextPage(s) \/ EndRound(s)
        PROVE  UNCHANGED history \/ \E t \in Int : Account(s, t)
    <3>1. CASE Load(s)
      BY <3>1 DEF Load, TypeOK
    <3>2. CASE BeginRound(s)
      <4>1. cur[s] \in Int
        BY <3>2 DEF BeginRound, TypeOK
      <4>2. Greater(cur[s], FloorOf(s)) \in Int
        BY <4>1 DEF TypeOK, FloorOf, Greater
      <4> QED
        BY <3>2, <4>2 DEF BeginRound
    <3>3. CASE NextPage(s) \/ EndRound(s)
      BY <3>3 DEF NextPage, EndRound, MoveTo, Rounds
    <3> QED
      BY <2>3, <3>1, <3>2, <3>3
  <2> QED
    BY <1>4, <1>5, <2>1, <2>2, <2>3 DEF Next, Step
<1> QED
  BY <1>3, <1>5

-----------------------------------------------------------------------------
(* The theorems                                                            *)

\* The invariant holds whatever the pollers' order, through restarts, failed
\* rounds and saves, and outages.
THEOREM GateInvariance == Spec => []IInv
<1>1. Init => IInv
  <2> SUFFICES ASSUME Init PROVE IInv
    OBVIOUS
  <2>1. Lead /\ DeployInWindow
    BY EdgeIsInt, InitTyped DEF Init, Lead, DeployInWindow, Sources
  <2> QED
    BY <2>1, InitTyped, InitAccounted DEF IInv
<1>2. IInv /\ [Next]_vars => IInv'
  <2> SUFFICES ASSUME IInv, [Next]_vars PROVE IInv'
    OBVIOUS
  <2>1. TypeOK' /\ Rounds'
    BY NextTyped DEF IInv
  <2>2. Accounted' /\ Stored'
    BY NextAccounted DEF IInv
  <2>3. Lead' /\ DeployInWindow'
    BY <2>1, <2>2, NextLead DEF IInv
  <2> QED
    BY <2>1, <2>2, <2>3 DEF IInv
<1> QED
  BY <1>1, <1>2, PTL DEF Spec

\* Positions, horizons and pages are set exactly while a poller needs them.
THEOREM GateTypeCorrect == Spec => []TypeOK
<1>1. IInv => TypeOK
  BY DEF IInv
<1> QED
  BY <1>1, GateInvariance, PTL

\* No cursor, in a poller, in the store or in the file, passes a line that was
\* neither delivered nor given up with a warning (cursor.go:54-55), while both
\* pollers save to the one file and prune it.
THEOREM CursorsAccounted == Spec => []Accounted
<1>1. IInv => Accounted
  BY DEF IInv
<1> QED
  BY <1>1, GateInvariance, PTL

\* The gate keeps HTTP lines from pushing deploy lines out of their stream's
\* window (poll.go:34-38), for any skew that is within the window and whichever
\* batches are dropped and sent again: what the stream refuses of the deploy
\* logs, later lines of their own had overtaken.
THEOREM DeployStaysInWindow == Spec => []DeployInWindow
<1>1. IInv => DeployInWindow
  BY DEF IInv
<1> QED
  BY <1>1, GateInvariance, PTL

=============================================================================
