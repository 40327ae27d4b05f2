-------------------------- MODULE LogPollerProofs ---------------------------
(***************************************************************************)
(* Proofs about LogPoller, for any sinks, sizes and windows, any history   *)
(* of the source and any number of dropped batches and crashes.            *)
(***************************************************************************)
EXTENDS LogPoller, LineSeqProofs

\* The cursors that vouch for lines, and the one that will when the page is
\* written.
Positions == {cursor, memo, disk, next} \ {None}

\* A line behind c that can still arrive has been given up.
SettledBehind(c) ==
    \A t \in 1..MaxTime : now - Settle < t /\ t < c.ts => t \in skipped

\* c counts no more lines of its timestamp than there are.
CountsSound(c) ==
    \A l \in Line : l.ts = c.ts => c.seen[l.hash] <= Count(stored, l)

\* How many lines like l the poller has behind it in its page.
Handled(l) ==
    IF l.ts < next.ts THEN Count(stored, l)
    ELSE IF l.ts > next.ts THEN 0
    ELSE IF next.ts = cursor.ts THEN next.seen[l.hash] - seen[l.hash]
    ELSE next.seen[l.hash]

\* The lines a worker was handed since the page's mark.
Fresh(s) == SubSeq(out[s], older[s] + 1, Len(out[s]))

\* The poller's locals are set while they are used, and what a round reads has
\* settled.
Phases ==
    /\ cursor = None <=> pc = "off"
    /\ next = None <=> pc # "page"
    /\ pc \in {"fetch", "page", "save", "finish"} => horizon <= now - Settle
    /\ pc = "gone" => retireAt # None /\ cursor.ts >= retireAt

\* What a cursor says of the lines behind it cannot become wrong.
Vouching ==
    /\ Sorted(stored)
    /\ \A c \in Positions : SettledBehind(c) /\ CountsSound(c)
    /\ disk # None /\ cursor # None => Ahead(cursor, disk)

\* The page in hand continues where next is, and holds no line that is behind
\* it already.
Paging ==
    pc = "page" =>
        /\ Sorted(todo)
        /\ \A i \in 1..Len(todo) : todo[i].ts >= next.ts
        /\ Ahead(next, cursor)
        /\ \A l \in Line :
              cursor.ts <= l.ts => Handled(l) + Count(todo, l) <= Count(stored, l)

\* Up to the horizon, and to the page's end if the page is full, no line is
\* missing from it.
Complete ==
    pc = "page" =>
        \A l \in Line :
            /\ cursor.ts <= l.ts /\ l.ts <= horizon
            /\ ~full \/ (todo # <<>> /\ l.ts < todo[Len(todo)].ts)
            => Handled(l) + Count(todo, l) >= Count(stored, l)

\* What next vouches for is accepted, or handed over since the mark, unless a
\* failure will show.
PageDelivered ==
    pc = "page" =>
        \A s \in Sinks : \A l \in Wanted :
            ~failed[s] => accepted[s][l] + Count(Fresh(s), l) >= Vouched(next, l)

\* A round that finishes has delivered all it read.
RoundDelivered ==
    pc = "finish" =>
        \A s \in Sinks : \A l \in Wanted :
            l.ts <= horizon => accepted[s][l] >= Count(stored, l)

Delivered == NothingLost /\ PageDelivered /\ RoundDelivered

Position == IF pc = "page" THEN next ELSE cursor

\* Without a failure a sink has, or will have, no line more often than the
\* poller's position vouches for.
Once ==
    faults = MaxFaults => \A s \in Sinks :
        /\ ~failed[s]
        /\ pc # "page" => out[s] = <<>>
        /\ cursor = None => disk = None /\ \A l \in Line : accepted[s][l] = 0
        /\ cursor # None =>
              \A l \in Line : accepted[s][l] + Count(out[s], l) <= Vouched(Position, l)

USE PollerAssumption, NoneAssumption DEF PollerAssumption

-----------------------------------------------------------------------------
(* Pages                                                                   *)

\* The fields of a line.
LEMMA LineTs == \A l \in Line : l.ts \in Int /\ l.ts \in 1..MaxTime /\ l.hash \in Hashes
  BY DEF Line

\* What is left of a page when the lines that do not parse are taken out.
LEMMA ParsedLines ==
  ASSUME NEW s \in Seq(Line)
  PROVE  /\ Parsed(s) \in Seq(Line)
         /\ \E f \in [1..Len(Parsed(s)) -> 1..Len(s)] :
               /\ \A i, j \in 1..Len(Parsed(s)) : i < j => f[i] < f[j]
               /\ \A i \in 1..Len(Parsed(s)) : Parsed(s)[i] = s[f[i]]
         /\ Garbled = {} => Parsed(s) = s
<1> DEFINE W == {i \in DOMAIN s : Parses(s[i])}
           f == Ordered(W)
           n == Cardinality(W)
<1>1. Len(s) \in Nat /\ DOMAIN s = 1..Len(s) /\ \A i \in 1..Len(s) : s[i] \in Line
  OBVIOUS
<1>2. W \in SUBSET (1..Len(s)) /\ W \in SUBSET Int
  BY <1>1
<1>3. IsFiniteSet(W)
  <2> HIDE DEF W
  <2> QED
    BY <1>1, <1>2, UpTo, FS_Subset
<1> HIDE DEF W
<1>4. /\ n \in Nat /\ f \in [1..n -> W]
      /\ \A i, j \in 1..n : i < j => f[i] < f[j]
  BY <1>2, <1>3, OrderedLists
<1> HIDE DEF f, n
<1>5. Parsed(s) = [k \in 1..n |-> s[f[k]]]
  BY <1>4 DEF Parsed, f, W
<1>6. Parsed(s) \in Seq(Line) /\ Len(Parsed(s)) = n
  <2>1. [k \in 1..n |-> s[f[k]]] \in [1..n -> Line]
    BY <1>1, <1>2, <1>4
  <2> QED
    BY <2>1, <1>4, <1>5, FunctionIsSeq
<1>7. f \in [1..n -> 1..Len(s)] /\ \A i \in 1..n : Parsed(s)[i] = s[f[i]]
  BY <1>2, <1>4, <1>5
<1>8. ASSUME Garbled = {}
      PROVE  Parsed(s) = s
  <2>1. W = 1..Len(s)
    BY <1>1, <1>8 DEF W, Parses
  <2>2. f = [k \in 1..Len(s) |-> k] /\ n = Len(s)
    BY <1>1, <2>1, OrderedAll, UpTo DEF f, n
  <2>3. Parsed(s) = [k \in 1..Len(s) |-> s[k]]
    BY <1>5, <2>2
  <2> QED
    BY <1>1, <2>3
<1> QED
  BY <1>4, <1>6, <1>7, <1>8

\* Railway returns lines.
LEMMA HistoryType ==
  ASSUME stored \in Seq(Line), NEW anchor, NEW limit \in Nat
  PROVE  History(anchor, limit) \in Seq(Line)
<1> DEFINE P == {i \in DOMAIN stored : stored[i].ts < anchor}
<1>1. Len(stored) \in Nat /\ P \in SUBSET (1..Len(stored))
  OBVIOUS
<1>2. IsFiniteSet(P) /\ Cardinality(P) \in Nat
  <2> HIDE DEF P
  <2> QED
    <3>1. IsFiniteSet(1..Len(stored))
      BY <1>1, UpTo
    <3>2. IsFiniteSet(P)
      BY <1>1, <3>1, FS_Subset
    <3> QED
      BY <3>2, FS_CardinalityType
<1> DEFINE p == Cardinality(P)
           m == Lesser(p + limit, Len(stored))
<1>3. History(anchor, limit) = SubSeq(stored, p + 1, m)
  BY DEF History
<1>4. p \in Nat /\ m \in Nat /\ m <= Len(stored)
  <2> HIDE DEF P
  <2> QED
    BY <1>1, <1>2 DEF Lesser
<1> HIDE DEF p, m
<1> QED
  BY <1>3, <1>4

\* A page is a stretch of the stored lines: it starts with the first one at or
\* after the anchor, and is shorter than the limit only if it is the last.
LEMMA HistoryLines ==
  ASSUME stored \in Seq(Line), Sorted(stored), NEW anchor \in Int, NEW limit \in Nat
  PROVE  LET h == History(anchor, limit) IN
         /\ h \in Seq(Line) /\ Sorted(h)
         /\ \A i \in 1..Len(h) : h[i].ts >= anchor
         /\ \A l \in Line :
               /\ Count(h, l) <= Count(stored, l)
               /\ l.ts >= anchor /\ (Len(h) < limit \/ (h # <<>> /\ l.ts < h[Len(h)].ts))
                    => Count(stored, l) <= Count(h, l)
<1> DEFINE p == Cardinality({i \in DOMAIN stored : stored[i].ts < anchor})
           m == Lesser(p + limit, Len(stored))
           h == History(anchor, limit)
<1>0. /\ Len(stored) \in Nat /\ DOMAIN stored = 1..Len(stored)
      /\ \A i \in 1..Len(stored) : stored[i] \in Line
  OBVIOUS
<1>1. p \in 0..Len(stored) /\ \A i \in 1..Len(stored) : stored[i].ts < anchor <=> i <= p
  BY SortedPrefix, LineTs
<1>2. h = SubSeq(stored, p + 1, m)
  BY DEF History
<1> HIDE DEF p, h
<1>3. m \in p..Len(stored) /\ (m < Len(stored) => m = p + limit)
  BY <1>0, <1>1 DEF Lesser
<1> HIDE DEF m
<1>4. p \in Nat /\ m \in Nat /\ p <= m /\ m <= Len(stored) /\ p + 1 \in Int
  BY <1>0, <1>1, <1>3
<1>5. \A i \in p+1..m : stored[i] \in Line
  BY <1>0, <1>4
<1>6. /\ h \in Seq(Line)
      /\ Len(h) = IF p + 1 <= m THEN m - (p + 1) + 1 ELSE 0
      /\ \A i \in 1..(m - (p + 1) + 1) : h[i] = stored[p + 1 + i - 1]
  BY <1>2, <1>4, <1>5, SubSeqProperties
<1>7. Len(h) = m - p
  BY <1>4, <1>6
<1>8. \A i \in 1..Len(h) : p + i \in p+1..m /\ h[i] = stored[p + i]
  BY <1>4, <1>6, <1>7
<1>9. DOMAIN h = 1..Len(h) /\ Len(h) \in Nat
  BY <1>6
<1>10. Sorted(h)
  <2> SUFFICES ASSUME NEW i \in 1..Len(h), NEW j \in 1..Len(h), i <= j
               PROVE  h[i].ts <= h[j].ts
    BY <1>9 DEF Sorted
  <2>1. p + i \in 1..Len(stored) /\ p + j \in 1..Len(stored) /\ p + i <= p + j
    BY <1>4, <1>8, <1>9
  <2>2. stored[p + i].ts <= stored[p + j].ts
    BY <1>0, <2>1 DEF Sorted
  <2> QED
    BY <1>8, <2>2
<1>11. ASSUME NEW i \in 1..Len(h)
       PROVE  h[i].ts >= anchor
  <2>1. p + i \in 1..Len(stored) /\ ~(p + i <= p)
    BY <1>4, <1>8, <1>9
  <2>2. ~(stored[p + i].ts < anchor) /\ stored[p + i].ts \in Int
    BY <1>0, <1>1, <2>1, LineTs
  <2> QED
    BY <1>8, <2>2
<1> DEFINE f == [i \in 1..Len(h) |-> p + i]
<1>12. /\ f \in [1..Len(h) -> 1..Len(stored)]
       /\ \A i, j \in 1..Len(h) : f[i] = f[j] => i = j
       /\ \A i \in 1..Len(h) : h[i] = stored[f[i]]
  BY <1>4, <1>8, <1>9
<1>13. ASSUME NEW l \in Line
       PROVE  Count(h, l) <= Count(stored, l)
  <2> HIDE DEF f
  <2> QED
    BY <1>6, <1>12, CountEmbedded
<1>14. ASSUME NEW l \in Line, l.ts >= anchor,
              Len(h) < limit \/ (h # <<>> /\ l.ts < h[Len(h)].ts)
       PROVE  Count(stored, l) <= Count(h, l)
  <2>1. ASSUME NEW j \in 1..Len(stored), stored[j] = l
        PROVE  j \in p+1..m
    <3>1. ~(j <= p)
      BY <1>1, <1>14, <2>1, LineTs
    <3>2. j <= m
      <4>1. CASE Len(h) < limit
        BY <4>1, <1>0, <1>3, <1>4, <1>7
      <4>2. CASE h # <<>> /\ l.ts < h[Len(h)].ts
        <5>1. Len(h) \in 1..Len(h) /\ p + Len(h) = m /\ m \in 1..Len(stored)
          BY <4>2, <1>4, <1>6, <1>7, <1>9
        <5>2. l.ts < stored[m].ts
          BY <4>2, <5>1, <1>8
        <5>3. ~(m <= j)
          <6>1. m <= j => stored[m].ts <= stored[j].ts
            BY <1>0, <5>1 DEF Sorted
          <6>2. stored[m].ts \in Int /\ l.ts \in Int
            BY <1>0, <5>1, LineTs
          <6> QED
            BY <6>1, <6>2, <5>2, <2>1
        <5> QED
          BY <5>3, <1>4
      <4> QED
        BY <1>14, <4>1, <4>2
    <3> QED
      BY <3>1, <3>2, <1>4
  <2>2. ASSUME NEW j \in 1..Len(stored), stored[j] = l
        PROVE  \E i \in 1..Len(h) : f[i] = j
    <3>1. j - p \in 1..Len(h) /\ p + (j - p) = j
      BY <2>1, <2>2, <1>4, <1>7
    <3> QED
      BY <3>1
  <2> HIDE DEF f
  <2> QED
    BY <1>6, <1>12, <2>2, CountCovered
<1> QED
  BY <1>6, <1>10, <1>11, <1>13, <1>14 DEF h

\* The same of the lines of a page that parse, but for those that do not.
LEMMA PageLines ==
  ASSUME stored \in Seq(Line), Sorted(stored), NEW anchor \in Int, NEW limit \in Nat
  PROVE  LET q == Parsed(History(anchor, limit)) IN
         /\ q \in Seq(Line) /\ Sorted(q)
         /\ \A i \in 1..Len(q) : q[i].ts >= anchor
         /\ \A l \in Line : Count(q, l) <= Count(stored, l)
         /\ Garbled = {} => q = History(anchor, limit)
<1> DEFINE h == History(anchor, limit)
           q == Parsed(h)
<1>1. /\ h \in Seq(Line) /\ Sorted(h)
      /\ \A i \in 1..Len(h) : h[i].ts >= anchor
      /\ \A l \in Line : Count(h, l) <= Count(stored, l)
  BY HistoryLines
<1> HIDE DEF h
<1>2. q \in Seq(Line) /\ (Garbled = {} => q = h)
  BY <1>1, ParsedLines
<1>3. PICK f \in [1..Len(q) -> 1..Len(h)] :
         /\ \A i, j \in 1..Len(q) : i < j => f[i] < f[j]
         /\ \A i \in 1..Len(q) : q[i] = h[f[i]]
  BY <1>1, ParsedLines
<1> HIDE DEF q
<1>4. Len(q) \in Nat /\ Len(h) \in Nat /\ DOMAIN q = 1..Len(q) /\ DOMAIN h = 1..Len(h)
  BY <1>1, <1>2
<1>5. ASSUME NEW i \in 1..Len(q), NEW j \in 1..Len(q), i <= j
      PROVE  f[i] <= f[j]
  <2>1. f[i] \in Int /\ f[j] \in Int /\ (i < j \/ i = j)
    BY <1>3, <1>4, <1>5
  <2>2. i < j => f[i] < f[j]
    BY <1>3, Zenon
  <2> QED
    BY <2>1, <2>2
<1>6. Sorted(q)
  BY <1>1, <1>3, <1>4, <1>5 DEF Sorted
<1>7. \A i \in 1..Len(q) : q[i].ts >= anchor
  BY <1>1, <1>3
<1>8. \A i, j \in 1..Len(q) : f[i] = f[j] => i = j
  BY <1>3, <1>4, SMTT(30)
<1>9. ASSUME NEW l \in Line
      PROVE  Count(q, l) <= Count(stored, l)
  <2>1. Count(q, l) <= Count(h, l)
    BY <1>1, <1>2, <1>3, <1>8, CountEmbedded
  <2>2. Count(h, l) <= Count(stored, l)
    BY <1>1
  <2>3. Count(q, l) \in Nat /\ Count(h, l) \in Nat /\ Count(stored, l) \in Nat
    BY <1>1, <1>2, CountType
  <2> QED
    BY <2>1, <2>2, <2>3
<1> QED
  BY <1>2, <1>6, <1>7, <1>9 DEF q, h

\* A line that arrives is counted once, and goes where its timestamp belongs.
LEMMA ArriveLines ==
  ASSUME stored \in Seq(Line), NEW l \in Line, Arrive(l)
  PROVE  /\ stored' \in Seq(Line) /\ Len(stored') = Len(stored) + 1
         /\ now - Settle < l.ts
         /\ \A k : Count(stored', k) = Count(stored, k) + (IF l = k THEN 1 ELSE 0)
         /\ Sorted(stored) => Sorted(stored')
<1>1. PICK n \in 0..Len(stored) :
        /\ \A j \in 1..n : stored[j].ts <= l.ts
        /\ \A j \in n+1..Len(stored) : stored[j].ts >= l.ts
        /\ stored' = PutBehind(stored, n, l)
  BY DEF Arrive
<1> DEFINE t == PutBehind(stored, n, l)
<1>2. t \in Seq(Line) /\ Len(t) = Len(stored) + 1
  BY CountInsert
<1>2a. \A k : Count(t, k) = Count(stored, k) + (IF l = k THEN 1 ELSE 0)
  BY CountInsert
<1>3. /\ \A i \in 1..n : t[i] = stored[i]
      /\ t[n + 1] = l
      /\ \A i \in n+1..Len(stored) : t[i + 1] = stored[i]
  BY InsertAt
<1>4. stored' = t
  BY <1>1
<1> HIDE DEF t
<1>5. Sorted(stored) => Sorted(t)
  BY <1>1, <1>2, <1>3, LineTs, SortedWithOneMore
<1>6. now - Settle < l.ts
  BY DEF Arrive
<1> QED
  BY <1>2, <1>2a, <1>4, <1>5, <1>6

-----------------------------------------------------------------------------
(* Types and phases                                                        *)

\* A cursor at an instant.
LEMMA AtCursor == \A t \in Int : At(t) \in Cursor /\ At(t).ts = t
  BY DEF At, Cursor

\* advance makes a cursor, at the later of the two timestamps.
LEMMA AdvanceCursor ==
  ASSUME NEW c \in Cursor, NEW l \in Line
  PROVE  /\ Advance(c, l) \in Cursor
         /\ Advance(c, l).ts = Greater(c.ts, l.ts)
         /\ l.ts < c.ts \/ Advance(c, l).ts = l.ts
<1> USE LineTs
<1>1. CASE l.ts > c.ts
  BY <1>1 DEF Advance, At, Cursor, Greater
<1>2. CASE ~(l.ts > c.ts)
  BY <1>2 DEF Advance, Cursor, Greater
<1> QED
  BY <1>1, <1>2

\* The fields of a cursor, which is never the value for none.
LEMMA CursorNotNone == \A c \in Cursor : c # None /\ c.ts \in Int /\ c.seen \in [Hashes -> Nat]
  BY DEF Cursor

\* The head and the tail of a sequence that is not empty.
LEMMA HeadTail ==
  ASSUME NEW S, NEW s \in Seq(S), s # <<>>
  PROVE  Head(s) \in S /\ Tail(s) \in Seq(S) /\ Head(s) = s[1] /\ Len(s) \in Nat \ {0}
  OBVIOUS

\* The two parts of a sequence.
LEMMA SubSeqType ==
  ASSUME NEW S, NEW s \in Seq(S), NEW n \in 0..Len(s)
  PROVE  /\ SubSeq(s, 1, n) \in Seq(S)
         /\ SubSeq(s, n + 1, Len(s)) \in Seq(S)
         /\ Len(SubSeq(s, n + 1, Len(s))) = Len(s) - n
<1>1. Len(s) \in Nat /\ n \in Nat /\ n <= Len(s) /\ n + 1 \in Int /\ Len(s) - (n + 1) + 1 = Len(s) - n
  OBVIOUS
<1>2. \A i \in 1..Len(s) : s[i] \in S
  OBVIOUS
<1>3. (\A i \in 1..n : s[i] \in S) /\ (\A i \in n+1..Len(s) : s[i] \in S)
  BY <1>1, <1>2
<1>4. SubSeq(s, 1, n) \in Seq(S)
  BY <1>1, <1>3, SubSeqProperties
<1>5. /\ SubSeq(s, n + 1, Len(s)) \in Seq(S)
      /\ Len(SubSeq(s, n + 1, Len(s))) =
            IF n + 1 <= Len(s) THEN Len(s) - (n + 1) + 1 ELSE 0
  BY <1>1, <1>3, SubSeqProperties
<1>6. \A k \in Nat : n <= k => (IF n + 1 <= k THEN k - (n + 1) + 1 ELSE 0) = k - n
  BY <1>1
<1>7. Len(SubSeq(s, n + 1, Len(s))) = Len(s) - n
  BY <1>1, <1>5, <1>6, Zenon
<1> QED
  BY <1>4, <1>5, <1>7

\* Types and phases hold at first.
LEMMA TypeInit == Init => TypeOK /\ Phases
<1> SUFFICES ASSUME Init PROVE TypeOK /\ Phases
  OBVIOUS
<1>1. TypeOK
  <2>1. /\ now \in 0..MaxTime /\ peer \in 0..MaxTime /\ faults \in 0..MaxFaults
    BY DEF Init
  <2>0. stored \in Seq(Line) /\ todo \in Seq(Line) /\ Len(stored) = 0
    BY DEF Init
  <2>2. seen \in [Hashes -> Nat] /\ older \in [Sinks -> Nat] /\ failed \in [Sinks -> BOOLEAN]
    BY DEF Init
  <2>3. accepted \in [Sinks -> [Line -> Nat]]
    BY DEF Init
  <2>4. out \in [Sinks -> Seq(Line)]
    BY DEF Init
  <2>5. \A s \in Sinks : older[s] <= Len(out[s])
    BY DEF Init
  <2>6. /\ pc = "off" /\ cursor = None /\ retireAt = None /\ horizon \in Int
        /\ err \in BOOLEAN /\ full \in BOOLEAN /\ next = None /\ memo = None /\ disk = None
        /\ skipped \subseteq 1..MaxTime
    <3>1. /\ pc = "off" /\ cursor = None /\ retireAt = None /\ horizon = 0
          /\ err = FALSE /\ full = FALSE /\ next = None /\ memo = None /\ disk = None
          /\ skipped = {}
      BY Zenon DEF Init
    <3>2. 0 \in Int /\ FALSE \in BOOLEAN /\ {} \subseteq 1..MaxTime
      OBVIOUS
    <3> QED
      BY <3>1, <3>2, Zenon
  <2> QED
    BY <2>0, <2>1, <2>2, <2>3, <2>4, <2>5, <2>6 DEF TypeOK
<1>2. Phases
  BY DEF Init, Phases
<1> QED
  BY <1>1, <1>2

\* Every step keeps them.
LEMMA TypeStep == TypeOK /\ Phases /\ [Next]_vars => TypeOK' /\ Phases'
<1> SUFFICES ASSUME TypeOK, Phases, [Next]_vars
             PROVE  TypeOK' /\ Phases'
  OBVIOUS
<1> USE CursorNotNone, AtCursor
<1> USE DEF TypeOK, Phases, source, round, page, store, workers, NoPage
<1>1. CASE Start
  <2>1. now - Lookback \in Int
    OBVIOUS
  <2>2. cursor' \in Cursor /\ skipped' \subseteq 1..MaxTime
    BY <1>1, <2>1 DEF Start
  <2>3. TypeOK'
    BY <1>1, <2>2 DEF Start
  <2>4. Phases'
    BY <1>1, <2>2 DEF Start
  <2> QED
    BY <2>3, <2>4
<1>2. CASE BeginRound
  <2>1. Horizon \in Int /\ Floor \in Int /\ Horizon <= now - Settle
    BY DEF Horizon, Floor, Lesser, Greater
  <2>2. cursor \in Cursor
    BY <1>2 DEF BeginRound
  <2>3. TypeOK'
    BY <1>2, <2>1, <2>2 DEF BeginRound
  <2>4. Phases'
    BY <1>2, <2>1, <2>2 DEF BeginRound
  <2> QED
    BY <2>3, <2>4
<1>3. CASE FetchFails
  BY <1>3 DEF FetchFails
<1>4. CASE FetchPage
  <2>1. cursor \in Cursor
    BY <1>4 DEF FetchPage
  <2>2. todo' \in Seq(Line)
    <3>1. PICK limit \in {PageSize, PageSize + 1} : todo' = Parsed(History(cursor.ts, limit))
      BY <1>4 DEF FetchPage
    <3> QED
      BY <3>1, HistoryType, ParsedLines
  <2>3. /\ older' \in [Sinks -> Nat] /\ failed' \in [Sinks -> BOOLEAN]
        /\ \A s \in Sinks : older'[s] <= Len(out'[s])
    BY <1>4 DEF FetchPage, TakeMarks
  <2> QED
    BY <1>4, <2>1, <2>2, <2>3 DEF FetchPage
<1>5. CASE SkipRepeated
  <2>1. Head(todo) \in Line /\ Tail(todo) \in Seq(Line)
    BY <1>5, HeadTail DEF SkipRepeated, Within
  <2>2. seen' \in [Hashes -> Nat]
    BY <1>5, <2>1, LineTs, SMTT(30) DEF SkipRepeated, Repeated
  <2> QED
    BY <1>5, <2>1, <2>2 DEF SkipRepeated
<1>6. CASE Dispatch
  <2>1. Head(todo) \in Line /\ Tail(todo) \in Seq(Line)
    BY <1>6, HeadTail DEF Dispatch, Within
  <2>2. next \in Cursor
    BY <1>6 DEF Dispatch
  <2>3. next' \in Cursor
    BY <1>6, <2>1, <2>2, AdvanceCursor DEF Dispatch
  <2>4. out' \in [Sinks -> Seq(Line)] /\ \A s \in Sinks : Len(out[s]) <= Len(out'[s])
    BY <1>6, <2>1 DEF Dispatch, DispatchWait
  <2>5. \A s \in Sinks : older'[s] <= Len(out'[s])
    BY <1>6, <2>4 DEF Dispatch
  <2> QED
    BY <1>6, <2>1, <2>3, <2>4, <2>5 DEF Dispatch
<1>7. CASE NotWritten
  <2>1. seen' \in [Hashes -> Nat] /\ todo' \in Seq(Line) /\ next' = None
    BY <1>7 DEF NotWritten
  <2>2. TypeOK'
    BY <1>7, <2>1 DEF NotWritten
  <2>3. Phases'
    BY <1>7, <2>1 DEF NotWritten
  <2> QED
    BY <2>2, <2>3
<1>8. CASE Written
  <2>1. next \in Cursor
    BY <1>8 DEF Written, Settled
  <2>2. cursor' \in Cursor
    BY <1>8, <2>1 DEF Written
  <2>3. seen' \in [Hashes -> Nat] /\ todo' \in Seq(Line) /\ next' = None
    BY <1>8 DEF Written
  <2>4. skipped' \subseteq 1..MaxTime
    BY <1>8 DEF Written
  <2>5. TypeOK'
    BY <1>8, <2>2, <2>3, <2>4 DEF Written
  <2>6. Phases'
    BY <1>8, <2>2, <2>3 DEF Written, Settled
  <2> QED
    BY <2>5, <2>6
<1>9. CASE SavePage
  BY <1>9 DEF SavePage, Save
<1>10. CASE FinishRound
  <2>1. Reached(cursor) \in Cursor
    BY <1>10 DEF FinishRound, Reached
  <2> QED
    BY <1>10, <2>1 DEF FinishRound, Save
<1>11. CASE EndRound
  BY <1>11 DEF EndRound, Drained
<1>12. CASE Tick
  BY <1>12 DEF Tick
<1>13. CASE PeerMoves
  BY <1>13 DEF PeerMoves
<1>14. CASE Retire
  BY <1>14 DEF Retire
<1>15. CASE Crash
  <2>1. seen' \in [Hashes -> Nat] /\ todo' \in Seq(Line) /\ next' = None
    BY <1>15 DEF Crash
  <2>2. out' \in [Sinks -> Seq(Line)] /\ older' \in [Sinks -> Nat]
        /\ failed' \in [Sinks -> BOOLEAN] /\ \A s \in Sinks : older'[s] <= Len(out'[s])
    BY <1>15 DEF Crash
  <2>5. faults' \in 0..MaxFaults
    BY <1>15 DEF Crash
  <2>6. /\ pc' = "off" /\ cursor' = None /\ memo' = None /\ horizon' = 0 /\ err' = FALSE
        /\ UNCHANGED <<now, stored, peer, retireAt, disk, accepted, skipped>>
        /\ full' = FALSE
    BY <1>15, Zenon DEF Crash
  <2>7. /\ pc' \in {"off", "idle", "fetch", "page", "save", "finish", "round", "gone"}
        /\ horizon' \in Int
    BY <2>6
  <2>9. cursor' \in Cursor \cup {None} /\ memo' \in Cursor \cup {None}
    BY <2>6
  <2>10. err' \in BOOLEAN /\ full' \in BOOLEAN
    BY <2>6
  <2>8. /\ now' \in 0..MaxTime /\ stored' \in Seq(Line) /\ Len(stored') <= MaxLines
        /\ peer' \in 0..MaxTime /\ retireAt' \in 0..MaxTime \cup {None}
        /\ disk' \in Cursor \cup {None} /\ accepted' \in [Sinks -> [Line -> Nat]]
        /\ skipped' \subseteq 1..MaxTime
    BY <2>6
  <2>3. TypeOK'
    BY <2>1, <2>2, <2>5, <2>7, <2>8, <2>9, <2>10
  <2>4. Phases'
    BY <1>15, <2>1 DEF Crash
  <2> QED
    BY <2>3, <2>4
<1>16. ASSUME NEW l \in Line, Arrive(l)
       PROVE  TypeOK' /\ Phases'
  <2>1. stored' \in Seq(Line) /\ Len(stored') <= MaxLines
    <3>1. stored' \in Seq(Line) /\ Len(stored') = Len(stored) + 1
      BY <1>16, ArriveLines
    <3>2. Len(stored) < MaxLines /\ Len(stored) \in Nat
      BY <1>16 DEF Arrive
    <3> QED
      BY <3>1, <3>2
  <2> QED
    BY <1>16, <2>1 DEF Arrive
<1>17. ASSUME NEW s \in Sinks, Accept(s)
       PROVE  TypeOK' /\ Phases'
  <2>1. PICK n \in 1..Len(out[s]) :
          /\ accepted' = [accepted EXCEPT ![s] =
                [l \in Line |-> @[l] + Count(SubSeq(out[s], 1, n), l)]]
          /\ out' = [out EXCEPT ![s] = SubSeq(@, n + 1, Len(@))]
          /\ older' = [older EXCEPT ![s] = Greater(@ - n, 0)]
    BY <1>17 DEF Accept
  <2>2. n \in 0..Len(out[s]) /\ out[s] \in Seq(Line) /\ Len(out[s]) \in Nat
    OBVIOUS
  <2>3. /\ SubSeq(out[s], 1, n) \in Seq(Line) /\ SubSeq(out[s], n + 1, Len(out[s])) \in Seq(Line)
        /\ Len(SubSeq(out[s], n + 1, Len(out[s]))) = Len(out[s]) - n
    BY <2>2, SubSeqType
  <2>4. \A l \in Line : Count(SubSeq(out[s], 1, n), l) \in Nat
    BY <2>3, CountType
  <2>5. accepted' \in [Sinks -> [Line -> Nat]]
    <3> DEFINE more == [l \in Line |-> accepted[s][l] + Count(SubSeq(out[s], 1, n), l)]
    <3>1. accepted' = [accepted EXCEPT ![s] = more]
      BY <2>1
    <3>2. more \in [Line -> Nat]
      BY <2>4, SMTT(30)
    <3> HIDE DEF more
    <3> QED
      BY <3>1, <3>2
  <2>6. out' \in [Sinks -> Seq(Line)]
    BY <2>1, <2>3
  <2>7. older' \in [Sinks -> Nat] /\ \A r \in Sinks : older'[r] <= Len(out'[r])
    <3>1. Greater(older[s] - n, 0) \in Nat /\ Greater(older[s] - n, 0) <= Len(out[s]) - n
      BY <2>2 DEF Greater
    <3>2. older' \in [Sinks -> Nat]
      BY <2>1, <3>1
    <3>3. Len(out'[s]) = Len(out[s]) - n /\ older'[s] = Greater(older[s] - n, 0)
      BY <2>1, <2>3
    <3>4. \A r \in Sinks \ {s} : out'[r] = out[r] /\ older'[r] = older[r]
      BY <2>1
    <3> QED
      BY <3>1, <3>2, <3>3, <3>4
  <2> QED
    BY <1>17, <2>5, <2>6, <2>7 DEF Accept
<1>18. ASSUME NEW s \in Sinks, Drop(s)
       PROVE  TypeOK' /\ Phases'
  <2>1. PICK n \in 0..Len(out[s]) :
          /\ failed' = [failed EXCEPT ![s] = @ \/ n = 0 \/ n > older[s]]
          /\ out' = [out EXCEPT ![s] = SubSeq(@, n + 1, Len(@))]
          /\ older' = [older EXCEPT ![s] = Greater(@ - n, 0)]
    BY <1>18 DEF Drop
  <2>2. out[s] \in Seq(Line) /\ Len(out[s]) \in Nat
    OBVIOUS
  <2>3. /\ SubSeq(out[s], n + 1, Len(out[s])) \in Seq(Line)
        /\ Len(SubSeq(out[s], n + 1, Len(out[s]))) = Len(out[s]) - n
    BY <2>2, SubSeqType
  <2>4. out' \in [Sinks -> Seq(Line)]
    BY <2>1, <2>3
  <2>5. older' \in [Sinks -> Nat] /\ \A r \in Sinks : older'[r] <= Len(out'[r])
    <3>1. Greater(older[s] - n, 0) \in Nat /\ Greater(older[s] - n, 0) <= Len(out[s]) - n
      BY <2>2 DEF Greater
    <3>2. older' \in [Sinks -> Nat]
      BY <2>1, <3>1
    <3>3. Len(out'[s]) = Len(out[s]) - n /\ older'[s] = Greater(older[s] - n, 0)
      BY <2>1, <2>3
    <3>4. \A r \in Sinks \ {s} : out'[r] = out[r] /\ older'[r] = older[r]
      BY <2>1
    <3> QED
      BY <3>1, <3>2, <3>3, <3>4
  <2>6. failed' \in [Sinks -> BOOLEAN]
    BY <2>1
  <2>7. faults' \in 0..MaxFaults
    BY <1>18 DEF Drop
  <2> QED
    BY <1>18, <2>4, <2>5, <2>6, <2>7 DEF Drop
<1>19. CASE UNCHANGED vars
  BY <1>19 DEF vars
<1> QED
  BY <1>1, <1>2, <1>3, <1>4, <1>5, <1>6, <1>7, <1>8, <1>9, <1>10, <1>11, <1>12,
     <1>13, <1>14, <1>15, <1>16, <1>17, <1>18, <1>19 DEF Next, Poll, Ended

-----------------------------------------------------------------------------
(* What no step undoes                                                     *)

\* Time does not go back, what is given up stays so, no line is taken away, a
\* line that arrives has not settled, and what a sink took it keeps.
LEMMA Grows ==
  ASSUME TypeOK, TypeOK', [Next]_vars
  PROVE  /\ now <= now' /\ skipped \subseteq skipped'
         /\ Sorted(stored) => Sorted(stored')
         /\ \A l \in Line :
               /\ Count(stored, l) \in Nat /\ Count(stored', l) \in Nat
               /\ Count(stored, l) <= Count(stored', l)
               /\ l.ts <= now - Settle => Count(stored', l) = Count(stored, l)
         /\ \A s \in Sinks : \A l \in Line :
               /\ accepted[s][l] \in Nat /\ accepted'[s][l] \in Nat
               /\ accepted[s][l] <= accepted'[s][l]
<1> USE DEF source, round, page, store, workers
<1>1. now <= now'
  <2>1. now' = now \/ now' = now + 1
    BY DEF Next, Poll, vars, Start, BeginRound, FetchFails, FetchPage, SkipRepeated,
       Dispatch, NotWritten, Written, SavePage, FinishRound, EndRound, Tick, PeerMoves,
       Retire, Crash, Arrive, Accept, Drop, Ended
  <2> QED
    BY <2>1 DEF TypeOK
<1>2. skipped \subseteq skipped'
  BY DEF Next, Poll, vars, Start, BeginRound, FetchFails, FetchPage, SkipRepeated,
     Dispatch, NotWritten, Written, SavePage, FinishRound, EndRound, Tick, PeerMoves,
     Retire, Crash, Arrive, Accept, Drop, Ended
<1>3. stored' = stored \/ \E l \in Line : Arrive(l)
  BY DEF Next, Poll, vars, Start, BeginRound, FetchFails, FetchPage, SkipRepeated,
     Dispatch, NotWritten, Written, SavePage, FinishRound, EndRound, Tick, PeerMoves,
     Retire, Crash, Accept, Drop, Ended
<1>4. \A l \in Line : Count(stored, l) \in Nat /\ Count(stored', l) \in Nat
  BY CountType DEF TypeOK
<1>5. /\ Sorted(stored) => Sorted(stored')
      /\ \A l \in Line :
            /\ Count(stored, l) <= Count(stored', l)
            /\ l.ts <= now - Settle => Count(stored', l) = Count(stored, l)
  <2>1. CASE stored' = stored
    BY <2>1, <1>4
  <2>2. ASSUME NEW l \in Line, Arrive(l)
        PROVE  <1>5!:
    <3>1. /\ now - Settle < l.ts
          /\ \A k : Count(stored', k) = Count(stored, k) + (IF l = k THEN 1 ELSE 0)
          /\ Sorted(stored) => Sorted(stored')
      BY <2>2, ArriveLines DEF TypeOK
    <3>2. \A k \in Line : k.ts <= now - Settle => l # k
      BY <3>1, LineTs DEF TypeOK
    <3> QED
      BY <3>1, <3>2, <1>4
  <2> QED
    BY <2>1, <2>2, <1>3
<1>6. accepted' = accepted \/ \E s \in Sinks : Accept(s)
  BY DEF Next, Poll, vars, Start, BeginRound, FetchFails, FetchPage, SkipRepeated,
     Dispatch, NotWritten, Written, SavePage, FinishRound, EndRound, Tick, PeerMoves,
     Retire, Crash, Arrive, Drop, Ended
<1>7. \A s \in Sinks : \A l \in Line : accepted[s][l] \in Nat /\ accepted'[s][l] \in Nat
  BY DEF TypeOK
<1>8. \A s \in Sinks : \A l \in Line : accepted[s][l] <= accepted'[s][l]
  <2>1. CASE accepted' = accepted
    BY <2>1, <1>7
  <2>2. ASSUME NEW s \in Sinks, Accept(s), NEW r \in Sinks, NEW l \in Line
        PROVE  accepted[r][l] <= accepted'[r][l]
    <3>1. PICK n \in 1..Len(out[s]) :
            accepted' = [accepted EXCEPT ![s] =
                [k \in Line |-> @[k] + Count(SubSeq(out[s], 1, n), k)]]
      BY <2>2 DEF Accept
    <3>2. out[s] \in Seq(Line) /\ n \in 0..Len(out[s])
      BY DEF TypeOK
    <3>3. SubSeq(out[s], 1, n) \in Seq(Line)
      BY <3>2, SubSeqType
    <3>4. Count(SubSeq(out[s], 1, n), l) \in Nat
      BY <3>3, CountType
    <3>5. CASE r = s
      <4>1. accepted'[r][l] = accepted[r][l] + Count(SubSeq(out[s], 1, n), l)
        BY <3>1, <3>5 DEF TypeOK
      <4> QED
        BY <4>1, <3>4, <1>7
    <3>6. CASE r # s
      <4> DEFINE more == [k \in Line |-> accepted[s][k] + Count(SubSeq(out[s], 1, n), k)]
      <4>1. accepted' = [accepted EXCEPT ![s] = more]
        BY <3>1
      <4> HIDE DEF more
      <4>2. accepted'[r] = accepted[r]
        BY <4>1, <3>6 DEF TypeOK
      <4> QED
        BY <4>2, <1>7
    <3> QED
      BY <3>5, <3>6
  <2> QED
    BY <2>1, <2>2, <1>6
<1> QED
  BY <1>1, <1>2, <1>4, <1>5, <1>7, <1>8

\* Ahead is reflexive.
LEMMA AheadSelf == \A c \in Cursor : Ahead(c, c)
  BY CursorNotNone DEF Ahead

\* Ahead is transitive.
LEMMA AheadAgain ==
  ASSUME NEW a \in Cursor, NEW b \in Cursor, NEW c \in Cursor, Ahead(a, b), Ahead(b, c)
  PROVE  Ahead(a, c)
<1>1. /\ a.ts \in Int /\ b.ts \in Int /\ c.ts \in Int
      /\ \A h \in Hashes : a.seen[h] \in Int /\ b.seen[h] \in Int /\ c.seen[h] \in Int
  BY CursorNotNone
<1> QED
  BY <1>1 DEF Ahead

\* Delivering a line takes a cursor ahead, unless the line is older.
LEMMA AdvanceAhead ==
  ASSUME NEW c \in Cursor, NEW l \in Line, l.ts >= c.ts
  PROVE  /\ Advance(c, l).ts = l.ts
         /\ Ahead(Advance(c, l), c)
         /\ \A h \in Hashes :
               Advance(c, l).seen[h] =
                   (IF l.ts = c.ts THEN c.seen[h] ELSE 0) + (IF h = l.hash THEN 1 ELSE 0)
<1>1. c.ts \in Int /\ l.ts \in Int /\ l.hash \in Hashes /\ c.seen \in [Hashes -> Nat]
  BY CursorNotNone, LineTs
<1>2. CASE l.ts > c.ts
  <2>1. Advance(c, l) = [ts |-> l.ts, seen |-> [At(l.ts).seen EXCEPT ![l.hash] = 1]]
    BY <1>2 DEF Advance
  <2>2. At(l.ts).seen = [h \in Hashes |-> 0]
    BY DEF At
  <2> QED
    BY <2>1, <2>2, <1>1, <1>2 DEF Ahead
<1>3. CASE l.ts = c.ts
  <2>1. Advance(c, l) = [c EXCEPT !.seen[l.hash] = @ + 1]
    BY <1>1, <1>3 DEF Advance
  <2>2. Advance(c, l).ts = c.ts /\ Advance(c, l).seen = [c.seen EXCEPT ![l.hash] = @ + 1]
    BY <2>1 DEF Cursor
  <2> QED
    BY <2>2, <1>1, <1>3 DEF Ahead
<1> QED
  BY <1>1, <1>2, <1>3

-----------------------------------------------------------------------------
(* Cursors                                                                 *)

\* What is known of the first line of the page, when it is within the horizon.
LEMMA FirstLine ==
  ASSUME TypeOK, Phases, Paging, pc = "page", Within
  PROVE  /\ cursor \in Cursor /\ next \in Cursor /\ Ahead(next, cursor)
         /\ Head(todo) \in Line /\ Tail(todo) \in Seq(Line)
         /\ next.ts <= Head(todo).ts /\ cursor.ts <= next.ts
         /\ Head(todo).ts <= horizon /\ horizon <= now - Settle
         /\ \A l \in Line : /\ Count(todo, l) \in Nat /\ Count(Tail(todo), l) \in Nat
                            /\ Count(todo, l) = (IF Head(todo) = l THEN 1 ELSE 0)
                                                  + Count(Tail(todo), l)
                            /\ l.ts < Head(todo).ts => Count(todo, l) = 0
<1>1. cursor \in Cursor /\ next \in Cursor
  BY CursorNotNone DEF TypeOK, Phases
<1>2. todo \in Seq(Line) /\ todo # <<>> /\ Head(todo).ts <= horizon
  BY DEF TypeOK, Within
<1>3. /\ Head(todo) \in Line /\ Tail(todo) \in Seq(Line) /\ Head(todo) = todo[1]
      /\ Len(todo) \in Nat \ {0}
  BY <1>2, HeadTail
<1>4. /\ Sorted(todo) /\ Ahead(next, cursor)
      /\ \A i \in 1..Len(todo) : todo[i].ts >= next.ts
  BY DEF Paging
<1>5. next.ts <= Head(todo).ts
  BY <1>3, <1>4
<1>6. cursor.ts <= next.ts
  BY <1>1, <1>4, CursorNotNone DEF Ahead
<1>7. horizon <= now - Settle
  BY DEF Phases
<1>8. \A l \in Line : /\ Count(todo, l) \in Nat /\ Count(Tail(todo), l) \in Nat
                      /\ Count(todo, l) = (IF Head(todo) = l THEN 1 ELSE 0)
                                            + Count(Tail(todo), l)
  BY <1>2, <1>3, CountType, CountTail
<1>9. ASSUME NEW l \in Line, l.ts < Head(todo).ts
      PROVE  Count(todo, l) = 0
  <2>1. DOMAIN todo = 1..Len(todo) /\ \A i \in 1..Len(todo) : todo[i] \in Line
    BY <1>2
  <2>2. \A i \in 1..Len(todo) : todo[1].ts <= todo[i].ts
    BY <1>3, <1>4, <2>1 DEF Sorted
  <2>3. \A i \in 1..Len(todo) : todo[i] # l
    BY <1>3, <1>9, <2>1, <2>2, LineTs
  <2> QED
    BY <1>2, <2>3, CountNone
<1> QED
  BY <1>1, <1>2, <1>3, <1>4, <1>5, <1>6, <1>7, <1>8, <1>9

\* What is left of the page without its first line.
LEMMA TailLines ==
  ASSUME TypeOK, Paging, pc = "page", todo # <<>>
  PROVE  /\ Sorted(Tail(todo))
         /\ \A i \in 1..Len(Tail(todo)) :
               Tail(todo)[i].ts >= Head(todo).ts /\ Tail(todo)[i].ts >= next.ts
         /\ Tail(todo) # <<>> => Tail(todo)[Len(Tail(todo))] = todo[Len(todo)]
<1> DEFINE rest == Tail(todo)
<1>0. todo \in Seq(Line) /\ Len(todo) \in Nat \ {0} /\ Head(todo) = todo[1]
  BY HeadTail DEF TypeOK
<1>1. /\ rest \in Seq(Line) /\ Len(rest) = Len(todo) - 1
      /\ \A i \in 1..Len(rest) : rest[i] = todo[i + 1]
  BY <1>0, HeadTailProperties
<1> HIDE DEF rest
<1>2. DOMAIN rest = 1..Len(rest) /\ DOMAIN todo = 1..Len(todo) /\ Len(rest) \in Nat
  BY <1>0, <1>1
<1>3. \A i \in 1..Len(rest) : i + 1 \in 1..Len(todo) /\ rest[i] = todo[i + 1]
  BY <1>0, <1>1, <1>2
<1>4. /\ \A i, j \in 1..Len(todo) : i <= j => todo[i].ts <= todo[j].ts
      /\ \A i \in 1..Len(todo) : todo[i].ts >= next.ts /\ todo[i].ts \in Int
  <2>1. Sorted(todo) /\ \A i \in 1..Len(todo) : todo[i].ts >= next.ts
    BY Zenon DEF Paging
  <2>2. \A i \in 1..Len(todo) : todo[i] \in Line
    BY <1>0
  <2>3. \A i \in 1..Len(todo) : todo[i].ts \in Int
    BY <2>2, LineTs
  <2>4. \A i, j \in 1..Len(todo) : i <= j => todo[i].ts <= todo[j].ts
    BY <2>1, <1>2, Zenon DEF Sorted
  <2> QED
    BY <2>1, <2>3, <2>4
<1>5. Sorted(rest)
  BY <1>2, <1>3, <1>4 DEF Sorted
<1>6. \A i \in 1..Len(rest) : rest[i].ts >= todo[1].ts /\ rest[i].ts >= next.ts
  BY <1>0, <1>2, <1>3, <1>4
<1>7. rest # <<>> => rest[Len(rest)] = todo[Len(todo)]
  <2>1. rest # <<>> => Len(rest) \in 1..Len(rest) /\ Len(rest) + 1 = Len(todo)
    BY <1>0, <1>1, <1>2
  <2> QED
    BY <2>1, <1>3
<1> QED
  BY <1>0, <1>5, <1>6, <1>7 DEF rest

\* How far the cursors move in a step: never back, and the file follows.
LEMMA CursorMoves ==
  ASSUME TypeOK, Phases, Phases', TypeOK', Vouching, Paging, [Next]_vars
  PROVE  /\ cursor # None /\ cursor' # None => Ahead(cursor', cursor)
         /\ disk' # None => disk' = disk \/ (cursor # None /\ disk' = cursor')
         /\ cursor = None /\ cursor' # None => disk' = disk /\ (disk # None => cursor' = disk)
<1> USE CursorNotNone, AtCursor, AheadSelf
<1> USE DEF source, round, page, store, workers, NoPage
<1>0. \A c \in {cursor, cursor', disk} \ {None} : c \in Cursor
  BY DEF TypeOK
<1>1. CASE Start
  BY <1>1, <1>0 DEF Start, Phases
<1>2. CASE BeginRound
  <2>1. Floor \in Int
    BY DEF Floor, TypeOK, Lesser, Greater
  <2>2. cursor \in Cursor /\ disk' = disk
    BY <1>2, <1>0 DEF BeginRound, Phases
  <2>3. cursor' = IF cursor.ts < Floor THEN At(Floor) ELSE cursor
    BY <1>2 DEF BeginRound
  <2>4. Ahead(cursor', cursor)
    BY <2>1, <2>2, <2>3 DEF Ahead
  <2> QED
    BY <2>2, <2>4
<1>3. CASE Written
  <2>1. next \in Cursor /\ cursor \in Cursor /\ pc = "page"
    BY <1>3 DEF Written, Settled, TypeOK, Phases
  <2>2. Ahead(next, cursor)
    BY <2>1 DEF Paging
  <2>3. Ahead(At(next.ts + 1), cursor)
    BY <2>1, <2>2 DEF Ahead
  <2> QED
    BY <1>3, <2>1, <2>2, <2>3 DEF Written
<1>4. CASE SavePage
  BY <1>4, <1>0 DEF SavePage, Save, Phases
<1>5. CASE FinishRound
  <2>1. cursor \in Cursor
    BY <1>5 DEF FinishRound, TypeOK, Phases
  <2>2. Ahead(Reached(cursor), cursor)
    BY <2>1 DEF Reached, Ahead, TypeOK
  <2> QED
    BY <1>5, <2>1, <2>2 DEF FinishRound, Save
<1>6. CASE EndRound
  BY <1>6, <1>0 DEF EndRound
<1>7. CASE Crash
  BY <1>7, <1>0 DEF Crash
<1>8. CASE UNCHANGED <<cursor, disk>>
  BY <1>8, <1>0
<1>9. \/ Start \/ BeginRound \/ Written \/ SavePage \/ FinishRound \/ EndRound \/ Crash
      \/ UNCHANGED <<cursor, disk>>
  BY DEF Next, Poll, vars, FetchFails, FetchPage, SkipRepeated, Dispatch, NotWritten,
     Tick, PeerMoves, Retire, Arrive, Accept, Drop, Ended
<1> QED
  BY <1>1, <1>2, <1>3, <1>4, <1>5, <1>6, <1>7, <1>8, <1>9

\* After a delivered line, next counts no more lines than there are: the page still
\* held the one that is counted.
LEMMA AdvanceSound ==
  ASSUME TypeOK, Phases, Paging, Vouching, Dispatch
  PROVE  /\ next' = Advance(next, Head(todo)) /\ next' \in Cursor
         /\ next'.ts = Head(todo).ts
         /\ \A l \in Line : l.ts = next'.ts => next'.seen[l.hash] <= Count(stored, l)
<1> DEFINE l0 == Head(todo)
<1>0. pc = "page" /\ Within /\ ~Repeated(l0) /\ next' = Advance(next, l0)
  BY DEF Dispatch
<1>1. /\ cursor \in Cursor /\ next \in Cursor /\ l0 \in Line
      /\ next.ts <= l0.ts /\ cursor.ts <= next.ts
      /\ Count(todo, l0) \in Nat /\ Count(Tail(todo), l0) \in Nat
      /\ Count(todo, l0) = 1 + Count(Tail(todo), l0)
  BY <1>0, FirstLine
<1> HIDE DEF l0
<1>2. /\ next'.ts = l0.ts /\ next' \in Cursor
      /\ \A h \in Hashes :
            next'.seen[h] =
                (IF l0.ts = next.ts THEN next.seen[h] ELSE 0) + (IF h = l0.hash THEN 1 ELSE 0)
  BY <1>0, <1>1, AdvanceAhead, AdvanceCursor
<1>3. CountsSound(next)
  BY <1>1, CursorNotNone DEF Vouching, Positions
<1>4. ASSUME NEW l \in Line, l.ts = next'.ts
      PROVE  next'.seen[l.hash] <= Count(stored, l)
  <2>1. /\ Count(stored, l) \in Nat /\ l.hash \in Hashes /\ l.ts = l0.ts
        /\ next.seen \in [Hashes -> Nat] /\ cursor.seen \in [Hashes -> Nat]
        /\ seen \in [Hashes -> Nat] /\ l.ts \in Int /\ next.ts \in Int /\ cursor.ts \in Int
    BY <1>1, <1>2, <1>4, CountType, LineTs, CursorNotNone DEF TypeOK
  <2>2. CASE l.hash = l0.hash
    <3>1. l = l0
      BY <1>1, <2>1, <2>2 DEF Line
    <3>2. Handled(l) + Count(todo, l) <= Count(stored, l)
      BY <1>0, <1>1, <2>1, <3>1 DEF Paging
    <3>3. CASE l0.ts > next.ts
      BY <1>1, <1>2, <2>1, <3>1, <3>2, <3>3 DEF Handled
    <3>4. CASE l0.ts = next.ts
      <4>1. Handled(l) = next.seen[l.hash]
        BY <1>0, <2>1, <3>1, <3>4 DEF Handled, Repeated
      <4> QED
        BY <1>1, <1>2, <2>1, <3>1, <3>2, <3>4, <4>1
    <3> QED
      BY <1>1, <2>1, <3>3, <3>4
  <2>3. CASE l.hash # l0.hash
    BY <1>2, <1>3, <2>1, <2>3 DEF CountsSound
  <2> QED
    BY <2>2, <2>3
<1> QED
  BY <1>0, <1>2, <1>4 DEF l0

\* Without cursors nothing is vouched for.
LEMMA VouchingInit == Init => Vouching
<1> SUFFICES ASSUME Init PROVE Vouching
  OBVIOUS
<1>1. Positions = {} /\ cursor = None /\ stored = <<>>
  BY Zenon DEF Init, Positions
<1>2. Sorted(stored)
  BY <1>1 DEF Sorted
<1> QED
  BY <1>1, <1>2 DEF Vouching

\* What is to be shown of a cursor that has moved to c.
NewPosition(c) ==
    /\ \A u \in 1..MaxTime : now - Settle < u /\ u < c.ts => u \in skipped'
    /\ \A l \in Line : l.ts = c.ts => c.seen[l.hash] <= Count(stored', l)

\* A cursor put at an instant counts nothing, so only what is behind it matters.
LEMMA NewAt ==
  ASSUME NEW t \in Int, \A l \in Line : Count(stored', l) \in Nat,
         \A u \in 1..MaxTime : now - Settle < u /\ u < t => u \in skipped'
  PROVE  NewPosition(At(t))
<1>1. \A l \in Line : At(t).seen[l.hash] = 0
  BY LineTs DEF At
<1> QED
  BY <1>1, AtCursor DEF NewPosition

\* Every step keeps the cursors sound, whatever arrives or fails.
LEMMA VouchingStep ==
  ASSUME TypeOK, TypeOK', Phases, Phases', Vouching, Paging, [Next]_vars
  PROVE  Vouching'
<1>0. /\ now \in Int /\ now' \in Int /\ horizon \in Int
      /\ \A c \in Positions \cup Positions' : c \in Cursor /\ c.ts \in Int /\ c # None
  BY CursorNotNone, SMTT(30) DEF TypeOK, Positions
<1>g. /\ now <= now' /\ skipped \subseteq skipped'
      /\ \A l \in Line : /\ Count(stored, l) \in Nat /\ Count(stored', l) \in Nat
                         /\ Count(stored, l) <= Count(stored', l)
  BY Grows
<1>1. ASSUME NEW c \in Positions
      PROVE  NewPosition(c)
  <2>1. SettledBehind(c) /\ CountsSound(c) /\ c \in Cursor
    BY <1>0 DEF Vouching
  <2>2. \A l \in Line : c.seen[l.hash] \in Nat
    BY <2>1, CursorNotNone, LineTs
  <2> QED
    BY <2>1, <2>2, <1>g DEF SettledBehind, CountsSound, NewPosition
<1>3. \A c \in Positions' : NewPosition(c)
  <2> USE DEF source, round, page, store, workers
  <2>1. CASE Start
    <3>1. now - Lookback \in Int
      BY <1>0
    <3>2. CASE disk = None
      <4>1. \A u \in 1..MaxTime : u < now - Lookback => u \in skipped'
        BY <2>1, <3>2 DEF Start
      <4>2. NewPosition(At(now - Lookback))
        BY <1>g, <3>1, <4>1, NewAt
      <4>3. Positions' \subseteq Positions \cup {At(now - Lookback)}
        BY <2>1, <3>2 DEF Start, Positions
      <4> QED
        BY <1>1, <4>2, <4>3
    <3>3. CASE disk # None
      <4>1. Positions' \subseteq Positions
        BY <2>1, <3>3 DEF Start, Positions
      <4> QED
        BY <1>1, <4>1
    <3> QED
      BY <3>2, <3>3
  <2>2. CASE BeginRound
    <3>1. Floor \in Int /\ cursor \in Cursor /\ cursor.ts \in Int /\ cursor \in Positions
      BY <2>2, CursorNotNone DEF Floor, TypeOK, Lesser, Greater, BeginRound, Phases, Positions
    <3>2. cursor' = (IF cursor.ts < Floor THEN At(Floor) ELSE cursor)
          /\ skipped' = skipped \cup {t \in 1..MaxTime : cursor.ts <= t /\ t < cursor'.ts}
      BY <2>2 DEF BeginRound
    <3>3. CASE cursor.ts < Floor
      <4>1. SettledBehind(cursor)
        BY <3>1 DEF Vouching
      <4>2. \A u \in 1..MaxTime : now - Settle < u /\ u < Floor => u \in skipped'
        BY <3>1, <3>2, <3>3, <4>1, AtCursor DEF SettledBehind
      <4>3. NewPosition(At(Floor))
        BY <1>g, <3>1, <4>2, NewAt
      <4>4. Positions' \subseteq Positions \cup {At(Floor)}
        BY <2>2, <3>2, <3>3 DEF BeginRound, Positions
      <4> QED
        BY <1>1, <4>3, <4>4
    <3>4. CASE ~(cursor.ts < Floor)
      <4>1. Positions' \subseteq Positions
        BY <2>2, <3>2, <3>4 DEF BeginRound, Positions
      <4> QED
        BY <1>1, <4>1
    <3> QED
      BY <3>3, <3>4
  <2>3. CASE Dispatch
    <3>1. /\ next' \in Cursor /\ next'.ts = Head(todo).ts
          /\ \A l \in Line : l.ts = next'.ts => next'.seen[l.hash] <= Count(stored, l)
      BY <2>3, AdvanceSound
    <3>2. Head(todo).ts <= now - Settle /\ Head(todo).ts \in Int
      <4>1. Head(todo) \in Line /\ Head(todo).ts <= horizon /\ horizon <= now - Settle
        BY <2>3, FirstLine DEF Dispatch
      <4> QED
        BY <1>0, <4>1, LineTs
    <3>3. stored' = stored
      BY <2>3 DEF Dispatch
    <3>4. NewPosition(next')
      BY <1>0, <3>1, <3>2, <3>3 DEF NewPosition
    <3>5. Positions' \subseteq Positions \cup {next'}
      BY <2>3 DEF Dispatch, Positions
    <3> QED
      BY <1>1, <3>4, <3>5
  <2>4. CASE Written
    <3>1. next \in Cursor /\ next.ts \in Int /\ next \in Positions
      BY <2>4, CursorNotNone DEF Written, Settled, TypeOK, Phases, Positions
    <3>2. CASE Stuck
      <4>1. skipped' = skipped \cup ({next.ts} \cap 1..MaxTime) /\ cursor' = At(next.ts + 1)
        BY <2>4, <3>2 DEF Written
      <4>2. SettledBehind(next)
        BY <3>1 DEF Vouching
      <4>3. \A u \in 1..MaxTime : now - Settle < u /\ u < next.ts + 1 => u \in skipped'
        BY <3>1, <4>1, <4>2 DEF SettledBehind
      <4>4. next.ts + 1 \in Int
        BY <3>1
      <4>5. NewPosition(At(next.ts + 1))
        BY <1>g, <4>3, <4>4, NewAt
      <4>6. Positions' \subseteq Positions \cup {At(next.ts + 1)}
        BY <2>4, <4>1 DEF Written, NoPage, Positions
      <4> QED
        BY <1>1, <4>5, <4>6
    <3>3. CASE ~Stuck
      <4>1. Positions' \subseteq Positions
        BY <2>4, <3>3 DEF Written, NoPage, Positions
      <4> QED
        BY <1>1, <4>1
    <3> QED
      BY <3>2, <3>3
  <2>5. CASE FinishRound
    <3>1. horizon <= now - Settle
      BY <2>5 DEF FinishRound, Phases
    <3>2. \A u \in 1..MaxTime : ~(now - Settle < u /\ u < horizon)
      BY <1>0, <3>1
    <3>3. NewPosition(At(horizon))
      BY <1>0, <1>g, <3>2, NewAt
    <3>4. Positions' \subseteq Positions \cup {At(horizon)}
      BY <2>5 DEF FinishRound, Save, Reached, Positions
    <3> QED
      BY <1>1, <3>3, <3>4
  <2>6. CASE Positions' \subseteq Positions
    BY <1>1, <2>6
  <2>7. Start \/ BeginRound \/ Dispatch \/ Written \/ FinishRound \/ Positions' \subseteq Positions
    BY DEF Next, Poll, vars, FetchFails, FetchPage, SkipRepeated, NotWritten, SavePage,
       Save, EndRound, NoPage, Tick, PeerMoves, Retire, Crash, Arrive, Accept, Drop,
       Ended, Positions
  <2> QED
    BY <2>1, <2>2, <2>3, <2>4, <2>5, <2>6, <2>7
<1>4. ASSUME NEW c \in Positions'
      PROVE  SettledBehind(c)' /\ CountsSound(c)'
  <2>1. NewPosition(c) /\ c.ts \in Int
    BY <1>0, <1>3
  <2>2. SettledBehind(c)'
    <3>1. \A u \in 1..MaxTime : now' - Settle < u => now - Settle < u
      <4>1. \A m, n, u \in Int : m <= n /\ n - Settle < u => m - Settle < u
        OBVIOUS
      <4>2. now \in Int /\ now' \in Int /\ now <= now' /\ 1..MaxTime \subseteq Int
        BY <1>0, <1>g
      <4> QED
        BY <4>1, <4>2, Zenon
    <3> QED
      BY <2>1, <3>1 DEF NewPosition, SettledBehind
  <2>3. CountsSound(c)'
    BY <2>1 DEF NewPosition, CountsSound
  <2> QED
    BY <2>2, <2>3
<1>5. Sorted(stored)'
  BY Grows DEF Vouching
<1>6. disk' # None /\ cursor' # None => Ahead(cursor', disk')
  <2> SUFFICES ASSUME disk' # None, cursor' # None PROVE Ahead(cursor', disk')
    OBVIOUS
  <2>0. cursor' \in Cursor /\ disk' \in Cursor
    BY DEF TypeOK
  <2>1. CASE disk' = cursor'
    BY <2>0, <2>1, AheadSelf
  <2>2. CASE disk' = disk /\ cursor = None
    BY <2>0, <2>2, AheadSelf, CursorMoves
  <2>3. CASE disk' = disk /\ cursor # None
    <3>1. cursor \in Cursor /\ disk \in Cursor /\ Ahead(cursor, disk)
      BY <2>0, <2>3, CursorNotNone DEF TypeOK, Vouching
    <3>2. Ahead(cursor', cursor)
      BY <2>3, CursorMoves
    <3> QED
      BY <2>0, <2>3, <3>1, <3>2, AheadAgain
  <2> QED
    BY <2>1, <2>2, <2>3, CursorMoves
<1> QED
  BY <1>4, <1>5, <1>6 DEF Vouching

-----------------------------------------------------------------------------
(* The page in hand                                                        *)

\* What is handled is a number.
LEMMA HandledType ==
  ASSUME TypeOK, cursor \in Cursor, next \in Cursor, NEW l \in Line
  PROVE  Handled(l) \in Int
<1>1. /\ Count(stored, l) \in Nat /\ next.seen[l.hash] \in Nat /\ seen[l.hash] \in Nat
  BY CountType, LineTs, CursorNotNone DEF TypeOK
<1> QED
  BY <1>1 DEF Handled

\* A page that is read holds the lines from the cursor on.
LEMMA FetchHandles ==
  ASSUME TypeOK, Phases, Vouching, FetchPage
  PROVE  /\ cursor \in Cursor /\ next' = cursor /\ cursor' = cursor /\ stored' = stored
         /\ \A l \in Line : cursor.ts <= l.ts => Handled(l)' = 0
         /\ todo' \in Seq(Line) /\ Sorted(todo)'
         /\ \A i \in 1..Len(todo') : todo'[i].ts >= cursor.ts
         /\ \A l \in Line :
               /\ Count(todo', l) <= Count(stored, l)
               /\ /\ Garbled = {} /\ l.ts >= cursor.ts
                  /\ ~full' \/ (todo' # <<>> /\ l.ts < todo'[Len(todo')].ts)
                  => Count(stored, l) <= Count(todo', l)
<1>1. /\ cursor \in Cursor /\ cursor.ts \in Int /\ cursor.seen \in [Hashes -> Nat]
  BY CursorNotNone DEF FetchPage, TypeOK, Phases
<1>2. PICK limit \in {PageSize, PageSize + 1} : todo' = Parsed(History(cursor.ts, limit))
  BY DEF FetchPage
<1>3. /\ next' = cursor /\ seen' = cursor.seen /\ cursor' = cursor /\ stored' = stored
      /\ full' = (Len(todo') >= PageSize)
  BY DEF FetchPage, source
<1>4. stored \in Seq(Line) /\ Sorted(stored) /\ limit \in Nat /\ PageSize \in Nat /\ PageSize <= limit
  BY DEF TypeOK, Vouching
<1>5. ASSUME NEW l \in Line, cursor.ts <= l.ts
      PROVE  Handled(l)' = 0
  <2>1. l.ts \in Int /\ l.hash \in Hashes
    BY LineTs
  <2>2. Handled(l)' = IF l.ts < cursor.ts THEN Count(stored, l)
                      ELSE IF l.ts > cursor.ts THEN 0
                      ELSE cursor.seen[l.hash] - cursor.seen[l.hash]
    BY <1>3 DEF Handled
  <2> QED
    BY <2>1, <2>2, <1>1, <1>5
<1>6. /\ todo' \in Seq(Line) /\ Sorted(todo')
      /\ \A i \in 1..Len(todo') : todo'[i].ts >= cursor.ts
      /\ \A l \in Line : Count(todo', l) <= Count(stored, l)
      /\ Garbled = {} => todo' = History(cursor.ts, limit)
  BY <1>1, <1>2, <1>4, PageLines
<1>7. ASSUME NEW l \in Line, Garbled = {}, l.ts >= cursor.ts,
             ~full' \/ (todo' # <<>> /\ l.ts < todo'[Len(todo')].ts)
      PROVE  Count(stored, l) <= Count(todo', l)
  <2> DEFINE h == History(cursor.ts, limit)
  <2>1. l.ts >= cursor.ts /\ (Len(h) < limit \/ (h # <<>> /\ l.ts < h[Len(h)].ts))
          => Count(stored, l) <= Count(h, l)
    BY <1>1, <1>4, HistoryLines
  <2> HIDE DEF h
  <2>2. todo' = h
    BY <1>6, <1>7 DEF h
  <2>3. ~full' => Len(h) < limit
    <3>1. Len(h) \in Nat
      BY <1>6, <2>2
    <3>2. full' <=> Len(h) >= PageSize
      BY <1>3, <2>2, Zenon
    <3>3. \A m \in Nat : ~(m >= PageSize) => m < limit
      BY <1>4
    <3> QED
      BY <3>1, <3>2, <3>3, Zenon
  <2> QED
    BY <1>7, <2>1, <2>2, <2>3, Zenon
<1>8. Sorted(todo)'
  BY <1>6
<1> QED
  BY <1>1, <1>3, <1>5, <1>6, <1>7, <1>8

\* Skipping or delivering a line puts it behind the poller.
LEMMA SkipHandles ==
  ASSUME TypeOK, Phases, Paging, SkipRepeated, NEW l \in Line
  PROVE  Handled(l)' = Handled(l) + (IF l = Head(todo) THEN 1 ELSE 0)
<1>1. /\ cursor \in Cursor /\ next \in Cursor /\ Head(todo) \in Line
      /\ next.ts <= Head(todo).ts /\ cursor.ts <= next.ts
  BY FirstLine DEF SkipRepeated
<1>2. /\ Head(todo).ts = cursor.ts
      /\ seen' = [seen EXCEPT ![Head(todo).hash] = @ - 1]
      /\ next' = next /\ cursor' = cursor /\ stored' = stored
  BY DEF SkipRepeated, Repeated, source
<1>3. /\ next.ts \in Int /\ cursor.ts \in Int /\ l.ts \in Int /\ l.hash \in Hashes
      /\ next.seen[l.hash] \in Nat /\ seen \in [Hashes -> Nat] /\ Head(todo).hash \in Hashes
      /\ Count(stored, l) \in Nat
  BY <1>1, CursorNotNone, LineTs, CountType DEF TypeOK
<1>4. next.ts = cursor.ts
  BY <1>1, <1>2, <1>3
<1>5. seen'[l.hash] = seen[l.hash] - (IF l.hash = Head(todo).hash THEN 1 ELSE 0)
  BY <1>2, <1>3
<1>6. l = Head(todo) <=> l.ts = next.ts /\ l.hash = Head(todo).hash
  BY <1>1, <1>2, <1>4 DEF Line
<1> QED
  BY <1>2, <1>3, <1>4, <1>5, <1>6 DEF Handled

\* Delivering a line puts it, and all before it, behind the poller.
LEMMA DispatchHandles ==
  ASSUME TypeOK, Phases, Vouching, Paging, Dispatch, NEW l \in Line
  PROVE  Handled(l)' = IF l.ts < Head(todo).ts THEN Count(stored, l)
                       ELSE Handled(l) + (IF l = Head(todo) THEN 1 ELSE 0)
<1> DEFINE l0 == Head(todo)
<1>1. /\ cursor \in Cursor /\ next \in Cursor /\ l0 \in Line
      /\ next.ts <= l0.ts /\ cursor.ts <= next.ts
  BY FirstLine DEF Dispatch
<1>2. next' = Advance(next, l0) /\ seen' = seen /\ cursor' = cursor /\ stored' = stored
  BY DEF Dispatch, source
<1> HIDE DEF l0
<1>3. /\ next'.ts = l0.ts
      /\ \A h \in Hashes :
            next'.seen[h] =
                (IF l0.ts = next.ts THEN next.seen[h] ELSE 0) + (IF h = l0.hash THEN 1 ELSE 0)
  BY <1>1, <1>2, AdvanceAhead
<1>4. /\ next.ts \in Int /\ cursor.ts \in Int /\ l.ts \in Int /\ l0.ts \in Int
      /\ l.hash \in Hashes /\ next.seen[l.hash] \in Nat /\ seen[l.hash] \in Nat
      /\ Count(stored, l) \in Nat
  BY <1>1, CursorNotNone, LineTs, CountType DEF TypeOK
<1>5. l = l0 <=> l.ts = l0.ts /\ l.hash = l0.hash
  BY <1>1 DEF Line
<1>6. Handled(l)' = IF l.ts < l0.ts THEN Count(stored, l)
                    ELSE IF l.ts > l0.ts THEN 0
                    ELSE IF l0.ts = cursor.ts THEN next'.seen[l.hash] - seen[l.hash]
                    ELSE next'.seen[l.hash]
  BY <1>2, <1>3 DEF Handled
<1>7. CASE l.ts < l0.ts
  BY <1>6, <1>7 DEF l0
<1>8. CASE l.ts > l0.ts
  <2>1. Handled(l) = 0
    BY <1>1, <1>4, <1>8 DEF Handled
  <2> QED
    BY <1>4, <1>5, <1>6, <1>8, <2>1 DEF l0
<1>9. CASE l.ts = l0.ts /\ l0.ts > next.ts
  <2>1. Handled(l) = 0
    BY <1>1, <1>4, <1>9 DEF Handled
  <2>2. Handled(l)' = next'.seen[l.hash]
    BY <1>1, <1>4, <1>6, <1>9
  <2> QED
    BY <1>3, <1>4, <1>5, <1>9, <2>1, <2>2 DEF l0
<1>10. CASE l.ts = l0.ts /\ l0.ts = next.ts
  <2>1. Handled(l) = IF next.ts = cursor.ts THEN next.seen[l.hash] - seen[l.hash]
                     ELSE next.seen[l.hash]
    BY <1>4, <1>10 DEF Handled
  <2>2. next'.seen[l.hash] = next.seen[l.hash] + (IF l = l0 THEN 1 ELSE 0)
    BY <1>3, <1>4, <1>5, <1>10
  <2> QED
    BY <1>4, <1>6, <1>10, <2>1, <2>2 DEF l0
<1> QED
  BY <1>1, <1>4, <1>7, <1>8, <1>9, <1>10

\* A line that arrives meanwhile.
LEMMA ArriveHandles ==
  ASSUME TypeOK, TypeOK', Phases, Paging, pc = "page", NEW k \in Line, Arrive(k), NEW l \in Line
  PROVE  Handled(l)' = IF l.ts < next.ts THEN Count(stored', l) ELSE Handled(l)
  BY DEF Arrive, Handled, page, round

\* What else may happen while a page is in hand.
LEMMA OtherwiseInPage ==
  ASSUME TypeOK, [Next]_vars, pc' = "page", ~FetchPage, ~SkipRepeated, ~Dispatch,
         ~\E l \in Line : Arrive(l)
  PROVE  UNCHANGED <<pc, stored, cursor, horizon, todo, full, next, seen>>
  BY DEF Next, Poll, vars, Start, BeginRound, FetchFails, NotWritten, Written, SavePage,
     FinishRound, EndRound, Tick, PeerMoves, Retire, Crash, Accept, Drop, Ended,
     source, round, page, store, workers

\* Every step keeps the page where next is.
LEMMA PagingStep ==
  ASSUME TypeOK, TypeOK', Phases, Phases', Vouching, Paging, [Next]_vars
  PROVE  Paging'
<1> SUFFICES ASSUME pc' = "page" PROVE Paging'
  BY DEF Paging
<1>1. CASE FetchPage
  <2>1. /\ cursor \in Cursor /\ next' = cursor /\ cursor' = cursor /\ stored' = stored
        /\ \A l \in Line : cursor.ts <= l.ts => Handled(l)' = 0
        /\ Sorted(todo)' /\ \A i \in 1..Len(todo') : todo'[i].ts >= cursor.ts
        /\ \A l \in Line : Count(todo', l) <= Count(stored, l)
    BY <1>1, FetchHandles
  <2>2. \A l \in Line : Count(todo', l) \in Nat /\ Count(stored, l) \in Nat
    BY CountType DEF TypeOK
  <2> QED
    BY <2>1, <2>2, AheadSelf DEF Paging
<1>2. CASE SkipRepeated
  <2>0. pc = "page" /\ Within /\ todo' = Tail(todo) /\ next' = next /\ cursor' = cursor
        /\ stored' = stored
    BY <1>2 DEF SkipRepeated, source
  <2>1. /\ cursor \in Cursor /\ next \in Cursor /\ Head(todo) \in Line
        /\ \A l \in Line : /\ Count(todo, l) \in Nat /\ Count(Tail(todo), l) \in Nat
                           /\ Count(todo, l) = (IF Head(todo) = l THEN 1 ELSE 0)
                                                 + Count(Tail(todo), l)
    BY <2>0, FirstLine
  <2>2. ASSUME NEW l \in Line, cursor.ts <= l.ts
        PROVE  Handled(l)' + Count(todo', l) <= Count(stored, l)
    <3>1. Handled(l) + Count(todo, l) <= Count(stored, l)
      BY <2>0, <2>2 DEF Paging
    <3>2. Handled(l) \in Int /\ Count(stored, l) \in Nat
      BY <2>1, HandledType, CountType DEF TypeOK
    <3>3. Handled(l)' = Handled(l) + (IF l = Head(todo) THEN 1 ELSE 0)
      BY <1>2, SkipHandles
    <3> QED
      BY <2>0, <2>1, <3>1, <3>2, <3>3
  <2>3. Sorted(Tail(todo)) /\ \A i \in 1..Len(Tail(todo)) : Tail(todo)[i].ts >= next.ts
    BY <2>0, TailLines DEF Within
  <2> QED
    BY <2>0, <2>2, <2>3 DEF Paging
<1>3. CASE Dispatch
  <2>0. pc = "page" /\ Within /\ todo' = Tail(todo) /\ next' = Advance(next, Head(todo))
        /\ cursor' = cursor /\ stored' = stored
    BY <1>3 DEF Dispatch, source
  <2>1. /\ cursor \in Cursor /\ next \in Cursor /\ Head(todo) \in Line /\ Ahead(next, cursor)
        /\ next.ts <= Head(todo).ts /\ cursor.ts <= next.ts
        /\ \A l \in Line : /\ Count(todo, l) \in Nat /\ Count(Tail(todo), l) \in Nat
                           /\ Count(todo, l) = (IF Head(todo) = l THEN 1 ELSE 0)
                                                 + Count(Tail(todo), l)
                           /\ l.ts < Head(todo).ts => Count(todo, l) = 0
    BY <2>0, FirstLine
  <2>2. ASSUME NEW l \in Line, cursor.ts <= l.ts
        PROVE  Handled(l)' + Count(todo', l) <= Count(stored, l)
    <3>1. Handled(l) + Count(todo, l) <= Count(stored, l)
      BY <2>0, <2>2 DEF Paging
    <3>2. Handled(l) \in Int /\ Count(stored, l) \in Nat
      BY <2>1, HandledType, CountType DEF TypeOK
    <3>3. Handled(l)' = IF l.ts < Head(todo).ts THEN Count(stored, l)
                        ELSE Handled(l) + (IF l = Head(todo) THEN 1 ELSE 0)
      BY <1>3, DispatchHandles
    <3>4. Head(todo) # l => Count(todo, l) = Count(Tail(todo), l)
      BY <2>1
    <3>5. CASE l.ts < Head(todo).ts
      BY <2>0, <2>1, <3>2, <3>3, <3>4, <3>5, LineTs
    <3>6. CASE ~(l.ts < Head(todo).ts)
      BY <2>0, <2>1, <3>1, <3>2, <3>3, <3>6
    <3> QED
      BY <3>5, <3>6
  <2>3. next' \in Cursor /\ next'.ts = Head(todo).ts /\ Ahead(next', next)
    BY <2>0, <2>1, AdvanceAhead, AdvanceCursor
  <2>4. Ahead(next', cursor)
    BY <2>1, <2>3, AheadAgain
  <2>5. Sorted(Tail(todo)) /\ \A i \in 1..Len(Tail(todo)) : Tail(todo)[i].ts >= Head(todo).ts
    BY <2>0, TailLines DEF Within
  <2> QED
    BY <2>0, <2>2, <2>3, <2>4, <2>5 DEF Paging
<1>4. ASSUME NEW k \in Line, Arrive(k)
      PROVE  Paging'
  <2>0. pc = "page" /\ UNCHANGED <<todo, next, cursor, seen>>
    BY <1>4 DEF Arrive, page
  <2>1. cursor \in Cursor /\ next \in Cursor
    BY <2>0, CursorNotNone DEF TypeOK, Phases
  <2>2. ASSUME NEW l \in Line, cursor.ts <= l.ts
        PROVE  Handled(l)' + Count(todo, l) <= Count(stored', l)
    <3>1. Handled(l) + Count(todo, l) <= Count(stored, l)
      BY <2>0, <2>2 DEF Paging
    <3>2. Handled(l) \in Int /\ Count(todo, l) \in Nat
      BY <2>1, HandledType, CountType DEF TypeOK
    <3>3. /\ Count(stored, l) \in Nat /\ Count(stored', l) \in Nat
          /\ Count(stored, l) <= Count(stored', l)
      BY Grows
    <3>4. Handled(l)' = IF l.ts < next.ts THEN Count(stored', l) ELSE Handled(l)
      BY <1>4, <2>0, ArriveHandles
    <3>5. l.ts < next.ts => Handled(l) = Count(stored, l)
      BY DEF Handled
    <3> QED
      BY <3>1, <3>2, <3>3, <3>4, <3>5
  <2> QED
    BY <2>0, <2>2 DEF Paging
<1>5. CASE UNCHANGED <<pc, stored, cursor, horizon, todo, full, next, seen>>
  BY <1>5 DEF Paging, Handled
<1> QED
  BY <1>1, <1>2, <1>3, <1>4, <1>5, OtherwiseInPage

\* Every step keeps the page complete, if every line parses.
LEMMA CompleteStep ==
  ASSUME Garbled = {}, TypeOK, TypeOK', Phases, Vouching, Paging, Complete, [Next]_vars
  PROVE  Complete'
<1> SUFFICES ASSUME pc' = "page", NEW l \in Line, cursor'.ts <= l.ts, l.ts <= horizon',
                    ~full' \/ (todo' # <<>> /\ l.ts < todo'[Len(todo')].ts)
             PROVE  Handled(l)' + Count(todo', l) >= Count(stored', l)
  BY Zenon DEF Complete
<1>0. /\ Count(stored, l) \in Nat /\ Count(stored', l) \in Nat
      /\ Count(todo, l) \in Nat /\ Count(todo', l) \in Nat
  BY CountType DEF TypeOK
<1>1. CASE FetchPage
  <2>1. /\ cursor \in Cursor /\ cursor' = cursor /\ stored' = stored
        /\ cursor.ts <= l.ts => Handled(l)' = 0
        /\ /\ Garbled = {} /\ l.ts >= cursor.ts
           /\ ~full' \/ (todo' # <<>> /\ l.ts < todo'[Len(todo')].ts)
           => Count(stored, l) <= Count(todo', l)
    BY <1>1, FetchHandles
  <2>2. cursor.ts <= l.ts /\ l.ts >= cursor.ts
    <3>1. cursor.ts <= l.ts
      BY <2>1, Zenon
    <3>2. cursor.ts \in Int /\ l.ts \in Int
      BY <2>1, CursorNotNone, LineTs
    <3> QED
      BY <3>1, <3>2
  <2>3. Handled(l)' = 0 /\ Count(stored', l) <= Count(todo', l)
    BY <2>1, <2>2, Zenon
  <2> QED
    BY <2>3, <1>0
\* A step that keeps what is asked of the page: no line is asked for anew.
<1>2. ASSUME pc = "page", cursor' = cursor, horizon' = horizon, full' = full,
             todo' # <<>> => todo # <<>> /\ todo'[Len(todo')] = todo[Len(todo)]
      PROVE  Handled(l) + Count(todo, l) >= Count(stored, l)
  BY <1>2, Zenon DEF Complete
<1>3. CASE SkipRepeated \/ Dispatch
  <2>1. /\ pc = "page" /\ Within /\ todo' = Tail(todo)
        /\ cursor' = cursor /\ horizon' = horizon /\ full' = full /\ stored' = stored
    BY <1>3 DEF SkipRepeated, Dispatch, source, round
  <2>2. /\ todo # <<>>
        /\ Tail(todo) # <<>> => Tail(todo)[Len(Tail(todo))] = todo[Len(todo)]
    BY <2>1, TailLines DEF Within
  <2>3. Handled(l) + Count(todo, l) >= Count(stored, l)
    BY <1>2, <2>1, <2>2
  <2>4. /\ cursor \in Cursor /\ next \in Cursor
        /\ Count(todo, l) = (IF Head(todo) = l THEN 1 ELSE 0) + Count(Tail(todo), l)
    BY <2>1, FirstLine
  <2>5. Handled(l) \in Int
    BY <2>4, HandledType
  <2>6. \/ Handled(l)' = Count(stored, l)
        \/ Handled(l)' = Handled(l) + (IF l = Head(todo) THEN 1 ELSE 0)
    BY <1>3, SkipHandles, DispatchHandles
  <2> QED
    BY <1>0, <2>1, <2>3, <2>4, <2>5, <2>6
<1>4. ASSUME NEW k \in Line, Arrive(k)
      PROVE  Handled(l)' + Count(todo', l) >= Count(stored', l)
  <2>1. pc = "page" /\ UNCHANGED <<cursor, horizon, full, todo, next>>
    BY <1>4 DEF Arrive, page, round
  <2>2. Handled(l) + Count(todo, l) >= Count(stored, l)
    BY <1>2, <2>1
  <2>3. cursor \in Cursor /\ next \in Cursor
    BY <2>1, CursorNotNone DEF TypeOK, Phases
  <2>4. Handled(l) \in Int
    BY <2>3, HandledType
  <2>5. l.ts <= now - Settle
    <3>1. horizon <= now - Settle /\ l.ts <= horizon /\ now \in Int /\ horizon \in Int
      BY <2>1 DEF Phases, TypeOK
    <3> QED
      BY <3>1, LineTs
  <2>6. Count(stored', l) = Count(stored, l)
    BY <2>5, Grows
  <2>7. Handled(l)' = IF l.ts < next.ts THEN Count(stored', l) ELSE Handled(l)
    BY <1>4, <2>1, ArriveHandles
  <2> QED
    BY <1>0, <2>1, <2>2, <2>4, <2>6, <2>7
<1>5. CASE UNCHANGED <<pc, stored, cursor, horizon, todo, full, next, seen>>
  <2>1. Handled(l) + Count(todo, l) >= Count(stored, l)
    BY <1>2, <1>5
  <2>2. Handled(l)' = Handled(l)
    BY <1>5 DEF Handled
  <2> QED
    BY <1>5, <2>1, <2>2
<1> QED
  BY <1>1, <1>3, <1>4, <1>5, OtherwiseInPage

-----------------------------------------------------------------------------
(* What a cursor vouches for                                               *)

\* What is vouched for is a number.
LEMMA VouchedType ==
  ASSUME TypeOK, NEW c \in Cursor, NEW l \in Line
  PROVE  Vouched(c, l) \in Nat
<1>1. Count(stored, l) \in Nat /\ c.seen[l.hash] \in Nat
  BY CountType, LineTs, CursorNotNone DEF TypeOK
<1> QED
  BY <1>1 DEF Vouched

\* A cursor that is further ahead vouches for no fewer lines.
LEMMA VouchedGrows ==
  ASSUME TypeOK, NEW a \in Cursor, NEW b \in Cursor, Ahead(a, b), CountsSound(b),
         NEW l \in Line
  PROVE  Vouched(b, l) <= Vouched(a, l)
<1>1. /\ a.ts \in Int /\ b.ts \in Int /\ l.ts \in Int
      /\ a.seen[l.hash] \in Nat /\ b.seen[l.hash] \in Nat /\ Count(stored, l) \in Nat
  BY CountType, LineTs, CursorNotNone DEF TypeOK
<1>2. a.ts > b.ts \/ (a.ts = b.ts /\ a.seen[l.hash] >= b.seen[l.hash])
  BY LineTs DEF Ahead
<1>3. l.ts = b.ts => b.seen[l.hash] <= Count(stored, l)
  BY DEF CountsSound
<1> QED
  BY <1>1, <1>2, <1>3 DEF Vouched

\* What a cursor says of a line that is not given up never changes: the lines
\* behind it have settled.
LEMMA VouchedStays ==
  ASSUME TypeOK, TypeOK', [Next]_vars, NEW c \in Cursor, SettledBehind(c),
         NEW l \in Line, l.ts \notin skipped'
  PROVE  Vouched(c, l)' = Vouched(c, l)
<1>0. skipped \subseteq skipped'
  BY Grows
<1>1. l.ts \in 1..MaxTime /\ l.ts \in Int /\ now \in Int /\ l.ts \notin skipped
  BY <1>0, LineTs DEF TypeOK
<1>2. l.ts < c.ts => l.ts <= now - Settle
  BY <1>1 DEF SettledBehind
<1>3. l.ts < c.ts => Count(stored', l) = Count(stored, l)
  BY <1>2, Grows
<1> QED
  BY <1>3 DEF Vouched

\* What advancing past the first line of the page adds to what next vouches
\* for: the line itself, and nothing of the lines before it that the page does
\* not hold.
LEMMA VouchedAdvances ==
  ASSUME TypeOK, Phases, Paging, Vouching, Dispatch, NEW l \in Line
  PROVE  /\ l.ts >= Head(todo).ts =>
                Vouched(next, l)' = Vouched(next, l) + (IF Head(todo) = l THEN 1 ELSE 0)
         /\ l.ts < Head(todo).ts => Vouched(next, l)' = Count(stored, l)
<1> DEFINE l0 == Head(todo)
<1>1. /\ cursor \in Cursor /\ next \in Cursor /\ l0 \in Line
      /\ next.ts <= l0.ts /\ cursor.ts <= next.ts
  BY FirstLine DEF Dispatch
<1>2. next' = Advance(next, l0) /\ stored' = stored
  BY DEF Dispatch, source
<1> HIDE DEF l0
<1>3. /\ next'.ts = l0.ts
      /\ \A h \in Hashes :
            next'.seen[h] =
                (IF l0.ts = next.ts THEN next.seen[h] ELSE 0) + (IF h = l0.hash THEN 1 ELSE 0)
  BY <1>1, <1>2, AdvanceAhead
<1>4. /\ next.ts \in Int /\ l.ts \in Int /\ l0.ts \in Int /\ l.hash \in Hashes
      /\ next.seen[l.hash] \in Nat
  BY <1>1, CursorNotNone, LineTs
<1>5. l = l0 <=> l.ts = l0.ts /\ l.hash = l0.hash
  BY <1>1 DEF Line
<1>6. Vouched(next, l)' = IF l.ts < l0.ts THEN Count(stored, l)
                          ELSE IF l.ts = l0.ts THEN next'.seen[l.hash] ELSE 0
  BY <1>2, <1>3 DEF Vouched
<1>7. l.ts < l0.ts => Vouched(next, l)' = Count(stored, l)
  BY <1>6
<1>8. ASSUME l.ts >= l0.ts
      PROVE  Vouched(next, l)' = Vouched(next, l) + (IF l0 = l THEN 1 ELSE 0)
  <2>1. Vouched(next, l) = IF l.ts = next.ts THEN next.seen[l.hash] ELSE 0
    BY <1>1, <1>4, <1>8 DEF Vouched
  <2>2. CASE l.ts = l0.ts
    <3>1. next'.seen[l.hash] =
            (IF l0.ts = next.ts THEN next.seen[l.hash] ELSE 0) + (IF l = l0 THEN 1 ELSE 0)
      BY <1>3, <1>4, <1>5, <2>2
    <3>2. Vouched(next, l)' = next'.seen[l.hash]
      BY <1>4, <1>6, <2>2
    <3> QED
      BY <1>4, <2>1, <2>2, <3>1, <3>2
  <2>3. CASE l.ts > l0.ts
    <3>1. Vouched(next, l)' = 0 /\ Vouched(next, l) = 0 /\ l # l0
      BY <1>1, <1>4, <1>5, <1>6, <2>1, <2>3
    <3> QED
      BY <3>1
  <2> QED
    BY <1>4, <1>8, <2>2, <2>3
<1> QED
  BY <1>7, <1>8 DEF l0

\* A line within the horizon of which the page holds no more is vouched for in
\* full.
LEMMA NoneLeft ==
  ASSUME TypeOK, Phases, Paging, Complete, pc = "page", NEW l \in Line,
         l.ts <= horizon, Count(todo, l) = 0,
         ~full \/ (todo # <<>> /\ l.ts < todo[Len(todo)].ts)
  PROVE  Vouched(next, l) >= Count(stored, l)
<1>1. cursor \in Cursor /\ next \in Cursor /\ Ahead(next, cursor)
  BY CursorNotNone DEF TypeOK, Phases, Paging
<1>2. /\ cursor.ts \in Int /\ next.ts \in Int /\ cursor.ts <= next.ts /\ l.ts \in Int
      /\ next.seen[l.hash] \in Nat /\ seen[l.hash] \in Nat /\ Count(stored, l) \in Nat
  <2>1. cursor.ts \in Int /\ next.ts \in Int /\ l.ts \in Int /\ l.hash \in Hashes
    BY <1>1, CursorNotNone, LineTs
  <2>2. cursor.ts <= next.ts
    BY <1>1, <2>1 DEF Ahead
  <2>3. next.seen[l.hash] \in Nat /\ seen[l.hash] \in Nat
    BY <1>1, <2>1, CursorNotNone DEF TypeOK
  <2>4. Count(stored, l) \in Nat
    BY CountType DEF TypeOK
  <2> QED
    BY <2>1, <2>2, <2>3, <2>4
<1>3. CASE l.ts < next.ts
  BY <1>2, <1>3 DEF Vouched
<1>4. CASE next.ts <= l.ts
  <2>1. Handled(l) + 0 >= Count(stored, l)
    BY <1>2, <1>4 DEF Complete
  <2>2. CASE l.ts = next.ts
    <3>1. Handled(l) <= next.seen[l.hash] /\ Handled(l) \in Int
      BY <1>2, <2>2 DEF Handled
    <3> QED
      BY <1>2, <2>1, <2>2, <3>1 DEF Vouched
  <2>3. CASE l.ts > next.ts
    BY <1>2, <2>1, <2>3 DEF Vouched, Handled
  <2> QED
    BY <1>2, <1>4, <2>2, <2>3
<1> QED
  BY <1>2, <1>3, <1>4

-----------------------------------------------------------------------------
(* What has been delivered                                                 *)

\* At first nothing is vouched for.
LEMMA DeliveredInit == Init => Complete /\ Delivered
<1> SUFFICES ASSUME Init PROVE Complete /\ Delivered
  OBVIOUS
<1>1. pc = "off" /\ cursor = None /\ memo = None /\ disk = None
  BY Zenon DEF Init
<1> QED
  BY <1>1 DEF Complete, Delivered, NothingLost, PageDelivered, RoundDelivered

\* What a page that is written has delivered: all that its position vouches for.
LEMMA WrittenDelivers ==
  ASSUME TypeOK, Phases, PageDelivered, Written, NEW s \in Sinks, NEW l \in Wanted
  PROVE  next \in Cursor /\ accepted[s][l] >= Vouched(next, l)
<1>1. pc = "page" /\ out[s] = <<>> /\ ~failed[s] /\ l \in Line
  BY DEF Written, Settled, Wanted
<1>2. next \in Cursor
  BY <1>1, CursorNotNone DEF TypeOK, Phases
<1>3. older[s] \in Nat /\ older[s] <= 0
  BY <1>1 DEF TypeOK
<1>4. Fresh(s) = <<>>
  BY <1>1, <1>3 DEF Fresh
<1>5. Count(Fresh(s), l) = 0
  BY <1>4, CountEmpty
<1>6. accepted[s][l] + Count(Fresh(s), l) >= Vouched(next, l)
  BY <1>1 DEF PageDelivered
<1> QED
  BY <1>1, <1>2, <1>5, <1>6 DEF TypeOK

\* What is to be shown of a cursor that has moved to c.
NowDelivered(c) ==
    \A s \in Sinks : \A l \in Line :
        l.hash \notin Ignored \cup Garbled /\ l.ts \notin skipped' =>
            accepted'[s][l] >= IF l.ts < c.ts THEN Count(stored', l)
                               ELSE IF l.ts = c.ts THEN c.seen[l.hash] ELSE 0

\* A cursor at the instant t vouches for the lines before t.
LEMMA DeliveredAt ==
  ASSUME TypeOK', NEW t \in Int,
         \A s \in Sinks : \A l \in Line :
            l.hash \notin Ignored \cup Garbled /\ l.ts \notin skipped' /\ l.ts < t =>
                accepted'[s][l] >= Count(stored', l)
  PROVE  NowDelivered(At(t))
<1>1. At(t).ts = t /\ \A l \in Line : At(t).seen[l.hash] = 0
  BY LineTs DEF At
<1>2. \A s \in Sinks : \A l \in Line : accepted'[s][l] \in Nat
  BY DEF TypeOK
<1> QED
  BY <1>1, <1>2 DEF NowDelivered

\* Every step keeps what the cursors vouch for delivered.
LEMMA NothingLostStep ==
  ASSUME TypeOK, TypeOK', Phases, Phases', Vouching, Paging, Delivered, [Next]_vars
  PROVE  NothingLost'
<1> DEFINE cursors == {cursor, memo, disk} \ {None}
           later == {cursor', memo', disk'} \ {None}
<1>0. /\ now \in Int /\ horizon \in Int
      /\ \A c \in cursors \cup later : c \in Cursor /\ c.ts \in Int
      /\ cursors \subseteq Positions
  BY CursorNotNone DEF TypeOK, Positions
<1>g. /\ skipped \subseteq skipped'
      /\ \A s \in Sinks : \A l \in Line : /\ accepted[s][l] \in Nat /\ accepted'[s][l] \in Nat
                                          /\ accepted[s][l] <= accepted'[s][l]
  BY Grows
<1>w. \A l \in Line : l.hash \notin Ignored \cup Garbled /\ l.ts \notin skipped' => l \in Wanted
  BY <1>g DEF Wanted
<1>1. ASSUME NEW c \in cursors
      PROVE  NowDelivered(c)
  <2> SUFFICES ASSUME NEW s \in Sinks, NEW l \in Line,
                      l.hash \notin Ignored \cup Garbled, l.ts \notin skipped'
               PROVE  accepted'[s][l] >= IF l.ts < c.ts THEN Count(stored', l)
                               ELSE IF l.ts = c.ts THEN c.seen[l.hash] ELSE 0
    BY Zenon DEF NowDelivered
  <2>1. c \in Cursor /\ SettledBehind(c)
    BY <1>0, <1>1 DEF Vouching
  <2>2. accepted[s][l] >= Vouched(c, l)
    BY <1>1, <1>w DEF Delivered, NothingLost
  <2>3. Vouched(c, l)' = Vouched(c, l) /\ Vouched(c, l) \in Nat
    BY <2>1, VouchedStays, VouchedType
  <2>4. accepted'[s][l] >= Vouched(c, l)'
    BY <1>g, <2>2, <2>3
  <2>5. Vouched(c, l)' = IF l.ts < c.ts THEN Count(stored', l)
                         ELSE IF l.ts = c.ts THEN c.seen[l.hash] ELSE 0
    BY Zenon DEF Vouched
  <2> QED
    BY <2>4, <2>5, Zenon
<1>2. \A c \in later : NowDelivered(c)
  <2> HIDE DEF cursors
  <2>1. CASE Start
    <3>1. CASE disk = None
      <4>1. now - Lookback \in Int
        BY <1>0
      <4>2. \A l \in Line : l.ts < now - Lookback => l.ts \in skipped'
        BY <2>1, <3>1, LineTs DEF Start
      <4>3. NowDelivered(At(now - Lookback))
        BY <4>1, <4>2, DeliveredAt
      <4>4. later \subseteq cursors \cup {At(now - Lookback)}
        BY <2>1, <3>1 DEF Start, cursors
      <4> QED
        BY <1>1, <4>3, <4>4
    <3>2. CASE disk # None
      <4>1. later \subseteq cursors
        BY <2>1, <3>2 DEF Start, cursors
      <4> QED
        BY <1>1, <4>1
    <3> QED
      BY <3>1, <3>2
  <2>2. CASE BeginRound
    <3>1. Floor \in Int /\ cursor \in Cursor /\ cursor.ts \in Int /\ cursor \in cursors
      BY <2>2, CursorNotNone DEF Floor, TypeOK, Lesser, Greater, BeginRound, Phases, cursors
    <3>2. cursor' = (IF cursor.ts < Floor THEN At(Floor) ELSE cursor)
          /\ skipped' = skipped \cup {t \in 1..MaxTime : cursor.ts <= t /\ t < cursor'.ts}
          /\ memo' = memo /\ disk' = disk
      BY <2>2 DEF BeginRound, store
    <3>3. CASE cursor.ts < Floor
      <4>1. NowDelivered(cursor)
        BY <1>1, <3>1
      <4>2. ASSUME NEW s \in Sinks, NEW l \in Line, l.hash \notin Ignored \cup Garbled,
                   l.ts \notin skipped', l.ts < Floor
            PROVE  accepted'[s][l] >= Count(stored', l)
        <5>1. l.ts < cursor.ts
          BY <3>1, <3>2, <3>3, <4>2, AtCursor, LineTs
        <5> QED
          BY <4>1, <4>2, <5>1 DEF NowDelivered
      <4>3. NowDelivered(At(Floor))
        BY <3>1, <4>2, DeliveredAt
      <4>4. later \subseteq cursors \cup {At(Floor)}
        BY <3>2, <3>3 DEF cursors
      <4> QED
        BY <1>1, <4>3, <4>4
    <3>4. CASE ~(cursor.ts < Floor)
      <4>1. later \subseteq cursors
        BY <3>2, <3>4 DEF cursors
      <4> QED
        BY <1>1, <4>1
    <3> QED
      BY <3>3, <3>4
  <2>3. CASE Written
    <3>0. /\ memo' = memo /\ disk' = disk /\ stored' = stored /\ accepted' = accepted
          /\ cursor' = IF Stuck THEN At(next.ts + 1) ELSE next
          /\ Stuck => skipped' = skipped \cup ({next.ts} \cap 1..MaxTime)
          /\ next \in Cursor /\ next.ts \in Int
      BY <2>3, CursorNotNone DEF Written, Settled, store, source, workers, TypeOK, Phases
    <3>1. ASSUME NEW s \in Sinks, NEW l \in Line, l.hash \notin Ignored \cup Garbled,
                 l.ts \notin skipped'
          PROVE  accepted'[s][l] >= IF l.ts < next.ts THEN Count(stored', l)
                               ELSE IF l.ts = next.ts THEN next.seen[l.hash] ELSE 0
      <4>1. accepted[s][l] >= Vouched(next, l)
        BY <1>w, <2>3, <3>1, WrittenDelivers DEF Delivered
      <4> QED
        BY <3>0, <4>1, Zenon DEF Vouched
    <3>2. CASE Stuck
      <4>1. ASSUME NEW s \in Sinks, NEW l \in Line, l.hash \notin Ignored \cup Garbled,
                   l.ts \notin skipped', l.ts < next.ts + 1
            PROVE  accepted'[s][l] >= Count(stored', l)
        <5>1. l.ts < next.ts
          BY <3>0, <3>2, <4>1, LineTs
        <5> QED
          BY <3>1, <4>1, <5>1
      <4>2. NowDelivered(At(next.ts + 1))
        <5>1. next.ts + 1 \in Int
          BY <3>0
        <5> QED
          BY <4>1, <5>1, DeliveredAt
      <4>3. later \subseteq cursors \cup {At(next.ts + 1)}
        BY <3>0, <3>2 DEF cursors
      <4> QED
        BY <1>1, <4>2, <4>3
    <3>3. CASE ~Stuck
      <4>1. cursor' = next /\ cursor' # None
        BY <3>0, <3>3, CursorNotNone
      <4>2. \A s \in Sinks : \A l \in Line :
              l.hash \notin Ignored \cup Garbled /\ l.ts \notin skipped' =>
                accepted'[s][l] >= IF l.ts < cursor'.ts THEN Count(stored', l)
                               ELSE IF l.ts = cursor'.ts THEN cursor'.seen[l.hash] ELSE 0
        BY <3>1, <4>1
      <4>3. NowDelivered(cursor')
        BY <4>2, Zenon DEF NowDelivered
      <4>4. later \subseteq cursors \cup {cursor'}
        BY <3>0 DEF cursors
      <4> QED
        BY <1>1, <4>3, <4>4
    <3> QED
      BY <3>2, <3>3
  <2>4. CASE FinishRound
    <3>1. /\ stored' = stored /\ accepted' = accepted /\ pc = "finish"
          /\ later \subseteq cursors \cup {At(horizon)}
      BY <2>4 DEF FinishRound, Save, Reached, cursors, source, workers
    <3>2. ASSUME NEW s \in Sinks, NEW l \in Line, l.hash \notin Ignored \cup Garbled,
                 l.ts \notin skipped', l.ts < horizon
          PROVE  accepted'[s][l] >= Count(stored', l)
      <4>1. l \in Wanted /\ l.ts <= horizon
        BY <1>0, <1>w, <3>2, LineTs
      <4>2. accepted[s][l] >= Count(stored, l)
        BY <3>1, <4>1 DEF Delivered, RoundDelivered
      <4> QED
        BY <3>1, <4>2
    <3>3. NowDelivered(At(horizon))
      BY <1>0, <3>2, DeliveredAt
    <3> QED
      BY <1>1, <3>1, <3>3
  <2>5. CASE later \subseteq cursors
    BY <1>1, <2>5
  <2>6. Start \/ BeginRound \/ Written \/ FinishRound \/ later \subseteq cursors
    BY DEF Next, Poll, vars, FetchFails, FetchPage, SkipRepeated, Dispatch, NotWritten,
       SavePage, Save, EndRound, NoPage, Tick, PeerMoves, Retire, Crash, Arrive, Accept,
       Drop, Ended, cursors, source, round, page, store, workers
  <2> QED
    BY <2>1, <2>2, <2>3, <2>4, <2>5, <2>6
<1>3. ASSUME NEW c \in later, NEW s \in Sinks, NEW l \in Wanted'
      PROVE  accepted'[s][l] >= Vouched(c, l)'
  <2>1. l \in Line /\ l.hash \notin Ignored \cup Garbled /\ l.ts \notin skipped'
    BY <1>3 DEF Wanted
  <2>2. accepted'[s][l] >= IF l.ts < c.ts THEN Count(stored', l)
                           ELSE IF l.ts = c.ts THEN c.seen[l.hash] ELSE 0
    BY <1>2, <1>3, <2>1, Zenon DEF NowDelivered
  <2> QED
    BY <2>2, Zenon DEF Vouched
<1> QED
  BY <1>3, Zenon DEF NothingLost

\* Every step keeps a round that finishes complete.
LEMMA RoundDeliveredStep ==
  ASSUME Garbled = {}, TypeOK, TypeOK', Phases, Vouching, Paging, Complete, Delivered,
         [Next]_vars
  PROVE  RoundDelivered'
<1> SUFFICES ASSUME pc' = "finish", NEW s \in Sinks, NEW l \in Wanted', l.ts <= horizon'
             PROVE  accepted'[s][l] >= Count(stored', l)
  BY Zenon DEF RoundDelivered
<1>0. l \in Wanted /\ l \in Line /\ l.ts \in Int
  <2>1. skipped \subseteq skipped'
    BY Grows
  <2> QED
    BY <2>1, LineTs DEF Wanted
<1>1. CASE Written
  <2>1. /\ pc = "page" /\ horizon' = horizon /\ stored' = stored /\ accepted' = accepted
        /\ ~Within /\ (Beyond \/ ~full)
    BY <1>1 DEF Written, Settled, source, round, workers
  <2>2. next \in Cursor /\ accepted[s][l] >= Vouched(next, l)
    <3>1. PageDelivered
      BY DEF Delivered
    <3> QED
      BY <1>0, <1>1, <3>1, WrittenDelivers, Zenon
  <2>3. todo \in Seq(Line) /\ horizon \in Int /\ \A i \in 1..Len(todo) : todo[i] \in Line
    <3>1. todo \in Seq(Line) /\ horizon \in Int
      BY DEF TypeOK
    <3>2. \A i \in 1..Len(todo) : todo[i] \in Line
      BY <3>1, ElementOfSeq, Zenon
    <3> QED
      BY <3>1, <3>2
  <2>4. \A i \in 1..Len(todo) : l.ts < todo[i].ts
    <3>1. CASE todo = <<>>
      BY <3>1
    <3>2. CASE todo # <<>>
      <4>1. Head(todo) = todo[1] /\ Len(todo) \in Nat \ {0} /\ DOMAIN todo = 1..Len(todo)
        BY <2>3, <3>2, HeadTail
      <4>2. ~(todo[1].ts <= horizon)
        BY <2>1, <3>2, <4>1 DEF Within
      <4>3. \A i \in 1..Len(todo) : todo[1].ts <= todo[i].ts
        BY <2>1, <4>1 DEF Paging, Sorted
      <4>4. \A i \in 1..Len(todo) : todo[i].ts \in Int
        BY <2>3, LineTs
      <4> QED
        BY <1>0, <2>1, <2>3, <4>1, <4>2, <4>3, <4>4
    <3> QED
      BY <3>1, <3>2
  <2>5. Count(todo, l) = 0
    <3>1. \A i \in 1..Len(todo) : todo[i] # l
      BY <1>0, <2>4
    <3> QED
      BY <2>3, <3>1, CountNone
  <2>6. ~full \/ (todo # <<>> /\ l.ts < todo[Len(todo)].ts)
    <3>1. todo # <<>> => Len(todo) \in 1..Len(todo)
      BY <2>3
    <3> QED
      BY <2>1, <2>4, <3>1 DEF Beyond
  <2>7. l.ts <= horizon
    BY <2>1
  <2>8. Vouched(next, l) >= Count(stored, l)
    BY <1>0, <2>1, <2>5, <2>6, <2>7, NoneLeft
  <2>9. Vouched(next, l) \in Nat /\ Count(stored, l) \in Nat /\ accepted[s][l] \in Nat
    <3>1. Vouched(next, l) \in Nat
      BY <1>0, <2>2, VouchedType
    <3> QED
      BY <1>0, <3>1, Grows
  <2>10. accepted[s][l] >= Count(stored, l)
    BY <2>2, <2>8, <2>9
  <2> QED
    BY <2>1, <2>10
<1>2. CASE pc = "finish" /\ horizon' = horizon
  <2>1. l.ts <= now - Settle
    <3>1. horizon <= now - Settle /\ l.ts <= horizon /\ now \in Int /\ horizon \in Int
      BY <1>2 DEF Phases, TypeOK
    <3> QED
      BY <1>0, <3>1
  <2>2. Count(stored', l) = Count(stored, l) /\ Count(stored, l) \in Nat
    BY <1>0, <2>1, Grows
  <2>3. accepted[s][l] >= Count(stored, l)
    BY <1>0, <1>2 DEF Delivered, RoundDelivered
  <2>4. accepted[s][l] <= accepted'[s][l] /\ accepted[s][l] \in Nat /\ accepted'[s][l] \in Nat
    BY <1>0, Grows
  <2> QED
    BY <2>2, <2>3, <2>4
<1>3. Written \/ (pc = "finish" /\ horizon' = horizon)
  BY DEF Next, Poll, vars, Start, BeginRound, FetchFails, FetchPage, SkipRepeated, Dispatch,
     NotWritten, SavePage, FinishRound, EndRound, Tick, PeerMoves, Retire, Crash,
     Arrive, Accept, Drop, Ended, source, round, page, store, workers
<1> QED
  BY <1>1, <1>2, <1>3

\* A line within the horizon is handed to every worker as next passes it.
LEMMA DispatchDelivers ==
  ASSUME TypeOK, Phases, Vouching, Paging, Complete, PageDelivered, Dispatch,
         NEW s \in Sinks, ~failed[s], NEW l \in Wanted
  PROVE  accepted[s][l] + Count(Fresh(s)', l) >= Vouched(next, l)'
<1> DEFINE l0 == Head(todo)
<1>0. l \in Line /\ l.ts \in Int /\ l.hash \notin Ignored
  BY LineTs DEF Wanted
<1>1. /\ pc = "page" /\ Within /\ stored' = stored /\ older' = older
      /\ out' = IF l0.hash \in Ignored THEN out ELSE [r \in Sinks |-> Append(out[r], l0)]
  BY DEF Dispatch, DispatchWait, source
<1>2. /\ cursor \in Cursor /\ next \in Cursor /\ l0 \in Line /\ l0.ts \in Int
      /\ l0.ts <= horizon /\ horizon \in Int
      /\ l.ts < l0.ts => Count(todo, l) = 0
  BY <1>0, <1>1, FirstLine, LineTs DEF TypeOK
<1>3. /\ l.ts >= l0.ts =>
            Vouched(next, l)' = Vouched(next, l) + (IF l0 = l THEN 1 ELSE 0)
      /\ l.ts < l0.ts => Vouched(next, l)' = Count(stored, l)
  BY <1>0, VouchedAdvances
<1>4. accepted[s][l] + Count(Fresh(s), l) >= Vouched(next, l)
  BY <1>1 DEF PageDelivered
<1>5. out[s] \in Seq(Line) /\ older[s] \in 0..Len(out[s])
  BY DEF TypeOK
<1>6. /\ accepted[s][l] \in Nat /\ Count(Fresh(s), l) \in Nat
      /\ Vouched(next, l) \in Nat /\ Count(stored, l) \in Nat
  <2>1. Fresh(s) \in Seq(Line)
    BY <1>5, SubSeqType DEF Fresh
  <2>2. Vouched(next, l) \in Nat
    BY <1>0, <1>2, VouchedType
  <2>3. Count(Fresh(s), l) \in Nat
    BY <2>1, CountType
  <2>4. Count(stored, l) \in Nat
    BY CountType DEF TypeOK
  <2>5. accepted[s][l] \in Nat
    BY <1>0 DEF TypeOK
  <2> QED
    BY <2>2, <2>3, <2>4, <2>5
<1> HIDE DEF l0
<1>7. Count(Fresh(s)', l) = Count(Fresh(s), l) + (IF l0 = l THEN 1 ELSE 0)
  <2>1. CASE l0.hash \in Ignored
    <3>1. Fresh(s)' = Fresh(s) /\ l0 # l
      BY <1>0, <1>1, <2>1 DEF Fresh
    <3> QED
      BY <1>6, <3>1
  <2>2. CASE l0.hash \notin Ignored
    <3>1. out'[s] = Append(out[s], l0) /\ older'[s] = older[s]
      BY <1>1, <2>2
    <3>2. /\ Len(Append(out[s], l0)) = Len(out[s]) + 1
          /\ Count(SubSeq(Append(out[s], l0), older[s] + 1, Len(out[s]) + 1), l) =
              Count(SubSeq(out[s], older[s] + 1, Len(out[s])), l) + (IF l0 = l THEN 1 ELSE 0)
      BY <1>2, <1>5, CountBehindAppend
    <3>3. Fresh(s)' = SubSeq(Append(out[s], l0), older[s] + 1, Len(out[s]) + 1)
      BY <3>1, <3>2, Zenon DEF Fresh
    <3> QED
      BY <3>2, <3>3, Zenon DEF Fresh
  <2> QED
    BY <2>1, <2>2
<1>8. CASE l.ts >= l0.ts
  BY <1>3, <1>4, <1>6, <1>7, <1>8
<1>9. CASE l.ts < l0.ts
  <2>1. l.ts <= horizon /\ Count(todo, l) = 0
    BY <1>0, <1>2, <1>9
  <2>2. todo # <<>> /\ l.ts < todo[Len(todo)].ts
    <3>1. todo # <<>> /\ todo \in Seq(Line)
      BY <1>1 DEF Within, TypeOK
    <3>2. l0 = todo[1] /\ Len(todo) \in Nat \ {0} /\ DOMAIN todo = 1..Len(todo)
      BY <3>1, HeadTail DEF l0
    <3>3. todo[1].ts <= todo[Len(todo)].ts
      BY <1>1, <3>2 DEF Paging, Sorted
    <3>4. todo[Len(todo)].ts \in Int
      BY <3>1, <3>2, LineTs
    <3> QED
      BY <1>0, <1>2, <1>9, <3>1, <3>2, <3>3, <3>4
  <2>3. Vouched(next, l) >= Count(stored, l)
    BY <1>0, <1>1, <2>1, <2>2, NoneLeft
  <2>4. l0 # l
    BY <1>0, <1>9
  <2> QED
    BY <1>3, <1>4, <1>6, <1>7, <1>9, <2>3, <2>4
<1> QED
  BY <1>0, <1>2, <1>8, <1>9

\* What a worker settles is the oldest it holds: what it was handed since the
\* mark is accepted, still held, or the reason that failed is set.
LEMMA SettlesOldest ==
  ASSUME TypeOK, NEW r \in Sinks, Accept(r) \/ Drop(r),
         NEW s \in Sinks, ~failed'[s], NEW l \in Line
  PROVE  ~failed[s] /\ accepted'[s][l] + Count(Fresh(s)', l) >= accepted[s][l] + Count(Fresh(s), l)
<1>0. /\ out[s] \in Seq(Line) /\ Len(out[s]) \in Nat /\ older[s] \in 0..Len(out[s])
      /\ accepted[s][l] \in Nat /\ failed[s] \in BOOLEAN
  BY DEF TypeOK
<1>1. PICK n \in 0..Len(out[r]) :
        /\ out' = [out EXCEPT ![r] = SubSeq(@, n + 1, Len(@))]
        /\ older' = [older EXCEPT ![r] = Greater(@ - n, 0)]
        /\ \/ /\ accepted' = [accepted EXCEPT ![r] =
                    [k \in Line |-> @[k] + Count(SubSeq(out[r], 1, n), k)]]
              /\ failed' = failed
           \/ /\ accepted' = accepted
              /\ failed' = [failed EXCEPT ![r] = @ \/ n = 0 \/ n > older[r]]
  <2>0. Len(out[r]) \in Nat
    BY DEF TypeOK
  <2>1. CASE Accept(r)
    <3>1. PICK n \in 1..Len(out[r]) :
            /\ accepted' = [accepted EXCEPT ![r] =
                  [k \in Line |-> @[k] + Count(SubSeq(out[r], 1, n), k)]]
            /\ out' = [out EXCEPT ![r] = SubSeq(@, n + 1, Len(@))]
            /\ older' = [older EXCEPT ![r] = Greater(@ - n, 0)]
      BY <2>1 DEF Accept
    <3>2. n \in 0..Len(out[r]) /\ failed' = failed
      BY <2>0, <2>1 DEF Accept
    <3> QED
      BY <3>1, <3>2
  <2>2. CASE Drop(r)
    BY <2>0, <2>2 DEF Drop
  <2> QED
    BY <2>1, <2>2
<1>2. CASE s # r
  <2>1. out'[s] = out[s] /\ older'[s] = older[s] /\ failed'[s] = failed[s]
    BY <1>1, <1>2 DEF TypeOK
  <2>2. accepted'[s] = accepted[s]
    <3> DEFINE more == [k \in Line |-> accepted[r][k] + Count(SubSeq(out[r], 1, n), k)]
    <3>1. accepted' = accepted \/ accepted' = [accepted EXCEPT ![r] = more]
      BY <1>1
    <3> HIDE DEF more
    <3> QED
      BY <3>1, <1>2 DEF TypeOK
  <2>3. Fresh(s)' = Fresh(s)
    BY <2>1, Zenon DEF Fresh
  <2>4. Fresh(s) \in Seq(Line)
    BY <1>0, SubSeqType DEF Fresh
  <2>5. Count(Fresh(s), l) \in Nat
    BY <2>4, CountType
  <2> QED
    BY <1>0, <2>1, <2>2, <2>3, <2>5
<1>3. CASE s = r
  <2> DEFINE rest == SubSeq(out[s], n + 1, Len(out[s]))
             left == IF n <= older[s] THEN older[s] - n ELSE 0
  <2>0. n \in 0..Len(out[s]) /\ n \in Nat
    BY <1>0, <1>3
  <2>1. out'[s] = rest /\ older'[s] = left
    <3>1. out'[s] = rest /\ older'[s] = Greater(older[s] - n, 0)
      BY <1>1, <1>3 DEF TypeOK
    <3>2. Greater(older[s] - n, 0) = left
      BY <1>0, <2>0 DEF Greater
    <3> QED
      BY <3>1, <3>2
  <2>2. Fresh(s)' = SubSeq(rest, left + 1, Len(rest))
    BY <2>1, Zenon DEF Fresh
  <2>3. /\ Count(Fresh(s), l) \in Nat
        /\ Count(SubSeq(rest, left + 1, Len(rest)), l) \in Nat
        /\ Count(Fresh(s), l) <=
             Count(SubSeq(out[s], 1, n), l) + Count(SubSeq(rest, left + 1, Len(rest)), l)
        /\ n <= older[s] => SubSeq(rest, left + 1, Len(rest)) = Fresh(s)
    BY <1>0, <2>0, CountBehind DEF Fresh
  <2> HIDE DEF rest, left
  <2>4. CASE /\ accepted' = [accepted EXCEPT ![r] =
                    [k \in Line |-> @[k] + Count(SubSeq(out[r], 1, n), k)]]
             /\ failed' = failed
    <3>1. accepted'[s][l] = accepted[s][l] + Count(SubSeq(out[s], 1, n), l)
      BY <1>3, <2>4 DEF TypeOK
    <3>2. SubSeq(out[s], 1, n) \in Seq(Line)
      BY <1>0, <2>0, SubSeqType
    <3>3. Count(SubSeq(out[s], 1, n), l) \in Nat
      BY <3>2, CountType
    <3>4. Count(Fresh(s)', l) = Count(SubSeq(rest, left + 1, Len(rest)), l)
      BY <2>2, Zenon
    <3>5. accepted'[s][l] + Count(Fresh(s)', l) >= accepted[s][l] + Count(Fresh(s), l)
      BY <1>0, <2>3, <3>1, <3>3, <3>4
    <3> QED
      BY <2>4, <3>5
  <2>5. CASE /\ accepted' = accepted
             /\ failed' = [failed EXCEPT ![r] = @ \/ n = 0 \/ n > older[r]]
    <3>1. ~failed[s] /\ ~(n > older[s])
      BY <1>0, <1>3, <2>5 DEF TypeOK
    <3>2. n <= older[s]
      BY <1>0, <2>0, <3>1
    <3>3. Fresh(s)' = Fresh(s)
      BY <2>2, <2>3, <3>2
    <3> QED
      BY <1>0, <2>3, <2>5, <3>1, <3>3
  <2> QED
    BY <1>1, <2>4, <2>5
<1> QED
  BY <1>2, <1>3

\* Every step keeps what next vouches for delivered, or handed over since the mark.
LEMMA PageDeliveredStep ==
  ASSUME Garbled = {}, TypeOK, TypeOK', Phases, Vouching, Paging, Complete, Delivered,
         [Next]_vars
  PROVE  PageDelivered'
<1> SUFFICES ASSUME pc' = "page", NEW s \in Sinks, NEW l \in Wanted', ~failed'[s]
             PROVE  accepted'[s][l] + Count(Fresh(s)', l) >= Vouched(next, l)'
  BY Zenon DEF PageDelivered
<1>0. l \in Wanted /\ l \in Line /\ l.ts \in Int /\ l.ts \notin skipped'
  <2>1. skipped \subseteq skipped'
    BY Grows
  <2> QED
    BY <2>1, LineTs DEF Wanted
<1>1. CASE FetchPage
  <2>1. /\ next' = cursor /\ cursor \in Cursor /\ stored' = stored /\ accepted' = accepted
        /\ out' = out /\ older' = [r \in Sinks |-> Len(out[r])] /\ cursor # None
    BY <1>1, CursorNotNone DEF FetchPage, TakeMarks, TypeOK, Phases, source
  <2>2. out[s] \in Seq(Line) /\ Len(out[s]) \in Nat
    BY DEF TypeOK
  <2>3. Fresh(s)' = <<>>
    <3>1. Fresh(s)' = SubSeq(out[s], Len(out[s]) + 1, Len(out[s]))
      BY <2>1 DEF Fresh
    <3> QED
      BY <2>2, <3>1
  <2>4. Count(Fresh(s)', l) = 0
    BY <2>3, CountEmpty
  <2>5. accepted[s][l] >= Vouched(cursor, l)
    BY <1>0, <2>1 DEF Delivered, NothingLost
  <2>6. Vouched(next, l)' = Vouched(cursor, l)
    BY <2>1 DEF Vouched
  <2>7. accepted[s][l] \in Nat
    BY <1>0 DEF TypeOK
  <2> QED
    BY <2>1, <2>4, <2>5, <2>6, <2>7
<1>2. CASE Dispatch
  <2>1. ~failed[s] /\ accepted' = accepted
    BY <1>2 DEF Dispatch
  <2> QED
    BY <1>0, <1>2, <2>1, DispatchDelivers DEF Delivered
<1>3. ASSUME NEW r \in Sinks, Accept(r) \/ Drop(r)
      PROVE  accepted'[s][l] + Count(Fresh(s)', l) >= Vouched(next, l)'
  <2>1. pc = "page" /\ next' = next /\ stored' = stored
    BY <1>3 DEF Accept, Drop, source, page
  <2>2. ~failed[s] /\ accepted'[s][l] + Count(Fresh(s)', l) >= accepted[s][l] + Count(Fresh(s), l)
    BY <1>0, <1>3, SettlesOldest
  <2>3. accepted[s][l] + Count(Fresh(s), l) >= Vouched(next, l)
    BY <1>0, <2>1, <2>2 DEF Delivered, PageDelivered
  <2>4. Vouched(next, l)' = Vouched(next, l)
    BY <2>1 DEF Vouched
  <2>5. next \in Cursor
    BY <2>1, CursorNotNone DEF TypeOK, Phases
  <2>6. /\ out[s] \in Seq(Line) /\ older[s] \in 0..Len(out[s])
        /\ out'[s] \in Seq(Line) /\ older'[s] \in 0..Len(out'[s])
    BY DEF TypeOK
  <2>7. Fresh(s) \in Seq(Line) /\ Fresh(s)' \in Seq(Line)
    BY <2>6, SubSeqType DEF Fresh
  <2>8. /\ Count(Fresh(s), l) \in Nat /\ Count(Fresh(s)', l) \in Nat
        /\ Vouched(next, l) \in Nat /\ accepted[s][l] \in Nat /\ accepted'[s][l] \in Nat
    <3>1. Count(Fresh(s), l) \in Nat /\ Count(Fresh(s)', l) \in Nat
      BY <2>7, CountType
    <3>2. Vouched(next, l) \in Nat
      BY <1>0, <2>5, VouchedType
    <3> QED
      BY <1>0, <3>1, <3>2, Grows
  <2> QED
    BY <2>2, <2>3, <2>4, <2>8
<1>4. CASE pc = "page" /\ UNCHANGED <<next, accepted, out, older, failed>>
  <2>1. next \in Positions /\ next \in Cursor
    BY <1>4, CursorNotNone DEF TypeOK, Phases, Positions
  <2>2. SettledBehind(next)
    BY <2>1 DEF Vouching
  <2>3. Vouched(next, l)' = Vouched(next, l)
    <3>1. \A c \in Cursor : SettledBehind(c) =>
             (IF l.ts < c.ts THEN Count(stored', l)
              ELSE IF l.ts = c.ts THEN c.seen[l.hash] ELSE 0) = Vouched(c, l)
      <4> SUFFICES ASSUME NEW c \in Cursor, SettledBehind(c)
                   PROVE  (IF l.ts < c.ts THEN Count(stored', l)
                           ELSE IF l.ts = c.ts THEN c.seen[l.hash] ELSE 0) = Vouched(c, l)
        OBVIOUS
      <4>1. Vouched(c, l)' = Vouched(c, l)
        BY <1>0, VouchedStays
      <4>2. Vouched(c, l)' = IF l.ts < c.ts THEN Count(stored', l)
                             ELSE IF l.ts = c.ts THEN c.seen[l.hash] ELSE 0
        BY Zenon DEF Vouched
      <4> QED
        BY <4>1, <4>2, Zenon
    <3>2. Vouched(next, l)' = IF l.ts < next.ts THEN Count(stored', l)
                              ELSE IF l.ts = next.ts THEN next.seen[l.hash] ELSE 0
      BY <1>4 DEF Vouched
    <3> QED
      BY <2>1, <2>2, <3>1, <3>2, Zenon
  <2>4. accepted[s][l] + Count(Fresh(s), l) >= Vouched(next, l)
    BY <1>0, <1>4 DEF Delivered, PageDelivered
  <2>5. Fresh(s)' = Fresh(s)
    BY <1>4, Zenon DEF Fresh
  <2> QED
    BY <1>4, <2>3, <2>4, <2>5
<1>5. \/ FetchPage \/ Dispatch \/ \E r \in Sinks : Accept(r) \/ Drop(r)
      \/ pc = "page" /\ UNCHANGED <<next, accepted, out, older, failed>>
  BY DEF Next, Poll, vars, Start, BeginRound, FetchFails, SkipRepeated,
     NotWritten, Written, SavePage, FinishRound, EndRound, Tick, PeerMoves, Retire, Crash,
     Arrive, Ended, source, round, page, store, workers
<1> QED
  BY <1>1, <1>2, <1>3, <1>4, <1>5

-----------------------------------------------------------------------------
(* Nothing twice                                                           *)

\* At first nothing is delivered.
LEMMA OnceInit == Init => Once
<1> SUFFICES ASSUME Init, NEW s \in Sinks
             PROVE  /\ ~failed[s] /\ out[s] = <<>> /\ cursor = None /\ disk = None
                    /\ \A l \in Line : accepted[s][l] = 0
  BY DEF Once
<1> QED
  BY DEF Init

\* Every step that is not a fault keeps a worker within what the position vouches for.
LEMMA OnceStep ==
  ASSUME TypeOK, TypeOK', Phases, Phases', Vouching, Paging, Once, [Next]_vars
  PROVE  Once'
<1> USE DEF source, round, page, store, workers
<1>0. faults' = MaxFaults => faults = MaxFaults /\ ~Crash /\ \A r \in Sinks : ~Drop(r)
  <2>1. faults' = faults \/ (faults > 0 /\ faults' = faults - 1)
    BY DEF Next, Poll, vars, Start, BeginRound, FetchFails, FetchPage, SkipRepeated, Dispatch,
       NotWritten, Written, SavePage, FinishRound, EndRound, Tick, PeerMoves, Retire, Crash,
       Arrive, Accept, Drop, Ended
  <2>2. faults \in Int /\ faults <= MaxFaults
    BY DEF TypeOK
  <2>3. Crash \/ (\E r \in Sinks : Drop(r)) => faults' = faults - 1
    BY DEF Crash, Drop
  <2> QED
    BY <2>1, <2>2, <2>3
<1> SUFFICES ASSUME faults' = MaxFaults, NEW s \in Sinks
             PROVE  /\ ~failed'[s]
                    /\ pc' # "page" => out'[s] = <<>>
                    /\ cursor' = None => disk' = None /\ \A l \in Line : accepted'[s][l] = 0
                    /\ cursor' # None =>
                          \A l \in Line : accepted'[s][l] + Count(out'[s], l)
                                             <= Vouched(Position, l)'
  BY Zenon DEF Once
<1>1. /\ ~failed[s]
      /\ pc # "page" => out[s] = <<>>
      /\ cursor = None => disk = None /\ \A l \in Line : accepted[s][l] = 0
      /\ cursor # None =>
            \A l \in Line : accepted[s][l] + Count(out[s], l) <= Vouched(Position, l)
  BY <1>0 DEF Once
<1>2. /\ \A l \in Line : /\ accepted[s][l] \in Nat /\ Count(out[s], l) \in Nat
                         /\ Count(stored, l) \in Nat
      /\ \A c \in Cursor, l \in Line : Vouched(c, l) \in Nat
  <2>1. \A l \in Line : accepted[s][l] \in Nat
    BY DEF TypeOK
  <2>2. out[s] \in Seq(Line) /\ stored \in Seq(Line)
    BY DEF TypeOK
  <2>3. \A l \in Line : Count(out[s], l) \in Nat /\ Count(stored, l) \in Nat
    BY <2>2, CountType
  <2> QED
    BY <2>1, <2>3, VouchedType
<1>3. cursor # None =>
        /\ Position \in Cursor /\ CountsSound(Position) /\ Position # None
        /\ \A l \in Line : accepted[s][l] + Count(out[s], l) <= Vouched(Position, l)
  <2>1. cursor # None => Position \in Positions /\ Position \in Cursor
    BY CursorNotNone DEF Position, Positions, TypeOK, Phases
  <2> QED
    BY <1>1, <2>1, CursorNotNone DEF Vouching
\* A step that leaves what the worker has, and takes the position ahead.
<1>4. ASSUME cursor # None, cursor' # None, stored' = stored, accepted' = accepted, out' = out,
             Position' \in Cursor, Ahead(Position', Position), NEW l \in Line
      PROVE  accepted'[s][l] + Count(out'[s], l) <= Vouched(Position, l)'
  <2>1. \A c \in Cursor : Ahead(c, Position) => Vouched(Position, l) <= Vouched(c, l)
    BY <1>3, <1>4, VouchedGrows
  <2>2. Vouched(Position, l) <= Vouched(Position', l)
    BY <1>4, <2>1
  <2>3. Vouched(Position, l)' = Vouched(Position', l)
    BY <1>4 DEF Vouched
  <2>4. Vouched(Position, l) \in Nat /\ Vouched(Position', l) \in Nat
    BY <1>2, <1>3, <1>4
  <2>5. accepted[s][l] + Count(out[s], l) <= Vouched(Position, l)
    BY <1>3, <1>4
  <2>6. accepted[s][l] \in Nat /\ Count(out[s], l) \in Nat
    BY <1>2
  <2> QED
    BY <1>4, <2>2, <2>3, <2>4, <2>5, <2>6
<1>5. CASE Start
  <2>1. /\ cursor = None /\ pc # "page" /\ pc' = "idle" /\ disk = None /\ cursor' \in Cursor
        /\ failed' = failed /\ out' = out /\ accepted' = accepted /\ stored' = stored
        /\ cursor' # None /\ Position' = cursor'
    BY <1>1, <1>5, CursorNotNone DEF Start, Phases, TypeOK, Position
  <2>2. ASSUME NEW l \in Line
        PROVE  accepted'[s][l] + Count(out'[s], l) <= Vouched(Position, l)'
    <3>1. accepted'[s][l] = 0 /\ out'[s] = <<>>
      BY <1>1, <2>1
    <3>2. Count(out'[s], l) = 0
      BY <3>1, CountEmpty
    <3>3. Vouched(Position, l)' = Vouched(cursor', l)
      BY <2>1 DEF Vouched
    <3>4. Vouched(cursor', l) \in Nat
      BY <1>2, <2>1
    <3> QED
      BY <3>1, <3>2, <3>3, <3>4
  <2> QED
    BY <1>1, <2>1, <2>2
<1>6. CASE Dispatch
  <2>1. /\ pc = "page" /\ Within /\ pc' = pc /\ cursor' = cursor /\ accepted' = accepted
        /\ failed' = failed /\ stored' = stored
        /\ out' = IF Head(todo).hash \in Ignored THEN out
                  ELSE [r \in Sinks |-> Append(out[r], Head(todo))]
    BY <1>6 DEF Dispatch, DispatchWait
  <2>2. /\ cursor \in Cursor /\ next \in Cursor /\ Head(todo) \in Line /\ cursor # None
        /\ Position = next /\ Position' = next'
    BY <2>1, FirstLine, CursorNotNone DEF Position
  <2>3. out[s] \in Seq(Line)
    BY DEF TypeOK
  <2>4. ASSUME NEW l \in Line
        PROVE  accepted'[s][l] + Count(out'[s], l) <= Vouched(Position, l)'
    <3>1. Count(out'[s], l) <= Count(out[s], l) + (IF Head(todo) = l THEN 1 ELSE 0)
      <4>1. CASE Head(todo).hash \in Ignored
        BY <1>2, <2>1, <4>1
      <4>2. CASE Head(todo).hash \notin Ignored
        <5>1. out'[s] = Append(out[s], Head(todo))
          BY <2>1, <4>2
        <5>2. Count(Append(out[s], Head(todo)), l) =
                 Count(out[s], l) + (IF Head(todo) = l THEN 1 ELSE 0)
          BY <2>2, <2>3, CountAppend
        <5> QED
          BY <1>2, <5>1, <5>2
      <4> QED
        BY <4>1, <4>2
    <3>2. /\ l.ts >= Head(todo).ts =>
                Vouched(next, l)' = Vouched(next, l) + (IF Head(todo) = l THEN 1 ELSE 0)
          /\ l.ts < Head(todo).ts => Vouched(next, l)' = Count(stored, l)
      BY <1>6, VouchedAdvances
    <3>3. Vouched(next, l) <= Count(stored, l)
      <4>1. CountsSound(next)
        BY <1>3, <2>2
      <4> QED
        BY <1>2, <4>1 DEF CountsSound, Vouched
    <3>4. accepted[s][l] + Count(out[s], l) <= Vouched(next, l)
      BY <1>3, <2>2
    <3>5. Vouched(Position, l)' = Vouched(next, l)'
      BY <2>2 DEF Vouched
    <3>6. /\ accepted[s][l] \in Nat /\ Count(out[s], l) \in Nat /\ Count(stored, l) \in Nat
          /\ Vouched(next, l) \in Nat
      BY <1>2, <2>2
    <3>7. Count(out'[s], l) \in Nat
      <4>1. out'[s] \in Seq(Line)
        BY DEF TypeOK
      <4> QED
        BY <4>1, CountType
    <3>8. l.ts \in Int /\ Head(todo).ts \in Int
      BY <2>2, LineTs
    <3>9. CASE l.ts >= Head(todo).ts
      BY <2>1, <3>1, <3>2, <3>4, <3>5, <3>6, <3>7, <3>9
    <3>10. CASE l.ts < Head(todo).ts
      <4>1. Head(todo) # l
        BY <3>8, <3>10
      <4> QED
        BY <2>1, <3>1, <3>2, <3>3, <3>4, <3>5, <3>6, <3>7, <3>10, <4>1
    <3> QED
      BY <3>8, <3>9, <3>10
  <2> QED
    BY <1>1, <2>1, <2>2, <2>4
<1>7. CASE Written
  <2>1. /\ pc = "page" /\ out[s] = <<>> /\ pc' # "page" /\ next' = None
        /\ stored' = stored /\ accepted' = accepted /\ out' = out /\ failed' = failed
        /\ cursor' = IF Stuck THEN At(next.ts + 1) ELSE next
    BY <1>7 DEF Written, Settled, NoPage
  <2>2. /\ cursor \in Cursor /\ next \in Cursor /\ cursor # None
        /\ Position = next /\ Position' = cursor' /\ next.ts \in Int
    BY <2>1, CursorNotNone DEF TypeOK, Phases, Position
  <2>3. cursor' \in Cursor /\ cursor' # None /\ Ahead(cursor', next)
    <3>1. At(next.ts + 1) \in Cursor /\ At(next.ts + 1).ts = next.ts + 1
      BY <2>2, AtCursor
    <3>2. Ahead(At(next.ts + 1), next)
      BY <2>2, <3>1 DEF Ahead
    <3> QED
      BY <2>1, <2>2, <3>1, <3>2, AheadSelf, CursorNotNone
  <2> QED
    BY <1>1, <1>4, <2>1, <2>2, <2>3
<1>8. CASE BeginRound \/ FinishRound
  <2>1. /\ pc # "page" /\ pc' # "page" /\ cursor # None
        /\ stored' = stored /\ accepted' = accepted /\ out' = out /\ failed' = failed
    BY <1>8 DEF BeginRound, FinishRound, Phases
  <2>2. cursor' \in Cursor /\ cursor' # None /\ Ahead(cursor', cursor)
    <3>1. pc' # "off"
      BY <1>8 DEF BeginRound, FinishRound
    <3>2. cursor' # None
      BY <3>1 DEF Phases
    <3>3. cursor' \in Cursor
      BY <3>2 DEF TypeOK
    <3> QED
      BY <2>1, <3>2, <3>3, CursorMoves
  <2>3. Position' = cursor' /\ Position = cursor
    BY <2>1 DEF Position
  <2> QED
    BY <1>1, <1>4, <2>1, <2>2, <2>3
<1>9. CASE FetchPage
  <2>1. /\ pc = "fetch" /\ pc' = "page" /\ next' = cursor /\ cursor' = cursor
        /\ stored' = stored /\ accepted' = accepted /\ out' = out
        /\ failed' = [r \in Sinks |-> FALSE]
    BY <1>9 DEF FetchPage, TakeMarks
  <2>2. cursor # None /\ Position' = cursor /\ Position = cursor
    BY <2>1 DEF Phases, Position
  <2>3. cursor \in Cursor /\ Ahead(cursor, cursor)
    BY <2>2, AheadSelf DEF TypeOK
  <2> QED
    BY <1>1, <1>4, <2>1, <2>2, <2>3
<1>10. ASSUME NEW r \in Sinks, Accept(r)
       PROVE  /\ ~failed'[s]
              /\ pc' # "page" => out'[s] = <<>>
              /\ cursor' = None => disk' = None /\ \A l \in Line : accepted'[s][l] = 0
              /\ cursor' # None =>
                    \A l \in Line : accepted'[s][l] + Count(out'[s], l)
                                       <= Vouched(Position, l)'
  <2>1. PICK n \in 1..Len(out[r]) :
          /\ accepted' = [accepted EXCEPT ![r] =
                [k \in Line |-> @[k] + Count(SubSeq(out[r], 1, n), k)]]
          /\ out' = [out EXCEPT ![r] = SubSeq(@, n + 1, Len(@))]
    BY <1>10 DEF Accept
  <2>2. UNCHANGED <<pc, cursor, disk, next, stored, failed>>
    BY <1>10 DEF Accept
  <2>3. out[r] \in Seq(Line) /\ Len(out[r]) \in Nat
    BY DEF TypeOK
  <2>4. pc = "page"
    <3>1. out[r] # <<>>
      BY <2>1, <2>3
    <3> QED
      BY <1>0, <3>1 DEF Once
  <2>5. cursor # None /\ cursor' # None
    BY <2>2, <2>4 DEF Phases
  <2>6. Position' = Position
    BY <2>2 DEF Position
  <2>7. ASSUME NEW l \in Line
        PROVE  accepted'[s][l] + Count(out'[s], l) = accepted[s][l] + Count(out[s], l)
    <3>1. CASE s = r
      <4>1. accepted'[s][l] = accepted[s][l] + Count(SubSeq(out[s], 1, n), l)
        BY <2>1, <3>1 DEF TypeOK
      <4>2. out'[s] = SubSeq(out[s], n + 1, Len(out[s]))
        BY <2>1, <3>1 DEF TypeOK
      <4>3. n \in 0..Len(out[s]) /\ out[s] \in Seq(Line)
        BY <2>3, <3>1
      <4>4. Count(out[s], l) = Count(SubSeq(out[s], 1, n), l)
                                 + Count(SubSeq(out[s], n + 1, Len(out[s])), l)
        BY <4>3, CountSplit
      <4>5. /\ SubSeq(out[s], 1, n) \in Seq(Line)
            /\ SubSeq(out[s], n + 1, Len(out[s])) \in Seq(Line)
        BY <4>3, SubSeqType
      <4>6. /\ Count(SubSeq(out[s], 1, n), l) \in Nat
            /\ Count(SubSeq(out[s], n + 1, Len(out[s])), l) \in Nat
        BY <4>5, CountType
      <4>7. Count(out'[s], l) = Count(SubSeq(out[s], n + 1, Len(out[s])), l)
        BY <4>2, Zenon
      <4>8. accepted[s][l] \in Nat
        BY <1>2
      <4> QED
        BY <4>1, <4>4, <4>6, <4>7, <4>8
    <3>2. CASE s # r
      <4>1. out'[s] = out[s]
        BY <2>1, <3>2 DEF TypeOK
      <4>2. accepted'[s] = accepted[s]
        <5> DEFINE more == [k \in Line |-> accepted[r][k] + Count(SubSeq(out[r], 1, n), k)]
        <5>1. accepted' = [accepted EXCEPT ![r] = more]
          BY <2>1
        <5> HIDE DEF more
        <5> QED
          BY <5>1, <3>2 DEF TypeOK
      <4> QED
        BY <4>1, <4>2
    <3> QED
      BY <3>1, <3>2
  <2>8. ASSUME NEW l \in Line
        PROVE  accepted'[s][l] + Count(out'[s], l) <= Vouched(Position, l)'
    <3>1. Vouched(Position, l)' = Vouched(Position, l)
      BY <2>2, <2>6 DEF Vouched
    <3>2. accepted[s][l] + Count(out[s], l) <= Vouched(Position, l)
      BY <1>3, <2>5
    <3> QED
      BY <2>7, <3>1, <3>2
  <2> QED
    BY <1>1, <2>2, <2>4, <2>5, <2>8
<1>11. ASSUME NEW k \in Line, Arrive(k)
       PROVE  /\ ~failed'[s]
              /\ pc' # "page" => out'[s] = <<>>
              /\ cursor' = None => disk' = None /\ \A l \in Line : accepted'[s][l] = 0
              /\ cursor' # None =>
                    \A l \in Line : accepted'[s][l] + Count(out'[s], l)
                                       <= Vouched(Position, l)'
  <2>1. UNCHANGED <<pc, cursor, disk, next, out, accepted, failed>>
    BY <1>11 DEF Arrive
  <2>2. Position' = Position
    BY <2>1 DEF Position
  <2>3. ASSUME NEW l \in Line, cursor # None
        PROVE  accepted'[s][l] + Count(out'[s], l) <= Vouched(Position, l)'
    <3>1. Count(stored, l) <= Count(stored', l) /\ Count(stored', l) \in Nat
      BY Grows
    <3>2. Vouched(Position, l)' = IF l.ts < Position.ts THEN Count(stored', l)
                                  ELSE IF l.ts = Position.ts THEN Position.seen[l.hash] ELSE 0
      BY <2>2 DEF Vouched
    <3>3. Vouched(Position, l) = IF l.ts < Position.ts THEN Count(stored, l)
                                 ELSE IF l.ts = Position.ts THEN Position.seen[l.hash] ELSE 0
      BY DEF Vouched
    <3>4. accepted[s][l] + Count(out[s], l) <= Vouched(Position, l)
      BY <1>3, <2>3
    <3>5. Vouched(Position, l) \in Nat /\ accepted[s][l] \in Nat /\ Count(out[s], l) \in Nat
      BY <1>2, <1>3, <2>3
    <3>6. Vouched(Position, l) <= Vouched(Position, l)' /\ Vouched(Position, l)' \in Nat
      <4>1. CASE l.ts < Position.ts
        BY <3>1, <3>2, <3>3, <4>1
      <4>2. CASE ~(l.ts < Position.ts)
        BY <3>2, <3>3, <3>5, <4>2
      <4> QED
        BY <4>1, <4>2
    <3> QED
      BY <2>1, <3>4, <3>5, <3>6
  <2> QED
    BY <1>1, <2>1, <2>3
<1>12. CASE UNCHANGED <<cursor, next, stored, out, accepted, failed>>
            /\ (pc' = "page" <=> pc = "page") /\ (disk' = disk \/ disk' = None \/ cursor # None)
  <2>1. Position' = Position
    BY <1>12 DEF Position
  <2>2. \A l \in Line : Vouched(Position, l)' = Vouched(Position, l)
    BY <1>12, <2>1 DEF Vouched
  <2>3. \A l \in Line : cursor # None =>
            accepted[s][l] + Count(out[s], l) <= Vouched(Position, l)
    BY <1>3
  <2> QED
    BY <1>1, <1>12, <2>2, <2>3
<1>13. ~NotWritten
  BY <1>0 DEF NotWritten, Once
<1>14. ASSUME FetchFails \/ SkipRepeated \/ SavePage \/ EndRound \/ Tick \/ PeerMoves \/ Retire
              \/ Ended \/ UNCHANGED vars
       PROVE  UNCHANGED <<cursor, next, stored, out, accepted, failed>>
              /\ (pc' = "page" <=> pc = "page") /\ (disk' = disk \/ disk' = None \/ cursor # None)
  BY <1>14 DEF FetchFails, SkipRepeated, SavePage, EndRound, Tick, PeerMoves, Retire, Ended,
     vars, Phases
<1> QED
  BY <1>0, <1>5, <1>6, <1>7, <1>8, <1>9, <1>10, <1>11, <1>12, <1>13, <1>14 DEF Next, Poll

-----------------------------------------------------------------------------
(* The theorems                                                            *)

\* What holds in every reachable state, whatever fails: the invariant that the
\* properties below follow from.
Inductive == TypeOK /\ Phases /\ Vouching /\ Paging /\ Once

\* The invariant is inductive: it holds at first, and every step of the poller
\* (poll.go), of Railway, of a worker and every crash keeps it.
THEOREM Invariance == Spec => []Inductive
<1>1. Init => Inductive
  <2>1. Init => Paging
    BY DEF Init, Paging
  <2> QED
    BY <2>1, TypeInit, VouchingInit, OnceInit DEF Inductive
<1>2. Inductive /\ [Next]_vars => Inductive'
  <2> SUFFICES ASSUME Inductive, [Next]_vars PROVE Inductive'
    OBVIOUS
  <2>1. TypeOK /\ Phases /\ Vouching /\ Paging /\ Once
    BY DEF Inductive
  <2>2. TypeOK' /\ Phases'
    BY <2>1, TypeStep
  <2>3. Vouching'
    BY <2>1, <2>2, VouchingStep
  <2>4. Paging'
    BY <2>1, <2>2, PagingStep
  <2>5. Once'
    BY <2>1, <2>2, OnceStep
  <2> QED
    BY <2>2, <2>3, <2>4, <2>5 DEF Inductive
<1> QED
  BY <1>1, <1>2, PTL DEF Spec

\* Every variable keeps its type: the poller's handlers (poll.go) never leave
\* the states that the model lists.
THEOREM TypeCorrect == Spec => []TypeOK
<1>1. Inductive => TypeOK
  BY DEF Inductive
<1> QED
  BY <1>1, Invariance, PTL

\* A page that starts where the last one ended repeats lines (poll.go:310-325),
\* and identical lines are told apart only by how many there are: still no sink
\* gets a line more often than the source logged it, however many lines share a
\* timestamp, while no batch is dropped and the process does not die.
THEOREM NothingTwice == Spec => []NoDuplicates
<1>1. Inductive => NoDuplicates
  <2> SUFFICES ASSUME Inductive, faults = MaxFaults, NEW s \in Sinks, NEW l \in Line
               PROVE  accepted[s][l] + Count(out[s], l) <= Count(stored, l)
    BY Zenon DEF NoDuplicates
  <2>1. TypeOK /\ Phases /\ Vouching /\ Once
    BY DEF Inductive
  <2>2. Count(stored, l) \in Nat /\ Count(out[s], l) \in Nat /\ accepted[s][l] \in Nat
    <3>1. out[s] \in Seq(Line) /\ stored \in Seq(Line) /\ accepted[s][l] \in Nat
      BY <2>1 DEF TypeOK
    <3> QED
      BY <3>1, CountType
  <2>3. CASE cursor = None
    <3>1. accepted[s][l] = 0 /\ out[s] = <<>>
      BY <2>1, <2>3 DEF Once, Phases
    <3>2. Count(out[s], l) = 0
      BY <3>1, CountEmpty
    <3> QED
      BY <2>2, <3>1, <3>2
  <2>4. CASE cursor # None
    <3>1. accepted[s][l] + Count(out[s], l) <= Vouched(Position, l)
      BY <2>1, <2>4 DEF Once
    <3>2. Position \in Positions /\ Position \in Cursor
      BY <2>1, <2>4, CursorNotNone DEF Position, Positions, TypeOK, Phases
    <3>3. CountsSound(Position)
      BY <2>1, <3>2 DEF Vouching
    <3>4. Vouched(Position, l) <= Count(stored, l)
      BY <2>2, <3>3 DEF CountsSound, Vouched
    <3>5. Vouched(Position, l) \in Nat
      BY <2>1, <3>2, VouchedType
    <3> QED
      BY <2>2, <3>1, <3>4, <3>5
  <2> QED
    BY <2>3, <2>4
<1> QED
  BY <1>1, Invariance, PTL

\* Neither the cursor of the running poller nor the one in the file moves back
\* (poll.go:270-285, 338-364), whatever fails and however often the
\* process dies between a move and the save of it.
THEOREM NeverBack == Spec => CursorNeverBack
<1>1. Inductive /\ Inductive' /\ [Next]_vars =>
        /\ (cursor # None /\ cursor' # None) => Ahead(cursor', cursor)
        /\ (disk # None /\ disk' # None) => Ahead(disk', disk)
  <2> SUFFICES ASSUME Inductive, Inductive', [Next]_vars
               PROVE  /\ (cursor # None /\ cursor' # None) => Ahead(cursor', cursor)
                      /\ (disk # None /\ disk' # None) => Ahead(disk', disk)
    OBVIOUS
  <2>1. TypeOK /\ Phases /\ Vouching /\ Paging /\ TypeOK' /\ Phases'
    BY DEF Inductive
  <2>2. /\ cursor # None /\ cursor' # None => Ahead(cursor', cursor)
        /\ disk' # None => disk' = disk \/ (cursor # None /\ disk' = cursor')
    BY <2>1, CursorMoves
  <2>3. ASSUME disk # None, disk' # None
        PROVE  Ahead(disk', disk)
    <3>1. disk \in Cursor /\ disk' \in Cursor
      BY <2>1, <2>3 DEF TypeOK
    <3>2. CASE disk' = disk
      BY <3>1, <3>2, AheadSelf
    <3>3. CASE cursor # None /\ disk' = cursor'
      <4>1. cursor \in Cursor /\ cursor' \in Cursor /\ cursor' # None
        BY <2>1, <2>3, <3>3 DEF TypeOK
      <4>2. Ahead(cursor', cursor) /\ Ahead(cursor, disk)
        BY <2>1, <2>2, <2>3, <3>3, <4>1 DEF Vouching
      <4> QED
        BY <3>1, <3>3, <4>1, <4>2, AheadAgain
    <3> QED
      BY <2>2, <2>3, <3>2, <3>3
  <2> QED
    BY <2>2, <2>3
<1>2. Inductive /\ Inductive' /\ [Next]_vars =>
        [/\ (cursor # None /\ cursor' # None) => Ahead(cursor', cursor)
         /\ (disk # None /\ disk' # None) => Ahead(disk', disk)]_vars
  BY <1>1
<1> QED
  BY <1>2, Invariance, PTL DEF Spec, CursorNeverBack

\* If every timestamp parses, delivery is complete: what a page leaves out, no
\* cursor passes.
LEMMA DeliveryInvariance ==
  ASSUME Garbled = {}
  PROVE  Spec => [](Inductive /\ Complete /\ Delivered)
<1> DEFINE Inv == Inductive /\ Complete /\ Delivered
<1>1. Init => Complete /\ Delivered
  BY DeliveredInit
<1>2. Inductive /\ Inductive' /\ Complete /\ Delivered /\ [Next]_vars => Complete' /\ Delivered'
  <2> SUFFICES ASSUME Inductive, Inductive', Complete, Delivered, [Next]_vars
               PROVE  Complete' /\ Delivered'
    OBVIOUS
  <2>1. TypeOK /\ Phases /\ Vouching /\ Paging /\ TypeOK' /\ Phases'
    BY DEF Inductive
  <2>2. Complete'
    BY <2>1, CompleteStep
  <2>3. NothingLost'
    BY <2>1, NothingLostStep
  <2>4. PageDelivered'
    BY <2>1, PageDeliveredStep
  <2>5. RoundDelivered'
    BY <2>1, RoundDeliveredStep
  <2> QED
    BY <2>2, <2>3, <2>4, <2>5 DEF Delivered
<1> QED
  BY <1>1, <1>2, Invariance, PTL DEF Spec

\* No line that a cursor has passed is missing from a sink, for the cursor of
\* the running poller, the one in memory and the one in the file (cursor.go:15-18),
\* for any number of sinks, lines, dropped batches and crashes: but for the gaps
\* that are logged, and if the source's timestamps parse.  Without that a page
\* can look shorter than it was, and end a round early (poll.go:121-126, 336-342).
THEOREM NothingIsLost == Garbled = {} => (Spec => []NothingLost)
<1> SUFFICES ASSUME Garbled = {} PROVE Spec => []NothingLost
  OBVIOUS
<1>1. Delivered => NothingLost
  BY DEF Delivered
<1> QED
  BY <1>1, DeliveryInvariance, PTL

\* A retired poller that stops has delivered all its deployment logged before
\* the handover (poll.go:241-249, README.md:272), under the same condition.
THEOREM DrainsBeforeGone == Garbled = {} => (Spec => []DrainedBeforeGone)
<1> SUFFICES ASSUME Garbled = {} PROVE Spec => []DrainedBeforeGone
  OBVIOUS
<1>1. Inductive /\ Delivered => DrainedBeforeGone
  <2> SUFFICES ASSUME Inductive, Delivered, pc = "gone", NEW s \in Sinks, NEW l \in Wanted,
                      l.ts < retireAt
               PROVE  accepted[s][l] >= Count(stored, l)
    BY Zenon DEF DrainedBeforeGone
  <2>1. cursor \in Cursor /\ cursor # None /\ retireAt \in Int /\ cursor.ts >= retireAt
    BY CursorNotNone DEF Inductive, TypeOK, Phases
  <2>2. accepted[s][l] >= Vouched(cursor, l)
    BY <2>1 DEF Delivered, NothingLost
  <2>3. l.ts < cursor.ts
    <3>1. cursor.ts \in Int /\ l.ts \in Int
      BY <2>1, CursorNotNone, LineTs DEF Wanted
    <3> QED
      BY <2>1, <3>1
  <2> QED
    BY <2>2, <2>3 DEF Vouched
<1> QED
  BY <1>1, DeliveryInvariance, PTL

-----------------------------------------------------------------------------
(* The poller implements LogDrain.                                         *)

\* The mapped variables: the source's log, the kinds that are given up, what the
\* running poller's cursor counts, and what the file's does.
Logs == [l \in Line |-> Count(stored, l)]
GivenUp == {l \in Line : l.ts \in skipped}
Scoped == {l \in Line : l.hash \notin Ignored \cup Garbled}
Here == Counted(cursor)
There == Counted(disk)
DueLines == {l \in Line : retireAt # None /\ l.ts < retireAt}

\* Nothing is invented: what is in a page or in a worker's queue has been logged,
\* and a worker gets only what is in scope.
Logged ==
    /\ \A l \in Line : Count(todo, l) > 0 => Count(stored, l) > 0
    /\ \A s \in Sinks : \A l \in Line :
          Count(out[s], l) > 0 => l.hash \notin Ignored /\ Count(stored, l) > 0

\* At the start nothing has been logged.
LEMMA LoggedInit == Init => Logged
  BY CountEmpty DEF Init, Logged

\* Every step keeps that nothing is invented.
LEMMA LoggedStep ==
  ASSUME TypeOK, TypeOK', Phases, Vouching, Paging, Logged, [Next]_vars
  PROVE  Logged'
<1> USE DEF source, round, page, store, workers, NoPage
<1>0. \A l \in Line : /\ Count(stored, l) \in Nat /\ Count(stored', l) \in Nat
                      /\ Count(stored, l) <= Count(stored', l)
  BY Grows
<1>1. ASSUME todo' = todo \/ todo' = <<>>, out' = out \/ out' = [s \in Sinks |-> <<>>]
      PROVE  Logged'
  BY <1>0, <1>1, CountEmpty DEF Logged
<1>2. CASE FetchPage
  <2>1. stored' = stored /\ out' = out /\ cursor \in Cursor /\ cursor.ts \in Int
    BY <1>2, CursorNotNone DEF FetchPage, TakeMarks, Phases, TypeOK
  <2>2. PICK limit \in {PageSize, PageSize + 1} : todo' = Parsed(History(cursor.ts, limit))
    BY <1>2 DEF FetchPage
  <2>3. stored \in Seq(Line) /\ Sorted(stored) /\ limit \in Nat
    <3>1. stored \in Seq(Line) /\ Sorted(stored)
      BY DEF TypeOK, Vouching
    <3> QED
      BY <3>1
  <2>4. \A l \in Line : Count(todo', l) <= Count(stored, l)
    BY <2>1, <2>2, <2>3, PageLines
  <2>5. \A l \in Line : Count(todo', l) \in Nat
    <3>1. todo' \in Seq(Line)
      BY DEF TypeOK
    <3> QED
      BY <3>1, CountType
  <2> QED
    BY <1>0, <2>1, <2>4, <2>5 DEF Logged
<1>3. CASE SkipRepeated \/ Dispatch
  <2>1. pc = "page" /\ Within /\ todo' = Tail(todo) /\ stored' = stored /\ todo # <<>>
    BY <1>3 DEF SkipRepeated, Dispatch, Within
  <2>2. /\ Head(todo) \in Line
        /\ \A l \in Line : /\ Count(todo, l) \in Nat /\ Count(Tail(todo), l) \in Nat
                           /\ Count(todo, l) = (IF Head(todo) = l THEN 1 ELSE 0)
                                                 + Count(Tail(todo), l)
    BY <2>1, FirstLine
  <2>3. \A l \in Line : Count(todo', l) > 0 => Count(stored', l) > 0
    BY <2>1, <2>2 DEF Logged
  <2>4. out' = out \/ /\ Head(todo).hash \notin Ignored
                      /\ out' = [s \in Sinks |-> Append(out[s], Head(todo))]
    BY <1>3 DEF SkipRepeated, Dispatch, DispatchWait
  <2>5. ASSUME NEW s \in Sinks, NEW l \in Line, Count(out'[s], l) > 0
        PROVE  l.hash \notin Ignored /\ Count(stored', l) > 0
    <3>1. CASE out' = out
      BY <2>1, <2>5, <3>1 DEF Logged
    <3>2. CASE /\ Head(todo).hash \notin Ignored
               /\ out' = [r \in Sinks |-> Append(out[r], Head(todo))]
      <4>1. out[s] \in Seq(Line) /\ out'[s] = Append(out[s], Head(todo))
        BY <3>2 DEF TypeOK
      <4>2. /\ Count(out'[s], l) = Count(out[s], l) + (IF Head(todo) = l THEN 1 ELSE 0)
            /\ Count(out[s], l) \in Nat
        <5>1. Count(out[s], l) \in Nat
          BY <4>1, CountType, Zenon
        <5>2. Count(Append(out[s], Head(todo)), l) =
                Count(out[s], l) + (IF Head(todo) = l THEN 1 ELSE 0)
          <6>1. Head(todo) \in Line /\ out[s] \in Seq(Line)
            BY <2>2, <4>1, Zenon
          <6> QED
            BY <6>1, CountAppend
        <5> QED
          <6>1. Count(out'[s], l) = Count(Append(out[s], Head(todo)), l)
            BY <4>1, Zenon
          <6> QED
            BY <5>1, <5>2, <6>1, Zenon
      <4>3. CASE Head(todo) = l
        BY <2>1, <2>2, <3>2, <4>3 DEF Logged
      <4>4. CASE Head(todo) # l
        <5>1. Count(out[s], l) > 0
          BY <2>5, <4>2, <4>4
        <5> QED
          BY <2>1, <5>1 DEF Logged
      <4> QED
        BY <4>3, <4>4
    <3> QED
      BY <2>4, <3>1, <3>2
  <2> QED
    BY <2>3, <2>5 DEF Logged
<1>4. ASSUME NEW r \in Sinks, Accept(r) \/ Drop(r)
      PROVE  Logged'
  <2>1. todo' = todo /\ stored' = stored
    BY <1>4 DEF Accept, Drop
  <2>2. ASSUME NEW s \in Sinks, NEW l \in Line, Count(out'[s], l) > 0
        PROVE  Count(out[s], l) > 0
    <3>0. out[s] \in Seq(Line) /\ Len(out[s]) \in Nat
      BY DEF TypeOK
    <3>1. PICK n \in 0..Len(out[s]) :
            out'[s] = out[s] \/ out'[s] = SubSeq(out[s], n + 1, Len(out[s]))
      <4>1. PICK n \in 0..Len(out[r]) :
              out' = [out EXCEPT ![r] = SubSeq(@, n + 1, Len(@))]
        <5>1. Len(out[r]) \in Nat
          BY DEF TypeOK
        <5> QED
          BY <1>4, <5>1 DEF Accept, Drop
      <4>2. CASE s = r
        BY <4>1, <4>2 DEF TypeOK
      <4>3. CASE s # r
        <5>1. out'[s] = out[s]
          BY <4>1, <4>3 DEF TypeOK
        <5> QED
          BY <3>0, <5>1
      <4> QED
        BY <4>2, <4>3
    <3>2. /\ SubSeq(out[s], 1, n) \in Seq(Line)
          /\ SubSeq(out[s], n + 1, Len(out[s])) \in Seq(Line)
      BY <3>0, SubSeqType
    <3>3. /\ Count(SubSeq(out[s], 1, n), l) \in Nat
          /\ Count(SubSeq(out[s], n + 1, Len(out[s])), l) \in Nat
      BY <3>2, CountType
    <3>4. Count(out[s], l) = Count(SubSeq(out[s], 1, n), l)
                               + Count(SubSeq(out[s], n + 1, Len(out[s])), l)
      BY <3>0, CountSplit
    <3>5. CASE out'[s] = out[s]
      BY <2>2, <3>5, Zenon
    <3>6. CASE out'[s] = SubSeq(out[s], n + 1, Len(out[s]))
      <4>1. Count(SubSeq(out[s], n + 1, Len(out[s])), l) > 0
        BY <2>2, <3>6, Zenon
      <4> QED
        BY <3>3, <3>4, <4>1
    <3> QED
      BY <3>1, <3>5, <3>6, Zenon
  <2> QED
    <3>1. \A s \in Sinks : \A l \in Line :
            Count(out'[s], l) > 0 => l.hash \notin Ignored /\ Count(stored', l) > 0
      BY <2>1, <2>2, Zenon DEF Logged
    <3>2. \A l \in Line : Count(todo', l) > 0 => Count(stored', l) > 0
      BY <2>1, Zenon DEF Logged
    <3> QED
      BY <3>1, <3>2, Zenon DEF Logged
<1>5. \/ FetchPage \/ SkipRepeated \/ Dispatch \/ \E r \in Sinks : Accept(r) \/ Drop(r)
      \/ /\ todo' = todo \/ todo' = <<>>
         /\ out' = out \/ out' = [s \in Sinks |-> <<>>]
  BY DEF Next, Poll, vars, Start, BeginRound, FetchFails, NotWritten, Written, SavePage,
     FinishRound, EndRound, Tick, PeerMoves, Retire, Crash, Arrive, Ended
<1> QED
  BY <1>1, <1>2, <1>3, <1>4, <1>5

\* What a position counts.
CountedRight ==
    /\ cursor = None => Here = None
    /\ cursor # None =>
          /\ Here \in [Line -> Nat] /\ Here # None
          /\ \A l \in Line : Here[l] = IF l \in Wanted THEN Vouched(cursor, l) ELSE 0
    /\ disk = None => There = None
    /\ disk # None =>
          /\ There \in [Line -> Nat] /\ There # None
          /\ \A l \in Line : There[l] = IF l \in Wanted THEN Vouched(disk, l) ELSE 0

\* The refinement's positions are functions, so they differ from None.
LEMMA CountedIs == TypeOK => CountedRight
<1> SUFFICES ASSUME TypeOK PROVE CountedRight
  OBVIOUS
<1>1. ASSUME NEW c \in Cursor
      PROVE  /\ Counted(c) \in [Line -> Nat] /\ Counted(c) # None
             /\ \A l \in Line : Counted(c)[l] = IF l \in Wanted THEN Vouched(c, l) ELSE 0
  <2>1. c # None /\ \A l \in Line : Vouched(c, l) \in Nat
    BY CursorNotNone, VouchedType
  <2>2. Counted(c) = [l \in Line |-> IF l \in Wanted THEN Vouched(c, l) ELSE 0]
    BY <2>1 DEF Counted
  <2>3. Counted(c) \in [Line -> Nat]
    BY <2>1, <2>2
  <2> QED
    BY <2>2, <2>3, NoneCountsAssumption
<1>2. /\ cursor # None => cursor \in Cursor
      /\ disk # None => disk \in Cursor
  BY DEF TypeOK
<1>3. Counted(None) = None
  BY DEF Counted
<1> QED
  BY <1>1, <1>2, <1>3 DEF CountedRight, Here, There

\* The running position counts no more than is there and than every sink took.
CountedCovered ==
    cursor # None => \A l \in Line : /\ Here[l] <= Count(stored, l)
                                     /\ \A s \in Sinks : accepted[s][l] >= Here[l]

\* That no line is lost makes every position one that all sinks have reached.
LEMMA CountedSound == TypeOK /\ Vouching /\ NothingLost => CountedCovered
<1> SUFFICES ASSUME TypeOK, Vouching, NothingLost, cursor # None, NEW l \in Line
             PROVE  /\ Here[l] <= Count(stored, l)
                    /\ \A s \in Sinks : accepted[s][l] >= Here[l]
  BY DEF CountedCovered
<1>1. Here[l] = IF l \in Wanted THEN Vouched(cursor, l) ELSE 0
  BY CountedIs DEF CountedRight
<1>2. stored \in Seq(Line) /\ \A s \in Sinks : accepted[s][l] \in Nat
  BY DEF TypeOK
<1>3. Count(stored, l) \in Nat
  BY <1>2, CountType
<1>4. CountsSound(cursor)
  BY DEF Vouching, Positions
<1>5. Vouched(cursor, l) <= Count(stored, l)
  BY <1>3, <1>4 DEF CountsSound, Vouched
<1>6. l \in Wanted => \A s \in Sinks : accepted[s][l] >= Vouched(cursor, l)
  BY DEF NothingLost
<1> QED
  BY <1>1, <1>2, <1>3, <1>5, <1>6

\* A step that leaves a cursor where it is leaves what it counts as it was, but
\* for the lines that are given up.
LEMMA CountedStays ==
  ASSUME TypeOK, TypeOK', Vouching, [Next]_vars
  PROVE  /\ cursor' = cursor => Here' = Drain!Only(Here, Scoped \ GivenUp')
         /\ disk' = disk => There' = Drain!Only(There, Scoped \ GivenUp')
         /\ skipped' = skipped /\ cursor' = cursor => Here' = Here
         /\ skipped' = skipped /\ disk' = disk => There' = There
<1>0. Wanted' = Scoped \ GivenUp' /\ Wanted = Scoped \ GivenUp /\ skipped \subseteq skipped'
  BY Grows DEF Wanted, Scoped, GivenUp
<1>1. ASSUME NEW c \in Cursor, SettledBehind(c), NEW l \in Wanted'
      PROVE  Vouched(c, l)' = Vouched(c, l) /\ l \in Wanted /\ l \in Line
  <2>1. l \in Line /\ l.ts \notin skipped' /\ l \in Wanted
    BY <1>0 DEF Wanted
  <2> QED
    BY <1>1, <2>1, VouchedStays
<1>2. ASSUME cursor' = cursor, cursor # None
      PROVE  Here' = [l \in Line |-> IF l \in Wanted' THEN Here[l] ELSE 0]
  <2>1. PICK c \in Cursor : c = cursor
    BY <1>2 DEF TypeOK
  <2>2. SettledBehind(c)
    BY <1>2, <2>1 DEF Vouching, Positions
  <2>3. Here' = [l \in Line |-> IF l \in Wanted' THEN Vouched(c, l)' ELSE 0]
    BY <1>2, <2>1 DEF Here, Counted
  <2>4. \A l \in Line : Here[l] = IF l \in Wanted THEN Vouched(c, l) ELSE 0
    BY <1>2, <2>1, CountedIs DEF CountedRight
  <2> QED
    BY <1>1, <2>2, <2>3, <2>4
<1>3. ASSUME disk' = disk, disk # None
      PROVE  There' = [l \in Line |-> IF l \in Wanted' THEN There[l] ELSE 0]
  <2>1. PICK c \in Cursor : c = disk
    BY <1>3 DEF TypeOK
  <2>2. SettledBehind(c)
    BY <1>3, <2>1 DEF Vouching, Positions
  <2>3. There' = [l \in Line |-> IF l \in Wanted' THEN Vouched(c, l)' ELSE 0]
    BY <1>3, <2>1 DEF There, Counted
  <2>4. \A l \in Line : There[l] = IF l \in Wanted THEN Vouched(c, l) ELSE 0
    BY <1>3, <2>1, CountedIs DEF CountedRight
  <2> QED
    BY <1>1, <2>2, <2>3, <2>4
<1>4. /\ cursor = None => Here = None /\ (cursor' = cursor => Here' = None)
      /\ disk = None => There = None /\ (disk' = disk => There' = None)
  BY DEF Here, There, Counted
<1>5. /\ cursor # None => Here # None /\ Here \in [Line -> Nat]
      /\ disk # None => There # None /\ There \in [Line -> Nat]
  BY CountedIs DEF CountedRight
<1>6. /\ cursor' = cursor => Here' = Drain!Only(Here, Scoped \ GivenUp')
      /\ disk' = disk => There' = Drain!Only(There, Scoped \ GivenUp')
  BY <1>0, <1>2, <1>3, <1>4, <1>5 DEF Drain!Only
<1>7. ASSUME skipped' = skipped
      PROVE  /\ cursor' = cursor => Here' = Here
             /\ disk' = disk => There' = There
  <2>1. Wanted' = Wanted
    BY <1>7 DEF Wanted
  <2>2. cursor # None => \A l \in Line \ Wanted : Here[l] = 0
    BY CountedIs DEF CountedRight
  <2>3. disk # None => \A l \in Line \ Wanted : There[l] = 0
    BY CountedIs DEF CountedRight
  <2>4. ASSUME cursor' = cursor, cursor # None
        PROVE  Here' = Here
    BY <1>2, <1>5, <2>1, <2>2, <2>4
  <2>5. ASSUME disk' = disk, disk # None
        PROVE  There' = There
    BY <1>3, <1>5, <2>1, <2>3, <2>5
  <2> QED
    BY <1>4, <2>4, <2>5
<1> QED
  BY <1>6, <1>7

\* What the steps below rest on, before and after the step.
Sound == TypeOK /\ Phases /\ Vouching /\ Paging /\ Logged /\ NothingLost

\* A step that changes none of the mapped variables is a stutter of LogDrain.
LEMMA DrainStutter ==
  ASSUME stored' = stored, skipped' = skipped, accepted' = accepted, Here' = Here,
         There' = There, retireAt' = retireAt, pc' = "gone" <=> pc = "gone"
  PROVE  UNCHANGED Drain!vars
BY DEF Drain!vars, Here, There

\* A step that leaves the cursors alone and gives nothing up is one.
LEMMA DrainIdle ==
  ASSUME Sound, Sound', [Next]_vars,
         UNCHANGED <<stored, skipped, accepted, cursor, disk, retireAt>>,
         pc' = "gone" <=> pc = "gone"
  PROVE  UNCHANGED Drain!vars
<1>1. Here' = Here /\ There' = There
  BY CountedStays DEF Sound
<1> QED
  BY <1>1, DrainStutter

\* A cursor that moves on what was delivered, and may be saved.
LEMMA DrainMove ==
  ASSUME Sound, Sound', [Next]_vars, cursor # None, cursor' # None,
         UNCHANGED <<stored, skipped, accepted, retireAt>>, pc # "gone", pc' # "gone",
         disk' = disk \/ disk' = cursor' \/ disk' = None
  PROVE  Drain!Move
<1>0. TypeOK /\ TypeOK' /\ Vouching /\ Vouching' /\ NothingLost'
  BY DEF Sound
<1>1. /\ Here # None /\ Here \in [Line -> Nat]
      /\ \A l \in Line : Here[l] = IF l \in Wanted THEN Vouched(cursor, l) ELSE 0
  BY <1>0, CountedIs DEF CountedRight
<1>2. /\ Here' # None
      /\ \A l \in Line : Here'[l] = IF l \in Wanted' THEN Vouched(cursor, l)' ELSE 0
  <2>1. TypeOK' => CountedRight'
    BY CountedIs, PTL
  <2> QED
    BY <1>0, <2>1 DEF CountedRight
<1>3. \A l \in Line : Here'[l] <= Count(stored', l)
                      /\ \A s \in Sinks : accepted'[s][l] >= Here'[l]
  <2>1. TypeOK' /\ Vouching' /\ NothingLost' => CountedCovered'
    BY CountedSound, PTL
  <2> QED
    BY <1>0, <2>1 DEF CountedCovered
<1>4. ASSUME NEW l \in Line
      PROVE  Here'[l] >= Here[l]
  <2>1. PICK a \in Cursor : a = cursor'
    BY <1>0 DEF TypeOK
  <2>2. PICK b \in Cursor : b = cursor
    BY <1>0 DEF TypeOK
  <2>3. Ahead(a, b)
    BY <2>1, <2>2, CursorMoves DEF Sound
  <2>4. CountsSound(b)
    BY <1>0, <2>2 DEF Vouching, Positions
  <2>5. Vouched(b, l) <= Vouched(a, l)
    BY <1>0, <2>3, <2>4, VouchedGrows
  <2>6. Vouched(cursor, l)' = Vouched(a, l)
    BY <2>1 DEF Vouched
  <2>7. Wanted' = Wanted
    BY DEF Wanted
  <2>8. Here'[l] = (IF l \in Wanted THEN Vouched(a, l) ELSE 0)
        /\ Here[l] = (IF l \in Wanted THEN Vouched(b, l) ELSE 0)
    BY <1>1, <1>2, <2>2, <2>6, <2>7
  <2>9. CASE l \in Wanted
    BY <2>5, <2>8, <2>9
  <2>10. CASE l \notin Wanted
    BY <2>8, <2>10
  <2> QED
    BY <2>9, <2>10
<1>5. There' = There \/ There' = Here' \/ There' = None
  <2>1. disk' = disk => There' = There
    BY <1>0, CountedStays
  <2>2. disk' = cursor' => There' = Here'
    BY DEF There, Here, Counted
  <2>3. disk' = None => There' = None
    BY DEF There, Counted
  <2> QED
    BY <2>1, <2>2, <2>3
<1>6. Logs' = Logs /\ GivenUp' = GivenUp /\ DueLines' = DueLines
      /\ \A l \in Line : Logs[l] = Count(stored, l)
  BY DEF Logs, GivenUp, DueLines
<1>7. /\ \A l \in Line : Logs[l] >= Here'[l]
      /\ \A s \in Sinks : \A l \in Line : accepted[s][l] >= Here'[l]
  BY <1>3, <1>6
<1> QED
  BY <1>1, <1>2, <1>4, <1>5, <1>6, <1>7
  DEF Drain!Move, Drain!Past, Here, There, Logs, GivenUp, DueLines

\* A cursor that jumps, or stays, and gives up what it passes.
LEMMA DrainSkip ==
  ASSUME Sound, Sound', [Next]_vars, cursor # None,
         UNCHANGED <<stored, accepted, retireAt, disk>>, pc # "gone", pc' # "gone",
         \/ cursor' = cursor
         \/ \E t \in Int : /\ cursor' = At(t) /\ cursor.ts < t
                           /\ {u \in 1..MaxTime : cursor.ts <= u /\ u < t} \subseteq skipped'
  PROVE  Drain!Skip
<1>0. TypeOK /\ TypeOK' /\ Vouching /\ skipped \subseteq skipped'
  BY Grows DEF Sound
<1>1. Here # None /\ There' = Drain!Only(There, Scoped \ GivenUp')
  BY <1>0, CountedIs, CountedStays DEF CountedRight
<1>2. Here' = Drain!Only(Here, Scoped \ GivenUp')
  <2>1. CASE cursor' = cursor
    BY <1>0, <2>1, CountedStays
  <2>2. ASSUME NEW t \in Int, cursor' = At(t), cursor.ts < t,
               {u \in 1..MaxTime : cursor.ts <= u /\ u < t} \subseteq skipped'
        PROVE  Here' = Drain!Only(Here, Scoped \ GivenUp')
    <3>1. PICK b \in Cursor : b = cursor
      BY <1>0 DEF TypeOK
    <3>2. At(t) \in Cursor /\ At(t).ts = t /\ At(t) # None
          /\ \A h \in Hashes : At(t).seen[h] = 0
      BY AtCursor, CursorNotNone DEF At
    <3>3. Here' = [l \in Line |-> IF l \in Wanted' THEN Vouched(At(t), l)' ELSE 0]
      BY <2>2, <3>2 DEF Here, Counted
    <3>4. \A l \in Line : Here[l] = IF l \in Wanted THEN Vouched(b, l) ELSE 0
      BY <1>0, <3>1, CountedIs DEF CountedRight
    <3>5. Wanted' = Scoped \ GivenUp' /\ Wanted' \subseteq Wanted
      BY <1>0 DEF Wanted, Scoped, GivenUp
    <3>6. ASSUME NEW l \in Line, l \in Wanted'
          PROVE  Vouched(At(t), l)' = Vouched(b, l)
      <4>1. l.ts \in 1..MaxTime /\ l.ts \in Int /\ b.ts \in Int /\ l.hash \in Hashes
            /\ l.ts \notin skipped'
        BY <3>6, LineTs, CursorNotNone DEF Wanted
      <4>2. ~(b.ts <= l.ts /\ l.ts < t)
        BY <2>2, <3>1, <4>1
      <4>3. CASE l.ts < b.ts
        BY <2>2, <3>1, <3>2, <4>1, <4>3 DEF Vouched
      <4>4. CASE l.ts >= t
        <5>1. ~(l.ts < t) /\ ~(l.ts < b.ts) /\ l.ts # b.ts
          BY <2>2, <3>1, <4>1, <4>4
        <5> QED
          BY <3>2, <4>1, <5>1 DEF Vouched
      <4> QED
        BY <4>1, <4>2, <4>3, <4>4
    <3>7. Here' = [l \in Line |-> IF l \in Scoped \ GivenUp' THEN Here[l] ELSE 0]
      BY <3>3, <3>4, <3>5, <3>6
    <3> QED
      BY <1>1, <3>7 DEF Drain!Only
  <2> QED
    BY <2>1, <2>2
<1>3. GivenUp \subseteq GivenUp' /\ Logs' = Logs /\ DueLines' = DueLines
  BY <1>0 DEF GivenUp, Logs, DueLines
<1> QED
  BY <1>1, <1>2, <1>3
  DEF Drain!Skip, Here, There, Logs, GivenUp, DueLines, Scoped

\* Every step of the poller and of its environment is a step or a stutter of
\* LogDrain.
LEMMA DrainStep ==
  ASSUME Garbled = {}, Sound, Sound', [Next]_vars
  PROVE  [Drain!Next]_Drain!vars
<1> USE DEF source, round, page, store, workers, NoPage
<1>0. /\ TypeOK /\ TypeOK' /\ Phases /\ Phases' /\ Vouching /\ Paging /\ Logged
      /\ CountedRight /\ CountedRight'
  <2>1. TypeOK' => CountedRight'
    BY CountedIs, PTL
  <2> QED
    BY <2>1, CountedIs DEF Sound
<1>1. CASE Start
  <2>1. /\ cursor = None /\ cursor' # None /\ disk' = disk /\ pc # "gone" /\ pc' # "gone"
        /\ UNCHANGED <<stored, accepted, retireAt>>
    BY <1>0, <1>1 DEF Start, Phases
  <2>2. Here = None /\ Here' # None
    BY <1>0, <2>1 DEF CountedRight
  <2>3. CASE disk # None
    <3>1. cursor' = disk /\ skipped' = skipped
      BY <1>1, <2>3 DEF Start
    <3>2. There' = There /\ There # None
      BY <1>0, <2>1, <2>3, <3>1, CountedStays DEF CountedRight
    <3>3. Here' = There'
      BY <2>1, <3>1 DEF Here, There, Counted
    <3>4. Drain!Start
      BY <2>1, <2>2, <3>1, <3>2, <3>3 DEF Drain!Start, Here, There
    <3> QED
      BY <3>4 DEF Drain!Next
  <2>4. CASE disk = None
    <3>1. /\ cursor' = At(now - Lookback)
          /\ skipped' = skipped \cup {t \in 1..MaxTime : t < now - Lookback}
      BY <1>1, <2>4 DEF Start
    <3>2. There = None /\ There' = None
      BY <2>1, <2>4 DEF There, Counted
    <3>3. now - Lookback \in Int
      BY <1>0 DEF TypeOK
    <3>4. At(now - Lookback).ts = now - Lookback
          /\ \A h \in Hashes : At(now - Lookback).seen[h] = 0
      BY DEF At
    <3>5. \A l \in Line : Here'[l] = IF l \in Wanted' THEN Vouched(cursor, l)' ELSE 0
      BY <1>0, <2>1 DEF CountedRight
    <3>6. ASSUME NEW l \in Line
          PROVE  Here'[l] = 0
      <4>1. l.ts \in 1..MaxTime /\ l.ts \in Int /\ l.hash \in Hashes
        BY LineTs
      <4>2. l \in Wanted' => ~(l.ts < now - Lookback)
        BY <3>1, <4>1 DEF Wanted
      <4>3. l \in Wanted' => Vouched(cursor, l)' = 0
        BY <3>1, <3>4, <4>1, <4>2 DEF Vouched
      <4> QED
        BY <3>5, <4>3
    <3>7. Here' = [l \in Line |-> 0]
      <4>1. Here' \in [Line -> Nat]
        BY <1>0, <2>1 DEF CountedRight
      <4> QED
        BY <3>6, <4>1
    <3>8. Drain!Start
      BY <2>1, <2>2, <3>1, <3>2, <3>7 DEF Drain!Start, Here, There
    <3> QED
      BY <3>8 DEF Drain!Next
  <2> QED
    BY <2>3, <2>4
<1>2. CASE BeginRound
  <2>1. /\ UNCHANGED <<stored, accepted, retireAt, disk>> /\ pc # "gone" /\ pc' # "gone"
        /\ cursor # None /\ cursor \in Cursor
    BY <1>0, <1>2 DEF BeginRound, Phases, TypeOK
  <2>2. Floor \in Int /\ At(Floor).ts = Floor /\ cursor.ts \in Int
    BY <1>0, <2>1, CursorNotNone DEF Floor, TypeOK, Lesser, Greater, At
  <2>3. CASE cursor.ts < Floor
    <3>1. cursor' = At(Floor)
          /\ {u \in 1..MaxTime : cursor.ts <= u /\ u < Floor} \subseteq skipped'
      BY <1>2, <2>2, <2>3 DEF BeginRound
    <3>2. Drain!Skip
      BY <2>1, <2>2, <2>3, <3>1, DrainSkip
    <3> QED
      BY <3>2 DEF Drain!Next
  <2>4. CASE ~(cursor.ts < Floor)
    <3>1. cursor' = cursor
      BY <1>2, <2>4 DEF BeginRound
    <3>2. Drain!Skip
      BY <2>1, <3>1, DrainSkip
    <3> QED
      BY <3>2 DEF Drain!Next
  <2> QED
    BY <2>3, <2>4
<1>3. CASE Written
  <2>1. /\ UNCHANGED <<stored, accepted, retireAt, disk>> /\ pc = "page" /\ pc' # "gone"
        /\ cursor # None /\ cursor' # None
        /\ cursor \in Cursor /\ next \in Cursor /\ cursor.ts \in Int /\ next.ts \in Int
    BY <1>0, <1>3, CursorNotNone DEF Written, Settled, Phases, TypeOK
  <2>2. CASE Stuck
    <3>1. next.ts = cursor.ts
      BY <1>0, <2>1, <2>2 DEF Stuck, Paging, Ahead
    <3>2. cursor' = At(next.ts + 1) /\ skipped' = skipped \cup ({next.ts} \cap 1..MaxTime)
      BY <1>3, <2>2 DEF Written
    <3>3. {u \in 1..MaxTime : cursor.ts <= u /\ u < next.ts + 1} \subseteq skipped'
      BY <2>1, <3>1, <3>2
    <3>4. next.ts + 1 \in Int /\ cursor.ts < next.ts + 1
      BY <2>1, <3>1
    <3>5. Drain!Skip
      BY <2>1, <3>2, <3>3, <3>4, DrainSkip
    <3> QED
      BY <3>5 DEF Drain!Next
  <2>3. CASE ~Stuck
    <3>1. skipped' = skipped
      BY <1>3, <2>3 DEF Written
    <3>2. Drain!Move
      BY <2>1, <3>1, DrainMove
    <3> QED
      BY <3>2 DEF Drain!Next
  <2> QED
    BY <2>2, <2>3
<1>4. CASE SavePage \/ FinishRound
  <2>1. /\ UNCHANGED <<stored, skipped, accepted, retireAt>> /\ pc # "gone" /\ pc' # "gone"
        /\ cursor # None /\ cursor' # None
    BY <1>0, <1>4 DEF SavePage, FinishRound, Phases
  <2>2. disk' = disk \/ disk' = cursor' \/ disk' = None
    BY <1>4 DEF SavePage, FinishRound, Save
  <2>3. Drain!Move
    BY <2>1, <2>2, DrainMove
  <2> QED
    BY <2>3 DEF Drain!Next
<1>5. CASE EndRound
  <2>0. /\ UNCHANGED <<stored, skipped, accepted, cursor, retireAt>> /\ pc = "round"
        /\ cursor # None /\ cursor \in Cursor /\ cursor.ts \in Int
    BY <1>0, <1>5, CursorNotNone DEF EndRound, Phases, TypeOK
  <2>1. CASE Drained
    <3>1. pc' = "gone" /\ (disk' = disk \/ disk' = None)
      BY <1>5, <2>1 DEF EndRound
    <3>2. Here' = Here /\ Here # None /\ (There' = There \/ There' = None)
      <4>1. disk' = None => There' = None
        BY DEF There, Counted
      <4> QED
        BY <1>0, <2>0, <3>1, <4>1, CountedStays DEF CountedRight
    <3>3. retireAt # None /\ retireAt \in Int /\ cursor.ts >= retireAt
      BY <1>0, <2>1 DEF Drained, TypeOK
    <3>4. ASSUME NEW l \in DueLines \cap (Scoped \ GivenUp)
          PROVE  Here[l] = Logs[l]
      <4>1. l \in Line /\ l.ts \in Int /\ l \in Wanted /\ l.ts < retireAt
        BY LineTs DEF DueLines, Scoped, GivenUp, Wanted
      <4>2. l.ts < cursor.ts
        BY <2>0, <3>3, <4>1
      <4>3. Here[l] = Count(stored, l)
        BY <1>0, <2>0, <4>1, <4>2 DEF CountedRight, Vouched
      <4> QED
        BY <4>1, <4>3 DEF Logs
    <3>5. Logs' = Logs /\ GivenUp' = GivenUp /\ DueLines' = DueLines
      BY <2>0 DEF Logs, GivenUp, DueLines
    <3>6. Drain!End
      BY <2>0, <3>1, <3>2, <3>3, <3>4, <3>5
      DEF Drain!End, Drain!Owed, Here, There, Logs, GivenUp, DueLines, Scoped
    <3> QED
      BY <3>6 DEF Drain!Next
  <2>2. CASE ~Drained
    <3>1. disk' = disk /\ pc' # "gone"
      BY <1>5, <2>2 DEF EndRound
    <3> QED
      BY <2>0, <3>1, DrainIdle
  <2> QED
    BY <2>1, <2>2
<1>6. CASE Retire
  <2>1. /\ UNCHANGED <<stored, skipped, accepted, cursor, disk, pc>> /\ cursor # None
        /\ retireAt = None /\ retireAt' # None /\ pc # "gone"
    BY <1>0, <1>6 DEF Retire, Phases, TypeOK
  <2>2. Here' = Here /\ There' = There /\ Here # None
    BY <1>0, <2>1, CountedStays DEF CountedRight
  <2>3. Drain!Retire
    BY <2>1, <2>2 DEF Drain!Retire, Here, There
  <2> QED
    BY <2>3 DEF Drain!Next
<1>7. CASE Crash
  <2>1. /\ UNCHANGED <<stored, skipped, accepted, disk, retireAt>> /\ cursor # None
        /\ cursor' = None /\ pc # "gone" /\ pc' # "gone"
    BY <1>0, <1>7 DEF Crash, Phases
  <2>2. There' = There /\ Here # None /\ Here' = None
    BY <1>0, <2>1, CountedStays DEF CountedRight
  <2>3. Drain!Crash
    BY <2>1, <2>2 DEF Drain!Crash, Here, There
  <2> QED
    BY <2>3 DEF Drain!Next
<1>8. ASSUME NEW l \in Line, Arrive(l)
      PROVE  Drain!Next
  <2>1. /\ UNCHANGED <<skipped, accepted, cursor, disk, retireAt, pc, now>>
        /\ \A k : Count(stored', k) = Count(stored, k) + (IF l = k THEN 1 ELSE 0)
        /\ now - Settle < l.ts
    <3>1. stored \in Seq(Line)
      BY <1>0 DEF TypeOK
    <3> QED
      BY <1>8, <3>1, ArriveLines DEF Arrive
  <2>2. Here' = Here /\ There' = There
    BY <1>0, <2>1, CountedStays
  <2>3. \A k \in Line : Count(stored, k) \in Nat
    BY Grows, <1>0
  <2>4. Logs'[l] = Logs[l] + 1 /\ \A k \in Line \ {l} : Logs'[k] = Logs[k]
    BY <2>1, <2>3 DEF Logs
  <2>5. ASSUME pc = "gone", l \in DueLines
        PROVE  l \notin Scoped \ GivenUp
    <3>1. /\ cursor # None /\ cursor \in Cursor /\ cursor.ts \in Int /\ cursor.ts >= retireAt
          /\ retireAt # None /\ retireAt \in Int
      BY <1>0, <2>5, CursorNotNone DEF Phases, TypeOK
    <3>2. l.ts \in 1..MaxTime /\ l.ts \in Int /\ l.ts < retireAt
      BY <2>5, LineTs DEF DueLines
    <3>3. SettledBehind(cursor)
      BY <1>0, <3>1 DEF Vouching, Positions
    <3>4. l.ts \in skipped
      BY <2>1, <3>1, <3>2, <3>3 DEF SettledBehind
    <3> QED
      BY <3>4 DEF GivenUp
  <2>6. DueLines' = DueLines /\ GivenUp' = GivenUp
    BY <2>1 DEF DueLines, GivenUp
  <2>7. Drain!Log(l)
    BY <2>1, <2>2, <2>4, <2>5, <2>6
    DEF Drain!Log, Drain!Owed, Here, There, Logs, GivenUp, DueLines, Scoped
  <2> QED
    BY <2>7 DEF Drain!Next
<1>9. ASSUME NEW s \in Sinks, Accept(s)
      PROVE  Drain!Next
  <2>1. UNCHANGED <<stored, skipped, cursor, disk, retireAt, pc>>
    BY <1>9 DEF Accept
  <2>2. PICK n \in 1..Len(out[s]) :
          accepted' = [accepted EXCEPT ![s] =
                          [l \in Line |-> @[l] + Count(SubSeq(out[s], 1, n), l)]]
    BY <1>9 DEF Accept
  <2>3. \A r \in Sinks \ {s} : accepted'[r] = accepted[r]
    <3> DEFINE more == [l \in Line |-> accepted[s][l] + Count(SubSeq(out[s], 1, n), l)]
    <3>1. accepted' = [accepted EXCEPT ![s] = more]
      BY <2>2
    <3> HIDE DEF more
    <3> QED
      BY <1>0, <3>1 DEF TypeOK
  <2>4. ASSUME NEW l \in Line
        PROVE  /\ accepted'[s][l] >= accepted[s][l]
               /\ accepted'[s][l] > accepted[s][l] => l \in Scoped /\ Logs[l] > 0
    <3>0. out[s] \in Seq(Line) /\ Len(out[s]) \in Nat /\ accepted[s][l] \in Nat
          /\ n \in 0..Len(out[s])
      BY <1>0 DEF TypeOK
    <3>1. accepted'[s][l] = accepted[s][l] + Count(SubSeq(out[s], 1, n), l)
      BY <1>0, <2>2 DEF TypeOK
    <3>2. /\ SubSeq(out[s], 1, n) \in Seq(Line)
          /\ SubSeq(out[s], n + 1, Len(out[s])) \in Seq(Line)
      BY <3>0, SubSeqType
    <3>3. /\ Count(SubSeq(out[s], 1, n), l) \in Nat
          /\ Count(SubSeq(out[s], n + 1, Len(out[s])), l) \in Nat
      BY <3>2, CountType
    <3>4. Count(out[s], l) = Count(SubSeq(out[s], 1, n), l)
                               + Count(SubSeq(out[s], n + 1, Len(out[s])), l)
      BY <3>0, CountSplit
    <3>5. Count(SubSeq(out[s], 1, n), l) > 0 => l.hash \notin Ignored /\ Count(stored, l) > 0
      BY <1>0, <3>3, <3>4 DEF Logged
    <3>6. l.hash \notin Ignored /\ Count(stored, l) > 0 => l \in Scoped /\ Logs[l] > 0
      BY DEF Scoped, Logs
    <3> QED
      BY <3>0, <3>1, <3>3, <3>5, <3>6
  <2>5. Here' = Here /\ There' = There
    BY <1>0, <2>1, CountedStays
  <2>6. Logs' = Logs /\ GivenUp' = GivenUp /\ DueLines' = DueLines
    BY <2>1 DEF Logs, GivenUp, DueLines
  <2>7. Drain!Deliver(s)
    BY <2>1, <2>3, <2>4, <2>5, <2>6
    DEF Drain!Deliver, Drain!Past, Here, There, Logs, GivenUp, DueLines, Scoped
  <2> QED
    BY <2>7 DEF Drain!Next
<1>10. CASE \/ FetchFails \/ FetchPage \/ SkipRepeated \/ Dispatch \/ NotWritten
            \/ Tick \/ PeerMoves \/ (\E s \in Sinks : Drop(s)) \/ Ended \/ UNCHANGED vars
  <2>1. /\ UNCHANGED <<stored, skipped, accepted, cursor, disk, retireAt>>
        /\ pc' = "gone" <=> pc = "gone"
    BY <1>10 DEF FetchFails, FetchPage, TakeMarks, SkipRepeated, Dispatch, NotWritten,
       Tick, PeerMoves, Drop, Ended, vars
  <2> QED
    BY <2>1, DrainIdle
<1> QED
  BY <1>1, <1>2, <1>3, <1>4, <1>5, <1>6, <1>7, <1>8, <1>9, <1>10 DEF Next, Poll

\* The poller (poll.go) and its cursor store (cursor.go) are an at-least-once
\* drain of the source's log: whatever arrives late, is dropped, fails or
\* crashes, a position that they hold or have saved only ever counts what every
\* sink took, moves on, and is where the next start goes on; sinks get only
\* what was logged and is in scope; and a retired source is left when what it
\* is due has been delivered.
THEOREM PollerImplementsDrain == Garbled = {} => (Spec => ImplementsDrain)
<1> SUFFICES ASSUME Garbled = {} PROVE Spec => ImplementsDrain
  OBVIOUS
<1>1. Init => Drain!Init
  <2> SUFFICES ASSUME Init PROVE Drain!Init
    OBVIOUS
  <2>1. [l \in Line |-> Count(stored, l)] = [l \in Line |-> 0]
    BY CountEmpty DEF Init
  <2>2. Counted(cursor) = None /\ Counted(disk) = None
    BY DEF Init, Counted
  <2> QED
    BY <2>1, <2>2 DEF Init, Drain!Init
<1>2. Inductive /\ Delivered /\ Logged => Sound
  BY DEF Inductive, Delivered, Sound
<1>3. Inductive /\ Inductive' /\ Logged /\ [Next]_vars => Logged'
  BY LoggedStep DEF Inductive
<1>4. Sound /\ Sound' /\ [Next]_vars => [Drain!Next]_Drain!vars
  BY DrainStep
<1> QED
  BY <1>1, <1>2, <1>3, <1>4, LoggedInit, Invariance, DeliveryInvariance, PTL
  DEF Spec, ImplementsDrain, Drain!Spec

=============================================================================
