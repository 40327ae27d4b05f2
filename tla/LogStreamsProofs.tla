-------------------------- MODULE LogStreamsProofs --------------------------
(***************************************************************************)
(* Proofs about LogStreams, for any number of builds, slots, hosts, lines  *)
(* and faults, and whatever part of the lines Railway sends.               *)
(***************************************************************************)
EXTENDS LogStreams, LineSeqProofs

USE StreamsAssumption, NoneAssumption DEF StreamsAssumption

\* The lines that a subscription is yet to send come in their order, each once;
\* without a backfill none with a date has been received.
Fed ==
    /\ \A k, m \in 1..Len(feed) : k < m => feed[k] < feed[m]
    /\ LogBackfill = 0 =>
          \A k \in 1..Len(feed) : log[feed[k]].dated => received[feed[k]] = 0

\* A line with a date that was received.
Got(i) == received[i] > 0 /\ log[i].dated

\* The date to resume after is past everything received.
Newest ==
    \A i \in 1..Len(log) : Got(i) => after # None /\ log[i].ts <= after

-----------------------------------------------------------------------------
(* Types                                                                   *)

\* A line's fields.
LEMMA LineFields == \A l \in Line : l.ts \in 1..MaxTs /\ l.dated \in BOOLEAN
  BY DEF Line

\* The holders of a slot are finitely many.
LEMMA HoldersFinite ==
  ASSUME TypeOK
  PROVE  IsFiniteSet(Holding) /\ Cardinality(Holding) \in Nat
<1>1. Holding \subseteq Builds
  BY DEF Holding
<1> QED
  BY <1>1, FS_Subset, FS_CardinalityType

\* Fewer builds hold no more slots.
LEMMA FewerHold ==
  ASSUME TypeOK, Holding' \subseteq Holding
  PROVE  Cardinality(Holding') <= Slots
<1>1. Cardinality(Holding') \in Nat /\ Cardinality(Holding') <= Cardinality(Holding)
  BY HoldersFinite, FS_Subset, FS_CardinalityType
<1>2. Cardinality(Holding) <= Slots /\ Cardinality(Holding) \in Nat
  BY HoldersFinite DEF TypeOK
<1> QED
  BY <1>1, <1>2

\* Whichever part of the lines that are newer than the date a new subscription
\* sends, they come in order.
LEMMA ResumedLines ==
  ASSUME TypeOK, NEW r \in Resumed
  PROVE  /\ r \in Seq(1..Len(log))
         /\ \A k, m \in 1..Len(r) : k < m => r[k] < r[m]
         /\ LogBackfill = 0 =>
               \A k \in 1..Len(r) : after # None /\ log[r[k]].ts > after
<1>1. PICK W \in SUBSET Wanted : r = Ordered(W)
  BY DEF Resumed
<1>2. /\ Len(log) \in Nat /\ W \subseteq 1..Len(log)
      /\ LogBackfill = 0 => \A i \in W : after # None /\ log[i].ts > after
  BY <1>1 DEF TypeOK, Wanted
<1>3. W \in SUBSET Int /\ IsFiniteSet(W)
  <2>1. IsFiniteSet(1..Len(log))
    BY <1>2, UpTo
  <2>2. IsFiniteSet(W)
    BY <1>2, <2>1, FS_Subset
  <2>3. 1..Len(log) \subseteq Int
    BY <1>2
  <2> QED
    BY <1>2, <2>2, <2>3
<1>4. /\ Cardinality(W) \in Nat /\ Ordered(W) \in [1..Cardinality(W) -> W]
      /\ \A j, k \in 1..Cardinality(W) : j < k => Ordered(W)[j] < Ordered(W)[k]
  BY <1>3, OrderedLists
<1>5. r \in Seq(W) /\ Len(r) = Cardinality(W)
  BY <1>1, <1>4, FunctionIsSeq
<1>6. \A k \in 1..Len(r) : r[k] \in W
  BY <1>5
<1>7. r \in Seq(1..Len(log))
  <2>1. Ordered(W) \in [1..Cardinality(W) -> 1..Len(log)]
    BY <1>2, <1>4
  <2> QED
    BY <1>1, <1>4, <2>1, FunctionIsSeq
<1>8. \A k, m \in 1..Len(r) : k < m => r[k] < r[m]
  BY <1>1, <1>4, <1>5
<1> QED
  BY <1>2, <1>6, <1>7, <1>8

\* The types hold at first, and nothing has been received.
LEMMA StreamsInit == Init => TypeOK /\ Fed /\ Newest
<1> SUFFICES ASSUME Init PROVE TypeOK /\ Fed /\ Newest
  OBVIOUS
<1>1. /\ ctx = "live" /\ listed = {} /\ phase = "off" /\ host = 1 /\ after = None
      /\ log = <<>> /\ feed = <<>> /\ silent = FALSE /\ up = Hosts /\ faults = MaxFaults
      /\ received = <<>>
  BY DEF Init
<1>2. /\ Holding = {}
      /\ build \in [Builds -> {"unseen", "queued", "running", "hung", "tried", "left"}]
  BY DEF Init, Holding
<1>3. Cardinality(Holding) <= Slots
  BY <1>2, FS_EmptySet
<1>4. 1 \in Hosts
  BY DEF Hosts
<1>5. Len(log) = 0 /\ log \in Seq(Line) /\ feed \in Seq(1..Len(log))
      /\ received \in [1..Len(log) -> Nat]
  BY <1>1
<1>6. up \in (SUBSET Hosts) \ {{}} /\ faults \in 0..MaxFaults /\ host \in Hosts
  <2>1. Hosts # {} /\ MaxFaults \in 0..MaxFaults
    BY <1>4
  <2>2. Hosts \in (SUBSET Hosts) \ {{}}
    BY <2>1
  <2> QED
    BY <1>1, <1>4, <2>1, <2>2
<1>7. (feed # <<>> => phase = "open") /\ (silent => phase \in {"init", "open"})
  BY <1>1
<1>8. TypeOK
  BY <1>1, <1>2, <1>3, <1>5, <1>6, <1>7 DEF TypeOK
<1> QED
  BY <1>1, <1>5, <1>8 DEF Fed, Newest

\* A connection that has ended is waited for, and is yet to send nothing.
LEMMA DisconnectType ==
  ASSUME TypeOK, Disconnect, up' = up, faults' \in 0..MaxFaults
  PROVE  TypeOK'
<1>1. /\ phase' = "wait" /\ host' = 1 /\ feed' = <<>> /\ silent' = FALSE
      /\ UNCHANGED <<ctx, listed, after, build, log, received>>
  BY DEF Disconnect
<1>2. 1 \in Hosts /\ feed' \in Seq(1..Len(log))
  BY <1>1 DEF Hosts
<1>3. Holding' = Holding
  BY <1>1 DEF Holding
<1> QED
  BY <1>1, <1>2, <1>3 DEF TypeOK

\* A step of a build's goroutine keeps the types if it keeps the slots.
LEMMA BuildType ==
  ASSUME TypeOK, NEW b \in Builds,
         NEW s \in {"unseen", "queued", "running", "hung", "tried", "left"},
         BuildStep(b, s), Cardinality(Holding') <= Slots
  PROVE  TypeOK'
<1> USE DEF stream, network
<1>1. build' \in [Builds -> {"unseen", "queued", "running", "hung", "tried", "left"}]
      /\ UNCHANGED <<ctx, listed, phase, host, after, received, log, feed, silent, up, faults>>
  BY DEF BuildStep, TypeOK
<1> QED
  BY <1>1 DEF TypeOK

\* Every step keeps the types.
LEMMA TypeStep == TypeOK /\ [Next]_vars => TypeOK'
<1> SUFFICES ASSUME TypeOK, [Next]_vars PROVE TypeOK'
  OBVIOUS
<1> USE DEF stream, network
<1>0. UNCHANGED build => Holding' = Holding
  BY DEF Holding
<1>1. ASSUME NEW x \in {"env"} \cup Builds, Discover(x)
      PROVE  TypeOK'
  BY <1>0, <1>1 DEF Discover, TypeOK
<1>2. CASE Reconcile
  <2>1. build' \in [Builds -> {"unseen", "queued", "running", "hung", "tried", "left"}]
    BY <1>2 DEF Reconcile, ReconcileBuild, TypeOK
  <2>2. Holding' \subseteq Holding
    BY <1>2 DEF Reconcile, ReconcileBuild, Holding, Unseen
  <2>3. Cardinality(Holding') <= Slots
    BY <2>2, FewerHold
  <2>4. phase' \in {"off", "dial", "init", "open", "wait", "gone"}
        /\ (phase' # phase => phase = "off")
    BY <1>2 DEF Reconcile, TypeOK
  <2> QED
    BY <1>2, <2>1, <2>3, <2>4 DEF Reconcile, TypeOK
<1>3. CASE DialFails
  <2>1. CASE host < NHosts
    <3>1. host' \in Hosts
      BY <1>3, <2>1 DEF DialFails, TypeOK, Hosts
    <3> QED
      BY <1>0, <1>3, <2>1, <3>1 DEF DialFails, TypeOK
  <2>2. CASE ~(host < NHosts)
    BY <1>3, <2>2, DisconnectType DEF DialFails, TypeOK
  <2> QED
    BY <2>1, <2>2
<1>4. CASE DialSucceeds
  BY <1>0, <1>4 DEF DialSucceeds, TypeOK
<1>5. CASE Acknowledged
  <2>1. feed' \in Seq(1..Len(log))
    BY <1>5, ResumedLines DEF Acknowledged
  <2> QED
    BY <1>0, <1>5, <2>1 DEF Acknowledged, TypeOK
<1>6. CASE Receive
  <2>1. /\ Head(feed) \in 1..Len(log) /\ Tail(feed) \in Seq(1..Len(log))
    BY <1>6, HeadTailProperties DEF Receive, TypeOK
  <2>2. log[Head(feed)] \in Line
    BY <2>1 DEF TypeOK
  <2>3. after' \in 1..MaxTs \cup {None}
    BY <1>6, <2>2, LineFields DEF Receive, AfterOf, TypeOK
  <2>4. received' \in [1..Len(log) -> Nat]
    BY <1>6, <2>1 DEF Receive, TypeOK
  <2> QED
    BY <1>0, <1>6, <2>1, <2>3, <2>4 DEF Receive, TypeOK
<1>7. CASE Broken
  BY <1>7, DisconnectType DEF Broken, TypeOK
<1>8. CASE Keepalive
  BY <1>8, DisconnectType DEF Keepalive, TypeOK
<1>9. CASE Reconnect
  BY <1>0, <1>9 DEF Reconnect, TypeOK
<1>10. CASE Leave
  <2>1. feed' \in Seq(1..Len(log))
    BY <1>10 DEF Leave
  <2> QED
    BY <1>0, <1>10, <2>1 DEF Leave, TypeOK
<1>11. ASSUME NEW b \in Builds, Acquire(b)
       PROVE  TypeOK'
  <2>1. Holding' \subseteq Holding \cup {b}
    BY <1>11 DEF Acquire, BuildStep, Holding, TypeOK
  <2>2. Cardinality(Holding) < Slots /\ b \notin Holding
    BY <1>11 DEF Acquire, Holding
  <2>3. /\ IsFiniteSet(Holding \cup {b})
        /\ Cardinality(Holding \cup {b}) = Cardinality(Holding) + 1
    BY <2>2, HoldersFinite, FS_AddElement
  <2>4. Cardinality(Holding') \in Nat /\ Cardinality(Holding') <= Cardinality(Holding) + 1
    BY <2>1, <2>3, FS_Subset, FS_CardinalityType
  <2>5. Cardinality(Holding') <= Slots
    BY <2>2, <2>4, HoldersFinite
  <2> QED
    BY <1>11, <2>5, BuildType DEF Acquire
<1>12. ASSUME NEW b \in Builds, FetchEnds(b) \/ FetchHangs(b) \/ BuildLeaves(b)
       PROVE  TypeOK'
  <2>1. PICK s \in {"tried", "hung", "left"} :
            BuildStep(b, s) /\ (s = "hung" => build[b] = "running")
    BY <1>12 DEF FetchEnds, FetchHangs, BuildLeaves
  <2>2. Holding' \subseteq Holding
    BY <2>1 DEF BuildStep, Holding, TypeOK
  <2>3. Cardinality(Holding') <= Slots
    BY <2>2, FewerHold
  <2> QED
    BY <2>1, <2>3, BuildType
<1>13. ASSUME NEW line \in Line, Emit(line)
       PROVE  TypeOK'
  <2>1. /\ log' \in Seq(Line) /\ Len(log') = Len(log) + 1 /\ Len(log) \in Nat
    BY <1>13 DEF Emit, TypeOK
  <2>2. Len(log) + 1 \in 1..Len(log') /\ 1..Len(log) \subseteq 1..Len(log')
    BY <2>1
  <2>3. feed \in Seq(1..Len(log'))
    BY <2>2 DEF TypeOK
  <2>4. feed' \in Seq(1..Len(log')) /\ (phase # "open" => feed' = feed)
    <3>1. Append(feed, Len(log) + 1) \in Seq(1..Len(log'))
      BY <2>2, <2>3, AppendProperties
    <3> QED
      BY <1>13, <2>3, <3>1 DEF Emit
  <2>5. received \in Seq(Nat) /\ Len(received) = Len(log)
    BY <2>1, FunctionIsSeq DEF TypeOK
  <2>6. received' \in Seq(Nat) /\ Len(received') = Len(log')
    BY <1>13, <2>1, <2>5, AppendProperties DEF Emit
  <2>7. received' \in [1..Len(log') -> Nat]
    BY <2>6
  <2> QED
    BY <1>0, <1>13, <2>1, <2>4, <2>7 DEF Emit, TypeOK
<1>14. CASE GoSilent
  BY <1>0, <1>14 DEF GoSilent, TypeOK
<1>15. ASSUME NEW h \in Hosts, HostDown(h)
       PROVE  TypeOK'
  <2>1. up' \in (SUBSET Hosts) \ {{}} /\ faults' \in 0..MaxFaults
    BY <1>15 DEF HostDown, TypeOK
  <2> QED
    BY <1>0, <1>15, <2>1 DEF HostDown, TypeOK
<1>16. CASE Shutdown
  BY <1>0, <1>16 DEF Shutdown, TypeOK
<1>17. CASE UNCHANGED vars
  BY <1>0, <1>17 DEF vars, TypeOK
<1> QED
  BY <1>1, <1>2, <1>3, <1>4, <1>5, <1>6, <1>7, <1>8, <1>9, <1>10, <1>11, <1>12, <1>13,
     <1>14, <1>15, <1>16, <1>17 DEF Next, Stream

\* Every variable keeps its type, and no more builds are fetched at a time than
\* there are slots (pipeline.go, reconcileBuild and fetchBuildLogs).
THEOREM TypeCorrect == Spec => []TypeOK
<1> QED
  BY StreamsInit, TypeStep, PTL DEF Spec

-----------------------------------------------------------------------------
(* What is received                                                        *)

\* Every step keeps the feed in order, and what has been received behind the date
\* to resume after.
LEMMA ReceivedStep ==
  ASSUME TypeOK, Fed, Newest, [Next]_vars
  PROVE  Fed' /\ Newest'
<1> USE DEF stream, network
<1>0. /\ log \in Seq(Line) /\ Len(log) \in Nat /\ feed \in Seq(1..Len(log))
      /\ Len(feed) \in Nat /\ after \in 1..MaxTs \cup {None}
      /\ received \in [1..Len(log) -> Nat]
      /\ \A i \in 1..Len(log) : log[i] \in Line /\ log[i].ts \in Int /\ received[i] \in Nat
      /\ \A k \in 1..Len(feed) : feed[k] \in 1..Len(log)
  <2>1. /\ log \in Seq(Line) /\ feed \in Seq(1..Len(log)) /\ after \in 1..MaxTs \cup {None}
        /\ received \in [1..Len(log) -> Nat]
    BY DEF TypeOK
  <2>2. Len(log) \in Nat /\ Len(feed) \in Nat
    BY <2>1
  <2>3. \A i \in 1..Len(log) : log[i] \in Line /\ log[i].ts \in Int /\ received[i] \in Nat
    <3>1. \A i \in 1..Len(log) : log[i] \in Line /\ received[i] \in Nat
      BY <2>1
    <3> QED
      BY <3>1, LineFields
  <2>4. \A k \in 1..Len(feed) : feed[k] \in 1..Len(log)
    BY <2>1
  <2> QED
    BY <2>1, <2>2, <2>3, <2>4
<1>1. ASSUME feed' = <<>>, UNCHANGED <<log, received, after>>
      PROVE  Fed' /\ Newest'
  <2>1. Len(feed') = 0
    BY <1>1
  <2> QED
    BY <1>1, <2>1 DEF Fed, Newest, Got
<1>2. CASE UNCHANGED <<feed, log, received, after>>
  BY <1>2 DEF Fed, Newest, Got
<1>3. CASE Acknowledged
  <2>1. PICK r \in Resumed : feed' = r /\ UNCHANGED <<log, received, after>>
    BY <1>3 DEF Acknowledged
  <2>2. ASSUME LogBackfill = 0, NEW k \in 1..Len(r), log[r[k]].dated
        PROVE  received[r[k]] = 0
    <3>1. /\ r[k] \in 1..Len(log) /\ after # None /\ log[r[k]].ts > after
      BY <2>2, ResumedLines
    <3>2. ~Got(r[k])
      <4>1. Got(r[k]) => log[r[k]].ts <= after
        BY <3>1 DEF Newest
      <4>2. after \in Int /\ log[r[k]].ts \in Int
        BY <1>0, <3>1
      <4> QED
        BY <3>1, <4>1, <4>2
    <3> QED
      BY <1>0, <2>2, <3>1, <3>2 DEF Got
  <2>3. Fed'
    BY <2>1, <2>2, ResumedLines DEF Fed
  <2> QED
    BY <2>1, <2>3 DEF Newest, Got
<1>4. CASE Receive
  <2> DEFINE h == Head(feed)
  <2>1. /\ h \in 1..Len(log) /\ h = feed[1] /\ Len(feed) > 0
        /\ Tail(feed) \in Seq(1..Len(log)) /\ Len(Tail(feed)) = Len(feed) - 1
        /\ \A k \in 1..Len(Tail(feed)) : Tail(feed)[k] = feed[k + 1]
    BY <1>0, <1>4, HeadTailProperties, EmptySeq DEF Receive
  <2>2. /\ received' = [received EXCEPT ![h] = @ + 1] /\ after' = AfterOf(log[h])
        /\ feed' = Tail(feed) /\ log' = log
    BY <1>4 DEF Receive
  <2> HIDE DEF h
  <2>3. \A k \in 1..Len(feed') : k + 1 \in 1..Len(feed) /\ feed'[k] = feed[k + 1]
    BY <1>0, <2>1, <2>2
  <2>4. \A k, m \in 1..Len(feed') : k < m => feed'[k] < feed'[m]
    <3>1. \A k, m \in 1..Len(feed') : k < m => k + 1 < m + 1
      BY <2>1, <2>2
    <3> QED
      BY <2>3, <3>1 DEF Fed
  <2>5. \A k \in 1..Len(feed') : feed'[k] # h
    <3>1. \A k \in 1..Len(feed') : 1 < k + 1 /\ 1 \in 1..Len(feed)
      BY <1>0, <2>1
    <3>2. \A k \in 1..Len(feed') : feed[1] < feed[k + 1]
      BY <2>3, <3>1 DEF Fed
    <3>3. \A k \in 1..Len(feed') : feed[k + 1] \in Int
      BY <1>0, <2>3
    <3> QED
      BY <1>0, <2>1, <2>3, <3>2, <3>3, SMTT(30)
  <2>6. ASSUME LogBackfill = 0, NEW k \in 1..Len(feed'), log[feed'[k]].dated
        PROVE  received'[feed'[k]] = 0
    <3>1. received[feed'[k]] = 0 /\ feed'[k] \in 1..Len(log)
      BY <1>0, <2>3, <2>6, SMTT(30) DEF Fed
    <3> QED
      BY <1>0, <2>2, <2>5, <3>1
  <2>7. Fed'
    BY <2>2, <2>4, <2>6 DEF Fed
  <2>8. /\ log[h].dated => after' # None /\ log[h].ts <= after'
        /\ after # None => after' # None /\ after <= after'
    <3>1. log[h].ts \in Int /\ log[h].ts # None /\ (after # None => after \in Int)
      BY <1>0, <2>1
    <3> QED
      BY <2>2, <3>1 DEF AfterOf
  <2>9. ASSUME NEW i \in 1..Len(log), received'[i] > 0, log[i].dated
        PROVE  after' # None /\ log[i].ts <= after'
    <3>1. CASE i = h
      BY <2>8, <2>9, <3>1
    <3>2. CASE i # h
      <4>1. received'[i] = received[i]
        BY <1>0, <2>2, <3>2
      <4>2. after # None /\ log[i].ts <= after
        BY <2>9, <4>1 DEF Newest, Got
      <4>3. after' # None /\ after <= after'
        BY <2>8, <4>2
      <4>4. after \in Int /\ after' \in Int /\ log[i].ts \in Int
        <5>1. log[h].ts \in Int /\ log[i].ts \in Int /\ after \in Int
          BY <1>0, <2>1, <4>2
        <5> QED
          BY <2>2, <5>1 DEF AfterOf
      <4> QED
        BY <4>2, <4>3, <4>4
    <3> QED
      BY <3>1, <3>2
  <2>10. Newest'
    BY <2>2, <2>9 DEF Newest, Got
  <2> QED
    BY <2>7, <2>10
<1>5. ASSUME NEW line \in Line, Emit(line)
      PROVE  Fed' /\ Newest'
  <2>1. /\ log' = Append(log, line) /\ received' = Append(received, 0) /\ after' = after
        /\ feed' \in {feed, Append(feed, Len(log) + 1)}
    BY <1>5 DEF Emit
  <2>2. /\ Len(log') = Len(log) + 1
        /\ \A i \in 1..Len(log) : log'[i] = log[i]
    BY <1>0, <2>1, AppendProperties
  <2>3. /\ received'[Len(log) + 1] = 0
        /\ \A i \in 1..Len(log) : received'[i] = received[i]
    <3>1. received \in Seq(Nat) /\ Len(received) = Len(log)
      BY <1>0, FunctionIsSeq
    <3> QED
      BY <1>0, <2>1, <3>1, AppendProperties
  <2>4. /\ Len(feed') \in Nat
        /\ \A k \in 1..Len(feed') :
              \/ k \in 1..Len(feed) /\ feed'[k] = feed[k]
              \/ k = Len(feed) + 1 /\ feed'[k] = Len(log) + 1
    <3>1. CASE feed' = Append(feed, Len(log) + 1)
      BY <1>0, <3>1, AppendProperties
    <3>2. CASE feed' = feed
      BY <1>0, <3>2
    <3> QED
      BY <2>1, <3>1, <3>2
  <2>5. ASSUME NEW k \in 1..Len(feed'), NEW m \in 1..Len(feed'), k < m
        PROVE  feed'[k] < feed'[m]
    <3>1. k \in 1..Len(feed) /\ feed'[k] = feed[k]
      BY <1>0, <2>4, <2>5
    <3>2. CASE m \in 1..Len(feed) /\ feed'[m] = feed[m]
      BY <2>5, <3>1, <3>2 DEF Fed
    <3>3. CASE feed'[m] = Len(log) + 1
      BY <1>0, <3>1, <3>3
    <3> QED
      BY <2>4, <3>2, <3>3
  <2>6. ASSUME LogBackfill = 0, NEW k \in 1..Len(feed'), log'[feed'[k]].dated
        PROVE  received'[feed'[k]] = 0
    <3>1. CASE k \in 1..Len(feed) /\ feed'[k] = feed[k]
      BY <1>0, <2>2, <2>3, <2>6, <3>1 DEF Fed
    <3>2. CASE feed'[k] = Len(log) + 1
      BY <2>3, <3>2
    <3> QED
      BY <2>4, <3>1, <3>2
  <2>7. Fed'
    BY <2>5, <2>6 DEF Fed
  <2>8. ASSUME NEW i \in 1..Len(log'), received'[i] > 0, log'[i].dated
        PROVE  after # None /\ log'[i].ts <= after
    <3>1. i # Len(log) + 1
      BY <2>3, <2>8
    <3>2. i \in 1..Len(log)
      BY <1>0, <2>2, <3>1
    <3> QED
      BY <2>2, <2>3, <2>8, <3>2 DEF Newest, Got
  <2>9. Newest'
    BY <2>1, <2>8 DEF Newest, Got
  <2> QED
    BY <2>7, <2>9
<1>6. Disconnect => feed' = <<>> /\ UNCHANGED <<log, received, after>>
  BY DEF Disconnect
<1>7. \/ feed' = <<>> /\ UNCHANGED <<log, received, after>>
      \/ UNCHANGED <<feed, log, received, after>>
      \/ Acknowledged \/ Receive \/ \E line \in Line : Emit(line)
  <2>1. DialFails \/ Broken \/ Keepalive \/ Leave =>
          \/ feed' = <<>> /\ UNCHANGED <<log, received, after>>
          \/ UNCHANGED <<feed, log, received, after>>
    BY <1>6 DEF DialFails, Broken, Keepalive, Leave
  <2>2. Reconcile \/ DialSucceeds \/ Reconnect \/ GoSilent \/ Shutdown \/ UNCHANGED vars =>
          UNCHANGED <<feed, log, received, after>>
    BY DEF Reconcile, DialSucceeds, Reconnect, GoSilent, Shutdown, vars
  <2>3. /\ \A x \in {"env"} \cup Builds : Discover(x) =>
              UNCHANGED <<feed, log, received, after>>
        /\ \A b \in Builds :
              Acquire(b) \/ FetchEnds(b) \/ FetchHangs(b) \/ BuildLeaves(b) =>
                  UNCHANGED <<feed, log, received, after>>
        /\ \A h \in Hosts : HostDown(h) => UNCHANGED <<feed, log, received, after>>
    BY DEF Discover, Acquire, FetchEnds, FetchHangs, BuildLeaves, BuildStep, HostDown
  <2> QED
    BY <2>1, <2>2, <2>3 DEF Next, Stream
<1> QED
  BY <1>1, <1>2, <1>3, <1>4, <1>5, <1>7

\* Without a backfill no line with a date is dispatched twice, over any number of
\* connections that break, go silent or are refused, in whatever order the lines
\* come in and whatever their dates are (logs.go:17-18; pipeline.go:395-396).
THEOREM NoneTwice == Spec => []NoDuplicates
<1> DEFINE Inv == TypeOK /\ Fed /\ Newest /\ NoDuplicates
<1>1. Init => Inv
  <2>1. Init => Len(log) = 0
    BY DEF Init
  <2> QED
    BY <2>1, StreamsInit DEF NoDuplicates
<1>2. Inv /\ [Next]_vars => Inv'
  <2> SUFFICES ASSUME Inv, [Next]_vars PROVE NoDuplicates'
    BY TypeStep, ReceivedStep
  <2> USE DEF stream, network
  <2>1. /\ log \in Seq(Line) /\ Len(log) \in Nat /\ feed \in Seq(1..Len(log))
        /\ received \in [1..Len(log) -> Nat]
    BY DEF TypeOK
  <2>2. CASE Receive
    <3>1. /\ Head(feed) \in 1..Len(log) /\ Head(feed) = feed[1] /\ 1 \in 1..Len(feed)
      BY <2>1, <2>2, HeadTailProperties, EmptySeq DEF Receive
    <3>2. received' = [received EXCEPT ![Head(feed)] = @ + 1] /\ log' = log
      BY <2>2 DEF Receive
    <3>3. LogBackfill = 0 /\ log[Head(feed)].dated => received[Head(feed)] = 0
      BY <3>1 DEF Fed
    <3>4. ASSUME LogBackfill = 0, NEW i \in 1..Len(log), log[i].dated
          PROVE  received'[i] <= 1
      <4>1. CASE i = Head(feed)
        BY <2>1, <3>2, <3>3, <3>4, <4>1
      <4>2. CASE i # Head(feed)
        <5>1. received'[i] = received[i]
          BY <2>1, <3>2, <4>2
        <5> QED
          BY <3>4, <5>1 DEF NoDuplicates
      <4> QED
        BY <4>1, <4>2
    <3> QED
      BY <3>2, <3>4 DEF NoDuplicates
  <2>3. ASSUME NEW line \in Line, Emit(line)
        PROVE  NoDuplicates'
    <3>1. received \in Seq(Nat) /\ Len(received) = Len(log)
      BY <2>1, FunctionIsSeq
    <3>2. /\ Len(log') = Len(log) + 1 /\ \A i \in 1..Len(log) : log'[i] = log[i]
      BY <2>1, <2>3, AppendProperties DEF Emit
    <3>3. /\ received'[Len(log) + 1] = 0
          /\ \A i \in 1..Len(log) : received'[i] = received[i]
      BY <2>1, <2>3, <3>1, AppendProperties DEF Emit
    <3>4. \A i \in 1..Len(log') : i \in 1..Len(log) \/ i = Len(log) + 1
      BY <2>1, <3>2
    <3> QED
      BY <3>2, <3>3, <3>4 DEF NoDuplicates
  <2>4. CASE UNCHANGED <<log, received>>
    BY <2>4 DEF NoDuplicates
  <2>5. Receive \/ (\E line \in Line : Emit(line)) \/ UNCHANGED <<log, received>>
    BY DEF Next, Stream, Reconcile, DialFails, DialSucceeds, Disconnect, Acknowledged,
       Broken, Keepalive, Reconnect, Leave, GoSilent, Shutdown, Discover, Acquire, FetchEnds,
       FetchHangs, BuildLeaves, BuildStep, HostDown, vars
  <2> QED
    BY <2>2, <2>3, <2>4, <2>5
<1>3. Inv => NoDuplicates
  OBVIOUS
<1> HIDE DEF Inv
<1> QED
  BY <1>1, <1>2, <1>3, PTL DEF Spec

=============================================================================
