-------------------------- MODULE LogSourcesProofs ---------------------------
(***************************************************************************)
(* Proofs about LogSources, for any number of deployments, any discovery   *)
(* interval, settling time and lookback, any catch-up limit and pruning    *)
(* age, requests of any length, with or without stages of a deployment,    *)
(* and any number of failures and restarts.                                *)
(***************************************************************************)
EXTENDS LogSources, TLAPS

USE SourcesAssumption, NoneAssumption DEF SourcesAssumption

\* An answer is there while reconcile applies it, and a request is under way
\* while it waits.
Phases ==
    /\ mgr = "apply" <=> answer # None
    /\ mgr = "asking" => flight # None

\* The environment's saved cursor was read to, and its poller has left nothing
\* out since.
DeploySaved ==
    saved[Env] # None =>
        /\ <<Env, saved[Env]>> \in read
        /\ poller[Env] # None =>
              /\ saved[Env] <= poller[Env].cursor
              /\ \A t \in 0..MaxTime : saved[Env] < t /\ t < poller[Env].cursor
                    => <<Env, t>> \in read \cup given

\* Discovery failed within the interval before.
Recent == \E h \in failed : now < h + TTL

\* What the cache holds is from an answer that failed in part.
Doubtful == \E h \in failed : expiry <= h + TTL

\* Nothing is ahead of the clock.
Clocked ==
    /\ \A h \in failed : h <= now
    /\ cached # None => expiry - TTL <= now
    /\ lastReconcile # None => lastReconcile <= now
    /\ startedAt <= now
    /\ \A k \in Sources : \A t \in 0..MaxTime : <<k, t>> \in served => t <= now
    /\ \A k \in Sources : saved[k] # None => saved[k] <= now
    /\ \A k \in Sources : poller[k] # None => poller[k].cursor <= now

\* A request is made only for an expired cache, which holds an environment, and
\* what is applied is what the cache holds, unless discovery has just failed.
Answers ==
    /\ flight # None => ~Valid
    /\ cached # None => cached.env
    /\ mgr = "apply" => (answer = cached /\ Valid) \/ Recent

\* The deployment has been up.
Up(d) == d <= latest /\ (d = latest => status[d] = "success")

\* Only a deployment that has been up serves, is found, and has a poller.
Serving ==
    /\ active # 0 => Up(active)
    /\ cached # None /\ cached.dep # 0 => Up(cached.dep)
    /\ mgr = "apply" /\ answer.dep # 0 => Up(answer.dep)
    /\ \A d \in Deployments : poller[d] # None => Up(d)
    /\ \A d \in Deployments : \A t \in 0..MaxTime : <<d, t>> \in served => Up(d)

\* A deployment that the cache does not name, and that may still be found, has
\* not served before the cache was filled.
Filled ==
    cached # None /\ ~Doubtful =>
        \A d \in Deployments : \A t \in 0..MaxTime :
            <<d, t>> \in served => d = cached.dep \/ d < latest \/ t >= expiry - TTL

\* The cache goes on naming the deployment that has a poller, until the next.
Named ==
    cached # None /\ ~Doubtful =>
        \A d \in Deployments : poller[d] # None \/ (mgr = "apply" /\ answer.dep = d) =>
            d = cached.dep \/ d < latest

\* Discovery may still name the source.
Findable(k) ==
    \/ k = Env \/ k >= latest
    \/ cached # None /\ cached.dep = k
    \/ mgr = "apply" /\ answer.dep = k

\* Nothing that may be logged before an instant is lost without a reason.
SettledTo(k, b) == \A t \in 0..MaxTime : <<k, t>> \in served /\ t < b => Settled(k, t)

\* "It was not active before": nothing is lost before the last reconcile of a
\* source that may still get a poller.
Unpolled ==
    lastReconcile # None =>
        \A k \in Sources :
            poller[k] = None /\ Findable(k) => SettledTo(k, lastReconcile)

\* Nor before a cursor, saved or running.
Polled ==
    \A k \in Sources :
        /\ saved[k] # None => SettledTo(k, saved[k])
        /\ poller[k] # None => SettledTo(k, poller[k].cursor)

\* A retired poller is recorded as withdrawn, and leaves when it has drained.
Retired ==
    \A d \in Deployments : poller[d] # None =>
        /\ poller[d].retireAt # None => <<d, poller[d].retireAt>> \in withdrawn
        /\ poller[d].left =>
              poller[d].retireAt # None /\ poller[d].cursor >= poller[d].retireAt

\* Together: the inductive invariant.
Inv ==
    /\ TypeOK /\ Phases /\ Clocked /\ Answers /\ Serving /\ Filled /\ Named
    /\ Unpolled /\ Polled /\ Retired /\ WithdrawnForCause

-----------------------------------------------------------------------------
(* Types                                                                   *)

\* What the assumption says of each constant, as facts the provers can use.
LEMMA Constants ==
  /\ Last \in Nat /\ TTL \in Nat /\ TTL > 0 /\ Settle \in Nat /\ Lookback \in Nat
  /\ CatchUp \in Nat /\ PruneAfter \in Nat /\ MaxTime \in Nat /\ MaxTroubles \in Nat
  /\ None \notin Int /\ None \notin Target /\ None \notin Poller
  /\ Env \in Sources /\ Deployments \subseteq Sources /\ Env \notin Deployments
  /\ \A d \in Deployments : d \in Nat /\ d > 0 /\ d <= Last
  BY DEF Env, Sources, Deployments

\* The fields of a poller.
LEMMA PollerFields ==
  \A p \in Poller : /\ p.cursor \in Int /\ p.left \in BOOLEAN
                    /\ p.retireAt \in (0..MaxTime) \cup {None} /\ p # None
  BY DEF Poller

\* What discovery finds is a target.
LEMMA FoundTarget ==
  ASSUME TypeOK
  PROVE  Found \in Target /\ Bare \in Target /\ Found.env /\ Found.dep = DeploymentID
  BY DEF TypeOK, Found, Bare, Target, DeploymentID

\* A poller that starts, starts at an instant.
LEMMA NewPollerType ==
  ASSUME TypeOK, NEW k \in Sources
  PROVE  NewPoller(k) \in Poller /\ NewPoller(k).retireAt = None /\ ~NewPoller(k).left
         /\ NewPoller(k).cursor = IF saved[k] # None THEN saved[k] ELSE StartOf
<1>1. StartOf \in Int
  BY DEF StartOf, TypeOK
<1>2. saved[k] \in Int \cup {None}
  BY DEF TypeOK
<1> QED
  BY <1>1, <1>2 DEF NewPoller, Poller

\* A failure of discovery is recorded at its instant.
LEMMA HiccupType ==
  ASSUME TypeOK, Hiccup
  PROVE  failed' \subseteq 0..MaxTime /\ troubles' \in 0..MaxTroubles
  BY DEF TypeOK, Hiccup

\* What a reconcile makes of each source's poller.
Wants(k, t) == t.env /\ (k = Env \/ t.dep = k)

LEMMA Reconciles ==
  ASSUME TypeOK, Phases, Reconcile, NEW k \in Sources
  PROVE  /\ answer \in Target /\ poller'[k] \in Poller \cup {None}
         /\ \/ poller[k] = None /\ Wants(k, answer) /\ poller'[k] = NewPoller(k)
            \/ poller[k] = None /\ ~Wants(k, answer) /\ poller'[k] = None
            \/ poller[k] # None /\ poller'[k] = poller[k]
            \/ poller[k] # None /\ ~Wants(k, answer) /\ k = Env /\ poller'[k] = None
            \/ /\ poller[k] # None /\ ~Wants(k, answer) /\ k # Env
               /\ poller[k].retireAt = None
               /\ poller'[k] = [poller[k] EXCEPT !.retireAt = now]
<1>1. answer \in Target /\ poller[k] \in Poller \cup {None} /\ now \in 0..MaxTime
  BY DEF Reconcile, Phases, TypeOK
<1>2. poller'[k] = IF k = Env THEN ReconcileDeploy(answer) ELSE ReconcileHTTP(k, answer)
  BY DEF Reconcile
<1>3. NewPoller(k) \in Poller
  BY NewPollerType
<1>4. poller[k] # None => [poller[k] EXCEPT !.retireAt = now] \in Poller
  BY <1>1 DEF Poller
<1>5. CASE k = Env
  BY <1>1, <1>2, <1>3, <1>5 DEF ReconcileDeploy, Wants
<1>6. CASE k # Env
  BY <1>1, <1>2, <1>3, <1>4, <1>6 DEF ReconcileHTTP, Wanted, Wants
<1> QED
  BY <1>5, <1>6

\* How a round moves its poller, and what becomes of what it passes.
LEMMA RoundMoves ==
  ASSUME TypeOK, NEW k \in Sources, Round(k)
  PROVE  /\ poller[k] \in Poller /\ ~poller[k].left
         /\ poller'[k] \in Poller
         /\ poller'[k].retireAt = poller[k].retireAt /\ poller'[k].left = poller[k].left
         /\ poller[k].cursor < poller'[k].cursor /\ poller'[k].cursor <= now
         /\ \A t \in 0..MaxTime : poller[k].cursor <= t /\ t < poller'[k].cursor
               => <<k, t>> \in read' \cup given'
         /\ \A j \in Sources \ {k} :
               poller'[j] = poller[j] /\ saved'[j] \in {saved[j], None}
         /\ \/ saved' = saved /\ read' = read
            \/ /\ <<k, poller'[k].cursor>> \in read'
               /\ saved'[k] \in {poller'[k].cursor, None}
         /\ poller' \in [Sources -> Poller \cup {None}]
         /\ saved' \in [Sources -> Int \cup {None}]
         /\ read' \subseteq Sources \X Int /\ given' \subseteq Sources \X Int
         /\ read \subseteq read' /\ given \subseteq given'
<1> DEFINE c == poller[k].cursor
           To(n) == [poller[k] EXCEPT !.cursor = n]
<1>1. /\ poller[k] \in Poller /\ ~poller[k].left /\ c \in Int /\ now \in Int
      /\ From(k) \in Int /\ Horizon \in Int /\ c <= From(k) /\ Horizon <= now
      /\ now - CatchUp <= now /\ (c < From(k) => From(k) <= now)
  <2>1. poller[k] \in Poller /\ ~poller[k].left /\ now \in Int
    BY DEF Round, TypeOK
  <2>2. c \in Int
    BY <2>1, PollerFields
  <2> QED
    BY <2>1, <2>2, Constants DEF From, Greater, Horizon
<1>2. \A n \in Int : /\ To(n) \in Poller /\ To(n).retireAt = poller[k].retireAt
                     /\ To(n).left = poller[k].left /\ To(n).cursor = n
  BY <1>1 DEF Poller
<1>3. given' = given \cup {<<k, t>> : t \in c .. From(k) - 1}
  BY DEF Round, SkipAhead
<1>4. given' \subseteq Sources \X Int
  <2>1. \A t \in c .. From(k) - 1 : t \in Int
    BY <1>1
  <2> QED
    BY <1>3, <2>1 DEF TypeOK
<1>5. \A t \in 0..MaxTime : c <= t /\ t < From(k) => <<k, t>> \in given'
  <2>1. \A t \in 0..MaxTime : c <= t /\ t < From(k) => t \in c .. From(k) - 1
    BY <1>1
  <2> QED
    BY <1>3, <2>1
<1>6. CASE /\ From(k) < Horizon /\ poller' = [poller EXCEPT ![k].cursor = Horizon]
           /\ saved' = Stored(k)
           /\ read' = read \cup {<<k, t>> : t \in From(k) .. Horizon}
  <2>1. poller'[k] = To(Horizon) /\ poller' \in [Sources -> Poller \cup {None}]
        /\ \A j \in Sources \ {k} : poller'[j] = poller[j]
    BY <1>1, <1>2, <1>6 DEF TypeOK
  <2>2. \A t \in From(k) .. Horizon : t \in Int /\ <<k, t>> \in read'
    BY <1>1, <1>6
  <2>3. read' \subseteq Sources \X Int
    BY <1>6, <2>2 DEF TypeOK
  <2>4. \A t \in 0..MaxTime : From(k) <= t /\ t < Horizon => t \in From(k) .. Horizon
    BY <1>1
  <2>5. Horizon \in From(k) .. Horizon
    BY <1>1, <1>6
  <2>6. /\ saved' \in [Sources -> Int \cup {None}] /\ saved'[k] \in {Horizon, None}
        /\ \A j \in Sources \ {k} : saved'[j] \in {saved[j], None}
    BY <1>1, <1>6 DEF Stored, TypeOK
  <2>7. \A t \in 0..MaxTime : c <= t /\ t < Horizon => <<k, t>> \in read' \cup given'
    BY <1>1, <1>5, <2>2, <2>4
  <2> QED
    BY <1>1, <1>2, <1>3, <1>4, <1>6, <2>1, <2>2, <2>3, <2>5, <2>6, <2>7
<1>7. CASE /\ c < From(k) /\ poller' = [poller EXCEPT ![k].cursor = From(k)]
           /\ UNCHANGED <<saved, read>>
  <2>1. poller'[k] = To(From(k)) /\ poller' \in [Sources -> Poller \cup {None}]
        /\ \A j \in Sources \ {k} : poller'[j] = poller[j]
    BY <1>1, <1>2, <1>7 DEF TypeOK
  <2> QED
    BY <1>1, <1>2, <1>3, <1>4, <1>5, <1>7, <2>1 DEF TypeOK
<1> QED
  BY <1>6, <1>7 DEF Round

\* The types hold at first.
LEMMA TypeInit == Init => TypeOK /\ Phases
<1> SUFFICES ASSUME Init PROVE TypeOK /\ Phases
  OBVIOUS
<1>1. /\ now = 0 /\ latest = 0 /\ active = 0 /\ served = {} /\ expiry = 0
      /\ cached = None /\ flight = None /\ mgr = "idle" /\ answer = None
      /\ nextTick = None /\ lastReconcile = None /\ startedAt = 0
      /\ read = {} /\ given = {} /\ withdrawn = {} /\ failed = {}
      /\ troubles = MaxTroubles
  BY DEF Init
<1>2. /\ status \in [Deployments -> {"none", "building", "success", "failed"}]
      /\ poller \in [Sources -> Poller \cup {None}]
      /\ saved \in [Sources -> Int \cup {None}]
  BY DEF Init
<1> QED
  BY <1>1, <1>2 DEF TypeOK, Phases

\* Every step keeps them.
LEMMA TypeStep == TypeOK /\ Phases /\ [Next]_vars => TypeOK' /\ Phases'
<1> SUFFICES ASSUME TypeOK, Phases, [Next]_vars
             PROVE  TypeOK' /\ Phases'
  OBVIOUS
<1> USE DEF railway, discovery, manager, pollers
<1>0. served \cup Logging \subseteq Sources \X (0..MaxTime)
  <2>1. active # 0 => active \in Sources
    BY DEF TypeOK, Sources, Deployments
  <2> QED
    BY <2>1, Constants DEF Logging, TypeOK
<1>1. CASE Deploy
  <2>1. latest + 1 \in Deployments /\ latest' \in 0..Last /\ active' \in 0..Last
    BY <1>1 DEF Deploy, TypeOK, Deployments
  <2>2. status' \in [Deployments -> {"none", "building", "success", "failed"}]
    BY <1>1, <2>1 DEF Deploy, TypeOK
  <2>3. served' \subseteq Sources \X (0..MaxTime)
    BY <1>0, <1>1 DEF Deploy
  <2> QED
    BY <1>1, <2>1, <2>2, <2>3 DEF Deploy, TypeOK, Phases
<1>2. CASE Built
  <2>1. latest \in Deployments /\ active' \in 0..Last
    BY <1>2 DEF Built, TypeOK, Deployments
  <2>2. status' \in [Deployments -> {"none", "building", "success", "failed"}]
    BY <1>2, <2>1 DEF Built, TypeOK
  <2>3. served' \subseteq Sources \X (0..MaxTime)
    BY <1>0, <1>2 DEF Built
  <2> QED
    BY <1>2, <2>1, <2>2, <2>3 DEF Built, TypeOK, Phases
<1>3. CASE Tick
  <2>1. served' \subseteq Sources \X (0..MaxTime) /\ now' \in 0..MaxTime
    BY <1>0, <1>3 DEF Tick, TypeOK
  <2> QED
    BY <1>3, <2>1 DEF Tick, TypeOK, Phases
<1>4. CASE MetricsAsks
  BY <1>4 DEF MetricsAsks, TypeOK, Phases
<1>5. ASSUME NEW t \in Target, FetchEnds(t), failed' \subseteq 0..MaxTime,
             troubles' \in 0..MaxTroubles
      PROVE  TypeOK' /\ Phases'
  <2>1. /\ cached' \in Target \cup {None} /\ expiry' \in Nat /\ flight' = None
        /\ answer' \in Target \cup {None} /\ mgr' \in {"idle", "asking", "apply"}
    BY <1>5 DEF FetchEnds, Answer, TypeOK
  <2>2. Phases'
    BY <1>5, Constants DEF FetchEnds, Answer, Phases, TypeOK
  <2> QED
    BY <1>5, <2>1, <2>2 DEF FetchEnds, TypeOK
<1>6. CASE Fetched
  <2>1. failed' \subseteq 0..MaxTime /\ troubles' \in 0..MaxTroubles
    BY <1>6 DEF Fetched, TypeOK
  <2> QED
    BY <1>5, <1>6, <2>1, FoundTarget DEF Fetched
<1>7. CASE FetchedBare
  <2>1. failed' \subseteq 0..MaxTime /\ troubles' \in 0..MaxTroubles
    BY <1>7, HiccupType DEF FetchedBare
  <2> QED
    BY <1>5, <1>7, <2>1, FoundTarget DEF FetchedBare
<1>8. CASE FetchFails
  <2>1. failed' \subseteq 0..MaxTime /\ troubles' \in 0..MaxTroubles
    BY <1>8, HiccupType DEF FetchFails
  <2>2. /\ answer' \in Target \cup {None} /\ mgr' \in {"idle", "asking", "apply"}
        /\ nextTick' \in Nat \cup {None}
    BY <1>8 DEF FetchFails, Answer, ReconcileEnds, TypeOK
  <2>3. Phases'
    BY <1>8 DEF FetchFails, Answer, ReconcileEnds, Phases, TypeOK
  <2> QED
    BY <1>8, <2>1, <2>2, <2>3 DEF FetchFails, TypeOK
<1>9. CASE AskTargets
  <2>1. /\ nextTick' \in Nat \cup {None} /\ mgr' \in {"idle", "asking", "apply"}
        /\ answer' \in Target \cup {None} /\ flight' \in 0..MaxTime \cup {None}
    BY <1>9 DEF AskTargets, TypeOK
  <2>2. Phases'
    BY <1>9, Constants DEF AskTargets, Valid, Phases, TypeOK
  <2> QED
    BY <1>9, <2>1, <2>2 DEF AskTargets, TypeOK
<1>10. CASE Reconcile
  <2>1. poller' \in [Sources -> Poller \cup {None}]
    <3>1. \A k \in Sources : poller'[k] \in Poller \cup {None}
      BY <1>10, Reconciles
    <3>2. poller' = [k \in Sources |-> poller'[k]]
      BY <1>10 DEF Reconcile
    <3> QED
      BY <3>1, <3>2
  <2>2. nextTick' \in Nat \cup {None}
    BY <1>10 DEF Reconcile, ReconcileEnds, TypeOK
  <2>3. given' \subseteq Sources \X Int /\ withdrawn' \subseteq Sources \X (0..MaxTime)
    <3>1. LookedBack \subseteq Sources \X Int
      <4>1. \A t \in 0 .. StartOf - 1 : t \in Int
        OBVIOUS
      <4> QED
        BY <4>1 DEF LookedBack
    <3>2. Withdrawn \subseteq Sources \X (0..MaxTime)
      BY DEF Withdrawn, TypeOK
    <3> QED
      BY <1>10, <3>1, <3>2 DEF Reconcile, TypeOK
  <2> QED
    BY <1>10, <2>1, <2>2, <2>3 DEF Reconcile, ReconcileEnds, TypeOK, Phases
<1>11. ASSUME NEW k \in Sources, Round(k)
       PROVE  TypeOK' /\ Phases'
  <2>1. /\ poller' \in [Sources -> Poller \cup {None}]
        /\ saved' \in [Sources -> Int \cup {None}]
        /\ read' \subseteq Sources \X Int /\ given' \subseteq Sources \X Int
    BY <1>11, RoundMoves
  <2> QED
    BY <1>11, <2>1 DEF Round, TypeOK, Phases
<1>12. ASSUME NEW d \in Deployments, Leave(d)
       PROVE  TypeOK' /\ Phases'
  <2>1. d \in Sources /\ poller[d] \in Poller
    BY <1>12, Constants DEF Leave, TypeOK
  <2>2. [poller[d] EXCEPT !.left = TRUE] \in Poller
    BY <2>1 DEF Poller
  <2>3. poller' \in [Sources -> Poller \cup {None}]
    BY <1>12, <2>1, <2>2 DEF Leave, TypeOK
  <2>4. saved' \in [Sources -> Int \cup {None}]
    BY <1>12, <2>1 DEF Leave, TypeOK
  <2> QED
    BY <1>12, <2>3, <2>4 DEF Leave, TypeOK, Phases
<1>13. ASSUME NEW d \in Deployments, Remove(d)
       PROVE  TypeOK' /\ Phases'
  <2>1. poller' \in [Sources -> Poller \cup {None}]
    BY <1>13, Constants DEF Remove, TypeOK
  <2> QED
    BY <1>13, <2>1 DEF Remove, TypeOK, Phases
<1>14. CASE Restart
  <2>1. poller' \in [Sources -> Poller \cup {None}]
    BY <1>14 DEF Restart
  <2>2. troubles' \in 0..MaxTroubles
    BY <1>14 DEF Restart, TypeOK
  <2>3. /\ startedAt' = now /\ nextTick' = None /\ lastReconcile' = None /\ mgr' = "idle"
        /\ answer' = None /\ cached' = None /\ expiry' = 0 /\ flight' = None
        /\ UNCHANGED <<now, latest, status, active, served, failed, saved, read, given,
                     withdrawn>>
    BY <1>14 DEF Restart
  <2> QED
    BY <2>1, <2>2, <2>3 DEF TypeOK, Phases
<1>15. CASE UNCHANGED vars
  BY <1>15 DEF vars, TypeOK, Phases
<1> QED
  BY <1>1, <1>2, <1>3, <1>4, <1>6, <1>7, <1>8, <1>9, <1>10, <1>11, <1>12, <1>13,
     <1>14, <1>15 DEF Next, Over

\* Every variable keeps its type, whatever discovery answers and however often
\* the program restarts (pipeline.go, reconcile; provider.go, Targets).
THEOREM TypeCorrect == Spec => []TypeOK
<1>1. TypeOK /\ Phases => TypeOK
  OBVIOUS
<1> QED
  BY <1>1, TypeInit, TypeStep, PTL DEF Spec

-----------------------------------------------------------------------------
(* The deploy logs                                                         *)

\* Every step but a round keeps what is stored and read of the environment.
LEMMA DeployKept ==
  ASSUME TypeOK, [Next]_vars, ~Round(Env)
  PROVE  saved'[Env] \in {saved[Env], None} /\ read \subseteq read' /\ given \subseteq given'
<1> USE DEF railway, discovery, manager, pollers
<1>1. ASSUME NEW d \in Deployments, Round(d)
      PROVE  saved'[Env] \in {saved[Env], None} /\ read \subseteq read' /\ given \subseteq given'
  BY <1>1, RoundMoves, Constants
<1>2. ASSUME NEW d \in Deployments, Leave(d)
      PROVE  saved'[Env] \in {saved[Env], None} /\ read \subseteq read' /\ given \subseteq given'
  BY <1>2, Constants DEF Leave, TypeOK
<1>3. CASE Reconcile
  BY <1>3 DEF Reconcile
<1>4. \/ UNCHANGED <<saved, read, given>> \/ Reconcile
      \/ \E d \in Deployments : Round(d) \/ Leave(d)
  BY DEF Next, vars, Deploy, Built, Tick, MetricsAsks, Fetched, FetchedBare, FetchEnds,
     FetchFails, AskTargets, Remove, Restart, Over, Sources
<1> QED
  BY <1>1, <1>2, <1>3, <1>4

\* Every step keeps the environment's poller in touch with the cursor it saved.
LEMMA DeploySavedStep ==
  ASSUME TypeOK, TypeOK', Phases, DeploySaved, [Next]_vars
  PROVE  DeploySaved'
<1> USE DEF railway, discovery, manager, pollers
<1>0. /\ Env \in Sources /\ poller[Env] \in Poller \cup {None}
      /\ saved[Env] \in Int \cup {None} /\ saved'[Env] \in Int \cup {None}
  BY Constants DEF TypeOK
<1>1. CASE Round(Env)
  <2>1. /\ poller[Env] \in Poller /\ poller'[Env] \in Poller
        /\ poller[Env].cursor < poller'[Env].cursor
        /\ \A t \in 0..MaxTime : poller[Env].cursor <= t /\ t < poller'[Env].cursor
             => <<Env, t>> \in read' \cup given'
        /\ \/ saved' = saved /\ read' = read
           \/ /\ <<Env, poller'[Env].cursor>> \in read'
              /\ saved'[Env] \in {poller'[Env].cursor, None}
        /\ read \subseteq read' /\ given \subseteq given'
    BY <1>0, <1>1, RoundMoves
  <2>2. poller[Env].cursor \in Int /\ poller'[Env].cursor \in Int
    BY <2>1, PollerFields
  <2>3. CASE saved' = saved /\ read' = read
    BY <1>0, <2>1, <2>2, <2>3 DEF DeploySaved
  <2>4. CASE saved'[Env] = poller'[Env].cursor /\ <<Env, poller'[Env].cursor>> \in read'
    BY <1>0, <2>1, <2>2, <2>4 DEF DeploySaved
  <2>5. CASE saved'[Env] = None
    BY <2>5 DEF DeploySaved
  <2> QED
    BY <2>1, <2>3, <2>4, <2>5
<1>2. CASE Reconcile
  <2>1. saved' = saved /\ read' = read /\ given \subseteq given'
    BY <1>2 DEF Reconcile
  <2>2. \/ poller'[Env] = None \/ poller'[Env] = NewPoller(Env)
        \/ poller'[Env] = poller[Env] /\ poller[Env] # None
    BY <1>0, <1>2, Reconciles
  <2>3. saved[Env] # None => NewPoller(Env).cursor = saved[Env]
    BY <1>0, NewPollerType
  <2>4. CASE poller'[Env] = NewPoller(Env)
    BY <1>0, <2>1, <2>3, <2>4 DEF DeploySaved
  <2> QED
    BY <1>0, <2>1, <2>2, <2>4 DEF DeploySaved
<1>3. CASE poller'[Env] \in {poller[Env], None} /\ ~Round(Env)
  BY <1>0, <1>3, DeployKept DEF DeploySaved
<1>4. \/ Reconcile \/ Round(Env) \/ poller'[Env] \in {poller[Env], None}
  <2>1. ASSUME NEW d \in Deployments, Round(d)
        PROVE  poller'[Env] = poller[Env]
    BY <1>0, <2>1, RoundMoves, Constants
  <2>2. ASSUME NEW d \in Deployments, Leave(d) \/ Remove(d)
        PROVE  poller'[Env] = poller[Env]
    BY <1>0, <2>2, Constants DEF Leave, Remove, TypeOK
  <2>3. CASE Restart
    BY <1>0, <2>3 DEF Restart
  <2>4. \/ Reconcile \/ Round(Env) \/ Restart \/ UNCHANGED poller
        \/ \E d \in Deployments : Round(d) \/ Leave(d) \/ Remove(d)
    BY DEF Next, vars, Deploy, Built, Tick, MetricsAsks, Fetched, FetchedBare, FetchEnds,
       FetchFails, AskTargets, Over, Sources
  <2> QED
    BY <2>1, <2>2, <2>3, <2>4
<1> QED
  BY <1>1, <1>2, <1>3, <1>4

\* From one save of the environment's cursor to the next no instant is left out
\* but what is skipped at the catch-up limit (pipeline.go, reconcileDeploy;
\* poll.go:211-216, 270-276), for any discovery answers, failures, cancelled
\* pollers, absences and restarts in between.
THEOREM DeployStretchesJoin == Spec => DeploySavesJoin
<1> DEFINE SavedInv == TypeOK /\ Phases /\ DeploySaved
           Joins == saved[Env] # None /\ saved'[Env] # None =>
                      \A t \in 0..MaxTime :
                          <<Env, t>> \in served /\ saved[Env] <= t /\ t <= saved'[Env]
                              => <<Env, t>> \in read' \cup given'
<1>1. Init => SavedInv
  <2>1. Init => DeploySaved
    BY Constants DEF Init, DeploySaved
  <2> QED
    BY <2>1, TypeInit
<1>2. SavedInv /\ [Next]_vars => SavedInv'
  BY TypeStep, DeploySavedStep
<1>3. SavedInv /\ [Next]_vars => Joins
  <2> SUFFICES ASSUME SavedInv, [Next]_vars, saved[Env] # None, saved'[Env] # None,
                      NEW t \in 0..MaxTime, saved[Env] <= t, t <= saved'[Env]
               PROVE  <<Env, t>> \in read' \cup given'
    OBVIOUS
  <2>1. Env \in Sources /\ saved[Env] \in Int /\ <<Env, saved[Env]>> \in read
    BY Constants DEF TypeOK, DeploySaved
  <2>2. ASSUME saved'[Env] = saved[Env], read \subseteq read'
        PROVE  <<Env, t>> \in read' \cup given'
    <3>1. t = saved[Env]
      BY <2>1, <2>2
    <3> QED
      BY <2>1, <2>2, <3>1
  <2>3. CASE ~Round(Env)
    BY <2>2, <2>3, DeployKept
  <2>4. CASE Round(Env)
    <3>1. /\ poller[Env] \in Poller /\ poller'[Env] \in Poller
          /\ \A u \in 0..MaxTime : poller[Env].cursor <= u /\ u < poller'[Env].cursor
               => <<Env, u>> \in read' \cup given'
          /\ \/ saved' = saved /\ read' = read
             \/ /\ <<Env, poller'[Env].cursor>> \in read'
                /\ saved'[Env] \in {poller'[Env].cursor, None}
          /\ read \subseteq read' /\ given \subseteq given'
      BY <2>1, <2>4, RoundMoves
    <3>2. poller[Env].cursor \in Int /\ poller'[Env].cursor \in Int
      BY <3>1, PollerFields
    <3>3. CASE saved' = saved /\ read' = read
      BY <2>2, <3>3
    <3>4. CASE /\ saved'[Env] = poller'[Env].cursor
               /\ <<Env, poller'[Env].cursor>> \in read'
      <4>1. CASE t = saved[Env]
        BY <2>1, <3>1, <4>1
      <4>2. CASE t = poller'[Env].cursor
        BY <3>4, <4>2
      <4>3. CASE saved[Env] < t /\ t < poller[Env].cursor
        <5>1. <<Env, t>> \in read \cup given
          BY <3>1, <4>3, Constants DEF DeploySaved
        <5> QED
          BY <3>1, <5>1
      <4>4. CASE poller[Env].cursor <= t /\ t < poller'[Env].cursor
        BY <3>1, <4>4
      <4> QED
        BY <2>1, <3>2, <3>4, <4>1, <4>2, <4>3, <4>4
    <3> QED
      BY <3>1, <3>3, <3>4
  <2> QED
    BY <2>3, <2>4
<1> HIDE DEF SavedInv
<1>4. SavedInv /\ [Next]_vars => [Joins]_vars
  BY <1>3
<1> QED
  BY <1>1, <1>2, <1>4, PTL DEF Spec, DeploySavesJoin

-----------------------------------------------------------------------------
(* What every step keeps                                                   *)

\* Histories and the clock only grow, and what may be logged is logged now.
LEMMA Grows ==
  ASSUME TypeOK, [Next]_vars
  PROVE  /\ read \subseteq read' /\ given \subseteq given'
         /\ failed \subseteq failed' /\ withdrawn \subseteq withdrawn'
         /\ now \in Int /\ now' \in Int /\ now <= now'
         /\ latest \in Int /\ latest' \in Int /\ latest <= latest'
         /\ \A k \in Sources : \A t \in 0..MaxTime : <<k, t>> \in served' =>
               \/ <<k, t>> \in served
               \/ t = now /\ active # 0 /\ (k = active \/ k = Env)
<1> USE DEF railway, discovery, manager, pollers
<1>0. now \in Int /\ latest \in Int
  BY DEF TypeOK
<1>1. CASE Deploy \/ Built \/ Tick
  <2>1. /\ UNCHANGED <<read, given, failed, withdrawn>>
        /\ latest' = latest \/ latest' = latest + 1
        /\ now' = now \/ now' = now + 1
        /\ served' = served \cup Logging
    BY <1>1 DEF Deploy, Built, Tick
  <2>2. \A k \in Sources : \A t \in 0..MaxTime : <<k, t>> \in Logging =>
           t = now /\ active # 0 /\ (k = active \/ k = Env)
    BY DEF Logging
  <2> QED
    BY <1>0, <2>1, <2>2
<1>2. ASSUME NEW k \in Sources, Round(k)
      PROVE  /\ read \subseteq read' /\ given \subseteq given'
             /\ UNCHANGED <<failed, withdrawn, now, latest, served>>
  BY <1>2, RoundMoves DEF Round
<1>3. CASE FetchedBare \/ FetchFails
  BY <1>0, <1>3 DEF FetchedBare, FetchFails, FetchEnds, Hiccup
<1>4. CASE Reconcile
  BY <1>0, <1>4 DEF Reconcile
<1>5. CASE UNCHANGED <<now, latest, served, failed, read, given, withdrawn>>
  BY <1>0, <1>5
<1>6. \/ Deploy \/ Built \/ Tick \/ FetchedBare \/ FetchFails \/ Reconcile
      \/ \E k \in Sources : Round(k)
      \/ UNCHANGED <<now, latest, served, failed, read, given, withdrawn>>
  BY DEF Next, vars, MetricsAsks, Fetched, FetchEnds, AskTargets, Leave, Remove, Restart, Over
<1> QED
  BY <1>0, <1>1, <1>2, <1>3, <1>4, <1>5, <1>6

\* A deployment that has been up, has been up.
LEMMA UpStays ==
  ASSUME TypeOK, [Next]_vars, NEW d \in Deployments, Up(d)
  PROVE  Up(d)'
<1> USE DEF railway, discovery, manager, pollers
<1>0. d \in Int /\ latest \in Int /\ d <= latest
      /\ status \in [Deployments -> {"none", "building", "success", "failed"}]
  BY Constants DEF TypeOK, Up
<1>1. CASE Deploy
  BY <1>0, <1>1 DEF Deploy, Up
<1>2. CASE Built
  BY <1>0, <1>2 DEF Built, Up
<1>3. CASE UNCHANGED <<latest, status>>
  BY <1>3 DEF Up
<1>4. Deploy \/ Built \/ UNCHANGED <<latest, status>>
  BY DEF Next, vars, Tick, MetricsAsks, Fetched, FetchedBare, FetchEnds, FetchFails,
     AskTargets, Reconcile, Round, Leave, Remove, Restart, Over
<1> QED
  BY <1>1, <1>2, <1>3, <1>4

\* What is settled by now remains so.
LEMMA StaysSettled ==
  ASSUME TypeOK, TypeOK', [Next]_vars, NEW k \in Sources, NEW t \in 0..MaxTime, t <= now,
         Settled(k, t)
  PROVE  Settled(k, t)'
<1>1. /\ read \subseteq read' /\ given \subseteq given'
      /\ failed \subseteq failed' /\ withdrawn \subseteq withdrawn'
      /\ now \in Int /\ now <= now'
      /\ \A u \in 0..MaxTime : <<k, u>> \in served' => <<k, u>> \in served \/ u = now
  BY Grows
<1>2. CASE <<k, t>> \in read \cup given
  BY <1>1, <1>2 DEF Settled
<1>3. CASE \A u \in 0..MaxTime : <<k, u>> \in served => t < u + TTL
  <2>1. \A u \in 0..MaxTime : <<k, u>> \in served' => t < u + TTL
    BY <1>1, <1>3, Constants
  <2> QED
    BY <2>1 DEF Settled, Explained
<1>4. CASE \E h \in failed : t < h + TTL
  <2>1. \E h \in failed' : t < h + TTL
    BY <1>1, <1>4
  <2> QED
    BY <2>1 DEF Settled, Explained
<1>5. CASE k # Env /\ \E r \in 0..t : <<k, r>> \in withdrawn
  <2>1. k # Env /\ \E r \in 0..t : <<k, r>> \in withdrawn'
    BY <1>1, <1>5
  <2> QED
    BY <2>1 DEF Settled, Explained
<1> QED
  BY <1>2, <1>3, <1>4, <1>5 DEF Settled, Explained

\* Of what may be logged after the step, what is before now was before it too.
LEMMA ServedBefore ==
  ASSUME TypeOK, TypeOK', [Next]_vars, NEW k \in Sources, NEW t \in 0..MaxTime, t < now,
         <<k, t>> \in served', <<k, t>> \in served => Settled(k, t)
  PROVE  Settled(k, t)'
<1>1. now \in Int /\ (<<k, t>> \in served \/ t = now)
  BY Grows
<1> QED
  BY <1>1, StaysSettled

\* How the cache changes.
LEMMA Caches ==
  ASSUME TypeOK, [Next]_vars
  PROVE  \/ UNCHANGED <<cached, expiry>>
         \/ /\ Fetched /\ flight # None /\ cached' = Found /\ expiry' = now + TTL
            /\ UNCHANGED <<now, latest, status, active, served, poller>>
         \/ /\ FetchedBare /\ cached' \in {Bare, None} /\ expiry' = now + TTL
            /\ now \in failed' /\ UNCHANGED <<now, latest, status, active, served, poller>>
         \/ Restart /\ cached' = None
<1> USE DEF railway, discovery, manager, pollers
<1>1. CASE Fetched
  BY <1>1, FoundTarget DEF Fetched, FetchEnds
<1>2. CASE FetchedBare
  BY <1>2 DEF FetchedBare, FetchEnds, Hiccup
<1>3. CASE Restart
  BY <1>3 DEF Restart
<1>4. Fetched \/ FetchedBare \/ Restart \/ UNCHANGED <<cached, expiry>>
  BY DEF Next, vars, Deploy, Built, Tick, MetricsAsks, FetchFails, AskTargets, Reconcile,
     Round, Leave, Remove, Over
<1> QED
  BY <1>1, <1>2, <1>3, <1>4

\* Where an answer comes from that is there to be applied.
LEMMA Comes ==
  ASSUME TypeOK, Phases, [Next]_vars, mgr' = "apply"
  PROVE  \/ mgr = "apply" /\ answer' = answer
         \/ AskTargets /\ Valid /\ answer' = cached /\ UNCHANGED <<cached, expiry, now>>
         \/ FetchFails /\ answer' = cached /\ UNCHANGED <<cached, expiry, now>> /\ now \in failed'
         \/ Fetched /\ answer' = Found /\ cached' = Found /\ expiry' = now + TTL /\ now' = now
         \/ FetchedBare /\ answer' = Bare /\ now \in failed' /\ now' = now
<1> USE DEF railway, discovery, manager, pollers
<1>1. CASE AskTargets
  BY <1>1 DEF AskTargets
<1>2. CASE FetchFails
  BY <1>2 DEF FetchFails, Answer, ReconcileEnds, Hiccup
<1>3. CASE Fetched
  BY <1>3, FoundTarget DEF Fetched, FetchEnds, Answer
<1>4. CASE FetchedBare
  BY <1>4 DEF FetchedBare, FetchEnds, Answer, Hiccup
<1>5. CASE Reconcile \/ Restart
  BY <1>5 DEF Reconcile, ReconcileEnds, Restart
<1>6. CASE UNCHANGED <<mgr, answer>>
  BY <1>6
<1>7. \/ AskTargets \/ FetchFails \/ Fetched \/ FetchedBare \/ Reconcile \/ Restart
      \/ UNCHANGED <<mgr, answer>>
  BY DEF Next, vars, Deploy, Built, Tick, MetricsAsks, Round, Leave, Remove, Over
<1> QED
  BY <1>1, <1>2, <1>3, <1>4, <1>5, <1>6, <1>7

\* How a source's poller and its saved cursor change.
LEMMA Changes ==
  ASSUME TypeOK, [Next]_vars, NEW k \in Sources
  PROVE  /\ \/ poller'[k] = poller[k] \/ Reconcile \/ Round(k)
            \/ /\ k \in Deployments /\ Leave(k) /\ poller[k] \in Poller /\ poller'[k] \in Poller
               /\ poller[k].retireAt # None /\ poller[k].cursor >= poller[k].retireAt
               /\ poller'[k].cursor = poller[k].cursor
               /\ poller'[k].retireAt = poller[k].retireAt /\ poller'[k].left
            \/ /\ k \in Deployments /\ Remove(k) /\ poller'[k] = None
               /\ poller[k] # None /\ poller[k].left
            \/ Restart /\ poller'[k] = None
         /\ saved'[k] \in {saved[k], None} \/ Round(k)
<1> USE DEF railway, discovery, manager, pollers
<1>0. poller[k] \in Poller \cup {None}
  BY DEF TypeOK
<1>1. ASSUME NEW j \in Sources, Round(j), j # k
      PROVE  poller'[k] = poller[k] /\ saved'[k] \in {saved[k], None}
  BY <1>1, RoundMoves
<1>2. ASSUME NEW d \in Deployments, Leave(d), d # k
      PROVE  poller'[k] = poller[k] /\ saved'[k] = saved[k]
  BY <1>2, Constants DEF Leave, TypeOK
<1>3. ASSUME NEW d \in Deployments, Remove(d), d # k
      PROVE  poller'[k] = poller[k] /\ saved'[k] = saved[k]
  BY <1>3, Constants DEF Remove, TypeOK
<1>4. ASSUME k \in Deployments, Leave(k)
      PROVE  /\ poller[k] \in Poller /\ poller'[k] \in Poller
             /\ poller[k].retireAt # None /\ poller[k].cursor >= poller[k].retireAt
             /\ poller'[k].cursor = poller[k].cursor
             /\ poller'[k].retireAt = poller[k].retireAt /\ poller'[k].left
             /\ saved'[k] = None
  <2>1. poller[k] \in Poller /\ poller'[k] = [poller[k] EXCEPT !.left = TRUE]
    BY <1>0, <1>4 DEF Leave, TypeOK
  <2>2. saved'[k] = None /\ poller[k].retireAt # None /\ poller[k].cursor >= poller[k].retireAt
    BY <1>4 DEF Leave, TypeOK
  <2> QED
    BY <2>1, <2>2 DEF Poller
<1>5. ASSUME k \in Deployments, Remove(k)
      PROVE  poller'[k] = None /\ poller[k] # None /\ poller[k].left /\ saved'[k] = saved[k]
  BY <1>5 DEF Remove, TypeOK
<1>6. CASE Restart
  BY <1>6 DEF Restart
<1>7. CASE Reconcile
  BY <1>7 DEF Reconcile
<1>8. \/ UNCHANGED <<poller, saved>> \/ Reconcile \/ Restart
      \/ \E j \in Sources : Round(j)
      \/ \E d \in Deployments : Leave(d) \/ Remove(d)
  BY DEF Next, vars, Deploy, Built, Tick, MetricsAsks, Fetched, FetchedBare, FetchEnds,
     FetchFails, AskTargets, Over
<1> QED
  BY <1>1, <1>2, <1>3, <1>4, <1>5, <1>6, <1>7, <1>8

-----------------------------------------------------------------------------
(* The clock, the answers, and what has been up                            *)

\* Every step keeps everything behind the clock.
LEMMA ClockedStep ==
  ASSUME TypeOK, TypeOK', Phases, Clocked, [Next]_vars
  PROVE  Clocked'
<1> USE DEF railway, discovery, manager, pollers
<1>0. /\ now \in Int /\ now' \in Int /\ now <= now' /\ expiry \in Int
      /\ startedAt \in Int /\ (lastReconcile # None => lastReconcile \in Int)
      /\ failed \subseteq Int
  BY Grows DEF TypeOK
<1>1. \A h \in failed' : h <= now'
  <2>1. CASE Hiccup
    <3>1. failed' = failed \cup {now}
      BY <2>1 DEF Hiccup
    <3>2. \A h \in failed : h \in Int /\ h <= now
      BY <1>0 DEF Clocked
    <3> QED
      BY <1>0, <3>1, <3>2
  <2>2. CASE failed' = failed
    BY <1>0, <2>2 DEF Clocked
  <2>3. Hiccup \/ failed' = failed
    BY DEF Next, vars, Deploy, Built, Tick, MetricsAsks, Fetched, FetchedBare, FetchFails,
       AskTargets, Reconcile, Round, Leave, Remove, Restart, Over
  <2> QED
    BY <2>1, <2>2, <2>3
<1>2. cached' # None => expiry' - TTL <= now'
  BY <1>0, Caches, Constants DEF Clocked
<1>3. lastReconcile' # None => lastReconcile' <= now'
  <2>1. lastReconcile' = None \/ lastReconcile' = lastReconcile \/ lastReconcile' = now
    BY DEF Next, vars, Deploy, Built, Tick, MetricsAsks, Fetched, FetchedBare, FetchEnds,
       FetchFails, AskTargets, Reconcile, Round, Leave, Remove, Restart, Over
  <2> QED
    BY <1>0, <2>1 DEF Clocked
<1>4. startedAt' <= now'
  <2>1. startedAt' = startedAt \/ startedAt' = now
    BY DEF Next, vars, Deploy, Built, Tick, MetricsAsks, Fetched, FetchedBare, FetchEnds,
       FetchFails, AskTargets, Reconcile, Round, Leave, Remove, Restart, Over
  <2> QED
    BY <1>0, <2>1 DEF Clocked
<1>5. \A k \in Sources : \A t \in 0..MaxTime : <<k, t>> \in served' => t <= now'
  BY <1>0, Grows DEF Clocked
<1>6. ASSUME NEW k \in Sources
      PROVE  /\ saved'[k] # None => saved'[k] <= now'
             /\ poller'[k] # None => poller'[k].cursor <= now'
  <2>0. /\ poller[k] # None => poller[k] \in Poller /\ poller[k].cursor \in Int
                               /\ poller[k].cursor <= now
        /\ saved[k] # None => saved[k] \in Int /\ saved[k] <= now
    BY PollerFields DEF TypeOK, Clocked
  <2>1. CASE Round(k)
    <3>1. /\ poller'[k] \in Poller /\ poller'[k].cursor <= now
          /\ saved'[k] \in {saved[k], None, poller'[k].cursor}
      BY <2>1, RoundMoves
    <3>2. poller'[k].cursor \in Int
      BY <3>1, PollerFields
    <3> QED
      BY <1>0, <2>0, <3>1, <3>2
  <2>2. CASE Reconcile
    <3>1. StartOf \in Int /\ StartOf <= now
      BY <1>0, Constants DEF StartOf, Clocked
    <3>2. NewPoller(k).cursor \in Int /\ NewPoller(k).cursor <= now
      BY <2>0, <3>1, NewPollerType
    <3>3. poller[k] # None => [poller[k] EXCEPT !.retireAt = now].cursor = poller[k].cursor
      BY <2>0 DEF Poller
    <3>4. poller'[k] # None => poller'[k].cursor \in Int /\ poller'[k].cursor <= now
      BY <2>0, <2>2, <3>2, <3>3, Reconciles
    <3>5. saved' = saved
      BY <2>2 DEF Reconcile
    <3> QED
      BY <1>0, <2>0, <3>4, <3>5
  <2> QED
    BY <1>0, <2>0, <2>1, <2>2, Changes
<1> QED
  BY <1>1, <1>2, <1>3, <1>4, <1>5, <1>6 DEF Clocked

\* While an answer waits to be applied, time does not pass.
LEMMA NoTimeToApply ==
  ASSUME TypeOK, [Next]_vars, mgr = "apply"
  PROVE  now' = now
BY DEF Next, vars, railway, discovery, manager, pollers, Deploy, Built, Tick, Waiting,
   MetricsAsks, Fetched, FetchedBare, FetchEnds, FetchFails, AskTargets, Reconcile,
   Round, Leave, Remove, Restart, Over

\* Every step keeps what is applied to the cache, unless discovery has failed.
LEMMA AnswersStep ==
  ASSUME TypeOK, TypeOK', Phases, Phases', Clocked, Answers, [Next]_vars
  PROVE  Answers'
<1> USE DEF railway, discovery, manager, pollers
<1>0. /\ now \in Int /\ now' \in Int /\ now <= now' /\ expiry \in Int
      /\ failed \subseteq failed' /\ failed' \subseteq Int
  BY Grows DEF TypeOK
<1>1. flight' # None => ~Valid'
  <2>1. CASE AskTargets \/ MetricsAsks
    BY <2>1 DEF AskTargets, MetricsAsks, Valid, Answers
  <2>2. CASE flight' = None
    BY <2>2
  <2>3. CASE flight' = flight /\ cached' = cached /\ expiry' = expiry
    BY <1>0, <2>3 DEF Valid, Answers
  <2>4. \/ AskTargets \/ MetricsAsks \/ flight' = None
        \/ flight' = flight /\ cached' = cached /\ expiry' = expiry
    BY DEF Next, vars, Deploy, Built, Tick, Fetched, FetchedBare, FetchEnds, FetchFails,
       Reconcile, Round, Leave, Remove, Restart, Over
  <2> QED
    BY <2>1, <2>2, <2>3, <2>4
<1>2. cached' # None => cached'.env
  <2>1. FetchedBare => cached' = IF Bare.env THEN Bare ELSE None
    BY DEF FetchedBare, FetchEnds
  <2> QED
    BY <2>1, Caches, FoundTarget DEF Answers
<1>3. mgr' = "apply" => (answer' = cached' /\ Valid') \/ Recent'
  <2> SUFFICES ASSUME mgr' = "apply"
               PROVE  (answer' = cached' /\ Valid') \/ Recent'
    OBVIOUS
  <2>1. ASSUME now \in failed', now' = now
        PROVE  Recent'
    BY <1>0, <2>1, Constants DEF Recent
  <2>2. CASE mgr = "apply" /\ answer' = answer
    <3>1. now' = now
      BY <2>2, NoTimeToApply
    <3>2. CASE Recent
      BY <1>0, <3>1, <3>2 DEF Recent
    <3>3. CASE answer = cached /\ Valid
      <4>1. flight = None
        BY <3>3 DEF Answers
      <4>2. UNCHANGED <<cached, expiry>>
        <5>1. ~Fetched /\ ~FetchedBare
          BY <4>1 DEF Fetched, FetchedBare, FetchEnds
        <5>2. ~Restart
          BY DEF Restart
        <5> QED
          BY <5>1, <5>2, Caches
      <4> QED
        BY <2>2, <3>1, <3>3, <4>2 DEF Valid
    <3> QED
      BY <2>2, <3>2, <3>3 DEF Answers
  <2>3. CASE AskTargets /\ Valid /\ answer' = cached /\ UNCHANGED <<cached, expiry, now>>
    BY <2>3 DEF Valid
  <2>4. CASE FetchFails /\ answer' = cached /\ UNCHANGED <<cached, expiry, now>> /\ now \in failed'
    BY <2>1, <2>4
  <2>5. CASE Fetched /\ answer' = Found /\ cached' = Found /\ expiry' = now + TTL /\ now' = now
    BY <1>0, <2>5, FoundTarget, Constants DEF Valid
  <2>6. CASE FetchedBare /\ answer' = Bare /\ now \in failed' /\ now' = now
    BY <2>1, <2>6
  <2> QED
    BY <2>2, <2>3, <2>4, <2>5, <2>6, Comes
<1> QED
  BY <1>1, <1>2, <1>3 DEF Answers

\* What discovery names has been up, if it is what there is.
LEMMA FoundUp ==
  ASSUME TypeOK
  PROVE  /\ Found.dep # 0 => Found.dep = latest /\ Found.dep \in Deployments /\ Up(Found.dep)
         /\ \A d \in Deployments : Up(d) => d = Found.dep \/ d < latest
         /\ Bare.dep = 0
<1>1. latest \in 0..Last /\ \A d \in Deployments : d \in Int /\ d > 0
  BY DEF TypeOK, Deployments
<1>2. Found.dep = DeploymentID /\ Bare.dep = 0
  BY FoundTarget DEF Bare
<1> QED
  BY <1>1, <1>2 DEF DeploymentID, Up, Deployments

\* A target's deployment is one, or none.
LEMMA DepType ==
  \A t \in Target : t.env \in BOOLEAN /\ t.dep \in Int /\ (t.dep # 0 => t.dep \in Deployments)
  BY Constants DEF Target, Deployments

\* Every step keeps to deployments that have been up.
LEMMA ServingStep ==
  ASSUME TypeOK, TypeOK', Phases, Phases', Serving, [Next]_vars
  PROVE  Serving'
<1> USE DEF railway, discovery, manager, pollers
<1>0. \A d \in Deployments : d <= latest /\ (d = latest => status[d] = "success")
         => d <= latest' /\ (d = latest' => status'[d] = "success")
  BY UpStays DEF Up
<1>1. active' # 0 => Up(active)'
  <2>0. active # 0 => active \in Deployments
    BY DEF TypeOK, Deployments
  <2>1. CASE Deploy
    <3>1. \/ active' = active
          \/ active' = latest' /\ latest' \in Deployments /\ status'[latest'] = "success"
      BY <2>1 DEF Deploy, TypeOK, Deployments
    <3> QED
      BY <1>0, <2>0, <3>1, Constants DEF Serving, Up
  <2>2. CASE Built
    <3>1. \/ active' = active
          \/ active' = latest' /\ latest' \in Deployments /\ status'[latest'] = "success"
      BY <2>2 DEF Built, TypeOK, Deployments
    <3> QED
      BY <1>0, <2>0, <3>1, Constants DEF Serving, Up
  <2>3. CASE active' = active
    BY <1>0, <2>0, <2>3 DEF Serving, Up
  <2>4. Deploy \/ Built \/ active' = active
    BY DEF Next, vars, Tick, MetricsAsks, Fetched, FetchedBare, FetchEnds, FetchFails,
       AskTargets, Reconcile, Round, Leave, Remove, Restart, Over
  <2> QED
    BY <2>1, <2>2, <2>3, <2>4
<1>2. cached' # None /\ cached'.dep # 0 => Up(cached.dep)'
  <2>1. cached # None => cached \in Target
    BY DEF TypeOK
  <2> QED
    BY <1>0, <2>1, Caches, FoundUp, DepType DEF Serving, Up
<1>3. mgr' = "apply" /\ answer'.dep # 0 => Up(answer.dep)'
  <2> SUFFICES ASSUME mgr' = "apply", answer'.dep # 0
               PROVE  Up(answer.dep)'
    OBVIOUS
  <2>1. answer' \in Target /\ (cached # None => cached \in Target)
    BY DEF TypeOK, Phases
  <2>2. answer'.dep \in Deployments
    BY <2>1, DepType
  <2>3. CASE mgr = "apply" /\ answer' = answer
    BY <1>0, <2>2, <2>3 DEF Serving, Up
  <2>4. CASE answer' = cached
    BY <1>0, <2>1, <2>2, <2>4, Constants DEF Serving, Up
  <2>5. CASE answer' = Found
    BY <1>0, <2>2, <2>5, FoundUp DEF Up
  <2>6. CASE answer' = Bare
    BY <2>6, FoundUp
  <2> QED
    BY <2>3, <2>4, <2>5, <2>6, Comes
<1>4. ASSUME NEW d \in Deployments, poller'[d] # None
      PROVE  Up(d)'
  <2>0. d \in Sources /\ d # Env /\ d # 0
    BY Constants
  <2>1. CASE poller[d] # None
    BY <1>0, <2>1 DEF Serving, Up
  <2>2. CASE poller[d] = None
    <3>1. ~Round(d)
      BY <2>2 DEF Round
    <3>2. Reconcile
      BY <1>4, <2>0, <2>2, <3>1, Changes DEF Leave, Remove
    <3>3. mgr = "apply" /\ answer.dep = d
      BY <1>4, <2>0, <2>2, <3>2, Reconciles DEF Wants, Reconcile
    <3> QED
      BY <1>0, <2>0, <3>3 DEF Serving, Up
  <2> QED
    BY <2>1, <2>2
<1>5. ASSUME NEW d \in Deployments, NEW t \in 0..MaxTime, <<d, t>> \in served'
      PROVE  Up(d)'
  <2>1. <<d, t>> \in served \/ (active # 0 /\ d = active)
    BY <1>5, Grows, Constants
  <2> QED
    BY <1>0, <2>1 DEF Serving, Up
<1> QED
  BY <1>1, <1>2, <1>3, <1>4, <1>5 DEF Serving

\* A cache that is doubtful remains so until it is filled anew.
LEMMA DoubtStays ==
  ASSUME TypeOK, TypeOK', [Next]_vars, UNCHANGED <<cached, expiry>>, ~Doubtful'
  PROVE  ~Doubtful
  BY Grows DEF Doubtful

\* An answer that is found in part leaves a doubtful cache.
LEMMA BareDoubtful ==
  ASSUME TypeOK, TypeOK', now \in failed', expiry' = now + TTL
  PROVE  Doubtful'
  BY DEF Doubtful, TypeOK

\* Every step keeps the cache to what had served when it was filled.
LEMMA FilledStep ==
  ASSUME TypeOK, TypeOK', Clocked, Serving, Filled, [Next]_vars
  PROVE  Filled'
<1> SUFFICES ASSUME cached' # None, ~Doubtful', NEW d \in Deployments, NEW t \in 0..MaxTime,
                    <<d, t>> \in served'
             PROVE  d = cached'.dep \/ d < latest' \/ t >= expiry' - TTL
  BY DEF Filled
<1>0. /\ now \in Int /\ latest \in Int /\ latest' \in Int /\ latest <= latest' /\ expiry \in Int
      /\ <<d, t>> \in served \/ (t = now /\ active # 0 /\ d = active)
      /\ d \in Int
  BY Grows, Constants DEF TypeOK
<1>1. CASE UNCHANGED <<cached, expiry>>
  <2>1. ~Doubtful
    BY <1>1, DoubtStays
  <2>2. expiry - TTL <= now
    BY <1>1 DEF Clocked
  <2>3. CASE <<d, t>> \in served
    BY <1>0, <1>1, <2>1, <2>3 DEF Filled
  <2>4. CASE t = now
    BY <1>1, <2>2, <2>4
  <2> QED
    BY <1>0, <2>3, <2>4
<1>2. CASE /\ Fetched /\ flight # None /\ cached' = Found /\ expiry' = now + TTL
           /\ UNCHANGED <<now, latest, status, active, served, poller>>
  <2>1. Up(d)
    BY <1>0, <1>2 DEF Serving
  <2> QED
    BY <1>2, <2>1, FoundUp
<1>3. ~FetchedBare
  BY Caches, BareDoubtful DEF FetchedBare, FetchEnds, Hiccup
<1> QED
  BY <1>1, <1>2, <1>3, Caches

\* Every step keeps the cache naming the deployment that has a poller.
LEMMA NamedStep ==
  ASSUME TypeOK, TypeOK', Phases, Phases', Clocked, Serving, Serving', Answers, Named, [Next]_vars
  PROVE  Named'
<1> SUFFICES ASSUME cached' # None, ~Doubtful', NEW d \in Deployments,
                    poller'[d] # None \/ (mgr' = "apply" /\ answer'.dep = d)
             PROVE  d = cached'.dep \/ d < latest'
  BY DEF Named
<1>0. /\ latest \in Int /\ latest' \in Int /\ latest <= latest' /\ d \in Int
      /\ d \in Sources /\ d # Env /\ d # 0
  BY Grows, Constants
<1>1. ~FetchedBare
  BY Caches, BareDoubtful DEF FetchedBare, FetchEnds, Hiccup
<1>2. CASE UNCHANGED <<cached, expiry>>
  <2>1. ~Doubtful
    BY <1>2, DoubtStays
  <2>2. ASSUME poller[d] # None \/ (mgr = "apply" /\ answer.dep = d)
        PROVE  d = cached'.dep \/ d < latest'
    BY <1>0, <1>2, <2>1, <2>2 DEF Named
  <2>3. CASE mgr' = "apply" /\ answer'.dep = d
    BY <1>0, <1>1, <1>2, <2>2, <2>3, Comes
  <2>4. CASE poller'[d] # None
    <3>1. CASE poller[d] = None
      <4>1. ~Round(d)
        BY <3>1 DEF Round
      <4>2. Reconcile
        BY <1>0, <2>4, <3>1, <4>1, Changes DEF Leave, Remove
      <4>3. mgr = "apply" /\ answer.dep = d
        BY <1>0, <2>4, <3>1, <4>2, Reconciles DEF Wants, Reconcile
      <4> QED
        BY <2>2, <4>3
    <3> QED
      BY <2>2, <3>1
  <2> QED
    BY <2>3, <2>4
<1>3. CASE /\ Fetched /\ flight # None /\ cached' = Found /\ expiry' = now + TTL
           /\ UNCHANGED <<now, latest, status, active, served, poller>>
  <2>1. mgr' = "apply" /\ answer'.dep = d => Up(d)'
    BY <1>0 DEF Serving
  <2>2. poller'[d] # None => Up(d)'
    BY DEF Serving
  <2>3. Up(d)
    BY <1>3, <2>1, <2>2 DEF Up
  <2> QED
    BY <1>3, <2>3, FoundUp
<1> QED
  BY <1>1, <1>2, <1>3, Caches

-----------------------------------------------------------------------------
(* What is lost                                                            *)

\* A line is explained while discovery has failed in the interval before.
LEMMA RecentSettles ==
  ASSUME TypeOK, Recent, NEW k \in Sources, NEW t \in 0..MaxTime, t <= now
  PROVE  Settled(k, t)
<1>1. PICK h \in failed : now < h + TTL
  BY DEF Recent
<1>2. h \in Int /\ now \in Int
  BY DEF TypeOK
<1>3. t < h + TTL
  BY <1>1, <1>2, Constants
<1> QED
  BY <1>1, <1>3 DEF Settled, Explained

\* If discovery has not failed lately, the answer applied is a sound cache.
LEMMA AppliesSound ==
  ASSUME TypeOK, Phases, Clocked, Answers, mgr = "apply", ~Recent
  PROVE  /\ answer = cached /\ cached # None /\ cached.env /\ ~Doubtful
         /\ expiry - TTL <= now /\ now < expiry
<1>1. answer = cached /\ Valid /\ cached # None /\ cached.env /\ now < expiry
  BY DEF Answers, Valid
<1>2. ~Doubtful
  BY <1>1, Constants DEF Doubtful, Recent, TypeOK
<1> QED
  BY <1>1, <1>2 DEF Clocked

\* What an unpolled source that the answer does not name has lost, is explained.
LEMMA UnwantedSettled ==
  ASSUME TypeOK, Phases, Clocked, Answers, Filled, mgr = "apply",
         NEW k \in Sources, ~Wants(k, answer), Findable(k),
         NEW t \in 0..MaxTime, <<k, t>> \in served
  PROVE  Settled(k, t)
<1>1. t <= now /\ now \in Int /\ latest \in Int
  BY DEF Clocked, TypeOK
<1>2. CASE Recent
  BY <1>1, <1>2, RecentSettles
<1>3. CASE ~Recent
  <2>1. /\ answer = cached /\ cached # None /\ cached.env /\ ~Doubtful
        /\ expiry - TTL <= now /\ now < expiry
    BY <1>3, AppliesSound
  <2>2. k # Env /\ k \in Deployments /\ k # cached.dep
    BY <2>1 DEF Wants, Sources
  <2>3. k >= latest /\ k \in Int
    BY <2>1, <2>2, Constants DEF Findable
  <2>4. \A u \in 0..MaxTime : <<k, u>> \in served => u >= expiry - TTL
    BY <1>1, <2>1, <2>2, <2>3 DEF Filled
  <2>5. \A u \in 0..MaxTime : <<k, u>> \in served => t < u + TTL
    <3>1. expiry \in Int
      BY DEF TypeOK
    <3> QED
      BY <1>1, <2>1, <2>4, <3>1, Constants
  <2> QED
    BY <2>5 DEF Settled, Explained
<1> QED
  BY <1>2, <1>3

\* A retired poller that has left has left nothing that is not explained.
LEMMA LeftSettled ==
  ASSUME TypeOK, Polled, Retired, NEW d \in Deployments, poller[d] # None, poller[d].left,
         NEW t \in 0..MaxTime, <<d, t>> \in served
  PROVE  Settled(d, t)
<1>1. /\ d \in Sources /\ d # Env /\ poller[d] \in Poller
      /\ poller[d].retireAt # None /\ poller[d].cursor >= poller[d].retireAt
      /\ <<d, poller[d].retireAt>> \in withdrawn
  BY Constants DEF Retired, TypeOK
<1>2. poller[d].cursor \in Int /\ poller[d].retireAt \in 0..MaxTime
  BY <1>1, PollerFields
<1>3. CASE t < poller[d].cursor
  BY <1>1, <1>3 DEF Polled, SettledTo
<1>4. CASE poller[d].retireAt <= t
  <2>1. poller[d].retireAt \in 0..t
    BY <1>2, <1>4
  <2> QED
    BY <1>1, <2>1 DEF Settled, Explained
<1> QED
  BY <1>1, <1>2, <1>3, <1>4

\* Discovery names no deployment anew but the latest.
LEMMA FindableBefore ==
  ASSUME TypeOK, TypeOK', Phases, Phases', [Next]_vars, NEW k \in Sources, Findable(k)'
  PROVE  Findable(k)
<1>0. /\ latest \in Int /\ latest' \in Int /\ latest <= latest' /\ k \in Int
      /\ k = Env \/ k # 0
  BY Grows, Constants DEF Sources, Env
<1>1. k >= latest' => Findable(k)
  BY <1>0 DEF Findable
<1>2. Found.dep = k => Findable(k)
  BY <1>0, FoundUp DEF Findable
<1>3. Bare.dep = k => Findable(k)
  BY <1>0, FoundUp DEF Findable
<1>4. cached' # None /\ cached'.dep = k => Findable(k)
  BY <1>2, <1>3, Caches DEF Findable
<1>5. mgr' = "apply" /\ answer'.dep = k => Findable(k)
  <2>1. mgr' = "apply" /\ answer' = cached => cached # None
    BY DEF Phases
  <2> QED
    BY <1>2, <1>3, <2>1, Comes DEF Findable
<1> QED
  BY <1>1, <1>4, <1>5 DEF Findable

\* Every step keeps what a source lost before the last reconcile explained.
LEMMA UnpolledStep ==
  ASSUME TypeOK, TypeOK', Phases, Phases', Clocked, Answers, Filled, Unpolled, Polled,
         Retired, [Next]_vars
  PROVE  Unpolled'
<1> SUFFICES ASSUME lastReconcile' # None, NEW k \in Sources, poller'[k] = None,
                    Findable(k)', NEW t \in 0..MaxTime, <<k, t>> \in served',
                    t < lastReconcile'
             PROVE  Settled(k, t)'
  BY DEF Unpolled, SettledTo
<1> USE DEF railway, discovery, manager, pollers
<1>0. now \in Int /\ Findable(k) /\ (lastReconcile # None => lastReconcile \in Int)
  BY FindableBefore DEF TypeOK
<1>1. CASE Reconcile
  <2>1. lastReconcile' = now /\ mgr = "apply"
    BY <1>1 DEF Reconcile
  <2>2. ~Wants(k, answer)
    BY <1>1, NewPollerType, Constants, Reconciles
  <2>3. <<k, t>> \in served => Settled(k, t)
    BY <1>0, <2>1, <2>2, UnwantedSettled
  <2> QED
    BY <2>1, <2>3, ServedBefore
<1>2. CASE ~Reconcile
  <2>1. lastReconcile' = lastReconcile
    BY <1>2 DEF Next, vars, Deploy, Built, Tick, MetricsAsks, Fetched, FetchedBare, FetchEnds,
       FetchFails, AskTargets, Round, Leave, Remove, Restart, Over
  <2>2. t < now
    BY <1>0, <2>1 DEF Clocked
  <2>3. CASE poller[k] = None
    BY <1>0, <2>1, <2>2, <2>3, ServedBefore DEF Unpolled, SettledTo
  <2>4. CASE poller[k] # None
    <3>1. ~Round(k)
      BY RoundMoves, Constants
    <3>2. k \in Deployments /\ poller[k].left
      <4>1. ~Restart
        BY <2>1 DEF Restart
      <4> QED
        BY <1>2, <2>4, <3>1, <4>1, Constants, Changes
    <3>3. <<k, t>> \in served => Settled(k, t)
      BY <2>4, <3>2, LeftSettled
    <3> QED
      BY <2>2, <3>3, ServedBefore
  <2> QED
    BY <2>3, <2>4
<1> QED
  BY <1>1, <1>2

\* Every step keeps what lies before a cursor settled.
LEMMA PolledStep ==
  ASSUME TypeOK, TypeOK', Phases, Clocked, Clocked', Unpolled, Polled, [Next]_vars
  PROVE  Polled'
<1> SUFFICES ASSUME NEW k \in Sources
             PROVE  /\ saved'[k] # None => SettledTo(k, saved[k])'
                    /\ poller'[k] # None => SettledTo(k, poller[k].cursor)'
  BY DEF Polled
<1> USE DEF railway, discovery, manager, pollers
<1>0. /\ now \in Int /\ read \subseteq read' /\ given \subseteq given'
      /\ poller[k] # None => poller[k] \in Poller /\ poller[k].cursor \in Int
                             /\ poller[k].cursor <= now
      /\ saved[k] # None => saved[k] \in Int /\ saved[k] <= now
  BY Grows, PollerFields DEF TypeOK, Clocked
<1>1. ASSUME NEW b \in Int, b <= now, NEW t \in 0..MaxTime, t < b, <<k, t>> \in served',
             <<k, t>> \in served => Settled(k, t)
      PROVE  Settled(k, t)'
  BY <1>0, <1>1, ServedBefore
<1>2. saved[k] # None =>
         \A t \in 0..MaxTime : <<k, t>> \in served' /\ t < saved[k] => Settled(k, t)'
  BY <1>0, <1>1 DEF Polled, SettledTo
<1>3. poller[k] # None =>
         \A t \in 0..MaxTime : <<k, t>> \in served' /\ t < poller[k].cursor => Settled(k, t)'
  BY <1>0, <1>1 DEF Polled, SettledTo
<1>4. CASE Round(k)
  <2>1. /\ poller[k] \in Poller /\ poller'[k] \in Poller
        /\ \A t \in 0..MaxTime : poller[k].cursor <= t /\ t < poller'[k].cursor
              => <<k, t>> \in read' \cup given'
        /\ saved'[k] \in {saved[k], None, poller'[k].cursor}
    BY <1>4, RoundMoves
  <2>2. poller[k].cursor \in Int /\ poller'[k].cursor \in Int /\ poller[k] # None
    BY <2>1, PollerFields
  <2>3. \A t \in 0..MaxTime : <<k, t>> \in served' /\ t < poller'[k].cursor => Settled(k, t)'
    BY <1>3, <2>1, <2>2 DEF Settled
  <2> QED
    BY <1>2, <2>1, <2>3 DEF SettledTo
<1>5. CASE Reconcile
  <2>1. saved' = saved /\ given' = given \cup LookedBack
    BY <1>5 DEF Reconcile
  <2>2. CASE poller[k] = None /\ Wants(k, answer) /\ poller'[k] = NewPoller(k)
    <3>1. NewPoller(k).cursor = IF saved[k] # None THEN saved[k] ELSE StartOf
      BY NewPollerType
    <3>2. CASE saved[k] # None
      BY <1>2, <2>1, <2>2, <3>1, <3>2 DEF SettledTo
    <3>3. CASE saved[k] = None /\ lastReconcile # None
      <4>1. StartOf = lastReconcile /\ lastReconcile \in Int /\ lastReconcile <= now
        BY <3>3 DEF StartOf, TypeOK, Clocked
      <4>2. Findable(k)
        BY <1>5, <2>2 DEF Findable, Wants, Reconcile
      <4>3. \A t \in 0..MaxTime : <<k, t>> \in served' /\ t < lastReconcile => Settled(k, t)'
        BY <1>1, <2>2, <3>3, <4>1, <4>2 DEF Unpolled, SettledTo
      <4> QED
        BY <1>2, <2>1, <2>2, <3>1, <3>3, <4>1, <4>3 DEF SettledTo
    <3>4. CASE saved[k] = None /\ lastReconcile = None
      <4>1. StartOf \in Int
        BY <3>4, Constants DEF StartOf, TypeOK
      <4>2. poller'[k] # None
        BY <2>2, NewPollerType, Constants
      <4>3. \A t \in 0 .. StartOf - 1 : <<k, t>> \in given'
        BY <2>1, <2>2, <3>4, <4>2 DEF LookedBack
      <4>4. \A t \in 0..MaxTime : t < StartOf => t \in 0 .. StartOf - 1
        BY <4>1
      <4>5. \A t \in 0..MaxTime : t < StartOf => Settled(k, t)'
        BY <4>3, <4>4 DEF Settled
      <4> QED
        BY <2>1, <2>2, <3>1, <3>4, <4>5 DEF SettledTo
    <3> QED
      BY <3>2, <3>3, <3>4
  <2>3. CASE poller'[k] = None
    BY <1>2, <2>1, <2>3 DEF SettledTo
  <2>4. CASE poller[k] # None /\ poller'[k] = poller[k]
    BY <1>2, <1>3, <2>1, <2>4 DEF SettledTo
  <2>5. CASE poller[k] # None /\ poller'[k] = [poller[k] EXCEPT !.retireAt = now]
    <3>1. poller'[k].cursor = poller[k].cursor
      BY <1>0, <2>5 DEF Poller
    <3> QED
      BY <1>2, <1>3, <2>1, <2>5, <3>1 DEF SettledTo
  <2> QED
    BY <1>5, <2>2, <2>3, <2>4, <2>5, Reconciles
<1>6. CASE ~Round(k) /\ ~Reconcile
  <2>1. saved'[k] \in {saved[k], None}
    BY <1>6, Changes
  <2>2. poller'[k] = None \/ (poller[k] # None /\ poller'[k].cursor = poller[k].cursor)
    BY <1>0, <1>6, Changes, Constants
  <2> QED
    BY <1>2, <1>3, <2>1, <2>2 DEF SettledTo
<1> QED
  BY <1>4, <1>5, <1>6

-----------------------------------------------------------------------------
(* Pollers that are taken away                                             *)

\* What a reconcile retires or cancels, it records.
LEMMA Withdraws ==
  ASSUME TypeOK, TypeOK', Phases, Reconcile, NEW k \in Sources, NEW r \in 0..MaxTime,
         <<k, r>> \in withdrawn', <<k, r>> \notin withdrawn
  PROVE  /\ r = now /\ poller[k] # None /\ ~Wants(k, answer)
<1>1. <<k, r>> \in Withdrawn
  BY DEF Reconcile
<1>2. r = now /\ poller[k] # None /\ poller'[k] # poller[k]
  BY <1>1 DEF Withdrawn
<1> QED
  BY <1>2, Reconciles

\* Every step keeps retired pollers to their order: recorded, drained, gone.
LEMMA RetiredStep ==
  ASSUME TypeOK, TypeOK', Phases, Retired, [Next]_vars
  PROVE  Retired'
<1> SUFFICES ASSUME NEW d \in Deployments, poller'[d] # None
             PROVE  /\ poller'[d].retireAt # None => <<d, poller'[d].retireAt>> \in withdrawn'
                    /\ poller'[d].left =>
                          /\ poller'[d].retireAt # None
                          /\ poller'[d].cursor >= poller'[d].retireAt
  BY DEF Retired
<1>0. /\ d \in Sources /\ d # Env /\ withdrawn \subseteq withdrawn' /\ now \in 0..MaxTime
      /\ poller[d] # None => poller[d] \in Poller
  BY Grows, Constants DEF TypeOK
<1>1. CASE poller'[d] = poller[d]
  BY <1>0, <1>1 DEF Retired
<1>2. CASE Round(d)
  <2>1. /\ poller[d] \in Poller /\ ~poller[d].left
        /\ poller'[d].retireAt = poller[d].retireAt /\ poller'[d].left = poller[d].left
    BY <1>0, <1>2, RoundMoves
  <2> QED
    BY <1>0, <2>1, Constants DEF Retired
<1>3. CASE Reconcile
  <2>1. CASE poller'[d] = NewPoller(d)
    BY <1>0, <2>1, NewPollerType
  <2>2. CASE /\ poller[d] # None /\ poller[d].retireAt = None
             /\ poller'[d] = [poller[d] EXCEPT !.retireAt = now]
    <3>1. poller[d] \in Poller /\ poller'[d].retireAt = now /\ poller'[d].left = poller[d].left
      BY <1>0, <2>2 DEF Poller
    <3>2. ~poller[d].left
      BY <2>2 DEF Retired
    <3>3. poller'[d] # poller[d]
      <4>1. now # None
        BY <1>0, Constants
      <4> QED
        BY <2>2, <3>1, <4>1
    <3>4. <<d, now>> \in Withdrawn
      BY <1>0, <2>2, <3>3 DEF Withdrawn
    <3> QED
      BY <1>3, <3>1, <3>2, <3>4 DEF Reconcile
  <2> QED
    BY <1>0, <1>1, <1>3, <2>1, <2>2, Reconciles
<1>4. CASE Leave(d)
  BY <1>0, <1>1, <1>2, <1>3, <1>4, Changes DEF Retired, Remove
<1> QED
  BY <1>0, <1>1, <1>2, <1>3, <1>4, Changes

\* Every step takes a source away only for a cause.
LEMMA CauseStep ==
  ASSUME TypeOK, TypeOK', Phases, Clocked, Answers, Serving, Named, WithdrawnForCause,
         [Next]_vars
  PROVE  WithdrawnForCause'
<1> SUFFICES ASSUME NEW k \in Sources, NEW r \in 0..MaxTime, <<k, r>> \in withdrawn'
             PROVE  \/ k # Env /\ k < latest'
                    \/ \E h \in failed' : h <= r /\ r < h + TTL
  BY DEF WithdrawnForCause
<1>0. /\ failed \subseteq failed' /\ latest \in Int /\ latest' \in Int /\ latest <= latest'
      /\ k \in Int
  BY Grows, Constants DEF Sources, Env
<1>1. CASE <<k, r>> \in withdrawn
  BY <1>0, <1>1 DEF WithdrawnForCause
<1>2. CASE <<k, r>> \notin withdrawn
  <2>1. Reconcile
    BY <1>2 DEF Next, vars, railway, discovery, manager, pollers, Deploy, Built, Tick,
       MetricsAsks, Fetched, FetchedBare, FetchEnds, FetchFails, AskTargets, Round, Leave,
       Remove, Restart, Over
  <2>2. r = now /\ poller[k] # None /\ ~Wants(k, answer) /\ mgr = "apply"
    BY <1>2, <2>1, Withdraws DEF Reconcile
  <2>3. CASE Recent
    BY <1>0, <2>2, <2>3 DEF Recent, Clocked
  <2>4. CASE ~Recent
    <3>1. answer = cached /\ cached # None /\ cached.env /\ ~Doubtful
      BY <2>2, <2>4, AppliesSound
    <3>2. k # Env /\ k \in Deployments /\ k # cached.dep
      BY <2>2, <3>1 DEF Wants, Sources
    <3>3. k < latest
      BY <2>2, <3>1, <3>2 DEF Named
    <3> QED
      BY <1>0, <3>2, <3>3
  <2> QED
    BY <2>3, <2>4
<1> QED
  BY <1>1, <1>2

-----------------------------------------------------------------------------
(* The theorems                                                            *)

\* The invariant holds at first.
LEMMA InvInit == Init => Inv
<1> SUFFICES ASSUME Init PROVE Inv
  OBVIOUS
<1>1. /\ served = {} /\ cached = None /\ flight = None /\ failed = {} /\ mgr = "idle"
      /\ lastReconcile = None /\ startedAt = 0 /\ now = 0 /\ active = 0 /\ withdrawn = {}
      /\ \A k \in Sources : poller[k] = None /\ saved[k] = None
  BY DEF Init
<1>2. TypeOK /\ Phases
  BY TypeInit
<1>3. Clocked /\ Answers /\ Unpolled
  BY <1>1 DEF Clocked, Answers, Unpolled
<1>4. Serving /\ Filled /\ Named
  BY <1>1, Constants DEF Serving, Filled, Named
<1>5. Polled /\ Retired /\ WithdrawnForCause
  BY <1>1, Constants DEF Polled, Retired, WithdrawnForCause
<1> QED
  BY <1>2, <1>3, <1>4, <1>5 DEF Inv

\* Every step keeps it.
LEMMA InvStep == Inv /\ [Next]_vars => Inv'
<1> SUFFICES ASSUME Inv, [Next]_vars PROVE Inv'
  OBVIOUS
<1>1. /\ TypeOK /\ Phases /\ Clocked /\ Answers /\ Serving /\ Filled /\ Named
      /\ Unpolled /\ Polled /\ Retired /\ WithdrawnForCause
  BY DEF Inv
<1>2. TypeOK' /\ Phases'
  BY <1>1, TypeStep
<1>3. Clocked' /\ Answers' /\ Serving'
  BY <1>1, <1>2, ClockedStep, AnswersStep, ServingStep
<1>4. Filled' /\ Named'
  BY <1>1, <1>2, <1>3, FilledStep, NamedStep
<1>5. Unpolled' /\ Polled'
  BY <1>1, <1>2, <1>3, UnpolledStep, PolledStep
<1>6. Retired' /\ WithdrawnForCause'
  BY <1>1, <1>2, RetiredStep, CauseStep
<1> QED
  BY <1>2, <1>3, <1>4, <1>5, <1>6 DEF Inv

\* The inductive invariant: what discovery holds and answers, and what it made of
\* the pollers (provider.go:102-141; pipeline.go:217-254, 275-394).
THEOREM Invariance == Spec => []Inv
  BY InvInit, InvStep, PTL DEF Spec

\* Whatever discovery answers, however long it takes, and whatever fails or
\* restarts: no poller starts or goes on past a line without a reason: the first
\* interval of a source, a failure of discovery, or a deployment that it had taken
\* away (pipeline.go:236-241, runPoller, pollOnce).
THEOREM EveryLossIsExplained == Spec => []LossesExplained
<1>1. Inv => LossesExplained
  BY DEF Inv, Polled, SettledTo, LossesExplained
<1> QED
  BY <1>1, Invariance, PTL

\* A source is taken away only because a newer deployment was made, or after a
\* failure of discovery (provider.go:128-137, 238-246; pipeline.go:320-326, 379-394).
THEOREM TakenAwayForCause == Spec => []WithdrawnForCause
<1>1. Inv => WithdrawnForCause
  BY DEF Inv
<1> QED
  BY <1>1, Invariance, PTL

\* A deployment's poller stops only when it is retired and has drained, but for
\* what is explained (poll.go:243-252; pipeline.go:356-369).
THEOREM DrainsBeforeLeaving == Spec => DrainedBeforeLeaving
<1> DEFINE Drains ==
             \A d \in Deployments :
                 poller[d] # None /\ troubles' = troubles
                     /\ (poller'[d] = None \/ poller'[d].left) =>
                     /\ poller[d].retireAt # None
                     /\ \A t \in 0..MaxTime :
                           <<d, t>> \in served /\ t < poller[d].retireAt
                               => Settled(d, t)
<1>1. Inv /\ Inv' /\ [Next]_vars => Drains
  <2> SUFFICES ASSUME Inv, Inv', [Next]_vars, NEW d \in Deployments, poller[d] # None,
                      troubles' = troubles, poller'[d] = None \/ poller'[d].left
               PROVE  /\ poller[d].retireAt # None
                      /\ \A t \in 0..MaxTime :
                            <<d, t>> \in served /\ t < poller[d].retireAt => Settled(d, t)
    OBVIOUS
  <2>0. /\ TypeOK /\ TypeOK' /\ Phases /\ Polled /\ Retired /\ d \in Sources /\ d # Env
        /\ poller[d] \in Poller
    BY Constants DEF Inv, TypeOK
  <2>1. ~Restart
    BY <2>0 DEF Restart, TypeOK
  <2>2. ASSUME poller[d].left
        PROVE  /\ poller[d].retireAt # None
               /\ \A t \in 0..MaxTime : <<d, t>> \in served => Settled(d, t)
    BY <2>0, <2>2, LeftSettled DEF Retired
  <2>3. CASE Leave(d)
    <3>1. poller[d].retireAt # None /\ poller[d].cursor >= poller[d].retireAt
      BY <2>3 DEF Leave
    <3>2. poller[d].cursor \in Int /\ poller[d].retireAt \in Int
      BY <2>0, <3>1, PollerFields
    <3>3. \A t \in 0..MaxTime : t < poller[d].retireAt => t < poller[d].cursor
      BY <3>1, <3>2
    <3> QED
      BY <2>0, <3>1, <3>3 DEF Polled, SettledTo
  <2>4. CASE Round(d)
    BY <2>0, <2>4, RoundMoves, Constants
  <2>5. CASE Reconcile
    <3>1. poller'[d] # None /\ poller'[d].left = poller[d].left
      <4>1. [poller[d] EXCEPT !.retireAt = now].left = poller[d].left
        BY <2>0 DEF Poller
      <4>2. [poller[d] EXCEPT !.retireAt = now] \in Poller
        BY <2>0 DEF Poller, TypeOK
      <4> QED
        BY <2>0, <2>5, <4>1, <4>2, Reconciles, Constants
    <3> QED
      BY <2>2, <3>1
  <2>6. CASE poller[d].left
    BY <2>2, <2>6
  <2> QED
    BY <2>0, <2>1, <2>3, <2>4, <2>5, <2>6, Changes
<1> HIDE DEF Inv
<1>2. Inv /\ Inv' /\ [Next]_vars => [Drains]_vars
  BY <1>1
<1> QED
  BY <1>2, Invariance, PTL DEF Spec, DrainedBeforeLeaving

===============================================================================
