-------------------------- MODULE ApiClientProofs --------------------------
(***************************************************************************)
(* Proofs about ApiClient, for any callers, hosts, retries and budgets.    *)
(*                                                                         *)
(* A call gives up only when all hosts have failed it: the first request   *)
(* of attempt k goes to host k % NHosts, an attempt ends without a result  *)
(* only when that one has failed, and there are at least as many attempts  *)
(* as hosts.                                                               *)
(***************************************************************************)
EXTENDS ApiClient, TLAPS

\* Every attempt before this one, and this one once it has left its first host,
\* has failed on the host it started with.
FirstHostsFailed ==
    \A c \in Calls :
        /\ \A k \in 0..MaxRetries : k < attempt[c] => k % NHosts \in failed[c]
        /\ tried[c] > 0 => attempt[c] % NHosts \in failed[c]

IInv == TypeOK /\ FirstHostsFailed /\ NoFalseExhaustion

-----------------------------------------------------------------------------
(* Hosts                                                                   *)

\* The rotation stays among the hosts, and meets each of them.
LEMMA Rotation ==
    /\ \A n \in Nat : n % NHosts \in Hosts
    /\ \A h \in Hosts : h % NHosts = h
  BY ClientAssumption, SMT DEF ClientAssumption, Hosts

-----------------------------------------------------------------------------
(* Types                                                                   *)

LEMMA InitTyped == Init => TypeOK
  BY ClientAssumption DEF ClientAssumption, Init, TypeOK, NoReply, Kinds, Hosts

LEMMA NextAttemptTyped ==
  ASSUME TypeOK, NEW c \in Calls, NextAttempt(c)
  PROVE  /\ pc' \in [Calls -> {"idle", "limiter", "send", "answered", "wait"}]
         /\ attempt' \in [Calls -> 0..MaxRetries] /\ tried' \in [Calls -> Hosts]
         /\ result' \in [Calls -> {"none", "ok", "error", "exhausted", "cancelled"}]
<1> USE ClientAssumption DEF ClientAssumption
<1>1. 0 \in Hosts
  BY DEF Hosts
<1>2. CASE attempt[c] < MaxRetries
  <2>1. attempt[c] + 1 \in 0..MaxRetries
    BY <1>2 DEF TypeOK
  <2> QED
    BY <1>1, <1>2, <2>1, SMTT(30) DEF TypeOK, NextAttempt
<1>3. CASE ~(attempt[c] < MaxRetries)
  <2>1. Return(c, "exhausted")
    BY <1>3 DEF NextAttempt
  <2> QED
    BY <1>1, <2>1 DEF TypeOK, Return
<1> QED
  BY <1>2, <1>3

LEMMA FailTyped ==
  ASSUME TypeOK, NEW c \in Calls, Fail(c)
  PROVE  failed' \in [Calls -> SUBSET Hosts]
<1>1. attempt[c] + tried[c] \in Nat
  BY ClientAssumption DEF ClientAssumption, TypeOK, Hosts
<1> QED
  BY <1>1, Rotation DEF TypeOK, Fail, HostOf

LEMMA CallTyped ==
  ASSUME TypeOK, NEW c \in Calls, Begin(c) \/ Execute(c) \/ Cancelled(c)
  PROVE  TypeOK'
<1> USE ClientAssumption DEF ClientAssumption
<1>1. CASE Begin(c)
  BY <1>1 DEF TypeOK, Begin, Hosts
<1>2. CASE TakeToken(c)
  BY <1>2 DEF TypeOK, TakeToken
<1>3. CASE Unreachable(c)
  <2>1. failed' \in [Calls -> SUBSET Hosts]
    BY <1>3, FailTyped DEF Unreachable
  <2>2. CASE tried[c] + 1 < NHosts /\ tried' = [tried EXCEPT ![c] = @ + 1]
                /\ UNCHANGED <<pc, attempt, result>>
    BY <1>3, <2>1, <2>2 DEF TypeOK, Unreachable, Hosts
  <2>3. CASE NextAttempt(c)
    BY <1>3, <2>1, <2>3, NextAttemptTyped DEF TypeOK, Unreachable
  <2> QED
    BY <1>3, <2>2, <2>3 DEF Unreachable
<1>4. ASSUME NEW kind \in Kinds, Answer(c, kind)
      PROVE  TypeOK'
  <2>1. CASE kind = "ok" /\ left > 0
    BY <1>4, <2>1, SMTT(30) DEF TypeOK, Answer, Kinds
  <2>2. CASE kind # "ok" \/ left = 0
    BY <1>4, <2>2 DEF TypeOK, Answer, Kinds
  <2> QED
    BY <2>1, <2>2 DEF TypeOK
<1>5. CASE Decide(c)
  <2>1. remaining' \in -1..Limit /\ reply' \in [Calls -> [kind : Kinds, remaining : -1..Limit]]
    BY <1>5 DEF TypeOK, Decide, ObserveRateLimit, Reported, NoReply, Kinds
  <2>2. CASE reply[c].kind = "ok" /\ Return(c, "ok") /\ UNCHANGED failed
    BY <1>5, <2>1, <2>2 DEF TypeOK, Decide, Return, Hosts
  <2>3. CASE reply[c].kind = "denied" /\ Return(c, "error") /\ UNCHANGED failed
    BY <1>5, <2>1, <2>3 DEF TypeOK, Decide, Return, Hosts
  <2>4. CASE NextAttempt(c) /\ Fail(c)
    BY <1>5, <2>1, <2>4, NextAttemptTyped, FailTyped DEF TypeOK, Decide
  <2> QED
    BY <1>5, <2>2, <2>3, <2>4 DEF Decide
<1>6. CASE Retry(c)
  BY <1>6 DEF TypeOK, Retry
<1>7. CASE Cancelled(c)
  BY <1>7 DEF TypeOK, Cancelled, Return, Hosts
<1> QED
  BY <1>1, <1>2, <1>3, <1>4, <1>5, <1>6, <1>7 DEF Execute

LEMMA NextTyped == TypeOK /\ [Next]_vars => TypeOK'
<1> SUFFICES ASSUME TypeOK, [Next]_vars PROVE TypeOK'
  OBVIOUS
<1> USE ClientAssumption DEF ClientAssumption
<1>1. CASE Refill
  BY <1>1 DEF TypeOK, Refill, perCall
<1>2. CASE Reset
  BY <1>2 DEF TypeOK, Reset, perCall
<1>3. CASE Shutdown
  BY <1>3 DEF TypeOK, Shutdown, perCall
<1>4. CASE UNCHANGED vars
  BY <1>4 DEF TypeOK, vars, perCall
<1> QED
  BY <1>1, <1>2, <1>3, <1>4, CallTyped DEF Next

-----------------------------------------------------------------------------
(* Failed hosts                                                            *)

LEMMA InitFailed == Init => FirstHostsFailed /\ NoFalseExhaustion
  BY ClientAssumption DEF ClientAssumption, Init, FirstHostsFailed, NoFalseExhaustion

\* A failure of the call leaves the attempt's first host among the failed ones.
LEMMA FailedFirst ==
  ASSUME TypeOK, FirstHostsFailed, NEW c \in Calls, Fail(c)
  PROVE  /\ \A k \in 0..MaxRetries : k <= attempt[c] => k % NHosts \in failed'[c]
         /\ \A d \in Calls \ {c} : failed'[d] = failed[d]
<1> USE ClientAssumption DEF ClientAssumption
<1>1. failed'[c] = failed[c] \cup {(attempt[c] + tried[c]) % NHosts}
  BY DEF TypeOK, Fail, HostOf
<1>2. attempt[c] % NHosts \in failed'[c]
  <2>1. CASE tried[c] = 0
    <3>1. attempt[c] + tried[c] = attempt[c]
      BY <2>1 DEF TypeOK
    <3> QED
      BY <1>1, <3>1
  <2>2. CASE tried[c] > 0
    BY <1>1, <2>2 DEF FirstHostsFailed
  <2> QED
    BY <2>1, <2>2 DEF TypeOK, Hosts
<1>3. ASSUME NEW k \in 0..MaxRetries, k < attempt[c]
      PROVE  k % NHosts \in failed'[c]
  BY <1>1, <1>3 DEF FirstHostsFailed
<1>4. ASSUME NEW k \in 0..MaxRetries, k <= attempt[c]
      PROVE  k % NHosts \in failed'[c]
  <2>1. attempt[c] \in Int
    BY DEF TypeOK
  <2>2. CASE k = attempt[c]
    BY <1>2, <2>2
  <2>3. CASE k < attempt[c]
    BY <1>3, <2>3
  <2> QED
    BY <1>4, <2>1, <2>2, <2>3
<1>5. \A d \in Calls \ {c} : failed'[d] = failed[d]
  BY DEF TypeOK, Fail
<1> QED
  BY <1>4, <1>5

\* What has been given up stays given up for a reason.
LEMMA FailKeepsExhausted ==
  ASSUME TypeOK, NoFalseExhaustion, NEW c \in Calls, Fail(c), UNCHANGED result
  PROVE  NoFalseExhaustion'
<1> SUFFICES ASSUME NEW d \in Calls, result[d] = "exhausted"
             PROVE  failed'[d] = Hosts
  BY DEF NoFalseExhaustion
<1>1. failed[d] = Hosts
  BY DEF NoFalseExhaustion
<1>2. CASE d = c
  <2>1. failed[c] \subseteq failed'[c]
    BY DEF TypeOK, Fail
  <2> QED
    BY <1>1, <1>2, <2>1, FailTyped
<1>3. CASE d # c
  BY <1>1, <1>3 DEF TypeOK, Fail
<1> QED
  BY <1>2, <1>3

\* So when the attempts are spent, no host is left.
LEMMA AttemptEnds ==
  ASSUME TypeOK, FirstHostsFailed, NoFalseExhaustion,
         NEW c \in Calls, Fail(c), NextAttempt(c)
  PROVE  FirstHostsFailed' /\ NoFalseExhaustion'
<1> USE ClientAssumption DEF ClientAssumption
<1>1. CASE attempt[c] < MaxRetries
  <2>1. /\ attempt' = [attempt EXCEPT ![c] = @ + 1] /\ tried' = [tried EXCEPT ![c] = 0]
        /\ UNCHANGED result
    BY <1>1 DEF NextAttempt
  <2>2. FirstHostsFailed'
    <3> SUFFICES ASSUME NEW d \in Calls
                 PROVE  /\ \A k \in 0..MaxRetries : k < attempt'[d] => k % NHosts \in failed'[d]
                        /\ tried'[d] > 0 => attempt'[d] % NHosts \in failed'[d]
      BY DEF FirstHostsFailed
    <3>1. CASE d = c
      BY <2>1, <3>1, FailedFirst DEF TypeOK
    <3>2. CASE d # c
      BY <2>1, <3>2, FailedFirst DEF TypeOK, FirstHostsFailed
    <3> QED
      BY <3>1, <3>2
  <2>3. NoFalseExhaustion'
    BY <2>1, FailKeepsExhausted
  <2> QED
    BY <2>2, <2>3
<1>2. CASE ~(attempt[c] < MaxRetries)
  <2>1. /\ UNCHANGED attempt /\ tried' = [tried EXCEPT ![c] = 0]
        /\ result' = [result EXCEPT ![c] = "exhausted"]
    BY <1>2 DEF NextAttempt, Return
  <2>2. FirstHostsFailed'
    <3> SUFFICES ASSUME NEW d \in Calls
                 PROVE  /\ \A k \in 0..MaxRetries : k < attempt'[d] => k % NHosts \in failed'[d]
                        /\ tried'[d] > 0 => attempt'[d] % NHosts \in failed'[d]
      BY DEF FirstHostsFailed
    <3>1. CASE d = c
      BY <2>1, <3>1, FailedFirst DEF TypeOK
    <3>2. CASE d # c
      BY <2>1, <3>2, FailedFirst DEF TypeOK, FirstHostsFailed
    <3> QED
      BY <3>1, <3>2
  <2>3. Hosts \subseteq failed'[c]
    <3> SUFFICES ASSUME NEW h \in Hosts PROVE h \in failed'[c]
      OBVIOUS
    <3>1. h \in 0..MaxRetries /\ h <= attempt[c]
      BY <1>2 DEF Hosts, TypeOK
    <3>2. h % NHosts = h
      BY Rotation
    <3> QED
      BY <3>1, <3>2, FailedFirst
  <2>4. failed'[c] \subseteq Hosts
    BY FailTyped
  <2> QED
    BY <2>1, <2>2, <2>3, <2>4, FailedFirst DEF TypeOK, NoFalseExhaustion
<1> QED
  BY <1>1, <1>2

LEMMA CallFailed ==
  ASSUME TypeOK, FirstHostsFailed, NoFalseExhaustion,
         NEW c \in Calls, Begin(c) \/ Execute(c) \/ Cancelled(c)
  PROVE  FirstHostsFailed' /\ NoFalseExhaustion'
<1> USE ClientAssumption DEF ClientAssumption
<1>1. CASE Begin(c)
  <2>1. /\ attempt' = [attempt EXCEPT ![c] = 0] /\ tried' = [tried EXCEPT ![c] = 0]
        /\ failed' = [failed EXCEPT ![c] = {}] /\ result' = [result EXCEPT ![c] = "none"]
    BY <1>1 DEF Begin
  <2>2. FirstHostsFailed'
    BY <2>1 DEF TypeOK, FirstHostsFailed
  <2>3. NoFalseExhaustion'
    BY <2>1 DEF TypeOK, NoFalseExhaustion
  <2> QED
    BY <2>2, <2>3
<1>2. CASE TakeToken(c)
  BY <1>2 DEF TakeToken, FirstHostsFailed, NoFalseExhaustion
<1>3. CASE Unreachable(c)
  <2>1. CASE tried[c] + 1 < NHosts /\ tried' = [tried EXCEPT ![c] = @ + 1]
                /\ UNCHANGED <<pc, attempt, result>>
    <3>1. Fail(c)
      BY <1>3 DEF Unreachable
    <3>2. FirstHostsFailed'
      <4> SUFFICES ASSUME NEW d \in Calls
                   PROVE  /\ \A k \in 0..MaxRetries : k < attempt'[d] => k % NHosts \in failed'[d]
                          /\ tried'[d] > 0 => attempt'[d] % NHosts \in failed'[d]
        BY DEF FirstHostsFailed
      <4>1. CASE d = c
        <5>1. attempt'[d] = attempt[c] /\ attempt[c] \in 0..MaxRetries
          BY <2>1, <4>1 DEF TypeOK
        <5>2. \A k \in 0..MaxRetries : k <= attempt[c] => k % NHosts \in failed'[c]
          BY <3>1, FailedFirst
        <5> QED
          BY <4>1, <5>1, <5>2
      <4>2. CASE d # c
        BY <2>1, <3>1, <4>2, FailedFirst DEF TypeOK, FirstHostsFailed
      <4> QED
        BY <4>1, <4>2
    <3>3. NoFalseExhaustion'
      BY <2>1, <3>1, FailKeepsExhausted
    <3> QED
      BY <3>2, <3>3
  <2>2. CASE NextAttempt(c)
    BY <1>3, <2>2, AttemptEnds DEF Unreachable
  <2> QED
    BY <1>3, <2>1, <2>2 DEF Unreachable
<1>4. ASSUME NEW kind \in Kinds, Answer(c, kind)
      PROVE  FirstHostsFailed' /\ NoFalseExhaustion'
  BY <1>4 DEF Answer, FirstHostsFailed, NoFalseExhaustion
<1>5. CASE Decide(c)
  <2>1. CASE NextAttempt(c) /\ Fail(c)
    BY <2>1, AttemptEnds
  <2>2. CASE (Return(c, "ok") \/ Return(c, "error")) /\ UNCHANGED failed
    <3>1. /\ UNCHANGED <<attempt, failed>> /\ tried' = [tried EXCEPT ![c] = 0]
          /\ \E o \in {"ok", "error"} : result' = [result EXCEPT ![c] = o]
      BY <2>2 DEF Return
    <3>2. FirstHostsFailed'
      <4>1. \A d \in Calls : tried'[d] > 0 => tried[d] > 0
        BY <3>1 DEF TypeOK
      <4> QED
        BY <3>1, <4>1 DEF FirstHostsFailed
    <3>3. NoFalseExhaustion'
      <4>1. PICK o \in {"ok", "error"} : result' = [result EXCEPT ![c] = o]
        BY <3>1
      <4> QED
        BY <3>1, <4>1 DEF TypeOK, NoFalseExhaustion
    <3> QED
      BY <3>2, <3>3
  <2> QED
    BY <1>5, <2>1, <2>2 DEF Decide
<1>6. CASE Retry(c)
  BY <1>6 DEF Retry, FirstHostsFailed, NoFalseExhaustion
<1>7. CASE Cancelled(c)
  BY <1>7 DEF TypeOK, Cancelled, Return, FirstHostsFailed, NoFalseExhaustion
<1> QED
  BY <1>1, <1>2, <1>3, <1>4, <1>5, <1>6, <1>7 DEF Execute

-----------------------------------------------------------------------------
(* The theorems                                                            *)

\* The invariant holds: however the callers' attempts, hosts and answers
\* interleave, the first hosts of a call's past attempts have failed it.
THEOREM ClientInvariance == Spec => []IInv
<1>1. Init => IInv
  BY InitTyped, InitFailed DEF IInv
<1>2. IInv /\ [Next]_vars => IInv'
  <2> SUFFICES ASSUME IInv, [Next]_vars PROVE IInv'
    OBVIOUS
  <2>1. TypeOK'
    BY NextTyped DEF IInv
  <2>2. FirstHostsFailed' /\ NoFalseExhaustion'
    <3>1. CASE Refill \/ Reset \/ Shutdown \/ UNCHANGED vars
      BY <3>1 DEF IInv, FirstHostsFailed, NoFalseExhaustion, Refill, Reset, Shutdown,
                  vars, perCall
    <3> QED
      BY <3>1, CallFailed DEF IInv, Next
  <2> QED
    BY <2>1, <2>2 DEF IInv
<1> QED
  BY <1>1, <1>2, PTL DEF Spec

\* The attempts of a call stay within its retries and the hosts it tries among
\* the endpoints, and the limiter and the budget within their sizes.
THEOREM ClientTypeCorrect == Spec => []TypeOK
<1>1. IInv => TypeOK
  BY DEF IInv
<1> QED
  BY <1>1, ClientInvariance, PTL

\* Execute reports its retries as exhausted only when every host has failed the
\* call (client.go:218-219), for any number of hosts that is not greater than
\* that of the attempts.
THEOREM ExhaustionIsReal == Spec => []NoFalseExhaustion
<1>1. IInv => NoFalseExhaustion
  BY DEF IInv
<1> QED
  BY <1>1, ClientInvariance, PTL

-----------------------------------------------------------------------------
(* Waits                                                                   *)

\* The shift of the first ten attempts is positive (worker.go:249-255,
\* client.go:363-371): both waits double until they reach their limits.
LEMMA FirstWaits ==
  /\ RetryBackoff(1) = 250 /\ ClientBackoff(1) = 500
  /\ RetryBackoff(2) = 500 /\ ClientBackoff(2) = 1000
  /\ RetryBackoff(3) = 1000 /\ ClientBackoff(3) = 2000
  /\ RetryBackoff(4) = 2000 /\ ClientBackoff(4) = 4000
  /\ RetryBackoff(5) = 4000 /\ ClientBackoff(5) = 8000
  /\ RetryBackoff(6) = 5000 /\ ClientBackoff(6) = 16000
  /\ \A n \in 7..10 : RetryBackoff(n) = 5000 /\ ClientBackoff(n) = 30000
<1>1. RetryBackoff(1) = 250 /\ ClientBackoff(1) = 500
  BY SMT DEF RetryBackoff, ClientBackoff, Positive, Wait
<1>2. RetryBackoff(2) = 500 /\ ClientBackoff(2) = 1000
  BY SMT DEF RetryBackoff, ClientBackoff, Positive, Wait
<1>3. RetryBackoff(3) = 1000 /\ ClientBackoff(3) = 2000
  BY SMT DEF RetryBackoff, ClientBackoff, Positive, Wait
<1>4. RetryBackoff(4) = 2000 /\ ClientBackoff(4) = 4000
  BY SMT DEF RetryBackoff, ClientBackoff, Positive, Wait
<1>5. RetryBackoff(5) = 4000 /\ ClientBackoff(5) = 8000
  BY SMT DEF RetryBackoff, ClientBackoff, Positive, Wait
<1>6. RetryBackoff(6) = 5000 /\ ClientBackoff(6) = 16000
  BY SMT DEF RetryBackoff, ClientBackoff, Positive, Wait
<1>7. RetryBackoff(7) = 5000 /\ ClientBackoff(7) = 30000
  BY SMT DEF RetryBackoff, ClientBackoff, Positive, Wait
<1>8. RetryBackoff(8) = 5000 /\ ClientBackoff(8) = 30000
  BY SMT DEF RetryBackoff, ClientBackoff, Positive, Wait
<1>9. RetryBackoff(9) = 5000 /\ ClientBackoff(9) = 30000
  BY SMT DEF RetryBackoff, ClientBackoff, Positive, Wait
<1>10. RetryBackoff(10) = 5000 /\ ClientBackoff(10) = 30000
  BY SMT DEF RetryBackoff, ClientBackoff, Positive, Wait
<1>11. \A n \in 7..10 : n = 7 \/ n = 8 \/ n = 9 \/ n = 10
  OBVIOUS
<1> QED
  BY <1>1, <1>2, <1>3, <1>4, <1>5, <1>6, <1>7, <1>8, <1>9, <1>10, <1>11

\* After the tenth attempt the wait is the limit, whatever is left of the shifted
\* base: it is above the limit, or it is not positive.
LEMMA LaterWaits ==
  \A n \in Nat : n > 10 => RetryBackoff(n) = 5000 /\ ClientBackoff(n) = 30000
<1> SUFFICES ASSUME NEW n \in Nat, n > 10
             PROVE  RetryBackoff(n) = 5000 /\ ClientBackoff(n) = 30000
  OBVIOUS
<1>1. ~(n <= 10)
  OBVIOUS
<1>2. Wait(250, 5000, n) = 5000 /\ Wait(500, 30000, n) = 30000
  BY <1>1 DEF Wait
<1> QED
  BY <1>2 DEF RetryBackoff, ClientBackoff

\* A wait is within its limits and no shorter than the one before.
Pace(n) ==
  /\ RetryBackoff(n) \in Int /\ 250 <= RetryBackoff(n) /\ RetryBackoff(n) <= 5000
  /\ ClientBackoff(n) \in Int /\ 500 <= ClientBackoff(n) /\ ClientBackoff(n) <= 30000
  /\ RetryBackoff(n) <= RetryBackoff(n + 1) /\ ClientBackoff(n) <= ClientBackoff(n + 1)

\* Of the first ten attempts the waits are computed; later ones are at the limit.
LEMMA WaitsPace == \A n \in Nat \ {0} : Pace(n)
<1> SUFFICES ASSUME NEW n \in Nat \ {0}  PROVE Pace(n)
  OBVIOUS
<1>1. CASE n <= 5
  <2>1. n = 1 \/ n = 2 \/ n = 3 \/ n = 4 \/ n = 5
    BY <1>1
  <2> QED
    BY <2>1, FirstWaits DEF Pace
<1>2. CASE n = 6
  <2>1. RetryBackoff(7) = 5000 /\ ClientBackoff(7) = 30000
    BY FirstWaits
  <2> QED
    BY <1>2, <2>1, FirstWaits DEF Pace
<1>3. CASE n > 6
  <2>1. \A m \in Nat : m > 6 => RetryBackoff(m) = 5000 /\ ClientBackoff(m) = 30000
    BY FirstWaits, LaterWaits
  <2>2. n \in Nat /\ n + 1 \in Nat /\ n + 1 > 6
    BY <1>3
  <2> QED
    BY <1>3, <2>1, <2>2 DEF Pace
<1> QED
  BY <1>1, <1>2, <1>3

\* Paced, from what it says of two attempts in a row.
LEMMA PacedAll ==
  ASSUME NEW waits, waits = [n \in Attempts |-> waits[n]],
         NEW base \in Int, NEW limit \in Int,
         \A n \in Attempts : waits[n] \in Int /\ base <= waits[n] /\ waits[n] <= limit,
         \A n \in Attempts : n + 1 \in Attempts => waits[n] <= waits[n + 1]
  PROVE  Paced(waits, base, limit)
<1>1. \A n \in Attempts \ {1} : n - 1 \in Attempts /\ (n - 1) + 1 = n
  BY DEF Attempts
<1>2. \A n \in Attempts \ {1} : waits[n - 1] <= waits[n]
  BY <1>1
<1>3. waits \in [Attempts -> base..limit]
  OBVIOUS
<1> QED
  BY <1>2, <1>3, Zenon DEF Paced

\* However many attempts fail in a row, the waits of the workers and subscriptions
\* and those of the calls are within their limits and never become shorter, the
\* overflow of the shift included (worker.go:249-255, client.go:363-371): the
\* first 70 attempts of WaitsPaced, and all others.
THEOREM WaitsArePaced == WaitsPaced /\ \A n \in Nat \ {0} : Pace(n)
<1>1. \A n \in Attempts : Pace(n)
  BY WaitsPace DEF Attempts
<1>2. \A n \in Attempts : RetryWaits[n] = RetryBackoff(n) /\ ClientWaits[n] = ClientBackoff(n)
  BY DEF RetryWaits, ClientWaits
<1>3. /\ RetryWaits = [n \in Attempts |-> RetryWaits[n]]
      /\ ClientWaits = [n \in Attempts |-> ClientWaits[n]]
  BY DEF RetryWaits, ClientWaits
<1>4. \A base, limit \in Int : base = 250 /\ limit = 5000 => Paced(RetryWaits, base, limit)
  <2> SUFFICES ASSUME NEW base \in Int, NEW limit \in Int, base = 250, limit = 5000
               PROVE  Paced(RetryWaits, base, limit)
    OBVIOUS
  <2>1. \A n \in Attempts : /\ RetryWaits[n] \in Int
                           /\ base <= RetryWaits[n] /\ RetryWaits[n] <= limit
    BY <1>1, <1>2 DEF Pace
  <2>2. \A n \in Attempts : n + 1 \in Attempts => RetryWaits[n] <= RetryWaits[n + 1]
    BY <1>1, <1>2 DEF Pace
  <2> QED
    BY ONLY <1>3, <2>1, <2>2, PacedAll, base \in Int, limit \in Int, Zenon
<1>5. \A base, limit \in Int : base = 500 /\ limit = 30000 => Paced(ClientWaits, base, limit)
  <2> SUFFICES ASSUME NEW base \in Int, NEW limit \in Int, base = 500, limit = 30000
               PROVE  Paced(ClientWaits, base, limit)
    OBVIOUS
  <2>1. \A n \in Attempts : /\ ClientWaits[n] \in Int
                           /\ base <= ClientWaits[n] /\ ClientWaits[n] <= limit
    BY <1>1, <1>2 DEF Pace
  <2>2. \A n \in Attempts : n + 1 \in Attempts => ClientWaits[n] <= ClientWaits[n + 1]
    BY <1>1, <1>2 DEF Pace
  <2> QED
    BY ONLY <1>3, <2>1, <2>2, PacedAll, base \in Int, limit \in Int, Zenon
<1> QED
  BY <1>4, <1>5, WaitsPace DEF WaitsPaced

=============================================================================
