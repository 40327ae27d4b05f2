----------------------------- MODULE ApiClient -----------------------------
(***************************************************************************)
(* The Railway API client (internal/railway/client.go) under concurrent    *)
(* calls: Execute with its retries, host rotation, rate limiter and        *)
(* Retry-After, and the request budget that its answers report             *)
(* (internal/telemetry/self.go) and the log pollers slow down by           *)
(* (budgetThrottle, internal/logs/poll.go).                                *)
(*                                                                         *)
(* The callers here are the log pollers, which call again and again.       *)
(* Waits are untimed; Backoff has their lengths.                           *)
(***************************************************************************)
EXTENDS Backoff, FiniteSets

CONSTANTS
    Calls,      \* the callers, one call of Execute at a time each
    NHosts,     \* the number of endpoints
    MaxRetries, \* c.maxRetries
    Burst,      \* the limiter's burst
    Limit,      \* bound: Railway's budget of requests per window
    MaxFaults   \* bound: requests that fail for another reason than the budget

ASSUME ClientAssumption ==
    /\ IsFiniteSet(Calls) /\ NHosts \in Nat \ {0} /\ MaxRetries \in Nat \ {0}
    /\ NHosts <= MaxRetries + 1  \* the default is two hosts and four retries
    /\ Burst \in Nat \ {0} /\ Limit \in Nat \ {0} /\ MaxFaults \in Nat

Hosts == 0..(NHosts - 1)

VARIABLES
    ctx,     \* "live" or "ended": the root context
    pc,      \* per call: "idle", "limiter", "send", "answered" or "wait"
    attempt, tried,  \* the attempt, and how many hosts it has tried
    reply,   \* the answer on its way: its kind, and X-RateLimit-Remaining
    result,  \* what the call returned
    tokens,  \* of the limiter
    remaining,  \* rateLimitRemaining
    left,    \* Railway's budget that is left in this window
    faults,
    failed   \* history: the hosts that failed the call

perCall == <<pc, attempt, tried, reply, result, failed>>
vars == <<ctx, perCall, tokens, remaining, left, faults>>

\* What an answer is read as: data (or a final error), a rate limit (a 429 or
\* Cloudflare's page), a server error, and a status that is not retried.
Kinds == {"ok", "limited", "sick", "denied"}
NoReply == [kind |-> "ok", remaining |-> -1]

Init ==
    /\ ctx = "live"
    /\ pc = [c \in Calls |-> "idle"] /\ attempt = [c \in Calls |-> 0]
    /\ tried = [c \in Calls |-> 0] /\ reply = [c \in Calls |-> NoReply]
    /\ result = [c \in Calls |-> "none"] /\ failed = [c \in Calls |-> {}]
    /\ tokens = Burst /\ remaining = -1 /\ left = Limit /\ faults = MaxFaults

\* budgetThrottle, in tenths: 1 above a fifth of the budget, 20 at most.
Throttle ==
    IF remaining < 0 \/ 5 * remaining >= Limit THEN 10
    ELSE IF remaining = 0 \/ 2 * Limit >= 200 * remaining THEN 200
    ELSE (2 * Limit) \div remaining

\* Faulty variant of HostOf: every attempt starts with the first host.
HostOfFirst(c) == tried[c] % NHosts

\* do starts with another host on each attempt.
HostOf(c) == (attempt[c] + tried[c]) % NHosts

-----------------------------------------------------------------------------
(* Execute                                                                 *)

\* Faulty variant of Begin: a poller waits for a budget that it has seen spent.
BeginOnBudget(c) ==
    /\ ctx = "live" /\ pc[c] = "idle" /\ remaining # 0
    /\ pc' = [pc EXCEPT ![c] = "limiter"]
    /\ attempt' = [attempt EXCEPT ![c] = 0] /\ tried' = [tried EXCEPT ![c] = 0]
    /\ result' = [result EXCEPT ![c] = "none"] /\ failed' = [failed EXCEPT ![c] = {}]
    /\ UNCHANGED <<ctx, reply, tokens, remaining, left, faults>>

\* A poller calls, after a wait that Throttle stretches but that ends.
Begin(c) ==
    /\ ctx = "live" /\ pc[c] = "idle"
    /\ pc' = [pc EXCEPT ![c] = "limiter"]
    /\ attempt' = [attempt EXCEPT ![c] = 0] /\ tried' = [tried EXCEPT ![c] = 0]
    /\ result' = [result EXCEPT ![c] = "none"] /\ failed' = [failed EXCEPT ![c] = {}]
    /\ UNCHANGED <<ctx, reply, tokens, remaining, left, faults>>

\* limiter.Wait
TakeToken(c) ==
    /\ pc[c] = "limiter" /\ tokens > 0
    /\ tokens' = tokens - 1
    /\ pc' = [pc EXCEPT ![c] = "send"]
    /\ UNCHANGED <<ctx, attempt, tried, reply, result, failed, remaining, left, faults>>

Return(c, outcome) ==
    /\ pc' = [pc EXCEPT ![c] = "idle"]
    /\ result' = [result EXCEPT ![c] = outcome]
    /\ tried' = [tried EXCEPT ![c] = 0]
    /\ UNCHANGED attempt

\* Faulty variant of NextAttempt: one retry too many.
NextAttemptMore(c) ==
    IF attempt[c] <= MaxRetries
    THEN /\ attempt' = [attempt EXCEPT ![c] = @ + 1]
         /\ tried' = [tried EXCEPT ![c] = 0]
         /\ pc' = [pc EXCEPT ![c] = "wait"]
         /\ UNCHANGED result
    ELSE Return(c, "exhausted")

\* Faulty variant of NextAttempt: being rate limited is not an attempt.
NextAttemptPatient(c) ==
    IF attempt[c] < MaxRetries
    THEN /\ attempt' = [attempt EXCEPT ![c] = IF reply[c].kind = "limited" THEN @ ELSE @ + 1]
         /\ tried' = [tried EXCEPT ![c] = 0]
         /\ pc' = [pc EXCEPT ![c] = "wait"]
         /\ UNCHANGED result
    ELSE Return(c, "exhausted")

\* The end of an attempt that may be repeated.
NextAttempt(c) ==
    IF attempt[c] < MaxRetries
    THEN /\ attempt' = [attempt EXCEPT ![c] = @ + 1]
         /\ tried' = [tried EXCEPT ![c] = 0]
         /\ pc' = [pc EXCEPT ![c] = "wait"]
         /\ UNCHANGED result
    ELSE Return(c, "exhausted")

Fail(c) == failed' = [failed EXCEPT ![c] = @ \cup {HostOf(c)}]

\* A host cannot be reached, or does not answer within the client's timeout:
\* the next one, or the end of the attempt.
Unreachable(c) ==
    /\ pc[c] = "send" /\ faults > 0
    /\ faults' = faults - 1
    /\ Fail(c)
    /\ IF tried[c] + 1 < NHosts
       THEN /\ tried' = [tried EXCEPT ![c] = @ + 1]
            /\ UNCHANGED <<pc, attempt, result>>
       ELSE NextAttempt(c)
    /\ UNCHANGED <<ctx, reply, tokens, remaining, left>>

\* A host answers.  Railway counts what it takes, and says what is left;
\* Cloudflare's page and the errors before Railway carry no such header.
Answer(c, kind) ==
    /\ pc[c] = "send"
    /\ pc' = [pc EXCEPT ![c] = "answered"]
    /\ \/ /\ kind = "ok" /\ left > 0 /\ left' = left - 1
          /\ reply' = [reply EXCEPT ![c] = [kind |-> kind, remaining |-> left']]
          /\ UNCHANGED faults
       \/ /\ kind = "limited" /\ left = 0
          /\ reply' = [reply EXCEPT ![c] = [kind |-> kind, remaining |-> 0]]
          /\ UNCHANGED <<left, faults>>
       \/ /\ kind # "ok" /\ faults > 0 /\ faults' = faults - 1
          /\ reply' = [reply EXCEPT ![c] = [kind |-> kind, remaining |-> -1]]
          /\ UNCHANGED left
    /\ UNCHANGED <<ctx, attempt, tried, result, failed, tokens, remaining>>

\* observeRateLimit: whether the answer says what is left of the budget.
Reported(c) == reply[c].remaining >= 0

\* The budget is what the last answer that was read says, in whatever order the
\* answers of several calls come.
ObserveRateLimit(c) ==
    remaining' = IF Reported(c) THEN reply[c].remaining ELSE remaining

\* The answer is read, and its status decides.  A 200 whose body
\* does not decode, or has errors, is final like a 4xx.
Decide(c) ==
    /\ pc[c] = "answered"
    /\ ObserveRateLimit(c)
    /\ CASE reply[c].kind = "ok" -> Return(c, "ok") /\ UNCHANGED failed
         [] reply[c].kind = "denied" -> Return(c, "error") /\ UNCHANGED failed
         [] OTHER -> NextAttempt(c) /\ Fail(c)
    /\ reply' = [reply EXCEPT ![c] = NoReply]
    /\ UNCHANGED <<ctx, tokens, left, faults>>

\* After ClientBackoff(attempt), or Retry-After if that is longer.
Retry(c) ==
    /\ pc[c] = "wait"
    /\ pc' = [pc EXCEPT ![c] = "limiter"]
    /\ UNCHANGED <<ctx, attempt, tried, reply, result, failed, tokens, remaining,
                   left, faults>>

\* The context ends a wait, the limiter's and a round trip.
Cancelled(c) ==
    /\ ctx = "ended" /\ pc[c] \in {"limiter", "send", "wait"}
    /\ Return(c, "cancelled")
    /\ UNCHANGED <<ctx, reply, failed, tokens, remaining, left, faults>>

-----------------------------------------------------------------------------
(* The limiter, Railway and the process                                    *)

Refill ==
    /\ tokens < Burst
    /\ tokens' = tokens + 1
    /\ UNCHANGED <<ctx, perCall, remaining, left, faults>>

\* A new window of Railway's budget.
Reset ==
    /\ left < Limit
    /\ left' = Limit
    /\ UNCHANGED <<ctx, perCall, tokens, remaining, faults>>

Shutdown ==
    /\ ctx = "live"
    /\ ctx' = "ended"
    /\ UNCHANGED <<perCall, tokens, remaining, left, faults>>

Execute(c) ==
    \/ TakeToken(c) \/ Unreachable(c) \/ (\E k \in Kinds : Answer(c, k))
    \/ Decide(c) \/ Retry(c)

Next ==
    \/ Refill \/ Reset \/ Shutdown
    \/ \E c \in Calls : Begin(c) \/ Execute(c) \/ Cancelled(c)

Spec == Init /\ [][Next]_vars

\* The limiter serves its waiters in turn, a request is answered or fails in
\* the client's timeout, and Railway's windows follow one another.
FairSpec ==
    /\ Spec
    /\ WF_vars(Refill) /\ WF_vars(Reset)
    /\ \A c \in Calls :
        WF_vars(Begin(c)) /\ SF_vars(Execute(c)) /\ WF_vars(Cancelled(c))

-----------------------------------------------------------------------------
(* Properties                                                              *)

TypeOK ==
    /\ ctx \in {"live", "ended"}
    /\ pc \in [Calls -> {"idle", "limiter", "send", "answered", "wait"}]
    /\ attempt \in [Calls -> 0..MaxRetries] /\ tried \in [Calls -> Hosts]
    /\ reply \in [Calls -> [kind : Kinds, remaining : -1..Limit]]
    /\ result \in [Calls -> {"none", "ok", "error", "exhausted", "cancelled"}]
    /\ tokens \in 0..Burst /\ remaining \in -1..Limit /\ left \in 0..Limit
    /\ faults \in 0..MaxFaults /\ failed \in [Calls -> SUBSET Hosts]

\* A call gives up its retries only when every host has failed it: with one
\* degraded host and one that works, the retries find the one that works
\* (client.go:218-219, "alternate .com/.app rather than always re-hitting a
\* degraded primary"), whatever mix of failures each host shows.
NoFalseExhaustion ==
    \A c \in Calls : result[c] = "exhausted" => failed[c] = Hosts

\* Every call returns, with the budget spent, hosts that fail in turn and other
\* calls in front of the limiter.
CallsReturn == \A c \in Calls : pc[c] # "idle" ~> pc[c] = "idle"

\* Throttled pollers find out that the budget is back, though a late answer may
\* overwrite the news of a new window: the slow-down ends every time.
BudgetRecovers == []<>(Throttle = 10 \/ ctx = "ended")

=============================================================================
