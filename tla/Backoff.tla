------------------------------ MODULE Backoff ------------------------------
(***************************************************************************)
(* The two exponential waits of the program, retryBackoff (logs/worker.go) *)
(* and backoff (railway/client.go): a base of nanoseconds shifted left by  *)
(* attempt - 1 in an int64, cut off at a limit.  Both bases are 1953125    *)
(* times a power of two, so the shift's 64-bit result is known from the    *)
(* bits of 1953125 that are left of it.  Waits are in milliseconds.        *)
(***************************************************************************)
EXTENDS Integers

Odd == 1953125  \* 250 ms = Odd * 2^7 ns and 500 ms = Odd * 2^8 ns

\* Whether Odd << shift is positive as an int64: its low 64 - shift bits remain,
\* and the first of those is the sign.
Positive(shift) ==
    IF shift >= 64 THEN FALSE
    ELSE IF shift <= 42 THEN TRUE  \* Odd has 21 bits
    ELSE LET low == Odd % 2 ^ (64 - shift)
         IN  0 < low /\ low < 2 ^ (63 - shift)

\* base << (attempt - 1), cut off at the limit.  No attempt after the tenth has
\* a positive shift below 30 s: from the 36th on, such a result is a multiple
\* of 2^43 ns.
Wait(base, limit, attempt) ==
    IF attempt <= 10 /\ base * 2 ^ (attempt - 1) <= limit
    THEN base * 2 ^ (attempt - 1) ELSE limit

\* retryBackoff: of a worker's writes and of reconnects.
RetryBackoff(attempt) ==
    IF Positive(attempt + 6) THEN Wait(250, 5000, attempt) ELSE 5000

\* Faulty variant of ClientBackoff: an overflow is not noticed (a timer with a
\* duration that is not positive fires at once).
ClientBackoffUnchecked(attempt) ==
    IF Positive(attempt + 7) THEN Wait(500, 30000, attempt) ELSE 0

\* backoff: of an API call's retries.
ClientBackoff(attempt) ==
    IF Positive(attempt + 7) THEN Wait(500, 30000, attempt) ELSE 30000

\* The waits of many attempts in a row, past the width of the shift.
Attempts == 1..70
RetryWaits == [n \in Attempts |-> RetryBackoff(n)]
ClientWaits == [n \in Attempts |-> ClientBackoff(n)]

\* No wait is outside of its limits, and none is shorter than the one before.
Paced(waits, base, limit) ==
    /\ waits \in [Attempts -> base..limit]
    /\ \A n \in Attempts \ {1} : waits[n - 1] <= waits[n]

\* However many connections in a row fail, and however many retries are
\* configured, the wait before the next is never shorter than the one before:
\* between 250 ms and 5 s for a worker and a subscription (worker.go:249-255),
\* between 500 ms and 30 s for a call (client.go:363-371), where Execute takes
\* the server's Retry-After when that is longer.
WaitsPaced == Paced(RetryWaits, 250, 5000) /\ Paced(ClientWaits, 500, 30000)

=============================================================================
