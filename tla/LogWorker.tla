----------------------------- MODULE LogWorker -----------------------------
(***************************************************************************)
(* One sink worker (internal/logs/worker.go): a bounded queue of records,  *)
(* the goroutine that batches them into sink writes, and the goroutines    *)
(* that fill the queue.                                                    *)
(*                                                                         *)
(* Two kinds of producers share the queue.  A poller runs the protocol of  *)
(* pollOnce against this worker: mark, one enqueueWait per line,           *)
(* waitWritten, and moves its cursor only if waitWritten says TRUE.  A     *)
(* streamer (a subscription, or a build-log fetch) calls enqueue and never *)
(* waits for the outcome.                                                  *)
(*                                                                         *)
(* A record is its sequence number.  accepted and dropped are history      *)
(* variables: the records of the batches the sink took, and of the batches *)
(* writeRecords gave up on.                                                *)
(***************************************************************************)
EXTENDS Naturals, Sequences

CONSTANTS
    Pollers,      \* producers that use enqueueWait and waitWritten
    Streamers,    \* producers that use enqueue
    QueueSize,    \* capacity of the channel
    BatchSize,    \* records per sink write
    MaxAttempts,  \* maxAttempts of writeRecords
    Budget,       \* bound: enqueue and enqueueWait calls in a behaviour
    None          \* no process

ASSUME WorkerAssumption ==
    /\ QueueSize \in Nat \ {0}
    /\ BatchSize \in Nat \ {0}
    /\ MaxAttempts \in Nat \ {0}
    /\ Budget \in Nat
    /\ Pollers \cap Streamers = {}
    /\ None \notin Pollers \cup Streamers

Procs == Pollers \cup Streamers

VARIABLES
    queue,     \* w.ch
    sendMu,    \* the process holding w.sendMu, or None
    enqueued,  \* w.enqueued
    written,   \* w.written
    failed,    \* w.failed
    progress,  \* how often w.progress was closed and replaced
    \* the producers
    pc, seq, since, target,
    channel,   \* the progress channel a waiting poller has read
    page,      \* the records a poller has put on the queue since its mark
    cancelled, \* the pollers whose own context has ended
    budget,
    \* the worker goroutine
    wpc,       \* "select", "write", "backoff", "close" or "done"
    stage,     \* "run", "drain" or "flush" (drainAndClose's last write)
    batch, attempt,
    expired,   \* drainAndClose's 10 s context has ended
    \* the process's root context, and the history
    ctxDone, accepted, dropped

producers == <<pc, seq, since, target, channel, page, cancelled, budget>>
counters  == <<enqueued, written, failed, progress>>
worker    == <<wpc, stage, batch, attempt, expired>>
history   == <<accepted, dropped>>
vars == <<queue, sendMu, counters, producers, worker, ctxDone, history>>

SeqNum  == Nat \ {0}
Items(s) == {s[i] : i \in 1..Len(s)}
Last(s) == s[Len(s)]

Init ==
    /\ queue = <<>> /\ sendMu = None
    /\ enqueued = 0 /\ written = 0 /\ failed = 0 /\ progress = 0
    /\ pc = [p \in Procs |-> "idle"]
    /\ seq = [p \in Procs |-> 0]
    /\ since = [p \in Pollers |-> 0]
    /\ target = [p \in Pollers |-> 0]
    /\ channel = [p \in Pollers |-> 0]
    /\ page = [p \in Pollers |-> {}]
    /\ cancelled = {}
    /\ budget = Budget
    /\ wpc = "select" /\ stage = "run"
    /\ batch = <<>> /\ attempt = 1 /\ expired = FALSE
    /\ ctxDone = FALSE
    /\ accepted = {} /\ dropped = {}

\* The context a poller runs under: its own, a child of the root context.
PollerDone(p) == ctxDone \/ p \in cancelled

Goto(p, label) == pc' = [pc EXCEPT ![p] = label]

\* A poller leaves pollOnce, or its loop turns: the page's locals go out of scope.
EndPage(p) ==
    /\ since' = [since EXCEPT ![p] = 0]
    /\ target' = [target EXCEPT ![p] = 0]
    /\ channel' = [channel EXCEPT ![p] = 0]
    /\ page' = [page EXCEPT ![p] = {}]

-----------------------------------------------------------------------------
(* Producers                                                               *)

\* A poller starts a page: the marks() call of pollOnce.
Mark(p) ==
    /\ pc[p] = "idle"
    /\ since' = [since EXCEPT ![p] = enqueued]
    /\ Goto(p, "page")
    /\ UNCHANGED <<queue, sendMu, counters, seq, target, channel, page,
                   cancelled, budget, worker, ctxDone, history>>

\* The next line of a poller's page, or of a stream: ask for sendMu.
Call(p) ==
    /\ budget > 0
    /\ \/ p \in Pollers /\ pc[p] = "page"
       \/ p \in Streamers /\ pc[p] = "idle"
    /\ budget' = budget - 1
    /\ Goto(p, "lock")
    /\ UNCHANGED <<queue, sendMu, counters, seq, since, target, channel, page,
                   cancelled, worker, ctxDone, history>>

\* Faulty variant of Lock: no mutual exclusion between two sends.
LockWithoutMutex(p) ==
    /\ pc[p] = "lock"
    /\ sendMu' = p
    /\ seq' = [seq EXCEPT ![p] = enqueued + 1]
    /\ Goto(p, "send")
    /\ UNCHANGED <<queue, counters, since, target, channel, page, cancelled,
                   budget, worker, ctxDone, history>>

\* sendMu.Lock() and the mark() under it: only the holder moves enqueued.
Lock(p) ==
    /\ pc[p] = "lock"
    /\ sendMu = None
    /\ sendMu' = p
    /\ seq' = [seq EXCEPT ![p] = enqueued + 1]
    /\ Goto(p, "send")
    /\ UNCHANGED <<queue, counters, since, target, channel, page, cancelled,
                   budget, worker, ctxDone, history>>

\* The call returns: sendMu.Unlock(), and the local seq goes out of scope.
Unlock(p) ==
    /\ sendMu' = None
    /\ seq' = [seq EXCEPT ![p] = 0]

\* The channel send.  Until SetEnqueued the record is on the queue and
\* enqueued does not count it yet.
Send(p) ==
    /\ pc[p] = "send"
    /\ Len(queue) < QueueSize
    /\ queue' = Append(queue, seq[p])
    /\ page' = IF p \in Pollers
               THEN [page EXCEPT ![p] = @ \cup {seq[p]}] ELSE page
    /\ Goto(p, "sent")
    /\ UNCHANGED <<sendMu, counters, seq, since, target, channel, cancelled,
                   budget, worker, ctxDone, history>>

\* setEnqueued and the deferred Unlock.
SetEnqueued(p) ==
    /\ pc[p] = "sent"
    /\ enqueued' = seq[p]
    /\ Unlock(p)
    /\ Goto(p, IF p \in Pollers THEN "page" ELSE "idle")
    /\ UNCHANGED <<queue, written, failed, progress, since, target, channel,
                   page, cancelled, budget, worker, ctxDone, history>>

\* enqueue on a full queue: the record is dropped and counted.
Overflow(p) ==
    /\ p \in Streamers /\ pc[p] = "send"
    /\ Len(queue) = QueueSize
    /\ Unlock(p)
    /\ Goto(p, "idle")
    /\ UNCHANGED <<queue, counters, since, target, channel, page, cancelled,
                   budget, worker, ctxDone, history>>

\* Faulty variant of SendCancelled: the early return forgets to unlock.
SendCancelledLocked(p) ==
    /\ p \in Pollers /\ pc[p] = "send"
    /\ PollerDone(p)
    /\ Goto(p, "exit") /\ EndPage(p)
    /\ UNCHANGED <<queue, sendMu, seq, counters, cancelled, budget, worker,
                   ctxDone, history>>

\* enqueueWait's ctx.Done() case: the poller gives the page up.
SendCancelled(p) ==
    /\ p \in Pollers /\ pc[p] = "send"
    /\ PollerDone(p)
    /\ Unlock(p) /\ EndPage(p)
    /\ Goto(p, "exit")
    /\ UNCHANGED <<queue, counters, cancelled, budget, worker, ctxDone, history>>

\* waitWritten: read the target.
ReadTarget(p) ==
    /\ p \in Pollers /\ pc[p] = "page"
    /\ target' = [target EXCEPT ![p] = enqueued]
    /\ Goto(p, "check")
    /\ UNCHANGED <<queue, sendMu, counters, seq, since, channel, page,
                   cancelled, budget, worker, ctxDone, history>>

\* Faulty variant of CheckWritten: only a failure of the last record counts.
CheckWrittenLastOnly(p) ==
    /\ pc[p] = "check"
    /\ IF written >= target[p]
       THEN /\ Goto(p, IF failed < target[p] \/ failed <= since[p] THEN "ok" ELSE "lost")
            /\ UNCHANGED channel
       ELSE /\ channel' = [channel EXCEPT ![p] = progress]
            /\ Goto(p, "wait")
    /\ UNCHANGED <<queue, sendMu, counters, seq, since, target, page,
                   cancelled, budget, worker, ctxDone, history>>

\* One turn of waitWritten's loop: the counters and the channel are read
\* together under mu, and the verdict is about the values read.
CheckWritten(p) ==
    /\ pc[p] = "check"
    /\ IF written >= target[p]
       THEN /\ Goto(p, IF failed <= since[p] THEN "ok" ELSE "lost")
            /\ UNCHANGED channel
       ELSE /\ channel' = [channel EXCEPT ![p] = progress]
            /\ Goto(p, "wait")
    /\ UNCHANGED <<queue, sendMu, counters, seq, since, target, page,
                   cancelled, budget, worker, ctxDone, history>>

\* The progress channel the poller read has been closed.
Wake(p) ==
    /\ pc[p] = "wait"
    /\ channel[p] < progress
    /\ channel' = [channel EXCEPT ![p] = 0]
    /\ Goto(p, "check")
    /\ UNCHANGED <<queue, sendMu, counters, seq, since, target, page,
                   cancelled, budget, worker, ctxDone, history>>

WaitCancelled(p) ==
    /\ pc[p] = "wait"
    /\ PollerDone(p)
    /\ Goto(p, "exit") /\ EndPage(p)
    /\ UNCHANGED <<queue, sendMu, counters, seq, cancelled, budget, worker,
                   ctxDone, history>>

\* The poller has taken the verdict ("ok": the cursor moved, "lost": the page
\* is sent again) and starts over, unless runPoller sees that ctx has ended.
NextPage(p) ==
    /\ pc[p] \in {"ok", "lost"}
    /\ EndPage(p)
    /\ Goto(p, IF PollerDone(p) THEN "exit" ELSE "idle")
    /\ UNCHANGED <<queue, sendMu, counters, seq, cancelled, budget, worker,
                   ctxDone, history>>

\* A poller between two calls stops because its context has ended: before a
\* page, or inside one when its call on another sink's worker has failed.
PollerExit(p) ==
    /\ pc[p] \in {"idle", "page"}
    /\ PollerDone(p)
    /\ Goto(p, "exit") /\ EndPage(p)
    /\ UNCHANGED <<queue, sendMu, counters, seq, cancelled, budget, worker,
                   ctxDone, history>>

\* A stream ends with the root context.
StreamerExit(p) ==
    /\ p \in Streamers /\ pc[p] = "idle"
    /\ ctxDone
    /\ Goto(p, "exit")
    /\ UNCHANGED <<queue, sendMu, counters, seq, since, target, channel, page,
                   cancelled, budget, worker, ctxDone, history>>

-----------------------------------------------------------------------------
(* The worker goroutine                                                    *)

Full(b) == Len(b) >= BatchSize

\* Start writeRecords on a batch; what comes after the write depends on st.
StartWrite(b, st) ==
    /\ batch' = b /\ stage' = st
    /\ wpc' = "write"

\* Faulty variant of Receive: a full batch is not handed to drainAndClose.
ReceiveLosesBatch ==
    /\ wpc = "select" /\ stage = "run"
    /\ queue # <<>>
    /\ queue' = Tail(queue)
    /\ LET b == Append(batch, Head(queue)) IN
       IF ~Full(b) \/ ctxDone
       THEN /\ batch' = IF Full(b) THEN <<>> ELSE b
            /\ stage' = IF Full(b) THEN "drain" ELSE "run"
            /\ wpc' = wpc
       ELSE StartWrite(b, "run")
    /\ UNCHANGED <<sendMu, counters, producers, attempt, expired, ctxDone, history>>

\* run receives a record.  A batch that fills up is written, or handed to
\* drainAndClose as it is if shutdown has raced in.
Receive ==
    /\ wpc = "select" /\ stage = "run"
    /\ queue # <<>>
    /\ queue' = Tail(queue)
    /\ LET b == Append(batch, Head(queue)) IN
       IF ~Full(b) \/ ctxDone
       THEN /\ batch' = b
            /\ stage' = IF Full(b) THEN "drain" ELSE "run"
            /\ wpc' = wpc
       ELSE StartWrite(b, "run")
    /\ UNCHANGED <<sendMu, counters, producers, attempt, expired, ctxDone, history>>

\* The ticker flushes a partial batch.
Tick ==
    /\ wpc = "select" /\ stage = "run"
    /\ ~ctxDone /\ batch # <<>>
    /\ StartWrite(batch, "run")
    /\ UNCHANGED <<queue, sendMu, counters, producers, attempt, expired, ctxDone,
                   history>>

\* run sees ctx.Done(), in the select or after a tick, and drains.
StartDrain ==
    /\ wpc = "select" /\ stage = "run"
    /\ ctxDone
    /\ stage' = "drain"
    /\ UNCHANGED <<queue, sendMu, counters, producers, wpc, batch, attempt,
                   expired, ctxDone, history>>

\* drainAndClose takes what is still queued; a batch handed over full is one
\* record over size when it is written.
DrainReceive ==
    /\ wpc = "select" /\ stage = "drain"
    /\ queue # <<>>
    /\ queue' = Tail(queue)
    /\ LET b == Append(batch, Head(queue)) IN
       IF Full(b) THEN StartWrite(b, "drain")
       ELSE batch' = b /\ UNCHANGED <<wpc, stage>>
    /\ UNCHANGED <<sendMu, counters, producers, attempt, expired, ctxDone, history>>

\* Faulty variant of DrainEmpty: the partial batch is not flushed.
DrainEmptyNoFlush ==
    /\ wpc = "select" /\ stage = "drain"
    /\ queue = <<>>
    /\ wpc' = "close"
    /\ UNCHANGED <<queue, sendMu, counters, producers, stage, batch, attempt,
                   expired, ctxDone, history>>

\* drainAndClose finds the queue empty: the last write, if any, then Close.
DrainEmpty ==
    /\ wpc = "select" /\ stage = "drain"
    /\ queue = <<>>
    /\ IF batch # <<>> THEN StartWrite(batch, "flush")
       ELSE wpc' = "close" /\ UNCHANGED <<stage, batch>>
    /\ UNCHANGED <<queue, sendMu, counters, producers, attempt, expired, ctxDone,
                   history>>

CloseSink ==
    /\ wpc = "close"
    /\ wpc' = "done"
    /\ UNCHANGED <<queue, sendMu, counters, producers, stage, batch, attempt,
                   expired, ctxDone, history>>

\* Faulty variant of Settle: a dropped batch wakes nobody.
SettleWakesOnSuccess(last, ok) ==
    /\ written' = IF last > written THEN last ELSE written
    /\ failed' = IF ~ok /\ last > failed THEN last ELSE failed
    /\ progress' = IF ok THEN progress + 1 ELSE progress
    /\ UNCHANGED enqueued

\* settle: the counters move and every waiting poller is woken.
Settle(last, ok) ==
    /\ written' = IF last > written THEN last ELSE written
    /\ failed' = IF ~ok /\ last > failed THEN last ELSE failed
    /\ progress' = progress + 1
    /\ UNCHANGED enqueued

\* Faulty variant of EndWrite: settles the batch's first record, not its last.
EndWriteFirst(ok) ==
    /\ Settle(Head(batch), ok)
    /\ accepted' = IF ok THEN accepted \cup Items(batch) ELSE accepted
    /\ dropped' = IF ok THEN dropped ELSE dropped \cup Items(batch)
    /\ batch' = <<>> /\ attempt' = 1
    /\ wpc' = IF stage = "flush" THEN "close" ELSE "select"
    /\ UNCHANGED <<queue, sendMu, producers, stage, expired, ctxDone>>

\* write returns to its caller: run, drainAndClose's loop, or its last flush.
EndWrite(ok) ==
    /\ Settle(Last(batch), ok)
    /\ accepted' = IF ok THEN accepted \cup Items(batch) ELSE accepted
    /\ dropped' = IF ok THEN dropped ELSE dropped \cup Items(batch)
    /\ batch' = <<>> /\ attempt' = 1
    /\ wpc' = IF stage = "flush" THEN "close" ELSE "select"
    /\ UNCHANGED <<queue, sendMu, producers, stage, expired, ctxDone>>

\* The context writeRecords was given: run's, or drainAndClose's fresh one.
WriteDone == IF stage = "run" THEN ctxDone ELSE expired

SinkAccepts ==
    /\ wpc = "write"
    /\ EndWrite(TRUE)

\* Faulty variant of SinkFails: one attempt too many.
SinkFailsOffByOne ==
    /\ wpc = "write"
    /\ IF attempt > MaxAttempts \/ WriteDone
       THEN EndWrite(FALSE)
       ELSE /\ wpc' = "backoff"
            /\ UNCHANGED <<queue, sendMu, counters, producers, stage, batch,
                           attempt, expired, ctxDone, history>>

\* The sink reports an error: wait and retry, or drop the batch.
SinkFails ==
    /\ wpc = "write"
    /\ IF attempt >= MaxAttempts \/ WriteDone
       THEN EndWrite(FALSE)
       ELSE /\ wpc' = "backoff"
            /\ UNCHANGED <<queue, sendMu, counters, producers, stage, batch,
                           attempt, expired, ctxDone, history>>

Retry ==
    /\ wpc = "backoff"
    /\ wpc' = "write" /\ attempt' = attempt + 1
    /\ UNCHANGED <<queue, sendMu, counters, producers, stage, batch, expired,
                   ctxDone, history>>

BackoffCancelled ==
    /\ wpc = "backoff"
    /\ WriteDone
    /\ EndWrite(FALSE)

-----------------------------------------------------------------------------
(* The environment: shutdown, a poller stopped by reconcile, a deadline    *)

Shutdown ==
    /\ ~ctxDone
    /\ ctxDone' = TRUE
    /\ UNCHANGED <<queue, sendMu, counters, producers, worker, history>>

CancelPoller(p) ==
    /\ ~ctxDone /\ p \notin cancelled
    /\ cancelled' = cancelled \cup {p}
    /\ UNCHANGED <<queue, sendMu, counters, pc, seq, since, target, channel,
                   page, budget, worker, ctxDone, history>>

DrainExpires ==
    /\ stage # "run" /\ wpc # "done"
    /\ ~expired
    /\ expired' = TRUE
    /\ UNCHANGED <<queue, sendMu, counters, producers, wpc, stage, batch,
                   attempt, ctxDone, history>>

\* The process has stopped: shutdown() has seen every goroutine end.
Stopped ==
    /\ wpc = "done" /\ \A p \in Procs : pc[p] = "exit"
    /\ UNCHANGED vars

-----------------------------------------------------------------------------
Produce(p) ==
    \/ Call(p) \/ Lock(p) \/ Send(p) \/ SetEnqueued(p) \/ Overflow(p)
    \/ SendCancelled(p) \/ StreamerExit(p)

Poll(p) ==
    \/ Mark(p) \/ ReadTarget(p) \/ CheckWritten(p) \/ Wake(p)
    \/ WaitCancelled(p) \/ NextPage(p) \/ PollerExit(p)

Work ==
    \/ Receive \/ Tick \/ StartDrain \/ DrainReceive \/ DrainEmpty
    \/ CloseSink \/ Retry \/ BackoffCancelled

SinkReplies == SinkAccepts \/ SinkFails

Next ==
    \/ \E p \in Procs : Produce(p)
    \/ \E p \in Pollers : Poll(p) \/ CancelPoller(p)
    \/ Work \/ SinkReplies
    \/ Shutdown \/ DrainExpires
    \/ Stopped

Spec == Init /\ [][Next]_vars

(***************************************************************************)
(* Fairness.  Goroutines that can run do run.  A mutex is handed over in   *)
(* turn (Go's mutexes do not starve a waiter), which is strong fairness of *)
(* Lock.  Every sink write returns: the HTTP clients of sink/loki.go and   *)
(* sink/otlp.go time out after 30 s.  Nothing forces a poller to put one   *)
(* more line in its page, a stream to deliver one, or a shutdown.          *)
(***************************************************************************)
GoroutineFairness ==
    /\ \A p \in Procs :
          /\ SF_vars(Lock(p))
          /\ WF_vars(Send(p) \/ Overflow(p) \/ SendCancelled(p))
          /\ WF_vars(SetEnqueued(p)) /\ WF_vars(StreamerExit(p))
    /\ \A p \in Pollers :
          /\ WF_vars(ReadTarget(p)) /\ WF_vars(CheckWritten(p))
          /\ WF_vars(Wake(p) \/ WaitCancelled(p))
          /\ WF_vars(NextPage(p)) /\ WF_vars(pc[p] = "idle" /\ PollerExit(p))
    /\ WF_vars(Work)

FairSpec == Spec /\ GoroutineFairness /\ WF_vars(SinkReplies)

-----------------------------------------------------------------------------
(* Properties                                                              *)

\* The type invariant.  drainAndClose can hold one record more than a batch.
TypeOK ==
    /\ queue \in Seq(SeqNum) /\ Len(queue) <= QueueSize
    /\ batch \in Seq(SeqNum) /\ Len(batch) <= BatchSize + 1
    /\ sendMu \in Procs \cup {None}
    /\ enqueued \in Nat /\ written \in Nat /\ failed \in Nat /\ progress \in Nat
    /\ pc \in [Procs -> {"idle", "page", "lock", "send", "sent", "check",
                         "wait", "ok", "lost", "exit"}]
    /\ seq \in [Procs -> Nat]
    /\ since \in [Pollers -> Nat] /\ target \in [Pollers -> Nat]
    /\ channel \in [Pollers -> Nat]
    /\ page \in [Pollers -> SUBSET SeqNum]
    /\ cancelled \subseteq Pollers
    /\ budget \in 0..Budget
    /\ wpc \in {"select", "write", "backoff", "close", "done"}
    /\ stage \in {"run", "drain", "flush"}
    /\ attempt \in 1..MaxAttempts
    /\ expired \in BOOLEAN /\ ctxDone \in BOOLEAN
    /\ accepted \subseteq SeqNum /\ dropped \subseteq SeqNum

\* sendMu "orders sequence numbers with channel sends, so the queue is in seq
\* order and written can be a single watermark" (worker.go:27-28): what the
\* worker holds and what is queued are the records after written, in order and
\* with no gap, whatever the interleaving of the producers.
QueueInSeqOrder ==
    LET held == batch \o queue
    IN  \A i \in 1..Len(held) : held[i] = written + i

\* The watermark is sound: a record is settled, once and with one outcome,
\* exactly when written has passed it.
SettledUpToWritten ==
    /\ accepted \cup dropped = 1..written
    /\ accepted \cap dropped = {}

\* What a cursor relies on: when waitWritten reports TRUE, every record put on
\* the queue between mark and waitWritten was accepted by the sink, and so was
\* every record of the caller's own page.  When it reports FALSE a record
\* enqueued after the mark was dropped.
VerdictSound ==
    \A p \in Pollers :
        /\ pc[p] = "ok" => /\ since[p] + 1 .. target[p] \subseteq accepted
                           /\ page[p] \subseteq accepted
        /\ pc[p] = "lost" => \E r \in dropped : r > since[p]

\* settle never wakes too few: a poller whose channel is still open is waiting
\* for a record the worker has yet to settle.
NoLostWakeup ==
    \A p \in Pollers :
        pc[p] = "wait" /\ channel[p] = progress => written < target[p]

\* The sink is never closed on records the worker has taken off the queue.
FlushedBeforeClose == wpc \in {"close", "done"} => batch = <<>>

\* waitWritten returns: every page a poller waits for is decided.
PageDecided ==
    \A p \in Pollers :
        pc[p] \in {"check", "wait"} ~> pc[p] \in {"ok", "lost", "exit"}

\* shutdown() returns: once the root context has ended every producer stops,
\* even one blocked on a full queue or on sendMu behind such a one, and the
\* worker drains and closes its sink.
ShutdownCompletes == ctxDone ~> (wpc = "done" /\ \A p \in Procs : pc[p] = "exit")

(***************************************************************************)
(* The worker implements the hand-over of records that LogHandoff          *)
(* specifies: a record is pending from the channel send until its batch is *)
(* settled.                                                                *)
(***************************************************************************)
Handoff == INSTANCE LogHandoff WITH
    handed <- written + Len(batch) + Len(queue),
    pending <- Items(batch) \cup Items(queue),
    verdict <- [p \in Pollers |->
                  IF pc[p] \in {"ok", "lost"} THEN pc[p] ELSE "open"]

\* Every behaviour of the worker is one of LogHandoff.
ImplementsHandoff == Handoff!Spec

=============================================================================
