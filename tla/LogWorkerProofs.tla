-------------------------- MODULE LogWorkerProofs --------------------------
(***************************************************************************)
(* Proofs about LogWorker, for every number of producers, every queue and  *)
(* batch size and every number of records.                                 *)
(***************************************************************************)
EXTENDS LogWorker, TLAPS

\* The process in the critical section of sendMu, and what it knows: only the
\* holder is between Lock and Unlock, and its seq is the next one.
MutexInv ==
    \A p \in Procs :
        /\ pc[p] \in {"send", "sent"} => sendMu = p
        /\ sendMu = p => pc[p] \in {"send", "sent"} /\ seq[p] = enqueued + 1

\* The records handed to the channel so far.
Sent == written + Len(batch) + Len(queue)

\* Room left in the batch between two channel receives, and the retry count.
SizeInv ==
    /\ wpc = "select" => Len(batch) <= BatchSize
    /\ wpc = "select" /\ stage = "run" => Len(batch) < BatchSize
    /\ wpc = "backoff" => attempt < MaxAttempts

\* The queue continues the batch, which continues written; enqueued lags by
\* the one record whose sender is about to call setEnqueued.
OrderInv ==
    /\ \A i \in 1..Len(batch) : batch[i] = written + i
    /\ \A i \in 1..Len(queue) : queue[i] = written + Len(batch) + i
    /\ Sent = IF \E p \in Procs : pc[p] = "sent" THEN enqueued + 1 ELSE enqueued
    /\ wpc \in {"write", "backoff"} => batch # <<>>

\* failed is the last dropped record.
SettleInv ==
    /\ SettledUpToWritten
    /\ \A r \in dropped : r <= failed
    /\ failed # 0 => failed \in dropped

\* A page lies between its mark and, once waitWritten has read it, its target.
PageInv ==
    \A p \in Pollers :
        /\ since[p] <= enqueued
        /\ pc[p] \in {"idle", "exit"} => page[p] = {}
        /\ pc[p] \in {"page", "lock", "send"} => page[p] \subseteq since[p]+1 .. enqueued
        /\ pc[p] = "sent" => page[p] \subseteq since[p]+1 .. enqueued+1
        /\ pc[p] \in {"check", "wait", "ok", "lost"} =>
              /\ page[p] \subseteq since[p]+1 .. target[p]
              /\ target[p] <= enqueued
        /\ pc[p] = "ok" => since[p]+1 .. target[p] \subseteq accepted
        /\ pc[p] = "lost" => \E r \in dropped : r > since[p]

\* A poller waits on the current progress channel only while it has to.
WaitInv ==
    \A p \in Pollers :
        /\ channel[p] <= progress
        /\ pc[p] = "wait" /\ channel[p] = progress => written < target[p]

\* The inductive invariant behind the verdict of waitWritten.
IInv ==
    /\ TypeOK
    /\ MutexInv
    /\ SizeInv
    /\ OrderInv
    /\ SettleInv
    /\ PageInv
    /\ WaitInv

-----------------------------------------------------------------------------
\* Init establishes the invariant.
LEMMA InitInv == Init => IInv
<1> SUFFICES ASSUME Init PROVE IInv
  OBVIOUS
<1>1. MutexInv
  BY WorkerAssumption DEF Init, MutexInv, Procs
<1>2. SizeInv /\ OrderInv
  BY WorkerAssumption DEF Init, SizeInv, OrderInv, Sent
<1>3. SettleInv
  BY DEF Init, SettleInv, SettledUpToWritten
<1>6. WaitInv
  <2> SUFFICES ASSUME NEW p \in Pollers
               PROVE  channel[p] <= progress /\ pc[p] = "idle"
    BY DEF WaitInv
  <2> QED
    BY DEF Init, Procs
<1>4. PageInv
  <2> SUFFICES ASSUME NEW p \in Pollers
               PROVE  pc[p] = "idle" /\ page[p] = {} /\ since[p] <= enqueued
    BY DEF PageInv
  <2> QED
    BY DEF Init, Procs
<1>5. TypeOK
  <2>1. attempt \in 1..MaxAttempts /\ budget \in 0..Budget
    BY WorkerAssumption DEF Init
  <2>2. /\ queue \in Seq(SeqNum) /\ Len(queue) <= QueueSize
        /\ batch \in Seq(SeqNum) /\ Len(batch) <= BatchSize + 1
    BY WorkerAssumption DEF Init
  <2>3. pc \in [Procs -> {"idle", "page", "lock", "send", "sent", "check",
                         "wait", "ok", "lost", "exit"}]
    BY DEF Init
  <2> QED
    BY <2>1, <2>2, <2>3 DEF Init, TypeOK
<1> QED
  BY <1>1, <1>2, <1>3, <1>4, <1>5, <1>6 DEF IInv

\* Receiving from the channel: the batch with the queue's head, and the rest.
LEMMA TakeOne ==
  ASSUME TypeOK, queue # <<>>
  PROVE  LET b == Append(batch, Head(queue)) IN
         /\ Tail(queue) \in Seq(SeqNum) /\ Len(Tail(queue)) = Len(queue) - 1
         /\ \A i \in 1..Len(queue) - 1 : Tail(queue)[i] = queue[i + 1]
         /\ b \in Seq(SeqNum) /\ Len(b) = Len(batch) + 1
         /\ \A i \in 1..Len(batch) : b[i] = batch[i]
         /\ b[Len(batch) + 1] = queue[1]
<1>1. queue \in Seq(SeqNum) /\ batch \in Seq(SeqNum)
  BY DEF TypeOK
<1>2. Len(queue) # 0 /\ Head(queue) = queue[1] /\ Head(queue) \in SeqNum
  BY <1>1
<1> QED
  BY <1>1, <1>2

\* The end of a sink write keeps the types, whatever its outcome.
LEMMA EndWriteType ==
  ASSUME TypeOK, batch # <<>>, NEW ok \in BOOLEAN, EndWrite(ok)
  PROVE  TypeOK'
<1>1. Last(batch) \in SeqNum /\ Items(batch) \subseteq SeqNum
  BY DEF TypeOK, Last, Items
<1>2. /\ enqueued' \in Nat /\ written' \in Nat /\ failed' \in Nat /\ progress' \in Nat
  BY <1>1 DEF TypeOK, EndWrite, Settle, SeqNum
<1>3. accepted' \subseteq SeqNum /\ dropped' \subseteq SeqNum
  BY <1>1 DEF TypeOK, EndWrite
<1>4. /\ batch' \in Seq(SeqNum) /\ Len(batch') <= BatchSize + 1
      /\ attempt' \in 1..MaxAttempts
  BY WorkerAssumption DEF EndWrite
<1>5. wpc' \in {"select", "write", "backoff", "close", "done"}
  BY DEF EndWrite
<1> QED
  BY <1>2, <1>3, <1>4, <1>5 DEF TypeOK, EndWrite, producers

\* Every step keeps the types, given the rest of the invariant.
LEMMA TypeStep == IInv /\ [Next]_vars => TypeOK'
<1> SUFFICES ASSUME IInv, [Next]_vars PROVE TypeOK'
  OBVIOUS
<1> USE WorkerAssumption DEF TypeOK, Procs, SeqNum, producers, counters, worker, history,
        Goto, EndPage, Unlock
<1>0. TypeOK /\ MutexInv /\ SizeInv
  BY DEF IInv
<1>1. ASSUME NEW p \in Procs, Produce(p) PROVE TypeOK'
  <2>1. CASE Call(p)
    BY <1>0, <2>1, SMTT(30) DEF Call
  <2>2. CASE Lock(p)
    BY <1>0, <2>2 DEF Lock
  <2>3. CASE Send(p)
    BY <1>0, <2>3, SMTT(30) DEF Send, MutexInv
  <2>4. CASE SetEnqueued(p)
    BY <1>0, <2>4 DEF SetEnqueued
  <2>5. CASE Overflow(p)
    BY <1>0, <2>5 DEF Overflow
  <2>6. CASE SendCancelled(p)
    BY <1>0, <2>6 DEF SendCancelled
  <2>7. CASE StreamerExit(p)
    BY <1>0, <2>7 DEF StreamerExit
  <2> QED
    BY <1>1, <2>1, <2>2, <2>3, <2>4, <2>5, <2>6, <2>7 DEF Produce
<1>2. ASSUME NEW p \in Pollers, Poll(p) \/ CancelPoller(p) PROVE TypeOK'
  <2>1. CASE Mark(p)
    BY <1>0, <2>1 DEF Mark
  <2>2. CASE ReadTarget(p)
    BY <1>0, <2>2 DEF ReadTarget
  <2>3. CASE CheckWritten(p)
    <3>1. \E l \in {"ok", "lost", "wait"} : pc' = [pc EXCEPT ![p] = l]
      BY <2>3 DEF CheckWritten
    <3>2. channel' \in [Pollers -> Nat]
      <4>1. channel' = channel \/ channel' = [channel EXCEPT ![p] = progress]
        BY <2>3 DEF CheckWritten
      <4>2. channel \in [Pollers -> Nat] /\ progress \in Nat
        BY <1>0
      <4> QED
        BY <4>1, <4>2
    <3> QED
      BY <1>0, <2>3, <3>1, <3>2 DEF CheckWritten
  <2>4. CASE Wake(p)
    BY <1>0, <2>4 DEF Wake
  <2>5. CASE WaitCancelled(p)
    BY <1>0, <2>5 DEF WaitCancelled
  <2>6. CASE NextPage(p)
    BY <1>0, <2>6 DEF NextPage
  <2>7. CASE PollerExit(p)
    BY <1>0, <2>7 DEF PollerExit
  <2>8. CASE CancelPoller(p)
    BY <1>0, <2>8 DEF CancelPoller
  <2> QED
    BY <1>2, <2>1, <2>2, <2>3, <2>4, <2>5, <2>6, <2>7, <2>8 DEF Poll
<1>3. CASE Work
  <2>1. CASE Receive
    <3>1. /\ queue' \in Seq(SeqNum) /\ Len(queue') <= QueueSize
          /\ batch' \in Seq(SeqNum) /\ Len(batch') <= BatchSize + 1
      <4> DEFINE b == Append(batch, Head(queue))
      <4>1. /\ queue' = Tail(queue) /\ batch' = b
            /\ Len(batch) <= BatchSize
        BY <1>0, <2>1 DEF Receive, StartWrite, SizeInv
      <4> QED
        BY <1>0, <2>1, <4>1, TakeOne DEF Receive
    <3> QED
      BY <1>0, <2>1, <3>1 DEF Receive, StartWrite
  <2>2. CASE Tick
    BY <1>0, <2>2 DEF Tick, StartWrite
  <2>3. CASE StartDrain
    BY <1>0, <2>3 DEF StartDrain
  <2>4. CASE DrainReceive
    <3>1. /\ queue' \in Seq(SeqNum) /\ Len(queue') <= QueueSize
          /\ batch' \in Seq(SeqNum) /\ Len(batch') <= BatchSize + 1
      <4> DEFINE b == Append(batch, Head(queue))
      <4>1. /\ queue' = Tail(queue) /\ batch' = b
            /\ Len(batch) <= BatchSize
        BY <1>0, <2>4 DEF DrainReceive, StartWrite, SizeInv
      <4> QED
        BY <1>0, <2>4, <4>1, TakeOne, SMTT(30) DEF DrainReceive
    <3> QED
      BY <1>0, <2>4, <3>1 DEF DrainReceive, StartWrite
  <2>5. CASE DrainEmpty
    BY <1>0, <2>5 DEF DrainEmpty, StartWrite
  <2>6. CASE CloseSink
    BY <1>0, <2>6 DEF CloseSink
  <2>7. CASE Retry
    BY <1>0, <2>7 DEF Retry, SizeInv
  <2>8. CASE BackoffCancelled
    BY <2>8, <1>0, EndWriteType DEF BackoffCancelled, IInv, OrderInv
  <2> QED
    BY <1>3, <2>1, <2>2, <2>3, <2>4, <2>5, <2>6, <2>7, <2>8 DEF Work
<1>4. CASE SinkReplies
  <2>1. CASE SinkAccepts
    BY <2>1, <1>0, EndWriteType DEF SinkAccepts, IInv, OrderInv
  <2>2. CASE SinkFails
    <3>1. CASE EndWrite(FALSE)
      BY <2>2, <3>1, <1>0, EndWriteType DEF SinkFails, IInv, OrderInv
    <3>2. CASE ~EndWrite(FALSE)
      BY <2>2, <3>2, <1>0 DEF SinkFails
    <3> QED
      BY <3>1, <3>2
  <2> QED
    BY <1>4, <2>1, <2>2 DEF SinkReplies
<1>5. CASE Shutdown
  BY <1>0, <1>5 DEF Shutdown
<1>6. CASE DrainExpires
  BY <1>0, <1>6 DEF DrainExpires
<1>7. CASE UNCHANGED vars
  BY <1>0, <1>7 DEF vars
<1> QED
  BY <1>1, <1>2, <1>3, <1>4, <1>5, <1>6, <1>7 DEF Next, Stopped

-----------------------------------------------------------------------------
(* Frames: what the worker's and the environment's steps leave alone, and   *)
(* what a producer's step leaves alone.                                     *)

Environment == Shutdown \/ DrainExpires \/ \E p \in Pollers : CancelPoller(p)

\* The worker goroutine and the environment do not touch the producers.
LEMMA WorkerFrame ==
  ASSUME Work \/ SinkReplies \/ Environment
  PROVE  UNCHANGED <<pc, seq, since, target, channel, page, sendMu, enqueued>>
<1> USE DEF producers, counters
<1>1. ASSUME NEW ok \in BOOLEAN, EndWrite(ok)
      PROVE  UNCHANGED <<pc, seq, since, target, channel, page, sendMu, enqueued>>
  BY <1>1 DEF EndWrite, Settle
<1>2. CASE Receive \/ Tick \/ StartDrain \/ DrainReceive \/ DrainEmpty \/ CloseSink \/ Retry
  BY <1>2 DEF Receive, Tick, StartDrain, DrainReceive, DrainEmpty, CloseSink, Retry
<1>3. CASE BackoffCancelled \/ SinkAccepts \/ SinkFails
  BY <1>1, <1>3 DEF BackoffCancelled, SinkAccepts, SinkFails
<1>4. CASE Environment
  BY <1>4 DEF Environment, Shutdown, DrainExpires, CancelPoller
<1> QED
  BY <1>2, <1>3, <1>4 DEF Work, SinkReplies

\* A producer's step does not touch the worker goroutine.
LEMMA ProducerFrame ==
  ASSUME NEW p \in Procs, Produce(p) \/ (p \in Pollers /\ Poll(p))
  PROVE  UNCHANGED <<worker, history, written, failed, progress>>
BY DEF Produce, Poll, Call, Lock, Send, SetEnqueued, Overflow, SendCancelled,
       StreamerExit, Mark, ReadTarget, CheckWritten, Wake, WaitCancelled,
       NextPage, PollerExit, counters

\* Mutual exclusion of sendMu and the holder's sequence number.
LEMMA MutexStep == IInv /\ [Next]_vars => MutexInv'
<1> SUFFICES ASSUME IInv, [Next]_vars PROVE MutexInv'
  OBVIOUS
<1> USE DEF Goto, Procs
<1>0. TypeOK /\ MutexInv /\ None \notin Procs
  BY WorkerAssumption DEF IInv
<1>1. ASSUME UNCHANGED <<pc, seq, sendMu, enqueued>> PROVE MutexInv'
  BY <1>0, <1>1 DEF MutexInv
<1>2. ASSUME NEW p \in Procs, Produce(p) PROVE MutexInv'
  <2>0. /\ pc \in [Procs -> {"idle", "page", "lock", "send", "sent", "check",
                            "wait", "ok", "lost", "exit"}]
        /\ seq \in [Procs -> Nat]
    BY <1>0 DEF TypeOK
  <2>1. CASE Call(p) \/ StreamerExit(p)
    BY <1>0, <2>0, <2>1 DEF Call, StreamerExit, MutexInv, counters
  <2>2. CASE Lock(p)
    BY <1>0, <2>0, <2>2 DEF Lock, MutexInv, counters
  <2>3. CASE Send(p)
    BY <1>0, <2>0, <2>3 DEF Send, MutexInv, counters
  <2>4. CASE SetEnqueued(p)
    BY <1>0, <2>0, <2>4 DEF SetEnqueued, MutexInv, Unlock
  <2>5. CASE Overflow(p)
    BY <1>0, <2>0, <2>5 DEF Overflow, MutexInv, Unlock, counters
  <2>6. CASE SendCancelled(p)
    BY <1>0, <2>0, <2>6 DEF SendCancelled, MutexInv, Unlock, counters
  <2> QED
    BY <1>2, <2>1, <2>2, <2>3, <2>4, <2>5, <2>6 DEF Produce
<1>3. ASSUME NEW p \in Pollers, Poll(p) PROVE MutexInv'
  <2>1. PICK l \in {"idle", "page", "check", "wait", "ok", "lost", "exit"} :
           pc[p] \notin {"send", "sent"} /\ pc' = [pc EXCEPT ![p] = l]
    BY <1>3 DEF Poll, Mark, ReadTarget, CheckWritten, Wake, WaitCancelled,
                NextPage, PollerExit
  <2>2. UNCHANGED <<seq, sendMu, enqueued>>
    BY <1>3 DEF Poll, Mark, ReadTarget, CheckWritten, Wake, WaitCancelled,
                NextPage, PollerExit, counters
  <2> QED
    BY <1>0, <2>1, <2>2 DEF MutexInv, TypeOK
<1>4. CASE Work \/ SinkReplies \/ Environment
  BY <1>1, <1>4, WorkerFrame
<1>5. CASE UNCHANGED vars
  BY <1>1, <1>5 DEF vars, producers, counters
<1> QED
  BY <1>2, <1>3, <1>4, <1>5 DEF Next, Stopped, Environment

-----------------------------------------------------------------------------
\* The batch keeps room, and a retry is only taken while attempts are left.
LEMMA SizeStep == IInv /\ [Next]_vars => SizeInv'
<1> SUFFICES ASSUME IInv, [Next]_vars PROVE SizeInv'
  OBVIOUS
<1>0. TypeOK /\ SizeInv /\ BatchSize \in Nat \ {0} /\ MaxAttempts \in Nat \ {0}
  BY WorkerAssumption DEF IInv
<1>1. ASSUME UNCHANGED <<wpc, stage, batch, attempt>> PROVE SizeInv'
  BY <1>1, <1>0 DEF SizeInv
<1>2. ASSUME NEW ok \in BOOLEAN, EndWrite(ok) PROVE SizeInv'
  BY <1>0, <1>2 DEF EndWrite, SizeInv
<1>3. CASE Work
  <2>1. CASE Receive \/ DrainReceive
    <3> DEFINE b == Append(batch, Head(queue))
    <3>1. Len(b) = Len(batch) + 1 /\ Len(batch) \in Nat
      BY <1>0, <2>1, TakeOne DEF Receive, DrainReceive, TypeOK
    <3> HIDE DEF b
    <3>2. CASE Receive
      <4>1. \/ ~Full(b) /\ batch' = b /\ wpc' = wpc /\ stage' = "run"
            \/ Full(b) /\ batch' = b /\ wpc' = wpc /\ stage' = "drain"
            \/ wpc' = "write"
        BY <3>2 DEF Receive, StartWrite, b
      <4>2. Len(batch) < BatchSize
        BY <1>0, <3>2 DEF Receive, SizeInv
      <4> QED
        BY <1>0, <3>1, <3>2, <4>1, <4>2 DEF Receive, SizeInv, Full
    <3>3. CASE DrainReceive
      <4>1. \/ ~Full(b) /\ batch' = b /\ UNCHANGED <<wpc, stage>>
            \/ wpc' = "write"
        BY <3>3 DEF DrainReceive, StartWrite, b
      <4> QED
        BY <1>0, <3>1, <3>3, <4>1 DEF DrainReceive, SizeInv, Full
    <3> QED
      BY <2>1, <3>2, <3>3
  <2>2. CASE Tick \/ StartDrain \/ DrainEmpty \/ CloseSink \/ Retry
    BY <1>0, <2>2 DEF Tick, StartDrain, DrainEmpty, CloseSink, Retry, StartWrite,
                      SizeInv, TypeOK
  <2>3. CASE BackoffCancelled
    BY <1>2, <2>3 DEF BackoffCancelled
  <2> QED
    BY <1>3, <2>1, <2>2, <2>3 DEF Work
<1>4. CASE SinkReplies
  <2>1. CASE EndWrite(TRUE) \/ EndWrite(FALSE)
    BY <1>2, <2>1
  <2>2. CASE ~(EndWrite(TRUE) \/ EndWrite(FALSE))
    <3>1. ~(attempt >= MaxAttempts) /\ wpc' = "backoff" /\ attempt' = attempt
      BY <1>4, <2>2 DEF SinkReplies, SinkAccepts, SinkFails
    <3>2. attempt \in Nat
      BY <1>0 DEF TypeOK
    <3> QED
      BY <1>0, <3>1, <3>2 DEF SizeInv
  <2> QED
    BY <2>1, <2>2
<1>5. CASE Environment
  BY <1>1, <1>5 DEF Environment, Shutdown, DrainExpires, CancelPoller, worker
<1>6. ASSUME NEW p \in Procs, Produce(p) \/ (p \in Pollers /\ Poll(p)) PROVE SizeInv'
  BY <1>1, <1>6, ProducerFrame DEF worker
<1>7. CASE UNCHANGED vars
  BY <1>1, <1>7 DEF vars, worker
<1> QED
  BY <1>3, <1>4, <1>5, <1>6, <1>7 DEF Next, Stopped, Environment, Procs

\* The queue stays in seq order behind the batch, with no gap.
LEMMA OrderStep == IInv /\ [Next]_vars => OrderInv'
<1> SUFFICES ASSUME IInv, [Next]_vars PROVE OrderInv'
  OBVIOUS
<1>0. TypeOK /\ MutexInv /\ OrderInv
  BY DEF IInv
<1>t. /\ queue \in Seq(SeqNum) /\ batch \in Seq(SeqNum) /\ written \in Nat
      /\ Len(queue) \in Nat /\ Len(batch) \in Nat /\ enqueued \in Nat
      /\ pc \in [Procs -> {"idle", "page", "lock", "send", "sent", "check",
                          "wait", "ok", "lost", "exit"}]
  BY <1>0 DEF TypeOK
<1>1. ASSUME UNCHANGED <<queue, batch, written, enqueued>>,
             wpc' = wpc \/ wpc' \notin {"write", "backoff"} \/ batch # <<>>,
             \A p \in Procs : pc'[p] = "sent" <=> pc[p] = "sent"
      PROVE  OrderInv'
  <2>1. Sent' = Sent
    BY <1>1 DEF Sent
  <2>2. (\E p \in Procs : pc'[p] = "sent") = (\E p \in Procs : pc[p] = "sent")
    BY <1>1
  <2> QED
    BY <1>0, <1>1, <2>1, <2>2 DEF OrderInv
<1>2. ASSUME NEW p \in Procs, Send(p) PROVE OrderInv'
  <2>1. /\ pc[p] = "send" /\ sendMu = p /\ seq[p] = enqueued + 1
        /\ pc'[p] = "sent"
    BY <1>0, <1>t, <1>2 DEF Send, MutexInv, Goto
  <2>2. \A q \in Procs : pc[q] # "sent"
    BY <1>0, <2>1 DEF MutexInv
  <2>3. Sent = enqueued
    BY <1>0, <2>2 DEF OrderInv
  <2>4. /\ Len(queue') = Len(queue) + 1
        /\ \A i \in 1..Len(queue) : queue'[i] = queue[i]
        /\ queue'[Len(queue) + 1] = seq[p]
        /\ UNCHANGED <<batch, written, enqueued, wpc>>
    <3>1. seq[p] \in SeqNum
      BY <1>t, <2>1 DEF SeqNum
    <3> QED
      BY <1>t, <1>2, <3>1 DEF Send, counters, worker
  <2>5. Sent' = enqueued' + 1
    BY <1>t, <2>3, <2>4 DEF Sent
  <2>6. \A i \in 1..Len(queue') : queue'[i] = written' + Len(batch') + i
    BY <1>0, <1>t, <2>1, <2>3, <2>4 DEF OrderInv, Sent
  <2> QED
    BY <1>0, <2>1, <2>4, <2>5, <2>6 DEF OrderInv
<1>3. ASSUME NEW p \in Procs, SetEnqueued(p) PROVE OrderInv'
  <2>1. /\ pc[p] = "sent" /\ sendMu = p /\ enqueued' = enqueued + 1
        /\ pc'[p] # "sent" /\ \A q \in Procs \ {p} : pc'[q] = pc[q]
        /\ UNCHANGED <<queue, batch, written, wpc>>
    BY <1>0, <1>t, <1>3 DEF SetEnqueued, MutexInv, Goto, worker
  <2>2. \A q \in Procs : pc'[q] # "sent"
    BY <1>0, <2>1 DEF MutexInv
  <2>3. Sent' = enqueued'
    BY <1>0, <2>1 DEF OrderInv, Sent
  <2> QED
    BY <1>0, <2>1, <2>2, <2>3 DEF OrderInv
<1>4. ASSUME Receive \/ DrainReceive PROVE OrderInv'
  <2>1. queue # <<>> /\ queue' = Tail(queue) /\ batch' = Append(batch, Head(queue))
    BY <1>4 DEF Receive, DrainReceive, StartWrite
  <2>2. UNCHANGED <<pc, enqueued, written>>
    BY <1>4 DEF Receive, DrainReceive, producers, counters
  <2>3. /\ Len(queue') = Len(queue) - 1 /\ Len(batch') = Len(batch) + 1
        /\ \A i \in 1..Len(queue) - 1 : queue'[i] = queue[i + 1]
        /\ \A i \in 1..Len(batch) : batch'[i] = batch[i]
        /\ batch'[Len(batch) + 1] = queue[1]
    BY <1>0, <2>1, TakeOne
  <2>4. 1 \in 1..Len(queue)
    BY <1>t, <2>1
  <2>5. queue[1] = written + Len(batch) + 1
    BY <1>0, <2>4 DEF OrderInv
  <2>6. ASSUME NEW i \in 1..Len(batch') PROVE batch'[i] = written' + i
    <3>1. CASE i \in 1..Len(batch)
      BY <1>0, <2>2, <2>3, <3>1 DEF OrderInv
    <3>2. CASE i = Len(batch) + 1
      BY <1>t, <2>2, <2>3, <2>5, <3>2
    <3> QED
      BY <1>t, <2>3, <3>1, <3>2
  <2>7. ASSUME NEW i \in 1..Len(queue')
        PROVE  queue'[i] = written' + Len(batch') + i
    <3>1. i + 1 \in 1..Len(queue) /\ i \in 1..Len(queue) - 1
      BY <1>t, <2>3
    <3>2. queue[i + 1] = written + Len(batch) + (i + 1)
      BY <1>0, <3>1 DEF OrderInv
    <3>3. queue'[i] = queue[i + 1]
      BY <2>3, <3>1
    <3> QED
      BY <1>t, <2>2, <2>3, <3>1, <3>2, <3>3
  <2>8. Sent' = Sent
    BY <1>t, <2>2, <2>3 DEF Sent
  <2>9. batch' # <<>>
    BY <1>t, <2>3
  <2> QED
    BY <1>0, <2>2, <2>6, <2>7, <2>8, <2>9 DEF OrderInv
<1>5. ASSUME NEW ok \in BOOLEAN, wpc \in {"write", "backoff"}, EndWrite(ok) PROVE OrderInv'
  <2>1. batch # <<>> /\ Len(batch) \in 1..Len(batch)
    BY <1>0, <1>t, <1>5 DEF OrderInv
  <2>2. Last(batch) = written + Len(batch)
    BY <1>0, <2>1 DEF OrderInv, Last
  <2>3. written' = written + Len(batch) /\ Len(batch') = 0 /\ batch' = <<>>
    <3>1. Len(batch) > 0 /\ Last(batch) > written
      BY <1>t, <2>1, <2>2
    <3> QED
      BY <1>t, <1>5, <2>2, <3>1 DEF EndWrite, Settle
  <2>4. UNCHANGED <<queue, pc, enqueued>> /\ wpc' \notin {"write", "backoff"}
    BY <1>5 DEF EndWrite, Settle, producers
  <2>5. Sent' = Sent
    BY <1>t, <2>3, <2>4 DEF Sent
  <2>6. \A i \in 1..Len(queue') : queue'[i] = written' + Len(batch') + i
    BY <1>0, <1>t, <2>3, <2>4 DEF OrderInv
  <2> QED
    BY <1>0, <1>t, <2>3, <2>4, <2>5, <2>6 DEF OrderInv
<1>6. ASSUME Tick \/ StartDrain \/ DrainEmpty \/ CloseSink \/ Retry PROVE OrderInv'
  BY <1>0, <1>1, <1>6 DEF Tick, StartDrain, DrainEmpty, CloseSink, Retry, StartWrite,
       OrderInv, producers, counters
<1>7. CASE SinkReplies \/ BackoffCancelled
  <2>1. CASE EndWrite(TRUE) \/ EndWrite(FALSE)
    BY <1>5, <1>7, <2>1 DEF SinkReplies, SinkAccepts, SinkFails, BackoffCancelled
  <2>2. CASE ~(EndWrite(TRUE) \/ EndWrite(FALSE))
    <3>1. wpc = "write" /\ UNCHANGED <<queue, batch, written, enqueued, pc>>
      BY <1>7, <2>2 DEF SinkReplies, SinkAccepts, SinkFails, BackoffCancelled,
         producers, counters
    <3> QED
      BY <1>0, <1>1, <3>1 DEF OrderInv
  <2> QED
    BY <2>1, <2>2
<1>8. CASE Environment
  BY <1>1, <1>8 DEF Environment, Shutdown, DrainExpires, CancelPoller, worker,
                    producers, counters
<1>9. ASSUME NEW p \in Procs, Produce(p) \/ (p \in Pollers /\ Poll(p)),
             ~Send(p), ~SetEnqueued(p)
      PROVE  OrderInv'
  <2>1. UNCHANGED <<queue, batch, written, enqueued, wpc>>
    BY <1>9 DEF Produce, Poll, Call, Lock, Overflow, SendCancelled, StreamerExit, Mark,
       ReadTarget, CheckWritten, Wake, WaitCancelled, NextPage, PollerExit,
       counters, worker
  <2>2. pc[p] # "sent" /\ \E l \in {"idle", "page", "lock", "send", "check", "wait",
                                  "ok", "lost", "exit"} : pc' = [pc EXCEPT ![p] = l]
    BY <1>9 DEF Produce, Poll, Call, Lock, Overflow, SendCancelled, StreamerExit, Mark,
       ReadTarget, CheckWritten, Wake, WaitCancelled, NextPage, PollerExit, Goto
  <2> QED
    BY <1>1, <1>t, <2>1, <2>2
<1>10. CASE UNCHANGED vars
  BY <1>1, <1>10 DEF vars, worker, producers, counters
<1> QED
  BY <1>2, <1>3, <1>4, <1>6, <1>7, <1>8, <1>9, <1>10
     DEF Next, Stopped, Environment, Procs, Work, Produce

-----------------------------------------------------------------------------
\* Every record is settled once, in order, and failed has passed the dropped ones.
LEMMA SettleStep == IInv /\ [Next]_vars => SettleInv'
<1> SUFFICES ASSUME IInv, [Next]_vars PROVE SettleInv'
  OBVIOUS
<1>0. TypeOK /\ OrderInv /\ SettleInv
  BY DEF IInv
<1>t. /\ batch \in Seq(SeqNum) /\ Len(batch) \in Nat /\ written \in Nat /\ failed \in Nat
  BY <1>0 DEF TypeOK
<1>1. ASSUME UNCHANGED <<written, failed, accepted, dropped>> PROVE SettleInv'
  BY <1>0, <1>1 DEF SettleInv, SettledUpToWritten
<1>2. ASSUME NEW ok \in BOOLEAN, wpc \in {"write", "backoff"}, EndWrite(ok) PROVE SettleInv'
  <2>1. batch # <<>> /\ Len(batch) > 0
    BY <1>0, <1>t, <1>2 DEF OrderInv
  <2>2. Last(batch) = written + Len(batch)
    BY <1>0, <1>t, <2>1 DEF OrderInv, Last
  <2>3. Items(batch) = written + 1 .. written + Len(batch)
    <3>1. ASSUME NEW r \in written + 1 .. written + Len(batch) PROVE r \in Items(batch)
      <4>1. r - written \in 1..Len(batch) /\ r = written + (r - written)
        BY <1>t
      <4>2. batch[r - written] = r
        BY <1>0, <4>1 DEF OrderInv
      <4> QED
        BY <4>1, <4>2 DEF Items
    <3>2. ASSUME NEW r \in Items(batch) PROVE r \in written + 1 .. written + Len(batch)
      <4>1. PICK i \in 1..Len(batch) : r = batch[i]
        BY DEF Items
      <4>2. r = written + i
        BY <1>0, <4>1 DEF OrderInv
      <4> QED
        BY <1>t, <4>2
    <3> QED
      BY <3>1, <3>2
  <2>4. written' = written + Len(batch)
    BY <1>t, <1>2, <2>1, <2>2 DEF EndWrite, Settle
  <2>5. accepted' \cup dropped' = (accepted \cup dropped) \cup Items(batch)
    BY <1>2 DEF EndWrite
  <2>6. accepted' \cup dropped' = 1..written'
    <3>1. accepted \cup dropped = 1..written
      BY <1>0 DEF SettleInv, SettledUpToWritten
    <3> HIDE DEF Items
    <3> QED
      BY <1>t, <2>1, <2>3, <2>4, <2>5, <3>1
  <2>7. accepted' \cap dropped' = {}
    <3>1. (accepted \cup dropped) \cap Items(batch) = {} /\ accepted \cap dropped = {}
      BY <1>0, <1>t, <2>3 DEF SettleInv, SettledUpToWritten
    <3> QED
      BY <1>2, <3>1 DEF EndWrite
  <2>8. \A r \in dropped' : r <= failed'
    <3>1. failed' = IF ~ok /\ Last(batch) > failed THEN Last(batch) ELSE failed
      BY <1>2 DEF EndWrite, Settle
    <3>2. dropped' = IF ok THEN dropped ELSE dropped \cup Items(batch)
      BY <1>2 DEF EndWrite
    <3>3. dropped \subseteq Nat /\ \A r \in dropped : r <= failed
      BY <1>0 DEF SettleInv, TypeOK, SeqNum
    <3> QED
      BY <1>t, <2>1, <2>2, <2>3, <3>1, <3>2, <3>3
  <2>9. failed' # 0 => failed' \in dropped'
    <3>1. Last(batch) \in Items(batch)
      BY <1>t, <2>1, <2>2, <2>3
    <3> QED
      BY <1>0, <1>2, <3>1 DEF EndWrite, Settle, SettleInv
  <2> QED
    BY <2>6, <2>7, <2>8, <2>9 DEF SettleInv, SettledUpToWritten
<1>3. CASE SinkReplies \/ BackoffCancelled
  <2>1. CASE EndWrite(TRUE) \/ EndWrite(FALSE)
    BY <1>2, <1>3, <2>1 DEF SinkReplies, SinkAccepts, SinkFails, BackoffCancelled
  <2>2. CASE ~(EndWrite(TRUE) \/ EndWrite(FALSE))
    BY <1>1, <1>3, <2>2 DEF SinkReplies, SinkAccepts, SinkFails, BackoffCancelled,
         counters, history
  <2> QED
    BY <2>1, <2>2
<1>4. CASE Receive \/ Tick \/ StartDrain \/ DrainReceive \/ DrainEmpty \/ CloseSink \/ Retry
  BY <1>1, <1>4 DEF Receive, Tick, StartDrain, DrainReceive, DrainEmpty, CloseSink, Retry,
       counters, history
<1>5. CASE Environment
  BY <1>1, <1>5 DEF Environment, Shutdown, DrainExpires, CancelPoller, counters, history
<1>6. ASSUME NEW p \in Procs, Produce(p) \/ (p \in Pollers /\ Poll(p)) PROVE SettleInv'
  BY <1>1, <1>6, ProducerFrame DEF history
<1>7. CASE UNCHANGED vars
  BY <1>1, <1>7 DEF vars, counters, history
<1> QED
  BY <1>3, <1>4, <1>5, <1>6, <1>7 DEF Next, Stopped, Environment, Procs, Work

\* What a poller's page holds at each point of the mark / waitWritten protocol.
LEMMA PageStep == IInv /\ [Next]_vars => PageInv'
<1> SUFFICES ASSUME IInv, [Next]_vars PROVE PageInv'
  OBVIOUS
<1>0. TypeOK /\ MutexInv /\ SettleInv /\ PageInv
  BY DEF IInv
<1>t. /\ pc \in [Procs -> {"idle", "page", "lock", "send", "sent", "check",
                          "wait", "ok", "lost", "exit"}]
      /\ since \in [Pollers -> Nat] /\ target \in [Pollers -> Nat]
      /\ page \in [Pollers -> SUBSET SeqNum]
      /\ enqueued \in Nat /\ Pollers \subseteq Procs
      /\ failed \in Nat /\ written \in Nat
  BY <1>0 DEF TypeOK, Procs
<1>1. ASSUME UNCHANGED <<pc, since, target, page, enqueued>>, accepted \subseteq accepted',
             dropped \subseteq dropped'
      PROVE  PageInv'
  BY <1>0, <1>1 DEF PageInv
<1>2. ASSUME NEW p \in Procs, Produce(p) PROVE PageInv'
  <2> SUFFICES ASSUME NEW q \in Pollers PROVE PageInv!(q)'
    BY DEF PageInv
  <2>0. accepted' = accepted /\ dropped' = dropped /\ PageInv!(q) /\ q \in Procs
    BY <1>0, <1>t, <1>2, ProducerFrame DEF PageInv, history
  <2>1. CASE Call(p)
    BY <1>t, <2>0, <2>1 DEF Call, Goto, counters
  <2>2. CASE Lock(p)
    BY <1>t, <2>0, <2>2 DEF Lock, Goto, counters
  <2>3. CASE Send(p)
    <3>1. seq[p] = enqueued + 1
      BY <1>0, <2>3 DEF Send, MutexInv
    <3>2. since' = since /\ target' = target /\ enqueued' = enqueued
      BY <2>3 DEF Send, counters
    <3>3. CASE p = q
      <4>1. /\ pc[q] = "send" /\ pc'[q] = "sent" /\ page'[q] = page[q] \cup {enqueued + 1}
        BY <1>t, <2>3, <3>1, <3>3 DEF Send, Goto
      <4> QED
        BY <1>t, <2>0, <3>2, <4>1
    <3>4. CASE p # q
      <4>1. pc'[q] = pc[q] /\ page'[q] = page[q]
        BY <1>t, <2>3, <3>4 DEF Send, Goto
      <4> QED
        BY <1>t, <2>0, <3>2, <4>1
    <3> QED
      BY <3>3, <3>4
  <2>4. CASE SetEnqueued(p)
    <3>1. seq[p] = enqueued + 1 /\ enqueued' = enqueued + 1 /\ pc[p] = "sent"
      BY <1>0, <2>4 DEF SetEnqueued, MutexInv
    <3>2. since' = since /\ target' = target /\ page' = page
      BY <2>4 DEF SetEnqueued
    <3>3. p # q => pc'[q] = pc[q] /\ pc[q] # "sent"
      BY <1>0, <1>t, <2>0, <2>4, <3>1 DEF SetEnqueued, MutexInv, Goto
    <3>4. p = q => pc'[q] = "page"
      BY <1>t, <2>4 DEF SetEnqueued, Goto
    <3> QED
      BY <1>t, <2>0, <3>1, <3>2, <3>3, <3>4
  <2>5. CASE Overflow(p) \/ StreamerExit(p)
    <3>1. p # q
      BY WorkerAssumption, <2>5 DEF Overflow, StreamerExit
    <3> QED
      BY <1>t, <2>0, <2>5, <3>1 DEF Overflow, StreamerExit, Goto, counters
  <2>6. CASE SendCancelled(p)
    BY <1>t, <2>0, <2>6 DEF SendCancelled, Goto, EndPage, counters
  <2> QED
    BY <1>2, <2>1, <2>2, <2>3, <2>4, <2>5, <2>6 DEF Produce
<1>3. ASSUME NEW p \in Pollers, Poll(p) PROVE PageInv'
  <2> SUFFICES ASSUME NEW q \in Pollers PROVE PageInv!(q)'
    BY DEF PageInv
  <2>0. /\ accepted' = accepted /\ dropped' = dropped /\ PageInv!(q)
        /\ q \in Procs /\ p \in Procs
    BY <1>0, <1>t, <1>3, ProducerFrame DEF PageInv, history
  <2>1. enqueued' = enqueued
    BY <1>3 DEF Poll, Mark, ReadTarget, CheckWritten, Wake, WaitCancelled,
                NextPage, PollerExit, counters
  <2>2. CASE Mark(p)
    BY <1>t, <2>0, <2>1, <2>2 DEF Mark, Goto
  <2>3. CASE ReadTarget(p)
    BY <1>t, <2>0, <2>1, <2>3 DEF ReadTarget, Goto
  <2>4. CASE CheckWritten(p)
    <3>0. UNCHANGED <<since, target, page>> /\ pc[p] = "check"
      BY <2>4 DEF CheckWritten
    <3>1. CASE p # q
      <4>1. pc'[q] = pc[q]
        BY <1>t, <2>0, <2>4, <3>1 DEF CheckWritten, Goto
      <4> QED
        BY <2>0, <2>1, <3>0, <4>1
    <3>2. CASE p = q /\ pc'[q] # "ok"
      <4>1. \/ pc'[q] = "wait"
            \/ pc'[q] = "lost" /\ ~(failed <= since[q])
        BY <1>t, <2>0, <2>4, <3>2 DEF CheckWritten, Goto
      <4>2. ~(failed <= since[q]) => failed \in dropped /\ failed > since[q]
        BY <1>0, <1>t DEF SettleInv
      <4> QED
        BY <2>0, <2>1, <3>0, <3>2, <4>1, <4>2
    <3>3. CASE p = q /\ pc'[q] = "ok"
      <4>1. written >= target[q] /\ failed <= since[q]
        BY <1>t, <2>0, <2>4, <3>3 DEF CheckWritten, Goto
      <4>2. ASSUME NEW r \in since[q]+1 .. target[q] PROVE r \in accepted
        <5>1. r \in 1..written /\ r > failed
          BY <1>t, <4>1
        <5> QED
          BY <1>0, <1>t, <5>1 DEF SettleInv, SettledUpToWritten
      <4> QED
        BY <2>0, <2>1, <3>0, <3>3, <4>2
    <3> QED
      BY <3>1, <3>2, <3>3
  <2>5. CASE Wake(p)
    BY <1>t, <2>0, <2>1, <2>5 DEF Wake, Goto
  <2>6. CASE WaitCancelled(p)
    BY <1>t, <2>0, <2>1, <2>6 DEF WaitCancelled, Goto, EndPage
  <2>7. CASE NextPage(p)
    <3>1. pc' = [pc EXCEPT ![p] = "exit"] \/ pc' = [pc EXCEPT ![p] = "idle"]
      BY <2>7 DEF NextPage, Goto
    <3>2. EndPage(p)
      BY <2>7 DEF NextPage
    <3> QED
      BY <1>t, <2>0, <2>1, <3>1, <3>2 DEF EndPage
  <2>8. CASE PollerExit(p)
    BY <1>t, <2>0, <2>1, <2>8 DEF PollerExit, Goto, EndPage
  <2> QED
    BY <1>3, <2>2, <2>3, <2>4, <2>5, <2>6, <2>7, <2>8 DEF Poll
<1>4. CASE Work \/ SinkReplies \/ Environment
  <2>1. accepted \subseteq accepted' /\ dropped \subseteq dropped'
    BY <1>4 DEF Work, SinkReplies, Environment, Receive, Tick, StartDrain, DrainReceive,
       DrainEmpty, CloseSink, Retry, BackoffCancelled, SinkAccepts, SinkFails, EndWrite,
       Shutdown, DrainExpires, CancelPoller, history
  <2> QED
    BY <1>1, <1>4, <2>1, WorkerFrame
<1>5. CASE UNCHANGED vars
  BY <1>1, <1>5 DEF vars, producers, counters, history
<1> QED
  BY <1>2, <1>3, <1>4, <1>5 DEF Next, Stopped, Environment

\* A poller is never left waiting on an open channel for a settled record.
LEMMA WaitStep == IInv /\ [Next]_vars => WaitInv'
<1> SUFFICES ASSUME IInv, [Next]_vars, NEW q \in Pollers
             PROVE  /\ channel'[q] <= progress'
                    /\ pc'[q] = "wait" /\ channel'[q] = progress' => written' < target'[q]
  BY DEF WaitInv
<1>t. /\ pc \in [Procs -> {"idle", "page", "lock", "send", "sent", "check",
                          "wait", "ok", "lost", "exit"}]
      /\ target \in [Pollers -> Nat] /\ channel \in [Pollers -> Nat]
      /\ progress \in Nat /\ written \in Nat /\ q \in Procs
  BY DEF IInv, TypeOK, Procs
<1>0. /\ channel[q] <= progress
      /\ pc[q] = "wait" /\ channel[q] = progress => written < target[q]
  BY DEF IInv, WaitInv
<1>1. CASE UNCHANGED <<pc, target, channel, progress, written>>
  BY <1>0, <1>1
<1>2. ASSUME NEW p \in Procs, Produce(p)
      PROVE  /\ channel'[q] <= progress'
             /\ pc'[q] = "wait" /\ channel'[q] = progress' => written' < target'[q]
  <2>1. UNCHANGED <<progress, written>>
    BY <1>2, ProducerFrame
  <2>2. PICK l \in {"idle", "page", "lock", "send", "sent", "exit"} :
           pc' = [pc EXCEPT ![p] = l]
    BY <1>2 DEF Produce, Call, Lock, Send, SetEnqueued, Overflow, SendCancelled,
                StreamerExit, Goto
  <2>3. \/ UNCHANGED <<target, channel>>
        \/ p \in Pollers /\ EndPage(p)
    BY <1>2 DEF Produce, Call, Lock, Send, SetEnqueued, Overflow, SendCancelled,
                StreamerExit
  <2> QED
    BY <1>t, <1>0, <2>1, <2>2, <2>3 DEF EndPage
<1>3. ASSUME NEW p \in Pollers, Poll(p)
      PROVE  /\ channel'[q] <= progress'
             /\ pc'[q] = "wait" /\ channel'[q] = progress' => written' < target'[q]
  <2>0. UNCHANGED <<progress, written>> /\ p \in Procs
    BY <1>3, ProducerFrame DEF Procs
  <2>1. CASE CheckWritten(p)
    <3>1. CASE p # q
      BY <1>t, <1>0, <2>0, <2>1, <3>1 DEF CheckWritten, Goto
    <3>2. CASE p = q
      <4>1. \/ pc'[q] \in {"ok", "lost"} /\ channel' = channel /\ target' = target
            \/ channel'[q] = progress /\ written < target[q] /\ target' = target
        BY <1>t, <2>1, <3>2 DEF CheckWritten, Goto
      <4> QED
        BY <1>t, <1>0, <2>0, <4>1
    <3> QED
      BY <3>1, <3>2
  <2>2. CASE ~CheckWritten(p)
    <3>1. PICK l \in {"idle", "page", "check", "exit"} : pc' = [pc EXCEPT ![p] = l]
      BY <1>3, <2>2 DEF Poll, Mark, ReadTarget, Wake, WaitCancelled, NextPage,
                        PollerExit, Goto
    <3>2. /\ target'[q] = target[q] \/ p = q
          /\ channel'[q] = channel[q] \/ channel'[q] = 0
      BY <1>t, <1>3, <2>2 DEF Poll, Mark, ReadTarget, Wake, WaitCancelled, NextPage,
                        PollerExit, EndPage
    <3> QED
      BY <1>t, <1>0, <2>0, <3>1, <3>2
  <2> QED
    BY <2>1, <2>2
<1>4. CASE Work \/ SinkReplies \/ Environment
  <2>1. UNCHANGED <<pc, target, channel>>
    BY <1>4, WorkerFrame
  <2>2. UNCHANGED <<progress, written>> \/ progress' = progress + 1
    BY <1>4 DEF Work, SinkReplies, Environment, Receive, Tick, StartDrain, DrainReceive,
       DrainEmpty, CloseSink, Retry, BackoffCancelled, SinkAccepts, SinkFails, EndWrite,
       Settle, Shutdown, DrainExpires, CancelPoller, counters
  <2> QED
    BY <1>t, <1>0, <2>1, <2>2
<1>5. CASE UNCHANGED vars
  BY <1>1, <1>5 DEF vars, producers, counters
<1> QED
  BY <1>2, <1>3, <1>4, <1>5 DEF Next, Stopped, Environment

-----------------------------------------------------------------------------
(* The theorems.                                                            *)

\* The inductive invariant holds throughout.
THEOREM Invariance == Spec => []IInv
<1>1. IInv /\ [Next]_vars => IInv'
  BY TypeStep, MutexStep, SizeStep, OrderStep, SettleStep, PageStep, WaitStep DEF IInv
<1> QED
  BY InitInv, <1>1, PTL DEF Spec

\* Every variable keeps its type, and queue and batch their bounds.
THEOREM TypeCorrect == Spec => []TypeOK
<1>1. IInv => TypeOK
  BY DEF IInv
<1> QED
  BY Invariance, <1>1, PTL

\* The queue is in sequence order, with no gap, for any interleaving of the
\* producers (worker.go:27-28).
THEOREM QueueOrdered == Spec => []QueueInSeqOrder
<1>1. IInv => QueueInSeqOrder
  <2> SUFFICES ASSUME IInv, NEW i \in 1..Len(batch \o queue)
               PROVE  (batch \o queue)[i] = written + i
    BY DEF QueueInSeqOrder
  <2>1. /\ OrderInv /\ written \in Nat
        /\ batch \in Seq(SeqNum) /\ queue \in Seq(SeqNum)
    BY DEF IInv, TypeOK
  <2>2. Len(batch \o queue) = Len(batch) + Len(queue) /\ Len(batch) \in Nat /\ Len(queue) \in Nat
    BY <2>1
  <2>3. CASE i <= Len(batch)
    BY <2>1, <2>2, <2>3 DEF OrderInv
  <2>4. CASE i > Len(batch)
    <3>1. i - Len(batch) \in 1..Len(queue)
      BY <2>2, <2>4
    <3>2. (batch \o queue)[i] = queue[i - Len(batch)]
      BY <2>1, <2>2, <2>4
    <3>3. queue[i - Len(batch)] = written + Len(batch) + (i - Len(batch))
      BY <2>1, <3>1 DEF OrderInv
    <3> QED
      BY <2>1, <2>2, <3>1, <3>2, <3>3
  <2> QED
    BY <2>2, <2>3, <2>4
<1> QED
  BY Invariance, <1>1, PTL

\* Records are settled exactly once, and written is a single watermark.
THEOREM SettledOnce == Spec => []SettledUpToWritten
<1>1. IInv => SettledUpToWritten
  BY DEF IInv, SettleInv
<1> QED
  BY Invariance, <1>1, PTL
\* What the cursor relies on: TRUE from waitWritten means that the sink accepted
\* the page, FALSE that some record after the mark was dropped.
THEOREM VerdictIsSound == Spec => []VerdictSound
<1>1. IInv => VerdictSound
  <2> SUFFICES ASSUME IInv, NEW p \in Pollers
               PROVE  /\ pc[p] = "ok" => /\ since[p] + 1 .. target[p] \subseteq accepted
                                         /\ page[p] \subseteq accepted
                      /\ pc[p] = "lost" => \E r \in dropped : r > since[p]
    BY DEF VerdictSound
  <2> QED
    BY DEF IInv, PageInv
<1> QED
  BY Invariance, <1>1, PTL

\* No wakeup is lost between settle and waitWritten.
THEOREM WakeupsAreKept == Spec => []NoLostWakeup
<1>1. IInv => NoLostWakeup
  BY DEF IInv, WaitInv, NoLostWakeup
<1> QED
  BY Invariance, <1>1, PTL

\* Only an empty batch leads to Close, and nothing is taken off the queue after.
LEMMA FlushedStep == FlushedBeforeClose /\ [Next]_vars => FlushedBeforeClose'
<1> SUFFICES ASSUME FlushedBeforeClose, [Next]_vars PROVE FlushedBeforeClose'
  OBVIOUS
<1>1. ASSUME UNCHANGED <<wpc, batch>> PROVE FlushedBeforeClose'
  BY <1>1 DEF FlushedBeforeClose
<1>2. ASSUME NEW ok \in BOOLEAN, EndWrite(ok) PROVE FlushedBeforeClose'
  BY <1>2 DEF EndWrite, FlushedBeforeClose
<1>3. CASE Receive \/ Tick \/ StartDrain \/ DrainReceive \/ Retry
  BY <1>3 DEF Receive, Tick, StartDrain, DrainReceive, Retry, StartWrite, FlushedBeforeClose
<1>4. CASE DrainEmpty \/ CloseSink
  BY <1>4 DEF DrainEmpty, CloseSink, StartWrite, FlushedBeforeClose
<1>5. CASE BackoffCancelled \/ SinkReplies
  BY <1>2, <1>5 DEF BackoffCancelled, SinkReplies, SinkAccepts, SinkFails, FlushedBeforeClose
<1>6. CASE Environment
  BY <1>1, <1>6 DEF Environment, Shutdown, DrainExpires, CancelPoller, worker
<1>7. ASSUME NEW p \in Procs, Produce(p) \/ (p \in Pollers /\ Poll(p))
      PROVE  FlushedBeforeClose'
  BY <1>1, <1>7, ProducerFrame DEF worker
<1>8. CASE UNCHANGED vars
  BY <1>1, <1>8 DEF vars, worker
<1> QED
  BY <1>3, <1>4, <1>5, <1>6, <1>7, <1>8 DEF Next, Work, Stopped, Environment, Procs

\* The drain leaves nothing that it took unwritten or uncounted when it closes
\* the sink, wherever the context's end and its own deadline strike.
THEOREM NothingUnwrittenAtClose == Spec => []FlushedBeforeClose
<1>1. Init => FlushedBeforeClose
  BY DEF Init, FlushedBeforeClose
<1> QED
  BY <1>1, FlushedStep, PTL DEF Spec

-----------------------------------------------------------------------------
(* The worker implements LogHandoff.                                        *)

Pending == Items(batch) \cup Items(queue)
Verdict == [p \in Pollers |-> IF pc[p] \in {"ok", "lost"} THEN pc[p] ELSE "open"]

\* The pending records are those handed over and not settled.
PendingIsInterval ==
    /\ Pending = written + 1 .. Sent
    /\ Items(batch) = written + 1 .. written + Len(batch)

LEMMA PendingInterval == TypeOK /\ OrderInv => PendingIsInterval
<1> SUFFICES ASSUME TypeOK, OrderInv PROVE PendingIsInterval
  OBVIOUS
<1>t. /\ Len(queue) \in Nat /\ Len(batch) \in Nat /\ written \in Nat
  BY DEF TypeOK
<1>1. ASSUME NEW r \in Items(batch) PROVE r \in written + 1 .. written + Len(batch)
  <2>1. PICK i \in 1..Len(batch) : r = batch[i]
    BY DEF Items
  <2> QED
    BY <1>t, <2>1 DEF OrderInv
<1>2. ASSUME NEW r \in Items(queue) PROVE r \in written + Len(batch) + 1 .. Sent
  <2>1. PICK i \in 1..Len(queue) : r = queue[i]
    BY DEF Items
  <2> QED
    BY <1>t, <2>1 DEF OrderInv, Sent
<1>3. ASSUME NEW r \in written + 1 .. written + Len(batch) PROVE r \in Items(batch)
  <2>1. r - written \in 1..Len(batch)
    BY <1>t
  <2>2. batch[r - written] = r
    BY <1>t, <2>1 DEF OrderInv
  <2> QED
    BY <2>1, <2>2 DEF Items
<1>4. ASSUME NEW r \in written + Len(batch) + 1 .. Sent PROVE r \in Items(queue)
  <2> DEFINE i == r - (written + Len(batch))
  <2>1. i \in 1..Len(queue)
    BY <1>t DEF Sent
  <2>2. queue[i] = r
    BY <1>t, <2>1 DEF OrderInv
  <2> QED
    BY <2>1, <2>2 DEF Items
<1>5. Sent \in Nat /\ Sent >= written + Len(batch)
  BY <1>t DEF Sent
<1>6. Items(batch) = written + 1 .. written + Len(batch)
  BY <1>1, <1>3
<1>7. Items(queue) = written + Len(batch) + 1 .. Sent
  BY <1>2, <1>4
<1>8. (written + 1 .. written + Len(batch)) \cup (written + Len(batch) + 1 .. Sent)
        = written + 1 .. Sent
  BY <1>t, <1>5
<1> QED
  BY <1>6, <1>7, <1>8 DEF Pending, PendingIsInterval

\* A step that changes none of the mapped variables is a stutter of LogHandoff.
LEMMA HandoffStutter ==
  ASSUME Sent' = Sent, Pending' = Pending, Verdict' = Verdict,
         UNCHANGED <<accepted, dropped, page>>
  PROVE  UNCHANGED Handoff!vars
BY DEF Handoff!vars, Sent, Pending, Verdict

\* Every step of the worker is a step or a stutter of LogHandoff.
LEMMA HandoffStep == IInv /\ IInv' /\ [Next]_vars => [Handoff!Next]_Handoff!vars
<1> SUFFICES ASSUME IInv, IInv', [Next]_vars PROVE [Handoff!Next]_Handoff!vars
  OBVIOUS
<1>0. TypeOK /\ MutexInv /\ OrderInv /\ SettleInv /\ PageInv
  BY DEF IInv
<1>n. TypeOK' /\ OrderInv' /\ PageInv'
  BY DEF IInv
<1>t. /\ pc \in [Procs -> {"idle", "page", "lock", "send", "sent", "check",
                          "wait", "ok", "lost", "exit"}]
      /\ page \in [Pollers -> SUBSET SeqNum]
      /\ queue \in Seq(SeqNum) /\ batch \in Seq(SeqNum)
      /\ Len(queue) \in Nat /\ Len(batch) \in Nat /\ written \in Nat /\ enqueued \in Nat
      /\ Pollers \subseteq Procs
  BY <1>0 DEF TypeOK, Procs
<1>p. Pending = written + 1 .. Sent /\ Pending' = written' + 1 .. Sent'
  <2>1. PendingIsInterval
    BY <1>0, PendingInterval
  <2>2. PendingIsInterval'
    BY <1>n, PendingInterval, PTL
  <2> QED
    BY <2>1, <2>2 DEF PendingIsInterval
<1>m. ASSUME NEW p \in Pollers, NEW l, pc' = [pc EXCEPT ![p] = l]
      PROVE  Verdict' = [Verdict EXCEPT ![p] = IF l \in {"ok", "lost"} THEN l ELSE "open"]
  BY <1>t, <1>m DEF Verdict
<1>s. ASSUME NEW p \in Pollers, pc' = [pc EXCEPT ![p] = "idle"] \/ pc' = [pc EXCEPT ![p] = "exit"],
             EndPage(p), UNCHANGED <<queue, batch, written, accepted, dropped>>
      PROVE  Handoff!Renew(p)
  <2>1. Verdict' = [Verdict EXCEPT ![p] = "open"]
    BY <1>m, <1>s
  <2> QED
    BY <1>s, <2>1 DEF Handoff!Renew, EndPage, Sent, Pending, Verdict
<1>1. ASSUME NEW p \in Procs, Produce(p) PROVE [Handoff!Next]_Handoff!vars
  <2>0. UNCHANGED <<batch, written, accepted, dropped>>
    BY <1>1, ProducerFrame DEF worker, history
  <2>1. CASE Call(p) \/ Lock(p) \/ SetEnqueued(p) \/ Overflow(p) \/ StreamerExit(p)
    <3>1. UNCHANGED <<queue, page>>
      BY <2>1 DEF Call, Lock, SetEnqueued, Overflow, StreamerExit
    <3>2. pc[p] \notin {"ok", "lost"} /\ \E l \in {"idle", "page", "lock", "send", "exit"} :
                                            pc' = [pc EXCEPT ![p] = l]
      BY <2>1 DEF Call, Lock, SetEnqueued, Overflow, StreamerExit, Goto
    <3>3. Verdict' = Verdict
      BY <1>t, <3>2 DEF Verdict
    <3> QED
      BY <2>0, <3>1, <3>3, HandoffStutter DEF Sent, Pending
  <2>2. CASE Send(p)
    <3>1. /\ pc[p] = "send" /\ seq[p] = enqueued + 1 /\ \A q \in Procs : pc[q] # "sent"
      BY <1>0, <2>2 DEF Send, MutexInv
    <3>2. Sent = enqueued
      BY <1>0, <3>1 DEF OrderInv
    <3>3. Sent' = Sent + 1
      <4>1. seq[p] \in SeqNum
        BY <1>t, <3>1 DEF SeqNum
      <4>2. Len(queue') = Len(queue) + 1
        BY <1>t, <2>2, <4>1 DEF Send
      <4> QED
        BY <1>t, <2>0, <4>2 DEF Sent
    <3>4. Pending' = Pending \cup {Sent + 1}
      <4>1. Sent \in Nat /\ Sent >= written
        BY <1>t DEF Sent
      <4> QED
        BY <1>t, <1>p, <2>0, <3>3, <4>1
    <3>5. pc' = [pc EXCEPT ![p] = "sent"]
      BY <2>2 DEF Send, Goto
    <3>6. Verdict' = Verdict
      BY <1>t, <3>1, <3>5 DEF Verdict
    <3>7. page' = page \/ (p \in Pollers /\ page' = [page EXCEPT ![p] = @ \cup {Sent + 1}])
      BY <2>2, <3>1, <3>2 DEF Send
    <3>8. p \in Pollers => Verdict[p] = "open"
      BY <3>1 DEF Verdict
    <3>9. Handoff!HandOver
      BY <2>0, <3>3, <3>4, <3>6, <3>7, <3>8 DEF Handoff!HandOver, Sent, Pending, Verdict
    <3> QED
      BY <3>9 DEF Handoff!Next
  <2>3. CASE SendCancelled(p)
    BY <1>s, <2>0, <2>3 DEF SendCancelled, Goto, Handoff!Next
  <2> QED
    BY <1>1, <2>1, <2>2, <2>3 DEF Produce
<1>2. ASSUME NEW p \in Pollers, Poll(p) PROVE [Handoff!Next]_Handoff!vars
  <2>0. UNCHANGED <<queue, batch, written, accepted, dropped>>
    <3>1. queue' = queue
      BY <1>2 DEF Poll, Mark, ReadTarget, CheckWritten, Wake, WaitCancelled, NextPage, PollerExit
    <3> QED
      BY <1>2, <3>1, ProducerFrame DEF worker, history, Procs
  <2>1. CASE Mark(p) \/ ReadTarget(p) \/ Wake(p)
    <3>1. page' = page /\ pc[p] \notin {"ok", "lost"}
          /\ \E l \in {"page", "check"} : pc' = [pc EXCEPT ![p] = l]
      BY <2>1 DEF Mark, ReadTarget, Wake, Goto
    <3>2. Verdict' = Verdict
      BY <1>t, <3>1 DEF Verdict
    <3> QED
      BY <2>0, <3>1, <3>2, HandoffStutter DEF Sent, Pending
  <2>2. CASE CheckWritten(p)
    <3>1. page' = page /\ pc[p] = "check"
      BY <2>2 DEF CheckWritten
    <3>2. CASE pc' = [pc EXCEPT ![p] = "wait"]
      <4>1. Verdict' = Verdict
        BY <1>t, <3>1, <3>2 DEF Verdict
      <4> QED
        BY <2>0, <3>1, <4>1, HandoffStutter DEF Sent, Pending
    <3>3. CASE ~(pc' = [pc EXCEPT ![p] = "wait"])
      <4>1. written >= target[p] /\ \E l \in {"ok", "lost"} : pc' = [pc EXCEPT ![p] = l]
        BY <2>2, <3>3 DEF CheckWritten, Goto
      <4>2. PICK l \in {"ok", "lost"} : pc' = [pc EXCEPT ![p] = l]
        BY <4>1
      <4>3. Verdict' = [Verdict EXCEPT ![p] = l] /\ Verdict[p] = "open"
        BY <1>m, <3>1, <4>2 DEF Verdict
      <4>4. page[p] \cap Pending = {}
        <5>1. page[p] \subseteq since[p]+1 .. target[p]
          BY <1>0, <3>1 DEF PageInv
        <5>2. target[p] \in Nat /\ since[p] \in Nat /\ Sent \in Nat
          BY <1>0, <1>t DEF TypeOK, Sent
        <5> QED
          BY <1>t, <1>p, <4>1, <5>1, <5>2
      <4>5. l = "ok" => page[p] \subseteq accepted
        <5>1. pc'[p] = l
          BY <1>t, <4>2
        <5>2. page'[p] \subseteq since'[p]+1 .. target'[p]
              /\ (l = "ok" => since'[p]+1 .. target'[p] \subseteq accepted')
          BY <1>n, <5>1 DEF PageInv
        <5> QED
          BY <2>0, <3>1, <5>2
      <4>6. Handoff!Decide(p)
        BY <2>0, <3>1, <4>2, <4>3, <4>4, <4>5 DEF Handoff!Decide, Sent, Pending, Verdict
      <4> QED
        BY <4>6 DEF Handoff!Next
    <3> QED
      BY <3>2, <3>3
  <2>3. CASE WaitCancelled(p) \/ NextPage(p) \/ PollerExit(p)
    <3>1. EndPage(p) /\ (pc' = [pc EXCEPT ![p] = "idle"] \/ pc' = [pc EXCEPT ![p] = "exit"])
      BY <2>3 DEF WaitCancelled, NextPage, PollerExit, Goto
    <3> QED
      BY <1>s, <2>0, <3>1 DEF Handoff!Next
  <2> QED
    BY <1>2, <2>1, <2>2, <2>3 DEF Poll
<1>3. ASSUME NEW ok \in BOOLEAN, wpc \in {"write", "backoff"}, EndWrite(ok)
      PROVE  [Handoff!Next]_Handoff!vars
  <2>1. batch # <<>> /\ Len(batch) > 0
    BY <1>0, <1>t, <1>3 DEF OrderInv
  <2>2. Last(batch) = written + Len(batch)
    BY <1>0, <1>t, <2>1 DEF OrderInv, Last
  <2>3. written' = written + Len(batch) /\ batch' = <<>> /\ Len(batch') = 0
    BY <1>t, <1>3, <2>1, <2>2 DEF EndWrite, Settle
  <2>4. UNCHANGED <<queue, pc, page>>
    BY <1>3 DEF EndWrite, producers
  <2>5. Sent' = Sent /\ Sent \in Nat /\ Sent >= written + Len(batch)
    BY <1>t, <2>3, <2>4 DEF Sent
  <2>6. Items(batch) = {r \in Pending : r <= Last(batch)}
    <3>1. Items(batch) = written + 1 .. written + Len(batch)
      BY <1>0, PendingInterval DEF PendingIsInterval
    <3> HIDE DEF Items
    <3> QED
      BY <1>t, <1>p, <2>2, <2>5, <3>1
  <2>7. Pending' = Pending \ Items(batch)
    <3>1. Items(batch) = written + 1 .. written + Len(batch)
      BY <1>0, PendingInterval DEF PendingIsInterval
    <3> HIDE DEF Items
    <3> QED
      BY <1>t, <1>p, <2>3, <2>5, <3>1
  <2>8. Last(batch) \in Pending
    BY <1>t, <1>p, <2>1, <2>2, <2>5
  <2>9. Verdict' = Verdict
    BY <2>4 DEF Verdict
  <2>10. \/ accepted' = accepted \cup Items(batch) /\ dropped' = dropped
         \/ dropped' = dropped \cup Items(batch) /\ accepted' = accepted
    BY <1>3 DEF EndWrite
  <2>11. Handoff!Settle(Last(batch))
    BY <2>4, <2>5, <2>6, <2>7, <2>9, <2>10 DEF Handoff!Settle, Sent, Pending, Verdict
  <2> QED
    BY <2>8, <2>11 DEF Handoff!Next, Pending
<1>4. CASE SinkReplies \/ BackoffCancelled
  <2>1. CASE EndWrite(TRUE) \/ EndWrite(FALSE)
    BY <1>3, <1>4, <2>1 DEF SinkReplies, SinkAccepts, SinkFails, BackoffCancelled
  <2>2. CASE ~(EndWrite(TRUE) \/ EndWrite(FALSE))
    <3>1. UNCHANGED <<queue, batch, written, pc, accepted, dropped, page>>
      BY <1>4, <2>2 DEF SinkReplies, SinkAccepts, SinkFails, BackoffCancelled,
         producers, counters, history
    <3> QED
      BY <3>1, HandoffStutter DEF Sent, Pending, Verdict
  <2> QED
    BY <2>1, <2>2
<1>5. CASE Receive \/ DrainReceive
  <2>1. UNCHANGED <<pc, enqueued, written, accepted, dropped, page>>
    BY <1>5 DEF Receive, DrainReceive, producers, counters, history
  <2>2. Sent' = Sent
    BY <1>0, <1>n, <2>1 DEF OrderInv
  <2>3. Pending' = Pending
    BY <1>p, <2>1, <2>2
  <2> QED
    BY <2>1, <2>2, <2>3, HandoffStutter DEF Verdict
<1>6. CASE Tick \/ StartDrain \/ DrainEmpty \/ CloseSink \/ Retry \/ Environment \/ UNCHANGED vars
  <2>1. UNCHANGED <<queue, batch, written, pc, accepted, dropped, page>>
    BY <1>6 DEF Tick, StartDrain, DrainEmpty, CloseSink, Retry, StartWrite, Environment,
       Shutdown, DrainExpires, CancelPoller, vars, producers, counters, history, worker
  <2> QED
    BY <2>1, HandoffStutter DEF Sent, Pending, Verdict
<1> QED
  BY <1>1, <1>2, <1>4, <1>5, <1>6 DEF Next, Stopped, Environment, Work

\* The worker's queue, batches, counters and lock implement the hand-over.
THEOREM WorkerImplementsHandoff == Spec => ImplementsHandoff
<1>1. Init => Handoff!Init
  <2> SUFFICES ASSUME Init PROVE Handoff!Init
    OBVIOUS
  <2>1. Items(batch) \cup Items(queue) = {} /\ written + Len(batch) + Len(queue) = 0
    BY DEF Init, Items
  <2>2. Verdict = [p \in Pollers |-> "open"]
    BY DEF Init, Verdict, Procs
  <2> QED
    BY <2>1, <2>2 DEF Init, Handoff!Init, Verdict
<1>2. IInv /\ IInv' /\ [Next]_vars => [Handoff!Next]_Handoff!vars
  BY HandoffStep
<1> QED
  BY <1>1, <1>2, Invariance, PTL DEF Spec, ImplementsHandoff, Handoff!Spec

=============================================================================
