--------------------------- MODULE Bridge_proofs ---------------------------
(* Theorems about Bridge for every set of messages, workers and handlers   *)
(* and every value of the limits.                                          *)
EXTENDS Bridge, FiniteSetTheorems, SequenceTheorems, TLAPS

USE RoutingAssumption, LimitAssumption, BoundAssumption DEF Directions

-----------------------------------------------------------------------------
(* Type correctness                                                        *)

\* The number of rows is a number: created_at and the horizon are ranks.
LEMMA RowsCount == Cardinality(Rows) \in Nat
<1>1. IsFiniteSet(Rows)
  BY FiniteAssumption, FS_Subset DEF Rows
<1> QED BY <1>1, FS_CardinalityType

LEMMA InitType == Init => TypeOK
<1> SUFFICES ASSUME Init PROVE TypeOK
  OBVIOUS
<1> USE DEF Init
<1>1. RowsOK /\ HistoryOK /\ ProcessOK
  BY DEF RowsOK, HistoryOK, ProcessOK
<1>2. QueuesOK
  BY DEF QueuesOK
<1>3. WorkersOK /\ HandlersOK
  BY DEF WorkersOK, HandlersOK, WorkerSteps, HandlerSteps
<1> QED BY <1>1, <1>2, <1>3 DEF TypeOK


\* The parts of the invariant whose variables a step leaves alone.
LEMMA Frame ==
  ASSUME TypeOK
  PROVE  /\ UNCHANGED <<rowVars, horizon>> => RowsOK'
         /\ UNCHANGED queue => QueuesOK'
         /\ UNCHANGED workerVars => WorkersOK'
         /\ UNCHANGED handlerVars => HandlersOK'
         /\ UNCHANGED <<phase, boots, retries, faults>> => ProcessOK'
         /\ UNCHANGED historyVars => HistoryOK'
<1> USE DEF TypeOK
<1>1. UNCHANGED <<rowVars, horizon>> => RowsOK'
  BY DEF RowsOK, rowVars
<1>2. UNCHANGED queue => QueuesOK'
  BY DEF QueuesOK
<1>3. UNCHANGED workerVars => WorkersOK'
  BY DEF WorkersOK, workerVars
<1>4. UNCHANGED handlerVars => HandlersOK'
  BY DEF HandlersOK, handlerVars
<1>5. UNCHANGED <<phase, boots, retries, faults>> => ProcessOK'
  BY DEF ProcessOK
<1>6. UNCHANGED historyVars => HistoryOK'
  BY DEF HistoryOK, historyVars
<1> QED BY <1>1, <1>2, <1>3, <1>4, <1>5, <1>6

\* The helpers that write one part.
LEMMA HelperTypes ==
  ASSUME TypeOK
  PROVE  /\ \A m \in Msgs : InsertMessage(m) /\ UNCHANGED horizon => RowsOK'
         /\ \A m \in Msgs : RequeueMessage(m) /\ UNCHANGED horizon => RowsOK'
         /\ \A h \in Handlers : End(h) => HandlersOK'
         /\ \A h \in Handlers, m \in Msgs, step \in HandlerSteps :
              Begin(h, m, step) => HandlersOK'
         /\ \A w \in Workers : Finish(w) => WorkersOK'
         /\ \A w \in Workers, step \in WorkerSteps :
              wpc[w] # "idle" /\ GoTo(w, step) => WorkersOK'
<1> USE DEF TypeOK
<1>1. \A m \in Msgs : InsertMessage(m) /\ UNCHANGED horizon => RowsOK'
  BY RowsCount DEF InsertMessage, MarkStatus, RowsOK
<1>2. \A m \in Msgs : RequeueMessage(m) /\ UNCHANGED horizon => RowsOK'
  BY DEF RequeueMessage, MarkStatus, RowsOK
<1>3. \A h \in Handlers : End(h) => HandlersOK'
  BY DEF End, HandlersOK, HandlerSteps
<1>4. \A h \in Handlers, m \in Msgs, step \in HandlerSteps : Begin(h, m, step) => HandlersOK'
  BY DEF Begin, HandlersOK
<1>5. \A w \in Workers : Finish(w) => WorkersOK'
  BY DEF Finish, WorkersOK, WorkerSteps
<1>6. \A w \in Workers, step \in WorkerSteps :
        wpc[w] # "idle" /\ GoTo(w, step) => WorkersOK'
  BY DEF GoTo, WorkersOK
<1> QED BY <1>1, <1>2, <1>3, <1>4, <1>5, <1>6

LEMMA RequestTypes ==
  ASSUME TypeOK, NEW h \in Handlers, NEW m \in Msgs
  PROVE  /\ Webhook(h, m) => TypeOK'
         /\ AdminRetry(h, m) => TypeOK'
<1> USE DEF TypeOK
<1>1. Webhook(h, m) => TypeOK'
  BY Frame, HelperTypes DEF Webhook, HandlerSteps
<1>2. ASSUME AdminRetry(h, m) PROVE TypeOK'
  <2>1. HandlersOK' /\ RowsOK'
    BY <1>2, HelperTypes DEF AdminRetry, HandlerSteps
  <2>2. ProcessOK' /\ HistoryOK'
    BY <1>2 DEF AdminRetry, RequeueMessage, ProcessOK, HistoryOK
  <2> QED BY <1>2, <2>1, <2>2, Frame DEF AdminRetry
<1> QED BY <1>1, <1>2

LEMMA HandlerTypes ==
  ASSUME TypeOK, NEW h \in Handlers, HandlerStep(h)
  PROVE  TypeOK'
<1> USE DEF TypeOK
<1>1. CASE Push(h)
  <2>1. QueuesOK'
    <3> DEFINE m == hmsg[h]
    <3>1. m \in Msgs /\ DirOf[m] \in Directions
      BY <1>1 DEF Push, HandlersOK
    <3>2. queue[DirOf[m]] \in Seq(Msgs) /\ queue' = [queue EXCEPT ![DirOf[m]] = Append(@, m)]
      BY <1>1, <3>1 DEF Push, QueuesOK
    <3>3. \A i \in 1..Len(Append(queue[DirOf[m]], m)) :
            DirOf[Append(queue[DirOf[m]], m)[i]] = DirOf[m]
      BY <3>1, <3>2 DEF QueuesOK
    <3>4. Len(Append(queue[DirOf[m]], m)) <= BufferLimit
      BY <1>1, <3>2 DEF Push
    <3>5. queue' \in [Directions -> Seq(Msgs)]
      BY <3>1, <3>2 DEF QueuesOK
    <3> QED BY <3>1, <3>2, <3>3, <3>4, <3>5 DEF QueuesOK
  <2> QED BY <1>1, <2>1, Frame, HelperTypes DEF Push
<1>2. CASE QueueFull(h)
  <2>1. HandlersOK'
    BY <1>2 DEF QueueFull, HandlersOK, HandlerSteps
  <2> QED BY <1>2, <2>1, Frame DEF QueueFull
<1>3. CASE MarkQueueFull(h)
  <2>1. RowsOK'
    BY <1>3 DEF MarkQueueFull, MarkStatus, RowsOK, HandlersOK
  <2>2. ProcessOK'
    BY <1>3 DEF MarkQueueFull, DBError, ProcessOK
  <2> QED BY <1>3, <2>1, <2>2, Frame, HelperTypes DEF MarkQueueFull
<1>4. CASE AdminRetryFull(h)
  BY <1>4, Frame, HelperTypes DEF AdminRetryFull
<1> QED BY <1>1, <1>2, <1>3, <1>4 DEF HandlerStep

LEMMA WorkerTypes ==
  ASSUME TypeOK, NEW w \in Workers, WorkerStep(w)
  PROVE  TypeOK'
<1> USE DEF TypeOK
<1>1. CASE Take(w)
  <2> DEFINE d == PoolOf[w]
  <2>1. queue[d] \in Seq(Msgs) /\ queue[d] # <<>>
    BY <1>1 DEF Take, QueuesOK
  <2>2. /\ Head(queue[d]) = queue[d][1] /\ Head(queue[d]) \in Msgs
        /\ Tail(queue[d]) \in Seq(Msgs) /\ Len(Tail(queue[d])) = Len(queue[d]) - 1
        /\ \A i \in 1..Len(Tail(queue[d])) : Tail(queue[d])[i] = queue[d][i + 1]
    BY <2>1, HeadTailProperties
  <2>3. Len(queue[d]) \in Nat \ {0}
    BY <2>1
  <2>4. QueuesOK'
    BY <1>1, <2>2, <2>3 DEF Take, QueuesOK
  <2>5. DirOf[Head(queue[d])] = d
    BY <2>2, <2>3 DEF QueuesOK
  <2>6. WorkersOK'
    BY <1>1, <2>2, <2>5 DEF Take, WorkersOK, WorkerSteps
  <2> QED BY <1>1, <2>4, <2>6, Frame DEF Take
<1>2. CASE Attempt(w)
  <2>1. RowsOK' /\ ProcessOK'
    BY <1>2 DEF Attempt, Incremented, DBError, RowsOK, ProcessOK, WorkersOK
  <2>2. WorkersOK'
    BY <1>2, HelperTypes DEF Attempt, WorkerSteps
  <2> QED BY <1>2, <2>1, <2>2, Frame DEF Attempt
<1>3. CASE CallSucceeds(w)
  <2>1. HistoryOK'
    BY <1>3 DEF CallSucceeds, HistoryOK, WorkersOK
  <2>2. WorkersOK'
    BY <1>3, HelperTypes DEF CallSucceeds, WorkerSteps
  <2> QED BY <1>3, <2>1, <2>2, Frame DEF CallSucceeds
<1>4. CASE CallFatal(w)
  <2>1. WorkersOK'
    BY <1>4, HelperTypes DEF CallFatal, WorkerSteps
  <2> QED BY <1>4, <2>1, Frame DEF CallFatal
<1>5. ASSUME NEW err \in {"error", "timeout"}, NEW accepted \in BOOLEAN,
             CallFails(w, err, accepted)
      PROVE  TypeOK'
  <2>1. HistoryOK'
    BY <1>5 DEF CallFails, ReplyLost, HistoryOK, WorkersOK
  <2>2. tries[w] + 1 < MaxAttempts => WorkersOK'
    BY <1>5 DEF CallFails, WorkersOK, WorkerSteps
  <2>3. ~(tries[w] + 1 < MaxAttempts) => WorkersOK'
    BY <1>5, HelperTypes DEF CallFails, Exhausted, WorkerSteps
  <2> QED BY <1>5, <2>1, <2>2, <2>3, Frame DEF CallFails
<1>6. CASE Cancelled(w)
  <2>1. HistoryOK'
    BY <1>6 DEF Cancelled, HistoryOK, WorkersOK
  <2> QED BY <1>6, <2>1, Frame, HelperTypes DEF Cancelled
<1>7. ASSUME NEW s \in {"done", "failed"}, wpc[w] # "idle", WorkerMark(w, s),
             UNCHANGED <<attempts, createdAt, horizon, phase, boots, retries>>
      PROVE  RowsOK' /\ ProcessOK'
  BY <1>7 DEF WorkerMark, MarkStatus, DBError, RowsOK, ProcessOK, WorkersOK
<1>8. CASE MarkDone(w)
  BY <1>7, <1>8, Frame, HelperTypes DEF MarkDone
<1>9. CASE MarkFailed(w)
  BY <1>7, <1>9, Frame, HelperTypes DEF MarkFailed
<1> QED BY <1>1, <1>2, <1>3, <1>4, <1>5, <1>6, <1>8, <1>9 DEF WorkerStep, CallReturns

LEMMA ProcessTypes ==
  ASSUME TypeOK, Tick \/ SweepStale \/ Boot \/ Stop \/ Exit \/ Crash
  PROVE  TypeOK'
<1> USE DEF TypeOK
<1>1. CASE Tick
  <2>1. RowsOK'
    BY <1>1, RowsCount DEF Tick, RowsOK, rowVars
  <2> QED BY <1>1, <2>1, Frame DEF Tick
<1>2. CASE SweepStale
  <2>1. RowsOK' /\ HistoryOK'
    BY <1>2 DEF SweepStale, RowsOK, HistoryOK, rowVars
  <2> QED BY <1>2, <2>1, Frame DEF SweepStale
<1>3. CASE Boot
  <2>1. ProcessOK'
    BY <1>3 DEF Boot, DBError, ProcessOK
  <2>2. QueuesOK' /\ HistoryOK'
    <3>1. CASE UNCHANGED <<queue, excuse>>
      BY <1>3, <3>1, Frame DEF Boot, historyVars
    <3>2. ASSUME NEW qs \in [Directions -> BoundedSeq(Msgs, BufferLimit)],
                 \A d \in Directions : RecoveredInto(d, qs[d]),
                 queue' = qs,
                 excuse' = [m \in Msgs |-> IF m \in Recovered(qs) THEN excuse[m] + 1
                                                                 ELSE excuse[m]]
          PROVE  QueuesOK' /\ HistoryOK'
      <4>1. \A d \in Directions : qs[d] \in Seq(Msgs) /\ Len(qs[d]) <= BufferLimit
        BY <3>2 DEF BoundedSeq, SeqOf
      <4>2. \A d \in Directions : \A i \in 1..Len(qs[d]) : DirOf[qs[d][i]] = d
        BY <3>2, <4>1 DEF RecoveredInto, ToSet
      <4>3. QueuesOK'
        BY <3>2, <4>1, <4>2 DEF QueuesOK
      <4>4. HistoryOK'
        BY <1>3, <3>2 DEF Boot, HistoryOK
      <4> QED BY <4>3, <4>4
    <3> QED BY <1>3, <3>1, <3>2 DEF Boot
  <2> QED BY <1>3, <2>1, <2>2, Frame DEF Boot
<1>4. CASE Stop
  <2>1. ProcessOK'
    BY <1>4 DEF Stop, ProcessOK
  <2> QED BY <1>4, <2>1, Frame DEF Stop
<1>5. CASE Exit \/ Crash
  <2>1. Down
    BY <1>5 DEF Exit, Crash
  <2>2. QueuesOK'
    BY <2>1 DEF Down, QueuesOK
  <2>3. WorkersOK' /\ HandlersOK'
    BY <2>1 DEF Down, WorkersOK, HandlersOK, WorkerSteps, HandlerSteps
  <2>4. ProcessOK' /\ HistoryOK'
    BY <2>1 DEF Down, ProcessOK, HistoryOK
  <2> QED BY <2>1, <2>2, <2>3, <2>4, Frame DEF Down
<1> QED BY <1>1, <1>2, <1>3, <1>4, <1>5

LEMMA NextType == TypeOK /\ [Next]_vars => TypeOK'
<1> SUFFICES ASSUME TypeOK, [Next]_vars PROVE TypeOK'
  OBVIOUS
<1>1. ASSUME NEW h \in Handlers, NEW m \in Msgs, Webhook(h, m) \/ AdminRetry(h, m)
      PROVE  TypeOK'
  BY <1>1, RequestTypes
<1>2. ASSUME NEW m \in Msgs, WebhookErrorAfterInsert(m) \/ WebDLQRetry(m)
      PROVE  TypeOK'
  \* neither takes a handler's slot
  <2>1. CASE WebhookErrorAfterInsert(m)
    <3>1. RowsOK'
      BY <2>1, HelperTypes DEF WebhookErrorAfterInsert
    <3>2. ProcessOK'
      BY <2>1 DEF WebhookErrorAfterInsert, DBError, ProcessOK, TypeOK
    <3> QED BY <2>1, <3>1, <3>2, Frame DEF WebhookErrorAfterInsert, TypeOK
  <2>2. CASE WebDLQRetry(m)
    <3>1. RowsOK'
      BY <2>2, HelperTypes DEF WebDLQRetry
    <3>2. ProcessOK'
      BY <2>2 DEF WebDLQRetry, RequeueMessage, ProcessOK, TypeOK
    <3> QED BY <2>2, <3>1, <3>2, Frame DEF WebDLQRetry, TypeOK
  <2> QED BY <1>2, <2>1, <2>2
<1>3. ASSUME NEW h \in Handlers, HandlerStep(h) PROVE TypeOK'
  BY <1>3, HandlerTypes
<1>4. ASSUME NEW w \in Workers, WorkerStep(w) PROVE TypeOK'
  BY <1>4, WorkerTypes
<1>5. CASE Tick \/ SweepStale \/ Boot \/ Stop \/ Exit \/ Crash
  BY <1>5, ProcessTypes
<1>6. CASE UNCHANGED vars
  BY <1>6, Frame DEF vars, rowVars, workerVars, handlerVars, historyVars, TypeOK
<1> QED BY <1>1, <1>2, <1>3, <1>4, <1>5, <1>6 DEF Next

\* Types, the capacity of the channels and the routing by direction hold in
\* every reachable state.
THEOREM TypeCorrect == Spec => []TypeOK
BY InitType, NextType, PTL DEF Spec

-----------------------------------------------------------------------------
(* A done message was delivered                                            *)

\* DoneMeansDelivered alone is not inductive: between the reply of the
\* upstream and MarkStatus the fact lives in the worker.
AcceptedBeforeMark ==
  \A w \in Workers : wpc[w] = "mark_done" => delivered[wjob[w]] > 0

DeliveredInv == TypeOK /\ DoneMeansDelivered /\ AcceptedBeforeMark

\* The upstream never un-accepts a message.
LEMMA DeliveredGrows ==
  ASSUME TypeOK, [Next]_vars
  PROVE  \A m \in Msgs : delivered'[m] >= delivered[m]
<1> USE DEF TypeOK, HistoryOK
<1>1. CASE UNCHANGED delivered
  BY <1>1
<1>2. ASSUME NEW w \in Workers, wpc[w] # "idle",
             UNCHANGED delivered \/ delivered' = [delivered EXCEPT ![wjob[w]] = @ + 1]
      PROVE  \A m \in Msgs : delivered'[m] >= delivered[m]
  BY <1>2 DEF WorkersOK
<1>3. ASSUME NEW h \in Handlers, NEW m \in Msgs, Webhook(h, m) \/ AdminRetry(h, m)
      PROVE  UNCHANGED delivered
  BY <1>3 DEF Webhook, AdminRetry, historyVars
<1>4. ASSUME NEW m \in Msgs, WebhookErrorAfterInsert(m) \/ WebDLQRetry(m)
      PROVE  UNCHANGED delivered
  BY <1>4 DEF WebhookErrorAfterInsert, WebDLQRetry, historyVars
<1>5. ASSUME NEW h \in Handlers, HandlerStep(h) PROVE UNCHANGED delivered
  BY <1>5 DEF HandlerStep, Push, QueueFull, MarkQueueFull, AdminRetryFull, historyVars
<1>6. ASSUME NEW w \in Workers, WorkerStep(w)
      PROVE  \/ UNCHANGED delivered
             \/ wpc[w] # "idle" /\ delivered' = [delivered EXCEPT ![wjob[w]] = @ + 1]
  BY <1>6 DEF WorkerStep, CallReturns, Take, Attempt, CallSucceeds, CallFatal, CallFails,
              ReplyLost, Cancelled, MarkDone, MarkFailed, historyVars
<1>7. Tick \/ SweepStale \/ Boot \/ Stop \/ Exit \/ Crash => UNCHANGED delivered
  BY DEF Tick, SweepStale, Boot, Stop, Exit, Crash, Down, historyVars
<1> QED BY <1>1, <1>2, <1>3, <1>4, <1>5, <1>6, <1>7 DEF Next, vars

\* A row becomes done only by the hand of a worker that was about to mark it.
LEMMA DoneByWorker ==
  ASSUME TypeOK, [Next]_vars, NEW m \in Msgs, status[m] # "done", status'[m] = "done"
  PROVE  \E w \in Workers : wpc[w] = "mark_done" /\ wjob[w] = m
<1> USE DEF TypeOK, RowsOK
<1>1. ASSUME NEW h \in Handlers, NEW x \in Msgs, Webhook(h, x) \/ AdminRetry(h, x) PROVE FALSE
  BY <1>1 DEF Webhook, AdminRetry, InsertMessage, RequeueMessage, MarkStatus
<1>2. ASSUME NEW x \in Msgs, WebhookErrorAfterInsert(x) \/ WebDLQRetry(x) PROVE FALSE
  BY <1>2 DEF WebhookErrorAfterInsert, WebDLQRetry, InsertMessage, RequeueMessage, MarkStatus
<1>3. ASSUME NEW h \in Handlers, HandlerStep(h) PROVE FALSE
  BY <1>3 DEF HandlerStep, Push, QueueFull, MarkQueueFull, AdminRetryFull, MarkStatus, rowVars
<1>4. ASSUME NEW w \in Workers, WorkerStep(w)
      PROVE  wpc[w] = "mark_done" /\ wjob[w] = m
  <2>1. ~(Take(w) \/ Attempt(w) \/ CallReturns(w) \/ Cancelled(w))
    BY DEF Take, Attempt, CallReturns, CallSucceeds, CallFatal, CallFails, Cancelled, rowVars
  <2>2. ~MarkFailed(w)
    BY DEF MarkFailed, WorkerMark, MarkStatus
  <2>3. CASE MarkDone(w)
    BY <2>3 DEF MarkDone, WorkerMark, MarkStatus
  <2> QED BY <1>4, <2>1, <2>2, <2>3 DEF WorkerStep
<1>5. ~(Tick \/ SweepStale \/ Boot \/ Stop \/ Exit \/ Crash)
  BY DEF Tick, SweepStale, Boot, Stop, Exit, Crash, Down, rowVars
<1>6. ~UNCHANGED vars
  BY DEF vars
<1> QED BY <1>1, <1>2, <1>3, <1>4, <1>5, <1>6 DEF Next

\* A worker is about to mark a job done only after a successful call.
LEMMA MarkAfterSuccess ==
  ASSUME TypeOK, [Next]_vars, NEW w \in Workers, wpc'[w] = "mark_done"
  PROVE  \/ wpc[w] = "mark_done" /\ wjob'[w] = wjob[w]
         \/ CallSucceeds(w) /\ wjob'[w] = wjob[w]
<1> USE DEF TypeOK, WorkersOK
<1>1. CASE UNCHANGED workerVars
  BY <1>1 DEF workerVars
<1>2. ASSUME NEW v \in Workers, WorkerStep(v), v # w PROVE wpc[w] = "mark_done" /\ wjob'[w] = wjob[w]
  BY <1>2 DEF WorkerStep, CallReturns, Take, Attempt, CallSucceeds, CallFatal, CallFails,
              Exhausted, Cancelled, MarkDone, MarkFailed, GoTo, Finish
<1>3. CASE WorkerStep(w)
  <2>1. ~(Take(w) \/ Attempt(w) \/ CallFatal(w) \/ Cancelled(w) \/ MarkDone(w) \/ MarkFailed(w))
    BY DEF Take, Attempt, CallFatal, Cancelled, MarkDone, MarkFailed, GoTo, Finish
  <2>2. ASSUME NEW err \in {"error", "timeout"}, NEW accepted \in BOOLEAN,
               CallFails(w, err, accepted)
        PROVE  FALSE
    BY <2>2 DEF CallFails, Exhausted, GoTo, Finish
  <2>3. CASE CallSucceeds(w)
    BY <2>3 DEF CallSucceeds, GoTo
  <2> QED BY <1>3, <2>1, <2>2, <2>3 DEF WorkerStep, CallReturns
<1>4. ASSUME Exit \/ Crash PROVE FALSE
  BY <1>4 DEF Exit, Crash, Down
<1>5. ASSUME NEW h \in Handlers, NEW m \in Msgs, Webhook(h, m) \/ AdminRetry(h, m)
      PROVE  UNCHANGED workerVars
  BY <1>5 DEF Webhook, AdminRetry
<1>6. ASSUME NEW m \in Msgs, WebhookErrorAfterInsert(m) \/ WebDLQRetry(m)
      PROVE  UNCHANGED workerVars
  BY <1>6 DEF WebhookErrorAfterInsert, WebDLQRetry
<1>7. ASSUME NEW h \in Handlers, HandlerStep(h) PROVE UNCHANGED workerVars
  BY <1>7 DEF HandlerStep, Push, QueueFull, MarkQueueFull, AdminRetryFull
<1>8. Tick \/ SweepStale \/ Boot \/ Stop \/ UNCHANGED vars => UNCHANGED workerVars
  BY DEF Tick, SweepStale, Boot, Stop, vars, workerVars
<1> QED BY <1>1, <1>2, <1>3, <1>4, <1>5, <1>6, <1>7, <1>8 DEF Next

LEMMA DeliveredStep == DeliveredInv /\ [Next]_vars => DeliveredInv'
<1> SUFFICES ASSUME DeliveredInv, [Next]_vars PROVE DeliveredInv'
  OBVIOUS
<1> USE DEF DeliveredInv
<1>1. TypeOK'
  BY NextType
<1>2. DoneMeansDelivered'
  <2> SUFFICES ASSUME NEW m \in Msgs, status'[m] = "done" PROVE delivered'[m] > 0
    BY DEF DoneMeansDelivered
  <2>1. delivered[m] > 0
    BY DoneByWorker DEF DoneMeansDelivered, AcceptedBeforeMark
  <2> QED BY <1>1, <2>1, DeliveredGrows DEF TypeOK, HistoryOK
<1>3. AcceptedBeforeMark'
  <2> SUFFICES ASSUME NEW w \in Workers, wpc'[w] = "mark_done" PROVE delivered'[wjob'[w]] > 0
    BY DEF AcceptedBeforeMark
  <2>1. CASE wpc[w] = "mark_done" /\ wjob'[w] = wjob[w]
    <3>1. wjob[w] \in Msgs /\ delivered[wjob[w]] > 0
      BY <2>1 DEF AcceptedBeforeMark, TypeOK, WorkersOK
    <3> QED BY <1>1, <2>1, <3>1, DeliveredGrows DEF TypeOK, HistoryOK
  <2>2. CASE CallSucceeds(w) /\ wjob'[w] = wjob[w]
    BY <2>2 DEF CallSucceeds, TypeOK, WorkersOK, HistoryOK
  <2> QED BY <2>1, <2>2, MarkAfterSuccess
<1> QED BY <1>1, <1>2, <1>3

\* In every reachable state a done message has been accepted by its upstream.
THEOREM DoneIsDelivered == Spec => []DoneMeansDelivered
<1>1. Init => DeliveredInv
  BY InitType DEF Init, DeliveredInv, DoneMeansDelivered, AcceptedBeforeMark
<1>2. DeliveredInv => DoneMeansDelivered
  BY DEF DeliveredInv
<1> QED BY <1>1, <1>2, DeliveredStep, PTL DEF Spec
=============================================================================
