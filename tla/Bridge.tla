------------------------------- MODULE Bridge -------------------------------
(***************************************************************************)
(* The message pipeline of the bridge: the messages table, the two Go      *)
(* channels, the HTTP handlers that fill them, the worker pools that drain *)
(* them, the stale janitor, the two retry pages, and the life of the       *)
(* process (boot with recovery, SIGTERM, crash).                           *)
(*                                                                         *)
(* A message is one row of the table: one (tenant, direction, external id) *)
(* key.  A job in a channel carries nothing the row does not, so a job is  *)
(* the message it is for.                                                  *)
(***************************************************************************)
EXTENDS Integers, SequencesExt

CONSTANTS
  Msgs,         \* message keys the upstreams may deliver
  Workers,      \* goroutines of both pools
  Handlers,     \* HTTP requests that may be in progress at once
  DirOf,        \* the direction of each message
  PoolOf,       \* the direction each worker serves
  BufferLimit,  \* capacity of each channel (Config.BufferLimit)
  MaxAttempts,  \* len(retryBackoff) + 1
  AttemptsMax,  \* the largest value of messages.attempts, a SMALLINT
  NoMsg,        \* the empty slot
  MaxBoots,     \* bound: times the process starts
  MaxRetries,   \* bound: requeues an operator asks for
  MaxFaults     \* bound: database calls that fail

Directions == {"in", "out"}

ASSUME FiniteAssumption == IsFiniteSet(Msgs) /\ IsFiniteSet(Workers) /\ IsFiniteSet(Handlers)
ASSUME RoutingAssumption ==
  /\ DirOf \in [Msgs -> Directions]
  /\ PoolOf \in [Workers -> Directions]
  /\ NoMsg \notin Msgs
ASSUME LimitAssumption == BufferLimit \in Nat \ {0} /\ MaxAttempts \in Nat \ {0}
                           /\ AttemptsMax \in Nat /\ AttemptsMax >= MaxAttempts
ASSUME BoundAssumption == MaxBoots \in Nat /\ MaxRetries \in Nat /\ MaxFaults \in Nat

VARIABLES
  status,     \* messages.status, "none" while there is no row
  attempts,   \* messages.attempts
  createdAt,  \* messages.created_at as a rank of insertion, 0 while there is no row
  horizon,    \* rows of rank up to this one are older than staleSweepAge
  queue,      \* s.Inbox and s.Outbox
  wpc,        \* where each worker is in runPool / runJob / runRetryLoop
  wjob,       \* its job
  tries,      \* attempts of the current job that have failed (i of runRetryLoop)
  hpc,        \* where each HTTP handler is
  hmsg,       \* its message
  phase,      \* the process: "down", "serving", "stopping" (ctx cancelled)
  boots, retries, faults,  \* counters of the bounds
  delivered,  \* history: times the upstream accepted the message
  excuse,     \* history: events after which one more delivery is legitimate
  disputed    \* history: messages swept as stale while a job for them was alive

rowVars == <<status, attempts, createdAt>>
workerVars == <<wpc, wjob, tries>>
handlerVars == <<hpc, hmsg>>
historyVars == <<delivered, excuse, disputed>>
vars == <<status, attempts, createdAt, horizon, queue, wpc, wjob, tries, hpc, hmsg,
          phase, boots, retries, faults, delivered, excuse, disputed>>

-----------------------------------------------------------------------------
(* The messages table                                                      *)

Rows == {m \in Msgs : status[m] # "none"}
\* Mutant: recovery also reads failed rows.
PendingOrFailed == {m \in Msgs : status[m] \in {"pending", "failed"}}
Pending == {m \in Msgs : status[m] = "pending"}
\* Mutant: the janitor only looks at rows some worker has tried.
StaleIfTried(m) == status[m] = "pending" /\ createdAt[m] <= horizon /\ attempts[m] > 0
Stale(m) == status[m] = "pending" /\ createdAt[m] <= horizon

MarkStatus(m, s) == status' = [status EXCEPT ![m] = s]

\* A database call fails: the row is as it was and the caller gets an error.
DBError == faults < MaxFaults /\ faults' = faults + 1

\* Mutant: no ON CONFLICT, a retransmission counts as a new row.
InsertWithoutConflict(m) ==
  /\ MarkStatus(m, "pending")
  /\ createdAt' = [createdAt EXCEPT ![m] = Cardinality(Rows) + 1]
  /\ UNCHANGED attempts

\* INSERT ... ON CONFLICT DO NOTHING: a new row, pending, youngest of all.
InsertMessage(m) ==
  /\ status[m] = "none"
  /\ MarkStatus(m, "pending")
  /\ createdAt' = [createdAt EXCEPT ![m] = Cardinality(Rows) + 1]
  /\ UNCHANGED attempts

\* Mutant: the requeue forgets its WHERE status = 'failed'.
RequeueWhateverStatus(m) ==
  /\ status[m] # "none"
  /\ retries < MaxRetries
  /\ MarkStatus(m, "pending")
  /\ attempts' = [attempts EXCEPT ![m] = 0]
  /\ retries' = retries + 1
  /\ UNCHANGED createdAt

\* UPDATE ... WHERE status = 'failed': created_at keeps its value.
RequeueMessage(m) ==
  /\ status[m] = "failed"
  /\ retries < MaxRetries
  /\ MarkStatus(m, "pending")
  /\ attempts' = [attempts EXCEPT ![m] = 0]
  /\ retries' = retries + 1
  /\ UNCHANGED createdAt

\* The oldest pending rows, at most limit of them.
NextPending(limit) ==
  {m \in Pending : Cardinality({x \in Pending : createdAt[x] < createdAt[m]}) < limit}

-----------------------------------------------------------------------------
(* Who holds a job for a message: a channel slot, a worker, a request that *)
(* is about to push it or to give up on it.                                *)

Slots(m) == {i \in DOMAIN queue[DirOf[m]] : queue[DirOf[m]][i] = m}
Running(m) == {w \in Workers : wpc[w] # "idle" /\ wjob[w] = m}
Handling(m) == {h \in Handlers : hpc[h] # "idle" /\ hmsg[h] = m}
HasJob(m) == Slots(m) # {} \/ Running(m) # {} \/ Handling(m) # {}

Init ==
  /\ status = [m \in Msgs |-> "none"]
  /\ attempts = [m \in Msgs |-> 0]
  /\ createdAt = [m \in Msgs |-> 0]
  /\ horizon = 0
  /\ queue = [d \in Directions |-> <<>>]
  /\ wpc = [w \in Workers |-> "idle"]
  /\ wjob = [w \in Workers |-> NoMsg]
  /\ tries = [w \in Workers |-> 0]
  /\ hpc = [h \in Handlers |-> "idle"]
  /\ hmsg = [h \in Handlers |-> NoMsg]
  /\ phase = "down"
  /\ boots = 0 /\ retries = 0 /\ faults = 0
  /\ delivered = [m \in Msgs |-> 0]
  /\ excuse = [m \in Msgs |-> 0]
  /\ disputed = {}

-----------------------------------------------------------------------------
(* HTTP handlers.  A request outlives SIGTERM but none begins after it.    *)

Begin(h, m, step) ==
  /\ phase = "serving" /\ hpc[h] = "idle"
  /\ hpc' = [hpc EXCEPT ![h] = step]
  /\ hmsg' = [hmsg EXCEPT ![h] = m]

End(h) ==
  /\ hpc' = [hpc EXCEPT ![h] = "idle"]
  /\ hmsg' = [hmsg EXCEPT ![h] = NoMsg]

\* An authenticated webhook with a message the table does not have.  A
\* retransmission of one it has is answered "duplicate" and changes nothing.
Webhook(h, m) ==
  /\ Begin(h, m, "send")
  /\ InsertMessage(m)
  /\ UNCHANGED <<horizon, queue, workerVars, phase, boots, retries, faults, historyVars>>

\* The row is committed and the handler gets an error (the client hung up and
\* r.Context() was cancelled, the reply of the database was lost): 500, no job.
WebhookErrorAfterInsert(m) ==
  /\ phase = "serving"
  /\ InsertMessage(m)
  /\ DBError
  /\ UNCHANGED <<horizon, queue, workerVars, handlerVars, phase, boots, retries, historyVars>>

\* Mutant: room is checked one slot too late.
PushOneTooMany(h) ==
  LET m == hmsg[h] IN
  /\ hpc[h] \in {"send", "push"}
  /\ Len(queue[DirOf[m]]) <= BufferLimit
  /\ queue' = [queue EXCEPT ![DirOf[m]] = Append(@, m)]
  /\ End(h)
  /\ UNCHANGED <<rowVars, horizon, workerVars, phase, boots, retries, faults, historyVars>>

\* The non-blocking send of enqueue and of requeueJob finds room.
Push(h) ==
  LET m == hmsg[h] IN
  /\ hpc[h] \in {"send", "push"}
  /\ Len(queue[DirOf[m]]) < BufferLimit
  /\ queue' = [queue EXCEPT ![DirOf[m]] = Append(@, m)]
  /\ End(h)
  /\ UNCHANGED <<rowVars, horizon, workerVars, phase, boots, retries, faults, historyVars>>

\* The default branch of enqueue's select.
QueueFull(h) ==
  /\ hpc[h] = "send"
  /\ Len(queue[DirOf[hmsg[h]]]) >= BufferLimit
  /\ hpc' = [hpc EXCEPT ![h] = "full"]
  /\ UNCHANGED <<rowVars, horizon, queue, workerVars, hmsg, phase, boots, retries, faults,
                 historyVars>>

\* Mutant: the 503 without the MarkStatus.
FullWithoutMark(h) ==
  /\ hpc[h] = "full"
  /\ End(h)
  /\ UNCHANGED <<rowVars, horizon, queue, workerVars, phase, boots, retries, faults, historyVars>>

\* ... and its MarkStatus, whose error is dropped, before the 503.
MarkQueueFull(h) ==
  /\ hpc[h] = "full"
  /\ \/ MarkStatus(hmsg[h], "failed") /\ UNCHANGED faults
     \/ DBError /\ UNCHANGED status
  /\ End(h)
  /\ UNCHANGED <<attempts, createdAt, horizon, queue, workerVars, phase, boots, retries,
                 historyVars>>

\* POST /admin/retry/{id}: requeue the row, then push a second job for it.
AdminRetry(h, m) ==
  /\ Begin(h, m, "push")
  /\ RequeueMessage(m)
  /\ excuse' = [excuse EXCEPT ![m] = @ + 1]
  /\ UNCHANGED <<horizon, queue, workerVars, phase, boots, faults, delivered, disputed>>

\* ... the channel is full: 503, and the row stays pending.
AdminRetryFull(h) ==
  /\ hpc[h] = "push"
  /\ Len(queue[DirOf[hmsg[h]]]) >= BufferLimit
  /\ End(h)
  /\ UNCHANGED <<rowVars, horizon, queue, workerVars, phase, boots, retries, faults, historyVars>>

\* The Retry button of the DLQ page: the row only.
WebDLQRetry(m) ==
  /\ phase = "serving"
  /\ RequeueMessage(m)
  /\ UNCHANGED <<horizon, queue, workerVars, handlerVars, phase, boots, faults, historyVars>>

-----------------------------------------------------------------------------
(* Worker pools                                                            *)

\* runPool receives a job; after SIGTERM its select may still choose the job.
Take(w) ==
  LET d == PoolOf[w] IN
  /\ phase # "down" /\ wpc[w] = "idle" /\ queue[d] # <<>>
  /\ wjob' = [wjob EXCEPT ![w] = Head(queue[d])]
  /\ wpc' = [wpc EXCEPT ![w] = "ready"]
  /\ tries' = [tries EXCEPT ![w] = 0]
  /\ queue' = [queue EXCEPT ![d] = Tail(@)]
  /\ UNCHANGED <<rowVars, horizon, handlerVars, phase, boots, retries, faults, historyVars>>

Finish(w) ==
  /\ wpc' = [wpc EXCEPT ![w] = "idle"]
  /\ wjob' = [wjob EXCEPT ![w] = NoMsg]
  /\ tries' = [tries EXCEPT ![w] = 0]

GoTo(w, step) == wpc' = [wpc EXCEPT ![w] = step] /\ UNCHANGED <<wjob, tries>>

Incremented(n) == IF n < AttemptsMax THEN n + 1 ELSE n

\* Mutant: IncrementAttempts once per job instead of once per attempt.
AttemptCountedOnce(w) ==
  /\ phase = "serving" /\ wpc[w] = "ready"
  /\ attempts' = [attempts EXCEPT ![wjob[w]] = IF tries[w] = 0 THEN Incremented(@) ELSE @]
  /\ GoTo(w, "calling")
  /\ UNCHANGED <<status, createdAt, horizon, queue, handlerVars, phase, boots, retries, faults,
                 historyVars>>

\* The first attempt, or the next one when the backoff timer fires:
\* IncrementAttempts, whose error is dropped (the database fails, or the column
\* is at its maximum), then the upstream call.
Attempt(w) ==
  /\ phase = "serving" /\ wpc[w] = "ready"
  /\ \/ attempts' = [attempts EXCEPT ![wjob[w]] = Incremented(@)] /\ UNCHANGED faults
     \/ DBError /\ UNCHANGED attempts
  /\ GoTo(w, "calling")
  /\ UNCHANGED <<status, createdAt, horizon, queue, handlerVars, phase, boots, retries,
                 historyVars>>

\* Mutant: the loop does not stop at the first success.
CallSucceedsAndRepeats(w) ==
  /\ wpc[w] = "calling"
  /\ delivered' = [delivered EXCEPT ![wjob[w]] = @ + 1]
  /\ IF tries[w] + 1 < MaxAttempts
     THEN wpc' = [wpc EXCEPT ![w] = "ready"] /\ tries' = [tries EXCEPT ![w] = @ + 1]
     ELSE wpc' = [wpc EXCEPT ![w] = "mark_done"] /\ UNCHANGED tries
  /\ UNCHANGED <<rowVars, horizon, queue, wjob, handlerVars, phase, boots, retries, faults,
                 excuse, disputed>>

\* The upstream accepts the message and the worker learns it.
CallSucceeds(w) ==
  /\ wpc[w] = "calling"
  /\ delivered' = [delivered EXCEPT ![wjob[w]] = @ + 1]
  /\ GoTo(w, "mark_done")
  /\ UNCHANGED <<rowVars, horizon, queue, handlerVars, phase, boots, retries, faults, excuse,
                 disputed>>

\* The upstream may have accepted a message whose reply the worker never saw.
ReplyLost(m, accepted) ==
  IF accepted
  THEN /\ delivered' = [delivered EXCEPT ![m] = @ + 1]
       /\ excuse' = [excuse EXCEPT ![m] = @ + 1]
  ELSE UNCHANGED <<delivered, excuse>>

\* Mutant: runRetryLoop falls out of the loop with a nil error.
ExhaustedCountsAsDone(w, err) == GoTo(w, "mark_done")

\* runJob on the error of the last attempt: a client timeout satisfies
\* errors.Is(err, context.DeadlineExceeded) and returns without a mark.
Exhausted(w, err) ==
  IF err = "timeout" THEN Finish(w) ELSE GoTo(w, "mark_failed")

\* Mutant: the retry loop has no last attempt.
CallFailsForEver(w, err, accepted) ==
  /\ wpc[w] = "calling"
  /\ wpc' = [wpc EXCEPT ![w] = "ready"]
  /\ UNCHANGED <<wjob, tries, rowVars, horizon, queue, handlerVars, phase, boots, retries,
                 faults, historyVars>>

\* A retriable error: back off, or give up after the last attempt.
CallFails(w, err, accepted) ==
  /\ wpc[w] = "calling"
  /\ ReplyLost(wjob[w], accepted)
  /\ IF tries[w] + 1 < MaxAttempts
     THEN /\ wpc' = [wpc EXCEPT ![w] = "ready"]
          /\ tries' = [tries EXCEPT ![w] = @ + 1]
          /\ UNCHANGED wjob
     ELSE Exhausted(w, err)
  /\ UNCHANGED <<rowVars, horizon, queue, handlerVars, phase, boots, retries, faults, disputed>>

\* A fatalError ends the loop at once.
CallFatal(w) ==
  /\ wpc[w] = "calling"
  /\ GoTo(w, "mark_failed")
  /\ UNCHANGED <<rowVars, horizon, queue, handlerVars, phase, boots, retries, faults, historyVars>>

\* ctx is cancelled before an attempt, during one or in the backoff: runJob
\* gets context.Canceled and leaves the row as it is.
Cancelled(w) ==
  /\ phase = "stopping" /\ wpc[w] \in {"ready", "calling"}
  /\ \/ UNCHANGED delivered
     \/ wpc[w] = "calling" /\ delivered' = [delivered EXCEPT ![wjob[w]] = @ + 1]
  /\ Finish(w)
  /\ UNCHANGED <<rowVars, horizon, queue, handlerVars, phase, boots, retries, faults, excuse,
                 disputed>>

\* MarkStatus with the worker's ctx: it fails once ctx is cancelled, and
\* runJob only logs the failure.
WorkerMark(w, s) ==
  \/ phase = "serving" /\ MarkStatus(wjob[w], s) /\ UNCHANGED faults
  \/ phase = "serving" /\ DBError /\ UNCHANGED status
  \/ phase = "stopping" /\ UNCHANGED <<status, faults>>

MarkDone(w) ==
  /\ wpc[w] = "mark_done"
  /\ WorkerMark(w, "done")
  /\ Finish(w)
  /\ UNCHANGED <<attempts, createdAt, horizon, queue, handlerVars, phase, boots, retries,
                 historyVars>>

MarkFailed(w) ==
  /\ wpc[w] = "mark_failed"
  /\ WorkerMark(w, "failed")
  /\ Finish(w)
  /\ UNCHANGED <<attempts, createdAt, horizon, queue, handlerVars, phase, boots, retries,
                 historyVars>>

-----------------------------------------------------------------------------
(* Time and the janitor                                                    *)

\* The oldest row that was younger than staleSweepAge reaches it.
Tick ==
  /\ horizon < Cardinality(Rows)
  /\ horizon' = horizon + 1
  /\ UNCHANGED <<rowVars, queue, workerVars, handlerVars, phase, boots, retries, faults,
                 historyVars>>

\* One UPDATE; a failed one is retried at the next tick.
SweepStale ==
  LET swept == {m \in Msgs : Stale(m)} IN
  /\ phase = "serving" /\ swept # {}
  /\ status' = [m \in Msgs |-> IF m \in swept THEN "failed" ELSE status[m]]
  /\ disputed' = disputed \union {m \in swept : HasJob(m)}
  /\ UNCHANGED <<attempts, createdAt, horizon, queue, workerVars, handlerVars, phase, boots,
                 retries, faults, delivered, excuse>>

-----------------------------------------------------------------------------
(* The process                                                             *)

\* Mutant: recovery keeps the last slot free.
RecoveredOneShort(d, q) ==
  LET batch == {m \in NextPending(2 * BufferLimit) : DirOf[m] = d} IN
  /\ ToSet(q) \subseteq batch
  /\ \A i, j \in DOMAIN q : i < j => createdAt[q[i]] < createdAt[q[j]]
  /\ \A i \in DOMAIN q : \A m \in batch \ ToSet(q) : createdAt[q[i]] < createdAt[m]
  /\ Len(q) = BufferLimit - 1 \/ ToSet(q) = batch

\* What RecoverPending leaves in the channel of direction d: the oldest rows
\* of the batch in created_at order, the ones that find it full skipped.
RecoveredInto(d, q) ==
  LET batch == {m \in NextPending(2 * BufferLimit) : DirOf[m] = d} IN
  /\ ToSet(q) \subseteq batch
  /\ \A i, j \in DOMAIN q : i < j => createdAt[q[i]] < createdAt[q[j]]
  /\ \A i \in DOMAIN q : \A m \in batch \ ToSet(q) : createdAt[q[i]] < createdAt[m]
  /\ Len(q) = BufferLimit \/ ToSet(q) = batch

Recovered(qs) == ToSet(qs["in"]) \union ToSet(qs["out"])

\* cmdServe recovers before it starts a worker or listens, so nothing runs
\* beside RecoverPending; when its query fails the process serves all the same.
Boot ==
  /\ phase = "down" /\ boots < MaxBoots
  /\ boots' = boots + 1
  /\ phase' = "serving"
  /\ \/ /\ \E qs \in [Directions -> BoundedSeq(Msgs, BufferLimit)] :
             /\ \A d \in Directions : RecoveredInto(d, qs[d])
             /\ queue' = qs
             /\ excuse' = [m \in Msgs |-> IF m \in Recovered(qs) THEN excuse[m] + 1
                                                                 ELSE excuse[m]]
        /\ UNCHANGED faults
     \/ DBError /\ UNCHANGED <<queue, excuse>>
  /\ UNCHANGED <<rowVars, horizon, workerVars, handlerVars, retries, delivered, disputed>>

\* SIGTERM cancels ctx; handlers and the worker steps in progress go on.
Stop ==
  /\ phase = "serving" /\ boots < MaxBoots
  /\ phase' = "stopping"
  /\ UNCHANGED <<rowVars, horizon, queue, workerVars, handlerVars, boots, retries, faults,
                 historyVars>>

\* Everything in memory is lost.
Down ==
  /\ phase' = "down"
  /\ queue' = [d \in Directions |-> <<>>]
  /\ wpc' = [w \in Workers |-> "idle"]
  /\ wjob' = [w \in Workers |-> NoMsg]
  /\ tries' = [w \in Workers |-> 0]
  /\ hpc' = [h \in Handlers |-> "idle"]
  /\ hmsg' = [h \in Handlers |-> NoMsg]
  /\ disputed' = {}
  /\ UNCHANGED <<rowVars, horizon, boots, retries, faults, delivered, excuse>>

\* ListenAndServe returns as soon as Shutdown is called, and main with it: the
\* process may exit with requests and jobs still in progress.
Exit == phase = "stopping" /\ Down

Crash == phase = "serving" /\ boots < MaxBoots /\ Down

-----------------------------------------------------------------------------

HandlerStep(h) == Push(h) \/ QueueFull(h) \/ MarkQueueFull(h) \/ AdminRetryFull(h)

CallReturns(w) ==
  \/ CallSucceeds(w)
  \/ CallFatal(w)
  \/ \E err \in {"error", "timeout"}, accepted \in BOOLEAN : CallFails(w, err, accepted)

WorkerStep(w) ==
  Take(w) \/ Attempt(w) \/ CallReturns(w) \/ Cancelled(w) \/ MarkDone(w) \/ MarkFailed(w)

Next ==
  \/ \E h \in Handlers, m \in Msgs : Webhook(h, m) \/ AdminRetry(h, m)
  \/ \E m \in Msgs : WebhookErrorAfterInsert(m) \/ WebDLQRetry(m)
  \/ \E h \in Handlers : HandlerStep(h)
  \/ \E w \in Workers : WorkerStep(w)
  \/ Tick \/ SweepStale
  \/ Boot \/ Stop \/ Exit \/ Crash

Spec == Init /\ [][Next]_vars

\* The scheduler runs every goroutine, every HTTP client call ends within its
\* timeout, time passes, the janitor ticks, and the supervisor restarts the
\* process.  Nothing obliges an upstream to send, an operator to retry or the
\* process to stop.
Fairness ==
  /\ \A w \in Workers : WF_vars(WorkerStep(w))
  /\ \A h \in Handlers : WF_vars(HandlerStep(h))
  /\ WF_vars(Tick) /\ WF_vars(SweepStale)
  /\ WF_vars(Boot) /\ WF_vars(Exit)

FairSpec == Spec /\ Fairness

-----------------------------------------------------------------------------
(* Properties                                                              *)

WorkerSteps == {"idle", "ready", "calling", "mark_done", "mark_failed"}
HandlerSteps == {"idle", "send", "full", "push"}

RowsOK ==
  /\ status \in [Msgs -> {"none", "pending", "done", "failed"}]
  /\ attempts \in [Msgs -> 0..AttemptsMax]
  /\ createdAt \in [Msgs -> Nat]
  /\ horizon \in Nat

\* A job is only ever in the channel and the pool of its own direction.
QueuesOK ==
  /\ queue \in [Directions -> Seq(Msgs)]
  /\ \A d \in Directions :
       /\ Len(queue[d]) <= BufferLimit
       /\ \A i \in 1..Len(queue[d]) : DirOf[queue[d][i]] = d

WorkersOK ==
  /\ wpc \in [Workers -> WorkerSteps]
  /\ wjob \in [Workers -> Msgs \union {NoMsg}]
  /\ tries \in [Workers -> 0..MaxAttempts - 1]
  /\ \A w \in Workers : wpc[w] # "idle" => wjob[w] \in Msgs /\ DirOf[wjob[w]] = PoolOf[w]

HandlersOK ==
  /\ hpc \in [Handlers -> HandlerSteps]
  /\ hmsg \in [Handlers -> Msgs \union {NoMsg}]
  /\ \A h \in Handlers : hpc[h] # "idle" => hmsg[h] \in Msgs

ProcessOK ==
  /\ phase \in {"down", "serving", "stopping"}
  /\ boots \in 0..MaxBoots /\ retries \in 0..MaxRetries /\ faults \in 0..MaxFaults

HistoryOK ==
  /\ delivered \in [Msgs -> Nat]
  /\ excuse \in [Msgs -> Nat]
  /\ disputed \subseteq Msgs

\* Every variable has its type, a channel never holds more than its capacity,
\* and a job is only ever in the channel and the pool of its own direction.
TypeOK == RowsOK /\ QueuesOK /\ WorkersOK /\ HandlersOK /\ ProcessOK /\ HistoryOK

\* runJob marks a message done only after the upstream accepted it: whatever
\* the errors, timeouts, retries and restarts before, a done row is never a
\* message nobody received.
DoneMeansDelivered == \A m \in Msgs : status[m] = "done" => delivered[m] > 0

\* Behind a row that is done or failed nothing is still running, so that the
\* retry an operator asks for is the only job for it.  The exception is the
\* janitor, which fails a row whatever is being done about it.
NoJobBehindSettledRow ==
  \A m \in Msgs \ disputed : status[m] \in {"none", "done", "failed"} => ~HasJob(m)

\* At most one job for a message exists at any time, over both ways a job is
\* made (webhook, admin retry), recovery at boot included.
SingleJob ==
  \A m \in Msgs \ disputed :
    Cardinality(Slots(m)) + Cardinality(Running(m)) + Cardinality(Handling(m)) <= 1

\* The upstream receives a message more than once only for a reason: a reply
\* that was lost, a job remade at boot, a retry an operator asked for.
DeliveriesAccounted == \A m \in Msgs : delivered[m] <= 1 + excuse[m]

\* The attempts an operator sees are never fewer than the job has made, as long
\* as every update of the column worked.
AttemptsCoverTries ==
  phase = "serving" /\ faults = 0 =>
    \A w \in Workers :
      wpc[w] = "calling" /\ wjob[w] \notin disputed => attempts[wjob[w]] > tries[w]

\* MarkStatus looks at nothing, so the mark of a job or of a request that comes late may
\* overwrite a done row: the row says failed though the message was delivered.  That
\* takes a second job, and so a row the janitor failed under a live one and an operator
\* retried; nothing else changes a done row, and nothing makes it pending.
LateMark(m) ==
  \/ \E w \in Workers : wpc[w] = "mark_failed" /\ wjob[w] = m /\ wpc'[w] = "idle"
  \/ \E h \in Handlers : hpc[h] = "full" /\ hmsg[h] = m /\ hpc'[h] = "idle"
DoneIsFinal ==
  [][\A m \in Msgs : status[m] = "done" /\ status'[m] # "done" =>
       m \in disputed /\ status'[m] = "failed" /\ LateMark(m)]_vars

\* A pending row nothing works on.
Stranded(m) == status[m] = "pending" /\ ~HasJob(m)

\* The request of an operator's retry that finds its channel full (requeueJob).
RetryTurnedAway(h, m) ==
  hpc[h] = "push" /\ hmsg[h] = m /\ Len(queue[DirOf[m]]) >= BufferLimit

\* The worker whose last attempt is in progress: a client timeout there ends the
\* job without a mark (runJob).
LastAttempt(w, m) == wpc[w] = "calling" /\ wjob[w] = m /\ tries[w] + 1 = MaxAttempts

\* A pending row is left without a job only by a process that stops or starts, a
\* database error, the Retry button of the DLQ page, a retry that finds its
\* channel full, or a last attempt that times out.  No other interleaving of
\* requests, workers, the janitor and retries strands a message.
StrandedForCause ==
  [][\A m \in Msgs : Stranded(m)' /\ ~Stranded(m) =>
       \/ phase # "serving" \/ phase' # "serving"
       \/ faults' # faults
       \/ status[m] = "failed"
       \/ \E h \in Handlers : RetryTurnedAway(h, m)
       \/ \E w \in Workers : LastAttempt(w, m)]_vars

\* How far a worker, and a request, still is from the end of its job.
StepsAfter == [ready |-> 2, calling |-> 1, mark_done |-> 0, mark_failed |-> 0]
WorkerLeft(w) ==
  IF wpc[w] = "idle" THEN 0 ELSE 3 * (MaxAttempts - tries[w]) + StepsAfter[wpc[w]]
RequestLeft(h) == [idle |-> 0, push |-> 1, full |-> 1, send |-> 2][hpc[h]]

WorkerAdvances(w) ==
  \/ UNCHANGED <<wpc[w], wjob[w], tries[w]>>
  \/ WorkerLeft(w)' < WorkerLeft(w) /\ wjob'[w] \in {wjob[w], NoMsg}
  \/ /\ wpc[w] = "idle" /\ queue[PoolOf[w]] # <<>>
     /\ wjob'[w] = Head(queue[PoolOf[w]]) /\ queue'[PoolOf[w]] = Tail(queue[PoolOf[w]])

RequestAdvances(h) ==
  \/ hpc[h] = "idle" \/ UNCHANGED <<hpc[h], hmsg[h]>>
  \/ RequestLeft(h)' < RequestLeft(h) /\ hmsg'[h] \in {hmsg[h], NoMsg}

ChannelAdvances(d) ==
  \/ UNCHANGED queue[d]
  \/ \E h \in Handlers : /\ hpc[h] # "idle" /\ hpc'[h] = "idle"
                         /\ queue'[d] = Append(queue[d], hmsg[h])
  \/ \E w \in Workers : /\ PoolOf[w] = d /\ wpc[w] = "idle" /\ wpc'[w] = "ready"
                        /\ queue[d] # <<>> /\ queue'[d] = Tail(queue[d])
                        /\ wjob'[w] = Head(queue[d])

\* While the process runs, a job only moves on: from its request to the channel,
\* from the head of the channel to a worker, and in the worker to a later attempt,
\* a later step of the attempt or the end.  No job is overtaken in the channel,
\* vanishes from it or is tried again without an attempt being used up.
JobsOnlyAdvance ==
  [][phase' = phase => /\ \A w \in Workers : WorkerAdvances(w)
                       /\ \A h \in Handlers : RequestAdvances(h)
                       /\ \A d \in Directions : ChannelAdvances(d)]_vars

\* The table, whatever the goroutines do, is the ledger of MessageLedger.
Ledger == INSTANCE MessageLedger
  WITH row <- status, accepted <- {m \in Msgs : delivered[m] > 0}, contested <- disputed
ImplementsLedger == Ledger!LedgerSpec

\* A worker that is done with a job, the process serving and the database up,
\* has settled the row: reliability_integration_test.go says that exhausting
\* the retries must mark the message failed.
FinishedMeansSettled ==
  [][\A w \in Workers :
       /\ wpc[w] # "idle" /\ wpc'[w] = "idle"
       /\ phase = "serving" /\ phase' = "serving" /\ faults' = faults
       => status'[wjob[w]] \in {"done", "failed"}]_vars

\* Recovery at boot makes a job for every message in flight: what the release
\* notes say of RecoverPending.
RecoveryDrainsPending ==
  [][phase = "down" /\ phase' = "serving" /\ faults' = faults
       => \A m \in Pending : HasJob(m)']_vars

\* ... and does so for the messages of a direction as long as they fit into its
\* channel and all pending rows into the batch of RecoverPending.
RecoveryDrainsWhatFits ==
  [][phase = "down" /\ phase' = "serving" /\ faults' = faults
       /\ Cardinality(Pending) <= 2 * BufferLimit
     => \A d \in Directions :
          LET waiting == {m \in Pending : DirOf[m] = d} IN
          Cardinality(waiting) <= BufferLimit => \A m \in waiting : HasJob(m)']_vars

\* No row stays pending for ever, whatever was lost on its way: a worker
\* settles it or, in the end, the janitor does.
EveryRowSettles == \A m \in Msgs : status[m] = "pending" ~> status[m] \in {"done", "failed"}

\* Every job comes to an end: no retry loop, full channel or shutdown keeps a
\* goroutine busy with a message for ever.
JobsEnd == \A m \in Msgs : HasJob(m) ~> ~HasJob(m)
=============================================================================
