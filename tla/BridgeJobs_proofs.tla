------------------------- MODULE BridgeJobs_proofs -------------------------
(* Theorems about the jobs of Bridge: at most one for a message, none      *)
(* behind a settled row, and what follows from that for the table (down to *)
(* the refinement of MessageLedger), the deliveries and the attempts; and  *)
(* how a job moves: only towards its end, and never lost on the way.       *)
EXTENDS Bridge_proofs

USE RoutingAssumption, LimitAssumption, BoundAssumption DEF Directions

-----------------------------------------------------------------------------
(* Who holds a job                                                         *)

\* SingleJob without counting: two holders of a job for m are the same one.
OneHolder(m) ==
  /\ \A i, j \in Slots(m) : i = j
  /\ \A v, w \in Running(m) : v = w
  /\ \A g, h \in Handling(m) : g = h
  /\ Slots(m) = {} \/ Running(m) = {}
  /\ Slots(m) = {} \/ Handling(m) = {}
  /\ Running(m) = {} \/ Handling(m) = {}

\* A job has a pending row, unless the janitor has failed it meanwhile; a
\* process that is down has no jobs.
JobInv ==
  /\ TypeOK
  /\ \A m \in Msgs : HasJob(m) => status[m] # "none" /\ phase # "down"
  /\ \A m \in Msgs \ disputed : OneHolder(m) /\ (HasJob(m) => status[m] = "pending")

\* Holders that only go away leave at most one.
LEMMA FewerHolders ==
  ASSUME NEW m \in Msgs,
         Slots(m)' \subseteq Slots(m), Running(m)' \subseteq Running(m),
         Handling(m)' \subseteq Handling(m)
  PROVE  /\ OneHolder(m) => OneHolder(m)'
         /\ HasJob(m)' => HasJob(m)
BY DEF OneHolder, HasJob

\* The holders depend on the channel, the workers and the requests alone.
LEMMA SameHolders ==
  ASSUME NEW m \in Msgs
  PROVE  /\ UNCHANGED queue => Slots(m)' = Slots(m)
         /\ UNCHANGED workerVars => Running(m)' = Running(m)
         /\ UNCHANGED handlerVars => Handling(m)' = Handling(m)
BY DEF Slots, Running, Handling, workerVars, handlerVars

-----------------------------------------------------------------------------
(* Requests                                                                *)

LEMMA BeginHolds ==
  ASSUME TypeOK, NEW h \in Handlers, NEW x \in Msgs, NEW step \in HandlerSteps \ {"idle"},
         Begin(h, x, step), NEW m \in Msgs
  PROVE  Handling(m)' = IF m = x THEN Handling(m) \union {h} ELSE Handling(m)
BY DEF Begin, Handling, TypeOK, HandlersOK, HandlerSteps

LEMMA EndReleases ==
  ASSUME TypeOK, NEW h \in Handlers, End(h), NEW m \in Msgs
  PROVE  Handling(m)' = Handling(m) \ {h}
BY DEF End, Handling, TypeOK, HandlersOK, HandlerSteps

LEMMA PushSlots ==
  ASSUME TypeOK, NEW h \in Handlers, Push(h), NEW m \in Msgs
  PROVE  /\ m # hmsg[h] => Slots(m)' = Slots(m)
         /\ m = hmsg[h] => Slots(m)' \subseteq Slots(m) \union {Len(queue[DirOf[m]]) + 1}
<1> DEFINE x == hmsg[h]
           q == queue[DirOf[x]]
<1>1. x \in Msgs /\ DirOf[x] \in Directions /\ DirOf[m] \in Directions
  BY DEF Push, TypeOK, HandlersOK
<1>2. q \in Seq(Msgs) /\ queue'[DirOf[x]] = Append(q, x)
  BY <1>1 DEF Push, TypeOK, QueuesOK
<1>3. /\ DOMAIN Append(q, x) = 1..(Len(q) + 1) /\ DOMAIN q = 1..Len(q)
      /\ Append(q, x)[Len(q) + 1] = x
      /\ \A i \in 1..Len(q) : Append(q, x)[i] = q[i]
  BY <1>1, <1>2
<1>4. CASE DirOf[m] # DirOf[x]
  BY <1>1, <1>4 DEF Push, TypeOK, QueuesOK, Slots
<1>5. CASE DirOf[m] = DirOf[x]
  <2>1. Slots(m) = {i \in 1..Len(q) : q[i] = m}
    BY <1>3, <1>5 DEF Slots
  <2>2. Slots(m)' = {i \in 1..(Len(q) + 1) : Append(q, x)[i] = m}
    BY <1>2, <1>3, <1>5 DEF Slots
  <2> QED BY <1>2, <1>3, <1>5, <2>1, <2>2
<1> QED BY <1>4, <1>5

LEMMA RequestJobs ==
  ASSUME JobInv, NEW h \in Handlers, NEW x \in Msgs, Webhook(h, x) \/ AdminRetry(h, x)
  PROVE  JobInv'
<1> USE DEF JobInv
<1>1. TypeOK'
  BY RequestTypes
<1>2. /\ UNCHANGED <<queue, workerVars, disputed, phase>> /\ phase # "down"
      /\ status[x] \in {"none", "failed"} /\ status' = [status EXCEPT ![x] = "pending"]
      /\ \E step \in HandlerSteps \ {"idle"} : Begin(h, x, step)
  BY DEF Webhook, AdminRetry, InsertMessage, RequeueMessage, MarkStatus, Begin, HandlerSteps,
         historyVars
<1>3. \A m \in Msgs : status'[m] = IF m = x THEN "pending" ELSE status[m]
  BY <1>2 DEF TypeOK, RowsOK
<1>4. \A m \in Msgs : /\ Slots(m)' = Slots(m) /\ Running(m)' = Running(m)
                      /\ Handling(m)' = IF m = x THEN Handling(m) \union {h} ELSE Handling(m)
  BY <1>2, BeginHolds, SameHolders
<1>5. \A m \in Msgs : HasJob(m)' => status'[m] # "none" /\ phase' # "down"
  BY <1>2, <1>3, <1>4 DEF HasJob
<1>6. ASSUME NEW m \in Msgs \ disputed
      PROVE  OneHolder(m)' /\ (HasJob(m)' => status'[m] = "pending")
  <2>1. CASE m # x
    BY <1>3, <1>4, <2>1 DEF HasJob, OneHolder
  <2>2. CASE m = x
    <3>1. ~HasJob(m)
      BY <1>2, <2>2
    <3> QED BY <1>3, <1>4, <2>2, <3>1 DEF HasJob, OneHolder
  <2> QED BY <2>1, <2>2
<1> QED BY <1>1, <1>2, <1>5, <1>6

LEMMA HandlerJobs ==
  ASSUME JobInv, NEW h \in Handlers, HandlerStep(h)
  PROVE  JobInv'
<1> USE DEF JobInv
<1>1. TypeOK'
  BY HandlerTypes
<1>2. hpc[h] # "idle" /\ hmsg[h] \in Msgs /\ HasJob(hmsg[h]) /\ h \in Handling(hmsg[h])
  <2>1. hpc[h] # "idle" /\ hmsg[h] \in Msgs
    BY DEF HandlerStep, Push, QueueFull, MarkQueueFull, AdminRetryFull, TypeOK, HandlersOK
  <2> QED BY <2>1 DEF HasJob, Handling
<1>3. UNCHANGED <<workerVars, phase, disputed>>
  BY DEF HandlerStep, Push, QueueFull, MarkQueueFull, AdminRetryFull, historyVars
<1>4. CASE Push(h)
  <2>1. UNCHANGED status /\ End(h)
    BY <1>4 DEF Push, rowVars
  <2>2. \A m \in Msgs : Running(m)' = Running(m) /\ Handling(m)' = Handling(m) \ {h}
    BY <1>3, <2>1, EndReleases, SameHolders
  <2>3. \A m \in Msgs \ {hmsg[h]} : HasJob(m)' => HasJob(m)
    BY <1>4, <2>2, PushSlots DEF HasJob
  <2>4. \A m \in Msgs \ {hmsg[h]} : OneHolder(m) => OneHolder(m)'
    BY <1>4, <2>2, PushSlots DEF OneHolder
  <2>5. ASSUME NEW x \in Msgs \ disputed, x = hmsg[h] PROVE OneHolder(x)'
    <3>1. OneHolder(x) /\ h \in Handling(x)
      BY <1>2, <2>5
    <3>2. Slots(x) = {} /\ Running(x) = {} /\ Handling(x) \ {h} = {}
      BY <3>1 DEF OneHolder
    <3>3. Slots(x)' \subseteq {Len(queue[DirOf[x]]) + 1}
      BY <1>4, <2>5, <3>2, PushSlots
    <3>4. Running(x)' = {} /\ Handling(x)' = {}
      BY <2>2, <3>2
    <3> QED BY <3>3, <3>4 DEF OneHolder
  <2>6. \A m \in Msgs : HasJob(m)' => HasJob(m)
    BY <1>2, <2>3
  <2> QED BY <1>1, <1>3, <2>1, <2>4, <2>5, <2>6
<1>5. CASE QueueFull(h)
  <2>1. UNCHANGED <<queue, status>>
    BY <1>5 DEF QueueFull, rowVars
  <2>2. \A m \in Msgs : Handling(m)' \subseteq Handling(m)
    BY <1>5 DEF QueueFull, Handling, TypeOK, HandlersOK
  <2>3. \A m \in Msgs : (OneHolder(m) => OneHolder(m)') /\ (HasJob(m)' => HasJob(m))
    BY <1>3, <2>1, <2>2, FewerHolders, SameHolders
  <2> QED BY <1>1, <1>3, <2>1, <2>3
<1>6. CASE MarkQueueFull(h) \/ AdminRetryFull(h)
  <2>1. UNCHANGED queue /\ End(h)
    BY <1>6 DEF MarkQueueFull, AdminRetryFull
  <2>2. \A m \in Msgs : Handling(m)' = Handling(m) \ {h}
    BY <2>1, EndReleases
  <2>3. \A m \in Msgs : (OneHolder(m) => OneHolder(m)') /\ (HasJob(m)' => HasJob(m))
    BY <1>3, <2>1, <2>2, FewerHolders, SameHolders
  <2>4. status' = status \/ status' = [status EXCEPT ![hmsg[h]] = "failed"]
    BY <1>6 DEF MarkQueueFull, AdminRetryFull, MarkStatus, rowVars
  <2>5. \A m \in Msgs : status[m] # "none" => status'[m] # "none"
    BY <1>2, <2>4 DEF TypeOK, RowsOK
  <2>6. ASSUME NEW m \in Msgs \ disputed, HasJob(m)' PROVE status'[m] = "pending"
    <3>1. status[m] = "pending" /\ OneHolder(m)
      BY <2>3, <2>6
    <3>2. m # hmsg[h]
      BY <1>2, <1>3, <2>1, <2>2, <2>6, <3>1, SameHolders DEF OneHolder, HasJob
    <3> QED BY <1>2, <2>4, <3>1, <3>2 DEF TypeOK, RowsOK
  <2> QED BY <1>1, <1>3, <2>3, <2>5, <2>6
<1> QED BY <1>4, <1>5, <1>6 DEF HandlerStep

-----------------------------------------------------------------------------
(* Workers                                                                 *)

LEMMA TakeMoves ==
  ASSUME TypeOK, NEW w \in Workers, Take(w)
  PROVE  \E x \in Msgs :
           /\ 1 \in Slots(x)
           /\ \A m \in Msgs :
                /\ \A i \in Slots(m)' : i \in Nat \ {0}
                /\ DirOf[m] = DirOf[x] => \A i \in Slots(m)' : i + 1 \in Slots(m)
                /\ DirOf[m] # DirOf[x] => Slots(m)' = Slots(m)
                /\ Running(m)' = IF m = x THEN Running(m) \union {w} ELSE Running(m)
<1> DEFINE d == PoolOf[w]
           q == queue[d]
<1>1. q \in Seq(Msgs) /\ q # <<>> /\ queue' = [queue EXCEPT ![d] = Tail(q)] /\ d \in Directions
  BY DEF Take, TypeOK, QueuesOK
<1>2. /\ Head(q) = q[1] /\ q[1] \in Msgs
      /\ Tail(q) \in Seq(Msgs) /\ Len(Tail(q)) = Len(q) - 1
      /\ \A i \in 1..Len(Tail(q)) : Tail(q)[i] = q[i + 1]
  BY <1>1, HeadTailProperties
<1>3. Len(q) \in Nat \ {0} /\ DOMAIN q = 1..Len(q) /\ DOMAIN Tail(q) = 1..(Len(q) - 1)
  BY <1>1, <1>2
<1>4. DirOf[q[1]] = d
  BY <1>1, <1>3 DEF TypeOK, QueuesOK
<1>5. queue'[d] = Tail(q) /\ \A e \in Directions \ {d} : queue'[e] = queue[e]
  BY <1>1 DEF TypeOK, QueuesOK
<1> q[1] \in Msgs
  BY <1>2
<1> WITNESS q[1] \in Msgs
<1>6. 1 \in Slots(q[1])
  BY <1>3, <1>4 DEF Slots
<1>7. ASSUME NEW m \in Msgs, DirOf[m] = d
      PROVE  \A i \in Slots(m)' : i \in Nat \ {0} /\ i + 1 \in Slots(m)
  <2>1. Slots(m)' = {i \in 1..(Len(q) - 1) : Tail(q)[i] = m}
    BY <1>3, <1>5, <1>7 DEF Slots
  <2>2. Slots(m) = {i \in 1..Len(q) : q[i] = m}
    BY <1>3, <1>7 DEF Slots
  <2> QED BY <1>2, <1>3, <2>1, <2>2
<1>8. ASSUME NEW m \in Msgs, DirOf[m] # d
      PROVE  Slots(m)' = Slots(m) /\ \A i \in Slots(m) : i \in Nat \ {0}
  <2>1. DirOf[m] \in Directions \ {d} /\ queue[DirOf[m]] \in Seq(Msgs)
    BY <1>8 DEF TypeOK, QueuesOK
  <2> QED BY <1>5, <2>1 DEF Slots
<1>9. ASSUME NEW m \in Msgs
      PROVE  Running(m)' = IF m = q[1] THEN Running(m) \union {w} ELSE Running(m)
  BY <1>2 DEF Take, Running, TypeOK, WorkersOK, WorkerSteps
<1> QED BY <1>4, <1>6, <1>7, <1>8, <1>9

LEMMA TakeJobs ==
  ASSUME JobInv, NEW w \in Workers, Take(w)
  PROVE  JobInv'
<1> USE DEF JobInv
<1>1. TypeOK'
  BY WorkerTypes DEF WorkerStep
<1>2. UNCHANGED <<status, handlerVars, phase, disputed>>
  BY DEF Take, rowVars, historyVars
<1>3. PICK x \in Msgs :
           /\ 1 \in Slots(x)
           /\ \A m \in Msgs :
                /\ \A i \in Slots(m)' : i \in Nat \ {0}
                /\ DirOf[m] = DirOf[x] => \A i \in Slots(m)' : i + 1 \in Slots(m)
                /\ DirOf[m] # DirOf[x] => Slots(m)' = Slots(m)
                /\ Running(m)' = IF m = x THEN Running(m) \union {w} ELSE Running(m)
  BY TakeMoves
<1>4. \A m \in Msgs : Handling(m)' = Handling(m)
  BY <1>2, SameHolders
<1>5. \A m \in Msgs : Slots(m)' # {} => Slots(m) # {}
  BY <1>3
<1>6. \A m \in Msgs : HasJob(m)' => HasJob(m)
  BY <1>3, <1>4, <1>5 DEF HasJob
<1>7. ASSUME NEW m \in Msgs \ disputed PROVE OneHolder(m)'
  <2>1. \A i, j \in Slots(m)' : i = j
    BY <1>3 DEF OneHolder
  <2>2. CASE m # x
    BY <1>3, <1>4, <1>5, <2>1, <2>2 DEF OneHolder
  <2>3. CASE m = x
    <3>1. Running(m) = {} /\ Handling(m) = {} /\ \A i \in Slots(m) : i = 1
      BY <1>3, <2>3 DEF OneHolder
    <3>2. Slots(m)' = {}
      BY <1>3, <2>3, <3>1
    <3> QED BY <1>3, <1>4, <2>3, <3>1, <3>2 DEF OneHolder
  <2> QED BY <2>2, <2>3
<1> QED BY <1>1, <1>2, <1>6, <1>7

\* A worker with a job keeps it or drops it; only one that drops it marks the row.
LEMMA WorkerKeeps ==
  ASSUME TypeOK, NEW w \in Workers, WorkerStep(w), ~Take(w)
  PROVE  /\ wpc[w] # "idle" /\ wjob[w] \in Msgs /\ w \in Running(wjob[w])
         /\ UNCHANGED <<queue, handlerVars, phase, disputed>>
         /\ \A m \in Msgs : Running(m)' \subseteq Running(m)
         /\ \/ UNCHANGED status
            \/ /\ \E s \in {"done", "failed"} : status' = [status EXCEPT ![wjob[w]] = s]
               /\ \A m \in Msgs : Running(m)' = Running(m) \ {w}
<1> USE DEF TypeOK, WorkersOK
<1>1. wpc[w] # "idle"
  BY DEF WorkerStep, CallReturns, Attempt, CallSucceeds, CallFatal, CallFails, Cancelled, MarkDone,
         MarkFailed
<1>2. UNCHANGED <<queue, handlerVars, phase, disputed>>
  BY DEF WorkerStep, CallReturns, Attempt, CallSucceeds, CallFatal, CallFails, ReplyLost,
         Cancelled, MarkDone, MarkFailed, historyVars
<1>3. Finish(w) => \A m \in Msgs : Running(m)' = Running(m) \ {w}
  BY DEF Finish, Running
<1>4. /\ wpc' = [wpc EXCEPT ![w] = wpc'[w]]
      /\ UNCHANGED wjob
      => \A m \in Msgs : Running(m)' \subseteq Running(m)
  BY <1>1 DEF Running
<1>5. CASE MarkDone(w) \/ MarkFailed(w)
  <2>1. Finish(w) /\ \E s \in {"done", "failed"} : WorkerMark(w, s)
    BY <1>5 DEF MarkDone, MarkFailed
  <2> QED BY <1>1, <1>2, <1>3, <2>1 DEF WorkerMark, MarkStatus, Running
<1>6. CASE Attempt(w) \/ CallReturns(w) \/ Cancelled(w)
  <2>1. UNCHANGED status
    BY <1>6 DEF CallReturns, Attempt, CallSucceeds, CallFatal, CallFails, Cancelled, rowVars
  <2>2. Finish(w) \/ (wpc' = [wpc EXCEPT ![w] = wpc'[w]] /\ UNCHANGED wjob)
    BY <1>6 DEF CallReturns, Attempt, CallSucceeds, CallFatal, CallFails, Cancelled, Exhausted, GoTo
  <2> QED BY <1>1, <1>2, <1>3, <1>4, <2>1, <2>2 DEF Running
<1> QED BY <1>5, <1>6 DEF WorkerStep

LEMMA WorkerJobs ==
  ASSUME JobInv, NEW w \in Workers, WorkerStep(w)
  PROVE  JobInv'
<1> SUFFICES ASSUME ~Take(w) PROVE JobInv'
  BY TakeJobs
<1> USE DEF JobInv
<1>1. TypeOK'
  BY WorkerTypes
<1>2. UNCHANGED <<queue, handlerVars, phase, disputed>>
  BY WorkerKeeps
<1>3. \A m \in Msgs : (OneHolder(m) => OneHolder(m)') /\ (HasJob(m)' => HasJob(m))
  BY <1>2, WorkerKeeps, FewerHolders, SameHolders
<1>4. CASE UNCHANGED status
  BY <1>1, <1>2, <1>3, <1>4
<1>5. ASSUME NEW s \in {"done", "failed"}, status' = [status EXCEPT ![wjob[w]] = s],
             \A m \in Msgs : Running(m)' = Running(m) \ {w}
      PROVE  JobInv'
  <2>1. \A m \in Msgs : status'[m] = IF m = wjob[w] THEN s ELSE status[m]
    BY <1>5 DEF TypeOK, RowsOK
  <2>2. \A m \in Msgs : status[m] # "none" => status'[m] # "none"
    BY <2>1
  <2>3. ASSUME NEW m \in Msgs \ disputed, HasJob(m)' PROVE status'[m] = "pending"
    <3>1. status[m] = "pending" /\ OneHolder(m)
      BY <1>3, <2>3
    <3>2. ASSUME m = wjob[w] PROVE FALSE
      <4>1. w \in Running(m)
        BY <3>2, WorkerKeeps
      <4>2. Running(m)' = {} /\ Slots(m)' = {} /\ Handling(m)' = {}
        BY <1>2, <1>5, <3>1, <4>1, SameHolders DEF OneHolder
      <4> QED BY <2>3, <4>2 DEF HasJob
    <3> QED BY <2>1, <3>1, <3>2
  <2> QED BY <1>1, <1>2, <1>3, <2>2, <2>3
<1> QED BY <1>4, <1>5, WorkerKeeps

-----------------------------------------------------------------------------
(* The table, time and the process                                         *)

LEMMA TableJobs ==
  ASSUME JobInv, NEW x \in Msgs, WebhookErrorAfterInsert(x) \/ WebDLQRetry(x)
  PROVE  JobInv'
<1> USE DEF JobInv
<1>1. TypeOK'
  BY NextType DEF Next
<1>2. /\ UNCHANGED <<queue, workerVars, handlerVars, disputed, phase>>
      /\ status[x] \in {"none", "failed"} /\ status' = [status EXCEPT ![x] = "pending"]
  BY DEF WebhookErrorAfterInsert, WebDLQRetry, InsertMessage, RequeueMessage, MarkStatus,
         historyVars
<1>3. \A m \in Msgs : (OneHolder(m) => OneHolder(m)') /\ (HasJob(m)' => HasJob(m))
  BY <1>2, FewerHolders, SameHolders
<1>4. \A m \in Msgs : status'[m] = IF m = x THEN "pending" ELSE status[m]
  BY <1>2 DEF TypeOK, RowsOK
<1> QED BY <1>1, <1>2, <1>3, <1>4

LEMMA SweepJobs == JobInv /\ SweepStale => JobInv'
<1> SUFFICES ASSUME JobInv, SweepStale PROVE JobInv'
  OBVIOUS
<1> USE DEF JobInv
<1>1. TypeOK'
  BY ProcessTypes
<1>2. UNCHANGED <<queue, workerVars, handlerVars, phase>>
  BY DEF SweepStale
<1>3. \A m \in Msgs : (OneHolder(m) => OneHolder(m)') /\ (HasJob(m)' => HasJob(m))
  BY <1>2, FewerHolders, SameHolders
<1>4. \A m \in Msgs : status'[m] = IF Stale(m) THEN "failed" ELSE status[m]
  BY DEF SweepStale
<1>5. \A m \in Msgs : m \notin disputed' => m \notin disputed /\ (Stale(m) => ~HasJob(m))
  BY DEF SweepStale
<1> QED BY <1>1, <1>2, <1>3, <1>4, <1>5

\* Recovery makes at most one job for a message, of a pending row, and excuses it.
LEMMA BootSlots ==
  ASSUME JobInv, Boot, NEW m \in Msgs, Slots(m)' # {}
  PROVE  /\ status[m] = "pending" /\ excuse'[m] = excuse[m] + 1
         /\ \A i, j \in Slots(m)' : i = j
<1>1. Slots(m) = {}
  BY DEF Boot, JobInv, HasJob
<1>2. CASE UNCHANGED queue
  BY <1>1, <1>2, SameHolders
<1>3. ASSUME NEW qs \in [Directions -> BoundedSeq(Msgs, BufferLimit)],
             \A d \in Directions : RecoveredInto(d, qs[d]), queue' = qs,
             excuse' = [x \in Msgs |-> IF x \in Recovered(qs) THEN excuse[x] + 1 ELSE excuse[x]]
      PROVE  /\ status[m] = "pending" /\ excuse'[m] = excuse[m] + 1
             /\ \A i, j \in Slots(m)' : i = j
  <2> DEFINE q == qs[DirOf[m]]
  <2>1. q \in Seq(Msgs) /\ RecoveredInto(DirOf[m], q)
    BY <1>3 DEF BoundedSeq, SeqOf
  <2>2. Slots(m)' = {i \in DOMAIN q : q[i] = m}
    BY <1>3 DEF Slots
  <2>3. m \in ToSet(q)
    BY <2>2 DEF ToSet
  <2>4. status[m] = "pending"
    BY <2>1, <2>3 DEF RecoveredInto, NextPending, Pending
  <2>5. m \in Recovered(qs)
    BY <2>3 DEF Recovered
  <2>6. ASSUME NEW i \in Slots(m)', NEW j \in Slots(m)' PROVE i = j
    <3>1. createdAt[m] \in Nat
      BY DEF JobInv, TypeOK, RowsOK
    <3>2. ~(i < j) /\ ~(j < i)
      BY <2>1, <2>2, <3>1 DEF RecoveredInto
    <3>3. i \in Nat /\ j \in Nat
      BY <2>1, <2>2
    <3> QED BY <3>2, <3>3
  <2> QED BY <1>3, <2>4, <2>5, <2>6
<1> QED BY <1>2, <1>3 DEF Boot

LEMMA BootJobs == JobInv /\ Boot => JobInv'
<1> SUFFICES ASSUME JobInv, Boot PROVE JobInv'
  OBVIOUS
<1>1. TypeOK'
  BY ProcessTypes DEF JobInv
<1>2. /\ UNCHANGED <<status, workerVars, handlerVars, disputed>> /\ phase = "down"
      /\ phase' = "serving"
  BY DEF Boot, rowVars
<1>3. \A m \in Msgs : Running(m)' = {} /\ Handling(m)' = {}
  BY <1>2, SameHolders DEF JobInv, HasJob
<1>4. \A m \in Msgs : /\ Slots(m)' # {} => status[m] = "pending"
                      /\ \A i, j \in Slots(m)' : i = j
  BY BootSlots
<1>5. \A m \in Msgs : HasJob(m)' => status'[m] = "pending"
  BY <1>2, <1>3, <1>4 DEF HasJob
<1>6. \A m \in Msgs : OneHolder(m)'
  BY <1>3, <1>4 DEF OneHolder
<1> QED BY <1>1, <1>2, <1>5, <1>6 DEF JobInv

LEMMA NoHolders ==
  ASSUME queue = [d \in Directions |-> <<>>], wpc = [w \in Workers |-> "idle"],
         hpc = [h \in Handlers |-> "idle"], NEW m \in Msgs
  PROVE  ~HasJob(m) /\ OneHolder(m)
<1>1. Slots(m) = {} /\ Running(m) = {} /\ Handling(m) = {}
  BY DEF Slots, Running, Handling
<1> QED BY <1>1 DEF HasJob, OneHolder

LEMMA JobInit == Init => JobInv
BY InitType, NoHolders DEF Init, JobInv

LEMMA JobNext == JobInv /\ [Next]_vars => JobInv'
<1> SUFFICES ASSUME JobInv, [Next]_vars PROVE JobInv'
  OBVIOUS
<1>0. TypeOK'
  BY NextType DEF JobInv
<1>1. CASE Tick \/ Stop \/ UNCHANGED vars
  <2>1. /\ UNCHANGED <<status, queue, workerVars, handlerVars, disputed>>
        /\ phase' = "down" => phase = "down"
    BY <1>1 DEF Tick, Stop, vars, rowVars, workerVars, handlerVars, historyVars
  <2>2. \A m \in Msgs : (OneHolder(m) => OneHolder(m)') /\ (HasJob(m)' => HasJob(m))
    BY <2>1, FewerHolders, SameHolders
  <2> QED BY <1>0, <2>1, <2>2 DEF JobInv
<1>2. CASE Exit \/ Crash
  <2>1. Down
    BY <1>2 DEF Exit, Crash
  <2>2. \A m \in Msgs : ~HasJob(m)' /\ OneHolder(m)'
    BY <2>1 DEF Down, HasJob, OneHolder, Slots, Running, Handling
  <2> QED BY <1>0, <2>2 DEF JobInv
<1> QED BY <1>1, <1>2, RequestJobs, TableJobs, HandlerJobs, WorkerJobs, SweepJobs, BootJobs DEF Next

LEMMA JobAlways == Spec => []JobInv
BY JobInit, JobNext, PTL DEF Spec

-----------------------------------------------------------------------------
(* What follows                                                            *)

\* Behind a settled row nothing is still running, the janitor's disputes apart
\* (enqueue, requeueJob, runJob, RecoverPending).
THEOREM SettledMeansIdle == Spec => []NoJobBehindSettledRow
<1>1. JobInv => NoJobBehindSettledRow
  BY DEF JobInv, NoJobBehindSettledRow
<1> QED BY <1>1, JobAlways, PTL

\* There is at most one job for a message, over webhooks, retries of operators
\* and recovery (enqueue, requeueJob, RecoverPending).
THEOREM AtMostOneJob == Spec => []SingleJob
<1>1. JobInv => SingleJob
  <2> SUFFICES ASSUME JobInv, NEW m \in Msgs \ disputed
               PROVE  Cardinality(Slots(m)) + Cardinality(Running(m)) + Cardinality(Handling(m)) <= 1
    BY DEF SingleJob
  <2>1. OneHolder(m)
    BY DEF JobInv
  <2>2. \A S : (\A a, b \in S : a = b) => (Cardinality(S) = 0 /\ S = {}) \/ Cardinality(S) = 1
    <3> SUFFICES ASSUME NEW S, \A a, b \in S : a = b, S # {} PROVE Cardinality(S) = 1
      BY FS_EmptySet
    <3>1. PICK a : S = {a}
      OBVIOUS
    <3> QED BY <3>1, FS_Singleton
  <2>3. /\ (Cardinality(Slots(m)) = 0 /\ Slots(m) = {}) \/ Cardinality(Slots(m)) = 1
        /\ (Cardinality(Running(m)) = 0 /\ Running(m) = {}) \/ Cardinality(Running(m)) = 1
        /\ (Cardinality(Handling(m)) = 0 /\ Handling(m) = {}) \/ Cardinality(Handling(m)) = 1
    BY <2>1, <2>2 DEF OneHolder
  <2>4. Cardinality({}) = 0
    BY FS_EmptySet
  <2> QED BY <2>1, <2>3, <2>4 DEF OneHolder
<1> QED BY <1>1, JobAlways, PTL

-----------------------------------------------------------------------------
(* The table is the ledger                                                 *)

Accepted == {m \in Msgs : delivered[m] > 0}

LedgerStep == [Ledger!LedgerNext]_<<status, Accepted, disputed>>

\* A step that leaves what the upstream accepted, and what is disputed, alone,
\* and writes at most one row as somebody may who holds its job.
LEMMA WriteIsLedger ==
  ASSUME JobInv, DeliveredInv, UNCHANGED <<delivered, disputed>>, NEW m \in Msgs,
         NEW s \in {"pending", "done", "failed"}, status' = [status EXCEPT ![m] = s],
         \/ s = "pending" /\ status[m] \in {"none", "failed"}
         \/ s = "failed" /\ HasJob(m)
         \/ s = "done" /\ HasJob(m) /\ delivered[m] > 0
  PROVE  LedgerStep
<1>1. UNCHANGED Accepted
  BY DEF Accepted
<1>2. HasJob(m) => status[m] = "pending" \/ m \in disputed
  BY DEF JobInv
<1>3. CASE s = "pending" /\ status[m] = "none"
  BY <1>1, <1>3 DEF LedgerStep, Ledger!LedgerNext, Ledger!Register, Ledger!Write, Accepted
<1>4. CASE s = "pending" /\ status[m] = "failed"
  BY <1>1, <1>4 DEF LedgerStep, Ledger!LedgerNext, Ledger!Reopen, Ledger!Write, Accepted
<1>5. CASE s = "failed"
  BY <1>1, <1>2, <1>5 DEF LedgerStep, Ledger!LedgerNext, Ledger!Fail, Ledger!Write, Accepted
<1>6. CASE s = "done"
  BY <1>1, <1>2, <1>6 DEF LedgerStep, Ledger!LedgerNext, Ledger!Complete, Ledger!Write, Accepted
<1> QED BY <1>3, <1>4, <1>5, <1>6

LEMMA AcceptIsLedger ==
  ASSUME JobInv, UNCHANGED <<status, disputed>>, NEW m \in Msgs, HasJob(m),
         UNCHANGED delivered \/ delivered' = [delivered EXCEPT ![m] = @ + 1]
  PROVE  LedgerStep
<1>1. CASE UNCHANGED delivered
  BY <1>1 DEF LedgerStep, Accepted
<1>2. CASE delivered' = [delivered EXCEPT ![m] = @ + 1]
  <2>1. Accepted' = Accepted \union {m}
    BY <1>2 DEF Accepted, JobInv, TypeOK, HistoryOK
  <2>2. status[m] # "none"
    BY DEF JobInv
  <2> QED BY <2>1, <2>2 DEF LedgerStep, Ledger!LedgerNext, Ledger!Accept, Accepted
<1> QED BY <1>1, <1>2

LEMMA RequestIsLedger ==
  ASSUME JobInv, DeliveredInv, NEW m \in Msgs,
         \/ \E h \in Handlers : Webhook(h, m) \/ AdminRetry(h, m)
         \/ WebhookErrorAfterInsert(m) \/ WebDLQRetry(m)
  PROVE  LedgerStep
<1>1. /\ UNCHANGED <<delivered, disputed>> /\ status[m] \in {"none", "failed"}
      /\ status' = [status EXCEPT ![m] = "pending"]
  BY DEF Webhook, AdminRetry, WebhookErrorAfterInsert, WebDLQRetry, InsertMessage,
         RequeueMessage, MarkStatus, historyVars
<1> QED BY <1>1, WriteIsLedger

LEMMA HandlerIsLedger ==
  ASSUME JobInv, DeliveredInv, NEW h \in Handlers, HandlerStep(h)
  PROVE  LedgerStep
<1>1. UNCHANGED <<delivered, disputed>>
  BY DEF HandlerStep, Push, QueueFull, MarkQueueFull, AdminRetryFull, historyVars
<1>2. CASE UNCHANGED status
  BY <1>1, <1>2 DEF LedgerStep, Accepted
<1>3. CASE MarkQueueFull(h) /\ ~UNCHANGED status
  <2>1. hmsg[h] \in Msgs /\ HasJob(hmsg[h])
    BY <1>3 DEF MarkQueueFull, JobInv, TypeOK, HandlersOK, HasJob, Handling
  <2>2. status' = [status EXCEPT ![hmsg[h]] = "failed"]
    BY <1>3 DEF MarkQueueFull, MarkStatus
  <2> QED BY <1>1, <2>1, <2>2, WriteIsLedger
<1> QED BY <1>2, <1>3 DEF HandlerStep, Push, QueueFull, AdminRetryFull, rowVars

LEMMA WorkerIsLedger ==
  ASSUME JobInv, DeliveredInv, NEW w \in Workers, WorkerStep(w)
  PROVE  LedgerStep
<1>1. CASE Take(w)
  BY <1>1 DEF Take, LedgerStep, Accepted, rowVars, historyVars
<1>2. CASE ~Take(w)
  <2>1. wjob[w] \in Msgs /\ HasJob(wjob[w]) /\ UNCHANGED disputed
    BY <1>2, WorkerKeeps DEF JobInv, HasJob
  <2>2. CASE Attempt(w) \/ CallReturns(w) \/ Cancelled(w)
    <3>1. UNCHANGED status
      BY <2>2 DEF CallReturns, Attempt, CallSucceeds, CallFatal, CallFails, Cancelled, rowVars
    <3>2. UNCHANGED delivered \/ delivered' = [delivered EXCEPT ![wjob[w]] = @ + 1]
      BY <2>2 DEF CallReturns, Attempt, CallSucceeds, CallFatal, CallFails, ReplyLost, Cancelled,
                  historyVars
    <3> QED BY <2>1, <3>1, <3>2, AcceptIsLedger
  <2>3. CASE MarkDone(w) \/ MarkFailed(w)
    <3>1. UNCHANGED delivered
      BY <2>3 DEF MarkDone, MarkFailed, historyVars
    <3>2. CASE UNCHANGED status
      BY <2>1, <3>1, <3>2 DEF LedgerStep, Accepted
    <3>3. CASE status' = [status EXCEPT ![wjob[w]] = "done"] /\ MarkDone(w)
      <4>1. delivered[wjob[w]] > 0
        BY <3>3 DEF MarkDone, DeliveredInv, AcceptedBeforeMark
      <4> QED BY <2>1, <3>1, <3>3, <4>1, WriteIsLedger
    <3>4. CASE status' = [status EXCEPT ![wjob[w]] = "failed"]
      BY <2>1, <3>1, <3>4, WriteIsLedger
    <3> QED BY <2>3, <3>2, <3>3, <3>4 DEF MarkDone, MarkFailed, WorkerMark, MarkStatus
  <2> QED BY <1>2, <2>2, <2>3 DEF WorkerStep
<1> QED BY <1>1, <1>2

LEMMA ProcessIsLedger ==
  ASSUME JobInv, Tick \/ SweepStale \/ Boot \/ Stop \/ Exit \/ Crash
  PROVE  LedgerStep
<1>1. CASE Tick \/ Boot \/ Stop
  BY <1>1 DEF Tick, Boot, Stop, LedgerStep, Accepted, rowVars, historyVars
<1>2. CASE Exit \/ Crash
  BY <1>2 DEF Exit, Crash, Down, LedgerStep, Accepted, Ledger!LedgerNext, Ledger!Restart, rowVars
<1>3. CASE SweepStale
  <2> DEFINE swept == {m \in Msgs : Stale(m)}
  <2>1. /\ UNCHANGED Accepted
        /\ status' = [m \in Msgs |-> IF m \in swept THEN "failed" ELSE status[m]]
        /\ disputed' = disputed \union {m \in swept : HasJob(m)}
    BY <1>3 DEF SweepStale, Accepted
  <2>2. swept \in SUBSET Msgs /\ \A m \in swept : status[m] = "pending"
    BY DEF Stale
  <2>3. Ledger!Expire(swept)
    <3> HIDE DEF swept
    <3> QED BY <2>1, <2>2 DEF Ledger!Expire, Accepted
  <2> QED BY <2>2, <2>3 DEF LedgerStep, Ledger!LedgerNext
<1> QED BY <1>1, <1>2, <1>3

LEMMA NextIsLedger == JobInv /\ DeliveredInv /\ [Next]_vars => LedgerStep
<1> SUFFICES ASSUME JobInv, DeliveredInv, [Next]_vars PROVE LedgerStep
  OBVIOUS
<1>1. CASE UNCHANGED vars
  BY <1>1 DEF vars, LedgerStep, Accepted
<1> QED BY <1>1, RequestIsLedger, HandlerIsLedger, WorkerIsLedger, ProcessIsLedger DEF Next

LEMMA DeliveredAlways == Spec => []DeliveredInv
<1>1. Init => DeliveredInv
  BY InitType DEF Init, DeliveredInv, DoneMeansDelivered, AcceptedBeforeMark
<1> QED BY <1>1, DeliveredStep, PTL DEF Spec

\* Whatever goroutines, the janitor, operators and restarts do, a reader of the
\* table sees the ledger of MessageLedger.
THEOREM TableIsLedger == Spec => ImplementsLedger
<1>1. Init => Ledger!LedgerInit
  BY DEF Init, Ledger!LedgerInit
<1>2. JobInv /\ DeliveredInv /\ [Next]_vars => [Ledger!LedgerNext]_(Ledger!ledgerVars)
  BY NextIsLedger DEF LedgerStep, Ledger!ledgerVars, Accepted
<1> QED BY <1>1, <1>2, JobAlways, DeliveredAlways, PTL DEF Spec, ImplementsLedger, Ledger!LedgerSpec

\* Only the marks of requests and workers take a done row, and they take it to failed.
LEMMA WhoTakesDone ==
  ASSUME JobInv, [Next]_vars, NEW m \in Msgs, status[m] = "done", status'[m] # "done"
  PROVE  status'[m] = "failed" /\ LateMark(m) /\ HasJob(m)
<1> USE DEF JobInv, TypeOK, RowsOK
<1>1. CASE UNCHANGED status
  BY <1>1
<1>2. ASSUME NEW x \in Msgs,
             \/ \E h \in Handlers : Webhook(h, x) \/ AdminRetry(h, x)
             \/ WebhookErrorAfterInsert(x) \/ WebDLQRetry(x)
      PROVE  FALSE
  <2>1. status[x] # "done" /\ status' = [status EXCEPT ![x] = "pending"]
    BY <1>2 DEF Webhook, AdminRetry, WebhookErrorAfterInsert, WebDLQRetry, InsertMessage,
                RequeueMessage, MarkStatus
  <2> QED BY <2>1
<1>3. CASE SweepStale
  BY <1>3 DEF SweepStale, Stale
<1>4. ASSUME NEW h \in Handlers, MarkQueueFull(h)
      PROVE  status'[m] = "failed" /\ LateMark(m) /\ HasJob(m)
  <2>1. hpc[h] = "full" /\ hmsg[h] = m /\ status'[m] = "failed"
    BY <1>4 DEF MarkQueueFull, MarkStatus
  <2>2. hpc'[h] = "idle"
    BY <1>4 DEF MarkQueueFull, End, HandlersOK
  <2> QED BY <2>1, <2>2 DEF LateMark, HasJob, Handling
<1>5. ASSUME NEW w \in Workers, MarkDone(w) \/ MarkFailed(w)
      PROVE  status'[m] = "failed" /\ LateMark(m) /\ HasJob(m)
  <2>1. MarkFailed(w) /\ wpc[w] = "mark_failed" /\ wjob[w] = m /\ status'[m] = "failed"
    BY <1>5 DEF MarkDone, MarkFailed, WorkerMark, MarkStatus
  <2>2. wpc'[w] = "idle"
    BY <2>1 DEF MarkFailed, Finish, WorkersOK
  <2> QED BY <2>1, <2>2 DEF LateMark, HasJob, Running
<1>6. ASSUME NEW h \in Handlers, HandlerStep(h), ~MarkQueueFull(h) PROVE UNCHANGED status
  BY <1>6 DEF HandlerStep, Push, QueueFull, AdminRetryFull, rowVars
<1>7. ASSUME NEW w \in Workers, WorkerStep(w), ~(MarkDone(w) \/ MarkFailed(w))
      PROVE  UNCHANGED status
  BY <1>7 DEF WorkerStep, Take, Attempt, CallReturns, CallSucceeds, CallFails, CallFatal, Cancelled,
              rowVars
<1>8. CASE Tick \/ Boot \/ Stop \/ Exit \/ Crash
  BY <1>1, <1>8 DEF Tick, Boot, Stop, Exit, Crash, Down, rowVars
<1> QED BY <1>1, <1>2, <1>3, <1>4, <1>5, <1>6, <1>7, <1>8 DEF Next, vars

\* A done row changes only by a late mark for a message whose row the janitor failed
\* under a live job, and then to failed; it is never made pending (MarkStatus,
\* RequeueMessage, SweepStale).
THEOREM DoneStaysDone == Spec => DoneIsFinal
<1>1. JobInv /\ [Next]_vars
        => [\A m \in Msgs : status[m] = "done" /\ status'[m] # "done" =>
              m \in disputed /\ status'[m] = "failed" /\ LateMark(m)]_vars
  BY WhoTakesDone DEF JobInv
<1> QED BY <1>1, JobAlways, PTL DEF Spec, DoneIsFinal

-----------------------------------------------------------------------------
(* The attempts an operator sees                                           *)

\* Between two attempts the counter is at least what has failed.
AttemptsInv ==
  faults = 0 =>
    \A w \in Workers : wjob[w] \in Msgs \ disputed =>
      /\ wpc[w] = "ready" => attempts[wjob[w]] >= tries[w]
      /\ wpc[w] = "calling" => attempts[wjob[w]] > tries[w]

LEMMA AttemptsStep == JobInv /\ AttemptsInv /\ [Next]_vars => AttemptsInv'
<1> SUFFICES ASSUME JobInv, AttemptsInv, [Next]_vars, faults' = 0 PROVE AttemptsInv'
  BY DEF AttemptsInv
<1> USE DEF AttemptsInv, JobInv, TypeOK, RowsOK, WorkersOK
<1>1. ASSUME UNCHANGED <<faults, workerVars>>, disputed \subseteq disputed',
             \A m \in Msgs \ disputed : attempts'[m] = attempts[m] \/ ~HasJob(m)
      PROVE  AttemptsInv'
  BY <1>1 DEF workerVars, HasJob, Running
<1>2. ASSUME NEW m \in Msgs,
             \/ \E h \in Handlers : Webhook(h, m) \/ AdminRetry(h, m)
             \/ WebDLQRetry(m)
      PROVE  AttemptsInv'
  <2>1. /\ UNCHANGED <<faults, workerVars, disputed>> /\ status[m] \in {"none", "failed"}
        /\ UNCHANGED attempts \/ attempts' = [attempts EXCEPT ![m] = 0]
    BY <1>2 DEF Webhook, AdminRetry, WebDLQRetry, InsertMessage, RequeueMessage, historyVars
  <2> QED BY <1>1, <2>1
<1>3. ASSUME NEW h \in Handlers, HandlerStep(h) PROVE AttemptsInv'
  <2>1. UNCHANGED <<workerVars, disputed, attempts>> /\ (faults' = faults \/ DBError)
    BY <1>3 DEF HandlerStep, Push, QueueFull, MarkQueueFull, AdminRetryFull, historyVars, rowVars
  <2> QED BY <1>1, <2>1 DEF DBError, ProcessOK
<1>4. ASSUME NEW w \in Workers, WorkerStep(w) PROVE AttemptsInv'
  <2>1. UNCHANGED <<faults, disputed>>
    <3>1. UNCHANGED disputed /\ (faults' = faults \/ DBError)
      BY <1>4 DEF WorkerStep, CallReturns, Take, Attempt, CallSucceeds, CallFatal, CallFails,
                  ReplyLost, Cancelled, MarkDone, MarkFailed, WorkerMark, historyVars
    <3> QED BY <3>1 DEF DBError, ProcessOK
  <2>2. CASE Attempt(w)
    <3>1. /\ wpc[w] = "ready" /\ attempts' = [attempts EXCEPT ![wjob[w]] = Incremented(@)]
          /\ wpc' = [wpc EXCEPT ![w] = "calling"] /\ UNCHANGED <<wjob, tries>>
      BY <2>1, <2>2 DEF Attempt, DBError, GoTo, ProcessOK
    <3>2. wjob[w] \in Msgs
      BY <3>1
    <3>3. \A m \in Msgs : attempts'[m] >= attempts[m]
      BY <3>1, <3>2 DEF Incremented
    <3>4. wjob[w] \notin disputed => attempts'[wjob[w]] > tries[w]
      BY <2>1, <3>1, <3>2 DEF Incremented
    <3>5. ASSUME NEW v \in Workers, wjob'[v] \in Msgs \ disputed'
          PROVE  /\ wpc'[v] = "ready" => attempts'[wjob'[v]] >= tries'[v]
                 /\ wpc'[v] = "calling" => attempts'[wjob'[v]] > tries'[v]
      <4>1. CASE v = w
        BY <2>1, <3>1, <3>4, <3>5, <4>1
      <4>2. CASE v # w
        <5>1. wpc'[v] = wpc[v] /\ wjob[v] \in Msgs \ disputed /\ tries[v] \in Nat
          BY <2>1, <3>1, <3>5, <4>2
        <5>2. attempts'[wjob[v]] >= attempts[wjob[v]] /\ attempts[wjob[v]] \in Nat
          BY <3>3, <5>1
        <5>3. attempts'[wjob[v]] \in Nat
          BY <3>1, <3>2, <5>1 DEF Incremented
        <5> QED BY <2>1, <3>1, <5>1, <5>2, <5>3
      <4> QED BY <4>1, <4>2
    <3> QED BY <3>5
  <2>3. CASE ~Attempt(w)
    <3>1. UNCHANGED attempts
      BY <1>4, <2>3 DEF WorkerStep, CallReturns, Take, CallSucceeds, CallFatal, CallFails,
                        Cancelled, MarkDone, MarkFailed, rowVars
    <3>2. \A v \in Workers \ {w} : UNCHANGED <<wpc[v], wjob[v], tries[v]>>
      BY <1>4, <2>3 DEF WorkerStep, CallReturns, Take, CallSucceeds, CallFatal, CallFails,
                        Exhausted, Cancelled, MarkDone, MarkFailed, Finish, GoTo
    <3>3. \/ wpc'[w] \notin {"ready", "calling"}
          \/ wpc'[w] = "ready" /\ tries'[w] = 0 /\ wjob'[w] \in Msgs
          \/ /\ wpc[w] = "calling" /\ wpc'[w] = "ready"
             /\ wjob'[w] = wjob[w] /\ tries'[w] = tries[w] + 1
      <4>1. Take(w) => wpc'[w] = "ready" /\ tries'[w] = 0
        BY DEF Take
      <4>2. ASSUME NEW err \in {"error", "timeout"}, NEW accepted \in BOOLEAN,
                   CallFails(w, err, accepted)
            PROVE  \/ wpc'[w] \notin {"ready", "calling"}
                   \/ /\ wpc[w] = "calling" /\ wpc'[w] = "ready"
                      /\ wjob'[w] = wjob[w] /\ tries'[w] = tries[w] + 1
        BY <4>2 DEF CallFails, Exhausted, Finish, GoTo
      <4>3. CallSucceeds(w) \/ CallFatal(w) \/ Cancelled(w) \/ MarkDone(w) \/ MarkFailed(w)
              => wpc'[w] \notin {"ready", "calling"}
        BY DEF CallSucceeds, CallFatal, Cancelled, MarkDone, MarkFailed, Finish, GoTo
      <4>4. TypeOK'
        BY NextType
      <4> QED BY <1>4, <2>3, <4>1, <4>2, <4>3, <4>4 DEF WorkerStep, CallReturns
    <3>4. \A m \in Msgs : attempts[m] \in Nat
      OBVIOUS
    <3>5. \A v \in Workers : tries[v] \in Nat
      OBVIOUS
    <3> QED BY <2>1, <3>1, <3>2, <3>3, <3>4, <3>5
  <2> QED BY <2>2, <2>3
<1>5. ASSUME NEW m \in Msgs, WebhookErrorAfterInsert(m) PROVE AttemptsInv'
  BY <1>5 DEF WebhookErrorAfterInsert, DBError, ProcessOK
<1>6. CASE Tick \/ SweepStale \/ Boot \/ Stop \/ UNCHANGED vars
  <2>1. /\ UNCHANGED <<workerVars, attempts>> /\ disputed \subseteq disputed'
        /\ faults' = faults \/ DBError
    BY <1>6 DEF Tick, SweepStale, Boot, Stop, vars, rowVars, workerVars, historyVars
  <2> QED BY <1>1, <2>1 DEF DBError, ProcessOK
<1>7. CASE Exit \/ Crash
  BY <1>7 DEF Exit, Crash, Down
<1> QED BY <1>2, <1>3, <1>4, <1>5, <1>6, <1>7 DEF Next

\* The counter an operator sees is never behind what the job has tried, as long
\* as every update of it worked (runRetryLoop, IncrementAttempts).
THEOREM AttemptsAreCounted == Spec => []AttemptsCoverTries
<1>1. Init => AttemptsInv
  BY DEF Init, AttemptsInv
<1>2. JobInv /\ AttemptsInv => AttemptsCoverTries
  BY DEF JobInv, TypeOK, WorkersOK, AttemptsInv, AttemptsCoverTries
<1> QED BY <1>1, <1>2, AttemptsStep, JobAlways, PTL DEF Spec

-----------------------------------------------------------------------------
(* Deliveries                                                              *)

\* Workers that may still send the message.
Open(m) == {w \in Running(m) : wpc[w] \in {"ready", "calling"}}

\* Deliveries the jobs at hand may still make, one each.
Work(m) == Cardinality(Slots(m)) + Cardinality(Handling(m)) + Cardinality(Open(m))

\* What was delivered and what still may be has a first job and the excuses to
\* account for it, disputes included; nothing is delivered before there is a row.
BudgetInv ==
  \A m \in Msgs : /\ Work(m) + delivered[m] <= 1 + excuse[m]
                  /\ status[m] = "none" => delivered[m] = 0

LEMMA HoldersFinite ==
  ASSUME TypeOK, NEW m \in Msgs
  PROVE  /\ IsFiniteSet(Slots(m)) /\ IsFiniteSet(Handling(m)) /\ IsFiniteSet(Open(m))
         /\ Cardinality(Slots(m)) \in Nat /\ Cardinality(Handling(m)) \in Nat
         /\ Cardinality(Open(m)) \in Nat /\ Work(m) \in Nat
<1>1. DirOf[m] \in Directions /\ queue[DirOf[m]] \in Seq(Msgs)
  BY DEF TypeOK, QueuesOK
<1>2. /\ Slots(m) \subseteq 1..Len(queue[DirOf[m]])
      /\ Handling(m) \subseteq Handlers /\ Open(m) \subseteq Workers
  BY <1>1 DEF Slots, Handling, Open, Running
<1>3. IsFiniteSet(1..Len(queue[DirOf[m]]))
  BY <1>1, FS_Interval
<1>4. IsFiniteSet(Slots(m)) /\ IsFiniteSet(Handling(m)) /\ IsFiniteSet(Open(m))
  BY <1>2, <1>3, FiniteAssumption, FS_Subset
<1> QED BY <1>4, FS_CardinalityType DEF Work

LEMMA LessWork ==
  ASSUME TypeOK, NEW m \in Msgs,
         Slots(m)' \subseteq Slots(m), Handling(m)' \subseteq Handling(m),
         Open(m)' \subseteq Open(m)
  PROVE  Work(m)' \in Nat /\ Work(m)' <= Work(m)
<1>1. /\ IsFiniteSet(Slots(m)') /\ Cardinality(Slots(m)') <= Cardinality(Slots(m))
      /\ IsFiniteSet(Handling(m)') /\ Cardinality(Handling(m)') <= Cardinality(Handling(m))
      /\ IsFiniteSet(Open(m)') /\ Cardinality(Open(m)') <= Cardinality(Open(m))
  BY HoldersFinite, FS_Subset
<1>2. /\ Cardinality(Slots(m)') \in Nat /\ Cardinality(Handling(m)') \in Nat
      /\ Cardinality(Open(m)') \in Nat
  BY <1>1, FS_CardinalityType
<1> QED BY <1>1, <1>2, HoldersFinite DEF Work

\* The workers that may still send depend on the workers alone.
LEMMA SameOpen ==
  ASSUME NEW m \in Msgs, UNCHANGED workerVars
  PROVE  Open(m)' = Open(m)
BY DEF Open, Running, workerVars

\* A step that sends nothing and only takes jobs away.
LEMMA FrameBudget ==
  ASSUME JobInv, BudgetInv, UNCHANGED delivered,
         \A m \in Msgs :
           /\ Slots(m)' \subseteq Slots(m) /\ Handling(m)' \subseteq Handling(m)
           /\ Open(m)' \subseteq Open(m)
           /\ excuse'[m] \in Nat /\ excuse'[m] >= excuse[m]
           /\ status[m] # "none" => status'[m] # "none"
  PROVE  BudgetInv'
<1> SUFFICES ASSUME NEW m \in Msgs
             PROVE  /\ Work(m)' + delivered'[m] <= 1 + excuse'[m]
                    /\ status'[m] = "none" => delivered'[m] = 0
  BY DEF BudgetInv
<1>1. Work(m)' \in Nat /\ Work(m)' <= Work(m) /\ Work(m) \in Nat
  BY LessWork, HoldersFinite DEF JobInv
<1>2. delivered[m] \in Nat /\ excuse[m] \in Nat
  BY DEF JobInv, TypeOK, HistoryOK
<1> QED BY <1>1, <1>2 DEF BudgetInv

LEMMA RequestBudget ==
  ASSUME JobInv, BudgetInv, NEW h \in Handlers, NEW x \in Msgs,
         Webhook(h, x) \/ AdminRetry(h, x)
  PROVE  BudgetInv'
<1>1. /\ UNCHANGED <<queue, workerVars, delivered>> /\ hpc[h] = "idle"
      /\ status' = [status EXCEPT ![x] = "pending"]
      /\ \E step \in HandlerSteps \ {"idle"} : Begin(h, x, step)
      /\ \/ status[x] = "none" /\ UNCHANGED excuse
         \/ excuse' = [excuse EXCEPT ![x] = @ + 1]
  BY DEF Webhook, AdminRetry, InsertMessage, RequeueMessage, MarkStatus, Begin, HandlerSteps,
         historyVars
<1>2. \A m \in Msgs : status'[m] = IF m = x THEN "pending" ELSE status[m]
  BY <1>1 DEF JobInv, TypeOK, RowsOK
<1> SUFFICES ASSUME NEW m \in Msgs
             PROVE  /\ Work(m)' + delivered'[m] <= 1 + excuse'[m]
                    /\ status'[m] = "none" => delivered'[m] = 0
  BY DEF BudgetInv
<1>3. /\ Slots(m)' = Slots(m) /\ Open(m)' = Open(m)
      /\ Handling(m)' = IF m = x THEN Handling(m) \union {h} ELSE Handling(m)
  BY <1>1, SameHolders, SameOpen, BeginHolds DEF JobInv
<1>4. /\ delivered[m] \in Nat /\ excuse[m] \in Nat /\ Work(m) \in Nat
      /\ Work(m) + delivered[m] <= 1 + excuse[m] /\ (status[m] = "none" => delivered[m] = 0)
  BY HoldersFinite DEF JobInv, TypeOK, HistoryOK, BudgetInv
<1>5. CASE m # x
  <2>1. Work(m)' = Work(m) /\ excuse'[m] = excuse[m]
    BY <1>1, <1>3, <1>5 DEF Work, JobInv, TypeOK, HistoryOK
  <2> QED BY <1>1, <1>2, <1>4, <1>5, <2>1
<1>6. CASE m = x
  <2>1. Cardinality(Handling(m)') = Cardinality(Handling(m)) + 1
    <3>1. h \notin Handling(m)
      BY <1>1 DEF Handling
    <3>2. IsFiniteSet(Handling(m))
      BY HoldersFinite DEF JobInv
    <3>3. Cardinality(Handling(m) \union {h}) = Cardinality(Handling(m)) + 1
      BY <3>1, <3>2, FS_AddElement
    <3> QED BY <1>3, <1>6, <3>3
  <2>2. Work(m)' = Work(m) + 1
    BY <1>3, <2>1, HoldersFinite DEF Work, JobInv
  <2>3. status'[m] = "pending"
    BY <1>2, <1>6
  <2>4. CASE status[x] = "none" /\ UNCHANGED excuse
    <3>1. Slots(m) = {} /\ Handling(m) = {} /\ Running(m) = {}
      BY <1>6, <2>4 DEF JobInv, HasJob
    <3>2. Work(m) = 0
      BY <3>1, FS_EmptySet DEF Work, Open
    <3> QED BY <1>1, <1>4, <1>6, <2>2, <2>3, <2>4, <3>2
  <2>5. CASE excuse' = [excuse EXCEPT ![x] = @ + 1]
    <3>1. excuse'[m] = excuse[m] + 1
      BY <1>6, <2>5 DEF JobInv, TypeOK, HistoryOK
    <3> QED BY <1>1, <1>4, <2>2, <2>3, <3>1
  <2> QED BY <1>1, <2>4, <2>5
<1> QED BY <1>5, <1>6

LEMMA HandlerBudget ==
  ASSUME JobInv, BudgetInv, NEW h \in Handlers, HandlerStep(h)
  PROVE  BudgetInv'
<1>1. UNCHANGED <<workerVars, delivered, excuse>> /\ hpc[h] # "idle" /\ hmsg[h] \in Msgs
  BY DEF HandlerStep, Push, QueueFull, MarkQueueFull, AdminRetryFull, historyVars,
         JobInv, TypeOK, HandlersOK
<1>2. \A m \in Msgs : status[m] # "none" => status'[m] # "none"
  BY <1>1 DEF HandlerStep, Push, QueueFull, MarkQueueFull, AdminRetryFull, rowVars, MarkStatus,
              JobInv, TypeOK, RowsOK
<1>3. \A m \in Msgs : excuse[m] \in Nat /\ delivered[m] \in Nat
  BY DEF JobInv, TypeOK, HistoryOK
<1>4. CASE Push(h)
  <2> SUFFICES ASSUME NEW m \in Msgs
               PROVE  /\ Work(m)' + delivered'[m] <= 1 + excuse'[m]
                      /\ status'[m] = "none" => delivered'[m] = 0
    BY DEF BudgetInv
  <2>1. Handling(m)' = Handling(m) \ {h} /\ Open(m)' = Open(m)
    BY <1>1, <1>4, EndReleases, SameOpen DEF Push, JobInv
  <2>2. CASE m # hmsg[h]
    <3>1. Slots(m)' = Slots(m)
      BY <1>4, <2>2, PushSlots DEF JobInv
    <3>2. Work(m)' \in Nat /\ Work(m)' <= Work(m) /\ Work(m) \in Nat
      BY <2>1, <3>1, LessWork, HoldersFinite DEF JobInv
    <3> QED BY <1>1, <1>2, <1>3, <3>2 DEF BudgetInv
  <2>3. CASE m = hmsg[h]
    <3>1. h \in Handling(m)
      BY <1>1, <2>3 DEF Handling
    <3>2. /\ Cardinality(Handling(m)') = Cardinality(Handling(m)) - 1
          /\ Cardinality(Handling(m)') \in Nat
      <4>1. IsFiniteSet(Handling(m))
        BY HoldersFinite DEF JobInv
      <4>2. /\ Cardinality(Handling(m) \ {h}) = Cardinality(Handling(m)) - 1
            /\ IsFiniteSet(Handling(m) \ {h})
        BY <3>1, <4>1, FS_RemoveElement
      <4>3. Cardinality(Handling(m) \ {h}) \in Nat
        BY <4>2, FS_CardinalityType
      <4> QED BY <2>1, <4>2, <4>3
    <3> DEFINE next == Len(queue[DirOf[m]]) + 1
    <3>3. Slots(m)' \subseteq Slots(m) \union {next}
      BY <1>4, <2>3, PushSlots DEF JobInv
    <3> HIDE DEF next
    <3>4. /\ IsFiniteSet(Slots(m) \union {next})
          /\ Cardinality(Slots(m) \union {next}) \in Nat
          /\ Cardinality(Slots(m) \union {next}) <= Cardinality(Slots(m)) + 1
      <4>1. IsFiniteSet(Slots(m)) /\ Cardinality(Slots(m)) \in Nat
        BY HoldersFinite DEF JobInv
      <4>2. /\ IsFiniteSet(Slots(m) \union {next})
            /\ \/ Cardinality(Slots(m) \union {next}) = Cardinality(Slots(m))
               \/ Cardinality(Slots(m) \union {next}) = Cardinality(Slots(m)) + 1
        BY <4>1, FS_AddElement
      <4> QED BY <4>1, <4>2
    <3>5. /\ Cardinality(Slots(m)') \in Nat
          /\ Cardinality(Slots(m)') <= Cardinality(Slots(m) \union {next})
      BY <3>3, <3>4, FS_Subset, FS_CardinalityType
    <3>6. Cardinality(Slots(m)') <= Cardinality(Slots(m)) + 1
      BY <3>4, <3>5, HoldersFinite DEF JobInv
    <3>7. Work(m)' \in Nat /\ Work(m)' <= Work(m)
      <4>1. /\ Cardinality(Slots(m)) \in Nat /\ Cardinality(Handling(m)) \in Nat
            /\ Cardinality(Open(m)) \in Nat
        BY HoldersFinite DEF JobInv
      <4> QED BY <2>1, <3>2, <3>5, <3>6, <4>1 DEF Work
    <3>8. Work(m) \in Nat
      BY HoldersFinite DEF JobInv
    <3> QED BY <1>1, <1>2, <1>3, <3>7, <3>8 DEF BudgetInv
  <2> QED BY <2>2, <2>3
<1>5. CASE QueueFull(h) \/ MarkQueueFull(h) \/ AdminRetryFull(h)
  <2>1. UNCHANGED queue
    BY <1>5 DEF QueueFull, MarkQueueFull, AdminRetryFull
  <2>2. \A m \in Msgs : Handling(m)' \subseteq Handling(m)
    <3>1. CASE QueueFull(h)
      BY <3>1 DEF QueueFull, Handling, JobInv, TypeOK, HandlersOK
    <3>2. CASE MarkQueueFull(h) \/ AdminRetryFull(h)
      BY <3>2, EndReleases DEF MarkQueueFull, AdminRetryFull, JobInv
    <3> QED BY <1>5, <3>1, <3>2
  <2>3. \A m \in Msgs : Slots(m)' = Slots(m) /\ Open(m)' = Open(m)
    BY <1>1, <2>1, SameHolders, SameOpen
  <2> QED BY <1>1, <1>2, <1>3, <2>2, <2>3, FrameBudget
<1> QED BY <1>4, <1>5 DEF HandlerStep

LEMMA TakeBudget ==
  ASSUME JobInv, BudgetInv, NEW w \in Workers, Take(w)
  PROVE  BudgetInv'
<1>1. UNCHANGED <<status, handlerVars, delivered, excuse>>
  BY DEF Take, rowVars, historyVars
<1>2. PICK x \in Msgs :
           /\ 1 \in Slots(x)
           /\ \A m \in Msgs :
                /\ \A i \in Slots(m)' : i \in Nat \ {0}
                /\ DirOf[m] = DirOf[x] => \A i \in Slots(m)' : i + 1 \in Slots(m)
                /\ DirOf[m] # DirOf[x] => Slots(m)' = Slots(m)
                /\ Running(m)' = IF m = x THEN Running(m) \union {w} ELSE Running(m)
  BY TakeMoves DEF JobInv
<1> SUFFICES ASSUME NEW m \in Msgs
             PROVE  Work(m)' \in Nat /\ Work(m)' <= Work(m)
  <2>1. \A m \in Msgs : Work(m) \in Nat /\ delivered[m] \in Nat /\ excuse[m] \in Nat
    BY HoldersFinite DEF JobInv, TypeOK, HistoryOK
  <2> QED BY <1>1, <2>1 DEF BudgetInv
<1>3. Handling(m)' = Handling(m)
  BY <1>1, SameHolders
<1>4. /\ IsFiniteSet(Slots(m)) /\ IsFiniteSet(Open(m))
      /\ Cardinality(Slots(m)) \in Nat /\ Cardinality(Handling(m)) \in Nat
      /\ Cardinality(Open(m)) \in Nat
  BY HoldersFinite DEF JobInv
<1>5. Open(m)' \subseteq IF m = x THEN Open(m) \union {w} ELSE Open(m)
  BY <1>2 DEF Take, Open, Running, JobInv, TypeOK, WorkersOK
<1>6. CASE DirOf[m] # DirOf[x]
  BY <1>2, <1>3, <1>5, <1>6, LessWork DEF JobInv
<1>7. CASE DirOf[m] = DirOf[x]
  <2>1. /\ IsFiniteSet(Slots(m) \ {1})
        /\ Cardinality(Slots(m) \ {1}) \in Nat /\ Cardinality(Slots(m) \ {1}) <= Cardinality(Slots(m))
        /\ m = x => Cardinality(Slots(m) \ {1}) = Cardinality(Slots(m)) - 1
    <3>1. IsFiniteSet(Slots(m) \ {1})
      BY <1>4, FS_RemoveElement
    <3>2. Cardinality(Slots(m) \ {1}) \in Nat
      BY <3>1, FS_CardinalityType
    <3>3. Cardinality(Slots(m) \ {1})
            = IF 1 \in Slots(m) THEN Cardinality(Slots(m)) - 1 ELSE Cardinality(Slots(m))
      BY <1>4, FS_RemoveElement
    <3> QED BY <1>2, <1>4, <3>1, <3>2, <3>3
  <2>2. /\ IsFiniteSet(Slots(m)')
        /\ Cardinality(Slots(m)') <= Cardinality(Slots(m) \ {1})
    <3> DEFINE S == Slots(m)'
               T == Slots(m) \ {1}
               f == [i \in S |-> i + 1]
    <3>1. \A i \in S : i \in Nat \ {0} /\ i + 1 \in T
      BY <1>2, <1>7
    <3> HIDE DEF S, T
    <3>2. f \in [S -> T] /\ \A i, j \in S : f[i] = f[j] => i = j
      BY <3>1
    <3>3. f \in Injection(S, T)
      BY <3>2 DEF Injection, IsInjective
    <3>4. IsFiniteSet(T)
      BY <2>1 DEF T
    <3>5. IsFiniteSet(S) /\ Cardinality(S) <= Cardinality(T)
      BY <3>3, <3>4, FS_Injection
    <3> QED BY <3>5 DEF S, T
  <2>3. Cardinality(Slots(m)') \in Nat
    BY <2>2, FS_CardinalityType
  <2>4. /\ IsFiniteSet(Open(m) \union {w}) /\ Cardinality(Open(m) \union {w}) \in Nat
        /\ Cardinality(Open(m) \union {w}) <= Cardinality(Open(m)) + 1
    <3>1. /\ IsFiniteSet(Open(m) \union {w})
          /\ \/ Cardinality(Open(m) \union {w}) = Cardinality(Open(m))
             \/ Cardinality(Open(m) \union {w}) = Cardinality(Open(m)) + 1
      BY <1>4, FS_AddElement
    <3> QED BY <1>4, <3>1
  <2>5. CASE m = x
    <3>1. Cardinality(Open(m)') \in Nat /\ Cardinality(Open(m)') <= Cardinality(Open(m) \union {w})
      BY <1>5, <2>4, <2>5, FS_Subset, FS_CardinalityType
    <3> QED BY <1>3, <1>4, <2>1, <2>2, <2>3, <2>4, <2>5, <3>1 DEF Work
  <2>6. CASE m # x
    <3>1. Cardinality(Open(m)') \in Nat /\ Cardinality(Open(m)') <= Cardinality(Open(m))
      BY <1>4, <1>5, <2>6, FS_Subset, FS_CardinalityType
    <3> QED BY <1>3, <1>4, <2>1, <2>2, <2>3, <3>1 DEF Work
  <2> QED BY <2>5, <2>6
<1> QED BY <1>6, <1>7

\* A worker whose message the upstream accepted sends it no more, unless the
\* reply was lost.
LEMMA WorkerBudget ==
  ASSUME JobInv, BudgetInv, NEW w \in Workers, WorkerStep(w)
  PROVE  BudgetInv'
<1> SUFFICES ASSUME ~Take(w) PROVE BudgetInv'
  BY TakeBudget
<1> DEFINE x == wjob[w]
<1>1. /\ wpc[w] # "idle" /\ x \in Msgs /\ w \in Running(x)
      /\ UNCHANGED <<queue, handlerVars>>
  BY WorkerKeeps DEF JobInv
<1>2. \A m \in Msgs : status[m] # "none" => status'[m] # "none"
  <2>1. UNCHANGED status \/ \E s \in {"done", "failed"} : status' = [status EXCEPT ![x] = s]
    BY WorkerKeeps DEF JobInv
  <2> QED BY <1>1, <2>1 DEF JobInv, TypeOK, RowsOK
<1>3. \A m \in Msgs : Slots(m)' = Slots(m) /\ Handling(m)' = Handling(m)
  BY <1>1, SameHolders
<1>4. \A m \in Msgs : Open(m)' \subseteq Open(m)
  <2>1. \A m \in Msgs : Running(m)' \subseteq Running(m)
    BY WorkerKeeps DEF JobInv
  <2>2. \A v \in Workers \ {w} : wpc'[v] = wpc[v]
    <3>1. wpc' = [wpc EXCEPT ![w] = wpc'[w]]
      BY DEF WorkerStep, CallReturns, Attempt, CallSucceeds, CallFatal, CallFails, Exhausted,
             Cancelled, MarkDone, MarkFailed, Finish, GoTo, JobInv, TypeOK, WorkersOK
    <3> QED BY <3>1 DEF JobInv, TypeOK, WorkersOK
  <2>3. wpc[w] \in {"ready", "calling"} \/ wpc'[w] \notin {"ready", "calling"}
    BY DEF WorkerStep, CallReturns, Attempt, CallSucceeds, CallFatal, CallFails, Exhausted,
           Cancelled, MarkDone, MarkFailed, Finish, GoTo, JobInv, TypeOK, WorkersOK
  <2> SUFFICES ASSUME NEW m \in Msgs, NEW v \in Open(m)' PROVE v \in Open(m)
    OBVIOUS
  <2>4. v \in Workers /\ v \in Running(m) /\ wpc'[v] \in {"ready", "calling"}
    BY <2>1 DEF Open, Running
  <2> QED BY <2>2, <2>3, <2>4 DEF Open
<1>5. \A m \in Msgs : excuse[m] \in Nat /\ delivered[m] \in Nat
  BY DEF JobInv, TypeOK, HistoryOK
<1>6. CASE UNCHANGED <<delivered, excuse>>
  BY <1>2, <1>3, <1>4, <1>5, <1>6, FrameBudget
<1>7. ASSUME delivered' = [delivered EXCEPT ![x] = @ + 1], wpc[w] = "calling",
             \/ UNCHANGED excuse /\ wpc'[w] \notin {"ready", "calling"}
             \/ excuse' = [excuse EXCEPT ![x] = @ + 1]
      PROVE  BudgetInv'
  <2> SUFFICES ASSUME NEW m \in Msgs
               PROVE  /\ Work(m)' + delivered'[m] <= 1 + excuse'[m]
                      /\ status'[m] = "none" => delivered'[m] = 0
    BY DEF BudgetInv
  <2>1. Work(m)' \in Nat /\ Work(m)' <= Work(m) /\ Work(m) \in Nat
    BY <1>3, <1>4, LessWork, HoldersFinite DEF JobInv
  <2>2. CASE m # x
    <3>1. delivered'[m] = delivered[m] /\ excuse'[m] = excuse[m]
      BY <1>1, <1>7, <2>2 DEF JobInv, TypeOK, HistoryOK
    <3> QED BY <1>2, <1>5, <2>1, <3>1 DEF BudgetInv
  <2>3. CASE m = x
    <3>1. delivered'[m] = delivered[m] + 1 /\ status'[m] # "none"
      BY <1>1, <1>2, <1>7, <2>3 DEF JobInv, TypeOK, HistoryOK, HasJob
    <3>2. CASE excuse' = [excuse EXCEPT ![x] = @ + 1]
      <4>1. excuse'[m] = excuse[m] + 1
        BY <1>1, <2>3, <3>2 DEF JobInv, TypeOK, HistoryOK
      <4> QED BY <1>5, <2>1, <3>1, <4>1 DEF BudgetInv
    <3>3. CASE UNCHANGED excuse /\ wpc'[w] \notin {"ready", "calling"}
      <4>1. w \in Open(m) /\ w \notin Open(m)'
        BY <1>1, <1>7, <2>3, <3>3 DEF Open
      <4>2. /\ IsFiniteSet(Open(m)) /\ Cardinality(Open(m)) \in Nat
            /\ Cardinality(Slots(m)) \in Nat /\ Cardinality(Handling(m)) \in Nat
        BY HoldersFinite DEF JobInv
      <4>3. /\ Open(m)' \subseteq Open(m) \ {w} /\ IsFiniteSet(Open(m) \ {w})
            /\ Cardinality(Open(m) \ {w}) = Cardinality(Open(m)) - 1
        BY <1>4, <4>1, <4>2, FS_RemoveElement
      <4>4. /\ IsFiniteSet(Open(m)')
            /\ Cardinality(Open(m)') <= Cardinality(Open(m)) - 1
        BY <4>3, FS_Subset
      <4>5. Cardinality(Open(m)') \in Nat
        BY <4>4, FS_CardinalityType
      <4>6. Work(m)' \in Nat /\ Work(m)' + 1 <= Work(m)
        BY <1>3, <4>2, <4>4, <4>5 DEF Work
      <4> QED BY <1>5, <2>1, <3>1, <3>3, <4>6 DEF BudgetInv
    <3> QED BY <1>7, <3>2, <3>3
  <2> QED BY <2>2, <2>3
<1>8. CASE CallSucceeds(w)
  BY <1>7, <1>8 DEF CallSucceeds, GoTo, JobInv, TypeOK, WorkersOK
<1>9. ASSUME NEW err \in {"error", "timeout"}, NEW accepted \in BOOLEAN,
             CallFails(w, err, accepted)
      PROVE  BudgetInv'
  BY <1>6, <1>7, <1>9 DEF CallFails, ReplyLost
<1>10. CASE Cancelled(w)
  BY <1>6, <1>7, <1>10 DEF Cancelled, Finish, JobInv, TypeOK, WorkersOK
<1>11. CASE Attempt(w) \/ CallFatal(w) \/ MarkDone(w) \/ MarkFailed(w)
  BY <1>6, <1>11 DEF Attempt, CallFatal, MarkDone, MarkFailed, historyVars
<1> QED BY <1>8, <1>9, <1>10, <1>11 DEF WorkerStep, CallReturns

LEMMA BootBudget == JobInv /\ BudgetInv /\ Boot => BudgetInv'
<1> SUFFICES ASSUME JobInv, BudgetInv, Boot, NEW m \in Msgs
             PROVE  /\ Work(m)' + delivered'[m] <= 1 + excuse'[m]
                    /\ status'[m] = "none" => delivered'[m] = 0
  BY DEF BudgetInv
<1>1. /\ UNCHANGED <<status, delivered, workerVars, handlerVars>> /\ phase = "down"
  BY DEF Boot, rowVars
<1>2. /\ Slots(m) = {} /\ Open(m)' = {} /\ Handling(m)' = {}
      /\ delivered[m] \in Nat /\ excuse[m] \in Nat /\ delivered[m] <= 1 + excuse[m]
  <2>1. Slots(m) = {} /\ Running(m) = {} /\ Handling(m) = {}
    BY <1>1 DEF JobInv, HasJob
  <2>2. Open(m)' = {} /\ Handling(m)' = {}
    BY <1>1, <2>1, SameHolders, SameOpen DEF Open
  <2>3. Work(m) \in Nat /\ Work(m) + delivered[m] <= 1 + excuse[m]
    BY HoldersFinite DEF JobInv, BudgetInv
  <2>4. delivered[m] \in Nat /\ excuse[m] \in Nat
    BY DEF JobInv, TypeOK, HistoryOK
  <2> QED BY <2>1, <2>2, <2>3, <2>4
<1>3. Work(m)' = Cardinality(Slots(m)') + 0 + 0
  BY <1>2, FS_EmptySet DEF Work
<1>4. status'[m] = "none" => delivered'[m] = 0
  BY <1>1 DEF BudgetInv
<1>5. CASE Slots(m)' = {}
  <2>1. excuse'[m] \in Nat /\ excuse'[m] >= excuse[m]
    BY <1>2 DEF Boot
  <2>2. Work(m)' = 0
    BY <1>3, <1>5, FS_EmptySet
  <2> QED BY <1>1, <1>2, <1>4, <2>1, <2>2
<1>6. CASE Slots(m)' # {}
  <2>1. excuse'[m] = excuse[m] + 1 /\ \E i : Slots(m)' = {i}
    BY <1>6, BootSlots
  <2>2. Cardinality(Slots(m)') = 1
    BY <2>1, FS_Singleton
  <2> QED BY <1>1, <1>2, <1>3, <1>4, <2>1, <2>2
<1> QED BY <1>5, <1>6

LEMMA BudgetNext == JobInv /\ BudgetInv /\ [Next]_vars => BudgetInv'
<1> SUFFICES ASSUME JobInv, BudgetInv, [Next]_vars PROVE BudgetInv'
  OBVIOUS
<1>1. \A m \in Msgs : excuse[m] \in Nat
  BY DEF JobInv, TypeOK, HistoryOK
<1>2. ASSUME NEW x \in Msgs, WebhookErrorAfterInsert(x) \/ WebDLQRetry(x) PROVE BudgetInv'
  <2>1. /\ UNCHANGED <<queue, workerVars, handlerVars, delivered, excuse>>
        /\ status' = [status EXCEPT ![x] = "pending"]
    BY <1>2 DEF WebhookErrorAfterInsert, WebDLQRetry, InsertMessage, RequeueMessage, MarkStatus,
                historyVars
  <2>2. \A m \in Msgs : status[m] # "none" => status'[m] # "none"
    BY <2>1 DEF JobInv, TypeOK, RowsOK
  <2> QED BY <1>1, <2>1, <2>2, FrameBudget, SameHolders, SameOpen
<1>3. CASE Tick \/ Stop \/ SweepStale \/ UNCHANGED vars
  <2>1. /\ UNCHANGED <<queue, workerVars, handlerVars, delivered, excuse>>
        /\ \A m \in Msgs : status[m] # "none" => status'[m] # "none"
    BY <1>3 DEF Tick, Stop, SweepStale, vars, rowVars, workerVars, handlerVars, historyVars
  <2> QED BY <1>1, <2>1, FrameBudget, SameHolders, SameOpen
<1>4. CASE Exit \/ Crash
  <2>1. Down
    BY <1>4 DEF Exit, Crash
  <2>2. \A m \in Msgs : Slots(m)' = {} /\ Handling(m)' = {} /\ Open(m)' = {}
    BY <2>1 DEF Down, Slots, Handling, Open, Running
  <2> QED BY <1>1, <2>1, <2>2, FrameBudget DEF Down, rowVars
<1> QED BY <1>2, <1>3, <1>4, RequestBudget, HandlerBudget, WorkerBudget, BootBudget DEF Next

\* The upstream receives a message again only for a reason: a lost reply, a job
\* remade at boot, an operator's retry (runJob, RecoverPending, RequeueMessage).
THEOREM DeliveriesHaveReasons == Spec => []DeliveriesAccounted
<1>1. Init => BudgetInv
  <2> SUFFICES ASSUME Init, NEW m \in Msgs
               PROVE  Work(m) + delivered[m] <= 1 + excuse[m] /\ delivered[m] = 0
    BY DEF BudgetInv
  <2>1. Slots(m) = {} /\ Handling(m) = {} /\ Open(m) = {}
    BY DEF Init, Slots, Handling, Open, Running
  <2> QED BY <2>1, FS_EmptySet DEF Work, Init
<1>2. JobInv /\ BudgetInv => DeliveriesAccounted
  <2> SUFFICES ASSUME JobInv, BudgetInv, NEW m \in Msgs PROVE delivered[m] <= 1 + excuse[m]
    BY DEF DeliveriesAccounted
  <2>1. Work(m) \in Nat /\ delivered[m] \in Nat /\ excuse[m] \in Nat
    BY HoldersFinite DEF JobInv, TypeOK, HistoryOK
  <2> QED BY <2>1 DEF BudgetInv
<1> QED BY <1>1, <1>2, BudgetNext, JobAlways, PTL DEF Spec

-----------------------------------------------------------------------------
(* Jobs move on                                                            *)

\* Every worker's step, Take apart, ends the job or uses up a part of it.
LEMMA WorkerUsesUp ==
  ASSUME TypeOK, NEW w \in Workers, WorkerStep(w), ~Take(w)
  PROVE  /\ WorkerLeft(w)' < WorkerLeft(w) /\ wjob'[w] \in {wjob[w], NoMsg}
         /\ UNCHANGED <<queue, handlerVars>>
         /\ \A v \in Workers \ {w} : UNCHANGED <<wpc[v], wjob[v], tries[v]>>
<1> USE DEF TypeOK, WorkersOK, WorkerSteps
<1>1. UNCHANGED <<queue, handlerVars>>
  BY WorkerKeeps
<1>2. \A v \in Workers \ {w} : UNCHANGED <<wpc[v], wjob[v], tries[v]>>
  BY DEF WorkerStep, CallReturns, Attempt, CallSucceeds, CallFatal, CallFails, Exhausted,
         Cancelled, MarkDone, MarkFailed, Finish, GoTo
<1> SUFFICES WorkerLeft(w)' < WorkerLeft(w) /\ wjob'[w] \in {wjob[w], NoMsg}
  BY <1>1, <1>2
<1>3. /\ StepsAfter["ready"] = 2 /\ StepsAfter["calling"] = 1
      /\ StepsAfter["mark_done"] = 0 /\ StepsAfter["mark_failed"] = 0
  BY DEF StepsAfter
<1>4. tries[w] \in Nat /\ tries[w] < MaxAttempts /\ MaxAttempts \in Nat
  OBVIOUS
<1>5. ASSUME Finish(w), wpc[w] # "idle"
      PROVE  WorkerLeft(w)' < WorkerLeft(w) /\ wjob'[w] \in {wjob[w], NoMsg}
  <2>1. wpc'[w] = "idle" /\ wjob'[w] = NoMsg
    BY <1>5 DEF Finish
  <2>2. WorkerLeft(w)' = 0
    BY <2>1 DEF WorkerLeft
  <2>3. WorkerLeft(w) > 0
    BY <1>3, <1>4, <1>5 DEF WorkerLeft
  <2> QED BY <2>1, <2>2, <2>3
<1>6. ASSUME NEW a, NEW b, wpc[w] = a, GoTo(w, b), a \in WorkerSteps \ {"idle"},
             b \in WorkerSteps \ {"idle"}, StepsAfter[b] < StepsAfter[a]
      PROVE  WorkerLeft(w)' < WorkerLeft(w) /\ wjob'[w] \in {wjob[w], NoMsg}
  <2>1. wpc'[w] = b /\ tries'[w] = tries[w] /\ wjob'[w] = wjob[w]
    BY <1>6 DEF GoTo
  <2>2. WorkerLeft(w)' = 3 * (MaxAttempts - tries[w]) + StepsAfter[b]
    BY <1>6, <2>1 DEF WorkerLeft
  <2>3. WorkerLeft(w) = 3 * (MaxAttempts - tries[w]) + StepsAfter[a]
    BY <1>6 DEF WorkerLeft
  <2> QED BY <1>3, <1>4, <1>6, <2>1, <2>2, <2>3
<1>7. CASE Attempt(w)
  <2>1. wpc[w] = "ready" /\ GoTo(w, "calling")
    BY <1>7 DEF Attempt
  <2> QED BY <1>3, <1>6, <2>1
<1>8. CASE CallSucceeds(w) \/ CallFatal(w)
  <2>1. wpc[w] = "calling" /\ \E b \in {"mark_done", "mark_failed"} : GoTo(w, b)
    BY <1>8 DEF CallSucceeds, CallFatal
  <2> QED BY <1>3, <1>6, <2>1
<1>9. ASSUME NEW err \in {"error", "timeout"}, NEW accepted \in BOOLEAN,
             CallFails(w, err, accepted)
      PROVE  WorkerLeft(w)' < WorkerLeft(w) /\ wjob'[w] \in {wjob[w], NoMsg}
  <2>1. CASE tries[w] + 1 < MaxAttempts
    <3>1. /\ wpc[w] = "calling" /\ wpc'[w] = "ready" /\ tries'[w] = tries[w] + 1
          /\ wjob'[w] = wjob[w]
      BY <1>9, <2>1 DEF CallFails
    <3>2. WorkerLeft(w)' = 3 * (MaxAttempts - (tries[w] + 1)) + 2
      BY <1>3, <3>1 DEF WorkerLeft
    <3>3. WorkerLeft(w) = 3 * (MaxAttempts - tries[w]) + 1
      BY <1>3, <3>1 DEF WorkerLeft
    <3> QED BY <1>4, <3>1, <3>2, <3>3
  <2>2. CASE ~(tries[w] + 1 < MaxAttempts)
    <3>1. wpc[w] = "calling" /\ (Finish(w) \/ GoTo(w, "mark_failed"))
      BY <1>9, <2>2 DEF CallFails, Exhausted
    <3> QED BY <1>3, <1>5, <1>6, <3>1
  <2> QED BY <2>1, <2>2
<1>10. CASE Cancelled(w) \/ MarkDone(w) \/ MarkFailed(w)
  <2>1. Finish(w) /\ wpc[w] # "idle"
    BY <1>10 DEF Cancelled, MarkDone, MarkFailed
  <2> QED BY <1>5, <2>1
<1> QED BY <1>7, <1>8, <1>9, <1>10 DEF WorkerStep, CallReturns

JobsAdvance ==
  /\ \A w \in Workers : WorkerAdvances(w)
  /\ \A h \in Handlers : RequestAdvances(h)
  /\ \A d \in Directions : ChannelAdvances(d)

\* What a step leaves alone has not moved back.
LEMMA StillIsAdvance ==
  /\ UNCHANGED workerVars => \A w \in Workers : WorkerAdvances(w)
  /\ UNCHANGED handlerVars => \A h \in Handlers : RequestAdvances(h)
  /\ UNCHANGED queue => \A d \in Directions : ChannelAdvances(d)
BY DEF WorkerAdvances, RequestAdvances, ChannelAdvances, workerVars, handlerVars

LEMMA RequestAdvance ==
  ASSUME TypeOK, NEW h \in Handlers, NEW m \in Msgs,
         HandlerStep(h) \/ Webhook(h, m) \/ AdminRetry(h, m)
  PROVE  JobsAdvance
<1> USE DEF TypeOK, HandlersOK, HandlerSteps
<1>1. UNCHANGED workerVars
  BY DEF HandlerStep, Push, QueueFull, MarkQueueFull, AdminRetryFull, Webhook, AdminRetry
<1>2. \A g \in Handlers \ {h} : UNCHANGED <<hpc[g], hmsg[g]>>
  BY DEF HandlerStep, Push, QueueFull, MarkQueueFull, AdminRetryFull, Webhook, AdminRetry,
         Begin, End
<1>3. \/ hpc[h] = "idle"
      \/ hpc[h] # "idle" /\ hpc'[h] = "idle" /\ hmsg'[h] = NoMsg
      \/ hpc[h] = "send" /\ hpc'[h] = "full" /\ hmsg'[h] = hmsg[h]
  BY DEF HandlerStep, Push, QueueFull, MarkQueueFull, AdminRetryFull, Webhook, AdminRetry,
         Begin, End
<1>4. RequestAdvances(h)
  BY <1>3 DEF RequestAdvances, RequestLeft
<1>5. \A g \in Handlers : RequestAdvances(g)
  BY <1>2, <1>4 DEF RequestAdvances
<1>6. CASE UNCHANGED queue
  BY <1>1, <1>5, <1>6, StillIsAdvance DEF JobsAdvance
<1>7. CASE Push(h)
  <2> SUFFICES ASSUME NEW d \in Directions PROVE ChannelAdvances(d)
    BY <1>1, <1>5, StillIsAdvance DEF JobsAdvance
  <2>1. /\ hpc[h] # "idle" /\ hpc'[h] = "idle" /\ DirOf[hmsg[h]] \in Directions
        /\ queue' = [queue EXCEPT ![DirOf[hmsg[h]]] = Append(@, hmsg[h])]
    BY <1>7 DEF Push, End
  <2>2. d # DirOf[hmsg[h]] => UNCHANGED queue[d]
    BY <2>1 DEF QueuesOK
  <2>3. d = DirOf[hmsg[h]] => queue'[d] = Append(queue[d], hmsg[h])
    BY <2>1 DEF QueuesOK
  <2> QED BY <2>1, <2>2, <2>3 DEF ChannelAdvances
<1> QED BY <1>6, <1>7
     DEF HandlerStep, QueueFull, MarkQueueFull, AdminRetryFull, Webhook, AdminRetry

LEMMA WorkerAdvance ==
  ASSUME TypeOK, NEW w \in Workers, WorkerStep(w)
  PROVE  JobsAdvance
<1>1. CASE ~Take(w)
  BY <1>1, WorkerUsesUp, StillIsAdvance DEF JobsAdvance, WorkerAdvances
<1>2. CASE Take(w)
  <2> DEFINE e == PoolOf[w]
  <2>1. /\ wpc[w] = "idle" /\ queue[e] # <<>> /\ e \in Directions
        /\ wjob'[w] = Head(queue[e]) /\ wpc'[w] = "ready" /\ queue'[e] = Tail(queue[e])
        /\ \A d \in Directions \ {e} : queue'[d] = queue[d]
    BY <1>2 DEF Take, TypeOK, QueuesOK, WorkersOK
  <2>2. \A v \in Workers \ {w} : UNCHANGED <<wpc[v], wjob[v], tries[v]>>
    BY <1>2 DEF Take, TypeOK, WorkersOK
  <2>3. \A v \in Workers : WorkerAdvances(v)
    BY <2>1, <2>2 DEF WorkerAdvances
  <2>4. \A d \in Directions : ChannelAdvances(d)
    BY <2>1 DEF ChannelAdvances
  <2>5. UNCHANGED handlerVars
    BY <1>2 DEF Take
  <2> QED BY <2>3, <2>4, <2>5, StillIsAdvance DEF JobsAdvance
<1> QED BY <1>1, <1>2

\* No job goes back, is overtaken or vanishes while the process runs (enqueue,
\* runPool, runJob, runRetryLoop): the descent that makes every job end.
THEOREM JobsOnlyMoveOn == Spec => JobsOnlyAdvance
<1>1. TypeOK /\ [Next]_vars => [phase' = phase => JobsAdvance]_vars
  <2> SUFFICES ASSUME TypeOK, Next, phase' = phase PROVE JobsAdvance
    OBVIOUS
  <2>1. CASE Tick \/ SweepStale \/ Boot \/ Stop \/ Exit \/ Crash
    <3>1. UNCHANGED <<queue, workerVars, handlerVars>>
      BY <2>1 DEF Tick, SweepStale, Boot, Stop, Exit, Crash, Down
    <3> QED BY <3>1, StillIsAdvance DEF JobsAdvance
  <2>2. ASSUME NEW m \in Msgs, WebhookErrorAfterInsert(m) \/ WebDLQRetry(m) PROVE JobsAdvance
    BY <2>2, StillIsAdvance DEF WebhookErrorAfterInsert, WebDLQRetry, JobsAdvance
  <2>3. ASSUME NEW h \in Handlers, HandlerStep(h) PROVE JobsAdvance
    <3>1. hmsg[h] \in Msgs
      BY <2>3 DEF HandlerStep, Push, QueueFull, MarkQueueFull, AdminRetryFull, TypeOK, HandlersOK
    <3> QED BY <2>3, <3>1, RequestAdvance
  <2> QED BY <2>1, <2>2, <2>3, RequestAdvance, WorkerAdvance DEF Next
<1>2. JobsOnlyAdvance <=> [][phase' = phase => JobsAdvance]_vars
  BY DEF JobsOnlyAdvance, JobsAdvance
<1> QED BY <1>1, <1>2, TypeCorrect, PTL DEF Spec

-----------------------------------------------------------------------------
(* No job is lost on the way                                               *)

\* The send of a request makes a channel slot of its job.
LEMMA PushKeepsJobs ==
  ASSUME TypeOK, NEW h \in Handlers, Push(h), NEW m \in Msgs, HasJob(m)
  PROVE  HasJob(m)'
<1> DEFINE x == hmsg[h]
           q == queue[DirOf[x]]
<1>1. x \in Msgs /\ DirOf[x] \in Directions /\ q \in Seq(Msgs) /\ UNCHANGED workerVars /\ End(h)
  BY DEF Push, TypeOK, HandlersOK, QueuesOK
<1>2. CASE m = x
  <2>1. queue'[DirOf[x]] = Append(q, x)
    BY <1>1 DEF Push, TypeOK, QueuesOK
  <2>2. Len(q) + 1 \in DOMAIN Append(q, x) /\ Append(q, x)[Len(q) + 1] = x
    BY <1>1
  <2>3. Slots(m)' # {}
    BY <1>2, <2>1, <2>2 DEF Slots
  <2> QED BY <2>3 DEF HasJob
<1>3. CASE m # x
  <2>1. Slots(m)' = Slots(m) /\ Running(m)' = Running(m) /\ Handling(m)' = Handling(m) \ {h}
    BY <1>1, <1>3, PushSlots, SameHolders, EndReleases
  <2>2. h \notin Handling(m)
    BY <1>3 DEF Handling
  <2> QED BY <2>1, <2>2 DEF HasJob
<1> QED BY <1>2, <1>3

\* The worker that takes the head of a channel has its job; the rest of the
\* channel moves up.
LEMMA TakeKeepsJobs ==
  ASSUME TypeOK, NEW w \in Workers, Take(w), NEW m \in Msgs, HasJob(m)
  PROVE  HasJob(m)'
<1> DEFINE d == PoolOf[w]
           q == queue[d]
<1>1. /\ q \in Seq(Msgs) /\ q # <<>> /\ d \in Directions /\ UNCHANGED handlerVars
      /\ wpc[w] = "idle"
  BY DEF Take, TypeOK, QueuesOK
<1>2. /\ Head(q) = q[1] /\ q[1] \in Msgs
      /\ Tail(q) \in Seq(Msgs) /\ Len(Tail(q)) = Len(q) - 1
      /\ \A i \in 1..Len(Tail(q)) : Tail(q)[i] = q[i + 1]
  BY <1>1, HeadTailProperties
<1>3. Len(q) \in Nat \ {0} /\ DOMAIN q = 1..Len(q) /\ DOMAIN Tail(q) = 1..(Len(q) - 1)
  BY <1>1, <1>2
<1>4. /\ queue'[d] = Tail(q) /\ \A e \in Directions \ {d} : queue'[e] = queue[e]
      /\ wjob' = [wjob EXCEPT ![w] = q[1]] /\ wpc' = [wpc EXCEPT ![w] = "ready"]
  BY <1>1, <1>2 DEF Take, TypeOK, QueuesOK
<1>5. Handling(m)' = Handling(m)
  BY <1>1, SameHolders
<1>6. Running(m) \subseteq Running(m)' /\ (q[1] = m => w \in Running(m)')
  BY <1>1, <1>4 DEF Running, TypeOK, WorkersOK
<1>7. CASE q[1] = m
  BY <1>6, <1>7 DEF HasJob
<1>8. ASSUME q[1] # m, NEW i \in Slots(m) PROVE Slots(m)' # {}
  <2>1. CASE DirOf[m] # d
    <3>1. DirOf[m] \in Directions \ {d}
      BY <2>1
    <3>2. Slots(m)' = Slots(m)
      BY <1>4, <3>1 DEF Slots
    <3> QED BY <3>2
  <2>2. CASE DirOf[m] = d
    <3>1. i \in 1..Len(q) /\ q[i] = m /\ i # 1
      BY <1>3, <1>8, <2>2 DEF Slots
    <3>2. i - 1 \in 1..(Len(q) - 1) /\ Tail(q)[i - 1] = m
      <4>1. i - 1 \in 1..(Len(q) - 1) /\ (i - 1) + 1 = i
        BY <1>3, <3>1
      <4> QED BY <1>2, <3>1, <4>1
    <3>3. i - 1 \in Slots(m)'
      BY <1>3, <1>4, <2>2, <3>2 DEF Slots
    <3> QED BY <3>3
  <2> QED BY <2>1, <2>2
<1> QED BY <1>5, <1>6, <1>7, <1>8 DEF HasJob

\* A worker that gives up its job leaves a settled row, or was at its last
\* attempt, or met a database error or a shutdown.
LEMMA WorkerKeepsJobs ==
  ASSUME TypeOK, NEW w \in Workers, WorkerStep(w), NEW m \in Msgs, HasJob(m),
         phase = "serving", faults' = faults, ~LastAttempt(w, m)
  PROVE  HasJob(m)' \/ status'[m] # "pending"
<1> USE DEF TypeOK, WorkersOK, WorkerSteps
<1> SUFFICES ASSUME ~Take(w) PROVE HasJob(m)' \/ status'[m] # "pending"
  BY TakeKeepsJobs
<1>1. Slots(m)' = Slots(m) /\ Handling(m)' = Handling(m) /\ wpc[w] # "idle"
  BY WorkerKeeps, SameHolders
<1>2. faults \in Nat /\ ~DBError
  BY DEF ProcessOK, DBError
<1>3. \A v \in Running(m) \ {w} : v \in Running(m)'
  <2>1. \A v \in Workers \ {w} : wpc'[v] = wpc[v] /\ wjob'[v] = wjob[v]
    BY DEF WorkerStep, CallReturns, Attempt, CallSucceeds, CallFatal, CallFails, Exhausted,
           Cancelled, MarkDone, MarkFailed, Finish, GoTo
  <2> QED BY <2>1 DEF Running
<1>4. CASE wjob[w] # m
  BY <1>1, <1>3, <1>4 DEF HasJob, Running
<1>5. CASE wjob[w] = m
  <2>1. ASSUME NEW step \in WorkerSteps \ {"idle"}, wpc' = [wpc EXCEPT ![w] = step],
               UNCHANGED wjob
        PROVE  HasJob(m)'
    <3>1. w \in Running(m)'
      BY <1>5, <2>1 DEF Running
    <3> QED BY <3>1 DEF HasJob
  <2>2. CASE Attempt(w) \/ CallSucceeds(w) \/ CallFatal(w)
    <3>1. \E step \in WorkerSteps \ {"idle"} :
            wpc' = [wpc EXCEPT ![w] = step] /\ UNCHANGED wjob
      BY <2>2 DEF Attempt, CallSucceeds, CallFatal, GoTo
    <3> QED BY <2>1, <3>1
  <2>3. ASSUME NEW err \in {"error", "timeout"}, NEW accepted \in BOOLEAN,
               CallFails(w, err, accepted)
        PROVE  HasJob(m)'
    <3>1. tries[w] + 1 < MaxAttempts
      BY <1>5, <2>3 DEF CallFails, LastAttempt
    <3> QED BY <2>1, <2>3, <3>1 DEF CallFails
  <2>4. ~Cancelled(w)
    BY DEF Cancelled
  <2>5. CASE MarkDone(w) \/ MarkFailed(w)
    <3>1. \E s \in {"done", "failed"} : status' = [status EXCEPT ![m] = s]
      BY <1>2, <1>5, <2>5 DEF MarkDone, MarkFailed, WorkerMark, MarkStatus
    <3> QED BY <3>1 DEF RowsOK
  <2> QED BY <2>2, <2>3, <2>4, <2>5 DEF WorkerStep, CallReturns
<1> QED BY <1>4, <1>5

\* A request that ends without a send leaves a failed row, or was turned away by
\* a full channel, or met a database error.
LEMMA HandlerKeepsJobs ==
  ASSUME TypeOK, NEW h \in Handlers, HandlerStep(h), NEW m \in Msgs, HasJob(m),
         faults' = faults, ~RetryTurnedAway(h, m)
  PROVE  HasJob(m)' \/ status'[m] # "pending"
<1> SUFFICES ASSUME ~Push(h) PROVE HasJob(m)' \/ status'[m] # "pending"
  BY PushKeepsJobs
<1> USE DEF TypeOK, HandlersOK, HandlerSteps
<1>1. Slots(m)' = Slots(m) /\ Running(m)' = Running(m)
  BY SameHolders DEF HandlerStep, QueueFull, MarkQueueFull, AdminRetryFull
<1>2. CASE QueueFull(h)
  <2>1. Handling(m)' = Handling(m)
    BY <1>2 DEF QueueFull, Handling
  <2> QED BY <1>1, <2>1 DEF HasJob
<1>3. CASE MarkQueueFull(h) \/ AdminRetryFull(h)
  <2>1. End(h)
    BY <1>3 DEF MarkQueueFull, AdminRetryFull
  <2>2. CASE hmsg[h] # m
    <3>1. Handling(m)' = Handling(m)
      BY <2>1, <2>2, EndReleases DEF Handling
    <3> QED BY <1>1, <3>1 DEF HasJob
  <2>3. CASE hmsg[h] = m
    <3>1. MarkQueueFull(h) /\ ~DBError
      BY <1>3, <2>3 DEF AdminRetryFull, RetryTurnedAway, DBError, ProcessOK
    <3>2. status' = [status EXCEPT ![m] = "failed"]
      BY <2>3, <3>1 DEF MarkQueueFull, MarkStatus
    <3> QED BY <3>2 DEF RowsOK
  <2> QED BY <2>2, <2>3
<1> QED BY <1>2, <1>3 DEF HandlerStep

\* A webhook or a retry adds its own request to the holders.
LEMMA RequestKeepsJobs ==
  ASSUME TypeOK, NEW h \in Handlers, NEW x \in Msgs, Webhook(h, x) \/ AdminRetry(h, x),
         NEW m \in Msgs
  PROVE  (HasJob(m) => HasJob(m)') /\ HasJob(x)'
<1>1. /\ UNCHANGED <<queue, workerVars>>
      /\ \E step \in HandlerSteps \ {"idle"} : Begin(h, x, step)
  BY DEF Webhook, AdminRetry, HandlerSteps
<1>2. /\ Slots(m)' = Slots(m) /\ Running(m)' = Running(m)
      /\ Handling(m) \subseteq Handling(m)' /\ h \in Handling(x)'
  BY <1>1, SameHolders, BeginHolds
<1> QED BY <1>2 DEF HasJob

\* A pending row is without a job only for a cause the code knows (enqueue,
\* requeueJob, runJob, handleDLQRetry, RecoverPending): no interleaving loses one.
THEOREM JobsAreNotLost == Spec => StrandedForCause
<1> DEFINE Cause(m) == \/ phase # "serving" \/ phase' # "serving"
                       \/ faults' # faults
                       \/ status[m] = "failed"
                       \/ \E h \in Handlers : RetryTurnedAway(h, m)
                       \/ \E w \in Workers : LastAttempt(w, m)
           Caused == \A m \in Msgs : Stranded(m)' /\ ~Stranded(m) => Cause(m)
<1>1. TypeOK /\ [Next]_vars => [Caused]_vars
  <2> SUFFICES ASSUME TypeOK, Next, NEW m \in Msgs, Stranded(m)', ~Stranded(m), ~Cause(m)
               PROVE  FALSE
    OBVIOUS
  <2>1. status'[m] = "pending" /\ ~HasJob(m)'
    BY DEF Stranded
  <2>2. faults \in Nat /\ ~DBError /\ ~Boot /\ ~Stop /\ ~Exit /\ ~Crash
    BY DEF TypeOK, ProcessOK, DBError, Boot, Stop, Exit, Crash, Down
  <2>3. ASSUME NEW h \in Handlers, NEW x \in Msgs, Webhook(h, x) \/ AdminRetry(h, x)
        PROVE  FALSE
    <3>1. m # x /\ ~HasJob(m)
      BY <2>1, <2>3, RequestKeepsJobs
    <3>2. status[m] = "pending"
      BY <2>1, <2>3, <3>1
         DEF Webhook, AdminRetry, InsertMessage, RequeueMessage, MarkStatus, TypeOK, RowsOK
    <3> QED BY <3>1, <3>2 DEF Stranded
  <2>4. ASSUME NEW x \in Msgs, WebhookErrorAfterInsert(x) \/ WebDLQRetry(x) PROVE FALSE
    <3>1. WebDLQRetry(x) /\ HasJob(m)' = HasJob(m)
      BY <2>2, <2>4, SameHolders DEF WebhookErrorAfterInsert, WebDLQRetry, HasJob
    <3>2. status[m] = "pending"
      BY <2>1, <3>1 DEF WebDLQRetry, RequeueMessage, MarkStatus, TypeOK, RowsOK
    <3> QED BY <2>1, <3>1, <3>2 DEF Stranded
  <2>5. CASE status[m] = "pending" /\ HasJob(m)
    <3>1. \A h \in Handlers : ~HandlerStep(h)
      BY <2>1, <2>5, HandlerKeepsJobs
    <3>2. \A w \in Workers : ~WorkerStep(w)
      BY <2>1, <2>5, WorkerKeepsJobs
    <3>3. ~Tick /\ ~SweepStale
      BY <2>1, <2>5, SameHolders DEF Tick, SweepStale, HasJob
    <3> QED BY <2>2, <2>3, <2>4, <3>1, <3>2, <3>3 DEF Next
  <2>6. CASE status[m] # "pending"
    <3>1. \A h \in Handlers : ~HandlerStep(h)
      BY <2>1, <2>6 DEF HandlerStep, Push, QueueFull, MarkQueueFull, AdminRetryFull, MarkStatus,
                        rowVars, TypeOK, RowsOK, HandlersOK
    <3>2. \A w \in Workers : ~WorkerStep(w)
      <4> SUFFICES ASSUME NEW w \in Workers, WorkerStep(w) PROVE FALSE
        OBVIOUS
      <4>1. UNCHANGED status \/ \E s \in {"done", "failed"} : status' = [status EXCEPT ![wjob[w]] = s]
        BY WorkerKeeps DEF Take, rowVars
      <4> QED BY <2>1, <2>6, <4>1 DEF TypeOK, RowsOK
    <3>3. ~Tick /\ ~SweepStale
      BY <2>1, <2>6 DEF Tick, SweepStale, rowVars
    <3> QED BY <2>2, <2>3, <2>4, <3>1, <3>2, <3>3 DEF Next
  <2> QED BY <2>5, <2>6 DEF Stranded
<1>2. StrandedForCause <=> [][Caused]_vars
  BY DEF StrandedForCause
<1> QED BY <1>1, <1>2, TypeCorrect, PTL DEF Spec

-----------------------------------------------------------------------------
(* Recovery                                                                *)

\* A batch that all pending rows fit into holds them all.
LEMMA BatchIsAll ==
  ASSUME TypeOK, Cardinality(Pending) <= 2 * BufferLimit
  PROVE  NextPending(2 * BufferLimit) = Pending
<1>1. IsFiniteSet(Pending) /\ Cardinality(Pending) \in Nat
  BY FiniteAssumption, FS_Subset, FS_CardinalityType DEF Pending
<1>2. ASSUME NEW m \in Pending
      PROVE  Cardinality({x \in Pending : createdAt[x] < createdAt[m]}) < 2 * BufferLimit
  <2> DEFINE older == {x \in Pending : createdAt[x] < createdAt[m]}
  <2>1. createdAt[m] \in Nat
    BY DEF Pending, TypeOK, RowsOK
  <2>2. older \subseteq Pending \ {m}
    BY <2>1
  <2>3. /\ IsFiniteSet(Pending \ {m})
        /\ Cardinality(Pending \ {m}) = Cardinality(Pending) - 1
    BY <1>1, FS_RemoveElement
  <2>4. IsFiniteSet(older) /\ Cardinality(older) <= Cardinality(Pending \ {m})
    BY <2>2, <2>3, FS_Subset
  <2>5. Cardinality(older) \in Nat
    BY <2>4, FS_CardinalityType
  <2> HIDE DEF older
  <2>6. Cardinality(older) < 2 * BufferLimit
    BY <1>1, <2>3, <2>4, <2>5
  <2> QED BY <2>6 DEF older
<1> QED BY <1>2 DEF NextPending

\* What recovery leaves in a channel misses a row of the batch only if the rest of
\* the batch fills the channel.
LEMMA FittingIsRecovered ==
  ASSUME TypeOK, NEW d \in Directions, NEW q \in Seq(Msgs), RecoveredInto(d, q),
         NEW B, B = {m \in NextPending(2 * BufferLimit) : DirOf[m] = d},
         Cardinality(B) <= BufferLimit
  PROVE  B \subseteq ToSet(q)
<1> SUFFICES ASSUME NEW m \in B, m \notin ToSet(q) PROVE FALSE
  OBVIOUS
<1>1. /\ ToSet(q) \subseteq B /\ Len(q) = BufferLimit
      /\ \A i, j \in DOMAIN q : i < j => createdAt[q[i]] < createdAt[q[j]]
  BY DEF RecoveredInto
<1>2. B \subseteq Msgs /\ IsFiniteSet(B) /\ Cardinality(B) \in Nat
  <2>1. B \subseteq Msgs
    BY DEF NextPending, Pending
  <2> QED BY <2>1, FiniteAssumption, FS_Subset, FS_CardinalityType
<1>3. IsFiniteSet(B \ {m}) /\ Cardinality(B \ {m}) = Cardinality(B) - 1
  <2>1. \A S, x : IsFiniteSet(S) /\ x \in S =>
                    IsFiniteSet(S \ {x}) /\ Cardinality(S \ {x}) = Cardinality(S) - 1
    BY FS_RemoveElement
  <2> QED BY <1>2, <2>1, Zenon
<1>4. DOMAIN q = 1..BufferLimit /\ q \in [1..BufferLimit -> Msgs]
  BY <1>1
<1>5. \A i \in 1..BufferLimit : q[i] \in B \ {m}
  BY <1>1, <1>4 DEF ToSet
<1>6. \A i, j \in 1..BufferLimit : q[i] = q[j] => i = j
  <2> SUFFICES ASSUME NEW i \in 1..BufferLimit, NEW j \in 1..BufferLimit, q[i] = q[j]
               PROVE  i = j
    OBVIOUS
  <2>1. createdAt[q[i]] \in Nat
    BY <1>4 DEF TypeOK, RowsOK
  <2>2. ~(i < j) /\ ~(j < i)
    BY <1>1, <1>4, <2>1
  <2> QED BY <2>2
<1>7. q \in Injection(1..BufferLimit, B \ {m})
  <2>1. q \in [1..BufferLimit -> B \ {m}]
    BY <1>4, <1>5
  <2> QED BY <1>6, <2>1 DEF Injection, IsInjective
<1>8. Cardinality(1..BufferLimit) = BufferLimit
  BY FS_Interval
<1>9. Cardinality(1..BufferLimit) <= Cardinality(B \ {m})
  BY <1>3, <1>7, FS_Injection
<1> QED BY <1>2, <1>3, <1>8, <1>9

\* A pending row that fits into its channel and the batch gets a job at boot
\* (RecoverPending, NextPending): the exact bound of the release notes' promise.
THEOREM RecoveryIsComplete == Spec => RecoveryDrainsWhatFits
<1> DEFINE Drains ==
      phase = "down" /\ phase' = "serving" /\ faults' = faults
        /\ Cardinality(Pending) <= 2 * BufferLimit
      => \A d \in Directions :
           LET waiting == {m \in Pending : DirOf[m] = d} IN
           Cardinality(waiting) <= BufferLimit => \A m \in waiting : HasJob(m)'
<1>1. TypeOK /\ [Next]_vars => [Drains]_vars
  <2> SUFFICES ASSUME TypeOK, Next, phase = "down", phase' = "serving", faults' = faults,
                      Cardinality(Pending) <= 2 * BufferLimit, NEW d \in Directions,
                      NEW B, B = {m \in Pending : DirOf[m] = d},
                      Cardinality(B) <= BufferLimit, NEW m \in B
               PROVE  HasJob(m)'
    OBVIOUS
  <2>1. Boot
    BY DEF Next, Webhook, AdminRetry, Begin, WebhookErrorAfterInsert, WebDLQRetry, HandlerStep,
           Push, QueueFull, MarkQueueFull, AdminRetryFull, WorkerStep, CallReturns, Take, Attempt,
           CallSucceeds, CallFatal, CallFails, Cancelled, MarkDone, MarkFailed, Tick, SweepStale,
           Stop, Exit, Crash, Down
  <2>2. ~DBError
    BY DEF DBError, TypeOK, ProcessOK
  <2>3. PICK qs \in [Directions -> BoundedSeq(Msgs, BufferLimit)] :
             (\A e \in Directions : RecoveredInto(e, qs[e])) /\ queue' = qs
    BY <2>1, <2>2 DEF Boot
  <2>4. qs[d] \in Seq(Msgs) /\ RecoveredInto(d, qs[d])
    BY <2>3 DEF BoundedSeq, SeqOf
  <2>5. B = {x \in NextPending(2 * BufferLimit) : DirOf[x] = d}
    BY BatchIsAll
  <2>6. m \in ToSet(qs[d])
    BY <2>4, <2>5, FittingIsRecovered
  <2>7. Slots(m)' # {}
    BY <2>3, <2>6 DEF Slots, ToSet
  <2> QED BY <2>7 DEF HasJob
<1>2. RecoveryDrainsWhatFits <=> [][Drains]_vars
  BY DEF RecoveryDrainsWhatFits
<1> QED BY <1>1, <1>2, TypeCorrect, PTL DEF Spec
=============================================================================
