---------------------------- MODULE Relay_proofs ----------------------------
(* Theorems about Relay for every set of messages, any contents and any    *)
(* number of attempts.                                                     *)
EXTENDS Relay, SequenceTheorems, TLAPS

USE RelayAssumption

-----------------------------------------------------------------------------
(* No echo                                                                 *)

\* The direction of every webhook can be told, and what was taken is a person's.
Started(j) == pc[j] # "none"
Human(j) == j[2] \in IF j[1] = "out" THEN (Drafts \intersect written) \ aside
                                     ELSE Texts \intersect written

Honest ==
  /\ provider \in Providers /\ aside \subseteq written
  /\ pc \in [Jobs -> {"none", "running", "note", "done", "failed"}]
  /\ \A e \in cwHooks : chatwootShouldRelay(e) => e.body \in (Drafts \intersect written) \ aside
  /\ \A e \in waHooks : ~e.fromMe => e.body \in Texts \intersect written
  /\ \A j \in Jobs : Started(j) => Human(j)

LEMMA InitHonest == Init => Honest
BY DEF Init, Honest, Started

\* Webhooks that were due stay honest while nobody writes: all a step of a job
\* adds is marked as the bridge's own.
LEMMA JobStep ==
  ASSUME Honest, NEW j \in Jobs, Step(j)
  PROVE  Honest'
<1> USE DEF Honest, Started, Human, chatwootShouldRelay
<1>1. UNCHANGED world
  BY DEF Step, Reject, Send, Refuse, WindowRefuses, PostNote
<1>2. pc[j] # "none" /\ pc' \in [Jobs -> {"none", "running", "note", "done", "failed"}]
      /\ \A k \in Jobs : k # j => pc'[k] = pc[k]
  BY DEF Step, Reject, Send, Refuse, WindowRefuses, PostNote, Fail, Retry
<1>3. \/ cwHooks' = cwHooks
      \/ cwHooks' = cwHooks \union {CWMessage("incoming", FALSE, j[2])}
      \/ cwHooks' = cwHooks \union {CWMessage("outgoing", TRUE, Note)}
  BY DEF Step, Reject, Send, Refuse, WindowRefuses, PostNote, Reported, NotePosted
<1>4. waHooks' = waHooks \/ waHooks' = waHooks \union {WAMessage(TRUE, j[2])}
  BY DEF Step, Reject, Send, Refuse, WindowRefuses, PostNote, Reported
<1>5. \A e \in cwHooks' : e \in cwHooks \/ e.type # "outgoing" \/ e.private
  BY <1>3 DEF CWMessage
<1>6. \A e \in waHooks' : e \in waHooks \/ e.fromMe
  BY <1>4 DEF WAMessage
<1> QED BY <1>1, <1>2, <1>5, <1>6 DEF world

\* A webhook that passes the filters starts a job for what a person wrote.
LEMMA WebhookStep ==
  ASSUME Honest,
         (\E e \in cwHooks : CWWebhook(e)) \/ (\E e \in waHooks : WAWebhook(e))
  PROVE  Honest'
<1> USE DEF Honest, Started, Human, Jobs, Directions, Bodies
<1>1. CASE \E e \in cwHooks : CWWebhook(e)
  BY <1>1 DEF CWWebhook, Enqueue, Accept, Ignore, chatwootShouldRelay, world
<1>2. CASE \E e \in waHooks : WAWebhook(e)
  BY <1>2 DEF WAWebhook, Enqueue, Accept, Ignore, chatwootShouldRelay, waIsFromMe,
              wablastReceived, Providers, world
<1> QED BY <1>1, <1>2

\* A message is new to the webhooks and the jobs when a person writes it.
LEMMA WriteStep ==
  ASSUME Honest,
         \/ \E d \in Drafts, c \in OutContents, private \in BOOLEAN : AgentWrites(d, c, private)
         \/ \E t \in Texts, c \in InContents : CustomerWrites(t, c)
         \/ WindowCloses
  PROVE  Honest'
<1> USE DEF Honest, Started, Human
<1>1. ASSUME NEW d \in Drafts, NEW c \in OutContents, NEW private \in BOOLEAN,
             AgentWrites(d, c, private)
      PROVE  Honest'
  <2> USE <1>1 DEF AgentWrites, jobVars
  <2>1. (Drafts \intersect written) \ aside \subseteq (Drafts \intersect written') \ aside'
        /\ Texts \intersect written \subseteq Texts \intersect written'
    OBVIOUS
  <2>2. \A e \in cwHooks' : chatwootShouldRelay(e)
          => e.body \in (Drafts \intersect written') \ aside'
    BY <2>1 DEF chatwootShouldRelay, CWMessage
  <2>3. \A k \in Jobs : Started(k) => Human(k)'
    BY <2>1
  <2> QED BY <2>1, <2>2, <2>3
<1>2. ASSUME NEW t \in Texts, NEW c \in InContents, CustomerWrites(t, c) PROVE Honest'
  BY <1>2 DEF CustomerWrites, chatwootShouldRelay, WAMessage, jobVars
<1>3. CASE WindowCloses
  BY <1>3 DEF WindowCloses, chatwootShouldRelay, jobVars
<1> QED BY <1>1, <1>2, <1>3

LEMMA HonestStep == Honest /\ [Next]_vars => Honest'
<1>1. ASSUME Honest, UNCHANGED vars PROVE Honest'
  BY <1>1 DEF vars, Honest, Started, Human, chatwootShouldRelay
<1> QED BY <1>1, JobStep, WebhookStep, WriteStep DEF Next

\* The bridge never takes its own messages for those of a person.
THEOREM NeverEchoes == Spec => []NoEcho
<1>1. Honest => NoEcho
  BY DEF Honest, NoEcho, Started, Human
<1> QED BY <1>1, InitHonest, HonestStep, PTL DEF Spec

-----------------------------------------------------------------------------
(* Type correctness                                                        *)

\* A job that has not begun is at its first part and has no parts sent.
Fresh == \A j \in Jobs : ~Started(j) => part[j] = 1 /\ copies[j] = <<>>

Typed == TypeOK /\ Honest /\ Fresh

\* What a send does to the counts of one job.
Bump(c, p) == [c EXCEPT ![p] = @ + 1]

LEMMA BumpSeq ==
  ASSUME NEW c \in Seq(Nat), NEW p \in DOMAIN c
  PROVE  /\ Bump(c, p) \in Seq(Nat) /\ Len(Bump(c, p)) = Len(c)
         /\ \A q \in DOMAIN c : Bump(c, p)[q] = IF q = p THEN c[p] + 1 ELSE c[q]
<1>1. DOMAIN c = 1..Len(c) /\ c[p] + 1 \in Nat
  OBVIOUS
<1> QED BY <1>1, ExceptSeq DEF Bump

\* The three things a step of a job can do.
Ends(j) ==
  /\ pc' \in {[pc EXCEPT ![j] = s] : s \in {"failed", "note"}}
  /\ UNCHANGED <<part, tries>>
StartsOver(j) ==
  /\ tries[j] + 1 < MaxAttempts
  /\ tries' = [tries EXCEPT ![j] = @ + 1]
  /\ part' = [part EXCEPT ![j] = 1]
  /\ UNCHANGED pc
GoesOn(j) ==
  /\ UNCHANGED tries
  /\ \/ LastPart(j) /\ pc' = [pc EXCEPT ![j] = "done"] /\ UNCHANGED part
     \/ ~LastPart(j) /\ part' = [part EXCEPT ![j] = @ + 1] /\ UNCHANGED pc
Sends(j) ==
  /\ pc[j] = "running" /\ Parts(j) # <<>>
  /\ copies' = [copies EXCEPT ![j] = Bump(copies[j], part[j])]
  /\ StartsOver(j) \/ Ends(j) \/ GoesOn(j)
SendsNothing(j) ==
  /\ UNCHANGED copies
  /\ Ends(j) \/ (pc[j] = "running" /\ StartsOver(j))

LEMMA StepShape ==
  ASSUME NEW j \in Jobs, Step(j)
  PROVE  /\ UNCHANGED world
         /\ pc[j] \in {"running", "note"}
         /\ Sends(j) \/ SendsNothing(j)
<1> USE DEF Sends, SendsNothing, Ends, StartsOver, GoesOn
<1>1. CASE Reject(j) \/ WindowRefuses(j) \/ PostNote(j)
  BY <1>1 DEF Reject, WindowRefuses, PostNote, Fail
<1>2. ASSUME NEW head \in BOOLEAN, NEW lost \in BOOLEAN, Send(j, head, lost)
      PROVE  UNCHANGED world /\ pc[j] = "running" /\ Sends(j)
  BY <1>2 DEF Send, Retry, Fail, Missing, Bump
<1>3. ASSUME NEW r \in Replies, Refuse(j, r)
      PROVE  UNCHANGED world /\ pc[j] = "running" /\ SendsNothing(j)
  BY <1>3 DEF Refuse, Retry, Fail
<1> QED BY <1>1, <1>2, <1>3 DEF Step

\* The variables of TypeOK a step of a job writes besides.
LEMMA StepTypes ==
  ASSUME Typed, NEW j \in Jobs, Step(j)
  PROVE  /\ cwHooks' \subseteq [type : {"incoming", "outgoing"}, private : BOOLEAN, body : Bodies]
         /\ waHooks' \subseteq [fromMe : BOOLEAN, body : Bodies]
         /\ cause' \in [Jobs -> Causes]
         /\ notes' \in [Jobs -> Nat]
         /\ faults' \in 0..MaxFaults
<1> USE DEF Typed, TypeOK
<1>1. /\ \/ cwHooks' = cwHooks
         \/ cwHooks' = cwHooks \union {CWMessage("incoming", FALSE, j[2])}
         \/ cwHooks' = cwHooks \union {CWMessage("outgoing", TRUE, Note)}
      /\ waHooks' = waHooks \/ waHooks' = waHooks \union {WAMessage(TRUE, j[2])}
  BY DEF Step, Reject, Send, Refuse, WindowRefuses, PostNote, Reported, NotePosted
<1>2. /\ {CWMessage("incoming", FALSE, j[2]), CWMessage("outgoing", TRUE, Note)}
           \subseteq [type : {"incoming", "outgoing"}, private : BOOLEAN, body : Bodies]
      /\ WAMessage(TRUE, j[2]) \in [fromMe : BOOLEAN, body : Bodies]
  BY DEF Jobs, Bodies, CWMessage, WAMessage
<1>3. \/ cause' = cause
      \/ \E why \in Causes : cause' = [cause EXCEPT ![j] = why]
  <2>1. CASE Reject(j) \/ WindowRefuses(j) \/ PostNote(j)
    BY <2>1 DEF Reject, WindowRefuses, PostNote, Fail, Causes
  <2>2. ASSUME NEW head \in BOOLEAN, NEW lost \in BOOLEAN, Send(j, head, lost)
        PROVE  cause' = cause \/ cause' = [cause EXCEPT ![j] = "exhausted"]
    BY <2>2 DEF Send, Retry, Fail
  <2>3. ASSUME NEW r \in Replies, Refuse(j, r)
        PROVE  cause' = cause \/ \E why \in Causes : cause' = [cause EXCEPT ![j] = why]
    <3>1. \/ r \in Causes /\ Fail(j, r)
          \/ Retry(j)
      BY <2>3 DEF Refuse, Permanent, Causes
    <3> QED BY <3>1 DEF Fail, Retry, Causes
  <2> QED BY <2>1, <2>2, <2>3 DEF Step, Causes
<1>4. notes' = notes \/ notes' = [notes EXCEPT ![j] = @ + 1]
  BY DEF Step, Reject, Send, Refuse, WindowRefuses, PostNote, NotePosted
<1>5. faults' \in 0..MaxFaults
  <2>1. CASE Reject(j) \/ WindowRefuses(j) \/ PostNote(j)
    <3>1. UNCHANGED faults \/ \E n \in Nat : Faults(n)
      BY <2>1 DEF Reject, WindowRefuses, PostNote
    <3> QED BY <3>1 DEF Faults
  <2>2. ASSUME NEW head \in BOOLEAN, NEW lost \in BOOLEAN, Send(j, head, lost)
        PROVE  faults' \in 0..MaxFaults
    <3>1. \E n \in Nat : Faults(n)
      BY <2>2 DEF Send
    <3> QED BY <3>1 DEF Faults
  <2>3. ASSUME NEW r \in Replies, Refuse(j, r) PROVE faults' \in 0..MaxFaults
    BY <2>3 DEF Refuse, Faults
  <2> QED BY <2>1, <2>2, <2>3 DEF Step
<1>6. cwHooks' \subseteq [type : {"incoming", "outgoing"}, private : BOOLEAN, body : Bodies]
  BY <1>1, <1>2
<1>7. waHooks' \subseteq [fromMe : BOOLEAN, body : Bodies]
  BY <1>1, <1>2
<1>8. cause' \in [Jobs -> Causes]
  BY <1>3
<1>9. notes' \in [Jobs -> Nat]
  BY <1>4
<1> QED BY <1>5, <1>6, <1>7, <1>8, <1>9

LEMMA JobTyped ==
  ASSUME Typed, NEW j \in Jobs, Step(j)
  PROVE  Typed'
<1> USE DEF Typed, TypeOK, Fresh, Started
<1>1. Honest'
  BY JobStep
<1>2. UNCHANGED world /\ pc[j] \in {"running", "note"} /\ (Sends(j) \/ SendsNothing(j))
  BY StepShape
<1>3. UNCHANGED <<provider, windowOpen, written, aside, content>>
  BY <1>2 DEF world
<1>4. Parts(j) \in Seq(Formats) /\ part[j] \in Nat \ {0} /\ copies[j] \in Seq(Nat)
      /\ Len(copies[j]) = Len(Parts(j)) /\ tries[j] \in 0..MaxAttempts - 1
      /\ part[j] \in DOMAIN Parts(j) \union {1}
  BY <1>2 DEF Parts, Jobs
<1>5. ASSUME Parts(j) # <<>> PROVE part[j] \in DOMAIN copies[j]
  BY <1>4, <1>5
<1>6. pc' \in [Jobs -> {"none", "running", "note", "done", "failed"}]
      /\ pc'[j] # "none" /\ \A k \in Jobs : k # j => pc'[k] = pc[k]
  BY <1>2 DEF Sends, SendsNothing, Ends, StartsOver, GoesOn
<1>7. tries' \in [Jobs -> 0..MaxAttempts - 1]
  <2>1. \/ tries' = tries
        \/ tries[j] + 1 < MaxAttempts /\ tries' = [tries EXCEPT ![j] = @ + 1]
    BY <1>2 DEF Sends, SendsNothing, Ends, StartsOver, GoesOn
  <2>2. tries[j] + 1 < MaxAttempts => tries[j] + 1 \in 0..MaxAttempts - 1
    BY <1>4
  <2> QED BY <2>1, <2>2
<1>8. part' \in [Jobs -> Nat \ {0}] /\ (\A k \in Jobs : k # j => part'[k] = part[k])
      /\ part'[j] \in DOMAIN Parts(j) \union {1}
  <2>1. CASE UNCHANGED part
    BY <2>1, <1>4
  <2>2. CASE part' = [part EXCEPT ![j] = 1]
    BY <2>2, <1>4
  <2>3. CASE Parts(j) # <<>> /\ ~LastPart(j) /\ part' = [part EXCEPT ![j] = @ + 1]
    <3>1. part[j] + 1 \in 1..Len(Parts(j))
      BY <2>3, <1>4 DEF LastPart
    <3> QED BY <2>3, <3>1, <1>4
  <2> QED BY <1>2, <2>1, <2>2, <2>3 DEF Sends, SendsNothing, Ends, StartsOver, GoesOn
<1>9. copies' \in [Jobs -> Seq(Nat)] /\ (\A k \in Jobs : k # j => copies'[k] = copies[k])
      /\ Len(copies'[j]) = Len(copies[j])
  <2>1. CASE UNCHANGED copies
    BY <2>1
  <2>2. CASE Sends(j)
    <3>1. Bump(copies[j], part[j]) \in Seq(Nat)
          /\ Len(Bump(copies[j], part[j])) = Len(copies[j])
      BY <2>2, <1>4, <1>5, BumpSeq DEF Sends
    <3> QED BY <2>2, <3>1 DEF Sends
  <2> QED BY <1>2, <2>1, <2>2 DEF SendsNothing
<1>10. \A k \in Jobs : /\ part'[k] \in DOMAIN Parts(k)' \union {1}
                       /\ pc'[k] # "none" => Len(copies'[k]) = Len(Parts(k)')
                       /\ pc'[k] = "none" => part'[k] = 1 /\ copies'[k] = <<>>
  BY <1>3, <1>4, <1>6, <1>8, <1>9, <1>2 DEF Parts
<1> QED BY <1>1, <1>3, <1>6, <1>7, <1>8, <1>9, <1>10, StepTypes

LEMMA WebhookTyped ==
  ASSUME Typed,
         (\E e \in cwHooks : CWWebhook(e)) \/ (\E e \in waHooks : WAWebhook(e))
  PROVE  Typed'
<1> USE DEF Typed, TypeOK, Fresh, Started
<1>1. Honest'
  BY WebhookStep
<1>2. PICK j \in Jobs : Enqueue(j) \/ Ignore
  <2>1. ASSUME NEW e \in cwHooks, CWWebhook(e)
        PROVE  \E k \in Jobs : Enqueue(k) \/ Ignore
    <3>1. <<"out", e.body>> \in Jobs
      BY DEF Jobs, Directions
    <3> QED BY <2>1, <3>1 DEF CWWebhook
  <2>2. ASSUME NEW e \in waHooks, WAWebhook(e)
        PROVE  \E k \in Jobs : Enqueue(k) \/ Ignore
    <3>1. <<"in", e.body>> \in Jobs
      BY DEF Jobs, Directions
    <3> QED BY <2>2, <3>1 DEF WAWebhook
  <2> QED BY <2>1, <2>2
<1>3. /\ cwHooks' \subseteq cwHooks /\ waHooks' \subseteq waHooks
      /\ UNCHANGED <<provider, windowOpen, written, aside, content, part, tries, notes, faults>>
  BY DEF CWWebhook, WAWebhook, world
<1>4. CASE Ignore
  BY <1>1, <1>3, <1>4 DEF Parts, Ignore
<1>5. CASE Enqueue(j) /\ pc[j] = "none"
  <2>1. Parts(j) \in Seq(Formats)
    BY DEF Parts, Jobs
  <2> DEFINE zeros == [p \in DOMAIN Parts(j) |-> 0]
  <2>2. zeros \in Seq(Nat) /\ Len(zeros) = Len(Parts(j))
    BY <2>1
  <2>3. /\ \/ pc' = [pc EXCEPT ![j] = "running"] /\ UNCHANGED cause
           \/ pc' = [pc EXCEPT ![j] = "failed"] /\ cause' = [cause EXCEPT ![j] = "full"]
        /\ copies' = [copies EXCEPT ![j] = zeros]
    BY <1>5 DEF Enqueue, Accept
  <2>4. copies' \in [Jobs -> Seq(Nat)]
    BY <2>2, <2>3
  <2>5. \A k \in Jobs : /\ part'[k] \in DOMAIN Parts(k)' \union {1}
                        /\ pc'[k] # "none" => Len(copies'[k]) = Len(Parts(k)')
                        /\ pc'[k] = "none" => part'[k] = 1 /\ copies'[k] = <<>>
    BY <1>3, <2>2, <2>3 DEF Parts
  <2>6. pc' \in [Jobs -> {"none", "running", "note", "done", "failed"}]
        /\ cause' \in [Jobs -> Causes]
    BY <2>3 DEF Causes
  <2> QED BY <1>1, <1>3, <2>4, <2>5, <2>6
<1> QED BY <1>2, <1>4, <1>5 DEF Enqueue

LEMMA WriteTyped ==
  ASSUME Typed,
         \/ \E d \in Drafts, c \in OutContents, private \in BOOLEAN : AgentWrites(d, c, private)
         \/ \E t \in Texts, c \in InContents : CustomerWrites(t, c)
         \/ WindowCloses
  PROVE  Typed'
<1> USE DEF Typed, TypeOK, Fresh, Started
<1>1. Honest'
  BY WriteStep
<1>2. UNCHANGED <<provider, pc, part, tries, cause, copies, notes, faults>>
  BY DEF AgentWrites, CustomerWrites, WindowCloses, jobVars
<1>3. windowOpen' \in BOOLEAN
  BY DEF AgentWrites, CustomerWrites, WindowCloses
<1>4. written' \subseteq Drafts \union Texts /\ aside' \subseteq Drafts
  BY DEF AgentWrites, CustomerWrites, WindowCloses
<1>5. content' = content
        \/ \E b \in Bodies \ written, c \in Seq(Formats) : content' = [content EXCEPT ![b] = c]
  BY DEF AgentWrites, CustomerWrites, WindowCloses, Bodies
<1>6. cwHooks' \subseteq [type : {"incoming", "outgoing"}, private : BOOLEAN, body : Bodies]
  <2>1. \A d \in Drafts, private \in BOOLEAN : CWMessage("outgoing", private, d)
          \in [type : {"incoming", "outgoing"}, private : BOOLEAN, body : Bodies]
    BY DEF CWMessage, Bodies
  <2>2. \/ cwHooks' = cwHooks
        \/ \E d \in Drafts, private \in BOOLEAN :
             cwHooks' = cwHooks \union {CWMessage("outgoing", private, d)}
    BY DEF AgentWrites, CustomerWrites, WindowCloses
  <2> QED BY <2>1, <2>2
<1>7. waHooks' \subseteq [fromMe : BOOLEAN, body : Bodies]
  <2>1. \A t \in Texts : WAMessage(FALSE, t) \in [fromMe : BOOLEAN, body : Bodies]
    BY DEF WAMessage, Bodies
  <2>2. \/ waHooks' = waHooks
        \/ \E t \in Texts : waHooks' = waHooks \union {WAMessage(FALSE, t)}
    BY DEF AgentWrites, CustomerWrites, WindowCloses
  <2> QED BY <2>1, <2>2
<1>8. content' \in [Bodies -> Seq(Formats)]
      /\ \A j \in Jobs : Started(j) => Parts(j)' = Parts(j)
  <2>1. \A j \in Jobs : j[2] \in Bodies /\ (Started(j) => j[2] \in written)
    BY DEF Honest, Human, Jobs
  <2>2. ASSUME NEW b \in Bodies \ written, NEW c \in Seq(Formats),
               content' = [content EXCEPT ![b] = c]
        PROVE  /\ content' \in [Bodies -> Seq(Formats)]
               /\ \A j \in Jobs : Started(j) => content'[j[2]] = content[j[2]]
    BY <2>1, <2>2
  <2> QED BY <1>5, <2>2 DEF Parts
<1>9. \A j \in Jobs : /\ part'[j] \in DOMAIN Parts(j)' \union {1}
                      /\ pc'[j] # "none" => Len(copies'[j]) = Len(Parts(j)')
  BY <1>2, <1>8
<1> QED BY <1>1, <1>2, <1>3, <1>4, <1>6, <1>7, <1>8, <1>9

LEMMA InitTyped == Init => Typed
<1> SUFFICES ASSUME Init PROVE Typed
  OBVIOUS
<1>1. <<"text">> \in Seq(Formats) /\ <<>> \in Seq(Nat)
  BY DEF Formats
<1> QED BY <1>1, InitHonest DEF Init, Typed, TypeOK, Fresh, Started, Causes

LEMMA TypedStep == Typed /\ [Next]_vars => Typed'
<1>1. ASSUME Typed, UNCHANGED vars PROVE Typed'
  BY <1>1, HonestStep DEF vars, Typed, TypeOK, Fresh, Started, Parts
<1> QED BY <1>1, JobTyped, WebhookTyped, WriteTyped DEF Next

\* Every variable of Relay has its type.
THEOREM RelayTypes == Spec => []TypeOK
<1>1. Typed => TypeOK
  BY DEF Typed
<1> QED BY <1>1, InitTyped, TypedStep, PTL DEF Spec

-----------------------------------------------------------------------------
(* Parts in order                                                          *)

\* How often each part of a message was taken, for a job in state s at part k after
\* t failed attempts: the parts before k once more than the others, and each no
\* more often than there were attempts at it.
Counts(c, k, t, s) ==
  \A p \in DOMAIN c :
    /\ c[p] <= t + 1
    /\ s = "running" /\ p >= k => c[p] <= t
    /\ p < k \/ s = "done" => c[p] > 0
    /\ \A q \in DOMAIN c : p < q =>
         /\ c[p] >= c[q]
         /\ s = "running" /\ p < k /\ k <= q => c[p] > c[q]

AtPart(j) == Counts(copies[j], part[j], tries[j], pc[j])

\* One more attempt, or none, after which nothing was sent.
LEMMA CountsKept ==
  ASSUME NEW c \in Seq(Nat), NEW k \in Nat \ {0}, NEW t \in Nat, NEW s, s # "done",
         Counts(c, k, t, s)
  PROVE  /\ Counts(c, k, t, "failed") /\ Counts(c, k, t, "note")
         /\ Counts(c, 1, t + 1, "running")
<1>1. DOMAIN c = 1..Len(c) /\ \A p \in DOMAIN c : c[p] \in Nat
  OBVIOUS
<1>2. Counts(c, k, t, "failed") /\ Counts(c, k, t, "note")
  BY DEF Counts
<1>3. Counts(c, 1, t + 1, "running")
  BY <1>1 DEF Counts
<1> QED BY <1>2, <1>3

\* The part the attempt is at was sent.
LEMMA CountsSent ==
  ASSUME NEW c \in Seq(Nat), NEW k \in DOMAIN c, NEW t \in Nat, Counts(c, k, t, "running")
  PROVE  LET d == Bump(c, k) IN
         /\ Counts(d, k, t, "failed") /\ Counts(d, k, t, "note")
         /\ Counts(d, 1, t + 1, "running")
         /\ Counts(d, k + 1, t, "running")
         /\ k >= Len(c) => Counts(d, k, t, "done")
<1> DEFINE d == Bump(c, k)
<1>1. DOMAIN c = 1..Len(c) /\ \A p \in DOMAIN c : c[p] \in Nat
  OBVIOUS
<1>2. /\ d \in Seq(Nat) /\ Len(d) = Len(c)
      /\ \A q \in DOMAIN c : d[q] = IF q = k THEN c[k] + 1 ELSE c[q]
  BY BumpSeq
<1>3. DOMAIN d = 1..Len(c) /\ \A p \in DOMAIN d : d[p] \in Nat
  BY <1>2
<1> HIDE DEF d
<1>4. ASSUME NEW p \in 1..Len(c)
      PROVE  /\ d[p] <= t + 1
             /\ p > k => d[p] <= t
             /\ p <= k => d[p] > 0
  <2>1. c[p] \in Nat /\ k \in 1..Len(c) /\ c[k] \in Nat
    BY <1>1, <1>4
  <2>2. d[p] = IF p = k THEN c[k] + 1 ELSE c[p]
    BY <1>1, <1>2, <1>4
  <2>3. /\ c[p] <= t + 1 /\ c[k] <= t
        /\ p >= k => c[p] <= t
        /\ p < k => c[p] > 0
    BY <1>1, <1>4, <2>1 DEF Counts
  <2> QED BY <1>4, <2>1, <2>2, <2>3
<1>5. ASSUME NEW p \in 1..Len(c), NEW q \in 1..Len(c), p < q
      PROVE  d[p] >= d[q] /\ (p <= k /\ k < q => d[p] > d[q])
  <2>1. c[p] >= c[q] /\ (p < k /\ k <= q => c[p] > c[q])
    BY <1>1, <1>5 DEF Counts
  <2>2. c[p] \in Nat /\ c[q] \in Nat /\ k \in 1..Len(c)
    BY <1>1, <1>5
  <2>3. /\ d[p] = IF p = k THEN c[p] + 1 ELSE c[p]
        /\ d[q] = IF q = k THEN c[q] + 1 ELSE c[q]
    BY <1>1, <1>2, <1>5
  <2>4. CASE q = k
    BY <1>5, <2>1, <2>2, <2>3, <2>4
  <2>5. CASE q # k
    BY <1>5, <2>1, <2>2, <2>3, <2>5
  <2> QED BY <2>4, <2>5
<1>6. Counts(d, k, t, "failed") /\ Counts(d, k, t, "note")
  BY <1>1, <1>3, <1>4, <1>5 DEF Counts
<1>7. Counts(d, 1, t + 1, "running")
  BY <1>1, <1>3, <1>4, <1>5 DEF Counts
<1>8. Counts(d, k + 1, t, "running")
  BY <1>1, <1>3, <1>4, <1>5 DEF Counts
<1>9. k >= Len(c) => Counts(d, k, t, "done")
  BY <1>1, <1>3, <1>4, <1>5 DEF Counts
<1> QED BY <1>6, <1>7, <1>8, <1>9 DEF d

Ordered == \A j \in Jobs : AtPart(j)
OrderInv == Typed /\ Ordered

LEMMA InitOrdered == Init => OrderInv
<1> SUFFICES ASSUME Init PROVE Ordered
  BY InitTyped DEF OrderInv
<1>1. \A j \in Jobs : DOMAIN copies[j] = {}
  BY DEF Init
<1> QED BY <1>1 DEF Ordered, AtPart, Counts

\* What one job does to its own counts.
LEMMA OwnCounts ==
  ASSUME OrderInv, NEW j \in Jobs, Step(j)
  PROVE  AtPart(j)'
<1>1. pc[j] \in {"running", "note"} /\ (Sends(j) \/ SendsNothing(j))
  BY StepShape
<1>2. /\ pc \in [Jobs -> {"none", "running", "note", "done", "failed"}]
      /\ part \in [Jobs -> Nat \ {0}] /\ tries \in [Jobs -> 0..MaxAttempts - 1]
      /\ copies \in [Jobs -> Seq(Nat)]
      /\ Parts(j) \in Seq(Formats) /\ part[j] \in DOMAIN Parts(j) \union {1}
      /\ Len(copies[j]) = Len(Parts(j))
  BY <1>1 DEF OrderInv, Typed, TypeOK, Parts, Jobs
<1>3. copies[j] \in Seq(Nat) /\ part[j] \in Nat \ {0} /\ tries[j] \in Nat
  BY <1>2
<1>4. Counts(copies[j], part[j], tries[j], pc[j])
  BY DEF OrderInv, Ordered, AtPart
<1>5. Ends(j) => /\ pc'[j] \in {"failed", "note"}
                 /\ part'[j] = part[j] /\ tries'[j] = tries[j]
  BY <1>2 DEF Ends
<1>6. StartsOver(j) => pc'[j] = pc[j] /\ part'[j] = 1 /\ tries'[j] = tries[j] + 1
  BY <1>2 DEF StartsOver
<1>7. GoesOn(j) =>
        /\ tries'[j] = tries[j]
        /\ \/ part[j] >= Len(copies[j]) /\ pc'[j] = "done" /\ part'[j] = part[j]
           \/ pc'[j] = pc[j] /\ part'[j] = part[j] + 1
  BY <1>2 DEF GoesOn, LastPart
<1>8. CASE SendsNothing(j)
  <2>1. copies'[j] = copies[j] /\ (Ends(j) \/ (pc[j] = "running" /\ StartsOver(j)))
    BY <1>8 DEF SendsNothing
  <2>2. /\ Counts(copies[j], part[j], tries[j], "failed")
        /\ Counts(copies[j], part[j], tries[j], "note")
        /\ Counts(copies[j], 1, tries[j] + 1, "running")
    BY <1>1, <1>3, <1>4, CountsKept
  <2> QED BY <1>5, <1>6, <2>1, <2>2 DEF AtPart
<1>9. CASE Sends(j)
  <2>1. pc[j] = "running" /\ (StartsOver(j) \/ Ends(j) \/ GoesOn(j)) /\ Parts(j) # <<>>
    BY <1>9 DEF Sends
  <2>2. part[j] \in DOMAIN copies[j]
    BY <1>2, <1>3, <2>1
  <2> DEFINE d == Bump(copies[j], part[j])
  <2>3. copies'[j] = d
    BY <1>2, <1>9 DEF Sends
  <2>4. /\ Counts(d, part[j], tries[j], "failed") /\ Counts(d, part[j], tries[j], "note")
        /\ Counts(d, 1, tries[j] + 1, "running")
        /\ Counts(d, part[j] + 1, tries[j], "running")
        /\ part[j] >= Len(copies[j]) => Counts(d, part[j], tries[j], "done")
    BY <1>3, <1>4, <2>1, <2>2, CountsSent
  <2> HIDE DEF d
  <2> QED BY <1>5, <1>6, <1>7, <2>1, <2>3, <2>4 DEF AtPart
<1> QED BY <1>1, <1>8, <1>9

\* A step of another job leaves the counts alone.
LEMMA OtherCounts ==
  ASSUME OrderInv, NEW j \in Jobs, Step(j), NEW k \in Jobs, k # j
  PROVE  AtPart(k)'
<1>1. Sends(j) \/ SendsNothing(j)
  BY StepShape
<1>2. pc \in [Jobs -> {"none", "running", "note", "done", "failed"}]
      /\ part \in [Jobs -> Nat \ {0}] /\ tries \in [Jobs -> 0..MaxAttempts - 1]
      /\ copies \in [Jobs -> Seq(Nat)]
  BY DEF OrderInv, Typed, TypeOK
<1>3. pc'[k] = pc[k] /\ part'[k] = part[k] /\ tries'[k] = tries[k] /\ copies'[k] = copies[k]
  BY <1>1, <1>2 DEF Sends, SendsNothing, Ends, StartsOver, GoesOn
<1> QED BY <1>3 DEF OrderInv, Ordered, AtPart

LEMMA OrderedStep == OrderInv /\ [Next]_vars => OrderInv'
<1> SUFFICES ASSUME OrderInv, [Next]_vars PROVE Ordered'
  BY TypedStep DEF OrderInv
<1>1. ASSUME NEW j \in Jobs, Step(j) PROVE Ordered'
  BY <1>1, OwnCounts, OtherCounts DEF Ordered
<1>2. CASE UNCHANGED <<pc, part, tries, copies>>
  BY <1>2 DEF OrderInv, Ordered, AtPart
<1>3. ASSUME NEW j \in Jobs, Enqueue(j), UNCHANGED <<part, tries>> PROVE Ordered'
  <2>1. CASE pc[j] = "none"
    <3>1. part[j] = 1 /\ tries[j] \in Nat
      BY <2>1 DEF OrderInv, Typed, Fresh, Started, TypeOK
    <3>2. \A p \in DOMAIN Parts(j) : p \in Nat \ {0}
      BY DEF OrderInv, Typed, TypeOK, Parts, Jobs
    <3>3. copies'[j] = [p \in DOMAIN Parts(j) |-> 0]
      BY <1>3, <2>1 DEF OrderInv, Typed, TypeOK, Enqueue, Accept
    <3>4. pc'[j] \in {"running", "failed"} /\ part'[j] = 1 /\ tries'[j] = tries[j]
      BY <1>3, <2>1, <3>1 DEF OrderInv, Typed, TypeOK, Enqueue, Accept
    <3>5. AtPart(j)'
      <4>1. DOMAIN copies'[j] = DOMAIN Parts(j)
        BY <3>3
      <4>2. \A p \in DOMAIN Parts(j) : copies'[j][p] = 0 /\ p \in Nat \ {0}
        BY <3>2, <3>3
      <4>3. /\ Counts(copies'[j], 1, tries[j], "running")
            /\ Counts(copies'[j], 1, tries[j], "failed")
        BY <3>1, <4>1, <4>2 DEF Counts
      <4> QED BY <3>4, <4>3 DEF AtPart
    <3>6. \A k \in Jobs : k # j => pc'[k] = pc[k] /\ copies'[k] = copies[k]
      BY <1>3, <2>1 DEF OrderInv, Typed, TypeOK, Enqueue, Accept
    <3> QED BY <1>3, <3>5, <3>6 DEF OrderInv, Ordered, AtPart
  <2> QED BY <1>2, <1>3, <2>1 DEF Enqueue, Ignore
<1>4. CASE (\E e \in cwHooks : CWWebhook(e)) \/ (\E e \in waHooks : WAWebhook(e))
  <2>1. ASSUME NEW e \in cwHooks, CWWebhook(e) PROVE Ordered'
    <3>1. <<"out", e.body>> \in Jobs
      BY DEF OrderInv, Typed, TypeOK, Jobs, Directions
    <3> QED BY <1>2, <1>3, <2>1, <3>1 DEF CWWebhook, Ignore
  <2>2. ASSUME NEW e \in waHooks, WAWebhook(e) PROVE Ordered'
    <3>1. <<"in", e.body>> \in Jobs
      BY DEF OrderInv, Typed, TypeOK, Jobs, Directions
    <3> QED BY <1>2, <1>3, <2>2, <3>1 DEF WAWebhook, Ignore
  <2> QED BY <1>4, <2>1, <2>2
<1>5. CASE \/ \E d \in Drafts, c \in OutContents, private \in BOOLEAN : AgentWrites(d, c, private)
           \/ \E t \in Texts, c \in InContents : CustomerWrites(t, c)
           \/ WindowCloses \/ UNCHANGED vars
  BY <1>2, <1>5 DEF AgentWrites, CustomerWrites, WindowCloses, jobVars, vars
<1> QED BY <1>1, <1>4, <1>5 DEF Next

\* Whatever fails, is lost or is tried again, the other end receives the parts of
\* a message in order, none more often than it was tried.
THEOREM PartsArriveInOrder == Spec => []PartsInOrder
<1>1. OrderInv => PartsInOrder
  BY DEF OrderInv, Ordered, AtPart, Counts, PartsInOrder
<1> QED BY <1>1, InitOrdered, OrderedStep, PTL DEF Spec

\* A done message was received whole.
THEOREM DoneIsWhole == Spec => []DoneMeansAllParts
<1>1. OrderInv => DoneMeansAllParts
  <2> SUFFICES ASSUME OrderInv, NEW j \in Jobs, pc[j] = "done", NEW p \in DOMAIN Parts(j)
               PROVE  copies[j][p] > 0
    BY DEF DoneMeansAllParts
  <2>1. Parts(j) \in Seq(Formats) /\ copies[j] \in Seq(Nat) /\ Len(copies[j]) = Len(Parts(j))
    BY DEF OrderInv, Typed, TypeOK, Parts, Jobs
  <2>2. p \in DOMAIN copies[j]
    BY <2>1
  <2> QED BY <2>2 DEF OrderInv, Ordered, AtPart, Counts
<1> QED BY <1>1, InitOrdered, OrderedStep, PTL DEF Spec

-----------------------------------------------------------------------------
(* Why messages fail                                                       *)

\* A job that has not failed has neither cause nor note.
NoteOf(j) ==
  /\ pc[j] # "failed" => notes[j] = 0 /\ cause[j] = "none"
  /\ notes[j] <= 1
  /\ notes[j] = 1 => cause[j] = "window"
  /\ cause[j] = "window" /\ faults = 0 => notes[j] = 1

Blameless(j) ==
  faults = 0 /\ pc[j] = "failed" =>
    \/ cause[j] \in {"window", "full"}
    \/ Missing(j)
    \/ \E p \in DOMAIN Parts(j) : Parts(j)[p] \in {"bad", "big"}

CauseInv == Typed /\ \A j \in Jobs : NoteOf(j) /\ Blameless(j)

LEMMA InitCauses == Init => CauseInv
BY InitTyped DEF Init, CauseInv, NoteOf, Blameless

\* The ways a job fails, with the faults they cost.
LEMMA StepFails ==
  ASSUME Typed, NEW j \in Jobs, Step(j)
  PROVE  /\ pc[j] \in {"running", "note"} /\ UNCHANGED content
         /\ faults' \in Nat /\ faults' >= faults
         /\ \/ UNCHANGED <<cause, notes>> /\ pc'[j] # "failed"
            \/ /\ pc'[j] = "failed" /\ UNCHANGED notes
               /\ \E why \in Causes \ {"none", "window"} : cause' = [cause EXCEPT ![j] = why]
               /\ \/ faults' > faults
                  \/ Missing(j)
                  \/ ~Missing(j) /\ Format(j) \in {"bad", "big"}
            \/ /\ pc'[j] = "failed" /\ cause' = [cause EXCEPT ![j] = "window"]
               /\ \/ notes' = [notes EXCEPT ![j] = @ + 1]
                  \/ UNCHANGED notes /\ faults' > faults
<1>0. /\ pc \in [Jobs -> {"none", "running", "note", "done", "failed"}] /\ faults \in Nat
      /\ pc[j] \in {"running", "note"} /\ UNCHANGED content
  BY StepShape DEF Typed, TypeOK, world
<1>1. CASE Reject(j)
  <2>1. faults' = faults \/ faults' = faults + 1
    BY <1>1 DEF Reject, Faults
  <2>2. faults' > faults \/ Missing(j) \/ (~Missing(j) /\ Format(j) \in {"bad", "big"})
    BY <1>0, <1>1 DEF Reject, Rejected, Faults
  <2>3. /\ pc'[j] = "failed" /\ UNCHANGED notes
        /\ cause' = [cause EXCEPT ![j] = "unsupported"]
    BY <1>0, <1>1 DEF Reject, Fail
  <2>4. "unsupported" \in Causes \ {"none", "window"}
    BY DEF Causes
  <2>5. faults' \in Nat /\ faults' >= faults
    BY <1>0, <2>1
  <2> QED BY <1>0, <2>2, <2>3, <2>4, <2>5
<1>2. CASE WindowRefuses(j)
  BY <1>0, <1>2 DEF WindowRefuses
<1>3. CASE PostNote(j)
  <2>1. pc'[j] = "failed" /\ cause' = [cause EXCEPT ![j] = "window"]
    BY <1>0, <1>3 DEF PostNote, Fail
  <2>2. CASE NotePosted(j) /\ \E n \in {0, 1} : Faults(n)
    BY <1>0, <2>1, <2>2 DEF Faults, NotePosted
  <2>3. CASE Faults(1) /\ UNCHANGED notes
    BY <1>0, <2>1, <2>3 DEF Faults
  <2> QED BY <1>3, <2>2, <2>3 DEF PostNote
<1>4. ASSUME NEW head \in BOOLEAN, NEW lost \in BOOLEAN, Send(j, head, lost)
      PROVE  /\ faults' \in Nat /\ faults' >= faults /\ UNCHANGED notes
             /\ \/ UNCHANGED cause /\ pc'[j] # "failed"
                \/ /\ pc'[j] = "failed" /\ cause' = [cause EXCEPT ![j] = "exhausted"]
                   /\ faults' > faults
  <2>1. faults' = faults + ((IF head THEN 0 ELSE 1) + (IF lost THEN 1 ELSE 0))
    BY <1>4 DEF Send, Faults
  <2>2. pc[j] = "running" /\ UNCHANGED notes
    BY <1>4 DEF Send
  <2>3. lost \/ (UNCHANGED cause /\ pc'[j] # "failed")
    BY <1>0, <1>4, <2>2 DEF Send
  <2>4. lost => \/ UNCHANGED cause /\ pc'[j] # "failed"
                \/ pc'[j] = "failed" /\ cause' = [cause EXCEPT ![j] = "exhausted"]
    BY <1>0, <1>4, <2>2 DEF Send, Retry, Fail
  <2> QED BY <1>0, <2>1, <2>2, <2>3, <2>4
<1>5. ASSUME NEW r \in Replies, Refuse(j, r)
      PROVE  /\ faults' \in Nat /\ faults' > faults /\ UNCHANGED notes
             /\ \/ UNCHANGED cause /\ pc'[j] # "failed"
                \/ /\ pc'[j] = "failed"
                   /\ \E why \in Causes \ {"none", "window"} : cause' = [cause EXCEPT ![j] = why]
  <2>1. faults' = faults + 1 /\ UNCHANGED notes /\ pc[j] = "running"
    BY <1>5 DEF Refuse, Faults
  <2>2. (r \in {"4xx", "429", "coded"} /\ Fail(j, r)) \/ Retry(j)
    BY <1>5 DEF Refuse, Permanent
  <2> QED BY <1>0, <2>1, <2>2 DEF Fail, Retry, Causes
<1>6. "exhausted" \in Causes \ {"none", "window"}
  BY DEF Causes
<1> QED BY <1>0, <1>1, <1>2, <1>3, <1>4, <1>5, <1>6 DEF Step

LEMMA CauseKept ==
  ASSUME CauseInv, NEW j \in Jobs, Step(j)
  PROVE  \A k \in Jobs : (NoteOf(k) /\ Blameless(k))'
<1>0. /\ pc \in [Jobs -> {"none", "running", "note", "done", "failed"}]
      /\ cause \in [Jobs -> Causes] /\ notes \in [Jobs -> Nat] /\ faults \in Nat
  BY DEF CauseInv, Typed, TypeOK
<1>1. NoteOf(j) /\ pc[j] # "failed" /\ notes[j] = 0 /\ cause[j] = "none"
  BY StepFails DEF CauseInv, NoteOf
<1>2. \A k \in Jobs : Parts(k)' = Parts(k) /\ Missing(k)' = Missing(k)
  BY StepFails DEF CauseInv, Parts, Missing
<1>3. /\ faults' \in Nat /\ faults' >= faults
  BY StepFails DEF CauseInv
<1>4. ASSUME NEW k \in Jobs, k # j PROVE (NoteOf(k) /\ Blameless(k))'
  <2>1. pc'[k] = pc[k] /\ cause'[k] = cause[k] /\ notes'[k] = notes[k]
    <3>1. pc'[k] = pc[k]
      BY <1>0, <1>4, StepShape DEF Sends, SendsNothing, Ends, StartsOver, GoesOn
    <3>2. cause'[k] = cause[k] /\ notes'[k] = notes[k]
      BY <1>0, <1>4, StepFails DEF CauseInv
    <3> QED BY <3>1, <3>2
  <2> QED BY <1>0, <1>2, <1>3, <2>1 DEF CauseInv, NoteOf, Blameless
<1>5. NoteOf(j)'
  BY <1>0, <1>1, <1>3, StepFails DEF CauseInv, NoteOf
<1>6. Blameless(j)'
  <2>1. ASSUME ~Missing(j) PROVE part[j] \in DOMAIN Parts(j)
    BY <2>1 DEF CauseInv, Typed, TypeOK, Missing, Parts, Jobs
  <2>2. \/ pc'[j] # "failed" \/ faults' > faults \/ Missing(j) \/ cause'[j] = "window"
        \/ ~Missing(j) /\ Format(j) \in {"bad", "big"}
    BY <1>0, StepFails DEF CauseInv
  <2> QED BY <1>0, <1>2, <1>3, <2>1, <2>2 DEF Blameless, Format
<1> QED BY <1>4, <1>5, <1>6

LEMMA CauseStep == CauseInv /\ [Next]_vars => CauseInv'
<1> SUFFICES ASSUME CauseInv, [Next]_vars PROVE \A j \in Jobs : (NoteOf(j) /\ Blameless(j))'
  BY TypedStep DEF CauseInv
<1>1. ASSUME NEW j \in Jobs, Step(j) PROVE \A k \in Jobs : (NoteOf(k) /\ Blameless(k))'
  BY <1>1, CauseKept
<1>2. CASE (\E e \in cwHooks : CWWebhook(e)) \/ (\E e \in waHooks : WAWebhook(e))
  <2>0. /\ pc \in [Jobs -> {"none", "running", "note", "done", "failed"}]
        /\ cause \in [Jobs -> Causes]
    BY DEF CauseInv, Typed, TypeOK
  <2>1. UNCHANGED <<content, notes, faults>>
    BY <1>2 DEF CWWebhook, WAWebhook, world
  <2>2. Ignore \/ \E j \in Jobs : pc[j] = "none" /\ Accept(j)
    BY <1>2 DEF CWWebhook, WAWebhook, Enqueue, Jobs, Directions, CauseInv, Typed, TypeOK
  <2>3. \A j \in Jobs :
          \/ pc'[j] = pc[j] /\ cause'[j] = cause[j]
          \/ pc[j] = "none" /\ pc'[j] = "running" /\ cause'[j] = cause[j]
          \/ pc[j] = "none" /\ pc'[j] = "failed" /\ cause'[j] = "full"
    <3>1. CASE Ignore
      BY <3>1 DEF Ignore
    <3>2. ASSUME NEW j \in Jobs, pc[j] = "none", Accept(j)
          PROVE  \A k \in Jobs :
                   \/ pc'[k] = pc[k] /\ cause'[k] = cause[k]
                   \/ pc[k] = "none" /\ pc'[k] = "running" /\ cause'[k] = cause[k]
                   \/ pc[k] = "none" /\ pc'[k] = "failed" /\ cause'[k] = "full"
      BY <2>0, <3>2 DEF Accept
    <3> QED BY <2>2, <3>1, <3>2
  <2> QED BY <2>1, <2>3 DEF CauseInv, NoteOf, Blameless, Parts, Missing
<1>3. CASE \/ \E d \in Drafts, c \in OutContents, private \in BOOLEAN : AgentWrites(d, c, private)
           \/ \E t \in Texts, c \in InContents : CustomerWrites(t, c)
           \/ WindowCloses
  <2>1. UNCHANGED <<pc, cause, notes, faults>>
    BY <1>3 DEF AgentWrites, CustomerWrites, WindowCloses, jobVars
  <2>2. \A j \in Jobs : Started(j) => Parts(j)' = Parts(j)
    <3>1. content' = content
            \/ \E b \in Bodies \ written, c \in Seq(Formats) : content' = [content EXCEPT ![b] = c]
      BY <1>3 DEF AgentWrites, CustomerWrites, WindowCloses, Bodies
    <3>2. \A j \in Jobs : j[2] \in Bodies /\ (Started(j) => j[2] \in written)
      BY DEF CauseInv, Typed, Honest, Human, Jobs
    <3>3. ASSUME NEW b \in Bodies \ written, NEW c \in Seq(Formats),
                 content' = [content EXCEPT ![b] = c]
          PROVE  \A j \in Jobs : Started(j) => content'[j[2]] = content[j[2]]
      BY <3>2, <3>3 DEF CauseInv, Typed, TypeOK
    <3> QED BY <3>1, <3>3 DEF Parts
  <2> QED BY <2>1, <2>2 DEF CauseInv, NoteOf, Blameless, Missing, Started
<1>4. CASE UNCHANGED vars
  BY <1>4 DEF vars, CauseInv, NoteOf, Blameless, Parts, Missing
<1> QED BY <1>1, <1>2, <1>3, <1>4 DEF Next

LEMMA CausesAlways == Spec => []CauseInv
BY InitCauses, CauseStep, PTL DEF Spec

\* An agent whose message the closed window stopped is told so once, and nobody
\* of another message (relayOutbound).
THEOREM NotesExplain == Spec => []NoteExplainsRefusal
<1>1. CauseInv => NoteExplainsRefusal
  BY DEF CauseInv, NoteOf, NoteExplainsRefusal
<1> QED BY <1>1, CausesAlways, PTL

\* While every call works, a message fails only for what it is, for the window, or
\* for a full channel (prepareMedia, runRetryLoop, enqueue).
THEOREM RelaysAreHealthy == Spec => []HealthyRelays
<1>1. CauseInv => HealthyRelays
  BY DEF CauseInv, Blameless, HealthyRelays
<1> QED BY <1>1, CausesAlways, PTL

-----------------------------------------------------------------------------
(* Every step counts                                                       *)

\* A step of a job is a descent, and touches no other job.
LEMMA StepDescends ==
  ASSUME Typed, NEW j \in Jobs, Step(j)
  PROVE  /\ NearerToEnd(j)
         /\ \A k \in Jobs : k # j =>
              /\ pc'[k] = pc[k] /\ part'[k] = part[k] /\ tries'[k] = tries[k]
              /\ copies'[k] = copies[k] /\ notes'[k] = notes[k]
<1>0. /\ pc \in [Jobs -> {"none", "running", "note", "done", "failed"}]
      /\ part \in [Jobs -> Nat \ {0}] /\ tries \in [Jobs -> 0..MaxAttempts - 1]
      /\ copies \in [Jobs -> Seq(Nat)] /\ notes \in [Jobs -> Nat]
  BY DEF Typed, TypeOK
<1>1. CASE Reject(j)
  BY <1>0, <1>1 DEF Reject, Fail, NearerToEnd
<1>2. CASE WindowRefuses(j)
  BY <1>0, <1>2 DEF WindowRefuses, NearerToEnd
<1>3. CASE PostNote(j)
  BY <1>0, <1>3 DEF PostNote, NotePosted, Fail, NearerToEnd
<1>4. ASSUME Retry(j), pc[j] = "running"
      PROVE  /\ NearerToEnd(j)
             /\ \A k \in Jobs : k # j => pc'[k] = pc[k] /\ part'[k] = part[k] /\ tries'[k] = tries[k]
  BY <1>0, <1>4 DEF Retry, Fail, NearerToEnd
<1>5. ASSUME NEW head \in BOOLEAN, NEW lost \in BOOLEAN, Send(j, head, lost)
      PROVE  /\ NearerToEnd(j)
             /\ \A k \in Jobs : k # j =>
                  /\ pc'[k] = pc[k] /\ part'[k] = part[k] /\ tries'[k] = tries[k]
                  /\ copies'[k] = copies[k] /\ notes'[k] = notes[k]
  <2>1. pc[j] = "running" /\ UNCHANGED notes /\ \A k \in Jobs : k # j => copies'[k] = copies[k]
    BY <1>0, <1>5 DEF Send
  <2>2. \/ Retry(j)
        \/ pc' = [pc EXCEPT ![j] = "done"] /\ UNCHANGED <<part, tries>>
        \/ part' = [part EXCEPT ![j] = @ + 1] /\ UNCHANGED <<pc, tries>>
    BY <1>5 DEF Send
  <2> QED BY <1>0, <1>4, <2>1, <2>2 DEF NearerToEnd
<1>6. ASSUME NEW r \in Replies, Refuse(j, r)
      PROVE  /\ NearerToEnd(j)
             /\ \A k \in Jobs : k # j =>
                  /\ pc'[k] = pc[k] /\ part'[k] = part[k] /\ tries'[k] = tries[k]
                  /\ copies'[k] = copies[k] /\ notes'[k] = notes[k]
  <2>1. pc[j] = "running" /\ UNCHANGED <<copies, notes>> /\ (Retry(j) \/ Fail(j, r))
    BY <1>6 DEF Refuse
  <2>2. CASE Fail(j, r)
    BY <1>0, <2>1, <2>2 DEF Fail, NearerToEnd
  <2> QED BY <1>4, <2>1, <2>2
<1> QED BY <1>1, <1>2, <1>3, <1>5, <1>6 DEF Step

\* Webhooks and people move no job that has begun.
LEMMA BegunJobsStay ==
  ASSUME Typed,
         \/ \E d \in Drafts, c \in OutContents, private \in BOOLEAN : AgentWrites(d, c, private)
         \/ \E t \in Texts, c \in InContents : CustomerWrites(t, c)
         \/ WindowCloses
         \/ \E e \in cwHooks : CWWebhook(e)
         \/ \E e \in waHooks : WAWebhook(e)
  PROVE  /\ UNCHANGED <<part, tries, notes>>
         /\ \A k \in Jobs : pc[k] # "none" => pc'[k] = pc[k] /\ copies'[k] = copies[k]
<1>0. /\ pc \in [Jobs -> {"none", "running", "note", "done", "failed"}]
      /\ copies \in [Jobs -> Seq(Nat)]
  BY DEF Typed, TypeOK
<1>1. UNCHANGED <<part, tries, notes>>
  BY DEF AgentWrites, CustomerWrites, WindowCloses, CWWebhook, WAWebhook, jobVars
<1>2. UNCHANGED <<pc, copies>> \/ \E j \in Jobs : Enqueue(j)
  BY DEF AgentWrites, CustomerWrites, WindowCloses, CWWebhook, WAWebhook, jobVars, Ignore,
         Typed, TypeOK, Jobs, Directions
<1> QED BY <1>0, <1>1, <1>2 DEF Enqueue, Accept, Ignore

\* Whatever a job does costs it an attempt, a part or its life.
THEOREM EveryStepIsCounted == Spec => EveryStepCounts
<1> DEFINE A == \A j \in Jobs : pc[j] # "none" =>
                  \/ NearerToEnd(j)
                  \/ /\ pc'[j] = pc[j] /\ part'[j] = part[j] /\ tries'[j] = tries[j]
                     /\ copies'[j] = copies[j] /\ notes'[j] = notes[j]
<1>1. ASSUME Typed, [Next]_vars PROVE [A]_vars
  <2>1. ASSUME NEW j \in Jobs, Step(j) PROVE A
    BY <1>1, <2>1, StepDescends
  <2>2. ASSUME Next, \A j \in Jobs : ~Step(j) PROVE A
    BY <1>1, <2>2, BegunJobsStay DEF Next
  <2> QED BY <1>1, <2>1, <2>2
<1>2. Spec => []Typed
  BY InitTyped, TypedStep, PTL DEF Spec
<1> QED BY <1>1, <1>2, PTL DEF Spec, EveryStepCounts

-----------------------------------------------------------------------------
(* The conversation                                                        *)

\* The mapping, and what it maps a step to.
RelayOf == [j \in Jobs |-> IF pc[j] \in {"running", "note"} THEN "open" ELSE pc[j]]
TalkStep == [Talk!TalkNext]_<<SaidOpenly, RelayOf, copies>>

LEMMA JobTalks ==
  ASSUME OrderInv, NEW j \in Jobs, Step(j)
  PROVE  TalkStep
<1>0. /\ pc \in [Jobs -> {"none", "running", "note", "done", "failed"}]
      /\ part \in [Jobs -> Nat \ {0}] /\ tries \in [Jobs -> 0..MaxAttempts - 1]
      /\ copies \in [Jobs -> Seq(Nat)]
  BY DEF OrderInv, Typed, TypeOK
<1>1. UNCHANGED world /\ pc[j] \in {"running", "note"} /\ (Sends(j) \/ SendsNothing(j))
  BY StepShape
<1>2. UNCHANGED SaidOpenly /\ RelayOf[j] = "open"
  BY <1>1 DEF SaidOpenly, RelayOf, world
<1>3. Ends(j) \/ StartsOver(j) =>
        RelayOf' = RelayOf \/ RelayOf' = [RelayOf EXCEPT ![j] = "failed"]
  BY <1>0, <1>1 DEF Ends, StartsOver, RelayOf
<1>4. GoesOn(j) => RelayOf' = RelayOf \/ (LastPart(j) /\ RelayOf' = [RelayOf EXCEPT ![j] = "done"])
  BY <1>0, <1>1 DEF GoesOn, RelayOf
<1>5. CASE SendsNothing(j)
  <2>1. UNCHANGED copies /\ (Ends(j) \/ StartsOver(j))
    BY <1>5 DEF SendsNothing
  <2>2. UNCHANGED <<SaidOpenly, RelayOf, copies>> \/ Talk!GiveUp(j)
    BY <1>2, <1>3, <2>1 DEF Talk!GiveUp, Talk!Turns, RelayOf
  <2> QED BY <2>2 DEF TalkStep, Talk!TalkNext
<1>6. CASE Sends(j)
  <2> DEFINE p == part[j]
  <2>1. /\ pc[j] = "running" /\ Parts(j) # <<>>
        /\ copies' = [copies EXCEPT ![j] = Bump(copies[j], p)]
        /\ Ends(j) \/ StartsOver(j) \/ GoesOn(j)
    BY <1>6 DEF Sends
  <2>2. /\ Parts(j) \in Seq(Formats) /\ Len(copies[j]) = Len(Parts(j))
        /\ p \in DOMAIN Parts(j) \union {1} /\ copies[j] \in Seq(Nat)
    BY <1>0, <2>1 DEF OrderInv, Typed, TypeOK, Parts, Jobs
  <2>3. p \in 1..Len(copies[j]) /\ DOMAIN copies[j] = 1..Len(copies[j])
    BY <2>1, <2>2
  <2>4. LastPart(j) => p = Len(copies[j])
    BY <2>2, <2>3 DEF LastPart
  <2>5. Talk!IsNext(j, p)
    <3>1. Counts(copies[j], p, tries[j], "running")
      BY <2>1 DEF OrderInv, Ordered, AtPart
    <3>2. CASE p = 1
      <4>1. copies[j][p] <= tries[j] /\ copies[j][p] \in Nat
        BY <2>2, <2>3, <3>1, <3>2 DEF Counts
      <4> QED BY <1>0, <3>2, <4>1 DEF Talk!IsNext
    <3>3. CASE p # 1
      <4>1. p - 1 \in DOMAIN copies[j] /\ p - 1 < p
        BY <2>3, <3>3
      <4>2. copies[j][p - 1] > copies[j][p]
        BY <2>3, <3>1, <4>1 DEF Counts
      <4>3. copies[j][p - 1] \in Nat /\ copies[j][p] \in Nat
        BY <2>2, <2>3, <4>1
      <4> QED BY <3>3, <4>2, <4>3 DEF Talk!IsNext
    <3> QED BY <3>2, <3>3
  <2>6. copies' = [copies EXCEPT ![j][p] = @ + 1]
    BY <2>1 DEF Bump
  <2>7. UNCHANGED RelayOf \/ Talk!Turns(j, "failed")
        \/ (p = Len(copies[j]) /\ Talk!Turns(j, "done"))
    BY <1>3, <1>4, <2>1, <2>4 DEF Talk!Turns, RelayOf
  <2>8. Talk!Receive(j, p)
    BY <1>2, <2>5, <2>6, <2>7 DEF Talk!Receive, RelayOf
  <2> QED BY <2>3, <2>8 DEF TalkStep, Talk!TalkNext
<1> QED BY <1>1, <1>5, <1>6

\* A webhook that passes the filters takes up what its author said openly.
LEMMA WebhookTalks ==
  ASSUME Typed, (\E e \in cwHooks : CWWebhook(e)) \/ (\E e \in waHooks : WAWebhook(e))
  PROVE  TalkStep
<1>0. /\ pc \in [Jobs -> {"none", "running", "note", "done", "failed"}]
      /\ copies \in [Jobs -> Seq(Nat)] /\ aside \subseteq Drafts
  BY DEF Typed, TypeOK
<1>1. UNCHANGED SaidOpenly
  BY DEF CWWebhook, WAWebhook, world, SaidOpenly
<1>2. UNCHANGED <<pc, copies>> \/ \E j \in SaidOpenly : Enqueue(j)
  <2>1. ASSUME NEW e \in cwHooks, chatwootShouldRelay(e)
        PROVE  <<"out", e.body>> \in SaidOpenly
    BY <2>1 DEF Typed, Honest, SaidOpenly, Jobs, Directions, Bodies
  <2>2. ASSUME NEW e \in waHooks, ~waIsFromMe(e), wablastReceived(e)
        PROVE  <<"in", e.body>> \in SaidOpenly
    <3>1. ~e.fromMe
      BY <2>2 DEF waIsFromMe, wablastReceived, Typed, Honest, Providers
    <3> QED BY <1>0, <3>1 DEF Typed, Honest, SaidOpenly, Jobs, Directions, Bodies
  <2> QED BY <2>1, <2>2 DEF CWWebhook, WAWebhook, Ignore
<1>3. ASSUME NEW j \in SaidOpenly, Enqueue(j), pc[j] = "none"
      PROVE  Talk!TakeUp(j)
  <2>1. j \in Jobs
    BY DEF SaidOpenly
  <2>2. /\ \/ pc' = [pc EXCEPT ![j] = "running"]
           \/ pc' = [pc EXCEPT ![j] = "failed"]
        /\ copies' = [copies EXCEPT ![j] = [p \in DOMAIN Parts(j) |-> 0]]
    BY <1>3 DEF Enqueue, Accept
  <2>3. /\ RelayOf[j] = "none"
        /\ \/ RelayOf' = [RelayOf EXCEPT ![j] = "open"]
           \/ RelayOf' = [RelayOf EXCEPT ![j] = "failed"]
    BY <1>0, <1>3, <2>1, <2>2 DEF RelayOf
  <2>4. /\ \A p \in DOMAIN copies'[j] : copies'[j][p] = 0
        /\ \A k \in Jobs \ {j} : copies'[k] = copies[k]
    BY <1>0, <2>1, <2>2
  <2> QED BY <1>1, <2>3, <2>4 DEF Talk!TakeUp, Talk!Turns, RelayOf
<1>4. SaidOpenly \subseteq Jobs
  BY DEF SaidOpenly
<1>5. CASE UNCHANGED <<pc, copies>>
  BY <1>1, <1>5 DEF TalkStep, RelayOf
<1>6. ASSUME NEW j \in SaidOpenly, Enqueue(j) PROVE TalkStep
  BY <1>3, <1>4, <1>5, <1>6 DEF Enqueue, Ignore, TalkStep, Talk!TalkNext
<1> QED BY <1>2, <1>5, <1>6

\* A public message is said; a private note is not.
LEMMA WritingTalks ==
  ASSUME Typed,
         \/ \E d \in Drafts, c \in OutContents, private \in BOOLEAN : AgentWrites(d, c, private)
         \/ \E t \in Texts, c \in InContents : CustomerWrites(t, c)
         \/ WindowCloses
  PROVE  TalkStep
<1>0. aside \subseteq written /\ aside \subseteq Drafts
  BY DEF Typed, Honest, TypeOK
<1>1. UNCHANGED <<pc, copies>> /\ UNCHANGED RelayOf
  BY DEF AgentWrites, CustomerWrites, WindowCloses, jobVars, RelayOf
<1>2. ASSUME NEW j \in Jobs \ SaidOpenly, SaidOpenly' = SaidOpenly \union {j} PROVE TalkStep
  BY <1>1, <1>2 DEF TalkStep, Talk!TalkNext, Talk!Say, RelayOf
<1>3. UNCHANGED SaidOpenly => TalkStep
  BY <1>1 DEF TalkStep
<1>4. ASSUME NEW d \in Drafts, NEW c \in OutContents, NEW private \in BOOLEAN,
             AgentWrites(d, c, private)
      PROVE  TalkStep
  <2>1. d \notin written /\ written' = written \union {d}
        /\ aside' = IF private THEN aside \union {d} ELSE aside
    BY <1>4 DEF AgentWrites
  <2>2. CASE private
    <3>1. written' \ aside' = written \ aside
      BY <1>0, <2>1, <2>2
    <3> QED BY <1>3, <3>1 DEF SaidOpenly
  <2>3. CASE ~private
    <3>1. written' \ aside' = (written \ aside) \union {d} /\ d \notin written \ aside
      BY <1>0, <2>1, <2>3
    <3>2. <<"out", d>> \in Jobs \ SaidOpenly
      BY <3>1 DEF Jobs, Directions, Bodies, SaidOpenly
    <3>3. d \notin Texts
      OBVIOUS
    <3>4. \A j \in Jobs : j \in SaidOpenly' <=> j \in SaidOpenly \/ j = <<"out", d>>
      BY <3>1, <3>3 DEF SaidOpenly, Jobs, Directions
    <3>5. SaidOpenly' = SaidOpenly \union {<<"out", d>>}
      BY <3>2, <3>4 DEF SaidOpenly
    <3> QED BY <1>2, <3>2, <3>5
  <2> QED BY <2>2, <2>3
<1>5. ASSUME NEW t \in Texts, NEW c \in InContents, CustomerWrites(t, c) PROVE TalkStep
  <2>1. t \notin written /\ written' = written \union {t} /\ aside' = aside
    BY <1>5 DEF CustomerWrites
  <2>2. written' \ aside' = (written \ aside) \union {t} /\ t \notin written \ aside
    BY <1>0, <2>1
  <2>3. <<"in", t>> \in Jobs \ SaidOpenly
    BY <2>2 DEF Jobs, Directions, Bodies, SaidOpenly
  <2>4. t \notin Drafts
    OBVIOUS
  <2>5. \A j \in Jobs : j \in SaidOpenly' <=> j \in SaidOpenly \/ j = <<"in", t>>
    BY <2>2, <2>4 DEF SaidOpenly, Jobs, Directions
  <2>6. SaidOpenly' = SaidOpenly \union {<<"in", t>>}
    BY <2>3, <2>5 DEF SaidOpenly
  <2> QED BY <1>2, <2>3, <2>6
<1>6. CASE WindowCloses
  BY <1>3, <1>6 DEF WindowCloses, SaidOpenly
<1> QED BY <1>4, <1>5, <1>6

\* What the webhooks, the filters and the retries make of a conversation is what
\* Conversation promises the people in it.
THEOREM RelayIsConversation == Spec => ImplementsConversation
<1>1. Init => Talk!TalkInit
  BY DEF Init, Talk!TalkInit, SaidOpenly
<1>2. OrderInv /\ [Next]_vars => [Talk!TalkNext]_(Talk!talk)
  <2>1. ASSUME OrderInv, [Next]_vars PROVE TalkStep
    <3>1. CASE UNCHANGED vars
      BY <3>1 DEF vars, TalkStep, SaidOpenly, RelayOf
    <3> QED BY <2>1, <3>1, JobTalks, WebhookTalks, WritingTalks DEF Next, OrderInv
  <2> QED BY <2>1 DEF TalkStep, Talk!talk, RelayOf
<1> QED BY <1>1, <1>2, InitOrdered, OrderedStep, PTL DEF Spec, ImplementsConversation, Talk!TalkSpec
=============================================================================
