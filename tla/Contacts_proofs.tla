-------------------------- MODULE Contacts_proofs --------------------------
(* Theorems about Contacts for any numbers, messages and workers, and any  *)
(* number of attempts and faults.                                          *)
EXTENDS Contacts, FiniteSetTheorems, TLAPS

USE ContactsAssumption

Steps == {"idle", "lookup", "contact", "search", "conversation", "upsert", "post"}
Busy == Steps \ {"idle"}

-----------------------------------------------------------------------------
(* Types                                                                   *)

WorkersOK ==
  /\ wpc \in [Workers -> Steps]
  /\ wmsg \in [Workers -> Msgs \union {None}]
  /\ \A w \in Workers : wpc[w] # "idle" => wmsg[w] \in Msgs
  /\ tries \in [Workers -> 0..MaxAttempts - 1]

ChatwootOK ==
  /\ cwContacts \subseteq Jids
  /\ convs \in Seq(Conversations)
  /\ posts \in [Msgs -> SUBSET (1..Len(convs))]

\* What refers to contacts and to conversations by id.
RefersOK ==
  /\ wcontact \in [Workers -> Jids \union {None}]
  /\ contactRow \in [Jids -> 0..Len(convs)]
  /\ wconv \in [Workers -> 0..Len(convs)]
  /\ orphans \subseteq 1..Len(convs)

OutcomeOK == outcome \in [Msgs -> {"queued", "running", "done", "failed"}]
BoundsOK == faults \in 0..MaxFaults /\ raced \subseteq Jids

\* TypeOK alone is not inductive: a conversation is opened for a contact and a message
\* posted in a conversation, not in none, as the worker knows one by then.
Known ==
  /\ \A w \in Workers : wpc[w] \in {"upsert", "post"} => wconv[w] # 0
  /\ \A w \in Workers : wpc[w] = "conversation" =>
       wcontact[w] \in Resembles[Jid(w)] \intersect cwContacts

TypeInv == TypeOK /\ Known

LEMMA Parts ==
  /\ TypeOK <=> WorkersOK /\ ChatwootOK /\ RefersOK /\ OutcomeOK /\ BoundsOK
  /\ TypeOK' <=> (WorkersOK /\ ChatwootOK /\ RefersOK /\ OutcomeOK /\ BoundsOK)'
BY DEF TypeOK, WorkersOK, ChatwootOK, RefersOK, OutcomeOK, BoundsOK, Steps

LEMMA ContactsInit == Init => TypeInv
BY DEF Init, TypeInv, TypeOK, Known

\* The two ways a worker goes on.
LEMMA WorkerMoves ==
  ASSUME WorkersOK, OutcomeOK, NEW w \in Workers, wpc[w] # "idle"
  PROVE  /\ \A step \in Busy : Continue(w, step) => WorkersOK' /\ OutcomeOK'
         /\ \A result \in {"done", "failed"} : Return(w, result) =>
              WorkersOK' /\ OutcomeOK' /\ wconv' = [wconv EXCEPT ![w] = 0] /\ Holds(w, None)
         /\ Retry(w) =>
              WorkersOK' /\ OutcomeOK' /\ wconv' = [wconv EXCEPT ![w] = 0] /\ Holds(w, None)
<1>1. ASSUME NEW step \in Busy, Continue(w, step) PROVE WorkersOK' /\ OutcomeOK'
  BY <1>1 DEF Continue, WorkersOK, OutcomeOK, Busy
<1>2. ASSUME NEW result \in {"done", "failed"}, Return(w, result)
      PROVE  WorkersOK' /\ OutcomeOK' /\ wconv' = [wconv EXCEPT ![w] = 0] /\ Holds(w, None)
  BY <1>2 DEF Return, Holds, WorkersOK, OutcomeOK, Steps
<1>3. ASSUME Retry(w), tries[w] + 1 < MaxAttempts
      PROVE  WorkersOK' /\ OutcomeOK' /\ wconv' = [wconv EXCEPT ![w] = 0] /\ Holds(w, None)
  BY <1>3 DEF Retry, Holds, WorkersOK, OutcomeOK, Steps
<1> QED BY <1>1, <1>2, <1>3 DEF Retry

\* A new conversation leaves the ones before it alone.
LEMMA ConversationAdded ==
  ASSUME ChatwootOK, NEW k \in Conversations, convs' = Append(convs, k)
  PROVE  /\ Len(convs) \in Nat /\ Len(convs') = Len(convs) + 1
         /\ convs' \in Seq(Conversations)
         /\ convs'[Len(convs) + 1] = k
         /\ \A c \in 1..Len(convs) : convs'[c] = convs[c]
BY DEF ChatwootOK

\* The conversation a worker is about to open is its sender's, and for a contact that
\* the search lists.
Opening(w) == Opened(w, wcontact[w])
LEMMA OpeningOK ==
  ASSUME TypeInv, NEW w \in Workers, wpc[w] = "conversation"
  PROVE  /\ Opening(w) \in Conversations
         /\ Opening(w).source = Jid(w)
         /\ Opening(w).contact \in Resembles[Jid(w)] \intersect cwContacts
BY DEF TypeInv, TypeOK, Known, Opening, Opened, Conversations, Jid

LEMMA WorkerReady ==
  ASSUME TypeOK, NEW w \in Workers, Step(w)
  PROVE  wpc[w] # "idle" /\ wmsg[w] \in Msgs /\ Jid(w) \in Jids
BY DEF TypeOK, Step, GetContact, CreateContact, FindContactByPhone, CreateConversation,
       UpsertContact, PostMessage, StepFails, UpsertFails, ReplyLost, FatalError, Jid

\* What every step does to the other workers.
LEMMA OthersStay ==
  ASSUME TypeOK, NEW w \in Workers, Step(w), NEW v \in Workers, v # w
  PROVE  /\ wpc'[v] = wpc[v] /\ wmsg'[v] = wmsg[v] /\ wconv'[v] = wconv[v]
         /\ wcontact'[v] = wcontact[v]
BY DEF TypeOK, Step, GetContact, CreateContact, FindContactByPhone, CreateConversation,
       UpsertContact, PostMessage, StepFails, UpsertFails, ReplyLost, FatalError, Continue, Return,
       Retry, Holds

LEMMA GoesOnTypes ==
  ASSUME TypeInv, NEW w \in Workers, Step(w),
         \/ GetContact(w) \/ CreateContact(w) \/ FindContactByPhone(w)
         \/ CreateConversation(w) \/ UpsertContact(w)
  PROVE  TypeOK'
<1>0. WorkersOK /\ ChatwootOK /\ RefersOK /\ OutcomeOK /\ BoundsOK
  BY Parts DEF TypeInv
<1>1. wpc[w] # "idle" /\ wmsg[w] \in Msgs /\ Jid(w) \in Jids
  BY WorkerReady DEF TypeInv
<1> USE DEF Busy, Steps
<1>2. CASE GetContact(w)
  <2>1. WorkersOK' /\ OutcomeOK'
    BY <1>0, <1>1, <1>2, WorkerMoves DEF GetContact
  <2>2. UNCHANGED <<contactRow, chatwootVars, wcontact, faults, orphans>>
        /\ raced' \subseteq raced \union {Jid(w)}
        /\ wconv' = [wconv EXCEPT ![w] = contactRow[Jid(w)]]
    BY <1>2 DEF GetContact
  <2> QED BY <1>0, <1>1, <2>1, <2>2, Parts DEF ChatwootOK, RefersOK, BoundsOK, chatwootVars
<1>3. CASE CreateContact(w) \/ FindContactByPhone(w)
  <2>1. WorkersOK' /\ OutcomeOK'
    BY <1>0, <1>1, <1>3, WorkerMoves DEF CreateContact, FindContactByPhone
  <2>2. /\ UNCHANGED <<contactRow, convs, posts, wconv, faults, orphans, raced>>
        /\ cwContacts' \subseteq cwContacts \union {Jid(w)}
        /\ UNCHANGED wcontact \/ \E j \in Jids : Holds(w, j)
    BY <1>0, <1>1, <1>3 DEF CreateContact, FindContactByPhone, chatwootVars, ChatwootOK
  <2>3. RefersOK'
    BY <1>0, <2>2 DEF RefersOK, Holds
  <2> QED BY <1>0, <1>1, <2>1, <2>2, <2>3, Parts DEF ChatwootOK, BoundsOK
<1>4. CASE CreateConversation(w)
  <2>1. WorkersOK' /\ OutcomeOK'
    BY <1>0, <1>1, <1>4, WorkerMoves DEF CreateConversation
  <2>2. /\ UNCHANGED <<contactRow, cwContacts, posts, faults, orphans, raced>>
        /\ convs' = Append(convs, Opening(w)) /\ wconv' = [wconv EXCEPT ![w] = Len(convs) + 1]
        /\ Opening(w) \in Conversations /\ Holds(w, None)
    BY <1>4, OpeningOK DEF CreateConversation, Opening
  <2>3. /\ Len(convs) \in Nat /\ Len(convs') = Len(convs) + 1
        /\ convs' \in Seq(Conversations)
    BY <1>0, <1>1, <2>2, ConversationAdded
  <2>4. 1..Len(convs) \subseteq 1..Len(convs') /\ 0..Len(convs) \subseteq 0..Len(convs')
    BY <2>3
  <2>5. ChatwootOK'
    BY <1>0, <2>2, <2>3, <2>4 DEF ChatwootOK
  <2>6. RefersOK'
    BY <1>0, <2>2, <2>3, <2>4 DEF RefersOK, Holds
  <2> QED BY <1>0, <2>1, <2>2, <2>5, <2>6, Parts DEF BoundsOK
<1>5. CASE UpsertContact(w)
  <2>1. WorkersOK' /\ OutcomeOK'
    BY <1>0, <1>1, <1>5, WorkerMoves DEF UpsertContact
  <2> QED BY <1>0, <1>1, <1>5, <2>1, Parts DEF UpsertContact, ChatwootOK, RefersOK, BoundsOK,
                                              chatwootVars
<1> QED BY <1>2, <1>3, <1>4, <1>5

LEMMA EndsTypes ==
  ASSUME TypeInv, NEW w \in Workers, Step(w),
         PostMessage(w) \/ StepFails(w) \/ UpsertFails(w) \/ ReplyLost(w) \/ FatalError(w)
  PROVE  TypeOK'
<1>0. WorkersOK /\ ChatwootOK /\ RefersOK /\ OutcomeOK /\ BoundsOK
  BY Parts DEF TypeInv
<1>1. wpc[w] # "idle" /\ wmsg[w] \in Msgs /\ Jid(w) \in Jids
  BY WorkerReady DEF TypeInv
<1>2. Return(w, "done") \/ Return(w, "failed") \/ Retry(w)
  BY DEF PostMessage, StepFails, UpsertFails, ReplyLost, FatalError
<1>3. WorkersOK' /\ OutcomeOK' /\ wconv' = [wconv EXCEPT ![w] = 0] /\ Holds(w, None)
  BY <1>0, <1>1, <1>2, WorkerMoves
<1>4. UNCHANGED <<contactRow, raced>> /\ BoundsOK'
  <2>1. UNCHANGED <<contactRow, raced>> /\ (faults' = faults \/ Fault)
    BY DEF PostMessage, StepFails, UpsertFails, ReplyLost, FatalError
  <2> QED BY <1>0, <2>1 DEF BoundsOK, Fault
<1>5. \/ UNCHANGED convs
      \/ wpc[w] = "conversation" /\ convs' = Append(convs, Opening(w)) /\ UNCHANGED posts
  BY DEF PostMessage, StepFails, UpsertFails, ReplyLost, FatalError, chatwootVars, Opening
<1>6. UNCHANGED posts \/ (wpc[w] = "post" /\ posts' = [posts EXCEPT ![wmsg[w]] = @ \union {wconv[w]}])
  BY DEF PostMessage, StepFails, UpsertFails, ReplyLost, FatalError, chatwootVars
<1>7. cwContacts' \subseteq cwContacts \union {Jid(w)}
  BY DEF PostMessage, StepFails, UpsertFails, ReplyLost, FatalError, chatwootVars
<1>8. \/ UNCHANGED orphans
      \/ wpc[w] = "upsert" /\ orphans' = orphans \union {wconv[w]}
      \/ /\ convs' = Append(convs, Opening(w)) /\ wpc[w] = "conversation"
         /\ orphans' = orphans \union {Len(convs) + 1}
  BY DEF PostMessage, StepFails, UpsertFails, ReplyLost, FatalError, Opening
<1>9. /\ convs' \in Seq(Conversations) /\ Len(convs) \in Nat /\ Len(convs') \in Nat
      /\ Len(convs') >= Len(convs)
      /\ convs' = Append(convs, Opening(w)) /\ wpc[w] = "conversation"
           => Len(convs') = Len(convs) + 1
  BY <1>0, <1>1, <1>5, ConversationAdded, OpeningOK DEF ChatwootOK
<1>10. 1..Len(convs) \subseteq 1..Len(convs') /\ 0..Len(convs) \subseteq 0..Len(convs')
  BY <1>9
<1>11. wpc[w] \in {"upsert", "post"} => wconv[w] \in 1..Len(convs)
  BY <1>0, <1>9 DEF TypeInv, Known, RefersOK
<1>12. ChatwootOK'
  <2>1. posts' \in [Msgs -> SUBSET (1..Len(convs))]
    BY <1>0, <1>1, <1>6, <1>11 DEF ChatwootOK
  <2>2. posts' \in [Msgs -> SUBSET (1..Len(convs'))]
    BY <1>10, <2>1
  <2> QED BY <1>0, <1>1, <1>7, <1>9, <2>2 DEF ChatwootOK
<1>13. RefersOK'
  <2>1. orphans' \subseteq 1..Len(convs')
    <3>1. orphans \subseteq 1..Len(convs')
      BY <1>0, <1>10 DEF RefersOK
    <3>2. wpc[w] = "upsert" => wconv[w] \in 1..Len(convs')
      BY <1>10, <1>11
    <3>3. convs' = Append(convs, Opening(w)) /\ wpc[w] = "conversation"
            => Len(convs) + 1 \in 1..Len(convs')
      BY <1>9
    <3> DEFINE Ids == 1..Len(convs')
    <3> HIDE DEF Ids
    <3>4. /\ orphans \subseteq Ids /\ (wpc[w] = "upsert" => wconv[w] \in Ids)
          /\ (convs' = Append(convs, Opening(w)) /\ wpc[w] = "conversation"
                => Len(convs) + 1 \in Ids)
      BY <3>1, <3>2, <3>3 DEF Ids
    <3>5. orphans' \subseteq Ids
      BY <1>8, <3>4
    <3> QED BY <3>5 DEF Ids
  <2>2. contactRow' \in [Jids -> 0..Len(convs')]
    BY <1>0, <1>4, <1>10 DEF RefersOK
  <2>3. wconv' \in [Workers -> 0..Len(convs')]
    <3>1. wconv' \in [Workers -> 0..Len(convs)]
      BY <1>0, <1>3, <1>9 DEF RefersOK
    <3> QED BY <1>10, <3>1
  <2>4. wcontact' \in [Workers -> Jids \union {None}]
    BY <1>0, <1>3 DEF RefersOK, Holds
  <2> QED BY <2>1, <2>2, <2>3, <2>4 DEF RefersOK
<1> QED BY <1>3, <1>4, <1>12, <1>13, Parts

\* Contacts are only added.
LEMMA ContactsStay ==
  ASSUME NEW w \in Workers, Step(w)
  PROVE  cwContacts \subseteq cwContacts'
BY DEF Step, GetContact, CreateContact, FindContactByPhone, CreateConversation, UpsertContact,
       PostMessage, StepFails, UpsertFails, ReplyLost, FatalError, chatwootVars

LEMMA KnownStep ==
  ASSUME TypeInv, NEW w \in Workers, Step(w)
  PROVE  Known'
<1> USE DEF TypeInv, TypeOK, Known
<1>1. wpc'[w] \in {"upsert", "post"} => wconv'[w] # 0
  <2>1. CASE GetContact(w)
    BY <2>1 DEF GetContact, Continue
  <2>2. CASE CreateContact(w) \/ FindContactByPhone(w)
    BY <2>2 DEF CreateContact, FindContactByPhone, Continue
  <2>3. CASE CreateConversation(w)
    BY <2>3 DEF CreateConversation
  <2>4. CASE UpsertContact(w)
    BY <2>4 DEF UpsertContact
  <2>5. CASE PostMessage(w) \/ StepFails(w) \/ UpsertFails(w) \/ ReplyLost(w) \/ FatalError(w)
    <3>1. Return(w, "done") \/ Return(w, "failed") \/ Retry(w)
      BY <2>5 DEF PostMessage, StepFails, UpsertFails, ReplyLost, FatalError
    <3> QED BY <3>1 DEF Return, Retry
  <2> QED BY <2>1, <2>2, <2>3, <2>4, <2>5 DEF Step
<1>2. wpc'[w] = "conversation" => wcontact'[w] \in Resembles[JidOf[wmsg'[w]]] \intersect cwContacts'
  <2>0. wmsg[w] \in Msgs /\ Jid(w) \in Jids
    BY WorkerReady
  <2>1. CASE GetContact(w) \/ CreateConversation(w) \/ UpsertContact(w)
    BY <2>1 DEF GetContact, CreateConversation, UpsertContact, Continue
  <2>2. CASE CreateContact(w)
    BY <2>0, <2>2 DEF CreateContact, Continue, Holds, Jid
  <2>3. CASE FindContactByPhone(w)
    BY <2>0, <2>3 DEF FindContactByPhone, Continue, Holds, Jid, chatwootVars
  <2>4. CASE PostMessage(w) \/ StepFails(w) \/ UpsertFails(w) \/ ReplyLost(w) \/ FatalError(w)
    <3>1. Return(w, "done") \/ Return(w, "failed") \/ Retry(w)
      BY <2>4 DEF PostMessage, StepFails, UpsertFails, ReplyLost, FatalError
    <3> QED BY <3>1 DEF Return, Retry
  <2> QED BY <2>1, <2>2, <2>3, <2>4 DEF Step
<1>3. cwContacts \subseteq cwContacts'
  BY ContactsStay
<1>4. \A v \in Workers \ {w} :
        wpc'[v] = wpc[v] /\ wmsg'[v] = wmsg[v] /\ wconv'[v] = wconv[v] /\ wcontact'[v] = wcontact[v]
  BY OthersStay
<1> QED BY <1>1, <1>2, <1>3, <1>4 DEF Jid

LEMMA TypesKept == TypeInv /\ [Next]_vars => TypeInv'
<1> SUFFICES ASSUME TypeInv, [Next]_vars PROVE TypeInv'
  OBVIOUS
<1>1. CASE UNCHANGED vars
  BY <1>1 DEF vars, TypeInv, TypeOK, Known, Jid
<1>2. ASSUME NEW w \in Workers, NEW m \in Msgs, Take(w, m) PROVE TypeInv'
  BY <1>2 DEF Take, TypeInv, TypeOK, Known, Jid, chatwootVars
<1>3. ASSUME NEW w \in Workers, Step(w) PROVE TypeInv'
  BY <1>3, GoesOnTypes, EndsTypes, KnownStep DEF Step, TypeInv
<1> QED BY <1>1, <1>2, <1>3 DEF Next

LEMMA TypesAlways == Spec => []TypeInv
BY ContactsInit, TypesKept, PTL DEF Spec

\* Types, and that rows, posts and workers refer to conversations that exist.
THEOREM ContactsTypes == Spec => []TypeOK
<1>1. TypeInv => TypeOK
  BY DEF TypeInv
<1> QED BY <1>1, TypesAlways, PTL

-----------------------------------------------------------------------------
(* Whose conversation                                                      *)

\* What a worker is about to write or to post in is its customer's.
OwnInv ==
  /\ OwnConversation
  /\ \A w \in Workers : wpc[w] \in {"upsert", "post"} => Serves(wconv[w], Jid(w))

\* Conversations are only added.
LEMMA ConvsStay ==
  ASSUME TypeInv, NEW w \in Workers, Step(w)
  PROVE  \A c \in 1..Len(convs) : convs'[c] = convs[c]
<1>1. UNCHANGED convs \/ (convs' = Append(convs, Opening(w)) /\ wpc[w] = "conversation")
  BY DEF Step, GetContact, CreateContact, FindContactByPhone, CreateConversation, UpsertContact,
         PostMessage, StepFails, UpsertFails, ReplyLost, FatalError, chatwootVars, Opening
<1>2. ChatwootOK
  BY Parts DEF TypeInv
<1> QED BY <1>1, <1>2, OpeningOK, ConversationAdded

\* What a step writes, and where a worker takes its conversation from.
LEMMA StepWrites ==
  ASSUME TypeInv, NEW w \in Workers, Step(w)
  PROVE  /\ \/ UNCHANGED posts
            \/ wpc[w] = "post" /\ posts' = [posts EXCEPT ![wmsg[w]] = @ \union {wconv[w]}]
         /\ \/ UNCHANGED contactRow
            \/ UpsertContact(w) /\ contactRow' = [contactRow EXCEPT ![Jid(w)] = wconv[w]]
         /\ wpc'[w] \in {"upsert", "post"} =>
              /\ wmsg'[w] = wmsg[w]
              /\ \/ wconv'[w] = wconv[w] /\ wpc[w] = "upsert" /\ wpc'[w] = "post"
                 \/ /\ GetContact(w) /\ wpc'[w] = "upsert"
                    /\ wconv'[w] = contactRow[Jid(w)] /\ wconv'[w] # 0
                 \/ /\ CreateConversation(w) /\ wpc'[w] = "upsert"
                    /\ wconv'[w] = Len(convs) + 1 /\ convs'[Len(convs) + 1] = Opening(w)
<1> USE DEF TypeInv, TypeOK
<1>1. CASE GetContact(w) \/ CreateContact(w) \/ FindContactByPhone(w) \/ UpsertContact(w)
  <2>1. UNCHANGED posts
    BY <1>1 DEF GetContact, CreateContact, FindContactByPhone, UpsertContact, chatwootVars
  <2>2. CASE GetContact(w)
    BY <2>1, <2>2 DEF GetContact, Continue
  <2>3. CASE CreateContact(w) \/ FindContactByPhone(w)
    BY <2>1, <2>3 DEF CreateContact, FindContactByPhone, Continue
  <2>4. CASE UpsertContact(w)
    BY <2>1, <2>4 DEF UpsertContact, Continue
  <2> QED BY <1>1, <2>2, <2>3, <2>4
<1>2. CASE CreateConversation(w)
  <2>1. convs'[Len(convs) + 1] = Opening(w)
    BY <1>2, Parts, OpeningOK, ConversationAdded DEF CreateConversation, Opening
  <2> QED BY <1>2, <2>1 DEF CreateConversation, Continue
<1>3. CASE PostMessage(w) \/ StepFails(w) \/ UpsertFails(w) \/ ReplyLost(w) \/ FatalError(w)
  <2>1. Return(w, "done") \/ Return(w, "failed") \/ Retry(w)
    BY <1>3 DEF PostMessage, StepFails, UpsertFails, ReplyLost, FatalError
  <2>2. wpc'[w] \in {"idle", "lookup"}
    BY <2>1 DEF Return, Retry
  <2>3. /\ UNCHANGED contactRow
        /\ \/ UNCHANGED posts
           \/ wpc[w] = "post" /\ posts' = [posts EXCEPT ![wmsg[w]] = @ \union {wconv[w]}]
    BY <1>3 DEF PostMessage, StepFails, UpsertFails, ReplyLost, FatalError, chatwootVars
  <2> QED BY <2>2, <2>3
<1> QED BY <1>1, <1>2, <1>3 DEF Step

LEMMA OwnStep ==
  ASSUME TypeInv, OwnInv, NEW w \in Workers, Step(w)
  PROVE  OwnInv'
<1>0. WorkersOK /\ ChatwootOK /\ RefersOK
  BY Parts DEF TypeInv
<1>1. wpc[w] # "idle" /\ wmsg[w] \in Msgs /\ Jid(w) \in Jids
  BY WorkerReady DEF TypeInv
<1>2. \A c \in 1..Len(convs) : \A j \in Jids : Serves(c, j) => Serves(c, j)'
  BY ConvsStay, ContactsStay DEF Serves
<1>3. Len(convs) \in Nat
  BY <1>0 DEF ChatwootOK
<1>4. \A v \in Workers : wpc[v] \in {"upsert", "post"} =>
        wconv[v] \in 1..Len(convs) /\ Serves(wconv[v], Jid(v)) /\ Jid(v) \in Jids
  BY <1>0, <1>3 DEF OwnInv, TypeInv, TypeOK, Known, RefersOK, Jid
<1>5. ASSUME NEW m \in Msgs, NEW c \in posts'[m] PROVE Serves(c, JidOf[m])'
  <2>1. CASE c \in posts[m]
    BY <1>0, <1>2, <2>1 DEF OwnInv, OwnConversation, ChatwootOK
  <2>2. CASE c \notin posts[m]
    <3>1. wpc[w] = "post" /\ m = wmsg[w] /\ c = wconv[w]
      BY <1>0, <1>5, <2>2, StepWrites DEF ChatwootOK
    <3> QED BY <1>2, <1>4, <3>1 DEF Jid
  <2> QED BY <2>1, <2>2
<1>6. ASSUME NEW j \in Jids, contactRow'[j] # 0 PROVE Serves(contactRow[j], j)'
  <2>1. CASE contactRow'[j] = contactRow[j]
    <3>1. contactRow[j] \in 1..Len(convs)
      BY <1>0, <1>3, <1>6, <2>1 DEF RefersOK
    <3> QED BY <1>2, <1>6, <2>1, <3>1 DEF OwnInv, OwnConversation
  <2>2. CASE contactRow'[j] # contactRow[j]
    <3>1. wpc[w] = "upsert" /\ j = Jid(w) /\ contactRow'[j] = wconv[w]
      BY <1>0, <1>1, <2>2, StepWrites DEF RefersOK, UpsertContact
    <3> QED BY <1>2, <1>4, <3>1
  <2> QED BY <2>1, <2>2
<1>7. ASSUME NEW v \in Workers, wpc'[v] \in {"upsert", "post"}
      PROVE  Serves(wconv[v], Jid(v))'
  <2>1. CASE v # w
    BY <1>2, <1>4, <1>7, <2>1, OthersStay DEF Jid, TypeInv
  <2>2. CASE v = w
    <3>1. CASE wconv'[w] = wconv[w] /\ wpc[w] = "upsert" /\ wmsg'[w] = wmsg[w]
      BY <1>2, <1>4, <2>2, <3>1 DEF Jid
    <3>2. CASE wconv'[w] = contactRow[Jid(w)] /\ wconv'[w] # 0 /\ wmsg'[w] = wmsg[w]
      <4>1. contactRow[Jid(w)] \in 1..Len(convs) /\ Serves(contactRow[Jid(w)], Jid(w))
        BY <1>0, <1>1, <1>3, <3>2 DEF RefersOK, OwnInv, OwnConversation
      <4> QED BY <1>1, <1>2, <2>2, <3>2, <4>1 DEF Serves, Jid
    <3>3. CASE /\ CreateConversation(w) /\ wmsg'[w] = wmsg[w]
               /\ wconv'[w] = Len(convs) + 1 /\ convs'[Len(convs) + 1] = Opening(w)
      BY <2>2, <3>3, OpeningOK DEF CreateConversation, Serves, Jid
    <3> QED BY <1>7, <2>2, <3>1, <3>2, <3>3, StepWrites
  <2> QED BY <2>1, <2>2
<1> QED BY <1>5, <1>6, <1>7 DEF OwnInv, OwnConversation

LEMMA OwnNext == TypeInv /\ OwnInv /\ [Next]_vars => OwnInv'
<1> SUFFICES ASSUME TypeInv, OwnInv, [Next]_vars PROVE OwnInv'
  OBVIOUS
<1>1. CASE UNCHANGED vars
  BY <1>1 DEF vars, OwnInv, OwnConversation, Serves, Jid
<1>2. ASSUME NEW w \in Workers, NEW m \in Msgs, Take(w, m) PROVE OwnInv'
  BY <1>2 DEF Take, TypeInv, TypeOK, OwnInv, OwnConversation, Serves, Jid, chatwootVars
<1> QED BY <1>1, <1>2, OwnStep DEF Next

\* A message is only ever posted in a conversation opened under its sender's number, for
\* the sender's contact or one that Chatwoot's search lists for that number, and the row
\* of a number points to no other (processInbound, UpsertContact).
THEOREM ConversationsAreOwn == Spec => []OwnConversation
<1>1. Init => OwnInv
  BY DEF Init, OwnInv, OwnConversation
<1>2. OwnInv => OwnConversation
  BY DEF OwnInv
<1> QED BY <1>1, <1>2, OwnNext, TypesAlways, PTL DEF Spec

-----------------------------------------------------------------------------
(* One conversation, unless raced                                          *)

\* While no two workers were ever creating for j at once: one creates until the
\* row is there, nobody after that, and everybody posts in the row's conversation.
Settled(j) ==
  /\ \A v, w \in Creating(j) : v = w
  /\ contactRow[j] # 0 => Creating(j) = {}
  /\ \A w \in Workers : wpc[w] = "post" /\ Jid(w) = j => wconv[w] = contactRow[j]
  /\ \A m \in Msgs : JidOf[m] = j => posts[m] \subseteq {contactRow[j]}

UnracedInv == \A j \in Jids \ raced : Settled(j)

\* The first write of the row finds its writer alone.
LEMMA RowWritten ==
  ASSUME TypeInv, UnracedInv, NEW w \in Workers, UpsertContact(w), NEW j \in Jids \ raced,
         contactRow'[j] # contactRow[j]
  PROVE  Settled(j)'
<1> USE DEF TypeInv, TypeOK
<1>0. Settled(j) /\ Len(convs) \in Nat
  BY DEF UnracedInv
<1>1. /\ wpc[w] = "upsert" /\ j = Jid(w) /\ contactRow'[j] = wconv[w]
      /\ contactRow[j] # wconv[w]
  BY WorkerReady DEF Step, UpsertContact
<1>2. w \in Creating(j)
  BY <1>1 DEF Creating
<1>3. contactRow[j] = 0 /\ Creating(j) = {w}
  BY <1>0, <1>2 DEF Settled
<1>4. \A v \in Workers : wpc[v] \in {"upsert", "post"} => wconv[v] # 0
  BY DEF Known
<1>5. \A v \in Workers \ {w} : wpc[v] # "idle" /\ Jid(v) = j => wpc[v] = "lookup"
  <2>1. ASSUME NEW v \in Workers \ {w}, wpc[v] # "idle", Jid(v) = j PROVE wpc[v] = "lookup"
    <3>1. wpc[v] \notin {"contact", "search", "conversation", "upsert"}
      BY <1>3, <1>4, <2>1 DEF Creating
    <3>2. wpc[v] # "post"
      BY <1>0, <1>3, <1>4, <2>1 DEF Settled
    <3> QED BY <2>1, <3>1, <3>2
  <2> QED BY <2>1
<1>6. \A m \in Msgs : JidOf[m] = j => posts[m] = {}
  BY <1>0, <1>3 DEF Settled
<1>7. wpc' = [wpc EXCEPT ![w] = "post"] /\ UNCHANGED <<wmsg, wconv, posts>>
  BY DEF UpsertContact, Continue, chatwootVars
<1>8. \A v \in Workers : wpc'[v] \notin {"idle", "lookup", "post"} => Jid(v)' # j
  BY <1>1, <1>5, <1>7 DEF Jid
<1>9. Creating(j)' = {}
  BY <1>8 DEF Creating
<1>10. \A v \in Workers : wpc'[v] = "post" /\ Jid(v)' = j => v = w
  BY <1>5, <1>7 DEF Jid
<1> QED BY <1>1, <1>6, <1>7, <1>9, <1>10 DEF Settled

\* Who comes to create for j when its row stays as it is.
LEMMA WhoCreates ==
  ASSUME TypeInv, NEW w \in Workers, Step(w), NEW j \in Jids, contactRow'[j] = contactRow[j],
         NEW v \in Creating(j)', v \notin Creating(j)
  PROVE  v = w /\ GetContact(w) /\ Jid(w) = j /\ contactRow[j] = 0
<1> USE DEF TypeInv, TypeOK
<1>1. v = w
  BY OthersStay DEF Creating, Jid
<1>2. wpc'[w] \in {"contact", "search", "conversation", "upsert"} /\ JidOf[wmsg'[w]] = j
  BY <1>1 DEF Creating, Jid
<1>3. ~(PostMessage(w) \/ StepFails(w) \/ UpsertFails(w) \/ ReplyLost(w) \/ FatalError(w))
  BY <1>2 DEF PostMessage, StepFails, UpsertFails, ReplyLost, FatalError, Return, Retry
<1>4. ~UpsertContact(w)
  BY <1>2 DEF UpsertContact, Continue
<1>5. ASSUME CreateContact(w) \/ FindContactByPhone(w) \/ CreateConversation(w) PROVE FALSE
  <2>1. wpc[w] \in {"contact", "search", "conversation"} /\ wmsg'[w] = wmsg[w]
    BY <1>5 DEF CreateContact, FindContactByPhone, CreateConversation, Continue
  <2> QED BY <1>1, <1>2, <2>1 DEF Creating, Jid
<1>6. GetContact(w)
  BY <1>3, <1>4, <1>5 DEF Step
<1>7. wmsg'[w] = wmsg[w]
  BY <1>6 DEF GetContact, Continue
<1>8. contactRow[j] = 0
  BY <1>1, <1>2, <1>6, <1>7 DEF GetContact, Continue, Creating, Jid
<1> QED BY <1>1, <1>2, <1>6, <1>7, <1>8 DEF Jid

LEMMA UnracedStep ==
  ASSUME TypeInv, UnracedInv, NEW w \in Workers, Step(w)
  PROVE  UnracedInv'
<1> USE DEF TypeInv, TypeOK
<1>1. raced \subseteq raced'
  BY DEF Step, GetContact, CreateContact, FindContactByPhone, CreateConversation, UpsertContact,
         PostMessage, StepFails, UpsertFails, ReplyLost, FatalError
<1> SUFFICES ASSUME NEW j \in Jids \ raced' PROVE Settled(j)'
  BY DEF UnracedInv
<1>2. Settled(j)
  BY <1>1 DEF UnracedInv
<1>3. CASE contactRow'[j] # contactRow[j]
  BY <1>1, <1>3, RowWritten, StepWrites
<1>4. CASE contactRow'[j] = contactRow[j]
  <2>1. \A v \in Creating(j)' : v \in Creating(j) \/ (v = w /\ contactRow[j] = 0 /\ Creating(j) = {})
    <3>1. ASSUME NEW v \in Creating(j)', v \notin Creating(j)
          PROVE  v = w /\ contactRow[j] = 0 /\ Creating(j) = {}
      <4>1. v = w /\ GetContact(w) /\ Jid(w) = j /\ contactRow[j] = 0
        BY <1>4, <3>1, WhoCreates
      <4> QED BY <4>1 DEF GetContact
    <3> QED BY <3>1
  <2>2. \A u, v \in Creating(j)' : u = v
    BY <1>2, <2>1 DEF Settled
  <2>3. contactRow'[j] # 0 => Creating(j)' = {}
    BY <1>2, <1>4, <2>1 DEF Settled
  <2>4. ASSUME NEW v \in Workers, wpc'[v] = "post", JidOf[wmsg'[v]] = j
        PROVE  wconv'[v] = contactRow'[j]
    <3>1. CASE v # w
      BY <1>2, <1>4, <2>4, <3>1, OthersStay DEF Settled, Jid
    <3>2. CASE v = w
      <4>1. UpsertContact(w)
        <5>1. wmsg'[w] = wmsg[w] /\ wpc[w] = "upsert"
          BY <2>4, <3>2, StepWrites
        <5> QED BY <2>4, <3>2, <5>1 DEF Step, GetContact, CreateContact, FindContactByPhone,
                 CreateConversation, PostMessage, StepFails, UpsertFails, ReplyLost, FatalError,
                 Return, Retry
      <4> QED BY <2>4, <3>2, <4>1 DEF UpsertContact, Continue, Jid
    <3> QED BY <3>1, <3>2
  <2>5. ASSUME NEW m \in Msgs, JidOf[m] = j PROVE posts'[m] \subseteq {contactRow'[j]}
    <3>1. posts[m] \subseteq {contactRow[j]}
      BY <1>2, <2>5 DEF Settled
    <3>2. CASE UNCHANGED posts
      BY <1>4, <3>1, <3>2
    <3>3. CASE wpc[w] = "post" /\ posts' = [posts EXCEPT ![wmsg[w]] = @ \union {wconv[w]}]
      <4>1. m # wmsg[w] => posts'[m] = posts[m]
        BY <3>3
      <4>2. m = wmsg[w] => posts'[m] = posts[m] \union {wconv[w]}
        BY <3>3
      <4>3. m = wmsg[w] => wconv[w] = contactRow[j]
        BY <1>2, <2>5, <3>3 DEF Settled, Jid
      <4> QED BY <1>4, <3>1, <4>1, <4>2, <4>3
    <3> QED BY <3>2, <3>3, StepWrites
  <2> QED BY <2>2, <2>3, <2>4, <2>5 DEF Settled, Jid
<1> QED BY <1>3, <1>4

LEMMA UnracedNext == TypeInv /\ UnracedInv /\ [Next]_vars => UnracedInv'
<1> SUFFICES ASSUME TypeInv, UnracedInv, [Next]_vars PROVE UnracedInv'
  OBVIOUS
<1>1. CASE UNCHANGED vars
  BY <1>1 DEF vars, UnracedInv, Settled, Creating, Jid
<1>2. ASSUME NEW w \in Workers, NEW m \in Msgs, Take(w, m) PROVE UnracedInv'
  <2>1. /\ UNCHANGED <<contactRow, posts, wconv, raced>>
        /\ wpc' = [wpc EXCEPT ![w] = "lookup"] /\ wmsg' = [wmsg EXCEPT ![w] = m]
    BY <1>2 DEF Take, chatwootVars
  <2>2. \A j \in Jids : Creating(j)' \subseteq Creating(j)
    BY <2>1 DEF Creating, Jid, TypeInv, TypeOK
  <2>3. \A j \in Jids : \A v \in Workers : wpc'[v] = "post" /\ Jid(v)' = j => wpc[v] = "post" /\ Jid(v) = j
    BY <2>1 DEF Jid, TypeInv, TypeOK
  <2> QED BY <2>1, <2>2, <2>3 DEF UnracedInv, Settled
<1> QED BY <1>1, <1>2, UnracedStep DEF Next

LEMMA UnracedAlways == Spec => []UnracedInv
<1>1. Init => UnracedInv
  BY DEF Init, UnracedInv, Settled, Creating
<1> QED BY <1>1, UnracedNext, TypesAlways, PTL DEF Spec

\* A number that no two workers were creating at once has all its messages in the
\* conversation of its row, whatever failed in between.
THEOREM OneConversation == Spec => []OneConversationUnlessRaced
<1>1. UnracedInv => OneConversationUnlessRaced
  BY ContactsAssumption DEF UnracedInv, Settled, OneConversationUnlessRaced
<1> QED BY <1>1, UnracedAlways, PTL

\* The row of such a number never changes again, though every message writes it.
THEOREM RowsAreStable == Spec => MappingStable
<1>1. TypeInv /\ UnracedInv /\ [Next]_vars
        => [\A j \in Jids \ raced : contactRow[j] # 0 => contactRow'[j] = contactRow[j]]_vars
  <2> SUFFICES ASSUME TypeInv, UnracedInv, [Next]_vars, NEW j \in Jids \ raced,
                      contactRow[j] # 0, contactRow'[j] # contactRow[j]
               PROVE  FALSE
    OBVIOUS
  <2>1. PICK w \in Workers : Step(w)
    BY DEF Next, Take, vars
  <2>2. UpsertContact(w) /\ contactRow' = [contactRow EXCEPT ![Jid(w)] = wconv[w]]
    BY <2>1, StepWrites
  <2>3. wpc[w] = "upsert" /\ Jid(w) = j /\ contactRow[j] # wconv[w]
    BY <2>2 DEF UpsertContact, TypeInv, TypeOK
  <2>4. w \in Creating(j)
    BY <2>3 DEF Creating
  <2> QED BY <2>4 DEF UnracedInv, Settled
<1> QED BY <1>1, TypesAlways, UnracedAlways, PTL DEF Spec, MappingStable

-----------------------------------------------------------------------------
(* Bursts                                                                  *)

\* Losing the race to create a contact, or finding one that was there, fails no
\* message (cwCreateContact, cwFindContactByPhone).
THEOREM BurstsSucceed == Spec => []BurstNeverFails
<1>1. Init => BurstNeverFails
  BY DEF Init, BurstNeverFails
<1>2. TypeInv /\ BurstNeverFails /\ [Next]_vars => BurstNeverFails'
  <2> SUFFICES ASSUME TypeInv, BurstNeverFails, [Next]_vars, faults' = 0
               PROVE  \A m \in Msgs : outcome'[m] # "failed"
    BY DEF BurstNeverFails
  <2> USE DEF TypeInv, TypeOK, BurstNeverFails
  <2>1. CASE UNCHANGED vars
    BY <2>1 DEF vars
  <2>2. ASSUME NEW w \in Workers, NEW m \in Msgs, Take(w, m)
        PROVE  \A x \in Msgs : outcome'[x] # "failed"
    BY <2>2 DEF Take
  <2>3. ASSUME NEW w \in Workers, Step(w) PROVE \A x \in Msgs : outcome'[x] # "failed"
    <3>1. ~Fault
      BY DEF Fault
    <3>2. faults' = faults
      BY <2>3, <3>1 DEF Step, GetContact, CreateContact, FindContactByPhone, CreateConversation,
             UpsertContact, PostMessage, StepFails, UpsertFails, ReplyLost, FatalError
    <3>3. UNCHANGED outcome \/ Return(w, "done")
      BY <2>3, <3>1 DEF Step, GetContact, CreateContact, FindContactByPhone, CreateConversation,
             UpsertContact, PostMessage, StepFails, UpsertFails, ReplyLost, FatalError, Continue
    <3> QED BY <3>2, <3>3 DEF Return
  <2> QED BY <2>1, <2>2, <2>3 DEF Next
<1> QED BY <1>1, <1>2, TypesAlways, PTL DEF Spec

-----------------------------------------------------------------------------
(* How many conversations                                                  *)

Kept(j) == ConversationsOf(j) \ orphans
Makers(j) == {w \in Workers : wpc[w] \in {"contact", "search", "conversation"} /\ Jid(w) = j}
Savers(j) == {w \in Workers : wpc[w] = "upsert" /\ Jid(w) = j}

\* As long as there is no row every conversation is in the hands of a worker
\* about to save it; afterwards only those who missed the row make more.
SplitInv(j) ==
  /\ contactRow[j] = 0 => \A c \in Kept(j) : \E w \in Savers(j) : wconv[w] = c
  /\ Cardinality(Kept(j)) + Cardinality(Makers(j)) <= Cardinality(Workers)

SplitsInv == \A j \in Jids : SplitInv(j)

\* Things in the hands of some workers, and other workers, are no more than all.
LEMMA HandsFew ==
  ASSUME NEW S \in SUBSET Workers, NEW M \in SUBSET Workers, S \intersect M = {},
         NEW K, NEW g, \A c \in K : \E w \in S : g[w] = c
  PROVE  Cardinality(K) + Cardinality(M) <= Cardinality(Workers)
<1> DEFINE T == {g[w] : w \in S}
<1> DEFINE f == [w \in S |-> g[w]]
<1>1. IsFiniteSet(S) /\ IsFiniteSet(M) /\ IsFiniteSet(Workers)
  BY FS_Subset
<1>2. f \in Surjection(S, T)
  BY DEF Surjection
<1>3. IsFiniteSet(T) /\ Cardinality(T) <= Cardinality(S)
  BY <1>1, <1>2, FS_Surjection
<1>4. K \subseteq T
  OBVIOUS
<1>5. IsFiniteSet(K) /\ Cardinality(K) <= Cardinality(T)
  BY <1>3, <1>4, FS_Subset
<1>6. Cardinality(S \union M) = Cardinality(S) + Cardinality(M)
  <2>1. Cardinality(S \union M) = Cardinality(S) + Cardinality(M) - Cardinality(S \intersect M)
    BY <1>1, FS_Union
  <2>2. Cardinality(S \intersect M) = 0
    BY FS_EmptySet
  <2> QED BY <1>1, <2>1, <2>2, FS_CardinalityType
<1>7. S \union M \in SUBSET Workers
  OBVIOUS
<1>8. Cardinality(S \union M) <= Cardinality(Workers)
  BY <1>1, <1>7, FS_Subset
<1>9. /\ Cardinality(K) \in Nat /\ Cardinality(T) \in Nat /\ Cardinality(S) \in Nat
      /\ Cardinality(M) \in Nat /\ Cardinality(Workers) \in Nat
  BY <1>1, <1>3, <1>5, FS_CardinalityType
<1> HIDE DEF T, f
<1> QED BY <1>3, <1>5, <1>6, <1>8, <1>9

LEMMA SplitFinite ==
  ASSUME TypeInv, NEW j \in Jids
  PROVE  IsFiniteSet(Kept(j)) /\ IsFiniteSet(Makers(j))
<1>1. Kept(j) \in SUBSET (1..Len(convs)) /\ Len(convs) \in Nat
  BY DEF TypeInv, TypeOK, Kept, ConversationsOf
<1>2. IsFiniteSet(1..Len(convs))
  BY <1>1, FS_Interval
<1>3. Makers(j) \in SUBSET Workers
  BY DEF Makers
<1> QED BY <1>1, <1>2, <1>3, FS_Subset

\* Who comes to make conversations: whoever reads that there is no row.
LEMMA WhoMakes ==
  ASSUME TypeInv, NEW w \in Workers, Step(w), NEW j \in Jids, NEW v \in Makers(j)',
         v \notin Makers(j)
  PROVE  contactRow'[j] = 0
<1> USE DEF TypeInv, TypeOK
<1>1. v = w
  BY OthersStay DEF Makers, Jid
<1>2. wpc'[w] \in {"contact", "search", "conversation"} /\ JidOf[wmsg'[w]] = j
  BY <1>1 DEF Makers, Jid
<1>3. ~(PostMessage(w) \/ StepFails(w) \/ UpsertFails(w) \/ ReplyLost(w) \/ FatalError(w))
  BY <1>2 DEF PostMessage, StepFails, UpsertFails, ReplyLost, FatalError, Return, Retry
<1>4. ~UpsertContact(w) /\ ~CreateConversation(w)
  BY <1>2 DEF UpsertContact, CreateConversation, Continue
<1>5. ASSUME CreateContact(w) \/ FindContactByPhone(w) PROVE FALSE
  <2>1. wpc[w] \in {"contact", "search"} /\ wmsg'[w] = wmsg[w]
    BY <1>5 DEF CreateContact, FindContactByPhone, Continue
  <2> QED BY <1>1, <1>2, <2>1 DEF Makers, Jid
<1>6. GetContact(w)
  BY <1>3, <1>4, <1>5 DEF Step
<1>7. wmsg'[w] = wmsg[w]
  BY <1>6 DEF GetContact, Continue
<1> QED BY <1>2, <1>6, <1>7 DEF GetContact, Continue, Jid

\* What becomes of the conversations.
LEMMA KeptShape ==
  ASSUME TypeInv, NEW w \in Workers, Step(w), NEW j \in Jids
  PROVE  \/ Kept(j)' \subseteq Kept(j)
         \/ /\ CreateConversation(w) /\ Jid(w) = j
            /\ Kept(j)' \subseteq Kept(j) \union {Len(convs) + 1}
<1>0. ChatwootOK /\ Jid(w) \in Jids
  BY Parts, WorkerReady DEF TypeInv
<1>1. orphans \subseteq orphans'
  BY DEF Step, GetContact, CreateContact, FindContactByPhone, CreateConversation, UpsertContact,
         PostMessage, StepFails, UpsertFails, ReplyLost, FatalError
<1>2. \/ UNCHANGED convs
      \/ /\ convs' = Append(convs, Opening(w)) /\ wpc[w] = "conversation"
         /\ CreateConversation(w) \/ Len(convs) + 1 \in orphans'
  BY DEF Step, GetContact, CreateContact, FindContactByPhone, CreateConversation, UpsertContact,
         PostMessage, StepFails, UpsertFails, ReplyLost, FatalError, chatwootVars, Opening
<1>3. CASE UNCHANGED convs
  BY <1>1, <1>3 DEF Kept, ConversationsOf
<1>4. CASE convs' = Append(convs, Opening(w)) /\ wpc[w] = "conversation"
  <2>0. Opening(w) \in Conversations /\ Opening(w).source = Jid(w)
    BY <1>4, OpeningOK
  <2>1. /\ DOMAIN convs' = DOMAIN convs \union {Len(convs) + 1}
        /\ convs'[Len(convs) + 1].source = Jid(w)
        /\ \A c \in DOMAIN convs : convs'[c] = convs[c]
    BY <1>0, <1>4, <2>0 DEF ChatwootOK
  <2>2. \A c \in Kept(j)' : c \in Kept(j) \/ (c = Len(convs) + 1 /\ Jid(w) = j)
    BY <1>1, <2>1 DEF Kept, ConversationsOf
  <2>3. CASE Len(convs) + 1 \in orphans'
    BY <2>2, <2>3 DEF Kept
  <2>4. CASE CreateConversation(w)
    BY <2>2, <2>4
  <2> QED BY <1>1, <1>2, <1>4, <2>3, <2>4 DEF Kept, ConversationsOf
<1> QED BY <1>2, <1>3, <1>4

\* While there is no row, conversations stay in the hands of their workers.
LEMMA HandsKeep ==
  ASSUME TypeInv, NEW j \in Jids, SplitInv(j), NEW w \in Workers, Step(w),
         contactRow'[j] = 0, NEW c \in Kept(j)'
  PROVE  \E v \in Savers(j)' : wconv'[v] = c
<1> USE DEF TypeInv, TypeOK
<1>0. wpc[w] # "idle" /\ Jid(w) \in Jids
  BY WorkerReady
<1>1. ~(UpsertContact(w) /\ Jid(w) = j)
  BY DEF UpsertContact, Known
<1>2. contactRow[j] = 0
  <2>1. contactRow' = contactRow \/ UpsertContact(w)
    BY DEF Step, GetContact, CreateContact, FindContactByPhone, CreateConversation, PostMessage,
           StepFails, UpsertFails, ReplyLost, FatalError
  <2> QED BY <1>0, <1>1, <2>1 DEF UpsertContact
<1>3. CASE c \in Kept(j)
  <2>1. PICK v \in Savers(j) : wconv[v] = c
    BY <1>2, <1>3 DEF SplitInv
  <2>2. CASE v # w
    <3>1. wpc'[v] = wpc[v] /\ wmsg'[v] = wmsg[v] /\ wconv'[v] = wconv[v]
      BY <2>2, OthersStay DEF Savers
    <3> QED BY <2>1, <3>1 DEF Savers, Jid
  <2>3. CASE v = w
    <3>1. wpc[w] = "upsert" /\ Jid(w) = j /\ wconv[w] = c /\ c # 0
      BY <2>1, <2>3 DEF Savers, Known
    <3>2. UpsertFails(w)
      BY <1>1, <3>1 DEF Step, GetContact, CreateContact, FindContactByPhone, CreateConversation,
           PostMessage, StepFails, ReplyLost, FatalError
    <3>3. c \in orphans'
      BY <1>2, <3>1, <3>2 DEF UpsertFails
    <3> QED BY <3>3 DEF Kept
  <2> QED BY <2>2, <2>3
<1>4. CASE c \notin Kept(j)
  <2>1. CreateConversation(w) /\ Jid(w) = j /\ c = Len(convs) + 1
    BY <1>4, KeptShape
  <2>2. wpc'[w] = "upsert" /\ wconv'[w] = c /\ Jid(w)' = j
    BY <2>1 DEF CreateConversation, Continue, Jid
  <2> QED BY <2>2 DEF Savers
<1> QED BY <1>3, <1>4

LEMMA SplitStep ==
  ASSUME TypeInv, TypeInv', NEW j \in Jids, SplitInv(j), NEW w \in Workers, Step(w)
  PROVE  SplitInv(j)'
<1>1. CASE contactRow'[j] = 0
  <2>1. \A c \in Kept(j)' : \E v \in Savers(j)' : wconv'[v] = c
    BY <1>1, HandsKeep
  <2>2. /\ Savers(j)' \in SUBSET Workers /\ Makers(j)' \in SUBSET Workers
        /\ Savers(j)' \intersect Makers(j)' = {}
    BY DEF Savers, Makers
  <2>3. Cardinality(Kept(j)') + Cardinality(Makers(j)') <= Cardinality(Workers)
    BY <2>1, <2>2, HandsFew
  <2> QED BY <2>1, <2>3 DEF SplitInv
<1>2. CASE contactRow'[j] # 0
  <2>1. Makers(j)' \subseteq Makers(j)
    BY <1>2, WhoMakes
  <2>2. /\ IsFiniteSet(Kept(j)) /\ IsFiniteSet(Makers(j))
        /\ Cardinality(Kept(j)) \in Nat /\ Cardinality(Makers(j)) \in Nat
        /\ Cardinality(Kept(j)) + Cardinality(Makers(j)) <= Cardinality(Workers)
        /\ Cardinality(Workers) \in Nat
    BY SplitFinite, FS_CardinalityType DEF SplitInv
  <2>3. /\ IsFiniteSet(Makers(j)') /\ Cardinality(Makers(j)') <= Cardinality(Makers(j))
        /\ Cardinality(Makers(j)') \in Nat
    BY <2>1, <2>2, FS_Subset, FS_CardinalityType
  <2>4. CASE Kept(j)' \subseteq Kept(j)
    <3>1. IsFiniteSet(Kept(j)') /\ Cardinality(Kept(j)') <= Cardinality(Kept(j))
      BY <2>2, <2>4, FS_Subset
    <3>2. Cardinality(Kept(j)') \in Nat
      BY <3>1, FS_CardinalityType
    <3>3. Cardinality(Kept(j)') + Cardinality(Makers(j)') <= Cardinality(Workers)
      BY <2>2, <2>3, <3>1, <3>2
    <3> QED BY <1>2, <3>3 DEF SplitInv
  <2>5. CASE /\ CreateConversation(w) /\ Jid(w) = j
             /\ Kept(j)' \subseteq Kept(j) \union {Len(convs) + 1}
    <3>1. w \in Makers(j) /\ w \notin Makers(j)'
      BY <2>5 DEF TypeInv, TypeOK, CreateConversation, Continue, Makers, Jid
    <3>2. Makers(j)' \subseteq Makers(j) \ {w}
      BY <2>1, <3>1
    <3>3. Cardinality(Makers(j)') <= Cardinality(Makers(j)) - 1
      <4>1. IsFiniteSet(Makers(j) \ {w}) /\ Cardinality(Makers(j) \ {w}) = Cardinality(Makers(j)) - 1
        BY <2>2, <3>1, FS_RemoveElement
      <4> QED BY <3>2, <4>1, FS_Subset
    <3> DEFINE K == Kept(j) \union {Len(convs) + 1}
    <3>4. IsFiniteSet(K) /\ Cardinality(K) <= Cardinality(Kept(j)) + 1
      <4>1. /\ IsFiniteSet(K)
            /\ Cardinality(K) = IF Len(convs) + 1 \in Kept(j) THEN Cardinality(Kept(j))
                                                            ELSE Cardinality(Kept(j)) + 1
        BY <2>2, FS_AddElement
      <4> QED BY <2>2, <4>1
    <3>5. IsFiniteSet(Kept(j)') /\ Cardinality(Kept(j)') <= Cardinality(K)
      BY <2>5, <3>4, FS_Subset
    <3>6. Cardinality(Kept(j)') \in Nat /\ Cardinality(K) \in Nat
      BY <3>4, <3>5, FS_CardinalityType
    <3> HIDE DEF K
    <3>7. Cardinality(Kept(j)') + Cardinality(Makers(j)') <= Cardinality(Workers)
      BY <2>2, <2>3, <3>3, <3>4, <3>5, <3>6
    <3> QED BY <1>2, <3>7 DEF SplitInv
  <2> QED BY <2>4, <2>5, KeptShape
<1> QED BY <1>1, <1>2

LEMMA SplitsNext == TypeInv /\ SplitsInv /\ [Next]_vars => SplitsInv'
<1> SUFFICES ASSUME TypeInv, SplitsInv, [Next]_vars, NEW j \in Jids PROVE SplitInv(j)'
  BY DEF SplitsInv
<1>0. SplitInv(j) /\ TypeInv'
  BY TypesKept DEF SplitsInv
<1>1. CASE UNCHANGED vars
  BY <1>0, <1>1 DEF vars, SplitInv, Kept, Makers, Savers, ConversationsOf, Jid
<1>2. ASSUME NEW w \in Workers, NEW m \in Msgs, Take(w, m) PROVE SplitInv(j)'
  <2>1. /\ UNCHANGED <<contactRow, convs, wconv, orphans>>
        /\ wpc[w] = "idle"
        /\ wpc' = [wpc EXCEPT ![w] = "lookup"] /\ wmsg' = [wmsg EXCEPT ![w] = m]
    BY <1>2 DEF Take, chatwootVars
  <2>2. Kept(j)' = Kept(j) /\ Makers(j)' = Makers(j) /\ Savers(j)' = Savers(j)
    BY <2>1 DEF Kept, Makers, Savers, ConversationsOf, Jid, TypeInv, TypeOK
  <2> QED BY <1>0, <2>1, <2>2 DEF SplitInv
<1>3. ASSUME NEW w \in Workers, Step(w) PROVE SplitInv(j)'
  BY <1>0, <1>3, SplitStep
<1> QED BY <1>1, <1>2, <1>3 DEF Next

\* However many messages arrive, a customer has at most one conversation per
\* worker, apart from those whose creation never reached the row (processInbound).
THEOREM FewSplits == Spec => []SplitsBounded
<1>1. Init => SplitsInv
  <2> SUFFICES ASSUME Init, NEW j \in Jids PROVE SplitInv(j)
    BY DEF SplitsInv
  <2>1. Kept(j) = {} /\ Makers(j) = {}
    BY DEF Init, Kept, ConversationsOf, Makers
  <2> QED BY <2>1, FS_EmptySet, FS_CardinalityType DEF SplitInv
<1>2. TypeInv /\ SplitsInv => SplitsBounded
  <2> SUFFICES ASSUME TypeInv, SplitsInv, NEW j \in Jids
               PROVE  Cardinality(Kept(j)) <= Cardinality(Workers)
    BY DEF SplitsBounded, Kept
  <2>1. Cardinality(Kept(j)) \in Nat /\ Cardinality(Makers(j)) \in Nat /\ Cardinality(Workers) \in Nat
    BY SplitFinite, FS_CardinalityType
  <2> QED BY <2>1 DEF SplitsInv, SplitInv
<1> QED BY <1>1, <1>2, SplitsNext, TypesAlways, PTL DEF Spec

-----------------------------------------------------------------------------
(* Every step nears the end                                                *)

\* A busy worker's message is running, and running nowhere else; before it is
\* posted its sender has a row.
Held ==
  /\ \A w \in Workers : wpc[w] # "idle" => outcome[wmsg[w]] = "running"
  /\ \A v, w \in Workers : wpc[v] # "idle" /\ wpc[w] # "idle" /\ wmsg[v] = wmsg[w] => v = w
  /\ \A w \in Workers : wpc[w] = "post" => contactRow[Jid(w)] # 0

\* The three ways a worker leaves a step: for a later call, for its next attempt,
\* or for good.
LEMMA StepEnds ==
  ASSUME TypeInv, NEW w \in Workers, Step(w)
  PROVE  /\ \/ \E step \in Busy : Continue(w, step) /\ Stage[step] > Stage[wpc[w]]
            \/ Retry(w)
            \/ \E result \in {"done", "failed"} : Return(w, result)
         /\ wpc'[w] = "post" => UpsertContact(w)
<1> USE DEF TypeInv, TypeOK, Busy, Steps
<1>0. /\ Stage["lookup"] = 1 /\ Stage["contact"] = 2 /\ Stage["search"] = 3
      /\ Stage["conversation"] = 4 /\ Stage["upsert"] = 5 /\ Stage["post"] = 6
  BY DEF Stage
<1>1. CASE GetContact(w)
  <2>1. wpc[w] = "lookup" /\ (Continue(w, "contact") \/ Continue(w, "upsert"))
    BY <1>1 DEF GetContact
  <2>2. wpc'[w] # "post"
    BY <2>1 DEF Continue
  <2> QED BY <1>0, <2>1, <2>2
<1>2. CASE CreateContact(w) \/ FindContactByPhone(w)
  <2>1. /\ wpc[w] \in {"contact", "search"}
        /\ Continue(w, "conversation") \/ (wpc[w] = "contact" /\ Continue(w, "search"))
    BY <1>2 DEF CreateContact, FindContactByPhone
  <2>2. wpc'[w] # "post"
    BY <2>1 DEF Continue
  <2> QED BY <1>0, <2>1, <2>2
<1>3. CASE CreateConversation(w)
  <2>1. wpc[w] = "conversation" /\ Continue(w, "upsert")
    BY <1>3 DEF CreateConversation
  <2>2. wpc'[w] # "post"
    BY <2>1 DEF Continue
  <2> QED BY <1>0, <2>1, <2>2
<1>4. CASE UpsertContact(w)
  <2>1. wpc[w] = "upsert" /\ Continue(w, "post")
    BY <1>4 DEF UpsertContact
  <2> QED BY <1>0, <1>4, <2>1
<1>5. CASE PostMessage(w) \/ StepFails(w) \/ UpsertFails(w) \/ ReplyLost(w) \/ FatalError(w)
  <2>1. Return(w, "done") \/ Return(w, "failed") \/ Retry(w)
    BY <1>5 DEF PostMessage, StepFails, UpsertFails, ReplyLost, FatalError
  <2>2. wpc'[w] \in {"idle", "lookup"}
    BY <2>1 DEF Return, Retry
  <2> QED BY <2>1, <2>2
<1> QED BY <1>1, <1>2, <1>3, <1>4, <1>5 DEF Step

\* Rows are never emptied.
LEMMA RowsStay ==
  ASSUME TypeInv, NEW w \in Workers, Step(w), NEW j \in Jids, contactRow[j] # 0
  PROVE  contactRow'[j] # 0
<1>1. CASE UNCHANGED contactRow
  BY <1>1
<1>2. CASE UpsertContact(w) /\ contactRow' = [contactRow EXCEPT ![Jid(w)] = wconv[w]]
  BY <1>2 DEF UpsertContact, TypeInv, TypeOK, Known
<1> QED BY <1>1, <1>2, StepWrites

LEMMA HeldStep ==
  ASSUME TypeInv, Held, NEW w \in Workers, Step(w)
  PROVE  Held'
<1>0. /\ wpc \in [Workers -> Steps] /\ wmsg \in [Workers -> Msgs \union {None}]
      /\ outcome \in [Msgs -> {"queued", "running", "done", "failed"}]
      /\ \A v \in Workers : wpc[v] # "idle" => wmsg[v] \in Msgs
      /\ contactRow \in [Jids -> 0..Len(convs)]
  BY DEF TypeInv, TypeOK, Steps
<1>1. wpc[w] # "idle" /\ wmsg[w] \in Msgs /\ Jid(w) \in Jids
  BY WorkerReady DEF TypeInv
<1>2. \A v \in Workers \ {w} : wpc'[v] = wpc[v] /\ wmsg'[v] = wmsg[v]
  BY OthersStay DEF TypeInv
<1>3. \/ wmsg'[w] = wmsg[w] /\ outcome' = outcome
      \/ wpc'[w] = "idle" /\ \E s \in {"done", "failed"} : outcome' = [outcome EXCEPT ![wmsg[w]] = s]
  BY <1>0, StepEnds DEF Continue, Retry, Return
<1>4. \A v \in Workers : wpc'[v] # "idle" => wpc[v] # "idle" /\ wmsg'[v] = wmsg[v]
  BY <1>1, <1>2, <1>3
<1>5. \A v \in Workers : wpc'[v] # "idle" => outcome'[wmsg'[v]] = "running"
  <2>1. CASE outcome' = outcome
    BY <1>4, <2>1 DEF Held
  <2>2. CASE wpc'[w] = "idle" /\ \E s \in {"done", "failed"} : outcome' = [outcome EXCEPT ![wmsg[w]] = s]
    <3>1. \A v \in Workers : wpc'[v] # "idle" => wmsg[v] # wmsg[w]
      BY <1>1, <1>4, <2>2 DEF Held
    <3> QED BY <1>0, <1>4, <2>2, <3>1 DEF Held
  <2> QED BY <1>3, <2>1, <2>2
<1>6. \A v \in Workers : wpc'[v] = "post" => contactRow'[JidOf[wmsg'[v]]] # 0
  <2>1. ASSUME NEW v \in Workers \ {w}, wpc'[v] = "post" PROVE contactRow'[JidOf[wmsg'[v]]] # 0
    <3>1. wpc[v] = "post" /\ wmsg'[v] = wmsg[v] /\ wmsg[v] \in Msgs
      BY <1>0, <1>2, <2>1
    <3>2. Jid(v) \in Jids /\ contactRow[Jid(v)] # 0
      BY <3>1 DEF Held, Jid
    <3> QED BY <3>1, <3>2, RowsStay DEF Jid
  <2>2. ASSUME wpc'[w] = "post" PROVE contactRow'[JidOf[wmsg'[w]]] # 0
    <3>1. UpsertContact(w) /\ wmsg'[w] = wmsg[w]
      BY <1>4, <2>2, StepEnds
    <3>2. contactRow'[Jid(w)] = wconv[w] /\ wpc[w] = "upsert"
      BY <1>0, <1>1, <3>1 DEF UpsertContact
    <3> QED BY <3>1, <3>2 DEF TypeInv, Known, Jid
  <2> QED BY <2>1, <2>2
<1> QED BY <1>4, <1>5, <1>6 DEF Held, Jid

LEMMA HeldNext == TypeInv /\ Held /\ [Next]_vars => Held'
<1> SUFFICES ASSUME TypeInv, Held, [Next]_vars PROVE Held'
  OBVIOUS
<1>1. CASE UNCHANGED vars
  BY <1>1 DEF vars, Held, Jid
<1>2. ASSUME NEW w \in Workers, NEW m \in Msgs, Take(w, m) PROVE Held'
  <2>1. \A v \in Workers : wpc[v] # "idle" => wmsg[v] # m
    BY <1>2 DEF Take, Held
  <2> QED BY <1>2, <2>1 DEF Take, TypeInv, TypeOK, Held, Jid
<1> QED BY <1>1, <1>2, HeldStep DEF Next

LEMMA HeldAlways == Spec => []Held
<1>1. Init => Held
  BY DEF Init, Held
<1> QED BY <1>1, HeldNext, TypesAlways, PTL DEF Spec

\* The pool stops by itself: every step takes, ends or brings forward the job of one
\* worker (runPool, runRetryLoop, processInbound).
THEOREM EveryStepCloser == Spec => EveryStepNearsEnd
<1> DEFINE A == \E w \in Workers :
                  /\ TakesWaiting(w) \/ EndsRunning(w) \/ GoesOn(w)
                  /\ \A v \in Workers \ {w} :
                       wpc'[v] = wpc[v] /\ wmsg'[v] = wmsg[v] /\ tries'[v] = tries[v]
<1>1. ASSUME TypeInv, Held, [Next]_vars PROVE [A]_vars
  <2>0. /\ wpc \in [Workers -> Steps] /\ wmsg \in [Workers -> Msgs \union {None}]
        /\ outcome \in [Msgs -> {"queued", "running", "done", "failed"}]
        /\ tries \in [Workers -> 0..MaxAttempts - 1]
    BY <1>1 DEF TypeInv, TypeOK, Steps
  <2>1. ASSUME NEW w \in Workers, NEW m \in Msgs, Take(w, m) PROVE A
    <3>1. TakesWaiting(w)
      BY <2>0, <2>1 DEF Take, TakesWaiting
    <3>2. \A v \in Workers \ {w} : wpc'[v] = wpc[v] /\ wmsg'[v] = wmsg[v] /\ tries'[v] = tries[v]
      BY <2>0, <2>1 DEF Take
    <3> QED BY <3>1, <3>2
  <2>2. ASSUME NEW w \in Workers, Step(w) PROVE A
    <3>0. wpc[w] # "idle" /\ outcome[wmsg[w]] = "running" /\ wmsg[w] \in Msgs
      BY <1>1, <2>2, WorkerReady DEF Held, TypeInv
    <3>1. ASSUME NEW step \in Busy, Continue(w, step), Stage[step] > Stage[wpc[w]] PROVE GoesOn(w)
      BY <2>0, <3>0, <3>1 DEF Continue, GoesOn, Busy, Steps
    <3>2. ASSUME NEW result \in {"done", "failed"}, Return(w, result) PROVE EndsRunning(w)
      BY <2>0, <3>0, <3>2 DEF Return, EndsRunning
    <3>3. Retry(w) => GoesOn(w) \/ EndsRunning(w)
      <4>1. CASE tries[w] + 1 < MaxAttempts /\ Retry(w)
        BY <2>0, <3>0, <4>1 DEF Retry, GoesOn
      <4> QED BY <3>2, <4>1 DEF Retry
    <3>4. \A v \in Workers \ {w} : wpc'[v] = wpc[v] /\ wmsg'[v] = wmsg[v] /\ tries'[v] = tries[v]
      BY <1>1, <2>0, <2>2, StepEnds DEF Continue, Return, Retry
    <3> QED BY <1>1, <2>2, <3>1, <3>2, <3>3, <3>4, StepEnds
  <2> QED BY <1>1, <2>1, <2>2 DEF Next
<1> QED BY <1>1, TypesAlways, HeldAlways, PTL DEF Spec, EveryStepNearsEnd

-----------------------------------------------------------------------------
(* The threads                                                             *)

\* The mapping, and what it maps a step to.
Fate == [m \in Msgs |-> IF outcome[m] \in {"queued", "running"} THEN "open" ELSE outcome[m]]
DeskStep == [Desk!DeskNext]_<<Fate, convs, contactRow, posts, raced>>

\* What becomes of the message of a worker that goes on, retries or returns.
LEMMA FateOfStep ==
  ASSUME TypeInv, Held, NEW w \in Workers, Step(w)
  PROVE  /\ wmsg[w] \in Msgs /\ Fate[wmsg[w]] = "open"
         /\ \A step : Continue(w, step) => UNCHANGED Fate
         /\ \A result \in {"done", "failed"} : Return(w, result) => Fate' = [Fate EXCEPT ![wmsg[w]] = result]
         /\ Retry(w) => UNCHANGED Fate \/ Fate' = [Fate EXCEPT ![wmsg[w]] = "failed"]
<1>0. /\ outcome \in [Msgs -> {"queued", "running", "done", "failed"}]
      /\ wmsg[w] \in Msgs /\ outcome[wmsg[w]] = "running"
  BY WorkerReady DEF TypeInv, TypeOK, Held
<1>1. \A step : Continue(w, step) => UNCHANGED Fate
  BY DEF Continue, Fate
<1>2. \A result \in {"done", "failed"} : Return(w, result) => Fate' = [Fate EXCEPT ![wmsg[w]] = result]
  BY <1>0 DEF Return, Fate
<1> QED BY <1>0, <1>1, <1>2 DEF Retry, Fate

LEMMA StepFiles ==
  ASSUME TypeInv, OwnInv, UnracedInv, Held, NEW w \in Workers, Step(w)
  PROVE  DeskStep
<1>1. wmsg[w] \in Msgs /\ Jid(w) \in Jids
  BY WorkerReady DEF TypeInv
<1>2. PICK m \in Msgs : m = wmsg[w]
  BY <1>1
<1>3. PICK j \in Jids : j = Jid(w)
  BY <1>1
<1>4. /\ m = wmsg[w] /\ j = Jid(w) /\ j = JidOf[m] /\ Fate[m] = "open"
      /\ contactRow \in [Jids -> 0..Len(convs)] /\ posts \in [Msgs -> SUBSET (1..Len(convs))]
      /\ convs \in Seq(Conversations) /\ Len(convs) \in Nat
  BY <1>2, <1>3, FateOfStep DEF TypeInv, TypeOK, Jid
<1>5. j \notin raced => Settled(j)
  BY <1>4 DEF UnracedInv
<1>6. PICK c \in 0..Len(convs) : c = wconv[w]
  BY DEF TypeInv, TypeOK
<1>7. wpc[w] \in {"upsert", "post"} => c \in DOMAIN convs /\ convs[c].source = j
  <2>1. wpc[w] \in {"upsert", "post"} => c # 0 /\ convs[c].source = j
    BY <1>4, <1>6 DEF OwnInv, TypeInv, Known, Serves
  <2> QED BY <1>4, <1>6, <2>1
<1>8. UNCHANGED <<Fate, convs, contactRow, posts, raced>> => DeskStep
  BY DEF DeskStep
<1> USE <1>4, <1>6
<1>9. ASSUME Desk!Fail(m) PROVE DeskStep
  BY <1>9 DEF DeskStep, Desk!DeskNext
<1>10. UNCHANGED <<convs, contactRow, posts, raced>>
        /\ (UNCHANGED Fate \/ Fate' = [Fate EXCEPT ![m] = "failed"]) => DeskStep
  BY <1>8, <1>9 DEF Desk!Fail, Desk!Becomes, Fate
<1>11. CASE GetContact(w)
  <2>1. UNCHANGED <<Fate, convs, contactRow, posts>>
    BY <1>11, FateOfStep DEF GetContact, chatwootVars
  <2>2. UNCHANGED raced \/ (contactRow[j] = 0 /\ raced' = raced \union {j})
    BY <1>11 DEF GetContact
  <2> QED BY <1>8, <2>1, <2>2 DEF DeskStep, Desk!DeskNext, Desk!Split, Fate
<1>12. CASE CreateContact(w) \/ FindContactByPhone(w)
  <2>1. UNCHANGED <<convs, contactRow, posts, raced>> /\ \E step \in Busy : Continue(w, step)
    BY <1>12 DEF CreateContact, FindContactByPhone, chatwootVars, Busy, Steps
  <2> QED BY <1>8, <2>1, FateOfStep
<1>13. ASSUME wpc[w] = "conversation", convs' = Append(convs, Opening(w)),
             UNCHANGED Fate \/ Fate' = [Fate EXCEPT ![m] = "failed"],
             UNCHANGED <<contactRow, posts, raced>>
      PROVE  DeskStep
  <2>1. contactRow[j] = 0 \/ j \in raced
    <3>1. w \in Creating(j)
      BY <1>13 DEF Creating
    <3> QED BY <1>5, <3>1 DEF Settled
  <2>2. wcontact[w] \in Resembles[j] /\ Opening(w) = [source |-> j, contact |-> wcontact[w]]
    BY <1>13 DEF TypeInv, Known, Opening, Opened
  <2>3. Desk!OpenThread(m)
    BY <1>13, <2>1, <2>2 DEF Desk!OpenThread, Desk!Becomes, Fate
  <2> QED BY <2>3 DEF DeskStep, Desk!DeskNext
<1>14. CASE CreateConversation(w)
  <2>1. UNCHANGED <<contactRow, posts, raced>> /\ convs' = Append(convs, Opening(w)) /\ UNCHANGED Fate
        /\ wpc[w] = "conversation"
    BY <1>14, FateOfStep DEF CreateConversation, Opening
  <2> QED BY <1>13, <2>1
<1>15. CASE UpsertContact(w)
  <2>1. /\ wpc[w] = "upsert" /\ UNCHANGED <<Fate, convs, posts, raced>>
        /\ contactRow' = [contactRow EXCEPT ![j] = c]
    BY <1>15, FateOfStep DEF UpsertContact, chatwootVars
  <2>2. contactRow[j] \in {0, c} \/ j \in raced
    <3>1. contactRow[j] # c => w \in Creating(j)
      BY <2>1 DEF Creating
    <3> QED BY <1>5, <3>1 DEF Settled
  <2>3. Desk!Settle(c)
    BY <1>7, <2>1, <2>2 DEF Desk!Settle, Fate
  <2> QED BY <1>7, <2>1, <2>3 DEF DeskStep, Desk!DeskNext
<1>16. ASSUME wpc[w] = "post", posts' = [posts EXCEPT ![m] = @ \union {c}],
              \/ UNCHANGED Fate
              \/ \E s \in {"done", "failed"} : Fate' = [Fate EXCEPT ![m] = s],
              UNCHANGED <<convs, contactRow, raced>>
       PROVE  DeskStep
  <2>1. contactRow[j] = c \/ (contactRow[j] # 0 /\ j \in raced)
    BY <1>5, <1>16 DEF Settled, Held
  <2>2. Desk!File(m, c)
    BY <1>7, <1>16, <2>1 DEF Desk!File, Desk!Becomes, Fate
  <2> QED BY <1>7, <1>16, <2>2 DEF DeskStep, Desk!DeskNext
<1>17. CASE PostMessage(w)
  <2>1. /\ wpc[w] = "post" /\ posts' = [posts EXCEPT ![m] = @ \union {c}]
        /\ Fate' = [Fate EXCEPT ![m] = "done"] /\ UNCHANGED <<convs, contactRow, raced>>
    BY <1>17, FateOfStep DEF PostMessage
  <2> QED BY <1>16, <2>1
<1>18. CASE StepFails(w) \/ UpsertFails(w) \/ FatalError(w)
  <2>1. UNCHANGED <<convs, contactRow, posts, raced>> /\ (Retry(w) \/ Return(w, "failed"))
    BY <1>18 DEF StepFails, UpsertFails, FatalError, chatwootVars
  <2> QED BY <1>10, <2>1, FateOfStep
<1>19. CASE ReplyLost(w)
  <2>1. UNCHANGED <<contactRow, raced>> /\ (UNCHANGED Fate \/ Fate' = [Fate EXCEPT ![m] = "failed"])
    BY <1>19, FateOfStep DEF ReplyLost
  <2>2. \/ UNCHANGED <<convs, posts>>
        \/ wpc[w] = "conversation" /\ convs' = Append(convs, Opening(w)) /\ UNCHANGED posts
        \/ /\ wpc[w] = "post" /\ posts' = [posts EXCEPT ![m] = @ \union {c}]
           /\ UNCHANGED convs
    BY <1>19 DEF ReplyLost, Opening
  <2> QED BY <1>10, <1>13, <1>16, <2>1, <2>2
<1> QED BY <1>11, <1>12, <1>14, <1>15, <1>17, <1>18, <1>19 DEF Step

\* The workers, whatever fails between them, file messages as Threads promises.
THEOREM ContactsAreThreads == Spec => ImplementsThreads
<1>1. Init => Desk!DeskInit
  BY DEF Init, Desk!DeskInit
<1>2. TypeInv /\ OwnInv /\ UnracedInv /\ Held /\ [Next]_vars => [Desk!DeskNext]_(Desk!desk)
  <2> SUFFICES ASSUME TypeInv, OwnInv, UnracedInv, Held, [Next]_vars PROVE DeskStep
    BY DEF DeskStep, Desk!desk, Fate
  <2>1. CASE UNCHANGED vars
    BY <2>1 DEF vars, DeskStep, Fate
  <2>2. ASSUME NEW w \in Workers, NEW m \in Msgs, Take(w, m) PROVE DeskStep
    <3>1. UNCHANGED <<convs, contactRow, posts, raced>> /\ UNCHANGED Fate
      BY <2>2 DEF Take, chatwootVars, Fate, TypeInv, TypeOK
    <3> QED BY <3>1 DEF DeskStep
  <2> QED BY <2>1, <2>2, StepFiles DEF Next
<1>3. Spec => []OwnInv
  <2>1. Init => OwnInv
    BY DEF Init, OwnInv, OwnConversation
  <2> QED BY <2>1, OwnNext, TypesAlways, PTL DEF Spec
<1> QED BY <1>1, <1>2, <1>3, TypesAlways, UnracedAlways, HeldAlways, PTL
       DEF Spec, ImplementsThreads, Desk!DeskSpec
=============================================================================
