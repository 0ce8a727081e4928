------------------------------ MODULE Contacts ------------------------------
(***************************************************************************)
(* processInbound: how a worker finds or makes the Chatwoot contact and    *)
(* conversation of a WhatsApp number before it posts a message.  Workers   *)
(* of the inbound pool run it concurrently, also for one number: a burst   *)
(* of messages of a new customer.  Chatwoot (external) keeps at most one   *)
(* contact per phone number and any number of conversations per contact;   *)
(* its contact search is a search for text, which may list other contacts. *)
(* The retry loop around it is runRetryLoop; the life of the job outside   *)
(* is module Bridge.                                                       *)
(***************************************************************************)
EXTENDS Integers, SequencesExt

CONSTANTS
  Jids,         \* WhatsApp numbers
  Msgs,         \* inbound messages in the channel
  JidOf,        \* the sender of each message
  Resembles,    \* external: the contacts Chatwoot's search for a number may list
  Workers,      \* goroutines of the inbound pool
  MaxAttempts,  \* len(retryBackoff) + 1
  None,         \* the empty slot
  MaxFaults     \* bound: calls and queries that fail

ASSUME ContactsAssumption ==
  /\ JidOf \in [Msgs -> Jids]
  /\ Resembles \in [Jids -> SUBSET Jids] /\ \A j \in Jids : j \in Resembles[j]
  /\ None \notin Msgs /\ None \notin Jids /\ IsFiniteSet(Workers)
  /\ MaxAttempts \in Nat \ {0}
  /\ MaxFaults \in Nat

VARIABLES
  outcome,     \* "queued", "running", "done" or "failed", per message
  contactRow,  \* contacts.cw_conversation_id per number, 0 while there is no row
  cwContacts,  \* Chatwoot: numbers that have a contact
  convs,       \* Chatwoot: the conversations by id, each with its source_id and its contact
  posts,       \* Chatwoot: conversations a message was posted in
  wpc,         \* where each worker is in processInbound
  wmsg,        \* its message
  wcontact,    \* contactID, from the contact's creation or search to the conversation's
  wconv,       \* convID, 0 before it is known
  tries,       \* failed attempts of the job
  faults,      \* counter of the bound
  orphans,     \* history: conversations whose id never reached the contact row
  raced        \* history: numbers that two workers were creating at once

chatwootVars == <<cwContacts, convs, posts>>
vars == <<outcome, contactRow, cwContacts, convs, posts, wpc, wmsg, wcontact, wconv, tries,
          faults, orphans, raced>>

Jid(w) == JidOf[wmsg[w]]

Conversations == [source : Jids, contact : Jids]

\* Workers that found no row for j and have not written one yet.
Creating(j) ==
  {w \in Workers :
     /\ wpc[w] # "idle" /\ Jid(w) = j
     /\ \/ wpc[w] \in {"contact", "search", "conversation"}
        \/ wpc[w] = "upsert" /\ contactRow[j] # wconv[w]}

Init ==
  /\ outcome = [m \in Msgs |-> "queued"]
  /\ contactRow = [j \in Jids |-> 0]
  /\ cwContacts \in SUBSET Jids  \* agents and other channels create contacts too
  /\ convs = <<>>
  /\ posts = [m \in Msgs |-> {}]
  /\ wpc = [w \in Workers |-> "idle"]
  /\ wmsg = [w \in Workers |-> None]
  /\ wcontact = [w \in Workers |-> None]
  /\ wconv = [w \in Workers |-> 0]
  /\ tries = [w \in Workers |-> 0]
  /\ faults = 0
  /\ orphans = {}
  /\ raced = {}

-----------------------------------------------------------------------------
(* The job around processInbound                                           *)

Take(w, m) ==
  /\ wpc[w] = "idle" /\ outcome[m] = "queued"
  /\ outcome' = [outcome EXCEPT ![m] = "running"]
  /\ wmsg' = [wmsg EXCEPT ![w] = m]
  /\ wpc' = [wpc EXCEPT ![w] = "lookup"]
  /\ UNCHANGED <<contactRow, chatwootVars, wcontact, wconv, tries, faults, orphans, raced>>

Continue(w, step) == wpc' = [wpc EXCEPT ![w] = step] /\ UNCHANGED <<wmsg, tries, outcome>>

\* processInbound returns: the loop ends and the worker is free.
Return(w, result) ==
  /\ outcome' = [outcome EXCEPT ![wmsg[w]] = result]
  /\ wpc' = [wpc EXCEPT ![w] = "idle"]
  /\ wmsg' = [wmsg EXCEPT ![w] = None]
  /\ wcontact' = [wcontact EXCEPT ![w] = None]
  /\ wconv' = [wconv EXCEPT ![w] = 0]
  /\ tries' = [tries EXCEPT ![w] = 0]

\* Mutant: one attempt too many.
RetryOnceMore(w) ==
  IF tries[w] < MaxAttempts
  THEN /\ wpc' = [wpc EXCEPT ![w] = "lookup"]
       /\ wcontact' = [wcontact EXCEPT ![w] = None]
       /\ wconv' = [wconv EXCEPT ![w] = 0]
       /\ tries' = [tries EXCEPT ![w] = @ + 1]
       /\ UNCHANGED <<wmsg, outcome>>
  ELSE Return(w, "failed")

\* A retriable error: the next attempt starts over from the lookup.
Retry(w) ==
  IF tries[w] + 1 < MaxAttempts
  THEN /\ wpc' = [wpc EXCEPT ![w] = "lookup"]
       /\ wcontact' = [wcontact EXCEPT ![w] = None]
       /\ wconv' = [wconv EXCEPT ![w] = 0]
       /\ tries' = [tries EXCEPT ![w] = @ + 1]
       /\ UNCHANGED <<wmsg, outcome>>
  ELSE Return(w, "failed")

\* The contact a worker is handling.
Holds(w, j) == wcontact' = [wcontact EXCEPT ![w] = j]

Fault == faults < MaxFaults /\ faults' = faults + 1

-----------------------------------------------------------------------------
(* The steps of one attempt                                                *)

\* Mutant: the row is never read, every message resolves from scratch.
GetContactMisses(w) ==
  /\ wpc[w] = "lookup"
  /\ wconv' = [wconv EXCEPT ![w] = 0]
  /\ Continue(w, "contact")
  /\ raced' = IF Creating(Jid(w)) = {} THEN raced ELSE raced \union {Jid(w)}
  /\ UNCHANGED <<contactRow, chatwootVars, wcontact, faults, orphans>>

\* GetContact; ErrNoRows leads to cwCreateContact.
GetContact(w) ==
  /\ wpc[w] = "lookup"
  /\ LET row == contactRow[Jid(w)] IN
       /\ wconv' = [wconv EXCEPT ![w] = row]
       /\ IF row # 0 THEN Continue(w, "upsert") /\ UNCHANGED raced
          ELSE /\ Continue(w, "contact")
               /\ raced' = IF Creating(Jid(w)) = {} THEN raced ELSE raced \union {Jid(w)}
  /\ UNCHANGED <<contactRow, chatwootVars, wcontact, faults, orphans>>

\* Mutants: a 422 is one more fatal 4xx; or it is retried from the start.
CreateContactFatalIfTaken(w) ==
  /\ wpc[w] = "contact"
  /\ IF Jid(w) \in cwContacts THEN Return(w, "failed")
     ELSE Continue(w, "conversation") /\ Holds(w, Jid(w)) /\ UNCHANGED wconv
  /\ cwContacts' = cwContacts \union {Jid(w)}
  /\ UNCHANGED <<contactRow, convs, posts, faults, orphans, raced>>
CreateContactLoopsIfTaken(w) ==
  /\ wpc[w] = "contact"
  /\ IF Jid(w) \in cwContacts THEN Continue(w, "lookup") /\ UNCHANGED wcontact
     ELSE Continue(w, "conversation") /\ Holds(w, Jid(w))
  /\ cwContacts' = cwContacts \union {Jid(w)}
  /\ UNCHANGED <<contactRow, convs, posts, wconv, faults, orphans, raced>>

\* POST /contacts: created, or 422 "already been taken".
CreateContact(w) ==
  /\ wpc[w] = "contact"
  /\ IF Jid(w) \in cwContacts THEN Continue(w, "search") /\ UNCHANGED wcontact
     ELSE Continue(w, "conversation") /\ Holds(w, Jid(w))
  /\ cwContacts' = cwContacts \union {Jid(w)}
  /\ UNCHANGED <<contactRow, convs, posts, wconv, faults, orphans, raced>>

\* GET /contacts/search: the first contact of the answer is taken, whoever it is.
FindContactByPhone(w) ==
  /\ wpc[w] = "search"
  /\ \E j \in Resembles[Jid(w)] \intersect cwContacts : Holds(w, j)
  /\ Continue(w, "conversation")
  /\ UNCHANGED <<contactRow, chatwootVars, wconv, faults, orphans, raced>>

\* The conversation a worker opens for a contact: contact_id and source_id.
Opened(w, j) == [source |-> Jid(w), contact |-> j]

\* Mutant: the contact is mixed up with that of another worker's job.
CreateConversationForAnother(w) ==
  /\ wpc[w] = "conversation"
  /\ \E j \in cwContacts : convs' = Append(convs, Opened(w, j))
  /\ Holds(w, None)
  /\ wconv' = [wconv EXCEPT ![w] = Len(convs) + 1]
  /\ Continue(w, "upsert")
  /\ UNCHANGED <<contactRow, cwContacts, posts, faults, orphans, raced>>

\* POST /conversations makes a new one every time.
CreateConversation(w) ==
  /\ wpc[w] = "conversation"
  /\ convs' = Append(convs, Opened(w, wcontact[w]))
  /\ Holds(w, None)
  /\ wconv' = [wconv EXCEPT ![w] = Len(convs) + 1]
  /\ Continue(w, "upsert")
  /\ UNCHANGED <<contactRow, cwContacts, posts, faults, orphans, raced>>

\* Mutant: only a row that exists is updated.
UpdateContact(w) ==
  /\ wpc[w] = "upsert"
  /\ contactRow' = [contactRow EXCEPT ![Jid(w)] = IF @ = 0 THEN 0 ELSE wconv[w]]
  /\ Continue(w, "post")
  /\ UNCHANGED <<chatwootVars, wcontact, wconv, faults, orphans, raced>>

\* The row is written on every message, found or created: the last write wins.
UpsertContact(w) ==
  /\ wpc[w] = "upsert"
  /\ contactRow' = [contactRow EXCEPT ![Jid(w)] = wconv[w]]
  /\ Continue(w, "post")
  /\ UNCHANGED <<chatwootVars, wcontact, wconv, faults, orphans, raced>>

\* POST /conversations/{id}/messages
PostMessage(w) ==
  /\ wpc[w] = "post"
  /\ posts' = [posts EXCEPT ![wmsg[w]] = @ \union {wconv[w]}]
  /\ Return(w, "done")
  /\ UNCHANGED <<contactRow, cwContacts, convs, faults, orphans, raced>>

\* A query or a call fails and had no effect; the contact search may also
\* answer with an empty list.
StepFails(w) ==
  /\ wpc[w] \in {"lookup", "contact", "search", "conversation", "post"}
  /\ Fault
  /\ Retry(w)
  /\ UNCHANGED <<contactRow, chatwootVars, orphans, raced>>

\* UpsertContact fails: a conversation just made is forgotten.
UpsertFails(w) ==
  /\ wpc[w] = "upsert"
  /\ Fault
  /\ Retry(w)
  /\ orphans' = IF contactRow[Jid(w)] = wconv[w] THEN orphans ELSE orphans \union {wconv[w]}
  /\ UNCHANGED <<contactRow, chatwootVars, raced>>

\* Chatwoot did what it was asked and the reply is lost.
ReplyLost(w) ==
  /\ Fault
  /\ \/ /\ wpc[w] = "contact"
        /\ cwContacts' = cwContacts \union {Jid(w)}
        /\ UNCHANGED <<convs, posts, orphans>>
     \/ /\ wpc[w] = "conversation"
        /\ convs' = Append(convs, Opened(w, wcontact[w]))
        /\ orphans' = orphans \union {Len(convs) + 1}
        /\ UNCHANGED <<cwContacts, posts>>
     \/ /\ wpc[w] = "post"
        /\ posts' = [posts EXCEPT ![wmsg[w]] = @ \union {wconv[w]}]
        /\ UNCHANGED <<cwContacts, convs, orphans>>
  /\ Retry(w)
  /\ UNCHANGED <<contactRow, raced>>

\* A 4xx of Chatwoot, or a payload ParseInbound cannot read: no retry.
FatalError(w) ==
  /\ wpc[w] \in {"lookup", "contact", "search", "conversation", "post"}
  /\ Fault
  /\ Return(w, "failed")
  /\ UNCHANGED <<contactRow, chatwootVars, orphans, raced>>

-----------------------------------------------------------------------------

Step(w) ==
  \/ GetContact(w) \/ CreateContact(w) \/ FindContactByPhone(w)
  \/ CreateConversation(w) \/ UpsertContact(w) \/ PostMessage(w)
  \/ StepFails(w) \/ UpsertFails(w) \/ ReplyLost(w) \/ FatalError(w)

Next == \E w \in Workers : Step(w) \/ \E m \in Msgs : Take(w, m)

Spec == Init /\ [][Next]_vars

\* Every goroutine runs and every call ends within the client's timeout.
FairSpec == Spec /\ \A w \in Workers : WF_vars(Step(w) \/ \E m \in Msgs : Take(w, m))

-----------------------------------------------------------------------------
(* Properties                                                              *)

ConversationsOf(j) == {c \in DOMAIN convs : convs[c].source = j}

\* Every variable has its type.
TypeOK ==
  /\ outcome \in [Msgs -> {"queued", "running", "done", "failed"}]
  /\ contactRow \in [Jids -> 0..Len(convs)]
  /\ cwContacts \subseteq Jids
  /\ convs \in Seq(Conversations)
  /\ posts \in [Msgs -> SUBSET (1..Len(convs))]
  /\ wpc \in [Workers ->
       {"idle", "lookup", "contact", "search", "conversation", "upsert", "post"}]
  /\ wmsg \in [Workers -> Msgs \union {None}]
  /\ \A w \in Workers : wpc[w] # "idle" => wmsg[w] \in Msgs
  /\ wcontact \in [Workers -> Jids \union {None}]
  /\ wconv \in [Workers -> 0..Len(convs)]
  /\ tries \in [Workers -> 0..MaxAttempts - 1]
  /\ faults \in 0..MaxFaults
  /\ orphans \subseteq 1..Len(convs)
  /\ raced \subseteq Jids

\* A customer's message is only ever posted in a conversation opened under that
\* customer's number, and so the row of a number points; the contact the agent sees on
\* it is one that Chatwoot's search lists for the number (cwFindContactByPhone takes the
\* first), the customer's own if it lists no other.  However workers overtake one
\* another and retry, no other mix-up occurs.
Serves(c, j) == convs[c].source = j /\ convs[c].contact \in Resembles[j] \intersect cwContacts
OwnConversation ==
  /\ \A m \in Msgs : \A c \in posts[m] : Serves(c, JidOf[m])
  /\ \A j \in Jids : contactRow[j] # 0 => Serves(contactRow[j], j)

\* What is said of cwFindContactByPhone: it returns the contact that exists, so that a
\* customer's message is shown under the customer's own contact.
ShownUnderOwnContact == \A m \in Msgs : \A c \in posts[m] : convs[c].contact = JidOf[m]

\* A burst of messages of a new customer fails none of them: losing the race to
\* create the contact is not an error.
BurstNeverFails == faults = 0 => \A m \in Msgs : outcome[m] # "failed"

\* However many messages arrive, a customer has at most one conversation per
\* worker, plus the ones whose creation was lost on the way to the row.
SplitsBounded ==
  \A j \in Jids :
    Cardinality(ConversationsOf(j) \ orphans) <= Cardinality(Workers)

\* A number that no two workers were creating at once has all its messages in the
\* conversation of its row, whatever failed in between.
OneConversationUnlessRaced ==
  \A m \in Msgs : JidOf[m] \notin raced => posts[m] \subseteq {contactRow[JidOf[m]]}

\* ... and that row never changes again, though every message rewrites it.
MappingStable ==
  [][\A j \in Jids \ raced : contactRow[j] # 0 => contactRow'[j] = contactRow[j]]_vars

\* Nothing goes on for ever: every step of the pool takes a message that was waiting,
\* ends one, or brings one worker to a later attempt or to a later call of the same,
\* and leaves the other workers where they are.
Stage == [lookup |-> 1, contact |-> 2, search |-> 3, conversation |-> 4, upsert |-> 5, post |-> 6]
TakesWaiting(w) ==
  /\ wpc[w] = "idle" /\ wpc'[w] # "idle"
  /\ outcome[wmsg'[w]] = "queued" /\ outcome' = [outcome EXCEPT ![wmsg'[w]] = "running"]
EndsRunning(w) ==
  /\ wpc[w] # "idle" /\ wpc'[w] = "idle"
  /\ outcome[wmsg[w]] = "running"
  /\ \E s \in {"done", "failed"} : outcome' = [outcome EXCEPT ![wmsg[w]] = s]
GoesOn(w) ==
  /\ wpc[w] # "idle" /\ wpc'[w] # "idle" /\ wmsg'[w] = wmsg[w] /\ outcome' = outcome
  /\ \/ tries'[w] = tries[w] + 1
     \/ tries'[w] = tries[w] /\ Stage[wpc'[w]] > Stage[wpc[w]]
EveryStepNearsEnd ==
  [][\E w \in Workers :
       /\ TakesWaiting(w) \/ EndsRunning(w) \/ GoesOn(w)
       /\ \A v \in Workers \ {w} :
            wpc'[v] = wpc[v] /\ wmsg'[v] = wmsg[v] /\ tries'[v] = tries[v]]_vars

\* What the workers make of a customer's messages is what Threads promises.
Desk == INSTANCE Threads
  WITH Customers <- Jids, Messages <- Msgs, SenderOf <- JidOf, TakenFor <- Resembles,
       fate <- [m \in Msgs |-> IF outcome[m] \in {"queued", "running"} THEN "open" ELSE outcome[m]],
       threads <- convs, home <- contactRow, filed <- posts, split <- raced
ImplementsThreads == Desk!DeskSpec

\* Every message in the channel is posted or given up in the end.
EveryMessageEnds == \A m \in Msgs : outcome[m] = "queued" ~> outcome[m] \in {"done", "failed"}
=============================================================================
