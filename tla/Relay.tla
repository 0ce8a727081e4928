------------------------------- MODULE Relay --------------------------------
(***************************************************************************)
(* One conversation seen from both ends: the webhooks of Chatwoot and of   *)
(* the WhatsApp gateway, the filters that decide which of them the bridge  *)
(* relays, and processOutbound / processInbound sending what was accepted, *)
(* part by part, to a gateway that may refuse it.  Both ends report back   *)
(* what the bridge itself posts, so the filters are all that keeps a       *)
(* message from going round for ever.                                      *)
(* Rows, channels and restarts are module Bridge; contacts are Contacts.   *)
(***************************************************************************)
EXTENDS Integers, Sequences

CONSTANTS
  Drafts,       \* messages agents write in Chatwoot
  Texts,        \* messages the customer writes on WhatsApp
  Note,         \* windowClosedNote
  OutContents,  \* what agents write: nothing to send, one text, or attachments
  InContents,   \* what customers write: one text or one attachment
  MaxAttempts,  \* len(retryBackoff) + 1
  MaxFaults     \* bound: calls that fail

Providers == {"megaapi", "wablast"}
Directions == {"in", "out"}
Bodies == Drafts \union Texts \union {Note}
Jobs == Directions \X Bodies

\* "unnamed": audio or video whose type only a HEAD request tells; "bad": HEIC,
\* GIF, or audio and video WhatsApp does not take; "big": over the size limit.
Formats == {"text", "file", "unnamed", "bad", "big"}

ASSUME RelayAssumption ==
  /\ Drafts \intersect Texts = {} /\ Note \notin Drafts \union Texts
  /\ OutContents \subseteq Seq(Formats)
  /\ InContents \subseteq {c \in Seq(Formats) : Len(c) = 1}
  /\ MaxAttempts \in Nat \ {0} /\ MaxFaults \in Nat

VARIABLES
  provider,    \* tenants.provider
  windowOpen,  \* the customer wrote within 24 hours
  written,     \* messages people have written
  aside,       \* the ones that are private notes
  content,     \* what each message is sent as, part by part
  cwHooks,     \* webhooks Chatwoot is about to deliver
  waHooks,     \* webhooks the gateway is about to deliver
  pc,          \* per job: "none", "running", "note", "done", "failed"
  part,        \* attachment the attempt is at
  tries,       \* attempts that have failed
  cause,       \* why the job failed
  copies,      \* history: times each part was accepted by the other end
  notes,       \* history: private notes posted for each job
  faults       \* counter of the bound

world == <<provider, windowOpen, written, aside, content>>
jobVars == <<pc, part, tries, cause>>
vars == <<provider, windowOpen, written, aside, content, cwHooks, waHooks, pc, part, tries,
          cause, copies, notes, faults>>

Parts(j) == content[j[2]]

Init ==
  /\ provider \in Providers
  /\ windowOpen \in BOOLEAN
  /\ written = {} /\ aside = {} /\ cwHooks = {} /\ waHooks = {}
  /\ content = [b \in Bodies |-> <<"text">>]
  /\ pc = [j \in Jobs |-> "none"]
  /\ part = [j \in Jobs |-> 1]
  /\ tries = [j \in Jobs |-> 0]
  /\ cause = [j \in Jobs |-> "none"]
  /\ copies = [j \in Jobs |-> <<>>]
  /\ notes = [j \in Jobs |-> 0]
  /\ faults = 0

Faults(n) == faults + n <= MaxFaults /\ faults' = faults + n

-----------------------------------------------------------------------------
(* The two ends                                                            *)

\* Chatwoot reports every message of the conversation, the gateway every
\* message of the number, whoever made it.
CWMessage(type, private, b) == [type |-> type, private |-> private, body |-> b]
WAMessage(fromMe, b) == [fromMe |-> fromMe, body |-> b]

AgentWrites(d, c, private) ==
  /\ d \notin written
  /\ written' = written \union {d}
  /\ aside' = IF private THEN aside \union {d} ELSE aside
  /\ content' = [content EXCEPT ![d] = c]
  /\ cwHooks' = cwHooks \union {CWMessage("outgoing", private, d)}
  /\ UNCHANGED <<provider, windowOpen, waHooks, jobVars, copies, notes, faults>>

CustomerWrites(t, c) ==
  /\ t \notin written
  /\ written' = written \union {t}
  /\ content' = [content EXCEPT ![t] = c]
  /\ windowOpen' = TRUE
  /\ waHooks' = waHooks \union {WAMessage(FALSE, t)}
  /\ UNCHANGED <<provider, aside, cwHooks, jobVars, copies, notes, faults>>

WindowCloses ==
  /\ provider = "wablast" /\ windowOpen
  /\ windowOpen' = FALSE
  /\ UNCHANGED <<provider, written, aside, content, cwHooks, waHooks, jobVars, copies, notes,
                 faults>>

-----------------------------------------------------------------------------
(* The webhook handlers                                                    *)

\* Only message_created is modelled: a webhook of any other event is answered
\* without changing anything.
\* Mutant: the filter forgets the private flag.
RelaysPrivate(e) == e.type = "outgoing"
chatwootShouldRelay(e) == e.type = "outgoing" /\ ~e.private

\* megaAPI marks the bridge's own sends fromMe; WaBlast reports them as events
\* of another type than message.received.
waIsFromMe(e) == provider = "megaapi" /\ e.fromMe
wablastReceived(e) == provider = "wablast" => ~e.fromMe

\* The row and the channel: a message that finds the channel full is marked
\* failed there and then, and its webhook answered 503.
Accept(j) ==
  /\ \/ pc' = [pc EXCEPT ![j] = "running"] /\ UNCHANGED cause
     \/ pc' = [pc EXCEPT ![j] = "failed"] /\ cause' = [cause EXCEPT ![j] = "full"]
  /\ copies' = [copies EXCEPT ![j] = [p \in DOMAIN Parts(j) |-> 0]]

Ignore == UNCHANGED <<pc, cause, copies>>

\* Mutant: only a message that is done has a row in the way.
EnqueueFailedAgain(j) == IF pc[j] \in {"none", "failed"} THEN Accept(j) ELSE Ignore

Enqueue(j) == IF pc[j] = "none" THEN Accept(j) ELSE Ignore

\* handleCWWebhook.  A webhook may be delivered again: a message that has a row
\* is answered "duplicate".
CWWebhook(e) ==
  /\ e \in cwHooks
  /\ cwHooks' \in {cwHooks \ {e}, cwHooks}
  /\ IF chatwootShouldRelay(e) THEN Enqueue(<<"out", e.body>>) ELSE Ignore
  /\ UNCHANGED <<world, waHooks, part, tries, notes, faults>>

\* handleWAWebhook, handleWABWebhook
WAWebhook(e) ==
  /\ e \in waHooks
  /\ waHooks' \in {waHooks \ {e}, waHooks}
  /\ IF ~waIsFromMe(e) /\ wablastReceived(e)
     THEN Enqueue(<<"in", e.body>>) ELSE Ignore
  /\ UNCHANGED <<world, cwHooks, part, tries, notes, faults>>

-----------------------------------------------------------------------------
(* One attempt: the parts in turn                                          *)

\* No parts: a message without content, or of a conversation whose contact has
\* no number to send to ("missing recipient or content").
Missing(j) == Parts(j) = <<>>
Format(j) == Parts(j)[part[j]]
LastPart(j) == part[j] >= Len(Parts(j))

Fail(j, why) ==
  /\ pc' = [pc EXCEPT ![j] = "failed"]
  /\ cause' = [cause EXCEPT ![j] = why]
  /\ UNCHANGED <<part, tries>>

\* Mutant: one attempt more than there are backoffs for.
RetryOnceMore(j) ==
  IF tries[j] < MaxAttempts
  THEN /\ tries' = [tries EXCEPT ![j] = @ + 1]
       /\ part' = [part EXCEPT ![j] = 1]
       /\ UNCHANGED <<pc, cause>>
  ELSE Fail(j, "exhausted")

\* The next attempt sends the parts from the first one again.
Retry(j) ==
  IF tries[j] + 1 < MaxAttempts
  THEN /\ tries' = [tries EXCEPT ![j] = @ + 1]
       /\ part' = [part EXCEPT ![j] = 1]
       /\ UNCHANGED <<pc, cause>>
  ELSE Fail(j, "exhausted")

\* megaAPI sends are checked first, with HEAD requests that may fail.
Probed(j) == j[1] = "out" /\ provider = "megaapi" /\ Format(j) # "text"

\* Mutant: a type the name does not tell is refused without asking for it.
RejectedUnprobed(j, head) ==
  \/ Probed(j) /\ Format(j) \in {"bad", "unnamed"}
  \/ Probed(j) /\ Format(j) = "big" /\ head
  \/ j[1] = "in" /\ Format(j) = "big"

\* prepareMedia: a HEAD that fails leaves the type unknown, which is fatal, and
\* the size unknown, which is not.  cwPostMultipart has a limit of its own.
Rejected(j, head) ==
  \/ Probed(j) /\ Format(j) = "bad"
  \/ Probed(j) /\ Format(j) = "unnamed" /\ ~head
  \/ Probed(j) /\ Format(j) = "big" /\ head
  \/ j[1] = "in" /\ Format(j) = "big"

\* The gateway refuses every message out of the 24 hours' window.
WindowShut(j) == j[1] = "out" /\ provider = "wablast" /\ ~windowOpen

\* A message that misses its content or its recipient, or one the checks refuse.
Reject(j) ==
  /\ pc[j] = "running"
  /\ \/ Missing(j) /\ UNCHANGED faults
     \/ ~Missing(j) /\ Rejected(j, TRUE) /\ UNCHANGED faults
     \/ ~Missing(j) /\ Probed(j) /\ Rejected(j, FALSE) /\ Faults(1)
  /\ Fail(j, "unsupported")
  /\ UNCHANGED <<world, cwHooks, waHooks, copies, notes>>

\* What the end that accepted a message of job j reports.
Reported(j) ==
  IF j[1] = "out"
  THEN waHooks' = waHooks \union {WAMessage(TRUE, j[2])} /\ UNCHANGED cwHooks
  ELSE cwHooks' = cwHooks \union {CWMessage("incoming", FALSE, j[2])} /\ UNCHANGED waHooks

\* The other end takes the part; its reply may be lost.
Send(j, head, lost) ==
  /\ pc[j] = "running" /\ ~Missing(j)
  /\ ~Rejected(j, head) /\ (head \/ Probed(j)) /\ ~WindowShut(j)
  /\ Faults((IF head THEN 0 ELSE 1) + (IF lost THEN 1 ELSE 0))
  /\ copies' = [copies EXCEPT ![j][part[j]] = @ + 1]
  /\ Reported(j)
  /\ \/ lost /\ Retry(j)
     \/ /\ ~lost /\ LastPart(j)
        /\ pc' = [pc EXCEPT ![j] = "done"]
        /\ UNCHANGED <<part, tries, cause>>
     \/ /\ ~lost /\ ~LastPart(j)
        /\ part' = [part EXCEPT ![j] = @ + 1]
        /\ UNCHANGED <<pc, tries, cause>>
  /\ UNCHANGED <<world, notes>>

\* Refusals: "coded" is a 4xx with the code of a rate limit, of a daily cap or of
\* an invalid account token; "none" is a connection that fails or times out.
Replies == {"none", "5xx", "429", "coded", "4xx"}

\* classifyWablast tells transient 4xx apart, classifyHTTP does not.
Permanent(service) ==
  IF service = "wablast" THEN {"4xx"} ELSE {"429", "coded", "4xx"}

\* Media comes from the gateway on the way in; on the way out megaAPI fetches it
\* from its URL, and the bridge does so for WaBlast.
Services(j) ==
  LET media == IF j[1] = "in" THEN provider ELSE "url" IN
  (IF j[1] = "in" THEN {"chatwoot"} ELSE {provider})
    \union (IF Format(j) # "text" /\ (j[1] = "in" \/ provider = "wablast") THEN {media} ELSE {})

Refuse(j, r) ==
  /\ pc[j] = "running" /\ ~Missing(j)
  /\ Faults(1)
  /\ \E service \in Services(j) :
       IF r \in Permanent(service) THEN Fail(j, r) ELSE Retry(j)
  /\ UNCHANGED <<world, cwHooks, waHooks, copies, notes>>

WindowRefuses(j) ==
  /\ pc[j] = "running" /\ ~Missing(j) /\ WindowShut(j)
  /\ pc' = [pc EXCEPT ![j] = "note"]
  /\ UNCHANGED <<world, cwHooks, waHooks, part, tries, cause, copies, notes, faults>>

NotePosted(j) ==
  /\ cwHooks' = cwHooks \union {CWMessage("outgoing", TRUE, Note)}
  /\ notes' = [notes EXCEPT ![j] = @ + 1]

\* Mutant: errWindowClosed is not wrapped by notRetriable, so it is retriable.
PostNoteAndRetry(j) ==
  /\ pc[j] = "note"
  /\ NotePosted(j) /\ UNCHANGED faults
  /\ IF tries[j] + 1 < MaxAttempts
     THEN /\ pc' = [pc EXCEPT ![j] = "running"]
          /\ tries' = [tries EXCEPT ![j] = @ + 1]
          /\ part' = [part EXCEPT ![j] = 1]
          /\ UNCHANGED cause
     ELSE Fail(j, "exhausted")
  /\ UNCHANGED <<world, waHooks, copies>>

\* relayOutbound: the note for the agent, whose error is only logged.
PostNote(j) ==
  /\ pc[j] = "note"
  /\ \/ NotePosted(j) /\ \E n \in {0, 1} : Faults(n)
     \/ Faults(1) /\ UNCHANGED <<cwHooks, notes>>
  /\ Fail(j, "window")
  /\ UNCHANGED <<world, waHooks, copies>>

-----------------------------------------------------------------------------

Step(j) ==
  \/ Reject(j) \/ WindowRefuses(j) \/ PostNote(j)
  \/ \E head, lost \in BOOLEAN : Send(j, head, lost)
  \/ \E r \in Replies : Refuse(j, r)

Next ==
  \/ \E d \in Drafts, c \in OutContents, private \in BOOLEAN : AgentWrites(d, c, private)
  \/ \E t \in Texts, c \in InContents : CustomerWrites(t, c)
  \/ WindowCloses
  \/ \E e \in cwHooks : CWWebhook(e)
  \/ \E e \in waHooks : WAWebhook(e)
  \/ \E j \in Jobs : Step(j)

Spec == Init /\ [][Next]_vars

-----------------------------------------------------------------------------
(* Properties                                                              *)

Causes == {"none", "unsupported", "exhausted", "window", "full", "429", "coded", "4xx"}

\* Every variable has its type, and an attempt is never behind the last part.
TypeOK ==
  /\ provider \in Providers /\ windowOpen \in BOOLEAN
  /\ written \subseteq Drafts \union Texts /\ aside \subseteq Drafts
  /\ content \in [Bodies -> Seq(Formats)]
  /\ cwHooks \subseteq [type : {"incoming", "outgoing"}, private : BOOLEAN, body : Bodies]
  /\ waHooks \subseteq [fromMe : BOOLEAN, body : Bodies]
  /\ pc \in [Jobs -> {"none", "running", "note", "done", "failed"}]
  /\ part \in [Jobs -> Nat \ {0}]
  /\ \A j \in Jobs : part[j] \in DOMAIN Parts(j) \union {1}
  /\ tries \in [Jobs -> 0..MaxAttempts - 1]
  /\ cause \in [Jobs -> Causes]
  /\ copies \in [Jobs -> Seq(Nat)]
  /\ \A j \in Jobs : pc[j] # "none" => Len(copies[j]) = Len(Parts(j))
  /\ notes \in [Jobs -> Nat]
  /\ faults \in 0..MaxFaults

\* What the bridge posts at one end is never taken, when that end reports it,
\* for something a person wrote: the customer receives only what agents wrote in
\* public, and agents see only what the customer wrote.
NoEcho ==
  \A j \in Jobs : pc[j] # "none" =>
    j[2] \in IF j[1] = "out" THEN Drafts \ aside ELSE Texts

\* Over all the retries of a message the other end has received its parts from
\* the first on, each at least as often as the next, and none more often than
\* there were attempts.
PartsInOrder ==
  \A j \in Jobs : \A p \in DOMAIN copies[j] :
    /\ copies[j][p] <= tries[j] + 1
    /\ \A q \in DOMAIN copies[j] : p < q => copies[j][p] >= copies[j][q]

\* A done message was received whole.
DoneMeansAllParts ==
  \A j \in Jobs : pc[j] = "done" => \A p \in DOMAIN Parts(j) : copies[j][p] > 0

\* An agent whose message the closed window stopped is told so once, and nobody
\* is told so of another message.
NoteExplainsRefusal ==
  \A j \in Jobs :
    /\ notes[j] <= 1
    /\ notes[j] = 1 => cause[j] = "window"
    /\ cause[j] = "window" /\ faults = 0 => notes[j] = 1

\* While every call works, a message fails only for what it is, for the window, or
\* because its webhook found the channel full.
HealthyRelays ==
  faults = 0 =>
    \A j \in Jobs : pc[j] = "failed" =>
      \/ cause[j] \in {"window", "full"}
      \/ Missing(j)
      \/ \E p \in DOMAIN Parts(j) : Parts(j)[p] \in {"bad", "big"}

\* Whatever is sent, posted or counted for a message brings it nearer to its end:
\* to a later attempt, to a later part of the same one, or out of the loop.  As
\* attempts and parts are bounded, so is all that is ever sent.
NearerToEnd(j) ==
  \/ pc[j] = "running" /\ pc'[j] \in {"note", "done", "failed"}
  \/ pc[j] = "note" /\ pc'[j] = "failed"
  \/ /\ pc[j] = "running" /\ pc'[j] = "running"
     /\ \/ tries'[j] = tries[j] + 1
        \/ tries'[j] = tries[j] /\ part'[j] = part[j] + 1
EveryStepCounts ==
  [][\A j \in Jobs : pc[j] # "none" =>
       \/ NearerToEnd(j)
       \/ /\ pc'[j] = pc[j] /\ part'[j] = part[j] /\ tries'[j] = tries[j]
          /\ copies'[j] = copies[j] /\ notes'[j] = notes[j]]_vars

\* The relay, whatever the ends report and the gateways refuse, keeps the promise
\* of Conversation to the people at both of them.
SaidOpenly ==
  {j \in Jobs : j[2] \in written \ aside
                  /\ j[2] \in IF j[1] = "out" THEN Drafts ELSE Texts}
Talk == INSTANCE Conversation
  WITH Messages <- Jobs, Attempts <- MaxAttempts, said <- SaidOpenly, received <- copies,
       relay <- [j \in Jobs |-> IF pc[j] \in {"running", "note"} THEN "open" ELSE pc[j]]
ImplementsConversation == Talk!TalkSpec
=============================================================================
