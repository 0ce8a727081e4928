# Formal model of the chatwoot-megaAPI bridge

The bridge relays WhatsApp messages to Chatwoot and back. Webhooks of a WhatsApp
gateway (megaAPI or WaBlast) and of Chatwoot are stored as rows of a Postgres
table, put into one of two Go channels, and worked off by goroutines that call
the other side, with retries. An admin UI makes tenants and shows what failed.

This directory holds TLA+ models of that program, TLC runs over small instances
of them, and proofs checked by TLAPS. `PROJECT.json` maps every definition to
the lines it was read from and lists the runs, the mutants that show each
property can fail, the findings, the hazards and the theorems.

## 1. Inventory

| Component | State it keeps | Operations | Talks to | Modelled in |
|---|---|---|---|---|
| Message pipeline (`bridge.go`, `server.go`, `storage.go`, `admin.go`, `web/dlq.go`, `main.go`) | `messages` rows, `Inbox`/`Outbox` channels, worker and handler goroutines, cancelled or live context | webhook insert and enqueue, take, attempt, mark, sweep, requeue (API and page), recover, stop, crash | Postgres, both upstreams | `Bridge`, abstractly `MessageLedger` |
| Contacts and conversations (`bridge.go` 465-699) | `contacts` rows; contacts and conversations in Chatwoot | look up, create contact, find after 422, create conversation, upsert, post | Postgres, Chatwoot | `Contacts`, abstractly `Threads` |
| Relay (`processOutbound`, filters, `media.go`, `inbound_media.go`, `wablast.go`, `megaapi.go`) | nothing of its own; progress within an attempt | filter, check media, send part, classify error, post note | both ends | `Relay`, abstractly `Conversation` |
| Tenant provisioning (`web/wizard.go`, `web/wablast.go`, `web/megaapi.go`, `web/chatwoot_webhook.go`, `tenant_build.go`, `cmdTenantAdd`) | `tenants` rows; webhook settings at three services | fetch inbox, register, insert, store secret, configure two webhooks, CLI add | Postgres, Chatwoot, gateways | `Tenants` |
| Webhook authentication (`server.go`, `crypto.go`) | none | bearer, URL token, HMAC, Standard Webhooks signature | - | partly, in `Tenants` (see 8) |
| Pairing (`web/pairing.go`, `pair.html`, `megaapi_pair.go`, `pairing_event.go`) | `paired_at`, `last_jid`; the page in the browser | signed link, QR, code, status, logout, connection update | megaAPI | `Pairing` |
| Login, sessions, settings (`web/login.go`, `web/auth.go`, `session.go`, `web/settings.go`) | cookie only; `settings` row | login, check, logout; save the base URL | Postgres | `Pairing` |
| Bootstrap and migrations (`main.go`, `storage.go`, `migrations/`) | role, database and schema | create role, create database, connect, apply each file | Postgres | `Bootstrap` |
| Read pages, readiness and metrics, `bridge admin`, deployment, landing page | see `PROJECT.json` | | | no (see 8) |

How they interact. A webhook is authenticated with the credentials `Tenants` is
about, filtered as in `Relay`, and enqueued as in `Bridge`; a worker of `Bridge`
then runs one of two functions as the body of its retry loop: `processInbound`
(`Contacts`, with the media part in `Relay`) or `processOutbound` (`Relay`). The
modules meet in the retry loop: `Bridge` sees one call that succeeds, fails,
times out, is refused or loses its reply; the others open that call up. No state
is shared otherwise, except that what `Relay` posts comes back as a webhook.
`Bootstrap` is what a bridge does before the boot of `Bridge`. The panel of
`Pairing` lists the tenants `Tenants` made, and the `connection_update` it
delivers is one more webhook that is let in by the tenant's bearer.

What is hard about it: the janitor judges rows by age while jobs for them are
alive; the channel and the row are written one after the other with no
transaction; statements whose error is dropped; retries of calls whose reply was
lost; process ends that cut everything off; several workers serving one customer;
three services configured one after the other with nothing taken back; tokens
that expire but cannot be withdrawn, and a page whose answers overtake each
other; processes that create the same objects of one Postgres at once.

What makes each correct: see the properties of section 4.

## 2. Modules

**`Bridge`** - the pipeline. A message is one row key `(tenant, direction,
external id)`; a job carries nothing its row does not, so a job is its message.
`status`, `attempts`, `createdAt` are the row (`createdAt` as a rank; `horizon`
is the rank up to which rows are older than `staleSweepAge`). `queue` is both
channels. `wpc`/`wjob`/`tries` is a worker between `runPool`, `runRetryLoop` and
`runJob`; `hpc`/`hmsg` a request between `InsertMessage` and its answer;
`phase` the process.

| Action | Code |
|---|---|
| `Webhook`, `Push`, `QueueFull`, `MarkQueueFull`, `WebhookErrorAfterInsert` | `enqueue`, cut at each statement that touches the table or the channel |
| `AdminRetry`, `AdminRetryFull`; `WebDLQRetry` | `handleAdminRetry`, `requeueJob`; `handleDLQRetry` |
| `Take`, `Attempt`, `CallSucceeds`, `CallFails`, `CallFatal`, `Cancelled`, `MarkDone`, `MarkFailed` | `runPool`, `runRetryLoop`, `runJob` |
| `Tick`, `SweepStale` | time, `RunStaleJanitor` |
| `Boot` | `cmdServe` with `RecoverPending` (which runs before the first worker and before the listener) |
| `Stop`, `Exit`, `Crash` | SIGTERM, `runHTTP` returning, anything else |

History variables: `delivered` counts what the upstream accepted; `excuse`
counts the events after which one more delivery is legitimate (lost reply, job
remade at boot, retry asked for); `disputed` holds messages the janitor failed
while a job for them was alive, until the process ends.

**`MessageLedger`** - what the table promises a reader: a row is registered
once, done only when the message was accepted, reopened only from failed, and
otherwise final unless contested (expired under a live job). `Bridge` implements
it with `row <- status`, `accepted <- {m : delivered[m] > 0}`,
`contested <- disputed` (`ImplementsLedger`).

**`Contacts`** - `processInbound` after parsing, one action per query or call:
`GetContact`, `CreateContact` (422 leads to the search), `FindContactByPhone`,
`CreateConversation`, `UpsertContact`, `PostMessage`, plus `StepFails`,
`UpsertFails`, `ReplyLost` and `FatalError`. Chatwoot (external) has at most one
contact per number and makes a new conversation whenever asked. Its contact search
looks for text, and the code takes the first hit unchecked (`bridge.go:649`): which
contacts it may list for a number is the constant `Resembles`, of which nothing is
assumed but that the number's own contact is among them, and
`FindContactByPhone` takes any of them that exists. `wcontact` is the contact a
worker holds, `convs` the conversations with the number (`source_id`) and the
contact each was opened for. The contact id is not in the row of the model: nothing
reads it back. `orphans` are conversations whose id never reached the row, `raced`
numbers two workers were creating at once.

**`Threads`** - what agents see of a customer's messages, without workers or
calls: they are filed in threads of that customer, in one thread only, its home,
unless two of them were opening threads at once before there was a home; each is
filed while it is open and done only by being filed. A thread shows the contact of
its customer or of one the customer was taken for (`TakenFor <- Resembles`).
`Contacts` implements it with `threads <- convs`, `home <- contactRow`, `filed <- posts`,
`split <- raced`, and `fate` the outcome with queued and running taken together
(`ImplementsThreads`).

**`Relay`** - one conversation, both ends and both gateways. `CWWebhook` and
`WAWebhook` are the three webhook handlers after authentication, with the
filters `chatwootShouldRelay`, `waIsFromMe`, `wablastReceived`, and may be
redelivered; only webhooks that report a message are modelled, any other is answered
without a change. `Enqueue` finds the channel full whenever it likes (when it really
is, is `Bridge`'s), and then fails the message at once. A job goes through its
parts: `Reject` (nothing to send, nobody to send it to, or a media check), `Send`, `Refuse` (any error, with `Permanent` for the classification),
`WindowRefuses` and `PostNote`. `Send` reports the message back as the other end
does. Formats stand for classes the checks tell apart. Restarts and the operator's
retries are `Bridge`'s: what `Relay` says of a job holds from when it is taken up to
the end of its retry loop, and a job made again starts over.

**`Conversation`** - what the two people of a conversation are promised: only
what was said openly is taken up, once, and relayed until it is done or given
up (at once, when there is no room for it); parts come in order, may be repeated, never overtake each other, and none
comes more often than there are attempts. `Relay` implements it with
`received <- copies`, `relay <- pc` where a job that runs or posts its note is
open, and `said` the messages of either side written where the other may read
them (`ImplementsConversation`).

**`Tenants`** - the wizard as a sequence of calls (`FetchInbox`, `FindEndpoint`,
`Register`, `Insert`, `StoreInboxSecret`, `ConfigureGateway`,
`ConfigureChatwoot`), every one of which may fail (`RequiredCallFails` aborts,
`OptionalCallFails` is dropped) or be the last (`CutOff`), and the CLI. A
credential is a number, every new one fresh. `contested` are slugs whose WaBlast
secret was replaced while somebody relied on it, `raced` slugs that two wizards
were registering at once. `checkBearer`, `checkWablastSig` and `checkCWAuth` are
the checks of `server.go` with the arithmetic left out: which stored credential
has to agree with which setting of the other service.

**`Pairing`** - one megaAPI tenant, the operator, the holders of pair links and
their pages, megaAPI and the phones. `cookie` and `link` are signed expiry times
(with the login they come from as history: the bridge keeps neither). `page` is
what a browser shows and whether its interval runs; `statusReplies` and
`qrReplies` are answers on their way to it, taken in any order. `phone`, `code`
and `events` are megaAPI's, `row` is `last_jid`, and every connection is of
another number, that of the QR code valid at the time.

| Action | Code |
|---|---|
| `Login`, `Logout`, `SaveBaseURL`, `LoadPanel` | `handleLoginSubmit`, `handleLogout`, `handleSettingsBaseURL`, `buildIndexRows` with `BuildPairLink` |
| `OpenPage`, `AskStatus`, `AskQR`, `EnterCode`, `PressLogout` | `handlePairLanding`, `handlePairStatus`, `handlePairQR`, `handlePairCode`, `handlePairLogout`, each behind `authorizePair` |
| `ShowStatus`, `ShowQR` | `refreshStatus`, `refreshQR` of `pair.html` getting an answer |
| `Deliver` | `handleWAWebhook` of a `connection_update` |
| `ClosePage`, `ScanQR`, `Unlink`, `NewCode`, `Lose`, `Tick` | external: the browser, the phone, megaAPI, the clock |

A request that fails on the way changes nothing on either side (the page returns
at once from anything but 200), so it is no action; neither is a restart, as the
bridge keeps nothing here but the row. The code that `handlePairCode` returns is
typed into the phone in the same step (`EnterCode`).

**`Bootstrap`** - one action per statement of `bootstrapDatabase` and per file of
`applyMigrations`. A `CREATE` is a begin, where Postgres looks for the name
(42710 and 42P04 count as success), and a commit, where the loser of two that
began together gets 23505. A file is one transaction, as pgx sends a query
without arguments by the simple protocol; those that create tables are split the
same way, the others wait for locks and may be applied again. `Exit` is
`log.Fatal` in `main`, `Start` the supervisor's restart (`unless-stopped` in the
compose files). Which servers have `POSTGRES_ADMIN_URL` and which
`RUN_MIGRATIONS=0` is chosen in `Init`, with any state an older release leaves.

`MCBridge`, `MCContacts`, `MCRelay`, `MCTenants`, `MCPairing` and `MCBootstrap`
name the small sets the configurations use. The `_proofs` modules hold the
theorems.

## 3. Runs

| Run | Instance | Shows |
|---|---|---|
| `bridge_safety` | 2 messages, 1 slot, 2 workers, 2 requests, 2 attempts; any two of a retry, a database error and a restart (SIGTERM or crash, then recovery) | the safety invariants, that a row is left without a job only for a known cause, that recovery takes all that fits, and that the pipeline implements `MessageLedger` |
| `bridge_liveness` | 2 messages, 1 worker, 1 request, 1 error, 2 boots, fairness | every row settles, every job ends |
| `bridge_timeout`, `bridge_recovery` | as above | two findings (section 7) |
| `contacts` | 3 messages of 2 numbers, one of which the search takes for the other, 2 workers, 2 attempts, 2 faults, fairness | conversations are opened for the customer's number, splits are few, bursts lose nothing, every message ends, and that the workers implement `Threads` |
| `contacts_search` | as above, without faults | a finding |
| `relay` | 1 draft of 5 contents, 1 customer message of 3, 3 attempts, 3 faults, both gateways | no echo, notes, no needless failure, and that the relay implements `Conversation` |
| `tenants` | 2 wizards, 1 slug, 7 credentials, 2 faults, CLI beside | what created means, and that a tenant that works goes on working |
| `tenants_retry` | as above | a finding |
| `pairing` | 1 page, 2 numbers, times to live of 1 on a clock of 3, 1 fault, fairness | delegation ends, why the panel may show a wrong number, the page tells the truth and catches up |
| `pairing_page` | as above | a finding |
| `bootstrap` | 2 servers and the CLI, the 5 files of which 0001 and 0003 create, 1 fault, every configuration and starting point, fairness | the schema is in order, nobody serves without it, lost races run out, and all serve in the end |

Why the bounds are enough. One slot and two messages fill a channel, overflow
it, and leave a row behind at recovery (two messages against a batch of
`2 * BufferLimit` is exactly the batch; against the channel it is one too many).
Two workers and two requests give every pair of actors on one row. Two attempts
have a first, a last and a backoff between; three in `Relay` add a middle one. A
single retry suffices for a second job of a message. Two boots have something
before and after a restart; `Stop` and `Crash` are guarded by `MaxBoots` so that
the last boot stays up, which liveness needs. In
`bridge_safety` the constraint `TwoTroubles` keeps to behaviours with any two of
a restart, a retry and a database error: every pair of them meets, all three
together do not, which would take hours. `bridge_liveness` has no retry by an
operator: with `MaxRetries = 1` it also passes, with `MaxAttempts = 1` or with
`MaxFaults = 0` (three and five minutes), but both at once take longer than a run of
this project may. All messages are of one
direction, as the two directions share only the table: that jobs never cross over
is proved for any mix of them (`TypeCorrect`).
`Relay` has one draft because jobs share no state but the window and the sets of
webhooks, which are per message. `Tenants` has one slug because nothing crosses
slugs, and seven credentials are what two complete wizards and a CLI add need.
`Pairing` has one page because pages meet only in megaAPI, whose logout and
connections any page can suffer from itself; two numbers (three codes) have an
older and a newer webhook; a clock of 3 outlives a session of 1 and a link of 1,
so that every expiry is seen from both sides. `MaxCodes` ends the renewal of QR
codes, so `QRCurrent` says that the page catches up after the last one; a page that
is slower than the renewals never has to. In `Bootstrap` a race takes two,
the third process is the one whose statement is not waited for, and a fault is a
cut at any point; files 1 and 3 create, so there is a creating file first, one in
the middle and an altering one after each.

Every run switches deadlock checking off: an instance whose messages are all
settled and whose bounds are used up stops, as the bridge does when nothing
arrives.

## 4. Properties

Pipeline. `DoneMeansDelivered`: no exit of the retry loop marks a message done
that nobody received. `SingleJob` and `NoJobBehindSettledRow`: over webhooks,
redeliveries, retries and recovery there is at most one job for a message and
none behind a settled row, the janitor's disputed rows apart - the exception is
stated, because the code has it: a retry of a row swept under a live job makes a
second one. `ImplementsLedger`: with the same exception no late job, retry, sweep
or restart moves a settled row, whose updates look at nothing. `StrandedForCause`:
a pending row is left without a job only by a start or stop of the process, a
database error, the button of the DLQ page, a retry that meets a full channel, or
a last attempt that times out; it is the complete list of the ways to lose a job.
`RecoveryDrainsWhatFits`: what holds of recovery where the finding
`bridge_recovery` shows what does not.
`DeliveriesAccounted`: a message is received again only after an event that
explains it. `AttemptsCoverTries`: the counter operators see is not behind, for a
message with one job; a requeue that resets it under a running job is among the
disputed cases it leaves out. `DoneIsFinal`: a done row is written again only for a
disputed message, only to `failed`, and only by a late mark of that message
(`LateMark`).
`EveryRowSettles`, `JobsEnd`: liveness.

Contacts. `OwnConversation`: messages are posted, and rows point, only to
conversations opened under the sender's number, which show a contact the search
lists for that number; that it is the customer's own contact is not true of the code
(`contacts_search`), and the property does not say it. `BurstNeverFails`,
`SplitsBounded` (at most one
conversation per worker, orphans apart), `ImplementsThreads`, `EveryMessageEnds`.

Relay. `NoEcho`, `NoteExplainsRefusal`, `HealthyRelays` (without faults a message
fails only for its content, the window or a full channel), `ImplementsConversation`.

Tenants. `CreatedMeansWired`, `WiredStays`, `OneEndpointUnlessRaced`.
`StoredSecretVerifies`: the row of a WaBlast tenant is stored with the secret WaBlast
signs with at that moment, whatever failed before, unless another wizard replaced
it. That is the inbound half; of the Chatwoot half the code promises nothing when a
call fails (section 7).

Pairing. `DelegationEnds`: no request made with a link is let in later than a
session and a link after the login behind it, although neither can be withdrawn
(8 and 24 hours in the code: that is the whole of what a logout leaves behind; check and
answer are one step of the model, where the answer may take another 15 seconds).
`PanelErrsForCause`: the complete list of the causes for which the panel badges
another number than the connected one, or one where none is. `ConnectedWasSeen`: a
page does not report a connection older than itself. `ConnectionShows` and
`QRCurrent`: liveness of the page.

Bootstrap. `SchemaInOrder`: whoever is cut off, the applied files are a prefix.
`ServesMigrated`: a bridge that migrates serves on its whole schema only.
`ExitsForCause`: an object that was there before the statement began never stops
a process. `LostRacesRunOut`: nothing is undone, nobody begins to create what is
there, and who does not exit gets on. `EveryServerServes`: the processes do not
fail each other for ever.

Each module has one type invariant besides.

Some properties are stated and proved (section 6) without being a property of a
run. `OneConversationUnlessRaced`, `MappingStable`, `PartsInOrder`
(up to its bound by the attempts made so far) and `DoneMeansAllParts` say one at
a time what `ImplementsThreads` and `ImplementsConversation` say together. `JobsOnlyAdvance`, `EveryStepNearsEnd` and `EveryStepCounts` are
the descents of the pipeline, the contacts and the relay: a job only ever gets
on, in the order of its channel, through a number of attempts, steps and parts
that is bounded. Any of them can be added to the `PROPERTIES` or `INVARIANTS` of
its component's configuration.

## 5. Fairness

`Bridge`: weak fairness of every worker and every request (goroutines are
scheduled, every HTTP client has a timeout, so a call returns), of `Tick` and
`SweepStale` (time passes, the ticker of the janitor runs for the life of the
process), of `Boot` (the compose files restart the process) and `Exit` (main
returns after the listener closes). None of webhooks, retries, stops, crashes or
faults. The janitor's fairness is what `EveryRowSettles` rests on: a row whose
job was lost is settled by nobody else. `Contacts`: weak fairness of each worker.
`Pairing`: weak fairness of the page's questions and of their answers (an
interval of 3 seconds, clients with a timeout of 15 seconds); none of people, the
clock, megaAPI or its webhooks. A link that expires ends the obligation.
`Bootstrap`: weak fairness of `Start` (the supervisor) and of whatever a running
process does next (statements return); none of the CLI's start or of faults.
`Relay` and `Tenants` state no liveness.

## 6. Proofs

`Bridge_proofs` proves, for any finite sets of messages, workers and requests,
any capacity and any number of attempts, under the assumptions `Bridge` names
(`FiniteAssumption`, `RoutingAssumption`, `LimitAssumption`, `BoundAssumption`):

* `TypeCorrect`: `Spec => []TypeOK`. `TypeOK` is inductive; there is a lemma per
  kind of action. It includes that a channel never exceeds its capacity and that
  a job is only ever in the channel and the pool of its own direction.
* `DoneIsDelivered`: `Spec => []DoneMeansDelivered`. The property is not
  inductive, as a worker about to mark a row done is what makes it true:
  `DeliveredInv` adds `AcceptedBeforeMark`, that the job of such a worker has
  been accepted. The lemmas say who can write done (`DoneByWorker`), how a worker
  gets to that point (`MarkAfterSuccess`), and that `delivered` only grows.

`BridgeJobs_proofs` goes on from there, under the same assumptions:

* `SettledMeansIdle`, `AtMostOneJob`: `Spec => []NoJobBehindSettledRow` and
  `Spec => []SingleJob`. Neither is inductive without the other: a second job
  would come from a row that is settled, and a row is settled by whoever holds its
  only job. `JobInv` states both without counting (`OneHolder`: any two holders
  are the same), and adds that a process that is down has no jobs, which is why
  recovery makes no second one (`BootSlots`: at most one slot for a message).
* `TableIsLedger`: `Spec => ImplementsLedger`. `Init` maps to `LedgerInit`, and a
  lemma per kind of action maps each step to a step of the ledger or a stutter,
  from `JobInv` (who writes a row holds its job, so it is pending or contested)
  and `DeliveredInv` (who writes done has had it accepted). `DoneStaysDone`:
  `Spec => DoneIsFinal`, where `WhoTakesDone` finds the only step that can take a
  row out of done, the late mark of a job that was disputed.
* `DeliveriesHaveReasons`: `Spec => []DeliveriesAccounted`, disputed messages
  included. `BudgetInv` counts what may still be sent: slots, requests and the
  workers that have not had their answer (`Work`), plus what was delivered, are at
  most 1 and the excuses. Each action spends, or moves, what it counts on; a
  `Take` shifts the channel, so the slots map injectively into all but the first.
* `AttemptsAreCounted`: `Spec => []AttemptsCoverTries`. `AttemptsInv` adds the
  state between two attempts.
* `JobsAreNotLost`: `Spec => StrandedForCause`. A pending row has a job before
  the step and none after it, so the step let go of a holder. `PushKeepsJobs`,
  `TakeKeepsJobs`, `WorkerKeepsJobs` and `HandlerKeepsJobs` show that each action
  passes the job on or settles its row, but for the causes listed.
* `JobsOnlyMoveOn`: `Spec => JobsOnlyAdvance`. `WorkerLeft` counts the attempts
  and steps a worker has left; `WorkerUsesUp` shows that its actions lower it.
* `RecoveryIsComplete`: `Spec => RecoveryDrainsWhatFits`. A batch as large as the
  set it is taken from is that set (`BatchIsAll`), and what is recovered into an
  empty channel with room for all of it is all of it (`FittingIsRecovered`).

`Contacts_proofs` proves, for any numbers and messages and any finite set of
workers, under `ContactsAssumption`:

* `ContactsTypes`: `Spec => []TypeOK`, which needs `Known`: a worker about to save
  or to post has a conversation.
* `ConversationsAreOwn`: `Spec => []OwnConversation`. `OwnInv` says it of the
  conversation a worker holds, too, and of its contact; which contacts resemble
  which is left open.
* `OneConversation`, `RowsAreStable`: `Spec => []OneConversationUnlessRaced` and
  `Spec => MappingStable`, from `UnracedInv`: a number that was not raced is
  `Settled`, that is at most one worker creates for it, nobody once there is a
  row, and everybody posts in the row's conversation.
* `BurstsSucceed`: `Spec => []BurstNeverFails`, a message fails by a fault alone.
* `FewSplits`: `Spec => []SplitsBounded`. `SplitInv` counts the conversations
  together with the workers still making one. Before the first row is written each
  conversation is in the hands of a worker that saves it (`HandsFew`); after that
  only workers that had already missed the row add to them.
* `EveryStepCloser`: `Spec => EveryStepNearsEnd`, from `Held`: the worker of a
  message is the only one, its message is running, and a worker about to post has
  a row for its sender. `StepEnds` sorts the calls by how they are left.
* `ContactsAreThreads`: `Spec => ImplementsThreads`. `StepFiles` maps
  each call to the step of a thread it is: a post is filed in the home
  because of `UnracedInv`, in a thread of its customer because of `OwnInv`, and
  while it is open because of `Held`.

`Tenants_proofs` proves, for any slugs, wizards, secrets and faults, under
`TenantsAssumption`:

* `TenantsTypes`: `Spec => []TypeOK`.
* `StoredTenantsVerify`, `CreatedTenantsWork`, `WorkingTenantsStay`:
  `Spec => StoredSecretVerifies`, `Spec => CreatedMeansWired` and
  `Spec => WiredStays`. `WiringInv` follows a wizard through its calls: past the
  insert the row is its own (`RowIsOwn`), what did not fail has left its mark
  (`CallsHold`), a WaBlast secret is there first (`SecretFirst`) and still the one
  WaBlast has, unless contested (`SecretHeld`).
* `OneEndpoint`: `Spec => []OneEndpointUnlessRaced`, from `EndpointInv`: of a slug
  that was not raced at most one wizard registers, and one that creates found no
  endpoint.

`Relay_proofs` proves, for any drafts, texts and contents, any number of attempts
and of faults, under `RelayAssumption` (what agents and customers write is told
apart, and a customer's message is one part):

* `NeverEchoes`: `Spec => []NoEcho`. What makes it true is said of the webhooks
  and not of the jobs: `Honest` adds that the gateway is a known one, that a
  webhook the filter of Chatwoot lets through is by an agent and public, that one
  of the gateway without `fromMe` is by the customer, and that both were written
  by somebody. `JobStep` shows that all a job adds is marked as the bridge's own,
  `WebhookStep` that the filters then suffice, `WriteStep` that a private note
  never was anything else.
* `RelayTypes`: `Spec => []TypeOK`. A message that nobody wrote yet may still get
  other parts, so the type of the counts needs `Honest` (a job is for something
  written) and `Fresh` (a job that has not begun has no counts).
* `PartsArriveInOrder` and `DoneIsWhole`: `Spec => []PartsInOrder` and
  `Spec => []DoneMeansAllParts`. An attempt in progress has sent the parts before
  the current one once more than the rest, so `Counts` states the difference:
  parts before it were sent at least once and strictly more often than the ones
  from it on, and those no more often than attempts have failed. `StepShape`
  reduces every action to three outcomes (over, from the start again, next part),
  `CountsKept` and `CountsSent` treat those.
* `NotesExplain` and `RelaysAreHealthy`: `Spec => []NoteExplainsRefusal` and
  `Spec => []HealthyRelays`. `CauseInv` adds that a job that has not failed has
  neither a cause nor a note; `StepFails` lists the ways a job fails, each with the
  fault it costs or the part that is to blame, and `CauseStep` adds the webhook that
  finds the channel full.
* `EveryStepIsCounted`: `Spec => EveryStepCounts`. `StepDescends` shows that a
  job's own step lowers what it has left, `BegunJobsStay` that no webhook, however
  often delivered, begins a job again.
* `RelayIsConversation`: `Spec => ImplementsConversation`. `WritingTalks`,
  `WebhookTalks` and `JobTalks` map the three kinds of action; that a job is for
  something said is `Honest`, that a part is the next one is `Counts`.

`Pairing_proofs` proves, for any pages, codes, faults and times to live, under
`PairingAssumption`:

* `PairingTypes`: `Spec => []TypeOK`. The actions of pages touch one page each
  (`PageAlone`), so `PageFitsNext` shows it for that page and each action.
* `PanelIsExplained`: `Spec => []PanelErrsForCause`. While the newest webhook is on
  its way the row may name any number, so `RowInv` speaks of that webhook alone; the
  rest is that an instance has the newest number or none.
* `PageSawIt`: `Spec => []ConnectedWasSeen`. `SeenInv` says the same of the
  answers on their way, and that an open page has seen a connection that lasts.
* `DelegationIsBounded`: `Spec => DelegationEnds`. `ExpiryInv` bounds both tokens
  by their login; `AnsweredLive` finds the check in every handler.

`Bootstrap_proofs` proves, for any processes, files and faults, under
`BootstrapAssumption`: `BootTypes`, `FilesInOrder`, `ServingMeansMigrated` and
`ExitsOnlyForCause`, that is `Spec => []TypeOK`, `[]SchemaInOrder`,
`[]ServesMigrated` and `ExitsForCause`. These follow from `BootInv`, which adds
to the first three what a process knows from where it is (`Progress`): past its
check the role is there, past its connection the database, and at file `f` the
files before `f` are applied. `RacesRunOut`: `Spec => LostRacesRunOut`, where
`LosersStay` shows that only a commit makes losers, and `ProceedGetsOn` that a
statement that returns brings its process on.

So every invariant and every other safety property of the passing runs is proved,
the three refinements included. Only model-checked are the six liveness
properties: `EveryRowSettles`, `JobsEnd`, `EveryMessageEnds`, `ConnectionShows`,
`QRCurrent` and `EveryServerServes`. They need fairness and ENABLED, which are out
of the prover's reach. What it can say of them is the descent each rests on:
`JobsOnlyAdvance`, `EveryStepNearsEnd` and `LostRacesRunOut`
show for every value of the constants that no step undoes the progress made. That
a descent then ends, and that the steps it is made of can be taken, is left to
TLC. `EveryRowSettles` has no such theorem, as a stranded row is settled by the
janitor alone, that is by its fairness; nor have the two of the page, which ask
about the present again and again.

## 7. Findings

Five runs end in a violation on purpose; each states what a document or test of
the repository says and shows what the code does.

* `bridge_timeout`: the HTTP client's own timeout satisfies
  `errors.Is(err, context.DeadlineExceeded)`, so a job whose last attempt times
  out is dropped unmarked (`bridge.go:105`); its row stays pending until a
  restart or the janitor.
* `bridge_recovery`: recovery skips what does not fit into the channel or the
  batch.
* `tenants_retry`: trying a slug that is taken again replaces the signing secret
  of the WaBlast tenant that has it before the 409.
* `contacts_search`: the contact found after a 422 is the first hit of a text search,
  checked by nobody (`bridge.go:649`), so a customer's conversation may be opened for
  another contact; `docs/16-postmortem-e2e-validation.md:172-173` says that it is the
  contact that exists.
* `pairing_page`: the page stops asking at the first `connected`, so after a
  logout, an unlinked device or an answer that arrives late it keeps a status the
  instance no longer has, on a link that is still good.

Five more divergences are read off the code and have no run, as one or two
statements show them. The models have all five.

* A 429 is fatal at once (`bridge.go:720`), where
  `docs/07-reliability-and-performance.md:55` lists it as retriable (`Refuse` with
  `Permanent`).
* `isAlreadyExists` (`main.go:309`) does not know 23505, so the loser of a race in
  `bootstrapDatabase` exits where the comment at `main.go:277` says it goes on
  (`RoleCreated`, `DBCreated`).
* The Retry button of the DLQ page moves the row to pending and makes no job
  (`web/dlq.go:35`), where `docs/07-reliability-and-performance.md:148` says it is
  put back into the queue and `docs/TROUBLESHOOTING.md:213` has operators requeue in
  bulk with it (`WebDLQRetry`, a cause of `StrandedForCause`).
* The comment at `web/wizard.go:43` says that no half-configured row is ever stored,
  `CHANGELOG.md:22-27` that the fetched secret is persisted, and `docs/OPERATIONS.md:86` that a wizard whose step fails rolls
  the row back. `InsertTenant` stores a row with a random secret for Chatwoot, the
  error of the `UpdateTenantHMAC` that replaces it is dropped
  (`web/wizard.go:117-120`), as are those of both webhook configurations, and nothing
  is taken back (`OptionalCallFails`; `CreatedMeansWired` holds for wizards none of
  whose calls failed, and for no others).
* Nothing clears `paired_at` and `last_jid` (`storage.go:110`), so the panel
  (`partials/datatable.html:15`) goes on to badge as connected a number that was
  unlinked or logged out, where `docs/TUTORIAL-INSTALACAO.md:171` promises the connected
  number or "não pareado" (the last cause of `PanelErrsForCause`).

## 8. Not modelled, and why

Wording, formats and parsing; the contents of files (their size classes and
formats are); metrics, tracing, profiling, readiness; the read pages; the
landing page; shell scripts. The order of messages within a conversation: two
workers may swap them and nothing in the code says otherwise. Webhook
authentication beyond which credentials must agree: the signature arithmetic and
AES-GCM are pure functions over bytes, and the time window of a WaBlast signature
matters only against a redelivery schedule the repository does not state. Pair
pages of a WaBlast tenant, which answer 502 to everything. A change of
`MASTER_KEY`, which ends every session, link and credential at once. `bridge
admin add` and the password hash: one statement. Bridges of different releases
on one database: the files of the older are a prefix. Updates of
`WablastWebhookSecretEnc` outside the wizard: `UpdateTenantWablastSecret` has no
caller.

## 9. Plan

Done in this order, the most important first: `Bridge` with `MessageLedger`,
`Bridge_proofs`, `Contacts`, `Relay`, `Relay_proofs`, `Tenants`, `Pairing`,
`Pairing_proofs`, `Bootstrap`, `Bootstrap_proofs`, `Tenants_proofs`,
`BridgeJobs_proofs`, `Contacts_proofs`, then `Threads` and `Conversation` with
their refinements and the descents behind the liveness properties. When the code
changes, the `map` of `PROJECT.json` names the definition that models each line;
section 7 lists what to revisit first: each of its runs is to be turned into a
passing one with the fix it calls for.
