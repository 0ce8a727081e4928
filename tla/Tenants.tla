------------------------------ MODULE Tenants -------------------------------
(***************************************************************************)
(* Making a tenant: the wizard of the admin UI (several may be open, also  *)
(* for one slug) and the CLI.  A tenant works when three parties agree on  *)
(* the credentials of its webhooks: its row, the WhatsApp gateway, which   *)
(* signs or carries the inbound one, and the Chatwoot inbox, which carries *)
(* the outbound one.  No transaction spans them.                           *)
(*                                                                         *)
(* A credential is a number, 0 for none; every new one is a new number.    *)
(* Each slug has an inbox and a megaAPI instance of its own.               *)
(***************************************************************************)
EXTENDS Integers, FiniteSets

CONSTANTS
  Slugs,
  Wizards,    \* requests POST /tenants in progress at once
  Gateways,   \* providers a tenant may choose, of "megaapi" and "wablast"
  MaxSecrets, \* bound: credentials made
  MaxFaults   \* bound: calls that fail, and wizards cut off

ASSUME TenantsAssumption ==
  /\ Gateways \subseteq {"megaapi", "wablast"}
  /\ MaxSecrets \in Nat \ {0} /\ MaxFaults \in Nat

\* channel.secret of an inbox, which Chatwoot never changes.
InboxSecret == 1
Credentials == 0..MaxSecrets

VARIABLES
  row,        \* tenants, per slug: provider ("none": no row), inbound and outbound credential
  megaHook,   \* megaAPI: the token in the webhook URL of each instance
  endpoints,  \* WaBlast: webhook endpoints, the slug in the URL and the signing secret
  cwHook,     \* Chatwoot: the token in the webhook URL of each inbox
  wpc,        \* where each wizard is
  wspec,      \* the slug and provider of its form
  wsecret,    \* whsec
  bearer,     \* bearer of BuildTenantInsert
  wlost,      \* some call of it failed
  issued,     \* the newest credential
  faults,     \* counter of the bound
  contested,  \* history: slugs whose WaBlast secret was replaced behind somebody's back
  raced       \* history: slugs that two wizards were registering at once

wizardVars == <<wpc, wspec, wsecret, bearer, wlost>>
remoteVars == <<megaHook, endpoints, cwHook>>
historyVars == <<contested, raced>>
vars == <<row, megaHook, endpoints, cwHook, wpc, wspec, wsecret, bearer, wlost, issued, faults,
          contested, raced>>

NoRow == [provider |-> "none", inbound |-> 0, outbound |-> 0]
Slug(w) == wspec[w].slug
Gateway(w) == wspec[w].provider

Init ==
  /\ row = [s \in Slugs |-> NoRow]
  /\ megaHook = [s \in Slugs |-> 0]
  /\ endpoints = {}
  /\ cwHook = [s \in Slugs |-> 0]
  /\ wpc = [w \in Wizards |-> "idle"]
  /\ wspec \in [Wizards -> [slug : Slugs, provider : Gateways]]
  /\ wsecret = [w \in Wizards |-> 0]
  /\ bearer = [w \in Wizards |-> 0]
  /\ wlost = [w \in Wizards |-> FALSE]
  /\ issued = InboxSecret
  /\ faults = 0
  /\ contested = {} /\ raced = {}

Fault == faults < MaxFaults /\ faults' = faults + 1
Issue(n) == issued + n <= MaxSecrets /\ issued' = issued + n

GoTo(w, step) == wpc' = [wpc EXCEPT ![w] = step]
Lost(w) == wlost' = [wlost EXCEPT ![w] = TRUE]

-----------------------------------------------------------------------------
(* The wizard                                                              *)

\* A valid form, with base_url set; the credentials of the last request are gone.
Submit(w, s, p) ==
  /\ wpc[w] = "idle"
  /\ GoTo(w, "inbox")
  /\ wspec' = [wspec EXCEPT ![w] = [slug |-> s, provider |-> p]]
  /\ wsecret' = [wsecret EXCEPT ![w] = 0]
  /\ bearer' = [bearer EXCEPT ![w] = 0]
  /\ wlost' = [wlost EXCEPT ![w] = FALSE]
  /\ UNCHANGED <<row, remoteVars, issued, faults, historyVars>>

\* fetchCwSecret: without the inbox there is no tenant.
FetchInbox(w) ==
  /\ wpc[w] = "inbox"
  /\ GoTo(w, IF Gateway(w) = "wablast" THEN "find" ELSE "insert")
  /\ UNCHANGED <<row, remoteVars, wspec, wsecret, bearer, wlost, issued, faults, historyVars>>

EndpointsOf(s) == {e \in endpoints : e.slug = s}
Registering(s) == {w \in Wizards : wpc[w] \in {"create", "rotate"} /\ Slug(w) = s}

\* Mutant: the list of endpoints is not searched.
FindNothing(w) ==
  /\ wpc[w] = "find"
  /\ GoTo(w, "create")
  /\ raced' = IF Registering(Slug(w)) = {} THEN raced ELSE raced \union {Slug(w)}
  /\ UNCHANGED <<row, remoteVars, wspec, wsecret, bearer, wlost, issued, faults, contested>>

\* findWablastEndpoint
FindEndpoint(w) ==
  /\ wpc[w] = "find"
  /\ GoTo(w, IF EndpointsOf(Slug(w)) = {} THEN "create" ELSE "rotate")
  /\ raced' = IF Registering(Slug(w)) = {} THEN raced ELSE raced \union {Slug(w)}
  /\ UNCHANGED <<row, remoteVars, wspec, wsecret, bearer, wlost, issued, faults, contested>>

\* Somebody relies on the secret WaBlast has now for s.
Relying(w, s) ==
  \/ row[s].provider = "wablast"
  \/ \E v \in Wizards \ {w} : wpc[v] # "idle" /\ Slug(v) = s /\ wsecret[v] # 0

\* WaBlast makes an endpoint, or a new secret for the one it was asked about.
Registered(w, secret) ==
  \/ wpc[w] = "create" /\ endpoints' = endpoints \union {[slug |-> Slug(w), secret |-> secret]}
  \/ /\ wpc[w] = "rotate"
     /\ \E e \in EndpointsOf(Slug(w)) :
          endpoints' = (endpoints \ {e}) \union {[slug |-> Slug(w), secret |-> secret]}

\* wablastGetSecret; nobody who relied on the old secret learns the new one.
Register(w) ==
  /\ Issue(1)
  /\ Registered(w, issued')
  /\ wsecret' = [wsecret EXCEPT ![w] = issued']
  /\ GoTo(w, "insert")
  /\ contested' = IF Relying(w, Slug(w)) THEN contested \union {Slug(w)} ELSE contested
  /\ UNCHANGED <<row, megaHook, cwHook, wspec, bearer, wlost, faults, raced>>

\* The reply with the secret is lost; the secret is not told again.
RegisterReplyLost(w) ==
  /\ Fault /\ Issue(1)
  /\ Registered(w, issued')
  /\ GoTo(w, "idle") /\ Lost(w)
  /\ contested' = IF Relying(w, Slug(w)) THEN contested \union {Slug(w)} ELSE contested
  /\ UNCHANGED <<row, megaHook, cwHook, wspec, wsecret, bearer, raced>>

\* BuildTenantInsert makes both credentials of the row; the whsec replaces the
\* inbound one where there is one.
Built(w) ==
  [provider |-> Gateway(w),
   inbound |-> IF Gateway(w) = "wablast" THEN wsecret[w] ELSE issued + 1,
   outbound |-> issued + 2]

\* persistTenant, InsertTenant: the unique slug is free.
Insert(w) ==
  /\ wpc[w] = "insert" /\ row[Slug(w)] = NoRow
  /\ Issue(2)
  /\ row' = [row EXCEPT ![Slug(w)] = Built(w)]
  /\ bearer' = [bearer EXCEPT ![w] = Built(w).inbound]
  /\ GoTo(w, "secret")
  /\ UNCHANGED <<remoteVars, wspec, wsecret, wlost, faults, historyVars>>

\* Mutant: the gateway is configured although the slug is taken.
DuplicateConfigures(w) ==
  /\ wpc[w] = "insert" /\ row[Slug(w)] # NoRow
  /\ Issue(2)
  /\ bearer' = [bearer EXCEPT ![w] = Built(w).inbound]
  /\ GoTo(w, "secret")
  /\ UNCHANGED <<row, remoteVars, wspec, wsecret, wlost, faults, historyVars>>

\* 409: the WaBlast secret has been replaced by now.
Duplicate(w) ==
  /\ wpc[w] = "insert" /\ row[Slug(w)] # NoRow
  /\ GoTo(w, "idle")
  /\ UNCHANGED <<row, remoteVars, wspec, wsecret, bearer, wlost, issued, faults, historyVars>>

\* Mutant: every tenant has its megaAPI webhook configured.
AfterSecretGateway(w) == "gateway"
AfterSecret(w) == IF Gateway(w) = "wablast" THEN "chatwoot" ELSE "gateway"

\* Mutant: the random secret stays in the row.
StoreNothing(w) ==
  /\ wpc[w] = "secret"
  /\ GoTo(w, AfterSecret(w))
  /\ UNCHANGED <<row, remoteVars, wspec, wsecret, bearer, wlost, issued, faults, historyVars>>

\* UpdateTenantHMAC: the inbox's own secret replaces the random one.
StoreInboxSecret(w) ==
  /\ wpc[w] = "secret"
  /\ row' = [row EXCEPT ![Slug(w)].outbound = InboxSecret]
  /\ GoTo(w, AfterSecret(w))
  /\ UNCHANGED <<remoteVars, wspec, wsecret, bearer, wlost, issued, faults, historyVars>>

\* fireMegaAPIConfig, ConfigureMegaAPIWebhook
ConfigureGateway(w) ==
  /\ wpc[w] = "gateway"
  /\ megaHook' = [megaHook EXCEPT ![Slug(w)] = bearer[w]]
  /\ GoTo(w, "chatwoot")
  /\ UNCHANGED <<row, endpoints, cwHook, wspec, wsecret, bearer, wlost, issued, faults,
                 historyVars>>

\* fireChatwootConfig, ConfigureChatwootWebhook; then the redirect to the panel.
ConfigureChatwoot(w) ==
  /\ wpc[w] = "chatwoot"
  /\ cwHook' = [cwHook EXCEPT ![Slug(w)] = InboxSecret]
  /\ GoTo(w, "idle")
  /\ UNCHANGED <<row, megaHook, endpoints, wspec, wsecret, bearer, wlost, issued, faults,
                 historyVars>>

\* Mutant: the tenant is created without the secret WaBlast did not return.
RegisterFailsOpen(w) ==
  /\ Fault /\ Lost(w)
  /\ wpc[w] \in {"inbox", "find", "create", "rotate", "insert"}
  /\ GoTo(w, IF wpc[w] \in {"create", "rotate"} THEN "insert" ELSE "idle")
  /\ UNCHANGED <<row, remoteVars, wspec, wsecret, bearer, issued, historyVars>>

\* A call up to the insert fails: an error page, and nothing is taken back.
RequiredCallFails(w) ==
  /\ Fault /\ Lost(w)
  /\ wpc[w] \in {"inbox", "find", "create", "rotate", "insert"}
  /\ GoTo(w, "idle")
  /\ UNCHANGED <<row, remoteVars, wspec, wsecret, bearer, issued, historyVars>>

\* A call after the insert fails: its error is dropped and the wizard goes on.
OptionalCallFails(w) ==
  /\ Fault /\ Lost(w)
  /\ \/ wpc[w] = "secret" /\ GoTo(w, AfterSecret(w))
     \/ wpc[w] = "gateway" /\ GoTo(w, "chatwoot")
     \/ wpc[w] = "chatwoot" /\ GoTo(w, "idle")
  /\ UNCHANGED <<row, remoteVars, wspec, wsecret, bearer, issued, historyVars>>

\* The process ends, or the operator closes the page, in the middle of it.
CutOff(w) ==
  /\ Fault /\ Lost(w)
  /\ wpc[w] # "idle"
  /\ GoTo(w, "idle")
  /\ UNCHANGED <<row, remoteVars, wspec, wsecret, bearer, issued, historyVars>>

\* bridge tenant add: a row and nothing else.  The operator has the WaBlast
\* secret, if any, from WaBlast.
CLIAdd(s, p) ==
  /\ row[s] = NoRow
  /\ Issue(2)
  /\ \E secret \in {0} \union {e.secret : e \in EndpointsOf(s)} :
       row' = [row EXCEPT ![s] =
                 [provider |-> p,
                  inbound |-> IF p = "wablast" THEN secret ELSE issued + 1,
                  outbound |-> issued + 2]]
  /\ UNCHANGED <<remoteVars, wizardVars, faults, historyVars>>

-----------------------------------------------------------------------------

Step(w) ==
  \/ FetchInbox(w) \/ FindEndpoint(w) \/ Register(w) \/ RegisterReplyLost(w)
  \/ Insert(w) \/ Duplicate(w) \/ StoreInboxSecret(w)
  \/ ConfigureGateway(w) \/ ConfigureChatwoot(w)
  \/ RequiredCallFails(w) \/ OptionalCallFails(w) \/ CutOff(w)

Next ==
  \/ \E w \in Wizards, s \in Slugs, p \in Gateways : Submit(w, s, p)
  \/ \E w \in Wizards : Step(w)
  \/ \E s \in Slugs, p \in Gateways : CLIAdd(s, p)

Spec == Init /\ [][Next]_vars

-----------------------------------------------------------------------------
(* Properties                                                              *)

\* Every variable has its type, and no wizard is at a step of the other gateway.
TypeOK ==
  /\ \A w \in Wizards : wpc[w] = "gateway" => Gateway(w) = "megaapi"
  /\ \A w \in Wizards : wpc[w] \in {"find", "create", "rotate"} => Gateway(w) = "wablast"
  /\ row \in [Slugs -> [provider : Gateways \union {"none"}, inbound : Credentials,
                        outbound : Credentials]]
  /\ megaHook \in [Slugs -> Credentials] /\ cwHook \in [Slugs -> Credentials]
  /\ endpoints \subseteq [slug : Slugs, secret : Credentials]
  /\ wpc \in [Wizards -> {"idle", "inbox", "find", "create", "rotate", "insert", "secret",
                          "gateway", "chatwoot"}]
  /\ wspec \in [Wizards -> [slug : Slugs, provider : Gateways]]
  /\ wsecret \in [Wizards -> Credentials] /\ bearer \in [Wizards -> Credentials]
  /\ wlost \in [Wizards -> BOOLEAN]
  /\ issued \in Credentials /\ faults \in 0..MaxFaults
  /\ contested \subseteq Slugs /\ raced \subseteq Slugs

\* An empty token is nobody's.
checkBearer(token, t) == token # 0 /\ token = t.inbound

\* handleWABWebhook is for tenants of WaBlast; a signature verifies under the
\* secret it was made with.
checkWablastSig(secret, t) == t.provider = "wablast" /\ secret = t.inbound

\* Chatwoot carries the token and signs nothing, so checkHMAC refuses the rest.
checkCWAuth(token, t) == token # 0 /\ token = t.outbound

\* What the gateway sends for s is let in.
InboundWired(s) ==
  \/ row[s].provider = "megaapi" /\ checkBearer(megaHook[s], row[s])
  \/ \E e \in EndpointsOf(s) : checkWablastSig(e.secret, row[s])

\* And what Chatwoot sends.
Wired(s) == InboundWired(s) /\ checkCWAuth(cwHook[s], row[s])

Ends(w) == wpc[w] = "chatwoot" /\ wpc'[w] = "idle"

\* A wizard that says the tenant is created, and none of whose calls failed,
\* leaves a tenant that works both ways, whatever other wizards do meanwhile,
\* unless one of them replaced the secret at WaBlast.
CreatedMeansWired ==
  [][\A w \in Wizards : Ends(w) /\ ~wlost'[w] /\ Slug(w) \notin contested => Wired(Slug(w))']_vars

\* A tenant that works goes on working through every later attempt to create
\* it again, with the same exception.
WiredStays == [][\A s \in Slugs : Wired(s) /\ s \notin contested' => Wired(s)']_vars

\* The inbound half of a WaBlast tenant is whole from the moment its row is
\* there: whichever calls failed and however often the slug was tried before, what
\* WaBlast signs then verifies under the secret persistTenant stored, unless
\* another wizard replaced it.  The outbound half has no such promise.
StoredSecretVerifies ==
  [][\A w \in Wizards :
       /\ wpc[w] = "insert" /\ wpc'[w] = "secret" /\ Gateway(w) = "wablast"
       /\ Slug(w) \notin contested
       => InboundWired(Slug(w))']_vars

\* WaBlast delivers a message once: a slug has one endpoint, however often the
\* wizard was tried, unless two wizards registered it at once.
OneEndpointUnlessRaced ==
  \A s \in Slugs \ raced : Cardinality(EndpointsOf(s)) <= 1

\* Trying to create a tenant again is safe: what the docs say of the wizard.
RetryingIsSafe == [][\A s \in Slugs : Wired(s) => Wired(s)']_vars
=============================================================================
