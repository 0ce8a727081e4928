--------------------------- MODULE Tenants_proofs ---------------------------
(* Theorems about Tenants for any slugs, wizards, gateways, credentials    *)
(* and faults.                                                             *)
EXTENDS Tenants, FiniteSetTheorems, TLAPS

USE TenantsAssumption

-----------------------------------------------------------------------------
(* Types                                                                   *)

Steps == {"idle", "inbox", "find", "create", "rotate", "insert", "secret", "gateway", "chatwoot"}
Rows == [provider : Gateways \union {"none"}, inbound : Credentials, outbound : Credentials]

WizardsOK ==
  /\ \A w \in Wizards : wpc[w] = "gateway" => Gateway(w) = "megaapi"
  /\ \A w \in Wizards : wpc[w] \in {"find", "create", "rotate"} => Gateway(w) = "wablast"
  /\ wpc \in [Wizards -> Steps] /\ wspec \in [Wizards -> [slug : Slugs, provider : Gateways]]
  /\ wsecret \in [Wizards -> Credentials] /\ bearer \in [Wizards -> Credentials]
  /\ wlost \in [Wizards -> BOOLEAN]

RemoteOK ==
  /\ megaHook \in [Slugs -> Credentials] /\ cwHook \in [Slugs -> Credentials]
  /\ endpoints \subseteq [slug : Slugs, secret : Credentials]

RowsOK == row \in [Slugs -> Rows]

CountsOK ==
  /\ issued \in Credentials /\ faults \in 0..MaxFaults
  /\ contested \subseteq Slugs /\ raced \subseteq Slugs

LEMMA Parts ==
  /\ TypeOK <=> WizardsOK /\ RemoteOK /\ RowsOK /\ CountsOK
  /\ TypeOK' <=> (WizardsOK /\ RemoteOK /\ RowsOK /\ CountsOK)'
BY DEF TypeOK, WizardsOK, RemoteOK, RowsOK, CountsOK, Steps, Rows

LEMMA TenantsInit == Init => TypeOK
<1> SUFFICES ASSUME Init PROVE WizardsOK /\ RemoteOK /\ RowsOK /\ CountsOK
  BY Parts
<1>1. 0 \in Credentials /\ 1 \in Credentials
  BY DEF Credentials
<1> QED BY <1>1 DEF Init, WizardsOK, RemoteOK, RowsOK, CountsOK, Steps, Rows, NoRow, InboxSecret

\* A new credential is one, and so are the ones before it.
LEMMA Issued ==
  ASSUME CountsOK, NEW n \in {1, 2}, Issue(n)
  PROVE  /\ issued' \in Credentials /\ issued' = issued + n
         /\ issued + 1 \in Credentials \ {0} /\ issued + n \in Credentials \ {0}
BY DEF CountsOK, Issue, Credentials

LEMMA Faulted == ASSUME CountsOK, Fault PROVE faults' \in 0..MaxFaults
BY DEF CountsOK, Fault

\* The slug and gateway of a wizard's form are what they may be.
LEMMA FormTypes == ASSUME WizardsOK, NEW w \in Wizards PROVE Slug(w) \in Slugs /\ Gateway(w) \in Gateways
BY DEF WizardsOK, Slug, Gateway

LEMMA WizardTypes ==
  ASSUME TypeOK, NEW w \in Wizards, Step(w)
  PROVE  WizardsOK'
<1>0. WizardsOK /\ CountsOK /\ Slug(w) \in Slugs /\ Gateway(w) \in Gateways
  BY Parts, FormTypes
<1>1. \A v \in Wizards : Gateway(v)' = Gateway(v)
  BY DEF Step, FetchInbox, FindEndpoint, Register, RegisterReplyLost, Insert, Duplicate,
         StoreInboxSecret, ConfigureGateway, ConfigureChatwoot, RequiredCallFails,
         OptionalCallFails, CutOff, Gateway
<1>2. /\ wspec' = wspec
      /\ wlost' = wlost \/ wlost' = [wlost EXCEPT ![w] = TRUE]
  BY DEF Step, FetchInbox, FindEndpoint, Register, RegisterReplyLost, Insert, Duplicate,
         StoreInboxSecret, ConfigureGateway, ConfigureChatwoot, RequiredCallFails,
         OptionalCallFails, CutOff, Lost
<1>3. wsecret' \in [Wizards -> Credentials] /\ bearer' \in [Wizards -> Credentials]
  <2>1. CASE Register(w)
    BY <1>0, <2>1, Issued DEF Register, WizardsOK
  <2>2. CASE Insert(w)
    <3>1. Built(w).inbound \in Credentials
      BY <1>0, <2>2, Issued DEF Insert, Built, WizardsOK
    <3> QED BY <1>0, <2>2, <3>1 DEF Insert, WizardsOK
  <2> QED BY <1>0, <2>1, <2>2 DEF WizardsOK, Step, FetchInbox, FindEndpoint, RegisterReplyLost,
       Duplicate, StoreInboxSecret, ConfigureGateway, ConfigureChatwoot, RequiredCallFails,
       OptionalCallFails, CutOff
<1>4. \E step \in Steps :
        /\ GoTo(w, step)
        /\ step = "gateway" => Gateway(w) = "megaapi"
        /\ step \in {"find", "create", "rotate"} => Gateway(w) = "wablast"
  BY <1>0 DEF WizardsOK, Step, FetchInbox, FindEndpoint, Register, RegisterReplyLost, Insert,
       Duplicate, StoreInboxSecret, ConfigureGateway, ConfigureChatwoot, RequiredCallFails,
       OptionalCallFails, CutOff, AfterSecret, Steps
<1>5. PICK step \in Steps :
        /\ wpc' = [wpc EXCEPT ![w] = step]
        /\ step = "gateway" => Gateway(w) = "megaapi"
        /\ step \in {"find", "create", "rotate"} => Gateway(w) = "wablast"
  BY <1>4 DEF GoTo
<1>6. wpc' \in [Wizards -> Steps]
  BY <1>0, <1>5 DEF WizardsOK
<1>7. ASSUME NEW v \in Wizards
      PROVE  /\ wpc'[v] = "gateway" => Gateway(v)' = "megaapi"
             /\ wpc'[v] \in {"find", "create", "rotate"} => Gateway(v)' = "wablast"
  <2>1. wpc'[v] = wpc[v] \/ (v = w /\ wpc'[v] = step)
    BY <1>0, <1>5 DEF WizardsOK
  <2> QED BY <1>0, <1>1, <1>5, <2>1 DEF WizardsOK
<1>8. wlost' \in [Wizards -> BOOLEAN]
  BY <1>0, <1>2 DEF WizardsOK
<1> QED BY <1>0, <1>2, <1>3, <1>6, <1>7, <1>8 DEF WizardsOK

LEMMA OtherTypes ==
  ASSUME TypeOK, NEW w \in Wizards, Step(w)
  PROVE  (RemoteOK /\ RowsOK /\ CountsOK)'
<1>0. WizardsOK /\ RemoteOK /\ RowsOK /\ CountsOK /\ Slug(w) \in Slugs /\ Gateway(w) \in Gateways
  BY Parts, FormTypes
<1>1. CASE FetchInbox(w) \/ FindEndpoint(w) \/ Duplicate(w)
  BY <1>0, <1>1 DEF FetchInbox, FindEndpoint, Duplicate, RemoteOK, RowsOK, CountsOK, remoteVars,
                    historyVars
<1>2. CASE Register(w) \/ RegisterReplyLost(w)
  <2>1. issued' \in Credentials /\ faults' \in 0..MaxFaults
    BY <1>0, <1>2, Issued, Faulted DEF Register, RegisterReplyLost, CountsOK
  <2>2. endpoints' \subseteq [slug : Slugs, secret : Credentials]
    BY <1>0, <1>2, <2>1 DEF Register, RegisterReplyLost, Registered, RemoteOK
  <2> QED BY <1>0, <1>2, <2>1, <2>2 DEF Register, RegisterReplyLost, RemoteOK, RowsOK, CountsOK
<1>3. CASE Insert(w)
  <2>1. issued' \in Credentials /\ Built(w) \in Rows
    BY <1>0, <1>3, Issued DEF Insert, Built, WizardsOK, Rows
  <2> QED BY <1>0, <1>3, <2>1 DEF Insert, RemoteOK, RowsOK, CountsOK, remoteVars, historyVars
<1>4. CASE StoreInboxSecret(w)
  <2>1. InboxSecret \in Credentials
    BY DEF InboxSecret, Credentials
  <2> QED BY <1>0, <1>4, <2>1 DEF StoreInboxSecret, RemoteOK, RowsOK, CountsOK, Rows, remoteVars,
                                  historyVars
<1>5. CASE ConfigureGateway(w) \/ ConfigureChatwoot(w)
  <2>1. InboxSecret \in Credentials /\ bearer[w] \in Credentials
    BY <1>0 DEF InboxSecret, Credentials, WizardsOK
  <2> QED BY <1>0, <1>5, <2>1 DEF ConfigureGateway, ConfigureChatwoot, RemoteOK, RowsOK, CountsOK,
                                  historyVars
<1>6. CASE RequiredCallFails(w) \/ OptionalCallFails(w) \/ CutOff(w)
  <2>1. faults' \in 0..MaxFaults
    BY <1>0, <1>6, Faulted DEF RequiredCallFails, OptionalCallFails, CutOff
  <2> QED BY <1>0, <1>6, <2>1 DEF RequiredCallFails, OptionalCallFails, CutOff, RemoteOK, RowsOK,
                                  CountsOK, remoteVars, historyVars
<1> QED BY <1>1, <1>2, <1>3, <1>4, <1>5, <1>6 DEF Step

LEMMA TypesKept == TypeOK /\ [Next]_vars => TypeOK'
<1> SUFFICES ASSUME TypeOK, [Next]_vars PROVE TypeOK'
  OBVIOUS
<1>0. WizardsOK /\ RemoteOK /\ RowsOK /\ CountsOK
  BY Parts
<1>1. CASE UNCHANGED vars
  BY <1>1 DEF vars, TypeOK, Gateway
<1>2. ASSUME NEW w \in Wizards, NEW s \in Slugs, NEW p \in Gateways, Submit(w, s, p) PROVE TypeOK'
  <2>1. (RemoteOK /\ RowsOK /\ CountsOK)'
    BY <1>0, <1>2 DEF Submit, RemoteOK, RowsOK, CountsOK, remoteVars, historyVars
  <2>2. 0 \in Credentials
    BY DEF Credentials
  <2>3. WizardsOK'
    BY <1>0, <1>2, <2>2 DEF Submit, GoTo, WizardsOK, Gateway, Steps
  <2> QED BY <2>1, <2>3, Parts
<1>3. ASSUME NEW s \in Slugs, NEW p \in Gateways, CLIAdd(s, p) PROVE TypeOK'
  <2>1. issued' \in Credentials /\ issued + 1 \in Credentials /\ issued + 2 \in Credentials
    BY <1>0, <1>3, Issued DEF CLIAdd
  <2>2. {0} \union {e.secret : e \in EndpointsOf(s)} \subseteq Credentials
    BY <1>0 DEF RemoteOK, EndpointsOf, Credentials
  <2>3. RowsOK'
    BY <1>0, <1>3, <2>1, <2>2 DEF CLIAdd, RowsOK, Rows
  <2> QED BY <1>0, <1>3, <2>1, <2>3, Parts
       DEF CLIAdd, WizardsOK, RemoteOK, CountsOK, Gateway, remoteVars, wizardVars, historyVars
<1>4. ASSUME NEW w \in Wizards, Step(w) PROVE TypeOK'
  BY <1>4, WizardTypes, OtherTypes, Parts
<1> QED BY <1>1, <1>2, <1>3, <1>4 DEF Next

\* Types, and that no wizard is at a step of the other gateway (handleTenantCreate).
THEOREM TenantsTypes == Spec => []TypeOK
BY TenantsInit, TypesKept, PTL DEF Spec

-----------------------------------------------------------------------------
(* What a wizard holds                                                     *)

Placed == {"secret", "gateway", "chatwoot"}

\* The row of a wizard's tenant is the one it inserted, up to the outbound secret.
RowIsOwn(w) ==
  wpc[w] \in Placed =>
    /\ row[Slug(w)].provider = Gateway(w)
    /\ row[Slug(w)].inbound = bearer[w] /\ bearer[w] # 0

\* What the calls that did not fail have left.
CallsHold(w) ==
  ~wlost[w] =>
    /\ wpc[w] \in {"gateway", "chatwoot"} => row[Slug(w)].outbound = InboxSecret
    /\ wpc[w] = "chatwoot" /\ Gateway(w) = "megaapi" => megaHook[Slug(w)] = bearer[w]

\* A WaBlast wizard has a secret before it inserts, and stores that one.
SecretFirst(w) ==
  Gateway(w) = "wablast" =>
    /\ wpc[w] = "insert" => wsecret[w] # 0
    /\ wpc[w] \in Placed => bearer[w] = wsecret[w]

\* The secret is the one WaBlast has.
SecretHeld(w) ==
  wpc[w] # "idle" /\ wsecret[w] # 0 /\ Slug(w) \notin contested =>
    [slug |-> Slug(w), secret |-> wsecret[w]] \in endpoints

InboxTold == \A s \in Slugs : cwHook[s] \in {0, InboxSecret}

WizardInv(w) == RowIsOwn(w) /\ CallsHold(w) /\ SecretFirst(w) /\ SecretHeld(w)
WiringInv == TypeOK /\ InboxTold /\ \A w \in Wizards : WizardInv(w)

LEMMA WiringInit == Init => WiringInv
BY TenantsInit DEF Init, WiringInv, InboxTold, WizardInv, RowIsOwn, CallsHold, SecretFirst,
     SecretHeld, Placed

\* A step of one wizard leaves the others where they are.
LEMMA Others ==
  ASSUME TypeOK, NEW w \in Wizards, Step(w)
  PROVE  /\ wspec' = wspec
         /\ \A v \in Wizards \ {w} :
              wpc'[v] = wpc[v] /\ wsecret'[v] = wsecret[v] /\ bearer'[v] = bearer[v]
              /\ wlost'[v] = wlost[v]
<1>0. WizardsOK
  BY Parts
<1>1. \A v \in Wizards \ {w} : wpc'[v] = wpc[v]
  BY <1>0 DEF WizardsOK, Step, FetchInbox, FindEndpoint, Register, RegisterReplyLost, Insert,
       Duplicate, StoreInboxSecret, ConfigureGateway, ConfigureChatwoot, RequiredCallFails,
       OptionalCallFails, CutOff, GoTo
<1>2. /\ wspec' = wspec
      /\ \A v \in Wizards \ {w} :
           wsecret'[v] = wsecret[v] /\ bearer'[v] = bearer[v] /\ wlost'[v] = wlost[v]
  BY <1>0 DEF WizardsOK, Step, FetchInbox, FindEndpoint, Register, RegisterReplyLost, Insert,
       Duplicate, StoreInboxSecret, ConfigureGateway, ConfigureChatwoot, RequiredCallFails,
       OptionalCallFails, CutOff, Lost
<1> QED BY <1>1, <1>2

\* A row, once there, only gets the inbox's secret.
LEMMA RowsLast ==
  ASSUME TypeOK, Next
  PROVE  \A s \in Slugs : row[s] # NoRow =>
           /\ row'[s].provider = row[s].provider /\ row'[s].inbound = row[s].inbound
           /\ row'[s].outbound \in {row[s].outbound, InboxSecret}
<1>0. RowsOK /\ WizardsOK
  BY Parts
<1>1. ASSUME NEW w \in Wizards, Insert(w)
      PROVE  \A s \in Slugs : row[s] # NoRow => row'[s] = row[s]
  BY <1>0, <1>1 DEF Insert, RowsOK
<1>2. ASSUME NEW w \in Wizards, StoreInboxSecret(w)
      PROVE  \A s \in Slugs :
               /\ row'[s].provider = row[s].provider /\ row'[s].inbound = row[s].inbound
               /\ row'[s].outbound \in {row[s].outbound, InboxSecret}
  BY <1>0, <1>2 DEF StoreInboxSecret, RowsOK, Rows
<1>3. ASSUME NEW s0 \in Slugs, NEW p \in Gateways, CLIAdd(s0, p)
      PROVE  \A s \in Slugs : row[s] # NoRow => row'[s] = row[s]
  BY <1>0, <1>3 DEF CLIAdd, RowsOK
<1>4. ASSUME NEW w \in Wizards, Step(w), ~Insert(w), ~StoreInboxSecret(w) PROVE row' = row
  BY <1>4 DEF Step, FetchInbox, FindEndpoint, Register, RegisterReplyLost,
       Duplicate, ConfigureGateway, ConfigureChatwoot, RequiredCallFails, OptionalCallFails, CutOff
<1>5. ASSUME NEW w \in Wizards, NEW s \in Slugs, NEW p \in Gateways, Submit(w, s, p)
      PROVE  row' = row
  BY <1>5 DEF Submit
<1> QED BY <1>1, <1>2, <1>3, <1>4, <1>5 DEF Next

\* Only a wizard's registration changes WaBlast, and it makes the secrets
\* somebody relied on contested.
LEMMA SecretsLast ==
  ASSUME TypeOK, NEW w \in Wizards, Register(w) \/ RegisterReplyLost(w)
  PROVE  /\ \A e \in endpoints : e.slug # Slug(w) => e \in endpoints'
         /\ [slug |-> Slug(w), secret |-> issued'] \in endpoints'
         /\ contested \subseteq contested'
         /\ Slug(w) \notin contested' => ~Relying(w, Slug(w))
<1>0. RemoteOK /\ CountsOK /\ Slug(w) \in Slugs
  BY Parts, FormTypes
<1>1. Registered(w, issued')
  BY DEF Register, RegisterReplyLost
<1>2. /\ \A e \in endpoints : e.slug # Slug(w) => e \in endpoints'
      /\ [slug |-> Slug(w), secret |-> issued'] \in endpoints'
  BY <1>0, <1>1 DEF Registered, EndpointsOf
<1>3. contested' = IF Relying(w, Slug(w)) THEN contested \union {Slug(w)} ELSE contested
  BY DEF Register, RegisterReplyLost
<1> QED BY <1>2, <1>3

\* A step that is not a registration leaves WaBlast and the history alone.
LEMMA Unregistered ==
  ASSUME NEW w \in Wizards, Step(w), ~Register(w), ~RegisterReplyLost(w)
  PROVE  endpoints' = endpoints /\ contested' = contested
BY DEF Step, FetchInbox, FindEndpoint, Insert, Duplicate, StoreInboxSecret, ConfigureGateway,
       ConfigureChatwoot, RequiredCallFails, OptionalCallFails, CutOff, remoteVars, historyVars

\* What a wizard has placed has a row.
LEMMA PlacedHasRow ==
  ASSUME TypeOK, NEW w \in Wizards, RowIsOwn(w), wpc[w] \in Placed
  PROVE  row[Slug(w)] # NoRow
<1>1. Gateway(w) \in Gateways
  BY Parts, FormTypes
<1> QED BY <1>1 DEF RowIsOwn, NoRow

LEMMA OthersKept ==
  ASSUME WiringInv, NEW w \in Wizards, Step(w), NEW v \in Wizards \ {w}
  PROVE  WizardInv(v)'
<1>0. TypeOK /\ WizardInv(v) /\ WizardInv(w) /\ Slug(v) \in Slugs /\ Slug(w) \in Slugs
  BY Parts, FormTypes DEF WiringInv
<1>1. /\ wpc'[v] = wpc[v] /\ wsecret'[v] = wsecret[v] /\ bearer'[v] = bearer[v]
      /\ wlost'[v] = wlost[v] /\ Slug(v)' = Slug(v) /\ Gateway(v)' = Gateway(v)
  BY <1>0, Others DEF Slug, Gateway
<1>2. wpc[v] \in Placed =>
        /\ row'[Slug(v)].provider = row[Slug(v)].provider
        /\ row'[Slug(v)].inbound = row[Slug(v)].inbound
        /\ row'[Slug(v)].outbound \in {row[Slug(v)].outbound, InboxSecret}
  BY <1>0, PlacedHasRow, RowsLast DEF Next, WizardInv
<1>3. RowIsOwn(v)'
  BY <1>0, <1>1, <1>2 DEF WizardInv, RowIsOwn
<1>4. wpc[v] = "chatwoot" /\ Gateway(v) = "megaapi" /\ ~wlost[v] => megaHook'[Slug(v)] = bearer[v]
  <2> SUFFICES ASSUME wpc[v] = "chatwoot", Gateway(v) = "megaapi", ~wlost[v]
               PROVE  megaHook'[Slug(v)] = bearer[v]
    OBVIOUS
  <2>0. megaHook[Slug(v)] = bearer[v] /\ row[Slug(v)].inbound = bearer[v]
    BY <1>0 DEF WizardInv, CallsHold, RowIsOwn, Placed
  <2>1. CASE ConfigureGateway(w)
    <3>1. row[Slug(w)].inbound = bearer[w]
      BY <1>0, <2>1 DEF ConfigureGateway, WizardInv, RowIsOwn, Placed
    <3> QED BY <1>0, <2>0, <2>1, <3>1, Parts DEF ConfigureGateway, RemoteOK
  <2>2. CASE ~ConfigureGateway(w)
    BY <2>0, <2>2 DEF Step, FetchInbox, FindEndpoint, Register, RegisterReplyLost, Insert, Duplicate,
         StoreInboxSecret, ConfigureChatwoot, RequiredCallFails, OptionalCallFails, CutOff,
         remoteVars
  <2> QED BY <2>1, <2>2
<1>5. CallsHold(v)'
  BY <1>0, <1>1, <1>2, <1>4 DEF WizardInv, CallsHold, Placed
<1>6. SecretFirst(v)'
  BY <1>0, <1>1 DEF WizardInv, SecretFirst
<1>7. SecretHeld(v)'
  <2> SUFFICES ASSUME wpc[v] # "idle", wsecret[v] # 0, Slug(v) \notin contested'
               PROVE  [slug |-> Slug(v), secret |-> wsecret[v]] \in endpoints'
    BY <1>1 DEF SecretHeld
  <2>1. CASE Register(w) \/ RegisterReplyLost(w)
    <3>1. Slug(v) # Slug(w)
      BY <1>0, <2>1, SecretsLast DEF Relying
    <3> QED BY <1>0, <2>1, <3>1, SecretsLast DEF WizardInv, SecretHeld
  <2>2. CASE ~Register(w) /\ ~RegisterReplyLost(w)
    BY <1>0, <2>2, Unregistered DEF WizardInv, SecretHeld
  <2> QED BY <2>1, <2>2
<1> QED BY <1>3, <1>5, <1>6, <1>7 DEF WizardInv

LEMMA OwnKept ==
  ASSUME WiringInv, NEW w \in Wizards, Step(w)
  PROVE  WizardInv(w)'
<1>0. /\ TypeOK /\ WizardInv(w) /\ Slug(w) \in Slugs /\ Gateway(w) \in Gateways
      /\ WizardsOK /\ RemoteOK /\ RowsOK /\ CountsOK
  BY Parts, FormTypes DEF WiringInv
<1>1. Slug(w)' = Slug(w) /\ Gateway(w)' = Gateway(w)
  BY <1>0, Others DEF Slug, Gateway
<1>2. CASE FetchInbox(w) \/ FindEndpoint(w)
  <2>1. /\ wpc'[w] \notin Placed
        /\ wpc'[w] = "insert" => Gateway(w) # "wablast"
        /\ wpc[w] # "idle"
    BY <1>0, <1>2 DEF FetchInbox, FindEndpoint, GoTo, WizardsOK, Placed
  <2>2. wsecret' = wsecret /\ contested' = contested /\ endpoints' = endpoints
    BY <1>2 DEF FetchInbox, FindEndpoint, remoteVars, historyVars
  <2> QED BY <1>0, <1>1, <2>1, <2>2
       DEF WizardInv, RowIsOwn, CallsHold, SecretFirst, SecretHeld, Placed
<1>3. CASE Register(w)
  <2>1. wpc'[w] = "insert" /\ wsecret'[w] = issued' /\ issued' # 0
    BY <1>0, <1>3, Issued DEF Register, GoTo, WizardsOK
  <2>2. [slug |-> Slug(w), secret |-> issued'] \in endpoints'
    BY <1>0, <1>3, SecretsLast
  <2> QED BY <1>1, <2>1, <2>2 DEF WizardInv, RowIsOwn, CallsHold, SecretFirst, SecretHeld, Placed
<1>4. CASE RegisterReplyLost(w) \/ Duplicate(w) \/ ConfigureChatwoot(w) \/ RequiredCallFails(w)
           \/ CutOff(w)
  <2>1. wpc'[w] = "idle"
    BY <1>0, <1>4 DEF RegisterReplyLost, Duplicate, ConfigureChatwoot, RequiredCallFails, CutOff,
         GoTo, WizardsOK
  <2> QED BY <2>1 DEF WizardInv, RowIsOwn, CallsHold, SecretFirst, SecretHeld, Placed
<1>5. CASE Insert(w)
  <2>1. /\ wpc'[w] = "secret" /\ wpc[w] = "insert" /\ bearer'[w] = Built(w).inbound
        /\ row'[Slug(w)] = Built(w)
        /\ wsecret' = wsecret /\ contested' = contested /\ endpoints' = endpoints
    BY <1>0, <1>5 DEF Insert, GoTo, WizardsOK, RowsOK, remoteVars, historyVars
  <2>2. /\ Built(w).provider = Gateway(w) /\ Built(w).inbound # 0
        /\ Gateway(w) = "wablast" => Built(w).inbound = wsecret[w]
    BY <1>0, <1>5, <2>1, Issued DEF Built, WizardInv, SecretFirst, Insert
  <2> QED BY <1>0, <1>1, <2>1, <2>2
       DEF WizardInv, RowIsOwn, CallsHold, SecretFirst, SecretHeld, Placed
<1>6. CASE StoreInboxSecret(w) \/ ConfigureGateway(w) \/ OptionalCallFails(w)
  <2>1. /\ wpc[w] \in Placed /\ wsecret' = wsecret /\ bearer' = bearer
        /\ contested' = contested /\ endpoints' = endpoints
    BY <1>6 DEF StoreInboxSecret, ConfigureGateway, OptionalCallFails, Placed, remoteVars, historyVars
  <2>2. /\ row'[Slug(w)].provider = row[Slug(w)].provider
        /\ row'[Slug(w)].inbound = row[Slug(w)].inbound
        /\ row'[Slug(w)].outbound \in {row[Slug(w)].outbound, InboxSecret}
    BY <1>0, <2>1, PlacedHasRow, RowsLast DEF Next, WizardInv
  <2>3. wpc'[w] # "insert"
    BY <1>0, <1>6 DEF StoreInboxSecret, ConfigureGateway, OptionalCallFails, GoTo, AfterSecret,
         WizardsOK
  <2>4. RowIsOwn(w)' /\ SecretFirst(w)' /\ SecretHeld(w)'
    BY <1>0, <1>1, <2>1, <2>2, <2>3
    DEF WizardInv, RowIsOwn, SecretFirst, SecretHeld, Placed
  <2>5. CASE OptionalCallFails(w)
    BY <1>0, <2>4, <2>5 DEF OptionalCallFails, Lost, WizardsOK, WizardInv, CallsHold
  <2>6. CASE StoreInboxSecret(w)
    <3>1. row'[Slug(w)].outbound = InboxSecret
      BY <1>0, <2>6 DEF StoreInboxSecret, RowsOK, Rows
    <3>2. wpc'[w] = "chatwoot" => Gateway(w) = "wablast"
      BY <1>0, <2>6 DEF StoreInboxSecret, GoTo, AfterSecret, WizardsOK
    <3> QED BY <1>1, <2>4, <3>1, <3>2 DEF WizardInv, CallsHold
  <2>7. CASE ConfigureGateway(w)
    <3>1. /\ megaHook'[Slug(w)] = bearer[w] /\ wlost' = wlost /\ row' = row
          /\ wpc[w] = "gateway"
      BY <1>0, <2>7 DEF ConfigureGateway, RemoteOK
    <3> QED BY <1>0, <1>1, <2>1, <2>4, <3>1 DEF WizardInv, CallsHold
  <2> QED BY <1>6, <2>5, <2>6, <2>7
<1> QED BY <1>2, <1>3, <1>4, <1>5, <1>6 DEF Step

LEMMA InboxToldKept == ASSUME TypeOK, InboxTold, Next PROVE InboxTold'
<1>0. RemoteOK
  BY Parts
<1>1. ASSUME NEW w \in Wizards, ConfigureChatwoot(w) PROVE InboxTold'
  BY <1>0, <1>1 DEF ConfigureChatwoot, RemoteOK, InboxTold
<1>2. ASSUME NEW w \in Wizards, Step(w), ~ConfigureChatwoot(w) PROVE cwHook' = cwHook
  BY <1>2 DEF Step, FetchInbox, FindEndpoint, Register, RegisterReplyLost, Insert, Duplicate,
       StoreInboxSecret, ConfigureGateway, RequiredCallFails, OptionalCallFails, CutOff, remoteVars
<1>3. ASSUME NEW w \in Wizards, NEW s \in Slugs, NEW p \in Gateways, Submit(w, s, p)
      PROVE  cwHook' = cwHook
  BY <1>3 DEF Submit, remoteVars
<1>4. ASSUME NEW s \in Slugs, NEW p \in Gateways, CLIAdd(s, p)
      PROVE  cwHook' = cwHook
  BY <1>4 DEF CLIAdd, remoteVars
<1> QED BY <1>1, <1>2, <1>3, <1>4 DEF Next, InboxTold

LEMMA WiringKept == WiringInv /\ [Next]_vars => WiringInv'
<1> SUFFICES ASSUME WiringInv, [Next]_vars PROVE WiringInv'
  OBVIOUS
<1>0. TypeOK /\ TypeOK' /\ InboxTold /\ WizardsOK /\ RowsOK
  BY TypesKept, Parts DEF WiringInv
<1>1. CASE UNCHANGED vars
  BY <1>0, <1>1 DEF vars, WiringInv, InboxTold, WizardInv, RowIsOwn, CallsHold, SecretFirst,
       SecretHeld, Slug, Gateway
<1>2. ASSUME NEW w \in Wizards, Step(w) PROVE WiringInv'
  BY <1>0, <1>2, OthersKept, OwnKept, InboxToldKept DEF WiringInv, Next
<1>3. ASSUME NEW w \in Wizards, NEW s \in Slugs, NEW p \in Gateways, Submit(w, s, p)
      PROVE  WiringInv'
  <2>1. /\ wpc'[w] = "inbox" /\ wsecret'[w] = 0
        /\ \A v \in Wizards \ {w} :
             wpc'[v] = wpc[v] /\ wsecret'[v] = wsecret[v] /\ bearer'[v] = bearer[v]
             /\ wlost'[v] = wlost[v] /\ Slug(v)' = Slug(v) /\ Gateway(v)' = Gateway(v)
    BY <1>0, <1>3 DEF Submit, GoTo, WizardsOK, Slug, Gateway
  <2>2. /\ row' = row /\ megaHook' = megaHook /\ endpoints' = endpoints /\ cwHook' = cwHook
        /\ contested' = contested
    BY <1>3 DEF Submit, remoteVars, historyVars
  <2>3. WizardInv(w)'
    BY <2>1 DEF WizardInv, RowIsOwn, CallsHold, SecretFirst, SecretHeld, Placed
  <2>4. ASSUME NEW v \in Wizards \ {w} PROVE WizardInv(v)'
    BY <2>1, <2>2 DEF WiringInv, WizardInv, RowIsOwn, CallsHold, SecretFirst, SecretHeld
  <2> QED BY <1>0, <2>2, <2>3, <2>4 DEF WiringInv, InboxTold
<1>4. ASSUME NEW s \in Slugs, NEW p \in Gateways, CLIAdd(s, p) PROVE WiringInv'
  <2>1. /\ wpc' = wpc /\ wspec' = wspec /\ wsecret' = wsecret /\ bearer' = bearer /\ wlost' = wlost
        /\ megaHook' = megaHook /\ endpoints' = endpoints /\ contested' = contested
    BY <1>4 DEF CLIAdd, remoteVars, wizardVars, historyVars
  <2>2. Next
    BY <1>4 DEF Next
  <2>3. ASSUME NEW v \in Wizards PROVE WizardInv(v)'
    <3>1. WizardInv(v) /\ Slug(v) \in Slugs
      BY <1>0, FormTypes DEF WiringInv
    <3>2. wpc[v] \in Placed =>
            /\ row'[Slug(v)].provider = row[Slug(v)].provider
            /\ row'[Slug(v)].inbound = row[Slug(v)].inbound
            /\ row'[Slug(v)].outbound \in {row[Slug(v)].outbound, InboxSecret}
      BY <1>0, <2>2, <3>1, PlacedHasRow, RowsLast DEF WizardInv
    <3> QED BY <2>1, <3>1, <3>2
         DEF WizardInv, RowIsOwn, CallsHold, SecretFirst, SecretHeld, Placed, Slug, Gateway
  <2> QED BY <1>0, <2>2, <2>3, InboxToldKept DEF WiringInv
<1> QED BY <1>1, <1>2, <1>3, <1>4 DEF Next

LEMMA WiringHolds == Spec => []WiringInv
BY WiringInit, WiringKept, PTL DEF Spec

-----------------------------------------------------------------------------
(* What the wizard promises                                                *)

LEMMA InsertsWithSecret ==
  WiringInv /\ [Next]_vars =>
    \A w \in Wizards :
      /\ wpc[w] = "insert" /\ wpc'[w] = "secret" /\ Gateway(w) = "wablast"
      /\ Slug(w) \notin contested
      => InboundWired(Slug(w))'
<1> SUFFICES ASSUME WiringInv, [Next]_vars, NEW w \in Wizards, wpc[w] = "insert",
                    wpc'[w] = "secret", Gateway(w) = "wablast", Slug(w) \notin contested
             PROVE  InboundWired(Slug(w))'
  OBVIOUS
<1>0. TypeOK /\ WizardInv(w) /\ WizardsOK /\ RowsOK /\ CountsOK /\ Slug(w) \in Slugs
  BY Parts, FormTypes DEF WiringInv
<1>1. Next
  BY DEF vars
<1>2. ~(\E v \in Wizards, t \in Slugs, p \in Gateways : Submit(v, t, p))
  BY <1>0 DEF Submit, GoTo, WizardsOK
<1>3. ~(\E t \in Slugs, p \in Gateways : CLIAdd(t, p))
  BY DEF CLIAdd, wizardVars
<1>4. Step(w)
  <2>1. PICK v \in Wizards : Step(v)
    BY <1>1, <1>2, <1>3 DEF Next
  <2> QED BY <1>0, <2>1, Others
<1>5. Insert(w)
  BY <1>0, <1>4 DEF Step, FetchInbox, FindEndpoint, Register, RegisterReplyLost, Duplicate,
       StoreInboxSecret, ConfigureGateway, ConfigureChatwoot, RequiredCallFails, OptionalCallFails,
       CutOff, GoTo, WizardsOK
<1>6. /\ row'[Slug(w)].provider = "wablast" /\ row'[Slug(w)].inbound = wsecret[w]
      /\ wspec' = wspec /\ endpoints' = endpoints
  BY <1>0, <1>5 DEF Insert, RowsOK, Built, remoteVars
<1>7. [slug |-> Slug(w), secret |-> wsecret[w]] \in endpoints
  BY <1>0 DEF WizardInv, SecretFirst, SecretHeld
<1>8. [slug |-> Slug(w), secret |-> wsecret[w]] \in EndpointsOf(Slug(w))'
  BY <1>6, <1>7 DEF EndpointsOf, Slug
<1> QED BY <1>6, <1>8 DEF InboundWired, checkWablastSig, Slug

\* A WaBlast tenant's row is stored with the secret WaBlast signs with, unless
\* another wizard replaced it (registerWablastIfNeeded, persistTenant).
THEOREM StoredTenantsVerify == Spec => StoredSecretVerifies
<1>1. WiringInv /\ [Next]_vars =>
        [\A w \in Wizards :
           /\ wpc[w] = "insert" /\ wpc'[w] = "secret" /\ Gateway(w) = "wablast"
           /\ Slug(w) \notin contested
           => InboundWired(Slug(w))']_vars
  BY InsertsWithSecret
<1> QED BY <1>1, WiringHolds, PTL DEF Spec, StoredSecretVerifies

LEMMA EndsWired ==
  WiringInv /\ [Next]_vars =>
    \A w \in Wizards : Ends(w) /\ ~wlost'[w] /\ Slug(w) \notin contested => Wired(Slug(w))'
<1> SUFFICES ASSUME WiringInv, [Next]_vars, NEW w \in Wizards, Ends(w), ~wlost'[w],
                    Slug(w) \notin contested
             PROVE  Wired(Slug(w))'
  OBVIOUS
<1>0. /\ TypeOK /\ WizardInv(w) /\ WizardsOK /\ RowsOK /\ RemoteOK
      /\ Slug(w) \in Slugs /\ Gateway(w) \in Gateways
  BY Parts, FormTypes DEF WiringInv
<1>1. Next
  BY DEF vars, Ends
<1>2. ~(\E v \in Wizards, t \in Slugs, p \in Gateways : Submit(v, t, p))
  BY <1>0 DEF Submit, GoTo, WizardsOK, Ends
<1>3. ~(\E t \in Slugs, p \in Gateways : CLIAdd(t, p))
  BY DEF CLIAdd, wizardVars, Ends
<1>4. Step(w)
  <2>1. PICK v \in Wizards : Step(v)
    BY <1>1, <1>2, <1>3 DEF Next
  <2> QED BY <1>0, <2>1, Others DEF Ends
<1>5. ConfigureChatwoot(w)
  BY <1>0, <1>4 DEF Step, FetchInbox, FindEndpoint, Register, RegisterReplyLost, Insert, Duplicate,
       StoreInboxSecret, ConfigureGateway, RequiredCallFails, OptionalCallFails, CutOff, Lost,
       GoTo, Registered, WizardsOK, Ends
<1>6. /\ row' = row /\ megaHook' = megaHook /\ endpoints' = endpoints /\ wlost' = wlost
      /\ wspec' = wspec /\ wpc[w] = "chatwoot" /\ cwHook'[Slug(w)] = InboxSecret
  BY <1>0, <1>5 DEF ConfigureChatwoot, RemoteOK
<1>7. /\ row[Slug(w)].provider = Gateway(w) /\ row[Slug(w)].inbound = bearer[w] /\ bearer[w] # 0
      /\ row[Slug(w)].outbound = InboxSecret
      /\ Gateway(w) = "megaapi" => megaHook[Slug(w)] = bearer[w]
  BY <1>0, <1>6 DEF WizardInv, RowIsOwn, CallsHold, Placed
<1>8. Gateway(w) = "wablast" => [slug |-> Slug(w), secret |-> bearer[w]] \in endpoints
  BY <1>0, <1>6, <1>7 DEF WizardInv, SecretFirst, SecretHeld, Placed
<1>9. InboundWired(Slug(w))'
  <2>1. CASE Gateway(w) = "megaapi"
    BY <1>6, <1>7, <2>1 DEF InboundWired, checkBearer, Slug
  <2>2. CASE Gateway(w) = "wablast"
    <3>1. [slug |-> Slug(w), secret |-> bearer[w]] \in EndpointsOf(Slug(w))'
      BY <1>6, <1>8, <2>2 DEF EndpointsOf, Slug
    <3> QED BY <1>6, <1>7, <2>2, <3>1 DEF InboundWired, checkWablastSig, Slug
  <2> QED BY <1>0, <2>1, <2>2
<1> QED BY <1>6, <1>7, <1>9 DEF Wired, checkCWAuth, InboxSecret, Slug

\* A wizard none of whose calls failed leaves a tenant that works both ways,
\* unless its secret was replaced at WaBlast (fireMegaAPIConfig,
\* fireChatwootConfig, UpdateTenantHMAC).
THEOREM CreatedTenantsWork == Spec => CreatedMeansWired
<1>1. WiringInv /\ [Next]_vars =>
        [\A w \in Wizards :
           Ends(w) /\ ~wlost'[w] /\ Slug(w) \notin contested => Wired(Slug(w))']_vars
  BY EndsWired
<1> QED BY <1>1, WiringHolds, PTL DEF Spec, CreatedMeansWired

LEMMA StaysWired ==
  WiringInv /\ [Next]_vars => \A s \in Slugs : Wired(s) /\ s \notin contested' => Wired(s)'
<1> SUFFICES ASSUME WiringInv, [Next]_vars, NEW s \in Slugs, Wired(s), s \notin contested'
             PROVE  Wired(s)'
  OBVIOUS
<1>0. TypeOK /\ RowsOK /\ RemoteOK /\ InboxTold
  BY Parts DEF WiringInv
<1>1. row[s] # NoRow
  BY DEF Wired, checkCWAuth, NoRow
<1>2. cwHook[s] = InboxSecret /\ row[s].outbound = InboxSecret
  BY <1>0 DEF Wired, checkCWAuth, InboxTold
<1>3. /\ row'[s].provider = row[s].provider /\ row'[s].inbound = row[s].inbound
      /\ row'[s].outbound = InboxSecret
  BY <1>0, <1>1, <1>2, RowsLast DEF vars
<1>4. cwHook'[s] = InboxSecret
  <2>1. ASSUME NEW w \in Wizards, ConfigureChatwoot(w) PROVE cwHook'[s] = cwHook[s]
    BY <1>0, <1>2, <2>1 DEF ConfigureChatwoot, RemoteOK
  <2>2. ASSUME NEW w \in Wizards, Step(w), ~ConfigureChatwoot(w) PROVE cwHook' = cwHook
    BY <2>2 DEF Step, FetchInbox, FindEndpoint, Register, RegisterReplyLost, Insert, Duplicate,
         StoreInboxSecret, ConfigureGateway, RequiredCallFails, OptionalCallFails, CutOff, remoteVars
  <2>3. ASSUME NEW w \in Wizards, NEW t \in Slugs, NEW p \in Gateways, Submit(w, t, p)
        PROVE  cwHook' = cwHook
    BY <2>3 DEF Submit, remoteVars
  <2>4. ASSUME NEW t \in Slugs, NEW p \in Gateways, CLIAdd(t, p) PROVE cwHook' = cwHook
    BY <2>4 DEF CLIAdd, remoteVars
  <2> QED BY <1>2, <2>1, <2>2, <2>3, <2>4 DEF Next, vars
<1>5. CASE row[s].provider = "megaapi"
  <2>0. megaHook[s] = row[s].inbound /\ megaHook[s] # 0
    BY <1>5 DEF Wired, InboundWired, checkBearer, checkWablastSig
  <2>1. ASSUME NEW w \in Wizards, ConfigureGateway(w) PROVE megaHook'[s] = megaHook[s]
    <3>1. row[Slug(w)].inbound = bearer[w]
      BY <2>1 DEF WiringInv, WizardInv, RowIsOwn, Placed, ConfigureGateway
    <3> QED BY <1>0, <2>0, <2>1, <3>1 DEF ConfigureGateway, RemoteOK
  <2>2. ASSUME NEW w \in Wizards, Step(w), ~ConfigureGateway(w) PROVE megaHook' = megaHook
    BY <2>2 DEF Step, FetchInbox, FindEndpoint, Register, RegisterReplyLost, Insert, Duplicate,
         StoreInboxSecret, ConfigureChatwoot, RequiredCallFails, OptionalCallFails, CutOff, remoteVars
  <2>3. ASSUME NEW w \in Wizards, NEW t \in Slugs, NEW p \in Gateways, Submit(w, t, p)
        PROVE  megaHook' = megaHook
    BY <2>3 DEF Submit, remoteVars
  <2>4. ASSUME NEW t \in Slugs, NEW p \in Gateways, CLIAdd(t, p) PROVE megaHook' = megaHook
    BY <2>4 DEF CLIAdd, remoteVars
  <2>5. megaHook'[s] = megaHook[s]
    BY <2>1, <2>2, <2>3, <2>4 DEF Next, vars
  <2> QED BY <1>3, <1>4, <1>5, <2>0, <2>5
       DEF Wired, InboundWired, checkBearer, checkCWAuth, InboxSecret
<1>6. CASE row[s].provider # "megaapi"
  <2>0. PICK e \in endpoints : e.slug = s /\ checkWablastSig(e.secret, row[s])
    BY <1>6 DEF Wired, InboundWired, EndpointsOf
  <2>1. ASSUME NEW w \in Wizards, Register(w) \/ RegisterReplyLost(w) PROVE e \in endpoints'
    <3>1. Slug(w) # s
      BY <1>0, <2>0, <2>1, SecretsLast DEF Relying, checkWablastSig
    <3> QED BY <1>0, <2>0, <2>1, <3>1, SecretsLast
  <2>2. ASSUME NEW w \in Wizards, Step(w), ~Register(w), ~RegisterReplyLost(w)
        PROVE  endpoints' = endpoints
    BY <2>2, Unregistered
  <2>3. ASSUME NEW w \in Wizards, NEW t \in Slugs, NEW p \in Gateways, Submit(w, t, p)
        PROVE  endpoints' = endpoints
    BY <2>3 DEF Submit, remoteVars
  <2>4. ASSUME NEW t \in Slugs, NEW p \in Gateways, CLIAdd(t, p) PROVE endpoints' = endpoints
    BY <2>4 DEF CLIAdd, remoteVars
  <2>5. e \in endpoints'
    BY <2>0, <2>1, <2>2, <2>3, <2>4 DEF Next, vars
  <2> QED BY <1>3, <1>4, <2>0, <2>5
       DEF Wired, InboundWired, EndpointsOf, checkWablastSig, checkCWAuth, InboxSecret
<1> QED BY <1>5, <1>6

\* A tenant that works goes on working through every later attempt, unless its
\* secret is replaced at WaBlast (persistTenant, ConfigureMegaAPIWebhook).
THEOREM WorkingTenantsStay == Spec => WiredStays
<1>1. WiringInv /\ [Next]_vars =>
        [\A s \in Slugs : Wired(s) /\ s \notin contested' => Wired(s)']_vars
  BY StaysWired
<1> QED BY <1>1, WiringHolds, PTL DEF Spec, WiredStays

-----------------------------------------------------------------------------
(* One endpoint                                                            *)

\* Nobody else registers the slug, and only a slug without endpoint gets a new one.
SlugInv(s) ==
  /\ \A e, f \in EndpointsOf(s) : e = f
  /\ \A v, w \in Registering(s) : v = w
  /\ \A w \in Registering(s) : wpc[w] = "create" => EndpointsOf(s) = {}

EndpointInv == \A s \in Slugs : s \notin raced => SlugInv(s)

LEMMA EndpointInit == Init => EndpointInv
BY DEF Init, EndpointInv, SlugInv, EndpointsOf, Registering

LEMMA EndpointKept == TypeOK /\ EndpointInv /\ [Next]_vars => EndpointInv'
<1> SUFFICES ASSUME TypeOK, EndpointInv, [Next]_vars, NEW s \in Slugs, s \notin raced'
             PROVE  SlugInv(s)'
  BY DEF EndpointInv
<1>0. WizardsOK
  BY Parts
<1>1. CASE UNCHANGED vars
  BY <1>1 DEF vars, EndpointInv, SlugInv, EndpointsOf, Registering, Slug
<1>2. ASSUME NEW w \in Wizards, FindEndpoint(w) PROVE SlugInv(s)'
  <2>1. EndpointsOf(s)' = EndpointsOf(s) /\ SlugInv(s)
    BY <1>2 DEF FindEndpoint, EndpointsOf, EndpointInv, remoteVars
  <2>2. CASE Slug(w) = s
    <3>1. Registering(s) = {}
      BY <1>2, <2>2 DEF FindEndpoint
    <3>2. Registering(s)' \subseteq {w} /\ (wpc'[w] = "create" => EndpointsOf(s) = {})
      BY <1>0, <1>2, <2>2, <3>1 DEF FindEndpoint, Registering, Slug, GoTo, WizardsOK
    <3> QED BY <2>1, <3>2 DEF SlugInv
  <2>3. CASE Slug(w) # s
    <3>1. Registering(s)' = Registering(s) /\ \A v \in Registering(s) : wpc'[v] = wpc[v]
      BY <1>0, <1>2, <2>3 DEF FindEndpoint, Registering, Slug, GoTo, WizardsOK
    <3> QED BY <2>1, <3>1 DEF SlugInv
  <2> QED BY <2>2, <2>3
<1>3. ASSUME NEW w \in Wizards, Register(w) \/ RegisterReplyLost(w) PROVE SlugInv(s)'
  <2>0. SlugInv(s) /\ raced' = raced
    BY <1>3 DEF Register, RegisterReplyLost, EndpointInv
  <2>1. /\ Registering(s)' = Registering(s) \ {w}
        /\ \A v \in Registering(s)' : wpc'[v] = wpc[v]
        /\ w \in Registering(Slug(w))
    BY <1>0, <1>3 DEF Register, RegisterReplyLost, Registered, Registering, Slug, GoTo, WizardsOK
  <2>2. Registered(w, issued')
    BY <1>3 DEF Register, RegisterReplyLost
  <2>3. CASE Slug(w) = s
    <3>1. Registering(s)' = {}
      BY <2>0, <2>1, <2>3 DEF SlugInv
    <3>2. \A e, f \in EndpointsOf(s)' : e = f
      BY <2>0, <2>1, <2>2, <2>3 DEF SlugInv, Registered, EndpointsOf
    <3> QED BY <3>1, <3>2 DEF SlugInv
  <2>4. CASE Slug(w) # s
    <3>1. EndpointsOf(s)' = EndpointsOf(s)
      BY <2>2, <2>4 DEF Registered, EndpointsOf
    <3> QED BY <2>0, <2>1, <3>1 DEF SlugInv
  <2> QED BY <2>3, <2>4
<1>4. ASSUME NEW w \in Wizards, Step(w), ~FindEndpoint(w), ~Register(w), ~RegisterReplyLost(w)
      PROVE  SlugInv(s)'
  <2>1. endpoints' = endpoints /\ raced' = raced /\ wspec' = wspec
    BY <1>4 DEF Step, FetchInbox, Insert, Duplicate, StoreInboxSecret, ConfigureGateway,
         ConfigureChatwoot, RequiredCallFails, OptionalCallFails, CutOff, remoteVars, historyVars
  <2>2. wpc'[w] \notin {"create", "rotate"} /\ \A v \in Wizards \ {w} : wpc'[v] = wpc[v]
    BY <1>0, <1>4 DEF Step, FetchInbox, Insert, Duplicate, StoreInboxSecret, ConfigureGateway,
         ConfigureChatwoot, RequiredCallFails, OptionalCallFails, CutOff, GoTo, AfterSecret, WizardsOK
  <2>3. Registering(s)' \subseteq Registering(s) \ {w} /\ EndpointsOf(s)' = EndpointsOf(s)
    BY <2>1, <2>2 DEF Registering, Slug, EndpointsOf
  <2>4. \A v \in Registering(s)' : wpc'[v] = wpc[v]
    BY <2>2, <2>3 DEF Registering
  <2> QED BY <2>1, <2>3, <2>4 DEF EndpointInv, SlugInv
<1>5. ASSUME NEW w \in Wizards, NEW t \in Slugs, NEW p \in Gateways, Submit(w, t, p)
      PROVE  SlugInv(s)'
  <2>1. endpoints' = endpoints /\ raced' = raced
    BY <1>5 DEF Submit, remoteVars, historyVars
  <2>2. /\ wpc'[w] = "inbox"
        /\ \A v \in Wizards \ {w} : wpc'[v] = wpc[v] /\ wspec'[v] = wspec[v]
    BY <1>0, <1>5 DEF Submit, GoTo, WizardsOK
  <2>3. Registering(s)' \subseteq Registering(s) \ {w} /\ EndpointsOf(s)' = EndpointsOf(s)
    BY <2>1, <2>2 DEF Registering, Slug, EndpointsOf
  <2>4. \A v \in Registering(s)' : wpc'[v] = wpc[v]
    BY <2>2, <2>3 DEF Registering
  <2> QED BY <2>1, <2>3, <2>4 DEF EndpointInv, SlugInv
<1>6. ASSUME NEW t \in Slugs, NEW p \in Gateways, CLIAdd(t, p) PROVE SlugInv(s)'
  BY <1>6 DEF CLIAdd, remoteVars, wizardVars, historyVars, EndpointInv, SlugInv, EndpointsOf,
       Registering, Slug
<1> QED BY <1>1, <1>2, <1>3, <1>4, <1>5, <1>6 DEF Next

LEMMA EndpointsAreOne == EndpointInv => OneEndpointUnlessRaced
<1> SUFFICES ASSUME EndpointInv, NEW s \in Slugs \ raced
             PROVE  Cardinality(EndpointsOf(s)) <= 1
  BY DEF OneEndpointUnlessRaced
<1>1. \A e, f \in EndpointsOf(s) : e = f
  BY DEF EndpointInv, SlugInv
<1>2. CASE EndpointsOf(s) = {}
  BY <1>2, FS_EmptySet
<1>3. CASE EndpointsOf(s) # {}
  <2>1. PICK e : EndpointsOf(s) = {e}
    BY <1>1, <1>3
  <2>2. Cardinality({e}) = 1
    BY FS_Singleton
  <2> QED BY <2>1, <2>2
<1> QED BY <1>2, <1>3

\* A slug has one endpoint at WaBlast unless two wizards registered it at once
\* (findWablastEndpoint).
THEOREM OneEndpoint == Spec => []OneEndpointUnlessRaced
BY TenantsInit, TypesKept, EndpointInit, EndpointKept, EndpointsAreOne, PTL DEF Spec
=============================================================================
