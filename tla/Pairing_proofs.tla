--------------------------- MODULE Pairing_proofs ---------------------------
(* Proofs about Pairing, for any number of pages, codes and faults and any *)
(* times to live.                                                          *)
EXTENDS Pairing, TLAPS

Shown == [open : BOOLEAN, status : Statuses, qr : 0..MaxCodes, polling : BOOLEAN, seen : BOOLEAN]

-----------------------------------------------------------------------------
(* Types.  Every action changes one group of the variables.                *)

ClockOK == now \in 0..MaxTime
OperatorOK == cookie \in Tokens /\ baseSet \in BOOLEAN /\ link \in [Pages -> Tokens]
PageOK ==
  /\ page \in [Pages -> Shown]
  /\ statusReplies \in [Pages -> SUBSET Statuses]
  /\ qrReplies \in [Pages -> SUBSET (1..MaxCodes)]
  /\ \A p \in Pages : ~page[p].open => page[p] = Closed /\ statusReplies[p] = {} /\ qrReplies[p] = {}
GatewayOK ==
  /\ code \in 1..MaxCodes /\ events \subseteq 1..newest
  /\ phone \in {0, newest} /\ newest \in 0..(code - 1) /\ row \in 0..newest
  /\ skewed \in BOOLEAN /\ faults \in 0..MaxFaults

LEMMA Parts ==
  /\ TypeOK <=> ClockOK /\ OperatorOK /\ PageOK /\ GatewayOK
  /\ TypeOK' <=> (ClockOK /\ OperatorOK /\ PageOK /\ GatewayOK)'
BY DEF TypeOK, ClockOK, OperatorOK, PageOK, GatewayOK, Shown

pageVars == <<page, statusReplies, qrReplies>>

LEMMA TypeInit == Init => TypeOK
<1> SUFFICES ASSUME Init PROVE ClockOK /\ OperatorOK /\ PageOK /\ GatewayOK
  BY Parts
<1> USE PairingAssumption DEF Init
<1>0. ClockOK /\ 1 \in 1..MaxCodes /\ 0 \in 0..MaxFaults
  BY DEF ClockOK
<1>1. GatewayOK
  <2>1. skewed \in BOOLEAN
    OBVIOUS
  <2>2. code \in 1..MaxCodes /\ newest \in 0..(code - 1) /\ row \in 0..newest /\ events \subseteq 1..newest
    BY <1>0
  <2> QED BY <1>0, <2>1, <2>2 DEF GatewayOK
<1>2. OperatorOK
  <2>1. NoSession \in Tokens
    BY <1>0 DEF Tokens, NoSession
  <2> QED BY <2>1 DEF OperatorOK, NoLink
<1>3. PageOK
  BY DEF PageOK, Shown, Closed, Statuses
<1> QED BY <1>0, <1>1, <1>2, <1>3

LEMMA OperatorTypes == TypeOK /\ (Tick \/ Operator) => TypeOK'
<1> SUFFICES ASSUME ClockOK, OperatorOK, PageOK, GatewayOK, Tick \/ Operator
             PROVE  (ClockOK /\ OperatorOK /\ PageOK /\ GatewayOK)'
  BY Parts
<1> USE PairingAssumption
<1>1. UNCHANGED <<pageVars, gatewayVars, rowVars, faults>>
  BY DEF Tick, Operator, Login, Logout, SaveBaseURL, LoadPanel, pageVars, replyVars
<1>2. PageOK' /\ GatewayOK'
  BY <1>1 DEF PageOK, GatewayOK, pageVars, gatewayVars, rowVars
<1>3. ClockOK'
  BY DEF ClockOK, Tick, Operator, Login, Logout, SaveBaseURL, LoadPanel
<1>4. OperatorOK'
  <2>1. CASE Tick
    BY <2>1 DEF Tick, OperatorOK, operatorVars
  <2>2. CASE Login
    BY <2>2 DEF Login, OperatorOK, ClockOK, Tokens
  <2>3. CASE Logout
    BY <2>3 DEF Logout, OperatorOK, Tokens, NoSession
  <2>4. CASE SaveBaseURL
    BY <2>4 DEF SaveBaseURL, OperatorOK
  <2>5. ASSUME NEW p \in Pages, LoadPanel(p) PROVE OperatorOK'
    <3>1. BuildPairLink \in Tokens
      BY DEF BuildPairLink, Tokens, OperatorOK, ClockOK
    <3> QED BY <2>5, <3>1 DEF LoadPanel, OperatorOK, operatorVars
  <2> QED BY <2>1, <2>2, <2>3, <2>4, <2>5 DEF Operator
<1> QED BY <1>2, <1>3, <1>4

\* A step of page p changes page p alone.
LEMMA PageAlone ==
  ASSUME PageOK, NEW p \in Pages, Page(p)
  PROVE  /\ page' = [page EXCEPT ![p] = page'[p]]
         /\ statusReplies' = [statusReplies EXCEPT ![p] = statusReplies'[p]]
         /\ qrReplies' = [qrReplies EXCEPT ![p] = qrReplies'[p]]
<1>1. CASE OpenPage(p) \/ ClosePage(p)
  BY <1>1 DEF OpenPage, ClosePage, PageOK, replyVars
<1>2. CASE AskStatus(p) \/ AskQR(p) \/ PressLogout(p)
  BY <1>2 DEF AskStatus, AskQR, PressLogout, PageOK
<1>3. CASE ShowStatus(p)
  BY <1>3 DEF ShowStatus, PageOK
<1>4. CASE ShowQR(p)
  BY <1>4 DEF ShowQR, PageOK
<1> QED BY <1>1, <1>2, <1>3, <1>4 DEF Page

\* And leaves it in a state a page may be in.
PageFits(p) ==
  /\ page[p] \in Shown /\ statusReplies[p] \subseteq Statuses /\ qrReplies[p] \subseteq 1..MaxCodes
  /\ ~page[p].open => page[p] = Closed /\ statusReplies[p] = {} /\ qrReplies[p] = {}

LEMMA PageFitsNext ==
  ASSUME PageOK, GatewayOK, NEW p \in Pages, Page(p) PROVE PageFits(p)'
<1> USE PairingAssumption
<1>0. PageFits(p)
  BY DEF PageOK, PageFits
<1>1. Closed \in Shown /\ ~Closed.open /\ ~Closed.polling
  BY DEF Closed, Shown, Statuses
<1>2. CASE OpenPage(p)
  <2>1. (phone # 0) \in BOOLEAN
    OBVIOUS
  <2>2. Opened \in Shown /\ Opened.open
    BY <1>1, <2>1 DEF Opened, Closed, Shown
  <2>3. page'[p] = Opened /\ UNCHANGED replyVars
    BY <1>2 DEF OpenPage, PageOK
  <2> QED BY <1>0, <2>2, <2>3 DEF PageFits, replyVars
<1>3. CASE ClosePage(p)
  BY <1>1, <1>3 DEF ClosePage, PageFits, PageOK
<1>4. CASE AskStatus(p)
  <2>1. page'[p] = page[p] /\ qrReplies'[p] = qrReplies[p] /\ page[p].open
    BY <1>0, <1>1, <1>4 DEF AskStatus, PageFits
  <2>2. statusReplies'[p] = statusReplies[p] \union {InstanceStatus}
    BY <1>4 DEF AskStatus, PageOK
  <2> QED BY <1>0, <2>1, <2>2 DEF PageFits, InstanceStatus, Statuses
<1>5. CASE AskQR(p)
  <2>1. page'[p] = page[p] /\ statusReplies'[p] = statusReplies[p] /\ page[p].open
    BY <1>0, <1>1, <1>5 DEF AskQR, PageFits
  <2>2. qrReplies'[p] = qrReplies[p] \union {code}
    BY <1>5 DEF AskQR, PageOK
  <2> QED BY <1>0, <2>1, <2>2 DEF PageFits, GatewayOK
<1>6. CASE ShowStatus(p)
  <2>1. PICK a \in statusReplies[p] :
          /\ statusReplies'[p] = statusReplies[p] \ {a} /\ qrReplies'[p] = qrReplies[p]
          /\ page'[p] = [page[p] EXCEPT !.status = a, !.polling = @ /\ a # "connected"]
    BY <1>6 DEF ShowStatus, PageOK, Shown
  <2>2. page[p].open /\ a \in Statuses
    BY <1>0, <2>1 DEF PageFits
  <2>3. page'[p] \in Shown /\ page'[p].open
    BY <1>0, <2>1, <2>2 DEF PageFits, Shown
  <2> QED BY <1>0, <2>1, <2>3 DEF PageFits
<1>7. CASE ShowQR(p)
  <2>1. PICK q \in qrReplies[p] :
          /\ qrReplies'[p] = qrReplies[p] \ {q} /\ statusReplies'[p] = statusReplies[p]
          /\ page'[p] = [page[p] EXCEPT !.qr = q]
    BY <1>7 DEF ShowQR, PageOK, Shown
  <2>2. page[p].open /\ q \in 0..MaxCodes
    BY <1>0, <2>1 DEF PageFits
  <2>3. page'[p] \in Shown /\ page'[p].open
    BY <1>0, <2>1, <2>2 DEF PageFits, Shown
  <2> QED BY <1>0, <2>1, <2>3 DEF PageFits
<1>8. CASE PressLogout(p)
  <2>1. page'[p] = page[p] /\ qrReplies'[p] = qrReplies[p] /\ page[p].open
    BY <1>8 DEF PressLogout
  <2>2. statusReplies'[p] \subseteq statusReplies[p] \union {"other"}
    BY <1>8 DEF PressLogout, PageOK
  <2> QED BY <1>0, <2>1, <2>2 DEF PageFits, Statuses
<1> QED BY <1>2, <1>3, <1>4, <1>5, <1>6, <1>7, <1>8 DEF Page

LEMMA PageTypes == TypeOK /\ (\E p \in Pages : Page(p)) => TypeOK'
<1> SUFFICES ASSUME ClockOK, OperatorOK, PageOK, GatewayOK, NEW p \in Pages, Page(p)
             PROVE  (ClockOK /\ OperatorOK /\ PageOK /\ GatewayOK)'
  BY Parts
<1>1. UNCHANGED <<now, operatorVars, link, code, events, newest, rowVars>>
  BY DEF Page, OpenPage, ClosePage, AskStatus, AskQR, ShowStatus, ShowQR, PressLogout, gatewayVars
<1>2. ClockOK' /\ OperatorOK'
  BY <1>1 DEF ClockOK, OperatorOK, operatorVars
<1>3. GatewayOK'
  <2>1. phone' \in {0, phone}
    BY DEF Page, OpenPage, ClosePage, AskStatus, AskQR, ShowStatus, ShowQR, PressLogout, gatewayVars
  <2>2. faults' = faults \/ Fault
    BY DEF Page, OpenPage, ClosePage, AskStatus, AskQR, ShowStatus, ShowQR, PressLogout
  <2>3. faults' \in 0..MaxFaults
    BY <2>2, PairingAssumption DEF Fault, GatewayOK
  <2> QED BY <1>1, <2>1, <2>3 DEF GatewayOK, rowVars
<1>4. PageOK'
  <2>1. PageFits(p)'
    BY PageFitsNext
  <2>2. \A q \in Pages \ {p} : page'[q] = page[q] /\ statusReplies'[q] = statusReplies[q]
                              /\ qrReplies'[q] = qrReplies[q]
    BY PageAlone DEF PageOK
  <2>3. \A q \in Pages : PageFits(q)'
    BY <2>1, <2>2 DEF PageFits, PageOK
  <2>4. /\ page' = [q \in Pages |-> page'[q]] /\ statusReplies' = [q \in Pages |-> statusReplies'[q]]
        /\ qrReplies' = [q \in Pages |-> qrReplies'[q]]
    BY PageAlone DEF PageOK
  <2> QED BY <2>3, <2>4 DEF PageFits, PageOK
<1> QED BY <1>2, <1>3, <1>4

LEMMA ConnectTypes == TypeOK /\ Connect => TypeOK'
<1> SUFFICES ASSUME ClockOK, OperatorOK, PageOK, GatewayOK, Connect
             PROVE  (ClockOK /\ OperatorOK /\ PageOK /\ GatewayOK)'
  BY Parts
<1> USE PairingAssumption DEF Connect
<1>1. ClockOK' /\ OperatorOK'
  BY DEF ClockOK, OperatorOK, operatorVars
<1>2. GatewayOK'
  BY DEF GatewayOK, rowVars
<1>3. PageOK'
  BY DEF PageOK, Shown, Closed, replyVars
<1> QED BY <1>1, <1>2, <1>3

LEMMA GatewayTypes == TypeOK /\ Gateway => TypeOK'
<1> SUFFICES ASSUME TypeOK, Gateway PROVE TypeOK'
  OBVIOUS
<1> USE PairingAssumption
<1>1. ASSUME Unlink \/ NewCode \/ \E e \in events : Deliver(e) \/ Lose(e) PROVE TypeOK'
  <2>1. ClockOK' /\ OperatorOK' /\ PageOK'
    BY <1>1, Parts DEF ClockOK, OperatorOK, PageOK, Unlink, NewCode, Deliver, Lose, operatorVars,
                       replyVars
  <2>2. CASE Unlink \/ NewCode
    <3>1. GatewayOK
      BY Parts
    <3>2. UNCHANGED <<events, newest, row, skewed, faults>> /\ phone' \in {0, phone}
      BY <2>2 DEF Unlink, NewCode, rowVars
    <3>3. code' \in 1..MaxCodes /\ newest \in 0..(code' - 1)
      BY <2>2, <3>1 DEF GatewayOK, Unlink, NewCode
    <3> QED BY <2>1, <3>1, <3>2, <3>3, Parts DEF GatewayOK
  <2>3. ASSUME NEW e \in events, Deliver(e) \/ Lose(e) PROVE GatewayOK'
    <3>1. GatewayOK
      BY Parts
    <3>2. faults' \in 0..MaxFaults
      BY <2>3, <3>1 DEF GatewayOK, Deliver, Lose, Fault
    <3>3. events' \subseteq 1..newest /\ row' \in 0..newest
      <4>1. events' \subseteq events /\ row' \in {row, e}
        BY <2>3 DEF Deliver, Lose, UpdateTenantPairing
      <4>2. events \subseteq 1..newest /\ newest \in Nat /\ row \in 0..newest
        BY <3>1 DEF GatewayOK
      <4>3. e \in 0..newest
        BY <4>2
      <4> QED BY <4>1, <4>2, <4>3
    <3>4. skewed' \in BOOLEAN
      <4>1. CASE Deliver(e)
        <5>1. skewed' = (e # newest /\ (skewed \/ Late(e)))
          BY <4>1 DEF Deliver
        <5> QED BY <5>1
      <4>2. CASE Lose(e)
        <5>1. skewed' = (skewed \/ e = newest)
          BY <4>2 DEF Lose
        <5> QED BY <5>1
      <4> QED BY <2>3, <4>1, <4>2
    <3> QED BY <2>3, <3>1, <3>2, <3>3, <3>4 DEF GatewayOK, Deliver, Lose
  <2> QED BY <1>1, <2>1, <2>2, <2>3, Parts
<1>2. ASSUME NEW p \in Pages, ScanQR(p) \/ EnterCode(p) PROVE TypeOK'
  BY <1>2, ConnectTypes DEF ScanQR, EnterCode
<1> QED BY <1>1, <1>2 DEF Gateway

LEMMA TypeNext == TypeOK /\ [Next]_vars => TypeOK'
<1>1. TypeOK /\ UNCHANGED vars => TypeOK'
  BY DEF vars, TypeOK
<1> QED BY <1>1, OperatorTypes, PageTypes, GatewayTypes DEF Next

\* A closed page has no answers coming, and every number in the row or on its
\* way has been connected (pair.html, UpdateTenantPairing).
THEOREM PairingTypes == Spec => []TypeOK
BY TypeInit, TypeNext, PTL DEF Spec

-----------------------------------------------------------------------------
(* The row.                                                                *)

\* The newest webhook is still to come, or the row has it, or there is an excuse.
RowInv == newest \notin events /\ ~skewed => row = newest

LEMMA RowNext == TypeOK /\ RowInv /\ [Next]_vars => RowInv'
<1> SUFFICES ASSUME TypeOK, RowInv, [Next]_vars PROVE RowInv'
  OBVIOUS
<1>1. CASE UNCHANGED <<events, newest, rowVars>>
  BY <1>1 DEF RowInv, rowVars
<1>2. CASE Connect
  BY <1>2 DEF RowInv, Connect
<1>3. ASSUME NEW e \in events, Deliver(e) PROVE RowInv'
  BY <1>3 DEF RowInv, Deliver, UpdateTenantPairing, Late
<1>4. ASSUME NEW e \in events, Lose(e) PROVE RowInv'
  BY <1>4 DEF RowInv, Lose
<1>5. Tick \/ Operator \/ (\E p \in Pages : Page(p)) \/ Unlink \/ NewCode \/ UNCHANGED vars
        => UNCHANGED <<events, newest, rowVars>>
  BY DEF Tick, Operator, Login, Logout, SaveBaseURL, LoadPanel, Page, OpenPage, ClosePage,
         AskStatus, AskQR, ShowStatus, ShowQR, PressLogout, Unlink, NewCode, vars, gatewayVars,
         rowVars
<1> QED BY <1>1, <1>2, <1>3, <1>4, <1>5 DEF Next, Gateway, ScanQR, EnterCode

\* Whatever webhooks are lost, repeated or reordered, the panel's number is the
\* connected one but for the causes of PanelErrsForCause (handleWAWebhook,
\* UpdateTenantPairing).
THEOREM PanelIsExplained == Spec => []PanelErrsForCause
<1>1. Init => RowInv
  BY DEF Init, RowInv
<1>2. TypeOK /\ RowInv => PanelErrsForCause
  BY DEF TypeOK, RowInv, PanelErrsForCause
<1> QED BY <1>1, <1>2, RowNext, PairingTypes, PTL DEF Spec

-----------------------------------------------------------------------------
(* What a page says.                                                       *)

\* What is on its way to a page has been true since the page was opened.
SeenInv ==
  \A p \in Pages :
    /\ page[p].status = "connected" => page[p].seen
    /\ "connected" \in statusReplies[p] => page[p].seen
    /\ page[p].open /\ phone # 0 => page[p].seen

LEMMA SeenPage ==
  ASSUME TypeOK, SeenInv, NEW p \in Pages, Page(p) PROVE SeenInv'
<1> USE DEF SeenInv
<1>0. PageOK
  BY Parts
<1>1. /\ \A q \in Pages \ {p} : page'[q] = page[q] /\ statusReplies'[q] = statusReplies[q]
      /\ phone' \in {0, phone}
  BY <1>0 DEF Page, OpenPage, ClosePage, AskStatus, AskQR, ShowStatus, ShowQR, PressLogout, PageOK,
            replyVars, gatewayVars
<1>2. /\ page'[p].status = "connected" => page'[p].seen
      /\ "connected" \in statusReplies'[p] => page'[p].seen
      /\ page'[p].open /\ phone' # 0 => page'[p].seen
  <2>1. CASE OpenPage(p)
    BY <1>0, <2>1 DEF OpenPage, PageOK, Opened, Closed, replyVars, gatewayVars
  <2>2. CASE ClosePage(p)
    BY <1>0, <2>2 DEF ClosePage, PageOK, Closed
  <2>3. CASE AskStatus(p)
    <3>1. page[p].open
      BY <1>0, <2>3 DEF AskStatus, PageOK, Closed
    <3> QED BY <1>0, <2>3, <3>1 DEF AskStatus, PageOK, InstanceStatus, gatewayVars
  <2>4. CASE AskQR(p)
    BY <1>0, <2>4 DEF AskQR, gatewayVars
  <2>5. CASE ShowStatus(p)
    BY <1>0, <2>5 DEF ShowStatus, PageOK, Shown, gatewayVars
  <2>6. CASE ShowQR(p)
    BY <1>0, <2>6 DEF ShowQR, PageOK, Shown, gatewayVars
  <2>7. CASE PressLogout(p)
    BY <1>0, <2>7 DEF PressLogout, PageOK
  <2> QED BY <2>1, <2>2, <2>3, <2>4, <2>5, <2>6, <2>7 DEF Page
<1> QED BY <1>1, <1>2

LEMMA SeenNext == TypeOK /\ SeenInv /\ [Next]_vars => SeenInv'
<1> SUFFICES ASSUME TypeOK, SeenInv, [Next]_vars PROVE SeenInv'
  OBVIOUS
<1>1. CASE UNCHANGED <<page, statusReplies>> /\ phone' \in {0, phone}
  BY <1>1 DEF SeenInv
<1>2. CASE Connect
  <2>1. PageOK
    BY Parts
  <2> QED BY <1>2, <2>1 DEF SeenInv, Connect, PageOK, Shown, Closed, replyVars
<1>3. ASSUME NEW p \in Pages, Page(p) PROVE SeenInv'
  BY <1>3, SeenPage
<1>4. Tick \/ Operator \/ Unlink \/ NewCode \/ (\E e \in events : Deliver(e) \/ Lose(e))
        \/ UNCHANGED vars
        => UNCHANGED <<page, statusReplies>> /\ phone' \in {0, phone}
  BY DEF Tick, Operator, Login, Logout, SaveBaseURL, LoadPanel, Unlink, NewCode, Deliver, Lose,
         vars, gatewayVars, replyVars
<1> QED BY <1>1, <1>2, <1>3, <1>4 DEF Next, Gateway, ScanQR, EnterCode

\* A page says connected only for a connection of its own life (refreshStatus).
THEOREM PageSawIt == Spec => []ConnectedWasSeen
<1>1. Init => SeenInv
  BY DEF Init, SeenInv, Closed
<1>2. SeenInv => ConnectedWasSeen
  BY DEF SeenInv, ConnectedWasSeen
<1> QED BY <1>1, <1>2, SeenNext, PairingTypes, PTL DEF Spec

-----------------------------------------------------------------------------
(* How long a login lasts.                                                 *)

\* No token outlives the session it comes from by more than its own time.
ExpiryInv ==
  /\ cookie.exp <= cookie.login + SessionTTL
  /\ \A p \in Pages : link[p].exp <= link[p].login + SessionTTL + LinkTTL

LEMMA ExpiryNext == TypeOK /\ ExpiryInv /\ [Next]_vars => ExpiryInv'
<1> SUFFICES ASSUME OperatorOK, ClockOK, ExpiryInv, [Next]_vars PROVE ExpiryInv'
  BY Parts
<1> USE PairingAssumption DEF ExpiryInv
<1>1. CASE UNCHANGED <<cookie, link>>
  BY <1>1
<1>2. CASE Login
  BY <1>2 DEF Login, ClockOK
<1>3. CASE Logout
  BY <1>3 DEF Logout, NoSession
<1>4. ASSUME NEW p \in Pages, LoadPanel(p) PROVE ExpiryInv'
  <2>1. BuildPairLink.exp <= BuildPairLink.login + SessionTTL + LinkTTL
    BY <1>4 DEF LoadPanel, BuildPairLink, ParseSession, OperatorOK, ClockOK, Tokens
  <2> QED BY <1>4, <2>1 DEF LoadPanel, operatorVars, OperatorOK
<1>5. Tick \/ SaveBaseURL \/ (\E p \in Pages : Page(p)) \/ Gateway \/ UNCHANGED vars
        => UNCHANGED <<cookie, link>>
  BY DEF Tick, SaveBaseURL, Page, OpenPage, ClosePage, AskStatus, AskQR, ShowStatus, ShowQR,
         PressLogout, Gateway, ScanQR, EnterCode, Connect, Unlink, NewCode, Deliver, Lose, vars,
         operatorVars
<1> QED BY <1>1, <1>2, <1>3, <1>4, <1>5 DEF Next, Operator

\* Every request is let in with a link that is valid.
LEMMA AnsweredLive ==
  ASSUME PageOK, [Next]_vars, NEW p \in Pages, Answered(p) PROVE now <= link[p].exp
<1>1. CASE UNCHANGED pageVars
  BY <1>1 DEF Answered, pageVars
<1>2. CASE Connect
  BY <1>2 DEF Connect, Answered, PageOK, Shown, replyVars
<1>3. ASSUME NEW q \in Pages, Page(q) PROVE now <= link[p].exp
  <2>1. p = q
    BY <1>3 DEF Answered, Page, OpenPage, ClosePage, AskStatus, AskQR, ShowStatus, ShowQR,
                PressLogout, PageOK, replyVars
  <2>2. ~ClosePage(p) /\ ~ShowStatus(p) /\ ~ShowQR(p)
    <3>1. ~ClosePage(p)
      BY DEF Answered, ClosePage, PageOK, Closed
    <3>2. ~ShowStatus(p)
      <4>1. ASSUME ShowStatus(p) PROVE FALSE
        <5>1. statusReplies'[p] \subseteq statusReplies[p] /\ qrReplies'[p] = qrReplies[p]
          BY <4>1 DEF ShowStatus, PageOK
        <5>2. page'[p].open = page[p].open
          BY <4>1 DEF ShowStatus, PageOK, Shown
        <5> QED BY <5>1, <5>2 DEF Answered
      <4> QED BY <4>1
    <3>3. ~ShowQR(p)
      BY DEF Answered, ShowQR, PageOK, Shown
    <3> QED BY <3>1, <3>2, <3>3
  <2> QED BY <1>3, <2>1, <2>2
       DEF Page, OpenPage, AskStatus, AskQR, PressLogout, VerifyPairToken
<1>4. Tick \/ Operator \/ Unlink \/ NewCode \/ (\E e \in events : Deliver(e) \/ Lose(e))
        \/ UNCHANGED vars
        => UNCHANGED pageVars
  BY DEF Tick, Operator, Login, Logout, SaveBaseURL, LoadPanel, Unlink, NewCode, Deliver, Lose,
         vars, pageVars, replyVars
<1> QED BY <1>1, <1>2, <1>3, <1>4 DEF Next, Gateway, ScanQR, EnterCode

\* No request is let in later than a session and a link after the login it
\* comes from (ParseSession, BuildPairLink, VerifyPairToken).
THEOREM DelegationIsBounded == Spec => DelegationEnds
<1>1. TypeOK /\ ExpiryInv /\ [Next]_vars
        => [\A p \in Pages : Answered(p) => now <= link[p].login + SessionTTL + LinkTTL]_vars
  <2> SUFFICES ASSUME OperatorOK, ClockOK, PageOK, ExpiryInv, [Next]_vars,
                      NEW p \in Pages, Answered(p)
               PROVE  now <= link[p].login + SessionTTL + LinkTTL
    BY Parts
  <2>1. now <= link[p].exp
    BY AnsweredLive
  <2> QED BY <2>1, PairingAssumption DEF ExpiryInv, OperatorOK, ClockOK, Tokens
<1>2. Init => ExpiryInv
  BY PairingAssumption DEF Init, ExpiryInv, NoSession, NoLink
<1> QED BY <1>1, <1>2, ExpiryNext, PairingTypes, PTL DEF Spec, DelegationEnds

=============================================================================
