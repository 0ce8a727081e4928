------------------------------ MODULE Pairing -------------------------------
(***************************************************************************)
(* Pairing the WhatsApp number of one megaAPI tenant.  An operator with a  *)
(* session copies a pair link from the panel; whoever holds the link opens *)
(* a page that asks the bridge every three seconds for the QR code and the *)
(* status, which the bridge asks of megaAPI; megaAPI tells the bridge of a *)
(* connection by a webhook, which the bridge keeps in the tenant's row.    *)
(* Every connection is of another WhatsApp number, named by the QR code    *)
(* that was valid when it was made; 0 is no number.                        *)
(*                                                                         *)
(* Sessions and links are signed expiry times and the bridge keeps neither *)
(* of them: a restart of the bridge changes nothing here, and a request    *)
(* that fails on the way, at the database or at megaAPI leaves everything  *)
(* as it is (401, 404, 500 or 502, on which the page returns at once).     *)
(***************************************************************************)
EXTENDS Integers, FiniteSets

CONSTANTS
  Pages,      \* holders of a link and the page each has open
  SessionTTL, LinkTTL,
  MaxTime,    \* bound: the clock
  MaxCodes,   \* bound: QR codes megaAPI makes
  MaxFaults   \* bound: webhooks lost or repeated, replies to a logout lost

ASSUME PairingAssumption ==
  /\ SessionTTL \in Nat /\ LinkTTL \in Nat
  /\ MaxTime \in Nat /\ MaxCodes \in Nat \ {0} /\ MaxFaults \in Nat

VARIABLES
  now,
  cookie,     \* the operator's session: when it began and when it expires
  baseSet,    \* settings: base_url has been saved
  link,       \* the link each holder was sent: the session it was made in and when it expires
  page,       \* what the browser of each holder shows, and whether its interval runs
  statusReplies, qrReplies,   \* answers of the bridge on their way to each page
  phone,      \* megaAPI: the number connected to the instance
  code,       \* megaAPI: the QR code it shows now, by number
  events,     \* megaAPI: connection_update webhooks not delivered yet
  row,        \* tenants: last_jid; paired_at is set exactly when this is a number
  newest,     \* history: the number connected last
  skewed,     \* history: the newest connection was lost, or an older one delivered after it
  faults      \* counter of the bound

gatewayVars == <<phone, code, events, newest>>
operatorVars == <<cookie, baseSet>>
replyVars == <<statusReplies, qrReplies>>
rowVars == <<row, skewed>>
vars == <<now, cookie, baseSet, link, page, statusReplies, qrReplies, phone, code, events, row,
          newest, skewed, faults>>

\* The page says connected or something else ("desconhecido" at first, what
\* megaAPI calls it, "desconectado" after a logout).
Statuses == {"connected", "other"}

\* A cleared cookie and a link nobody sent are as good as expired.
NoSession == [login |-> 0, exp |-> -1]
NoLink == NoSession
Tokens == [login : 0..MaxTime, exp : -1..(MaxTime + SessionTTL + LinkTTL)]

\* seen: history, the instance was connected at some time since the page was opened
Closed == [open |-> FALSE, status |-> "other", qr |-> 0, polling |-> FALSE, seen |-> FALSE]
Opened == [Closed EXCEPT !.open = TRUE, !.polling = TRUE, !.seen = (phone # 0)]

Init ==
  /\ now = 0
  /\ cookie = NoSession
  /\ baseSet = FALSE
  /\ link = [p \in Pages |-> NoLink]
  /\ page = [p \in Pages |-> Closed]
  /\ statusReplies = [p \in Pages |-> {}]
  /\ qrReplies = [p \in Pages |-> {}]
  /\ phone = 0
  /\ code = 1
  /\ events = {}
  /\ row = 0
  /\ newest = 0
  /\ skewed = FALSE
  /\ faults = 0

Fault == faults < MaxFaults /\ faults' = faults + 1

Tick ==
  /\ now < MaxTime
  /\ now' = now + 1
  /\ UNCHANGED <<operatorVars, link, page, replyVars, gatewayVars, rowVars, faults>>

-----------------------------------------------------------------------------
(* The operator                                                            *)

ParseSession(c) == now <= c.exp

\* handleLoginSubmit with the right password: a cookie that replaces the one before.
Login ==
  /\ cookie' = [login |-> now, exp |-> now + SessionTTL]
  /\ UNCHANGED <<now, baseSet, link, page, replyVars, gatewayVars, rowVars, faults>>

\* handleLogout clears the cookie of this browser, and that is all there is.
Logout ==
  /\ cookie' = NoSession
  /\ UNCHANGED <<now, baseSet, link, page, replyVars, gatewayVars, rowVars, faults>>

SaveBaseURL ==
  /\ ParseSession(cookie)
  /\ baseSet' = TRUE
  /\ UNCHANGED <<now, cookie, link, page, replyVars, gatewayVars, rowVars, faults>>

BuildPairLink == [login |-> cookie.login, exp |-> now + LinkTTL]

\* The panel shows a fresh link whenever it is loaded; the operator sends it.
LoadPanel(p) ==
  /\ ParseSession(cookie) /\ baseSet
  /\ ~page[p].open
  /\ link' = [link EXCEPT ![p] = BuildPairLink]
  /\ UNCHANGED <<now, operatorVars, page, replyVars, gatewayVars, rowVars, faults>>

-----------------------------------------------------------------------------
(* The page, and the handlers behind it                                    *)

\* Mutant: the signature is checked and the time is not.
VerifySignature(l) == l # NoLink
VerifyPairToken(l) == now <= l.exp

\* handlePairLanding, then init() of the page.
OpenPage(p) ==
  /\ ~page[p].open
  /\ VerifyPairToken(link[p])
  /\ page' = [page EXCEPT ![p] = Opened]
  /\ UNCHANGED <<now, operatorVars, link, replyVars, gatewayVars, rowVars, faults>>

\* Mutant: an answer finds the page that was opened next.
ClosePageOnly(p) ==
  /\ page[p].open
  /\ page' = [page EXCEPT ![p] = Closed]
  /\ UNCHANGED <<now, operatorVars, link, replyVars, gatewayVars, rowVars, faults>>

\* What is on its way to the page is dropped with it.
ClosePage(p) ==
  /\ page[p].open
  /\ page' = [page EXCEPT ![p] = Closed]
  /\ statusReplies' = [statusReplies EXCEPT ![p] = {}]
  /\ qrReplies' = [qrReplies EXCEPT ![p] = {}]
  /\ UNCHANGED <<now, operatorVars, link, gatewayVars, rowVars, faults>>

\* Mutant: the status is told from the tenant's row.
StatusOfRow == IF row = 0 THEN "other" ELSE "connected"
InstanceStatus == IF phone = 0 THEN "other" ELSE "connected"

\* One turn of the interval reaches megaAPI: handlePairStatus.  The link is checked
\* when the request comes; megaAPI may take another 15 seconds, as the page may to
\* show the answer.
AskStatus(p) ==
  /\ page[p].polling /\ VerifyPairToken(link[p])
  /\ statusReplies' = [statusReplies EXCEPT ![p] = @ \union {InstanceStatus}]
  /\ UNCHANGED <<now, operatorVars, link, page, qrReplies, gatewayVars, rowVars, faults>>

\* handlePairQR; a connected instance has no QR code to show.
AskQR(p) ==
  /\ page[p].polling /\ VerifyPairToken(link[p])
  /\ phone = 0
  /\ qrReplies' = [qrReplies EXCEPT ![p] = @ \union {code}]
  /\ UNCHANGED <<now, operatorVars, link, page, statusReplies, gatewayVars, rowVars, faults>>

\* refreshStatus gets an answer, in whatever order the answers come.
ShowStatus(p) ==
  \E s \in statusReplies[p] :
    /\ statusReplies' = [statusReplies EXCEPT ![p] = @ \ {s}]
    /\ page' = [page EXCEPT ![p].status = s,
                            ![p].polling = @ /\ s # "connected"]
    /\ UNCHANGED <<now, operatorVars, link, qrReplies, gatewayVars, rowVars, faults>>

\* Mutant: a code that is shown is not replaced.
ShowFirstQR(p) ==
  \E q \in qrReplies[p] :
    /\ qrReplies' = [qrReplies EXCEPT ![p] = @ \ {q}]
    /\ page' = [page EXCEPT ![p].qr = IF @ = 0 THEN q ELSE @]
    /\ UNCHANGED <<now, operatorVars, link, statusReplies, gatewayVars, rowVars, faults>>

\* Mutant: the interval ends once there is a code to scan.
ShowQRAndStop(p) ==
  \E q \in qrReplies[p] :
    /\ qrReplies' = [qrReplies EXCEPT ![p] = @ \ {q}]
    /\ page' = [page EXCEPT ![p].qr = q, ![p].polling = FALSE]
    /\ UNCHANGED <<now, operatorVars, link, statusReplies, gatewayVars, rowVars, faults>>

\* refreshQR gets an answer.
ShowQR(p) ==
  \E q \in qrReplies[p] :
    /\ qrReplies' = [qrReplies EXCEPT ![p] = @ \ {q}]
    /\ page' = [page EXCEPT ![p].qr = q]
    /\ UNCHANGED <<now, operatorVars, link, statusReplies, gatewayVars, rowVars, faults>>

\* Desconectar: handlePairLogout, LogoutInstance.  The answer sets the status
\* like one of refreshStatus, and the interval stays as it was.
PressLogout(p) ==
  /\ page[p].open /\ VerifyPairToken(link[p])
  /\ phone' = 0
  /\ \/ /\ statusReplies' = [statusReplies EXCEPT ![p] = @ \union {"other"}]
        /\ UNCHANGED faults
     \/ Fault /\ UNCHANGED statusReplies
  /\ UNCHANGED <<now, operatorVars, link, page, qrReplies, code, events, newest, rowVars>>

-----------------------------------------------------------------------------
(* megaAPI and the phones                                                  *)

\* The code that was used is used up; every page open now may see the connection.
Connect ==
  /\ phone = 0 /\ code < MaxCodes
  /\ phone' = code /\ newest' = code
  /\ events' = events \union {code}
  /\ code' = code + 1
  /\ page' = [p \in Pages |-> IF page[p].open THEN [page[p] EXCEPT !.seen = TRUE] ELSE page[p]]
  /\ UNCHANGED <<now, operatorVars, link, replyVars, rowVars, faults>>

\* A phone reads the code off a page, whose link may have expired meanwhile.
ScanQR(p) == page[p].open /\ page[p].qr = code /\ Connect

\* reqCode: handlePairCode, and the number is typed into the phone.
EnterCode(p) == page[p].open /\ VerifyPairToken(link[p]) /\ Connect

\* The phone removes the device.  The webhook of it is no connection to the
\* bridge and no message either: 400, and nothing is stored.
Unlink ==
  /\ phone # 0
  /\ phone' = 0
  /\ UNCHANGED <<now, operatorVars, link, page, replyVars, code, events, newest, rowVars,
                 faults>>

\* QR codes are good for less than a minute.
NewCode ==
  /\ phone = 0 /\ code < MaxCodes
  /\ code' = code + 1
  /\ UNCHANGED <<now, operatorVars, link, page, replyVars, phone, events, newest, rowVars,
                 faults>>

-----------------------------------------------------------------------------
(* The webhook                                                             *)

\* The newest connection has been dealt with, and e is not it.
Late(e) == e # newest /\ newest \notin events

\* Mutant: the first number stays.
UpdateTenantPairingOnce(jid) == row' = IF row = 0 THEN jid ELSE row
UpdateTenantPairing(jid) == row' = jid

\* handleWAWebhook of a connection_update, in any order, and perhaps again.
Deliver(e) ==
  /\ e \in events
  /\ UpdateTenantPairing(e)
  /\ \/ events' = events \ {e} /\ UNCHANGED faults
     \/ Fault /\ UNCHANGED events
  /\ skewed' = (e # newest /\ (skewed \/ Late(e)))
  /\ UNCHANGED <<now, operatorVars, link, page, replyVars, phone, code, newest>>

\* megaAPI gives up on a webhook.
Lose(e) ==
  /\ e \in events /\ Fault
  /\ events' = events \ {e}
  /\ skewed' = (skewed \/ e = newest)
  /\ UNCHANGED <<now, operatorVars, link, page, replyVars, phone, code, newest, row>>

-----------------------------------------------------------------------------

Operator == Login \/ Logout \/ SaveBaseURL \/ \E p \in Pages : LoadPanel(p)

Page(p) ==
  \/ OpenPage(p) \/ ClosePage(p) \/ AskStatus(p) \/ AskQR(p)
  \/ ShowStatus(p) \/ ShowQR(p) \/ PressLogout(p)

Gateway ==
  \/ \E p \in Pages : ScanQR(p) \/ EnterCode(p)
  \/ Unlink \/ NewCode
  \/ \E e \in events : Deliver(e) \/ Lose(e)

Next == Tick \/ Operator \/ (\E p \in Pages : Page(p)) \/ Gateway

\* The interval goes on, each of its calls succeeds sooner or later (every
\* client of the bridge has a timeout), and the browser gets the answers.
Fairness ==
  \A p \in Pages :
    WF_vars(AskStatus(p)) /\ WF_vars(AskQR(p)) /\ WF_vars(ShowStatus(p)) /\ WF_vars(ShowQR(p))

Spec == Init /\ [][Next]_vars
FairSpec == Spec /\ Fairness

-----------------------------------------------------------------------------
(* Properties                                                              *)

\* Every variable has its type; a closed page polls nothing and has no answers
\* coming.
TypeOK ==
  /\ now \in 0..MaxTime
  /\ cookie \in Tokens /\ baseSet \in BOOLEAN /\ link \in [Pages -> Tokens]
  /\ page \in [Pages -> [open : BOOLEAN, status : Statuses, qr : 0..MaxCodes,
                         polling : BOOLEAN, seen : BOOLEAN]]
  /\ statusReplies \in [Pages -> SUBSET Statuses]
  /\ qrReplies \in [Pages -> SUBSET (1..MaxCodes)]
  /\ \A p \in Pages : ~page[p].open => page[p] = Closed /\ statusReplies[p] = {} /\ qrReplies[p] = {}
  /\ code \in 1..MaxCodes /\ events \subseteq 1..newest
  /\ phone \in {0, newest} /\ newest \in 0..(code - 1) /\ row \in 0..newest
  /\ skewed \in BOOLEAN /\ faults \in 0..MaxFaults

\* The bridge has just let in a request of page p, whose answer is on its way.
Answered(p) ==
  \/ page'[p].open /\ ~page[p].open
  \/ ~(statusReplies'[p] \subseteq statusReplies[p]) \/ ~(qrReplies'[p] \subseteq qrReplies[p])

\* What one login can set in motion comes to an end: links cannot be withdrawn,
\* by a logout of the operator neither, but no request made with one is let
\* in later than a session and a link after the login it comes from.
DelegationEnds ==
  [][\A p \in Pages : Answered(p) => now <= link[p].login + SessionTTL + LinkTTL]_vars

\* All the causes for which the panel badges another number than the one that is
\* connected, or a number where none is: the webhook of the newest connection is
\* still to come, it was lost or an older one came after it, or the row is right
\* about the newest connection and that one has ended, of which nothing tells the
\* bridge.
PanelErrsForCause ==
  row # phone => \/ newest \in events \/ skewed
                 \/ phone = 0 /\ row = newest

\* A page does not say connected to somebody who has never been connected while
\* it was open: not for what the row remembers, nor for an older page.
ConnectedWasSeen == \A p \in Pages : page[p].status = "connected" => page[p].seen

Live(p) == page[p].open /\ VerifyPairToken(link[p])

\* The holder of the link who connects a phone gets to see it.
ConnectionShows ==
  \A p \in Pages :
    (Live(p) /\ page[p].polling /\ phone # 0)
      ~> (page[p].status = "connected" \/ phone = 0 \/ ~Live(p))

\* A page that still polls comes to show the QR code that can be scanned, again
\* and again, although answers overtake each other.
QRCurrent ==
  \A p \in Pages :
    []<>(page[p].qr = code \/ ~page[p].polling \/ phone # 0 \/ ~Live(p))

\* The page shows the status of the connection in real time: an open page with
\* a link that is valid comes to agree with the instance, again and again
\* (docs/TUTORIAL-INSTALACAO.md of the page; its interval ends at "connected").
StatusInRealTime ==
  \A p \in Pages :
    []<>((page[p].status = "connected") = (phone # 0) \/ ~Live(p))
=============================================================================
