---------------------------- MODULE Conversation ----------------------------
(***************************************************************************)
(* What the relay promises to the two people of a conversation, without    *)
(* webhooks, gateways, formats or faults: the other side only ever gets    *)
(* what was said openly, once decided upon it is relayed until it is done  *)
(* or given up, and then never again; its parts come in order, each may be *)
(* repeated, none is overtaken by the one behind it, and no more often     *)
(* than the relay makes attempts.                                          *)
(***************************************************************************)
EXTENDS Integers, Sequences

CONSTANTS
  Messages,  \* what either side may say
  Attempts   \* the most often that a part is sent

VARIABLES
  said,     \* messages said openly
  relay,    \* "none", "open", "done" or "failed"
  received  \* per message: how often the other side got each part

talk == <<said, relay, received>>

TalkInit ==
  /\ said = {}
  /\ relay = [m \in Messages |-> "none"]
  /\ received = [m \in Messages |-> <<>>]

Turns(m, s) == relay' = [relay EXCEPT ![m] = s]

Say(m) ==
  /\ m \notin said
  /\ said' = said \union {m}
  /\ UNCHANGED <<relay, received>>

\* The relay takes a message up, of as many parts as it then turns out to have,
\* or has no room for it and gives it up at once.
TakeUp(m) ==
  /\ m \in said /\ relay[m] = "none"
  /\ Turns(m, "open") \/ Turns(m, "failed")
  /\ \A p \in DOMAIN received'[m] : received'[m][p] = 0
  /\ \A k \in Messages \ {m} : received'[k] = received[k]
  /\ UNCHANGED said

\* The first part comes once per attempt, any other after the one before it.
IsNext(m, p) ==
  IF p = 1 THEN received[m][p] < Attempts ELSE received[m][p] < received[m][p - 1]

\* A part arrives.  With the last one the message may be done, with any of them
\* the relay may have run out of attempts.
Receive(m, p) ==
  /\ relay[m] = "open" /\ IsNext(m, p)
  /\ received' = [received EXCEPT ![m][p] = @ + 1]
  /\ UNCHANGED relay \/ Turns(m, "failed") \/ (p = Len(received[m]) /\ Turns(m, "done"))
  /\ UNCHANGED said

GiveUp(m) ==
  /\ relay[m] = "open"
  /\ Turns(m, "failed")
  /\ UNCHANGED <<said, received>>

TalkNext ==
  \E m \in Messages :
    \/ Say(m) \/ TakeUp(m) \/ GiveUp(m)
    \/ \E p \in DOMAIN received[m] : Receive(m, p)

TalkSpec == TalkInit /\ [][TalkNext]_talk
=============================================================================
