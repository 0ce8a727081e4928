------------------------------ MODULE Threads -------------------------------
(***************************************************************************)
(* What Chatwoot's agents are promised of the messages of each customer,   *)
(* without workers, contacts, retries or faults: they are filed in threads *)
(* of that customer, and in one thread only, its home, unless two of them  *)
(* were opening threads at once before there was a home.  A message is     *)
(* filed while it is open and never after that, done only by being filed.  *)
(* A thread shows a contact: the customer's, or one the customer was taken *)
(* for.                                                                    *)
(***************************************************************************)
EXTENDS Integers, Sequences

CONSTANTS
  Customers,
  Messages,
  SenderOf,  \* the customer of each message
  TakenFor   \* the customers whose contact a search for each customer may give

VARIABLES
  fate,     \* "open", "done" or "failed", per message
  threads,  \* each thread's customer (source) and the contact it shows, by number
  home,     \* the thread each customer's next message goes to, 0 while there is none
  filed,    \* threads each message is in
  split     \* customers for whom several threads were being opened at once

desk == <<fate, threads, home, filed, split>>

DeskInit ==
  /\ fate = [m \in Messages |-> "open"]
  /\ threads = <<>>
  /\ home = [j \in Customers |-> 0]
  /\ filed = [m \in Messages |-> {}]
  /\ split = {}

Becomes(m, s) == fate' = [fate EXCEPT ![m] = s]

\* Two messages of a customer who has no home yet meet.
Split(j) ==
  /\ home[j] = 0
  /\ split' = split \union {j}
  /\ UNCHANGED <<fate, threads, home, filed>>

\* A thread for a message, which may fail all the same.
OpenThread(m) ==
  /\ fate[m] = "open"
  /\ home[SenderOf[m]] = 0 \/ SenderOf[m] \in split
  /\ \E j \in TakenFor[SenderOf[m]] :
       threads' = Append(threads, [source |-> SenderOf[m], contact |-> j])
  /\ UNCHANGED fate \/ Becomes(m, "failed")
  /\ UNCHANGED <<home, filed, split>>

\* A thread becomes the home of its customer, or is it already.
Settle(c) ==
  LET j == threads[c].source IN
  /\ home[j] \in {0, c} \/ j \in split
  /\ home' = [home EXCEPT ![j] = c]
  /\ UNCHANGED <<fate, threads, filed, split>>

\* A message is put into a thread; perhaps nobody learns it.
File(m, c) ==
  LET j == SenderOf[m] IN
  /\ fate[m] = "open" /\ threads[c].source = j
  /\ home[j] = c \/ (home[j] # 0 /\ j \in split)
  /\ filed' = [filed EXCEPT ![m] = @ \union {c}]
  /\ UNCHANGED fate \/ Becomes(m, "failed") \/ Becomes(m, "done")
  /\ UNCHANGED <<threads, home, split>>

Fail(m) ==
  /\ fate[m] = "open"
  /\ Becomes(m, "failed")
  /\ UNCHANGED <<threads, home, filed, split>>

DeskNext ==
  \/ \E j \in Customers : Split(j)
  \/ \E m \in Messages : OpenThread(m) \/ Fail(m)
  \/ \E c \in DOMAIN threads : Settle(c) \/ \E m \in Messages : File(m, c)

DeskSpec == DeskInit /\ [][DeskNext]_desk
=============================================================================
