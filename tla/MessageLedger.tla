---------------------------- MODULE MessageLedger ----------------------------
(***************************************************************************)
(* What the message table promises to whoever reads it, without channels,  *)
(* goroutines or restarts: a row is registered once, is closed as done     *)
(* only after the upstream accepted the message, is closed as failed, and  *)
(* is reopened only from failed.  A closed row changes otherwise only      *)
(* while it is contested: it expired while a job for it was still alive,   *)
(* and that job may yet report.                                            *)
(***************************************************************************)
CONSTANT Msgs

VARIABLES
  row,       \* "none", "pending", "done" or "failed"
  accepted,  \* messages the upstream has accepted
  contested  \* messages that expired under a live job

ledgerVars == <<row, accepted, contested>>

LedgerInit ==
  /\ row = [m \in Msgs |-> "none"]
  /\ accepted = {}
  /\ contested = {}

Write(m, s) == row' = [row EXCEPT ![m] = s]

\* The first webhook with this external id.
Register(m) ==
  /\ row[m] = "none"
  /\ Write(m, "pending")
  /\ UNCHANGED <<accepted, contested>>

\* The upstream takes the message, whether or not anybody learns it.
Accept(m) ==
  /\ row[m] # "none"
  /\ accepted' = accepted \union {m}
  /\ UNCHANGED <<row, contested>>

Complete(m) ==
  /\ m \in accepted
  /\ row[m] = "pending" \/ m \in contested
  /\ Write(m, "done")
  /\ UNCHANGED <<accepted, contested>>

Fail(m) ==
  /\ row[m] = "pending" \/ m \in contested
  /\ Write(m, "failed")
  /\ UNCHANGED <<accepted, contested>>

\* Rows that waited too long fail together; some of them under a live job.
Expire(S) ==
  /\ \A m \in S : row[m] = "pending"
  /\ row' = [m \in Msgs |-> IF m \in S THEN "failed" ELSE row[m]]
  /\ contested \subseteq contested'
  /\ contested' \subseteq contested \union S
  /\ UNCHANGED accepted

\* An operator retries a failed message.
Reopen(m) ==
  /\ row[m] = "failed"
  /\ Write(m, "pending")
  /\ UNCHANGED <<accepted, contested>>

\* No job survives a restart, so nothing is contested after it.
Restart == contested' = {} /\ UNCHANGED <<row, accepted>>

LedgerNext ==
  \/ \E m \in Msgs : Register(m) \/ Accept(m) \/ Complete(m) \/ Fail(m) \/ Reopen(m)
  \/ \E S \in SUBSET Msgs : Expire(S)
  \/ Restart

LedgerSpec == LedgerInit /\ [][LedgerNext]_ledgerVars
=============================================================================
