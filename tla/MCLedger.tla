------------------------------ MODULE MCLedger ------------------------------
\* Small instances of Ledger for TLC.
EXTENDS Ledger

CONSTANTS t1, t2

Event(n, topic, task, sats, subject) ==
  [id |-> n, topic |-> topic, task |-> task, sats |-> sats, subject |-> subject]

\* Two payments of one amount, two pieces of evidence by one volunteer, and two
\* status changes, of which only one is recorded.
SomeEvents ==
  {Event(1, "payment.settled", t1, 1, "hash-1"),
   Event(2, "payment.settled", t1, 1, "hash-2"),
   Event(3, "submission.created", t1, 0, "volunteer-1"),
   Event(4, "submission.created", t1, 0, "volunteer-1"),
   Event(5, "task.status.changed", t2, 0, "in_progress"),
   Event(6, "task.status.changed", t2, 0, "completed")}
=============================================================================
