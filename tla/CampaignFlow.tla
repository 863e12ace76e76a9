---------------------------- MODULE CampaignFlow ----------------------------
(***************************************************************************)
(* What the task state machines promise, with requests, versions, history  *)
(* and readiness facts left out: a campaign's work and its money each move *)
(* along one line, one state at a time and never back; and independent     *)
(* verification is one event that completes the work and closes donations  *)
(* together.                                                               *)
(***************************************************************************)
CONSTANT Tasks

VARIABLES work, money

flowVars == <<work, money>>

FlowInit ==
  /\ work = [t \in Tasks |-> "absent"]
  /\ money = [t \in Tasks |-> "absent"]

Create(t) ==
  /\ work[t] = "absent"
  /\ work' = [work EXCEPT ![t] = "open"]
  /\ money' = [money EXCEPT ![t] = "ACTIVE"]

MoveWork(t, from, to) ==
  /\ work[t] = from
  /\ work' = [work EXCEPT ![t] = to]
  /\ UNCHANGED money

MoveMoney(t, from, to) ==
  /\ money[t] = from
  /\ money' = [money EXCEPT ![t] = to]
  /\ UNCHANGED work

\* Accept the work and close donations, in one event.
Verify(t) ==
  /\ work[t] = "pending_verification"
  /\ money[t] = "ACTIVE"
  /\ work' = [work EXCEPT ![t] = "completed"]
  /\ money' = [money EXCEPT ![t] = "LIQUIDATING"]

FlowNext ==
  \E t \in Tasks :
    \/ Create(t)
    \/ MoveWork(t, "open", "in_progress")
    \/ MoveWork(t, "in_progress", "pending_verification")
    \/ Verify(t)
    \/ MoveMoney(t, "ACTIVE", "LIQUIDATING")
    \/ MoveMoney(t, "LIQUIDATING", "READY_FOR_PAYOUT")
    \/ MoveMoney(t, "READY_FOR_PAYOUT", "PAYOUT_PROCESSING")
    \/ MoveMoney(t, "PAYOUT_PROCESSING", "ARCHIVED")

FlowSpec == FlowInit /\ [][FlowNext]_flowVars
=============================================================================
