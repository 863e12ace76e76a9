----------------------------- MODULE PayoutFlow -----------------------------
(***************************************************************************)
(* What the payout of a task promises, with slots, keys, rows, events and  *)
(* retries left out: people approve, nobody's approval counts twice, and   *)
(* the money is released only when a quorum of them does.                  *)
(***************************************************************************)
CONSTANTS
  Tasks,
  Users,
  Quorums   \* sets of people who may together release a payout

VARIABLES
  approvals,   \* approvals[t]: people who approve the payout of t
  released     \* tasks whose payout has been released

flowVars == <<approvals, released>>

FlowInit ==
  /\ approvals = [t \in Tasks |-> {}]
  /\ released = {}

Approve(t, u) ==
  /\ approvals' = [approvals EXCEPT ![t] = @ \cup {u}]
  /\ UNCHANGED released

Release(t) ==
  /\ \E Q \in Quorums : Q \subseteq approvals[t]
  /\ released' = released \cup {t}
  /\ UNCHANGED approvals

FlowNext ==
  \E t \in Tasks : Release(t) \/ \E u \in Users : Approve(t, u)

FlowSpec == FlowInit /\ [][FlowNext]_flowVars
=============================================================================
