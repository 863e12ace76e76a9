---------------------------- MODULE DonationFlow ----------------------------
(***************************************************************************)
(* What the donation path promises about one invoice, with LND, the        *)
(* database, streams and retries left out: it is issued, paid, recorded as *)
(* settled, and then credited to its task's ledger; never twice, never     *)
(* without the payment, and never back.                                    *)
(***************************************************************************)
CONSTANT Invoices

VARIABLE donation

FlowInit == donation = [h \in Invoices |-> "unknown"]

Advance(h, from, to) ==
  /\ donation[h] = from
  /\ donation' = [donation EXCEPT ![h] = to]

FlowNext ==
  \E h \in Invoices :
    \/ Advance(h, "unknown", "issued")
    \/ Advance(h, "issued", "paid")
    \/ Advance(h, "paid", "settled")
    \/ Advance(h, "settled", "credited")

FlowSpec == FlowInit /\ [][FlowNext]_donation
=============================================================================
