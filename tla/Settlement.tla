----------------------------- MODULE Settlement -----------------------------
(***************************************************************************)
(* Lightning donations: a request makes an invoice at LND and saves it, a  *)
(* listener follows LND's stream of settled invoices and marks, credits    *)
(* and moves a cursor, and a worker expires unpaid invoices.               *)
(*                                                                         *)
(* LND is external.  It numbers the invoices it settles 1, 2, ... (the     *)
(* settle index) whether or not this application made them, and a          *)
(* subscription with index n > 0 delivers, in order, those after n.  The   *)
(* clients leave index 0 out of the request; LND then sends only what it   *)
(* settles from now on, and `omitted` records what it therefore left out.  *)
(* LND may repeat an update and may end a stream at any time.              *)
(***************************************************************************)
EXTENDS Integers, Sequences, FiniteSets

CONSTANTS
  Tasks,      \* task slugs
  Invoices,   \* payment hashes LND can give out
  Donors,     \* donation requests that can be in flight at once
  Foreign,    \* a settled invoice this application did not make
  None,
  MaxForeign, \* bound: foreign invoices LND settles
  MaxFaults   \* bound: failed statements, lost or repeating streams, crashes

ASSUME SettlementAssumption ==
  /\ Foreign \notin Invoices /\ None \notin Invoices /\ None \notin Tasks
  /\ None \notin {"pending", "expired", "settled"}
  /\ MaxForeign \in Nat /\ MaxFaults \in Nat

VARIABLES
  active,     \* active[t]: financial_state of t is ACTIVE
  request,    \* request[d]: donor d's donation request
  status,     \* status[h]: lightning_invoices.status, None if no row
  taskOf,     \* taskOf[h]: lightning_invoices.task_slug
  index,      \* index[h]: lightning_invoices.settle_index
  cursor,     \* lightning_sync_state, key lnd_settle_index
  made,       \* invoices LND has made
  handed,     \* invoices donors have been given
  settled,    \* LND's settled invoices, in settle-index order
  omitted,    \* history: LND had settled so many when it was last asked
              \* without an index
  listener,   \* [stage, pos, item]: the settlement listener
  credits,    \* credits[h]: INBOUND_DONATION ledger entries for h
  faults      \* faults so far

requestVars == <<active, request, taskOf, made, handed>>
vars == <<requestVars, status, index, cursor, settled, omitted, listener,
          credits, faults>>

InvoiceStatus == {"pending", "expired", "settled"}

ListenerStages == {"resume", "stream", "mark", "publish", "advance"}

IdleRequest == [stage |-> "idle", task |-> None, invoice |-> None]

TypeOK ==
  /\ active \in [Tasks -> BOOLEAN]
  /\ request \in [Donors -> [stage: {"idle", "create", "save", "return"},
                             task: Tasks \cup {None},
                             invoice: Invoices \cup {None}]]
  /\ status \in [Invoices -> InvoiceStatus \cup {None}]
  /\ taskOf \in [Invoices -> Tasks \cup {None}]
  /\ index \in [Invoices -> Nat]
  /\ cursor \in Nat
  /\ made \subseteq Invoices
  /\ handed \subseteq Invoices
  /\ settled \in Seq(Invoices \cup {Foreign})
  /\ omitted \in Nat
  /\ listener \in [stage: ListenerStages, pos: Nat, item: Nat]
  /\ credits \in [Invoices -> Nat]
  /\ faults \in 0..MaxFaults

Init ==
  /\ active = [t \in Tasks |-> TRUE]
  /\ request = [d \in Donors |-> IdleRequest]
  /\ status = [h \in Invoices |-> None]
  /\ taskOf = [h \in Invoices |-> None]
  /\ index = [h \in Invoices |-> 0]
  /\ cursor = 0
  /\ made = {}
  /\ handed = {}
  /\ settled = <<>>
  /\ omitted = 0
  /\ listener = [stage |-> "resume", pos |-> 0, item |-> 0]
  /\ credits = [h \in Invoices |-> 0]
  /\ faults = 0

Paid(h) == \E i \in 1..Len(settled) : settled[i] = h

-----------------------------------------------------------------------------
(* RequestDonationInvoice.                                                 *)

\* The task is read once, before LND is asked; closed tasks are refused.
RequestDonation(d, t) ==
  /\ request[d].stage = "idle"
  /\ active[t]
  /\ request' = [request EXCEPT ![d] =
                   [stage |-> "create", task |-> t, invoice |-> None]]
  /\ UNCHANGED <<active, taskOf, made, handed, status, index, cursor, settled,
                 omitted, listener, credits, faults>>

CreateInvoice(d) ==
  /\ request[d].stage = "create"
  /\ \E h \in Invoices \ made :
       /\ made' = made \cup {h}
       /\ request' = [request EXCEPT ![d] =
                        [stage |-> "save", task |-> @.task, invoice |-> h]]
  /\ UNCHANGED <<active, taskOf, handed, status, index, cursor, settled,
                 omitted, listener, credits, faults>>

\* Faulty variants: LND's word for the state is stored as it came; a failed
\* insert does not stop the answer.
SaveInvoiceRawStatus(d) ==
  LET h == request[d].invoice
  IN  /\ request[d].stage = "save"
      /\ status' = [status EXCEPT ![h] = "OPEN"]
      /\ taskOf' = [taskOf EXCEPT ![h] = request[d].task]
      /\ request' = [request EXCEPT ![d].stage = "return"]
      /\ UNCHANGED <<active, made, handed, index, cursor, settled, omitted,
                     listener, credits, faults>>

SaveInvoiceIgnoreError(d) ==
  /\ request[d].stage = "save"
  /\ request' = [request EXCEPT ![d].stage = "return"]
  /\ UNCHANGED <<active, taskOf, made, handed, status, index, cursor, settled,
                 omitted, listener, credits, faults>>

\* The row is committed before anybody outside learns the payment request.
SaveInvoice(d) ==
  LET h == request[d].invoice
  IN  /\ request[d].stage = "save"
      /\ status' = [status EXCEPT ![h] = "pending"]
      /\ taskOf' = [taskOf EXCEPT ![h] = request[d].task]
      /\ request' = [request EXCEPT ![d].stage = "return"]
      /\ UNCHANGED <<active, made, handed, index, cursor, settled, omitted,
                     listener, credits, faults>>

ReturnInvoice(d) ==
  /\ request[d].stage = "return"
  /\ handed' = handed \cup {request[d].invoice}
  /\ request' = [request EXCEPT ![d] = IdleRequest]
  /\ UNCHANGED <<active, taskOf, made, status, index, cursor, settled, omitted,
                 listener, credits, faults>>

\* LND or the insert fails, or the donor goes away.
FailRequest(d) ==
  /\ request[d].stage # "idle"
  /\ request' = [request EXCEPT ![d] = IdleRequest]
  /\ UNCHANGED <<active, taskOf, made, handed, status, index, cursor, settled,
                 omitted, listener, credits, faults>>

\* Independent verification moves the task to LIQUIDATING.
CloseDonations(t) ==
  /\ active[t]
  /\ active' = [active EXCEPT ![t] = FALSE]
  /\ UNCHANGED <<request, taskOf, made, handed, status, index, cursor, settled,
                 omitted, listener, credits, faults>>

-----------------------------------------------------------------------------
(* LND.                                                                    *)

SettleOwn(h) ==
  /\ h \in handed /\ ~ Paid(h)
  /\ settled' = Append(settled, h)
  /\ UNCHANGED <<requestVars, status, index, cursor, omitted, listener,
                 credits, faults>>

SettleForeign ==
  /\ Cardinality({i \in 1..Len(settled) : settled[i] = Foreign}) < MaxForeign
  /\ settled' = Append(settled, Foreign)
  /\ UNCHANGED <<requestVars, status, index, cursor, omitted, listener,
                 credits, faults>>

-----------------------------------------------------------------------------
(* The settlement listener.                                                *)

Move(stage, pos, item) ==
  listener' = [stage |-> stage, pos |-> pos, item |-> item]

\* LatestSettleIndex: the larger of the settled rows' maximum and the cursor.
\* Only the listener writes either, so its two reads are one step.
SeenIndexes ==
  {cursor} \cup {index[h] : h \in {g \in Invoices : status[g] = "settled"}}

ResumeIndexes == {n \in SeenIndexes : \A m \in SeenIndexes : m <= n}

\* An index of 0 is left out of the request.
StreamStart(n) == IF n > 0 THEN n ELSE Len(settled)

Subscribe ==
  /\ listener.stage = "resume"
  /\ \E n \in ResumeIndexes :
       /\ Move("stream", StreamStart(n), 0)
       /\ omitted' = IF n > 0 THEN omitted ELSE Len(settled)
  /\ UNCHANGED <<requestVars, status, index, cursor, settled, credits, faults>>

\* Faulty variant: the cursor moves when the update arrives.
LookupMovesCursor(i) ==
  /\ listener.stage = "stream"
  /\ i <= Len(settled)
  /\ IF settled[i] # Foreign /\ status[settled[i]] # None
       THEN Move("mark", listener.pos, i)
       ELSE Move("advance", listener.pos, i)
  /\ cursor' = IF cursor < i THEN i ELSE cursor
  /\ UNCHANGED <<requestVars, status, index, settled, omitted, credits>>

\* An update arrives and is looked up by its payment hash; an unknown one only
\* moves the cursor.
Lookup(i) ==
  /\ listener.stage = "stream"
  /\ i <= Len(settled)
  /\ IF settled[i] # Foreign /\ status[settled[i]] # None
       THEN Move("mark", listener.pos, i)
       ELSE Move("advance", listener.pos, i)
  /\ UNCHANGED <<requestVars, status, index, cursor, settled, omitted,
                 credits>>

Receive == Lookup(listener.pos + 1) /\ UNCHANGED faults

\* Faulty variants: every update counts as the first; expired invoices are
\* taken for dead; the event goes out and the row stays as it was.
MarkSettledAlways ==
  LET i == listener.item
      h == settled[i]
  IN  /\ listener.stage = "mark"
      /\ status' = [status EXCEPT ![h] = "settled"]
      /\ index' = [index EXCEPT ![h] = i]
      /\ Move("publish", listener.pos, i)
      /\ UNCHANGED <<requestVars, cursor, settled, omitted, credits, faults>>

MarkSettledPendingOnly ==
  LET i == listener.item
      h == settled[i]
  IN  /\ listener.stage = "mark"
      /\ IF status[h] = "pending"
           THEN /\ status' = [status EXCEPT ![h] = "settled"]
                /\ index' = [index EXCEPT ![h] = i]
                /\ Move("publish", listener.pos, i)
           ELSE /\ UNCHANGED <<status, index>>
                /\ Move("advance", listener.pos, i)
      /\ UNCHANGED <<requestVars, cursor, settled, omitted, credits, faults>>

MarkSettledPublishFirst ==
  /\ listener.stage = "mark"
  /\ Move("publish", listener.pos, listener.item)
  /\ UNCHANGED <<requestVars, status, index, cursor, settled, omitted, credits,
                 faults>>

\* A pending or expired row becomes settled; any other row is left alone and
\* the update only moves the cursor.
MarkSettled ==
  LET i == listener.item
      h == settled[i]
  IN  /\ listener.stage = "mark"
      /\ IF status[h] \in {"pending", "expired"}
           THEN /\ status' = [status EXCEPT ![h] = "settled"]
                /\ index' = [index EXCEPT ![h] = i]
                /\ Move("publish", listener.pos, i)
           ELSE /\ UNCHANGED <<status, index>>
                /\ Move("advance", listener.pos, i)
      /\ UNCHANGED <<requestVars, cursor, settled, omitted, credits, faults>>

\* Publish runs the ledger's subscriber in place.
PublishSettled ==
  /\ listener.stage = "publish"
  /\ credits' = [credits EXCEPT ![settled[listener.item]] = @ + 1]
  /\ Move("advance", listener.pos, listener.item)
  /\ UNCHANGED <<requestVars, status, index, cursor, settled, omitted, faults>>

Furthest(i) == IF i > listener.pos THEN i ELSE listener.pos

\* The upsert never moves the stored value back.
AdvanceCursor ==
  LET i == listener.item
  IN  /\ listener.stage = "advance"
      /\ cursor' = IF cursor < i THEN i ELSE cursor
      /\ Move("stream", Furthest(i), 0)
      /\ UNCHANGED <<requestVars, status, index, settled, omitted, credits,
                     faults>>

-----------------------------------------------------------------------------
(* Expiry, and what goes wrong.                                            *)

\* ExpirePendingInvoices, by the worker or before a status answer: the due
\* ones among the pending rows.
ExpirePendingInvoices ==
  /\ \E due \in SUBSET {h \in Invoices : status[h] = "pending"} :
       /\ due # {}
       /\ status' = [h \in Invoices |->
                       IF h \in due THEN "expired" ELSE status[h]]
  /\ UNCHANGED <<requestVars, index, cursor, settled, omitted, listener,
                 credits, faults>>

Fault == faults < MaxFaults /\ faults' = faults + 1

\* LND repeats an update it had delivered before.
RepeatUpdate(i) == i <= listener.pos /\ Lookup(i) /\ Fault

\* The stream ends, a statement fails or the process dies: the listener starts
\* over from what the database holds.
Restart ==
  /\ Fault
  /\ Move("resume", 0, 0)
  /\ UNCHANGED <<requestVars, status, index, cursor, settled, omitted,
                 credits>>

\* The ledger append fails; the subscriber drops the error and the listener
\* goes on.
LoseCredit ==
  /\ Fault
  /\ listener.stage = "publish"
  /\ Move("advance", listener.pos, listener.item)
  /\ UNCHANGED <<requestVars, status, index, cursor, settled, omitted,
                 credits>>

ListenerStep ==
  \/ Subscribe
  \/ Receive
  \/ MarkSettled \/ PublishSettled \/ AdvanceCursor

Next ==
  \/ \E d \in Donors :
       \/ \E t \in Tasks : RequestDonation(d, t)
       \/ CreateInvoice(d) \/ SaveInvoice(d) \/ ReturnInvoice(d)
       \/ FailRequest(d)
  \/ \E t \in Tasks : CloseDonations(t)
  \/ \E h \in Invoices : SettleOwn(h)
  \/ SettleForeign
  \/ ListenerStep
  \/ \E i \in 1..Len(settled) : RepeatUpdate(i)
  \/ ExpirePendingInvoices \/ Restart \/ LoseCredit

Spec == Init /\ [][Next]_vars

\* The listener is a goroutine that retries for as long as the process runs,
\* and takes its stream's next update; nothing else is promised.
FairSpec == Spec /\ WF_vars(ListenerStep)

-----------------------------------------------------------------------------
(* Properties.                                                             *)

Handled(i) == settled[i] = Foreign \/ status[settled[i]] = "settled"

\* Wherever the listener resumes from after a crash, a lost stream or a failed
\* statement, no invoice of ours is behind that index without being recorded,
\* except those LND was never asked for (lnd_rest.go leaves index 0 out).
ResumeNeverSkips ==
  \A n \in SeenIndexes :
    n <= Len(settled) /\ \A i \in omitted + 1..n : Handled(i)

\* A donation is credited at most once, and only when its row is settled and
\* LND did settle it, through repeated updates, restarts and expiry.
CreditedAtMostOnce ==
  \A h \in Invoices :
    /\ credits[h] <= 1
    /\ credits[h] = 1 => status[h] = "settled" /\ Paid(h)

\* Save before return: whatever a donor can pay has a row with its task, so
\* its settlement can be attributed.
PayableIsKnown ==
  \A h \in Invoices :
    h \in handed => status[h] # None /\ taskOf[h] # None

\* A settled row never changes again: an expiry sweep that races a settlement
\* cannot undo it, and a repeated update cannot renumber it.
SettledIsFinal ==
  [][\A h \in Invoices :
       status[h] = "settled" => status'[h] = "settled"
                                /\ index'[h] = index[h]]_vars

\* Updates repeated from before do not move the resume point back.
CursorNeverBack == [][cursor' >= cursor]_cursor

\* Every paid donation is eventually recorded, although the listener may be
\* down when it is paid.
PaidEventuallyRecorded ==
  \A h \in Invoices : Paid(h) ~> status[h] = "settled"

\* It had been paid when LND was last asked without an index.
Omitted(h) == \E i \in 1..omitted : settled[i] = h

\* What the code does keep of that: a paid donation is eventually recorded,
\* through expiry, repeats, crashes and lost streams, unless it was paid while no
\* settle index was stored and no subscription was open.
PaidRecordedUnlessOmitted ==
  \A h \in Invoices : Paid(h) ~> status[h] = "settled" \/ Omitted(h)


\* Once its task is closed, no new invoice is saved for a donor to pay.
NoInvoiceAfterClose ==
  [][\A h \in Invoices :
       status[h] = None /\ status'[h] # None => active[taskOf'[h]]]_vars

\* The module implements DonationFlow.
DonationState(h) ==
  IF credits[h] > 0 THEN "credited"
  ELSE IF status[h] = "settled" THEN "settled"
  ELSE IF Paid(h) THEN "paid"
  ELSE IF h \in handed THEN "issued" ELSE "unknown"

Flow == INSTANCE DonationFlow
          WITH donation <- [h \in Invoices |-> DonationState(h)]

\* Each invoice moves along the one abstract donation flow, whatever the
\* stream, the worker and the faults do.
ImplementsFlow == Flow!FlowSpec
=============================================================================
