--------------------------- MODULE SettlementProofs ---------------------------
(***************************************************************************)
(* Proofs about Lightning donations, for every number of donors, invoices, *)
(* repeated updates, restarts and lost credits: nothing paid is skipped,   *)
(* nothing is credited twice, settled rows are final, and the module       *)
(* implements DonationFlow.                                                *)
(*                                                                         *)
(* The argument is that nothing about a settled invoice is ever taken back *)
(* (Kept), so that all the listener has left behind stays handled.         *)
(***************************************************************************)
EXTENDS Settlement, SequenceTheorems, WellFoundedInduction, TLAPS

-----------------------------------------------------------------------------
(* The inductive invariant.                                                *)

\* A request holds an invoice of its own from LND's answer on; until it saves
\* it, there is no row for it, and afterwards there is one with its task.
RequestsHold ==
  /\ \A d \in Donors :
       /\ request[d].stage # "idle" => request[d].task \in Tasks
       /\ request[d].stage \in {"save", "return"} => request[d].invoice \in made
       /\ request[d].stage = "save" => status[request[d].invoice] = None
       /\ request[d].stage = "return" =>
            /\ status[request[d].invoice] # None
            /\ taskOf[request[d].invoice] # None
  /\ \A d, e \in Donors :
       /\ request[d].stage = "save" /\ request[e].stage = "save"
       /\ request[d].invoice = request[e].invoice
       => d = e
  /\ \A h \in Invoices : status[h] # None => h \in made

\* Only an invoice that a donor was given is paid.
PaidWereHanded ==
  \A i \in 1..Len(settled) : settled[i] # Foreign => settled[i] \in handed

RecordedWerePaid == \A h \in Invoices : status[h] = "settled" => Paid(h)

CreditsFollow ==
  \A h \in Invoices :
    credits[h] <= 1 /\ (status[h] # "settled" => credits[h] = 0)

\* The update the listener has in hand, at most one further on than its place,
\* is as far as its stage says.
ListenerKnows ==
  /\ listener.pos <= Len(settled)
  /\ listener.stage \in {"mark", "publish", "advance"} =>
       /\ listener.item \in 1..Len(settled)
       /\ listener.item <= listener.pos + 1
  /\ listener.stage = "mark" =>
       /\ settled[listener.item] # Foreign
       /\ status[settled[listener.item]] # None
  /\ listener.stage = "publish" =>
       /\ settled[listener.item] # Foreign
       /\ status[settled[listener.item]] = "settled"
       /\ credits[settled[listener.item]] = 0
  /\ listener.stage = "advance" => Handled(listener.item)

\* Only indexes LND gave out are stored.
IndexesExist == \A n \in SeenIndexes : n <= Len(settled)

\* All updates up to the listener's place are handled, but those LND left out.
PlaceHandled == \A i \in omitted + 1..listener.pos : Handled(i)

SettleInv ==
  /\ TypeOK /\ RequestsHold /\ PayableIsKnown /\ PaidWereHanded
  /\ RecordedWerePaid /\ CreditsFollow /\ ListenerKnows /\ IndexesExist
  /\ PlaceHandled /\ ResumeNeverSkips

-----------------------------------------------------------------------------
(* The kinds of step.                                                      *)

RequestStep(d) ==
  \/ \E t \in Tasks : RequestDonation(d, t)
  \/ CreateInvoice(d) \/ SaveInvoice(d) \/ ReturnInvoice(d) \/ FailRequest(d)

LNDStep == SettleForeign \/ \E h \in Invoices : SettleOwn(h)

\* An update is taken from the stream, the next one or an earlier one.
TakeUpdate ==
  \E i \in 1..Len(settled) :
    i <= listener.pos + 1 /\ Lookup(i) /\ faults' \in 0..MaxFaults

LEMMA SettledElements ==
  ASSUME TypeOK
  PROVE  /\ Len(settled) \in Nat
         /\ \A i \in 1..Len(settled) : settled[i] \in Invoices \cup {Foreign}
  BY LenProperties, ElementOfSeq DEF TypeOK

LEMMA FaultType ==
  ASSUME TypeOK, Fault
  PROVE  faults' \in 0..MaxFaults
  BY SettlementAssumption DEF TypeOK, Fault

LEMMA StepKinds ==
  ASSUME TypeOK, Next
  PROVE  \/ \E d \in Donors : RequestStep(d)
         \/ \E t \in Tasks : CloseDonations(t)
         \/ LNDStep
         \/ Subscribe \/ TakeUpdate \/ MarkSettled \/ PublishSettled
         \/ AdvanceCursor \/ ExpirePendingInvoices \/ Restart \/ LoseCredit
<1>1. ASSUME Receive PROVE TakeUpdate
  BY <1>1, SettledElements DEF Receive, TakeUpdate, Lookup, TypeOK
<1>2. ASSUME NEW i \in 1..Len(settled), RepeatUpdate(i) PROVE TakeUpdate
  BY <1>2, SettledElements, FaultType DEF RepeatUpdate, TakeUpdate, TypeOK
<1> QED
  BY <1>1, <1>2 DEF Next, ListenerStep, RequestStep, LNDStep

\* LND's list grows at its end.
LEMMA ListGrows ==
  ASSUME TypeOK, NEW x \in Invoices \cup {Foreign}, settled' = Append(settled, x)
  PROVE  /\ settled' \in Seq(Invoices \cup {Foreign})
         /\ Len(settled') = Len(settled) + 1
         /\ settled'[Len(settled) + 1] = x
         /\ \A i \in 1..Len(settled) : settled'[i] = settled[i]
  BY AppendProperties DEF TypeOK

Requests == [stage: {"idle", "create", "save", "return"},
             task: Tasks \cup {None}, invoice: Invoices \cup {None}]

LEMMA TypePart ==
  ASSUME TypeOK, RequestsHold, ListenerKnows, Next
  PROVE  TypeOK'
<1> USE DEF TypeOK
<1>1. ASSUME NEW d \in Donors, RequestStep(d) PROVE TypeOK'
  <2>1. ASSUME NEW t \in Tasks, RequestDonation(d, t) PROVE TypeOK'
    BY <2>1 DEF RequestDonation
  <2>2. CASE CreateInvoice(d)
    <3>1. request \in [Donors -> Requests] /\ request[d] \in Requests
      BY DEF Requests
    <3>2. PICK h \in Invoices \ made :
            /\ request' = [request EXCEPT ![d] =
                             [stage |-> "save", task |-> request[d].task,
                              invoice |-> h]]
            /\ made' = made \cup {h}
            /\ UNCHANGED <<active, taskOf, handed, status, index, cursor,
                           settled, omitted, listener, credits, faults>>
      BY <2>2 DEF CreateInvoice
    <3> HIDE DEF TypeOK
    <3>3. request' \in [Donors -> Requests]
      BY <3>1, <3>2 DEF Requests
    <3> QED
      BY <3>2, <3>3 DEF TypeOK, Requests
  <2>3. CASE SaveInvoice(d)
    BY <2>3 DEF SaveInvoice, InvoiceStatus
  <2>4. CASE ReturnInvoice(d)
    <3>1. request[d].invoice \in Invoices
      BY <2>4 DEF ReturnInvoice, RequestsHold
    <3>2. /\ request' = [request EXCEPT ![d] = IdleRequest]
          /\ handed' = handed \cup {request[d].invoice}
          /\ UNCHANGED <<active, taskOf, made, status, index, cursor, settled,
                         omitted, listener, credits, faults>>
      BY <2>4 DEF ReturnInvoice
    <3> QED
      BY <3>1, <3>2 DEF IdleRequest
  <2>5. CASE FailRequest(d)
    BY <2>5 DEF FailRequest, IdleRequest
  <2> QED
    BY <1>1, <2>1, <2>2, <2>3, <2>4, <2>5 DEF RequestStep
<1>2. ASSUME NEW t \in Tasks, CloseDonations(t) PROVE TypeOK'
  BY <1>2 DEF CloseDonations
<1>3. CASE LNDStep
  <2>1. PICK x \in Invoices \cup {Foreign} : settled' = Append(settled, x)
    BY <1>3 DEF LNDStep, SettleForeign, SettleOwn
  <2>2. settled' \in Seq(Invoices \cup {Foreign})
    BY <2>1, ListGrows
  <2>3. UNCHANGED <<requestVars, status, index, cursor, omitted, listener, credits,
                    faults>>
    BY <1>3 DEF LNDStep, SettleForeign, SettleOwn
  <2> QED
    BY <2>2, <2>3 DEF requestVars
<1>4. CASE Subscribe
  <2>1. \A n \in ResumeIndexes : StreamStart(n) \in Nat
    BY SettledElements DEF ResumeIndexes, SeenIndexes, StreamStart
  <2>2. omitted' \in Nat
    BY <1>4, SettledElements DEF Subscribe
  <2> QED
    BY <1>4, <2>1, <2>2 DEF Subscribe, Move, ListenerStages, requestVars
<1>5. CASE TakeUpdate
  <2>1. PICK i \in 1..Len(settled) : Lookup(i) /\ faults' \in 0..MaxFaults
    BY <1>5 DEF TakeUpdate
  <2>2. i \in Nat
    BY SettledElements
  <2> QED
    BY <2>1, <2>2 DEF Lookup, Move, ListenerStages, requestVars
<1>6. CASE MarkSettled
  <2>1. settled[listener.item] \in Invoices /\ listener.item \in Nat
    BY <1>6, SettledElements DEF MarkSettled, ListenerKnows
  <2>2. /\ status' \in [Invoices -> InvoiceStatus \cup {None}]
        /\ index' \in [Invoices -> Nat]
    BY <1>6, <2>1 DEF MarkSettled, InvoiceStatus
  <2>3. listener' \in [stage: ListenerStages, pos: Nat, item: Nat]
    BY <1>6, <2>1 DEF MarkSettled, Move, ListenerStages
  <2>4. UNCHANGED <<requestVars, cursor, settled, omitted, credits, faults>>
    BY <1>6 DEF MarkSettled
  <2> QED
    BY <2>2, <2>3, <2>4 DEF requestVars
<1>7. CASE PublishSettled
  <2>1. settled[listener.item] \in Invoices
    BY <1>7, SettledElements DEF PublishSettled, ListenerKnows
  <2> QED
    BY <1>7, <2>1 DEF PublishSettled, Move, ListenerStages, requestVars
<1>8. CASE AdvanceCursor
  BY <1>8 DEF AdvanceCursor, Move, Furthest, ListenerStages, requestVars
<1>9. CASE ExpirePendingInvoices
  BY <1>9 DEF ExpirePendingInvoices, InvoiceStatus, requestVars
<1>10. CASE Restart
  BY <1>10, FaultType DEF Restart, Move, ListenerStages, requestVars
<1>11. CASE LoseCredit
  BY <1>11, FaultType DEF LoseCredit, Move, ListenerStages, requestVars
<1> QED
  BY <1>1, <1>2, <1>3, <1>4, <1>5, <1>6, <1>7, <1>8, <1>9, <1>10, <1>11,
     StepKinds

-----------------------------------------------------------------------------
(* Nothing about a settled invoice is taken back.                          *)

Kept ==
  /\ Len(settled) <= Len(settled') /\ Len(settled') \in Nat
  /\ \A i \in 1..Len(settled) : settled'[i] = settled[i]
  /\ handed \subseteq handed'
  /\ cursor' >= cursor
  /\ \A h \in Invoices :
       /\ status[h] = "settled" => status'[h] = "settled" /\ index'[h] = index[h]
       /\ status[h] # None => status'[h] # None
       /\ status[h] # None /\ taskOf[h] # None => taskOf'[h] # None

LEMMA AllKept ==
  ASSUME TypeOK, RequestsHold, ListenerKnows, Next
  PROVE  Kept
<1> USE SettlementAssumption DEF TypeOK
<1>0. /\ Len(settled) \in Nat
      /\ \A i \in 1..Len(settled) : settled[i] \in Invoices \cup {Foreign}
  BY SettledElements
<1>1. ASSUME NEW d \in Donors, RequestStep(d) PROVE Kept
  <2>1. UNCHANGED <<index, cursor, settled>> /\ handed \subseteq handed'
    BY <1>1 DEF RequestStep, RequestDonation, CreateInvoice, SaveInvoice,
                ReturnInvoice, FailRequest
  <2>2. CASE SaveInvoice(d)
    <3>1. /\ request[d].stage = "save" /\ request[d].invoice \in Invoices
          /\ status[request[d].invoice] = None
      BY <2>2 DEF SaveInvoice, RequestsHold
    <3>2. /\ status' = [status EXCEPT ![request[d].invoice] = "pending"]
          /\ taskOf' = [taskOf EXCEPT ![request[d].invoice] = request[d].task]
      BY <2>2 DEF SaveInvoice
    <3> QED
      BY <1>0, <2>1, <3>1, <3>2 DEF Kept
  <2>3. CASE UNCHANGED <<status, taskOf>>
    BY <1>0, <2>1, <2>3 DEF Kept
  <2> QED
    BY <1>1, <2>2, <2>3 DEF RequestStep, RequestDonation, CreateInvoice,
                            ReturnInvoice, FailRequest
<1>2. CASE LNDStep
  <2>1. PICK x \in Invoices \cup {Foreign} : settled' = Append(settled, x)
    BY <1>2 DEF LNDStep, SettleForeign, SettleOwn
  <2>2. UNCHANGED <<requestVars, status, index, cursor>>
    BY <1>2 DEF LNDStep, SettleForeign, SettleOwn
  <2> QED
    BY <1>0, <2>1, <2>2, ListGrows DEF Kept, requestVars
<1>3. CASE MarkSettled
  <2>1. settled[listener.item] \in Invoices
    BY <1>0, <1>3 DEF MarkSettled, ListenerKnows
  <2>2. UNCHANGED <<requestVars, cursor, settled>>
    BY <1>3 DEF MarkSettled
  <2> QED
    BY <1>0, <1>3, <2>1, <2>2 DEF MarkSettled, Kept, requestVars
<1>4. CASE ExpirePendingInvoices
  BY <1>0, <1>4 DEF ExpirePendingInvoices, Kept, requestVars
<1>5. CASE AdvanceCursor
  BY <1>0, <1>5 DEF AdvanceCursor, Kept, requestVars
<1>6. CASE UNCHANGED <<taskOf, handed, status, index, cursor, settled>>
  BY <1>0, <1>6 DEF Kept
<1> QED
  BY <1>1, <1>2, <1>3, <1>4, <1>5, <1>6, StepKinds
     DEF CloseDonations, Subscribe, TakeUpdate, Lookup, PublishSettled, Restart,
         LoseCredit, requestVars

\* What is handled stays handled.
LEMMA HandledStays ==
  ASSUME TypeOK, Kept
  PROVE  \A i \in 1..Len(settled) : Handled(i) => Handled(i)'
<1> SUFFICES ASSUME NEW i \in 1..Len(settled), Handled(i) PROVE Handled(i)'
  OBVIOUS
<1>1. settled[i] \in Invoices \cup {Foreign} /\ settled'[i] = settled[i]
  BY SettledElements DEF Kept
<1>2. CASE settled[i] = Foreign
  BY <1>1, <1>2 DEF Handled
<1>3. CASE settled[i] \in Invoices
  BY <1>1, <1>3, SettlementAssumption DEF Handled, Kept
<1> QED
  BY <1>1, <1>2, <1>3

-----------------------------------------------------------------------------
(* One lemma for each part of the invariant.                               *)

LEMMA RequestsPart ==
  ASSUME TypeOK, RequestsHold, ListenerKnows, Next
  PROVE  RequestsHold'
<1> USE SettlementAssumption DEF RequestsHold
<1>0. /\ request \in [Donors -> Requests] /\ made \subseteq Invoices
      /\ status \in [Invoices -> InvoiceStatus \cup {None}]
      /\ taskOf \in [Invoices -> Tasks \cup {None}]
  BY DEF TypeOK, Requests
<1>9. Kept
  BY AllKept
<1>1. ASSUME NEW d \in Donors, NEW t \in Tasks, RequestDonation(d, t)
      PROVE  RequestsHold'
  BY <1>0, <1>1 DEF RequestDonation
<1>2. ASSUME NEW d \in Donors, CreateInvoice(d) PROVE RequestsHold'
  <2>1. PICK h \in Invoices \ made :
          /\ request' = [request EXCEPT ![d] =
                           [stage |-> "save", task |-> request[d].task,
                            invoice |-> h]]
          /\ made' = made \cup {h}
    BY <1>2 DEF CreateInvoice
  <2>2. /\ request[d].stage = "create"
        /\ UNCHANGED <<status, taskOf>>
    BY <1>2 DEF CreateInvoice
  <2>3. \A e \in Donors \ {d} : request'[e] = request[e]
    BY <1>0, <2>1
  <2>4. /\ request'[d].stage = "save" /\ request'[d].task = request[d].task
        /\ request'[d].invoice = h
    BY <1>0, <2>1
  <2> QED
    BY <1>0, <2>1, <2>2, <2>3, <2>4
<1>3. ASSUME NEW d \in Donors, SaveInvoice(d) PROVE RequestsHold'
  <2> DEFINE h == request[d].invoice
  <2>1. /\ request[d].stage = "save" /\ h \in made /\ request[d].task \in Tasks
        /\ status' = [status EXCEPT ![h] = "pending"]
        /\ taskOf' = [taskOf EXCEPT ![h] = request[d].task]
        /\ request' = [request EXCEPT ![d].stage = "return"]
        /\ made' = made
    BY <1>3 DEF SaveInvoice
  <2>2. /\ \A e \in Donors \ {d} : request'[e] = request[e]
        /\ request'[d].stage = "return" /\ request'[d].invoice = h
        /\ request'[d].task = request[d].task
    BY <1>0, <2>1 DEF Requests
  <2>3. /\ status'[h] = "pending" /\ taskOf'[h] \in Tasks
        /\ \A g \in Invoices \ {h} : status'[g] = status[g] /\ taskOf'[g] = taskOf[g]
    BY <1>0, <2>1
  <2> HIDE DEF h
  <2>4. \A e \in Donors \ {d} : request[e].stage = "save" => request[e].invoice # h
    BY <2>1 DEF h
  <2>5. \A e \in Donors \ {d} : request[e].stage = "return" =>
          status'[request[e].invoice] # None /\ taskOf'[request[e].invoice] # None
    BY <1>0, <2>3
  <2> QED
    BY <1>0, <2>1, <2>2, <2>3, <2>4, <2>5
<1>4. ASSUME NEW d \in Donors, request' = [request EXCEPT ![d] = IdleRequest],
             UNCHANGED <<status, taskOf, made>>
      PROVE  RequestsHold'
  BY <1>0, <1>4 DEF IdleRequest
\* Every other step leaves the requests alone and writes only rows that exist.
<1>5. ASSUME UNCHANGED <<request, taskOf, made>>,
             \A h \in Invoices : status[h] = None => status'[h] = None
      PROVE  RequestsHold'
  BY <1>0, <1>5, <1>9 DEF Kept
<1>6. CASE MarkSettled
  <2>1. /\ UNCHANGED <<request, taskOf, made>>
        /\ \A h \in Invoices : status[h] = None => status'[h] = None
    BY <1>0, <1>6 DEF MarkSettled, requestVars
  <2> QED
    BY <1>5, <2>1
<1>7. CASE ExpirePendingInvoices
  <2>1. /\ UNCHANGED <<request, taskOf, made>>
        /\ \A h \in Invoices : status[h] = None => status'[h] = None
    BY <1>0, <1>7 DEF ExpirePendingInvoices, requestVars
  <2> QED
    BY <1>5, <2>1
<1>8. CASE UNCHANGED <<request, taskOf, made, status>>
  BY <1>5, <1>8
<1> QED
  BY <1>1, <1>2, <1>3, <1>4, <1>6, <1>7, <1>8, StepKinds
     DEF RequestStep, ReturnInvoice, FailRequest, CloseDonations, LNDStep,
         SettleForeign, SettleOwn, Subscribe, TakeUpdate, Lookup,
         PublishSettled, AdvanceCursor, Restart, LoseCredit, requestVars

LEMMA PayablePart ==
  ASSUME TypeOK, RequestsHold, ListenerKnows, PayableIsKnown, Next
  PROVE  PayableIsKnown'
<1>1. Kept
  BY AllKept
<1>2. ASSUME NEW d \in Donors, ReturnInvoice(d) PROVE PayableIsKnown'
  <2>1. /\ status[request[d].invoice] # None /\ taskOf[request[d].invoice] # None
        /\ handed' = handed \cup {request[d].invoice}
        /\ UNCHANGED <<status, taskOf>>
    BY <1>2 DEF ReturnInvoice, RequestsHold
  <2> QED
    BY <2>1 DEF PayableIsKnown
<1>3. CASE handed' = handed
  BY <1>1, <1>3 DEF PayableIsKnown, Kept
<1> QED
  BY <1>2, <1>3, StepKinds
     DEF RequestStep, RequestDonation, CreateInvoice, SaveInvoice, FailRequest,
         CloseDonations, LNDStep, SettleForeign, SettleOwn, Subscribe,
         TakeUpdate, Lookup, MarkSettled, PublishSettled, AdvanceCursor,
         ExpirePendingInvoices, Restart, LoseCredit, requestVars

LEMMA PaidPart ==
  ASSUME TypeOK, RequestsHold, ListenerKnows, PaidWereHanded, Next
  PROVE  PaidWereHanded'
<1>1. Kept /\ Len(settled) \in Nat
  BY AllKept, SettledElements
<1>2. CASE LNDStep
  <2>1. PICK x \in Invoices \cup {Foreign} :
          settled' = Append(settled, x) /\ (x # Foreign => x \in handed)
    BY <1>2 DEF LNDStep, SettleForeign, SettleOwn
  <2> QED
    BY <1>1, <2>1, ListGrows DEF Kept, PaidWereHanded
<1>3. CASE settled' = settled
  BY <1>1, <1>3 DEF Kept, PaidWereHanded
<1> QED
  BY <1>2, <1>3, StepKinds
     DEF RequestStep, RequestDonation, CreateInvoice, SaveInvoice,
         ReturnInvoice, FailRequest, CloseDonations, Subscribe, TakeUpdate,
         Lookup, MarkSettled, PublishSettled, AdvanceCursor,
         ExpirePendingInvoices, Restart, LoseCredit

\* What LND has settled it does not unsettle.
LEMMA PaidStays ==
  ASSUME TypeOK, Kept, NEW h \in Invoices, Paid(h)
  PROVE  Paid(h)'
  BY SettledElements DEF Paid, Kept

LEMMA RecordedPart ==
  ASSUME TypeOK, RequestsHold, ListenerKnows, RecordedWerePaid, Next
  PROVE  RecordedWerePaid'
<1>1. Kept /\ Len(settled) \in Nat
  BY AllKept, SettledElements
<1>2. ASSUME NEW h \in Invoices, status'[h] = "settled", status[h] # "settled"
      PROVE  Paid(h)
  <2>1. ASSUME NEW d \in Donors, SaveInvoice(d) PROVE FALSE
    BY <1>2, <2>1 DEF SaveInvoice, TypeOK
  <2>2. CASE MarkSettled
    BY <1>2, <2>2 DEF MarkSettled, ListenerKnows, Paid, TypeOK
  <2>3. CASE ExpirePendingInvoices
    BY <1>2, <2>3 DEF ExpirePendingInvoices
  <2>4. CASE status' = status
    BY <1>2, <2>4
  <2> QED
    BY <2>1, <2>2, <2>3, <2>4, StepKinds
       DEF RequestStep, RequestDonation, CreateInvoice, ReturnInvoice,
           FailRequest, CloseDonations, LNDStep, SettleForeign, SettleOwn,
           Subscribe, TakeUpdate, Lookup, PublishSettled, AdvanceCursor,
           Restart, LoseCredit, requestVars
<1>3. \A h \in Invoices : Paid(h) => Paid(h)'
  BY <1>1, PaidStays
<1> QED
  BY <1>2, <1>3 DEF RecordedWerePaid

LEMMA CreditsPart ==
  ASSUME TypeOK, RequestsHold, ListenerKnows, CreditsFollow, Next
  PROVE  CreditsFollow'
<1>1. Kept
  BY AllKept
<1>2. CASE PublishSettled
  <2> DEFINE g == settled[listener.item]
  <2>1. /\ g \in Invoices /\ status[g] = "settled" /\ credits[g] = 0
        /\ credits' = [credits EXCEPT ![g] = @ + 1] /\ status' = status
    BY <1>2, SettledElements DEF PublishSettled, ListenerKnows
  <2> HIDE DEF g
  <2> QED
    BY <2>1 DEF CreditsFollow, TypeOK
<1>3. CASE credits' = credits
  BY <1>1, <1>3 DEF CreditsFollow, Kept
<1> QED
  BY <1>2, <1>3, StepKinds
     DEF RequestStep, RequestDonation, CreateInvoice, SaveInvoice,
         ReturnInvoice, FailRequest, CloseDonations, LNDStep, SettleForeign,
         SettleOwn, Subscribe, TakeUpdate, Lookup, MarkSettled, AdvanceCursor,
         ExpirePendingInvoices, Restart, LoseCredit

\* All that a run of handled updates needs to stay one.
LEMMA HandledRunStays ==
  ASSUME TypeOK, Kept, NEW m \in Nat, NEW n \in Nat, n <= Len(settled),
         \A i \in m + 1..n : Handled(i)
  PROVE  n <= Len(settled') /\ \A i \in m + 1..n : Handled(i)'
<1>1. Len(settled) \in Nat /\ Len(settled') \in Nat
  BY SettledElements DEF Kept
<1>2. \A i \in m + 1..n : i \in 1..Len(settled)
  BY <1>1
<1> QED
  BY <1>1, <1>2, HandledStays DEF Kept

LEMMA ListenerPart ==
  ASSUME SettleInv, Next
  PROVE  ListenerKnows'
<1> USE SettlementAssumption
<1>0. /\ TypeOK /\ RequestsHold /\ ListenerKnows /\ Kept /\ TypeOK'
      /\ Len(settled) \in Nat /\ Len(settled') \in Nat
      /\ listener \in [stage: ListenerStages, pos: Nat, item: Nat]
      /\ listener.pos <= Len(settled)
  BY AllKept, TypePart, SettledElements DEF SettleInv, TypeOK, ListenerKnows, Kept
\* A step that does not concern the listener.
<1>1. ASSUME UNCHANGED <<listener, credits>>
      PROVE  ListenerKnows'
  <2>1. listener.pos <= Len(settled')
    BY <1>0 DEF Kept
  <2>2. CASE listener.stage \in {"mark", "publish", "advance"}
    <3> DEFINE j == listener.item
    <3>1. /\ j \in 1..Len(settled) /\ j \in 1..Len(settled')
          /\ settled'[j] = settled[j] /\ j <= listener.pos + 1
          /\ settled[j] \in Invoices \cup {Foreign}
      BY <1>0, <2>2, SettledElements DEF ListenerKnows, Kept
    <3>2. Handled(j) => Handled(j)'
      <4> HIDE DEF j
      <4>1. \A i \in 1..Len(settled) : Handled(i) => Handled(i)'
        BY <1>0, HandledStays
      <4>2. j' = j
        BY <1>1 DEF j
      <4> QED
        BY <3>1, <4>1, <4>2 DEF Handled
    <3>3. settled[j] # Foreign =>
            /\ status[settled[j]] # None => status'[settled[j]] # None
            /\ status[settled[j]] = "settled" => status'[settled[j]] = "settled"
      BY <1>0, <3>1 DEF Kept
    <3> QED
      BY <1>0, <1>1, <2>1, <2>2, <3>1, <3>2, <3>3 DEF ListenerKnows
  <2>3. CASE listener.stage \notin {"mark", "publish", "advance"}
    BY <1>1, <2>1, <2>3 DEF ListenerKnows
  <2> QED
    BY <2>2, <2>3
<1>2. CASE Subscribe
  <2>1. PICK n \in ResumeIndexes :
          listener' = [stage |-> "stream", pos |-> StreamStart(n), item |-> 0]
    BY <1>2 DEF Subscribe, Move
  <2>2. n \in SeenIndexes /\ UNCHANGED <<status, settled>>
    BY <1>2 DEF Subscribe, ResumeIndexes
  <2>3. StreamStart(n) <= Len(settled)
    BY <1>0, <2>2 DEF SettleInv, IndexesExist, StreamStart
  <2> QED
    BY <2>1, <2>2, <2>3 DEF ListenerKnows, Handled
<1>3. CASE TakeUpdate
  <2>1. PICK i \in 1..Len(settled) : i <= listener.pos + 1 /\ Lookup(i)
    BY <1>3 DEF TakeUpdate
  <2>2. UNCHANGED <<status, settled, credits>>
    BY <2>1 DEF Lookup
  <2>3. settled[i] # Foreign => status[settled[i]] # None
    BY <2>1, SettledElements
       DEF SettleInv, PaidWereHanded, PayableIsKnown
  <2>4. CASE settled[i] # Foreign
    <3>1. listener' = [stage |-> "mark", pos |-> listener.pos, item |-> i]
      BY <2>1, <2>3, <2>4 DEF Lookup, Move
    <3> QED
      BY <1>0, <2>1, <2>2, <2>3, <2>4, <3>1 DEF ListenerKnows, Handled
  <2>5. CASE settled[i] = Foreign
    <3>1. listener' = [stage |-> "advance", pos |-> listener.pos, item |-> i]
      BY <2>1, <2>5 DEF Lookup, Move
    <3> QED
      BY <1>0, <2>1, <2>2, <2>5, <3>1 DEF ListenerKnows, Handled
  <2> QED
    BY <2>4, <2>5
\* Marking, publishing and losing the credit all keep the update in hand.
<1>4. ASSUME NEW stage \in {"publish", "advance"},
             listener.stage \in {"mark", "publish"},
             listener' = [stage |-> stage, pos |-> listener.pos,
                          item |-> listener.item],
             settled' = settled, Handled(listener.item)',
             stage = "publish" => settled[listener.item] # Foreign
                                  /\ credits'[settled[listener.item]] = 0
      PROVE  ListenerKnows'
  <2>1. listener.pos <= Len(settled')
    BY <1>0 DEF Kept
  <2>2. listener.item \in 1..Len(settled) /\ listener.item <= listener.pos + 1
    BY <1>0, <1>4 DEF ListenerKnows
  <2> QED
    BY <1>0, <1>4, <2>1, <2>2 DEF ListenerKnows, Handled
<1>5. CASE MarkSettled
  <2> DEFINE g == settled[listener.item]
  <2>1. /\ listener.stage = "mark" /\ g \in Invoices /\ status[g] # None
        /\ settled' = settled /\ credits' = credits /\ g # Foreign
    BY <1>0, <1>5, SettledElements DEF MarkSettled, ListenerKnows
  <2>2. CASE status[g] \in {"pending", "expired"}
    <3>1. /\ status' = [status EXCEPT ![g] = "settled"]
          /\ listener' = [stage |-> "publish", pos |-> listener.pos,
                          item |-> listener.item]
      BY <1>5, <2>2 DEF MarkSettled, Move
    <3>2. status'[g] = "settled" /\ credits'[g] = 0
      BY <1>0, <2>1, <2>2, <3>1 DEF TypeOK, SettleInv, CreditsFollow
    <3> QED
      BY <1>4, <2>1, <3>1, <3>2 DEF Handled
  <2>3. CASE status[g] \notin {"pending", "expired"}
    <3>1. /\ status' = status
          /\ listener' = [stage |-> "advance", pos |-> listener.pos,
                          item |-> listener.item]
      BY <1>5, <2>3 DEF MarkSettled, Move
    <3>2. status[g] = "settled"
      BY <1>0, <2>1, <2>3 DEF TypeOK, InvoiceStatus
    <3> QED
      BY <1>4, <2>1, <3>1, <3>2 DEF Handled
  <2> QED
    BY <2>2, <2>3
<1>6. CASE PublishSettled \/ LoseCredit
  <2>1. /\ listener.stage = "publish" /\ UNCHANGED <<settled, status>>
        /\ listener' = [stage |-> "advance", pos |-> listener.pos,
                        item |-> listener.item]
    BY <1>6 DEF PublishSettled, LoseCredit, Move
  <2>2. Handled(listener.item)'
    BY <1>0, <2>1 DEF ListenerKnows, Handled
  <2> QED
    BY <1>4, <2>1, <2>2
<1>7. CASE AdvanceCursor
  <2>1. /\ listener.stage = "advance" /\ UNCHANGED <<settled, status>>
        /\ listener' = [stage |-> "stream", pos |-> Furthest(listener.item),
                        item |-> 0]
    BY <1>7 DEF AdvanceCursor, Move
  <2>2. /\ listener.item \in 1..Len(settled) /\ listener.item <= listener.pos + 1
        /\ Handled(listener.item)
    BY <1>0, <2>1 DEF ListenerKnows
  <2>3. Furthest(listener.item) <= Len(settled)
    BY <1>0, <2>2 DEF Furthest
  <2> QED
    BY <2>1, <2>3 DEF ListenerKnows
<1>8. CASE Restart
  <2>1. listener' = [stage |-> "resume", pos |-> 0, item |-> 0]
    BY <1>8 DEF Restart, Move
  <2> QED
    BY <1>0, <2>1 DEF ListenerKnows
<1> QED
  BY <1>1, <1>2, <1>3, <1>5, <1>6, <1>7, <1>8, StepKinds, <1>0
     DEF RequestStep, RequestDonation, CreateInvoice, SaveInvoice,
         ReturnInvoice, FailRequest, CloseDonations, LNDStep, SettleForeign,
         SettleOwn, ExpirePendingInvoices

\* Only marking and the cursor bring a new stored index, that of the update in
\* hand.
LEMMA NewIndexes ==
  ASSUME SettleInv, Next
  PROVE  /\ SeenIndexes' \subseteq SeenIndexes \cup {listener.item}
         /\ SeenIndexes' # SeenIndexes => MarkSettled \/ AdvanceCursor
<1>0. /\ TypeOK /\ RequestsHold /\ ListenerKnows
      /\ cursor \in Nat /\ index \in [Invoices -> Nat]
  BY DEF SettleInv, TypeOK
<1>2. SeenIndexes' \subseteq SeenIndexes \cup {listener.item}
      /\ (SeenIndexes' # SeenIndexes => MarkSettled \/ AdvanceCursor)
  <2>1. ASSUME NEW d \in Donors, SaveInvoice(d) PROVE SeenIndexes' = SeenIndexes
    <3>1. /\ request[d].invoice \in Invoices
          /\ status[request[d].invoice] = None
          /\ status' = [status EXCEPT ![request[d].invoice] = "pending"]
          /\ UNCHANGED <<index, cursor>>
      BY <1>0, <2>1 DEF SaveInvoice, RequestsHold, TypeOK
    <3> QED
      BY <1>0, <3>1, SettlementAssumption DEF SeenIndexes, TypeOK
  <2>2. CASE ExpirePendingInvoices
    BY <1>0, <2>2 DEF ExpirePendingInvoices, SeenIndexes
  <2>3. CASE MarkSettled
    <3> DEFINE g == settled[listener.item]
    <3>1. /\ cursor' = cursor /\ g \in Invoices
          /\ \/ UNCHANGED <<status, index>>
             \/ /\ status' = [status EXCEPT ![g] = "settled"]
                /\ index' = [index EXCEPT ![g] = listener.item]
      BY <1>0, <2>3, SettledElements DEF MarkSettled, ListenerKnows
    <3> HIDE DEF g
    <3> QED
      BY <1>0, <2>3, <3>1 DEF SeenIndexes, TypeOK
  <2>4. CASE AdvanceCursor
    BY <2>4 DEF AdvanceCursor, SeenIndexes
  <2>5. CASE UNCHANGED <<status, index, cursor>>
    BY <2>5 DEF SeenIndexes
  <2> QED
    BY <2>1, <2>2, <2>3, <2>4, <2>5, StepKinds, <1>0
       DEF RequestStep, RequestDonation, CreateInvoice, ReturnInvoice,
           FailRequest, CloseDonations, LNDStep, SettleForeign, SettleOwn,
           Subscribe, TakeUpdate, Lookup, PublishSettled, Restart, LoseCredit,
           requestVars
<1> QED
  BY <1>2

LEMMA IndexesPart ==
  ASSUME SettleInv, Next
  PROVE  IndexesExist'
<1>1. /\ TypeOK /\ ListenerKnows /\ IndexesExist /\ Kept
      /\ Len(settled) \in Nat /\ Len(settled') \in Nat
      /\ Len(settled) <= Len(settled')
  BY AllKept, SettledElements DEF SettleInv, Kept
<1>2. \A n \in SeenIndexes : n \in Nat /\ n <= Len(settled')
  BY <1>1 DEF SeenIndexes, TypeOK, IndexesExist
<1>3. MarkSettled \/ AdvanceCursor => listener.item <= Len(settled')
  BY <1>1 DEF MarkSettled, AdvanceCursor, ListenerKnows
<1> QED
  BY <1>2, <1>3, NewIndexes DEF IndexesExist

\* Only a subscription without an index leaves anything out: all that LND had
\* settled by then, from the first of them on.
LEMMA OnlySubscribeOmits ==
  ASSUME SettleInv, Next
  PROVE  omitted' = omitted \/ Subscribe
  BY StepKinds
     DEF SettleInv, RequestStep, RequestDonation, CreateInvoice, SaveInvoice,
         ReturnInvoice, FailRequest, CloseDonations, LNDStep, SettleForeign,
         SettleOwn, ExpirePendingInvoices, TakeUpdate, Lookup, MarkSettled,
         PublishSettled, AdvanceCursor, Restart, LoseCredit

LEMMA SubscribeOmits ==
  ASSUME SettleInv, Subscribe
  PROVE  /\ UNCHANGED <<status, index, cursor, settled>>
         /\ \/ /\ omitted' = omitted
               /\ \E n \in SeenIndexes :
                    listener' = [stage |-> "stream", pos |-> n, item |-> 0]
            \/ /\ omitted' = Len(settled) /\ SeenIndexes = {0}
               /\ listener' = [stage |-> "stream", pos |-> Len(settled), item |-> 0]
<1>1. UNCHANGED <<status, index, cursor, settled>>
  BY DEF Subscribe
<1>2. PICK n \in ResumeIndexes :
        /\ listener' = [stage |-> "stream", pos |-> StreamStart(n), item |-> 0]
        /\ omitted' = IF n > 0 THEN omitted ELSE Len(settled)
  BY DEF Subscribe, Move
<1>3. n \in SeenIndexes /\ SeenIndexes \subseteq Nat /\ \A m \in SeenIndexes : m <= n
  BY DEF ResumeIndexes, SeenIndexes, SettleInv, TypeOK
<1>4. CASE n > 0
  BY <1>1, <1>2, <1>3, <1>4 DEF StreamStart
<1>5. CASE ~ (n > 0)
  <2>1. n = 0 /\ \A m \in SeenIndexes : m = 0
    BY <1>3, <1>5
  <2>2. SeenIndexes = {0}
    BY <1>3, <2>1
  <2> QED BY <1>1, <1>2, <1>5, <2>2 DEF StreamStart
<1> QED BY <1>4, <1>5

LEMMA PlacePart ==
  ASSUME SettleInv, Next
  PROVE  PlaceHandled'
<1>0. /\ TypeOK /\ ListenerKnows /\ Kept /\ PlaceHandled /\ ResumeNeverSkips
      /\ listener.pos \in Nat /\ listener.item \in Nat /\ omitted \in Nat
      /\ listener.pos <= Len(settled) /\ IndexesExist /\ Len(settled) \in Nat
  BY AllKept, SettledElements DEF SettleInv, TypeOK, ListenerKnows
<1>1. \A i \in omitted + 1..listener.pos : Handled(i)'
  BY <1>0, HandledRunStays DEF PlaceHandled
<1>2. CASE Subscribe
  <2>1. UNCHANGED <<status, settled>>
    BY <1>2, SubscribeOmits
  <2>2. CASE omitted' = omitted /\ listener'.pos \in SeenIndexes
    BY <1>0, <2>1, <2>2 DEF ResumeNeverSkips, PlaceHandled, Handled
  <2>3. CASE omitted' = Len(settled) /\ listener'.pos = Len(settled)
    BY <1>0, <2>3 DEF PlaceHandled
  <2> QED
    BY <1>2, <2>2, <2>3, SubscribeOmits
<1>3. CASE AdvanceCursor
  <2>1. /\ listener.stage = "advance" /\ UNCHANGED <<settled, status, omitted>>
        /\ listener'.pos = Furthest(listener.item)
    BY <1>3 DEF AdvanceCursor, Move
  <2>2. listener.item <= listener.pos + 1 /\ Handled(listener.item)
    BY <1>0, <2>1 DEF ListenerKnows
  <2>3. \A i \in omitted + 1..Furthest(listener.item) :
          i \in omitted + 1..listener.pos \/ i = listener.item
    BY <1>0, <2>2 DEF Furthest
  <2> QED
    BY <1>0, <2>1, <2>2, <2>3 DEF PlaceHandled, Handled
<1>4. CASE Restart
  BY <1>0, <1>4 DEF Restart, Move, PlaceHandled
<1>5. CASE listener'.pos = listener.pos /\ omitted' = omitted
  BY <1>1, <1>5 DEF PlaceHandled, Handled
<1>6. Subscribe \/ AdvanceCursor \/ Restart \/ listener'.pos = listener.pos
  BY <1>0, StepKinds
     DEF RequestStep, RequestDonation, CreateInvoice, SaveInvoice,
         ReturnInvoice, FailRequest, CloseDonations, LNDStep, SettleForeign,
         SettleOwn, ExpirePendingInvoices, TakeUpdate, Lookup, MarkSettled,
         PublishSettled, LoseCredit, Move
<1> QED
  BY <1>2, <1>3, <1>4, <1>5, <1>6, OnlySubscribeOmits

LEMMA ResumePart ==
  ASSUME SettleInv, Next
  PROVE  ResumeNeverSkips'
<1>0. /\ TypeOK /\ RequestsHold /\ ListenerKnows /\ Kept /\ TypeOK'
      /\ Len(settled) \in Nat /\ Len(settled') \in Nat /\ omitted \in Nat
      /\ listener.pos <= Len(settled)
      /\ \A i \in omitted + 1..listener.pos : Handled(i)
      /\ cursor \in Nat /\ index \in [Invoices -> Nat]
      /\ \A n \in SeenIndexes :
           n <= Len(settled) /\ \A i \in omitted + 1..n : Handled(i)
  BY AllKept, TypePart, SettledElements
     DEF SettleInv, TypeOK, ListenerKnows, Kept, ResumeNeverSkips, PlaceHandled
<1>4. CASE Subscribe
  <2>1. UNCHANGED <<status, settled>> /\ SeenIndexes' = SeenIndexes
    BY <1>4, SubscribeOmits DEF SeenIndexes
  <2>2. CASE omitted' = omitted
    BY <1>0, <2>1, <2>2 DEF ResumeNeverSkips, Handled
  <2>3. CASE omitted' = Len(settled) /\ SeenIndexes = {0}
    BY <1>0, <2>1, <2>3 DEF ResumeNeverSkips
  <2> QED
    BY <1>4, <2>2, <2>3, SubscribeOmits
\* An index that was safe to resume from still is.
<1>1. \A n \in SeenIndexes :
        n <= Len(settled') /\ \A i \in omitted + 1..n : Handled(i)'
  <2>1. SeenIndexes \subseteq Nat
    BY <1>0 DEF SeenIndexes
  <2> QED
    BY <1>0, <2>1, HandledRunStays
\* That of the update in hand is safe once the step is taken.
<1>3. ASSUME MarkSettled \/ AdvanceCursor
      PROVE  /\ listener.item <= Len(settled')
             /\ \A i \in omitted + 1..listener.item : Handled(i)'
  <2>1. /\ listener.item \in 1..Len(settled) /\ listener.item <= listener.pos + 1
        /\ settled' = settled
    BY <1>0, <1>3 DEF MarkSettled, AdvanceCursor, ListenerKnows
  <2>2. \/ settled[listener.item] = Foreign
        \/ status'[settled[listener.item]] = "settled"
    <3>1. CASE AdvanceCursor
      BY <1>0, <3>1 DEF AdvanceCursor, ListenerKnows, Handled
    <3>2. CASE MarkSettled
      <4> DEFINE g == settled[listener.item]
      <4>1. /\ g \in Invoices /\ status[g] \in InvoiceStatus
            /\ \/ status[g] \in {"pending", "expired"}
                  /\ status' = [status EXCEPT ![g] = "settled"]
               \/ status[g] \notin {"pending", "expired"} /\ status' = status
        BY <1>0, <3>2, SettledElements DEF MarkSettled, ListenerKnows, TypeOK
      <4> HIDE DEF g
      <4>2. status'[g] = "settled"
        BY <1>0, <4>1 DEF TypeOK, InvoiceStatus
      <4> QED
        BY <4>2 DEF g
    <3> QED
      BY <1>3, <3>1, <3>2
  <2>3. listener.pos \in Nat /\ listener.item \in Nat
    BY <1>0 DEF TypeOK
  <2>4. \A i \in omitted + 1..listener.pos : Handled(i)'
    BY <1>0, <2>3, HandledRunStays
  <2>5. \A i \in omitted + 1..listener.item :
          i \in omitted + 1..listener.pos \/ i = listener.item
    BY <1>0, <2>1, <2>3
  <2> QED
    BY <1>0, <2>1, <2>2, <2>3, <2>4, <2>5 DEF Handled
<1>5. CASE omitted' = omitted
  BY <1>1, <1>3, <1>5, NewIndexes DEF ResumeNeverSkips
<1> QED
  BY <1>4, <1>5, OnlySubscribeOmits

-----------------------------------------------------------------------------
(* The invariant, and what follows from it.                                *)

LEMMA SettleInvInit ==
  ASSUME Init
  PROVE  SettleInv
<1> USE SettlementAssumption DEF Init
<1>1. TypeOK
  BY EmptySeq DEF TypeOK, ListenerStages, InvoiceStatus, IdleRequest
<1>2. Len(settled) = 0
  BY EmptySeq
<1>3. RequestsHold /\ PayableIsKnown /\ RecordedWerePaid /\ CreditsFollow
  BY DEF RequestsHold, IdleRequest, PayableIsKnown, RecordedWerePaid,
         CreditsFollow
<1>4. PaidWereHanded /\ ListenerKnows
  BY <1>2 DEF PaidWereHanded, ListenerKnows
<1>5. SeenIndexes = {0}
  BY DEF SeenIndexes
<1>6. ResumeNeverSkips /\ IndexesExist /\ PlaceHandled
  BY <1>2, <1>5 DEF ResumeNeverSkips, IndexesExist, PlaceHandled
<1> QED
  BY <1>1, <1>3, <1>4, <1>6 DEF SettleInv

LEMMA SettleInvStutter ==
  ASSUME SettleInv, UNCHANGED vars
  PROVE  SettleInv'
<1> USE DEF vars, requestVars
<1>1. TypeOK'
  BY DEF SettleInv, TypeOK
<1>2. RequestsHold' /\ PayableIsKnown'
  BY DEF SettleInv, RequestsHold, PayableIsKnown
<1>3. PaidWereHanded' /\ RecordedWerePaid' /\ CreditsFollow'
  BY DEF SettleInv, PaidWereHanded, RecordedWerePaid, CreditsFollow, Paid
<1>4. ListenerKnows'
  BY DEF SettleInv, ListenerKnows, Handled
<1>5. IndexesExist' /\ PlaceHandled' /\ ResumeNeverSkips'
  BY DEF SettleInv, IndexesExist, PlaceHandled, ResumeNeverSkips, SeenIndexes,
         Handled
<1> QED
  BY <1>1, <1>2, <1>3, <1>4, <1>5 DEF SettleInv

\* The inductive invariant holds in every reachable state of the requests, LND,
\* the listener and the expiry worker together.
THEOREM SettlementInvariant == Spec => []SettleInv
<1>1. SettleInv /\ Next => SettleInv'
  BY TypePart, RequestsPart, PayablePart, PaidPart, RecordedPart, CreditsPart,
     ListenerPart, IndexesPart, PlacePart, ResumePart DEF SettleInv
<1> QED
  BY <1>1, SettleInvInit, SettleInvStutter, PTL DEF Spec

\* The rows, the stream, the cursor and the listener's place keep their types.
THEOREM SettlementTypes == Spec => []TypeOK
<1>1. SettleInv => TypeOK
  BY DEF SettleInv
<1> QED
  BY <1>1, SettlementInvariant, PTL

\* LatestSettleIndex never resumes behind an unrecorded payment, however often
\* the stream is lost, a statement fails or the process dies, but for the
\* payments LND left out of a subscription without an index.
THEOREM NeverSkips == Spec => []ResumeNeverSkips
<1>1. SettleInv => ResumeNeverSkips
  BY DEF SettleInv
<1> QED
  BY <1>1, SettlementInvariant, PTL

\* MarkSettled reports the first settlement only, so that the ledger gets one
\* entry for a payment at most, through any repeats and restarts.
THEOREM NeverCreditedTwice == Spec => []CreditedAtMostOnce
<1>1. SettleInv => CreditedAtMostOnce
  BY DEF SettleInv, CreditedAtMostOnce, CreditsFollow, RecordedWerePaid
<1> QED
  BY <1>1, SettlementInvariant, PTL

\* RequestDonationInvoice saves the row before it answers, so that nobody can
\* pay an invoice whose settlement could not be attributed to a task.
THEOREM SavedBeforePayable == Spec => []PayableIsKnown
<1>1. SettleInv => PayableIsKnown
  BY DEF SettleInv
<1> QED
  BY <1>1, SettlementInvariant, PTL

LEMMA NextKeeps ==
  ASSUME SettleInv, Next
  PROVE  Kept
  BY AllKept DEF SettleInv

\* Neither the expiry sweep nor a repeated update rewrites a settled row, in
\* any interleaving with the listener.
THEOREM SettledRowsAreFinal == Spec => SettledIsFinal
<1> DEFINE Final == \A h \in Invoices :
             status[h] = "settled" => status'[h] = "settled"
                                      /\ index'[h] = index[h]
<1>1. SettleInv /\ [Next]_vars => [Final]_vars
  BY NextKeeps DEF Kept
<1> QED
  BY <1>1, SettlementInvariant, PTL DEF Spec, SettledIsFinal

\* The upsert of the cursor keeps the larger value, whatever updates LND
\* repeats.
THEOREM CursorOnlyGrows == Spec => CursorNeverBack
<1>1. SettleInv /\ [Next]_vars => [cursor' >= cursor]_cursor
  BY NextKeeps DEF Kept, vars
<1> QED
  BY <1>1, SettlementInvariant, PTL DEF Spec, CursorNeverBack

-----------------------------------------------------------------------------
(* What liveness rests on: a payment not yet recorded is ahead of the      *)
(* listener, and each of its steps brings the listener nearer.             *)

LEMMA BoundedHasMax ==
  ASSUME NEW S \in SUBSET Nat, S # {}, NEW N \in Nat, \A n \in S : n <= N
  PROVE  \E n \in S : \A m \in S : m <= n
<1> DEFINE T == {k \in Nat : N - k \in S}
<1>1. PICK n \in S : TRUE
  OBVIOUS
<1>2. N - n \in T
  <2>1. N - n \in Nat /\ N - (N - n) = n
    OBVIOUS
  <2> QED BY <2>1
<1>3. PICK k \in T : \A j \in T : ~ (<<j, k>> \in OpToRel(<, Nat))
  <2> HIDE DEF T
  <2>1. T \subseteq Nat
    BY DEF T
  <2> QED BY <2>1, <1>2, NatLessThanWellFounded, WFMin
<1>4. \A j \in T : ~ (j < k)
  BY <1>3 DEF OpToRel
<1>5. \A m \in S : m <= N - k
  <2> SUFFICES ASSUME NEW m \in S PROVE m <= N - k
    OBVIOUS
  <2>1. N - m \in T
    <3>1. N - m \in Nat /\ N - (N - m) = m
      OBVIOUS
    <3> QED BY <3>1
  <2>2. ~ (N - m < k) /\ k \in Nat
    BY <2>1, <1>4
  <2> QED BY <2>2
<1> QED BY <1>5

LEMMA SomeResumeIndex == SettleInv => ResumeIndexes # {}
<1> SUFFICES ASSUME SettleInv PROVE ResumeIndexes # {}
  OBVIOUS
<1>1. PICK S : S = SeenIndexes
  OBVIOUS
<1>2. PICK N \in Nat : N = Len(settled)
  BY SettledElements DEF SettleInv
<1>3. S \in SUBSET Nat /\ S # {}
  BY <1>1 DEF SeenIndexes, SettleInv, TypeOK
<1>4. \A n \in S : n <= N
  BY <1>1, <1>2 DEF SettleInv, IndexesExist
<1>5. \E n \in S : \A m \in S : m <= n
  BY <1>2, <1>3, <1>4, BoundedHasMax
<1> QED BY <1>1, <1>5 DEF ResumeIndexes

\* LND still has to deliver update i to where the listener stands or resumes.
Ahead(i) ==
  /\ listener.stage = "resume" =>
       ResumeIndexes # {} /\ \A n \in ResumeIndexes : n < i
  /\ listener.stage # "resume" => listener.pos < i

PaidIsAhead == \A i \in omitted + 1..Len(settled) : ~ Handled(i) => Ahead(i)

\* A payment that is not recorded, and that LND has not left out, is never
\* behind the listener, so that it is never left waiting with nothing to
\* receive; nor is there a moment with no index to resume from.
THEOREM PaidIsAheadAlways == Spec => []PaidIsAhead
<1>1. SettleInv => PaidIsAhead
  <2> SUFFICES ASSUME SettleInv, NEW i \in omitted + 1..Len(settled), ~ Handled(i)
               PROVE  Ahead(i)
    BY DEF PaidIsAhead
  <2>1. /\ Len(settled) \in Nat /\ listener.pos \in Nat /\ SeenIndexes \subseteq Nat
        /\ omitted \in Nat
    BY SettledElements DEF SettleInv, TypeOK, SeenIndexes
  <2>2. i \in Nat /\ omitted + 1 <= i
    BY <2>1
  <2>3. \A n \in SeenIndexes : n < i
    BY <2>1, <2>2 DEF SettleInv, ResumeNeverSkips
  <2>4. listener.pos < i
    BY <2>1, <2>2 DEF SettleInv, PlaceHandled
  <2>5. ResumeIndexes # {} /\ ResumeIndexes \subseteq SeenIndexes
    BY SomeResumeIndex DEF ResumeIndexes
  <2> QED BY <2>3, <2>4, <2>5 DEF Ahead
<1> QED BY <1>1, SettlementInvariant, PTL

\* The place in the stream after the update in hand, and the steps until then.
NextPlace == IF listener.stage = "stream" THEN listener.pos ELSE Furthest(listener.item)

StepsInHand == CASE listener.stage = "mark"    -> 3
                 [] listener.stage = "publish" -> 2
                 [] listener.stage = "advance" -> 1
                 [] OTHER                      -> 0

\* At most so many steps of the listener until it takes update i.
Distance(i) ==
  IF listener.stage = "resume" THEN 4 * i + 1 ELSE 4 * (i - NextPlace) + StepsInHand

\* Where the listener stands, in the form the steps below calculate with.
LEMMA WhereListenerStands ==
  ASSUME SettleInv, NEW i \in omitted + 1..Len(settled), ~ Handled(i)
  PROVE  /\ i \in Nat /\ listener.pos \in Nat /\ listener.item \in Nat
         /\ listener.stage \in ListenerStages /\ listener.pos < i
         /\ listener.stage \in {"mark", "publish", "advance"} =>
              listener.item <= listener.pos + 1
         /\ listener.stage \in {"publish", "advance"} => listener.item # i
<1>1. Len(settled) \in Nat /\ i \in Nat /\ omitted \in Nat /\ omitted + 1 <= i
  BY SettledElements DEF SettleInv, TypeOK
<1>2. listener.pos \in Nat /\ listener.item \in Nat /\ listener.stage \in ListenerStages
  BY DEF SettleInv, TypeOK
<1>3. listener.pos < i
  BY <1>1, <1>2 DEF SettleInv, PlaceHandled
<1>4. listener.stage \in {"mark", "publish", "advance"} => listener.item <= listener.pos + 1
  BY DEF SettleInv, ListenerKnows
<1>5. listener.stage \in {"publish", "advance"} => Handled(listener.item)
  BY DEF SettleInv, ListenerKnows, Handled
<1> QED BY <1>1, <1>2, <1>3, <1>4, <1>5

\* Update i is handled, or LND was asked without an index and left it out.
Over(i) == Handled(i) \/ i <= omitted

\* Until update i is over its distance is a natural number; every step of the
\* listener makes it smaller or is the last, and no other step makes it larger
\* but a failure.
ListenerComesNearer ==
  [][\A i \in 1..Len(settled) :
       ~ Over(i) =>
         /\ Distance(i) \in Nat
         /\ ListenerStep => Over(i)' \/ Distance(i)' < Distance(i)
         /\ faults' = faults => Over(i)' \/ Distance(i)' <= Distance(i)]_vars

LEMMA BeforeOver ==
  ASSUME SettleInv, NEW i \in 1..Len(settled), ~ Over(i)
  PROVE  i \in omitted + 1..Len(settled) /\ ~ Handled(i)
<1>1. i \in Nat /\ Len(settled) \in Nat /\ omitted \in Nat
  BY SettledElements DEF SettleInv, TypeOK
<1> QED BY <1>1 DEF Over

LEMMA DistanceType ==
  ASSUME SettleInv, NEW i \in omitted + 1..Len(settled), ~ Handled(i)
  PROVE  Distance(i) \in Nat
<1>1. CASE listener.stage = "resume"
  BY <1>1, WhereListenerStands DEF Distance
<1>2. CASE listener.stage # "resume"
  <2>1. NextPlace \in Nat /\ NextPlace <= i /\ StepsInHand \in Nat
    BY <1>2, WhereListenerStands DEF NextPlace, StepsInHand, Furthest, ListenerStages
  <2> QED BY <1>2, <2>1, WhereListenerStands DEF Distance
<1> QED BY <1>1, <1>2

LEMMA DistanceNow ==
  SettleInv => \A i \in 1..Len(settled) : ~ Over(i) => Distance(i) \in Nat
  BY DistanceType, BeforeOver

LEMMA DistanceLater ==
  SettleInv' => (\A i \in 1..Len(settled) : ~ Over(i) => Distance(i) \in Nat)'
  BY DistanceNow, PTL

LEMMA StepComesNearer ==
  ASSUME SettleInv, SettleInv', ListenerStep,
         NEW i \in omitted + 1..Len(settled), ~ Handled(i)
  PROVE  Over(i)' \/ Distance(i)' < Distance(i)
<1> SUFFICES ASSUME ~ Over(i)' PROVE Distance(i)' < Distance(i)
  OBVIOUS
<1>1. /\ i \in Nat /\ listener.pos \in Nat /\ listener.item \in Nat
      /\ listener.stage \in ListenerStages /\ listener.pos < i
      /\ listener.stage \in {"mark", "publish", "advance"} =>
           listener.item <= listener.pos + 1
      /\ listener.stage \in {"publish", "advance"} => listener.item # i
  BY WhereListenerStands
<1>2. CASE Subscribe
  <2>0. omitted' # Len(settled)
    BY <1>1 DEF Over
  <2>1. PICK n \in SeenIndexes : listener' = [stage |-> "stream", pos |-> n, item |-> 0]
    BY <1>2, <2>0, SubscribeOmits
  <2>2. n \in Nat
    BY DEF SettleInv, TypeOK, SeenIndexes
  <2>3. Distance(i) = 4 * i + 1
    BY <1>2 DEF Subscribe, Distance
  <2>4. Distance(i)' = 4 * (i - n) + 0
    BY <2>1 DEF Distance, NextPlace, StepsInHand
  <2> QED BY <1>1, <2>2, <2>3, <2>4
<1>3. CASE Receive
  <2>1. /\ listener.stage = "stream"
        /\ \/ listener' = [stage |-> "mark", pos |-> listener.pos,
                           item |-> listener.pos + 1]
           \/ listener' = [stage |-> "advance", pos |-> listener.pos,
                           item |-> listener.pos + 1]
    BY <1>3 DEF Receive, Lookup, Move
  <2>2. Distance(i) = 4 * (i - listener.pos) + 0
    BY <2>1 DEF Distance, NextPlace, StepsInHand
  <2>3. NextPlace' = listener.pos + 1
    BY <1>1, <2>1 DEF NextPlace, Furthest
  <2>4. StepsInHand' \in {1, 3} /\ listener'.stage # "resume"
    BY <2>1 DEF StepsInHand
  <2>5. Distance(i)' = 4 * (i - (listener.pos + 1)) + StepsInHand'
    BY <2>3, <2>4 DEF Distance
  <2> QED BY <1>1, <2>2, <2>4, <2>5
<1>4. CASE MarkSettled \/ PublishSettled
  <2>1. /\ listener.stage \in {"mark", "publish"}
        /\ listener'.stage \in {"publish", "advance"}
        /\ listener.stage = "publish" => listener'.stage = "advance"
        /\ listener'.pos = listener.pos /\ listener'.item = listener.item
    BY <1>4 DEF MarkSettled, PublishSettled, Move
  <2>2. NextPlace' = NextPlace /\ NextPlace \in Nat
    BY <1>1, <2>1 DEF NextPlace, Furthest
  <2>3. StepsInHand' < StepsInHand /\ StepsInHand \in Nat /\ StepsInHand' \in Nat
    BY <2>1 DEF StepsInHand
  <2>4. /\ Distance(i) = 4 * (i - NextPlace) + StepsInHand
        /\ Distance(i)' = 4 * (i - NextPlace) + StepsInHand'
    BY <2>1, <2>2 DEF Distance
  <2>5. PICK p \in Nat, m \in Nat, n \in Nat :
          p = NextPlace /\ m = StepsInHand' /\ n = StepsInHand /\ m < n
    BY <2>2, <2>3
  <2>6. PICK d \in Int : d = 4 * (i - p)
    OBVIOUS
  <2>7. Distance(i) = d + n /\ Distance(i)' = d + m
    BY <2>4, <2>5, <2>6
  <2>8. m < n
    BY <2>5
  <2>9. d + m < d + n
    BY <2>8
  <2> QED BY <2>7, <2>9
<1>5. CASE AdvanceCursor
  <2>1. /\ listener.stage = "advance"
        /\ listener' = [stage |-> "stream", pos |-> Furthest(listener.item), item |-> 0]
    BY <1>5 DEF AdvanceCursor, Move
  <2>2. Furthest(listener.item) \in Nat
    BY <1>1 DEF Furthest
  <2>3. Distance(i) = 4 * (i - Furthest(listener.item)) + 1
    BY <2>1 DEF Distance, NextPlace, StepsInHand
  <2>4. Distance(i)' = 4 * (i - Furthest(listener.item)) + 0
    BY <2>1 DEF Distance, NextPlace, StepsInHand
  <2> QED BY <1>1, <2>2, <2>3, <2>4
<1> QED BY <1>2, <1>3, <1>4, <1>5 DEF ListenerStep

\* The listener reaches every payment LND does not leave out: what keeps
\* PaidRecordedUnlessOmitted true, short of the fairness that makes it step.
THEOREM ListenerComesNearerAlways == Spec => ListenerComesNearer
<1> DEFINE Nearer ==
      \A i \in 1..Len(settled) :
        ~ Over(i) =>
          /\ Distance(i) \in Nat
          /\ ListenerStep => Over(i)' \/ Distance(i)' < Distance(i)
          /\ faults' = faults => Over(i)' \/ Distance(i)' <= Distance(i)
<1>1. ASSUME SettleInv, SettleInv', Next, NEW i \in 1..Len(settled), ~ Over(i)
      PROVE  /\ Distance(i) \in Nat
             /\ ListenerStep => Over(i)' \/ Distance(i)' < Distance(i)
             /\ faults' = faults => Over(i)' \/ Distance(i)' <= Distance(i)
  <2>1. Distance(i) \in Nat
    BY <1>1, DistanceNow
  <2>2. ListenerStep => Over(i)' \/ Distance(i)' < Distance(i)
    BY <1>1, BeforeOver, StepComesNearer
  <2>3. ASSUME faults' = faults, ~ Over(i)' PROVE Distance(i)' <= Distance(i)
    <3>1. CASE ListenerStep
      <4>1. i \in 1..Len(settled')
        BY <1>1, NextKeeps, SettledElements DEF Kept, SettleInv
      <4>2. Distance(i)' \in Nat
        BY <1>1, <2>3, <4>1, DistanceLater
      <4> QED BY <2>1, <2>2, <2>3, <3>1, <4>2
    <3>2. CASE listener' = listener
      <4>1. Distance(i)' = Distance(i)
        BY <3>2 DEF Distance, NextPlace, StepsInHand, Furthest
      <4> QED BY <2>1, <4>1
    <3>3. faults \in Nat
      BY <1>1 DEF SettleInv, TypeOK
    <3>4. ~ Fault
      BY <2>3, <3>3 DEF Fault
    <3> QED BY <1>1, <3>1, <3>2, <3>4
            DEF Next, RequestDonation, CreateInvoice, SaveInvoice, ReturnInvoice,
                FailRequest, CloseDonations, SettleOwn, SettleForeign, RepeatUpdate,
                ExpirePendingInvoices, Restart, LoseCredit
  <2> QED BY <2>1, <2>2, <2>3
<1>2. SettleInv /\ SettleInv' /\ [Next]_vars => [Nearer]_vars
  BY <1>1
<1> QED BY <1>2, SettlementInvariant, PTL DEF Spec, ListenerComesNearer

-----------------------------------------------------------------------------
(* The refinement.                                                         *)

DonationOf == [h \in Invoices |-> DonationState(h)]

FlowEdges == {<<"unknown", "issued">>, <<"issued", "paid">>,
              <<"paid", "settled">>, <<"settled", "credited">>}

\* One invoice moves along an edge and the others stay.
LEMMA EdgeIsFlowStep ==
  ASSUME NEW g \in Invoices, NEW from, NEW to, <<from, to>> \in FlowEdges,
         DonationState(g) = from, DonationState(g)' = to,
         \A h \in Invoices \ {g} : DonationState(h)' = DonationState(h)
  PROVE  Flow!FlowNext
<1>1. DonationOf[g] = from /\ DonationOf' = [DonationOf EXCEPT ![g] = to]
  BY DEF DonationOf
<1>2. \/ Flow!Advance(g, "unknown", "issued") \/ Flow!Advance(g, "issued", "paid")
      \/ Flow!Advance(g, "paid", "settled")
      \/ Flow!Advance(g, "settled", "credited")
  BY <1>1 DEF Flow!Advance, DonationOf, FlowEdges
<1> QED
  BY <1>2 DEF Flow!FlowNext

\* An invoice whose row, payment, hand-over and credits stay put stays put.
LEMMA SameDonation ==
  ASSUME TypeOK, Kept, NEW h \in Invoices, credits'[h] = credits[h],
         (status'[h] = "settled") <=> (status[h] = "settled"),
         (h \in handed') <=> (h \in handed),
         Paid(h)' => Paid(h)
  PROVE  DonationState(h)' = DonationState(h)
  BY PaidStays DEF DonationState

LEMMA ReturnImplements ==
  ASSUME SettleInv, Next, NEW d \in Donors, ReturnInvoice(d)
  PROVE  Flow!FlowNext \/ DonationOf' = DonationOf
\* The invoice is fixed before the step, which resets the request.
<1>0. PICK g \in Invoices : g = request[d].invoice
  BY DEF SettleInv, RequestsHold, ReturnInvoice, TypeOK
<1>1. /\ TypeOK /\ Kept
      /\ handed' = handed \cup {g}
      /\ UNCHANGED <<status, settled, credits>>
  BY <1>0, NextKeeps DEF SettleInv, ReturnInvoice
<1>2. \A h \in Invoices : Paid(h)' => Paid(h)
  BY <1>1 DEF Paid
<1>3. \A h \in Invoices :
        h # g \/ h \in handed => DonationState(h)' = DonationState(h)
  BY <1>1, <1>2, SameDonation
<1>4. CASE g \in handed
  BY <1>3, <1>4 DEF DonationOf
<1>5. CASE g \notin handed
  <2>1. ~ Paid(g)
    BY <1>1, <1>5, SettlementAssumption DEF SettleInv, PaidWereHanded, Paid
  <2>2. status[g] # "settled" /\ credits[g] = 0
    BY <1>1, <2>1 DEF SettleInv, RecordedWerePaid, CreditsFollow
  <2>3. DonationState(g) = "unknown" /\ DonationState(g)' = "issued"
    BY <1>1, <1>2, <1>5, <2>1, <2>2 DEF DonationState
  <2> QED
    BY <1>1, <1>3, <2>3, EdgeIsFlowStep DEF FlowEdges
<1> QED
  BY <1>4, <1>5

LEMMA SettleImplements ==
  ASSUME SettleInv, Next, LNDStep
  PROVE  Flow!FlowNext \/ DonationOf' = DonationOf
<1>1. /\ TypeOK /\ Kept /\ UNCHANGED <<handed, status, credits>>
      /\ Len(settled) \in Nat
  BY NextKeeps, SettledElements
     DEF SettleInv, LNDStep, SettleForeign, SettleOwn, requestVars
<1>2. PICK x \in Invoices \cup {Foreign} :
        /\ settled' = Append(settled, x)
        /\ x # Foreign => x \in handed /\ ~ Paid(x)
  BY DEF LNDStep, SettleForeign, SettleOwn
<1>3. /\ Len(settled') = Len(settled) + 1 /\ settled'[Len(settled) + 1] = x
      /\ \A i \in 1..Len(settled) : settled'[i] = settled[i]
  BY <1>1, <1>2, ListGrows
<1>4. \A h \in Invoices : h # x => (Paid(h)' => Paid(h))
  BY <1>1, <1>3 DEF Paid
<1>5. \A h \in Invoices : h # x => DonationState(h)' = DonationState(h)
  BY <1>1, <1>4, SameDonation
<1>6. CASE x = Foreign
  BY <1>5, <1>6, SettlementAssumption DEF DonationOf
<1>7. CASE x # Foreign
  <2>1. x \in Invoices /\ x \in handed /\ ~ Paid(x)
    BY <1>2, <1>7
  <2>2. status[x] # "settled" /\ credits[x] = 0
    BY <1>1, <2>1 DEF SettleInv, RecordedWerePaid, CreditsFollow
  <2>3. Paid(x)'
    BY <1>1, <1>3 DEF Paid
  <2>4. DonationState(x) = "issued" /\ DonationState(x)' = "paid"
    BY <1>1, <2>1, <2>2, <2>3 DEF DonationState
  <2> QED
    BY <1>5, <2>1, <2>4, EdgeIsFlowStep DEF FlowEdges
<1> QED
  BY <1>6, <1>7

LEMMA MarkImplements ==
  ASSUME SettleInv, Next, MarkSettled
  PROVE  Flow!FlowNext \/ DonationOf' = DonationOf
<1>0. PICK g \in Invoices : g = settled[listener.item]
  BY SettledElements DEF SettleInv, MarkSettled, ListenerKnows
<1>1. /\ TypeOK /\ Kept /\ UNCHANGED <<handed, settled, credits>>
      /\ listener.item \in 1..Len(settled)
  BY NextKeeps
     DEF SettleInv, MarkSettled, ListenerKnows, requestVars
<1>2. \/ status[g] \in {"pending", "expired"}
         /\ status' = [status EXCEPT ![g] = "settled"]
      \/ status' = status
  BY <1>0 DEF MarkSettled
<1>3. Paid(g)
  BY <1>0, <1>1 DEF Paid
<1>4. \A h \in Invoices : Paid(h)' => Paid(h)
  BY <1>1 DEF Paid
<1>5. CASE status' = status
  BY <1>1, <1>4, <1>5, SameDonation DEF DonationOf
<1>6. CASE /\ status[g] \in {"pending", "expired"}
           /\ status' = [status EXCEPT ![g] = "settled"]
  <2>1. credits[g] = 0 /\ status'[g] = "settled"
    BY <1>1, <1>6 DEF SettleInv, CreditsFollow, TypeOK
  <2>2. \A h \in Invoices \ {g} : status'[h] = status[h]
    BY <1>1, <1>6 DEF TypeOK
  <2>3. \A h \in Invoices \ {g} : DonationState(h)' = DonationState(h)
    BY <1>1, <1>4, <2>2, SameDonation
  <2>4. DonationState(g) = "paid" /\ DonationState(g)' = "settled"
    BY <1>1, <1>3, <1>6, <2>1 DEF DonationState
  <2> QED
    BY <1>1, <2>3, <2>4, EdgeIsFlowStep DEF FlowEdges
<1> QED
  BY <1>2, <1>5, <1>6

LEMMA PublishImplements ==
  ASSUME SettleInv, Next, PublishSettled
  PROVE  Flow!FlowNext
<1>0. PICK g \in Invoices : g = settled[listener.item]
  BY SettledElements DEF SettleInv, PublishSettled, ListenerKnows
<1>1. /\ TypeOK /\ Kept /\ UNCHANGED <<handed, settled, status>>
      /\ status[g] = "settled" /\ credits[g] = 0
      /\ credits' = [credits EXCEPT ![g] = @ + 1]
  BY <1>0, NextKeeps
     DEF SettleInv, PublishSettled, ListenerKnows, requestVars
<1>2. credits'[g] = 1 /\ \A h \in Invoices \ {g} : credits'[h] = credits[h]
  BY <1>1 DEF TypeOK
<1>3. \A h \in Invoices : Paid(h)' => Paid(h)
  BY <1>1 DEF Paid
<1>4. \A h \in Invoices \ {g} : DonationState(h)' = DonationState(h)
  BY <1>1, <1>2, <1>3, SameDonation
<1>5. DonationState(g) = "settled" /\ DonationState(g)' = "credited"
  BY <1>1, <1>2 DEF DonationState
<1> QED
  BY <1>1, <1>4, <1>5, EdgeIsFlowStep DEF FlowEdges

\* Every other step stutters.
LEMMA OtherStepsStutter ==
  ASSUME SettleInv, Next,
         UNCHANGED <<handed, settled, credits>>,
         \A h \in Invoices :
           (status'[h] = "settled") <=> (status[h] = "settled")
  PROVE  DonationOf' = DonationOf
<1>1. TypeOK /\ Kept /\ \A h \in Invoices : Paid(h)' => Paid(h)
  BY NextKeeps DEF SettleInv, Paid
<1>2. \A h \in Invoices : DonationState(h)' = DonationState(h)
  BY <1>1, SameDonation
<1> QED
  BY <1>2 DEF DonationOf

LEMMA StepImplements ==
  ASSUME SettleInv, Next
  PROVE  Flow!FlowNext \/ DonationOf' = DonationOf
<1>0. TypeOK
  BY DEF SettleInv
<1>1. ASSUME NEW d \in Donors, SaveInvoice(d) PROVE DonationOf' = DonationOf
  <2> DEFINE g == request[d].invoice
  <2>1. /\ g \in Invoices /\ status[g] = None
        /\ status' = [status EXCEPT ![g] = "pending"]
        /\ UNCHANGED <<handed, settled, credits>>
    BY <1>1 DEF SaveInvoice, SettleInv, RequestsHold, TypeOK
  <2> HIDE DEF g
  <2>2. \A h \in Invoices :
          (status'[h] = "settled") <=> (status[h] = "settled")
    BY <1>0, <2>1, SettlementAssumption DEF TypeOK
  <2> QED
    BY <2>1, <2>2, OtherStepsStutter
<1>2. CASE ExpirePendingInvoices
  <2>1. \A h \in Invoices :
          (status'[h] = "settled") <=> (status[h] = "settled")
    BY <1>0, <1>2 DEF ExpirePendingInvoices
  <2>2. UNCHANGED <<handed, settled, credits>>
    BY <1>2 DEF ExpirePendingInvoices, requestVars
  <2> QED
    BY <2>1, <2>2, OtherStepsStutter
<1>3. CASE UNCHANGED <<status, handed, settled, credits>>
  BY <1>3, OtherStepsStutter
<1> QED
  BY <1>0, <1>1, <1>2, <1>3, ReturnImplements, SettleImplements,
     MarkImplements, PublishImplements, StepKinds
     DEF RequestStep, RequestDonation, CreateInvoice, FailRequest,
         CloseDonations, Subscribe, TakeUpdate, Lookup, AdvanceCursor, Restart,
         LoseCredit, requestVars

\* Each invoice moves along the one abstract flow: issued, paid, recorded,
\* credited, each once and none back, whatever streams, sweeps and crashes do.
THEOREM ImplementsDonationFlow == Spec => ImplementsFlow
<1>1. Init => Flow!FlowInit
  <2> SUFFICES ASSUME Init PROVE DonationOf = [h \in Invoices |-> "unknown"]
    BY DEF Flow!FlowInit, DonationOf
  <2>1. \A h \in Invoices : ~ Paid(h)
    BY EmptySeq DEF Init, Paid
  <2> QED
    BY <2>1, SettlementAssumption DEF Init, DonationOf, DonationState
<1>2. SettleInv /\ [Next]_vars
        => [Flow!FlowNext]_[h \in Invoices |-> DonationState(h)]
  <2> SUFFICES ASSUME SettleInv, [Next]_vars
               PROVE  Flow!FlowNext \/ DonationOf' = DonationOf
    BY DEF DonationOf
  <2>1. CASE UNCHANGED vars
    BY <2>1 DEF vars, requestVars, DonationOf, DonationState, Paid
  <2> QED
    BY <2>1, StepImplements
<1> QED
  BY <1>1, <1>2, SettlementInvariant, PTL
     DEF Spec, ImplementsFlow, Flow!FlowSpec
=============================================================================
