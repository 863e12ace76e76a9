------------------------------- MODULE Ledger -------------------------------
(***************************************************************************)
(* The event bus and the hash-chained ledger it feeds.  The bus calls the  *)
(* handlers of an event one after the other in the publishing goroutine;   *)
(* the router's handlers record an entry each under one in-process mutex,  *)
(* every entry's HMAC covering its fields and the HMAC of the entry before *)
(* it.  Balances and integrity checks read the rows without the mutex.     *)
(*                                                                         *)
(* An HMAC is the tuple of what was hashed.  That takes HMAC-SHA256 under  *)
(* the server secret to be injective, and the joining of its input too:    *)
(* the code joins slug, type, amount and reference by colons and appends   *)
(* the raw previous hash with nothing in between, so that different rows   *)
(* could spell one input.  A failed insert has left no row by              *)
(* the time its error is returned, or a committed one.  The bus's own      *)
(* history is left out: only Replay reads it, and nothing calls Replay.    *)
(***************************************************************************)
EXTENDS Integers, Sequences, FiniteSets, FiniteSetsExt, Functions

CONSTANTS
  Tasks,     \* task slugs
  Events,    \* what can be published; two events may differ in their id alone
  Listener,  \* the goroutine of the settlement listener
  Writers,   \* goroutines that publish: the listener and HTTP requests
  None,
  MaxFaults  \* bound: failed statements, crashes and edits in the database

Topics == {"payment.settled", "task.created", "application.submitted",
           "submission.created", "task.status.changed"}

ASSUME LedgerAssumption ==
  /\ Events \subseteq [id: Nat, topic: Topics, task: Tasks, sats: Nat,
                       subject: STRING]
  /\ None \notin Writers /\ None \notin Tasks /\ Listener \in Writers
  /\ MaxFaults \in Nat

VARIABLES
  mu,           \* the call that holds LedgerService.mu, or None
  call,         \* call[w]: where w's publication is and what it has read
  rows,         \* rows[t]: the task's ledger_entries in id order
  appended,     \* appended[t]: payloads in the order they were committed
  faults,       \* faults so far
  subscribers,  \* the subscriptions made since the process started, in order
  published     \* the events published so far, by any process

vars == <<mu, call, rows, appended, faults, subscribers, published>>
busVars == <<subscribers, published>>

-----------------------------------------------------------------------------
(* What an event is recorded as.                                           *)

EntryType ==
  [t \in Topics |->
     CASE t = "payment.settled"       -> "INBOUND_DONATION"
       [] t = "task.created"          -> "TASK_CREATED"
       [] t = "application.submitted" -> "APPLICATION_SUBMITTED"
       [] t = "submission.created"    -> "SUBMISSION_CREATED"
       [] t = "task.status.changed"   -> "TASK_STATUS_COMPLETED"]

\* Only settled payments carry an amount.
EntryOf(e) ==
  [type |-> EntryType[e.topic],
   sats |-> IF e.topic = "payment.settled" THEN e.sats ELSE 0,
   ref |-> e.subject]

\* The handler of status changes records completion alone.
IsRecorded(e) == e.topic = "task.status.changed" => e.subject = "completed"

Payloads == {EntryOf(e) : e \in {f \in Events : IsRecorded(f)}}

NoHash == <<>>

\* Taken to be injective, joining and hash (see above).
CalculateRowHMAC(t, payload, previous) == <<t, payload, previous>>

\* Faulty variant: two columns of the insert are swapped.
NewEntrySwapped(t, payload, previous) ==
  [payload |-> t, previous |-> previous,
   hmac |-> CalculateRowHMAC(t, payload, previous)]

NewEntry(t, payload, previous) ==
  [payload |-> payload, previous |-> previous,
   hmac |-> CalculateRowHMAC(t, payload, previous)]

IdleCall ==
  [stage |-> "idle", task |-> None, payload |-> None, previous |-> NoHash,
   left |-> 0]  \* handlers still to call

TypeOK ==
  /\ mu \in Writers \cup {None}
  /\ \A w \in Writers :
       /\ call[w].stage \in {"idle", "lock", "last", "append", "publish"}
       /\ call[w].stage # "idle" => /\ call[w].task \in Tasks
                                   /\ call[w].payload \in Payloads
                                   /\ call[w].left \in Nat \ {0}
  /\ \A t \in Tasks : /\ appended[t] \in Seq(Payloads)
                      /\ \A i \in DOMAIN rows[t] :
                           rows[t][i].payload \in Payloads
  /\ faults \in 0..MaxFaults
  /\ subscribers \in Seq(Topics)
  /\ published \subseteq Events

Init ==
  /\ mu = None
  /\ call = [w \in Writers |-> IdleCall]
  /\ rows = [t \in Tasks |-> <<>>]
  /\ appended = [t \in Tasks |-> <<>>]
  /\ faults = 0
  /\ subscribers = <<>>
  /\ published = {}

-----------------------------------------------------------------------------
(* The bus.                                                                *)

\* The router's calls of Subscribe, in order; the one of the escrow's threshold,
\* which records nothing, is left to Escrow.
Subscriptions ==
  <<"payment.settled", "task.created", "application.submitted",
    "submission.created", "task.status.changed">>

Subscribe ==
  /\ Len(subscribers) < Len(Subscriptions)
  /\ subscribers' = Append(subscribers, Subscriptions[Len(subscribers) + 1])
  /\ UNCHANGED <<mu, call, rows, appended, faults, published>>

\* Faulty variant: the listener is started before the handlers are there.
ListenerRunsFirst(w) == w = Listener \/ Len(subscribers) = Len(Subscriptions)

\* The listener is started, and requests are served, once the router is set up.
IsRunning(w) == Len(subscribers) = Len(Subscriptions)

Handlers(e) ==
  {i \in DOMAIN subscribers : subscribers[i] = e.topic /\ IsRecorded(e)}

\* Publish takes its copy of the handlers and calls the first, if there is one.
\* An event is published once, by the goroutine that committed what it tells of.
Publish(w, e) ==
  /\ call[w].stage = "idle"
  /\ IsRunning(w)
  /\ e \notin published
  /\ e.topic = "payment.settled" <=> w = Listener
  /\ published' = published \cup {e}
  /\ call' = IF Handlers(e) = {} THEN call
              ELSE [call EXCEPT ![w] =
                      [stage |-> "lock", task |-> e.task, payload |-> EntryOf(e),
                       previous |-> NoHash, left |-> Cardinality(Handlers(e))]]
  /\ UNCHANGED <<mu, rows, appended, faults, subscribers>>

\* A handler comes back, its error dropped; the next one is called, if any.
AfterHandler(w) ==
  IF call[w].left = 1 THEN IdleCall
  ELSE [call[w] EXCEPT !.stage = "lock", !.previous = NoHash, !.left = @ - 1]

-----------------------------------------------------------------------------
(* RecordValidatedTransaction.                                             *)

\* Faulty variant: no mutual exclusion.
LockNothing(w) ==
  /\ call[w].stage = "lock"
  /\ call' = [call EXCEPT ![w].stage = "last"]
  /\ UNCHANGED <<mu, rows, appended, faults, busVars>>

Lock(w) ==
  /\ call[w].stage = "lock"
  /\ mu = None
  /\ mu' = w
  /\ call' = [call EXCEPT ![w].stage = "last"]
  /\ UNCHANGED <<rows, appended, faults, busVars>>

\* GetLastEntry: the newest row's row_hmac, or nothing to chain to.
LastHash(t) ==
  IF rows[t] = <<>> THEN NoHash ELSE rows[t][Len(rows[t])].hmac

ReadLast(w) ==
  /\ call[w].stage = "last"
  /\ call' = [call EXCEPT ![w].stage = "append",
                          ![w].previous = LastHash(call[w].task)]
  /\ UNCHANGED <<mu, rows, appended, faults, busVars>>

AppendEntry(w) ==
  LET t == call[w].task
  IN  /\ call[w].stage = "append"
      /\ rows' = [rows EXCEPT ![t] =
                    Append(@, NewEntry(t, call[w].payload, call[w].previous))]
      /\ appended' = [appended EXCEPT ![t] = Append(@, call[w].payload)]
      /\ call' = [call EXCEPT ![w].stage = "publish"]
      /\ UNCHANGED <<mu, faults, busVars>>

\* TransactionRecorded is published with the mutex still held; then the
\* deferred unlock.
Unlock(w) ==
  /\ call[w].stage = "publish"
  /\ mu' = None
  /\ call' = [call EXCEPT ![w] = AfterHandler(w)]
  /\ UNCHANGED <<rows, appended, faults, busVars>>

Fault == faults < MaxFaults /\ faults' = faults + 1

\* Faulty variant: the error path returns without the unlock.
FailKeepsMutex(w) ==
  /\ Fault
  /\ call[w].stage \in {"last", "append"}
  /\ call' = [call EXCEPT ![w] = AfterHandler(w)]
  /\ UNCHANGED <<mu, rows, appended, busVars>>

\* The read or the insert fails; the deferred unlock runs here too, and the
\* subscriber drops the error.
Fail(w) ==
  /\ Fault
  /\ call[w].stage \in {"last", "append"}
  /\ mu' = None
  /\ call' = [call EXCEPT ![w] = AfterHandler(w)]
  /\ UNCHANGED <<rows, appended, busVars>>

\* The process dies; the next one starts with a free mutex, an empty bus and
\* the same rows.
Crash ==
  /\ Fault
  /\ mu' = None
  /\ call' = [w \in Writers |-> IdleCall]
  /\ subscribers' = <<>>
  /\ UNCHANGED <<rows, appended, published>>

-----------------------------------------------------------------------------
(* What the chain is there to reveal: rows changed behind the service.     *)

EditRow(t, i, payload) ==
  /\ Fault
  /\ rows[t][i].payload # payload
  /\ rows' = [rows EXCEPT ![t][i].payload = payload]
  /\ UNCHANGED <<mu, call, appended, busVars>>

\* A row that others follow is deleted.
DeleteRow(t, i) ==
  /\ Fault
  /\ i < Len(rows[t])
  /\ rows' = [rows EXCEPT ![t] =
                SubSeq(@, 1, i - 1) \o SubSeq(@, i + 1, Len(@))]
  /\ UNCHANGED <<mu, call, appended, busVars>>

WriterStep(w) == ReadLast(w) \/ AppendEntry(w) \/ Unlock(w)

Next ==
  \/ \E w \in Writers :
       \/ \E e \in Events : Publish(w, e)
       \/ Lock(w) \/ WriterStep(w) \/ Fail(w)
  \/ Subscribe
  \/ Crash
  \/ \E t \in Tasks : \E i \in DOMAIN rows[t] :
       \/ \E payload \in Payloads : EditRow(t, i, payload)
       \/ DeleteRow(t, i)

Spec == Init /\ [][Next]_vars

\* A running goroutine goes on; a waiting one is served, since a Go mutex
\* hands itself to the longest waiter once that has waited a millisecond.
FairSpec ==
  /\ Spec
  /\ \A w \in Writers : WF_vars(WriterStep(w)) /\ SF_vars(Lock(w))

-----------------------------------------------------------------------------
(* VerifyEntireChainIntegrity: each row's HMAC is recomputed from its own  *)
(* fields and the stored HMAC of the row before it.                        *)

\* Faulty variant: a row is checked against its own previous_hash column.
VerifyRowsAlone(t, entries) ==
  \A i \in DOMAIN entries :
    entries[i].hmac =
      CalculateRowHMAC(t, entries[i].payload, entries[i].previous)

VerifyEntireChainIntegrity(t, entries) ==
  \A i \in DOMAIN entries :
    entries[i].hmac =
      CalculateRowHMAC(t, entries[i].payload,
                       IF i = 1 THEN NoHash ELSE entries[i - 1].hmac)

Payload(entries) == [i \in DOMAIN entries |-> entries[i].payload]

\* No false alarm: while nobody has touched the rows, a check made at any
\* moment accepts them, whatever writers, failures and crashes are under way.
NoFalseAlarm ==
  \A t \in Tasks :
    Payload(rows[t]) = appended[t] => VerifyEntireChainIntegrity(t, rows[t])

\* No alteration passes: a chain the check accepts says exactly what was
\* recorded, in the order it was recorded.
AcceptedMeansUnaltered ==
  \A t \in Tasks :
    VerifyEntireChainIntegrity(t, rows[t]) => Payload(rows[t]) = appended[t]

\* Every recording that waits for the mutex comes back, although others fail,
\* and although the process may die.
RecordingReturns ==
  \A w \in Writers : call[w].stage = "lock" ~> call[w].stage = "idle"

-----------------------------------------------------------------------------
(* What the ledger says of the events, and the balance of the payments.    *)

Told(t) == {e \in published : e.task = t /\ IsRecorded(e)}

\* Nothing has failed, and every publication has returned.
Undisturbed == faults = 0 /\ \A w \in Writers : call[w].stage = "idle"

\* The ledger says no more than happened: an entry is written for an event that
\* was published, once for each.  And no less: with nothing failed, every event
\* published since the process started has its entry when Publish returns.
LedgerFollowsEvents ==
  \A t \in Tasks :
    /\ \A p \in Payloads :
         Cardinality({i \in DOMAIN appended[t] : appended[t][i] = p})
           <= Cardinality({e \in Told(t) : EntryOf(e) = p})
    /\ Undisturbed => Len(appended[t]) = Cardinality(Told(t))

Donations(entries) ==
  {i \in DOMAIN entries : entries[i].payload.type = "INBOUND_DONATION"}

\* Faulty variant: SUM(DISTINCT amount_sats).
DistinctBalance(entries) ==
  SumSet({entries[i].payload.sats : i \in Donations(entries)})

\* GetTaskBalance's l2_balance.  Nothing writes the SUBMARINE_SWAP entries that
\* make up l1_balance.
TaskBalance(entries) ==
  SumFunctionOnSet([i \in DOMAIN entries |-> entries[i].payload.sats],
                   Donations(entries))

\* The balance of a chain that verifies is money that was paid, and all of it
\* when nothing has failed.
BalanceIsPaid ==
  \A t \in Tasks :
    LET paid == SumFunctionOnSet([e \in Told(t) |-> e.sats],
                                 {e \in Told(t) : e.topic = "payment.settled"})
    IN  /\ VerifyEntireChainIntegrity(t, rows[t]) => TaskBalance(rows[t]) <= paid
        /\ Undisturbed => TaskBalance(rows[t]) = paid
=============================================================================
