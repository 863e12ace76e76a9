# Formal models of Pamoja Build

TLA+ models of the backend under `src/backend`, the TLC runs that check them on
small instances, and TLAPS proofs that hold for every instance.  Paths below are
relative to `src/backend/` unless they start with `src/`.

## 1. The system

Pamoja Build runs community campaigns.  A creator opens a *task*; volunteers
apply, are approved and submit evidence; five trustees register keys in the
task's slots; an independent trustee verifies the work, which closes donations
for good; donors pay Lightning invoices; every settled donation and several
other events become entries of a hash-chained ledger; three of the five
trustees sign a payout.  It is one Go process on
PostgreSQL with one LND node.

| Component | State it keeps | Operations | Model |
|---|---|---|---|
| task lifecycle (`internal/task`) | `tasks` state columns and versions, `task_state_transitions` | `CreateCampaign`, `StartTask`, `SubmitForVerification`, `VerifyTask`, `AdvanceFinancialState`, `ApplyStateTransitions`, `publishTransitions` | `TaskLifecycle` |
| volunteers (`internal/volunteer`) | `task_applications`, `task_submissions` | `ApplyForTask`, `SubmitWork`, `UpdateStatus` | `Relationships` |
| trustees (`internal/trustee`) | `trustee_keys` | `AssignTrusteeSlot`, `SaveKeys`, paired triggers | `Relationships` |
| task authorization (`internal/authorization`) | none | relationship queries, HTTP middleware | operators of `Relationships` |
| Lightning (`internal/lightning`) | `lightning_invoices`, `lightning_sync_state` | `RequestDonationInvoice`, `StartSettlementListener`, `ProcessIncomingSettlement`, `ExpirePendingInvoices` | `Settlement` |
| LND (external) | made and settled invoices, settle index | stream of settled invoices | `Settlement`, marked external |
| ledger (`internal/ledger`) | `ledger_entries`, one mutex | `RecordValidatedTransaction`, `VerifyEntireChainIntegrity`, `GetTaskBalance` | `Ledger` |
| event bus (`internal/events`, `cmd/app/router.go`) | handlers | `Subscribe`, `Publish` | `Ledger`; a step of each publisher elsewhere |
| escrow (`internal/escrow`) | `payout_signatures` | `SubmitTrusteeSignature`, `FinalizeAndBroadcastPayout`, the read-only manifest | `Escrow` |
| auth, sessions, profiles (`internal/auth`, parts of `internal/volunteer`) | `users`, `user_sessions`, `volunteer_profiles`, the client's cookie | `Register`, `SignIn`, `SignOut`, `AuthMiddleware`, `Update`, `UpdatePaymentProfile` | `Accounts` |
| task lists and state history (`internal/task`) | what the lifecycle writes; a client's place in a list | `ListTasks`, `ListStateTransitions` | `Listings` |
| HTTP delivery | none that outlives a request | origin checks, authentication, decoding, rendering | what decides is in the modules above |
| configuration, start-up, frontend | none that outlives a start or a page | reading, connecting, showing | not modelled |

How they meet: the task service asks the authorization repository for readiness
and then runs one database transaction; triggers on the relationship tables
read each other's rows; the donation service reads the task's financial state,
calls LND and inserts; the settlement listener, a goroutine, marks rows and
publishes `PaymentSettled`; the event bus calls its subscribers in the
publisher's goroutine, and the subscribers of the ledger and of escrow drop
their errors (`cmd/app/router.go`).

What is hard about it, and where the project looks (`PROJECT.json`, "hazards",
gives the line of each):

* **checks before writes.** Every handler reads, then writes.  Readiness,
  roles, slots and the financial state can change in between.
* **retries.** A caller that lost an answer repeats a request with the same
  idempotency key, perhaps while the first is still running.
* **two state machines and an audit trail** that have to move together.
* **events after the commit**, from memory: what a crash or an error in between
  loses, and what a replay must not announce twice.
* **a stream that is cut and repeats itself**, resumed from what the database
  holds, beside a sweep that expires the same rows.
* **a hash chain** whose tail is read and extended in two statements.
* **a threshold counted after the save**, in a second statement, by key where
  the rule counts people.
* **sessions ended while requests are under way**, answers that are lost or
  overtake each other, and a cookie the client may keep.
* **pages of a list that grows**, counted and read in two statements, while rows
  become visible in another order than they are listed in.

What makes each component correct:

* *lifecycle*: the trail is one gapless chain that ends in the current state; a
  key has one effect; answers stay true and repeat; completing work and closing
  donations is one event; readiness and independence hold when the row is
  written, not when they were read; nothing is announced twice.
* *relationships*: a slot stays with its winner; one account, one slot; no row
  without its parent; nothing announced without its row; nobody is trustee and
  volunteer of one task, as far as the triggers reach.
* *donations*: nobody can pay what has no row; a paid invoice that LND is asked
  for is never skipped, is recorded, is credited once and stays settled; a closed
  task gives out no invoice.
* *ledger*: the check accepts exactly the chains that nobody altered; each event
  has one entry and no entry is made up; a balance is money that was paid;
  recording never gets stuck.
* *escrow*: nobody counts twice toward a payout, and the signature that
  completes the threshold announces it.
* *accounts*: a number has one account however it is typed; an account is whole;
  a request acts for the owner of the cookie it carried; what has ended serves
  nothing; an answer shows what was written.
* *listings*: a reader who pages on sees everything that was there, and pages
  are as full as their totals promise.

## 2. Modules

    CampaignFlow                 what the state columns promise
       ^ refined by
    TaskLifecycle  EXTENDS  Relationships  <  RelationshipsHistory
       ^ MCTaskLifecycle                         ^ MCRelationships
       ^ TaskLifecycleProofs                     ^ RelationshipsHistoryProofs
              EXTENDS  RelationshipsProofs  <------------/

    DonationFlow                 what one invoice goes through
       ^ refined by
    Settlement                   ^ SettlementProofs

    PayoutFlow                   who may release a payout
       ^ refined by
    Escrow  EXTENDS  Relationships
       ^ MCEscrow                ^ EscrowProofs  EXTENDS  RelationshipsProofs

    Ledger                       ^ MCLedger     ^ LedgerProofs
    Accounts                     ^ MCAccounts   ^ AccountsProofs
    Listings                     ^ MCListings   ^ ListingsProofs

### Relationships

`apps`, `subs` and `trustees` are the three tables, `creator` the one column of
`tasks` they need, `relOp` the requests being served.  A handler is its check
(`CheckApplication`, `CheckSubmission`, `CheckSlot`), the `BEFORE INSERT`
trigger (`TriggerApplication`, `TriggerKeys`), the commit
(`CommitApplication`, `CommitSubmission`, `CommitKeys`) and the publication
(`PublishRel`).  Trigger and commit are separate because the database runs at
READ COMMITTED: a trigger sees only committed rows, and its own row becomes
visible later.  Foreign keys, primary keys and unique constraints are decided
at the commit, where PostgreSQL makes the later of two conflicting inserts wait
for the earlier and then fail.  A submission's insert and its check are two
steps, with a review allowed in between.  `UpdateStatus` is the repository
update by which applications are reviewed; no handler calls it yet, tests and
operators do.  `AbandonOp` is a failed statement, a lost connection or a crash:
the handler's progress is the only thing in memory.

`RelationshipsHistory` adds one history variable, `met`: the accounts whose
application and registration for one task have both stood between trigger and
commit.  It can say exactly how far the triggers separate the two roles
(`RolesApartUnlessOverlap`).

A failed insert leaves no row behind.  Only which slot, task and account a row
is about is kept of it; messages, keys and attachments are left out, since no
property looks at them.  `AssignTrusteeSlot` itself only bounds the length of the
keys it is given: it checks no signature and does not compare them with the keys of
other slots, which is why `Escrow` lets slots share one.

### TaskLifecycle

It adds the state columns (`state`, `version`), the trail (`history`), and per
client the request (`pc`, `req`, `todo`); `published` and `replies` record what
went out.  A request starts in `StartTask`, `SubmitForVerification`,
`VerifyTask` or `AdvanceFinancialState` with the task row that `validateStateAction`
read; `CheckRelationships` makes its readiness queries one at a time; `Apply`
or `Replay` is `ApplyStateTransitions`; `Publish` is `publishTransitions`, one
row at a time; `Respond` answers.  `CreateCampaign` is one step up to its
commit, because nothing it reads before can change what the insert does.

Why `ApplyStateTransitions` is one step: it begins with `SELECT ... FOR UPDATE`
on the task row, so two of them on one task are serial; the statements between
are conditional on facts of other tables, and each `UPDATE` re-reads them
(`ReadyForWork`, from `workTransitionUpdate`) as of its own statement.  The
transaction makes at most two updates and only the work update reads other
tables, so taking all of it at the moment of that update loses no outcome.  If
any command conflicts, is illegal, or only some of the keys were used before,
the transaction rolls back: then neither `Apply` nor `Replay` is enabled and
the request ends in `Abandon`, which also stands for failed statements,
commits whose outcome the caller never learns, and crashes.

Data: `"absent"` is SQL NULL.  An idempotency key is the sequence of its texts
between colons, so a derived key is `Append(key, "work")`, and a caller's key
may equal one.  Reasons are kept: callers give them, the code falls back to a
text of its own where they are empty (`DefaultReason`), stores them in the
history and compares them when a key is sent again (`SameCommand`), so a retry
with another reason is a conflict.  The code's own texts are named by what they
tell, and a caller may send the same text.  `Calls` says what callers send with
each operation.  `TaskLiquidating` goes out with the row that enters
LIQUIDATING and so is not counted apart.  The schema's `SYSTEM_LOCKDOWN` is
left out; no code moves a task there.

### CampaignFlow, DonationFlow and PayoutFlow

The abstract specifications: two columns per task moving one state at a time,
with one joint event `Verify`; one line of states per invoice; and people who
approve a payout, which is released once a quorum of them has.

### Settlement

`request[d]` is a donation request on its way from the task read to the answer
(`RequestDonation`, `CreateInvoice`, `SaveInvoice`, `ReturnInvoice`,
`FailRequest`).  `settled` is LND's list of settled invoices in settle-index
order, `Foreign` an invoice that another user of the node made; an invoice can
be paid only after a donor was given it.  `listener` is the goroutine:
`Subscribe` computes `LatestSettleIndex`, `Receive` takes the next update and
looks its hash up, `MarkSettled` is the conditional update, `PublishSettled` the
event with the ledger's subscriber behind it, `AdvanceCursor` the `GREATEST`
upsert.  `RepeatUpdate` delivers an earlier update again; `Restart` is a cut
stream, a failed statement or a crash; `LoseCredit` is a failed ledger append,
whose error the subscriber drops; `ExpirePendingInvoices` is the sweep, run by
the worker and before a status answer.  `settle_index` and the cursor are
written by the listener alone and there is one process, so reading the two to
resume is one step.  The index an LND subscription starts after is left out of
the request when it is 0, and LND then sends only what it settles from now on
(`StreamStart`).  The history variable `omitted` records how much LND had
settled when it was last asked in that way; the properties say what they say of
everything after it, and what it covers is finding 3.  It covers more than a
first start: the REST client's timeout of 30 seconds
(`internal/lightning/client/lnd_rest.go:267-270`) ends the stream as well, so
until the first index is stored the listener asks without one, again and again,
and any payment between two streams is among the omitted.  `Restart` is such an
end too.  `CloseDonations` is all that is kept of verification here.

### Ledger

The event bus and the ledger behind it are one module, since the bus has no
goroutine of its own: `Publish` calls the handlers one after the other where it
is called.  `Subscribe` is the router's registration of the five handlers that
record, in its order; writers run only after the last of them (`IsRunning`), as
`cmd/app` starts the listener and the server last.  `call[w]` is a publication under way in
goroutine `w`: `Publish` copies the handlers, and for each of them a
`RecordValidatedTransaction` runs through `Lock`, `ReadLast`, `AppendEntry` and `Unlock`
(with `TransactionRecorded` published before it).  `Fail` is a failed statement,
whose deferred unlock runs and whose error the subscriber drops; `Crash` ends
the process, and with it the subscriptions.  An event is published at most
once (`e \notin published`).  That is an assumption of this module which the
modules of the publishers discharge: `AnnouncedAtMostOnceAlways` for task events,
`NeverCreditedTwice` for settlements, and for applications and submissions the
one `PublishRel` that follows each commit.

An HMAC is the tuple of what was hashed.  Two idealisations are in that:
HMAC-SHA256 under a secret key is taken to be injective, and so is the joining of
its input.  The code hashes `slug:type:amount:reference` followed by the raw bytes
of the previous hash without a delimiter (`internal/ledger/service/ledger_service.go:37-42`),
so fields that contain a colon, or a reference that ends in the bytes of a hash,
could spell the input of another row; what the checks and proofs say of the chain
is said of rows that do not.  `EditRow` and `DeleteRow` are changes made behind the
service, which the chain exists to reveal.  Rows cut off at the end are
excluded: a shortened chain verifies, and `docs/dev/app_flow_deep_dive.md` says
so.  The integrity and balance requests read without the mutex; since each is
one `SELECT`, invariants cover a read at any moment.  Of the balance's two
sums, nothing writes the entries of the second.

### Escrow

`signatures` is the table `payout_signatures` with its primary key, the task
and the registered public key; what a signature says is left out, since the
code stores it unread.  `signOp[p]` is a request for a signature under way:
`LoadTrusteeKey` (the middleware and the caller's key), `SaveSignature` (the
upsert), `CountSignatures` (a statement of its own), `AnnounceThreshold`,
`FinalizeAndBroadcastPayout` (run by the bus in the same goroutine, its error
dropped) and `AnswerSignature`; `AbandonSign` is a failed statement or a crash.
`signers` and `answered` record who had a row saved and who was told so, which
the code does not store: a row knows its key and not its person.  Registrations
go on meanwhile as in `Relationships`; a slot is never won twice, so the key
that its winner registers is the parameter `SlotKey`.

### Accounts

`account`, `profile` and `session` are the tables; `cookie`, `given` and `ended` are what a
client holds, has held and was told (clients are external).  `request[q]` is an
HTTP request: it is sent past `BrowserSecurity` with a number and a password
(`SendOpen`) or a token the client holds or held (`SendProtected`), goes through
`Create` (one transaction), or `FindAccount` and `CreateSession`, or `Authenticate` and the
handler (`Me`, `SignOut`, `UpdateProfile`, `UpdatePaymentProfile`, `Reload`, `GetProfile`), and its
answer is delivered (`Deliver`) or lost.  `Fail` is a failed statement, a panic, a lost
answer or a crash, anywhere.  `Expire` is the one thing time does.
`normalizePhoneNumber` is modelled by what it does to the characters of a
number, since that two spellings are one account is a property here.  Bcrypt,
SHA-256 and the 32 random bytes of a token are taken to be injective, or never
to repeat.  A profile is two columns: one that only the whole update writes and
one that both updates write.  `edit[q]` remembers what a request wrote, as long
as nobody wrote over it, and what it answered.

### Listings

`ListTasks` and `ListStateTransitions` count the matching rows and then read those at an
offset, in two statements without a transaction (`Count`, `Select`), while writers
create tasks and move them.  What matters is the order: a list is sorted by
`created_at`, which the service stamps before the insert of a new task (`CreateCampaign`)
and PostgreSQL at the begin of a transition's transaction (`BeginTransition`), so rows
can become visible below rows that are shown already.  The frontend asks for page after
page until one is empty (`NextPage`); `seen` is what it was shown and `due` what was there
when it began.  Page sizes outside `1..MaxPageSize`, unknown filters and
missing tasks are refused.

Operators named *faulty variant* in the modules are the code with one plausible
mistake in it.  No action uses them; replacing the real definition by one must
break the property `PROJECT.json` pairs it with.

## 3. Runs

| Run | Instance | What it shows |
|---|---|---|
| `relationships_race` | 1 task, 2 users, 2 slots, 2 handlers | `SlotNeverReassigned`, `EventsHaveRows`: constraints decide every race; `RolesApartUnlessOverlap`: the triggers fail only where they cannot work |
| `relationships_skew` | the same | *violation*: two overlapping inserts of one account pass both triggers |
| `lifecycle_requests` | 2 clients, colliding keys, one key with several reasons, a money move beside verification | `HistoryMatchesState`, `OneEffectPerKey`, `RepliesAreStable`, `AnnouncedAtMostOnce`, `CompletionClosesDonations`, refinement of `CampaignFlow` |
| `lifecycle_roles` | 1 client beside 2 relationship handlers | `SubmittedMeansReady`, `VerifierIsIndependent` |
| `settlement_paths` | 2 invoices, 2 donors, 2 faults, fair listener | `ResumeNeverSkips`, `CreditedAtMostOnce`, `PayableIsKnown`, refinement of `DonationFlow`, `PaidRecordedUnlessOmitted` |
| `settlement_credited` | 1 invoice, fair listener | *violation*: a paid donation without its ledger entry |
| `settlement_offline` | 1 invoice, fair listener | *violation*: paid while the backend was down, never recorded |
| `settlement_closed` | 1 invoice | *violation*: an invoice saved for a task that was closed meanwhile |
| `listings` | 2 tasks, 2 writers, 1 reader, pages of 1 to 3 (3 is refused), 2 times, 6 history rows | `WalkMissesNothing`, `TotalsHonoured` |
| `ledger_feed` | 2 tasks, listener and 1 request, 6 events, 2 faults, fair | `NoFalseAlarm`, `AcceptedMeansUnaltered`, `LedgerFollowsEvents`, `BalanceIsPaid`, `RecordingReturns` |
| `escrow_race` | 4 slots, two of which share a key, 3 people, threshold 2, 2 registrations and 2 signers at once | `PayoutNeedsTrustees`, `ThresholdNotMissed`, refinement of `PayoutFlow` |
| `accounts` | 2 accounts, 2 tokens, 1 client, 2 requests, 4 texts of 2 numbers | `OneAccountPerNumber`, `AccountsAreUsable`, `SignedInAsNamed`, `ActsForCookieOwner`, `EndedSessionsServeNothing`, `EndedCookiesAreCleared`, `AnswersShowTheUpdate` |

Every passing run also checks its module's type invariant, except
`lifecycle_roles`, whose module is the same as that of `lifecycle_requests`.

Why the bounds are enough.  Tasks never read each other's rows, so one task
shows every behaviour of a task; the ledger takes two because its mutex is
shared between them.  A race needs two parties: two handlers, two clients, or a
client beside two handlers.  Three users fill the three roles (creator, volunteer, trustee), and in
`lifecycle_roles` the trustee may also apply, which is the conflict
`VerifierIsIndependent` is about.  In `lifecycle_requests` (`MergedCalls`) a start
comes with one key and no reason, with the same key and a reason, or with the key
and the reason that verification derives from the first; verification and money
use that key again.  So there are equal calls, calls that differ in the reason alone,
different keys and the collision, beside a run of a task to its completion.  One
internal advance, to LIQUIDATING, races verification; the three later money
states, which are the same code with other names, are left to the proof.
`lifecycle_roles` needs a key for the start and one for the submission, uses the
first again for verification and gives no reasons (`RaceCalls`).

`MaxForeign`, `MaxFaults`, `MaxTime` and `MaxRows` are the only caps on
counters.  One foreign invoice is enough to shift the settle index past an own
one; two faults let one fault hit the recovery from another.  The six events of
`ledger_feed` hold what could be confused: two payments of one amount and two
pieces of evidence by one volunteer, which make equal entries; a status change
that is recorded and one that is not; four entries of one task, so a chain has
a first, a middle and a last row.  Two instants are enough for an order of
creation unlike the order of visibility, and six history rows for a page size
of two to take four pages with the empty one.  In `accounts` two requests of one
client may register, sign in, sign out and edit in any overlap; what two clients add
is that each has its own cookie, and a request carries what it was sent with,
so a second client shows nothing that a second token of one client does not;
the proof covers any number.  A number has two or three digits instead of
eight to fifteen.  There is one password, since a second takes the run to the limit
of what is practical, so the part of `SignedInAsNamed` that compares passwords is
idle in the run; `SignedInAlways` proves it for any set of them.
`escrow_race` has one trustee more than the threshold, so that a signature comes
after the one that completes it, and two is the least threshold at which one
person could count for another.  Two of its slots share a key, so two trustees
may leave one row, and of the three trustees any two may be those; the proofs
cover three of five and any sharing.
`Next` of `Settlement`, `Ledger`, `Listings` and `Accounts` goes quiet when
invoices, events, faults, rows or tokens are used up, so those runs do not check
deadlock; the others do.  Symmetry is
used only over sets whose members the specification and the properties treat
alike, and never in a run with liveness.

Fairness.  `Settlement!FairSpec` assumes `WF(ListenerStep)`: the listener is a
goroutine in a loop that subscribes again after every error, so it takes its
next step as long as it has one; nothing is assumed of donors, of LND or of the
sweep.  `Ledger!FairSpec` assumes `WF` for a call that holds the mutex and `SF(Lock)`
for a call that waits: after a millisecond of waiting a Go mutex goes into
starvation mode and is handed to the longest waiter.  Nothing is assumed of
publishers.  Faults have no fairness
and are finitely many: with a fault after every repair there is no progress to
promise.

### Findings

1. `relationships_skew`: the migration that adds the paired triggers calls the
   separation of trustees and volunteers a database invariant.  Two inserts
   that overlap under READ COMMITTED both pass.  `VerifyTask` is not fooled
   (`VerifierIsIndependentAlways` is proved without the separation): such an
   account just cannot verify.
2. `settlement_credited`: the Lightning guide promises one ledger entry for
   each paid invoice.  A crash between the mark and the event, or a failed
   append, leaves none for ever, since a repeated update finds the row settled.
   `CreditedAtMostOnce` is the half that holds.
3. `settlement_offline`: the same guide says that a backend that was offline
   when an invoice was paid catches up after its restart.  Until the first
   settle index has been stored the subscription names none, and LND sends no
   backlog: that invoice stays pending and expires.  A stream that the client's
   timeout ended is enough, with nobody offline.  What holds is
   `PaidRecordedUnlessOmitted`: every other paid invoice is recorded.
4. `settlement_closed`: verification is documented to make the donation service
   reject new invoices.  A request that had read ACTIVE still saves and returns
   one.

Met on the way, and stated by no violation run:

* `docs/architecture_v1.md:152` promises the payout at the third unique trustee.
  `payout_signatures` is keyed by the registered key, and nothing keeps two slots
  from registering the same one; the second trustee's signature then overwrites
  the first's, and three trustees who were all answered may leave two rows and no
  payout.  So `ThresholdNotMissed` counts the keys of those answered, and
  `escrow_race` has slots that share one; counted in people it would be false there.
* `docs/dev/app_flow_deep_dive.md:768` says that the trustee repository uses an
  upsert, so that concurrent registrations can replace a slot.  The document is
  stale: `internal/trustee/repository/postgres.go:20-38` is a plain `INSERT`, and the
  loser of the race gets an error, as the service's own comment says ("The insert
  never upserts", `internal/trustee/service/trustee_service.go:62-64`).  `SlotNeverReassigned` is checked and proved, and
  the upsert is the variant of the code (`CanSaveKeysUpsert`) that breaks it.
* A state history is listed newest first by the time its transactions began, so of
  two transitions that overlapped the later version may be listed below the earlier
  one (`docs/dev/frontend_handoff.md:371`).
* A list filtered by status moves up when a task leaves the filter, past a reader
  between two pages; `WalkMissesNothing` speaks of the lists that only grow.

## 4. Proofs

`tlapm` checks every leaf; each theorem is for all values of the constants,
under the `ASSUME`s that the modules name (`RelAssumption`, `CallsAssumption`,
`SettlementAssumption`, `EscrowAssumption`,
`LedgerAssumption`, `AccountsAssumption`, `RowsAssumption`, `ListingsAssumption`),
which say only that the parameter sets are subsets of what they select from and
functions are of their sets, that `None` and `Foreign` are no members of them, no
status and no row, that bounds are naturals and that the threshold is positive.
No set is assumed finite: that published events, stored rows and signers are
finitely many is part of the invariants that count them.

**RelationshipsProofs.**  `RelInv` strengthens `RelTypeOK` and the three state
invariants by `OpsAreBound`: a handler that is not idle has a task and a user,
one about to insert evidence has the application it checked, one about to
insert keys has a slot.  The argument is that rows only appear
(`RowsOnlyAppear`): an application is never deleted and a review never makes it
`None`, so what a handler had seen to exist still exists when it commits or
announces.  Slots are decided by `CanSaveKeys` at the commit.  From `RelInv`
follow `RelTypeCorrect`, `OneSlotAlways`, `EventsHaveRowsAlways`,
`RowsHaveParentsAlways` and `SlotsAreKept`.

**RelationshipsHistoryProofs.**  A handler reaches its commit only past its
trigger, and a role appears only by such a commit (`CommitsFollowTriggers`).  So
whoever stands at a commit while the other role is taken has met the handler
that took it (`AppsMet`, `KeysMet`), which makes `RolesApartUnlessOverlap`
inductive.

**TaskLifecycleProofs.**  Only `CreateCampaign` and `Apply` write the columns
and the trail (`StepKinds`); every other step is *quiet* (`QuietFacts`), and
what a quiet step may do to requests, announcements and replies is one formula
(`QuietEffect`).  So each part of the invariant has three cases.  `LifeInv`
adds to the checked invariants what they are not inductive without:

* `AbsentIsEmpty`: a task without a row has no history, so the two rows of
  `CreateCampaign` start their chains and collide with no key;
* `RequestsAreKnown`: a request under way has its arguments, hence typed commands
  of different kinds (`CommandsOfRequest`);
* `AnnouncedIsCommitted`: rows in hand or published are in the trail, so rows
  new to the trail are in nobody's hand;
* `RepliesAreKeyed`: a reply is exactly what the keys of its commands name.
  `RepliesAreStable` alone says too little to be kept by a step: that a retry
  gets the same rows follows because later rows have fresh keys
  (`AnswersStay`).

`ChainGrows` is the heart of `HistoryMatchesState`: a chain grows by a row that
leaves the current state at the next version, which is what the
`state = $from AND version = $version` of the `UPDATE` ensures.
`CompletionClosesDonations` rests on `CompletionBringsMoney`: the one request
with a command to `completed` also has one on the money, and no legal command
leads back to ACTIVE.  The action properties need only `LifeInv` and the guards
of `Apply`.  `ImplementsCampaignFlow` maps `CreateCampaign` to `Create`, and `Apply` to
`MoveWork`, `MoveMoney` or `Verify` by the kind of request, everything else to a
stutter.

**SettlementProofs.**  One fact carries the argument: nothing about a settled
invoice is taken back (`Kept`) by any step, so whatever the listener has left
behind stays handled (`HandledStays`, `HandledRunStays`).  `SettleInv` adds to the
checked invariants

* `RequestsHold`: a request holds an invoice of its own from LND's answer on,
  with no row before it saves and one with its task after.  Without it an
  insert could turn a settled row back to pending;
* `PaidWereHanded` and `RecordedWerePaid`: only what a donor was given is paid,
  and only what is paid is recorded;
* `CreditsFollow`: at most one credit, and none before the row is settled;
* `ListenerKnows`: the update in hand, at most one beyond the listener's place, is as
  far as its stage says; at `publish` its credit is still to come;
* `PlaceHandled`: all up to the listener's place that was not omitted is handled.

`ResumeNeverSkips` (`NeverSkips`) then holds because `MarkSettled` and `AdvanceCursor`
are the only steps that bring an index to resume from, that of the update in hand,
which is handled by then.  A subscription without an index moves `omitted` and the
listener's place to the end of LND's list together, and it is the only step that
moves `omitted` (`OnlySubscribeOmits`).  No theorem assumes what LND answers to it.

`PaidRecordedUnlessOmitted` itself is out of reach, but all of it that is not
fairness is proved.  `PaidIsAheadAlways`: a payment
neither recorded nor omitted is in front of the listener, or of every index it may resume
from, and there always is such an index, so the listener is never left with
nothing to do.  `ListenerComesNearerAlways`: `Distance(i)`, a number, bounds the steps
until update `i` is taken; every step of the listener lowers it, handles the
update or, by a subscription without an index, omits it, and no other step raises it but a fault, of which there are
finitely many (a repeated update is one).  Updates that need no work, such
as foreign invoices and rows settled already, only shorten the way, and a repeated one does not
lose the listener its place (`Furthest`).

`ImplementsDonationFlow` maps `ReturnInvoice` to the step to
`issued`, `SettleOwn` to `paid`, `MarkSettled` to `settled` and `PublishSettled` to
`credited`; the rest stutters.

**EscrowProofs.**  `EscrowInv` adds to `RelInv` that a request's key is that of its
caller's slot (`SignersKnown`), that every row has a signer (`RowsAreSigned`), and
that signers are finitely many trustees (`SignersFinite`).  `RowsCountPeople` is the
argument: `OneSlotPerAccount` gives each signer one key, the rows are among
those keys, so there are never more rows than signers; hence `PayoutsHaveTrustees` and
`ImplementsPayoutFlow`, whatever keys were registered.  The other direction is about
keys, since people who share one leave one row.
`MissInv` says that the keys of those answered, or about to be, are fewer than the
threshold until it is announced: a request that adds to them has counted too few
rows, at a moment when it and all answered before it were already signers, so that
their keys are among the rows (`KeysOfWhoPasses`).  `NoThresholdMissed` needs no
assumption about the keys.

**LedgerProofs.**  The rows alone do not say what was recorded once some of them
were edited or removed, so the invariant keeps the *true chain*: the hashes of
all payloads ever appended, each over the one before it (`IsChain`), no two
equal because an HMAC determines what was hashed.  Every remaining row carries
a hash of that chain, at places that grow at least as fast as the rows
(`Placed`), the last row carries the last hash, and a removed row leaves a gap
that shows (`GapsShow`).  Accepting a row forces it to follow its predecessor in the
true chain (`AcceptedIsAdjacent`); so an accepted chain has no gap, is full and says what
was appended (`FollowsAccepted`), and untouched rows are accepted
(`FollowsNoFalseAlarm`).  That an append extends the true chain needs `HolderReads`: whoever is
past `Lock` holds the mutex, and what it read as the last hash still is, through
other writers, edits and deletions.  The deletions are those before the last
row; without the restriction `GapsShow` is not kept, and the check really cannot see
them: `CutEndIsAccepted`.  What would is an independent checkpoint, as
`docs/dev/app_flow_deep_dive.md:849` says; the last hash is one (`LastHashPinsChain`): of two accepted chains that end in one hash, hashes agree from
the end backwards as far as both reach (`SameFromTheEnd`), and where one began
the other would have to follow a row with the hash of none.

`FeedInv` is the second argument, for what the ledger says of the events.  It
keeps two matchings: each entry has a published event of its own that says what
it says (`Source`), each publication on its way to an entry has one too (`Owing`),
none of them recorded before (`NotYet`), and with no fault so far nothing that
was published is missing from both (`NoneLost`).  A publication has at most one handler to call,
since the topics subscribed to are different (`InOrder`, `OneLeft`); a second
one would record an event twice.  `Publish` gives the writer its event, `AppendEntry`
hands it to the entry.  `LedgerFollowsEventsAlways` is then a comparison of
cardinalities.  For `BalanceIsPaidAlways` a sum of satoshis is a number of pairs,
the entry and a number up to its amount (`Units`, `SumCounts`), and pairs can be
matched like the entries themselves; that an accepted chain says what was appended is the
first argument.

The third is for liveness.  `HolderIsBusyAlways` is the other half of mutual
exclusion: a mutex that is taken has a holder with steps to make, after failed
statements and crashes too, because the unlock is deferred.  `RecordingComesNearerAlways`
counts the steps a publication has left (`Work`), all its handlers' together: nobody
raises the count, and each of its own steps, and each error, lowers it.  With the
fairness of `FairSpec` these are what `RecordingReturns` needs.

**ListingsProofs.**  The argument is about *ranks*, the rows listed above a row.
Since ids differ (`TasksOK`, `HistoryOK`), the order by `created_at` and id has no
ties, so every number below the count is the rank of exactly one row (`Listing`) and
a page holds the rows of the ranks it spans.  `ListingsInv` has two parts.
`Stored`: ids and versions are different and no larger than the counts they were taken
from, which `VersionsFit` keeps, each state a task was in having one row.
`WalksOK`: as long as a list only grows (`Grows`), every row that was there when the
client began was shown or has a rank at or beyond the next offset
(`StillAhead`); a row that joins, wherever it is listed, only raises the ranks of others, so it can push
a row to a later page and never back to an earlier one.  An empty page means an offset at or
beyond the count, hence nothing ahead: `WalkMissesNothingAlways`.  A total
counted earlier is at most what is there later: `TotalsHonouredAlways`.
`PagesPartitionAlways` is the counterpart for a list that stands still, with any
filter: a row is on exactly one page.

**AccountsProofs.**  `RowsInv` is the type invariant with what ties requests to rows
(`Holds`): a request past authentication acts for the account of its own token's
session, one about to store a session has an account.  Rows are never deleted
and a session never changes its account, which gives `OneAccountAlways` and `UsableAlways`
from the one transaction of `Create`, and `CookieOwnerAlways`.  `TokensInv` follows tokens through
clients: a token in an open answer is in no other answer and was given to nobody yet,
so what was told to have ended is revoked, stays so, and is never set as a cookie
again; hence `EndedServeNothingAlways` and `CookiesClearedAlways`.
`AnswersShowAlways` needs that of the requests still to reload, the last
writer's write is what stands (`UpdatesStand`).

**Only model-checked:** `PaidRecordedUnlessOmitted` and `RecordingReturns`, as liveness
under fairness and `ENABLED` are out of the prover's reach, and the violations.
Every other property of a passing run is stated by a theorem.  Sums are folds
over sets; the prover cannot do induction over them, and the proofs go by a
least counterexample among the subsets of a finite set (`WFMin`) instead.
Checked to be properties of
the code and proved, but no longer run because they say little beyond a
constraint or a guard: `OneSlotAlways`, `RowsHaveParentsAlways`,
`SettledRowsAreFinal`, `CursorOnlyGrows`, `OtherDevicesStayAlways`, `BioKeptAlways`.

## 5. Not modelled

* HTTP decoding, validation of fields, error wording and the browser client have
  no state of their own, and the server repeats every check that matters.  The
  rate limiter is a pass-through in this version.
* Configuration, migration and seeding run before any request.
* Reputation scores and the node's status are computed from one query each and
  stored nowhere.  `UpdateBalances` and `IncrementDerivationIndex` are empty.
* `Replay` and the unsubscribe functions of the event bus are called by nothing,
  and only `Replay` reads the bus's history.  A subscriber of `TransactionRecorded` that
  recorded an entry itself would wait for the mutex its own goroutine holds;
  there is none.
* `AdvanceFinancialState` has no caller outside tests.  It is modelled, with the
  calls the run names; a task moved to LIQUIDATING before its verification makes that
  verification conflict, which the model shows and nothing forbids.
* LND's transport and parsing, PostgreSQL's isolation below what is said above,
  and cryptography are taken as described.
* Of escrow the manifest is read-only and the payout itself is a placeholder in
  the code.

## 6. Plan

In this order, the most important behaviour first:

1. done: `Relationships` and its history, `TaskLifecycle` with `CampaignFlow`,
   `Settlement` with `DonationFlow`, `Ledger` with the event bus and balances,
   `Escrow` with `PayoutFlow`, `Accounts`, `Listings`, and the proofs above.
2. done: `LedgerFollowsEvents` and `BalanceIsPaid` proved, `ListingsProofs`, and
   the safety half of the two liveness properties.
3. `DonationSystem`: `TaskLifecycle`, `Settlement` and `Ledger` composed, with
   `CloseDonations` replaced by the verification that causes it, and credits by
   ledger rows: a donation credited is a row of a chain that verifies.  What the
   modules assume of each other is proved in each of them; the composition
   would state it in one place.
4. An abstract ledger, a set of recorded events per task, that `Ledger` implements
   while nobody touches its rows.
