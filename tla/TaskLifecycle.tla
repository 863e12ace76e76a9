--------------------------- MODULE TaskLifecycle ---------------------------
(***************************************************************************)
(* The task service and its repository: campaigns are created, started,    *)
(* submitted for verification, verified, and moved along the money states. *)
(*                                                                         *)
(* A request reads the task, reads readiness facts that may be stale by    *)
(* the time they are used, and then runs ApplyStateTransitions, one        *)
(* transaction that holds the task row's lock, looks the idempotency key   *)
(* up, re-checks the facts in its UPDATE and appends the history rows.     *)
(* Only after the commit are the events published, from memory.            *)
(***************************************************************************)
EXTENDS Relationships, Sequences

CONSTANTS
  Clients,         \* state-changing requests that can be in flight at once
  KeyTexts,        \* texts between the colons of idempotency keys
  Reasons,         \* reason texts, without surrounding spaces; "" for none
  Calls            \* Calls[op]: what callers send with an operation, the
                   \* Idempotency-Key split at its colons, the reason and, to
                   \* advance the money, the target state

VARIABLES
  state,      \* state[t]["work"], state[t]["financial"]: the two state columns
  version,    \* version[t][k]: their version columns, 0 for no row
  history,    \* rows of task_state_transitions
  pc,         \* pc[c]: where client c's request is
  req,        \* req[c]: the request's arguments
  todo,       \* todo[c]: committed rows whose events c has still to publish
  published,  \* rows whose events have been published
  replies     \* successful answers given to callers

lifeVars == <<state, version, history, pc, req, todo, published, replies>>
vars == <<creator, relVars, lifeVars>>

Kinds == {"work", "financial"}

WorkStates == {"open", "in_progress", "pending_verification", "completed"}

\* The schema also lists SYSTEM_LOCKDOWN; no transition leads there.
FinancialStates == {"ACTIVE", "LIQUIDATING", "READY_FOR_PAYOUT",
                    "PAYOUT_PROCESSING", "ARCHIVED"}

AnyState == WorkStates \cup FinancialStates \cup {"absent"}

LegalWork == {<<"open", "in_progress">>,
              <<"in_progress", "pending_verification">>,
              <<"pending_verification", "completed">>}

LegalFinancial == {<<"ACTIVE", "LIQUIDATING">>,
                   <<"LIQUIDATING", "READY_FOR_PAYOUT">>,
                   <<"READY_FOR_PAYOUT", "PAYOUT_PROCESSING">>,
                   <<"PAYOUT_PROCESSING", "ARCHIVED">>}

LegalTransition(kind, from, to) ==
  <<from, to>> \in (IF kind = "work" THEN LegalWork ELSE LegalFinancial)

\* The map AdvanceFinancialState keeps: target state to expected state.
ExpectedState ==
  [LIQUIDATING |-> "ACTIVE", READY_FOR_PAYOUT |-> "LIQUIDATING",
   PAYOUT_PROCESSING |-> "READY_FOR_PAYOUT", ARCHIVED |-> "PAYOUT_PROCESSING"]

Keys == Seq(KeyTexts)

Call == [key: Keys, reason: Reasons]

\* Any other target is ErrInvalidStateAction.
AdvanceCall == [key: Keys, reason: Reasons, target: DOMAIN ExpectedState]

ASSUME CallsAssumption ==
  /\ {"work", "financial", "task-created-work", "task-created-financial"}
       \subseteq KeyTexts
  /\ {"", "created", "started", "submitted", "verified", "closed"}
       \subseteq Reasons
  /\ \A op \in {"start", "submit", "verify"} : Calls[op] \subseteq Call
  /\ Calls["advance"] \subseteq AdvanceCall

Row == [task: Tasks, kind: Kinds, from: AnyState, to: AnyState, version: Nat,
        actor: Users \cup {None}, reason: Reasons, key: Keys]

Command == [kind: Kinds, from: AnyState, to: AnyState,
            actor: Users \cup {None}, reason: Reasons, key: Keys]

Ops == {"create", "start", "submit", "verify", "advance"}

Request == [op: Ops, task: Tasks, actor: Users \cup {None}, key: Keys,
            reason: Reasons, target: FinancialStates \cup {None}]

Stages == {"idle", "ready", "submitted", "volunteer", "trustee", "apply",
           "publish"}

LifeTypeOK ==
  /\ state \in [Tasks -> [Kinds -> AnyState]]
  /\ version \in [Tasks -> [Kinds -> Nat]]
  /\ history \subseteq Row
  /\ pc \in [Clients -> Stages]
  /\ req \in [Clients -> Request \cup {None}]
  /\ todo \in [Clients -> SUBSET Row]
  /\ published \subseteq Row
  /\ replies \subseteq [req: Request, rows: SUBSET Row]

TypeOK == RelTypeOK /\ LifeTypeOK

Init ==
  /\ RelInit
  /\ state = [t \in Tasks |-> [k \in Kinds |-> "absent"]]
  /\ version = [t \in Tasks |-> [k \in Kinds |-> 0]]
  /\ history = {}
  /\ pc = [c \in Clients |-> "idle"]
  /\ req = [c \in Clients |-> None]
  /\ todo = [c \in Clients |-> {}]
  /\ published = {}
  /\ replies = {}

-----------------------------------------------------------------------------
(* The commands a request turns into, and the transaction that runs them.  *)

\* The fixed texts are named by what they tell, "creator started task work" and
\* so on; a caller may give the same text itself.
DefaultReason(value, fallback) == IF value = "" THEN fallback ELSE value

WorkCommand(r, from, to, key, fallback) ==
  [kind |-> "work", from |-> from, to |-> to, actor |-> r.actor,
   reason |-> DefaultReason(r.reason, fallback), key |-> key]

FinancialCommand(r, from, to, key, reason) ==
  [kind |-> "financial", from |-> from, to |-> to, actor |-> r.actor,
   reason |-> reason, key |-> key]

StartCommand(r) == WorkCommand(r, "open", "in_progress", r.key, "started")

SubmitCommand(r) ==
  WorkCommand(r, "in_progress", "pending_verification", r.key, "submitted")

VerifyCommand(r) ==
  WorkCommand(r, "pending_verification", "completed", Append(r.key, "work"),
              "verified")

CloseCommand(r) ==
  FinancialCommand(r, "ACTIVE", "LIQUIDATING", Append(r.key, "financial"),
                   "closed")

AdvanceCommand(r) ==
  FinancialCommand(r, ExpectedState[r.target], r.target, r.key, r.reason)

\* Faulty variant: verification forgets the money.
CommandsWorkOnly(r) ==
  CASE r.op = "start"   -> {StartCommand(r)}
    [] r.op = "submit"  -> {SubmitCommand(r)}
    [] r.op = "verify"  -> {VerifyCommand(r)}
    [] r.op = "advance" -> {AdvanceCommand(r)}
    [] OTHER -> {}

\* Verification issues two commands, under keys derived from the caller's; the
\* second one's reason is not the caller's.
Commands(r) ==
  CASE r.op = "start"   -> {StartCommand(r)}
    [] r.op = "submit"  -> {SubmitCommand(r)}
    [] r.op = "verify"  -> {VerifyCommand(r), CloseCommand(r)}
    [] r.op = "advance" -> {AdvanceCommand(r)}
    [] OTHER -> {}

\* The rows of CreateCampaign, both from NULL and at version 1.
InitialRow(r, kind) ==
  [task |-> r.task, kind |-> kind, from |-> "absent",
   to |-> IF kind = "work" THEN "open" ELSE "ACTIVE", version |-> 1,
   actor |-> r.actor, reason |-> "created",
   key |-> <<IF kind = "work" THEN "task-created-work"
                              ELSE "task-created-financial">>]

\* Faulty variant: the lookup asks for the whole command, not for the key.
KeyedByCommand(t, m) ==
  {h \in history : /\ h.task = t /\ h.kind = m.kind /\ h.key = m.key
                   /\ h.to = m.to /\ h.actor = m.actor}

\* getTransitionByIdempotencyKey, before it compares.
Keyed(t, m) ==
  {h \in history : h.task = t /\ h.kind = m.kind /\ h.key = m.key}

\* Faulty variant: another reason is taken for a retry.
SameCommandAnyReason(h, m) == h.to = m.to /\ h.actor = m.actor /\ h.from = m.from

\* The comparison of getTransitionByIdempotencyKey; else ErrIdempotencyConflict.
SameCommand(h, m) ==
  h.to = m.to /\ h.reason = m.reason /\ h.actor = m.actor /\ h.from = m.from

\* The conditions workTransitionUpdate adds to its UPDATE.
ReadyForWork(t, m) ==
  CASE m.to = "in_progress" ->
         creator[t] = m.actor /\ HasApprovedVolunteer(t)
    [] m.to = "pending_verification" ->
         /\ creator[t] = m.actor
         /\ HasApprovedVolunteer(t) /\ EveryApprovedSubmitted(t)
    [] OTHER ->
         /\ creator[t] # m.actor
         /\ IsTaskTrustee(t, m.actor) /\ ~ IsTaskVolunteer(t, m.actor)

\* Faulty variants: the UPDATE trusts the service's earlier reads; the UPDATE
\* does not compare the current state.
UpdateTrustsService(t, m) == state[t][m.kind] = m.from
UpdateAnyState(t, m) == m.kind = "work" => ReadyForWork(t, m)

UpdateApplies(t, m) ==
  /\ state[t][m.kind] = m.from
  /\ m.kind = "work" => ReadyForWork(t, m)

\* Faulty variant: the history row carries the version the row had before.
NewRowOldVersion(t, m) ==
  [task |-> t, kind |-> m.kind, from |-> m.from, to |-> m.to,
   version |-> version[t][m.kind], actor |-> m.actor, reason |-> m.reason,
   key |-> m.key]

NewRow(t, m) ==
  [task |-> t, kind |-> m.kind, from |-> m.from, to |-> m.to,
   version |-> version[t][m.kind] + 1, actor |-> m.actor, reason |-> m.reason,
   key |-> m.key]

\* Faulty variant: the status that a migration had to normalise away.
MovedToSubmitted(t, cmds, kind) ==
  IF \E m \in cmds : m.kind = kind
    THEN LET to == (CHOOSE m \in cmds : m.kind = kind).to
         IN  IF to = "pending_verification" THEN "submitted" ELSE to
    ELSE state[t][kind]

Moved(t, cmds, kind) ==
  IF \E m \in cmds : m.kind = kind
    THEN (CHOOSE m \in cmds : m.kind = kind).to
    ELSE state[t][kind]

WriteTransitions(t, cmds) ==
  /\ state' = [state EXCEPT ![t] = [k \in Kinds |-> Moved(t, cmds, k)]]
  /\ version' = [version EXCEPT ![t] =
                   [k \in Kinds |-> IF \E m \in cmds : m.kind = k
                                      THEN version[t][k] + 1
                                      ELSE version[t][k]]]
  /\ history' = history \cup {NewRow(t, m) : m \in cmds}

Reset(c) ==
  /\ pc' = [pc EXCEPT ![c] = "idle"]
  /\ req' = [req EXCEPT ![c] = None]
  /\ todo' = [todo EXCEPT ![c] = {}]

Goto(c, stage) == pc' = [pc EXCEPT ![c] = stage]

Answer(c, rows) == replies' = replies \cup {[req |-> req[c], rows |-> rows]}

-----------------------------------------------------------------------------
(* The service's handlers, up to the transaction.                          *)

NewRequest(op, t, u, call, target) ==
  [op |-> op, task |-> t, actor |-> u, key |-> call.key, reason |-> call.reason,
   target |-> target]

\* A campaign is created without a key; its rows have keys of their own.
CreateRequest(t, u) ==
  NewRequest("create", t, u, [key |-> <<>>, reason |-> ""], None)

Receive(c, r, stage) ==
  /\ pc[c] = "idle"
  /\ req' = [req EXCEPT ![c] = r]
  /\ Goto(c, stage)
  /\ UNCHANGED <<creator, relVars, state, version, history, todo, published,
                 replies>>

\* CreateCampaign: a taken slug is ErrTaskConflict, and changes nothing; else
\* the row and its two history rows commit, and TaskCreated (here the initial
\* work row) is left to publish.
CreateCampaign(c, t, u) ==
  LET r == CreateRequest(t, u)
  IN  /\ pc[c] = "idle"
      /\ CreateTaskRow(t, u)
      /\ state' = [state EXCEPT ![t] =
                     [k \in Kinds |-> InitialRow(r, k).to]]
      /\ version' = [version EXCEPT ![t] = [k \in Kinds |-> 1]]
      /\ history' = history \cup {InitialRow(r, k) : k \in Kinds}
      /\ req' = [req EXCEPT ![c] = r]
      /\ todo' = [todo EXCEPT ![c] = {InitialRow(r, "work")}]
      /\ Goto(c, "publish")
      /\ UNCHANGED <<published, replies>>

\* StartTask reads the task: only its creator goes on, and only an open task
\* is worth the readiness question.
StartTask(c, t, u, call) ==
  /\ creator[t] = u
  /\ Receive(c, NewRequest("start", t, u, call, None),
             IF state[t]["work"] = "open" THEN "ready" ELSE "apply")

SubmitForVerification(c, t, u, call) ==
  /\ creator[t] = u
  /\ Receive(c, NewRequest("submit", t, u, call, None),
             IF state[t]["work"] = "in_progress" THEN "submitted"
                                                 ELSE "apply")

VerifyTask(c, t, u, call) ==
  /\ creator[t] \notin {u, None}
  /\ Receive(c, NewRequest("verify", t, u, call, None), "volunteer")

\* An internal caller has to give a reason.
AdvanceFinancialState(c, t, call) ==
  /\ call.reason # ""
  /\ creator[t] # None
  /\ Receive(c, NewRequest("advance", t, None, call, call.target), "apply")

\* One relationship query each; a bad answer ends the request with an error.
Check(c, stage, fact, next) ==
  /\ pc[c] = stage
  /\ IF fact THEN Goto(c, next) /\ UNCHANGED <<req, todo>> ELSE Reset(c)
  /\ UNCHANGED <<creator, relVars, state, version, history, published, replies>>

CheckRelationships(c) ==
  LET t == req[c].task
      u == req[c].actor
  IN  \/ Check(c, "ready", HasApprovedVolunteer(t), "apply")
      \/ Check(c, "submitted",
               HasApprovedVolunteer(t) /\ EveryApprovedSubmitted(t), "apply")
      \/ Check(c, "volunteer", ~ IsTaskVolunteer(t, u), "trustee")
      \/ Check(c, "trustee", IsTaskTrustee(t, u), "apply")

-----------------------------------------------------------------------------
(* ApplyStateTransitions, one serialised transaction on the task row.      *)

\* Faulty variant: a replay is announced like a new transition.
ReplayAnnounced(c) ==
  LET t == req[c].task
      cmds == Commands(req[c])
  IN  /\ pc[c] = "apply"
      /\ \A m \in cmds : \E h \in Keyed(t, m) : SameCommand(h, m)
      /\ todo' = [todo EXCEPT ![c] = UNION {Keyed(t, m) : m \in cmds}]
      /\ Goto(c, "publish")
      /\ UNCHANGED <<creator, relVars, state, version, history, req, published,
                     replies>>

\* Every command was applied before: answer with the old rows, publish nothing.
Replay(c) ==
  LET t == req[c].task
      cmds == Commands(req[c])
  IN  /\ pc[c] = "apply"
      /\ \A m \in cmds : \E h \in Keyed(t, m) : SameCommand(h, m)
      /\ Answer(c, UNION {Keyed(t, m) : m \in cmds})
      /\ Reset(c)
      /\ UNCHANGED <<creator, relVars, state, version, history, published>>

\* No command was applied before: apply all of them, or none.
Apply(c) ==
  LET t == req[c].task
      cmds == Commands(req[c])
  IN  /\ pc[c] = "apply"
      /\ \A m \in cmds : /\ LegalTransition(m.kind, m.from, m.to)
                         /\ Keyed(t, m) = {}
                         /\ UpdateApplies(t, m)
      /\ WriteTransitions(t, cmds)
      /\ todo' = [todo EXCEPT ![c] = {NewRow(t, m) : m \in cmds}]
      /\ Goto(c, "publish")
      /\ UNCHANGED <<creator, relVars, req, published, replies>>

\* publishTransitions: work before financial, one row at a time; then answer.
\* TaskLiquidating goes out with the row that moves money to LIQUIDATING.
Publish(c) ==
  /\ pc[c] = "publish"
  /\ \E h \in todo[c] :
       /\ h.kind = "work" \/ \A g \in todo[c] : g.kind # "work"
       /\ published' = published \cup {h}
       /\ todo' = [todo EXCEPT ![c] = @ \ {h}]
  /\ UNCHANGED <<creator, relVars, state, version, history, pc, req, replies>>

\* CreateCampaign answers with the task, which later requests cannot change.
Respond(c) ==
  LET t == req[c].task
      cmds == Commands(req[c])
  IN  /\ pc[c] = "publish"
      /\ todo[c] = {}
      /\ IF req[c].op = "create"
           THEN UNCHANGED replies
           ELSE Answer(c, UNION {Keyed(t, m) : m \in cmds})
      /\ Reset(c)
      /\ UNCHANGED <<creator, relVars, state, version, history, published>>

\* The request ends in an error: a conflict found by the transaction, a failed
\* statement, a commit whose outcome the caller never learns, or a crash.
\* Nothing in memory survives, so events not yet published are lost.
Abandon(c) ==
  /\ pc[c] # "idle"
  /\ Reset(c)
  /\ UNCHANGED <<creator, relVars, state, version, history, published, replies>>

Next ==
  \/ \E c \in Clients :
       \/ \E t \in Tasks, u \in Users :
            \/ CreateCampaign(c, t, u)
            \/ \E call \in Calls["start"] : StartTask(c, t, u, call)
            \/ \E call \in Calls["submit"] :
                 SubmitForVerification(c, t, u, call)
            \/ \E call \in Calls["verify"] : VerifyTask(c, t, u, call)
       \/ \E t \in Tasks, call \in Calls["advance"] :
            AdvanceFinancialState(c, t, call)
       \/ CheckRelationships(c)
       \/ Replay(c) \/ Apply(c) \/ Publish(c) \/ Respond(c) \/ Abandon(c)
  \/ RelStep /\ UNCHANGED lifeVars

Spec == Init /\ [][Next]_vars

-----------------------------------------------------------------------------
(* Properties.                                                             *)

\* The audit trail and the row never disagree: for both kinds the history of a
\* task is one unbroken chain of versions 1, 2, ..., each row leaving the
\* state the row before it entered, and the last one entering the current
\* state.  Holds although rows are written by racing requests.
HistoryMatchesState ==
  \A t \in Tasks, k \in Kinds :
    LET rows == {h \in history : h.task = t /\ h.kind = k}
    IN  /\ \A n \in 1..version[t][k] : \E h \in rows : h.version = n
        /\ \A h \in rows :
             /\ h.version \in 1..version[t][k]
             /\ h.version = version[t][k] => h.to = state[t][k]
             /\ \A g \in rows :
                  /\ g.version = h.version => g = h
                  /\ g.version = h.version + 1 => g.from = h.to

\* One idempotency key has one effect: a task, kind and key name at most one
\* transition ever, however often and from wherever the key is sent again.
OneEffectPerKey ==
  \A g, h \in history :
    g.task = h.task /\ g.kind = h.kind /\ g.key = h.key => g = h

\* Completed work and open donations never coexist: verification moves both
\* machines or neither.
CompletionClosesDonations ==
  \A t \in Tasks : state[t]["work"] = "completed" =>
                   state[t]["financial"] # "ACTIVE"

\* A caller told of success can rely on it: the rows it was given stay in the
\* history, there is one for each command of its request, they say what it
\* asked for and why, under its key, and an exact retry is given the same rows.
RepliesAreStable ==
  \A a \in replies :
    /\ a.rows \subseteq history
    /\ \A m \in Commands(a.req) :
         \E h \in a.rows : /\ h.kind = m.kind /\ h.actor = m.actor
                           /\ h.from = m.from /\ h.to = m.to
                           /\ h.reason = m.reason /\ h.key = m.key
    /\ \A b \in replies : a.req = b.req => a.rows = b.rows

\* No transition is announced twice: rows waiting to be published are neither
\* published already nor waiting in another request, retries included.
AnnouncedAtMostOnce ==
  \A c \in Clients :
    /\ todo[c] \cap published = {}
    /\ \A d \in Clients \ {c} : todo[c] \cap todo[d] = {}

\* When work goes up for verification its creator asked for it, somebody was
\* approved and every approved volunteer had submitted at that moment,
\* whatever the service's earlier check had seen.
SubmittedMeansReady ==
  [][\A t \in Tasks :
       state[t]["work"] # "pending_verification"
         /\ state'[t]["work"] = "pending_verification"
       => HasApprovedVolunteer(t) /\ EveryApprovedSubmitted(t)]_vars

\* Work is accepted by a trustee of the task who is neither its creator nor
\* an applicant on it, at the moment of acceptance.
VerifierIsIndependent ==
  [][\A h \in history' \ history :
       h.to = "completed" =>
         /\ IsTaskTrustee(h.task, h.actor)
         /\ h.actor # creator[h.task]
         /\ ~ IsTaskVolunteer(h.task, h.actor)]_vars

\* The module implements CampaignFlow.
Flow == INSTANCE CampaignFlow WITH
          work <- [t \in Tasks |-> state[t]["work"]],
          money <- [t \in Tasks |-> state[t]["financial"]]

\* Through every interleaving of requests, retries and crashes, the two state
\* columns only ever move as the one abstract campaign flow allows.
ImplementsFlow == Flow!FlowSpec
=============================================================================
