------------------------ MODULE TaskLifecycleProofs ------------------------
(***************************************************************************)
(* Proofs about the task lifecycle, for every set of tasks, users,         *)
(* clients, keys and reasons: types, the audit trail, idempotency, replies *)
(* and announcements, and that the module implements CampaignFlow.         *)
(*                                                                         *)
(* Only two actions write a task's state: CreateCampaign and Apply.  Every *)
(* other step is quiet for the row and its history (StepKinds), so the     *)
(* invariants about them have three cases each.                            *)
(***************************************************************************)
EXTENDS TaskLifecycle, RelationshipsProofs, SequenceTheorems

-----------------------------------------------------------------------------
(* The commands of a request.                                              *)

\* Whatever a request asks for, its commands act for its actor, under keys
\* that are sequences, and on different state kinds.
LEMMA CommandsOfRequest ==
  ASSUME NEW r \in Request
  PROVE  /\ \A m \in Commands(r) :
              /\ m.kind \in Kinds /\ m.actor = r.actor
              /\ m.reason \in Reasons /\ m.key \in Keys
         /\ \A m, n \in Commands(r) : m.kind = n.kind => m = n
<1>1. r.key \in Keys /\ Append(r.key, "work") \in Keys
      /\ Append(r.key, "financial") \in Keys
  <2>1. r.key \in Seq(KeyTexts)
    BY DEF Request, Keys
  <2>2. "work" \in KeyTexts /\ "financial" \in KeyTexts
    BY CallsAssumption
  <2> QED
    BY <2>1, <2>2, AppendProperties DEF Keys
<1>2. r.op \in Ops /\ r.reason \in Reasons
  BY DEF Request
<1>3. \A fallback \in {"started", "submitted", "verified"} :
        DefaultReason(r.reason, fallback) \in Reasons
  BY <1>2, CallsAssumption DEF DefaultReason
<1>4. "closed" \in Reasons
  BY CallsAssumption
<1>5. CASE r.op \in {"start", "submit", "advance", "create"}
  BY <1>1, <1>2, <1>3, <1>5
     DEF Commands, StartCommand, SubmitCommand, AdvanceCommand, WorkCommand,
         FinancialCommand, Kinds
<1>6. CASE r.op = "verify"
  <2>1. Commands(r) = {VerifyCommand(r), CloseCommand(r)}
    BY <1>6 DEF Commands
  <2> QED
    BY <1>1, <1>3, <1>4, <2>1
       DEF VerifyCommand, CloseCommand, WorkCommand, FinancialCommand, Kinds
<1> QED
  BY <1>2, <1>5, <1>6 DEF Ops

\* A legal pair of states is a pair of different states.
LEMMA LegalIsTyped ==
  ASSUME NEW kind, NEW from, NEW to, LegalTransition(kind, from, to)
  PROVE  /\ from \in AnyState /\ to \in AnyState /\ from # to
         /\ from # "absent" /\ to # "absent" /\ to # "ACTIVE"
  BY DEF LegalTransition, LegalWork, LegalFinancial, AnyState, WorkStates,
         FinancialStates

-----------------------------------------------------------------------------
(* The inductive invariant.                                                *)

\* A request under way has its arguments.
RequestsAreKnown ==
  \A c \in Clients : pc[c] # "idle" => req[c] \in Request

\* A task that was not created has no state and no history.
AbsentIsEmpty ==
  \A t \in Tasks : creator[t] = None =>
    /\ \A k \in Kinds : state[t][k] = "absent" /\ version[t][k] = 0
    /\ \A h \in history : h.task # t

\* Rows are announced only after they are committed.
AnnouncedIsCommitted ==
  /\ published \subseteq history
  /\ \A c \in Clients : todo[c] \subseteq history

Answered(t, cmds) == \A m \in cmds : \E h \in Keyed(t, m) : SameCommand(h, m)

\* A request that is publishing has its rows in the history, and replies are
\* exactly the rows their commands' keys name.
RepliesAreKeyed ==
  /\ \A c \in Clients : pc[c] = "publish" =>
       Answered(req[c].task, Commands(req[c]))
  /\ \A a \in replies :
       /\ Answered(a.req.task, Commands(a.req))
       /\ a.rows = UNION {Keyed(a.req.task, m) : m \in Commands(a.req)}

LifeInv ==
  /\ RelInv /\ LifeTypeOK /\ RequestsAreKnown /\ AbsentIsEmpty
  /\ HistoryMatchesState /\ OneEffectPerKey /\ CompletionClosesDonations
  /\ AnnouncedIsCommitted /\ AnnouncedAtMostOnce /\ RepliesAreKeyed

-----------------------------------------------------------------------------
(* The three kinds of step.                                                *)

\* All that ApplyStateTransitions does to the row and the history of a task.
LEMMA ApplyFacts ==
  ASSUME LifeInv, NEW c \in Clients, Apply(c)
  PROVE  LET t == req[c].task
             cmds == Commands(req[c])
         IN  /\ t \in Tasks /\ req[c] \in Request
             /\ \A m \in cmds :
                  /\ m.kind \in Kinds /\ Keyed(t, m) = {}
                  /\ LegalTransition(m.kind, m.from, m.to)
                  /\ UpdateApplies(t, m)
                  /\ NewRow(t, m) \in Row
                  /\ state'[t][m.kind] = m.to
                  /\ version'[t][m.kind] = version[t][m.kind] + 1
             /\ \A m, n \in cmds : m.kind = n.kind => m = n
             /\ \A k \in Kinds : (\A m \in cmds : m.kind # k) =>
                  /\ state'[t][k] = state[t][k]
                  /\ version'[t][k] = version[t][k]
             /\ \A r \in Tasks \ {t} :
                  state'[r] = state[r] /\ version'[r] = version[r]
             /\ history' = history \cup {NewRow(t, m) : m \in cmds}
             /\ state' \in [Tasks -> [Kinds -> AnyState]]
             /\ version' \in [Tasks -> [Kinds -> Nat]]
             /\ UNCHANGED <<creator, relVars, req, published, replies>>
             /\ todo' = [todo EXCEPT ![c] = {NewRow(t, m) : m \in cmds}]
             /\ pc' = [pc EXCEPT ![c] = "publish"]
<1> DEFINE t == req[c].task
           cmds == Commands(req[c])
<1>1. req[c] \in Request /\ t \in Tasks
  BY DEF Apply, LifeInv, RequestsAreKnown, Request
<1>2. /\ \A m \in cmds : m.kind \in Kinds /\ m.actor = req[c].actor
                         /\ m.reason \in Reasons /\ m.key \in Keys
      /\ \A m, n \in cmds : m.kind = n.kind => m = n
  BY <1>1, CommandsOfRequest
<1>3. \A m \in cmds : /\ LegalTransition(m.kind, m.from, m.to)
                      /\ Keyed(t, m) = {} /\ UpdateApplies(t, m)
  BY DEF Apply
<1>4. \A m \in cmds : m.from \in AnyState /\ m.to \in AnyState
  BY <1>3, LegalIsTyped
<1>5. /\ state \in [Tasks -> [Kinds -> AnyState]]
      /\ version \in [Tasks -> [Kinds -> Nat]]
  BY DEF LifeInv, LifeTypeOK
<1>6. /\ state' = [state EXCEPT ![t] = [k \in Kinds |-> Moved(t, cmds, k)]]
      /\ version' = [version EXCEPT ![t] =
                       [k \in Kinds |-> IF \E m \in cmds : m.kind = k
                                          THEN version[t][k] + 1
                                          ELSE version[t][k]]]
      /\ history' = history \cup {NewRow(t, m) : m \in cmds}
  BY DEF Apply, WriteTransitions
<1> HIDE DEF cmds, t
<1>7. \A m \in cmds : Moved(t, cmds, m.kind) = m.to
  BY <1>2 DEF Moved
<1>8. \A k \in Kinds : (\A m \in cmds : m.kind # k) =>
        Moved(t, cmds, k) = state[t][k]
  BY DEF Moved
<1>9. \A k \in Kinds : Moved(t, cmds, k) \in AnyState
  BY <1>1, <1>4, <1>5, <1>7, <1>8
<1>10. /\ state' \in [Tasks -> [Kinds -> AnyState]]
       /\ \A k \in Kinds : state'[t][k] = Moved(t, cmds, k)
       /\ \A r \in Tasks \ {t} : state'[r] = state[r]
  BY <1>1, <1>5, <1>6, <1>9
<1>11. /\ version' \in [Tasks -> [Kinds -> Nat]]
       /\ \A k \in Kinds : version'[t][k] = IF \E m \in cmds : m.kind = k
                                              THEN version[t][k] + 1
                                              ELSE version[t][k]
       /\ \A r \in Tasks \ {t} : version'[r] = version[r]
  BY <1>1, <1>5, <1>6
<1>12. \A m \in cmds : NewRow(t, m) \in Row
  <2> SUFFICES ASSUME NEW m \in cmds PROVE NewRow(t, m) \in Row
    OBVIOUS
  <2>1. m.actor \in Users \cup {None}
    BY <1>1, <1>2 DEF Request
  <2>2. version[t][m.kind] + 1 \in Nat
    BY <1>1, <1>2, <1>5
  <2> QED
    BY <1>1, <1>2, <1>4, <2>1, <2>2 DEF NewRow, Row
<1>13. /\ UNCHANGED <<creator, relVars, req, published, replies>>
       /\ todo' = [todo EXCEPT ![c] = {NewRow(t, m) : m \in cmds}]
       /\ pc' = [pc EXCEPT ![c] = "publish"]
  BY DEF Apply, Goto, t, cmds
<1> QED
  BY <1>1, <1>2, <1>3, <1>6, <1>7, <1>8, <1>10, <1>11, <1>12, <1>13
     DEF t, cmds

\* All that CreateCampaign does.
LEMMA CreateFacts ==
  ASSUME LifeInv, NEW c \in Clients, NEW t \in Tasks, NEW u \in Users,
         CreateCampaign(c, t, u)
  PROVE  LET r == CreateRequest(t, u)
         IN  /\ r \in Request /\ r.task = t /\ Commands(r) = {}
             /\ \A k \in Kinds : InitialRow(r, k) \in Row
             /\ CreateTaskRow(t, u)
             /\ state' \in [Tasks -> [Kinds -> AnyState]]
             /\ \A k \in Kinds : state'[t][k] = InitialRow(r, k).to
             /\ version' \in [Tasks -> [Kinds -> Nat]]
             /\ \A k \in Kinds : version'[t][k] = 1
             /\ \A q \in Tasks \ {t} :
                  state'[q] = state[q] /\ version'[q] = version[q]
             /\ history' = history \cup {InitialRow(r, k) : k \in Kinds}
             /\ req' = [req EXCEPT ![c] = r]
             /\ todo' = [todo EXCEPT ![c] = {InitialRow(r, "work")}]
             /\ pc' = [pc EXCEPT ![c] = "publish"]
             /\ UNCHANGED <<published, replies>>
<1> DEFINE r == CreateRequest(t, u)
<1>1. r \in Request
  <2>1. <<>> \in Keys
    BY DEF Keys
  <2>2. "" \in Reasons
    BY CallsAssumption
  <2> QED
    BY <2>1, <2>2 DEF CreateRequest, NewRequest, Request, Ops
<1>2. \A k \in Kinds : InitialRow(r, k) \in Row
  <2> SUFFICES ASSUME NEW k \in Kinds PROVE InitialRow(r, k) \in Row
    OBVIOUS
  <2> DEFINE text == IF k = "work" THEN "task-created-work"
                                   ELSE "task-created-financial"
             to == IF k = "work" THEN "open" ELSE "ACTIVE"
  <2>1. <<text>> \in Keys
    <3>1. text \in KeyTexts
      BY CallsAssumption
    <3> HIDE DEF text
    <3> QED
      BY <3>1 DEF Keys
  <2>2. to \in AnyState /\ "absent" \in AnyState
    BY DEF AnyState, WorkStates, FinancialStates
  <2>3. r.task \in Tasks /\ r.actor \in Users \cup {None}
    BY DEF CreateRequest, NewRequest
  <2>4. "created" \in Reasons
    BY CallsAssumption
  <2>5. InitialRow(r, k) = [task |-> r.task, kind |-> k, from |-> "absent",
                            to |-> to, version |-> 1, actor |-> r.actor,
                            reason |-> "created", key |-> <<text>>]
    BY DEF InitialRow
  <2> HIDE DEF to, text, r
  <2> QED
    BY <2>1, <2>2, <2>3, <2>5, <2>4 DEF Row
<1>3. /\ state \in [Tasks -> [Kinds -> AnyState]]
      /\ version \in [Tasks -> [Kinds -> Nat]]
  BY DEF LifeInv, LifeTypeOK
<1>4. /\ CreateTaskRow(t, u)
      /\ state' = [state EXCEPT ![t] = [k \in Kinds |-> InitialRow(r, k).to]]
      /\ version' = [version EXCEPT ![t] = [k \in Kinds |-> 1]]
      /\ history' = history \cup {InitialRow(r, k) : k \in Kinds}
      /\ req' = [req EXCEPT ![c] = r]
      /\ todo' = [todo EXCEPT ![c] = {InitialRow(r, "work")}]
      /\ pc' = [pc EXCEPT ![c] = "publish"]
      /\ UNCHANGED <<published, replies>>
  BY DEF CreateCampaign, Goto
<1>5. Commands(r) = {} /\ r.task = t
  BY DEF Commands, CreateRequest, NewRequest
<1> HIDE DEF r
<1>6. \A k \in Kinds : InitialRow(r, k).to \in AnyState
  BY DEF InitialRow, AnyState, WorkStates, FinancialStates
<1>7. /\ state' \in [Tasks -> [Kinds -> AnyState]]
      /\ \A k \in Kinds : state'[t][k] = InitialRow(r, k).to
      /\ \A q \in Tasks \ {t} : state'[q] = state[q]
  BY <1>3, <1>4, <1>6
<1>8. /\ version' \in [Tasks -> [Kinds -> Nat]]
      /\ \A k \in Kinds : version'[t][k] = 1
      /\ \A q \in Tasks \ {t} : version'[q] = version[q]
  BY <1>3, <1>4
<1> QED
  BY <1>1, <1>2, <1>4, <1>5, <1>7, <1>8 DEF r

\* The steps that leave the row and its history alone.
Quiet(c) ==
  \/ \E t \in Tasks, u \in Users, call \in Call :
       \/ StartTask(c, t, u, call)
       \/ SubmitForVerification(c, t, u, call)
       \/ VerifyTask(c, t, u, call)
  \/ \E t \in Tasks, call \in AdvanceCall : AdvanceFinancialState(c, t, call)
  \/ CheckRelationships(c)
  \/ Replay(c) \/ Publish(c) \/ Respond(c) \/ Abandon(c)

LEMMA StepKinds ==
  ASSUME Next
  PROVE  \/ \E c \in Clients, t \in Tasks, u \in Users : CreateCampaign(c, t, u)
         \/ \E c \in Clients : Apply(c)
         \/ \E c \in Clients : Quiet(c)
         \/ RelStep /\ UNCHANGED lifeVars
<1>1. /\ \A op \in {"start", "submit", "verify"} : Calls[op] \subseteq Call
      /\ Calls["advance"] \subseteq AdvanceCall
  BY CallsAssumption
<1> QED
  BY <1>1 DEF Next, Quiet

LEMMA QuietFacts ==
  ASSUME NEW c \in Clients, Quiet(c)
  PROVE  UNCHANGED <<creator, relVars, state, version, history>>
  BY DEF Quiet, StartTask, SubmitForVerification, VerifyTask,
         AdvanceFinancialState, Receive, CheckRelationships, Check, Replay,
         Publish, Respond, Abandon

\* What a quiet step does to the requests: only client c's is touched; it
\* starts publishing only by committing; it hands over at most one row, and
\* gives at most one answer, with the rows its commands' keys name.
QuietEffect(c) ==
  /\ pc' \in [Clients -> Stages]
  /\ req' \in [Clients -> Request \cup {None}]
  /\ todo' \in [Clients -> SUBSET Row]
  /\ \A d \in Clients \ {c} : /\ pc'[d] = pc[d] /\ req'[d] = req[d]
                              /\ todo'[d] = todo[d]
  /\ pc'[c] # "idle" => req'[c] \in Request
  /\ pc'[c] = "publish" => pc[c] = "publish" /\ req'[c] = req[c]
  /\ \/ published' = published /\ todo'[c] \subseteq todo[c]
     \/ \E h \in todo[c] : /\ published' = published \cup {h}
                           /\ todo'[c] = todo[c] \ {h}
  /\ \/ replies' = replies
     \/ /\ req[c] \in Request /\ Answered(req[c].task, Commands(req[c]))
        /\ replies' = replies \cup
             {[req |-> req[c],
               rows |-> UNION {Keyed(req[c].task, m) : m \in Commands(req[c])}]}

LEMMA ReceiveEffect ==
  ASSUME LifeTypeOK, NEW c \in Clients, NEW r \in Request,
         NEW stage \in Stages \ {"idle", "publish"}, Receive(c, r, stage)
  PROVE  QuietEffect(c)
  BY DEF LifeTypeOK, Receive, Goto, QuietEffect

LEMMA ResetEffect ==
  ASSUME LifeTypeOK, NEW c \in Clients, Reset(c)
  PROVE  /\ pc' \in [Clients -> Stages] /\ pc'[c] = "idle"
         /\ req' \in [Clients -> Request \cup {None}]
         /\ todo' \in [Clients -> SUBSET Row] /\ todo'[c] = {}
         /\ \A d \in Clients \ {c} : /\ pc'[d] = pc[d] /\ req'[d] = req[d]
                                     /\ todo'[d] = todo[d]
  BY DEF LifeTypeOK, Reset, Stages

LEMMA CheckEffect ==
  ASSUME LifeTypeOK, RequestsAreKnown, NEW c \in Clients,
         NEW stage \in Stages \ {"idle"}, NEW fact \in BOOLEAN,
         NEW next \in Stages \ {"idle", "publish"}, Check(c, stage, fact, next)
  PROVE  QuietEffect(c)
<1>1. CASE fact
  BY <1>1 DEF LifeTypeOK, RequestsAreKnown, Check, Goto, QuietEffect
<1>2. CASE ~ fact
  BY <1>2, ResetEffect DEF Check, QuietEffect
<1> QED
  BY <1>1, <1>2

LEMMA QuietIsSmall ==
  ASSUME LifeInv, NEW c \in Clients, Quiet(c)
  PROVE  QuietEffect(c)
<1> USE DEF LifeInv
<1>1. ASSUME NEW t \in Tasks, NEW u \in Users, NEW call \in Call,
             \/ StartTask(c, t, u, call) \/ SubmitForVerification(c, t, u, call)
             \/ VerifyTask(c, t, u, call)
      PROVE  QuietEffect(c)
  <2>1. \A op \in Ops : NewRequest(op, t, u, call, None) \in Request
    BY DEF NewRequest, Request, Call
  <2> QED
    BY <1>1, <2>1, ReceiveEffect
       DEF StartTask, SubmitForVerification, VerifyTask, Ops, Stages
<1>2. ASSUME NEW t \in Tasks, NEW call \in AdvanceCall,
             AdvanceFinancialState(c, t, call)
      PROVE  QuietEffect(c)
  <2>1. call.target \in FinancialStates
    BY DEF AdvanceCall, ExpectedState, FinancialStates
  <2>2. NewRequest("advance", t, None, call, call.target) \in Request
    BY <2>1 DEF NewRequest, Request, Ops, AdvanceCall
  <2> QED
    BY <1>2, <2>2, ReceiveEffect DEF AdvanceFinancialState, Stages
<1>3. CASE CheckRelationships(c)
  <2> DEFINE t == req[c].task
             u == req[c].actor
  <2>1. /\ HasApprovedVolunteer(t) \in BOOLEAN
        /\ (HasApprovedVolunteer(t) /\ EveryApprovedSubmitted(t)) \in BOOLEAN
        /\ (~ IsTaskVolunteer(t, u)) \in BOOLEAN
        /\ IsTaskTrustee(t, u) \in BOOLEAN
    BY DEF HasApprovedVolunteer, EveryApprovedSubmitted, IsTaskVolunteer,
           IsTaskTrustee
  <2>2. {"ready", "submitted", "volunteer", "trustee", "apply"}
          \subseteq Stages \ {"idle", "publish"}
    BY DEF Stages
  <2> HIDE DEF t, u
  <2>3. CASE Check(c, "ready", HasApprovedVolunteer(t), "apply")
    BY <2>1, <2>2, <2>3, CheckEffect
  <2>4. CASE Check(c, "submitted",
                   HasApprovedVolunteer(t) /\ EveryApprovedSubmitted(t), "apply")
    BY <2>1, <2>2, <2>4, CheckEffect
  <2>5. CASE Check(c, "volunteer", ~ IsTaskVolunteer(t, u), "trustee")
    BY <2>1, <2>2, <2>5, CheckEffect
  <2>6. CASE Check(c, "trustee", IsTaskTrustee(t, u), "apply")
    BY <2>1, <2>2, <2>6, CheckEffect
  <2> QED
    BY <1>3, <2>3, <2>4, <2>5, <2>6 DEF CheckRelationships, t, u
<1>4. CASE Replay(c)
  <2>1. /\ req[c] \in Request
        /\ published' = published
        /\ Answered(req[c].task, Commands(req[c]))
        /\ Reset(c)
        /\ Answer(c, UNION {Keyed(req[c].task, m) : m \in Commands(req[c])})
    BY <1>4 DEF Replay, RequestsAreKnown, Answered
  <2> QED
    BY <2>1, ResetEffect DEF QuietEffect, Answer
<1>5. CASE Publish(c)
  BY <1>5 DEF Publish, QuietEffect, LifeTypeOK, RequestsAreKnown
<1>6. CASE Respond(c)
  <2>1. /\ req[c] \in Request
        /\ published' = published
        /\ Answered(req[c].task, Commands(req[c]))
        /\ Reset(c)
        /\ \/ replies' = replies
           \/ Answer(c, UNION {Keyed(req[c].task, m) : m \in Commands(req[c])})
    BY <1>6 DEF Respond, RequestsAreKnown, RepliesAreKeyed
  <2> QED
    BY <2>1, ResetEffect DEF QuietEffect, Answer
<1>7. CASE Abandon(c)
  BY <1>7, ResetEffect DEF Abandon, QuietEffect
<1> QED
  BY <1>1, <1>2, <1>3, <1>4, <1>5, <1>6, <1>7 DEF Quiet

-----------------------------------------------------------------------------
(* One lemma for each part of the invariant.                               *)

LEMMA RelPart ==
  ASSUME LifeInv, Next
  PROVE  RelInv'
<1>1. ASSUME NEW c \in Clients, NEW t \in Tasks, NEW u \in Users,
             CreateCampaign(c, t, u)
      PROVE  RelInv'
  BY <1>1, CreateInv DEF CreateCampaign, LifeInv
<1>2. ASSUME NEW c \in Clients, Apply(c) PROVE RelInv'
  BY <1>2, RelStutterInv DEF Apply, LifeInv
<1>3. ASSUME NEW c \in Clients, Quiet(c) PROVE RelInv'
  BY <1>3, QuietFacts, RelStutterInv DEF LifeInv
<1>4. CASE RelStep
  BY <1>4, RelStepInv DEF LifeInv
<1> QED
  BY <1>1, <1>2, <1>3, <1>4, StepKinds

LEMMA TypePart ==
  ASSUME LifeInv, Next
  PROVE  LifeTypeOK' /\ RequestsAreKnown'
<1> USE DEF LifeTypeOK, RequestsAreKnown
<1>0. LifeTypeOK /\ RequestsAreKnown
  BY DEF LifeInv
<1>1. ASSUME NEW c \in Clients, NEW t \in Tasks, NEW u \in Users,
             CreateCampaign(c, t, u)
      PROVE  LifeTypeOK' /\ RequestsAreKnown'
  <2> DEFINE r == CreateRequest(t, u)
  <2>1. /\ r \in Request
        /\ \A k \in Kinds : InitialRow(r, k) \in Row
        /\ "work" \in Kinds /\ "publish" \in Stages
    BY <1>1, CreateFacts DEF Kinds, Stages
  <2>2. /\ state' \in [Tasks -> [Kinds -> AnyState]]
        /\ version' \in [Tasks -> [Kinds -> Nat]]
        /\ history' = history \cup {InitialRow(r, k) : k \in Kinds}
        /\ req' = [req EXCEPT ![c] = r]
        /\ todo' = [todo EXCEPT ![c] = {InitialRow(r, "work")}]
        /\ pc' = [pc EXCEPT ![c] = "publish"]
        /\ UNCHANGED <<published, replies>>
    BY <1>1, CreateFacts
  <2> HIDE DEF r
  <2> QED
    BY <1>0, <2>1, <2>2
<1>2. ASSUME NEW c \in Clients, Apply(c)
      PROVE  LifeTypeOK' /\ RequestsAreKnown'
  <2> DEFINE t == req[c].task
             cmds == Commands(req[c])
  <2>1. /\ req[c] \in Request
        /\ \A m \in cmds : NewRow(t, m) \in Row
        /\ "publish" \in Stages
    BY <1>2, ApplyFacts DEF Stages
  <2>2. /\ state' \in [Tasks -> [Kinds -> AnyState]]
        /\ version' \in [Tasks -> [Kinds -> Nat]]
        /\ history' = history \cup {NewRow(t, m) : m \in cmds}
        /\ todo' = [todo EXCEPT ![c] = {NewRow(t, m) : m \in cmds}]
        /\ pc' = [pc EXCEPT ![c] = "publish"]
        /\ UNCHANGED <<req, published, replies>>
    BY <1>2, ApplyFacts
  <2> HIDE DEF t, cmds
  <2> QED
    BY <1>0, <2>1, <2>2
<1>3. ASSUME NEW c \in Clients, Quiet(c)
      PROVE  LifeTypeOK' /\ RequestsAreKnown'
  <2>1. UNCHANGED <<state, version, history>> /\ QuietEffect(c)
    BY <1>3, QuietFacts, QuietIsSmall
  <2>2. /\ pc' \in [Clients -> Stages]
        /\ req' \in [Clients -> Request \cup {None}]
        /\ todo' \in [Clients -> SUBSET Row]
        /\ \A d \in Clients : pc'[d] # "idle" => req'[d] \in Request
    BY <1>0, <2>1 DEF QuietEffect
  <2>3. published' \subseteq Row
    BY <1>0, <2>1 DEF QuietEffect
  <2>4. \A r \in Request : \A cmds : UNION {Keyed(r.task, m) : m \in cmds} \subseteq Row
    BY <1>0 DEF Keyed
  <2>5. replies' \subseteq [req: Request, rows: SUBSET Row]
    BY <1>0, <2>1, <2>4 DEF QuietEffect
  <2> QED
    BY <1>0, <2>1, <2>2, <2>3, <2>5
<1>4. CASE UNCHANGED lifeVars
  BY <1>0, <1>4 DEF lifeVars
<1> QED
  BY <1>1, <1>2, <1>3, <1>4, StepKinds

LEMMA AbsentPart ==
  ASSUME LifeInv, Next
  PROVE  AbsentIsEmpty'
<1>0. AbsentIsEmpty
  BY DEF LifeInv
<1>1. ASSUME NEW c \in Clients, NEW t \in Tasks, NEW u \in Users,
             CreateCampaign(c, t, u)
      PROVE  AbsentIsEmpty'
  <2> DEFINE r == CreateRequest(t, u)
  <2>1. /\ \A k \in Kinds : InitialRow(r, k).task = t
        /\ creator'[t] # None
        /\ \A q \in Tasks \ {t} : creator'[q] = creator[q]
    BY <1>1, RelAssumption
       DEF CreateCampaign, CreateTaskRow, InitialRow, CreateRequest, NewRequest, LifeInv,
           RelInv, RelTypeOK
  <2>2. /\ history' = history \cup {InitialRow(r, k) : k \in Kinds}
        /\ \A q \in Tasks \ {t} :
             state'[q] = state[q] /\ version'[q] = version[q]
    BY <1>1, CreateFacts
  <2> HIDE DEF r
  <2> QED
    BY <1>0, <2>1, <2>2 DEF AbsentIsEmpty
<1>2. ASSUME NEW c \in Clients, Apply(c) PROVE AbsentIsEmpty'
  <2> DEFINE t == req[c].task
             cmds == Commands(req[c])
  <2>1. /\ t \in Tasks
        /\ \A m \in cmds : /\ m.kind \in Kinds
                           /\ LegalTransition(m.kind, m.from, m.to)
                           /\ UpdateApplies(t, m)
        /\ \A k \in Kinds : (\A m \in cmds : m.kind # k) =>
             /\ state'[t][k] = state[t][k]
             /\ version'[t][k] = version[t][k]
        /\ \A q \in Tasks \ {t} :
             state'[q] = state[q] /\ version'[q] = version[q]
        /\ history' = history \cup {NewRow(t, m) : m \in cmds}
        /\ UNCHANGED creator
    BY <1>2, ApplyFacts
  <2> HIDE DEF t, cmds
  <2>2. \A m \in cmds : state[t][m.kind] = m.from /\ m.from # "absent"
    BY <2>1, LegalIsTyped DEF UpdateApplies
  <2>3. creator[t] = None => cmds = {}
    BY <1>0, <2>1, <2>2 DEF AbsentIsEmpty
  <2>4. \A m \in cmds : NewRow(t, m).task = t
    BY DEF NewRow
  <2> QED
    BY <1>0, <2>1, <2>3, <2>4 DEF AbsentIsEmpty
<1>3. ASSUME NEW c \in Clients, Quiet(c) PROVE AbsentIsEmpty'
  BY <1>0, <1>3, QuietFacts DEF AbsentIsEmpty
<1>4. CASE RelStep /\ UNCHANGED lifeVars
  BY <1>0, <1>4, RelStepInv DEF AbsentIsEmpty, lifeVars, LifeInv
<1> QED
  BY <1>1, <1>2, <1>3, <1>4, StepKinds

\* The chain of one task and kind, as HistoryMatchesState states it.
Chain(rows, last, current) ==
  /\ \A n \in 1..last : \E h \in rows : h.version = n
  /\ \A h \in rows :
       /\ h.version \in 1..last
       /\ h.version = last => h.to = current
       /\ \A g \in rows :
            /\ g.version = h.version => g = h
            /\ g.version = h.version + 1 => g.from = h.to

RowsOf(t, k) == {h \in history : h.task = t /\ h.kind = k}

LEMMA HistoryIsChains ==
  HistoryMatchesState <=>
    \A t \in Tasks, k \in Kinds : Chain(RowsOf(t, k), version[t][k], state[t][k])
  BY DEF HistoryMatchesState, Chain, RowsOf

\* A chain grows by a row that leaves the current state at the next version.
LEMMA ChainGrows ==
  ASSUME NEW rows, NEW last \in Nat, NEW current, NEW new, NEW next,
         Chain(rows, last, current),
         new.version = last + 1, new.from = current, new.to = next
  PROVE  Chain(rows \cup {new}, last + 1, next)
<1> DEFINE all == rows \cup {new}
<1>1. \A n \in 1..(last + 1) : \E h \in all : h.version = n
  <2> SUFFICES ASSUME NEW n \in 1..(last + 1)
               PROVE  \E h \in all : h.version = n
    OBVIOUS
  <2>1. CASE n = last + 1
    BY <2>1
  <2>2. CASE n \in 1..last
    BY <2>2 DEF Chain
  <2> QED
    BY <2>1, <2>2
<1>2. ASSUME NEW h \in all
      PROVE  /\ h.version \in 1..(last + 1)
             /\ h.version = last + 1 => h.to = next
             /\ \A g \in all :
                  /\ g.version = h.version => g = h
                  /\ g.version = h.version + 1 => g.from = h.to
  <2>1. \A g \in rows : g.version \in 1..last
    BY DEF Chain
  <2>2. CASE h = new
    BY <2>1, <2>2
  <2>3. CASE h \in rows
    BY <2>1, <2>3 DEF Chain
  <2> QED
    BY <2>2, <2>3
<1> QED
  BY <1>1, <1>2 DEF Chain

LEMMA HistoryPart ==
  ASSUME LifeInv, Next
  PROVE  HistoryMatchesState'
<1>0. \A t \in Tasks, k \in Kinds :
        Chain(RowsOf(t, k), version[t][k], state[t][k])
  BY HistoryIsChains DEF LifeInv
<1> SUFFICES ASSUME NEW t \in Tasks, NEW k \in Kinds
             PROVE  Chain(RowsOf(t, k)', version'[t][k], state'[t][k])
  BY DEF HistoryMatchesState, Chain, RowsOf
<1>1. ASSUME NEW c \in Clients, NEW q \in Tasks, NEW u \in Users,
             CreateCampaign(c, q, u)
      PROVE  Chain(RowsOf(t, k)', version'[t][k], state'[t][k])
  <2> DEFINE r == CreateRequest(q, u)
  <2>1. /\ history' = history \cup {InitialRow(r, j) : j \in Kinds}
        /\ \A j \in Kinds : version'[q][j] = 1
                            /\ state'[q][j] = InitialRow(r, j).to
        /\ \A p \in Tasks \ {q} : state'[p] = state[p] /\ version'[p] = version[p]
        /\ creator[q] = None
    BY <1>1, CreateFacts DEF CreateTaskRow
  <2>2. \A j \in Kinds : /\ InitialRow(r, j).task = q
                         /\ InitialRow(r, j).kind = j
                         /\ InitialRow(r, j).version = 1
    BY DEF InitialRow, CreateRequest, NewRequest
  <2> HIDE DEF r
  <2>3. CASE t # q
    <3>1. RowsOf(t, k)' = RowsOf(t, k)
      BY <2>1, <2>2, <2>3 DEF RowsOf
    <3> QED
      BY <1>0, <2>1, <2>3, <3>1
  <2>4. CASE t = q
    <3>1. RowsOf(t, k)' = {InitialRow(r, k)}
      BY <2>1, <2>2, <2>4 DEF RowsOf, LifeInv, AbsentIsEmpty
    <3> QED
      BY <2>1, <2>2, <2>4, <3>1 DEF Chain
  <2> QED
    BY <2>3, <2>4
<1>2. ASSUME NEW c \in Clients, Apply(c)
      PROVE  Chain(RowsOf(t, k)', version'[t][k], state'[t][k])
  <2> DEFINE q == req[c].task
             cmds == Commands(req[c])
  <2>1. /\ q \in Tasks
        /\ \A m \in cmds : /\ UpdateApplies(q, m)
                           /\ state'[q][m.kind] = m.to
                           /\ version'[q][m.kind] = version[q][m.kind] + 1
        /\ \A m, n \in cmds : m.kind = n.kind => m = n
        /\ \A j \in Kinds : (\A m \in cmds : m.kind # j) =>
             /\ state'[q][j] = state[q][j]
             /\ version'[q][j] = version[q][j]
        /\ \A p \in Tasks \ {q} : state'[p] = state[p] /\ version'[p] = version[p]
        /\ history' = history \cup {NewRow(q, m) : m \in cmds}
    BY <1>2, ApplyFacts
  <2>2. \A m \in cmds : /\ NewRow(q, m).task = q /\ NewRow(q, m).kind = m.kind
                        /\ NewRow(q, m).version = version[q][m.kind] + 1
                        /\ NewRow(q, m).from = m.from /\ NewRow(q, m).to = m.to
    BY DEF NewRow
  <2> HIDE DEF q, cmds
  <2>3. CASE t # q \/ \A m \in cmds : m.kind # k
    <3>1. RowsOf(t, k)' = RowsOf(t, k)
      BY <2>1, <2>2, <2>3 DEF RowsOf
    <3>2. version'[t][k] = version[t][k] /\ state'[t][k] = state[t][k]
      BY <2>1, <2>3
    <3> QED
      BY <1>0, <3>1, <3>2
  <2>4. ASSUME t = q, NEW m \in cmds, m.kind = k
        PROVE  Chain(RowsOf(t, k)', version'[t][k], state'[t][k])
    <3>1. RowsOf(t, k)' = RowsOf(t, k) \cup {NewRow(q, m)}
      BY <2>1, <2>2, <2>4 DEF RowsOf
    <3>2. /\ version[t][k] \in Nat /\ version'[t][k] = version[t][k] + 1
          /\ state[t][k] = m.from /\ state'[t][k] = m.to
      BY <2>1, <2>4 DEF LifeInv, LifeTypeOK, UpdateApplies
    <3>3. /\ NewRow(q, m).version = version[t][k] + 1
          /\ NewRow(q, m).from = state[t][k] /\ NewRow(q, m).to = state'[t][k]
      BY <2>2, <2>4, <3>2
    <3> QED
      BY <1>0, <3>1, <3>2, <3>3, ChainGrows
  <2> QED
    BY <2>3, <2>4
<1>3. CASE UNCHANGED <<state, version, history>>
  BY <1>0, <1>3 DEF RowsOf
<1> QED
  BY <1>1, <1>2, <1>3, StepKinds, QuietFacts DEF lifeVars

LEMMA KeyPart ==
  ASSUME LifeInv, Next
  PROVE  OneEffectPerKey'
<1>0. OneEffectPerKey
  BY DEF LifeInv
<1>1. ASSUME NEW c \in Clients, NEW t \in Tasks, NEW u \in Users,
             CreateCampaign(c, t, u)
      PROVE  OneEffectPerKey'
  <2> DEFINE r == CreateRequest(t, u)
  <2>1. history' = history \cup {InitialRow(r, k) : k \in Kinds}
        /\ \A h \in history : h.task # t
    BY <1>1, CreateFacts DEF CreateTaskRow, LifeInv, AbsentIsEmpty
  <2>2. \A k \in Kinds : InitialRow(r, k).task = t /\ InitialRow(r, k).kind = k
    BY DEF InitialRow, CreateRequest, NewRequest
  <2> HIDE DEF r
  <2> QED
    BY <1>0, <2>1, <2>2 DEF OneEffectPerKey
<1>2. ASSUME NEW c \in Clients, Apply(c) PROVE OneEffectPerKey'
  <2> DEFINE t == req[c].task
             cmds == Commands(req[c])
  <2>1. /\ \A m \in cmds : Keyed(t, m) = {}
        /\ \A m, n \in cmds : m.kind = n.kind => m = n
        /\ history' = history \cup {NewRow(t, m) : m \in cmds}
    BY <1>2, ApplyFacts
  <2>2. \A m \in cmds : /\ NewRow(t, m).task = t /\ NewRow(t, m).kind = m.kind
                        /\ NewRow(t, m).key = m.key
    BY DEF NewRow
  <2> HIDE DEF t, cmds
  <2> QED
    BY <1>0, <2>1, <2>2 DEF OneEffectPerKey, Keyed
<1>3. CASE history' = history
  BY <1>0, <1>3 DEF OneEffectPerKey
<1> QED
  BY <1>1, <1>2, <1>3, StepKinds, QuietFacts DEF lifeVars

\* Only verification completes work, and it brings the money's command along.
LEMMA CompletionBringsMoney ==
  ASSUME NEW r \in Request, NEW m \in Commands(r),
         m.kind = "work", m.to = "completed"
  PROVE  \E n \in Commands(r) : n.kind = "financial"
<1>1. CASE r.op = "verify"
  <2>1. CloseCommand(r) \in Commands(r)
    BY <1>1 DEF Commands
  <2> QED
    BY <2>1 DEF CloseCommand, FinancialCommand
<1>2. CASE r.op \in Ops \ {"verify"}
  BY <1>2 DEF Commands, StartCommand, SubmitCommand, AdvanceCommand, WorkCommand,
              FinancialCommand, Ops
<1> QED
  BY <1>1, <1>2 DEF Request

LEMMA CompletionPart ==
  ASSUME LifeInv, Next
  PROVE  CompletionClosesDonations'
<1>0. CompletionClosesDonations /\ "work" \in Kinds /\ "financial" \in Kinds
  BY DEF LifeInv, Kinds
<1>1. ASSUME NEW c \in Clients, NEW t \in Tasks, NEW u \in Users,
             CreateCampaign(c, t, u)
      PROVE  CompletionClosesDonations'
  <2>1. /\ state'[t]["work"] = "open"
        /\ \A q \in Tasks \ {t} : state'[q] = state[q]
    BY <1>0, <1>1, CreateFacts DEF InitialRow
  <2> QED
    BY <1>0, <2>1 DEF CompletionClosesDonations
<1>2. ASSUME NEW c \in Clients, Apply(c) PROVE CompletionClosesDonations'
  <2> DEFINE t == req[c].task
             cmds == Commands(req[c])
  <2>1. /\ t \in Tasks /\ req[c] \in Request
        /\ \A m \in cmds : /\ LegalTransition(m.kind, m.from, m.to)
                           /\ state'[t][m.kind] = m.to
        /\ \A k \in Kinds : (\A m \in cmds : m.kind # k) =>
                              state'[t][k] = state[t][k]
        /\ \A q \in Tasks \ {t} : state'[q] = state[q]
    BY <1>2, ApplyFacts
  <2>2. ASSUME NEW m \in cmds, m.kind = "financial"
        PROVE  state'[t]["financial"] # "ACTIVE"
    BY <2>1, <2>2, LegalIsTyped
  <2>3. ASSUME \A m \in cmds : m.kind # "financial",
               state'[t]["work"] = "completed"
        PROVE  state'[t]["financial"] # "ACTIVE"
    <3>1. \A m \in cmds : m.kind = "work" => m.to # "completed"
      BY <2>1, <2>3, CompletionBringsMoney
    <3>2. state[t]["work"] = "completed"
      BY <1>0, <2>1, <2>3, <3>1
    <3> QED
      BY <1>0, <2>1, <2>3, <3>2 DEF CompletionClosesDonations
  <2> QED
    BY <1>0, <2>1, <2>2, <2>3 DEF CompletionClosesDonations
<1>3. CASE state' = state
  BY <1>0, <1>3 DEF CompletionClosesDonations
<1> QED
  BY <1>1, <1>2, <1>3, StepKinds, QuietFacts DEF lifeVars

\* A set of new rows is put up for announcement as it is committed.
LEMMA NewRowsAnnounced ==
  ASSUME AnnouncedIsCommitted, AnnouncedAtMostOnce,
         todo \in [Clients -> SUBSET Row],
         NEW c \in Clients, NEW new, NEW more,
         history' = history \cup more, new \subseteq more,
         \A h \in new : h \notin history,
         todo' = [todo EXCEPT ![c] = new], published' = published
  PROVE  AnnouncedIsCommitted' /\ AnnouncedAtMostOnce'
<1>1. todo'[c] = new /\ \A d \in Clients \ {c} : todo'[d] = todo[d]
  OBVIOUS
<1> QED
  BY <1>1 DEF AnnouncedIsCommitted, AnnouncedAtMostOnce

LEMMA AnnouncedPart ==
  ASSUME LifeInv, Next
  PROVE  AnnouncedIsCommitted' /\ AnnouncedAtMostOnce'
<1>0. /\ AnnouncedIsCommitted /\ AnnouncedAtMostOnce
      /\ todo \in [Clients -> SUBSET Row]
  BY DEF LifeInv, LifeTypeOK
<1>2. ASSUME NEW c \in Clients, NEW t \in Tasks, NEW u \in Users,
             CreateCampaign(c, t, u)
      PROVE  AnnouncedIsCommitted' /\ AnnouncedAtMostOnce'
  <2> DEFINE r == CreateRequest(t, u)
  <2>1. /\ history' = history \cup {InitialRow(r, k) : k \in Kinds}
        /\ todo' = [todo EXCEPT ![c] = {InitialRow(r, "work")}]
        /\ published' = published
        /\ \A h \in history : h.task # t
    BY <1>2, CreateFacts DEF CreateTaskRow, LifeInv, AbsentIsEmpty
  <2>2. InitialRow(r, "work").task = t /\ "work" \in Kinds
    BY DEF InitialRow, CreateRequest, NewRequest, Kinds
  <2> DEFINE new == {InitialRow(r, "work")}
             more == {InitialRow(r, k) : k \in Kinds}
  <2>3. new \subseteq more /\ \A h \in new : h \notin history
    BY <2>1, <2>2
  <2>4. /\ history' = history \cup more /\ published' = published
        /\ todo' = [todo EXCEPT ![c] = new]
    BY <2>1
  <2> HIDE DEF new, more
  <2> QED
    BY <1>0, <2>3, <2>4, NewRowsAnnounced
<1>3. ASSUME NEW c \in Clients, Apply(c)
      PROVE  AnnouncedIsCommitted' /\ AnnouncedAtMostOnce'
  <2> DEFINE t == req[c].task
             cmds == Commands(req[c])
  <2>1. /\ history' = history \cup {NewRow(t, m) : m \in cmds}
        /\ todo' = [todo EXCEPT ![c] = {NewRow(t, m) : m \in cmds}]
        /\ published' = published
        /\ \A m \in cmds : Keyed(t, m) = {}
    BY <1>3, ApplyFacts
  <2>2. \A m \in cmds : NewRow(t, m) \notin history
    BY <2>1 DEF NewRow, Keyed
  <2> DEFINE new == {NewRow(t, m) : m \in cmds}
  <2>3. \A h \in new : h \notin history
    BY <2>2
  <2>4. /\ history' = history \cup new /\ published' = published
        /\ todo' = [todo EXCEPT ![c] = new]
    BY <2>1
  <2> HIDE DEF new
  <2> QED
    BY <1>0, <2>3, <2>4, NewRowsAnnounced
<1>4. ASSUME NEW c \in Clients, Quiet(c)
      PROVE  AnnouncedIsCommitted' /\ AnnouncedAtMostOnce'
  <2>1. history' = history /\ QuietEffect(c)
    BY <1>4, QuietFacts, QuietIsSmall
  <2>2. \A d \in Clients \ {c} : todo'[d] = todo[d]
    BY <2>1 DEF QuietEffect
  <2>3. CASE published' = published /\ todo'[c] \subseteq todo[c]
    BY <1>0, <2>1, <2>2, <2>3
       DEF AnnouncedIsCommitted, AnnouncedAtMostOnce
  <2>4. ASSUME NEW h \in todo[c], published' = published \cup {h},
               todo'[c] = todo[c] \ {h}
        PROVE  AnnouncedIsCommitted' /\ AnnouncedAtMostOnce'
    BY <1>0, <2>1, <2>2, <2>4
       DEF AnnouncedIsCommitted, AnnouncedAtMostOnce
  <2> QED
    BY <2>1, <2>3, <2>4 DEF QuietEffect
<1>5. CASE UNCHANGED lifeVars
  BY <1>0, <1>5
     DEF lifeVars, AnnouncedIsCommitted, AnnouncedAtMostOnce
<1> QED
  BY <1>2, <1>3, <1>4, <1>5, StepKinds

\* The rows a key names once the step is taken.
KeyedAfter(t, m) ==
  {h \in history' : h.task = t /\ h.kind = m.kind /\ h.key = m.key}

AnsweredAfter(t, cmds) ==
  \A m \in cmds : \E h \in KeyedAfter(t, m) : SameCommand(h, m)

LEMMA RepliesAfter ==
  RepliesAreKeyed' <=>
    /\ \A c \in Clients : pc'[c] = "publish" =>
         AnsweredAfter(req'[c].task, Commands(req'[c]))
    /\ \A a \in replies' :
         /\ AnsweredAfter(a.req.task, Commands(a.req))
         /\ a.rows = UNION {KeyedAfter(a.req.task, m) : m \in Commands(a.req)}
  BY DEF RepliesAreKeyed, Answered, Keyed, AnsweredAfter, KeyedAfter

\* Rows under fresh keys do not disturb what an answered command's key names.
LEMMA AnswersStay ==
  ASSUME NEW new, history' = history \cup new,
         \A h \in new : Keyed(h.task, h) = {},
         NEW t, NEW cmds, Answered(t, cmds)
  PROVE  /\ AnsweredAfter(t, cmds)
         /\ \A m \in cmds : KeyedAfter(t, m) = Keyed(t, m)
         /\ UNION {KeyedAfter(t, m) : m \in cmds} = UNION {Keyed(t, m) : m \in cmds}
<1>1. ASSUME NEW m \in cmds PROVE KeyedAfter(t, m) = Keyed(t, m)
  <2>1. Keyed(t, m) # {}
    BY DEF Answered
  <2>2. \A h \in new : ~ (h.task = t /\ h.kind = m.kind /\ h.key = m.key)
    BY <2>1 DEF Keyed
  <2> QED
    BY <2>2 DEF Keyed, KeyedAfter
<1>2. AnsweredAfter(t, cmds)
  BY <1>1 DEF Answered, AnsweredAfter
<1>3. UNION {KeyedAfter(t, m) : m \in cmds} = UNION {Keyed(t, m) : m \in cmds}
  BY <1>1
<1> QED
  BY <1>1, <1>2, <1>3

LEMMA RepliesPart ==
  ASSUME LifeInv, Next
  PROVE  RepliesAreKeyed'
<1>0. /\ pc \in [Clients -> Stages] /\ req \in [Clients -> Request \cup {None}]
      /\ \A c \in Clients : pc[c] = "publish" =>
           Answered(req[c].task, Commands(req[c]))
      /\ \A a \in replies :
           /\ Answered(a.req.task, Commands(a.req))
           /\ a.rows = UNION {Keyed(a.req.task, m) : m \in Commands(a.req)}
  BY DEF LifeInv, LifeTypeOK, RepliesAreKeyed
\* New rows under fresh keys leave every earlier answer as it was.
<1>1. ASSUME NEW new, history' = history \cup new,
             \A h \in new : Keyed(h.task, h) = {}
      PROVE  /\ \A c \in Clients : pc[c] = "publish" =>
                  AnsweredAfter(req[c].task, Commands(req[c]))
             /\ \A a \in replies :
                  /\ AnsweredAfter(a.req.task, Commands(a.req))
                  /\ a.rows = UNION {KeyedAfter(a.req.task, m) :
                                       m \in Commands(a.req)}
  <2>1. \A t, cmds : Answered(t, cmds) =>
          /\ AnsweredAfter(t, cmds)
          /\ UNION {KeyedAfter(t, m) : m \in cmds}
               = UNION {Keyed(t, m) : m \in cmds}
    <3> SUFFICES ASSUME NEW t, NEW cmds, Answered(t, cmds)
                 PROVE  /\ AnsweredAfter(t, cmds)
                        /\ UNION {KeyedAfter(t, m) : m \in cmds}
                             = UNION {Keyed(t, m) : m \in cmds}
      OBVIOUS
    <3> QED
      BY <1>1, AnswersStay
  <2> QED
    BY <1>0, <2>1
<1>2. ASSUME NEW c \in Clients, NEW t \in Tasks, NEW u \in Users,
             CreateCampaign(c, t, u)
      PROVE  RepliesAreKeyed'
  <2> DEFINE r == CreateRequest(t, u)
             new == {InitialRow(r, k) : k \in Kinds}
  <2>1. /\ history' = history \cup new
        /\ req' = [req EXCEPT ![c] = r] /\ pc' = [pc EXCEPT ![c] = "publish"]
        /\ replies' = replies /\ Commands(r) = {}
        /\ \A h \in history : h.task # t
    BY <1>2, CreateFacts DEF CreateTaskRow, LifeInv, AbsentIsEmpty
  <2>2. \A h \in new : h.task = t
    BY DEF InitialRow, CreateRequest, NewRequest
  <2>3. AnsweredAfter(r.task, Commands(r))
    BY <2>1 DEF AnsweredAfter
  <2> HIDE DEF r, new
  <2>4. \A h \in new : Keyed(h.task, h) = {}
    BY <2>1, <2>2 DEF Keyed
  <2>5. /\ \A d \in Clients : pc[d] = "publish" =>
             AnsweredAfter(req[d].task, Commands(req[d]))
        /\ \A a \in replies :
             /\ AnsweredAfter(a.req.task, Commands(a.req))
             /\ a.rows = UNION {KeyedAfter(a.req.task, m) : m \in Commands(a.req)}
    BY <1>1, <2>1, <2>4
  <2>6. /\ req'[c] = r
        /\ \A d \in Clients \ {c} : pc'[d] = pc[d] /\ req'[d] = req[d]
    BY <1>0, <2>1
  <2> QED
    BY <2>1, <2>3, <2>5, <2>6, RepliesAfter
<1>3. ASSUME NEW c \in Clients, Apply(c) PROVE RepliesAreKeyed'
  <2> DEFINE t == req[c].task
             cmds == Commands(req[c])
             new == {NewRow(t, m) : m \in cmds}
  <2>1. /\ history' = history \cup new /\ req' = req
        /\ pc' = [pc EXCEPT ![c] = "publish"] /\ replies' = replies
        /\ \A m \in cmds : Keyed(t, m) = {}
    BY <1>3, ApplyFacts
  <2>2. \A m \in cmds : /\ NewRow(t, m) \in KeyedAfter(t, m)
                        /\ SameCommand(NewRow(t, m), m)
                        /\ NewRow(t, m).task = t
                        /\ Keyed(t, NewRow(t, m)) = Keyed(t, m)
    BY <2>1 DEF NewRow, Keyed, KeyedAfter, SameCommand
  <2>3. AnsweredAfter(t, cmds)
    BY <2>2 DEF AnsweredAfter
  <2>4. \A h \in new : Keyed(h.task, h) = {}
    BY <2>1, <2>2
  <2>5. /\ \A d \in Clients : pc[d] = "publish" =>
             AnsweredAfter(req[d].task, Commands(req[d]))
        /\ \A a \in replies :
             /\ AnsweredAfter(a.req.task, Commands(a.req))
             /\ a.rows = UNION {KeyedAfter(a.req.task, m) : m \in Commands(a.req)}
    BY <1>1, <2>1, <2>4
  <2>6. \A d \in Clients : pc'[d] = "publish" =>
          AnsweredAfter(req'[d].task, Commands(req'[d]))
    BY <1>0, <2>1, <2>3, <2>5
  <2> QED
    BY <2>1, <2>5, <2>6, RepliesAfter
<1>4. ASSUME NEW c \in Clients, Quiet(c) PROVE RepliesAreKeyed'
  <2>1. history' = history /\ QuietEffect(c)
    BY <1>4, QuietFacts, QuietIsSmall
  <2>2. \A t, m : KeyedAfter(t, m) = Keyed(t, m)
    BY <2>1 DEF Keyed, KeyedAfter
  <2>3. \A t, cmds : AnsweredAfter(t, cmds) <=> Answered(t, cmds)
    BY <2>2 DEF Answered, AnsweredAfter
  <2>4. \A d \in Clients : pc'[d] = "publish" =>
          AnsweredAfter(req'[d].task, Commands(req'[d]))
    BY <1>0, <2>1, <2>3 DEF QuietEffect
  <2>5. \A a \in replies :
          /\ AnsweredAfter(a.req.task, Commands(a.req))
          /\ a.rows = UNION {KeyedAfter(a.req.task, m) : m \in Commands(a.req)}
    BY <1>0, <2>2, <2>3
  <2>6. ASSUME Answered(req[c].task, Commands(req[c])),
               NEW a, a = [req |-> req[c],
                           rows |-> UNION {Keyed(req[c].task, m) :
                                             m \in Commands(req[c])}]
        PROVE  /\ AnsweredAfter(a.req.task, Commands(a.req))
               /\ a.rows = UNION {KeyedAfter(a.req.task, m) :
                                    m \in Commands(a.req)}
    BY <2>2, <2>3, <2>6
  <2>7. \A a \in replies' :
          /\ AnsweredAfter(a.req.task, Commands(a.req))
          /\ a.rows = UNION {KeyedAfter(a.req.task, m) : m \in Commands(a.req)}
    BY <2>1, <2>5, <2>6 DEF QuietEffect
  <2> QED
    BY <2>4, <2>7, RepliesAfter
<1>5. CASE UNCHANGED lifeVars
  <2>1. \A t, m : KeyedAfter(t, m) = Keyed(t, m)
    BY <1>5 DEF lifeVars, Keyed, KeyedAfter
  <2>2. \A t, cmds : AnsweredAfter(t, cmds) <=> Answered(t, cmds)
    BY <2>1 DEF Answered, AnsweredAfter
  <2>3. pc' = pc /\ req' = req /\ replies' = replies
    BY <1>5 DEF lifeVars
  <2> QED
    BY <1>0, <2>1, <2>2, <2>3, RepliesAfter
<1> QED
  BY <1>2, <1>3, <1>4, <1>5, StepKinds

-----------------------------------------------------------------------------
(* The theorems.                                                           *)

LEMMA LifeInvInit == Init => LifeInv
<1> SUFFICES ASSUME Init PROVE LifeInv
  OBVIOUS
<1>1. RelInv
  BY RelInvInit DEF Init
<1>2. LifeTypeOK /\ RequestsAreKnown /\ AbsentIsEmpty
  BY DEF Init, LifeTypeOK, RequestsAreKnown, AbsentIsEmpty, AnyState, Stages
<1>3. /\ HistoryMatchesState /\ OneEffectPerKey /\ AnnouncedIsCommitted
      /\ AnnouncedAtMostOnce /\ RepliesAreKeyed
  BY DEF Init, HistoryMatchesState, OneEffectPerKey, AnnouncedIsCommitted,
         AnnouncedAtMostOnce, RepliesAreKeyed
<1>4. CompletionClosesDonations
  BY DEF Init, CompletionClosesDonations, Kinds
<1> QED
  BY <1>1, <1>2, <1>3, <1>4 DEF LifeInv

\* Nothing changes, so the invariant stays.
LEMMA LifeStutter ==
  ASSUME LifeInv, UNCHANGED vars
  PROVE  LifeInv'
<1>1. RelInv'
  BY RelStutterInv DEF LifeInv, vars
<1>2. UNCHANGED lifeVars /\ creator' = creator
  BY DEF vars, lifeVars
<1>3. LifeTypeOK' /\ RequestsAreKnown' /\ AbsentIsEmpty'
  BY <1>2 DEF LifeInv, lifeVars, LifeTypeOK, RequestsAreKnown, AbsentIsEmpty
<1>4. HistoryMatchesState' /\ OneEffectPerKey' /\ CompletionClosesDonations'
  BY <1>2 DEF LifeInv, lifeVars, HistoryMatchesState, OneEffectPerKey,
              CompletionClosesDonations
<1>5. AnnouncedIsCommitted' /\ AnnouncedAtMostOnce'
  BY <1>2 DEF LifeInv, lifeVars, AnnouncedIsCommitted, AnnouncedAtMostOnce
<1>6. RepliesAreKeyed'
  BY <1>2 DEF LifeInv, lifeVars, RepliesAreKeyed, Answered, Keyed
<1> QED
  BY <1>1, <1>3, <1>4, <1>5, <1>6 DEF LifeInv

\* The inductive invariant holds in every reachable state, for every set of
\* tasks, users, clients and idempotency keys.
THEOREM LifeInvariant == Spec => []LifeInv
<1>1. Init => LifeInv
  BY LifeInvInit
<1>2. LifeInv /\ [Next]_vars => LifeInv'
  <2>1. LifeInv /\ Next => LifeInv'
    BY RelPart, TypePart, AbsentPart, HistoryPart, KeyPart, CompletionPart,
       AnnouncedPart, RepliesPart DEF LifeInv
  <2> QED
    BY <2>1, LifeStutter
<1> QED
  BY <1>1, <1>2, PTL DEF Spec

\* The columns, the history, the requests under way, the announcements and the
\* replies always have their types, whatever the handlers interleave.
THEOREM TypeCorrect == Spec => []TypeOK
<1>1. LifeInv => TypeOK
  BY DEF LifeInv, RelInv, TypeOK
<1> QED
  BY <1>1, LifeInvariant, PTL

\* The audit trail of every task is one unbroken chain of versions that ends
\* in the current state: task_state_transitions never disagrees with tasks.
THEOREM HistoryMatchesStateAlways == Spec => []HistoryMatchesState
<1>1. LifeInv => HistoryMatchesState
  BY DEF LifeInv
<1> QED
  BY <1>1, LifeInvariant, PTL

\* However often and from wherever an idempotency key is sent, a task and kind
\* has at most one transition under it.
THEOREM OneEffectPerKeyAlways == Spec => []OneEffectPerKey
<1>1. LifeInv => OneEffectPerKey
  BY DEF LifeInv
<1> QED
  BY <1>1, LifeInvariant, PTL

\* VerifyTask closes donations in the transaction that completes the work:
\* completed work with ACTIVE money is never reachable.
THEOREM CompletionClosesDonationsAlways == Spec => []CompletionClosesDonations
<1>1. LifeInv => CompletionClosesDonations
  BY DEF LifeInv
<1> QED
  BY <1>1, LifeInvariant, PTL

\* publishTransitions, replays included, never has one row in hand twice, nor
\* a row that was published before.
THEOREM AnnouncedAtMostOnceAlways == Spec => []AnnouncedAtMostOnce
<1>1. LifeInv => AnnouncedAtMostOnce
  BY DEF LifeInv
<1> QED
  BY <1>1, LifeInvariant, PTL

\* The rows a successful caller was given stay in the history, one for each
\* command it asked for, with its key and its reason, and a retry of the same
\* request gets the same rows.
THEOREM RepliesAreStableAlways == Spec => []RepliesAreStable
<1>1. LifeInv => RepliesAreStable
  <2> SUFFICES ASSUME RepliesAreKeyed PROVE RepliesAreStable
    BY DEF LifeInv
  <2>1. ASSUME NEW a \in replies
        PROVE  /\ a.rows \subseteq history
               /\ \A m \in Commands(a.req) :
                    \E h \in a.rows : /\ h.kind = m.kind /\ h.actor = m.actor
                                      /\ h.from = m.from /\ h.to = m.to
                                      /\ h.reason = m.reason /\ h.key = m.key
    BY <2>1 DEF RepliesAreKeyed, Answered, Keyed, SameCommand
  <2>2. \A a, b \in replies : a.req = b.req => a.rows = b.rows
    BY DEF RepliesAreKeyed
  <2> QED
    BY <2>1, <2>2 DEF RepliesAreStable
<1> QED
  BY <1>1, LifeInvariant, PTL

\* What a step that enters a work state must have been.
LEMMA WorkMoves ==
  ASSUME LifeInv, Next, NEW t \in Tasks, NEW to,
         state[t]["work"] # to, state'[t]["work"] = to,
         to \notin {"absent", "open"}
  PROVE  \E c \in Clients : \E m \in Commands(req[c]) :
           /\ Apply(c) /\ req[c].task = t /\ m.kind = "work" /\ m.to = to
           /\ UpdateApplies(t, m)
<1>0. "work" \in Kinds /\ state \in [Tasks -> [Kinds -> AnyState]]
  BY DEF LifeInv, LifeTypeOK, Kinds
<1>1. ASSUME NEW c \in Clients, NEW q \in Tasks, NEW u \in Users,
             CreateCampaign(c, q, u)
      PROVE  FALSE
  <2>1. /\ state'[q]["work"] = "open"
        /\ \A p \in Tasks \ {q} : state'[p] = state[p]
    BY <1>0, <1>1, CreateFacts DEF InitialRow
  <2> QED
    BY <2>1
<1>2. ASSUME NEW c \in Clients, Apply(c)
      PROVE  \E m \in Commands(req[c]) :
               /\ req[c].task = t /\ m.kind = "work" /\ m.to = to
               /\ UpdateApplies(t, m)
  <2> DEFINE q == req[c].task
             cmds == Commands(req[c])
  <2>1. /\ q \in Tasks
        /\ \A m \in cmds : UpdateApplies(q, m) /\ state'[q][m.kind] = m.to
        /\ \A k \in Kinds : (\A m \in cmds : m.kind # k) =>
                              state'[q][k] = state[q][k]
        /\ \A p \in Tasks \ {q} : state'[p] = state[p]
    BY <1>2, ApplyFacts
  <2> HIDE DEF q, cmds
  <2>2. q = t
    BY <2>1
  <2>3. PICK m \in cmds : m.kind = "work"
    BY <1>0, <2>1, <2>2
  <2> QED
    BY <2>1, <2>2, <2>3 DEF q, cmds
<1>3. ASSUME state' = state PROVE FALSE
  BY <1>3
<1> QED
  BY <1>1, <1>2, <1>3, StepKinds, QuietFacts DEF lifeVars

\* Work goes up for verification only when, in that very step, somebody is
\* approved and every approved volunteer has submitted: workTransitionUpdate's
\* conditions hold whatever the service had read before.
THEOREM SubmittedMeansReadyAlways == Spec => SubmittedMeansReady
<1> DEFINE Step == \A t \in Tasks :
             state[t]["work"] # "pending_verification"
               /\ state'[t]["work"] = "pending_verification"
             => HasApprovedVolunteer(t) /\ EveryApprovedSubmitted(t)
<1>1. LifeInv /\ [Next]_vars => [Step]_vars
  <2> SUFFICES ASSUME LifeInv, Next, NEW t \in Tasks,
                      state[t]["work"] # "pending_verification",
                      state'[t]["work"] = "pending_verification"
               PROVE  HasApprovedVolunteer(t) /\ EveryApprovedSubmitted(t)
    OBVIOUS
  <2>1. PICK c \in Clients : \E m \in Commands(req[c]) :
          /\ m.kind = "work" /\ m.to = "pending_verification"
          /\ UpdateApplies(t, m)
    BY WorkMoves
  <2>2. PICK m \in Commands(req[c]) :
          /\ m.kind = "work" /\ m.to = "pending_verification"
          /\ UpdateApplies(t, m)
    BY <2>1
  <2> QED
    BY <2>2 DEF UpdateApplies, ReadyForWork
<1> QED
  BY <1>1, LifeInvariant, PTL DEF Spec, SubmittedMeansReady

\* Work is completed only for a trustee of the task who neither created it nor
\* applied to it, judged inside the transaction that completes it.
THEOREM VerifierIsIndependentAlways == Spec => VerifierIsIndependent
<1> DEFINE Step == \A h \in history' \ history :
             h.to = "completed" =>
               /\ IsTaskTrustee(h.task, h.actor)
               /\ h.actor # creator[h.task]
               /\ ~ IsTaskVolunteer(h.task, h.actor)
<1>1. LifeInv /\ [Next]_vars => [Step]_vars
  <2> SUFFICES ASSUME LifeInv, Next, NEW h \in history' \ history,
                      h.to = "completed"
               PROVE  /\ IsTaskTrustee(h.task, h.actor)
                      /\ h.actor # creator[h.task]
                      /\ ~ IsTaskVolunteer(h.task, h.actor)
    BY DEF vars, lifeVars
  <2>1. ASSUME NEW c \in Clients, NEW t \in Tasks, NEW u \in Users,
               CreateCampaign(c, t, u)
        PROVE  FALSE
    <3> DEFINE r == CreateRequest(t, u)
    <3>1. PICK k \in Kinds : h = InitialRow(r, k)
      BY <2>1, CreateFacts
    <3> QED
      BY <3>1 DEF InitialRow
  <2>2. ASSUME NEW c \in Clients, Apply(c)
        PROVE  /\ IsTaskTrustee(h.task, h.actor)
               /\ h.actor # creator[h.task]
               /\ ~ IsTaskVolunteer(h.task, h.actor)
    <3> DEFINE t == req[c].task
    <3>1. PICK m \in Commands(req[c]) :
            /\ h = NewRow(t, m) /\ LegalTransition(m.kind, m.from, m.to)
            /\ UpdateApplies(t, m) /\ m.kind \in Kinds
      BY <2>2, ApplyFacts
    <3>2. h.task = t /\ h.actor = m.actor /\ m.to = "completed"
      BY <3>1 DEF NewRow
    <3>3. m.kind = "work"
      BY <3>1, <3>2 DEF LegalTransition, LegalFinancial, Kinds
    <3> QED
      BY <3>1, <3>2, <3>3 DEF UpdateApplies, ReadyForWork
  <2> QED
    BY <2>1, <2>2, StepKinds, QuietFacts DEF lifeVars
<1> QED
  BY <1>1, LifeInvariant, PTL DEF Spec, VerifierIsIndependent

-----------------------------------------------------------------------------
(* The module implements CampaignFlow.                                     *)

WorkOf == [t \in Tasks |-> state[t]["work"]]
MoneyOf == [t \in Tasks |-> state[t]["financial"]]

\* A step that changes one task's columns changes the abstract columns there.
LEMMA ColumnsMove ==
  ASSUME NEW t \in Tasks, NEW work, NEW money,
         state \in [Tasks -> [Kinds -> AnyState]],
         state'[t]["work"] = work, state'[t]["financial"] = money,
         \A q \in Tasks \ {t} : state'[q] = state[q]
  PROVE  /\ WorkOf' = [WorkOf EXCEPT ![t] = work]
         /\ MoneyOf' = [MoneyOf EXCEPT ![t] = money]
         /\ money = state[t]["financial"] => MoneyOf' = MoneyOf
         /\ work = state[t]["work"] => WorkOf' = WorkOf
  BY DEF WorkOf, MoneyOf

LEMMA CreateImplements ==
  ASSUME LifeInv, NEW c \in Clients, NEW t \in Tasks, NEW u \in Users,
         CreateCampaign(c, t, u)
  PROVE  Flow!FlowNext
<1>0. state \in [Tasks -> [Kinds -> AnyState]] /\ "work" \in Kinds
      /\ "financial" \in Kinds
  BY DEF LifeInv, LifeTypeOK, Kinds
<1>1. /\ state'[t]["work"] = "open" /\ state'[t]["financial"] = "ACTIVE"
      /\ \A q \in Tasks \ {t} : state'[q] = state[q]
      /\ creator[t] = None
  BY <1>0, CreateFacts DEF InitialRow, CreateTaskRow
<1>2. state[t]["work"] = "absent"
  BY <1>0, <1>1 DEF LifeInv, AbsentIsEmpty
<1>3. /\ WorkOf' = [WorkOf EXCEPT ![t] = "open"]
      /\ MoneyOf' = [MoneyOf EXCEPT ![t] = "ACTIVE"]
  BY <1>0, <1>1, ColumnsMove
<1>4. Flow!Create(t)
  BY <1>2, <1>3 DEF Flow!Create, WorkOf, MoneyOf
<1> QED
  BY <1>4 DEF Flow!FlowNext

\* The committed commands of every kind of request are one abstract event.
LEMMA ApplyImplements ==
  ASSUME LifeInv, NEW c \in Clients, Apply(c)
  PROVE  Flow!FlowNext \/ UNCHANGED <<WorkOf, MoneyOf>>
<1> DEFINE r == req[c]
           cmds == Commands(r)
<1>0. state \in [Tasks -> [Kinds -> AnyState]] /\ "work" \in Kinds
      /\ "financial" \in Kinds
  BY DEF LifeInv, LifeTypeOK, Kinds
<1>1. PICK t \in Tasks : t = r.task
  BY ApplyFacts
<1>2. /\ r \in Request
      /\ \A m \in cmds : /\ LegalTransition(m.kind, m.from, m.to)
                         /\ state[t][m.kind] = m.from
                         /\ state'[t][m.kind] = m.to
      /\ \A k \in Kinds : (\A m \in cmds : m.kind # k) =>
                            state'[t][k] = state[t][k]
      /\ \A q \in Tasks \ {t} : state'[q] = state[q]
  BY <1>1, ApplyFacts DEF UpdateApplies
<1>3. /\ WorkOf' = [WorkOf EXCEPT ![t] = state'[t]["work"]]
      /\ MoneyOf' = [MoneyOf EXCEPT ![t] = state'[t]["financial"]]
      /\ state'[t]["financial"] = state[t]["financial"] => MoneyOf' = MoneyOf
      /\ state'[t]["work"] = state[t]["work"] => WorkOf' = WorkOf
  BY <1>0, <1>2, ColumnsMove
<1>4. WorkOf[t] = state[t]["work"] /\ MoneyOf[t] = state[t]["financial"]
  BY <1>2 DEF WorkOf, MoneyOf
\* One command on the work column is MoveWork, one on the money is MoveMoney.
<1>5. ASSUME NEW m, cmds = {m}, m.kind = "work"
      PROVE  Flow!MoveWork(t, m.from, m.to)
  <2>1. /\ state[t]["work"] = m.from /\ state'[t]["work"] = m.to
        /\ state'[t]["financial"] = state[t]["financial"]
    BY <1>0, <1>2, <1>5
  <2> QED
    BY <1>3, <1>4, <2>1 DEF Flow!MoveWork, WorkOf, MoneyOf
<1>6. ASSUME NEW m, cmds = {m}, m.kind = "financial"
      PROVE  /\ MoneyOf[t] = m.from /\ WorkOf' = WorkOf
             /\ MoneyOf' = [MoneyOf EXCEPT ![t] = m.to]
  <2>1. /\ state[t]["financial"] = m.from /\ state'[t]["financial"] = m.to
        /\ state'[t]["work"] = state[t]["work"]
    BY <1>0, <1>2, <1>6
  <2> QED
    BY <1>3, <1>4, <2>1
<1>7. CASE r.op = "create"
  <2>1. cmds = {}
    BY <1>7 DEF Commands
  <2>2. WorkOf' = WorkOf /\ MoneyOf' = MoneyOf
    BY <1>0, <1>2, <1>3, <2>1
  <2> QED
    BY <2>2
<1>8. CASE r.op = "start"
  <2> DEFINE m == StartCommand(r)
  <2>1. cmds = {m} /\ m.kind = "work" /\ m.from = "open" /\ m.to = "in_progress"
    BY <1>8 DEF Commands, StartCommand, WorkCommand
  <2>2. Flow!MoveWork(t, "open", "in_progress")
    BY <1>5, <2>1
  <2> QED
    BY <1>2, <2>2 DEF Flow!FlowNext
<1>9. CASE r.op = "submit"
  <2> DEFINE m == SubmitCommand(r)
  <2>1. /\ cmds = {m} /\ m.kind = "work" /\ m.from = "in_progress"
        /\ m.to = "pending_verification"
    BY <1>9 DEF Commands, SubmitCommand, WorkCommand
  <2>2. Flow!MoveWork(t, "in_progress", "pending_verification")
    BY <1>5, <2>1
  <2> QED
    BY <1>2, <2>2 DEF Flow!FlowNext
<1>10. CASE r.op = "advance"
  <2> DEFINE m == AdvanceCommand(r)
  <2>1. cmds = {m} /\ m.kind = "financial"
    BY <1>10 DEF Commands, AdvanceCommand, FinancialCommand
  <2> HIDE DEF m, cmds
  <2>2. /\ MoneyOf[t] = m.from /\ WorkOf' = WorkOf
        /\ MoneyOf' = [MoneyOf EXCEPT ![t] = m.to]
    BY <1>6, <2>1
  <2>3. <<m.from, m.to>> \in LegalFinancial
    BY <1>2, <2>1 DEF LegalTransition
  <2>4. \/ Flow!MoveMoney(t, "ACTIVE", "LIQUIDATING")
        \/ Flow!MoveMoney(t, "LIQUIDATING", "READY_FOR_PAYOUT")
        \/ Flow!MoveMoney(t, "READY_FOR_PAYOUT", "PAYOUT_PROCESSING")
        \/ Flow!MoveMoney(t, "PAYOUT_PROCESSING", "ARCHIVED")
    BY <2>2, <2>3 DEF LegalFinancial, Flow!MoveMoney, WorkOf, MoneyOf
  <2> QED
    BY <1>2, <2>4 DEF Flow!FlowNext
<1>11. CASE r.op = "verify"
  <2> DEFINE m == VerifyCommand(r)
             n == CloseCommand(r)
  <2>1. /\ m \in cmds /\ m.kind = "work" /\ m.from = "pending_verification"
        /\ m.to = "completed"
        /\ n \in cmds /\ n.kind = "financial" /\ n.from = "ACTIVE"
        /\ n.to = "LIQUIDATING"
    BY <1>11 DEF Commands, VerifyCommand, CloseCommand, WorkCommand,
                 FinancialCommand
  <2>2. /\ WorkOf[t] = "pending_verification" /\ state'[t]["work"] = "completed"
        /\ MoneyOf[t] = "ACTIVE" /\ state'[t]["financial"] = "LIQUIDATING"
    BY <1>2, <1>4, <2>1
  <2>3. Flow!Verify(t)
    BY <1>3, <2>2 DEF Flow!Verify, WorkOf, MoneyOf
  <2> QED
    BY <2>3 DEF Flow!FlowNext
<1> QED
  BY <1>2, <1>7, <1>8, <1>9, <1>10, <1>11 DEF Request, Ops

\* The two state columns only move as CampaignFlow allows, for every number of
\* concurrent requests, whatever they retry, race or lose.
THEOREM ImplementsCampaignFlow == Spec => ImplementsFlow
<1>1. Init => Flow!FlowInit
  BY DEF Init, Flow!FlowInit, Kinds
<1>2. LifeInv /\ [Next]_vars => [Flow!FlowNext]_(Flow!flowVars)
  <2> SUFFICES ASSUME LifeInv, [Next]_vars
               PROVE  Flow!FlowNext \/ UNCHANGED <<WorkOf, MoneyOf>>
    BY DEF Flow!flowVars, WorkOf, MoneyOf
  <2>1. CASE state' = state
    BY <2>1 DEF WorkOf, MoneyOf
  <2> QED
    BY <2>1, CreateImplements, ApplyImplements, StepKinds, QuietFacts
       DEF vars, lifeVars
<1> QED
  BY <1>1, <1>2, LifeInvariant, PTL DEF Spec, ImplementsFlow, Flow!FlowSpec
=============================================================================
