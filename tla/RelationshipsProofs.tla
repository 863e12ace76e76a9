------------------------ MODULE RelationshipsProofs ------------------------
(***************************************************************************)
(* Proofs about the relationship tables, for every set of tasks, users,    *)
(* slots and handlers: type correctness first, then what the tables'       *)
(* constraints keep although handlers check before they insert.            *)
(***************************************************************************)
EXTENDS Relationships, TLAPS

Op == [stage: RelStages, task: Tasks \cup {None}, user: Users \cup {None},
       slot: Slots \cup {None}]

LEMMA IdleOpType == IdleOp \in Op
  BY DEF IdleOp, Op, RelStages

\* A handler that changes its stage, or starts or ends, keeps an Op.
LEMMA OpMoves ==
  ASSUME RelTypeOK, NEW p \in Procs
  PROVE  /\ \A stage \in RelStages : Enter(p, stage) =>
              /\ relOp' \in [Procs -> Op]
              /\ relOp'[p] = [relOp[p] EXCEPT !.stage = stage]
              /\ \A q \in Procs \ {p} : relOp'[q] = relOp[q]
         /\ Finish(p) =>
              /\ relOp' \in [Procs -> Op]
              /\ relOp'[p] = IdleOp
              /\ \A q \in Procs \ {p} : relOp'[q] = relOp[q]
         /\ \A stage \in RelStages, t \in Tasks, u \in Users,
               s \in Slots \cup {None} : Begin(p, stage, t, u, s) =>
              /\ relOp' \in [Procs -> Op]
              /\ relOp'[p] = [stage |-> stage, task |-> t, user |-> u,
                              slot |-> s]
              /\ \A q \in Procs \ {p} : relOp'[q] = relOp[q]
<1>1. relOp \in [Procs -> Op] /\ relOp[p] \in Op
  BY DEF RelTypeOK, Op
<1>2. ASSUME NEW stage \in RelStages, Enter(p, stage)
      PROVE  /\ relOp' \in [Procs -> Op]
             /\ relOp'[p] = [relOp[p] EXCEPT !.stage = stage]
             /\ \A q \in Procs \ {p} : relOp'[q] = relOp[q]
  <2>1. relOp' = [relOp EXCEPT ![p] = [relOp[p] EXCEPT !.stage = stage]]
    BY <1>1, <1>2 DEF Enter
  <2>2. [relOp[p] EXCEPT !.stage = stage] \in Op
    BY <1>1 DEF Op
  <2> QED
    BY <1>1, <2>1, <2>2
<1>3. ASSUME Finish(p)
      PROVE  /\ relOp' \in [Procs -> Op]
             /\ relOp'[p] = IdleOp
             /\ \A q \in Procs \ {p} : relOp'[q] = relOp[q]
  BY <1>1, <1>3, IdleOpType DEF Finish
<1>4. ASSUME NEW stage \in RelStages, NEW t \in Tasks, NEW u \in Users,
             NEW s \in Slots \cup {None}, Begin(p, stage, t, u, s)
      PROVE  /\ relOp' \in [Procs -> Op]
             /\ relOp'[p] = [stage |-> stage, task |-> t, user |-> u,
                             slot |-> s]
             /\ \A q \in Procs \ {p} : relOp'[q] = relOp[q]
  <2>1. [stage |-> stage, task |-> t, user |-> u, slot |-> s] \in Op
    BY DEF Op
  <2> QED
    BY <1>1, <1>4, <2>1 DEF Begin
<1> QED
  BY <1>2, <1>3, <1>4

-----------------------------------------------------------------------------
(* The inductive invariant.                                                *)

\* A handler under way knows its task and its user, one that registers keys
\* its slot, and one that files evidence has an application.
OpsAreBound ==
  \A p \in Procs :
    /\ ~ At(p, "idle") => relOp[p].task \in Tasks /\ relOp[p].user \in Users
    /\ At(p, "insert_key") \/ At(p, "commit_key") => relOp[p].slot \in Slots
    /\ At(p, "insert_sub") => IsTaskVolunteer(relOp[p].task, relOp[p].user)

RelInv ==
  RelTypeOK /\ OpsAreBound /\ OneSlotPerAccount /\ EventsHaveRows /\ RowsHaveParents

\* What one step can do to the three tables.
RowsOnlyAppear ==
  /\ \A t \in Tasks, u \in Users : apps[t][u] # None => apps'[t][u] # None
  /\ \A t \in Tasks, u \in Users : apps'[t][u] # None =>
                                      apps[t][u] # None \/ creator[t] # None
  /\ subs \subseteq subs'
  /\ \A t \in Tasks, u \in Users : <<t, u>> \in subs' =>
                                      <<t, u>> \in subs \/ apps[t][u] # None
  /\ \A t \in Tasks, s \in Slots :
       \/ trustees'[t][s] = trustees[t][s]
       \/ trustees[t][s] = None /\ creator[t] # None
  /\ \/ trustees' = trustees
     \/ \E t \in Tasks, u \in Users, s \in Slots :
          /\ CanSaveKeys(t, u, s)
          /\ trustees' = [trustees EXCEPT ![t][s] = u]

\* Each step of a handler or of a review keeps the types and only adds rows.
LEMMA RelStepRows ==
  ASSUME RelTypeOK, OpsAreBound, RelStep
  PROVE  RelTypeOK' /\ RowsOnlyAppear /\ creator' = creator
<1> USE RelAssumption DEF RelTypeOK, Op, AppStatus, RelStages, RowsOnlyAppear, IsTaskVolunteer
<1>1. ASSUME NEW p \in Procs,
             \/ TriggerApplication(p) \/ TriggerKeys(p) \/ PublishRel(p)
             \/ AbandonOp(p)
             \/ \E t \in Tasks, u \in Users :
                  \/ CheckApplication(p, t, u) \/ CheckSubmission(p, t, u)
                  \/ \E s \in Slots : CheckSlot(p, t, u, s)
      PROVE  RelTypeOK' /\ RowsOnlyAppear /\ creator' = creator
  <2>1. UNCHANGED <<creator, apps, subs, trustees>>
    BY <1>1 DEF TriggerApplication, TriggerKeys, PublishRel, AbandonOp,
                CheckApplication, CheckSubmission, CheckSlot
  <2>2. relOp' \in [Procs -> Op]
    BY <1>1, OpMoves DEF TriggerApplication, TriggerKeys, PublishRel,
                AbandonOp, CheckApplication, CheckSubmission, CheckSlot
  <2> QED
    BY <2>1, <2>2
<1>2. ASSUME NEW p \in Procs, CommitApplication(p)
      PROVE  RelTypeOK' /\ RowsOnlyAppear /\ creator' = creator
  <2> DEFINE t == relOp[p].task
             u == relOp[p].user
  <2>1. t \in Tasks /\ u \in Users
    BY <1>2 DEF OpsAreBound, At, CommitApplication
  <2>2. relOp' \in [Procs -> Op]
    BY <1>2, OpMoves DEF CommitApplication
  <2>3. CASE apps' = [apps EXCEPT ![t][u] = "pending"] /\ creator[t] # None
    <3>1. /\ apps' \in [Tasks -> [Users -> AppStatus \cup {None}]]
          /\ apps'[t][u] = "pending"
          /\ \A r \in Tasks, v \in Users :
               r # t \/ v # u => apps'[r][v] = apps[r][v]
      BY <2>1, <2>3
    <3> QED
      BY <1>2, <2>1, <2>2, <2>3, <3>1 DEF CommitApplication
  <2>4. CASE apps' = apps
    BY <1>2, <2>2, <2>4 DEF CommitApplication
  <2> QED
    BY <1>2, <2>3, <2>4 DEF CommitApplication
<1>3. ASSUME NEW p \in Procs, CommitSubmission(p)
      PROVE  RelTypeOK' /\ RowsOnlyAppear /\ creator' = creator
  <2>1. relOp[p].task \in Tasks /\ relOp[p].user \in Users
        /\ apps[relOp[p].task][relOp[p].user] # None
    BY <1>3 DEF OpsAreBound, At, CommitSubmission
  <2>2. relOp' \in [Procs -> Op]
    BY <1>3, OpMoves DEF CommitSubmission
  <2> QED
    BY <1>3, <2>1, <2>2 DEF CommitSubmission
<1>4. ASSUME NEW p \in Procs, CommitKeys(p)
      PROVE  RelTypeOK' /\ RowsOnlyAppear /\ creator' = creator
  <2> DEFINE t == relOp[p].task
             u == relOp[p].user
             s == relOp[p].slot
  <2>1. t \in Tasks /\ u \in Users /\ s \in Slots
    BY <1>4 DEF OpsAreBound, At, CommitKeys
  <2>2. relOp' \in [Procs -> Op]
    BY <1>4, OpMoves DEF CommitKeys
  <2>3. CASE CanSaveKeys(t, u, s)
    <3>1. trustees' = [trustees EXCEPT ![t][s] = u]
      BY <1>4, <2>3 DEF CommitKeys
    <3>2. /\ trustees' \in [Tasks -> [Slots -> Users \cup {None}]]
          /\ \A r \in Tasks, q \in Slots :
               r # t \/ q # s => trustees'[r][q] = trustees[r][q]
      BY <2>1, <3>1
    <3>3. trustees[t][s] = None /\ creator[t] # None
      BY <2>3 DEF CanSaveKeys
    <3>4. \E r \in Tasks, v \in Users, q \in Slots :
            CanSaveKeys(r, v, q) /\ trustees' = [trustees EXCEPT ![r][q] = v]
      BY <2>1, <2>3, <3>1
    <3> QED
      BY <1>4, <2>2, <3>2, <3>3, <3>4 DEF CommitKeys
  <2>4. CASE ~ CanSaveKeys(t, u, s)
    BY <1>4, <2>2, <2>4 DEF CommitKeys
  <2> QED
    BY <2>3, <2>4
<1>5. ASSUME NEW t \in Tasks, NEW u \in Users, NEW status \in Reviews,
             UpdateStatus(t, u, status)
      PROVE  RelTypeOK' /\ RowsOnlyAppear /\ creator' = creator
  <2>1. apps' \in [Tasks -> [Users -> AppStatus \cup {None}]]
        /\ \A r \in Tasks, v \in Users :
             r # t \/ v # u => apps'[r][v] = apps[r][v]
        /\ apps[t][u] # None
    BY <1>5 DEF UpdateStatus
  <2> QED
    BY <1>5, <2>1 DEF UpdateStatus
<1> QED
  BY <1>1, <1>2, <1>3, <1>4, <1>5 DEF RelStep

\* The task row's insert keeps the types and the tables.
LEMMA CreateRows ==
  ASSUME RelTypeOK, NEW t \in Tasks, NEW u \in Users, CreateTaskRow(t, u)
  PROVE  /\ RelTypeOK' /\ relVars' = relVars
         /\ \A r \in Tasks : creator[r] # None => creator'[r] = creator[r]
  BY DEF RelTypeOK, CreateTaskRow, relVars

\* Rows appear and tasks stay, in every step: what the invariant's parts need.
RelChange ==
  /\ RowsOnlyAppear
  /\ \A t \in Tasks : creator[t] # None => creator'[t] # None

LEMMA ParentsStay ==
  ASSUME RelTypeOK, RowsHaveParents, RelChange, RelTypeOK'
  PROVE  RowsHaveParents'
<1> SUFFICES ASSUME NEW t \in Tasks, NEW u \in Users
             PROVE  /\ (IsTaskVolunteer(t, u) \/ IsTaskTrustee(t, u))'
                         => creator'[t] # None
                    /\ <<t, u>> \in subs' => IsTaskVolunteer(t, u)'
  BY DEF RowsHaveParents
<1>1. /\ apps[t][u] # None => creator[t] # None
      /\ \A s \in Slots : trustees[t][s] = u => creator[t] # None
      /\ <<t, u>> \in subs => apps[t][u] # None
  BY DEF RowsHaveParents, IsTaskVolunteer, IsTaskTrustee
<1>2. apps'[t][u] # None => creator'[t] # None
  BY <1>1 DEF RelChange, RowsOnlyAppear
<1>3. ASSUME NEW s \in Slots, trustees'[t][s] = u
      PROVE  creator'[t] # None
  BY <1>1, <1>3 DEF RelChange, RowsOnlyAppear
<1>4. <<t, u>> \in subs' => apps'[t][u] # None
  BY <1>1 DEF RelChange, RowsOnlyAppear
<1> QED
  BY <1>2, <1>3, <1>4 DEF IsTaskVolunteer, IsTaskTrustee

LEMMA SlotsStay ==
  ASSUME RelTypeOK, OneSlotPerAccount, RelChange
  PROVE  OneSlotPerAccount'
<1>1. CASE trustees' = trustees
  BY <1>1 DEF OneSlotPerAccount
<1>2. ASSUME NEW t \in Tasks, NEW u \in Users, NEW s \in Slots,
             CanSaveKeys(t, u, s),
             trustees' = [trustees EXCEPT ![t][s] = u]
      PROVE  OneSlotPerAccount'
  <2>1. /\ trustees'[t][s] = u
        /\ \A r \in Tasks, q \in Slots :
             r # t \/ q # s => trustees'[r][q] = trustees[r][q]
    BY <1>2 DEF RelTypeOK
  <2>2. \A q \in Slots : trustees[t][q] # u
    BY <1>2 DEF CanSaveKeys, IsTaskTrustee
  <2> QED
    BY <2>1, <2>2 DEF OneSlotPerAccount
<1> QED
  BY <1>1, <1>2 DEF RelChange, RowsOnlyAppear

\* Handlers that do not move are not disturbed by what the others insert.
LEMMA OthersStay ==
  ASSUME RelTypeOK, OpsAreBound, EventsHaveRows, RowsOnlyAppear,
         NEW p \in Procs, relOp'[p] = relOp[p]
  PROVE  /\ ~ At(p, "idle")' =>
               relOp'[p].task \in Tasks /\ relOp'[p].user \in Users
         /\ (At(p, "insert_key") \/ At(p, "commit_key"))' =>
               relOp'[p].slot \in Slots
         /\ At(p, "insert_sub")' =>
               IsTaskVolunteer(relOp[p].task, relOp[p].user)'
         /\ At(p, "publish_app")' =>
               IsTaskVolunteer(relOp[p].task, relOp[p].user)'
         /\ At(p, "publish_sub")' =>
               <<relOp'[p].task, relOp'[p].user>> \in subs'
<1>1. ~ At(p, "idle") => relOp[p].task \in Tasks /\ relOp[p].user \in Users
  BY DEF OpsAreBound
<1> QED
  BY <1>1 DEF OpsAreBound, EventsHaveRows, RowsOnlyAppear, At, IsTaskVolunteer

LEMMA OpsStay ==
  ASSUME RelTypeOK, OpsAreBound, EventsHaveRows, RelStep, RowsOnlyAppear
  PROVE  OpsAreBound' /\ EventsHaveRows'
<1> DEFINE Good(p) ==
      /\ ~ At(p, "idle") => relOp[p].task \in Tasks /\ relOp[p].user \in Users
      /\ At(p, "insert_key") \/ At(p, "commit_key") => relOp[p].slot \in Slots
      /\ At(p, "insert_sub") => IsTaskVolunteer(relOp[p].task, relOp[p].user)
      /\ At(p, "publish_app") => IsTaskVolunteer(relOp[p].task, relOp[p].user)
      /\ At(p, "publish_sub") => <<relOp[p].task, relOp[p].user>> \in subs
<1>1. SUFFICES \A p \in Procs : Good(p)'
  BY DEF OpsAreBound, EventsHaveRows
<1>2. ASSUME NEW p \in Procs, relOp'[p] = relOp[p] PROVE Good(p)'
  BY <1>2, OthersStay
<1>3. ASSUME NEW p \in Procs, relOp'[p] = IdleOp PROVE Good(p)'
  BY <1>3 DEF At, IdleOp
<1> HIDE DEF Good
<1>4. ASSUME NEW t \in Tasks, NEW u \in Users, NEW status \in Reviews,
             UpdateStatus(t, u, status)
      PROVE  \A p \in Procs : Good(p)'
  BY <1>2, <1>4 DEF UpdateStatus
<1>5. ASSUME NEW p \in Procs, \A q \in Procs \ {p} : relOp'[q] = relOp[q],
             Good(p)'
      PROVE  \A q \in Procs : Good(q)'
  BY <1>2, <1>5
<1>6. ASSUME NEW p \in Procs, Finish(p) PROVE \A q \in Procs : Good(q)'
  BY <1>3, <1>5, <1>6, OpMoves
<1>7. ASSUME NEW p \in Procs, NEW t \in Tasks, NEW u \in Users,
             \/ CheckApplication(p, t, u)
             \/ CheckSubmission(p, t, u)
             \/ \E s \in Slots : CheckSlot(p, t, u, s)
      PROVE  \A q \in Procs : Good(q)'
  <2>1. CASE CheckApplication(p, t, u)
    <3>1. /\ relOp'[p] = [stage |-> "insert_app", task |-> t, user |-> u,
                          slot |-> None]
          /\ \A q \in Procs \ {p} : relOp'[q] = relOp[q]
      <4>1. Begin(p, "insert_app", t, u, None)
        BY <2>1 DEF CheckApplication
      <4>2. "insert_app" \in RelStages /\ None \in Slots \cup {None}
        BY DEF RelStages
      <4> QED
        BY <4>1, <4>2, OpMoves
    <3>2. Good(p)'
      BY <3>1 DEF Good, At
    <3> QED
      BY <1>5, <3>1, <3>2
  <2>2. CASE CheckSubmission(p, t, u)
    <3>1. /\ relOp'[p] = [stage |-> "insert_sub", task |-> t, user |-> u,
                          slot |-> None]
          /\ \A q \in Procs \ {p} : relOp'[q] = relOp[q]
      <4>1. Begin(p, "insert_sub", t, u, None)
        BY <2>2 DEF CheckSubmission
      <4>2. "insert_sub" \in RelStages /\ None \in Slots \cup {None}
        BY DEF RelStages
      <4> QED
        BY <4>1, <4>2, OpMoves
    <3>2. apps'[t][u] # None
      BY <2>2, RelAssumption DEF CheckSubmission
    <3>3. Good(p)'
      BY <3>1, <3>2 DEF Good, At, IsTaskVolunteer
    <3> QED
      BY <1>5, <3>1, <3>3
  <2>3. ASSUME NEW s \in Slots, CheckSlot(p, t, u, s)
        PROVE  \A q \in Procs : Good(q)'
    <3>1. /\ relOp'[p] = [stage |-> "insert_key", task |-> t, user |-> u,
                          slot |-> s]
          /\ \A q \in Procs \ {p} : relOp'[q] = relOp[q]
      <4>1. Begin(p, "insert_key", t, u, s)
        BY <2>3 DEF CheckSlot
      <4>2. "insert_key" \in RelStages /\ s \in Slots \cup {None}
        BY DEF RelStages
      <4> QED
        BY <4>1, <4>2, OpMoves
    <3>2. Good(p)'
      BY <3>1 DEF Good, At
    <3> QED
      BY <1>5, <3>1, <3>2
  <2> QED
    BY <1>7, <2>1, <2>2, <2>3
<1>8. ASSUME NEW p \in Procs, NEW stage \in RelStages, Enter(p, stage),
             ~ At(p, "idle"), stage # "insert_key", stage # "insert_sub",
             stage = "commit_key" => At(p, "insert_key"),
             stage = "publish_app" =>
               apps'[relOp[p].task][relOp[p].user] # None,
             stage = "publish_sub" =>
               <<relOp[p].task, relOp[p].user>> \in subs'
      PROVE  \A q \in Procs : Good(q)'
  <2>1. /\ relOp'[p] = [relOp[p] EXCEPT !.stage = stage]
        /\ \A q \in Procs \ {p} : relOp'[q] = relOp[q]
        /\ relOp[p] \in Op
    BY <1>8, OpMoves DEF RelTypeOK, Op
  <2>2. /\ relOp'[p].stage = stage
        /\ relOp'[p].task = relOp[p].task
        /\ relOp'[p].user = relOp[p].user
        /\ relOp'[p].slot = relOp[p].slot
    BY <2>1 DEF Op
  <2>3. Good(p)'
    BY <1>8, <2>2 DEF Good, At, OpsAreBound, IsTaskVolunteer
  <2> QED
    BY <1>5, <2>1, <2>3
<1>9. ASSUME NEW p \in Procs,
             \/ TriggerApplication(p) \/ CommitApplication(p) \/ PublishRel(p)
             \/ CommitSubmission(p) \/ TriggerKeys(p) \/ CommitKeys(p)
             \/ AbandonOp(p)
      PROVE  \A q \in Procs : Good(q)'
  <2>1. CASE PublishRel(p) \/ CommitKeys(p) \/ AbandonOp(p)
    BY <1>6, <2>1 DEF PublishRel, CommitKeys, AbandonOp
  <2>2. CASE TriggerApplication(p)
    BY <1>6, <1>8, <2>2 DEF TriggerApplication, At, RelStages
  <2>3. CASE TriggerKeys(p)
    BY <1>6, <1>8, <2>3 DEF TriggerKeys, At, RelStages
  <2>4. CASE CommitSubmission(p)
    BY <1>8, <2>4 DEF CommitSubmission, At, RelStages
  <2>5. CASE CommitApplication(p)
    <3>1. relOp[p].task \in Tasks /\ relOp[p].user \in Users
      BY <2>5 DEF CommitApplication, OpsAreBound, At
    <3>2. CASE Finish(p)
      BY <1>6, <3>2
    <3>3. CASE /\ Enter(p, "publish_app")
               /\ apps' = [apps EXCEPT ![relOp[p].task][relOp[p].user] = "pending"]
      <4>1. apps'[relOp[p].task][relOp[p].user] # None
        BY <3>1, <3>3, RelAssumption DEF RelTypeOK
      <4> QED
        BY <1>8, <2>5, <3>3, <4>1 DEF CommitApplication, At, RelStages
    <3> QED
      BY <2>5, <3>2, <3>3 DEF CommitApplication
  <2> QED
    BY <1>9, <2>1, <2>2, <2>3, <2>4, <2>5
<1> QED
  BY <1>4, <1>7, <1>9 DEF RelStep

-----------------------------------------------------------------------------
(* The theorems.                                                           *)

LEMMA RelInvInit == RelInit => RelInv
<1> SUFFICES ASSUME RelInit PROVE RelInv
  OBVIOUS
<1>1. RelTypeOK /\ \A p \in Procs : relOp[p] = IdleOp
  BY IdleOpType DEF RelInit, RelTypeOK, Op
<1> QED
  BY <1>1, RelAssumption
     DEF RelInit, RelInv, OpsAreBound, OneSlotPerAccount, EventsHaveRows,
         RowsHaveParents, At, IdleOp, IsTaskVolunteer, IsTaskTrustee

LEMMA RelStepInv ==
  ASSUME RelInv, RelStep
  PROVE  RelInv' /\ RowsOnlyAppear /\ creator' = creator
<1>1. RelTypeOK' /\ RowsOnlyAppear /\ creator' = creator
  BY RelStepRows DEF RelInv
<1>2. OpsAreBound' /\ EventsHaveRows'
  BY <1>1, OpsStay DEF RelInv
<1>3. RelChange
  BY <1>1 DEF RelChange
<1> QED
  BY <1>1, <1>2, <1>3, ParentsStay, SlotsStay DEF RelInv

LEMMA CreateInv ==
  ASSUME RelInv, NEW t \in Tasks, NEW u \in Users, CreateTaskRow(t, u)
  PROVE  RelInv'
<1>1. RelTypeOK' /\ relVars' = relVars
      /\ \A r \in Tasks : creator[r] # None => creator'[r] = creator[r]
  BY CreateRows DEF RelInv
<1>2. RowsHaveParents'
  <2> SUFFICES ASSUME NEW r \in Tasks, NEW v \in Users
               PROVE  /\ IsTaskVolunteer(r, v)' \/ IsTaskTrustee(r, v)'
                           => creator'[r] # None
                      /\ <<r, v>> \in subs' => IsTaskVolunteer(r, v)'
    BY DEF RowsHaveParents
  <2> QED
    BY <1>1 DEF RelInv, RowsHaveParents, relVars, IsTaskVolunteer, IsTaskTrustee
<1> QED
  BY <1>1, <1>2 DEF RelInv, relVars, OpsAreBound, OneSlotPerAccount,
                    EventsHaveRows, At, IsTaskVolunteer

LEMMA RelStutterInv ==
  ASSUME RelInv, UNCHANGED <<creator, relVars>>
  PROVE  RelInv'
  BY DEF RelInv, RelTypeOK, relVars, OpsAreBound, OneSlotPerAccount,
         EventsHaveRows, RowsHaveParents, At, IsTaskVolunteer, IsTaskTrustee

\* The inductive invariant of the relationship tables holds in every reachable
\* state, however the handlers' checks, triggers and commits interleave.
THEOREM RelInvariant == RelSpec => []RelInv
<1>1. RelInit => RelInv
  BY RelInvInit
<1>2. RelInv /\ [RelNext]_<<creator, relVars>> => RelInv'
  BY RelStepInv, CreateInv, RelStutterInv DEF RelNext
<1> QED
  BY <1>1, <1>2, PTL DEF RelSpec

\* Applications, evidence and trustee slots always have their types.
THEOREM RelTypeCorrect == RelSpec => []RelTypeOK
<1>1. RelInv => RelTypeOK
  BY DEF RelInv
<1> QED
  BY <1>1, RelInvariant, PTL

\* No number of racing registrations gives one account two slots of a task.
THEOREM OneSlotAlways == RelSpec => []OneSlotPerAccount
<1>1. RelInv => OneSlotPerAccount
  BY DEF RelInv
<1> QED
  BY <1>1, RelInvariant, PTL

\* Handlers only announce applications and evidence that are in the tables.
THEOREM EventsHaveRowsAlways == RelSpec => []EventsHaveRows
<1>1. RelInv => EventsHaveRows
  BY DEF RelInv
<1> QED
  BY <1>1, RelInvariant, PTL

\* Rows have their task, and evidence its application, in every state.
THEOREM RowsHaveParentsAlways == RelSpec => []RowsHaveParents
<1>1. RelInv => RowsHaveParents
  BY DEF RelInv
<1> QED
  BY <1>1, RelInvariant, PTL

\* A taken slot keeps its trustee in every step, whoever else registers.
THEOREM SlotsAreKept == RelSpec => SlotNeverReassigned
<1>1. RelInv /\ [RelNext]_<<creator, relVars>> =>
        [\A t \in Tasks, s \in Slots :
           trustees[t][s] # None => trustees'[t][s] = trustees[t][s]]_trustees
  <2> SUFFICES ASSUME RelInv, [RelNext]_<<creator, relVars>>,
                      NEW t \in Tasks, NEW s \in Slots, trustees[t][s] # None
               PROVE  trustees'[t][s] = trustees[t][s]
    OBVIOUS
  <2>1. CASE RelStep
    BY <2>1, RelStepInv DEF RowsOnlyAppear
  <2>2. CASE UNCHANGED relVars
    BY <2>2 DEF relVars
  <2> QED
    BY <2>1, <2>2 DEF RelNext, CreateTaskRow
<1> QED
  BY <1>1, RelInvariant, PTL DEF RelSpec, SlotNeverReassigned
=============================================================================
