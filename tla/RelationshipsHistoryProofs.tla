-------------------- MODULE RelationshipsHistoryProofs --------------------
(***************************************************************************)
(* How far the paired triggers reach, proved for every number of requests: *)
(* two roles only after an overlap, and none when requests do not overlap. *)
(***************************************************************************)
EXTENDS RelationshipsHistory, RelationshipsProofs

\* Who stands between trigger and commit although the other role is taken has
\* been in an overlap.
AppsMet ==
  \A p \in Procs, t \in Tasks, u \in Users :
    Stands(p, "commit_app", t, u) /\ IsTaskTrustee(t, u) => <<t, u>> \in met

KeysMet ==
  \A p \in Procs, t \in Tasks, u \in Users :
    Stands(p, "commit_key", t, u) /\ IsTaskVolunteer(t, u) => <<t, u>> \in met

OverlapsMet ==
  \A t \in Tasks, u \in Users : Overlap(t, u) => <<t, u>> \in met

HistoryInv == RolesApartUnlessOverlap /\ AppsMet /\ KeysMet /\ OverlapsMet

\* A handler reaches its commit only past its trigger, and a role appears only
\* by such a commit.
CommitsFollowTriggers ==
  \A t \in Tasks, u \in Users :
    /\ \A p \in Procs : Stands(p, "commit_app", t, u)' =>
         Stands(p, "commit_app", t, u) \/ ~ IsTaskTrustee(t, u)'
    /\ \A p \in Procs : Stands(p, "commit_key", t, u)' =>
         Stands(p, "commit_key", t, u) \/ ~ IsTaskVolunteer(t, u)'
    /\ IsTaskVolunteer(t, u)' =>
         \/ IsTaskVolunteer(t, u)
         \/ /\ \E p \in Procs : Stands(p, "commit_app", t, u)
            /\ trustees' = trustees
    /\ IsTaskTrustee(t, u)' =>
         \/ IsTaskTrustee(t, u)
         \/ /\ \E p \in Procs : Stands(p, "commit_key", t, u)
            /\ apps' = apps

LEMMA QuietSteps ==
  ASSUME RelTypeOK, NEW p \in Procs,
         UNCHANGED <<apps, trustees>>,
         \A q \in Procs \ {p} : relOp'[q] = relOp[q],
         relOp'[p].stage \notin {"commit_app", "commit_key"}
  PROVE  CommitsFollowTriggers
  BY DEF CommitsFollowTriggers, Stands, At, IsTaskTrustee, IsTaskVolunteer

\* No handler starts at its commit.
LEMMA StartsAreQuiet ==
  ASSUME RelInv, NEW p \in Procs,
         \/ PublishRel(p) \/ AbandonOp(p)
         \/ \E t \in Tasks, u \in Users :
              \/ CheckApplication(p, t, u) \/ CheckSubmission(p, t, u)
              \/ \E s \in Slots : CheckSlot(p, t, u, s)
  PROVE  CommitsFollowTriggers
<1>1. UNCHANGED <<apps, trustees>>
  BY DEF PublishRel, AbandonOp, CheckApplication, CheckSubmission, CheckSlot
<1>2. /\ \A q \in Procs \ {p} : relOp'[q] = relOp[q]
      /\ relOp'[p].stage \notin {"commit_app", "commit_key"}
  <2>1. CASE PublishRel(p) \/ AbandonOp(p)
    BY <2>1, OpMoves DEF PublishRel, AbandonOp, IdleOp, RelInv
  <2>2. ASSUME NEW t \in Tasks, NEW u \in Users,
               \/ CheckApplication(p, t, u) \/ CheckSubmission(p, t, u)
               \/ \E s \in Slots : CheckSlot(p, t, u, s)
        PROVE  /\ \A q \in Procs \ {p} : relOp'[q] = relOp[q]
               /\ relOp'[p].stage \notin {"commit_app", "commit_key"}
    <3>1. PICK stage \in {"insert_app", "insert_sub", "insert_key"},
               s \in Slots \cup {None} : Begin(p, stage, t, u, s)
      BY <2>2 DEF CheckApplication, CheckSubmission, CheckSlot
    <3>2. RelTypeOK /\ stage \in RelStages
      BY DEF RelInv, RelStages
    <3>3. /\ relOp'[p] = [stage |-> stage, task |-> t, user |-> u, slot |-> s]
          /\ \A q \in Procs \ {p} : relOp'[q] = relOp[q]
      BY <3>1, <3>2, OpMoves
    <3> QED
      BY <3>3
  <2> QED
    BY <2>1, <2>2
<1> QED
  BY <1>1, <1>2, QuietSteps DEF RelInv

LEMMA TriggersAreChecked ==
  ASSUME RelInv, NEW p \in Procs, TriggerApplication(p) \/ TriggerKeys(p)
  PROVE  CommitsFollowTriggers
<1>1. UNCHANGED <<apps, trustees>>
  BY DEF TriggerApplication, TriggerKeys
<1>2. CASE Finish(p)
  <2>1. /\ \A q \in Procs \ {p} : relOp'[q] = relOp[q]
        /\ relOp'[p].stage \notin {"commit_app", "commit_key"}
    BY <1>2, OpMoves DEF RelInv, IdleOp
  <2> QED
    BY <1>1, <2>1, QuietSteps DEF RelInv
<1>3. CASE /\ Enter(p, "commit_app")
           /\ ~ IsTaskTrustee(relOp[p].task, relOp[p].user)
  <2>1. /\ \A q \in Procs \ {p} : relOp'[q] = relOp[q]
        /\ relOp'[p].stage = "commit_app"
        /\ relOp'[p].task = relOp[p].task /\ relOp'[p].user = relOp[p].user
    <3>1. RelTypeOK /\ "commit_app" \in RelStages
      BY DEF RelInv, RelStages
    <3>2. /\ relOp'[p] = [relOp[p] EXCEPT !.stage = "commit_app"]
          /\ \A q \in Procs \ {p} : relOp'[q] = relOp[q]
      BY <1>3, <3>1, OpMoves
    <3> QED
      BY <3>1, <3>2 DEF RelTypeOK
  <2> QED
    BY <1>1, <1>3, <2>1
    DEF CommitsFollowTriggers, Stands, At, IsTaskTrustee, IsTaskVolunteer
<1>4. CASE /\ Enter(p, "commit_key")
           /\ ~ IsTaskVolunteer(relOp[p].task, relOp[p].user)
  <2>1. /\ \A q \in Procs \ {p} : relOp'[q] = relOp[q]
        /\ relOp'[p].stage = "commit_key"
        /\ relOp'[p].task = relOp[p].task /\ relOp'[p].user = relOp[p].user
    <3>1. RelTypeOK /\ "commit_key" \in RelStages
      BY DEF RelInv, RelStages
    <3>2. /\ relOp'[p] = [relOp[p] EXCEPT !.stage = "commit_key"]
          /\ \A q \in Procs \ {p} : relOp'[q] = relOp[q]
      BY <1>4, <3>1, OpMoves
    <3> QED
      BY <3>1, <3>2 DEF RelTypeOK
  <2> QED
    BY <1>1, <1>4, <2>1
    DEF CommitsFollowTriggers, Stands, At, IsTaskTrustee, IsTaskVolunteer
<1> QED
  BY <1>2, <1>3, <1>4 DEF TriggerApplication, TriggerKeys

LEMMA CommitsMakeRoles ==
  ASSUME RelInv, NEW p \in Procs,
         CommitApplication(p) \/ CommitKeys(p) \/ CommitSubmission(p)
  PROVE  CommitsFollowTriggers
<1>1. /\ \A q \in Procs \ {p} : relOp'[q] = relOp[q]
      /\ relOp'[p].stage \notin {"commit_app", "commit_key"}
  <2>1. /\ RelTypeOK
        /\ "publish_app" \in RelStages /\ "publish_sub" \in RelStages
    BY DEF RelInv, RelStages
  <2>2. PICK stage \in {"publish_app", "publish_sub"} :
          Enter(p, stage) \/ Finish(p)
    BY DEF CommitApplication, CommitKeys, CommitSubmission
  <2>3. /\ \A q \in Procs \ {p} : relOp'[q] = relOp[q]
        /\ \/ relOp'[p] = IdleOp
           \/ relOp'[p] = [relOp[p] EXCEPT !.stage = stage]
    BY <2>1, <2>2, OpMoves
  <2> QED
    BY <2>1, <2>3 DEF RelTypeOK, IdleOp
<1>2. \A q \in Procs, t \in Tasks, u \in Users, stage \in {"commit_app", "commit_key"} :
        Stands(q, stage, t, u)' => Stands(q, stage, t, u)
  BY <1>1 DEF Stands, At
<1>3. relOp[p].task \in Tasks /\ relOp[p].user \in Users
  BY DEF RelInv, OpsAreBound, At, CommitApplication, CommitKeys, CommitSubmission
<1>4. CASE CommitApplication(p)
  <2>1. trustees' = trustees /\ Stands(p, "commit_app", relOp[p].task, relOp[p].user)
    BY <1>4 DEF CommitApplication, Stands
  <2>2. \A t \in Tasks, u \in Users :
          apps'[t][u] # None =>
            apps[t][u] # None \/ (t = relOp[p].task /\ u = relOp[p].user)
    BY <1>3, <1>4 DEF CommitApplication, RelInv, RelTypeOK
  <2> QED
    BY <1>2, <2>1, <2>2 DEF CommitsFollowTriggers, IsTaskTrustee, IsTaskVolunteer
<1>5. CASE CommitKeys(p)
  <2>1. apps' = apps /\ Stands(p, "commit_key", relOp[p].task, relOp[p].user)
    BY <1>5 DEF CommitKeys, Stands
  <2>2. relOp[p].slot \in Slots
    BY <1>5 DEF RelInv, OpsAreBound, CommitKeys
  <2>3. \A t \in Tasks, s \in Slots :
          trustees'[t][s] = trustees[t][s]
          \/ (t = relOp[p].task /\ trustees'[t][s] = relOp[p].user)
    BY <1>3, <1>5, <2>2 DEF CommitKeys, RelInv, RelTypeOK
  <2> QED
    BY <1>2, <2>1, <2>3 DEF CommitsFollowTriggers, IsTaskTrustee, IsTaskVolunteer
<1>6. CASE CommitSubmission(p)
  BY <1>1, <1>6, QuietSteps DEF CommitSubmission, RelInv
<1> QED
  BY <1>4, <1>5, <1>6

LEMMA StepsFollowTriggers ==
  ASSUME RelInv, [RelNext]_<<creator, relVars>>
  PROVE  CommitsFollowTriggers
<1>1. CASE UNCHANGED <<apps, trustees, relOp>>
  BY <1>1 DEF CommitsFollowTriggers, Stands, At, IsTaskTrustee, IsTaskVolunteer
<1>2. ASSUME NEW t \in Tasks, NEW u \in Users, NEW status \in Reviews,
             UpdateStatus(t, u, status)
      PROVE  CommitsFollowTriggers
  <2>1. relOp' = relOp /\ trustees' = trustees
    BY <1>2 DEF UpdateStatus
  <2>2. \A r \in Tasks, v \in Users : apps'[r][v] # None => apps[r][v] # None
    BY <1>2 DEF UpdateStatus, RelInv, RelTypeOK
  <2> QED
    BY <2>1, <2>2 DEF CommitsFollowTriggers, Stands, At, IsTaskTrustee, IsTaskVolunteer
<1>3. CASE RelStep
  BY <1>2, <1>3, StartsAreQuiet, TriggersAreChecked, CommitsMakeRoles DEF RelStep
<1>4. CASE \E t \in Tasks, u \in Users : CreateTaskRow(t, u)
  BY <1>1, <1>4 DEF CreateTaskRow, relVars
<1> QED
  BY <1>1, <1>3, <1>4 DEF RelNext, relVars

LEMMA HistoryStep ==
  ASSUME RelInv, HistoryInv, [HistoryNext]_historyVars
  PROVE  HistoryInv'
<1>1. CommitsFollowTriggers
  BY StepsFollowTriggers DEF HistoryNext, historyVars, relVars
<1>2. /\ met \subseteq met'
      /\ \A t \in Tasks, u \in Users : Overlap(t, u)' => <<t, u>> \in met'
  <2>1. CASE HistoryNext
    BY <2>1 DEF HistoryNext, Overlapping
  <2>2. CASE UNCHANGED historyVars
    BY <2>2 DEF historyVars, relVars, HistoryInv, OverlapsMet, Overlap, Stands, At
  <2> QED
    BY <2>1, <2>2
<1>3. \A t \in Tasks, u \in Users, p, q \in Procs :
        Stands(p, "commit_app", t, u) /\ Stands(q, "commit_key", t, u)
          => <<t, u>> \in met
  BY DEF HistoryInv, OverlapsMet, Overlap
<1>4. AppsMet'
  BY <1>1, <1>2, <1>3 DEF CommitsFollowTriggers, HistoryInv, AppsMet
<1>5. KeysMet'
  BY <1>1, <1>2, <1>3 DEF CommitsFollowTriggers, HistoryInv, KeysMet
<1>6. RolesApartUnlessOverlap'
  <2> SUFFICES ASSUME NEW t \in Tasks, NEW u \in Users,
                      IsTaskTrustee(t, u)', IsTaskVolunteer(t, u)'
               PROVE  <<t, u>> \in met'
    BY DEF RolesApartUnlessOverlap
  <2>1. CASE IsTaskVolunteer(t, u) /\ IsTaskTrustee(t, u)
    BY <1>2, <2>1 DEF HistoryInv, RolesApartUnlessOverlap
  <2>2. CASE ~ IsTaskVolunteer(t, u)
    <3>1. PICK p \in Procs : Stands(p, "commit_app", t, u) /\ trustees' = trustees
      BY <1>1, <2>2 DEF CommitsFollowTriggers
    <3>2. IsTaskTrustee(t, u)
      BY <3>1 DEF IsTaskTrustee
    <3> QED
      BY <1>2, <3>1, <3>2 DEF HistoryInv, AppsMet
  <2>3. CASE ~ IsTaskTrustee(t, u)
    <3>1. PICK p \in Procs : Stands(p, "commit_key", t, u) /\ apps' = apps
      BY <1>1, <2>3 DEF CommitsFollowTriggers
    <3>2. IsTaskVolunteer(t, u)
      BY <3>1 DEF IsTaskVolunteer
    <3> QED
      BY <1>2, <3>1, <3>2 DEF HistoryInv, KeysMet
  <2> QED
    BY <2>1, <2>2, <2>3
<1> QED
  BY <1>2, <1>4, <1>5, <1>6 DEF HistoryInv, OverlapsMet

LEMMA HistoryStart == HistoryInit => RelInit /\ HistoryInv
  BY RelAssumption
  DEF HistoryInit, RelInit, HistoryInv, RolesApartUnlessOverlap, AppsMet,
      KeysMet, OverlapsMet, Overlap, Stands, At, IdleOp, IsTaskVolunteer

\* Both roles on one account only after an overlap of its two inserts: the
\* write skew of the paired triggers is the one way round them.
THEOREM RolesApartUnlessOverlapAlways == HistorySpec => []RolesApartUnlessOverlap
<1>1. HistoryInit => RelInv /\ HistoryInv
  BY HistoryStart, RelInvInit
<1>2. RelInv /\ HistoryInv /\ [HistoryNext]_historyVars => (RelInv /\ HistoryInv)'
  <2>1. [HistoryNext]_historyVars => [RelNext]_<<creator, relVars>>
    BY DEF HistoryNext, historyVars
  <2> QED
    BY <2>1, HistoryStep, RelStepInv, CreateInv, RelStutterInv DEF RelNext
<1>3. RelInv /\ HistoryInv => RolesApartUnlessOverlap
  BY DEF HistoryInv
<1> QED
  BY <1>1, <1>2, <1>3, PTL DEF HistorySpec
=============================================================================
