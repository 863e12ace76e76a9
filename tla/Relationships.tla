--------------------------- MODULE Relationships ---------------------------
(***************************************************************************)
(* Volunteers' applications and evidence, and trustee slots, of a task:    *)
(* the tables task_applications, task_submissions and trustee_keys, and    *)
(* the three request handlers that write them.                             *)
(*                                                                         *)
(* A handler checks, then inserts.  The insert itself is two steps here:   *)
(* its BEFORE trigger reads the committed rows of the other table, and     *)
(* only later does the row become visible (READ COMMITTED), so two inserts *)
(* by different requests can overlap.  Applications of a task and user     *)
(* are unique by the table's constraint, which is why apps is a function.  *)
(***************************************************************************)
EXTENDS Integers, FiniteSets

CONSTANTS
  Tasks,        \* task slugs
  Users,        \* user ids
  Slots,        \* trustee_index values (0..4 in the schema)
  Procs,        \* request handlers that can be in flight at once
  Creators,     \* users who may create a campaign
  Applicants,   \* users who may apply to volunteer
  Registrants,  \* users who may register trustee keys
  Reviews,      \* statuses a review gives an application
  None          \* "no row", SQL NULL

ASSUME RelAssumption ==
  /\ Creators \subseteq Users /\ Applicants \subseteq Users
  /\ Registrants \subseteq Users
  /\ Reviews \subseteq {"pending", "approved", "rejected"}
  /\ None \notin {"pending", "approved", "rejected"}
  /\ None \notin Users /\ None \notin Tasks /\ None \notin Slots

VARIABLES
  creator,    \* creator[t]: creator_id of the task row, None if no row
  apps,       \* apps[t][u]: status of u's application, None if no row
  subs,       \* <<t, u>>: u has at least one submission for t
  trustees,   \* trustees[t][s]: user registered in the slot
  relOp       \* relOp[p]: the relationship request p is serving

relVars == <<apps, subs, trustees, relOp>>

AppStatus == {"pending", "approved", "rejected"}

RelStages == {"idle", "insert_app", "commit_app", "publish_app",
              "insert_key", "commit_key", "insert_sub", "publish_sub"}

IdleOp == [stage |-> "idle", task |-> None, user |-> None, slot |-> None]

RelTypeOK ==
  /\ creator \in [Tasks -> Users \cup {None}]
  /\ apps \in [Tasks -> [Users -> AppStatus \cup {None}]]
  /\ subs \subseteq Tasks \X Users
  /\ trustees \in [Tasks -> [Slots -> Users \cup {None}]]
  /\ relOp \in [Procs -> [stage: RelStages, task: Tasks \cup {None},
                          user: Users \cup {None}, slot: Slots \cup {None}]]

RelInit ==
  /\ creator = [t \in Tasks |-> None]
  /\ apps = [t \in Tasks |-> [u \in Users |-> None]]
  /\ subs = {}
  /\ trustees = [t \in Tasks |-> [s \in Slots |-> None]]
  /\ relOp = [p \in Procs |-> IdleOp]

IsTaskTrustee(t, u) == \E s \in Slots : trustees[t][s] = u
IsTaskVolunteer(t, u) == apps[t][u] # None
HasApprovedVolunteer(t) == \E u \in Users : apps[t][u] = "approved"

\* ApprovedSubmissionCounts returns (approved, submitted) over distinct
\* approved applicants; submitted = approved is what its caller asks for.
EveryApprovedSubmitted(t) ==
  \A u \in Users : apps[t][u] = "approved" => <<t, u>> \in subs

At(p, stage) == relOp[p].stage = stage
Enter(p, stage) == relOp' = [relOp EXCEPT ![p].stage = stage]
Begin(p, stage, t, u, s) ==
  relOp' = [relOp EXCEPT ![p] =
              [stage |-> stage, task |-> t, user |-> u, slot |-> s]]
Finish(p) == relOp' = [relOp EXCEPT ![p] = IdleOp]

-----------------------------------------------------------------------------
\* ApplyForTask: no application row yet, else ErrAlreadyApplied.
CheckApplication(p, t, u) ==
  /\ At(p, "idle")
  /\ u \in Applicants
  /\ ~ IsTaskVolunteer(t, u)
  /\ Begin(p, "insert_app", t, u, None)
  /\ UNCHANGED <<creator, apps, subs, trustees>>

\* The BEFORE INSERT trigger sees only committed trustee rows.  Its error code
\* (23514) is not one CreateApplication maps, so the request just fails.
TriggerApplication(p) ==
  /\ At(p, "insert_app")
  /\ IF IsTaskTrustee(relOp[p].task, relOp[p].user)
       THEN Finish(p)
       ELSE Enter(p, "commit_app")
  /\ UNCHANGED <<creator, apps, subs, trustees>>

\* Faulty variants: a status outside the vocabulary, and a failed insert taken
\* for a success.
CommitApplicationBadStatus(p) ==
  /\ At(p, "commit_app")
  /\ apps' = [apps EXCEPT ![relOp[p].task][relOp[p].user] = "applied"]
  /\ Enter(p, "publish_app")
  /\ UNCHANGED <<creator, subs, trustees>>

CommitApplicationIgnoreError(p) ==
  LET t == relOp[p].task
      u == relOp[p].user
  IN  /\ At(p, "commit_app")
      /\ Enter(p, "publish_app")
      /\ apps' = IF creator[t] # None /\ apps[t][u] = None
                    THEN [apps EXCEPT ![t][u] = "pending"] ELSE apps
      /\ UNCHANGED <<creator, subs, trustees>>

\* Foreign key to tasks, unique (task_slug, volunteer_id), then the row.
CommitApplication(p) ==
  LET t == relOp[p].task
      u == relOp[p].user
  IN  /\ At(p, "commit_app")
      /\ IF creator[t] # None /\ apps[t][u] = None
           THEN /\ apps' = [apps EXCEPT ![t][u] = "pending"]
                /\ Enter(p, "publish_app")
           ELSE Finish(p) /\ UNCHANGED apps
      /\ UNCHANGED <<creator, subs, trustees>>

\* ApplicationSubmitted or SubmissionCreated goes to the bus, and so to the
\* ledger; the request is answered.
PublishRel(p) ==
  /\ relOp[p].stage \in {"publish_app", "publish_sub"}
  /\ Finish(p)
  /\ UNCHANGED <<creator, apps, subs, trustees>>

\* SubmitWork: only an approved application lets evidence in.
CheckSubmission(p, t, u) ==
  /\ At(p, "idle")
  /\ apps[t][u] = "approved"
  /\ Begin(p, "insert_sub", t, u, None)
  /\ UNCHANGED <<creator, apps, subs, trustees>>

CommitSubmission(p) ==
  /\ At(p, "insert_sub")
  /\ subs' = subs \cup {<<relOp[p].task, relOp[p].user>>}
  /\ Enter(p, "publish_sub")
  /\ UNCHANGED <<creator, apps, trustees>>

\* AssignTrusteeSlot: the slot is free, else ErrSlotAlreadyTaken.
CheckSlot(p, t, u, s) ==
  /\ At(p, "idle")
  /\ u \in Registrants
  /\ trustees[t][s] = None
  /\ Begin(p, "insert_key", t, u, s)
  /\ UNCHANGED <<creator, apps, subs, trustees>>

\* Faulty variant: only one of the two paired triggers exists.
TriggerKeysMissing(p) ==
  /\ At(p, "insert_key")
  /\ Enter(p, "commit_key")
  /\ UNCHANGED <<creator, apps, subs, trustees>>

TriggerKeys(p) ==
  /\ At(p, "insert_key")
  /\ IF IsTaskVolunteer(relOp[p].task, relOp[p].user)
       THEN Finish(p)
       ELSE Enter(p, "commit_key")
  /\ UNCHANGED <<creator, apps, subs, trustees>>

\* Faulty variants: an upsert, and no unique (task, user).
CanSaveKeysUpsert(t, u, s) == creator[t] # None /\ ~ IsTaskTrustee(t, u)
CanSaveKeysTwice(t, u, s) == creator[t] # None /\ trustees[t][s] = None

\* The primary key (task, slot) and unique (task, user) decide the race.
CanSaveKeys(t, u, s) ==
  /\ creator[t] # None
  /\ trustees[t][s] = None
  /\ ~ IsTaskTrustee(t, u)

CommitKeys(p) ==
  LET t == relOp[p].task
      u == relOp[p].user
      s == relOp[p].slot
  IN  /\ At(p, "commit_key")
      /\ trustees' = IF CanSaveKeys(t, u, s)
                       THEN [trustees EXCEPT ![t][s] = u] ELSE trustees
      /\ Finish(p)
      /\ UNCHANGED <<creator, apps, subs>>

\* The application repository's UpdateStatus.  No handler calls it yet; tests
\* and operators review applications with this update.  It fires no trigger
\* and takes no lock on the task row.
UpdateStatus(t, u, status) ==
  /\ apps[t][u] # None
  /\ apps' = [apps EXCEPT ![t][u] = status]
  /\ UNCHANGED <<creator, subs, trustees, relOp>>

\* A statement fails, the connection breaks or the process dies: whatever p
\* had not yet done is never done.
AbandonOp(p) ==
  /\ ~ At(p, "idle")
  /\ Finish(p)
  /\ UNCHANGED <<creator, apps, subs, trustees>>

RelStep ==
  \/ \E p \in Procs :
       \/ TriggerApplication(p) \/ CommitApplication(p) \/ PublishRel(p)
       \/ CommitSubmission(p) \/ TriggerKeys(p) \/ CommitKeys(p)
       \/ AbandonOp(p)
       \/ \E t \in Tasks, u \in Users :
            \/ CheckApplication(p, t, u)
            \/ CheckSubmission(p, t, u)
            \/ \E s \in Slots : CheckSlot(p, t, u, s)
  \/ \E t \in Tasks, u \in Users, status \in Reviews :
       UpdateStatus(t, u, status)

\* The task row's insert, all that the relationship tables see of CreateCampaign.
CreateTaskRow(t, u) ==
  /\ creator[t] = None
  /\ u \in Creators
  /\ creator' = [creator EXCEPT ![t] = u]
  /\ UNCHANGED relVars

RelNext == RelStep \/ \E t \in Tasks, u \in Users : CreateTaskRow(t, u)

RelSpec == RelInit /\ [][RelNext]_<<creator, relVars>>

-----------------------------------------------------------------------------
\* An account never holds both roles on one task.  The migration that adds the
\* paired triggers calls this a database invariant.
TrusteeNeverVolunteer ==
  \A t \in Tasks, u \in Users : ~ (IsTaskTrustee(t, u) /\ IsTaskVolunteer(t, u))

\* A slot that has been won stays with its winner, whatever the losers of the
\* race had read: SaveKeys is a plain INSERT (trustee/repository/postgres.go:20-38).
\* app_flow_deep_dive.md:768 speaks of an upsert that could replace a slot; that
\* is what the faulty variant CanSaveKeysUpsert does, and not this code.
SlotNeverReassigned ==
  [][\A t \in Tasks, s \in Slots :
       trustees[t][s] # None => trustees'[t][s] = trustees[t][s]]_trustees

\* Different slots are different people: no account fills two slots of one task, even
\* when its two registrations run at the same time.
OneSlotPerAccount ==
  \A t \in Tasks, r, s \in Slots :
    trustees[t][r] = trustees[t][s] /\ trustees[t][r] # None => r = s

\* Nobody hears of an application or of evidence that the database does not
\* hold: what a handler is about to announce, and the ledger to record, has
\* its row, also when other inserts and reviews came in between.
EventsHaveRows ==
  \A p \in Procs :
    /\ At(p, "publish_app") => IsTaskVolunteer(relOp[p].task, relOp[p].user)
    /\ At(p, "publish_sub") => <<relOp[p].task, relOp[p].user>> \in subs

\* Rows hang off an existing task, and evidence off an application, although
\* no handler checks the first and the second is checked before the insert.
RowsHaveParents ==
  \A t \in Tasks, u \in Users :
    /\ IsTaskVolunteer(t, u) \/ IsTaskTrustee(t, u) => creator[t] # None
    /\ <<t, u>> \in subs => IsTaskVolunteer(t, u)
=============================================================================
