----------------------- MODULE RelationshipsHistory -----------------------
(***************************************************************************)
(* Relationships with a history variable: the accounts whose application   *)
(* and registration for one task have stood between trigger and commit at  *)
(* the same time.  It says how far the paired triggers keep the two roles  *)
(* apart, whatever else runs beside them.                                  *)
(***************************************************************************)
EXTENDS Relationships

VARIABLE met  \* pairs <<t, u>> that have been in Overlapping

historyVars == <<creator, relVars, met>>

Stands(p, stage, t, u) ==
  At(p, stage) /\ relOp[p].task = t /\ relOp[p].user = u

Overlap(t, u) ==
  \E p, q \in Procs : Stands(p, "commit_app", t, u) /\ Stands(q, "commit_key", t, u)

Overlapping == {w \in Tasks \X Users : Overlap(w[1], w[2])}

HistoryInit == RelInit /\ met = {}

HistoryNext == RelNext /\ met' = met \cup Overlapping'

HistorySpec == HistoryInit /\ [][HistoryNext]_historyVars

\* The triggers separate the roles except where they cannot: an account is
\* trustee and volunteer of one task only if its two inserts were once both
\* past their trigger and short of their commit.  With one request at a time
\* it never is.
RolesApartUnlessOverlap ==
  \A t \in Tasks, u \in Users :
    IsTaskTrustee(t, u) /\ IsTaskVolunteer(t, u) => <<t, u>> \in met
=============================================================================
