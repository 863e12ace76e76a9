-------------------------- MODULE MCTaskLifecycle --------------------------
\* Small instances of TaskLifecycle for TLC.
EXTENDS TaskLifecycle, TLC

Sent(text, reason) == [key |-> <<text>>, reason |-> reason]

Moving(text, reason, to) == [key |-> <<text>>, reason |-> reason, target |-> to]

\* Verification uses the key of the start again.
RaceCalls ==
  [start |-> {Sent("k", "")}, submit |-> {Sent("l", "")},
   verify |-> {Sent("k", "")}, advance |-> {}]

\* One key for all but the submission.  A start may come with it, with or
\* without a reason, and with the key that verifying derives from it.
MergedCalls ==
  [start |-> {Sent("k", ""), Sent("k", "asked"),
              [key |-> <<"k", "work">>, reason |-> "verified"]},
   submit |-> {Sent("l", "")}, verify |-> {Sent("k", "")},
   advance |-> {Moving("k", "asked", "LIQUIDATING")}]

ClientSymmetry == Permutations(Clients)
HandlerSymmetry == Permutations(Procs)
=============================================================================
