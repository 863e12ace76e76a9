------------------------------- MODULE Escrow -------------------------------
(***************************************************************************)
(* Payout signatures: trustees of a task sign, each under the key of the   *)
(* slot it registered, and the submission that counts enough rows          *)
(* publishes ThresholdReached, whose subscriber finalizes the payout.      *)
(* Registrations go on meanwhile, so this extends Relationships.           *)
(*                                                                         *)
(* A slot is never won twice, so the key registered for it is a parameter. *)
(* What the signatures say, and the manifest that shows what to sign, are  *)
(* left out: the code stores signatures unread, and the manifest is only   *)
(* read.                                                                   *)
(***************************************************************************)
EXTENDS Relationships

CONSTANTS
  Keys,        \* web_crypto_pubkey_hex values
  SlotKey,     \* SlotKey[t][s]: the key its winner registers for slot s of t
  Threshold,   \* signatures a payout needs (3 in the code)
  SignProcs    \* signing requests that can be in flight at once

ASSUME EscrowAssumption ==
  /\ SlotKey \in [Tasks -> [Slots -> Keys]]
  /\ None \notin Keys
  /\ Threshold \in Nat \ {0}

VARIABLES
  signatures,  \* payout_signatures: <<t, k>> that have a row
  signOp,      \* signOp[p]: the signing request p is serving
  signers,     \* signers[t]: accounts that had a signature saved
  answered,    \* answered[t]: accounts that were told "signature submitted"
  announced,   \* tasks for which ThresholdReached has been published
  broadcast    \* tasks whose payout has been broadcast

escrowVars == <<signatures, signOp, signers, answered, announced, broadcast>>

SignStages == {"idle", "save", "count", "announce", "finalize", "answer"}

IdleSign == [stage |-> "idle", task |-> None, user |-> None, key |-> None]

SignOps == [stage: SignStages, task: Tasks \cup {None},
            user: Users \cup {None}, key: Keys \cup {None}]

EscrowTypeOK ==
  /\ signatures \subseteq Tasks \X Keys
  /\ signOp \in [SignProcs -> SignOps]
  /\ signers \in [Tasks -> SUBSET Users]
  /\ answered \in [Tasks -> SUBSET Users]
  /\ announced \subseteq Tasks
  /\ broadcast \subseteq Tasks

EscrowInit ==
  /\ RelInit
  /\ signatures = {}
  /\ signOp = [p \in SignProcs |-> IdleSign]
  /\ signers = [t \in Tasks |-> {}]
  /\ answered = [t \in Tasks |-> {}]
  /\ announced = {}
  /\ broadcast = {}

Signing(p, stage) == signOp[p].stage = stage
SignEnter(p, stage) == signOp' = [signOp EXCEPT ![p].stage = stage]
SignFinish(p) == signOp' = [signOp EXCEPT ![p] = IdleSign]

SignatureCount(t) == Cardinality({k \in Keys : <<t, k>> \in signatures})

-----------------------------------------------------------------------------
\* Faulty variant: an account without a slot signs under the empty key.
LoadTrusteeKeyUnchecked(p, t, u) ==
  /\ Signing(p, "idle")
  /\ signOp' = [signOp EXCEPT ![p] =
                  [stage |-> "save", task |-> t, user |-> u, key |-> None]]
  /\ UNCHANGED <<signatures, signers, answered, announced, broadcast>>

\* RequireTaskTrustee lets the request in and SubmitTrusteeSignature loads the
\* caller's key.  Both read rows that never change, so they are one step.  The
\* code takes the first of the caller's slots; it has but one.
LoadTrusteeKey(p, t, u) ==
  /\ Signing(p, "idle")
  /\ \E s \in Slots :
       /\ trustees[t][s] = u
       /\ signOp' = [signOp EXCEPT ![p] =
                       [stage |-> "save", task |-> t, user |-> u,
                        key |-> SlotKey[t][s]]]
  /\ UNCHANGED <<signatures, signers, answered, announced, broadcast>>

\* Faulty variant: the signer names its key in the request.
SaveSignatureOfAnyKey(p) ==
  LET t == signOp[p].task
  IN  /\ Signing(p, "save")
      /\ \E k \in Keys : signatures' = signatures \cup {<<t, k>>}
      /\ signers' = [signers EXCEPT ![t] = @ \cup {signOp[p].user}]
      /\ SignEnter(p, "count")
      /\ UNCHANGED <<answered, announced, broadcast>>

\* The upsert: signing again replaces the fragments of one's row.
SaveSignature(p) ==
  LET t == signOp[p].task
  IN  /\ Signing(p, "save")
      /\ signatures' = signatures \cup {<<t, signOp[p].key>>}
      /\ signers' = [signers EXCEPT ![t] = @ \cup {signOp[p].user}]
      /\ SignEnter(p, "count")
      /\ UNCHANGED <<answered, announced, broadcast>>

\* Faulty variant: only the request that makes it three announces.
ReachesThresholdExactly(n) == n = Threshold

ReachesThreshold(n) == n >= Threshold

\* A second statement: rows of other requests may have come in between.
CountSignatures(p) ==
  /\ Signing(p, "count")
  /\ SignEnter(p, IF ReachesThreshold(SignatureCount(signOp[p].task))
                    THEN "announce" ELSE "answer")
  /\ UNCHANGED <<signatures, signers, answered, announced, broadcast>>

AnnounceThreshold(p) ==
  /\ Signing(p, "announce")
  /\ announced' = announced \cup {signOp[p].task}
  /\ SignEnter(p, "finalize")
  /\ UNCHANGED <<signatures, signers, answered, broadcast>>

\* FinalizeAndBroadcastPayout, run in place by the bus, reads the rows again;
\* its subscriber drops its error.
FinalizeAndBroadcastPayout(p) ==
  LET t == signOp[p].task
  IN  /\ Signing(p, "finalize")
      /\ broadcast' = IF ReachesThreshold(SignatureCount(t))
                        THEN broadcast \cup {t} ELSE broadcast
      /\ SignEnter(p, "answer")
      /\ UNCHANGED <<signatures, signers, answered, announced>>

AnswerSignature(p) ==
  /\ Signing(p, "answer")
  /\ answered' = [answered EXCEPT ![signOp[p].task] = @ \cup {signOp[p].user}]
  /\ SignFinish(p)
  /\ UNCHANGED <<signatures, signers, announced, broadcast>>

\* A statement fails, the trustee goes away or the process dies; what is saved
\* stays saved.
AbandonSign(p) ==
  /\ ~ Signing(p, "idle")
  /\ SignFinish(p)
  /\ UNCHANGED <<signatures, signers, answered, announced, broadcast>>

SignStep ==
  \E p \in SignProcs :
    \/ SaveSignature(p) \/ CountSignatures(p) \/ AnnounceThreshold(p)
    \/ FinalizeAndBroadcastPayout(p) \/ AnswerSignature(p) \/ AbandonSign(p)
    \/ \E t \in Tasks, u \in Users : LoadTrusteeKey(p, t, u)

EscrowNext ==
  \/ RelNext /\ UNCHANGED escrowVars
  \/ SignStep /\ UNCHANGED <<creator, relVars>>

allVars == <<creator, relVars, escrowVars>>

EscrowSpec == EscrowInit /\ [][EscrowNext]_allVars

-----------------------------------------------------------------------------
\* The payout goes out only when a threshold of different people, each holding
\* a slot of the task, had a signature saved: neither signing again, nor slots
\* won by racing registrations, let one person count for two.
PayoutNeedsTrustees ==
  \A t \in broadcast :
    Cardinality({u \in signers[t] : IsTaskTrustee(t, u)}) >= Threshold

\* The keys of the slots whose holders have been answered.
KeysAnswered(t) ==
  {k \in Keys : \E s \in Slots :
                  SlotKey[t][s] = k /\ trustees[t][s] \in answered[t]}

\* When trustees with a threshold of different keys have been answered, the
\* threshold has been announced, whoever saved and counted in which order.
\* It is keys that count, one row for each: trustees who registered one key are
\* one, although the payout is promised for the third unique trustee.
ThresholdNotMissed ==
  \A t \in Tasks : Cardinality(KeysAnswered(t)) >= Threshold => t \in announced

\* The module implements PayoutFlow, with rows counted for people.
Quorums == {Q \in SUBSET Users : Cardinality(Q) >= Threshold}

Flow == INSTANCE PayoutFlow WITH approvals <- signers, released <- broadcast

\* Counting rows by key comes to the same as counting people.
ImplementsFlow == Flow!FlowSpec
=============================================================================
