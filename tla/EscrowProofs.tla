---------------------------- MODULE EscrowProofs ----------------------------
(***************************************************************************)
(* Proofs about payout signatures, for every number of slots, keys, people *)
(* and requests in flight: rows counted by key never count more than the   *)
(* people who signed, because one person has one slot and a slot one key.  *)
(* Slots may share a key; then there are fewer rows than people, and it is *)
(* keys that the other direction, NoThresholdMissed, speaks of.            *)
(*                                                                         *)
(* No set is assumed finite: rows and people are added one at a time.      *)
(***************************************************************************)
EXTENDS Escrow, RelationshipsProofs, FiniteSetTheorems

-----------------------------------------------------------------------------
(* The inductive invariant.                                                *)

\* A request that has loaded a key has it from a slot of its caller.
SignersKnown ==
  \A p \in SignProcs :
    /\ ~ Signing(p, "idle") =>
         /\ signOp[p].task \in Tasks /\ signOp[p].user \in Users
         /\ \E s \in Slots :
              /\ trustees[signOp[p].task][s] = signOp[p].user
              /\ signOp[p].key = SlotKey[signOp[p].task][s]
    /\ signOp[p].stage \in {"count", "announce", "finalize", "answer"} =>
         signOp[p].user \in signers[signOp[p].task]

\* A row is the signature of somebody who holds a slot with its key.
RowsAreSigned ==
  \A t \in Tasks, k \in Keys :
    <<t, k>> \in signatures =>
      \E s \in Slots : SlotKey[t][s] = k /\ trustees[t][s] \in signers[t]

SignersFinite ==
  \A t \in Tasks :
    /\ IsFiniteSet(signers[t])
    /\ \A u \in signers[t] : IsTaskTrustee(t, u)

BroadcastEnough == \A t \in broadcast : Cardinality(signers[t]) >= Threshold

EscrowInv ==
  /\ RelInv /\ EscrowTypeOK
  /\ SignersKnown /\ RowsAreSigned /\ SignersFinite /\ BroadcastEnough

Rows(t) == {k \in Keys : <<t, k>> \in signatures}

\* One slot for each person gives one key for each person.
LEMMA RowsCountPeople ==
  ASSUME EscrowInv, NEW t \in Tasks
  PROVE  /\ IsFiniteSet(Rows(t))
         /\ SignatureCount(t) \in Nat /\ Cardinality(signers[t]) \in Nat
         /\ SignatureCount(t) <= Cardinality(signers[t])
<1> DEFINE key == [u \in signers[t] |->
                     SlotKey[t][CHOOSE s \in Slots : trustees[t][s] = u]]
           keys == {key[u] : u \in signers[t]}
<1>1. IsFiniteSet(signers[t]) /\ \A u \in signers[t] : IsTaskTrustee(t, u)
  BY DEF EscrowInv, SignersFinite
<1>2. key \in Surjection(signers[t], keys)
  BY DEF Surjection
<1>3. IsFiniteSet(keys) /\ Cardinality(keys) <= Cardinality(signers[t])
  BY <1>1, <1>2, FS_Surjection
<1>4. Rows(t) \subseteq keys
  <2> SUFFICES ASSUME NEW k \in Keys, <<t, k>> \in signatures PROVE k \in keys
    BY DEF Rows
  <2>1. PICK s \in Slots : SlotKey[t][s] = k /\ trustees[t][s] \in signers[t]
    BY DEF EscrowInv, RowsAreSigned
  <2> DEFINE u == trustees[t][s]
             r == CHOOSE z \in Slots : trustees[t][z] = u
  <2>2. r \in Slots /\ trustees[t][r] = u /\ u # None
    BY <2>1, RelAssumption DEF EscrowInv, EscrowTypeOK
  <2>3. r = s
    BY <2>2 DEF EscrowInv, RelInv, OneSlotPerAccount
  <2> QED
    BY <2>1, <2>3
<1>5. IsFiniteSet(Rows(t)) /\ Cardinality(Rows(t)) <= Cardinality(keys)
  BY <1>3, <1>4, FS_Subset
<1> HIDE DEF keys
<1> QED
  BY <1>1, <1>3, <1>5, FS_CardinalityType DEF SignatureCount, Rows

-----------------------------------------------------------------------------
(* The registrations' steps.                                               *)

LEMMA RelStepEscrow ==
  ASSUME EscrowInv, RelNext, UNCHANGED escrowVars
  PROVE  EscrowInv'
<1>1. RelInv' /\ \A t \in Tasks, s \in Slots :
                   trustees[t][s] # None => trustees'[t][s] = trustees[t][s]
  <2>1. CASE RelStep
    BY <2>1, RelStepInv DEF EscrowInv, RowsOnlyAppear
  <2>2. ASSUME NEW t \in Tasks, NEW u \in Users, CreateTaskRow(t, u)
        PROVE  RelInv' /\ trustees' = trustees
    BY <2>2, CreateInv DEF EscrowInv, CreateTaskRow, relVars
  <2> QED
    BY <2>1, <2>2 DEF RelNext
<1>2. EscrowTypeOK' /\ BroadcastEnough'
  BY DEF EscrowInv, EscrowTypeOK, BroadcastEnough, escrowVars
<1>3. SignersKnown'
  BY <1>1, RelAssumption DEF EscrowInv, SignersKnown, Signing, escrowVars
<1>4. RowsAreSigned'
  BY <1>1, RelAssumption DEF EscrowInv, RowsAreSigned, EscrowTypeOK, escrowVars
<1>5. SignersFinite'
  <2> SUFFICES ASSUME NEW t \in Tasks, NEW u \in signers[t]
               PROVE  IsTaskTrustee(t, u)'
    BY DEF EscrowInv, SignersFinite, escrowVars
  <2>1. PICK s \in Slots : trustees[t][s] = u /\ u \in Users
    BY DEF EscrowInv, EscrowTypeOK, SignersFinite, IsTaskTrustee
  <2> QED
    BY <1>1, <2>1, RelAssumption DEF IsTaskTrustee
<1> QED
  BY <1>1, <1>2, <1>3, <1>4, <1>5 DEF EscrowInv

-----------------------------------------------------------------------------
(* The signing requests' steps.                                            *)

\* Progress of one request that writes no row: signatures and signers stay.
LEMMA ProgressEscrow ==
  ASSUME EscrowInv, NEW p \in SignProcs, NEW op \in SignOps,
         UNCHANGED <<creator, relVars, signatures, signers>>,
         signOp' = [signOp EXCEPT ![p] = op],
         op.stage # "idle" =>
           /\ op.task \in Tasks /\ op.user \in Users
           /\ \E s \in Slots : /\ trustees[op.task][s] = op.user
                               /\ op.key = SlotKey[op.task][s],
         op.stage \in {"count", "announce", "finalize", "answer"} =>
           op.user \in signers[op.task],
         answered' \in [Tasks -> SUBSET Users],
         announced' \subseteq Tasks, broadcast' \subseteq Tasks,
         BroadcastEnough'
  PROVE  EscrowInv'
<1>1. RelInv'
  BY RelStutterInv DEF EscrowInv
<1>2. EscrowTypeOK'
  BY DEF EscrowInv, EscrowTypeOK
<1>3. SignersKnown'
  BY DEF EscrowInv, EscrowTypeOK, SignersKnown, Signing, relVars
<1>4. RowsAreSigned' /\ SignersFinite'
  BY DEF EscrowInv, RowsAreSigned, SignersFinite, IsTaskTrustee, relVars
<1> QED
  BY <1>1, <1>2, <1>3, <1>4 DEF EscrowInv

LEMMA IdleSignType == IdleSign \in SignOps
  BY DEF IdleSign, SignOps, SignStages

LEMMA SaveEscrow ==
  ASSUME EscrowInv, NEW p \in SignProcs, SaveSignature(p),
         UNCHANGED <<creator, relVars>>
  PROVE  EscrowInv'
<1> DEFINE op == signOp[p]
<1>1. PICK t \in Tasks, u \in Users, s \in Slots :
        /\ op.task = t /\ op.user = u /\ trustees[t][s] = u
        /\ op.key = SlotKey[t][s]
  BY DEF SaveSignature, EscrowInv, SignersKnown, Signing
<1>2. /\ op \in SignOps /\ SlotKey[t][s] \in Keys
      /\ signatures' = signatures \cup {<<t, SlotKey[t][s]>>}
      /\ signers' = [signers EXCEPT ![t] = @ \cup {u}]
      /\ signOp' = [signOp EXCEPT ![p].stage = "count"]
      /\ UNCHANGED <<answered, announced, broadcast, trustees>>
  BY <1>1, EscrowAssumption
     DEF SaveSignature, SignEnter, EscrowInv, EscrowTypeOK, relVars
<1>3. signers \in [Tasks -> SUBSET Users] /\ signOp \in [SignProcs -> SignOps]
  BY DEF EscrowInv, EscrowTypeOK
<1>4. /\ signers'[t] = signers[t] \cup {u}
      /\ \A z \in Tasks \ {t} : signers'[z] = signers[z]
  BY <1>2, <1>3
<1>5. /\ signOp'[p].stage = "count" /\ signOp'[p].task = t /\ signOp'[p].user = u
      /\ signOp'[p].key = SlotKey[t][s]
      /\ \A q \in SignProcs \ {p} : signOp'[q] = signOp[q]
  BY <1>1, <1>2, <1>3 DEF SignOps
<1> HIDE DEF op
<1>6. RelInv'
  BY RelStutterInv DEF EscrowInv
<1>7. EscrowTypeOK'
  <2>1. signOp' \in [SignProcs -> SignOps]
    BY <1>2, <1>3 DEF SignOps, SignStages
  <2> QED
    BY <1>2, <1>3, <2>1 DEF EscrowInv, EscrowTypeOK
<1>8. SignersKnown'
  <2> SUFFICES ASSUME NEW q \in SignProcs
      PROVE  /\ signOp'[q].stage # "idle" =>
                  /\ signOp'[q].task \in Tasks /\ signOp'[q].user \in Users
                  /\ \E z \in Slots :
                       /\ trustees[signOp'[q].task][z] = signOp'[q].user
                       /\ signOp'[q].key = SlotKey[signOp'[q].task][z]
             /\ signOp'[q].stage \in {"count", "announce", "finalize", "answer"} =>
                  signOp'[q].user \in signers'[signOp'[q].task]
    BY <1>2 DEF SignersKnown, Signing
  <2>1. CASE q = p
    BY <1>1, <1>4, <1>5, <2>1
  <2>2. CASE q # p
    <3>1. signOp'[q] = signOp[q] /\ \A z \in Tasks : signers[z] \subseteq signers'[z]
      BY <1>4, <1>5, <2>2
    <3> QED
      BY <3>1 DEF EscrowInv, SignersKnown, Signing
  <2> QED
    BY <2>1, <2>2
<1>9. RowsAreSigned'
  BY <1>1, <1>2, <1>4 DEF EscrowInv, RowsAreSigned
<1>10. SignersFinite'
  <2>1. IsFiniteSet(signers'[t])
    BY <1>4, FS_AddElement DEF EscrowInv, SignersFinite
  <2>2. \A z \in Tasks : IsFiniteSet(signers'[z])
    BY <1>4, <2>1 DEF EscrowInv, SignersFinite
  <2>3. \A z \in Tasks : \A v \in signers'[z] : \E r \in Slots : trustees[z][r] = v
    BY <1>1, <1>4 DEF EscrowInv, SignersFinite, IsTaskTrustee
  <2> QED
    BY <1>2, <2>2, <2>3 DEF SignersFinite, IsTaskTrustee
<1>11. BroadcastEnough'
  <2>1. \A z \in Tasks : /\ Cardinality(signers[z]) \in Nat
                         /\ Cardinality(signers'[z]) \in Nat
                         /\ Cardinality(signers[z]) <= Cardinality(signers'[z])
    <3>1. IsFiniteSet(signers[t]) /\ Cardinality(signers[t]) \in Nat
      BY FS_CardinalityType DEF EscrowInv, SignersFinite
    <3>2. /\ Cardinality(signers[t]) \in Nat
          /\ Cardinality(signers'[t]) =
               IF u \in signers[t] THEN Cardinality(signers[t])
               ELSE Cardinality(signers[t]) + 1
      BY <1>4, <3>1, FS_AddElement
    <3>3. \A z \in Tasks \ {t} : Cardinality(signers[z]) \in Nat
      BY FS_CardinalityType DEF EscrowInv, SignersFinite
    <3>4. \A z \in Tasks : z = t \/ z \in Tasks \ {t}
      OBVIOUS
    <3> QED
      BY <1>4, <3>2, <3>3, <3>4
  <2>2. /\ broadcast' = broadcast /\ broadcast \subseteq Tasks
        /\ \A z \in broadcast : Cardinality(signers[z]) >= Threshold
    BY <1>2 DEF EscrowInv, EscrowTypeOK, BroadcastEnough
  <2>3. \A z \in broadcast : Cardinality(signers'[z]) >= Threshold
    BY <2>1, <2>2, EscrowAssumption
  <2> QED
    BY <2>2, <2>3 DEF BroadcastEnough
<1> QED
  BY <1>6, <1>7, <1>8, <1>9, <1>10, <1>11 DEF EscrowInv

LEMMA SignStepEscrow ==
  ASSUME EscrowInv, SignStep, UNCHANGED <<creator, relVars>>
  PROVE  EscrowInv'
<1> PICK p \in SignProcs :
      \/ SaveSignature(p) \/ CountSignatures(p) \/ AnnounceThreshold(p)
      \/ FinalizeAndBroadcastPayout(p) \/ AnswerSignature(p) \/ AbandonSign(p)
      \/ \E t \in Tasks, u \in Users : LoadTrusteeKey(p, t, u)
  BY DEF SignStep
<1> DEFINE op == signOp[p]
<1>0. /\ signOp \in [SignProcs -> SignOps] /\ op \in SignOps
      /\ answered \in [Tasks -> SUBSET Users]
      /\ announced \subseteq Tasks /\ broadcast \subseteq Tasks
      /\ BroadcastEnough
  BY DEF EscrowInv, EscrowTypeOK
<1>9. op.stage # "idle" =>
        /\ op.task \in Tasks /\ op.user \in Users
        /\ \E s \in Slots : /\ trustees[op.task][s] = op.user
                            /\ op.key = SlotKey[op.task][s]
  BY DEF EscrowInv, SignersKnown, Signing
<1>10. op.stage \in {"count", "announce", "finalize", "answer"} =>
         op.user \in signers[op.task]
  BY DEF EscrowInv, SignersKnown
<1>1. CASE \E t \in Tasks, u \in Users : LoadTrusteeKey(p, t, u)
  <2>1. PICK t \in Tasks, u \in Users, s \in Slots :
          /\ trustees[t][s] = u
          /\ signOp' = [signOp EXCEPT ![p] = [stage |-> "save", task |-> t,
                          user |-> u, key |-> SlotKey[t][s]]]
          /\ UNCHANGED <<signatures, signers, answered, announced, broadcast>>
    BY <1>1 DEF LoadTrusteeKey
  <2> DEFINE new == [stage |-> "save", task |-> t, user |-> u,
                     key |-> SlotKey[t][s]]
  <2>2. new \in SignOps
    BY EscrowAssumption DEF SignOps, SignStages
  <2>3. BroadcastEnough'
    BY <1>0, <2>1 DEF BroadcastEnough
  <2> QED
    BY <1>0, <2>1, <2>2, <2>3, ProgressEscrow
\* A request that moves on without writing a row.
<1>2. ASSUME NEW stage \in SignStages, op.stage # "idle",
             op.stage # "save", signOp' = [signOp EXCEPT ![p].stage = stage],
             UNCHANGED <<signatures, signers>>,
             answered' \in [Tasks -> SUBSET Users],
             announced' \subseteq Tasks, broadcast' \subseteq Tasks,
             BroadcastEnough'
      PROVE  EscrowInv'
  <2>1. op.stage \in {"count", "announce", "finalize", "answer"}
    BY <1>0, <1>2 DEF SignOps, SignStages
  <2>2. PICK new \in SignOps : new = [op EXCEPT !.stage = stage]
    BY <1>0, <1>2 DEF SignOps
  <2>3. /\ new.task = op.task /\ new.user = op.user /\ new.key = op.key
        /\ signOp' = [signOp EXCEPT ![p] = new]
    BY <1>0, <1>2, <2>2 DEF SignOps
  <2>4. /\ new.task \in Tasks /\ new.user \in Users
        /\ \E s \in Slots : /\ trustees[new.task][s] = new.user
                            /\ new.key = SlotKey[new.task][s]
        /\ new.user \in signers[new.task]
    BY <1>2, <1>9, <1>10, <2>1, <2>3
  <2> HIDE DEF op
  <2> QED
    BY <1>2, <2>3, <2>4, ProgressEscrow
<1>3. CASE CountSignatures(p)
  <2>1. /\ BroadcastEnough' /\ op.stage = "count"
        /\ UNCHANGED <<signatures, signers, answered, announced, broadcast>>
    BY <1>0, <1>3 DEF CountSignatures, BroadcastEnough, Signing
  <2>2. \/ signOp' = [signOp EXCEPT ![p].stage = "announce"]
        \/ signOp' = [signOp EXCEPT ![p].stage = "answer"]
    BY <1>3 DEF CountSignatures, SignEnter
  <2>3. {"announce", "answer"} \subseteq SignStages
    BY DEF SignStages
  <2> HIDE DEF op
  <2> QED
    BY <1>0, <1>2, <2>1, <2>2, <2>3
<1>4. CASE AnnounceThreshold(p)
  <2>1. /\ BroadcastEnough' /\ op.stage = "announce"
        /\ signOp' = [signOp EXCEPT ![p].stage = "finalize"]
        /\ announced' = announced \cup {op.task}
        /\ UNCHANGED <<signatures, signers, answered, broadcast>>
    BY <1>0, <1>4 DEF AnnounceThreshold, BroadcastEnough, Signing, SignEnter
  <2> QED
    BY <1>0, <1>2, <1>9, <2>1 DEF SignStages
<1>5. CASE FinalizeAndBroadcastPayout(p)
  <2>1. /\ op.stage = "finalize"
        /\ signOp' = [signOp EXCEPT ![p].stage = "answer"]
        /\ UNCHANGED <<signatures, signers, answered, announced>>
        /\ \/ broadcast' = broadcast
           \/ /\ broadcast' = broadcast \cup {op.task}
              /\ SignatureCount(op.task) >= Threshold
    BY <1>5 DEF FinalizeAndBroadcastPayout, Signing, SignEnter, ReachesThreshold
  <2>2. /\ op.task \in Tasks
        /\ SignatureCount(op.task) \in Nat /\ Cardinality(signers[op.task]) \in Nat
        /\ SignatureCount(op.task) <= Cardinality(signers[op.task])
    BY <1>9, <2>1, RowsCountPeople
  <2> HIDE DEF op
  <2>3. SignatureCount(op.task) >= Threshold
          => Cardinality(signers[op.task]) >= Threshold
    BY <2>2, EscrowAssumption
  <2>4. BroadcastEnough'
    BY <1>0, <2>1, <2>3 DEF BroadcastEnough
  <2> QED
    BY <1>0, <1>2, <2>1, <2>2, <2>4 DEF SignStages
\* The two ways a request ends.
<1>6. ASSUME signOp' = [signOp EXCEPT ![p] = IdleSign],
             UNCHANGED <<signatures, signers, announced, broadcast>>,
             answered' \in [Tasks -> SUBSET Users]
      PROVE  EscrowInv'
  <2>1. BroadcastEnough'
    BY <1>0, <1>6 DEF BroadcastEnough
  <2> QED
    BY <1>0, <1>6, <2>1, IdleSignType, ProgressEscrow DEF IdleSign
<1>7. CASE AnswerSignature(p)
  BY <1>0, <1>6, <1>7, <1>9 DEF AnswerSignature, SignFinish, Signing
<1>8. CASE AbandonSign(p)
  BY <1>0, <1>6, <1>8 DEF AbandonSign, SignFinish
<1> QED
  BY <1>1, <1>3, <1>4, <1>5, <1>7, <1>8, SaveEscrow

-----------------------------------------------------------------------------
(* The invariant, and what follows from it.                                *)

LEMMA EscrowInvInit ==
  ASSUME EscrowInit
  PROVE  EscrowInv
<1>1. RelInv
  BY RelInvInit DEF EscrowInit
<1>2. EscrowTypeOK
  BY IdleSignType DEF EscrowInit, EscrowTypeOK
<1>3. SignersKnown /\ RowsAreSigned /\ BroadcastEnough
  BY DEF EscrowInit, SignersKnown, Signing, IdleSign, RowsAreSigned,
         BroadcastEnough
<1>4. SignersFinite
  BY FS_EmptySet DEF EscrowInit, SignersFinite
<1> QED
  BY <1>1, <1>2, <1>3, <1>4 DEF EscrowInv

LEMMA EscrowInvStutter ==
  ASSUME EscrowInv, UNCHANGED allVars
  PROVE  EscrowInv'
<1> USE DEF allVars, relVars, escrowVars
<1>1. RelInv'
  BY RelStutterInv DEF EscrowInv
<1>2. EscrowTypeOK' /\ SignersKnown' /\ RowsAreSigned'
  BY DEF EscrowInv, EscrowTypeOK, SignersKnown, Signing, RowsAreSigned
<1>3. SignersFinite' /\ BroadcastEnough'
  BY DEF EscrowInv, SignersFinite, BroadcastEnough, IsTaskTrustee
<1> QED
  BY <1>1, <1>2, <1>3 DEF EscrowInv

\* The inductive invariant of registrations and signing requests together.
THEOREM EscrowInvariant == EscrowSpec => []EscrowInv
<1>1. EscrowInv /\ EscrowNext => EscrowInv'
  BY RelStepEscrow, SignStepEscrow DEF EscrowNext
<1> QED
  BY <1>1, EscrowInvInit, EscrowInvStutter, PTL DEF EscrowSpec

\* Signature rows, requests and announcements keep their types.
THEOREM EscrowTypes == EscrowSpec => []EscrowTypeOK
<1>1. EscrowInv => EscrowTypeOK
  BY DEF EscrowInv
<1> QED
  BY <1>1, EscrowInvariant, PTL

\* GetSignatureCount counts keys, and yet FinalizeAndBroadcastPayout never
\* goes ahead with fewer than a threshold of different trustees of the task.
THEOREM PayoutsHaveTrustees == EscrowSpec => []PayoutNeedsTrustees
<1>1. EscrowInv => PayoutNeedsTrustees
  <2> SUFFICES ASSUME EscrowInv, NEW t \in broadcast
               PROVE  Cardinality({u \in signers[t] : IsTaskTrustee(t, u)})
                        >= Threshold
    BY DEF PayoutNeedsTrustees
  <2>1. t \in Tasks /\ {u \in signers[t] : IsTaskTrustee(t, u)} = signers[t]
    BY DEF EscrowInv, EscrowTypeOK, SignersFinite
  <2> QED
    BY <2>1 DEF EscrowInv, BroadcastEnough
<1> QED
  BY <1>1, EscrowInvariant, PTL

LEMMA SaveApproves ==
  ASSUME EscrowInv, NEW p \in SignProcs, SaveSignature(p)
  PROVE  Flow!FlowNext
<1>1. signOp[p].task \in Tasks /\ signOp[p].user \in Users
  BY DEF SaveSignature, EscrowInv, SignersKnown, Signing
<1>2. Flow!Approve(signOp[p].task, signOp[p].user)
  BY DEF SaveSignature, Flow!Approve
<1> QED
  BY <1>1, <1>2 DEF Flow!FlowNext

LEMMA FinalizeReleases ==
  ASSUME EscrowInv, NEW p \in SignProcs, FinalizeAndBroadcastPayout(p)
  PROVE  Flow!FlowNext \/ UNCHANGED <<signers, broadcast>>
<1>1. PICK t \in Tasks : t = signOp[p].task
  BY DEF FinalizeAndBroadcastPayout, EscrowInv, SignersKnown, Signing
<1>2. signers' = signers
  BY DEF FinalizeAndBroadcastPayout
<1>3. CASE SignatureCount(t) >= Threshold
  <2>1. Cardinality(signers[t]) >= Threshold
    BY <1>3, RowsCountPeople, EscrowAssumption
  <2>2. broadcast' = broadcast \cup {t}
    BY <1>1, <1>3 DEF FinalizeAndBroadcastPayout, ReachesThreshold
  <2>3. signers[t] \in Quorums
    BY <2>1 DEF Quorums, EscrowInv, EscrowTypeOK
  <2>4. Flow!Release(t)
    BY <1>2, <2>2, <2>3 DEF Flow!Release
  <2> QED
    BY <2>4 DEF Flow!FlowNext
<1>4. CASE ~ (SignatureCount(t) >= Threshold)
  BY <1>1, <1>2, <1>4 DEF FinalizeAndBroadcastPayout, ReachesThreshold
<1> QED
  BY <1>3, <1>4

\* Counting rows by key implements counting people, for any number of requests
\* in flight and any racing registrations.
THEOREM ImplementsPayoutFlow == EscrowSpec => ImplementsFlow
<1>1. EscrowInit => Flow!FlowInit
  BY DEF EscrowInit, Flow!FlowInit
<1>2. EscrowInv /\ [EscrowNext]_allVars => [Flow!FlowNext]_(Flow!flowVars)
  <2> SUFFICES ASSUME EscrowInv, [EscrowNext]_allVars
               PROVE  Flow!FlowNext \/ UNCHANGED <<signers, broadcast>>
    BY DEF Flow!flowVars
  <2>1. CASE UNCHANGED escrowVars
    BY <2>1 DEF escrowVars
  <2>2. CASE SignStep
    <3>1. PICK p \in SignProcs :
            \/ SaveSignature(p) \/ FinalizeAndBroadcastPayout(p)
            \/ UNCHANGED <<signers, broadcast>>
      BY <2>2 DEF SignStep, CountSignatures, AnnounceThreshold,
                  AnswerSignature, AbandonSign, LoadTrusteeKey
    <3> QED
      BY <3>1, SaveApproves, FinalizeReleases
  <2> QED
    BY <2>1, <2>2 DEF EscrowNext, allVars
<1> QED
  BY <1>1, <1>2, EscrowInvariant, PTL
     DEF EscrowSpec, ImplementsFlow, Flow!FlowSpec

-----------------------------------------------------------------------------
(* No threshold of keys is missed.                                         *)

\* People who have counted and are, or are about to be, answered.
Passed(t) ==
  answered[t] \cup
  {u \in Users : \E p \in SignProcs :
     Signing(p, "answer") /\ signOp[p].task = t /\ signOp[p].user = u}

PassedKeys(t) ==
  {k \in Keys : \E s \in Slots : SlotKey[t][s] = k /\ trustees[t][s] \in Passed(t)}

LoadSome(p) == \E t \in Tasks, u \in Users : LoadTrusteeKey(p, t, u)

PeopleHaveRows ==
  \A t \in Tasks, s \in Slots :
    trustees[t][s] \in signers[t] => <<t, SlotKey[t][s]>> \in signatures

MissInv ==
  /\ EscrowInv /\ PeopleHaveRows
  /\ \A p \in SignProcs : Signing(p, "finalize") => signOp[p].task \in announced
  /\ \A t \in Tasks \ announced :
       /\ IsFiniteSet(PassedKeys(t))
       /\ Cardinality(PassedKeys(t)) < Threshold
       /\ answered[t] \subseteq signers[t]

LEMMA MissInit ==
  ASSUME EscrowInit
  PROVE  MissInv
<1>1. \A t \in Tasks : Passed(t) = {}
  BY DEF EscrowInit, Passed, Signing, IdleSign
<1>2. IsFiniteSet({}) /\ Cardinality({}) < Threshold
  <2>1. IsFiniteSet({}) /\ Cardinality({}) = 0
    BY FS_EmptySet
  <2> QED
    BY <2>1, EscrowAssumption
<1>3. \A t \in Tasks : PassedKeys(t) = {}
  BY <1>1 DEF PassedKeys
<1>4. ASSUME NEW t \in Tasks
      PROVE  Cardinality(PassedKeys(t)) < Threshold /\ IsFiniteSet(PassedKeys(t))
  <2>1. PassedKeys(t) = {}
    BY <1>3
  <2> QED
    BY <1>2, <2>1
<1>5. EscrowInv
  BY EscrowInvInit
<1>6. PeopleHaveRows
  BY DEF EscrowInit, PeopleHaveRows
<1>7. \A p \in SignProcs : Signing(p, "finalize") => signOp[p].task \in announced
  BY DEF EscrowInit, Signing, IdleSign
<1>8. \A t \in Tasks : answered[t] \subseteq signers[t]
  BY DEF EscrowInit
<1> QED
  BY <1>4, <1>5, <1>6, <1>7, <1>8 DEF MissInv

\* A set of keys that does not outgrow one that is below the threshold.
LEMMA StaysBelow ==
  ASSUME NEW S, NEW T, T \subseteq S, IsFiniteSet(S), Cardinality(S) < Threshold
  PROVE  IsFiniteSet(T) /\ Cardinality(T) < Threshold
  BY FS_Subset, FS_CardinalityType, EscrowAssumption

\* Nobody who signed wins another slot.
LEMMA SlotsOfSignersStay ==
  ASSUME EscrowInv, [EscrowNext]_allVars, NEW t \in Tasks, NEW s \in Slots,
         trustees'[t][s] \in signers[t]
  PROVE  trustees[t][s] = trustees'[t][s]
<1>1. CASE trustees' = trustees
  BY <1>1
<1>2. CASE RelStep
  <2>1. \A r \in Slots : trustees[t][r] # None => trustees'[t][r] = trustees[t][r]
    BY <1>2, RelStepInv DEF EscrowInv, RowsOnlyAppear
  <2>2. PICK r \in Slots : trustees[t][r] = trustees'[t][s]
    BY DEF EscrowInv, SignersFinite, IsTaskTrustee
  <2>3. trustees'[t][s] \in Users
    BY DEF EscrowInv, EscrowTypeOK
  <2>4. trustees'[t][r] = trustees'[t][s] /\ trustees'[t][s] # None
    BY <2>1, <2>2, <2>3, RelAssumption
  <2>5. OneSlotPerAccount'
    BY <1>2, RelStepInv DEF EscrowInv, RelInv
  <2>6. r = s
    BY <2>4, <2>5 DEF OneSlotPerAccount
  <2> QED
    BY <2>2, <2>6
<1> QED
  BY <1>1, <1>2 DEF EscrowNext, RelNext, CreateTaskRow, SignStep, allVars, relVars

\* What the steps do to the rows and people of a task.
LEMMA RowsOfPeopleStay ==
  ASSUME MissInv, [EscrowNext]_allVars
  PROVE  PeopleHaveRows'
<1>1. PeopleHaveRows /\ EscrowInv
  BY DEF MissInv
<1>2. CASE UNCHANGED <<trustees, signers, signatures>>
  BY <1>1, <1>2 DEF PeopleHaveRows
<1>3. ASSUME NEW p \in SignProcs, SaveSignature(p), UNCHANGED <<creator, relVars>>
      PROVE  PeopleHaveRows'
  <2>1. PICK t \in Tasks, u \in Users, s \in Slots :
          /\ signOp[p].task = t /\ signOp[p].user = u /\ trustees[t][s] = u
          /\ signOp[p].key = SlotKey[t][s]
    BY <1>3 DEF SaveSignature, EscrowInv, SignersKnown, Signing, MissInv
  <2>2. /\ signatures' = signatures \cup {<<t, SlotKey[t][s]>>}
        /\ signers' = [signers EXCEPT ![t] = @ \cup {u}]
        /\ trustees' = trustees
    BY <1>3, <2>1 DEF SaveSignature, relVars
  <2>3. \A r \in Slots : trustees[t][r] = u => r = s
    BY <1>1, <2>1, RelAssumption DEF EscrowInv, RelInv, OneSlotPerAccount
  <2>4. \A z \in Tasks : signers'[z] = IF z = t THEN signers[t] \cup {u} ELSE signers[z]
    BY <1>1, <2>2 DEF EscrowInv, EscrowTypeOK
  <2> QED
    BY <1>1, <2>2, <2>3, <2>4 DEF PeopleHaveRows
<1>4. CASE UNCHANGED escrowVars
  <2>1. UNCHANGED <<signers, signatures>>
    BY <1>4 DEF escrowVars
  <2> QED
    BY <1>1, <2>1, SlotsOfSignersStay DEF PeopleHaveRows
<1> QED
  BY <1>2, <1>3, <1>4
     DEF EscrowNext, RelNext, CreateTaskRow, SignStep, CountSignatures,
         AnnounceThreshold, FinalizeAndBroadcastPayout, AnswerSignature,
         AbandonSign, LoadTrusteeKey, allVars, escrowVars, relVars

\* Whoever newly passes has counted fewer rows than the threshold.
LEMMA WhoPasses ==
  ASSUME MissInv, [EscrowNext]_allVars, NEW t \in Tasks, t \notin announced'
  PROVE  \/ Passed(t)' \subseteq Passed(t)
         \/ Passed(t)' \subseteq signers[t] /\ SignatureCount(t) < Threshold
<1>1. EscrowInv /\ EscrowTypeOK
  BY DEF MissInv, EscrowInv
<1>2. CASE UNCHANGED <<signOp, answered>>
  BY <1>2 DEF Passed, Signing
<1>3. ASSUME NEW p \in SignProcs,
             \/ LoadSome(p) \/ SaveSignature(p) \/ AnnounceThreshold(p)
             \/ AbandonSign(p)
      PROVE  Passed(t)' \subseteq Passed(t)
  <2>1. answered' = answered
    BY <1>3 DEF LoadSome, LoadTrusteeKey, SaveSignature, AnnounceThreshold,
                AbandonSign
  <2>2. \A q \in SignProcs : Signing(q, "answer")' =>
          Signing(q, "answer") /\ signOp'[q] = signOp[q]
    BY <1>1, <1>3 DEF LoadSome, LoadTrusteeKey, SaveSignature, AnnounceThreshold,
         AbandonSign, Signing, SignEnter, SignFinish, IdleSign, EscrowTypeOK, SignOps
  <2> QED
    BY <2>1, <2>2 DEF Passed
<1>4. ASSUME NEW p \in SignProcs, CountSignatures(p)
      PROVE  \/ Passed(t)' \subseteq Passed(t)
             \/ Passed(t)' \subseteq signers[t] /\ SignatureCount(t) < Threshold
  <2>1. answered' = answered /\ announced' = announced
    BY <1>4 DEF CountSignatures
  <2>2. \A q \in SignProcs \ {p} : signOp'[q] = signOp[q]
    BY <1>1, <1>4 DEF CountSignatures, SignEnter, EscrowTypeOK
  <2>3. /\ signOp'[p].task = signOp[p].task /\ signOp'[p].user = signOp[p].user
        /\ signOp'[p].stage = IF ReachesThreshold(SignatureCount(signOp[p].task))
                                THEN "announce" ELSE "answer"
    BY <1>1, <1>4 DEF CountSignatures, SignEnter, EscrowTypeOK, SignOps
  <2>4. CASE signOp[p].task # t \/ signOp'[p].stage = "announce"
    BY <2>1, <2>2, <2>3, <2>4 DEF Passed, Signing
  <2>5. CASE signOp[p].task = t /\ signOp'[p].stage = "answer"
    <3>1. SignatureCount(t) < Threshold
      BY <1>1, <2>3, <2>5, RowsCountPeople, EscrowAssumption DEF ReachesThreshold
    <3>2. answered[t] \subseteq signers[t]
      BY <2>1 DEF MissInv
    <3>3. \A q \in SignProcs :
            Signing(q, "answer")' /\ signOp'[q].task = t =>
              signOp'[q].user \in signers[t]
      BY <1>1, <1>4, <2>2, <2>3
         DEF Signing, CountSignatures, EscrowInv, SignersKnown
    <3> QED
      BY <2>1, <3>1, <3>2, <3>3 DEF Passed
  <2> QED
    BY <2>3, <2>4, <2>5
<1>5. ASSUME NEW p \in SignProcs, FinalizeAndBroadcastPayout(p)
      PROVE  Passed(t)' \subseteq Passed(t)
  <2>1. /\ answered' = answered /\ announced' = announced
        /\ signOp[p].task \in announced
        /\ signOp'[p].task = signOp[p].task
    BY <1>1, <1>5 DEF FinalizeAndBroadcastPayout, SignEnter, EscrowTypeOK, SignOps, MissInv
  <2>2. \A q \in SignProcs \ {p} : signOp'[q] = signOp[q]
    BY <1>1, <1>5 DEF FinalizeAndBroadcastPayout, SignEnter, EscrowTypeOK
  <2> QED
    BY <2>1, <2>2 DEF Passed, Signing
<1>6. ASSUME NEW p \in SignProcs, AnswerSignature(p)
      PROVE  Passed(t)' \subseteq Passed(t)
  <2>1. /\ signOp[p].task \in Tasks /\ signOp[p].user \in Users
        /\ Signing(p, "answer") /\ ~ Signing(p, "answer")'
    BY <1>1, <1>6 DEF AnswerSignature, SignFinish, Signing, IdleSign,
                      EscrowInv, SignersKnown, EscrowTypeOK
  <2>2. answered'[t] = IF signOp[p].task = t THEN answered[t] \cup {signOp[p].user}
                                              ELSE answered[t]
    BY <1>1, <1>6 DEF AnswerSignature, EscrowTypeOK
  <2>3. \A q \in SignProcs \ {p} : signOp'[q] = signOp[q]
    BY <1>1, <1>6 DEF AnswerSignature, SignFinish, EscrowTypeOK
  <2> QED
    BY <2>1, <2>2, <2>3 DEF Passed, Signing
<1> QED
  BY <1>2, <1>3, <1>4, <1>5, <1>6
     DEF EscrowNext, SignStep, LoadSome, allVars, escrowVars

\* All who pass have signed, and all who have signed have rows.
LEMMA KeysOfWhoPasses ==
  ASSUME MissInv, [EscrowNext]_allVars, NEW t \in Tasks, t \notin announced,
         t \notin announced'
  PROVE  \/ PassedKeys(t)' \subseteq PassedKeys(t)
         \/ PassedKeys(t)' \subseteq Rows(t) /\ SignatureCount(t) < Threshold
<1>1. EscrowInv /\ PeopleHaveRows
  BY DEF MissInv
<1>2. Passed(t) \subseteq signers[t]
  BY DEF MissInv, Passed, EscrowInv, SignersKnown, Signing
<1>3. CASE Passed(t)' \subseteq Passed(t)
  BY <1>1, <1>2, <1>3, SlotsOfSignersStay DEF PassedKeys
<1>4. CASE Passed(t)' \subseteq signers[t] /\ SignatureCount(t) < Threshold
  BY <1>1, <1>4, SlotsOfSignersStay DEF PassedKeys, PeopleHaveRows, Rows
<1> QED
  BY <1>3, <1>4, WhoPasses

LEMMA MissStep ==
  ASSUME MissInv, [EscrowNext]_allVars
  PROVE  MissInv'
<1>1. EscrowInv /\ EscrowTypeOK
  BY DEF MissInv, EscrowInv
<1>2. EscrowInv' /\ PeopleHaveRows'
  BY <1>1, RowsOfPeopleStay, RelStepEscrow, SignStepEscrow, EscrowInvStutter
     DEF EscrowNext
<1>3. \/ UNCHANGED escrowVars
      \/ \E p \in SignProcs :
           \/ SaveSignature(p) \/ CountSignatures(p) \/ AnnounceThreshold(p)
           \/ FinalizeAndBroadcastPayout(p) \/ AnswerSignature(p) \/ AbandonSign(p)
           \/ LoadSome(p)
  BY DEF EscrowNext, SignStep, LoadSome, allVars
<1>4. \A p \in SignProcs : Signing(p, "finalize")' => signOp'[p].task \in announced'
  <2>1. CASE UNCHANGED escrowVars
    BY <2>1 DEF escrowVars, MissInv, Signing
  <2>2. ASSUME NEW p \in SignProcs,
               \/ SaveSignature(p) \/ CountSignatures(p)
               \/ FinalizeAndBroadcastPayout(p) \/ AnswerSignature(p)
               \/ AbandonSign(p) \/ LoadSome(p)
        PROVE  /\ announced' = announced /\ ~ Signing(p, "finalize")'
               /\ \A q \in SignProcs \ {p} : signOp'[q] = signOp[q]
    BY <1>1, <2>2 DEF SaveSignature, CountSignatures, FinalizeAndBroadcastPayout,
         AnswerSignature, AbandonSign, LoadSome, LoadTrusteeKey, Signing, SignEnter,
         SignFinish, IdleSign, EscrowTypeOK, SignOps
  <2>3. ASSUME NEW p \in SignProcs, AnnounceThreshold(p)
        PROVE  /\ announced' = announced \cup {signOp'[p].task}
               /\ \A q \in SignProcs \ {p} : signOp'[q] = signOp[q]
    BY <1>1, <2>3 DEF AnnounceThreshold, SignEnter, EscrowTypeOK, SignOps
  <2> QED
    BY <1>3, <2>1, <2>2, <2>3 DEF MissInv, Signing
<1>5. ASSUME NEW t \in Tasks, t \notin announced'
      PROVE  /\ IsFiniteSet(PassedKeys(t)') /\ Cardinality(PassedKeys(t)') < Threshold
             /\ answered'[t] \subseteq signers'[t]
  <2>1. t \notin announced
    BY <1>3, <1>5 DEF escrowVars, SaveSignature, CountSignatures, AnnounceThreshold,
         FinalizeAndBroadcastPayout, AnswerSignature, AbandonSign, LoadSome,
         LoadTrusteeKey
  <2>2. IsFiniteSet(PassedKeys(t)') /\ Cardinality(PassedKeys(t)') < Threshold
    <3>1. CASE PassedKeys(t)' \subseteq PassedKeys(t)
      BY <2>1, <3>1, StaysBelow DEF MissInv
    <3>2. CASE PassedKeys(t)' \subseteq Rows(t) /\ SignatureCount(t) < Threshold
      <4>1. IsFiniteSet(Rows(t)) /\ Cardinality(Rows(t)) < Threshold
        BY <1>1, <3>2, RowsCountPeople DEF SignatureCount, Rows
      <4> QED
        BY <3>2, <4>1, StaysBelow
    <3> QED
      BY <1>5, <2>1, <3>1, <3>2, KeysOfWhoPasses
  <2>3. answered[t] \subseteq signers[t] /\ signers[t] \subseteq signers'[t]
    <3>1. signers[t] \subseteq signers'[t]
      BY <1>1, <1>3 DEF escrowVars, SaveSignature, CountSignatures, AnnounceThreshold,
           FinalizeAndBroadcastPayout, AnswerSignature, AbandonSign, LoadSome,
           LoadTrusteeKey, EscrowTypeOK
    <3> QED
      BY <2>1, <3>1 DEF MissInv
  <2>4. answered'[t] \subseteq answered[t] \cup signers'[t]
    <3>1. ASSUME NEW p \in SignProcs, AnswerSignature(p)
          PROVE  answered'[t] \subseteq answered[t] \cup signers'[t]
      BY <1>1, <3>1 DEF AnswerSignature, Signing, EscrowTypeOK, EscrowInv, SignersKnown
    <3> QED
      BY <1>3, <3>1 DEF escrowVars, SaveSignature, CountSignatures,
           AnnounceThreshold, FinalizeAndBroadcastPayout, AbandonSign, LoadSome,
           LoadTrusteeKey
  <2> QED
    BY <2>2, <2>3, <2>4
<1> QED
  BY <1>2, <1>4, <1>5 DEF MissInv

\* However the signing requests save and count, trustees with a threshold of
\* different keys are never all answered without ThresholdReached having been
\* published, for any number of them and however many slots share a key.
THEOREM NoThresholdMissed == EscrowSpec => []ThresholdNotMissed
<1>1. MissInv => ThresholdNotMissed
  <2> SUFFICES ASSUME MissInv, NEW t \in Tasks, t \notin announced,
                      Cardinality(KeysAnswered(t)) >= Threshold
               PROVE  FALSE
    BY DEF ThresholdNotMissed
  <2>1. KeysAnswered(t) \subseteq PassedKeys(t)
    BY DEF KeysAnswered, PassedKeys, Passed
  <2>2. IsFiniteSet(PassedKeys(t)) /\ Cardinality(PassedKeys(t)) < Threshold
    BY DEF MissInv
  <2>3. IsFiniteSet(KeysAnswered(t)) /\ Cardinality(KeysAnswered(t)) < Threshold
    BY <2>1, <2>2, StaysBelow
  <2> QED
    BY <2>3, FS_CardinalityType, EscrowAssumption
<1>2. MissInv /\ [EscrowNext]_allVars => MissInv'
  BY MissStep
<1> QED
  BY <1>1, <1>2, MissInit, PTL DEF EscrowSpec
=============================================================================
