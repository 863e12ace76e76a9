---------------------------- MODULE LedgerProofs ----------------------------
(***************************************************************************)
(* Proofs about the ledger, for every number of writers, tasks, events and *)
(* faults: a check accepts exactly the chains nobody altered, each entry   *)
(* has its event, and the balance of a chain is money that was paid.       *)
(*                                                                         *)
(* The first argument follows the true chain of a task, the hashes of what *)
(* was appended in the order it was, and the place in it that each         *)
(* remaining row has.  Rows keep their hashes, and a removed row leaves a  *)
(* gap.  The second maps entries, and calls on their way to one, to the    *)
(* events they are for; the third counts the satoshis of a sum.  Last come *)
(* the holder of the mutex and the steps a call still has to make.         *)
(***************************************************************************)
EXTENDS Ledger, FiniteSetTheorems, WellFoundedInduction, TLAPS

-----------------------------------------------------------------------------
(* The inductive invariant.                                                *)

\* The hashes 0, 1, ... of the payloads in `said`, no two of them equal.
IsChain(t, said, h) ==
  /\ h[0] = NoHash
  /\ \A n \in 1..Len(said) : h[n] = CalculateRowHMAC(t, said[n], h[n - 1])
  /\ \A m, n \in 0..Len(said) : h[m] = h[n] => m = n

\* Row i of `entries` carries hash at[i].  Places grow, at least as fast as
\* rows, and the last row carries the last hash.
Placed(entries, last, h, at) ==
  /\ \A i \in 1..Len(entries) :
       /\ at[i] \in i..last
       /\ entries[i].hmac = h[at[i]]
       /\ \A j \in 1..i : at[i] - at[j] >= i - j
  /\ entries # <<>> => at[Len(entries)] = last
  /\ entries = <<>> => last = 0

\* No row is missing in front of row i.
Adjacent(at, i) == at[i] = 1 + IF i = 1 THEN 0 ELSE at[i - 1]

\* Either no row was removed, or it shows somewhere.
GapsShow(entries, last, at) ==
  Len(entries) = last \/ \E i \in 1..Len(entries) : ~ Adjacent(at, i)

\* A row is a record of a payload and two hashes of the chain.
RowsOf(last, h) ==
  LET hashes == {h[n] : n \in 0..last}
  IN  [payload : Payloads, previous : hashes, hmac : hashes]

Follows(t, entries, said) ==
  \E h, at :
    /\ entries \in Seq(RowsOf(Len(said), h))
    /\ IsChain(t, said, h)
    /\ Placed(entries, Len(said), h, at)
    /\ GapsShow(entries, Len(said), at)

ChainsFollow == \A t \in Tasks : Follows(t, rows[t], appended[t])

Stages == {"idle", "lock", "last", "append", "publish"}

\* Past Lock, before the unlock.
Holding(c) == c.stage \in {"last", "append", "publish"}

\* Whoever is past Lock holds the mutex, and what it read last is still last.
HolderReads ==
  \A w \in Writers :
    /\ Holding(call[w]) => mu = w
    /\ call[w].stage = "append" => call[w].previous = LastHash(call[w].task)

IsCall(c) ==
  c = [stage |-> c.stage, task |-> c.task, payload |-> c.payload,
       previous |-> c.previous, left |-> c.left]

CallTyped(c) ==
  /\ c.stage \in Stages
  /\ c.stage # "idle" => /\ c.task \in Tasks
                         /\ c.payload \in Payloads
                         /\ c.left \in Nat \ {0}

Shaped ==
  /\ call = [w \in Writers |-> call[w]] /\ \A w \in Writers : IsCall(call[w])
  /\ rows = [t \in Tasks |-> rows[t]] /\ appended = [t \in Tasks |-> appended[t]]

LedgerInv == TypeOK /\ Shaped /\ HolderReads /\ ChainsFollow

-----------------------------------------------------------------------------
(* What follows from a chain and the places of its rows.                   *)

\* An HMAC is what was hashed.
LEMMA HashesAreInjective ==
  ASSUME NEW t, NEW p, NEW a, NEW q, NEW b,
         CalculateRowHMAC(t, p, a) = CalculateRowHMAC(t, q, b)
  PROVE  p = q /\ a = b
  BY DEF CalculateRowHMAC

LEMMA NoHashIsNoHMAC == \A t, p, a : NoHash # CalculateRowHMAC(t, p, a)
<1> SUFFICES ASSUME NEW t, NEW p, NEW a, <<>> = <<t, p, a>> PROVE FALSE
  BY DEF NoHash, CalculateRowHMAC
<1>1. Len(<<>>) = 0 /\ Len(<<t, p, a>>) = 3
  OBVIOUS
<1> QED BY <1>1

\* As many rows as were appended are the rows that were appended.
LEMMA FullMeansInPlace ==
  ASSUME NEW entries, NEW last \in Nat, NEW h, NEW at,
         Len(entries) \in Nat, Placed(entries, last, h, at), Len(entries) = last,
         NEW i \in 1..Len(entries)
  PROVE  at[i] = i
<1>1. (Len(entries) \in 1..Len(entries) /\ entries # <<>>) \/ entries = <<>>
  BY SMT
<1>2. CASE entries = <<>>
  BY <1>2
<1>3. CASE entries # <<>>
  <2>1. at[last] = last /\ i \in 1..last /\ last \in 1..last
    BY <1>3 DEF Placed
  <2>2. at[last] - at[i] >= last - i /\ at[i] \in i..last
    BY <2>1 DEF Placed
  <2> QED BY <2>1, <2>2
<1> QED BY <1>2, <1>3

\* Accepting a chain leaves no gap in it.
LEMMA AcceptedIsAdjacent ==
  ASSUME NEW t, NEW entries, NEW said, NEW h, NEW at,
         entries \in Seq(RowsOf(Len(said), h)), Len(said) \in Nat,
         IsChain(t, said, h), Placed(entries, Len(said), h, at),
         VerifyEntireChainIntegrity(t, entries),
         NEW i \in 1..Len(entries)
  PROVE  Adjacent(at, i) /\ entries[i].payload = said[at[i]]
<1> DEFINE before == IF i = 1 THEN 0 ELSE at[i - 1]
           prev == IF i = 1 THEN NoHash ELSE entries[i - 1].hmac
<1>1. Len(entries) \in Nat /\ DOMAIN entries = 1..Len(entries)
  OBVIOUS
<1>2. at[i] \in 1..Len(said) /\ entries[i].hmac = h[at[i]]
  BY <1>1 DEF Placed
<1>3. before \in 0..Len(said) /\ prev = h[before]
  <2>1. CASE i = 1
    BY <2>1 DEF IsChain
  <2>2. CASE i # 1
    <3>1. i - 1 \in 1..Len(entries)
      BY <2>2, <1>1
    <3> QED BY <3>1, <2>2 DEF Placed
  <2> QED BY <2>1, <2>2
<1>4. entries[i].hmac = CalculateRowHMAC(t, entries[i].payload, prev)
  BY <1>1 DEF VerifyEntireChainIntegrity
<1>5. h[at[i]] = CalculateRowHMAC(t, said[at[i]], h[at[i] - 1])
  BY <1>2 DEF IsChain
<1>6. entries[i].payload = said[at[i]] /\ prev = h[at[i] - 1]
  <2> HIDE DEF prev
  <2>1. CalculateRowHMAC(t, entries[i].payload, prev)
          = CalculateRowHMAC(t, said[at[i]], h[at[i] - 1])
    BY <1>2, <1>4, <1>5
  <2> QED BY <2>1, HashesAreInjective
<1>7. at[i] - 1 \in 0..Len(said)
  BY <1>2
<1>8. before = at[i] - 1
  BY <1>3, <1>6, <1>7 DEF IsChain
<1> QED BY <1>2, <1>3, <1>6, <1>8 DEF Adjacent

\* Untouched rows are accepted.
LEMMA FollowsNoFalseAlarm ==
  ASSUME NEW t, NEW entries, NEW said \in Seq(Payloads), Follows(t, entries, said),
         Payload(entries) = said
  PROVE  VerifyEntireChainIntegrity(t, entries)
<1>1. PICK h, at :
        /\ entries \in Seq(RowsOf(Len(said), h))
        /\ IsChain(t, said, h)
        /\ Placed(entries, Len(said), h, at)
  BY DEF Follows
<1>2. Len(entries) = Len(said) /\ Len(said) \in Nat /\ DOMAIN entries = 1..Len(entries)
  BY <1>1 DEF Payload
<1>3. \A i \in 1..Len(entries) : at[i] = i
  BY <1>1, <1>2, FullMeansInPlace
<1> SUFFICES ASSUME NEW i \in DOMAIN entries
             PROVE  entries[i].hmac =
                      CalculateRowHMAC(t, entries[i].payload,
                        IF i = 1 THEN NoHash ELSE entries[i - 1].hmac)
  BY DEF VerifyEntireChainIntegrity
<1>4. entries[i].hmac = h[i] /\ i \in 1..Len(said)
  BY <1>1, <1>2, <1>3 DEF Placed
<1>5. entries[i].payload = said[i]
  BY <1>2 DEF Payload
<1>6. (IF i = 1 THEN NoHash ELSE entries[i - 1].hmac) = h[i - 1]
  <2>1. CASE i = 1
    BY <2>1, <1>1 DEF IsChain
  <2>2. CASE i # 1
    <3>1. i - 1 \in 1..Len(entries)
      BY <2>2, <1>2
    <3>2. entries[i - 1].hmac = h[at[i - 1]]
      BY <3>1, <1>1 DEF Placed
    <3> QED BY <3>1, <3>2, <2>2, <1>3
  <2> QED BY <2>1, <2>2
<1>7. h[i] = CalculateRowHMAC(t, said[i], h[i - 1])
  BY <1>4, <1>1 DEF IsChain
<1> QED BY <1>4, <1>5, <1>6, <1>7

\* Accepted rows are the rows that were appended, all of them and in order.
LEMMA FollowsAccepted ==
  ASSUME NEW t, NEW entries, NEW said \in Seq(Payloads), Follows(t, entries, said),
         VerifyEntireChainIntegrity(t, entries)
  PROVE  Payload(entries) = said
<1>1. PICK h, at :
        /\ entries \in Seq(RowsOf(Len(said), h))
        /\ IsChain(t, said, h)
        /\ Placed(entries, Len(said), h, at)
        /\ GapsShow(entries, Len(said), at)
  BY DEF Follows
<1>2. Len(said) \in Nat /\ Len(entries) \in Nat /\ DOMAIN entries = 1..Len(entries)
  BY <1>1
<1>3. \A i \in 1..Len(entries) :
        Adjacent(at, i) /\ entries[i].payload = said[at[i]]
  BY <1>1, <1>2, AcceptedIsAdjacent
<1>4. Len(entries) = Len(said)
  BY <1>1, <1>3 DEF GapsShow
<1>5. \A i \in 1..Len(entries) : at[i] = i
  BY <1>1, <1>2, <1>4, FullMeansInPlace
<1>6. \A i \in 1..Len(entries) : entries[i].payload = said[i]
  BY <1>3, <1>5
<1> QED BY <1>2, <1>4, <1>6 DEF Payload

-----------------------------------------------------------------------------
(* What the writes do to a chain and to the places of its rows.            *)

\* The hash that a new row is chained to is the last of the chain.
LEMMA LastIsLast ==
  ASSUME NEW t, NEW entries, NEW last \in Nat, NEW h, NEW at,
         Len(entries) \in Nat, entries # <<>> => Len(entries) # 0,
         h[0] = NoHash, Placed(entries, last, h, at)
  PROVE  /\ (IF entries = <<>> THEN NoHash ELSE entries[Len(entries)].hmac) = h[last]
         /\ Len(entries) <= last \/ entries = <<>>
<1>1. CASE entries = <<>>
  BY <1>1 DEF Placed
<1>2. CASE entries # <<>>
  <2>1. Len(entries) \in 1..Len(entries)
    BY <1>2
  <2>2. at[Len(entries)] = last /\ at[Len(entries)] \in Len(entries)..last
    BY <1>2, <2>1 DEF Placed
  <2>3. entries[Len(entries)].hmac = h[last]
    BY <2>1, <2>2 DEF Placed
  <2> QED BY <1>2, <2>2, <2>3
<1> QED BY <1>1, <1>2

\* One more hash, of the one before it, repeats none.
LEMMA ChainExtends ==
  ASSUME NEW t, NEW said \in Seq(Payloads), NEW p \in Payloads, NEW h,
         IsChain(t, said, h)
  PROVE  LET last == Len(said)
             longer == [n \in 0..last + 1 |->
                          IF n <= last THEN h[n] ELSE CalculateRowHMAC(t, p, h[last])]
         IN  IsChain(t, Append(said, p), longer)
<1> DEFINE last == Len(said)
           longer == [n \in 0..last + 1 |->
                        IF n <= last THEN h[n] ELSE CalculateRowHMAC(t, p, h[last])]
           more == Append(said, p)
<1>1. last \in Nat /\ Len(more) = last + 1
  OBVIOUS
<1>2. \A n \in 1..last : more[n] = said[n]
  OBVIOUS
<1>3. more[last + 1] = p
  OBVIOUS
<1>4. \A n \in 0..last : longer[n] = h[n]
  BY <1>1
<1>5. longer[last + 1] = CalculateRowHMAC(t, p, h[last])
  BY <1>1
<1> HIDE DEF longer, more, last
<1>6. longer[0] = NoHash
  BY <1>1, <1>4 DEF IsChain
<1>7. \A n \in 1..Len(said) : h[n] = CalculateRowHMAC(t, said[n], h[n - 1])
  BY DEF IsChain
<1>8. ASSUME NEW n \in 1..Len(more)
      PROVE  longer[n] = CalculateRowHMAC(t, more[n], longer[n - 1])
  <2>1. CASE n = last + 1
    <3>1. longer[n - 1] = h[last]
      BY <2>1, <1>1, <1>4
    <3> QED BY <2>1, <3>1, <1>3, <1>5
  <2>2. CASE n # last + 1
    <3>1. n \in 1..last /\ n \in 0..last /\ n - 1 \in 0..last
      BY <2>2, <1>1
    <3>2. longer[n] = h[n] /\ longer[n - 1] = h[n - 1] /\ more[n] = said[n]
      BY <3>1, <1>2, <1>4
    <3>3. h[n] = CalculateRowHMAC(t, said[n], h[n - 1])
      BY <3>1, <1>7 DEF last
    <3> QED BY <3>2, <3>3
  <2> QED BY <2>1, <2>2
<1>9. \A m, n \in 0..last : h[m] = h[n] => m = n
  BY DEF IsChain, last
<1>10. ASSUME NEW m \in 0..last PROVE longer[m] # longer[last + 1]
  <2> SUFFICES ASSUME h[m] = CalculateRowHMAC(t, p, h[last]) PROVE FALSE
    BY <1>4, <1>5
  <2>1. CASE m = 0
    BY <2>1, NoHashIsNoHMAC DEF IsChain
  <2>2. CASE m # 0
    <3>1. m \in 1..last /\ m - 1 \in 0..last /\ last \in 0..last /\ m - 1 # last
      BY <2>2, <1>1
    <3>2. h[m] = CalculateRowHMAC(t, said[m], h[m - 1])
      BY <3>1, <1>7 DEF last
    <3>3. CalculateRowHMAC(t, said[m], h[m - 1]) = CalculateRowHMAC(t, p, h[last])
      BY <3>2
    <3>4. h[m - 1] = h[last]
      BY <3>3, HashesAreInjective
    <3> QED BY <3>1, <3>4, <1>9
  <2> QED BY <2>1, <2>2
<1>11. ASSUME NEW m \in 0..Len(more), NEW n \in 0..Len(more), longer[m] = longer[n]
       PROVE  m = n
  <2>1. CASE m = last + 1 /\ n = last + 1
    BY <2>1
  <2>2. CASE m = last + 1 /\ n # last + 1
    <3>1. n \in 0..last
      BY <2>2, <1>1
    <3> QED BY <3>1, <2>2, <1>10, <1>11
  <2>3. CASE m # last + 1 /\ n = last + 1
    <3>1. m \in 0..last
      BY <2>3, <1>1
    <3> QED BY <3>1, <2>3, <1>10, <1>11
  <2>4. CASE m # last + 1 /\ n # last + 1
    <3>1. m \in 0..last /\ n \in 0..last
      BY <2>4, <1>1
    <3> QED BY <3>1, <1>4, <1>9, <1>11
  <2> QED BY <2>1, <2>2, <2>3, <2>4
<1>12. IsChain(t, more, longer)
  BY <1>6, <1>8, <1>11 DEF IsChain
<1> QED BY <1>12 DEF longer, more, last

\* A row of the next hash takes the next place.
LEMMA PlacedExtends ==
  ASSUME NEW S, NEW entries \in Seq(S), NEW row, NEW last \in Nat, NEW h, NEW longer,
         NEW at,
         Placed(entries, last, h, at),
         \A n \in 0..last : longer[n] = h[n],
         row.hmac = longer[last + 1]
  PROVE  LET next == [i \in 1..Len(entries) + 1 |->
                        IF i <= Len(entries) THEN at[i] ELSE last + 1]
         IN  Placed(Append(entries, row), last + 1, longer, next)
<1> DEFINE len == Len(entries)
           next == [i \in 1..Len(entries) + 1 |->
                      IF i <= Len(entries) THEN at[i] ELSE last + 1]
           more == Append(entries, row)
<1>1. len \in Nat /\ Len(more) = len + 1 /\ more # <<>>
  <2>1. len \in Nat /\ Len(more) = len + 1
    OBVIOUS
  <2>2. Len(<<>>) = 0 /\ Len(more) # 0
    BY <2>1
  <2> QED BY <2>1, <2>2
<1>2. (\A i \in 1..len : more[i] = entries[i]) /\ more[len + 1] = row
  OBVIOUS
<1>3. (\A i \in 1..len : next[i] = at[i]) /\ next[len + 1] = last + 1
  OBVIOUS
<1>4. \A i \in 1..len : /\ at[i] \in i..last
                        /\ entries[i].hmac = h[at[i]]
                        /\ \A j \in 1..i : at[i] - at[j] >= i - j
  BY DEF Placed
<1>5. IF entries = <<>> THEN last = 0 /\ len = 0 ELSE len \in 1..len /\ at[len] = last
  <2>1. CASE entries = <<>>
    BY <2>1 DEF Placed
  <2>2. CASE entries # <<>>
    <3>1. len # 0
      BY <2>2
    <3>2. at[len] = last
      BY <2>2 DEF Placed
    <3> QED BY <2>2, <3>1, <3>2, <1>1
  <2> QED BY <2>1, <2>2
<1> HIDE DEF next, more, len
<1>6. ASSUME NEW i \in 1..len + 1
      PROVE  /\ next[i] \in i..last + 1
             /\ more[i].hmac = longer[next[i]]
             /\ \A j \in 1..i : next[i] - next[j] >= i - j
  <2>1. CASE i \in 1..len
    <3>1. at[i] \in i..last /\ at[i] \in 0..last
      BY <2>1, <1>4
    <3>2. \A j \in 1..i : j \in 1..len
      BY <2>1, <1>1
    <3>3. \A j \in 1..i : next[i] - next[j] >= i - j
      BY <2>1, <3>2, <1>3, <1>4
    <3>4. more[i].hmac = longer[next[i]]
      BY <2>1, <3>1, <1>2, <1>3, <1>4
    <3> QED BY <2>1, <3>1, <3>3, <3>4, <1>3
  <2>2. CASE i = len + 1
    <3>1. len <= last
      <4>1. CASE entries = <<>>
        BY <4>1, <1>5, <1>1
      <4>2. CASE entries # <<>>
        <5>1. len \in 1..len /\ at[len] = last
          BY <4>2, <1>5
        <5> QED BY <5>1, <1>1, <1>4
      <4> QED BY <4>1, <4>2
    <3>2. ASSUME NEW j \in 1..i PROVE next[i] - next[j] >= i - j
      <4>1. CASE j = i
        BY <4>1, <2>2, <1>3
      <4>2. CASE j # i
        <5>1. j \in 1..len /\ entries # <<>>
          BY <4>2, <2>2, <1>1, <1>5
        <5>2. len \in 1..len /\ at[len] = last /\ next[j] = at[j] /\ at[j] \in j..last
          BY <5>1, <1>3, <1>4, <1>5
        <5>3. last - at[j] >= len - j
          BY <5>1, <5>2, <1>4
        <5> QED BY <5>2, <5>3, <2>2, <1>1, <1>3
      <4> QED BY <4>1, <4>2
    <3> QED BY <2>2, <3>1, <3>2, <1>1, <1>2, <1>3
  <2> QED BY <2>1, <2>2, <1>1
<1>7. Placed(more, last + 1, longer, next)
  BY <1>1, <1>3, <1>6 DEF Placed
<1> QED BY <1>7 DEF next, more, len

\* AppendEntry, by whoever read the last hash.
LEMMA AppendFollows ==
  ASSUME NEW t, NEW entries, NEW said \in Seq(Payloads), NEW p \in Payloads, NEW prev,
         Follows(t, entries, said),
         prev = IF entries = <<>> THEN NoHash ELSE entries[Len(entries)].hmac
  PROVE  Follows(t, Append(entries, NewEntry(t, p, prev)), Append(said, p))
<1>1. PICK h, at :
        /\ entries \in Seq(RowsOf(Len(said), h))
        /\ IsChain(t, said, h)
        /\ Placed(entries, Len(said), h, at)
        /\ GapsShow(entries, Len(said), at)
  BY DEF Follows
<1> DEFINE last == Len(said)
           len == Len(entries)
           row == NewEntry(t, p, prev)
           more == Append(entries, row)
           longer == [n \in 0..last + 1 |->
                        IF n <= last THEN h[n] ELSE CalculateRowHMAC(t, p, h[last])]
           next == [i \in 1..len + 1 |-> IF i <= len THEN at[i] ELSE last + 1]
<1>2. last \in Nat /\ len \in Nat /\ Len(Append(said, p)) = last + 1
  BY <1>1
<1>3. prev = h[last]
  <2>1. entries # <<>> => len # 0
    BY <1>1
  <2>2. h[0] = NoHash
    BY <1>1 DEF IsChain
  <2> QED BY <1>1, <1>2, <2>1, <2>2, LastIsLast
<1>4. /\ \A n \in 0..last : longer[n] = h[n]
      /\ longer[last + 1] = CalculateRowHMAC(t, p, h[last])
  BY <1>2
<1>5. row = [payload |-> p, previous |-> h[last], hmac |-> longer[last + 1]]
  BY <1>3, <1>4 DEF NewEntry
<1>6. IsChain(t, Append(said, p), longer)
  BY <1>1, ChainExtends
<1>7. row.hmac = longer[last + 1]
  BY <1>5
<1>8. Placed(more, last + 1, longer, next)
  <2> HIDE DEF row, longer
  <2> QED BY <1>1, <1>2, <1>4, <1>7, PlacedExtends
<1>9. more \in Seq(RowsOf(last + 1, longer))
  <2> HIDE DEF row, longer
  <2>1. \A n \in 0..last : n \in 0..last + 1 /\ longer[n] = h[n]
    BY <1>2, <1>4
  <2>2. {h[n] : n \in 0..last} \subseteq {longer[n] : n \in 0..last + 1}
    BY <2>1
  <2>3. RowsOf(last, h) \subseteq RowsOf(last + 1, longer)
    BY <2>2 DEF RowsOf
  <2>4. last \in 0..last /\ last + 1 \in 0..last + 1
    BY <1>2
  <2>5. h[last] \in {longer[n] : n \in 0..last + 1}
        /\ longer[last + 1] \in {longer[n] : n \in 0..last + 1}
    BY <2>1, <2>2, <2>4
  <2>6. row \in RowsOf(last + 1, longer)
    BY <2>5, <1>5 DEF RowsOf
  <2>7. entries \in Seq(RowsOf(last + 1, longer))
    BY <1>1, <2>3
  <2> QED BY <2>6, <2>7
<1>10. GapsShow(more, last + 1, next)
  <2>1. Len(more) = len + 1
    BY <1>1
  <2>2. CASE len = last
    BY <2>1, <2>2 DEF GapsShow
  <2>3. CASE len # last
    <3>1. PICK i \in 1..len : ~ Adjacent(at, i)
      BY <2>3, <1>1 DEF GapsShow
    <3>2. i \in 1..len + 1 /\ next[i] = at[i]
      BY <1>2
    <3>3. i # 1 => next[i - 1] = at[i - 1]
      BY <1>2
    <3>4. ~ Adjacent(next, i)
      BY <3>1, <3>2, <3>3 DEF Adjacent
    <3> QED BY <3>2, <3>4, <2>1 DEF GapsShow
  <2> QED BY <2>2, <2>3
<1>11. Follows(t, more, Append(said, p))
  <2> HIDE DEF next, longer, row, more, last
  <2> QED BY <1>2, <1>6, <1>8, <1>9, <1>10 DEF Follows
<1> QED BY <1>11

\* EditRow: the hashes of the rows stay.
LEMMA EditFollows ==
  ASSUME NEW t, NEW entries, NEW said \in Seq(Payloads), NEW p \in Payloads,
         Follows(t, entries, said), NEW i \in DOMAIN entries
  PROVE  Follows(t, [entries EXCEPT ![i].payload = p], said)
<1>1. PICK h, at :
        /\ entries \in Seq(RowsOf(Len(said), h))
        /\ IsChain(t, said, h)
        /\ Placed(entries, Len(said), h, at)
        /\ GapsShow(entries, Len(said), at)
  BY DEF Follows
<1> DEFINE new == [entries EXCEPT ![i].payload = p]
           S == RowsOf(Len(said), h)
<1>2. entries[i] \in S /\ [entries[i] EXCEPT !.payload = p] \in S
      /\ [entries[i] EXCEPT !.payload = p].hmac = entries[i].hmac
  <2>1. entries[i] \in S
    <3> HIDE DEF S
    <3>1. entries \in Seq(S)
      BY <1>1 DEF S
    <3> QED BY <3>1
  <2> QED BY <2>1 DEF RowsOf
<1>3. new = [entries EXCEPT ![i] = [entries[i] EXCEPT !.payload = p]]
  OBVIOUS
<1>4. new \in Seq(S) /\ Len(new) = Len(entries)
  <2> HIDE DEF S
  <2> QED BY <1>1, <1>2, <1>3 DEF S
<1>5. \A j \in 1..Len(entries) : new[j].hmac = entries[j].hmac
  BY <1>1, <1>2, <1>3
<1>6. new = <<>> <=> entries = <<>>
  BY <1>1, <1>4
<1>7. Placed(new, Len(said), h, at) /\ GapsShow(new, Len(said), at)
  BY <1>1, <1>4, <1>5, <1>6 DEF Placed, GapsShow
<1> QED BY <1>1, <1>4, <1>7 DEF Follows

LEMMA RowOfBoth ==
  ASSUME NEW S, NEW a \in Seq(S), NEW b \in Seq(S), NEW j \in 1..Len(a) + Len(b)
  PROVE  (a \o b)[j] = IF j <= Len(a) THEN a[j] ELSE b[j - Len(a)]
  OBVIOUS

\* DeleteRow: the rows behind move up and keep their places in the chain.
LEMMA DeleteFollows ==
  ASSUME NEW t, NEW entries, NEW said \in Seq(Payloads),
         Follows(t, entries, said), NEW i \in DOMAIN entries, i < Len(entries)
  PROVE  Follows(t, SubSeq(entries, 1, i - 1) \o SubSeq(entries, i + 1, Len(entries)),
                 said)
<1>1. PICK h, at :
        /\ entries \in Seq(RowsOf(Len(said), h))
        /\ IsChain(t, said, h)
        /\ Placed(entries, Len(said), h, at)
        /\ GapsShow(entries, Len(said), at)
  BY DEF Follows
<1> DEFINE S == RowsOf(Len(said), h)
           last == Len(said)
           len == Len(entries)
           front == SubSeq(entries, 1, i - 1)
           back == SubSeq(entries, i + 1, len)
           new == front \o back
           next == [j \in 1..len - 1 |-> IF j < i THEN at[j] ELSE at[j + 1]]
<1>2. len \in Nat /\ last \in Nat /\ i \in 1..len - 1
  BY <1>1
<1>3. /\ front \in Seq(S) /\ Len(front) = i - 1
      /\ back \in Seq(S) /\ Len(back) = len - i
  <2> HIDE DEF S
  <2>1. entries \in Seq(S)
    BY <1>1 DEF S
  <2> QED BY <2>1, <1>2
<1>4. /\ \A j \in 1..i - 1 : front[j] = entries[j]
      /\ \A j \in 1..len - i : back[j] = entries[j + i]
  <2> HIDE DEF S
  <2>1. entries \in Seq(S)
    BY <1>1 DEF S
  <2> QED BY <2>1, <1>2
<1>5. new \in Seq(S) /\ Len(new) = len - 1
  <2> HIDE DEF S, front, back
  <2> QED BY <1>2, <1>3
<1>6. \A j \in 1..len - 1 : new[j] = IF j < i THEN entries[j] ELSE entries[j + 1]
  <2> SUFFICES ASSUME NEW j \in 1..len - 1
               PROVE  new[j] = IF j < i THEN entries[j] ELSE entries[j + 1]
    OBVIOUS
  <2> HIDE DEF S, front, back
  <2>1. new[j] = IF j <= Len(front) THEN front[j] ELSE back[j - Len(front)]
    <3>1. j \in 1..Len(front) + Len(back)
      BY <1>2, <1>3
    <3> QED BY <3>1, <1>3, RowOfBoth
  <2>2. CASE j < i
    BY <2>1, <2>2, <1>2, <1>3, <1>4
  <2>3. CASE ~ j < i
    <3>1. j - (i - 1) \in 1..len - i /\ j - (i - 1) + i = j + 1
      BY <2>3, <1>2
    <3>2. new[j] = back[j - (i - 1)]
      BY <2>1, <2>3, <1>2, <1>3
    <3>3. back[j - (i - 1)] = entries[j - (i - 1) + i]
      BY <3>1, <1>4
    <3> QED BY <2>3, <3>1, <3>2, <3>3
  <2> QED BY <2>2, <2>3
<1>7. \A j \in 1..len : /\ at[j] \in j..last
                        /\ entries[j].hmac = h[at[j]]
                        /\ \A k \in 1..j : at[j] - at[k] >= j - k
  BY <1>1 DEF Placed
<1>8. at[len] = last
  <2>1. entries # <<>>
    BY <1>1, <1>2
  <2> QED BY <1>1, <2>1 DEF Placed
<1>9. \A j \in 1..len - 1 : /\ j \in 1..len /\ j + 1 \in 1..len
                            /\ next[j] = IF j < i THEN at[j] ELSE at[j + 1]
  BY <1>2
<1> HIDE DEF new, next, S, front, back
<1>10. ASSUME NEW j \in 1..len - 1
       PROVE  /\ next[j] \in j..last
              /\ new[j].hmac = h[next[j]]
              /\ \A k \in 1..j : next[j] - next[k] >= j - k
  <2>1. CASE j < i
    <3>1. at[j] \in j..last /\ entries[j].hmac = h[at[j]]
      BY <1>7, <1>9
    <3>2. ASSUME NEW k \in 1..j PROVE next[j] - next[k] >= j - k
      <4>1. k \in 1..len - 1 /\ k < i
        BY <2>1, <1>2
      <4> QED BY <2>1, <4>1, <1>7, <1>9
    <3> QED BY <2>1, <3>1, <3>2, <1>6, <1>9
  <2>2. CASE ~ j < i
    <3>1. at[j + 1] \in j + 1..last /\ entries[j + 1].hmac = h[at[j + 1]]
      BY <1>7, <1>9
    <3>2. ASSUME NEW k \in 1..j PROVE next[j] - next[k] >= j - k
      <4>1. k \in 1..len - 1 /\ k \in 1..j + 1 /\ k + 1 \in 1..j + 1
        BY <1>2
      <4>2. /\ at[j + 1] - at[k] >= j + 1 - k
            /\ at[j + 1] - at[k + 1] >= (j + 1) - (k + 1)
        <5>1. \A m \in 1..j + 1 : at[j + 1] - at[m] >= (j + 1) - m
          BY <1>7, <1>9
        <5> QED BY <5>1, <4>1
      <4>3. at[j + 1] \in Int /\ at[k] \in Int /\ at[k + 1] \in Int
        BY <4>1, <1>2, <1>7, <1>9
      <4>4. next[j] = at[j + 1]
        BY <2>2, <1>9
      <4>5. next[k] = at[k] \/ next[k] = at[k + 1]
        BY <4>1, <1>9
      <4> QED BY <4>1, <4>2, <4>3, <4>4, <4>5, <1>2
    <3> QED BY <2>2, <3>1, <3>2, <1>2, <1>6, <1>9
  <2> QED BY <2>1, <2>2
<1>11. new # <<>> /\ next[len - 1] = last
  <2>1. new # <<>>
    BY <1>2, <1>5
  <2> QED BY <2>1, <1>2, <1>8, <1>9
<1>12. Placed(new, last, h, next)
  BY <1>5, <1>10, <1>11 DEF Placed
<1>13. ~ Adjacent(next, i)
  <2>1. next[i] = at[i + 1] /\ i + 1 \in 1..len
    BY <1>2, <1>9
  <2>2. CASE i = 1
    <3>1. at[2] \in 2..last
      BY <2>1, <2>2, <1>7
    <3> QED BY <2>1, <2>2, <3>1 DEF Adjacent
  <2>3. CASE i # 1
    <3>1. i - 1 \in 1..len - 1 /\ i - 1 \in 1..len /\ i - 1 \in 1..i + 1
      BY <2>3, <1>2
    <3>2. next[i - 1] = at[i - 1]
      BY <3>1, <1>9, <1>2
    <3>3. at[i + 1] - at[i - 1] >= (i + 1) - (i - 1)
      <4>1. \A m \in 1..i + 1 : at[i + 1] - at[m] >= (i + 1) - m
        BY <2>1, <1>7
      <4> QED BY <4>1, <3>1
    <3>4. at[i + 1] \in Int /\ at[i - 1] \in Int
      <4>1. at[i + 1] \in i + 1..last /\ at[i - 1] \in i - 1..last
        BY <2>1, <3>1, <1>7
      <4> QED BY <4>1, <1>2
    <3> QED BY <2>1, <2>3, <3>2, <3>3, <3>4 DEF Adjacent
  <2> QED BY <2>2, <2>3
<1>14. GapsShow(new, last, next)
  BY <1>2, <1>5, <1>13 DEF GapsShow
<1>15. new \in Seq(RowsOf(Len(said), h))
  BY <1>5 DEF S
<1>16. Follows(t, new, said)
  BY <1>1, <1>12, <1>14, <1>15 DEF Follows
<1> QED BY <1>16 DEF new, front, back

-----------------------------------------------------------------------------
(* What a step does to the calls.                                          *)

CallsTyped == \A w \in Writers : CallTyped(call[w])

\* The call of w becomes c.
Turns(w, c) == call' = [call EXCEPT ![w] = c] /\ IsCall(c)

LEMMA TypesOfCalls == TypeOK => CallsTyped
  BY DEF TypeOK, CallsTyped, CallTyped, Stages

LEMMA TurnShape ==
  ASSUME Shaped, NEW w \in Writers, NEW c, Turns(w, c)
  PROVE  /\ call' = [v \in Writers |-> call'[v]]
         /\ \A v \in Writers : IsCall(call'[v])
         /\ call'[w] = c
         /\ \A v \in Writers : v # w => call'[v] = call[v]
<1>1. call = [v \in Writers |-> call[v]] /\ \A v \in Writers : IsCall(call[v])
  BY DEF Shaped
<1>2. call' = [call EXCEPT ![w] = c] /\ IsCall(c)
  BY DEF Turns
<1>3. call' = [v \in Writers |-> IF v = w THEN c ELSE call[v]]
  BY <1>1, <1>2
<1>4. call'[w] = c /\ \A v \in Writers : v # w => call'[v] = call[v]
  BY <1>3
<1>5. call' = [v \in Writers |-> call'[v]]
  BY <1>3
<1>6. \A v \in Writers : IsCall(call'[v])
  BY <1>1, <1>2, <1>4
<1> QED BY <1>4, <1>5, <1>6

\* A call that turns into another of the right kind, while no other call is
\* past Lock but by the mutex, keeps what is known of calls.
LEMMA TurnKeeps ==
  ASSUME TypeOK, Shaped, HolderReads, NEW w \in Writers, NEW c, Turns(w, c),
         CallTyped(c), Holding(c) => mu' = w,
         c.stage = "append" => c.previous = LastHash(c.task)',
         \A v \in Writers : v # w /\ Holding(call[v]) =>
           /\ mu' = v
           /\ \A t \in Tasks : LastHash(t)' = LastHash(t)
  PROVE  CallsTyped' /\ HolderReads'
<1>1. call'[w] = c /\ \A v \in Writers : v # w => call'[v] = call[v]
  BY TurnShape
<1>2. CallsTyped
  BY TypesOfCalls
<1>3. ASSUME NEW v \in Writers
      PROVE  /\ CallTyped(call[v])'
             /\ Holding(call[v])' => mu' = v
             /\ (call[v].stage = "append" => call[v].previous = LastHash(call[v].task))'
  <2>1. CASE v = w
    <3>1. call'[v] = c
      BY <2>1, <1>1
    <3> QED BY <2>1, <3>1 DEF CallTyped, Holding, LastHash
  <2>2. CASE v # w
    <3>1. call'[v] = call[v]
      BY <2>2, <1>1
    <3>2. CallTyped(call[v])'
      BY <3>1, <1>2 DEF CallsTyped, CallTyped
    <3>3. Holding(call[v])' => mu' = v
      BY <2>2, <3>1 DEF Holding
    <3>4. ASSUME call[v].stage = "append"
          PROVE  call[v].previous = LastHash(call[v].task)'
      <4>1. Holding(call[v]) /\ call[v].previous = LastHash(call[v].task)
        BY <3>4 DEF HolderReads, Holding
      <4>2. call[v].task \in Tasks
        BY <3>4, <1>2 DEF CallsTyped, CallTyped
      <4>3. PICK t \in Tasks : t = call[v].task
        BY <4>2
      <4>4. LastHash(t)' = LastHash(t)
        BY <2>2, <4>1
      <4>5. call[v].previous = LastHash(t)'
        BY <4>1, <4>3, <4>4
      <4> QED BY <4>3, <4>5, <3>1 DEF LastHash
    <3>5. (call[v].stage = "append" => call[v].previous = LastHash(call[v].task))'
      BY <3>1, <3>4
    <3> QED BY <3>2, <3>3, <3>5
  <2> QED BY <2>1, <2>2
<1>4. CallsTyped'
  BY <1>3 DEF CallsTyped
<1>5. HolderReads'
  BY <1>3 DEF HolderReads
<1> QED BY <1>4, <1>5

\* Nobody else is past Lock while w is, and nobody is while the mutex is free.
LEMMA OneHolder ==
  ASSUME HolderReads, NEW w \in Writers, Holding(call[w]) \/ mu = None
  PROVE  \A v \in Writers : v # w => ~ Holding(call[v])
  BY LedgerAssumption DEF HolderReads

\* The call with another stage, or its last answer, or the next handler's.
LEMMA CallWith ==
  ASSUME Shaped, NEW w \in Writers, NEW s, NEW x
  PROVE  /\ [call EXCEPT ![w].stage = s] =
              [call EXCEPT ![w] = [stage |-> s, task |-> call[w].task,
                                   payload |-> call[w].payload,
                                   previous |-> call[w].previous,
                                   left |-> call[w].left]]
         /\ [call EXCEPT ![w].stage = s, ![w].previous = x] =
              [call EXCEPT ![w] = [stage |-> s, task |-> call[w].task,
                                   payload |-> call[w].payload,
                                   previous |-> x, left |-> call[w].left]]
<1>1. call = [v \in Writers |-> call[v]] /\ IsCall(call[w])
  BY DEF Shaped
<1>2. PICK a, b, d, e, f :
        call[w] = [stage |-> a, task |-> b, payload |-> d, previous |-> e, left |-> f]
  BY <1>1 DEF IsCall
<1> DEFINE r == [stage |-> a, task |-> b, payload |-> d, previous |-> e, left |-> f]
           with == [stage |-> s, task |-> b, payload |-> d, previous |-> e, left |-> f]
           both == [stage |-> s, task |-> b, payload |-> d, previous |-> x, left |-> f]
<1>3. [r EXCEPT !.stage = s] = with /\ [with EXCEPT !.previous = x] = both
  OBVIOUS
<1>4. [call EXCEPT ![w].stage = s] = [call EXCEPT ![w] = with]
  <2> HIDE DEF with, r
  <2> QED BY <1>1, <1>2, <1>3 DEF r
<1>5. [call EXCEPT ![w].stage = s, ![w].previous = x] = [call EXCEPT ![w] = both]
  <2>1. [call EXCEPT ![w].stage = s, ![w].previous = x] =
          [[call EXCEPT ![w] = with] EXCEPT ![w].previous = x]
    BY <1>4
  <2>2. [call EXCEPT ![w] = with][w] = with
    BY <1>1
  <2>3. [[call EXCEPT ![w] = with] EXCEPT ![w].previous = x] =
          [[call EXCEPT ![w] = with] EXCEPT ![w] = both]
    <3> HIDE DEF with, both
    <3> QED BY <1>3, <2>2
  <2> HIDE DEF with, both
  <2> QED BY <2>1, <2>3, <1>1
<1> QED BY <1>2, <1>4, <1>5

LEMMA AfterHandlerIsCall ==
  ASSUME Shaped, NEW w \in Writers, CallTyped(call[w]), call[w].stage # "idle"
  PROVE  /\ IsCall(AfterHandler(w)) /\ CallTyped(AfterHandler(w))
         /\ AfterHandler(w).stage \in {"idle", "lock"}
<1>1. CASE call[w].left = 1
  <2>1. AfterHandler(w) = IdleCall
    BY <1>1 DEF AfterHandler
  <2> QED BY <2>1 DEF IdleCall, IsCall, CallTyped, Stages
<1>2. CASE call[w].left # 1
  <2>1. IsCall(call[w])
    BY DEF Shaped
  <2>2. PICK a, b, d, e, f :
          call[w] = [stage |-> a, task |-> b, payload |-> d, previous |-> e, left |-> f]
    BY <2>1 DEF IsCall
  <2> DEFINE r == [stage |-> a, task |-> b, payload |-> d, previous |-> e, left |-> f]
  <2>3. AfterHandler(w) = [stage |-> "lock", task |-> b, payload |-> d,
                           previous |-> NoHash, left |-> f - 1]
    <3>1. AfterHandler(w) =
            [r EXCEPT !.stage = "lock", !.previous = NoHash, !.left = @ - 1]
      BY <1>2, <2>2 DEF AfterHandler
    <3> QED BY <3>1
  <2>4. b \in Tasks /\ d \in Payloads /\ f \in Nat \ {0} /\ f # 1
    BY <1>2, <2>2 DEF CallTyped
  <2>5. f - 1 \in Nat \ {0}
    BY <2>4
  <2> QED BY <2>3, <2>4, <2>5 DEF IsCall, CallTyped, Stages
<1> QED BY <1>1, <1>2

-----------------------------------------------------------------------------
(* The invariant is kept by every step.                                    *)

RowsTyped ==
  \A t \in Tasks : /\ appended[t] \in Seq(Payloads)
                   /\ \A i \in DOMAIN rows[t] : rows[t][i].payload \in Payloads

LEMMA TypeParts ==
  TypeOK <=> /\ mu \in Writers \cup {None}
             /\ CallsTyped /\ RowsTyped
             /\ faults \in 0..MaxFaults
             /\ subscribers \in Seq(Topics)
             /\ published \subseteq Events
  BY DEF TypeOK, CallsTyped, CallTyped, Stages, RowsTyped

LEMMA FollowsTyped ==
  ASSUME NEW t, NEW entries, NEW said, Follows(t, entries, said)
  PROVE  \A i \in DOMAIN entries : entries[i].payload \in Payloads
<1>1. PICK h, at : entries \in Seq(RowsOf(Len(said), h))
  BY DEF Follows
<1>2. \A i \in DOMAIN entries : entries[i] \in RowsOf(Len(said), h)
  BY <1>1
<1> QED BY <1>2 DEF RowsOf

LEMMA TopicsOfSubscriptions ==
  /\ Len(Subscriptions) = 5
  /\ \A i \in 1..5 : Subscriptions[i] \in Topics
  BY DEF Subscriptions, Topics

\* What remains to be shown of a step.
RowsShaped == rows = [t \in Tasks |-> rows[t]] /\ appended = [t \in Tasks |-> appended[t]]

LEMMA InvFromParts ==
  ASSUME mu \in Writers \cup {None}, CallsTyped, RowsTyped, faults \in 0..MaxFaults,
         subscribers \in Seq(Topics), published \subseteq Events,
         call = [w \in Writers |-> call[w]], \A w \in Writers : IsCall(call[w]),
         RowsShaped, HolderReads, ChainsFollow
  PROVE  LedgerInv
  BY TypeParts DEF LedgerInv, Shaped, RowsShaped

LEMMA InvFromPartsLater ==
  ASSUME mu' \in Writers \cup {None}, CallsTyped', RowsTyped', faults' \in 0..MaxFaults,
         subscribers' \in Seq(Topics), published' \subseteq Events,
         call' = [w \in Writers |-> call'[w]], \A w \in Writers : IsCall(call'[w]),
         RowsShaped', HolderReads', ChainsFollow'
  PROVE  LedgerInv'
<1>1. TypeOK'
  BY DEF TypeOK, CallsTyped, CallTyped, Stages, RowsTyped
<1>2. Shaped'
  BY DEF Shaped, RowsShaped
<1> QED BY <1>1, <1>2 DEF LedgerInv

\* Steps that leave the rows alone keep all that is known of them.
LEMMA RowsStay ==
  ASSUME LedgerInv, UNCHANGED <<rows, appended>>
  PROVE  /\ RowsTyped' /\ RowsShaped' /\ ChainsFollow'
         /\ \A t \in Tasks : LastHash(t)' = LastHash(t)
<1>1. RowsTyped /\ RowsShaped /\ ChainsFollow
  BY TypeParts DEF LedgerInv, Shaped, RowsShaped
<1>2. RowsTyped' /\ RowsShaped'
  BY <1>1 DEF RowsTyped, RowsShaped
<1>3. ChainsFollow'
  BY <1>1 DEF ChainsFollow
<1>4. \A t \in Tasks : LastHash(t)' = LastHash(t)
  BY DEF LastHash
<1> QED BY <1>2, <1>3, <1>4

\* A step of one call that leaves the rows alone.
LEMMA CallStep ==
  ASSUME LedgerInv, NEW w \in Writers, NEW c, Turns(w, c), CallTyped(c),
         UNCHANGED <<rows, appended>>,
         mu' \in Writers \cup {None}, faults' \in 0..MaxFaults,
         subscribers' \in Seq(Topics), published' \subseteq Events,
         Holding(c) => mu' = w,
         c.stage = "append" => c.previous = LastHash(c.task),
         \A v \in Writers : v # w /\ Holding(call[v]) => mu' = v
  PROVE  LedgerInv'
<1>1. TypeOK /\ Shaped /\ HolderReads
  BY DEF LedgerInv
<1>2. /\ call' = [v \in Writers |-> call'[v]]
      /\ \A v \in Writers : IsCall(call'[v])
  BY <1>1, TurnShape
<1>3. /\ RowsTyped' /\ RowsShaped' /\ ChainsFollow'
      /\ \A t \in Tasks : LastHash(t)' = LastHash(t)
  BY RowsStay
<1>4. c.stage = "append" => c.previous = LastHash(c.task)'
  BY DEF LastHash
<1>5. CallsTyped' /\ HolderReads'
  BY <1>1, <1>3, <1>4, TurnKeeps
<1> QED BY <1>2, <1>3, <1>5, InvFromPartsLater

LEMMA InitInv == Init => LedgerInv
<1> SUFFICES ASSUME Init PROVE LedgerInv
  OBVIOUS
<1>1. /\ call = [w \in Writers |-> IdleCall] /\ mu = None /\ faults = 0
      /\ rows = [t \in Tasks |-> <<>>] /\ appended = [t \in Tasks |-> <<>>]
      /\ subscribers = <<>> /\ published = {}
  BY DEF Init
<1>2. \A w \in Writers : call[w] = IdleCall
  BY <1>1
<1>3. IsCall(IdleCall) /\ CallTyped(IdleCall) /\ ~ Holding(IdleCall)
      /\ IdleCall.stage # "append"
  BY DEF IsCall, IdleCall, CallTyped, Stages, Holding
<1>4. CallsTyped /\ \A w \in Writers : IsCall(call[w])
  BY <1>2, <1>3 DEF CallsTyped
<1>5. HolderReads
  BY <1>2, <1>3 DEF HolderReads
<1>6. RowsTyped /\ RowsShaped
  BY <1>1 DEF RowsTyped, RowsShaped
<1>7. ASSUME NEW t \in Tasks PROVE Follows(t, <<>>, <<>>)
  <2> DEFINE h == [n \in {0} |-> NoHash]
             at == [n \in {} |-> 0]
  <2>1. Len(<<>>) = 0 /\ 0 \in {0} /\ h[0] = NoHash
    BY SMT
  <2>2. IsChain(t, <<>>, h)
    BY <2>1 DEF IsChain
  <2>3. Placed(<<>>, Len(<<>>), h, at) /\ GapsShow(<<>>, Len(<<>>), at)
    BY <2>1 DEF Placed, GapsShow
  <2>4. <<>> \in Seq(RowsOf(Len(<<>>), h))
    OBVIOUS
  <2> HIDE DEF h, at
  <2> QED BY <2>2, <2>3, <2>4 DEF Follows
<1>8. ChainsFollow
  BY <1>1, <1>7 DEF ChainsFollow
<1>9. faults \in 0..MaxFaults /\ subscribers \in Seq(Topics) /\ published \subseteq Events
      /\ mu \in Writers \cup {None} /\ call = [w \in Writers |-> call[w]]
  BY <1>1, LedgerAssumption
<1> QED BY <1>4, <1>5, <1>6, <1>8, <1>9, InvFromParts

LEMMA SubscribeInv == LedgerInv /\ Subscribe => LedgerInv'
<1> SUFFICES ASSUME LedgerInv, Subscribe PROVE LedgerInv'
  OBVIOUS
<1>1. /\ mu \in Writers \cup {None} /\ CallsTyped /\ faults \in 0..MaxFaults
      /\ subscribers \in Seq(Topics) /\ published \subseteq Events
      /\ Shaped /\ HolderReads
  BY TypeParts DEF LedgerInv
<1>2. /\ UNCHANGED <<mu, call, rows, appended, faults, published>>
      /\ subscribers' = Append(subscribers, Subscriptions[Len(subscribers) + 1])
      /\ Len(subscribers) < 5
  BY TopicsOfSubscriptions DEF Subscribe
<1>3. Subscriptions[Len(subscribers) + 1] \in Topics
  <2>1. Len(subscribers) + 1 \in 1..5
    BY <1>1, <1>2
  <2> QED BY <2>1, TopicsOfSubscriptions
<1>4. subscribers' \in Seq(Topics)
  BY <1>1, <1>2, <1>3
<1>5. RowsTyped' /\ RowsShaped' /\ ChainsFollow'
  BY <1>2, RowsStay
<1>6. CallsTyped' /\ HolderReads'
  BY <1>1, <1>2 DEF CallsTyped, CallTyped, HolderReads, Holding, LastHash
<1>7. call' = [w \in Writers |-> call'[w]] /\ \A w \in Writers : IsCall(call'[w])
  BY <1>1, <1>2 DEF Shaped
<1> QED BY <1>1, <1>2, <1>4, <1>5, <1>6, <1>7, InvFromPartsLater

LEMMA PublishInv ==
  ASSUME LedgerInv, NEW w \in Writers, NEW e \in Events, Publish(w, e)
  PROVE  LedgerInv'
<1>1. /\ mu \in Writers \cup {None} /\ CallsTyped /\ faults \in 0..MaxFaults
      /\ subscribers \in Seq(Topics) /\ published \subseteq Events
      /\ Shaped /\ HolderReads
  BY TypeParts DEF LedgerInv
<1>2. /\ UNCHANGED <<mu, rows, appended, faults, subscribers>>
      /\ published' \subseteq Events
  BY <1>1 DEF Publish
<1>3. CASE Handlers(e) = {}
  <2>1. call' = call
    BY <1>3 DEF Publish
  <2>2. CallsTyped' /\ HolderReads'
    BY <1>1, <1>2, <2>1 DEF CallsTyped, CallTyped, HolderReads, Holding, LastHash
  <2>3. call' = [v \in Writers |-> call'[v]] /\ \A v \in Writers : IsCall(call'[v])
    BY <1>1, <2>1 DEF Shaped
  <2>4. RowsTyped' /\ RowsShaped' /\ ChainsFollow'
    BY <1>2, RowsStay
  <2> QED BY <1>1, <1>2, <2>2, <2>3, <2>4, InvFromPartsLater
<1>4. CASE Handlers(e) # {}
  <2> DEFINE n == Cardinality(Handlers(e))
             next == [stage |-> "lock", task |-> e.task, payload |-> EntryOf(e),
                      previous |-> NoHash, left |-> n]
  <2>1. n \in Nat \ {0}
    <3>1. Len(subscribers) \in Nat /\ DOMAIN subscribers = 1..Len(subscribers)
      BY <1>1
    <3>2. Handlers(e) \subseteq 1..Len(subscribers)
      BY <3>1 DEF Handlers
    <3>3. IsFiniteSet(1..Len(subscribers))
      <4>1. 1 \in Int /\ Len(subscribers) \in Int
        BY <3>1
      <4> QED BY <4>1, FS_Interval
    <3>4. IsFiniteSet(Handlers(e))
      BY <3>2, <3>3, FS_Subset
    <3> QED BY <3>4, <1>4, FS_CardinalityType, FS_EmptySet
  <2>2. e.task \in Tasks
    BY LedgerAssumption
  <2>3. EntryOf(e) \in Payloads
    <3>1. IsRecorded(e)
      BY <1>4 DEF Handlers
    <3> QED BY <3>1 DEF Payloads
  <2>4. PICK c : c = next
    OBVIOUS
  <2>5. Turns(w, c)
    BY <1>4, <2>4 DEF Publish, Turns, IsCall
  <2>6. CallTyped(c) /\ ~ Holding(c) /\ c.stage # "append"
    <3> HIDE DEF n
    <3> QED BY <2>1, <2>2, <2>3, <2>4 DEF CallTyped, Stages, Holding
  <2>7. \A v \in Writers : v # w /\ Holding(call[v]) => mu' = v
    BY <1>1, <1>2 DEF HolderReads
  <2> QED BY <1>1, <1>2, <2>5, <2>6, <2>7, CallStep
<1> QED BY <1>3, <1>4

LEMMA LockInv ==
  ASSUME LedgerInv, NEW w \in Writers, Lock(w) PROVE LedgerInv'
<1>1. /\ mu \in Writers \cup {None} /\ CallsTyped /\ faults \in 0..MaxFaults
      /\ subscribers \in Seq(Topics) /\ published \subseteq Events
      /\ Shaped /\ HolderReads
  BY TypeParts DEF LedgerInv
<1>2. /\ UNCHANGED <<rows, appended, faults, subscribers, published>>
      /\ mu = None /\ mu' = w /\ call[w].stage = "lock"
  BY DEF Lock, busVars
<1>3. PICK c : c = [stage |-> "last", task |-> call[w].task, payload |-> call[w].payload,
                    previous |-> call[w].previous, left |-> call[w].left]
  OBVIOUS
<1>4. Turns(w, c)
  BY <1>1, <1>3, CallWith DEF Lock, Turns, IsCall
<1>5. CallTyped(call[w])
  BY <1>1 DEF CallsTyped
<1>6. CallTyped(c) /\ c.stage # "append"
  BY <1>2, <1>3, <1>5 DEF CallTyped, Stages
<1>7. \A v \in Writers : v # w => ~ Holding(call[v])
  BY <1>1, <1>2, OneHolder
<1> QED BY <1>1, <1>2, <1>4, <1>6, <1>7, CallStep

LEMMA ReadLastInv ==
  ASSUME LedgerInv, NEW w \in Writers, ReadLast(w) PROVE LedgerInv'
<1>1. /\ mu \in Writers \cup {None} /\ CallsTyped /\ faults \in 0..MaxFaults
      /\ subscribers \in Seq(Topics) /\ published \subseteq Events
      /\ Shaped /\ HolderReads
  BY TypeParts DEF LedgerInv
<1>2. /\ UNCHANGED <<mu, rows, appended, faults, subscribers, published>>
      /\ call[w].stage = "last" /\ mu = w
  BY <1>1 DEF ReadLast, busVars, HolderReads, Holding
<1>3. PICK c : c = [stage |-> "append", task |-> call[w].task,
                    payload |-> call[w].payload, previous |-> LastHash(call[w].task),
                    left |-> call[w].left]
  OBVIOUS
<1>4. Turns(w, c)
  BY <1>1, <1>3, CallWith DEF ReadLast, Turns, IsCall
<1>5. CallTyped(call[w])
  BY <1>1 DEF CallsTyped
<1>6. CallTyped(c) /\ c.previous = LastHash(c.task)
  BY <1>2, <1>3, <1>5 DEF CallTyped, Stages
<1>7. \A v \in Writers : v # w /\ Holding(call[v]) => mu' = v
  BY <1>1, <1>2 DEF HolderReads
<1> QED BY <1>1, <1>2, <1>4, <1>6, <1>7, CallStep

LEMMA UnlockInv ==
  ASSUME LedgerInv, NEW w \in Writers, Unlock(w) PROVE LedgerInv'
<1>1. /\ mu \in Writers \cup {None} /\ CallsTyped /\ faults \in 0..MaxFaults
      /\ subscribers \in Seq(Topics) /\ published \subseteq Events
      /\ Shaped /\ HolderReads
  BY TypeParts DEF LedgerInv
<1>2. /\ UNCHANGED <<rows, appended, faults, subscribers, published>>
      /\ call[w].stage = "publish" /\ mu' = None
      /\ call' = [call EXCEPT ![w] = AfterHandler(w)]
  BY DEF Unlock, busVars
<1>3. CallTyped(call[w])
  BY <1>1 DEF CallsTyped
<1>4. PICK c : c = AfterHandler(w)
  OBVIOUS
<1>5. IsCall(c) /\ CallTyped(c) /\ c.stage \in {"idle", "lock"}
  BY <1>1, <1>2, <1>3, <1>4, AfterHandlerIsCall
<1>6. Turns(w, c) /\ ~ Holding(c) /\ c.stage # "append"
  BY <1>2, <1>4, <1>5 DEF Turns, Holding
<1>7. \A v \in Writers : v # w => ~ Holding(call[v])
  <2>1. Holding(call[w])
    BY <1>2 DEF Holding
  <2> QED BY <1>1, <2>1, OneHolder
<1> QED BY <1>1, <1>2, <1>5, <1>6, <1>7, CallStep

LEMMA FailInv ==
  ASSUME LedgerInv, NEW w \in Writers, Fail(w) PROVE LedgerInv'
<1>1. /\ mu \in Writers \cup {None} /\ CallsTyped /\ faults \in 0..MaxFaults
      /\ subscribers \in Seq(Topics) /\ published \subseteq Events
      /\ Shaped /\ HolderReads
  BY TypeParts DEF LedgerInv
<1>2. /\ UNCHANGED <<rows, appended, subscribers, published>>
      /\ call[w].stage \in {"last", "append"} /\ mu' = None
      /\ call' = [call EXCEPT ![w] = AfterHandler(w)]
      /\ faults < MaxFaults /\ faults' = faults + 1
  BY DEF Fail, Fault, busVars
<1>3. faults' \in 0..MaxFaults
  BY <1>1, <1>2, LedgerAssumption
<1>4. CallTyped(call[w])
  BY <1>1 DEF CallsTyped
<1>5. PICK c : c = AfterHandler(w)
  OBVIOUS
<1>6. IsCall(c) /\ CallTyped(c) /\ c.stage \in {"idle", "lock"}
  BY <1>1, <1>2, <1>4, <1>5, AfterHandlerIsCall
<1>7. Turns(w, c) /\ ~ Holding(c) /\ c.stage # "append"
  BY <1>2, <1>5, <1>6 DEF Turns, Holding
<1>8. \A v \in Writers : v # w => ~ Holding(call[v])
  <2>1. Holding(call[w])
    BY <1>2 DEF Holding
  <2> QED BY <1>1, <2>1, OneHolder
<1> QED BY <1>1, <1>2, <1>3, <1>6, <1>7, <1>8, CallStep

LEMMA CrashInv == LedgerInv /\ Crash => LedgerInv'
<1> SUFFICES ASSUME LedgerInv, Crash PROVE LedgerInv'
  OBVIOUS
<1>1. faults \in 0..MaxFaults /\ published \subseteq Events
  BY TypeParts DEF LedgerInv
<1>2. /\ UNCHANGED <<rows, appended, published>>
      /\ mu' = None /\ subscribers' = <<>>
      /\ call' = [w \in Writers |-> IdleCall]
      /\ faults < MaxFaults /\ faults' = faults + 1
  BY DEF Crash, Fault
<1>3. faults' \in 0..MaxFaults /\ subscribers' \in Seq(Topics)
      /\ mu' \in Writers \cup {None} /\ published' \subseteq Events
  BY <1>1, <1>2, LedgerAssumption
<1>4. RowsTyped' /\ RowsShaped' /\ ChainsFollow'
  BY <1>2, RowsStay
<1>5. IsCall(IdleCall) /\ CallTyped(IdleCall) /\ ~ Holding(IdleCall)
      /\ IdleCall.stage # "append"
  BY DEF IsCall, IdleCall, CallTyped, Stages, Holding
<1>6. \A w \in Writers : call'[w] = IdleCall
  BY <1>2
<1>7. CallsTyped' /\ HolderReads' /\ \A w \in Writers : IsCall(call'[w])
  <2> HIDE DEF IdleCall
  <2>1. CallsTyped'
    BY <1>5, <1>6 DEF CallsTyped
  <2>2. HolderReads'
    BY <1>5, <1>6 DEF HolderReads
  <2> QED BY <1>5, <1>6, <2>1, <2>2
<1>8. call' = [w \in Writers |-> call'[w]]
  BY <1>2
<1> QED BY <1>3, <1>4, <1>7, <1>8, InvFromPartsLater

\* A step that changes the rows of one task keeps what is known of rows, if the
\* new rows follow what was appended.
LEMMA RowsChange ==
  ASSUME LedgerInv, NEW t \in Tasks, NEW entries, NEW said \in Seq(Payloads),
         Follows(t, entries, said),
         rows' = [rows EXCEPT ![t] = entries],
         appended' = [appended EXCEPT ![t] = said]
  PROVE  /\ RowsTyped' /\ RowsShaped' /\ ChainsFollow'
         /\ rows'[t] = entries
         /\ \A s \in Tasks : s # t => rows'[s] = rows[s]
<1>1. RowsTyped /\ RowsShaped /\ ChainsFollow
  BY TypeParts DEF LedgerInv, Shaped, RowsShaped
<1>2. /\ rows' = [s \in Tasks |-> IF s = t THEN entries ELSE rows[s]]
      /\ appended' = [s \in Tasks |-> IF s = t THEN said ELSE appended[s]]
  BY <1>1 DEF RowsShaped
<1>3. /\ rows'[t] = entries /\ appended'[t] = said
      /\ \A s \in Tasks : s # t => rows'[s] = rows[s] /\ appended'[s] = appended[s]
  BY <1>2
<1>4. RowsShaped'
  BY <1>2 DEF RowsShaped
<1>5. ChainsFollow'
  <2> SUFFICES ASSUME NEW s \in Tasks PROVE Follows(s, rows'[s], appended'[s])
    BY DEF ChainsFollow
  <2>1. CASE s = t
    BY <2>1, <1>3
  <2>2. CASE s # t
    <3>1. Follows(s, rows[s], appended[s])
      BY <1>1 DEF ChainsFollow
    <3> QED BY <2>2, <3>1, <1>3
  <2> QED BY <2>1, <2>2
<1>6. RowsTyped'
  <2> SUFFICES ASSUME NEW s \in Tasks
               PROVE  /\ appended'[s] \in Seq(Payloads)
                      /\ \A i \in DOMAIN rows'[s] : rows'[s][i].payload \in Payloads
    BY DEF RowsTyped
  <2>1. CASE s = t
    <3>1. \A i \in DOMAIN entries : entries[i].payload \in Payloads
      BY FollowsTyped
    <3> QED BY <2>1, <3>1, <1>3
  <2>2. CASE s # t
    BY <2>2, <1>1, <1>3 DEF RowsTyped
  <2> QED BY <2>1, <2>2
<1> QED BY <1>3, <1>4, <1>5, <1>6

LEMMA AppendEntryInv ==
  ASSUME LedgerInv, NEW w \in Writers, AppendEntry(w) PROVE LedgerInv'
<1>1. /\ mu \in Writers \cup {None} /\ CallsTyped /\ faults \in 0..MaxFaults
      /\ subscribers \in Seq(Topics) /\ published \subseteq Events
      /\ Shaped /\ HolderReads /\ RowsTyped /\ ChainsFollow /\ TypeOK
  BY TypeParts DEF LedgerInv
<1>2. /\ UNCHANGED <<mu, faults, subscribers, published>>
      /\ call[w].stage = "append"
      /\ call' = [call EXCEPT ![w].stage = "publish"]
  BY DEF AppendEntry, busVars
<1>3. Holding(call[w]) /\ CallTyped(call[w])
  BY <1>1, <1>2 DEF Holding, CallsTyped
<1>4. mu = w /\ call[w].previous = LastHash(call[w].task)
  BY <1>1, <1>2, <1>3 DEF HolderReads
<1>5. PICK prev : prev = call[w].previous
  OBVIOUS
<1>6. PICK t \in Tasks, p \in Payloads : t = call[w].task /\ p = call[w].payload
  BY <1>2, <1>3 DEF CallTyped
<1>7. /\ rows' = [rows EXCEPT ![t] = Append(rows[t], NewEntry(t, p, prev))]
      /\ appended' = [appended EXCEPT ![t] = Append(appended[t], p)]
  BY <1>5, <1>6 DEF AppendEntry
<1>8. Follows(t, rows[t], appended[t]) /\ appended[t] \in Seq(Payloads)
  BY <1>1 DEF ChainsFollow, RowsTyped
<1>9. prev = IF rows[t] = <<>> THEN NoHash ELSE rows[t][Len(rows[t])].hmac
  BY <1>4, <1>5, <1>6 DEF LastHash
<1>10. PICK old, said : old = rows[t] /\ said = appended[t]
  OBVIOUS
<1>11. Follows(t, Append(old, NewEntry(t, p, prev)), Append(said, p))
  BY <1>8, <1>9, <1>10, AppendFollows
<1>12. PICK entries, more : /\ entries = Append(old, NewEntry(t, p, prev))
                            /\ more = Append(said, p)
  OBVIOUS
<1>13. more \in Seq(Payloads)
  BY <1>8, <1>10, <1>12
<1>14. /\ Follows(t, entries, more)
       /\ rows' = [rows EXCEPT ![t] = entries]
       /\ appended' = [appended EXCEPT ![t] = more]
  BY <1>7, <1>10, <1>11, <1>12
<1>15. RowsTyped' /\ RowsShaped' /\ ChainsFollow'
  BY <1>13, <1>14, RowsChange
<1>16. PICK c : c = [stage |-> "publish", task |-> call[w].task,
                     payload |-> call[w].payload, previous |-> call[w].previous,
                     left |-> call[w].left]
  OBVIOUS
<1>17. Turns(w, c)
  BY <1>1, <1>2, <1>16, CallWith DEF Turns, IsCall
<1>18. CallTyped(c) /\ c.stage # "append"
  BY <1>2, <1>3, <1>16 DEF CallTyped, Stages
<1>19. \A v \in Writers : v # w => ~ Holding(call[v])
  BY <1>1, <1>3, OneHolder
<1>20. CallsTyped' /\ HolderReads'
  BY <1>1, <1>2, <1>4, <1>17, <1>18, <1>19, TurnKeeps
<1>21. call' = [v \in Writers |-> call'[v]] /\ \A v \in Writers : IsCall(call'[v])
  BY <1>1, <1>17, TurnShape
<1> QED BY <1>1, <1>2, <1>15, <1>20, <1>21, InvFromPartsLater

\* A step that leaves the calls and every last hash alone keeps what is known
\* of calls.
LEMMA CallsStay ==
  ASSUME LedgerInv, UNCHANGED <<mu, call>>,
         \A t \in Tasks : LastHash(t)' = LastHash(t)
  PROVE  /\ CallsTyped' /\ HolderReads'
         /\ call' = [v \in Writers |-> call'[v]] /\ \A v \in Writers : IsCall(call'[v])
<1>1. CallsTyped /\ Shaped /\ HolderReads
  BY TypeParts DEF LedgerInv
<1>2. CallsTyped'
  BY <1>1 DEF CallsTyped, CallTyped
<1>3. HolderReads'
  <2> SUFFICES ASSUME NEW w \in Writers
               PROVE  /\ (Holding(call[w]) => mu = w)'
                      /\ (call[w].stage = "append" =>
                            call[w].previous = LastHash(call[w].task))'
    BY DEF HolderReads
  <2>1. (Holding(call[w]) => mu = w)'
    BY <1>1 DEF HolderReads, Holding
  <2>2. ASSUME call[w].stage = "append"
        PROVE  call[w].previous = LastHash(call[w].task)'
    <3>1. PICK t \in Tasks : t = call[w].task
      BY <2>2, <1>1 DEF CallsTyped, CallTyped
    <3>2. call[w].previous = LastHash(t)
      BY <2>2, <3>1, <1>1 DEF HolderReads
    <3>3. call[w].previous = LastHash(t)'
      BY <3>2
    <3> QED BY <3>1, <3>3 DEF LastHash
  <2>3. (call[w].stage = "append" => call[w].previous = LastHash(call[w].task))'
    BY <2>2 DEF LastHash
  <2> QED BY <2>1, <2>3
<1> QED BY <1>1, <1>2, <1>3 DEF Shaped

\* The hash a new row would be chained to.
HashBehind(entries) == IF entries = <<>> THEN NoHash ELSE entries[Len(entries)].hmac

LEMMA EditKeepsLast ==
  ASSUME NEW t, NEW entries, NEW said, Follows(t, entries, said),
         NEW i \in DOMAIN entries, NEW p \in Payloads
  PROVE  HashBehind([entries EXCEPT ![i].payload = p]) = HashBehind(entries)
<1>1. PICK h : entries \in Seq(RowsOf(Len(said), h))
  BY DEF Follows
<1> DEFINE S == RowsOf(Len(said), h)
           new == [entries EXCEPT ![i].payload = p]
           row == [entries[i] EXCEPT !.payload = p]
<1>2. entries \in Seq(S) /\ entries[i] \in S
  <2> HIDE DEF S
  <2>1. entries \in Seq(S)
    BY <1>1 DEF S
  <2> QED BY <2>1
<1>3. row \in S /\ row.hmac = entries[i].hmac
  BY <1>2 DEF RowsOf
<1>4. new = [entries EXCEPT ![i] = row]
  OBVIOUS
<1>5. /\ Len(new) = Len(entries) /\ Len(entries) \in Nat \ {0}
      /\ DOMAIN entries = 1..Len(entries)
  <2> HIDE DEF S, row
  <2> QED BY <1>2, <1>3, <1>4
<1>6. new # <<>> /\ entries # <<>>
  BY <1>5
<1>7. Len(entries) \in DOMAIN entries
  BY <1>5
<1>8. new[Len(entries)].hmac = entries[Len(entries)].hmac
  <2> HIDE DEF row
  <2>1. CASE i = Len(entries)
    BY <2>1, <1>3, <1>4, <1>7
  <2>2. CASE i # Len(entries)
    BY <2>2, <1>4, <1>7
  <2> QED BY <2>1, <2>2
<1> HIDE DEF new
<1>9. HashBehind(new) = HashBehind(entries)
  BY <1>5, <1>6, <1>8 DEF HashBehind
<1> QED BY <1>9 DEF new

LEMMA DeleteKeepsLast ==
  ASSUME NEW t, NEW entries, NEW said, Follows(t, entries, said),
         NEW i \in DOMAIN entries, i < Len(entries)
  PROVE  HashBehind(SubSeq(entries, 1, i - 1) \o SubSeq(entries, i + 1, Len(entries)))
           = HashBehind(entries)
<1>1. PICK h : entries \in Seq(RowsOf(Len(said), h))
  BY DEF Follows
<1>2. PICK S : entries \in Seq(S)
  BY <1>1
<1> DEFINE len == Len(entries)
           front == SubSeq(entries, 1, i - 1)
           back == SubSeq(entries, i + 1, len)
           new == front \o back
<1>3. len \in Nat /\ i \in 1..len - 1
  BY <1>2
<1>4. /\ front \in Seq(S) /\ Len(front) = i - 1
      /\ back \in Seq(S) /\ Len(back) = len - i
  BY <1>2, <1>3
<1>5. back[len - i] = entries[len]
  <2>1. \A j \in 1..len - i : back[j] = entries[j + i]
    BY <1>2, <1>3
  <2>2. len - i \in 1..len - i /\ len - i + i = len
    BY <1>3
  <2> QED BY <2>1, <2>2
<1> HIDE DEF front, back
<1>6. Len(new) = len - 1 /\ new # <<>> /\ entries # <<>>
  <2>1. Len(new) = len - 1
    BY <1>3, <1>4
  <2>2. new # <<>> /\ entries # <<>>
    BY <2>1, <1>3
  <2> QED BY <2>1, <2>2
<1>7. new[len - 1] = back[len - i]
  <2>1. len - 1 \in 1..Len(front) + Len(back)
    BY <1>3, <1>4
  <2>2. new[len - 1] = IF len - 1 <= Len(front) THEN front[len - 1]
                       ELSE back[(len - 1) - Len(front)]
    BY <2>1, <1>4, RowOfBoth
  <2> QED BY <2>2, <1>3, <1>4
<1> HIDE DEF new
<1>8. HashBehind(new) = HashBehind(entries)
  BY <1>5, <1>6, <1>7 DEF HashBehind
<1> QED BY <1>8 DEF new, front, back

\* A change in the database that keeps the last hash of the one task it changes.
LEMMA ChangeInv ==
  ASSUME LedgerInv, NEW t \in Tasks, NEW entries, Follows(t, entries, appended[t]),
         HashBehind(entries) = HashBehind(rows[t]),
         rows' = [rows EXCEPT ![t] = entries],
         Fault, UNCHANGED <<mu, call, appended, busVars>>
  PROVE  LedgerInv'
<1>1. /\ mu \in Writers \cup {None} /\ faults \in 0..MaxFaults
      /\ subscribers \in Seq(Topics) /\ published \subseteq Events
      /\ Shaped /\ RowsTyped
  BY TypeParts DEF LedgerInv
<1>2. /\ UNCHANGED <<mu, call, appended, subscribers, published>>
      /\ faults' \in 0..MaxFaults
  BY <1>1, LedgerAssumption DEF Fault, busVars
<1>3. PICK said : said = appended[t]
  OBVIOUS
<1>4. said \in Seq(Payloads) /\ Follows(t, entries, said)
  BY <1>1, <1>3 DEF RowsTyped
<1>5. appended' = [appended EXCEPT ![t] = said]
  BY <1>1, <1>2, <1>3 DEF Shaped
<1>6. /\ RowsTyped' /\ RowsShaped' /\ ChainsFollow'
      /\ rows'[t] = entries
      /\ \A s \in Tasks : s # t => rows'[s] = rows[s]
  BY <1>4, <1>5, RowsChange
<1>7. ASSUME NEW s \in Tasks PROVE LastHash(s)' = LastHash(s)
  <2>1. CASE s = t
    <3>1. LastHash(s) = HashBehind(rows[t]) /\ LastHash(s)' = HashBehind(entries)
      BY <2>1, <1>6 DEF LastHash, HashBehind
    <3> QED BY <3>1
  <2>2. CASE s # t
    BY <2>2, <1>6 DEF LastHash
  <2> QED BY <2>1, <2>2
<1>8. /\ CallsTyped' /\ HolderReads'
      /\ call' = [v \in Writers |-> call'[v]] /\ \A v \in Writers : IsCall(call'[v])
  BY <1>2, <1>7, CallsStay
<1> QED BY <1>1, <1>2, <1>6, <1>8, InvFromPartsLater

LEMMA EditRowInv ==
  ASSUME LedgerInv, NEW t \in Tasks, NEW i \in DOMAIN rows[t], NEW p \in Payloads,
         EditRow(t, i, p)
  PROVE  LedgerInv'
<1>1. Follows(t, rows[t], appended[t]) /\ appended[t] \in Seq(Payloads)
      /\ Shaped
  BY TypeParts DEF LedgerInv, ChainsFollow, RowsTyped
<1>2. PICK old, said : old = rows[t] /\ said = appended[t]
  OBVIOUS
<1>3. PICK n \in DOMAIN old : n = i
  BY <1>2
<1>4. PICK entries : entries = [old EXCEPT ![n].payload = p]
  OBVIOUS
<1>5. Follows(t, entries, said) /\ HashBehind(entries) = HashBehind(old)
  BY <1>1, <1>2, <1>4, EditFollows, EditKeepsLast
<1>6. rows' = [rows EXCEPT ![t] = entries]
  BY <1>1, <1>2, <1>3, <1>4 DEF EditRow, Shaped
<1>7. Fault /\ UNCHANGED <<mu, call, appended, busVars>>
  BY DEF EditRow
<1>8. Follows(t, entries, appended[t]) /\ HashBehind(entries) = HashBehind(rows[t])
  BY <1>2, <1>5
<1> QED BY <1>6, <1>7, <1>8, ChangeInv

LEMMA DeleteRowInv ==
  ASSUME LedgerInv, NEW t \in Tasks, NEW i \in DOMAIN rows[t], DeleteRow(t, i)
  PROVE  LedgerInv'
<1>1. Follows(t, rows[t], appended[t]) /\ appended[t] \in Seq(Payloads)
      /\ Shaped
  BY TypeParts DEF LedgerInv, ChainsFollow, RowsTyped
<1>2. PICK old, said : old = rows[t] /\ said = appended[t]
  OBVIOUS
<1>3. PICK n \in DOMAIN old : n = i /\ n < Len(old)
  BY <1>2 DEF DeleteRow
<1>4. PICK entries :
        entries = SubSeq(old, 1, n - 1) \o SubSeq(old, n + 1, Len(old))
  OBVIOUS
<1>5. Follows(t, entries, said) /\ HashBehind(entries) = HashBehind(old)
  BY <1>1, <1>2, <1>3, <1>4, DeleteFollows, DeleteKeepsLast
<1>6. rows' = [rows EXCEPT ![t] = entries]
  BY <1>2, <1>3, <1>4 DEF DeleteRow
<1>7. Fault /\ UNCHANGED <<mu, call, appended, busVars>>
  BY DEF DeleteRow
<1>8. Follows(t, entries, appended[t]) /\ HashBehind(entries) = HashBehind(rows[t])
  BY <1>2, <1>5
<1> QED BY <1>6, <1>7, <1>8, ChangeInv

LEMMA NextInv == LedgerInv /\ [Next]_vars => LedgerInv'
<1> SUFFICES ASSUME LedgerInv, [Next]_vars PROVE LedgerInv'
  OBVIOUS
<1>1. ASSUME NEW w \in Writers, NEW e \in Events, Publish(w, e) PROVE LedgerInv'
  BY <1>1, PublishInv
<1>2. ASSUME NEW w \in Writers, Lock(w) \/ WriterStep(w) \/ Fail(w) PROVE LedgerInv'
  BY <1>2, LockInv, ReadLastInv, AppendEntryInv, UnlockInv, FailInv DEF WriterStep
<1>3. CASE Subscribe
  BY <1>3, SubscribeInv
<1>4. CASE Crash
  BY <1>4, CrashInv
<1>5. ASSUME NEW t \in Tasks, NEW i \in DOMAIN rows[t],
             DeleteRow(t, i) \/ \E p \in Payloads : EditRow(t, i, p)
      PROVE  LedgerInv'
  BY <1>5, EditRowInv, DeleteRowInv
<1>6. CASE UNCHANGED vars
  <2>1. UNCHANGED <<mu, call, rows, appended, faults, subscribers, published>>
    BY <1>6 DEF vars
  <2>2. /\ mu \in Writers \cup {None} /\ faults \in 0..MaxFaults
        /\ subscribers \in Seq(Topics) /\ published \subseteq Events
    BY TypeParts DEF LedgerInv
  <2>3. /\ RowsTyped' /\ RowsShaped' /\ ChainsFollow'
        /\ \A t \in Tasks : LastHash(t)' = LastHash(t)
    BY <2>1, RowsStay
  <2>4. /\ CallsTyped' /\ HolderReads'
        /\ call' = [v \in Writers |-> call'[v]] /\ \A v \in Writers : IsCall(call'[v])
    BY <2>1, <2>3, CallsStay
  <2> QED BY <2>1, <2>2, <2>3, <2>4, InvFromPartsLater
<1> QED BY <1>1, <1>2, <1>3, <1>4, <1>5, <1>6 DEF Next

-----------------------------------------------------------------------------
(* The theorems.                                                           *)

\* In every reachable state the rows of a task have their places in the chain of
\* what was appended, and whoever is past Lock holds the mutex and still has the
\* last hash: RecordValidatedTransaction's lock spans its read and its insert.
THEOREM LedgerInvariant == Spec => []LedgerInv
<1>1. Init => LedgerInv
  BY InitInv
<1>2. LedgerInv /\ [Next]_vars => LedgerInv'
  BY NextInv
<1> QED BY <1>1, <1>2, PTL DEF Spec

\* The variables keep their types.
THEOREM LedgerTypes == Spec => []TypeOK
<1>1. LedgerInv => TypeOK
  BY DEF LedgerInv
<1> QED BY <1>1, LedgerInvariant, PTL

\* VerifyEntireChainIntegrity accepts the rows nobody touched, whatever writers,
\* failures and crashes are under way.
THEOREM NoFalseAlarmAlways == Spec => []NoFalseAlarm
<1>1. LedgerInv => NoFalseAlarm
  <2> SUFFICES ASSUME LedgerInv, NEW t \in Tasks, Payload(rows[t]) = appended[t]
               PROVE  VerifyEntireChainIntegrity(t, rows[t])
    BY DEF NoFalseAlarm
  <2>1. Follows(t, rows[t], appended[t]) /\ appended[t] \in Seq(Payloads)
    BY TypeParts DEF LedgerInv, ChainsFollow, RowsTyped
  <2> QED BY <2>1, FollowsNoFalseAlarm
<1> QED BY <1>1, LedgerInvariant, PTL

\* What VerifyEntireChainIntegrity accepts is what was recorded, in the order it
\* was, whichever rows were edited and whichever rows before the last removed.
THEOREM AcceptedMeansUnalteredAlways == Spec => []AcceptedMeansUnaltered
<1>1. LedgerInv => AcceptedMeansUnaltered
  <2> SUFFICES ASSUME LedgerInv, NEW t \in Tasks,
                      VerifyEntireChainIntegrity(t, rows[t])
               PROVE  Payload(rows[t]) = appended[t]
    BY DEF AcceptedMeansUnaltered
  <2>1. Follows(t, rows[t], appended[t]) /\ appended[t] \in Seq(Payloads)
    BY TypeParts DEF LedgerInv, ChainsFollow, RowsTyped
  <2> QED BY <2>1, FollowsAccepted
<1> QED BY <1>1, LedgerInvariant, PTL

-----------------------------------------------------------------------------
(* What the check cannot see, and what would show it.                      *)

\* A chain whose end was cut off is accepted: nothing in VerifyEntireChainIntegrity
\* tells how long the chain was.
LEMMA CutEndIsAccepted ==
  ASSUME NEW t, NEW S, NEW entries \in Seq(S), NEW n \in 0..Len(entries),
         VerifyEntireChainIntegrity(t, entries)
  PROVE  VerifyEntireChainIntegrity(t, SubSeq(entries, 1, n))
<1> DEFINE cut == SubSeq(entries, 1, n)
<1>1. DOMAIN cut = 1..n /\ DOMAIN entries = 1..Len(entries)
  OBVIOUS
<1>2. \A i \in 1..n : cut[i] = entries[i] /\ i \in 1..Len(entries)
  OBVIOUS
<1> HIDE DEF cut
<1> SUFFICES ASSUME NEW i \in 1..n
             PROVE  cut[i].hmac =
                      CalculateRowHMAC(t, cut[i].payload,
                                       IF i = 1 THEN NoHash ELSE cut[i - 1].hmac)
  BY <1>1 DEF VerifyEntireChainIntegrity, cut
<1>3. entries[i].hmac =
        CalculateRowHMAC(t, entries[i].payload,
                         IF i = 1 THEN NoHash ELSE entries[i - 1].hmac)
  BY <1>1, <1>2 DEF VerifyEntireChainIntegrity
<1>4. i # 1 => i - 1 \in 1..n
  OBVIOUS
<1> QED BY <1>2, <1>3, <1>4

\* Counted from the end, as far as both reach, two accepted chains with the same
\* last hash have the same hashes.
LEMMA SameFromTheEnd ==
  ASSUME NEW t, NEW S, NEW a \in Seq(S), NEW b \in Seq(S), a # <<>>, b # <<>>,
         VerifyEntireChainIntegrity(t, a), VerifyEntireChainIntegrity(t, b),
         a[Len(a)].hmac = b[Len(b)].hmac,
         NEW k \in Nat, k < Len(a), k < Len(b)
  PROVE  a[Len(a) - k].hmac = b[Len(b) - k].hmac
<1> DEFINE Apart == {j \in Nat : /\ j < Len(a) /\ j < Len(b)
                                 /\ a[Len(a) - j].hmac # b[Len(b) - j].hmac}
<1> SUFFICES ASSUME Apart # {} PROVE FALSE
  OBVIOUS
<1>1. PICK j \in Apart : \A i \in Apart : ~ (<<i, j>> \in OpToRel(<, Nat))
  <2> HIDE DEF Apart
  <2>1. Apart \subseteq Nat
    BY DEF Apart
  <2> QED BY <2>1, NatLessThanWellFounded, WFMin
<1>2. /\ j \in Nat /\ j < Len(a) /\ j < Len(b) /\ Len(a) \in Nat /\ Len(b) \in Nat
      /\ a[Len(a) - j].hmac # b[Len(b) - j].hmac
  OBVIOUS
<1>3. j # 0
  BY <1>2
<1> DEFINE m == Len(a) - (j - 1)
           n == Len(b) - (j - 1)
<1>4. a[m].hmac = b[n].hmac
  <2>1. j - 1 \in Nat /\ j - 1 < j /\ j - 1 < Len(a) /\ j - 1 < Len(b)
    BY <1>2, <1>3
  <2>2. j - 1 \notin Apart
    BY <1>1, <1>2, <2>1 DEF OpToRel
  <2> QED BY <2>1, <2>2
<1>5. /\ m \in DOMAIN a /\ n \in DOMAIN b /\ m # 1 /\ n # 1
      /\ m - 1 = Len(a) - j /\ n - 1 = Len(b) - j
  <2>1. /\ m \in 1..Len(a) /\ m # 1 /\ m - 1 = Len(a) - j
    BY <1>2, <1>3
  <2>2. /\ n \in 1..Len(b) /\ n # 1 /\ n - 1 = Len(b) - j
    BY <1>2, <1>3
  <2>3. DOMAIN a = 1..Len(a) /\ DOMAIN b = 1..Len(b)
    OBVIOUS
  <2> HIDE DEF m, n
  <2> QED
    BY <2>1, <2>2, <2>3
<1> HIDE DEF m, n
<1>6. CalculateRowHMAC(t, a[m].payload, a[m - 1].hmac)
        = CalculateRowHMAC(t, b[n].payload, b[n - 1].hmac)
  BY <1>4, <1>5 DEF VerifyEntireChainIntegrity
<1>7. a[m - 1].hmac = b[n - 1].hmac
  BY <1>6, HashesAreInjective
<1> QED BY <1>2, <1>5, <1>7

\* Of two such chains neither is the longer one.
LEMMA SameLength ==
  ASSUME NEW t, NEW S, NEW a \in Seq(S), NEW b \in Seq(S), a # <<>>, b # <<>>,
         VerifyEntireChainIntegrity(t, a), VerifyEntireChainIntegrity(t, b),
         a[Len(a)].hmac = b[Len(b)].hmac
  PROVE  ~ (Len(a) < Len(b))
<1> SUFFICES ASSUME Len(a) < Len(b) PROVE FALSE
  OBVIOUS
<1>1. Len(a) \in Nat \ {0} /\ Len(b) \in Nat
  <2>1. Len(a) \in Nat /\ Len(b) \in Nat /\ Len(a) # 0
    OBVIOUS
  <2> QED BY <2>1
<1> DEFINE n == Len(b) - (Len(a) - 1)
<1>2. a[1].hmac = b[n].hmac
  <2>1. /\ Len(a) - 1 \in Nat /\ Len(a) - 1 < Len(a) /\ Len(a) - 1 < Len(b)
        /\ Len(a) - (Len(a) - 1) = 1
    BY <1>1
  <2>2. a[Len(a) - (Len(a) - 1)].hmac = b[Len(b) - (Len(a) - 1)].hmac
    BY <2>1, SameFromTheEnd
  <2> QED BY <2>1, <2>2
<1>3. 1 \in DOMAIN a /\ n \in DOMAIN b /\ n # 1
  BY <1>1
<1> HIDE DEF n
<1>4. CalculateRowHMAC(t, a[1].payload, NoHash)
        = CalculateRowHMAC(t, b[n].payload, b[n - 1].hmac)
  BY <1>2, <1>3 DEF VerifyEntireChainIntegrity
<1>5. NoHash = b[n - 1].hmac
  BY <1>4, HashesAreInjective
<1>6. b[n - 1].hmac =
        CalculateRowHMAC(t, b[n - 1].payload,
                         IF n - 1 = 1 THEN NoHash ELSE b[(n - 1) - 1].hmac)
  <2>1. n - 1 \in DOMAIN b
    BY <1>3, <1>1 DEF n
  <2> QED BY <2>1 DEF VerifyEntireChainIntegrity
<1> QED BY <1>5, <1>6, NoHashIsNoHMAC

\* The independent checkpoint of docs/dev/app_flow_deep_dive.md:849 sees that too,
\* if it is the hash of the last row: chains VerifyEntireChainIntegrity accepts for
\* one task, with the same last hash, say the same from the first row on.
THEOREM LastHashPinsChain ==
  ASSUME NEW t, NEW S, NEW a \in Seq(S), NEW b \in Seq(S), a # <<>>, b # <<>>,
         VerifyEntireChainIntegrity(t, a), VerifyEntireChainIntegrity(t, b),
         a[Len(a)].hmac = b[Len(b)].hmac
  PROVE  Payload(a) = Payload(b)
<1>1. Len(a) \in Nat /\ Len(b) \in Nat
  OBVIOUS
<1>2. Len(a) = Len(b)
  <2>1. ~ (Len(a) < Len(b)) /\ ~ (Len(b) < Len(a))
    BY SameLength
  <2> QED BY <2>1, <1>1
<1>3. DOMAIN a = 1..Len(a) /\ DOMAIN b = 1..Len(a)
  BY <1>2
<1>4. ASSUME NEW i \in 1..Len(a) PROVE a[i].payload = b[i].payload
  <2>1. \A j \in 1..Len(a) : a[j].hmac = b[j].hmac
    <3> SUFFICES ASSUME NEW j \in 1..Len(a) PROVE a[j].hmac = b[j].hmac
      OBVIOUS
    <3>1. /\ Len(a) - j \in Nat /\ Len(a) - j < Len(a) /\ Len(a) - j < Len(b)
          /\ Len(a) - (Len(a) - j) = j /\ Len(b) - (Len(a) - j) = j
      BY <1>1, <1>2
    <3>2. a[Len(a) - (Len(a) - j)].hmac = b[Len(b) - (Len(a) - j)].hmac
      BY <3>1, SameFromTheEnd
    <3> QED BY <3>1, <3>2
  <2> DEFINE p == IF i = 1 THEN NoHash ELSE a[i - 1].hmac
             q == IF i = 1 THEN NoHash ELSE b[i - 1].hmac
  <2>2. CalculateRowHMAC(t, a[i].payload, p) = CalculateRowHMAC(t, b[i].payload, q)
    BY <1>3, <2>1 DEF VerifyEntireChainIntegrity
  <2> HIDE DEF p, q
  <2> QED BY <2>2, HashesAreInjective
<1> QED BY <1>3, <1>4 DEF Payload

-----------------------------------------------------------------------------
(* The feed: which event stands behind an entry.                           *)

\* Between Publish and the insert.
Pending(c) == c.stage \in {"lock", "last", "append"}

\* src[i] is the event that entry i was written for, no two entries for one.
Source(said, told, src) ==
  /\ \A i \in 1..Len(said) : src[i] \in told /\ EntryOf(src[i]) = said[i]
  /\ \A i, j \in 1..Len(said) : src[i] = src[j] => i = j

\* owed[w] is the event that w is about to record, no two writers the same.
Owing(owed) ==
  \A w \in Writers : Pending(call[w]) =>
    /\ owed[w] \in Told(call[w].task) /\ EntryOf(owed[w]) = call[w].payload
    /\ \A v \in Writers : Pending(call[v]) /\ owed[v] = owed[w] => v = w

\* What is still to be recorded was not recorded.
NotYet(src, owed) ==
  \A w \in Writers : Pending(call[w]) =>
    \A t \in Tasks : \A i \in 1..Len(appended[t]) : src[t][i] # owed[w]

Recorded(src, t, e) == \E i \in 1..Len(appended[t]) : src[t][i] = e
Owed(owed, e) == \E w \in Writers : Pending(call[w]) /\ owed[w] = e

\* Nothing is forgotten but by a fault.
NoneLost(src, owed) ==
  faults = 0 => \A t \in Tasks : \A e \in Told(t) : Recorded(src, t, e) \/ Owed(owed, e)

Matched(src, owed) ==
  /\ \A t \in Tasks : Source(appended[t], Told(t), src[t])
  /\ Owing(owed) /\ NotYet(src, owed) /\ NoneLost(src, owed)

\* The handlers are those of the router, in its order, and each event has one.
InOrder ==
  /\ Len(subscribers) <= 5
  /\ \A i \in 1..Len(subscribers) : subscribers[i] = Subscriptions[i]

OneLeft == \A w \in Writers : call[w].stage # "idle" => call[w].left = 1

Untouched == faults = 0 => \A t \in Tasks : Payload(rows[t]) = appended[t]

FeedInv ==
  /\ IsFiniteSet(published)
  /\ InOrder /\ OneLeft /\ Untouched
  /\ \E src, owed : Matched(src, owed)

\* A step that records nothing keeps the match, if every event still pending was
\* and what is no longer pending fell to a fault.
LEMMA MatchStays ==
  ASSUME NEW src, NEW owed, Matched(src, owed), UNCHANGED <<appended, published>>,
         \A w \in Writers : Pending(call'[w]) =>
           /\ Pending(call[w])
           /\ call'[w].task = call[w].task /\ call'[w].payload = call[w].payload,
         faults' = 0 =>
           /\ faults = 0
           /\ \A w \in Writers : Pending(call[w]) => Pending(call'[w])
  PROVE  Matched(src, owed)'
<1>1. \A t : Told(t)' = Told(t)
  BY DEF Told
<1>2. \A t \in Tasks : Source(appended'[t], Told(t)', src[t])
  BY <1>1 DEF Matched
<1>3. ASSUME NEW w \in Writers, Pending(call'[w])
      PROVE  /\ owed[w] \in published' /\ owed[w].task = call'[w].task
             /\ IsRecorded(owed[w]) /\ EntryOf(owed[w]) = call'[w].payload
             /\ \A v \in Writers : Pending(call'[v]) /\ owed[v] = owed[w] => v = w
             /\ \A t \in Tasks : \A i \in 1..Len(appended'[t]) : src[t][i] # owed[w]
  <2>1. Pending(call[w]) /\ call'[w].task = call[w].task
        /\ call'[w].payload = call[w].payload
    BY <1>3
  <2>2. /\ owed[w] \in Told(call[w].task) /\ EntryOf(owed[w]) = call[w].payload
        /\ \A v \in Writers : Pending(call[v]) /\ owed[v] = owed[w] => v = w
    BY <2>1 DEF Matched, Owing
  <2>3. \A t \in Tasks : \A i \in 1..Len(appended[t]) : src[t][i] # owed[w]
    BY <2>1 DEF Matched, NotYet
  <2>4. \A v \in Writers : Pending(call'[v]) /\ owed[v] = owed[w] => v = w
    BY <2>2
  <2> QED BY <2>1, <2>2, <2>3, <2>4 DEF Told
<1>4. Owing(owed)' /\ NotYet(src, owed)'
  BY <1>3 DEF Owing, NotYet, Pending, Told
<1>5. ASSUME faults' = 0, NEW t \in Tasks, NEW e \in Told(t)'
      PROVE  Recorded(src, t, e)' \/ Owed(owed, e)'
  <2>1. Recorded(src, t, e) \/ Owed(owed, e)
    BY <1>1, <1>5 DEF Matched, NoneLost
  <2>2. CASE Recorded(src, t, e)
    BY <2>2 DEF Recorded
  <2>3. CASE Owed(owed, e)
    BY <2>3, <1>5 DEF Owed, Pending
  <2> QED BY <2>1, <2>2, <2>3
<1>6. NoneLost(src, owed)'
  BY <1>5 DEF NoneLost
<1> QED BY <1>2, <1>4, <1>6 DEF Matched

\* What is left to show of a step that records nothing.
LEMMA FeedStays ==
  ASSUME FeedInv, UNCHANGED <<appended, published>>, InOrder', OneLeft', Untouched',
         \A w \in Writers : Pending(call'[w]) =>
           /\ Pending(call[w])
           /\ call'[w].task = call[w].task /\ call'[w].payload = call[w].payload,
         faults' = 0 =>
           /\ faults = 0
           /\ \A w \in Writers : Pending(call[w]) => Pending(call'[w])
  PROVE  FeedInv'
<1>1. PICK src, owed : Matched(src, owed)
  BY DEF FeedInv
<1>2. Matched(src, owed)'
  BY <1>1, MatchStays
<1>3. IsFiniteSet(published')
  BY DEF FeedInv
<1> QED BY <1>2, <1>3 DEF FeedInv

\* One call goes on, or is dropped by a fault.
LEMMA FeedTurn ==
  ASSUME LedgerInv, FeedInv, NEW w \in Writers, NEW c, Turns(w, c),
         UNCHANGED <<rows, appended, subscribers, published>>,
         Pending(c) => /\ Pending(call[w])
                       /\ c.task = call[w].task /\ c.payload = call[w].payload,
         c.stage # "idle" => c.left = 1,
         \/ faults' = faults /\ (Pending(call[w]) => Pending(c))
         \/ faults' # 0
  PROVE  FeedInv'
<1>1. Shaped /\ InOrder /\ OneLeft /\ Untouched
  BY DEF LedgerInv, FeedInv
<1>2. call'[w] = c /\ \A v \in Writers : v # w => call'[v] = call[v]
  BY <1>1, TurnShape
<1>3. InOrder'
  BY <1>1 DEF InOrder
<1>4. OneLeft'
  BY <1>1, <1>2 DEF OneLeft
<1>5. Untouched'
  BY <1>1 DEF Untouched, Payload
<1>6. ASSUME NEW v \in Writers, Pending(call'[v])
      PROVE  /\ Pending(call[v])
             /\ call'[v].task = call[v].task /\ call'[v].payload = call[v].payload
  BY <1>2, <1>6
<1>7. ASSUME faults' = 0
      PROVE  faults = 0 /\ \A v \in Writers : Pending(call[v]) => Pending(call'[v])
  BY <1>2, <1>7
<1> QED BY <1>3, <1>4, <1>5, <1>6, <1>7, FeedStays

LEMMA LockFeed ==
  ASSUME LedgerInv, FeedInv, NEW w \in Writers, Lock(w) \/ ReadLast(w)
  PROVE  FeedInv'
<1>1. Shaped /\ OneLeft
  BY DEF LedgerInv, FeedInv
<1>2. /\ UNCHANGED <<rows, appended, faults, subscribers, published>>
      /\ Pending(call[w]) /\ call[w].stage # "idle"
  BY DEF Lock, ReadLast, busVars, Pending
<1>3. PICK c : /\ Turns(w, c) /\ c.stage \in {"last", "append"}
               /\ c.task = call[w].task /\ c.payload = call[w].payload
               /\ c.left = call[w].left
  <2>1. CASE Lock(w)
    <3>1. call' = [call EXCEPT ![w].stage = "last"]
      BY <2>1 DEF Lock
    <3>2. PICK x : x = call[w].previous
      OBVIOUS
    <3>3. PICK c : c = [stage |-> "last", task |-> call[w].task,
                        payload |-> call[w].payload, previous |-> x,
                        left |-> call[w].left]
      OBVIOUS
    <3>4. call' = [call EXCEPT ![w] = c] /\ IsCall(c)
      <4>1. call' = [call EXCEPT ![w] = c]
        BY <3>1, <3>2, <3>3, <1>1, CallWith
      <4> QED BY <4>1, <3>3 DEF IsCall
    <3>5. Turns(w, c)
      BY <3>4 DEF Turns
    <3>6. /\ c.stage \in {"last", "append"}
          /\ c.task = call[w].task /\ c.payload = call[w].payload
          /\ c.left = call[w].left
      BY <3>3
    <3> QED BY <3>5, <3>6
  <2>2. CASE ReadLast(w)
    <3>1. PICK x : x = LastHash(call[w].task)
      OBVIOUS
    <3>2. call' = [call EXCEPT ![w].stage = "append", ![w].previous = x]
      BY <2>2, <3>1 DEF ReadLast
    <3>3. PICK c : c = [stage |-> "append", task |-> call[w].task,
                        payload |-> call[w].payload, previous |-> x,
                        left |-> call[w].left]
      OBVIOUS
    <3>4. call' = [call EXCEPT ![w] = c] /\ IsCall(c)
      <4>1. call' = [call EXCEPT ![w] = c]
        BY <3>2, <3>3, <1>1, CallWith
      <4> QED BY <4>1, <3>3 DEF IsCall
    <3>5. Turns(w, c)
      BY <3>4 DEF Turns
    <3>6. /\ c.stage \in {"last", "append"}
          /\ c.task = call[w].task /\ c.payload = call[w].payload
          /\ c.left = call[w].left
      BY <3>3
    <3> QED BY <3>5, <3>6
  <2> QED BY <2>1, <2>2
<1>4. /\ Pending(c) /\ c.task = call[w].task /\ c.payload = call[w].payload
      /\ c.left = 1
  BY <1>1, <1>2, <1>3 DEF Pending, OneLeft
<1> QED BY <1>2, <1>3, <1>4, FeedTurn

LEMMA UnlockFeed ==
  ASSUME LedgerInv, FeedInv, NEW w \in Writers, Unlock(w) \/ Fail(w)
  PROVE  FeedInv'
<1>1. Shaped /\ OneLeft /\ TypeOK
  BY DEF LedgerInv, FeedInv
<1>2. /\ UNCHANGED <<rows, appended, subscribers, published>>
      /\ call[w].stage # "idle"
      /\ call' = [call EXCEPT ![w] = AfterHandler(w)]
  BY DEF Unlock, Fail, busVars
<1>3. AfterHandler(w) = IdleCall
  BY <1>1, <1>2 DEF OneLeft, AfterHandler
<1>4. PICK c : c = IdleCall
  OBVIOUS
<1>5. Turns(w, c) /\ ~ Pending(c) /\ c.stage = "idle"
  BY <1>2, <1>3, <1>4 DEF Turns, IsCall, IdleCall, Pending
<1>6. \/ faults' = faults /\ (Pending(call[w]) => Pending(c))
      \/ faults' # 0
  <2>1. CASE Unlock(w)
    BY <2>1 DEF Unlock, Pending
  <2>2. CASE Fail(w)
    <3>1. faults' = faults + 1 /\ faults \in 0..MaxFaults
      BY <2>2, <1>1 DEF Fail, Fault, TypeOK
    <3> QED BY <3>1, LedgerAssumption
  <2> QED BY <2>1, <2>2
<1> QED BY <1>2, <1>5, <1>6, FeedTurn

\* Each topic is subscribed to once, so that no event is recorded twice.
LEMMA OneHandler ==
  ASSUME InOrder, NEW e, Len(subscribers) \in Nat,
         DOMAIN subscribers = 1..Len(subscribers), Handlers(e) # {}
  PROVE  IsFiniteSet(Handlers(e)) /\ Cardinality(Handlers(e)) = 1
<1>1. PICK i \in Handlers(e) : TRUE
  OBVIOUS
<1>2. \A j \in Handlers(e) : j \in 1..5 /\ Subscriptions[j] = e.topic
  BY DEF Handlers, InOrder
<1>3. \A m, n \in 1..5 : Subscriptions[m] = Subscriptions[n] => m = n
  BY DEF Subscriptions
<1>4. Handlers(e) = {i}
  BY <1>1, <1>2, <1>3
<1> QED BY <1>4, FS_Singleton

\* Once the router is set up every recorded event has a handler.
LEMMA SomeHandler ==
  ASSUME InOrder, NEW w, IsRunning(w), NEW e \in Events,
         DOMAIN subscribers = 1..Len(subscribers), IsRecorded(e)
  PROVE  Handlers(e) # {}
<1>1. Len(subscribers) = 5
  BY TopicsOfSubscriptions DEF IsRunning
<1>2. e.topic \in Topics
  BY LedgerAssumption
<1>3. PICK i \in 1..5 : Subscriptions[i] = e.topic
  BY <1>2 DEF Subscriptions, Topics
<1>4. i \in Handlers(e)
  BY <1>1, <1>3 DEF Handlers, InOrder
<1> QED BY <1>4

LEMMA PublishFeed ==
  ASSUME LedgerInv, FeedInv, NEW w \in Writers, NEW e \in Events, Publish(w, e)
  PROVE  FeedInv'
<1>1. /\ Shaped /\ InOrder /\ OneLeft /\ Untouched /\ IsFiniteSet(published)
      /\ subscribers \in Seq(Topics)
  BY DEF LedgerInv, FeedInv, TypeOK
<1>2. /\ UNCHANGED <<rows, appended, faults, subscribers>>
      /\ call[w].stage = "idle" /\ IsRunning(w) /\ e \notin published
      /\ published' = published \cup {e}
  BY DEF Publish
<1>3. IsFiniteSet(published') /\ InOrder' /\ Untouched'
  <2>1. IsFiniteSet(published')
    BY <1>1, <1>2, FS_AddElement
  <2> QED BY <2>1, <1>1, <1>2 DEF InOrder, Untouched, Payload
<1>4. PICK src, owed : Matched(src, owed)
  BY DEF FeedInv
<1>5. DOMAIN subscribers = 1..Len(subscribers) /\ Len(subscribers) \in Nat
  BY <1>1
<1>6. \A t : Told(t) \subseteq published
  BY DEF Told
<1>7. CASE Handlers(e) = {}
  <2>1. call' = call
    BY <1>7 DEF Publish
  <2>2. ~ IsRecorded(e)
    BY <1>1, <1>2, <1>5, <1>7, SomeHandler
  <2>3. \A t : Told(t)' = Told(t)
    BY <1>2, <2>2 DEF Told
  <2>4. Matched(src, owed)'
    <3>1. (\A t \in Tasks : Source(appended[t], Told(t), src[t]))'
      BY <1>2, <1>4, <2>3 DEF Matched
    <3>2. Owing(owed)' /\ NotYet(src, owed)'
      <4>1. Owing(owed)'
        BY <1>2, <1>4, <2>1, <2>3 DEF Matched, Owing, Pending, Told
      <4> QED BY <4>1, <1>2, <1>4, <2>1 DEF Matched, NotYet, Pending
    <3>3. NoneLost(src, owed)'
      <4> SUFFICES ASSUME faults = 0, NEW t \in Tasks, NEW f \in Told(t)'
                   PROVE  Recorded(src, t, f)' \/ Owed(owed, f)'
        BY <1>2 DEF NoneLost
      <4>1. Recorded(src, t, f) \/ Owed(owed, f)
        BY <1>4, <2>3 DEF Matched, NoneLost
      <4> QED BY <4>1, <1>2, <2>1 DEF Recorded, Owed, Pending
    <3> QED BY <3>1, <3>2, <3>3 DEF Matched
  <2>5. OneLeft'
    BY <1>1, <2>1 DEF OneLeft
  <2> QED BY <1>3, <2>4, <2>5 DEF FeedInv
<1>8. CASE Handlers(e) # {}
  <2>1. IsRecorded(e) /\ e.task \in Tasks
    BY <1>8, LedgerAssumption DEF Handlers
  <2>2. Cardinality(Handlers(e)) = 1
    BY <1>1, <1>5, <1>8, OneHandler
  <2>3. PICK c : c = [stage |-> "lock", task |-> e.task, payload |-> EntryOf(e),
                      previous |-> NoHash, left |-> 1]
    OBVIOUS
  <2>4. Turns(w, c)
    BY <1>8, <2>2, <2>3 DEF Publish, Turns, IsCall
  <2>5. call'[w] = c /\ \A v \in Writers : v # w => call'[v] = call[v]
    BY <1>1, <2>4, TurnShape
  <2>6. OneLeft'
    BY <1>1, <2>3, <2>5 DEF OneLeft
  <2> DEFINE next == [v \in Writers |-> IF v = w THEN e ELSE owed[v]]
  <2>7. next[w] = e /\ \A v \in Writers : v # w => next[v] = owed[v]
    OBVIOUS
  <2>8. ~ Pending(call[w]) /\ Pending(c) /\ c.task = e.task /\ c.payload = EntryOf(e)
    BY <1>2, <2>3 DEF Pending
  <2> HIDE DEF next
  <2>9. \A v \in Writers : Pending(call[v]) => owed[v] \in published /\ v # w
    BY <1>4, <1>6, <2>8 DEF Matched, Owing
  <2>10. \A t : Told(t)' = Told(t) \cup (IF t = e.task THEN {e} ELSE {})
    BY <1>2, <2>1 DEF Told
  <2>11. \A t \in Tasks : Source(appended'[t], Told(t)', src[t])
    BY <1>2, <1>4, <2>10 DEF Matched, Source
  <2>12. ASSUME NEW v \in Writers, Pending(call'[v])
         PROVE  /\ next[v] \in published' /\ next[v].task = call'[v].task
                /\ IsRecorded(next[v]) /\ EntryOf(next[v]) = call'[v].payload
                /\ \A u \in Writers : Pending(call'[u]) /\ next[u] = next[v] => u = v
                /\ \A t \in Tasks : \A i \in 1..Len(appended'[t]) : src[t][i] # next[v]
    <3>1. CASE v = w
      <4>1. \A u \in Writers : Pending(call'[u]) /\ next[u] = next[v] => u = v
        BY <3>1, <1>2, <2>5, <2>7, <2>9
      <4>2. \A t \in Tasks : \A i \in 1..Len(appended'[t]) : src[t][i] # next[v]
        BY <3>1, <1>2, <1>4, <1>6, <2>7 DEF Matched, Source
      <4> QED BY <3>1, <4>1, <4>2, <1>2, <2>1, <2>5, <2>7, <2>8
    <3>2. CASE v # w
      <4>1. next[v] = owed[v] /\ call'[v] = call[v] /\ Pending(call[v])
        BY <3>2, <2>5, <2>7, <2>12
      <4>2. /\ owed[v] \in Told(call[v].task) /\ EntryOf(owed[v]) = call[v].payload
            /\ \A u \in Writers : Pending(call[u]) /\ owed[u] = owed[v] => u = v
        BY <4>1, <1>4 DEF Matched, Owing
      <4>3. \A u \in Writers : Pending(call'[u]) /\ next[u] = next[v] => u = v
        BY <4>1, <4>2, <1>2, <1>6, <2>5, <2>7
      <4>4. \A t \in Tasks : \A i \in 1..Len(appended'[t]) : src[t][i] # next[v]
        BY <4>1, <1>2, <1>4 DEF Matched, NotYet
      <4> QED BY <4>1, <4>2, <4>3, <4>4, <1>2 DEF Told
    <3> QED BY <3>1, <3>2
  <2>13. Owing(next)' /\ NotYet(src, next)'
    BY <2>12 DEF Owing, NotYet, Pending, Told
  <2>14. NoneLost(src, next)'
    <3> SUFFICES ASSUME faults = 0, NEW t \in Tasks, NEW f \in Told(t)'
                 PROVE  Recorded(src, t, f)' \/ Owed(next, f)'
      BY <1>2 DEF NoneLost
    <3>1. CASE f = e
      BY <3>1, <2>5, <2>7, <2>8 DEF Owed, Pending
    <3>2. CASE f # e
      <4>1. Recorded(src, t, f) \/ Owed(owed, f)
        BY <3>2, <1>4, <2>10 DEF Matched, NoneLost
      <4>2. CASE Recorded(src, t, f)
        BY <4>2, <1>2 DEF Recorded
      <4>3. CASE Owed(owed, f)
        <5>1. PICK v \in Writers : Pending(call[v]) /\ owed[v] = f
          BY <4>3 DEF Owed
        <5>2. v # w /\ Pending(call'[v]) /\ next[v] = f
          BY <5>1, <2>5, <2>7, <2>8
        <5> QED BY <5>2 DEF Owed, Pending
      <4> QED BY <4>1, <4>2, <4>3
    <3> QED BY <3>1, <3>2
  <2>15. Matched(src, next)'
    BY <2>11, <2>13, <2>14 DEF Matched
  <2> QED BY <1>3, <2>6, <2>15 DEF FeedInv
<1> QED BY <1>7, <1>8

LEMMA AppendEntryFeed ==
  ASSUME LedgerInv, FeedInv, NEW w \in Writers, AppendEntry(w)
  PROVE  FeedInv'
<1>1. /\ Shaped /\ InOrder /\ OneLeft /\ Untouched /\ IsFiniteSet(published)
      /\ RowsTyped /\ RowsShaped /\ CallsTyped /\ ChainsFollow
  BY TypeParts DEF LedgerInv, FeedInv, Shaped, RowsShaped
<1>2. /\ UNCHANGED <<mu, faults, subscribers, published>>
      /\ call[w].stage = "append" /\ Pending(call[w])
      /\ call' = [call EXCEPT ![w].stage = "publish"]
  BY DEF AppendEntry, busVars, Pending
<1>3. PICK src, owed : Matched(src, owed)
  BY DEF FeedInv
<1>4. PICK s \in Tasks, p \in Payloads : s = call[w].task /\ p = call[w].payload
  BY <1>1, <1>2 DEF CallsTyped, CallTyped
<1>5. PICK prev : prev = call[w].previous
  OBVIOUS
<1>6. /\ rows' = [rows EXCEPT ![s] = Append(rows[s], NewEntry(s, p, prev))]
      /\ appended' = [appended EXCEPT ![s] = Append(appended[s], p)]
  BY <1>4, <1>5 DEF AppendEntry
<1>7. PICK said \in Seq(Payloads) : said = appended[s]
  BY <1>1 DEF RowsTyped
<1>8. PICK n \in Nat : n = Len(said)
  BY <1>7
<1>9. /\ appended'[s] = Append(said, p)
      /\ \A t \in Tasks : t # s => appended'[t] = appended[t]
  BY <1>1, <1>6, <1>7 DEF RowsShaped
<1>10. /\ Len(appended'[s]) = n + 1 /\ appended'[s][n + 1] = p
      /\ \A i \in 1..n : appended'[s][i] = said[i]
  BY <1>7, <1>8, <1>9
<1>11. PICK c : c = [stage |-> "publish", task |-> call[w].task,
                     payload |-> call[w].payload, previous |-> call[w].previous,
                     left |-> call[w].left]
  OBVIOUS
<1>12. Turns(w, c)
  <2>1. PICK x : x = "publish"
    OBVIOUS
  <2>2. call' = [call EXCEPT ![w] = c]
    BY <1>1, <1>2, <1>11, <2>1, CallWith
  <2> QED BY <2>2, <1>11 DEF Turns, IsCall
<1>13. /\ call'[w] = c /\ ~ Pending(c)
       /\ \A v \in Writers : v # w => call'[v] = call[v]
  BY <1>1, <1>11, <1>12, TurnShape DEF Pending
<1>14. InOrder' /\ OneLeft'
  <2>1. c.left = 1
    BY <1>1, <1>2, <1>11 DEF OneLeft
  <2>2. OneLeft'
    BY <2>1, <1>1, <1>13 DEF OneLeft
  <2> QED BY <2>2, <1>1, <1>2 DEF InOrder
<1>15. Untouched'
  <2> SUFFICES ASSUME faults = 0, NEW t \in Tasks
               PROVE  Payload(rows'[t]) = appended'[t]
    BY <1>2 DEF Untouched, Payload
  <2>1. Payload(rows[t]) = appended[t]
    BY <1>1 DEF Untouched
  <2>2. CASE t # s
    BY <2>1, <2>2, <1>1, <1>6, <1>9 DEF RowsShaped
  <2>3. CASE t = s
    <3>1. rows'[s] = Append(rows[s], NewEntry(s, p, prev))
      BY <1>1, <1>6 DEF RowsShaped
    <3>2. PICK S : rows[s] \in Seq(S)
      <4>1. Follows(s, rows[s], appended[s])
        BY <1>1 DEF ChainsFollow
      <4> QED BY <4>1 DEF Follows
    <3>3. PICK row : row = NewEntry(s, p, prev)
      OBVIOUS
    <3>4. row.payload = p
      BY <3>3 DEF NewEntry
    <3>5. PICK old : old = rows[s]
      OBVIOUS
    <3>6. old \in Seq(S) /\ Payload(old) = said /\ rows'[s] = Append(old, row)
      BY <2>1, <2>3, <3>1, <3>2, <3>3, <3>5, <1>7
    <3>7. Payload(Append(old, row)) = Append(said, p)
      <4>1. Len(old) \in Nat /\ DOMAIN old = 1..Len(old)
        BY <3>6
      <4>2. Len(said) = Len(old) /\ \A i \in 1..Len(old) : said[i] = old[i].payload
        BY <4>1, <3>6, <1>7 DEF Payload
      <4> DEFINE more == Append(old, row)
      <4>3. /\ DOMAIN more = 1..Len(old) + 1 /\ more[Len(old) + 1] = row
            /\ \A i \in 1..Len(old) : more[i] = old[i]
        BY <4>1, <3>6
      <4>4. /\ DOMAIN Append(said, p) = 1..Len(old) + 1
            /\ Append(said, p)[Len(old) + 1] = p
            /\ \A i \in 1..Len(old) : Append(said, p)[i] = said[i]
        BY <4>1, <4>2, <1>7
      <4>5. Append(said, p) = [i \in 1..Len(old) + 1 |-> Append(said, p)[i]]
        BY <4>4, <1>7
      <4> HIDE DEF more
      <4>6. \A i \in 1..Len(old) + 1 : more[i].payload = Append(said, p)[i]
        BY <4>1, <4>2, <4>3, <4>4, <3>4
      <4>7. Payload(more) = [i \in 1..Len(old) + 1 |-> more[i].payload]
        BY <4>3 DEF Payload
      <4> QED BY <4>5, <4>6, <4>7 DEF more
    <3> QED BY <2>3, <3>6, <3>7, <1>9
  <2> QED BY <2>2, <2>3
<1>16. PICK next :
         next = [t \in Tasks |-> [i \in 1..Len(appended'[t]) |->
                   IF t = s /\ i = n + 1 THEN owed[w] ELSE src[t][i]]]
  OBVIOUS
<1>17. /\ next[s][n + 1] = owed[w]
       /\ \A i \in 1..n : next[s][i] = src[s][i]
       /\ \A t \in Tasks : t # s => \A i \in 1..Len(appended[t]) : next[t][i] = src[t][i]
  BY <1>9, <1>10, <1>16
<1>18. \A t : Told(t)' = Told(t)
  BY <1>2 DEF Told
<1>19. /\ owed[w] \in Told(s) /\ EntryOf(owed[w]) = p
       /\ \A i \in 1..n : src[s][i] # owed[w]
       /\ \A v \in Writers : Pending(call[v]) /\ v # w => owed[v] # owed[w]
  BY <1>2, <1>3, <1>4, <1>7, <1>8 DEF Matched, Owing, NotYet
<1>20. ASSUME NEW t \in Tasks PROVE Source(appended'[t], Told(t)', next[t])
  <2>1. Source(appended[t], Told(t), src[t])
    BY <1>3 DEF Matched
  <2>2. CASE t # s
    BY <2>1, <2>2, <1>9, <1>17, <1>18 DEF Source
  <2>3. CASE t = s
    <3>1. /\ \A i \in 1..n : src[s][i] \in Told(s) /\ EntryOf(src[s][i]) = said[i]
          /\ \A i, j \in 1..n : src[s][i] = src[s][j] => i = j
      BY <2>1, <2>3, <1>7, <1>8 DEF Source
    <3>2. \A i \in 1..n + 1 : /\ next[s][i] \in Told(s)
                              /\ EntryOf(next[s][i]) = appended'[s][i]
      <4> TAKE i \in 1..n + 1
      <4>1. CASE i = n + 1
        BY <4>1, <1>10, <1>17, <1>19
      <4>2. CASE i # n + 1
        <5>1. i \in 1..n
          BY <4>2
        <5> QED BY <5>1, <3>1, <1>10, <1>17
      <4> QED BY <4>1, <4>2
    <3>3. ASSUME NEW i \in 1..n + 1, NEW j \in 1..n + 1, next[s][i] = next[s][j]
          PROVE  i = j
      <4>1. CASE i # n + 1 /\ j # n + 1
        <5>1. i \in 1..n /\ j \in 1..n
          BY <4>1
        <5> QED BY <5>1, <3>1, <3>3, <1>17
      <4>2. CASE i = n + 1 /\ j # n + 1
        <5>1. j \in 1..n
          BY <4>2
        <5> QED BY <5>1, <4>2, <3>3, <1>17, <1>19
      <4>3. CASE i # n + 1 /\ j = n + 1
        <5>1. i \in 1..n
          BY <4>3
        <5> QED BY <5>1, <4>3, <3>3, <1>17, <1>19
      <4> QED BY <4>1, <4>2, <4>3
    <3> QED BY <2>3, <3>2, <3>3, <1>10, <1>18 DEF Source
  <2> QED BY <2>2, <2>3
<1>21. ASSUME NEW v \in Writers, Pending(call'[v])
       PROVE  /\ owed[v] \in published' /\ owed[v].task = call'[v].task
              /\ IsRecorded(owed[v]) /\ EntryOf(owed[v]) = call'[v].payload
              /\ \A u \in Writers : Pending(call'[u]) /\ owed[u] = owed[v] => u = v
              /\ \A t \in Tasks : \A i \in 1..Len(appended'[t]) : next[t][i] # owed[v]
  <2>1. v # w /\ call'[v] = call[v] /\ Pending(call[v])
    BY <1>13, <1>21
  <2>2. /\ owed[v] \in Told(call[v].task) /\ EntryOf(owed[v]) = call[v].payload
        /\ \A u \in Writers : Pending(call[u]) /\ owed[u] = owed[v] => u = v
    BY <2>1, <1>3 DEF Matched, Owing
  <2>3. \A u \in Writers : Pending(call'[u]) /\ owed[u] = owed[v] => u = v
    BY <2>2, <1>13
  <2>4. ASSUME NEW t \in Tasks, NEW i \in 1..Len(appended'[t]) PROVE next[t][i] # owed[v]
    <3>1. \A j \in 1..Len(appended[t]) : src[t][j] # owed[v]
      BY <2>1, <1>3 DEF Matched, NotYet
    <3>2. CASE t # s
      BY <3>1, <3>2, <1>9, <1>17
    <3>3. CASE t = s /\ i = n + 1
      BY <3>3, <2>1, <1>17, <1>19
    <3>4. CASE t = s /\ i # n + 1
      <4>1. i \in 1..n
        BY <3>4, <1>10
      <4> QED BY <4>1, <3>1, <3>4, <1>7, <1>8, <1>17
    <3> QED BY <3>2, <3>3, <3>4
  <2> QED BY <2>1, <2>2, <2>3, <2>4, <1>2 DEF Told
<1>22. Owing(owed)' /\ NotYet(next, owed)'
  BY <1>21 DEF Owing, NotYet, Pending, Told
<1>23. NoneLost(next, owed)'
  <2> SUFFICES ASSUME faults = 0, NEW t \in Tasks, NEW e \in Told(t)'
               PROVE  Recorded(next, t, e)' \/ Owed(owed, e)'
    BY <1>2 DEF NoneLost
  <2>1. Recorded(src, t, e) \/ Owed(owed, e)
    BY <1>3, <1>18 DEF Matched, NoneLost
  <2>2. CASE Recorded(src, t, e)
    <3>1. PICK i \in 1..Len(appended[t]) : src[t][i] = e
      BY <2>2 DEF Recorded
    <3>2. i \in 1..Len(appended'[t]) /\ next[t][i] = e
      BY <3>1, <1>7, <1>8, <1>9, <1>10, <1>17
    <3> QED BY <3>2 DEF Recorded
  <2>3. CASE Owed(owed, e)
    <3>1. PICK v \in Writers : Pending(call[v]) /\ owed[v] = e
      BY <2>3 DEF Owed
    <3>2. CASE v = w
      <4>1. t = s
        BY <3>1, <3>2, <1>18, <1>19 DEF Told
      <4>2. n + 1 \in 1..Len(appended'[t]) /\ next[t][n + 1] = e
        BY <4>1, <3>1, <3>2, <1>10, <1>17
      <4> QED BY <4>2 DEF Recorded
    <3>3. CASE v # w
      BY <3>1, <3>3, <1>13 DEF Owed, Pending
    <3> QED BY <3>2, <3>3
  <2> QED BY <2>1, <2>2, <2>3
<1>24. Matched(next, owed)'
  BY <1>20, <1>22, <1>23 DEF Matched
<1>25. IsFiniteSet(published')
  BY <1>1, <1>2
<1> QED BY <1>14, <1>15, <1>24, <1>25 DEF FeedInv

LEMMA OtherFeed ==
  ASSUME LedgerInv, FeedInv,
         \/ Subscribe \/ Crash \/ UNCHANGED vars
         \/ \E t \in Tasks : \E i \in DOMAIN rows[t] :
              DeleteRow(t, i) \/ \E p \in Payloads : EditRow(t, i, p)
  PROVE  FeedInv'
<1>1. /\ InOrder /\ OneLeft /\ Untouched /\ subscribers \in Seq(Topics)
      /\ faults \in 0..MaxFaults
  BY DEF LedgerInv, FeedInv, TypeOK
<1>2. Fault => faults' # 0
  BY <1>1, LedgerAssumption DEF Fault
<1>3. CASE Subscribe
  <2>1. /\ UNCHANGED <<mu, call, rows, appended, faults, published>>
        /\ subscribers' = Append(subscribers, Subscriptions[Len(subscribers) + 1])
        /\ Len(subscribers) < 5
    BY <1>3, TopicsOfSubscriptions DEF Subscribe
  <2>2. InOrder'
    <3>1. PICK x : x = Subscriptions[Len(subscribers) + 1]
      OBVIOUS
    <3>2. /\ Len(subscribers') = Len(subscribers) + 1 /\ Len(subscribers) \in Nat
          /\ subscribers'[Len(subscribers) + 1] = x
          /\ \A i \in 1..Len(subscribers) : subscribers'[i] = subscribers[i]
      BY <1>1, <2>1, <3>1
    <3> QED BY <1>1, <2>1, <3>1, <3>2 DEF InOrder
  <2>3. OneLeft' /\ Untouched'
    BY <1>1, <2>1 DEF OneLeft, Untouched, Payload
  <2>4. \A w \in Writers : Pending(call'[w]) <=> Pending(call[w])
    BY <2>1
  <2> QED BY <2>1, <2>2, <2>3, <2>4, FeedStays
<1>4. CASE Crash
  <2>1. /\ UNCHANGED <<rows, appended, published>> /\ subscribers' = <<>>
        /\ faults' # 0
        /\ \A w \in Writers : call'[w] = IdleCall
    BY <1>2, <1>4 DEF Crash
  <2>2. InOrder'
    BY <2>1 DEF InOrder
  <2>3. \A w \in Writers : call'[w].stage = "idle" /\ ~ Pending(call'[w])
    BY <2>1 DEF IdleCall, Pending
  <2>4. OneLeft' /\ Untouched'
    BY <2>1, <2>3 DEF OneLeft, Untouched
  <2> QED BY <2>1, <2>2, <2>3, <2>4, FeedStays
<1>5. CASE UNCHANGED vars
  <2>1. UNCHANGED <<mu, call, rows, appended, faults, subscribers, published>>
    BY <1>5 DEF vars
  <2>2. InOrder' /\ OneLeft' /\ Untouched'
    BY <1>1, <2>1 DEF InOrder, OneLeft, Untouched, Payload
  <2>3. \A w \in Writers : Pending(call'[w]) <=> Pending(call[w])
    BY <2>1
  <2> QED BY <2>1, <2>2, <2>3, FeedStays
<1>6. CASE \E t \in Tasks : \E i \in DOMAIN rows[t] :
              DeleteRow(t, i) \/ \E p \in Payloads : EditRow(t, i, p)
  <2>1. UNCHANGED <<mu, call, appended, subscribers, published>> /\ faults' # 0
    BY <1>2, <1>6 DEF DeleteRow, EditRow, busVars
  <2>2. InOrder' /\ OneLeft' /\ Untouched'
    BY <1>1, <2>1 DEF InOrder, OneLeft, Untouched
  <2>3. \A w \in Writers : Pending(call'[w]) <=> Pending(call[w])
    BY <2>1
  <2> QED BY <2>1, <2>2, <2>3, FeedStays
<1> QED BY <1>3, <1>4, <1>5, <1>6

LEMMA InitFeed == Init => FeedInv
<1> SUFFICES ASSUME Init PROVE FeedInv
  OBVIOUS
<1>1. /\ \A w \in Writers : call[w] = IdleCall
      /\ rows = [t \in Tasks |-> <<>>] /\ appended = [t \in Tasks |-> <<>>]
      /\ subscribers = <<>> /\ published = {}
  BY DEF Init
<1>2. \A w \in Writers : call[w].stage = "idle" /\ ~ Pending(call[w])
  BY <1>1 DEF IdleCall, Pending
<1>3. InOrder /\ OneLeft
  BY <1>1, <1>2 DEF InOrder, OneLeft
<1>4. Untouched
  BY <1>1 DEF Untouched, Payload
<1>5. \A t \in Tasks : Told(t) = {} /\ Len(appended[t]) = 0
  BY <1>1 DEF Told
<1>6. PICK src, owed : src = {} /\ owed = {}
  OBVIOUS
<1>7. Matched(src, owed)
  BY <1>2, <1>5 DEF Matched, Source, Owing, NotYet, NoneLost
<1> QED BY <1>1, <1>3, <1>4, <1>7, FS_EmptySet DEF FeedInv

LEMMA NextFeed == LedgerInv /\ FeedInv /\ [Next]_vars => FeedInv'
<1> SUFFICES ASSUME LedgerInv, FeedInv, [Next]_vars PROVE FeedInv'
  OBVIOUS
<1>1. ASSUME NEW w \in Writers, NEW e \in Events, Publish(w, e) PROVE FeedInv'
  BY <1>1, PublishFeed
<1>2. ASSUME NEW w \in Writers, Lock(w) \/ WriterStep(w) \/ Fail(w) PROVE FeedInv'
  BY <1>2, LockFeed, AppendEntryFeed, UnlockFeed DEF WriterStep
<1>3. CASE Subscribe \/ Crash \/ UNCHANGED vars
  BY <1>3, OtherFeed
<1>4. ASSUME NEW t \in Tasks, NEW i \in DOMAIN rows[t],
             DeleteRow(t, i) \/ \E p \in Payloads : EditRow(t, i, p)
      PROVE  FeedInv'
  BY <1>4, OtherFeed
<1> QED BY <1>1, <1>2, <1>3, <1>4 DEF Next

\* Every entry has its event.
THEOREM FeedInvariant == Spec => []FeedInv
<1>1. Init => FeedInv
  BY InitFeed
<1>2. LedgerInv /\ FeedInv /\ [Next]_vars => FeedInv'
  BY NextFeed
<1> QED BY <1>1, <1>2, LedgerInvariant, PTL DEF Spec

-----------------------------------------------------------------------------
(* Sums of naturals, as counts of their units.                             *)

\* One pair for each unit of each f[x].
Units(f, S) == {p \in S \X Nat : p[2] \in 1..f[p[1]]}

LEMMA UnitsOfOne ==
  ASSUME NEW f, NEW x, f[x] \in Nat
  PROVE  IsFiniteSet(Units(f, {x})) /\ Cardinality(Units(f, {x})) = f[x]
<1> DEFINE U == Units(f, {x})
           b == [n \in 1..f[x] |-> <<x, n>>]
<1>1. \A p \in U : p[1] = x /\ p[2] \in 1..f[x] /\ p = <<x, p[2]>>
  BY DEF Units
<1>2. \A n \in 1..f[x] : <<x, n>> \in U
  BY DEF Units
<1>3. IsFiniteSet(1..f[x]) /\ Cardinality(1..f[x]) = f[x]
  <2>1. 1 \in Int /\ f[x] \in Int
    OBVIOUS
  <2> QED BY <2>1, FS_Interval
<1>4. b \in Bijection(1..f[x], U)
  <2> HIDE DEF U
  <2>1. b \in [1..f[x] -> U]
    BY <1>2
  <2>2. \A m, n \in 1..f[x] : b[m] = b[n] => m = n
    <3>1. \A m, n : <<x, m>> = <<x, n>> => m = n
      OBVIOUS
    <3> QED BY <3>1
  <2>3. \A p \in U : \E n \in 1..f[x] : b[n] = p
    BY <1>1
  <2> HIDE DEF b
  <2> QED BY <2>1, <2>2, <2>3 DEF Bijection, Injection, Surjection, IsInjective
<1> HIDE DEF U, b
<1>5. ExistsBijection(1..f[x], U)
  BY <1>4 DEF ExistsBijection
<1>6. IsFiniteSet(U) /\ Cardinality(U) = f[x]
  BY <1>3, <1>5, FS_Bijection
<1> QED BY <1>6 DEF U

LEMMA UnitsOfEmpty == \A f : Units(f, {}) = {}
  BY DEF Units

LEMMA UnitsAdd ==
  ASSUME NEW f, NEW S, IsFiniteSet(Units(f, S)), NEW x, x \notin S, f[x] \in Nat
  PROVE  /\ IsFiniteSet(Units(f, S \cup {x}))
         /\ Cardinality(Units(f, S \cup {x})) = Cardinality(Units(f, S)) + f[x]
<1> DEFINE A == Units(f, S)
           B == Units(f, {x})
<1>1. Units(f, S \cup {x}) = A \cup B
  BY DEF Units
<1>2. A \cap B = {}
  BY DEF Units
<1>3. IsFiniteSet(B) /\ Cardinality(B) = f[x]
  BY UnitsOfOne
<1> HIDE DEF A, B
<1>4. IsFiniteSet(A)
  BY DEF A
<1>5. /\ IsFiniteSet(A \cup B)
      /\ Cardinality(A \cup B) = Cardinality(A) + Cardinality(B) - Cardinality(A \cap B)
  BY <1>3, <1>4, FS_Union
<1>6. Cardinality(A) \in Nat /\ Cardinality({}) = 0
  BY <1>4, FS_CardinalityType, FS_EmptySet
<1>7. /\ IsFiniteSet(A \cup B)
      /\ Cardinality(A \cup B) = Cardinality(A) + f[x]
  <2>1. Cardinality(A \cap B) = 0
    BY <1>2, <1>6, Zenon
  <2> QED BY <2>1, <1>3, <1>5, <1>6
<1> QED BY <1>1, <1>7 DEF A

\* Sets with a finite count, below a finite set.
LEMMA UnitsFinite ==
  ASSUME NEW S, IsFiniteSet(S), NEW f, \A x \in S : f[x] \in Nat
  PROVE  \A s \in SUBSET S : IsFiniteSet(Units(f, s))
<1> DEFINE T == {s \in SUBSET S : ~ IsFiniteSet(Units(f, s))}
<1> SUFFICES ASSUME T # {} PROVE FALSE
  OBVIOUS
<1>1. IsWellFoundedOn(StrictSubsetOrdering(S), SUBSET S)
  BY FS_StrictSubsetOrderingWellFounded, FS_FiniteSubsetsOfFinite
<1>2. PICK s \in T : \A r \in T : ~ (<<r, s>> \in StrictSubsetOrdering(S))
  <2> HIDE DEF T
  <2>1. T \subseteq SUBSET S
    BY DEF T
  <2> QED BY <1>1, <2>1, WFMin
<1>3. s \in SUBSET S /\ ~ IsFiniteSet(Units(f, s))
  OBVIOUS
<1>4. s # {}
  BY <1>3, UnitsOfEmpty, FS_EmptySet
<1>5. PICK x \in s : TRUE
  BY <1>4
<1>6. s \ {x} \in SUBSET S /\ <<s \ {x}, s>> \in StrictSubsetOrdering(S)
  BY <1>3, <1>5 DEF StrictSubsetOrdering
<1>7. IsFiniteSet(Units(f, s \ {x}))
  BY <1>2, <1>6
<1>8. s = (s \ {x}) \cup {x}
  BY <1>5
<1>9. f[x] \in Nat
  BY <1>3, <1>5
<1>10. IsFiniteSet(Units(f, (s \ {x}) \cup {x}))
  BY <1>7, <1>9, UnitsAdd
<1> QED BY <1>3, <1>8, <1>10

Adds(g, f, S) ==
  g = [s \in SUBSET S |->
         IF s = {} THEN 0
         ELSE f[CHOOSE x \in s : TRUE] + g[s \ {CHOOSE x \in s : TRUE}]]

LEMMA SumIsAddition ==
  ASSUME NEW f, NEW S
  PROVE  SumFunctionOnSet(f, S) = (CHOOSE g : Adds(g, f, S))[S]
  BY DEF SumFunctionOnSet, FoldFunctionOnSet, MapThenFoldSet, Adds

\* A sum of naturals counts their units.
LEMMA SumCounts ==
  ASSUME NEW S, IsFiniteSet(S), NEW f, \A x \in S : f[x] \in Nat
  PROVE  SumFunctionOnSet(f, S) = Cardinality(Units(f, S))
<1> DEFINE Count(s) == Cardinality(Units(f, s))
           any(s) == CHOOSE x \in s : TRUE
<1>1. \A s : s # {} => any(s) \in s
  OBVIOUS
<1>2. \A s \in SUBSET S : IsFiniteSet(Units(f, s))
  BY UnitsFinite
<1>3. Count({}) = 0
  BY UnitsOfEmpty, FS_EmptySet
<1>4. ASSUME NEW s \in SUBSET S, s # {}
      PROVE  Count(s) = f[any(s)] + Count(s \ {any(s)})
  <2>1. PICK x \in s : x = any(s)
    BY <1>4, <1>1
  <2>2. s = (s \ {x}) \cup {x} /\ s \ {x} \in SUBSET S /\ f[x] \in Nat
    BY <2>1
  <2>3. IsFiniteSet(Units(f, s \ {x}))
    BY <2>2, <1>2
  <2>4. Cardinality(Units(f, (s \ {x}) \cup {x})) = Cardinality(Units(f, s \ {x})) + f[x]
    BY <2>2, <2>3, UnitsAdd
  <2>5. Cardinality(Units(f, s \ {x})) \in Nat
    BY <2>3, FS_CardinalityType
  <2>6. Count(s) = f[x] + Count(s \ {x})
    <3>1. Count(s) = Cardinality(Units(f, s \ {x})) + f[x]
      BY <2>2, <2>4
    <3>2. Count(s \ {x}) \in Nat
      BY <2>5
    <3> QED BY <2>2, <3>1, <3>2
  <2> QED BY <2>1, <2>6
<1> HIDE DEF Count, any
<1> DEFINE g == [s \in SUBSET S |-> Count(s)]
<1>5. Adds(g, f, S)
  <2>1. \A s \in SUBSET S : g[s] = IF s = {} THEN 0 ELSE f[any(s)] + g[s \ {any(s)}]
    <3> SUFFICES ASSUME NEW s \in SUBSET S
                 PROVE  g[s] = IF s = {} THEN 0 ELSE f[any(s)] + g[s \ {any(s)}]
      OBVIOUS
    <3>1. CASE s = {}
      BY <3>1, <1>3
    <3>2. CASE s # {}
      <4>1. s \ {any(s)} \in SUBSET S
        OBVIOUS
      <4>2. g[s] = Count(s) /\ g[s \ {any(s)}] = Count(s \ {any(s)})
        BY <4>1
      <4> QED BY <3>2, <4>2, <1>4
    <3> QED BY <3>1, <3>2
  <2>2. g = [s \in SUBSET S |-> g[s]]
    OBVIOUS
  <2> HIDE DEF g
  <2>3. g = [s \in SUBSET S |-> IF s = {} THEN 0 ELSE f[any(s)] + g[s \ {any(s)}]]
    BY <2>1, <2>2
  <2> QED BY <2>3 DEF Adds, any
<1>6. PICK h : h = CHOOSE k : Adds(k, f, S)
  OBVIOUS
<1>7. Adds(h, f, S)
  BY <1>5, <1>6
<1>8. \A s \in SUBSET S : h[s] = IF s = {} THEN 0 ELSE f[any(s)] + h[s \ {any(s)}]
  BY <1>7 DEF Adds, any
<1> DEFINE T == {s \in SUBSET S : h[s] # Count(s)}
<1>9. T = {}
  <2> SUFFICES ASSUME T # {} PROVE FALSE
    OBVIOUS
  <2>1. IsWellFoundedOn(StrictSubsetOrdering(S), SUBSET S)
    BY FS_StrictSubsetOrderingWellFounded, FS_FiniteSubsetsOfFinite
  <2>2. PICK s \in T : \A r \in T : ~ (<<r, s>> \in StrictSubsetOrdering(S))
    <3> HIDE DEF T
    <3>1. T \subseteq SUBSET S
      BY DEF T
    <3> QED BY <2>1, <3>1, WFMin
  <2>3. s \in SUBSET S /\ h[s] # Count(s)
    OBVIOUS
  <2>4. s # {}
    BY <2>3, <1>3, <1>8
  <2>5. s \ {any(s)} \in SUBSET S /\ <<s \ {any(s)}, s>> \in StrictSubsetOrdering(S)
    BY <2>3, <2>4, <1>1 DEF StrictSubsetOrdering
  <2>6. h[s \ {any(s)}] = Count(s \ {any(s)})
    BY <2>2, <2>5
  <2>7. h[s] = f[any(s)] + h[s \ {any(s)}]
    BY <2>3, <2>4, <1>8
  <2> QED BY <2>3, <2>4, <2>6, <2>7, <1>4
<1>10. h[S] = Count(S)
  BY <1>9
<1> QED BY <1>6, <1>10, SumIsAddition DEF Count

\* Summands that are among the others, each its own, make no larger a sum, and
\* the same one when they are all of the others.
LEMMA SumOfSome ==
  ASSUME NEW S, NEW T, IsFiniteSet(T), NEW g \in Injection(S, T), NEW a, NEW b,
         \A x \in S : a[x] = b[g[x]], \A y \in T : b[y] \in Nat
  PROVE  /\ SumFunctionOnSet(a, S) <= SumFunctionOnSet(b, T)
         /\ g \in Surjection(S, T) => SumFunctionOnSet(a, S) = SumFunctionOnSet(b, T)
<1>1. /\ IsFiniteSet(S) /\ g \in [S -> T]
      /\ \A x, y \in S : g[x] = g[y] => x = y
  <2>1. g \in [S -> T] /\ \A x, y \in S : g[x] = g[y] => x = y
    BY DEF Injection, IsInjective
  <2> QED BY <2>1, FS_Injection
<1>2. \A x \in S : a[x] \in Nat /\ g[x] \in T
  BY <1>1
<1> DEFINE U == Units(a, S)
           V == Units(b, T)
           m == [p \in U |-> <<g[p[1]], p[2]>>]
<1>3. IsFiniteSet(V)
  BY UnitsFinite
<1>4. SumFunctionOnSet(a, S) = Cardinality(U) /\ SumFunctionOnSet(b, T) = Cardinality(V)
  BY <1>1, <1>2, SumCounts
<1>5. \A p \in U : p[1] \in S /\ p[2] \in 1..a[p[1]] /\ p[2] \in Nat /\ p = <<p[1], p[2]>>
  BY DEF Units
<1>6. \A x \in S : \A n \in 1..a[x] : <<x, n>> \in U
  BY <1>2 DEF Units
<1>7. \A y \in T : \A n \in 1..b[y] : <<y, n>> \in V
  BY DEF Units
<1>8. \A q \in V : q[1] \in T /\ q[2] \in 1..b[q[1]] /\ q = <<q[1], q[2]>>
  BY DEF Units
<1> HIDE DEF U, V
<1>9. m \in [U -> V]
  <2> SUFFICES ASSUME NEW p \in U PROVE <<g[p[1]], p[2]>> \in V
    OBVIOUS
  <2> QED BY <1>2, <1>5, <1>7
<1>10. \A p, q \in U : m[p] = m[q] => p = q
  <2> SUFFICES ASSUME NEW p \in U, NEW q \in U, <<g[p[1]], p[2]>> = <<g[q[1]], q[2]>>
               PROVE  p = q
    OBVIOUS
  <2>1. g[p[1]] = g[q[1]] /\ p[2] = q[2]
    OBVIOUS
  <2>2. p[1] = q[1]
    BY <2>1, <1>1, <1>5
  <2> QED BY <2>1, <2>2, <1>5
<1>11. m \in Injection(U, V)
  BY <1>9, <1>10 DEF Injection, IsInjective
<1>12. Cardinality(U) <= Cardinality(V)
  <2> HIDE DEF m
  <2> QED BY <1>3, <1>11, FS_Injection
<1>13. ASSUME g \in Surjection(S, T) PROVE Cardinality(U) = Cardinality(V)
  <2>1. ASSUME NEW q \in V PROVE \E p \in U : m[p] = q
    <3>1. PICK x \in S : g[x] = q[1]
      BY <1>8, <1>13 DEF Surjection
    <3>2. <<x, q[2]>> \in U
      BY <3>1, <1>6, <1>8
    <3>3. m[<<x, q[2]>>] = <<g[x], q[2]>>
      BY <3>2
    <3> QED BY <3>1, <3>2, <3>3, <1>8
  <2>2. m \in Surjection(U, V)
    <3> HIDE DEF m
    <3> QED BY <1>9, <2>1 DEF Surjection
  <2>3. ExistsBijection(U, V)
    <3> HIDE DEF m
    <3> QED BY <1>11, <2>2 DEF ExistsBijection, Bijection
  <2>4. IsFiniteSet(U)
    <3> HIDE DEF m
    <3> QED BY <1>3, <1>11, FS_Injection
  <2> QED BY <2>3, <2>4, FS_Bijection
<1> HIDE DEF m
<1> QED BY <1>4, <1>12, <1>13

-----------------------------------------------------------------------------
(* What the entries and the balance say of the events.                     *)

\* What is known of a task's entries, in any state of the system.
LEMMA EntriesHaveSources ==
  ASSUME LedgerInv, FeedInv, NEW t \in Tasks
  PROVE  /\ IsFiniteSet(Told(t)) /\ appended[t] \in Seq(Payloads)
         /\ \E src : /\ Source(appended[t], Told(t), src)
                     /\ Undisturbed => \A e \in Told(t) :
                          \E i \in 1..Len(appended[t]) : src[i] = e
<1>1. IsFiniteSet(Told(t))
  <2>1. Told(t) \in SUBSET published
    BY DEF Told
  <2> QED BY <2>1, FS_Subset DEF FeedInv
<1>2. appended[t] \in Seq(Payloads)
  BY TypeParts DEF LedgerInv, RowsTyped
<1>3. PICK src, owed : Matched(src, owed)
  BY DEF FeedInv
<1>4. Source(appended[t], Told(t), src[t])
  BY <1>3 DEF Matched
<1>5. ASSUME Undisturbed, NEW e \in Told(t)
      PROVE  \E i \in 1..Len(appended[t]) : src[t][i] = e
  <2>1. ~ Owed(owed, e)
    BY <1>5 DEF Undisturbed, Owed, Pending
  <2> QED BY <2>1, <1>3, <1>5 DEF Matched, NoneLost, Recorded, Undisturbed
<1> QED BY <1>1, <1>2, <1>4, <1>5

\* RecordValidatedTransaction's entries are those of the events that were
\* published: none without its event, none twice, and after publications that
\* all returned without a fault none missing.
THEOREM LedgerFollowsEventsAlways == Spec => []LedgerFollowsEvents
<1>1. LedgerInv /\ FeedInv => LedgerFollowsEvents
  <2> SUFFICES ASSUME LedgerInv, FeedInv, NEW t \in Tasks
               PROVE  /\ \A p \in Payloads :
                           Cardinality({i \in DOMAIN appended[t] : appended[t][i] = p})
                             <= Cardinality({e \in Told(t) : EntryOf(e) = p})
                      /\ Undisturbed => Len(appended[t]) = Cardinality(Told(t))
    BY DEF LedgerFollowsEvents
  <2>1. IsFiniteSet(Told(t)) /\ appended[t] \in Seq(Payloads)
    BY EntriesHaveSources
  <2>2. PICK said, told : said = appended[t] /\ told = Told(t)
    OBVIOUS
  <2>3. PICK src : /\ Source(said, told, src)
                   /\ Undisturbed => \A e \in told : \E i \in 1..Len(said) : src[i] = e
    BY <2>2, EntriesHaveSources
  <2>4. DOMAIN said = 1..Len(said) /\ Len(said) \in Nat /\ IsFiniteSet(told)
    BY <2>1, <2>2
  <2>5. ASSUME NEW p \in Payloads
        PROVE  Cardinality({i \in DOMAIN said : said[i] = p})
                 <= Cardinality({e \in told : EntryOf(e) = p})
    <3> DEFINE S == {i \in DOMAIN said : said[i] = p}
               T == {e \in told : EntryOf(e) = p}
               f == [i \in S |-> src[i]]
    <3>1. IsFiniteSet(T)
      BY <2>4, FS_Subset
    <3>2. f \in Injection(S, T)
      <4>1. f \in [S -> T]
        BY <2>3, <2>4 DEF Source
      <4>2. \A i, j \in S : f[i] = f[j] => i = j
        BY <2>3, <2>4 DEF Source
      <4> HIDE DEF S, T, f
      <4> QED BY <4>1, <4>2 DEF Injection, IsInjective
    <3> HIDE DEF S, T, f
    <3>3. Cardinality(S) <= Cardinality(T)
      BY <3>1, <3>2, FS_Injection
    <3> QED BY <3>3 DEF S, T
  <2>6. ASSUME Undisturbed PROVE Len(said) = Cardinality(told)
    <3> DEFINE N == 1..Len(said)
               f == [i \in N |-> src[i]]
    <3>1. IsFiniteSet(N) /\ Cardinality(N) = Len(said)
      <4>1. PICK n \in Nat : n = Len(said)
        BY <2>4
      <4>2. 1 \in Int /\ n \in Int
        OBVIOUS
      <4>3. IsFiniteSet(1..n) /\ Cardinality(1..n) = n
        BY <4>2, FS_Interval
      <4> QED BY <4>1, <4>3
    <3>2. f \in [N -> told] /\ \A i, j \in N : f[i] = f[j] => i = j
      BY <2>3 DEF Source
    <3>3. \A e \in told : \E i \in N : f[i] = e
      BY <2>3, <2>6
    <3> HIDE DEF N, f
    <3>4. ExistsBijection(N, told)
      BY <3>2, <3>3 DEF ExistsBijection, Bijection, Injection, Surjection, IsInjective
    <3> QED BY <3>1, <3>4, FS_Bijection
  <2> QED BY <2>2, <2>5, <2>6
<1> QED BY <1>1, LedgerInvariant, FeedInvariant, PTL

\* What GetTaskBalance adds up is what the settled payments brought in.
LEMMA BalanceOfEntries ==
  ASSUME LedgerInv, FeedInv, NEW t \in Tasks, Payload(rows[t]) = appended[t]
  PROVE  LET paid == SumFunctionOnSet([e \in Told(t) |-> e.sats],
                                      {e \in Told(t) : e.topic = "payment.settled"})
         IN  /\ TaskBalance(rows[t]) <= paid
             /\ Undisturbed => TaskBalance(rows[t]) = paid
<1>1. PICK entries, said, told :
        entries = rows[t] /\ said = appended[t] /\ told = Told(t)
  OBVIOUS
<1>2. PICK src : /\ Source(said, told, src)
                 /\ Undisturbed => \A e \in told : \E i \in 1..Len(said) : src[i] = e
  BY <1>1, EntriesHaveSources
<1>3. IsFiniteSet(told) /\ said \in Seq(Payloads) /\ DOMAIN said = 1..Len(said)
  <2>1. IsFiniteSet(told) /\ said \in Seq(Payloads)
    BY <1>1, EntriesHaveSources
  <2> QED BY <2>1
<1>4. DOMAIN entries = DOMAIN said /\ \A i \in DOMAIN said : entries[i].payload = said[i]
  <2>1. said = [i \in DOMAIN entries |-> entries[i].payload]
    BY <1>1 DEF Payload
  <2> QED BY <2>1
<1>5. \A e \in told : e \in Events
  BY <1>1 DEF LedgerInv, TypeOK, Told
<1>6. ASSUME NEW e \in told
      PROVE  /\ EntryOf(e).type = "INBOUND_DONATION" <=> e.topic = "payment.settled"
             /\ e.topic = "payment.settled" => EntryOf(e).sats = e.sats
             /\ e.sats \in Nat
  <2>1. e.topic \in Topics /\ e.sats \in Nat
    BY <1>5, LedgerAssumption
  <2>2. EntryOf(e).type = EntryType[e.topic]
    BY DEF EntryOf
  <2>3. EntryType[e.topic] = "INBOUND_DONATION" <=> e.topic = "payment.settled"
    BY <2>1 DEF EntryType, Topics
  <2> QED BY <2>1, <2>2, <2>3 DEF EntryOf
<1> DEFINE D == Donations(entries)
           P == {e \in told : e.topic = "payment.settled"}
           a == [i \in DOMAIN entries |-> entries[i].payload.sats]
           b == [e \in told |-> e.sats]
           g == [i \in D |-> src[i]]
<1>7. IsFiniteSet(P)
  BY <1>3, FS_Subset
<1>8. \A i \in D : i \in 1..Len(said) /\ said[i].type = "INBOUND_DONATION"
  BY <1>3, <1>4 DEF Donations
<1>9. \A i \in 1..Len(said) : said[i].type = "INBOUND_DONATION" => i \in D
  BY <1>3, <1>4 DEF Donations
<1>10. \A i \in 1..Len(said) : src[i] \in told /\ EntryOf(src[i]) = said[i]
  BY <1>2 DEF Source
<1>11. \A i \in D : src[i] \in P
  BY <1>6, <1>8, <1>10
<1>12. \A i \in D : a[i] = b[src[i]]
  <2> SUFFICES ASSUME NEW i \in D PROVE entries[i].payload.sats = src[i].sats
    BY <1>3, <1>4, <1>8, <1>10
  <2>1. src[i] \in told /\ src[i].topic = "payment.settled" /\ EntryOf(src[i]) = said[i]
    BY <1>8, <1>10, <1>11
  <2> QED BY <2>1, <1>3, <1>4, <1>6, <1>8
<1>13. g \in Injection(D, P)
  <2>1. g \in [D -> P]
    BY <1>11
  <2>2. \A i, j \in D : g[i] = g[j] => i = j
    BY <1>2, <1>8 DEF Source
  <2> HIDE DEF g, D, P
  <2> QED BY <2>1, <2>2 DEF Injection, IsInjective
<1>14. \A i \in D : a[i] = b[g[i]]
  BY <1>12
<1>15. \A e \in P : b[e] \in Nat
  BY <1>6
<1>16. ASSUME Undisturbed PROVE g \in Surjection(D, P)
  <2>1. ASSUME NEW e \in P PROVE \E i \in D : g[i] = e
    <3>1. PICK i \in 1..Len(said) : src[i] = e
      BY <1>2, <1>16
    <3>2. i \in D
      BY <3>1, <1>6, <1>9, <1>10
    <3> QED BY <3>1, <3>2
  <2>2. g \in [D -> P]
    BY <1>11
  <2> HIDE DEF g, D, P
  <2> QED BY <2>1, <2>2 DEF Surjection
<1>17. TaskBalance(rows[t]) = SumFunctionOnSet(a, D)
  BY <1>1 DEF TaskBalance
<1> HIDE DEF a, b, g, D, P
<1>18. /\ SumFunctionOnSet(a, D) <= SumFunctionOnSet(b, P)
       /\ g \in Surjection(D, P) => SumFunctionOnSet(a, D) = SumFunctionOnSet(b, P)
  BY <1>7, <1>13, <1>14, <1>15, SumOfSome
<1>19. /\ TaskBalance(rows[t]) <= SumFunctionOnSet(b, P)
       /\ Undisturbed => TaskBalance(rows[t]) = SumFunctionOnSet(b, P)
  BY <1>16, <1>17, <1>18
<1> QED BY <1>1, <1>19 DEF b, P

\* GetTaskBalance on a chain that verifies never says more than was paid, and
\* exactly that when nothing has failed.
THEOREM BalanceIsPaidAlways == Spec => []BalanceIsPaid
<1>1. LedgerInv /\ FeedInv => BalanceIsPaid
  <2> SUFFICES ASSUME LedgerInv, FeedInv, NEW t \in Tasks
               PROVE  LET paid == SumFunctionOnSet([e \in Told(t) |-> e.sats],
                                    {e \in Told(t) : e.topic = "payment.settled"})
                      IN  /\ VerifyEntireChainIntegrity(t, rows[t]) =>
                               TaskBalance(rows[t]) <= paid
                          /\ Undisturbed => TaskBalance(rows[t]) = paid
    BY DEF BalanceIsPaid
  <2>1. Follows(t, rows[t], appended[t]) /\ appended[t] \in Seq(Payloads)
    BY TypeParts DEF LedgerInv, ChainsFollow, RowsTyped
  <2>2. VerifyEntireChainIntegrity(t, rows[t]) => Payload(rows[t]) = appended[t]
    BY <2>1, FollowsAccepted
  <2>3. Undisturbed => Payload(rows[t]) = appended[t]
    BY DEF FeedInv, Untouched, Undisturbed
  <2> QED BY <2>2, <2>3, BalanceOfEntries
<1> QED BY <1>1, LedgerInvariant, FeedInvariant, PTL

-----------------------------------------------------------------------------
(* What liveness rests on: the mutex is held by a call that is under way,  *)
(* and each step of a call brings it nearer to its return.                 *)

\* Whoever holds the mutex is between Lock and the unlock.
HolderIsBusy == mu # None => mu \in Writers /\ Holding(call[mu])

StepsLeftOf(stage) ==
  CASE stage = "lock"    -> 4
    [] stage = "last"    -> 3
    [] stage = "append"  -> 2
    [] stage = "publish" -> 1
    [] OTHER             -> 0

\* The steps of a call until Publish returns, all its handlers' together.
Work(c) == IF c.stage = "idle" THEN 0 ELSE 4 * (c.left - 1) + StepsLeftOf(c.stage)

\* A call only ever loses work, each of its own steps takes some, and so does an
\* error.
RecordingComesNearer ==
  [][\A w \in Writers :
       call[w].stage # "idle" =>
         /\ Work(call[w]) \in Nat \ {0}
         /\ Work(call[w])' <= Work(call[w])
         /\ Lock(w) \/ WriterStep(w) \/ Fail(w) => Work(call[w])' < Work(call[w])]_vars

\* A call's own step goes on within one handler, or leaves the handler and the
\* mutex together.
LEMMA OwnStep ==
  ASSUME LedgerInv, NEW w \in Writers, Lock(w) \/ WriterStep(w) \/ Fail(w)
  PROVE  /\ \A v \in Writers : v # w => call'[v] = call[v]
         /\ call[w].stage # "idle"
         /\ \/ /\ \/ call[w].stage = "lock" /\ call'[w].stage = "last" /\ mu' = w
                  \/ call[w].stage = "last" /\ call'[w].stage = "append" /\ mu' = mu
                  \/ call[w].stage = "append" /\ call'[w].stage = "publish" /\ mu' = mu
               /\ call'[w].left = call[w].left
            \/ /\ call[w].stage \in {"last", "append", "publish"} /\ mu' = None
               /\ call'[w] = AfterHandler(w)
<1>1. Shaped
  BY DEF LedgerInv
<1>2. CASE Lock(w) \/ AppendEntry(w)
  <2>1. PICK s : /\ call' = [call EXCEPT ![w].stage = s]
                 /\ \/ call[w].stage = "lock" /\ s = "last" /\ mu' = w
                    \/ call[w].stage = "append" /\ s = "publish" /\ mu' = mu
    BY <1>2 DEF Lock, AppendEntry
  <2>2. PICK c : c = [stage |-> s, task |-> call[w].task, payload |-> call[w].payload,
                      previous |-> call[w].previous, left |-> call[w].left]
    OBVIOUS
  <2>3. Turns(w, c) /\ c.stage = s /\ c.left = call[w].left
    BY <1>1, <2>1, <2>2, CallWith DEF Turns, IsCall
  <2> QED BY <1>1, <2>1, <2>3, TurnShape
<1>3. CASE ReadLast(w)
  <2>1. PICK x : x = LastHash(call[w].task)
    OBVIOUS
  <2>2. call' = [call EXCEPT ![w].stage = "append", ![w].previous = x]
        /\ call[w].stage = "last" /\ mu' = mu
    BY <1>3, <2>1 DEF ReadLast
  <2>3. PICK c : c = [stage |-> "append", task |-> call[w].task,
                      payload |-> call[w].payload, previous |-> x, left |-> call[w].left]
    OBVIOUS
  <2>4. Turns(w, c) /\ c.stage = "append" /\ c.left = call[w].left
    BY <1>1, <2>2, <2>3, CallWith DEF Turns, IsCall
  <2> QED BY <1>1, <2>2, <2>4, TurnShape
<1>4. CASE Unlock(w) \/ Fail(w)
  <2>1. /\ call[w].stage \in {"last", "append", "publish"} /\ mu' = None
        /\ call' = [call EXCEPT ![w] = AfterHandler(w)]
    BY <1>4 DEF Unlock, Fail
  <2>2. PICK c : c = AfterHandler(w)
    OBVIOUS
  <2>3. CallTyped(call[w])
    BY TypesOfCalls DEF LedgerInv, CallsTyped
  <2>4. Turns(w, c)
    BY <1>1, <2>1, <2>2, <2>3, AfterHandlerIsCall DEF Turns
  <2> QED BY <1>1, <2>1, <2>2, <2>4, TurnShape
<1> QED BY <1>2, <1>3, <1>4 DEF WriterStep

LEMMA NextHolder == LedgerInv /\ HolderIsBusy /\ [Next]_vars => HolderIsBusy'
<1> SUFFICES ASSUME LedgerInv, HolderIsBusy, [Next]_vars PROVE HolderIsBusy'
  OBVIOUS
<1>1. ASSUME NEW w \in Writers, NEW e \in Events, Publish(w, e) PROVE HolderIsBusy'
  <2>1. mu' = mu /\ call[w].stage = "idle"
    BY <1>1 DEF Publish
  <2>2. mu # w
    BY <2>1, LedgerAssumption DEF HolderIsBusy, Holding
  <2>3. call = [v \in Writers |-> call[v]]
    BY DEF LedgerInv, Shaped
  <2>4. \A v \in Writers : v # w => call'[v] = call[v]
    BY <1>1, <2>3 DEF Publish
  <2> QED BY <2>1, <2>2, <2>4 DEF HolderIsBusy, Holding
<1>2. ASSUME NEW w \in Writers, Lock(w) \/ WriterStep(w) \/ Fail(w) PROVE HolderIsBusy'
  <2>1. \A v \in Writers : v # w => call'[v] = call[v]
    BY <1>2, OwnStep
  <2>2. \/ mu' = w /\ Holding(call'[w])
        \/ mu' = mu /\ Holding(call[w]) /\ Holding(call'[w])
        \/ mu' = None
    BY <1>2, OwnStep DEF Holding
  <2> QED BY <2>1, <2>2 DEF HolderIsBusy, Holding
<1>3. CASE Crash
  BY <1>3 DEF Crash, HolderIsBusy
<1>4. CASE UNCHANGED <<mu, call>>
  BY <1>4 DEF HolderIsBusy, Holding
<1>5. ASSUME NEW t \in Tasks, NEW i \in DOMAIN rows[t],
             DeleteRow(t, i) \/ \E p \in Payloads : EditRow(t, i, p)
      PROVE  HolderIsBusy'
  BY <1>4, <1>5 DEF DeleteRow, EditRow
<1>6. CASE Subscribe \/ UNCHANGED vars
  BY <1>4, <1>6 DEF Subscribe, vars
<1> QED BY <1>1, <1>2, <1>3, <1>5, <1>6 DEF Next

\* RecordValidatedTransaction gives the mutex up on every way out, errors and
\* crashes included: a mutex that is taken has a holder that can go on.
THEOREM HolderIsBusyAlways == Spec => []HolderIsBusy
<1>1. Init => HolderIsBusy
  BY DEF Init, HolderIsBusy
<1> QED BY <1>1, NextHolder, LedgerInvariant, PTL DEF Spec

LEMMA WorkType ==
  ASSUME NEW c, CallTyped(c)
  PROVE  /\ Work(c) \in Nat /\ (c.stage # "idle" => Work(c) \in Nat \ {0})
<1>1. CASE c.stage = "idle"
  BY <1>1 DEF Work
<1>2. CASE c.stage # "idle"
  <2>1. c.left \in Nat \ {0} /\ StepsLeftOf(c.stage) \in 1..4
    BY <1>2 DEF CallTyped, Stages, StepsLeftOf
  <2>2. PICK m \in Nat : m = 4 * (c.left - 1)
    BY <2>1
  <2> QED BY <1>2, <2>1, <2>2 DEF Work
<1> QED BY <1>1, <1>2

LEMMA OwnStepWorks ==
  ASSUME LedgerInv, NEW w \in Writers, Lock(w) \/ WriterStep(w) \/ Fail(w)
  PROVE  Work(call'[w]) < Work(call[w])
<1>1. CallTyped(call[w]) /\ call[w].stage # "idle" /\ Shaped
  BY OwnStep, TypesOfCalls DEF LedgerInv, CallsTyped
<1>2. PICK n \in Nat \ {0} : n = call[w].left
  BY <1>1 DEF CallTyped
<1>3. Work(call[w]) = 4 * (n - 1) + StepsLeftOf(call[w].stage)
  BY <1>1, <1>2 DEF Work
<1>4. CASE /\ \/ call[w].stage = "lock" /\ call'[w].stage = "last"
              \/ call[w].stage = "last" /\ call'[w].stage = "append"
              \/ call[w].stage = "append" /\ call'[w].stage = "publish"
           /\ call'[w].left = call[w].left
  <2>1. Work(call'[w]) = 4 * (n - 1) + StepsLeftOf(call'[w].stage)
    BY <1>2, <1>4 DEF Work
  <2>2. PICK a \in Nat, b \in Nat :
          a = StepsLeftOf(call'[w].stage) /\ b = StepsLeftOf(call[w].stage) /\ a < b
    BY <1>4 DEF StepsLeftOf
  <2> QED BY <1>3, <2>1, <2>2
<1>5. CASE call[w].stage \in {"last", "append", "publish"} /\ call'[w] = AfterHandler(w)
  <2>1. StepsLeftOf(call[w].stage) \in 1..3
    BY <1>5 DEF StepsLeftOf
  <2>2. CASE n = 1
    <3>1. Work(call'[w]) = 0
      BY <1>2, <1>5, <2>2 DEF AfterHandler, IdleCall, Work
    <3> QED BY <1>3, <2>1, <2>2, <3>1
  <2>3. CASE n # 1
    <3>1. PICK c : c = call[w]
      OBVIOUS
    <3>2. IsCall(c)
      BY <1>1, <3>1 DEF Shaped
    <3>3. call'[w] = [c EXCEPT !.stage = "lock", !.previous = NoHash, !.left = @ - 1]
      BY <1>2, <1>5, <2>3, <3>1 DEF AfterHandler
    <3>4. call'[w].stage = "lock" /\ call'[w].left = n - 1
      BY <1>2, <3>1, <3>2, <3>3 DEF IsCall
    <3>5. Work(call'[w]) = 4 * (n - 1 - 1) + 4
      BY <3>4 DEF Work, StepsLeftOf
    <3> QED BY <1>3, <2>1, <3>5
  <2> QED BY <2>2, <2>3
<1> QED BY <1>4, <1>5, OwnStep

LEMMA TypesOfCallsLater == TypeOK' => CallsTyped'
  BY TypesOfCalls, PTL

LEMMA StepsLoseWork ==
  ASSUME LedgerInv, Next, NEW w \in Writers, call[w].stage # "idle"
  PROVE  /\ Work(call[w]) \in Nat \ {0}
         /\ Work(call'[w]) <= Work(call[w])
         /\ Lock(w) \/ WriterStep(w) \/ Fail(w) => Work(call'[w]) < Work(call[w])
<1>1. Work(call[w]) \in Nat \ {0} /\ CallTyped(call[w])
  BY WorkType, TypesOfCalls DEF LedgerInv, CallsTyped
<1>2. LedgerInv'
  BY NextInv
<1>3. Work(call'[w]) \in Nat
  <2>1. CallsTyped'
    BY <1>2, TypesOfCallsLater DEF LedgerInv
  <2>2. CallTyped(call'[w])
    BY <2>1 DEF CallsTyped, CallTyped
  <2> QED BY <2>2, WorkType
<1>4. CASE Lock(w) \/ WriterStep(w) \/ Fail(w)
  BY <1>1, <1>3, <1>4, OwnStepWorks
<1>5. CASE call'[w] = call[w] /\ ~ (Lock(w) \/ WriterStep(w) \/ Fail(w))
  <2>1. Work(call'[w]) = Work(call[w])
    BY <1>5
  <2> QED BY <1>1, <1>5, <2>1
<1>6. CASE Crash /\ ~ (Lock(w) \/ WriterStep(w) \/ Fail(w))
  <2>1. Work(call'[w]) = 0
    BY <1>6 DEF Crash, IdleCall, Work
  <2> QED BY <1>1, <1>6, <2>1
<1>7. ASSUME ~ (Lock(w) \/ WriterStep(w) \/ Fail(w)), ~ Crash
      PROVE  call'[w] = call[w]
  <2>1. ASSUME NEW v \in Writers, NEW e \in Events, Publish(v, e)
        PROVE  call'[w] = call[w]
    <3>1. v # w /\ call = [u \in Writers |-> call[u]]
      BY <2>1 DEF Publish, LedgerInv, Shaped
    <3> QED BY <2>1, <3>1 DEF Publish
  <2>2. ASSUME NEW v \in Writers, Lock(v) \/ WriterStep(v) \/ Fail(v)
        PROVE  call'[w] = call[w]
    BY <1>7, <2>2, OwnStep
  <2>3. CASE Subscribe
    BY <2>3 DEF Subscribe
  <2>4. ASSUME NEW t \in Tasks, NEW i \in DOMAIN rows[t],
               DeleteRow(t, i) \/ \E p \in Payloads : EditRow(t, i, p)
        PROVE  call'[w] = call[w]
    BY <2>4 DEF DeleteRow, EditRow
  <2> QED BY <1>7, <2>1, <2>2, <2>3, <2>4 DEF Next
<1> QED BY <1>4, <1>5, <1>6, <1>7, <1>1

\* What keeps RecordingReturns true, short of the fairness that makes a call step
\* and a waiting one get the mutex: nothing others do sets a recording back.
THEOREM RecordingComesNearerAlways == Spec => RecordingComesNearer
<1> DEFINE Nearer ==
      \A w \in Writers :
        call[w].stage # "idle" =>
          /\ Work(call[w]) \in Nat \ {0}
          /\ Work(call[w])' <= Work(call[w])
          /\ Lock(w) \/ WriterStep(w) \/ Fail(w) => Work(call[w])' < Work(call[w])
<1>1. \A w : Work(call[w])' = Work(call'[w])
  BY DEF Work
<1>2. LedgerInv /\ [Next]_vars => [Nearer]_vars
  BY <1>1, StepsLoseWork
<1> QED BY <1>2, LedgerInvariant, PTL DEF Spec, RecordingComesNearer
=============================================================================
