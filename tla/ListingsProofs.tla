---------------------------- MODULE ListingsProofs ----------------------------
(***************************************************************************)
(* Proofs about the paged lists, for every number of tasks, writers,       *)
(* clients, rows and ticks: whoever pages to the end of a list that rows   *)
(* only join misses none that was there at the start, and no page of it is *)
(* shorter than its total promises.                                        *)
(*                                                                         *)
(* The argument is about ranks: the rows listed above a row.  In an order  *)
(* without ties each number below the count is the rank of a row, which is *)
(* what a page holds, and rows that join only raise the ranks of others.   *)
(***************************************************************************)
EXTENDS Listings, FiniteSetTheorems, TLAPS

-----------------------------------------------------------------------------
(* The inductive invariant: what is stored.                                *)

Existing == {s \in Slugs : task[s] # None}

TaskRecords == [created : 0..MaxTime, status : WorkStates, id : Nat \ {0}]

TasksOK ==
  /\ task = [s \in Slugs |-> task[s]]
  /\ IsFiniteSet(Existing)
  /\ \A s \in Existing : /\ task[s] \in TaskRecords
                         /\ task[s].id <= Cardinality(Existing)
  /\ \A r, s \in Existing : task[r].id = task[s].id => r = s

\* The history of one kind of state of one task, among the rows H.
ChainOf(H, s, k) == {h \in H : h.slug = s /\ h.kind = k}

HistoryRow == [kind : Kinds, slug : Slugs, version : Nat, created : 0..MaxTime, id : Nat]

HistoryOK(H) ==
  /\ IsFiniteSet(H) /\ H \subseteq HistoryRow
  /\ \A h \in H : /\ h.id \in 1..Cardinality(H)
                  /\ h.version \in 1..Cardinality(ChainOf(H, h.slug, h.kind))
  /\ \A g, h \in H : g.id = h.id => g = h
  /\ \A g, h \in H : g.slug = h.slug /\ g.kind = h.kind /\ g.version = h.version => g = h

\* How many states of kind k a task has been in.
StatesSoFar(t, k) ==
  IF t = None THEN 0
  ELSE IF k = "work"
       THEN CASE t.status = "open" -> 1
              [] t.status = "in_progress" -> 2
              [] t.status = "pending_verification" -> 3
              [] OTHER -> 4
       ELSE IF t.status = "completed" THEN 2 ELSE 1

\* Each of them has its row.
VersionsFit == \A s \in Slugs : \A k \in Kinds : Version(s, k) = StatesSoFar(task[s], k)

WritersOK ==
  /\ tx = [w \in Writers |-> tx[w]]
  /\ \A w \in Writers :
       /\ tx[w].op \in {"idle", "create", "move"} /\ tx[w].began \in 0..clock
       /\ tx[w].op # "idle" => tx[w].slug \in Slugs
       /\ tx[w].op = "move" => task[tx[w].slug] # None

Stored ==
  /\ clock \in 0..MaxTime
  /\ TasksOK /\ HistoryOK(history) /\ VersionsFit /\ WritersOK

-----------------------------------------------------------------------------
(* The inductive invariant: what a client has been shown of the rows R.    *)

Above(R, r) == {q \in R : Before(q, r)}

Rank(R, r) == Cardinality(Above(R, r))

PagesDone(l) == IF l.stage = "shown" THEN l.page ELSE l.page - 1

\* What was there when the client began was shown or is yet to come.
StillAhead(l, R) ==
  \A k \in l.due :
    k \in l.seen \/ \E r \in R : r.key = k /\ Rank(R, r) >= PagesDone(l) * l.size

TotalHonoured(l) ==
  LET left == l.total - (l.page - 1) * l.size
  IN  Cardinality(l.rows) >= IF left < l.size THEN left ELSE l.size

IsWalk(l) ==
  l = [stage |-> l.stage, list |-> l.list, slug |-> l.slug, filter |-> l.filter,
       size |-> l.size, page |-> l.page, total |-> l.total, rows |-> l.rows,
       seen |-> l.seen, due |-> l.due]

WalkTyped(l) ==
  /\ l.stage \in {"idle", "count", "select", "shown"} /\ l.list \in Lists
  /\ l.total \in Nat /\ l.rows \subseteq l.seen
  /\ l.stage # "idle" => l.page \in Nat \ {0} /\ l.size \in Nat \ {0}

WalkFair(l, R) ==
  /\ StillAhead(l, R)
  /\ l.stage = "select" => l.total <= Cardinality(R)
  /\ l.stage = "shown" => /\ l.rows = {} => l.due \subseteq l.seen
                          /\ TotalHonoured(l)

WalkOK(l, R) ==
  IsWalk(l) /\ WalkTyped(l) /\ (l.stage # "idle" /\ Grows(l) => WalkFair(l, R))

WalksOK ==
  /\ walk = [c \in Clients |-> walk[c]]
  /\ \A c \in Clients : WalkOK(walk[c], Matching(walk[c]))

ListingsInv == Stored /\ WalksOK

-----------------------------------------------------------------------------
(* Ranks.                                                                  *)

\* Rows that ORDER BY created_at, id puts in one order, no two with one key.
Listing(R) ==
  /\ IsFiniteSet(R)
  /\ \A r \in R : r.created \in Nat /\ r.id \in Nat
  /\ \A q, r \in R : q.id = r.id \/ q.key = r.key => q = r

\* A row is not above itself.
LEMMA RankInBounds ==
  ASSUME NEW R, Listing(R), NEW r \in R
  PROVE  Rank(R, r) \in 0..Cardinality(R) - 1
<1> DEFINE A == Above(R, r)
           B == R \ {r}
<1>1. IsFiniteSet(R) /\ r.created \in Nat /\ r.id \in Nat
  BY DEF Listing
<1>2. IsFiniteSet(B) /\ Cardinality(B) = Cardinality(R) - 1
  BY <1>1, FS_RemoveElement
<1>3. A \in SUBSET B
  BY <1>1 DEF Above, Before
<1> HIDE DEF A, B
<1>4. IsFiniteSet(A) /\ Cardinality(A) <= Cardinality(B)
  BY <1>2, <1>3, FS_Subset
<1>5. Cardinality(A) \in Nat /\ Cardinality(R) \in Nat
  BY <1>1, <1>4, FS_CardinalityType
<1>6. Cardinality(A) \in 0..Cardinality(R) - 1
  BY <1>2, <1>4, <1>5
<1> QED BY <1>6 DEF A, Rank

\* What is listed above has a smaller rank.
LEMMA RankOrders ==
  ASSUME NEW R, Listing(R), NEW q \in R, NEW r \in R, Before(q, r)
  PROVE  Rank(R, q) < Rank(R, r)
<1> DEFINE A == Above(R, q)
           B == Above(R, r)
<1>1. \A x \in R : x.created \in Nat /\ x.id \in Nat
  BY DEF Listing
<1>2. q \notin A
  BY <1>1 DEF Above, Before
<1>3. A \cup {q} \in SUBSET B
  BY <1>1 DEF Above, Before
<1>4. A \in SUBSET R /\ B \in SUBSET R
  BY DEF Above
<1> HIDE DEF A, B
<1>5. IsFiniteSet(R)
  BY DEF Listing
<1>6. IsFiniteSet(A) /\ IsFiniteSet(B)
  BY <1>4, <1>5, FS_Subset
<1>7. Cardinality(A \cup {q}) = Cardinality(A) + 1
  BY <1>2, <1>6, FS_AddElement
<1>8. Cardinality(A \cup {q}) <= Cardinality(B)
  BY <1>3, <1>6, FS_Subset
<1>9. Cardinality(A) \in Nat /\ Cardinality(B) \in Nat
  BY <1>6, FS_CardinalityType
<1>10. Cardinality(A) < Cardinality(B)
  BY <1>7, <1>8, <1>9
<1> QED BY <1>10 DEF A, B, Rank

LEMMA RanksDiffer ==
  ASSUME NEW R, Listing(R), NEW q \in R, NEW r \in R, Rank(R, q) = Rank(R, r)
  PROVE  q = r
<1>1. q.created \in Nat /\ q.id \in Nat /\ r.created \in Nat /\ r.id \in Nat
  BY DEF Listing
<1>2. q.id = r.id => q = r
  BY DEF Listing
<1>3. q.id = r.id \/ Before(q, r) \/ Before(r, q)
  BY <1>1 DEF Before
<1>4. Rank(R, q) \in Nat /\ Rank(R, r) \in Nat
  <2>1. \A x \in R : Rank(R, x) \in 0..Cardinality(R) - 1
    BY RankInBounds
  <2> QED BY <2>1
<1>5. ~ Before(q, r) /\ ~ Before(r, q)
  BY <1>4, RankOrders
<1> QED BY <1>2, <1>3, <1>5

\* Every number below the count is the rank of a row: no position is empty.
LEMMA EveryRank ==
  ASSUME NEW R, Listing(R), NEW n \in 0..Cardinality(R) - 1
  PROVE  \E r \in R : Rank(R, r) = n
<1> DEFINE N == 0..Cardinality(R) - 1
           f == [r \in R |-> Rank(R, r)]
           I == {f[r] : r \in R}
<1>1. IsFiniteSet(R) /\ Cardinality(R) \in Nat
  <2>1. IsFiniteSet(R)
    BY DEF Listing
  <2> QED BY <2>1, FS_CardinalityType
<1>2. IsFiniteSet(N) /\ Cardinality(N) = Cardinality(R)
  <2>1. PICK k \in Nat : k = Cardinality(R)
    BY <1>1
  <2>2. 0 \in Int /\ k - 1 \in Int
    OBVIOUS
  <2>3. IsFiniteSet(0..k - 1) /\ Cardinality(0..k - 1) = k
    BY <2>2, FS_Interval
  <2> QED BY <2>1, <2>3
<1>3. I \in SUBSET N
  BY RankInBounds
<1>4. ExistsBijection(R, I)
  <2>1. f \in [R -> I] /\ \A x \in I : \E r \in R : f[r] = x
    OBVIOUS
  <2>2. \A q, r \in R : f[q] = f[r] => q = r
    BY RanksDiffer
  <2> HIDE DEF f, I
  <2> QED BY <2>1, <2>2 DEF ExistsBijection, Bijection, Injection, Surjection, IsInjective
<1> HIDE DEF I, N, f
<1>5. Cardinality(I) = Cardinality(R)
  BY <1>1, <1>4, FS_Bijection
<1>6. I = N
  BY <1>2, <1>3, <1>5, FS_Subset
<1>7. n \in I
  BY <1>6 DEF N
<1> QED BY <1>7 DEF I, f

\* Rows that join raise the ranks of those that were there.
LEMMA RanksGrow ==
  ASSUME NEW R, NEW Q, R \subseteq Q, IsFiniteSet(Q), NEW r
  PROVE  /\ Rank(R, r) <= Rank(Q, r) /\ Rank(R, r) \in Nat /\ Rank(Q, r) \in Nat
         /\ Cardinality(R) <= Cardinality(Q)
<1>1. Above(Q, r) \in SUBSET Q /\ Above(R, r) \in SUBSET Above(Q, r)
  BY DEF Above
<1>2. IsFiniteSet(Above(Q, r))
  BY <1>1, FS_Subset
<1>3. IsFiniteSet(Above(R, r)) /\ Cardinality(Above(R, r)) <= Cardinality(Above(Q, r))
  BY <1>1, <1>2, FS_Subset
<1>4. Cardinality(R) <= Cardinality(Q)
  BY FS_Subset
<1> QED BY <1>2, <1>3, <1>4, FS_CardinalityType DEF Rank

-----------------------------------------------------------------------------
(* Pages.                                                                  *)

LEMMA OnPageRanks ==
  ASSUME NEW R, NEW page, NEW size
  PROVE  OnPage(R, page, size) =
           {r \in R : Rank(R, r) \in (page - 1) * size .. page * size - 1}
  BY DEF OnPage, Rank, Above

LEMMA KeysFinite ==
  ASSUME NEW R, Listing(R), NEW S, S \subseteq R
  PROVE  IsFiniteSet(KeysOf(S))
<1> DEFINE f == [r \in S |-> r.key]
<1>1. IsFiniteSet(S)
  BY FS_Subset DEF Listing
<1>2. f \in Surjection(S, KeysOf(S))
  BY DEF Surjection, KeysOf
<1> HIDE DEF f
<1> QED BY <1>1, <1>2, FS_Surjection

\* A page holds a row for each of its positions that is below the count.
LEMMA PageHolds ==
  ASSUME NEW R, Listing(R), NEW first \in Nat, NEW size \in Nat, NEW m \in Nat,
         m <= size, first + m <= Cardinality(R),
         NEW S, S = {r \in R : Rank(R, r) \in first .. first + size - 1}
  PROVE  m <= Cardinality(KeysOf(S))
<1>1. Cardinality(R) \in Nat
  BY FS_CardinalityType DEF Listing
<1> DEFINE row(i) == CHOOSE r \in R : Rank(R, r) = first + i - 1
           f == [i \in 1..m |-> row(i).key]
<1>2. ASSUME NEW i \in 1..m
      PROVE  row(i) \in R /\ Rank(R, row(i)) = first + i - 1 /\ row(i) \in S
  <2>1. first + i - 1 \in 0..Cardinality(R) - 1
    BY <1>1
  <2>2. \E r \in R : Rank(R, r) = first + i - 1
    BY <2>1, EveryRank
  <2>3. row(i) \in R /\ Rank(R, row(i)) = first + i - 1
    BY <2>2
  <2>4. first + i - 1 \in first .. first + size - 1
    OBVIOUS
  <2> QED BY <2>3, <2>4
<1> HIDE DEF row
<1>3. f \in [1..m -> KeysOf(S)]
  BY <1>2 DEF KeysOf
<1>4. ASSUME NEW i \in 1..m, NEW j \in 1..m, f[i] = f[j] PROVE i = j
  <2>1. row(i).key = row(j).key /\ row(i) \in R /\ row(j) \in R
    BY <1>2, <1>4
  <2>2. row(i) = row(j)
    BY <2>1 DEF Listing
  <2>3. first + i - 1 = first + j - 1
    BY <2>2, <1>2
  <2> QED BY <2>3
<1>5. f \in Injection(1..m, KeysOf(S))
  <2> HIDE DEF f
  <2> QED BY <1>3, <1>4 DEF Injection, IsInjective
<1>6. IsFiniteSet(KeysOf(S))
  BY KeysFinite
<1>7. Cardinality(1..m) <= Cardinality(KeysOf(S))
  <2> HIDE DEF f
  <2> QED BY <1>5, <1>6, FS_Injection
<1>8. Cardinality(1..m) = m
  <2>1. 1 \in Int /\ m \in Int
    OBVIOUS
  <2> QED BY <2>1, FS_Interval
<1> QED BY <1>7, <1>8

LEMMA Offsets ==
  ASSUME NEW page \in Nat \ {0}, NEW size \in Nat \ {0}
  PROVE  /\ (page - 1) * size \in Nat /\ page * size \in Nat
         /\ page * size = (page - 1) * size + size
<1>1. PICK p \in Nat : p = page - 1
  OBVIOUS
<1>2. p * size \in Nat /\ page * size = p * size + size
  <2>1. page = p + 1
    BY <1>1
  <2>2. p * size \in Nat
    OBVIOUS
  <2>3. (p + 1) * size = p * size + size
    OBVIOUS
  <2> QED BY <2>1, <2>2, <2>3
<1> QED BY <1>1, <1>2

-----------------------------------------------------------------------------
(* What the reader's steps and the writers' do to a walk.                  *)

\* Rows that join change nothing a client may rely on.
LEMMA WalkKept ==
  ASSUME NEW l, NEW R, NEW Q, WalkOK(l, R), Grows(l) => R \subseteq Q /\ IsFiniteSet(Q)
  PROVE  WalkOK(l, Q)
<1> SUFFICES ASSUME l.stage # "idle", Grows(l) PROVE WalkFair(l, Q)
  BY DEF WalkOK
<1>1. WalkFair(l, R) /\ R \subseteq Q /\ IsFiniteSet(Q)
  BY DEF WalkOK
<1>2. l.page \in Nat \ {0} /\ l.size \in Nat \ {0} /\ l.total \in Nat
  BY DEF WalkOK, WalkTyped
<1>3. PICK done \in Nat : done = PagesDone(l) * l.size
  <2>1. PagesDone(l) \in Nat
    BY <1>2 DEF PagesDone
  <2> QED BY <2>1, <1>2
<1>4. StillAhead(l, Q)
  <2> SUFFICES ASSUME NEW k \in l.due, k \notin l.seen
               PROVE  \E r \in Q : r.key = k /\ Rank(Q, r) >= done
    BY <1>3 DEF StillAhead
  <2>1. PICK r \in R : r.key = k /\ Rank(R, r) >= done
    BY <1>1, <1>3 DEF WalkFair, StillAhead
  <2>2. Rank(R, r) <= Rank(Q, r) /\ Rank(R, r) \in Nat /\ Rank(Q, r) \in Nat
    BY <1>1, RanksGrow
  <2>3. r \in Q /\ Rank(Q, r) >= done
    BY <1>1, <2>1, <2>2
  <2> QED BY <2>1, <2>3
<1>5. l.stage = "select" => l.total <= Cardinality(Q)
  <2>1. Cardinality(R) <= Cardinality(Q) /\ Cardinality(R) \in Nat /\ Cardinality(Q) \in Nat
    BY <1>1, FS_Subset, FS_CardinalityType
  <2> QED BY <2>1, <1>1, <1>2 DEF WalkFair
<1> QED BY <1>1, <1>4, <1>5 DEF WalkFair

LEMMA IdleWalkOK == \A R : WalkOK(IdleWalk, R)
<1>1. IsWalk(IdleWalk)
  BY DEF IsWalk, IdleWalk
<1>2. WalkTyped(IdleWalk) /\ IdleWalk.stage = "idle"
  BY DEF WalkTyped, IdleWalk, Lists
<1> QED BY <1>1, <1>2 DEF WalkOK

\* The first page: all that matches is still ahead.
LEMMA AskOK ==
  ASSUME NEW R, Listing(R), NEW l, NEW list \in Lists, NEW slug, NEW filter,
         NEW size \in Nat \ {0},
         l = [stage |-> "count", list |-> list, slug |-> slug, filter |-> filter,
              size |-> size, page |-> 1, total |-> 0, rows |-> {}, seen |-> {},
              due |-> KeysOf(R)]
  PROVE  WalkOK(l, R)
<1>1. IsWalk(l)
  BY DEF IsWalk
<1>2. WalkTyped(l)
  BY DEF WalkTyped
<1>3. StillAhead(l, R)
  <2>1. PagesDone(l) * l.size = 0
    BY DEF PagesDone
  <2>2. \A r \in R : Rank(R, r) >= 0
    <3>1. \A r \in R : Rank(R, r) \in 0..Cardinality(R) - 1
      BY RankInBounds
    <3> QED BY <3>1
  <2> QED BY <2>1, <2>2 DEF StillAhead, KeysOf
<1>4. WalkFair(l, R)
  BY <1>3 DEF WalkFair
<1> QED BY <1>1, <1>2, <1>4 DEF WalkOK

LEMMA CountOK ==
  ASSUME NEW R, Listing(R), NEW l, WalkOK(l, R), l.stage = "count",
         NEW m, m = [l EXCEPT !.stage = "select", !.total = Cardinality(R)]
  PROVE  WalkOK(m, R)
<1>1. m = [stage |-> "select", list |-> l.list, slug |-> l.slug, filter |-> l.filter,
           size |-> l.size, page |-> l.page, total |-> Cardinality(R),
           rows |-> l.rows, seen |-> l.seen, due |-> l.due]
  BY DEF WalkOK, IsWalk
<1>2. IsWalk(m)
  BY <1>1 DEF IsWalk
<1>3. Cardinality(R) \in Nat
  BY FS_CardinalityType DEF Listing
<1>4. WalkTyped(m)
  BY <1>1, <1>3 DEF WalkOK, WalkTyped
<1>5. ASSUME Grows(m) PROVE WalkFair(m, R)
  <2>1. StillAhead(l, R)
    BY <1>1, <1>5 DEF WalkOK, WalkFair, Grows
  <2>2. PagesDone(m) = PagesDone(l)
    BY <1>1 DEF PagesDone
  <2>3. StillAhead(m, R)
    BY <1>1, <2>1, <2>2 DEF StillAhead
  <2>4. m.total <= Cardinality(R) /\ m.stage # "shown"
    BY <1>1, <1>3
  <2> QED BY <2>3, <2>4 DEF WalkFair
<1> QED BY <1>2, <1>4, <1>5 DEF WalkOK

\* A page shows every row whose rank is on it.  It is as long as the total says,
\* and when it is empty no row is ahead.
LEMMA SelectOK ==
  ASSUME NEW R, Listing(R), NEW l, WalkOK(l, R), l.stage = "select",
         NEW rows, rows = KeysOf(OnPage(R, l.page, l.size)),
         NEW m, m = [l EXCEPT !.stage = "shown", !.rows = rows, !.seen = @ \cup rows]
  PROVE  WalkOK(m, R)
<1>1. m = [stage |-> "shown", list |-> l.list, slug |-> l.slug, filter |-> l.filter,
           size |-> l.size, page |-> l.page, total |-> l.total,
           rows |-> rows, seen |-> l.seen \cup rows, due |-> l.due]
  BY DEF WalkOK, IsWalk
<1>2. IsWalk(m)
  BY <1>1 DEF IsWalk
<1>3. WalkTyped(m)
  BY <1>1 DEF WalkOK, WalkTyped
<1>4. PICK page \in Nat \ {0}, size \in Nat \ {0} : page = l.page /\ size = l.size
  BY DEF WalkOK, WalkTyped
<1>5. PICK first \in Nat : first = (page - 1) * size
  BY Offsets
<1>6. page * size = first + size
  BY <1>5, Offsets
<1> DEFINE S == OnPage(R, page, size)
<1>7. S = {r \in R : Rank(R, r) \in first .. first + size - 1}
  BY <1>5, <1>6, OnPageRanks
<1>8. rows = KeysOf(S)
  BY <1>4
<1> HIDE DEF S
<1>9. \A r \in R : Rank(R, r) \in Nat
  <2>1. \A r \in R : Rank(R, r) \in 0..Cardinality(R) - 1
    BY RankInBounds
  <2> QED BY <2>1
<1>10. ASSUME Grows(m) PROVE WalkFair(m, R)
  <2>1. StillAhead(l, R) /\ l.total <= Cardinality(R)
    BY <1>1, <1>10 DEF WalkOK, WalkFair, Grows
  <2>2. PagesDone(l) * l.size = first
    BY <1>4, <1>5 DEF PagesDone
  <2>3. PagesDone(m) * m.size = first + size
    BY <1>1, <1>4, <1>6 DEF PagesDone
  <2>4. ASSUME NEW k \in m.due, k \notin m.seen
        PROVE  \E r \in R : r.key = k /\ Rank(R, r) >= first + size
    <3>1. k \in l.due /\ k \notin l.seen /\ k \notin rows
      BY <2>4, <1>1
    <3>2. PICK r \in R : r.key = k /\ Rank(R, r) >= first
      BY <3>1, <2>1, <2>2 DEF StillAhead
    <3>3. r \notin S
      BY <3>1, <3>2, <1>8 DEF KeysOf
    <3>4. Rank(R, r) \notin first .. first + size - 1
      BY <3>2, <3>3, <1>7
    <3>5. Rank(R, r) >= first + size
      BY <3>2, <3>4, <1>9
    <3> QED BY <3>2, <3>5
  <2>5. StillAhead(m, R)
    BY <2>3, <2>4 DEF StillAhead
  <2>6. Cardinality(R) \in Nat /\ l.total \in Nat
    BY FS_CardinalityType DEF Listing, WalkOK, WalkTyped
  <2>7. ASSUME rows = {} PROVE m.due \subseteq m.seen
    <3>1. Cardinality(R) <= first
      <4> SUFFICES ASSUME Cardinality(R) > first PROVE FALSE
        BY <2>6
      <4>1. first \in 0..Cardinality(R) - 1
        BY <2>6
      <4>2. PICK r \in R : Rank(R, r) = first
        BY <4>1, EveryRank
      <4>3. r \in S
        BY <4>2, <1>7
      <4> QED BY <4>3, <2>7, <1>8 DEF KeysOf
    <3>2. \A r \in R : ~ (Rank(R, r) >= first + size)
      <4>1. \A r \in R : Rank(R, r) \in 0..Cardinality(R) - 1
        BY RankInBounds
      <4> QED BY <4>1, <3>1, <2>6
    <3> QED BY <3>2, <2>4
  <2>8. TotalHonoured(m)
    <3>1. PICK left \in Int : left = l.total - first
      BY <2>6
    <3>2. PICK n \in Int : n = IF left < size THEN left ELSE size
      BY <3>1
    <3>3. Cardinality(rows) >= n
      <4>1. CASE n <= 0
        <5>1. IsFiniteSet(rows)
          BY <1>7, <1>8, KeysFinite
        <5>2. Cardinality(rows) \in Nat
          BY <5>1, FS_CardinalityType
        <5> QED BY <4>1, <5>2
      <4>2. CASE n > 0
        <5>1. n \in Nat /\ n <= size /\ first + n <= Cardinality(R)
          BY <4>2, <3>1, <3>2, <2>1, <2>6
        <5>2. n <= Cardinality(KeysOf(S))
          BY <5>1, <1>7, PageHolds
        <5>3. IsFiniteSet(rows) /\ Cardinality(rows) \in Nat
          BY <1>7, <1>8, KeysFinite, FS_CardinalityType
        <5> QED BY <5>2, <5>3, <1>8
      <4> QED BY <4>1, <4>2
    <3>4. m.total - (m.page - 1) * m.size = left /\ m.size = size /\ m.rows = rows
      BY <1>1, <1>4, <1>5, <3>1
    <3> QED BY <3>2, <3>3, <3>4 DEF TotalHonoured
  <2>9. m.stage = "shown" /\ m.rows = rows
    BY <1>1
  <2> QED BY <2>5, <2>7, <2>8, <2>9 DEF WalkFair
<1> QED BY <1>2, <1>3, <1>10 DEF WalkOK

LEMMA NextPageOK ==
  ASSUME NEW R, NEW l, WalkOK(l, R), l.stage = "shown",
         NEW m, m = [l EXCEPT !.stage = "count", !.page = @ + 1, !.total = 0, !.rows = {}]
  PROVE  WalkOK(m, R)
<1>1. m = [stage |-> "count", list |-> l.list, slug |-> l.slug, filter |-> l.filter,
           size |-> l.size, page |-> l.page + 1, total |-> 0, rows |-> {},
           seen |-> l.seen, due |-> l.due]
  BY DEF WalkOK, IsWalk
<1>2. IsWalk(m)
  BY <1>1 DEF IsWalk
<1>3. WalkTyped(m)
  BY <1>1 DEF WalkOK, WalkTyped
<1>4. ASSUME Grows(m) PROVE WalkFair(m, R)
  <2>1. StillAhead(l, R) /\ l.page \in Nat
    BY <1>1, <1>4 DEF WalkOK, WalkFair, WalkTyped, Grows
  <2>2. PagesDone(m) = PagesDone(l)
    BY <1>1, <2>1 DEF PagesDone
  <2>3. StillAhead(m, R)
    BY <1>1, <2>1, <2>2 DEF StillAhead
  <2>4. m.stage = "count"
    BY <1>1
  <2> QED BY <2>3, <2>4 DEF WalkFair
<1> QED BY <1>2, <1>3, <1>4 DEF WalkOK

-----------------------------------------------------------------------------
(* The rows of a list, in any state of the store.                          *)

LEMMA TaskListing ==
  ASSUME TasksOK, NEW status
  PROVE  Listing(TaskRows(status))
<1> DEFINE S == {s \in Slugs : task[s] # None /\ status \in {None, task[s].status}}
           row(s) == [key |-> s, created |-> task[s].created, id |-> task[s].id]
           R == {row(s) : s \in S}
           f == [s \in S |-> row(s)]
<1>1. S \in SUBSET Existing
  BY DEF Existing
<1>2. IsFiniteSet(S)
  BY <1>1, FS_Subset DEF TasksOK
<1>3. \A s \in S : task[s] \in TaskRecords
  BY <1>1 DEF TasksOK
<1>4. \A s \in S : task[s].created \in Nat /\ task[s].id \in Nat
  BY <1>3, ListingsAssumption DEF TaskRecords
<1>5. \A r, s \in S : task[r].id = task[s].id => r = s
  BY <1>1 DEF TasksOK
<1>6. \A s \in S : row(s).created \in Nat /\ row(s).id \in Nat
  BY <1>4
<1>7. \A r, s \in S : row(r).id = row(s).id \/ row(r).key = row(s).key => r = s
  BY <1>5
<1>8. f \in Surjection(S, R)
  <2> HIDE DEF row, S
  <2> QED BY DEF Surjection
<1>9. IsFiniteSet(R)
  <2> HIDE DEF f, R, S, row
  <2> QED BY <1>2, <1>8, FS_Surjection
<1>10. Listing(R)
  <2> HIDE DEF S, row
  <2>1. \A x \in R : x.created \in Nat /\ x.id \in Nat
    BY <1>6
  <2>2. \A x, y \in R : x.id = y.id \/ x.key = y.key => x = y
    BY <1>7
  <2> QED BY <1>9, <2>1, <2>2 DEF Listing
<1>11. R = TaskRows(status)
  BY DEF TaskRows
<1> QED BY <1>10, <1>11

LEMMA HistoryListing ==
  ASSUME HistoryOK(history), NEW s, NEW kind
  PROVE  Listing(HistoryRows(s, kind))
<1> DEFINE H == {h \in history : h.slug = s /\ kind \in {None, h.kind}}
           row(h) == [key |-> <<h.kind, h.version>>, created |-> h.created, id |-> h.id]
           R == {row(h) : h \in H}
           f == [h \in H |-> row(h)]
<1>1. H \in SUBSET history
  OBVIOUS
<1>2. IsFiniteSet(H)
  BY <1>1, FS_Subset DEF HistoryOK
<1>3. \A h \in H : h.created \in Nat /\ h.id \in Nat
  BY <1>1, ListingsAssumption DEF HistoryOK, HistoryRow
<1>4. \A g, h \in H : g.id = h.id => g = h
  BY <1>1 DEF HistoryOK
<1>5. \A g, h \in H : g.kind = h.kind /\ g.version = h.version => g = h
  BY DEF HistoryOK
<1>6. \A h \in H : row(h).created \in Nat /\ row(h).id \in Nat
  BY <1>3
<1>7. \A g, h \in H : row(g).id = row(h).id \/ row(g).key = row(h).key => g = h
  BY <1>4, <1>5
<1>8. f \in Surjection(H, R)
  <2> HIDE DEF row, H
  <2> QED BY DEF Surjection
<1>9. IsFiniteSet(R)
  <2> HIDE DEF f, R, H, row
  <2> QED BY <1>2, <1>8, FS_Surjection
<1>10. Listing(R)
  <2> HIDE DEF H, row
  <2>1. \A x \in R : x.created \in Nat /\ x.id \in Nat
    BY <1>6
  <2>2. \A x, y \in R : x.id = y.id \/ x.key = y.key => x = y
    BY <1>7
  <2> QED BY <1>9, <2>1, <2>2 DEF Listing
<1>11. R = HistoryRows(s, kind)
  BY DEF HistoryRows
<1> QED BY <1>10, <1>11

LEMMA ListingNow == Stored => \A l : Listing(Matching(l))
<1> SUFFICES ASSUME Stored, NEW l PROVE Listing(Matching(l))
  OBVIOUS
<1>1. TasksOK /\ HistoryOK(history)
  BY DEF Stored
<1>2. CASE l.list = "tasks"
  <2>1. Listing(TaskRows(l.filter))
    BY <1>1, TaskListing
  <2> QED BY <1>2, <2>1 DEF Matching
<1>3. CASE l.list # "tasks"
  <2>1. Listing(HistoryRows(l.slug, l.filter))
    BY <1>1, HistoryListing
  <2> QED BY <1>3, <2>1 DEF Matching
<1> QED BY <1>2, <1>3

LEMMA ListingLater == Stored' => (\A l : Listing(Matching(l)))'
  BY ListingNow, PTL

\* The next row of a kind of state of a task, under the next id.
LEMMA HistoryAdds ==
  ASSUME NEW H, HistoryOK(H), NEW s \in Slugs, NEW k \in Kinds, NEW created \in 0..MaxTime,
         NEW h, h = [kind |-> k, slug |-> s,
                     version |-> Cardinality(ChainOf(H, s, k)) + 1,
                     created |-> created, id |-> Cardinality(H) + 1]
  PROVE  /\ HistoryOK(H \cup {h}) /\ Cardinality(H \cup {h}) = Cardinality(H) + 1
         /\ Cardinality(ChainOf(H \cup {h}, s, k)) = Cardinality(ChainOf(H, s, k)) + 1
         /\ \A r \in Slugs, j \in Kinds : r # s \/ j # k =>
              ChainOf(H \cup {h}, r, j) = ChainOf(H, r, j)
<1> DEFINE C == ChainOf(H, s, k)
           G == H \cup {h}
<1>1. IsFiniteSet(H) /\ H \subseteq HistoryRow /\ Cardinality(H) \in Nat
  <2>1. IsFiniteSet(H)
    BY DEF HistoryOK
  <2> QED BY <2>1, FS_CardinalityType DEF HistoryOK
<1>2. C \in SUBSET H
  BY DEF ChainOf
<1>3. IsFiniteSet(C) /\ Cardinality(C) \in Nat
  <2> HIDE DEF C
  <2> QED BY <1>1, <1>2, FS_Subset, FS_CardinalityType
<1>4. PICK n \in Nat, v \in Nat : n = Cardinality(H) /\ v = Cardinality(C)
  BY <1>1, <1>3
<1>5. h = [kind |-> k, slug |-> s, version |-> v + 1, created |-> created, id |-> n + 1]
  BY <1>4
<1>6. \A g \in H : g.id \in 1..n /\ g.id # h.id /\ g # h
  BY <1>4, <1>5 DEF HistoryOK
<1>7. IsFiniteSet(G) /\ Cardinality(G) = n + 1
  <2>1. h \notin H
    BY <1>6
  <2> QED BY <2>1, <1>1, <1>4, FS_AddElement
<1>8. ChainOf(G, s, k) = C \cup {h} /\ h \notin C
  BY <1>5, <1>6 DEF ChainOf
<1>9. \A r \in Slugs, j \in Kinds : r # s \/ j # k => ChainOf(G, r, j) = ChainOf(H, r, j)
  BY <1>5 DEF ChainOf
<1>10. Cardinality(ChainOf(G, s, k)) = v + 1
  <2> HIDE DEF C
  <2>1. Cardinality(C \cup {h}) = v + 1
    BY <1>3, <1>4, <1>8, FS_AddElement
  <2> QED BY <2>1, <1>8
<1>11. h \in HistoryRow
  BY <1>5 DEF HistoryRow
<1>12. \A g \in H : g.slug \in Slugs /\ g.kind \in Kinds
                    /\ g.version \in 1..Cardinality(ChainOf(H, g.slug, g.kind))
  BY <1>1 DEF HistoryOK, HistoryRow
<1>13. \A g \in H : g.slug = s /\ g.kind = k => g.version \in 1..v
  BY <1>4, <1>12
<1>14. \A g \in G : /\ g.id \in 1..n + 1
                    /\ g.version \in 1..Cardinality(ChainOf(G, g.slug, g.kind))
  <2> TAKE g \in G
  <2>1. CASE g = h
    BY <2>1, <1>5, <1>10
  <2>2. CASE g # h
    <3>1. g \in H
      BY <2>2
    <3>2. g.id \in 1..n + 1
      BY <3>1, <1>6
    <3>3. CASE g.slug = s /\ g.kind = k
      BY <3>1, <3>2, <3>3, <1>10, <1>13
    <3>4. CASE ~ (g.slug = s /\ g.kind = k)
      <4>1. g.slug \in Slugs /\ g.kind \in Kinds
        BY <3>1, <1>12
      <4>2. ChainOf(G, g.slug, g.kind) = ChainOf(H, g.slug, g.kind)
        BY <3>4, <4>1, <1>9
      <4> QED BY <3>1, <3>2, <4>2, <1>12
    <3> QED BY <3>3, <3>4
  <2> QED BY <2>1, <2>2
<1>15. \A f, g \in G : f.id = g.id => f = g
  <2>1. \A f, g \in H : f.id = g.id => f = g
    BY DEF HistoryOK
  <2> QED BY <2>1, <1>6
<1>16. \A f, g \in G : f.slug = g.slug /\ f.kind = g.kind /\ f.version = g.version => f = g
  <2>1. \A f, g \in H : f.slug = g.slug /\ f.kind = g.kind /\ f.version = g.version => f = g
    BY DEF HistoryOK
  <2>2. \A g \in H : ~ (g.slug = h.slug /\ g.kind = h.kind /\ g.version = h.version)
    BY <1>5, <1>13
  <2> QED BY <2>1, <2>2
<1>17. HistoryOK(G)
  <2> HIDE DEF G
  <2>1. G \subseteq HistoryRow
    BY <1>1, <1>11 DEF G
  <2> QED BY <2>1, <1>7, <1>14, <1>15, <1>16 DEF HistoryOK
<1> QED BY <1>4, <1>7, <1>9, <1>10, <1>17

-----------------------------------------------------------------------------
(* The invariant is kept by every step.                                    *)

\* A state's rows are recorded: one for each of the kinds ks of s.
LEMMA NewRowsOK ==
  ASSUME HistoryOK(history), NEW s \in Slugs, NEW ks, ks = Kinds \/ ks = {"work"},
         NEW created \in 0..MaxTime, history' = history \cup NewRows(s, ks, created)
  PROVE  /\ HistoryOK(history') /\ history \subseteq history'
         /\ \A r \in Slugs, k \in Kinds :
              Version(r, k)' = Version(r, k) + IF r = s /\ k \in ks THEN 1 ELSE 0
<1>1. PICK H : H = history
  OBVIOUS
<1> DEFINE V(k) == Cardinality(ChainOf(H, s, k))
<1>2. \A r, k : /\ Version(r, k) = Cardinality(ChainOf(H, r, k))
                /\ Version(r, k)' = Cardinality(ChainOf(history', r, k))
  BY <1>1 DEF Version, ChainOf
<1>3. IsFiniteSet(H) /\ Cardinality(H) \in Nat /\ HistoryOK(H)
  <2>1. IsFiniteSet(H)
    BY <1>1 DEF HistoryOK
  <2> QED BY <2>1, <1>1, FS_CardinalityType
<1>4. \A r, k : Cardinality(ChainOf(H, r, k)) \in Nat
  <2> SUFFICES ASSUME NEW r, NEW k PROVE Cardinality(ChainOf(H, r, k)) \in Nat
    OBVIOUS
  <2>1. ChainOf(H, r, k) \in SUBSET H
    BY DEF ChainOf
  <2> QED BY <2>1, <1>3, FS_Subset, FS_CardinalityType
<1>5. PICK a : a = [kind |-> "work", slug |-> s, version |-> V("work") + 1,
                    created |-> created, id |-> Cardinality(H) + 1]
  OBVIOUS
<1>6. "work" \in Kinds /\ "financial" \in Kinds /\ Kinds = {"work", "financial"}
      /\ "work" # "financial"
  BY DEF Kinds
<1>7. /\ HistoryOK(H \cup {a}) /\ Cardinality(H \cup {a}) = Cardinality(H) + 1
      /\ Cardinality(ChainOf(H \cup {a}, s, "work")) = V("work") + 1
      /\ \A r \in Slugs, j \in Kinds : r # s \/ j # "work" =>
           ChainOf(H \cup {a}, r, j) = ChainOf(H, r, j)
  BY <1>3, <1>5, <1>6, HistoryAdds
<1>8. CASE ks = {"work"}
  <2>1. NewRows(s, ks, created) = {a}
    BY <1>1, <1>2, <1>5, <1>8 DEF NewRows
  <2>2. history' = H \cup {a}
    BY <2>1, <1>1
  <2>3. ASSUME NEW r \in Slugs, NEW k \in Kinds
        PROVE  Version(r, k)' = Version(r, k) + IF r = s /\ k \in ks THEN 1 ELSE 0
    <3>1. /\ Version(r, k) = Cardinality(ChainOf(H, r, k)) /\ Version(r, k) \in Nat
          /\ Version(r, k)' = Cardinality(ChainOf(H \cup {a}, r, k))
      BY <2>2, <1>2, <1>4
    <3>2. CASE r = s /\ k = "work"
      BY <3>1, <3>2, <1>7, <1>8
    <3>3. CASE ~ (r = s /\ k = "work")
      <4>1. Version(r, k)' = Version(r, k)
        BY <3>1, <3>3, <1>7
      <4> QED BY <3>1, <3>3, <4>1, <1>8
    <3> QED BY <3>2, <3>3
  <2> QED BY <2>2, <2>3, <1>1, <1>7
<1>9. CASE ks = Kinds
  <2>1. PICK b : b = [kind |-> "financial", slug |-> s, version |-> V("financial") + 1,
                      created |-> created, id |-> Cardinality(H) + 2]
    OBVIOUS
  <2>2. PICK G : G = H \cup {a}
    OBVIOUS
  <2>3. ChainOf(G, s, "financial") = ChainOf(H, s, "financial")
    BY <2>2, <1>6, <1>7
  <2>4. b = [kind |-> "financial", slug |-> s,
             version |-> Cardinality(ChainOf(G, s, "financial")) + 1,
             created |-> created, id |-> Cardinality(G) + 1]
    <3>1. Cardinality(G) + 1 = Cardinality(H) + 2
      BY <2>2, <1>3, <1>7
    <3> QED BY <2>1, <2>3, <3>1
  <2>5. /\ HistoryOK(G \cup {b})
        /\ Cardinality(ChainOf(G \cup {b}, s, "financial")) = V("financial") + 1
        /\ \A r \in Slugs, j \in Kinds : r # s \/ j # "financial" =>
             ChainOf(G \cup {b}, r, j) = ChainOf(G, r, j)
    <3>1. HistoryOK(G)
      BY <2>2, <1>7
    <3>2. /\ HistoryOK(G \cup {b})
          /\ Cardinality(ChainOf(G \cup {b}, s, "financial"))
               = Cardinality(ChainOf(G, s, "financial")) + 1
          /\ \A r \in Slugs, j \in Kinds : r # s \/ j # "financial" =>
               ChainOf(G \cup {b}, r, j) = ChainOf(G, r, j)
      BY <3>1, <2>4, <1>6, HistoryAdds
    <3> QED BY <3>2, <2>3
  <2>6. NewRows(s, ks, created) = {a, b}
    <3>1. Cardinality(Kinds) = 2
      <4>1. Cardinality({"work"}) = 1 /\ IsFiniteSet({"work"})
        BY FS_Singleton
      <4>2. Cardinality({"work"} \cup {"financial"}) = 2
        BY <4>1, <1>6, FS_AddElement
      <4>3. {"work"} \cup {"financial"} = Kinds
        BY <1>6
      <4> QED BY <4>2, <4>3
    <3>2. Version(s, "work") = V("work") /\ Version(s, "financial") = V("financial")
      BY <1>2
    <3> DEFINE new(k) ==
          [kind |-> k, slug |-> s, version |-> Version(s, k) + 1, created |-> created,
           id |-> Cardinality(history) + (IF k = "work" THEN 1 ELSE Cardinality(ks))]
    <3>3. new("work") = a
      BY <3>2, <1>1, <1>5
    <3>4. new("financial") = b
      BY <2>1, <3>1, <3>2, <1>1, <1>9
    <3>5. NewRows(s, ks, created) = {new(k) : k \in Kinds}
      BY <1>9 DEF NewRows
    <3> HIDE DEF new
    <3> QED BY <3>3, <3>4, <3>5, <1>6
  <2>7. history' = G \cup {b}
    BY <2>2, <2>6, <1>1
  <2>8. ASSUME NEW r \in Slugs, NEW k \in Kinds
        PROVE  Version(r, k)' = Version(r, k) + IF r = s /\ k \in ks THEN 1 ELSE 0
    <3>1. /\ Version(r, k) = Cardinality(ChainOf(H, r, k)) /\ Version(r, k) \in Nat
          /\ Version(r, k)' = Cardinality(ChainOf(G \cup {b}, r, k))
      BY <2>7, <1>2, <1>4
    <3>2. CASE r = s /\ k = "work"
      <4>1. ChainOf(G \cup {b}, r, k) = ChainOf(G, r, k)
        BY <3>2, <2>5, <1>6
      <4> QED BY <3>1, <3>2, <4>1, <2>2, <1>7, <1>9
    <3>3. CASE r = s /\ k = "financial"
      BY <3>1, <3>3, <2>5, <1>9
    <3>4. CASE r # s
      <4>1. ChainOf(G \cup {b}, r, k) = ChainOf(H, r, k)
        BY <3>4, <2>2, <2>5, <1>7
      <4> QED BY <3>1, <3>4, <4>1
    <3> QED BY <3>2, <3>3, <3>4, <1>6
  <2> QED BY <2>2, <2>5, <2>7, <2>8, <1>1
<1> QED BY <1>8, <1>9

\* The lists that grow do.
LEMMA RowsOnlyJoin ==
  ASSUME \A s \in Slugs : task[s] # None =>
           /\ task'[s] # None
           /\ task'[s].created = task[s].created /\ task'[s].id = task[s].id,
         history \subseteq history',
         NEW l, Grows(l)
  PROVE  Matching(l) \subseteq Matching(l)'
<1>1. TaskRows(None) \subseteq TaskRows(None)'
  BY DEF TaskRows
<1>2. \A s, k : HistoryRows(s, k) \subseteq HistoryRows(s, k)'
  BY DEF HistoryRows
<1>3. PICK s, k : s = l.slug /\ k = l.filter
  OBVIOUS
<1>4. CASE l.list = "tasks"
  <2>1. k = None
    BY <1>3, <1>4 DEF Grows
  <2> QED BY <2>1, <1>1, <1>3, <1>4 DEF Matching
<1>5. CASE l.list # "tasks"
  BY <1>2, <1>3, <1>5 DEF Matching
<1> QED BY <1>4, <1>5

\* A step of the store under walks that stand still.
LEMMA StoreStep ==
  ASSUME ListingsInv, Stored', UNCHANGED walk,
         \A s \in Slugs : task[s] # None =>
           /\ task'[s] # None
           /\ task'[s].created = task[s].created /\ task'[s].id = task[s].id,
         history \subseteq history'
  PROVE  ListingsInv'
<1>1. WalksOK
  BY DEF ListingsInv
<1>2. ASSUME NEW c \in Clients PROVE WalkOK(walk[c], Matching(walk[c]))'
  <2>1. PICK l : l = walk[c]
    OBVIOUS
  <2>2. PICK R : R = Matching(l)
    OBVIOUS
  <2>3. PICK Q : Q = Matching(l)'
    OBVIOUS
  <2>4. WalkOK(l, R)
    BY <2>1, <2>2, <1>1 DEF WalksOK
  <2>5. Grows(l) => R \subseteq Q
    BY <2>2, <2>3, RowsOnlyJoin
  <2>6. IsFiniteSet(Q)
    <3>1. Listing(Matching(l)')
      BY ListingLater DEF Listing
    <3> QED BY <3>1, <2>3 DEF Listing
  <2>7. WalkOK(l, Q)
    BY <2>4, <2>5, <2>6, WalkKept
  <2>8. walk'[c] = l
    BY <2>1
  <2>9. Matching(walk[c])' = Q
    BY <2>3, <2>8 DEF Matching, TaskRows, HistoryRows
  <2> QED BY <2>7, <2>8, <2>9 DEF WalkOK
<1>3. WalksOK'
  BY <1>1, <1>2 DEF WalksOK
<1> QED BY <1>3 DEF ListingsInv

LEMMA InitListings == Init => ListingsInv
<1> SUFFICES ASSUME Init PROVE ListingsInv
  OBVIOUS
<1>1. /\ clock = 0 /\ task = [s \in Slugs |-> None] /\ history = {}
      /\ tx = [w \in Writers |-> IdleTx] /\ walk = [c \in Clients |-> IdleWalk]
  BY DEF Init
<1>2. TasksOK
  <2>1. Existing = {}
    BY <1>1 DEF Existing
  <2> QED BY <2>1, <1>1, FS_EmptySet DEF TasksOK
<1>3. HistoryOK(history)
  BY <1>1, FS_EmptySet DEF HistoryOK
<1>4. VersionsFit
  <2>1. \A s, k : Version(s, k) = Cardinality({})
    BY <1>1 DEF Version
  <2> QED BY <2>1, <1>1, FS_EmptySet DEF VersionsFit, StatesSoFar
<1>5. WritersOK
  BY <1>1 DEF WritersOK, IdleTx
<1>6. clock \in 0..MaxTime
  BY <1>1, ListingsAssumption
<1>7. WalksOK
  <2>1. \A c \in Clients : walk[c] = IdleWalk
    BY <1>1
  <2> QED BY <2>1, <1>1, IdleWalkOK DEF WalksOK
<1> QED BY <1>2, <1>3, <1>4, <1>5, <1>6, <1>7 DEF ListingsInv, Stored

LEMMA TickStep == ListingsInv /\ Tick => ListingsInv'
<1> SUFFICES ASSUME ListingsInv, Tick PROVE ListingsInv'
  OBVIOUS
<1>1. Stored /\ clock < MaxTime /\ clock' = clock + 1 /\ UNCHANGED <<task, history, tx, walk>>
  BY DEF ListingsInv, Tick
<1>2. clock \in Nat /\ clock' \in 0..MaxTime
  BY <1>1, ListingsAssumption DEF Stored
<1>3. TasksOK' /\ HistoryOK(history') /\ VersionsFit'
  BY <1>1 DEF Stored, TasksOK, Existing, VersionsFit, Version
<1>4. WritersOK'
  BY <1>1, <1>2 DEF Stored, WritersOK
<1>5. Stored'
  BY <1>2, <1>3, <1>4 DEF Stored
<1> QED BY <1>1, <1>5, StoreStep

\* What a writer is about to commit, before it does or after it gave up.
LEMMA TxStep ==
  ASSUME ListingsInv, NEW w \in Writers, NEW t, tx' = [tx EXCEPT ![w] = t],
         t.op \in {"idle", "create", "move"}, t.began \in 0..clock,
         t.op # "idle" => t.slug \in Slugs,
         t.op = "move" => task[t.slug] # None,
         UNCHANGED <<clock, task, history, walk>>
  PROVE  ListingsInv'
<1>1. Stored
  BY DEF ListingsInv
<1>2. clock' \in 0..MaxTime /\ TasksOK' /\ HistoryOK(history') /\ VersionsFit'
  BY <1>1 DEF Stored, TasksOK, Existing, VersionsFit, Version
<1>3. WritersOK'
  BY <1>1 DEF Stored, WritersOK
<1>4. Stored'
  BY <1>2, <1>3 DEF Stored
<1> QED BY <1>4, StoreStep

LEMMA StampStep ==
  ASSUME ListingsInv, NEW w \in Writers, NEW s \in Slugs,
         CreateCampaign(w, s) \/ BeginTransition(w, s)
  PROVE  ListingsInv'
<1>1. PICK op \in {"create", "move"} : Stamped(w, op, s) /\ (op = "move" => task[s] # None)
  BY DEF CreateCampaign, BeginTransition
<1>2. PICK t : t = [op |-> op, slug |-> s, began |-> clock]
  OBVIOUS
<1>3. tx' = [tx EXCEPT ![w] = t] /\ UNCHANGED <<clock, task, history, walk>>
  BY <1>1, <1>2 DEF Stamped
<1>4. clock \in 0..clock
  BY ListingsAssumption DEF ListingsInv, Stored
<1> QED BY <1>1, <1>2, <1>3, <1>4, TxStep

LEMMA RollbackStep ==
  ASSUME ListingsInv, NEW w \in Writers, Rollback(w)
  PROVE  ListingsInv'
<1>1. PICK t : t = IdleTx
  OBVIOUS
<1>2. tx' = [tx EXCEPT ![w] = t] /\ UNCHANGED <<clock, task, history, walk>>
  BY <1>1 DEF Rollback
<1>3. 0 \in 0..clock
  BY ListingsAssumption DEF ListingsInv, Stored
<1> QED BY <1>1, <1>2, <1>3, TxStep DEF IdleTx

LEMMA NoRowIsNone == \A t \in TaskRecords : t # None
<1> SUFFICES ASSUME NEW t \in TaskRecords PROVE t # None
  OBVIOUS
<1>1. t = [created |-> t.created, status |-> t.status, id |-> t.id]
  BY DEF TaskRecords
<1>2. t.created \in Nat /\ t.status \in WorkStates /\ t.id \in Nat
  BY ListingsAssumption DEF TaskRecords
<1>3. t \in [created : Nat, status : WorkStates, id : Nat]
  BY <1>1, <1>2
<1> QED BY <1>3, ListingsAssumption

\* The tasks and the history change together: writer w commits t for s, which
\* is one more state of each kind in ks.
Commits(w, s, t, ks) ==
  /\ tx[w].op # "idle" /\ s = tx[w].slug
  /\ t \in TaskRecords /\ task' = [task EXCEPT ![s] = t]
  /\ ks = Kinds \/ ks = {"work"}
  /\ history' = history \cup NewRows(s, ks, tx[w].began)
  /\ tx' = [tx EXCEPT ![w] = IdleTx] /\ UNCHANGED <<clock, walk>>
  /\ \A k \in Kinds : StatesSoFar(t, k) =
                        StatesSoFar(task[s], k) + IF k \in ks THEN 1 ELSE 0
  /\ IF task[s] = None THEN t.id = 1 + Cardinality(Existing)
     ELSE t.id = task[s].id /\ t.created = task[s].created

LEMMA CommitStep ==
  ASSUME ListingsInv, NEW w \in Writers, NEW s, NEW t, NEW ks, Commits(w, s, t, ks)
  PROVE  ListingsInv'
<1>0. /\ tx[w].op # "idle" /\ s = tx[w].slug
      /\ t \in TaskRecords /\ task' = [task EXCEPT ![s] = t]
      /\ ks = Kinds \/ ks = {"work"}
      /\ history' = history \cup NewRows(s, ks, tx[w].began)
      /\ tx' = [tx EXCEPT ![w] = IdleTx] /\ UNCHANGED <<clock, walk>>
      /\ \A k \in Kinds : StatesSoFar(t, k) =
                            StatesSoFar(task[s], k) + IF k \in ks THEN 1 ELSE 0
      /\ IF task[s] = None THEN t.id = 1 + Cardinality(Existing)
         ELSE t.id = task[s].id /\ t.created = task[s].created
  BY DEF Commits
<1>1. /\ Stored /\ TasksOK /\ HistoryOK(history) /\ VersionsFit /\ WritersOK
      /\ clock \in 0..MaxTime
  BY DEF ListingsInv, Stored
<1>2. s \in Slugs /\ tx[w].began \in 0..MaxTime
  BY <1>0, <1>1, ListingsAssumption DEF WritersOK
<1>3. PICK began \in 0..MaxTime : began = tx[w].began
  BY <1>2
<1>4. /\ HistoryOK(history') /\ history \subseteq history'
      /\ \A r \in Slugs, k \in Kinds :
           Version(r, k)' = Version(r, k) + IF r = s /\ k \in ks THEN 1 ELSE 0
  <2>1. history' = history \cup NewRows(s, ks, began)
    BY <1>0, <1>3
  <2> QED BY <1>0, <1>1, <1>2, <2>1, NewRowsOK
<1>5. t # None /\ t.id \in Nat \ {0}
  BY <1>0, NoRowIsNone DEF TaskRecords
<1>6. /\ task' = [r \in Slugs |-> IF r = s THEN t ELSE task[r]]
      /\ task'[s] = t /\ \A r \in Slugs : r # s => task'[r] = task[r]
  BY <1>0, <1>1, <1>2 DEF TasksOK
<1>7. Existing' = Existing \cup {s}
  BY <1>2, <1>5, <1>6 DEF Existing
<1>8. IsFiniteSet(Existing) /\ Cardinality(Existing) \in Nat
  <2>1. IsFiniteSet(Existing)
    BY <1>1 DEF TasksOK
  <2> QED BY <2>1, FS_CardinalityType
<1>9. IsFiniteSet(Existing') /\ Cardinality(Existing') \in Nat
      /\ Cardinality(Existing') = Cardinality(Existing) + IF task[s] = None THEN 1 ELSE 0
  <2>1. s \in Existing <=> task[s] # None
    BY <1>2 DEF Existing
  <2>2. IsFiniteSet(Existing \cup {s}) /\ Cardinality(Existing \cup {s}) =
          IF s \in Existing THEN Cardinality(Existing) ELSE Cardinality(Existing) + 1
    BY <1>8, FS_AddElement
  <2> QED BY <2>1, <2>2, <1>7, <1>8
<1>10. \A r \in Existing : /\ task[r] \in TaskRecords /\ task[r].id \in Nat \ {0}
                           /\ task[r].id <= Cardinality(Existing)
  BY <1>1 DEF TasksOK, TaskRecords
<1>11. \A q, r \in Existing : task[q].id = task[r].id => q = r
  BY <1>1 DEF TasksOK
<1>12. \A r \in Existing' : r # s => r \in Existing /\ task'[r] = task[r] /\ r \in Slugs
  BY <1>6, <1>7 DEF Existing
<1>13. s \in Existing <=> task[s] # None
  BY <1>2 DEF Existing
<1>14. t.id <= Cardinality(Existing')
  BY <1>0, <1>8, <1>9, <1>10, <1>13
<1>15. \A r \in Existing : r # s => task[r].id # t.id
  BY <1>0, <1>8, <1>10, <1>11, <1>13
<1>16. TasksOK'
  <2>1. task' = [r \in Slugs |-> task'[r]]
    BY <1>6
  <2>2. \A r \in Existing' : /\ task'[r] \in TaskRecords
                             /\ task'[r].id <= Cardinality(Existing')
    <3> SUFFICES ASSUME NEW r \in Existing'
                 PROVE  task'[r] \in TaskRecords /\ task'[r].id <= Cardinality(Existing')
      OBVIOUS
    <3>1. CASE r = s
      BY <1>0, <3>1, <1>6, <1>14
    <3>2. CASE r # s
      BY <3>2, <1>8, <1>9, <1>10, <1>12
    <3> QED BY <3>1, <3>2
  <2>3. \A q, r \in Existing' : task'[q].id = task'[r].id => q = r
    BY <1>6, <1>11, <1>12, <1>15
  <2> QED BY <2>1, <2>2, <2>3, <1>9 DEF TasksOK
<1>17. VersionsFit'
  <2> SUFFICES ASSUME NEW r \in Slugs, NEW k \in Kinds
               PROVE  Version(r, k)' = StatesSoFar(task'[r], k)
    BY DEF VersionsFit, StatesSoFar
  <2>1. Version(r, k) = StatesSoFar(task[r], k)
    BY <1>1 DEF VersionsFit
  <2>2. CASE r = s
    <3>1. StatesSoFar(task'[r], k) = StatesSoFar(t, k)
      BY <2>2, <1>6
    <3> QED BY <1>0, <2>1, <2>2, <3>1, <1>4
  <2>3. CASE r # s
    <3>1. StatesSoFar(task'[r], k) = StatesSoFar(task[r], k)
      BY <2>3, <1>6
    <3>2. StatesSoFar(task[r], k) \in Nat
      BY DEF StatesSoFar
    <3>3. Version(r, k)' = Version(r, k) + 0
      BY <2>3, <1>4
    <3> QED BY <2>1, <3>1, <3>2, <3>3
  <2> QED BY <2>2, <2>3
<1>18. \A r \in Slugs : task[r] # None =>
         /\ task'[r] # None
         /\ task'[r].created = task[r].created /\ task'[r].id = task[r].id
  BY <1>0, <1>5, <1>6
<1>19. WritersOK'
  <2>1. tx' = [v \in Writers |-> tx'[v]]
    BY <1>0, <1>1 DEF WritersOK
  <2>2. \A v \in Writers : tx'[v] = IF v = w THEN IdleTx ELSE tx[v]
    BY <1>0, <1>1 DEF WritersOK
  <2>3. 0 \in 0..clock
    BY <1>1, ListingsAssumption
  <2> SUFFICES ASSUME NEW v \in Writers
               PROVE  /\ tx'[v].op \in {"idle", "create", "move"}
                      /\ tx'[v].began \in 0..clock'
                      /\ tx'[v].op # "idle" => tx'[v].slug \in Slugs
                      /\ tx'[v].op = "move" => task'[tx'[v].slug] # None
    BY <2>1 DEF WritersOK
  <2>4. CASE v = w
    BY <1>0, <2>2, <2>3, <2>4 DEF IdleTx
  <2>5. CASE v # w
    <3>1. tx'[v] = tx[v]
      BY <2>2, <2>5
    <3>2. /\ tx[v].op \in {"idle", "create", "move"} /\ tx[v].began \in 0..clock
          /\ tx[v].op # "idle" => tx[v].slug \in Slugs
          /\ tx[v].op = "move" => task[tx[v].slug] # None
      BY <1>1 DEF WritersOK
    <3> QED BY <1>0, <3>1, <3>2, <1>18
  <2> QED BY <2>4, <2>5
<1>20. Stored'
  BY <1>0, <1>1, <1>4, <1>16, <1>17, <1>19 DEF Stored
<1> QED BY <1>0, <1>4, <1>18, <1>20, StoreStep

LEMMA CommitCreateStep ==
  ASSUME ListingsInv, NEW w \in Writers, CommitCreate(w)
  PROVE  ListingsInv'
<1>1. /\ TasksOK /\ WritersOK /\ clock \in 0..MaxTime
  BY DEF ListingsInv, Stored
<1>2. PICK s : s = tx[w].slug
  OBVIOUS
<1>3. PICK t : t = [created |-> tx[w].began, status |-> "open",
                    id |-> 1 + Cardinality(Existing)]
  OBVIOUS
<1>4. /\ tx[w].op = "create" /\ task[s] = None /\ task' = [task EXCEPT ![s] = t]
      /\ history' = history \cup NewRows(s, Kinds, tx[w].began)
      /\ tx' = [tx EXCEPT ![w] = IdleTx] /\ UNCHANGED <<clock, walk>>
  BY <1>2, <1>3 DEF CommitCreate, Existing
<1>5. Cardinality(Existing) \in Nat
  <2>1. IsFiniteSet(Existing)
    BY <1>1 DEF TasksOK
  <2> QED BY <2>1, FS_CardinalityType
<1>6. tx[w].began \in 0..MaxTime
  BY <1>1, ListingsAssumption DEF WritersOK
<1>7. t \in TaskRecords /\ t.status = "open" /\ t.id = 1 + Cardinality(Existing)
  BY <1>3, <1>5, <1>6 DEF TaskRecords, WorkStates
<1>8. t # None
  BY <1>7, NoRowIsNone
<1>9. PICK ks : ks = Kinds
  OBVIOUS
<1>10. \A k \in Kinds : StatesSoFar(t, k) = 1 /\ StatesSoFar(task[s], k) = 0
  BY <1>4, <1>7, <1>8 DEF StatesSoFar
<1>11. \A k \in Kinds : StatesSoFar(t, k) =
                          StatesSoFar(task[s], k) + IF k \in ks THEN 1 ELSE 0
  BY <1>9, <1>10
<1>12. history' = history \cup NewRows(s, ks, tx[w].began)
  BY <1>4, <1>9
<1>13. tx[w].op # "idle"
  BY <1>4
<1>14. Commits(w, s, t, ks)
  BY <1>2, <1>4, <1>7, <1>9, <1>11, <1>12, <1>13 DEF Commits
<1> QED BY <1>14, CommitStep

LEMMA CommitTransitionStep ==
  ASSUME ListingsInv, NEW w \in Writers, CommitTransition(w)
  PROVE  ListingsInv'
<1>1. /\ TasksOK /\ WritersOK
  BY DEF ListingsInv, Stored
<1>2. PICK s : s = tx[w].slug
  OBVIOUS
<1>3. PICK old : old = task[s]
  OBVIOUS
<1>4. PICK t : t = [old EXCEPT !.status = NextWork[old.status]]
  OBVIOUS
<1>5. PICK ks : ks = IF t.status = "completed" THEN Kinds ELSE {"work"}
  OBVIOUS
<1>6. tx[w].op = "move" /\ s \in Slugs /\ old # None /\ old \in TaskRecords
  <2>1. tx[w].op = "move"
    BY DEF CommitTransition
  <2>2. s \in Slugs /\ task[s] # None
    BY <2>1, <1>1, <1>2 DEF WritersOK
  <2> QED BY <2>1, <2>2, <1>1, <1>3 DEF TasksOK, Existing
<1>7. old.status \in {"open", "in_progress", "pending_verification"}
  BY <1>2, <1>3 DEF CommitTransition, NextWork
<1>8. NextWork[old.status] = CASE old.status = "open" -> "in_progress"
                               [] old.status = "in_progress" -> "pending_verification"
                               [] old.status = "pending_verification" -> "completed"
  BY <1>7 DEF NextWork
<1>9. old = [created |-> old.created, status |-> old.status, id |-> old.id]
  BY <1>6 DEF TaskRecords
<1>10. t = [created |-> old.created, status |-> NextWork[old.status], id |-> old.id]
  BY <1>4, <1>9
<1>11. t \in TaskRecords /\ t.status = NextWork[old.status]
       /\ t.id = old.id /\ t.created = old.created
  BY <1>6, <1>7, <1>8, <1>10 DEF TaskRecords, WorkStates
<1>12. t # None
  BY <1>11, NoRowIsNone
<1>13. task' = [task EXCEPT ![s] = t]
  BY <1>2, <1>3, <1>4 DEF CommitTransition
<1>14. history' = history \cup NewRows(s, ks, tx[w].began)
  <2>1. history' = history \cup
          NewRows(s, IF NextWork[old.status] = "completed" THEN Kinds ELSE {"work"},
                  tx[w].began)
    BY <1>2, <1>3 DEF CommitTransition
  <2> QED BY <2>1, <1>5, <1>11
<1>15. tx' = [tx EXCEPT ![w] = IdleTx] /\ UNCHANGED <<clock, walk>>
  BY DEF CommitTransition
<1>16. \A k \in Kinds : StatesSoFar(t, k) =
                          StatesSoFar(old, k) + IF k \in ks THEN 1 ELSE 0
  BY <1>5, <1>6, <1>7, <1>8, <1>11, <1>12 DEF StatesSoFar, Kinds
<1>17. ks = Kinds \/ ks = {"work"}
  BY <1>5
<1>18. \A k \in Kinds : StatesSoFar(t, k) =
                          StatesSoFar(task[s], k) + IF k \in ks THEN 1 ELSE 0
  BY <1>3, <1>16
<1>19. tx[w].op # "idle"
  BY <1>6
<1>20. IF task[s] = None THEN t.id = 1 + Cardinality(Existing)
       ELSE t.id = task[s].id /\ t.created = task[s].created
  BY <1>3, <1>6, <1>11
<1>21. t \in TaskRecords
  BY <1>11
<1>22. Commits(w, s, t, ks)
  BY <1>2, <1>13, <1>14, <1>15, <1>17, <1>18, <1>19, <1>20, <1>21 DEF Commits
<1> QED BY <1>22, CommitStep

\* A reader's turn: one walk goes on, the store stands still.
LEMMA WalkTurn ==
  ASSUME ListingsInv, NEW c \in Clients, NEW m, walk' = [walk EXCEPT ![c] = m],
         WalkOK(m, Matching(m)), UNCHANGED <<clock, task, history, tx>>
  PROVE  ListingsInv'
<1>1. Stored /\ WalksOK
  BY DEF ListingsInv
<1>2. clock' \in 0..MaxTime /\ TasksOK' /\ HistoryOK(history') /\ VersionsFit'
  BY <1>1 DEF Stored, TasksOK, Existing, VersionsFit, Version
<1>3. WritersOK'
  BY <1>1 DEF Stored, WritersOK
<1>4. Stored'
  BY <1>2, <1>3 DEF Stored
<1>5. walk' = [d \in Clients |-> IF d = c THEN m ELSE walk[d]]
  BY <1>1 DEF WalksOK
<1>6. ASSUME NEW d \in Clients PROVE WalkOK(walk[d], Matching(walk[d]))'
  <2>1. PICK l : l = IF d = c THEN m ELSE walk[d]
    OBVIOUS
  <2>2. PICK R : R = Matching(l)
    OBVIOUS
  <2>3. WalkOK(l, R)
    BY <2>1, <2>2, <1>1 DEF WalksOK
  <2>4. walk'[d] = l
    BY <2>1, <1>5
  <2>5. Matching(walk[d])' = R
    BY <2>2, <2>4 DEF Matching, TaskRows, HistoryRows
  <2> QED BY <2>3, <2>4, <2>5 DEF WalkOK
<1>7. WalksOK'
  BY <1>5, <1>6 DEF WalksOK
<1> QED BY <1>4, <1>7 DEF ListingsInv

LEMMA AskStep ==
  ASSUME ListingsInv, NEW c \in Clients, NEW list \in Lists, NEW slug, NEW filter,
         NEW size,
         NEW request, request = [stage |-> "idle", list |-> list, slug |-> slug,
                                 filter |-> filter, size |-> size, page |-> 0,
                                 total |-> 0, rows |-> {}, seen |-> {}, due |-> {}],
         Ask(c, request)
  PROVE  ListingsInv'
<1>1. PICK R : R = Matching(request)
  OBVIOUS
<1>2. PICK m : m = [request EXCEPT !.stage = "count", !.page = 1, !.due = KeysOf(R)]
  OBVIOUS
<1>3. Listing(R)
  BY <1>1, ListingNow DEF ListingsInv
<1>4. size \in Nat \ {0}
  BY ListingsAssumption DEF Ask
<1>5. m = [stage |-> "count", list |-> list, slug |-> slug, filter |-> filter,
           size |-> size, page |-> 1, total |-> 0, rows |-> {}, seen |-> {},
           due |-> KeysOf(R)]
  BY <1>2
<1>6. WalkOK(m, R)
  BY <1>3, <1>4, <1>5, AskOK
<1>7. walk' = [walk EXCEPT ![c] = m] /\ UNCHANGED <<clock, task, history, tx>>
  BY <1>1, <1>2 DEF Ask
<1>8. Matching(m) = R
  BY <1>1, <1>5 DEF Matching
<1> QED BY <1>6, <1>7, <1>8, WalkTurn

LEMMA ListStep ==
  ASSUME ListingsInv, NEW c \in Clients, NEW size, NEW filter,
         \/ ListTasks(c, filter, size)
         \/ \E s \in Slugs : ListStateTransitions(c, s, filter, size)
  PROVE  ListingsInv'
<1>1. CASE ListTasks(c, filter, size)
  <2>1. PICK request : request = [IdleWalk EXCEPT !.list = "tasks", !.filter = filter,
                                                  !.size = size]
    OBVIOUS
  <2>2. request = [stage |-> "idle", list |-> "tasks", slug |-> None, filter |-> filter,
                   size |-> size, page |-> 0, total |-> 0, rows |-> {}, seen |-> {},
                   due |-> {}]
    BY <2>1 DEF IdleWalk
  <2>3. Ask(c, request)
    BY <1>1, <2>1 DEF ListTasks
  <2>4. "tasks" \in Lists
    BY DEF Lists
  <2> QED BY <2>2, <2>3, <2>4, AskStep
<1>2. ASSUME NEW s \in Slugs, ListStateTransitions(c, s, filter, size)
      PROVE  ListingsInv'
  <2>1. PICK request : request = [IdleWalk EXCEPT !.list = "history", !.slug = s,
                                                  !.filter = filter, !.size = size]
    OBVIOUS
  <2>2. request = [stage |-> "idle", list |-> "history", slug |-> s, filter |-> filter,
                   size |-> size, page |-> 0, total |-> 0, rows |-> {}, seen |-> {},
                   due |-> {}]
    BY <2>1 DEF IdleWalk
  <2>3. Ask(c, request)
    BY <1>2, <2>1 DEF ListStateTransitions
  <2>4. "history" \in Lists
    BY DEF Lists
  <2> QED BY <2>2, <2>3, <2>4, AskStep
<1> QED BY <1>1, <1>2

LEMMA CountStep ==
  ASSUME ListingsInv, NEW c \in Clients, Count(c)
  PROVE  ListingsInv'
<1>1. PICK l : l = walk[c]
  OBVIOUS
<1>2. PICK R : R = Matching(l)
  OBVIOUS
<1>3. PICK m : m = [l EXCEPT !.stage = "select", !.total = Cardinality(R)]
  OBVIOUS
<1>4. Listing(R) /\ WalkOK(l, R)
  BY <1>1, <1>2, ListingNow DEF ListingsInv, WalksOK
<1>5. l.stage = "count" /\ walk' = [walk EXCEPT ![c] = m]
      /\ UNCHANGED <<clock, task, history, tx>>
  BY <1>1, <1>2, <1>3 DEF Count
<1>6. WalkOK(m, R)
  BY <1>3, <1>4, <1>5, CountOK
<1>7. Matching(m) = R
  BY <1>2, <1>3, <1>4 DEF Matching, WalkOK, IsWalk
<1> QED BY <1>5, <1>6, <1>7, WalkTurn

LEMMA SelectStep ==
  ASSUME ListingsInv, NEW c \in Clients, Select(c)
  PROVE  ListingsInv'
<1>1. PICK l : l = walk[c]
  OBVIOUS
<1>2. PICK R : R = Matching(l)
  OBVIOUS
<1>3. PICK rows : rows = KeysOf(OnPage(R, l.page, l.size))
  OBVIOUS
<1>4. PICK m : m = [l EXCEPT !.stage = "shown", !.rows = rows, !.seen = @ \cup rows]
  OBVIOUS
<1>5. Listing(R) /\ WalkOK(l, R)
  BY <1>1, <1>2, ListingNow DEF ListingsInv, WalksOK
<1>6. l.stage = "select" /\ walk' = [walk EXCEPT ![c] = m]
      /\ UNCHANGED <<clock, task, history, tx>>
  BY <1>1, <1>2, <1>3, <1>4 DEF Select
<1>7. WalkOK(m, R)
  BY <1>3, <1>4, <1>5, <1>6, SelectOK
<1>8. Matching(m) = R
  BY <1>2, <1>4, <1>5 DEF Matching, WalkOK, IsWalk
<1> QED BY <1>6, <1>7, <1>8, WalkTurn

LEMMA NextPageStep ==
  ASSUME ListingsInv, NEW c \in Clients, NextPage(c)
  PROVE  ListingsInv'
<1>1. PICK l : l = walk[c]
  OBVIOUS
<1>2. PICK R : R = Matching(l)
  OBVIOUS
<1>3. PICK m : m = [l EXCEPT !.stage = "count", !.page = @ + 1, !.total = 0, !.rows = {}]
  OBVIOUS
<1>4. WalkOK(l, R)
  BY <1>1, <1>2 DEF ListingsInv, WalksOK
<1>5. l.stage = "shown" /\ walk' = [walk EXCEPT ![c] = m]
      /\ UNCHANGED <<clock, task, history, tx>>
  BY <1>1, <1>3 DEF NextPage
<1>6. WalkOK(m, R)
  BY <1>3, <1>4, <1>5, NextPageOK
<1>7. Matching(m) = R
  BY <1>2, <1>3, <1>4 DEF Matching, WalkOK, IsWalk
<1> QED BY <1>5, <1>6, <1>7, WalkTurn

LEMMA LeaveStep ==
  ASSUME ListingsInv, NEW c \in Clients, Leave(c)
  PROVE  ListingsInv'
<1>1. PICK m : m = IdleWalk
  OBVIOUS
<1>2. walk' = [walk EXCEPT ![c] = m] /\ UNCHANGED <<clock, task, history, tx>>
  BY <1>1 DEF Leave
<1>3. WalkOK(m, Matching(m))
  BY <1>1, IdleWalkOK
<1> QED BY <1>2, <1>3, WalkTurn

LEMMA NextListings == ListingsInv /\ [Next]_vars => ListingsInv'
<1> SUFFICES ASSUME ListingsInv, [Next]_vars PROVE ListingsInv'
  OBVIOUS
<1>1. CASE UNCHANGED vars
  <2>1. clock' = clock /\ task' = task /\ history' = history /\ tx' = tx /\ walk' = walk
    BY <1>1 DEF vars
  <2>2. Stored'
    <3>1. TasksOK' /\ HistoryOK(history') /\ VersionsFit'
      BY <2>1 DEF ListingsInv, Stored, TasksOK, Existing, VersionsFit, Version
    <3>2. WritersOK'
      BY <2>1 DEF ListingsInv, Stored, WritersOK
    <3> QED BY <2>1, <3>1, <3>2 DEF ListingsInv, Stored
  <2>3. history \subseteq history'
    BY <2>1
  <2> QED BY <2>1, <2>2, <2>3, StoreStep
<1>2. CASE Tick
  BY <1>2, TickStep
<1>3. ASSUME NEW w \in Writers, NEW s \in Slugs,
             CreateCampaign(w, s) \/ BeginTransition(w, s)
      PROVE  ListingsInv'
  BY <1>3, StampStep
<1>4. ASSUME NEW w \in Writers, CommitCreate(w) PROVE ListingsInv'
  BY <1>4, CommitCreateStep
<1>5. ASSUME NEW w \in Writers, CommitTransition(w) PROVE ListingsInv'
  BY <1>5, CommitTransitionStep
<1>6. ASSUME NEW w \in Writers, Rollback(w) PROVE ListingsInv'
  BY <1>6, RollbackStep
<1>7. ASSUME NEW c \in Clients, NEW size, NEW filter,
             \/ ListTasks(c, filter, size)
             \/ \E s \in Slugs : ListStateTransitions(c, s, filter, size)
      PROVE  ListingsInv'
  BY <1>7, ListStep
<1>8. ASSUME NEW c \in Clients, Count(c) \/ Select(c) \/ NextPage(c) \/ Leave(c)
      PROVE  ListingsInv'
  BY <1>8, CountStep, SelectStep, NextPageStep, LeaveStep
<1> QED BY <1>1, <1>2, <1>3, <1>4, <1>5, <1>6, <1>7, <1>8 DEF Next

-----------------------------------------------------------------------------
(* What follows.                                                           *)

\* Rows are told apart by their ids, every state a task was in has its row, and
\* what a walk has yet to show of what was there at its start lies at its next
\* offset or below (repository/postgres.go, ListTasks and ListStateTransitions).
THEOREM ListingsInvariant == Spec => []ListingsInv
<1> QED BY InitListings, NextListings, PTL DEF Spec

\* The rows, requests and pages keep the form the code gives them: a history
\* chain is never longer than its kind has states.
THEOREM ListingsTypes == Spec => []TypeOK
<1>1. ListingsInv => TypeOK
  <2> SUFFICES ASSUME ListingsInv PROVE TypeOK
    OBVIOUS
  <2>1. /\ TasksOK /\ HistoryOK(history) /\ VersionsFit /\ WritersOK /\ WalksOK
        /\ clock \in 0..MaxTime
    BY DEF ListingsInv, Stored
  <2>2. \A s \in Slugs : task[s] # None => task[s] \in TaskRecords
    BY <2>1 DEF TasksOK, Existing
  <2>3. history \subseteq Rows
    <3> SUFFICES ASSUME NEW h \in history PROVE h \in Rows
      OBVIOUS
    <3>1. h \in HistoryRow /\ h.slug \in Slugs /\ h.kind \in Kinds
      BY <2>1 DEF HistoryOK, HistoryRow
    <3>2. h.version \in 1..Version(h.slug, h.kind)
      BY <2>1 DEF HistoryOK, ChainOf, Version
    <3>3. Version(h.slug, h.kind) = StatesSoFar(task[h.slug], h.kind)
      BY <2>1, <3>1 DEF VersionsFit
    <3>4. StatesSoFar(task[h.slug], h.kind) \in 0..4
      BY DEF StatesSoFar
    <3>5. h.version \in 1..4
      BY <3>2, <3>3, <3>4
    <3> QED BY <3>1, <3>5 DEF HistoryRow, Rows
  <2>4. \A s \in Slugs : task[s] # None => /\ task[s].status \in WorkStates
                                           /\ task[s].created \in 0..MaxTime
                                           /\ task[s].id \in Nat \ {0}
    BY <2>2 DEF TaskRecords
  <2>5. \A w \in Writers : tx[w].op \in {"idle", "create", "move"} /\ tx[w].began \in 0..clock
    BY <2>1 DEF WritersOK
  <2>6. \A c \in Clients : /\ walk[c].stage \in {"idle", "count", "select", "shown"}
                           /\ walk[c].total \in Nat
                           /\ walk[c].rows \subseteq walk[c].seen
    BY <2>1 DEF WalksOK, WalkOK, WalkTyped
  <2> QED BY <2>1, <2>3, <2>4, <2>5, <2>6 DEF TypeOK
<1> QED BY <1>1, ListingsInvariant, PTL

\* Whoever pages a growing list to its first empty page has been shown every
\* row that matched when they began, whatever was inserted between the pages.
THEOREM WalkMissesNothingAlways == Spec => []WalkMissesNothing
<1>1. ListingsInv => WalkMissesNothing
  BY DEF ListingsInv, WalksOK, WalkOK, WalkFair, WalkMissesNothing
<1> QED BY <1>1, ListingsInvariant, PTL

\* A page of a growing list holds as many rows as the total shown with it
\* promises for its place, although the count was another statement.
THEOREM TotalsHonouredAlways == Spec => []TotalsHonoured
<1>1. ListingsInv => TotalsHonoured
  <2> SUFFICES ASSUME ListingsInv, NEW c \in Clients,
                      walk[c].stage = "shown", Grows(walk[c])
               PROVE  TotalHonoured(walk[c])
    BY DEF TotalsHonoured, TotalHonoured
  <2> QED BY DEF ListingsInv, WalksOK, WalkOK, WalkFair
<1> QED BY <1>1, ListingsInvariant, PTL

-----------------------------------------------------------------------------
(* While nobody writes, the pages of a list are a partition of it.         *)

LEMMA EveryRowOnAPage ==
  ASSUME NEW R, Listing(R), NEW size \in Nat \ {0}, NEW r \in R
  PROVE  \E page \in Nat \ {0} : r \in OnPage(R, page, size)
<1>1. PICK n \in Nat : n = Rank(R, r)
  <2>1. Rank(R, r) \in 0..Cardinality(R) - 1
    BY RankInBounds
  <2> QED BY <2>1
<1>2. PICK p \in Nat : p = n \div size
  OBVIOUS
<1>3. PICK first \in Nat : first = p * size
  OBVIOUS
<1>4. n \in first .. first + size - 1
  <2>1. (n \div size) * size <= n /\ n < (n \div size) * size + size
    OBVIOUS
  <2> QED BY <2>1, <1>2, <1>3
<1>5. (p + 1) * size = first + size
  BY <1>3
<1>6. n \in (p + 1 - 1) * size .. (p + 1) * size - 1
  <2>1. p + 1 - 1 = p
    OBVIOUS
  <2> QED BY <2>1, <1>3, <1>4, <1>5
<1>7. r \in OnPage(R, p + 1, size)
  BY <1>1, <1>6, OnPageRanks
<1> QED BY <1>7

LEMMA PagesApart ==
  ASSUME NEW R, Listing(R), NEW size \in Nat \ {0},
         NEW p \in Nat \ {0}, NEW q \in Nat \ {0}, p < q
  PROVE  KeysOf(OnPage(R, p, size)) \cap KeysOf(OnPage(R, q, size)) = {}
<1>1. PICK m \in Nat, n \in Nat : m = p * size /\ n = (q - 1) * size
  BY Offsets
<1>2. m <= n
  <2>1. p * size <= (q - 1) * size
    OBVIOUS
  <2> QED BY <2>1, <1>1
<1>3. \A r \in OnPage(R, p, size) : r \in R /\ Rank(R, r) <= m - 1
  BY <1>1, OnPageRanks
<1>4. \A r \in OnPage(R, q, size) : r \in R /\ n <= Rank(R, r)
  BY <1>1, OnPageRanks
<1>5. \A r \in R : Rank(R, r) \in 0..Cardinality(R) - 1
  BY RankInBounds
<1>6. \A r \in OnPage(R, p, size), s \in OnPage(R, q, size) : r # s
  BY <1>2, <1>3, <1>4, <1>5
<1>7. \A r, s \in R : r.key = s.key => r = s
  BY DEF Listing
<1> QED BY <1>3, <1>4, <1>6, <1>7 DEF KeysOf

\* Of what is stored at any moment, every row is on a page of its list and no
\* row is on two, for any filter and page size: ties in created_at are broken
\* by the id, so the offsets leave nothing out and repeat nothing.
PagesPartition ==
  \A l : \A size \in Nat \ {0} :
    /\ \A r \in Matching(l) : \E p \in Nat \ {0} : r \in OnPage(Matching(l), p, size)
    /\ \A p, q \in Nat \ {0} :
         p # q => KeysOf(OnPage(Matching(l), p, size))
                    \cap KeysOf(OnPage(Matching(l), q, size)) = {}

\* No row of a standing list is left out or shown twice, so a row that a walk
\* does repeat is one that was pushed down by a newcomer.
THEOREM PagesPartitionAlways == Spec => []PagesPartition
<1>1. ListingsInv => PagesPartition
  <2> SUFFICES ASSUME ListingsInv, NEW l, NEW size \in Nat \ {0}
               PROVE  /\ \A r \in Matching(l) :
                           \E p \in Nat \ {0} : r \in OnPage(Matching(l), p, size)
                      /\ \A p, q \in Nat \ {0} :
                           p # q => KeysOf(OnPage(Matching(l), p, size))
                                      \cap KeysOf(OnPage(Matching(l), q, size)) = {}
    BY DEF PagesPartition
  <2>1. PICK R : R = Matching(l)
    OBVIOUS
  <2>2. Listing(R)
    BY <2>1, ListingNow DEF ListingsInv
  <2>3. \A r \in R : \E p \in Nat \ {0} : r \in OnPage(R, p, size)
    BY <2>2, EveryRowOnAPage
  <2>4. ASSUME NEW p \in Nat \ {0}, NEW q \in Nat \ {0}, p # q
        PROVE  KeysOf(OnPage(R, p, size)) \cap KeysOf(OnPage(R, q, size)) = {}
    <3>1. CASE p < q
      BY <3>1, <2>2, PagesApart
    <3>2. CASE q < p
      BY <3>2, <2>2, PagesApart
    <3> QED BY <2>4, <3>1, <3>2
  <2> QED BY <2>1, <2>3, <2>4
<1> QED BY <1>1, ListingsInvariant, PTL
=============================================================================
