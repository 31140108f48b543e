-------------------------- MODULE PagingQueueProofs --------------------------
(***************************************************************************)
(* FIFO and LRU evict the pages in the order they promise, for every set   *)
(* of pages, every memory, every swap file and every trace: Paging         *)
(* implements EvictionQueue.                                               *)
(*                                                                         *)
(* The queue of the pages in memory is never looked for: every step that   *)
(* changes it says what the next one is.  So the invariant is that there   *)
(* is a sequence of the pages in memory in the order of their timestamps,  *)
(* and a lemma says that there is one only.                                *)
(***************************************************************************)
EXTENDS PagingProofs, SequenceTheorems

(* q has the pages in memory in the order of their timestamps.             *)
Ordered(q) ==
  /\ q \in Seq(Page)
  /\ \A p \in Page : pte[p].valid <=> \E i \in 1..Len(q) : q[i] = p
  /\ \A i, j \in 1..Len(q) : i < j => Stamp(q[i]) < Stamp(q[j])

(* FIFO stamps a frame once, when its page is used for the first time.     *)
Arrivals ==
  alg = "fifo" =>
    /\ \A p \in Page : pte[p].valid => ~coremap[pte[p].frame].new_swapin
    /\ pc = "ref" /\ ~pte[vpage].valid => coremap[frame].new_swapin

Looking == alg \in {"fifo", "lru"}

OnlyOrder == \A q : Ordered(q) => ByTimestamp = q

QueueInv == Bookkeeping /\ Arrivals /\ Looking /\ \E q : Ordered(q)

-----------------------------------------------------------------------------
(* Sequences in the order of timestamps.                                   *)

(* Timestamps are numbers. *)
LEMMA StampType == TypeOK => \A p \in Page : Stamp(p) \in Nat /\ pte[p].frame \in Frame
BY DEF TypeOK, Pte, FrameEntry, Stamp

(* A page is in it once. *)
LEMMA OrderedOnce ==
    ASSUME TypeOK, NEW q, Ordered(q), NEW i \in 1..Len(q), NEW j \in 1..Len(q), q[i] = q[j]
    PROVE  i = j
<1>1. q[i] \in Page /\ Stamp(q[i]) \in Nat /\ i \in Nat /\ j \in Nat
  <2>1. q \in Seq(Page) BY DEF Ordered
  <2>2. q[i] \in Page /\ Len(q) \in Nat BY <2>1
  <2> QED BY <2>2, StampType
<1>2. ~(i < j) BY <1>1 DEF Ordered
<1>3. ~(j < i) BY <1>1 DEF Ordered
<1> QED BY <1>1, <1>2, <1>3

(* The first index at which two such sequences differ cannot be. *)
LEMMA OrderedPrefix ==
    ASSUME TypeOK, NEW q, Ordered(q), NEW r, Ordered(r), NEW k \in 1..Len(q), k \in 1..Len(r),
           \A m \in 1..Len(q) : m < k => q[m] = r[m]
    PROVE  ~(Stamp(r[k]) < Stamp(q[k]))
<1> SUFFICES ASSUME Stamp(r[k]) < Stamp(q[k]) PROVE FALSE OBVIOUS
<1>0. q \in Seq(Page) /\ r \in Seq(Page) /\ Len(q) \in Nat /\ Len(r) \in Nat BY DEF Ordered
<1>1. r[k] \in Page /\ q[k] \in Page BY <1>0
<1>2. PICK j \in 1..Len(q) : q[j] = r[k] BY <1>1 DEF Ordered
<1>3. Stamp(r[k]) \in Nat /\ Stamp(q[k]) \in Nat BY <1>1, StampType
<1>4. CASE j < k
  <2>1. q[j] = r[j] /\ j \in 1..Len(r) BY <1>0, <1>4
  <2>2. r[j] = r[k] BY <1>2, <2>1
  <2>3. j = k BY <2>1, <2>2, OrderedOnce
  <2> QED BY <1>0, <1>4, <2>3
<1>5. CASE j = k BY <1>2, <1>3, <1>5
<1>6. CASE k < j
  <2>1. Stamp(q[k]) < Stamp(q[j]) BY <1>6 DEF Ordered
  <2> QED BY <1>2, <1>3, <2>1
<1> QED BY <1>0, <1>4, <1>5, <1>6

(* The pages are in the order by one sequence only. *)
LEMMA OrderedAgree ==
    ASSUME TypeOK, NEW q, Ordered(q), NEW r, Ordered(r), NEW k \in 1..Len(q)
    PROVE  k \in 1..Len(r) /\ q[k] = r[k]
<1>0. q \in Seq(Page) /\ r \in Seq(Page) /\ Len(q) \in Nat /\ Len(r) \in Nat BY DEF Ordered
<1> DEFINE Bad == {m \in 1..Len(q) : ~(m \in 1..Len(r) /\ q[m] = r[m])}
<1> SUFFICES ASSUME Bad # {} PROVE FALSE OBVIOUS
<1>1. Bad \subseteq Nat BY <1>0
<1> DEFINE m == Min(Bad)
<1>2. m \in Bad /\ \A y \in Bad : m <= y
  <2> HIDE DEF Bad
  <2> QED BY <1>1, MinNat
<1> HIDE DEF m
<1>3. m \in 1..Len(q) /\ m \in Nat /\ ~(m \in 1..Len(r) /\ q[m] = r[m]) BY <1>0, <1>2
<1>4. ASSUME NEW n \in 1..Len(q), n < m PROVE n \in 1..Len(r) /\ q[n] = r[n]
  <2>1. n \notin Bad BY <1>0, <1>2, <1>3, <1>4
  <2> QED BY <2>1
<1> HIDE DEF Bad
<1>5. CASE m \in 1..Len(r)
  <2>1. q[m] \in Page /\ r[m] \in Page BY <1>0, <1>3, <1>5
  <2>2. q[m] # r[m] BY <1>3, <1>5
  <2>3. Stamp(q[m]) \in Nat /\ Stamp(r[m]) \in Nat BY <2>1, StampType
  <2>4. ~(Stamp(r[m]) < Stamp(q[m])) BY <1>3, <1>4, <1>5, OrderedPrefix
  <2>5. \A n \in 1..Len(r) : n < m => r[n] = q[n] BY <1>0, <1>3, <1>4
  <2>6. ~(Stamp(q[m]) < Stamp(r[m])) BY <1>3, <1>5, <2>5, OrderedPrefix
  <2>7. Stamp(q[m]) = Stamp(r[m]) BY <2>3, <2>4, <2>6
  <2>8. PICK j \in 1..Len(r) : r[j] = q[m] BY <1>3, <2>1 DEF Ordered
  <2>9. ~(j < m) /\ ~(m < j)
    <3>1. j < m => Stamp(r[j]) < Stamp(r[m]) BY <1>5, <2>8 DEF Ordered
    <3>2. m < j => Stamp(r[m]) < Stamp(r[j]) BY <1>5, <2>8 DEF Ordered
    <3> QED BY <2>3, <2>7, <2>8, <3>1, <3>2
  <2>10. j = m BY <1>0, <1>3, <2>8, <2>9
  <2> QED BY <2>2, <2>8, <2>10
<1>6. CASE m \notin 1..Len(r)
  <2>1. q[m] \in Page BY <1>0, <1>3
  <2>2. PICK j \in 1..Len(r) : r[j] = q[m] BY <1>3, <2>1 DEF Ordered
  <2>3. j < m BY <1>0, <1>3, <1>6, <2>2
  <2>4. j \in 1..Len(q) /\ q[j] = r[j] BY <1>0, <1>3, <1>4, <2>2, <2>3
  <2>5. j = m BY <1>3, <2>2, <2>4, OrderedOnce
  <2> QED BY <1>0, <1>3, <2>3, <2>5
<1> QED BY <1>5, <1>6

(* There is one such sequence at most. *)
LEMMA OrderedUnique ==
    ASSUME TypeOK, NEW q, Ordered(q), NEW r, Ordered(r)
    PROVE  q = r
<1>1. q \in Seq(Page) /\ r \in Seq(Page) /\ Len(q) \in Nat /\ Len(r) \in Nat BY DEF Ordered
<1>2. \A k \in 1..Len(q) : k \in 1..Len(r) /\ q[k] = r[k] BY OrderedAgree
<1>3. \A k \in 1..Len(r) : k \in 1..Len(q) BY OrderedAgree
<1>4. Len(q) = Len(r)
  <2>1. Len(q) <= Len(r) BY <1>1, <1>2
  <2>2. Len(r) <= Len(q) BY <1>1, <1>3
  <2> QED BY <1>1, <2>1, <2>2
<1> QED BY <1>1, <1>2, <1>4, SeqEqual

-----------------------------------------------------------------------------
(* ByTimestamp is that sequence.                                           *)

(* A sequence without repetitions is as long as its set is large. *)
LEMMA Listed ==
    \A R, q :
      /\ q \in Seq(R)
      /\ \A i, j \in 1..Len(q) : q[i] = q[j] => i = j
      /\ \A p \in R : \E i \in 1..Len(q) : q[i] = p
      => Cardinality(R) = Len(q) /\ IsFiniteSet(R)
<1> SUFFICES ASSUME NEW R, NEW q, q \in Seq(R),
                    \A i, j \in 1..Len(q) : q[i] = q[j] => i = j,
                    \A p \in R : \E i \in 1..Len(q) : q[i] = p
             PROVE  Cardinality(R) = Len(q) /\ IsFiniteSet(R)
  OBVIOUS
<1>1. Len(q) \in Nat /\ q \in [1..Len(q) -> R] BY LenProperties
<1> DEFINE n == Len(q)
<1>2. q \in Bijection(1..n, R) BY <1>1 DEF Bijection, Injection, Surjection, IsInjective
<1>3. ExistsBijection(1..n, R) BY <1>2 DEF ExistsBijection
<1> HIDE DEF n
<1>4. n \in Nat BY <1>1 DEF n
<1>5. IsFiniteSet(1..n) /\ Cardinality(1..n) = n BY <1>4, FS_Interval
<1>6. Cardinality(R) = Cardinality(1..n) /\ IsFiniteSet(R) BY <1>3, <1>5, FS_Bijection
<1> QED BY <1>5, <1>6 DEF n

(* A sequence without repetitions that is as long has all elements of it. *)
LEMMA AllListed ==
    \A R : IsFiniteSet(R) => \A q \in SetToSeqs(R) :
      /\ q \in Seq(R) /\ Len(q) = Cardinality(R)
      /\ \A p \in R : \E i \in 1..Len(q) : q[i] = p
<1> SUFFICES ASSUME NEW R, IsFiniteSet(R), NEW q \in SetToSeqs(R)
             PROVE  /\ q \in Seq(R) /\ Len(q) = Cardinality(R)
                    /\ \A p \in R : \E i \in 1..Len(q) : q[i] = p
  OBVIOUS
<1> DEFINE n == Cardinality(R)
<1>1. n \in Nat BY FS_CardinalityType
<1>2. q \in [1..n -> R] /\ \A i, j \in 1..n : i # j => q[i] # q[j] BY DEF SetToSeqs
<1> HIDE DEF n
<1>3. q \in Seq(R) /\ Len(q) = n BY <1>1, <1>2
<1>4. q \in Injection(1..n, R) BY <1>2 DEF Injection, IsInjective
<1>5. Cardinality(1..n) = n BY <1>1, FS_Interval
<1>6. q \in Surjection(1..n, R) BY <1>4, <1>5, FS_Injection DEF n
<1>7. \A p \in R : \E i \in 1..n : q[i] = p BY <1>6 DEF Surjection
<1> QED BY <1>3, <1>7 DEF n

(* If the pages in memory can be put in the order, ByTimestamp does so. *)
LEMMA OrderedIsByTimestamp == TypeOK => OnlyOrder
<1> SUFFICES ASSUME TypeOK, NEW q, Ordered(q) PROVE ByTimestamp = q
  BY DEF OnlyOrder
<1>1. q \in Seq(Page) /\ Len(q) \in Nat BY DEF Ordered
<1>2. \A i \in 1..Len(q) : q[i] \in Resident BY <1>1 DEF Ordered, Resident
<1>3. q \in Seq(Resident) BY <1>1, <1>2
<1>4. \A i, j \in 1..Len(q) : q[i] = q[j] => i = j BY OrderedOnce
<1>5. \A p \in Resident : \E i \in 1..Len(q) : q[i] = p BY DEF Ordered, Resident
<1>6. Cardinality(Resident) = Len(q) /\ IsFiniteSet(Resident) BY <1>3, <1>4, <1>5, Listed
<1>7. DOMAIN q = 1..Len(q) /\ q \in [1..Len(q) -> Resident] BY <1>3
<1> DEFINE Lists(s) == \A i, j \in DOMAIN s : i < j => Stamp(s[i]) < Stamp(s[j])
<1>8. q \in SetToSeqs(Resident) BY <1>4, <1>6, <1>7 DEF SetToSeqs
<1>9. Lists(q) BY <1>7 DEF Ordered
<1> DEFINE c == ByTimestamp
<1>10. c \in SetToSeqs(Resident) /\ Lists(c)
  <2> HIDE DEF Lists
  <2>1. c = CHOOSE s \in SetToSeqs(Resident) : Lists(s) BY DEF ByTimestamp, Lists
  <2> QED BY <1>8, <1>9, <2>1
<1> HIDE DEF c
<1>11. /\ c \in Seq(Resident)
       /\ \A p \in Resident : \E i \in 1..Len(c) : c[i] = p
  BY <1>6, <1>10, AllListed
<1>12. Resident \subseteq Page BY DEF Resident
<1>13. c \in Seq(Page) /\ DOMAIN c = 1..Len(c) /\ \A i \in 1..Len(c) : c[i] \in Resident
  BY <1>11, <1>12
<1>14. Ordered(c)
  <2>1. \A p \in Page : pte[p].valid <=> \E i \in 1..Len(c) : c[i] = p
    BY <1>11, <1>13 DEF Resident
  <2>2. \A i, j \in 1..Len(c) : i < j => Stamp(c[i]) < Stamp(c[j]) BY <1>10, <1>13
  <2> QED BY <1>13, <2>1, <2>2 DEF Ordered
<1>15. q = c BY <1>14, OrderedUnique
<1> QED BY <1>15 DEF c

-----------------------------------------------------------------------------
(* The length of the queue.                                                *)

(* When a victim is wanted, the queue has a page for every frame. *)
LEMMA FullQueue ==
    ASSUME Bookkeeping, pc = "evict", NEW q, Ordered(q)
    PROVE  Len(q) = MEMSIZE
<1>1. q \in Seq(Page) /\ Len(q) \in Nat BY DEF Ordered
<1> DEFINE h == [i \in 1..Len(q) |-> pte[q[i]].frame]
<1>2. \A i \in 1..Len(q) : q[i] \in Page /\ pte[q[i]].valid BY <1>1 DEF Ordered
<1>3. \A i \in 1..Len(q) : h[i] \in Frame /\ coremap[h[i]].pte = q[i]
  BY <1>2 DEF Bookkeeping, TypeOK, Pte, MappingsAgree
<1>4. \A i, j \in 1..Len(q) : h[i] = h[j] => i = j
  <2>1. ASSUME NEW i \in 1..Len(q), NEW j \in 1..Len(q), h[i] = h[j] PROVE i = j
    <3> HIDE DEF h
    <3>1. q[i] = q[j] BY <1>3, <2>1
    <3> QED BY <3>1, OrderedOnce DEF Bookkeeping
  <2> QED BY <2>1
<1>5. ASSUME NEW f \in Frame PROVE \E i \in 1..Len(q) : h[i] = f
  <2>1. coremap[f].pte \in Page /\ pte[coremap[f].pte].valid /\ pte[coremap[f].pte].frame = f
    BY VictimOwnsFrame
  <2>2. PICK i \in 1..Len(q) : q[i] = coremap[f].pte BY <2>1 DEF Ordered
  <2> QED BY <2>1, <2>2
<1>6. h \in Seq(Frame) /\ Len(h) = Len(q)
  <2>1. h \in [1..Len(q) -> Frame] BY <1>3
  <2> HIDE DEF h
  <2> QED BY <1>1, <2>1
<1> HIDE DEF h
<1>7. Cardinality(Frame) = Len(h) BY <1>4, <1>5, <1>6, Listed
<1>8. Cardinality(Frame) = MEMSIZE BY MemsizeAssumption, FS_Interval DEF Frame
<1> QED BY <1>6, <1>7, <1>8

(* When a page that was not in memory is used, the queue has room for it. *)
LEMMA QueueHasRoom ==
    ASSUME Bookkeeping, pc = "ref", ~pte[vpage].valid, NEW q, Ordered(q)
    PROVE  Len(q) < MEMSIZE
<1>1. q \in Seq(Page) /\ Len(q) \in Nat BY DEF Ordered
<1> DEFINE h == [i \in 1..Len(q) |-> pte[q[i]].frame]
           Others == Frame \ {frame}
<1>2. \A i \in 1..Len(q) : q[i] \in Page /\ pte[q[i]].valid BY <1>1 DEF Ordered
<1>3. \A i \in 1..Len(q) : h[i] \in Frame /\ coremap[h[i]].pte = q[i]
  BY <1>2 DEF Bookkeeping, TypeOK, Pte, MappingsAgree
<1>4. \A i, j \in 1..Len(q) : h[i] = h[j] => i = j
  <2>1. ASSUME NEW i \in 1..Len(q), NEW j \in 1..Len(q), h[i] = h[j] PROVE i = j
    <3> HIDE DEF h
    <3>1. q[i] = q[j] BY <1>3, <2>1
    <3> QED BY <3>1, OrderedOnce DEF Bookkeeping
  <2> QED BY <2>1
<1>5. coremap[frame].pte = vpage BY DEF Bookkeeping, MappingsAgree
<1>6. \A i \in 1..Len(q) : h[i] # frame BY <1>2, <1>3, <1>5
<1>7. h \in [1..Len(q) -> Others] BY <1>3, <1>6
<1> HIDE DEF h
<1>8. h \in Injection(1..Len(q), Others) BY <1>4, <1>7 DEF Injection, IsInjective
<1>9. IsFiniteSet(Frame) /\ Cardinality(Frame) = MEMSIZE
  BY MemsizeAssumption, FS_Interval DEF Frame
<1>10. frame \in Frame BY DEF Bookkeeping, TypeOK
<1>11. IsFiniteSet(Others) /\ Cardinality(Others) = MEMSIZE - 1
  BY <1>9, <1>10, FS_RemoveElement
<1> HIDE DEF Others
<1>12. Cardinality(1..Len(q)) <= MEMSIZE - 1 BY <1>8, <1>11, FS_Injection
<1>13. Cardinality(1..Len(q)) = Len(q)
  <2> DEFINE n == Len(q)
  <2> HIDE DEF n
  <2>1. n \in Nat BY <1>1 DEF n
  <2>2. Cardinality(1..n) = n BY <2>1, FS_Interval
  <2> QED BY <2>2 DEF n
<1> QED BY <1>1, <1>12, <1>13, MemsizeAssumption

-----------------------------------------------------------------------------
(* What the steps do to the order.                                         *)

(* Nothing, if no page comes, goes or is stamped. *)
LEMMA SameOrder ==
    ASSUME NEW q, Ordered(q),
           \A p \in Page : pte'[p].valid = pte[p].valid,
           \A p \in Page : pte[p].valid => Stamp(p)' = Stamp(p)
    PROVE  Ordered(q)'
<1>1. q \in Seq(Page) /\ \A i \in 1..Len(q) : q[i] \in Page BY DEF Ordered
<1>2. \A p \in Page : pte'[p].valid <=> \E i \in 1..Len(q) : q[i] = p BY DEF Ordered
<1>3. \A i \in 1..Len(q) : Stamp(q[i])' = Stamp(q[i])
  <2>1. \A i \in 1..Len(q) : pte[q[i]].valid BY <1>1 DEF Ordered
  <2> QED BY <1>1, <2>1
<1>4. \A i, j \in 1..Len(q) : i < j => Stamp(q[i])' < Stamp(q[j])' BY <1>3 DEF Ordered
<1> QED BY <1>1, <1>2, <1>4 DEF Ordered

(* The oldest frame holds the first page of the queue. *)
LEMMA OldestFirst ==
    ASSUME Bookkeeping, pc = "evict", NEW q, Ordered(q), NEW f \in Oldest
    PROVE  q # <<>> /\ coremap[f].pte = q[1]
<1>0. q \in Seq(Page) /\ Len(q) \in Nat BY DEF Ordered
<1> DEFINE v == coremap[f].pte
<1>1. f \in Frame /\ v \in Page /\ pte[v].valid /\ pte[v].frame = f
  BY VictimOwnsFrame DEF Oldest
<1>2. PICK i \in 1..Len(q) : q[i] = v BY <1>1 DEF Ordered
<1>3. 1 \in 1..Len(q) /\ q[1] \in Page /\ pte[q[1]].valid BY <1>0, <1>2 DEF Ordered
<1>4. pte[q[1]].frame \in Frame /\ Stamp(q[1]) \in Nat /\ Stamp(v) \in Nat
  BY <1>1, <1>3, StampType DEF Bookkeeping
<1>5. Stamp(v) <= Stamp(q[1]) BY <1>1, <1>4 DEF Oldest, Stamp
<1>6. 1 < i => Stamp(q[1]) < Stamp(v) BY <1>2, <1>3 DEF Ordered
<1>7. i = 1 BY <1>0, <1>2, <1>4, <1>5, <1>6
<1> QED BY <1>0, <1>2, <1>3, <1>7

(* The first page leaves: the rest of the queue is the queue. *)
LEMMA FirstLeaves ==
    ASSUME TypeOK, NEW q, Ordered(q), q # <<>>,
           ~pte'[q[1]].valid, UNCHANGED coremap,
           \A p \in Page : p # q[1] => pte'[p] = pte[p]
    PROVE  Ordered(Tail(q))'
<1> DEFINE r == Tail(q)
<1>0. q \in Seq(Page) /\ Len(q) \in Nat /\ Len(q) > 0 BY DEF Ordered
<1>1. /\ r \in Seq(Page) /\ Len(r) = Len(q) - 1
      /\ \A i \in 1..Len(r) : r[i] = q[i + 1]
  BY <1>0, HeadTailProperties
<1> HIDE DEF r
<1>2. \A i \in 1..Len(q) : q[i] \in Page /\ pte[q[i]].valid BY <1>0 DEF Ordered
<1>3. \A i \in 1..Len(q) : i # 1 => q[i] # q[1]
  <2>1. ASSUME NEW i \in 1..Len(q), q[i] = q[1] PROVE i = 1
    <3>1. 1 \in 1..Len(q) BY <1>0
    <3> QED BY <2>1, <3>1, OrderedOnce
  <2> QED BY <2>1
<1>4. \A i \in 1..Len(r) : i + 1 \in 1..Len(q) /\ i + 1 # 1 BY <1>0, <1>1
<1>5. \A i \in 1..Len(r) : r[i] \in Page /\ r[i] # q[1] /\ pte[r[i]].valid BY <1>1, <1>2, <1>3, <1>4
<1>6. \A p \in Page : pte'[p].valid <=> \E i \in 1..Len(r) : r[i] = p
  <2>1. ASSUME NEW p \in Page, pte'[p].valid PROVE \E i \in 1..Len(r) : r[i] = p
    <3>1. p # q[1] /\ pte[p].valid BY <2>1
    <3>2. PICK j \in 1..Len(q) : q[j] = p BY <3>1 DEF Ordered
    <3>3. j - 1 \in 1..Len(r) /\ (j - 1) + 1 = j BY <1>0, <1>1, <3>1, <3>2
    <3> QED BY <1>1, <3>2, <3>3
  <2>2. ASSUME NEW i \in 1..Len(r) PROVE pte'[r[i]].valid BY <1>5
  <2> QED BY <2>1, <2>2
<1>7. \A i \in 1..Len(r) : Stamp(r[i])' = Stamp(r[i]) BY <1>5 DEF Stamp
<1>8. \A i, j \in 1..Len(r) : i < j => Stamp(r[i]) < Stamp(r[j])
  <2>1. ASSUME NEW i \in 1..Len(r), NEW j \in 1..Len(r), i < j
        PROVE  Stamp(r[i]) < Stamp(r[j])
    <3>1. i + 1 < j + 1 BY <1>0, <1>1, <2>1
    <3>2. Stamp(q[i + 1]) < Stamp(q[j + 1]) BY <1>4, <3>1 DEF Ordered
    <3> QED BY <1>1, <3>2
  <2> QED BY <2>1
<1>9. Ordered(r)' BY <1>1, <1>6, <1>7, <1>8 DEF Ordered
<1> QED BY <1>9 DEF r

(* A page that is stamped last is the last of the queue. *)
LEMMA LastComes ==
    ASSUME TypeOK, NEW q, q \in Seq(Page), NEW v \in Page,
           \A p \in Page : (pte[p].valid /\ p # v) <=> \E i \in 1..Len(q) : q[i] = p,
           \A i, j \in 1..Len(q) : i < j => Stamp(q[i]) < Stamp(q[j]),
           \A p \in Page : p # v => pte'[p] = pte[p],
           \A p \in Page : pte[p].valid /\ p # v => Stamp(p)' = Stamp(p) /\ Stamp(p) < time,
           pte'[v].valid, Stamp(v)' = time
    PROVE  Ordered(Append(q, v))'
<1> DEFINE r == Append(q, v)
<1>0. Len(q) \in Nat /\ \A i \in 1..Len(q) : q[i] \in Page OBVIOUS
<1>1. /\ r \in Seq(Page) /\ Len(r) = Len(q) + 1
      /\ \A i \in 1..Len(q) : r[i] = q[i]
      /\ r[Len(q) + 1] = v
  BY AppendProperties
<1> HIDE DEF r
<1>2. \A i \in 1..Len(q) : pte[q[i]].valid /\ q[i] # v BY <1>0
<1>3. \A i \in 1..Len(q) : Stamp(q[i])' = Stamp(q[i]) /\ Stamp(q[i]) < time BY <1>0, <1>2
<1>4. \A i \in 1..Len(r) : i \in 1..Len(q) \/ i = Len(q) + 1 BY <1>0, <1>1
<1>5. \A p \in Page : pte'[p].valid <=> \E i \in 1..Len(r) : r[i] = p
  <2>1. ASSUME NEW p \in Page, pte'[p].valid PROVE \E i \in 1..Len(r) : r[i] = p
    <3>1. CASE p = v
      <4>1. Len(q) + 1 \in 1..Len(r) BY <1>0, <1>1
      <4> QED BY <1>1, <3>1, <4>1
    <3>2. CASE p # v
      <4>1. pte[p].valid BY <2>1, <3>2
      <4>2. PICK j \in 1..Len(q) : q[j] = p BY <3>2, <4>1
      <4>3. j \in 1..Len(r) BY <1>0, <1>1
      <4> QED BY <1>1, <4>2, <4>3
    <3> QED BY <3>1, <3>2
  <2>2. ASSUME NEW i \in 1..Len(r) PROVE pte'[r[i]].valid
    <3>1. CASE i \in 1..Len(q)
      <4>1. r[i] = q[i] BY <1>1, <3>1
      <4>2. pte'[q[i]] = pte[q[i]] BY <1>0, <1>2, <3>1
      <4> QED BY <1>2, <3>1, <4>1, <4>2
    <3>2. CASE i = Len(q) + 1 BY <1>1, <3>2
    <3> QED BY <1>4, <3>1, <3>2
  <2> QED BY <2>1, <2>2
<1>6. \A i, j \in 1..Len(r) : i < j => Stamp(r[i])' < Stamp(r[j])'
  <2>1. ASSUME NEW i \in 1..Len(r), NEW j \in 1..Len(r), i < j
        PROVE  Stamp(r[i])' < Stamp(r[j])'
    <3>1. i \in 1..Len(q) BY <1>0, <1>1, <2>1
    <3>2. r[i] = q[i] /\ Stamp(q[i])' = Stamp(q[i]) /\ Stamp(q[i]) < time BY <1>1, <1>3, <3>1
    <3>3. CASE j \in 1..Len(q)
      <4>1. r[j] = q[j] /\ Stamp(q[j])' = Stamp(q[j]) BY <1>1, <1>3, <3>3
      <4> QED BY <2>1, <3>1, <3>2, <3>3, <4>1
    <3>4. CASE j = Len(q) + 1
      <4>1. r[j] = v BY <1>1, <3>4
      <4> QED BY <3>2, <4>1
    <3> QED BY <1>4, <3>3, <3>4
  <2> QED BY <2>1
<1>7. Ordered(r)' BY <1>1, <1>5, <1>6 DEF Ordered
<1> QED BY <1>7 DEF r

(* The queue without the page at i: the others, in the same order. *)
LEMMA WithoutOne ==
    ASSUME TypeOK, NEW q, Ordered(q), NEW i \in 1..Len(q), NEW r, r = RemoveAt(q, i)
    PROVE  /\ r \in Seq(Page)
           /\ \A p \in Page : (pte[p].valid /\ p # q[i]) <=> \E k \in 1..Len(r) : r[k] = p
           /\ \A j, k \in 1..Len(r) : j < k => Stamp(r[j]) < Stamp(r[k])
<1>0. q \in Seq(Page) /\ Len(q) \in Nat /\ \A k \in 1..Len(q) : q[k] \in Page BY DEF Ordered
<1> DEFINE a == SubSeq(q, 1, i - 1)
           b == SubSeq(q, i + 1, Len(q))
<1>1. /\ a \in Seq(Page) /\ Len(a) = i - 1
      /\ \A k \in 1..i - 1 : a[k] = q[k]
  <2>1. \A k \in 1..i - 1 : q[k] \in Page BY <1>0
  <2>2. i - 1 \in Int /\ 1 \in Int BY <1>0
  <2>3. /\ a \in Seq(Page) /\ Len(a) = (IF 1 <= i - 1 THEN i - 1 - 1 + 1 ELSE 0)
        /\ \A k \in 1..i - 1 - 1 + 1 : a[k] = q[1 + k - 1]
    BY <2>1, <2>2, SubSeqProperties
  <2> HIDE DEF a
  <2> QED BY <1>0, <2>3
<1>2. /\ b \in Seq(Page) /\ Len(b) = Len(q) - i
      /\ \A k \in 1..Len(q) - i : b[k] = q[i + k]
  <2>1. \A k \in i + 1..Len(q) : q[k] \in Page BY <1>0
  <2>2. i + 1 \in Int /\ Len(q) \in Int BY <1>0
  <2>3. /\ b \in Seq(Page) /\ Len(b) = (IF i + 1 <= Len(q) THEN Len(q) - (i + 1) + 1 ELSE 0)
        /\ \A k \in 1..Len(q) - (i + 1) + 1 : b[k] = q[(i + 1) + k - 1]
    BY <2>1, <2>2, SubSeqProperties
  <2> HIDE DEF b
  <2> QED BY <1>0, <2>3
<1>3. r = a \o b BY DEF RemoveAt
<1> HIDE DEF a, b
<1>4. /\ r \in Seq(Page) /\ Len(r) = Len(q) - 1
      /\ \A k \in 1..Len(q) - 1 : r[k] = IF k < i THEN q[k] ELSE q[k + 1]
  <2>1. /\ r \in Seq(Page) /\ Len(r) = Len(a) + Len(b)
        /\ \A k \in 1..Len(a) + Len(b) : r[k] = IF k <= Len(a) THEN a[k] ELSE b[k - Len(a)]
    <3>1. a \in Seq(Page) /\ b \in Seq(Page) BY <1>1, <1>2
    <3>2. /\ a \o b \in Seq(Page) /\ Len(a \o b) = Len(a) + Len(b)
          /\ \A k \in 1..Len(a) + Len(b) : (a \o b)[k] = IF k <= Len(a) THEN a[k] ELSE b[k - Len(a)]
      BY ONLY <3>1, ConcatProperties
    <3> QED BY <1>3, <3>2
  <2>2. ASSUME NEW k \in 1..Len(q) - 1 PROVE r[k] = IF k < i THEN q[k] ELSE q[k + 1]
    <3>1. k \in 1..Len(a) + Len(b) BY <1>0, <1>1, <1>2, <2>2
    <3>2. CASE k < i
      <4>1. k \in 1..i - 1 /\ k <= Len(a) BY <1>0, <1>1, <3>2
      <4>2. a[k] = q[k] BY <1>1, <4>1
      <4> QED BY <2>1, <3>1, <3>2, <4>1, <4>2
    <3>3. CASE ~(k < i)
      <4>1. k - Len(a) \in 1..Len(q) - i /\ i + (k - Len(a)) = k + 1 BY <1>0, <1>1, <3>3
      <4>2. b[k - Len(a)] = q[k + 1] BY <1>2, <4>1
      <4>3. ~(k <= Len(a)) BY <1>0, <1>1, <3>3
      <4> QED BY <2>1, <3>1, <3>3, <4>2, <4>3
    <3> QED BY <3>2, <3>3
  <2>3. Len(a) + Len(b) = Len(q) - 1 BY <1>0, <1>1, <1>2
  <2> QED BY <2>1, <2>2, <2>3
<1> DEFINE At(k) == IF k < i THEN k ELSE k + 1
<1>5. \A k \in 1..Len(r) : At(k) \in 1..Len(q) /\ At(k) # i /\ r[k] = q[At(k)] BY <1>0, <1>4
<1>6. \A j, k \in 1..Len(r) : j < k => At(j) < At(k) BY <1>0, <1>4
<1>7. ASSUME NEW p \in Page, pte[p].valid, p # q[i] PROVE \E k \in 1..Len(r) : r[k] = p
  <2>1. PICK j \in 1..Len(q) : q[j] = p BY <1>7 DEF Ordered
  <2>2. j # i BY <1>7, <2>1
  <2> DEFINE k == IF j < i THEN j ELSE j - 1
  <2>3. k \in 1..Len(r) /\ At(k) = j BY <1>0, <1>4, <2>2
  <2> HIDE DEF k, At
  <2> QED BY <1>5, <2>1, <2>3
<1> HIDE DEF At
<1>8. ASSUME NEW k \in 1..Len(r) PROVE pte[r[k]].valid /\ r[k] # q[i]
  <2>1. At(k) \in 1..Len(q) /\ At(k) # i /\ r[k] = q[At(k)] BY <1>5
  <2>2. q[At(k)] \in Page BY <1>0, <2>1
  <2>3. pte[q[At(k)]].valid BY <2>1, <2>2 DEF Ordered
  <2>4. q[At(k)] # q[i] BY <2>1, OrderedOnce
  <2> QED BY <2>1, <2>3, <2>4
<1>9. \A j, k \in 1..Len(r) : j < k => Stamp(r[j]) < Stamp(r[k])
  <2>1. ASSUME NEW j \in 1..Len(r), NEW k \in 1..Len(r), j < k
        PROVE  Stamp(r[j]) < Stamp(r[k])
    <3>1. At(j) < At(k) BY <1>6, <2>1
    <3>2. Stamp(q[At(j)]) < Stamp(q[At(k)]) BY <1>5, <3>1 DEF Ordered
    <3> QED BY <1>5, <3>2
  <2> QED BY <2>1
<1> QED BY <1>4, <1>7, <1>8, <1>9

-----------------------------------------------------------------------------
(* Steps.                                                                  *)

(* There is one order after a step, too. *)
LEMMA OnlyOrderNext == TypeOK' => OnlyOrder'
BY OrderedIsByTimestamp, PTL

(* What the abstract queue is, before a step and after it. *)
LEMMA BothQueues ==
    ASSUME TypeOK, TypeOK', NEW q, Ordered(q), NEW r, Ordered(r)'
    PROVE  ByTimestamp = q /\ ByTimestamp' = r
BY OrderedIsByTimestamp, OnlyOrderNext DEF OnlyOrder

(* The pages of the abstract queue are those in memory. *)
LEMMA ResidentPages ==
    ASSUME TypeOK, NEW q, Ordered(q), ByTimestamp = q
    PROVE  \A p \in Page : p \in Queue!Resident <=> pte[p].valid
<1>1. q \in Seq(Page) /\ DOMAIN q = 1..Len(q) BY DEF Ordered
<1>2. Queue!Resident = {q[i] : i \in 1..Len(q)} BY <1>1 DEF Queue!Resident
<1> QED BY <1>2 DEF Ordered

(* The page that is wanted is one. *)
LEMMA WantedPage == TypeOK => vpage \in Page /\ vpage # NoPage
BY PageAssumption DEF TypeOK

(* What a step has to do. *)
Kept == Arrivals' /\ Looking' /\ (\E q : Ordered(q)') /\ (Queue!Next \/ UNCHANGED Queue!vars)

(* find_physpage looks the page up. *)
LEMMA LookupQueue ==
    ASSUME QueueInv, Bookkeeping', NEW t \in TYPES, NEW p \in Page,
           Hit(t, p) \/ AllocateFree(t, p) \/ Replace(t, p)
    PROVE  Kept
<1>1. /\ UNCHANGED <<pte, coremap, alg, time>> /\ pc = "trace" /\ vpage' = p
      /\ pc' \in {"ref", "fill", "evict"} /\ (pc' = "ref" => pte[p].valid)
  BY DEF Hit, AllocateFree, Replace, Reference, policy
<1>2. PICK q : Ordered(q) BY DEF QueueInv
<1>3. Ordered(q)' BY <1>1, <1>2 DEF Ordered, Stamp
<1>4. ByTimestamp = q /\ ByTimestamp' = q
  BY <1>2, <1>3, BothQueues DEF QueueInv, Bookkeeping
<1>5. Arrivals' /\ Looking' BY <1>1 DEF QueueInv, Arrivals, Looking
<1>6. Queue!Ask(p) BY <1>1, <1>4 DEF Queue!Ask
<1> QED BY <1>3, <1>5, <1>6 DEF Kept, Queue!Next

(* The first page of the queue leaves. *)
LEMMA LeaveQueue ==
    ASSUME QueueInv, Bookkeeping', pc = "evict", NEW f \in Oldest,
           NEW s \in Slot \cup {INVALID_SWAP}, Leave(f, s)
    PROVE  Kept
<1> USE DEF QueueInv, Bookkeeping
<1>1. PICK q : Ordered(q) OBVIOUS
<1>2. f \in Frame BY DEF Oldest
<1>3. q # <<>> /\ coremap[f].pte = q[1] BY <1>1, OldestFirst
<1>4. q[1] \in Page
  <2>1. q \in Seq(Page) BY <1>1 DEF Ordered
  <2> QED BY <1>3, <2>1
<1>5. ~pte'[q[1]].valid /\ \A p \in Page : p # q[1] => pte'[p] = pte[p]
  BY <1>2, <1>3, LeaveEffect
<1>6. UNCHANGED <<coremap, vpage, alg>> /\ pc' = "fill" BY DEF Leave, request
<1>7. Ordered(Tail(q))' BY <1>1, <1>3, <1>5, <1>6, FirstLeaves
<1>8. ByTimestamp = q /\ ByTimestamp' = Tail(q) BY <1>1, <1>7, BothQueues
<1>9. Len(q) = MEMSIZE BY <1>1, FullQueue
<1>10. vpage \in Page \ Queue!Resident /\ vpage # NoPage
  BY <1>1, <1>8, ResidentPages, WantedPage DEF Phases
<1>11. Queue!Evict BY <1>6, <1>8, <1>9, <1>10 DEF Queue!Evict
<1>12. Arrivals' /\ Looking'
  <2>1. Looking' BY <1>6 DEF Looking
  <2>2. \A p \in Page : pte'[p].valid => pte[p].valid /\ pte'[p].frame = pte[p].frame
    BY <1>4, <1>5
  <2>3. Arrivals' BY <1>6, <2>2 DEF Arrivals
  <2> QED BY <2>1, <2>3
<1> QED BY <1>7, <1>11, <1>12 DEF Kept, Queue!Next

(* evict_fcn of fifo.c and lru.c. *)
LEMMA EvictQueue == QueueInv /\ Bookkeeping' /\ Evict => Kept
<1> SUFFICES ASSUME QueueInv, Bookkeeping', Evict PROVE Kept OBVIOUS
<1>1. PICK f \in Victims : EvictClean(f) \/ EvictDirty(f) \/ EvictFails(f) BY DEF Evict
<1>2. f \in Oldest /\ pc = "evict" BY <1>1 DEF Victims, QueueInv, Looking, Evict
<1>3. f \in Frame /\ coremap[f].pte \in Page
  BY <1>2, VictimOwnsFrame DEF Oldest, QueueInv
<1> DEFINE v == pte[coremap[f].pte]
<1>4. v.swap_off \in Slot \cup {INVALID_SWAP} BY <1>3 DEF QueueInv, Bookkeeping, TypeOK, Pte
<1>5. PageoutSlot(v.swap_off) \in Slot \cup {INVALID_SWAP}
  BY <1>4, PageoutSlotType DEF QueueInv, Bookkeeping
<1>6. PICK s \in Slot \cup {INVALID_SWAP} : Leave(f, s)
  BY <1>1, <1>4, <1>5 DEF EvictClean, EvictDirty, EvictFails
<1> QED BY <1>2, <1>6, LeaveQueue

(* Filling the frame is not seen: its page is not in memory yet. *)
LEMMA FillQueue ==
    ASSUME QueueInv, Bookkeeping', pc = "fill", NEW d \in BOOLEAN, Fill(d)
    PROVE  Kept
<1> USE DEF QueueInv, Bookkeeping
<1>1. PICK q : Ordered(q) OBVIOUS
<1>2. /\ pte'[vpage].valid = pte[vpage].valid
      /\ \A p \in Page : p # vpage => pte'[p] = pte[p]
      /\ coremap'[frame].new_swapin
      /\ \A f \in Frame : f # frame => coremap'[f] = coremap[f]
  BY FillEffect
<1>3. UNCHANGED <<vpage, frame, alg>> /\ pc' = "ref" BY DEF Fill, request, policy
<1>4. \A p \in Page : pte[p].valid => /\ p # vpage /\ pte'[p] = pte[p]
                                      /\ coremap'[pte[p].frame] = coremap[pte[p].frame]
  BY <1>2, StampType DEF Phases
<1>5. \A p \in Page : pte'[p].valid = pte[p].valid BY <1>2
<1>6. \A p \in Page : pte[p].valid => Stamp(p)' = Stamp(p) BY <1>4 DEF Stamp
<1>7. Ordered(q)' BY <1>1, <1>5, <1>6, SameOrder
<1>8. ByTimestamp = q /\ ByTimestamp' = q BY <1>1, <1>7, BothQueues
<1>9. UNCHANGED Queue!vars BY <1>3, <1>8 DEF Queue!vars
<1>10. Arrivals' /\ Looking'
  <2>1. \A p \in Page : pte'[p].valid => pte'[p] = pte[p] /\ coremap'[pte[p].frame] = coremap[pte[p].frame]
    BY <1>4, <1>5
  <2>2. Arrivals' BY <1>2, <1>3, <1>5, <2>1 DEF Arrivals
  <2> QED BY <1>3, <2>2 DEF Looking
<1> QED BY <1>7, <1>9, <1>10 DEF Kept

(* Nor is the abort seen. *)
LEMMA FillFrameQueue == QueueInv /\ Bookkeeping' /\ FillFrame => Kept
<1> SUFFICES ASSUME QueueInv, Bookkeeping', FillFrame PROVE Kept OBVIOUS
<1>1. CASE FillNew \/ FillFromSwap \/ FillFails
  <2>1. pc = "fill" /\ (Fill(TRUE) \/ Fill(FALSE)) BY <1>1 DEF FillNew, FillFromSwap, FillFails
  <2> QED BY <2>1, FillQueue
<1>2. CASE FillAborts
  <2>1. UNCHANGED <<pte, coremap, vpage, frame, alg>> /\ pc = "fill" /\ pc' = "aborted"
    BY <1>2 DEF FillAborts, request, policy
  <2>2. PICK q : Ordered(q) BY DEF QueueInv
  <2>3. Ordered(q)' BY <2>1, <2>2 DEF Ordered, Stamp
  <2>4. ByTimestamp = q /\ ByTimestamp' = q
    BY <2>2, <2>3, BothQueues DEF QueueInv, Bookkeeping
  <2>5. UNCHANGED Queue!vars BY <2>1, <2>4 DEF Queue!vars
  <2>6. Arrivals' /\ Looking' BY <2>1 DEF QueueInv, Arrivals, Looking
  <2> QED BY <2>3, <2>5, <2>6 DEF Kept
<1> QED BY <1>1, <1>2 DEF FillFrame

(* What is left of new_swapin under FIFO when a page was used. *)
LEMMA UsedOnce ==
    ASSUME NEW e \in FrameEntry, time \in Nat, alg = "fifo"
    PROVE  ~Referenced(e).new_swapin
BY DEF FrameEntry, Referenced

(* The page is used: it comes to the end of the queue, or stays. *)
LEMMA AccessQueue == QueueInv /\ Bookkeeping' /\ Access => Kept
<1> SUFFICES ASSUME QueueInv, Bookkeeping', Access PROVE Kept OBVIOUS
<1> USE DEF QueueInv, Bookkeeping
<1>1. PICK q : Ordered(q) OBVIOUS
<1> DEFINE e == coremap[frame]
<1>2. /\ vpage \in Page /\ frame \in Frame /\ time \in Nat /\ e \in FrameEntry
      /\ pc = "ref" /\ pc' = "trace" /\ UNCHANGED <<vpage, alg>>
  BY DEF Access, request, TypeOK
<1>3. /\ pte[vpage].frame = frame /\ e.in_use /\ e.pte = vpage
      /\ pte'[vpage].valid /\ pte'[vpage].frame = frame
      /\ \A p \in Page : p # vpage => pte'[p] = pte[p]
      /\ coremap'[frame] = Referenced(e)
      /\ \A f \in Frame : f # frame => coremap'[f] = coremap[f]
  BY AccessEffect
<1> HIDE DEF e
<1>4. \A p \in Page : pte[p].valid /\ p # vpage =>
        /\ pte[p].frame \in Frame /\ pte[p].frame # frame
        /\ Stamp(p)' = Stamp(p) /\ Stamp(p) < time
  <2> SUFFICES ASSUME NEW p \in Page, pte[p].valid, p # vpage
               PROVE  /\ pte[p].frame \in Frame /\ pte[p].frame # frame
                      /\ Stamp(p)' = Stamp(p) /\ Stamp(p) < time
    OBVIOUS
  <2>1. pte[p].frame \in Frame /\ coremap[pte[p].frame].in_use /\ coremap[pte[p].frame].pte = p
    BY StampType DEF MappingsAgree
  <2>2. pte[p].frame # frame BY <1>3, <2>1 DEF e
  <2>3. Stamp(p)' = Stamp(p) BY <1>3, <2>1, <2>2 DEF Stamp
  <2>4. Stamp(p) < time BY <2>1, <2>2 DEF Stamped, Looking, Stamp
  <2> QED BY <2>1, <2>2, <2>3, <2>4
<1>5. Looking' BY <1>2 DEF Looking
<1>6. Arrivals'
  <2>1. ASSUME alg = "fifo", NEW p \in Page, pte'[p].valid
        PROVE  ~coremap'[pte'[p].frame].new_swapin
    <3>1. CASE p = vpage BY <1>2, <1>3, <2>1, <3>1, UsedOnce
    <3>2. CASE p # vpage
      <4>1. pte'[p] = pte[p] /\ pte[p].valid BY <1>3, <2>1, <3>2
      <4>2. coremap'[pte[p].frame] = coremap[pte[p].frame] BY <1>3, <1>4, <3>2, <4>1
      <4> QED BY <2>1, <4>1, <4>2 DEF Arrivals
    <3> QED BY <3>1, <3>2
  <2> QED BY <1>2, <2>1 DEF Arrivals
<1>10. PICK v \in Page : v = vpage BY <1>2
<1>7. Stamp(v)' = Referenced(e).timestamp BY <1>2, <1>3, <1>10 DEF Stamp
<1>8. Stamp(v) = e.timestamp BY <1>3, <1>10 DEF Stamp, e
<1>9. q \in Seq(Page) /\ DOMAIN q = 1..Len(q) BY <1>1 DEF Ordered
<1>11. CASE ~pte[vpage].valid
  <2>1. Referenced(e).timestamp = time
    <3>1. alg = "fifo" => e.new_swapin BY <1>2, <1>11 DEF Arrivals, e
    <3> QED BY <1>2, <3>1, ReferencedType DEF Looking
  <2>2. \A p \in Page : (pte[p].valid /\ p # v) <=> \E i \in 1..Len(q) : q[i] = p
    BY <1>1, <1>11, <1>10 DEF Ordered
  <2>3. \A i, j \in 1..Len(q) : i < j => Stamp(q[i]) < Stamp(q[j]) BY <1>1 DEF Ordered
  <2> DEFINE n == Append(q, v)
  <2>4. Ordered(n)'
    BY <1>2, <1>3, <1>4, <1>7, <1>9, <1>10, <2>1, <2>2, <2>3, LastComes
  <2> HIDE DEF n
  <2>5. ByTimestamp = q /\ ByTimestamp' = n BY <1>1, <2>4, BothQueues
  <2>6. Len(q) < MEMSIZE BY <1>1, <1>2, <1>11, QueueHasRoom
  <2>7. vpage \in Page \ Queue!Resident BY <1>1, <1>2, <1>11, <2>5, ResidentPages
  <2>8. Queue!Load BY <1>2, <1>10, <2>5, <2>6, <2>7 DEF Queue!Load, n
  <2> QED BY <1>5, <1>6, <2>4, <2>8 DEF Kept, Queue!Next
<1>12. CASE pte[vpage].valid /\ alg = "lru"
  <2>1. PICK i \in 1..Len(q) : q[i] = v BY <1>1, <1>10, <1>12 DEF Ordered
  <2> DEFINE r == RemoveAt(q, i)
  <2>2. /\ r \in Seq(Page)
        /\ \A p \in Page : (pte[p].valid /\ p # v) <=> \E k \in 1..Len(r) : r[k] = p
        /\ \A j, k \in 1..Len(r) : j < k => Stamp(r[j]) < Stamp(r[k])
    <3> HIDE DEF r
    <3>1. r = RemoveAt(q, i) BY DEF r
    <3> QED BY <1>1, <2>1, <3>1, WithoutOne
  <2> HIDE DEF r
  <2>3. Referenced(e).timestamp = time BY <1>2, <1>12, ReferencedType
  <2> DEFINE n == Append(r, v)
  <2>4. Ordered(n)' BY <1>2, <1>3, <1>4, <1>7, <1>10, <2>2, <2>3, LastComes
  <2> HIDE DEF n
  <2>5. ByTimestamp = q /\ ByTimestamp' = n BY <1>1, <2>4, BothQueues
  <2>6. Queue!Use
    <3>1. Queue!RemoveAt(q, i) = r BY DEF r, RemoveAt, Queue!RemoveAt
    <3>2. i \in DOMAIN ByTimestamp /\ ByTimestamp[i] = vpage BY <1>9, <1>10, <2>1, <2>5
    <3>3. ByTimestamp' = Append(Queue!RemoveAt(ByTimestamp, i), vpage)
      BY <1>10, <2>5, <3>1 DEF n
    <3> QED BY <1>2, <1>12, <3>2, <3>3 DEF Queue!Use
  <2> QED BY <1>5, <1>6, <2>4, <2>6 DEF Kept, Queue!Next
<1>13. CASE pte[vpage].valid /\ alg = "fifo"
  <2>1. PICK i \in 1..Len(q) : q[i] = v BY <1>1, <1>10, <1>13 DEF Ordered
  <2>2. ~e.new_swapin BY <1>2, <1>3, <1>13 DEF Arrivals, e
  <2>3. Stamp(v)' = Stamp(v) BY <1>2, <1>7, <1>8, <1>13, <2>2, ReferencedType
  <2>4. \A p \in Page : pte'[p].valid = pte[p].valid
    <3>1. \A p \in Page : pte'[p].valid \in BOOLEAN /\ pte[p].valid \in BOOLEAN
      BY DEF TypeOK, Pte
    <3> QED BY <1>3, <1>13, <3>1
  <2>5. \A p \in Page : pte[p].valid => Stamp(p)' = Stamp(p) BY <1>4, <1>10, <2>3
  <2>6. Ordered(q)' BY <1>1, <2>4, <2>5, SameOrder
  <2>7. ByTimestamp = q /\ ByTimestamp' = q BY <1>1, <2>6, BothQueues
  <2>8. Queue!Use BY <1>2, <1>9, <1>13, <1>10, <2>1, <2>7 DEF Queue!Use
  <2> QED BY <1>5, <1>6, <2>6, <2>8 DEF Kept, Queue!Next
<1> QED BY <1>11, <1>12, <1>13 DEF Looking

(* Every step is a step of the queue, or is not seen. *)
LEMMA QueueStep ==
    QueueInv /\ [Next]_vars => QueueInv' /\ (Queue!Next \/ UNCHANGED Queue!vars)
<1> SUFFICES ASSUME QueueInv, [Next]_vars
             PROVE  QueueInv' /\ (Queue!Next \/ UNCHANGED Queue!vars)
  OBVIOUS
<1>1. Bookkeeping' BY BookkeepingStep DEF QueueInv
<1>2. Kept
  <2>1. CASE UNCHANGED vars
    <3>1. UNCHANGED <<pc, vpage, frame, pte, coremap, alg, time>>
      BY <2>1 DEF vars, request, policy
    <3>2. PICK q : Ordered(q) BY DEF QueueInv
    <3>3. Ordered(q)' BY <3>1, <3>2 DEF Ordered, Stamp
    <3>4. ByTimestamp = q /\ ByTimestamp' = q
      BY <1>1, <3>2, <3>3, BothQueues DEF QueueInv, Bookkeeping
    <3>5. UNCHANGED Queue!vars BY <3>1, <3>4 DEF Queue!vars
    <3>6. Arrivals' /\ Looking' BY <3>1 DEF QueueInv, Arrivals, Looking
    <3> QED BY <3>3, <3>5, <3>6 DEF Kept
  <2>2. ASSUME NEW t \in TYPES, NEW p \in Page,
               Hit(t, p) \/ AllocateFree(t, p) \/ Replace(t, p)
        PROVE  Kept
    BY <1>1, <2>2, LookupQueue
  <2>3. CASE ClockSweep BY <2>3 DEF ClockSweep, QueueInv, Looking
  <2>4. CASE Evict BY <1>1, <2>4, EvictQueue
  <2>5. CASE FillFrame BY <1>1, <2>5, FillFrameQueue
  <2>6. CASE Access BY <1>1, <2>6, AccessQueue
  <2> QED BY <2>1, <2>2, <2>3, <2>4, <2>5, <2>6 DEF Next, Serve
<1> QED BY <1>1, <1>2 DEF Kept, QueueInv

(* No page is in memory at first, and the queue is empty. *)
LEMMA QueueInit ==
    ASSUME ALGS \subseteq {"fifo", "lru"}
    PROVE  Init => QueueInv /\ Queue!Init
<1> SUFFICES ASSUME Init PROVE QueueInv /\ Queue!Init OBVIOUS
<1>1. Bookkeeping BY BookkeepingInit
<1>2. \A p \in Page : ~pte[p].valid BY DEF Init
<1>3. Ordered(<<>>) BY <1>2 DEF Ordered
<1>4. ByTimestamp = <<>>
  BY <1>1, <1>3, OrderedIsByTimestamp DEF Bookkeeping, OnlyOrder
<1>5. pc = "trace" /\ alg \in {"fifo", "lru"} BY DEF Init
<1>6. Arrivals BY <1>2, <1>5 DEF Arrivals
<1>7. Queue!Init BY <1>4, <1>5 DEF Queue!Init
<1> QED BY <1>1, <1>3, <1>5, <1>6, <1>7 DEF QueueInv, Looking

(* FIFO evicts the page that came first and LRU the one whose last use is  *)
(* the longest ago, also when the swap file is full or the disk fails.     *)
THEOREM ImplementsQueueHolds ==
    ASSUME ALGS \subseteq {"fifo", "lru"} PROVE Spec => ImplementsQueue
BY QueueInit, QueueStep, PTL DEF Spec, ImplementsQueue, Queue!Spec

=============================================================================
