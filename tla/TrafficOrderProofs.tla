------------------------ MODULE TrafficOrderProofs ------------------------
(***************************************************************************)
(* The order of the cars, for every set of lanes, every length of the ring *)
(* and every schedule: no car is lost, duplicated or overtaken, and the    *)
(* monitor implements Intersection.                                        *)
(*                                                                         *)
(* The provers have no induction over data.  What is needed of it here, a  *)
(* fact about the first n lines of the file for every n, is proved from    *)
(* the least number it would fail for, which the well-foundedness of < on  *)
(* the natural numbers provides.                                           *)
(***************************************************************************)
EXTENDS TrafficProofs, WellFoundedInduction, SequenceTheorems

-----------------------------------------------------------------------------
(* Every set of natural numbers that is not empty has a least one. *)
LEMMA LeastNumber ==
    \A T \in SUBSET Nat : T # {} => \E x \in T : \A y \in T : x <= y
<1> SUFFICES ASSUME NEW T, T \subseteq Nat, T # {}
             PROVE  \E x \in T : \A y \in T : x <= y
  OBVIOUS
<1>1. IsWellFoundedOn(OpToRel(<, Nat), Nat) BY NatLessThanWellFounded
<1>2. PICK x \in T : \A y \in T : ~ (<<y, x>> \in OpToRel(<, Nat)) BY <1>1, WFMin
<1>3. \A y \in T : ~ (y < x) BY <1>2 DEF OpToRel
<1> QED BY <1>3

(* The table of Lines after line n was looked at. *)
Extended(f, n, l) ==
    IF n = 0 THEN <<>>
    ELSE IF file[n].in_dir = l THEN Append(f[n - 1], file[n])
    ELSE f[n - 1]

IsTable(f, n, l) == f = [i \in 0..n |-> Extended(f, i, l)]

CarsIn(l) == {car \in Car : car.in_dir = l}

(* A table for the first n lines exists for every n: the recursive definition of *)
(* Lines defines something.                                                      *)
LEMMA TablesExist ==
    ASSUME file \in Seq(Car), NEW l
    PROVE  \A n \in 0..Len(file) : \E f : IsTable(f, n, l)
<1> DEFINE Missing == {n \in 0..Len(file) : ~ \E f : IsTable(f, n, l)}
<1>0. Len(file) \in Nat BY LenProperties
<1>1. SUFFICES ASSUME Missing # {} PROVE FALSE
  OBVIOUS
<1>2. PICK n \in Missing : \A m \in Missing : n <= m
  <2>1. Missing \in SUBSET Nat BY <1>0
  <2> HIDE DEF Missing
  <2> QED BY <1>1, <2>1, LeastNumber
<1>3. n \in 0..Len(file) /\ ~ \E f : IsTable(f, n, l)
  OBVIOUS
<1>4. n # 0
  <2> DEFINE f == [i \in 0..0 |-> <<>>]
  <2>1. ASSUME n = 0 PROVE IsTable(f, n, l) BY <2>1 DEF IsTable, Extended
  <2> QED BY <1>3, <2>1
<1>5. PICK f : IsTable(f, n - 1, l)
  <2>1. n - 1 \in 0..Len(file) /\ ~ (n <= n - 1) BY <1>0, <1>3, <1>4
  <2>2. n - 1 \notin Missing BY <1>2, <2>1
  <2> QED BY <2>1, <2>2
<1>6. DOMAIN f = 0..n - 1 /\ \A i \in 0..n - 1 : f[i] = Extended(f, i, l)
  BY <1>5 DEF IsTable
<1> DEFINE g == [i \in 0..n |-> IF i = n THEN Extended(f, n, l) ELSE f[i]]
<1>7. \A i \in 0..n - 1 : g[i] = f[i] BY <1>0, <1>3
<1>8. \A i \in 0..n : g[i] = Extended(g, i, l)
  <2> SUFFICES ASSUME NEW i \in 0..n PROVE g[i] = Extended(g, i, l)
    OBVIOUS
  <2>1. i = 0 \/ i - 1 \in 0..n - 1 BY <1>0, <1>3
  <2>2. i = 0 \/ g[i - 1] = f[i - 1] BY <1>7, <2>1
  <2>3. Extended(g, i, l) = Extended(f, i, l) BY <2>2 DEF Extended
  <2>4. g[i] = Extended(f, i, l)
    <3>1. CASE i = n BY <3>1
    <3>2. CASE i # n
      <4>1. i \in 0..n - 1 BY <1>0, <1>3, <3>2
      <4> QED BY <1>6, <1>7, <4>1
    <3> QED BY <3>1, <3>2
  <2> QED BY <2>3, <2>4
<1>9. IsTable(g, n, l) BY <1>8 DEF IsTable
<1> QED BY <1>3, <1>9

(* The first n lines of the file, by their last: what Lines says, as an equation. *)
LEMMA LinesDefined ==
    ASSUME file \in Seq(Car), NEW l, NEW n \in 0..Len(file)
    PROVE  Lines(l)[n] = Extended(Lines(l), n, l)
<1>0. Len(file) \in Nat BY LenProperties
<1>1. \E f : IsTable(f, Len(file), l)
  <2>1. \A m \in 0..Len(file) : \E f : IsTable(f, m, l) BY TablesExist
  <2>2. Len(file) \in 0..Len(file) BY <1>0
  <2> QED BY <2>1, <2>2
<1>2. Lines(l) = CHOOSE f : IsTable(f, Len(file), l) BY DEF Lines, IsTable, Extended
<1>3. IsTable(Lines(l), Len(file), l) BY <1>1, <1>2
<1> HIDE DEF Lines
<1> QED BY <1>3 DEF IsTable

(* All of them are cars of the lane. *)
LEMMA LinesAreCars ==
    ASSUME file \in Seq(Car), NEW l
    PROVE  \A n \in 0..Len(file) : Lines(l)[n] \in Seq(CarsIn(l))
<1> DEFINE Wrong == {n \in 0..Len(file) : Lines(l)[n] \notin Seq(CarsIn(l))}
<1>0. Len(file) \in Nat BY LenProperties
<1>1. SUFFICES ASSUME Wrong # {} PROVE FALSE
  OBVIOUS
<1>2. PICK n \in Wrong : \A m \in Wrong : n <= m
  <2>1. Wrong \in SUBSET Nat BY <1>0
  <2> HIDE DEF Wrong
  <2> QED BY <1>1, <2>1, LeastNumber
<1>3. n \in 0..Len(file) /\ Lines(l)[n] \notin Seq(CarsIn(l))
  OBVIOUS
<1>4. Lines(l)[n] = Extended(Lines(l), n, l) BY <1>3, LinesDefined
<1>5. n # 0
  <2>1. <<>> \in Seq(CarsIn(l)) OBVIOUS
  <2> QED BY <1>3, <1>4, <2>1 DEF Extended
<1>6. Lines(l)[n - 1] \in Seq(CarsIn(l))
  <2>1. n - 1 \in 0..Len(file) /\ ~ (n <= n - 1) BY <1>0, <1>3, <1>5
  <2> QED BY <1>2, <2>1
<1>7. file[n] \in Car BY <1>0, <1>3, <1>5, ElementOfSeq
<1>8. file[n].in_dir = l => Append(Lines(l)[n - 1], file[n]) \in Seq(CarsIn(l))
  BY <1>6, <1>7, AppendProperties DEF CarsIn
<1> QED BY <1>3, <1>4, <1>5, <1>6, <1>8 DEF Extended

-----------------------------------------------------------------------------
(* A reversed sequence is one over the same set. *)
LEMMA ReverseType ==
    ASSUME NEW S, NEW s \in Seq(S)
    PROVE  /\ Reverse(s) \in Seq(S)
           /\ Len(Reverse(s)) = Len(s)
           /\ \A i \in 1..Len(s) : Reverse(s)[i] = s[Len(s) - i + 1]
<1>1. Len(s) \in Nat /\ \A i \in 1..Len(s) : s[i] \in S BY LenProperties, ElementOfSeq
<1>2. \A i \in 1..Len(s) : Len(s) - i + 1 \in 1..Len(s) BY <1>1
<1> DEFINE r == [i \in 1..Len(s) |-> s[Len(s) - i + 1]]
<1>3. Reverse(s) = r BY <1>1, <1>2 DEF Reverse
<1>4. r \in [1..Len(s) -> S] BY <1>1, <1>2
<1>5. r \in Seq(S) /\ Len(r) = Len(s) BY <1>1, <1>4
<1> QED BY <1>3, <1>5

(* What is appended to a sequence is the first of the reversed one. *)
LEMMA ReverseAppend ==
    ASSUME NEW S, NEW s \in Seq(S), NEW x \in S
    PROVE  Reverse(Append(s, x)) = <<x>> \o Reverse(s)
<1> DEFINE t == Append(s, x)  u == <<x>> \o Reverse(s)
<1>1. /\ <<x>> \in Seq(S) /\ Len(<<x>>) = 1 /\ <<x>>[1] = x
      /\ Len(s) \in Nat
  BY LenProperties
<1>2. /\ t \in Seq(S) /\ Len(t) = Len(s) + 1
      /\ \A i \in 1..Len(s) + 1 : t[i] = IF i <= Len(s) THEN s[i] ELSE x
  BY <1>1, AppendProperties
<1>3. /\ Reverse(s) \in Seq(S) /\ Len(Reverse(s)) = Len(s)
      /\ \A i \in 1..Len(s) : Reverse(s)[i] = s[Len(s) - i + 1]
  BY ReverseType
<1>4. /\ u \in Seq(S) /\ Len(u) = Len(s) + 1
      /\ \A i \in 1..Len(s) + 1 : u[i] = IF i = 1 THEN x ELSE Reverse(s)[i - 1]
  BY <1>1, <1>3, ConcatProperties
<1> HIDE DEF t, u
<1>5. /\ Reverse(t) \in Seq(S) /\ Len(Reverse(t)) = Len(s) + 1
      /\ \A i \in 1..Len(s) + 1 : Reverse(t)[i] = t[Len(s) + 1 - i + 1]
  BY <1>2, ReverseType
<1>6. ASSUME NEW i \in 1..Len(s) + 1 PROVE Reverse(t)[i] = u[i]
  <2>1. CASE i = 1
    <3>1. Reverse(t)[i] = t[Len(s) + 1] BY <1>1, <1>5, <2>1
    <3>2. t[Len(s) + 1] = x BY <1>1, <1>2
    <3> QED BY <1>1, <1>4, <2>1, <3>1, <3>2
  <2>2. CASE i # 1
    <3>0. i - 1 \in 1..Len(s) BY <1>1, <2>2
    <3> DEFINE j == Len(s) - (i - 1) + 1
    <3>1. j \in 1..Len(s) /\ Len(s) + 1 - i + 1 = j BY <1>1, <3>0
    <3> HIDE DEF j
    <3>2. Reverse(t)[i] = t[j] BY <1>5, <3>1
    <3>3. t[j] = s[j] BY <1>1, <1>2, <3>1
    <3>4. Reverse(s)[i - 1] = s[j] BY <1>3, <3>0 DEF j
    <3> QED BY <1>1, <1>4, <2>2, <3>2, <3>3, <3>4
  <2> QED BY <2>1, <2>2
<1>7. Reverse(t) = u BY <1>4, <1>5, <1>6, SeqEqual
<1> QED BY <1>7 DEF t, u

-----------------------------------------------------------------------------
(* The queue a ring stands for. *)

(* It consists of cars, the one at Slot(l, k) after k others. *)
QueueInRing ==
    \A l \in Lanes :
        /\ Queued(l) \in Seq(Car)
        /\ Len(Queued(l)) = in_buf[l]
        /\ \A k \in 1..in_buf[l] : Queued(l)[k] = buffer[l][Slot(l, k - 1)]

(* The queue of a lane follows from its buffer, tail and in_buf. *)
LEMMA QueueFromRing == IInv => QueueInRing
<1> SUFFICES ASSUME IInv, NEW l \in Lanes
             PROVE  /\ Queued(l) \in Seq(Car)
                    /\ Len(Queued(l)) = in_buf[l]
                    /\ \A k \in 1..in_buf[l] : Queued(l)[k] = buffer[l][Slot(l, k - 1)]
  BY DEF QueueInRing
<1> DEFINE n == in_buf[l]  t == tail[l]
<1>1. n \in 0..LANE_LENGTH /\ t \in 0..(LANE_LENGTH - 1) /\ n \in Nat /\ LANE_LENGTH \in Nat \ {0}
  BY LengthAssumption DEF IInv, TypeOK
<1>2. buffer[l] \in [0..(LANE_LENGTH - 1) -> Car \cup {NULL}] BY DEF IInv, TypeOK
<1>3. \A k \in 0..(LANE_LENGTH - 1) : k < n => buffer[l][Slot(l, k)] # NULL
  BY DEF IInv, RingFilled
<1>4. ASSUME NEW k \in 1..n
      PROVE  (t + k - 1) % LANE_LENGTH = Slot(l, k - 1) /\ Slot(l, k - 1) \in 0..(LANE_LENGTH - 1)
  <2> HIDE DEF n, t
  <2> DEFINE i == t + k - 1
  <2>1. i \in 0..(2 * LANE_LENGTH - 1) BY <1>1
  <2>2. i % LANE_LENGTH = IF i < LANE_LENGTH THEN i ELSE i - LANE_LENGTH BY <1>1, <2>1, ModWrap
  <2>3. Slot(l, k - 1) = IF i < LANE_LENGTH THEN i ELSE i - LANE_LENGTH
    BY <1>1 DEF Slot, t
  <2>4. Slot(l, k - 1) \in 0..(LANE_LENGTH - 1) BY <1>1, <2>1, <2>3
  <2> QED BY <2>2, <2>3, <2>4
<1> DEFINE q == [k \in 1..n |-> buffer[l][(t + k - 1) % LANE_LENGTH]]
<1>5. Queued(l) = q BY DEF Queued
<1>6. \A k \in 1..n : q[k] = buffer[l][Slot(l, k - 1)] BY <1>4
<1>7. \A k \in 1..n : buffer[l][Slot(l, k - 1)] \in Car
  <2> SUFFICES ASSUME NEW k \in 1..n PROVE buffer[l][Slot(l, k - 1)] \in Car
    OBVIOUS
  <2>1. k - 1 \in 0..(LANE_LENGTH - 1) /\ k - 1 < n BY <1>1
  <2>2. buffer[l][Slot(l, k - 1)] # NULL BY <1>3, <2>1
  <2>3. Slot(l, k - 1) \in 0..(LANE_LENGTH - 1) BY <1>4
  <2> QED BY <1>2, <2>2, <2>3
<1>8. q = [k \in 1..n |-> q[k]] /\ \A k \in 1..n : q[k] \in Car
  <2>1. \A k \in 1..n : q[k] \in Car BY <1>6, <1>7
  <2>2. DOMAIN q = 1..n /\ q = [k \in DOMAIN q |-> q[k]] OBVIOUS
  <2> QED BY <2>1, <2>2
<1> HIDE DEF q, n
<1>9. q \in Seq(Car) /\ Len(q) = n
  <2>1. q \in [1..n -> Car] BY <1>8
  <2>2. q \in Seq(Car) BY <1>1, <2>1, SeqDef
  <2>3. Len(q) \in Nat /\ 1..n = 1..Len(q) BY <2>1, <2>2, LenProperties
  <2> QED BY <1>1, <2>2, <2>3
<1> QED BY <1>5, <1>6, <1>9 DEF n

(* car_arrive appends the pending car to the queue. *)
LEMMA ArrivePutQueue ==
    ASSUME IInv, IInv', NEW l \in Lanes, ArrivePut(l)
    PROVE  /\ in_cars[l] # <<>> /\ Len(Queued(l)) < LANE_LENGTH
           /\ Queued(l)' = Append(Queued(l), Head(in_cars[l]))
           /\ \A m \in Lanes \ {l} : Queued(m)' = Queued(m)
<1> DEFINE n == in_buf[l]  c == Head(in_cars[l])
<1>1. in_cars[l] # <<>> /\ c \in Car
  BY DEF IInv, TypeOK, LaneProgress, ArrivePut, AllArrived
<1>2. QueueInRing /\ QueueInRing' BY QueueFromRing, PTL
<1>3. n \in 0..LANE_LENGTH - 1 /\ n \in Nat /\ tail[l] \in 0..LANE_LENGTH - 1
  <2>1. in_buf[l] \in 0..LANE_LENGTH /\ tail[l] \in 0..LANE_LENGTH - 1 BY DEF IInv, TypeOK
  <2>2. in_buf[l] # LANE_LENGTH BY DEF ArrivePut, Full
  <2> QED BY <2>1, <2>2, LengthAssumption
<1>4. /\ in_buf'[l] = n + 1 /\ head[l] = Slot(l, n)
      /\ buffer'[l] = [buffer[l] EXCEPT ![head[l]] = c]
      /\ \A k \in Int : Slot(l, k)' = Slot(l, k)
  BY DEF IInv, TypeOK, RingFilled, ArrivePut, Slot
<1>5. buffer[l] \in [0..(LANE_LENGTH - 1) -> Car \cup {NULL}] BY DEF IInv, TypeOK
<1>6. /\ Queued(l) \in Seq(Car) /\ Len(Queued(l)) = n
      /\ \A k \in 1..n : Queued(l)[k] = buffer[l][Slot(l, k - 1)]
  BY <1>2 DEF QueueInRing
<1>7. /\ Queued(l)' \in Seq(Car) /\ Len(Queued(l)') = n + 1
      /\ \A k \in 1..n + 1 : Queued(l)'[k] = buffer'[l][Slot(l, k - 1)]
  <2>1. /\ Queued(l)' \in Seq(Car) /\ Len(Queued(l)') = in_buf'[l]
        /\ \A k \in 1..in_buf'[l] : Queued(l)'[k] = buffer'[l][Slot(l, k - 1)']
    BY <1>2 DEF QueueInRing
  <2>2. \A k \in 1..n + 1 : k - 1 \in Int OBVIOUS
  <2> QED BY <1>4, <2>1, <2>2
<1> HIDE DEF n, c
<1>8. \A k \in 0..n : Slot(l, k) \in 0..LANE_LENGTH - 1 /\ (k # n => Slot(l, k) # Slot(l, n))
  BY <1>3, LengthAssumption DEF Slot
<1>9. ASSUME NEW k \in 1..n + 1 PROVE Queued(l)'[k] = Append(Queued(l), c)[k]
  <2>1. k - 1 \in 0..n BY <1>3
  <2>2. CASE k = n + 1
    <3>1. k - 1 = n BY <1>3, <2>2
    <3>2. Queued(l)'[k] = c BY <1>4, <1>5, <1>7, <1>8, <2>1, <3>1
    <3>3. Append(Queued(l), c)[k] = c BY <1>1, <1>6, <2>2, AppendProperties
    <3> QED BY <3>2, <3>3
  <2>3. CASE k # n + 1
    <3>1. k \in 1..n /\ k - 1 # n BY <1>3, <2>3
    <3>2. Queued(l)'[k] = buffer[l][Slot(l, k - 1)] BY <1>4, <1>5, <1>7, <1>8, <2>1, <3>1
    <3>3. Append(Queued(l), c)[k] = Queued(l)[k] BY <1>1, <1>6, <3>1, AppendProperties
    <3> QED BY <1>6, <3>1, <3>2, <3>3
  <2> QED BY <2>2, <2>3
<1>10. Append(Queued(l), c) \in Seq(Car) /\ Len(Append(Queued(l), c)) = n + 1
  BY <1>1, <1>6, AppendProperties
<1>11. Queued(l)' = Append(Queued(l), c)
  <2> DEFINE q == Queued(l)'  r == Append(Queued(l), c)
  <2>1. q \in Seq(Car) /\ r \in Seq(Car) /\ Len(q) = Len(r) /\ \A k \in 1..Len(q) : q[k] = r[k]
    BY <1>7, <1>9, <1>10
  <2> HIDE DEF q, r
  <2>2. q = r BY <2>1, SeqEqual
  <2> QED BY <2>2 DEF q, r
<1>12. \A m \in Lanes \ {l} : Queued(m)' = Queued(m)
  BY DEF IInv, TypeOK, ArrivePut, Queued
<1> QED BY <1>1, <1>3, <1>6, <1>11, <1>12, LengthAssumption DEF c

(* car_cross takes the first car of the queue. *)
LEMMA CrossMoveQueue ==
    ASSUME IInv, IInv', NEW l \in Lanes, CrossMove(l)
    PROVE  /\ NextCar(l) \in Car
           /\ Queued(l)' \in Seq(Car)
           /\ Queued(l) = <<NextCar(l)>> \o Queued(l)'
           /\ \A m \in Lanes \ {l} : Queued(m)' = Queued(m)
<1> DEFINE n == in_buf[l]  c == NextCar(l)
<1>1. ~Empty(l) /\ c \in Car BY NextCarIsCar DEF IInv, LaneProgress, CrossMove
<1>2. QueueInRing /\ QueueInRing' BY QueueFromRing, PTL
<1>3. n \in 1..LANE_LENGTH /\ n \in Nat /\ tail[l] \in 0..LANE_LENGTH - 1
  <2>1. in_buf[l] \in 0..LANE_LENGTH /\ tail[l] \in 0..LANE_LENGTH - 1 BY DEF IInv, TypeOK
  <2>2. in_buf[l] # 0 BY <1>1 DEF Empty
  <2> QED BY <2>1, <2>2, LengthAssumption
<1>4. /\ in_buf'[l] = n - 1
      /\ buffer'[l] = [buffer[l] EXCEPT ![tail[l]] = NULL]
      /\ tail'[l] = IF tail[l] + 1 = LANE_LENGTH THEN 0 ELSE tail[l] + 1
  <2>1. in_buf'[l] = n - 1 /\ buffer'[l] = [buffer[l] EXCEPT ![tail[l]] = NULL]
    BY DEF IInv, TypeOK, CrossMove
  <2>2. tail'[l] = Advance(tail[l]) BY DEF IInv, TypeOK, CrossMove
  <2> QED BY <1>3, <2>1, <2>2, AdvanceWraps
<1>5. buffer[l] \in [0..(LANE_LENGTH - 1) -> Car \cup {NULL}] BY DEF IInv, TypeOK
<1>6. /\ Queued(l) \in Seq(Car) /\ Len(Queued(l)) = n
      /\ \A k \in 1..n : Queued(l)[k] = buffer[l][Slot(l, k - 1)]
  BY <1>2 DEF QueueInRing
<1>7. /\ Queued(l)' \in Seq(Car) /\ Len(Queued(l)') = n - 1
      /\ \A k \in 1..n - 1 : Queued(l)'[k] = buffer'[l][Slot(l, k - 1)']
  BY <1>2, <1>4 DEF QueueInRing
<1> HIDE DEF n, c
<1>8. \A k \in 0..n - 2 : /\ Slot(l, k)' = Slot(l, k + 1)
                            /\ Slot(l, k + 1) \in 0..LANE_LENGTH - 1
                            /\ Slot(l, k + 1) # tail[l]
  BY <1>3, <1>4, LengthAssumption DEF Slot
<1>9. ASSUME NEW k \in 1..n - 1 PROVE Queued(l)'[k] = Queued(l)[k + 1]
  <2>1. k - 1 \in 0..n - 2 /\ k + 1 \in 1..n /\ (k - 1) + 1 = k /\ (k + 1) - 1 = k BY <1>3
  <2>2. Slot(l, k - 1)' = Slot(l, k) /\ Slot(l, k) \in 0..LANE_LENGTH - 1 /\ Slot(l, k) # tail[l]
    BY <1>8, <2>1
  <2>3. Queued(l)'[k] = buffer[l][Slot(l, k)] BY <1>4, <1>5, <1>7, <2>2
  <2>4. Queued(l)[k + 1] = buffer[l][Slot(l, k)] BY <1>6, <2>1
  <2> QED BY <2>3, <2>4
<1>10. Queued(l)[1] = c
  <2>1. Slot(l, 0) = tail[l] BY <1>3, LengthAssumption DEF Slot
  <2>2. 1 \in 1..n /\ 1 - 1 = 0 BY <1>3
  <2> QED BY <1>6, <2>1, <2>2 DEF c, NextCar
<1>11. Queued(l) = <<c>> \o Queued(l)'
  <2> DEFINE q == Queued(l)  r == Queued(l)'  s == <<c>> \o r
  <2>1. /\ q \in Seq(Car) /\ Len(q) = n /\ q[1] = c
        /\ r \in Seq(Car) /\ Len(r) = n - 1 /\ \A k \in 1..n - 1 : r[k] = q[k + 1]
    BY <1>6, <1>7, <1>9, <1>10
  <2>2. <<c>> \in Seq(Car) /\ Len(<<c>>) = 1 /\ <<c>>[1] = c BY <1>1
  <2> HIDE DEF q, r
  <2>3. /\ s \in Seq(Car) /\ Len(s) = n
        /\ \A k \in 1..n : s[k] = IF k = 1 THEN c ELSE r[k - 1]
    BY <1>3, <2>1, <2>2, ConcatProperties
  <2> HIDE DEF s
  <2>4. ASSUME NEW k \in 1..n PROVE q[k] = s[k]
    <3>1. k = 1 \/ (k - 1 \in 1..n - 1 /\ (k - 1) + 1 = k) BY <1>3
    <3> QED BY <2>1, <2>3, <3>1
  <2>5. q = s BY <2>1, <2>3, <2>4, SeqEqual
  <2> QED BY <2>5 DEF q, r, s
<1>12. \A m \in Lanes \ {l} : Queued(m)' = Queued(m)
  BY DEF IInv, TypeOK, CrossMove, Queued
<1> QED BY <1>1, <1>7, <1>11, <1>12 DEF c

-----------------------------------------------------------------------------
(* No overtaking. *)

(* The threads run when the whole file is read, and no car crossed before. *)
AllRead == IF main = "parse" THEN \A l \in Lanes : printed[l] = <<>>
                             ELSE line = Len(file)

OInv == IInv /\ AllRead /\ NoOvertaking

(* The file is a sequence of cars. *)
LEMMA FileOfCars == TypeOK => file \in Seq(Car)
  BY SchedulesAssumption DEF TypeOK

(* Concatenation is associative.  It has a name of its own here, so that the  *)
(* provers see no more of sequences than what they need.                      *)
Concat(s, t) == s \o t

LEMMA Regrouped ==
    \A S : \A x, y, z \in Seq(S) :
        /\ Concat(x, y) \in Seq(S)
        /\ Concat(Concat(x, y), z) = Concat(x, Concat(y, z))
<1> SUFFICES ASSUME NEW S, NEW x \in Seq(S), NEW y \in Seq(S), NEW z \in Seq(S)
             PROVE  /\ x \o y \in Seq(S)
                    /\ (x \o y) \o z = x \o (y \o z)
  BY DEF Concat
<1>1. x \o y \in Seq(S) BY ConcatProperties
<1>2. (x \o y) \o z = x \o (y \o z) BY ConcatAssociative
<1> QED BY <1>1, <1>2

(* A car that is appended to the queue is no longer the first of those pending. *)
LEMMA AppendHead ==
    \A S : \A a, q, s \in Seq(S) :
        s # <<>> => a \o Append(q, Head(s)) \o Tail(s) = a \o q \o s
<1> SUFFICES ASSUME NEW S, NEW a \in Seq(S), NEW q \in Seq(S), NEW s \in Seq(S), s # <<>>
             PROVE  a \o Append(q, Head(s)) \o Tail(s) = a \o q \o s
  OBVIOUS
<1> DEFINE first == <<Head(s)>>  rest == Tail(s)
<1>1. Head(s) \in S /\ first \in Seq(S) /\ rest \in Seq(S) /\ Len(first) = 1 /\ first[1] = Head(s)
  BY HeadTailProperties
<1>2. Append(q, Head(s)) = q \o first BY <1>1, AppendIsConcat
<1>3. s = first \o rest
  <2>1. /\ Len(s) \in Nat \ {0} /\ Len(rest) = Len(s) - 1 /\ Head(s) = s[1]
        /\ \A i \in 1..Len(s) - 1 : rest[i] = s[i + 1]
    BY HeadTailProperties, EmptySeq
  <2>2. /\ first \o rest \in Seq(S) /\ Len(first \o rest) = 1 + Len(rest)
        /\ \A i \in 1..1 + Len(rest) : (first \o rest)[i] = IF i <= 1 THEN first[i] ELSE rest[i - 1]
    BY <1>1, ConcatProperties
  <2> DEFINE both == first \o rest
  <2> HIDE DEF first, rest, both
  <2>3. ASSUME NEW i \in 1..Len(s) PROVE s[i] = both[i]
    <3>1. CASE i = 1 BY <1>1, <2>1, <2>2, <3>1 DEF both
    <3>2. CASE i # 1
      <4>1. i - 1 \in 1..Len(s) - 1 /\ (i - 1) + 1 = i BY <2>1, <3>2
      <4> QED BY <2>1, <2>2, <4>1 DEF both
    <3> QED BY <3>1, <3>2
  <2>4. both \in Seq(S) /\ Len(both) = Len(s) BY <2>1, <2>2 DEF both
  <2>5. s = both BY <2>3, <2>4, SeqEqual
  <2> QED BY <2>5 DEF both
<1> HIDE DEF first, rest
<1>4. first \in Seq(S) BY <1>1
<1>5. rest \in Seq(S) BY <1>1
<1> HIDE DEF first, rest
<1>6. Concat(Concat(a, Concat(q, first)), rest) = Concat(Concat(a, q), Concat(first, rest))
  <2>1. Concat(a, q) \in Seq(S) BY Regrouped
  <2>2. Concat(a, Concat(q, first)) = Concat(Concat(a, q), first) BY <1>4, Regrouped
  <2>3. Concat(Concat(Concat(a, q), first), rest) = Concat(Concat(a, q), Concat(first, rest))
    <3> DEFINE front == Concat(a, q)
    <3> HIDE DEF front
    <3>1. front \in Seq(S) BY <2>1 DEF front
    <3>2. Concat(Concat(front, first), rest) = Concat(front, Concat(first, rest))
      BY <3>1, <1>4, <1>5, Regrouped
    <3> QED BY <3>2 DEF front
  <2> QED BY <2>2, <2>3
<1>7. (a \o (q \o first)) \o rest = (a \o q) \o (first \o rest) BY <1>6 DEF Concat
<1> QED BY <1>2, <1>3, <1>7 DEF rest

(* A step that moves no car keeps the order. *)
LEMMA Unmoved ==
    ASSUME OInv, UNCHANGED <<file, line, in_cars, printed, buffer, tail, in_buf>>
    PROVE  NoOvertaking' /\ \A l \in Lanes : Queued(l)' = Queued(l)
<1>1. \A l \in Lanes : Lines(l)' = Lines(l) BY DEF Lines
<1>2. \A l \in Lanes : Queued(l)' = Queued(l) BY DEF Queued
<1>3. \A l \in Lanes : printed[l] \o Queued(l) \o in_cars[l] = Reverse(Lines(l)[line])
  BY DEF OInv, NoOvertaking
<1>4. \A l \in Lanes : printed'[l] \o Queued(l)' \o in_cars'[l] = Reverse(Lines(l)'[line'])
  BY <1>1, <1>2, <1>3
<1> QED BY <1>2, <1>4 DEF NoOvertaking

(* parse_schedule puts the next car of the file behind those of its lane, and *)
(* before them in the reversed order.                                         *)
LEMMA ParseLineOrder ==
    ASSUME OInv, IInv', ParseLine
    PROVE  OInv'
<1> DEFINE car == file[line + 1]  n == line + 1
<1>1. file \in Seq(Car) /\ file' = file BY FileOfCars DEF OInv, IInv, ParseLine
<1>2. n \in 0..Len(file) /\ n # 0 /\ n - 1 = line /\ line \in 0..Len(file) /\ n \in 1..Len(file)
  BY <1>1, LenProperties DEF OInv, IInv, TypeOK, ParseLine
<1>3. car \in Car BY <1>1, <1>2, ElementOfSeq
<1>4. AllRead' BY DEF OInv, AllRead, ParseLine
<1>5. ASSUME NEW l \in Lanes
      PROVE  printed'[l] \o Queued(l)' \o in_cars'[l] = Reverse(Lines(l)'[line'])
  <2>1. Lines(l)' = Lines(l) BY <1>1 DEF Lines
  <2>2. Lines(l)[n] = Extended(Lines(l), n, l) BY <1>1, <1>2, LinesDefined
  <2>3. Lines(l)[line] \in Seq(Car)
    <3>1. Lines(l)[line] \in Seq(CarsIn(l)) BY <1>1, <1>2, LinesAreCars
    <3>2. CarsIn(l) \subseteq Car BY DEF CarsIn
    <3> QED BY <3>1, <3>2, SeqMonotonic
  <2>4. /\ printed[l] \o Queued(l) = <<>> /\ printed'[l] = printed[l] /\ Queued(l)' = Queued(l)
        /\ in_cars[l] \in Seq(Car)
    <3>1. printed[l] = <<>> BY DEF OInv, AllRead, ParseLine
    <3>2. QueueInRing BY QueueFromRing DEF OInv
    <3>3. Queued(l) \in Seq(Car) /\ Len(Queued(l)) = 0
      BY <3>2 DEF QueueInRing, OInv, IInv, NotStarted, ParseLine
    <3>4. Queued(l) = <<>> BY <3>3, EmptySeq
    <3>5. <<>> \o <<>> = <<>> BY ConcatEmptySeq, EmptySeq
    <3>6. printed' = printed /\ Queued(l)' = Queued(l) BY DEF ParseLine, Queued
    <3>7. in_cars[l] \in Seq(Car) BY DEF OInv, IInv, TypeOK
    <3> QED BY <3>1, <3>4, <3>5, <3>6, <3>7
  <2>5. in_cars[l] = Reverse(Lines(l)[line])
    <3>1. (printed[l] \o Queued(l)) \o in_cars[l] = Reverse(Lines(l)[line])
      BY DEF OInv, NoOvertaking
    <3> QED BY <2>4, <3>1, ConcatEmptySeq
  <2>6. in_cars'[l] = Reverse(Lines(l)[n])
    <3>1. CASE car.in_dir = l
      <4>1. Lines(l)[n] = Append(Lines(l)[line], car) BY <1>2, <2>2, <3>1 DEF Extended
      <4>2. in_cars'[l] = <<car>> \o in_cars[l]
        BY <3>1 DEF ParseLine, OInv, IInv, TypeOK
      <4> HIDE DEF car, n
      <4>3. Reverse(Append(Lines(l)[line], car)) = <<car>> \o Reverse(Lines(l)[line])
        BY <1>3, <2>3, ReverseAppend
      <4> QED BY <2>5, <4>1, <4>2, <4>3
    <3>2. CASE car.in_dir # l
      <4>1. Lines(l)[n] = Lines(l)[line] BY <1>2, <2>2, <3>2 DEF Extended
      <4>2. in_cars'[l] = in_cars[l]
        BY <3>2 DEF ParseLine, OInv, IInv, TypeOK
      <4> QED BY <2>5, <4>1, <4>2
    <3> QED BY <3>1, <3>2
  <2>7. in_cars'[l] \in Seq(Car) BY DEF IInv, TypeOK
  <2>8. line' = n BY DEF ParseLine
  <2>9. (printed'[l] \o Queued(l)') \o in_cars'[l] = in_cars'[l]
    BY <2>4, <2>7, ConcatEmptySeq
  <2> QED BY <2>1, <2>6, <2>8, <2>9
<1> QED BY <1>4, <1>5 DEF OInv, NoOvertaking

(* car_arrive takes the first pending car and puts it at the end of the queue. *)
LEMMA ArrivePutOrder ==
    ASSUME OInv, IInv', NEW l \in Lanes, main = "join", ArrivePut(l)
    PROVE  OInv'
<1>1. AllRead' BY DEF OInv, AllRead, ArrivePut
<1>2. ASSUME NEW m \in Lanes
      PROVE  printed'[m] \o Queued(m)' \o in_cars'[m] = Reverse(Lines(m)'[line'])
  <2>1. Lines(m)' = Lines(m) /\ line' = line /\ printed' = printed BY DEF ArrivePut, Lines
  <2>2. printed[m] \o Queued(m) \o in_cars[m] = Reverse(Lines(m)[line])
    BY DEF OInv, NoOvertaking
  <2>3. CASE m = l
    <3>1. in_cars[l] # <<>> /\ Queued(l)' = Append(Queued(l), Head(in_cars[l]))
      BY ArrivePutQueue DEF OInv
    <3>2. in_cars'[l] = Tail(in_cars[l]) BY DEF ArrivePut, OInv, IInv, TypeOK
    <3>3. in_cars[l] \in Seq(Car) /\ printed[l] \in Seq(Car) BY DEF OInv, IInv, TypeOK
    <3>4. Queued(l) \in Seq(Car) BY QueueFromRing DEF OInv, QueueInRing
    <3> DEFINE out == printed[l]  ring == Queued(l)  in == in_cars[l]
    <3>5. out \in Seq(Car) /\ ring \in Seq(Car) /\ in \in Seq(Car) /\ in # <<>>
      BY <3>1, <3>3, <3>4
    <3> HIDE DEF out, ring, in
    <3>6. out \o Append(ring, Head(in)) \o Tail(in) = out \o ring \o in BY <3>5, AppendHead
    <3> QED BY <2>1, <2>2, <2>3, <3>1, <3>2, <3>6 DEF out, ring, in
  <2>4. CASE m # l
    <3>1. Queued(m)' = Queued(m) BY <2>4, ArrivePutQueue DEF OInv
    <3>2. in_cars'[m] = in_cars[m] BY <2>4 DEF ArrivePut, OInv, IInv, TypeOK
    <3> QED BY <2>1, <2>2, <3>1, <3>2
  <2> QED BY <2>3, <2>4
<1> QED BY <1>1, <1>2 DEF OInv, NoOvertaking

(* car_cross takes the first car of the queue and prints it after those that *)
(* crossed before.                                                           *)
LEMMA CrossMoveOrder ==
    ASSUME OInv, IInv', NEW l \in Lanes, main = "join", CrossMove(l)
    PROVE  OInv'
<1>1. AllRead' BY DEF OInv, AllRead, CrossMove
<1>2. ASSUME NEW m \in Lanes
      PROVE  printed'[m] \o Queued(m)' \o in_cars'[m] = Reverse(Lines(m)'[line'])
  <2>1. Lines(m)' = Lines(m) /\ line' = line /\ in_cars' = in_cars BY DEF CrossMove, Lines
  <2>2. printed[m] \o Queued(m) \o in_cars[m] = Reverse(Lines(m)[line])
    BY DEF OInv, NoOvertaking
  <2>3. CASE m = l
    <3> DEFINE c == NextCar(l)  q == Queued(l)'  r == printed[l]
    <3>1. c \in Car /\ q \in Seq(Car) /\ Queued(l) = <<c>> \o q
      BY CrossMoveQueue DEF OInv
    <3>2. printed'[l] = Append(r, c) BY DEF CrossMove, OInv, IInv, TypeOK
    <3>3. in_cars[l] \in Seq(Car) /\ printed[l] \in Seq(Car) BY DEF OInv, IInv, TypeOK
    <3>4. r \in Seq(Car) BY <3>3
    <3>5. <<c>> \in Seq(Car) BY <3>1
    <3> HIDE DEF c, q, r
    <3>6. Append(r, c) = r \o <<c>> BY <3>1, <3>4, AppendIsConcat
    <3>7. (r \o <<c>>) \o q = r \o (<<c>> \o q) BY <3>1, <3>4, <3>5, ConcatAssociative
    <3>8. printed'[l] \o q = r \o Queued(l) BY <3>1, <3>2, <3>6, <3>7
    <3> QED BY <2>1, <2>2, <2>3, <3>8 DEF q, r
  <2>4. CASE m # l
    <3>1. Queued(m)' = Queued(m) BY <2>4, CrossMoveQueue DEF OInv
    <3>2. printed'[m] = printed[m] BY <2>4 DEF CrossMove, OInv, IInv, TypeOK
    <3> QED BY <2>1, <2>2, <3>1, <3>2
  <2> QED BY <2>3, <2>4
<1> QED BY <1>1, <1>2 DEF OInv, NoOvertaking

(* At the start nothing is read. *)
LEMMA InitOrder == Init => OInv
<1> SUFFICES ASSUME Init PROVE OInv
  OBVIOUS
<1>1. IInv BY InitIInv
<1>2. AllRead BY DEF Init, AllRead
<1>3. ASSUME NEW l \in Lanes
      PROVE  printed[l] \o Queued(l) \o in_cars[l] = Reverse(Lines(l)[line])
  <2>1. printed[l] = <<>> /\ in_cars[l] = <<>> /\ line = 0 /\ in_buf[l] = 0 BY DEF Init
  <2>2. Queued(l) = <<>>
    <3>1. Queued(l) \in Seq(Car) /\ Len(Queued(l)) = 0
      BY <1>1, <2>1, QueueFromRing DEF QueueInRing
    <3> QED BY <3>1, EmptySeq
  <2>3. Lines(l)[0] = <<>>
    <3>1. file \in Seq(Car) BY <1>1, FileOfCars DEF IInv
    <3>2. 0 \in 0..Len(file) BY <3>1, LenProperties
    <3>3. Lines(l)[0] = Extended(Lines(l), 0, l) BY <3>1, <3>2, LinesDefined
    <3> QED BY <3>3 DEF Extended
  <2>4. Reverse(<<>>) = <<>>
    <3>1. <<>> \in Seq(Car) /\ Len(<<>>) = 0 OBVIOUS
    <3>2. Reverse(<<>>) \in Seq(Car) /\ Len(Reverse(<<>>)) = 0 BY <3>1, ReverseType
    <3> QED BY <3>2, EmptySeq
  <2>5. <<>> \o <<>> = <<>> BY ConcatEmptySeq, EmptySeq
  <2> QED BY <2>1, <2>2, <2>3, <2>4, <2>5
<1> QED BY <1>1, <1>2, <1>3 DEF OInv, NoOvertaking

(* Every step keeps the order. *)
LEMMA NextOrder == OInv /\ [Next]_vars => OInv'
<1> SUFFICES ASSUME OInv, [Next]_vars PROVE OInv'
  OBVIOUS
<1>1. IInv' BY NextIInv DEF OInv
<1>2. ASSUME UNCHANGED <<file, line, in_cars, printed, buffer, tail, in_buf>>, AllRead' PROVE OInv'
  BY <1>1, <1>2, Unmoved DEF OInv
<1>3. CASE MainStep
  <2>1. CASE ParseLine BY <1>1, <2>1, ParseLineOrder
  <2>2. CASE SpawnThreads \/ Verify
    <3>1. UNCHANGED <<file, line, in_cars, printed, buffer, tail, in_buf>> /\ AllRead'
      BY <2>2 DEF OInv, AllRead, SpawnThreads, Verify, laneData
    <3> QED BY <1>2, <3>1
  <2> QED BY <1>3, <2>1, <2>2 DEF MainStep
<1>4. ASSUME NEW l \in Lanes, ArriveStep(l) PROVE OInv'
  <2>1. CASE ArrivePut(l) BY <1>1, <1>4, <2>1, ArrivePutOrder DEF ArriveStep
  <2>2. CASE ArriveLock(l) \/ ArriveExit(l) \/ ArriveWait(l)
    <3>1. UNCHANGED <<file, line, main, in_cars, printed, buffer, tail, in_buf>>
      BY <2>2 DEF ArriveLock, ArriveExit, ArriveWait, laneData
    <3> QED BY <1>2, <3>1 DEF OInv, AllRead
  <2> QED BY <1>4, <2>1, <2>2 DEF ArriveStep
<1>5. ASSUME NEW l \in Lanes, CrossStep(l) PROVE OInv'
  <2>1. CASE CrossMove(l) BY <1>1, <1>5, <2>1, CrossMoveOrder DEF CrossStep
  <2>2. CASE \/ CrossLock(l) \/ CrossExit(l) \/ CrossWait(l) \/ CrossPath(l) \/ CrossAcquire(l)
             \/ CrossRelease(l) \/ CrossSignal(l) \/ CrossFree(l)
    <3>1. UNCHANGED <<file, line, main, in_cars, printed, buffer, tail, in_buf>>
      BY <2>2 DEF CrossLock, CrossExit, CrossWait, CrossPath, CrossAcquire, CrossRelease,
             CrossSignal, CrossFree, laneData
    <3> QED BY <1>2, <3>1 DEF OInv, AllRead
  <2> QED BY <1>5, <2>1, <2>2 DEF CrossStep
<1>6. ASSUME NEW l \in Lanes, SpuriousWakeup(l) PROVE OInv'
  <2>1. UNCHANGED <<file, line, main, in_cars, printed, buffer, tail, in_buf>>
    BY <1>6 DEF SpuriousWakeup, laneData
  <2> QED BY <1>2, <2>1 DEF OInv, AllRead
<1>7. CASE Terminated \/ UNCHANGED vars
  <2>1. UNCHANGED <<file, line, main, in_cars, printed, buffer, tail, in_buf>>
    BY <1>7 DEF Terminated, vars, laneData
  <2> QED BY <1>2, <2>1 DEF OInv, AllRead
<1> QED BY <1>3, <1>4, <1>5, <1>6, <1>7 DEF Next

(* The order of the cars and what it rests on hold in every reachable state. *)
THEOREM OInvHolds == Spec => []OInv
  BY InitOrder, NextOrder, PTL DEF Spec

(* No car is lost, duplicated or overtaken, from the schedule through in_cars *)
(* and the ring across (cars.c, parse_schedule, car_arrive, car_cross).       *)
THEOREM NoOvertakingHolds == Spec => []NoOvertaking
<1>1. OInv => NoOvertaking BY DEF OInv
<1> QED BY <1>1, OInvHolds, PTL

-----------------------------------------------------------------------------
(* The monitor implements the intersection. *)

Waiting == [l \in Lanes |-> IF main = "parse" THEN Reverse(Scheduled(l)) ELSE in_cars[l]]
Queue   == [l \in Lanes |-> Queued(l)]
Inside  == {l \in Lanes : cross[l] = "acquire" /\ todo[l] = {}}

(* Every path has a quadrant in it. *)
LEMMA PathNotEmpty ==
    ASSUME NEW car \in Car
    PROVE  compute_path(car.in_dir, car.out_dir) # {}
<1> DEFINE i == car.in_dir  o == car.out_dir
           first == ((i + 1) % 4) + 1  count == (o + 6 - first) % 4
<1>1. i \in {0, 1, 2, 3} /\ o \in {0, 1, 2, 3}
  <2>1. car.in_dir \in Direction /\ car.out_dir \in Direction BY LanesAssumption DEF Car
  <2> QED BY <2>1 DEF Direction
<1>2. CASE i = o
  <2>0. car.in_dir = car.out_dir BY <1>2
  <2>1. compute_path(car.in_dir, car.out_dir) = Quadrant
    <3> HIDE DEF first, count, i, o
    <3> QED BY <2>0 DEF compute_path
  <2>2. 1 \in Quadrant BY DEF Quadrant
  <2> QED BY <2>1, <2>2
<1>3. CASE i # o
  <2>1. compute_path(i, o) = Sweep(first, count) BY <1>3 DEF compute_path
  <2> HIDE DEF i, o
  <2>2. count \in 1..3
    <3>1. CASE i = 0 BY <1>1, <1>3, <3>1
    <3>2. CASE i = 1 BY <1>1, <1>3, <3>2
    <3>3. CASE i = 2 BY <1>1, <1>3, <3>3
    <3>4. CASE i = 3 BY <1>1, <1>3, <3>4
    <3> QED BY <1>1, <3>1, <3>2, <3>3, <3>4
  <2> HIDE DEF first, count
  <2>3. 0 \in 0..count - 1 BY <2>2
  <2>4. ((first - 1 + 0) % 4) + 1 \in Sweep(first, count) BY <2>3 DEF Sweep
  <2> QED BY <2>1, <2>4 DEF i, o
<1> QED BY <1>2, <1>3

(* The cars of the schedule wait, and nothing else is there. *)
LEMMA InitRefines == Init => Abstract!Init
<1> SUFFICES ASSUME Init PROVE Abstract!Init
  OBVIOUS
<1>1. OInv BY InitOrder
<1>2. file \in Seq(Car) BY <1>1, FileOfCars DEF OInv, IInv
<1>3. ASSUME NEW l \in Lanes
      PROVE  /\ Waiting[l] \in Seq(Car)
             /\ \A i \in DOMAIN Waiting[l] : Waiting[l][i].in_dir = l
  <2>1. Waiting[l] = Reverse(Scheduled(l)) BY DEF Waiting, Init
  <2>2. Scheduled(l) \in Seq(CarsIn(l))
    <3>1. Len(file) \in 0..Len(file) BY <1>2, LenProperties
    <3> QED BY <1>2, <3>1, LinesAreCars DEF Scheduled
  <2>3. Waiting[l] \in Seq(CarsIn(l)) BY <2>1, <2>2, ReverseType
  <2>4. CarsIn(l) \subseteq Car BY DEF CarsIn
  <2>5. Waiting[l] \in Seq(Car) BY <2>3, <2>4, SeqMonotonic
  <2>6. ASSUME NEW i \in DOMAIN Waiting[l] PROVE Waiting[l][i] \in CarsIn(l)
    <3>1. i \in 1..Len(Waiting[l]) BY <2>3, LenProperties
    <3> QED BY <2>3, <3>1, ElementOfSeq
  <2> QED BY <2>5, <2>6 DEF CarsIn
<1>4. Waiting \in [Lanes -> Seq(Car)] BY <1>3 DEF Waiting
<1>5. \A l \in Lanes : Queued(l) = <<>>
  <2> SUFFICES ASSUME NEW l \in Lanes PROVE Queued(l) = <<>>
    OBVIOUS
  <2>1. in_buf[l] = 0 BY DEF Init
  <2>2. Queued(l) \in Seq(Car) /\ Len(Queued(l)) = 0
    BY <1>1, <2>1, QueueFromRing DEF QueueInRing, OInv
  <2> QED BY <2>2, EmptySeq
<1>6. Queue = [l \in Lanes |-> <<>>] BY <1>5 DEF Queue
<1>7. printed = [l \in Lanes |-> <<>>] /\ Inside = {} BY DEF Init, Inside
<1> QED BY <1>3, <1>4, <1>6, <1>7 DEF Abstract!Init, Waiting, Queue, Inside

(* What the intersection sees of a step. *)
Unseen == Waiting' = Waiting /\ Queue' = Queue /\ printed' = printed /\ Inside' = Inside

(* Where nothing of the intersection changes, it stutters. *)
LEMMA UnseenStutters == Unseen => UNCHANGED Abstract!absVars
  BY DEF Unseen, Abstract!absVars, Waiting, Queue, Inside

(* A step that moves no car to or from the road, nor any on a list or ring. *)
LEMMA UnmovedUnseen ==
    ASSUME OInv, UNCHANGED <<file, line, main, in_cars, printed, buffer, tail, in_buf>>,
           Inside' = Inside
    PROVE  Unseen
<1>1. \A l \in Lanes : Queued(l)' = Queued(l) BY Unmoved
<1>2. Queue' = Queue BY <1>1 DEF Queue
<1>3. \A l \in Lanes : Scheduled(l)' = Scheduled(l)
  <2> SUFFICES ASSUME NEW l \in Lanes PROVE Scheduled(l)' = Scheduled(l)
    OBVIOUS
  <2> QED BY DEF Scheduled, Lines
<1>4. Waiting' = Waiting BY <1>3 DEF Waiting
<1> QED BY <1>2, <1>4 DEF Unseen

(* While the file is read nothing is to be seen, and then in_cars is its order. *)
LEMMA MainRefines ==
    ASSUME OInv, OInv', MainStep
    PROVE  Unseen
<1>1. CASE ParseLine
  <2>1. \A l \in Lanes : Scheduled(l)' = Scheduled(l)
    <3> SUFFICES ASSUME NEW l \in Lanes PROVE Scheduled(l)' = Scheduled(l)
      OBVIOUS
    <3> QED BY <1>1 DEF Scheduled, Lines, ParseLine
  <2>2. \A l \in Lanes : Queued(l)' = Queued(l) BY <1>1 DEF Queued, ParseLine
  <2>3. main = "parse" /\ main' = "parse" /\ printed' = printed /\ cross' = cross /\ todo' = todo
    BY <1>1 DEF ParseLine
  <2> QED BY <2>1, <2>2, <2>3 DEF Unseen, Waiting, Queue, Inside
<1>2. CASE SpawnThreads
  <2>1. UNCHANGED <<file, line, in_cars, printed, buffer, tail, in_buf, cross, todo>>
        /\ main = "parse" /\ main' = "join" /\ line = Len(file)
    BY <1>2 DEF SpawnThreads, laneData
  <2>2. \A l \in Lanes : Queued(l)' = Queued(l) BY <2>1, Unmoved
  <2>3. ASSUME NEW l \in Lanes PROVE in_cars[l] = Reverse(Scheduled(l))
    <3>1. printed[l] \o Queued(l) \o in_cars[l] = Reverse(Scheduled(l))
      BY <2>1 DEF OInv, NoOvertaking, Scheduled
    <3>2. Queued(l) = <<>>
      <4>1. Queued(l) \in Seq(Car) /\ Len(Queued(l)) = 0
        BY <2>1, QueueFromRing DEF QueueInRing, OInv, IInv, NotStarted
      <4> QED BY <4>1, EmptySeq
    <3>3. printed[l] = <<>> BY <2>1 DEF OInv, AllRead
    <3>4. <<>> \o <<>> = <<>> BY ConcatEmptySeq, EmptySeq
    <3>5. in_cars[l] \in Seq(Car) BY DEF OInv, IInv, TypeOK
    <3>6. <<>> \o in_cars[l] = in_cars[l] BY <3>5, ConcatEmptySeq
    <3> QED BY <3>1, <3>2, <3>3, <3>4, <3>6
  <2>4. Waiting' = Waiting
    <3>1. Waiting' = [l \in Lanes |-> in_cars[l]] BY <2>1 DEF Waiting
    <3>2. Waiting = [l \in Lanes |-> Reverse(Scheduled(l))] BY <2>1 DEF Waiting
    <3> QED BY <2>3, <3>1, <3>2
  <2> QED BY <2>1, <2>2, <2>4 DEF Unseen, Queue, Inside
<1>3. CASE Verify
  <2>1. UNCHANGED <<file, line, in_cars, printed, buffer, tail, in_buf, cross, todo>>
        /\ main = "join" /\ main' = "verified"
    BY <1>3 DEF Verify, laneData
  <2>2. \A l \in Lanes : Queued(l)' = Queued(l) BY <2>1, Unmoved
  <2>3. Waiting = [l \in Lanes |-> in_cars[l]] /\ Waiting' = [l \in Lanes |-> in_cars'[l]]
    BY <2>1 DEF Waiting
  <2> QED BY <2>1, <2>2, <2>3 DEF Unseen, Queue, Inside
<1> QED BY <1>1, <1>2, <1>3 DEF MainStep

(* ArrivePut is Arrive of the intersection. *)
LEMMA ArrivePutRefines ==
    ASSUME OInv, IInv', NEW l \in Lanes, main = "join", ArrivePut(l)
    PROVE  Abstract!Arrive(l)
<1>1. /\ in_cars[l] # <<>> /\ Len(Queued(l)) < LANE_LENGTH
      /\ Queued(l)' = Append(Queued(l), Head(in_cars[l]))
      /\ \A m \in Lanes \ {l} : Queued(m)' = Queued(m)
  BY ArrivePutQueue DEF OInv
<1>2. Waiting = [m \in Lanes |-> in_cars[m]] /\ Waiting' = [m \in Lanes |-> in_cars'[m]]
  BY DEF Waiting, ArrivePut
<1>3. Waiting' = [Waiting EXCEPT ![l] = Tail(@)]
  <2>1. in_cars' = [in_cars EXCEPT ![l] = Tail(@)] /\ in_cars \in [Lanes -> Seq(Car)]
    BY DEF ArrivePut, OInv, IInv, TypeOK
  <2> QED BY <1>2, <2>1
<1>4. Queue' = [Queue EXCEPT ![l] = Append(@, Head(Waiting[l]))]
  BY <1>1, <1>2 DEF Queue
<1>5. printed' = printed BY DEF ArrivePut
<1>6. Inside' = Inside
  <2>1. \A m \in Lanes : cross'[m] = "acquire" <=> cross[m] = "acquire"
    <3>1. cross' = [cross EXCEPT ![l] = Signal(@)] BY DEF ArrivePut
    <3>2. cross \in [Lanes -> CrossAt] BY DEF OInv, IInv, TypeOK
    <3>3. \A m \in Lanes : cross'[m] = IF m = l THEN Signal(cross[l]) ELSE cross[m] BY <3>1, <3>2
    <3> QED BY <3>3 DEF Signal
  <2>2. todo' = todo BY DEF ArrivePut
  <2> QED BY <2>1, <2>2 DEF Inside
<1>7. Waiting[l] = in_cars[l] /\ Queue[l] = Queued(l) BY <1>2 DEF Queue
<1> QED BY <1>1, <1>3, <1>4, <1>5, <1>6, <1>7 DEF Abstract!Arrive, Waiting, Queue, Inside

(* CrossMove is Leave. *)
LEMMA CrossMoveRefines ==
    ASSUME OInv, IInv', NEW l \in Lanes, main = "join", CrossMove(l)
    PROVE  Abstract!Leave(l)
<1> DEFINE c == NextCar(l)  q == Queued(l)'
<1>1. /\ c \in Car /\ q \in Seq(Car) /\ Queued(l) = <<c>> \o q
      /\ \A m \in Lanes \ {l} : Queued(m)' = Queued(m)
  BY CrossMoveQueue DEF OInv
<1>2. Head(Queued(l)) = c /\ Tail(Queued(l)) = q
  <2> HIDE DEF c, q
  <2> QED BY <1>1
<1>3. Queue[l] = Queued(l) BY DEF Queue
<1>4. Queue' = [Queue EXCEPT ![l] = Tail(@)]
  <2>1. Queue = [m \in Lanes |-> Queued(m)] /\ Queue' = [m \in Lanes |-> Queued(m)'] BY DEF Queue
  <2>2. Queued(l)' = Tail(Queued(l)) BY <1>2
  <2> QED BY <1>1, <2>1, <2>2
<1>5. printed' = [printed EXCEPT ![l] = Append(@, Head(Queue[l]))]
  <2>1. printed' = [printed EXCEPT ![l] = Append(@, c)] BY DEF CrossMove
  <2>2. Head(Queue[l]) = c BY <1>2, <1>3
  <2> HIDE DEF c, q
  <2> QED BY <2>1, <2>2
<1>6. Waiting' = Waiting
  <2>1. Waiting = [m \in Lanes |-> in_cars[m]] /\ Waiting' = [m \in Lanes |-> in_cars'[m]]
    BY DEF Waiting, CrossMove
  <2>2. in_cars' = in_cars BY DEF CrossMove
  <2> QED BY <2>1, <2>2
<1>7. l \in Inside BY DEF CrossMove, Inside
<1>8. Inside' = Inside \ {l}
  <2>1. cross'[l] = "release" /\ \A m \in Lanes \ {l} : cross'[m] = cross[m] /\ todo'[m] = todo[m]
    BY DEF CrossMove, OInv, IInv, TypeOK
  <2> QED BY <2>1 DEF Inside
<1> QED BY <1>4, <1>5, <1>6, <1>7, <1>8 DEF Abstract!Leave, Waiting, Queue, Inside

(* CrossAcquire of the last quadrant is Enter, and no other step is seen. *)
LEMMA CrossAcquireRefines ==
    ASSUME OInv, IInv', NEW l \in Lanes, main = "join", CrossAcquire(l)
    PROVE  Unseen \/ Abstract!Enter(l)
<1>1. UNCHANGED <<file, line, main, in_cars, printed, buffer, tail, in_buf, cross>>
  BY DEF CrossAcquire, laneData
<1>2. cross[l] = "acquire" /\ todo[l] # {} /\ \A m \in Lanes \ {l} : todo'[m] = todo[m]
  BY DEF CrossAcquire, OInv, IInv, TypeOK
<1>3. CASE todo'[l] # {}
  <2>1. Inside' = Inside BY <1>1, <1>2, <1>3 DEF Inside
  <2> QED BY <1>1, <2>1, UnmovedUnseen
<1>4. CASE todo'[l] = {}
  <2>1. l \notin Inside /\ Inside' = Inside \cup {l} BY <1>1, <1>2, <1>4 DEF Inside
  <2>2. \A m \in Lanes : Queued(m)' = Queued(m) BY <1>1, Unmoved
  <2>3. Queue' = Queue BY <2>2 DEF Queue
  <2>4. Waiting' = Waiting
    <3>1. \A m \in Lanes : main # "parse" /\ main' # "parse" BY <1>1
    <3> QED BY <1>1, <3>1 DEF Waiting
  <2>5. ASSUME NEW m \in Lanes, cross[m] = "acquire"
        PROVE  Queue[m] # <<>> /\ Head(Queue[m]) = NextCar(m)
    <3>1. in_buf[m] \in Nat \ {0}
      <4>1. in_buf[m] \in 0..LANE_LENGTH /\ in_buf[m] # 0
        BY <2>5 DEF OInv, IInv, TypeOK, LaneProgress, Empty
      <4> QED BY <4>1, LengthAssumption
    <3>2. Queued(m) \in Seq(Car) /\ Len(Queued(m)) = in_buf[m] /\ Queued(m)[1] = buffer[m][Slot(m, 1 - 1)]
      BY <3>1, QueueFromRing DEF OInv, QueueInRing
    <3>3. Slot(m, 1 - 1) = tail[m]
      <4>1. tail[m] \in 0..LANE_LENGTH - 1 BY DEF OInv, IInv, TypeOK
      <4> QED BY <4>1, LengthAssumption DEF Slot
    <3>4. Queue[m] = Queued(m) BY DEF Queue
    <3> QED BY <3>1, <3>2, <3>3, <3>4 DEF NextCar
  <2>6. \A k \in Inside : Abstract!Footprint(Head(Queue[l])) \cap Abstract!Footprint(Head(Queue[k])) = {}
    <3> SUFFICES ASSUME NEW k \in Inside
                 PROVE  Abstract!Footprint(Head(Queue[l])) \cap Abstract!Footprint(Head(Queue[k])) = {}
      OBVIOUS
    <3>1. k \in Lanes /\ k # l /\ cross[k] = "acquire" /\ todo[k] = {} BY <2>1 DEF Inside
    <3>2. NoCollision' BY IInvNoCollision, PTL
    <3>3. OnRoad(l)' /\ OnRoad(k)' BY <1>1, <1>2, <1>4, <3>1 DEF OnRoad
    <3>4. RoadCar(l)' = NextCar(l) /\ RoadCar(k)' = NextCar(k)
      BY <1>1, <1>2, <3>1 DEF RoadCar, NextCar
    <3>5. \A m, j \in Lanes : m # j /\ OnRoad(m)' /\ OnRoad(j)' =>
              Abstract!Footprint(RoadCar(m)') \cap Abstract!Footprint(RoadCar(j)') = {}
      BY <3>2 DEF NoCollision
    <3>6. Abstract!Footprint(RoadCar(l)') \cap Abstract!Footprint(RoadCar(k)') = {}
      BY <3>1, <3>3, <3>5
    <3>7. Head(Queue[l]) = RoadCar(l)' /\ Head(Queue[k]) = RoadCar(k)' BY <1>2, <2>5, <3>1, <3>4
    <3> QED BY <3>6, <3>7
  <2>7. Queue[l] # <<>> BY <1>2, <2>5
  <2> QED BY <1>1, <2>1, <2>3, <2>4, <2>6, <2>7 DEF Abstract!Enter, Waiting, Queue, Inside
<1> QED BY <1>3, <1>4

(* The steps of the threads of a lane. *)
LEMMA ThreadRefines ==
    ASSUME OInv, IInv', NEW l \in Lanes, ArriveStep(l) \/ CrossStep(l) \/ SpuriousWakeup(l)
    PROVE  Unseen \/ Abstract!Next
<1>1. ASSUME UNCHANGED <<file, line, main, in_cars, printed, buffer, tail, in_buf>>, Inside' = Inside
      PROVE  Unseen
  BY <1>1, UnmovedUnseen
<1>2. cross \in [Lanes -> CrossAt] /\ todo \in [Lanes -> SUBSET Quadrant] /\ buffer \in [Lanes -> [0..(LANE_LENGTH - 1) -> Car \cup {NULL}]]
  BY DEF OInv, IInv, TypeOK
<1>3. CASE ArriveStep(l)
  <2>1. CASE ArrivePut(l) BY <1>3, <2>1, ArrivePutRefines DEF ArriveStep, Abstract!Next
  <2>2. CASE ArriveLock(l) \/ ArriveExit(l) \/ ArriveWait(l)
    <3>1. UNCHANGED <<file, line, main, in_cars, printed, buffer, tail, in_buf, cross, todo>>
      BY <2>2 DEF ArriveLock, ArriveExit, ArriveWait, laneData
    <3> QED BY <1>1, <3>1 DEF Inside
  <2> QED BY <1>3, <2>1, <2>2 DEF ArriveStep
<1>4. CASE CrossStep(l)
  <2>0. main = "join" BY <1>4 DEF CrossStep
  <2>1. CASE CrossMove(l) BY <2>0, <2>1, CrossMoveRefines DEF Abstract!Next
  <2>2. CASE CrossAcquire(l) BY <2>0, <2>2, CrossAcquireRefines DEF Abstract!Next
  <2>3. CASE CrossPath(l)
    <3>1. UNCHANGED <<file, line, main, in_cars, printed, buffer, tail, in_buf>>
      BY <2>3 DEF CrossPath, laneData
    <3>2. cross[l] # "acquire" /\ todo'[l] = compute_path(NextCar(l).in_dir, NextCar(l).out_dir)
          /\ \A m \in Lanes \ {l} : cross'[m] = cross[m] /\ todo'[m] = todo[m]
      BY <1>2, <2>3 DEF CrossPath
    <3>3. NextCar(l) \in Car BY <2>3, NextCarIsCar DEF CrossPath, OInv
    <3>4. todo'[l] # {} BY <3>2, <3>3, PathNotEmpty
    <3>5. Inside' = Inside BY <3>2, <3>4 DEF Inside
    <3> QED BY <1>1, <3>1, <3>5
  <2>4. CASE CrossLock(l) \/ CrossExit(l) \/ CrossWait(l) \/ CrossRelease(l) \/ CrossSignal(l) \/ CrossFree(l)
    <3>1. UNCHANGED <<file, line, main, in_cars, printed, buffer, tail, in_buf>>
      BY <2>4 DEF CrossLock, CrossExit, CrossWait, CrossRelease, CrossSignal, CrossFree, laneData
    <3>2. cross[l] # "acquire" /\ cross'[l] # "acquire"
          /\ \A m \in Lanes \ {l} : cross'[m] = cross[m] /\ todo'[m] = todo[m]
      BY <1>2, <2>4 DEF CrossLock, CrossExit, CrossWait, CrossRelease, CrossSignal, CrossFree
    <3>3. Inside' = Inside BY <3>2 DEF Inside
    <3> QED BY <1>1, <3>1, <3>3
  <2> QED BY <1>4, <2>1, <2>2, <2>3, <2>4 DEF CrossStep
<1>5. CASE SpuriousWakeup(l)
  <2>1. UNCHANGED <<file, line, main, in_cars, printed, buffer, tail, in_buf, todo>>
    BY <1>5 DEF SpuriousWakeup, laneData
  <2>2. \A m \in Lanes : cross'[m] = "acquire" <=> cross[m] = "acquire"
    BY <1>2, <1>5 DEF SpuriousWakeup
  <2>3. Inside' = Inside BY <2>1, <2>2 DEF Inside
  <2> QED BY <1>1, <2>1, <2>3
<1> QED BY <1>3, <1>4, <1>5

(* The steps of all threads. *)
LEMMA NextRefines ==
    ASSUME OInv, OInv', [Next]_vars
    PROVE  [Abstract!Next]_Abstract!absVars
<1>0. IInv' BY DEF OInv
<1>1. CASE MainStep BY <1>1, MainRefines, UnseenStutters
<1>2. ASSUME NEW l \in Lanes, ArriveStep(l) \/ CrossStep(l) \/ SpuriousWakeup(l)
      PROVE  [Abstract!Next]_Abstract!absVars
  BY <1>0, <1>2, ThreadRefines, UnseenStutters
<1>3. CASE Terminated \/ UNCHANGED vars
  <2>1. UNCHANGED <<file, line, main, in_cars, printed, buffer, tail, in_buf, cross, todo>>
    BY <1>3 DEF Terminated, vars, laneData
  <2>2. Inside' = Inside BY <2>1 DEF Inside
  <2> QED BY <2>1, <2>2, UnmovedUnseen, UnseenStutters
<1> QED BY <1>1, <1>2, <1>3 DEF Next

(* Every step of every thread of the monitor is a step of the intersection, *)
(* or is not seen there (cars.c, traffic.c).                                *)
THEOREM ImplementsIntersectionHolds == Spec => ImplementsIntersection
<1>1. Init => Abstract!Init BY InitRefines
<1>2. OInv /\ OInv' /\ [Next]_vars => [Abstract!Next]_Abstract!absVars BY NextRefines
<1> QED BY <1>1, <1>2, OInvHolds, PTL DEF Spec, ImplementsIntersection, Abstract!Spec

=============================================================================
