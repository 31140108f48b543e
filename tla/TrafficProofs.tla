--------------------------- MODULE TrafficProofs ---------------------------
(***************************************************************************)
(* Safety of the traffic monitor for every set of lanes, every length of   *)
(* the ring and every schedule: type correctness, consistency of the ring, *)
(* no lost wakeup, no use after free, no collision and no deadlock.        *)
(*                                                                         *)
(* All of them follow from IInv of Traffic, whose parts need each other:   *)
(* a car at tail is a car because the ring is filled, the path is that of  *)
(* the car because the mutex of the lane is held, quadrants are exclusive  *)
(* because of the path.  One lemma per action shows that it preserves IInv,*)
(* with one step per part.                                                 *)
(***************************************************************************)
EXTENDS Traffic, TLAPS

-----------------------------------------------------------------------------
(* Arithmetic of the ring: one wrap is enough. *)
LEMMA ModWrap ==
    ASSUME NEW L \in Nat \ {0}, NEW i \in 0..(2 * L - 1)
    PROVE  i % L = IF i < L THEN i ELSE i - L
  BY SMT

(* head and tail advance by one or wrap to zero (cars.c, lines 119 and 191). *)
LEMMA AdvanceWraps ==
    ASSUME NEW i \in 0..(LANE_LENGTH - 1)
    PROVE  Advance(i) = IF i + 1 = LANE_LENGTH THEN 0 ELSE i + 1
<1> DEFINE j == i + 1
<1>1. j \in 0..(2 * LANE_LENGTH - 1) BY LengthAssumption
<1>2. j % LANE_LENGTH = IF j < LANE_LENGTH THEN j ELSE j - LANE_LENGTH
  BY <1>1, ModWrap, LengthAssumption
<1> QED BY <1>2, LengthAssumption DEF Advance

(* compute_path names quadrants. *)
LEMMA PathInQuadrants ==
    ASSUME NEW i \in Direction, NEW o \in Direction
    PROVE  compute_path(i, o) \subseteq Quadrant
  BY DEF compute_path, Sweep, Direction, Quadrant

(* compute_path is right: for every route it returns exactly the quadrants the *)
(* rules of the road give, by each of the sixteen routes.                      *)
LEMMA PathIsFootprint ==
    ASSUME NEW car, car.in_dir \in Direction, car.out_dir \in Direction
    PROVE  compute_path(car.in_dir, car.out_dir) = Abstract!Footprint(car)
<1> DEFINE i == car.in_dir  o == car.out_dir
<1>0. i \in {0,1,2,3} /\ o \in {0,1,2,3} BY DEF Direction
<1> USE DEF compute_path, Sweep, Quadrant, Abstract!Footprint, Abstract!EntryQuadrant, Abstract!NextQuadrant
<1>1. CASE i = 0
  <2>1. CASE o = 0 BY <1>1, <2>1
  <2>2. CASE o = 1 BY <1>1, <2>2
  <2>3. CASE o = 2 BY <1>1, <2>3
  <2>4. CASE o = 3 BY <1>1, <2>4
  <2> QED BY <1>0, <2>1, <2>2, <2>3, <2>4
<1>2. CASE i = 1
  <2>1. CASE o = 0 BY <1>2, <2>1
  <2>2. CASE o = 1 BY <1>2, <2>2
  <2>3. CASE o = 2 BY <1>2, <2>3
  <2>4. CASE o = 3 BY <1>2, <2>4
  <2> QED BY <1>0, <2>1, <2>2, <2>3, <2>4
<1>3. CASE i = 2
  <2>1. CASE o = 0 BY <1>3, <2>1
  <2>2. CASE o = 1 BY <1>3, <2>2
  <2>3. CASE o = 2 BY <1>3, <2>3
  <2>4. CASE o = 3 BY <1>3, <2>4
  <2> QED BY <1>0, <2>1, <2>2, <2>3, <2>4
<1>4. CASE i = 3
  <2>1. CASE o = 0 BY <1>4, <2>1
  <2>2. CASE o = 1 BY <1>4, <2>2
  <2>3. CASE o = 2 BY <1>4, <2>3
  <2>4. CASE o = 3 BY <1>4, <2>4
  <2> QED BY <1>0, <2>1, <2>2, <2>3, <2>4
<1> QED BY <1>0, <1>1, <1>2, <1>3, <1>4

(* The next quadrant of a sorted path is its least. *)
LEMMA NextQuadIsLeast ==
    ASSUME NEW l \in Lanes, todo[l] \subseteq Quadrant, todo[l] # {}
    PROVE  /\ NextQuad(l) \in todo[l]
           /\ \A p \in todo[l] : NextQuad(l) <= p
<1>1. \E q \in todo[l] : \A p \in todo[l] : q <= p BY DEF Quadrant
<1> QED BY <1>1 DEF NextQuad

(* A ring that is not empty has a car at tail. *)
LEMMA NextCarIsCar ==
    ASSUME IInv, NEW l \in Lanes, ~Empty(l)
    PROVE  NextCar(l) \in Car
<1>1. in_buf[l] > 0 BY DEF IInv, TypeOK, Empty
<1>2. Slot(l, 0) = tail[l] BY LengthAssumption DEF IInv, TypeOK, Slot
<1>3. buffer[l][Slot(l, 0)] # NULL BY <1>1, LengthAssumption DEF IInv, RingFilled
<1>4. buffer[l] \in [0..(LANE_LENGTH - 1) -> Car \cup {NULL}] /\ tail[l] \in 0..(LANE_LENGTH - 1)
  BY DEF IInv, TypeOK
<1> QED BY <1>2, <1>3, <1>4 DEF NextCar

-----------------------------------------------------------------------------
(* ArriveLock preserves the invariant. *)
LEMMA ArriveLockStep ==
    ASSUME IInv, NEW l \in Lanes, main = "join", ArriveLock(l)
    PROVE  IInv'
<1>1. TypeOK'
  BY DEF IInv, TypeOK, ArriveLock, laneData, ArriveAt, CrossAt
<1>2. NotStarted'
  BY DEF IInv, TypeOK, ArriveLock, laneData, NotStarted
<1>3. LockHeld'
  BY DEF IInv, TypeOK, ArriveLock, laneData, LockHeld
<1>4. RingFilled'
  BY DEF IInv, TypeOK, ArriveLock, laneData, RingFilled, Slot
<1>5. LaneProgress'
  BY SMTT(30) DEF IInv, TypeOK, ArriveLock, laneData, LaneProgress, NoLostWakeup, LockHeld,
         Empty, Full
<1>6. QuadsHeld'
  BY SMTT(60) DEF IInv, TypeOK, ArriveLock, laneData, QuadsHeld, LockHeld, Held, Unowned
<1>7. PathOfCar'
  BY DEF IInv, TypeOK, ArriveLock, laneData, PathOfCar, LockHeld, RoadCar, NextCar
<1>8. NoLostWakeup'
  BY SMTT(60) DEF IInv, TypeOK, ArriveLock, laneData, NoLostWakeup, LaneProgress, LockHeld,
         Empty, Full
<1> QED BY <1>1, <1>2, <1>3, <1>4, <1>5, <1>6, <1>7, <1>8 DEF IInv

(* ArriveExit preserves the invariant. *)
LEMMA ArriveExitStep ==
    ASSUME IInv, NEW l \in Lanes, main = "join", ArriveExit(l)
    PROVE  IInv'
<1>1. TypeOK'
  BY DEF IInv, TypeOK, ArriveExit, laneData, AllArrived, ArriveAt, CrossAt
<1>2. NotStarted'
  BY DEF IInv, TypeOK, ArriveExit, laneData, AllArrived, NotStarted
<1>3. LockHeld'
  BY DEF IInv, TypeOK, ArriveExit, laneData, AllArrived, LockHeld
<1>4. RingFilled'
  BY DEF IInv, TypeOK, ArriveExit, laneData, AllArrived, RingFilled, Slot
<1>5. LaneProgress'
  BY DEF IInv, TypeOK, ArriveExit, laneData, AllArrived, LaneProgress, NoLostWakeup,
         LockHeld, Empty, Full
<1>6. QuadsHeld'
  BY DEF IInv, TypeOK, ArriveExit, laneData, AllArrived, QuadsHeld, LockHeld, Held, Unowned
<1>7. PathOfCar'
  BY DEF IInv, TypeOK, ArriveExit, laneData, AllArrived, PathOfCar, LockHeld, RoadCar,
         NextCar
<1>8. NoLostWakeup'
  BY DEF IInv, TypeOK, ArriveExit, laneData, AllArrived, NoLostWakeup, LaneProgress,
         LockHeld, Empty, Full
<1> QED BY <1>1, <1>2, <1>3, <1>4, <1>5, <1>6, <1>7, <1>8 DEF IInv

(* ArriveWait preserves the invariant. *)
LEMMA ArriveWaitStep ==
    ASSUME IInv, NEW l \in Lanes, main = "join", ArriveWait(l)
    PROVE  IInv'
<1>1. TypeOK'
  BY DEF IInv, TypeOK, ArriveWait, laneData, AllArrived, ArriveAt, CrossAt
<1>2. NotStarted'
  BY DEF IInv, TypeOK, ArriveWait, laneData, AllArrived, NotStarted
<1>3. LockHeld'
  BY DEF IInv, TypeOK, ArriveWait, laneData, AllArrived, LockHeld
<1>4. RingFilled'
  BY DEF IInv, TypeOK, ArriveWait, laneData, AllArrived, RingFilled, Slot
<1>5. LaneProgress'
  BY DEF IInv, TypeOK, ArriveWait, laneData, AllArrived, LaneProgress, NoLostWakeup,
         LockHeld, Empty, Full
<1>6. QuadsHeld'
  BY SMTT(60) DEF IInv, TypeOK, ArriveWait, laneData, AllArrived, QuadsHeld, LockHeld, Held, Unowned
<1>7. PathOfCar'
  BY DEF IInv, TypeOK, ArriveWait, laneData, AllArrived, PathOfCar, LockHeld, RoadCar,
         NextCar
<1>8. NoLostWakeup'
  BY SMTT(60) DEF IInv, TypeOK, ArriveWait, laneData, AllArrived, NoLostWakeup, LaneProgress,
         LockHeld, Empty, Full
<1> QED BY <1>1, <1>2, <1>3, <1>4, <1>5, <1>6, <1>7, <1>8 DEF IInv

(* ArrivePut preserves the invariant. *)
LEMMA ArrivePutStep ==
    ASSUME IInv, NEW l \in Lanes, main = "join", ArrivePut(l)
    PROVE  IInv'
<1>1. TypeOK'
  <2>1. in_cars[l] # <<>>
    BY DEF IInv, LaneProgress, ArrivePut, AllArrived
  <2>2. Head(in_cars[l]) \in Car /\ Tail(in_cars[l]) \in Seq(Car)
    BY <2>1 DEF IInv, TypeOK
  <2>3. Advance(head[l]) \in 0..(LANE_LENGTH - 1)
    BY SMTT(60), AdvanceWraps, LengthAssumption DEF IInv, TypeOK
  <2>4. in_buf[l] + 1 \in 0..LANE_LENGTH
    <3>1. in_buf[l] \in 0..LANE_LENGTH BY DEF IInv, TypeOK
    <3> QED BY <3>1, LengthAssumption DEF ArrivePut, Full
  <2> QED
    BY <2>2, <2>3, <2>4 DEF IInv, TypeOK, ArrivePut, laneData, Signal, ArriveAt, CrossAt
<1>2. NotStarted'
  BY DEF IInv, TypeOK, ArrivePut, laneData, AllArrived, Signal, NotStarted
<1>3. LockHeld'
  BY DEF IInv, TypeOK, ArrivePut, laneData, AllArrived, Signal, LockHeld
<1>4. RingFilled'
  <2> DEFINE n == in_buf[l]
  <2>1. n \in 0..(LANE_LENGTH - 1) /\ tail[l] \in 0..(LANE_LENGTH - 1)
    BY LengthAssumption DEF IInv, TypeOK, ArrivePut, Full
  <2>2. head[l] = Slot(l, n)
    BY DEF IInv, RingFilled
  <2>3. Advance(head[l]) = Slot(l, n + 1)
    BY <2>1, <2>2, AdvanceWraps, LengthAssumption DEF Slot
  <2>4. \A k \in 0..(LANE_LENGTH - 1) : k # n => Slot(l, k) # Slot(l, n)
    BY <2>1, LengthAssumption DEF Slot
  <2>5. \A k \in 0..(LANE_LENGTH - 1) : Slot(l, k) \in 0..(LANE_LENGTH - 1)
    BY <2>1, LengthAssumption DEF Slot
  <2>6. Head(in_cars[l]) # NULL
    BY NULLAssumption DEF IInv, TypeOK, LaneProgress, ArrivePut, AllArrived
  <2>7. \A m \in Lanes, k \in Nat : Slot(m, k)' = Slot(m, k)
    BY DEF ArrivePut, Slot
  <2>8. buffer'[l] = [buffer[l] EXCEPT ![Slot(l, n)] = Head(in_cars[l])]
    BY <2>2 DEF IInv, TypeOK, ArrivePut
  <2>9. \A k \in 0..(LANE_LENGTH - 1) :
            (buffer'[l][Slot(l, k)] # NULL) <=> (k < n + 1)
    <3>1. buffer[l] \in [0..(LANE_LENGTH - 1) -> Car \cup {NULL}] BY DEF IInv, TypeOK
    <3>2. \A k \in 0..(LANE_LENGTH - 1) : (buffer[l][Slot(l, k)] # NULL) <=> (k < n)
      BY DEF IInv, RingFilled
    <3> HIDE DEF n
    <3>3. \A k \in 0..(LANE_LENGTH - 1) :
              buffer'[l][Slot(l, k)] = IF k = n THEN Head(in_cars[l]) ELSE buffer[l][Slot(l, k)]
      BY <3>1, <2>4, <2>5, <2>8
    <3> QED BY <3>2, <3>3, <2>1, <2>6, LengthAssumption
  <2>10. head'[l] = Slot(l, n + 1) /\ in_buf'[l] = n + 1
    BY <2>3 DEF IInv, TypeOK, ArrivePut
  <2>11. \A m \in Lanes \ {l} :
            buffer'[m] = buffer[m] /\ head'[m] = head[m] /\ in_buf'[m] = in_buf[m]
    BY DEF IInv, TypeOK, ArrivePut
  <2>12. \A m \in Lanes : in_buf[m] \in Nat
    BY LengthAssumption DEF IInv, TypeOK
  <2> QED
    BY <2>1, <2>7, <2>9, <2>10, <2>11, <2>12 DEF IInv, RingFilled
<1>5. LaneProgress'
  BY SMTT(60) DEF IInv, TypeOK, ArrivePut, laneData, AllArrived, Signal, LaneProgress,
         NoLostWakeup, LockHeld, Empty, Full
<1>6. QuadsHeld'
  <2>1. \A m \in Lanes : Held(m)' = Held(m)
    BY DEF ArrivePut, Held
  <2>2. \A m \in Lanes : cross'[m] = cross[m] \/ (cross[m] = "wait" /\ cross'[m] = "relock")
    BY DEF IInv, TypeOK, ArrivePut, Signal
  <2> QED
    BY <2>1, <2>2 DEF IInv, ArrivePut, QuadsHeld
<1>7. PathOfCar'
  BY DEF IInv, TypeOK, ArrivePut, laneData, AllArrived, Signal, PathOfCar, LockHeld,
         RoadCar, NextCar
<1>8. NoLostWakeup'
  BY DEF IInv, TypeOK, ArrivePut, laneData, AllArrived, Signal, NoLostWakeup,
         LaneProgress, LockHeld, Empty, Full
<1> QED BY <1>1, <1>2, <1>3, <1>4, <1>5, <1>6, <1>7, <1>8 DEF IInv

(* CrossLock preserves the invariant. *)
LEMMA CrossLockStep ==
    ASSUME IInv, NEW l \in Lanes, main = "join", CrossLock(l)
    PROVE  IInv'
<1>1. TypeOK'
  BY DEF IInv, TypeOK, CrossLock, laneData, ArriveAt, CrossAt
<1>2. NotStarted'
  BY DEF IInv, TypeOK, CrossLock, laneData, NotStarted
<1>3. LockHeld'
  BY DEF IInv, TypeOK, CrossLock, laneData, LockHeld
<1>4. RingFilled'
  BY DEF IInv, TypeOK, CrossLock, laneData, RingFilled, Slot
<1>5. LaneProgress'
  BY DEF IInv, TypeOK, CrossLock, laneData, LaneProgress, NoLostWakeup, LockHeld,
         Empty, Full
<1>6. QuadsHeld'
  BY SMTT(60) DEF IInv, TypeOK, CrossLock, laneData, QuadsHeld, LockHeld, Held, Unowned
<1>7. PathOfCar'
  BY DEF IInv, TypeOK, CrossLock, laneData, PathOfCar, LockHeld, RoadCar, NextCar
<1>8. NoLostWakeup'
  BY DEF IInv, TypeOK, CrossLock, laneData, NoLostWakeup, LaneProgress, LockHeld,
         Empty, Full
<1> QED BY <1>1, <1>2, <1>3, <1>4, <1>5, <1>6, <1>7, <1>8 DEF IInv

(* CrossExit preserves the invariant. *)
LEMMA CrossExitStep ==
    ASSUME IInv, NEW l \in Lanes, main = "join", CrossExit(l)
    PROVE  IInv'
<1>1. TypeOK'
  BY DEF IInv, TypeOK, CrossExit, laneData, AllCrossed, ArriveAt, CrossAt
<1>2. NotStarted'
  BY DEF IInv, TypeOK, CrossExit, laneData, AllCrossed, NotStarted
<1>3. LockHeld'
  BY DEF IInv, TypeOK, CrossExit, laneData, AllCrossed, LockHeld
<1>4. RingFilled'
  BY DEF IInv, TypeOK, CrossExit, laneData, AllCrossed, RingFilled, Slot
<1>5. LaneProgress'
  BY DEF IInv, TypeOK, CrossExit, laneData, AllCrossed, LaneProgress, NoLostWakeup,
         LockHeld, Empty, Full
<1>6. QuadsHeld'
  BY SMTT(60) DEF IInv, TypeOK, CrossExit, laneData, AllCrossed, QuadsHeld, LockHeld, Held, Unowned
<1>7. PathOfCar'
  BY DEF IInv, TypeOK, CrossExit, laneData, AllCrossed, PathOfCar, LockHeld, RoadCar,
         NextCar
<1>8. NoLostWakeup'
  BY DEF IInv, TypeOK, CrossExit, laneData, AllCrossed, NoLostWakeup, LaneProgress,
         LockHeld, Empty, Full
<1> QED BY <1>1, <1>2, <1>3, <1>4, <1>5, <1>6, <1>7, <1>8 DEF IInv

(* CrossWait preserves the invariant. *)
LEMMA CrossWaitStep ==
    ASSUME IInv, NEW l \in Lanes, main = "join", CrossWait(l)
    PROVE  IInv'
<1>1. TypeOK'
  BY DEF IInv, TypeOK, CrossWait, laneData, AllCrossed, ArriveAt, CrossAt
<1>2. NotStarted'
  BY DEF IInv, TypeOK, CrossWait, laneData, AllCrossed, NotStarted
<1>3. LockHeld'
  BY DEF IInv, TypeOK, CrossWait, laneData, AllCrossed, LockHeld
<1>4. RingFilled'
  BY DEF IInv, TypeOK, CrossWait, laneData, AllCrossed, RingFilled, Slot
<1>5. LaneProgress'
  BY SMTT(60) DEF IInv, TypeOK, CrossWait, laneData, AllCrossed, LaneProgress, NoLostWakeup,
         LockHeld, Empty, Full
<1>6. QuadsHeld'
  BY SMTT(60) DEF IInv, TypeOK, CrossWait, laneData, AllCrossed, QuadsHeld, LockHeld, Held, Unowned
<1>7. PathOfCar'
  BY DEF IInv, TypeOK, CrossWait, laneData, AllCrossed, PathOfCar, LockHeld, RoadCar,
         NextCar
<1>8. NoLostWakeup'
  BY SMTT(60) DEF IInv, TypeOK, CrossWait, laneData, AllCrossed, NoLostWakeup, LaneProgress,
         LockHeld, Empty, Full
<1> QED BY <1>1, <1>2, <1>3, <1>4, <1>5, <1>6, <1>7, <1>8 DEF IInv

(* CrossPath preserves the invariant. *)
LEMMA CrossPathStep ==
    ASSUME IInv, NEW l \in Lanes, main = "join", CrossPath(l)
    PROVE  IInv'
<1>1. TypeOK'
  <2>1. NextCar(l) \in Car
    BY NextCarIsCar DEF CrossPath
  <2>2. compute_path(NextCar(l).in_dir, NextCar(l).out_dir) \subseteq Quadrant
    BY <2>1, PathInQuadrants, LanesAssumption DEF Car
  <2> QED
    BY <2>2 DEF IInv, TypeOK, CrossPath, laneData, ArriveAt, CrossAt
<1>2. NotStarted'
  BY DEF IInv, TypeOK, CrossPath, laneData, NotStarted
<1>3. LockHeld'
  BY DEF IInv, TypeOK, CrossPath, laneData, LockHeld
<1>4. RingFilled'
  BY DEF IInv, TypeOK, CrossPath, laneData, RingFilled, Slot
<1>5. LaneProgress'
  BY SMTT(60) DEF IInv, TypeOK, CrossPath, laneData, LaneProgress, NoLostWakeup, LockHeld,
         Empty, Full
<1>6. QuadsHeld'
  BY SMTT(60) DEF IInv, TypeOK, CrossPath, laneData, QuadsHeld, LockHeld, Held, Unowned
<1>7. PathOfCar'
  BY DEF IInv, TypeOK, CrossPath, laneData, PathOfCar, LockHeld, RoadCar, NextCar
<1>8. NoLostWakeup'
  BY SMTT(60) DEF IInv, TypeOK, CrossPath, laneData, NoLostWakeup, LaneProgress, LockHeld,
         Empty, Full
<1> QED BY <1>1, <1>2, <1>3, <1>4, <1>5, <1>6, <1>7, <1>8 DEF IInv

(* CrossAcquire preserves the invariant. *)
LEMMA CrossAcquireStep ==
    ASSUME IInv, NEW l \in Lanes, main = "join", CrossAcquire(l)
    PROVE  IInv'
<1>1. TypeOK'
  BY DEF IInv, TypeOK, CrossAcquire, laneData, ArriveAt, CrossAt
<1>2. NotStarted'
  BY DEF IInv, TypeOK, CrossAcquire, laneData, NotStarted
<1>3. LockHeld'
  BY DEF IInv, TypeOK, CrossAcquire, laneData, LockHeld
<1>4. RingFilled'
  BY DEF IInv, TypeOK, CrossAcquire, laneData, RingFilled, Slot
<1>5. LaneProgress'
  BY DEF IInv, TypeOK, CrossAcquire, laneData, LaneProgress, NoLostWakeup, LockHeld,
         Empty, Full
<1>6. QuadsHeld'
  <2> DEFINE q == NextQuad(l)
  <2>1. q \in todo[l] /\ (\A p \in todo[l] : q <= p) /\ todo[l] \subseteq Quadrant
    BY NextQuadIsLeast DEF IInv, TypeOK, CrossAcquire
  <2>2. quad[q] = Unowned /\ quad' = [quad EXCEPT ![q] = l]
    BY DEF CrossAcquire
  <2> HIDE DEF q
  <2>3. Held(l)' = Held(l) \cup {q}
    BY <2>1, <2>2 DEF IInv, TypeOK, Held
  <2>4. todo'[l] = todo[l] \ {q} /\ locks'[l] = locks[l] /\ cross'[l] = "acquire" /\ cross[l] = "acquire"
    BY DEF IInv, TypeOK, CrossAcquire, q
  <2>5. \A m \in Lanes \ {l} :
            /\ todo'[m] = todo[m] /\ locks'[m] = locks[m] /\ cross'[m] = cross[m]
            /\ Held(m)' = Held(m)
    <3>1. \A p \in Quadrant : quad'[p] = IF p = q THEN l ELSE quad[p]
      BY <2>1, <2>2 DEF IInv, TypeOK
    <3>2. \A m \in Lanes \ {l} : Held(m)' = Held(m)
      BY <3>1, <2>1, <2>2, LanesAssumption DEF Held, Unowned, Direction
    <3> QED BY <3>2 DEF IInv, TypeOK, CrossAcquire
  <2>6. /\ todo'[l] \subseteq locks'[l]
        /\ Held(l)' = locks'[l] \ todo'[l]
    BY <2>1, <2>3, <2>4 DEF IInv, QuadsHeld
  <2>7. \A r \in Held(l)', p \in todo'[l] : r < p
    BY <2>1, <2>3, <2>4 DEF IInv, QuadsHeld, Quadrant
  <2> QED
    BY <2>4, <2>5, <2>6, <2>7 DEF IInv, QuadsHeld
<1>7. PathOfCar'
  BY DEF IInv, TypeOK, CrossAcquire, laneData, PathOfCar, LockHeld, RoadCar, NextCar
<1>8. NoLostWakeup'
  BY DEF IInv, TypeOK, CrossAcquire, laneData, NoLostWakeup, LaneProgress, LockHeld,
         Empty, Full
<1> QED BY <1>1, <1>2, <1>3, <1>4, <1>5, <1>6, <1>7, <1>8 DEF IInv

(* CrossMove preserves the invariant. *)
LEMMA CrossMoveStep ==
    ASSUME IInv, NEW l \in Lanes, main = "join", CrossMove(l)
    PROVE  IInv'
<1>1. TypeOK'
  <2>1. ~Empty(l)
    BY DEF IInv, LaneProgress, CrossMove
  <2>2. <<NextCar(l)>> \o out_cars[l] \in Seq(Car)
    BY SMTT(30), <2>1, NextCarIsCar DEF IInv, TypeOK
  <2>3. Advance(tail[l]) \in 0..(LANE_LENGTH - 1)
    BY SMTT(60), AdvanceWraps, LengthAssumption DEF IInv, TypeOK
  <2>4. in_buf[l] - 1 \in 0..LANE_LENGTH
    BY <2>1, LengthAssumption DEF IInv, TypeOK, Empty
  <2>5. Append(printed[l], NextCar(l)) \in Seq(Car)
    BY SMTT(30), <2>1, NextCarIsCar DEF IInv, TypeOK
  <2> QED
    <3>1. /\ out_cars' \in [Lanes -> Seq(Car)] /\ tail' \in [Lanes -> 0..(LANE_LENGTH - 1)]
          /\ in_buf' \in [Lanes -> 0..LANE_LENGTH] /\ printed' \in [Lanes -> Seq(Car)]
      BY <2>2, <2>3, <2>4, <2>5 DEF IInv, TypeOK, CrossMove
    <3>2. buffer' \in [Lanes -> [0..(LANE_LENGTH - 1) -> Car \cup {NULL}]]
      BY DEF IInv, TypeOK, CrossMove
    <3>3. passed' \in [Lanes -> Nat] /\ cross' \in [Lanes -> CrossAt] /\ todo' \in [Lanes -> SUBSET Quadrant]
      BY DEF IInv, TypeOK, CrossMove, CrossAt
    <3> QED
      BY <3>1, <3>2, <3>3 DEF IInv, TypeOK, CrossMove
<1>2. NotStarted'
  BY DEF IInv, TypeOK, CrossMove, laneData, NotStarted
<1>3. LockHeld'
  BY DEF IInv, TypeOK, CrossMove, laneData, LockHeld
<1>4. RingFilled'
  <2> DEFINE n == in_buf[l]
  <2>1. n \in 1..LANE_LENGTH /\ tail[l] \in 0..(LANE_LENGTH - 1)
    BY LengthAssumption DEF IInv, TypeOK, LaneProgress, CrossMove, Empty
  <2>2. tail'[l] = (IF tail[l] + 1 = LANE_LENGTH THEN 0 ELSE tail[l] + 1)
    BY <2>1, AdvanceWraps DEF IInv, TypeOK, CrossMove
  <2>3. \A k \in 0..(LANE_LENGTH - 1) :
            Slot(l, k)' = Slot(l, IF k + 1 = LANE_LENGTH THEN 0 ELSE k + 1)
    BY <2>1, <2>2, LengthAssumption DEF Slot
  <2>4. Slot(l, in_buf[l])' = Slot(l, n)
    <3>1. in_buf'[l] = n - 1 BY DEF IInv, TypeOK, CrossMove
    <3> HIDE DEF n
    <3> QED BY <3>1, <2>1, <2>2, LengthAssumption DEF Slot
  <2>5. \A k \in 1..(LANE_LENGTH - 1) : Slot(l, k) # tail[l]
    BY <2>1, LengthAssumption DEF Slot
  <2>6. \A k \in 0..(LANE_LENGTH - 1) : Slot(l, k) \in 0..(LANE_LENGTH - 1)
    BY <2>1, LengthAssumption DEF Slot
  <2>7. Slot(l, 0) = tail[l]
    BY <2>1, LengthAssumption DEF Slot
  <2>8. buffer'[l] = [buffer[l] EXCEPT ![tail[l]] = NULL]
    BY DEF IInv, TypeOK, CrossMove
  <2>9. \A k \in 1..(LANE_LENGTH - 1) :
            (buffer'[l][Slot(l, k)] # NULL) <=> (k < n)
    <3>1. buffer[l] \in [0..(LANE_LENGTH - 1) -> Car \cup {NULL}] BY DEF IInv, TypeOK
    <3>2. \A k \in 1..(LANE_LENGTH - 1) : (buffer[l][Slot(l, k)] # NULL) <=> (k < n)
      BY DEF IInv, RingFilled
    <3>3. \A k \in 1..(LANE_LENGTH - 1) : buffer'[l][Slot(l, k)] = buffer[l][Slot(l, k)]
      BY <3>1, <2>5, <2>6, <2>8
    <3> QED BY <3>2, <3>3
  <2>10. buffer'[l][Slot(l, 0)] = NULL
    <3>1. buffer[l] \in [0..(LANE_LENGTH - 1) -> Car \cup {NULL}] BY DEF IInv, TypeOK
    <3> QED BY <3>1, <2>1, <2>7, <2>8
  <2>11. in_buf'[l] = n - 1 /\ head'[l] = Slot(l, n)
    BY DEF IInv, TypeOK, CrossMove, RingFilled
  <2>12. \A k \in 0..(LANE_LENGTH - 1) :
            (buffer'[l][Slot(l, k)'] # NULL) <=> (k < n - 1)
    BY <2>1, <2>3, <2>9, <2>10, LengthAssumption
  <2>13. \A m \in Lanes \ {l} :
            /\ buffer'[m] = buffer[m] /\ head'[m] = head[m] /\ in_buf'[m] = in_buf[m]
            /\ \A k \in Nat : Slot(m, k)' = Slot(m, k)
    BY DEF IInv, TypeOK, CrossMove, Slot
  <2>14. \A m \in Lanes : in_buf[m] \in Nat
    BY LengthAssumption DEF IInv, TypeOK
  <2> DEFINE RingOf(m) == /\ head[m] = Slot(m, in_buf[m])
                          /\ \A k \in 0..(LANE_LENGTH - 1) :
                                 (buffer[m][Slot(m, k)] # NULL) <=> (k < in_buf[m])
  <2>15. \A m \in Lanes \ {l} : RingOf(m)'
    BY <2>13, <2>14 DEF IInv, RingFilled
  <2>16. head'[l] = Slot(l, in_buf[l])'
    BY <2>4, <2>11
  <2> QED
    BY <2>11, <2>12, <2>15, <2>16 DEF RingFilled
<1>5. LaneProgress'
  BY DEF IInv, TypeOK, CrossMove, laneData, LaneProgress, NoLostWakeup, LockHeld,
         Empty, Full
<1>6. QuadsHeld'
  <2>1. \A m \in Lanes : Held(m)' = Held(m)
    BY DEF CrossMove, Held
  <2>2. todo'[l] = locks[l] /\ locks' = locks /\ cross'[l] = "release" /\ cross[l] = "acquire" /\ todo[l] = {}
    BY DEF IInv, TypeOK, CrossMove
  <2>3. \A m \in Lanes \ {l} : todo'[m] = todo[m] /\ cross'[m] = cross[m]
    BY DEF IInv, TypeOK, CrossMove
  <2> QED
    BY <2>1, <2>2, <2>3 DEF IInv, QuadsHeld
<1>7. PathOfCar'
  BY DEF IInv, TypeOK, CrossMove, laneData, PathOfCar, LockHeld, RoadCar, NextCar
<1>8. NoLostWakeup'
  BY SMTT(60) DEF IInv, TypeOK, CrossMove, laneData, NoLostWakeup, LaneProgress, LockHeld,
         Empty, Full
<1> QED BY <1>1, <1>2, <1>3, <1>4, <1>5, <1>6, <1>7, <1>8 DEF IInv

(* CrossRelease preserves the invariant. *)
LEMMA CrossReleaseStep ==
    ASSUME IInv, NEW l \in Lanes, main = "join", CrossRelease(l)
    PROVE  IInv'
<1>1. TypeOK'
  BY DEF IInv, TypeOK, CrossRelease, laneData, ArriveAt, CrossAt
<1>2. NotStarted'
  BY DEF IInv, TypeOK, CrossRelease, laneData, NotStarted
<1>3. LockHeld'
  BY DEF IInv, TypeOK, CrossRelease, laneData, LockHeld
<1>4. RingFilled'
  BY DEF IInv, TypeOK, CrossRelease, laneData, RingFilled, Slot
<1>5. LaneProgress'
  BY DEF IInv, TypeOK, CrossRelease, laneData, LaneProgress, NoLostWakeup, LockHeld,
         Empty, Full
<1>6. QuadsHeld'
  <2> DEFINE q == NextQuad(l)
  <2>1. q \in todo[l] /\ todo[l] \subseteq Quadrant
    BY NextQuadIsLeast DEF IInv, TypeOK, CrossRelease
  <2>2. quad' = [quad EXCEPT ![q] = Unowned]
    BY DEF CrossRelease
  <2> HIDE DEF q
  <2>3. Held(l) = todo[l]
    BY DEF IInv, QuadsHeld, CrossRelease
  <2>4. Held(l)' = Held(l) \ {q}
    BY <2>1, <2>2, LanesAssumption DEF IInv, TypeOK, Held, Unowned, Direction
  <2>5. todo'[l] = todo[l] \ {q} /\ locks'[l] = locks[l] /\ cross'[l] = "release"
    BY DEF IInv, TypeOK, CrossRelease, q
  <2>6. quad[q] = l
    BY <2>1, <2>3 DEF Held
  <2>7. \A m \in Lanes \ {l} :
            /\ todo'[m] = todo[m] /\ locks'[m] = locks[m] /\ cross'[m] = cross[m]
            /\ Held(m)' = Held(m)
    <3>1. \A p \in Quadrant : quad'[p] = IF p = q THEN Unowned ELSE quad[p]
      BY <2>1, <2>2 DEF IInv, TypeOK
    <3>2. \A m \in Lanes \ {l} : Held(m)' = Held(m)
      BY <3>1, <2>1, <2>2, <2>6, LanesAssumption DEF Held, Unowned, Direction
    <3> QED BY <3>2 DEF IInv, TypeOK, CrossRelease
  <2> QED
    BY <2>3, <2>4, <2>5, <2>7 DEF IInv, QuadsHeld
<1>7. PathOfCar'
  BY DEF IInv, TypeOK, CrossRelease, laneData, PathOfCar, LockHeld, RoadCar, NextCar
<1>8. NoLostWakeup'
  BY DEF IInv, TypeOK, CrossRelease, laneData, NoLostWakeup, LaneProgress, LockHeld,
         Empty, Full
<1> QED BY <1>1, <1>2, <1>3, <1>4, <1>5, <1>6, <1>7, <1>8 DEF IInv

(* CrossSignal preserves the invariant. *)
LEMMA CrossSignalStep ==
    ASSUME IInv, NEW l \in Lanes, main = "join", CrossSignal(l)
    PROVE  IInv'
<1>1. TypeOK'
  BY DEF IInv, TypeOK, CrossSignal, laneData, Signal, ArriveAt, CrossAt
<1>2. NotStarted'
  BY DEF IInv, TypeOK, CrossSignal, laneData, Signal, NotStarted
<1>3. LockHeld'
  BY DEF IInv, TypeOK, CrossSignal, laneData, Signal, LockHeld
<1>4. RingFilled'
  BY DEF IInv, TypeOK, CrossSignal, laneData, Signal, RingFilled, Slot
<1>5. LaneProgress'
  BY SMTT(60) DEF IInv, TypeOK, CrossSignal, laneData, Signal, LaneProgress, NoLostWakeup,
         LockHeld, Empty, Full
<1>6. QuadsHeld'
  BY SMTT(60) DEF IInv, TypeOK, CrossSignal, laneData, Signal, QuadsHeld, LockHeld, Held, Unowned
<1>7. PathOfCar'
  BY DEF IInv, TypeOK, CrossSignal, laneData, Signal, PathOfCar, LockHeld, RoadCar, NextCar
<1>8. NoLostWakeup'
  BY SMTT(60) DEF IInv, TypeOK, CrossSignal, laneData, Signal, NoLostWakeup, LaneProgress,
         LockHeld, Empty, Full
<1> QED BY <1>1, <1>2, <1>3, <1>4, <1>5, <1>6, <1>7, <1>8 DEF IInv

(* CrossFree preserves the invariant. *)
LEMMA CrossFreeStep ==
    ASSUME IInv, NEW l \in Lanes, main = "join", CrossFree(l)
    PROVE  IInv'
<1>1. TypeOK'
  BY DEF IInv, TypeOK, CrossFree, laneData, ArriveAt, CrossAt
<1>2. NotStarted'
  BY DEF IInv, TypeOK, CrossFree, laneData, NotStarted
<1>3. LockHeld'
  BY DEF IInv, TypeOK, CrossFree, laneData, LockHeld
<1>4. RingFilled'
  BY DEF IInv, TypeOK, CrossFree, laneData, RingFilled, Slot
<1>5. LaneProgress'
  BY SMTT(60) DEF IInv, TypeOK, CrossFree, laneData, LaneProgress, NoLostWakeup, LockHeld,
         Empty, Full
<1>6. QuadsHeld'
  BY SMTT(60) DEF IInv, TypeOK, CrossFree, laneData, QuadsHeld, LockHeld, Held, Unowned
<1>7. PathOfCar'
  BY DEF IInv, TypeOK, CrossFree, laneData, PathOfCar, LockHeld, RoadCar, NextCar
<1>8. NoLostWakeup'
  BY SMTT(60) DEF IInv, TypeOK, CrossFree, laneData, NoLostWakeup, LaneProgress, LockHeld,
         Empty, Full
<1> QED BY <1>1, <1>2, <1>3, <1>4, <1>5, <1>6, <1>7, <1>8 DEF IInv

(* SpuriousWakeup preserves the invariant. *)
LEMMA SpuriousWakeupStep ==
    ASSUME IInv, NEW l \in Lanes, main = "join", SpuriousWakeup(l)
    PROVE  IInv'
<1>1. TypeOK'
  BY DEF IInv, TypeOK, SpuriousWakeup, laneData, ArriveAt, CrossAt
<1>2. NotStarted'
  BY DEF IInv, TypeOK, SpuriousWakeup, laneData, NotStarted
<1>3. LockHeld'
  BY DEF IInv, TypeOK, SpuriousWakeup, laneData, LockHeld
<1>4. RingFilled'
  BY DEF IInv, TypeOK, SpuriousWakeup, laneData, RingFilled, Slot
<1>5. LaneProgress'
  <2>1. CASE arrive[l] = "wait" /\ arrive' = [arrive EXCEPT ![l] = "relock"] /\ UNCHANGED cross
    <3>1. in_cars[l] # <<>> BY <2>1 DEF IInv, NoLostWakeup
    <3> QED BY <2>1, <3>1 DEF IInv, TypeOK, SpuriousWakeup, laneData, LaneProgress, Empty
  <2>2. CASE cross[l] = "wait" /\ cross' = [cross EXCEPT ![l] = "relock"] /\ UNCHANGED arrive
    BY <2>2 DEF IInv, TypeOK, SpuriousWakeup, laneData, LaneProgress, Empty
  <2> QED BY <2>1, <2>2 DEF SpuriousWakeup
<1>6. QuadsHeld'
  BY SMTT(60) DEF IInv, TypeOK, SpuriousWakeup, laneData, QuadsHeld, LockHeld, Held, Unowned
<1>7. PathOfCar'
  BY SMTT(60) DEF IInv, TypeOK, SpuriousWakeup, laneData, PathOfCar, LockHeld, RoadCar, NextCar
<1>8. NoLostWakeup'
  BY SMTT(60) DEF IInv, TypeOK, SpuriousWakeup, laneData, NoLostWakeup, LaneProgress, LockHeld,
         Empty, Full
<1> QED BY <1>1, <1>2, <1>3, <1>4, <1>5, <1>6, <1>7, <1>8 DEF IInv

-----------------------------------------------------------------------------
(* The invariant holds when the program starts ... *)
LEMMA InitIInv == Init => IInv
<1> SUFFICES ASSUME Init PROVE IInv
  OBVIOUS
<1>1. TypeOK
  BY LengthAssumption, SchedulesAssumption DEF Init, TypeOK, ArriveAt, CrossAt, Unowned
<1>2. NotStarted /\ LockHeld /\ LaneProgress /\ NoLostWakeup
  BY DEF Init, NotStarted, LockHeld, LaneProgress, NoLostWakeup
<1>3. RingFilled
  BY LengthAssumption DEF Init, RingFilled, Slot
<1>4. QuadsHeld /\ PathOfCar
  BY LanesAssumption DEF Init, QuadsHeld, PathOfCar, Held, Unowned, Direction, Quadrant
<1> QED BY <1>1, <1>2, <1>3, <1>4 DEF IInv

(* ... and every step of main preserves it, ... *)
LEMMA MainStepIInv ==
    ASSUME IInv, MainStep
    PROVE  IInv'
<1>1. CASE ParseLine
  <2> DEFINE car == file[line + 1]
  <2>1. car \in Car /\ line + 1 \in 0..Len(file)
    BY <1>1, SchedulesAssumption DEF IInv, TypeOK, ParseLine
  <2>2. car.in_dir \in Lanes
    BY <2>1 DEF Car
  <2>3. /\ in_cars' = [in_cars EXCEPT ![car.in_dir] = <<car>> \o @]
        /\ inc' = [inc EXCEPT ![car.in_dir] = @ + 1]
        /\ line' = line + 1
        /\ UNCHANGED <<file, main, out_cars, printed, passed, buffer, head, tail, in_buf,
                       freed, lock, quad, arrive, cross, locks, todo>>
        /\ main = "parse"
    BY <1>1 DEF ParseLine
  <2> HIDE DEF car
  <2>4. <<car>> \o in_cars[car.in_dir] \in Seq(Car)
    BY <2>1, <2>2 DEF IInv, TypeOK
  <2>5. TypeOK'
    <3>1. in_cars' \in [Lanes -> Seq(Car)] /\ inc' \in [Lanes -> Nat]
      BY SMTT(60), <2>2, <2>3, <2>4 DEF IInv, TypeOK
    <3>2. line' \in 0..Len(file')
      BY <2>1, <2>3
    <3> QED BY <3>1, <3>2, <2>3 DEF IInv, TypeOK
  <2>6. NotStarted' /\ LockHeld' /\ LaneProgress' /\ NoLostWakeup'
    BY <2>3 DEF IInv, NotStarted, LockHeld, LaneProgress, NoLostWakeup, Empty, Full
  <2>7. RingFilled'
    BY <2>3 DEF IInv, RingFilled, Slot
  <2>8. QuadsHeld' /\ PathOfCar'
    BY <2>3 DEF IInv, QuadsHeld, PathOfCar, Held, RoadCar, NextCar
  <2> QED BY <2>5, <2>6, <2>7, <2>8 DEF IInv
<1>2. CASE SpawnThreads \/ Verify
  <2>1. /\ UNCHANGED <<file, line, laneData, lock, quad, arrive, cross, locks, todo>>
        /\ main' \in {"join", "verified"}
    BY <1>2 DEF SpawnThreads, Verify
  <2>2. TypeOK'
    BY <2>1 DEF laneData, IInv, TypeOK
  <2>3. NotStarted' /\ LockHeld' /\ LaneProgress' /\ NoLostWakeup'
    BY <2>1 DEF laneData, IInv, NotStarted, LockHeld, LaneProgress, NoLostWakeup,
           Empty, Full
  <2>4. RingFilled'
    BY <2>1 DEF laneData, IInv, RingFilled, Slot
  <2>5. QuadsHeld' /\ PathOfCar'
    BY <2>1 DEF laneData, IInv, QuadsHeld, PathOfCar, Held, RoadCar, NextCar
  <2> QED BY <2>2, <2>3, <2>4, <2>5 DEF IInv
<1> QED BY <1>1, <1>2 DEF MainStep

(* ... as does a step that changes nothing. *)
LEMMA StutterIInv ==
    ASSUME IInv, UNCHANGED vars
    PROVE  IInv'
<1>1. TypeOK' BY DEF vars, laneData, IInv, TypeOK
<1>2. NotStarted' /\ LockHeld' /\ LaneProgress' /\ NoLostWakeup'
  BY DEF vars, laneData, IInv, NotStarted, LockHeld, LaneProgress, NoLostWakeup, Empty, Full
<1>3. RingFilled' BY DEF vars, laneData, IInv, RingFilled, Slot
<1>4. QuadsHeld' /\ PathOfCar'
  BY DEF vars, laneData, IInv, QuadsHeld, PathOfCar, Held, RoadCar, NextCar
<1> QED BY <1>1, <1>2, <1>3, <1>4 DEF IInv

(* Every step of the program preserves the invariant. *)
LEMMA NextIInv == IInv /\ [Next]_vars => IInv'
<1> SUFFICES ASSUME IInv, [Next]_vars PROVE IInv'
  OBVIOUS
<1>1. CASE MainStep BY <1>1, MainStepIInv
<1>2. ASSUME NEW l \in Lanes, ArriveStep(l) PROVE IInv'
  BY <1>2, ArriveLockStep, ArriveExitStep, ArriveWaitStep, ArrivePutStep DEF ArriveStep
<1>3. ASSUME NEW l \in Lanes, CrossStep(l) PROVE IInv'
  BY <1>3, CrossLockStep, CrossExitStep, CrossWaitStep, CrossPathStep, CrossAcquireStep,
     CrossMoveStep, CrossReleaseStep, CrossSignalStep, CrossFreeStep DEF CrossStep
<1>4. ASSUME NEW l \in Lanes, SpuriousWakeup(l) PROVE IInv'
  BY <1>4, SpuriousWakeupStep DEF SpuriousWakeup
<1>5. CASE Terminated \/ UNCHANGED vars
  BY <1>5, StutterIInv DEF Terminated
<1> QED BY <1>1, <1>2, <1>3, <1>4, <1>5 DEF Next

-----------------------------------------------------------------------------
(* The inductive invariant holds in every reachable state, for every set of   *)
(* lanes, every length of the ring and every schedule.                        *)
THEOREM IInvHolds == Spec => []IInv
  BY InitIInv, NextIInv, PTL DEF Spec

(* Indices of the ring, counters and thread places stay in their ranges. *)
THEOREM TypeOKHolds == Spec => []TypeOK
<1>1. IInv => TypeOK BY DEF IInv
<1> QED BY <1>1, IInvHolds, PTL
(* No signal of car_arrive or car_cross is lost on a thread that needs it. *)
THEOREM NoLostWakeupHolds == Spec => []NoLostWakeup
<1>1. IInv => NoLostWakeup BY DEF IInv
<1> QED BY <1>1, IInvHolds, PTL
(* Nobody uses a ring that car_cross has freed without a mutex. *)
THEOREM NoUseAfterFreeHolds == Spec => []NoUseAfterFree
<1>1. IInv => NoUseAfterFree BY DEF IInv, NoUseAfterFree, LaneProgress, NoLostWakeup
<1> QED BY <1>1, IInvHolds, PTL

(* A car on the road is a car. *)
LEMMA RoadCarIsCar ==
    ASSUME IInv, NEW l \in Lanes, OnRoad(l)
    PROVE  RoadCar(l) \in Car
<1>1. CASE cross[l] = "acquire"
  BY <1>1, NextCarIsCar DEF IInv, LaneProgress, RoadCar
<1>2. CASE cross[l] = "release"
  <2>1. out_cars[l] # <<>> /\ out_cars[l] \in Seq(Car) BY <1>2 DEF IInv, TypeOK, PathOfCar
  <2> QED BY <1>2, <2>1 DEF RoadCar
<1> QED BY <1>1, <1>2 DEF OnRoad

(* A lane on the road holds the mutexes of all quadrants its car covers, and   *)
(* a mutex has one holder.                                                     *)
LEMMA IInvNoCollision == IInv => NoCollision
<1> SUFFICES ASSUME IInv, NEW l \in Lanes, NEW k \in Lanes, l # k, OnRoad(l), OnRoad(k)
             PROVE  Abstract!Footprint(RoadCar(l)) \cap Abstract!Footprint(RoadCar(k)) = {}
  BY DEF NoCollision
<1>1. ASSUME NEW m \in Lanes, OnRoad(m) PROVE Held(m) = Abstract!Footprint(RoadCar(m))
  <2>1. Held(m) = locks[m]
    BY <1>1 DEF IInv, QuadsHeld, OnRoad
  <2>2. locks[m] = compute_path(RoadCar(m).in_dir, RoadCar(m).out_dir)
    BY <1>1 DEF IInv, PathOfCar, OnRoad
  <2>3. RoadCar(m).in_dir \in Direction /\ RoadCar(m).out_dir \in Direction
    BY <1>1, RoadCarIsCar, LanesAssumption DEF Car
  <2>4. compute_path(RoadCar(m).in_dir, RoadCar(m).out_dir) = Abstract!Footprint(RoadCar(m))
    BY <2>3, PathIsFootprint
  <2> QED BY <2>1, <2>2, <2>4
<1>2. Held(l) \cap Held(k) = {}
  BY DEF Held
<1> QED BY <1>1, <1>2

(* Cars that are on the road together never cover the same quadrant. *)
THEOREM NoCollisionHolds == Spec => []NoCollision
  BY IInvNoCollision, IInvHolds, PTL

(* If every thread were blocked, a lane that waits for quadrant q would wait   *)
(* for a lane that waits for a quadrant above q, and there are only four; so   *)
(* nobody waits for a quadrant, so nobody for the mutex of a lane, so all      *)
(* sleep or have returned, and a sleeper has a partner that does neither.      *)
LEMMA IInvDeadlockFree == IInv => DeadlockFree
<1> SUFFICES ASSUME IInv, \A l \in Lanes : ArriveBlocked(l) /\ CrossBlocked(l)
             PROVE  \A l \in Lanes : arrive[l] = "done" /\ cross[l] = "done"
  BY DEF DeadlockFree
<1> DEFINE Wants(q) == \E l \in Lanes : cross[l] = "acquire" /\ todo[l] # {} /\ NextQuad(l) = q
<1>1. ASSUME NEW q \in Quadrant, Wants(q)
      PROVE  \E p \in Quadrant : q < p /\ Wants(p)
  <2>1. PICK l \in Lanes : cross[l] = "acquire" /\ todo[l] # {} /\ NextQuad(l) = q
    BY <1>1
  <2>2. quad[q] \in Lanes
    BY <2>1 DEF IInv, TypeOK, CrossBlocked
  <2>3. PICK k \in Lanes : q \in Held(k)
    BY <2>2 DEF Held
  <2>4. cross[k] = "acquire" /\ todo[k] # {}
    BY <2>3 DEF IInv, QuadsHeld, CrossBlocked
  <2>5. NextQuad(k) \in todo[k] /\ todo[k] \subseteq Quadrant
    BY <2>4, NextQuadIsLeast DEF IInv, TypeOK
  <2>6. q < NextQuad(k)
    BY <2>3, <2>4, <2>5 DEF IInv, QuadsHeld
  <2> QED BY <2>4, <2>5, <2>6
<1>2. \A q \in Quadrant : ~Wants(q)
  <2> HIDE DEF Wants
  <2>1. ~Wants(4) BY <1>1 DEF Quadrant
  <2>2. ~Wants(3) BY <1>1, <2>1 DEF Quadrant
  <2>3. ~Wants(2) BY <1>1, <2>1, <2>2 DEF Quadrant
  <2>4. ~Wants(1) BY <1>1, <2>1, <2>2, <2>3 DEF Quadrant
  <2> QED BY <2>1, <2>2, <2>3, <2>4 DEF Quadrant
<1> SUFFICES ASSUME NEW l \in Lanes PROVE arrive[l] = "done" /\ cross[l] = "done"
  OBVIOUS
<1>3. ~(cross[l] = "acquire" /\ todo[l] # {})
  <2> SUFFICES ASSUME cross[l] = "acquire", todo[l] # {} PROVE FALSE
    OBVIOUS
  <2>1. NextQuad(l) \in Quadrant
    BY NextQuadIsLeast DEF IInv, TypeOK
  <2> QED BY <2>1, <1>2
<1>4. lock[l] = "free"
  BY <1>3 DEF IInv, TypeOK, LockHeld, ArriveBlocked, CrossBlocked
<1>5. cross[l] \in {"wait", "done"} /\ arrive[l] \in {"wait", "done"}
  BY <1>3, <1>4 DEF ArriveBlocked, CrossBlocked
<1> QED BY <1>5 DEF IInv, NoLostWakeup

(* The monitor does not deadlock: while a thread has not returned, some thread *)
(* can take a step without a spurious wakeup.                                  *)
THEOREM DeadlockFreeHolds == Spec => []DeadlockFree
  BY IInvDeadlockFree, IInvHolds, PTL

(* RingFilled, with the wrap written as a remainder. *)
LEMMA IInvRingConsistent == IInv => RingConsistent
<1> SUFFICES ASSUME IInv, NEW l \in Lanes
             PROVE  /\ head[l] = (tail[l] + in_buf[l]) % LANE_LENGTH
                    /\ \A k \in 0..(LANE_LENGTH - 1) :
                        (buffer[l][(tail[l] + k) % LANE_LENGTH] # NULL) <=> (k < in_buf[l])
  BY DEF RingConsistent
<1>1. ASSUME NEW k \in 0..LANE_LENGTH PROVE (tail[l] + k) % LANE_LENGTH = Slot(l, k)
  <2>1. tail[l] \in 0..(LANE_LENGTH - 1)
    BY DEF IInv, TypeOK
  <2> DEFINE j == tail[l] + k
  <2>2. j \in 0..(2 * LANE_LENGTH - 1)
    BY <2>1, LengthAssumption
  <2>3. j % LANE_LENGTH = IF j < LANE_LENGTH THEN j ELSE j - LANE_LENGTH
    BY <2>2, ModWrap, LengthAssumption
  <2> QED BY <2>1, <2>3, LengthAssumption DEF Slot
<1>2. in_buf[l] \in 0..LANE_LENGTH BY DEF IInv, TypeOK
<1>3. \A k \in 0..(LANE_LENGTH - 1) : k \in 0..LANE_LENGTH BY LengthAssumption
<1> QED BY <1>1, <1>2, <1>3 DEF IInv, RingFilled

(* The slots, head, tail and in_buf of every ring agree. *)
THEOREM RingConsistentHolds == Spec => []RingConsistent
  BY IInvRingConsistent, IInvHolds, PTL

=============================================================================
