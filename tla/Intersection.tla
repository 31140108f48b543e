---------------------------- MODULE Intersection ----------------------------
(***************************************************************************)
(* What a four-way intersection promises, with no thread, mutex, condition *)
(* variable, list or ring buffer in it: the cars of a lane enter a queue   *)
(* of bounded length and cross in the order they arrived, and two cars     *)
(* that are on the road at the same time never cover the same quadrant.    *)
(* Traffic.tla models the program of src/Assignment2/starter and           *)
(* implements this specification (Traffic!Abstract).                       *)
(***************************************************************************)
EXTENDS Integers, Sequences

CONSTANTS
    Lanes,       \* the directions cars come from, a subset of 0..3
    Capacity,    \* how many cars fit into the queue of a lane
    Car          \* the cars, records with fields id, in_dir and out_dir

VARIABLES
    waiting,     \* waiting[l]: the cars lane l has not queued yet, next first
    queue,       \* queue[l]: the cars queued in lane l, next to cross first
    crossed,     \* crossed[l]: the cars that came from l and crossed, in their order
    inside       \* the lanes whose first car is on the road

absVars == <<waiting, queue, crossed, inside>>

-----------------------------------------------------------------------------
(* Directions and quadrants are numbered against the clock (traffic.h,     *)
(* lines 9-15 and 69-76), and a car keeps to the right: it enters at the   *)
(* quadrant to the right of the direction it comes from, that is NORTH at  *)
(* 2, WEST at 3, SOUTH at 4 and EAST at 1.                                 *)
EntryQuadrant(in_dir) == CASE in_dir = 0 -> 2 [] in_dir = 1 -> 3
                           [] in_dir = 2 -> 4 [] in_dir = 3 -> 1

(* The quadrant a car is in after it has been in q: one further against    *)
(* the clock.                                                              *)
NextQuadrant(q) == IF q = 4 THEN 1 ELSE q + 1

(* What a car covers: the quadrant it enters at when it turns right, that  *)
(* and the next when it drives straight on, and the one after it as well   *)
(* when it turns left.  A U-turn takes the whole intersection.             *)
Footprint(car) ==
    LET first  == EntryQuadrant(car.in_dir)
        second == NextQuadrant(first)
        third  == NextQuadrant(second)
        turn   == (car.out_dir + 4 - car.in_dir) % 4
    IN  CASE turn = 1 -> {first}
          [] turn = 2 -> {first, second}
          [] turn = 3 -> {first, second, third}
          [] turn = 0 -> 1..4

-----------------------------------------------------------------------------
Init ==
    /\ waiting \in [Lanes -> Seq(Car)]
    /\ \A l \in Lanes : \A i \in DOMAIN waiting[l] : waiting[l][i].in_dir = l
    /\ queue = [l \in Lanes |-> <<>>]
    /\ crossed = [l \in Lanes |-> <<>>]
    /\ inside = {}

Arrive(l) ==
    /\ waiting[l] # <<>>
    /\ Len(queue[l]) < Capacity
    /\ waiting' = [waiting EXCEPT ![l] = Tail(@)]
    /\ queue' = [queue EXCEPT ![l] = Append(@, Head(waiting[l]))]
    /\ UNCHANGED <<crossed, inside>>

(* The first car of a lane drives onto the road: only when what it covers  *)
(* is covered by nobody.                                                   *)
Enter(l) ==
    /\ l \notin inside
    /\ queue[l] # <<>>
    /\ \A k \in inside : Footprint(Head(queue[l])) \cap Footprint(Head(queue[k])) = {}
    /\ inside' = inside \cup {l}
    /\ UNCHANGED <<waiting, queue, crossed>>

Leave(l) ==
    /\ l \in inside
    /\ crossed' = [crossed EXCEPT ![l] = Append(@, Head(queue[l]))]
    /\ queue' = [queue EXCEPT ![l] = Tail(@)]
    /\ inside' = inside \ {l}
    /\ UNCHANGED waiting

Next == \E l \in Lanes : Arrive(l) \/ Enter(l) \/ Leave(l)

Spec == Init /\ [][Next]_absVars
=============================================================================
