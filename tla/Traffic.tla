------------------------------ MODULE Traffic ------------------------------
(***************************************************************************)
(* The traffic monitor of src/Assignment2/starter (cars.c, traffic.c,      *)
(* traffic.h): one arrival thread and one crossing thread per lane, a      *)
(* mutex with two condition variables and a ring buffer per lane, and one  *)
(* mutex per quadrant of the intersection.                                 *)
(*                                                                         *)
(* A step of a thread is what it does between two points where another     *)
(* thread can tell the difference: the taking of a mutex, a wait, or the   *)
(* end of the critical section it is in.  All fields of a lane are written *)
(* with the mutex of the lane held, so a critical section without a        *)
(* blocking call in it is one step.                                        *)
(***************************************************************************)
EXTENDS Integers, Sequences, FiniteSets, SequencesExt

CONSTANTS
    Lanes,        \* the directions cars come from, of NORTH..EAST = 0..3
    LANE_LENGTH,  \* slots in the ring buffer of a lane (traffic.h: 10)
    Schedules,    \* the schedule files, sequences of [id, in_dir, out_dir]
    NULL          \* the null pointer, no car

Direction == 0..3
Quadrant  == 1..4
Unowned   == -1
Car == [id : Nat, in_dir : Lanes, out_dir : Direction]

ASSUME LanesAssumption == Lanes \subseteq Direction
ASSUME LengthAssumption == LANE_LENGTH \in Nat \ {0}
ASSUME SchedulesAssumption == Schedules \subseteq Seq(Car)
ASSUME NULLAssumption == NULL \notin Car

VARIABLES
    file,      \* the schedule file
    line,      \* how many of its lines parse_schedule has read
    main,      \* the main thread: "parse", "join", "verified"
    in_cars,   \* in_cars[l]: linked list of the cars pending, head first
    out_cars,  \* out_cars[l]: linked list of cars that crossed, head first
    printed,   \* printed[l]: the cars whose line the crossing thread of l printed
    inc,       \* inc[l]: number of cars parsed for the lane
    passed,    \* passed[l]: number of cars of the lane that crossed
    buffer,    \* buffer[l]: the ring, a function from indices to cars
    head,      \* head[l]: index the next car is stored at
    tail,      \* tail[l]: index of the car that crosses next
    in_buf,    \* in_buf[l]: number of cars in the ring
    freed,     \* freed[l]: the ring was given back to the allocator
    lock,      \* lock[l]: the thread that holds the lane's mutex, or "free"
    quad,      \* quad[q]: the lane that holds the quadrant's mutex, or Unowned
    arrive,    \* arrive[l]: where the arrival thread of the lane is
    cross,     \* cross[l]: where the crossing thread of the lane is
    locks,     \* locks[l]: the path car_cross computed, as a set of quadrants
    todo       \* todo[l]: the part of locks[l] its loop still has to go through

laneData == <<in_cars, out_cars, printed, inc, passed, buffer, head, tail, in_buf, freed>>
vars == <<file, line, main, laneData, lock, quad, arrive, cross, locks, todo>>

(* An arrival thread is about to take the lane's mutex ("lock"), holds it  *)
(* and looks at in_cars ("test"), sleeps in cond_wait ("wait"), was woken  *)
(* and is about to take the mutex again ("relock"), has it again and       *)
(* re-examines the loop condition ("fill"), or has returned ("done").      *)
ArriveAt == {"lock", "test", "wait", "relock", "fill", "done"}

(* A crossing thread has the same places ("drain" is its "fill"), and is   *)
(* taking the quadrants of the path ("acquire"), giving them back and then *)
(* signalling ("release"), or out of its loop and about to free the ring   *)
(* ("free").                                                               *)
CrossAt == {"lock", "test", "wait", "relock", "drain",
            "acquire", "release", "free", "done"}

-----------------------------------------------------------------------------
(* compute_path.  The sweep of lines 244-247 goes up from (in+1) % 4 + 1   *)
(* to out + 1, with 5 read as 1; a faulty one would stop before out + 1.   *)
(* (Definitions with a suffix, like Sweep_short, are used by nothing: they *)
(* are ways to get the definition after them wrong, and each breaks the    *)
(* properties that README.md lists for it.)                                *)
Sweep_short(first, count) == {((first - 1 + k) % 4) + 1 : k \in 0..(count - 2)}

Sweep(first, count) == {((first - 1 + k) % 4) + 1 : k \in 0..(count - 1)}

compute_path(in_dir, out_dir) ==
    IF in_dir = out_dir
    THEN Quadrant
    ELSE LET first == ((in_dir + 1) % 4) + 1
         IN  Sweep(first, (out_dir + 6 - first) % 4)

(* The car at the end of the queue that crosses next. *)
NextCar(l) == buffer[l][tail[l]]

(* A faulty order: that in which the car drives through them. *)
NextQuad_driving(l) ==
    CHOOSE q \in todo[l] : \A p \in todo[l] : (q - l - 2) % 4 <= (p - l - 2) % 4

(* The quadrants are taken in the order of the sorted array compute_path   *)
(* returns, that is from 1 to 4.                                           *)
NextQuad(l) == CHOOSE q \in todo[l] : \A p \in todo[l] : q <= p

Held(l) == {q \in Quadrant : quad[q] = l}

Advance_unwrapped(i) == i + 1
Advance_stuck(i) == i
Advance(i) == (i + 1) % LANE_LENGTH

(* A signal that is sent to no one. *)
Signal_lost(at) == at

(* pthread_cond_signal: a thread that sleeps on the condition variable     *)
(* goes on to take the mutex again; otherwise the signal is lost.          *)
Signal(at) == IF at = "wait" THEN "relock" ELSE at

Full_never(l) == FALSE
Full(l)  == in_buf[l] = LANE_LENGTH
Empty(l) == in_buf[l] = 0

(* A crossing thread that returns when the ring is empty for the moment. *)
AllCrossed_early(l) == Empty(l)

(* The return conditions of car_arrive and car_cross. *)
AllArrived(l) == in_cars[l] = <<>>
AllCrossed(l) == in_cars[l] = <<>> /\ Empty(l)

-----------------------------------------------------------------------------
(* main: init_intersection, then parse_schedule, then the threads.  The    *)
(* ring is not initialised; no car is read from it before one is stored.   *)
Init ==
    /\ file \in Schedules
    /\ line = 0
    /\ main = "parse"
    /\ in_cars = [l \in Lanes |-> <<>>]
    /\ out_cars = [l \in Lanes |-> <<>>]
    /\ printed = [l \in Lanes |-> <<>>]
    /\ inc = [l \in Lanes |-> 0]
    /\ passed = [l \in Lanes |-> 0]
    /\ buffer = [l \in Lanes |-> [i \in 0..(LANE_LENGTH - 1) |-> NULL]]
    /\ head = [l \in Lanes |-> 0]
    /\ tail = [l \in Lanes |-> 0]
    /\ in_buf = [l \in Lanes |-> 0]
    /\ freed = [l \in Lanes |-> FALSE]
    /\ lock = [l \in Lanes |-> "free"]
    /\ quad = [q \in Quadrant |-> Unowned]
    /\ arrive = [l \in Lanes |-> "lock"]
    /\ cross = [l \in Lanes |-> "lock"]
    /\ locks = [l \in Lanes |-> {}]
    /\ todo = [l \in Lanes |-> {}]

(* One line of the schedule: the car goes to the HEAD of the list of the   *)
(* lane it comes from.                                                     *)
ParseLine ==
    /\ main = "parse"
    /\ line < Len(file)
    /\ LET car == file[line + 1]
           l   == car.in_dir
       IN  /\ in_cars' = [in_cars EXCEPT ![l] = <<car>> \o @]
           /\ inc' = [inc EXCEPT ![l] = @ + 1]
    /\ line' = line + 1
    /\ UNCHANGED <<file, main, out_cars, printed, passed, buffer, head, tail, in_buf,
                   freed, lock, quad, arrive, cross, locks, todo>>

(* The threads are created; main waits for them. *)
SpawnThreads ==
    /\ main = "parse"
    /\ line = Len(file)
    /\ main' = "join"
    /\ UNCHANGED <<file, line, laneData, lock, quad, arrive, cross, locks, todo>>

(* All threads have been joined: main prints the lists and ends. *)
Verify ==
    /\ main = "join"
    /\ \A l \in Lanes : arrive[l] = "done" /\ cross[l] = "done"
    /\ main' = "verified"
    /\ UNCHANGED <<file, line, laneData, lock, quad, arrive, cross, locks, todo>>

-----------------------------------------------------------------------------
(* car_arrive *)

(* pthread_mutex_lock, at the top of the loop or at the end of cond_wait.  *)
ArriveLock(l) ==
    /\ arrive[l] \in {"lock", "relock"}
    /\ lock[l] = "free"
    /\ lock' = [lock EXCEPT ![l] = "arrive"]
    /\ arrive' = [arrive EXCEPT ![l] = IF @ = "lock" THEN "test" ELSE "fill"]
    /\ UNCHANGED <<file, line, main, laneData, quad, cross, locks, todo>>

ArriveExit(l) ==
    /\ arrive[l] = "test"
    /\ AllArrived(l)
    /\ lock' = [lock EXCEPT ![l] = "free"]
    /\ arrive' = [arrive EXCEPT ![l] = "done"]
    /\ UNCHANGED <<file, line, main, laneData, quad, cross, locks, todo>>

(* in_cars was examined at the top of the loop, and is not examined again  *)
(* after a wait.                                                           *)
ArriveWait(l) ==
    /\ \/ arrive[l] = "test" /\ ~AllArrived(l)
       \/ arrive[l] = "fill"
    /\ Full(l)
    /\ lock' = [lock EXCEPT ![l] = "free"]
    /\ arrive' = [arrive EXCEPT ![l] = "wait"]
    /\ UNCHANGED <<file, line, main, laneData, quad, cross, locks, todo>>

(* The first pending car goes into the ring; signal and unlock. *)
ArrivePut(l) ==
    /\ \/ arrive[l] = "test" /\ ~AllArrived(l)
       \/ arrive[l] = "fill"
    /\ ~Full(l)
    /\ buffer' = [buffer EXCEPT ![l][head[l]] = Head(in_cars[l])]
    /\ in_cars' = [in_cars EXCEPT ![l] = Tail(@)]
    /\ head' = [head EXCEPT ![l] = Advance(@)]
    /\ in_buf' = [in_buf EXCEPT ![l] = @ + 1]
    /\ cross' = [cross EXCEPT ![l] = Signal(@)]
    /\ lock' = [lock EXCEPT ![l] = "free"]
    /\ arrive' = [arrive EXCEPT ![l] = "lock"]
    /\ UNCHANGED <<file, line, main, out_cars, printed, inc, passed, tail, freed,
                   quad, locks, todo>>

-----------------------------------------------------------------------------
(* car_cross *)

CrossLock(l) ==
    /\ cross[l] \in {"lock", "relock"}
    /\ lock[l] = "free"
    /\ lock' = [lock EXCEPT ![l] = "cross"]
    /\ cross' = [cross EXCEPT ![l] = IF @ = "lock" THEN "test" ELSE "drain"]
    /\ UNCHANGED <<file, line, main, laneData, quad, arrive, locks, todo>>

CrossExit(l) ==
    /\ cross[l] = "test"
    /\ AllCrossed(l)
    /\ lock' = [lock EXCEPT ![l] = "free"]
    /\ cross' = [cross EXCEPT ![l] = "free"]
    /\ UNCHANGED <<file, line, main, laneData, quad, arrive, locks, todo>>

CrossWait(l) ==
    /\ \/ cross[l] = "test" /\ ~AllCrossed(l)
       \/ cross[l] = "drain"
    /\ Empty(l)
    /\ lock' = [lock EXCEPT ![l] = "free"]
    /\ cross' = [cross EXCEPT ![l] = "wait"]
    /\ UNCHANGED <<file, line, main, laneData, quad, arrive, locks, todo>>

(* The path of the first car in the ring is computed; the mutex of the     *)
(* lane stays locked until the car has crossed.                            *)
CrossPath(l) ==
    /\ cross[l] \in {"test", "drain"}
    /\ ~Empty(l)
    /\ LET path == compute_path(NextCar(l).in_dir, NextCar(l).out_dir)
       IN  /\ locks' = [locks EXCEPT ![l] = path]
           /\ todo' = [todo EXCEPT ![l] = path]
    /\ cross' = [cross EXCEPT ![l] = "acquire"]
    /\ UNCHANGED <<file, line, main, laneData, lock, quad, arrive>>

(* One turn of the loop that locks the quadrants of the path. *)
CrossAcquire(l) ==
    /\ cross[l] = "acquire"
    /\ todo[l] # {}
    /\ quad[NextQuad(l)] = Unowned
    /\ quad' = [quad EXCEPT ![NextQuad(l)] = l]
    /\ todo' = [todo EXCEPT ![l] = @ \ {NextQuad(l)}]
    /\ UNCHANGED <<file, line, main, laneData, lock, arrive, cross, locks>>

(* The car leaves the ring for the head of out_cars of its own lane, and   *)
(* its line is printed.                                                    *)
CrossMove(l) ==
    /\ cross[l] = "acquire"
    /\ todo[l] = {}
    /\ out_cars' = [out_cars EXCEPT ![l] = <<NextCar(l)>> \o @]
    /\ printed' = [printed EXCEPT ![l] = Append(@, NextCar(l))]
    /\ buffer' = [buffer EXCEPT ![l][tail[l]] = NULL]
    /\ tail' = [tail EXCEPT ![l] = Advance(@)]
    /\ in_buf' = [in_buf EXCEPT ![l] = @ - 1]
    /\ passed' = [passed EXCEPT ![l] = @ + 1]
    /\ cross' = [cross EXCEPT ![l] = "release"]
    /\ todo' = [todo EXCEPT ![l] = locks[l]]
    /\ UNCHANGED <<file, line, main, in_cars, inc, head, freed, lock, quad,
                   arrive, locks>>

(* One turn of the loop that unlocks them. *)
CrossRelease(l) ==
    /\ cross[l] = "release"
    /\ todo[l] # {}
    /\ quad' = [quad EXCEPT ![NextQuad(l)] = Unowned]
    /\ todo' = [todo EXCEPT ![l] = @ \ {NextQuad(l)}]
    /\ UNCHANGED <<file, line, main, laneData, lock, arrive, cross, locks>>

(* The path is freed; signal and unlock. *)
CrossSignal(l) ==
    /\ cross[l] = "release"
    /\ todo[l] = {}
    /\ locks' = [locks EXCEPT ![l] = {}]
    /\ arrive' = [arrive EXCEPT ![l] = Signal(@)]
    /\ lock' = [lock EXCEPT ![l] = "free"]
    /\ cross' = [cross EXCEPT ![l] = "lock"]
    /\ UNCHANGED <<file, line, main, laneData, quad, todo>>

(* free(l->buffer), after the loop and with no mutex held. *)
CrossFree(l) ==
    /\ cross[l] = "free"
    /\ freed' = [freed EXCEPT ![l] = TRUE]
    /\ cross' = [cross EXCEPT ![l] = "done"]
    /\ UNCHANGED <<file, line, main, in_cars, out_cars, printed, inc, passed, buffer,
                   head, tail, in_buf, lock, quad, arrive, locks, todo>>

-----------------------------------------------------------------------------
(* pthread_cond_wait may return although nobody signalled. *)
SpuriousWakeup(l) ==
    /\ main = "join"
    /\ \/ /\ arrive[l] = "wait"
          /\ arrive' = [arrive EXCEPT ![l] = "relock"]
          /\ UNCHANGED cross
       \/ /\ cross[l] = "wait"
          /\ cross' = [cross EXCEPT ![l] = "relock"]
          /\ UNCHANGED arrive
    /\ UNCHANGED <<file, line, main, laneData, lock, quad, locks, todo>>

ArriveStep(l) ==
    main = "join" /\ (ArriveLock(l) \/ ArriveExit(l) \/ ArriveWait(l) \/ ArrivePut(l))

CrossStep(l) ==
    /\ main = "join"
    /\ \/ CrossLock(l) \/ CrossExit(l) \/ CrossWait(l) \/ CrossPath(l)
       \/ CrossAcquire(l) \/ CrossMove(l) \/ CrossRelease(l) \/ CrossSignal(l)
       \/ CrossFree(l)

MainStep == ParseLine \/ SpawnThreads \/ Verify

(* The program has ended. *)
Terminated == main = "verified" /\ UNCHANGED vars

Next ==
    \/ MainStep
    \/ \E l \in Lanes : ArriveStep(l) \/ CrossStep(l) \/ SpuriousWakeup(l)
    \/ Terminated

Spec == Init /\ [][Next]_vars

(* A thread that can go on eventually does.  Nothing is assumed of the     *)
(* mutexes: a thread that waits for one gets it eventually only if it is   *)
(* free from some time on.  For the same reason the spurious wakeups have  *)
(* to come to an end: a thread that is woken for nothing for ever takes    *)
(* the mutex of its lane for ever, and may always be the one to get it.    *)
Fairness ==
    /\ WF_vars(MainStep)
    /\ \A l \in Lanes : WF_vars(ArriveStep(l)) /\ WF_vars(CrossStep(l))
    /\ <>[][\A l \in Lanes : ~SpuriousWakeup(l)]_vars

FairSpec == Spec /\ Fairness

-----------------------------------------------------------------------------
(* Properties *)

(* Type correctness: indices stay inside the ring, counters and places     *)
(* inside their ranges.                                                    *)
TypeOK ==
    /\ file \in Schedules
    /\ line \in 0..Len(file)
    /\ main \in {"parse", "join", "verified"}
    /\ in_cars \in [Lanes -> Seq(Car)]
    /\ out_cars \in [Lanes -> Seq(Car)]
    /\ printed \in [Lanes -> Seq(Car)]
    /\ inc \in [Lanes -> Nat]
    /\ passed \in [Lanes -> Nat]
    /\ buffer \in [Lanes -> [0..(LANE_LENGTH - 1) -> Car \cup {NULL}]]
    /\ head \in [Lanes -> 0..(LANE_LENGTH - 1)]
    /\ tail \in [Lanes -> 0..(LANE_LENGTH - 1)]
    /\ in_buf \in [Lanes -> 0..LANE_LENGTH]
    /\ freed \in [Lanes -> BOOLEAN]
    /\ lock \in [Lanes -> {"free", "arrive", "cross"}]
    /\ quad \in [Quadrant -> Lanes \cup {Unowned}]
    /\ arrive \in [Lanes -> ArriveAt]
    /\ cross \in [Lanes -> CrossAt]
    /\ locks \in [Lanes -> SUBSET Quadrant]
    /\ todo \in [Lanes -> SUBSET Quadrant]

(* The ring of a lane, oldest car first. *)
Queued(l) == [k \in 1..in_buf[l] |-> buffer[l][(tail[l] + k - 1) % LANE_LENGTH]]

(* The cars that come from l among the first n lines of the file, in its   *)
(* order, for every n.                                                     *)
Lines(l) ==
    LET CarsOf[n \in 0..Len(file)] ==
            IF n = 0 THEN <<>>
            ELSE IF file[n].in_dir = l THEN Append(CarsOf[n - 1], file[n])
            ELSE CarsOf[n - 1]
    IN  CarsOf

Scheduled(l) == Lines(l)[Len(file)]

(* No car is lost, duplicated or overtaken on its way from the schedule    *)
(* through in_cars and the ring across the intersection, whatever the two  *)
(* threads of the lane do: the cars that crossed (in the order of the      *)
(* lines car_cross prints), the queued and the pending ones are at all     *)
(* times what was read of the schedule of the lane, last line first.       *)
NoOvertaking ==
    \A l \in Lanes :
        printed[l] \o Queued(l) \o in_cars[l] = Reverse(Lines(l)[line])

(* The ring and its three counters tell the same story: the slots from     *)
(* tail on hold in_buf cars, all others none, and head is where the next   *)
(* one goes.                                                               *)
RingConsistent ==
    \A l \in Lanes :
        /\ head[l] = (tail[l] + in_buf[l]) % LANE_LENGTH
        /\ \A k \in 0..(LANE_LENGTH - 1) :
               (buffer[l][(tail[l] + k) % LANE_LENGTH] # NULL) <=> (k < in_buf[l])

(* The first car of l is on the road: all its quadrants are taken, none is *)
(* given back yet.                                                         *)
OnRoad(l) == \/ cross[l] = "acquire" /\ todo[l] = {}
             \/ cross[l] = "release" /\ todo[l] = locks[l]

RoadCar(l) == IF cross[l] = "acquire" THEN NextCar(l) ELSE Head(out_cars[l])

(* The specification of the intersection, with the lists and rings of the  *)
(* program for its queues.  While the file is read, the cars that wait are *)
(* those of the file.                                                      *)
Abstract == INSTANCE Intersection WITH
    Capacity <- LANE_LENGTH,
    waiting  <- [l \in Lanes |-> IF main = "parse" THEN Reverse(Scheduled(l)) ELSE in_cars[l]],
    queue    <- [l \in Lanes |-> Queued(l)],
    crossed  <- printed,
    inside   <- {l \in Lanes : cross[l] = "acquire" /\ todo[l] = {}}

(* The monitor is an intersection: every step of every thread is a step of *)
(* Intersection or invisible there.                                        *)
ImplementsIntersection == Abstract!Spec

(* Mutual exclusion of the quadrants, by the rules of the road and not by  *)
(* the program's own path: cars of two lanes that are on the road together *)
(* never cover the same quadrant.                                          *)
NoCollision ==
    \A l, k \in Lanes :
        l # k /\ OnRoad(l) /\ OnRoad(k) =>
            Abstract!Footprint(RoadCar(l)) \cap Abstract!Footprint(RoadCar(k)) = {}

(* A thread that cannot take a step. *)
ArriveBlocked(l) ==
    \/ arrive[l] \in {"wait", "done"}
    \/ arrive[l] \in {"lock", "relock"} /\ lock[l] # "free"

CrossBlocked(l) ==
    \/ cross[l] \in {"wait", "done"}
    \/ cross[l] \in {"lock", "relock"} /\ lock[l] # "free"
    \/ cross[l] = "acquire" /\ todo[l] # {} /\ quad[NextQuad(l)] # Unowned

(* The order of the quadrants (traffic.h, line 77) does avoid deadlock,    *)
(* although a crossing thread waits for quadrants with the mutex of its    *)
(* lane held and a thread may sleep on either condition variable: as long  *)
(* as a thread has not returned, some thread can go on without a spurious  *)
(* wakeup.                                                                 *)
DeadlockFree ==
    main = "join" /\ (\E l \in Lanes : arrive[l] # "done" \/ cross[l] # "done")
        => \E l \in Lanes : ~ArriveBlocked(l) \/ ~CrossBlocked(l)

(* No wakeup is lost: a sleeping crossing thread has an empty ring and an  *)
(* arrival thread that will fill it, a sleeping arrival thread a full ring *)
(* (but for the one car that just crossed) and a crossing thread that will *)
(* drain it.                                                               *)
NoLostWakeup ==
    \A l \in Lanes :
        /\ cross[l] = "wait" =>
               /\ Empty(l)
               /\ in_cars[l] # <<>>
               /\ arrive[l] \notin {"wait", "done"}
        /\ arrive[l] = "wait" =>
               /\ in_cars[l] # <<>>
               /\ Full(l) \/ cross[l] = "release"
               /\ cross[l] \notin {"wait", "free", "done"}

(* The crossing thread frees the ring without a mutex: by then no thread   *)
(* has an access to it left.                                               *)
NoUseAfterFree ==
    \A l \in Lanes :
        freed[l] => in_cars[l] = <<>> /\ arrive[l] \notin {"wait", "relock", "fill"}

(* Every schedule is worked off: all threads return, main gets to verify,  *)
(* and by then every car of the file has crossed (the list of a lane is    *)
(* built at its head, so its last line is first).                          *)
Termination ==
    <>(main = "verified" /\ \A l \in Lanes : printed[l] = Reverse(Scheduled(l)))

(* out_cars is the "list of cars that have passed the intersection into    *)
(* this lane" (traffic.h, line 39), that is, those whose out_dir it is     *)
(* (cars.c, lines 145-147).                                                *)
FiledByOutDir ==
    \A l \in Lanes : \A i \in DOMAIN out_cars[l] : out_cars[l][i].out_dir = l

-----------------------------------------------------------------------------
(* The inductive invariant the safety properties rest on; its parts.       *)

(* Until the threads are created the lanes are as init_intersection left   *)
(* them, but for in_cars.                                                  *)
NotStarted ==
    main = "parse" =>
        \A l \in Lanes :
            /\ arrive[l] = "lock" /\ cross[l] = "lock"
            /\ lock[l] = "free" /\ in_buf[l] = 0 /\ ~freed[l]

(* The mutex of a lane is held by the thread whose place says so. *)
LockHeld ==
    \A l \in Lanes :
        /\ lock[l] = "arrive" <=> arrive[l] \in {"test", "fill"}
        /\ lock[l] = "cross" <=> cross[l] \in {"test", "drain", "acquire", "release"}

(* The ring, with its slots counted from tail and the wrap spelt out. *)
Slot(l, k) == IF tail[l] + k < LANE_LENGTH THEN tail[l] + k
                                           ELSE tail[l] + k - LANE_LENGTH

RingFilled ==
    \A l \in Lanes :
        /\ head[l] = Slot(l, in_buf[l])
        /\ \A k \in 0..(LANE_LENGTH - 1) :
               (buffer[l][Slot(l, k)] # NULL) <=> (k < in_buf[l])

(* What a thread knows of the lane at the places it can sleep or return at *)
LaneProgress ==
    \A l \in Lanes :
        /\ arrive[l] = "done" => in_cars[l] = <<>>
        /\ arrive[l] \in {"relock", "fill"} => in_cars[l] # <<>>
        /\ cross[l] \in {"free", "done"} => in_cars[l] = <<>> /\ Empty(l)
        /\ cross[l] \in {"wait", "relock", "drain"} /\ Empty(l) => in_cars[l] # <<>>
        /\ cross[l] = "acquire" => ~Empty(l)
        /\ freed[l] => cross[l] = "done"

(* The quadrants a lane holds are the ones its loops have gone through on  *)
(* the way in and not on the way out, and all below those it still wants.  *)
QuadsHeld ==
    \A l \in Lanes :
        /\ todo[l] \subseteq locks[l]
        /\ cross[l] = "acquire" =>
               /\ Held(l) = locks[l] \ todo[l]
               /\ \A q \in Held(l), p \in todo[l] : q < p
        /\ cross[l] = "release" => Held(l) = todo[l]
        /\ cross[l] \notin {"acquire", "release"} => Held(l) = {}

(* The path belongs to the car that crosses. *)
PathOfCar ==
    \A l \in Lanes :
        /\ cross[l] = "release" => out_cars[l] # <<>>
        /\ cross[l] \in {"acquire", "release"} =>
               locks[l] = compute_path(RoadCar(l).in_dir, RoadCar(l).out_dir)

IInv == /\ TypeOK /\ NotStarted /\ LockHeld /\ RingFilled /\ LaneProgress
        /\ QuadsHeld /\ PathOfCar /\ NoLostWakeup

=============================================================================
