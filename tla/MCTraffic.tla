----------------------------- MODULE MCTraffic -----------------------------
(***************************************************************************)
(* Instances of Traffic for TLC.  A schedule is given by the directions of *)
(* its lines; the id of a car is the number of its line.                   *)
(***************************************************************************)
EXTENDS Traffic

NORTH == 0
WEST  == 1
SOUTH == 2
EAST  == 3

MCSchedule(dirs) ==
    [n \in DOMAIN dirs |-> [id |-> n, in_dir |-> dirs[n][1], out_dir |-> dirs[n][2]]]

(* Two neighbouring lanes.  A car in each, with every pair of routes; and  *)
(* up to four cars in any order of the lanes, those of one lane on a route *)
(* that crosses the route of the other: they fill a ring of two slots and  *)
(* wrap around it twice.                                                   *)
MCTwoLanes == {NORTH, WEST}
MCTwoLaneSchedules ==
    {MCSchedule(<< <<NORTH, t[1]>>, <<WEST, t[2]>> >>) : t \in Direction \X Direction}
        \cup {MCSchedule(s) : s \in BoundedSeq({<<NORTH, SOUTH>>, <<WEST, NORTH>>}, 4)}

=============================================================================
