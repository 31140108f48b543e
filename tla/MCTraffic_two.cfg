\* Two lanes with rings of two slots, up to four cars.
SPECIFICATION FairSpec
CONSTANTS
    Lanes <- MCTwoLanes
    LANE_LENGTH = 2
    Schedules <- MCTwoLaneSchedules
    NULL = NULL
INVARIANTS
    TypeOK
    RingConsistent
    NoLostWakeup
    NoUseAfterFree
    NoOvertaking
    NoCollision
    DeadlockFree
PROPERTIES
    ImplementsIntersection
    Termination
