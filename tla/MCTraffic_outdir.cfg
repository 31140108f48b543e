\* Two lanes with rings of two slots: the lists of cars that have crossed.
SPECIFICATION FairSpec
CONSTANTS
    Lanes <- MCTwoLanes
    LANE_LENGTH = 2
    Schedules <- MCTwoLaneSchedules
    NULL = NULL
INVARIANTS
    FiledByOutDir
