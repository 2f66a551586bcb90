SPECIFICATION Spec
CONSTANTS
    Node = {1, 2, 3}
    WordSize = 32
    Files <- MCFiles
    AvailBases = {1, 2}
    Algorithms = {"WRR", "RR"}
    Reductions = TRUE
    NodeErrors = TRUE
    MaxTasks = 6
    StackDepth = 13
INVARIANTS TypeOK ClockInTable OverflowOnlyWhenNoReplicaIsHealthy
PROPERTIES WRRSelectsLeastLoaded
CHECK_DEADLOCK FALSE
