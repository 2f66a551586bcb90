SPECIFICATION Spec
CONSTANTS
    Node = {1, 2, 3}
    WordSize = 32
    FDs = {4}
    Files = {f1, f2}
    Layout <- MCTwoFiles
    Configs <- MCConfigs
    FSFails = TRUE
    Overlapping = FALSE
    MaxMasters = 2
    StackDepth = 13
    Fallible = {"T", "L", "G", "S"}
    MaxFaults = 2
    Kills = TRUE
PROPERTIES JobsFollowLifecycle
CHECK_DEADLOCK FALSE
