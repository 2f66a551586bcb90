SPECIFICATION Spec
CONSTANTS
    Node = {1, 2}
    WordSize = 32
    FDs = {4, 5}
    Files = {f1}
    Layout <- MCOneFile
    Configs <- MCConfig
    FSFails = FALSE
    Overlapping = TRUE
    MaxMasters = 2
    StackDepth = 13
    Fallible = {}
    MaxFaults = 0
    Kills = FALSE
PROPERTIES RefusedOnlyWhileReducing
CHECK_DEADLOCK FALSE
