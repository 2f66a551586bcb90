SPECIFICATION Spec
CONSTANTS
    Node = {1, 2}
    WordSize = 32
    FDs = {4}
    Files = {f1}
    Layout <- MCOneFile
    Configs <- MCConfig
    FSFails = FALSE
    Overlapping = FALSE
    MaxMasters = 2
    StackDepth = 13
    Fallible = {}
    MaxFaults = 1
    Kills = TRUE
PROPERTIES StoresFinishedReduction
CHECK_DEADLOCK FALSE
