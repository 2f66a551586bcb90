SPECIFICATION Spec
CONSTANTS
    Node = {1, 2, 3}
    WordSize = 32
    FDs = {4}
    Files = {f1, f2}
    Layout <- MCTwoFiles
    Configs <- MCConfig
    FSFails = FALSE
    Overlapping = FALSE
    MaxMasters = 2
    StackDepth = 13
    Fallible = {"T"}
    MaxFaults = 1
    Kills = FALSE
INVARIANTS TransformationOnReplica
CHECK_DEADLOCK FALSE
