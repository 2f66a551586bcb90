SPECIFICATION FairSpec
CONSTANTS
    Node = {1, 2, 3}
    WordSize = 32
    FDs = {4, 5}
    Files = {f1}
    Layout <- MCChain
    Configs <- MCConfig
    FSFails = FALSE
    Overlapping = FALSE
    MaxMasters = 2
    StackDepth = 13
    Fallible = {"T", "L", "G", "S"}
    MaxFaults = 2
    Kills = FALSE
INVARIANTS TypeOK YamaSurvives LoadIsPendingTasks ResultComplete TransformationCoverage FinishedIsDone ReplanReplyIsThere
PROPERTIES ReplansElsewhere ReducesWhatWasTransformed MastersEnd
CHECK_DEADLOCK FALSE
