SPECIFICATION BarrierSpec
CONSTANTS
    Epochs = {"r1", "r2"}
    NoEpoch = NoEpoch
    Sources = {"s1", "s2"}
    NoTime <- TimeZero
    Settings <- MCSettings
    LatePolicy = "correct"
    Boots = {"b1", "b2"}
    NoBoot = NoBoot
    Operators <- HotAndLost
    MaxSeenBootIDs = 2
    NoValue = NoValue
    Nothing = Nothing
    InitialPhase = "open"
    Transitions <- Escalation
    OpenWhen <- Trouble
    CloseWhen <- Calm
    Cooldown = 2
    LatestInputs <- OperatorNames
    UnionInputs <- OperatorNames
    EvidenceLimit = 2
    Entities = {"x", "y"}
    PartitionOf <- OwnPartition
    MaxCachedSamples = 2
    MaxLog = 3
INVARIANT
    AnswersCoverEvents
CHECK_DEADLOCK FALSE
