SPECIFICATION MCSpec
CONSTANTS
    Epochs = {"p1", "p2"}
    NoEpoch = NoEpoch
    Watches = {"w1"}
    Targets = {"t1", "t2"}
    Situations = {"x1"}
    Commands <- MCCommands
    MaxFires = 2
    MaxClock = 2
    MaxEvents = 2
    NoIntent = NoIntent
    NoPreset = NoPreset
    Missing = Missing
    WatchInstall = WatchInstall
    NoRule = NoRule
    NoDecision = NoDecision
    NoDigest = NoDigest
    NoKind = NoKind
    UnknownCode = UnknownCode
    NoWork = NoWork
INVARIANTS
    AllowanceHolds
    FiredInScope
    RateCapHolds
    ApprovalsKept
PROPERTIES
    WatchIsFinal
    QueueDrains
CHECK_DEADLOCK FALSE
