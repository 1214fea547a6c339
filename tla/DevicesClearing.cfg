SPECIFICATION ClearingSpec
CONSTANTS
    NoEpoch = NoEpoch
    NoCommand = NoCommand
    Epochs = {"r1", "r2", "op"}
    Runtimes = {"r1", "r2"}
    Dispatchers = {"d1", "d2", "d3"}
    DispatcherOf <- MCDispatcherOf
    Commands = {"c1", "c2"}
    Invalid = {"c2"}
    MaxOutcomes = 3
    None = None
    NotYet = NotYet
    Absent = Absent
    NoRecord = NoRecord
    Stop = Stop
INVARIANT
    ResolvedOnlyWhenSettled
CHECK_DEADLOCK FALSE
