CONSTANTS
    NoEpoch = NoEpoch
    NoAttempt = NoAttempt
    NoItem = NoItem
    Epochs = {"r1", "r2", "op"}
    Runtimes = {"r1", "r2"}
    Runners = {"w1", "w2"}
    RunnerOf <- MCRunnerOf
    Items = {"i1"}
    SituationOf <- MCSituationOf
    TriggerOf <- MCTriggerOf
    Reconsiderations = {}
    Attempts = {a1, a2}
    MaxAttempts = 2
    MaxRebinds = 0
SPECIFICATION Spec
PROPERTIES
    ClosedIsTerminal
CHECK_DEADLOCK FALSE
