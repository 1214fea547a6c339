CONSTANTS
    NoEpoch = NoEpoch
    NoAttempt = NoAttempt
    NoItem = NoItem
    Epochs = {"r1"}
    Runtimes = {"r1"}
    Runners = {"w1"}
    RunnerOf <- MCOneProcess
    Items = {"i1"}
    SituationOf <- MCSituationOf
    TriggerOf <- MCTriggerOf
    Reconsiderations = {}
    Attempts = {a1}
    MaxAttempts = 2
    MaxRebinds = 1
SPECIFICATION Spec
PROPERTIES
    DrainRefusesAdmission
CHECK_DEADLOCK FALSE
