CONSTANTS
    NoEpoch = NoEpoch
    NoAttempt = NoAttempt
    NoItem = NoItem
    Epochs = {"r1"}
    Runtimes = {"r1"}
    Runners = {"w1"}
    RunnerOf <- MCOneProcess
    Items = {"i1", "i2"}
    SituationOf <- MCSituationOf
    TriggerOf <- MCTriggerOf
    Reconsiderations = {"i2"}
    Attempts = {a1, a2, a3}
    MaxAttempts = 2
    MaxRebinds = 1
SPECIFICATION UndisturbedSpec
INVARIANTS
    OneLiveEpisode
PROPERTIES
    EpisodesFinish
CHECK_DEADLOCK FALSE
