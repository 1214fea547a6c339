SPECIFICATION MCSpec
CONSTANTS
    Epochs = {"p1", "p2"}
    NoEpoch = NoEpoch
    Handlers = {"h1", "h2"}
    Calls = {"c1"}
    Fences = {1, 2}
    NoDeadline = NoDeadline
    CallTime = 1
    Settings <- MCSettings
INVARIANTS
    DecisionFromOneStream
    CompletedCallsSettled
    OneAnswerPerCall
PROPERTIES
    CommittedForCurrentAttempt
CHECK_DEADLOCK FALSE
