CONSTANTS
    Runtimes = {r1}
    Operators = {o1}
    NoEpoch = NoEpoch
    Lease = 2
    MaxTime = 5
    NoWork = NoWork
SPECIFICATION MCSpec
PROPERTIES
    ImplementsFence
    DisplacedStopsServing
    StopEnds
    ApprovedDelivered
CHECK_DEADLOCK FALSE
