SPECIFICATION MCSpec
CONSTANTS
    Epochs = {"r1", "r2", "op"}
    NoEpoch = "none"
    Catalog <- MCCatalog
    Allowed = {"notice", "valve", "mode"}
    Ceiling = "R2"
    Runtimes = {"r1", "r2"}
    Intents = {"i1", "i2"}
    NoIntent = "none"
    Principals = {"ann", "rob"}
    Keys = {"k1"}
    BucketOf <- MCBucketOf
    Deployments <- MCDeployments
    MaxVersion = 2
    Global = Global
    Unset = Unset
    NoLimit = NoLimit
    NoReservation = NoReservation
    NoCommand = NoCommand
    Tenants = {"t1", "t2"}
INVARIANTS
    OneQuestionOneAnswer
    SkipsAreExplained
    LimitsBalance
PROPERTIES
    PublishedUnderAuthority
    RowsClose
CHECK_DEADLOCK FALSE
