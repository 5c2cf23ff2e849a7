CONSTANTS
    Names = {"n1", "n2"}
    Requests <- MCRequests
    SizeLimits <- MCSizeLimits
    CountLimits <- MCCountLimits
    Thresholds = {3}
    Policies = {"Try"}
    DefaultMemoryThreshold = 2
    SourceFails = TRUE
    ReadKinds = {"Other"}
    WriteKinds = {"Other"}
    OpenFails = TRUE
    None = None
SPECIFICATION Spec
INVARIANT ConfiguredThresholdHonoured
\* with_entries returns, and keep_partial is called at most once
CHECK_DEADLOCK FALSE
