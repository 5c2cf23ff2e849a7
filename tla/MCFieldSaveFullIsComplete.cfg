CONSTANTS
    Contents <- MCContents
    SizeLimits <- MCSizeLimits
    Thresholds <- MCThresholds
    Policies = {"Try", "Force", "Ignore"}
    ReadKinds = {"Other"}
    WriteKinds = {"Other"}
    OpenFails = TRUE
    OpenOpts <- DefaultOpenOptions
    None = None
SPECIFICATION Spec
INVARIANT FullIsComplete
\* with_path returns once the field is saved, partly saved or failed
CHECK_DEADLOCK FALSE
