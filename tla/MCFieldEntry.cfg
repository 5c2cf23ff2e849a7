CONSTANTS
    Contents <- MCContents
    SizeLimits <- MCSizeLimits
    Thresholds <- MCThresholds
    Policies = {"Try", "Force", "Ignore"}
    ReadKinds = {"Other"}
    WriteKinds = {"Other"}
    OpenFails = TRUE
    OpenOpts <- MCOpenOpts
    EntryPoints = {"temp", "with_filename", "with_dir", "with_path"}
    TempDir <- MCTempDir
    Dirs <- MCDirs
    FileNames = {"f"}
    RandNames = {"r"}
    Paths <- MCPaths
    RivalBodies <- MCRivalBodies
    None = None
SPECIFICATION EntrySpec
INVARIANT TypeOK
INVARIANT NoByteLostOrDuplicated
INVARIANT SizeMatchesReadable
INVARIANT NoClobber
\* with_path returns once the field is saved, partly saved or failed
CHECK_DEADLOCK FALSE
