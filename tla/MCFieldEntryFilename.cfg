CONSTANTS
    Contents <- MCContents
    SizeLimits <- MCSizeLimits
    Thresholds = {1}
    Policies = {"Try", "Ignore"}
    ReadKinds = {"Other"}
    WriteKinds = {"Other"}
    OpenFails = TRUE
    OpenOpts <- DefaultOpenOptions
    EntryPoints = {"with_filename"}
    TempDir <- MCTempDir
    Dirs <- MCDirs
    FileNames = {"f"}
    RandNames = {"r"}
    Paths <- MCPaths
    RivalBodies <- MCRivalBodies
    None = None
SPECIFICATION EntrySpec
INVARIANT FileInRequestedDir
\* with_path returns once the field is saved, partly saved or failed
CHECK_DEADLOCK FALSE
