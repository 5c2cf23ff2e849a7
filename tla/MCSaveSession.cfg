CONSTANTS
    Names = {"n1", "n2"}
    Requests <- MCRequests
    SizeLimits <- MCSizeLimits
    CountLimits <- MCCountLimits
    Thresholds = {2}
    Policies = {"Try"}
    DefaultMemoryThreshold = 2
    SourceFails = TRUE
    ReadKinds = {"Other"}
    WriteKinds = {"Other"}
    OpenFails = TRUE
    EntryPoints = {"temp", "with_dir"}
    DirFails = TRUE
    RemoveFails = TRUE
    Combinators = {"okish", "into_opt_both", "into_result", "into_result_strict", "into_entries"}
    None = None
SPECIFICATION FairSessionSpec
INVARIANT SessionTypeOK
INVARIANT TypeOK
INVARIANT EntriesMatchSource
INVARIANT CountLimitRespected
INVARIANT RecordsResolve
PROPERTY TempDirReclaimed
PROPERTY SaveReturns
\* the request ends with the entry point's Error or the SaveDir released
CHECK_DEADLOCK FALSE
