CONSTANTS
    Contents <- MCContents
    Limits <- MCLimits
    ReadFaults = TRUE
    WriteFaults = TRUE
    MaxFaults = 2
    None = None
SPECIFICATION FairSpec
INVARIANT TypeOK
PROPERTY CopyRefinesSpec
PROPERTY CopyReturns
\* try_copy_buf/try_copy_limited return after finitely many steps
CHECK_DEADLOCK FALSE
