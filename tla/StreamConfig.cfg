SPECIFICATION Spec
CONSTANTS
    Requests <- MCRequests
    Syncs <- MCSyncs
    IntMax = 2000000
    Writable <- MCWritable
    RemoteLogos <- MCRemoteLogos
    NotReachedAborts = TRUE
INVARIANTS
    AcknowledgedRuns
    OptionReachesOneField
CHECK_DEADLOCK FALSE
