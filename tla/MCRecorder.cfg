CONSTANTS
    s1 = s1
    s2 = s2
    NoImage = NoImage
    Savers <- TwoSavers
    Wirings <- Wired
    ReadCommands <- Reads
    SyncCommands <- Syncs
    SaveCount <- Counts
    LastFile = 2
    MaxCounts <- Ends
    PoolSize = 2
    MaxTells = 4
SPECIFICATION Spec
CHECK_DEADLOCK FALSE
INVARIANTS TypeOK CountsKept
PROPERTIES PauseHolds
