SPECIFICATION AuditSpec
CONSTANTS
    MaxBlocks = 4
    LegacyLength = 2
    Async = TRUE
    Faults = {"write", "power", "damage", "migrate"}
INVARIANTS ServesGenuineRun DiskMirrorsChain RefusesOnlyAfterLoss
PROPERTIES RefinesAuditLog WrittenInTheEnd
CHECK_DEADLOCK FALSE
