SPECIFICATION AuditSpec
CONSTANTS
    MaxBlocks = 3
    LegacyLength = 0
    Async = TRUE
    Faults = {"write"}
PROPERTIES OneLinePerBlock
