SPECIFICATION Spec
CONSTANTS
    Focus = {"stepup"}
    Amounts = {10, 50, 500}
    Scores = {350, 660, 950}
    Node = {"n1", "n2"}
    Tx = {"t"}
    Answer = {1, 2, 3}
    Says <- SaysOf
    Faulty = FALSE
    Expires = FALSE
    Restarts = FALSE
    MaxOpens = 1
    MaxBlocks = 5
    LegacyLength = 2
    Async = FALSE
    Faults = {"write", "migrate"}
    Backups = 2
    LinesPerFile = 2
    MaxLines = 9
    MaxRollFaults = 1
    Payment = {"p", "q"}
    HourOf <- HoursOf
    MaxHistory = 3
    Retention = 2
    Windows = {0, 1, 2}
    Skew = 1
    MaxClock = 4
    MaxIngests = 4
    Account = {"a", "b", "c", "m"}
    Amount = {1, 3}
    Transfers <- TransfersOf
    Window = 1
    KeyLife = 2
    Day = 3
    MaxPerNode = 2
    MaxMinutes = 2
    MaxTransfers = 4
    MaxRedisFaults = 1
    Scored = {"r1", "r2", "r3"}
    About <- AboutOf
    MaxEntries = 2
    LiveWindow = 2
    RefLimit = 3
    References <- ReferencesOf
    NoVariant = "none"
    Server = {"s1", "s2"}
    Post = {"p1", "p2", "p3"}
    At <- AtOf
    MaxShared = 2
    MaxIntelFaults = 2
    MaxIntelRestarts = 1
    Limit = 2
    Second = 2
    Span = 6
    MaxTicks = 16
    Scorer = {"x", "y"}
    MinAuc = 80
    Bundles <- BundlesOf
    NoBundle = NoBundle
    Missing = Missing
    MaxReplaced = 2
    Amounts3 = {1, 9}
    Hours <- HoursOfDay
    MaxSequence = 4
    MinSequence = 3
    MaxAge = 2
    Ages <- AgesOf
    MaxScored = 5
    Rule = {"AMOUNT_BLOCK"}
    Flip = {"f1", "f2", "f3"}
    Turns <- TurnsOf
    Patch = {"p1", "p2"}
    Bodies <- BodiesOf
    Check = {"k1", "k2"}
    Lift = {"l1", "l2"}
    Default <- DefaultOf
    NoOne = "nobody"
    Token <- TokenOf
    Policies <- PoliciesOf
    RequestPath <- PathsOf
    Clock = {3, 12}
    RequireSignature = FALSE
    MaxRevoked = 2
    Attribute <- AttributeOf
    MaxLeaves = 3
    Device = {"d"}
    Segments = {"iot_sensors", "user_devices"}
    Challenge = {"c", "c2"}
    MaxWaits = 2
    EdgeNodes <- NodesOf
    EdgePayments <- PaymentsOf
    MaxGenerated = 3
    RowsOf <- RowNumbers
    Federations = {2, 3}
    Draws <- DrawsOf
    Predicted <- PredictedOf
    ScoresOf <- Coalitions
    MaxPermuted = 2
    Alphas = 1
    Pair = {"bank:A", "bank:AB", "subbank:A"}
    SameKey <- SameKeyOf
    Inside <- InsideOf
    Positions <- PositionsOf
    MaxWords = 6
INVARIANT OneDecision
CHECK_DEADLOCK FALSE
