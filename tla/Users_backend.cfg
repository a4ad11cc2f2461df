SPECIFICATION Spec
CONSTANTS
    Focus = {"accounts", "passkeys", "client", "lessons", "challenges", "rows", "moods", "advice", "file", "privacy"}
    AccRequest = {"g", "g2", "l", "t", "s", "v1", "v2", "d", "x", "b1", "b2", "b3", "f1", "f2", "o", "o2", "c", "a1", "a2", "p"}
    AccKind <- AccKindOf
    AccBatches <- AccBatchesOf
    AccMaxOutages = 1
    Asking = {"o1", "o2", "o3", "o4"}
    Answering = {"k1", "k2"}
    Removing = {"kx"}
    Ceremony <- CeremonyOf
    KeyBatches <- KeyBatchesOf
    Device = {"d", "z"}
    Counting = {"d"}
    KeyMaxFaults = 1
    Mount = {"m1", "m2"}
    Call = {"w1", "w2"}
    Logout = {"out"}
    FirstPair = "first"
    WebBatches <- WebBatchesOf
    MaxLosses = 1
    TriedAmount = {0, 19, 20, 30, 50, 99, 100, 499, 500}
    TriedHour = {0, 1, 2, 4, 5, 12}
    RiskOf = {0, 30, 40, 50, 51, 60, 80}
    Spent = {0, 9, 10, 12, 13}
    Asked = {1, 2, 11}
    MaxAnswers = 3
    MaxFinished = 1
    Waits = {25}
    Ages = {0, 31}
    Amounts = {1, 3}
    MaxTime = 75
    MaxPayments = 2
    MaxQuizzes = 10
    MaxOverlap = 1
    Log = {"e1", "e2", "e3"}
    Purge = {"p1", "p2"}
    RowBatches <- RowBatchesOf
    Mirroring = {"e1"}
    Keep = 1
    Batch = 1
    DryRuns = {}
    MaxDays = 2
    Tagging = {"t1", "t2", "t3"}
    Bodies <- BodiesOf
    Payments <- PaymentsOf
    Hours = {120, 142}
    FailuresKept = 1
    Sent <- SentOf
    BudgetSets <- BudgetsOf
    AdviceRows = 4
    AskedOn = 220
    Texts = {"v1", "v2"}
    MaxTicks = 3
    Owner = {"ann", "1"}
    IdOf <- NumberOf
    Durations <- DurationsOf
    MaxConsents = 2
    MaxPids = 2
    LastDay = 1
INVARIANTS CodesHold CeremoniesHold SessionHolds LessonsHold RecordsHold
PROPERTIES MetricMoves
CHECK_DEADLOCK FALSE
