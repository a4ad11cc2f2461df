SPECIFICATION Spec
CONSTANTS
    Focus = {"profiles", "notifications", "education", "training"}
    User = {"u"}
    Tx = {"ts", "ti"}
    Owner <- OwnerOf
    Seeded <- SeededOf
    Old = {}
    DemoUser = "u"
    ProfileRequest = {"i", "p", "t", "d", "s", "r"}
    ProfileBatches <- ProfileBatchesOf
    ProfileAsks <- ProfileAsksOf
    Shaky = TRUE
    MaxOutages = 1
    MaxRestarts = 1
    Note = {"n1", "n2"}
    Conn = {"c1", "c2"}
    MaxFaults = 1
    Course = {"c"}
    Steps <- StepsOf
    EduRequest = {"a1", "a2", "a3", "e1", "e2", "s", "u", "q"}
    EduBatches <- EduBatchesOf
    EduAsks <- EduAsksOf
    ChallengeBadge = "ch"
    None = "none"
    Request = {"m1", "m2"}
    TrainBatches <- TrainBatchesOf
    Tables <- TablesOf
    Chosen = {2, 6}
    MaxVersions = 2
    MaxBoots = 1
INVARIANTS StaleOnlyIfMissed OncePerConnection EarnedIsShown
PROPERTIES OpenIsReached TrainedStays
CHECK_DEADLOCK FALSE
