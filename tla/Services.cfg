SPECIFICATION MCSpec
CONSTANTS
    x1 = x1
    x2 = x2
    x3 = x3
    y1 = y1
    y2 = y2
    q2 = q2
    p1 = p1
    p2 = p2
    s1 = s1
    s2 = s2
    None = None
    Error = Error
    TaskKinds <- TwoTasks
    Requests = {q2}
    TaskOf <- Summarizes
    AsksOnline = {q2}
    Environments <- MayBe
    CortexCalls = {x1, x2, x3}
    OnlineSessions <- TwoSessions
    Jobs = {x1, x2, x3}
    MaxRevision = 2
    SessionIds = {s1, s2}
    AllowedTypes <- TypesAllowed
    AllowedSources <- SourcesAllowed
    AllowedTools <- ToolsAllowed
    Tools = {1, 2}
    Documents = {y1, y2}
    RequestIds = {x1, x2, x3}
    BridgeSources = {1, 2}
    InactivityMs = 2
    MaxRequests = 2
    MaxTime = 2
    GrantIds = {s1, s2}
    GrantSources = {1}
    Operations = {"read"}
    UsageLimits = {1, 2}
    MaxClock = 2
    Disclosures = {y1, y2}
    Deliveries = {x1, x2, x3}
    MaxDisclosureLifetime = 2
    MaxReplayEntries = 1
    LastTime = 3
    Pages = {p1, p2}
    MaxMigrations = 2
SYMMETRY Symmetry
INVARIANTS TypesOK ExecutesAsReviewed UsesAreAsShown BudgetsHold OldOrNew ComputesAsMeant
CHECK_DEADLOCK FALSE
