SPECIFICATION MCSpec
CONSTANTS
    c1 = c1
    c2 = c2
    c3 = c3
    c4 = c4
    Calls = {c1, c2, c3, c4}
    i1 = i1
    i2 = i2
    i3 = i3
    Ids = {i1, i2, i3}
    MaximumQueued = 2
    Nobody = Nobody
    RuntimeCalls = {c1, c2, c3}
    r1 = r1
    r2 = r2
    Runtimes = {r1, r2}
INVARIANTS TypesOK IdsNameOneJob CancelledOnlyWhenAsked OneWorker EnvironmentIsScoped
PROPERTIES KeepsLanes EveryCallSettles InstallStays
CHECK_DEADLOCK FALSE
