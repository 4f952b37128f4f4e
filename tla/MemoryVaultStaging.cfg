\* Two ingests of one document id, the first of which is not rolled back.
CONSTANTS
    w = w
    d1 = d1
    r1 = r1
    r2 = r2
    g1 = g1
    a1 = a1
    s1 = s1
    s2 = s2
    k1 = k1
    k2 = k2
    p1 = p1
    p2 = p2
    Workspace = w
    Docs = {d1}
    Revs = {r1, r2}
    Grants = {}
    Artifacts = {}
    Stages = {s1, s2}
    Keys = {k1}
    Passphrases = {p1}
    Archives = {}
    LateErrors = FALSE
    MaxQueued = 1
    NoKey = NoKey
    NoHeader = NoHeader
    NoJob = NoJob
SPECIFICATION Spec
INVARIANTS AcknowledgedStays
SYMMETRY Symmetry
CHECK_DEADLOCK FALSE
