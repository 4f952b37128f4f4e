\* An import that becomes durable although the adapter reports an error.
CONSTANTS
    w = w
    d1 = d1
    r1 = r1
    r2 = r2
    g1 = g1
    a1 = a1
    s1 = s1
    k1 = k1
    k2 = k2
    p1 = p1
    p2 = p2
    Workspace = w
    Docs = {d1}
    Revs = {r1, r2}
    Grants = {g1}
    Artifacts = {a1}
    Stages = {s1}
    Keys = {k1, k2}
    Passphrases = {p1, p2}
    Archives <- MCArchives
    LateErrors = TRUE
    MaxQueued = 1
    NoKey = NoKey
    NoHeader = NoHeader
    NoJob = NoJob
SPECIFICATION Spec
INVARIANTS KeysNeverMixed
SYMMETRY Symmetry
CHECK_DEADLOCK FALSE
