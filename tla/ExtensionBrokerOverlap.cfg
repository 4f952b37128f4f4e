CONSTANTS
    h1 = h1
    h2 = h2
    g1 = g1
    Handles = {h1, h2}
    Grants = {g1}
    Statuses = {"Needs review", "Approved"}
    Initially = "Needs review"
    MaxDocument = 2
    Overlap = TRUE
    FailWith = 0
    Nothing = Nothing
SPECIFICATION Spec
SYMMETRY Symmetry
INVARIANTS UnresolvedIsMarked
CHECK_DEADLOCK FALSE
