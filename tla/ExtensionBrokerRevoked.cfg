CONSTANTS
    h1 = h1
    g1 = g1
    Handles = {h1}
    Grants = {g1}
    Statuses = {"Needs review", "Approved"}
    Initially = "Needs review"
    MaxDocument = 2
    Overlap = FALSE
    FailWith = 0
    Nothing = Nothing
SPECIFICATION Spec
PROPERTIES NoWriteAfterRevocation
CHECK_DEADLOCK FALSE
