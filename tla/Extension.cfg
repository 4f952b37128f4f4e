CONSTANTS
    h1 = h1
    h2 = h2
    g1 = g1
    Handles = {h1, h2}
    Grants = {g1}
    Statuses = {"Needs review", "Approved"}
    Initially = "Needs review"
    MaxDocument = 2
    Overlap = FALSE
    FailWith = 1
    Nothing = Nothing
    Starts = {c1}
    Stops = {c3}
    Looks = {c4}
    Discards = {c4}
    PageStatuses = {s1, s2, s3}
    MaxDocuments = 2
    MaxClicks = 3
    MaxEvents = 2
SPECIFICATION MCSpec
SYMMETRY MCSymmetry
INVARIANTS TypesOK VerdictsAreTrue UnresolvedIsMarked RestartIsHonest RevocationSurvivesRestart KeptAsDone
CHECK_DEADLOCK FALSE
