\* Two calls of run() in flight for one run id present the same approval.
CONSTANTS
    e1 = e1
    e2 = e2
    h1 = h1
    Executors = {e1, e2}
    Handles = {h1}
    Plans <- MCOnePlan
    StepsOf <- MCStepsOf
    NumSteps = 3
    Arguments = {"a", "b"}
    Overlap = TRUE
    NoHandle = NoHandle
    NoCheckpoint = NoCheckpoint
SPECIFICATION Spec
INVARIANTS OneUseApprovals
CHECK_DEADLOCK FALSE
