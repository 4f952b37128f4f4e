\* One call of run() at a time, as the hosts in the repository make them: a run and its
\* resumption.  The steps of run() are fair.
CONSTANTS
    e1 = e1
    e2 = e2
    h1 = h1
    h2 = h2
    Executors = {e1, e2}
    Handles = {h1, h2}
    Plans <- MCPlans
    StepsOf <- MCStepsOf
    NumSteps = 3
    Arguments = {"a", "b"}
    Overlap = FALSE
    NoHandle = NoHandle
    NoCheckpoint = NoCheckpoint
SPECIFICATION FairSpec
INVARIANTS TypeOK OneUseApprovals SentWritesAreRecorded SentAsApproved
PROPERTIES HonestOutcome UnknownIsFinal CallsSettle
CHECK_DEADLOCK FALSE
