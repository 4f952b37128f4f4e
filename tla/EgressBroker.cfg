\* Two calls over one one-use handle; the clock moves both ways over 0..2.
CONSTANTS
    Senders = {s1, s2}
    Handles = {h1}
    Payloads = {p1}
    Contexts = {c1, c2}
    Lifetime = 1
    MaxUses = 1
    MaxTime = 2
    OnlineEnabled = TRUE
SPECIFICATION FairSpec
INVARIANTS TypeOK BoundedUse SentAsApproved ContextHeldWhileApproved
PROPERTIES NoUseAfterRevoke ExpiryIsFinal CallsSettle
CHECK_DEADLOCK FALSE
