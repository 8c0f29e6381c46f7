SPECIFICATION FairSpec
CONSTANTS
    e1 = e1
    e2 = e2
    s1 = s1
    NoEvent = NoEvent
    Events = {e1, e2}
    Sessions = {s1}
    SessionOf <- OneSession
    ThreadBound = {e2}
    MaxCrashes = 1
    Faults <- AllButReloads
INVARIANTS
    AtMostOneTurn
    FailureNoticeIsTrue
    VerdictWasTold
PROPERTIES
    LeaseIsReleased
CHECK_DEADLOCK FALSE
