SPECIFICATION FairSpec
CONSTANTS
    e1 = e1
    e2 = e2
    s1 = s1
    NoEvent = NoEvent
    Events = {e1, e2}
    Sessions = {s1}
    SessionOf <- OneSession
    ThreadBound = {}
    MaxCrashes = 2
    Faults <- ReloadsAndPolls
INVARIANTS
    OneRunnerPerSession
PROPERTIES
    OnceSpec
    ClaimedEventFinishes
CHECK_DEADLOCK FALSE
