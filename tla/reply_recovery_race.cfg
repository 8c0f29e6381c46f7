SPECIFICATION Spec
CONSTANTS
    e1 = e1
    e2 = e2
    s1 = s1
    NoEvent = NoEvent
    Events = {e1}
    Sessions = {s1}
    SessionOf <- OneSession
    ThreadBound = {}
    MaxCrashes = 0
    Faults <- NoFaults
INVARIANTS
    RestartNoticeIsTrue
CHECK_DEADLOCK FALSE
