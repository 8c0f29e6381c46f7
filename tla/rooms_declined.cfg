SPECIFICATION Spec
CONSTANTS
    p1 = p1
    p2 = p2
    r1 = r1
    f1 = f1
    f2 = f2
    c1 = c1
    c2 = c2
    NewRoom = NewRoom
    NoProject = NoProject
    Projects = {p1, p2}
    Rooms = {}
    Covers <- Nested
    Flows = {f1}
    Creators = {c1}
    MaxAsked = 2
    MaxCrashes = 0
    Faults = {"send_fails"}
PROPERTIES
    DeclinedIsNotAsked
CHECK_DEADLOCK FALSE
