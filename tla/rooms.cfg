SPECIFICATION ChatSpec
CONSTANTS
    p1 = p1
    p2 = p2
    r1 = r1
    f1 = f1
    f2 = f2
    c1 = c1
    c2 = c2
    NewRoom = NewRoom
    NoProject = NoProject
    Projects = {p1}
    Rooms = {r1}
    Covers <- Alone
    Flows = {f1, f2}
    Creators = {c1, c2}
    MaxAsked = 2
    MaxCrashes = 1
    Faults = {"send_fails", "provider_gone", "save_fails"}
    Folders = {p1, p2}
    MaxWords = 4
    HasOperator = FALSE
    Spoken <- MCSpoken
INVARIANTS
    QuestionIsAsked
    AnsweredByRoom
    MessagesAreUnderstood
PROPERTIES
    RefusalHolds
CHECK_DEADLOCK FALSE
