SPECIFICATION FairNotifySpec
CONSTANTS
    m1 = m1
    m2 = m2
    c1 = c1
    c2 = c2
    x1 = x1
    x2 = x2
    x3 = x3
    t1 = t1
    t2 = t2
    Messages = {m1, m2, c1, c2, x1, x2, x3}
    Targets = {t1, t2}
    DuplicateWindow = 1
    DuplicateThreshold = 3
    GlobalPauseWindow = 2
    GlobalPauseThreshold = 2
    MaxTime = 3
    MaxAttempts = 6
    MaxCrashes = 1
    Faults = {"save_fails", "probe_timeout"}
    NumFiles = 2
    NumTurns = 3
    FileOf <- MCFileOf
    DesktopFiles = {1}
    ReplyTurns = {3}
    MaxDelivered = 1
    MaxDisturbances = 2
    TurnMessage <- MCTurnMessage
    Sessions = {c1, c2}
    Emitted = {m1, m2}
    MinDuration = 2
    Scenes <- MCScenes
INVARIANTS
    StormsAreCutOff
    PauseIsDurable
    AnnouncedOnce
    PromptIsItsOwn
    ShadowedIsWatched
    FilterIsRight
    OutcomeIsTrue
PROPERTIES
    PauseIsJustified
    LiveIsRouted
CHECK_DEADLOCK FALSE
