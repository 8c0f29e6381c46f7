SPECIFICATION Spec
CONSTANTS
    d1 = d1
    n1 = n1
    n2 = n2
    t1 = t1
    t2 = t2
    t3 = t3
    h1 = h1
    h2 = h2
    off = off
    None = None
    Sessions = {d1, n1, n2}
    Desktop = {d1}
    Threads = {t1, t2, t3}
    Configs = {h1, h2, off}
    Allowing = {h1, h2}
    Filtered = {h2}
    MaxUpdates = 2
    MaxReplies = 1
    MaxCommands = 2
    MaxReloads = 1
    MaxCrashes = 1
    Faults = {"send_unknown", "ledger_io"}
SYMMETRY Perms
INVARIANTS
    ThreadIsOneConversation
    OneThreadPerSession
    ShownIsConnected
    NewRunsOnce
CHECK_DEADLOCK FALSE
