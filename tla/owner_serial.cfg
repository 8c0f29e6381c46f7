SPECIFICATION Spec
CONSTANTS
    r1 = r1
    r2 = r2
    r3 = r3
    r4 = r4
    n1 = n1
    n2 = n2
    NoRuntime = NoRuntime
    NoPid = NoPid
    Runtimes = {r1, r2, r3, r4}
    Pids = {n1, n2}
    Overlap = FALSE
    Foreign = TRUE
    MaxKills = 3
    WriteFails = TRUE
INVARIANTS
    OwnerKeepsItsLock
PROPERTIES
    RefusalIsExplained
CHECK_DEADLOCK FALSE
