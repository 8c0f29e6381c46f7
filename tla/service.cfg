SPECIFICATION FairService
CONSTANTS
    Runtimes = {r1, r2, r3}
    Pids = {n1, n2, n3}
    NoRuntime = NoRuntime
    NoPid = NoPid
    Overlap = FALSE
    Foreign = TRUE
    MaxKills = 1
    WriteFails = TRUE
    Definitions = {d1, d2}
    NoDefinition = NoDefinition
    Home = d1
    NoSession = NoSession
    Scenarios <- MCScenarios
INVARIANTS
    StopIsFinal
    SocketIsTheOwners
    SettingsAreKept
PROPERTIES
    ReadyIsTrue
    ServiceComesBack
CHECK_DEADLOCK FALSE
