----------------------- MODULE ServiceLifecycleProofs -----------------------
(***************************************************************************)
(* The owner of the state directory and the service, for any runtimes,     *)
(* process ids, definitions, budgets and scenarios: what the commands      *)
(* leave behind, what is up when they say that it is ready, where its      *)
(* socket is, and what becomes of the settings.                            *)
(***************************************************************************)
EXTENDS GuidedSetup, TLAPS

----------------------------------------------------------------------------
\* The owner of the state directory, for any number of starts, process ids, kills and
\* failed writes; it is one as long as starts do not overlap.

\* Every operation keeps the types.
LEMMA TypeStep == TypeOK /\ [Next]_vars => TypeOK'
<1> SUFFICES ASSUME TypeOK, [Next]_vars PROVE TypeOK'
  OBVIOUS
<1> USE RuntimeOwnerAssumption DEF TypeOK, GoTo, Starting, Holding, Ended, Alive
<1>1. CASE \E r \in Runtimes, n \in Pids : Begin(r, n)
  BY <1>1 DEF Begin
<1>2. CASE \E r \in Runtimes : Create(r)
  BY <1>2 DEF Create
<1>3. CASE \E r \in Runtimes : WriteInfo(r) \/ WriteInfoFails(r)
  BY <1>3 DEF WriteInfo, WriteInfoFails
<1>4. CASE \E r \in Runtimes : ReadInfo(r)
  BY <1>4 DEF ReadInfo
<1>5. CASE \E r \in Runtimes : Probe(r)
  BY <1>5 DEF Probe
<1>6. CASE \E r \in Runtimes : RemoveStale(r)
  BY <1>6 DEF RemoveStale
<1>7. CASE \E r \in Runtimes : ExitReads(r) \/ ExitRemoves(r)
  BY <1>7 DEF ExitReads, ExitRemoves
<1>8. CASE \E r \in Runtimes : Killed(r)
  BY <1>8 DEF Killed
<1>9. CASE \E n \in Pids : OtherProgram(n)
  BY <1>9 DEF OtherProgram
<1>10. CASE UNCHANGED vars
  BY <1>10 DEF vars
<1> QED
  BY <1>1, <1>2, <1>3, <1>4, <1>5, <1>6, <1>7, <1>8, <1>9, <1>10 DEF Next

\* The lock's types hold in every reachable state, overlapping starts or not.
THEOREM TypeCorrect == Spec => []TypeOK
<1>1. Init => TypeOK
  BY RuntimeOwnerAssumption DEF Init, TypeOK, Starting, Holding, Ended
<1> QED
  BY <1>1, TypeStep, PTL DEF Spec

\* What a start knows of the lock stays true until it acts on it, when no other
\* start is under way.
LEMMA StepKeepsIInv ==
    ASSUME Overlap = FALSE PROVE TypeOK /\ IInv /\ [Next]_vars => IInv'
<1> SUFFICES ASSUME TypeOK, IInv, [Next]_vars PROVE IInv'
  OBVIOUS
<1> USE RuntimeOwnerAssumption
    DEF TypeOK, IInv, OwnerKeepsItsLock, OneStart, WriterHasItsLock, ProbedIsTheLock,
        RemovedIsStale, GoTo, Starting, Holding, Ended, Alive
<1>1. CASE \E r \in Runtimes, n \in Pids : Begin(r, n)
  BY <1>1 DEF Begin, Used
<1>2. CASE \E r \in Runtimes : Create(r)
  BY <1>2 DEF Create
<1>3. CASE \E r \in Runtimes : WriteInfo(r) \/ WriteInfoFails(r)
  BY <1>3 DEF WriteInfo, WriteInfoFails
<1>4. CASE \E r \in Runtimes : ReadInfo(r)
  BY <1>4 DEF ReadInfo
<1>5. CASE \E r \in Runtimes : Probe(r)
  BY <1>5 DEF Probe, Used
<1>6. CASE \E r \in Runtimes : RemoveStale(r)
  BY <1>6 DEF RemoveStale
<1>7. CASE \E r \in Runtimes : ExitReads(r) \/ ExitRemoves(r)
  BY <1>7 DEF ExitReads, ExitRemoves
<1>8. CASE \E r \in Runtimes : Killed(r)
  BY <1>8 DEF Killed
<1>9. CASE \E n \in Pids : OtherProgram(n)
  BY <1>9 DEF OtherProgram
<1>10. CASE UNCHANGED vars
  BY <1>10 DEF vars
<1> QED
  BY <1>1, <1>2, <1>3, <1>4, <1>5, <1>6, <1>7, <1>8, <1>9, <1>10 DEF Next

\* The inductive invariant holds in every reachable state of serial starts.
THEOREM Invariance == ASSUME Overlap = FALSE PROVE Spec => [](TypeOK /\ IInv)
<1>1. Init => TypeOK /\ IInv
  BY RuntimeOwnerAssumption
  DEF Init, TypeOK, IInv, OwnerKeepsItsLock, OneStart, WriterHasItsLock, ProbedIsTheLock,
      RemovedIsStale, Starting, Holding, Ended, Alive
<1>2. TypeOK /\ IInv /\ [Next]_vars => (TypeOK /\ IInv)'
  BY TypeStep, StepKeepsIInv
<1> QED
  BY <1>1, <1>2, PTL DEF Spec

\* Two runtimes never own the state directory at once.
THEOREM SingleOwner == ASSUME Overlap = FALSE PROVE Spec => []OneOwner
<1>1. TypeOK /\ IInv => OneOwner
  BY DEF IInv, OwnerKeepsItsLock, OneOwner
<1> QED
  BY <1>1, Invariance, PTL

\* No start and no exit takes the lock of a runtime that still owns the state.
THEOREM LockIsKept == ASSUME Overlap = FALSE PROVE Spec => []OwnerKeepsItsLock
<1>1. TypeOK /\ IInv => OwnerKeepsItsLock
  BY DEF IInv
<1> QED
  BY <1>1, Invariance, PTL

\* A start is refused only by another owner, by another program that has the id in the lock,
\* or because it has that id itself: no lock that was left behind is an obstacle.
THEOREM RefusalHasAReason == ASSUME Overlap = FALSE PROVE Spec => RefusalIsExplained
<1> DEFINE Explained == \A r \in Runtimes : at[r] # "refused" /\ at'[r] = "refused"
                            => \/ \E q \in Runtimes \ {r} : at[q] \in Holding
                               \/ seen[r] \in foreign \cup {pid[r]}
<1>1. ASSUME TypeOK, IInv, [Next]_vars PROVE [Explained]_vars
  <2> SUFFICES ASSUME NEW r \in Runtimes, at[r] # "refused", at'[r] = "refused"
               PROVE  \/ \E q \in Runtimes \ {r} : at[q] \in Holding
                      \/ seen[r] \in foreign \cup {pid[r]}
    OBVIOUS
  <2> USE DEF TypeOK, GoTo
  <2>1. Probe(r)
    <3>1. ASSUME NEW q \in Runtimes, NEW n \in Pids, Begin(q, n) PROVE FALSE
      BY <1>1, <3>1 DEF Begin
    <3>2. ASSUME NEW q \in Runtimes, Create(q) \/ WriteInfo(q) \/ WriteInfoFails(q) PROVE FALSE
      BY <1>1, <3>2 DEF Create, WriteInfo, WriteInfoFails
    <3>3. ASSUME NEW q \in Runtimes, ReadInfo(q) \/ RemoveStale(q) PROVE FALSE
      BY <1>1, <3>3 DEF ReadInfo, RemoveStale
    <3>4. ASSUME NEW q \in Runtimes, ExitReads(q) \/ ExitRemoves(q) \/ Killed(q) PROVE FALSE
      BY <1>1, <3>4 DEF ExitReads, ExitRemoves, Killed
    <3>5. ASSUME NEW q \in Runtimes, Probe(q), q # r PROVE FALSE
      BY <1>1, <3>5 DEF Probe
    <3>6. UNCHANGED at => FALSE
      OBVIOUS
    <3>. QED
      BY <1>1, <3>1, <3>2, <3>3, <3>4, <3>5, <3>6 DEF Next, OtherProgram, vars
  <2>2. at[r] = "probing" /\ Used(seen[r])
    BY <2>1 DEF Probe
  <2>3. ASSUME NEW q \in Runtimes, Alive(q), pid[q] = seen[r], q # r PROVE at[q] \in Holding
    BY <1>1, <2>2, <2>3 DEF Alive, IInv, OneStart, Starting
  <2>. QED
    BY <2>2, <2>3 DEF Used
<1>. QED
  BY <1>1, Invariance, PTL DEF Spec, RefusalIsExplained

----------------------------------------------------------------------------
\* Where a command can be.

Managers   == {"launchd", "systemd", "tasks"}
Beginning  == {"migrating", "carrying", "filling", "dropping", "ending legacy",
               "ending process", "clearing", "loading", "asking", "checking"}
Ending     == {"stopping", "ending", "cleaning"}
Removing   == {"removing", "erasing", "wiping"}
Installing == {"unloading", "writing", "creating", "ending task"}
Launching  == {"bootstrapping", "kicking", "reloading", "enabling", "restarting", "running task"}
Closing    == {"recording", "waiting"}
Places     == Beginning \cup Ending \cup Removing \cup Installing \cup Launching \cup Closing
                \cup {"reading", "installing", "done", "failed"}

AllCommands == {"none", "start", "restart", "stop", "uninstall", "setup", "update"}
Statuses    == {"absent", "running", "idle"}

CliTypes ==
    cli \in [cmd : AllCommands, at : Places, want : Definitions \cup {NoDefinition},
            found : Statuses, aborted : BOOLEAN, ignored : BOOLEAN, overtaken : BOOLEAN]

ServiceTypes ==
    /\ manager \in Managers
    /\ CliTypes
    /\ {file, loaded, metadata} \subseteq Definitions \cup {NoDefinition}
    /\ job \in [state : {"off", "asked", "waiting", "up"}, run : Runtimes \cup {NoRuntime},
                def : Definitions \cup {NoDefinition}]

\* Each place belongs to some commands and managers, and those that start the service
\* want a definition.
PlaceFits ==
    /\ cli.at \in Beginning => cli.cmd \in {"start", "setup"}
    /\ cli.at \in Ending => cli.cmd \in {"restart", "setup", "update", "stop", "uninstall"}
    /\ cli.at \in Removing => cli.cmd = "uninstall"
    /\ cli.at \in {"reading"} \cup Installing \cup Launching \cup Closing
          => cli.cmd \in {"start", "restart", "setup"}
    /\ cli.at = "installing" => cli.cmd \in {"setup", "update"}
    /\ cli.at = "loading" => cli.cmd = "start"
    /\ cli.cmd \in {"start", "restart", "setup", "update"} => cli.want \in Definitions
    /\ cli.at \in {"unloading", "bootstrapping", "kicking"} => manager = "launchd"
    /\ cli.at \in {"reloading", "enabling", "restarting"} => manager = "systemd"
    /\ cli.at \in {"creating", "ending task", "running task"} => manager = "tasks"
    /\ cli.at = "writing" => manager # "tasks"
    /\ cli.at = "removing" => manager # "launchd"

\* Nothing runs or is about to, unless an error of the manager was ignored.
Down == job.state = "off" \/ cli.ignored

\* Without a file there is no service.
FileFits ==
    /\ cli.at \in Launching \cup Closing => file # NoDefinition
    /\ file = NoDefinition => Down
    /\ manager = "tasks" => job.state # "waiting"

\* What a command has ended stays down until it goes on to start the service.
EndedIsDown ==
    /\ cli.at = "erasing" => Down
    /\ cli.cmd \in {"stop", "uninstall"} /\ cli.at \in {"cleaning", "wiping", "done"}
          => Down \/ (manager = "systemd" /\ cli.found = "idle")

serviceVars == <<manager, file, loaded, job, metadata, cli>>

CommandFits == ServiceTypes /\ PlaceFits /\ FileFits /\ EndedIsDown

\* Each of them is one of these.
LEMMA PlacesAre ==
    /\ {"migrating", "carrying", "filling", "dropping", "ending legacy", "ending process",
        "clearing", "loading", "asking", "checking"} \subseteq Places
    /\ {"stopping", "ending", "cleaning", "removing", "erasing", "wiping"} \subseteq Places
    /\ {"unloading", "writing", "creating", "ending task", "bootstrapping", "kicking",
        "reloading", "enabling", "restarting", "running task"} \subseteq Places
    /\ {"recording", "waiting", "reading", "installing", "done", "failed"} \subseteq Places
  BY DEF Places, Beginning, Ending, Removing, Installing, Launching, Closing

\* A command that only goes on to another place.
LEMMA Goes ==
    ASSUME CliTypes, NEW p \in Places, cli' = [cli EXCEPT !.at = p]
    PROVE  /\ CliTypes' /\ cli'.at = p
           /\ cli'.cmd = cli.cmd /\ cli'.want = cli.want /\ cli'.found = cli.found
           /\ cli'.aborted = cli.aborted /\ cli'.ignored = cli.ignored
           /\ cli'.overtaken = cli.overtaken
  BY DEF CliTypes

\* What a command that starts the service does after its look at it.
LEMMA ReadsLooks ==
    ASSUME ServiceTypes, Reads
    PROVE  /\ cli.at = "reading" /\ CliTypes' /\ cli'.found = Status
           /\ cli'.cmd = cli.cmd /\ cli'.want = cli.want
           /\ cli'.aborted = cli.aborted /\ cli'.ignored = cli.ignored
           /\ cli'.overtaken = cli.overtaken
           /\ \/ Status = "running" /\ ~Differs /\ cli'.at = "recording"
              \/ manager = "launchd" /\ cli'.at = IF Differs THEN "unloading" ELSE "bootstrapping"
              \/ /\ manager = "systemd" /\ (Status # "running" \/ Differs)
                 /\ cli'.at = IF Differs THEN "writing" ELSE "enabling"
              \/ /\ manager = "tasks"
                 /\ cli'.at = IF Status = "running" THEN "ending task" ELSE "creating"
<1> DEFINE status  == Status
           differs == Differs
           place   == IF status = "running" /\ ~differs THEN "recording"
                      ELSE [launchd |-> IF differs THEN "unloading" ELSE "bootstrapping",
                            systemd |-> IF differs THEN "writing" ELSE "enabling",
                            tasks |-> IF status = "running" THEN "ending task"
                                      ELSE "creating"][manager]
<1>1. cli.at = "reading" /\ cli' = [cli EXCEPT !.found = status, !.at = place]
  BY DEF Reads
<1>2. status \in Statuses
  BY DEF Status, Statuses
<1> HIDE DEF status, differs
<1>3. \/ status = "running" /\ ~differs /\ place = "recording"
      \/ manager = "launchd" /\ place = IF differs THEN "unloading" ELSE "bootstrapping"
      \/ /\ manager = "systemd" /\ (status # "running" \/ differs)
         /\ place = IF differs THEN "writing" ELSE "enabling"
      \/ /\ manager = "tasks"
         /\ place = IF status = "running" THEN "ending task" ELSE "creating"
  <2>1. CASE status = "running" /\ ~differs
    BY <2>1
  <2>2. CASE ~(status = "running" /\ ~differs) /\ manager = "launchd"
    BY <2>2
  <2>3. CASE ~(status = "running" /\ ~differs) /\ manager = "systemd"
    BY <2>3
  <2>4. CASE ~(status = "running" /\ ~differs) /\ manager = "tasks"
    BY <2>4
  <2>. QED
    BY <2>1, <2>2, <2>3, <2>4 DEF ServiceTypes, Managers
<1>4. place \in Places
  BY <1>3 DEF Places, Installing, Launching, Closing
<1> HIDE DEF place
<1>5. /\ CliTypes' /\ cli'.at = place /\ cli'.found = status
      /\ cli'.cmd = cli.cmd /\ cli'.want = cli.want
      /\ cli'.aborted = cli.aborted /\ cli'.ignored = cli.ignored
      /\ cli'.overtaken = cli.overtaken
  BY <1>1, <1>2, <1>4 DEF ServiceTypes, CliTypes
<1>. QED
  BY <1>1, <1>3, <1>5 DEF status, differs

\* Where a command goes on when the socket file is away.
LEMMA CleansThen ==
    ASSUME CommandFits, Cleans
    PROVE  /\ cli.at = "cleaning" /\ CliTypes'
           /\ cli'.cmd = cli.cmd /\ cli'.want = cli.want /\ cli'.found = cli.found
           /\ cli'.aborted = cli.aborted /\ cli'.ignored = cli.ignored
           /\ cli'.overtaken = cli.overtaken
           /\ \/ cli.cmd \in {"restart", "setup"} /\ cli'.at = "reading"
              \/ cli.cmd = "update" /\ cli'.at = "installing"
              \/ cli.cmd = "stop" /\ cli'.at = "done"
              \/ cli.cmd = "uninstall" /\ cli'.at = "wiping"
<1> DEFINE place == [restart |-> "reading", setup |-> "reading", update |-> "installing",
                     stop |-> "done", uninstall |-> "wiping"][cli.cmd]
<1>1. cli.at = "cleaning" /\ cli' = [cli EXCEPT !.at = place]
  BY DEF Cleans, Then
<1>2. cli.cmd \in {"restart", "setup", "update", "stop", "uninstall"}
  BY <1>1 DEF CommandFits, PlaceFits, Ending
<1>3. \/ cli.cmd \in {"restart", "setup"} /\ place = "reading"
      \/ cli.cmd = "update" /\ place = "installing"
      \/ cli.cmd = "stop" /\ place = "done"
      \/ cli.cmd = "uninstall" /\ place = "wiping"
  <2>1. CASE cli.cmd = "restart"
    BY <2>1
  <2>2. CASE cli.cmd = "setup"
    BY <2>2
  <2>3. CASE cli.cmd = "update"
    BY <2>3
  <2>4. CASE cli.cmd = "stop"
    BY <2>4
  <2>5. CASE cli.cmd = "uninstall"
    BY <2>5
  <2>. QED
    BY <1>2, <2>1, <2>2, <2>3, <2>4, <2>5
<1>4. place \in Places
  BY <1>3 DEF Places, Removing
<1> HIDE DEF place
<1>. QED
  BY <1>1, <1>3, <1>4, Goes DEF CommandFits, ServiceTypes


\* What a step does to the service: its own steps, and the rest of the program.
LEMMA CasesOfNext ==
    ASSUME [GuidedNext]_setupVars
    PROVE  \/ StopLooks \/ StopEnds \/ StopIgnores \/ RemovalEnds \/ Erases \/ Cleans \/ Wipes
           \/ Reads \/ Unloads \/ WritesFile \/ Bootstraps \/ Kicks \/ Reloads \/ Restarts
           \/ Enables \/ EndsTask \/ CreatesTask \/ RunsTask \/ Records \/ Ready \/ TimesOut
           \/ Aborts \/ Migrates \/ Truncates \/ Carries \/ Drops \/ LegacyRuns \/ RemovesService
           \/ EndsProcess \/ Clears \/ Loads \/ CannotAsk \/ Updates \/ Installs \/ Writes
           \/ Checks \/ JobEnds
           \/ \E c \in {"start", "restart", "stop", "uninstall"},
                 d \in Definitions \cup {NoDefinition} : Command(c, d)
           \/ \E c \in {"setup", "open"} : Opens(c)
           \/ \E r \in Runtimes, n \in Pids : Launch(r, n)
           \/ UNCHANGED serviceVars
<1> USE DEF serviceVars
<1>1. CASE CliNext
  BY <1>1 DEF CliNext
<1>2. CASE RunNext
  <2>1. ASSUME NEW r \in Runtimes, NEW n \in Pids, Foreground(r, n)
        PROVE  UNCHANGED serviceVars
    BY <2>1 DEF Foreground
  <2>2. ASSUME NEW r \in Runtimes,
               \/ Acquire(r) \/ WriteTorn(r) \/ Bind(r) \/ BindRefused(r) \/ TaskEnds(r)
               \/ Leave(r) \/ CloseSocket(r) \/ Dies(r)
        PROVE  UNCHANGED serviceVars
    BY <2>2
       DEF Acquire, WriteTorn, Bind, BindRefused, TaskEnds, Leave, CloseSocket, Dies, service
  <2>3. ASSUME NEW n \in Pids, OtherTakes(n) PROVE UNCHANGED serviceVars
    BY <2>3 DEF OtherTakes
  <2>. QED
    BY <1>2, <2>1, <2>2, <2>3 DEF RunNext
<1>3. ASSUME NEW r \in Runtimes, Forget(r) PROVE UNCHANGED serviceVars
  BY <1>3 DEF Forget
<1>4. ASSUME NEW r \in Runtimes, Rereads(r) PROVE UNCHANGED serviceVars
  BY <1>4 DEF Rereads, allVars, service
<1>5. CASE UNCHANGED setupVars
  BY <1>5 DEF setupVars, allVars, service
<1>. QED
  BY <1>1, <1>2, <1>3, <1>4, <1>5 DEF GuidedNext, ServiceNext, SetupNext

\* The variables of the service keep their types.
LEMMA ServiceTypesStep ==
    ASSUME CommandFits, [GuidedNext]_setupVars
    PROVE  ServiceTypes'
<1> USE ServiceAssumption, HomeAssumption
    DEF CommandFits, ServiceTypes, CliTypes, AllCommands, Statuses, Managers, Then, Off,
        Asked, Asks, AtThePrompt
<1>1. CASE StopLooks
  BY <1>1, PlacesAre DEF StopLooks, Status
<1>2. CASE StopEnds
  BY <1>2, PlacesAre DEF StopEnds
<1>3. CASE StopIgnores
  BY <1>3, PlacesAre DEF StopIgnores
<1>4. CASE RemovalEnds
  <2>1. UNCHANGED <<manager, file, loaded, metadata>>
    BY <1>4 DEF RemovalEnds
  <2>2. CASE Then("cleaning") /\ UNCHANGED job
    BY <2>1, <2>2, PlacesAre
  <2>3. CASE Then("erasing") /\ job' = Off
    BY <2>1, <2>3, PlacesAre
  <2>4. CASE cli' = [cli EXCEPT !.at = "erasing", !.ignored = TRUE] /\ UNCHANGED job
    BY <2>1, <2>4, PlacesAre
  <2>. QED
    BY <1>4, <2>2, <2>3, <2>4 DEF RemovalEnds
<1>5. CASE Erases
  BY <1>5, PlacesAre DEF Erases
<1>6. CASE Cleans
  BY <1>6, CleansThen DEF Cleans
<1>7. CASE Wipes
  BY <1>7, PlacesAre DEF Wipes
<1>8. CASE Reads
  BY <1>8, ReadsLooks DEF Reads
<1>9. CASE Unloads
  BY <1>9, PlacesAre DEF Unloads
<1>10. CASE WritesFile
  BY <1>10, PlacesAre DEF WritesFile
<1>11. CASE Bootstraps
  <2>1. /\ cli' = [cli EXCEPT !.at = "kicking"] /\ UNCHANGED <<manager, file, metadata>>
        /\ \/ loaded' = file /\ job' = Asked
           \/ UNCHANGED <<loaded, job>>
    BY <1>11 DEF Bootstraps
  <2>2. CliTypes'
    BY <2>1, PlacesAre, Goes
  <2>. QED
    BY <2>1, <2>2
<1>12. CASE Kicks
  BY <1>12, PlacesAre DEF Kicks
<1>13. CASE Reloads
  BY <1>13, PlacesAre DEF Reloads
<1>14. CASE Restarts
  BY <1>14, PlacesAre DEF Restarts
<1>15. CASE Enables
  BY <1>15, PlacesAre DEF Enables
<1>16. CASE EndsTask
  <2>1. UNCHANGED <<manager, file, loaded, metadata>>
    BY <1>16 DEF EndsTask
  <2>2. CASE Then("creating") /\ job' = Off
    BY <2>1, <2>2, PlacesAre
  <2>3. CASE cli' = [cli EXCEPT !.at = "creating", !.ignored = TRUE] /\ UNCHANGED job
    BY <2>1, <2>3, PlacesAre
  <2>. QED
    BY <1>16, <2>2, <2>3 DEF EndsTask
<1>17. CASE CreatesTask
  BY <1>17, PlacesAre DEF CreatesTask
<1>18. CASE RunsTask
  BY <1>18, PlacesAre DEF RunsTask
<1>19. CASE Records
  BY <1>19, PlacesAre DEF Records
<1>20. CASE Ready
  BY <1>20, PlacesAre DEF Ready
<1>21. CASE TimesOut
  BY <1>21, PlacesAre DEF TimesOut
<1>22. CASE Aborts
  BY <1>22, PlacesAre DEF Aborts
<1>23. CASE Migrates
  BY <1>23, PlacesAre DEF Migrates
<1>24. CASE Truncates
  BY <1>24, PlacesAre DEF Truncates
<1>25. CASE Carries
  BY <1>25, PlacesAre DEF Carries
<1>26. CASE Drops
  BY <1>26, PlacesAre DEF Drops
<1>27. CASE LegacyRuns
  BY <1>27 DEF LegacyRuns
<1>28. CASE RemovesService
  BY <1>28, PlacesAre DEF RemovesService
<1>29. CASE EndsProcess
  <2>1. /\ UNCHANGED <<manager, file, loaded, job, metadata>>
        /\ Then("clearing") \/ Then("failed")
    BY <1>29 DEF EndsProcess
  <2>. QED
    BY <2>1, PlacesAre
<1>30. CASE Clears
  BY <1>30, PlacesAre DEF Clears
<1>31. CASE Loads
  BY <1>31, PlacesAre DEF Loads
<1>32. CASE CannotAsk
  BY <1>32, PlacesAre DEF CannotAsk
<1>33. CASE Updates
  BY <1>33, PlacesAre DEF Updates
<1>34. CASE Installs
  BY <1>34, PlacesAre DEF Installs
<1>35. CASE Writes
  BY <1>35, PlacesAre DEF Writes
<1>36. CASE Checks
  BY <1>36, PlacesAre DEF Checks
<1>37. CASE JobEnds
  <2>1. \E state \in {"off", "waiting"} :
          job' = [state |-> state, run |-> NoRuntime, def |-> NoDefinition]
    BY <1>37 DEF JobEnds, Waiting
  <2>2. UNCHANGED <<manager, file, loaded, metadata, cli>>
    BY <1>37 DEF JobEnds
  <2>. QED
    BY <2>1, <2>2
<1>38. ASSUME NEW c \in {"start", "restart", "stop", "uninstall"}, NEW d, Command(c, d)
       PROVE  ServiceTypes'
  <2> DEFINE place == IF c = "start" THEN "reading"
                      ELSE IF c = "uninstall" /\ manager # "launchd" THEN "removing"
                      ELSE "stopping"
  <2>1. /\ cli' = [cli EXCEPT !.cmd = c, !.want = d, !.found = "absent", !.at = place]
        /\ UNCHANGED <<manager, file, loaded, job, metadata>>
    BY <1>38 DEF Command
  <2>2. place \in Places
    BY DEF Places, Removing, Ending
  <2>3. d \in Definitions \cup {NoDefinition}
    BY <1>38 DEF Command, Wanted
  <2> HIDE DEF place
  <2>. QED
    BY <2>1, <2>2, <2>3
<1>39. ASSUME NEW c \in {"setup", "open"}, Opens(c) PROVE ServiceTypes'
  <2> DEFINE cmd == IF c = "open" THEN "start" ELSE c
  <2>1. /\ cli' = [cli EXCEPT !.cmd = cmd, !.want = Home, !.found = "absent", !.at = "migrating"]
        /\ UNCHANGED <<manager, file, loaded, job, metadata>>
    BY <1>39 DEF Opens
  <2>2. cmd \in AllCommands /\ "migrating" \in Places
    BY DEF Places, Beginning
  <2> HIDE DEF cmd
  <2>. QED
    BY <2>1, <2>2
<1>40. ASSUME NEW r \in Runtimes, NEW n \in Pids, Launch(r, n) PROVE ServiceTypes'
  <2>1. /\ job' = [state |-> "up", run |-> r, def |-> loaded]
        /\ UNCHANGED <<manager, file, loaded, metadata, cli>>
    BY <1>40 DEF Launch, Up
  <2>. QED
    BY <2>1
<1>41. CASE UNCHANGED serviceVars
  BY <1>41 DEF serviceVars
<1>. QED
  BY <1>1, <1>2, <1>3, <1>4, <1>5, <1>6, <1>7, <1>8, <1>9, <1>10, <1>11, <1>12, <1>13,
     <1>14, <1>15, <1>16, <1>17, <1>18, <1>19, <1>20, <1>21, <1>22, <1>23, <1>24, <1>25,
     <1>26, <1>27, <1>28, <1>29, <1>30, <1>31, <1>32, <1>33, <1>34, <1>35, <1>36, <1>37,
     <1>38, <1>39, <1>40, <1>41,
     CasesOfNext

\* A command is at one of its places.
LEMMA PlaceStep ==
    ASSUME CommandFits, [GuidedNext]_setupVars
    PROVE  PlaceFits'
<1> USE ServiceAssumption, HomeAssumption
    DEF CommandFits, ServiceTypes, CliTypes, PlaceFits, Managers, Then, Asks, AtThePrompt,
        Beginning, Ending, Removing, Installing, Launching, Closing
<1>1. CASE StopLooks
  BY <1>1 DEF StopLooks, Status
<1>2. CASE StopEnds
  BY <1>2 DEF StopEnds
<1>3. CASE StopIgnores
  BY <1>3 DEF StopIgnores
<1>4. CASE RemovalEnds
  <2>1. cli.at = "removing" /\ UNCHANGED <<manager, file, loaded, metadata>>
    BY <1>4 DEF RemovalEnds
  <2>2. CASE file = NoDefinition /\ Then("cleaning") /\ UNCHANGED job
    BY <2>1, <2>2
  <2>3. CASE Then("erasing") /\ job' = Off
    BY <2>1, <2>3
  <2>4. CASE cli' = [cli EXCEPT !.at = "erasing", !.ignored = TRUE] /\ UNCHANGED job
    BY <2>1, <2>4
  <2>. QED
    BY <1>4, <2>1, <2>2, <2>3, <2>4 DEF RemovalEnds
<1>5. CASE Erases
  BY <1>5 DEF Erases, EndedIsDown
<1>6. CASE Cleans
  <2>1. /\ cli.at = "cleaning" /\ cli'.cmd = cli.cmd /\ cli'.want = cli.want
        /\ cli'.found = cli.found /\ cli'.ignored = cli.ignored
        /\ \/ cli.cmd \in {"restart", "setup"} /\ cli'.at = "reading"
           \/ cli.cmd = "update" /\ cli'.at = "installing"
           \/ cli.cmd = "stop" /\ cli'.at = "done"
           \/ cli.cmd = "uninstall" /\ cli'.at = "wiping"
        /\ UNCHANGED <<manager, file, loaded, job, metadata>>
    BY <1>6, CleansThen DEF Cleans
  <2>. QED
    BY <2>1
<1>7. CASE Wipes
  BY <1>7 DEF Wipes
<1>8. CASE Reads
  <2>1. /\ cli.at = "reading" /\ cli'.cmd = cli.cmd /\ cli'.want = cli.want
        /\ cli'.found = Status /\ cli'.ignored = cli.ignored
        /\ \/ Status = "running" /\ ~Differs /\ cli'.at = "recording"
           \/ manager = "launchd" /\ cli'.at = IF Differs THEN "unloading" ELSE "bootstrapping"
           \/ /\ manager = "systemd" /\ (Status # "running" \/ Differs)
              /\ cli'.at = IF Differs THEN "writing" ELSE "enabling"
           \/ /\ manager = "tasks"
              /\ cli'.at = IF Status = "running" THEN "ending task" ELSE "creating"
        /\ UNCHANGED <<manager, file, loaded, job, metadata>>
    BY <1>8, ReadsLooks DEF Reads
  <2>. QED
    BY <2>1
<1>9. CASE Unloads
  BY <1>9 DEF Unloads
<1>10. CASE WritesFile
  BY <1>10 DEF WritesFile
<1>11. CASE Bootstraps
  BY <1>11 DEF Bootstraps
<1>12. CASE Kicks
  BY <1>12 DEF Kicks
<1>13. CASE Reloads
  BY <1>13 DEF Reloads
<1>14. CASE Restarts
  BY <1>14 DEF Restarts
<1>15. CASE Enables
  BY <1>15 DEF Enables
<1>16. CASE EndsTask
  <2>1. cli.at = "ending task" /\ UNCHANGED <<manager, file, loaded, metadata>>
    BY <1>16 DEF EndsTask
  <2>2. CASE Then("creating") /\ job' = Off
    BY <2>1, <2>2
  <2>3. CASE cli' = [cli EXCEPT !.at = "creating", !.ignored = TRUE] /\ UNCHANGED job
    BY <2>1, <2>3
  <2>. QED
    BY <1>16, <2>1, <2>2, <2>3 DEF EndsTask
<1>17. CASE CreatesTask
  BY <1>17 DEF CreatesTask
<1>18. CASE RunsTask
  BY <1>18 DEF RunsTask
<1>19. CASE Records
  BY <1>19 DEF Records
<1>20. CASE Ready
  BY <1>20 DEF Ready
<1>21. CASE TimesOut
  BY <1>21 DEF TimesOut
<1>22. CASE Aborts
  BY <1>22 DEF Aborts
<1>23. CASE Migrates
  BY <1>23 DEF Migrates
<1>24. CASE Truncates
  BY <1>24 DEF Truncates
<1>25. CASE Carries
  BY <1>25 DEF Carries
<1>26. CASE Drops
  BY <1>26 DEF Drops
<1>27. CASE LegacyRuns
  BY <1>27 DEF LegacyRuns
<1>28. CASE RemovesService
  BY <1>28 DEF RemovesService
<1>29. CASE EndsProcess
  <2>1. /\ UNCHANGED <<manager, file, loaded, job, metadata>>
        /\ cli.at = "ending process"
        /\ Then("clearing") \/ Then("failed")
    BY <1>29 DEF EndsProcess
  <2>2. CASE Then("clearing")
    BY <2>1, <2>2
  <2>3. CASE Then("failed")
    BY <2>1, <2>3
  <2>. QED
    BY <2>1, <2>2, <2>3
<1>30. CASE Clears
  BY <1>30 DEF Clears
<1>31. CASE Loads
  BY <1>31 DEF Loads
<1>32. CASE CannotAsk
  BY <1>32 DEF CannotAsk
<1>33. CASE Updates
  <2>1. /\ UNCHANGED <<manager, file, loaded, job, metadata>>
        /\ cli.cmd = "setup"
        /\ Then("installing") \/ cli' = [cli EXCEPT !.cmd = "update", !.at = "stopping"]
    BY <1>33 DEF Updates
  <2>2. CASE Then("installing")
    BY <2>1, <2>2
  <2>3. CASE cli' = [cli EXCEPT !.cmd = "update", !.at = "stopping"]
    BY <2>1, <2>3
  <2>. QED
    BY <2>1, <2>2, <2>3
<1>34. CASE Installs
  BY <1>34 DEF Installs
<1>35. CASE Writes
  BY <1>35 DEF Writes
<1>36. CASE Checks
  BY <1>36 DEF Checks
<1>37. CASE JobEnds
  BY <1>37 DEF JobEnds
<1>38. ASSUME NEW c \in {"start", "restart", "stop", "uninstall"}, NEW d, Command(c, d)
       PROVE  PlaceFits'
  <2> DEFINE place == IF c = "start" THEN "reading"
                      ELSE IF c = "uninstall" /\ manager # "launchd" THEN "removing"
                      ELSE "stopping"
  <2>1. /\ cli' = [cli EXCEPT !.cmd = c, !.want = d, !.found = "absent", !.at = place]
        /\ UNCHANGED <<manager, file, loaded, job, metadata>>
    BY <1>38 DEF Command
  <2>2. c \in {"start", "restart"} => d \in Definitions
    BY <1>38 DEF Command, Wanted
  <2>3. cli'.cmd = c /\ cli'.want = d /\ cli'.at = place
    BY <2>1
  <2>. QED
    BY <2>1, <2>2, <2>3
<1>39. ASSUME NEW c \in {"setup", "open"}, Opens(c) PROVE PlaceFits'
  <2>1. cli'.cmd \in {"start", "setup"} /\ cli'.want = Home /\ cli'.at = "migrating"
    BY <1>39 DEF Opens
  <2>2. UNCHANGED <<manager, file, loaded, job, metadata>>
    BY <1>39 DEF Opens
  <2>. QED
    BY <2>1, <2>2
<1>40. ASSUME NEW r \in Runtimes, NEW n \in Pids, Launch(r, n) PROVE PlaceFits'
  BY <1>40 DEF Launch, Up
<1>41. CASE UNCHANGED serviceVars
  BY <1>41 DEF serviceVars
<1>. QED
  BY <1>1, <1>2, <1>3, <1>4, <1>5, <1>6, <1>7, <1>8, <1>9, <1>10, <1>11, <1>12, <1>13,
     <1>14, <1>15, <1>16, <1>17, <1>18, <1>19, <1>20, <1>21, <1>22, <1>23, <1>24, <1>25,
     <1>26, <1>27, <1>28, <1>29, <1>30, <1>31, <1>32, <1>33, <1>34, <1>35, <1>36, <1>37,
     <1>38, <1>39, <1>40, <1>41,
     CasesOfNext

\* A service that runs has a file, and what is started as well.
LEMMA FileStep ==
    ASSUME CommandFits, [GuidedNext]_setupVars
    PROVE  FileFits'
<1> USE ServiceAssumption
    DEF CommandFits, ServiceTypes, CliTypes, PlaceFits, FileFits, Down, Managers, Then, Off, Asked, Asks,
        AtThePrompt, Beginning, Ending, Removing, Installing, Launching, Closing
<1>1. CASE StopLooks
  BY <1>1 DEF StopLooks, Status
<1>2. CASE StopEnds
  BY <1>2 DEF StopEnds
<1>3. CASE StopIgnores
  BY <1>3 DEF StopIgnores
<1>4. CASE RemovalEnds
  <2>1. cli.at = "removing" /\ UNCHANGED <<manager, file, loaded, metadata>>
    BY <1>4 DEF RemovalEnds
  <2>2. CASE file = NoDefinition /\ Then("cleaning") /\ UNCHANGED job
    BY <2>1, <2>2
  <2>3. CASE Then("erasing") /\ job' = Off
    BY <2>1, <2>3
  <2>4. CASE cli' = [cli EXCEPT !.at = "erasing", !.ignored = TRUE] /\ UNCHANGED job
    BY <2>1, <2>4
  <2>. QED
    BY <1>4, <2>1, <2>2, <2>3, <2>4 DEF RemovalEnds
<1>5. CASE Erases
  BY <1>5 DEF Erases, EndedIsDown
<1>6. CASE Cleans
  <2>1. /\ cli.at = "cleaning" /\ cli'.cmd = cli.cmd /\ cli'.want = cli.want
        /\ cli'.found = cli.found /\ cli'.ignored = cli.ignored
        /\ \/ cli.cmd \in {"restart", "setup"} /\ cli'.at = "reading"
           \/ cli.cmd = "update" /\ cli'.at = "installing"
           \/ cli.cmd = "stop" /\ cli'.at = "done"
           \/ cli.cmd = "uninstall" /\ cli'.at = "wiping"
        /\ UNCHANGED <<manager, file, loaded, job, metadata>>
    BY <1>6, CleansThen DEF Cleans
  <2>. QED
    BY <2>1
<1>7. CASE Wipes
  BY <1>7 DEF Wipes
<1>8. CASE Reads
  <2>1. /\ cli.at = "reading" /\ cli'.cmd = cli.cmd /\ cli'.want = cli.want
        /\ cli'.found = Status /\ cli'.ignored = cli.ignored
        /\ \/ Status = "running" /\ ~Differs /\ cli'.at = "recording"
           \/ manager = "launchd" /\ cli'.at = IF Differs THEN "unloading" ELSE "bootstrapping"
           \/ /\ manager = "systemd" /\ (Status # "running" \/ Differs)
              /\ cli'.at = IF Differs THEN "writing" ELSE "enabling"
           \/ /\ manager = "tasks"
              /\ cli'.at = IF Status = "running" THEN "ending task" ELSE "creating"
        /\ UNCHANGED <<manager, file, loaded, job, metadata>>
    BY <1>8, ReadsLooks DEF Reads
  <2>2. /\ Status = "running" => file # NoDefinition
        /\ manager # "tasks" /\ ~Differs => file = cli.want
        /\ cli.want \in Definitions
    BY <2>1 DEF Status, Differs
  <2>. QED
    BY <2>1, <2>2
<1>9. CASE Unloads
  BY <1>9 DEF Unloads
<1>10. CASE WritesFile
  BY <1>10 DEF WritesFile
<1>11. CASE Bootstraps
  BY <1>11 DEF Bootstraps
<1>12. CASE Kicks
  BY <1>12 DEF Kicks
<1>13. CASE Reloads
  BY <1>13 DEF Reloads
<1>14. CASE Restarts
  BY <1>14 DEF Restarts
<1>15. CASE Enables
  BY <1>15 DEF Enables
<1>16. CASE EndsTask
  <2>1. cli.at = "ending task" /\ UNCHANGED <<manager, file, loaded, metadata>>
    BY <1>16 DEF EndsTask
  <2>2. CASE Then("creating") /\ job' = Off
    BY <2>1, <2>2
  <2>3. CASE cli' = [cli EXCEPT !.at = "creating", !.ignored = TRUE] /\ UNCHANGED job
    BY <2>1, <2>3
  <2>. QED
    BY <1>16, <2>1, <2>2, <2>3 DEF EndsTask
<1>17. CASE CreatesTask
  BY <1>17 DEF CreatesTask
<1>18. CASE RunsTask
  BY <1>18 DEF RunsTask
<1>19. CASE Records
  BY <1>19 DEF Records
<1>20. CASE Ready
  BY <1>20 DEF Ready
<1>21. CASE TimesOut
  BY <1>21 DEF TimesOut
<1>22. CASE Aborts
  BY <1>22 DEF Aborts
<1>23. CASE Migrates
  BY <1>23 DEF Migrates
<1>24. CASE Truncates
  BY <1>24 DEF Truncates
<1>25. CASE Carries
  BY <1>25 DEF Carries
<1>26. CASE Drops
  BY <1>26 DEF Drops
<1>27. CASE LegacyRuns
  BY <1>27 DEF LegacyRuns
<1>28. CASE RemovesService
  BY <1>28 DEF RemovesService
<1>29. CASE EndsProcess
  <2>1. /\ UNCHANGED <<manager, file, loaded, job, metadata>>
        /\ Then("clearing") \/ Then("failed")
    BY <1>29 DEF EndsProcess
  <2>2. CASE Then("clearing")
    BY <2>1, <2>2
  <2>3. CASE Then("failed")
    BY <2>1, <2>3
  <2>. QED
    BY <2>1, <2>2, <2>3
<1>30. CASE Clears
  BY <1>30 DEF Clears
<1>31. CASE Loads
  BY <1>31 DEF Loads
<1>32. CASE CannotAsk
  BY <1>32 DEF CannotAsk
<1>33. CASE Updates
  BY <1>33 DEF Updates
<1>34. CASE Installs
  BY <1>34 DEF Installs
<1>35. CASE Writes
  BY <1>35 DEF Writes
<1>36. CASE Checks
  BY <1>36 DEF Checks
<1>37. CASE JobEnds
  BY <1>37 DEF JobEnds
<1>38. ASSUME NEW c \in {"start", "restart", "stop", "uninstall"}, NEW d, Command(c, d)
       PROVE  FileFits'
  BY <1>38 DEF Command, Wanted
<1>39. ASSUME NEW c \in {"setup", "open"}, Opens(c) PROVE FileFits'
  BY <1>39 DEF Opens
<1>40. ASSUME NEW r \in Runtimes, NEW n \in Pids, Launch(r, n) PROVE FileFits'
  BY <1>40 DEF Launch, Up
<1>41. CASE UNCHANGED serviceVars
  BY <1>41 DEF serviceVars
<1>. QED
  BY <1>1, <1>2, <1>3, <1>4, <1>5, <1>6, <1>7, <1>8, <1>9, <1>10, <1>11, <1>12, <1>13,
     <1>14, <1>15, <1>16, <1>17, <1>18, <1>19, <1>20, <1>21, <1>22, <1>23, <1>24, <1>25,
     <1>26, <1>27, <1>28, <1>29, <1>30, <1>31, <1>32, <1>33, <1>34, <1>35, <1>36, <1>37,
     <1>38, <1>39, <1>40, <1>41,
     CasesOfNext

\* What is ended stays so.
LEMMA DownStep ==
    ASSUME CommandFits, [GuidedNext]_setupVars
    PROVE  EndedIsDown'
<1> USE ServiceAssumption
    DEF CommandFits, ServiceTypes, CliTypes, PlaceFits, FileFits, EndedIsDown, Down, Managers, Then,
        Off, Asked, Asks, AtThePrompt, Beginning, Ending, Removing, Installing, Launching, Closing
<1>1. CASE StopLooks
  BY <1>1 DEF StopLooks, Status
<1>2. CASE StopEnds
  BY <1>2 DEF StopEnds
<1>3. CASE StopIgnores
  BY <1>3 DEF StopIgnores
<1>4. CASE RemovalEnds
  <2>1. cli.at = "removing" /\ UNCHANGED <<manager, file, loaded, metadata>>
    BY <1>4 DEF RemovalEnds
  <2>2. CASE file = NoDefinition /\ Then("cleaning") /\ UNCHANGED job
    BY <2>1, <2>2
  <2>3. CASE Then("erasing") /\ job' = Off
    BY <2>1, <2>3
  <2>4. CASE cli' = [cli EXCEPT !.at = "erasing", !.ignored = TRUE] /\ UNCHANGED job
    BY <2>1, <2>4
  <2>. QED
    BY <1>4, <2>1, <2>2, <2>3, <2>4 DEF RemovalEnds
<1>5. CASE Erases
  BY <1>5 DEF Erases, EndedIsDown
<1>6. CASE Cleans
  <2>1. /\ cli.at = "cleaning" /\ cli'.cmd = cli.cmd /\ cli'.want = cli.want
        /\ cli'.found = cli.found /\ cli'.ignored = cli.ignored
        /\ \/ cli.cmd \in {"restart", "setup"} /\ cli'.at = "reading"
           \/ cli.cmd = "update" /\ cli'.at = "installing"
           \/ cli.cmd = "stop" /\ cli'.at = "done"
           \/ cli.cmd = "uninstall" /\ cli'.at = "wiping"
        /\ UNCHANGED <<manager, file, loaded, job, metadata>>
    BY <1>6, CleansThen DEF Cleans
  <2>. QED
    BY <2>1
<1>7. CASE Wipes
  BY <1>7 DEF Wipes
<1>8. CASE Reads
  <2>1. /\ cli.at = "reading" /\ cli'.cmd = cli.cmd /\ cli'.want = cli.want
        /\ cli'.found = Status /\ cli'.ignored = cli.ignored
        /\ \/ Status = "running" /\ ~Differs /\ cli'.at = "recording"
           \/ manager = "launchd" /\ cli'.at = IF Differs THEN "unloading" ELSE "bootstrapping"
           \/ /\ manager = "systemd" /\ (Status # "running" \/ Differs)
              /\ cli'.at = IF Differs THEN "writing" ELSE "enabling"
           \/ /\ manager = "tasks"
              /\ cli'.at = IF Status = "running" THEN "ending task" ELSE "creating"
        /\ UNCHANGED <<manager, file, loaded, job, metadata>>
    BY <1>8, ReadsLooks DEF Reads
  <2>. QED
    BY <2>1
<1>9. CASE Unloads
  BY <1>9 DEF Unloads
<1>10. CASE WritesFile
  BY <1>10 DEF WritesFile
<1>11. CASE Bootstraps
  BY <1>11 DEF Bootstraps
<1>12. CASE Kicks
  BY <1>12 DEF Kicks
<1>13. CASE Reloads
  BY <1>13 DEF Reloads
<1>14. CASE Restarts
  BY <1>14 DEF Restarts
<1>15. CASE Enables
  BY <1>15 DEF Enables
<1>16. CASE EndsTask
  <2>1. cli.at = "ending task" /\ UNCHANGED <<manager, file, loaded, metadata>>
    BY <1>16 DEF EndsTask
  <2>2. CASE Then("creating") /\ job' = Off
    BY <2>1, <2>2
  <2>3. CASE cli' = [cli EXCEPT !.at = "creating", !.ignored = TRUE] /\ UNCHANGED job
    BY <2>1, <2>3
  <2>. QED
    BY <1>16, <2>1, <2>2, <2>3 DEF EndsTask
<1>17. CASE CreatesTask
  BY <1>17 DEF CreatesTask
<1>18. CASE RunsTask
  BY <1>18 DEF RunsTask
<1>19. CASE Records
  BY <1>19 DEF Records
<1>20. CASE Ready
  BY <1>20 DEF Ready
<1>21. CASE TimesOut
  BY <1>21 DEF TimesOut
<1>22. CASE Aborts
  BY <1>22 DEF Aborts
<1>23. CASE Migrates
  BY <1>23 DEF Migrates
<1>24. CASE Truncates
  BY <1>24 DEF Truncates
<1>25. CASE Carries
  BY <1>25 DEF Carries
<1>26. CASE Drops
  BY <1>26 DEF Drops
<1>27. CASE LegacyRuns
  BY <1>27 DEF LegacyRuns
<1>28. CASE RemovesService
  BY <1>28 DEF RemovesService
<1>29. CASE EndsProcess
  BY <1>29 DEF EndsProcess
<1>30. CASE Clears
  BY <1>30 DEF Clears
<1>31. CASE Loads
  BY <1>31 DEF Loads
<1>32. CASE CannotAsk
  BY <1>32 DEF CannotAsk
<1>33. CASE Updates
  BY <1>33 DEF Updates
<1>34. CASE Installs
  BY <1>34 DEF Installs
<1>35. CASE Writes
  BY <1>35 DEF Writes
<1>36. CASE Checks
  BY <1>36 DEF Checks
<1>37. CASE JobEnds
  BY <1>37 DEF JobEnds
<1>38. ASSUME NEW c \in {"start", "restart", "stop", "uninstall"}, NEW d, Command(c, d)
       PROVE  EndedIsDown'
  BY <1>38 DEF Command, Wanted
<1>39. ASSUME NEW c \in {"setup", "open"}, Opens(c) PROVE EndedIsDown'
  BY <1>39 DEF Opens
<1>40. ASSUME NEW r \in Runtimes, NEW n \in Pids, Launch(r, n) PROVE EndedIsDown'
  BY <1>40 DEF Launch, Up
<1>41. CASE UNCHANGED serviceVars
  BY <1>41 DEF serviceVars
<1>. QED
  BY <1>1, <1>2, <1>3, <1>4, <1>5, <1>6, <1>7, <1>8, <1>9, <1>10, <1>11, <1>12, <1>13,
     <1>14, <1>15, <1>16, <1>17, <1>18, <1>19, <1>20, <1>21, <1>22, <1>23, <1>24, <1>25,
     <1>26, <1>27, <1>28, <1>29, <1>30, <1>31, <1>32, <1>33, <1>34, <1>35, <1>36, <1>37,
     <1>38, <1>39, <1>40, <1>41,
     CasesOfNext

\* Where a command is, and what it leaves behind, fits in every reachable state.
THEOREM CommandInvariance == GuidedSpec => []CommandFits
<1>1. GuidedInit => CommandFits
  <2> SUFFICES ASSUME GuidedInit PROVE CommandFits
    OBVIOUS
  <2>1. /\ file = NoDefinition /\ loaded = NoDefinition /\ metadata = NoDefinition
        /\ job = [state |-> "off", run |-> NoRuntime, def |-> NoDefinition]
        /\ cli = [cmd |-> "none", at |-> "done", want |-> NoDefinition, found |-> "absent",
                 aborted |-> FALSE, ignored |-> FALSE, overtaken |-> FALSE]
    BY DEF GuidedInit, ServiceInit, Off, Idle
  <2>2. manager \in Managers
    BY ServiceAssumption DEF GuidedInit, ServiceInit, Managers
  <2>3. "done" \in Places
    BY DEF Places
  <2>4. ServiceTypes
    BY <2>1, <2>2, <2>3 DEF ServiceTypes, CliTypes, AllCommands, Statuses
  <2>5. PlaceFits
    BY <2>1 DEF PlaceFits, Beginning, Ending, Removing, Installing, Launching, Closing
  <2>6. FileFits /\ EndedIsDown
    BY <2>1 DEF FileFits, EndedIsDown, Down, Launching, Closing
  <2>. QED
    BY <2>4, <2>5, <2>6 DEF CommandFits
<1>2. CommandFits /\ [GuidedNext]_setupVars => CommandFits'
  BY ServiceTypesStep, PlaceStep, FileStep, DownStep DEF CommandFits
<1>. QED
  BY <1>1, <1>2, PTL DEF GuidedSpec

\* After "stop" and "uninstall" the manager neither runs the service nor is about to,
\* whatever fails and wherever commands are interrupted: systemd's service that waits to
\* be started again, and errors that are ignored, are the only exceptions.
THEOREM StopLasts == GuidedSpec => []StopIsFinal
<1>1. CommandFits => StopIsFinal
  BY DEF CommandFits, EndedIsDown, Down, StopIsFinal
<1>. QED
  BY <1>1, CommandInvariance, PTL

----------------------------------------------------------------------------
\* The socket.

\* Whoever listens has its file at the path, or a command has removed it, or a runtime
\* whose own file was removed.
BoundAreAtPath == \A r \in binds : socket = r \/ r \in hidden

\* Binding, leaving, dying and the commands keep it so.
LEMMA SocketStep ==
    ASSUME BoundAreAtPath, [GuidedNext]_setupVars
    PROVE  BoundAreAtPath'
<1> USE DEF BoundAreAtPath
<1>1. CASE UNCHANGED <<socket, binds, hidden>>
  BY <1>1
<1>2. CASE EndProcess
  BY <1>2 DEF EndProcess
<1>3. CASE Cleans
  BY <1>3 DEF Cleans
<1>4. ASSUME CliNext PROVE BoundAreAtPath'
  <2>1. CASE StopEnds \/ Unloads \/ Kicks \/ Restarts
    BY <1>2, <2>1 DEF StopEnds, Unloads, Kicks, Restarts
  <2>2. CASE RemovalEnds \/ EndsTask
    BY <1>1, <1>2, <2>2 DEF RemovalEnds, EndsTask, SameProcess
  <2>3. CASE Wipes
    BY <2>3 DEF Wipes
  <2>4. ASSUME NEW c, NEW d, Command(c, d)
       PROVE  BoundAreAtPath'
    BY <1>1, <2>4 DEF Command, SameProcess
  <2>5. CASE \/ StopLooks \/ StopIgnores \/ Erases \/ Reads \/ WritesFile \/ Bootstraps \/ Reloads
             \/ Enables \/ CreatesTask \/ RunsTask \/ Records \/ Ready \/ TimesOut \/ Aborts
    BY <1>1, <2>5
       DEF StopLooks, StopIgnores, Erases, Reads, WritesFile, Bootstraps, Reloads, Enables,
           CreatesTask, RunsTask, Records, Ready, TimesOut, Aborts, SameProcess
  <2>. QED
    BY <1>3, <1>4, <2>1, <2>2, <2>3, <2>4, <2>5 DEF CliNext
<1>5. CASE RunNext
  <2>1. ASSUME NEW r \in Runtimes, NEW n \in Pids, Launch(r, n) \/ Foreground(r, n)
        PROVE  BoundAreAtPath'
    BY <1>1, <2>1 DEF Launch, Foreground
  <2>2. ASSUME NEW r \in Runtimes, Bind(r) PROVE BoundAreAtPath'
    BY <2>2 DEF Bind, Answers
  <2>3. ASSUME NEW r \in Runtimes, CloseSocket(r) PROVE BoundAreAtPath'
    BY <2>3 DEF CloseSocket
  <2>4. ASSUME NEW r \in Runtimes, Dies(r) PROVE BoundAreAtPath'
    BY <2>4 DEF Dies
  <2>5. ASSUME NEW r \in Runtimes,
               Acquire(r) \/ WriteTorn(r) \/ BindRefused(r) \/ TaskEnds(r) \/ Leave(r)
        PROVE  BoundAreAtPath'
    BY <1>1, <2>5 DEF Acquire, WriteTorn, BindRefused, TaskEnds, Leave, service
  <2>6. ASSUME NEW n \in Pids, OtherTakes(n) PROVE BoundAreAtPath'
    BY <1>1, <2>6 DEF OtherTakes
  <2>7. CASE JobEnds
    BY <1>1, <2>7 DEF JobEnds
  <2>. QED
    BY <1>5, <2>1, <2>2, <2>3, <2>4, <2>5, <2>6, <2>7 DEF RunNext
<1>6. ASSUME NEW r \in Runtimes, Forget(r) PROVE BoundAreAtPath'
  BY <1>6 DEF Forget, LeftNothing
<1>7. CASE SetupNext
  <2>1. ASSUME NEW c, Opens(c) PROVE BoundAreAtPath'
    BY <1>1, <2>1 DEF Opens, Asks, AtThePrompt, SameProcess
  <2>2. ASSUME NEW r \in Runtimes, Rereads(r) PROVE BoundAreAtPath'
    BY <1>1, <2>2 DEF Rereads, allVars, service
  <2>3. CASE \/ Migrates \/ Truncates \/ Carries \/ Drops \/ LegacyRuns \/ RemovesService
             \/ EndsProcess \/ Clears \/ Loads \/ CannotAsk \/ Updates \/ Installs \/ Writes
             \/ Checks
    BY <1>1, <2>3
       DEF Migrates, Truncates, Carries, Drops, LegacyRuns, RemovesService, EndsProcess, Clears,
           Loads, CannotAsk, Updates, Installs, Writes, Checks, Asks, AtThePrompt, SameProcess
  <2>. QED
    BY <1>7, <2>1, <2>2, <2>3 DEF SetupNext
<1>8. CASE UNCHANGED setupVars
  BY <1>1, <1>8 DEF setupVars, allVars, service
<1>. QED
  BY <1>4, <1>5, <1>6, <1>7, <1>8 DEF GuidedNext, ServiceNext

\* No start and no exit of a runtime takes the path from another that listens there, also
\* when starts overlap: only a command removes the file, or a runtime whose own file a
\* command had removed.
THEOREM SocketStays == GuidedSpec => []SocketIsTheOwners
<1>1. GuidedInit => BoundAreAtPath
  BY DEF GuidedInit, ServiceInit, BoundAreAtPath
<1>2. BoundAreAtPath => SocketIsTheOwners
  BY DEF BoundAreAtPath, SocketIsTheOwners
<1>. QED
  BY <1>1, <1>2, SocketStep, PTL DEF GuidedSpec

----------------------------------------------------------------------------
\* The managed process.

AtTypes == at \in [Runtimes -> {"none"} \cup Starting \cup Holding \cup Ended]

\* The process that is up is a runtime that is remembered.
JobFits ==
    /\ AtTypes /\ binds \subseteq Runtimes
    /\ job.state = "up" => job.run \in Runtimes /\ at[job.run] # "none"
    /\ job.state # "up" => job.run = NoRuntime

\* The places of the runtimes keep their types, and one is forgotten only when nothing
\* is left of it; only runtimes listen.
LEMMA RuntimesGoOn ==
    ASSUME JobFits, [GuidedNext]_setupVars
    PROVE  /\ AtTypes' /\ binds' \subseteq Runtimes
           /\ \A r \in Runtimes : at'[r] # at[r] /\ at'[r] = "none" => LeftNothing(r)
<1> USE DEF JobFits, AtTypes, Starting, Holding, Ended
<1> DEFINE GoOn == /\ AtTypes' /\ binds' \subseteq Runtimes
                   /\ \A r \in Runtimes : at'[r] # at[r] /\ at'[r] = "none" => LeftNothing(r)
<1>1. CASE UNCHANGED at /\ binds' \subseteq binds
  BY <1>1
<1>2. CASE EndProcess
  BY <1>2 DEF EndProcess
<1>3. CASE CliNext
  <2>1. CASE StopEnds \/ Unloads \/ Kicks \/ Restarts
    BY <1>2, <2>1 DEF StopEnds, Unloads, Kicks, Restarts
  <2>2. CASE RemovalEnds \/ EndsTask
    BY <1>1, <1>2, <2>2 DEF RemovalEnds, EndsTask, SameProcess, vars
  <2>3. CASE Wipes \/ Cleans
    BY <1>1, <2>3 DEF Wipes, Cleans, vars
  <2>4. ASSUME NEW c, NEW d, Command(c, d)
       PROVE  GoOn
    BY <1>1, <2>4 DEF Command, SameProcess, vars
  <2>5. CASE \/ StopLooks \/ StopIgnores \/ Erases \/ Reads \/ WritesFile \/ Bootstraps \/ Reloads
             \/ Enables \/ CreatesTask \/ RunsTask \/ Records \/ Ready \/ TimesOut \/ Aborts
    <3>1. SameProcess
      BY <2>5
         DEF StopLooks, StopIgnores, Erases, Reads, WritesFile, Bootstraps, Reloads, Enables,
                  CreatesTask, RunsTask, Records, Ready, TimesOut, Aborts
    <3>. QED
      BY <1>1, <3>1 DEF SameProcess, vars
  <2>. QED
    BY <1>3, <2>1, <2>2, <2>3, <2>4, <2>5 DEF CliNext
<1>4. CASE RunNext
  <2>1. ASSUME NEW r \in Runtimes, NEW n \in Pids, Launch(r, n) \/ Foreground(r, n) PROVE GoOn
    BY <2>1 DEF Launch, Foreground, Begin, GoTo
  <2>2. ASSUME NEW r \in Runtimes, Acquire(r) PROVE GoOn
    BY <2>2
       DEF Acquire, Create, WriteInfo, ReadInfo, RemoveStale, ProbeFails, Probe, GoTo, service
  <2>3. ASSUME NEW r \in Runtimes, WriteTorn(r) PROVE GoOn
    BY <2>3 DEF WriteTorn, WriteInfoFails, GoTo
  <2>4. ASSUME NEW r \in Runtimes, Bind(r) PROVE GoOn
    BY <2>4 DEF Bind, vars
  <2>5. ASSUME NEW r \in Runtimes, BindRefused(r) \/ TaskEnds(r) \/ Leave(r) PROVE GoOn
    BY <2>5 DEF BindRefused, TaskEnds, Leave, ExitReads, ExitRemoves, GoTo, service
  <2>6. ASSUME NEW r \in Runtimes, CloseSocket(r) PROVE GoOn
    BY <2>6 DEF CloseSocket, vars
  <2>7. ASSUME NEW r \in Runtimes, Dies(r) PROVE GoOn
    BY <2>7 DEF Dies, Killed, GoTo
  <2>8. ASSUME NEW n \in Pids, OtherTakes(n) PROVE GoOn
    BY <2>8 DEF OtherTakes, OtherProgram
  <2>9. CASE JobEnds
    BY <2>9 DEF JobEnds, vars
  <2>. QED
    BY <1>4, <2>1, <2>2, <2>3, <2>4, <2>5, <2>6, <2>7, <2>8, <2>9 DEF RunNext
<1>5. ASSUME NEW r \in Runtimes, Forget(r) PROVE GoOn
  BY <1>5 DEF Forget, GoTo
<1>6. CASE SetupNext
  <2>1. ASSUME NEW c, Opens(c) PROVE GoOn
    BY <1>1, <2>1 DEF Opens, Asks, AtThePrompt, SameProcess, vars
  <2>2. ASSUME NEW r \in Runtimes, Rereads(r) PROVE GoOn
    BY <1>1, <2>2 DEF Rereads, allVars, service, vars
  <2>3. CASE \/ Migrates \/ Truncates \/ Carries \/ Drops \/ LegacyRuns \/ RemovesService
             \/ EndsProcess \/ Clears \/ Loads \/ CannotAsk \/ Updates \/ Installs \/ Writes
             \/ Checks
    <3>1. SameProcess
      BY <2>3
         DEF Migrates, Truncates, Carries, Drops, LegacyRuns, RemovesService, EndsProcess, Clears,
             Loads, CannotAsk, Updates, Installs, Writes, Checks, Asks, AtThePrompt
    <3>. QED
      BY <1>1, <3>1 DEF SameProcess, vars
  <2>. QED
    BY <1>6, <2>1, <2>2, <2>3 DEF SetupNext
<1>7. CASE UNCHANGED setupVars
  BY <1>1, <1>7 DEF setupVars, allVars, service, vars
<1>. QED
  BY <1>3, <1>4, <1>5, <1>6, <1>7 DEF GuidedNext, ServiceNext

\* The managed process is launched, told to start or ended, or stays as it is.
LEMMA JobMoves ==
    ASSUME [GuidedNext]_setupVars
    PROVE  \/ UNCHANGED job \/ job' \in {Off, Asked, Waiting}
           \/ \E r \in Runtimes, n \in Pids : Launch(r, n)
<1>1. ASSUME NEW c, NEW d, Command(c, d)
       PROVE  UNCHANGED job
  BY <1>1 DEF Command
<1>2. ASSUME NEW c, Opens(c) PROVE UNCHANGED job
  BY <1>2 DEF Opens, Asks, AtThePrompt
<1>3. CASE \/ StopLooks \/ StopEnds \/ StopIgnores \/ RemovalEnds \/ Erases \/ Cleans \/ Wipes
           \/ Reads \/ Unloads \/ WritesFile \/ Bootstraps \/ Kicks \/ Reloads \/ Restarts
           \/ Enables \/ EndsTask \/ CreatesTask \/ RunsTask \/ Records \/ Ready \/ TimesOut
           \/ Aborts
  BY <1>3
     DEF StopLooks, StopEnds, StopIgnores, RemovalEnds, Erases, Cleans, Wipes, Reads, Unloads,
         WritesFile, Bootstraps, Kicks, Reloads, Restarts, Enables, EndsTask, CreatesTask,
         RunsTask, Records, Ready, TimesOut, Aborts
<1>4. CASE \/ Migrates \/ Truncates \/ Carries \/ Drops \/ LegacyRuns \/ RemovesService
           \/ EndsProcess \/ Clears \/ Loads \/ CannotAsk \/ Updates \/ Installs \/ Writes \/ Checks
  BY <1>4
     DEF Migrates, Truncates, Carries, Drops, LegacyRuns, RemovesService, EndsProcess, Clears,
         Loads, CannotAsk, Updates, Installs, Writes, Checks, Asks, AtThePrompt
<1>5. CASE JobEnds
  BY <1>5 DEF JobEnds
<1>. QED
  BY <1>1, <1>2, <1>3, <1>4, <1>5, CasesOfNext DEF serviceVars

\* So the process that is up stays a runtime that is remembered.
LEMMA JobStep ==
    ASSUME JobFits, [GuidedNext]_setupVars
    PROVE  JobFits'
<1>1. /\ AtTypes' /\ binds' \subseteq Runtimes
      /\ \A r \in Runtimes : at'[r] # at[r] /\ at'[r] = "none" => LeftNothing(r)
  BY RuntimesGoOn
<1>2. CASE UNCHANGED job
  BY <1>1, <1>2 DEF JobFits, LeftNothing
<1>3. CASE job' \in {Off, Asked, Waiting}
  BY <1>1, <1>3 DEF JobFits, Off, Asked, Waiting
<1>4. ASSUME NEW r \in Runtimes, NEW n \in Pids, Launch(r, n) PROVE JobFits'
  <2>1. job'.state = "up" /\ job'.run = r
    BY <1>4 DEF Launch, Up
  <2>2. at'[r] = "creating"
    BY <1>4 DEF Launch, Begin, GoTo, JobFits, AtTypes
  <2>. QED
    BY <1>1, <2>1, <2>2 DEF JobFits
<1>. QED
  BY <1>2, <1>3, <1>4, JobMoves
----------------------------------------------------------------------------
\* What the managers have when a command says that the service is ready.

\* The exceptions of RunsWhatWasAsked.
Excused == (cli.aborted /\ manager # "launchd") \/ cli.ignored \/ cli.overtaken

\* launchd runs what the file says as long as anything is loaded; the file is only
\* written when nothing is.
LaunchdFits ==
    manager = "launchd" /\ ~Excused =>
        /\ loaded # NoDefinition => loaded = file
        /\ loaded = NoDefinition => job.state = "off"
        /\ job.state = "up" => job.def = loaded
        /\ cli.at = "writing" => loaded = NoDefinition
        /\ cli.at \in {"kicking"} \cup Closing => loaded = file
        /\ cli.at \in {"bootstrapping", "kicking"} \cup Closing => file = cli.want

\* systemd has read the file, and runs it, unless a command is just about to make it so.
SystemdFits ==
    manager = "systemd" /\ ~Excused =>
        /\ cli.at # "reloading" => loaded = file
        /\ cli.at \notin {"reloading", "restarting", "enabling"} /\ job.state = "up"
              => job.def = file
        /\ cli.at \in {"writing", "reloading", "enabling"} /\ cli.found = "absent"
              => job.state = "off"
        /\ cli.at = "enabling" => cli.found # "running"
        /\ cli.at \in {"reloading", "restarting", "enabling"} \cup Closing => file = cli.want

\* The task that runs is the one that the last start recorded, or that is about to be.
TasksFit ==
    manager = "tasks" /\ ~Excused =>
        /\ cli.at \in {"creating", "running task", "wiping"} => job.state = "off"
        /\ cli.at \notin {"creating", "running task", "recording"} =>
              /\ job.state = "up" => job.def = metadata
              /\ job.state = "asked" => loaded = metadata
        /\ cli.at = "running task" => loaded = cli.want
        /\ cli.at = "recording" => /\ job.state = "up" => job.def = cli.want
                                   /\ job.state = "asked" => loaded = cli.want
        /\ cli.at = "waiting" => metadata = cli.want

\* The commands' beginnings and their ends.
Preparation ==
    \/ StopLooks \/ Cleans \/ Ready \/ TimesOut \/ Migrates \/ Truncates \/ Carries
    \/ Drops \/ LegacyRuns \/ RemovesService \/ EndsProcess \/ Clears \/ Loads
    \/ CannotAsk \/ Updates \/ Installs \/ Writes \/ Checks
    \/ \E c \in {"start", "restart", "stop", "uninstall"},
          d \in Definitions \cup {NoDefinition} : Command(c, d)
    \/ \E c \in {"setup", "open"} : Opens(c)

\* They leave the service as it is.
LEMMA Prepares ==
    ASSUME CommandFits, Preparation
    PROVE  /\ UNCHANGED <<manager, file, loaded, job, metadata>>
           /\ cli'.aborted = cli.aborted /\ cli'.ignored = cli.ignored
           /\ cli'.overtaken = cli.overtaken
           /\ \/ UNCHANGED cli
              \/ /\ cli.at \notin {"recording"} \cup Installing \cup Launching
                 /\ cli'.at \in Beginning \cup Ending \cup Removing
                                  \cup {"reading", "installing", "done", "failed"}
                 /\ cli'.at = "wiping" => cli.at = "cleaning" /\ cli.cmd = "uninstall"
<1> USE DEF Then, Asks, AtThePrompt, Beginning, Ending, Removing, Installing, Launching, Closing
<1> DEFINE Same == /\ UNCHANGED <<manager, file, loaded, job, metadata>>
                   /\ cli'.aborted = cli.aborted /\ cli'.ignored = cli.ignored
                   /\ cli'.overtaken = cli.overtaken
                   /\ \/ UNCHANGED cli
                      \/ /\ cli.at \notin {"recording"} \cup Installing \cup Launching
                         /\ cli'.at \in Beginning \cup Ending \cup Removing
                                          \cup {"reading", "installing", "done", "failed"}
                         /\ cli'.at = "wiping" => cli.at = "cleaning" /\ cli.cmd = "uninstall"
<1>1. CASE Cleans
  BY <1>1, CleansThen DEF Cleans
<1>2. CASE EndsProcess
  BY <1>2 DEF EndsProcess, CommandFits, ServiceTypes, CliTypes
<1>3. CASE StopLooks \/ Ready \/ TimesOut
  <2>1. CASE StopLooks
    BY <2>1 DEF StopLooks, CommandFits, ServiceTypes, CliTypes
  <2>2. CASE Ready
    BY <2>2 DEF Ready, CommandFits, ServiceTypes, CliTypes
  <2>3. CASE TimesOut
    BY <2>3 DEF TimesOut, CommandFits, ServiceTypes, CliTypes
  <2>. QED
    BY <1>3, <2>1, <2>2, <2>3
<1>4. CASE Migrates \/ Truncates \/ Carries \/ Drops \/ LegacyRuns \/ Clears \/ Loads
  <2>1. CASE Migrates
    BY <2>1 DEF Migrates, CommandFits, ServiceTypes, CliTypes
  <2>2. CASE Truncates
    BY <2>2 DEF Truncates, CommandFits, ServiceTypes, CliTypes
  <2>3. CASE Carries
    BY <2>3 DEF Carries, CommandFits, ServiceTypes, CliTypes
  <2>4. CASE Drops
    BY <2>4 DEF Drops, CommandFits, ServiceTypes, CliTypes
  <2>5. CASE LegacyRuns
    BY <2>5 DEF LegacyRuns, CommandFits, ServiceTypes, CliTypes
  <2>6. CASE Clears
    BY <2>6 DEF Clears, CommandFits, ServiceTypes, CliTypes
  <2>7. CASE Loads
    BY <2>7 DEF Loads, CommandFits, ServiceTypes, CliTypes
  <2>. QED
    BY <1>4, <2>1, <2>2, <2>3, <2>4, <2>5, <2>6, <2>7
<1>5. CASE RemovesService
  BY <1>5 DEF RemovesService, CommandFits, ServiceTypes, CliTypes
<1>6. CASE CannotAsk \/ Updates \/ Installs \/ Writes \/ Checks
  <2>1. CASE CannotAsk
    BY <2>1 DEF CannotAsk, CommandFits, ServiceTypes, CliTypes
  <2>2. CASE Updates
    BY <2>2 DEF Updates, CommandFits, ServiceTypes, CliTypes
  <2>3. CASE Installs
    BY <2>3 DEF Installs, CommandFits, ServiceTypes, CliTypes
  <2>4. CASE Writes
    BY <2>4 DEF Writes, CommandFits, ServiceTypes, CliTypes
  <2>5. CASE Checks
    BY <2>5 DEF Checks, CommandFits, ServiceTypes, CliTypes
  <2>. QED
    BY <1>6, <2>1, <2>2, <2>3, <2>4, <2>5
<1>7. ASSUME NEW c, NEW d, Command(c, d)
       PROVE  Same
  BY <1>7 DEF Command, Busy, CommandFits, ServiceTypes, CliTypes
<1>8. ASSUME NEW c, Opens(c) PROVE Same
  BY <1>8 DEF Opens, Busy, CommandFits, ServiceTypes, CliTypes
<1>. QED
  BY <1>1, <1>2, <1>3, <1>4, <1>5, <1>6, <1>7, <1>8 DEF Preparation

\* An ignored error excuses whatever follows.
LEMMA Excuses ==
    ASSUME CommandFits, StopIgnores \/ Aborts \/ RemovalEnds \/ EndsTask \/ Enables
    PROVE  /\ StopIgnores => cli'.ignored
           /\ Aborts => /\ cli'.aborted /\ cli'.at = "failed" /\ UNCHANGED <<file, loaded, job, metadata>>
                        /\ cli'.ignored = cli.ignored /\ cli'.overtaken = cli.overtaken
           /\ RemovalEnds => \/ cli'.ignored
                             \/ /\ cli'.at = "cleaning" /\ UNCHANGED job
                                /\ cli.at = "removing" /\ file = NoDefinition
                             \/ cli'.at = "erasing" /\ job' = Off
           /\ EndsTask => \/ cli'.ignored
                          \/ cli'.at = "creating" /\ job' = Off
           /\ Enables => /\ cli'.at = "recording" /\ cli'.ignored = cli.ignored
                         /\ cli'.aborted = cli.aborted
                         /\ cli'.found = cli.found /\ cli'.want = cli.want
                         /\ ~cli'.overtaken => /\ ~cli.overtaken
                                               /\ ~(cli.found = "idle" /\ job.state = "up" /\ job.def # file)
<1>1. ASSUME StopIgnores PROVE cli'.ignored
  BY <1>1 DEF StopIgnores, CommandFits, ServiceTypes, CliTypes
<1>2. ASSUME Aborts
      PROVE  /\ cli'.aborted /\ cli'.at = "failed" /\ UNCHANGED <<file, loaded, job, metadata>>
             /\ cli'.ignored = cli.ignored /\ cli'.overtaken = cli.overtaken
  BY <1>2 DEF Aborts, CommandFits, ServiceTypes, CliTypes
<1>3. ASSUME RemovalEnds
      PROVE  \/ cli'.ignored
             \/ /\ cli'.at = "cleaning" /\ UNCHANGED job
                /\ cli.at = "removing" /\ file = NoDefinition
             \/ cli'.at = "erasing" /\ job' = Off
  BY <1>3 DEF RemovalEnds, Then, CommandFits, ServiceTypes, CliTypes
<1>4. ASSUME EndsTask PROVE cli'.ignored \/ (cli'.at = "creating" /\ job' = Off)
  BY <1>4 DEF EndsTask, Then, CommandFits, ServiceTypes, CliTypes
<1>5. ASSUME Enables
      PROVE  /\ cli'.at = "recording" /\ cli'.ignored = cli.ignored
             /\ cli'.aborted = cli.aborted
             /\ cli'.found = cli.found /\ cli'.want = cli.want
             /\ ~cli'.overtaken => /\ ~cli.overtaken
                                   /\ ~(cli.found = "idle" /\ job.state = "up" /\ job.def # file)
  <2> DEFINE over == cli.overtaken \/ (cli.found = "idle" /\ job.state = "up" /\ job.def # file)
  <2>1. cli' = [cli EXCEPT !.at = "recording", !.overtaken = over]
    BY <1>5 DEF Enables
  <2> HIDE DEF over
  <2>2. /\ cli'.at = "recording" /\ cli'.ignored = cli.ignored /\ cli'.aborted = cli.aborted
        /\ cli'.found = cli.found /\ cli'.want = cli.want /\ cli'.overtaken = over
    BY <2>1 DEF CommandFits, ServiceTypes, CliTypes
  <2>. QED
    BY <2>2 DEF over
<1>. QED
  BY <1>1, <1>2, <1>3, <1>4, <1>5

\* The manager is the same, and what was excused remains so.
LEMMA StaysExcused ==
    ASSUME CommandFits, [GuidedNext]_setupVars
    PROVE  manager' = manager /\ (Excused => Excused')
<1> DEFINE Stays == manager' = manager /\ (Excused => Excused')
<1> USE DEF Excused
<1>1. CASE Preparation
  BY <1>1, Prepares
<1>2. CASE StopIgnores \/ Aborts \/ RemovalEnds \/ EndsTask
  BY <1>2
     DEF StopIgnores, Aborts, RemovalEnds, EndsTask, Then, CommandFits, ServiceTypes, CliTypes
<1>3. CASE Enables
  BY <1>3 DEF Enables, CommandFits, ServiceTypes, CliTypes
<1>4. CASE Reads
  BY <1>4, ReadsLooks DEF Reads, CommandFits
<1>5. CASE \/ StopEnds \/ Erases \/ Wipes \/ Unloads \/ WritesFile \/ Bootstraps \/ Kicks \/ Reloads
           \/ Restarts \/ CreatesTask \/ RunsTask \/ Records
  <2>1. CASE StopEnds
    BY <2>1 DEF StopEnds, Then, CommandFits, ServiceTypes, CliTypes
  <2>2. CASE Erases
    BY <2>2 DEF Erases, Then, CommandFits, ServiceTypes, CliTypes
  <2>3. CASE Wipes
    BY <2>3 DEF Wipes, Then, CommandFits, ServiceTypes, CliTypes
  <2>4. CASE Unloads
    BY <2>4 DEF Unloads, Then, CommandFits, ServiceTypes, CliTypes
  <2>5. CASE WritesFile
    BY <2>5 DEF WritesFile, Then, CommandFits, ServiceTypes, CliTypes
  <2>6. CASE Bootstraps
    BY <2>6 DEF Bootstraps, Then, CommandFits, ServiceTypes, CliTypes
  <2>7. CASE Kicks
    BY <2>7 DEF Kicks, Then, CommandFits, ServiceTypes, CliTypes
  <2>8. CASE Reloads
    BY <2>8 DEF Reloads, Then, CommandFits, ServiceTypes, CliTypes
  <2>9. CASE Restarts
    BY <2>9 DEF Restarts, Then, CommandFits, ServiceTypes, CliTypes
  <2>10. CASE CreatesTask
    BY <2>10 DEF CreatesTask, Then, CommandFits, ServiceTypes, CliTypes
  <2>11. CASE RunsTask
    BY <2>11 DEF RunsTask, Then, CommandFits, ServiceTypes, CliTypes
  <2>12. CASE Records
    BY <2>12 DEF Records, Then, CommandFits, ServiceTypes, CliTypes
  <2>. QED
    BY <1>5, <2>1, <2>2, <2>3, <2>4, <2>5, <2>6, <2>7, <2>8, <2>9, <2>10, <2>11, <2>12
<1>6. CASE JobEnds \/ UNCHANGED serviceVars
  BY <1>6 DEF JobEnds, serviceVars
<1>7. ASSUME NEW r \in Runtimes, NEW n \in Pids, Launch(r, n) PROVE Stays
  BY <1>7 DEF Launch
<1>. QED
  BY <1>1, <1>2, <1>3, <1>4, <1>5, <1>6, <1>7, CasesOfNext
     DEF Preparation

\* launchd's part is kept.
LEMMA LaunchdStep ==
    ASSUME CommandFits, LaunchdFits, [GuidedNext]_setupVars
    PROVE  LaunchdFits'
<1> SUFFICES ASSUME manager = "launchd", ~Excused, ~Excused' PROVE LaunchdFits'
  BY StaysExcused DEF LaunchdFits
<1>0. /\ CommandFits /\ manager' = "launchd"
      /\ ~cli'.ignored /\ ~cli'.overtaken
  BY StaysExcused DEF Excused
<1> USE DEF LaunchdFits, Closing
<1>1. CASE Preparation
  BY <1>0, <1>1, Prepares
     DEF Beginning, Ending, Removing, Installing, Launching, CommandFits, FileFits, EndedIsDown,
         Down, Excused
<1>2. CASE StopIgnores
  BY <1>0, <1>2, Excuses DEF CommandFits, FileFits, EndedIsDown, Down, Off, Excused
<1>3. CASE Aborts
  BY <1>0, <1>3, Excuses DEF CommandFits, FileFits, EndedIsDown, Down, Off, Excused
<1>4. CASE RemovalEnds
  BY <1>0, <1>4, Excuses
     DEF CommandFits, FileFits, EndedIsDown, Down, Off, Excused, RemovalEnds, PlaceFits
<1>5. CASE Reloads \/ Restarts \/ Enables \/ EndsTask \/ CreatesTask \/ RunsTask
  BY <1>0, <1>5
     DEF Reloads, Restarts, Enables, EndsTask, CreatesTask, RunsTask, CommandFits, PlaceFits
<1>6. CASE StopEnds
  BY <1>0, <1>6 DEF StopEnds, Then, CommandFits, ServiceTypes, CliTypes, Off, Asked
<1>7. CASE Erases
  BY <1>0, <1>7
     DEF Erases, Then, CommandFits, ServiceTypes, CliTypes, Off, Asked, EndedIsDown, Down,
         Excused
<1>8. CASE Wipes
  BY <1>0, <1>8 DEF Wipes, Then, CommandFits, ServiceTypes, CliTypes, Off, Asked
<1>9. CASE Reads
  BY <1>0, <1>9, ReadsLooks DEF Reads, Status, Differs, CommandFits
<1>10. CASE Unloads
  BY <1>0, <1>10 DEF Unloads, Then, CommandFits, ServiceTypes, CliTypes, Off, Asked
<1>11. CASE WritesFile
  BY <1>0, <1>11 DEF WritesFile, Then, CommandFits, ServiceTypes, CliTypes, Off, Asked
<1>12. CASE Bootstraps
  BY <1>0, <1>12
     DEF Bootstraps, Then, CommandFits, FileFits, Launching, ServiceTypes, CliTypes, Off, Asked
<1>13. CASE Kicks
  BY <1>0, <1>13
     DEF Kicks, Then, CommandFits, FileFits, Launching, ServiceTypes, CliTypes, Off, Asked
<1>14. CASE Records
  BY <1>0, <1>14 DEF Records, Then, CommandFits, ServiceTypes, CliTypes, Off, Asked
<1>15. CASE JobEnds
  BY <1>0, <1>15 DEF JobEnds, Off, Waiting
<1>16. CASE UNCHANGED serviceVars
  BY <1>0, <1>16 DEF serviceVars
<1>17. ASSUME NEW r \in Runtimes, NEW n \in Pids, Launch(r, n) PROVE LaunchdFits'
  BY <1>0, <1>17 DEF Launch, Up, CommandFits, ServiceTypes
<1>. QED
  BY <1>1, <1>2, <1>3, <1>4, <1>5, <1>6, <1>7, <1>8, <1>9, <1>10, <1>11, <1>12, <1>13,
     <1>14, <1>15, <1>16, <1>17, CasesOfNext
     DEF Preparation

\* systemd's part is kept.
LEMMA SystemdStep ==
    ASSUME CommandFits, SystemdFits, [GuidedNext]_setupVars
    PROVE  SystemdFits'
<1> SUFFICES ASSUME manager = "systemd", ~Excused, ~Excused' PROVE SystemdFits'
  BY StaysExcused DEF SystemdFits
<1>0. /\ CommandFits /\ manager' = "systemd"
      /\ ~cli'.ignored /\ ~cli'.overtaken
  BY StaysExcused DEF Excused
<1> USE DEF SystemdFits, Closing
<1>1. CASE Preparation
  BY <1>0, <1>1, Prepares
     DEF Beginning, Ending, Removing, Installing, Launching, CommandFits, FileFits, EndedIsDown,
         Down, Excused
<1>2. CASE StopIgnores
  BY <1>0, <1>2, Excuses DEF CommandFits, FileFits, EndedIsDown, Down, Off, Excused
<1>3. CASE Aborts
  BY <1>0, <1>3, Excuses DEF CommandFits, FileFits, EndedIsDown, Down, Off, Excused
<1>4. CASE RemovalEnds
  BY <1>0, <1>4, Excuses DEF CommandFits, FileFits, EndedIsDown, Down, Off, Excused, RemovalEnds
<1>5. CASE Unloads \/ Bootstraps \/ Kicks \/ EndsTask \/ CreatesTask \/ RunsTask
  BY <1>0, <1>5
     DEF Unloads, Bootstraps, Kicks, EndsTask, CreatesTask, RunsTask, CommandFits, PlaceFits
<1>6. CASE StopEnds
  BY <1>0, <1>6 DEF StopEnds, Then, CommandFits, ServiceTypes, CliTypes, Off, Asked
<1>7. CASE Erases
  BY <1>0, <1>7
     DEF Erases, Then, CommandFits, ServiceTypes, CliTypes, Off, Asked, EndedIsDown, Down,
         Excused
<1>8. CASE Wipes
  BY <1>0, <1>8 DEF Wipes, Then, CommandFits, ServiceTypes, CliTypes, Off, Asked
<1>9. CASE Reads
  BY <1>0, <1>9, ReadsLooks DEF Reads, Status, Differs, CommandFits, FileFits, Down, Excused
<1>10. CASE WritesFile
  BY <1>0, <1>10 DEF WritesFile, Then, CommandFits, ServiceTypes, CliTypes, Off, Asked
<1>11. CASE Reloads
  BY <1>0, <1>11 DEF Reloads, Then, CommandFits, ServiceTypes, CliTypes, Off, Asked
<1>12. CASE Restarts
  BY <1>0, <1>12 DEF Restarts, Then, CommandFits, ServiceTypes, CliTypes, Off, Asked
<1>13. CASE Enables
  BY <1>0, <1>13, Excuses DEF Enables, Asked, CommandFits, ServiceTypes, CliTypes, Statuses
<1>14. CASE Records
  BY <1>0, <1>14 DEF Records, Then, CommandFits, ServiceTypes, CliTypes, Off, Asked
<1>15. CASE JobEnds
  BY <1>0, <1>15 DEF JobEnds, Off, Waiting
<1>16. CASE UNCHANGED serviceVars
  BY <1>0, <1>16 DEF serviceVars
<1>17. ASSUME NEW r \in Runtimes, NEW n \in Pids, Launch(r, n) PROVE SystemdFits'
  BY <1>0, <1>17 DEF Launch, Up, CommandFits, ServiceTypes
<1>. QED
  BY <1>1, <1>2, <1>3, <1>4, <1>5, <1>6, <1>7, <1>8, <1>9, <1>10, <1>11, <1>12, <1>13,
     <1>14, <1>15, <1>16, <1>17, CasesOfNext
     DEF Preparation

\* The scheduler's part is kept.
LEMMA TasksStep ==
    ASSUME CommandFits, TasksFit, [GuidedNext]_setupVars
    PROVE  TasksFit'
<1> SUFFICES ASSUME manager = "tasks", ~Excused, ~Excused' PROVE TasksFit'
  BY StaysExcused DEF TasksFit
<1>0. /\ CommandFits /\ manager' = "tasks"
      /\ ~cli'.ignored /\ ~cli'.overtaken
  BY StaysExcused DEF Excused
<1> USE DEF TasksFit, Closing
<1>1. CASE Preparation
  BY <1>0, <1>1, Prepares
     DEF Beginning, Ending, Removing, Installing, Launching, CommandFits, FileFits, EndedIsDown,
         Down, Excused
<1>2. CASE StopIgnores
  BY <1>0, <1>2, Excuses DEF CommandFits, FileFits, EndedIsDown, Down, Off, Excused
<1>3. CASE Aborts
  BY <1>0, <1>3, Excuses DEF CommandFits, FileFits, EndedIsDown, Down, Off, Excused
<1>4. CASE RemovalEnds
  <2>1. UNCHANGED <<loaded, metadata>>
    BY <1>4 DEF RemovalEnds
  <2>2. \/ cli'.at = "cleaning" /\ UNCHANGED job /\ cli.at = "removing"
        \/ cli'.at = "erasing" /\ job' = Off
    BY <1>0, <1>4, Excuses
  <2>3. CASE cli'.at = "cleaning" /\ UNCHANGED job /\ cli.at = "removing"
    BY <1>0, <2>1, <2>3
  <2>4. CASE cli'.at = "erasing" /\ job' = Off
    BY <1>0, <2>1, <2>4 DEF Off
  <2>. QED
    BY <2>2, <2>3, <2>4
<1>5. CASE Unloads \/ WritesFile \/ Bootstraps \/ Kicks \/ Reloads \/ Restarts \/ Enables
  BY <1>0, <1>5
     DEF Unloads, WritesFile, Bootstraps, Kicks, Reloads, Restarts, Enables, CommandFits,
         PlaceFits
<1>6. CASE StopEnds
  BY <1>0, <1>6 DEF StopEnds, Then, CommandFits, ServiceTypes, CliTypes, Off, Asked
<1>7. CASE Erases
  BY <1>0, <1>7
     DEF Erases, Then, CommandFits, ServiceTypes, CliTypes, Off, Asked, EndedIsDown, Down,
         Excused
<1>8. CASE Wipes
  BY <1>0, <1>8 DEF Wipes, Then, CommandFits, ServiceTypes, CliTypes, Off, Asked
<1>9. CASE Reads
  <2>1. UNCHANGED <<loaded, job, metadata>> /\ cli.at = "reading" /\ cli'.want = cli.want
    BY <1>9, ReadsLooks DEF Reads, CommandFits
  <2>2. \/ Status = "running" /\ ~Differs /\ cli'.at = "recording"
        \/ cli'.at = IF Status = "running" THEN "ending task" ELSE "creating"
    BY <1>9, ReadsLooks DEF CommandFits
  <2>3. CASE ~Differs /\ cli'.at = "recording"
    BY <1>0, <2>1, <2>3 DEF Differs
  <2>4. CASE cli'.at = "ending task"
    BY <1>0, <2>1, <2>4
  <2>5. CASE Status # "running" /\ cli'.at = "creating"
    <3>1. job.state = "off"
      BY <2>5 DEF Status, CommandFits, ServiceTypes, FileFits, Down, Excused
    <3>. QED
      BY <1>0, <2>1, <2>5, <3>1
  <2>. QED
    BY <2>2, <2>3, <2>4, <2>5
<1>10. CASE EndsTask
  <2>1. UNCHANGED <<loaded, metadata>>
    BY <1>10 DEF EndsTask
  <2>2. cli'.at = "creating" /\ job' = Off
    BY <1>0, <1>10, Excuses
  <2>. QED
    BY <1>0, <2>1, <2>2 DEF Off
<1>11. CASE CreatesTask
  BY <1>0, <1>11 DEF CreatesTask, Then, CommandFits, ServiceTypes, CliTypes, Off, Asked
<1>12. CASE RunsTask
  BY <1>0, <1>12 DEF RunsTask, Then, CommandFits, ServiceTypes, CliTypes, Off, Asked, FileFits
<1>13. CASE Records
  BY <1>0, <1>13 DEF Records, Then, CommandFits, ServiceTypes, CliTypes, Off, Asked
<1>14. CASE JobEnds
  BY <1>0, <1>14 DEF JobEnds, Off
<1>15. CASE UNCHANGED serviceVars
  BY <1>0, <1>15 DEF serviceVars
<1>16. ASSUME NEW r \in Runtimes, NEW n \in Pids, Launch(r, n) PROVE TasksFit'
  BY <1>0, <1>16 DEF Launch, Up, CommandFits, ServiceTypes, FileFits
<1>. QED
  BY <1>1, <1>2, <1>3, <1>4, <1>5, <1>6, <1>7, <1>8, <1>9, <1>10, <1>11, <1>12, <1>13,
     <1>14, <1>15, <1>16, CasesOfNext
     DEF Preparation

----------------------------------------------------------------------------
\* What "setup" has done when it says so.

LegacyTypes ==
    legacy \in [home : {"absent", "there", "removed"}, elsewhere : BOOLEAN,
                content : {s.legacy.content : s \in Scenarios},
                service : {"none", "loaded", "escaped"}, process : {"none", "agent", "other"}]

\* From here on the predecessor's service is no longer loaded, and then it does not run.
Removed == {"ending process", "clearing", "asking", "checking", "stopping", "ending",
            "cleaning", "reading"} \cup Installing \cup Launching \cup Closing

LegacyFits ==
    /\ LegacyTypes
    /\ cli.cmd = "setup" /\ cli.at \in Removed
          => /\ legacy.service # "loaded"
             /\ cli.at # "ending process" => PredecessorIsGone

\* From here on no process runs that took another config or version than there is.
Afterwards == {"cleaning", "reading"} \cup Installing \cup Launching \cup Closing

TakenFits ==
    /\ taken = [r \in Runtimes |-> taken[r]]
    /\ cli.cmd = "setup" /\ cli.at \in Afterwards /\ job.state = "up"
          => taken[job.run] = Present \/ cli.ignored

\* The commands that end and start the service are a part of "setup" that comes after
\* its beginning; nothing runs when it has ended the service, or an error was ignored.
LEMMA SetupGoesOn ==
    ASSUME CommandFits, CliNext, cli'.cmd = "setup"
    PROVE  /\ cli.cmd = "setup"
           /\ cli.ignored => cli'.ignored
           /\ cli'.at \notin {"ending process", "clearing", "asking", "checking"}
           /\ cli'.at \in Removed => cli.at \in {"stopping", "ending"} \cup Afterwards
           /\ cli'.at \in Afterwards => cli.at \in Afterwards \/ job'.state # "up" \/ cli'.ignored
<1> USE DEF Removed, Afterwards, Installing, Launching, Closing, Then
<1> DEFINE GoesOn == /\ cli.cmd = "setup"
                     /\ cli.ignored => cli'.ignored
                     /\ cli'.at \notin {"ending process", "clearing", "asking", "checking"}
                     /\ cli'.at \in Removed => cli.at \in {"stopping", "ending"} \cup Afterwards
                     /\ cli'.at \in Afterwards => cli.at \in Afterwards \/ job'.state # "up" \/ cli'.ignored
<1>1. CASE StopLooks
  <2>1. cli.at = "stopping" /\ UNCHANGED job
    BY <1>1 DEF StopLooks
  <2>2. cli'.cmd = cli.cmd /\ cli'.ignored = cli.ignored
    BY <1>1 DEF StopLooks, CommandFits, ServiceTypes, CliTypes
  <2>3. cli'.at = "ending" \/ (cli'.at = "cleaning" /\ Status # "running")
    BY <1>1 DEF StopLooks, CommandFits, ServiceTypes, CliTypes
  <2>4. Status # "running" => job.state # "up" \/ cli.ignored
    BY DEF Status, CommandFits, FileFits, Down
  <2>. QED
    BY <2>1, <2>2, <2>3, <2>4
<1>2. CASE StopEnds
  BY <1>2 DEF StopEnds, CommandFits, ServiceTypes, CliTypes, Off
<1>3. CASE StopIgnores
  BY <1>3 DEF StopIgnores, CommandFits, ServiceTypes, CliTypes
<1>4. CASE RemovalEnds
  <2>1. cli.at = "removing" /\ cli'.cmd = cli.cmd
    BY <1>4 DEF RemovalEnds, CommandFits, ServiceTypes, CliTypes
  <2>. QED
    BY <2>1 DEF CommandFits, PlaceFits, Removing
<1>5. CASE Erases \/ Wipes
  BY <1>5 DEF Erases, Wipes, CommandFits, ServiceTypes, CliTypes, PlaceFits, Removing
<1>6. CASE Cleans
  BY <1>6, CleansThen
<1>7. CASE Reads
  <2>. QED
    BY <1>7, ReadsLooks DEF CommandFits
<1>8. CASE Unloads \/ WritesFile \/ Bootstraps \/ Kicks \/ Reloads \/ Restarts
  BY <1>8 DEF Unloads, WritesFile, Bootstraps, Kicks, Reloads, Restarts, CommandFits,
              ServiceTypes, CliTypes
<1>9. CASE Enables
  BY <1>9 DEF Enables, CommandFits, ServiceTypes, CliTypes
<1>10. CASE EndsTask
  BY <1>10 DEF EndsTask, CommandFits, ServiceTypes, CliTypes
<1>11. CASE CreatesTask \/ RunsTask \/ Records \/ Ready \/ TimesOut \/ Aborts
  <2>1. CASE CreatesTask
    BY <2>1 DEF CreatesTask, CommandFits, ServiceTypes, CliTypes
  <2>2. CASE RunsTask
    BY <2>2 DEF RunsTask, CommandFits, ServiceTypes, CliTypes
  <2>3. CASE Records
    BY <2>3 DEF Records, CommandFits, ServiceTypes, CliTypes
  <2>4. CASE Ready
    BY <2>4 DEF Ready, CommandFits, ServiceTypes, CliTypes
  <2>5. CASE TimesOut
    BY <2>5 DEF TimesOut, CommandFits, ServiceTypes, CliTypes
  <2>6. CASE Aborts
    BY <2>6 DEF Aborts, CommandFits, ServiceTypes, CliTypes
  <2>. QED
    BY <1>11, <2>1, <2>2, <2>3, <2>4, <2>5, <2>6
<1>12. ASSUME NEW c \in {"start", "restart", "stop", "uninstall"}, NEW d, Command(c, d)
       PROVE  GoesOn
  <2>1. cli'.cmd = c
    BY <1>12 DEF Command, CommandFits, ServiceTypes, CliTypes
  <2>. QED
    BY <2>1
<1>. QED
  BY <1>1, <1>2, <1>3, <1>4, <1>5, <1>6, <1>7, <1>8, <1>9, <1>10, <1>11, <1>12 DEF CliNext

\* The program's own steps, and the manager's, are none of a command.
LEMMA CommandWaits ==
    ASSUME RunNext \/ \E r \in Runtimes : Forget(r)
    PROVE  UNCHANGED cli
<1>1. ASSUME NEW r \in Runtimes, NEW n \in Pids, Launch(r, n) \/ Foreground(r, n)
      PROVE  UNCHANGED cli
  BY <1>1 DEF Launch, Foreground
<1>2. ASSUME NEW r \in Runtimes,
             \/ Acquire(r) \/ WriteTorn(r) \/ Bind(r) \/ BindRefused(r) \/ TaskEnds(r)
             \/ Leave(r) \/ CloseSocket(r) \/ Dies(r) \/ Forget(r)
      PROVE  UNCHANGED cli
  BY <1>2 DEF Acquire, WriteTorn, Bind, BindRefused, TaskEnds, Leave, CloseSocket, Dies, Forget,
              service
<1>3. ASSUME NEW n \in Pids, OtherTakes(n) PROVE UNCHANGED cli
  BY <1>3 DEF OtherTakes
<1>4. CASE JobEnds
  BY <1>4 DEF JobEnds
<1>. QED
  BY <1>1, <1>2, <1>3, <1>4 DEF RunNext

\* The predecessor's service is ended before its process is, and only what launchd or the
\* scheduler would not end runs again.
LEMMA LegacyStep ==
    ASSUME CommandFits, LegacyFits, [GuidedNext]_setupVars
    PROVE  LegacyFits'
<1> USE DEF LegacyFits, PredecessorIsGone
<1>0. manager' = manager
  BY StaysExcused
<1>1. CASE UNCHANGED <<cli, legacy>>
  BY <1>0, <1>1 DEF LegacyTypes
<1>2. CASE CliNext /\ UNCHANGED legacy
  <2>1. LegacyTypes'
    BY <1>2 DEF LegacyTypes
  <2>2. CASE cli'.cmd = "setup" /\ cli'.at \in Removed
    <3>1. cli.cmd = "setup" /\ cli.at \in Removed \ {"ending process"}
      BY <1>2, <2>2, SetupGoesOn DEF Removed, Afterwards, Installing, Launching, Closing
    <3>. QED
      BY <1>0, <1>2, <2>1, <2>2, <3>1
  <2>. QED
    BY <2>1, <2>2
<1>3. CASE SetupNext
  <2> USE DEF LegacyTypes, Then, CommandFits, ServiceTypes, CliTypes, Asks, AtThePrompt, Removed,
              Installing, Launching, Closing
  <2>1. ASSUME NEW c \in {"setup", "open"}, Opens(c) PROVE LegacyFits'
    BY <2>1 DEF Opens
  <2>2. ASSUME NEW r \in Runtimes, Rereads(r) PROVE LegacyFits'
    BY <1>1, <2>2 DEF Rereads, allVars, service
  <2>3. CASE Migrates \/ Truncates \/ Carries
    <3>1. CASE Migrates
      BY <3>1 DEF Migrates
    <3>2. CASE Truncates
      BY <3>2 DEF Truncates
    <3>3. CASE Carries
      BY <3>3 DEF Carries
    <3>. QED
      BY <2>3, <3>1, <3>2, <3>3
  <2>4. CASE Drops
    BY <2>4 DEF Drops
  <2>5. CASE LegacyRuns
    BY <1>0, <2>5 DEF LegacyRuns
  <2>6. CASE RemovesService
    BY <1>0, <2>6 DEF RemovesService, Removable
  <2>7. CASE EndsProcess
    <3>1. /\ cli.at = "ending process"
          /\ \/ Then("failed") /\ UNCHANGED legacy
             \/ Then("clearing") /\ manager = "tasks" /\ UNCHANGED legacy
             \/ Then("clearing") /\ legacy' = [legacy EXCEPT !.process = "none"]
      BY <2>7 DEF EndsProcess
    <3>2. CASE Then("failed") /\ UNCHANGED legacy
      BY <3>2
    <3>3. CASE Then("clearing") /\ manager = "tasks" /\ UNCHANGED legacy
      BY <1>0, <3>1, <3>3
    <3>4. CASE Then("clearing") /\ legacy' = [legacy EXCEPT !.process = "none"]
      BY <1>0, <3>1, <3>4
    <3>. QED
      BY <3>1, <3>2, <3>3, <3>4
  <2>8. CASE Clears
    BY <1>0, <2>8 DEF Clears
  <2>9. CASE Loads
    BY <2>9 DEF Loads, PlaceFits
  <2>10. CASE CannotAsk
    BY <2>10 DEF CannotAsk
  <2>11. CASE Updates \/ Installs
    <3>1. CASE Updates
      BY <3>1 DEF Updates
    <3>2. CASE Installs
      BY <3>2 DEF Installs
    <3>. QED
      BY <2>11, <3>1, <3>2
  <2>12. CASE Writes
    BY <1>0, <2>12 DEF Writes
  <2>13. CASE Checks
    BY <1>0, <2>13 DEF Checks
  <2>. QED
    BY <1>3, <2>1, <2>2, <2>3, <2>4, <2>5, <2>6, <2>7, <2>8, <2>9, <2>10, <2>11, <2>12, <2>13
       DEF SetupNext
<1>. QED
  BY <1>1, <1>2, <1>3, CommandWaits
     DEF GuidedNext, ServiceNext, Elsewhere, setupVars, allVars, service, setup

\* What a process took when it started stays the config and the version there are, until
\* "setup" is over.
LEMMA TakenStep ==
    ASSUME CommandFits, JobFits, TakenFits, [GuidedNext]_setupVars
    PROVE  TakenFits'
<1>0. JobFits'
  BY JobStep
<1>1. CASE UNCHANGED setupVars
  BY <1>1 DEF setupVars, allVars, service, setup, TakenFits, Present
<1>2. CASE ServiceNext /\ Elsewhere
  <2>1. /\ taken' = [r \in Runtimes |-> taken'[r]]
        /\ Present' = Present
        /\ \A r \in Runtimes : /\ at'[r] # "none" /\ at[r] = "none" => taken'[r] = Present
                               /\ at'[r] # "none" /\ at[r] # "none" => taken'[r] = taken[r]
    BY <1>2 DEF Elsewhere, Takes, Present
  <2>2. CASE cli'.cmd = "setup" /\ cli'.at \in Afterwards /\ job'.state = "up"
    <3>1. /\ cli.ignored => cli'.ignored
          /\ (cli.cmd = "setup" /\ cli.at \in Afterwards) \/ cli'.ignored
      <4>1. CASE UNCHANGED cli
        BY <2>2, <4>1
      <4>2. CASE CliNext
        BY <2>2, <4>2, SetupGoesOn
      <4>. QED
        BY <1>2, <4>1, <4>2, CommandWaits DEF ServiceNext
    <3>2. job'.run \in Runtimes /\ at'[job'.run] # "none"
      BY <1>0, <2>2 DEF JobFits
    <3>3. CASE UNCHANGED job
      <4>1. at[job.run] # "none"
        BY <2>2, <3>3 DEF JobFits
      <4>. QED
        BY <2>1, <2>2, <3>1, <3>2, <3>3, <4>1 DEF TakenFits
    <3>4. ASSUME NEW r \in Runtimes, NEW n \in Pids, Launch(r, n) PROVE TakenFits'
      <4>1. job'.run = r /\ at[r] = "none"
        BY <3>4 DEF Launch, Up, Begin
      <4>. QED
        BY <2>1, <3>2, <4>1 DEF TakenFits
    <3>5. CASE job' \in {Off, Asked, Waiting}
      BY <2>2, <3>5 DEF Off, Asked, Waiting
    <3>. QED
      BY <3>3, <3>4, <3>5, JobMoves
  <2>. QED
    BY <2>1, <2>2 DEF TakenFits
<1>3. CASE SetupNext
  <2> USE DEF Then, CommandFits, ServiceTypes, CliTypes, Asks, AtThePrompt, Afterwards,
              Installing, Launching, Closing
  <2>1. ASSUME NEW c \in {"setup", "open"}, Opens(c) PROVE TakenFits'
    BY <2>1 DEF Opens, TakenFits
  <2>2. ASSUME NEW r \in Runtimes, Rereads(r) PROVE TakenFits'
    <3>1. /\ UNCHANGED <<cli, job>> /\ Present' = Present
          /\ taken[r] # Present
          /\ taken' = [taken EXCEPT ![r].config = config]
      BY <2>2 DEF Rereads, allVars, service, Present
    <3>2. /\ taken' = [q \in Runtimes |-> taken'[q]]
          /\ \A q \in Runtimes \ {r} : taken'[q] = taken[q]
      BY <3>1 DEF TakenFits
    <3>. QED
      BY <3>1, <3>2 DEF TakenFits, JobFits
  <2>3. CASE Migrates \/ Truncates \/ Carries \/ Drops \/ RemovesService \/ EndsProcess
    <3>1. CASE Migrates
      BY <3>1 DEF Migrates, TakenFits
    <3>2. CASE Truncates
      BY <3>2 DEF Truncates, TakenFits
    <3>3. CASE Carries
      BY <3>3 DEF Carries, TakenFits
    <3>4. CASE Drops
      BY <3>4 DEF Drops, TakenFits
    <3>5. CASE RemovesService
      BY <3>5 DEF RemovesService, TakenFits
    <3>6. CASE EndsProcess
      BY <3>6 DEF EndsProcess, TakenFits
    <3>. QED
      BY <2>3, <3>1, <3>2, <3>3, <3>4, <3>5, <3>6
  <2>4. CASE LegacyRuns
    BY <2>4 DEF LegacyRuns, TakenFits, Present
  <2>5. CASE Loads
    BY <2>5 DEF Loads, PlaceFits, TakenFits
  <2>6. CASE CannotAsk \/ Updates \/ Installs \/ Writes \/ Checks
    <3>1. CASE CannotAsk
      BY <3>1 DEF CannotAsk, TakenFits
    <3>2. CASE Updates
      BY <3>2 DEF Updates, TakenFits
    <3>3. CASE Installs
      BY <3>3 DEF Installs, TakenFits
    <3>4. CASE Writes
      BY <3>4 DEF Writes, TakenFits
    <3>5. CASE Checks
      BY <3>5 DEF Checks, TakenFits
    <3>. QED
      BY <2>6, <3>1, <3>2, <3>3, <3>4, <3>5
  <2>7. CASE Clears
    <3>1. UNCHANGED taken /\ Then(IF cli.cmd = "setup" THEN "asking" ELSE "loading")
      BY <2>7 DEF Clears
    <3>. QED
      BY <3>1 DEF TakenFits
  <2>. QED
    BY <1>3, <2>1, <2>2, <2>3, <2>4, <2>5, <2>6, <2>7 DEF SetupNext
<1>. QED
  BY <1>1, <1>2, <1>3 DEF GuidedNext

\* A command is done with its waiting only when somebody answers.
LEMMA DoneIsReady ==
    ASSUME CommandFits, [GuidedNext]_setupVars, cli.at = "waiting", cli'.at = "done"
    PROVE  Ready
<1> USE DEF CommandFits, ServiceTypes, CliTypes, Then
<1>1. ASSUME CliNext, ~Ready PROVE FALSE
  <2>1. ~TimesOut /\ ~Aborts
    BY DEF TimesOut, Aborts
  <2>2. ~Cleans /\ ~Reads /\ ~RemovalEnds /\ ~EndsTask
    BY DEF Cleans, Reads, RemovalEnds, EndsTask
  <2>3. ASSUME NEW c, NEW d, Command(c, d)
       PROVE  FALSE
    BY <2>3 DEF Command, Busy
  <2>. QED
    BY <1>1, <2>1, <2>2, <2>3
       DEF CliNext, StopLooks, StopEnds, StopIgnores, Erases, Wipes, Unloads, WritesFile,
           Bootstraps, Kicks, Reloads, Restarts, Enables, CreatesTask, RunsTask, Records
<1>2. ASSUME SetupNext PROVE UNCHANGED cli
  <2>1. ASSUME NEW c, Opens(c) PROVE FALSE
    BY <2>1 DEF Opens, Busy
  <2>2. ASSUME NEW r \in Runtimes, Rereads(r) PROVE UNCHANGED cli
    BY <2>2 DEF Rereads, allVars, service
  <2>. QED
    BY <1>2, <2>1, <2>2
       DEF SetupNext, Migrates, Truncates, Carries, Drops, LegacyRuns, RemovesService, EndsProcess,
           Clears, Loads, CannotAsk, Updates, Installs, Writes, Checks
<1>. QED
  BY <1>1, <1>2, CommandWaits DEF GuidedNext, ServiceNext, setupVars, allVars, service

\* What all of this rests on, together.
SetupFits == /\ CommandFits /\ JobFits /\ LaunchdFits /\ SystemdFits /\ TasksFit
             /\ LegacyFits /\ TakenFits

\* It holds wherever a command is, whatever has failed before.
THEOREM SetupInvariance == GuidedSpec => []SetupFits
<1>1. GuidedInit => JobFits /\ LaunchdFits /\ SystemdFits /\ TasksFit /\ LegacyFits /\ TakenFits
  <2> SUFFICES ASSUME GuidedInit
               PROVE  JobFits /\ LaunchdFits /\ SystemdFits /\ TasksFit /\ LegacyFits /\ TakenFits
    OBVIOUS
  <2>1. /\ file = NoDefinition /\ loaded = NoDefinition /\ metadata = NoDefinition
        /\ job.state = "off" /\ job.run = NoRuntime /\ cli.at = "done" /\ cli.cmd = "none"
        /\ binds = {} /\ at = [r \in Runtimes |-> "none"]
    BY DEF GuidedInit, ServiceInit, Init, Off, Idle
  <2>2. JobFits
    BY <2>1 DEF JobFits, AtTypes
  <2>3. LaunchdFits /\ SystemdFits /\ TasksFit
    BY <2>1 DEF LaunchdFits, SystemdFits, TasksFit, Closing
  <2>4. LegacyFits
    BY <2>1, LegacyAssumption DEF GuidedInit, LegacyFits, LegacyTypes
  <2>5. TakenFits
    BY <2>1 DEF GuidedInit, TakenFits
  <2>. QED
    BY <2>2, <2>3, <2>4, <2>5
<1>2. CommandFits /\ SetupFits /\ [GuidedNext]_setupVars
        => (JobFits /\ LaunchdFits /\ SystemdFits /\ TasksFit /\ LegacyFits /\ TakenFits)'
  BY JobStep, LaunchdStep, SystemdStep, TasksStep, LegacyStep, TakenStep DEF SetupFits
<1>. QED
  BY <1>1, <1>2, CommandInvariance, PTL DEF GuidedSpec, SetupFits

\* When a command says that the service is ready, the managed process that answers runs
\* the definition it asked for; and after "setup", the config and the version there are,
\* without the predecessor beside it.
THEOREM ReadySaysTheTruth == GuidedSpec => ReadyIsTrue
<1> DEFINE Truth == (cli.at = "waiting" /\ cli'.at = "done" /\ socket = job.run => RunsWhatWasAsked)
                      /\ SetupTakesEffect
<1>1. ASSUME SetupFits, [GuidedNext]_setupVars PROVE [Truth]_setupVars
  <2> USE DEF SetupFits
  <2> SUFFICES ASSUME cli.at = "waiting", cli'.at = "done", socket = job.run
               PROVE  RunsWhatWasAsked /\ (cli.cmd = "setup" =>
                         (taken[job.run] = Present \/ cli.ignored) /\ PredecessorIsGone)
    BY DEF SetupTakesEffect
  <2>1. job.run \in Runtimes
    BY <1>1, DoneIsReady DEF Ready, Answers, JobFits
  <2>2. job.state = "up"
    BY <1>1, <2>1, RuntimeOwnerAssumption DEF JobFits
  <2>3. RunsWhatWasAsked
    BY <1>1, <2>2
       DEF RunsWhatWasAsked, Excused, LaunchdFits, SystemdFits, TasksFit, CommandFits, ServiceTypes,
           Managers, FileFits, Closing
  <2>4. ASSUME cli.cmd = "setup"
        PROVE  (taken[job.run] = Present \/ cli.ignored) /\ PredecessorIsGone
    BY <1>1, <2>2, <2>4 DEF TakenFits, LegacyFits, Afterwards, Removed, Closing
  <2>. QED
    BY <2>3, <2>4
<1>. QED
  BY <1>1, SetupInvariance, PTL DEF GuidedSpec, ReadyIsTrue

----------------------------------------------------------------------------
\* The configs of the setup.

\* What the functions of a prompt set at least, and at most.
Fields(S, needs, may) == \A s \in S : needs \subseteq DOMAIN s /\ DOMAIN s \subseteq may

LEMMA FieldsOfPrompts ==
    ASSUME NEW old, NEW f
    PROVE  /\ Fields(Required(old, f), {f}, {f})
           /\ Fields(Optional(old, f), {}, {f})
           /\ Fields(Nothing, {}, {})
  BY DEF Fields, Required, Optional, Nothing, Field

LEMMA FieldsOfBoth ==
    ASSUME NEW S, NEW T, NEW a, NEW b, NEW c, NEW d, Fields(S, a, b), Fields(T, c, d)
    PROVE  Fields(Both(S, T), a \cup c, b \cup d)
<1>1. ASSUME NEW s \in S, NEW t \in T
      PROVE  DOMAIN Beside(s, t) = DOMAIN s \cup DOMAIN t
  BY DEF Beside
<1> SUFFICES ASSUME NEW u \in Both(S, T)
             PROVE  a \cup c \subseteq DOMAIN u /\ DOMAIN u \subseteq b \cup d
  BY DEF Fields
<1>2. PICK s \in S, t \in T : u = Beside(s, t)
  BY DEF Both
<1>3. /\ a \subseteq DOMAIN s /\ DOMAIN s \subseteq b
      /\ c \subseteq DOMAIN t /\ DOMAIN t \subseteq d
  BY DEF Fields
<1>4. DOMAIN u = DOMAIN s \cup DOMAIN t
  BY <1>1, <1>2
<1>. QED
  BY <1>3, <1>4

\* The platforms that are reached by an address or a token alone.
LEMMA Webhooks ==
    ASSUME NEW old
    PROVE  /\ Fields(Ntfy(old), {"server", "topic"}, {"server", "topic"})
           /\ \A S \in {Webhook(old), Slack(old), Discord(old), MicrosoftTeams(old)} :
                 Fields(S, {"url"}, {"url"})
           /\ Fields(Pushover(old), {"app_token", "user_key"},
                     {"app_token", "user_key", "device", "sound"})
           /\ Fields(Telegram(old), {"bot_token", "chat_id"}, {"bot_token", "chat_id"})
           /\ LET all == {"access_token", "phone_number_id", "recipient_phone_number"}
              IN  Fields(Whatsapp(old), all, all)
<1>1. Fields({[server |-> "ntfy.sh"]}, {"server"}, {"server"})
  BY DEF Fields
<1>2. Fields(Ntfy(old), {"server"} \cup {"topic"}, {"server"} \cup {"topic"})
  BY <1>1, FieldsOfPrompts, FieldsOfBoth DEF Ntfy
<1>3. Fields(Ntfy(old), {"server", "topic"}, {"server", "topic"})
  BY <1>2 DEF Fields
<1>4. \A S \in {Webhook(old), Slack(old), Discord(old), MicrosoftTeams(old)} :
        Fields(S, {"url"}, {"url"})
  BY FieldsOfPrompts DEF Webhook, Slack, Discord, MicrosoftTeams
<1>5. Fields(Pushover(old), ({"app_token"} \cup {"user_key"}) \cup ({} \cup {}),
             ({"app_token"} \cup {"user_key"}) \cup ({"device"} \cup {"sound"}))
  <2>1. Fields(Both(Required(old, "app_token"), Required(old, "user_key")),
               {"app_token"} \cup {"user_key"}, {"app_token"} \cup {"user_key"})
    BY FieldsOfPrompts, FieldsOfBoth
  <2>2. Fields(Both(Optional(old, "device"), Optional(old, "sound")),
               {} \cup {}, {"device"} \cup {"sound"})
    BY FieldsOfPrompts, FieldsOfBoth
  <2>. QED
    BY <2>1, <2>2, FieldsOfBoth DEF Pushover
<1>6. Fields(Telegram(old), {"bot_token"} \cup {"chat_id"}, {"bot_token"} \cup {"chat_id"})
  BY FieldsOfPrompts, FieldsOfBoth DEF Telegram
<1> DEFINE two == {"phone_number_id"} \cup {"recipient_phone_number"}
<1>7. Fields(Whatsapp(old), {"access_token"} \cup two, {"access_token"} \cup two)
  <2>1. Fields(Both(Required(old, "phone_number_id"), Required(old, "recipient_phone_number")),
               two, two)
    BY FieldsOfPrompts, FieldsOfBoth
  <2>. QED
    BY <2>1, FieldsOfPrompts, FieldsOfBoth DEF Whatsapp, Three
<1>. QED
  BY <1>3, <1>4, <1>5, <1>6, <1>7 DEF Fields

\* The link of WeChat is set as a whole, beside a token.
LEMMA WechatPrompts ==
    ASSUME NEW old, NEW p \in Wechat(old),
           {"token"} \cup WechatLink \subseteq DOMAIN old
              => old.recipient_user_id = old.token /\ old.context_token = old.token
    PROVE  LET all == {"token", "base_url", "recipient_user_id", "context_token"}
           IN  /\ all \subseteq DOMAIN p /\ DOMAIN p \subseteq all \cup {"route_tag"}
               /\ p.recipient_user_id = p.token /\ p.context_token = p.token
<1> DEFINE account == {"token", "base_url"}
           Inner   == UNION {Both({t}, {Linked(t.token)} \cup KeptLink(old, t.token)) :
                               t \in WechatLogin(old) \cup WechatToken(old)}
<1>1. PICK tag \in Optional(old, "route_tag"), q \in Inner : p = Beside(tag, q)
  BY DEF Wechat, Both
<1>2. PICK t \in WechatLogin(old) \cup WechatToken(old) :
         q \in Both({t}, {Linked(t.token)} \cup KeptLink(old, t.token))
  OBVIOUS
<1>3. PICK link \in {Linked(t.token)} \cup KeptLink(old, t.token) : q = Beside(t, link)
  BY <1>2 DEF Both
<1>4. DOMAIN t = account
  <2>1. Fields({[token |-> "scanned"]}, {"token"}, {"token"})
    BY DEF Fields
  <2>2. Fields(Required(old, "base_url") \cup {[base_url |-> "given"]}, {"base_url"}, {"base_url"})
    BY FieldsOfPrompts DEF Fields
  <2>3. Fields(WechatLogin(old), {"token"} \cup {"base_url"}, {"token"} \cup {"base_url"})
    BY <2>1, <2>2, FieldsOfBoth DEF WechatLogin
  <2>4. Fields(WechatToken(old), {"token"} \cup {"base_url"}, {"token"} \cup {"base_url"})
    BY FieldsOfPrompts, FieldsOfBoth DEF WechatToken
  <2>. QED
    BY <2>3, <2>4 DEF Fields
<1>5. DOMAIN tag \subseteq {"route_tag"}
  BY FieldsOfPrompts DEF Fields
<1>6. DOMAIN link = WechatLink /\ link.recipient_user_id = t.token /\ link.context_token = t.token
  <2>1. CASE link = Linked(t.token)
    BY <2>1 DEF Linked, WechatLink
  <2>2. CASE link \in KeptLink(old, t.token)
    <3>1. /\ t.token \in Shown(old, "token") /\ WechatLink \subseteq DOMAIN old
          /\ link = [f \in WechatLink |-> old[f]]
      BY <2>2 DEF KeptLink
    <3>2. "token" \in DOMAIN old /\ t.token = old.token
      BY <3>1 DEF Shown
    <3>. QED
      BY <3>1, <3>2 DEF WechatLink
  <2>. QED
    BY <2>1, <2>2
<1>7. /\ DOMAIN q = account \cup WechatLink
      /\ q.token = t.token /\ q.recipient_user_id = t.token /\ q.context_token = t.token
  BY <1>3, <1>4, <1>6 DEF WechatLink, Beside
<1>8. DOMAIN p = DOMAIN tag \cup account \cup WechatLink
  BY <1>1, <1>7 DEF Beside
<1>9. /\ p.token = t.token /\ p.recipient_user_id = t.token /\ p.context_token = t.token
  BY <1>1, <1>5, <1>7 DEF WechatLink, Beside
<1>. QED
  BY <1>5, <1>8, <1>9 DEF WechatLink

\* A user name and a password are given together.
LEMMA EmailPrompts ==
    ASSUME NEW old, NEW p \in EmailSmtp(old)
    PROVE  LET all == {"host", "port", "security", "from", "to"}
           IN  /\ all \subseteq DOMAIN p
               /\ DOMAIN p \subseteq all \cup {"reply_to", "username", "password"}
               /\ "username" \in DOMAIN p <=> "password" \in DOMAIN p
<1> DEFINE Mailboxes == Three(Required(old, "from"), Required(old, "to"), Optional(old, "reply_to"))
<1>1. PICK s \in EmailServer(old), c \in EmailCredentials(old), m \in Mailboxes :
         p = Beside(Beside(s, c), m)
  BY DEF EmailSmtp, Both
<1>2. DOMAIN p = (DOMAIN s \cup DOMAIN c) \cup DOMAIN m
  BY <1>1 DEF Beside
<1>3. DOMAIN s = {"host", "port", "security"}
  <2> DEFINE S == {[security |-> x, port |-> n] :
                      x \in {"starttls", "implicit_tls"},
                      n \in {"new"} \cup (IF "port" \in DOMAIN old THEN {old.port} ELSE {"default"})}
  <2>1. Fields(S, {"port", "security"}, {"port", "security"})
    BY DEF Fields
  <2> HIDE DEF S
  <2>2. Fields(Both(Required(old, "host"), S), {"host"} \cup {"port", "security"},
               {"host"} \cup {"port", "security"})
    BY <2>1, FieldsOfPrompts, FieldsOfBoth
  <2>. QED
    BY <2>2 DEF Fields, EmailServer, S
<1>4. DOMAIN c = {} \/ DOMAIN c = {"username", "password"}
  <2>1. Fields(Both(Required(old, "username"), Required(old, "password")),
               {"username"} \cup {"password"}, {"username"} \cup {"password"})
    BY FieldsOfPrompts, FieldsOfBoth
  <2>. QED
    BY <2>1, FieldsOfPrompts DEF Fields, EmailCredentials
<1>5. {"from", "to"} \subseteq DOMAIN m /\ DOMAIN m \subseteq {"from", "to", "reply_to"}
  <2>1. Fields(Both(Required(old, "to"), Optional(old, "reply_to")), {"to"} \cup {},
               {"to"} \cup {"reply_to"})
    BY FieldsOfPrompts, FieldsOfBoth
  <2>2. Fields(Mailboxes, {"from"} \cup ({"to"} \cup {}), {"from"} \cup ({"to"} \cup {"reply_to"}))
    BY <2>1, FieldsOfPrompts, FieldsOfBoth DEF Three
  <2>. QED
    BY <2>2 DEF Fields
<1>. QED
  BY <1>2, <1>3, <1>4, <1>5

\* What an app bot has, and that a registered one has one name for its secrets.
LEMMA FeishuLarkPrompts ==
    ASSUME NEW old, NEW p \in FeishuLark(old),
           PersonalAgentIsThere(old)
              => \A f \in {"app_secret", "operator_open_id"} : old[f] = old.app_id
    PROVE  \/ /\ "url" \in DOMAIN p /\ DOMAIN p \subseteq {"url", "secret"}
           \/ /\ "mode" \in DOMAIN p /\ p.mode = "app_bot"
              /\ LET all == {"mode", "domain", "app_id", "app_secret", "tenant_key", "chat_id"}
                 IN  DOMAIN p = all
           \/ /\ "mode" \in DOMAIN p /\ p.mode = "app_bot"
              /\ {"domain", "app_id", "app_secret"} \subseteq DOMAIN p
              /\ DOMAIN p \subseteq {"mode", "app_registration_source"} \cup PersonalFields
              /\ \A f \in {"app_secret", "operator_open_id"} \cap DOMAIN p : p[f] = p.app_id
<1>1. CASE p \in CustomBot(old)
  <2>1. Fields(CustomBot(old), {"url"} \cup {}, {"url"} \cup {"secret"})
    BY FieldsOfPrompts, FieldsOfBoth DEF CustomBot
  <2>. QED
    BY <1>1, <2>1 DEF Fields
<1>2. CASE p \in SelfBuiltApp(old)
  <2> DEFINE app  == {"app_id"} \cup {"app_secret"}
             chat == {"tenant_key"} \cup {"chat_id"}
             Rest == Both(Both(Required(old, "app_id"), Required(old, "app_secret")),
                          Both(Required(old, "tenant_key"), Required(old, "chat_id")))
  <2>1. Fields(Both(Required(old, "app_id"), Required(old, "app_secret")), app, app)
    BY FieldsOfPrompts, FieldsOfBoth
  <2>2. Fields(Both(Required(old, "tenant_key"), Required(old, "chat_id")), chat, chat)
    BY FieldsOfPrompts, FieldsOfBoth
  <2>3. Fields(Rest, app \cup chat, app \cup chat)
    BY <2>1, <2>2, FieldsOfBoth
  <2>4. PICK d \in {"feishu", "lark"}, r \in Rest :
           p = Beside([mode |-> "app_bot", domain |-> d], r)
    BY <1>2 DEF SelfBuiltApp, Both
  <2>5. DOMAIN r = app \cup chat
    BY <2>3 DEF Fields
  <2>6. DOMAIN p = {"mode", "domain"} \cup (app \cup chat) /\ p.mode = "app_bot"
    BY <2>4, <2>5 DEF Beside
  <2>. QED
    BY <2>6
<1>3. CASE p \in PersonalAgent(old)
  <2> DEFINE head == [mode |-> "app_bot", app_registration_source |-> "agents-router"]
             From == IF PersonalAgentIsThere(old) THEN {[f \in PersonalFields |-> old[f]]}
                     ELSE Registered
  <2>1. PICK r \in From : p = Beside(head, r)
    BY <1>3 DEF PersonalAgent, Both
  <2>2. /\ {"domain", "app_id", "app_secret"} \subseteq DOMAIN r /\ DOMAIN r \subseteq PersonalFields
        /\ \A f \in {"app_secret", "operator_open_id"} \cap DOMAIN r : r[f] = r.app_id
    <3>1. CASE PersonalAgentIsThere(old)
      BY <2>1, <3>1 DEF PersonalFields
    <3>2. CASE ~PersonalAgentIsThere(old)
      <4>1. PICK d \in {"feishu", "lark"}, o \in Nothing \cup {[operator_open_id |-> "new"]} :
               r = Beside([app_id |-> "new", app_secret |-> "new", domain |-> d], o)
        BY <2>1, <3>2 DEF Registered, Both
      <4>2. DOMAIN o = {} \/ (DOMAIN o = {"operator_open_id"} /\ o.operator_open_id = "new")
        BY DEF Nothing
      <4>3. /\ DOMAIN r = {"app_id", "app_secret", "domain"} \cup DOMAIN o
            /\ r.app_id = "new" /\ r.app_secret = "new"
            /\ "operator_open_id" \in DOMAIN o => r.operator_open_id = o.operator_open_id
        BY <4>1, <4>2 DEF Beside
      <4>. QED
        BY <4>2, <4>3 DEF PersonalFields
    <3>. QED
      BY <3>1, <3>2
  <2>3. DOMAIN head = {"mode", "app_registration_source"} /\ head.mode = "app_bot"
    OBVIOUS
  <2>4. /\ DOMAIN p = DOMAIN head \cup DOMAIN r /\ p.mode = "app_bot"
        /\ \A f \in DOMAIN r : p[f] = r[f]
    BY <2>1, <2>2, <2>3 DEF PersonalFields, Beside
  <2>. QED
    BY <2>2, <2>3, <2>4 DEF PersonalFields
<1>. QED
  BY <1>1, <1>2, <1>3 DEF FeishuLark

\* What the prompts leave can be loaded.
LEMMA ProviderLoads ==
    ASSUME NEW type \in Constrained \cup Unconstrained, NEW old, NEW p \in Provider(type, old),
           IssuedTogether(old),
           PersonalAgentIsThere(old)
              => \A f \in {"app_secret", "operator_open_id"} : old[f] = old.app_id
    PROVE  /\ ProviderIsValid(type, p) /\ IssuedTogether(p)
           /\ PersonalAgentIsThere(p)
                 => \A f \in {"app_secret", "operator_open_id"} : p[f] = p.app_id
<1> DEFINE Goal == /\ ProviderIsValid(type, p) /\ IssuedTogether(p)
                   /\ PersonalAgentIsThere(p)
                        => \A f \in {"app_secret", "operator_open_id"} : p[f] = p.app_id
<1> USE DEF ProviderIsValid, RequiredSource, OptionalSource, Given, EnvOf, IssuedTogether,
            PersonalAgentIsThere, PersonalFields, WechatLink
<1>1. CASE type = "ntfy"
  BY <1>1, Webhooks DEF Provider, Fields
<1>2. CASE type \in {"webhook", "slack", "discord", "microsoft_teams"}
  <2>1. PICK S \in {Webhook(old), Slack(old), Discord(old), MicrosoftTeams(old)} : p \in S
    BY <1>2 DEF Provider
  <2>2. Fields(S, {"url"}, {"url"})
    BY Webhooks
  <2>3. DOMAIN p = {"url"}
    BY <2>1, <2>2 DEF Fields
  <2>. QED
    BY <1>2, <2>3
<1>3. CASE type = "pushover"
  BY <1>3, Webhooks DEF Provider, Fields
<1>4. CASE type = "telegram"
  BY <1>4, Webhooks DEF Provider, Fields
<1>5. CASE type = "whatsapp"
  BY <1>5, Webhooks DEF Provider, Fields
<1>6. CASE type = "wechat"
  BY <1>6, WechatPrompts DEF Provider
<1>7. CASE type = "email_smtp"
  BY <1>7, EmailPrompts DEF Provider
<1>8. CASE type = "feishu_lark"
  BY <1>8, FeishuLarkPrompts
     DEF Provider, FeishuLarkIsValid, Mode, AppBotFields, CustomBotFields
<1>. QED
  BY <1>1, <1>2, <1>3, <1>4, <1>5, <1>6, <1>7, <1>8 DEF Constrained, Unconstrained

\* Only Feishu and Lark have a mode.
LEMMA AppBotsAre ==
    ASSUME NEW type \in Constrained \cup Unconstrained, NEW old, NEW p \in Provider(type, old),
           Mode(p) = "app_bot",
           {"token"} \cup WechatLink \subseteq DOMAIN old
              => old.recipient_user_id = old.token /\ old.context_token = old.token
    PROVE  type = "feishu_lark"
<1>1. "mode" \in DOMAIN p
  BY DEF Mode
<1>2. CASE type \in {"ntfy", "pushover", "telegram", "whatsapp"}
  BY <1>1, <1>2, Webhooks DEF Provider, Fields
<1>3. CASE type \in {"webhook", "slack", "discord", "microsoft_teams"}
  <2>1. PICK S \in {Webhook(old), Slack(old), Discord(old), MicrosoftTeams(old)} : p \in S
    BY <1>3 DEF Provider
  <2>2. Fields(S, {"url"}, {"url"})
    BY Webhooks
  <2>. QED
    BY <1>1, <2>1, <2>2 DEF Fields
<1>4. CASE type \in {"wechat", "email_smtp"}
  BY <1>1, <1>4, WechatPrompts, EmailPrompts DEF Provider
<1>. QED
  BY <1>2, <1>3, <1>4 DEF Constrained, Unconstrained

\* So can the config that is made of it.
LEMMA SetupKeepsSettings ==
    ASSUME NEW olds, NEW agents, NEW types, types \subseteq Constrained \cup Unconstrained,
           \A o \in olds : Coherent(o) /\ Validate(o),
           \A o, n \in olds : o = n,
           NEW c \in GuidedProviderSetup(olds, agents, types)
    PROVE  Coherent(c) /\ Validate(c)
<1>1. PICK agent \in agents, type \in types :
         LET old == IF \E o \in olds : o.type = type
                    THEN (CHOOSE o \in olds : TRUE).provider ELSE <<>>
         IN  c \in {RouteFilters(BuildConfig(agent, type, p, a, q), minutes, olds) :
                      p \in Provider(type, old), a \in AnswerDetails(type),
                      q \in PromptDetails(type), minutes \in MinimumDurations(agent, olds)}
  BY DEF GuidedProviderSetup
<1> DEFINE old == IF \E o \in olds : o.type = type THEN (CHOOSE o \in olds : TRUE).provider
                  ELSE <<>>
<1>2. PICK p \in Provider(type, old), a \in AnswerDetails(type), q \in PromptDetails(type),
           minutes \in MinimumDurations(agent, olds) :
         c = RouteFilters(BuildConfig(agent, type, p, a, q), minutes, olds)
  BY <1>1
<1>3. /\ IssuedTogether(old)
      /\ PersonalAgentIsThere(old)
            => \A f \in {"app_secret", "operator_open_id"} : old[f] = old.app_id
  <2>1. CASE \E o \in olds : o.type = type
    <3>1. PICK o \in olds : old = o.provider
      BY <2>1
    <3>. QED
      BY <3>1 DEF Coherent
  <2>2. CASE ~\E o \in olds : o.type = type
    <3>1. old = <<>>
      BY <2>2
    <3>2. DOMAIN old = {}
      BY <3>1
    <3>. QED
      BY <3>2 DEF IssuedTogether, PersonalAgentIsThere, Mode
  <2>. QED
    BY <2>1, <2>2
<1> HIDE DEF old
<1>4. /\ ProviderIsValid(type, p) /\ IssuedTogether(p)
      /\ PersonalAgentIsThere(p)
            => \A f \in {"app_secret", "operator_open_id"} : p[f] = p.app_id
  BY <1>2, <1>3, ProviderLoads
<1>5. /\ DOMAIN c = ConfigFields
      /\ c.sources = {agent, "agents_router"} /\ c.routed = {agent, "agents_router"}
      /\ c.type = type /\ c.provider = p /\ c.answer = a /\ c.prompt = q /\ c.minutes = minutes
      /\ c.projects = {} \/ c.projects = UNION {o.projects : o \in olds}
      /\ c.reply = (Mode(p) = "app_bot" /\ agent = "codex_desktop")
  BY <1>2 DEF RouteFilters, BuildConfig, ConfigFields
<1>6. FiltersAreValid(c)
  <2>1. 0 \notin minutes
    BY <1>2 DEF MinimumDurations, Validate, FiltersAreValid
  <2>2. "relative" \notin UNION {o.projects : o \in olds}
    BY DEF Validate, FiltersAreValid
  <2>. QED
    BY <1>5, <2>1, <2>2 DEF FiltersAreValid
<1>7. DetailIsSupported(c)
  BY <1>2, <1>5 DEF DetailIsSupported, AnswerDetails, PromptDetails
<1>8. c.reply => Listens(c)
  <2>1. ASSUME c.reply PROVE type = "feishu_lark"
    BY <1>2, <1>3, <1>5, <2>1, AppBotsAre DEF IssuedTogether
  <2>. QED
    BY <1>5, <2>1
       DEF Listens, Exposed, Continues, CanReply, Capability, AnswersByConnection, ReplySurfaces,
           ReceiptFields
<1>. QED
  BY <1>4, <1>5, <1>6, <1>7, <1>8 DEF Coherent, Validate

\* And replies are heard where they are on.
LEMMA CoherentIsHeard ==
    ASSUME NEW c, Coherent(c), Validate(c)
    PROVE  RepliesAreHeard(c)
<1>1. ASSUME NEW r \in BOOLEAN, NEW source \in c.routed, NEW session, NEW receipt,
             MakesSurface([c EXCEPT !.reply = r], source, session, receipt)
      PROVE  LET d == [c EXCEPT !.reply = r]
             IN  Listens(d) /\ TakesReply(d, Surface(d, source, session))
  <2> DEFINE d == [c EXCEPT !.reply = r]
  <2>1. /\ d.type = c.type /\ d.provider = c.provider /\ d.sources = c.sources
        /\ d.routed = c.routed /\ d.reply = r
    BY DEF Coherent, ConfigFields
  <2> HIDE DEF d
  <2>2. /\ d.reply /\ CanReply(Capability(d)) /\ source = "codex_desktop" /\ session # NoSession
    BY <1>1 DEF MakesSurface, PolicyAllows, Continues, d
  <2>3. d.type = "feishu_lark" /\ Mode(d.provider) = "app_bot"
    BY <2>2 DEF CanReply, Capability, OutboundOnly
  <2>4. source \in d.sources \cap d.routed
    BY <2>1 DEF Validate
  <2>5. Listens(d)
    BY <2>2, <2>3, <2>4 DEF Listens, Exposed, Continues
  <2>6. TakesReply(d, Surface(d, source, session))
    BY <2>2, <2>4 DEF TakesReply, Surface, PolicyAllows, Continues
  <2>. QED
    BY <2>5, <2>6 DEF d
<1>. QED
  BY <1>1 DEF RepliesAreHeard, Coherent

----------------------------------------------------------------------------
\* The platforms a scenario offers stay the ones there are.
OffersFit == "types" \in DOMAIN budget /\ budget.types \subseteq Constrained \cup Unconstrained

\* Only counters are spent.
LEMMA SpendKeepsOffers ==
    ASSUME OffersFit, NEW what, what # "types", Spend(what)
    PROVE  OffersFit'
  BY DEF OffersFit, Spend

LEMMA OffersStep ==
    ASSUME OffersFit, [GuidedNext]_setupVars
    PROVE  OffersFit'
<1> USE SpendKeepsOffers
<1>1. ASSUME UNCHANGED budget PROVE OffersFit'
  BY <1>1 DEF OffersFit
<1>2. CASE CliNext
  <2>1. ASSUME NEW c, NEW d, Command(c, d) PROVE OffersFit'
    BY <2>1 DEF Command
  <2>2. CASE \/ StopLooks \/ StopEnds \/ Erases \/ Cleans \/ Wipes \/ Reads \/ Unloads
             \/ WritesFile \/ Bootstraps \/ Kicks \/ Reloads \/ Restarts \/ Enables \/ CreatesTask
             \/ RunsTask \/ Records \/ Ready \/ TimesOut
    BY <1>1, <2>2
       DEF StopLooks, StopEnds, Erases, Cleans, Wipes, Reads, Unloads, WritesFile, Bootstraps,
           Kicks, Reloads, Restarts, Enables, CreatesTask, RunsTask, Records, Ready, TimesOut
  <2>3. CASE StopIgnores \/ RemovalEnds \/ EndsTask \/ Aborts
    BY <1>1, <2>3 DEF StopIgnores, RemovalEnds, EndsTask, Aborts
  <2>. QED
    BY <1>2, <2>1, <2>2, <2>3 DEF CliNext
<1>3. CASE RunNext
  <2>1. ASSUME NEW r \in Runtimes, NEW n \in Pids, Launch(r, n) \/ Foreground(r, n)
        PROVE  OffersFit'
    BY <1>1, <2>1 DEF Launch, Foreground
  <2>2. ASSUME NEW r \in Runtimes,
               Acquire(r) \/ Bind(r) \/ BindRefused(r) \/ Leave(r) \/ CloseSocket(r)
        PROVE  OffersFit'
    BY <1>1, <2>2 DEF Acquire, Bind, BindRefused, Leave, CloseSocket, service
  <2>3. ASSUME NEW r \in Runtimes, WriteTorn(r) \/ TaskEnds(r) \/ Dies(r) PROVE OffersFit'
    BY <2>3 DEF WriteTorn, TaskEnds, Dies
  <2>4. ASSUME NEW n \in Pids, OtherTakes(n) PROVE OffersFit'
    BY <2>4 DEF OtherTakes
  <2>5. CASE JobEnds
    BY <1>1, <2>5 DEF JobEnds
  <2>. QED
    BY <1>3, <2>1, <2>2, <2>3, <2>4, <2>5 DEF RunNext
<1>4. ASSUME NEW r \in Runtimes, Forget(r) \/ Rereads(r) PROVE OffersFit'
  BY <1>1, <1>4 DEF Forget, Rereads, allVars, service
<1>5. CASE SetupNext
  <2>1. ASSUME NEW c, Opens(c) PROVE OffersFit'
    BY <2>1 DEF Opens
  <2>2. CASE \/ Migrates \/ Truncates \/ Carries \/ Drops \/ LegacyRuns \/ EndsProcess \/ Clears
             \/ Loads \/ CannotAsk \/ Installs \/ Writes \/ Checks
    BY <1>1, <2>2
       DEF Migrates, Truncates, Carries, Drops, LegacyRuns, EndsProcess, Clears, Loads, CannotAsk,
           Installs, Writes, Checks
  <2>3. CASE RemovesService \/ Updates
    BY <1>1, <2>3 DEF RemovesService, Updates
  <2>. QED
    BY <1>4, <1>5, <2>1, <2>2, <2>3 DEF SetupNext
<1>6. CASE UNCHANGED setupVars
  BY <1>1, <1>6 DEF setupVars, allVars, service
<1>. QED
  BY <1>2, <1>3, <1>4, <1>5, <1>6 DEF GuidedNext, ServiceNext

----------------------------------------------------------------------------
\* From the look at what there is to the end of the predecessor's installation.
Carrying == {"carrying", "filling", "dropping", "ending legacy", "ending process", "clearing"}

\* A config is whole, or its write was cut; before the predecessor's is removed, there is one.
SettingsFit ==
    /\ Whole(config) => Coherent(config) /\ Validate(config)
    /\ cli.at \in {"carrying", "filling"} => Validate(Normalized(legacy.content))
    /\ cli.at = "dropping" => config # NoConfig
    /\ cli.at \in Carrying \ {"carrying", "filling"} /\ legacy.home = "there" => config # NoConfig
    /\ ConfigIsCarried

\* The commands that end and start the service are in none of these places, and one that
\* ends in the middle of the write is cut there.
LEMMA CommandsDoNotCarry ==
    ASSUME CommandFits, CliNext
    PROVE  /\ cli'.at \notin Carrying
           /\ cli.aborted => cli'.aborted
           /\ cli.at = "filling" => cli'.aborted
<1> DEFINE Apart == /\ cli'.at \notin Carrying
                    /\ cli.aborted => cli'.aborted
                    /\ cli.at = "filling" => cli'.aborted
<1> USE DEF Carrying, Then, CommandFits, ServiceTypes, CliTypes
<1>1. CASE StopLooks \/ StopEnds \/ StopIgnores
  <2>1. CASE StopLooks
    BY <2>1 DEF StopLooks
  <2>2. CASE StopEnds
    BY <2>2 DEF StopEnds
  <2>3. CASE StopIgnores
    BY <2>3 DEF StopIgnores
  <2>. QED
    BY <1>1, <2>1, <2>2, <2>3
<1>2. CASE RemovalEnds
  <2>1. cli.at = "removing" /\ cli'.aborted = cli.aborted /\ cli'.at \in {"cleaning", "erasing"}
    BY <1>2 DEF RemovalEnds
  <2>. QED
    BY <2>1
<1>3. CASE Erases \/ Wipes
  BY <1>3 DEF Erases, Wipes
<1>4. CASE Cleans
  BY <1>4, CleansThen DEF Cleans
<1>5. CASE Reads
  BY <1>5, ReadsLooks
<1>6. CASE Unloads \/ WritesFile \/ Bootstraps \/ Kicks \/ Reloads \/ Restarts
  <2>1. CASE Unloads
    BY <2>1 DEF Unloads
  <2>2. CASE WritesFile
    BY <2>2 DEF WritesFile
  <2>3. CASE Bootstraps
    BY <2>3 DEF Bootstraps
  <2>4. CASE Kicks
    BY <2>4 DEF Kicks
  <2>5. CASE Reloads
    BY <2>5 DEF Reloads
  <2>6. CASE Restarts
    BY <2>6 DEF Restarts
  <2>. QED
    BY <1>6, <2>1, <2>2, <2>3, <2>4, <2>5, <2>6
<1>7. CASE Enables
  BY <1>7 DEF Enables
<1>8. CASE EndsTask
  BY <1>8 DEF EndsTask
<1>9. CASE CreatesTask \/ RunsTask \/ Records \/ Ready \/ TimesOut
  BY <1>9 DEF CreatesTask, RunsTask, Records, Ready, TimesOut
<1>10. CASE Aborts
  BY <1>10 DEF Aborts
<1>11. ASSUME NEW c \in {"start", "restart", "stop", "uninstall"}, NEW d, Command(c, d)
       PROVE  Apart
  <2>1. cli.at \in {"done", "failed"} /\ cli'.aborted = cli.aborted
    BY <1>11 DEF Command, Busy
  <2>2. cli'.at \in {"reading", "removing", "stopping"}
    BY <1>11 DEF Command
  <2>. QED
    BY <2>1, <2>2
<1>. QED
  BY <1>1, <1>2, <1>3, <1>4, <1>5, <1>6, <1>7, <1>8, <1>9, <1>10, <1>11 DEF CliNext

\* What is written is a config, not the lack of one.
LEMMA CoherentIsWhole ==
    ASSUME NEW c, Coherent(c)
    PROVE  Whole(c)
  BY DEF Coherent, Whole, ConfigFields, NoConfig, Torn

LEMMA SettingsStep ==
    ASSUME CommandFits, LegacyFits, OffersFit, SettingsFit, [GuidedNext]_setupVars
    PROVE  SettingsFit'
<1> USE DEF SettingsFit, ConfigIsCarried
<1>1. CASE UNCHANGED <<cli, config, legacy>>
  BY <1>1 DEF Whole
<1>2. CASE CliNext /\ UNCHANGED <<config, legacy>>
  BY <1>2, CommandsDoNotCarry DEF Carrying
<1>3. CASE SetupNext
  <2> USE DEF LegacyTypes, LegacyFits, Then, CommandFits, ServiceTypes, CliTypes, Asks, AtThePrompt,
              Carrying
  <2>1. ASSUME NEW c \in {"setup", "open"}, Opens(c) PROVE SettingsFit'
    BY <2>1 DEF Opens, Busy
  <2>2. ASSUME NEW r \in Runtimes, Rereads(r) PROVE SettingsFit'
    BY <1>1, <2>2 DEF Rereads, allVars, service
  <2>3. CASE Migrates
    BY <2>3 DEF Migrates, LegacyConfig
  <2>4. CASE Truncates
    BY <2>4 DEF Truncates, Whole, NoConfig, Torn
  <2>5. CASE Carries
    <3>1. /\ cli.at = "filling" /\ config' = Normalized(legacy.content) /\ UNCHANGED legacy
          /\ cli'.at \in {"ending legacy", "dropping"} /\ cli'.aborted = cli.aborted
      BY <2>5 DEF Carries
    <3>2. Coherent(config') /\ Validate(config')
      BY <3>1, SettingsAssumption
    <3>3. config' \notin {NoConfig, Torn}
      BY <3>2, CoherentIsWhole DEF Whole
    <3>. QED
      BY <3>1, <3>2, <3>3
  <2>6. CASE Drops
    BY <2>6 DEF Drops
  <2>7. CASE LegacyRuns
    BY <2>7 DEF LegacyRuns
  <2>8. CASE RemovesService
    BY <2>8 DEF RemovesService
  <2>9. CASE EndsProcess
    BY <2>9 DEF EndsProcess
  <2>10. CASE Clears
    BY <2>10 DEF Clears
  <2>11. CASE Loads \/ CannotAsk \/ Checks
    <3>1. CASE Loads
      BY <3>1 DEF Loads
    <3>2. CASE CannotAsk
      BY <3>2 DEF CannotAsk
    <3>3. CASE Checks
      BY <3>3 DEF Checks
    <3>. QED
      BY <2>11, <3>1, <3>2, <3>3
  <2>12. CASE Updates
    BY <2>12 DEF Updates
  <2>13. CASE Installs
    BY <2>13 DEF Installs
  <2>14. CASE Writes
    <3>1. /\ cli.at = "asking" /\ UNCHANGED legacy
          /\ config' \in GuidedProviderSetup(Earlier, budget.agents, budget.types)
          /\ \A c \in Earlier : c # Torn /\ Validate(c)
          /\ cli'.at = "checking" /\ cli'.aborted = cli.aborted
      BY <2>14 DEF Writes
    <3>2. \A c \in Earlier : c = config /\ Coherent(c) /\ Validate(c)
      BY <3>1 DEF Earlier, Whole
    <3>3. budget.types \subseteq Constrained \cup Unconstrained
      BY DEF OffersFit
    <3>4. Coherent(config') /\ Validate(config')
      BY <3>1, <3>2, <3>3, SetupKeepsSettings
    <3>5. config' \notin {NoConfig, Torn}
      BY <3>4, CoherentIsWhole DEF Whole
    <3>. QED
      BY <3>1, <3>4, <3>5
  <2>. QED
    BY <1>3, <2>1, <2>2, <2>3, <2>4, <2>5, <2>6, <2>7, <2>8, <2>9, <2>10, <2>11, <2>12, <2>13,
       <2>14
       DEF SetupNext
<1>. QED
  BY <1>1, <1>2, <1>3, CommandWaits
     DEF GuidedNext, ServiceNext, Elsewhere, setupVars, allVars, service, setup

\* What the migration and the setup leave, for every platform and every earlier config,
\* can be loaded, mixes no settings that do not belong together, and switches replies on
\* only where they are heard; the predecessor's config goes only when there is one in its
\* place, and only a cut in the middle of the write leaves one that cannot be loaded.
THEOREM NoSettingsAreLost == GuidedSpec => []SettingsAreKept
<1>1. GuidedInit => OffersFit /\ SettingsFit
  <2> SUFFICES ASSUME GuidedInit PROVE OffersFit /\ SettingsFit
    OBVIOUS
  <2>1. PICK s \in Scenarios : /\ manager = s.manager /\ budget = s.budget
                               /\ config = s.config /\ legacy = s.legacy
    BY DEF GuidedInit
  <2>2. cli.at = "done"
    BY DEF GuidedInit, ServiceInit, Idle
  <2>3. OffersFit
    BY <2>1, SettingsAssumption DEF OffersFit
  <2>4. legacy.home # "removed"
    BY <2>1, LegacyAssumption
  <2>5. config = NoConfig \/ (Coherent(config) /\ Validate(config))
    BY <2>1, SettingsAssumption
  <2>6. config # Torn
    BY <2>5, CoherentIsWhole DEF Whole, NoConfig, Torn
  <2>. QED
    BY <2>2, <2>3, <2>4, <2>5, <2>6 DEF SettingsFit, ConfigIsCarried, Whole, Carrying
<1>2. SetupFits /\ OffersFit /\ SettingsFit /\ [GuidedNext]_setupVars => (OffersFit /\ SettingsFit)'
  BY OffersStep, SettingsStep DEF SetupFits
<1>3. SettingsFit => SettingsAreKept
  BY CoherentIsHeard DEF SettingsFit, SettingsAreKept, Coherent
<1>. QED
  BY <1>1, <1>2, <1>3, SetupInvariance, PTL DEF GuidedSpec
=============================================================================
