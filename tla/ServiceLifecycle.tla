-------------------------- MODULE ServiceLifecycle --------------------------
(***************************************************************************)
(* The service as its user starts and ends it.  A manager of the platform  *)
(* (launchd, systemd, or the task scheduler) holds a definition and, but   *)
(* for the scheduler, starts the program again whenever it ends; the       *)
(* commands start, restart, stop and uninstall are sequences of calls to   *)
(* the manager and of file operations, any of which can fail, and the user *)
(* can interrupt a command between any two of them.  Each start of the     *)
(* program is a runtime of RuntimeOwner; the one that owns the state binds *)
(* the socket that the commands ask whether the service is ready.          *)
(***************************************************************************)
EXTENDS RuntimeOwner

CONSTANTS
    Definitions,    \* what a service can be told to run: a binary with a config
    NoDefinition,
    Scenarios       \* managers, and how often each thing may happen

ASSUME ServiceAssumption ==
    /\ NoDefinition \notin Definitions
    /\ \A s \in Scenarios : s.manager \in {"launchd", "systemd", "tasks"}

VARIABLES
    manager,        \* the platform's: "launchd", "systemd" or "tasks"
    file,           \* the definition in the plist, unit file or task
    loaded,         \* the definition the manager acts on
    job,            \* the managed process: up, told to start, waiting to be started again, or off
    metadata,       \* the definition the last start recorded
    cli,            \* the command being run, and what it has found
    socket,         \* the runtime whose socket file is at the path
    binds,          \* the runtimes that listen
    hidden,         \* those whose socket file a command has removed
    budget

service == <<manager, file, loaded, job, metadata, cli, socket, binds, hidden, budget>>
allVars == <<vars, service>>

Off     == [state |-> "off", run |-> NoRuntime, def |-> NoDefinition]
Waiting == [Off EXCEPT !.state = "waiting"]       \* it ended, and is started again in a while
Asked   == [Off EXCEPT !.state = "asked"]         \* the manager was told to start it
Up(r)   == [state |-> "up", run |-> r, def |-> loaded]

Idle == [cmd |-> "none", at |-> "done", want |-> NoDefinition, found |-> "absent",
         aborted |-> FALSE,         \* a call failed and ended a command, or the user did
         ignored |-> FALSE,         \* the manager's error was ignored
         overtaken |-> FALSE]       \* systemd started the old definition meanwhile

Busy == cli.at \notin {"done", "failed"}

Spend(what) == /\ budget[what] > 0
               /\ budget' = [budget EXCEPT ![what] = @ - 1]

Status == IF file = NoDefinition THEN "absent"
          ELSE IF job.state \in {"asked", "up"} THEN "running" ELSE "idle"

\* A runtime that ended and left nothing is forgotten, before anything else happens.
LeftNothing(r) == at[r] \in Ended /\ r \notin {lock, socket, job.run} \cup binds

Forget(r) ==
    /\ LeftNothing(r)
    /\ GoTo(r, "none")
    /\ pid' = [pid EXCEPT ![r] = NoPid]
    /\ written' = written \ {r}
    /\ seen' = [seen EXCEPT ![r] = NoPid]
    /\ hidden' = hidden \ {r}
    /\ UNCHANGED <<lock, foreign, kills, manager, file, loaded, job, metadata, cli, socket,
                   binds, budget>>

----------------------------------------------------------------------------
(* The program, once it is started. *)

\* Runtimes and process ids are interchangeable: the first free runtime, and a free
\* id or the one in the lock if that is free again.
Fresh(r, n) ==
    /\ r = CHOOSE q \in Runtimes : at[q] = "none"
    /\ IF lock \in Runtimes /\ n = pid[lock] THEN TRUE
       ELSE n = CHOOSE m \in Pids : ~Used(m) /\ (lock \in Runtimes => m # pid[lock])

Launch(r, n) ==
    /\ job.state \in {"asked", "waiting"}
    /\ Begin(r, n) /\ Fresh(r, n)
    /\ job' = Up(r)
    /\ UNCHANGED <<manager, file, loaded, metadata, cli, socket, binds, hidden, budget>>

\* The user runs "agents-router watch" in a terminal.
Foreground(r, n) ==
    /\ Spend("watches")
    /\ Begin(r, n) /\ Fresh(r, n)
    /\ UNCHANGED <<manager, file, loaded, job, metadata, cli, socket, binds, hidden>>

\* Windows has no "ps": asking for a process is an error there.
ProbeFails(r) ==
    /\ at[r] = "probing"
    /\ GoTo(r, "failed")
    /\ UNCHANGED <<pid, lock, written, seen, foreign, kills>>

Acquire(r) ==
    /\ \/ Create(r) \/ WriteInfo(r) \/ ReadInfo(r) \/ RemoveStale(r)
       \/ IF manager = "tasks" THEN ProbeFails(r) ELSE Probe(r)
    /\ UNCHANGED service

WriteTorn(r) ==
    /\ Spend("torn")
    /\ WriteInfoFails(r)
    /\ UNCHANGED <<manager, file, loaded, job, metadata, cli, socket, binds, hidden>>

Answers == socket \in binds

\* Mutant of Bind: a socket file is removed without asking who listens.
BindOver(r) ==
    /\ at[r] = "owner" /\ r \notin binds
    /\ socket' = r
    /\ binds' = binds \cup {r}
    /\ UNCHANGED <<vars, manager, file, loaded, job, metadata, cli, hidden, budget>>

\* A file that nobody answers at is removed; one that answers ends the start.
Bind(r) ==
    /\ at[r] = "owner" /\ r \notin binds /\ ~Answers
    /\ socket' = r
    /\ binds' = binds \cup {r}
    /\ UNCHANGED <<vars, manager, file, loaded, job, metadata, cli, hidden, budget>>

BindRefused(r) ==
    /\ r \notin binds /\ Answers
    /\ ExitReads(r)
    /\ UNCHANGED service

\* A task of the service ends: the others are aborted and the process leaves.
TaskEnds(r) ==
    /\ r \in binds
    /\ Spend("exits")
    /\ ExitReads(r)
    /\ UNCHANGED <<manager, file, loaded, job, metadata, cli, socket, binds, hidden>>

Leave(r) == ExitRemoves(r) /\ UNCHANGED service

\* The aborted listener is dropped while the lock is, or after: its file goes first.
CloseSocket(r) ==
    /\ r \in binds /\ at[r] \in {"releasing", "gone"}
    /\ binds' = binds \ {r}
    /\ IF manager = "tasks" THEN UNCHANGED <<socket, hidden>>
       ELSE /\ socket' = NoRuntime
            /\ hidden' = IF r \in hidden THEN hidden \cup ({socket} \cap binds) ELSE hidden
    /\ UNCHANGED <<vars, manager, file, loaded, job, metadata, cli, budget>>

Dies(r) ==
    /\ Spend("deaths")
    /\ Killed(r)
    /\ binds' = binds \ {r}
    /\ UNCHANGED <<manager, file, loaded, job, metadata, cli, socket, hidden>>

\* launchd's KeepAlive and systemd's Restart=always; a scheduled task just ends.
JobEnds ==
    /\ job.state = "up" /\ ~Alive(job.run) /\ job.run \notin binds
    /\ job' = IF manager = "tasks" \/ loaded = NoDefinition THEN Off ELSE Waiting
    /\ UNCHANGED <<vars, manager, file, loaded, metadata, cli, socket, binds, hidden, budget>>

OtherTakes(n) ==
    /\ Spend("others")
    /\ OtherProgram(n)
    /\ UNCHANGED <<manager, file, loaded, job, metadata, cli, socket, binds, hidden>>

----------------------------------------------------------------------------
(* What the commands ask of the manager. *)

Then(place) == cli' = [cli EXCEPT !.at = place]

\* The manager ends the process with a signal, so that its lock and socket file stay.
EndProcess ==
    /\ at' = [r \in Runtimes |-> IF r = job.run /\ Alive(r) THEN "gone" ELSE at[r]]
    /\ binds' = binds \ {job.run}
    /\ UNCHANGED <<pid, lock, written, seen, foreign, kills, socket, hidden>>

SameProcess == UNCHANGED <<vars, socket, binds, hidden>>

\* Restart uses what the last start recorded, if it is not told.
Wanted(c) == IF c = "start" \/ (c = "restart" /\ metadata = NoDefinition) THEN Definitions
             ELSE IF c = "restart" THEN {metadata} ELSE {NoDefinition}

Command(c, d) ==
    /\ ~Busy
    /\ c \in budget.may
    /\ Spend("commands")
    /\ d \in Wanted(c)
    /\ cli' = [cli EXCEPT !.cmd = c, !.want = d, !.found = "absent",
                          !.at = IF c = "start" THEN "reading"
                                 ELSE IF c = "uninstall" /\ manager # "launchd" THEN "removing"
                                 ELSE "stopping"]
    /\ SameProcess /\ UNCHANGED <<manager, file, loaded, job, metadata>>

\* Mutant of StopLooks: launchd, too, is asked to end only what runs.
StopTrustsStatus ==
    /\ cli.at = "stopping"
    /\ cli' = [cli EXCEPT !.found = Status,
                          !.at = IF Status = "running" THEN "ending" ELSE "cleaning"]
    /\ SameProcess /\ UNCHANGED <<manager, file, loaded, job, metadata, budget>>

\* systemd and the scheduler are asked to end only what runs; launchd, whatever is loaded.
StopLooks ==
    /\ cli.at = "stopping"
    /\ cli' = [cli EXCEPT !.found = Status,
                          !.at = IF Status = "running" \/ (Status = "idle" /\ manager = "launchd")
                                 THEN "ending" ELSE "cleaning"]
    /\ SameProcess /\ UNCHANGED <<manager, file, loaded, job, metadata, budget>>

StopEnds ==
    /\ cli.at = "ending"
    /\ EndProcess
    /\ job' = Off
    /\ loaded' = IF manager = "launchd" THEN NoDefinition ELSE loaded
    /\ Then(IF cli.cmd = "uninstall" THEN "erasing" ELSE "cleaning")
    /\ UNCHANGED <<manager, file, metadata, budget>>

\* An error of launchd is ignored if the service was not seen running.
StopIgnores ==
    /\ cli.at \in {"ending", "unloading"} /\ cli.found # "running"
    /\ Spend("failures")
    /\ cli' = [cli EXCEPT !.ignored = TRUE,
                          !.at = IF @ = "unloading" THEN "writing"
                                 ELSE IF cli.cmd = "uninstall" THEN "erasing" ELSE "cleaning"]
    /\ SameProcess /\ UNCHANGED <<manager, file, loaded, job, metadata>>

\* Uninstall does not care whether the process could be ended.
RemovalEnds ==
    /\ cli.at = "removing"
    /\ IF file = NoDefinition
       THEN Then("cleaning") /\ SameProcess /\ UNCHANGED <<job, budget>>
       ELSE \/ Then("erasing") /\ EndProcess /\ job' = Off /\ UNCHANGED budget
            \/ /\ SameProcess /\ UNCHANGED job /\ Spend("failures")
               /\ cli' = [cli EXCEPT !.at = "erasing", !.ignored = TRUE]
    /\ UNCHANGED <<manager, file, loaded, metadata>>

\* A process that could not be ended goes on; the scheduler has forgotten it.
Erases ==
    /\ cli.at = "erasing"
    /\ file' = NoDefinition
    /\ loaded' = NoDefinition
    /\ job' = IF manager = "tasks" THEN Off ELSE job
    /\ Then("cleaning")
    /\ SameProcess /\ UNCHANGED <<manager, metadata, budget>>

\* The socket file is removed, whoever listens there.
Cleans ==
    /\ cli.at = "cleaning"
    /\ IF manager = "tasks" THEN UNCHANGED <<socket, hidden>>
       ELSE socket' = NoRuntime /\ hidden' = hidden \cup ({socket} \cap binds)
    /\ Then([restart |-> "reading", setup |-> "reading", update |-> "installing",
              stop |-> "done", uninstall |-> "wiping"][cli.cmd])
    /\ UNCHANGED <<vars, manager, file, loaded, job, metadata, binds, budget>>

\* The directory with the state goes, and in it the lock.
Wipes ==
    /\ cli.at = "wiping"
    /\ lock' = NoRuntime
    /\ metadata' = NoDefinition
    /\ Then("done")
    /\ UNCHANGED <<at, pid, written, seen, foreign, kills, manager, file, loaded, job, socket,
                   binds, hidden, budget>>

Differs == IF manager = "tasks" THEN metadata # cli.want ELSE file # cli.want

Reads ==
    /\ cli.at = "reading"
    /\ cli' = [cli EXCEPT !.found = Status,
         !.at = IF Status = "running" /\ ~Differs THEN "recording"
                ELSE [launchd |-> IF Differs THEN "unloading" ELSE "bootstrapping",
                      systemd |-> IF Differs THEN "writing" ELSE "enabling",
                      tasks |-> IF Status = "running" THEN "ending task" ELSE "creating"][manager]]
    /\ SameProcess /\ UNCHANGED <<manager, file, loaded, job, metadata, budget>>

Unloads ==
    /\ cli.at = "unloading"
    /\ EndProcess
    /\ job' = Off
    /\ loaded' = NoDefinition
    /\ Then("writing")
    /\ UNCHANGED <<manager, file, metadata, budget>>

WritesFile ==
    /\ cli.at = "writing"
    /\ file' = cli.want
    /\ Then(IF manager = "launchd" THEN "bootstrapping" ELSE "reloading")
    /\ SameProcess /\ UNCHANGED <<manager, loaded, job, metadata, budget>>

\* What is loaded already cannot be loaded again.
Bootstraps ==
    /\ cli.at = "bootstrapping"
    /\ IF loaded = NoDefinition THEN loaded' = file /\ job' = Asked
       ELSE UNCHANGED <<loaded, job>>
    /\ Then("kicking")
    /\ SameProcess /\ UNCHANGED <<manager, file, metadata, budget>>

Kicks ==
    /\ cli.at = "kicking"
    /\ EndProcess
    /\ job' = Asked
    /\ Then("recording")
    /\ UNCHANGED <<manager, file, loaded, metadata, budget>>

\* Mutant of Reloads: a service that runs is left as it is.
ReloadsOnly ==
    /\ cli.at = "reloading"
    /\ loaded' = file
    /\ Then("enabling")
    /\ SameProcess /\ UNCHANGED <<manager, file, job, metadata, budget>>

Reloads ==
    /\ cli.at = "reloading"
    /\ loaded' = file
    /\ Then(IF cli.found = "running" THEN "restarting" ELSE "enabling")
    /\ SameProcess /\ UNCHANGED <<manager, file, job, metadata, budget>>

Restarts ==
    /\ cli.at = "restarting"
    /\ EndProcess
    /\ job' = Asked
    /\ Then("recording")
    /\ UNCHANGED <<manager, file, loaded, metadata, budget>>

\* systemctl enable reads the unit files again; --now starts what does not run.
Enables ==
    /\ cli.at = "enabling"
    /\ loaded' = file
    /\ job' = IF job.state = "up" THEN job ELSE Asked
    /\ cli' = [cli EXCEPT !.at = "recording",
                          !.overtaken = @ \/ /\ cli.found = "idle"
                                                 /\ job.state = "up" /\ job.def # file]
    /\ SameProcess /\ UNCHANGED <<manager, file, metadata, budget>>

\* An error of /End is ignored.
EndsTask ==
    /\ cli.at = "ending task"
    /\ \/ EndProcess /\ job' = Off /\ Then("creating") /\ UNCHANGED budget
       \/ /\ SameProcess /\ UNCHANGED job /\ Spend("failures")
          /\ cli' = [cli EXCEPT !.at = "creating", !.ignored = TRUE]
    /\ UNCHANGED <<manager, file, loaded, metadata>>

CreatesTask ==
    /\ cli.at = "creating"
    /\ file' = cli.want
    /\ loaded' = cli.want
    /\ Then("running task")
    /\ SameProcess /\ UNCHANGED <<manager, job, metadata, budget>>

RunsTask ==
    /\ cli.at = "running task"
    /\ job' = IF job.state = "up" THEN job ELSE Asked
    /\ Then("recording")
    /\ SameProcess /\ UNCHANGED <<manager, file, loaded, metadata, budget>>

Records ==
    /\ cli.at = "recording"
    /\ metadata' = cli.want
    /\ Then("waiting")
    /\ SameProcess /\ UNCHANGED <<manager, file, loaded, job, budget>>

\* Ready is what answers at the socket; for five seconds nothing may.
Ready ==
    /\ cli.at = "waiting" /\ Answers
    /\ Then("done")
    /\ SameProcess /\ UNCHANGED <<manager, file, loaded, job, metadata, budget>>

TimesOut ==
    /\ cli.at = "waiting" /\ ~Answers
    /\ Then("failed")
    /\ SameProcess /\ UNCHANGED <<manager, file, loaded, job, metadata, budget>>

\* A call fails and ends the command, or the user does.
Aborts ==
    /\ Busy
    /\ Spend("failures")
    /\ cli' = [cli EXCEPT !.at = "failed", !.aborted = TRUE]
    /\ SameProcess /\ UNCHANGED <<manager, file, loaded, job, metadata>>

----------------------------------------------------------------------------

ServiceInit ==
    /\ Init
    /\ \E s \in Scenarios : manager = s.manager /\ budget = s.budget
    /\ file = NoDefinition /\ loaded = NoDefinition /\ metadata = NoDefinition
    /\ job = Off
    /\ cli = Idle
    /\ socket = NoRuntime
    /\ binds = {} /\ hidden = {}

CliNext ==
    \/ \E c \in {"start", "restart", "stop", "uninstall"},
          d \in Definitions \cup {NoDefinition} : Command(c, d)
    \/ StopLooks \/ StopEnds \/ StopIgnores \/ RemovalEnds \/ Erases \/ Cleans \/ Wipes
    \/ Reads \/ Unloads \/ WritesFile \/ Bootstraps \/ Kicks
    \/ Reloads \/ Restarts \/ Enables \/ EndsTask \/ CreatesTask \/ RunsTask
    \/ Records \/ Ready \/ TimesOut \/ Aborts

RunNext ==
    \/ JobEnds
    \/ \E r \in Runtimes :
          \/ \E n \in Pids : Launch(r, n) \/ Foreground(r, n)
          \/ Acquire(r) \/ WriteTorn(r) \/ Bind(r) \/ BindRefused(r) \/ TaskEnds(r)
          \/ Leave(r) \/ CloseSocket(r) \/ Dies(r)
    \/ \E n \in Pids : OtherTakes(n)

\* The commands that make a config are in GuidedSetup.
ServiceNext == IF \E r \in Runtimes : LeftNothing(r)
               THEN \E r \in Runtimes : Forget(r)
               ELSE CliNext \/ RunNext

ServiceSpec == ServiceInit /\ [][ServiceNext]_allVars

\* What is kept alive is started, with another id than that of the dead owner.
Relaunches == \E r \in Runtimes, n \in Pids :
                 Launch(r, n) /\ (lock \in Runtimes => n # pid[lock])

\* A runtime's own steps.
Works(r) == Acquire(r) \/ Bind(r) \/ BindRefused(r) \/ Leave(r) \/ CloseSocket(r) \/ Forget(r)

----------------------------------------------------------------------------
(* Properties. *)

\* After "stop" and "uninstall" the service stays down until it is started: the
\* manager neither runs it nor is about to.  The exception is systemd's: a service
\* that is waiting to be started again is taken for stopped and left alone.
StopIsFinal ==
    cli.at = "done" /\ cli.cmd \in {"stop", "uninstall"} /\ ~cli.ignored
        => job.state = "off" \/ (manager = "systemd" /\ cli.found = "idle")

\* When "start" or "restart" says that the service is ready, the managed process
\* that answers runs the definition asked for.  There are two exceptions.  A command
\* for systemd or the scheduler that was cut short, after the new definition was in
\* place and before the old process was gone, makes the next one take the old for
\* the new; and so does systemd's own restart of a service that was found down.
RunsWhatWasAsked == \/ job.def = cli.want
                    \/ cli.aborted /\ manager # "launchd"
                    \/ cli.ignored \/ cli.overtaken

\* The socket file of a listening owner is at the path, where hooks and commands
\* look for it, unless a command has removed it, or that of a runtime that was just
\* leaving: otherwise no other runtime's start or exit takes its place.
SocketIsTheOwners ==
    \A r \in binds : at[r] = "owner" => socket = r \/ r \in hidden

\* A service that is kept alive is back, and answers, after any deaths, whatever
\* lock and socket file they left: unless the lock has no content, names a process
\* that another program has, or another runtime lives.
KeptAlive    == manager # "tasks" /\ job.state # "off" /\ ~Busy
Unobstructed == /\ lock # NoRuntime => lock \in written /\ pid[lock] \notin foreign
                /\ \A r \in Runtimes : Alive(r) => r = job.run
                /\ \E n \in Pids \ foreign : lock # NoRuntime => n # pid[lock]
ServiceComesBack ==
    <>[](KeptAlive /\ Unobstructed) => <>(socket # NoRuntime /\ socket = job.run /\ Answers)
=============================================================================
