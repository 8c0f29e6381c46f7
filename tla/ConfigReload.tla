---------------------------- MODULE ConfigReload ----------------------------
(***************************************************************************)
(* The config of the running service and how it follows the config file.   *)
(* "watch" reads the file once, puts the agents' hooks in place and begins *)
(* with what it read; from then on one task compares the file's time and   *)
(* length with those it saw last.  What it loads is what the file holds    *)
(* when it is read, which need not be what made it look.  A config is in   *)
(* use only once the hooks it asks for are in the agents' own settings,    *)
(* which their users edit too.                                             *)
(***************************************************************************)
EXTENDS Naturals, Sequences

CONSTANTS
    Providers,      \* Feishu/Lark apps
    Hooks,          \* agents whose own settings take a hook: Codex CLI, Claude Code
    Configs,        \* what the file may hold: [valid, serves, hooks]
    NoConfig,       \* no config; also a file that cannot be read
    MaxWrites,      \* bound on the times the file is written
    Budgets,        \* bounds on what is not up to the service: changes of the file, edits
                    \* of the agents' settings, passing failures to read or write those,
                    \* starts of the process, events sent to it
    EditsAtStart    \* may the file change before the task has looked at it?

ASSUME ConfigReloadAssumption ==
    /\ Configs \subseteq [valid : BOOLEAN, serves : Seq(Providers), hooks : Seq(Hooks)]
    /\ NoConfig \notin Configs
    /\ MaxWrites \in Nat
    /\ Budgets \subseteq [{"writes", "edits", "failures", "starts", "sends"} -> Nat]
    /\ EditsAtStart \in BOOLEAN

VARIABLES
    file,           \* the version of the file, known by its time and length
    held,           \* held[v]: what version v held; NoConfig when there was no file
    at,             \* where the start, and then the reload task, is
    current,        \* the config in use
    loaded,         \* the config that was read and is not in use yet
    observed,       \* the version the task compares with
    settled,        \* the version seen after the settle delay
    todo,           \* the hooks that loaded asks for and that were not looked at yet
    settings,       \* settings[h]: an agent's settings
    rendered,       \* the hook was missing, and the settings with it are ready to write
    budget,         \* what is left of the bounds
    gaveUp,         \* the version in observed was not loaded, for a reason that may pass
    edited          \* hooks whose settings were edited since the service last saw them

configVars == <<file, held, at, current, loaded, observed, settled, todo,
                settings, rendered, budget, gaveUp, edited>>

\* Version 0 is that there is no file.
Versions == 0 .. MaxWrites + 1
Starting == {"loading", "ensuring", "built"}
Up       == {"ticking", "settling", "reloading", "applying"}

\* "off": the user has disabled all hooks, or the settings cannot be parsed.
Settings == {"plain", "ours", "off"}

Spend(what) == /\ budget[what] > 0
               /\ budget' = [budget EXCEPT ![what] = @ - 1]

Usable(c) == c # NoConfig /\ c.valid

----------------------------------------------------------------------------

ConfigInit ==
    /\ file = 1
    /\ \E c \in Configs : held = [v \in Versions |-> IF v = 1 THEN c ELSE NoConfig]
    /\ at = "down"
    /\ current = NoConfig /\ loaded = NoConfig
    /\ observed = 0 /\ settled = 0
    /\ todo = <<>>
    /\ settings = [h \in Hooks |-> "plain"]
    /\ rendered = FALSE
    /\ budget \in Budgets
    /\ gaveUp = FALSE
    /\ edited = {}

MayWrite == EditsAtStart \/ at \notin Starting

\* Each write leaves a version with a time or a length of its own.
WriteFile(c) ==
    /\ MayWrite
    /\ Spend("writes")
    /\ \E v \in Versions \ {0} :
        /\ held[v] = NoConfig /\ (v = 1 \/ held[v - 1] # NoConfig)
        /\ file' = v
        /\ held' = [held EXCEPT ![v] = c]
    /\ UNCHANGED <<at, current, loaded, observed, settled, todo, settings, rendered, gaveUp, edited>>

\* The file is removed, or an earlier one is put back with its time.
PutBack(v) ==
    /\ MayWrite
    /\ v # file
    /\ v = 0 \/ held[v] # NoConfig
    /\ Spend("writes")
    /\ file' = v
    /\ UNCHANGED <<held, at, current, loaded, observed, settled, todo, settings, rendered, gaveUp, edited>>

EditSettings(h, s) ==
    /\ s # settings[h] /\ s # "ours"
    /\ Spend("edits")
    /\ settings' = [settings EXCEPT ![h] = s]
    /\ edited' = edited \cup {h}
    /\ UNCHANGED <<file, held, at, current, loaded, observed, settled, todo, rendered, gaveUp>>

----------------------------------------------------------------------------
\* Hooks are put in place one agent after the other: read, then write.

NextHook == /\ todo' = Tail(todo)
            /\ rendered' = FALSE
            /\ edited' = edited \ {Head(todo)}

\* Mutant of EnsureHook: the settings are not looked at.
EnsureHookTrusting ==
    /\ at \in {"ensuring", "applying"}
    /\ todo # <<>> /\ ~rendered
    /\ settings[Head(todo)] # "off"
    /\ NextHook
    /\ UNCHANGED <<file, held, at, current, loaded, observed, settled, settings, budget, gaveUp>>

EnsureHook ==
    /\ at \in {"ensuring", "applying"}
    /\ todo # <<>> /\ ~rendered
    /\ settings[Head(todo)] # "off"
    /\ IF settings[Head(todo)] = "ours"
       THEN NextHook
       ELSE rendered' = TRUE /\ UNCHANGED <<todo, edited>>
    /\ UNCHANGED <<file, held, at, current, loaded, observed, settled, settings, budget, gaveUp>>

\* A rename: what the user has changed since the settings were read is lost.
WriteHook ==
    /\ at \in {"ensuring", "applying"}
    /\ rendered
    /\ settings' = [settings EXCEPT ![Head(todo)] = "ours"]
    /\ NextHook
    /\ UNCHANGED <<file, held, at, current, loaded, observed, settled, budget, gaveUp>>

\* The hooks put in place before the one that fails stay.
HookFails ==
    /\ at \in {"ensuring", "applying"}
    /\ todo # <<>>
    /\ \/ settings[Head(todo)] = "off" /\ ~rendered /\ UNCHANGED budget
       \/ Spend("failures")
    /\ todo' = <<>> /\ rendered' = FALSE
    /\ loaded' = NoConfig
    /\ IF at = "ensuring"
       THEN at' = "down" /\ UNCHANGED <<observed, settled, gaveUp>>
       ELSE at' = "ticking" /\ observed' = settled /\ settled' = 0 /\ gaveUp' = TRUE
    /\ UNCHANGED <<file, held, current, settings, edited>>

----------------------------------------------------------------------------
\* The start.

Start ==
    /\ at = "down"
    /\ Spend("starts")
    /\ at' = "loading"
    /\ UNCHANGED <<file, held, current, loaded, observed, settled, todo, settings, rendered, gaveUp, edited>>

LoadAtStart ==
    /\ at = "loading"
    /\ IF Usable(held[file])
       THEN /\ loaded' = held[file]
            /\ todo' = held[file].hooks
            /\ at' = "ensuring"
       ELSE at' = "down" /\ UNCHANGED <<loaded, todo>>
    /\ UNCHANGED <<file, held, current, observed, settled, settings, rendered, budget, gaveUp, edited>>

Build ==
    /\ at = "ensuring" /\ todo = <<>>
    /\ current' = loaded /\ loaded' = NoConfig
    /\ at' = "built"
    /\ UNCHANGED <<file, held, observed, settled, todo, settings, rendered, budget, gaveUp, edited>>

\* The task takes the file as it is now for the one that was loaded.
BeginWatching ==
    /\ at = "built"
    /\ observed' = file /\ gaveUp' = FALSE
    /\ at' = "ticking"
    /\ UNCHANGED <<file, held, current, loaded, settled, todo, settings, rendered, budget, edited>>

----------------------------------------------------------------------------
\* The task.

\* Every second.
Tick ==
    /\ at = "ticking"
    /\ file # observed
    /\ at' = "settling"
    /\ UNCHANGED <<file, held, current, loaded, observed, settled, todo, settings, rendered, budget, gaveUp, edited>>

\* The version that made the task look is the one it compares with from now on.
Observe(v) == observed' = v /\ settled' = 0 /\ gaveUp' = FALSE

\* 200 ms later.  A file that is not there is remembered like any other.
Settle ==
    /\ at = "settling"
    /\ CASE file = observed -> at' = "ticking" /\ UNCHANGED <<observed, settled, gaveUp>>
         [] file = 0        -> at' = "ticking" /\ Observe(file)
         [] OTHER           -> at' = "reloading" /\ settled' = file /\ UNCHANGED <<observed, gaveUp>>
    /\ UNCHANGED <<file, held, current, loaded, todo, settings, rendered, budget, edited>>

\* The file is read again: it may have changed since it settled.
ReadConfig ==
    /\ at = "reloading"
    /\ IF Usable(held[file])
       THEN /\ loaded' = held[file]
            /\ todo' = held[file].hooks
            /\ at' = "applying"
            /\ UNCHANGED <<observed, settled, gaveUp>>
       ELSE /\ at' = "ticking"
            /\ Observe(settled)
            /\ UNCHANGED <<loaded, todo>>
    /\ UNCHANGED <<file, held, current, settings, rendered, budget, edited>>

\* Mutant of Replace: the version is looked at once more before it is remembered.
ReplaceLookingAgain ==
    /\ at = "applying" /\ todo = <<>>
    /\ current' = loaded /\ loaded' = NoConfig
    /\ Observe(file)
    /\ at' = "ticking"
    /\ UNCHANGED <<file, held, todo, settings, rendered, budget, edited>>

Replace ==
    /\ at = "applying" /\ todo = <<>>
    /\ current' = loaded /\ loaded' = NoConfig
    /\ Observe(settled)
    /\ at' = "ticking"
    /\ UNCHANGED <<file, held, todo, settings, rendered, budget, edited>>

Stopped ==
    /\ at' = "down"
    /\ current' = NoConfig /\ loaded' = NoConfig
    /\ todo' = <<>> /\ rendered' = FALSE
    /\ observed' = 0 /\ settled' = 0 /\ gaveUp' = FALSE
    /\ UNCHANGED <<file, held, settings, budget, edited>>

ReloadStep == Tick \/ Settle \/ ReadConfig \/ Replace
HookStep   == EnsureHook \/ WriteHook
StartStep  == Start \/ LoadAtStart \/ Build \/ BeginWatching

ConfigNext ==
    \/ \E c \in Configs : WriteFile(c)
    \/ \E v \in Versions : PutBack(v)
    \/ \E h \in Hooks, s \in Settings : EditSettings(h, s)
    \/ ReloadStep \/ HookStep \/ StartStep \/ HookFails

=============================================================================
