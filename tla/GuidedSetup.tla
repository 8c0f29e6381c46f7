----------------------------- MODULE GuidedSetup -----------------------------
(***************************************************************************)
(* The commands that make a config: "setup", and "start" without --config  *)
(* ("open" below).  Both first bring over what the program's predecessor   *)
(* left, ask for what is missing, write the config and then start the      *)
(* service like the commands of ServiceLifecycle; "setup" may install a    *)
(* new version in between and begin anew.  The config is the one at the    *)
(* default place; that of another definition is its user's affair.         *)
(***************************************************************************)
EXTENDS ServiceLifecycle, SetupWizard, ReplyPolicy

CONSTANT
    Home            \* the definition with the config at the default place

NoConfig == [file |-> "none"]
Torn     == [file |-> "torn"]       \* it was truncated, and the write was cut

ASSUME HomeAssumption == Home \in Definitions

ASSUME LegacyAssumption ==
    \A s \in Scenarios :
        s.legacy \in [home : {"absent", "there"}, elsewhere : BOOLEAN,
                     content : {t.legacy.content : t \in Scenarios},
                     service : {"none", "loaded"}, process : {"none", "agent", "other"}]

VARIABLES
    config,         \* the file at the default place
    legacy,         \* the predecessor's config, its service, and the process its pid file names
    version,        \* "old" or "new": of the binary at its path
    taken           \* what each runtime runs: a config and a version

setup     == <<config, legacy, version, taken>>
setupVars == <<allVars, setup>>

Whole(c) == c \notin {NoConfig, Torn}
Present  == [config |-> config, version |-> version]
NotTaken == [config |-> NoConfig, version |-> "none"]

\* A program reads the config when it starts; one that has ended is forgotten.
Takes == taken' = [r \in Runtimes |-> IF at'[r] = "none" THEN NotTaken
                                      ELSE IF at[r] = "none" THEN Present ELSE taken[r]]

Elsewhere == UNCHANGED <<config, legacy, version>> /\ Takes

\* An owner that serves notices a new config and takes it, if it is valid.
Rereads(r) ==
    /\ r \in binds /\ at[r] = "owner"
    /\ Whole(config) /\ Validate(config) /\ taken[r].config # config
    /\ taken' = [taken EXCEPT ![r].config = config]
    /\ UNCHANGED <<allVars, config, legacy, version>>

----------------------------------------------------------------------------
(* The predecessor's installation is brought over. *)

\* The manager and its files are not touched before the config is there.
AtThePrompt == SameProcess /\ UNCHANGED <<manager, file, loaded, job, metadata>>
Asks        == AtThePrompt /\ UNCHANGED <<version, taken>>

Opens(c) ==
    /\ c \in {"setup", "open"}
    /\ ~Busy
    /\ c \in budget.may
    /\ Spend("commands")
    /\ cli' = [cli EXCEPT !.cmd = IF c = "open" THEN "start" ELSE c, !.want = Home,
                          !.found = "absent", !.at = "migrating"]
    /\ Asks /\ UNCHANGED <<config, legacy>>

LegacyConfig == legacy.home = "there" \/ legacy.elsewhere

\* The config that is there is left alone, whatever it is; that of the predecessor
\* must be valid under its new names.
Migrates ==
    /\ cli.at = "migrating"
    /\ Then(IF config # NoConfig \/ ~LegacyConfig THEN "ending legacy"
            ELSE IF Validate(Normalized(legacy.content)) THEN "carrying" ELSE "failed")
    /\ Asks /\ UNCHANGED <<config, legacy, budget>>

\* The file is truncated and written in place.
Truncates ==
    /\ cli.at = "carrying"
    /\ config' = Torn
    /\ Then("filling")
    /\ Asks /\ UNCHANGED <<legacy, budget>>

Carries ==
    /\ cli.at = "filling"
    /\ config' = Normalized(legacy.content)
    /\ Then(IF legacy.elsewhere THEN "ending legacy" ELSE "dropping")
    /\ Asks /\ UNCHANGED <<legacy, budget>>

Drops ==
    /\ cli.at = "dropping"
    /\ legacy' = [legacy EXCEPT !.home = "removed"]
    /\ Then("ending legacy")
    /\ Asks /\ UNCHANGED <<config, budget>>

\* Its manager starts the predecessor's service again, like that of this program.
LegacyRuns ==
    /\ legacy.service # "none" /\ manager # "tasks" /\ legacy.process = "none"
    /\ legacy' = [legacy EXCEPT !.process = "agent"]
    /\ AtThePrompt /\ UNCHANGED <<config, version, taken, cli, budget>>

\* Mutant of RemovesService: the manager is not told, only the file is removed.
RemovesServiceFile ==
    /\ cli.at = "ending legacy"
    /\ Then("ending process")
    /\ Asks /\ UNCHANGED <<legacy, config, budget>>

\* launchd is asked again what it would not end before.
Removable == legacy.service = "loaded" \/ (legacy.service = "escaped" /\ manager = "launchd")

\* The predecessor's service is removed, and its process with it.  An error of systemd
\* ends the command; one of launchd, and of the scheduler's /End, is ignored.
RemovesService ==
    /\ cli.at = "ending legacy"
    /\ Then("ending process")
    /\ \/ ~Removable /\ UNCHANGED <<legacy, budget>>
       \/ /\ Removable /\ UNCHANGED budget
          /\ legacy' = [legacy EXCEPT !.service = "none", !.process = "none"]
       \/ /\ Removable /\ manager # "systemd" /\ Spend("failures")
          /\ legacy' = [legacy EXCEPT !.service = "escaped"]
    /\ Asks /\ UNCHANGED config

\* The process its pid file names, if any, is ended; it is an error if another program
\* has that id.  On Windows nobody looks.
EndsProcess ==
    /\ cli.at = "ending process"
    /\ IF manager = "tasks" THEN Then("clearing") /\ UNCHANGED legacy
       ELSE IF legacy.process = "other" THEN Then("failed") /\ UNCHANGED legacy
       ELSE Then("clearing") /\ legacy' = [legacy EXCEPT !.process = "none"]
    /\ Asks /\ UNCHANGED <<config, budget>>

\* What the predecessor left is removed: its config, too, and the record of the one elsewhere.
Clears ==
    /\ cli.at = "clearing"
    /\ legacy' = [legacy EXCEPT !.home = IF @ = "there" THEN "removed" ELSE @,
                                !.elsewhere = FALSE]
    /\ Then(IF cli.cmd = "setup" THEN "asking" ELSE "loading")
    /\ Asks /\ UNCHANGED <<config, budget>>

----------------------------------------------------------------------------
(* The config is asked for. *)

Loads ==
    /\ cli.at = "loading"
    /\ Then(IF config = NoConfig THEN "asking"
            ELSE IF config = Torn \/ ~Validate(config) THEN "failed" ELSE "reading")
    /\ Asks /\ UNCHANGED <<config, legacy, budget>>

\* The earlier config is loaded for what the prompts show.
CannotAsk ==
    /\ cli.at = "asking"
    /\ config = Torn \/ (Whole(config) /\ ~Validate(config))
    /\ Then("failed")
    /\ Asks /\ UNCHANGED <<config, legacy, budget>>

Earlier == {config} \ {NoConfig}

\* "setup" offers a newer version.  On Windows a helper stops the service before it
\* installs with npm; the other ways to install do not need that.
Updates ==
    /\ cli.at = "asking" /\ cli.cmd = "setup" /\ version = "old"
    /\ \A c \in Earlier : c # Torn /\ Validate(c)
    /\ Spend("updates")
    /\ \/ Then("installing")
       \/ manager = "tasks" /\ cli' = [cli EXCEPT !.cmd = "update", !.at = "stopping"]
    /\ Asks /\ UNCHANGED <<config, legacy>>

\* The new version runs the setup from its beginning.
Installs ==
    /\ cli.at = "installing"
    /\ version' = "new"
    /\ cli' = [cli EXCEPT !.cmd = "setup", !.at = "migrating"]
    /\ AtThePrompt /\ UNCHANGED <<config, legacy, taken, budget>>

\* The file is written beside and renamed: it is the earlier or the new one.
Writes ==
    /\ cli.at = "asking"
    /\ \A c \in Earlier : c # Torn /\ Validate(c)
    /\ config' \in GuidedProviderSetup(Earlier, budget.agents, budget.types)
    /\ Then("checking")
    /\ Asks /\ UNCHANGED <<legacy, budget>>

\* Mutant of Checks: the service is started like by "start", if it is not running.
ChecksAndStarts ==
    /\ cli.at = "checking"
    /\ Then(IF Validate(config) THEN "reading" ELSE "failed")
    /\ Asks /\ UNCHANGED <<config, legacy, budget>>

\* What was written is loaded.  After "setup" the service starts anew.
Checks ==
    /\ cli.at = "checking"
    /\ Then(IF ~Validate(config) THEN "failed"
            ELSE IF cli.cmd = "setup" THEN "stopping" ELSE "reading")
    /\ Asks /\ UNCHANGED <<config, legacy, budget>>

----------------------------------------------------------------------------

GuidedInit ==
    /\ ServiceInit
    /\ \E s \in Scenarios : /\ manager = s.manager /\ budget = s.budget
                            /\ config = s.config /\ legacy = s.legacy
    /\ version = "old"
    /\ taken = [r \in Runtimes |-> NotTaken]

SetupNext ==
    \/ \E c \in {"setup", "open"} : Opens(c)
    \/ Migrates \/ Truncates \/ Carries \/ Drops \/ LegacyRuns
    \/ RemovesService \/ EndsProcess \/ Clears
    \/ Loads \/ CannotAsk \/ Updates \/ Installs \/ Writes \/ Checks
    \/ \E r \in Runtimes : Rereads(r)

GuidedNext ==
    \/ ServiceNext /\ Elsewhere
    \/ (\A r \in Runtimes : ~LeftNothing(r)) /\ SetupNext

GuidedSpec == GuidedInit /\ [][GuidedNext]_setupVars

\* The program's own steps and the manager's happen.  The manager starts what it
\* keeps alive, and does not always give it the id of the same dead process.
FairService ==
    /\ GuidedSpec
    /\ WF_setupVars(JobEnds /\ Elsewhere)
    /\ SF_setupVars(Relaunches /\ Elsewhere)
    /\ \A r \in Runtimes : WF_setupVars(Works(r) /\ Elsewhere)

----------------------------------------------------------------------------
(* Properties. *)

\* The predecessor's config is removed only when there is one in its place; only a
\* migration that was cut in the middle of its write leaves one that cannot be loaded,
\* and the next setup then removes the predecessor's all the same.
ConfigIsCarried ==
    /\ legacy.home = "removed" => config # NoConfig
    /\ config = Torn => cli.at = "filling" \/ cli.aborted

\* Secrets that were issued together stay together: the recipient of WeChat with the
\* token it was linked with, and the operator and the secret of a personal agent
\* with the app that was registered.
IssuedTogether(p) ==
    /\ {"token"} \cup WechatLink \subseteq DOMAIN p
          => p.recipient_user_id = p.token /\ p.context_token = p.token
    /\ "app_registration_source" \in DOMAIN p
          => \A f \in {"app_secret", "operator_open_id"} \cap DOMAIN p : p[f] = p.app_id

\* A message the runtime keeps for replies, with whatever receipt, is of an app the
\* supervisor listens to, and the controller takes the reply; so it is, too, when the
\* route is switched by hand.  The setup switches on only what is listened to.
RepliesAreHeard(c) ==
    /\ c.reply => Listens(c)
    /\ \A d \in {[c EXCEPT !.reply = r] : r \in BOOLEAN}, source \in c.routed,
         session \in {"some", NoSession}, lacks \in {{}} \cup {{f} : f \in ReceiptFields} :
            MakesSurface(d, source, session, ReceiptFields \ lacks)
                => Listens(d) /\ TakesReply(d, Surface(d, source, session))

\* What the migration and the setup leave can be loaded, has lost no settings on the
\* way, and mixes none that do not belong together, wherever a command is cut; and
\* the parts that decide on replies by it agree.
SettingsAreKept ==
    /\ ConfigIsCarried
    /\ Whole(config) => /\ Validate(config) /\ IssuedTogether(config.provider)
                        /\ RepliesAreHeard(config)

ConfigFields == {"agent", "sources", "routed", "type", "provider", "answer", "prompt", "minutes",
                 "projects", "reply"}

\* A config as someone may have made it before: what is in it belongs together, and
\* replies are on, if at all, where they are heard.
Coherent(c) ==
    /\ DOMAIN c = ConfigFields /\ c.reply \in BOOLEAN
    /\ c.reply => Listens(c)
    /\ IssuedTogether(c.provider)
    /\ PersonalAgentIsThere(c.provider)
          => \A f \in {"app_secret", "operator_open_id"} : c.provider[f] = c.provider.app_id

\* The setup begins with a config that can be used, or with none; of the predecessor's
\* it is asked only if it is valid.  The prompts offer the platforms there are.
ASSUME SettingsAssumption ==
    \A s \in Scenarios :
        /\ s.config = NoConfig \/ (Coherent(s.config) /\ Validate(s.config))
        /\ Validate(Normalized(s.legacy.content)) => Coherent(Normalized(s.legacy.content))
        /\ "types" \in DOMAIN s.budget /\ s.budget.types \subseteq Constrained \cup Unconstrained

\* The predecessor, which would announce everything as well, does not run, unless its
\* manager would not end it or, on Windows, it ran without one.
PredecessorIsGone == legacy.process = "agent" => legacy.service = "escaped" \/ manager = "tasks"

\* When "setup" says that the service is ready, the managed process that answers runs
\* the config just made, and the version just installed, and the predecessor is gone;
\* unless an error of the manager was ignored, also by an earlier command: a process that
\* "uninstall" could not end is unknown to "setup".
SetupTakesEffect ==
    cli.cmd = "setup" /\ cli.at = "waiting" /\ cli'.at = "done" /\ socket = job.run
        => (taken[job.run] = Present \/ cli.ignored) /\ PredecessorIsGone

ReadyIsTrue ==
    [][(cli.at = "waiting" /\ cli'.at = "done" /\ socket = job.run => RunsWhatWasAsked)
         /\ SetupTakesEffect]_setupVars
=============================================================================
