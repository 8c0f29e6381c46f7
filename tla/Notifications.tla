---------------------------- MODULE Notifications ----------------------------
(***************************************************************************)
(* Everything that announces.  Agents' hooks and the CLI hand events to    *)
(* the service's local ingress, which serves one connection at a time; the *)
(* Desktop watcher (DesktopWatcher) runs beside it.  Both call the router, *)
(* which offers a message to the targets of its routes, one after the      *)
(* other, through the guard (DeliverySafety) and the provider adapters     *)
(* (ProviderVerdicts).                                                     *)
(*                                                                         *)
(* A Codex Desktop session may run the Codex CLI's Stop hook as well: the  *)
(* CLI, and then the ingress, drop the hook's event when the config names  *)
(* the Desktop source, so that the turn is announced once.                 *)
(***************************************************************************)
EXTENDS DeliverySafety, ProviderVerdicts

CONSTANTS
    NumFiles, NumTurns, FileOf, DesktopFiles, ReplyTurns, MaxDelivered, MaxDisturbances,
    TurnMessage,    \* TurnMessage[t]: the message that announces turn t of Codex
    Sessions,       \* the messages that announce the turns of Claude Code sessions
    Emitted,        \* messages of "agents-router emit" and of the test notification
    MinDuration,    \* the routes' minimum_task_duration
    Scenes          \* what the world may do in a behaviour, see Scene

Files == 1 .. NumFiles
Turns == 1 .. NumTurns
Kinds == {"emitted", "claude_code", "codex_cli", "codex_desktop"}
Tasks == {"ingress", "watcher"}
NoTime == MaxTime + 1

\* The turns that end, those that are asked for by a prompt, the callers there are, whether the reset command is used,
\* the answers of platforms, their types, whether the config file names the
\* Desktop source at first, the targets of the routes of each kind of source, in
\* order, and the most that happens of each bounded thing.
Scene == [turns : SUBSET Turns, asked : SUBSET Turns, callers : SUBSET Messages, resets : BOOLEAN,
          answers : SUBSET Answers, platforms : SUBSET [Targets -> Types],
          sources : SUBSET BOOLEAN, route : [Kinds -> Seq(Targets)],
          waiting : Nat, ticks : Nat, crashes : Nat, disturbances : Nat, switches : Nat]

VARIABLES
    scene,
    \* the Desktop watcher
    lines, half, here, recorded, prompts, watch, index, state, pending, batch, watchSaved,
    routed, watchLive, missed, quick, disturbed, forgotten, heard, unheard, disturbances,
    \* the config
    file,           \* the config file names the Desktop source
    snapshot,       \* so does the config in use
    platform,       \* platform[k]: the type of the provider of target k
    \* the router
    job,            \* job[task]: the message the task is delivering
    \* the ingress and those who call it
    queue,          \* connections, the first of them served
    starts,         \* starts[s]: the start of session s's turn, as the ingress knows it
    session,        \* session[s]: what session s does, and since when
    stopHook,       \* stopHook[t]: what became of the Stop hook of turn t
    answer,         \* history: the event answered last, and how it was delivered
    switched,       \* history: turns that ended about a change of the config
    unwatched,      \* history: turns that ended before the watch the config asks for
    switches

W == INSTANCE DesktopWatcher WITH saved <- watchSaved, live <- watchLive

ASSUME NotificationsAssumption ==
    /\ W!WatcherAssumption
    /\ MinDuration \in Nat
    /\ TurnMessage \in [Turns -> Messages]
    /\ \A t, u \in Turns : TurnMessage[t] = TurnMessage[u] => t = u
    /\ Sessions \subseteq Messages /\ Emitted \subseteq Messages
    /\ Sessions \cap Emitted = {}
    /\ \A t \in Turns : TurnMessage[t] \notin Sessions \cup Emitted
    /\ "none" \notin Messages
    /\ Scenes \subseteq Scene

watcherVars == <<lines, half, here, recorded, prompts, watch, index, state, pending, batch,
                 watchSaved, routed, watchLive, missed, quick, disturbed, forgotten, heard, unheard,
                 disturbances>>
configVars  == <<file, snapshot, switched, unwatched, switches>>
ingressVars == <<queue, starts, session, stopHook, answer>>
nvars == <<vars, scene, watcherVars, configVars, platform, job, ingressVars>>

----------------------------------------------------------------------------
(* The router: Router::route_with_safety_and_response_surfaces *)

NoJob == [message |-> "none", left |-> <<>>, sending |-> FALSE, done |-> <<>>]

Job(message, kind) == [NoJob EXCEPT !.message = message, !.left = scene.route[kind]]

Idle(task) == job[task] = NoJob
Delivered(task) == ~Idle(task) /\ job[task].left = <<>>

\* Mutant of Settled: the first failure ends the delivery.
SettledOrEnd(j, result, taken) ==
    [j EXCEPT !.left = IF result = "failed" THEN <<>> ELSE Tail(@),
              !.sending = FALSE,
              !.done = Append(@, [target |-> Head(j.left), result |-> result, taken |-> taken])]

\* A target is done with, whatever came of it, and the next one is tried.
Settled(j, result, taken) ==
    [j EXCEPT !.left = Tail(@),
              !.sending = FALSE,
              !.done = Append(@, [target |-> Head(j.left), result |-> result, taken |-> taken])]

\* The guard lets the message through to the target, suppresses it, or fails
\* to save a pause.
Offer(task) ==
    LET j == job[task]
        k == <<j.message, Head(j.left)>>
    IN  /\ ~Idle(task) /\ ~Delivered(task) /\ ~j.sending
        /\ \/ CheckAllowed(k) /\ job' = [job EXCEPT ![task].sending = TRUE]
           \/ CheckPaused(k) /\ job' = [job EXCEPT ![task] = Settled(j, "suppressed", FALSE)]
           \/ \E saves \in BOOLEAN :
                  /\ Storm(k, saves)
                  /\ job' = [job EXCEPT ![task] =
                         Settled(j, IF paused' /\ ~saves THEN "failed" ELSE "suppressed", FALSE)]
        /\ UNCHANGED <<scene, watcherVars, configVars, platform, ingressVars>>

\* The adapter posts the message and reads the platform's answer.  A failure is
\* collected; nothing is sent again.
Send(task, reply) ==
    LET j == job[task] IN
    /\ j.sending
    /\ job' = [job EXCEPT ![task] =
                   Settled(j, IF Sent(platform[Head(j.left)], reply) THEN "sent" ELSE "failed",
                           reply.taken)]
    /\ UNCHANGED <<vars, scene, watcherVars, configVars, platform, ingressVars>>

Deliver(task) == Offer(task) \/ \E reply \in scene.answers : Send(task, reply)

----------------------------------------------------------------------------
(* Those who call: "agents-router emit", Claude Code's hooks, Codex's Stop    *)
(* hook.  A caller waits for its answer; without a service it fails at once.  *)

Waiting(c) == \E i \in 1 .. Len(queue) : queue[i].from = c
Call(c, asks, at) == /\ Len(queue) < scene.waiting
                     /\ queue' = Append(queue, [from |-> c, asks |-> asks, at |-> at])

Emit(m) ==
    /\ m \in Emitted \cap scene.callers
    /\ live = "up"
    /\ ~Waiting(m)
    /\ Call(m, "emitted", now)
    /\ UNCHANGED <<vars, scene, watcherVars, configVars, platform, job, starts, session,
                   stopHook, answer>>

\* UserPromptSubmit: a turn begins, perhaps instead of one that was interrupted,
\* whose Stop hook does not run.
Prompt(s) ==
    /\ s \in Sessions \cap scene.callers
    /\ ~Waiting(s)
    /\ session' = [session EXCEPT ![s] = [since |-> now, heard |-> FALSE]]
    /\ IF live = "up" THEN Call(s, "turn_start", now) ELSE UNCHANGED queue
    /\ UNCHANGED <<vars, scene, watcherVars, configVars, platform, job, starts, stopHook, answer>>

\* Stop: the turn completes.  A hook may make it go on and stop again.
StopTurn(s) ==
    /\ s \in Sessions
    /\ ~Waiting(s)
    /\ session[s].since # NoTime
    /\ live = "up"
    /\ Call(s, "claude_code", now)
    /\ UNCHANGED <<vars, scene, watcherVars, configVars, platform, job, starts, session,
                   stopHook, answer>>

\* A turn ends for the watch when its line is whole, for the CLI when its hook runs.
LineIsWhole(t) == \E i \in 1 .. Len(lines[FileOf[t]]) : lines[FileOf[t]][i] = W!Done(t)
Ending(t) == /\ LineIsWhole(t) \/ stopHook[t] # "due"
             /\ ~LineIsWhole(t) \/ stopHook[t] \in {"due", "called"}

\* The config file, the config in use and the watch do not agree yet.
Unsettled == file # snapshot \/ (watch # "off" /\ ~snapshot)

IsDesktop(t) == FileOf[t] \in DesktopFiles \cap here

\* Mutant of Shadowed: the config is not looked at.
ShadowedByOrigin(t, desktopSource) == IsDesktop(t)

\* The hook's event is dropped if the config names the Desktop source and the
\* session's file says it is one of Desktop.
Shadowed(t, desktopSource) == desktopSource /\ IsDesktop(t)

\* The CLI looks at the config file before it calls the service.
RunStopHook(t) ==
    /\ TurnMessage[t] \in scene.callers
    /\ t \in scene.turns
    /\ stopHook[t] = "due"
    /\ IF Shadowed(t, file)
       THEN stopHook' = [stopHook EXCEPT ![t] = "shadowed"] /\ UNCHANGED queue
       ELSE IF live = "up"
       THEN stopHook' = [stopHook EXCEPT ![t] = "called"] /\ Call(TurnMessage[t], "codex_cli", now)
       ELSE stopHook' = [stopHook EXCEPT ![t] = "failed"] /\ UNCHANGED queue
    /\ switched' = IF Unsettled THEN switched \cup {t} ELSE switched
    /\ UNCHANGED <<vars, scene, watcherVars, file, snapshot, unwatched, switches, platform, job,
                   starts, session, answer>>

----------------------------------------------------------------------------
(* The local ingress: handle_request_bytes. *)

NoAnswer == [to |-> "none", verdict |-> "none", done |-> <<>>, long |-> FALSE, heard |-> FALSE]

Serving == live = "up" /\ queue # <<>> /\ Idle("ingress")

\* Mutant of RecordStart: the start that is there stays.
RecordStartIfNone(s, at) == [starts EXCEPT ![s] = IF @ = NoTime THEN at ELSE @]

RecordStart(s, at) == [starts EXCEPT ![s] = at]

ServeTurnStart ==
    LET request == Head(queue) IN
    /\ Serving
    /\ request.asks = "turn_start"
    /\ starts' = RecordStart(request.from, request.at)
    /\ session' = [session EXCEPT ![request.from].heard = TRUE]
    /\ queue' = Tail(queue)
    /\ answer' = NoAnswer
    /\ UNCHANGED <<vars, scene, watcherVars, configVars, platform, job, stopHook>>

Answered(c, verdict, done) ==
    [to |-> c, verdict |-> verdict, done |-> done,
     long  |-> c \notin Sessions \/ (Head(queue).at - session[c].since >= MinDuration),
     heard |-> c \in Sessions /\ session[c].heard]

\* Mutant of TooShort: a turn without a start is short, too.
TooShortUnlessKnown(s, at) == starts[s] = NoTime \/ at - starts[s] < MinDuration

\* The routes are for turns of a minimum duration, which a turn without a start
\* does not have.
TooShort(s, at) == starts[s] # NoTime /\ at - starts[s] < MinDuration

\* The start of a turn is taken out for its completion, which the routes drop if
\* it was too short.
ServeClaudeStop ==
    LET request == Head(queue)
        s == request.from
    IN  /\ Serving
        /\ request.asks = "claude_code"
        /\ starts' = [starts EXCEPT ![s] = NoTime]
        /\ IF TooShort(s, request.at)
           THEN /\ answer' = Answered(s, "dropped", <<>>)
                /\ queue' = Tail(queue)
                /\ session' = [session EXCEPT ![s].heard = FALSE]
                /\ UNCHANGED job
           ELSE /\ job' = [job EXCEPT !["ingress"] = Job(s, "claude_code")]
                /\ answer' = NoAnswer
                /\ UNCHANGED <<queue, session>>
        /\ UNCHANGED <<vars, scene, watcherVars, configVars, platform, stopHook>>

\* The ingress looks again, at the config in use.
ServeCodexStop ==
    LET request == Head(queue)
        t == CHOOSE t \in Turns : TurnMessage[t] = request.from
    IN  /\ Serving
        /\ request.asks = "codex_cli"
        /\ IF Shadowed(t, snapshot)
           THEN /\ stopHook' = [stopHook EXCEPT ![t] = "shadowed"]
                /\ queue' = Tail(queue)
                /\ UNCHANGED job
           ELSE /\ job' = [job EXCEPT !["ingress"] = Job(request.from, "codex_cli")]
                /\ stopHook' = [stopHook EXCEPT ![t] = "announced"]
                /\ UNCHANGED queue
        /\ answer' = NoAnswer
        /\ UNCHANGED <<vars, scene, watcherVars, configVars, platform, starts, session>>

ServeEmitted ==
    /\ Serving
    /\ Head(queue).asks = "emitted"
    /\ job' = [job EXCEPT !["ingress"] = Job(Head(queue).from, "emitted")]
    /\ answer' = NoAnswer
    /\ UNCHANGED <<vars, scene, watcherVars, configVars, platform, queue, starts, session, stopHook>>

Verdict(done) == IF \E i \in 1 .. Len(done) : done[i].result = "failed" THEN "error" ELSE "ok"

\* The caller is told how many targets were sent to and how many suppressed, or
\* that some failed.
Answer ==
    LET c == Head(queue).from
        done == job["ingress"].done
    IN  /\ Delivered("ingress")
        /\ answer' = Answered(c, Verdict(done), done)
        /\ job' = [job EXCEPT !["ingress"] = NoJob]
        /\ queue' = Tail(queue)
        /\ session' = IF c \in Sessions THEN [session EXCEPT ![c].heard = FALSE] ELSE session
        /\ UNCHANGED <<vars, scene, watcherVars, configVars, platform, starts, stopHook>>

IngressStep == ServeTurnStart \/ ServeClaudeStop \/ ServeCodexStop \/ ServeEmitted
                 \/ Deliver("ingress") \/ Answer

----------------------------------------------------------------------------
(* The Desktop watcher. *)

Others == <<vars, scene, configVars, platform, ingressVars>>

Ask(t) == /\ t \in scene.asked
          /\ W!Ask(t)
          /\ UNCHANGED <<Others, job>>

BeginLine(t) == /\ t \in scene.turns
                /\ W!BeginLine(t)
                /\ UNCHANGED <<Others, job>>

FinishLine(f) ==
    /\ W!FinishLine(f)
    /\ switched' = IF Unsettled THEN switched \cup {half[f]} ELSE switched
    /\ unwatched' = IF watch = "off" /\ file THEN unwatched \cup {half[f]} ELSE unwatched
    /\ UNCHANGED <<vars, scene, file, snapshot, switches, platform, ingressVars, job>>

Recorded == (\E t \in scene.turns : W!RecordReplyTurn(t)) /\ UNCHANGED <<Others, job>>

\* Where prompts are read, they are what is changed.
Disturb ==
    /\ disturbances < scene.disturbances
    /\ IF scene.asked # {} THEN W!SwitchPrompts
       ELSE \E f \in Files : W!Disappear(f) \/ \E n \in 0 .. NumTurns : W!Rewrite(f, n)
    /\ UNCHANGED <<Others, job>>

Reappear == (\E f \in Files : W!Reappear(f)) /\ UNCHANGED <<Others, job>>

StartWatch == live # "down" /\ snapshot /\ W!StartWatch /\ UNCHANGED <<Others, job>>

\* The loop finds that the source has left the config.
StopWatch == ~snapshot /\ W!StopWatch /\ UNCHANGED <<Others, job>>

Poll == /\ (snapshot /\ W!ReadIndex) \/ W!ReadFiles
        /\ UNCHANGED <<Others, job>>

\* The next signal of the batch is handed to the router.
RouteSignal ==
    /\ Idle("watcher")
    /\ W!RouteNext
    /\ job' = [job EXCEPT !["watcher"] = Job(TurnMessage[Head(batch.signals).turn], "codex_desktop")]
    /\ UNCHANGED Others

\* Whatever failed, the watch goes on.
SignalRouted ==
    /\ Delivered("watcher")
    /\ job' = [job EXCEPT !["watcher"] = NoJob]
    /\ UNCHANGED <<Others, watcherVars>>

Commit == Idle("watcher") /\ W!Commit /\ UNCHANGED <<Others, job>>

WatcherStep == StartWatch \/ StopWatch \/ Poll \/ RouteSignal \/ SignalRouted \/ Commit \/ Deliver("watcher")

----------------------------------------------------------------------------
(* The service and its config. *)

StartService ==
    /\ Start
    /\ snapshot' = file
    /\ switched' = IF snapshot # file THEN switched \cup {t \in Turns : Ending(t)} ELSE switched
    /\ UNCHANGED <<scene, watcherVars, file, unwatched, switches, platform, job, ingressVars>>

OpenIngress == /\ IngressListens
               /\ UNCHANGED <<scene, watcherVars, configVars, platform, job, ingressVars>>

Die ==
    /\ Crash
    /\ crashes < scene.crashes
    /\ W!Crash \/ (watch = "off" /\ UNCHANGED watcherVars)
    /\ job' = [task \in Tasks |-> NoJob]
    /\ queue' = <<>>
    /\ starts' = [s \in Sessions |-> NoTime]
    /\ session' = [s \in Sessions |-> [session[s] EXCEPT !.heard = FALSE]]
    /\ stopHook' = [t \in Turns |-> IF stopHook[t] = "called" THEN "failed" ELSE stopHook[t]]
    /\ UNCHANGED <<scene, configVars, platform, answer>>

SwitchSource ==
    /\ switches < scene.switches
    /\ switches' = switches + 1
    /\ file' = ~file
    /\ switched' = switched \cup {t \in Turns : Ending(t)}
    /\ UNCHANGED <<vars, scene, watcherVars, snapshot, unwatched, platform, job, ingressVars>>

Reload ==
    /\ live # "down"
    /\ snapshot # file
    /\ snapshot' = file
    /\ switched' = switched \cup {t \in Turns : Ending(t)}
    /\ UNCHANGED <<vars, scene, watcherVars, file, unwatched, switches, platform, job, ingressVars>>

Clock == now < scene.ticks /\ Tick /\ UNCHANGED <<scene, watcherVars, configVars, platform, job, ingressVars>>

\* "agents-router safety reset": its ping and its request are served like events,
\* one connection at a time.
ResetCommand ==
    /\ scene.resets
    /\ CliProbe \/ (queue = <<>> /\ CliAskService) \/ CliWriteFile
    /\ UNCHANGED <<scene, watcherVars, configVars, platform, job, ingressVars>>

----------------------------------------------------------------------------

NotifyInit ==
    /\ scene \in Scenes
    /\ Init
    /\ W!Init
    /\ prompts = (scene.asked # {})
    /\ file \in scene.sources
    /\ snapshot = file
    /\ platform \in scene.platforms
    /\ job = [task \in Tasks |-> NoJob]
    /\ queue = <<>>
    /\ starts = [s \in Sessions |-> NoTime]
    /\ session = [s \in Sessions |-> [since |-> NoTime, heard |-> FALSE]]
    /\ stopHook = [t \in Turns |-> "due"]
    /\ answer = NoAnswer
    /\ switched = {}
    /\ unwatched = {}
    /\ switches = 0

NotifyNext ==
    \/ \E m \in Messages : Emit(m) \/ Prompt(m) \/ StopTurn(m)
    \/ \E t \in Turns : Ask(t) \/ BeginLine(t) \/ RunStopHook(t)
    \/ \E f \in Files : FinishLine(f)
    \/ Recorded \/ Disturb \/ Reappear
    \/ WatcherStep \/ IngressStep
    \/ StartService \/ OpenIngress \/ Die \/ SwitchSource \/ Reload \/ Clock \/ ResetCommand

NotifySpec == NotifyInit /\ [][NotifyNext]_nvars

\* The watch's interval goes on ticking and every call it makes returns.
FairNotifySpec == NotifySpec /\ WF_nvars(WatcherStep)

----------------------------------------------------------------------------
(* Properties. *)

\* The watch goes on where it should, whatever the rest does (DesktopWatcher).
NoBacklog == W!NoBacklog
LiveIsRouted == W!LiveIsRouted

Hooked(t) == IF stopHook[t] = "announced" THEN 1 ELSE 0
Steady(t) == t \notin switched /\ FileOf[t] \notin disturbed

\* Of the turns of Codex, only those that ended under the watch's eyes are announced
\* by it, and each is announced at most once, by the watch or by the CLI's Stop
\* hook, whatever crashes between its routing and the checkpoint; one that a reply in
\* a chat thread started is not announced in addition to the answer the thread gets,
\* unless it ended before the index could know it.  It takes a
\* change of the config about the turn's end, or a session file that is away when
\* the hook looks at it, to have it from both; and the loss of both the offset and
\* the delivered turn to have it from the watch twice.
AnnouncedOnce ==
    /\ NoBacklog /\ W!RoutedOnce /\ W!EchoIsSuppressed
    /\ \A t \in Turns : Steady(t) => routed[t] + Hooked(t) <= 1

\* A turn is announced with the prompt that started it, never with that of another,
\* unless one was left over: by an interrupted turn, or by one that ended while the
\* config asked for no prompts.
PromptIsItsOwn == W!PromptIsItsOwn

\* A hook is dropped only for a turn that the watch has seen, or will see, itself:
\* unless the config changes about the turn's end, or the service or its watch has
\* not yet started, one of the two announces it.
ShadowedIsWatched ==
    \A t \in Turns : stopHook[t] = "shadowed" /\ Steady(t) /\ t \notin unwatched => t \notin missed

\* A completed turn of Claude Code is dropped as too short only if it was, and a
\* short one is dropped if this run of the service has heard of its start.
FilterIsRight ==
    answer.to \in Sessions =>
        /\ answer.verdict = "dropped" => ~answer.long
        /\ ~answer.long /\ answer.heard => answer.verdict = "dropped"

\* What the caller is told is true.  Every target of the route was tried once, in
\* order, whatever came of those before; an error means that one of them failed;
\* and what counts as sent was taken by its platform, if that is one whose answer
\* the adapter reads exactly.
OutcomeIsTrue ==
    answer.verdict \in {"ok", "error"} =>
        LET kind == IF answer.to \in Sessions THEN "claude_code"
                    ELSE IF answer.to \in Emitted THEN "emitted" ELSE "codex_cli"
        IN  /\ [i \in 1 .. Len(answer.done) |-> answer.done[i].target] = scene.route[kind]
            /\ answer.verdict = "error" <=>
                   \E i \in 1 .. Len(answer.done) : answer.done[i].result = "failed"
            /\ \A i \in 1 .. Len(answer.done) :
                   answer.done[i].result = "sent" /\ platform[answer.done[i].target] \in Exact
                       => answer.done[i].taken
=============================================================================
