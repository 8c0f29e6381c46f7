# Agents Router in TLA+

Agents Router runs beside coding agents on one machine. It watches what the agents finish, tells
a person through chat providers, and, for Feishu/Lark, carries replies in a chat thread back to
the agent. This directory holds TLA+ modules of its own logic, TLC configurations that check them
on small instances, and TLAPS proofs for every instance. Source paths below are relative to the
repository's `src/` directory.

Run a check with `tlc -workers 2 -config <run>.cfg <MC module>.tla`, a proof with
`tlapm <Component>Proofs.tla`. `PROJECT.json` lists the runs, the mutants that show each property
can fail, the code each definition stands for, the findings, the hazards and the theorems.

## 1. Inventory

| Part | State it keeps | Operations | Hard because of |
|---|---|---|---|
| Response surface ledger (`response_surface_ledger.rs`) | one JSON file: surfaces, inbound events with a status, continuation turns | claim, release, record a status, list unfinished events, index of reply turns | it is what survives a crash; every other part reads it at another moment |
| Long connection (`providers/feishu_lark_long_connection.rs`) | one websocket at a time, fragments of events, one event in hand | connect, receive, claim, ack, hand on, ping, next app | the platform sends again until it has the ack, cut otherwise; one supervisor for all apps |
| Dispatch and worker (`providers/feishu_lark_continuation.rs`, `agent_controller/mod.rs`) | tasks, in memory | start a worker, busy notice, post texts, record verdicts | partial failure between a text, a record and a lease |
| Scope guard (`execution_scope_guard.rs`) | one lease per agent session, in memory | acquire, drop | must be freed on every path |
| App server client (`agent_controller/codex_app_server.rs`) | the state of one turn | initialize, resume, turn/start, wait, poll | notifications of other turns, an answer that comes after what it announces, lost requests |
| Streamed card (`providers/feishu_lark.rs`) | a card, its sequence number, its text | open, progress, final text, close, plain text instead | an update that is reported failed may arrive later |
| Recovery (`cli/mod.rs`) | its list of unfinished events | one pass at each start | runs beside the connection |
| Reply policy (`response_surface_policy.rs`, `response_surface_exposure.rs`, catalogs) | none | whom to listen to, what to keep, which reply to take | three separate checks of one question |
| Router (`router.rs`, `response_surface_runtime.rs`) | none | match routes, filter, choose a room and a thread, deliver to each target, create a surface, bind the thread | reads the ledgers before an await and acts after it; one target of several fails |
| Delivery safety (`delivery_safety.rs`) | windows in memory, the pause in a file | check, reset | time, thresholds, and two writers of the file |
| Local ingress (`local_ingress.rs`) | a socket, the starts of turns | local events, turn starts, ping, safety reset | callers that hang; starts that are overwritten or lost |
| Provider adapters (`providers/*.rs`) | none | what counts as accepted | platforms that refuse with status 200 |
| Codex Desktop source (`sources/codex_desktop.rs`, `rollout.rs`) | offsets and delivered turns, in memory and in a file; prompts that wait, in memory | baseline, poll, route, checkpoint | files written while they are read; crashes between routing and checkpoint; a prompt and its turn read in different polls |
| Bridge ledger, messages and menu (`bridge_binding_ledger.rs`, `bridge_control.rs`, `provider_inbound.rs`, `providers/feishu_lark_control.rs`) | room bindings, thread bindings, proposals, the owner's chat | understand a text, bind, unbind, ask, ignore, create a room | concurrent flows with a network call between two updates |
| New session command (`providers/feishu_lark_new_session.rs`) | a worker per project, in memory | start a session, bind its thread, send the prompt, post the answer | a command is never claimed, and may be delivered again |
| Config reload (`runtime.rs`, `local_integrations.rs`) | the current snapshot, the last fingerprint | look, settle, load, put hooks in place, replace | the file and the agents' settings have other writers |
| Owner lock (`runtime_owner.rs`, `process.rs`) | a file with a process id | acquire, drop | several system calls, kills, reused ids |
| Service commands (`cli/mod.rs`, `service.rs`, `update.rs`) | definition, metadata, socket file | start, restart, stop, uninstall, update | three managers that restart on their own; a command may be cut anywhere |
| Setup (`cli/setup_flow.rs`, `setup/`, `legacy.rs`, `config.rs`) | the config file | migrate, ask, write, validate | files replaced in steps; values that belong together |

The service is one process. `run_watch` takes the owner lock, loads the guard and the ledgers,
spawns recovery, and runs the config reload, the Desktop watch, the ingress, the long connection
and the open bridge as tasks; the first that ends, ends the process, and a service manager starts
it again. Parts meet in four ways:

* through the ledgers: each operation is one locked update with a save, and nothing is locked
  across two of them or across a network call;
* through snapshots of the config, taken when a task starts or when it begins to wait;
* through calls: source or ingress -> router -> guard -> provider, and long connection ->
  dispatcher -> worker -> app server -> provider;
* through the files of the state directory (lock, socket, config, metadata), which the commands and
  the service share.

What must be true of each part:

* **Replies.** A reply runs at most once; two replies to one session never run together; what the
  thread is told agrees with what the agent received; a claimed reply is finished, given back, or
  reported; a session never stays busy for ever.
* **Answers.** What the client says of a turn is true of that turn; the card only moves forward; a
  reply that counts as sent shows its final text; a turn that is over is answered.
* **Connection.** What is answered is one whole event; an acknowledged event was handed on; every
  app gets its turn; a dead connection is left.
* **Config.** A valid config that stays gets into use, and only with the hooks it asks for.
* **Threads.** A thread is one conversation: what it shows and where its replies go is one session,
  whichever ledger is asked; a session has one thread; a thread is bound once its delivery is over;
  the prompt of a command runs at most once.
* **Project rooms.** One question per project; none after a refusal; none about a bound project; a
  pending question has been asked; an answered one has a binding; every text is understood as it
  is meant.
* **Notifications.** A turn is announced once, by one of the two ways it can be; an older one never;
  one that a reply started never; a caller is told what happened.
* **Delivery safety.** Storms are cut off at the threshold and nothing else is; a pause needs
  enough storms within its window, survives restarts, and ends with a reset.
* **Service.** One owner; its lock and its socket stay until it leaves; a stopped service stays
  down; a service that is said to be ready is the one asked for; one kept alive comes back.
* **Setup.** No settings are lost or mixed up; what is written loads; replies are switched on only
  where they are heard.

## 2. Modules

| Module | Models | Composes / refines |
|---|---|---|
| `ReplyNotices` | the texts of a reply and the verdict that follows each | |
| `InboundOnce` | the promise about one reply: owned, run at most once while owned, settled, never reopened after it ran | abstract specification |
| `ReplyContinuation` | platform, connection, ledger, scope guard, workers, recovery, reload, crash | implements `InboundOnce` (`OnceSpec`) |
| `CodexTurn` | one turn of Codex and the client that follows it | |
| `StreamingReply` | the card of a reply and the calls that change it | |
| `AnswerView` | what a reader sees of a reply | abstract specification |
| `AnswerDelivery` | one reply from the card that opens to the final text | `CodexTurn` + `StreamingReply`, implements `AnswerView` (`ViewSpec`, proved) |
| `ConfigReload` | the config of the running service, the hooks in the agents' settings | |
| `LongConnection` | supervisor, connections, frames, fragments, ack and hand on | with `ConfigReload` |
| `ThreadBinding` | updates, `/new` and replies around surfaces and thread bindings, with reloads and restarts | |
| `ProjectRooms` | proposals and bindings under router, menu, commands and restarts | |
| `InboundMessages` | what an event is understood as, command by command (operators) | |
| `RoomChat` | the messages and buttons that drive the rooms, the remembered chat | `InboundMessages`; implements `ProjectRooms` (proved) |
| `DeliverySafety` | guard, state file, CLI reset, clock, restarts | |
| `ProviderVerdicts` | what each adapter takes for success (operators) | |
| `DesktopWatcher` | rollout files, watch loop, checkpoint, reply-turn index, prompts | |
| `Notifications` | ingress, hooks, router and config around the watch and the guard | `DeliverySafety` + `DesktopWatcher` + `ProviderVerdicts` |
| `RuntimeOwner` | starts, exits and kills around the lock file | |
| `ServiceLifecycle` | commands, managers and processes around the lock and the socket | extends `RuntimeOwner` |
| `RawConfig` | what the loader takes for a config (operators) | |
| `SetupWizard` | the configs the guided setup can make of an earlier one (operators) | on `RawConfig` |
| `ReplyPolicy` | who is listened to, which message is kept, which reply is taken (operators) | on `RawConfig` |
| `GuidedSetup` | setup and first start: migration, questions, update, writing | `ServiceLifecycle` + `SetupWizard` + `ReplyPolicy` |
| `MC...` | the instance of each run for TLC | |
| `...Proofs` | theorems of `ReplyContinuation`, `CodexTurn`, `AnswerDelivery`, `LongConnection` with `ConfigReload`, `ThreadBinding`, `RoomChat` with `ProjectRooms` and `InboundMessages`, `Notifications` with `DeliverySafety` and `DesktopWatcher`, `ServiceLifecycle` with `RuntimeOwner` and `GuidedSetup` | |

### ReplyContinuation

One event is one reply. `status` is the ledger's record and `claims` the order of the records in the ledger's file,
`platform` what the platform still redelivers, `link` the connection's loop, `stage` and `pending` the event's task, `holder` the
leases, `recovery`/`todo`/`noticed` the recovery pass; `turns` and `told` are what the agent and
the thread have received, and `mismatched` the replies whose turn was given up for a poll of another thread. `Receive` is the claim within the connection's loop, `AckSucceeds` and
`AckFails` the ack, `Dispatch` the dispatcher with the scope guard. `WorkerStarts` ...
`RecordVerdict` are the steps of a worker between two awaits; a failure is an action of its own
and does all that the error path does, the release of the claim or of the lease included.
`RecoveryLoad` reads the ledger once, in the order of its file; each record is skipped, or its notice is posted and then
recorded. A posted record that a worker has withdrawn meanwhile ends the pass (`RecoveryAborts`). What stands behind it is
not reported, which is harmless only because of that order: a new claim goes to the end of the file, so that a record
behind one whose task is alive was claimed after the start as well, and has a task of its own. `CrashRestart` takes everything in memory; the manager's restart follows at once.

`Faults` names what a run allows: a lost ack, a failing send (which may have arrived), reloads,
failing ledger writes, a poll that answers for another thread, a downtime over 48 hours.
`ThreadBound` names events claimed through a thread binding of the bridge, for which the ledger
has no surface.

### CodexTurn, StreamingReply, AnswerDelivery

Codex sends one stream of notifications and responses, in which another client's turn in the
same thread appears as well. `state` is the code's `TurnStartState`; `Observe` is the handling of
one notification, `ObserveSnapshot` that of a poll's answer, `Decide` the return. Notifications that
come before the answer to `turn/start` names the turn are dropped, except those that say nothing
of a turn; the poll makes up for them. Of a text only its length and whether it is final are kept.

A card is its text, its sequence number and whether it is streaming. Each call is done, lost,
done and reported failed (`"unheard"`), or done later (`"late"`); a card applies an update only with
a larger number. `AnswerDelivery` runs the two side by side; `AnswerView` is what its reader sees:
a card that opens, grows, concludes and closes, and never changes after that.

### ConfigReload, LongConnection

`file` and `held` are the versions of the config file with their contents; a version is what its
time and length tell apart, so that `PutBack` returns to an earlier one. `Tick`, `Settle`,
`ReadConfig`, `EnsureHook`, `WriteHook`, `Replace` follow the reload task; `EditSettings` is a user
who edits an agent's settings in between. `gaveUp` remembers a failure that may pass, which the code does not
try again until the file changes.

`LongConnection` takes its apps from `current` when a round begins, and serves one after
the other. An event is cut into frames; the platform may begin it anew with another number of
parts as long as it has no ack. `Answer` is the decision (a reply is claimed, a command executed,
a malformed event skipped), `SendAck` and `HandOn` follow, and a break between any two is possible.

### ThreadBinding

One project, the room it is bound to, and the owner's direct chat. A thread is named by the
message that is its root: an update posted into the room, or a `/new`. Three tasks run beside each
other: `update` is the delivery the Desktop watch is waiting for, in the steps of its lookup, post,
first and second ledger; `starter` is the worker of `/new`, which binds before the prompt; `reply` is
the event in hand, looked up in one ledger and then in the other, and run with the config of that
moment. `linkConfig` is the config the connection's loop took before it began to wait for the
event, which is the one `Migrated` fills an old binding's route from. A route's hash is the route
itself. `loose` remembers the sessions for which a step between a post and its binding was lost.

### ProjectRooms, InboundMessages, RoomChat

A flow is an update of an unbound project at the router (`SignalLooksUp`, `SignalAsks`) or the menu
task behind `/bind` (`ManualBind`); each goes from the pending record over the send to the
record of its result. A creator is a click on "create a room". Every update of the ledger may fail: the flow or the click
ends there (`FlowNotSaved`, `CreateFails`), but for the update that notes a failed send, whose error the router discards and `/bind`
returns (`PromptFails`). `lost` is the history of the questions that nobody will ask again.

`InboundMessages` has no state. A text is a sequence of up to `MaxWords` words, of which only what the rules tell apart
is kept: mentions chosen from the menu or typed, commands, folders, paths without a folder or with `..`, other words.
`Understood` is the order of the code's questions about an event, `Executed` what the bridge does with a
command, `OnEvent` both. `Verdicts` evaluates every event with every set of connected folders
once. `RoomChat` lets these decisions drive `ProjectRooms`, and adds where a question goes to: the operator of the
config, or the direct chat remembered last.

### DeliverySafety, ProviderVerdicts, DesktopWatcher, Notifications

`CheckAllowed`, `CheckStorm` and `CheckPaused` are the three ways `check_at_inner` ends. Windows are
sequences of times, pruned from the front. The file holds the pause. `CliProbe` and what follows
it are the reset command, which asks the service if it answers and writes the file itself
if not.

`lines` and `half` are the rollout files, counted in whole lines. One poll is `ReadIndex`, `ReadFiles`, a
`RouteNext` per signal, and `Commit`. Codex is free: `BeginLine` and `FinishLine` complete a turn in two
parts at any moment, and files are rewritten, leave and come back. Histories say what the
environment has done, so that properties name their exceptions: `quick` are reply turns that ended
before the index at work knew them, `disturbed` the files that were rewritten or gone, `forgotten`
the delivered turns whose key was evicted or lost in a crash. `Ask` writes a prompt; while the config
asks for prompts (`prompts`), the one read last waits in `pending`, by file, for the first turn that ends there
(`Items`, `UsedUp`, `Draft`). `heard` and `unheard` are the histories of what was read with and without it.

`Notifications` puts both under one router: `job` is the delivery of each of the two callers, the
ingress and the watch, one target after the other, through the guard (`Offer`) and the adapter (`Send`). The ingress
serves one connection at a time; hooks wait in `queue`. A Codex Desktop session may run the Codex CLI's
Stop hook as well; `Shadowed` is the rule by which the CLI, with the file, and the ingress, with the config in use, drop
that hook's event. A `scene` says what happens in a behaviour, so that one run holds several small worlds.

### RuntimeOwner, ServiceLifecycle

Each system call of `acquire_with_manager` and of the lock's `Drop` is an action. `Killed` is an end
without destructor: the service installs no handler for the service manager's signal,
so that a stale lock is what a restart normally finds.

`ServiceLifecycle` adds a manager (`manager`, `loaded`, `job`), the files it and the commands share (`file`, `metadata`,
`socket`) and one command at a time (`cli`), each of whose calls is an action of its own: it succeeds,
fails (`Aborts`), or is the last one the user lets it do. launchd and systemd restart what ends; the
scheduler does not. The one that owns the lock binds the socket (`Bind`) and removes it when it leaves.

### RawConfig, SetupWizard, ReplyPolicy, GuidedSetup

A provider is a function from the fields that are set to their values. Of a value only its origin
matters: what the earlier config had, what is new, or a name that says which secret it was
issued with. `SetupWizard` is the set of configs the prompts can end with; `RawConfig` is the
loader's validation, and `ReplyPolicy` the three checks about replies. `GuidedSetup` runs `setup` and a first
`start` through `cli`: bring over the predecessor's config (written in place: `Truncates`, `Carries`, `Drops`), remove its
service, which starts it again while it is loaded (`LegacyRuns`, `RemovesService`), end its process, clear its files, ask, update (`Updates`, `Installs`), write by rename (`Writes`), load again, and go on
as a command of `ServiceLifecycle`. `taken` is the config and the version each process runs.

## 3. Runs

Passing runs:

| Run | Question | Instance |
|---|---|---|
| `reply_reloads` | one turn at a time in a session, the refinement of `InboundOnce`, and that a claimed reply with a surface is finished or given back, as long as the config keeps its provider | 2 replies to 1 session, both with surfaces, 2 crashes, reloads, mismatching polls |
| `reply_losses` | one turn per reply, true notices, verdicts after texts, every lease freed | 2 replies, one of them without a surface, 1 crash, lost acks, failing sends, ledger errors, mismatching polls, a long downtime |
| `answers` | what the client says of a turn is true; a reply that counts as sent shows its final text; the card only moves forward (`AnswerView`); a turn that is over is answered | 1 foreign turn, 2 pieces of text, 1 late update, every failure of a call |
| `link` | one whole event is answered, an acknowledged one was handed on, hooks precede the config that needs them, a valid config that stays gets into use, apps take turns, a dead connection is left | 2 apps, 1 hook, 3 configs, 3 events in up to 3 parts, four budgets: the config alone, the connection alone (twice), a little of both |
| `threads` | a thread is one conversation, a session has one connected thread, a command runs once | a Desktop session, 2 sessions of `/new`, 3 threads, 3 configs, 2 updates, 2 commands, a reply, a reload, a crash, failing saves and posts |
| `rooms` | one question per project unless a send failed, and one is lost only by a crash, a reload or a failed send that could not be noted; no refusal is passed over unless a send failed; an answer has a room; every text is understood | 1 project, a folder beside it, 2 flows, 2 clicks, failing sends and saves, a reload, a crash; all texts of up to 4 words over 11 words, in 2 chats, outside and inside threads |
| `notify` | each turn is announced once and with its own prompt, no backlog, no echo, nobody drops what nobody else announces; short turns are filtered; callers are told the truth; storms are cut off, only storms are, and a pause and its end last; under a fair loop no live turn is missed | ten scenes with up to 3 turns in 2 files, 2 sessions, 2 messages, 2 targets, 11 platforms with every answer, 1 crash, 1 disturbance, 2 changes of the config, 2 prompts with 2 changes of their detail |
| `owner_serial` | an owner keeps its lock and no start is refused without a process behind the lock, when starts do not overlap | 4 starts, 2 process ids, 3 kills, foreign processes, failing writes |
| `service` | a stopped service stays down; ready is the process, config and version asked for; the owner's socket is at its path; what is kept alive comes back; settings are neither lost nor mixed, and replies are on where they are heard | 3 managers, 3 processes, 2 definitions; up to 3 commands with deaths, failures, cuts, torn locks, a second runtime, foreign processes; setup with a predecessor's config, an update, a failure or a death; an `uninstall` whose error was ignored and the setup after it; setup with every provider and agent after nine earlier configs |

Violation runs show where the code disagrees with what the repository says of it; each has an entry
under "findings" with the line it contradicts:

| Run | What the code does |
|---|---|
| `reply_recovery_race` | recovery reports as lost a reply the new connection has just claimed, and the reply runs |
| `owner_race` | two overlapping starts that meet a stale lock both become owner |
| `rooms_declined` | the late failure of a menu that did arrive undoes "ignore", and the owner is asked again |

**Properties with exceptions.** Most properties name, in their comment, what the code does not prevent:
`AnnouncedOnce` a change of the config about a turn's end, a session file that is away, and a reply
turn that ends before the index knows it; `PromptIsItsOwn` a prompt left over by an interrupted turn or while no prompts were asked for; `ShadowedIsWatched` a turn that ends before the watch has begun; `RefusalHolds`
and `QuestionIsAsked` a send that was reported failed, `QuestionIsAsked` also a crash or a reload between a record and its menu and a
failed send whose note was not saved; `FailureNoticeIsTrue` a reply whose own turn was given up for a poll of another thread;
`MessagesAreUnderstood` a path alone after `/new`; `StopIsFinal` a systemd
service that waits for its restart; `ReadyIsTrue` a command cut short before, a predecessor whose manager would not end
it, and one on Windows whose service is gone; `SettingsAreKept` a
migration cut inside its write. Histories record that the exception happened, so that without
it the property is checked in full. Section 6 lists what lies behind them.

**Bounds.** Two replies to one session are enough for every pairwise race, and a third meets the
same busy session the second did. What events share besides is the ledger's file and the recovery pass over it: two records with
surfaces are one that ends the pass and one behind it, and further ones stand behind it for the same reason. One crash per run puts a restart at every step, and
its recovery meets what it left; a second one interrupts that recovery. One foreign turn is enough to be mistaken for ours, two pieces of text give
an older one that can come late, and a queue of 1 still lets every notification arrive before or after each step of the client. An event
of three parts has a first, a middle and a last one; two events share the connection, and the second app
waits behind the first. Two versions of the config after the first one are a change and a change back. A message may be
sent twice at the threshold 3, and two storms pause; windows of 1 and 2 ticks under `MaxTime` 3 give times at, within and beyond each edge.
Three turns in two files put a turn before, at and after the offset, and a capacity of 1 evicts at every
second turn. Four starts with two process ids give an owner, a stale lock, a reused id and one more; in `service` three processes are
the managed one, its successor and one in a terminal. Two flows and two clicks cover a race of two
updates or answers of one project. Four words hold two mentions, a command and its argument, or a command with a path and a
prompt. In `threads` two updates are needed for a second thread, two deliveries of a command for a repetition, three threads for
an update, a command and one more, and a reload for a route that is not the recorded one. Every
bound is a constant in a guard (`Max...`, `Budgets`, `Scenes`, `Scenarios`, `Spoken`). `threads` uses symmetry in the
sessions of `/new` and in the threads; it checks invariants only. Runs say `CHECK_DEADLOCK FALSE` because
the service may be idle for ever once the platform, the agent and the bounds are exhausted.

**Fairness.** Nothing is assumed of users, of failures or of crashes. The program's tasks are weakly fair: the runtime polls
every spawned task until it returns, and its requests have time limits. In the reply runs that holds for the connection's steps, recovery and each task,
and a turn of the agent ends some day. `answers` assumes that a request is answered or the stream ends, and that the client
reads, polls when its timer is due, and gets its calls of the platform back; not that Codex ends a turn. `link` assumes the supervisor's steps,
the answering of an event, the ping, the reload task and its hooks; an attempt to connect ends. `notify` assumes the loop of the watch. `service`
assumes that an ended process is noticed, each runtime's own steps, and, strongly, that the manager starts what it keeps alive with an
id other than the dead owner's some day: a lock whose id was given to the new process itself is not stale.

## 4. Proofs

All theorems hold for every value of the constants that satisfies the module's named assumptions.

* **ReplyContinuationProofs.** `TypeCorrect` gives the types. `IInv` is inductive; alone, "at
  most one turn" is not, because nothing in it says that an event without a record was never
  worked on. Its parts say so: `LinkIsFresh` (an event the connection claimed is untouched),
  `UnclaimedIsUntouched`, `StageFitsTurns` (each stage has its number of turns), `ToldFitsTurns`,
  `RecordFollowsText`, `RunnerHoldsLease` with `LeaseHasTask`, and the properties themselves. One lemma per conjunct goes
  through the actions that can disturb it. From `Invariance` follow `TurnAtMostOnce`,
  `SessionExclusion`, `LeasesAreLive` and `VerdictFollowsText`; so does `FailureNoticesAreTrue`, with mismatching polls and every other fault: a reply whose notice is
  false is one whose turn was given up for such a poll (`ToldFitsTurns`), and no other. That the ledger and what recovery has
  read of it stay lists (`ListsOK`) takes lemmas of its own (`WithdrawType`, `LoadType`, `StepKeepsLists`).
  `ImplementsOnce` shows that every step is a step of `InboundOnce` or a stutter.
* **CodexTurnProofs.** `VerdictCorrect` assumes that `turn/start` is answered with the id of its turn, and
  nothing else: any foreign turns, any stream, every other fault. Without the assumption a client may take a foreign turn for its
  own. The hard half is "ended without an answer": `AnswerIsSomewhere` follows the answer of
  every turn, which is unread, taken, missed, or of a turn whose id the client will not
  take (`Passed`), and `MessagesInOrder` puts it before the turn's end, so that a client which reads the end of its
  turn and holds no answer has none to come (`EndIsLast`). `MessagesAreSo` says that what is in the stream stays true while it is unread.
* **AnswerDeliveryProofs.** `SentIsShown` and `CardIsView` hold with every fault. The invariant looks at the updates under way that
  the card would still take (`Live`): in the order of their numbers each may follow what is shown and each
  other (`InOrder`, `After`), and all that is final among them is the text the reply ends with, because the client can
  decide on nothing else once it has shown a result (`Told`, `ClientStages`). Every step is then a step of `AnswerView` or a stutter.
* **LongConnectionProofs.** `ConfigInv` follows a config from the file to its use: a hook a loaded config asks for is in
  the settings, in the queue of hooks still to be put there, or edited away since (`LoadedInPlace`), which gives `HooksInPlace`. `LinkInv` says that
  the buffers hold parts of one beginning of an event each (`BuffersFit`), so that what is in hand is whole (`HandFits`); what was
  decided was handed on, is in hand, or was cut off (`DecidedIsHandled`); and what has its ack was decided. From these follows
  `AckedIsHandled`, for any number of parts and events.
* **RoomChatProofs.** Of the rooms: `RoomsAnswer`, because no operation deletes a binding's record and a proposal is
  answered only in the update that binds; `RefusalStands`, because a refused project's proposal changes only by a bind, or by a send
  that was reported failed; `OwnerIsAsked`, because the record that keeps others silent belongs to a flow that is at work on it, was shown, or was
  lost in one of the three ways that the property names: the invariant relates each flow's step to the record it made. `ChatIsRooms`: every step of messages, buttons and
  addresses is a step of `ProjectRooms`, or none; so `ChatKeepsRooms` has these theorems for the chat as well. `MessagesUnderstood` is
  about texts of any length: the text a command is given is an end of the words of the message (`TextIsAnEnd`, from the least index that is no
  mention), and each of the code's questions about it is answered for such ends; of a path alone it says only where the session goes.
* **NotificationsProofs.** The guard first. The windows it keeps are the ends of the log that the window still reaches (`GuardInv`: `Fits`,
  `IsWindow`), so that their lengths are the counts the properties speak of: `StormsEnd`. `SuppressedInv` ties each record of a storm to
  one in the log: `PauseHasReasons`. `PauseLasts`: an owed pause is in the file and, while the service
  runs, in the guard; a reset that holds is in both. Then `RouterObeysTheGuard`: every step of the whole service is a step of the
  guard's specification or leaves it alone (`StepsOfGuard`), which needs that a message is offered only for a known key (`Shapes`); the three theorems hold for the
  service by it (`GuardHoldsForAll`). `CallersHearTheTruth`: the connection in service is the first of the queue, and what is done and what is left of
  its delivery make up its route (`ServesFirst`, `OnRoute`). `ShortTurnsAreDropped`: a session that waits has one connection in the queue, with
  the time of its turn, and the ingress knows the start of that turn, or none (`TimesFit`).
  Then the watch and the Stop hooks (`AnnounceInv`). Of the watch (`WatchInv`): the completion of a turn is one whole line of one file, or none
  (`DoneOnce`); what the loop holds between two awaits fits what it read (`LoopFits`); in an undisturbed file the offset is behind
  every turn that was announced or passed over (`PastFits`); a turn is announced at most once, and is then in the state the watch has
  reached, unless its key was evicted or lost in a crash (`Remembers`); and a reply's turn that ended in time is known to the index and never announced (`EchoFits`).
  The signals of a poll are opened line by line. From these follows `TurnsAreAnnouncedOnce`. Of the hooks: the call of a turn waits at
  most once, and its hook is then `"called"` (`CallsFit`); a hook that was not dropped met a config without the Desktop source, so that
  the watch has missed the turn or will, and one that was dropped met the source (`HookFits`). This gives `DroppedHooksAreWatched`,
  and that a turn is not announced in both ways.
  Last the prompts. In an undisturbed file a turn's completion, whole or half written, is the line after its prompt, and neither is
  there twice (`AskedOnce`, with `DoneOnce`). At the place that the loop has reached in such a file (`PromptsFit`), the prompt that waits is that of the line
  before, if the watch has read it, and otherwise of a turn that has not ended there, or ended while no prompts were asked for
  (`WaitsIn`); all that were heard were asked before that place (`HeardIn`), and all that were delivered ended before it
  (`DeliveredIn`). The last is needed because a completion of a delivered turn would be passed over and leave its prompt behind. One
  poll reads several lines of several files in one action: `PollReads` says that its k-th line is the next of its file, `LineFits` that
  one line leads from what is so at a place to the same at the next, and `PollFits` is the induction over the places. A
  prompt which other lines follow without its completion is never completed (`LeftOverStays`), which is all that another turn may
  be announced with: `PromptsAreTheirOwn`, however the lines are spread over the polls and wherever the watch dies in between.
* **ServiceLifecycleProofs.** Of the owner lock: `SingleOwner` and `LockIsKept` assume `Overlap = FALSE`, which `owner_race`
  shows to be necessary. The invariant says what a start knows: while it probes, `seen` is the id in the lock that
  is there; while it removes, that lock's owner is gone (`ProbedIsTheLock`, `RemovedIsStale`). `RefusalHasAReason` follows from the same invariant.
  Of the commands: `CommandFits` says which commands and managers are at which place (`PlaceFits`) and that what a command has ended is
  down until it starts it again (`EndedIsDown`); without its `FileFits` (no service without a file) it is not inductive. It gives
  `StopLasts`. `SocketStays` needs only that those who listen have the socket, overlapping starts or not. `ReadySaysTheTruth` rests on `SetupFits`: for each manager, what it has loaded, what it
  runs and what the command is about to change (`LaunchdFits`, `SystemdFits`, `TasksFit`), what each process took when it started
  (`TakenFits`), and what is left of the predecessor (`LegacyFits`). `NoSettingsAreLost` is about every platform, every choice at its
  prompts and every earlier config: which fields each flow sets at least and at most (`Fields`), that those of WeChat's link and of a
  registered app are set as a whole (`WechatPrompts`, `FeishuLarkPrompts`), so that the result loads (`ProviderLoads`, `SetupKeepsSettings`); and, of the
  migration, that there is a config before the predecessor's is removed, wherever a command is cut (`SettingsFit`).
* **ThreadBindingProofs.** `OneConversation`, `OneThread`, `Connected` and `CommandRunsOnce` are proved
  for any sessions, threads, configs, faults and bounds, without an assumption about the environment. None of
  them is inductive. The invariant adds what each task knows while it waits (`TasksFit`): the thread an
  update was looked up for is still bound to its session, because bindings are never
  removed or given to another. `LedgersAgree` says that both ledgers agree with all that was shown and run in a
  thread; that a new session cannot be the one a thread already shows follows from
  `FreshIsUnknown`, and that a `/new` whose thread is bound is over follows from `CommandRunsBound`. `HomeIsUnique`
  is one bound thread per session in the room, and that an update which opens a thread finds none
  until it is done, because only one update is delivered at a time and `/new` binds sessions no update is about.
  One lemma per conjunct, with one step per action.

Facts about sequences of any length (the guard's windows, the folds over the lines of a poll, the words of a message, the hooks
of a config) are proved by the least index at which they fail (`LeastNatural`, `UpTo`), which the well-founded order of the naturals gives
without a theorem that takes an operator; the folds of the community modules are opened the same way (`FoldExists`, `FoldSteps`,
`FlatSteps`).

Only model-checked: liveness and fairness (TLAPS has no rule for `ENABLED` here): `ClaimedEventFinishes`, `LeaseIsReleased`, `ReplyEnds`, `ValidConfigIsUsed`,
`AppsTakeTurns`, `QuietLinkIsLeft`, `ServiceComesBack`, `LiveIsRouted`. Every other property of a passing run has a theorem.

**Assumptions.** `ServiceAssumption`: the manager is launchd, systemd or the scheduler, and no definition of the service is the
absent one. `LegacyAssumption`: what a scenario can find of the predecessor. `SettingsAssumption`: the setup begins
with no config or with one that loads and whose secrets belong together (`Coherent`), of the predecessor's this is asked only if it is valid, and the prompts offer the
platforms there are; an earlier config that mixes accounts, or has replies on where nobody hears them, is its author's, and the setup does not mend it. `NotificationsAssumption`: a turn's message is its own, and no
other event has it; the messages are finitely many. Each holds in the instance of the run that extends its module, where TLC evaluates it.
What the properties of the commands except is a field of the command itself: `ignored` when an error of the manager was ignored (`SetupTakesEffect` and
`Removable`: the predecessor's service that escaped a bootout may be found again by the next command under launchd only).

## 5. Abstractions and limits

* A text, a card, a path, a message is a name. Two texts differ only in what they tell the reader.
* A ledger update with its save is one step, and a file write is atomic, except where the code writes in place and the
  modules have a torn file (the lock, the migrated config). The bridge ledger and the watch state are written in place as well; a torn
  write of theirs is listed as a hazard.
* Clocks do not step back.
* A text posted is taken to arrive, although all texts of an event share one idempotency key.
* A crash and the restart after it are one step in `ReplyContinuation`, `ProjectRooms` and `ThreadBinding`; they are apart
  where the time in between matters.
* In `ThreadBinding` one update is delivered at a time: the ingress refuses events of Codex Desktop, so that the
  one watch task is the only source of updates with a session. One provider and one project are modelled; the ledgers'
  keys keep others apart.
* `link` keeps the config file still while the service starts (`EditsAtStart`), because of the gap in section 6.
* The setup is that of one agent with one provider, which is all the guided setup makes; hand-written configs with
  several routes and providers are in `ConfigReload` and `Notifications` only as what they ask for.
* External behaviour (platform, agent, operating system, service manager, other programs) is modelled as freely as the code must
  expect, and marked external in the map.

**Not modelled**, and why: the layout of messages and cards and the translation of hook payloads (no state, and no
property depends on a text); the open bridge (a redirect); the well-formedness of single values; tokens and requests of the
adapters beyond their verdict; Slack's Socket Mode (its normaliser has no connection in the program); where old binaries and logs of the
predecessor are looked for; packaging scripts.

## 6. What the code does

The models reach more than the findings, which a reader should know of and which no text of the repository excludes.

Replies and answers:

* A status poll that answers for another thread is taken for an error before the submit
  (`agent_controller/codex_app_server.rs:831` and `:1044`): the thread is told that the reply was not forwarded after it was. The run
  has the fault, and `FailureNoticeIsTrue` excepts this history by name; it and its theorem say that there is no other way.
* A crash after `turn/start` and before its record reads as "not forwarded" at the next start.
* Recovery passes over replies claimed through a thread binding; they stay claimed.
* When the ack of a claimed reply cannot be sent, the reply is not handed on, and its redelivery is a
  duplicate: it is lost until the next start reports it (`providers/feishu_lark_long_connection.rs:745`).
* A reload that changes the route strands the threads recorded under the old one: they receive updates, and
  replies in them are refused.

Messages and rooms:

* `/new /path` without a prompt is not rejected: the branch at `provider_inbound.rs:1121` cannot be reached, because the rest was trimmed.
  In a room with one project a session starts with the path as its prompt, also if it is the path of another project, where the text of the
  unreachable branch would ask for a path and a prompt. `PathAlone` is this exception of `FolderIsMeant`. A room's only folder is not checked to exist then.
* A bare mention in a thread is forwarded to the agent as the text of the mention. A folder whose path has a
  space can be bound, but not named in `/new`.
* A message that names itself as its root is no reply, yet the commands of a room refuse it as one.
* The direct chat last used by anyone gets the router's questions. Without one and without an operator a question
  fails, and is asked again at the next update.
* A crash between the pending record and the menu leaves a question that nobody was asked, and so does a failed send when the
  update that should note it fails: the router discards that error (`router.rs:606`), `/bind` ends with it
  (`providers/feishu_lark_control.rs:222`). All later updates are silent then, until the owner says `/bind`. A room bound between the router's lookup and its
  proposal does not stop the question.

Notifications:

* A reply turn that ends before the index knows it is announced as well, and so are reply turns in sessions of the Codex CLI, by their Stop hook.
* A turn that ends between the change of the config that adds the Desktop source and the watch's baseline is
  dropped by the hook's rule and not seen by the watch. A poll that began under the old config may announce a turn its hook announced as well.
* A prompt waits for the next turn that ends in its file, without a name. Left by an interrupted turn, it is shown with a later turn
  that has none of its own. When prompts are switched off while a turn runs and on again after it, its prompt is shown
  with the next turn, whose own was passed over. (`docs/setup.md:252`: without a prompt from the source there is no Prompt section.)
* A hook's client that hangs blocks the ingress, which reads it to its end without a time limit; a hook that failed is not
  tried again. A session's start is overwritten by the next one, also after an interrupted turn, and lost with the service.
* WhatsApp's adapter takes any object for success, and webhook, ntfy and Teams any body; WeChat's takes `{"ret":-2}` without an `errcode`.
* The test notification prints "Test notification sent." when a filter kept it from every target (`cli/mod.rs:1557`).
* The reset command, next to a service that is starting or too slow, changes only the file, and the guard goes on pausing.

Service:

* `stop` says "already stopped" of a systemd service that waits for its automatic restart, and it comes back
  (`cli/mod.rs:1689`); a `start` may be overtaken by that restart with the old definition.
* A systemd or scheduler update that was cut leaves the old process to be taken for the new one; `restart` without `--config` uses old metadata
  when the command before was cut ahead of saving them.
* There is no `ps` on Windows, so that a stale lock blocks later starts there (`process.rs:38`; `README.md:155` offers the service on Windows).
* A watch in a terminal answers the ping that makes `start` report ready; `restart` and `stop` remove its socket, and
  `uninstall` its lock. A runtime drops its lock before its socket.
* A lock that was created and not written, by a crash in between, blocks every later start.
* A config changed while the service starts is missed until the next change (`runtime.rs:150`).

Setup:

* The migration writes in place (`legacy.rs:140`): one that is cut inside it leaves a config that every later setup
  refuses, while it removes the predecessor's. `setup --config` with an existing file removes the default predecessor's config
  without carrying it over. A program that has got the id in the predecessor's pid file blocks the setup until it ends.
* Removing the predecessor's service ignores the errors of launchd's bootout and of the scheduler's /End, and then removes its file or
  task: a predecessor that runs on announces beside the new service. On Windows the predecessor's pid file is not looked at.
* The Windows update with npm stops the service first, and a failed install leaves it down.
* ntfy's setup goes back to the public server and keeps the topic; email keeps the port with another security; WeChat's link is kept
  when only the gateway changed; `[log]` is reset, although the text of the prompt names four sections. The registration of
  an app has no time limit.

## 7. Plan

Done: the reply path with the turn and its card, the connection and the config, threads, rooms and messages, notifications with the guard
and the watch, the owner lock, the service and the setup. What is left, in this order:

1. A torn bridge ledger and a torn watch state, with the starts that fail after them.
2. Several projects and rooms in one delivery, and providers beside each other in `ThreadBinding`.
3. Configs with several routes: validation, exposure and the hash together, in `RawConfig` and `ReplyPolicy`.
4. One thread per session as a specification that `ThreadBinding` implements, and the turn of `ReplyContinuation` implemented by `CodexTurn`.
