---------------------------- MODULE ThreadBinding ----------------------------
(***************************************************************************)
(* One agent session, one chat thread.  An update of a session is posted   *)
(* into the thread its session is bound to, or opens a new one in the      *)
(* project's room; what it opened is then recorded in two ledgers, one     *)
(* after the other: a response surface, and a binding of thread and        *)
(* session.  "/new" starts a session of its own for the thread of the      *)
(* command.  A reply in a thread goes to the session the ledgers name,     *)
(* surface first, if the route it was recorded under is still there.       *)
(*                                                                         *)
(* The Desktop watch delivers one update at a time, the connection takes   *)
(* one event at a time, and the scope guard admits one "/new" per project; *)
(* the three run beside each other and beside config reloads.  The module  *)
(* is about one project, the room it is bound to, and the owner's direct   *)
(* chat, where "/new" works as well.                                       *)
(***************************************************************************)
EXTENDS Naturals

CONSTANTS
    Sessions,       \* sessions of the agent
    Desktop,        \* those a person started in Codex Desktop
    Threads,        \* messages that can be the root of a thread
    Configs,        \* what a config says of the route from Codex to the chat
    Allowing,       \* those that allow replies for the project
    Filtered,       \* those with a duration or a path filter
    MaxUpdates,     \* bound on updates
    MaxReplies,     \* bound on replies
    MaxCommands,    \* bound on deliveries of "/new", the repeated ones included
    MaxReloads,     \* bound on config reloads
    MaxCrashes,     \* bound on restarts of the service
    Faults,         \* "send_unknown": a post arrives and is reported failed;
                    \* "ledger_io": a ledger update cannot be saved
    None

ASSUME ThreadBindingAssumption ==
    /\ Desktop \subseteq Sessions
    /\ Allowing \subseteq Configs /\ Filtered \subseteq Configs
    /\ None \notin Sessions \cup Threads \cup Configs
    /\ {MaxUpdates, MaxReplies, MaxCommands, MaxReloads, MaxCrashes} \subseteq Nat

VARIABLES
    config,         \* the current config's route
    surface,        \* surface[t]: the response surface of thread t
    binding,        \* binding[t]: the session bound to t
    place,          \* place[t]: where the message is that is the root of t
    commands,       \* threads whose root is a "/new"
    update,         \* the update the watch delivers
    starter,        \* the worker of "/new"
    reply,          \* the reply in hand, from its arrival to its turn
    linkConfig,     \* the config the connection's loop holds
    active,         \* sessions that have had a turn
    started,        \* sessions created by "/new"
    shows,          \* history: shows[t], sessions whose updates or answers t shows
    ran,            \* history: ran[t], sessions that ran a reply from t
    runs,           \* history: runs[t], turns run for the "/new" in t
    loose,          \* history: sessions with an update in a thread that was not recorded
    count           \* how often each bounded thing has happened

records == <<surface, binding>>
chat == <<place, commands>>
agent == <<active, started, runs>>
history == <<shows, ran, loose>>
vars == <<config, records, chat, update, starter, reply, linkConfig, agent, history, count>>

Record == [session : Sessions, route : Configs \cup {None}]
Task(steps) == [at : steps, session : Sessions \cup {None}, thread : Threads \cup {None},
                route : Configs \cup {None}]
Idle == [at |-> "idle", session |-> None, thread |-> None, route |-> None]
NoRecord == [session |-> None, route |-> None]

Unused == {t \in Threads : place[t] = "unused"}
Bound(t) == binding[t] # NoRecord

\* A ledger update either is saved as a whole or fails and changes nothing.
Saves == {TRUE} \cup (IF "ledger_io" \in Faults THEN {FALSE} ELSE {})

Counted(what, bound) == count[what] < bound /\ count' = [count EXCEPT ![what] = @ + 1]

Init ==
    /\ config \in Configs /\ linkConfig = config
    /\ surface = [t \in Threads |-> NoRecord]
    /\ binding = [t \in Threads |-> NoRecord]
    /\ place = [t \in Threads |-> "unused"]
    /\ commands = {}
    /\ update = Idle /\ starter = Idle /\ reply = Idle
    /\ active = Desktop /\ started = {}
    /\ shows = [t \in Threads |-> {}]
    /\ ran = [t \in Threads |-> {}]
    /\ runs = [t \in Threads |-> 0]
    /\ loose = {}
    /\ count = [what \in {"updates", "replies", "commands", "reloads", "crashes"} |-> 0]

----------------------------------------------------------------------------
(* The ledgers' operations. *)

\* A thread is bound once.  The same session may bind it again, under the same
\* route or under the first one that is known.
CanBind(t, s, r) ==
    \/ ~Bound(t)
    \/ binding[t].session = s /\ binding[t].route \in {r, None}

BindThread(t, s, r) == binding' = [binding EXCEPT ![t] = [session |-> s, route |-> r]]

\* An open surface is reused for the same session and route only.  Nothing
\* closes a surface.
CanCreate(t, s, r) == surface[t] \in {NoRecord, [session |-> s, route |-> r]}

----------------------------------------------------------------------------
(* An update of a session goes through the router. *)

\* Mutant of UpdateLooksUp: any bound thread of the room will do.
UpdateLooksUpRoom(s) ==
    /\ update = Idle /\ s \in active
    /\ Counted("updates", MaxUpdates)
    /\ LET homes == {t \in Threads : place[t] = "room" /\ Bound(t)} IN
       \E t \in IF homes = {} THEN {None} ELSE homes :
            update' = [at |-> "sending", session |-> s, thread |-> t, route |-> config]
    /\ UNCHANGED <<config, records, chat, starter, reply, linkConfig, agent, history>>

\* Mutant of UpdateLooksUp: only threads bound under the current route are found.
UpdateLooksUpRoute(s) ==
    /\ update = Idle /\ s \in active
    /\ Counted("updates", MaxUpdates)
    /\ LET homes == {t \in Threads : /\ place[t] = "room"
                                     /\ binding[t] = [session |-> s, route |-> config]} IN
       \E t \in IF homes = {} THEN {None} ELSE homes :
            update' = [at |-> "sending", session |-> s, thread |-> t, route |-> config]
    /\ UNCHANGED <<config, records, chat, starter, reply, linkConfig, agent, history>>

\* The target: the thread the session is bound to in the room, whatever route
\* it was bound under, or the room itself.
UpdateLooksUp(s) ==
    /\ update = Idle /\ s \in active
    /\ Counted("updates", MaxUpdates)
    /\ LET homes == {t \in Threads : place[t] = "room" /\ binding[t].session = s} IN
       \E t \in IF homes = {} THEN {None} ELSE homes :
            update' = [at |-> "sending", session |-> s, thread |-> t, route |-> config]
    /\ UNCHANGED <<config, records, chat, starter, reply, linkConfig, agent, history>>

\* The update appears in its thread; a post into the room is the root of a new one.
Appears(t) ==
    /\ update.at = "sending"
    /\ IF update.thread = None THEN t \in Unused ELSE t = update.thread
    /\ place' = [place EXCEPT ![t] = "room"]
    /\ shows' = [shows EXCEPT ![t] = @ \cup {update.session}]

UpdateSent(t) ==
    /\ Appears(t)
    /\ update' = [update EXCEPT !.at = "sent", !.thread = t]
    /\ UNCHANGED <<config, records, commands, starter, reply, linkConfig, agent, ran, loose,
                   count>>

\* What is lost after an update appeared in a thread makes its session loose,
\* unless the thread was bound before.
Loses(t) == loose' = IF Bound(t) THEN loose ELSE loose \cup {update.session}

\* A post that is reported failed leaves no record, even if it arrived.
UpdateSendFails(t) ==
    /\ "send_unknown" \in Faults
    /\ Appears(t)
    /\ Loses(t)
    /\ update' = Idle
    /\ UNCHANGED <<config, records, commands, starter, reply, linkConfig, agent, ran, count>>

UpdateNotSent ==
    /\ update.at = "sending"
    /\ update' = Idle
    /\ UNCHANGED <<config, records, chat, starter, reply, linkConfig, agent, history, count>>

\* The surface is created under the route the update was matched with, if that
\* route allows replies.
UpdateSurfaces(saved) ==
    /\ update.at = "sent"
    /\ LET t == update.thread
           new == [session |-> update.session, route |-> update.route]
           allowed == saved /\ update.route \in Allowing IN
       IF allowed /\ CanCreate(t, new.session, new.route)
       THEN /\ surface' = [surface EXCEPT ![t] = new]
            /\ update' = [update EXCEPT !.at = "surfaced"]
            /\ UNCHANGED loose
       ELSE /\ update' = Idle
            /\ IF allowed THEN UNCHANGED loose ELSE Loses(t)
            /\ UNCHANGED surface
    /\ UNCHANGED <<config, binding, chat, starter, reply, linkConfig, agent, shows, ran, count>>

\* Mutant of UpdateBinds: nothing is bound if the config has changed meanwhile.
UpdateBindsCurrent(saved) ==
    /\ update.at = "surfaced"
    /\ LET t == update.thread IN
       /\ IF saved /\ CanBind(t, update.session, update.route) /\ update.route = config
          THEN BindThread(t, update.session, update.route)
          ELSE UNCHANGED binding
       /\ IF saved THEN UNCHANGED loose ELSE Loses(t)
    /\ update' = Idle
    /\ UNCHANGED <<config, surface, chat, starter, reply, linkConfig, agent, shows, ran, count>>

\* Then the thread is bound to the session, in the other ledger.
UpdateBinds(saved) ==
    /\ update.at = "surfaced"
    /\ LET t == update.thread IN
       /\ IF saved /\ CanBind(t, update.session, update.route)
          THEN BindThread(t, update.session, update.route)
          ELSE UNCHANGED binding
       /\ IF saved THEN UNCHANGED loose ELSE Loses(t)
    /\ update' = Idle
    /\ UNCHANGED <<config, surface, chat, starter, reply, linkConfig, agent, shows, ran, count>>

----------------------------------------------------------------------------
(* "/new" in the room or in the direct chat. *)

\* The command's message arrives, for the first time or again: nothing claims a
\* command.  If another "/new" of the project is at work, this one is refused.
NewDispatched(t, where) ==
    /\ place[t] = "unused" \/ (place[t] = where /\ t \in commands)
    /\ reply.at # "missed"
    /\ Counted("commands", MaxCommands)
    /\ commands' = commands \cup {t}
    /\ place' = [place EXCEPT ![t] = where]
    /\ starter' = IF starter = Idle
                  THEN [at |-> "creating", thread |-> t, session |-> None,
                        route |-> IF config \in Allowing THEN config ELSE None]
                  ELSE starter
    /\ linkConfig' = config
    /\ UNCHANGED <<config, records, update, reply, agent, history>>

\* Codex creates a session, which has no turn yet.
NewCreated(s) ==
    /\ starter.at = "creating"
    /\ s \notin active \cup started
    /\ started' = started \cup {s}
    /\ starter' = [starter EXCEPT !.at = "created", !.session = s]
    /\ UNCHANGED <<config, records, chat, update, reply, linkConfig, active, runs, history, count>>

\* Mutant of NewBinds: a thread that is bound already does not stop the command.
NewBindsOrNot(saved) ==
    /\ starter.at = "created"
    /\ IF saved /\ CanBind(starter.thread, starter.session, starter.route)
       THEN BindThread(starter.thread, starter.session, starter.route)
       ELSE UNCHANGED binding
    /\ starter' = IF saved THEN [starter EXCEPT !.at = "bound"] ELSE Idle
    /\ UNCHANGED <<config, surface, chat, update, reply, linkConfig, agent, history, count>>

\* The thread is bound before the prompt is sent, and only then is it sent.
NewBinds(saved) ==
    /\ starter.at = "created"
    /\ IF saved /\ CanBind(starter.thread, starter.session, starter.route)
       THEN /\ BindThread(starter.thread, starter.session, starter.route)
            /\ starter' = [starter EXCEPT !.at = "bound"]
       ELSE UNCHANGED binding /\ starter' = Idle
    /\ UNCHANGED <<config, surface, chat, update, reply, linkConfig, agent, history, count>>

\* turn/start reaches Codex.
NewTurnStarts ==
    /\ starter.at = "bound"
    /\ active' = active \cup {starter.session}
    /\ runs' = [runs EXCEPT ![starter.thread] = @ + 1]
    /\ starter' = [starter EXCEPT !.at = "running"]
    /\ UNCHANGED <<config, records, chat, update, reply, linkConfig, started, history, count>>

\* The answer, or the notice that there is none, is posted, and the worker ends.
NewAnswered ==
    /\ starter.at = "running"
    /\ shows' = [shows EXCEPT ![starter.thread] = @ \cup {starter.session}]
    /\ starter' = Idle
    /\ UNCHANGED <<config, records, chat, update, reply, linkConfig, agent, ran, loose, count>>

\* Codex refuses, the provider is gone, or the answer cannot be posted.
NewFails ==
    /\ starter.at \in {"creating", "bound", "running"}
    /\ starter' = Idle
    /\ UNCHANGED <<config, records, chat, update, reply, linkConfig, agent, history, count>>

----------------------------------------------------------------------------
(* A reply in a thread. *)

\* First the surface ledger, where the event is claimed with the surface.
ReplyFindsSurface(t) ==
    /\ reply = Idle /\ place[t] # "unused"
    /\ Counted("replies", MaxReplies)
    /\ IF surface[t] # NoRecord
       THEN /\ reply' = [at |-> "ready", thread |-> t, session |-> surface[t].session,
                         route |-> surface[t].route]
            /\ linkConfig' = config
       ELSE /\ reply' = [at |-> "missed", thread |-> t, session |-> None, route |-> None]
            /\ UNCHANGED linkConfig
    /\ UNCHANGED <<config, records, chat, update, starter, agent, history>>

\* The route of a binding made without one is filled in, from the config the
\* loop took before it began to wait for this event.
Migrated(t) ==
    IF binding[t].route = None /\ linkConfig \in Allowing
    THEN [binding[t] EXCEPT !.route = linkConfig] ELSE binding[t]

\* Then the binding, in the other ledger, and the claim; without one the thread
\* is told that it is not connected.
ReplyFindsBinding(saved) ==
    /\ reply.at = "missed"
    /\ LET t == reply.thread IN
       IF Bound(t) /\ saved
       THEN /\ binding' = [binding EXCEPT ![t] = Migrated(t)]
            /\ reply' = [reply EXCEPT !.at = "ready", !.session = binding[t].session,
                                      !.route = Migrated(t).route]
       ELSE reply' = Idle /\ UNCHANGED binding
    /\ linkConfig' = config
    /\ UNCHANGED <<config, surface, chat, update, starter, agent, history, count>>

\* The route of a record is looked for in the config of the worker's start.
Resolves(route) ==
    /\ config \in Allowing
    /\ route = config \/ (route = None /\ config \notin Filtered)

ReplyRuns ==
    /\ reply.at = "ready"
    /\ IF Resolves(reply.route)
       THEN /\ ran' = [ran EXCEPT ![reply.thread] = @ \cup {reply.session}]
            /\ active' = active \cup {reply.session}
       ELSE UNCHANGED <<ran, active>>
    /\ reply' = Idle
    /\ UNCHANGED <<config, records, chat, update, starter, linkConfig, started, runs, shows,
                   loose, count>>

----------------------------------------------------------------------------

Reload ==
    /\ Counted("reloads", MaxReloads)
    /\ config' \in Configs \ {config}
    /\ UNCHANGED <<records, chat, update, starter, reply, linkConfig, agent, history>>

\* The ledgers stay; the update, the worker and the reply in hand are lost.
CrashRestart ==
    /\ Counted("crashes", MaxCrashes)
    /\ IF update.at \in {"sent", "surfaced"} THEN Loses(update.thread) ELSE UNCHANGED loose
    /\ update' = Idle /\ starter' = Idle /\ reply' = Idle
    /\ linkConfig' = config
    /\ UNCHANGED <<config, records, chat, agent, shows, ran>>

Next ==
    \/ \E s \in Sessions : UpdateLooksUp(s) \/ NewCreated(s)
    \/ \E t \in Threads : UpdateSent(t) \/ UpdateSendFails(t) \/ ReplyFindsSurface(t)
    \/ \E t \in Threads, where \in {"room", "direct"} : NewDispatched(t, where)
    \/ \E saved \in Saves : \/ UpdateSurfaces(saved) \/ UpdateBinds(saved)
                            \/ NewBinds(saved) \/ ReplyFindsBinding(saved)
    \/ UpdateNotSent \/ NewTurnStarts \/ NewAnswered \/ NewFails
    \/ ReplyRuns \/ Reload \/ CrashRestart

Spec == Init /\ [][Next]_vars

----------------------------------------------------------------------------

\* The types of the variables, and the routes that records can have.
TypeOK ==
    /\ config \in Configs /\ linkConfig \in Configs
    /\ surface \in [Threads -> Record \cup {NoRecord}]
    /\ binding \in [Threads -> Record \cup {NoRecord}]
    /\ \A t \in Threads : {surface[t].route, binding[t].route} \subseteq Allowing \cup {None}
    /\ place \in [Threads -> {"unused", "room", "direct"}]
    /\ commands \subseteq {t \in Threads : place[t] # "unused"}
    /\ update \in Task({"idle", "sending", "sent", "surfaced"})
    /\ starter \in Task({"idle", "creating", "created", "bound", "running"})
    /\ reply \in Task({"idle", "missed", "ready"})
    /\ active \subseteq Sessions /\ started \subseteq Sessions \ Desktop
    /\ shows \in [Threads -> SUBSET Sessions]
    /\ ran \in [Threads -> SUBSET Sessions]
    /\ runs \in [Threads -> Nat]
    /\ loose \subseteq Sessions

\* A thread is one conversation: whatever the order of updates, answers of
\* "/new", reloads and restarts, all a thread shows is of one session, and all
\* replies in it went to that session, whichever ledger named it.
ThreadIsOneConversation ==
    \A t \in Threads : \A s, u \in shows[t] \cup ran[t] : s = u

\* A session has one thread in the room, unless something was lost after one of
\* its updates appeared in a thread and before the thread was bound: a restart,
\* a failed save, a post reported failed, or a route that allows no replies.
OneThreadPerSession ==
    \A s \in Sessions \ loose : \A t, u \in Threads :
        place[t] = "room" /\ place[u] = "room" /\ s \in shows[t] \cap shows[u] => t = u

\* A thread is not cut off: once the delivery into it is over, it is bound, with
\* the same exceptions, so that replies and later updates find it.
ShownIsConnected ==
    \A t \in Threads : update.thread # t /\ shows[t] \ loose # {} => Bound(t)

\* "It will not retry automatically", says the notice after a failed "/new": the
\* prompt of a command runs at most once, although nothing remembers that the
\* command has been handled, and the platform may deliver it again.
NewRunsOnce == \A t \in Threads : runs[t] <= 1

=============================================================================
