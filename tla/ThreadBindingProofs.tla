------------------------- MODULE ThreadBindingProofs -------------------------
(***************************************************************************)
(* Threads and sessions, for any sessions, threads, configs and bounds.    *)
(***************************************************************************)
EXTENDS ThreadBinding, TLAPS

InChat == {"sent", "surfaced"}

\* What is under way fits the records it is about.
TasksFit ==
    /\ update.at = "idle" => update = Idle
    /\ update.at # "idle" => update.session \in active
    /\ update.at \in InChat => update.thread \in Threads
    /\ update.at = "surfaced" => update.route \in Allowing
    /\ update.at = "sending" /\ update.thread # None =>
          place[update.thread] = "room" /\ binding[update.thread].session = update.session
    /\ update.at \in InChat =>
          /\ place[update.thread] = "room"
          /\ update.session \in shows[update.thread]
          /\ Bound(update.thread) \/ update.thread \notin commands
    /\ starter.at = "idle" => starter = Idle
    /\ starter.at # "idle" => starter.thread \in commands
    /\ starter.route \in Allowing \cup {None}
    /\ reply.at # "idle" => reply.thread \in Threads /\ place[reply.thread] # "unused"
    /\ reply.at = "ready" =>
          /\ reply.session \in Sessions
          /\ reply.session \in {surface[reply.thread].session, binding[reply.thread].session}

\* A session without a turn is known to "/new" alone.
FreshIsUnknown ==
    /\ Desktop \subseteq active
    /\ \A t \in Threads : Bound(t) => binding[t].session \in active \cup started
    /\ \A t \in Threads : surface[t] # NoRecord => surface[t].session \in active
    /\ starter.at = "created" =>
          /\ starter.session \in started \ active
          /\ \A t \in Threads : binding[t].session # starter.session

\* The thread of a "/new" is bound before the prompt is sent, and for good.
CommandRunsBound ==
    /\ starter.at \in {"bound", "running"} =>
          Bound(starter.thread) /\ binding[starter.thread].session = starter.session
    /\ starter.at = "bound" => runs[starter.thread] = 0
    /\ \A t \in Threads : runs[t] \in {0, 1} /\ (runs[t] = 1 => Bound(t))

\* Nothing has happened in a thread that is unused, or that is an unbound "/new".
UntouchedIsEmpty ==
    \A t \in Threads :
        /\ place[t] = "unused" => ~Bound(t)
        /\ place[t] = "unused" \/ (t \in commands /\ ~Bound(t)) =>
              shows[t] = {} /\ ran[t] = {} /\ surface[t] = NoRecord

\* Both ledgers agree with all that was shown and run in a thread.
LedgersAgree ==
    \A t \in Threads :
        /\ \A s \in shows[t] \cup ran[t] :
              /\ Bound(t) => binding[t].session = s
              /\ surface[t] # NoRecord => surface[t].session = s
        /\ Bound(t) /\ surface[t] # NoRecord => binding[t].session = surface[t].session

\* A session has one bound thread in the room, and an update opens a thread only
\* if its session has none.
HomeIsUnique ==
    /\ \A t, u \in Threads :
          /\ place[t] = "room" /\ place[u] = "room"
          /\ Bound(t) /\ binding[t].session = binding[u].session
          => t = u
    /\ update.at # "idle" /\ (update.thread = None \/ ~Bound(update.thread)) =>
          \A u \in Threads : place[u] = "room" => binding[u].session # update.session
    /\ update.at = "sent" /\ ~Bound(update.thread) => surface[update.thread] = NoRecord

\* What a thread shows is bound, or being recorded, or known to be loose.
ShownIsBound ==
    \A t \in Threads : \A s \in shows[t] \ loose :
        Bound(t) \/ (update.at \in InChat /\ update.thread = t)

IInv ==
    /\ TypeOK
    /\ TasksFit
    /\ FreshIsUnknown
    /\ CommandRunsBound
    /\ UntouchedIsEmpty
    /\ LedgersAgree
    /\ ThreadIsOneConversation
    /\ HomeIsUnique
    /\ ShownIsBound

\* A save succeeds or fails.
LEMMA SavesBoolean == Saves \subseteq BOOLEAN
  BY DEF Saves

\* Filling in a binding's route leaves its session alone.
LEMMA MigratedKeepsSession ==
    ASSUME TypeOK, NEW t \in Threads, Bound(t)
    PROVE  /\ Migrated(t) \in Record
           /\ Migrated(t).session = binding[t].session
           /\ Migrated(t).route \in Allowing \cup {None}
<1>1. binding[t] \in Record
  BY DEF TypeOK, Bound
<1>2. CASE binding[t].route = None /\ linkConfig \in Allowing
  <2>1. Migrated(t) = [binding[t] EXCEPT !.route = linkConfig]
    BY <1>2 DEF Migrated
  <2> QED
    BY <1>1, <1>2, <2>1 DEF TypeOK, Record
<1>3. CASE ~(binding[t].route = None /\ linkConfig \in Allowing)
  <2>1. Migrated(t) = binding[t]
    BY <1>3 DEF Migrated
  <2> QED
    BY <1>1, <2>1 DEF TypeOK
<1> QED
  BY <1>2, <1>3

\* A reply that finds a binding changes no binding's session.
LEMMA MigrationKeepsSessions ==
    ASSUME TypeOK, TasksFit, NEW saved \in BOOLEAN, ReplyFindsBinding(saved), NEW t \in Threads
    PROVE  /\ binding'[t].session = binding[t].session
           /\ (binding'[t] # NoRecord) = (binding[t] # NoRecord)
<1>1. reply.thread \in Threads
  BY DEF ReplyFindsBinding, TasksFit
<1>2. CASE Bound(reply.thread) /\ saved
  <2>1. binding' = [binding EXCEPT ![reply.thread] = Migrated(reply.thread)]
    BY <1>2 DEF ReplyFindsBinding
  <2>2. /\ Migrated(reply.thread) \in Record
        /\ Migrated(reply.thread).session = binding[reply.thread].session
    BY <1>1, <1>2, MigratedKeepsSession
  <2>3. Migrated(reply.thread) # NoRecord
    BY <2>2, ThreadBindingAssumption DEF Record, NoRecord
  <2> QED
    BY <1>1, <1>2, <2>1, <2>2, <2>3 DEF TypeOK, Bound
<1>3. CASE ~(Bound(reply.thread) /\ saved)
  BY <1>3 DEF ReplyFindsBinding
<1> QED
  BY <1>2, <1>3

\* The reply then carries the binding's session, and the route just filled in.
LEMMA MigratedReply ==
    ASSUME TypeOK, NEW saved \in BOOLEAN, ReplyFindsBinding(saved),
           Bound(reply.thread) /\ saved
    PROVE  reply' = [at |-> "ready", thread |-> reply.thread,
                     session |-> binding[reply.thread].session,
                     route |-> Migrated(reply.thread).route]
<1>1. reply' = [reply EXCEPT !.at = "ready", !.session = binding[reply.thread].session,
                             !.route = Migrated(reply.thread).route]
  BY DEF ReplyFindsBinding
<1>2. reply = [at |-> reply.at, session |-> reply.session, thread |-> reply.thread,
               route |-> reply.route]
  BY DEF TypeOK, Task
<1> QED
  BY <1>1, <1>2

\* "/new" binds a thread that was not bound, to a session no ledger names, or ends.
LEMMA CommandBinds ==
    ASSUME TypeOK, TasksFit, FreshIsUnknown, NEW saved \in BOOLEAN, NewBinds(saved)
    PROVE  /\ starter.at = "created"
           /\ starter.thread \in commands /\ starter.thread \in Threads
           /\ starter.session \in started \ active /\ starter.session \in Sessions
           /\ \A t \in Threads : binding[t].session # starter.session
           /\ \/ starter' = Idle /\ UNCHANGED binding
              \/ /\ ~Bound(starter.thread)
                 /\ starter' = [starter EXCEPT !.at = "bound"]
                 /\ binding'[starter.thread] # NoRecord
                 /\ binding'[starter.thread].session = starter.session
                 /\ \A t \in Threads \ {starter.thread} : binding'[t] = binding[t]
           /\ UNCHANGED <<surface, chat, update, reply, agent, history>>
<1>1. starter.at = "created" /\ UNCHANGED <<surface, chat, update, reply, agent, history>>
  BY DEF NewBinds
<1>2. /\ starter.thread \in commands /\ starter.thread \in Threads
      /\ starter.session \in started \ active /\ starter.session \in Sessions
      /\ \A t \in Threads : binding[t].session # starter.session
  BY <1>1 DEF TasksFit, FreshIsUnknown, TypeOK
<1>3. CASE saved /\ CanBind(starter.thread, starter.session, starter.route)
  <2>1. ~Bound(starter.thread)
    BY <1>2, <1>3 DEF CanBind
  <2>2. binding' = [binding EXCEPT ![starter.thread] =
                        [session |-> starter.session, route |-> starter.route]]
    BY <1>3 DEF NewBinds, BindThread
  <2>3. starter' = [starter EXCEPT !.at = "bound"]
    BY <1>3 DEF NewBinds
  <2>4. [session |-> starter.session, route |-> starter.route] # NoRecord
    BY <1>2, ThreadBindingAssumption DEF NoRecord
  <2>5. /\ binding'[starter.thread] # NoRecord
        /\ binding'[starter.thread].session = starter.session
        /\ \A t \in Threads \ {starter.thread} : binding'[t] = binding[t]
    BY <1>2, <2>2, <2>4 DEF TypeOK
  <2> QED
    BY <1>1, <1>2, <2>1, <2>3, <2>5
<1>4. CASE ~(saved /\ CanBind(starter.thread, starter.session, starter.route))
  <2>1. starter' = Idle /\ UNCHANGED binding
    BY <1>4 DEF NewBinds
  <2> QED
    BY <1>1, <1>2, <2>1
<1> QED
  BY <1>3, <1>4

\* Every step keeps the types; one step of the proof per action, here and below.
LEMMA KeepsTypes == IInv /\ [Next]_vars => TypeOK'
<1> SUFFICES ASSUME IInv, [Next]_vars PROVE TypeOK'
  OBVIOUS
<1> USE ThreadBindingAssumption DEF IInv, TypeOK, Task, Idle, Record, NoRecord, Bound, records,
            chat, agent, history, vars, TasksFit, FreshIsUnknown, CanBind, CanCreate, BindThread,
            Counted, Appears, Unused, Loses, Migrated
<1>1. ASSUME NEW s \in Sessions, UpdateLooksUp(s) PROVE TypeOK'
  BY <1>1 DEF UpdateLooksUp
<1>2. ASSUME NEW s \in Sessions, NewCreated(s) PROVE TypeOK'
  <2>1. s \notin Desktop
    BY <1>2 DEF NewCreated
  <2>2. started' \subseteq Sessions \ Desktop
    BY <1>2, <2>1 DEF NewCreated
  <2>3. starter' \in Task({"idle", "creating", "created", "bound", "running"})
    BY <1>2 DEF NewCreated
  <2> QED
    BY <1>2, <2>2, <2>3 DEF NewCreated
<1>3. ASSUME NEW t \in Threads, UpdateSent(t) PROVE TypeOK'
  <2>1. place' \in [Threads -> {"unused", "room", "direct"}]
    BY <1>3 DEF UpdateSent
  <2>2. shows' \in [Threads -> SUBSET Sessions]
    BY <1>3 DEF UpdateSent
  <2>3. update' \in Task({"idle", "sending", "sent", "surfaced"})
    BY <1>3 DEF UpdateSent
  <2>4. commands \subseteq {u \in Threads : place'[u] # "unused"}
    BY <1>3 DEF UpdateSent
  <2> QED
    <3> HIDE DEF Task, Record, NoRecord, TasksFit, FreshIsUnknown, Appears
    <3> QED
      BY <1>3, <2>1, <2>2, <2>3, <2>4 DEF UpdateSent
<1>4. ASSUME NEW t \in Threads, UpdateSendFails(t) PROVE TypeOK'
  BY <1>4 DEF UpdateSendFails
<1>5. ASSUME NEW t \in Threads, ReplyFindsSurface(t) PROVE TypeOK'
  BY <1>5 DEF ReplyFindsSurface
<1>6. ASSUME NEW t \in Threads, NEW where \in {"room", "direct"}, NewDispatched(t, where)
      PROVE TypeOK'
  BY <1>6 DEF NewDispatched
<1>7. ASSUME NEW saved \in BOOLEAN, UpdateSurfaces(saved) PROVE TypeOK'
  <2>1. update.at = "sent" /\ update.thread \in Threads /\ update.session \in Sessions
    BY <1>7 DEF UpdateSurfaces, InChat
  <2>2. surface' \in [Threads -> Record \cup {NoRecord}]
    BY <1>7, <2>1 DEF UpdateSurfaces
  <2>3. \A t \in Threads : surface'[t].route \in Allowing \cup {None}
    BY <1>7, <2>1 DEF UpdateSurfaces
  <2>4. loose' \subseteq Sessions /\ update' \in Task({"idle", "sending", "sent", "surfaced"})
    BY <1>7, <2>1 DEF UpdateSurfaces
  <2> QED
    BY <1>7, <2>2, <2>3, <2>4 DEF UpdateSurfaces
<1>8. ASSUME NEW saved \in BOOLEAN, UpdateBinds(saved) PROVE TypeOK'
  <2>1. update.thread \in Threads /\ update.session \in Sessions /\ update.route \in Allowing
    BY <1>8 DEF UpdateBinds, InChat
  <2>2. \/ UNCHANGED binding
        \/ binding' = [binding EXCEPT ![update.thread] =
                            [session |-> update.session, route |-> update.route]]
    BY <1>8 DEF UpdateBinds
  <2>3. binding' \in [Threads -> Record \cup {NoRecord}]
    BY <2>1, <2>2
  <2>4. \A t \in Threads : binding'[t].route \in Allowing \cup {None}
    <3>1. \A t \in Threads : binding[t].route \in Allowing \cup {None}
      OBVIOUS
    <3>2. \A t \in Threads : binding'[t] = binding[t] \/ binding'[t].route = update.route
      BY <2>1, <2>2
    <3> HIDE DEF IInv, TypeOK, TasksFit, FreshIsUnknown
    <3> QED
      BY <2>1, <3>1, <3>2
  <2>5. loose' \subseteq Sessions /\ update' = Idle
    BY <1>8, <2>1 DEF UpdateBinds
  <2>6. UNCHANGED <<config, surface, chat, starter, reply, linkConfig, agent, shows, ran, count>>
    BY <1>8 DEF UpdateBinds
  <2>7. update' \in Task({"idle", "sending", "sent", "surfaced"})
    BY <2>5
  <2> HIDE DEF Task, Record, NoRecord, Idle, TasksFit, FreshIsUnknown, CanBind, BindThread
  <2> QED
    BY <2>3, <2>4, <2>5, <2>6, <2>7
<1>9. ASSUME NEW saved \in BOOLEAN, NewBinds(saved) PROVE TypeOK'
  <2>1. /\ starter.thread \in Threads /\ starter.session \in Sessions
        /\ starter.route \in Allowing \cup {None}
    BY <1>9, CommandBinds
  <2>2. \/ UNCHANGED binding
        \/ binding' = [binding EXCEPT ![starter.thread] =
                            [session |-> starter.session, route |-> starter.route]]
    BY <1>9 DEF NewBinds
  <2>3. binding' \in [Threads -> Record \cup {NoRecord}]
    BY <2>1, <2>2
  <2>4. \A t \in Threads : binding'[t].route \in Allowing \cup {None}
    <3>1. \A t \in Threads : binding[t].route \in Allowing \cup {None}
      OBVIOUS
    <3>2. \A t \in Threads : binding'[t] = binding[t] \/ binding'[t].route = starter.route
      BY <2>1, <2>2
    <3> HIDE DEF IInv, TypeOK, TasksFit, FreshIsUnknown
    <3> QED
      BY <2>1, <3>1, <3>2
  <2>5. starter' \in Task({"idle", "creating", "created", "bound", "running"})
    BY <1>9 DEF NewBinds
  <2>6. UNCHANGED <<config, surface, chat, update, reply, linkConfig, agent, history, count>>
    BY <1>9 DEF NewBinds
  <2> HIDE DEF Task, Record, NoRecord, Idle, TasksFit, FreshIsUnknown, CanBind, BindThread
  <2> QED
    BY <2>3, <2>4, <2>5, <2>6
<1>10. ASSUME NEW saved \in BOOLEAN, ReplyFindsBinding(saved) PROVE TypeOK'
  <2>1. reply.thread \in Threads
    BY <1>10 DEF ReplyFindsBinding
  <2>2. CASE Bound(reply.thread) /\ saved
    <3>1. /\ Migrated(reply.thread) \in Record
          /\ Migrated(reply.thread).route \in Allowing \cup {None}
      BY <2>1, <2>2, MigratedKeepsSession
    <3>2. binding' = [binding EXCEPT ![reply.thread] = Migrated(reply.thread)]
      BY <1>10, <2>2 DEF ReplyFindsBinding
    <3>3. binding[reply.thread].session \in Sessions
      BY <2>1, <2>2
    <3>4. reply' = [at |-> "ready", thread |-> reply.thread,
                    session |-> binding[reply.thread].session,
                    route |-> Migrated(reply.thread).route]
      BY <1>10, <2>2, MigratedReply
    <3>5. reply' \in Task({"idle", "missed", "ready"})
      <4> HIDE DEF Migrated
      <4> QED
        BY <2>1, <3>1, <3>3, <3>4
    <3> QED
      BY <1>10, <3>1, <3>2, <3>5 DEF ReplyFindsBinding
  <2>3. CASE ~(Bound(reply.thread) /\ saved)
    BY <1>10, <2>3 DEF ReplyFindsBinding
  <2> QED
    BY <2>2, <2>3
<1>11. ASSUME UpdateNotSent PROVE TypeOK'
  BY <1>11 DEF UpdateNotSent
<1>12. ASSUME NewTurnStarts PROVE TypeOK'
  <2>1. starter.thread \in Threads /\ starter.session \in Sessions
    BY <1>12 DEF NewTurnStarts, CommandRunsBound
  <2>2. runs' \in [Threads -> Nat] /\ active' \subseteq Sessions
    BY <1>12, <2>1 DEF NewTurnStarts
  <2> QED
    BY <1>12, <2>2 DEF NewTurnStarts
<1>13. ASSUME NewAnswered PROVE TypeOK'
  <2>1. starter.thread \in Threads /\ starter.session \in Sessions
    BY <1>13 DEF NewAnswered, CommandRunsBound
  <2>2. shows' \in [Threads -> SUBSET Sessions]
    BY <1>13, <2>1 DEF NewAnswered
  <2> QED
    BY <1>13, <2>2 DEF NewAnswered
<1>14. ASSUME NewFails PROVE TypeOK'
  BY <1>14 DEF NewFails
<1>15. ASSUME ReplyRuns PROVE TypeOK'
  BY <1>15 DEF ReplyRuns
<1>16. ASSUME Reload PROVE TypeOK'
  BY <1>16 DEF Reload
<1>17. ASSUME CrashRestart PROVE TypeOK'
  BY <1>17 DEF CrashRestart
<1>18. CASE UNCHANGED vars
  BY <1>18
<1> HIDE DEF IInv, TypeOK, Task, Idle, Record, NoRecord, Bound, records, chat, agent, history,
             vars, TasksFit, FreshIsUnknown, CanBind, CanCreate, BindThread, Counted, Appears,
             Unused, Loses, Migrated
<1> QED
  BY <1>1, <1>2, <1>3, <1>4, <1>5, <1>6, <1>7, <1>8, <1>9, <1>10, <1>11, <1>12, <1>13, <1>14,
      <1>15, <1>16, <1>17, <1>18, SavesBoolean DEF Next

\* What is under way still fits the records after every step.
LEMMA KeepsTasks == IInv /\ [Next]_vars => TasksFit'
<1> SUFFICES ASSUME IInv, [Next]_vars PROVE TasksFit'
  OBVIOUS
<1> USE ThreadBindingAssumption DEF IInv, TypeOK, Task, Idle, Record, NoRecord, Bound, records,
            chat, agent, history, vars, TasksFit, InChat, CanBind, CanCreate, BindThread, Appears,
            Unused, Migrated
<1>1. ASSUME NEW s \in Sessions, UpdateLooksUp(s) PROVE TasksFit'
  BY <1>1 DEF UpdateLooksUp
<1>2. ASSUME NEW s \in Sessions, NewCreated(s) PROVE TasksFit'
  BY <1>2 DEF NewCreated
<1>3. ASSUME NEW t \in Threads, UpdateSent(t) PROVE TasksFit'
  BY <1>3 DEF UpdateSent
<1>4. ASSUME NEW t \in Threads, UpdateSendFails(t) PROVE TasksFit'
  BY <1>4 DEF UpdateSendFails
<1>5. ASSUME NEW t \in Threads, ReplyFindsSurface(t) PROVE TasksFit'
  BY <1>5 DEF ReplyFindsSurface
<1>6. ASSUME NEW t \in Threads, NEW where \in {"room", "direct"}, NewDispatched(t, where)
      PROVE TasksFit'
  BY <1>6 DEF NewDispatched
<1>7. ASSUME NEW saved \in BOOLEAN, UpdateSurfaces(saved) PROVE TasksFit'
  BY <1>7 DEF UpdateSurfaces
<1>8. ASSUME NEW saved \in BOOLEAN, UpdateBinds(saved) PROVE TasksFit'
  BY <1>8 DEF UpdateBinds
<1>9. ASSUME NEW saved \in BOOLEAN, NewBinds(saved) PROVE TasksFit'
  <2>1. /\ starter.at = "created" /\ starter.thread \in Threads
        /\ starter.thread \in commands /\ starter.session \in started \ active
        /\ \A t \in Threads : binding[t].session # starter.session
        /\ UNCHANGED <<surface, chat, update, reply, agent, history>>
    BY <1>9, CommandBinds
  <2>2. \/ starter' = Idle /\ UNCHANGED binding
        \/ /\ ~Bound(starter.thread)
           /\ starter' = [starter EXCEPT !.at = "bound"]
           /\ binding'[starter.thread] # NoRecord
           /\ binding'[starter.thread].session = starter.session
           /\ \A t \in Threads \ {starter.thread} : binding'[t] = binding[t]
    <3> HIDE DEF Idle, NoRecord, Bound
    <3> QED
      BY <1>9, CommandBinds
  <2>3. CASE UNCHANGED binding /\ starter' = Idle
    BY <2>1, <2>3
  <2>4. CASE starter' = [starter EXCEPT !.at = "bound"] /\ ~Bound(starter.thread)
    <3>1. \A t \in Threads : Bound(t) => binding'[t] = binding[t]
      BY <2>2, <2>4
    <3>2. /\ starter'.at = "bound" /\ starter'.thread = starter.thread
          /\ starter'.route = starter.route
      BY <2>4
    <3>3. update.at = "sending" /\ update.thread # None =>
              binding'[update.thread].session = update.session
      BY <3>1
    <3>4. update.at \in InChat =>
              binding'[update.thread] # NoRecord \/ update.thread \notin commands
      BY <3>1
    <3>5. reply.at = "ready" =>
              reply.session \in {surface[reply.thread].session, binding'[reply.thread].session}
      BY <3>1
    <3> QED
      BY <2>1, <3>2, <3>3, <3>4, <3>5
  <2> QED
    BY <2>2, <2>3, <2>4
<1>10. ASSUME NEW saved \in BOOLEAN, ReplyFindsBinding(saved) PROVE TasksFit'
  <2>1. reply.thread \in Threads
    BY <1>10 DEF ReplyFindsBinding
  <2>2. CASE Bound(reply.thread) /\ saved
    <3>1. Migrated(reply.thread) \in Record
          /\ Migrated(reply.thread).session = binding[reply.thread].session
      BY <2>1, <2>2, MigratedKeepsSession
    <3>2. binding' = [binding EXCEPT ![reply.thread] = Migrated(reply.thread)]
      BY <1>10, <2>2 DEF ReplyFindsBinding
    <3>3. \A t \in Threads : /\ binding'[t].session = binding[t].session
                              /\ (binding'[t] # NoRecord) = (binding[t] # NoRecord)
      BY <2>1, <2>2, <3>1, <3>2
    <3>4. reply'.thread = reply.thread /\ reply'.session = binding[reply.thread].session
      <4>1. reply' = [at |-> "ready", thread |-> reply.thread,
                      session |-> binding[reply.thread].session,
                      route |-> Migrated(reply.thread).route]
        BY <1>10, <2>2, MigratedReply
      <4> HIDE DEF Migrated
      <4> QED
        BY <4>1
    <3>5. binding[reply.thread].session \in Sessions
      BY <2>1, <2>2
    <3>6. /\ UNCHANGED <<update, starter, place, commands, active, shows, surface>>
          /\ place[reply.thread] # "unused"
      BY <1>10 DEF ReplyFindsBinding
    <3> HIDE DEF Migrated
    <3>7. reply'.thread \in Threads /\ place'[reply'.thread] # "unused"
      BY <2>1, <3>4, <3>6
    <3>8. reply'.session = binding'[reply'.thread].session /\ reply'.session \in Sessions
      BY <2>1, <3>3, <3>4, <3>5
    <3> QED
      BY <3>3, <3>6, <3>7, <3>8
  <2>3. CASE ~(Bound(reply.thread) /\ saved)
    BY <1>10, <2>3 DEF ReplyFindsBinding
  <2> QED
    BY <2>2, <2>3
<1>11. ASSUME UpdateNotSent PROVE TasksFit'
  BY <1>11 DEF UpdateNotSent
<1>12. ASSUME NewTurnStarts PROVE TasksFit'
  BY <1>12 DEF NewTurnStarts
<1>13. ASSUME NewAnswered PROVE TasksFit'
  BY <1>13 DEF NewAnswered
<1>14. ASSUME NewFails PROVE TasksFit'
  BY <1>14 DEF NewFails
<1>15. ASSUME ReplyRuns PROVE TasksFit'
  BY <1>15 DEF ReplyRuns
<1>16. ASSUME Reload PROVE TasksFit'
  BY <1>16 DEF Reload
<1>17. ASSUME CrashRestart PROVE TasksFit'
  BY <1>17 DEF CrashRestart
<1>18. CASE UNCHANGED vars
  BY <1>18
<1> HIDE DEF IInv, TypeOK, Task, Idle, Record, NoRecord, Bound, records, chat, agent, history,
             vars, TasksFit, InChat, CanBind, CanCreate, BindThread, Appears, Unused, Migrated
<1> QED
  BY <1>1, <1>2, <1>3, <1>4, <1>5, <1>6, <1>7, <1>8, <1>9, <1>10, <1>11, <1>12, <1>13, <1>14,
      <1>15, <1>16, <1>17, <1>18, SavesBoolean DEF Next

\* A session that "/new" created is named by no ledger until it is bound.
LEMMA KeepsFresh == IInv /\ [Next]_vars => FreshIsUnknown'
<1> SUFFICES ASSUME IInv, [Next]_vars PROVE FreshIsUnknown'
  OBVIOUS
<1> USE ThreadBindingAssumption DEF IInv, TypeOK, Task, Idle, Record, NoRecord, Bound, records,
            chat, agent, history, vars, FreshIsUnknown, TasksFit, CanBind, CanCreate, BindThread,
            Migrated
<1>1. ASSUME NEW s \in Sessions, UpdateLooksUp(s) PROVE FreshIsUnknown'
  BY <1>1 DEF UpdateLooksUp
<1>2. ASSUME NEW s \in Sessions, NewCreated(s) PROVE FreshIsUnknown'
  BY <1>2 DEF NewCreated
<1>3. ASSUME NEW t \in Threads, UpdateSent(t) PROVE FreshIsUnknown'
  BY <1>3 DEF UpdateSent
<1>4. ASSUME NEW t \in Threads, UpdateSendFails(t) PROVE FreshIsUnknown'
  BY <1>4 DEF UpdateSendFails
<1>5. ASSUME NEW t \in Threads, ReplyFindsSurface(t) PROVE FreshIsUnknown'
  BY <1>5 DEF ReplyFindsSurface
<1>6. ASSUME NEW t \in Threads, NEW where \in {"room", "direct"}, NewDispatched(t, where)
      PROVE FreshIsUnknown'
  BY <1>6 DEF NewDispatched
<1>7. ASSUME NEW saved \in BOOLEAN, UpdateSurfaces(saved) PROVE FreshIsUnknown'
  BY <1>7 DEF UpdateSurfaces
<1>8. ASSUME NEW saved \in BOOLEAN, UpdateBinds(saved) PROVE FreshIsUnknown'
  <2>1. update.session \in active /\ update.session \in Sessions
    BY <1>8 DEF UpdateBinds
  <2>2. \A t \in Threads : binding'[t] = binding[t] \/ binding'[t].session = update.session
    BY <1>8 DEF UpdateBinds
  <2>3. UNCHANGED <<active, started, surface, starter>>
    BY <1>8 DEF UpdateBinds
  <2> HIDE DEF TypeOK, TasksFit, NoRecord
  <2> QED
    BY <2>1, <2>2, <2>3
<1>9. ASSUME NEW saved \in BOOLEAN, NewBinds(saved) PROVE FreshIsUnknown'
  BY <1>9 DEF NewBinds
<1>10. ASSUME NEW saved \in BOOLEAN, ReplyFindsBinding(saved) PROVE FreshIsUnknown'
  <2>1. \A t \in Threads : /\ binding'[t].session = binding[t].session
                            /\ (binding'[t] # NoRecord) = (binding[t] # NoRecord)
    BY <1>10, MigrationKeepsSessions
  <2>2. UNCHANGED <<active, started, surface, starter>>
    BY <1>10 DEF ReplyFindsBinding
  <2> HIDE DEF TypeOK, TasksFit, NoRecord, Migrated
  <2> QED
    BY <2>1, <2>2
<1>11. ASSUME UpdateNotSent PROVE FreshIsUnknown'
  BY <1>11 DEF UpdateNotSent
<1>12. ASSUME NewTurnStarts PROVE FreshIsUnknown'
  BY <1>12 DEF NewTurnStarts
<1>13. ASSUME NewAnswered PROVE FreshIsUnknown'
  BY <1>13 DEF NewAnswered
<1>14. ASSUME NewFails PROVE FreshIsUnknown'
  BY <1>14 DEF NewFails
<1>15. ASSUME ReplyRuns PROVE FreshIsUnknown'
  BY <1>15 DEF ReplyRuns
<1>16. ASSUME Reload PROVE FreshIsUnknown'
  BY <1>16 DEF Reload
<1>17. ASSUME CrashRestart PROVE FreshIsUnknown'
  BY <1>17 DEF CrashRestart
<1>18. CASE UNCHANGED vars
  BY <1>18
<1> HIDE DEF IInv, TypeOK, Task, Idle, Record, NoRecord, Bound, records, chat, agent, history,
             vars, FreshIsUnknown, TasksFit, CanBind, CanCreate, BindThread, Migrated
<1> QED
  BY <1>1, <1>2, <1>3, <1>4, <1>5, <1>6, <1>7, <1>8, <1>9, <1>10, <1>11, <1>12, <1>13, <1>14,
      <1>15, <1>16, <1>17, <1>18, SavesBoolean DEF Next

\* The prompt of a "/new" is sent only into a thread that is bound for good.
LEMMA KeepsRuns == IInv /\ [Next]_vars => CommandRunsBound'
<1> SUFFICES ASSUME IInv, [Next]_vars PROVE CommandRunsBound'
  OBVIOUS
<1> USE ThreadBindingAssumption DEF IInv, TypeOK, Task, Idle, Record, NoRecord, Bound, records,
            chat, agent, history, vars, CommandRunsBound, FreshIsUnknown, TasksFit, CanBind,
            BindThread, Migrated
<1>1. ASSUME NEW s \in Sessions, UpdateLooksUp(s) PROVE CommandRunsBound'
  BY <1>1 DEF UpdateLooksUp
<1>2. ASSUME NEW s \in Sessions, NewCreated(s) PROVE CommandRunsBound'
  BY <1>2 DEF NewCreated
<1>3. ASSUME NEW t \in Threads, UpdateSent(t) PROVE CommandRunsBound'
  BY <1>3 DEF UpdateSent
<1>4. ASSUME NEW t \in Threads, UpdateSendFails(t) PROVE CommandRunsBound'
  BY <1>4 DEF UpdateSendFails
<1>5. ASSUME NEW t \in Threads, ReplyFindsSurface(t) PROVE CommandRunsBound'
  BY <1>5 DEF ReplyFindsSurface
<1>6. ASSUME NEW t \in Threads, NEW where \in {"room", "direct"}, NewDispatched(t, where)
      PROVE CommandRunsBound'
  BY <1>6 DEF NewDispatched
<1>7. ASSUME NEW saved \in BOOLEAN, UpdateSurfaces(saved) PROVE CommandRunsBound'
  BY <1>7 DEF UpdateSurfaces
<1>8. ASSUME NEW saved \in BOOLEAN, UpdateBinds(saved) PROVE CommandRunsBound'
  <2>1. \A t \in Threads : Bound(t) => binding'[t].session = binding[t].session
    BY <1>8 DEF UpdateBinds
  <2>2. \A t \in Threads : Bound(t) => binding'[t] # NoRecord
    <3>1. update.session \in Sessions /\ update.thread \in Threads
      BY <1>8 DEF UpdateBinds, InChat
    <3>2. [session |-> update.session, route |-> update.route] # NoRecord
      BY <3>1
    <3>3. \/ UNCHANGED binding
          \/ binding' = [binding EXCEPT ![update.thread] =
                              [session |-> update.session, route |-> update.route]]
      BY <1>8 DEF UpdateBinds
    <3>4. CASE UNCHANGED binding
      BY <3>4
    <3>5. CASE binding' = [binding EXCEPT ![update.thread] =
                               [session |-> update.session, route |-> update.route]]
      <4> HIDE DEF NoRecord
      <4>1. binding'[update.thread] # NoRecord
        BY <3>1, <3>2, <3>5
      <4>2. \A t \in Threads \ {update.thread} : binding'[t] = binding[t]
        BY <3>5
      <4> QED
        BY <4>1, <4>2
    <3> QED
      BY <3>3, <3>4, <3>5
  <2> QED
    BY <1>8, <2>1, <2>2 DEF UpdateBinds
<1>9. ASSUME NEW saved \in BOOLEAN, NewBinds(saved) PROVE CommandRunsBound'
  <2>1. /\ starter.at = "created" /\ starter.thread \in Threads
        /\ starter.thread \in commands /\ starter.session \in started \ active
        /\ \A t \in Threads : binding[t].session # starter.session
        /\ UNCHANGED <<surface, chat, update, reply, agent, history>>
    BY <1>9, CommandBinds
  <2>2. \/ starter' = Idle /\ UNCHANGED binding
        \/ /\ ~Bound(starter.thread)
           /\ starter' = [starter EXCEPT !.at = "bound"]
           /\ binding'[starter.thread] # NoRecord
           /\ binding'[starter.thread].session = starter.session
           /\ \A t \in Threads \ {starter.thread} : binding'[t] = binding[t]
    <3> HIDE DEF Idle, NoRecord, Bound
    <3> QED
      BY <1>9, CommandBinds
  <2>3. runs[starter.thread] = 0 \/ Bound(starter.thread)
    BY <2>1
  <2>4. \A t \in Threads : Bound(t) => binding'[t] = binding[t]
    BY <2>2
  <2>5. starter'.at \in {"bound", "running"} =>
            /\ starter'.at = "bound" /\ starter'.thread = starter.thread
            /\ starter'.session = starter.session /\ ~Bound(starter.thread)
            /\ binding'[starter.thread] # NoRecord
            /\ binding'[starter.thread].session = starter.session
    BY <2>1, <2>2
  <2> QED
    BY <2>1, <2>3, <2>4, <2>5
<1>10. ASSUME NEW saved \in BOOLEAN, ReplyFindsBinding(saved) PROVE CommandRunsBound'
  BY <1>10 DEF ReplyFindsBinding
<1>11. ASSUME UpdateNotSent PROVE CommandRunsBound'
  BY <1>11 DEF UpdateNotSent
<1>12. ASSUME NewTurnStarts PROVE CommandRunsBound'
  BY <1>12 DEF NewTurnStarts
<1>13. ASSUME NewAnswered PROVE CommandRunsBound'
  BY <1>13 DEF NewAnswered
<1>14. ASSUME NewFails PROVE CommandRunsBound'
  BY <1>14 DEF NewFails
<1>15. ASSUME ReplyRuns PROVE CommandRunsBound'
  BY <1>15 DEF ReplyRuns
<1>16. ASSUME Reload PROVE CommandRunsBound'
  BY <1>16 DEF Reload
<1>17. ASSUME CrashRestart PROVE CommandRunsBound'
  BY <1>17 DEF CrashRestart
<1>18. CASE UNCHANGED vars
  BY <1>18
<1> HIDE DEF IInv, TypeOK, Task, Idle, Record, NoRecord, Bound, records, chat, agent, history,
             vars, CommandRunsBound, FreshIsUnknown, TasksFit, CanBind, BindThread, Migrated
<1> QED
  BY <1>1, <1>2, <1>3, <1>4, <1>5, <1>6, <1>7, <1>8, <1>9, <1>10, <1>11, <1>12, <1>13, <1>14,
      <1>15, <1>16, <1>17, <1>18, SavesBoolean DEF Next

\* Threads that are unused, or a "/new" not bound yet, stay empty.
LEMMA KeepsUntouched == IInv /\ [Next]_vars => UntouchedIsEmpty'
<1> SUFFICES ASSUME IInv, [Next]_vars PROVE UntouchedIsEmpty'
  OBVIOUS
<1> USE ThreadBindingAssumption DEF IInv, TypeOK, Task, Idle, Record, NoRecord, Bound, records,
            chat, agent, history, vars, UntouchedIsEmpty, CommandRunsBound, TasksFit, InChat,
            CanBind, CanCreate, BindThread, Appears, Unused, Migrated
<1>1. ASSUME NEW s \in Sessions, UpdateLooksUp(s) PROVE UntouchedIsEmpty'
  BY <1>1 DEF UpdateLooksUp
<1>2. ASSUME NEW s \in Sessions, NewCreated(s) PROVE UntouchedIsEmpty'
  BY <1>2 DEF NewCreated
<1>3. ASSUME NEW t \in Threads, UpdateSent(t) PROVE UntouchedIsEmpty'
  BY <1>3 DEF UpdateSent
<1>4. ASSUME NEW t \in Threads, UpdateSendFails(t) PROVE UntouchedIsEmpty'
  BY <1>4 DEF UpdateSendFails
<1>5. ASSUME NEW t \in Threads, ReplyFindsSurface(t) PROVE UntouchedIsEmpty'
  BY <1>5 DEF ReplyFindsSurface
<1>6. ASSUME NEW t \in Threads, NEW where \in {"room", "direct"}, NewDispatched(t, where)
      PROVE UntouchedIsEmpty'
  BY <1>6 DEF NewDispatched
<1>7. ASSUME NEW saved \in BOOLEAN, UpdateSurfaces(saved) PROVE UntouchedIsEmpty'
  BY <1>7 DEF UpdateSurfaces
<1>8. ASSUME NEW saved \in BOOLEAN, UpdateBinds(saved) PROVE UntouchedIsEmpty'
  BY <1>8 DEF UpdateBinds
<1>9. ASSUME NEW saved \in BOOLEAN, NewBinds(saved) PROVE UntouchedIsEmpty'
  BY <1>9 DEF NewBinds
<1>10. ASSUME NEW saved \in BOOLEAN, ReplyFindsBinding(saved) PROVE UntouchedIsEmpty'
  BY <1>10 DEF ReplyFindsBinding
<1>11. ASSUME UpdateNotSent PROVE UntouchedIsEmpty'
  BY <1>11 DEF UpdateNotSent
<1>12. ASSUME NewTurnStarts PROVE UntouchedIsEmpty'
  BY <1>12 DEF NewTurnStarts
<1>13. ASSUME NewAnswered PROVE UntouchedIsEmpty'
  BY <1>13 DEF NewAnswered
<1>14. ASSUME NewFails PROVE UntouchedIsEmpty'
  BY <1>14 DEF NewFails
<1>15. ASSUME ReplyRuns PROVE UntouchedIsEmpty'
  <2>1. reply.thread \in Threads /\ place[reply.thread] # "unused"
    BY <1>15 DEF ReplyRuns
  <2>2. reply.thread \in commands => Bound(reply.thread)
    BY <1>15, <2>1 DEF ReplyRuns
  <2>3. \A t \in Threads \ {reply.thread} : ran'[t] = ran[t]
    BY <1>15 DEF ReplyRuns
  <2>4. UNCHANGED <<place, commands, shows, surface, binding>>
    BY <1>15 DEF ReplyRuns
  <2> QED
    BY <2>1, <2>2, <2>3, <2>4
<1>16. ASSUME Reload PROVE UntouchedIsEmpty'
  BY <1>16 DEF Reload
<1>17. ASSUME CrashRestart PROVE UntouchedIsEmpty'
  BY <1>17 DEF CrashRestart
<1>18. CASE UNCHANGED vars
  BY <1>18
<1> HIDE DEF IInv, TypeOK, Task, Idle, Record, NoRecord, Bound, records, chat, agent, history,
             vars, UntouchedIsEmpty, CommandRunsBound, TasksFit, InChat, CanBind, CanCreate,
             BindThread, Appears, Unused, Migrated
<1> QED
  BY <1>1, <1>2, <1>3, <1>4, <1>5, <1>6, <1>7, <1>8, <1>9, <1>10, <1>11, <1>12, <1>13, <1>14,
      <1>15, <1>16, <1>17, <1>18, SavesBoolean DEF Next

\* No step lets the two ledgers name different sessions for a thread.
LEMMA KeepsAgreement == IInv /\ [Next]_vars => LedgersAgree'
<1> SUFFICES ASSUME IInv, [Next]_vars PROVE LedgersAgree'
  OBVIOUS
<1> USE ThreadBindingAssumption DEF IInv, TypeOK, Task, Idle, Record, NoRecord, Bound, records,
            chat, agent, history, vars, LedgersAgree, ThreadIsOneConversation, UntouchedIsEmpty,
            CommandRunsBound, FreshIsUnknown, TasksFit, InChat, CanBind, CanCreate, BindThread,
            Appears, Unused, Migrated
<1>1. ASSUME NEW s \in Sessions, UpdateLooksUp(s) PROVE LedgersAgree'
  BY <1>1 DEF UpdateLooksUp
<1>2. ASSUME NEW s \in Sessions, NewCreated(s) PROVE LedgersAgree'
  BY <1>2 DEF NewCreated
<1>3. ASSUME NEW t \in Threads, UpdateSent(t) PROVE LedgersAgree'
  BY <1>3 DEF UpdateSent
<1>4. ASSUME NEW t \in Threads, UpdateSendFails(t) PROVE LedgersAgree'
  BY <1>4 DEF UpdateSendFails
<1>5. ASSUME NEW t \in Threads, ReplyFindsSurface(t) PROVE LedgersAgree'
  BY <1>5 DEF ReplyFindsSurface
<1>6. ASSUME NEW t \in Threads, NEW where \in {"room", "direct"}, NewDispatched(t, where)
      PROVE LedgersAgree'
  BY <1>6 DEF NewDispatched
<1>7. ASSUME NEW saved \in BOOLEAN, UpdateSurfaces(saved) PROVE LedgersAgree'
  BY <1>7 DEF UpdateSurfaces
<1>8. ASSUME NEW saved \in BOOLEAN, UpdateBinds(saved) PROVE LedgersAgree'
  <2>1. update.thread \in Threads /\ update.session \in shows[update.thread]
    BY <1>8 DEF UpdateBinds
  <2>2. \A s \in shows[update.thread] \cup ran[update.thread] : s = update.session
    BY <2>1
  <2>3. surface[update.thread] # NoRecord => surface[update.thread].session = update.session
    BY <2>1
  <2>4. UNCHANGED <<surface, shows, ran>>
    BY <1>8 DEF UpdateBinds
  <2>5. \/ UNCHANGED binding
        \/ binding' = [binding EXCEPT ![update.thread] =
                            [session |-> update.session, route |-> update.route]]
    BY <1>8 DEF UpdateBinds
  <2> QED
    BY <2>1, <2>2, <2>3, <2>4, <2>5
<1>9. ASSUME NEW saved \in BOOLEAN, NewBinds(saved) PROVE LedgersAgree'
  BY <1>9 DEF NewBinds
<1>10. ASSUME NEW saved \in BOOLEAN, ReplyFindsBinding(saved) PROVE LedgersAgree'
  BY <1>10 DEF ReplyFindsBinding
<1>11. ASSUME UpdateNotSent PROVE LedgersAgree'
  BY <1>11 DEF UpdateNotSent
<1>12. ASSUME NewTurnStarts PROVE LedgersAgree'
  BY <1>12 DEF NewTurnStarts
<1>13. ASSUME NewAnswered PROVE LedgersAgree'
  BY <1>13 DEF NewAnswered
<1>14. ASSUME NewFails PROVE LedgersAgree'
  BY <1>14 DEF NewFails
<1>15. ASSUME ReplyRuns PROVE LedgersAgree'
  <2>1. reply.at = "ready" /\ reply.thread \in Threads /\ UNCHANGED <<surface, binding, shows>>
    BY <1>15 DEF ReplyRuns
  <2>2. \/ UNCHANGED ran
        \/ ran' = [ran EXCEPT ![reply.thread] = @ \cup {reply.session}]
    BY <1>15 DEF ReplyRuns
  <2>3. /\ Bound(reply.thread) => binding[reply.thread].session = reply.session
        /\ surface[reply.thread] # NoRecord => surface[reply.thread].session = reply.session
    BY <2>1
  <2> QED
    BY <2>1, <2>2, <2>3
<1>16. ASSUME Reload PROVE LedgersAgree'
  BY <1>16 DEF Reload
<1>17. ASSUME CrashRestart PROVE LedgersAgree'
  BY <1>17 DEF CrashRestart
<1>18. CASE UNCHANGED vars
  BY <1>18
<1> HIDE DEF IInv, TypeOK, Task, Idle, Record, NoRecord, Bound, records, chat, agent, history,
             vars, LedgersAgree, ThreadIsOneConversation, UntouchedIsEmpty, CommandRunsBound,
             FreshIsUnknown, TasksFit, InChat, CanBind, CanCreate, BindThread, Appears, Unused,
             Migrated
<1> QED
  BY <1>1, <1>2, <1>3, <1>4, <1>5, <1>6, <1>7, <1>8, <1>9, <1>10, <1>11, <1>12, <1>13, <1>14,
      <1>15, <1>16, <1>17, <1>18, SavesBoolean DEF Next

\* No step shows or runs a second session in a thread.
LEMMA KeepsConversation == IInv /\ [Next]_vars => ThreadIsOneConversation'
<1> SUFFICES ASSUME IInv, [Next]_vars PROVE ThreadIsOneConversation'
  OBVIOUS
<1> USE ThreadBindingAssumption DEF IInv, TypeOK, Task, Idle, Record, NoRecord, Bound, records,
            chat, agent, history, vars, ThreadIsOneConversation, LedgersAgree, UntouchedIsEmpty,
            CommandRunsBound, TasksFit, Appears, Unused
<1>1. ASSUME NEW s \in Sessions, UpdateLooksUp(s) PROVE ThreadIsOneConversation'
  BY <1>1 DEF UpdateLooksUp
<1>2. ASSUME NEW s \in Sessions, NewCreated(s) PROVE ThreadIsOneConversation'
  BY <1>2 DEF NewCreated
<1>3. ASSUME NEW t \in Threads, UpdateSent(t) PROVE ThreadIsOneConversation'
  BY <1>3 DEF UpdateSent
<1>4. ASSUME NEW t \in Threads, UpdateSendFails(t) PROVE ThreadIsOneConversation'
  BY <1>4 DEF UpdateSendFails
<1>5. ASSUME NEW t \in Threads, ReplyFindsSurface(t) PROVE ThreadIsOneConversation'
  BY <1>5 DEF ReplyFindsSurface
<1>6. ASSUME NEW t \in Threads, NEW where \in {"room", "direct"}, NewDispatched(t, where)
      PROVE ThreadIsOneConversation'
  BY <1>6 DEF NewDispatched
<1>7. ASSUME NEW saved \in BOOLEAN, UpdateSurfaces(saved) PROVE ThreadIsOneConversation'
  BY <1>7 DEF UpdateSurfaces
<1>8. ASSUME NEW saved \in BOOLEAN, UpdateBinds(saved) PROVE ThreadIsOneConversation'
  BY <1>8 DEF UpdateBinds
<1>9. ASSUME NEW saved \in BOOLEAN, NewBinds(saved) PROVE ThreadIsOneConversation'
  BY <1>9 DEF NewBinds
<1>10. ASSUME NEW saved \in BOOLEAN, ReplyFindsBinding(saved) PROVE ThreadIsOneConversation'
  BY <1>10 DEF ReplyFindsBinding
<1>11. ASSUME UpdateNotSent PROVE ThreadIsOneConversation'
  BY <1>11 DEF UpdateNotSent
<1>12. ASSUME NewTurnStarts PROVE ThreadIsOneConversation'
  BY <1>12 DEF NewTurnStarts
<1>13. ASSUME NewAnswered PROVE ThreadIsOneConversation'
  BY <1>13 DEF NewAnswered
<1>14. ASSUME NewFails PROVE ThreadIsOneConversation'
  BY <1>14 DEF NewFails
<1>15. ASSUME ReplyRuns PROVE ThreadIsOneConversation'
  <2>1. reply.at = "ready" /\ reply.thread \in Threads /\ UNCHANGED shows
    BY <1>15 DEF ReplyRuns
  <2>2. \/ UNCHANGED ran
        \/ ran' = [ran EXCEPT ![reply.thread] = @ \cup {reply.session}]
    BY <1>15 DEF ReplyRuns
  <2>3. \A s \in shows[reply.thread] \cup ran[reply.thread] : s = reply.session
    BY <2>1
  <2>4. \A t \in Threads \ {reply.thread} : ran'[t] = ran[t]
    BY <2>2
  <2>5. ran'[reply.thread] \subseteq ran[reply.thread] \cup {reply.session}
    BY <2>1, <2>2
  <2>6. \A t \in Threads : \A s, u \in shows[t] \cup ran[t] : s = u
    OBVIOUS
  <2> HIDE DEF IInv, TypeOK, Task, Idle, Record, NoRecord, Bound, LedgersAgree, UntouchedIsEmpty,
               CommandRunsBound, TasksFit
  <2>7. ASSUME NEW t \in Threads, NEW s \in shows'[t] \cup ran'[t], NEW u \in shows'[t] \cup ran'[t]
        PROVE  s = u
    <3>1. CASE t = reply.thread
      BY <2>1, <2>3, <2>5, <3>1
    <3>2. CASE t # reply.thread
      BY <2>1, <2>4, <2>6, <3>2
    <3> QED
      BY <3>1, <3>2
  <2> QED
    BY <2>7
<1>16. ASSUME Reload PROVE ThreadIsOneConversation'
  BY <1>16 DEF Reload
<1>17. ASSUME CrashRestart PROVE ThreadIsOneConversation'
  BY <1>17 DEF CrashRestart
<1>18. CASE UNCHANGED vars
  BY <1>18
<1> HIDE DEF IInv, TypeOK, Task, Idle, Record, NoRecord, Bound, records, chat, agent, history,
             vars, ThreadIsOneConversation, LedgersAgree, UntouchedIsEmpty, CommandRunsBound,
             TasksFit, Appears, Unused
<1> QED
  BY <1>1, <1>2, <1>3, <1>4, <1>5, <1>6, <1>7, <1>8, <1>9, <1>10, <1>11, <1>12, <1>13, <1>14,
      <1>15, <1>16, <1>17, <1>18, SavesBoolean DEF Next

\* No step gives a session a second bound thread in the room.
LEMMA KeepsHome == IInv /\ [Next]_vars => HomeIsUnique'
<1> SUFFICES ASSUME IInv, [Next]_vars PROVE HomeIsUnique'
  OBVIOUS
<1> USE ThreadBindingAssumption DEF IInv, TypeOK, Task, Idle, Record, NoRecord, Bound, records,
            chat, agent, history, vars, HomeIsUnique, LedgersAgree, UntouchedIsEmpty,
            FreshIsUnknown, TasksFit, InChat, CanBind, CanCreate, BindThread, Appears, Unused,
            Migrated
<1>1. ASSUME NEW s \in Sessions, UpdateLooksUp(s) PROVE HomeIsUnique'
  BY <1>1 DEF UpdateLooksUp
<1>2. ASSUME NEW s \in Sessions, NewCreated(s) PROVE HomeIsUnique'
  BY <1>2 DEF NewCreated
<1>3. ASSUME NEW t \in Threads, UpdateSent(t) PROVE HomeIsUnique'
  BY <1>3 DEF UpdateSent
<1>4. ASSUME NEW t \in Threads, UpdateSendFails(t) PROVE HomeIsUnique'
  BY <1>4 DEF UpdateSendFails
<1>5. ASSUME NEW t \in Threads, ReplyFindsSurface(t) PROVE HomeIsUnique'
  BY <1>5 DEF ReplyFindsSurface
<1>6. ASSUME NEW t \in Threads, NEW where \in {"room", "direct"}, NewDispatched(t, where)
      PROVE HomeIsUnique'
  BY <1>6 DEF NewDispatched
<1>7. ASSUME NEW saved \in BOOLEAN, UpdateSurfaces(saved) PROVE HomeIsUnique'
  BY <1>7 DEF UpdateSurfaces
<1>8. ASSUME NEW saved \in BOOLEAN, UpdateBinds(saved) PROVE HomeIsUnique'
  BY <1>8 DEF UpdateBinds
<1>9. ASSUME NEW saved \in BOOLEAN, NewBinds(saved) PROVE HomeIsUnique'
  <2>1. /\ starter.at = "created" /\ starter.thread \in Threads
        /\ starter.thread \in commands /\ starter.session \in started \ active
        /\ \A t \in Threads : binding[t].session # starter.session
        /\ UNCHANGED <<surface, chat, update, reply, agent, history>>
    BY <1>9, CommandBinds
  <2>2. \/ starter' = Idle /\ UNCHANGED binding
        \/ /\ ~Bound(starter.thread)
           /\ starter' = [starter EXCEPT !.at = "bound"]
           /\ binding'[starter.thread] # NoRecord
           /\ binding'[starter.thread].session = starter.session
           /\ \A t \in Threads \ {starter.thread} : binding'[t] = binding[t]
    <3> HIDE DEF Idle, NoRecord, Bound
    <3> QED
      BY <1>9, CommandBinds
  <2>3. CASE UNCHANGED binding /\ starter' = Idle
    BY <2>1, <2>3
  <2>4. CASE ~Bound(starter.thread) /\ starter' # Idle
    <3>1. starter.session # update.session \/ update.at = "idle"
      BY <2>1
    <3>2. \A t \in Threads : binding'[t] # NoRecord =>
              t = starter.thread \/ (Bound(t) /\ binding'[t] = binding[t])
      BY <2>2, <2>4
    <3>3. \A t \in Threads : binding'[t].session = starter.session <=> t = starter.thread
      BY <2>1, <2>2, <2>4
    <3>4. \A t \in Threads \ {starter.thread} : binding'[t] = binding[t]
      BY <2>2, <2>4
    <3>5. ASSUME NEW t \in Threads, NEW u \in Threads, place[t] = "room", place[u] = "room",
                 binding'[t] # NoRecord, binding'[t].session = binding'[u].session
          PROVE  t = u
      <4>1. CASE t = starter.thread \/ u = starter.thread
        BY <3>3, <3>5, <4>1
      <4>2. CASE t # starter.thread /\ u # starter.thread
        BY <3>2, <3>4, <3>5, <4>2
      <4> QED
        BY <4>1, <4>2
    <3>6. ASSUME update.at # "idle", update.thread = None \/ binding'[update.thread] = NoRecord,
                 NEW u \in Threads, place[u] = "room"
          PROVE  binding'[u].session # update.session
      <4>1. update.thread = None \/ ~Bound(update.thread)
        BY <2>2, <2>4, <3>6
      <4>2. binding[u].session # update.session
        BY <3>6, <4>1
      <4> QED
        BY <3>1, <3>3, <3>4, <3>6, <4>2
    <3>7. update.at = "sent" /\ binding'[update.thread] = NoRecord => ~Bound(update.thread)
      BY <2>2, <2>4
    <3> QED
      BY <2>1, <3>5, <3>6, <3>7
  <2> QED
    BY <2>2, <2>3, <2>4
<1>10. ASSUME NEW saved \in BOOLEAN, ReplyFindsBinding(saved) PROVE HomeIsUnique'
  <2>1. \A t \in Threads : /\ binding'[t].session = binding[t].session
                            /\ (binding'[t] # NoRecord) = (binding[t] # NoRecord)
    BY <1>10, MigrationKeepsSessions
  <2>2. UNCHANGED <<place, update, surface>>
    BY <1>10 DEF ReplyFindsBinding
  <2> HIDE DEF Migrated
  <2> QED
    BY <2>1, <2>2
<1>11. ASSUME UpdateNotSent PROVE HomeIsUnique'
  BY <1>11 DEF UpdateNotSent
<1>12. ASSUME NewTurnStarts PROVE HomeIsUnique'
  BY <1>12 DEF NewTurnStarts
<1>13. ASSUME NewAnswered PROVE HomeIsUnique'
  BY <1>13 DEF NewAnswered
<1>14. ASSUME NewFails PROVE HomeIsUnique'
  BY <1>14 DEF NewFails
<1>15. ASSUME ReplyRuns PROVE HomeIsUnique'
  BY <1>15 DEF ReplyRuns
<1>16. ASSUME Reload PROVE HomeIsUnique'
  BY <1>16 DEF Reload
<1>17. ASSUME CrashRestart PROVE HomeIsUnique'
  BY <1>17 DEF CrashRestart
<1>18. CASE UNCHANGED vars
  BY <1>18
<1> HIDE DEF IInv, TypeOK, Task, Idle, Record, NoRecord, Bound, records, chat, agent, history,
             vars, HomeIsUnique, LedgersAgree, UntouchedIsEmpty, FreshIsUnknown, TasksFit, InChat,
             CanBind, CanCreate, BindThread, Appears, Unused, Migrated
<1> QED
  BY <1>1, <1>2, <1>3, <1>4, <1>5, <1>6, <1>7, <1>8, <1>9, <1>10, <1>11, <1>12, <1>13, <1>14,
      <1>15, <1>16, <1>17, <1>18, SavesBoolean DEF Next

\* No step leaves a thread shown but unbound, unless it makes the session loose.
LEMMA KeepsShown == IInv /\ [Next]_vars => ShownIsBound'
<1> SUFFICES ASSUME IInv, [Next]_vars PROVE ShownIsBound'
  OBVIOUS
<1> USE ThreadBindingAssumption DEF IInv, TypeOK, Task, Idle, Record, NoRecord, Bound, records,
            chat, agent, history, vars, ShownIsBound, HomeIsUnique, LedgersAgree,
            CommandRunsBound, FreshIsUnknown, TasksFit, InChat, CanBind, CanCreate, BindThread,
            Appears, Loses, Unused, Migrated
<1>1. ASSUME NEW s \in Sessions, UpdateLooksUp(s) PROVE ShownIsBound'
  BY <1>1 DEF UpdateLooksUp
<1>2. ASSUME NEW s \in Sessions, NewCreated(s) PROVE ShownIsBound'
  BY <1>2 DEF NewCreated
<1>3. ASSUME NEW t \in Threads, UpdateSent(t) PROVE ShownIsBound'
  BY <1>3 DEF UpdateSent
<1>4. ASSUME NEW t \in Threads, UpdateSendFails(t) PROVE ShownIsBound'
  BY <1>4 DEF UpdateSendFails
<1>5. ASSUME NEW t \in Threads, ReplyFindsSurface(t) PROVE ShownIsBound'
  BY <1>5 DEF ReplyFindsSurface
<1>6. ASSUME NEW t \in Threads, NEW where \in {"room", "direct"}, NewDispatched(t, where)
      PROVE ShownIsBound'
  BY <1>6 DEF NewDispatched
<1>7. ASSUME NEW saved \in BOOLEAN, UpdateSurfaces(saved) PROVE ShownIsBound'
  <2>1. update.at = "sent" /\ update.thread \in Threads /\ UNCHANGED <<binding, shows>>
    BY <1>7 DEF UpdateSurfaces
  <2>2. \A s \in shows[update.thread] : s = update.session
    BY <2>1 DEF ThreadIsOneConversation
  <2>3. CASE update'.at = "surfaced"
    BY <1>7, <2>1, <2>3 DEF UpdateSurfaces
  <2>4. CASE Bound(update.thread) /\ update'.at # "surfaced"
    BY <1>7, <2>1, <2>4 DEF UpdateSurfaces
  <2>5. CASE ~Bound(update.thread) /\ update'.at # "surfaced"
    <3>1. surface[update.thread] = NoRecord
      BY <2>1, <2>5
    <3>2. loose' = loose \cup {update.session}
      BY <1>7, <2>1, <2>5, <3>1 DEF UpdateSurfaces
    <3> QED
      BY <2>1, <2>2, <3>2
  <2> QED
    BY <2>3, <2>4, <2>5
<1>8. ASSUME NEW saved \in BOOLEAN, UpdateBinds(saved) PROVE ShownIsBound'
  <2>1. update.at = "surfaced" /\ update.thread \in Threads /\ UNCHANGED shows
    BY <1>8 DEF UpdateBinds
  <2>2. \A s \in shows[update.thread] : s = update.session
    BY <2>1 DEF ThreadIsOneConversation
  <2>3. \A t \in Threads : Bound(t) => binding'[t] # NoRecord
    BY <1>8 DEF UpdateBinds
  <2>4. binding'[update.thread] # NoRecord \/ loose' = loose \cup {update.session}
    BY <1>8, <2>1 DEF UpdateBinds
  <2>5. loose \subseteq loose'
    BY <1>8 DEF UpdateBinds
  <2> QED
    BY <2>1, <2>2, <2>3, <2>4, <2>5
<1>9. ASSUME NEW saved \in BOOLEAN, NewBinds(saved) PROVE ShownIsBound'
  <2>1. /\ starter.at = "created" /\ starter.thread \in Threads
        /\ starter.thread \in commands /\ starter.session \in started \ active
        /\ \A t \in Threads : binding[t].session # starter.session
        /\ UNCHANGED <<surface, chat, update, reply, agent, history>>
    BY <1>9, CommandBinds
  <2>2. \/ starter' = Idle /\ UNCHANGED binding
        \/ /\ ~Bound(starter.thread)
           /\ starter' = [starter EXCEPT !.at = "bound"]
           /\ binding'[starter.thread] # NoRecord
           /\ binding'[starter.thread].session = starter.session
           /\ \A t \in Threads \ {starter.thread} : binding'[t] = binding[t]
    <3> HIDE DEF Idle, NoRecord, Bound
    <3> QED
      BY <1>9, CommandBinds
  <2>3. \A t \in Threads : Bound(t) => binding'[t] # NoRecord
    BY <2>2
  <2>4. UNCHANGED <<shows, loose, update>>
    BY <2>1
  <2> QED
    BY <2>3, <2>4
<1>10. ASSUME NEW saved \in BOOLEAN, ReplyFindsBinding(saved) PROVE ShownIsBound'
  BY <1>10 DEF ReplyFindsBinding
<1>11. ASSUME UpdateNotSent PROVE ShownIsBound'
  BY <1>11 DEF UpdateNotSent
<1>12. ASSUME NewTurnStarts PROVE ShownIsBound'
  BY <1>12 DEF NewTurnStarts
<1>13. ASSUME NewAnswered PROVE ShownIsBound'
  BY <1>13 DEF NewAnswered
<1>14. ASSUME NewFails PROVE ShownIsBound'
  BY <1>14 DEF NewFails
<1>15. ASSUME ReplyRuns PROVE ShownIsBound'
  BY <1>15 DEF ReplyRuns
<1>16. ASSUME Reload PROVE ShownIsBound'
  BY <1>16 DEF Reload
<1>17. ASSUME CrashRestart PROVE ShownIsBound'
  <2>1. UNCHANGED <<binding, shows>>
    BY <1>17 DEF CrashRestart
  <2>2. update.at \in {"sent", "surfaced"} =>
            \A s \in shows[update.thread] : s = update.session
    BY DEF ThreadIsOneConversation
  <2>3. CASE update.at \in {"sent", "surfaced"} /\ ~Bound(update.thread)
    <3>1. loose' = loose \cup {update.session}
      BY <1>17, <2>3 DEF CrashRestart
    <3> QED
      BY <2>1, <2>2, <2>3, <3>1
  <2>4. CASE ~(update.at \in {"sent", "surfaced"} /\ ~Bound(update.thread))
    <3>1. loose' = loose
      BY <1>17, <2>4 DEF CrashRestart
    <3> QED
      BY <2>1, <2>4, <3>1
  <2> QED
    BY <2>3, <2>4
<1>18. CASE UNCHANGED vars
  BY <1>18
<1> HIDE DEF IInv, TypeOK, Task, Idle, Record, NoRecord, Bound, records, chat, agent, history,
             vars, ShownIsBound, HomeIsUnique, LedgersAgree, CommandRunsBound, FreshIsUnknown,
             TasksFit, InChat, CanBind, CanCreate, BindThread, Appears, Loses, Unused, Migrated
<1> QED
  BY <1>1, <1>2, <1>3, <1>4, <1>5, <1>6, <1>7, <1>8, <1>9, <1>10, <1>11, <1>12, <1>13, <1>14,
      <1>15, <1>16, <1>17, <1>18, SavesBoolean DEF Next

\* The invariant holds at first.
LEMMA StartsRight == Init => IInv
<1> SUFFICES ASSUME Init PROVE IInv
  OBVIOUS
<1> USE ThreadBindingAssumption DEF Init, Task, Idle, Record, NoRecord, Bound
<1>1. TypeOK
  BY DEF TypeOK
<1>2. TasksFit /\ HomeIsUnique
  BY DEF TasksFit, HomeIsUnique, InChat
<1>3. FreshIsUnknown /\ CommandRunsBound /\ UntouchedIsEmpty
  BY DEF FreshIsUnknown, CommandRunsBound, UntouchedIsEmpty
<1>4. LedgersAgree /\ ThreadIsOneConversation /\ ShownIsBound
  BY DEF LedgersAgree, ThreadIsOneConversation, ShownIsBound
<1> QED
  BY <1>1, <1>2, <1>3, <1>4 DEF IInv

\* The invariant holds in every state, in whatever order the watch, the
\* connection, the commands, reloads and restarts take their steps.
THEOREM Invariance == Spec => []IInv
<1>1. IInv /\ [Next]_vars => IInv'
  BY KeepsTypes, KeepsTasks, KeepsFresh, KeepsRuns, KeepsUntouched, KeepsAgreement,
     KeepsConversation, KeepsHome, KeepsShown DEF IInv
<1> QED
  BY <1>1, StartsRight, PTL DEF Spec

\* The variables have their types (router.rs, bridge_binding_ledger.rs).
THEOREM TypeCorrect == Spec => []TypeOK
<1>1. IInv => TypeOK
  BY DEF IInv
<1> QED
  BY <1>1, Invariance, PTL

\* A thread never mixes two sessions: neither in what it shows, nor in where its
\* replies go (provider_inbound.rs looks in two ledgers).
THEOREM OneConversation == Spec => []ThreadIsOneConversation
<1>1. IInv => ThreadIsOneConversation
  BY DEF IInv
<1> QED
  BY <1>1, Invariance, PTL

\* One thread per session in the room, if nothing was lost while one was recorded.
THEOREM OneThread == Spec => []OneThreadPerSession
<1>1. IInv => OneThreadPerSession
  <2> SUFFICES ASSUME IInv, NEW s \in Sessions \ loose, NEW t \in Threads, NEW u \in Threads,
                      place[t] = "room", place[u] = "room", s \in shows[t] \cap shows[u]
               PROVE  t = u
    BY DEF OneThreadPerSession
  <2>1. CASE Bound(t) /\ Bound(u)
    BY <2>1 DEF IInv, LedgersAgree, HomeIsUnique
  <2>2. ASSUME NEW v \in Threads, NEW w \in Threads, s \in shows[v] \cap shows[w],
               place[w] = "room", ~Bound(v)
        PROVE  v = w
    <3>1. update.at \in InChat /\ update.thread = v
      BY <2>2 DEF IInv, ShownIsBound
    <3>2. update.session = s
      BY <2>2, <3>1 DEF IInv, TasksFit, ThreadIsOneConversation
    <3>3. binding[w].session # s
      BY <2>2, <3>1, <3>2 DEF IInv, HomeIsUnique, InChat
    <3>4. ~Bound(w)
      BY <2>2, <3>3 DEF IInv, LedgersAgree
    <3> QED
      BY <2>2, <3>1, <3>4 DEF IInv, ShownIsBound
  <2> QED
    BY <2>1, <2>2
<1> QED
  BY <1>1, Invariance, PTL

\* A thread whose delivery is over is bound, if nothing was lost.
THEOREM Connected == Spec => []ShownIsConnected
<1>1. IInv => ShownIsConnected
  BY DEF IInv, ShownIsBound, ShownIsConnected
<1> QED
  BY <1>1, Invariance, PTL

\* The prompt of a "/new" runs at most once, however often it is delivered
\* (feishu_lark_new_session.rs binds the thread before it sends the prompt).
THEOREM CommandRunsOnce == Spec => []NewRunsOnce
<1>1. IInv => NewRunsOnce
  BY DEF IInv, CommandRunsBound, NewRunsOnce
<1> QED
  BY <1>1, Invariance, PTL

=============================================================================
