--------------------------- MODULE DesktopWatcher ---------------------------
(***************************************************************************)
(* The Codex Desktop source: a loop that reads what Codex has appended to  *)
(* its rollout files and routes each finished turn once.                   *)
(*                                                                         *)
(* Codex writes a turn's completion in two parts, so that a poll may find  *)
(* half a line.  A poll reads the ledger's index of reply turns, then the  *)
(* files, hands every new turn to the router, and only then replaces the   *)
(* watch state in memory and in its file.  Offsets count whole lines.      *)
(* While the config asks for prompts, a prompt that was read waits in      *)
(* memory for the end of a turn of its file.                               *)
(***************************************************************************)
EXTENDS Naturals, Sequences, SequencesExt, FiniteSets

CONSTANTS
    NumFiles,       \* rollout files are 1 .. NumFiles, in the order of their paths
    NumTurns,       \* turns are 1 .. NumTurns, in the order of their delivery keys
    FileOf,         \* FileOf[t]: the rollout file of turn t
    DesktopFiles,   \* files whose session was started by Codex Desktop
    ReplyTurns,     \* turns that continue a session for a reply in a chat thread
    MaxDelivered,   \* capacity of the set of delivered turns, 2000 in the code
    MaxCrashes,     \* bound on crashes of the service
    MaxDisturbances \* bound on rewrites and disappearances of files, and on
                    \* changes of the prompt detail

Files == 1 .. NumFiles
Turns == 1 .. NumTurns

WatcherAssumption ==
    /\ NumFiles \in Nat /\ NumTurns \in Nat
    /\ FileOf \in [Turns -> Files]
    /\ DesktopFiles \subseteq Files
    /\ ReplyTurns \subseteq Turns
    /\ MaxDelivered \in Nat \ {0} /\ MaxCrashes \in Nat /\ MaxDisturbances \in Nat

VARIABLES
    lines,      \* lines[f]: the whole lines of file f, a turn's prompt or its completion
    half,       \* half[f]: the turn whose completion is half written, or 0
    here,       \* the files that are in the directory
    recorded,   \* reply turns the ledger knows
    prompts,    \* the config in use asks for prompts
    watch,      \* the loop: off, ready, indexed or routing
    index,      \* the reply turns this poll has read from the ledger
    state,      \* the watch state in memory: offsets and delivered turns
    pending,    \* pending[f]: the turn whose prompt was read last in file f, or 0
    batch,      \* what this poll has read: signals, the next state and prompts
    saved,      \* the watch state in its file
    routed,     \* routed[t]: how many times turn t was handed to the router
    live,       \* turns that ended since the watch began
    missed,     \* turns that ended while nothing watched
    quick,      \* reply turns that ended before the ledger, or the poll at work,
                \* knew them
    disturbed,  \* files that were rewritten, or gone for a while
    forgotten,  \* turns handed to the router whose key was evicted or not saved
    heard,      \* turns whose prompt this watch has read
    unheard,    \* turns of which a line was read while no prompts were asked for
    crashes, disturbances

fileVars    == <<lines, half, here>>
watchVars   == <<watch, index, state, pending, batch, saved>>
promptVars  == <<heard, unheard>>
historyVars == <<routed, live, missed, quick, disturbed, forgotten, promptVars>>
boundVars   == <<crashes, disturbances>>
vars == <<fileVars, recorded, prompts, watchVars, historyVars, boundVars>>

Asked(t) == [is |-> "asked", turn |-> t]
Done(t)  == [is |-> "done", turn |-> t]

NoState == [offset |-> [f \in Files |-> 0], delivered |-> {}]
NoPrompts == [f \in Files |-> 0]
NoBatch == [signals |-> <<>>, next |-> NoState, pending |-> NoPrompts]

Init == /\ lines = [f \in Files |-> <<>>]
        /\ half = [f \in Files |-> 0]
        /\ here = Files
        /\ recorded = {}
        /\ prompts \in BOOLEAN
        /\ watch = "off"
        /\ index = {}
        /\ state = NoState
        /\ pending = NoPrompts
        /\ batch = NoBatch
        /\ saved = NoState
        /\ routed = [t \in Turns |-> 0]
        /\ live = {}
        /\ missed = {}
        /\ quick = {}
        /\ disturbed = {}
        /\ forgotten = {}
        /\ heard = {}
        /\ unheard = {}
        /\ crashes = 0
        /\ disturbances = 0

----------------------------------------------------------------------------
(* Codex and the reply worker. *)

RecordReplyTurn(t) ==
    /\ t \in ReplyTurns \ recorded
    /\ recorded' = recorded \cup {t}
    /\ UNCHANGED <<fileVars, prompts, watchVars, historyVars, boundVars>>

\* The session takes one turn at a time; one that is followed by another without a
\* completion was interrupted.
Ask(t) ==
    LET f == FileOf[t] IN
    /\ f \in here
    /\ half[f] = 0
    /\ {Asked(t), Done(t)} \cap ToSet(lines[f]) = {}
    /\ lines' = [lines EXCEPT ![f] = Append(@, Asked(t))]
    /\ UNCHANGED <<half, here, recorded, prompts, watchVars, historyVars, boundVars>>

BeginLine(t) ==
    LET f == FileOf[t] IN
    /\ f \in here
    /\ half[f] = 0
    /\ Done(t) \notin ToSet(lines[f])
    /\ Asked(t) \in ToSet(lines[f]) => Last(lines[f]) = Asked(t)
    /\ half' = [half EXCEPT ![f] = t]
    /\ UNCHANGED <<lines, here, recorded, prompts, watchVars, historyVars, boundVars>>

FinishLine(f) ==
    LET t == half[f] IN
    /\ f \in here
    /\ t # 0
    /\ lines' = [lines EXCEPT ![f] = Append(@, Done(t))]
    /\ half' = [half EXCEPT ![f] = 0]
    /\ IF watch = "off"
       THEN missed' = missed \cup {t} /\ live' = live
       ELSE live' = live \cup {t} /\ missed' = missed
    /\ quick' = quick \cup (({t} \cap ReplyTurns) \ (IF watch = "indexed" THEN index ELSE recorded))
    /\ UNCHANGED <<here, recorded, prompts, watchVars, routed, disturbed, forgotten, promptVars,
                   boundVars>>

\* The file is replaced by a shorter one.
Rewrite(f, n) ==
    /\ disturbances < MaxDisturbances
    /\ f \in here
    /\ n < Len(lines[f])
    /\ lines' = [lines EXCEPT ![f] = SubSeq(@, 1, n)]
    /\ half' = [half EXCEPT ![f] = 0]
    /\ disturbances' = disturbances + 1
    /\ disturbed' = disturbed \cup {f}
    /\ UNCHANGED <<here, recorded, prompts, watchVars, routed, live, missed, quick, forgotten,
                   promptVars, crashes>>

Disappear(f) ==
    /\ disturbances < MaxDisturbances
    /\ f \in here
    /\ here' = here \ {f}
    /\ disturbances' = disturbances + 1
    /\ disturbed' = disturbed \cup {f}
    /\ UNCHANGED <<lines, half, recorded, prompts, watchVars, routed, live, missed, quick, forgotten,
                   promptVars, crashes>>

Reappear(f) ==
    /\ f \in Files \ here
    /\ here' = here \cup {f}
    /\ UNCHANGED <<lines, half, recorded, prompts, watchVars, historyVars, boundVars>>

\* A reload changes the detail; a poll goes on with the config it began with.
SwitchPrompts ==
    /\ disturbances < MaxDisturbances
    /\ watch \in {"off", "ready"}
    /\ prompts' = ~prompts
    /\ disturbances' = disturbances + 1
    /\ UNCHANGED <<fileVars, recorded, watchVars, historyVars, crashes>>

----------------------------------------------------------------------------
(* The watch loop. *)

\* Mutant of Baseline: the watch goes on where the last one stopped.
BaselineSaved == saved

\* A start skips what the files hold: every offset moves to the end of the
\* last whole line, and files that are not there keep the offset they had.
Baseline == [saved EXCEPT !.offset =
                 [f \in Files |-> IF f \in here THEN Len(lines[f]) ELSE saved.offset[f]]]

StartWatch ==
    /\ watch = "off"
    /\ watch' = "ready"
    /\ state' = Baseline
    /\ saved' = Baseline
    /\ UNCHANGED <<fileVars, recorded, prompts, index, pending, batch, historyVars, boundVars>>

\* The source left the config, or the service was asked to stop.
StopWatch ==
    /\ watch = "ready"
    /\ watch' = "off"
    /\ state' = NoState
    /\ saved' = state
    /\ pending' = NoPrompts
    /\ live' = {}
    /\ heard' = {}
    /\ UNCHANGED <<fileVars, recorded, prompts, index, batch, routed, missed, quick, disturbed,
                   forgotten, unheard, boundVars>>

ReadIndex ==
    /\ watch = "ready"
    /\ watch' = "indexed"
    /\ index' = recorded
    /\ UNCHANGED <<fileVars, recorded, prompts, state, pending, batch, saved, historyVars, boundVars>>

\* A file shorter than the offset is read from its beginning.
From(f) == IF state.offset[f] > Len(lines[f]) THEN 0 ELSE state.offset[f]

NewLines(f) == IF f \in here THEN SubSeq(lines[f], From(f) + 1, Len(lines[f])) ELSE <<>>

\* Nothing read leaves the offset alone, even one beyond the end.
NextOffset(f) == IF NewLines(f) = <<>> THEN state.offset[f] ELSE Len(lines[f])

\* The smallest keys go first when the set is over its capacity.
Evicted(set) == {t \in set : Cardinality({u \in set : u >= t}) <= MaxDelivered}

\* What is announced of a turn of a Desktop session, with the prompt that waits in
\* its file.
Draft(acc, t) == [turn |-> t, prompt |-> IF prompts THEN acc.pending[FileOf[t]] ELSE 0]

\* The prompt that waits is used up by the first turn that ends, announced or not.
UsedUp(acc, t) == IF prompts THEN [acc EXCEPT !.pending[FileOf[t]] = 0] ELSE acc

Deliver(acc, t)  == [acc EXCEPT !.delivered = Evicted(@ \cup {t})]
Announce(acc, t) == [Deliver(UsedUp(acc, t), t) EXCEPT !.signals = Append(@, Draft(acc, t))]

\* Mutant of TakeTurn: the index of reply turns is not looked at.
TakeTurnUnindexed(acc, t) ==
    IF t \in acc.delivered THEN acc
    ELSE IF FileOf[t] \in DesktopFiles THEN Announce(acc, t)
    ELSE UsedUp(acc, t)

\* Mutant of TakeTurn: a turn that was delivered is delivered again.
TakeTurnAgain(acc, t) ==
    IF t \in index THEN Deliver(UsedUp(acc, t), t)
    ELSE IF FileOf[t] \in DesktopFiles THEN Announce(acc, t)
    ELSE UsedUp(acc, t)

\* Mutant of TakeTurn: a reply turn leaves its prompt behind.
TakeTurnPromptLeft(acc, t) ==
    IF t \in acc.delivered THEN acc
    ELSE IF t \in index THEN Deliver(acc, t)
    ELSE IF FileOf[t] \in DesktopFiles THEN Announce(acc, t)
    ELSE UsedUp(acc, t)

\* A reply turn is marked delivered without a signal: its answer goes to the
\* chat thread.
TakeTurn(acc, t) ==
    IF t \in acc.delivered THEN acc
    ELSE IF t \in index THEN Deliver(UsedUp(acc, t), t)
    ELSE IF FileOf[t] \in DesktopFiles THEN Announce(acc, t)
    ELSE UsedUp(acc, t)

\* A prompt is taken up only while prompts are asked for.
IsItem(line) == prompts \/ line.is = "done"

TakeItem(acc, line) ==
    IF ~IsItem(line) THEN acc
    ELSE IF line.is = "asked" THEN [acc EXCEPT !.pending[FileOf[line.turn]] = line.turn]
    ELSE TakeTurn(acc, line.turn)

TurnsOf(items) == {item.turn : item \in ToSet(items)}
NewTurns(kind) == UNION {{line.turn : line \in {l \in ToSet(NewLines(f)) : l.is \in kind}} : f \in Files}

ReadFiles ==
    /\ watch = "indexed"
    /\ LET taken == FoldLeft(TakeItem,
                             [delivered |-> state.delivered, signals |-> <<>>, pending |-> pending],
                             FlattenSeq([f \in Files |-> NewLines(f)]))
       IN  /\ batch' = [signals |-> taken.signals,
                        next    |-> [offset    |-> [f \in Files |-> NextOffset(f)],
                                     delivered |-> taken.delivered],
                        pending |-> taken.pending]
           /\ forgotten' = forgotten \cup
                  ((state.delivered \cup TurnsOf(taken.signals)) \ taken.delivered)
    /\ watch' = "routing"
    /\ index' = {}
    /\ heard'   = IF prompts THEN heard \cup NewTurns({"asked"}) ELSE heard
    /\ unheard' = IF prompts THEN unheard ELSE unheard \cup NewTurns({"asked", "done"})
    /\ UNCHANGED <<fileVars, recorded, prompts, state, pending, saved, routed, live, missed, quick,
                   disturbed, boundVars>>

\* Mutant of RouteNext: a failure of the first signal ends the batch.
RouteNextOnly ==
    /\ watch = "routing"
    /\ batch.signals # <<>>
    /\ routed' = [routed EXCEPT ![Head(batch.signals).turn] = @ + 1]
    /\ batch' = [batch EXCEPT !.signals = <<>>]
    /\ UNCHANGED <<fileVars, recorded, prompts, watch, index, state, pending, saved, live, missed,
                   quick, disturbed, forgotten, promptVars, boundVars>>

\* The router is called once for a signal, whatever comes of it.
RouteNext ==
    /\ watch = "routing"
    /\ batch.signals # <<>>
    /\ routed' = [routed EXCEPT ![Head(batch.signals).turn] = @ + 1]
    /\ batch' = [batch EXCEPT !.signals = Tail(@)]
    /\ UNCHANGED <<fileVars, recorded, prompts, watch, index, state, pending, saved, live, missed,
                   quick, disturbed, forgotten, promptVars, boundVars>>

\* Mutant of Remember: the prompts that were read are not kept for the next poll.
RememberState == state' = batch.next /\ saved' = batch.next /\ UNCHANGED pending

\* The prompts are kept in memory only.
Remember == state' = batch.next /\ saved' = batch.next /\ pending' = batch.pending

Commit ==
    /\ watch = "routing"
    /\ batch.signals = <<>>
    /\ watch' = "ready"
    /\ Remember
    /\ batch' = NoBatch
    /\ UNCHANGED <<fileVars, recorded, prompts, index, historyVars, boundVars>>

\* The service dies, or a read error ends the loop and the service with it.
Crash ==
    /\ crashes < MaxCrashes
    /\ watch # "off"
    /\ crashes' = crashes + 1
    /\ watch' = "off"
    /\ state' = NoState
    /\ index' = {}
    /\ pending' = NoPrompts
    /\ batch' = NoBatch
    /\ live' = {}
    /\ heard' = {}
    /\ forgotten' = forgotten \cup (batch.next.delivered \ saved.delivered)
    /\ UNCHANGED <<fileVars, recorded, prompts, saved, routed, missed, quick, disturbed, unheard,
                   disturbances>>

WatchStep == StartWatch \/ ReadIndex \/ ReadFiles \/ RouteNext \/ Commit

Next == \/ \E t \in Turns : RecordReplyTurn(t) \/ Ask(t) \/ BeginLine(t)
        \/ \E f \in Files : FinishLine(f) \/ Disappear(f) \/ Reappear(f)
        \/ \E f \in Files, n \in 0 .. 2 * NumTurns : Rewrite(f, n)
        \/ WatchStep \/ SwitchPrompts \/ StopWatch \/ Crash

Spec == Init /\ [][Next]_vars

\* The loop's interval goes on ticking and every call it makes returns.
FairSpec == Spec /\ WF_vars(WatchStep)

----------------------------------------------------------------------------
(* Properties. *)

\* Every variable keeps the shape of its type, and the delivered turns fit
\* their capacity.
WatchState == [offset : [Files -> Nat], delivered : SUBSET Turns]
TypeOK == /\ \A f \in Files : lines[f] \in Seq(UNION {{Asked(t), Done(t)} : t \in {u \in Turns : FileOf[u] = f}})
          /\ half \in [Files -> Turns \cup {0}]
          /\ here \subseteq Files
          /\ recorded \subseteq ReplyTurns
          /\ watch \in {"off", "ready", "indexed", "routing"}
          /\ index \subseteq recorded
          /\ state \in WatchState /\ saved \in WatchState /\ batch.next \in WatchState
          /\ prompts \in BOOLEAN
          /\ batch.signals \in Seq([turn : Turns, prompt : Turns \cup {0}])
          /\ {pending, batch.pending} \subseteq [Files -> Turns \cup {0}]
          /\ \A s \in {state, saved, batch.next} : Cardinality(s.delivered) <= MaxDelivered
          /\ routed \in [Turns -> Nat]
          /\ {live, missed, quick, forgotten, heard, unheard} \subseteq SUBSET Turns
          /\ disturbed \subseteq Files
          /\ crashes \in 0 .. MaxCrashes /\ disturbances \in 0 .. MaxDisturbances

\* A turn is handed to the router at most once, whatever crashes between its
\* routing and the checkpoint: the offset and the delivered turns both keep it from
\* being announced again, and it takes the loss of both to do so.
RoutedOnce ==
    \A t \in Turns : FileOf[t] \notin disturbed \/ t \notin forgotten => routed[t] <= 1

\* Only turns that ended under the watch's eyes are announced: what ended while
\* nothing watched is not replayed, unless its file came back or was rewritten.
NoBacklog == \A t \in missed : FileOf[t] \in disturbed \/ routed[t] = 0

\* A turn that a reply in a chat thread started is not announced in addition to
\* the answer the thread gets, unless it ended before the index could know it.
EchoIsSuppressed == \A t \in ReplyTurns \ quick : routed[t] = 0

\* A turn is announced with its own prompt if this watch has read it, across polls
\* and whatever turns are suppressed before; a turn without one gets no other's.  What
\* may be left over is the prompt of a turn that was interrupted, or of one whose end
\* was read while no prompts were asked for.
PromptIsItsOwn ==
    \A s \in ToSet(batch.signals) :
        FileOf[s.turn] \notin disturbed =>
            /\ prompts /\ s.turn \in heard => s.prompt = s.turn
            /\ s.prompt \notin {0, s.turn} =>
                   s.prompt \in unheard \/ Done(s.prompt) \notin ToSet(lines[FileOf[s.turn]])

\* A turn of a Desktop session that ends while the loop runs is announced, unless
\* the watch ends first or the turn's file is rewritten or leaves the directory.
AnnouncedTurns == {t \in Turns \ ReplyTurns : FileOf[t] \in DesktopFiles}
LiveIsRouted ==
    \A t \in AnnouncedTurns :
        t \in live /\ FileOf[t] \notin disturbed
            ~> routed[t] > 0 \/ t \notin live \/ FileOf[t] \in disturbed
=============================================================================
