--------------------------- MODULE DeliverySafety ---------------------------
(***************************************************************************)
(* The guard in front of every provider delivery.  Attempts of one message *)
(* to one target are counted in a sliding window; too many in it are a     *)
(* duplicate storm and are suppressed; storms of several messages within a *)
(* longer window pause all delivery, durably, until a reset.  The guard's  *)
(* windows live in the service; the pause is also in a file, which the CLI *)
(* rewrites itself when it finds no service to ask.                        *)
(***************************************************************************)
EXTENDS Naturals, Sequences, FiniteSets

LOCAL INSTANCE Functions

CONSTANTS
    Messages,           \* message fingerprints
    Targets,            \* a provider, or a provider and a room of it
    DuplicateWindow, DuplicateThreshold,
    GlobalPauseWindow, GlobalPauseThreshold,
    MaxTime,            \* bound on the clock
    MaxAttempts,        \* bound on the attempts in log
    MaxCrashes,         \* bound on crashes of the service
    Faults              \* "save_fails", "probe_timeout"

ASSUME DeliverySafetyAssumption ==
    /\ {DuplicateWindow, GlobalPauseWindow, MaxTime, MaxAttempts, MaxCrashes} \subseteq Nat
    /\ {DuplicateThreshold, GlobalPauseThreshold} \subseteq Nat \ {0}
    /\ IsFiniteSet(Messages)    \* digests of a fixed length
    /\ Faults \subseteq {"save_fails", "probe_timeout"}

VARIABLES
    now,            \* the wall clock
    live,           \* the service: "down", "starting" (no ingress yet) or "up"
    windows,        \* windows[k]: times of the counted attempts of key k
    suppressed,     \* suppressed messages, with the time of the last suppression
    paused,         \* the guard's global pause
    saved,          \* the pause in the state file
    cli,            \* where a running "safety reset" command is
    log,            \* history: log[k], the counted attempts of k since the windows
                    \* were last empty, and what became of each
    owed,           \* history: a pause was saved, and no reset has begun to end it
    resetHolds,     \* history: a reset reached whatever there was, the service or
                    \* the file of no service, and no pause started since
    crashes

guardVars == <<windows, suppressed, paused>>
vars == <<now, live, guardVars, saved, cli, log, owed, resetHolds, crashes>>

Keys == Messages \X Targets
NoWindows == [k \in Keys |-> <<>>]

----------------------------------------------------------------------------

Cutoff(t, span) == IF t < span THEN 0 ELSE t - span

\* The window from its first time that is not before t.
FromFirst(window, t) ==
    LET first == CHOOSE i \in 1 .. Len(window) + 1 :
                     /\ i <= Len(window) => window[i] >= t
                     /\ \A j \in 1 .. i - 1 : window[j] < t
    IN  SubSeq(window, first, Len(window))

\* Mutant of Pruned: a time exactly as old as the window is dropped too.
PrunedAtEdge(window, cutoff) == FromFirst(window, cutoff + 1)

\* Times are dropped from the front only, up to the first that is young enough.
Pruned(window, cutoff) == FromFirst(window, cutoff)

\* Mutant of Counted: the attempt's own window is not pruned.
CountedForEver(k) ==
    LET cutoff == Cutoff(now, DuplicateWindow)
    IN  [j \in Keys |-> IF j = k THEN Append(windows[j], now) ELSE Pruned(windows[j], cutoff)]

\* The windows once the attempt of k has been counted.
Counted(k) ==
    LET cutoff == Cutoff(now, DuplicateWindow)
    IN  [j \in Keys |-> IF j = k THEN Append(Pruned(windows[j], cutoff), now)
                        ELSE Pruned(windows[j], cutoff)]

\* Mutant of Suppressing: old entries stay.
SuppressingForEver(m) == {r \in suppressed : r.message # m} \cup {[message |-> m, at |-> now]}

\* The suppressed messages once m is among them.
Suppressing(m) ==
    {r \in suppressed : r.message # m /\ r.at >= Cutoff(now, GlobalPauseWindow)}
        \cup {[message |-> m, at |-> now]}

Logged(k, outcome) ==
    log' = [log EXCEPT ![k] = Append(@, [at |-> now, outcome |-> outcome])]

----------------------------------------------------------------------------

Init == /\ now = 0
        /\ live = "down"
        /\ windows = NoWindows
        /\ suppressed = {}
        /\ paused = FALSE
        /\ saved = FALSE
        /\ cli = "idle"
        /\ log = NoWindows
        /\ owed = FALSE
        /\ resetHolds = FALSE
        /\ crashes = 0

Tick == /\ now < MaxTime
        /\ now' = now + 1
        /\ UNCHANGED <<live, guardVars, saved, cli, log, owed, resetHolds, crashes>>

\* Mutant of Start: the file's pause is not read.
StartUnpaused == /\ live = "down"
                 /\ live' = "starting"
                 /\ windows' = NoWindows
                 /\ suppressed' = {}
                 /\ paused' = FALSE
                 /\ UNCHANGED <<now, saved, cli, log, owed, resetHolds, crashes>>

\* The guard is loaded before the tasks that deliver are spawned.
Start == /\ live = "down"
         /\ live' = "starting"
         /\ windows' = NoWindows
         /\ suppressed' = {}
         /\ paused' = saved
         /\ UNCHANGED <<now, saved, cli, log, owed, resetHolds, crashes>>

IngressListens == /\ live = "starting"
                  /\ live' = "up"
                  /\ UNCHANGED <<now, guardVars, saved, cli, log, owed, resetHolds, crashes>>

Crash == /\ live # "down"
         /\ crashes < MaxCrashes
         /\ crashes' = crashes + 1
         /\ live' = "down"
         /\ windows' = NoWindows
         /\ suppressed' = {}
         /\ paused' = FALSE
         /\ log' = NoWindows
         /\ UNCHANGED <<now, saved, cli, owed, resetHolds>>

MayAttempt == live # "down" /\ FoldFunctionOnSet(+, 0, [k \in Keys |-> Len(log[k])], Keys) < MaxAttempts

\* A paused guard counts nothing.
CheckPaused(k) ==
    /\ live # "down"
    /\ paused
    /\ UNCHANGED vars

CheckAllowed(k) ==
    /\ MayAttempt
    /\ ~paused
    /\ Len(Counted(k)[k]) < DuplicateThreshold
    /\ windows' = Counted(k)
    /\ Logged(k, "allowed")
    /\ UNCHANGED <<now, live, suppressed, paused, saved, cli, owed, resetHolds, crashes>>

\* A storm that is one of several starts the pause, which may fail to be saved.
Storm(k, saves) ==
    /\ MayAttempt
    /\ ~paused
    /\ Len(Counted(k)[k]) >= DuplicateThreshold
    /\ windows' = Counted(k)
    /\ suppressed' = Suppressing(k[1])
    /\ Logged(k, "storm")
    /\ saves \/ "save_fails" \in Faults
    /\ IF Cardinality(suppressed') >= GlobalPauseThreshold
       THEN /\ paused' = TRUE
            /\ resetHolds' = FALSE
            /\ saved' = (saves \/ saved)
            /\ owed' = saved'
       ELSE UNCHANGED <<paused, owed, resetHolds, saved>>
    /\ UNCHANGED <<now, live, cli, crashes>>

CheckStorm(k) == \E saves \in BOOLEAN : Storm(k, saves)

----------------------------------------------------------------------------
(* agents-router safety reset *)

\* The command asks the service if the ingress answers a ping in time.
CliProbe ==
    /\ cli = "idle"
    /\ \/ live = "up" /\ cli' = "ask_service"
       \/ (live # "up" \/ "probe_timeout" \in Faults) /\ cli' = "write_file"
    /\ UNCHANGED <<now, live, guardVars, saved, log, owed, resetHolds, crashes>>

\* Mutant of CliAskService: the reset is not saved.
CliAskServiceUnsaved ==
    /\ cli = "ask_service"
    /\ live = "up"
    /\ cli' = "idle"
    /\ windows' = NoWindows
    /\ suppressed' = {}
    /\ paused' = FALSE
    /\ log' = NoWindows
    /\ owed' = FALSE
    /\ resetHolds' = TRUE
    /\ UNCHANGED <<now, live, saved, crashes>>

CliAskService ==
    /\ cli = "ask_service"
    /\ cli' = "idle"
    /\ IF live = "up"
       THEN /\ windows' = NoWindows
            /\ suppressed' = {}
            /\ paused' = FALSE
            /\ log' = NoWindows
            /\ owed' = FALSE
            /\ \/ saved' = FALSE /\ resetHolds' = TRUE
               \/ "save_fails" \in Faults /\ UNCHANGED <<saved, resetHolds>>
       ELSE UNCHANGED <<guardVars, saved, log, owed, resetHolds>>
    /\ UNCHANGED <<now, live, crashes>>

CliWriteFile ==
    /\ cli = "write_file"
    /\ cli' = "idle"
    /\ saved' = FALSE
    /\ owed' = FALSE
    /\ resetHolds' = (resetHolds \/ live = "down")
    /\ UNCHANGED <<now, live, guardVars, log, crashes>>

----------------------------------------------------------------------------

Next == \/ Tick \/ Start \/ IngressListens \/ Crash
        \/ \E k \in Keys : CheckPaused(k) \/ CheckAllowed(k) \/ CheckStorm(k)
        \/ CliProbe \/ CliAskService \/ CliWriteFile

Spec == Init /\ [][Next]_vars

----------------------------------------------------------------------------
(* Properties. *)

\* Every variable keeps its type: the times among them lie within the clock's.
TypeOK == /\ now \in 0 .. MaxTime
          /\ live \in {"down", "starting", "up"}
          /\ windows \in [Keys -> Seq(0 .. MaxTime)]
          /\ suppressed \subseteq [message : Messages, at : 0 .. MaxTime]
          /\ {paused, saved, owed, resetHolds} \subseteq BOOLEAN
          /\ cli \in {"idle", "ask_service", "write_file"}
          /\ log \in [Keys -> Seq([at : 0 .. MaxTime, outcome : {"allowed", "storm"}])]
          /\ crashes \in 0 .. MaxCrashes

\* The attempts of k logged by its i-th, in the window that ends there.
Recent(k, i, outcomes) ==
    {j \in 1 .. i : /\ log[k][j].outcome \in outcomes
                    /\ log[k][j].at >= Cutoff(log[k][i].at, DuplicateWindow)}

\* A message reaches a target fewer than DuplicateThreshold times in any window
\* of the guard's life, and nothing is suppressed as a duplicate unless that many
\* attempts really fell into the window: a storm is cut off, while a slow repeat,
\* or another target's, is never held back.
StormsAreCutOff ==
    \A k \in Keys : \A i \in 1 .. Len(log[k]) :
        IF log[k][i].outcome = "allowed"
        THEN Cardinality(Recent(k, i, {"allowed"})) < DuplicateThreshold
        ELSE Cardinality(Recent(k, i, {"allowed", "storm"})) >= DuplicateThreshold

\* Delivery pauses only after storms of as many different messages as the
\* threshold says, all of them within the pause window.
StormsOf(m) == UNION {{log'[k][j].at : j \in {j \in 1 .. Len(log'[k]) :
                          log'[k][j].outcome = "storm"}} : k \in {m} \X Targets}
PauseIsJustified ==
    [][~paused /\ paused' /\ live' = live =>
        Cardinality({m \in Messages : \E t \in StormsOf(m) : t + GlobalPauseWindow >= now})
            >= GlobalPauseThreshold]_vars

\* A pause that was saved lasts until a reset begins to end it: restarts of the
\* service do not end it.
PauseIsKept == owed /\ live # "down" => paused

\* A reset that reached the running service, or the file while no service ran,
\* ends the pause for good: neither the guard nor a restart brings it back.
ResetEndsPause == resetHolds /\ live # "down" => ~paused

\* The pause is what the storms and resets so far ask for, whatever restarts.
PauseIsDurable == PauseIsKept /\ ResetEndsPause

\* The inductive invariant behind it: the file agrees, too.
Flags == {paused, saved, owed, resetHolds} \subseteq BOOLEAN
PauseInv == /\ Flags
            /\ owed => saved
            /\ resetHolds => ~saved
            /\ PauseIsDurable
=============================================================================
