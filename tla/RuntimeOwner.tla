---------------------------- MODULE RuntimeOwner ----------------------------
(***************************************************************************)
(* One "agents-router watch" owns the state directory.  The owner is the   *)
(* process whose lock file is at a fixed path; a start that finds a lock   *)
(* reads it, asks the operating system for the process named in it, and    *)
(* removes the file if that process is gone.  Each of these is a system    *)
(* call of its own, and so is each step of leaving.  A signal ends a       *)
(* process without the destructor that removes its lock, so that stale     *)
(* locks are what every restart by a service manager finds.                *)
(***************************************************************************)
EXTENDS Naturals

CONSTANTS
    Runtimes,       \* starts of the program
    Pids,           \* process ids: used again once they are free
    Overlap,        \* may one start begin while another has not ended?
    Foreign,        \* may other programs take a free process id?
    MaxKills,       \* bound on runtimes that die without their destructor
    WriteFails,     \* may the lock's content fail to be written?
    NoRuntime, NoPid

ASSUME RuntimeOwnerAssumption ==
    /\ {Overlap, Foreign, WriteFails} \subseteq BOOLEAN
    /\ MaxKills \in Nat
    /\ NoRuntime \notin Runtimes
    /\ NoPid \notin Pids

VARIABLES
    at,             \* at[r]: where runtime r is
    pid,            \* pid[r]: its process id
    lock,           \* the runtime that created the file at the path, or NoRuntime
    written,        \* the runtimes that have written the content of their file
    seen,           \* seen[r]: the process id r has read from the lock
    foreign,        \* process ids that other programs have
    kills

vars == <<at, pid, lock, written, seen, foreign, kills>>

Starting == {"creating", "writing", "reading", "probing", "removing"}
Holding  == {"owner", "releasing"}
Ended    == {"gone", "refused", "failed"}
Alive(r) == at[r] \in Starting \cup Holding

Used(n) == n \in foreign \/ \E r \in Runtimes : Alive(r) /\ pid[r] = n

GoTo(r, place) == at' = [at EXCEPT ![r] = place]

----------------------------------------------------------------------------

Init == /\ at = [r \in Runtimes |-> "none"]
        /\ pid = [r \in Runtimes |-> NoPid]
        /\ lock = NoRuntime
        /\ written = {}
        /\ seen = [r \in Runtimes |-> NoPid]
        /\ foreign = {}
        /\ kills = 0

\* Overlap is about the environment: a service manager waits for the start it made.
Begin(r, n) ==
    /\ at[r] = "none"
    /\ ~Used(n)
    /\ Overlap \/ \A q \in Runtimes : at[q] \notin Starting
    /\ GoTo(r, "creating")
    /\ pid' = [pid EXCEPT ![r] = n]
    /\ UNCHANGED <<lock, written, seen, foreign, kills>>

\* Mutant of Create: the file is opened whether or not there is one.
CreateOver(r) ==
    /\ at[r] = "creating"
    /\ lock' = r
    /\ GoTo(r, "writing")
    /\ UNCHANGED <<pid, written, seen, foreign, kills>>

Create(r) ==
    /\ at[r] = "creating"
    /\ IF lock = NoRuntime
       THEN lock' = r /\ GoTo(r, "writing")
       ELSE UNCHANGED lock /\ GoTo(r, "reading")
    /\ UNCHANGED <<pid, written, seen, foreign, kills>>

\* The content goes to the file r created, also when it is no longer at the path.
WriteInfo(r) ==
    /\ at[r] = "writing"
    /\ written' = written \cup {r}
    /\ GoTo(r, "owner")
    /\ UNCHANGED <<pid, lock, seen, foreign, kills>>

WriteInfoFails(r) ==
    /\ at[r] = "writing"
    /\ WriteFails
    /\ GoTo(r, "failed")
    /\ UNCHANGED <<pid, lock, written, seen, foreign, kills>>

\* A lock that has gone, or has no complete content, is an error of the start.
ReadInfo(r) ==
    /\ at[r] = "reading"
    /\ IF lock \in written
       THEN seen' = [seen EXCEPT ![r] = pid[lock]] /\ GoTo(r, "probing")
       ELSE UNCHANGED seen /\ GoTo(r, "failed")
    /\ UNCHANGED <<pid, lock, written, foreign, kills>>

\* Mutant of Probe: only a program of another name keeps the lock alive.
ProbeForeign(r) ==
    /\ at[r] = "probing"
    /\ GoTo(r, IF seen[r] \in foreign THEN "refused" ELSE "removing")
    /\ UNCHANGED <<pid, lock, written, seen, foreign, kills>>

\* Mutant of Probe: a lock is never taken for stale.
ProbeTrusting(r) ==
    /\ at[r] = "probing"
    /\ GoTo(r, "refused")
    /\ UNCHANGED <<pid, lock, written, seen, foreign, kills>>

\* Any process of that id keeps the lock, one of another program too.
Probe(r) ==
    /\ at[r] = "probing"
    /\ GoTo(r, IF Used(seen[r]) THEN "refused" ELSE "removing")
    /\ UNCHANGED <<pid, lock, written, seen, foreign, kills>>

\* Whatever file is at the path now is removed.
RemoveStale(r) ==
    /\ at[r] = "removing"
    /\ lock' = NoRuntime
    /\ GoTo(r, IF lock = NoRuntime THEN "failed" ELSE "creating")
    /\ UNCHANGED <<pid, written, seen, foreign, kills>>

\* The destructor: the lock is left alone unless it names this very runtime.
ExitReads(r) ==
    /\ at[r] = "owner"
    /\ GoTo(r, IF lock = r THEN "releasing" ELSE "gone")
    /\ UNCHANGED <<pid, lock, written, seen, foreign, kills>>

ExitRemoves(r) ==
    /\ at[r] = "releasing"
    /\ lock' = NoRuntime
    /\ GoTo(r, "gone")
    /\ UNCHANGED <<pid, written, seen, foreign, kills>>

Killed(r) ==
    /\ Alive(r)
    /\ kills < MaxKills
    /\ kills' = kills + 1
    /\ GoTo(r, "gone")
    /\ UNCHANGED <<pid, lock, written, seen, foreign>>

OtherProgram(n) ==
    /\ Foreign
    /\ \/ ~Used(n) /\ foreign' = foreign \cup {n}
       \/ n \in foreign /\ foreign' = foreign \ {n}
    /\ UNCHANGED <<at, pid, lock, written, seen, kills>>

Next == \/ \E r \in Runtimes :
              \/ \E n \in Pids : Begin(r, n)
              \/ Create(r) \/ WriteInfo(r) \/ WriteInfoFails(r)
              \/ ReadInfo(r) \/ Probe(r) \/ RemoveStale(r)
              \/ ExitReads(r) \/ ExitRemoves(r) \/ Killed(r)
        \/ \E n \in Pids : OtherProgram(n)

Spec == Init /\ [][Next]_vars

----------------------------------------------------------------------------
(* Properties. *)

\* Every variable keeps its type, and a runtime that acts has a process id.
TypeOK == /\ at \in [Runtimes -> {"none"} \cup Starting \cup Holding \cup Ended]
          /\ pid \in [Runtimes -> Pids \cup {NoPid}]
          /\ \A r \in Runtimes : at[r] # "none" => pid[r] \in Pids
          /\ lock \in Runtimes \cup {NoRuntime}
          /\ lock \in Runtimes => at[lock] # "none"
          /\ written \subseteq Runtimes
          /\ seen \in [Runtimes -> Pids \cup {NoPid}]
          /\ foreign \subseteq Pids
          /\ kills \in 0 .. MaxKills

\* Two runtimes never own the state directory at once.
OneOwner == \A r, q \in Runtimes : at[r] \in Holding /\ at[q] \in Holding => r = q

\* An owner's lock stays at the path until the owner leaves: neither a start
\* that took an old lock for stale nor another runtime's exit removes it.
OwnerKeepsItsLock == \A r \in Runtimes : at[r] \in Holding => lock = r

\* A start is refused only when another runtime owns the state, or the process
\* id in the lock has gone to another program, or to the start itself: a lock
\* that a killed runtime left is no obstacle otherwise.
RefusalIsExplained ==
    [][\A r \in Runtimes : at[r] # "refused" /\ at'[r] = "refused"
           => \/ \E q \in Runtimes \ {r} : at[q] \in Holding
              \/ seen[r] \in foreign \cup {pid[r]}]_vars

\* The inductive invariant behind OneOwner, when starts do not overlap.

OneStart == \A r, q \in Runtimes : at[r] \in Starting /\ at[q] \in Starting => r = q

WriterHasItsLock == \A r \in Runtimes : at[r] = "writing" => lock = r

ProbedIsTheLock ==
    \A r \in Runtimes : at[r] = "probing" /\ lock \in Runtimes => seen[r] = pid[lock]

RemovedIsStale ==
    \A r \in Runtimes : at[r] = "removing" /\ lock \in Runtimes => ~Alive(lock)

IInv == OwnerKeepsItsLock /\ OneStart /\ WriterHasItsLock /\ ProbedIsTheLock /\ RemovedIsStale
=============================================================================
