------------------------- MODULE ReplyContinuation -------------------------
(***************************************************************************)
(* A reply in a Feishu/Lark thread continues an agent session.  The module *)
(* follows one reply ("event") through every part that touches it:         *)
(*                                                                         *)
(*   the platform       redelivers the event until its ack arrives         *)
(*   the link           the long connection: claim, ack, dispatch, in turn *)
(*   the ledger         the durable records of the events, in one file     *)
(*   the scope guard    one lease for each agent session                   *)
(*   a task             the worker that runs the turn and answers, or the  *)
(*                      task that posts the busy notice                    *)
(*   recovery           one pass over the ledger's records in their order, *)
(*                      run at each start, concurrently with the link      *)
(*                                                                         *)
(* A crash takes the link, the leases, the tasks and the recovery; the     *)
(* ledger, the platform's queue and what the agent and the thread received *)
(* stay.  Everything that can go wrong outside of the process and is not a *)
(* crash is named in Faults.                                               *)
(***************************************************************************)
EXTENDS Naturals, SequencesExt, ReplyNotices

CONSTANTS
    Events,         \* provider events, each one reply
    Sessions,       \* agent sessions
    SessionOf,      \* SessionOf[e]: the session the reply continues
    ThreadBound,    \* events claimed through a thread binding of the bridge,
                    \* which have no record in the surface ledger
    MaxCrashes,     \* bound on restarts of the service
    Faults,         \* what may go wrong in a run
    NoEvent

AllFaults == {"ack_lost",       \* the ack fails, or is sent and never arrives
              "send_fails",     \* posting to the thread fails after its retries
              "reload",         \* a config reload drops the provider or the route
              "ledger_io",      \* the ledger file cannot be read or written
              "poll_mismatch",  \* a status poll answers for another thread
              "long_downtime"}  \* the service stays down for over 48 hours

ASSUME ReplyAssumption ==
    /\ SessionOf \in [Events -> Sessions]
    /\ ThreadBound \subseteq Events
    /\ MaxCrashes \in Nat
    /\ Faults \subseteq AllFaults
    /\ NoEvent \notin Events

VARIABLES
    status,         \* status[e]: the event's record in the durable ledger
    claims,         \* the events that have a record, in the order of the ledger's file
    platform,       \* platform[e]: the event's delivery state at the platform
    link,           \* the long connection's loop: where it is, with which event
    stage,          \* stage[e]: where the event's task is
    pending,        \* pending[e]: the text the task is posting or has posted
    holder,         \* holder[s]: the event whose task holds the lease of s
    turns,          \* turns[e]: how many times the reply has reached the agent
    told,           \* told[e]: the texts posted under the reply
    mismatched,     \* events whose turn was given up for a poll of another thread
    recovery,       \* the recovery task
    todo,           \* the records recovery has read and not yet passed
    noticed,        \* has recovery posted the restart notice of the first of them?
    config,         \* what the current config still has
    stale,          \* events received over 48 hours before the current start
    crashes

ledgerVars   == <<status, claims>>
taskVars     == <<stage, pending, holder>>
historyVars  == <<turns, told, mismatched>>
recoveryVars == <<recovery, todo, noticed>>
startVars    == <<stale, crashes>>
vars == <<ledgerVars, platform, link, taskVars, historyVars, recoveryVars, config, startVars>>

Processing == {"claimed_before_submit", "submitted_possible"}
Statuses   == {"none"} \cup Processing \cup Verdicts
Stages     == {"none", "queued", "before_submit", "turn_sent", "waiting",
               "settling", "busy", "replying", "recording"}
Running    == {"before_submit", "turn_sent", "waiting"}
Idle       == [at |-> "idle", event |-> NoEvent, claimed |-> FALSE]
ConfigParts == {"provider", "route"}

----------------------------------------------------------------------------
(* The ledger's operations on one record. *)

\* Verdicts are final; anything else is overwritten.
Recorded(st, new) == IF st \in Verdicts THEN st ELSE new

\* A record that is not there cannot be given one of these statuses.
CanRecord(e) == status[e] # "none"

\* The record keeps its place in the file.
Record(e, new) == /\ status' = [status EXCEPT ![e] = Recorded(@, new)]
                  /\ UNCHANGED claims

----------------------------------------------------------------------------

Init == /\ status = [e \in Events |-> "none"]
        /\ claims = <<>>
        /\ platform = [e \in Events |-> "unsent"]
        /\ link = Idle
        /\ stage = [e \in Events |-> "none"]
        /\ pending = [e \in Events |-> "none"]
        /\ holder = [s \in Sessions |-> NoEvent]
        /\ turns = [e \in Events |-> 0]
        /\ told = [e \in Events |-> {}]
        /\ mismatched = {}
        /\ recovery = "loading"
        /\ todo = <<>>
        /\ noticed = FALSE
        /\ config = ConfigParts
        /\ stale = {}
        /\ crashes = 0

----------------------------------------------------------------------------
(* The platform and the long connection. *)

PlatformPost(e) ==
    /\ platform[e] = "unsent"
    /\ platform' = [platform EXCEPT ![e] = "pending"]
    /\ UNCHANGED <<ledgerVars, link, taskVars, historyVars, recoveryVars, config, startVars>>

\* Mutant of Receive: only a verdict makes an event a duplicate.
ReceiveReclaiming(e) ==
    /\ link.at = "idle"
    /\ platform[e] = "pending"
    /\ link' = [at |-> "acking", event |-> e, claimed |-> status[e] \notin Verdicts]
    /\ status' = [status EXCEPT ![e] = IF @ \in Verdicts THEN @ ELSE "claimed_before_submit"]
    /\ claims' = IF status[e] = "none" THEN Append(claims, e) ELSE claims
    /\ UNCHANGED <<platform, taskVars, historyVars, recoveryVars, config, startVars>>

\* Mutant of Receive: the newest claim is the first record of the file.
ReceiveInFront(e) ==
    /\ link.at = "idle"
    /\ platform[e] = "pending"
    /\ link' = [at |-> "acking", event |-> e, claimed |-> status[e] = "none"]
    /\ status' = [status EXCEPT ![e] = IF @ = "none" THEN "claimed_before_submit" ELSE @]
    /\ claims' = IF status[e] = "none" THEN <<e>> \o claims ELSE claims
    /\ UNCHANGED <<platform, taskVars, historyVars, recoveryVars, config, startVars>>

\* The event is claimed if the ledger has no record of it; a record of any
\* status makes it a duplicate, which is acknowledged and skipped.  The new
\* record is the last of the file.
Receive(e) ==
    /\ link.at = "idle"
    /\ platform[e] = "pending"
    /\ link' = [at |-> "acking", event |-> e, claimed |-> status[e] = "none"]
    /\ status' = [status EXCEPT ![e] = IF @ = "none" THEN "claimed_before_submit" ELSE @]
    /\ claims' = IF status[e] = "none" THEN Append(claims, e) ELSE claims
    /\ UNCHANGED <<platform, taskVars, historyVars, recoveryVars, config, startVars>>

Acknowledged(arrives) ==
    platform' = [platform EXCEPT ![link.event] = IF arrives THEN "acked" ELSE @]

AckSucceeds(arrives) ==
    /\ link.at = "acking"
    /\ arrives \/ "ack_lost" \in Faults
    /\ Acknowledged(arrives)
    /\ link' = IF link.claimed
               THEN [at |-> "dispatching", event |-> link.event, claimed |-> TRUE]
               ELSE Idle
    /\ UNCHANGED <<ledgerVars, taskVars, historyVars, recoveryVars, config, startVars>>

\* The send error ends the connection before the decision is returned: what
\* was claimed is not dispatched.
AckFails(arrives) ==
    /\ link.at = "acking"
    /\ "ack_lost" \in Faults
    /\ Acknowledged(arrives)
    /\ link' = Idle
    /\ UNCHANGED <<ledgerVars, taskVars, historyVars, recoveryVars, config, startVars>>

\* Mutant of Dispatch: the lease is taken without looking for its holder.
DispatchUnguarded ==
    /\ link.at = "dispatching"
    /\ holder' = [holder EXCEPT ![SessionOf[link.event]] = link.event]
    /\ stage' = [stage EXCEPT ![link.event] = "queued"]
    /\ link' = Idle
    /\ UNCHANGED <<ledgerVars, platform, pending, historyVars, recoveryVars, config, startVars>>

Dispatch ==
    /\ link.at = "dispatching"
    /\ LET e == link.event
           s == SessionOf[e]
       IN  IF holder[s] = NoEvent
           THEN /\ holder' = [holder EXCEPT ![s] = e]
                /\ stage' = [stage EXCEPT ![e] = "queued"]
                /\ UNCHANGED pending
           ELSE /\ stage' = [stage EXCEPT ![e] = "busy"]
                /\ UNCHANGED <<holder, pending>>
    /\ link' = Idle
    /\ UNCHANGED <<ledgerVars, platform, historyVars, recoveryVars, config, startVars>>

----------------------------------------------------------------------------
(* The tasks. *)

GoTo(e, st) == stage' = [stage EXCEPT ![e] = st]

\* The task posts n next; a controller failure goes straight to its notice.
Answer(e, n) == /\ GoTo(e, "replying")
                /\ pending' = [pending EXCEPT ![e] = n]
                /\ UNCHANGED holder

\* What the agent may have received is settled in the ledger before n is posted.
Settle(e, n) == /\ GoTo(e, "settling")
                /\ pending' = [pending EXCEPT ![e] = n]
                /\ UNCHANGED holder

\* The task returns; if it held a lease, dropping it frees the session.
End(e) == /\ GoTo(e, "none")
          /\ pending' = [pending EXCEPT ![e] = "none"]
          /\ holder' = [s \in Sessions |-> IF holder[s] = e THEN NoEvent ELSE holder[s]]

\* The record of e leaves the file, from the place where it is found.
Withdraw(e) == \E i \in 1 .. Len(claims) :
                 /\ claims[i] = e
                 /\ claims' = RemoveAt(claims, i)
                 /\ status' = [status EXCEPT ![e] = "none"]

\* Mutant of ReleaseClaim: the status is not looked at.
ReleaseClaimWhatever(e) == Withdraw(e)

\* A claim is given back only while nothing can have been submitted.
ReleaseClaim(e) == IF status[e] = "claimed_before_submit" THEN Withdraw(e)
                                                          ELSE UNCHANGED ledgerVars

Post(e, n) == told' = [told EXCEPT ![e] = @ \cup {n}]

WorkerStarts(e) ==
    /\ stage[e] = "queued"
    /\ config = ConfigParts
    /\ GoTo(e, "before_submit")
    /\ UNCHANGED <<ledgerVars, platform, link, pending, holder, historyVars, recoveryVars,
                   config, startVars>>

WorkerSkips(e) ==
    /\ stage[e] = "queued"
    /\ config # ConfigParts
    /\ ReleaseClaim(e)
    /\ End(e)
    /\ UNCHANGED <<platform, link, historyVars, recoveryVars, config, startVars>>

\* initialize, thread/read or thread/resume fails or refuses the session.
FailsBeforeSubmit(e) ==
    /\ stage[e] = "before_submit"
    /\ Answer(e, "failed")
    /\ UNCHANGED <<ledgerVars, platform, link, historyVars, recoveryVars, config, startVars>>

TurnStart(e) ==
    /\ stage[e] = "before_submit"
    /\ turns' = [turns EXCEPT ![e] = @ + 1]
    /\ GoTo(e, "turn_sent")
    /\ UNCHANGED <<ledgerVars, platform, link, pending, holder, told, mismatched, recoveryVars, config,
                   startVars>>

TurnStartSendFails(e) ==
    /\ stage[e] = "before_submit"
    /\ Settle(e, "unknown")
    /\ UNCHANGED <<ledgerVars, platform, link, historyVars, recoveryVars, config, startVars>>

\* turn/start is answered with the turn's id, and the boundary is recorded.
TurnAccepted(e) ==
    /\ stage[e] = "turn_sent"
    /\ CanRecord(e)
    /\ Record(e, "submitted_possible")
    /\ GoTo(e, "waiting")
    /\ UNCHANGED <<platform, link, pending, holder, historyVars, recoveryVars, config, startVars>>

\* Mutant of TurnLost: the failure is taken for one before the submit.
TurnLostAsFailure(e) ==
    /\ stage[e] \in {"turn_sent", "waiting"}
    /\ Answer(e, "failed")
    /\ UNCHANGED <<ledgerVars, platform, link, historyVars, recoveryVars, config, startVars>>

\* An error response, a lost connection, an answer without the turn's id, a
\* turn that ends without an answer, or a boundary that could not be recorded.
TurnLost(e) ==
    /\ stage[e] \in {"turn_sent", "waiting"}
    /\ Settle(e, "unknown")
    /\ UNCHANGED <<ledgerVars, platform, link, historyVars, recoveryVars, config, startVars>>

FinalAnswer(e) ==
    /\ stage[e] = "waiting"
    /\ Settle(e, "result")
    /\ UNCHANGED <<ledgerVars, platform, link, historyVars, recoveryVars, config, startVars>>

\* The status poll of a running turn checks its answer with the function that
\* guards the resume before turn/start, whose errors say "before submit".
PollMismatch(e) ==
    /\ stage[e] = "waiting"
    /\ "poll_mismatch" \in Faults
    /\ Answer(e, "failed")
    /\ mismatched' = mismatched \cup {e}
    /\ UNCHANGED <<ledgerVars, platform, link, turns, told, recoveryVars, config, startVars>>

RecordSubmitted(e) ==
    /\ stage[e] = "settling"
    /\ CanRecord(e)
    /\ Record(e, "submitted_possible")
    /\ GoTo(e, "replying")
    /\ UNCHANGED <<platform, link, pending, holder, historyVars, recoveryVars, config, startVars>>

BusyStarts(e) ==
    /\ stage[e] = "busy"
    /\ "provider" \in config
    /\ Answer(e, "busy")
    /\ UNCHANGED <<ledgerVars, platform, link, historyVars, recoveryVars, config, startVars>>

BusySkips(e) ==
    /\ stage[e] = "busy"
    /\ "provider" \notin config
    /\ ReleaseClaim(e)
    /\ End(e)
    /\ UNCHANGED <<platform, link, historyVars, recoveryVars, config, startVars>>

ReplySent(e) ==
    /\ stage[e] = "replying"
    /\ Post(e, pending[e])
    /\ GoTo(e, "recording")
    /\ UNCHANGED <<ledgerVars, platform, link, pending, holder, turns, mismatched, recoveryVars, config,
                   startVars>>

\* Mutant of ReplyFails: the verdict is recorded although the send failed.
ReplyFailsSilently(e, arrived) ==
    /\ stage[e] = "replying"
    /\ "send_fails" \in Faults
    /\ IF arrived THEN Post(e, pending[e]) ELSE UNCHANGED told
    /\ GoTo(e, "recording")
    /\ UNCHANGED <<ledgerVars, platform, link, pending, holder, turns, mismatched, recoveryVars, config,
                   startVars>>

\* The send is reported failed after its retries, whether or not the text got
\* there.  A worker leaves the record as it is; the busy task releases it.
ReplyFails(e, arrived) ==
    /\ stage[e] = "replying"
    /\ "send_fails" \in Faults
    /\ IF arrived THEN Post(e, pending[e]) ELSE UNCHANGED told
    /\ IF pending[e] = "busy" THEN ReleaseClaim(e) ELSE UNCHANGED ledgerVars
    /\ End(e)
    /\ UNCHANGED <<platform, link, turns, mismatched, recoveryVars, config, startVars>>

RecordVerdict(e) ==
    /\ stage[e] = "recording"
    /\ CanRecord(e)
    /\ Record(e, VerdictOf[pending[e]])
    /\ End(e)
    /\ UNCHANGED <<platform, link, historyVars, recoveryVars, config, startVars>>

\* Mutant of LedgerRefuses: the error path leaves the lease behind.
LedgerRefusesKeepingLease(e) ==
    /\ "ledger_io" \in Faults
    /\ stage[e] \in {"settling", "recording"}
    /\ GoTo(e, "none")
    /\ pending' = [pending EXCEPT ![e] = "none"]
    /\ UNCHANGED holder
    /\ UNCHANGED <<ledgerVars, platform, link, historyVars, recoveryVars, config, startVars>>

\* The ledger update the task is about to make fails, and the task with it.
LedgerRefuses(e) ==
    /\ \/ "ledger_io" \in Faults
          /\ \/ stage[e] \in {"settling", "recording"}
             \/ stage[e] = "queued" /\ config # ConfigParts
             \/ stage[e] = "busy" /\ "provider" \notin config
       \/ stage[e] \in {"settling", "recording"} /\ ~CanRecord(e)
    /\ End(e)
    /\ UNCHANGED <<ledgerVars, platform, link, historyVars, recoveryVars, config, startVars>>

----------------------------------------------------------------------------
(* Recovery: one pass over what the ledger held when the pass began, in the *)
(* order of its file.                                                      *)

\* The list is made at once.  The code's holds only the records that are not
\* settled and whose surface the ledger knows; the pass leaves the others out.
RecoveryLoad ==
    /\ recovery = "loading"
    /\ todo' = [i \in 1 .. Len(claims) |-> [event |-> claims[i], status |-> status[claims[i]]]]
    /\ recovery' = "running"
    /\ UNCHANGED <<ledgerVars, platform, link, taskVars, historyVars, noticed, config, startVars>>

RestartNotice(st) == IF st = "claimed_before_submit" THEN "restart_before" ELSE "restart_after"

AtRecord == recovery = "running" /\ todo # <<>> /\ ~noticed

Passed == todo' = Tail(todo)

\* Mutant of Recoverable: only replies past the submit boundary are recovered.
RecoverableSubmitted(rec) ==
    /\ rec.status = "submitted_possible" /\ rec.event \notin ThreadBound
    /\ rec.event \notin stale /\ "provider" \in config

\* The records that recovery speaks for; the others it leaves as they are.
Recoverable(rec) == /\ rec.status \in Processing /\ rec.event \notin ThreadBound
                    /\ rec.event \notin stale /\ "provider" \in config

RecoverySkips ==
    /\ AtRecord /\ ~Recoverable(Head(todo))
    /\ Passed
    /\ UNCHANGED <<ledgerVars, platform, link, taskVars, historyVars, recovery, noticed, config,
                   startVars>>

RecoveryPosts ==
    /\ AtRecord /\ Recoverable(Head(todo))
    /\ Post(Head(todo).event, RestartNotice(Head(todo).status))
    /\ noticed' = TRUE
    /\ UNCHANGED <<ledgerVars, platform, link, taskVars, turns, mismatched, recovery, todo,
                   config, startVars>>

RecoveryPostFails(arrived) ==
    /\ AtRecord /\ Recoverable(Head(todo))
    /\ "send_fails" \in Faults
    /\ IF arrived THEN Post(Head(todo).event, RestartNotice(Head(todo).status))
                  ELSE UNCHANGED told
    /\ Passed
    /\ UNCHANGED <<ledgerVars, platform, link, taskVars, turns, mismatched, recovery, noticed,
                   config, startVars>>

RecoveryRecords ==
    /\ noticed
    /\ CanRecord(Head(todo).event)
    /\ Record(Head(todo).event, VerdictOf[RestartNotice(Head(todo).status)])
    /\ Passed
    /\ noticed' = FALSE
    /\ UNCHANGED <<platform, link, taskVars, historyVars, recovery, config, startVars>>

\* An error of the ledger ends the pass: the records after it wait for the
\* next start.
RecoveryAborts ==
    /\ \/ "ledger_io" \in Faults /\ (recovery = "loading" \/ noticed)
       \/ noticed /\ ~CanRecord(Head(todo).event)
    /\ recovery' = "done"
    /\ todo' = <<>>
    /\ noticed' = FALSE
    /\ UNCHANGED <<ledgerVars, platform, link, taskVars, historyVars, config, startVars>>

----------------------------------------------------------------------------
(* Reload and restart. *)

\* A config that names the route names its provider too: the validation sees to it.
ConfigReload(parts) ==
    /\ "reload" \in Faults
    /\ "route" \in parts => "provider" \in parts
    /\ config' = parts
    /\ UNCHANGED <<ledgerVars, platform, link, taskVars, historyVars, recoveryVars, startVars>>

CrashRestart(long) ==
    /\ crashes < MaxCrashes
    /\ long => "long_downtime" \in Faults
    /\ crashes' = crashes + 1
    /\ stale' = IF long THEN {e \in Events : status[e] # "none"} ELSE stale
    /\ link' = Idle
    /\ stage' = [e \in Events |-> "none"]
    /\ pending' = [e \in Events |-> "none"]
    /\ holder' = [s \in Sessions |-> NoEvent]
    /\ recovery' = "loading"
    /\ todo' = <<>>
    /\ noticed' = FALSE
    /\ UNCHANGED <<ledgerVars, platform, historyVars, config>>

----------------------------------------------------------------------------

LinkStep == Dispatch \/ \E arrives \in BOOLEAN : AckSucceeds(arrives) \/ AckFails(arrives)

\* What the agent decides, and when.
AgentEnds(e) == TurnLost(e) \/ FinalAnswer(e) \/ PollMismatch(e)

TaskStep(e) == \/ WorkerStarts(e) \/ WorkerSkips(e)
               \/ FailsBeforeSubmit(e) \/ TurnStart(e) \/ TurnStartSendFails(e)
               \/ TurnAccepted(e) \/ RecordSubmitted(e)
               \/ BusyStarts(e) \/ BusySkips(e)
               \/ ReplySent(e) \/ RecordVerdict(e) \/ LedgerRefuses(e)
               \/ \E arrived \in BOOLEAN : ReplyFails(e, arrived)

RecoveryStep == \/ RecoveryLoad \/ RecoverySkips \/ RecoveryPosts \/ RecoveryRecords
                \/ RecoveryAborts
                \/ \E arrived \in BOOLEAN : RecoveryPostFails(arrived)

Next == \/ \E e \in Events : PlatformPost(e) \/ Receive(e) \/ TaskStep(e) \/ AgentEnds(e)
        \/ LinkStep
        \/ RecoveryStep
        \/ \E parts \in SUBSET ConfigParts : ConfigReload(parts)
        \/ \E long \in BOOLEAN : CrashRestart(long)

Spec == Init /\ [][Next]_vars

\* Every spawned task of the runtime is polled until it returns, and a turn of
\* the agent ends some day.  Nothing is assumed of the platform, of reloads and
\* of crashes.
Fairness == /\ WF_vars(LinkStep)
            /\ WF_vars(RecoveryStep)
            /\ \A e \in Events : WF_vars(TaskStep(e)) /\ WF_vars(AgentEnds(e))

FairSpec == Spec /\ Fairness
----------------------------------------------------------------------------
(* Properties. *)

\* The ledger's file and what recovery has read of it are lists of records.
ListsOK == /\ claims \in Seq(Events)
           /\ todo \in Seq([event : Events, status : Statuses])
           /\ noticed \in BOOLEAN
           /\ noticed => recovery = "running" /\ todo # <<>>

\* Every variable keeps the shape the code's types give it.
TypeOK == /\ status \in [Events -> Statuses]
          /\ ListsOK
          /\ platform \in [Events -> {"unsent", "pending", "acked"}]
          /\ link \in [at : {"idle", "acking", "dispatching"},
                       event : Events \cup {NoEvent}, claimed : BOOLEAN]
          /\ link.at # "idle" => link.event \in Events
          /\ stage \in [Events -> Stages]
          /\ pending \in [Events -> Notices \cup {"none"}]
          /\ \A e \in Events : stage[e] \in {"settling", "replying", "recording"}
                                 => pending[e] \in Notices
          /\ holder \in [Sessions -> Events \cup {NoEvent}]
          /\ turns \in [Events -> Nat]
          /\ told \in [Events -> SUBSET Notices]
          /\ mismatched \subseteq Events
          /\ recovery \in {"loading", "running", "done"}
          /\ config \subseteq ConfigParts
          /\ stale \subseteq Events
          /\ crashes \in 0 .. MaxCrashes

\* A reply reaches the agent at most once, however often the platform delivers
\* it and the service restarts.
AtMostOneTurn == \A e \in Events : turns[e] <= 1

\* Two replies to one session are never both between their first request to
\* the agent and the end of their turn: the scope guard keeps them apart.
OneRunnerPerSession ==
    \A e, f \in Events :
        stage[e] \in Running /\ stage[f] \in Running /\ SessionOf[e] = SessionOf[f] => e = f

\* A reply is never reported as not forwarded after it reached the agent, and
\* an answer is never posted for a reply that did not reach it.  The exception
\* is a turn given up because a status poll answered for another thread: the
\* code reports that one as never forwarded, while the agent is running it.
FailureNoticeIsTrue ==
    \A e \in Events : /\ "failed" \in told[e] => turns[e] = 0 \/ e \in mismatched
                      /\ "result" \in told[e] => turns[e] # 0

\* After a restart a person is asked to send again only a reply that has not
\* reached the agent, nor does so later.
RestartNoticeIsTrue ==
    \A e \in Events : "restart_before" \in told[e] => turns[e] = 0

\* A verdict in the ledger is what the thread was told: the text always
\* precedes the record.
VerdictWasTold ==
    \A e \in Events : status[e] \in Verdicts => \E n \in told[e] : VerdictOf[n] = status[e]

\* No lease outlives the task that took it, and no task that runs a turn is
\* without one: a lost lease would refuse the session's replies for ever.
LeaseHasTask ==
    \A s \in Sessions : holder[s] # NoEvent =>
        /\ holder[s] \in Events
        /\ SessionOf[holder[s]] = s
        /\ stage[holder[s]] \notin {"none", "busy"}

\* The router's promise about one reply, for all of them at once.
PhaseOf(st) == IF st = "none" THEN "unowned" ELSE IF st \in Processing THEN "owned" ELSE st
Phases == [e \in Events |-> PhaseOf(status[e])]
Once == INSTANCE InboundOnce WITH phase <- Phases, ran <- turns
OnceSpec == Once!Spec

\* The inductive invariant behind the safety properties.

LinkIsFresh ==
    /\ link.at = "dispatching" => link.claimed
    /\ link.at # "idle" /\ link.claimed =>
           /\ status[link.event] # "none"
           /\ stage[link.event] = "none"
           /\ turns[link.event] = 0
           /\ "failed" \notin told[link.event]

UnclaimedIsUntouched ==
    \A e \in Events : status[e] = "none" =>
        turns[e] = 0 /\ stage[e] = "none" /\ "failed" \notin told[e]

StageFitsTurns ==
    \A e \in Events :
        /\ stage[e] \in {"queued", "before_submit", "busy"} =>
               turns[e] = 0 /\ "failed" \notin told[e]
        /\ stage[e] \in {"turn_sent", "waiting"} => turns[e] = 1
        /\ stage[e] \in {"settling", "replying", "recording"} =>
               /\ pending[e] = "result" => turns[e] = 1
               /\ pending[e] = "busy" => turns[e] = 0 /\ "failed" \notin told[e]
               /\ pending[e] = "failed" => turns[e] = 0 \/ e \in mismatched
        /\ stage[e] = "settling" => pending[e] # "busy"

ToldFitsTurns ==
    \A e \in Events : /\ "result" \in told[e] => turns[e] = 1
                      /\ "failed" \in told[e] => turns[e] = 0 \/ e \in mismatched

RecordFollowsText ==
    /\ \A e \in Events : stage[e] = "recording" => pending[e] \in told[e]
    /\ noticed => RestartNotice(Head(todo).status) \in told[Head(todo).event]

RunnerHoldsLease ==
    \A e \in Events : stage[e] \in Running \cup {"queued"} => holder[SessionOf[e]] = e

IInv == /\ AtMostOneTurn
        /\ LinkIsFresh
        /\ UnclaimedIsUntouched
        /\ StageFitsTurns
        /\ ToldFitsTurns
        /\ RecordFollowsText
        /\ RunnerHoldsLease
        /\ LeaseHasTask
        /\ VerdictWasTold

\* What the machine accepted for a response surface reaches a verdict, or is
\* given back, as long as the config keeps the provider: a restart without it
\* passes the event over.
ClaimedEventFinishes ==
    []("provider" \in config) =>
        \A e \in Events \ ThreadBound : (status[e] \in Processing) ~> (status[e] \notin Processing)

\* A session that is busy becomes free again, whatever happens to its worker.
LeaseIsReleased ==
    \A s \in Sessions : (holder[s] # NoEvent) ~> (holder[s] = NoEvent)
=============================================================================
