------------------------------ MODULE CodexTurn ------------------------------
(***************************************************************************)
(* One turn of Codex, from turn/start to its final answer.  The client     *)
(* reads one stream of notifications and responses; other clients of Codex *)
(* may run turns in the same thread, and their notifications are in the    *)
(* stream as well.  Notifications of the turn that come before its id is   *)
(* known are dropped, and a status poll, which may begin at any time,      *)
(* makes up for them.                                                      *)
(***************************************************************************)
EXTENDS Naturals, Sequences

CONSTANTS
    Ours,           \* the turn that turn/start begins
    Others,         \* turns that other clients begin in the thread
    NoTurn,
    MaxSaid,        \* bound on the pieces of text of a turn
    MaxQueue,       \* bound on unread notifications
    TurnFaults      \* "unannounced": a turn begins without turn/started;
                    \* "refused": a request is answered with an error;
                    \* "error": Codex sends error notifications;
                    \* "closed": the stream ends;
                    \* "blank": a final answer without text;
                    \* "unrecorded": the submit cannot be recorded;
                    \* "mismatch": a poll is answered with another thread;
                    \* "no_id": turn/start is answered without a turn id

Turns == Others \cup {Ours}

ASSUME CodexTurnAssumption ==
    /\ Ours \notin Others
    /\ NoTurn \notin Turns
    /\ {MaxSaid, MaxQueue} \subseteq Nat

VARIABLES
    turn,           \* turn[t]: how far Codex is with t
    said,           \* said[t]: pieces of text Codex has sent of t
    answer,         \* answer[t]: the final answer of t
    request,        \* the request that Codex has not answered
    stream,         \* the messages the client has not read
    open,           \* whether the stream is open
    phase,          \* how far the client is
    state,          \* the client's TurnStartState
    outcome,        \* what the client returns
    missed          \* history: the client read the answer and did not take it

codex == <<turn, said, answer>>
wire == <<request, stream, open>>
client == <<phase, state, outcome, missed>>
turnVars == <<codex, wire, client>>

NewState == [turnId |-> NoTurn, progress |-> 0, fresh |-> FALSE, final |-> "none",
             error |-> FALSE, completed |-> FALSE]

TurnInit ==
    /\ turn = [t \in Turns |-> "none"]
    /\ said = [t \in Turns |-> 0]
    /\ answer = [t \in Turns |-> "none"]
    /\ request = "none" /\ stream = <<>> /\ open = TRUE
    /\ phase = "idle" /\ state = NewState /\ outcome = "none" /\ missed = FALSE

----------------------------------------------------------------------------
(* Codex. *)

Reply(m) == open /\ stream' = Append(stream, m)
Emit(m) == Len(stream) < MaxQueue /\ Reply(m)

Message(kind, t) == [kind |-> kind, turn |-> t]

BeginTurn(t, announced) ==
    /\ turn[t] = "none"
    /\ t = Ours => request = "start"
    /\ turn' = [turn EXCEPT ![t] = "running"]
    /\ IF announced THEN Emit(Message("started", t))
       ELSE "unannounced" \in TurnFaults /\ UNCHANGED stream
    /\ UNCHANGED <<said, answer, request, open, client>>

Say(t) ==
    /\ turn[t] = "running" /\ answer[t] = "none" /\ said[t] < MaxSaid
    /\ said' = [said EXCEPT ![t] = @ + 1]
    /\ Emit(Message("delta", t))
    /\ UNCHANGED <<turn, answer, request, open, client>>

Answer(t, text) ==
    /\ turn[t] = "running" /\ answer[t] = "none"
    /\ text = "blank" => "blank" \in TurnFaults
    /\ answer' = [answer EXCEPT ![t] = text]
    /\ Emit([kind |-> "final", turn |-> t, text |-> text])
    /\ UNCHANGED <<turn, said, request, open, client>>

\* A turn ends with or without an answer.
EndTurn(t) ==
    /\ turn[t] = "running"
    /\ turn' = [turn EXCEPT ![t] = "ended"]
    /\ Emit(Message("completed", t))
    /\ UNCHANGED <<said, answer, request, open, client>>

\* An error of a turn, or of none.
Complain(t) ==
    /\ "error" \in TurnFaults
    /\ t # NoTurn => turn[t] = "running"
    /\ Emit(Message("error", t))
    /\ UNCHANGED <<codex, request, open, client>>

\* The response to turn/start.
Accept ==
    /\ request = "start" /\ turn[Ours] # "none"
    /\ \E t \in {Ours} \cup (IF "no_id" \in TurnFaults THEN {NoTurn} ELSE {}) :
            Reply(Message("accepted", t))
    /\ request' = "none"
    /\ UNCHANGED <<codex, open, client>>

\* The response to thread/resume: of each turn the text so far, possibly not
\* all of it, its answer, and whether it has ended.
Report ==
    /\ request = "resume"
    /\ \E shown \in [Turns -> 0 .. MaxSaid], ours \in BOOLEAN :
          /\ \A t \in Turns : shown[t] \in 0 .. said[t]
          /\ ours \/ "mismatch" \in TurnFaults
          /\ Reply([kind |-> "snapshot", ours |-> ours,
                     turns |-> [t \in Turns |-> [at |-> turn[t], answer |-> answer[t],
                                                said |-> shown[t]]]])
    /\ request' = "none"
    /\ UNCHANGED <<codex, open, client>>

Refuse ==
    /\ "refused" \in TurnFaults
    /\ request # "none"
    /\ Reply(Message("refused", NoTurn))
    /\ request' = "none"
    /\ UNCHANGED <<codex, open, client>>

Close ==
    /\ "closed" \in TurnFaults
    /\ open' = FALSE
    /\ UNCHANGED <<codex, request, stream, client>>

----------------------------------------------------------------------------
(* What the client takes from a message. *)

WithAnswer(s, text) == [s EXCEPT !.final = text, !.fresh = TRUE]

IsOurs(s, m) == m.turn = s.turnId
MayBeOurs(s, m) == s.turnId \in {NoTurn, m.turn}

\* Mutant of Observe: the end of any turn is taken for the end of this one.
ObserveAnyEnd(s, m) ==
    CASE m.kind = "started" /\ s.turnId = NoTurn -> [s EXCEPT !.turnId = m.turn]
      [] m.kind = "delta" /\ MayBeOurs(s, m) ->
            [s EXCEPT !.turnId = m.turn, !.progress = @ + 1, !.fresh = TRUE]
      [] m.kind = "final" /\ IsOurs(s, m) -> WithAnswer(s, m.text)
      [] m.kind = "error" /\ (m.turn = NoTurn \/ MayBeOurs(s, m)) -> [s EXCEPT !.error = TRUE]
      [] m.kind = "completed" -> [s EXCEPT !.completed = TRUE]
      [] OTHER -> s

\* The first turn that starts or speaks is taken for the one of turn/start.
Observe(s, m) ==
    CASE m.kind = "started" /\ s.turnId = NoTurn -> [s EXCEPT !.turnId = m.turn]
      [] m.kind = "delta" /\ MayBeOurs(s, m) ->
            [s EXCEPT !.turnId = m.turn, !.progress = @ + 1, !.fresh = TRUE]
      [] m.kind = "final" /\ IsOurs(s, m) -> WithAnswer(s, m.text)
      [] m.kind = "error" /\ (m.turn = NoTurn \/ MayBeOurs(s, m)) -> [s EXCEPT !.error = TRUE]
      [] m.kind = "completed" /\ IsOurs(s, m) -> [s EXCEPT !.completed = TRUE]
      [] OTHER -> s

IsTerminal(t) == t.at = "ended"

\* Mutant of ObserveSnapshot: the turn's status is not looked at.
ObserveSnapshotText(s, turns) ==
    IF s.turnId = NoTurn \/ turns[s.turnId].at = "none" THEN s
    ELSE LET t == turns[s.turnId] IN
         IF t.answer # "none" THEN [WithAnswer(s, t.answer) EXCEPT !.completed = TRUE]
         ELSE [s EXCEPT !.progress = IF t.said = 0 THEN @ ELSE t.said,
                        !.fresh = @ \/ t.said \notin {0, s.progress}]

\* A snapshot's text replaces the text so far, even by a shorter one.
ObserveSnapshot(s, turns) ==
    IF s.turnId = NoTurn \/ turns[s.turnId].at = "none" THEN s
    ELSE LET t == turns[s.turnId] IN
         IF t.answer # "none" THEN [WithAnswer(s, t.answer) EXCEPT !.completed = TRUE]
         ELSE [s EXCEPT !.progress = IF t.said = 0 THEN @ ELSE t.said,
                        !.fresh = @ \/ t.said \notin {0, s.progress},
                        !.completed = @ \/ IsTerminal(t)]

----------------------------------------------------------------------------
(* The client. *)

\* The loop looks at what it has before it waits again, after the text so far
\* has been handed to the observer.
Ready == phase = "waiting" /\ ~state.fresh
Decided == state.error \/ state.final # "none" \/ state.completed

Return(result) == phase' = "done" /\ outcome' = result

\* The reply fails before turn/start: no adapter, or the thread is busy.
PrepareFails ==
    /\ phase = "idle"
    /\ Return("unsent")
    /\ UNCHANGED <<codex, wire, state, missed>>

Submit ==
    /\ phase = "idle"
    /\ phase' = "starting" /\ request' = "start"
    /\ UNCHANGED <<codex, stream, open, state, outcome, missed>>

\* What the message at the head of the stream makes of the state.
Read == Observe(state, Head(stream))

Received ==
    /\ stream # <<>>
    /\ stream' = Tail(stream)
    /\ LET m == Head(stream) IN
       missed' = (missed \/ (m.kind = "final" /\ m.turn = Ours /\ Read.final = "none"))
    /\ UNCHANGED <<codex, request, open>>

\* A message that is not the response, while a request waits for one.
ReadForRequest ==
    /\ phase \in {"starting", "polling"}
    /\ Received
    /\ Head(stream).kind \notin {"accepted", "snapshot", "refused"}
    /\ state' = Read
    /\ IF Read.error THEN Return("error")
       ELSE IF Read.completed /\ Read.final = "none" THEN Return("unanswered")
       ELSE UNCHANGED <<phase, outcome>>

StartedId(m) == IF m.turn = NoTurn THEN state.turnId ELSE m.turn

\* The response names the turn; one that a notification named before must be
\* the same.  Then the submit is recorded.
TurnAccepted(recorded) ==
    /\ phase = "starting"
    /\ Received /\ Head(stream).kind = "accepted"
    /\ recorded \/ "unrecorded" \in TurnFaults
    /\ LET id == StartedId(Head(stream)) IN
       IF id = NoTurn \/ state.turnId \notin {NoTurn, id}
       THEN Return("mismatch") /\ UNCHANGED state
       ELSE /\ state' = [state EXCEPT !.turnId = id]
            /\ IF recorded THEN phase' = "waiting" /\ UNCHANGED outcome ELSE Return("unrecorded")

RequestRefused ==
    /\ phase \in {"starting", "polling"}
    /\ Received /\ Head(stream).kind = "refused"
    /\ Return("refused")
    /\ UNCHANGED state

OfThisThread(m) == m.ours

StatusPolled ==
    /\ phase = "polling"
    /\ stream # <<>> /\ Head(stream).kind = "snapshot"
    /\ stream' = Tail(stream)
    /\ IF OfThisThread(Head(stream))
       THEN /\ state' = ObserveSnapshot(state, Head(stream).turns)
            /\ phase' = "waiting" /\ UNCHANGED outcome
       ELSE Return("unsent") /\ UNCHANGED state
    /\ UNCHANGED <<codex, request, open, missed>>

StreamEnds ==
    /\ phase \in {"starting", "polling", "waiting"}
    /\ ~open /\ stream = <<>>
    /\ ~(phase = "waiting" /\ (state.fresh \/ Decided))
    /\ Return("closed")
    /\ UNCHANGED <<codex, wire, state, missed>>

Decide ==
    /\ Ready /\ Decided
    /\ Return(CASE state.error -> "error"
                [] ~state.error /\ state.final # "none" ->
                      IF state.final = "text" THEN "answer" ELSE "blank"
                [] OTHER -> "unanswered")
    /\ UNCHANGED <<codex, wire, state, missed>>

ReadWhileWaiting ==
    /\ Ready /\ ~Decided
    /\ Received
    /\ state' = Read
    /\ UNCHANGED <<phase, outcome>>

\* The timer comes before the stream, however busy the stream is.
Poll ==
    /\ Ready /\ ~Decided
    /\ IF open
       THEN phase' = "polling" /\ request' = "resume" /\ UNCHANGED outcome
       ELSE Return("closed") /\ UNCHANGED request
    /\ UNCHANGED <<codex, stream, open, state, missed>>

\* The text so far is handed to the observer.
Flush ==
    /\ phase = "waiting" /\ state.fresh
    /\ state' = [state EXCEPT !.fresh = FALSE]
    /\ UNCHANGED <<codex, wire, phase, outcome, missed>>

----------------------------------------------------------------------------

\* The server is a process of the client's own, and ends with the client.
Serving == phase \in {"starting", "waiting", "polling"}

CodexStep ==
    /\ Serving
    /\ \/ \E t \in Turns, announced \in BOOLEAN : BeginTurn(t, announced)
       \/ \E t \in Turns : Say(t) \/ EndTurn(t)
       \/ \E t \in Turns, text \in {"text", "blank"} : Answer(t, text)
       \/ \E t \in Turns \cup {NoTurn} : Complain(t)
       \/ Close

Respond == Serving /\ (Accept \/ Report \/ Refuse)

ClientReads ==
    \/ ReadForRequest \/ RequestRefused \/ StatusPolled \/ StreamEnds
    \/ \E recorded \in BOOLEAN : TurnAccepted(recorded)
    \/ Decide \/ ReadWhileWaiting

----------------------------------------------------------------------------
(* Correctness. *)

\* What the client says of the turn is true, whatever other turns run in the
\* thread, in whatever order responses and notifications come, and however
\* polls and the stream overlap: an answer is the turn's own, and a turn is said
\* to have ended without an answer only when the one whose id the client holds
\* has -- unless its answer came before anything that told its id.
VerdictIsTrue ==
    /\ outcome = "answer" => answer[Ours] = "text"
    /\ outcome = "unanswered" => /\ state.turnId # NoTurn /\ turn[state.turnId] = "ended"
                                 /\ answer[state.turnId] = "none" \/ missed
=============================================================================
