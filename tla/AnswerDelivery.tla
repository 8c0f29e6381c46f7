--------------------------- MODULE AnswerDelivery ---------------------------
(***************************************************************************)
(* One reply of a user, from the card that says that Codex works to the     *)
(* final text in the thread: the turn of Codex, and the card that shows it. *)
(***************************************************************************)
EXTENDS CodexTurn, StreamingReply

CONSTANTS ResultLen, NoticeLen      \* the lengths of the final texts

ASSUME AnswerDeliveryAssumption == {ResultLen, NoticeLen} \subseteq Nat

vars == <<turnVars, cardVars>>

Init == TurnInit /\ CardInit

Result == [kind |-> "result", len |-> ResultLen]
Notice == [kind |-> "notice", len |-> NoticeLen]

\* The text that the client has of the turn so far.
TextSoFar ==
    CASE state.final = "none" -> [kind |-> "progress", len |-> state.progress]
      [] state.final = "text" -> Result
      [] OTHER -> NoText

FinalText == IF outcome = "answer" THEN Result ELSE Notice

----------------------------------------------------------------------------

ExecutionStarted(call) ==
    /\ phase = "idle" /\ handle = "pending"
    /\ OpenCard(call)
    /\ UNCHANGED <<reply, turnVars>>

SubmitTurn == Submit /\ handle # "pending" /\ UNCHANGED cardVars

ShowProgress(due, call) == Flush /\ Progress(TextSoFar, due, call)

SendReply(call) ==
    /\ phase = "done"
    /\ \/ StartReply(call)
       \/ ShowFinal(FinalText, call)
       \/ Finish(call)
       \/ PostText(FinalText, call)
    /\ UNCHANGED turnVars

LateArrives == (\E update \in late : LateUpdate(update)) /\ UNCHANGED turnVars

CodexActs == CodexStep /\ UNCHANGED cardVars
CodexResponds == Respond /\ UNCHANGED cardVars
ClientActs == (ClientReads \/ PrepareFails) /\ UNCHANGED cardVars
ClientPolls == Poll /\ UNCHANGED cardVars
Shows == \E due \in BOOLEAN, call \in Calls : ShowProgress(due, call)
Replies == \E call \in Calls : SendReply(call)

Next ==
    \/ \E call \in Calls : ExecutionStarted(call)
    \/ SubmitTurn \/ CodexActs \/ CodexResponds \/ ClientActs \/ ClientPolls
    \/ Shows \/ Replies \/ LateArrives

Spec == Init /\ [][Next]_vars

\* A request is answered or the stream ends; the client reads, polls when the
\* timer is due, and every call of the platform returns.
Fairness ==
    /\ WF_vars(CodexResponds)
    /\ WF_vars(ClientReads /\ UNCHANGED cardVars)
    /\ WF_vars(ClientPolls) /\ WF_vars(Shows) /\ WF_vars(Replies)

FairSpec == Spec /\ Fairness

----------------------------------------------------------------------------

\* A reply that counts as sent is in the thread: in a text, or in a card that
\* shows it to the end -- whatever updates failed or arrived late before.
AnswerReachesThread ==
    reply = "sent" => \/ FinalText \in posted
                      \/ card.text = FinalText /\ ~card.streaming

\* Once the turn has ended, the user is told something, or the call that tells
\* it fails: the client never waits for a turn that is over, even when it read
\* the turn's end before it knew the turn's id.
ReplyEnds == turn[Ours] = "ended" ~> reply \in {"sent", "failed"}

View == INSTANCE AnswerView WITH
    text <- card.text, live <- card.streaming, Finals <- {"result", "notice"}

\* The card refines what a reader expects of it: its text only moves forward,
\* and it closes on the final text.
ViewSpec == View!Spec
=============================================================================
