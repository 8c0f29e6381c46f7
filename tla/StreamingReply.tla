--------------------------- MODULE StreamingReply ---------------------------
(***************************************************************************)
(* The reply to one message in Feishu/Lark: a card in the thread whose text *)
(* grows while the agent works, or, when the card fails, a plain text.      *)
(* Updates of a card carry a sequence number, for an update may be reported *)
(* failed and arrive all the same, after later ones.                        *)
(***************************************************************************)
EXTENDS Naturals, FiniteSets

CONSTANTS
    MinNew,         \* new text that is worth an update at once
    MaxLate,        \* bound on updates under way that were reported failed
    CardFaults      \* "lost": a call fails; "unheard": a call is done and
                    \* reported failed; "late": it is done later

ASSUME StreamingReplyAssumption == MinNew \in Nat /\ MaxLate \in Nat

VARIABLES
    handle,         \* "pending", "ready" or "disabled"
    sequence,       \* the sequence number of the last update
    lastSent,       \* the length of the last progress text
    card,           \* the card in the thread
    late,           \* updates reported failed that may still arrive
    posted,         \* the texts posted in the thread
    reply           \* how far the reply is: "none", "updating", "finishing",
                    \* "texting", "sent", "failed"

cardVars == <<handle, sequence, lastSent, card, late, posted, reply>>

\* A text: what it says, and how long it is.
NoText == [kind |-> "none", len |-> 0]
Working == [kind |-> "working", len |-> 0]

CardInit ==
    /\ handle = "pending" /\ sequence = 0 /\ lastSent = 0
    /\ card = [text |-> NoText, sequence |-> 0, streaming |-> FALSE]
    /\ late = {} /\ posted = {} /\ reply = "none"

----------------------------------------------------------------------------
(* Calls of the platform. *)

Calls == {"done"} \cup CardFaults

Succeeds(call) == call = "done"
DoneAtOnce(call) == call \in {"done", "unheard"}

\* The text of an update, or NoText in the one that ends the streaming.
Update(n, text) == [sequence |-> n, text |-> text]

\* A card takes an update only with a sequence number above its last.
Applied(c, update) ==
    IF update.sequence <= c.sequence THEN c
    ELSE IF update.text = NoText THEN [c EXCEPT !.sequence = update.sequence, !.streaming = FALSE]
    ELSE [c EXCEPT !.sequence = update.sequence, !.text = update.text]

\* Every update, done or not, uses up a sequence number.
SendUpdate(text, call) ==
    /\ sequence' = sequence + 1
    /\ card' = IF DoneAtOnce(call) THEN Applied(card, Update(sequence + 1, text))
               ELSE card
    /\ IF call = "late"
       THEN Cardinality(late) < MaxLate /\ late' = late \cup {Update(sequence + 1, text)}
       ELSE UNCHANGED late

\* An update that was reported failed arrives.
LateUpdate(update) ==
    /\ card' = Applied(card, update)
    /\ late' = late \ {update}
    /\ UNCHANGED <<handle, sequence, lastSent, posted, reply>>

----------------------------------------------------------------------------

\* The card is created and posted; after a failure it is given up, although it
\* may stand in the thread.
OpenCard(call) ==
    /\ call # "late"
    /\ handle' = IF Succeeds(call) THEN "ready" ELSE "disabled"
    /\ card' = IF DoneAtOnce(call) THEN [card EXCEPT !.text = Working, !.streaming = TRUE]
               ELSE card
    /\ UNCHANGED <<sequence, lastSent, late, posted>>

\* Mutant of Progress: a text that is not longer is sent too.
ProgressAnyText(text, due, call) ==
    IF text.len > 0 /\ (due \/ text.len >= lastSent + MinNew)
    THEN /\ lastSent' = text.len
         /\ IF handle = "ready" THEN SendUpdate(text, call) ELSE UNCHANGED <<sequence, card, late>>
         /\ UNCHANGED <<handle, posted, reply>>
    ELSE UNCHANGED cardVars

ShouldSend(text, due) == text.len > lastSent /\ (due \/ text.len >= lastSent + MinNew)

\* A text of the agent so far is shown when it is longer than the last one, and
\* by enough, or when an update is due: the interval is over, or a paragraph.
\* It counts as shown before the update is sent.
Progress(text, due, call) ==
    IF ShouldSend(text, due)
    THEN /\ lastSent' = text.len
         /\ IF handle = "ready" THEN SendUpdate(text, call) ELSE UNCHANGED <<sequence, card, late>>
         /\ UNCHANGED <<handle, posted, reply>>
    ELSE UNCHANGED cardVars

EnsureStarted(call) ==
    IF handle = "pending" THEN OpenCard(call)
    ELSE UNCHANGED <<handle, sequence, lastSent, card, late, posted>>

\* The reply begins; the card is opened now if the agent never started.
StartReply(call) ==
    /\ reply = "none"
    /\ EnsureStarted(call)
    /\ reply' = IF handle' = "ready" THEN "updating" ELSE "texting"

\* Mutant of ShowFinal: a failure of the update is overlooked.
ShowFinalAnyway(final, call) ==
    /\ reply = "updating"
    /\ SendUpdate(final, call)
    /\ reply' = "finishing"
    /\ UNCHANGED <<handle, lastSent, posted>>

\* The final text is put in the card; if that fails, it is posted as a text.
ShowFinal(final, call) ==
    /\ reply = "updating"
    /\ SendUpdate(final, call)
    /\ IF Succeeds(call) THEN reply' = "finishing" /\ UNCHANGED handle
       ELSE reply' = "texting" /\ handle' = "disabled"
    /\ UNCHANGED <<lastSent, posted>>

\* The card stops streaming; if that fails, the text is posted as well.
Finish(call) ==
    /\ reply = "finishing"
    /\ SendUpdate(NoText, call)
    /\ IF Succeeds(call) THEN reply' = "sent" /\ UNCHANGED handle
       ELSE reply' = "texting" /\ handle' = "disabled"
    /\ UNCHANGED <<lastSent, posted>>

PostText(final, call) ==
    /\ reply = "texting"
    /\ call # "late"
    /\ posted' = IF DoneAtOnce(call) THEN posted \cup {final} ELSE posted
    /\ reply' = IF Succeeds(call) THEN "sent" ELSE "failed"
    /\ UNCHANGED <<handle, sequence, lastSent, card, late>>
=============================================================================
