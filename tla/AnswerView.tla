----------------------------- MODULE AnswerView -----------------------------
(***************************************************************************)
(* What a reader sees of a streamed reply: a card that opens, whose text    *)
(* only moves forward, and that closes on the final text and stays.         *)
(***************************************************************************)
EXTENDS Naturals

CONSTANT Finals

VARIABLES text, live

NoText == [kind |-> "none", len |-> 0]
Working == [kind |-> "working", len |-> 0]

IsFinal(t) == t.kind \in Finals

Init == text = NoText /\ live = FALSE

Open == text = NoText /\ text' = Working /\ live' = TRUE

Grow ==
    /\ live /\ ~IsFinal(text)
    /\ text' \in [kind : {"progress"}, len : Nat] /\ text'.len > text.len
    /\ UNCHANGED live

Conclude ==
    /\ live /\ ~IsFinal(text)
    /\ text' \in [kind : Finals, len : Nat]
    /\ UNCHANGED live

Close == live /\ IsFinal(text) /\ live' = FALSE /\ UNCHANGED text

Next == Open \/ Grow \/ Conclude \/ Close

Spec == Init /\ [][Next]_<<text, live>>
=============================================================================
