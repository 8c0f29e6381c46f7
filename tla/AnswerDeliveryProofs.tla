------------------------- MODULE AnswerDeliveryProofs -------------------------
(***************************************************************************)
(* The card of a reply: a reply that counts as sent is in the thread, and   *)
(* the card implements what a reader sees of it, for any lengths of the     *)
(* texts, any number of late updates and every fault of the platform and    *)
(* of Codex.                                                                *)
(***************************************************************************)
EXTENDS CodexTurnProofs

\* A text that a reply may end with, as in AnswerView.
Final(t) == t.kind \in {"result", "notice"}

CardTexts == [kind : {"none", "working", "progress", "result", "notice"}, len : Nat]
Updates == [sequence : Nat, text : CardTexts]

CardTypes ==
    /\ handle \in {"pending", "ready", "disabled"}
    /\ reply \in {"none", "updating", "finishing", "texting", "sent", "failed"}
    /\ sequence \in Nat /\ lastSent \in Nat
    /\ card \in [text : CardTexts, sequence : Nat, streaming : BOOLEAN]
    /\ late \subseteq Updates

\* The updates that the card would still take, and the texts it shows or may show.
Live == {u \in late : u.sequence > card.sequence}
Shown == {card.text} \cup {u.text : u \in Live}

\* A text that a reader may see after another.
After(t, next) ==
    \/ next.kind = "progress" /\ ~Final(t) /\ next.len > t.len
    \/ Final(next) /\ (Final(t) => next = t)
    \/ next = NoText /\ Final(t)

\* Every update has a number of its own, the last the highest.
Numbered ==
    /\ card.sequence <= sequence
    /\ \A u \in late : u.sequence <= sequence

\* In the order of the numbers, what may still be shown only moves forward.
InOrder ==
    \A u \in Live :
        /\ After(card.text, u.text)
        /\ \A v \in Live : u.sequence < v.sequence => After(u.text, v.text) /\ u.text # NoText

\* A final text that is shown is the one that the reply ends with: it was decided on,
\* or the client can no longer decide on another.
Told(t) ==
    IF phase = "done" THEN t = FinalText
    ELSE t = Result /\ phase = "waiting" /\ state.final = "text" /\ ~state.error

\* What is not final is no longer than the last text that was sent.
ShownIsKnown == \A t \in Shown : IF Final(t) THEN Told(t) ELSE t.len <= lastSent

\* What the stages of handle and reply say of the card.
CardStages ==
    /\ handle = "pending" => card.text = NoText /\ late = {} /\ reply = "none"
    /\ handle = "ready" => card.text # NoText /\ (card.streaming \/ reply = "sent")
    /\ handle = "ready" => \A u \in Live : u.text # NoText
    /\ Live # {} => card.text # NoText /\ card.streaming
    /\ reply # "none" => phase = "done"
    /\ reply \in {"updating", "finishing"} => handle = "ready"
    /\ reply = "finishing" => card.text = FinalText /\ card.sequence = sequence
    /\ reply = "sent" => \/ FinalText \in posted
                         \/ card.text = FinalText /\ ~card.streaming /\ Live = {}

\* An error ends the turn before anything else is taken.
ClientStages ==
    /\ phase = "done" <=> outcome # "none"
    /\ phase \in {"idle", "starting", "polling"} => ~state.error
    /\ phase = "waiting" /\ state.error => state.final = "none" /\ ~state.fresh

CardInv ==
    /\ CardTypes /\ Numbered /\ InOrder /\ ShownIsKnown /\ CardStages /\ ClientStages

----------------------------------------------------------------------------
(* The client. *)

\* A message that is an error brings nothing else.
LEMMA ErrorComesAlone ==
    ASSUME NEW s \in States, NEW m
    PROVE  Observe(s, m).error => \/ s.error
                                  \/ Observe(s, m).final = s.final /\ Observe(s, m).fresh = s.fresh
  BY DEF Observe, WithAnswer, States

\* What has been decided on stays.
Stands ==
    /\ phase = "done" => phase' = "done" /\ outcome' = outcome
    /\ phase = "waiting" /\ state.final = "text" /\ ~state.error =>
          \/ phase' = "waiting" /\ state'.final = "text" /\ ~state'.error
          \/ phase' = "done" /\ outcome' = "answer"

\* The client decides once, and nothing overtakes an answer that it holds.
LEMMA ClientMoves ==
    ASSUME TurnInv, ClientStages,
           \/ CodexStep \/ Respond \/ PrepareFails \/ Submit \/ StreamEnds \/ Decide \/ Poll \/ Flush
           \/ ReadForRequest \/ RequestRefused \/ StatusPolled \/ ReadWhileWaiting
           \/ \E recorded \in BOOLEAN : TurnAccepted(recorded)
    PROVE  ClientStages' /\ Stands
<1> USE DEF ClientStages, Stands
<1>0. state \in States
  BY DEF TurnInv, TurnTypes
<1>1. CASE CodexStep \/ Respond
  <2>1. UNCHANGED client
    BY <1>1 DEF CodexStep, Respond, BeginTurn, Say, Answer, EndTurn, Complain, Close, Accept,
                Report, Refuse
  <2> QED
    BY <2>1 DEF client
<1>2. CASE PrepareFails
  BY <1>2 DEF PrepareFails, Return
<1>3. CASE Submit
  BY <1>3 DEF Submit
<1>4. CASE StreamEnds
  BY <1>4 DEF StreamEnds, Decided, Return
<1>5. CASE Decide
  <2>1. /\ phase' = "done" /\ state' = state /\ phase = "waiting"
        /\ outcome' = CASE state.error -> "error"
                        [] ~state.error /\ state.final # "none" ->
                              IF state.final = "text" THEN "answer" ELSE "blank"
                        [] OTHER -> "unanswered"
    BY <1>5 DEF Decide, Ready, Return
  <2>2. outcome' # "none" /\ (~state.error /\ state.final = "text" => outcome' = "answer")
    BY <2>1
  <2> QED
    BY <2>1, <2>2
<1>6. CASE Poll
  BY <1>6 DEF Poll, Ready, Decided, Return
<1>7. CASE Flush
  BY <1>0, <1>7 DEF Flush, States
<1>8. CASE ReadForRequest
  BY <1>8 DEF ReadForRequest, Return
<1>9. CASE RequestRefused
  BY <1>9 DEF RequestRefused, Return
<1>10. CASE StatusPolled
  <2>1. \A turns : ObserveSnapshot(state, turns).error = state.error
    BY <1>0 DEF ObserveSnapshot, WithAnswer, States
  <2> QED
    BY <1>10, <2>1 DEF StatusPolled, Return
<1>11. CASE ReadWhileWaiting
  <2>1. phase = "waiting" /\ ~state.fresh /\ ~state.error /\ state.final = "none"
    BY <1>11 DEF ReadWhileWaiting, Ready, Decided
  <2>2. state' = Read /\ UNCHANGED <<phase, outcome>>
    BY <1>11 DEF ReadWhileWaiting
  <2>3. state'.error => state'.final = "none" /\ ~state'.fresh
    BY <1>0, <2>1, <2>2, ErrorComesAlone DEF Read
  <2> QED
    BY <2>1, <2>2, <2>3
<1>12. ASSUME NEW recorded \in BOOLEAN, TurnAccepted(recorded) PROVE ClientStages' /\ Stands
  <2>1. phase = "starting" /\ (state'.error = state.error)
    BY <1>0, <1>12 DEF TurnAccepted, Return, States
  <2> QED
    BY <1>12, <2>1 DEF TurnAccepted, Return
<1> QED
  BY <1>1, <1>2, <1>3, <1>4, <1>5, <1>6, <1>7, <1>8, <1>9, <1>10, <1>11, <1>12

----------------------------------------------------------------------------
(* The card. *)

\* So a final text that is shown stays the one the reply ends with.
LEMMA ToldStands ==
    ASSUME Stands PROVE \A t : Told(t) => Told(t)'
  BY DEF Stands, Told, FinalText

\* The client moves, the card does not.
LEMMA CardWaits ==
    ASSUME CardInv, ClientStages', Stands, UNCHANGED cardVars PROVE CardInv'
<1> USE DEF CardInv, cardVars
<1>1. CardTypes' /\ Numbered' /\ InOrder'
  BY DEF CardTypes, Numbered, InOrder, Live
<1>2. ShownIsKnown'
  <2>1. Shown' = Shown /\ lastSent' = lastSent
    BY DEF Shown, Live
  <2> QED
    BY <2>1, ToldStands DEF ShownIsKnown
<1>3. CardStages'
  BY DEF CardStages, Live, Stands, FinalText
<1> QED
  BY <1>1, <1>2, <1>3

\* What an update makes of the card.
LEMMA AppliedIs ==
    ASSUME NEW c \in [text : CardTexts, sequence : Nat, streaming : BOOLEAN], NEW u \in Updates
    PROVE  /\ Applied(c, u) \in [text : CardTexts, sequence : Nat, streaming : BOOLEAN]
           /\ u.sequence <= c.sequence => Applied(c, u) = c
           /\ u.sequence > c.sequence =>
                 /\ Applied(c, u).sequence = u.sequence
                 /\ u.text = NoText => Applied(c, u).text = c.text /\ ~Applied(c, u).streaming
                 /\ u.text # NoText =>
                       Applied(c, u).text = u.text /\ Applied(c, u).streaming = c.streaming
<1> DEFINE n == u.sequence
           t == u.text
           ended == [c EXCEPT !.sequence = n, !.streaming = FALSE]
           shows == [c EXCEPT !.sequence = n, !.text = t]
<1>1. n \in Nat /\ c.sequence \in Nat /\ t \in CardTexts
  BY DEF Updates
<1>2. /\ ended \in [text : CardTexts, sequence : Nat, streaming : BOOLEAN]
      /\ ended.sequence = n /\ ended.text = c.text /\ ~ended.streaming
      /\ shows \in [text : CardTexts, sequence : Nat, streaming : BOOLEAN]
      /\ shows.sequence = n /\ shows.text = t /\ shows.streaming = c.streaming
  <2> HIDE DEF n, t
  <2> QED
    BY <1>1
<1>3. Applied(c, u) = IF n <= c.sequence THEN c ELSE IF t = NoText THEN ended ELSE shows
  BY DEF Applied
<1> HIDE DEF ended, shows
<1>4. CASE n <= c.sequence
  BY <1>1, <1>3, <1>4
<1>5. CASE ~(n <= c.sequence) /\ t = NoText
  BY <1>2, <1>3, <1>5
<1>6. CASE ~(n <= c.sequence) /\ t # NoText
  BY <1>2, <1>3, <1>6
<1> QED
  BY <1>4, <1>5, <1>6

\* A step of the view, or none.
ViewStep == [View!Next]_<<card.text, card.streaming>>

\* A text that may follow is such a step.
LEMMA AfterIsViewStep ==
    ASSUME card.text \in CardTexts, card'.text \in CardTexts, card.streaming,
           \/ /\ After(card.text, card'.text) /\ card'.text # NoText
              /\ card'.streaming = card.streaming
           \/ Final(card.text) /\ card'.text = card.text /\ ~card'.streaming /\ card'.streaming \in BOOLEAN
    PROVE  ViewStep
<1>1. CASE Final(card.text) /\ card'.text = card.text /\ ~card'.streaming /\ card'.streaming \in BOOLEAN
  BY <1>1 DEF ViewStep, View!Next, View!Close, View!IsFinal, Final
<1>2. CASE After(card.text, card'.text) /\ card'.text # NoText /\ card'.streaming = card.streaming
  <2>1. CASE card'.text.kind = "progress"
    BY <1>2, <2>1 DEF ViewStep, View!Next, View!Grow, View!IsFinal, After, Final, CardTexts
  <2>2. CASE Final(card'.text) /\ ~Final(card.text)
    BY <1>2, <2>2 DEF ViewStep, View!Next, View!Conclude, View!IsFinal, Final, CardTexts
  <2>3. CASE card'.text = card.text
    BY <1>2, <2>3 DEF ViewStep
  <2> QED
    BY <1>2, <2>1, <2>2, <2>3 DEF After
<1> QED
  BY <1>1, <1>2

\* An update is sent whose text may follow all that is shown.
LEMMA Sent ==
    ASSUME CardInv, NEW text \in CardTexts, NEW call \in Calls, SendUpdate(text, call),
           card.streaming, card.text # NoText, \A u \in Live : u.text # NoText,
           \A t \in Shown : After(t, text),
           lastSent' \in Nat, lastSent' >= lastSent, \A t : Told(t) => Told(t)',
           IF Final(text) THEN Told(text)' ELSE text.len <= lastSent'
    PROVE  /\ sequence' = sequence + 1
           /\ card' \in [text : CardTexts, sequence : Nat, streaming : BOOLEAN] /\ late' \subseteq Updates
           /\ Numbered' /\ InOrder' /\ ShownIsKnown'
           /\ card'.text # NoText /\ (Live' # {} => card'.streaming)
           /\ DoneAtOnce(call) =>
                 /\ Live' = {} /\ card'.sequence = sequence'
                 /\ text = NoText => card'.text = card.text /\ ~card'.streaming
                 /\ text # NoText => card'.text = text /\ card'.streaming
           /\ ~DoneAtOnce(call) =>
                 /\ card' = card
                 /\ \A u \in Live' : u \in Live \/ u.text = text
           /\ ViewStep
<1> DEFINE w == Update(sequence + 1, text)
<1>1. /\ sequence \in Nat /\ lastSent \in Nat /\ late \subseteq Updates
      /\ card \in [text : CardTexts, sequence : Nat, streaming : BOOLEAN]
      /\ card.sequence <= sequence /\ \A u \in late : u.sequence <= sequence
      /\ sequence' = sequence + 1
  BY DEF CardInv, CardTypes, Numbered, SendUpdate
<1>2. w \in Updates /\ w.sequence = sequence + 1 /\ w.text = text
  BY <1>1 DEF Update, Updates
<1>3. late' \in {late, late \cup {w}} /\ (DoneAtOnce(call) => late' = late)
  BY DEF SendUpdate, DoneAtOnce
<1>4. CASE DoneAtOnce(call)
  <2>1. card' = Applied(card, w)
    BY <1>4 DEF SendUpdate
  <2>2. /\ card' \in [text : CardTexts, sequence : Nat, streaming : BOOLEAN]
        /\ card'.sequence = sequence + 1
        /\ text = NoText => card'.text = card.text /\ ~card'.streaming
        /\ text # NoText => card'.text = text /\ card'.streaming
    <3> HIDE DEF w
    <3> QED
      BY <1>1, <1>2, <2>1, AppliedIs
  <2>3. late' = late /\ Live' = {}
    BY <1>1, <1>3, <1>4, <2>2 DEF Live, Updates
  <2>4. Numbered' /\ InOrder'
    BY <1>1, <2>2, <2>3 DEF Numbered, InOrder, Updates
  <2>5. Shown' = {card'.text}
    BY <2>3 DEF Shown
  <2>6. After(card.text, text)
    BY DEF Shown
  <2>7. ShownIsKnown'
    <3>1. CASE text = NoText
      BY <1>1, <2>2, <2>5, <2>6, <3>1 DEF ShownIsKnown, Shown, CardInv, After, Final, NoText
    <3>2. CASE text # NoText
      BY <2>2, <2>5, <3>2 DEF ShownIsKnown, Final
    <3> QED
      BY <3>1, <3>2
  <2>8. ViewStep
    <3>1. text = NoText => Final(card.text)
      BY <2>6 DEF After, NoText, Final
    <3> QED
      BY <1>1, <2>2, <2>6, <3>1, AfterIsViewStep
  <2> QED
    BY <1>1, <1>3, <1>4, <2>2, <2>3, <2>4, <2>7, <2>8
<1>5. CASE ~DoneAtOnce(call)
  <2>1. card' = card
    BY <1>5 DEF SendUpdate
  <2>2. /\ late' \subseteq Updates
        /\ Live' \subseteq Live \cup {w} /\ Live \subseteq late
    <3> HIDE DEF w
    <3> QED
      BY <1>1, <1>2, <1>3, <2>1 DEF Live
  <2>3. Numbered'
    <3> HIDE DEF w
    <3> QED
      BY <1>1, <1>2, <1>3, <2>1 DEF Numbered, Updates
  <2>4. InOrder'
    <3> SUFFICES ASSUME NEW u \in Live', NEW v \in Live'
                 PROVE  /\ After(card.text, u.text)
                        /\ u.sequence < v.sequence => After(u.text, v.text) /\ u.text # NoText
      BY <2>1 DEF InOrder, After, Final
    <3>1. u \in Live \cup {w} /\ v \in Live \cup {w}
      BY <2>2
    <3> HIDE DEF w
    <3>2. After(card.text, u.text)
      BY <1>2, <3>1 DEF CardInv, InOrder, Shown
    <3>3. CASE u = w
      <4>1. v.sequence <= sequence + 1 /\ v.sequence \in Nat
        BY <1>1, <1>2, <2>2, <3>1 DEF Updates
      <4> QED
        BY <1>1, <1>2, <3>2, <3>3, <4>1
    <3>4. CASE u \in Live /\ v = w
      BY <1>2, <3>2, <3>4 DEF Shown
    <3>5. CASE u \in Live /\ v \in Live
      BY <3>2, <3>5 DEF CardInv, InOrder
    <3> QED
      BY <3>1, <3>3, <3>4, <3>5
  <2>5. ShownIsKnown'
    <3> SUFFICES ASSUME NEW t \in Shown'
                 PROVE  IF Final(t) THEN Told(t)' ELSE t.len <= lastSent'
      BY DEF ShownIsKnown, Final
    <3>1. t \in Shown \cup {text}
      <4> HIDE DEF w
      <4> QED
        BY <1>2, <2>1, <2>2 DEF Shown
    <3>2. t \in CardTexts
      BY <1>1, <2>2, <3>1 DEF Shown, Updates
    <3>3. CASE t \in Shown
      BY <1>1, <3>2, <3>3 DEF CardInv, ShownIsKnown, CardTexts
    <3> QED
      BY <3>1, <3>3
  <2>6. \A u \in Live' : u \in Live \/ u.text = text
    <3> HIDE DEF w
    <3> QED
      BY <1>2, <2>2
  <2>7. ViewStep
    BY <2>1 DEF ViewStep
  <2> QED
    BY <1>1, <1>5, <2>1, <2>2, <2>3, <2>4, <2>5, <2>6, <2>7
<1> QED
  BY <1>4, <1>5

\* An update that was reported failed arrives.
LEMMA LateTaken ==
    ASSUME CardInv, NEW u \in late, LateUpdate(u), UNCHANGED turnVars PROVE CardInv' /\ ViewStep
<1>1. /\ CardTypes /\ late \subseteq Updates /\ u \in Updates
      /\ card \in [text : CardTexts, sequence : Nat, streaming : BOOLEAN]
  BY DEF CardInv, CardTypes
<1>2. /\ card' = Applied(card, u) /\ late' = late \ {u}
      /\ UNCHANGED <<handle, sequence, lastSent, posted, reply, phase, state, outcome>>
  BY DEF LateUpdate, turnVars, client
<1>3. ClientStages' /\ (\A t : Told(t)' <=> Told(t)) /\ FinalText' = FinalText
  BY <1>2 DEF CardInv, ClientStages, Told, FinalText
<1>4. CASE u \notin Live
  <2>1. card' = card
    BY <1>1, <1>2, <1>4, AppliedIs DEF Live, Updates
  <2>2. Live' = Live /\ Shown' = Shown
    BY <1>2, <1>4, <2>1 DEF Live, Shown
  <2>3. CardTypes' /\ Numbered' /\ InOrder'
    BY <1>1, <1>2, <2>1, <2>2 DEF CardInv, CardTypes, Numbered, InOrder
  <2>4. ShownIsKnown'
    BY <1>2, <1>3, <2>2 DEF CardInv, ShownIsKnown
  <2>5. CardStages'
    BY <1>2, <1>3, <2>1, <2>2 DEF CardInv, CardStages
  <2> QED
    BY <1>3, <2>1, <2>3, <2>4, <2>5 DEF CardInv, ViewStep
<1>5. CASE u \in Live
  <2>1. /\ card' \in [text : CardTexts, sequence : Nat, streaming : BOOLEAN]
        /\ card'.sequence = u.sequence /\ u.sequence > card.sequence
        /\ u.text = NoText => card'.text = card.text /\ ~card'.streaming
        /\ u.text # NoText => card'.text = u.text /\ card'.streaming = card.streaming
    BY <1>1, <1>2, <1>5, AppliedIs DEF Live, Updates
  <2>2. \A v \in Live' : v \in Live /\ v.sequence > u.sequence
    BY <1>1, <1>2, <2>1 DEF Live, Updates, CardTypes
  <2>3. card.streaming /\ card.text # NoText /\ After(card.text, u.text)
    BY <1>5 DEF CardInv, CardStages, InOrder
  <2>4. u.text = NoText => Live' = {} /\ Final(card.text)
    <3>1. u.text = NoText => Live' = {}
      BY <1>5, <2>2 DEF CardInv, InOrder
    <3> QED
      BY <2>3, <3>1 DEF After, NoText, Final
  <2>5. CardTypes' /\ Numbered'
    BY <1>1, <1>2, <2>1 DEF CardInv, CardTypes, Numbered, Updates
  <2>6. InOrder'
    BY <1>5, <2>1, <2>2, <2>4 DEF CardInv, InOrder, After, Final
  <2>7. ShownIsKnown'
    <3>1. Shown' \subseteq Shown
      BY <1>5, <2>1, <2>2 DEF Shown
    <3> QED
      BY <1>2, <1>3, <3>1 DEF CardInv, ShownIsKnown
  <2>8. CardStages'
    <3>1. card'.text # NoText
      BY <2>1, <2>3
    <3>2. /\ handle = "pending" => late' = {}
          /\ handle = "ready" => card'.streaming = card.streaming
          /\ Live' # {} => card'.streaming
          /\ reply # "finishing" /\ (reply = "sent" => FinalText \in posted)
      <4>1. u.sequence <= sequence
        BY DEF CardInv, Numbered
      <4>2. card.sequence # sequence /\ Live # {}
        BY <1>1, <1>5, <2>1, <4>1 DEF Updates, CardTypes
      <4> QED
        BY <1>2, <1>5, <2>1, <2>3, <2>4, <4>2 DEF CardInv, CardStages, Live
    <3> QED
      BY <1>2, <1>3, <2>2, <2>3, <3>1, <3>2 DEF CardInv, CardStages
  <2>9. ViewStep
    BY <1>1, <2>1, <2>3, <2>4, AfterIsViewStep
  <2> QED
    BY <1>3, <2>5, <2>6, <2>7, <2>8, <2>9 DEF CardInv
<1> QED
  BY <1>4, <1>5

\* The card is opened, or given up.
LEMMA Opened ==
    ASSUME CardInv, handle = "pending", NEW call \in Calls, OpenCard(call), ClientStages', Stands,
           reply' \in {"none", "updating", "texting"}, reply' # "none" => phase' = "done",
           reply' = "updating" => handle' = "ready"
    PROVE  CardInv' /\ ViewStep
<1>1. /\ CardTypes /\ late = {} /\ card.text = NoText /\ Live = {}
      /\ card \in [text : CardTexts, sequence : Nat, streaming : BOOLEAN]
  BY DEF CardInv, CardStages, CardTypes, Live
<1>2. /\ UNCHANGED <<sequence, lastSent, late, posted>>
      /\ handle' = IF call = "done" THEN "ready" ELSE "disabled"
      /\ card' = IF DoneAtOnce(call) THEN [card EXCEPT !.text = Working, !.streaming = TRUE]
                 ELSE card
  BY DEF OpenCard, Succeeds
<1>3. Working \in CardTexts /\ Working.len = 0 /\ ~Final(Working) /\ Working # NoText
      /\ NoText.len = 0 /\ ~Final(NoText)
  BY DEF Working, NoText, CardTexts, Final
<1>4. CASE DoneAtOnce(call)
  <2>1. /\ card' \in [text : CardTexts, sequence : Nat, streaming : BOOLEAN]
        /\ card'.sequence = card.sequence /\ card'.text = Working /\ card'.streaming
    BY <1>1, <1>2, <1>3, <1>4
  <2>2. Live' = {} /\ Shown' = {Working}
    BY <1>1, <1>2, <2>1 DEF Live, Shown
  <2>3. CardTypes' /\ Numbered' /\ InOrder' /\ ShownIsKnown'
    BY <1>1, <1>2, <1>3, <2>1, <2>2 DEF CardInv, CardTypes, Numbered, InOrder, ShownIsKnown
  <2>4. CardStages'
    BY <1>2, <1>3, <2>1, <2>2 DEF CardStages
  <2>5. ViewStep
    BY <1>1, <2>1 DEF ViewStep, View!Next, View!Open, View!NoText, View!Working, NoText, Working
  <2> QED
    BY <2>3, <2>4, <2>5 DEF CardInv
<1>5. CASE ~DoneAtOnce(call)
  <2>1. card' = card /\ handle' = "disabled"
    BY <1>2, <1>5 DEF DoneAtOnce
  <2>2. Live' = {} /\ Shown' = {NoText}
    BY <1>1, <1>2, <2>1 DEF Live, Shown
  <2>3. CardTypes' /\ Numbered' /\ InOrder' /\ ShownIsKnown'
    BY <1>1, <1>2, <1>3, <2>1, <2>2 DEF CardInv, CardTypes, Numbered, InOrder, ShownIsKnown
  <2>4. CardStages'
    BY <2>1, <2>2 DEF CardStages
  <2> QED
    BY <2>1, <2>3, <2>4 DEF CardInv, ViewStep
<1> QED
  BY <1>4, <1>5

\* The text so far is shown: it is longer than all that is shown, or it is the result,
\* after which nothing else can be decided on.
LEMMA ProgressShown ==
    ASSUME AnswerDeliveryAssumption, TurnInv, CardInv, ClientStages', Stands, Flush,
           NEW due \in BOOLEAN, NEW call \in Calls, Progress(TextSoFar, due, call)
    PROVE  CardInv' /\ ViewStep
<1>0. PICK text : text = TextSoFar
  OBVIOUS
<1>1. CASE ~ShouldSend(text, due)
  <2>1. UNCHANGED cardVars
    BY <1>0, <1>1 DEF Progress
  <2> QED
    BY <2>1, CardWaits DEF ViewStep, cardVars
<1>2. CASE ShouldSend(text, due)
  <2>1. /\ text.len > lastSent /\ lastSent' = text.len /\ UNCHANGED <<handle, posted, reply>>
        /\ IF handle = "ready" THEN SendUpdate(text, call) ELSE UNCHANGED <<sequence, card, late>>
    BY <1>0, <1>2 DEF Progress, ShouldSend
  <2>2. state \in States /\ CardTypes /\ lastSent \in Nat /\ phase = "waiting" /\ state.fresh
        /\ ~state.error /\ reply = "none"
    BY DEF TurnInv, TurnTypes, CardInv, CardTypes, Flush, ClientStages, CardStages
  <2>3. \/ state.final = "none" /\ text = [kind |-> "progress", len |-> state.progress]
        \/ state.final = "text" /\ text = Result
    BY <1>0, <2>1, <2>2 DEF TextSoFar, NoText
  <2>4. text \in CardTexts /\ text # NoText
    BY <2>2, <2>3 DEF CardTexts, States, Result, NoText, AnswerDeliveryAssumption
  <2>5. text.len \in Nat /\ lastSent' \in Nat /\ lastSent' >= lastSent
    BY <2>1, <2>2, <2>4 DEF CardTexts
  <2>6. \A t : Told(t) => Told(t)'
    BY ToldStands
  <2>7. IF Final(text) THEN Told(text) ELSE text.len <= lastSent'
    BY <2>1, <2>2, <2>3, <2>5 DEF Told, Final, Result
  <2>8. \A t \in Shown : t \in CardTexts /\ IF Final(t) THEN Told(t) ELSE t.len <= lastSent
    BY DEF CardInv, ShownIsKnown, Shown, Live, CardTypes, Updates
  <2>9. CASE handle = "ready"
    <3>1. card.streaming /\ card.text # NoText /\ \A u \in Live : u.text # NoText
      BY <2>2, <2>9 DEF CardInv, CardStages
    <3>2. \A t \in Shown : After(t, text)
      <4> SUFFICES ASSUME NEW t \in Shown PROVE After(t, text)
        OBVIOUS
      <4>1. CASE Final(t)
        <5>1. t = Result /\ state.final = "text"
          BY <2>2, <2>8, <4>1 DEF Told
        <5> QED
          BY <2>3, <4>1, <5>1 DEF After
      <4>2. CASE ~Final(t)
        <5>1. text.len > t.len
          BY <2>1, <2>2, <2>5, <2>8, <4>2 DEF CardTexts
        <5> QED
          BY <2>3, <4>2, <5>1 DEF After, Final, Result
      <4> QED
        BY <4>1, <4>2
    <3>3. SendUpdate(text, call)
      BY <2>1, <2>9
    <3>4. IF Final(text) THEN Told(text)' ELSE text.len <= lastSent'
      BY <2>6, <2>7
    <3>5. /\ sequence' = sequence + 1
          /\ card' \in [text : CardTexts, sequence : Nat, streaming : BOOLEAN] /\ late' \subseteq Updates
          /\ Numbered' /\ InOrder' /\ ShownIsKnown' /\ ViewStep
          /\ card'.text # NoText /\ (Live' # {} => card'.streaming)
          /\ DoneAtOnce(call) => Live' = {} /\ card'.streaming
          /\ ~DoneAtOnce(call) => card' = card /\ \A u \in Live' : u \in Live \/ u.text = text
      BY <2>4, <2>5, <2>6, <3>1, <3>2, <3>3, <3>4, Sent
    <3>6. CardTypes'
      BY <2>1, <2>2, <2>5, <3>5 DEF CardTypes
    <3>7. CardStages'
      BY <2>1, <2>2, <2>4, <2>9, <3>1, <3>5 DEF CardStages
    <3> QED
      BY <3>5, <3>6, <3>7 DEF CardInv
  <2>10. CASE handle # "ready"
    <3>1. Live' = Live /\ Shown' = Shown
      BY <2>1, <2>10 DEF Live, Shown
    <3>2. CardTypes' /\ Numbered' /\ InOrder'
      BY <2>1, <2>2, <2>5, <2>10, <3>1 DEF CardInv, CardTypes, Numbered, InOrder
    <3>3. ShownIsKnown'
      BY <2>2, <2>5, <2>6, <2>8, <3>1 DEF ShownIsKnown, CardTexts
    <3>4. CardStages'
      BY <2>1, <2>2, <2>10, <3>1 DEF CardInv, CardStages
    <3> QED
      BY <2>1, <2>10, <3>2, <3>3, <3>4 DEF CardInv, ViewStep
  <2> QED
    BY <2>9, <2>10
<1> QED
  BY <1>1, <1>2

\* The reply: the card is opened if it was not, the final text is shown and the card
\* closed, or the text is posted.
LEMMA ReplySent ==
    ASSUME AnswerDeliveryAssumption, CardInv, NEW call \in Calls, SendReply(call)
    PROVE  CardInv' /\ ViewStep
<1>0. /\ phase = "done" /\ UNCHANGED <<phase, state, outcome>> /\ FinalText' = FinalText
      /\ ClientStages' /\ Stands
  BY DEF SendReply, turnVars, client, CardInv, ClientStages, Stands, FinalText
<1>1. PICK text : text = FinalText
  OBVIOUS
<1>2. text \in CardTexts /\ Final(text) /\ text # NoText /\ FinalText' = text /\ text = FinalText
  BY <1>0, <1>1 DEF FinalText, Result, Notice, CardTexts, Final, NoText, AnswerDeliveryAssumption
<1>3. /\ CardTypes /\ lastSent \in Nat
      /\ \A t : Told(t) => t = text /\ Told(t)'
      /\ Told(text) /\ Told(text)'
  BY <1>0, <1>2 DEF CardInv, CardTypes, Told
<1>4. CASE StartReply(call)
  <2>1. /\ reply = "none" /\ reply' = IF handle' = "ready" THEN "updating" ELSE "texting"
        /\ EnsureStarted(call)
    BY <1>4 DEF StartReply
  <2>2. CASE handle = "pending"
    <3>1. OpenCard(call)
      BY <2>1, <2>2 DEF EnsureStarted
    <3> QED
      BY <1>0, <2>1, <2>2, <3>1, Opened
  <2>3. CASE handle # "pending"
    <3>1. UNCHANGED <<handle, sequence, lastSent, card, late, posted>>
      BY <2>1, <2>3 DEF EnsureStarted
    <3>2. Live' = Live /\ Shown' = Shown
      BY <3>1 DEF Live, Shown
    <3>3. CardTypes' /\ Numbered' /\ InOrder' /\ ShownIsKnown'
      BY <1>3, <2>1, <3>1, <3>2 DEF CardInv, CardTypes, Numbered, InOrder, ShownIsKnown
    <3>4. CardStages'
      BY <1>0, <2>1, <2>3, <3>1, <3>2 DEF CardInv, CardStages
    <3> QED
      BY <1>0, <3>1, <3>3, <3>4 DEF CardInv, ViewStep
  <2> QED
    BY <2>2, <2>3
<1>5. CASE ShowFinal(FinalText, call)
  <2>1. /\ reply = "updating" /\ SendUpdate(text, call) /\ UNCHANGED <<lastSent, posted>>
        /\ IF call = "done" THEN reply' = "finishing" /\ handle' = "ready"
           ELSE reply' = "texting" /\ handle' = "disabled"
    BY <1>2, <1>5 DEF ShowFinal, Succeeds, CardInv, CardStages
  <2>2. card.streaming /\ card.text # NoText /\ \A u \in Live : u.text # NoText
    BY <2>1 DEF CardInv, CardStages
  <2>3. \A t \in Shown : After(t, text)
    BY <1>2, <1>3 DEF CardInv, ShownIsKnown, After
  <2>4. /\ sequence' = sequence + 1
        /\ card' \in [text : CardTexts, sequence : Nat, streaming : BOOLEAN] /\ late' \subseteq Updates
        /\ Numbered' /\ InOrder' /\ ShownIsKnown' /\ ViewStep
        /\ card'.text # NoText /\ (Live' # {} => card'.streaming)
        /\ DoneAtOnce(call) => /\ Live' = {} /\ card'.sequence = sequence'
                               /\ card'.text = text /\ card'.streaming
    BY <1>2, <1>3, <2>1, <2>2, <2>3, Sent
  <2>5. CardTypes'
    BY <1>3, <2>1, <2>4 DEF CardTypes
  <2>6. CardStages'
    BY <1>0, <1>2, <2>1, <2>4 DEF CardStages, DoneAtOnce
  <2> QED
    BY <1>0, <2>4, <2>5, <2>6 DEF CardInv
<1>6. CASE Finish(call)
  <2>1. /\ reply = "finishing" /\ SendUpdate(NoText, call) /\ UNCHANGED <<lastSent, posted>>
        /\ IF call = "done" THEN reply' = "sent" /\ handle' = "ready"
           ELSE reply' = "texting" /\ handle' = "disabled"
    BY <1>6 DEF Finish, Succeeds, CardInv, CardStages
  <2>2. card.streaming /\ card.text = text /\ card.sequence = sequence
    BY <1>2, <2>1 DEF CardInv, CardStages
  <2>3. Live = {} /\ Shown = {text}
    <3>1. Live = {}
      BY <1>3, <2>2 DEF CardInv, CardTypes, Numbered, Live, Updates
    <3> QED
      BY <2>2, <3>1 DEF Shown
  <2>4. NoText \in CardTexts /\ ~Final(NoText) /\ NoText.len = 0 /\ After(text, NoText)
    BY <1>2 DEF NoText, CardTexts, Final, After
  <2>5. /\ sequence' = sequence + 1
        /\ card' \in [text : CardTexts, sequence : Nat, streaming : BOOLEAN] /\ late' \subseteq Updates
        /\ Numbered' /\ InOrder' /\ ShownIsKnown' /\ ViewStep
        /\ card'.text # NoText /\ (Live' # {} => card'.streaming)
        /\ DoneAtOnce(call) => Live' = {} /\ card'.text = card.text /\ ~card'.streaming
    BY <1>2, <1>3, <2>1, <2>2, <2>3, <2>4, Sent
  <2>6. CardTypes'
    BY <1>3, <2>1, <2>5 DEF CardTypes
  <2>7. CardStages'
    BY <1>0, <1>2, <2>1, <2>2, <2>5 DEF CardStages, DoneAtOnce
  <2> QED
    BY <1>0, <2>5, <2>6, <2>7 DEF CardInv
<1>7. CASE PostText(FinalText, call)
  <2>1. /\ reply = "texting" /\ reply' = IF call = "done" THEN "sent" ELSE "failed"
        /\ posted' = IF DoneAtOnce(call) THEN posted \cup {text} ELSE posted
        /\ UNCHANGED <<handle, sequence, lastSent, card, late>>
    BY <1>2, <1>7 DEF PostText, Succeeds
  <2>2. Live' = Live /\ Shown' = Shown
    BY <2>1 DEF Live, Shown
  <2>3. CardTypes' /\ Numbered' /\ InOrder' /\ ShownIsKnown'
    BY <1>3, <2>1, <2>2 DEF CardInv, CardTypes, Numbered, InOrder, ShownIsKnown
  <2>4. reply' = "sent" => FinalText' \in posted'
    BY <1>2, <2>1 DEF DoneAtOnce
  <2>5. CardStages'
    BY <1>0, <2>1, <2>2, <2>4 DEF CardInv, CardStages
  <2> QED
    BY <1>0, <2>1, <2>3, <2>5 DEF CardInv, ViewStep
<1> QED
  BY <1>4, <1>5, <1>6, <1>7 DEF SendReply

----------------------------------------------------------------------------
(* The whole. *)

\* Every step keeps the invariant, and is a step of the view, or none.
LEMMA DeliveryStep ==
    ASSUME AnswerDeliveryAssumption, TurnInv, CardInv, [Next]_vars PROVE CardInv' /\ ViewStep
<1>1. ASSUME UNCHANGED cardVars, ClientStages', Stands PROVE CardInv' /\ ViewStep
  BY <1>1, CardWaits DEF ViewStep, cardVars
<1>2. ClientStages
  BY DEF CardInv
<1>3. ASSUME NEW call \in Calls, ExecutionStarted(call) PROVE CardInv' /\ ViewStep
  <2>1. handle = "pending" /\ OpenCard(call) /\ reply' = reply /\ ClientStages' /\ Stands
    BY <1>2, <1>3 DEF ExecutionStarted, turnVars, client, ClientStages, Stands
  <2>2. reply' = "none"
    BY <2>1 DEF CardInv, CardStages
  <2> QED
    BY <2>1, <2>2, Opened
<1>4. CASE SubmitTurn
  BY <1>1, <1>2, <1>4, ClientMoves DEF SubmitTurn
<1>5. CASE CodexActs
  BY <1>1, <1>2, <1>5, ClientMoves DEF CodexActs
<1>6. CASE CodexResponds
  BY <1>1, <1>2, <1>6, ClientMoves DEF CodexResponds
<1>7. CASE ClientActs
  BY <1>1, <1>2, <1>7, ClientMoves DEF ClientActs, ClientReads
<1>8. CASE ClientPolls
  BY <1>1, <1>2, <1>8, ClientMoves DEF ClientPolls
<1>9. ASSUME NEW due \in BOOLEAN, NEW call \in Calls, ShowProgress(due, call)
      PROVE  CardInv' /\ ViewStep
  BY <1>2, <1>9, ClientMoves, ProgressShown DEF ShowProgress
<1>10. ASSUME NEW call \in Calls, SendReply(call) PROVE CardInv' /\ ViewStep
  BY <1>10, ReplySent
<1>11. ASSUME NEW update \in late, LateUpdate(update), UNCHANGED turnVars
       PROVE  CardInv' /\ ViewStep
  BY <1>11, LateTaken
<1>12. CASE UNCHANGED vars
  BY <1>1, <1>2, <1>12 DEF vars, turnVars, client, ClientStages, Stands
<1> QED
  BY <1>3, <1>4, <1>5, <1>6, <1>7, <1>8, <1>9, <1>10, <1>11, <1>12
     DEF Next, Shows, Replies, LateArrives

\* Nothing is shown yet.
LEMMA DeliveryInit == ASSUME Init PROVE CardInv /\ View!Init
<1>1. /\ handle = "pending" /\ sequence = 0 /\ lastSent = 0 /\ late = {} /\ reply = "none"
      /\ card = [text |-> NoText, sequence |-> 0, streaming |-> FALSE]
      /\ phase = "idle" /\ state = NewState /\ outcome = "none"
  BY DEF Init, TurnInit, CardInit
<1>2. NoText \in CardTexts /\ ~Final(NoText) /\ NoText.len = 0
  BY DEF NoText, CardTexts, Final
<1>3. Live = {} /\ Shown = {NoText}
  BY <1>1 DEF Live, Shown
<1>4. CardTypes /\ Numbered /\ InOrder /\ ShownIsKnown /\ CardStages /\ ClientStages
  BY <1>1, <1>2, <1>3
     DEF CardTypes, Numbered, InOrder, ShownIsKnown, CardStages, ClientStages, NewState
<1>5. View!Init
  BY <1>1 DEF View!Init, View!NoText, NoText
<1> QED
  BY <1>4, <1>5 DEF CardInv

\* A reply that counts as sent is in the thread, whatever calls failed, whichever
\* of them were done all the same, and however late.
THEOREM SentIsShown == Spec => []AnswerReachesThread
<1>1. AnswerDeliveryAssumption
  BY AnswerDeliveryAssumption
<1>2. Init => CardInv
  BY DeliveryInit
<1>3. TurnInv /\ CardInv /\ [Next]_vars => CardInv'
  BY <1>1, DeliveryStep
<1>4. CardInv => AnswerReachesThread
  BY DEF CardInv, CardStages, AnswerReachesThread
<1> QED
  BY <1>2, <1>3, <1>4, TurnInvariance, PTL DEF Spec

\* What a reader sees only moves forward, and closes on the final text: the turn and
\* its card implement AnswerView.
THEOREM CardIsView == Spec => ViewSpec
<1>1. AnswerDeliveryAssumption
  BY AnswerDeliveryAssumption
<1>2. Init => CardInv /\ View!Init
  BY DeliveryInit
<1>3. TurnInv /\ CardInv /\ [Next]_vars => CardInv' /\ [View!Next]_<<card.text, card.streaming>>
  BY <1>1, DeliveryStep DEF ViewStep
<1> QED
  BY <1>2, <1>3, TurnInvariance, PTL DEF Spec, ViewSpec, View!Spec
=============================================================================
