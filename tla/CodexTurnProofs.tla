---------------------------- MODULE CodexTurnProofs ----------------------------
(***************************************************************************)
(* What the client says of a turn is true, for any number of other turns   *)
(* in the thread, any length of the stream and every fault but one: that   *)
(* turn/start is answered without a turn id.  The invariant follows the    *)
(* answer of each turn: it is unread, taken, or passed over for a reason.  *)
(***************************************************************************)
EXTENDS AnswerDelivery, TLAPS

Texts == {"text", "blank"}
Stages == {"none", "running", "ended"}
NotThere == Texts \cup {"none"}

Signals == [kind : {"started", "delta", "completed"}, turn : Turns]
Notices == [kind : {"error", "accepted", "refused"}, turn : Turns \cup {NoTurn}]
Finals  == [kind : {"final"}, turn : Turns, text : Texts]
Snapshots == [kind : {"snapshot"}, ours : BOOLEAN,
              turns : [Turns -> [at : Stages, answer : NotThere, said : Nat]]]
Messages == Signals \cup Notices \cup Finals \cup Snapshots

States == [turnId : Turns \cup {NoTurn}, progress : Nat, fresh : BOOLEAN, final : NotThere,
           error : BOOLEAN, completed : BOOLEAN]

\* Types of the turn, its messages and what the client holds.
TurnTypes ==
    /\ turn \in [Turns -> Stages]
    /\ said \in [Turns -> Nat]
    /\ answer \in [Turns -> NotThere]
    /\ stream \in Seq(Messages)
    /\ state \in States

\* turn/start is always answered with the id of its turn.
Named == "no_id" \notin TurnFaults

\* What a message says is so: Codex writes it as it happens, and what it says does
\* not change.
IsSo(m) ==
    /\ m.kind = "final" => answer[m.turn] = m.text
    /\ m.kind = "completed" => turn[m.turn] = "ended"
    /\ m.kind = "accepted" => m.turn \in {Ours, NoTurn} /\ (Named => m.turn = Ours)
    /\ m.kind = "snapshot" => \A t \in Turns :
          /\ m.turns[t].answer # "none" => answer[t] = m.turns[t].answer
          /\ m.turns[t].at = "ended" =>
                 /\ turn[t] = "ended"
                 /\ m.turns[t].answer = "none" => answer[t] = "none"

MessagesAreSo == \A i \in 1 .. Len(stream) : IsSo(stream[i])

\* A turn's answer comes after its start and its text, and before its end.
Precedes(m, n) ==
    /\ m.kind \in {"final", "completed"} /\ n.kind \in {"started", "delta"} => m.turn # n.turn
    /\ m.kind = "completed" /\ n.kind = "final" => m.turn # n.turn

MessagesInOrder ==
    \A i, j \in 1 .. Len(stream) : i < j => Precedes(stream[i], stream[j])

\* A turn that has not begun has no answer.
NotBegunIsUnanswered == \A t \in Turns : turn[t] = "none" => answer[t] = "none"

\* Where the answer of a turn is: unread, taken, or passed over by a client that
\* waits for another turn, will never take this one for its own, or has missed it.
Unread(t) == \E i \in 1 .. Len(stream) : stream[i].kind = "final" /\ stream[i].turn = t
Taken(t)  == state.turnId = t /\ state.final # "none"
Unnamed(t) ==
    /\ t # Ours /\ state.turnId # t
    /\ \A i \in 1 .. Len(stream) : stream[i].kind \in {"started", "delta"} => stream[i].turn # t
Passed(t) == (t = Ours /\ missed) \/ state.turnId \notin {NoTurn, t} \/ Unnamed(t)

AnswerIsSomewhere == \A t \in Turns : answer[t] # "none" => Unread(t) \/ Taken(t) \/ Passed(t)

\* What the client holds of a turn is so.
Held ==
    /\ state.final # "none" => state.turnId \in Turns /\ answer[state.turnId] = state.final
    /\ state.completed /\ state.final = "none" =>
           /\ state.turnId \in Turns /\ turn[state.turnId] = "ended"
           /\ answer[state.turnId] = "none" \/ missed
    /\ Named /\ phase \in {"waiting", "polling"} => state.turnId = Ours
    /\ outcome # "none" => phase = "done"

\* What the client says, without the assumption that turn/start names its turn.
Verdict ==
    /\ Named /\ outcome = "answer" => answer[Ours] = "text"
    /\ outcome = "unanswered" => /\ state.turnId \in Turns /\ turn[state.turnId] = "ended"
                                 /\ answer[state.turnId] = "none" \/ missed

\* The inductive invariant.
TurnInv ==
    /\ TurnTypes /\ MessagesAreSo /\ MessagesInOrder /\ NotBegunIsUnanswered
    /\ AnswerIsSomewhere /\ Held /\ Verdict

----------------------------------------------------------------------------
(* Sequences. *)

\* A message put at the end leaves those before it where they are.
LEMMA Appended ==
    ASSUME NEW S, NEW s \in Seq(S), NEW x \in S
    PROVE  /\ Append(s, x) \in Seq(S) /\ Len(Append(s, x)) = Len(s) + 1
           /\ \A i \in 1 .. Len(s) : Append(s, x)[i] = s[i]
           /\ Append(s, x)[Len(s) + 1] = x
  OBVIOUS

\* What is left when the first message is read.
LEMMA Behind ==
    ASSUME NEW S, NEW s \in Seq(S), s # <<>>
    PROVE  /\ Tail(s) \in Seq(S) /\ Len(Tail(s)) = Len(s) - 1
           /\ Len(s) \in Nat \ {0}
           /\ \A i \in 1 .. Len(s) - 1 : Tail(s)[i] = s[i + 1]
           /\ Head(s) = s[1] /\ s[1] \in S
  OBVIOUS

----------------------------------------------------------------------------
(* What the client takes from a message. *)

\* The id is named once; a final answer and an end count only for the turn whose id
\* the client holds.
LEMMA ObserveTakes ==
    ASSUME NEW s \in States, NEW m \in Messages, m.kind # "snapshot"
    PROVE  LET n == Observe(s, m)
           IN  /\ n \in States
               /\ \/ n.turnId = s.turnId
                  \/ s.turnId = NoTurn /\ m.kind \in {"started", "delta"} /\ n.turnId = m.turn
               /\ \/ n.final = s.final
                  \/ m.kind = "final" /\ m.turn = s.turnId /\ n.final = m.text
               /\ m.kind = "final" /\ m.turn = s.turnId => n.final # "none"
               /\ m.kind = "final" => n.turnId = s.turnId
               /\ n.completed => s.completed \/ (m.kind = "completed" /\ m.turn = s.turnId)
<1> USE DEF States, NotThere
<1>1. CASE m.kind = "started"
  <2>1. m.turn \in Turns
    BY <1>1 DEF Messages, Signals, Notices, Finals, Snapshots
  <2>2. Observe(s, m) = IF s.turnId = NoTurn THEN [s EXCEPT !.turnId = m.turn] ELSE s
    BY <1>1 DEF Observe
  <2> QED
    BY <1>1, <2>1, <2>2
<1>2. CASE m.kind = "delta"
  <2>1. m.turn \in Turns
    BY <1>2 DEF Messages, Signals, Notices, Finals, Snapshots
  <2>2. Observe(s, m) = IF MayBeOurs(s, m)
                        THEN [s EXCEPT !.turnId = m.turn, !.progress = @ + 1, !.fresh = TRUE]
                        ELSE s
    BY <1>2 DEF Observe
  <2>3. CASE MayBeOurs(s, m)
    <3> DEFINE p == s.progress + 1
               n == [s EXCEPT !.turnId = m.turn, !.progress = p, !.fresh = TRUE]
    <3>0. p \in Nat
      OBVIOUS
    <3>1. n \in States /\ n.turnId = m.turn /\ n.final = s.final /\ n.completed = s.completed
      <4> HIDE DEF p
      <4> QED
        BY <2>1, <3>0
    <3>2. Observe(s, m) = n
      BY <2>2, <2>3
    <3> QED
      BY <1>2, <2>3, <3>1, <3>2 DEF MayBeOurs
  <2>4. CASE ~MayBeOurs(s, m)
    BY <1>2, <2>2, <2>4
  <2> QED
    BY <2>3, <2>4
<1>3. CASE m.kind = "final"
  <2>1. m.turn \in Turns /\ m.text \in Texts
    BY <1>3 DEF Messages, Signals, Notices, Finals, Snapshots
  <2>2. Observe(s, m) = IF IsOurs(s, m) THEN [s EXCEPT !.final = m.text, !.fresh = TRUE] ELSE s
    BY <1>3 DEF Observe, WithAnswer
  <2> QED
    BY <1>3, <2>1, <2>2 DEF IsOurs, Texts
<1>4. CASE m.kind = "error"
  BY <1>4 DEF Observe, MayBeOurs
<1>5. CASE m.kind = "completed"
  BY <1>5 DEF Observe, IsOurs
<1>6. CASE m.kind \in {"accepted", "refused"}
  BY <1>6 DEF Observe
<1> QED
  BY <1>1, <1>2, <1>3, <1>4, <1>5, <1>6 DEF Messages, Signals, Notices, Finals, Snapshots

\* A snapshot gives the answer or the end of the turn whose id the client holds.
LEMMA SnapshotTakes ==
    ASSUME NEW s \in States, NEW turns \in [Turns -> [at : Stages, answer : NotThere, said : Nat]]
    PROVE  LET n == ObserveSnapshot(s, turns)
           IN  /\ n \in States
               /\ n.turnId = s.turnId
               /\ \/ n.final = s.final
                  \/ s.turnId \in Turns /\ turns[s.turnId].answer # "none"
                     /\ n.final = turns[s.turnId].answer
               /\ n.completed => \/ s.completed \/ n.final # "none"
                                 \/ /\ s.turnId \in Turns /\ turns[s.turnId].at = "ended"
                                    /\ turns[s.turnId].answer = "none"
<1>1. CASE s.turnId = NoTurn \/ turns[s.turnId].at = "none"
  BY <1>1 DEF ObserveSnapshot
<1>2. CASE ~(s.turnId = NoTurn \/ turns[s.turnId].at = "none")
  <2> DEFINE t == turns[s.turnId]
  <2>1. s.turnId \in Turns /\ t \in [at : Stages, answer : NotThere, said : Nat]
    BY <1>2 DEF States
  <2>2. CASE t.answer # "none"
    <3> DEFINE n == [s EXCEPT !.final = t.answer, !.fresh = TRUE, !.completed = TRUE]
    <3>1. n \in States /\ n.turnId = s.turnId /\ n.final = t.answer
      BY <2>1 DEF States
    <3>2. ObserveSnapshot(s, turns) = n
      BY <1>2, <2>2 DEF ObserveSnapshot, WithAnswer
    <3> QED
      BY <2>1, <2>2, <3>1, <3>2
  <2>3. CASE t.answer = "none"
    <3> DEFINE p == IF t.said = 0 THEN s.progress ELSE t.said
               f == s.fresh \/ t.said \notin {0, s.progress}
               c == s.completed \/ IsTerminal(t)
               n == [s EXCEPT !.progress = p, !.fresh = f, !.completed = c]
    <3>1. p \in Nat /\ f \in BOOLEAN /\ c \in BOOLEAN
      BY <2>1 DEF States
    <3>2. ObserveSnapshot(s, turns) = n
      BY <1>2, <2>3 DEF ObserveSnapshot
    <3>3. n \in States /\ n.turnId = s.turnId /\ n.final = s.final /\ n.completed = c
      <4> HIDE DEF p, f, c
      <4> QED
        BY <3>1 DEF States
    <3> QED
      BY <2>1, <2>3, <3>2, <3>3 DEF IsTerminal
  <2> QED
    BY <2>2, <2>3 DEF NotThere
<1> QED
  BY <1>1, <1>2

----------------------------------------------------------------------------
(* What a step does to the stream. *)

\* What has ended, and what was answered, stays as it is.
Grows ==
    \A t \in Turns :
        /\ turn[t] = "ended" => turn'[t] = "ended" /\ answer'[t] = answer[t]
        /\ answer[t] # "none" => answer'[t] = answer[t]

\* What a message says stays so.
LEMMA StaysSo ==
    ASSUME Grows, NEW m \in Messages, IsSo(m) PROVE IsSo(m)'
<1>1. CASE m.kind = "final"
  <2>1. m.turn \in Turns /\ m.text # "none"
    BY <1>1 DEF Messages, Signals, Notices, Finals, Snapshots, Texts
  <2> QED
    BY <1>1, <2>1 DEF Grows, IsSo
<1>2. CASE m.kind = "completed"
  <2>1. m.turn \in Turns
    BY <1>2 DEF Messages, Signals, Notices, Finals, Snapshots
  <2> QED
    BY <1>2, <2>1 DEF Grows, IsSo
<1>3. CASE m.kind \notin {"final", "completed"}
  BY <1>3 DEF Grows, IsSo
<1> QED
  BY <1>1, <1>2, <1>3

\* The properties that concern neither the stream nor what the client has taken.
Settled ==
    /\ TurnTypes' /\ NotBegunIsUnanswered' /\ Verdict'
    /\ Named /\ phase' \in {"waiting", "polling"} => state'.turnId = Ours
    /\ outcome' # "none" => phase' = "done"

\* The client holds of the turn what it held.
SameTaken ==
    /\ state'.turnId = state.turnId /\ state'.final = state.final
    /\ state'.completed = state.completed /\ missed' = missed

\* A step that neither emits nor reads.
LEMMA Quiet ==
    ASSUME TurnInv, Settled, Grows, SameTaken, stream' = stream, answer' = answer
    PROVE  TurnInv'
<1> USE DEF TurnInv, Settled
<1>1. MessagesAreSo'
  <2> SUFFICES ASSUME NEW i \in 1 .. Len(stream) PROVE IsSo(stream[i])'
    BY DEF MessagesAreSo
  <2>1. stream[i] \in Messages /\ IsSo(stream[i])
    BY DEF TurnTypes, MessagesAreSo
  <2>2. \A m : m \in Messages /\ IsSo(m) => IsSo(m)'
    BY StaysSo
  <2> QED
    BY <2>1, <2>2 DEF IsSo
<1>2. MessagesInOrder'
  BY DEF MessagesInOrder, Precedes
<1>3. AnswerIsSomewhere'
  BY DEF AnswerIsSomewhere, SameTaken, Unread, Taken, Passed, Unnamed
<1>4. Held'
  BY DEF Held, SameTaken, Grows
<1> QED
  BY <1>1, <1>2, <1>3, <1>4

\* A step that emits the message m: m is so, and in order.
LEMMA Emitted ==
    ASSUME TurnInv, Settled, Grows, SameTaken, NEW m \in Messages, stream' = Append(stream, m),
           IsSo(m)', \A i \in 1 .. Len(stream) : Precedes(stream[i], m),
           \A t \in Turns : answer'[t] # answer[t] => m.kind = "final" /\ m.turn = t,
           m.kind \in {"started", "delta"} => answer'[m.turn] = "none"
    PROVE  TurnInv'
<1> USE DEF TurnInv, Settled
<1>1. /\ stream \in Seq(Messages) /\ Len(stream) \in Nat /\ Len(stream') = Len(stream) + 1
      /\ \A i \in 1 .. Len(stream) : stream'[i] = stream[i] /\ stream[i] \in Messages
      /\ stream'[Len(stream) + 1] = m
  BY Appended DEF TurnTypes
<1>2. MessagesAreSo'
  <2> SUFFICES ASSUME NEW i \in 1 .. Len(stream) + 1 PROVE IsSo(stream[i])'
    BY <1>1 DEF MessagesAreSo
  <2>1. CASE i = Len(stream) + 1
    BY <2>1, <1>1 DEF IsSo
  <2>2. CASE i \in 1 .. Len(stream)
    <3>1. stream[i] \in Messages /\ IsSo(stream[i])
      BY <2>2, <1>1 DEF MessagesAreSo
    <3>2. \A x : x \in Messages /\ IsSo(x) => IsSo(x)'
      BY StaysSo
    <3> QED
      BY <2>2, <3>1, <3>2, <1>1 DEF IsSo
  <2> QED
    BY <2>1, <2>2, <1>1
<1>3. MessagesInOrder'
  BY <1>1 DEF MessagesInOrder, Precedes
<1>4. AnswerIsSomewhere'
  <2> SUFFICES ASSUME NEW t \in Turns, answer'[t] # "none"
               PROVE  Unread(t)' \/ Taken(t)' \/ Passed(t)'
    BY DEF AnswerIsSomewhere
  <2>1. CASE answer'[t] # answer[t]
    BY <2>1, <1>1 DEF Unread
  <2>2. CASE answer[t] # "none" /\ Unread(t)
    BY <2>2, <1>1 DEF Unread
  <2>3. CASE answer[t] # "none" /\ Taken(t)
    BY <2>3 DEF Taken, SameTaken
  <2>4. CASE answer[t] # "none" /\ Passed(t)
    <3>1. Unnamed(t) => Unnamed(t)'
      BY <1>1 DEF Unnamed, SameTaken
    <3> QED
      BY <2>4, <3>1 DEF Passed, SameTaken
  <2> QED
    BY <2>1, <2>2, <2>3, <2>4 DEF AnswerIsSomewhere
<1>5. Held'
  BY DEF Held, SameTaken, Grows
<1> QED
  BY <1>2, <1>3, <1>4, <1>5

----------------------------------------------------------------------------
(* What a step of the client does that reads a message. *)

\* When the end of the turn is read and its answer was not, there is no answer, or
\* it was missed: it is not behind the end, and not passed over.
LEMMA EndIsLast ==
    ASSUME CodexTurnAssumption, TurnInv, stream # <<>>, stream[1].kind = "completed",
           stream[1].turn = state.turnId, state.turnId \in Turns, state.final = "none"
    PROVE  /\ turn[state.turnId] = "ended"
           /\ answer[state.turnId] = "none" \/ missed
<1>1. stream \in Seq(Messages) /\ Len(stream) \in Nat \ {0} /\ 1 \in 1 .. Len(stream)
  BY Behind DEF TurnInv, TurnTypes
<1>2. turn[state.turnId] = "ended"
  BY <1>1 DEF TurnInv, MessagesAreSo, IsSo
<1>3. ~Unread(state.turnId)
  <2> SUFFICES ASSUME NEW i \in 1 .. Len(stream), stream[i].kind = "final",
                      stream[i].turn = state.turnId
               PROVE  FALSE
    BY DEF Unread
  <2>1. 1 < i
    BY <1>1
  <2>2. Precedes(stream[1], stream[i])
    BY <1>1, <2>1 DEF TurnInv, MessagesInOrder
  <2> QED
    BY <2>2 DEF Precedes
<1> QED
  BY <1>2, <1>3
     DEF TurnInv, AnswerIsSomewhere, Taken, Passed, Unnamed, CodexTurnAssumption

\* What a step that reads the message m makes of what the client holds.
NamesOnce(m) ==
    \/ state'.turnId = state.turnId
    \/ state.turnId = NoTurn /\ m.kind \in {"started", "delta"} /\ state'.turnId = m.turn
    \/ state.turnId = NoTurn /\ m.kind = "accepted" /\ state'.turnId = Ours

\* An answer is taken when it is in the turn whose id it holds, and is that turn's.
TakesAnswer(m) ==
    /\ \/ state'.final = state.final
       \/ /\ state'.turnId = state.turnId /\ state.turnId \in Turns
          /\ state'.final # "none" /\ answer[state.turnId] = state'.final
    /\ m.kind = "final" => /\ state'.turnId = state.turnId
                           /\ m.turn = state.turnId => state'.final # "none"
                           /\ m.turn = Ours /\ state'.final = "none" => missed'

\* The end of a turn without an answer is the end of the turn whose id it holds.
TakesEnd ==
    state'.completed /\ state'.final = "none" =>
        \/ state.completed
        \/ /\ state'.turnId = state.turnId /\ state.turnId \in Turns
           /\ turn[state.turnId] = "ended"
           /\ answer[state.turnId] = "none" \/ missed

\* A step that reads the first message: an answer in it is taken, passed over, or
\* missed.
LEMMA ReadHead ==
    ASSUME CodexTurnAssumption, TurnInv, Settled, stream # <<>>, stream' = Tail(stream),
           UNCHANGED codex, missed => missed',
           NamesOnce(stream[1]), TakesAnswer(stream[1]), TakesEnd
    PROVE  TurnInv'
<1> USE DEF TurnInv, Settled
<1>1. /\ stream \in Seq(Messages) /\ Len(stream) \in Nat \ {0} /\ 1 \in 1 .. Len(stream)
      /\ Len(stream') = Len(stream) - 1
      /\ \A i \in 1 .. Len(stream) - 1 : stream'[i] = stream[i + 1]
  BY Behind DEF TurnTypes
<1>2. turn' = turn /\ answer' = answer
  BY DEF codex
<1>3. MessagesAreSo'
  BY <1>1, <1>2 DEF MessagesAreSo, IsSo
<1>4. MessagesInOrder'
  <2> SUFFICES ASSUME NEW i \in 1 .. Len(stream) - 1, NEW j \in 1 .. Len(stream) - 1, i < j
               PROVE  Precedes(stream[i + 1], stream[j + 1])
    BY <1>1 DEF MessagesInOrder, Precedes
  <2> QED
    BY <1>1 DEF MessagesInOrder
<1>5. \A t \in Turns : answer[t] # "none" => Unread(t)' \/ Taken(t)' \/ Passed(t)'
  <2> SUFFICES ASSUME NEW t \in Turns, answer[t] # "none"
               PROVE  Unread(t)' \/ Taken(t)' \/ Passed(t)'
    OBVIOUS
  <2>0. t # NoTurn
    BY DEF CodexTurnAssumption
  <2>1. CASE Unread(t)
    <3>1. PICK i \in 1 .. Len(stream) : stream[i].kind = "final" /\ stream[i].turn = t
      BY <2>1 DEF Unread
    <3>2. CASE i # 1
      <4>1. i - 1 \in 1 .. Len(stream) - 1 /\ (i - 1) + 1 = i
        BY <1>1, <3>2
      <4> QED
        BY <1>1, <3>1, <4>1 DEF Unread
    <3>3. CASE i = 1 /\ state.turnId = t
      BY <3>1, <3>3 DEF Taken, TakesAnswer
    <3>4. CASE i = 1 /\ state.turnId \notin {NoTurn, t}
      BY <3>1, <3>4 DEF Passed, TakesAnswer
    <3>5. CASE i = 1 /\ state.turnId = NoTurn /\ t = Ours
      <4>1. state.final = "none"
        BY <3>5 DEF Held, CodexTurnAssumption
      <4>2. state'.final = "none"
        BY <3>5, <4>1 DEF TakesAnswer, CodexTurnAssumption
      <4> QED
        BY <3>1, <3>5, <4>2 DEF TakesAnswer, Passed
    <3>6. CASE i = 1 /\ state.turnId = NoTurn /\ t # Ours
      <4>1. state'.turnId # t
        BY <2>0, <3>1, <3>6 DEF TakesAnswer
      <4>2. ASSUME NEW j \in 1 .. Len(stream) - 1, stream[j + 1].kind \in {"started", "delta"}
            PROVE  stream[j + 1].turn # t
        <5>1. j + 1 \in 1 .. Len(stream) /\ 1 < j + 1
          BY <1>1
        <5>2. Precedes(stream[1], stream[j + 1])
          BY <1>1, <5>1 DEF MessagesInOrder
        <5> QED
          BY <3>1, <3>6, <4>2, <5>2 DEF Precedes
      <4> QED
        BY <1>1, <3>6, <4>1, <4>2 DEF Passed, Unnamed
    <3> QED
      BY <3>2, <3>3, <3>4, <3>5, <3>6
  <2>2. CASE Taken(t)
    BY <2>0, <2>2 DEF Taken, NamesOnce, TakesAnswer
  <2>3. CASE (t = Ours /\ missed) \/ state.turnId \notin {NoTurn, t}
    BY <2>3 DEF Passed, NamesOnce
  <2>4. CASE Unnamed(t)
    <3>1. state'.turnId # t
      BY <1>1, <2>4 DEF Unnamed, NamesOnce
    <3>2. \A i \in 1 .. Len(stream) - 1 :
              stream[i + 1].kind \in {"started", "delta"} => stream[i + 1].turn # t
      BY <1>1, <2>4 DEF Unnamed
    <3> QED
      BY <1>1, <2>4, <3>1, <3>2 DEF Passed, Unnamed
  <2> QED
    BY <2>1, <2>2, <2>3, <2>4 DEF AnswerIsSomewhere, Passed
<1>6. AnswerIsSomewhere'
  BY <1>2, <1>5 DEF AnswerIsSomewhere
<1>7. state.turnId \in Turns => state'.turnId = state.turnId
  BY DEF NamesOnce, CodexTurnAssumption
<1>8. Held'
  <2>1. state'.final # "none" => state'.turnId \in Turns /\ answer[state'.turnId] = state'.final
    BY <1>7 DEF Held, TakesAnswer
  <2>2. state'.completed /\ state'.final = "none" =>
            /\ state'.turnId \in Turns /\ turn[state'.turnId] = "ended"
            /\ answer[state'.turnId] = "none" \/ missed'
    BY <1>7 DEF Held, TakesAnswer, TakesEnd
  <2> QED
    BY <1>2, <2>1, <2>2 DEF Held
<1> QED
  BY <1>3, <1>4, <1>6, <1>8

\* A message that is read through Observe.
LEMMA Observed ==
    ASSUME CodexTurnAssumption, TurnInv, Received, state' = Read
    PROVE  /\ state' \in States /\ stream' \in Seq(Messages)
           /\ stream # <<>> /\ stream' = Tail(stream) /\ (missed => missed')
           /\ NamesOnce(stream[1]) /\ TakesAnswer(stream[1]) /\ TakesEnd
<1> DEFINE m == stream[1]
<1>1. /\ state \in States /\ stream # <<>> /\ stream' = Tail(stream) /\ Tail(stream) \in Seq(Messages)
      /\ m \in Messages /\ IsSo(m) /\ state' = Observe(state, m)
      /\ missed' = (missed \/ (m.kind = "final" /\ m.turn = Ours /\ state'.final = "none"))
  <2>1. stream # <<>> /\ stream \in Seq(Messages) /\ state \in States
    BY DEF Received, TurnInv, TurnTypes
  <2>2. 1 \in 1 .. Len(stream) /\ Head(stream) = m /\ m \in Messages /\ Tail(stream) \in Seq(Messages)
    BY <2>1, Behind
  <2> QED
    BY <2>1, <2>2 DEF Received, Read, TurnInv, MessagesAreSo
<1>2. CASE m.kind = "snapshot"
  <2>1. state' = state
    BY <1>1, <1>2 DEF Observe
  <2> QED
    BY <1>1, <1>2, <2>1 DEF NamesOnce, TakesAnswer, TakesEnd
<1>3. CASE m.kind # "snapshot"
  <2>1. /\ state' \in States
        /\ \/ state'.turnId = state.turnId
           \/ state.turnId = NoTurn /\ m.kind \in {"started", "delta"} /\ state'.turnId = m.turn
        /\ \/ state'.final = state.final
           \/ m.kind = "final" /\ m.turn = state.turnId /\ state'.final = m.text
        /\ m.kind = "final" /\ m.turn = state.turnId => state'.final # "none"
        /\ m.kind = "final" => state'.turnId = state.turnId
        /\ state'.completed => state.completed \/ (m.kind = "completed" /\ m.turn = state.turnId)
    BY <1>1, <1>3, ObserveTakes
  <2>2. m.kind \in {"final", "completed"} => m.turn \in Turns
    BY <1>1 DEF Messages, Signals, Notices, Finals, Snapshots
  <2>3. NamesOnce(m)
    BY <2>1 DEF NamesOnce
  <2>4. TakesAnswer(m)
    BY <1>1, <2>1, <2>2 DEF TakesAnswer, IsSo
  <2>5. TakesEnd
    <3> SUFFICES ASSUME state'.completed, state'.final = "none", ~state.completed
                 PROVE  /\ state'.turnId = state.turnId /\ state.turnId \in Turns
                        /\ turn[state.turnId] = "ended"
                        /\ answer[state.turnId] = "none" \/ missed
      BY DEF TakesEnd
    <3>1. m.kind = "completed" /\ m.turn = state.turnId /\ state.turnId \in Turns
      BY <2>1, <2>2
    <3>2. state'.turnId = state.turnId /\ state.final = "none"
      BY <2>1, <3>1
    <3> QED
      BY <1>1, <3>1, <3>2, EndIsLast
  <2> QED
    BY <1>1, <2>1, <2>3, <2>4, <2>5
<1> QED
  BY <1>2, <1>3

----------------------------------------------------------------------------
(* The steps of Codex. *)

\* While the client waits it has returned nothing.
LEMMA ServingIsUndecided ==
    ASSUME TurnInv, phase # "done" PROVE outcome = "none"
  BY DEF TurnInv, Held

\* Codex starts a turn before it speaks, answers once, and ends last.
LEMMA CodexKeeps ==
    ASSUME CodexTurnAssumption, TurnInv, CodexStep PROVE TurnInv'
<1>1. /\ turn \in [Turns -> Stages] /\ said \in [Turns -> Nat] /\ answer \in [Turns -> NotThere]
      /\ stream \in Seq(Messages) /\ state \in States /\ outcome = "none"
      /\ \A i \in 1 .. Len(stream) : stream[i] \in Messages /\ IsSo(stream[i])
      /\ Named /\ phase \in {"waiting", "polling"} => state.turnId = Ours
  BY ServingIsUndecided DEF CodexStep, Serving, TurnInv, TurnTypes, MessagesAreSo, Held
<1>2. ASSUME UNCHANGED client PROVE SameTaken /\ state' = state /\ phase' = phase /\ outcome' = "none"
  BY <1>1, <1>2 DEF client, SameTaken
<1>3. ASSUME NEW t \in Turns, NEW announced \in BOOLEAN, BeginTurn(t, announced) PROVE TurnInv'
  <2> DEFINE m == Message("started", t)
  <2>1. /\ turn[t] = "none" /\ answer[t] = "none" /\ turn' = [turn EXCEPT ![t] = "running"]
        /\ said' = said /\ answer' = answer /\ UNCHANGED client
    BY <1>3 DEF BeginTurn, TurnInv, NotBegunIsUnanswered
  <2>2. m \in Messages
    BY DEF Message, Messages, Signals
  <2>3. stream' = stream \/ stream' = Append(stream, m)
    BY <1>3 DEF BeginTurn, Emit, Reply
  <2>4. stream' \in Seq(Messages)
    <3> HIDE DEF m
    <3>1. Append(stream, m) \in Seq(Messages)
      BY <1>1, <2>2
    <3> QED
      BY <1>1, <2>3, <3>1
  <2>5. Settled /\ Grows
    <3>1. TurnTypes'
      BY <1>1, <1>2, <2>1, <2>4 DEF TurnTypes, Stages
    <3>2. NotBegunIsUnanswered'
      BY <1>1, <2>1 DEF NotBegunIsUnanswered, TurnInv
    <3> QED
      BY <1>1, <1>2, <2>1, <3>1, <3>2 DEF Settled, Grows, Verdict
  <2>6. \A i \in 1 .. Len(stream) : Precedes(stream[i], m)
    <3> SUFFICES ASSUME NEW i \in 1 .. Len(stream), stream[i].kind \in {"final", "completed"},
                        stream[i].turn = t
                 PROVE  FALSE
      BY DEF Precedes, Message
    <3>1. stream[i].kind = "final" => stream[i].text # "none"
      BY <1>1 DEF Messages, Signals, Notices, Finals, Snapshots, Texts
    <3> QED
      BY <1>1, <2>1, <3>1 DEF IsSo
  <2>7. CASE stream' = stream
    BY <1>2, <2>1, <2>5, <2>7, Quiet
  <2>8. CASE stream' = Append(stream, m)
    <3>1. IsSo(m)' /\ m.kind = "started" /\ m.turn = t
      BY DEF IsSo, Message
    <3> HIDE DEF m
    <3> QED
      BY <1>2, <2>1, <2>2, <2>5, <2>6, <2>8, <3>1, Emitted
  <2> QED
    BY <2>3, <2>7, <2>8
<1>4. ASSUME NEW t \in Turns, Say(t) PROVE TurnInv'
  <2> DEFINE m == Message("delta", t)
  <2>1. /\ turn[t] = "running" /\ answer[t] = "none" /\ said' = [said EXCEPT ![t] = @ + 1]
        /\ turn' = turn /\ answer' = answer /\ UNCHANGED client /\ stream' = Append(stream, m)
    BY <1>4 DEF Say, Emit, Reply
  <2>2. m \in Messages
    BY DEF Message, Messages, Signals
  <2>3. stream' \in Seq(Messages)
    BY <1>1, <2>1, <2>2, Appended
  <2>4. Settled /\ Grows
    <3>1. TurnTypes'
      BY <1>1, <1>2, <2>1, <2>3 DEF TurnTypes
    <3>2. NotBegunIsUnanswered'
      BY <2>1 DEF NotBegunIsUnanswered, TurnInv
    <3> QED
      BY <1>1, <1>2, <2>1, <3>1, <3>2 DEF Settled, Grows, Verdict
  <2>5. \A i \in 1 .. Len(stream) : Precedes(stream[i], m)
    <3> SUFFICES ASSUME NEW i \in 1 .. Len(stream), stream[i].kind \in {"final", "completed"},
                        stream[i].turn = t
                 PROVE  FALSE
      BY DEF Precedes, Message
    <3>1. stream[i].kind = "final" => stream[i].text # "none"
      BY <1>1 DEF Messages, Signals, Notices, Finals, Snapshots, Texts
    <3> QED
      BY <1>1, <2>1, <3>1 DEF IsSo
  <2>6. IsSo(m)' /\ m.kind = "delta" /\ m.turn = t
    BY DEF IsSo, Message
  <2> HIDE DEF m
  <2> QED
    BY <1>2, <2>1, <2>2, <2>4, <2>5, <2>6, Emitted
<1>5. ASSUME NEW t \in Turns, NEW text \in {"text", "blank"}, Answer(t, text) PROVE TurnInv'
  <2> DEFINE m == [kind |-> "final", turn |-> t, text |-> text]
  <2>1. /\ turn[t] = "running" /\ answer[t] = "none" /\ answer' = [answer EXCEPT ![t] = text]
        /\ turn' = turn /\ said' = said /\ UNCHANGED client /\ stream' = Append(stream, m)
    BY <1>5 DEF Answer, Emit, Reply
  <2>2. m \in Messages /\ m.kind = "final" /\ m.turn = t /\ m.text = text
    BY DEF Messages, Finals, Texts
  <2>3. stream' \in Seq(Messages)
    BY <1>1, <2>1, <2>2, Appended
  <2>4. Settled /\ Grows
    <3>1. TurnTypes'
      BY <1>1, <1>2, <2>1, <2>3 DEF TurnTypes, NotThere, Texts
    <3>2. NotBegunIsUnanswered'
      BY <1>1, <2>1 DEF NotBegunIsUnanswered, TurnInv
    <3> QED
      BY <1>1, <1>2, <2>1, <3>1, <3>2 DEF Settled, Grows, Verdict
  <2>5. \A i \in 1 .. Len(stream) : Precedes(stream[i], m)
    BY <1>1, <2>1 DEF Precedes, IsSo
  <2>6. IsSo(m)'
    BY <1>1, <2>1, <2>2 DEF IsSo
  <2>7. \A u \in Turns : answer'[u] # answer[u] => u = t
    BY <1>1, <2>1
  <2> HIDE DEF m
  <2> QED
    BY <1>2, <2>1, <2>2, <2>4, <2>5, <2>6, <2>7, Emitted
<1>6. ASSUME NEW t \in Turns, EndTurn(t) PROVE TurnInv'
  <2> DEFINE m == Message("completed", t)
  <2>1. /\ turn[t] = "running" /\ turn' = [turn EXCEPT ![t] = "ended"]
        /\ answer' = answer /\ said' = said /\ UNCHANGED client /\ stream' = Append(stream, m)
    BY <1>6 DEF EndTurn, Emit, Reply
  <2>2. m \in Messages /\ m.kind = "completed" /\ m.turn = t
    BY DEF Message, Messages, Signals
  <2>3. stream' \in Seq(Messages)
    BY <1>1, <2>1, <2>2, Appended
  <2>4. Settled /\ Grows
    <3>1. TurnTypes'
      BY <1>1, <1>2, <2>1, <2>3 DEF TurnTypes, Stages
    <3>2. NotBegunIsUnanswered'
      BY <1>1, <2>1 DEF NotBegunIsUnanswered, TurnInv
    <3> QED
      BY <1>1, <1>2, <2>1, <3>1, <3>2 DEF Settled, Grows, Verdict
  <2>5. \A i \in 1 .. Len(stream) : Precedes(stream[i], m)
    BY DEF Precedes, Message
  <2>6. IsSo(m)'
    BY <1>1, <2>1, <2>2 DEF IsSo
  <2> HIDE DEF m
  <2> QED
    BY <1>2, <2>1, <2>2, <2>4, <2>5, <2>6, Emitted
<1>7. ASSUME NEW t \in Turns \cup {NoTurn}, Complain(t) PROVE TurnInv'
  <2> DEFINE m == Message("error", t)
  <2>1. turn' = turn /\ answer' = answer /\ said' = said /\ UNCHANGED client
        /\ stream' = Append(stream, m)
    BY <1>7 DEF Complain, Emit, Reply, codex
  <2>2. m \in Messages /\ m.kind = "error"
    BY DEF Message, Messages, Notices
  <2>3. stream' \in Seq(Messages)
    BY <1>1, <2>1, <2>2, Appended
  <2>4. Settled /\ Grows
    <3>1. TurnTypes' /\ NotBegunIsUnanswered'
      BY <1>1, <1>2, <2>1, <2>3 DEF TurnTypes, NotBegunIsUnanswered, TurnInv
    <3> QED
      BY <1>1, <1>2, <2>1, <3>1 DEF Settled, Grows, Verdict
  <2>5. (\A i \in 1 .. Len(stream) : Precedes(stream[i], m)) /\ IsSo(m)'
    BY <2>2 DEF Precedes, IsSo
  <2> HIDE DEF m
  <2> QED
    BY <1>2, <2>1, <2>2, <2>4, <2>5, Emitted
<1>8. ASSUME Close PROVE TurnInv'
  <2>1. turn' = turn /\ answer' = answer /\ said' = said /\ UNCHANGED client /\ stream' = stream
    BY <1>8 DEF Close, codex
  <2>2. Settled /\ Grows
    <3>1. TurnTypes' /\ NotBegunIsUnanswered'
      BY <1>1, <1>2, <2>1 DEF TurnTypes, NotBegunIsUnanswered, TurnInv
    <3> QED
      BY <1>1, <1>2, <2>1, <3>1 DEF Settled, Grows, Verdict
  <2> QED
    BY <1>2, <2>1, <2>2, Quiet
<1> QED
  BY <1>3, <1>4, <1>5, <1>6, <1>7, <1>8 DEF CodexStep

----------------------------------------------------------------------------
(* The responses. *)

\* A response names the turn that turn/start began, and a snapshot shows the turns
\* as they are.
LEMMA ResponseKeeps ==
    ASSUME CodexTurnAssumption, TurnInv, Respond PROVE TurnInv'
<1>1. /\ turn \in [Turns -> Stages] /\ said \in [Turns -> Nat] /\ answer \in [Turns -> NotThere]
      /\ stream \in Seq(Messages) /\ state \in States /\ outcome = "none"
      /\ Named /\ phase \in {"waiting", "polling"} => state.turnId = Ours
  BY ServingIsUndecided DEF Respond, Serving, TurnInv, TurnTypes, Held
<1>2. ASSUME NEW m \in Messages, m.kind \in {"accepted", "refused", "snapshot"}, IsSo(m)',
             UNCHANGED <<codex, client>>, stream' = Append(stream, m)
      PROVE  TurnInv'
  <2>1. /\ turn' = turn /\ answer' = answer /\ said' = said /\ SameTaken
        /\ state' = state /\ phase' = phase /\ outcome' = "none"
    BY <1>1, <1>2 DEF codex, client, SameTaken
  <2>2. stream' \in Seq(Messages)
    BY <1>1, <1>2, Appended
  <2>3. Settled /\ Grows
    <3>1. TurnTypes' /\ NotBegunIsUnanswered'
      BY <1>1, <2>1, <2>2 DEF TurnTypes, NotBegunIsUnanswered, TurnInv
    <3> QED
      BY <1>1, <2>1, <3>1 DEF Settled, Grows, Verdict
  <2>4. \A i \in 1 .. Len(stream) : Precedes(stream[i], m)
    BY <1>2 DEF Precedes
  <2> QED
    BY <1>2, <2>1, <2>3, <2>4, Emitted
<1>3. CASE Accept
  <2>1. PICK t \in {Ours} \cup (IF Named THEN {} ELSE {NoTurn}) :
            stream' = Append(stream, Message("accepted", t)) /\ UNCHANGED <<codex, client>>
    BY <1>3 DEF Accept, Reply, Named
  <2>2. /\ Message("accepted", t) \in Messages /\ Message("accepted", t).kind = "accepted"
        /\ IsSo(Message("accepted", t))'
    BY DEF Message, Messages, Notices, Turns, IsSo
  <2> QED
    BY <1>2, <2>1, <2>2
<1>4. CASE Report
  <2>1. PICK shown \in [Turns -> 0 .. MaxSaid], ours \in BOOLEAN :
           stream' = Append(stream,
               [kind |-> "snapshot", ours |-> ours,
                turns |-> [t \in Turns |-> [at |-> turn[t], answer |-> answer[t],
                                           said |-> shown[t]]]])
    BY <1>4 DEF Report, Reply
  <2> DEFINE turns == [t \in Turns |-> [at |-> turn[t], answer |-> answer[t], said |-> shown[t]]]
  <2>2. turns \in [Turns -> [at : Stages, answer : NotThere, said : Nat]]
    BY <1>1 DEF CodexTurnAssumption
  <2>3. \E m \in Messages : m = [kind |-> "snapshot", ours |-> ours, turns |-> turns]
    <3> HIDE DEF turns
    <3> QED
      BY <2>2 DEF Messages, Snapshots
  <2>4. PICK m \in Messages : m = [kind |-> "snapshot", ours |-> ours, turns |-> turns]
    BY <2>3
  <2>5. UNCHANGED <<codex, client>> /\ stream' = Append(stream, m)
    BY <1>4, <2>1, <2>4 DEF Report
  <2>6. m.kind = "snapshot" /\ IsSo(m)'
    BY <2>4, <2>5 DEF IsSo, codex
  <2> QED
    BY <1>2, <2>5, <2>6
<1>5. CASE Refuse
  <2>1. stream' = Append(stream, Message("refused", NoTurn)) /\ UNCHANGED <<codex, client>>
    BY <1>5 DEF Refuse, Reply
  <2>2. /\ Message("refused", NoTurn) \in Messages /\ Message("refused", NoTurn).kind = "refused"
        /\ IsSo(Message("refused", NoTurn))'
    BY DEF Message, Messages, Notices, IsSo
  <2> QED
    BY <1>2, <2>1, <2>2
<1> QED
  BY <1>3, <1>4, <1>5 DEF Respond

----------------------------------------------------------------------------
(* The steps of the client. *)

\* Steps that read nothing: what the client returns follows from what it holds.
LEMMA ClientDecides ==
    ASSUME CodexTurnAssumption, TurnInv,
           PrepareFails \/ Submit \/ StreamEnds \/ Decide \/ Poll \/ Flush
    PROVE  TurnInv'
<1>1. /\ TurnTypes /\ NotBegunIsUnanswered /\ Held /\ Verdict
      /\ turn' = turn /\ said' = said /\ answer' = answer /\ stream' = stream /\ missed' = missed
  BY DEF PrepareFails, Submit, StreamEnds, Decide, Poll, Flush, codex, wire, TurnInv
<1>2. state' \in States /\ SameTaken
  BY <1>1 DEF PrepareFails, Submit, StreamEnds, Decide, Poll, Flush, TurnTypes, States, SameTaken
<1>3. TurnTypes' /\ NotBegunIsUnanswered' /\ Grows
  BY <1>1, <1>2 DEF TurnTypes, NotBegunIsUnanswered, Grows
<1>4. Verdict' /\ (outcome' # "none" => phase' = "done")
      /\ (Named /\ phase' \in {"waiting", "polling"} => state'.turnId = Ours)
  <2>1. CASE PrepareFails
    BY <2>1 DEF PrepareFails, Return, Verdict
  <2>2. CASE Submit
    BY <1>1, <2>2 DEF Submit, Verdict, Held
  <2>3. CASE StreamEnds
    BY <2>3 DEF StreamEnds, Return, Verdict
  <2>4. CASE Decide
    <3>1. /\ phase' = "done" /\ state' = state /\ phase = "waiting" /\ Decided
          /\ outcome' = CASE state.error -> "error"
                          [] ~state.error /\ state.final # "none" ->
                                IF state.final = "text" THEN "answer" ELSE "blank"
                          [] OTHER -> "unanswered"
      BY <2>4 DEF Decide, Ready, Return
    <3>2. Named => state.turnId = Ours
      BY <1>1, <3>1 DEF Held
    <3>3. outcome' = "answer" => state.final = "text"
      BY <3>1
    <3>4. outcome' = "unanswered" => state.final = "none" /\ state.completed
      BY <3>1 DEF Decided
    <3> QED
      BY <1>1, <3>1, <3>2, <3>3, <3>4 DEF Verdict, Held, CodexTurnAssumption
  <2>5. CASE Poll
    BY <1>1, <2>5 DEF Poll, Ready, Return, Verdict, Held
  <2>6. CASE Flush
    BY <1>1, <1>2, <2>6 DEF Flush, Verdict, Held, SameTaken
  <2> QED
    BY <2>1, <2>2, <2>3, <2>4, <2>5, <2>6
<1>5. Settled
  BY <1>3, <1>4 DEF Settled
<1> QED
  BY <1>1, <1>2, <1>3, <1>5, Quiet

\* Steps that read the message at the head of the stream.
LEMMA ClientHears ==
    ASSUME CodexTurnAssumption, TurnInv,
           \/ ReadForRequest \/ RequestRefused \/ StatusPolled \/ ReadWhileWaiting
           \/ \E recorded \in BOOLEAN : TurnAccepted(recorded)
    PROVE  TurnInv'
<1>1. /\ TurnTypes /\ NotBegunIsUnanswered /\ Held /\ Verdict
      /\ stream # <<>> /\ stream' = Tail(stream) /\ UNCHANGED codex /\ (missed => missed')
  <2>1. CASE Received
    BY <2>1 DEF Received, TurnInv
  <2>2. CASE StatusPolled
    <3>1. stream # <<>> /\ stream' = Tail(stream) /\ UNCHANGED <<codex, missed>>
      BY <2>2 DEF StatusPolled
    <3> QED
      BY <3>1 DEF TurnInv
  <2> QED
    BY <2>1, <2>2 DEF ReadForRequest, RequestRefused, ReadWhileWaiting, TurnAccepted
<1>2. Tail(stream) \in Seq(Messages) /\ Head(stream) = stream[1] /\ stream[1] \in Messages
      /\ IsSo(stream[1])
  <2>1. 1 \in 1 .. Len(stream) /\ Tail(stream) \in Seq(Messages) /\ Head(stream) = stream[1]
        /\ stream[1] \in Messages
    BY <1>1, Behind DEF TurnTypes
  <2> QED
    BY <2>1 DEF TurnInv, MessagesAreSo
<1>3. TurnTypes' /\ NotBegunIsUnanswered' /\ Grows <=> state' \in States
  BY <1>1, <1>2 DEF TurnTypes, NotBegunIsUnanswered, Grows, codex
<1>4. CASE state' = Read /\ Received /\ phase # "done"
           /\ \/ UNCHANGED <<phase, outcome>>
              \/ Return("error")
              \/ Return("unanswered") /\ Read.completed /\ Read.final = "none"
  <2>1. /\ state' \in States
        /\ NamesOnce(stream[1]) /\ TakesAnswer(stream[1]) /\ TakesEnd
    BY <1>4, Observed
  <2>2. outcome = "none"
    BY <1>4, ServingIsUndecided
  <2>3. /\ Named /\ phase' \in {"waiting", "polling"} => state'.turnId = Ours
        /\ outcome' # "none" => phase' = "done"
    BY <1>1, <1>4, <2>1, <2>2 DEF Return, Held, NamesOnce, Turns, CodexTurnAssumption
  <2>4. Verdict'
    <3> SUFFICES ASSUME outcome' = "unanswered"
                 PROVE  /\ state'.turnId \in Turns /\ turn[state'.turnId] = "ended"
                        /\ answer[state'.turnId] = "none" \/ missed'
      BY <1>1, <1>4, <2>2 DEF Return, Verdict, codex
    <3>1. state'.completed /\ state'.final = "none"
      BY <1>4, <2>2 DEF Return
    <3>2. CASE state.final # "none"
      BY <2>1, <3>1, <3>2 DEF TakesAnswer
    <3>3. CASE state.final = "none"
      <4>1. /\ state.turnId \in Turns /\ turn[state.turnId] = "ended"
            /\ answer[state.turnId] = "none" \/ missed
        BY <1>1, <2>1, <3>1, <3>3 DEF TakesEnd, Held
      <4> QED
        BY <1>1, <2>1, <4>1 DEF NamesOnce, CodexTurnAssumption
    <3> QED
      BY <3>2, <3>3
  <2>5. Settled
    BY <1>3, <2>1, <2>3, <2>4 DEF Settled
  <2> QED
    BY <1>1, <2>1, <2>5, ReadHead
<1>5. CASE stream[1].kind \in {"accepted", "refused", "snapshot"} /\ state' = state
           /\ phase' = "done" /\ outcome' \notin {"answer", "unanswered"}
  <2>1. Settled
    BY <1>1, <1>3, <1>5 DEF Settled, Verdict, TurnTypes
  <2>2. NamesOnce(stream[1]) /\ TakesAnswer(stream[1]) /\ TakesEnd
    BY <1>5 DEF NamesOnce, TakesAnswer, TakesEnd
  <2> QED
    BY <1>1, <2>1, <2>2, ReadHead
<1>6. CASE ReadForRequest
  BY <1>4, <1>6 DEF ReadForRequest, Return
<1>7. CASE ReadWhileWaiting
  BY <1>4, <1>7 DEF ReadWhileWaiting, Ready
<1>8. CASE RequestRefused
  BY <1>2, <1>5, <1>8 DEF RequestRefused, Return
<1>9. CASE StatusPolled
  <2> DEFINE m == stream[1]
  <2>1. m.kind = "snapshot" /\ phase = "polling"
    BY <1>2, <1>9 DEF StatusPolled
  <2>2. CASE Return("unsent") /\ UNCHANGED state
    BY <1>5, <2>1, <2>2 DEF Return
  <2>3. CASE state' = ObserveSnapshot(state, m.turns) /\ phase' = "waiting" /\ UNCHANGED outcome
    <3>1. m.turns \in [Turns -> [at : Stages, answer : NotThere, said : Nat]] /\ state \in States
      BY <1>1, <1>2, <2>1 DEF Messages, Signals, Notices, Finals, Snapshots, TurnTypes
    <3>2. /\ state' \in States
          /\ state'.turnId = state.turnId
          /\ \/ state'.final = state.final
             \/ state.turnId \in Turns /\ m.turns[state.turnId].answer # "none"
                /\ state'.final = m.turns[state.turnId].answer
          /\ state'.completed => \/ state.completed \/ state'.final # "none"
                                 \/ /\ state.turnId \in Turns /\ m.turns[state.turnId].at = "ended"
                                    /\ m.turns[state.turnId].answer = "none"
      BY <2>3, <3>1, SnapshotTakes
    <3>3. NamesOnce(m) /\ TakesAnswer(m) /\ TakesEnd
      BY <1>2, <2>1, <3>2 DEF NamesOnce, TakesAnswer, TakesEnd, IsSo
    <3>4. outcome = "none" /\ (Named => state.turnId = Ours)
      BY <1>1, <2>1, ServingIsUndecided DEF Held
    <3>5. Settled
      BY <1>3, <2>3, <3>2, <3>4 DEF Settled, Verdict
    <3> QED
      BY <1>1, <3>3, <3>5, ReadHead
  <2> QED
    BY <1>2, <1>9, <2>2, <2>3 DEF StatusPolled
<1>10. ASSUME NEW recorded \in BOOLEAN, TurnAccepted(recorded) PROVE TurnInv'
  <2> DEFINE m == stream[1]
             id == StartedId(m)
  <2>1. /\ m.kind = "accepted" /\ m.turn \in {Ours, NoTurn} /\ (Named => m.turn = Ours)
        /\ phase = "starting"
    BY <1>2, <1>10 DEF TurnAccepted, IsSo
  <2>2. id \in {Ours, state.turnId} /\ (Named => id = Ours) /\ Ours # NoTurn
    BY <2>1 DEF StartedId, Turns, CodexTurnAssumption
  <2>3. CASE Return("mismatch") /\ UNCHANGED state
    BY <1>5, <2>1, <2>3 DEF Return
  <2>4. CASE /\ id # NoTurn /\ state.turnId \in {NoTurn, id} /\ state' = [state EXCEPT !.turnId = id]
             /\ \/ phase' = "waiting" /\ UNCHANGED outcome
                \/ Return("unrecorded")
    <3> HIDE DEF id
    <3>1. /\ state' \in States /\ state'.turnId = id /\ state'.final = state.final
          /\ state'.completed = state.completed
      BY <1>1, <2>2, <2>4 DEF TurnTypes, States, Turns
    <3>2. NamesOnce(m) /\ TakesAnswer(m) /\ TakesEnd
      BY <2>1, <2>2, <2>4, <3>1 DEF NamesOnce, TakesAnswer, TakesEnd
    <3>3. outcome = "none"
      BY <2>1, ServingIsUndecided
    <3>4. Settled
      BY <1>3, <2>2, <2>4, <3>1, <3>3 DEF Settled, Verdict, Return
    <3> QED
      BY <1>1, <3>2, <3>4, ReadHead
  <2> QED
    BY <1>2, <1>10, <2>3, <2>4 DEF TurnAccepted
<1> QED
  BY <1>6, <1>7, <1>8, <1>9, <1>10

----------------------------------------------------------------------------
(* The whole. *)

\* Showing the text so far is the one step of the card in which the client takes
\* part; the others leave the turn alone.
LEMMA TurnStep ==
    ASSUME CodexTurnAssumption, TurnInv, [Next]_vars PROVE TurnInv'
<1>1. CASE UNCHANGED turnVars
  BY <1>1 DEF turnVars, codex, wire, client, TurnInv, TurnTypes, MessagesAreSo, IsSo,
              MessagesInOrder, Precedes, NotBegunIsUnanswered, AnswerIsSomewhere, Unread, Taken,
              Passed, Unnamed, Held, Verdict
<1>2. CASE \E call \in Calls : ExecutionStarted(call)
  BY <1>1, <1>2 DEF ExecutionStarted
<1>3. CASE SubmitTurn
  BY <1>3, ClientDecides DEF SubmitTurn
<1>4. CASE CodexActs
  BY <1>4, CodexKeeps DEF CodexActs
<1>5. CASE CodexResponds
  BY <1>5, ResponseKeeps DEF CodexResponds
<1>6. CASE ClientActs
  BY <1>6, ClientDecides, ClientHears DEF ClientActs, ClientReads
<1>7. CASE ClientPolls
  BY <1>7, ClientDecides DEF ClientPolls
<1>8. CASE Shows
  BY <1>8, ClientDecides DEF Shows, ShowProgress
<1>9. CASE Replies
  BY <1>1, <1>9 DEF Replies, SendReply
<1>10. CASE LateArrives
  BY <1>1, <1>10 DEF LateArrives
<1>11. CASE UNCHANGED vars
  BY <1>1, <1>11 DEF vars
<1> QED
  BY <1>2, <1>3, <1>4, <1>5, <1>6, <1>7, <1>8, <1>9, <1>10, <1>11 DEF Next

\* The invariant holds in every run, whatever the faults.
THEOREM TurnInvariance == Spec => []TurnInv
<1>1. CodexTurnAssumption
  BY CodexTurnAssumption
<1>2. Init => TurnInv
  <2> SUFFICES ASSUME TurnInit PROVE TurnInv
    BY DEF Init
  <2>1. TurnTypes
    BY DEF TurnInit, TurnTypes, NewState, States, Stages, NotThere
  <2>2. stream = <<>> /\ state = NewState /\ answer = [t \in Turns |-> "none"] /\ phase = "idle"
        /\ outcome = "none"
    BY DEF TurnInit
  <2>3. MessagesAreSo /\ MessagesInOrder
    BY <2>2 DEF MessagesAreSo, MessagesInOrder
  <2>4. NotBegunIsUnanswered /\ AnswerIsSomewhere
    BY <2>2 DEF NotBegunIsUnanswered, AnswerIsSomewhere
  <2>5. Held /\ Verdict
    BY <2>2 DEF Held, Verdict, NewState
  <2> QED
    BY <2>1, <2>3, <2>4, <2>5 DEF TurnInv
<1>3. TurnInv /\ [Next]_vars => TurnInv'
  BY <1>1, TurnStep
<1> QED
  BY <1>2, <1>3, PTL DEF Spec

\* What the client says of the turn is true in every run in which turn/start is
\* answered with the turn's id: for any other turns in the thread, any order of the
\* messages, and every other fault.
THEOREM VerdictCorrect ==
    ASSUME "no_id" \notin TurnFaults PROVE Spec => []VerdictIsTrue
<1>1. TurnInv => VerdictIsTrue
  <2>1. NoTurn \notin Turns
    BY CodexTurnAssumption DEF CodexTurnAssumption
  <2> QED
    BY <2>1 DEF TurnInv, Verdict, VerdictIsTrue, Named
<1> QED
  BY <1>1, TurnInvariance, PTL
=============================================================================
