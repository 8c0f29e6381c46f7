--------------------------- MODULE LongConnection ---------------------------
(***************************************************************************)
(* The long connections of the Feishu/Lark apps.  One supervisor takes the *)
(* apps of the config in use and serves them one after the other, each     *)
(* until its connection ends; only then does it look at the config again.  *)
(* A connection carries frames: an event comes as one frame or cut into    *)
(* several, among frames of other events and of other kinds.  The router   *)
(* decides about an event, which for a reply is to claim it in the ledger, *)
(* then acknowledges it, and only then hands it on.  The platform sends an *)
(* event that it has no acknowledgement for again, perhaps cut otherwise.  *)
(***************************************************************************)
EXTENDS ConfigReload, FiniteSets, SequencesExt

CONSTANTS
    Events,         \* messages of users to the apps
    AppOf,          \* AppOf[e]: the app event e is for
    Replies,        \* the events that are replies in a thread: they are claimed
    Malformed,      \* events that the router cannot normalise
    MaxParts,       \* an event is cut into 1 .. MaxParts frames
    MaxFrames,      \* bound on frames under way
    Pings,          \* has the platform given a ping interval?
    NoApp

ASSUME LongConnectionAssumption ==
    /\ AppOf \in [Events -> Providers]
    /\ Replies \subseteq Events /\ Malformed \subseteq Events
    /\ MaxParts \in Nat \ {0} /\ MaxFrames \in Nat
    /\ Pings \in BOOLEAN
    /\ NoApp \notin Providers

VARIABLES
    round,          \* the apps of this round that were not served yet
    link,           \* [at, to]: the connection the supervisor is at work on
    quiet,          \* the other end has gone without a sign
    frames,         \* frames under way to the router
    fragments,      \* fragments[e]: the buffered parts of e; <<>> when there are none
    hand,           \* the parts of the event that is being answered
    sending,        \* sending[e]: [cut, next] of an event the platform is sending
    acked,          \* events the platform has an acknowledgement for
    decided,        \* events the router has decided about, replies claimed
    handed,         \* handed[e]: how often e was handed on
    cutOff          \* events whose answer was cut off before they were handed on

linkVars == <<round, link, quiet, frames, fragments, hand, sending, acked,
              decided, handed, cutOff>>
vars == <<configVars, linkVars>>

Part(e, n, cut) == [event |-> e, part |-> n, of |-> cut]
Whole(e, cut)   == [n \in 1 .. cut |-> Part(e, n, cut)]
NoPart   == [event |-> "none"]
NotSending == [cut |-> 0, next |-> 0]
EventFrame(p) == [kind |-> "event", piece |-> p]
OddFrame(k)   == [kind |-> k]

Answering == {"acking", "skipping", "handing"}
Connected == link.at \in {"receiving"} \cup Answering

----------------------------------------------------------------------------

LinkInit ==
    /\ round = <<>>
    /\ link = [at |-> "reading", to |-> NoApp]
    /\ quiet = FALSE
    /\ frames = <<>>
    /\ fragments = [e \in Events |-> <<>>]
    /\ hand = <<>>
    /\ sending = [e \in Events |-> NotSending]
    /\ acked = {}
    /\ decided = {}
    /\ handed = [e \in Events |-> 0]
    /\ cutOff = {}

\* What ends with the connection: its frames, its buffer, the event in hand.
Drop(place) ==
    /\ link' = [at |-> place, to |-> NoApp]
    /\ quiet' = FALSE
    /\ frames' = <<>>
    /\ fragments' = [e \in Events |-> <<>>]
    /\ hand' = <<>>
    /\ sending' = [e \in Events |-> NotSending]

\* Mutant of Fail: the supervisor goes back to the app whose connection failed.
FailRetrying ==
    /\ Drop("backoff")
    /\ round' = <<link.to>> \o round

\* Any error ends the connection; the supervisor waits three seconds.
Fail == Drop("backoff") /\ UNCHANGED round

----------------------------------------------------------------------------
\* The supervisor.

ReadTargets ==
    /\ at \in Up \/ at = "built"
    /\ link.at \in {"reading", "idle"}
    /\ round' = current.serves
    /\ link' = [link EXCEPT !.at = IF current.serves = <<>> THEN "idle" ELSE "next"]
    /\ UNCHANGED <<quiet, frames, fragments, hand, sending, acked, decided, handed, cutOff>>

NextApp ==
    /\ link.at \in {"next", "backoff"}
    /\ IF round = <<>>
       THEN link' = [at |-> "reading", to |-> NoApp] /\ UNCHANGED round
       ELSE link' = [at |-> "connecting", to |-> Head(round)] /\ round' = Tail(round)
    /\ UNCHANGED <<quiet, frames, fragments, hand, sending, acked, decided, handed, cutOff>>

\* The token, the bot's identity, the endpoint and the web socket.
Connect ==
    /\ link.at = "connecting"
    /\ link' = [link EXCEPT !.at = "receiving"]
    /\ UNCHANGED <<round, quiet, frames, fragments, hand, sending, acked, decided, handed, cutOff>>

ConnectFails ==
    /\ link.at = "connecting"
    /\ Fail
    /\ UNCHANGED <<acked, decided, handed, cutOff>>

----------------------------------------------------------------------------
\* The platform and the network.

\* Also while parts of an earlier sending are still to come: those never do.
BeginSend(e, cut) ==
    /\ Connected /\ ~quiet /\ link.to = AppOf[e]
    /\ e \notin acked
    /\ Spend("sends")
    /\ sending' = [sending EXCEPT ![e] = [cut |-> cut, next |-> 1]]
    /\ UNCHANGED <<round, link, quiet, frames, fragments, hand, acked, decided, handed, cutOff>>
    /\ UNCHANGED <<file, held, at, current, loaded, observed, settled, todo, settings, rendered, gaveUp, edited>>

SendPart(e) ==
    /\ sending[e] # NotSending /\ ~quiet
    /\ Len(frames) < MaxFrames
    /\ frames' = Append(frames, EventFrame(Part(e, sending[e].next, sending[e].cut)))
    /\ sending' = [sending EXCEPT ![e] = IF @.next = @.cut THEN NotSending
                                                          ELSE [cut |-> @.cut, next |-> @.next + 1]]
    /\ UNCHANGED <<round, link, quiet, fragments, hand, acked, decided, handed, cutOff>>

\* "other" is a control frame, a web socket ping or data of another type; "wrong"
\* a text frame, a frame that cannot be read, or one of an unknown method.
SendOdd(kind) ==
    /\ Connected /\ ~quiet
    /\ Len(frames) < MaxFrames
    /\ frames' = Append(frames, OddFrame(kind))
    /\ UNCHANGED <<round, link, quiet, fragments, hand, sending, acked, decided, handed, cutOff>>

\* The connection is closed, or an operation on it reports an error.
LinkBreaks ==
    /\ link.at = "receiving"
    /\ Fail
    /\ UNCHANGED <<acked, decided, handed, cutOff>>

GoesQuiet ==
    /\ Connected /\ ~quiet
    /\ quiet' = TRUE
    /\ frames' = <<>>
    /\ sending' = [e \in Events |-> NotSending]
    /\ UNCHANGED <<round, link, fragments, hand, acked, decided, handed, cutOff>>

----------------------------------------------------------------------------
\* The connection.

\* Mutant of Ping: no ping is sent while an event is being put together.
PingOnlyBetween ==
    /\ link.at = "receiving" /\ Pings /\ quiet
    /\ \A e \in Events : fragments[e] = <<>>
    /\ Fail
    /\ UNCHANGED <<acked, decided, handed, cutOff>>

\* A ping that cannot be sent is an error; one that can changes nothing.
Ping ==
    /\ link.at = "receiving" /\ Pings /\ quiet
    /\ Fail
    /\ UNCHANGED <<acked, decided, handed, cutOff>>

\* The buffer of the parts; a frame that is an event of its own passes it by.
Accept(p) ==
    LET known == IF fragments[p.event] = <<>> THEN [n \in 1 .. p.of |-> NoPart]
                                              ELSE fragments[p.event]
        parts == [known EXCEPT ![p.part] = p]
    IN  IF p.of = 1
        THEN hand' = <<p>> /\ UNCHANGED fragments
        ELSE IF \E n \in DOMAIN parts : parts[n] = NoPart
        THEN fragments' = [fragments EXCEPT ![p.event] = parts] /\ UNCHANGED hand
        ELSE hand' = parts /\ fragments' = [fragments EXCEPT ![p.event] = <<>>]

\* The part is the last one missing.
Completes(p) == \/ p.of = 1
                \/ /\ fragments[p.event] # <<>>
                   /\ \A n \in DOMAIN fragments[p.event] \ {p.part} :
                        fragments[p.event][n] # NoPart

\* Mutant of SumChanged: a part may be of another cut than those before it.
SumChangedNever(p) == FALSE

SumChanged(p) == /\ p.of > 1
                 /\ fragments[p.event] # <<>>
                 /\ Len(fragments[p.event]) # p.of

Unacceptable(p) == \/ SumChanged(p)
                   \/ Completes(p) /\ p.event \in Malformed

\* Mutant of Answer: a reply that was claimed before is handed on again.
AnswerAgain(e) == link' = [link EXCEPT !.at = "acking"]

\* The claim of a reply is in the ledger before the platform hears of it.
Answer(e) == link' = [link EXCEPT !.at =
                        IF e \in Replies \cap decided THEN "skipping" ELSE "acking"]

\* A frame that completes an event is not taken back to the queue: an event that
\* cannot be normalised ends the connection and gets no acknowledgement.
Receive ==
    /\ link.at = "receiving" /\ frames # <<>>
    /\ LET f == Head(frames)
       IN  IF \/ f.kind = "wrong"
              \/ f.kind = "event" /\ Unacceptable(f.piece)
           THEN Fail /\ UNCHANGED decided
           ELSE /\ frames' = Tail(frames)
                /\ IF f.kind = "event"
                   THEN Accept(f.piece)
                   ELSE UNCHANGED <<fragments, hand>>
                /\ IF hand' # <<>>
                   THEN Answer(f.piece.event) /\ decided' = decided \cup {f.piece.event}
                   ELSE UNCHANGED <<link, decided>>
                /\ UNCHANGED <<round, quiet, sending>>
    /\ UNCHANGED <<acked, handed, cutOff>>

InHand == hand[1].event

\* On a link that has gone quiet the acknowledgement is sent to nobody.
SendAck ==
    /\ link.at \in {"acking", "skipping"}
    /\ acked' = IF quiet THEN acked ELSE acked \cup {InHand}
    /\ IF link.at = "acking"
       THEN link' = [link EXCEPT !.at = "handing"] /\ UNCHANGED hand
       ELSE link' = [link EXCEPT !.at = "receiving"] /\ hand' = <<>>
    /\ UNCHANGED <<round, quiet, frames, fragments, sending, decided, handed, cutOff>>

AckFails ==
    /\ link.at \in {"acking", "skipping"}
    /\ cutOff' = IF link.at = "acking" THEN cutOff \cup {InHand} ELSE cutOff
    /\ Fail
    /\ UNCHANGED <<acked, decided, handed>>

HandOn ==
    /\ link.at = "handing"
    /\ handed' = [handed EXCEPT ![InHand] = @ + 1]
    /\ link' = [link EXCEPT !.at = "receiving"]
    /\ hand' = <<>>
    /\ UNCHANGED <<round, quiet, frames, fragments, sending, acked, decided, cutOff>>

----------------------------------------------------------------------------

\* The process ends at any point: a signal, or an error of one of its tasks.
Stop ==
    /\ at # "down"
    /\ Stopped
    /\ Drop("reading")
    /\ round' = <<>>
    /\ cutOff' = IF link.at \in {"acking", "handing"} THEN cutOff \cup {InHand} ELSE cutOff
    /\ UNCHANGED <<acked, decided, handed>>

SupervisorStep == ReadTargets \/ NextApp \/ Connect \/ ConnectFails
AnswerStep     == Receive \/ SendAck \/ AckFails \/ HandOn
PlatformStep   == \/ \E e \in Events : SendPart(e)
                  \/ \E kind \in {"other", "wrong"} : SendOdd(kind)
                  \/ LinkBreaks \/ GoesQuiet

LinkNext == SupervisorStep \/ AnswerStep \/ Ping \/ PlatformStep

Next == \/ ConfigNext /\ UNCHANGED linkVars
        \/ LinkNext /\ UNCHANGED configVars
        \/ \E e \in Events, cut \in 1 .. MaxParts : BeginSend(e, cut)
        \/ Stop

Init == ConfigInit /\ LinkInit

Spec == Init /\ [][Next]_vars

\* Every task goes on; the platform finishes what it has begun to send, and an
\* attempt to connect ends.  Nothing is assumed of users, breaks and new events.
FairSpec ==
    /\ Spec
    /\ WF_vars(ReloadStep /\ UNCHANGED linkVars)
    /\ WF_vars((HookStep \/ HookFails) /\ UNCHANGED linkVars)
    /\ WF_vars((Build \/ BeginWatching) /\ UNCHANGED linkVars)
    /\ WF_vars(SupervisorStep /\ UNCHANGED configVars)
    /\ WF_vars(AnswerStep /\ UNCHANGED configVars)
    /\ WF_vars(Ping /\ UNCHANGED configVars)

----------------------------------------------------------------------------

TypeOK ==
    /\ file \in Versions /\ observed \in Versions /\ settled \in Versions
    /\ held \in [Versions -> Configs \cup {NoConfig}]
    /\ at \in {"down"} \cup Starting \cup Up
    /\ {current, loaded} \subseteq Configs \cup {NoConfig}
    /\ todo \in Seq(Hooks) /\ edited \subseteq Hooks
    /\ settings \in [Hooks -> Settings]
    /\ {rendered, gaveUp, quiet} \subseteq BOOLEAN
    /\ budget \in [{"writes", "edits", "failures", "starts", "sends"} -> Nat]
    /\ round \in Seq(Providers)
    /\ link.to \in Providers \cup {NoApp}
    /\ link.at \in {"reading", "idle", "next", "backoff", "connecting", "receiving"} \cup Answering
    /\ (acked \cup decided \cup cutOff) \subseteq Events
    /\ handed \in [Events -> Nat]

\* The router answers an event as one of its users wrote it: all parts of one
\* event, cut the same way and in order, whatever came between them on this
\* connection, was sent twice, or was left over by an earlier one.
EventIsWhole ==
    hand # <<>> => \E cut \in 1 .. MaxParts : hand = Whole(InHand, cut)

\* An event the platform will not send again was decided and handed on, as a whole,
\* unless its answer was cut off on the way, and a reply is handed on once at most.
AckedIsHandled ==
    /\ EventIsWhole
    /\ \A e \in acked : /\ e \in decided \ Malformed
                        /\ \/ handed[e] > 0
                           \/ e \in cutOff
                           \/ link.at = "handing" /\ InHand = e
    /\ \A e \in Replies : handed[e] <= 1

\* While a config is in use, each hook it asks for is in its agent's settings,
\* unless their user has edited them since the service last looked.
HooksInPlace ==
    current # NoConfig =>
        \A h \in ToSet(current.hooks) \ edited : settings[h] = "ours"

\* A valid config that stays in the file gets into use, unless its hooks could not
\* be put in place when it was looked at: that is not tried again.
ValidConfigIsUsed ==
    \A v \in Versions \ {0} :
        <>[](at \in Up /\ file = v /\ Usable(held[v]) /\ ~gaveUp)
            => <>[](current = held[v])

\* An app that stays in the config is connected to, or tried, again and again, if
\* connections keep ending.
AppsTakeTurns ==
    \A p \in Providers :
        /\ <>[](current # NoConfig /\ p \in ToSet(current.serves))
        /\ []<>(link.at \in {"reading", "next", "backoff"})
        => []<>(link.to = p)

\* A connection whose other end has gone is left, if the platform asks for pings.
QuietLinkIsLeft == [](quiet /\ Pings => <>~quiet)

=============================================================================
