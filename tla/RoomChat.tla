------------------------------- MODULE RoomChat -------------------------------
(***************************************************************************)
(* ProjectRooms with the messages that drive it: what the owner writes in  *)
(* the direct chat and in the rooms, and the buttons that are pressed, as  *)
(* InboundMessages understands them.  One event is handled at a time, in   *)
(* one update of the ledger.  A direct chat in which a command was used is *)
(* remembered: without one, and without an operator in the config, a       *)
(* question of the router has no address.                                  *)
(***************************************************************************)
EXTENDS ProjectRooms, InboundMessages

CONSTANTS
    HasOperator,    \* the config names the operator of the app
    Spoken          \* bound: the messages that are said while the rooms are at work

ASSUME RoomChatAssumption ==
    /\ Projects \subseteq Folders
    /\ Spoken \subseteq TextMessages
    /\ HasOperator \in BOOLEAN
    /\ HasOperator \/ "send_fails" \in Faults

VARIABLES
    ownerChat,      \* a direct chat is remembered
    addressed       \* flows that are about to ask, and whose question has an address

chatVars == <<vars, ownerChat, addressed>>

\* What becomes of them, whatever the room's folders and those that are there.
Heard == {[message |-> m, connected |-> connected, outcome |-> OnEvent(m, connected, there)] :
              m \in Spoken, connected \in SUBSET Projects, there \in SUBSET Projects}

ConnectedTo(r) == {p \in Projects : binding[p][r] = "connected"}

\* The ledger of an earlier version may name a direct chat, but nothing is remembered
\* of a question.
ChatInit == Init /\ ownerChat \in BOOLEAN /\ addressed = {}

----------------------------------------------------------------------------
(* A message in the direct chat or in room r. *)

SaidInRoom(r, h) ==
    /\ ~IsDirect(h.message) /\ h.connected = ConnectedTo(r)
    /\ \/ \E p \in Projects : h.outcome.is = "bound" /\ h.outcome.folders = {p} /\ RoomBind(p, r)
       \/ \E ps \in {{p} : p \in Projects} \cup {Projects} :
              /\ h.outcome.is = "unbound" /\ h.outcome.folders = ps \cap ConnectedTo(r)
              /\ RoomUnbind(r, ps)
    /\ UNCHANGED <<ownerChat, addressed>>

OpensMenu(n, h) ==
    /\ IsDirect(h.message) /\ h.outcome.is = "menu"
    /\ \E p \in Projects : h.outcome.folders = {p} /\ ManualBind(n, p)
    /\ ownerChat' = TRUE
    /\ addressed' = addressed \cup {n}

\* Whatever else is said in the direct chat changes no room and no question.
IsRemembered(h) ==
    /\ h.outcome.is # "menu" /\ RemembersChat(h.message)
    /\ ownerChat' = TRUE
    /\ UNCHANGED <<vars, addressed>>

Presses(p, button) ==
    LET o == OnEvent(Message(button, "direct", "none", <<>>), {}, {}) IN
    /\ \/ o.is = "ignore_project" /\ IgnoreProject(p)
       \/ o.is = "create_project_room" /\ \E n \in Creators : CreateLooksUp(n, p)
    /\ UNCHANGED <<ownerChat, addressed>>

----------------------------------------------------------------------------
(* The router reads the remembered chat with its claim of the question. *)

ChatSignalAsks(n) ==
    /\ SignalAsks(n)
    /\ addressed' = IF ownerChat \/ HasOperator THEN addressed \cup {n} ELSE addressed \ {n}
    /\ UNCHANGED ownerChat

ChatMenuAppears(n) ==
    n \in addressed /\ MenuAppears(n) /\ addressed' = addressed \ {n} /\ UNCHANGED ownerChat

\* What the chat does not change.
RoomsGoOn ==
    /\ \/ \E n \in Flows : \/ \E p \in Projects : SignalLooksUp(n, p)
                           \/ PromptSent(n) \/ PromptFails(n)
                           \/ PromptDropped(n) \/ FlowNotSaved(n)
       \/ \E n \in Creators : RoomIsCreated(n) \/ CreateFails(n) \/ CreateRecords(n)
       \/ CrashRestart
    /\ addressed' = {n \in addressed : flow'[n].at = "sending"}
    /\ UNCHANGED ownerChat

ChatNext ==
    \/ \E h \in Heard : \/ \E r \in AllRooms : SaidInRoom(r, h)
                       \/ \E n \in Flows : OpensMenu(n, h)
                       \/ IsRemembered(h)
    \/ \E p \in Projects, button \in Buttons : Presses(p, button)
    \/ \E n \in Flows : ChatSignalAsks(n) \/ ChatMenuAppears(n)
    \/ RoomsGoOn

ChatSpec == ChatInit /\ [][ChatNext]_chatVars

----------------------------------------------------------------------------
(* Properties. *)

\* Whatever is written now, in the direct chat, in a room or in one of its threads,
\* is understood as its author means it: it is taken if it is addressed to the bot,
\* an agent gets it whole, a thread only continues its session, work starts in the
\* folder that is meant (but for a path alone), and the rooms change as named.  A room
\* may be connected to folders besides Projects.
MessagesAreUnderstood ==
    \A r \in AllRooms, others \in SUBSET (Folders \ Projects) :
        [connected |-> ConnectedTo(r) \cup others, understood |-> TRUE] \in Verdicts
=============================================================================
