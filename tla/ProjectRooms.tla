----------------------------- MODULE ProjectRooms -----------------------------
(***************************************************************************)
(* Where a project's updates go, for a provider without a fixed target.    *)
(* Rooms are bound to projects in a durable ledger; an update of a project *)
(* without a room makes the router ask the owner, in a direct chat, with a *)
(* menu: create a room, use an existing one, or ignore the project.  The   *)
(* ledger's proposal record says how far that conversation is.             *)
(*                                                                         *)
(* The router, the tasks that show a menu for "/bind", the tasks behind    *)
(* the menu's buttons and the room commands all update the ledger, one     *)
(* locked update at a time, and call the platform between their updates.   *)
(***************************************************************************)
EXTENDS Naturals

CONSTANTS
    Projects,
    Rooms,          \* rooms of the provider the bot has been added to
    Covers,         \* Covers[p]: the projects whose folder is p or contains p
    Flows,          \* bound: concurrent flows that ask about a project
    Creators,       \* bound: concurrent clicks on "create a room"
    MaxAsked,       \* bound on menus the router shows for one project
    MaxCrashes,     \* bound on restarts of the service
    Faults,         \* "send_fails": showing a menu or creating a room fails;
                    \* "provider_gone": a reload drops the provider;
                    \* "save_fails": the ledger's file cannot be read or written
    NewRoom,        \* the room the menu creates for a project
    NoProject

ASSUME ProjectRoomsAssumption ==
    /\ Covers \in [Projects -> SUBSET Projects]
    /\ \A p \in Projects : p \in Covers[p]
    /\ {MaxAsked, MaxCrashes} \subseteq Nat
    /\ Faults \subseteq {"send_fails", "provider_gone", "save_fails"}
    /\ NewRoom \notin Rooms
    /\ NoProject \notin Projects

VARIABLES
    proposal,       \* proposal[p]: the status of the project's proposal
    binding,        \* binding[p][r]: the status of the binding of r to p
    flow,           \* flow[n]: a flow that asks about a project
    creator,        \* creator[n]: a click on "create a room" at work
    menus,          \* projects with a menu in the owner's chat
    asked,          \* history: asked[p], the menus the router showed unasked
    declined,       \* history: projects the owner ignored, and was told so,
                    \* and did not ask for since
    failed,         \* history: projects with a menu whose send was reported failed
    lost,           \* history: projects whose menu a crash or a reload dropped, or
                    \* whose menu did not appear and the ledger could not be told
    crashes

ledgerVars == <<proposal, binding>>
historyVars == <<asked, declined, failed, lost>>
vars == <<ledgerVars, flow, creator, menus, historyVars, crashes>>

ProposalStatuses == {"none", "pending", "prompt_failed", "ignored", "room_created",
                     "bound_to_existing"}
AllRooms == Rooms \cup {NewRoom}
Free == [at |-> "free", project |-> NoProject, by |-> "router"]
NoCreator == [at |-> "free", project |-> NoProject]

Connected(p) == {r \in AllRooms : \E q \in Covers[p] : binding[q][r] = "connected"}

----------------------------------------------------------------------------

Init == /\ proposal = [p \in Projects |-> "none"]
        /\ binding = [p \in Projects |-> [r \in AllRooms |-> "none"]]
        /\ flow = [n \in Flows |-> Free]
        /\ creator = [n \in Creators |-> NoCreator]
        /\ menus = {}
        /\ asked = [p \in Projects |-> 0]
        /\ declined = {}
        /\ failed = {}
        /\ lost = {}
        /\ crashes = 0

----------------------------------------------------------------------------
(* The ledger's operations.  An update that is not saved changes nothing: what *)
(* it was made for ends there, and where nothing had begun, nothing happens.    *)

SetProposal(p, status) == proposal' = [proposal EXCEPT ![p] = status]

\* Binding a room answers an open question about the project, if there is one.
Bind(p, r) ==
    /\ binding' = [binding EXCEPT ![p][r] = "connected"]
    /\ proposal' = [proposal EXCEPT ![p] =
                        IF @ \in {"none", "room_created"} THEN @ ELSE "bound_to_existing"]

----------------------------------------------------------------------------
(* An update of project p reaches the router. *)

\* First ledger update: no room of p, nor of a folder that contains it.
SignalLooksUp(n, p) ==
    /\ flow[n] = Free
    /\ Connected(p) = {}
    /\ asked[p] < MaxAsked
    /\ flow' = [flow EXCEPT ![n] = [at |-> "unbound", project |-> p, by |-> "router"]]
    /\ UNCHANGED <<ledgerVars, creator, menus, historyVars, crashes>>

\* Mutant of Asks: a pending proposal is asked about again.
AsksWhenPending(status) == status \in {"none", "prompt_failed", "pending"}

\* Mutant of Asks: only a settled proposal is left alone.
AsksWhenIgnored(status) == status \in {"none", "prompt_failed", "ignored"}

\* The router asks about a project it has no proposal for, or whose last menu
\* could not be shown.
Asks(status) == status \in {"none", "prompt_failed"}

\* Second ledger update: the router asks, or skips.
SignalAsks(n) ==
    /\ flow[n].at = "unbound"
    /\ LET p == flow[n].project IN
       IF Asks(proposal[p])
       THEN SetProposal(p, "pending") /\ flow' = [flow EXCEPT ![n].at = "sending"]
       ELSE flow' = [flow EXCEPT ![n] = Free] /\ UNCHANGED proposal
    /\ UNCHANGED <<binding, creator, menus, historyVars, crashes>>

\* "/bind <path>" in the direct chat opens the menu, whatever came before.
ManualBind(n, p) ==
    /\ flow[n] = Free
    /\ SetProposal(p, "pending")
    /\ declined' = declined \ {p}
    /\ flow' = [flow EXCEPT ![n] = [at |-> "sending", project |-> p, by |-> "owner"]]
    /\ UNCHANGED <<binding, creator, menus, asked, failed, lost, crashes>>

MenuAppears(n) ==
    /\ flow[n].at = "sending"
    /\ menus' = menus \cup {flow[n].project}
    /\ asked' = IF flow[n].by = "router" THEN [asked EXCEPT ![flow[n].project] = @ + 1] ELSE asked
    /\ flow' = [flow EXCEPT ![n].at = "shown"]
    /\ UNCHANGED <<ledgerVars, creator, declined, failed, lost, crashes>>

\* The send returns, and what has been recorded meanwhile is overwritten.
PromptSent(n) ==
    /\ flow[n].at = "shown"
    /\ SetProposal(flow[n].project, "pending")
    /\ flow' = [flow EXCEPT ![n] = Free]
    /\ UNCHANGED <<binding, creator, menus, historyVars, crashes>>

\* Mutant of PromptFails: the failure is not written to the ledger.
PromptFailsUnmarked(n) ==
    /\ "send_fails" \in Faults
    /\ flow[n].at \in {"sending", "shown"}
    /\ failed' = failed \cup {flow[n].project}
    /\ flow' = [flow EXCEPT ![n] = Free]
    /\ UNCHANGED <<ledgerVars, creator, menus, asked, declined, lost, crashes>>

\* A failed send may have shown the menu nevertheless.  The update that notes the
\* failure can fail, too: the router goes on without it, and "/bind" ends with it.
PromptFails(n) ==
    /\ "send_fails" \in Faults
    /\ flow[n].at \in {"sending", "shown"}
    /\ failed' = failed \cup {flow[n].project}
    /\ \/ SetProposal(flow[n].project, "prompt_failed") /\ UNCHANGED lost
       \/ /\ "save_fails" \in Faults
          /\ lost' = IF flow[n].at = "sending" THEN lost \cup {flow[n].project} ELSE lost
          /\ UNCHANGED proposal
    /\ flow' = [flow EXCEPT ![n] = Free]
    /\ UNCHANGED <<binding, creator, menus, asked, declined, crashes>>

\* The update by which the router asks, or which notes the menu's place, is not saved.
FlowNotSaved(n) ==
    /\ "save_fails" \in Faults
    /\ flow[n].at \in {"unbound", "shown"}
    /\ flow' = [flow EXCEPT ![n] = Free]
    /\ UNCHANGED <<ledgerVars, creator, menus, historyVars, crashes>>

\* The task behind "/bind" finds its provider gone before it sends.
PromptDropped(n) ==
    /\ "provider_gone" \in Faults
    /\ flow[n].at = "sending" /\ flow[n].by = "owner"
    /\ lost' = lost \cup {flow[n].project}
    /\ flow' = [flow EXCEPT ![n] = Free]
    /\ UNCHANGED <<ledgerVars, creator, menus, asked, declined, failed, crashes>>

----------------------------------------------------------------------------
(* The menu's buttons, and the commands in a room. *)

IgnoreProject(p) ==
    /\ p \in menus
    /\ SetProposal(p, "ignored")
    /\ declined' = declined \cup {p}
    /\ UNCHANGED <<binding, flow, creator, menus, asked, failed, lost, crashes>>

CreateLooksUp(n, p) ==
    /\ p \in menus
    /\ creator[n] = NoCreator
    /\ proposal[p] # "room_created"
    /\ creator' = [creator EXCEPT ![n] = [at |-> "creating", project |-> p]]
    /\ UNCHANGED <<ledgerVars, flow, menus, historyVars, crashes>>

\* A second request for the same proposal is given the first one's room.
RoomIsCreated(n) ==
    /\ creator[n].at = "creating"
    /\ creator' = [creator EXCEPT ![n].at = "created"]
    /\ UNCHANGED <<ledgerVars, flow, menus, historyVars, crashes>>

\* No room, or a room that the ledger does not get to know.
CreateFails(n) ==
    /\ \/ creator[n].at = "creating" /\ "send_fails" \in Faults
       \/ creator[n].at = "created" /\ "save_fails" \in Faults
    /\ creator' = [creator EXCEPT ![n] = NoCreator]
    /\ UNCHANGED <<ledgerVars, flow, menus, historyVars, crashes>>

\* Mutant of CreateRecords: the room is noted in the proposal only.
CreateRecordsUnbound(n) ==
    /\ creator[n].at = "created"
    /\ SetProposal(creator[n].project, "room_created")
    /\ creator' = [creator EXCEPT ![n] = NoCreator]
    /\ UNCHANGED <<binding, flow, menus, historyVars, crashes>>

CreateRecords(n) ==
    /\ creator[n].at = "created"
    /\ binding' = [binding EXCEPT ![creator[n].project][NewRoom] = "connected"]
    /\ SetProposal(creator[n].project, "room_created")
    /\ creator' = [creator EXCEPT ![n] = NoCreator]
    /\ UNCHANGED <<flow, menus, historyVars, crashes>>

RoomBind(p, r) ==
    /\ Bind(p, r)
    /\ UNCHANGED <<flow, creator, menus, historyVars, crashes>>

\* "/unbind", with or without a path.
RoomUnbind(r, ps) ==
    /\ binding' = [p \in Projects |-> [binding[p] EXCEPT ![r] =
                       IF p \in ps /\ @ = "connected" THEN "disconnected" ELSE @]]
    /\ UNCHANGED <<proposal, flow, creator, menus, historyVars, crashes>>

CrashRestart ==
    /\ crashes < MaxCrashes
    /\ crashes' = crashes + 1
    /\ flow' = [n \in Flows |-> Free]
    /\ creator' = [n \in Creators |-> NoCreator]
    /\ lost' = lost \cup {flow[n].project : n \in {n \in Flows : flow[n].at = "sending"}}
    /\ UNCHANGED <<ledgerVars, menus, asked, declined, failed>>

----------------------------------------------------------------------------

Next == \/ \E n \in Flows : \/ \E p \in Projects : SignalLooksUp(n, p) \/ ManualBind(n, p)
                            \/ SignalAsks(n) \/ MenuAppears(n)
                            \/ PromptSent(n) \/ PromptFails(n)
                            \/ PromptDropped(n) \/ FlowNotSaved(n)
        \/ \E n \in Creators : \/ \E p \in Projects : CreateLooksUp(n, p)
                               \/ RoomIsCreated(n) \/ CreateFails(n) \/ CreateRecords(n)
        \/ \E p \in Projects : IgnoreProject(p) \/ \E r \in AllRooms : RoomBind(p, r)
        \/ \E r \in AllRooms, ps \in {{p} : p \in Projects} \cup {Projects} : RoomUnbind(r, ps)
        \/ CrashRestart

Spec == Init /\ [][Next]_vars

----------------------------------------------------------------------------
(* Properties. *)

\* Every variable keeps its type.
TypeOK == /\ proposal \in [Projects -> ProposalStatuses]
          /\ binding \in [Projects -> [AllRooms -> {"none", "connected", "disconnected"}]]
          /\ flow \in [Flows -> [at : {"free", "unbound", "sending", "shown"},
                                 project : Projects \cup {NoProject}, by : {"router", "owner"}]]
          /\ creator \in [Creators -> [at : {"free", "creating", "created"},
                                       project : Projects \cup {NoProject}]]
          /\ menus \subseteq Projects
          /\ asked \in [Projects -> Nat]
          /\ {declined, failed, lost} \subseteq SUBSET Projects
          /\ crashes \in Nat

StartsToAsk(p) ==
    \E n \in Flows : /\ flow[n].at = "unbound" /\ flow[n].project = p
                     /\ flow'[n].at = "sending" /\ flow'[n].project = p

\* A project the owner ignored is not asked about again, unless the owner asks:
\* the menu's own late result does not undo the answer.
DeclinedIsNotAsked == [][\A p \in declined : ~StartsToAsk(p)]_vars

\* That much is so: only a menu whose send was reported failed undoes a refusal.
RefusalHolds == [][\A p \in declined \ failed : ~StartsToAsk(p)]_vars

\* A burst of updates, several at once, shows the owner one menu for a project;
\* the router shows another only after a send was reported failed.
AskedAgainAfterFailure == \A p \in Projects : asked[p] > 1 => p \in failed

\* A proposal waits for the owner only if the owner has been asked, is being
\* asked, or the question is lost: a crash or a reload dropped it, or it failed and
\* the ledger could not be told.  The router asks about no pending proposal, so that
\* a lost question is asked again only when the owner says "/bind".
PendingWasAsked ==
    \A p \in Projects : proposal[p] = "pending" =>
        \/ p \in menus \cup lost
        \/ \E n \in Flows : flow[n].project = p /\ flow[n].at \in {"sending", "shown"}

\* The owner is asked, and asked once: the claim that keeps a burst of updates from
\* asking twice is left behind without its question only in the three ways of "lost".
QuestionIsAsked == AskedAgainAfterFailure /\ PendingWasAsked

\* A proposal counts as answered by a room only if a room was really bound,
\* so that the updates the router no longer asks about had a place to go.
AnsweredByRoom ==
    \A p \in Projects : proposal[p] \in {"room_created", "bound_to_existing"} =>
        \E r \in AllRooms : binding[p][r] # "none"
=============================================================================
