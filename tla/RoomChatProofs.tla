---------------------------- MODULE RoomChatProofs ----------------------------
(***************************************************************************)
(* The ledger of project rooms, for any projects, rooms, nesting of        *)
(* folders, and any number of concurrent flows and clicks; that the        *)
(* messages and buttons only do what the rooms let their environment do;   *)
(* and what is understood of a message, for texts of any length about any  *)
(* folders.                                                                *)
(***************************************************************************)
EXTENDS RoomChat, SequenceTheorems, WellFoundedInduction, TLAPS

----------------------------------------------------------------------------
\* The rooms.

\* The types of the ledger and of what is under way.
LedgerTypes ==
    /\ proposal \in [Projects -> ProposalStatuses]
    /\ binding \in [Projects -> [AllRooms -> {"none", "connected", "disconnected"}]]
FlowTypes ==
    /\ flow \in [Flows -> [at : {"free", "unbound", "sending", "shown"},
                           project : Projects \cup {NoProject}, by : {"router", "owner"}]]
    /\ creator \in [Creators -> [at : {"free", "creating", "created"},
                                 project : Projects \cup {NoProject}]]
HistoryTypes ==
    /\ {menus, declined, failed, lost} \subseteq SUBSET Projects
    /\ asked \in [Projects -> Nat]
    /\ crashes \in Nat

\* Whatever is under way is about a project.
ActiveHasProject ==
    /\ \A n \in Flows : flow[n].at # "free" => flow[n].project \in Projects
    /\ \A n \in Creators : creator[n].at # "free" => creator[n].project \in Projects

\* A menu that has been shown is in the owner's chat.
ShownIsInChat == \A n \in Flows : flow[n].at = "shown" => flow[n].project \in menus

\* The ledger says that a prompt failed only if one did.
FailureIsNoted == \A p \in Projects : proposal[p] = "prompt_failed" => p \in failed

\* The router is about to show a menu for p.
Asking(n, p) == flow[n].at = "sending" /\ flow[n].by = "router" /\ flow[n].project = p

\* Nobody has asked about a project without a proposal, and no owner has refused.
UntouchedIsQuiet ==
    \A p \in Projects : proposal[p] = "none" =>
        /\ p \notin declined
        /\ asked[p] = 0
        /\ \A n \in Flows : ~Asking(n, p)

\* Until a send fails, the router's question about a project is its only one.
FirstQuestion ==
    \A p \in Projects \ failed :
        /\ asked[p] \in {0, 1}
        /\ \A n \in Flows : Asking(n, p) => asked[p] = 0
        /\ \A m, n \in Flows : Asking(m, p) /\ Asking(n, p) => m = n

IInv == /\ LedgerTypes
        /\ FlowTypes
        /\ HistoryTypes
        /\ ActiveHasProject
        /\ ShownIsInChat
        /\ FailureIsNoted
        /\ UntouchedIsQuiet
        /\ FirstQuestion
        /\ PendingWasAsked
        /\ AnsweredByRoom

\* Each step keeps the types of the flows and of the clicks.
LEMMA KeepsFlowTypes == IInv /\ [Next]_vars => FlowTypes'
<1> SUFFICES ASSUME IInv, [Next]_vars PROVE FlowTypes'
  OBVIOUS
<1> USE DEF IInv, FlowTypes, ledgerVars, historyVars, Free, NoCreator
<1>1. CASE \/ \E p \in Projects : IgnoreProject(p)
           \/ \E p \in Projects, r \in AllRooms : RoomBind(p, r)
           \/ \E r \in AllRooms, ps \in {{p} : p \in Projects} \cup {Projects} : RoomUnbind(r, ps)
           \/ UNCHANGED vars
  <2>1. UNCHANGED <<flow, creator>>
    BY <1>1 DEF IgnoreProject, RoomBind, RoomUnbind, vars
  <2> QED
    BY <2>1
<1>2. ASSUME NEW n \in Flows, NEW p \in Projects, SignalLooksUp(n, p)
      PROVE  FlowTypes'
  BY <1>2 DEF SignalLooksUp, SetProposal
<1>3. ASSUME NEW n \in Flows, NEW p \in Projects, ManualBind(n, p)
      PROVE  FlowTypes'
  BY <1>3 DEF ManualBind, SetProposal
<1>4. ASSUME NEW n \in Flows, SignalAsks(n)
      PROVE  FlowTypes'
  BY <1>4 DEF SignalAsks, SetProposal
<1>5. ASSUME NEW n \in Flows, MenuAppears(n)
      PROVE  FlowTypes'
  BY <1>5 DEF MenuAppears
<1>6. ASSUME NEW n \in Flows, PromptSent(n)
      PROVE  FlowTypes'
  BY <1>6 DEF PromptSent, SetProposal
<1>7. ASSUME NEW n \in Flows, PromptFails(n)
      PROVE  FlowTypes'
  BY <1>7 DEF PromptFails, SetProposal
<1>8. ASSUME NEW n \in Flows, PromptDropped(n) \/ FlowNotSaved(n)
      PROVE  FlowTypes'
  BY <1>8 DEF PromptDropped, FlowNotSaved
<1>9. ASSUME NEW n \in Creators, NEW p \in Projects, CreateLooksUp(n, p)
      PROVE  FlowTypes'
  BY <1>9 DEF CreateLooksUp, SetProposal
<1>10. ASSUME NEW n \in Creators, RoomIsCreated(n)
      PROVE  FlowTypes'
  BY <1>10 DEF RoomIsCreated, SetProposal
<1>11. ASSUME NEW n \in Creators, CreateFails(n)
      PROVE  FlowTypes'
  BY <1>11 DEF CreateFails, SetProposal
<1>12. ASSUME NEW n \in Creators, CreateRecords(n)
      PROVE  FlowTypes'
  BY <1>12 DEF CreateRecords, SetProposal
<1>13. CASE CrashRestart
  BY <1>13 DEF CrashRestart
<1> QED
  BY <1>1, <1>2, <1>3, <1>4, <1>5, <1>6, <1>7, <1>8, <1>9, <1>10, <1>11, <1>12, <1>13 DEF Next

\* A flow takes its project along until it ends.
LEMMA KeepsActive == IInv /\ [Next]_vars => ActiveHasProject'
<1> SUFFICES ASSUME IInv, [Next]_vars PROVE ActiveHasProject'
  OBVIOUS
<1> USE DEF IInv, FlowTypes, ActiveHasProject, ledgerVars, historyVars, Free, NoCreator
<1>1. CASE \/ \E p \in Projects : IgnoreProject(p)
           \/ \E p \in Projects, r \in AllRooms : RoomBind(p, r)
           \/ \E r \in AllRooms, ps \in {{p} : p \in Projects} \cup {Projects} : RoomUnbind(r, ps)
           \/ UNCHANGED vars
  <2>1. UNCHANGED <<flow, creator>>
    BY <1>1 DEF IgnoreProject, RoomBind, RoomUnbind, vars
  <2> QED
    BY <2>1
<1>2. ASSUME NEW n \in Flows, NEW p \in Projects, SignalLooksUp(n, p)
      PROVE  ActiveHasProject'
  BY <1>2 DEF SignalLooksUp, SetProposal
<1>3. ASSUME NEW n \in Flows, NEW p \in Projects, ManualBind(n, p)
      PROVE  ActiveHasProject'
  BY <1>3 DEF ManualBind, SetProposal
<1>4. ASSUME NEW n \in Flows, SignalAsks(n)
      PROVE  ActiveHasProject'
  BY <1>4 DEF SignalAsks, SetProposal
<1>5. ASSUME NEW n \in Flows, MenuAppears(n)
      PROVE  ActiveHasProject'
  BY <1>5 DEF MenuAppears
<1>6. ASSUME NEW n \in Flows, PromptSent(n)
      PROVE  ActiveHasProject'
  BY <1>6 DEF PromptSent, SetProposal
<1>7. ASSUME NEW n \in Flows, PromptFails(n)
      PROVE  ActiveHasProject'
  BY <1>7 DEF PromptFails, SetProposal
<1>8. ASSUME NEW n \in Flows, PromptDropped(n) \/ FlowNotSaved(n)
      PROVE  ActiveHasProject'
  BY <1>8 DEF PromptDropped, FlowNotSaved
<1>9. ASSUME NEW n \in Creators, NEW p \in Projects, CreateLooksUp(n, p)
      PROVE  ActiveHasProject'
  BY <1>9 DEF CreateLooksUp, SetProposal
<1>10. ASSUME NEW n \in Creators, RoomIsCreated(n)
      PROVE  ActiveHasProject'
  BY <1>10 DEF RoomIsCreated, SetProposal
<1>11. ASSUME NEW n \in Creators, CreateFails(n)
      PROVE  ActiveHasProject'
  BY <1>11 DEF CreateFails, SetProposal
<1>12. ASSUME NEW n \in Creators, CreateRecords(n)
      PROVE  ActiveHasProject'
  BY <1>12 DEF CreateRecords, SetProposal
<1>13. CASE CrashRestart
  BY <1>13 DEF CrashRestart
<1> QED
  BY <1>1, <1>2, <1>3, <1>4, <1>5, <1>6, <1>7, <1>8, <1>9, <1>10, <1>11, <1>12, <1>13 DEF Next

\* Each step keeps the ledger's types.
LEMMA KeepsLedgerTypes == IInv /\ [Next]_vars => LedgerTypes'
<1> SUFFICES ASSUME IInv, [Next]_vars PROVE LedgerTypes'
  OBVIOUS
<1> USE DEF IInv, LedgerTypes, ProposalStatuses, ActiveHasProject, AllRooms, ledgerVars,
            historyVars, Free, NoCreator
<1>1. CASE \/ \E n \in Flows, p \in Projects : SignalLooksUp(n, p)
           \/ \E n \in Flows : MenuAppears(n)
           \/ \E n \in Flows : PromptDropped(n) \/ FlowNotSaved(n)
           \/ \E n \in Creators, p \in Projects : CreateLooksUp(n, p)
           \/ \E n \in Creators : RoomIsCreated(n)
           \/ \E n \in Creators : CreateFails(n)
           \/ CrashRestart
           \/ UNCHANGED vars
  <2>1. UNCHANGED <<proposal, binding>>
    BY <1>1 DEF SignalLooksUp, MenuAppears, PromptDropped, FlowNotSaved, CreateLooksUp,
               RoomIsCreated, CreateFails, CrashRestart, vars
  <2> QED
    BY <2>1
<1>2. ASSUME NEW n \in Flows, NEW p \in Projects, ManualBind(n, p)
      PROVE  LedgerTypes'
  BY <1>2 DEF ManualBind, SetProposal
<1>3. ASSUME NEW n \in Flows, SignalAsks(n)
      PROVE  LedgerTypes'
  BY <1>3 DEF SignalAsks, SetProposal
<1>4. ASSUME NEW n \in Flows, PromptSent(n)
      PROVE  LedgerTypes'
  BY <1>4 DEF PromptSent, SetProposal
<1>5. ASSUME NEW n \in Flows, PromptFails(n)
      PROVE  LedgerTypes'
  BY <1>5 DEF PromptFails, SetProposal
<1>6. ASSUME NEW n \in Creators, CreateRecords(n)
      PROVE  LedgerTypes'
  BY <1>6 DEF CreateRecords, SetProposal
<1>7. ASSUME NEW p \in Projects, IgnoreProject(p)
      PROVE  LedgerTypes'
  BY <1>7 DEF IgnoreProject, SetProposal
<1>8. ASSUME NEW p \in Projects, NEW r \in AllRooms, RoomBind(p, r)
      PROVE  LedgerTypes'
  BY <1>8 DEF RoomBind, SetProposal, Bind
<1>9. ASSUME NEW r \in AllRooms, NEW ps \in {{p} : p \in Projects} \cup {Projects},
             RoomUnbind(r, ps)
      PROVE  LedgerTypes'
  BY <1>9 DEF RoomUnbind, SetProposal
<1> QED
  BY <1>1, <1>2, <1>3, <1>4, <1>5, <1>6, <1>7, <1>8, <1>9 DEF Next

\* Each step keeps the types of the history.
LEMMA KeepsHistoryTypes == IInv /\ [Next]_vars => HistoryTypes'
<1> SUFFICES ASSUME IInv, [Next]_vars PROVE HistoryTypes'
  OBVIOUS
<1> USE DEF IInv, HistoryTypes, ActiveHasProject, FlowTypes, ledgerVars, historyVars, Free,
            NoCreator
<1>1. CASE \/ \E n \in Flows, p \in Projects : SignalLooksUp(n, p)
           \/ \E n \in Flows : SignalAsks(n)
           \/ \E n \in Flows : PromptSent(n) \/ FlowNotSaved(n)
           \/ \E n \in Creators, p \in Projects : CreateLooksUp(n, p)
           \/ \E n \in Creators : RoomIsCreated(n)
           \/ \E n \in Creators : CreateFails(n)
           \/ \E n \in Creators : CreateRecords(n)
           \/ \E p \in Projects, r \in AllRooms : RoomBind(p, r)
           \/ \E r \in AllRooms, ps \in {{p} : p \in Projects} \cup {Projects} : RoomUnbind(r, ps)
           \/ UNCHANGED vars
  <2>1. UNCHANGED <<menus, historyVars, crashes>>
    BY <1>1 DEF SignalLooksUp, SignalAsks, PromptSent, FlowNotSaved, CreateLooksUp,
               RoomIsCreated, CreateFails, CreateRecords, RoomBind, RoomUnbind, vars
  <2> QED
    BY <2>1
<1>2. ASSUME NEW n \in Flows, NEW p \in Projects, ManualBind(n, p)
      PROVE  HistoryTypes'
  BY <1>2 DEF ManualBind, SetProposal
<1>3. ASSUME NEW n \in Flows, MenuAppears(n)
      PROVE  HistoryTypes'
  BY <1>3 DEF MenuAppears
<1>4. ASSUME NEW n \in Flows, PromptFails(n)
      PROVE  HistoryTypes'
  BY <1>4 DEF PromptFails, SetProposal
<1>5. ASSUME NEW n \in Flows, PromptDropped(n)
      PROVE  HistoryTypes'
  BY <1>5 DEF PromptDropped
<1>6. ASSUME NEW p \in Projects, IgnoreProject(p)
      PROVE  HistoryTypes'
  BY <1>6 DEF IgnoreProject, SetProposal
<1>7. CASE CrashRestart
  BY <1>7 DEF CrashRestart
<1> QED
  BY <1>1, <1>2, <1>3, <1>4, <1>5, <1>6, <1>7 DEF Next

\* Menus stay in the chat.
LEMMA KeepsShown == IInv /\ [Next]_vars => ShownIsInChat'
<1> SUFFICES ASSUME IInv, [Next]_vars PROVE ShownIsInChat'
  OBVIOUS
<1> USE DEF IInv, ShownIsInChat, FlowTypes, ledgerVars, historyVars, Free, NoCreator
<1>1. CASE \/ \E n \in Creators, p \in Projects : CreateLooksUp(n, p)
           \/ \E n \in Creators : RoomIsCreated(n)
           \/ \E n \in Creators : CreateFails(n)
           \/ \E n \in Creators : CreateRecords(n)
           \/ \E p \in Projects : IgnoreProject(p)
           \/ \E p \in Projects, r \in AllRooms : RoomBind(p, r)
           \/ \E r \in AllRooms, ps \in {{p} : p \in Projects} \cup {Projects} : RoomUnbind(r, ps)
           \/ UNCHANGED vars
  <2>1. UNCHANGED <<flow, menus>>
    BY <1>1 DEF CreateLooksUp, RoomIsCreated, CreateFails, CreateRecords, IgnoreProject,
               RoomBind, RoomUnbind, vars
  <2> QED
    BY <2>1
<1>2. ASSUME NEW n \in Flows, NEW p \in Projects, SignalLooksUp(n, p)
      PROVE  ShownIsInChat'
  BY <1>2 DEF SignalLooksUp, SetProposal
<1>3. ASSUME NEW n \in Flows, NEW p \in Projects, ManualBind(n, p)
      PROVE  ShownIsInChat'
  BY <1>3 DEF ManualBind, SetProposal
<1>4. ASSUME NEW n \in Flows, SignalAsks(n)
      PROVE  ShownIsInChat'
  BY <1>4 DEF SignalAsks, SetProposal
<1>5. ASSUME NEW n \in Flows, MenuAppears(n)
      PROVE  ShownIsInChat'
  BY <1>5 DEF MenuAppears
<1>6. ASSUME NEW n \in Flows, PromptSent(n)
      PROVE  ShownIsInChat'
  BY <1>6 DEF PromptSent, SetProposal
<1>7. ASSUME NEW n \in Flows, PromptFails(n)
      PROVE  ShownIsInChat'
  BY <1>7 DEF PromptFails, SetProposal
<1>8. ASSUME NEW n \in Flows, PromptDropped(n) \/ FlowNotSaved(n)
      PROVE  ShownIsInChat'
  BY <1>8 DEF PromptDropped, FlowNotSaved
<1>9. CASE CrashRestart
  BY <1>9 DEF CrashRestart
<1> QED
  BY <1>1, <1>2, <1>3, <1>4, <1>5, <1>6, <1>7, <1>8, <1>9 DEF Next

\* Only a failed send writes prompt_failed.
LEMMA KeepsFailure == IInv /\ [Next]_vars => FailureIsNoted'
<1> SUFFICES ASSUME IInv, [Next]_vars PROVE FailureIsNoted'
  OBVIOUS
<1> USE DEF IInv, FailureIsNoted, LedgerTypes, ActiveHasProject, ledgerVars, historyVars, Free,
            NoCreator
<1>1. CASE \/ \E n \in Flows, p \in Projects : SignalLooksUp(n, p)
           \/ \E n \in Flows : MenuAppears(n)
           \/ \E n \in Flows : PromptDropped(n) \/ FlowNotSaved(n)
           \/ \E n \in Creators, p \in Projects : CreateLooksUp(n, p)
           \/ \E n \in Creators : RoomIsCreated(n)
           \/ \E n \in Creators : CreateFails(n)
           \/ \E r \in AllRooms, ps \in {{p} : p \in Projects} \cup {Projects} : RoomUnbind(r, ps)
           \/ CrashRestart
           \/ UNCHANGED vars
  <2>1. UNCHANGED <<proposal, failed>>
    BY <1>1 DEF SignalLooksUp, MenuAppears, PromptDropped, FlowNotSaved, CreateLooksUp,
               RoomIsCreated, CreateFails, RoomUnbind, CrashRestart, vars
  <2> QED
    BY <2>1
<1>2. ASSUME NEW n \in Flows, NEW p \in Projects, ManualBind(n, p)
      PROVE  FailureIsNoted'
  BY <1>2 DEF ManualBind, SetProposal
<1>3. ASSUME NEW n \in Flows, SignalAsks(n)
      PROVE  FailureIsNoted'
  BY <1>3 DEF SignalAsks, SetProposal
<1>4. ASSUME NEW n \in Flows, PromptSent(n)
      PROVE  FailureIsNoted'
  BY <1>4 DEF PromptSent, SetProposal
<1>5. ASSUME NEW n \in Flows, PromptFails(n)
      PROVE  FailureIsNoted'
  BY <1>5 DEF PromptFails, SetProposal
<1>6. ASSUME NEW n \in Creators, CreateRecords(n)
      PROVE  FailureIsNoted'
  BY <1>6 DEF CreateRecords, SetProposal
<1>7. ASSUME NEW p \in Projects, IgnoreProject(p)
      PROVE  FailureIsNoted'
  BY <1>7 DEF IgnoreProject, SetProposal
<1>8. ASSUME NEW p \in Projects, NEW r \in AllRooms, RoomBind(p, r)
      PROVE  FailureIsNoted'
  BY <1>8 DEF RoomBind, SetProposal, Bind
<1> QED
  BY <1>1, <1>2, <1>3, <1>4, <1>5, <1>6, <1>7, <1>8 DEF Next

\* A proposal, once there, is never taken away.
LEMMA KeepsQuiet == IInv /\ [Next]_vars => UntouchedIsQuiet'
<1> SUFFICES ASSUME IInv, [Next]_vars PROVE UntouchedIsQuiet'
  OBVIOUS
<1> USE DEF IInv, UntouchedIsQuiet, LedgerTypes, HistoryTypes, ActiveHasProject, FlowTypes,
            Asking, ledgerVars, historyVars, Free, NoCreator
<1>1. CASE \/ \E n \in Creators, p \in Projects : CreateLooksUp(n, p)
           \/ \E n \in Creators : RoomIsCreated(n)
           \/ \E n \in Creators : CreateFails(n)
           \/ \E r \in AllRooms, ps \in {{p} : p \in Projects} \cup {Projects} : RoomUnbind(r, ps)
           \/ UNCHANGED vars
  <2>1. UNCHANGED <<proposal, declined, asked, flow>>
    BY <1>1 DEF CreateLooksUp, RoomIsCreated, CreateFails, RoomUnbind, vars
  <2> QED
    BY <2>1
<1>2. ASSUME NEW n \in Flows, NEW p \in Projects, SignalLooksUp(n, p)
      PROVE  UntouchedIsQuiet'
  BY <1>2 DEF SignalLooksUp, SetProposal
<1>3. ASSUME NEW n \in Flows, NEW p \in Projects, ManualBind(n, p)
      PROVE  UntouchedIsQuiet'
  BY <1>3 DEF ManualBind, SetProposal
<1>4. ASSUME NEW n \in Flows, SignalAsks(n)
      PROVE  UntouchedIsQuiet'
  <2>1. flow[n].project \in Projects
    BY <1>4 DEF SignalAsks
  <2>2. CASE Asks(proposal[flow[n].project])
    <3>1. proposal' = [proposal EXCEPT ![flow[n].project] = "pending"]
      BY <1>4, <2>2 DEF SignalAsks, SetProposal
    <3>2. flow' = [flow EXCEPT ![n].at = "sending"]
      BY <1>4, <2>2 DEF SignalAsks
    <3>3. UNCHANGED <<menus, historyVars>>
      BY <1>4 DEF SignalAsks
    <3>4. \A p \in Projects : proposal'[p] = "none" => p # flow[n].project /\ proposal[p] = "none"
      BY <2>1, <3>1
    <3>5. \A p \in Projects, k \in Flows : Asking(k, p)' => Asking(k, p) \/ p = flow[n].project
      BY <3>2
    <3> QED
      BY <3>3, <3>4, <3>5
  <2>3. CASE ~Asks(proposal[flow[n].project])
    <3>1. /\ flow' = [flow EXCEPT ![n] = Free] /\ flow[n].at = "unbound"
          /\ UNCHANGED <<proposal, menus, historyVars>>
      BY <1>4, <2>3 DEF SignalAsks
    <3> QED
      BY <3>1
  <2> QED
    BY <2>2, <2>3
<1>5. ASSUME NEW n \in Flows, MenuAppears(n)
      PROVE  UntouchedIsQuiet'
  BY <1>5 DEF MenuAppears
<1>6. ASSUME NEW n \in Flows, PromptSent(n)
      PROVE  UntouchedIsQuiet'
  BY <1>6 DEF PromptSent, SetProposal
<1>7. ASSUME NEW n \in Flows, PromptFails(n)
      PROVE  UntouchedIsQuiet'
  BY <1>7 DEF PromptFails, SetProposal
<1>8. ASSUME NEW n \in Flows, PromptDropped(n) \/ FlowNotSaved(n)
      PROVE  UntouchedIsQuiet'
  BY <1>8 DEF PromptDropped, FlowNotSaved
<1>9. ASSUME NEW n \in Creators, CreateRecords(n)
      PROVE  UntouchedIsQuiet'
  BY <1>9 DEF CreateRecords, SetProposal
<1>10. ASSUME NEW p \in Projects, IgnoreProject(p)
      PROVE  UntouchedIsQuiet'
  BY <1>10 DEF IgnoreProject, SetProposal
<1>11. ASSUME NEW p \in Projects, NEW r \in AllRooms, RoomBind(p, r)
      PROVE  UntouchedIsQuiet'
  BY <1>11 DEF RoomBind, SetProposal, Bind
<1>12. CASE CrashRestart
  BY <1>12 DEF CrashRestart
<1> QED
  BY <1>1, <1>2, <1>3, <1>4, <1>5, <1>6, <1>7, <1>8, <1>9, <1>10, <1>11, <1>12 DEF Next

\* The router asks again only after a failure.
LEMMA KeepsFirst == IInv /\ [Next]_vars => FirstQuestion'
<1> SUFFICES ASSUME IInv, [Next]_vars PROVE FirstQuestion'
  OBVIOUS
<1> USE DEF IInv, FirstQuestion, UntouchedIsQuiet, FailureIsNoted, LedgerTypes, HistoryTypes,
            ActiveHasProject, FlowTypes, Asking, Asks, ledgerVars, historyVars, Free, NoCreator
<1>1. CASE \/ \E n \in Creators, p \in Projects : CreateLooksUp(n, p)
           \/ \E n \in Creators : RoomIsCreated(n)
           \/ \E n \in Creators : CreateFails(n)
           \/ \E n \in Creators : CreateRecords(n)
           \/ \E p \in Projects : IgnoreProject(p)
           \/ \E p \in Projects, r \in AllRooms : RoomBind(p, r)
           \/ \E r \in AllRooms, ps \in {{p} : p \in Projects} \cup {Projects} : RoomUnbind(r, ps)
           \/ UNCHANGED vars
  <2>1. UNCHANGED <<asked, failed, flow>>
    BY <1>1 DEF CreateLooksUp, RoomIsCreated, CreateFails, CreateRecords, IgnoreProject,
               RoomBind, RoomUnbind, vars
  <2> QED
    BY <2>1
<1>2. ASSUME NEW n \in Flows, NEW p \in Projects, SignalLooksUp(n, p)
      PROVE  FirstQuestion'
  BY <1>2 DEF SignalLooksUp, SetProposal
<1>3. ASSUME NEW n \in Flows, NEW p \in Projects, ManualBind(n, p)
      PROVE  FirstQuestion'
  BY <1>3 DEF ManualBind, SetProposal
<1>4. ASSUME NEW n \in Flows, SignalAsks(n)
      PROVE  FirstQuestion'
  <2>1. flow[n].project \in Projects
    BY <1>4 DEF SignalAsks
  <2>2. CASE Asks(proposal[flow[n].project])
    <3>1. proposal' = [proposal EXCEPT ![flow[n].project] = "pending"]
      BY <1>4, <2>2 DEF SignalAsks, SetProposal
    <3>2. flow' = [flow EXCEPT ![n].at = "sending"]
      BY <1>4, <2>2 DEF SignalAsks
    <3>3. UNCHANGED <<menus, historyVars>>
      BY <1>4 DEF SignalAsks
    <3>4. ASSUME NEW p \in Projects \ failed
          PROVE  /\ asked'[p] \in {0, 1}
                 /\ \A k \in Flows : Asking(k, p)' => asked'[p] = 0
                 /\ \A m, k \in Flows : Asking(m, p)' /\ Asking(k, p)' => m = k
      <4>1. CASE p = flow[n].project
        <5>1. proposal[p] = "none"
          BY <2>1, <2>2, <3>4, <4>1
        <5>2. asked[p] = 0 /\ \A k \in Flows : ~Asking(k, p)
          BY <3>4, <5>1
        <5>3. \A k \in Flows \ {n} : flow'[k] = flow[k]
          BY <3>2
        <5> QED
          BY <3>3, <5>2, <5>3
      <4>2. CASE p # flow[n].project
        <5>1. \A k \in Flows : Asking(k, p)' => Asking(k, p)
          BY <3>2, <4>2
        <5> QED
          BY <3>3, <3>4, <5>1
      <4> QED
        BY <4>1, <4>2
    <3> QED
      BY <3>3, <3>4
  <2>3. CASE ~Asks(proposal[flow[n].project])
    <3>1. /\ flow' = [flow EXCEPT ![n] = Free] /\ flow[n].at = "unbound"
          /\ UNCHANGED <<proposal, menus, historyVars>>
      BY <1>4, <2>3 DEF SignalAsks
    <3> QED
      BY <3>1
  <2> QED
    BY <2>2, <2>3
<1>5. ASSUME NEW n \in Flows, MenuAppears(n)
      PROVE  FirstQuestion'
  BY <1>5 DEF MenuAppears
<1>6. ASSUME NEW n \in Flows, PromptSent(n)
      PROVE  FirstQuestion'
  BY <1>6 DEF PromptSent, SetProposal
<1>7. ASSUME NEW n \in Flows, PromptFails(n)
      PROVE  FirstQuestion'
  BY <1>7 DEF PromptFails, SetProposal
<1>8. ASSUME NEW n \in Flows, PromptDropped(n)
      PROVE  FirstQuestion'
  BY <1>8 DEF PromptDropped
<1>10. ASSUME NEW n \in Flows, FlowNotSaved(n)
      PROVE  FirstQuestion'
  <2>1. flow' = [flow EXCEPT ![n] = Free] /\ flow[n].at \in {"unbound", "shown"}
    BY <1>10 DEF FlowNotSaved
  <2>2. UNCHANGED <<ledgerVars, menus, historyVars>>
    BY <1>10 DEF FlowNotSaved
  <2> QED
    BY <2>1, <2>2
<1>9. CASE CrashRestart
  BY <1>9 DEF CrashRestart
<1> QED
  BY <1>1, <1>2, <1>3, <1>4, <1>5, <1>6, <1>7, <1>8, <1>9, <1>10 DEF Next

\* A question is either on its way, in the chat, or lost.
LEMMA KeepsPending == IInv /\ [Next]_vars => PendingWasAsked'
<1> SUFFICES ASSUME IInv, [Next]_vars PROVE PendingWasAsked'
  OBVIOUS
<1> USE DEF IInv, PendingWasAsked, ShownIsInChat, LedgerTypes, HistoryTypes, ActiveHasProject,
            FlowTypes, ledgerVars, historyVars, Free, NoCreator
<1>1. CASE \/ \E n \in Creators, p \in Projects : CreateLooksUp(n, p)
           \/ \E n \in Creators : RoomIsCreated(n)
           \/ \E n \in Creators : CreateFails(n)
           \/ \E r \in AllRooms, ps \in {{p} : p \in Projects} \cup {Projects} : RoomUnbind(r, ps)
           \/ UNCHANGED vars
  <2>1. UNCHANGED <<proposal, menus, lost, flow>>
    BY <1>1 DEF CreateLooksUp, RoomIsCreated, CreateFails, RoomUnbind, vars
  <2> QED
    BY <2>1
<1>2. ASSUME NEW n \in Flows, NEW p \in Projects, SignalLooksUp(n, p)
      PROVE  PendingWasAsked'
  BY <1>2 DEF SignalLooksUp, SetProposal
<1>3. ASSUME NEW n \in Flows, NEW p \in Projects, ManualBind(n, p)
      PROVE  PendingWasAsked'
  BY <1>3 DEF ManualBind, SetProposal
<1>4. ASSUME NEW n \in Flows, SignalAsks(n)
      PROVE  PendingWasAsked'
  <2>1. flow[n].project \in Projects
    BY <1>4 DEF SignalAsks
  <2>2. CASE Asks(proposal[flow[n].project])
    <3>1. proposal' = [proposal EXCEPT ![flow[n].project] = "pending"]
      BY <1>4, <2>2 DEF SignalAsks, SetProposal
    <3>2. flow' = [flow EXCEPT ![n].at = "sending"]
      BY <1>4, <2>2 DEF SignalAsks
    <3>3. UNCHANGED <<menus, historyVars>>
      BY <1>4 DEF SignalAsks
    <3>4. flow'[n].at = "sending" /\ flow'[n].project = flow[n].project
      BY <3>2
    <3>5. ASSUME NEW p \in Projects \ {flow[n].project}, proposal'[p] = "pending"
          PROVE  \/ p \in menus \cup lost
                 \/ \E k \in Flows : flow'[k].project = p /\ flow'[k].at \in {"sending", "shown"}
      <4>1. proposal[p] = "pending"
        BY <3>1, <3>5
      <4>2. CASE \E k \in Flows : flow[k].project = p /\ flow[k].at \in {"sending", "shown"}
        <5>1. PICK k \in Flows : flow[k].project = p /\ flow[k].at \in {"sending", "shown"}
          BY <4>2
        <5> QED
          BY <3>2, <3>5, <5>1
      <4> QED
        BY <4>1, <4>2
    <3> QED
      BY <3>3, <3>4, <3>5
  <2>3. CASE ~Asks(proposal[flow[n].project])
    <3>1. /\ flow' = [flow EXCEPT ![n] = Free] /\ flow[n].at = "unbound"
          /\ UNCHANGED <<proposal, menus, historyVars>>
      BY <1>4, <2>3 DEF SignalAsks
    <3> QED
      BY <3>1
  <2> QED
    BY <2>2, <2>3
<1>5. ASSUME NEW n \in Flows, MenuAppears(n)
      PROVE  PendingWasAsked'
  BY <1>5 DEF MenuAppears
<1>6. ASSUME NEW n \in Flows, PromptSent(n)
      PROVE  PendingWasAsked'
  BY <1>6 DEF PromptSent, SetProposal
<1>7. ASSUME NEW n \in Flows, PromptFails(n)
      PROVE  PendingWasAsked'
  BY <1>7 DEF PromptFails, SetProposal
<1>8. ASSUME NEW n \in Flows, PromptDropped(n)
      PROVE  PendingWasAsked'
  BY <1>8 DEF PromptDropped
<1>13. ASSUME NEW n \in Flows, FlowNotSaved(n)
      PROVE  PendingWasAsked'
  <2>1. flow' = [flow EXCEPT ![n] = Free] /\ flow[n].at \in {"unbound", "shown"}
    BY <1>13 DEF FlowNotSaved
  <2>2. UNCHANGED <<ledgerVars, menus, historyVars>>
    BY <1>13 DEF FlowNotSaved
  <2> QED
    BY <2>1, <2>2
<1>9. ASSUME NEW n \in Creators, CreateRecords(n)
      PROVE  PendingWasAsked'
  BY <1>9 DEF CreateRecords, SetProposal
<1>10. ASSUME NEW p \in Projects, IgnoreProject(p)
      PROVE  PendingWasAsked'
  BY <1>10 DEF IgnoreProject, SetProposal
<1>11. ASSUME NEW p \in Projects, NEW r \in AllRooms, RoomBind(p, r)
      PROVE  PendingWasAsked'
  BY <1>11 DEF RoomBind, SetProposal, Bind
<1>12. CASE CrashRestart
  BY <1>12 DEF CrashRestart
<1> QED
  BY <1>1, <1>2, <1>3, <1>4, <1>5, <1>6, <1>7, <1>8, <1>9, <1>10, <1>11, <1>12, <1>13 DEF Next

\* No operation takes a binding's record away, and a proposal is answered by a
\* room only in the update that binds one.
LEMMA KeepsAnswered == IInv /\ [Next]_vars => AnsweredByRoom'
<1> SUFFICES ASSUME IInv, [Next]_vars PROVE AnsweredByRoom'
  OBVIOUS
<1> USE DEF IInv, AnsweredByRoom, LedgerTypes, ActiveHasProject, AllRooms, ledgerVars,
            historyVars, Free, NoCreator
<1>1. CASE \/ \E n \in Flows, p \in Projects : SignalLooksUp(n, p)
           \/ \E n \in Flows : MenuAppears(n)
           \/ \E n \in Flows : PromptDropped(n) \/ FlowNotSaved(n)
           \/ \E n \in Creators, p \in Projects : CreateLooksUp(n, p)
           \/ \E n \in Creators : RoomIsCreated(n)
           \/ \E n \in Creators : CreateFails(n)
           \/ CrashRestart
           \/ UNCHANGED vars
  <2>1. UNCHANGED <<proposal, binding>>
    BY <1>1 DEF SignalLooksUp, MenuAppears, PromptDropped, FlowNotSaved, CreateLooksUp,
               RoomIsCreated, CreateFails, CrashRestart, vars
  <2> QED
    BY <2>1
<1>2. ASSUME NEW n \in Flows, NEW p \in Projects, ManualBind(n, p)
      PROVE  AnsweredByRoom'
  BY <1>2 DEF ManualBind, SetProposal
<1>3. ASSUME NEW n \in Flows, SignalAsks(n)
      PROVE  AnsweredByRoom'
  BY <1>3 DEF SignalAsks, SetProposal
<1>4. ASSUME NEW n \in Flows, PromptSent(n)
      PROVE  AnsweredByRoom'
  BY <1>4 DEF PromptSent, SetProposal
<1>5. ASSUME NEW n \in Flows, PromptFails(n)
      PROVE  AnsweredByRoom'
  BY <1>5 DEF PromptFails, SetProposal
<1>6. ASSUME NEW n \in Creators, CreateRecords(n)
      PROVE  AnsweredByRoom'
  BY <1>6 DEF CreateRecords, SetProposal
<1>7. ASSUME NEW p \in Projects, IgnoreProject(p)
      PROVE  AnsweredByRoom'
  BY <1>7 DEF IgnoreProject, SetProposal
<1>8. ASSUME NEW p \in Projects, NEW r \in AllRooms, RoomBind(p, r)
      PROVE  AnsweredByRoom'
  BY <1>8 DEF RoomBind, SetProposal, Bind
<1>9. ASSUME NEW r \in AllRooms, NEW ps \in {{p} : p \in Projects} \cup {Projects},
             RoomUnbind(r, ps)
      PROVE  AnsweredByRoom'
  BY <1>9 DEF RoomUnbind, SetProposal
<1> QED
  BY <1>1, <1>2, <1>3, <1>4, <1>5, <1>6, <1>7, <1>8, <1>9 DEF Next

\* The invariant that the theorems rest on.
THEOREM Invariance == Spec => []IInv
<1>1. Init => IInv
  BY DEF Init, IInv, LedgerTypes, FlowTypes, HistoryTypes, ActiveHasProject, ShownIsInChat,
         FailureIsNoted, UntouchedIsQuiet, FirstQuestion, PendingWasAsked, AnsweredByRoom,
         ProposalStatuses, AllRooms, Free, NoCreator, Asking
<1>2. IInv /\ [Next]_vars => IInv'
  <2> SUFFICES ASSUME IInv, [Next]_vars PROVE IInv'
    OBVIOUS
  <2>1. LedgerTypes' /\ FlowTypes' /\ HistoryTypes'
    BY KeepsLedgerTypes, KeepsFlowTypes, KeepsHistoryTypes
  <2>2. ActiveHasProject' /\ ShownIsInChat' /\ FailureIsNoted'
    BY KeepsActive, KeepsShown, KeepsFailure
  <2>3. UntouchedIsQuiet' /\ FirstQuestion'
    BY KeepsQuiet, KeepsFirst
  <2>4. PendingWasAsked' /\ AnsweredByRoom'
    BY KeepsPending, KeepsAnswered
  <2> QED
    BY <2>1, <2>2, <2>3, <2>4 DEF IInv
<1> QED
  BY <1>1, <1>2, PTL DEF Spec

\* Every variable keeps its type.
THEOREM TypeCorrect == Spec => []TypeOK
<1>1. IInv => TypeOK
  BY DEF IInv, TypeOK, LedgerTypes, FlowTypes, HistoryTypes
<1> QED
  BY <1>1, Invariance, PTL

\* However many updates of a project arrive at once, whatever crashes and is reloaded,
\* and whichever sends and saves fail, the router asks its owner a second time only
\* after a failed send, and a proposal waits for an answer only if its question was
\* asked, is being asked, or was lost: dropped by a crash or a reload, or failed when
\* the ledger could not be told.
THEOREM OwnerIsAsked == Spec => []QuestionIsAsked
<1>1. IInv => AskedAgainAfterFailure
  BY DEF IInv, FirstQuestion, AskedAgainAfterFailure, HistoryTypes
<1>2. IInv => QuestionIsAsked
  BY <1>1 DEF IInv, QuestionIsAsked
<1> QED
  BY <1>2, Invariance, PTL

\* A proposal that a room has answered always has a record of a bound room, so
\* that the router stops asking only once there was a place to go.
THEOREM RoomsAnswer == Spec => []AnsweredByRoom
<1>1. IInv => AnsweredByRoom
  BY DEF IInv
<1> QED
  BY <1>1, Invariance, PTL

\* The owner's refusal holds against every late result, unless a send failed.
THEOREM RefusalStands == Spec => RefusalHolds
<1>1. IInv /\ [Next]_vars => [\A p \in declined \ failed : ~StartsToAsk(p)]_vars
  <2> SUFFICES ASSUME IInv, Next, NEW p \in declined \ failed, NEW n \in Flows,
                      flow[n].at = "unbound", flow[n].project = p,
                      flow'[n].at = "sending", flow'[n].project = p
               PROVE  FALSE
    BY DEF StartsToAsk
  <2> USE DEF IInv, LedgerTypes, FlowTypes, HistoryTypes, Free, ledgerVars, historyVars
  <2>1. SignalAsks(n)
    <3>1. ASSUME NEW k \in Flows, NEW q \in Projects, SignalLooksUp(k, q) \/ ManualBind(k, q)
          PROVE  FALSE
      <4>1. /\ k # n
            /\ \E new \in [at : {"unbound", "sending"}, project : {q}, by : {"router", "owner"}] :
                   flow' = [flow EXCEPT ![k] = new]
        BY <3>1 DEF SignalLooksUp, ManualBind
      <4>2. flow'[n] = flow[n]
        BY <4>1
      <4> QED
        BY <4>2
    <3>2. ASSUME NEW k \in Flows,
                 \/ MenuAppears(k) \/ PromptSent(k) \/ PromptFails(k)
                 \/ PromptDropped(k) \/ FlowNotSaved(k)
          PROVE  FALSE
      BY <3>2 DEF MenuAppears, PromptSent, PromptFails, PromptDropped, FlowNotSaved
    <3>3. ASSUME NEW k \in Flows, SignalAsks(k), k # n
          PROVE  FALSE
      BY <3>3 DEF SignalAsks
    <3>4. ASSUME \/ \E k \in Creators : \/ \E q \in Projects : CreateLooksUp(k, q)
                                          \/ RoomIsCreated(k) \/ CreateFails(k) \/ CreateRecords(k)
                 \/ \E q \in Projects : IgnoreProject(q) \/ \E r \in AllRooms : RoomBind(q, r)
                 \/ \E r \in AllRooms, ps \in {{q} : q \in Projects} \cup {Projects} :
                        RoomUnbind(r, ps)
          PROVE  FALSE
      BY <3>4 DEF CreateLooksUp, RoomIsCreated, CreateFails, CreateRecords, IgnoreProject,
                   RoomBind, RoomUnbind
    <3>5. CASE CrashRestart
      BY <3>5 DEF CrashRestart
    <3> QED
      BY <3>1, <3>2, <3>3, <3>4, <3>5 DEF Next
  <2>2. proposal[p] \in {"none", "prompt_failed"}
    BY <2>1 DEF SignalAsks, Asks
  <2> QED
    BY <2>2 DEF UntouchedIsQuiet, FailureIsNoted
<1> QED
  BY <1>1, Invariance, PTL DEF Spec, RefusalHolds

----------------------------------------------------------------------------
\* The rooms with the chat.

\* A message, a button and the address of a question are a step of the rooms, or none.
LEMMA ChatStep == [ChatNext]_chatVars => [Next]_vars
<1>. SUFFICES ASSUME ChatNext PROVE [Next]_vars
  BY DEF chatVars
<1>1. ASSUME NEW r \in AllRooms, NEW h \in Heard, SaidInRoom(r, h) PROVE Next
  <2>1. CASE \E p \in Projects : RoomBind(p, r)
    BY <2>1 DEF Next
  <2>2. CASE \E ps \in {{p} : p \in Projects} \cup {Projects} : RoomUnbind(r, ps)
    BY <2>2 DEF Next
  <2>. QED
    BY <1>1, <2>1, <2>2 DEF SaidInRoom
<1>2. ASSUME NEW n \in Flows, NEW h \in Heard, OpensMenu(n, h) PROVE Next
  BY <1>2 DEF OpensMenu, Next
<1>3. ASSUME NEW h \in Heard, IsRemembered(h) PROVE UNCHANGED vars
  BY <1>3 DEF IsRemembered
<1>4. ASSUME NEW p \in Projects, NEW b \in Buttons, Presses(p, b) PROVE Next
  BY <1>4 DEF Presses, Next
<1>5. ASSUME NEW n \in Flows, ChatSignalAsks(n) PROVE Next
  BY <1>5 DEF ChatSignalAsks, Next
<1>6. ASSUME NEW n \in Flows, ChatMenuAppears(n) PROVE Next
  BY <1>6 DEF ChatMenuAppears, Next
<1>7. CASE RoomsGoOn
  BY <1>7 DEF RoomsGoOn, Next
<1>. QED
  BY <1>1, <1>2, <1>3, <1>4, <1>5, <1>6, <1>7 DEF ChatNext

\* The rooms with the chat are rooms.
THEOREM ChatIsRooms == ChatSpec => Spec
<1>1. ChatInit => Init
  BY DEF ChatInit
<1>. QED
  BY <1>1, ChatStep, PTL DEF ChatSpec, Spec

\* So the owner is asked as ProjectRooms says, answers are rooms, and refusals hold.
THEOREM ChatKeepsRooms ==
    ChatSpec => [](QuestionIsAsked /\ AnsweredByRoom) /\ RefusalHolds
  BY ChatIsRooms, OwnerIsAsked, RoomsAnswer, RefusalStands, PTL

----------------------------------------------------------------------------
\* The messages.

\* A set of natural numbers has a least element.
LEMMA LeastNatural ==
    ASSUME NEW T, T \subseteq Nat, T # {}
    PROVE  \E m \in T : \A k \in T : m <= k
<1> DEFINE R == OpToRel(<, Nat)
<1>1. IsWellFoundedOn(R, Nat)
  BY NatLessThanWellFounded
<1> HIDE DEF R
<1>2. PICK m \in T : \A k \in T : <<k, m>> \notin R
  BY <1>1, WFMin
<1>3. \A k \in T : ~(k < m)
  BY <1>2 DEF R, OpToRel
<1>. QED
  BY <1>3

\* The words after the first j.
From(words, j) == SubSeq(words, j + 1, Len(words))

\* They are an end of the message, and leave out the first j.
LEMMA WordsFrom ==
    ASSUME NEW words \in Seq(Words), NEW j \in 0 .. Len(words)
    PROVE  /\ From(words, j) \in Seq(Words) /\ Len(From(words, j)) = Len(words) - j
           /\ j < Len(words) => /\ From(words, j) # <<>>
                                /\ Head(From(words, j)) = words[j + 1]
                                /\ Tail(From(words, j)) = From(words, j + 1)
           /\ j = Len(words) => From(words, j) = <<>>
           /\ EndsWith(words, From(words, j))
           /\ Len(LeftOut(words, From(words, j))) = j
<1>1. Len(words) \in Nat /\ \A i \in 1 .. Len(words) : words[i] \in Words
  BY LenProperties, ElementOfSeq
<1>2. From(words, j) \in Seq(Words) /\ Len(From(words, j)) = Len(words) - j
  <2>1. /\ SubSeq(words, j + 1, Len(words)) \in Seq(Words)
        /\ Len(SubSeq(words, j + 1, Len(words))) = Len(words) - j
    BY <1>1, SubSeqProperties
  <2>. QED
    BY <2>1 DEF From
<1>3. ASSUME j < Len(words)
      PROVE  /\ Head(From(words, j)) = words[j + 1]
             /\ Tail(From(words, j)) = From(words, j + 1)
  <2>1. /\ j + 1 \in 1 .. Len(words) /\ Len(words) \in j + 1 .. Len(words)
        /\ (j + 1) + 1 = j + 2
    BY <1>1, <1>3
  <2>2. /\ Head(SubSeq(words, j + 1, Len(words))) = words[j + 1]
        /\ Tail(SubSeq(words, j + 1, Len(words))) = SubSeq(words, (j + 1) + 1, Len(words))
    BY <2>1, HeadTailOfSubSeq
  <2>. QED
    BY <2>2 DEF From
<1>4. j < Len(words) => From(words, j) # <<>>
  BY <1>1, <1>2
<1>5. j = Len(words) => From(words, j) = <<>>
  BY <1>2, EmptySeq
<1>6. EndsWith(words, From(words, j))
  <2>1. Len(words) >= Len(From(words, j)) /\ Len(words) - Len(From(words, j)) + 1 = j + 1
    BY <1>1, <1>2
  <2>2. SubSeq(words, Len(words) - Len(From(words, j)) + 1, Len(words)) = From(words, j)
    BY <2>1 DEF From
  <2>. QED
    BY <2>1, <2>2 DEF EndsWith
<1>7. Len(LeftOut(words, From(words, j))) = j
  <2>1. Len(SubSeq(words, 1, j)) = j
    BY <1>1, SubSeqProperties
  <2>2. Len(words) - Len(From(words, j)) = j
    BY <1>1, <1>2
  <2>. QED
    BY <2>1, <2>2 DEF LeftOut
<1>. QED
  BY <1>2, <1>3, <1>4, <1>5, <1>6, <1>7

\* Of a text that is not empty, mentions in front are dropped, and not the last word.
LEMMA TextIsAnEnd ==
    ASSUME NEW words \in Seq(Words), words # <<>>
    PROVE  \E k \in 0 .. Len(words) - 1 :
               /\ Text(words) = From(words, k)
               /\ \A i \in 1 .. k : words[i] \in Mentions
<1> DEFINE P(n) == /\ \A i \in 1 .. n : words[i] \in Mentions
                   /\ n = Len(words) - 1 \/ words[n + 1] \notin Mentions
           Last == Len(words) - 1
           T == {n \in 0 .. Last : n = Last \/ words[n + 1] \notin Mentions}
<1>1. Last \in Nat
  BY EmptySeq
<1>2. PICK n \in T : \A k \in T : n <= k
  <2>1. T \subseteq Nat /\ Last \in T
    BY <1>1
  <2> HIDE DEF T
  <2>. QED
    BY <2>1, LeastNatural
<1>3. \A i \in 1 .. n : words[i] \in Mentions
  <2> SUFFICES ASSUME NEW i \in 1 .. n, words[i] \notin Mentions PROVE FALSE
    OBVIOUS
  <2>1. i - 1 \in T
    BY <1>1, <1>2
  <2>. QED
    BY <1>1, <1>2, <2>1
<1>4. \E k \in 0 .. Last : P(k)
  BY <1>2, <1>3
<1> DEFINE c == CHOOSE k \in 0 .. Last : P(k)
<1>5. c \in 0 .. Last /\ P(c)
  BY <1>4
<1>6. Text(words) = From(words, c)
  BY DEF Text, From
<1> HIDE DEF c
<1>. QED
  BY <1>5, <1>6

\* What a text message consists of.
LEMMA TextHas ==
    ASSUME NEW m \in TextMessages
    PROVE  /\ m.kind = "text" /\ m.chat \in {"direct", "room"}
           /\ m.root \in {"none", "self", "other"}
           /\ m.words \in Seq(Words) /\ Len(m.words) \in Nat
<1>1. PICK chat \in {"direct", "room"}, root \in {"none", "self", "other"}, words \in Texts :
          m = Message("text", chat, root, words)
  BY DEF TextMessages
<1>2. words \in Seq(Words) /\ Len(words) \in Nat
  <2>1. PICK n \in 0 .. MaxWords : words \in [1 .. n -> Words]
    BY DEF Texts
  <2>2. n \in Nat
    OBVIOUS
  <2>3. words \in Seq(Words)
    BY <2>1, <2>2, SeqDef
  <2>. QED
    BY <2>3, LenProperties
<1>. QED
  BY <1>1, <1>2 DEF Message

\* A message that is understood as it is meant.
Meant(m, o, connected, there) ==
    /\ TakenIfAddressed(m, o)
    /\ TextIsWhole(m, o)
    /\ ThreadsAreReplies(m, o)
    /\ FolderIsMeant(m, o, connected)
    /\ RoomsAreNamed(m, o, connected, there)

\* The outcomes that have neither a text nor folders.
LEMMA PlainIsMeant ==
    ASSUME NEW m, NEW o, NEW connected, NEW there, o.is \in {"reply", "ignored"},
           TakenIfAddressed(m, o)
    PROVE  Meant(m, o, connected, there)
  BY DEF Meant, TextIsWhole, ThreadsAreReplies, FolderIsMeant, RoomsAreNamed

\* The words of a command: after the mentions its name, then the rest.
Begins(m, k) ==
    /\ k \in 0 .. Len(m.words) - 1
    /\ Text(m.words) = From(m.words, k)
    /\ \A i \in 1 .. k : m.words[i] \in Mentions

\* After the mentions there is a word, and the rest begins behind it.
LEMMA WordsAfter ==
    ASSUME NEW m \in TextMessages, NEW k, Begins(m, k)
    PROVE  /\ m.words \in Seq(Words) /\ Len(m.words) \in Nat
           /\ k \in 0 .. Len(m.words) /\ k + 1 \in 0 .. Len(m.words) /\ k < Len(m.words)
           /\ Head(Text(m.words)) = m.words[k + 1]
           /\ Tail(Text(m.words)) = From(m.words, k + 1)
           /\ Tail(Text(m.words)) # <<>> => k + 1 < Len(m.words)
<1>1. m.words \in Seq(Words) /\ Len(m.words) \in Nat
  BY TextHas
<1>2. k \in 0 .. Len(m.words) /\ k + 1 \in 0 .. Len(m.words) /\ k < Len(m.words)
  BY <1>1 DEF Begins
<1>3. /\ Head(Text(m.words)) = m.words[k + 1]
      /\ Tail(Text(m.words)) = From(m.words, k + 1)
  <2>1. Text(m.words) = From(m.words, k)
    BY DEF Begins
  <2>2. /\ Head(From(m.words, k)) = m.words[k + 1]
        /\ Tail(From(m.words, k)) = From(m.words, k + 1)
    BY <1>1, <1>2, WordsFrom
  <2>. QED
    BY <2>1, <2>2
<1>4. k + 1 = Len(m.words) => From(m.words, k + 1) = <<>>
  BY <1>1, <1>2, WordsFrom
<1>. QED
  BY <1>1, <1>2, <1>3, <1>4

\* A text of one word is its first.
LEMMA OneWord ==
    ASSUME NEW s, Len(s) = 1 \/ \E p : s = <<p>>
    PROVE  1 = Len(s)
<1>1. CASE Len(s) = 1
  BY <1>1, Zenon
<1>2. CASE \E p : s = <<p>>
  BY <1>2
<1>. QED
  BY <1>1, <1>2

\* A message is left to its thread's agent, answered with a notice, or is one of the
\* commands, and those that change rooms or begin work are said outside of threads.
LEMMA UnderstoodIs ==
    ASSUME NEW m \in TextMessages, m.words # <<>>, NEW k, Begins(m, k),
           NEW rest, rest = Tail(Text(m.words))
    PROVE  \/ Understood(m) = NotACommand /\ m.root = "other"
           \/ Understood(m).is \in {"guidance", "invalid", "/help", "/status"}
           \/ /\ m.root = "none" /\ rest # <<>>
              /\ \/ m.words[k + 1] = "/new" /\ Understood(m) = NewSession(rest)
                 \/ Understood(m) = Command("/bind", rest, <<>>)
           \/ /\ m.root = "none" /\ m.words[k + 1] = "/unbind"
              /\ Understood(m) = Command("/unbind", rest, <<>>)
<1> DEFINE text == Text(m.words)
           c == ParseCommand(text)
<1>1. m.root \in {"none", "self", "other"}
  BY TextHas
<1>2. Head(text) = m.words[k + 1]
  BY WordsAfter
<1>3. /\ c = NotACommand => Understood(m) = IF InThread(m) THEN NotACommand ELSE Guidance
      /\ c # NotACommand /\ m.root # "none" /\ c.is \in RootOnly => Understood(m) = Invalid
      /\ c # NotACommand => Understood(m) \in {c, Invalid}
  <2> DEFINE d == c
             isNone == d = NotACommand
             badlyBound == m.root = "none" /\ IsDirect(m) /\ d.is = "/unbind" /\ d.path # <<>>
             tooDeep == d # NotACommand /\ m.root # "none" /\ d.is \in RootOnly
  <2>1. Understood(m) =
            CASE isNone -> IF InThread(m) THEN NotACommand ELSE Guidance
              [] tooDeep -> Invalid
              [] badlyBound -> Invalid
              [] OTHER -> d
    BY DEF Understood
  <2>2. ~(isNone /\ tooDeep) /\ ~(tooDeep /\ badlyBound)
    OBVIOUS
  <2>3. ~(isNone /\ badlyBound)
    <3>1. NotACommand.is = "none"
      BY DEF NotACommand, Command
    <3>. QED
      BY <3>1
  <2> HIDE DEF d, isNone, tooDeep, badlyBound
  <2>4. /\ isNone => Understood(m) = IF InThread(m) THEN NotACommand ELSE Guidance
        /\ tooDeep => Understood(m) = Invalid
        /\ ~isNone => Understood(m) \in {d, Invalid}
    BY <2>1, <2>2, <2>3
  <2>. QED
    BY <2>4 DEF d, isNone, tooDeep
<1>4. CASE Head(text) = "/new"
  <2>1. c = NewSession(rest)
    BY <1>4 DEF ParseCommand
  <2>2. CASE rest = <<>>
    BY <1>3, <2>1, <2>2 DEF NewSession, Invalid, Command, NotACommand, Guidance, RootOnly
  <2>3. CASE rest # <<>>
    <3>1. c.is = "/new" /\ c # NotACommand
      BY <2>1, <2>3 DEF NewSession, Command, NotACommand
    <3>. QED
      BY <1>2, <1>3, <1>4, <2>1, <2>3, <3>1 DEF RootOnly, Invalid, Command
  <2>. QED
    BY <2>2, <2>3
<1>5. CASE Head(text) = "/bind"
  <2>1. c = IF rest = <<>> THEN Invalid ELSE Command("/bind", rest, <<>>)
    BY <1>5 DEF ParseCommand
  <2>. QED
    BY <1>3, <2>1 DEF Invalid, Command, NotACommand, Guidance, RootOnly
<1>6. CASE Head(text) = "/unbind"
  <2>1. c = Command("/unbind", rest, <<>>)
    BY <1>6 DEF ParseCommand
  <2>. QED
    BY <1>2, <1>3, <1>6, <2>1 DEF Invalid, Command, NotACommand, Guidance, RootOnly
<1>7. CASE Head(text) \in {"/help", "/status"}
  <2>1. c = IF rest = <<>> THEN Command(Head(text), <<>>, <<>>) ELSE Invalid
    BY <1>7 DEF ParseCommand
  <2>. QED
    BY <1>3, <1>7, <2>1 DEF Invalid, Command, NotACommand, Guidance, RootOnly
<1>8. CASE Head(text) \notin {"/new", "/bind", "/unbind", "/help", "/status"}
  <2>1. c = NotACommand
    BY <1>8 DEF ParseCommand
  <2>. QED
    BY <1>3, <2>1 DEF Command, Guidance, InThread
<1>. QED
  BY <1>4, <1>5, <1>6, <1>7, <1>8

\* So a command is known by its name.
LEMMA CommandIs ==
    ASSUME NEW m \in TextMessages, m.words # <<>>, NEW k, Begins(m, k),
           NEW rest, rest = From(m.words, k + 1), NEW u, u = Understood(m)
    PROVE  /\ u = NotACommand => m.root = "other"
           /\ u.is = "/new" => /\ m.root = "none" /\ rest # <<>>
                               /\ m.words[k + 1] = "/new" /\ u = NewSession(rest)
           /\ u.is = "/bind" => m.root = "none" /\ u = Command("/bind", rest, <<>>)
           /\ u.is = "/unbind" => /\ m.root = "none" /\ m.words[k + 1] = "/unbind"
                                  /\ u = Command("/unbind", rest, <<>>)
<1>1. /\ NotACommand.is = "none"
      /\ Command("/bind", rest, <<>>).is = "/bind"
      /\ Command("/unbind", rest, <<>>).is = "/unbind"
  BY DEF NotACommand, Command
<1>2. rest # <<>> => NewSession(rest).is = "/new"
  BY DEF NewSession, Command
<1>3. rest = Tail(Text(m.words))
  BY WordsAfter, Zenon
<1>4. \/ u = NotACommand /\ m.root = "other"
      \/ u.is \in {"guidance", "invalid", "/help", "/status"}
      \/ /\ m.root = "none" /\ rest # <<>>
         /\ \/ m.words[k + 1] = "/new" /\ u = NewSession(rest)
            \/ u = Command("/bind", rest, <<>>)
      \/ /\ m.root = "none" /\ m.words[k + 1] = "/unbind"
         /\ u = Command("/unbind", rest, <<>>)
  BY <1>3, UnderstoodIs, Zenon
<1> DEFINE none == NotACommand
           bind == Command("/bind", rest, <<>>)
           unbind == Command("/unbind", rest, <<>>)
           new == NewSession(rest)
           known == m.words[k + 1]
           root == m.root
<1>5. /\ none.is = "none" /\ bind.is = "/bind" /\ unbind.is = "/unbind"
      /\ rest # <<>> => new.is = "/new"
      /\ \/ u = none /\ root = "other"
         \/ u.is \in {"guidance", "invalid", "/help", "/status"}
         \/ root = "none" /\ rest # <<>> /\ ((known = "/new" /\ u = new) \/ u = bind)
         \/ root = "none" /\ known = "/unbind" /\ u = unbind
  BY <1>1, <1>2, <1>4
<1>6. /\ u = none => root = "other"
      /\ u.is = "/new" => root = "none" /\ rest # <<>> /\ known = "/new" /\ u = new
      /\ u.is = "/bind" => root = "none" /\ u = bind
      /\ u.is = "/unbind" => root = "none" /\ known = "/unbind" /\ u = unbind
  <2> HIDE DEF none, bind, unbind, new, known, root
  <2>. QED
    BY ONLY <1>5
<1>. QED
  BY <1>6

\* A text for an agent is all of the message but the mentions in front.
LEMMA ReplyIsMeant ==
    ASSUME NEW m \in TextMessages, Addressed(m), NEW k, Begins(m, k), m.root = "other",
           NEW o, o = SurfaceReply(m), NEW connected, NEW there
    PROVE  Meant(m, o, connected, there)
<1>1. m.words \in Seq(Words) /\ m.words # <<>>
  BY TextHas DEF Addressed
<1>2. o.is = "agent" /\ o.text = From(m.words, k) /\ o.folders = {}
  BY DEF SurfaceReply, Outcome, Begins
<1>3. /\ o.text # <<>> /\ EndsWith(m.words, o.text)
      /\ Len(LeftOut(m.words, o.text)) = k
  BY <1>1, <1>2, WordsFrom DEF Begins
<1>4. TakenIfAddressed(m, o)
  BY <1>1, <1>2 DEF TakenIfAddressed, Addressed, IsDirect
<1>5. TextIsWhole(m, o)
  BY <1>3 DEF TextIsWhole, Begins
<1>. QED
  BY <1>2, <1>4, <1>5 DEF Meant, ThreadsAreReplies, FolderIsMeant, RoomsAreNamed

\* Work starts in the folder that is named, or in the only one of the room, with all
\* that follows.
LEMMA SessionIsMeant ==
    ASSUME NEW m \in TextMessages, Addressed(m), NEW k, Begins(m, k), m.root = "none",
           NEW rest, rest = From(m.words, k + 1), rest # <<>>, m.words[k + 1] = "/new",
           NEW c, c = NewSession(rest),
           NEW connected \in SUBSET Folders, NEW there \in SUBSET Folders,
           SessionIn(m, c, connected, there) # {},
           NEW o, o = Outcome("session", SessionIn(m, c, connected, there), c.prompt)
    PROVE  Meant(m, o, connected, there)
<1> DEFINE L == Len(m.words)
<1>1. /\ m.words \in Seq(Words) /\ m.words # <<>> /\ k \in 0 .. L - 1 /\ L \in Nat
      /\ m.chat \in {"direct", "room"}
  BY TextHas DEF Addressed, Begins
<1>2. rest = From(m.words, k + 1) /\ k + 1 \in 0 .. L /\ k + 1 < L
  BY WordsAfter
<1>3. /\ Len(rest) = L - (k + 1) /\ EndsWith(m.words, rest)
      /\ Len(LeftOut(m.words, rest)) = k + 1
  BY <1>1, <1>2, WordsFrom
<1>8. Head(rest) = m.words[k + 2] /\ Tail(rest) = From(m.words, k + 2)
  <2>1. /\ Head(rest) = m.words[(k + 1) + 1]
        /\ Tail(rest) = From(m.words, (k + 1) + 1)
    BY <1>1, <1>2, WordsFrom
  <2>. QED
    BY <1>1, <2>1
<1>4. o.is = "session" /\ o.folders = SessionIn(m, c, connected, there) /\ o.text = c.prompt
  BY DEF Outcome
<1>5. TakenIfAddressed(m, o)
  BY <1>1, <1>4 DEF TakenIfAddressed, Addressed, IsDirect
<1>6. CASE IsSlash(Head(rest)) /\ Len(rest) > 1
  <2>1. c.path = <<Head(rest)>> /\ c.prompt = Tail(rest)
    BY <1>6 DEF NewSession, Command
  <2>2. Tail(rest) = From(m.words, k + 2) /\ k + 2 \in 0 .. L /\ k + 2 < L
    BY <1>1, <1>3, <1>6, <1>8
  <2>3. /\ o.text # <<>> /\ EndsWith(m.words, o.text)
        /\ Len(LeftOut(m.words, o.text)) = k + 2
    <3>1. o.text = From(m.words, k + 2)
      BY <1>4, <2>1, <2>2
    <3>2. /\ From(m.words, k + 2) # <<>> /\ EndsWith(m.words, From(m.words, k + 2))
          /\ Len(LeftOut(m.words, From(m.words, k + 2))) = k + 2
      BY <1>1, <2>2, WordsFrom
    <3>. QED
      BY <3>1, <3>2
  <2>4. /\ o.folders = {m.words[k + 2]} /\ m.words[k + 2] \in Folders
        /\ m.chat = "room" => m.words[k + 2] \in connected
    <3>1. <<Head(rest)>> # <<>> /\ \A p : <<Head(rest)>> = <<p>> <=> p = Head(rest)
      OBVIOUS
    <3>2. o.folders = {p \in there : p = Head(rest) /\ (IsDirect(m) \/ p \in connected)}
      BY <1>4, <2>1, <3>1 DEF SessionIn
    <3>. QED
      BY <1>1, <1>4, <1>8, <3>2 DEF IsDirect
  <2>5. TextIsWhole(m, o)
    <3>1. \A i \in 1 .. k + 2 : i \in 1 .. k \/ i = k + 1 \/ i = k + 2
      BY <1>1
    <3>. QED
      BY <1>4, <2>3, <2>4, <3>1 DEF TextIsWhole, Begins
  <2>6. FolderIsMeant(m, o, connected)
    <3>1. k + 2 \in 1 .. k + 2
      BY <1>1
    <3>. QED
      BY <2>3, <2>4, <3>1 DEF FolderIsMeant
  <2>. QED
    BY <1>4, <1>5, <2>5, <2>6 DEF Meant, ThreadsAreReplies, RoomsAreNamed
<1>7. CASE ~(IsSlash(Head(rest)) /\ Len(rest) > 1)
  <2>1. c.path = <<>> /\ c.prompt = rest
    BY <1>7 DEF NewSession, Command
  <2>2. /\ o.text # <<>> /\ EndsWith(m.words, o.text)
        /\ Len(LeftOut(m.words, o.text)) = k + 1
    BY <1>3, <1>4, <2>1
  <2>3. /\ m.chat = "room"
        /\ \E p \in Folders : connected = {p} /\ o.folders = {p}
    <3>1. ~IsDirect(m) /\ o.folders = {p \in connected : connected = {p}} /\ o.folders # {}
      BY <1>4, <2>1 DEF SessionIn
    <3>. QED
      BY <1>1, <3>1 DEF IsDirect
  <2>4. TextIsWhole(m, o)
    <3>1. \A i \in 1 .. k + 1 : i \in 1 .. k \/ i = k + 1
      BY <1>1
    <3>. QED
      BY <1>4, <2>2, <3>1 DEF TextIsWhole, Begins
  <2>5. FolderIsMeant(m, o, connected)
    <3>1. o.text = rest /\ rest \in Seq(Words) /\ Head(rest) = rest[1]
      BY <1>1, <1>2, <1>4, <2>1, WordsFrom
    <3>2. IsSlash(rest[1]) => Len(rest) = 1
      <4>1. Len(rest) > 1 \/ Len(rest) = 1
        <5> DEFINE n == Len(rest)
        <5>1. L \in Nat /\ k \in 0 .. L - 1 /\ n = L - (k + 1) /\ k + 1 < L
          BY <1>1, <1>2, <1>3
        <5> HIDE DEF n, L
        <5>2. n > 1 \/ n = 1
          BY ONLY <5>1
        <5>. QED
          BY <5>2 DEF n
      <4>. QED
        BY <1>7, <3>1, <4>1
    <3>3. ~IsSlash(o.text[1]) \/ PathAlone(o.text)
      BY <3>1, <3>2 DEF PathAlone
    <3>. QED
      BY <2>3, <3>3 DEF FolderIsMeant
  <2>. QED
    BY <1>4, <1>5, <2>4, <2>5 DEF Meant, ThreadsAreReplies, RoomsAreNamed
<1>. QED
  BY <1>6, <1>7

\* A room's folders change as the one word after the command says, or all of them.
LEMMA RoomIsMeant ==
    ASSUME NEW m \in TextMessages, Addressed(m), NEW k, Begins(m, k), m.root = "none",
           NEW rest, rest = From(m.words, k + 1), NEW c,
           NEW connected \in SUBSET Folders, NEW there \in SUBSET Folders, NEW o,
           \/ /\ c = Command("/bind", rest, <<>>) /\ IsFolder(c.path, there)
              /\ o = Outcome(IF IsDirect(m) THEN "menu" ELSE "bound", {c.path[1]}, <<>>)
           \/ /\ c = Command("/unbind", rest, <<>>) /\ m.words[k + 1] = "/unbind" /\ ~IsDirect(m)
              /\ o = Outcome("unbound", IF c.path = <<>> THEN connected
                                        ELSE {p \in connected : c.path = <<p>>}, <<>>)
    PROVE  Meant(m, o, connected, there)
<1> DEFINE L == Len(m.words)
<1>1. /\ m.words \in Seq(Words) /\ m.words # <<>> /\ k \in 0 .. L - 1 /\ L \in Nat
      /\ m.chat \in {"direct", "room"} /\ c.path = rest
  BY TextHas DEF Addressed, Begins, Command
<1>2. rest = From(m.words, k + 1) /\ k + 1 \in 0 .. L
  BY WordsAfter
<1>7. /\ rest \in Seq(Words) /\ Len(rest) = L - (k + 1)
      /\ k + 1 < L => rest # <<>> /\ Head(rest) = m.words[(k + 1) + 1]
  BY <1>1, <1>2, WordsFrom
<1>3. ASSUME 1 = Len(rest) PROVE rest[1] = m.words[L]
  <2>1. k + 1 < L /\ (k + 1) + 1 = L
    <3> DEFINE n == Len(rest)
    <3>1. L \in Nat /\ k \in 0 .. L - 1 /\ n = L - (k + 1) /\ 1 = n
      BY <1>1, <1>3, <1>7
    <3> HIDE DEF n, L
    <3>. QED
      BY ONLY <3>1
  <2>. QED
    BY <1>7, <2>1
<1>4. rest = <<>> => m.words[L] = m.words[k + 1]
  <2>1. rest = <<>> => L = k + 1
    BY <1>1, <1>2, <1>7
  <2>. QED
    BY <2>1
<1>5. TakenIfAddressed(m, o)
  BY <1>1 DEF TakenIfAddressed, Addressed, IsDirect, Outcome
<1>6. RoomsAreNamed(m, o, connected, there)
  <2>1. CASE c = Command("/bind", rest, <<>>)
    <3>0. /\ c.is = "/bind" /\ IsFolder(rest, there)
          /\ o = Outcome(IF IsDirect(m) THEN "menu" ELSE "bound", {rest[1]}, <<>>)
      BY <1>1, <2>1 DEF Command
    <3>1. rest[1] = m.words[L] /\ rest[1] \in there
      BY <1>3, <3>0, OneWord DEF IsFolder
    <3>2. /\ o.is = IF IsDirect(m) THEN "menu" ELSE "bound"
          /\ o.folders = {rest[1]}
      BY <3>0 DEF Outcome
    <3>. QED
      BY <1>1, <3>1, <3>2 DEF RoomsAreNamed, IsDirect
  <2>2. CASE c = Command("/unbind", rest, <<>>)
    <3>0. /\ ~IsDirect(m) /\ m.words[k + 1] = "/unbind"
          /\ o = Outcome("unbound", IF rest = <<>> THEN connected
                                   ELSE {p \in connected : rest = <<p>>}, <<>>)
      BY <1>1, <2>2 DEF Command
    <3>1. /\ o.is = "unbound"
          /\ o.folders = IF rest = <<>> THEN connected ELSE {p \in connected : rest = <<p>>}
      BY <3>0 DEF Outcome
    <3>2. ASSUME NEW p, rest = <<p>> PROVE p = m.words[L]
      <4>1. 1 = Len(rest)
        BY <3>2, OneWord, Zenon
      <4>. QED
        BY <1>3, <3>2, <4>1
    <3>3. CASE rest = <<>>
      BY <1>1, <1>4, <3>0, <3>1, <3>3 DEF RoomsAreNamed, IsDirect
    <3>4. CASE rest # <<>>
      BY <1>1, <3>0, <3>1, <3>2, <3>4 DEF RoomsAreNamed, IsDirect
    <3>. QED
      BY <3>3, <3>4
  <2>. QED
    BY <2>1, <2>2
<1>. QED
  BY <1>5, <1>6 DEF Meant, TextIsWhole, ThreadsAreReplies, FolderIsMeant, Outcome

\* Every message is understood as it is meant, whatever folders there are.
LEMMA MessageIsMeant ==
    ASSUME NEW m \in TextMessages, NEW connected \in SUBSET Folders, NEW there \in SUBSET Folders
    PROVE  Meant(m, OnEvent(m, connected, there), connected, there)
<1> DEFINE o == OnEvent(m, connected, there)
           u == Understood(m)
<1>1. m.kind = "text" /\ m.words \in Seq(Words)
  BY TextHas
<1>2. o = OnMessage(m, connected, there)
  BY <1>1 DEF OnEvent, Buttons
<1>3. CASE ~Addressed(m)
  <2>1. o.is = "ignored"
    BY <1>2, <1>3 DEF OnMessage, Ignored, Outcome
  <2>2. TakenIfAddressed(m, o)
    BY <1>3, <2>1 DEF TakenIfAddressed, Addressed, IsDirect
  <2>. QED
    BY <2>1, <2>2, PlainIsMeant
<1>4. CASE Addressed(m)
  <2>1. m.words # <<>>
    BY <1>4 DEF Addressed
  <2>2. PICK k : Begins(m, k)
    BY <1>1, <2>1, TextIsAnEnd DEF Begins
  <2> DEFINE rest == Tail(Text(m.words))
  <2>3. rest = From(m.words, k + 1)
    BY <2>2, WordsAfter
  <2>4. CASE u = NotACommand
    <3>1. m.root = "other"
      BY <2>1, <2>2, <2>3, <2>4, CommandIs, Zenon
    <3>2. o = SurfaceReply(m)
      BY <1>2, <1>4, <2>4 DEF OnMessage
    <3>. QED
      BY <1>4, <2>2, <3>1, <3>2, ReplyIsMeant
  <2>5. CASE u # NotACommand
    <3>1. o = Executed(m, u, connected, there)
      BY <1>2, <1>4, <2>5 DEF OnMessage, ControlCommand
    <3>2. ASSUME o = Reply PROVE Meant(m, o, connected, there)
      <4>1. o.is = "reply"
        BY <3>2 DEF Reply, Outcome
      <4>2. TakenIfAddressed(m, o)
        BY <1>4, <4>1 DEF TakenIfAddressed, Addressed, IsDirect
      <4>. QED
        BY <4>1, <4>2, PlainIsMeant
    <3>3. CASE u.is = "/new" /\ SessionIn(m, u, connected, there) # {}
      <4>1. m.root = "none" /\ rest # <<>> /\ m.words[k + 1] = "/new" /\ u = NewSession(rest)
        BY <2>1, <2>2, <2>3, <3>3, CommandIs, Zenon
      <4>2. o = Outcome("session", SessionIn(m, u, connected, there), u.prompt)
        BY <3>1, <3>3 DEF Executed
      <4>. QED
        BY <1>4, <2>2, <2>3, <3>3, <4>1, <4>2, SessionIsMeant
    <3>4. CASE u.is = "/bind" /\ IsFolder(u.path, there)
      <4>1. m.root = "none" /\ u = Command("/bind", rest, <<>>)
        BY <2>1, <2>2, <2>3, <3>4, CommandIs, Zenon
      <4>2. o = Outcome(IF IsDirect(m) THEN "menu" ELSE "bound", {u.path[1]}, <<>>)
        BY <3>1, <3>4 DEF Executed
      <4>. QED
        BY <1>4, <2>2, <2>3, <3>4, <4>1, <4>2, RoomIsMeant
    <3>5. CASE u.is = "/unbind" /\ ~IsDirect(m)
      <4>1. m.root = "none" /\ m.words[k + 1] = "/unbind" /\ u = Command("/unbind", rest, <<>>)
        BY <2>1, <2>2, <2>3, <3>5, CommandIs, Zenon
      <4>2. o = Outcome("unbound", IF u.path = <<>> THEN connected
                                   ELSE {p \in connected : u.path = <<p>>}, <<>>)
        BY <3>1, <3>5 DEF Executed
      <4>. QED
        BY <1>4, <2>2, <2>3, <3>5, <4>1, <4>2, RoomIsMeant
    <3>6. CASE /\ ~(u.is = "/new" /\ SessionIn(m, u, connected, there) # {})
               /\ ~(u.is = "/bind" /\ IsFolder(u.path, there))
               /\ ~(u.is = "/unbind" /\ ~IsDirect(m))
      BY <3>1, <3>2, <3>6 DEF Executed
    <3>. QED
      BY <3>3, <3>4, <3>5, <3>6
  <2>. QED
    BY <2>4, <2>5
<1>. QED
  BY <1>3, <1>4

\* So every message is, in a room that is connected to any folders.
LEMMA AllAreMeant ==
    ASSUME NEW connected \in SUBSET Folders
    PROVE  [connected |-> connected, understood |-> TRUE] \in Verdicts
<1> DEFINE understood ==
      \A m \in TextMessages, there \in Situations :
          LET o == OnEvent(m, connected, there) IN
          /\ TakenIfAddressed(m, o)
          /\ TextIsWhole(m, o)
          /\ ThreadsAreReplies(m, o)
          /\ FolderIsMeant(m, o, connected)
          /\ RoomsAreNamed(m, o, connected, there)
<1>1. understood
  BY MessageIsMeant DEF Meant, Situations
<1>2. understood = TRUE
  BY <1>1
<1>3. [connected |-> connected, understood |-> understood] \in Verdicts
  BY DEF Verdicts, Situations
<1> HIDE DEF understood
<1>. QED
  BY <1>2, <1>3

\* Every message that may be written, of any length and about any folders, is
\* understood as its author means it, in every room at every time: but for "/new"
\* with a path alone, of which FolderIsMeant only says where it goes.
THEOREM MessagesUnderstood == ChatSpec => []MessagesAreUnderstood
<1>1. MessagesAreUnderstood
  BY AllAreMeant, RoomChatAssumption DEF MessagesAreUnderstood, ConnectedTo
<1>. QED
  BY <1>1, PTL
=============================================================================
