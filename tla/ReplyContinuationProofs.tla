----------------------- MODULE ReplyContinuationProofs -----------------------
(***************************************************************************)
(* Proofs about ReplyContinuation, for any events, sessions, faults and    *)
(* number of restarts.  The argument: IInv, a conjunction of what the      *)
(* link, the tasks, the ledger and recovery each rely on, is inductive     *)
(* (StepKeepsIInv, one step per action); the safety properties are parts   *)
(* of it or follow from it, and every step that keeps it is a step of      *)
(* InboundOnce.                                                            *)
(***************************************************************************)
EXTENDS ReplyContinuation, SequenceTheorems, TLAPS

USE DEF Processing, Statuses, Stages, ConfigParts, Verdicts, VerdictOf, Notices, Idle
USE DEF ledgerVars, taskVars, historyVars, recoveryVars, startVars

\* Withdrawing a record leaves a list of records.
LEMMA WithdrawType ==
    ASSUME ListsOK, NEW e \in Events, Withdraw(e)
    PROVE  claims' \in Seq(Events)
<1>1. PICK i \in 1 .. Len(claims) : claims' = RemoveAt(claims, i)
  BY DEF Withdraw
<1>2. claims \in Seq(Events) /\ Len(claims) \in Nat
  BY DEF ListsOK
<1>3. SubSeq(claims, 1, i - 1) \in Seq(Events) /\ SubSeq(claims, i + 1, Len(claims)) \in Seq(Events)
  BY <1>2, SubSeqProperties
<1> QED
  BY <1>1, <1>3, ConcatProperties DEF RemoveAt

\* So does giving a claim back.
LEMMA ReleaseType ==
    ASSUME ListsOK, NEW e \in Events, ReleaseClaim(e)
    PROVE  claims' \in Seq(Events)
<1>1. CASE status[e] = "claimed_before_submit"
  BY <1>1, WithdrawType DEF ReleaseClaim
<1>2. CASE status[e] # "claimed_before_submit"
  BY <1>2 DEF ReleaseClaim, ListsOK
<1> QED
  BY <1>1, <1>2

\* What giving a claim back does to the statuses.
LEMMA ReleaseEffect ==
    ASSUME status \in [Events -> Statuses], NEW e \in Events, ReleaseClaim(e)
    PROVE  status' = [status EXCEPT ![e] = IF @ = "claimed_before_submit" THEN "none" ELSE @]
<1>1. CASE status[e] = "claimed_before_submit"
  BY <1>1 DEF ReleaseClaim, Withdraw
<1>2. CASE status[e] # "claimed_before_submit"
  BY <1>2 DEF ReleaseClaim
<1> QED
  BY <1>1, <1>2

\* The records recovery reads, and those it has still to pass, are records.
LEMMA LoadType ==
    ASSUME TypeOK, RecoveryLoad
    PROVE  todo' \in Seq([event : Events, status : Statuses])
<1>1. Len(claims) \in Nat /\ \A i \in 1 .. Len(claims) : claims[i] \in Events
  BY DEF TypeOK, ListsOK
<1>2. \A i \in 1 .. Len(claims) :
          [event |-> claims[i], status |-> status[claims[i]]] \in [event : Events, status : Statuses]
  BY <1>1 DEF TypeOK
<1> DEFINE Records == [event : Events, status : Statuses]
           n == Len(claims)
<1>3. n \in Nat /\ todo' \in [1 .. n -> Records]
  BY <1>1, <1>2 DEF RecoveryLoad
<1>4. todo' \in Seq(Records)
  <2> HIDE DEF Records, n
  <2> QED
    BY ONLY <1>3, SeqDef
<1> QED
  BY <1>4

LEMMA FirstRecord ==
    ASSUME ListsOK, todo # <<>>
    PROVE  /\ Head(todo) \in [event : Events, status : Statuses]
           /\ Head(todo).event \in Events
           /\ Tail(todo) \in Seq([event : Events, status : Statuses])
<1>1. todo \in Seq([event : Events, status : Statuses])
  BY DEF ListsOK
<1>2. /\ Head(todo) \in [event : Events, status : Statuses]
      /\ Tail(todo) \in Seq([event : Events, status : Statuses])
  BY <1>1, HeadTailProperties
<1> QED
  BY <1>2

\* The lists stay lists; most steps leave them alone.
LEMMA StepKeepsLists == TypeOK /\ [Next]_vars => ListsOK'
<1> SUFFICES ASSUME TypeOK, [Next]_vars PROVE ListsOK'
  OBVIOUS
<1> DEFINE Same == UNCHANGED <<claims, todo, noticed, recovery>>
<1>1. ListsOK
  BY DEF TypeOK
<1>2. Same => ListsOK'
  BY <1>1 DEF ListsOK
<1>3. ASSUME claims' \in Seq(Events), UNCHANGED <<todo, noticed, recovery>>
      PROVE  ListsOK'
  BY <1>1, <1>3 DEF ListsOK
<1>4. ASSUME NEW e \in Events, Receive(e)
      PROVE  ListsOK'
  <2>1. claims \in Seq(Events) /\ Append(claims, e) \in Seq(Events)
    BY <1>1, AppendProperties DEF ListsOK
  <2> QED
    BY <1>3, <1>4, <2>1 DEF Receive
<1>5. ASSUME NEW e \in Events, TaskStep(e)
      PROVE  ListsOK'
  <2>1. UNCHANGED <<todo, noticed, recovery>>
    BY <1>5 DEF TaskStep, WorkerStarts, WorkerSkips, FailsBeforeSubmit, TurnStart,
                TurnStartSendFails, TurnAccepted, RecordSubmitted, BusyStarts, BusySkips,
                ReplySent, RecordVerdict, LedgerRefuses, ReplyFails
  <2>2. ReleaseClaim(e) \/ UNCHANGED claims
    BY <1>5 DEF TaskStep, WorkerStarts, WorkerSkips, FailsBeforeSubmit, TurnStart,
                TurnStartSendFails, TurnAccepted, RecordSubmitted, BusyStarts, BusySkips,
                ReplySent, RecordVerdict, LedgerRefuses, ReplyFails, Record
  <2>3. claims' \in Seq(Events)
    BY <1>1, <2>2, ReleaseType DEF ListsOK
  <2> QED
    BY <1>3, <2>1, <2>3
<1>6. CASE RecoveryLoad
  <2>1. ~noticed
    BY <1>1, <1>6 DEF RecoveryLoad, ListsOK
  <2> QED
    BY <1>1, <1>6, <2>1, LoadType DEF RecoveryLoad, ListsOK
<1>7. CASE RecoverySkips \/ \E a \in BOOLEAN : RecoveryPostFails(a)
  <2>1. todo # <<>> /\ ~noticed /\ todo' = Tail(todo) /\ UNCHANGED <<claims, noticed, recovery>>
    BY <1>7 DEF RecoverySkips, RecoveryPostFails, AtRecord, Passed
  <2> QED
    BY <1>1, <2>1, FirstRecord DEF ListsOK
<1>8. CASE RecoveryPosts
  BY <1>1, <1>8 DEF RecoveryPosts, AtRecord, ListsOK
<1>9. CASE RecoveryRecords
  <2>1. noticed /\ todo' = Tail(todo) /\ noticed' = FALSE /\ UNCHANGED <<claims, recovery>>
    BY <1>9 DEF RecoveryRecords, Record, Passed
  <2>2. todo # <<>>
    BY <1>1, <2>1 DEF ListsOK
  <2> QED
    BY <1>1, <2>1, <2>2, FirstRecord DEF ListsOK
<1>10. ASSUME claims' = claims, todo' = <<>>, noticed' = FALSE
       PROVE  ListsOK'
  BY <1>1, <1>10, EmptySeq DEF ListsOK
<1>11. CASE RecoveryAborts \/ \E l \in BOOLEAN : CrashRestart(l)
  BY <1>10, <1>11 DEF RecoveryAborts, CrashRestart
<1>12. ASSUME NEW e \in Events, PlatformPost(e) \/ AgentEnds(e)
       PROVE  ListsOK'
  BY <1>2, <1>12 DEF PlatformPost, AgentEnds, TurnLost, FinalAnswer, PollMismatch
<1>13. CASE LinkStep \/ (\E p \in SUBSET ConfigParts : ConfigReload(p)) \/ UNCHANGED vars
  BY <1>2, <1>13 DEF LinkStep, Dispatch, AckSucceeds, AckFails, ConfigReload, vars
<1> QED
  BY <1>4, <1>5, <1>6, <1>7, <1>8, <1>9, <1>11, <1>12, <1>13 DEF Next, RecoveryStep

\* The record whose notice is posted is there.
LEMMA NoticedRecord ==
    ASSUME ListsOK, noticed
    PROVE  recovery = "running" /\ todo # <<>> /\ Head(todo).event \in Events
<1>1. recovery = "running" /\ todo # <<>>
  BY DEF ListsOK
<1> QED
  BY <1>1, FirstRecord

\* Every variable keeps its type, for every value of the constants.
THEOREM TypeCorrect == Spec => []TypeOK
<1>1. Init => TypeOK
  <2>1. Init => ListsOK
    <3>1. <<>> \in Seq(Events) /\ <<>> \in Seq([event : Events, status : Statuses])
      BY EmptySeq
    <3> QED
      BY <3>1 DEF Init, ListsOK
  <2> QED
    BY <2>1, ReplyAssumption DEF Init, TypeOK
<1>2. TypeOK /\ [Next]_vars => TypeOK'
  <2> SUFFICES ASSUME TypeOK, [Next]_vars, ListsOK' PROVE TypeOK'
    BY StepKeepsLists
  <2> USE ReplyAssumption DEF TypeOK
  <2>1. ASSUME NEW e \in Events, PlatformPost(e)
        PROVE  TypeOK'
    BY <2>1 DEF PlatformPost
  <2>2. ASSUME NEW e \in Events, Receive(e)
        PROVE  TypeOK'
    BY <2>2 DEF Receive
  <2>3. ASSUME NEW a \in BOOLEAN, AckSucceeds(a)
        PROVE  TypeOK'
    BY <2>3 DEF AckSucceeds, Acknowledged
  <2>4. ASSUME NEW a \in BOOLEAN, AckFails(a)
        PROVE  TypeOK'
    BY <2>4 DEF AckFails, Acknowledged
  <2>5. ASSUME Dispatch
        PROVE  TypeOK'
    BY <2>5 DEF Dispatch
  <2>6. ASSUME NEW e \in Events, WorkerStarts(e)
        PROVE  TypeOK'
    BY <2>6 DEF WorkerStarts, GoTo
  <2>7. ASSUME NEW e \in Events, WorkerSkips(e)
        PROVE  TypeOK'
    <3>1. ReleaseClaim(e)
      BY <2>7 DEF WorkerSkips
    <3> QED
      BY <2>7, <3>1, ReleaseEffect DEF WorkerSkips, End, GoTo
  <2>8. ASSUME NEW e \in Events, FailsBeforeSubmit(e)
        PROVE  TypeOK'
    BY <2>8 DEF FailsBeforeSubmit, Answer, GoTo
  <2>9. ASSUME NEW e \in Events, TurnStart(e)
        PROVE  TypeOK'
    BY <2>9 DEF TurnStart, GoTo
  <2>10. ASSUME NEW e \in Events, TurnStartSendFails(e)
        PROVE  TypeOK'
    BY <2>10 DEF TurnStartSendFails, Settle, GoTo
  <2>11. ASSUME NEW e \in Events, TurnAccepted(e)
        PROVE  TypeOK'
    BY <2>11 DEF TurnAccepted, CanRecord, Record, Recorded, GoTo
  <2>12. ASSUME NEW e \in Events, TurnLost(e)
        PROVE  TypeOK'
    BY <2>12 DEF TurnLost, Settle, GoTo
  <2>13. ASSUME NEW e \in Events, FinalAnswer(e)
        PROVE  TypeOK'
    BY <2>13 DEF FinalAnswer, Settle, GoTo
  <2>14. ASSUME NEW e \in Events, PollMismatch(e)
        PROVE  TypeOK'
    BY <2>14 DEF PollMismatch, Answer, GoTo
  <2>15. ASSUME NEW e \in Events, RecordSubmitted(e)
        PROVE  TypeOK'
    BY <2>15 DEF RecordSubmitted, CanRecord, Record, Recorded, GoTo
  <2>16. ASSUME NEW e \in Events, BusyStarts(e)
        PROVE  TypeOK'
    BY <2>16 DEF BusyStarts, Answer, GoTo
  <2>17. ASSUME NEW e \in Events, BusySkips(e)
        PROVE  TypeOK'
    <3>1. ReleaseClaim(e)
      BY <2>17 DEF BusySkips
    <3> QED
      BY <2>17, <3>1, ReleaseEffect DEF BusySkips, End, GoTo
  <2>18. ASSUME NEW e \in Events, ReplySent(e)
        PROVE  TypeOK'
    BY <2>18 DEF ReplySent, Post, GoTo
  <2>19. ASSUME NEW e \in Events, NEW a \in BOOLEAN, ReplyFails(e, a)
        PROVE  TypeOK'
    <3>1. ReleaseClaim(e) \/ UNCHANGED <<status, claims>>
      BY <2>19 DEF ReplyFails
    <3>2. status' \in [Events -> Statuses]
      BY <3>1, ReleaseEffect
    <3>3. told' \in [Events -> SUBSET Notices]
      BY <2>19 DEF ReplyFails, Post
    <3>4. /\ stage' = [stage EXCEPT ![e] = "none"]
          /\ pending' = [pending EXCEPT ![e] = "none"]
          /\ holder' \in [Sessions -> Events \cup {NoEvent}]
      BY <2>19 DEF ReplyFails, End, GoTo
    <3>5. UNCHANGED <<platform, link, turns, mismatched, recoveryVars, config, startVars>>
      BY <2>19 DEF ReplyFails
    <3> HIDE DEF ListsOK
    <3> QED
      BY <3>2, <3>3, <3>4, <3>5
  <2>20. ASSUME NEW e \in Events, RecordVerdict(e)
        PROVE  TypeOK'
    BY <2>20 DEF RecordVerdict, CanRecord, Record, Recorded, End, GoTo
  <2>21. ASSUME NEW e \in Events, LedgerRefuses(e)
        PROVE  TypeOK'
    BY <2>21 DEF LedgerRefuses, CanRecord, End, GoTo
  <2>22. ASSUME RecoveryLoad
        PROVE  TypeOK'
    BY <2>22 DEF RecoveryLoad
  <2>23. ASSUME RecoverySkips
        PROVE  TypeOK'
    BY <2>23, FirstRecord DEF RecoverySkips, AtRecord, Passed
  <2>24. ASSUME RecoveryPosts
        PROVE  TypeOK'
    BY <2>24, FirstRecord DEF RecoveryPosts, AtRecord, Post, RestartNotice
  <2>25. ASSUME NEW a \in BOOLEAN, RecoveryPostFails(a)
        PROVE  TypeOK'
    <3>1. Head(todo).event \in Events
      BY <2>25, FirstRecord DEF RecoveryPostFails, AtRecord
    <3>2. told' \in [Events -> SUBSET Notices]
      BY <2>25, <3>1 DEF RecoveryPostFails, Post, RestartNotice
    <3> QED
      BY <2>25, <3>2 DEF RecoveryPostFails
  <2>26. ASSUME RecoveryRecords
        PROVE  TypeOK'
    BY <2>26, FirstRecord DEF RecoveryRecords, CanRecord, Record, Recorded, Passed, RestartNotice
  <2>27. ASSUME RecoveryAborts
        PROVE  TypeOK'
    BY <2>27 DEF RecoveryAborts
  <2>28. ASSUME NEW p \in SUBSET ConfigParts, ConfigReload(p)
        PROVE  TypeOK'
    BY <2>28 DEF ConfigReload
  <2>29. ASSUME NEW l \in BOOLEAN, CrashRestart(l)
        PROVE  TypeOK'
    BY <2>29 DEF CrashRestart
  <2>30. CASE UNCHANGED vars
    BY <2>30 DEF vars
  <2> HIDE ReplyAssumption DEF TypeOK
  <2> QED
    BY <2>1, <2>2, <2>3, <2>4, <2>5, <2>6, <2>7, <2>8, <2>9, <2>10, <2>11, <2>12, <2>13, <2>14,
       <2>15, <2>16, <2>17, <2>18, <2>19, <2>20, <2>21, <2>22, <2>23, <2>24, <2>25, <2>26, <2>27,
       <2>28, <2>29, <2>30 DEF Next, LinkStep, TaskStep, AgentEnds, RecoveryStep
<1> QED
  BY <1>1, <1>2, PTL DEF Spec

\* No step of the link, a task, recovery, a reload or a restart breaks IInv.
LEMMA StepKeepsIInv == TypeOK /\ TypeOK' /\ IInv /\ [Next]_vars => IInv'
<1> SUFFICES ASSUME TypeOK, TypeOK', IInv, [Next]_vars PROVE IInv'
  OBVIOUS
<1> USE ReplyAssumption DEF TypeOK, IInv, Running, AtMostOneTurn, LinkIsFresh, UnclaimedIsUntouched,
        StageFitsTurns, ToldFitsTurns, RecordFollowsText, RunnerHoldsLease, LeaseHasTask,
        VerdictWasTold, RestartNotice
<1>1. ASSUME NEW e \in Events, PlatformPost(e)
      PROVE  IInv'
  BY <1>1 DEF PlatformPost
<1>2. ASSUME NEW e \in Events, Receive(e)
      PROVE  IInv'
  <2>1. CASE status[e] = "none"
    <3>1. link' = [at |-> "acking", event |-> e, claimed |-> TRUE]
      BY <1>2, <2>1 DEF Receive
    <3>2. status' = [status EXCEPT ![e] = "claimed_before_submit"]
      BY <1>2, <2>1 DEF Receive
    <3>3. UNCHANGED <<stage, pending, holder, turns, told, mismatched, todo, noticed>>
      BY <1>2 DEF Receive
    <3>4. turns[e] = 0 /\ stage[e] = "none" /\ "failed" \notin told[e]
      BY <2>1
    <3>5. LinkIsFresh'
      BY <3>1, <3>2, <3>3, <3>4
    <3>6. /\ AtMostOneTurn'
          /\ UnclaimedIsUntouched'
          /\ StageFitsTurns'
          /\ ToldFitsTurns'
      BY <3>2, <3>3
    <3>7. RecordFollowsText' /\ RunnerHoldsLease' /\ LeaseHasTask' /\ VerdictWasTold'
      BY <3>2, <3>3
    <3> QED
      BY <3>5, <3>6, <3>7
  <2>2. CASE status[e] # "none"
    <3>1. link' = [at |-> "acking", event |-> e, claimed |-> FALSE]
      BY <1>2, <2>2 DEF Receive
    <3>2. \A f \in Events : status'[f] = status[f]
      BY <1>2, <2>2 DEF Receive
    <3>3. UNCHANGED <<stage, pending, holder, turns, told, mismatched, todo, noticed>>
      BY <1>2 DEF Receive
    <3> QED
      BY <3>1, <3>2, <3>3
  <2> QED
    BY <2>1, <2>2
<1>3. ASSUME NEW a \in BOOLEAN, AckSucceeds(a)
      PROVE  IInv'
  BY <1>3 DEF AckSucceeds, Acknowledged
<1>4. ASSUME NEW a \in BOOLEAN, AckFails(a)
      PROVE  IInv'
  BY <1>4 DEF AckFails, Acknowledged
<1>5. ASSUME Dispatch
      PROVE  IInv'
  BY <1>5 DEF Dispatch
<1>6. ASSUME NEW e \in Events, WorkerStarts(e)
      PROVE  IInv'
  BY <1>6 DEF WorkerStarts, GoTo
<1>7. ASSUME NEW e \in Events, WorkerSkips(e)
      PROVE  IInv'
  <2>1. ReleaseClaim(e)
    BY <1>7 DEF WorkerSkips
  <2> QED
    BY <1>7, <2>1, ReleaseEffect DEF WorkerSkips, End, GoTo
<1>8. ASSUME NEW e \in Events, FailsBeforeSubmit(e)
      PROVE  IInv'
  BY <1>8 DEF FailsBeforeSubmit, Answer, GoTo
<1>9. ASSUME NEW e \in Events, TurnStart(e)
      PROVE  IInv'
  BY <1>9 DEF TurnStart, GoTo
<1>10. ASSUME NEW e \in Events, TurnStartSendFails(e)
      PROVE  IInv'
  BY <1>10 DEF TurnStartSendFails, Settle, GoTo
<1>11. ASSUME NEW e \in Events, TurnAccepted(e)
      PROVE  IInv'
  BY <1>11 DEF TurnAccepted, CanRecord, Record, Recorded, GoTo
<1>12. ASSUME NEW e \in Events, TurnLost(e)
      PROVE  IInv'
  BY <1>12 DEF TurnLost, Settle, GoTo
<1>13. ASSUME NEW e \in Events, FinalAnswer(e)
      PROVE  IInv'
  BY <1>13 DEF FinalAnswer, Settle, GoTo
<1>14. ASSUME NEW e \in Events, PollMismatch(e)
      PROVE  IInv'
  BY <1>14 DEF PollMismatch, Answer, GoTo
<1>15. ASSUME NEW e \in Events, RecordSubmitted(e)
      PROVE  IInv'
  BY <1>15 DEF RecordSubmitted, CanRecord, Record, Recorded, GoTo
<1>16. ASSUME NEW e \in Events, BusyStarts(e)
      PROVE  IInv'
  BY <1>16 DEF BusyStarts, Answer, GoTo
<1>17. ASSUME NEW e \in Events, BusySkips(e)
      PROVE  IInv'
  <2>1. ReleaseClaim(e)
    BY <1>17 DEF BusySkips
  <2> QED
    BY <1>17, <2>1, ReleaseEffect DEF BusySkips, End, GoTo
<1>18. ASSUME NEW e \in Events, ReplySent(e)
      PROVE  IInv'
  BY <1>18 DEF ReplySent, Post, GoTo
<1>19. ASSUME NEW e \in Events, NEW a \in BOOLEAN, ReplyFails(e, a)
      PROVE  IInv'
  <2>1. stage[e] = "replying" /\ pending[e] \in Notices
    BY <1>19 DEF ReplyFails
  <2>2. /\ UNCHANGED <<link, turns, mismatched, todo, noticed>>
        /\ told' = told \/ told' = [told EXCEPT ![e] = @ \cup {pending[e]}]
        /\ End(e)
    BY <1>19 DEF ReplyFails, Post
  <2>3. \/ UNCHANGED status
        \/ /\ pending[e] = "busy"
           /\ status' = [status EXCEPT ![e] = IF @ = "claimed_before_submit" THEN "none" ELSE @]
    BY <1>19, ReleaseEffect DEF ReplyFails
  <2>4. AtMostOneTurn' /\ LinkIsFresh'
    BY <2>1, <2>2, <2>3 DEF End, GoTo
  <2>5. UnclaimedIsUntouched' /\ StageFitsTurns'
    BY <2>1, <2>2, <2>3 DEF End, GoTo
  <2>6. ToldFitsTurns' /\ RunnerHoldsLease' /\ LeaseHasTask'
    BY <2>1, <2>2, <2>3 DEF End, GoTo
  <2>7. RecordFollowsText' /\ VerdictWasTold'
    <3>1. \A f \in Events : told[f] \subseteq told'[f]
      BY <2>2
    <3>2. noticed => Head(todo).event \in Events
      BY NoticedRecord
    <3>3. \A f \in Events : stage'[f] = "recording" => stage[f] = "recording" /\ pending'[f] = pending[f]
      BY <2>1, <2>2 DEF End, GoTo
    <3>4. \A f \in Events : status'[f] \in Verdicts => status'[f] = status[f]
      BY <2>3
    <3>5. RecordFollowsText'
      BY <2>2, <3>1, <3>2, <3>3
    <3>6. VerdictWasTold'
      BY <3>1, <3>4
    <3> QED
      BY <3>5, <3>6
  <2> QED
    BY <2>4, <2>5, <2>6, <2>7
<1>20. ASSUME NEW e \in Events, RecordVerdict(e)
      PROVE  IInv'
  BY <1>20 DEF RecordVerdict, CanRecord, Record, Recorded, End, GoTo
<1>21. ASSUME NEW e \in Events, LedgerRefuses(e)
      PROVE  IInv'
  BY <1>21 DEF LedgerRefuses, CanRecord, End, GoTo
<1>22. ASSUME RecoveryLoad
      PROVE  IInv'
  <2>1. ~noticed'
    BY <1>22, NoticedRecord DEF RecoveryLoad
  <2> QED
    BY <1>22, <2>1 DEF RecoveryLoad
<1>23. ASSUME RecoverySkips
      PROVE  IInv'
  BY <1>23 DEF RecoverySkips, AtRecord, Passed
<1>24. ASSUME RecoveryPosts
      PROVE  IInv'
  BY <1>24, FirstRecord DEF RecoveryPosts, AtRecord, Post
<1>25. ASSUME NEW a \in BOOLEAN, RecoveryPostFails(a)
      PROVE  IInv'
  <2>1. /\ UNCHANGED <<status, link, stage, pending, holder, turns, mismatched>>
        /\ ~noticed'
    BY <1>25 DEF RecoveryPostFails, AtRecord
  <2>2. Head(todo).event \in Events
    BY <1>25, FirstRecord DEF RecoveryPostFails, AtRecord
  <2>3. \A f \in Events : /\ told[f] \subseteq told'[f]
                          /\ \A m \in {"failed", "result"} : m \in told'[f] => m \in told[f]
    <3> DEFINE f == Head(todo).event
               n == RestartNotice(Head(todo).status)
    <3>1. f \in Events /\ n \in Notices \ {"failed", "result"}
      BY <2>2
    <3>2. told' = told \/ told' = [told EXCEPT ![f] = @ \cup {n}]
      BY <1>25 DEF RecoveryPostFails, Post
    <3>3. n \notin {"failed", "result"}
      BY <3>1
    <3> HIDE DEF f, n
    <3> QED
      BY <3>1, <3>2, <3>3
  <2> QED
    BY <2>1, <2>3
<1>26. ASSUME RecoveryRecords
      PROVE  IInv'
  <2>1. PICK f \in Events, n \in Notices :
            /\ n \in told[f] /\ status[f] # "none"
            /\ status' = [status EXCEPT ![f] = Recorded(@, VerdictOf[n])]
    BY <1>26, NoticedRecord DEF RecoveryRecords, CanRecord, Record
  <2>2. /\ UNCHANGED <<link, stage, pending, holder, turns, told, mismatched>>
        /\ ~noticed'
    BY <1>26 DEF RecoveryRecords
  <2> QED
    BY <2>1, <2>2 DEF Recorded
<1>27. ASSUME RecoveryAborts
      PROVE  IInv'
  BY <1>27 DEF RecoveryAborts
<1>28. ASSUME NEW p \in SUBSET ConfigParts, ConfigReload(p)
      PROVE  IInv'
  BY <1>28 DEF ConfigReload
<1>29. ASSUME NEW l \in BOOLEAN, CrashRestart(l)
      PROVE  IInv'
  BY <1>29 DEF CrashRestart
<1>30. CASE UNCHANGED vars
  BY <1>30 DEF vars
<1> HIDE DEF TypeOK, IInv
<1> QED
  BY <1>1, <1>2, <1>3, <1>4, <1>5, <1>6, <1>7, <1>8, <1>9, <1>10, <1>11, <1>12, <1>13, <1>14,
     <1>15, <1>16, <1>17, <1>18, <1>19, <1>20, <1>21, <1>22, <1>23, <1>24, <1>25, <1>26, <1>27,
     <1>28, <1>29, <1>30 DEF Next, LinkStep, TaskStep, AgentEnds, RecoveryStep

\* IInv holds in every reachable state.
THEOREM Invariance == Spec => []IInv
<1>1. Init => IInv
  BY ReplyAssumption
     DEF Init, IInv, Running, AtMostOneTurn, LinkIsFresh, UnclaimedIsUntouched, StageFitsTurns,
         ToldFitsTurns, RecordFollowsText, RunnerHoldsLease, LeaseHasTask, VerdictWasTold
<1>2. TypeOK /\ TypeOK' /\ IInv /\ [Next]_vars => IInv'
  BY StepKeepsIInv
<1> QED
  BY <1>1, <1>2, TypeCorrect, PTL DEF Spec

\* A reply reaches the agent at most once, however often the platform delivers
\* it and however often the service restarts.
THEOREM TurnAtMostOnce == Spec => []AtMostOneTurn
<1>1. IInv => AtMostOneTurn
  BY DEF IInv
<1> QED
  BY <1>1, Invariance, PTL

\* The scope guard keeps two replies to one session from running together.
THEOREM SessionExclusion == Spec => []OneRunnerPerSession
<1>1. IInv => OneRunnerPerSession
  BY DEF IInv, RunnerHoldsLease, OneRunnerPerSession
<1> QED
  BY <1>1, Invariance, PTL

\* A lease is always held by a live task of its session.
THEOREM LeasesAreLive == Spec => []LeaseHasTask
<1>1. IInv => LeaseHasTask
  BY DEF IInv
<1> QED
  BY <1>1, Invariance, PTL

\* The ledger's verdict follows a text that says the same.
THEOREM VerdictFollowsText == Spec => []VerdictWasTold
<1>1. IInv => VerdictWasTold
  BY DEF IInv
<1> QED
  BY <1>1, Invariance, PTL

\* "Could not forward" is said of a reply that reached the agent only when its
\* turn was given up for a status poll that answered for another thread, and an
\* answer is posted only for a reply that reached the agent.
THEOREM FailureNoticesAreTrue == Spec => []FailureNoticeIsTrue
<1>1. IInv => FailureNoticeIsTrue
  <2> SUFFICES ASSUME ToldFitsTurns, NEW e \in Events
               PROVE  /\ "failed" \in told[e] => turns[e] = 0 \/ e \in mismatched
                      /\ "result" \in told[e] => turns[e] # 0
    BY DEF IInv, FailureNoticeIsTrue
  <2> QED
    BY DEF ToldFitsTurns
<1> QED
  BY <1>1, Invariance, PTL

-----------------------------------------------------------------------------

\* Nothing is owned, run or told at the beginning.
LEMMA InitImplementsOnce == Init => Once!Init
BY DEF Init, Once!Init, Phases, PhaseOf

\* Equal inputs give equal mapped values.
LEMMA SameMapping == UNCHANGED status => UNCHANGED Phases
BY DEF Phases

\* A step that leaves the ledger, the turns and the told texts alone is a stutter.
LEMMA QuietStep ==
    ASSUME UNCHANGED <<status, turns, told>>
    PROVE  UNCHANGED Once!vars
BY SameMapping DEF Once!vars

\* Receiving an event is taking ownership of it, or nothing.
LEMMA OwnStep ==
    ASSUME TypeOK, NEW e \in Events, Receive(e)
    PROVE  Once!Own(e) \/ UNCHANGED Once!vars
<1>1. UNCHANGED <<told, turns>>
  BY DEF Receive
<1>2. CASE status[e] = "none"
  <2>1. Phases[e] = "unowned" /\ Phases' = [Phases EXCEPT ![e] = "owned"]
    BY <1>2 DEF Receive, Phases, PhaseOf, TypeOK
  <2> QED
    BY <1>1, <2>1 DEF Once!Own
<1>3. CASE status[e] # "none"
  <2>1. UNCHANGED Phases
    BY <1>3 DEF Receive, Phases, TypeOK
  <2> QED
    BY <1>1, <2>1 DEF Once!vars
<1> QED
  BY <1>2, <1>3

\* Releasing a record gives the reply back, or does nothing.
LEMMA ReleasedPhases ==
    ASSUME TypeOK, NEW e \in Events, ReleaseClaim(e)
    PROVE  \/ Phases[e] = "owned" /\ Phases' = [Phases EXCEPT ![e] = "unowned"]
           \/ UNCHANGED Phases
<1>1. CASE status[e] = "claimed_before_submit"
  <2>1. status' = [status EXCEPT ![e] = "none"]
    BY <1>1, ReleaseEffect DEF TypeOK
  <2> QED
    BY <1>1, <2>1 DEF Phases, PhaseOf, TypeOK
<1>2. CASE status[e] # "claimed_before_submit"
  BY <1>2, ReleaseEffect DEF Phases, TypeOK
<1> QED
  BY <1>1, <1>2

\* A step that releases a claim and changes nothing else gives the reply back.
LEMMA GiveBackStep ==
    ASSUME TypeOK, IInv, NEW e \in Events, WorkerSkips(e) \/ BusySkips(e)
    PROVE  Once!GiveBack(e) \/ UNCHANGED Once!vars
<1>1. ReleaseClaim(e) /\ UNCHANGED <<told, turns>>
  BY DEF WorkerSkips, BusySkips
<1>2. turns[e] = 0
  BY DEF WorkerSkips, BusySkips, IInv, StageFitsTurns
<1> QED
  BY <1>1, <1>2, ReleasedPhases DEF Once!GiveBack, Once!vars

\* Sending turn/start is the one run of a reply the router owns.
LEMMA RunStep ==
    ASSUME TypeOK, IInv, NEW e \in Events, TurnStart(e)
    PROVE  Once!Run(e)
<1>1. UNCHANGED <<told, Phases>>
  BY SameMapping DEF TurnStart
<1>2. turns[e] = 0 /\ status[e] # "none"
  BY DEF TurnStart, IInv, StageFitsTurns, UnclaimedIsUntouched
<1>3. Phases[e] # "unowned"
  BY <1>2 DEF TypeOK, Phases, PhaseOf
<1>4. turns' = [turns EXCEPT ![e] = 1]
  BY <1>2 DEF TurnStart, TypeOK
<1> QED
  BY <1>1, <1>2, <1>3, <1>4 DEF Once!Run

\* Recording the submit boundary stays within "owned".
LEMMA BoundaryStep ==
    ASSUME TypeOK, NEW e \in Events, TurnAccepted(e) \/ RecordSubmitted(e)
    PROVE  UNCHANGED Once!vars
<1>1. UNCHANGED <<told, turns>>
  BY DEF TurnAccepted, RecordSubmitted
<1>2. UNCHANGED Phases
  <2>1. status[e] # "none"
    BY DEF TurnAccepted, RecordSubmitted, CanRecord
  <2>2. status' = [status EXCEPT ![e] = Recorded(@, "submitted_possible")]
    BY DEF TurnAccepted, RecordSubmitted, Record
  <2>3. \A f \in Events : PhaseOf(status'[f]) = PhaseOf(status[f])
    BY <2>1, <2>2 DEF Recorded, PhaseOf, TypeOK
  <2> QED
    BY <2>3 DEF Phases
<1> QED
  BY <1>1, <1>2 DEF Once!vars

\* Posting a text under a reply is telling, whoever posts it.
LEMMA TellStep ==
    ASSUME NEW e \in Events, NEW n \in Notices,
           Post(e, n), UNCHANGED <<status, turns>>, n = "result" => turns[e] = 1
    PROVE  Once!Tell(e, n)
<1>1. UNCHANGED Phases
  BY SameMapping
<1> QED
  BY <1>1 DEF Once!Tell, Post

\* Writing a verdict closes the reply, or leaves the first verdict in place.
LEMMA CloseStep ==
    ASSUME TypeOK, NEW e \in Events, NEW n \in Notices, n \in told[e],
           status[e] # "none", UNCHANGED <<turns, told>>,
           status' = [status EXCEPT ![e] = Recorded(@, VerdictOf[n])]
    PROVE  Once!Close(e, n) \/ UNCHANGED Once!vars
<1>1. UNCHANGED <<told, turns>>
  OBVIOUS
<1>2. CASE status[e] \in Verdicts
  <2>1. UNCHANGED Phases
    BY <1>2 DEF Recorded, Phases, TypeOK
  <2> QED
    BY <1>1, <2>1 DEF Once!vars
<1>3. CASE status[e] \notin Verdicts
  <2>1. status[e] \in Processing /\ VerdictOf[n] \in Verdicts
    BY <1>3 DEF TypeOK
  <2>2. status' = [status EXCEPT ![e] = VerdictOf[n]]
    BY <1>3 DEF Recorded
  <2>3. Phases[e] = "owned" /\ PhaseOf(VerdictOf[n]) = VerdictOf[n]
    BY <2>1 DEF Phases, PhaseOf
  <2>4. Phases' = [Phases EXCEPT ![e] = VerdictOf[n]]
    <3>1. \A d \in Events : status'[d] = IF d = e THEN VerdictOf[n] ELSE status[d]
      BY <2>2 DEF TypeOK
    <3>2. Phases' = [d \in Events |-> IF d = e THEN VerdictOf[n] ELSE Phases[d]]
      BY <2>3, <3>1 DEF Phases
    <3>3. Phases = [d \in Events |-> Phases[d]]
      BY DEF Phases
    <3> QED
      BY <3>2, <3>3
  <2> QED
    BY <1>1, <2>3, <2>4 DEF Once!Close, Once!VerdictOf
<1> QED
  BY <1>2, <1>3

\* A send that fails tells, gives back, does both, or changes nothing.
LEMMA ReplyFailsStep ==
    ASSUME TypeOK, IInv, NEW e \in Events, NEW a \in BOOLEAN, ReplyFails(e, a)
    PROVE  Once!Next \/ UNCHANGED Once!vars
<1>1. UNCHANGED turns /\ stage[e] = "replying" /\ pending[e] \in Notices
  BY DEF ReplyFails, TypeOK
<1>2. CASE pending[e] = "busy"
  <2>1. ReleaseClaim(e) /\ turns[e] = 0
    BY <1>1, <1>2 DEF ReplyFails, IInv, StageFitsTurns
  <2>2. CASE a
    <3>1. told' = [told EXCEPT ![e] = @ \cup {"busy"}]
      BY <1>2, <2>2 DEF ReplyFails, Post
    <3>2. Once!GiveBackTelling(e, "busy") \/ Once!Tell(e, "busy")
      BY <1>1, <2>1, <3>1, ReleasedPhases DEF Once!GiveBackTelling, Once!Tell, Once!VerdictOf
    <3> QED
      BY <3>2 DEF Once!Next, Once!Notices, Once!VerdictOf
  <2>3. CASE ~a
    <3>1. UNCHANGED told
      BY <2>3 DEF ReplyFails
    <3>2. Once!GiveBack(e) \/ UNCHANGED Once!vars
      BY <1>1, <2>1, <3>1, ReleasedPhases DEF Once!GiveBack, Once!vars
    <3> QED
      BY <3>2 DEF Once!Next
  <2> QED
    BY <2>2, <2>3
<1>3. CASE pending[e] # "busy"
  <2>1. UNCHANGED <<status, turns>>
    BY <1>3 DEF ReplyFails
  <2>2. CASE a
    <3>1. Post(e, pending[e])
      BY <2>2 DEF ReplyFails
    <3>2. pending[e] = "result" => turns[e] = 1
      BY <1>1 DEF IInv, StageFitsTurns
    <3>3. Once!Tell(e, pending[e])
      BY <1>1, <2>1, <3>1, <3>2, TellStep
    <3> QED
      BY <1>1, <3>3 DEF Once!Next, Once!Notices, Once!VerdictOf
  <2>3. CASE ~a
    BY <2>1, <2>3, SameMapping DEF ReplyFails, Once!vars
  <2> QED
    BY <2>2, <2>3
<1> QED
  BY <1>2, <1>3

\* Every step is a step of InboundOnce, or changes nothing it speaks of.
LEMMA NextImplementsOnce ==
    ASSUME TypeOK, IInv, [Next]_vars
    PROVE  Once!Next \/ UNCHANGED Once!vars
<1> DEFINE Quiet == UNCHANGED <<status, turns, told>>
<1>1. ASSUME NEW e \in Events, PlatformPost(e) \/ Receive(e)
      PROVE  Once!Next \/ UNCHANGED Once!vars
  <2>1. CASE PlatformPost(e)
    BY <2>1, QuietStep DEF PlatformPost
  <2>2. CASE Receive(e)
    BY <2>2, OwnStep DEF Once!Next
  <2> QED
    BY <1>1, <2>1, <2>2
<1>2. ASSUME NEW e \in Events, TaskStep(e)
      PROVE  Once!Next \/ UNCHANGED Once!vars
  <2>1. CASE WorkerStarts(e) \/ FailsBeforeSubmit(e) \/ TurnStartSendFails(e)
             \/ BusyStarts(e) \/ LedgerRefuses(e)
    <3>1. Quiet
      BY <2>1 DEF WorkerStarts, FailsBeforeSubmit, TurnStartSendFails, BusyStarts, LedgerRefuses
    <3> QED
      BY <3>1, QuietStep
  <2>2. CASE WorkerSkips(e) \/ BusySkips(e)
    BY <2>2, GiveBackStep DEF Once!Next
  <2>3. CASE TurnStart(e)
    BY <2>3, RunStep DEF Once!Next
  <2>4. CASE TurnAccepted(e) \/ RecordSubmitted(e)
    BY <2>4, BoundaryStep
  <2>5. CASE ReplySent(e)
    <3>1. pending[e] \in Notices /\ (pending[e] = "result" => turns[e] = 1)
      BY <2>5 DEF ReplySent, TypeOK, IInv, StageFitsTurns
    <3>2. Post(e, pending[e]) /\ UNCHANGED <<status, turns>>
      BY <2>5 DEF ReplySent
    <3>3. Once!Tell(e, pending[e])
      BY <3>1, <3>2, TellStep
    <3> QED
      BY <3>1, <3>3 DEF Once!Next, Once!Notices, Once!VerdictOf
  <2>6. CASE \E a \in BOOLEAN : ReplyFails(e, a)
    BY <2>6, ReplyFailsStep
  <2>7. CASE RecordVerdict(e)
    <3>1. pending[e] \in Notices /\ pending[e] \in told[e] /\ status[e] # "none"
      BY <2>7 DEF RecordVerdict, CanRecord, TypeOK, IInv, RecordFollowsText
    <3>2. /\ status' = [status EXCEPT ![e] = Recorded(@, VerdictOf[pending[e]])]
          /\ UNCHANGED <<turns, told>>
      BY <2>7 DEF RecordVerdict, Record
    <3>3. Once!Close(e, pending[e]) \/ UNCHANGED Once!vars
      BY <3>1, <3>2, CloseStep
    <3> QED
      BY <3>1, <3>3 DEF Once!Next, Once!Notices, Once!VerdictOf
  <2> QED
    BY <1>2, <2>1, <2>2, <2>3, <2>4, <2>5, <2>6, <2>7 DEF TaskStep
<1>3. ASSUME NEW e \in Events, AgentEnds(e)
      PROVE  Once!Next \/ UNCHANGED Once!vars
  <2>1. Quiet
    BY <1>3 DEF AgentEnds, TurnLost, FinalAnswer, PollMismatch
  <2> QED
    BY <2>1, QuietStep
<1>4. CASE LinkStep
  <2>1. Quiet
    BY <1>4 DEF LinkStep, Dispatch, AckSucceeds, AckFails
  <2> QED
    BY <2>1, QuietStep
<1>5. CASE RecoveryStep
  <2>1. CASE RecoveryLoad \/ RecoveryAborts \/ RecoverySkips
    <3>1. Quiet
      BY <2>1 DEF RecoveryLoad, RecoveryAborts, RecoverySkips
    <3> QED
      BY <3>1, QuietStep
  <2>2. CASE RecoveryRecords
    <3> DEFINE e == Head(todo).event
               n == RestartNotice(Head(todo).status)
    <3>1. e \in Events
      BY <2>2, NoticedRecord DEF RecoveryRecords, TypeOK
    <3>2. n \in Notices /\ n \in told[e] /\ status[e] # "none"
      BY <2>2 DEF RecoveryRecords, CanRecord, IInv, RecordFollowsText, RestartNotice
    <3>3. /\ status' = [status EXCEPT ![e] = Recorded(@, VerdictOf[n])]
          /\ UNCHANGED <<turns, told>>
      BY <2>2 DEF RecoveryRecords, Record
    <3> HIDE DEF e, n
    <3>4. Once!Close(e, n) \/ UNCHANGED Once!vars
      BY <3>1, <3>2, <3>3, CloseStep
    <3> QED
      BY <3>1, <3>2, <3>4 DEF Once!Next, Once!Notices, Once!VerdictOf
  <2>3. CASE RecoveryPosts \/ \E a \in BOOLEAN : RecoveryPostFails(a)
    <3> DEFINE e == Head(todo).event
               n == RestartNotice(Head(todo).status)
    <3>1. e \in Events
      BY <2>3, FirstRecord DEF RecoveryPosts, RecoveryPostFails, AtRecord, TypeOK
    <3>2. n \in Notices /\ n # "result"
      BY DEF RestartNotice
    <3>3. UNCHANGED <<status, turns>> /\ (Post(e, n) \/ UNCHANGED told)
      BY <2>3 DEF RecoveryPosts, RecoveryPostFails
    <3> HIDE DEF e, n
    <3>4. CASE Post(e, n)
      <4>1. Once!Tell(e, n)
        BY <3>1, <3>2, <3>3, <3>4, TellStep
      <4> QED
        BY <3>1, <3>2, <4>1 DEF Once!Next, Once!Notices, Once!VerdictOf
    <3>5. CASE UNCHANGED told
      BY <3>3, <3>5, QuietStep
    <3> QED
      BY <3>3, <3>4, <3>5
  <2> QED
    BY <1>5, <2>1, <2>2, <2>3 DEF RecoveryStep
<1>6. CASE (\E p \in SUBSET ConfigParts : ConfigReload(p)) \/ (\E l \in BOOLEAN : CrashRestart(l))
  <2>1. Quiet
    BY <1>6 DEF ConfigReload, CrashRestart
  <2> QED
    BY <2>1, QuietStep
<1>7. CASE UNCHANGED vars
  BY <1>7, QuietStep DEF vars
<1> QED
  BY <1>1, <1>2, <1>3, <1>4, <1>5, <1>6, <1>7 DEF Next

\* The whole machinery of claims, leases, notices and recovery keeps the
\* promise InboundOnce states.
THEOREM ImplementsOnce == Spec => OnceSpec
<1>1. TypeOK /\ IInv /\ [Next]_vars => [Once!Next]_(Once!vars)
  BY NextImplementsOnce
<1> QED
  BY <1>1, InitImplementsOnce, TypeCorrect, Invariance, PTL DEF Spec, OnceSpec, Once!Spec

=============================================================================
