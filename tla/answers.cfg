SPECIFICATION FairSpec
CONSTANTS
  Ours = ours
  Others = {other}
  NoTurn = noTurn
  MaxSaid = 2
  MaxQueue = 1
  TurnFaults = {"error", "refused", "unannounced", "closed", "unrecorded"}
  MinNew = 2
  MaxLate = 1
  CardFaults = {"lost", "unheard", "late"}
  ResultLen = 3
  NoticeLen = 1
INVARIANTS VerdictIsTrue AnswerReachesThread
PROPERTIES ViewSpec ReplyEnds
CHECK_DEADLOCK FALSE
