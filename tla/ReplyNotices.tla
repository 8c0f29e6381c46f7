---------------------------- MODULE ReplyNotices ----------------------------
(***************************************************************************)
(* What the router can post under a chat reply, and the ledger verdict     *)
(* each text is followed by.  A text is a name here: its wording matters   *)
(* only in what it tells the person who replied.                           *)
(*                                                                         *)
(*   result          the agent's final answer                              *)
(*   failed          "Could not forward this reply ..." and its variants   *)
(*   busy            "This agent thread is still running. Reply again ..." *)
(*   unknown         "Codex received your reply, but ... will not retry"   *)
(*   restart_before  "... restarted before it could forward this reply     *)
(*                    to the agent. Please send it again."                 *)
(*   restart_after   "Codex may have received your reply, but ..."         *)
(***************************************************************************)

Verdicts == {"processed", "failed_notified", "submitted_unknown_notified"}

VerdictOf == [result         |-> "processed",
              failed         |-> "failed_notified",
              busy           |-> "failed_notified",
              restart_before |-> "failed_notified",
              unknown        |-> "submitted_unknown_notified",
              restart_after  |-> "submitted_unknown_notified"]

Notices == DOMAIN VerdictOf
=============================================================================
