------------------------------ MODULE MCReply ------------------------------
(***************************************************************************)
(* Small instances of ReplyContinuation: two replies to one session, so    *)
(* that the second meets the lease of the first.                           *)
(***************************************************************************)
EXTENDS ReplyContinuation

CONSTANTS e1, e2, s1

OneSession == [e \in Events |-> s1]

NoFaults == {}

\* The faults of the two passing runs: together, all of them.
ReloadsAndPolls == {"reload", "poll_mismatch"}
AllButReloads == AllFaults \ {"reload"}
=============================================================================
