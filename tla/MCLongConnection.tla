-------------------------- MODULE MCLongConnection --------------------------
(***************************************************************************)
(* Two apps, one of which only the second config serves; that config asks  *)
(* for a hook, the third is one the service refuses.                       *)
(***************************************************************************)
EXTENDS LongConnection

CONSTANTS A, B, Hook, Reply, Command, Garbled

OneApp  == [valid |-> TRUE, serves |-> <<A>>, hooks |-> <<>>]
TwoApps == [valid |-> TRUE, serves |-> <<A, B>>, hooks |-> <<Hook>>]
Wrong   == [valid |-> FALSE, serves |-> <<>>, hooks |-> <<>>]

MCConfigs == {OneApp, TwoApps, Wrong}
\* The config alone, the connection alone, and a little of both.
MCBudgets == {
    [writes |-> 2, edits |-> 1, failures |-> 1, starts |-> 2, sends |-> 0],
    [writes |-> 0, edits |-> 0, failures |-> 0, starts |-> 1, sends |-> 3],
    [writes |-> 0, edits |-> 0, failures |-> 0, starts |-> 2, sends |-> 2],
    [writes |-> 1, edits |-> 0, failures |-> 0, starts |-> 1, sends |-> 1]}

MCAppOf   == [e \in {Reply, Command, Garbled} |-> A]

=============================================================================
