--------------------------- MODULE MCNotifications ---------------------------
(***************************************************************************)
(* Notifications in scenes: the watch alone, with crashes, with prompts    *)
(* that are asked for or not, or with disturbances of the session files; a *)
(* storm of emitted messages, with the reset command; Stop hooks beside    *)
(* the watch, with changes of the config; turns of two Claude Code         *)
(* sessions, with a clock; and one message, every platform and every       *)
(* answer.                                                                 *)
(***************************************************************************)
EXTENDS Notifications

CONSTANTS m1, m2, c1, c2, x1, x2, x3, t1, t2

\* Turns 1 and 3 are in file 1, which is read first; turn 2 is in file 2.
MCFileOf == [t \in Turns |-> IF t = 2 THEN 2 ELSE 1]
MCTurnMessage == [t \in Turns |-> CASE t = 1 -> x1 [] t = 2 -> x2 [] OTHER -> x3]
To(kinds, targets) == [k \in Kinds |-> IF k \in kinds THEN targets ELSE <<>>]

Good == {[status |-> "success", body |-> "accepts", taken |-> TRUE]}
OnSlack == {[k \in Targets |-> "slack"]}

Still == [turns |-> {}, asked |-> {}, callers |-> {}, resets |-> FALSE, answers |-> Good, platforms |-> OnSlack,
          sources |-> {TRUE}, route |-> To({}, <<>>),
          waiting |-> 2, ticks |-> 0, crashes |-> 0, disturbances |-> 0, switches |-> 0]

MCScenes ==
    {[Still EXCEPT !.turns = Turns, !.crashes = 1],
     [Still EXCEPT !.turns = {1, 3}, !.asked = {1, 3}, !.platforms = {[k \in Targets |-> "webhook"]},
                   !.crashes = 1, !.disturbances = 2],
     [Still EXCEPT !.turns = Turns, !.disturbances = 1],
     [Still EXCEPT !.callers = {m1, m2}, !.ticks = 3, !.sources = {FALSE}, !.waiting = 1,
                   !.route = To({"emitted"}, <<t1>>)],
     [Still EXCEPT !.callers = {m1, m2}, !.resets = TRUE, !.ticks = 1, !.crashes = 1, !.sources = {FALSE},
                   !.waiting = 1, !.route = To({"emitted"}, <<t1>>)],
     [Still EXCEPT !.turns = {1}, !.callers = {x1}, !.sources = BOOLEAN, !.switches = 2, !.crashes = 1,
                   !.route = To({"codex_cli", "codex_desktop"}, <<t1>>)],
     [Still EXCEPT !.turns = {1, 2}, !.callers = {x1, x2}, !.sources = BOOLEAN, !.switches = 1,
                   !.route = To({"codex_cli", "codex_desktop"}, <<t1>>)],
     [Still EXCEPT !.turns = {1, 2}, !.callers = {x1, x2}, !.disturbances = 1,
                   !.route = To({"codex_cli", "codex_desktop"}, <<t1>>)],
     [Still EXCEPT !.callers = {c1, c2}, !.ticks = 2, !.crashes = 1, !.sources = {FALSE}],
     [Still EXCEPT !.callers = {m1}, !.answers = Answers, !.platforms = [Targets -> Types],
                   !.sources = {FALSE}, !.route = To({"emitted"}, <<t1, t2>>)]}
=============================================================================
