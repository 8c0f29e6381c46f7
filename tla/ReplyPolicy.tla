----------------------------- MODULE ReplyPolicy -----------------------------
(***************************************************************************)
(* Who may answer a message from the chat.  Three parts of the program ask *)
(* it, each in its own way: the supervisor when it picks the apps to       *)
(* listen to, the runtime when it delivered a message, and the controller  *)
(* when a reply came in.  The catalogs say what a platform can do and      *)
(* which agent can go on with a session.                                   *)
(***************************************************************************)
EXTENDS RawConfig

CONSTANT NoSession      \* the signal, or the record, has none

ReceiptFields == {"account", "conversation", "message", "thread"}
ReplySurfaces == {"thread root", "message"}

OutboundOnly ==
    [inbound |-> "none", public |-> FALSE, stableId |-> FALSE, surfaces |-> {}, receipt |-> {}]
AnswersByConnection ==
    [inbound |-> "local connection", public |-> FALSE, stableId |-> TRUE,
     surfaces |-> {"thread root"}, receipt |-> ReceiptFields]

Capability(c) == IF c.type = "feishu_lark" /\ Mode(c.provider) = "app_bot"
                 THEN AnswersByConnection ELSE OutboundOnly

CanReply(p) == /\ p.inbound = "local connection" /\ ~p.public /\ p.stableId
               /\ p.surfaces \cap ReplySurfaces # {} /\ ReceiptFields \subseteq p.receipt

\* The program's own source is no agent; of the agents one has a controller.
Continues(source) == source = "codex_desktop"

\* The check of a delivered message and of a reply: receipt is what is known of the message.
PolicyAllows(c, source, session, receipt) ==
    /\ c.reply /\ CanReply(Capability(c)) /\ Continues(source)
    /\ session # NoSession /\ ReceiptFields \subseteq receipt

Exposed(c, source) == Continues(source) /\ CanReply(Capability(c)) /\ c.reply

\* The supervisor connects to an app that a route of the one agent leads to.
Listens(c) ==
    /\ c.type = "feishu_lark" /\ Mode(c.provider) = "app_bot"
    /\ "codex_desktop" \in c.sources \cap c.routed
    /\ Exposed(c, "codex_desktop")

\* What the hash of a route is of; the record of a message keeps it.
Route(c) == [sources |-> c.routed, minutes |-> c.minutes, projects |-> c.projects,
             reply |-> c.reply]

Surface(c, source, session) == [source |-> source, session |-> session, route |-> Route(c)]

MakesSurface(c, source, session, receipt) == PolicyAllows(c, source, session, receipt)

\* The route of the record must be there as it was; filters are then those the
\* message passed.
TakesReply(c, s) ==
    /\ s.source \in c.sources \cap c.routed
    /\ c.reply /\ s.route = Route(c)
    /\ PolicyAllows(c, s.source, s.session, ReceiptFields)
=============================================================================
