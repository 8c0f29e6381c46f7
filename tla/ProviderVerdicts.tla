-------------------------- MODULE ProviderVerdicts --------------------------
(***************************************************************************)
(* How the adapter of each provider reads the platform's answer to a       *)
(* message: as sent or as failed.                                          *)
(*                                                                         *)
(* An answer is its status and what its body says.  "half" is a refusal in *)
(* which a field that tells of it is absent; "text" is a body in another   *)
(* form, like the page of a proxy.  There is no answer when the message    *)
(* was too long to be posted, the request failed, or the body could not be *)
(* read; the message may have arrived all the same.                        *)
(***************************************************************************)

Answers == [status : {"none"}, body : {"none"}, taken : BOOLEAN]
             \cup [status : {"rejected"}, body : {"refuses", "text"}, taken : {FALSE}]
             \cup [status : {"success"}, body : {"refuses", "half", "text"}, taken : {FALSE}]
             \cup [status : {"success"}, body : {"accepts"}, taken : {TRUE}]

Bodies == {"accepts", "refuses", "half", "text"}

\* The bodies each adapter takes for success.  The first three look at none.
Webhook        == Bodies
Ntfy           == Bodies
MicrosoftTeams == Bodies
\* The word "ok".
Slack          == {"accepts"}
\* A message with its id.
Discord        == {"accepts"}
\* "ok" is true.
Telegram       == {"accepts"}
\* Any object: the list of messages, if it is there, gives their ids.
Whatsapp       == {"accepts", "refuses", "half"}
\* Whatever does not parse as an object with both codes, and codes that are zero.
Wechat         == {"accepts", "half", "text"}
\* The status in the body is 1.
Pushover       == {"accepts"}
\* The code is zero.
FeishuLark     == {"accepts"}
\* The server's reply is positive.
EmailSmtp      == {"accepts"}

Welcome == [webhook |-> Webhook, ntfy |-> Ntfy, microsoft_teams |-> MicrosoftTeams,
            slack |-> Slack, discord |-> Discord, telegram |-> Telegram,
            whatsapp |-> Whatsapp, wechat |-> Wechat, pushover |-> Pushover,
            feishu_lark |-> FeishuLark, email_smtp |-> EmailSmtp]
Types == DOMAIN Welcome

\* Mutant of Sent: the body is not looked at.
SentByStatus(type, answer) == answer.status = "success"

Sent(type, answer) == answer.status = "success" /\ answer.body \in Welcome[type]

\* The providers whose word can be relied on.
Exact == {"slack", "discord", "telegram", "pushover", "feishu_lark", "email_smtp"}
=============================================================================
