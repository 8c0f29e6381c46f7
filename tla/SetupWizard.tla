----------------------------- MODULE SetupWizard -----------------------------
(***************************************************************************)
(* The configs that the guided setup can make of an earlier one.  A prompt *)
(* shows what the earlier config has in the file itself, never what it     *)
(* takes from the environment: Enter keeps what is shown, "none" clears an *)
(* optional value, and what is typed is asked for again until it is well   *)
(* formed.  Each prompt, and then each provider's flow, is the set of      *)
(* functions it can contribute to the fields of the new provider.          *)
(***************************************************************************)
EXTENDS RawConfig

\* Not :> and @@ of the module TLC, about which nothing can be proved.
Field(f, v)  == [g \in {f} |-> v]
Beside(s, t) == [f \in DOMAIN s \cup DOMAIN t |-> IF f \in DOMAIN s THEN s[f] ELSE t[f]]

Shown(old, f)    == {old[g] : g \in {f} \cap DOMAIN old}
Required(old, f) == {Field(f, v) : v \in {"new"} \cup Shown(old, f)}
Optional(old, f) == {<<>>} \cup Required(old, f)
Nothing          == {<<>>}

Both(S, T)     == {Beside(s, t) : s \in S, t \in T}
Three(S, T, U) == Both(S, Both(T, U))

----------------------------------------------------------------------------
(* Webhooks and tokens. *)

\* The server is not asked for: it is the public one, whatever the earlier config had.
Ntfy(old) == Both({[server |-> "ntfy.sh"]}, Required(old, "topic"))

Webhook(old) == Required(old, "url")

Pushover(old) == Both(Both(Required(old, "app_token"), Required(old, "user_key")),
                      Both(Optional(old, "device"), Optional(old, "sound")))

Slack(old)   == Required(old, "url")
Discord(old) == Required(old, "url")

Telegram(old) == Both(Required(old, "bot_token"), Required(old, "chat_id"))

Whatsapp(old) == Three(Required(old, "access_token"), Required(old, "phone_number_id"),
                       Required(old, "recipient_phone_number"))

MicrosoftTeams(old) == Required(old, "url")

----------------------------------------------------------------------------
(* Feishu and Lark. *)

CustomBot(old) == Both(Required(old, "url"), Optional(old, "secret"))

\* The secret is not shown, but Enter keeps the one there is.
SelfBuiltApp(old) ==
    Both({[mode |-> "app_bot", domain |-> d] : d \in {"feishu", "lark"}},
         Both(Both(Required(old, "app_id"), Required(old, "app_secret")),
              Both(Required(old, "tenant_key"), Required(old, "chat_id"))))

PersonalFields == {"domain", "app_id", "app_secret", "operator_open_id"}

PersonalAgentIsThere(old) ==
    /\ Mode(old) = "app_bot" /\ "chat_id" \notin DOMAIN old
    /\ PersonalFields \subseteq DOMAIN old

\* An app is registered by a QR code; a tenant of Lark switches the domain.
Registered == Both({[app_id |-> "new", app_secret |-> "new", domain |-> d] :
                        d \in {"feishu", "lark"}},
                   Nothing \cup {[operator_open_id |-> "new"]})

PersonalAgent(old) ==
    Both({[mode |-> "app_bot", app_registration_source |-> "agents-router"]},
         IF PersonalAgentIsThere(old) THEN {[f \in PersonalFields |-> old[f]]} ELSE Registered)

FeishuLark(old) == CustomBot(old) \cup SelfBuiltApp(old) \cup PersonalAgent(old)

----------------------------------------------------------------------------
(* WeChat.  A recipient and its context token belong to the account of the  *)
(* token they were linked with: a link made now carries that token's name.  *)

Linked(token) == [recipient_user_id |-> token, context_token |-> token]

WechatLink == {"recipient_user_id", "context_token"}

\* Mutant of KeptLink: the link that is shown may be kept with any token.
KeptLinkAnyToken(old, token) ==
    IF WechatLink \subseteq DOMAIN old THEN {[f \in WechatLink |-> old[f]]} ELSE {}

\* The link may be kept when it is shown and the token is the same.
KeptLink(old, token) ==
    IF token \in Shown(old, "token") /\ WechatLink \subseteq DOMAIN old
    THEN {[f \in WechatLink |-> old[f]]} ELSE {}

\* A login by QR code gives the token, and may give another gateway.
WechatLogin(old) ==
    Both({[token |-> "scanned"]}, Required(old, "base_url") \cup {[base_url |-> "given"]})

WechatToken(old) == Both(Required(old, "token"), Required(old, "base_url"))

Wechat(old) ==
    Both(Optional(old, "route_tag"),
         UNION {Both({t}, {Linked(t.token)} \cup KeptLink(old, t.token)) :
                    t \in WechatLogin(old) \cup WechatToken(old)})

----------------------------------------------------------------------------
(* Email. *)

\* The port that is shown is the earlier one, whatever the security is now.
EmailServer(old) ==
    Both(Required(old, "host"),
         {[security |-> s, port |-> n] :
              s \in {"starttls", "implicit_tls"},
              n \in {"new"} \cup (IF "port" \in DOMAIN old THEN {old.port} ELSE {"default"})})

\* Mutant of EmailCredentials: the password is a prompt of its own.
EmailCredentialsApart(old) == Both(Optional(old, "username"), Optional(old, "password"))

\* A password is asked for with a username only.
EmailCredentials(old) ==
    Nothing \cup Both(Required(old, "username"), Required(old, "password"))

EmailSmtp(old) ==
    Both(Both(EmailServer(old), EmailCredentials(old)),
         Three(Required(old, "from"), Required(old, "to"), Optional(old, "reply_to")))

----------------------------------------------------------------------------
(* The whole config. *)

Provider(type, old) ==
    CASE type = "ntfy"            -> Ntfy(old)
      [] type = "feishu_lark"     -> FeishuLark(old)
      [] type = "webhook"         -> Webhook(old)
      [] type = "pushover"        -> Pushover(old)
      [] type = "slack"           -> Slack(old)
      [] type = "discord"         -> Discord(old)
      [] type = "telegram"        -> Telegram(old)
      [] type = "whatsapp"        -> Whatsapp(old)
      [] type = "wechat"          -> Wechat(old)
      [] type = "microsoft_teams" -> MicrosoftTeams(old)
      [] type = "email_smtp"      -> EmailSmtp(old)

AnswerDetails(type) == IF type \in Constrained THEN {"preview"} ELSE {"preview", "full"}
PromptDetails(type) == IF type \in Constrained THEN {"off"} ELSE {"off", "on"}

SupportsDuration(agent) == agent \in {"codex_desktop", "claude_code"}

\* Every task, five minutes, or a number of minutes, by default the one there was.
MinimumDurations(agent, olds) ==
    IF ~SupportsDuration(agent) THEN {{}}
    ELSE {{}, {5}, {7}} \cup {c.minutes : c \in {o \in olds : SupportsDuration(o.agent)}}

\* Mutant of BuildConfig: replies are switched on for every agent.
BuildConfigReplies(agent, type, provider, answer, prompt) ==
    [agent |-> agent, sources |-> {agent, "agents_router"}, routed |-> {agent, "agents_router"},
     type |-> type, provider |-> provider, answer |-> answer, prompt |-> prompt,
     minutes |-> {}, projects |-> {}, reply |-> Mode(provider) = "app_bot"]

BuildConfig(agent, type, provider, answer, prompt) ==
    [agent |-> agent, sources |-> {agent, "agents_router"}, routed |-> {agent, "agents_router"},
     type |-> type, provider |-> provider, answer |-> answer, prompt |-> prompt,
     minutes |-> {}, projects |-> {},
     reply |-> Mode(provider) = "app_bot" /\ agent = "codex_desktop"]

\* The project filter is kept without a prompt; a personal agent starts without one.
RouteFilters(c, minutes, olds) ==
    [c EXCEPT !.minutes = minutes,
              !.projects = IF "app_registration_source" \in DOMAIN c.provider THEN {}
                           ELSE UNION {o.projects : o \in olds}]

\* olds: the config there is, as a set of none or one.
GuidedProviderSetup(olds, agents, types) ==
    UNION {LET old == IF \E o \in olds : o.type = type
                      THEN (CHOOSE o \in olds : TRUE).provider ELSE <<>>
           IN  {RouteFilters(BuildConfig(agent, type, p, a, q), minutes, olds) :
                    p \in Provider(type, old), a \in AnswerDetails(type),
                    q \in PromptDetails(type), minutes \in MinimumDurations(agent, olds)}
           : agent \in agents, type \in types}

----------------------------------------------------------------------------
(* A config of the program's predecessor, whose own source had another name. *)

Renamed(ids) == {IF s = "agents_notifier" THEN "agents_router" ELSE s : s \in ids}

Normalized(c) == [c EXCEPT !.sources = Renamed(@), !.routed = Renamed(@)]
=============================================================================
