------------------------------ MODULE RawConfig ------------------------------
(***************************************************************************)
(* What the loader takes for a config.  A provider is a function from the  *)
(* fields that are set to their values: a field that is absent or blank    *)
(* is not in its domain.  That a single value is well formed is left out:  *)
(* the prompts of the setup ask again until the same validators agree.     *)
(***************************************************************************)
EXTENDS Naturals

\* Platforms that limit a message: their notifications are previews without a prompt.
Constrained   == {"ntfy", "pushover", "slack", "discord", "telegram", "whatsapp", "wechat",
                  "microsoft_teams"}
Unconstrained == {"webhook", "email_smtp", "feishu_lark"}

\* A value is in the config or in a variable of the environment that the config names.
EnvOf == [url |-> "url_env", secret |-> "secret_env", app_secret |-> "app_secret_env",
          app_token |-> "app_token_env", user_key |-> "user_key_env",
          bot_token |-> "bot_token_env", access_token |-> "access_token_env",
          token |-> "token_env", context_token |-> "context_token_env",
          username |-> "username_env", password |-> "password_env"]

RequiredSource(p, f) == (f \in DOMAIN p) # (EnvOf[f] \in DOMAIN p)
OptionalSource(p, f) == ~({f, EnvOf[f]} \subseteq DOMAIN p)
Given(p, f)          == {f, EnvOf[f]} \cap DOMAIN p # {}

CustomBotFields == {"url", "url_env", "secret", "secret_env"}
AppBotFields    == {"domain", "app_id", "app_secret", "app_secret_env", "operator_open_id",
                    "app_registration_source", "tenant_key", "chat_id"}

Mode(p) == IF "mode" \in DOMAIN p THEN p.mode ELSE "custom_bot"

FeishuLarkIsValid(p) ==
    \/ /\ Mode(p) = "custom_bot"
       /\ DOMAIN p \cap AppBotFields = {}
       /\ RequiredSource(p, "url") /\ OptionalSource(p, "secret")
    \/ /\ Mode(p) = "app_bot"
       /\ DOMAIN p \cap CustomBotFields = {}
       /\ {"domain", "app_id"} \subseteq DOMAIN p /\ RequiredSource(p, "app_secret")

ProviderIsValid(type, p) ==
    CASE type = "ntfy"        -> {"server", "topic"} \subseteq DOMAIN p
      [] type \in {"webhook", "slack", "discord", "microsoft_teams"} -> RequiredSource(p, "url")
      [] type = "feishu_lark" -> FeishuLarkIsValid(p)
      [] type = "pushover"    -> RequiredSource(p, "app_token") /\ RequiredSource(p, "user_key")
      [] type = "telegram"    -> RequiredSource(p, "bot_token") /\ "chat_id" \in DOMAIN p
      [] type = "whatsapp"    -> /\ RequiredSource(p, "access_token")
                                 /\ {"phone_number_id", "recipient_phone_number"} \subseteq DOMAIN p
      [] type = "wechat"      -> /\ RequiredSource(p, "token") /\ RequiredSource(p, "context_token")
                                 /\ {"base_url", "recipient_user_id"} \subseteq DOMAIN p
      [] type = "email_smtp"  -> /\ OptionalSource(p, "username") /\ OptionalSource(p, "password")
                                 /\ Given(p, "username") = Given(p, "password")
                                 /\ {"host", "port", "security", "from", "to"} \subseteq DOMAIN p

FiltersAreValid(c) == 0 \notin c.minutes /\ "relative" \notin c.projects

DetailIsSupported(c) ==
    c.type \in Constrained => c.answer # "full" /\ c.prompt # "on"

Validate(c) == /\ c.routed \subseteq c.sources
               /\ ProviderIsValid(c.type, c.provider)
               /\ FiltersAreValid(c)
               /\ DetailIsSupported(c)
=============================================================================
