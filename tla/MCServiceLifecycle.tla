------------------------- MODULE MCServiceLifecycle -------------------------
(***************************************************************************)
(* GuidedSetup with each manager: commands alone, and beside each kind of  *)
(* trouble; and the setup, with every config it can begin with.            *)
(***************************************************************************)
EXTENDS GuidedSetup, TLC

All == {"start", "restart", "stop", "uninstall"}
Quiet == [commands |-> 2, may |-> All, watches |-> 0, deaths |-> 0, torn |-> 0, exits |-> 0,
          others |-> 0, failures |-> 0, updates |-> 0, agents |-> {}, types |-> {}]
Managers == {"launchd", "systemd", "tasks"}

Budgets == {
    [Quiet EXCEPT !.commands = 3, !.may = All \ {"uninstall"}],
    [Quiet EXCEPT !.deaths = 1],
    [Quiet EXCEPT !.failures = 1],
    [Quiet EXCEPT !.exits = 1, !.watches = 1],
    [Quiet EXCEPT !.commands = 1, !.torn = 1, !.others = 2, !.deaths = 1]}

Old(agent, type, provider) ==
    [BuildConfig(agent, type, provider, "preview", "off") EXCEPT !.projects = {"absolute"}]

OldNtfy == Old("codex_cli", "ntfy", [server |-> "own", topic |-> "old"])

NoLegacy == [home |-> "absent", elsewhere |-> FALSE, content |-> OldNtfy,
             service |-> "none", process |-> "none"]
Of(ids)  == {IF s = "agents_router" THEN "agents_notifier" ELSE s : s \in ids}
Valid    == [OldNtfy EXCEPT !.sources = Of(@), !.routed = Of(@)]
Invalid  == [Valid EXCEPT !.minutes = {0}]
Legacies == {NoLegacy,
             [NoLegacy EXCEPT !.home = "there", !.content = Valid, !.process = "agent"],
             [NoLegacy EXCEPT !.home = "there", !.elsewhere = TRUE, !.content = Valid,
                                !.service = "loaded", !.process = "agent"],
             [NoLegacy EXCEPT !.home = "there", !.content = Invalid],
             [NoLegacy EXCEPT !.home = "there", !.content = Valid, !.process = "other"]}

Configuring == [Quiet EXCEPT !.may = {"setup", "open", "stop"}, !.failures = 1, !.updates = 1,
                             !.agents = {"codex_cli"}, !.types = {"ntfy"}]

\* An error of "uninstall" is ignored, and a later command meets the process.
Again == [Configuring EXCEPT !.commands = 3, !.may = {"setup", "uninstall"}, !.updates = 0]

\* Every provider, after each kind of earlier config; every agent, and the apps with the one that can be answered.
Providers == Constrained \cup Unconstrained
Asking == [Quiet EXCEPT !.commands = 1, !.may = {"setup"}, !.types = Providers,
                        !.agents = {"codex_cli"}]
Feishu(p) == Old("codex_desktop", "feishu_lark", [domain |-> "feishu", app_id |-> "old"] @@ p)
Earliers == {NoConfig, OldNtfy,
    Old("codex_desktop", "feishu_lark", [url |-> "old", secret_env |-> "old"]),
    Feishu([mode |-> "app_bot", app_secret |-> "old", operator_open_id |-> "old",
            app_registration_source |-> "agents-router"]),
    Feishu([mode |-> "app_bot", app_secret |-> "old", app_registration_source |-> "agents-router"]),
    Feishu([mode |-> "app_bot", app_secret_env |-> "old", chat_id |-> "old",
            tenant_key |-> "old"]),
    Old("codex_cli", "wechat", [base_url |-> "old", recipient_user_id |-> "old", token |-> "old",
                                context_token |-> "old", route_tag |-> "old"]),
    Old("codex_cli", "wechat", [base_url |-> "old", recipient_user_id |-> "old",
                                token_env |-> "old", context_token |-> "old"]),
    Old("claude_code", "email_smtp",
        [host |-> "old", port |-> "old", security |-> "starttls", from |-> "old", to |-> "old",
         username |-> "old", password_env |-> "old"])}

MCScenarios ==
    {[manager |-> m, budget |-> b, config |-> OldNtfy, legacy |-> NoLegacy] :
        m \in Managers, b \in Budgets}
    \cup {[manager |-> m, budget |-> Configuring, config |-> NoConfig, legacy |-> l] :
        m \in Managers, l \in Legacies}
    \cup {[manager |-> m, budget |-> b, config |-> OldNtfy, legacy |-> l] :
        m \in Managers,
        b \in {Configuring, [Configuring EXCEPT !.failures = 0, !.deaths = 1], Again},
        l \in {NoLegacy}}
    \cup {[manager |-> "launchd", budget |-> Asking, config |-> c, legacy |-> NoLegacy] :
        c \in Earliers}
    \cup {[manager |-> "launchd", config |-> c, legacy |-> NoLegacy,
            budget |-> [Asking EXCEPT !.agents = {"claude_code", "codex_desktop", "codex_cli"},
                                      !.types = {"webhook", "slack"}]] : c \in Earliers}
    \cup {[manager |-> "launchd", config |-> c, legacy |-> NoLegacy,
            budget |-> [Asking EXCEPT !.agents = {"codex_desktop"}, !.types = {"feishu_lark"}]] :
        c \in Earliers}
=============================================================================
