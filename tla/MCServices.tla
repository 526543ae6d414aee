----------------------------- MODULE MCServices -----------------------------
(***************************************************************************)
(* The parts of the daemon that keep a state of their own and share none   *)
(* with the others, for TLC: one of them runs, chosen at the start, and    *)
(* the others stay in an initial state of theirs.                          *)
(*                                                                         *)
(* Of poll loops there are two: "poll" has all that may disturb a breaker, *)
(* a token timer, unrecorded answers and manual resets; "plain" has none   *)
(* of it, like the loops of rss, slack, email and telegram.                *)
(***************************************************************************)
EXTENDS PollLoop, Plugins, RateLimiter, ConnectorHealth, Webhook, LogBuffer, Console,
        Tagging

VARIABLE part

Parts == {"poll", "plain", "plugins", "limiter", "health", "webhook", "log", "console",
          "tagging"}

Plain == INSTANCE PollLoop
  WITH RefreshesToken <- FALSE, SilentWhenEmpty <- FALSE, CanReset <- FALSE

mcOrder  == <<"feishu", "telegram", "slack">>
mcLimits == {l \in Presets : l.max <= 5}

allVars == <<vars, pluginVars, limiterVars, healthVars, webhookVars, logVars,
             consoleVars, tagVars, part>>

MCInit ==
  /\ part \in Parts
  /\ Init
  /\ PluginsInit /\ (part # "plugins" => sense = "none")
  /\ LimiterInit /\ (part # "limiter" => limit = CHOOSE l \in Limits : TRUE)
  /\ HealthInit  /\ (part # "health" => up = [c \in ConnectorNames |-> TRUE])
  /\ WebhookInit
  /\ LogInit
  /\ ConsoleInit
  /\ TaggingInit
  /\ part # "tagging" => event \in FileEvents /\ empty = {} /\ settings = {}

RestExcept(p) ==
  /\ p \notin {"poll", "plain"} => UNCHANGED vars
  /\ p # "plugins" => UNCHANGED pluginVars
  /\ p # "limiter" => UNCHANGED limiterVars
  /\ p # "health"  => UNCHANGED healthVars
  /\ p # "webhook" => UNCHANGED webhookVars
  /\ p # "log"     => UNCHANGED logVars
  /\ p # "console" => UNCHANGED consoleVars
  /\ p # "tagging" => UNCHANGED tagVars

MCNext ==
  /\ UNCHANGED part
  /\ \/ part = "poll"    /\ Next        /\ RestExcept("poll")
     \/ part = "plain"   /\ Plain!Next  /\ RestExcept("plain")
     \/ part = "plugins" /\ PluginsNext /\ RestExcept("plugins")
     \/ part = "limiter" /\ LimiterNext /\ RestExcept("limiter")
     \/ part = "health"  /\ HealthNext  /\ RestExcept("health")
     \/ part = "webhook" /\ WebhookNext /\ RestExcept("webhook")
     \/ part = "log"     /\ LogNext     /\ RestExcept("log")
     \/ part = "console" /\ ConsoleNext /\ RestExcept("console")
     \/ part = "tagging" /\ TaggingNext /\ RestExcept("tagging")

(* The fairness of each part's own specification, while it runs. *)
MCSpec ==
  /\ MCInit /\ [][MCNext]_allVars
  /\ WF_vars(part = "plain" /\ StartPoll)
  /\ WF_vars(part = "plain" /\ Answer)
  /\ WF_vars(part = "plain" /\ Pass)
  /\ \A c \in Callers : SF_pluginVars(part = "plugins" /\ CallGoesOn(c))
  /\ WF_healthVars(part = "health" /\ Ping)
  /\ \A v \in Visitors : WF_consoleVars(part = "console" /\ Serves(v))

-----------------------------------------------------------------------------
(* The types of all parts. *)
ServicesTypeOK ==
  /\ part \in Parts
  /\ TypeOK /\ PluginsTypeOK /\ LimiterTypeOK /\ HealthTypeOK
  /\ WebhookTypeOK /\ LogTypeOK /\ ConsoleTypeOK /\ TaggingTypeOK

(***************************************************************************)
(* A plain loop follows its upstream: its circuit closes for good once the *)
(* upstream is up for good, and opens again and again while it is down.    *)
(***************************************************************************)
FollowsUpstream == part = "plain" => Recovers /\ DownTrips

(* HealthConverges, asked of the health checks when they run. *)
HealthShown == part = "health" => HealthConverges
=============================================================================
