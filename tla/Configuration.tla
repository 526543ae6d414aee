--------------------------- MODULE Configuration ---------------------------
(***************************************************************************)
(* What the daemon and its commands make of config.toml.  A configuration  *)
(* is its log level, the connectors it has a section for (all of them      *)
(* enabled) and which of the fields that matter are empty.  The            *)
(* environment may replace fields; it gives them a value or empties them.  *)
(***************************************************************************)
EXTENDS Integers, Sequences

(* The sections and fields that validate() insists on.                     *)
Required ==
  [daemon   |-> {"node_id"},                soul     |-> {"endpoint"},
   feishu   |-> {"app_id", "app_secret"},   dingtalk |-> {"app_key", "app_secret"},
   wecom    |-> {"corp_id", "secret"},      email    |-> {"accounts"},
   notion   |-> {"integration_token"},      github   |-> {"repos"},
   rss      |-> {"feeds"},                  git      |-> {"repo_url", "local_path"},
   obsidian |-> {"vault_path"},             webhook  |-> {"listen"},
   slack    |-> {"bot_token"},              telegram |-> {"bot_token"},
   discord  |-> {"bot_token", "guild_id"},  teams    |-> {}]

(* Those of them that the environment may replace: all but Discord's.      *)
Overridable == [s \in DOMAIN Required |-> IF s = "discord" THEN {} ELSE Required[s]]

Fields(table, sections) == UNION {{<<s, f>> : f \in table[s]} : s \in sections}

(* validate(): Err.  What else it finds is a warning, which is printed.    *)
Fatal(config) ==
  config.blank \cap Fields(Required, config.sections \cup {"daemon", "soul"}) # {}

(* apply_env_overrides(): a section that is not in the file stays out.     *)
Overridden(config, env) ==
  LET within == Fields(Overridable, config.sections \cup {"daemon", "soul"})
  IN  [config EXCEPT
         !.level = IF env.level = "unset" THEN @ ELSE env.level,
         !.blank = (@ \ (env.given \cap within)) \cup (env.erased \cap within)]

(* load(): a file that is not there or does not parse is an error; what    *)
(* the values mean is not looked at.                                       *)
Loads(file) == file.text = "toml"

Load(file, env) == IF Loads(file) THEN Overridden(file, env) ELSE file

(* The file that --init writes.                                            *)
DefaultFile == [text |-> "toml", level |-> "info", sections |-> {}, blank |-> {}]
NoFile      == [text |-> "absent", level |-> "info", sections |-> {}, blank |-> {}]
============================================================================
