------------------------------ MODULE MCDaemon ------------------------------
(***************************************************************************)
(* The process and the pipeline in it, for TLC: one of the two runs,       *)
(* chosen at the start, and the other stays in an initial state of its     *)
(* own.                                                                    *)
(*                                                                         *)
(* Of the pipeline's events p and q share a key without sharing their      *)
(* content, with a sample of one block, and t is cut to q; u has the       *)
(* payload of p but not its source; n has no source and is u once          *)
(* normalised; o is too large.                                             *)
(***************************************************************************)
EXTENDS Pipeline, Daemon, TLC

VARIABLE part

CONSTANTS p, q, t, n, u, o, s, x, y

mcEvent     == {p, q, t, n, u, o}
mcBlock     == {x, y}
mcSource    == {s, Unknown}
mcSourceOf  == (n :> NoSource) @@ (u :> Unknown) @@ [e \in mcEvent |-> s]
mcPayloadOf ==
  (p :> <<x>>) @@ (q :> <<x, y>>) @@ (t :> <<x, y, y>>)
    @@ (n :> <<x>>) @@ (u :> <<x>>) @@ (o :> <<x, x, x, x, x>>)

(***************************************************************************)
(* Files that can and that cannot be loaded, with levels that can and that *)
(* cannot be set, with and without an error of the Feishu section; an      *)
(* environment that leaves all as it is, and one that takes the level and  *)
(* the node id and gives the missing secret.                               *)
(***************************************************************************)
File(level, sections, blank) ==
  [text |-> "toml", level |-> level, sections |-> sections, blank |-> blank]

mcFiles ==
  {DefaultFile, NoFile, [DefaultFile EXCEPT !.text = "garbled"],
   File("debug", {"feishu"}, {<<"feishu", "app_secret">>}), File("loud=", {}, {})}

mcEnvs ==
  {[level |-> "unset", given |-> {}, erased |-> {}],
   [level |-> "warn",  given |-> {<<"feishu", "app_secret">>},
                       erased |-> {<<"daemon", "node_id">>}]}

mcInvocations ==
  {{"version"}, {"init"}, {"doctor", "validate"}, {"validate"}, {"connectors"},
   {"self-test"}, {"test-connector"}, {"status"}, {"tail", "top"}, {"top"}, {"import"}}

allVars == <<vars, daemonVars, part>>

MCInit ==
  /\ part \in {"pipeline", "daemon"}
  /\ Init
  /\ DaemonInit /\ file = DefaultFile
  /\ absolute \/ (workers = 2 /\ part = "daemon")
  /\ part # "daemon" => workers = 2 /\ env = CHOOSE e \in Envs : TRUE

MCNext ==
  /\ UNCHANGED part
  /\ \/ part = "pipeline" /\ Next       /\ UNCHANGED daemonVars
     \/ part = "daemon"   /\ DaemonNext /\ UNCHANGED vars

(* The fairness of each part's own specification, while it runs. *)
MCSpec ==
  /\ MCInit /\ [][MCNext]_allVars
  /\ WF_vars(part = "pipeline" /\ Process)
  /\ WF_vars(part = "pipeline" /\ Forward)
  /\ WF_vars(part = "pipeline" /\ Take)
  /\ WF_daemonVars(part = "daemon" /\ MainStep)
  /\ WF_daemonVars(part = "daemon" /\ CacheDropped)
  /\ WF_daemonVars(part = "daemon" /\ RuntimeDropped)
  /\ WF_daemonVars(part = "daemon" /\ WatchStarts)
  /\ WF_daemonVars(part = "daemon" /\ Reload)
  /\ WF_daemonVars(part = "daemon" /\ SetLevel)

(* The types of both parts. *)
NodeTypeOK == part \in {"pipeline", "daemon"} /\ TypeOK /\ DaemonTypeOK
=============================================================================
