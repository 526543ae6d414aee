---------------------------- MODULE MCConnectors ----------------------------
(***************************************************************************)
(* Instances of Connectors for TLC: three items; filters skip the first or *)
(* the second; the third belongs to the thread of the first for Slack, and *)
(* to the same fetch as the first for GitHub and DingTalk.                 *)
(***************************************************************************)
EXTENDS Connectors, TLC

mcAll     == {"slack", "telegram", "discord", "teams", "rss", "wecom",
              "dingtalk", "email", "github", "feishu", "notion"}
mcReplyTo == [m \in Item |-> IF m = 3 THEN 1 ELSE 0]
mcClassOf == [m \in Item |-> 1 + (m % 2)]
=============================================================================
