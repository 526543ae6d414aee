------------------------------ MODULE Tagging ------------------------------
(***************************************************************************)
(* What the pipeline writes on an event: normalisation, the marks for      *)
(* sense plugins, classification and enrichment, one after the other, on   *)
(* the tags its source has set.  The sources and the classifier agree on   *)
(* nothing but the words of source, event_type and tags.                   *)
(***************************************************************************)
EXTENDS Integers

VARIABLES
  event,     \* the event, as its source made it
  empty,     \* its tags that have no value
  settings,  \* what the configuration turns on
  stage,     \* where in the pipeline it is
  writer,    \* who wrote each of its tags
  class      \* class_type, once classified

tagVars == <<event, empty, settings, stage, writer, class>>

-----------------------------------------------------------------------------
(* The events of the connectors and collectors: source, type, own tags.    *)
Of(source, types, keys) == {[source |-> source, type |-> t, keys |-> keys] : t \in types}

AttendanceEvents ==
  Of("connector:dingtalk", {"attendance"}, {"platform", "type", "user_id", "check_type", "clock_result"})
WorkReportEvents ==
  Of("connector:dingtalk", {"work_report"}, {"platform", "type", "report_id", "creator", "title"})
ApprovalEvents ==
  Of("connector:dingtalk", {"approval"}, {"platform", "type", "status", "instance_id", "title"})
DiscordEvents == Of("discord", {"message"}, {"source", "channel", "author", "bot"})
EmailEvents   == Of("connector:email", {"email_message"}, {"connector", "account", "folder"})
FeishuEvents  == Of("connector:feishu", {"document"}, {"platform", "doc_id", "doc_type", "title"})
GitEvents ==
  Of("connector:git", {"document"}, {"platform", "file_path", "content_hash", "format", "title"})
GitDeletions == Of("connector:git", {"document_deleted"}, {"platform", "file_path", "action"})
IssueEvents ==
  Of("github:", {"github.issue", "github.pull_request"}, {"repo", "type", "author", "state", "url"})
ReleaseEvents == Of("github:", {"github.release"}, {"repo", "type", "tag", "author", "url"})
CommitEvents  == Of("github:", {"github.commit"}, {"repo", "type", "sha", "author", "url"})
CommentEvents ==
  Of("github:", {"github.review_comment"}, {"repo", "type", "author", "file", "url", "pr_url"})
NotionEvents   == Of("connector:notion", {"document"}, {"platform", "page_id", "title"})
ObsidianEvents ==
  Of("connector:obsidian", {"document"},
     {"platform", "file_path", "content_hash", "format", "wikilinks", "title"})
RssEvents   == Of("connector:rss", {"rss_entry"}, {"connector", "feed"})
SlackEvents ==
  Of("connector:slack", {"slack_message"},
     {"connector", "channel_id", "user_id", "user_name", "message_ts", "thread_ts", "is_reply", "reply_count"})
ReplyEvents ==
  Of("connector:slack", {"slack_thread_reply"},
     {"connector", "channel_id", "user_id", "user_name", "thread_ts", "is_reply"})
TeamsEvents == Of("teams", {"message"}, {"source", "team", "channel", "author", "sender", "system_event", "subject"})
CallbackEvents ==
  Of("connector:telegram", {"telegram_callback_query"}, {"connector", "update_type", "chat_id", "callback_data"})
TelegramEvents ==
  Of("connector:telegram",
     {"telegram_message", "telegram_edited_message", "telegram_channel_post",
      "telegram_edited_channel_post"},
     {"connector", "chat_id", "chat_type", "from", "media_type", "edited", "chat_title"})
WebhookEvents   == Of("connector:webhook", {"webhook_received"}, {"connector", "path"})
WecomEvents     == Of("connector:wecom", {"message"}, {"platform", "msg_type", "from_user", "msgid"})
ClipboardEvents == Of("clipboard", {"clipboard_change"}, {"content_hash", "content_length", "content_type", "preview"})
FileEvents      == Of("file:", {"file_change"}, {"filename", "extension", "directory"})
ConnectionEvents ==
  Of("network", {"network_new_connection"}, {"local", "remote", "protocol", "state", "pid", "change_type"})
ClosedEvents == Of("network", {"network_closed_connection"}, {"local", "remote", "protocol", "change_type"})
StateEvents  == Of("network", {"network_state_change"}, {"local", "remote", "old_state", "new_state", "change_type"})
ProcessEvents ==
  Of("process:", {"process_started", "process_resource_change"},
     {"pid", "name", "change_type", "cpu_usage", "memory_mb"})
ExitEvents == Of("process:", {"process_exited"}, {"pid", "name", "change_type"})

ChatEvents ==
  DiscordEvents \cup SlackEvents \cup ReplyEvents \cup TeamsEvents \cup TelegramEvents
    \cup CallbackEvents \cup WecomEvents
GithubEvents == IssueEvents \cup ReleaseEvents \cup CommitEvents \cup CommentEvents
DocEvents    == FeishuEvents \cup NotionEvents \cup GitEvents \cup GitDeletions \cup ObsidianEvents
WorkEvents   == AttendanceEvents \cup WorkReportEvents \cup ApprovalEvents
LocalEvents  ==
  ClipboardEvents \cup FileEvents \cup ConnectionEvents \cup ClosedEvents \cup StateEvents
    \cup ProcessEvents \cup ExitEvents
RawEvents    ==
  ChatEvents \cup GithubEvents \cup DocEvents \cup WorkEvents \cup LocalEvents
    \cup EmailEvents \cup RssEvents \cup WebhookEvents

TaggingInit ==
  /\ event \in RawEvents
  /\ empty \in {{}} \cup {{k} : k \in event.keys}
  /\ settings \in SUBSET {"sense", "classify", "enrich"}
  /\ stage = "normalize"
  /\ writer = [k \in event.keys |-> "source"]
  /\ class = "none"

-----------------------------------------------------------------------------
Writes(who, keys) ==
  writer' = [k \in DOMAIN writer \cup keys |-> IF k \in keys THEN who ELSE writer[k]]

(* normalize_event: tags without a value go.  (No source sets 64 tags.)    *)
Normalize ==
  /\ stage = "normalize" /\ stage' = "sense"
  /\ writer' = [k \in DOMAIN writer \ empty |-> writer[k]]
  /\ UNCHANGED <<event, empty, settings, class>>

(* process_sense: a file event that names a media file by file_path or     *)
(* path is marked.  (The file collector sets neither tag.)                 *)
MarkForSense ==
  /\ stage = "sense" /\ stage' = "classify"
  /\ IF "sense" \in settings /\ event.source = "file:" /\ {"file_path", "path"} \cap DOMAIN writer # {}
       THEN Writes("sense", {"sense_media_type", "sense_eligible"})
       ELSE UNCHANGED writer
  /\ UNCHANGED <<event, empty, settings, class>>

(* Mutant: the github: prefix is forgotten. *)
ConnectorsOnly(source) ==
  CASE source = "connector:git" -> "code"
    [] source \in {"connector:slack", "connector:telegram", "connector:feishu",
                   "connector:dingtalk", "connector:wecom", "discord", "teams"} -> "message"
    [] OTHER -> "generic"

(* classify_by_source: github: starts with git. *)
ClassifyBySource(source) ==
  CASE source \in {"connector:git", "github:"} -> "code"
    [] source \in {"connector:slack", "connector:telegram", "connector:feishu",
                   "connector:dingtalk", "connector:wecom", "discord", "teams"} -> "message"
    [] source \in {"connector:notion", "connector:obsidian"} -> "data"
    [] source \in {"connector:email", "connector:rss", "connector:webhook"} -> "notification"
    [] source = "process:"  -> "system"
    [] source = "network"   -> "network"
    [] source = "clipboard" -> "clipboard"
    [] OTHER -> "generic"

(* detect_content_type: the event type first; a file by its extension. *)
ContentTypes(e) ==
  CASE e.type = "file_change" -> {"data", "log", "config", "error", "generic"}
    [] e.type \in {"process_started", "process_exited", "process_resource_change"} -> {"system"}
    [] e.type \in {"network_new_connection", "network_closed_connection",
                   "network_state_change"} -> {"network"}
    [] e.type = "clipboard_change" -> {"clipboard"}
    [] e.type \in {"github.commit", "github.release", "github.review_comment"} -> {"code"}
    [] e.type \in {"email_message", "rss_entry", "webhook_received",
                   "telegram_callback_query"} -> {"notification"}
    [] e.type \in {"message", "slack_message", "slack_thread_reply", "telegram_message",
                   "telegram_edited_message", "telegram_channel_post",
                   "telegram_edited_channel_post"} -> {"message"}
    [] e.type = "approval" -> {"approval"}
    [] e.type \in {"attendance", "work_report"} -> {"notification"}
    [] e.type = "document" ->
         IF e.source \in {"connector:feishu", "connector:notion"} THEN {"data"} ELSE {"notification"}
    [] OTHER -> {ClassifyBySource(e.source)}

(* extract_labels: the tags that become labels; every connector: source    *)
(* has one too.                                                            *)
Labelled(e) ==
  \/ DOMAIN writer \cap {"extension", "state", "change_type", "protocol", "channel", "sender",
                         "chat_type", "from", "media_type", "update_type", "edited",
                         "approval_status"} # {}
  \/ e.source \notin {"github:", "discord", "teams", "clipboard", "file:", "network", "process:"}

(* Mutant: the tags are named without their prefix. *)
ClassTagsPlain == {"category", "content_type", "urgency"} \cup IF Labelled(event) THEN {"labels"} ELSE {}

(* The tags of apply_classification. *)
ClassTags ==
  {"class_category", "class_type", "class_urgency"} \cup IF Labelled(event) THEN {"class_labels"} ELSE {}

Classify ==
  /\ stage = "classify" /\ stage' = "enrich"
  /\ IF "classify" \in settings
       THEN class' \in ContentTypes(event) /\ Writes("class", ClassTags)
       ELSE UNCHANGED <<class, writer>>
  /\ UNCHANGED <<event, empty, settings>>

(* What enrich_event may find in a payload: each kind of tag, or none.     *)
EntityTags ==
  {"entity_url", "entity_email", "entity_ipaddress", "entity_filepath", "entity_phonenumber",
   "entity_datetime", "entity_hash", "entity_port", "entity_domain", "entity_macaddress",
   "entity_uuid", "entity_awsarn", "entity_creditcard", "entity_mention", "entity_hashtag",
   "entity_botcommand"}

Entities  == {{}, EntityTags}
Keywords  == {{}, {"keywords"}}
Summaries == {{}, {"summary"}}
Languages == {{}, {"language"}}

(* apply_enrichment: entities give way to a tag that is there, the others  *)
(* do not.                                                                 *)
Enrich ==
  /\ stage = "enrich" /\ stage' = "done"
  /\ IF "enrich" \in settings
       THEN \E e \in Entities, k \in Keywords, s \in Summaries, l \in Languages :
              Writes("enrich", (e \ DOMAIN writer) \cup k \cup s \cup l \cup {"word_count"})
       ELSE UNCHANGED writer
  /\ UNCHANGED <<event, empty, settings, class>>

TaggingNext == Normalize \/ MarkForSense \/ Classify \/ Enrich

TaggingSpec == TaggingInit /\ [][TaggingNext]_tagVars

-----------------------------------------------------------------------------
TaggingTypeOK ==
  /\ event \in RawEvents /\ stage \in {"normalize", "sense", "classify", "enrich", "done"}
  /\ \A k \in DOMAIN writer : writer[k] \in {"source", "sense", "class", "enrich"}

(***************************************************************************)
(* What the source said of its event is still there at the end: no later   *)
(* step writes over a tag that is not its own.                             *)
(***************************************************************************)
OwnTagsKept ==
  stage = "done" => \A k \in event.keys \ empty : k \in DOMAIN writer /\ writer[k] = "source"

(***************************************************************************)
(* Whatever words a source chose, what a reader would look for by class is *)
(* found there: chats are messages (but for button presses), GitHub's      *)
(* events are code, documents of Feishu and Notion are data, and none but  *)
(* files is generic.  Nothing is said of the other documents: those of Git *)
(* and Obsidian end as notifications.                                      *)
(***************************************************************************)
ClassFits ==
  class # "none" =>
    /\ event \in ChatEvents /\ event.type # "telegram_callback_query" => class = "message"
    /\ event \in GithubEvents => class = "code"
    /\ event \in FeishuEvents \cup NotionEvents => class = "data"
    /\ class = "generic" => event \in FileEvents

(* Why: no step takes a tag that is the source's, and the class is one the *)
(* classifier gives for the event.                                         *)
TagsInv ==
  /\ TaggingTypeOK
  /\ \A k \in event.keys \ empty : k \in DOMAIN writer /\ writer[k] = "source"
  /\ class # "none" => class \in ContentTypes(event)
=============================================================================
