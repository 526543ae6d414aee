-------------------------- MODULE ServicesProofs --------------------------
(***************************************************************************)
(* Theorems about the parts of the daemon that keep a state of their own:  *)
(* the plugin registry, what the pipeline writes on an event, the locks of *)
(* the status server, the webhook receiver, the log buffer, the rate       *)
(* limiter and the health checks; and about all of them side by side.      *)
(***************************************************************************)
EXTENDS MCServices, PollLoopProofs, FiniteSetTheorems, SequenceTheorems, TLAPS

-----------------------------------------------------------------------------
(* The plugin registry. *)

LEMMA PluginsStart == PluginsInit => PluginsInv
<1> SUFFICES ASSUME PluginsInit PROVE PluginsInv
  OBVIOUS
<1> USE PluginsAssumption DEF PluginsInit
<1>1. PluginsTypeOK
  <2>1. instance \in 0 .. MaxInstances /\ MaxInstances \in Nat
    OBVIOUS
  <2>2. calls \in [Callers -> [at : Changing \cup {"idle", "handle", "handling", "handled", "failed"},
                               of : 0 .. MaxInstances]]
    BY <2>1 DEF NoCall
  <2>3. life \in [Instances -> {"new", "inited", "running", "stopped", "again"}]
    OBVIOUS
  <2>4. entryState = "unknown" <=> instance = 0
    OBVIOUS
  <2>5. QED
    BY <2>1, <2>2, <2>3, <2>4 DEF PluginsTypeOK
<1>2. \A c \in Callers : calls[c].at \notin Changing
  BY DEF Changing, NoCall
<1>3. OneChanges /\ ChangesItsEntry
  BY <1>2 DEF OneChanges, ChangesItsEntry
<1>4. ActiveIsRunning
  BY DEF ActiveIsRunning, Instances
<1>5. QED
  BY <1>1, <1>3, <1>4 DEF PluginsInv

(* The states the types speak of; what a step of one caller leaves alone.  *)
LEMMA PluginsTypes ==
  ASSUME PluginsTypeOK, NEW c \in Callers,
         Register(c) \/ Activate(c) \/ Deactivate(c) \/ Dispatch(c) \/ CallGoesOn(c) \/ Hangs(c)
  PROVE  PluginsTypeOK'
<1> USE PluginsAssumption
    DEF PluginsTypeOK, Changing, Instances, NoCall, Stands, MovesTo, Returns, Only, SetEntry
<1>1. CASE Register(c)
  BY <1>1 DEF Register, Overlaps
<1>2. CASE Activate(c)
  BY <1>2 DEF Activate, Overlaps
<1>3. CASE Deactivate(c)
  BY <1>3 DEF Deactivate, Overlaps
<1>4. CASE Dispatch(c)
  BY <1>4 DEF Dispatch
<1>5. CASE LockInit(c) \/ LockStart(c) \/ LockStop(c) \/ LockHandle(c) \/ Hangs(c)
  BY <1>5 DEF LockInit, LockStart, LockStop, LockToWrite, LockHandle, Hangs
<1>6. CASE Inited(c)
  BY <1>6 DEF Inited, AfterInit
<1>7. CASE Started(c)
  BY <1>7 DEF Started
<1>8. CASE InitOrStartFails(c)
  BY <1>8 DEF InitOrStartFails
<1>9. CASE Activated(c) \/ Deactivated(c)
  <2>1. CASE Activated(c)
    BY <2>1 DEF Activated
  <2>2. CASE Deactivated(c)
    BY <2>2 DEF Deactivated
  <2>3. QED
    BY <1>9, <2>1, <2>2
<1>10. CASE Stopped(c)
  BY <1>10 DEF Stopped
<1>11. CASE Handled(c)
  BY <1>11 DEF Handled
<1>12. CASE Counted(c)
  BY <1>12 DEF Counted
<1>13. QED
  BY <1>1, <1>2, <1>3, <1>4, <1>5, <1>6, <1>7, <1>8, <1>9, <1>10, <1>11, <1>12
  DEF CallGoesOn

(* One caller's step, when none overlap: the others' calls that change the *)
(* plugin stand where they stood, and so do the entry and its instance.    *)
LEMMA PluginsStep ==
  ASSUME PluginsInv, NEW c \in Callers,
         Register(c) \/ Activate(c) \/ Deactivate(c) \/ Dispatch(c) \/ CallGoesOn(c) \/ Hangs(c)
  PROVE  PluginsInv'
<1>1. PluginsTypeOK'
  BY PluginsTypes DEF PluginsInv
<1>2. SUFFICES ASSUME ~overlapped'
               PROVE  (OneChanges /\ ChangesItsEntry)' /\ ActiveIsRunning'
  BY <1>1 DEF PluginsInv, ActiveIsRunning
<1>3. ~overlapped /\ OneChanges /\ ChangesItsEntry /\ ActiveIsRunning /\ PluginsTypeOK
  <2>1. ~overlapped
    BY <1>2 DEF Register, Activate, Deactivate, Dispatch, CallGoesOn, LockInit, LockStart,
                LockStop, LockToWrite, LockHandle, Only, Inited, Started, InitOrStartFails,
                Activated, Deactivated, Stopped, Handled, Counted, SetEntry, Hangs
  <2>2. QED
    BY <2>1 DEF PluginsInv
<1> USE PluginsAssumption
    DEF OneChanges, ChangesItsEntry, ActiveIsRunning, PluginsTypeOK, Changing, Instances,
        NoCall, Stands, MovesTo, Returns, Only, SetEntry
<1>4. CASE Register(c)
  BY <1>2, <1>3, <1>4 DEF Register, Overlaps
<1>5. CASE Activate(c)
  <2>1. \A d \in Callers : d # c => calls[d].at \notin Changing /\ calls'[d] = calls[d]
    BY <1>2, <1>3, <1>5 DEF Activate, Overlaps
  <2>2. /\ calls'[c] = [at |-> "init", of |-> instance]
        /\ instance' = instance /\ life' = life /\ instance # 0
    BY <1>3, <1>5 DEF Activate
  <2>3. "init" \in Changing /\ calls'[c].at = "init" /\ calls'[c].of = instance
    BY <2>2
  <2>4. OneChanges' /\ ChangesItsEntry'
    BY <2>1, <2>2, <2>3
  <2>5. ActiveIsRunning'
    BY <2>3
  <2>6. QED
    BY <2>4, <2>5
<1>6. CASE Deactivate(c)
  <2>1. \A d \in Callers : d # c => calls[d].at \notin Changing /\ calls'[d] = calls[d]
    BY <1>2, <1>3, <1>6 DEF Deactivate, Overlaps
  <2>2. /\ calls'[c] = [at |-> "stop", of |-> instance]
        /\ instance' = instance /\ life' = life /\ instance # 0
    BY <1>3, <1>6 DEF Deactivate
  <2>3. "stop" \in Changing /\ calls'[c].at = "stop" /\ calls'[c].of = instance
    BY <2>2
  <2>4. OneChanges' /\ ChangesItsEntry'
    BY <2>1, <2>2, <2>3
  <2>5. ActiveIsRunning'
    BY <2>3
  <2>6. QED
    BY <2>4, <2>5
<1>7. CASE Dispatch(c)
  BY <1>3, <1>7 DEF Dispatch
<1>8. CASE LockInit(c)
  BY <1>3, <1>8 DEF LockInit, LockToWrite
<1>9. CASE LockStart(c)
  BY <1>3, <1>9 DEF LockStart, LockToWrite
<1>10. CASE LockStop(c)
  BY <1>3, <1>10 DEF LockStop, LockToWrite
<1>11. CASE LockHandle(c)
  BY <1>3, <1>11 DEF LockHandle
<1>12. CASE Inited(c)
  BY <1>3, <1>12 DEF Inited, AfterInit
<1>13. CASE Started(c)
  <2>1. /\ calls' = [calls EXCEPT ![c].at = "activated"] /\ calls[c].at = "starting"
        /\ life' = [life EXCEPT ![calls[c].of] = "running"] /\ instance' = instance
    BY <1>13 DEF Started
  <2>2. calls[c].of = instance /\ instance \in Instances
    BY <1>3, <2>1
  <2>3. life'[instance'] = "running"
    BY <1>3, <2>1, <2>2
  <2>4. OneChanges' /\ ChangesItsEntry'
    BY <1>3, <2>1, <2>2, <2>3
  <2>5. ActiveIsRunning'
    BY <1>3, <2>1, <2>3
  <2>6. QED
    BY <2>4, <2>5
<1>14. CASE InitOrStartFails(c)
  BY <1>3, <1>14 DEF InitOrStartFails
<1>15. CASE Activated(c)
  BY <1>3, <1>15 DEF Activated
<1>16. CASE Deactivated(c)
  BY <1>3, <1>16 DEF Deactivated
<1>17. CASE Stopped(c)
  BY <1>3, <1>17 DEF Stopped
<1>18. CASE Handled(c)
  BY <1>3, <1>18 DEF Handled
<1>19. CASE Counted(c)
  BY <1>3, <1>19 DEF Counted
<1>20. CASE Hangs(c)
  BY <1>3, <1>20 DEF Hangs
<1>21. QED
  BY <1>4, <1>5, <1>6, <1>7, <1>8, <1>9, <1>10, <1>11, <1>12,
     <1>13, <1>14, <1>15, <1>16, <1>17, <1>18, <1>19, <1>20
  DEF CallGoesOn

LEMMA PluginsKept == PluginsInv /\ [PluginsNext]_pluginVars => PluginsInv'
<1>1. ASSUME PluginsInv, UNCHANGED pluginVars PROVE PluginsInv'
  BY <1>1 DEF pluginVars, PluginsInv, PluginsTypeOK, OneChanges, ChangesItsEntry, ActiveIsRunning
<1>2. QED
  BY <1>1, PluginsStep DEF PluginsNext

(* A plugin shown as active runs, whatever fails while it is turned on or  *)
(* off and whatever it is asked meanwhile, unless two calls of activate,   *)
(* deactivate or register met; for every number of callers and instances.  *)
THEOREM ActivePluginsRun == PluginsSpec => []ActiveIsRunning
<1>1. PluginsInv => ActiveIsRunning
  BY DEF PluginsInv
<1>2. QED
  BY <1>1, PluginsStart, PluginsKept, PTL DEF PluginsSpec

-----------------------------------------------------------------------------
(* What the pipeline writes on an event. *)

(* The tags that only steps of the pipeline write, but for the entities',  *)
(* which give way.                                                         *)
PipelineTags ==
  {"sense_media_type", "sense_eligible", "class_category", "class_type", "class_urgency",
   "class_labels", "keywords", "summary", "language", "word_count"}

LEMMA OfLemma ==
  ASSUME NEW from, NEW types, NEW keys, NEW e \in Of(from, types, keys)
  PROVE  e.source = from /\ e.type \in types /\ e.keys = keys
BY DEF Of

(* No source uses one of these words for a tag of its own.                 *)
LEMMA SourceTags ==
  ASSUME NEW e \in RawEvents
  PROVE  e.keys \cap PipelineTags = {}
<1> USE OfLemma DEF PipelineTags
<1>1. CASE e \in ChatEvents
  BY <1>1 DEF ChatEvents, DiscordEvents, SlackEvents, ReplyEvents, TeamsEvents, TelegramEvents,
              CallbackEvents, WecomEvents
<1>2. CASE e \in GithubEvents
  BY <1>2 DEF GithubEvents, IssueEvents, ReleaseEvents, CommitEvents, CommentEvents
<1>3. CASE e \in DocEvents
  BY <1>3 DEF DocEvents, FeishuEvents, NotionEvents, GitEvents, GitDeletions, ObsidianEvents
<1>4. CASE e \in WorkEvents
  BY <1>4 DEF WorkEvents, AttendanceEvents, WorkReportEvents, ApprovalEvents
<1>5. CASE e \in LocalEvents
  BY <1>5 DEF LocalEvents, ClipboardEvents, FileEvents, ConnectionEvents, ClosedEvents,
              StateEvents, ProcessEvents, ExitEvents
<1>6. CASE e \in EmailEvents \cup RssEvents \cup WebhookEvents
  BY <1>6 DEF EmailEvents, RssEvents, WebhookEvents
<1>7. QED
  BY <1>1, <1>2, <1>3, <1>4, <1>5, <1>6 DEF RawEvents

(* What the classifier makes of the words of each source.                  *)
LEMMA ChatClass ==
  ASSUME NEW e \in ChatEvents, NEW c \in ContentTypes(e)
  PROVE  c = "message" \/ (e.type = "telegram_callback_query" /\ c = "notification")
<1> USE OfLemma DEF ContentTypes
<1>1. CASE e \in DiscordEvents \cup TeamsEvents \cup WecomEvents
  BY <1>1 DEF DiscordEvents, TeamsEvents, WecomEvents
<1>2. CASE e \in SlackEvents \cup ReplyEvents
  BY <1>2 DEF SlackEvents, ReplyEvents
<1>3. CASE e \in TelegramEvents \cup CallbackEvents
  BY <1>3 DEF TelegramEvents, CallbackEvents
<1>4. QED
  BY <1>1, <1>2, <1>3 DEF ChatEvents

LEMMA GithubClass ==
  ASSUME NEW e \in GithubEvents, NEW c \in ContentTypes(e)
  PROVE  c = "code"
BY OfLemma
DEF GithubEvents, IssueEvents, ReleaseEvents, CommitEvents, CommentEvents, ContentTypes,
    ClassifyBySource

LEMMA DocumentClass ==
  ASSUME NEW e \in DocEvents, NEW c \in ContentTypes(e)
  PROVE  /\ c # "generic"
         /\ e \in FeishuEvents \cup NotionEvents => c = "data"
<1> USE OfLemma DEF ContentTypes
<1>1. CASE e \in FeishuEvents \cup NotionEvents
  BY <1>1 DEF FeishuEvents, NotionEvents
<1>2. CASE e \in GitEvents \cup ObsidianEvents
  BY <1>2 DEF GitEvents, ObsidianEvents, FeishuEvents, NotionEvents
<1>3. CASE e \in GitDeletions
  BY <1>3 DEF GitDeletions, ClassifyBySource, FeishuEvents, NotionEvents
<1>4. QED
  BY <1>1, <1>2, <1>3 DEF DocEvents

LEMMA LocalClass ==
  ASSUME NEW e \in LocalEvents \ FileEvents, NEW c \in ContentTypes(e)
  PROVE  c \in {"clipboard", "network", "system"}
<1> USE OfLemma DEF ContentTypes
<1>1. CASE e \in ClipboardEvents \cup ProcessEvents \cup ExitEvents
  BY <1>1 DEF ClipboardEvents, ProcessEvents, ExitEvents
<1>2. CASE e \in ConnectionEvents \cup ClosedEvents \cup StateEvents
  BY <1>2 DEF ConnectionEvents, ClosedEvents, StateEvents
<1>3. QED
  BY <1>1, <1>2 DEF LocalEvents

LEMMA OtherClass ==
  ASSUME NEW e \in WorkEvents \cup EmailEvents \cup RssEvents \cup WebhookEvents,
         NEW c \in ContentTypes(e)
  PROVE  c \in {"approval", "notification"}
<1> USE OfLemma DEF ContentTypes
<1>1. CASE e \in WorkEvents
  BY <1>1 DEF WorkEvents, AttendanceEvents, WorkReportEvents, ApprovalEvents
<1>2. CASE e \in EmailEvents \cup RssEvents \cup WebhookEvents
  BY <1>2 DEF EmailEvents, RssEvents, WebhookEvents
<1>3. QED
  BY <1>1, <1>2

(* The families are told apart by source, or by source and type. *)
LEMMA FamiliesDisjoint ==
  ASSUME NEW e
  PROVE  /\ e \in ChatEvents =>
              e.source \in {"discord", "connector:slack", "teams", "connector:telegram", "connector:wecom"}
         /\ e \in GithubEvents => e.source = "github:"
         /\ e \in FeishuEvents \cup NotionEvents => e.source \in {"connector:feishu", "connector:notion"}
         /\ e \in DocEvents =>
              e.source \in {"connector:feishu", "connector:notion", "connector:git", "connector:obsidian"}
         /\ e \in LocalEvents =>
              e.source \in {"clipboard", "file:", "network", "process:"}
         /\ e \in WorkEvents \cup EmailEvents \cup RssEvents \cup WebhookEvents =>
              e.source \in {"connector:dingtalk", "connector:email", "connector:rss", "connector:webhook"}
<1>1. e \in ChatEvents =>
        e.source \in {"discord", "connector:slack", "teams", "connector:telegram", "connector:wecom"}
  BY OfLemma DEF ChatEvents, DiscordEvents, SlackEvents, ReplyEvents, TeamsEvents,
                 TelegramEvents, CallbackEvents, WecomEvents
<1>2. e \in GithubEvents => e.source = "github:"
  BY OfLemma DEF GithubEvents, IssueEvents, ReleaseEvents, CommitEvents, CommentEvents
<1>3. e \in FeishuEvents \cup NotionEvents => e.source \in {"connector:feishu", "connector:notion"}
  BY OfLemma DEF FeishuEvents, NotionEvents
<1>4. e \in DocEvents =>
        e.source \in {"connector:feishu", "connector:notion", "connector:git", "connector:obsidian"}
  BY OfLemma DEF DocEvents, FeishuEvents, NotionEvents, GitEvents, GitDeletions, ObsidianEvents
<1>5. e \in LocalEvents => e.source \in {"clipboard", "file:", "network", "process:"}
  BY OfLemma DEF LocalEvents, ClipboardEvents, FileEvents, ConnectionEvents, ClosedEvents,
                 StateEvents, ProcessEvents, ExitEvents
<1>6. e \in WorkEvents \cup EmailEvents \cup RssEvents \cup WebhookEvents =>
        e.source \in {"connector:dingtalk", "connector:email", "connector:rss", "connector:webhook"}
  BY OfLemma DEF WorkEvents, AttendanceEvents, WorkReportEvents, ApprovalEvents, EmailEvents,
                 RssEvents, WebhookEvents
<1>7. QED
  BY <1>1, <1>2, <1>3, <1>4, <1>5, <1>6

LEMMA ClassLemma ==
  ASSUME NEW e \in RawEvents, NEW c \in ContentTypes(e)
  PROVE  /\ e \in ChatEvents /\ e.type # "telegram_callback_query" => c = "message"
         /\ e \in GithubEvents => c = "code"
         /\ e \in FeishuEvents \cup NotionEvents => c = "data"
         /\ c = "generic" => e \in FileEvents
<1>1. CASE e \in ChatEvents
  BY <1>1, ChatClass, FamiliesDisjoint
<1>2. CASE e \in GithubEvents
  BY <1>2, GithubClass, FamiliesDisjoint
<1>3. CASE e \in DocEvents
  BY <1>3, DocumentClass, FamiliesDisjoint
<1>4. CASE e \in LocalEvents
  BY <1>4, LocalClass, FamiliesDisjoint
<1>5. CASE e \in WorkEvents \cup EmailEvents \cup RssEvents \cup WebhookEvents
  BY <1>5, OtherClass, FamiliesDisjoint
<1>6. QED
  BY <1>1, <1>2, <1>3, <1>4, <1>5 DEF RawEvents

LEMMA TagsStart == TaggingInit => TagsInv
BY DEF TaggingInit, TagsInv, TaggingTypeOK

(* A step that writes tags of its own, none of them a source's.            *)
LEMMA WritesLemma ==
  ASSUME TagsInv, NEW who \in {"sense", "class", "enrich"}, NEW keys, Writes(who, keys),
         UNCHANGED <<event, empty>>, keys \cap (event.keys \ empty) = {}
  PROVE  /\ \A k \in DOMAIN writer' : writer'[k] \in {"source", "sense", "class", "enrich"}
         /\ (\A k \in event.keys \ empty : k \in DOMAIN writer /\ writer[k] = "source")'
BY DEF TagsInv, TaggingTypeOK, Writes

LEMMA TagsStep == TagsInv /\ [TaggingNext]_tagVars => TagsInv'
<1> SUFFICES ASSUME TagsInv, [TaggingNext]_tagVars PROVE TagsInv'
  OBVIOUS
<1>1. event.keys \cap PipelineTags = {}
  BY SourceTags DEF TagsInv, TaggingTypeOK
<1>2. CASE Normalize
  BY <1>2 DEF Normalize, TagsInv, TaggingTypeOK
<1>3. CASE MarkForSense
  <2>1. CASE Writes("sense", {"sense_media_type", "sense_eligible"})
    <3>1. {"sense_media_type", "sense_eligible"} \cap (event.keys \ empty) = {}
      BY <1>1 DEF PipelineTags
    <3>2. UNCHANGED <<event, empty>>
      BY <1>3 DEF MarkForSense
    <3>3. /\ \A k \in DOMAIN writer' : writer'[k] \in {"source", "sense", "class", "enrich"}
          /\ (\A k \in event.keys \ empty : k \in DOMAIN writer /\ writer[k] = "source")'
      BY <2>1, <3>1, <3>2, WritesLemma
    <3>4. QED
      BY <1>3, <3>3 DEF MarkForSense, TagsInv, TaggingTypeOK, ContentTypes
  <2>2. CASE UNCHANGED writer
    BY <1>3, <2>2 DEF MarkForSense, TagsInv, TaggingTypeOK
  <2>3. QED
    BY <1>3, <2>1, <2>2 DEF MarkForSense
<1>4. CASE Classify
  <2>1. CASE Writes("class", ClassTags) /\ class' \in ContentTypes(event)
    <3>1. ClassTags \cap (event.keys \ empty) = {}
      BY <1>1 DEF PipelineTags, ClassTags
    <3>2. UNCHANGED <<event, empty>>
      BY <1>4 DEF Classify
    <3>3. /\ \A k \in DOMAIN writer' : writer'[k] \in {"source", "sense", "class", "enrich"}
          /\ (\A k \in event.keys \ empty : k \in DOMAIN writer /\ writer[k] = "source")'
      BY <2>1, <3>1, <3>2, WritesLemma
    <3>4. QED
      BY <1>4, <2>1, <3>3 DEF Classify, TagsInv, TaggingTypeOK, ContentTypes
  <2>2. CASE UNCHANGED <<class, writer>>
    BY <1>4, <2>2 DEF Classify, TagsInv, TaggingTypeOK
  <2>3. QED
    BY <1>4, <2>1, <2>2 DEF Classify
<1>5. CASE Enrich
  <2>1. ASSUME NEW e \in Entities, NEW k \in Keywords, NEW s \in Summaries, NEW l \in Languages,
               Writes("enrich", (e \ DOMAIN writer) \cup k \cup s \cup l \cup {"word_count"})
        PROVE  TagsInv'
    <3>1. ((e \ DOMAIN writer) \cup k \cup s \cup l \cup {"word_count"}) \cap (event.keys \ empty) = {}
      BY <1>1, <2>1 DEF PipelineTags, Keywords, Summaries, Languages, TagsInv
    <3>2. UNCHANGED <<event, empty>>
      BY <1>5 DEF Enrich
    <3>3. /\ \A i \in DOMAIN writer' : writer'[i] \in {"source", "sense", "class", "enrich"}
          /\ (\A i \in event.keys \ empty : i \in DOMAIN writer /\ writer[i] = "source")'
      BY <2>1, <3>1, <3>2, WritesLemma
    <3>4. QED
      BY <1>5, <3>3 DEF Enrich, TagsInv, TaggingTypeOK
  <2>2. CASE UNCHANGED writer
    BY <1>5, <2>2 DEF Enrich, TagsInv, TaggingTypeOK
  <2>3. QED
    BY <1>5, <2>1, <2>2 DEF Enrich
<1>6. CASE UNCHANGED tagVars
  BY <1>6 DEF tagVars, TagsInv, TaggingTypeOK
<1>7. QED
  BY <1>2, <1>3, <1>4, <1>5, <1>6 DEF TaggingNext

(* What the source said of its event is still there after every step of    *)
(* the pipeline, for every event of every source.                          *)
THEOREM SourceTagsKept == TaggingSpec => []OwnTagsKept
<1>1. TagsInv => OwnTagsKept
  BY DEF TagsInv, OwnTagsKept
<1>2. QED
  BY <1>1, TagsStart, TagsStep, PTL DEF TaggingSpec

(* Chats end as messages (but for button presses), GitHub's events as code,*)
(* documents of Feishu and Notion as data, and nothing but files as        *)
(* generic, whatever words a source chose.  It says nothing of the         *)
(* documents of Git and Obsidian, which end as notifications.              *)
THEOREM EventsFindTheirClass == TaggingSpec => []ClassFits
<1>1. TagsInv => ClassFits
  BY ClassLemma DEF TagsInv, TaggingTypeOK, ClassFits
<1>2. QED
  BY <1>1, TagsStart, TagsStep, PTL DEF TaggingSpec

-----------------------------------------------------------------------------
(* The locks of the status server. *)

LEMMA HandlersLemma ==
  /\ \A h \in DOMAIN Handlers :
       Handlers[h] \in Seq([lock : Locks, how : {"copy", "read", "set", "write"}])
  /\ "toggle" \in DOMAIN Handlers /\ "none" \notin DOMAIN Handlers
  /\ Handlers["toggle"] = Toggle
<1> DEFINE Steps == [lock : Locks, how : {"copy", "read", "set", "write"}]
<1>1. /\ \A k \in {"active", "error", "enabled", "counts", "collectors", "running", "plugins",
                    "breakers", "limiters", "cache", "collected", "synced", "health"} :
           Copy(k) \in Steps /\ Read(k) \in Steps /\ Set(k) \in Steps /\ Write(k) \in Steps
  BY DEF Copy, Read, Set, Write, Locks
<1> DEFINE Scripts == Seq(Steps)
<1> HIDE DEF Steps, Handlers
<1>2. StatusAnswer \in Scripts /\ MetricsAnswer \in Scripts /\ ConnectorsAnswer \in Scripts
      /\ CollectorsAnswer \in Scripts /\ ConnectorEvents \in Scripts
  BY <1>1 DEF Scripts, StatusAnswer, MetricsAnswer, ConnectorsAnswer, CollectorsAnswer, ConnectorEvents
<1>3. HealthAnswer \in Scripts /\ Toggle \in Scripts /\ PluginsAnswer \in Scripts
      /\ BreakersAnswer \in Scripts /\ LimitersAnswer \in Scripts
      /\ CacheStatsAnswer \in Scripts /\ <<>> \in Scripts
  BY <1>1 DEF Scripts, HealthAnswer, Toggle, PluginsAnswer, BreakersAnswer, LimitersAnswer, CacheStatsAnswer
<1>4. DashboardPage \in Scripts /\ ConnectorsPage \in Scripts /\ SyncPage \in Scripts
      /\ MonitorPage \in Scripts /\ PluginsPage \in Scripts /\ DoctorPage \in Scripts
  BY <1>1 DEF Scripts, DashboardPage, ConnectorsPage, SyncPage, MonitorPage, PluginsPage, DoctorPage
<1>5. PipelineCounts \in Scripts /\ EngineStats \in Scripts /\ HealthRecord \in Scripts
  BY <1>1 DEF Scripts, PipelineCounts, EngineStats, HealthRecord
<1> HIDE DEF Scripts
<1>6. \A h \in DOMAIN Handlers : Handlers[h] \in Scripts
  BY <1>2, <1>3, <1>4, <1>5 DEF Handlers
<1>7. "toggle" \in DOMAIN Handlers /\ "none" \notin DOMAIN Handlers /\ Handlers["toggle"] = Toggle
  BY DEF Handlers
<1>8. QED
  BY <1>6, <1>7 DEF Scripts, Steps

(* What a visitor that is here is at. *)
LEMMA ScriptLemma ==
  ASSUME ConsoleInv, NEW v \in Visitors
  PROVE  /\ visits[v] # Away => visits[v].runs \in DOMAIN Handlers
         /\ visits[v].runs # "none" =>
              /\ Script(v) \in Seq([lock : Locks, how : {"copy", "read", "set", "write"}])
              /\ Len(Script(v)) \in Nat
              /\ visits[v].step \in 1 .. Len(Script(v)) + 1
         /\ visits[v].runs = "toggle" => Script(v) = Toggle /\ Len(Script(v)) = 2
         /\ visits[v].waits => visits[v].runs # "none" /\ visits[v].step <= Len(Script(v))
<1>1. VisitOK(v)
  BY DEF ConsoleInv
<1>2. visits[v] # Away => visits[v].runs \in DOMAIN Handlers
  BY <1>1 DEF VisitOK
<1>3. visits[v].runs # "none" => visits[v].runs \in DOMAIN Handlers
  BY <1>2 DEF Away
<1>4. visits[v].runs # "none" =>
        Script(v) \in Seq([lock : Locks, how : {"copy", "read", "set", "write"}])
  BY <1>3, HandlersLemma DEF Script
<1>5. visits[v].runs # "none" => Len(Script(v)) \in Nat
  BY <1>4, LenProperties
<1>6. visits[v].runs # "none" => visits[v].step \in 1 .. Len(Script(v)) + 1
  BY <1>1 DEF VisitOK, Away
<1>7. visits[v].runs = "toggle" => Script(v) = Toggle /\ Len(Script(v)) = 2
  BY HandlersLemma DEF Script, Toggle
<1>8. visits[v].waits => visits[v].runs # "none" /\ visits[v].step <= Len(Script(v))
  BY <1>1, HandlersLemma DEF VisitOK, Away
<1>9. QED
  BY <1>2, <1>4, <1>5, <1>6, <1>7, <1>8

(* The lock that toggle takes first, and holds until it returns.           *)
LEMMA ToggleExcludes ==
  ASSUME ConsoleInv, NEW v \in Visitors, HasToggled(v)
  PROVE  ~Compatible("enabled", "write")
<1>1. visits[v].runs = "toggle" /\ visits[v].step > 1 /\ visits[v].step \in Nat
  BY DEF HasToggled, ConsoleInv
<1>2. Script(v) = Toggle /\ Toggle[1] = [lock |-> "enabled", how |-> "write"]
  BY <1>1, ScriptLemma DEF Toggle, Write
<1>3. 1 \in 1 .. visits[v].step - 1
  BY <1>1
<1>4. Holds(v, "enabled", {"read", "write"})
  BY <1>1, <1>2, <1>3 DEF Holds
<1>5. QED
  BY <1>4 DEF Compatible

LEMMA ConsoleStart == ConsoleInit => ConsoleInv
<1> SUFFICES ASSUME ConsoleInit PROVE ConsoleInv
  OBVIOUS
<1>1. \A v \in Visitors : visits[v] = Away
  BY DEF ConsoleInit
<1>2. visits \in [Visitors -> [runs : DOMAIN Handlers \cup {"none"}, step : Nat, waits : BOOLEAN,
                              name : Switches \cup {"none"}, on : BOOLEAN]]
  BY DEF ConsoleInit, Away
<1>3. queues \in [Locks -> Seq(Visitors)] /\ \A l \in Locks : queues[l] = <<>>
  BY DEF ConsoleInit
<1>4. ConsoleTypeOK
  BY <1>1, <1>3 DEF ConsoleInit, ConsoleTypeOK
<1>5. \A v \in Visitors : VisitOK(v)
  BY <1>1 DEF VisitOK
<1>6. QueuedWait
  BY <1>1, <1>3 DEF QueuedWait, InQueue, Away
<1>7. OneToggles
  BY <1>1 DEF OneToggles, HasToggled, Away
<1>8. MidwayExplains
  BY <1>1 DEF ConsoleInit, MidwayExplains, Midway, Away, Agree
<1>9. QED
  BY <1>2, <1>3, <1>4, <1>5, <1>6, <1>7, <1>8 DEF ConsoleInv

(* What a step keeps of the visitors it does not move. *)
LEMMA OthersStand ==
  ASSUME NEW w, VisitOK(w), visits'[w] = visits[w]
  PROVE  VisitOK(w)'
BY DEF VisitOK, Script

LEMMA ConsoleTypes ==
  ASSUME (\A v \in Visitors : VisitOK(v))',
         (\A l \in Locks : \A i, j \in DOMAIN queues[l] : i # j => queues[l][i] # queues[l][j])',
         (enabled \in [Switches -> {"unset", "yes", "no"}])',
         (active \subseteq Switches /\ cut \subseteq Switches)'
  PROVE  ConsoleTypeOK'
BY DEF ConsoleTypeOK, VisitOK

(* Who comes and who leaves is in no queue. *)
LEMMA QueuesUntouched ==
  ASSUME ConsoleInv, NEW v \in Visitors, NEW r,
         visits' = [visits EXCEPT ![v] = r], r.waits = FALSE,
         ~visits[v].waits, UNCHANGED queues
  PROVE  QueuedWait'
<1>1. /\ visits'[v] = r
      /\ \A w \in Visitors : w # v => visits'[w] = visits[w]
      /\ \A w \in Visitors : visits'[w].waits => w # v
  BY DEF ConsoleInv
<1>2. visits'[v].waits = FALSE
  BY <1>1
<1>3. \A w \in Visitors : w # v => Wanted(w)' = Wanted(w)
  BY <1>1 DEF Wanted, Script
<1>4. \A w \in Visitors : \A l \in Locks : InQueue(w, l)' <=> InQueue(w, l)
  BY DEF InQueue
<1>5. \A l \in Locks : ~InQueue(v, l)
  BY DEF ConsoleInv, QueuedWait
<1>6. QED
  BY <1>1, <1>2, <1>3, <1>4, <1>5 DEF ConsoleInv, QueuedWait

LEMMA ComesStep ==
  ASSUME ConsoleInv, NEW v \in Visitors, Comes(v)
  PROVE  ConsoleInv'
<1>1. PICK h \in DOMAIN Handlers :
        \E s \in (IF h = "toggle" THEN Switches ELSE {"none"}) :
          \E on \in (IF h = "toggle" THEN BOOLEAN ELSE {FALSE}) :
            visits' = [visits EXCEPT ![v] =
                         [runs |-> h, step |-> 1, waits |-> FALSE, name |-> s, on |-> on]]
  BY DEF Comes
<1>2. PICK s \in (IF h = "toggle" THEN Switches ELSE {"none"}),
           on \in (IF h = "toggle" THEN BOOLEAN ELSE {FALSE}) :
        visits' = [visits EXCEPT ![v] =
                     [runs |-> h, step |-> 1, waits |-> FALSE, name |-> s, on |-> on]]
  BY <1>1
<1> DEFINE r == [runs |-> h, step |-> 1, waits |-> FALSE, name |-> s, on |-> on]
<1>3. /\ visits' = [visits EXCEPT ![v] = r] /\ visits[v] = Away
      /\ visits'[v] = r /\ \A w \in Visitors : w # v => visits'[w] = visits[w]
      /\ UNCHANGED <<queues, enabled, active, cut>>
  BY <1>2 DEF Comes, ConsoleInv
<1>4. r \in [runs : DOMAIN Handlers \cup {"none"}, step : Nat, waits : BOOLEAN,
             name : Switches \cup {"none"}, on : BOOLEAN]
  OBVIOUS
<1>5. visits' \in [Visitors -> [runs : DOMAIN Handlers \cup {"none"}, step : Nat, waits : BOOLEAN,
                               name : Switches \cup {"none"}, on : BOOLEAN]]
  BY <1>3, <1>4 DEF ConsoleInv
<1>6. Len(Handlers[h]) \in Nat
  BY HandlersLemma, LenProperties
<1>7. VisitOK(v)'
  BY <1>3, <1>6 DEF VisitOK, Script
<1>8. (\A w \in Visitors : VisitOK(w))'
  BY <1>3, <1>7, OthersStand DEF ConsoleInv
<1>9. ConsoleTypeOK'
  BY <1>3, <1>8, ConsoleTypes DEF ConsoleInv, ConsoleTypeOK
<1>10. QueuedWait'
  <2>1. r.waits = FALSE /\ ~visits[v].waits /\ UNCHANGED queues
    BY <1>3 DEF Away
  <2>2. QED
    BY <1>3, <2>1, QueuesUntouched
<1>11. \A w \in Visitors : HasToggled(w)' => HasToggled(w)
  BY <1>3 DEF HasToggled
<1>12. \A w \in Visitors : (Midway(w) <=> Midway(w)') /\ (Midway(w) => visits'[w] = visits[w])
  BY <1>3 DEF Midway, Away
<1>13. OneToggles' /\ MidwayExplains'
  BY <1>3, <1>11, <1>12 DEF ConsoleInv, OneToggles, MidwayExplains, Agree
<1>14. QED
  BY <1>3, <1>5, <1>8, <1>9, <1>10, <1>13 DEF ConsoleInv

LEMMA LeavesStep ==
  ASSUME ConsoleInv, NEW v \in Visitors, Leaves(v)
  PROVE  ConsoleInv'
<1>1. /\ visits' = [visits EXCEPT ![v] = Away]
      /\ visits'[v] = Away /\ \A w \in Visitors : w # v => visits'[w] = visits[w]
      /\ UNCHANGED <<queues, enabled, active, cut>>
      /\ visits[v].runs # "none" /\ visits[v].step > Len(Script(v))
  BY DEF Leaves, ConsoleInv
<1>2. visits' \in [Visitors -> [runs : DOMAIN Handlers \cup {"none"}, step : Nat, waits : BOOLEAN,
                               name : Switches \cup {"none"}, on : BOOLEAN]]
  BY <1>1 DEF ConsoleInv, Away
<1>3. (\A w \in Visitors : VisitOK(w))'
  BY <1>1, OthersStand DEF ConsoleInv, VisitOK
<1>4. ConsoleTypeOK'
  BY <1>1, <1>3, ConsoleTypes DEF ConsoleInv, ConsoleTypeOK
<1>5. ~visits[v].waits
  BY <1>1, ScriptLemma
<1>6. QueuedWait'
  <2>1. Away.waits = FALSE /\ UNCHANGED queues
    BY <1>1 DEF Away
  <2>2. QED
    BY <1>1, <1>5, <2>1, QueuesUntouched
<1>7. \A w \in Visitors : HasToggled(w)' => HasToggled(w)
  BY <1>1 DEF HasToggled, Away
<1>8. ~Midway(v) /\ ~Midway(v)'
  <2>1. ~Midway(v)'
    BY <1>1 DEF Midway, Away
  <2>2. visits[v].runs = "toggle" => Len(Script(v)) = 2
    BY ScriptLemma
  <2>3. QED
    BY <1>1, <2>1, <2>2 DEF Midway
<1>9. \A w \in Visitors : (Midway(w) <=> Midway(w)') /\ (Midway(w) => visits'[w] = visits[w])
  BY <1>1, <1>8 DEF Midway
<1>10. OneToggles' /\ MidwayExplains'
  BY <1>1, <1>7, <1>9 DEF ConsoleInv, OneToggles, MidwayExplains, Agree
<1>11. QED
  BY <1>1, <1>2, <1>3, <1>4, <1>6, <1>10 DEF ConsoleInv

(* Queues without repetition. *)
Distinct(q) == \A i, j \in DOMAIN q : i # j => q[i] # q[j]
Among(w, q) == \E i \in DOMAIN q : q[i] = w

LEMMA JoinsQueue ==
  ASSUME NEW V, NEW q \in Seq(V), Distinct(q), NEW v \in V, ~Among(v, q)
  PROVE  /\ Append(q, v) \in Seq(V) /\ Distinct(Append(q, v))
         /\ \A w : Among(w, Append(q, v)) <=> Among(w, q) \/ w = v
<1>1. /\ Append(q, v) \in Seq(V) /\ Len(q) \in Nat /\ DOMAIN q = 1 .. Len(q)
      /\ DOMAIN Append(q, v) = 1 .. Len(q) + 1
      /\ \A i \in 1 .. Len(q) : Append(q, v)[i] = q[i]
      /\ Append(q, v)[Len(q) + 1] = v
  BY AppendProperties, LenProperties
<1>2. \A i \in DOMAIN Append(q, v) : i \in DOMAIN q \/ i = Len(q) + 1
  BY <1>1
<1>3. Distinct(Append(q, v))
  BY <1>1, <1>2 DEF Distinct, Among
<1>4. ASSUME NEW w PROVE Among(w, Append(q, v)) <=> Among(w, q) \/ w = v
  <2>1. Len(q) + 1 \in DOMAIN Append(q, v) /\ DOMAIN q \subseteq DOMAIN Append(q, v)
    BY <1>1
  <2>2. QED
    BY <1>1, <1>2, <2>1 DEF Among
<1>5. QED
  BY <1>1, <1>3, <1>4

LEMMA LeavesQueue ==
  ASSUME NEW V, NEW q \in Seq(V), Distinct(q), q # <<>>
  PROVE  /\ Tail(q) \in Seq(V) /\ Distinct(Tail(q))
         /\ \A w : Among(w, Tail(q)) <=> Among(w, q) /\ w # Head(q)
<1>1. /\ Tail(q) \in Seq(V) /\ Len(q) \in Nat \ {0} /\ DOMAIN q = 1 .. Len(q)
      /\ DOMAIN Tail(q) = 1 .. Len(q) - 1
      /\ \A i \in 1 .. Len(q) - 1 : Tail(q)[i] = q[i + 1]
      /\ Head(q) = q[1]
  BY HeadTailProperties, LenProperties, EmptySeq
<1>2. Distinct(Tail(q))
  <2>1. \A i \in DOMAIN Tail(q) : i \in Int /\ i + 1 \in DOMAIN q /\ Tail(q)[i] = q[i + 1]
    BY <1>1
  <2>2. QED
    BY <2>1 DEF Distinct
<1>3. ASSUME NEW w PROVE Among(w, Tail(q)) <=> Among(w, q) /\ w # Head(q)
  <2>1. ASSUME NEW i \in DOMAIN Tail(q), Tail(q)[i] = w
        PROVE  Among(w, q) /\ w # Head(q)
    <3>1. i + 1 \in DOMAIN q /\ 1 \in DOMAIN q /\ i + 1 # 1 /\ q[i + 1] = w
      BY <1>1, <2>1
    <3>2. QED
      BY <1>1, <3>1 DEF Distinct, Among
  <2>2. ASSUME NEW i \in DOMAIN q, q[i] = w, w # Head(q)
        PROVE  Among(w, Tail(q))
    <3>1. i - 1 \in DOMAIN Tail(q) /\ Tail(q)[i - 1] = w
      BY <1>1, <2>2
    <3>2. QED
      BY <3>1 DEF Among
  <2>3. QED
    BY <2>1, <2>2 DEF Among
<1>4. QED
  BY <1>1, <1>2, <1>3

LEMMA WantedLemma ==
  ASSUME ConsoleInv, NEW v \in Visitors,
         visits[v].runs # "none", visits[v].step <= Len(Script(v))
  PROVE  Wanted(v).lock \in Locks
<1>1. /\ Script(v) \in Seq([lock : Locks, how : {"copy", "read", "set", "write"}])
      /\ visits[v].step \in 1 .. Len(Script(v)) + 1 /\ Len(Script(v)) \in Nat
  BY ScriptLemma
<1>4. visits[v].step \in 1 .. Len(Script(v))
  BY <1>1
<1>2. Script(v)[visits[v].step] \in [lock : Locks, how : {"copy", "read", "set", "write"}]
  BY <1>1, <1>4, ElementOfSeq
<1>3. QED
  BY <1>2 DEF Wanted

LEMMA AsksStep ==
  ASSUME ConsoleInv, NEW v \in Visitors, AsksForLock(v)
  PROVE  ConsoleInv'
<1>1. /\ visits[v].runs # "none" /\ ~visits[v].waits /\ visits[v].step <= Len(Script(v))
      /\ queues' = [queues EXCEPT ![Wanted(v).lock] = Append(@, v)]
      /\ visits' = [visits EXCEPT ![v].waits = TRUE]
      /\ UNCHANGED <<enabled, active, cut>>
  BY DEF AsksForLock
<1>2. PICK k \in Locks : k = Wanted(v).lock
  BY <1>1, WantedLemma
<1>3. /\ \A w \in Visitors : w # v => visits'[w] = visits[w]
      /\ \A w \in Visitors : /\ visits'[w].runs = visits[w].runs /\ visits'[w].step = visits[w].step
                              /\ visits'[w].name = visits[w].name /\ visits'[w].on = visits[w].on
      /\ visits'[v].waits = TRUE
  BY <1>1 DEF ConsoleInv
<1>4. visits' \in [Visitors -> [runs : DOMAIN Handlers \cup {"none"}, step : Nat, waits : BOOLEAN,
                               name : Switches \cup {"none"}, on : BOOLEAN]]
  BY <1>1 DEF ConsoleInv
<1>5. VisitOK(v)'
  <2>1. Script(v)' = Script(v)
    BY <1>3 DEF Script
  <2>2. VisitOK(v) /\ visits[v] # Away
    BY <1>1 DEF ConsoleInv, Away
  <2>3. QED
    BY <1>1, <1>3, <2>1, <2>2 DEF VisitOK
<1>6. (\A w \in Visitors : VisitOK(w))'
  BY <1>3, <1>5, OthersStand DEF ConsoleInv
<1>7. /\ Distinct(queues[k]) /\ queues[k] \in Seq(Visitors) /\ ~Among(v, queues[k])
  BY <1>1, <1>2 DEF ConsoleInv, ConsoleTypeOK, Distinct, QueuedWait, InQueue, Among
<1>8. /\ Append(queues[k], v) \in Seq(Visitors) /\ Distinct(Append(queues[k], v))
      /\ \A w : Among(w, Append(queues[k], v)) <=> Among(w, queues[k]) \/ w = v
  BY <1>7, JoinsQueue
<1>9. /\ queues'[k] = Append(queues[k], v) /\ \A l \in Locks : l # k => queues'[l] = queues[l]
      /\ queues' \in [Locks -> Seq(Visitors)]
  BY <1>1, <1>2, <1>8 DEF ConsoleInv
<1>10. (\A l \in Locks : \A i, j \in DOMAIN queues[l] : i # j => queues[l][i] # queues[l][j])'
  <2>1. \A l \in Locks : Distinct(queues[l])
    BY DEF ConsoleInv, ConsoleTypeOK, Distinct
  <2>2. \A l \in Locks : Distinct(queues'[l])
    BY <1>8, <1>9, <2>1
  <2>3. QED
    BY <2>2 DEF Distinct
<1>11. ConsoleTypeOK'
  BY <1>1, <1>6, <1>10, ConsoleTypes DEF ConsoleInv, ConsoleTypeOK
<1>12. QueuedWait'
  <2>1. \A w \in Visitors : Wanted(w)' = Wanted(w)
    BY <1>3 DEF Wanted, Script
  <2>2. \A w \in Visitors, l \in Locks : l # k => (InQueue(w, l)' <=> InQueue(w, l))
    BY <1>9 DEF InQueue
  <2>3. \A w \in Visitors : InQueue(w, k)' <=> InQueue(w, k) \/ w = v
    BY <1>8, <1>9 DEF InQueue, Among
  <2>4. QED
    BY <1>1, <1>2, <1>3, <2>1, <2>2, <2>3 DEF ConsoleInv, QueuedWait
<1>13. OneToggles' /\ MidwayExplains'
  BY <1>1, <1>3 DEF ConsoleInv, OneToggles, MidwayExplains, HasToggled, Midway, Agree
<1>14. QED
  BY <1>4, <1>6, <1>9, <1>11, <1>12, <1>13 DEF ConsoleInv

(* What a toggle changes under its two locks. *)
LEMMA ToggleStep ==
  ASSUME ConsoleInv, NEW v \in Visitors, GetsLock(v)
  PROVE  /\ (enabled \in [Switches -> {"unset", "yes", "no"}])'
         /\ (active \subseteq Switches /\ cut \subseteq Switches)'
         /\ OneToggles' /\ MidwayExplains'
<1>1. /\ visits' = [visits EXCEPT ![v].waits = FALSE, ![v].step = @ + 1]
      /\ visits[v].waits /\ ToggleEffect(v)
      /\ Compatible(Wanted(v).lock, Wanted(v).how)
  BY DEF GetsLock
<1>2. /\ \A w \in Visitors : w # v => visits'[w] = visits[w]
      /\ visits'[v].runs = visits[v].runs /\ visits'[v].step = visits[v].step + 1
      /\ visits'[v].name = visits[v].name /\ visits'[v].on = visits[v].on
      /\ visits[v].step \in Nat /\ visits[v].on \in BOOLEAN
  BY <1>1 DEF ConsoleInv
<1>3. /\ enabled \in [Switches -> {"unset", "yes", "no"}]
      /\ active \subseteq Switches /\ cut \subseteq Switches
      /\ OneToggles /\ MidwayExplains
  BY DEF ConsoleInv, ConsoleTypeOK
<1>4. visits[v].runs = "toggle" => visits[v].step \in {1, 2} /\ visits[v].name \in Switches
  <2>1. ASSUME visits[v].runs = "toggle" PROVE visits[v].step \in {1, 2}
    <3>1. Len(Script(v)) = 2
      BY <2>1, ScriptLemma
    <3>2. visits[v].step \in 1 .. Len(Script(v)) + 1 /\ visits[v].step <= Len(Script(v))
      BY <1>1, <2>1, ScriptLemma
    <3>3. QED
      BY <3>1, <3>2
  <2>2. visits[v].runs = "toggle" => visits[v].name \in Switches
    BY DEF ConsoleInv, VisitOK, Away
  <2>3. QED
    BY <2>1, <2>2
<1>5. CASE visits[v].runs = "toggle" /\ visits[v].step = 1
  <2>1. Wanted(v) = [lock |-> "enabled", how |-> "write"]
    BY <1>5, HandlersLemma DEF Wanted, Script, Toggle, Write
  <2>2. \A w \in Visitors : ~HasToggled(w)
    BY <1>1, <2>1, ToggleExcludes
  <2>3. \A w \in Visitors : ~Midway(w)
    BY <2>2 DEF Midway, HasToggled
  <2>4. \A s \in Switches : Agree(s) \/ s \in cut
    BY <1>3, <2>3 DEF MidwayExplains
  <2>5. PICK s \in Switches : s = visits[v].name
    BY <1>4, <1>5
  <2>6. /\ enabled' = [enabled EXCEPT ![s] = IF visits[v].on THEN "yes" ELSE "no"]
        /\ active' = active /\ cut' = cut
    BY <1>1, <1>5, <2>5 DEF ToggleEffect
  <2>7. Midway(v)' /\ visits'[v].name = s
    BY <1>2, <1>5, <2>5 DEF Midway
  <2>8. \A w \in Visitors : w # v => ~HasToggled(w)' /\ ~Midway(w)'
    BY <1>2, <2>2, <2>3 DEF HasToggled, Midway
  <2>9. OneToggles'
    BY <2>8 DEF OneToggles
  <2>10. \A w \in Visitors :
           Midway(w)' => enabled'[visits'[w].name] = IF visits'[w].on THEN "yes" ELSE "no"
    BY <1>2, <1>3, <2>5, <2>6, <2>8
  <2>11. \A t \in Switches :
           \/ Agree(t)' \/ t \in cut'
           \/ \E w \in Visitors : Midway(w)' /\ visits'[w].name = t
    BY <1>3, <2>4, <2>6, <2>7 DEF Agree
  <2>12. MidwayExplains'
    BY <2>10, <2>11 DEF MidwayExplains
  <2>13. QED
    BY <1>3, <2>6, <2>9, <2>12
<1>6. CASE visits[v].runs = "toggle" /\ visits[v].step = 2
  <2>1. PICK s \in Switches : s = visits[v].name
    BY <1>4, <1>6
  <2>2. /\ active' = IF visits[v].on THEN active \cup {s} ELSE active \ {s}
        /\ enabled' = enabled /\ cut' = cut \ {s}
    BY <1>1, <1>6, <2>1 DEF ToggleEffect
  <2>3. HasToggled(v) /\ Midway(v) /\ ~Midway(v)'
    BY <1>2, <1>6 DEF HasToggled, Midway
  <2>4. \A w \in Visitors : w # v => ~HasToggled(w) /\ ~Midway(w)
    BY <1>3, <2>3 DEF OneToggles, HasToggled, Midway
  <2>5. \A w \in Visitors : (w # v => ~HasToggled(w)') /\ ~Midway(w)'
    BY <1>2, <2>3, <2>4 DEF HasToggled, Midway
  <2>6. enabled[s] = IF visits[v].on THEN "yes" ELSE "no"
    BY <1>3, <2>1, <2>3 DEF MidwayExplains
  <2>7. \A t \in Switches \ {s} : Agree(t) \/ t \in cut
    BY <1>3, <2>1, <2>4 DEF MidwayExplains
  <2>8. \A t \in Switches : Agree(t)' \/ t \in cut'
    BY <2>2, <2>6, <2>7 DEF Agree
  <2>9. OneToggles'
    BY <2>5 DEF OneToggles
  <2>10. MidwayExplains'
    BY <2>5, <2>8 DEF MidwayExplains
  <2>11. QED
    BY <1>3, <2>2, <2>9, <2>10
<1>7. CASE visits[v].runs # "toggle"
  <2>1. UNCHANGED <<enabled, active, cut>>
    BY <1>1, <1>7 DEF ToggleEffect
  <2>2. \A w \in Visitors : /\ HasToggled(w)' <=> HasToggled(w)
                            /\ Midway(w)' <=> Midway(w)
                            /\ visits'[w].name = visits[w].name /\ visits'[w].on = visits[w].on
    BY <1>2, <1>7 DEF HasToggled, Midway
  <2>3. QED
    BY <1>3, <2>1, <2>2 DEF OneToggles, MidwayExplains, Agree
<1>8. QED
  BY <1>4, <1>5, <1>6, <1>7

LEMMA GetsStep ==
  ASSUME ConsoleInv, NEW v \in Visitors, GetsLock(v)
  PROVE  ConsoleInv'
<1>1. /\ visits[v].waits
      /\ Head(queues[Wanted(v).lock]) = v
      /\ queues' = [queues EXCEPT ![Wanted(v).lock] = Tail(@)]
      /\ visits' = [visits EXCEPT ![v].waits = FALSE, ![v].step = @ + 1]
  BY DEF GetsLock
<1>2. visits[v].runs # "none" /\ visits[v].step <= Len(Script(v))
  BY <1>1, ScriptLemma
<1>3. PICK k \in Locks : k = Wanted(v).lock
  BY <1>2, WantedLemma
<1>4. /\ \A w \in Visitors : w # v => visits'[w] = visits[w]
      /\ visits'[v].runs = visits[v].runs /\ visits'[v].step = visits[v].step + 1
      /\ visits'[v].name = visits[v].name /\ visits'[v].waits = FALSE
      /\ visits[v].step \in Nat
  BY <1>1 DEF ConsoleInv
<1>5. visits' \in [Visitors -> [runs : DOMAIN Handlers \cup {"none"}, step : Nat, waits : BOOLEAN,
                               name : Switches \cup {"none"}, on : BOOLEAN]]
  <2> DEFINE Visit == [runs : DOMAIN Handlers \cup {"none"}, step : Nat, waits : BOOLEAN,
                       name : Switches \cup {"none"}, on : BOOLEAN]
  <2>1. visits \in [Visitors -> Visit] /\ visits[v] \in Visit
    BY DEF ConsoleInv
  <2>2. [visits[v] EXCEPT !.waits = FALSE, !.step = @ + 1] \in Visit
    <3>1. PICK r \in Visit : r = [visits[v] EXCEPT !.waits = FALSE]
      BY <2>1
    <3>2. r.step + 1 \in Nat
      OBVIOUS
    <3>3. [r EXCEPT !.step = @ + 1] \in Visit
      BY <3>2
    <3>4. [visits[v] EXCEPT !.waits = FALSE, !.step = @ + 1] = [r EXCEPT !.step = @ + 1]
      BY <2>1, <3>1
    <3>5. QED
      BY <3>3, <3>4
  <2>3. visits' = [visits EXCEPT ![v] = [visits[v] EXCEPT !.waits = FALSE, !.step = @ + 1]]
    BY <1>1, <2>1
  <2> HIDE DEF Visit
  <2>4. visits' \in [Visitors -> Visit]
    BY <2>1, <2>2, <2>3
  <2>5. QED
    BY <2>4 DEF Visit
<1>6. VisitOK(v)'
  <2>1. Script(v)' = Script(v)
    BY <1>4 DEF Script
  <2>2. VisitOK(v) /\ visits[v] # Away
    BY <1>2 DEF ConsoleInv, Away
  <2>3. Len(Script(v)) \in Nat
    BY <1>2, ScriptLemma
  <2>4. visits'[v].step \in 1 .. Len(Script(v)) + 1
    BY <1>2, <1>4, <2>3
  <2>5. QED
    BY <1>4, <2>1, <2>2, <2>4 DEF VisitOK
<1>7. (\A w \in Visitors : VisitOK(w))'
  BY <1>4, <1>6, OthersStand DEF ConsoleInv
<1>8. /\ Distinct(queues[k]) /\ queues[k] \in Seq(Visitors) /\ Among(v, queues[k])
  BY <1>1, <1>3 DEF ConsoleInv, ConsoleTypeOK, Distinct, QueuedWait, InQueue, Among
<1>9. queues[k] # <<>>
  BY <1>8 DEF Among
<1>10. /\ Tail(queues[k]) \in Seq(Visitors) /\ Distinct(Tail(queues[k]))
       /\ \A w : Among(w, Tail(queues[k])) <=> Among(w, queues[k]) /\ w # v
  BY <1>1, <1>3, <1>8, <1>9, LeavesQueue
<1>11. /\ queues'[k] = Tail(queues[k]) /\ \A l \in Locks : l # k => queues'[l] = queues[l]
       /\ queues' \in [Locks -> Seq(Visitors)]
  BY <1>1, <1>3, <1>10 DEF ConsoleInv
<1>12. (\A l \in Locks : \A i, j \in DOMAIN queues[l] : i # j => queues[l][i] # queues[l][j])'
  <2>1. \A l \in Locks : Distinct(queues[l])
    BY DEF ConsoleInv, ConsoleTypeOK, Distinct
  <2>2. \A l \in Locks : Distinct(queues'[l])
    BY <1>10, <1>11, <2>1
  <2>3. QED
    BY <2>2 DEF Distinct
<1>13. ConsoleTypeOK'
  BY <1>7, <1>12, ConsoleTypes, ToggleStep
<1>14. QueuedWait'
  <2>1. \A w \in Visitors : w # v => Wanted(w)' = Wanted(w)
    BY <1>4 DEF Wanted, Script
  <2>2. \A w \in Visitors, l \in Locks : l # k => (InQueue(w, l)' <=> InQueue(w, l))
    BY <1>11 DEF InQueue
  <2>3. \A w \in Visitors : InQueue(w, k)' <=> InQueue(w, k) /\ w # v
    BY <1>10, <1>11 DEF InQueue, Among
  <2>4. \A l \in Locks : l # k => ~InQueue(v, l)
    BY <1>3 DEF ConsoleInv, QueuedWait
  <2>5. \A l \in Locks : ~InQueue(v, l)'
    BY <2>2, <2>3, <2>4
  <2>6. ASSUME NEW w \in Visitors, w # v, NEW l \in Locks
        PROVE  InQueue(w, l)' <=> (visits[w].waits /\ Wanted(w).lock = l)'
    <3>1. InQueue(w, l)' <=> InQueue(w, l)
      BY <2>2, <2>3, <2>6
    <3>2. InQueue(w, l) <=> visits[w].waits /\ Wanted(w).lock = l
      BY DEF ConsoleInv, QueuedWait
    <3>3. QED
      BY <1>4, <2>1, <2>6, <3>1, <3>2
  <2>7. QED
    BY <1>4, <2>5, <2>6 DEF QueuedWait
<1>15. QED
  BY <1>5, <1>7, <1>11, <1>13, <1>14, ToggleStep DEF ConsoleInv

(* A queue one gives up to wait in. *)
LEMMA DropsOut ==
  ASSUME NEW V, NEW q \in Seq(V), Distinct(q), NEW i \in DOMAIN q
  PROVE  /\ RemoveAt(q, i) \in Seq(V) /\ Distinct(RemoveAt(q, i))
         /\ \A w : Among(w, RemoveAt(q, i)) <=> Among(w, q) /\ w # q[i]
<1> DEFINE r == RemoveAt(q, i)
           n == Len(q)
<1>1. n \in Nat /\ DOMAIN q = 1 .. n /\ i \in 1 .. n
  BY LenProperties
<1>2. /\ SubSeq(q, 1, i - 1) \in Seq(V) /\ Len(SubSeq(q, 1, i - 1)) = i - 1
      /\ \A j \in 1 .. i - 1 : SubSeq(q, 1, i - 1)[j] = q[j]
  BY <1>1
<1>3. /\ SubSeq(q, i + 1, n) \in Seq(V) /\ Len(SubSeq(q, i + 1, n)) = n - i
      /\ \A j \in 1 .. n - i : SubSeq(q, i + 1, n)[j] = q[i + j]
  BY <1>1
<1>4. /\ r \in Seq(V) /\ Len(r) = n - 1 /\ DOMAIN r = 1 .. n - 1
      /\ \A j \in 1 .. n - 1 : r[j] = IF j <= i - 1 THEN SubSeq(q, 1, i - 1)[j]
                                                  ELSE SubSeq(q, i + 1, n)[j - (i - 1)]
  <2> DEFINE a == SubSeq(q, 1, i - 1)
             b == SubSeq(q, i + 1, n)
  <2>1. a \in Seq(V) /\ b \in Seq(V) /\ Len(a) = i - 1 /\ Len(b) = n - i /\ r = a \o b
    BY <1>2, <1>3 DEF RemoveAt
  <2> HIDE DEF a, b, r
  <2>2. /\ r \in Seq(V) /\ Len(r) = Len(a) + Len(b)
        /\ \A j \in 1 .. Len(a) + Len(b) : r[j] = IF j <= Len(a) THEN a[j] ELSE b[j - Len(a)]
    BY <2>1, ConcatProperties
  <2>3. Len(a) + Len(b) = n - 1 /\ DOMAIN r = 1 .. Len(r)
    BY <1>1, <2>1, <2>2, LenProperties
  <2>4. \A j \in 1 .. n - 1 : r[j] = IF j <= i - 1 THEN a[j] ELSE b[j - (i - 1)]
    BY <2>1, <2>2, <2>3
  <2>5. QED
    BY <2>2, <2>3, <2>4 DEF a, b
<1>5. \A j \in 1 .. n - 1 : r[j] = IF j < i THEN q[j] ELSE q[j + 1]
  <2> TAKE j \in 1 .. n - 1
  <2>1. CASE j <= i - 1
    <3>1. j \in 1 .. i - 1 /\ j < i
      BY <1>1, <2>1
    <3>2. QED
      BY <1>2, <1>4, <2>1, <3>1
  <2>2. CASE ~(j <= i - 1)
    <3>1. j - (i - 1) \in 1 .. n - i /\ i + (j - (i - 1)) = j + 1 /\ ~(j < i)
      BY <1>1, <2>2
    <3>2. QED
      BY <1>3, <1>4, <2>2, <3>1
  <2>3. QED
    BY <2>1, <2>2
<1> HIDE DEF r, n
<1> DEFINE Was(j) == IF j < i THEN j ELSE j + 1
<1>6. \A j \in DOMAIN r : Was(j) \in DOMAIN q /\ Was(j) # i /\ r[j] = q[Was(j)]
  BY <1>1, <1>4, <1>5
<1>7. \A j, k \in DOMAIN r : j # k => Was(j) # Was(k)
  BY <1>1, <1>4
<1>8. \A k \in DOMAIN q \ {i} : \E j \in DOMAIN r : Was(j) = k
  <2> TAKE k \in DOMAIN q \ {i}
  <2>1. CASE k < i
    <3>1. k \in DOMAIN r /\ Was(k) = k
      BY <1>1, <1>4, <2>1
    <3>2. QED
      BY <3>1
  <2>2. CASE k > i
    <3>1. k - 1 \in DOMAIN r /\ Was(k - 1) = k
      BY <1>1, <1>4, <2>2
    <3>2. QED
      BY <3>1
  <2>3. QED
    BY <1>1, <2>1, <2>2
<1> HIDE DEF Was
<1>9. Distinct(r)
  BY <1>6, <1>7 DEF Distinct
<1>10. \A w : Among(w, r) <=> Among(w, q) /\ w # q[i]
  BY <1>6, <1>8 DEF Distinct, Among
<1>11. QED
  BY <1>4, <1>9, <1>10 DEF r

LEMMA GivesUpStep ==
  ASSUME ConsoleInv, NEW v \in Visitors, GivesUp(v)
  PROVE  ConsoleInv'
<1>1. visits[v].waits /\ visits' = [visits EXCEPT ![v] = Away] /\ UNCHANGED <<enabled, active>>
  BY DEF GivesUp
<1>2. visits[v].runs # "none" /\ visits[v].step <= Len(Script(v))
  BY <1>1, ScriptLemma
<1>3. PICK k \in Locks : k = Wanted(v).lock
  BY <1>2, WantedLemma
<1>4. PICK i \in DOMAIN queues[k] :
        queues[k][i] = v /\ queues' = [queues EXCEPT ![k] = RemoveAt(@, i)]
  BY <1>3 DEF GivesUp
<1>5. visits'[v] = Away /\ \A w \in Visitors : w # v => visits'[w] = visits[w]
  BY <1>1 DEF ConsoleInv
<1>6. visits' \in [Visitors -> [runs : DOMAIN Handlers \cup {"none"}, step : Nat, waits : BOOLEAN,
                               name : Switches \cup {"none"}, on : BOOLEAN]]
  BY <1>1 DEF ConsoleInv, Away
<1>7. (\A w \in Visitors : VisitOK(w))'
  BY <1>5, OthersStand DEF ConsoleInv, VisitOK
<1>8. queues[k] \in Seq(Visitors) /\ Distinct(queues[k])
  BY <1>3 DEF ConsoleInv, ConsoleTypeOK, Distinct
<1>9. /\ RemoveAt(queues[k], i) \in Seq(Visitors) /\ Distinct(RemoveAt(queues[k], i))
      /\ \A w : Among(w, RemoveAt(queues[k], i)) <=> Among(w, queues[k]) /\ w # v
  BY <1>4, <1>8, DropsOut
<1>10. /\ queues'[k] = RemoveAt(queues[k], i) /\ \A l \in Locks : l # k => queues'[l] = queues[l]
       /\ queues' \in [Locks -> Seq(Visitors)]
  BY <1>3, <1>4, <1>9 DEF ConsoleInv
<1>11. (\A l \in Locks : \A m, j \in DOMAIN queues[l] : m # j => queues[l][m] # queues[l][j])'
  <2>1. \A l \in Locks : Distinct(queues[l])
    BY DEF ConsoleInv, ConsoleTypeOK, Distinct
  <2>2. \A l \in Locks : Distinct(queues'[l])
    BY <1>9, <1>10, <2>1
  <2>3. QED
    BY <2>2 DEF Distinct
<1>12. QueuedWait'
  <2>1. \A w \in Visitors : w # v => Wanted(w)' = Wanted(w)
    BY <1>5 DEF Wanted, Script
  <2>2. \A w \in Visitors, l \in Locks : l # k => (InQueue(w, l)' <=> InQueue(w, l))
    BY <1>10 DEF InQueue
  <2>3. \A w \in Visitors : InQueue(w, k)' <=> InQueue(w, k) /\ w # v
    BY <1>9, <1>10 DEF InQueue, Among
  <2>4. \A l \in Locks : l # k => ~InQueue(v, l)
    BY <1>3 DEF ConsoleInv, QueuedWait
  <2>5. (\A l \in Locks : ~InQueue(v, l)') /\ visits'[v].waits = FALSE
    BY <1>5, <2>2, <2>3, <2>4 DEF Away
  <2>6. ASSUME NEW w \in Visitors, w # v, NEW l \in Locks
        PROVE  InQueue(w, l)' <=> (visits[w].waits /\ Wanted(w).lock = l)'
    <3>1. InQueue(w, l)' <=> InQueue(w, l)
      BY <2>2, <2>3, <2>6
    <3>2. InQueue(w, l) <=> visits[w].waits /\ Wanted(w).lock = l
      BY DEF ConsoleInv, QueuedWait
    <3>3. QED
      BY <1>5, <2>1, <2>6, <3>1, <3>2
  <2>7. QED
    BY <2>5, <2>6 DEF QueuedWait
<1>13. \A w \in Visitors : w # v =>
         (HasToggled(w)' <=> HasToggled(w)) /\ (Midway(w)' <=> Midway(w))
  BY <1>5 DEF HasToggled, Midway
<1>14. ~HasToggled(v)' /\ ~Midway(v)'
  BY <1>5 DEF HasToggled, Midway, Away
<1>15. visits[v].runs = "toggle" => visits[v].name \in Switches
  BY DEF ConsoleInv, VisitOK, Away
<1>16. /\ cut \subseteq cut' /\ cut' \subseteq Switches
       /\ Midway(v) => visits[v].name \in cut'
  BY <1>15 DEF GivesUp, Midway, ConsoleInv, ConsoleTypeOK
<1>17. ConsoleTypeOK'
  BY <1>1, <1>7, <1>11, <1>16, ConsoleTypes DEF ConsoleInv, ConsoleTypeOK
<1>18. OneToggles'
  BY <1>13, <1>14 DEF ConsoleInv, OneToggles
<1>19. MidwayExplains'
  <2>1. ASSUME NEW w \in Visitors, Midway(w)'
        PROVE  enabled'[visits'[w].name] = IF visits'[w].on THEN "yes" ELSE "no"
    BY <1>1, <1>5, <1>13, <1>14, <2>1 DEF ConsoleInv, MidwayExplains
  <2>2. ASSUME NEW s \in Switches
        PROVE  \/ Agree(s)' \/ s \in cut'
               \/ \E w \in Visitors : Midway(w)' /\ visits'[w].name = s
    <3>1. Agree(s)' <=> Agree(s)
      BY <1>1 DEF Agree
    <3>2. \/ Agree(s) \/ s \in cut
          \/ \E w \in Visitors : Midway(w) /\ visits[w].name = s
      BY DEF ConsoleInv, MidwayExplains
    <3>3. ASSUME NEW w \in Visitors, Midway(w), visits[w].name = s
          PROVE  s \in cut' \/ (Midway(w)' /\ visits'[w].name = s)
      BY <1>5, <1>13, <1>16, <3>3
    <3>4. QED
      BY <1>16, <3>1, <3>2, <3>3
  <2>3. QED
    BY <2>1, <2>2 DEF MidwayExplains
<1>20. QED
  BY <1>6, <1>7, <1>10, <1>12, <1>17, <1>18, <1>19 DEF ConsoleInv

LEMMA ConsoleKept == ConsoleInv /\ [ConsoleNext]_consoleVars => ConsoleInv'
<1>1. ASSUME ConsoleInv, UNCHANGED consoleVars PROVE ConsoleInv'
  <2> USE <1>1 DEF consoleVars
  <2>1. ConsoleTypeOK' /\ OneToggles' /\ MidwayExplains'
    BY DEF ConsoleInv, ConsoleTypeOK, OneToggles, MidwayExplains, HasToggled, Midway, Script, Agree
  <2>2. QueuedWait' /\ (\A v \in Visitors : VisitOK(v))'
    BY DEF ConsoleInv, QueuedWait, InQueue, VisitOK, Wanted, Script
  <2>3. QED
    BY <2>1, <2>2 DEF ConsoleInv
<1>2. QED
  BY <1>1, ComesStep, AsksStep, GetsStep, LeavesStep, GivesUpStep DEF ConsoleNext, Serves

(* However toggles and other requests meet and whoever hangs up, when no   *)
(* toggle is under way the two places that say whether a connector is on   *)
(* agree, unless the last toggle of it was cut off between its two writes; *)
(* for every number of requests and connectors.                            *)
THEOREM TogglesAgree == ConsoleSpec => []ToggleConsistent
<1>1. ConsoleInv => ToggleConsistent
  BY DEF ConsoleInv, MidwayExplains, Midway, ToggleConsistent
<1>2. QED
  BY <1>1, ConsoleStart, ConsoleKept, PTL DEF ConsoleSpec

-----------------------------------------------------------------------------
(* The limit of the webhook receiver. *)

(* CounterCounts, of any set of passed requests and at any time.           *)
Those(P, a, from, to) == {p \in P : p.from = a /\ p.when \in from .. to}

CountsIn(P, now, a, c) ==
  IF c = NoCount
    THEN \A p \in P : p.from = a => p.when < now - Window
    ELSE /\ \A p \in P : p.from = a => p.when <= c.since + Window
         /\ Cardinality(Those(P, a, c.since, now)) <= c.n
         /\ Cardinality(Those(P, a, c.since, now)) <= Limit
         /\ \A s \in Seconds :
              s >= c.since - Window => Cardinality(Those(P, a, s, c.since - 1)) <= Limit

Passes(now) == [by : Requests, from : Addresses, when : 0 .. now]

LEMMA ThoseFinite ==
  ASSUME NEW P, IsFiniteSet(P), NEW a, NEW f, NEW t
  PROVE  IsFiniteSet(Those(P, a, f, t)) /\ Cardinality(Those(P, a, f, t)) \in Nat
<1>1. Those(P, a, f, t) \in SUBSET P
  BY DEF Those
<1>2. QED
  BY <1>1, FS_Subset, FS_CardinalityType

(* No more pass in part of an interval. *)
LEMMA FewerPass ==
  ASSUME NEW P, IsFiniteSet(P), NEW a, NEW f, NEW t, NEW Q,
         Q \subseteq Those(P, a, f, t)
  PROVE  IsFiniteSet(Q) /\ Cardinality(Q) \in Nat /\ Cardinality(Q) <= Cardinality(Those(P, a, f, t))
<1>1. IsFiniteSet(Those(P, a, f, t)) /\ Q \in SUBSET Those(P, a, f, t)
  BY ThoseFinite
<1>2. QED
  BY <1>1, FS_Subset, FS_CardinalityType

(* A counter that is forgotten does not matter any more.                   *)
LEMMA ForgottenIsOver ==
  ASSUME NEW now \in Nat, NEW P \in SUBSET Passes(now), NEW a, NEW c,
         CountsIn(P, now, a, c), c # NoCount => c.since \in Nat /\ c.since < now - 2 * Window
  PROVE  CountsIn(P, now, a, NoCount)
<1>1. Window \in Nat
  BY WebhookAssumption
<1>2. \A p \in P : p.when \in Nat
  BY DEF Passes
<1>3. CASE c = NoCount
  BY <1>3
<1>4. CASE c # NoCount
  BY <1>1, <1>2, <1>4 DEF CountsIn
<1>5. QED
  BY <1>3, <1>4

(* A window begins: in the length of a window before it no more passed     *)
(* than the one before it let pass.                                        *)
LEMMA WindowBegins ==
  ASSUME NEW now \in Nat, NEW P \in SUBSET Passes(now), IsFiniteSet(P), NEW a, NEW c,
         CountsIn(P, now, a, c), c # NoCount => c.since \in Nat /\ c.since < now - Window,
         NEW x, x.from = a, x.when = now,
         NEW Q, Q = P \/ (1 <= Limit /\ Q = P \cup {x})
  PROVE  CountsIn(Q, now, a, [n |-> 1, since |-> now])
<1>1. Window \in Nat /\ Limit \in Nat
  BY WebhookAssumption
<1>2. \A p \in P : p.when \in Nat /\ p.when <= now
  BY DEF Passes
<1>3. \A p \in P : p.from = a => p.when < now
  <2>1. CASE c = NoCount
    BY <1>1, <1>2, <2>1 DEF CountsIn
  <2>2. CASE c # NoCount
    BY <1>1, <1>2, <2>2 DEF CountsIn
  <2>3. QED
    BY <2>1, <2>2
<1>4. \A q \in Q : q.from = a => q.when <= now + Window
  BY <1>1, <1>2
<1>5. \/ Those(Q, a, now, now) = {}
      \/ Those(Q, a, now, now) = {x} /\ 1 <= Limit
  BY <1>2, <1>3 DEF Those
<1>6. /\ Cardinality(Those(Q, a, now, now)) <= 1
      /\ Cardinality(Those(Q, a, now, now)) <= Limit
  BY <1>1, <1>5, FS_EmptySet, FS_Singleton
<1>7. ASSUME NEW s \in Seconds, s >= now - Window
      PROVE  Cardinality(Those(Q, a, s, now - 1)) <= Limit
  <2>1. s \in Int
    BY WebhookAssumption DEF Seconds
  <2>2. CASE c = NoCount
    <3>1. Those(Q, a, s, now - 1) = {}
      BY <1>1, <1>2, <1>7, <2>1, <2>2 DEF Those, CountsIn
    <3>2. QED
      BY <1>1, <3>1, FS_EmptySet
  <2>3. CASE c # NoCount
    <3>1. Those(Q, a, s, now - 1) \subseteq Those(P, a, c.since, now)
      BY <1>1, <1>2, <1>7, <2>1, <2>3 DEF Those
    <3>2. Cardinality(Those(P, a, c.since, now)) <= Limit
      BY <2>3 DEF CountsIn
    <3>3. Cardinality(Those(P, a, c.since, now)) \in Nat
      BY ThoseFinite
    <3>4. QED
      BY <1>1, <3>1, <3>2, <3>3, FewerPass
  <2>4. QED
    BY <2>2, <2>3
<1>8. [n |-> 1, since |-> now] # NoCount
  BY DEF NoCount
<1>9. QED
  BY <1>4, <1>6, <1>7, <1>8 DEF CountsIn

(* A window goes on: its counter counts what passes in it.                 *)
LEMMA WindowGoesOn ==
  ASSUME NEW now \in Nat, NEW P \in SUBSET Passes(now), IsFiniteSet(P), NEW a, NEW c,
         CountsIn(P, now, a, c), c # NoCount,
         c.since \in 0 .. now, c.since >= now - Window, c.n \in Nat,
         NEW x, x.from = a, x.when = now,
         NEW Q, Q = P \/ (c.n + 1 <= Limit /\ Q = P \cup {x}),
         NEW d, d # NoCount, d.n = c.n + 1, d.since = c.since
  PROVE  CountsIn(Q, now, a, d)
<1>1. Window \in Nat /\ Limit \in Nat
  BY WebhookAssumption
<1>2. \A p \in P : p.when \in Nat /\ p.when <= now
  BY DEF Passes
<1>3. \A q \in Q : q.from = a => q.when <= c.since + Window
  BY <1>1 DEF CountsIn
<1> DEFINE here == Those(P, a, c.since, now)
<1>4. IsFiniteSet(here) /\ Cardinality(here) \in Nat
      /\ Cardinality(here) <= c.n /\ Cardinality(here) <= Limit
  BY ThoseFinite DEF CountsIn
<1>5. \/ Those(Q, a, c.since, now) = here
      \/ Those(Q, a, c.since, now) = here \cup {x} /\ c.n + 1 <= Limit
  BY <1>1 DEF Those
<1> HIDE DEF here
<1>6. Cardinality(here \cup {x}) <= Cardinality(here) + 1
  <2>1. \/ Cardinality(here \cup {x}) = Cardinality(here)
        \/ Cardinality(here \cup {x}) = Cardinality(here) + 1
    BY <1>4, FS_AddElement
  <2>2. QED
    BY <1>4, <2>1
<1>7. Cardinality(here \cup {x}) \in Nat
  BY <1>4, FS_AddElement, FS_CardinalityType
<1>8. /\ Cardinality(Those(Q, a, c.since, now)) <= c.n + 1
      /\ Cardinality(Those(Q, a, c.since, now)) <= Limit
  <2> DEFINE k == Cardinality(here)
             m == Cardinality(here \cup {x})
  <2>1. k \in Nat /\ m \in Nat /\ k <= c.n /\ k <= Limit /\ m <= k + 1 /\ c.n \in Nat
    BY <1>4, <1>6, <1>7
  <2> HIDE DEF k, m
  <2>2. k <= c.n + 1 /\ m <= c.n + 1 /\ (c.n + 1 <= Limit => m <= Limit)
    BY <1>1, <2>1
  <2>3. CASE Those(Q, a, c.since, now) = here
    BY <2>1, <2>2, <2>3 DEF k
  <2>4. CASE Those(Q, a, c.since, now) = here \cup {x} /\ c.n + 1 <= Limit
    BY <2>2, <2>4 DEF m
  <2>5. QED
    BY <1>5, <2>3, <2>4
<1>9. ASSUME NEW s \in Seconds, s >= c.since - Window
      PROVE  Cardinality(Those(Q, a, s, c.since - 1)) <= Limit
  <2>1. s \in Int
    BY WebhookAssumption DEF Seconds
  <2>2. Those(Q, a, s, c.since - 1) = Those(P, a, s, c.since - 1)
    BY <2>1 DEF Those
  <2>3. QED
    BY <1>9, <2>2 DEF CountsIn
<1>10. QED
  BY <1>3, <1>8, <1>9 DEF CountsIn

(* An interval of a window's length that ends now or later meets the       *)
(* window that is on, and at most one before it.                           *)
LEMMA TwoWindows ==
  ASSUME NEW now \in Nat, NEW P \in SUBSET Passes(now), IsFiniteSet(P), NEW a, NEW c,
         CountsIn(P, now, a, c), c # NoCount, c.since \in 0 .. now,
         NEW s \in Seconds, now \in s .. s + Window
  PROVE  Cardinality(Those(P, a, s, s + Window)) <= 2 * Limit
<1>1. Window \in Nat /\ Limit \in Nat /\ s \in Nat
  BY WebhookAssumption DEF Seconds
<1>2. \A p \in P : p.when \in Nat /\ p.when <= now
  BY DEF Passes
<1> DEFINE before == Those(P, a, s, c.since - 1)
           here   == Those(P, a, c.since, now)
<1>3. Those(P, a, s, s + Window) \subseteq before \cup here
  BY <1>1, <1>2 DEF Those
<1>4. IsFiniteSet(before) /\ IsFiniteSet(here)
      /\ Cardinality(before) \in Nat /\ Cardinality(here) \in Nat
  BY ThoseFinite
<1>5. s >= c.since - Window
  BY <1>1
<1>6. Cardinality(before) <= Limit /\ Cardinality(here) <= Limit
  BY <1>5 DEF CountsIn
<1> HIDE DEF before, here
<1>7. IsFiniteSet(before \cup here)
      /\ Cardinality(before \cup here) = Cardinality(before) + Cardinality(here) - Cardinality(before \cap here)
  BY <1>4, FS_Union
<1>8. Cardinality(before \cap here) \in Nat
  BY <1>4, FS_Intersection, FS_CardinalityType
<1>9. Those(P, a, s, s + Window) \in SUBSET (before \cup here)
  BY <1>3
<1>10. Cardinality(Those(P, a, s, s + Window)) <= Cardinality(before \cup here)
  BY <1>7, <1>9, FS_Subset
<1>11. Cardinality(Those(P, a, s, s + Window)) \in Nat /\ Cardinality(before \cup here) \in Nat
  BY <1>7, FS_CardinalityType, ThoseFinite
<1> DEFINE u == Cardinality(before \cup here)
           v == Cardinality(before)
           w == Cardinality(here)
           i == Cardinality(before \cap here)
           k == Cardinality(Those(P, a, s, s + Window))
<1>12. /\ k <= u /\ u = v + w - i /\ v <= Limit /\ w <= Limit
       /\ {k, u, v, w, i} \subseteq Nat
  BY <1>4, <1>6, <1>7, <1>8, <1>10, <1>11
<1> HIDE DEF u, v, w, i, k
<1>13. k <= 2 * Limit
  BY <1>1, <1>12
<1>14. QED
  BY <1>13 DEF k

(* The counters, the history and the time speak of the same.               *)
LEMMA CountsAre ==
  ASSUME NEW a, NEW c
  PROVE  /\ CounterCounts(a, c) <=> CountsIn(passed, second, a, c)
         /\ CounterCounts(a, c)' <=> CountsIn(passed', second', a, c)
BY DEF CounterCounts, CountsIn, PassedIn, Those

LEMMA WebhookStart == WebhookInit => WebhookInv
<1> SUFFICES ASSUME WebhookInit PROVE WebhookInv
  OBVIOUS
<1> USE WebhookAssumption DEF WebhookInit
<1>1. WebhookTypeOK
  BY DEF WebhookTypeOK, Seconds
<1>2. IsFiniteSet(passed)
  BY FS_EmptySet
<1>3. \A a \in Addresses : CounterCounts(a, counters[a])
  BY DEF CounterCounts
<1>4. TwiceTheLimit
  <2>1. \A a \in Addresses, s \in Seconds : PassedIn(a, s, s + Window) = {}
    BY DEF PassedIn
  <2>2. Cardinality({}) <= 2 * Limit
    <3>1. Limit \in Nat
      OBVIOUS
    <3>2. QED
      BY <3>1, FS_EmptySet
  <2>3. QED
    BY <2>1, <2>2 DEF TwiceTheLimit
<1>5. counters \in [Addresses -> [n : Nat, since : Int]]
  BY DEF NoCount
<1>6. passed \subseteq [by : Requests, from : Addresses, when : 0 .. second]
  OBVIOUS
<1>7. QED
  BY <1>1, <1>2, <1>3, <1>4, <1>5, <1>6 DEF WebhookInv

(* A step that passes no request and in which no time passes.              *)
LEMMA NonePassed ==
  ASSUME WebhookInv, WebhookTypeOK', UNCHANGED <<second, counters, passed>>
  PROVE  WebhookInv'
<1>1. \A a \in Addresses : CounterCounts(a, counters[a])'
  BY DEF WebhookInv, CounterCounts, PassedIn
<1>2. TwiceTheLimit'
  BY DEF WebhookInv, TwiceTheLimit, PassedIn
<1>3. QED
  BY <1>1, <1>2 DEF WebhookInv

LEMMA TimePasses ==
  ASSUME WebhookInv, SecondPasses
  PROVE  WebhookInv'
<1>1. /\ second' = second + 1 /\ second \in Nat /\ second' \in Seconds
      /\ UNCHANGED <<counters, at, queue, closed, passed>>
  BY WebhookAssumption DEF SecondPasses, WebhookInv, WebhookTypeOK, Seconds
<1>2. WebhookTypeOK'
  <2>1. \A a \in Addresses :
          counters[a] # NoCount => counters[a].n \in Nat \ {0} /\ counters[a].since \in 0 .. second + 1
    BY <1>1 DEF WebhookInv, WebhookTypeOK
  <2>2. QED
    BY <1>1, <2>1 DEF WebhookInv, WebhookTypeOK
<1>3. passed' \subseteq [by : Requests, from : Addresses, when : 0 .. second']
  <2>1. 0 .. second \subseteq 0 .. second'
    BY <1>1
  <2>2. QED
    BY <1>1, <2>1 DEF WebhookInv
<1>4. \A p \in passed : p.when \in Nat /\ p.when <= second
  BY <1>1 DEF WebhookInv
<1>5. ASSUME NEW a \in Addresses, NEW c, c = counters[a]
      PROVE  CountsIn(passed', second', a, c)
  <2>1. CountsIn(passed, second, a, c)
    BY <1>5, CountsAre DEF WebhookInv
  <2>2. CASE c = NoCount
    BY <1>1, <1>4, <2>1, <2>2, WebhookAssumption DEF CountsIn
  <2>3. CASE c # NoCount
    <3>1. Those(passed, a, c.since, second + 1) = Those(passed, a, c.since, second)
      BY <1>1, <1>4 DEF Those
    <3>2. QED
      BY <1>1, <2>1, <2>3, <3>1 DEF CountsIn
  <2>4. QED
    BY <2>2, <2>3
<1>6. \A a \in Addresses : CounterCounts(a, counters[a])'
  <2>1. ASSUME NEW a \in Addresses, NEW c, c = counters[a] PROVE CounterCounts(a, c)'
    BY <1>5, <2>1, CountsAre
  <2>2. QED
    BY <1>1, <2>1 DEF CounterCounts, PassedIn
<1>7. TwiceTheLimit'
  BY <1>1 DEF WebhookInv, TwiceTheLimit, PassedIn
<1>8. QED
  BY <1>1, <1>2, <1>3, <1>6, <1>7 DEF WebhookInv

LEMMA ArrivesStep ==
  ASSUME WebhookInv, NEW r \in Requests, NEW a \in Addresses, Arrives(r, a)
  PROVE  WebhookInv'
<1> DEFINE x == [by |-> r, from |-> a, when |-> second]
<1>1. PICK mine :
        /\ mine = CheckAndRecord(Cleaned[a])
        /\ counters' = [Cleaned EXCEPT ![a] = mine]
        /\ passed' = passed \cup IF mine.n <= Limit THEN {x} ELSE {}
        /\ \E answer \in (IF mine.n <= Limit THEN {"send", "403", "401"} ELSE {"429"}) :
             at' = [at EXCEPT ![r] = answer]
        /\ UNCHANGED <<second, queue, closed>>
  BY DEF Arrives
<1>2. PICK now \in Nat : now = second
  BY WebhookAssumption DEF WebhookInv, WebhookTypeOK, Seconds
<1>3. /\ passed \in SUBSET Passes(now) /\ IsFiniteSet(passed)
      /\ Window \in Nat /\ Limit \in Nat
  BY <1>2, WebhookAssumption DEF WebhookInv, Passes
<1>4. PICK Q : Q = passed' /\ (Q = passed \/ (mine.n <= Limit /\ Q = passed \cup {x}))
  BY <1>1
<1>5. Q \in SUBSET Passes(now) /\ IsFiniteSet(Q)
  <2>1. x \in Passes(now)
    BY <1>2 DEF Passes
  <2>2. IsFiniteSet(passed \cup {x})
    BY <1>3, FS_AddElement
  <2>3. QED
    BY <1>3, <1>4, <2>1, <2>2
(* What cleanup leaves. *)
<1>6. ASSUME NEW b \in Addresses, NEW c, c = Cleaned[b]
      PROVE  /\ c = NoCount \/ (c.n \in Nat \ {0} /\ c.since \in 0 .. now)
             /\ CountsIn(passed, now, b, c)
             /\ c \in [n : Nat, since : Int]
  <2>1. CountsIn(passed, now, b, counters[b])
    BY <1>2, CountsAre DEF WebhookInv
  <2>2. counters[b] = NoCount \/ (counters[b].n \in Nat \ {0} /\ counters[b].since \in 0 .. now)
    BY <1>2 DEF WebhookInv, WebhookTypeOK
  <2>6. counters[b] \in [n : Nat, since : Int] /\ NoCount \in [n : Nat, since : Int]
    BY DEF WebhookInv, NoCount
  <2>3. CASE c = counters[b]
    BY <2>1, <2>2, <2>3, <2>6
  <2>4. CASE c # counters[b]
    <3>1. c = NoCount /\ ~(counters[b].since >= now - 2 * Window)
      BY <1>2, <1>6, <2>4 DEF Cleaned
    <3>2. counters[b] # NoCount => counters[b].since \in Nat /\ counters[b].since < now - 2 * Window
      BY <1>3, <2>2, <3>1
    <3>3. CountsIn(passed, now, b, NoCount)
      BY <1>3, <2>1, <3>2, ForgottenIsOver
    <3>4. QED
      BY <2>6, <3>1, <3>3
  <2>5. QED
    BY <2>3, <2>4
(* The counter of the address itself. *)
<1>7. PICK old : old = Cleaned[a]
  OBVIOUS
<1>8. /\ old = NoCount \/ (old.n \in Nat \ {0} /\ old.since \in 0 .. now)
      /\ CountsIn(passed, now, a, old) /\ old \in [n : Nat, since : Int]
  BY <1>6, <1>7
<1>9. mine # NoCount /\ mine.n \in Nat \ {0} /\ mine.since \in 0 .. now
      /\ CountsIn(Q, now, a, mine)
  <2>1. CASE old = NoCount \/ old.since < now - Window
    <3>1. mine = [n |-> 1, since |-> now]
      BY <1>1, <1>2, <1>7, <2>1 DEF CheckAndRecord
    <3>2. old # NoCount => old.since \in Nat /\ old.since < now - Window
      BY <1>8, <2>1
    <3>3. Q = passed \/ (1 <= Limit /\ Q = passed \cup {x})
      BY <1>4, <3>1
    <3>4. x.from = a /\ x.when = now
      BY <1>2
    <3>5. CountsIn(Q, now, a, [n |-> 1, since |-> now])
      BY <1>3, <1>8, <3>2, <3>3, <3>4, WindowBegins
    <3>6. QED
      BY <3>1, <3>5 DEF NoCount
  <2>2. CASE old # NoCount /\ ~(old.since < now - Window)
    <3>1. mine = [old EXCEPT !.n = @ + 1]
      BY <1>1, <1>2, <1>7, <2>2 DEF CheckAndRecord
    <3>2. old.n \in Nat \ {0} /\ old.since \in 0 .. now /\ old.since >= now - Window
      BY <1>3, <1>8, <2>2
    <3>3. /\ mine.n = old.n + 1 /\ mine.since = old.since
      BY <1>8, <3>1
    <3>4. mine # NoCount
      BY <3>2, <3>3 DEF NoCount
    <3>5. Q = passed \/ (old.n + 1 <= Limit /\ Q = passed \cup {x})
      BY <1>4, <3>3
    <3>6. x.from = a /\ x.when = now
      BY <1>2
    <3>7. old.n \in Nat
      BY <3>2
    <3>8. CountsIn(Q, now, a, mine)
      BY <1>3, <1>8, <2>2, <3>2, <3>3, <3>4, <3>5, <3>6, <3>7, WindowGoesOn
    <3>9. QED
      BY <3>2, <3>3, <3>4, <3>8
  <2>3. QED
    BY <2>1, <2>2
<1>10. mine \in [n : Nat, since : Int]
  BY <1>1, <1>2, <1>7, <1>8 DEF CheckAndRecord
<1>11. /\ counters' \in [Addresses -> [n : Nat, since : Int]]
       /\ counters'[a] = mine /\ \A b \in Addresses : b # a => counters'[b] = Cleaned[b]
  <2>1. Cleaned \in [Addresses -> [n : Nat, since : Int]]
    BY DEF Cleaned, WebhookInv, NoCount
  <2>2. QED
    BY <1>1, <1>10, <2>1
(* All counters. *)
<1>12. ASSUME NEW b \in Addresses, NEW c, c = counters'[b]
       PROVE  /\ c = NoCount \/ (c.n \in Nat \ {0} /\ c.since \in 0 .. now)
              /\ CountsIn(Q, now, b, c)
  <2>1. CASE b = a
    BY <1>9, <1>11, <1>12, <2>1
  <2>2. CASE b # a
    <3>1. /\ c = NoCount \/ (c.n \in Nat \ {0} /\ c.since \in 0 .. now)
          /\ CountsIn(passed, now, b, c)
      BY <1>6, <1>11, <1>12, <2>2
    <3>2. \A q \in Q : q.from = b => q \in passed
      BY <1>4, <2>2
    <3>3. \A f, t : Those(Q, b, f, t) = Those(passed, b, f, t)
      BY <1>4, <2>2 DEF Those
    <3>4. QED
      BY <3>1, <3>2, <3>3 DEF CountsIn
  <2>3. QED
    BY <2>1, <2>2
<1>13. (\A b \in Addresses : CounterCounts(b, counters[b]))'
  <2>1. ASSUME NEW b \in Addresses, NEW c, c = counters'[b] PROVE CounterCounts(b, c)'
    BY <1>1, <1>2, <1>4, <1>12, <2>1, CountsAre
  <2>2. QED
    BY <2>1 DEF CounterCounts, PassedIn
<1>14. TwiceTheLimit'
  <2>1. ASSUME NEW b \in Addresses, NEW s \in Seconds
        PROVE  Cardinality(Those(Q, b, s, s + Window)) <= 2 * Limit
    <3>1. CASE b = a /\ now \in s .. s + Window
      BY <1>5, <1>9, <3>1, TwoWindows
    <3>2. CASE ~(b = a /\ now \in s .. s + Window)
      <4>1. Those(Q, b, s, s + Window) = Those(passed, b, s, s + Window)
        BY <1>2, <1>4, <3>2 DEF Those
      <4>2. Cardinality(Those(passed, b, s, s + Window)) <= 2 * Limit
        BY DEF WebhookInv, TwiceTheLimit, PassedIn, Those
      <4>3. QED
        BY <4>1, <4>2
    <3>3. QED
      BY <3>1, <3>2
  <2>2. QED
    BY <1>4, <2>1 DEF TwiceTheLimit, PassedIn, Those
<1>15. WebhookTypeOK'
  <2>1. \A b \in Addresses :
          counters'[b] = NoCount \/ (counters'[b].n \in Nat \ {0} /\ counters'[b].since \in 0 .. second')
    BY <1>1, <1>2, <1>12
  <2>2. at' \in [Requests -> {"none", "send", "200", "503", "429", "403", "401", "gone"}]
    BY <1>1 DEF WebhookInv, WebhookTypeOK
  <2>3. QED
    BY <1>1, <2>1, <2>2 DEF WebhookInv, WebhookTypeOK
<1>16. QED
  BY <1>1, <1>2, <1>4, <1>5, <1>11, <1>13, <1>14, <1>15 DEF WebhookInv, Passes

LEMMA WebhookStep == WebhookInv /\ [WebhookNext]_webhookVars => WebhookInv'
<1> SUFFICES ASSUME WebhookInv, [WebhookNext]_webhookVars PROVE WebhookInv'
  OBVIOUS
<1>1. queue \in Seq(Requests) /\ Len(queue) \in Nat /\ Len(queue) <= Room /\ Room \in Nat
  BY LenProperties, WebhookAssumption DEF WebhookInv, WebhookTypeOK
<1>2. ASSUME NEW r \in Requests, Sends(r) PROVE WebhookInv'
  <2>1. CASE queue' = Append(queue, r) /\ at' = [at EXCEPT ![r] = "200"] /\ Len(queue) < Room
    <3>1. queue' \in Seq(Requests) /\ Len(queue') = Len(queue) + 1
      BY <1>1, <2>1, AppendProperties
    <3>2. WebhookTypeOK'
      BY <1>1, <1>2, <2>1, <3>1 DEF Sends, WebhookInv, WebhookTypeOK
    <3>3. QED
      BY <1>2, <3>2, NonePassed DEF Sends
  <2>2. CASE at' = [at EXCEPT ![r] = "503"] /\ UNCHANGED queue
    <3>1. WebhookTypeOK'
      BY <1>2, <2>2 DEF Sends, WebhookInv, WebhookTypeOK
    <3>2. QED
      BY <1>2, <3>1, NonePassed DEF Sends
  <2>3. QED
    BY <1>2, <2>1, <2>2 DEF Sends
<1>3. ASSUME NEW r \in Requests, HangsUp(r) PROVE WebhookInv'
  <2>1. WebhookTypeOK'
    BY <1>3 DEF HangsUp, WebhookInv, WebhookTypeOK
  <2>2. QED
    BY <1>3, <2>1, NonePassed DEF HangsUp
<1>4. CASE QueueTaken
  <2>1. queue' \in Seq(Requests) /\ Len(queue') = Len(queue) - 1
    BY <1>1, <1>4, HeadTailProperties DEF QueueTaken
  <2>2. WebhookTypeOK'
    BY <1>1, <1>4, <2>1 DEF QueueTaken, WebhookInv, WebhookTypeOK
  <2>3. QED
    BY <1>4, <2>2, NonePassed DEF QueueTaken
<1>5. CASE QueueCloses
  <2>1. WebhookTypeOK'
    BY <1>5 DEF QueueCloses, WebhookInv, WebhookTypeOK
  <2>2. QED
    BY <1>5, <2>1, NonePassed DEF QueueCloses
<1>6. CASE UNCHANGED webhookVars
  <2>1. WebhookTypeOK'
    BY <1>6 DEF webhookVars, WebhookInv, WebhookTypeOK
  <2>2. QED
    BY <1>6, <2>1, NonePassed DEF webhookVars
<1>7. QED
  BY <1>2, <1>3, <1>4, <1>5, <1>6, ArrivesStep, TimePasses DEF WebhookNext

(* No client address passes more than twice the limit within the length of *)
(* any window, for every limit and window and any number of clients.       *)
THEOREM LimitHoldsTwice == WebhookSpec => []TwiceTheLimit
<1>1. WebhookInv => TwiceTheLimit
  BY DEF WebhookInv
<1>2. QED
  BY <1>1, WebhookStart, WebhookStep, PTL DEF WebhookSpec

-----------------------------------------------------------------------------
(* The log buffer. *)

LEMMA OneAppended ==
  ASSUME NEW E, NEW q \in Seq(E), NEW e \in E, NEW t, t = Append(q, e)
  PROVE  /\ t \in Seq(E) /\ Len(t) = Len(q) + 1
         /\ \A i \in 1 .. Len(q) : t[i] = q[i]
         /\ t[Len(q) + 1] = e
BY AppendProperties

LEMMA LogStart == LogInit => LogInv
BY EmptySeq, LogAssumption DEF LogInit, LogInv, LogTypeOK, LogsAreTheEnd, FirstKept

LEMMA FirstType ==
  ASSUME LogTypeOK
  PROVE  /\ Len(logged) \in Nat /\ Len(logs) \in Nat /\ clearedAt \in Nat /\ clearedAt <= Len(logged)
         /\ LogRoom \in Nat \ {0}
         /\ FirstKept \in Nat /\ FirstKept <= Len(logged)
         /\ DOMAIN logs = 1 .. Len(logs) /\ DOMAIN logged = 1 .. Len(logged)
<1>1. Len(logged) \in Nat /\ Len(logs) \in Nat
      /\ DOMAIN logs = 1 .. Len(logs) /\ DOMAIN logged = 1 .. Len(logged)
  BY LenProperties DEF LogTypeOK
<1>2. clearedAt \in Nat /\ clearedAt <= Len(logged)
  BY <1>1 DEF LogTypeOK
<1>3. LogRoom \in Nat \ {0}
  BY LogAssumption
<1>4. FirstKept \in Nat /\ FirstKept <= Len(logged)
  BY <1>1, <1>2, <1>3 DEF FirstKept
<1>5. QED
  BY <1>1, <1>2, <1>3, <1>4

LEMMA LogEventStep ==
  ASSUME LogInv, NEW level \in Levels, LogEvent(level)
  PROVE  LogInv'
<1> DEFINE entry == [level |-> level, nr |-> Len(logged) + 1]
           Entry == [level : Levels, nr : Nat]
<1>1. PICK n \in Nat, f \in Nat, k \in Nat, cl \in Nat :
        n = Len(logged) /\ f = FirstKept /\ k = Len(logs) /\ cl = clearedAt
  BY FirstType DEF LogInv
<1>2. /\ logged' = Append(logged, level) /\ logged \in Seq(Levels) /\ logs \in Seq(Entry)
      /\ clearedAt' = cl /\ cl <= n /\ k <= LogRoom /\ LogRoom \in Nat \ {0}
      /\ k = n - f /\ f = IF n - cl > LogRoom THEN n - LogRoom ELSE cl
      /\ DOMAIN logged = 1 .. n /\ DOMAIN logs = 1 .. k
      /\ \A i \in 1 .. k : logs[i] = [level |-> logged[f + i], nr |-> f + i]
  BY <1>1, FirstType DEF LogEvent, LogInv, LogTypeOK, LogsAreTheEnd, FirstKept
<1>3. /\ logged' \in Seq(Levels) /\ Len(logged') = n + 1
      /\ \A i \in 1 .. n : logged'[i] = logged[i]
      /\ logged'[n + 1] = level
  BY <1>1, <1>2, AppendProperties
<1>4. logs' = Pushed(entry) /\ entry = [level |-> level, nr |-> n + 1] /\ entry \in Entry
  BY <1>1, <1>2, <1>3 DEF LogEvent
<1> HIDE DEF entry, Entry
<1>5. CASE k >= LogRoom
  <2>1. FirstKept' = f + 1
    BY <1>2, <1>3, <1>5 DEF FirstKept
  <2>2. logs # <<>>
    BY <1>1, <1>2, <1>5, EmptySeq
  <2>3. /\ Tail(logs) \in Seq(Entry) /\ Len(Tail(logs)) = k - 1
        /\ \A i \in 1 .. k - 1 : Tail(logs)[i] = logs[i + 1]
    BY <1>1, <1>2, <2>2, HeadTailProperties
  <2>4. logs' = Append(Tail(logs), entry)
    BY <1>1, <1>4, <1>5 DEF Pushed
  <2>5. /\ logs' \in Seq(Entry) /\ Len(logs') = k
        /\ \A i \in 1 .. k - 1 : logs'[i] = logs[i + 1]
        /\ logs'[k] = entry /\ DOMAIN logs' = 1 .. k
    <3>1. /\ logs' \in Seq(Entry) /\ Len(logs') = Len(Tail(logs)) + 1
          /\ \A i \in 1 .. Len(Tail(logs)) : logs'[i] = Tail(logs)[i]
          /\ logs'[Len(Tail(logs)) + 1] = entry
      <4>1. Tail(logs) \in Seq(Entry) /\ entry \in Entry
        BY <1>4, <2>3
      <4>2. QED
        BY <2>4, <4>1, OneAppended
    <3>2. Len(Tail(logs)) + 1 = k
      BY <2>3
    <3>3. DOMAIN logs' = 1 .. k
      BY <3>1, <3>2, LenProperties
    <3>4. QED
      BY <2>3, <3>1, <3>2, <3>3
  <2>6. ASSUME NEW i \in 1 .. k
        PROVE  logs'[i] = [level |-> logged'[f + 1 + i], nr |-> f + 1 + i]
    <3>1. CASE i = k
      <4>1. f + 1 + i = n + 1
        BY <1>2, <3>1
      <4>2. logged'[f + 1 + i] = level
        BY <1>3, <4>1
      <4>3. logs'[i] = [level |-> level, nr |-> n + 1]
        BY <1>4, <2>5, <3>1
      <4>4. QED
        BY <4>1, <4>2, <4>3
    <3>2. CASE i # k
      <4>1. /\ i \in 1 .. k - 1 /\ i + 1 \in 1 .. k
            /\ f + (i + 1) \in 1 .. n /\ f + (i + 1) = f + 1 + i
        <5>1. k = n - f
          BY <1>2
        <5>2. i \in Nat /\ i >= 1 /\ i < k
          BY <3>2
        <5>3. QED
          BY <5>1, <5>2
      <4>2. logs[i + 1] = [level |-> logged[f + (i + 1)], nr |-> f + (i + 1)]
        <5>1. \A e \in 1 .. k : logs[e] = [level |-> logged[f + e], nr |-> f + e]
          BY <1>2
        <5>2. QED
          BY <4>1, <5>1
      <4>3. logged'[f + (i + 1)] = logged[f + (i + 1)]
        BY <1>3, <4>1
      <4>4. logs'[i] = logs[i + 1]
        BY <2>5, <4>1
      <4>5. QED
        BY <4>1, <4>2, <4>3, <4>4
    <3>3. QED
      BY <3>1, <3>2
  <2>7. LogTypeOK'
    BY <1>2, <1>3, <2>5 DEF LogTypeOK, Entry
  <2>8. LogsAreTheEnd'
    <3>1. Len(logs') = Len(logged') - FirstKept'
      BY <1>2, <1>3, <2>1, <2>5
    <3>2. \A i \in DOMAIN logs' : logs'[i] = [level |-> logged'[FirstKept' + i], nr |-> FirstKept' + i]
      BY <2>1, <2>5, <2>6
    <3>3. QED
      BY <3>1, <3>2 DEF LogsAreTheEnd
  <2>9. QED
    BY <2>7, <2>8 DEF LogInv
<1>6. CASE ~(k >= LogRoom)
  <2>1. FirstKept' = f /\ f = cl
    BY <1>2, <1>3, <1>6 DEF FirstKept
  <2>2. logs' = Append(logs, entry)
    BY <1>1, <1>4, <1>6 DEF Pushed
  <2>3. /\ logs' \in Seq(Entry) /\ Len(logs') = k + 1
        /\ \A i \in 1 .. k : logs'[i] = logs[i]
        /\ logs'[k + 1] = entry /\ DOMAIN logs' = 1 .. k + 1
    <3>1. /\ logs' \in Seq(Entry) /\ Len(logs') = Len(logs) + 1
          /\ \A i \in 1 .. Len(logs) : logs'[i] = logs[i]
          /\ logs'[Len(logs) + 1] = entry
      <4>1. logs \in Seq(Entry) /\ entry \in Entry
        BY <1>2, <1>4
      <4>2. QED
        BY <2>2, <4>1, OneAppended
    <3>2. DOMAIN logs' = 1 .. k + 1
      BY <1>1, <3>1, LenProperties
    <3>3. QED
      BY <1>1, <3>1, <3>2
  <2>4. ASSUME NEW i \in 1 .. k + 1
        PROVE  logs'[i] = [level |-> logged'[f + i], nr |-> f + i]
    <3>1. CASE i = k + 1
      <4>1. f + i = n + 1
        BY <1>2, <3>1
      <4>2. QED
        BY <1>3, <1>4, <2>3, <3>1, <4>1
    <3>2. CASE i # k + 1
      <4>1. i \in 1 .. k /\ f + i \in 1 .. n
        BY <1>2, <3>2
      <4>2. QED
        BY <1>2, <1>3, <2>3, <4>1
    <3>3. QED
      BY <3>1, <3>2
  <2>5. LogTypeOK'
    BY <1>2, <1>3, <1>6, <2>3 DEF LogTypeOK, Entry
  <2>6. LogsAreTheEnd'
    <3>1. Len(logs') = Len(logged') - FirstKept'
      <4>1. Len(logs') = k + 1 /\ Len(logged') = n + 1 /\ FirstKept' = f /\ k = n - f
        BY <1>2, <1>3, <2>1, <2>3
      <4>2. k + 1 = n + 1 - f
        BY <4>1
      <4>3. QED
        BY <4>1, <4>2
    <3>2. \A i \in DOMAIN logs' : logs'[i] = [level |-> logged'[FirstKept' + i], nr |-> FirstKept' + i]
      BY <2>1, <2>3, <2>4
    <3>3. QED
      BY <3>1, <3>2 DEF LogsAreTheEnd
  <2>7. QED
    BY <2>5, <2>6 DEF LogInv
<1>7. QED
  BY <1>5, <1>6

LEMMA LogStep == LogInv /\ [LogNext]_logVars => LogInv'
<1> SUFFICES ASSUME LogInv, [LogNext]_logVars PROVE LogInv'
  OBVIOUS
<1>1. CASE LogClear
  BY <1>1, FirstType, EmptySeq DEF LogClear, LogInv, LogTypeOK, LogsAreTheEnd, FirstKept
<1>2. CASE UNCHANGED logVars
  BY <1>2 DEF logVars, LogInv, LogTypeOK, LogsAreTheEnd, FirstKept
<1>3. QED
  BY <1>1, <1>2, LogEventStep DEF LogNext

(* Entries in the same order have as many after them, by place and by number. *)
Shifted(A, f, B) ==
  A \in SUBSET Int /\ B \in SUBSET Int /\ (\A i \in A : f + i \in B) /\ (\A m \in B : m - f \in A)

Beyond(A, j, X) == X \in SUBSET A /\ (\A i \in A : i \in X <=> i > j)

LEMMA CountShifted ==
  ASSUME NEW A, IsFiniteSet(A), NEW f \in Int, NEW B, Shifted(A, f, B),
         NEW j \in Int, NEW X, Beyond(A, j, X), NEW Y, Beyond(B, f + j, Y)
  PROVE  Cardinality(X) = Cardinality(Y)
<1> USE DEF Shifted, Beyond
<1> DEFINE g == [i \in X |-> f + i]
<1>1. IsFiniteSet(X)
  BY FS_Subset
<1>2. g \in Bijection(X, Y)
  <2>1. \A i \in X : i \in Int /\ f + i \in Y
    OBVIOUS
  <2>2. g \in [X -> Y] /\ \A i \in X : g[i] = f + i
    BY <2>1
  <2>3. \A a, b \in X : g[a] = g[b] => a = b
    BY <2>1, <2>2
  <2>4. ASSUME NEW m \in Y PROVE m - f \in X /\ g[m - f] = m
    <3>1. m \in Int /\ m - f \in A /\ m - f > j /\ f + (m - f) = m
      OBVIOUS
    <3>2. QED
      BY <3>1
  <2>5. \A m \in Y : \E i \in X : g[i] = m
    BY <2>4
  <2>6. QED
    BY <2>2, <2>3, <2>5 DEF Bijection, Injection, Surjection, IsInjective
<1>3. ExistsBijection(X, Y)
  BY <1>2 DEF ExistsBijection
<1>4. QED
  BY <1>1, <1>3, FS_Bijection

LEMMA NewestFollows == LogInv => LogsAreNewest
<1> SUFFICES ASSUME LogInv, NEW most \in 1 .. LogRoom
             PROVE  /\ [i \in DOMAIN RecentLogs(most) |-> RecentLogs(most)[i].nr] =
                          LastOf([i \in 1 .. Len(logged) - FirstKept |-> FirstKept + i], most)
                    /\ \A level \in Levels :
                         LET ofLevel == {n \in FirstKept + 1 .. Len(logged) : logged[n] = level}
                         IN  {e.nr : e \in FilteredLogs(most, level)} =
                               {n \in ofLevel : Cardinality({m \in ofLevel : m > n}) < most}
  BY DEF LogsAreNewest
<1>1. PICK n \in Nat, f \in Nat, k \in Nat :
        n = Len(logged) /\ f = FirstKept /\ k = Len(logs)
  BY FirstType DEF LogInv
<1>2. /\ k = n - f /\ DOMAIN logs = 1 .. k
      /\ \A i \in 1 .. k : logs[i] = [level |-> logged[f + i], nr |-> f + i]
  BY <1>1, FirstType DEF LogInv, LogsAreTheEnd
<1>3. most \in Nat \ {0}
  BY LogAssumption
<1>4. [i \in DOMAIN RecentLogs(most) |-> RecentLogs(most)[i].nr] =
        LastOf([i \in 1 .. Len(logged) - FirstKept |-> FirstKept + i], most)
  <2> DEFINE a == IF k > most THEN k - most + 1 ELSE 1
             c == k - a + 1
             nrs == [i \in 1 .. k |-> f + i]
  <2>1. a \in Int /\ k \in Int /\ a >= 1 /\ c \in Nat /\ c = IF a <= k THEN k - a + 1 ELSE 0
    BY <1>3
  <2>2. Len(nrs) = k
    BY <1>1
  <2>3. RecentLogs(most) = SubSeq(logs, a, k)
    BY <1>1 DEF RecentLogs, LastOf
  <2>4. LastOf(nrs, most) = SubSeq(nrs, a, k)
    BY <2>2 DEF LastOf
  <2> HIDE DEF a, c
  <2>5. \A i \in a .. k : logs[i] \in [level : Levels, nr : Nat] /\ nrs[i] \in Nat
    <3>1. \A i \in a .. k : i \in DOMAIN logs
      BY <1>2, <2>1
    <3>2. \A i \in a .. k : logs[i] \in [level : Levels, nr : Nat]
      <4>1. logs \in Seq([level : Levels, nr : Nat]) /\ DOMAIN logs = 1 .. Len(logs)
        BY FirstType DEF LogInv, LogTypeOK
      <4>2. \A i \in 1 .. Len(logs) : logs[i] \in [level : Levels, nr : Nat]
        BY <4>1, ElementOfSeq
      <4>3. QED
        BY <3>1, <4>1, <4>2
    <3>3. \A i \in a .. k : nrs[i] \in Nat
      BY <2>1
    <3>4. QED
      BY <3>2, <3>3
  <2>6. /\ SubSeq(logs, a, k) \in Seq([level : Levels, nr : Nat]) /\ Len(SubSeq(logs, a, k)) = c
        /\ \A i \in 1 .. c : SubSeq(logs, a, k)[i] = logs[a + i - 1]
    <3>1. /\ SubSeq(logs, a, k) \in Seq([level : Levels, nr : Nat])
          /\ Len(SubSeq(logs, a, k)) = IF a <= k THEN k - a + 1 ELSE 0
          /\ \A i \in 1 .. k - a + 1 : SubSeq(logs, a, k)[i] = logs[a + i - 1]
      <4>1. \A i \in a .. k : logs[i] \in [level : Levels, nr : Nat]
        BY <2>5
      <4>2. QED
        BY <2>1, <4>1, SubSeqProperties
    <3>2. QED
      BY <2>1, <3>1 DEF c
  <2>7. /\ SubSeq(nrs, a, k) \in Seq(Nat) /\ Len(SubSeq(nrs, a, k)) = c
        /\ \A i \in 1 .. c : SubSeq(nrs, a, k)[i] = nrs[a + i - 1]
    <3> HIDE DEF nrs
    <3>1. QED
      BY <2>1, <2>5, SubSeqProperties DEF c
  <2>8. DOMAIN SubSeq(logs, a, k) = 1 .. c /\ DOMAIN SubSeq(nrs, a, k) = 1 .. c
    BY <2>6, <2>7, LenProperties
  <2>9. ASSUME NEW i \in 1 .. c
        PROVE  SubSeq(logs, a, k)[i].nr = SubSeq(nrs, a, k)[i]
    <3>1. a + i - 1 \in 1 .. k
      BY <2>1 DEF c
    <3>2. logs[a + i - 1].nr = f + (a + i - 1)
      BY <1>2, <3>1
    <3>3. QED
      BY <2>6, <2>7, <3>1, <3>2
  <2>10. SubSeq(nrs, a, k) = [i \in 1 .. c |-> SubSeq(nrs, a, k)[i]]
    BY <2>7, <2>8, LenProperties
  <2>11. [i \in DOMAIN RecentLogs(most) |-> RecentLogs(most)[i].nr] = SubSeq(nrs, a, k)
    BY <2>3, <2>8, <2>9, <2>10
  <2>12. nrs = [i \in 1 .. Len(logged) - FirstKept |-> FirstKept + i]
    BY <1>1, <1>2
  <2>13. QED
    BY <2>4, <2>11, <2>12
<1>5. ASSUME NEW level \in Levels
      PROVE  LET ofLevel == {m \in FirstKept + 1 .. Len(logged) : logged[m] = level}
             IN  {e.nr : e \in FilteredLogs(most, level)} =
                   {m \in ofLevel : Cardinality({q \in ofLevel : q > m}) < most}
  <2> DEFINE A == {i \in DOMAIN logs : logs[i].level = level}
             B == {m \in FirstKept + 1 .. Len(logged) : logged[m] = level}
             later(j) == {i \in A : i > j}
             last(m) == {q \in B : q > m}
  <2>1. A \in SUBSET Int /\ IsFiniteSet(A)
    <3>1. A \in SUBSET (1 .. k) /\ IsFiniteSet(1 .. k)
      BY <1>2, FS_Interval
    <3>2. QED
      BY <3>1, FS_Subset
  <2>2. B = {f + i : i \in A}
    <3>1. ASSUME NEW i \in A PROVE f + i \in B
      BY <1>1, <1>2
    <3>2. ASSUME NEW m \in B PROVE m - f \in A /\ m = f + (m - f)
      BY <1>1, <1>2
    <3>3. QED
      BY <3>1, <3>2
  <2> HIDE DEF A, B
  <2>3. \A j \in Int : Cardinality(later(j)) = Cardinality(last(f + j))
    <3>1. ASSUME NEW j \in Int
          PROVE  Cardinality({i \in A : i > j}) = Cardinality({q \in B : q > f + j})
      <4>1. f \in Int
        OBVIOUS
      <4>2. PICK X, Y : X = {i \in A : i > j} /\ Y = {q \in B : q > f + j}
        OBVIOUS
      <4>3. Shifted(A, f, B)
        BY <2>1, <2>2, <4>1 DEF Shifted
      <4>4. Beyond(A, j, X) /\ Beyond(B, f + j, Y)
        BY <4>2 DEF Beyond
      <4>5. Cardinality(X) = Cardinality(Y)
        BY <2>1, <4>1, <4>3, <4>4, CountShifted
      <4>6. QED
        BY <4>2, <4>5
    <3>2. QED
      BY <3>1
  <2> HIDE DEF later, last
  <2>4. \A i \in A : logs[i].nr = f + i /\ i \in Int
    BY <1>2, <2>1 DEF A
  <2>5. FilteredLogs(most, level) = {logs[i] : i \in {j \in A : Cardinality(later(j)) < most}}
    BY DEF FilteredLogs, A, later
  <2>6. {e.nr : e \in FilteredLogs(most, level)} = {f + i : i \in {j \in A : Cardinality(later(j)) < most}}
    BY <2>4, <2>5
  <2>7. {f + i : i \in {j \in A : Cardinality(later(j)) < most}} = {m \in B : Cardinality(last(m)) < most}
    BY <2>2, <2>3, <2>4
  <2>8. QED
    BY <2>6, <2>7 DEF B, last
<1>6. QED
  BY <1>4, <1>5

(* Nothing recent is missing from what the logs page may ask for, for any  *)
(* capacity and any set of levels.                                         *)
THEOREM NothingRecentMissing == LogSpec => []LogsAreNewest
BY NewestFollows, LogStart, LogStep, PTL DEF LogSpec

-----------------------------------------------------------------------------
(* The rate limiter: the bucket gives out no more than its rate allows. *)

(* The part of the state the bound speaks of. *)
BucketOK ==
  /\ limit \in Limits
  /\ tokens \in 0 .. Bucket
  /\ clock \in Nat /\ lastRefill \in 0 .. clock
  /\ granted \in Nat

LimiterInv == BucketOK /\ RateBound

LEMMA LimitIsNatural ==
  ASSUME BucketOK
  PROVE  Bucket \in Nat /\ Amount \in Nat /\ tokens \in Nat /\ lastRefill \in Nat
<1>1. limit \in [max : Nat, rate : Nat]
  BY LimiterAssumption DEF BucketOK
<1>2. limit.max \in Nat /\ limit.rate \in Nat
  BY <1>1
<1>3. Bucket \in Nat /\ Amount \in Nat
  BY <1>2, LimiterAssumption DEF Bucket, Amount
<1> QED
  BY <1>3 DEF BucketOK

(* Rounding down: what a refill adds is no more than the rate allows. *)
LEMMA RoundedDown ==
  ASSUME NEW n \in Nat, NEW k \in Nat \ {0}
  PROVE  n \div k \in Nat /\ k * (n \div k) <= n
  OBVIOUS

LEMMA DueIsEarned ==
  ASSUME BucketOK
  PROVE  Due \in Nat /\ Interval * Due <= (clock - lastRefill) * Amount
<1>1. (clock - lastRefill) \in Nat /\ Amount \in Nat
  BY LimitIsNatural DEF BucketOK
<1>2. (clock - lastRefill) * Amount \in Nat
  BY <1>1
<1> QED
  BY <1>2, RoundedDown, LimiterAssumption DEF Due

(* A refill keeps the bucket within its size, and what it adds is paid for *)
(* by the time that last_refill moves on.                                  *)
LEMMA RefillIsPaid ==
  ASSUME BucketOK, RefillTime
  PROVE  /\ Refilled \in 0 .. Bucket
         /\ lastRefill' \in 0 .. clock
         /\ Interval * Refilled <= Interval * tokens + Amount * (lastRefill' - lastRefill)
<1>1. CASE Due > 0
  <2>1. Refilled \in 0 .. Bucket /\ Refilled <= tokens + Due
    BY <1>1, LimitIsNatural, DueIsEarned DEF BucketOK, Refilled, AtMost
  <2>2. lastRefill' = clock
    BY <1>1 DEF RefillTime
  <2>3. Interval * Refilled <= Interval * tokens + Interval * Due
    BY <2>1, LimitIsNatural, DueIsEarned, LimiterAssumption
  <2>4. Interval * Due <= Amount * (clock - lastRefill)
    BY DueIsEarned, LimitIsNatural DEF BucketOK
  <2>5. /\ Interval * Refilled \in Int /\ Interval * tokens \in Int
        /\ Interval * Due \in Int /\ Amount * (clock - lastRefill) \in Int
    BY <2>1, LimitIsNatural, DueIsEarned, LimiterAssumption DEF BucketOK
  <2> QED
    BY <2>1, <2>2, <2>3, <2>4, <2>5 DEF BucketOK
<1>2. CASE ~(Due > 0)
  <2>1. Refilled = tokens /\ lastRefill' = lastRefill
    BY <1>2 DEF Refilled, RefillTime
  <2> QED
    BY <2>1, LimitIsNatural, LimiterAssumption DEF BucketOK
<1> QED
  BY <1>1, <1>2

(* Taking a token, or being left without one, keeps the bound. *)
LEMMA TakingKeepsBound ==
  ASSUME LimiterInv, RefillTime, UNCHANGED <<limit, clock>>,
         Grant \/ (tokens' = Refilled /\ UNCHANGED granted)
  PROVE  LimiterInv'
<1>1. /\ Refilled \in 0 .. Bucket
      /\ lastRefill' \in 0 .. clock
      /\ Interval * Refilled <= Interval * tokens + Amount * (lastRefill' - lastRefill)
  BY RefillIsPaid DEF LimiterInv
<1>2. Bucket \in Nat /\ Amount \in Nat /\ tokens \in Nat /\ lastRefill \in Nat /\ granted \in Nat
      /\ One \in Nat \ {0} /\ Interval \in Nat
  BY LimitIsNatural, LimiterAssumption DEF LimiterInv, BucketOK
<1>3. Bucket' = Bucket /\ Amount' = Amount
  BY DEF Bucket, Amount
<1>4. /\ granted' \in Nat /\ tokens' \in 0 .. Bucket
      /\ One * granted' + tokens' = One * granted + Refilled
  <2>1. CASE Grant
    <3>1. /\ Refilled >= One /\ tokens' = Refilled - One
          /\ granted' = granted + 1
      BY <2>1 DEF Grant
    <3>2. One * granted' = One * granted + One
      BY <3>1, <1>2
    <3> QED
      BY <3>1, <3>2, <1>1, <1>2
  <2>2. CASE tokens' = Refilled /\ UNCHANGED granted
    BY <2>2, <1>1, <1>2
  <2> QED
    BY <2>1, <2>2
<1>5. BucketOK'
  BY <1>1, <1>2, <1>3, <1>4 DEF BucketOK, LimiterInv
<1>6. Interval * (One * granted' + tokens') <= Interval * Bucket + Amount * lastRefill'
  <2> DEFINE given == One * granted
  <2>1. given \in Nat
    BY <1>2
  <2>2. Interval * (given + tokens) <= Interval * Bucket + Amount * lastRefill
    BY DEF LimiterInv, RateBound
  <2>3. Interval * (given + tokens) = Interval * given + Interval * tokens
    BY <2>1, <1>2
  <2>4. Interval * (given + Refilled) = Interval * given + Interval * Refilled
    BY <2>1, <1>1, <1>2
  <2>5. Amount * (lastRefill' - lastRefill) = Amount * lastRefill' - Amount * lastRefill
    BY <1>1, <1>2 DEF BucketOK, LimiterInv
  <2>6. Interval * (given + Refilled) <= Interval * Bucket + Amount * lastRefill'
    <3> DEFINE a == Interval * given
               b == Interval * tokens
               r == Interval * Refilled
               m == Interval * Bucket
               old == Amount * lastRefill
               new == Amount * lastRefill'
    <3>1. a \in Int /\ b \in Int /\ r \in Int /\ m \in Int /\ old \in Int /\ new \in Int
      BY <2>1, <1>1, <1>2 DEF BucketOK, LimiterInv
    <3>2. a + b <= m + old /\ r <= b + (new - old)
      BY <2>2, <2>3, <2>5, <1>1
    <3>3. a + r <= m + new
      <4> HIDE DEF a, b, r, m, old, new
      <4> QED BY <3>1, <3>2
    <3> QED
      BY <3>3, <2>4
  <2> QED
    BY <2>6, <1>4
<1> QED
  BY <1>3, <1>5, <1>6 DEF LimiterInv, RateBound

LEMMA LimiterStep == LimiterInv /\ [LimiterNext]_limiterVars => LimiterInv'
<1> SUFFICES ASSUME LimiterInv, [LimiterNext]_limiterVars PROVE LimiterInv'
  OBVIOUS
<1>1. CASE LimiterTick
  BY <1>1, LimiterAssumption
  DEF LimiterTick, LimiterInv, BucketOK, RateBound, Bucket, Amount
<1>2. ASSUME NEW t \in Takers, Acquire(t) PROVE LimiterInv'
  BY <1>2, TakingKeepsBound DEF Acquire
<1>3. ASSUME NEW t \in Takers, TryAcquire(t) PROVE LimiterInv'
  BY <1>3, TakingKeepsBound DEF TryAcquire
<1>4. CASE UNCHANGED limiterVars
  BY <1>4 DEF limiterVars, LimiterInv, BucketOK, RateBound, Bucket, Amount
<1> QED
  BY <1>1, <1>2, <1>3, <1>4 DEF LimiterNext

-----------------------------------------------------------------------------
(***************************************************************************)
(* RateBound, for every set of limits: whatever the tasks do, the tokens   *)
(* given out are those of the full bucket and of the time that has passed. *)
(***************************************************************************)
THEOREM NeverBeyondTheRate == LimiterSpec => []RateBound
<1>1. LimiterInit => LimiterInv
  <2> SUFFICES ASSUME LimiterInit PROVE LimiterInv
    OBVIOUS
  <2>1. limit.max \in Nat /\ limit.rate \in Nat /\ One \in Nat /\ Interval \in Nat
    BY LimiterAssumption DEF LimiterInit
  <2>2. Bucket \in Nat /\ Amount \in Nat
    BY <2>1 DEF Bucket, Amount
  <2> QED
    BY <2>1, <2>2 DEF LimiterInit, LimiterInv, BucketOK, RateBound
<1>2. LimiterInv => RateBound
  BY DEF LimiterInv
<1> QED
  BY <1>1, <1>2, LimiterStep, PTL DEF LimiterSpec

(* The clock stays in its bound, and no task is forgotten. *)
LimiterShape == limit \in Limits /\ clock \in 0 .. MaxClock /\ DOMAIN sleeps = Takers

LEMMA LimiterStart == LimiterInit => LimiterInv /\ LimiterShape
<1> SUFFICES ASSUME LimiterInit PROVE LimiterInv /\ LimiterShape
  OBVIOUS
<1>1. limit.max \in Nat /\ limit.rate \in Nat /\ One \in Nat /\ Interval \in Nat
  BY LimiterAssumption DEF LimiterInit
<1>2. Bucket \in Nat /\ Amount \in Nat
  BY <1>1 DEF Bucket, Amount
<1>3. LimiterInv
  BY <1>1, <1>2 DEF LimiterInit, LimiterInv, BucketOK, RateBound
<1>4. LimiterShape
  BY LimiterAssumption DEF LimiterInit, LimiterShape
<1>5. QED
  BY <1>3, <1>4

LEMMA ShapeStep == LimiterShape /\ [LimiterNext]_limiterVars => LimiterShape'
<1> SUFFICES ASSUME LimiterShape, [LimiterNext]_limiterVars PROVE LimiterShape'
  OBVIOUS
<1>1. CASE LimiterTick
  BY <1>1, LimiterAssumption DEF LimiterTick, LimiterShape
<1>2. ASSUME NEW t \in Takers, Acquire(t) PROVE LimiterShape'
  BY <1>2 DEF Acquire, LimiterShape
<1>3. ASSUME NEW t \in Takers, TryAcquire(t) PROVE LimiterShape'
  BY <1>3 DEF TryAcquire, LimiterShape
<1>4. CASE UNCHANGED limiterVars
  BY <1>4 DEF limiterVars, LimiterShape
<1>5. QED
  BY <1>1, <1>2, <1>3, <1>4 DEF LimiterNext

-----------------------------------------------------------------------------
(* The health checks. *)

LEMMA OrderLemma ==
  /\ Len(Order) \in Nat \ {0} /\ DOMAIN Order = 1 .. Len(Order)
  /\ \A i \in 1 .. Len(Order) : Order[i] \in ConnectorNames
BY HealthAssumption, EmptySeq, LenProperties DEF ConnectorNames

(* The next of the round is one of the order's, the last one's too. *)
LEMMA RoundLemma ==
  ASSUME NEW n \in Nat \ {0}, NEW i \in 1 .. n
  PROVE  (i % n) + 1 \in 1 .. n
OBVIOUS

LEMMA HealthStart == HealthInit => HealthTypeOK
<1> SUFFICES ASSUME HealthInit PROVE HealthTypeOK
  OBVIOUS
<1>1. nextStart \in 1 .. Len(Order) + 1 /\ nextPing \in 1 .. Len(Order)
  BY OrderLemma DEF HealthInit
<1>2. task \in [ConnectorNames -> {"none", "running", "off"}]
  BY DEF HealthInit
<1>3. failures \in [ConnectorNames -> 0 .. 3]
  BY DEF HealthInit
<1>4. status \in [ConnectorNames -> {"unknown", "healthy", "degraded", "unhealthy"}]
  BY DEF HealthInit
<1>5. QED
  BY <1>1, <1>2, <1>3, <1>4 DEF HealthInit, HealthTypeOK

LEMMA HealthStep == HealthTypeOK /\ [HealthNext]_healthVars => HealthTypeOK'
<1> SUFFICES ASSUME HealthTypeOK, [HealthNext]_healthVars PROVE HealthTypeOK'
  OBVIOUS
<1>1. CASE StartConnector
  <2>1. PICK outcome \in {"running", "off"} : task' = [task EXCEPT ![Order[nextStart]] = outcome]
    BY <1>1 DEF StartConnector
  <2>2. task' \in [ConnectorNames -> {"none", "running", "off"}]
    BY <2>1 DEF HealthTypeOK
  <2>3. nextStart' \in 1 .. Len(Order) + 1
    BY <1>1, OrderLemma DEF StartConnector, HealthTypeOK
  <2>4. QED
    BY <1>1, <2>2, <2>3 DEF StartConnector, HealthTypeOK
<1>2. CASE Ping
  <2>1. PICK c : c = Order[nextPing]
    OBVIOUS
  <2>2. /\ RecordHealthy(c) \/ RecordUnhealthy(c)
        /\ nextPing' = (nextPing % Len(Order)) + 1
        /\ UNCHANGED <<nextStart, task, up, hung>>
    BY <1>2, <2>1 DEF Ping
  <2>3. nextPing' \in 1 .. Len(Order)
    BY <2>2, OrderLemma, RoundLemma DEF HealthTypeOK
  <2>4. failures' \in [ConnectorNames -> 0 .. 3]
    BY <2>2 DEF RecordHealthy, RecordUnhealthy, HealthTypeOK
  <2>5. status' \in [ConnectorNames -> {"unknown", "healthy", "degraded", "unhealthy"}]
    BY <2>2 DEF RecordHealthy, RecordUnhealthy, HealthTypeOK
  <2>6. QED
    BY <2>2, <2>3, <2>4, <2>5 DEF HealthTypeOK
<1>3. CASE PingHangs
  BY <1>3 DEF PingHangs, HealthTypeOK
<1>4. ASSUME NEW c \in ConnectorNames, UpTurns(c) PROVE HealthTypeOK'
  BY <1>4 DEF UpTurns, HealthTypeOK
<1>5. CASE UNCHANGED healthVars
  BY <1>5 DEF healthVars, HealthTypeOK
<1>6. QED
  BY <1>1, <1>2, <1>3, <1>4, <1>5 DEF HealthNext

-----------------------------------------------------------------------------
(* All of them side by side. *)

(* A plain loop takes no step that the other may not take. *)
LEMMA PlainIsALoop == Plain!Next => Next
<1> SUFFICES ASSUME Plain!Next PROVE Next
  OBVIOUS
<1>1. Plain!StartPoll => StartPoll
  BY DEF Plain!StartPoll, StartPoll, Plain!Admit, Admit, Plain!Never, Never, Plain!breaker, breaker,
         Plain!trip, trip
<1>2. Plain!NextSource => NextSource
  BY DEF Plain!NextSource, NextSource
<1>3. Plain!Answers = Answers
  BY DEF Plain!Answers, Answers
<1>4. ASSUME NEW ok, Plain!Record(ok), Plain!Note(ok) PROVE Record(ok) /\ Note(ok)
  BY <1>4 DEF Plain!Record, Record, Plain!RecordSuccess, RecordSuccess, Plain!RecordFailure,
     RecordFailure, Plain!Up, Up, Plain!Never, Never, Plain!Note, Note
<1>5. Plain!Answer => Answer
  BY <1>2, <1>3, <1>4 DEF Plain!Answer, Answer
<1>6. Plain!Pass => Pass
  BY DEF Plain!Pass, Pass, Plain!Elapse, Elapse, Plain!Up, Up, Plain!Never, Never, Plain!loop, loop
<1>7. Plain!Turn => Turn
  BY DEF Plain!Turn, Turn, Plain!Upstream, Upstream, Plain!breaker, breaker, Plain!loop, loop,
     Plain!trip, trip
<1>8. QED
  BY <1>1, <1>5, <1>6, <1>7
  DEF Plain!Next, Next, Plain!EmptyAnswer, Plain!RefreshToken, Plain!ManualReset

ServicesInv ==
  /\ part \in Parts
  /\ PollInv /\ PluginsInv /\ LimiterInv /\ LimiterShape /\ HealthTypeOK
  /\ WebhookInv /\ LogInv /\ ConsoleInv /\ TagsInv

(***************************************************************************)
(* Every part keeps its types, beside the others, for all thresholds,      *)
(* callers, limits, connectors, clients, levels and visitors.              *)
(***************************************************************************)
THEOREM ServicesTypeCorrect == MCSpec => []ServicesTypeOK
<1>1. MCInit => ServicesInv
  BY PollInit, PluginsStart, LimiterStart, HealthStart, WebhookStart, LogStart,
     ConsoleStart, TagsStart DEF MCInit, ServicesInv
<1>2. ServicesInv /\ [MCNext]_allVars => ServicesInv'
  <2> SUFFICES ASSUME ServicesInv, [MCNext]_allVars PROVE ServicesInv'
    OBVIOUS
  <2>1. /\ [Next]_vars /\ [PluginsNext]_pluginVars /\ [LimiterNext]_limiterVars
        /\ [HealthNext]_healthVars /\ [WebhookNext]_webhookVars /\ [LogNext]_logVars
        /\ [ConsoleNext]_consoleVars /\ [TaggingNext]_tagVars /\ UNCHANGED part
    BY PlainIsALoop DEF MCNext, RestExcept, allVars
  <2>2. PollInv' /\ PluginsInv' /\ HealthTypeOK' /\ WebhookInv'
    BY <2>1, PollStep, PluginsKept, HealthStep, WebhookStep DEF ServicesInv
  <2>3. LogInv' /\ ConsoleInv' /\ TagsInv'
    BY <2>1, LogStep, ConsoleKept, TagsStep DEF ServicesInv
  <2>4. LimiterInv' /\ LimiterShape'
    BY <2>1, LimiterStep, ShapeStep DEF ServicesInv
  <2>5. QED
    BY <2>1, <2>2, <2>3, <2>4 DEF ServicesInv
<1>3. ServicesInv => ServicesTypeOK
  BY DEF ServicesInv, ServicesTypeOK, PollInv, PluginsInv, LimiterInv, BucketOK, LimiterShape,
     LimiterTypeOK, WebhookInv, LogInv, ConsoleInv, TagsInv
<1>4. QED
  BY <1>1, <1>2, <1>3, PTL DEF MCSpec
=============================================================================
