# OpenSoma in TLA+

OpenSoma (`src/`) is a daemon that collects events on a node (files, processes,
network, clipboard, chat and code services), processes them, and uploads them to
a server called Soul.  This directory holds TLA+ models of it, the instances TLC
checks, and theorems TLAPS proves.  Paths below are relative to the repository's
`src/`, paths of code with its inner `src/` left out; `PROJECT.json` maps every
definition to the lines it stands for and lists the hazards the properties are
for.

## The system

```
collectors ─┐                    ┌───────────┐                 ┌─────────────┐
connectors ─┼─ mpsc(1024) raw ──▶│ processor │─ mpsc(1024) ───▶│ sync engine │─ HTTP ─▶ Soul
webhook ────┘                    └───────────┘  processed      └──────┬──────┘
 each connector owns a circuit breaker                         sled cache
 beside them: plugin registry, health checks, status server, log ring,
 configuration watcher; and the same program's commands (--export, --doctor, …)
```

| Part | State | Operations | Hard part | What makes it correct |
|---|---|---|---|---|
| Sync engine `sync/mod.rs`, `sync/upload.rs`, `grpc/client.rs` | pending batch, place in the upload | receive, timer tick, resolve conflicts, post a batch in chunks, fall back to single posts, flag | awaits between every two steps; partial failure; crash; outage | no event skipped, flags are true, newest version last, everything offered eventually |
| Cache `sync/cache.rs` | sled tree id → entry | put, mark_uploaded, get_snapshot, evict_before, stats | several versions of an id; runs of the daemon share it with the commands | pending entries are never forgotten |
| Conflict resolution `sync/conflict.rs` | strategy | resolve | the "server" version is the cached one | merging loses no tag; only server_wins drops |
| Processor `processor/` | dedup deque, event in hand | normalise, size check, tag, dedup, forward | bounded channels on both sides; window kept in a deque emptied from the front; parts that agree by words only | FIFO, one of each key per window, nothing else lost; nobody writes over a source's tag |
| Circuit breaker `connector/circuit_breaker.rs` | state, streaks, opened_at | allow_request, record_success, record_failure, reset | used by two timers of one task, several times per poll | trips in time, keeps its cooldown, never stuck |
| Polling connectors `connector/*.rs` (eleven) | cursor or seen set, batch in hand | ask, retry, page, filter, forward | cursor or seen set moves before the forward succeeds; pages smaller than the news; repeated requests | no item twice, none out of order, none lost but in the known ways, the breaker hears of every poll that has something to report (Teams and Notion do send items again) |
| Git, Obsidian, collectors `collector/` | known hashes, last snapshot | scan or snapshot, compare, try_send | changes during a scan; unreadable parts; dropped events | no false deletion; what is remembered is what was told; all changes are told in the end |
| Connector start and health `connector/mod.rs`, `health.rs` | failure counts, status | start in order, ping in turn | a ping or start that hangs or fails | the status shown comes to what is |
| Rate limiter `connector/rate_limiter.rs` | tokens in fixed point | acquire, try_acquire, refill | truncation; several tasks that sleep and ask again | no more than burst plus rate |
| Webhook `connector/webhook.rs` | window counter per address | admit, forward, clean up | fixed windows; a waiting send; clients that hang up | at most twice the limit in any window |
| Plugin registry `plugins/` | entries, instances with a lock each | register, activate, deactivate, dispatch | the registry's lock is released around the plugin's calls; a parse may hang | active means running; every call ends that no hung parse is in the way of |
| Status server `status_server.rs` | maps under read-write locks | some thirty routes | several locks per handler, writers that wait, clients that hang up | every request is answered; toggle's two maps agree |
| Log ring `log_buffer.rs` | recent entries | push, clear, list | pushed from every thread | the newest entries, in order |
| Process `main.rs`, `config.rs` | tasks, workers, config.toml, database lock | start, reload, signal, drop of the runtime; 23 commands | a task that blocks its worker; files that change or are broken while read | the level follows the file; a stopped process ends |
| Heartbeat, metrics | – | post, count | – | not modelled |

Interactions: the two bounded channels are the only way events travel; back
pressure travels the other way (an upload in progress stops the engine's loop,
then the pipeline, then the producers that `send`; those that `try_send` drop).
The status server reads a snapshot the engine writes at its ticks.  The commands
open the cache only while no daemon runs (sled locks it).  Shutdown aborts every
task.

## Modules

| Module | Models |
|---|---|
| `Events` | `RawEvent` as the engine sees it: id, payload hash, timestamp, tags; ids may repeat (telegram's `tg_{update_id}`, imports) |
| `Cache` | each method of `Cache` as a function of the tree; sled itself is external |
| `Conflict` | `resolve` and what `detect_and_resolve_local_conflicts` makes of it |
| `Delivery` | abstract: what is taken over is offered at least once |
| `SyncEngine` | the engine, the upload path, the processed channel, the network, runs of the daemon, `--import`, `--prune` |
| `UniqueFeed` | abstract: FIFO, one item of each class per period |
| `Pipeline` | both channels around `run_pipeline`, with the deduplicator |
| `Tagging` | what normalisation, sense marks, classification and enrichment do to the tags and the class of every event the sources make |
| `CircuitBreaker` | the breaker; each method runs under one mutex, so it is one step |
| `PollLoop` | a connector task with its breaker; constants choose the kind of loop |
| `Forwarding` | what the polling connectors share: a service, a poll of several fetches, a batch, a cursor or a seen set, the raw channel |
| `ChatConnectors` | Slack, Telegram, Discord, Teams |
| `FeedConnectors` | RSS, WeCom, DingTalk, email, GitHub, Feishu, Notion |
| `Connectors` | all eleven, and what may be expected of them |
| `LocalSources` | Git, Obsidian, and the process, network, clipboard and file collectors |
| `ConnectorHealth` | `start_all` and the ping rounds |
| `RateLimiter`, `Webhook`, `Plugins`, `LogBuffer`, `Console` | the components of these names |
| `Configuration` | `load`, `validate`, the environment's overrides, the file `--init` writes |
| `Daemon` | the process: start, reload, shutdown, worker threads, database lock, commands |
| `MCSyncEngine`, `MCConnectors` | events, ids, items for TLC |
| `MCDaemon`, `MCServices` | several components in one run |
| `SyncEngineProofs`, `PollLoopProofs`, `PipelineProofs`, `LocalSourcesProofs`, `ForwardingProofs`, `ConnectorsProofs`, `ServicesProofs`, `NodeProofs` | theorems and their lemmas |

`MCDaemon` and `MCServices` put components that share no state side by side:
`part` chooses one at the start, the others stay where they are.  Their product
would only repeat each component's states.  What does interact is composed:
the breaker with its loop, the cache and the resolver with the engine, the
channels with the pipeline, the configuration with the process and its commands.

### SyncEngine and the code

`pc` is where the engine task stands: `select` (the `select!`), `stream` (awaiting
`stream_event`), `detect` (resolving conflicts), `post` (awaiting a batch request),
`single` (awaiting a single request of the fallback), `mark` (flagging), `down` (no
daemon).  Between any two of its steps the producer may send, the network may
change, the daemon may be stopped or crash.  `Stop` covers both ends: an aborted or
killed request may or may not have left.  `posted`, `received` and `discarded` are
history.  Left out: metrics, the resolver's history, byte sizes.  The `Err` arm of
`upload_batch` cannot be reached, because `SoulClient::upload_events` and
`upload::upload_events` return `Ok` after any failure; the model therefore has no
retries, and two findings follow from it.  sled's write-back is taken as durable at
once.  Time of entries is the number of the run that wrote them, which is what an
eviction between runs can tell apart.

### Pipeline, Tagging and the code

`Process` is one turn of `run_pipeline` from `recv` to the send: everything between
is synchronous, except locks nobody else holds for long.  A payload is a sequence
of blocks, so that the cut at `max_event_size`, the drop above twice of it and the
4 KB sample of the dedup key are what they are in the code.  The 64-bit hash of the
key is taken to be without collisions.  `SinkEnds` is the end of the engine task.

`Tagging` follows one event.  Each source's definition lists the words its code
writes: source, event type, tags.  The steps then write tags, and `writer` keeps
who wrote each.  What a text contains (entities, keywords, a language) is any of
the possible outcomes; what is checked is how the vocabularies of thirty sources,
the classifier and the enricher fit.

### PollLoop, Forwarding and the code

A poll tick asks the breaker (`StartPoll`), then each source's answer is recorded
(`Answer`); `Sources` is the number of feeds, channels or accounts.
`RefreshesToken` is the second timer of wecom, feishu and dingtalk,
`SilentWhenEmpty` the unrecorded empty answer of discord and teams, `CanReset`
the public `reset` that nothing of the daemon calls.  Instants are time since,
counted up to the cooldown; streaks are counted up to `MaxStreak`.

`Forwarding` is the other half of the same loops: what a poll that was let through
does.  Items are numbered in the order the service got them.  `pc` tells where the
task awaits: the tick, an answer, the wait after a 429, a place in the channel.
Each connector's module text is its answers: which page of what is visible comes
(newest or oldest first, how many), what moves the cursor or enters the seen set
and when, whether the send waits, and where the breaker is told (`owed` is the poll
it has not heard of).  `folder` says whether Feishu has a folder to list; `EndsUntold`
is a poll that ends before anything was fetched without a word to the breaker.
`Dated` are the messages whose creation time Teams' `ChatMessage` has: none, because
Graph calls it `createdDateTime`, the field is `created_date_time`, and nothing
renames it.  `lost` collects the ways an item can be given up that the
code shows plainly, so that `NothingElseLost` says there are no others.

### Console, Plugins and the code

A visit is a request, or a turn of one of the daemon's own tasks (`OwnTasks`), that goes
through the locks its handler takes (`Script`), with the queue of each lock.  A handler
is dropped where it waits when its client hangs up (`GivesUp`): what it has written
stays.  `cut` is history: the connectors whose last toggle ended so between its two
writes.

`Plugins` has the entry, the instances with a lock each, and calls that stand between
any two awaits.  A parse may hang (`Hangs`): requests and processes of the sense plugins
have no timeout.  It keeps the lock of its instance.

### LocalSources and the code

A path is a file, a process id, a connection or the clipboard, and a version its
content.  `world` changes at any time; `copy` is Git's working copy or the snapshot
under comparison, `known` the remembered hashes, `told` what the events sent so far
add up to.  Directories and tables under `/proc` may be unreadable at any listing,
files may be too large or no text.  `try_send` fails whenever it may.

### Daemon and the code

`main` is where the main thread is, from the load of the file to the drop of the
runtime.  The task of `watch_config` waits in a blocking `recv` and keeps its
worker: `WorkerFree` says that another is left for everything else, which guards
what other tasks do.  A command is chosen by the options it is given
(`OptionOrder` is the order in which `parse_config_path` looks for them), then
loads the configuration, asks the daemon or opens the database, and ends with its
exit code.

## Runs

All bounds are constants of the cfg.

| Run | Result | Shows |
|---|---|---|
| `sync_safety` | holds | nothing is skipped; flags are true; the cache covers the batch; the latest version goes last; merged tags are complete; the cache forgets nothing (`merge`, two runs, an outage, imports, evictions, rejections, chunks of one) |
| `sync_contract` | holds | the engine with `server_wins` implements `Delivery`; every event is offered eventually; the snapshot converges (chunks of two, batch of three, an outage) |
| `sync_faults` | holds | even if every cache operation may fail, with streaming and `keep_both`, no event is skipped |
| `daemon` | holds | the deque is an exact sliding window and the pipeline implements `UniqueFeed`, consumer's end included; back-pressure ends; the log level follows the file |
| `connectors` | holds | no item twice (Notion and Teams apart), none of Slack, Telegram or Discord out of order, none lost in an unknown way; the breaker hears of every poll but the empty ones (`MayEndUntold`); GitHub forwards what stays on its page |
| `local_sources` | holds | what is remembered is what was told; no false deletion; every change is told |
| `services` | holds | breaker, registry, limiter, health, webhook, log ring, console and tagging (see the table above) |
| `sync_offline` | violated | README.md:43 promises a retry on reconnection: a batch sent during an outage is flagged and gone |
| `sync_restart` | violated | `sync/cache.rs:103` "(for retry on restart)": what the first run left pending stays pending in the second (`get_pending` has no caller); `NoImportSpec` leaves imports out, so that every entry is a run's own |
| `sync_newest` | violated | `newest_wins` uploads the older version |
| `file_watcher` | violated | README.md:50: the file collector's watcher is dropped as soon as it is set up; a change after `start_watcher` returned is never told |
| `shutdown` | violated | main.rs:193 "graceful stop": after a signal to a daemon that serves the process hangs, because the configuration watcher keeps a worker thread |

Bounds, and why they are enough:

* Sync: three or four sends make a full batch with two versions of an id and a
  follow-up; two runs are what a restart finds in the cache; one outage cuts a batch
  in the middle, and with `SoulRejects` requests also fail while Soul is reachable.
  Batches of 2 and 3 and chunks of 1 and 2 give whole, partial and several chunks.
* Pipeline: ages are kept up to one past the window, so that time needs no bound;
  raw channel 2 and output channel 1 are full, empty and partly full; six events
  cover equal keys with different contents, the cut, the drop, the missing source.
* Daemon: one and two workers, with an absolute path or not, five files (two that
  cannot be loaded, one with a level that cannot be set, one that is invalid), two
  environments, two edits, and one command at a time beside the daemon.
* Connectors: three items and pages of two, so that news exceed a page; a seen set
  cut from two to one; two attempts; one place in the channel, which others fill.
* Local sources: two paths, versions 0 to 3 (3 apart enough for the process
  threshold, 2 unreadable), two changes, at any moment of a scan.
* Services: two sources, three failures to trip and three successes to close, so
  that both take more than one poll; two callers and two instances of a plugin; the
  presets of the limiter with small bursts and three seconds in quarters; three
  connectors of which one ping has no timeout; three requests with a limit of 1 and
  a window of 2 in six seconds; a ring of two and five entries; two visitors.

Deadlock is checked in the runs of the engine, but for `sync_restart`, which stops when all
is sent and no import may follow.  The other configurations switch it
off, because their systems come to an end: a process and its commands, a source
whose tool is missing, a connector whose service gets no more items, and the
bounded clocks and counters.

## Divergences without a run

Found while modelling, plain from the code, and not worth a run of their own.

Engine and pipeline:

* `sync/mod.rs:84` "Cache locally first (for offline retry)": with streaming the
  event is sent, and awaited, before it is cached; a crash in between loses it.
* `status_server.rs:911` "Eviction request accepted. Sync engine will process on
  next tick.": the handler changes nothing, and no part of the engine evicts.
  `cache_size_mb` is only displayed by the console, nothing enforces it.
* `config.rs:625` "sync.batch_size is 0 — events will never be uploaded": with 0
  every event is a full batch and goes up at once.
* `processor/dedup.rs:8` "Uses SHA-256 of (source + payload_hash)": only the first
  4096 bytes of the payload count (`dedup.rs:56`), so that long events which differ
  later are dropped.

Breaker and connectors:

* `connector/circuit_breaker.rs:5` "Open: requests are rejected immediately": the
  loops ask once per poll and query their remaining sources after the circuit
  opened.
* `connector/circuit_breaker.rs:6` "a single probe request is allowed; success →
  Closed": with the success threshold of 2 the circuit stays Half-Open and lets
  the next request through.
* `connector/circuit_breaker.rs:177` "Shouldn't happen (we shouldn't be recording
  success while open)": the token timers record without asking and close an open
  circuit before its cooldown.
* `connector/telegram.rs:217`: after a 429 the repeated request's updates only move
  the offset; none is forwarded.
* `connector/mod.rs:40`: the body of `retry_async` is pasted into its caller, so that
  `?` and `bail!` in it leave the caller instead of starting a new attempt.
* Email asks for sequence numbers and uses them across sessions as if they were
  UIDs; a mail read in a session that fails is not unread any more and is lost.
* Slack (README.md:61): replies to a thread whose parent was polled earlier are
  never fetched.
* `connector/feishu.rs:81` "new/updated": a document once seen is never sent again,
  updated or not; GitHub issues likewise.
* `connector/teams.rs:467` "Track the last seen message timestamp per channel for
  incremental fetching": `ChatMessage` (`teams.rs:107`) has no rename for Graph's
  `createdDateTime`, so that `created_date_time` is always `None`, `last_seen` is never
  written (`teams.rs:575`), and every poll forwards the newest page again.  The sort
  before forwarding (`teams.rs:541`) leaves it newest first, later messages before
  earlier ones; what is older than the newest page is never asked for.
* `connector/discord.rs:352`, `connector/teams.rs:531`: a poll without news is not
  recorded, nor is one of Teams that found no channels, nor one of Feishu with no folder
  (`connector/feishu.rs:131`): a Half-Open circuit does not hear of its probe and waits
  for the next.
* Discord ids are ordered as strings.  README and `--connectors` call Discord a WebSocket: it polls.
* Cursors and seen sets live in memory only: a restart sends or skips again.
* `/api/connectors/health` does not use the health checker; the webhook's ping tries
  to bind its own address, which fails while the webhook runs.
* No connector calls the rate limiter, and its refill drops the fraction of a token
  whenever its clock moves.
* `connector/webhook.rs:56` speaks of sliding window counters; the windows are fixed.

Collectors, plugins, tagging:

* A process's CPU share is always 0 on its first reading, which is the only one.
* Whisper that leaves no file is a success with an empty text; the video plugin's
  analyser `image` is not implemented.
* A parse that hangs keeps its plugin's lock: `deactivate` waits for ever
  (`plugins/mod.rs:303`), and then every later call behind it.
* Media files are never marked for sense plugins: the file collector sets neither
  `file_path` nor `path`, the two tags that are looked at.
* DingTalk sets `status`, the classifier looks for `approval_status`; a "document" of
  Git or Obsidian is classed as a notification.
* The tag limit is applied before the later tags are added.

Process and commands:

* README.md:44 "Hot-reload — … changes apply without restart": only the log level
  is applied, and only when the daemon was given an absolute path, because events
  name the file by its absolute path and the default `config.toml` never matches.
* `log_level` of the file is not used at the start (`RUST_LOG` or "info" is).
* With one worker thread the blocked watcher starves every other task.
* An error after `watch_config` (the database is locked, say) hangs in the same way
  as a shutdown, so that it is never printed.  A second Ctrl+C does not help: the
  handler stays installed.
* `--test-connector` (README.md:127) panics for every enabled connector: it blocks on a
  runtime of its own inside `main`'s (`main.rs:1469`).
* `--tail` (README.md:124 "Real-time event stream"): it holds the database, so that
  no daemon can write what it would show.
* `main.rs:79` "will retry via heartbeat": the heartbeat never registers a node.
* The environment replaces no field of Discord or Teams, contrary to the others.
* The console's `connector_event_counts`, `events_collected` and `events_synced` are
  never written; what toggle sets is read by nothing but the console.
* A toggle whose client hangs up at `status_server.rs:460` has written
  `connector_enabled` only; the two maps disagree until the connector is toggled again.

## What the contract does and does not say

`Delivery` says *offered*, not *stored*: a request that fails or is refused counts,
because for the code it does.  `sync_offline` is the other half of that sentence.
With `DiskMayFail` only `NoEventSkipped` and `CacheNeverForgets` are claimed: a
failed `put` leaves an old version in the cache, which the following
`mark_uploaded` then flags.

## Fairness

* Engine: `select!` chooses at random among ready branches, so neither is starved;
  the interval ticks for ever; every request ends (`SoulClient` sets a timeout).
  Weak fairness is therefore assumed of `Recv`, `Streamed`, `Tick` and the upload
  steps, never of producers, operators or outages.  `Start` and `Reconnect` are fair
  in the runs about what happens after them.
* Pipeline: its two steps and the consumer's.
* Poll loop: ticks, time and answers; the loops of slack (`Client::new()`) and email
  (IMAP) set no timeout, and the liveness claims are not about them.
* Connectors: the poll tick; of GitHub's requests, made again and again, one
  succeeds; a send that waits gets one of the places that become free again and
  again (tokio's channel queues those who wait).
* Local sources: the task goes on; of the listings that may fail or miss a part one
  is complete again and again.
* Plugins: tokio's locks are fair, so that a call whose lock is free again and again
  gets it.  A plugin's own call ends unless it hangs, which a parse may do at any time;
  `EveryCallEnds` claims nothing of the calls of an instance with a hung parse.
* Console: a request that can go on does; the queue of a lock is modelled.  No client
  need hang up.
* Health: pings follow one another unless one hangs.
* Daemon: the main thread, the watcher and the drop of the runtime go on when they
  can.  Nobody need send a signal, edit the file or stop a command.

## Proofs

All theorems hold for every value of the constants allowed by the named
assumptions; ids, events and payloads need not be finite, the cache tree is.

`SyncEngineProofs` first proves `Basic` (types and the shape of the buffers at each
`pc`), which needs nothing, then:

* `TypeCorrect`, `OneBatchAtMost`, `NothingForgotten`;
* `NothingSkipped`: with `CursorPosted` (what is before the cursor was posted) each
  step either keeps `Held` or moves events from it to `posted` or `discarded`.
  Holds with a failing disk;
* `FlagsAreTrue`, `BatchIsCached` and `Implements`, for a working disk.  `UploadedWasPosted` is not
  inductive: `mark_uploaded` flags what the id holds *now*.  The invariant that
  makes it so is `CacheCovers`: the cached version of any id with events in the
  batch is itself in the batch and goes up under the id.  It holds because an event
  is cached in the step that puts it in the batch; conflict detection compares
  against that version, so it never drops or renames it; and when the flags are set
  everything in the output was posted.  The whole invariant is `IInv`.
  `Implements` maps `waiting` to `Held` and `attempted` to `posted`, step by step;
  `CacheCovers` shows that a discarded event had a rival that is still waiting.

`PollLoopProofs` uses `PollInv` = types, `OpenedAtMatches`, `TripsInTime` and
`TripHistory` (an open circuit has been open since it tripped and nothing cleared
it since; a half-open one waited or was cleared; a closed one was cleared), from
which `PollTypeCorrect`, `OpenedAtKept`, `TripsAtThreshold` and `CooldownKept`
follow.  `OpenMeansQuiet` needs `Sources = 1`: with more, a poll goes on querying
after the circuit opened.

`PipelineProofs`: `WindowIsExact` needs to know what the deque, emptied from the front
only, still holds.  `PipelineInv` says that its ages never rise from front to back
(`OldestFirst`), so that what is too old is a prefix; that every young entry is the
last passing of its key (`EntriesPassed`), every young passing has its entry
(`PassedAreKept`), and only one content per key is young (`OnePerKey`).
`PipelineIsUniqueFeed` then maps the deque to the time since each key passed and goes
through the steps: the verdict of `Process` is the one `UniqueFeed` prescribes.

`SyncEngineProofs` ends with `CachedVersionLast` and `TagsSurviveMerge`, for a working
disk.  `OrderInv` adds to `IInv` that the last version of an id in `pending`, `batch` and
`output` is the cached one (`NewestLast`), and that a resolved copy has the tags of
the cached version it met, which is still cached (`TagsMerged`).

`LocalSourcesProofs`: `MemoryIsTold` follows from `ToldAsKnown` (while a snapshot is
reported, what is dealt with already is told as in the snapshot, the rest as
remembered), `EndsAreTrue` from `ListingTrue` (Git's listing misses nothing it could
read).

`ConnectorsProofs`, on the lemmas of `ForwardingProofs` about pages, batches and what a
forward does.  Its invariant has a part for each way to remember:

* cursors (`ChatInv`): the batch ascends, nothing sent is above anything in it, all
  that is at or below the cursor is settled, and a page holds all that was visible
  between the cursor and its end;
* Slack's threads (`ThreadsOnce`): a reply goes with its parent and with no other;
* mail (`MailsRead`): what was fetched is read and not fetched again;
* seen sets (`SentIsSeen`): what was sent is in the set or was cut from it, and what
  is in the set was sent or is known to be lost.

From it follow `NoItemTwice`, `LossesAreKnown` and `ChatsKeepOrder`; `EveryPollReports` is
shown beside it, with `ToldBefore` for the three that tell the breaker before they
forward: a poll ends untold only where `MayEndUntold` allows it, and never after it
handled an item.  `NoItemTwice` leaves out Notion and Teams, and `ChatsKeepOrder` is
about `ChatKinds`, the three chats whose messages are sorted: with `Dated` empty the
code does not give these two for Teams.

`ServicesProofs`, about the parts that stand alone:

* `ActivePluginsRun`: unless two changing calls met, one at most is under way and the
  entry is the instance it works on, which runs once it was activated
  (`PluginsInv`).
* `SourceTagsKept` and `EventsFindTheirClass` (chats are messages, GitHub's events code,
  documents of Feishu and Notion data, nothing but files generic; nothing is said of
  Git's and Obsidian's documents): no step writes a word that a source uses; the
  classifier's tests are gone through by families of sources, whose words are told
  apart by source and type.
* `TogglesAgree`: a toggle keeps the lock of the first map while it takes the second,
  so that one toggle at most is past its first write, and that one explains any
  difference, or the last toggle of the connector was cut off there (`cut`) and
  nothing is claimed of it until the next (`MidwayExplains`).  That a lock is held by
  who believes to hold it rests on the queues: who waits is in the queue of the lock it waits for and in
  no other.
* `LimitHoldsTwice`: a counter counts at least what passed since it began, at most
  the limit; in the length of a window before it began no more than the limit
  passed; and none is cleaned up that anything passed by within a window
  (`CounterCounts`).  Any span as long as a window meets two counters at most.
* `NothingRecentMissing`: the buffer is the end of what was logged (`LogsAreTheEnd`);
  places and numbers differ by what was dropped, so that each level's newest by place
  are its newest by number.
* `NeverBeyondTheRate`: `RateBound` is inductive over the types: what a refill adds,
  rounded down, was earned between its clock's two positions, and a grant takes
  from the bucket what it counts.
* `ServicesTypeCorrect`: all of them side by side, as in the run; a plain poll loop is
  shown to take no step that the other kind of loop may not take.

`NodeProofs` shows `DaemonTypeCorrect`: the database is the daemon's from its opening on,
or at most one command's and that one is at work.  `DaemonInv` adds where a command
can be and that a starting daemon has the database.  `NodeTypeCorrect` joins it with
the pipeline.

What is assumed of constants is named in the module that declares them, and TLC
evaluates it: sizes, capacities, windows and limits are natural numbers and positive
where the code's constants are (`EngineAssumption`, `BreakerAssumption`, `PollAssumption`,
`PipelineAssumption`, `ForwardingAssumption`, `WebhookAssumption`, `LogAssumption`,
`LimiterAssumption`, `PluginsAssumption`); the kinds of sources and connectors are the
modelled ones (`SourceAssumption`, `ConnectorAssumption`), a seen set is not cut to more
than its bound; some connector is enabled, because without one there is no health
check (`HealthAssumption`, `connector/mod.rs:298`); the level of the start, "info", can
be set, and a command is not called like a state of the lock (`DaemonAssumption`).
A working disk (`~DiskMayFail`) is the hypothesis of the theorems that say so.

Definitions were written so that they can be reasoned about without induction over
data: pages are sorted by `Ascending` and `Descending`, which choose the sorted sequence;
`FilteredLogs` is the set of the entries, each with the number that tells its place;
`passed` is a set of who passed, from where and when, and is counted by its
cardinality.

Only model-checked: the liveness properties, because fairness and `ENABLED` are out of
the prover's reach (`EventuallyPosted`, `StatsConverge`, `BackpressureEnds`,
`LevelFollowsFile`, `EventuallyForwarded`, `CatchesUp`, `FollowsUpstream`, `EveryCallEnds`,
`HealthShown`, `EveryRequestAnswered`), and the runs that find a violation.  Every
invariant and action property of the passing runs has a theorem.

## Not modelled

* Metrics and the heartbeat: they count, post and log, and no decision reads them.
* Texts: conversion of payloads, HTML and JSON of the console, its script, what
  commands print, the heuristics that find entities or keywords.
* The steps of `--self-test` and `--doctor`: only how they may end.
* Slack's channel discovery, Feishu's webhook listener, the HTTP routers, TLS, the
  calls of external programs by sense plugins.
* Several channels or accounts of one connector: their cursors are separate.
* The payload is sent as lossy UTF-8 text while the cache keeps its bytes; no
  property compares the two.  Hash collisions.  sled's flush interval.

## Plan

1. *(done)* SyncEngine with Cache, Conflict, Delivery; proofs.
2. *(done)* CircuitBreaker, PollLoop; proofs.
3. *(done)* Pipeline, UniqueFeed; proofs, the refinement included.
4. *(done)* Forwarding and the connectors; LocalSources; proofs.
5. *(done)* Plugins, RateLimiter, ConnectorHealth, Webhook, LogBuffer, Console, Tagging;
   proofs.
6. *(done)* Configuration and Daemon; the daemon's types proved.
7. To prove next: that the level in force is one the file or the environment gave,
   that the queues of the console's locks never hold a visitor twice, and that the
   chat connectors implement an ordered feed, with an abstract module of its own.
8. A pipeline and an engine composed, with the channel between them shared.
