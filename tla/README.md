# A TLA+ development of Vargos

Vargos runs an LLM agent (the Pi SDK) behind chat channels (WhatsApp, Telegram), a
cron scheduler and webhooks. Everything lives in one Node.js process: services talk
over an in-process bus, so what makes the program hard is not parallelism but the
interleaving of asynchronous calls: whatever a handler read before an `await` may be
stale after it.

## Inventory

| Part (source) | State | Operations | Interacts with | Hard behaviour | What makes it correct |
|---|---|---|---|---|---|
| Inbound pipeline (`services/channel/pipeline.ts`, `status-reactions.ts`, `typing-state.ts`) | `sessions`: chat → open PipelineSession (`replied`, `completed`, reaction), typing indicators | `process`, `onTool`, `onCompleted`, `observe`, `markReplied`, `finalize` | agent (bus call, `onCompleted` event), `channel.send`, adapter | a run's end reported twice (event and promise) or never; messages that arrive during a run; late sends | one request per chat at a time, one close, at most one text, one final mark, no leaked slot or indicator |
| Agent service (`services/agent/index.ts`) | `sessions` cache, `activeRuns`, overflow bursts | `execute`, `appendMessage`, `status`, session events | Pi SDK, bus events | cache read, `await`, cache write; timeout while the run goes on; dispose under a run; compaction follow-ups | one run per chat, active keys have a run, no run is disposed of |
| Channel service (`services/channel/index.ts`, `delivery.ts`) | adapters, pairing flows, configuration | `send`, `register`, `unregister`, `restart`, pairing | pipeline, config, adapters | retry and chunking, config read-modify-write, hot reload | what is reported sent was sent; configured = running |
| Inbound adapters (`base-adapter.ts`, `debounce.ts`, `dedupe.ts`, `access.ts`) | batches, seen ids | receive, flush | pipeline | media download overtaken by text; batch metadata; redelivery | each message handed on once, in order |
| WhatsApp (`providers/whatsapp/*`, `reconnect.ts`) | socket, reconnect timer, pairing flow | start, stop, connection events, pairing | Baileys | close events after stop, stop during start, pairing restart against timeout | a stopped adapter stays stopped, one socket |
| Telegram (`providers/telegram/adapter.ts`) | offset, poll loop | start, stop, poll | Bot API | restart during backoff, offset before processing | one poll loop |
| Cron (`services/cron/index.ts`) | jobs, timers, `activeTasks`, task files | add, remove, update, run, fire, load | agent, `channel.send` | lock released by another run's completion or never; file writes racing; reload | one run per task, timers and files follow the jobs |
| Webhooks (`edge/webhooks/index.ts`) | `activeHooks` | HTTP request, background run | agent, `channel.send` | lock leak | one run per hook |
| Bus and loader (`core/bus.ts`, `core/loader.ts`) | registry, wiring, instances | register, call, emit, load, unload, restart | all services | overlapping restarts, failing `init` | wiring belongs to the right service |
| RPC (`core/rpc-server.ts`, `core/rpc-client.ts`) | connections | request, reply, timeout | bus | pipelined requests | every request gets one reply |
| Supervisor and boot (`index.ts`, `boot.ts`) | child process, crash count | spawn, respawn, shutdown | OS | signal between exit and respawn | stays down when told to |
| Memory (`services/memory/*`) | chunks, file index | index, search, write | file watcher, SQLite or Postgres | concurrent indexing of one file | the index matches the files |
| Media cache (`lib/media-cache.ts`) | in-flight map, cache files | get or process | media services | joined requests | an answer fits its request |
| Config (`services/config/index.ts`) | merged config | get, set | all | whole-object writes | no lost update |
| MCP client (`services/mcp/index.ts`) | tool servers | connect, call | external servers | failed connects | registered tools have a server |
| Media, speech (`services/media`, `stt`, `tts`, `sts`) | cached texts and their full copies | transcribe, describe, extract, speak | agent, providers | a text over the context budget; a chain that fails half-way | no document or transcript over the budget enters the context |
| Overflow guard (`services/agent/index.ts:522-600`) | burst per session | compaction events, follow-up prompt | Pi SDK, `channel.send` | compactions that do not help, fail or are aborted | a session does not nudge itself for ever |
| Delegation (`services/agent/tools.ts`, `persona.ts`) | sessions of subagents, persona files | `agent.execute` from a tool call | bus, files | reload while a session is created; timeouts that overtake each other | one live session per key, a whitelist is kept |
| Web edge and page (`edge/web`, `web/src/lib`) | Next child, sockets, watchers, polls | init, dispose, broadcast, load | daemon, browser | overlapping restarts, responses out of order | a page does not stay stale |
| Console pages (`web/src/app`, `components/forms`, `server/loaders.ts`) | lists, forms, dialogs | load, edit, save, pair, walk | HTTP API | a list that arrives while the user types | what is typed is kept |
| CLI (`cli.ts`, `cli/*`) | a process of its own | pair, setup, sync | the daemon's files | two processes, one directory | it reports what it did |
| Migrations and templates (`lib/migrate.ts`, `lib/templates.ts`) | data directory, ledger | seed, migrate, sync | the user's edits | killed half-way, run twice | edits stay, recorded means applied |
| MCP edge, doctors | none that outlives a call | | | pure I/O | not modelled |

## Modules

| Module | What it is |
|---|---|
| `ReplyContract` | Abstract: what a person in a chat is promised about the messages that start a run |
| `Conversation` | Inbound pipeline, agent service and `channel.send` for any number of chats, down to each await |
| `Conversation_proofs` | TLAPS: inductive invariant, safety invariants and refinement of `ReplyContract` |
| `Cron` | The cron service: jobs, timers, lock, task files, reload and restart |
| `Cron_proofs` | TLAPS: inductive invariant and safety invariants of `Cron`, and those of `Startup` |
| `Inbound` | Telegram's poll loop and the inbound path of every adapter: dedupe, debounce, media |
| `Inbound_proofs` | TLAPS: inductive invariant and all safety invariants of `Inbound`, and those of `Delegation` |
| `WhatsApp` | One WhatsApp channel: adapter, socket, reconnect timer, pairing, registration, reload |
| `WhatsApp_proofs` | TLAPS: inductive invariant and all safety invariants |
| `Host` | Bus, service loader and MCP client: who registered what, and what a reload releases |
| `Host_proofs` | TLAPS: inductive invariant and `ReloadsFollow`; and the properties of `Overflow`, `Rpc`, `Webhooks`, `CliPairing` and `Media` |
| `Parts_proofs` | TLAPS: the properties of `ConfigStore`, `PairDialog`, `Pages`, `Sessions` and `Delivery` |
| `Rpc` | The JSON-RPC server and its clients: half-closed connections, timeouts, stop |
| `Daemon` | The supervisor and the boot processes that it spawns: signals, timers, drain |
| `Daemon_proofs` | TLAPS: inductive invariant and `NoStrayBoot`, for the specification with fairness that `MCLive` runs |
| `Delegation` | The agent service across reloads: sessions of chats and their subagents, personas, tools |
| `Overflow` | The overflow guard of one session |
| `Delivery` | `deliverReply`: splitting a text, sending and retrying its chunks |
| `Webhooks` | The webhooks edge: requests, runs, restarts of the server |
| `Memory` | The index of the workspace's notes and of the transcripts |
| `Media` | The media cache, its fetches, and the bounded texts |
| `ConfigStore` | The four configuration files and everybody who rewrites them |
| `Console` | The web edge and one page in a browser: live updates through restarts |
| `Console_proofs` | TLAPS: inductive invariant and `ConsoleFollows`; and `IndexKept` of `Memory` |
| `Pages` | A console page with a list and a form |
| `Sessions` | The console's walk over the transcripts, and the transcript page |
| `PairDialog` | The console's pairing dialog against the daemon's pairing session |
| `CliPairing` | `vargos channel pair` beside a daemon that uses the same directory |
| `Startup` | Seeding, migrations, setup's gate and `vargos sync` |
| `MCConversation`, `MCCron`, `MCInbound`, `MCWhatsApp`, `MCLive`, `MCHost`, `MCConsole` | Instances for TLC |

Modules that share no state are checked side by side: an MC module extends one of them and
instantiates the others, and its `part` says whose behaviour this one is. The states of a
run are then the sum of its parts' states, not their product, and each property of the run
speaks of its part.

Definitions whose comment begins with `Fault:` are not part of the models: each is a
plausible mistake in the code, and with it in place of the definition it stands in for, TLC
finds the property it is paired with violated. `PROJECT.json` lists the pairs, and the lines
of the source each definition translates.

### What a step is

The process has one JavaScript thread. A step of a model runs from one I/O completion to
the next `await` that waits for I/O; a chain of promises that are already settled (a bus call
between services, an `async` function without a wait of its own) runs within one step.
Between two such waits of one call any step of any other call can happen. Everything a
handler read before a wait is therefore re-read in the model only where the code re-reads it:
in `Conversation`, `on[m]` is the session a call was given *before* it was created or
configured, `SessionOf` is what it ends up with after, and the cache may have changed since.

### Conversation

One input (`Msgs`) names an inbound message or a cross-session send, the agent call made for
it, the `PipelineSession` it opens if it opens one, and the `AgentSession` it creates if it
creates one.

| State | Code |
|---|---|
| `stage`, `chat`, `on` | the call's place in `process()`, `agent.execute`, `agent.appendMessage`; its session key; its session object |
| `slot`, `replied`, `completed` | `InboundMessagePipeline.sessions` and the flags of a `PipelineSession` |
| `reaction`, `typing` | `StatusReactionController.phase`, `TypingStateManager` |
| `text`, `delivery` | the `channel.send` that closes a request, and the send's own wait (text, then media) |
| `cached`, `active`, `run`, `disposed` | `AgentService.sessions`, `.activeRuns`, the Pi sessions' runs, `session.dispose()` |
| `compacting`, `notices` | compaction events and the notices they send to the chat without awaiting them |
| `toolSent`, `lostEnds`, `overtaken` | history: texts the agent sent itself; chats where a run ended unheard; requests closed by another run's end while their own goes on |

| Actions | Code |
|---|---|
| `Receive`, `Steer`, `Open`, `Observe` | `pipeline.process` and `observe`, before and after `await expandLinks` |
| `CreateFails`, `Prompt`, `PromptFails`, `TimesOut`, `Settles` | `agent.execute` and `getOrCreateSession`, with the `catch` that `process` puts on it (`Catch`) |
| `Append…`, `CrossSend` | `agent.appendMessage`, the append half of `channel.send` |
| `ToolStarts`, `ToolSends`, `RunEnds`, `Compaction…` | the session listener: `agent.onTool`, `agent.onCompleted`, the compaction events |
| `Delivered`, `SendSettles`, `NoticeSettles` | `channel.send`: `deliverReply`, `markReplied`, the `finally` that finalizes |
| `TypingLapses` | the indicator's time to live and its three failures |

Abstracted: what a message says (an answer is `text`, `empty` or `error`); chunking and the
retries of one send (`ToolSends` is the end of the agent's own send, where `markReplied` follows
with no wait: another run that ends between two chunks of it is not followed); the platform's support of reactions (always there); the pre-prompt
compaction, which only delays the prompt; the branch of `appendMessage` for a session
without a file, which leaves the cache as the branch for an executing session does. The Pi
SDK is external: it runs one prompt at a time per session object, steers a prompt that
arrives during a run, and after a `dispose` may end a run without its event
(`RunEndsUnheard`). Elsewhere: hot reload of the agent service (`Delegation`), the overflow
guard (`Overflow`), the chunks of a text (`Delivery`). Not modelled: hot reload of the
channel service under open requests.

### Cron

| State | Code |
|---|---|
| `jobs`, `ticking` | `CronService.jobs`: the definition, and whether the `CronJob` is started |
| `strays`, `zombies` | started `CronJob`s nobody holds: replaced in the map, or made by a disposed instance |
| `activeTasks`, `phase` | the lock; whether `init` is running (in a reload or a boot), returned, threw, or the boot gave up |
| `listed`, `unread`, `found` | `loadTasksFromDisk`: whether the directory has been read, the files it has yet to read, what it read |
| `disk`, `tmp` | `<id>.md` and `<id>.md.tmp` |
| `target`, `step`, `patch`, `stale` | an `add`, `update` or `remove` call between its awaits, and whether a reload replaced its instance |
| `task`, `state`, `key` | a fire or a manual run: its task, how far it got, its session key's day |
| `run`, `agentActive`, `day` | the agent's runs per session key, `activeRuns`, the date |
| `forced`, `stuck`, `botched`, `diverged` | history: which tasks the properties make an exception for, and from when to when |

Each bus method and callback is an action (`Add`, `Update`, `UpdateThrows`, `Remove`,
`RunNow`, `Tick`, `TickHooked`, `HookPasses`, `HookRefuses`, `OnAgentCompleted` within the
steps that end a run), followed by one action per file operation (`WriteTmp`, `Placed`,
`Renamed`, `Unlinked` and their failures). `Reload` is `bus.restart`, `Restart` the death of
the process and its next boot; files outlive both, timers and locks neither. `init` then
goes one wait at a time: `ReadDir`, one `ReadFile` or `ReadFails` per file, and `Load` (or
`LoadFails`, `BootFails`), with the calls of the replaced instance and of the new one in
between.

Abstracted: the text of a task (a definition is who wrote it, `enabled`, and whether CronJob
accepts the schedule); active hours (a tick outside them does nothing); the order in which
`init` reads the files (any); what a finished run sends to its notify targets,
which is a `CrossSend` of `Conversation`. Nothing calls the service while it boots, because it
loads before the channels and the RPC server. Reloading while a load is in
progress, and a restart of the agent service, are left out.

### Inbound

What `Conversation!Receive` takes as given, a message in any chat at any time, is what this
module hands on; it says how often, in which order, and what is lost on the way.

| State | Code |
|---|---|
| `log`, `confirmed` | the Bot API's side of `getUpdates`: the updates, and which were confirmed by an offset |
| `polling`, `status`, `offset`, `attempts` | the fields of `TelegramAdapter` and of its `Reconnector` |
| `starts` | `start()` calls that wait for `getMe` |
| `loop`, `asked`, `answer`, `abortable` | where each `pollLoop` call waits, its request, the answer on its way, and whether `stop()` can still abort it |
| `inbox` | the rest of the answer the `for` loop is going through |
| `seen`, `pending`, `downloads` | the dedupe cache, the debouncer's entries (an entry always has its timer), `receive` calls in `mediaText` |
| `handed` | history: what `deps.onInbound` was given, chat by chat |
| `lost`, `forgotten`, `overlapped` | history: which messages and loops the properties make an exception for, and why |

| Actions | Code |
|---|---|
| `Send`, `Serve` | the users and the Bot API (external) |
| `StartOk`, `StartFails`, `Answered`, `PollFails`, `SleepEnds` | `start` after `getMe`, `pollLoop` after `getUpdates` and after `sleep` |
| `Handle` with `Receive`, `Push`, `Flush` | one round of the `for` and everything `receive` does up to its first wait |
| `FlushTimer`, `MediaReady`, `MediaFails`, `Expire` | the debounce timer, the end of `mediaText`, the dedupe cache's age and size |
| `Restart`, `Crash` | `channel.restart` (`stop`, then `start` up to `getMe`); the next process |

Abstracted: a message is its number, chat and kind (text, media, or one that `normalize`
drops); the metadata of a batch; transcription and saving of media, which are part of the
download. An answer that the process never gets still confirms at the server. Left out:
`stop` without a `start` (`unregister`, `dispose`), and `channel.pairCancel`, which starts an
adapter that runs.

### WhatsApp

One channel of the configuration, its adapters, its pairing sessions and the instances of the
channel service that come one after the other with `bus.restart channel`.

| State | Code |
|---|---|
| `current`, `service`, `configured`, `adapters` | the instance of `ChannelService` that answers the bus, how far its `init` is, what it read, and the `adapters` map of each instance |
| `registering` | `channel.register` calls that wait in `start()` and have not yet written the configuration |
| `registered`, `disabled`, `creds` | the entry in `config.json`, and whether it says `enabled: false`; what `creds.json` is worth |
| `ad` | `sock`, `status`, `needsRepair`, `reconnectTimer`, `reconnector` of each `WhatsAppAdapter` |
| `pairings`, `home`, `ps` | `WhatsAppPairing.sessions` of each instance; the `Session` objects |
| `net`, `owner`, `loaded` | each Baileys socket: how far it is, whose handlers it calls, which credentials it read |
| `stopped`, `loose`, `crossed`, `overlapped` | history: what the properties make an exception for, and why |

| Actions | Code |
|---|---|
| `ReadCreds`, `Opened`, `OpenFails` | the waits of `createWhatsAppSocket`, and what its callers do with the outcome |
| `Accept`, `QR`, `Scan`, `SaveUnlinked`, `Save`, `Paired`, `AdapterCloses`, `SessionCloses` | the socket's events with the adapter's and the session's handlers |
| `Reconnect`, `QrTimeout` | the timers of `scheduleReconnect` and `arm` |
| `Register`, `Unregister`, `Restart`, `PairAgain`/`PairNew`/`PairReset`, `Cleared`, `PairCancel` | the methods `channel.*` |
| `Dispose`, `Boot`, `StartConfigured` | `dispose` and `init` on a reload, and the wait in `init` during which the methods answer already |

`stop` ends the socket it has and waits for nothing; what comes back later (the close event of
that socket, or a `start` that was waiting) finds the adapter as it then is. Baileys is
modelled from how its events are used: a socket that was ended reports its close once, in a
step of its own. Close reasons that are handled alike are one. `enabled: false` is looked at
by `startAllConfigured` only: a disabled entry gets no adapter at a boot, but
`channel.register` and `repairAfterPairing` start one for it all the same, which then lives
until the next boot, and a registration never changes an entry that is there. Left out: sends,
inbound messages (`Inbound`), edits of the entry by the console's forms (a reload follows them,
`Startup` and `ConfigStore`), and other channels' entries in the same configuration object.

### The other modules

Their state is explained variable by variable in the modules, with the names of the code.
What a reader should know beforehand:

| Module | Actions | Abstracted, left out |
|---|---|---|
| `Host` | `BootLoad`, `Restart`, `Disposed`, `Imported…`, `InitEnds`, `InitFails`: `ServiceLoader.load` and `unload` up to each wait; `Connect`, `Connected`, `ConnectFails`, `Started`: the MCP client with its five seconds per server | the schemas that the bus keeps; a service other than the MCP client listens before the wait of its `init` and registers after it |
| `Rpc` | `Call`, `Accept`, `HalfClose`: clients; `Read`, `ReadEnd`, `HandleLine`, `Flushed`, `SocketTimeout`, `Stop`: the server's handlers | what a request says: it counts requests, partial lines and replies |
| `Daemon` | `SpawnBoot`, `Reap`, `Respawn`, `HardTimer`, `Forward`: `index.ts`; `BootUp`, `Shutdown`, `Drain`, `Drained`, `Forced`: `boot.ts`; `Kill`, `Crash`, `Wedge`: the environment | a `dispose` that hangs is a choice; a wedged process is one whose event loop is blocked |
| `Delegation` | `FromChat`, `Delegate`, then `Load…Persona`, `EnsurePersona`, `CopyEnds`, `ReadPersona`, `Create`: `agent.execute` wait by wait; `Reload`, `RegisterMethods`, `InitFails`: the service; `SaveBegins`, `SaveEnds`: whoever edits the persona files | one call per chat at a time (`Conversation` has several) |
| `Overflow` | `Infer`, `Fails`, `CompactionStart`, `CompactionAborted`, `CompactionEnd` | how long a history is: an inference fits or does not |
| `Delivery` | `Split`, a round of the loop of `chunkText`; `Sent`, `SendFails`, `Returns` | the characters are five: those that splitting looks for, other white space, and a letter; a chunk is the section of the text it was cut from, `remaining` a position; the cuts are where the code makes them |
| `Webhooks` | `HandleRequest`, `BodyEnds`, `Skip`, `Fire`, `Completed`, `Notify`; `Stop`, `Start`; `Tick` | the transform is one step; the clock stands still or ticks between any two steps |
| `Memory` | `Sync`, `NextFile`, `CheckNeedsReindex`, `ReadFile`, `StatFile`, `DeleteChunks`, `SaveChunk`, `UpdateStatus`, `IndexFails`; `Search`, `MergeHits`; `Reindex`, `GetAllTrackedPaths`, `RemoveStale`, `DeleteStale`, `SyncForced`; `WriteFile`, `TimerFires`, `Crash`, `Initialize` | a file's content is its version, which decides how many chunks it has; a transcript has its lines from the start, since appending only adds ids; the check of a forced sync, which changes nothing, is left out |
| `Media` | `Get`, `Fetched`, `FetchFails`, `BoundForContext`, `ExtractRaw`, `AgentAnswers`, `Synthesize`, `Restart` | a text is its size: empty, short, long, or cut; the description of an image is of any size, since nothing bounds it |
| `ConfigStore` | `Register`, `Unregister`, `ChannelForm`, `ModelForm`, then `Edited`, `Read`, `Save`; `Boot`, `Crash`; `CliRegisterChannel`, `ConfigureProvider` | a value is a version |
| `Console` | `InitDone`, `Restart`, `Unloaded`, `Load`, `ChildExits`, `Respawn`, `Poll`, `Debounced`: the edge; `Open`, `Connect`, `Drop`, `Receive`, `Refresh`, `Serve`, `Answered`: the page | one page; what it shows is a version of the data directory |
| `Pages` | `Load`, `ListItems`, `Loaded`, `Refresh`, `OpenForm`, `Type`, `Submit…`, `Write`, `Saved`, `SaveRefused`, `SaveRejected` | the form's text is a number |
| `Sessions` | `Ask`, `Lstat`, `Stat`, `Count`, `Answer`, `Loaded`; `AppendBegins`, `AppendEnds`, `Remove`; `Open`, `ReadTranscript` | a transcript is a number of messages and perhaps a torn line |
| `PairDialog` | `Open`, `Rendered`, `Close`, `Started`, `StartRejects`, `AskStatus`, `StatusComes`, `StatusFails`, `DoneTimer`; `ServeStart`, `ServeStatus`, `ServeCancel`, `SessionMoves` | phases that the dialog treats alike |
| `CliPairing` | `Guard`, `Prepare`, `Connect`, `ShowQr`, `Scan`, `Opened`, `Update`, `WriteEnds`, `Closed`, `Exit`; the daemon's `Adapter…` | Baileys and WhatsApp, as in `WhatsApp` |
| `Startup` | `Start`, `SeedNext`, `Copy`, `ReadLedger`, `NextMigration`, `Remove…`, `MigrateServers`, `Record`, `Provider`, `Sync`, `Killed`; the user's edits | the content of a template: bundled, old, edited, torn |

## Runs

| Run | Instance | Shows |
|---|---|---|
| `conv_safety` | 1 chat, 3 inputs, each of any kind and from any source, 1 compaction; symmetry | types; slots, active runs, typing indicators, final marks and replies in every interleaving |
| `live` | `Conversation`: 1 chat, 2 messages, 1 compaction; `Daemon`: 3 boot processes; fair | `Conversation` implements `ReplyContract` and every request is sealed; a supervisor that is told to stop exits, and no boot process strays |
| `cron` | `Cron`: heartbeat and 1 added task, 2 fires, 2 calls, 2 days, 1 reload or restart; `Startup`: 1 template, 2 processes; symmetry | types; lock, single execution, timers and files; edits stay and the ledger is true |
| `inbound` | `Inbound`: 1 chat, 3 messages (text or media), 2 loops, batches of 2, 1 retry, 1 restart or crash, 1 expiry; `Delegation`: a chat and two generations of subagents, 2 instances, 1 edit, personas as boot seeded them; symmetry of loops | each message handed on once and in order, none lost unaccounted for; one loop; a loop that ended is reported; delegated calls, whitelists, one live session per key |
| `inbound_live` | 2 chats, 2 messages of any kind, 1 restart or crash, 1 expiry; fair | what is sent is handed on in the end, unless the adapter is down |
| `whatsapp` | 2 adapters, 2 pairing sessions, 2 sockets, 1 reconnect attempt, 1 pairing restart, 2 calls or a reload and a call; symmetry | one socket per adapter; stopped adapters stay stopped; a deaf adapter says so; registry and configuration agree; pairings have a socket and expire |
| `host` | 11 parts: `Host` (3 services, 1 MCP server, 4 loads), `Rpc` (a caller and a pipe of 2 lines), `PairDialog` (2 starts, 2 polls at once), `Webhooks` (3 posts, 2 hooks), `Delivery` (every text of up to 5 characters), `Overflow`, `CliPairing`, `Pages` (2 items, 3 loads), `Sessions` (3 directories, a walk), `ConfigStore` (2 channels, 2 requests), `Media` (3 requests for one file) | one property for each part, with its types |
| `console` | `Console`: 2 instances, 2 loads, 1 change; `Memory`: a note and a transcript, 2 calls; symmetry | a page that is stale has an update on its way; an index left alone holds its file's chunks |
| `viol_replied`, `viol_one_run` | 1 chat, 2 messages | findings 1 and 2 |
| `viol_auth_dir` | 1 call | finding 3 |
| `viol_providers` | 1 channel, 1 provider | finding 4 |

Why the bounds are enough. Every hazard of the pipeline is between a request and the next
one of its chat, or a steered one, or a cross-session send; three inputs give all three at
once. One chat is enough for the runs: the state of a chat is indexed by its key, and the
proofs cover any number of chats. Compactions only add runs and notices, so one is enough,
in the safety run and in the fair one, where it can keep a run from ending the request. In
Cron, overlapping file writes, a forced run beside a scheduled one and a call cut by a
reload each need two actors; the second day gives a second session key, so that midnight
falls between a fire and its completion; the heartbeat and an ordinary task differ in the
hook and in having a file to write. In Inbound, three messages give a media download
between two texts and a batch after a full one; a start is under way when the process
begins, so one restart is enough for two loops, and with one expiry for a message that is
fetched by both. A second chat is a second debouncer entry, which `inbound_live` has. In
WhatsApp, two calls are what it takes to overlap (a registration and a removal, a pairing
and a restart), two sockets let an old one report to an adapter that has a new one, and two
adapters the one of a disposed instance beside its successor; the properties were also
simulated with three adapters, two sessions, four sockets and eight calls. The proofs below
remove the bounds from the safety properties. In the other modules, what a hazard needs is
two of something: two loads of services that overlap, two lines on a connection, two starts
of a dialog, two posts in a millisecond and a third after the restart of the edge, two
indexings of one file, two savers of one object, two processes in one directory. The bounds
give these and one more step (a later load, a second tick, a third request), so that what
comes after the overlap is seen too. Deadlock is not checked: inputs, loads and versions
are used once, so every behaviour ends, and an adapter whose `start` fails, or a channel
that was removed, waits for good.

Fairness (`Conversation!Fairness`) is weak and per message: a link fetch, the creation of a
session, a prompt and a send settle. Each is bounded in the code, by a timeout
(`withTimeout` around the prompt, the fetch's abort signal) or by a retry limit
(`deliverReply`), and the Pi SDK ends every run. There is none on messages arriving, on
tools, on compactions or on the typing indicator: they may stop at any time.

`Inbound!Fairness` is weak: timers fire, an answer is gone through, and a request to the Bot
API ends in one way or another. The last is an assumption on the server, which ends a long
poll after `POLL_TIMEOUT_S`: `request()` sets no timeout, so a connection that hangs silently
would stall the loop. Requests may fail forever; then the attempts run out.

In `MCLive`, the fairness of `Daemon` is weak too and only on `Internal`: timers that were
set, exit events, and promises that settled of a process whose event loop is not blocked. A
blocked one and a `dispose` that hangs are exactly what the timers of 5 s and 8 s are for.

## Findings

Each is a run whose property quotes the code's own words and which TLC refutes.

1. `RepliedMeansToolSent` (`pipeline.ts:32`): `channel.send` marks whichever session holds
   the chat's slot as replied. An error text of an earlier request that is delivered late
   silences the answer of the next one.
2. `OneRunPerChat` (`pipeline.ts:97`): two messages that both miss the session cache create
   two sessions and two competing runs.
3. `AuthDirFree` (`channel/index.ts:193`): `channel.pairStart` stops the adapter to free the
   auth directory, but a `start` that is waiting opens its socket afterwards, and the close of
   the socket that `stop` ended schedules a reconnect.
4. `ProvidersSaved` (`services/config/index.ts:180`): a provider saved over an existing
   `models.json` is acknowledged and never written; the merge's first source overwrites its
   target.

The properties that hold say exactly how far the damage goes: `OneRunUnlessForced` holds for
every task until one of six named events goes past its lock, `DiskAgrees` for every task no
call of which failed, overlapped another or reached the disk behind a load that had read its
file, `StoppedStaysQuiet` for every adapter that had no socket
when it was stopped.

### Divergences without a run

Met while modelling, and left as the models have them. Each is a behaviour of the model, so
that the properties are stated around it.

- `agent/index.ts:286` disposes of a session when its chat is not in `activeRuns`; the comment
  at `:279` means "not executing". After a timeout, or a steered prompt that returned, a run
  goes on that is not in `activeRuns` (`Conversation!Append`).
- `agent/index.ts:234`: the timeout rejects the call and does not stop the run. `:587`:
  compaction settings are those of the configuration at `init`.
- `cron/index.ts:191`: `cron.run` neither checks nor takes the lock that `:6` promises.
- `cron/index.ts:123`: `add` writes the file before the schedule is parsed; the next `init`
  throws on it and no task is loaded, where the tests at `services/cron` expect a bad file to
  spare the others.
- `core/bus.ts:34-37` says that services never load concurrently, so `loadingService` is right
  across the awaits of `init`. Overlapping `bus.restart` calls do load concurrently, and an
  MCP server that connects after its five seconds registers its tools under whichever service
  is loading (`Host!Late`). `core/loader.ts:48`: an `init` that throws leaves its methods and
  its instance behind.
- `core/rpc-server.ts:104` ends the socket after a reply though `:44` closes "only when
  nothing is in flight": the reply of a second pipelined request is lost. A client whose
  connection drops never settles.
- `index.ts:57`: the last resort after 8 s asks `child.killed`, which is true since the first
  signal, so a wedged child is left alone.
- `whatsapp-pair.tsx:72` with `channels/page.tsx:239`: `onOpenChange` is a new function on
  every render of the page, so the effect cancels and restarts the pairing on each. `:46`: a
  start whose request is rejected leaves the dialog at "connecting", without an error and
  without an interval; `:53`: the polls overlap, so a late one may show a pairing again after
  the interval was stopped (`late`).
- `web/src/server/loaders.ts:136-140` names the transcripts of subagents among what is
  collected; the walk calls itself with `chatId` null at the top and looks no deeper than two
  levels, so it never gets to them. `:77`, `:114`, `:224`: a file that fails in the middle of
  the walk ends it.
- `services/channel/delivery.ts:30`: a chunk may be one character longer than the limit.
- `lib/media-cache.ts:55`: a request joins a fetch of another kind. `lib/migrate.ts:65`: an
  unreadable ledger runs every migration again.
- `cli/channels.ts`: registering a channel over a torn `config.json` writes a new one; the
  guard's answer about the adapter may be old when the socket opens, and without an answer
  (`cli.ts:221`, `:232`) it pairs over an adapter that is connected (`blind`).
- `edge/web`: sockets of a disposed instance stay open and silent. `edge/mcp`: `listen`
  without an error handler (`boot.ts:81`).
- `agents/page.tsx` shows "no tools" for an empty whitelist, which means all of them;
  `docs/usage.md:65` says a subagent inherits its parent's persona, the code loads
  `subagent.md`.
- `cron/page.tsx`: a failed background refresh takes the open form off the screen;
  `cron-form.tsx:66`: `busy` stays when the request rejects. `view/page.tsx:180`: an error is
  never cleared.

## Proofs

For any constants satisfying the named assumptions, which TLC evaluates on every run:

| Assumption | What it says |
|---|---|
| `ConversationAssumption`, `WhatsAppAssumption`, `HostAssumption`, `LiveAssumption` | the sentinels are no values; adapters are not sessions, the MCP client is a service; bounds are naturals |
| `CronAssumption` | also: calls and fires are different things |
| `InboundAssumption` | a batch holds at least two; bounds are naturals |
| `ConsoleAssumption` | instances are positive numbers (0 is "none"), the first one is among them; a socket's poll loop polls at least once |
| `CommandsAssumption` (of `Startup`) | what migrations manage are templates |
| `AgentAssumption` (of `Delegation`) | the parent of a session is a session, instances are numbered from 1, whitelists are sets of tools and `agent.execute` is a tool |
| `IndexAssumption` (of `Memory`) | versions are positive numbers, each of some pieces but not of more than `MaxPieces`; the lines of a transcript fit; notes are no transcripts |
| `PartsAssumption` (of the parts in `MCHost`) | `BreakAfter`, `MaxMs` and `MaxText` are positive, other bounds naturals; a chunk has room for a character, texts are sequences of the five kinds of character; edits and the starts of a dialog are positive numbers; the directory of a session is a sequence of one name or more; `None` is no call, size, file, list or directory |

Each only says that names are apart and numbers are numbers; none is about a state.

`Conversation_proofs`. None of the invariants is inductive alone. `SlotBacked` needs to know
that the call behind a slot is the one that took it; that rests on the life cycle of an input
(`Lifecycle`: idle, in flight, answering, answered, silent, failed) in which reaction, flags,
text and send always agree, and on `Belonging`: what is filed under a session key was made
for it. `RunsInv` says why a slot outlives a prompt that timed out or was steered: a run of
the chat is still there, or ended unheard (`lostEnds`, the one exception). `DrivesInv` follows
the run a call's prompt started until it ends: it is what `SealedAfterClose` needs to say when
a run goes on behind a final mark - after a timeout (the mark is an error, and the run's answer
will close whoever then holds the slot), or because another run of the chat ended in its place
(`overtaken`) - and never otherwise. The proof goes in
three layers: types and provenance (`TypedCorrect`); a classification of all steps into seven
kinds by what they do to a request (`StepKind`); and one lemma per invariant, read off the
kinds and two frame lemmas. `Invariance` is `Spec => []IInv`; from it follow `TypeCorrect`,
`SlotsAreBacked`, `ActiveIsBacked`, `TypingIsOwned`, `SealsAreFinal`, `NoDoubleReplies`.
`Refinement` (`Spec => KeepsContract`) maps each kind to one action of `ReplyContract` or a
stutter.

`Cron_proofs`. Two frames split the module: firing tasks changes no job, timer or file, and
of the calls only `cron.remove` touches the lock. Lock side: `LockInv` (a locked task has a
fire about to execute, a run, or a lost completion) and `OneRunUnlessForced`, which is
inductive by itself once `forced` is known to keep every task that is busy. File side:
`TimerInv`; `Origins` (a task with a job or a file is preset or was added), which gives
`AddsInv` (the task of an `add` in flight is nowhere else); `LoadingInv`, for calls made
while `init` still reads; `FoundInv` (what `init` read is still in the file, or the task is on
record); and `WritesInv`, which carries a definition from the job through the temporary file
to the task file and gives `FilesInv`, which is `DiskAgrees` extended to the tasks that the
`init` under way did not find. `Invariance` yields
`TypeCorrect`, `LocksAreBacked`, `OneRunAtATime`, `TimersFollow`, `FilesAgree`.

`Inbound_proofs`. Types first (`NextTyped`), where the numbers matter: what a loop asks for
is at most one past the log, so an answer names only messages that were sent. `HandlingInv`
says that one loop goes through an answer, and does so while something of it is left;
`LoopInv` that, while no restart overlapped anything, `stop` reaches the request of the one
loop there is and a `start` under way has none beside it, which gives `OneLoop`. `PassedInv`
makes `Conserved` inductive: a message is *passed* not only when the offset or the server's
mark is beyond it, but as soon as a request asks beyond it, an answer reaches beyond it
without holding it, or the dedupe cache has seen it; whatever is passed is accounted for. Each
action has one lemma-sized case: it lets nothing new be passed, or puts the message in a
buffer, a download, the hand-off or `lost`. `Invariance` yields `TypeCorrect`,
`OneLoopPolls`, `DeafnessIsReported`, `NothingFallsThrough`.

`HandedInOrder`, in the same module, speaks of what was handed on; whether it stays true
depends on what is still in the debouncer and in answers on their way. `OrderInv` therefore
takes, for each chat, what was handed on and what is buffered as one line, `Line(c)`, and says
that it is sorted and holds nothing twice, with the exceptions the property names (media; what
was `forgotten`, by a crash or by expiry). It is kept because whatever a loop may be served
again is in the dedupe cache or not yet in any line. The lemmas about sequences come first
(what appending to, or flushing, the end of such a line does), then one per action.

`WhatsApp_proofs`, in layers. Types with `SockInv` (the socket an object knows is its own)
and `HomeInv` (whose map a session is in), action by action. Then adapters: every handler
disturbs one adapter and leaves the others idle, so `StoppedStaysQuiet` and
`NeverSilentlyDeaf` need one lemma for an adapter that idles and one for each thing that may
happen to one. `OneInv` makes `OneSocket` inductive: an adapter whose `start` calls never
crossed has at most one socket being created, and then knows none, or knows every socket that
was neither ended nor is being created. `MapInv` makes `RegistryAgrees` inductive: it says
what maps, configuration and calls agree on in each phase of a reload, disabled entries
included, while nothing overlapped. Last the pairings, `PairingBacked` and `PairingExpires`.

`Host_proofs`. However many loads overlap, types, `Provenance` (what names a load names one
whose import returned) and `BracketCloses` hold. `ReloadsFollow` is about loads that did not
overlap; until one does, `Calm` holds: one load is busy at a time (`OneAtATime`), `LoadInv`
says what bus and loader hold for the service it is about in each of its stages, and
`MethodsInv`, `ListenersInv`, `CurrentInv`, `ClosedInv`, `DisposedInv` what they hold for the
others. A load that begins while another is busy sets `overlapped`, so the proof never has to
say what such loads leave behind.

The parts of `MCHost` follow, in the same module and in `Parts_proofs`, each with an invariant
of its own. `PartSteps` says once that a step of `AllSpec` is a step of the chosen part, or changes
nothing of it, so that what is left of each part is a proof about its own `Next`.

| Part | Its invariant, beside the types |
|---|---|
| `Overflow` | `BurstCounts`: every nudge is a compaction that the burst has counted, the notice is the one it remembers |
| `Rpc` | `LinesFollowed`: each line that was asked is on the wire, in a call, in a reply or dropped; of an only line nothing was dropped, and nothing but its reply is there when the socket is ended |
| `Webhooks` | `HooksInv`: a post that has a session fired once and its key says when; one that shares it, shares it with a post of the same hook and millisecond |
| `CliPairing` | `GuardHolds`: behind the guard an adapter is connected only if it connected later or the guard got no answer about it; `WritesFollow`: what has been written was announced, and when the promise settles it is known how much of it was |
| `Media` | `EntriesFetch`, `CallsWait`: an entry of `processing` names a call that fetches, and each call that waits names an entry; `Settled`: where a text may be long |
| `Delivery` | `ChunksInv`: at each round of the split the chunks so far are in order and within the limit, and what is not blank before the rest is in one of them; `ChatInv`: the chat shows the chunks before the next one, and that one already if a send of it failed after it had arrived |
| `ConfigStore` | `TasksTyped`: what a request may hold in which phase; `Calmly`: while no two rewrites overlap, the files are what was acknowledged, and one request at a time holds a copy, which is the files and its edit (`Snapshot`) |
| `PairDialog` | `Followed`: an interval or a start under way is of the dialog on the screen, or began too early to be known; `Settles`, `Uncancelled`, `Served`: a dialog whose start was answered and that does not poll shows an end, or a status that came too late to be asked for again; no cancel is of the latest start, so the daemon has its session, will hear of it, or the dialog never learns |
| `Pages` | `FormInv`: what is untouched in a form on the screen is what it was opened with; a form that waits, waits for a save |
| `Sessions` | `LoadOK` of each request: a session of the first two levels that was there at the start is counted, or is among what the walk has yet to look at (`PendingIn`), in whichever of the forms the code gives it; counts never exceed a file that only grows (`Upto`, `Grows`) |

`chunkText` is a loop, and `Delivery` has it as a step of its own, `Split`: what it makes of
every text is then an invariant of that step like any other, with no induction over data. The
lemmas before it say what each cut is: `LeastOf` and `GreatestOf` that what `Min` and `Max`
choose exists (from the well-foundedness of `<`), `BeforeFits` and `SplitFits` where a cut may
be, `TrimsEnd` and `TrimsStart` that only blanks are left out, `PushKeeps` that a round keeps
`ChunksInv`.

`Console_proofs`. A page that is stale has an update on its way only as long as loads are not
answered out of order with a worse answer last. `LoadsInv` says that a load which read an
older version and would still be shown is followed by a better load or by another update.
`InstInv` says of each instance of the edge, and of nothing else, that who accepts clients
watches the files and will tell them.

`Console_proofs` on `Memory`. `AloneInv`: a run of `indexFile` that nothing has spoiled is
alone on its file, and a file whose run was spoiled is marked `dirty`. `ProgressInv` says what
the map and the rows hold of such a file at each stage of its run, and `IndexedInv` that a file
which nobody has to read is indexed as it is. One lemma per kind of step shows that the tables
of all other files stay as they are (`StagePreserves`, `BeginPreserves`, `EndPreserves`,
`ChangePreserves`, `RestPreserves`, `TakenOutPreserves`).

`Daemon_proofs`. Boot processes come one after the other: who is not the supervisor's child
was never spawned, or is gone and its exit was handled (`OrderInv`). A boot that was sent a
signal has it yet to handle or is shutting down (`SignalInv`), which is what the supervisor
trusts in when it exits. Together they give `NoStrayBoot`.

`Cron_proofs` on `Startup`. `EditsInv`: a file with the user's edit is on no process's list
of files to copy, but for a process that the edit raced with. `MigrationsInv`: what a process
believes to be applied is, and so is the part of the migration it has behind it (`Sound`);
that a migration stays applied whatever other processes do is one lemma per file it is about.

`Inbound_proofs` on `Delegation`. `ServedInv`: only instances that registered their methods
serve calls. `PromptInv` and `SubagentInv`: a prompt has its run, a subagent its caller's, and
it times out only after the one it works for did, which gives `AnswersComplete`. `ToolsInv`
carries a whitelist from the persona file to the session built from it; `LiveInv` says which
instance's sessions of a chat are left, and gives `OneLiveSession`.

Model-checked only: `EveryRequestSealed`, `EventuallyHandled` and `StopsWhenTold` (liveness
and fairness are beyond the prover), and that the findings are reachable.

## Not modelled, and the plan

Every property that a run checks and that is not liveness is proved.
What is left is to model more: the reload of the channel service under open requests, a
reload of the cron service during its own load, several pages and clients of the console at
once.

Left out for good: numeric ranking and embeddings of the memory search, prompt texts, the
protocols of media and speech providers, the MCP edge (one bus call per request) and the
doctors (read-only checks).
