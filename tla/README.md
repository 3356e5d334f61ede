# agent-cowork: a TLA+ verification project

This directory models agent-cowork, model-checks it with TLC and proves part of
it with TLAPS. Source paths are relative to the repository; `core/` stands for
`backend-rs/crates/agent-core/src/`, `store/` for
`backend-rs/crates/agent-store/src/`, `api/` for
`backend-rs/bins/agentd/src/api/` and `ide/` for `rust/apps/agent-ide/src/`.
`PROJECT.json` is the index: which definition translates which lines, which run
checks what, and the hazards the properties are for.

## 1. The system

A desktop client (`rust/apps/agent-ide`) talks to a gateway (`gateway-go`:
authentication, WebSocket-to-SSE bridge), which talks to the agent core `agentd`
(`backend-rs`). The core runs language-model turns and plans, gates tools, keeps
sessions, and publishes all it does on an event bus that clients follow.
`backend/` (Python) and `docforge/` (TypeScript) are the stack it replaced.

| Component | State | Operations | What is hard | What makes it correct |
|---|---|---|---|---|
| Event bus (`store/event_bus.rs`, `jsonl.rs`) | per session a ring, a counter, a hydration mark; the writer's queue; the file | emit, emit_ephemeral, replay_since, fork, three truncations, purge, hydrate | an emit is two critical sections and a send; the writer lags; restarts | a number names one event; a reply without gap flag is complete; ring and file agree; what was cut stays cut |
| Streaming (`api/sse.rs`, `handlers/snapshot.rs`, `gateway-go/ws.go`, `moonlit-api`) | cursor and channel position per client | replay, subscribe, receive, reconnect | the window between replay and subscription, lag, restart | no event is missed in silence; a client catches up |
| Plan executor (`core/engine/plan_exec.rs`, `todo.rs`, `plan.rs`, `handlers/chat.rs`, `runs.rs`, `todos.rs`) | todos and their dependencies, tasks, run status, controls | run_plan, one todo with timeout and retries, cancel, rerun, patch | two requests on one session, panics, dropped requests, restarts | edits serial; no todo stuck; completion claimed only when true; the request ends |
| Turn loop (`core/engine/react.rs`, `control.rs`, `turn.rs`, `subagent.rs`) | step and guard counters, transcript, steering queue, pause and cancel | step, tools, subagents, steer, pause, resume, cancel | lost wake-ups, several loops on one control, guards in the middle of a response | steers once and in order; recorded turn well formed; the turn ends |
| Tool gate (`core/engine/dispatch.rs`, `permission.rs`, `hooks.rs`) | mode, rules, pending approvals, hook cache | dispatch, approve, resolve, time out, run hooks | mode or rules change during the wait; late answers; the hooks file changes | an acknowledged answer stands; nothing stays pending; no stale hook runs; the call returns |
| Provider chain (`agent-providers/src/service.rs`) | chain, breakers, channels | execute, retry, fall back, edit a channel | breaker races, partial streams, an edit beside a call | what was shown is the answer; the mock answers last; the chain in use is the stored one |
| Provider adapters (`agent-providers/src/`: `openai.rs`, `anthropic.rs`, `google.rs`, `thinking.rs`) | the accumulator of one answer | build_body, ingest, assemble | three protocols, pieces in any order, cut streams | a streamed answer equals the full one; the body keeps the history |
| Conversation (`core/session.rs`, `context.rs`, `store/rollout.rs`) | rollout, session record | append_turn, note_compaction, history, fork, clear | markers of nested loops, what a compaction forgets, a torn line | history is what was said |
| Workspace changes (`core/checkpoint.rs`, `code_edit.rs`, `engine/edits.rs`) | snapshots, proposals, files | create, rewind, apply, discard | one write of several fails; a run goes on during a rewind | an applied proposal was written; a rewind restores |
| Memory (`core/memory.rs`, `engine/memory.rs`) | a record and an index per scope | upsert, search, patch, delete, evict | several transactions without a lock; a kill between two | what was reported as written is found; a scope keeps to its cap |
| Shell manager (`agent-tools/src/shell.rs`) | jobs, pumps, logs, directories of sessions | run, kill, read | the wait window against the exit; a reader beside the writer | the directory persists; reads resume |
| MCP manager (`agent-mcp/src/`) | connections, requests, configuration | call, reconnect, reload | late answers, a shared connection, reloads | a call gets its own answer, and comes back |
| Document sync (`rust/crates/moonlit-sync`) | replicas, a room | connect, handshake, relay, disconnect | edits between observing and the handshake; a lagging peer | peers in a room agree once it is quiet |
| Desktop chat (`ide/app.rs`, `lib.rs`) | sessions, chat store, subscription | send, edit, revert, fork, switch | answers, snapshots and events in any order; truncations | one question and one reply per run; the window catches up |
| Desktop panels (`ide/app.rs`, `ui/workbench.rs`) | plan, todos, proposals, metrics, marks of reads in flight | refetch, merge, act | late, failed and foreign answers | a button acts on what is shown; no mark stays set |
| Desktop documents and editor (`ide/app.rs`, `rust/apps/docforge`, `moonlit-doccore`) | tabs, buffers, views; blocks, slides, selection | open, close, save; edit, load | a load that answers after its tab was closed | formats kept; the selection exists; a save opens as it was |
| Desktop settings (`ide/ui/settings.rs`, `app.rs`, `moonlit-core/src/store.rs`) with the channel, search and account handlers | forms, requests under way, the config file | load, save, toggle, log in and out, flush | overlapping requests, failed flushes, kills | keys kept; marks end; what is shown survives a restart |
| Store, configuration, protocol types, other tools, widgets | records | get, put; parsing, I/O, drawing | little of their own | not modelled, see section 7 |

**Interactions.** The plan executor runs each todo as a turn loop; a turn loop
runs subagents as nested loops which share the run's `RunControl`; loops call
the provider chain, which speaks through the adapters, and, through the tool
gate, the tools (shell, MCP, edits, memory); each of them emits on the bus; SSE
handlers and the gateway read the bus. A finished turn is appended to the
rollout. REST handlers pause, steer and cancel through the map of controls, edit
todos, rules, channels and memories through the store, beside all of this. The
desktop posts REST requests from tasks of its own, whose answers reach the
window through one queue together with the events of its subscription.

## 2. Modules

| Module | Models | Composition |
|---|---|---|
| `EventBus` | event bus, its log file and writer thread | |
| `EventStream` | SSE and WebSocket clients | extends `EventBus` |
| `PlanExec` | plan executor, todos, the handlers that drive and disturb them | |
| `TodoBoard`, `PlanBoard` | abstract board of todos; the refinement | `PlanBoard` extends `PlanExec`, instantiates `TodoBoard` |
| `TurnLoop` | chat request, tool loop, subagents, run control, turn record | |
| `Conversation` | rollout, history, compaction, migration, fork, revert | |
| `ToolGate` | dispatch, permissions, approvals, hooks | |
| `ProviderChain`, `ProviderWire` | the service with its breakers; the three protocols | |
| `McpClient`, `Shell` | MCP manager, shell manager | |
| `WorkspaceEdits`, `Memory` | edits, proposals, checkpoints; memories | |
| `DocSync` | rooms of the sync server and its clients | |
| `ChatStore`, `IdeChat` | the chat store's operators; the chat window | `IdeChat` extends `ChatStore` |
| `IdeSlices`, `IdeDocs`, `DocForge` | panels, documents, document editor | |
| `IdeChannels`, `IdeAccount`, `IdePrefs` | settings pages with the handlers behind them | |
| `MCTools`, `MCRecords`, `MCReturns`, `MCDesktop` | small instances of several components | extend the components; `part` says which one moves |
| `Filters` | keeping the elements of a list that are in a set (`retain`, `filter`) | used by `EventBus`, `Conversation`, `IdeDocs`, `IdeChannels` |
| `SequenceProofs` | lemmas on numbers and lists that the other proofs cite | extends `Filters` |
| `EventBusProofs`, `TurnLoopProofs` | theorems about `EventBus` and `EventStream`; about `TurnLoop` | extend those modules |
| `PlanExecProofs`, `ToolGateProofs` | about `PlanExec`; about `ToolGate` and `McpClient` | likewise |
| `ToolsProofs`, `ServiceProofs` | about `WorkspaceEdits`, `Shell` and `Memory`; about `ProviderChain`, `DocSync` and `Conversation` | likewise |
| `DesktopProofs` | about `IdeAccount`, `IdeDocs` and `IdeChannels` | likewise |

**EventBus.** `ring`, `counter` and `hydrated` are the fields of `Inner`; `logQ`
is the writer's channel and `log` the files; `sent` is the broadcast channel;
`job` holds, for each thread, the operation it is in and where in it. Each step
of a thread is one critical section or one send: an emit is hydration (test,
read of the file *outside* the lock, installation), `NextSeq`, `Publish`,
`SendAppend`, `Broadcast`. `Cut`, `RewindCut`, `Purge` and `ForkSnapshot` are the
other operations. `WriteLog` is the writer thread. `Crash` empties memory; the
queue is lost, or flushed first (`FlushOnExit`), and a torn last line may be
left (`TornWrites`). A line torn inside a character ends every later read of its
file (`lines().map_while(Result::ok)`): what is appended behind it is in `unread`,
stored and not returned. Event contents are an identity; what is kept is the
session, the number, the run and whether the event is persisted.

**EventStream.** One record per client holds where its connection is, its
position in the channel, what the server has written and what the client has
read. The SSE handler replays and subscribes in two steps; the gateway makes
its REST replay, takes `latestSeq` from it and opens the SSE stream behind it. `Recv` includes the lag error
of the channel and the filter by session. Connections are lost and made again
with the last number the client saw.

**PlanExec.** `Drive(d)` is a request that drives a run: `Pick` (ready_todos and
the batch), `Check`, `StartTodo`, `Join`, `EndBatch`, `MarkBlocked`, `Finish`; `Attempt` is a
task (success, failure, retry, panic). `ExecutePlan` and `RerunTodo` start one.
Around them are `AddTodo`, `PatchRead`/`PatchSave` (a PATCH is a get and a save),
`Requeue`, `UpdateTodo` (an agent's todo_update), `CancelRun`, `Abandon` (the HTTP
request is dropped, and with it the JoinSet) and `Restart`. Plans are all sets
of todos that `plan.rs` can build from a draft, chosen in `PlanInit`.

**TurnLoop.** A loop is `<<r, i>>`: `i = 0` is the chat's own, the others are its
subagents. `StartChat` and `Open` are run_composer_chat up to the loop; `Top` is
the top of the for loop with its cancellation test; `Hold`, `Arm` and the state
`wait` are the pause loop, with the test and the creation of the `Notified`
future as separate steps; `Drain` takes the steers and may write a compaction
marker; then the provider answers (`CallFails`, `Text`, `ToolCalls`). Read-only
and task calls run first in parallel (`StartTask`, `TaskEnds`, `EndFan`), the others
one by one (`RunTool`), with `StopRepeated` for the repeated-call guard, `Record` and
`EndStep` for results and the no-progress guard. `Unregister`, `Persist` and `Clear` are the end
of the request. `ToMessages` translates Turn::to_messages as a fold of `AddItem`.
`PauseRun`, `ResumeRun`, `SteerRun`, `CancelRun` and `CancelAll` are the control
operations, `Abandon` a dropped request.

**PlanBoard.** `TodoBoard` says what driving a plan promises to somebody who sees
only the list: an item is worked on once, after all it depends on is done, edits
wait for exploration and are limited, what is worked on settles, and an item
nobody worked on is dropped only because something before it was. `PlanBoard` maps
a todo's status to the item's state, leaves tasks, batches, retries and run
status out of sight, and states `ImplementsBoard`, fairness included, for one
request at a time (`RequestSpec`).

**Conversation.** A loop is a chat, which opens with the session's history and
appends its turn when it succeeds, or a subagent or todo in the same session,
which appends nothing but may leave a compaction marker. `AppendMany`, `Rebuild`
and `History` are the rollout's append, rebuild_messages and the turn window;
`CompactLoop` is compact with its hard fallback; `Migrate` and `DropBlob` the two
steps that replace the legacy blob; `ConvCrash` may tear the line being written, between
two characters, where a reader skips it and goes on, or inside one, where every
reader stops (`ReadRollout`).

**ToolGate.** `DispatchCall`, `CheckMode`, `CheckRules`, `CheckDefault` are the
reads of dispatch_tool in its order, each from the store; `Request` registers an
approval; the wait ends by `ReadDecision`, `CancelWins` or `TimedOut`. The timer fires in one
step and the receiver is dropped in a later one, between which an answer can still be
sent and acknowledged. `HookStat` and `HookRead` are the cache of hooks.rs: mtime
first, then the file; an edit leaves a new mtime or, within the clock's
granularity, the one before. `SetMode`, `SetRules`, `Resolve`, `CancelCalls`, `EditHooks` come
from handlers and from outside, `DropCall` is a request that goes away.

**ProviderChain** and **ProviderWire.** Providers are numbered in chain order, so that
a chain is a set; `Execute` copies it, and `IsNext` picks the target first and then the
least number; `NextEntry` asks the breaker; `StartAttempt`, `Piece`, `ChatOk`, `ChatErr`, `Wake` are an
attempt, its stream, its end and the backoff; `Elapse` lets a breaker's time pass.
A channel request is `Upsert` or `RemoveChannel`, `PutRow`, `ReloadBuild` and
`ReloadSwap`; the write and the read of the store may fail. `ProviderWire` builds the body of a request in each protocol, lets the server
cut its answer into pieces in any order the protocol allows, and merges them;
a full answer goes through `ParseFull`. Pieces may come without an index or an id, arguments
may be empty, and a piece of text may end inside a character (`Wide`), which is
decoded piece by piece; each protocol's sink gets what its code hands on.

**McpClient** and **Shell.** A call takes the connection's lock, sends, and reads
until an answer has its id, the connection dies or the timer ends it; then it may
reconnect once. Handlers replace the configuration or one connection. A shell
job is a process, a pipe, a pump task that spools to the log, and a status;
`RunCommand` returns when the job ends or the wait does; `ReadOutput` reads from an
offset while the pump writes: the end of what is there when that is longer than
`InlineOutput`, with a note, less a sentinel that lies within it, and perhaps only a part of
its first and last chunk. A killed or panicking pump publishes nothing.

**WorkspaceEdits** and **Memory.** Edit tools, proposals and rewinds write one file
per step and any step may fail, the read of a checkpoint and the removal in a rewind
included; a change may lack a path; a file's content is a version. A memory is a
record and an index entry, written and removed by separate transactions, each of
them a step; a list sorted by time and hits gives each memory its rank (`Listed`); `MemCrash`
kills agentd between two transactions.

**DocSync.** A replica is a set of numbered operations per author and shows those
before the first gap, as yrs does. `Observe`, `Handshake` and `JoinRoom` are the
steps of a connection; the room drops frames of a peer that lags. `before` records who
was in the room when a peer joined, for the property alone.

**ChatStore** and **IdeChat.** `ChatStore` has the operators of the chat store:
ensure_assistant, upsert_user, normalize_messages, the blocks and the cards of
subagents, apply_event. `IdeChat` has the user's actions, each of which spawns a task; a
task asks the backend in one step (`Serve...`) and posts its answer in a later one
(`Post`); the window handles its queue (`Handle...`). `Emit` is a run that makes events and
`Broadcast` their way into the subscription, which opens, replays (`StreamReplays`) and
subscribes (`StreamSubscribes`) in separate steps; a receiver that lags gets a gap notice in place of
events; `Forward` and `Reconnect` are the client's side.

**IdeSlices, IdeDocs, DocForge.** The same shape of window, task and answer for the
plan, todo, proposal and metrics panels (with the marks that allow one read at a
time) and for files, documents and the tree. A todo is saved in one step and
announced in a later one (`Save`, `TodoAnnounced`), with other writers in between, or not
at all (`AddTodo`, `BatchRerunTodos`). `DocForge` is the editor's state and
its document store, where loading a file merges it with what is there.

**IdeChannels, IdeAccount, IdePrefs.** Forms whose text fields are pooled by name, the
requests they start and the handlers of agentd that serve them, which read the stored
row in one step and write it back in another; registering is three transactions. `IdePrefs` has the pages with their controls as tables and the
config file with its write (`FlushOpen`, `FlushWrite`) and rename (`FlushRename`).

## 3. Runs

Passing:

| Run | Question | Properties |
|---|---|---|
| `stream` | with eviction, lag, lost connections and a crash that tears a line, does a number name one event, is the gap flag exact enough, and does a subscribed client get every event or a notice, and catch up? | `SeqIdentifiesEvent`, `ReplayComplete`, `StreamTypeOK`, `LiveComplete`, `CatchesUp` |
| `turn` | a chat with a subagent, paused, steered, cancelled or dropped anywhere | `TurnTypeOK`, `SteersInOrder`, `WireShape`, `TurnEnds` |
| `tools` | gate, chain, protocols, MCP client, shell and document room, one at a time | `GateSound`, `ChainSound`, `WireFaithful`, `McpSound`, `ShellKeeps`, `RoomSound`, `NoAttemptAfterCancel` |
| `records` | history, edits, memories, the bus under every truncation, the plan under everything around it | `HistorySound`, `EditsExact`, `MemoriesKept`, `BusTypeOK`, `RingAndLogAgree`, `PlanTypeOK` |
| `returns` | does whatever a turn waits for come back, and does one request do every plan of three todos correctly, to its end, and as the abstract board allows? | `CallsReturn`, `NoOrphanRunning`, `EditsBounded`, `CompletedMeansDone`, `StartsWhenReady`, `Terminates`, `ImplementsBoard` |
| `window` | clicks, answers, snapshots, events, lost connections, lag and truncations in any order | `WindowSound`, `CaughtUp` |
| `desktop` | panels with late, failed and foreign reads and todos announced by overlapping writers; documents, editor, channels, account, preferences; one at a time | `SlicesSound`, `DocsSound`, `EditorSound`, `ChannelsSound`, `AccountSound`, `PrefsSound`, `KeysKept` |

A property named `...Sound`, `...Kept` or the like is the conjunction of its
module's type invariant and the named invariants above it, each with a comment
of its own: `GateSound`, for example, is `GateTypeOK`, `AnswerHolds`, `PendingIsLive`
and `HookCacheFresh`.

Runs whose property TLC violates, because the code does not do what the
repository says:

| Run | What the code does | What the repository says |
|---|---|---|
| `stream_window` | an event emitted between `replay_since` and `subscribe` reaches the client neither way, and no gap is sent (`NoSilentMiss`) | `sse.rs:5-7`: the client resyncs "instead of silently missing events" |
| `turn_wakeup` | a cancellation between the pause loop's test and `notified()` wakes nobody, and the run waits for ever (`CancelEnds`) | `main.rs:51-52`: runs are cancelled so that requests "can finish quickly and the server drains" |
| `conv_forget` | a subagent or todo that compacts a transcript of its own writes the marker into the session's rollout, and the session's turns before it are gone from the history (`NothingForgotten`) | `rollout.rs:24-25`: the summary "stands in for everything that came before this line" |
| `gate_late` | an approval sent between the timer and the drop of the receiver is answered with success, and the call is refused (`ApprovalCounts`) | `permission.rs:180-181`: resolve "returns false if it doesn't exist (already resolved, timed out, or unknown)" |
| `channel_race` | a toggle that read a channel before a save stored its key writes the row back without it (`EmptyKeepsKey`) | `settings.rs:2699`: left empty, the saved key is not changed |

Other properties are stated in the modules and hold only in part, or not at all.
Each was refuted by TLC in the setting given here: the module with the constants of the named
configuration, changed as the row says. What the repository promises is quoted where it
promises something.

| Setting | What fails |
|---|---|
| `EventStream`, `Stream.cfg`: two threads, `MaxOps = 4` | `ReplayComplete`: events enter the ring out of order |
| `EventStream`, `Stream.cfg`: `Ops` with `ephemeral`, `FlushOnExit = TRUE`, `TornWrites = FALSE` | `SeqContinuity`: ephemeral numbers are not in the log, so a restart sets the counter back (`event_bus.rs:11-12`) |
| `EventBus`, `Records.cfg`: two threads | `NothingReturns`, `RingAndLogAgree`: an event published before a truncation is queued for the file behind it, and a restart brings it back (`event_bus.rs:365-366`: keep "only events with `seq <= max_seq` (memory + durable log)") |
| `EventBus`, `Records.cfg`: `TornWrites = TRUE` | `RingAndLogAgree`: rewrite_session removes the file before it renames the new one, and a crash in between loses the log |
| `Conversation`, `Records.cfg` | `TurnsReadBack`: behind a line torn inside a character nothing of a rollout is read any more (`rollout.rs:72-73`: corrupt lines "are skipped with a warning instead of poisoning the whole session") |
| `PlanBoard`, `Returns.cfg` | `NoneLeftBehind`: blocked_todos looks one step ahead and is called once |
| `PlanBoard`, `Returns.cfg`: two `Runs` | `CompletedMeansDone`: the second run resets `any_failed` over the failures of the first |
| `PlanBoard`, `Returns.cfg`: `ExploreLeads = FALSE` | `CompletedMeansDone`: an exploration behind an edit blocks both |
| `PlanBoard`, `Returns.cfg`: two `Drivers` and two `Runs` | `EditsSerial`: two requests drive one session, and their edits run side by side (`plan_exec.rs:52-53`: "bounded parallelism (default 1: serial) so concurrent agents don't fight over the same files") |
| `PlanExec` with `PlanSpec`, `Returns.cfg`: `PlanOps = {"rename"}` or `{"abandon"}` | `NoOrphanRunning`: a patch writes an old status back; an aborted task is not joined |
| `PlanExec` with `PlanSpec`, `Returns.cfg`: `PlanOps = {"rerun"}` | `CompletedMeansDone`: what the rerun todo blocked stays blocked |
| the same with two `Drivers` | `ControlReachesDriver`: a rerun replaces the control of a run that is still driven, which nothing can cancel any more (`control.rs:101`: "Cancel every active run (graceful shutdown)") |
| `MCTools`, `Tools.cfg`: `MaxChanges = 2` | `WriteNeedsLeave`: the mode is read twice, and a switch in between lets a write tool through (`dispatch.rs:39`: plan mode's "read-only invariant is absolute") |
| `ProviderChain`, `Tools.cfg` | `ChainCurrent`: a reload that cannot list the channels leaves them out; with two `Admins` and `MaxEdits = 2` the older of two chains is also put in place last (`service.rs:69`: the chain begins with the "configured channels from the durable store") |
| `McpClient`, `Tools.cfg` | `RetryOnlyStale`: a call that the server has run is sent again after a failure |
| `DocSync`, `Tools.cfg` | `EditsPropagate`: edits made before a peer connected stay with it |
| `Shell`, `Tools.cfg` | `SentinelHidden`: a read that ends inside the sentinel shows its two halves in two reads (`shell.rs:291`: "Hide the internal cwd sentinel from the model") |
| `Shell`, `Tools.cfg` | `FinishedHasStatus`: the pump panics when it cuts its tail inside a character, and the finished job has no status (`shell.rs:30`: "`Some(exit_code)` once finished") |
| `WorkspaceEdits`, `Records.cfg` | `RewindKeeps`: a checkpoint takes a file that it cannot read for missing, and a rewind removes it (`checkpoint.rs:2-3`: "Snapshots store file contents so a `rewind` can restore them") |
| `MCRecords`, `Records.cfg`: `MaxMemOps = 4` | `DeletedNotUsed`: a search or edit writes a deleted record back |
| `IdeChat`, `IdeChat.cfg` | `OwnCard`: a starting subagent takes the last card that is still running |
| `MCDesktop`, `Desktop.cfg` | `ProposalsFresh`: answers carry no session, and one for the session just left fills the panel of the next |
| `MCDesktop`, `Desktop.cfg` | `PlanTakesEffect`: the handler drops the plan and answers success |
| `MCDesktop`, `Desktop.cfg`: two `PfWindows` | `SettingsReadable`: two windows write the same `config.json.tmp`, and one renames what the other has only begun |

## 4. Bounds

All bounds are constants. Those named `Max...` count what the environment or the
user begins (operations, requests, clicks, edits, crashes, failures, lag, lost
connections) or what may be made; the others are limits of the code, set low.
They are the least at which the interesting cases happen. A ring of two and
three operations evict and restart; a second session shows what leaks
between sessions. A channel of one event lags on the second. Three todos are the
shortest chain with a todo two steps behind a failure, and hold an exploration
beside two edits. One retry tells "at most" from "one too many". Two steps, two
calls per response and limits of one make every guard of the tool loop fire, on
its own and against the others; one subagent shares control and queue with its
parent. Two calls, two executes, two MCP calls, two jobs, two peers, two requests
or two editing tasks are each the least that interleave; a third of any of them only
repeats a pair. A breaker with a threshold of two opens and is probed. A cap of one and
three memories evict. An edit names at most two files (`MaxFiles`), one of which may
fail after the other was written. In the chat window two user actions cross (one beside a run
with subagents, `MaxCardOps`), and its queue holds one message (`MaxQueue`): a
message that has to wait longer waits in its task or in the subscription's buffer,
which are as free to be late. The panels' window may have two answers waiting (`MaxInbox`), one of
which is stale. A log of a few chunks is longer than an `InlineOutput` of one; one `Wide` text is cut in the
middle and one is not. The client of `stream` follows one session (`Followed`) of the two that emit.
`Touched` names one control of every kind, so
that the controls of one kind are not multiplied by each other.

In `MCTools`, `MCRecords`, `MCReturns` and `MCDesktop` one component moves in each behaviour,
chosen at the start, and the others stay in an initial state. They share no
variable, so each component has exactly the behaviours of its own specification,
and since the properties are about one component each, nothing is lost. `VIEW Moving`
leaves the components that stand still out of a state's fingerprint; their values
are fixed by `part`, or do not matter to what moves.

`CHECK_DEADLOCK FALSE` is in every configuration because the system is
reactive: when the bounds are used up and all requests have ended it idles.
That nothing else stops it is what `CatchesUp`, `Terminates`, `TurnEnds` and
`CallsReturn` say.

## 5. Fairness

`FairSpec`: weak fairness for the bus' threads and writer and for each client's
connection, since tokio and the Go runtime run what is runnable; emits, connections and crashes are never due.
`RequestSpec` and `PlanFairSpec`: weak fairness for each driver, and for each attempt, which
`todo_timeout` ends. `TurnFairSpec`: weak fairness for each request's steps; provider
calls, tools and approvals have timeouts. `ReturnsSpec`: weak fairness for each
waiting call alone and, for the plan, that of `RequestSpec`; approvals, hooks, HTTP and MCP requests have timeouts, and
tools return. The user's answer, the server's answer and the reloads are never due.
`TodoBoard` is fair to what is being worked on, which `RequestSpec` implements.
Pausing, resuming, steering, cancelling and starting are never due, so that
`TurnEnds` allows a turn that waits in a pause for ever.

## 6. Proofs

All theorems hold for every value of the constants that satisfies the module's
assumption (sets of operations, positive limits), with no bound on threads,
sessions, drivers, todos, requests, calls, jobs, peers or steps. The inductive
invariants were checked with TLC on the configurations above before they were proved,
but for `MemInv`: it speaks of two histories, which TLC cannot enumerate; there the run
checks `MemoriesKept` itself.

**Lists.** What a fold or a filter computes needs induction over the list, and the
library's induction theorems cannot be instantiated here. `SequenceProofs` gets
by with sets: `LeastNat` (a set of numbers has a least one, from the
well-foundedness of `<`) and `CountUp` (a set that has 0 and each successor up to
n has all of them), applied to the set of the lengths for which a claim
holds. With it `FilterKeeps` says what `Filter` returns: the elements that are in the set, no
others, in their order, and all of them when all are in it. The models filter
with this operator, a recursive function, because the provers know nothing
of `SelectSeq`.

**Event bus and its clients** (`EventBusProofs`)

* **`BusTypeCorrect`** (`BusTypeOK`), under every operation: what hydration and the three
  truncations compute exists and is in range, whatever is torn or lost.
* **`SequenceNumbersUnique`** (`SeqIdentifiesEvent`), for a bus
  without truncation, rewind or purge (`AppendOnly`; after a cut numbers are
  reused on purpose). That no two events share a number is not inductive: `IndInv` adds that nothing of a
  session is in memory, in the queue or on the channel before its hydration
  (`HydratedFirst`) and that the counter is at or past each number in use
  (`CounterCovers`). The hard case is a hydration that
  reads the file outside the lock while another thread installs, emits and
  writes: it installs only if the session is still unhydrated, and until then
  nobody has changed the file.
* **`ReplayMissesNothing`** (`ReplayComplete`), for an append-only bus with one thread or with
  an unbounded ring (`OneThread \/ ~Bounded`). `ReplayInv` adds to `IndInv` that each event that is out
  is in its session's ring or lies before the ring's first (`Window`); for the latter to survive an
  eviction the ring must ascend, which one thread guarantees (`InOrder`). With two
  emitters and a bounded ring the theorem is false (section 3).
* **`RingAndFileAgree`** (`RingAndLogAgree`), for an append-only bus with any threads, through forks
  and crashes that tear a write anywhere. The property speaks of a quiet bus; `AgreeInv` says what
  leads there: each event of a ring that is to be kept is in the file, behind a line that stops
  readers (`unread`), in the writer's queue, or with the thread that is about to queue it
  (`RingStored`). With truncation and two threads the property is false, and with truncation and torn writes
  too (section 3); for one thread and whole writes it is model-checked with every truncation.
* **`StreamTypeCorrect`** (`StreamTypeOK`) and **`LiveEventsArrive`** (`LiveComplete`), for any bus:
  `StreamInv` says of each connection that its position lies in the channel and that,
  unless the client is told of a gap, every event of its session between the
  subscription and that position was written or read (`FollowsChannel`).

**Plan executor** (`PlanExecProofs`), for any number of requests that drive the session at once

* **`PlanTypeCorrect`** (`PlanTypeOK`), in every environment. `PlanInv` adds that
  todos are created in order, that a batch contains only existing todos and
  that tasks belong to the batch; the last two are needed to know that joining
  and blocking touch todos that exist.
* **`NoTodoLeftRunning`** (`NoOrphanRunning`), when nobody
  patches, uses todo_update, drops a request or restarts (`Steady`): exactly the
  acts after which TLC shows it to fail.
* **`CancelReachesEveryDriver`** (`ControlReachesDriver`), without reruns: a driver's run is
  known to be running (`DriverHasRun`), so that no second driver registers for it. No run checks the
  property: without reruns and with one driver it cannot fail, and with both it does (section 3).
* **`EditsRunBounded`** (`EditsBounded`), unless a PATCH changes the kind of a todo (`KindsStay`). The
  limit is that of one request, which is what run_plan enforces; for the session
  `EditsSerial` says it, which two requests break. A batch has todos of one kind, and no more
  edits than the limit (`BatchKind`), because taking the first few of a set respects the limit (`FirstFew`).
* **`TodosStartWhenReady`** (`StartsWhenReady`, an action property), as long as only drivers write the
  status of a todo that exists (`DriversDecide`); adding, cancelling, dropped requests, panics and restarts
  are all in. A todo may wait in a batch while others of the batch run, and another request may meanwhile have
  taken up something it depends on: `PickedReady` says that what a picked todo waits for is completed or was started by another
  driver, and `TriesNoted` that the latter leaves a trace.

**Turn loop** (`TurnLoopProofs`), for any requests, subagents, limits and operations,
dropped requests and shutdown included

* **`SteersArriveInOrder`** (`SteersInOrder`): what was injected followed by what is queued is the accepted
  sequence. Taking the queue leaves the concatenation as it is, and pushing
  continues the count (`TakeKeeps`, `PushContinues`).
* **`TurnTypeCorrect`** (`TurnTypeOK`): the guards stop a loop in time. The counters are tested
  at different steps, so `LoopInv` bounds them by where the loop is: inside a step fewer
  steps than the limit are behind it, and only a loop that is over may have passed
  the no-progress limit (`Guarded`).
* **`PersistedWireShape`** (`WireShape`): the record that a turn leaves can be sent to a
  provider. `WireInv` says what Turn::to_messages makes of the items recorded so far, by where
  the loop is: before a response no call is open (`Ready`); while calls are dispatched the response is last,
  and while they are recorded the answers so far follow it in order
  (`Calling`); a loop that ended well has spoken (`Spoken`). Each step appends items, so the lemmas
  follow one `AddItem` at a time; a response with its calls is counted up.

**Below the turn** (`ToolGateProofs`, `ToolsProofs`)

* **`GateCorrect`** (`GateSound`). `GateInv` says of every call, by where it is, what it
  may have in `pending`, in the decision channel and as its outcome (`CallOK`). Once the timer has fired
  and until the receiver is dropped an answer still finds the request and is acknowledged:
  such an answer counts as late (`PromiseExpired`), and `AnswerHolds` promises only that one in time decides; what
  becomes of a late one is run `gate_late`. No call and no cache holds an mtime newer than the file's
  (`LabelsOld`), and since a file may be written twice at one mtime, the cache is promised to have hooks that the file
  had at its mtime, not the latest of them.
* **`McpCorrect`** (`McpSound`). No message on a connection carries an id that was not
  drawn yet (`IdsDrawn`), so a new id is on nobody's message; a waiting call alone holds
  the lock (`LockHeld`, `LockUsed`), and its id is on its own messages only (`OwnId`),
  whatever timed out before it.
* **`EditsCorrect`** (`EditsExact`). `EditInv` adds for each task in a loop over files which of them it
  has done (`TasksPlaced`), and of a checkpoint that it keeps what a file held or takes the file for
  missing (`KeptOrMissing`). So a rewind restores every file that the checkpoint could read; one that it could
  not is removed, or is left when the removal fails.
* **`ShellCorrect`** (`ShellKeeps`). `ShellInv` adds that a job has no status before its pump
  has ended, that it was started after jobs that had one (`JobOK`), and that a reader has one entry for each
  position before its offset, which lies in the log, which only grows (`Grows`). What a read shows at a position is the
  chunk, or a note that a long read left it out, the sentinel or half of it, or a chunk that a read ended inside.
* **`MemoriesCorrect`** (`MemoriesKept`). `MemInv` gives every memory one scope for good and
  every time one memory that was touched at it, so that no two memories tie and the order
  of a list is strict (`Facts`). A request that can still report a memory as written has it
  in the store and in the index, unless somebody has begun to remove it (`Answerable`).
  The cap holds only when all is quiet, so the invariant looks ahead: leaving out what some
  request is about to erase (`Dying`), a scope is within its cap or a request is
  still to count it (`Bounded`). It will count everything, because a record stays out of the
  index only while a request is about to enter or erase it (`Placed`). That a list ranked to
  its end leaves out nothing follows from counting (`ListedRank` and what cites it).

**Shared services** (`ServiceProofs`)

* **`ChainCorrect`** (`ChainSound`), for any overlap of
  channel requests, whose reads and writes of the store may fail. For each execute the chain it copied is split into what is
  left, failed and skipped, and the entry it is at (`EntryOK`, `TryOK`); the mock has the
  highest number, so nothing is left when it is tried. The bound on a breaker's count needs
  the executes in flight: while a breaker is open none comes to its provider,
  and each one there adds at most one failure (`Counted`, `InFlightShrinks`). That the chain in use
  is the stored one (`ChainCurrent`) is false and no part of it (section 3).
* **`NoAttemptOnceCancelled`** (`NoAttemptAfterCancel`), an action property, needs of the
  invariant only the types.
* **`RoomCorrect`** (`RoomSound`). `SyncInv` says of each edit a peer has where it is on its
  way to each other peer: in its replica, in a queue, or covered by a request that is
  still to be answered (`Covered`), separately for peers that joined later (`ToLater`) and
  earlier (`ToEarlier`). A frame never claims more than its sender has (`FramesOK`),
  because replicas only grow; a state vector counts a prefix (`VectorKnown`).
* **`HistoryCorrect`** (`HistorySound`), for any sessions, loops, turns and window. A turn that is to be kept
  is read back unless a line torn inside a character is in front of it, where every read ends (`ReadRollout`): then it
  is in the file.
  `ConvInv` says of every loop that its window mentions no cleared turn of its session, neither
  as a message nor in what a summary covers (`LoopOK`), of each log that it has the two messages of
  each turn that is to be kept, readable or behind such a line (`KeptOK`), and no line of a cleared one that is read, and of a legacy
  blob that turn 0 was not cleared (`CleanOK`). An append behind a torn line spoils one line (`Appended`): the first
  line of a turn is its boundary and not a message, so the turn survives.

**Desktop** (`DesktopProofs`)

* **`AccountsCorrect`** (`AccountSound`). A request acts on what it read earlier, so `AcInv`
  says what each phase knows (`AcKnows`): the user a login found, the record a registration
  wrote, the record a patch will write back. It stays true whatever other requests do
  because records are only added and never change their address (`AcGrows`, `AcTaskGrows`).
* **`WorkbenchCorrect`** (`DocsSound`). A late answer opens a tab, so `DocsInv` says of the
  requests and answers under way that a path is read or written only in the
  format it has (`NetOK`), and that a tab of a file or document is there exactly while a
  buffer, a view or a preview of it is loaded (`ShownOK`). Tabs are distinct, so closing one leaves no
  second (`TabsOK`).
* **`ChannelsCorrect`** (`ChannelsSound`) and **`KeysStayKept`** (`KeysKept`, an action property). A
  count of requests is not inductive by itself; `ChInv` says that a mark which is up has
  one request of its kind and one which is down has none (`ChMarksOK`), what a request
  carries (`ChTaskOK`), and that every list of channels, in the window or on its way, names
  channels once created (`ChListOK`), which is why an edit after a deletion creates none that agentd
  does not know. A save or toggle reads the row in one step and writes it in a later one: its payload has the key
  if the row it read had one (`ChPutOK`), so a key is lost only with its channel or when another request
  changed the row in between (`Overtaken`; run `channel_race` shows it). The search settings have one writer at a time, so
  theirs is never lost (`ChSearchOK`).

**Only model-checked.** Liveness (`CatchesUp`, `Terminates`, `TurnEnds`, `CallsReturn`), which is
out of the prover's reach. `CompletedMeansDone` and `ImplementsBoard` speak of one request that drives the
session once, and no code enforces that: a theorem would have to assume it. `WireFaithful`,
`WindowSound`, `CaughtUp` and `EditorSound` say what folds over a whole answer, chat or document
compute (`ProviderWire`, `ChatStore`, `DocForge`), each of which would need induction over
data of its own. `SlicesSound` and `PrefsSound` have no proof so far (section 8).

## 7. What is not modelled

* Of the modelled parts: the byte-offset index of the JSONL store (nothing
  calls its reader); failing writes to the log; channel filters of the event API;
  the plan record's own status and the proposal made after a completed run;
  drafting a plan and parsing the draft; pausing inside a plan's todo; the driver's
  save of a todo as two transactions (a PATCH has both); prompts, tool specifications,
  usage figures and streamed deltas; the text of a compaction; token estimates (messages
  count one); HTTP transport of MCP servers; password hashing and token signing; layout,
  rendering, scrolling, the mention picker and the clipboard of the desktop.
* Cases that a model has and a property leaves out. `CaughtUp`: a snapshot request that failed, an event emitted while the
  backend composed a snapshot, one that fell between the replay and the subscription of the stream (run
  `stream_window`), and a replay from a number that a truncation had taken back. `TodosCaughtUp`: a
  change that was not announced, not yet, or before the event of an earlier one, or while a snapshot was composed.
  `RoomSound`: a room in which a frame was skipped, and edits made before connecting. `AccountSound`: the profile shown
  after a logout. A discard that falls into an apply is overwritten by it, and a change without a
  path is passed over and the proposal still called applied, as the code does.
* Cases that a model leaves out. `IdeChat`: the eviction of events from the server's ring (`EventStream` has it).
  `IdeSlices`: lost connections and lag (`IdeChat` has them). `WorkspaceEdits`: the get and the save
  of a mark are one step. `IdeAccount`: failures of the store that the client ignores (`app.rs:3098`), which are
  taken to succeed. `DocForge`: sync peers that edit what the editor shows, and may
  delete the selected block; where two segments from elsewhere are merged, the later one may go anywhere, which allows
  more than the identifiers of yrs do. `McpClient`: a write to the stdin of a server that reads nothing, which has no timeout of
  its own (`agent-mcp/src/lib.rs:103-109`), succeeds or fails.
* Not modelled: the other tools (files, documents, web), which are sequential
  functions of their arguments and I/O; workspaces, swarm and subagent
  definitions, which are records with get and put (the swarm endpoint replays a
  fixed script); configuration and protocol types, which are constants here;
  the gateway's authentication, a stateless check of a request; widgets, rendering
  and the compiler bindings of the desktop libraries; the store, of which
  the models take one redb transaction as one step; the Python and TypeScript stacks,
  which are superseded.

## 8. Plan

The model covers what changes state under concurrency or failure. What remains is
proof, in this order:

1. `IdePrefs` and `IdeSlices`: `PrefsSound` and `SlicesSound`, with `Filter` for `SelectSeq`.
2. `ChatStore`: what Hydrate keeps, by the argument that `PersistedWireShape` uses for
   `ToMessages`; then `WindowSound`.
3. `ProviderWire` and `DocForge`, by the same argument.
