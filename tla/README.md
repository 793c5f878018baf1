# Natives: TLA+ specifications of the agent daemon

Natives is a desktop assistant. Its core is the Rust daemon under
`src/src-agent-daemon` with the crates under `src/crates`: it runs agents against model
providers, keeps conversations, runs and events in SQLite, and serves the desktop
application and command line clients over RPC. The specifications here are about that
daemon: how a run is started, cancelled, finished and recovered, how prompts queue up
behind a run, how the engine loops over provider and tools, how questions reach the user and
side effects a ledger, how child runs are spawned, what a conversation remembers, and how
provider requests are paced.

Paths below are relative to `src/`; `daemon/` is `src-agent-daemon/src/`.

| module | what it is |
|---|---|
| `RunStatus` | the status graph of a run, and the abstract promise to a client |
| `RunLifecycle` | one run: commit protocol, start, cancel, finish, recovery; implements `RunStatus` |
| `RunLifecycleProofs` | its invariants and its refinement, proved |
| `PromptQueue` | the prompt queue of a conversation: rows, coordinator, engines, sendNow, crash |
| `PromptQueueProofs` | what the durable rows guarantee, proved |
| `Governor` | the provider request governor: tickets, timers, wake-ups, cooldowns |
| `Engine` | the loop of one run: attempts, stream, calls, turns, inputs, compaction, cancel |
| `Compaction` | the transcript operators of `Engine`: repair, split, summary |
| `EngineProofs` | what repair and summary return; requests paired and journalled, turns closed, handlers authorised and accounted for, acknowledged inputs shown, proved |
| `DecisionLog` | what is promised of a question: one final decision, announced as decided |
| `Interactions` | questions to the user: asker, two answering methods, outbox, cancel, crash; implements `DecisionLog` |
| `InteractionsProofs` | what wakes and allows a tool, and the refinement of `DecisionLog`, proved |
| `ToolEffects` | side effects of a run's tools, the ledger, the gates of retry, continue, resume |
| `ToolEffectsProofs` | that rows follow effects, doubt stays and the gates hold, proved |
| `Subagents` | the saga and the watcher of child runs, slots, retries, failure policies |
| `SubagentsProofs` | that an ended child holds nothing and the facts told of it are final, proved |
| `Transcript` | the journal of a conversation's runs, its message rows, snapshots and recovery |
| `TranscriptProofs` | no turn is overlooked or halved, recovery leaves none behind, the next run reads all of it, proved |
| `McpServers` | one MCP server shared by runs: children, sessions, start, stop, calls, references |
| `SharedProofs` | of what runs share, Governor and McpServers: types, no lost wake-up, pacing and cooldowns; no child is orphaned, answers reach their askers, proved |
| `MC*` | instances for TLC; each `.cfg` is one run |

`PROJECT.json` lists the runs, the map from definitions to source lines, the hazards, the
findings, the mutants (a plausible bug for every checked property, which the property
must catch) and the theorems.

## 1. Inventory

### Modelled components

**Run status graph** (`crates/agent-core/src/run_state.rs`,
`crates/assistant-protocol/src/v2/run.rs`). Pure: eleven statuses, the legal edges, the
terminal and active sets. Correct when every status a client reads is reached along the edges.

**RunManager** (`daemon/run_manager.rs`). State: the `runs` map in memory, the `run` row in
SQLite with a revision, the `runs/snapshot.json` file. Operations: `create_run`,
`start_detached` and `start`, `cancel`, `finish`, `commit_status` / `commit_transition`
(read status and revision; one SQLite transaction with a compare-and-set on both and the
insertion of the event; memory copy; injection into the sequencer), `persist_run_row`
(an unconditional upsert of the start path), `fail_run_if_active`, recovery
(`interrupt_active_sqlite_runs`, `restore_runs_snapshot`). Hard: the four pieces of a
commit are separate critical sections and start, cancel, finish, the engine's outcome and
the START_FAILED fallback all race through them; a crash may fall between any two.
Correct when one terminal fact is journalled per run, memory never shows a terminal status
the journal lacks, settled rows stay, and every started or cancelled run settles.

**ProductionRuntime** (`daemon/production.rs`). State: the engines map and the tokens of
the ExecutionRegistry. Operations: `start_run` (register, checkpoint, mark the coordinator,
run the engine, post-process, drain the prompt queue) and `cancel_run_tree`. Hard: every
`?` between two durable steps leaves half of them done.

**EventSequencer and event log** (`crates/agent-core/src/event_sequencer.rs`,
`daemon/event_log.rs`). State: a next number per run, the events in memory, subscribers,
the `run_event` rows. `append` takes the next number and writes the row first;
`inject_committed` adds an event a commit has already written. Correct when nothing is
published that is not durable.

**ExecutionRegistry** (`daemon/runtime/execution_registry.rs`). State: cancellation
tokens and managed resources by run, as a tree. Operations: register, signal, grace period,
forced cleanup, `tree_quiet`.

**Prompt queue and session coordinator** (`daemon/prompt_queue_store.rs`,
`crates/harness-core/src/session_actor.rs`). State: `prompt_queue` rows (queued, leased,
sent) with a lease, the `session_actor` row, and in memory a `ConversationActor` with its
queue, active run, running prompt, item to start after a cancel and drain flag. Operations:
enqueue, list, update, remove, reorder, sendNow, interject; an engine's drain and ack;
safe points; `on_run_terminal`; recovery. Hard: rows and actor are changed one after the
other with no lock over both, by requests and engines at once. Correct when no accepted
prompt is lost, none is delivered twice, no two runs hold one input, and a prompt is
started beside no running engine.

**Provider request governor** (`daemon/governor.rs`). State: the settings, and by route
(provider and key) the last send, the end of a cooldown and a queue of tickets; one shared
`tokio::sync::Notify`. Operations: `acquire`, `record_rate_limit`, `update_settings`. Hard:
wake-ups that may be lost, timers computed before a rate limit moved them, acquires dropped
by a timeout. Correct when sends are paced, cooldowns are kept, and every waiter returns.

**Agent engine** (`crates/agent-core/src/engine/engine_core.rs`, `compaction.rs`). State: the
typed transcript it sends, the turn and attempt it is in, the batch of calls, two input
queues, the cancel token; durable: the facts it appends. Operations: attempts with backoff and
overflow, the stream, tool batches, closing a turn, taking inputs, compaction. Hard: every
append may fail, a cancel may come at every await, and every cut of the transcript must
leave calls and results paired. Correct when no request is malformed, nothing is sent that
is not durable, every turn is closed, and the loop ends.

**Interactions and permissions** (`daemon/interaction_store.rs`, `runtime/interaction_hub.rs`,
`production_tools.rs`, `production.rs`). State: the `interaction` and outbox rows, the waiters
of the hub. Operations: ask, interaction.respond, permission.respond, timeout, cancel of the
run tree, boot replay. Hard: the row, the event and the wake-up are three steps, taken by two
methods that do not know of each other. Correct when one decision is durable, announced as
decided, and no tool runs on anything else.

**Checkpoints, side effect ledger and resume** (`daemon/side_effect_ledger.rs`, `event_log.rs`,
`checkpoint.rs`, `run_manager.rs`). State: the effect rows, the completion facts, the metadata of
the checkpoint, the resume plans. Hard: intent, handler, fact and settlement are separated by a
process the daemon does not control. Correct when each effect has a row, doubt is never
forgotten and a run is not repeated over an effect nobody can account for.

**Subagents** (`production_tools.rs`, `crates/agent-core/src/subagents.rs`, `subagent_store.rs`).
State: the agents and the slot counter in memory, the `subagent_session` rows, the parent's
stream. Operations: the saga that spawns a child, the watcher with deadline and budget, the
failure policies, retry, kill, recovery. Hard: three ledgers changed in turn by saga, watcher,
cancel and restart. Correct when an ended child holds nothing and the parent is told once.

**Conversation store and projector** (`daemon/conversation_store.rs`, `conversation_projector.rs`).
State: message, turn, watermark, quarantine and snapshot rows. Operations: prompts and inputs,
projection of a run, backfill and recovery at start, the history of the next run. Hard: two
representations of one conversation, made of a journal at different times, either of which may
fail half way. Correct when no committed turn is lost or doubled and the next run reads a whole,
paired history.

**MCP runtime** (`daemon/mcp_runtime.rs`, `runtime/mcp_invocation.rs`). State: per server the
registration, the session with its child, the handshake in flight, a status, the references of
the runs. Operations: start, stop, reconnect, liveness, call, acquire and release, the idle reaper,
removal. Hard: each map has a lock of its own, runs and requests start and stop the server under
each other, and the process at the other end may be silent. Correct when no child is left to
itself, answers reach their callers and nobody waits for a slow server.

### Components not modelled

| component | state and operations | why not |
|---|---|---|
| Storage actor (`storage/actor.rs`) | bounded queue to a single writer thread; submit, shutdown | a queue and a barrier; next in the plan |
| Conflict leases | resource leases of concurrent tools | dormant: no production tool with an effect is ParallelSafe |
| Provider routing, adapters | failover, circuit breaking, wire formats | the first-byte timeout is in `Governor`; parsing is out of scope |
| Capability gateway, tool policy | decision tables, processes | data and I/O |
| Harness control plane, capability hub, skills | compiled configuration | pure data |
| RPC server, CLI bridges, desktop host, protocol crates, frontend | dispatch, process I/O, user interface | no protocol of their own beyond what is modelled |

### How they interact

RPC requests call RunManager and the prompt queue directly on async tasks. RunManager spawns
a task that calls `ProductionRuntime::start_run`, which registers a token, runs the engine
and, before RunManager commits the terminal status, calls
`prompt_queue_store::on_run_terminal`, which starts the next prompt through
`RunManager::start_detached_global`. The engine calls back at its safe points to lease and
acknowledge queued inputs, appends events through the EventSequencer, and sends provider
requests through RoutedProvider and the governor. `cancel` reaches an engine through the
ExecutionRegistry's token. SQLite is the authority after a restart.

## 2. RunLifecycle

One action is one critical section or one stretch without an await; every lock release and
every await is an interleaving point.

| variable | code |
|---|---|
| `db`, `log` | the `run` row (status, revision) and the `run_event` rows |
| `mem`, `snap` | the entry of `RunManager.runs`, and of `runs/snapshot.json` |
| `seq`, `seen` | EventSequencer: its counter, the events it holds and has broadcast |
| `entry`, `token`, `handle` | registry entry, the token each start task holds, the engines map |
| `pc`, `frame` | where each request is, and the stage of the commit it is in |
| `row`, `out`, `quiet` | a cloned row, the engine outcome, what `tree_quiet` said |
| `restarted`, `stale` | the daemon was restarted; history: an upsert put an older row back |

A caller opens a commit with `Call`; `Begin`, `Tx`, `Apply` and `Inject` run it, and any
other actor may step in between. `Begin` is commit_status with its early successes (the run
is already in the target status, or terminal), `Tx` the transaction with its compare-and-set,
`Apply` the copy to memory and the snapshot, `Inject` the publication. `Start(s)`,
`Cancel(c)` and `Finish(f)` are disjunctions of the callers' steps; `EngineEmit` is the engine's
events; `Restart` is a crash with the recovery that precedes any request.

Left out: CLI runtimes, fail-fast parents and child runs, waiting statuses, creation and
lineage (the run exists and its user turn is recorded), SQLite and file errors. The two
reads of commit_status are one step.

*Runs.*

- `lifecycle` (one start, one cancel, one finish that names completed or cancelled, one crash, at
  most two engine events, fair scheduling):
  `ShownIsJournalled`, a terminal status a client reads is in the journal whatever stale row was
  written; `MemoryFollowsRow`, memory is the row or one pending commit behind; `OneTerminalFact`;
  `SettledRowIsFinal`; `ImplementsRunStatus`, the refinement of `RunStatus` with
  `shown <- mem.status`; `RunSettles`, a run that was started or cancelled is settled in the end.
  `TypeOK`, `PublishedIsDurable` and `RecoveredIsSettled` are proved, and no run repeats them.

`MemoryFollowsRow`, `OneTerminalFact`, `SettledRowIsFinal` and `RunSettles` except
the case `stale`: `persist_run_row` can put an older row back (section 11), and
what the compare-and-set guarantees holds until then. The other properties make no exception.

*Bounds.* One start, one cancel and one finish are the three writers that may race for a
terminal status; a second start gives two engines (section 11), and each further request is a
writer of a kind already present. A finish may name any terminal status; completed is one the
run may reach by itself at any time, cancelled one that only a cancel opens the way to, and failed is
what a start reports of itself. The theorems hold for any number of requests and any statuses. `MaxEmits`
bounds engine events: one event is enough to take the number a commit wanted, two to do it
twice.

*Fairness.* Weak fairness of the steps of each request once accepted (`Serve(a)` and
`pc # "idle"`): spawned tasks are polled by the runtime until they end, and none of them waits
for something that may never come. The engine counts as such a task because its provider
requests time out; an engine that asks the user for a permission may wait for ever, and since
the waiting statuses are not modelled the liveness properties say nothing of it. Requests and
crashes are not fair.

## 3. PromptQueue

| variable | code |
|---|---|
| `row`, `lease`, `next` | status and `lease_run_id` of the `prompt_queue` rows; rows inserted |
| `actor`, `saved` | the ConversationActor; the `session_actor` row |
| `status` | what RunManager knows of each run |
| `pc`, `item`, `batch` | where each engine and sendNow is, the item it starts, the inputs an engine has leased |
| `pushing`, `dropping`, `listing` | enqueue, remove and list requests between their row and their actor step |
| `lives`, `delivered`, `removed` | crashes; history of acknowledged and removed items |

The methods of SessionCoordinator are operators on an actor (`Enqueued`, `Reloaded`,
`Restored`, `Requeued`, `MarkedRunning`, `MarkedItem`, `Finished` and so on). Requests are `EnqueueRow`
then `EnqueueActor`, `RemoveRow` then `RemoveActor`, `ListRows`, `ListReload`, `ListRestore`; sendNow is
`SendLookup`, `SendEnsure`, `SendClaim`, then either a start or `SendCancel` and `SendFinish`. `Launch`,
`MarkItem`, `MarkSent`, `DeleteSent` start an item, for sendNow and for on_run_terminal alike. An
engine does `MarkRunning`, `Drain`, `Ack` or `AckLost`, `Forget`, `SafePoint`, and ends through
`OnRunTerminal` or `StartRunFails`, then `Close`.

The run of item *i* is called *i*, because a queued prompt is started with the idempotency key
`prompt-queue:{id}`. Simplifications: one conversation; items are numbered in row order; a
snapshot is written in the step of the change it follows; accepting a start and cancelling a
run are single steps (their races are RunLifecycle's); sendNow's reading of the active run and its
finish_run are one step; an actor entry is either Queued or not. Left out: update and reorder, the
interjection slot (production never fills it), SQLite errors.

*Runs.*

- `prompt_queue` (one user run, a prompt that may be removed and an interjection, a sendNow, a list,
  a crash): `NothingLost`, `AckedForGood`, `LeaseExclusive`, `RecoveredQueue`.

*Bounds.* Two prompts are the fewest with an order and with a next one behind the one started;
the user's run and the runs of the two prompts give three engines that may lease. The constraint
`OneRequest` lets one of sendNow, remove and list come beside the engines: the races are with the
engines and with on_run_terminal, and all three at once do not fit in memory. sendNow comes before
the crash, while the enqueue of the first prompt at most is half done. One crash, because recovery
erases everything but the rows, the snapshot and the fact that a run was accepted, and the state
after one crash is like that after two. Three of the four properties are also proved, for any
number of prompts, runs, requests and crashes and without the constraint.

No fairness: all properties are safety. A queued prompt may wait for ever, by design: recovery
does not start runs, and the user has to.

## 4. Governor

`age`, `cool`, `timer`, `left` count ticks relative to now, so no clock has to be bounded; `Tick`
moves them together. `Enter` takes a ticket; `BypassDisabled`, `Send` and `Wait` are the three ways
out of acquire's look at the state under the lock, `Wake`, `SeeCancel` and `Unlink` follow the
`select!`, `NotifyAll` is `notify_waiters`, which happens after the unlock and is therefore a step of
its own. `TimeOut` is RoutedProvider dropping the future. `notify_waiters` reaches every
Notified that exists, and a waiter makes its own before it looks: that order is what
`NoLostWakeup` rests on.

*Runs.* `governor` (three requests of one route, a settings update, interval and cooldown of two
ticks, timeout of one): `NoLostWakeup`, `Paced`, `CooldownHeld`, `WaiterReturns`.
`governor_leak`: see the findings. `WaiterReturns` says "unless a dropped request left its ticket",
which is the finding.

*Bounds.* Three requests are one in front, one behind it and one that comes or goes between;
intervals beyond the timer's length add ticks and no order of events. A route shares with the
others only the Notify, so spurious wake-ups by another route are the same as those by an update.

*Fairness.* Weak fairness of what the runtime owes a request (`Proceed`), of the notification
that ends an update, and of `Tick`. Answers, timeouts and cancellations may never come. A tick is
seconds long while the code between two awaits is not, so time passes only when everybody sleeps
or waits for a provider; without that, a request whose timer is over could be said to be late.

Deadlock is not checked in any run: requests end, and the daemon then idles.

## 5. Engine

`AgentEngine::run_inner`, one action from one await to the next. `Cancel` may come between any
two; a write of a critical fact may fail (`MaxFaults` of them), a hook may deny or refuse, and
the provider may answer anything.

| variable | code |
|---|---|
| `pc`, `outcome` | the await the engine is at, what it returned |
| `transcript` | `typed_messages` |
| `step`, `attempt`, `overflowed` | the turn, its generation attempts, `overflow_compacted` |
| `reply` | `text_acc`, `tool_acc` and the stop reason of the stream |
| `batch`, `together`, `at`, `ran`, `poisoned` | prepared calls, whether they are parallel, the one that is concluded, handlers that ran, a handler answered PERSISTENCE_FAILED |
| `summary` | attempts and failures of the model's summary; history: the inputs its summaries replaced |
| `facts` | the journal of the run, as kind, turn and call |
| `acked`, `sent` | inputs whose rows are acknowledged; history: inputs the last request showed |

`Compaction` holds what the engine does to transcripts, as operators that are also compared
with a reference: `MCEngine` assumes, over every damaged transcript of up to four messages, that
the repair answers every call and changes nothing but results, and that a summary of a whole
transcript is whole wherever it is cut.

Texts are left out, so what the loop detector and the trimming of outputs decide is a choice
of the model (`DoomRounds`, 2 here and 3 in the code, bounds when a repetition may end a run).
Messages hooks inject in front of the history have no pairs and are left out, as is the
interjection slot, which has no writer in production. Events behind a stop reason are not
modelled. A parallel batch runs all its calls at once, where the code runs four at a time
(`PARALLEL_SAFE_MAX_CONCURRENCY`): the model allows more interleavings, never fewer. The histories a run starts with are assumed to be sequences of complete messages
(`EngineAssumption`), `Paired`; that they are is `ContextIsPaired` of Transcript, which is proved as well. Steering and
follow-up inputs are finite sets; no other bound is assumed, and the six invariants of the run are
proved from that (section 12).

*Run.* `engine` (two turns of three attempts, two calls of one id, two steering inputs and one
follow-up, a tail of one message, two failed writes): `RequestsArePaired`, `SentIsJournalled`, `TurnsAreClosed`, `RanWasAuthorised`,
`EffectsAreAccountedFor`, `AckedWasSent`, and `EngineReturns`.

*Bounds.* Two turns are needed for an id used again, an input taken between them and a compaction
that changes what the second sends; three attempts are the code's number. Two faults, because
marking a call uncertain after its completion failed is itself a write that may fail. A history
of five messages is compacted at once, a new one when its first turn had calls and inputs. With two steering inputs
taken at one safe point and a tail of one message, a summary takes the place of an input no request has
held; the code's tail is of six (`SUMMARY_KEEP_TAIL_MESSAGES`), and the number of waiting inputs has no limit.
`AckedWasSent` counts such an input as shown by the summary whose prefix held it. What the summary says of it is
the summariser's; of a prefix longer than its budget it is given the first message and the last ones
(`render_transcript_for_summary`).

*Fairness.* Weak fairness of the engine's own step: the first-byte and the idle timeout end a
provider that is silent, tool calls have timeouts and a cancel. The cancel itself is not fair.

## 6. Interactions

`DecisionLog` is the promise: a question has one verdict that never changes once it is given,
and what the journal announces is that verdict. `Interactions` implements it
(`ImplementsDecisionLog`).

| variable | code |
|---|---|
| `row`, `decision`, `outbox` | the `interaction` row, its response, the `interaction_outbox` row |
| `journal` | InteractionRequested, the decision's event, the conclusion of the asker |
| `waiter`, `answer` | the sender in the hub; what was sent, by the delivery or directly |
| `asker`, `heard` | where the asking future is, the verdict it acts on |
| `cancel`, `sweep` | `cancel_run_tree`, the waiters it took |
| `worker`, `backlog`, `serving` | the answering calls and the boot replay |

An answer over `interaction.respond` is `Respond` (row and outbox in one transaction), then the
event, the wake-up, the settlement of the outbox; over `permission.respond` it takes the waiter
after it resolved the row, whether it changed it or not. `HearTimeout`, the sweep of a cancel,
`Crash` and `ReplayNext` race them.

*Run.* `interactions` (one question, two clients, a timeout, a cancel, a failed write, a crash):
`WokenAfterEvent`, `AllowedAsAgreed`, `DecisionIsAnnounced`, `ImplementsDecisionLog` and the liveness
property `AskReturns`.

*Bounds.* Questions share nothing but the cancel, and two clients are the fewest that disagree.
One fault and one crash reach every pair of steps; a second crash finds what one left.

*Fairness.* Weak fairness of the asking future, whose timeout always comes, of a call in progress
and of the boot replay. No client has to answer.

## 7. ToolEffects

| variable | code |
|---|---|
| `at`, `result` | where each call is, what it returned to the engine |
| `effect` | the outside world: what the handler may have done |
| `ledger` | `side_effect_record` rows by `ledger_sequence` |
| `facts`, `turn`, `point` | ToolCallCompleted, TurnCompleted, the metadata of the checkpoint |
| `engine`, `cancel`, `run` | the engine future, its token, the run |
| `plans` | resume plans that were decided |
| `held` | a retry that waits for the mutex of the store while it holds it |

A call writes its intent, runs its handler and returns; the engine then appends the fact, which
settles the row in its transaction. Before-images make a file tool's row safe to repeat. An MCP
call settles its row itself. `ForceAbort` drops the engine future at any await, `CrashRestart`
forgets it; `Retry`, `Continue` and `Resume` are the gates. A `Retry` that finds an uncertain row
decides nothing: it locks the store against itself (§11), and no gate answers until `Restart`.

*Run.* `tool_effects` (a file tool, an MCP call, an external tool, two failed writes, two
requests): `RowsFollowEffects`, `ContinueIsSafe`, `DoubtIsKept`. One call of each kind is one of
each path through the ledger; a second request sees what the first confirmed.

WorkspaceCheckpoint and rewind (before-images restored to the disk) are left out: they run no
agent and are I/O from end to end.

## 8. Subagents

| variable | code |
|---|---|
| `owner`, `policy` | the arguments of a `task` call |
| `pc`, `seen`, `verdict` | where its saga or watcher is, the watcher's locals |
| `session`, `slot`, `retries` | the `subagent_session` row |
| `run`, `over`, `told` | child run, budget exceeded, fact on the parent's stream |
| `parent`, `reason` | the parent run, and the reason `fail_run_if_active` noted |
| `agent`, `inUse`, `task` | SubAgentManager with its counter, `task_outputs` |

The saga is `Open`, `Reserve`, `CreateRun`, `Register`, `MarkRunning`, `Announce`, `Start`, each with the
compensation of its failure; the watcher is `Look` to `Note`. `Kill`, `Timeout`, `Overspend` and
`ParentEnds` come at any time, `Restart` applies the recovery.

Usage is settled twice. `Settle` follows each look: a child past its budget is failed as its policy says,
with its retries. When the run had ended by then, its last events are settled once more: `Decide` goes by
the status; `Overrun` finds the child past its budget after all (an engine may report usage after its run
was cancelled over its head), or cannot settle, and fails child and parent, whatever the policy,
without a retry, and with the task record written before the parent is judged.

Simplifications: the budget of a tree is not counted, its excess is one of the reasons `Settle` may
find (the second settlement does not ask for it); a completed run reports no more usage, since its
engine has returned; a client that ends a child's run by `run.finish` is left out.

*Run.* `subagents` (two children of a parent, three policies, one slot, one retry, one fault, one
crash; the children are symmetric): `EndedHoldsNothing`, `OverBudgetFails`, `ParentFate`,
`FactIsFinal`. Two children and one slot are the fewest that compete and have a sibling to cancel.
The constraint `Mixes` lets fail_fast meet retry or require_all, and require_all its like; other
mixes, which make the run too long, and isolate (what a retry child without a retry left is) are
left to the theorems, which are about all four. `ParentFate` reads what a failed parent says of
itself: a policy, which some child of it must have, or a budget, of a child that is over, was past
it (or could not be settled) and is reported failed. No fairness: a child may run for ever until its
deadline.

## 9. Transcript

What a conversation remembers: the journal of its runs and the rows made of it.

| variable | code |
|---|---|
| `phase`, `run`, `ctx` | what the daemon does, the run in progress, the context of its engine |
| `journal` | `run_event` rows of each run |
| `rows`, `turnRows`, `watermark`, `quarantined` | message rows in the order they are read, turn rows, `projection_watermark`, `projection_quarantine` |
| `filed` | `run_id` and `turn_id` of the rows of notices and summaries |
| `snapshots` | `context_snapshot` rows |
| `job`, `pending`, `todo` | the projection, the runs a start has still to go through, the compactions of the one its backfill is at |
| `bad` | stored payloads, contents and rows another version left unreadable or different |
| `replaced` | history: the messages a summary in the context stands for |

`StartRun` writes the prompt and merges the newest snapshot with the rows; `StartFails` is the same
when a shown run has an unreadable event, for `get_messages` parses them all. `RunReturns`,
`CloseFailedTurn` and `CompactionBreaks` end the engine and begin the projection, which goes turn by turn:
`PassTurn`, `QuarantineTurn`, `ProjectTurn`, or `ProjectionFails`, which leaves the rest to
the next start. `Crash` begins the start of the daemon. Its backfill takes the runs with a compaction
(`BackfillRun`) and each of their compactions (`BackfillCompaction`): first the snapshot row, then the row
of the notice or summary, filed under a run and a turn (`Place`). The second is refused, and the backfill over
for all that is left, when the row is there under another turn or run, or the turn has no row yet
(`Refused`, `BackfillRefused`); `BackfillFails` is a write that fails. Then `RecoverRun` projects every run
with a completed turn behind its watermark.

Simplifications: runs of a conversation follow one another; a turn makes at most one call; the
order of rows is the order they are written in, so clock steps and equal stamps are left out; the
first event of a run stands for all of them as the one that is damaged; a message row and its block are
one write, and a changed or missing text of the row of a compaction is left out.
Left out: fork, delete,
the exact restore of a checkpoint, delta-only turns of old databases.

*Runs.* `transcript` (two runs, two turns, one input, one compaction, one failed write, one damaged
row, two crashes): `WatermarkCovers`, `TurnsAreWhole`, `RecoveryHandlesAll`, and
`ContextIsWhole`, which is `ContextIsPaired` and `ContextIsComplete`: both hold beside a backfill that stops by
itself, for what it leaves out is read back from the rows. `replaced_returns` and `backfill_stops`
(two compactions and two restarts, `BackfillRepairs`): see the findings.

*Bounds.* Two runs, because what one writes is what the next reads; two turns, so that a failure may
fall between them; two crashes, so that the recovery itself is interrupted and repeated, and a second start
meets what the first one filed. A second compaction is what `replaced_returns` is about. No fairness: all
properties are safety.

## 10. McpServers

| variable | code |
|---|---|
| `registered`, `status` | the server in McpRegistry, its entry in `status` |
| `spawned`, `up`, `stopping` | child processes so far, those that live, those whose flag is set |
| `session`, `starting` | the entries of the maps `sessions` and `starting` |
| `refs`, `idle` | `run_refs`, `idle_since` |
| `at`, `then`, `mine` | where each run and request is, where it goes after a stop, the child it starts |
| `call`, `asked`, `lock`, `owed` | the thread of a call, its session and number, the exchange lock, requests without an answer |
| `overwritten` | history: children whose session another start replaced |

A run resolves the server (`Resolve`), which starts it, holds it (`Acquire`), calls it and lets it go
(`Release`, `LookForOthers`, `Cool`). A start is a stop, `Spawn`, `Handshake` and `Register` or `Fail`; a
stop is `StopSignal` and `StopDetach`. A call is `Begin`, `SendCall`, `Receive` until its own answer comes, or
`GiveUp`; what it leaves unanswered stays in the pipe for the next. `CancelRun` stops the server.
`Exit` is a child that dies by itself, `Reap` the idle reaper. Left out: HTTP and SSE servers,
credentials, the caches of capabilities and resources, requests from the server. The specification
is `ServerSpec`, with fairness `FairServer`: the module shares its proofs with Governor and no name.

*Run.* `mcp_servers` (two runs with one call each, one request of the user, two children):
`AnswersReachAskers`, `NoOrphans`, `CancelReturns`. `NoOrphans` excepts children whose session was
overwritten by a concurrent start (section 11).

*Bounds.* Two runs and a user are the fewest that share a pipe while a third starts or stops the
server. With two children one is replaced by the other; a third replaces the second in the same way.

*Fairness.* Weak fairness of a run that leaves (its stop, its release). No deadline has to pass and
no server has to answer: `CancelReturns` says that cancellation depends on neither.

## 11. Findings

Places where the code does not do what the repository says of it; the quotations are in
`PROJECT.json`, and each has a run in which TLC shows the behaviour.

| run | what happens |
|---|---|
| `governor_leak` | an acquire dropped by the first-byte timeout leaves its ticket, and the route waits behind it for ever |
| `replaced_returns` | after two compactions and a restart, what the first summary replaced is appended to the context again. In the trace both turns are projected before the restart; the backfill makes both snapshots, and is then refused at a row of its own |
| `backfill_stops` | the backfill is not idempotent: it files a notice under its turn and looks for it under none the next time, "summary message identity collision", and whatever compactions and runs come after it keep no snapshot, at this start and every later one |

Other disagreements met while modelling. The models contain each of these behaviours, and the
properties of the passing runs are stated so that they hold beside them.

- *Lifecycle.* Two starts of a queued run both read it queued, and the second Preparing commit counts
  as success: two engines. An unconditional upsert between a commit's transaction and its memory
  copy restores an older row, and a second terminal event passes the compare-and-set (history
  variable `stale`). A run cancelled before its start task registers is reported Cancelled, and
  its engine then runs under a fresh token, although `execution_registry.rs:8` says Cancelled means
  no managed resources.
- *Prompt queue.* A row acknowledged between enqueue's insert and its push to the coordinator is
  started again at the end of the run. A row with drain_mode one at the head is leased with the
  rows behind it. promptQueue.list restores a crash snapshot over a live coordinator: the active
  run is forgotten, and sendNow starts beside it.
- *Engine.* `engine_core.rs:2205` says that compaction never fails a run; a PostCompact hook that answers a
  decision and a snapshot that cannot be appended both do, and after an overflow the turn stays
  open, so the projection drops its text. An overflow at the last attempt makes a fourth. An error
  after the arguments of a call have begun discards the attempt and then commits it. Of a
  parallel batch, the calls beside one whose completion could not be written have neither a fact
  nor a mark (`EffectsAreAccountedFor` is about exclusive calls); no production tool with an effect
  is ParallelSafe. A refused post hook leaves only the intent of its call.
- *Interactions.* A client's denial over interaction.respond may be durable while another's
  approval over permission.respond wakes the waiter: the tool runs on it (`AllowedAsAgreed` says
  what holds while they agree). When the event of a decision cannot be appended, a repeated
  request is told it was already resolved and the asker hears nothing until its timeout. A waiter
  whose asker timed out stays in the hub until something sends to it.
- *Effects.* `retry` asks for uncertain rows only (`run_manager.rs:2307-2420`): a run that died while a
  handler ran has a started row and is declared safe to retry, where `side_effect_ledger.rs:224-226` says
  that resume code must block. With an uncertain row it should record a Blocked plan and say why, but the
  guard of `store.conn()` at 2317 is alive when 2326 locks the same `std::sync::Mutex` again: the request never
  returns, no plan is written, and every later request for the store waits behind it. A handler that fails after a partial effect settles its row as failed.
- *Subagents.* A retried child runs without its slot. The siblings a require_all parent is judged by
  are read from `task_outputs`, one map for the daemon that is never emptied: the failed child of
  another parent fails it, and another's running child keeps it from being judged. Two RequireAll children that fail at once may each see the other as
  running. An error of the replay gives a child up while its run goes on.
  The second settlement of a child's usage fails the parent for an isolate child too
  (`production_tools.rs:4230-4236`), although "Isolate keeps the parent running" also when the child is
  budget-exceeded (`production_tools.rs:4377-4379`). A terminal task in the
  background stays "running". An error text with the digits of a status code is taken as transient.
- *MCP.* No path stores the status "running": a started server has "started tools_discovered=N"
  (`mcp_runtime.rs:694`). But `capability_resolution.rs:299` starts a server that is not "running", and a
  start stops it first, so each run that resolves kills the server its siblings are calling, although
  `acquire` "keeps a selected server warm while the run lives" (`mcp_runtime.rs:388`); the reaper
  (`:456`), update and delete (`capability/mcp.rs:247`, `:290`) never stop anything. Two starts at once
  overwrite each other's session and leave a child that nobody stops. A stop that comes between a
  start's last look at its flag and the insert of the session returns, and the session lives. A run
  that acquires while another releases may be marked idle.
- *Transcript.* The notice or summary of a turn that is not projected refers to a turn row that does not
  exist, and with `foreign_keys=ON` (`storage/mod.rs:185`) that too ends the backfill. The message of a
  compaction that trimmed outputs only is the first summary in its transcript, which may be one that an
  earlier turn or run has filed: a third way to be refused, on the first start.
  Snapshot rows are written by the backfill of a start only, although the comment of
  `backfill_context_snapshots` speaks of a projection at the end of a run: a run compacted in this life
  of the daemon is read back uncompacted, and cannot be resumed from its checkpoint. The newest
  snapshot is the one with the highest sequence in its own run, which need not be the latest. Each
  compaction leaves a ContextCompressed notice in the history. A queued input is stamped when it is
  taken and the turns of its run at the end, so the input is read back in front of the turns it
  followed. A turn recovered late stands behind the rows of later runs. One unreadable event sets
  a whole run aside, and the conversation cannot be read until it is gone. A quarantined last turn
  does not advance the watermark, so it is quarantined again at every start.

## 12. Proofs

Checked by tlapm from nothing; no leaf is left out.

**RunLifecycleProofs**, from `ActorsDisjoint` and `EndingsAreTerminal`, for any sets of requests and any `MaxEmits`.

- *Kinds of step.* `StepKinds` sorts the about thirty actions into eight kinds: the four stages of
  a commit, steps that touch nothing shared (`LocalStep`), an append, an upsert and a restart. Each
  later invariant is checked against the eight kinds.
- *Types* (`TypeCorrect`), one lemma per caller.
- *Journal* (`PublishedIsAlwaysDurable`, `ShownIsAlwaysJournalled`). The two are not inductive: a commit
  injects a number it took earlier and shows a status later. `SlotIsJournalled` adds that the slot
  and target of a frame past its transaction are a row of the journal.
- *Refinement* (`StatusRefinement`). `EdgeInv` says that a frame whose target was checked against
  memory still holds a legal edge as long as memory has the revision it expects; `Apply`
  changes memory only then. Every step maps to a step of `RunStatus` or a stutter.
- *Recovery* (`RecoveredIsAlwaysSettled`). `RecoveryInv`: after a restart row and memory are terminal
  and no earlier task is alive to change them; requests that arrive later cannot leave a
  terminal status.
- *Commit protocol* (`MemoryAlwaysFollowsRow`, `TerminalFactIsUnique`, `SettledRowStaysFinal`).
  `ProtocolInv` relates row, memory and the one frame in stage "apply": the compare-and-set lets a
  second commit pass only after memory caught up. `FactInv` counts terminal events.

**PromptQueueProofs**, from `NNat` and `ItemKinds`, for any number of prompts, runs, requests and
crashes.

- `DurableInv` is `DurableTypes`, `Unissued` (a number not given out is known nowhere), `Accepted` (who is about
  to settle a row holds an item whose run was accepted) and the three properties. The
  properties need each other: an ack is of a leased row of its own (`LeaseExclusive`), only an
  accepted start may delete a row (`Accepted`).
- `DurableInv` does not mention the in-memory coordinator. Every step that changes only the
  coordinator is `Quiet` and disposed of once, so the theorems hold whatever the coordinator forgets,
  repeats or reorders: the rows alone protect the prompts. That is also why the findings about the
  coordinator do not contradict them.
- `RemovedForGood`: a removed item was issued and its row never waits again. With it and `DurableInv`,
  `RestartRecoversTheQueue` proves the action property `RecoveredQueue`: only a restart begins a new
  life (`NewLife`), the actor it leaves is made of the waiting rows alone, whatever the snapshot says
  (`RestartedActor`), and `InOrder` lists a set of items completely and in order (`InOrderLists`: the
  rank of an item is an injection into 1..n, hence onto it).
- `PromptsSurvive`, `DeliveredAtMostOnce`, `LeasesAreExclusive`, `RestartRecoversTheQueue`.

**ToolEffectsProofs**, from `CallsAssumption`, for any number of calls, faults and requests.

- `LedgerInv` says that a call has at most one row, and what the row and the facts are at each place a
  call may be: none before its intent, "started" while the handler runs, a settled or doubtful row
  once it returned. It is needed because an effect and its row are related only through the place
  of the call. `OneCallStep` proves it once for all steps of one call; `RunSteps` for the steps of
  the run and for the crash, which forgets the places but not the rows.
- `RowsAlwaysFollowEffects` is a consequence. `DoubtIsAlwaysKept` is about steps: only the operators
  `Recorded` and `Settled` write a row, and neither changes an uncertain one (`LedgerWrites`).
- `ContinueIsAlwaysSafe` adds `GateInv`: calls run one after the other, so behind the one in flight all are
  completed; nothing runs once the run is over, and there are plans, or a retry that holds the store, only then. So what a gate found
  unresolved when it decided stays as it found it.

**SharedProofs** of Governor, from `RouteOfRequests`, `IntervalsBounded`, `CooldownsNat` and `TimeoutNat`, for any
requests, routes, intervals and cooldowns.

- `TypeCorrect` and `NoWakeupIsLost` from `WakeInv`: the tickets of a queue are those of requests that
  wait for it (`QueueInv`), and a request that waits is woken, is about to be, stands behind another or
  has a timer no later than the moment the route is free (`NoLostWakeup`). A tick brings every moment at most one tick nearer, so
  timers and what they wait for stay in order.
- `SendsArePaced` and `CooldownIsHeld` are about steps: only a send grants, the age the code reads is at most
  the time since the last send, and a cooldown in force is never shortened.

**InteractionsProofs**, from `NamesAssumption`, for any number of questions, calls, failed writes and crashes.

- `StoreSteps` sorts the steps by what they do to the durable rows: answer, insert, expire, journal or
  nothing. Later invariants are checked against these five.
- `AskInv` is `RowsInv`, `WorkersInv`, `SentInv`, `ApprovalInv`, `DeciderInv` and `FutureInv`: what a row, a
  delivery, a waiter and the asker know of a question agree wherever each of them is. No
  property is inductive alone, for what a delivery carries was read from the row steps before.
- `WokenAlwaysAfterEvent`, `AllowedAlwaysAsAgreed`; and `DecisionsAreFinal`, the refinement: every step maps
  to a step of `DecisionLog` or a stutter (`StepRefines`).

**SharedProofs** of McpServers, from `BoundsNat` and `FreeIsNoRun`, for any number of runs, requests, children and calls.

- `ChildrenAreNeverOrphaned`: a start holds its child from the spawn until it registers it or fails
  (`OrphansInv`).
- `AnswersAlwaysReachAskers`: who waits for an answer holds the exchange lock of its session, so nobody else
  drops what is owed to it (`AnswersInv`).

**SubagentsProofs**, from `SetsAssumption` and `BoundsAssumption`, for any number of parents, children, slots,
retries, faults and crashes. All four properties of the run are proved.

- `LedgerInv` is an invariant of each child alone (`ChildInv`): what its run, its verdict, its durable row and
  its memory are at each place of saga and watcher. The four ledgers are written one after the other, so the
  place is what relates them.
- What a step does to the other children is small: their agent and their task may be cancelled
  (`Bystander`), and `BystanderKept` shows once that this disturbs nothing.
- The slot counter is not the number of holders: a mark as Running after a cancel, and a retry, hold a
  slot uncounted. It never exceeds it (`SlotsInv`), which is enough for it to be zero in the end
  (`CallsLeaveNothing`); that the cap holds is not claimed, and section 11 says why.
- A failed parent names a policy or a budget. The child it was failed for by a budget is over when it is
  judged, and nothing changes a child that is over (`Overran`, `Stays`); so `FailedInv` is kept by every
  other step (`FailedKept`) and `JudgeKeeps` is left with the judgement itself.
- `OverBudgetNeverPasses`, `PoliciesDecideFate`, `FactsAreFinal` follow; the last from `Told`, which every
  step keeps.

**EngineProofs**, from `EngineAssumption`, for any paired histories, calls, inputs, faults, turns and
bounds of the compaction.

- *Transcripts* (`RepairKeepsPaired`, `SummaryOfWhole`). The repair answers every call and leaves a paired
  transcript as it is; a summary of a whole transcript is whole wherever it is cut. A
  transcript is a concatenation of groups, a group one turn with its results or one input; the
  lemmas go from `FlattenSeq` of the groups to the messages and back. The library's induction
  theorems cannot be instantiated here, but the least number that refutes a claim can
  (`WFMin`): where a claim is about every length, the proof takes the least length at which it
  fails and derives that a shorter one fails too.
- *Steps.* The actions are first reduced to a few moves: append to the transcript, journal facts,
  replace the transcript by its repair or summary, or neither. Each invariant is checked against these.
- `IInv` is `Types`, `WholeTranscript`, `ClosedTurns`, `RanPrepared`, `RanAccounted` and `TranscriptJournalled`. It is
  needed because a request is sent several awaits after the transcript was put together: what is
  true of a request must be true of the transcript between turns and, while calls run, of the
  transcript with the results that are still missing; a handler that ran has no closing fact
  until its call is concluded, so `RanAccounted` speaks of the place in the batch as well.
- `RequestsArePaired`, `SentIsJournalled`, `TurnsAreClosed`, `RanWasAuthorised`, `EffectsAreAccountedFor` follow.
- `AckedWasSent` (`AcknowledgedInputsAreShown`) rests on `AckedIsKept`: while the engine runs, an acknowledged
  input is in the transcript or a summary in it stands for it, and the request of the turn that is on
  showed it. A compaction splits the transcript in two: an input in front of the split is among those the
  summary stands for, one behind it is in the tail. There is no bound on the inputs taken at one safe point.

**TranscriptProofs**, from `TranscriptAssumption`, for any number of runs, turns, compactions, inputs, failed
writes, damaged rows and crashes. All four properties of the run `transcript` are proved; `TranscriptInv`
has these parts.

- *Picking from sequences.* The merge of a snapshot, the rows a projection adds and those of the backfill
  are all `Only(s, S)`, the elements of `s` in `S`. It keeps order (`OnlyPicks`), repeats nothing
  (`OnlyInjective`), and two neighbours that are both picked stay neighbours (`OnlyNeighbours`).
- `JournalInv`: turns are journalled one after the other and completed once. So `LastSequence` ascends with
  the turns, and what a turn is never changes once it is committed (`CommittedStays`).
- `ProjectionInv`: the job goes through the turns in order and has handled those it passed (`JobInv`), the
  watermark covers handled turns only (`WatermarkInv`), and a recovery has handled the runs it does not
  still have to go through (`RecoveryInv`). `WatermarkCovers` alone is not inductive: the watermark jumps to
  the turn that is projected, and that those before it are handled is known from the job.
- `RowsInv`: rows of replies and results are those of the turn rows, and all of them.
- `ViewsInv`: what is or will be read back, the context, the rows, the stored snapshots and the compactions in
  the journal that a backfill may still make snapshots of, however far it comes, is `Sound`: of known messages, each once, an
  answered reply beside its result. A merge tears nothing because the ids a snapshot excludes are paired
  themselves (`PairedSet`), so a reply and its result are taken or left together (`TakesPairs`).
- `CompleteInv`: while no write failed and nothing is damaged (`Clean`), all turns of the runs that are over
  have their rows, and a run that goes on was `Told` everything before it; a compaction moves
  messages from the context to what its summary stands for and drops none (`ContextGrows`).
- `NoTurnIsOverlooked`, `RowsComeInTurns`, `RecoveryLeavesNothing`, `NextRunReadsAll`. The last discharges, for
  this model, what Engine assumes of the histories it is given. `ReplacedStaysOut` is false, see
  the findings, and nothing here says that a message a summary replaced stays out.

**Only model-checked:** the liveness properties (fairness is out of the prover's reach). Every invariant
and every safety action property the passing runs check is proved. The `TypeOK` of RunLifecycle, Governor, Subagents and Transcript is proved, and that of
Engine as `Types`; in the other modules it documents the state.

## 13. Hazards without a property

`PROJECT.json` lists the hazards with their properties and says why one has none. Known beside
them: file-write failures after a commit (a torn `runs/snapshot.json` keeps the daemon from
starting), the duplicate trigger message of two starts, the order of a queue drain and the terminal
commit before it (needs the two modules composed), clients that poll by cursor past an injected
event, a subscriber that lags, the second shutdown of the storage actor, cancellation of children
registered late, settings updates that persist in one order and apply in the other.

## 14. Plan

Done: RunStatus and RunLifecycle, PromptQueue, Governor, Interactions with its refinement of DecisionLog,
ToolEffects, Subagents, McpServers, Engine, Transcript, all with proofs.

Next, models: `StorageActor` (clients, bounded queue, worker, shutdown barrier); `EventLog` (append,
inject, subscribe, replay by cursor; abstract: a reader sees a prefix of the journal);
`ExecutionTree` (registration, signals and cleanup over parents and children); provider failover over
Governor; update and reorder in PromptQueue.

Next, theorems: that the transcripts of Engine and Transcript agree, as one composed
module.
