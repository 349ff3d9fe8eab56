# NexAU: models, model checking and proofs

NexAU is a Python framework that runs LLM agents: one agent in a session, with
sub-agents and a sandbox, or a team of agents that share a task board and send
each other messages.  What can go wrong in a way no unit test reaches is the
layer around model and tools: locks in a database without transactions, an
append-only log that is read backwards, writes left to background tasks, threads
and coroutines that wait for, stop and restart one another, requests that are
repeated when their reply is lost, and conversions whose inputs nobody has listed.
This directory models that layer in TLA+, checks it with TLC on small instances,
and proves the invariants of thirteen components with TLAPS for every size.

1. The system · 2. The modules · 3. The runs · 4. The proofs ·
5. Where code and documentation disagree · 6. Abstractions and what is left out ·
7. Plan

Paths are relative to `src/nexau/archs/` unless they start with `docs/`, `rfcs/`,
`cli/` or `tests/`; line numbers are those of the commit the modules were translated from.

## 1. The system

| Component | State | Operations | Talks to |
|---|---|---|---|
| Agent lock (`session/agent_lock_service.py`) | a row (holder, expiry) per agent; a heartbeat per run | `acquire`, heartbeat, `force_release` | storage; `Agent.run_async`, `AgentTeam.stop_all` |
| Run-action log (`session/agent_run_action_service.py`) | append-only rows with nanosecond stamps | `persist_*`, `load_messages` | storage; history, agent |
| History (`main_sub/history_list.py`) | message list, fingerprints of the baseline, background tasks | `append`, `replace_all`, `flush`, `flush_async`, `update_context` | log; agent, executor, compaction |
| Agent and executor (`main_sub/agent.py`, `execution/executor.py`) | run, queue, stop flags, tool batch | `run_async`, `stop`, `resolve_permission`, `execute_async`, `enqueue_message`, `force_stop` | everything below |
| Sub-agents and tools (`execution/subagent_manager.py`, `tool_executor.py`, `tool/tool_registry.py`) | running sub-agents, registry, searched tools | `call_sub_agent`, `execute_tool`, `search_tools` | executor, permissions |
| Permissions (`permissions/helpers.py`, `agent.py`) | rules, pending calls with decisions | ask, `resolve_permission`, resume | session row |
| Model calls (`execution/llm_caller.py`, `middleware/llm_failover.py`) | attempts, chain of providers, circuit breaker | call, retry, fall back, stop | providers; compaction |
| Aggregators (`llm/llm_aggregators/`) | items under construction | `aggregate(chunk)`, `build` | model calls, event stream |
| Compaction and its archive (`middleware/context_compaction/`) | configuration; transcript file in the sandbox | before/after a call, on overflow | history, model, sandbox |
| Screening (`middleware/sensitive_word.py`) | lexicon, policy | hooks before and after a model call | executor |
| Messages and serializers (`core/messages.py`, `core/serializers/`) | — | history to request, reply to message | model calls |
| Token trace (`main_sub/token_trace_session.py`) | tokens, rounds, position in the history | `initialize`, `sync`, `append_*` | executor |
| Task board and lock (`main_sub/team/task_board.py`, `session/task_lock_service.py`) | task rows; lock rows with a fixed TTL | `create_task`, `claim_task`, `release_task`, `update_status` | storage; team tools |
| Team and watchdog (`main_sub/team/`) | teammates, their tasks, the leader, the one-shot flag | `run`, `spawn_teammate`, `remove_teammate`, messages, `stop_all` | executors, event stream |
| Team endpoints (`transports/http/team_routes.py`, `team_registry.py`, `team/sse/`) | registry of teams, stored events, subscribers | stream, query, subscribe, message, stop | team |
| Transports (`transports/base.py`, `http/`, `stdio/`) | table of running agents, a queue per stream | query, stream, stop | agent |
| Storage (`session/orm/`) | tables in memory, in JSONL files behind a cache, in SQL | `create`, `update`, `delete`, `upsert`, `find` with filters | all services |
| Sandboxes (`sandbox/`) | session state, instance, keepalive; files and processes | `start`, `stop`, `pause`, file calls, commands | tools, agent |
| Builtin tools (`tool/builtin/`) | files of the sandbox | patch, replace, multiedit, shell, background tasks | sandbox |
| MCP client (`tool/builtin/mcp_client.py`) | servers, sessions, tools; pending requests of a session | initialise, discover, call | MCP servers |
| Command line (`cli/agent_runner.py`) | manifest, checkpoints, transcripts, the runner's agent | run, interrupt, new, resume, delete | agent |

`PROJECT.json` ("components") also lists what is not modelled, with the reason:
the message bus, configuration and prompts, tracing, start-up, and the tools that
are one call each.  The hazards of the code, each at its line and with the
properties that guard against it, are in its "hazards".  In short, what has to hold:

- **Who runs.** One live lease at a time, and none that lapses; a dead run does
  not block its agent.  A stop is final: nothing begins behind it, its result is the
  last word, and every run ends.  A serial tool runs alone; the model is asked only
  when all results are there.  No call runs without consent, none twice.
- **What is remembered.** The log reads back as the conversation, the file as
  the table, the archive and the checkpoint as what was put into them, whatever
  crashes, fails or is cancelled in between; and what a provider is sent has each
  call with its result, after repairs, compactions and interruptions.
- **What is shown.** Stream, message and stored events agree; nobody misses an
  event or is given another's answer; nobody waits for ever.
- **What is shared.** One sandbox per session, with its assets; one claim per task,
  dependencies first; an agent gets the tools of its servers; a remote
  file call does what the local one does.

## 2. The modules

Every component is a module with its state as VARIABLES and one action per
operation, handler or step between two awaits.  Where a component is checked
alone, its configuration names the module itself; four `MC` modules put several
components into one run, side by side: a variable `part` says which component a
behaviour is one of, each component is an `INSTANCE`, its actions are wrapped as
`InX(...)`, and the variables of the others are 0.  (They
do not interact; the union spares configurations, not states.)  `MCExchanges`
leaves the constants open, so that `ExchangesProofs`, which extends it, can prove
about its six components for all values; its configuration has the bounds.

### AgentLock, AgentLockProofs

One `(session_id, agent_id)`: its row, and attempts (`Runs`) to run the agent.
One engine call is one action, in the order of the code:

| pc | Code | Action |
|---|---|---|
| `check`, `judge` | `_find_valid_lock`, :218 | `FindRow`, then `Refuse` or `Proceed` |
| `purge` | delete expired, :241 | `DeleteExpired` |
| `create` | insert, :253 | `CreateLock`, or `Conflict` |
| `recheck`, `rejudge` | :261 | `FindRow`, then `Refuse` or `Proceed` |
| `replace`, `recreate` | :271, :281 | `Replace`, `CreateLock` or `Conflict` |
| `run` with heartbeat `sleep`, `extend` | :131, :149 | `HeartbeatFind`, `HeartbeatUpdate` |
| `release`, `force` | :314, :332 | `Exit`, `Release`, `ForceAfterRelease` |

`ForceRelease` is the call of `AgentTeam`; `Crash`, `EngineError` and
`HeartbeatError` are the failures.  An update of a row that is gone writes it
again, as the engines do.  Time is discrete.  `Lag` bounds what the code cannot
enforce: an `acquire()` takes at most `Lag` from its first clock reading to its
insert, a heartbeat at most `Lag` from the end of its sleep to its commit; `Tick`
waits for what is due.  The assumptions are the constructor's
(`2 * HBInterval < TTL`) and `HBInterval + 3 * Lag < TTL`; with the defaults, `Lag`
up to 6.6 s.  "One execution at a time" is false of the code (section 5); what
the lock does guarantee is stated of *leased* runs: those whose heartbeat lives
and whose row nobody has removed without a look at it (`evicted`, history).

### Messages, RunActionLog, Conversation

`Messages` has the operations on lists of messages: replacement by id, the
removal of messages that are reasoning alone, synthetic results for orphaned
calls.  `RunActionLog` has one action per writer (`PersistAppend`,
`PersistReplace`, `PersistUndo`, `PersistMarker`) and the reader
`LoadMessages`: pages, cutoff, early stop, re-application.  `Conversation` is the
abstract specification, the forward reduction of docs/rfcs/0022 section 6.1: an
APPEND appends, a REPLACE replaces, an UNDO goes back to before the first row of a
run.  `ReducesForward` says that every row moves what the reader returns as the
reduction says.

### HistoryPersistence

`HistoryList` between an agent's runs and the log.  `mem` and `baseline` are the
list and its fingerprints, `working` the executor's copy, `scheduled` the tasks
not started, `rows` the log in the order of stamps (a row is stamped when its
write starts; its state says whether it has landed).  A run is `StartRun` (or
`StartFresh`, `Loaded`), `FlushReturns`, any number of `Iterate`, `Rewrite` (a
middleware changes messages) and `Compact` (a REPLACE in the background), and
`Finish`; `CancelSave` and `CancelSync` cancel it during an awaited flush.
`Crash`, `HandOver` (another agent object goes on) and `LoopCloses` (`asyncio.run`
cancels what is in the background) are the process.

### HistoryArchive, TokenTrace

`HistoryArchive`: `Compact` takes messages out of the context and writes a round
to the transcript by reading and rewriting a file of the sandbox, with `Mishaps`
at each step; `Restart` makes a new writer that scans the file, `Recreate` a new
sandbox; `told` collects what hints have called archived, `lost` what a named mishap
has cost of it, `suffered` the mishaps.  `TokenTrace`: `Start`, `Ask` (synchronise,
ask, append), `Tools`, `Over`, over the history, the executor's working copy and the
position up to which the session has synchronised; `unseen` are the messages that
the end of a run has passed over, `uncounted` says that a middleware has added one
beside tool calls.

### TaskBoard, TaskBoardProofs

Task rows, lock rows and concurrent calls; one action per engine call:
`FindLock`, `SweepLock`, `CreateLock`, `ReadTask`, one `CheckDependency` per
dependency, `Judge`, `WriteTask` (the whole row, from the copy that was read),
`Unlock`.  `Expire` lets a lock run out under its holder, `Crash` drops a call,
`Raise` makes it fail.  `BeginClaim` has the check of the claim tool.  Reads
return copies, as in the SQL, JSONL and remote engines.  `overrun` (history)
collects the tasks whose lock has run out under a call: the lock has no renewal,
and the properties say what holds otherwise.

### AgentTeam

The leader, its teammates, the watchdog and the clean-up.  `loop[a]` is where the
coroutine is (`starting` and `preparing` before the loop, `top`, `work`,
`finishing`, `waiting` in it), `thread[a]` where the worker thread of
`_wait_for_messages` is: `Enter`, `Check`, `Clear`, `Wake`, `Return` are its lines,
because messages and stops come between them.  `fresh` says whether the last
message is one the model has to answer.  `halting[h]` is a running
`stop_all_teammates`, of `finish_team`, of the user's `stop_all` or of the end of
`run`: it begins with the members it found, waits at most 10 s for each, and ends
by clearing the dicts, or fails when they changed under its loop.  The proofs
stand at the end of the module.

### Execution, ExecutionProofs

The loop that asks the model and runs its calls, outside teams, in an agent and
its sub-agents.  `pc` is where each agent's run is, `work` where each call is,
`batch` the calls of the answer it works on, `turn` those of the run.  `LoopStep`
is the coroutine: the head of the loop with the stop flag and the queue, the
attempts of the model call with their backoff, the start of the batch (serial
calls first and one by one), the race of the batch with a stop, the collection of
results, the end of the run.  `Reply` is the model call's own thread, `ToolStep` a
tool's, and `Return` its end.  `Stop`, `HardStop` and `StopStep` are `stop()` with
its timeout and the cleanup; `ForceStop` the executor's.  A stop before the flags
are cleared at the start of a run is lost, as in the code.

### Permissions, PermissionsProofs

Calls that need consent: `Ask` judges a call by the rules of each of its keys
(allow, deny, ask), executes or stores it as pending and ends the run; `Read`,
`SaveRule` and `Decide` are the three steps of `resolve_permission`, which reads
the whole map and writes it back; `Start` and `RunStep` take the decided calls up
again, execute each and mark it as consumed; `Restart` is a crash, after which
the history is what the log has, with a synthetic result for each open call.

### Sandbox, SandboxProofs; Commands; Workspace

`Sandbox` is the manager of E2B sandboxes: the lazy start with its path without
the lock, the session's saved id, uploads before and after the start (`ToolStep`),
keepalive threads (`LoopStep`), pause and stop behind a run (`CloserStep`), and
the cloud that ends sandboxes by itself (`Die`).  `Commands` has local and remote
commands: start with the pid-file guard, poll, output, kill, time limit, with
replies that get lost and requests that fail; `exec`, `task` and `shell` are the
three ways tools use them.  `Workspace` has each file operation twice, as the local
sandbox does it (`Local`) and as the requests the remote one makes of it
(`Succeed`, `LoseReply`, `Fail`, and `Interfere`, another tool's call in between).

### Table, Storage, StorageProofs; Filters

`Table` is what callers of a storage engine rely on: a call changes the table once
and in one step between its beginning and its return, a delete removes only rows
that matched at one moment, what was answered is durable where the engine is.
`Storage` has the steps between two awaits of the three engines: memory,
JSONL (load the file behind the cache, change the cache, rewrite the file) and
SQL (merge, commit, refresh; select, then delete by key; find, then write).
`Filters` is the filter language: evaluation in Python, translation to SQL with
its three-valued logic, query strings and their parser.

### Compaction, Payloads, Screening, Streams

`Compaction`: a conversation of rounds and iterations under the two strategies
with both groupings, before and after a model call, on overflow (a split and a
retry) and between tool results, with interruptions that drop results.
`Payloads`: `Ask`, `Reply`, `Result` build a conversation; its operators are the repair
of calls without results and the serializers to the four dialects, and the
properties say what the dialects accept.  `Screening`: the hooks around a model call
in a chain of two middlewares, with the three actions for what comes in and goes
out.  `Streams`: chunks of each of the four providers, in any order the
provider may send them and cut at any point, go through `ChatStream`,
`AnthropicStream`, `GeminiStream` or `ResponsesStream` (functions from an
aggregator's state and a chunk to its next state and its events, in the terms of
`ItemEvents`) to a client that reads the events.

### Requests, TeamRoutes, ModelCalls, McpSession, McpServers, ToolCalls, Edits, CliSessions

`Requests`: handlers of queries, streams and stops over HTTP (side by side) or
stdio (one after the other), the run behind each, its queue, the lock and the
table of running agents.  `TeamRoutes`: streams, queries and subscriptions of one
session, the registry of teams, the multiplexer each run reports to, and the
stored events a follower polls.  `ModelCalls`: a call goes down a chain of frames
(failover, emergency compaction, retries) to a request and comes up with its
outcome; the breaker counts, opens and recovers.  `McpSession`: requests and lines
of one session over a pipe, streamable HTTP or HTTP+SSE, with notifications,
garbage, silence and a server that leaves.  `McpServers`: several agents that share
the process-wide client.  `ToolCalls`: registry, parsed reply, life of each call
with its hooks, and the shortening of long outputs.  `Edits`: patch, replace and
multiedit over the files of a sandbox, with a fault at any write.  `CliSessions`:
the commands' thread, the run's thread, the rebuild behind an interrupted run (which
holds no lock while the next command is taken), a second runner, and the files of the
sessions; a thread is the list of what it still has to do.  A step of a save may fail,
which skips the rest of it; `risks` collects what the sessions do not survive.

## 3. The runs

| Run | Module, bounds | States | Shows |
|---|---|---|---|
| `agentlock` | AgentLock: 3 attempts, TTL 5, interval 1, lag 1, 6 ticks; a crash, a fault and a forced release | 1.2 M | `LeaseNeverLapses`, `NoLeasedRunJudgedExpired` |
| `history` | MCHistory. Log: 5 rows of 2 runs, pages of 2. History: 3 runs, 6 messages; a fault, a cancellation, a restart. Archive: 3 messages, 3 rounds, 2 of 11 mishaps. Trace: 2 runs of 3 iterations, 6 messages, 2 attempts, middlewares that add messages at all three places, stops at all three, a failing tokenizer | 1.7 M | `ConversationKept`, `RecordsAreTrue`, `ReducesForward` |
| `taskboard` | TaskBoard: 2 calls at a time, repeated without bound, 2 agents, 2 tasks, the second dependent on the first; one failure | 1.2 M | `OneClaim`, `DependenciesFirst`, `NoLostUpdate` |
| `team` | AgentTeam: leader, one teammate, 2 messages or stops from outside, 2 text answers in a row | 348 k | `EveryMessageTaken`, `TeamComesToRest`, `WakesOnlyARestingTeam` |
| `permissions` | Permissions: 3 calls (one key, two keys, one with a deny rule), one agent and window, one question, one restart | 158 k | `NoRunWithoutConsent`, `RepeatedOnlyIfInterrupted`, `ModelSeesResults`, `EveryAskAnswered` |
| `execution` | Execution: root and sub-agent, a serial tool beside an agent call, 3 iterations, 2 attempts, 2 runs, one message | 2.0 M | `SerialAlone`, `AsksOnlyWithResults`, `StopIsObeyed` |
| `execution_stop` | Execution: the same with one run and one attempt, with fairness | 120 k | `EveryRunEnds` |
| `sandbox` | Sandbox: 2 tool threads, 2 runs, 2 sandboxes, 2 keepalives, 3 accesses, one fault | 1.8 M | `OneSandbox`, `FollowsRuns` |
| `storage` | MCStorage: each engine, 2 clients (JSONL: 1), 2 keys, 2 values, 3 calls, one crash; 570 filters | 263 k | `FiltersAgree`, `Implements` |
| `model` | MCModel. Compaction: 8 messages, 2 calls an answer. Payloads: 5 messages, 2 dialects. Screening: 2 runs, 3 policies, all texts up to 4. Streams: 4 vendors, 2 items, 5 pieces | 518 k | `CompactedWhole`, `RecentKept`, `AcceptedWhole`, `ScreenedOut`, `ShownAsBuilt` |
| `exchanges` | MCExchanges. Requests: 2 requests, 2 events, one stop. Team endpoints: 2 posts, a reader, 3 events, 2 teams. Model calls: 2 fallbacks, 2 attempts, threshold 2, 2 calls. Commands: one, with 2 faults. MCP session: 3 lines, 2 notices. MCP servers: 2 agents, 2 names, 2 rounds, one fault | 280 k | `StreamsWhole`, `TeamIsFollowed`, `AsksWhoMayHelp`, `RunsAsTold`, `OwnAnswer`, `OwnTools`, `NobodyWaitsForEver` |
| `workbench` | MCWorkbench. Files: every kind of call with 2 faults or another tool's change. Tool calls: replies of 2 calls, 2 runs. Edits: 3 calls, one fault; patches of 2 chunks, 2 hunks. Command line: 2 sessions and one of a second runner, 2 messages, 4 commands, crashes and failing saves together, one crash and one failing save at most | 1.06 M | `AsLocal`, `ToolsAreTrue`, `AllOrSaid`, `EditsAreFaithful`, `SessionsKept` |

Each run takes between half a minute and four minutes with two workers.  What each
property says, and of which code, is in the comment above it.

Why the bounds are enough.  *Lock*: an overlap needs three attempts, one that
holds, one that loses the insert and one that comes between; six ticks let a lease
be granted, renewed and expire.  *Log*: five rows over pages of two have two page
boundaries, room for an UNDO of an UNDO and for a compaction that is undone and
followed by an append.  *History*: a compaction, an iteration behind it, a restart
and another run fit in six messages.  *Board*: conflicts are pairwise and a
dependency needs two tasks.  *Team*: interactions are between the leader and one
teammate, or one agent and the outside; two messages let one restart a teammate
and the other race its wait.  *Execution*: a stop crosses one nested agent, one
serial tool and one retry; three iterations let a run go on behind a batch and
end.  *Sandbox*: two threads race on the path without the lock while a run's end
pauses or stops; a second sandbox is what is excluded.  *Storage*: two writers
of one row, and a reader, are the conflicts of one table.  *Model*: eight messages
give two compactions with a cut between a call and its results; two items and five
pieces interleave.  *Exchanges* and *workbench*: what races is a request with the
next one, with a stop or with one repetition of itself; faults are one or two
because the code repeats a request a fixed number of times.

`CHECK_DEADLOCK FALSE` stands everywhere: attempts are used once, logs and
conversations are bounded, and runs end.  Symmetry (attempts, calls, threads) is used
in runs without liveness only.  Each property of a run has a seeded defect
(`PROJECT.json`, "mutants"): a variant of one definition, such as
`DeleteByNewExpiry` or `TopIgnoringStop`, defined next to the original, with which
TLC finds the property violated.

### Fairness

Stated where something must happen, and only of what the program schedules:

- **AgentTeam**: each agent's own steps (`AgentStep`: the waiting thread, the loop,
  the answer of `finish_team`), the start of a spawned teammate, the end of each
  `stop_all_teammates` and of `run`.  The event loop schedules ready tasks,
  model and tool calls end (they have timeouts), `Event.wait` returns after 30 s,
  `asyncio.wait_for` after 10 s.  Nothing of the watchdog, messages, spawns, removals
  or the user.
- **Execution**: the steps of coroutines, tool threads, `stop()` and of model calls
  in threads.  That tools and models answer is no fairness but a hypothesis
  (`EverythingReturns`) of the part that needs it: a stop ends a run without it.
- **Permissions**: a run's steps and the user's windows; that the user decides
  what is asked is what makes an ask *decided*.
- **Requests, TeamRoutes**: handlers, runs and responses; not clients, who may
  leave or stop reading, nor stops.  **ModelCalls**: a request comes to some outcome.
  **Commands**: the client's requests, the host's processes and the time limits; not
  the exit of a process.  **McpSession**: the session's own reads and timeouts, and of a
  subprocess only that it answers or leaves: the code has no time limit there.

## 4. The proofs

TLAPS checks these for every value of the constants, under the named assumptions
of the modules.  TLC has checked every invariant below as an invariant of a small
instance first.

| Theorem | Says |
|---|---|
| AgentLockProofs: `LeaseHeld`, `JudgedRight`, `Exclusion`, `Recovery` | a leased run's lease never lapses, no attempt takes it for expired, leased runs exclude each other, and a dead run blocks its agent for `TTL` at most |
| TaskBoardProofs: `Claims`, `Dependent`, `Updated` | one claim per task; a claim is written behind dependencies each of which was completed while it was judged; no update lost unless a lock ran out |
| ExecutionProofs: `SerialTools`, `ResultsBeforeAsking`, `StopObeyed` | serial tools run alone, the model is asked with all results, a stop is final and no attempt begins behind it |
| PermissionsProofs: `NoCallWithoutConsent`, `NoCallRepeated`, `AskedWithResults` | no call runs without consent; none twice, unless cut off from its mark; the model sees a result for each call |
| SandboxProofs: `SandboxIsOne`, `SandboxFollows` | no second sandbox beside a live one; assets in it as long as none was created anew, a keepalive as long as no run found it running or crossed the one before, quiet behind the run as long as none crossed and no call failed |
| StorageProofs: `CacheIsKept`, `Refinement` | each engine implements `Table` |
| ExchangesProofs: `OwnAnswerTaken`, `StreamsComeWhole`, `TeamsAreFollowed` | an MCP call gets its own answer, a stream is a prefix of its run, a follower misses nothing |
| ExchangesProofs: `OwnToolsAreGiven` | an agent is given the tools found on its own MCP servers |
| ExchangesProofs: `WhoMayHelpIsAsked` | a model call fails only behind all the attempts and, unless the primary is Gemini, a request to every fallback a trigger allows; a stop bounds the requests that follow; an open breaker spares a primary that is not Gemini |
| ExchangesProofs: `CommandsRunAsTold` | a result is of its process, whole; no command runs twice; a task that has finished stays so |
| AgentTeam: `WokenAtRest` | the watchdog wakes only a team that rests |

Each component also has its type invariant as a theorem.  Along which argument:

**AgentLock** (any attempts; `CtorAssumption`, `LagAssumption`).  That a lease does
not lapse depends on when its heartbeat is due and on what others have read, so
`IInv` adds `OnTime` (nobody is later than `Lag`), `RenewedInTime` (the row of a
leased run reaches `TTL - HBInterval - Lag` beyond the end of its heartbeat's
sleep), `SeenInTime` (a copy of its row expires after anything its reader may still
do with the clock reading it took) and `HoldersHaveHeld`.  `LeaseMargin` combines
them: a leased row outlives the next heartbeat by more than twice the lag, whence
the factor 3.  `Exclusion` is a corollary: two leased runs would own one row.
`Recovery` has an invariant of its own (`LeaseLength`).

**TaskBoard** (any calls, agents, tasks).  `LockHeld` (a call behind the lock
holds it unless it has run out), `CopyFresh` (what it has read is what is stored),
`DependenciesMet` (what a claim has found completed is so, or was taken back since
it has read its task: `reopened` is kept per call and emptied when that returns),
`Judged`, `Uncreated`.  `LockExclusion` is the step from the lock to the copies: when
a call writes, no other call that is not overrun has read that row.

**Execution** (any agents, calls, limits).  `IInv` is `TypeOK /\ Counted /\ Owned /\
SerialAlone /\ Results /\ Final`: iterations and attempts stay within their limits,
a running sub-agent belongs to the call that waits for it, results and
interruptions account for every call of an answer, and a `stop()` belongs to the run
it found.

**Permissions**.  `CInv` (types, the row goes with the calls, what was executed was
allowed) needs no assumption: consent holds for any number of agents and windows.
The rest needs `OneAgent` and `OneResolver`: `Decide` and the mark of a resumed
call write the whole row back from a copy, so with two of them a decision or a mark
is written over (the finding `DecisionKept`), and a call could be executed twice or
stay open.  With one of each, `Owned` and `Unspent` say that the copy a run or a
window holds differs from the row only where the other cannot have written, and
`Accounted` that every call of the history is answered, pending, or of the turn at work.

**Sandbox** (any tools, runs, assets, faults).  `Sole`: at most one sandbox is
alive that no failure has cut off, and whoever is about to create one holds the lock
and knows of none; `Furnished`: what was registered is in the list or in the
sandbox; `Looked`: what a thread has in hand is what the path it is on has checked;
`Orderly`: one run's end at a time, and a keepalive that lives can be stopped.

**Storage** (any clients, keys, values, filters, crashes).  `Typed` and `Cached`
(while the client neither loads nor saves, cache and file agree); one lemma per action,
`XFollows`: the action keeps the invariant and is a step of `Table` or leaves it
alone.  `OneWriter`: two first uses of a JSONL table at once lose rows (the finding
`RowsStay`).  `Agreed`: deletes whose filters SQL and Python judge alike; with
NULLs they do not (`SameRows`), and a delete would then differ by engine.

**McpSession**.  `SessionInv`: `Planned` (the last request sent is the one waited
for), `Lines` and `Alone` (what is on the wire before its answer is nobody's),
`Own`.  `Quiet`: servers that say nothing unasked during discovery, and HTTP bodies
that arrive whole; without it the code takes another message for the answer.
**Requests**.  `Follows`, for each request: what was given, followed by what is
queued, is what the run has emitted; `TableTidy`.  **TeamRoutes**.  `RoutesInv`: the
registry has the team that runs (`Orderly`, of `Sole`, `Known`, `Running`, `Fresh`,
`Feeds`), stored events are those of its run (`Marked`), and a follower's position is
what it was given (`Followed`).  `Turns`: neither two starts nor a query and a start
of one session meet; where they do, the registry loses the team that runs.

**McpServers** (any agents, names, rounds, faults).  `ServersInv`: `Owned` (a server
there is comes from an agent that configures it, and a task is about such a one),
`Up` (a tool comes from the configuration its server still has), `Held` (what an agent
has found is there until it returns).  `Apart`: no two agents configure a server of
one name; the manager has one table of names, and where two agents share one, the
tools of the first are of a configuration that is gone.

**ModelCalls** (any providers, attempts, threshold, calls; any stop).  `Once`: each
middleware is wrapped around a call once, in either order.  With that, `ChainsAt`
gives each frame its place, and `ModelInv` says where a call is (`ModelPlaced`)
and, for each place, what is behind it: `Attempted` (the retry loop has sent as
many requests as it counts, so a provider that has failed has had all), `Passed`
(the failover has failed with everyone before the provider it is at), `Reached`
(with a primary that is not Gemini, a provider that has failed was itself sent a
request), `Spared` (the breaker has counted the primary's failures, and a primary that
is asked was let through) and `Late`, the argument about stops: what a pass between two levels may
still send is at most `Size` of them, what failover and compaction have let through
is `Used`, and each of their requests costs two at most, one of them for a
signature the provider refuses.  The invariant is stated by levels, because at every
level a stop is seen by another frame.

**Commands** (any commands, processes, faults).  One conjunct per call and, because
an action moves one call only (`OneSound`), one lemma per action.  `Placed`: which
call may be where, and what it has by then; `Starts`: of a foreground command only the
first start request to get there runs something; `Learnt`: what the poll, the entry of
a task and the tool's copy know of the process; `Truthful`: results are those of
the process and of the entry.  `Starts` is where `InTurn` is needed: a repeated start
that overtakes the lost one runs a command again (the finding `RunsOnce`).  Results
after a fault may be unknown, never another's: `Hit` marks these calls.  `FinishedStays`
is an action property, whence the last conjunct of `Truthful`, which ties a final
answer to an entry nobody writes again.

**AgentTeam** (any teammates, messages, stops).  `Places`: where an agent's loop is,
where its thread is, and its idle flag go together; `Present`: nobody of the team
has been cancelled.  A thread outlives its cancelled loop and keeps the idle flag set, so
without `Present` the watchdog could take a removed teammate for a resting one.

### Only model-checked

Liveness (`TeamComesToRest` and `EveryMessageTaken`, `EveryRunEnds`,
`EveryAskAnswered`, `NobodyWaitsForEver`): the provers do neither fairness nor
ENABLED.  What a fold or a recursive function computes for every input, which is an
induction over data: the log (`ReducesForward`, `ConversationKept`), the archive
and the trace (`RecordsAreTrue`), compaction (`CompactedWhole`, `RecentKept`),
payloads (`AcceptedWhole`), streams (`ShownAsBuilt`), screening (`ScreenedOut`), filters
(`FiltersAgree`), edits (`EditsAreFaithful`) and the shortening of outputs in `ToolsAreTrue`.
`Filters` and `Screening` declare RECURSIVE operators besides.  No such obstacle
keeps `AsLocal`, `AllOrSaid`, `SessionsKept` and the calls of `ToolsAreTrue` from
being proved; they have not been attempted.

## 5. Where code and documentation disagree

The properties below say what a comment, docstring, RFC or guide says, and the
code does not do it.  They are written beside the others of their modules, each
with its counterexample's story; no run checks them.  `PROJECT.json` ("findings")
quotes the lines.  To see the counterexample of one, put it in the place of the
INVARIANTS and PROPERTIES of the configuration, with the change named here.  For a
component of an `MC` module define, at its end, for example
`Recipe == part = "log" => R!TiedRowsScanned` (the prefix is the instance's name),
and check `Recipe`; for the two action properties,
`ClaimsUnblocked` and `SparesAnyPrimary`, as a PROPERTY, the second as
`[][part = "model" => C!SparesAnyPrimary]_vars`.  A change written `<-` is one of the module's `INSTANCE`
(or of the configuration, for `MCStorage`), one written `=` is of the configuration.

| Property | Configuration | Change | What happens |
|---|---|---|---|
| `OneExecution` | MCAgentLock | | an acquire's unconditional delete removes a valid row; two run |
| `ReleasesOwnLockOnly` | MCAgentLock | | a run whose lock was forced away removes the next holder's row |
| `TiedRowsScanned` | MCHistory (log) | `MaxTies <- 1` | rows with the nanosecond of a page's last row are skipped |
| `FailedFlushCaughtUp` | MCHistory (history) | | messages of a failed flush are never written |
| `EarlierRunsFirst` | MCHistory (history) | | a message left behind is logged after the next question |
| `ToldIsThere` | MCHistory (archive) | | a failed read, a write cut short or a new sandbox loses rounds a hint has named |
| `RoundsGoOn` | MCHistory (archive) | | a failed scan numbers from 1 again |
| `ReadsAll` | MCHistory (trace) | | a stop leaves a message out of the trace |
| `ReadsOnce` | MCHistory (trace) | | a message added beside tool calls is not counted: a result is tokenized twice |
| `WithinLimit` | MCHistory (trace) | | the token limit is never set |
| `ClaimsUnblocked` | MCTaskBoard | | a dependency is taken back between the check and the claim |
| `SingleTask` | MCTaskBoard | `Chain`: no dependency | two claims by one agent both see no task in progress |
| `RunMarkedEnded` (bug) | MCAgentTeam | | two `stop_all` at once: one fails over the other's cleared dict, and the run is never marked as ended |
| `InterruptReported` | MCExecution | | a stopped model call ends the run with another reason |
| `OneResult` | MCPermissions | | a call resumed from a restored session has two results |
| `DecisionKept` | MCPermissions | `Resolvers = {r1, r2}` | of two decisions at once one is lost |
| `Reuploads` | MCSandbox | | assets registered late are missing in the next sandbox |
| `KeptAlive` (bug) | MCSandbox | | a later run in a running sandbox has no keepalive |
| `RunningReturned` (bug) | MCSandbox | | the dead sandbox read before the look at the new one is returned |
| `RowsStay` (bug) | MCStorage | `Clients <- MCTogether` | two first uses of a JSONL table lose rows |
| `InOrder` | MCStorage | `"down"` in `Orders` | descending order is not implemented in JSONL |
| `LikeMindsCase` | MCStorage | `Values <- MCTexts` | SQLite's LIKE ignores case |
| `SameRows` | MCStorage | `Values <- MCNullable` | with NULL the engines select different rows |
| `UpsertSucceeds` | MCStorage | | of two upserts of one key the second create raises |
| `AnyReadsBack` | MCStorage | | the text `"1"` comes back from a query string as a number |
| `Recallable` | MCModel (compaction) | | shortened results are not archived |
| `StartDeltasEnd` | MCModel (stream) | `PartsPerItem <- 2` | content behind the end of a thinking message |
| `AnthropicBuilt` | MCModel (stream) | last clause of `BuiltAsShown` for `stage = "cut"` | a block that was cut off is missing in the message |
| `RejectedOnce` | MCModel (screening) | `MaxBlocks <- 2`, `Texts <- {<<"A">>, <<"b">>}` | a word cut in two by blocks is found, never masked, and rejects every later run |
| `RefusedIsGone` | MCModel (screening) | `AddsAfter <- TRUE` | a message added behind the refusal is taken for the answer |
| `CallsAnswered` | MCModel (payload) | `Interruptible <- {"gemini"}` | ids of Gemini calls repeat, and results go to the wrong call |
| `RedactedKept` | MCModel (payload) | | redacted thinking is dropped |
| `StopFinds` | MCExchanges (requests) | | a run's end removes the later run's entry; a stop finds nobody |
| `StopInTime` | MCExchanges (requests) | | over stdio a stop is read after the run it should stop |
| `ClientReadsAll` | MCExchanges (requests) | | the client raises on the server's error event |
| `ResponsesEnd` | MCExchanges (team) | `StartsMeet = TRUE` | a second start's response waits for ever |
| `NoRetryAfterStop` | MCExchanges (model) | | a stop in the backoff is followed by one more request |
| `StopIsNoSuccess` | MCExchanges (model) | | a stopped call closes the breaker |
| `FallbackIsAsked` | MCExchanges (model) | | a fallback of another dialect is called in the primary's |
| `SparesAnyPrimary` | MCExchanges (model) | | a Gemini primary is asked behind an open breaker |
| `RunsOnce` | MCExchanges (command) | `Overtaking = TRUE` | a slow first start and its repetition both run |
| `LocalOutputWhole` | MCExchanges (command) | | output written between read and look is lost |
| `TimeoutIsTimeout` | MCExchanges (command) | | exit code 124 is taken for a timeout |
| `GlobMatches` | MCWorkbench (files) | | a pattern with a directory finds nothing |
| `WholeOrError` | MCWorkbench (files) | | an unreadable directory is left out of a successful download |
| `OnlyOwnTools` | MCExchanges (servers) | | an agent gets the tools of another's servers |
| `OwnResults` | MCWorkbench (tools) | `"async"` in `Raising` | some failed calls are not told to listeners |
| `RulesHeeded` | MCWorkbench (tools) | `AddsInRun <- TRUE` | a searched tool is not under its rules |
| `FoundIsOffered` | MCWorkbench (tools) | `Rebuilds <- TRUE` | a rebuilt agent forgets searched tools |
| `EachIsWrapped` | MCWorkbench (tools) | | asynchronous tools are not wrapped |
| `LongIsShortened` | MCWorkbench (tools) | `HeadChars <- 3` | a "shortened" text is longer than the limit |
| `PatchIsFaithful` (bug) | MCWorkbench (edits) | chunks with the end-of-file mark | a chunk lands before an earlier one |
| `ReplacesOnly` (bug) | MCWorkbench (edits) | `"flexible"` in `Strategies` | the next line is glued to the replaced ones |
| `EndIsTold` | MCWorkbench (cli) | | an interruption is told to nobody |
| `KeptOverShutdown` | MCWorkbench (cli) | `GoesOn <- TRUE` | a shutdown saves beside a run that outlived its interrupt: an older history is written last |
| `KeptOverRebuild` | MCWorkbench (cli) | `GoesOn <- TRUE` | the rebuild behind an interrupt meets the next command: an empty history is saved |
| `KeptOverStale` | MCWorkbench (cli) | `GoesOn <- TRUE` | a snapshot read behind a failed save is restored over the save that succeeded |
| `KeptOverTearing` | MCWorkbench (cli) | `GoesOn <- TRUE` | a torn file cannot be read again |
| `KeptOverNeighbour` | MCWorkbench (cli) | `GoesOn <- TRUE` | a second runner's session is lost from the manifest |

`AsksOnlyWithResults` holds of the model, which does what the code does: a stop
drops the results of running tools, and the run asks no more.  RFC 0001 says they
are kept.  Two disagreements have no property: an answer that the screening
masks reaches the history masked and the caller unmasked, because the executor takes
the final answer from the reply before the hooks
(docs/advanced-guides/sensitive-word-middleware.md:81); and the discovery of an MCP
server takes the next message for its answer whatever its id is, which is why
`Quiet` is a hypothesis of `OwnAnswerTaken` (with `Chatty = {"discovery"}`,
`OwnAnswer` is violated).

## 6. Abstractions and what is left out

Messages, calls, tasks, agents, texts and values are members of small sets;
wording, formatting and logging are left out, except where a property is about
them.  What the models assume:

- **AgentLock, TaskBoard**: one engine call is one step.  That is so in memory and
  for a loaded JSONL table; the update and delete of the SQL engines select first and
  write then (`Storage` has those steps, and the hazard at `sql_engine.py:270` says
  what comes between).  `Lag` is an assumption about the machine.
- **Execution**: one level of sub-agents; `stop_signal` and the shutdown event are one
  flag; the synchronous `Executor.execute()` is left out.
- **AgentTeam**: member rows, sandbox, event stream and agent locks are left out, and
  a second run of a team object.
- **TaskBoard**: the listings.
- **Permissions**: which keys a shell command has is an input, as is which rule a key
  meets.
- **Compaction**: the count of tokens is any; images are left out.
- **HistoryArchive**: only messages whose ids disappear (see `Recallable`).
  `RecordsAreTrue` says of the archive: what hints have named is there but for
  `lost`, which only a failed or torn read, a failed write or a lost sandbox adds to (an
  image whose write failed is missing); rounds are numbered on until a scan, a read or
  a write has failed; there is one hint at most, and it is true until then or until
  the sandbox is replaced.  `ToldIsThere` and `RoundsGoOn` are the promises without these.
- **TokenTrace**: `RecordsAreTrue` excepts the messages in `unseen`, and what was asked
  behind `uncounted`; `ReadsAll` and `ReadsOnce` do not.  Left out: detokenisation over HTTP, normalisation of usage; no compaction, which
  `_validate_middleware_compatibility` refuses together with tokens.
- **Payloads**: thought signatures, arguments, images, replayed response items.
- **Screening**: blocking on both sides is on; categories are one.
- **McpSession**: a subprocess answers or leaves.
- **ModelCalls**: with a Gemini primary every request goes to the primary's endpoint.
  `AsksWhoMayHelp` then says of the failover and the breaker nothing;
  `FallbackIsAsked` and `SparesAnyPrimary` show what happens.
- **TeamRoutes**: a poll, and the last one with "complete", is one step each: events
  that another thread stores between the last drain and "complete"
  (`team_routes.py:478-484`), or that `call_soon_threadsafe` still has to queue
  (`multiplexer.py:103`) when the run ends, are not followed.
- **Commands**: `execute_code`, and the shell tool's timeout of 0.
- **Workspace**: a download reads each file by one request in place of `read_file`'s
  four; another tool's change comes before the call's own effects.  `AsLocal` compares
  with the local sandbox only where `Differs` is false: patterns that are not recursive
  or have no `**`, or meet a directory by that name; `mkdir` without `-p` on what is
  there; an upload onto a tree that is there, or with an empty directory; a read of
  CRLF; an edit with spelt-out escapes or of a binary file.  After another tool's
  change only the answer is compared, not what the call leaves.
- **Storage**: `create_many`, `get_or_create` (unused), limits and offsets, the
  remote engine, migrations, the timeout of the loop bridge.  `Storage` has the filter's
  judges as constant operators, so that it can be proved about; the run gives them
  those of `Filters`.
- **Sandbox**: `start_no_wait`, the local sandbox's manager; the check and set of
  `_stop_keepalive` is one step.
- **CliSessions**: models and profiles, one-file snapshots of old versions, display.
  A write that comes to its end is one step, one rebuild lingers at a time, the second
  runner saves one session at once, and commands, crashes and failing saves are four
  together.  `SessionsKept` says nothing of a behaviour once it has met one of `risks`:
  a shutdown that saves beside a run, a rebuild that goes on beside a command or a
  run, a restore from a snapshot read behind a failed save, a torn file, and a second
  runner's save between this one's reading and writing the manifest.  All five are in
  reach of the run (it ends a behaviour there, `GoesOn <- FALSE`), and each has a
  property of its own, `KeptOver...`, that shows the loss.  An interrupt's rebuild, a
  failed save, a crash that tears nothing and a second runner outside these are
  covered.
- **Edits**: the regular expressions of `replace`, CRLF, Latin-1.
- **ToolCalls**: the formats a reply is parsed from; a call is what was parsed.

Not modelled: the message bus's queues (only tests drain them: agents of a team are
given messages directly, as in `AgentTeam`), configuration, prompts and skills
(read once), tracing (written, never read), the terminal interface and migrations,
and the tools that are one request each.

## 7. Plan

Next proofs: `AsLocal` (an invariant over the requests of one file call and what each
has left on disk), `SessionsKept` as it stands, and the life of a call in `ToolsAreTrue`; lemmas
about `Messages`' operators that are not recursive.  Next compositions: `AgentLock`
under `AgentTeam`'s forced releases, and `HistoryPersistence` under the lock, where
two runs of one session write one log.  Next models: a team of two teammates (the
limit of spawns at `main_sub/team/agent_team.py:319`, the silent watchdog at :624), and
the task board's listings, whose `is_blocked` (`main_sub/team/task_board.py:211`) is
read without a lock.
