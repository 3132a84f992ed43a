# Simulacra: TLA+ models of the agent runtime

Simulacra runs language-model agents that may delegate work to child agents, be driven
from a server, a scheduler or a workflow script, share a searchable memory, change files
through a sandbox and call the tools of MCP servers. This
directory holds TLA+ models of the parts that keep state across concurrent steps, TLC
configurations that check them on small instances, and TLAPS proofs, for every instance, of
the safety properties of all ten components modelled. Paths below are relative to the
repository root.

| Module | Models | Code behind it |
|---|---|---|
| `SpawnLedger` | admission of children, rights, budgets | `simulacra-runtime`: `supervisor/spawn.rs`, `dispatch.rs`, `spawn_tool/factory.rs`, `helpers.rs`, `agent_loop/run.rs`, `turn/mod.rs`, `construct.rs` |
| `ChildResults` | result cache, waiters, timers, lifecycle of a child | `supervisor/child_queries.rs`, `actor.rs`, `restart.rs`, `spawn.rs` |
| `ChildBoard` | abstract specification of what the owner of children sees | none: what `ChildResults` is shown to implement |
| `ActorLoop` | the supervisor's message loop | `supervisor/actor.rs`, `types.rs` |
| `AgentTurn` | turns, journal, crash and replay of one agent | `agent_loop/` (`run.rs`, `turn/`, `journal.rs`, `replay.rs`, `hitl.rs`) |
| `TaskService` | tasks of the API server, worker pool, human in the loop | `simulacra-server`: `task.rs`, `engine.rs`, `pool.rs`, `server.rs`; `agent_loop/hitl.rs` |
| `Scheduler` | cron schedules, missed runs, the last fire time on disk | `simulacra-server/src/scheduler.rs` |
| `Workflow` | workflow runs, agent calls, resume and cancel | `simulacra-workflow` |
| `MemoryIndexer` | memory store, event channel, index, backlog, retention | `simulacra-memory`: `background.rs`, `sqlite_store.rs`, `sqlite_index.rs`, `retention.rs` |
| `SandboxFiles` | patches and script calls on files, byte budgets, rollback | `simulacra-sandbox`, `simulacra-vfs/src/memory*.rs`, `simulacra-tool/.../apply_patch.rs`, `simulacra-runtime/src/vfs_hook.rs` |
| `McpCatalog` | MCP servers of one session: activation, search, calls, reconnects | `simulacra-mcp`: `catalog.rs`, `manager/`, `transport/`; `agent_loop/tool_runtime.rs` |
| `MC*` | constants for TLC | |
| `SpawnLedgerProofs`, `AgentTurnProofs`, `WorkflowProofs`, `MemoryIndexerProofs`, `SandboxFilesProofs`, `McpCatalogProofs` | theorems about the module each is named after | |
| `ChildResultsProofs` | theorems about `ChildResults`, its refinement of `ChildBoard`, and `ActorLoop` (as `Loop`) | |
| `TaskServiceProofs` | theorems about `TaskService` and `Scheduler`, which it extends both | |

`PROJECT.json` maps every definition to the lines it stands for, and lists the runs,
the faulty variants each property is able to catch, the findings, the hazards and the
theorems.

## 1. Inventory

### The supervisor

**State.** `AgentSupervisor` (`supervisor/mod.rs`) keeps, each behind a mutex of its own,
`accepted_child_ids`, `child_results` (per child: metadata with parent and capability,
the result, whether it was delivered, join and wait waiters), `cancellation_tokens`,
`child_inputs`, `child_budget_accounts`, `budget_reservations` and the retry counts.

**Operations.** Spawn, join, wait for one or several children with a timeout, status,
list, cancel, steer, close and host-only inspections arrive as messages with a priority
on a bounded channel. One actor handles them one at a time. Every accepted child is a
tokio task in the actor's `JoinSet`; it runs the child's loop with retries, waits for an
approval if that is how it ended, settles the reservation, appends `SubAgentCompleted`,
publishes the result and removes its handles. Every timed wait has a task that sleeps.

**Interactions.** A parent's loop and the supervisor share the parent's `ResourceBudget`;
the factory and the before-hook narrow budget and rights before the supervisor reserves;
children whose tools can delegate hold a sender to the same channel.

**What is hard.** The actor, the lifecycle tasks, the timers and the agents' turns meet
at mutexes taken one after the other. Results race timeouts, cancels race ends, turns
race settlements, receivers may be dropped, appends may fail. Limits of 0 mean
"unlimited".

**What makes it correct.** Rights and limits only shrink along a chain of spawns;
reservations balance; a slot is given once; usage is charged once; a request is answered
once, with something true; results are final, journaled first, and never forgotten; the
loop neither starves a message nor leaves one behind.

### The other modelled components

| Component | State | Operations | Hard part | What makes it correct |
|---|---|---|---|---|
| agent loop (`simulacra-runtime/src/agent_loop`) | messages, journal, position in the replayed journal, budget, input queue | turn, provider call, serial and parallel tool calls, approval, steer, cancel, kill, replay | a crash between an append and its effect; the replay must take the same path | what the conversation shows was journaled; what is recorded is not done again |
| task manager (`simulacra-server/src/task.rs`) | a record and an event log per task, cancellation tokens, channels to the human | create, cancel, pause, resume, ask, answer, complete, evict | operations that take the lock twice; cancels and completions crossing | terminal is final; a cancel reaches the agent; an answer goes to its question |
| engine and pool (`engine.rs`, `pool.rs`) | bounded queue, worker threads, completion tasks | submit, run, complete | full queue, a worker that panics, fewer workers than tasks | a submitted task ends; a cancelled one gives its worker back |
| scheduler (`scheduler.rs`) | last tick, `.last_fire` files | startup with missed runs, tick, fire, persist | crash between creating a task and writing its time; late ticks | no occurrence passed over, none fired twice while its record is kept |
| workflow runtime (`simulacra-workflow`) | run record, result files, permits, event list | start, call, settle, cancel, finish, resume | two executions under one id; labels that share a file | permits balance; a reused result is genuine; the record is of one execution |
| memory (`simulacra-memory`) | content versions, chunks and vectors, tombstones, backlog, queues | put, delete, expire, embed, overflow, drain, reindex | index writes behind store writes, in three tasks | a deferred write is indexed; a deleted path stays deleted |
| sandbox and VFS (`simulacra-sandbox`, `simulacra-vfs`) | files with revisions, bytes used per agent, one mutation lock per agent | patch (plan, reserve, pin, validate, commit or fall back, undo), write, append, remove, rename | reads before the commit, answers that are lost, a fallback that fails half way and whose undo may fail | a failed patch leaves nothing; reserved bytes balance; nobody's bytes are overwritten unseen |
| MCP catalog and manager (`simulacra-mcp`) | connections with their transport, inventories, published tools, two locks | activate a skill's servers, search, call, handshake, reconnect, renew a session | tasks that wait for each other's network calls and may be aborted in them; a retry of a call that was executed | what a search has shown stays; a tool runs again only when its answer was lost or taken for an expired session; no invocation waits for ever |

They interact as follows. The server's engine builds an agent loop and gives it to a
worker; the loop's activity sink and its human-in-the-loop channels lead back to the task
manager. The scheduler creates tasks through the same engine. Workflow calls run an agent
loop each, through a `SubagentWorker`. All agents of a tenant write the memory store, whose
events the background indexer follows. Tools and scripts of one agent share its sandbox
cell, and agents of a tenant may share the files behind it. The tools of a session call MCP
servers through one manager.

### Not modelled yet

| Component | State and operations | Hard part | Properties worth stating |
|---|---|---|---|
| hooks (`simulacra-hooks`) | pipeline; verdicts | order and failure modes | a denial is never overruled |
| capability algebra (`simulacra-types`) | pure | patterns as subsets | subset test is sound for every path |
| context strategies (`simulacra-context`) | pure | pairs of calls and results | a kept result keeps its call |

Providers, catalog, GraphQL, HTTP, fetch, CLI, configuration, language runtimes
(QuickJS, Python, WASM, shell), the tool crate, MCP SDKs, the frontend and the integration
tests are translation, I/O, interpreters or test code with no protocol of their own; they
are listed in `PROJECT.json` as not modelled. They are also most of the repository's 94,000
lines, so the modelled share of the whole stays small while the share of its concurrent
state does not.

## 2. Plan

1. `SpawnLedger`, `ChildResults` with `ChildBoard`, `ActorLoop`, and their proofs: done.
2. Server: `TaskService` and `Scheduler`; `Workflow`; `AgentTurn`; `MemoryIndexer`;
   `SandboxFiles`; `McpCatalog`: modelled and checked, described below.
3. Proofs for the modules of step 2: the type invariant, every safety invariant and every
   action property of all of them, and the sums of `SpawnLedger`: done.
4. Composition of the supervisor's modules: orphans of a closed parent, steering, retries on
   a fresh budget, two dependent commands in one batch, an approval that outlives the
   channel.
5. The hook pipeline; as operators checked against a reference over bounded
   inputs, the capability subset test and the context strategies.

## 3. The models

### SpawnLedger

`Spawn` is the handler up to `reserve_spawn_budget` (`ReserveSpawn`), followed by
`AcceptSpawn` when `prepare_spawn` has journaled the child or `RollbackSpawn` when it
failed: between the two the agents go on, and the actor handles no other message
(`reserving`). Each of the two authorizations and budget checks is a conjunct, in the
order of the code; a request that is refused changes nothing and has no action. An
agent's turn is two steps, because the provider call between the refresh of the budget
(`BeginTurn`) and the merge (`EndTurn`, or `KillTurn` when a hook kills the turn after
it) leaves time for settlements. `Resolve`, `Settle`, `Publish` and `CloseChild` are the
end of a child.

Data: a `CapabilityToken` is the set of rights it grants, with the placements it may spawn
among them. A budget has tokens, turns and sub-agents; cost is handled like turns by every
function and is left out. Arithmetic is on the naturals: `saturating_add` on `u64` is not
reached by the counters (2^64 turns or tokens), `saturating_sub` is `SaturatingSub`. The sums
in the properties are numbers of units (`Total`): what the members of a set hold, as pairs of a
member and a number, counted. History variables `own` and `charged` record what the properties
compare with; no guard of the system reads them, except that `own` bounds the turns of an agent
(`MaxOwnTurns`).

### ChildResults and ChildBoard

`pc` is the place of a child's lifecycle task, one step per lock it takes. A request is
a oneshot sender: `ask` says whether it is unused, waiting, taken by its timer, answered,
or used in vain because its receiver was dropped. A wait for several children registers
one shared sender with each of them; the timer takes it under the lock and answers after
releasing it (`TimerFires`, `TimerAnswers`). `RetryLimit` is the restart strategy of
each child (0 for LetCrash, 1 for RetryOnce, 2 for RetryTwiceThenFail). `told` and
`toldAtAsk` are history.

`ChildBoard` is the promise without waiters, timers, tokens or a journal: one entry per
child that goes from absent to running to a final status to closed, and calls that are
answered at most once with something the board shows. The refinement maps a cache entry
to its board entry and a request to its call; steps on tokens, timers, inputs, retries
and the journal stutter.

### ActorLoop

The loop selects on the channel and its tasks, takes a whole batch into the heap,
dispatches it in priority order and ends when no sender is left and every task has been
joined. `FactorySender` says whether the task factory the supervisor owns holds a sender:
TRUE is how the CLI and the server wire it, FALSE a supervisor embedded without nested
delegation, as in the repository's tests.

### AgentTurn

`pc` is the place in `execute_turn`: the entry `TurnStart`, the request, the provider call, the
response, its tool calls one by one or as a parallel batch, approvals, and the end of the turn.
Each step appends its entries before the effect they stand for, or consumes them from the
record of a crashed run while there is one (`cursor`), where an entry of another kind is a
divergence. A tool is a step of its own (`running`), so a crash, a kill or a cancel falls
between a call and its result. A tool may append entries of its own (`ToolJournals`), and a
background child it started ends at any time, when the supervisor appends `SubAgentCompleted`
under the parent's id (`ChildCompletes`); `MaxNested` bounds both. Responses and results are
identified by the number of live answers before them, which tells a replayed one from a new
one. The properties compare the entries of some kinds in two sequences, in order: `SelectTo`
numbers those entries (`Chat`: responses and results; `Plain`: everything a replay consumes one
by one), and one selection contained in another is a prefix of it. Left out: message texts,
compaction, output validation, the checkpoint `run.rs` can start from, and interactive
sessions.

### TaskService

A task's record, its event log, its cancellation token and the half-done cancels on it are
the task manager; `spawn` is the place in `spawn_task`; `queue` and `worker` are the pool;
`agent` is the work item reduced to what it sends to its task: activity, questions, its end.
`cancel_task` is two steps (`SignalCancel`, `CommitCancel`) because it takes the lock twice;
every other manager operation is one, with its transition and event. `ClientStep` groups
what clients do through the API or the WebSocket, `ServerStep` the server's own tasks.
`MaxChatter` and `MaxLog` bound the log, which is what grows.

### Scheduler

A cron expression is the set of its occurrences and the clock a number that anything may
advance at any time. A write of the file that fails leaves it as it was or truncated, which
reads as no time (`NoFire`). `HandleMissed` is one iteration of `handle_missed_runs`, `Wake`
one of the main loop, which fires the due entries in configuration order (`InOrder`);
`CreateTask` and `Persist` are the two halves of firing, between which the process may crash or
the write may fail. `created` is history: the tasks, and whether the file named the previous
one when each was created. Init, Next, Spec and the like are `SchedulerInit`, `SchedulerNext`,
`SchedulerSpec`, so that `TaskServiceProofs` can extend both server modules.

### Workflow

Executions are started in order under a run id of the caller's choice, which may be one that is
in use. A start first saves the record (`Save`) and then, with no lock held in between,
registers its control and queues the script (`Register`), so two starts of one id interleave.
Each execution has its permits, its calls by index, its events and its cache. A call waits,
works and is done; a cached answer (`AgentCall`), `WorkerReturns`, `WorkerFails` and
`CallCancelled` are the ways to the end. The results vector of a run is a function of the call
index (`Results`). `state` and `files` are the two kinds of files the runtime keeps. `End`
pushes the event and saves the record; when that save fails the execution is over
("unrecorded") and its record still says running. The JavaScript around the calls is any
sequence of them.

### MemoryIndexer

`content` is the store, `chunks` and `tombs` the index, `backlog` its table of pending rows.
Events go through the broadcast channel to the dispatcher, which sends them to the tenant's
worker or, when its queue is full, applies a delete at once and puts a write into the backlog.
The drainer takes a batch of rows and handles each in separate steps: read the content, stage
its chunks, embed them, remove the row or count a failure. A content is represented by the
version it was written at, and `blank` content yields no chunks. The drainer calls its embedder
in place: it may fail (`DrainEmbedFails`), never return, or panic, which ends the drainer's
task until the process restarts (`DrainPanics`). `unordered` records the paths where a write
without a guard overrode a later one, which is what the finding is about and what
`NoResurrection` is therefore conditional on. The three startup policies follow a crash. One
tenant is modelled; tenants share nothing but the thread pool.

### SandboxFiles

Calls are patches or single operations of scripts. A patch is planned item by item without the
lock (`PlanItem`), takes its cell's mutation lock and reserves its bytes (`Lock`), pins and
validates each item (`PinItem`, `ValidateItem`), records what is there and journals
(`Capture`), then commits in one step on a file system with batches (`Commit`) or executes half
by half on one that refuses them (`Execute`: of each item the stage `writes`, then `removes`),
undoing backwards on failure (`Compensate` and `Undo`: of each item, from the last to the
first, the written path in `checkTo` and `undoTo`, then the removed one in `checkFrom` and
`undoFrom`). `WellFormed` is what `plan_patch` lets through: a patch of at least one item, any
number of them, no path in two of them. Script calls take no lock; an append observes, reads
and observes again, once more if it lost a race, and a rename on a file system without batches
is a copy and a removal. The bytes of a file are the set of calls that contributed one byte
each, which is what tells a lost write from an overwritten one. A budget is counted in units:
`Held` is the set of pairs of a call and a number up to what it has reserved. Where an item
reads several paths in one function the reads are one step. `LandLate` is a remote backend
whose answer was lost; in the item-by-item fallback a lost answer (`HalfLost`) keeps the
reservation and undoes nothing, and the half may land later (`LandHalf`). Left out: directories
(a file's parents always exist), capability checks (a refusal changes nothing), hooks that
redirect a write to another path.

### McpCatalog

An invocation of a skill or of a catalog tool is a future (`op`), whose `pc` is the await it is
at. Two tokio mutexes order them: `gate` is the catalog's activation lock, `manager` the lock
around `McpManager`, which a call keeps through its handshake, its requests and the sleeps of
its retries. `handshake_server(c)` is the set of connections the handshake may leave behind, by
configured transport; an activation keeps the skill's list, the servers still to connect
(`pending`) and takes the first of them in the declared order (`IsNext`); `Answers` is the set
of answers a request may get, with whether the tool ran. The code recognises an expired session
by the text of a protocol error, so "expired" is an answer in every mode, of a tool that ran or
not; the renewal (`Renewed`) configures streamable HTTP, which a module, having no url, can
never connect with. `Dispatch`, `Backoff` and `CallHandshake` are the parts of
`dispatch_with_reconnect`: the phase tells the first request, the one after a renewed session
and those of the retry loop apart. `Abort` is `cancel_tool` of the agent loop: the future is
dropped at its await with its guards, so a half-made connection stays. `DiscoveryHangs` is the
one request of a handshake without a timeout. The fields `first`, `renewed`, `journaled`, `ran`
and `broken` are history. Left out: the ranking of a search, the contents of answers,
`handshake_auth_failed`, which only chooses an error text, and fuel.

## 4. The runs

All runs say `CHECK_DEADLOCK FALSE`: ids, turns, calls and faults are finitely many in an
instance and every id is used once, so a finished system rightly stops.

| Run | Instance | Shows |
|---|---|---|
| `ledger` | 3 children, 1 placement that may spawn itself, root with 3 tokens and 4 turns, budgets with and without a token limit, 1 turn per agent | rights shrink, reservations balance, slots are given once, usage is conserved while turns race settlements, a charge lies between the child's own turns and its budget |
| `results` | 2 children, one of them retried once, 1 request | cache, handles and deliveries agree; `ChildResults` implements `ChildBoard`; every wait ends, a join ends once its child resolved, a cancelled approval ends also after a retry |
| `actor_loop` | 2 clients, 2 tasks, 5 messages, capacity 3, no factory sender | no starvation, the loop ends exactly when it should |
| `agent_turn` | 2 turns, responses without calls or with 2, serial and parallel, with and without approvals, 1 input, 1 entry of a tool or of a background child, 1 fault, 1 crash | journal before effect, nothing recorded is repeated, the replay rewrites the record and diverges only where section 5 says |
| `tasks` | 2 tasks, one of them over a WebSocket with a human behind it, 1 worker, queue of 1, 1 tool call id | cancels reach agents, answers reach their question, the event stream is right and ends once, workers come back, submitted tasks end |
| `scheduler` | 3 schedules, one per policy, with coinciding and interleaved occurrences, 5 time units, 2 faults, at most 2 backfilled | the file never leads, an occurrence gets one task, late ticks still fire |
| `workflow` | 2 executions, 2 run ids, 2 labels that share a file, 1 permit, 2 and 1 calls | permits balance, reused results are genuine, the record is the start or the whole end of one execution, also when starts interleave and saves fail, a cancel releases every call |
| `memory` | 2 paths with 3 and 1 writes, queue of 1, channel of 2, 2 retries, 1 crash | chunks carry their version's content, no delete is undone outside the known race, the backlog empties and what was deferred into it is indexed unless the embedder hangs or panics |
| `sandbox` | 2 calls of one agent with 4 bytes and 1 of another without limit, one file and one free name, both kinds of file system, 2 faults | failed patches leave nothing, bytes balance, nobody's bytes are dropped unseen |
| `mcp` | 4 invocations: an activation, a search, an activation or a call, and a call; a network server whose transport is detected and a WASM server, 3 retries | the catalog keeps its word, reconnects keep the transport, tools run again only after a transport error or once for an answer taken for an expired session, invocations end |
| `recorded_batch` | as `agent_turn` | finding 1 |
| `deleted_stays_deleted` | as `memory` | finding 2 |

**Why the bounds are enough to be interesting.** Three children allow a chain of three spawns,
two siblings below one parent and a third competing for what is left; one wait registered with
two children races its timer, two results, cancels and closes (what two requests may do to each
other is covered by the proofs, which bound neither). Two tasks on one worker and a queue of
one give a running task and a queued one or, while the worker has not yet taken the first, a
refused one. Two turns with two calls let a crash fall between the calls of a batch and in the
turn after a replayed one. In the scheduler the third schedule misses more occurrences than one
startup backfills. Two executions are the smallest case of overlap, resume and reuse of an id;
one permit makes a call wait. Three writes are a write, a delete and a write again, with an
older version still in the queue, the backlog or the drainer's hands. Three calls on one file
are a patch, a rival that makes it stale and a third that makes the retry of an append stale.
Four invocations let two skills that share a server be activated around a search and a call.
The children of `ledger` are symmetric; runs with liveness use no symmetry.

**Fairness.** `ChildResults`: weak fairness of the timers and of each step of the lifecycle
after the child's future has resolved, which are ready tokio tasks that only take short locks.
`ActorLoop`: of the loop. `TaskService`: of each worker thread, whose agents end because turns
are bounded, and of the server's own tasks that finish a cancel or record an outcome.
`Scheduler`: of its one tokio task. `Workflow`: of a call whose run is cancelled, which its
`select!` wakes. `MemoryIndexer`: of the drainer's own steps (`DrainStep`), since it polls for
ever; nothing is assumed of the embedder, and `BacklogSettles` and `DeferredIsIndexed` except a
drainer that stays in an embedding or was ended by its panic (`DrainerStuck`). `McpCatalog`: of
the set of ready futures, whose requests and sleeps end by their timeouts; `InvocationsEnd`
excepts a discovery request that hangs. Nothing is assumed of children, owners, clients,
humans, scripts, workers of a workflow or agents that wait for an answer: `RequestsEnd` speaks
of a join once its child has resolved, `LoopEnds` when no task runs, and `SubmittedEnds`
excepts a question that holds its worker.

**Faulty variants.** Some definitions are preceded by a variant with a plausible bug (a
dropped guard, a stale copy written back, a missing wake-up). No action uses it; replacing
the definition by it makes TLC violate the property `PROJECT.json` names with it.

## 5. Findings

Shown by a run:

1. **A recorded parallel batch does not replay** (`recorded_batch`). The batch journals all
   its calls before any result (`turn/tools.rs:26`), the replay of a call wants its result
   before the next call (`agent_loop/journal.rs:104`). S049 rule 5 says that recorded order is
   consumed deterministically.
2. **A deleted path may stay a search hit** (`deleted_stays_deleted`). The drainer's
   `upsert_chunks_only` has no tombstone guard (`sqlite_index.rs:1275`); S037 promises that
   late work never resurrects deleted content.

Seen while modelling, without a run of their own:

* Supervisor: a failed child costs its parent nothing although S018 rule 30 asks for a rollup
  (`spawn.rs:309`); tokens of grandchildren stop at the child (`spawn.rs:317`); tokens of a
  killed turn are not reported (`run.rs:103`); a retry cannot be cancelled, its token is nobody
  else's (`restart.rs:110`), and runs on a fresh copy of the budget (`factory.rs:135`);
  cancelling a completed child may be acknowledged (`dispatch.rs:159`); `cancel_with_grace` has
  no caller (`dispatch.rs:214`); the loop does not exit while its own factory holds a sender
  (`actor.rs:71`). The passing properties are stated accordingly: usage is conserved with
  respect to what is charged, and `LoopEnds` is about a supervisor without the factory's
  sender.
* Agent loop: steered inputs are not journaled, so their run diverges on replay; so do nested
  entries of a tool that had not returned, and the `SubAgentCompleted` of a background child
  that ended outside a tool call of its parent (`spawn.rs:681`, `:726`), which the replay skips
  only between a call and its result. With finding 1 these are the exceptions of
  `DivergesOnlyWhere`.
* Tasks: pausing does not suspend the agent (`task.rs:666`, S031 rule 29); the manager and the
  activity sink number events independently, so sequence numbers of a task repeat
  (`engine.rs:493`, S031 rule 35); a refused submission leaves a pending record that is never
  evicted; a pause that crosses a question leaves the agent waiting until a cancel; a lagging
  receiver of events skips some silently.
* Scheduler: an occurrence between the time read by `handle_missed_runs` and the first
  `last_tick` of the loop is in neither (`scheduler.rs:230`, `:315`).
* Workflow: `load_resume_cache` trusts the `is_error` of the record, not of the file it reads
  (`runtime.rs:422`, S052 rule 16); reused results are not saved under the new run, and an
  error of the worker leaves no result, so that run may still end as completed; when the save
  at the end fails (`runtime.rs:415`) the events say completed and `state.json` says running
  for good.
* Memory: `delete_path` ignores the version it is given (`sqlite_index.rs:843`); an older
  backlog row is kept by `INSERT OR IGNORE` (`:1164`); a lagged subscription is only logged
  (`background.rs:270`). A write can be forgotten by each of these three, where S037 says that
  no deferred work is silently forgotten (S037:535): `DeferredIsIndexed` therefore starts where
  the current version is in the backlog. A panic of the embedder in the drainer ends draining
  (`background.rs:970`, task of `:294`); the retention reaper may delete a path that was
  rewritten meanwhile (`retention.rs:338`); at shutdown the map of workers to abort is already
  empty (`background.rs:454`).
* Sandbox: a move is charged the size its source had before it was pinned
  (`vfs_mutation.rs:117`), so a source that grows in between lands more than was reserved;
  bytes are released before the rollback (`:183`), so a rollback that fails leaves uncharged
  bytes; the check and the write of a rollback entry are two calls (`vfs_state.rs:193`); an
  empty directory is listed and then removed with whatever was put into it since
  (`vfs_state.rs:212`); on a file system without revisions appends and renames overwrite what
  was written meanwhile, as their comments say. `BytesAccounted` counts a failed rollback as
  uncharged and ties bytes in files to charges on atomic file systems only.

* MCP: inside the retry loop every error but a refused credential is retried, also an answer of
  the server (`reconnect.rs:133`), where `:61` says that non-transport errors are not
  retriable; the SSE endpoint discovery has no timeout on its request (`handshake.rs:220`; S024
  gives handshake requests 5 s) and keeps the manager locked; a WASM server whose instantiation
  failed once loses its mode, and its transport is refused by `handshake_server`
  (`handshake.rs:37`), so it stays unusable for the session; any protocol error that contains
  "session expired" is taken for an expiry, in every mode and also after the tool ran
  (`reconnect.rs:39`), so such a call is repeated, a legacy SSE connection comes back as
  streamable HTTP (`:51`) and a module is lost to the session. `RunsAccounted` therefore allows
  a repeated run after any transport error of the same call and one more for such an answer,
  `ModeNeverSwitches` excepts a renewed connection, and `InvocationsEnd` the hanging discovery.

## 6. The proofs

The theorems hold for every value of the constants that satisfies the named assumptions:

* `SpawnLedger`: the root and `NoAgent` are not child ids, tokens and budgets have their types,
  limits and costs are naturals. No finiteness of the set of ids is assumed: the invariant says
  that the admitted children are finitely many.
* `ChildResults`: retry limits are at most 2 and child ids differ from the words used as replies.
* `ActorLoop`: senders and priorities have their types and the capacity is positive. Its theorems
  are stated over an instance, `Loop!Spec`, and carry these assumptions, `Loop!LoopParameters`, as
  their hypothesis; the run `actor_loop` evaluates them.
* `TaskService`: finitely many tasks (task ids of one process), a positive queue capacity, and
  tool call ids that differ from the word for a free-text question.
* `Scheduler`: occurrences lie between 1 and `MaxTime`, policies are the three of the code.
* `AgentTurn`: the sets of sizes and flags have their types and the bounds are naturals.
* `Workflow`: `Limit` is positive (`Semaphore::new` of the configured concurrency), `None` is
  neither an id nor a label.
* `MemoryIndexer`: there is a path, and capacities and `MaxRetries` are positive.
* `SandboxFiles`: finitely many calls, cells and paths (those of one process), operations as the
  patch parser and the script bindings produce them (`WellFormed`), and a seed byte that is no call.
* `McpCatalog`: transports are the four of the configuration, inventories and skills are
  sequences, `MAX_RETRIES` is positive (3 in the code), `None` is no server, tool or invocation.

**SpawnLedgerProofs.** `CapabilitiesAttenuated` is not inductive: the child being admitted
already has a parent and rights and is not yet accepted, and a parent might be rolled
back. `IInv` adds `Identities` (at most one child is being admitted, its parent is the
root or was accepted earlier, everyone else has no parent) and `Delegations` (the same
attenuation for the admitted). A rollback can then only touch the one id that has no
children, and an accepted parent's rights never change, so inclusion composes along the
chain. `LimitsAttenuated` composes by transitivity of `Attenuates`, which has to be shown
with 0 as "unlimited". `ReservedWithinLimit` follows because a reservation was validated
against what was left and releases only subtract. `SubAgentsCounted` equates a counter with
a cardinality; each step changes both by one. `AcceptedIsForever` follows from `IInv`.

The sums have an invariant of their own on top of it, `AccountsInv`. `ReservedMatchesOutstanding`
needs `Lifecycles`: a reservation lasts from admission to settlement, so that each release takes
one child out of the sum and each reservation puts one in that was not there.
`UsageConserved` needs that a child has no charge before it is settled, so that a settlement adds
to the sum exactly what it adds to the account. Since a sum is a number of units, adding or
removing a member is the cardinality of a disjoint union, and no induction over the set is
needed. `ChargeBracketsUsage` needs `ViewsLag`: the copy of the budget a loop reports from is
never behind its own turns and never ahead of the shared budget.

**ChildResultsProofs.** `WaitersMatch` needs to know which requests are joins and which are
waits (`Registered`: a join has no timer, a wait has one at every child it asked about) and
that a published child has no waiters; `ResultIsJournaled` needs what the stages between the
end of the future and the publication carry (`Stages`). `DeliveredMeansReceived` and
`NeverRunningAgain` rest on `Histories` (only published children have been told, and a request
made after that is answered at once) and `Received` (what was told is what the replies of the
callers hold). `Refinement` proves that initial states map to initial states and every step to
a board step or a stutter, by cases on the actions.

**ActorLoop, in ChildResultsProofs.** The invariant says that a loop that drains or has ended
has an empty channel without senders, that a loop that reaped its last task has no task, and
that whatever is in the channel during a dispatch came after the batch.

**TaskServiceProofs.** `LiveAgentIsTold` is about a state that two locks and three tasks make:
`LifeInv` says at which place of `spawn_task` the token exists and is stored in the record, that a
cancel which has signalled but not yet committed has cancelled the token of a submitted task, and
that only the end of an agent has an outcome. `AskInv` ties the waiting states to the question of
the agent and to empty answer channels; a question left open when the agent ended was cancelled.
`StreamInv` adds to the two stream properties that the log of a task that has not ended has no
terminal event; appending an event then needs only two lemmas on the last state event of a
sequence. `QueueInv` (a task is queued once) is what lets a worker take the head of the queue
without touching the agent of another entry.

**Scheduler, in TaskServiceProofs.** `OneTaskPerOccurrence` compares a task with the one before
it, but a fire is decided from the file: `CallsAreDue` says that each call still to make has an
occurrence after the time on disk and after the earlier calls for the same schedule,
`PersistsLastTask` that what is about to be written is the time of the last task,
`TickCoversDisk` that in the main loop the disk is not ahead of the last tick, and `InThePast`
that nothing is ahead of the clock. A task is then either after the last one by an occurrence
or the file did not name the last one (`stale`).

**AgentTurnProofs.** The four properties compare sequences of any length, and no induction over
them is available. The journal is therefore described as the run of a small automaton: `Ctl` is
where the writer of a journal is (waiting for a turn, a request, a response or tools; the
response it works on; how many of its calls and results are written; how many messages so far),
`Step` what an entry does to it, and `Parses` that a sequence of such states, one per entry,
leads through the whole journal; an entry of a tool or of a background child leaves the state
as it is. An append extends it by one state. `Parses` also says that states only go forward
(`Precedes`), which gives that ids of calls are not written twice, and that the last entry that
is no nested one decides where the writer is, which is what the scan over nested entries needs.
`Matches` says that the loop and the journal's automaton are at the same place; `StageInv` what
the local variables of a turn hold there; `ChatInv` that the journal is ahead of the
conversation by exactly the results the turn has journaled and not yet pushed, from which
`JournalBeforeReturn` follows. `Track` puts the record beside it: it parses too, and either the
run is at the automaton state the record has at the cursor and has written what the record
holds up to there, but for the one entry it has consumed and not yet journaled (`Follows`), or
it has used the record up and is past it (`IsPast`). The first gives `ReplayRewritesRecord`;
with both, a recorded result is found by the replay or is behind it (`RecordedNotRepeated`);
and since two automata at the same place can only continue differently with a batched call, a
nested entry, or a request that counts other messages (`Honest`: without steered input it does
not), `DivergesOnlyWhere`.

**SandboxFilesProofs.** Most of the invariant is per call, and a step of one call has to leave it
true of the others: `Frame` is what any step may do to the rest, and one lemma per part shows that
this keeps it. `StageInv` says at which stage a call of a kind can be, at which item
and on which file system; `HoldInv` that a call has reserved before bytes of its own are written.
`BuildsOnWhatIsThere` needs `LinkInv`: a pinned revision that is still the file's belongs to the
bytes that were read. It survives the writes of others because pins are never ahead of
`revision`, so that a new write never gets an old pin's number, and a path that is removed and
created again does not either. `FailedBatchLeavesNothing` needs `UndoInv`: unless someone else
touched them, each written path is as recorded or as the batch leaves it (`OpenTo`, `OpenFrom`) and,
once the undo has passed its entry, as recorded (`SafeTo`, `SafeFrom`); since items have distinct
paths, undoing one entry does not disturb another, and with patches of any length `UndoneTo` and
`UndoneFrom` say how far the undo has come. `BytesAccounted` is `SumInv`, whose sums change by the
units of one call, and `OwnInv`: on an atomic file system bytes found in a file, or read from
one, are of a call that has succeeded and paid.

**WorkflowProofs.** `ExecInv` says that permits and working calls add up to the limit in every
phase, that calls are under way only while their run is, and that only a call that is done has a
result. A result is therefore set once and never moves, and an execution has its id before it has
calls: so a `Genuine` result (the one a worker returned for a call of that run) stays genuine, which
carries over from calls to files, from files to caches and from caches to resumed calls
(`FileInv`, `ReuseInv`). `StateInv` adds that `control` names an execution of its id, and
rests on an execution that saved its end never changing again.

**MemoryIndexerProofs.** `StoreLeads` says that no event, row, chunk or tombstone is ahead of
the store and that what speaks of the current version is right about its being deleted;
`ReadsAreCurrent` that what a lane has read is of the version it will write, which gives
`ChunksAreOfTheirVersion`, and that the drainer is done with a current version only once it has
embedded it. With `DrainerOwnsRows` (the rows in the drainer's hands are still in the backlog
or replaced by a newer version, one per path, below the retry limit) that gives
`RowsLeaveDone`: the row of a current version goes only when that version was embedded, the
safety half of `DeferredIsIndexed`. `NoResurrection` follows from the version fences of the
guarded writes; the unguarded one marks its path as `unordered`.

**McpCatalogProofs.** `Coherent` says of a connection that it has a transport exactly while it
is connected, the first one unless it was renewed, and that a connection that went down is
configured to that transport, which is why a new handshake cannot switch it; a renewed one is
configured to streamable HTTP, and only what is no module has a url to connect with (`Hosted`).
`OpInv` gives for each await the locks held; only the holder of the manager changes
connections. `ActivationInv` says that an activation holds the gate and works on servers that
are not activated, so that a failed one discards none that is, and that what it inventoried is
connected. `CallInv` orders the steps of a call: published, granted, journaled, run, with the
number of runs bounded by the attempt and the phase.

**Proved for every instance and therefore in no run:** the type invariants of these ten
modules, `WaitersMatch`, `PriorityOrder`, `LimitsAttenuated`, `ReservedWithinLimit`,
`AcceptedIsForever`, `ResultIsFinal`, `ResultIsJournaled`, `NeverRunningAgain`, `ExitsLast`,
`RowsLeaveDone`.

**Checked by TLC only.** No safety invariant or action property of a passing run. What remains
is everything with fairness (`RequestsEnd`, `CancelledApprovalEnds`, `NoStarvation`,
`LoopEnds`, `CancelFreesWorker`, `SubmittedEnds`, `LateTicksStillFire`, `CancelReleasesCalls`,
`BacklogSettles`, `DeferredIsIndexed`, `InvocationsEnd`), which is out of the prover's reach.
The board is a safety specification, so its refinement is proved as a whole. The two properties
of the findings are refuted by TLC.

## 7. What is left out

* The contents of messages, results, spans, metrics and texts of errors.
* Steering messages in the supervisor: the input queue is only a handle that exists or not.
* Poisoned mutexes: every lock is assumed to be taken without a panic in another holder.
* A crash of the supervisor's process: it persists nothing but the journal, whose replay is
  in `AgentTurn`.
* Ownership across agents in `ChildResults`: all requests come from the owner; which caller
  owns a child is in `SpawnLedger`.
* Interactive sessions, compaction and output validation of the agent loop.
* Several tenants, database errors and prefix deletes of the memory; webhooks, listing and
  filters of the server; phases, logs and the JavaScript engine of workflows; directories,
  overlays, mounts and special file systems.
* Everything section 1 lists as not modelled, for the reasons given there.
