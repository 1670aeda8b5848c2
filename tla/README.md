# TLA+ specifications of the Strands Agents SDK

Specifications of the concurrent parts of the TypeScript SDK
(`src/strands-ts/src`), model-checked with TLC and proved with TLAPS: every
safety property a run shows is also a theorem, for all values of the constants.
They are kept beside the code: every definition says which function it stands
for, and `PROJECT.json` maps it to its lines.

## 1. The system

The repository holds the SDK in TypeScript (`strands-ts`) and Python
(`strands-py`), presets and tools built on it (`harness-*`, `strands-cli`,
`strands-mcp`), the documentation site and test infrastructure. The TypeScript
SDK is the reference here.  The parts in bold in the table are modelled, if not
always as a whole.

JavaScript runs one piece of code at a time, but nearly everything in the SDK is
asynchronous: agents, tools, stores, timers and consumers of streams interleave
at every `await` and every `yield`. That is where the errors are that unit tests
hardly reach, and what these specifications are about. An action is what runs
between two such points.

| Part | State | Operations | Talks to |
|---|---|---|---|
| **Background task engine** `background-tasks/in-process/engine.ts` | task records, FIFO queue, active executions with timers, idle waiters | submit, cancel, resume, remove, waitForIdle; return, cleanup and timeout of an execution | calls the manager's `execute`, reports updates |
| **Background task manager** `in-process/manager.ts` | live executions, submissions, task waiters | submit (once per tool use), wait, resume, remove | engine, plugin |
| **Background tasks plugin** `background-tasks.ts` | mirror of the tasks, persisted in app state | submitToolCall, delivery before a model call and after an invocation, recovery | manager, agent hooks, continuations |
| **Extraction coordinator** `memory/extraction/coordinator.ts` | message buffer; per store: mark, chain of saves, failure streak | record, process, flush; success and failure of a write | memory manager's hooks and triggers, stores |
| **Graph** `multiagent/graph.ts` with `queue.ts`, `nodes.ts` | targets, streams, queue of events and results, node states, results, steps | one invocation's main loop; node executions; hook gates; resume | nodes, hooks, the consumer of the stream |
| Swarm `multiagent/swarm.ts` | current node, hand-off, steps, history | sequential loop with limits | nodes, hooks |
| **Agent loop** `agent/agent.ts`, **interrupts** `interrupt.ts` | messages, interrupt state, cancel state, invocation lock | cycles of model call and tools, deferred append, continuations | model, tool executor, hooks, plugins |
| **Tool executors** `tools/executors` | pending tool generators, results | race or sequence of tools, interrupts | agent, tools |
| **Session manager** `session/` | latest snapshot, manifest | save on message, invocation or trigger; restore | agent hooks, storage |
| **MCP client** `mcp/client.ts` | connection state, generation, shared connect promise, names of the tools listed last | connect, reconnect, disconnect, list, refresh after a change, call | MCP server, the agent's tool registry |
| Model router and retries `models/routing`, `retry` | attempts, candidates used, switches | select, advance | agent hooks |
| Conversation managers | window of messages | trim, summarise | agent messages |
| A2A executor and lock `a2a/` | tail of the lock | acquire, release | agent |

What makes each of them correct:

- *Engine*: never more tools running than allowed, although a cancelled tool keeps
  running; no free slot beside a waiting task; no task that nothing will start;
  a finished task stays finished; nobody waits for an idle engine.
- *Coordinator*: each store gets every message it wants, in order and once per
  successful write, whatever fails; flush covers what was recorded; a store that
  comes back catches up.
- *Graph*: a node runs when its dependencies have completed, once, within the
  limit; an invocation ends and leaves nothing running; an interrupted one can be
  resumed; nothing is left out of a completed one.
- *Manager and plugin*: each result reaches the history once, across restarts; the
  plugin waits only for tasks that can end, and its wait ends.
- *Agent loop, executors, interrupts, session*: the history an idle agent or a
  session holds can be sent to a model; a batch of tools that was interrupted is
  resumed without running a finished tool again and appended once; a tool that a
  hook gates does not run before the answer; a cancelled pass ends.
- *MCP client*: an attempt under way does not undo a `disconnect`; no connection is
  left open; the agent ends up with the tools the server has.
- *Lock, router, swarm*: mutual exclusion in order; bounded rounds; bounded hand-offs.

The hazards of the code, each at its line and with the properties that would
catch it, are listed in `PROJECT.json`.

## 2. Modules

| Module | Models | Uses |
|---|---|---|
| `TaskPool` | what the engine promises: slots, and who is given one | |
| `TaskEngine` | the background task engine | refines `TaskPool` |
| `BackgroundTasks` | manager, plugin and continuations around the passes of an agent | `TaskPool` as the engine |
| `AgentLoop` | passes of an agent with executors, interrupts and a session | |
| `McpClient` | the client of a server of tools, and the agent that registers them | |
| `ExtractionCoordinator` | the extraction coordinator and its callers | |
| `Graph` | the graph orchestrator with its queue and its nodes | |
| `MCBackgroundTasks`, `MCAgentLoop`, `MCMcpClient`, `MCExtractionCoordinator`, `MCGraph` | values for model checking | the module of that name |
| `TaskEngine_proofs`, `TaskPool_proofs`, `BackgroundTasks_proofs`, `AgentLoop_proofs`, `ExtractionCoordinator_proofs`, `Graph_proofs`, `McpClient_proofs` | theorems and proofs | the module of that name, TLAPS |

Some definitions are marked as mutants in their comments: each changes the
operator it precedes the way a plausible bug would. They are used nowhere; with
one of them in place of the operator TLC finds the property violated that
`PROJECT.json` names for it.

### TaskEngine

`status` and `state` are the task records, `queue` the insertion-ordered `Set`,
`execution` the map of active executions refined by where each one is, `timer`
its timeout, `waiter` the callers of `waitForIdle`. A task and its execution are
separate on purpose: `cancel` and the timer finish the task at once, while the
execution keeps its slot until the tool returns.

`StartQueuedTasks` is the loop of `_startQueuedTasks`; it runs inside `Submit`,
`Resume` and `Settle`, as in the code, and never on its own. `ExecutionReturns`
is the microtask in which `options.execute` settles and `_finishOutcome` runs;
`Settle` is the `finally` callback some microtasks later. Cancel, submit, resume
and remove may come between the two; a timer cannot, being a macrotask. A tool
may end with any result and any set of interrupts; `Resume` answers any of them.

### TaskPool

The engine as its caller sees it: each task's status and the set of tasks that
occupy a slot. `Enter` and `Queue` are a submission or a resume that finds a slot or
does not, `Stop` an execution that ends or times out, `Withdraw` a task that is
cancelled before it starts, `Release` and `HandOver` the return of a slot, to nobody
or to a waiting task, `Remove` the removal of a record. A cancelled task keeps its
slot. `TaskEngine` implements it (`ImplementsPool`, with the slots of the active
executions as refinement mapping), which is checked and proved; `BackgroundTasks` is
built on it instead of on the engine.

### BackgroundTasks

`micro` is the queue of microtasks: `onTaskUpdated` of the manager, with the record as
it was, and what runs after an `await` of the plugin. The agent goes on only when its
own continuation comes out of it, so the plugin's `mirror` lags behind the engine's
`status` by as much as in the code; an engine step may come at any moment (`MaxMicro`
bounds how many). `pc` is the place in a pass: its start, where a hook may deny it
(`Deny`) or the continuation of the pass before is appended, the top of a cycle, where a
limit ends it, before the model call (resume the answered tasks, gate, deliver), the
model call, dispatch, after the invocation (deliver, wait, decide whether to go on).
`cancel` tells the agent's own cancellation, which the next pass resets, from the
caller's `cancelSignal`, which aborts every further pass of the request. `limit` says
that a limit of the request is reached, from a moment that is left open on. `taken` are
the results in the continuation between the hook and the append; `saved` is the latest
snapshot, from which `Restart` restores mirror, history and interrupts into a new
process, with the tasks that were unfinished recovered as failed.

`queued` and `working` are one value of the mirror, since the plugin treats them
alike; the removal from the manager and the deletion from the mirror are one step,
between which nothing else runs. What uses a limit up is not counted. Tools in the
foreground and batches are in `AgentLoop`, the policy of dispatch and the texts of
results are left out. That a hook denied the pass is a `result` of its own, `denied`,
though the caller is told `endTurn`.

### AgentLoop

One pass after the other of `stream`, with everything between two yields as one
action. The history is kept as its last message and whether every tool use before it
has its results, which is what the properties tell apart. `pending` is the batch that
an interrupted pass leaves behind: the tool uses, the results it has, whether the
gate of the batch had interrupted. `call` is the state of each call under either
executor; `Launch`, `Start`, `Return`, `ExecutorDone` and `BatchEnds` are the
concurrent or sequential executor, `ReturnInVain` a generator whose executor is
already being closed.

A consumer may stop (`Break`) at every yield: the generator's `finally` blocks then
drain the rest of the pass, as `_streamCore` does, and the same actions go on with
nobody reading (`reader` is "gone"). `Cancel` is `agent.cancel` or a signal, `Crash` the
death of the process after which a new agent is restored from `saved`. `SaveOn` is
`saveLatestOn`; `BatchGated` says how often a `BeforeTools` hook may interrupt;
`BreakAt` are the yields at which consumers may stop.

### McpClient

`calls` is where each user of the client is in `connect` or `listTools`: the agent's
`initialize`, the refresh, and the application. `attempts` is where each connection
attempt is in `_connect`, apart from the callers, since a caller may give up while its
attempt goes on; `shared` is the one whose promise `_connectionPromise` is. The
generation is kept as "the captured one is the current one" (`fresh`), which
`Disconnect` takes from everybody at once. `links` are the vendor's clients, which an
attempt replaces if the transport was built from a url.

`HandleToolsChanged`, `Refresh` and `ReplaceTools` are the refresh; `registered` is
`_registeredToolNames`, the names a refresh takes off, `registry` what the agent has.
The server, the connection and the order of answers are external and may do what a
network does: refuse, break, answer late, and lose a notification with its connection.
What runs in the microtasks after a promise settles is one step with it; sessions for
tasks, calls of tools, names and filters are left out.

### ExtractionCoordinator

Messages are their sequence numbers, so a set of numbers stands for the ordered buffer.
`Extract` is the turn of a queued save up to its awaited write, which `WriteSucceeds` or
`WriteFails` ends together with the trimming in the `finally` block. `queued` and
`batch` are the chain of saves of a store. `flush` keeps, of the promises it waits for,
how many are not settled and whether `_chains` has changed since. `log` and `saved` are
history variables, and so is `robbed`: the stores one of whose failed writes found that
a sibling had trimmed what it carried. A write with an extractor succeeds or fails as a
whole, as `_write` reports it.

### Graph

`pc` is where the main loop of `_stream` waits: at the top of its loop, in the
scheduling loop, draining the queue, or settling in the `finally` block. `phase`
is where each node's `_streamNode` is, in particular which acknowledgement it
waits for. The status of a node changes when its handler ends, its result is
recorded when the main loop takes it off the queue: the two are apart by several
steps, in which everything else may happen.

- `Schedule` takes one target; the hooks before a node may gate it (`Gate`).
- `Emit`, `EndHandler`, `Deliver` are the node's side; `HandleEvent`,
  `Acknowledge`, `HandleResult`, `HandleError` the loop's.
- `Unwind` is the start of the `finally` block. It acknowledges what is queued;
  `Settled` then waits for the nodes in `streams`.
- `Break` is a hook that throws or a consumer that stops reading.
- `Invoke`, `InvokeAgain`, `Resume`, `ResumeRejected` start an invocation, fresh
  or on the kept state of an interrupted run. The history variable `startedOver`
  remembers that one on kept state found nothing to resume and began with the
  sources again; `ExecutedOnce` and `DependenciesFirst` are not claimed of it (end of
  section 4).

Two simplifications. `FindReady` reads all statuses at once, where the code may
await a condition handler between them; a dependency that completes meanwhile
delivers its own result later, and the code looks again then. `Acknowledge` waits until the
node acknowledged before has delivered: in the code a hook call and a turn of the
consumer lie between two acknowledgements, and a delivery takes a few microtasks.

Edges are triples of source, target and a number, and the sources are a list, because
the constructor rejects a second node of the same id but neither parallel edges nor
repeated sources (graph.ts 670-710). `FindReady` returns edges for the same reason: its
targets are queued once for each. The first start of a node that is still in `streams`
overwrites the entry of its other execution (384); the model stops there, with `pc` at
`overwritten`, since executions have no identity but their node from then on.
`SimpleGraph` says that a graph has neither; all runs use such graphs, and all theorems
but `TypeCorrect` are about them.

## 3. Runs

| Run | Instance | Shows |
|---|---|---|
| `TaskEngine` | 3 tasks, 2 slots, 2 interrupts, 2 waiters, timeouts | slots, queue, timers, waiters; every queued task starts; refines `TaskPool` |
| `BackgroundTasks` | 2 tasks, one of which asks, 1 slot | delivered once, nothing forgotten, waits that end |
| `AgentLoop` | batches of 2 calls, one gated and one that asks, both executors | valid histories, batches resumed and appended once, cancellation |
| `McpClient` | agent, refresh and one application; 2 lists of tools | disconnects hold, nothing leaks, the agent follows the server |
| `Mcp_relisted` | the same | *violated:* a refresh takes the wrong names off |
| `Extraction` | a failing and a healthy store, 3 messages | order, retry, flush, recovery |
| `Extraction_lost` | the same | *violated:* a failed write loses messages |
| `Graph` | 5 nodes: a join, a branch with a condition, 3 sources, 2 slots | executions, results, order, once; when an invocation ends |
| `Graph_interrupted` | a source that interrupts | *violated:* the invocation hangs |
| `Graph_abandoned` | a consumer that stops | *violated:* the invocation hangs |
| `Graph_left_out` | a source that interrupts | *violated:* a node is left out |
| `Graph_stale` | a hook that interrupts twice | *violated:* interrupted with nothing to resume |

**Bounds.** *Engine:* three tasks and two slots are the smallest engine in which a
waiting task, a disowned execution and a running one exist together.
*BackgroundTasks:* one slot makes the second task wait for the first; engine steps wait
while two microtasks are pending (`MaxMicro`), so that an update, a continuation and a
further update can meet. The number of passes and of restarts is not bounded (556,834
states).
*AgentLoop:* a batch of two calls, of which a hook gates one and the tool of the other
asks, has every combination of finished, interrupted and waiting; the gate of the
batch interrupts on its first execution only, consumers may stop at every yield but
the two that append the batch, and the session saves at the end of invocations. The
last three are the exceptions described at the end of section 4. The number of passes,
cancellations, breaks and crashes is not bounded (848,851 states).
*McpClient:* two lists of tools that alternate are enough for a tool to be dropped
while another is added; two vendor clients are the current one and the one before.
One application and one attempt at a time: the second attempt that two reconnecting
callers can start, and everything after a connection has leaked with a url
(`Explored`), is not followed. The options are those of a url that may fail and of a
transport that must not (3,378,007 states up to symmetry).
*Extraction:* `SaveFailuresBeforeBackoff` is 2 instead of 10 and the probe interval 2:
the counters matter only against these limits, and the model keeps them saturated and
reduced modulo the interval. Three messages (`MaxMessages`) give a batch that fails,
one that is added while it is in flight, and one after; one save (`MaxQueued`) waits
behind the running one, since one that finds nothing new changes nothing.
*Graph:* more sources than slots make a target wait, and two parents of one join
complete in either order or together; `MaxSteps` is 6 so that it is reached only by
resuming. The number of invocations is not bounded (29,257 states). Six steps are too
few to start over on kept state after everything has completed; the theorems are
about every limit.

`CHECK_DEADLOCK FALSE` is set for the graph only, because its main loop may really
stop: a graph that hangs is what `InvocationEnds` is about. The other
specifications never stop.

**Fairness.** *Engine:* microtasks run (`Settle`, `CheckIdle`) and a tool returns, which
is the engine's own assumption, since it offers no other way out than an abort signal.
Callers promise nothing. *BackgroundTasks:* microtasks run and the agent goes on; that
tools return is a hypothesis of `WaitEnds` only. *AgentLoop:* the loop goes on where it
can; that includes that a model call ends and a tool that runs returns. *Coordinator:*
saves take their turn, a store answers every write, either way, and triggers keep
firing, as they do while the agent is invoked; recovery is claimed only if from some
point on writes no longer fail. *Graph:* the main loop goes on when it can, and a
handler ends however many events it yields first (strong fairness, since each event
disables it for a while). Hooks, consumers, timers and callers promise nothing.
*McpClient* has safety properties only.

## 4. Findings

Six runs end in a violation that a comment or a test of the repository excludes.

1. **Messages lost by a failed save** (`Extraction_lost`; coordinator.ts 218, 273,
   334-343). A mark moves before the write and is put back if it fails, but another
   store's trim reads it in between and drops messages that were not saved.
   `FailedSaveIsRetried` says that nothing else loses a message: only a store whose
   failed write had been trimmed by a sibling misses any.
2. **A graph waits for ever after an interrupt** (`Graph_interrupted`; graph.ts 349,
   356, 390). With targets left and nothing running, `queue.wait()` has nobody to
   wait for, and neither the timeout nor the cancel signal is looked at.
3. **A consumer that stops in the middle of an event hangs** (`Graph_abandoned`;
   graph.ts 392-397, 455-456). The event is off the queue and not acknowledged.
4. **A node left out** (`Graph_left_out`; graph.ts 413, 321-331): successors of a node
   that completed after another one interrupted never run.
5. **Interrupted with nothing to resume** (`Graph_stale`; multiagent.ts 180-207): a
   hook that interrupts the same node in two runs leaves a stale result behind.
6. **A dropped tool stays registered** (`Mcp_relisted`; client.ts 738-740, 764-766,
   agent.ts 875-878): any plain `listTools()` moves the names that the next refresh takes
   off the agent's registry. A listing by the application between a change on the
   server and the refresh, 300 ms later, makes the refresh remove the new names.

`EndsUnlessStopped` says that findings 2 and 3 are the only ways in which an invocation
of a graph does not end, `FreshDownstreamRuns` that a node is left out only by finding
4, and `AgentFollowsServer` that without another listing the agent follows the server.

Met while modelling, described here because no run stands for them:

- An invocation with plain input on the kept state of an interrupted graph in which no
  node is ready (all have completed, with a stale interrupted result, or a condition
  no longer holds) begins with the sources again and keeps the old statuses (graph.ts
  331, 836-846, where the log says that it starts fresh). With more sources than slots
  a join may then be queued on the earlier COMPLETED of a parent that still waits,
  run while that parent executes again, and run a second time when it ends, although a
  node runs "only when all incoming edges" are satisfied (graph.ts:121).
- A consumer that stops while a batch is pending makes the drained loop enter the
  batch again (agent.ts 1506-1524, 1910-1917). A hook that interrupts there is only
  logged, and the gated tool may run unanswered; interrupt.ts:9 says that interrupts
  pause execution. `GatedToolsWaitWhileRead` is stated for streams that are read.
- A `BeforeTools` hook that interrupts a *resume* stores `completedToolResults: {}`
  (agent.ts 2764-2768), so that tools which had finished run again, although the
  interrupts guide (`site/.../interrupts.mdx`:239) says that they do not. `RunOnce` is stated
  for gates of a batch that interrupt once. A hook that cancels a resumed call
  replaces its finished result in the same way.
- A consumer that stops at the second of the two yields that append a batch
  (agent.ts 1938) leaves the batch pending, and a resume appends it again; one that
  stops at the first (1937) leaves a tool use without results, as does a crash
  between the two with `saveLatestOn: 'message'` (session-manager.ts 188).
- A pass that is cancelled while a background task waits for input sets
  `event.resume` (background-tasks.ts 275-278), so another pass starts. After
  `agent.cancel()` the cancellation is reset (agent.ts 1262), and the invocation ends as
  `interrupt` instead of `cancelled`. The caller's `cancelSignal` is composed into every
  pass (1263-1265) and stays aborted: the next pass is cancelled at the top of its first
  cycle (1725), before a turn is counted (1734), and sets `resume` again, so that
  cancelled passes follow each other without end, although the option's comment says that
  the agent stops and returns `cancelled` (types/agent.ts:118-119). `CancelEndsWaiting`
  says that every cancelled pass ends, and that the invocation does too unless a task
  waits for input.
- Two ways in which an invocation returns `endTurn`, uncancelled, and leaves results of
  background tasks behind: a `BeforeInvocation` hook denies its last pass (agent.ts
  1284-1307), after which what the `AfterInvocation` hooks took is abandoned (1376) and
  `resume` is ignored; and a limit is reached while a task waits for input, so that
  `_shouldResume` (971-977) refuses the pass that would ask. The results stay with the
  plugin and are delivered in a later invocation. `NothingOwedAtEnd` excepts exactly these two.
- With two edges between the same nodes `_findReady` returns the target twice (graph.ts
  883-893), and with a source listed twice an invocation begins with it twice. The node
  runs twice in the invocation; if the first execution still runs, `streams.set` (384)
  replaces it by the second, and it may then outlive the invocation and exceed
  `maxConcurrency`. `ExecutedOnce` and `NoOrphanedExecution` are therefore about simple
  graphs.
- Two callers of `connect(true)` that wait for the same attempt both start one
  (client.ts 573-590), on one client; the second fails, and with `continueOnError` the
  client says `failed` over an open connection. A `connect` that starts while
  `disconnect` awaits may have its `connected` overwritten (660). A `connect()` right
  after a `disconnect()` shares the attempt from before and fails with it.
- A notification that comes after `disconnect` connects the client again, and a
  reconnect does not list the tools again, so changes of the time between are known
  to the agent only after the next notification. Two agents that share a client
  overwrite each other's `onToolsChanged`.

## 5. Proofs

`TaskEngine_proofs` proves, for every finite or infinite set of interrupts and
waiters, every set of tasks and every positive `MaxConcurrency`:

| Theorem | Establishes |
|---|---|
| `TypeCorrect` | `TypeOK`, with the rule when a record carries interrupt state |
| `SlotsCorrect` | `PhysicalBound` |
| `NoSlotStaysFree` | `WorkConserving` |
| `QueueCorrect` | `NoStrandedTask` |
| `AbortCorrect` | `DisownedToolsAreAborted` |
| `WakeupCorrect` | `NoLostWakeup` |
| `TerminalCorrect` | `TerminalIsFinal`, an action property |

The assumptions are those `TaskEngine` declares: the limit is a positive number
(the constructor rejects others), and the marker for a missing state is not an
interrupt.

The inductive invariant `IInv` joins the type invariant, `Consistent`,
`WorkConserving` and `NoLostWakeup`. None of the properties is inductive alone: that
starting tasks keeps the limit needs the queue to hold distinct tasks that are not
executing; that they are not executing needs what each status says about the
execution; and that a queued task outside the queue is "settling" needs to know
who may still be "running". `Consistent` states these relations over a queue, a map of
executions, the statuses and the timers that need not be the current ones, because
`StartQueuedTasks` is entered in the middle of an action with values no state ever
has. The lemmas `...KeepsConsistent` treat one action each; `WithProperties`,
`WithoutProperties` and `SliceProperties` say what the queue operations do. That
`WorkConserving` survives rests on a lemma's assumption that holds in each of its
uses: at most one task can start that could not before.

`TaskPool_proofs` proves that the engine implements the pool (`PoolImplemented`): with
the invariant above, every step of the engine is a step of the pool or leaves the
slots and statuses alone. The only step that is not immediate is the return of a
slot, `Release` or `HandOver`: that at most one waiting task starts follows from
`WorkConserving`.

`BackgroundTasks_proofs` proves, for any tasks, number of slots and bound on
microtasks, under `BackgroundAssumption` only:

| Theorem | Establishes |
|---|---|
| `ResultsDeliveredOnce` | `DeliveredOnce` |
| `NoResultForgotten` | `NothingForgotten` |
| `PluginWaitsForKnownTasks` | `WaitsForKnownTasks` |
| `OnlyTheWaitingAsk` | `AskedWhileWaiting` |
| `NothingIsOwed` | `NothingOwedAtEnd` |
| `NobodySleepsForever` | `SomeoneWakes` |
| `TypeCorrect` | `TypeOK` |

One inductive invariant, `Delivery`, carries the first two: a result is in exactly one
of four places, which are the engine's record, an update in the microtask queue, the
mirror, or the history, also in every snapshot (`QueueOK`, `UpdatesOK`, `MirrorOK`,
`DeliveredOK`, `SavedOK`). The third rests on `Memory`: what the mirror shows as
running the engine has a record of, with what the pass has still to ask for.

That nobody is asked again (`OnlyTheWaitingAsk`) is about a mirror that lags behind. The
invariant `Asks` says of the mirror (`MirrorAsks`) and of every update in the queue
(`UpdatesAsk`): where it shows a task waiting for input, the task does wait and nothing
later is queued about it, or a later update of the same task is followed in the queue by
the agent's own continuation. So when the agent goes on, what it reads is true of the
tasks, and while it is interrupted nothing about the tasks it asks for is on its way
(`RaisedOK`). `NothingIsOwed` joins `PaidOK` (an uncancelled pass decides to end only
with an empty mirror, or with the limit reached and a task waiting for input) with
`Delivery`, which says that a task the mirror does not know is unsubmitted or delivered.
`TypeCorrect` comes last, since the bound on the slots needs to know which engine step
each action takes (`OccupiedStep`).

`NobodySleepsForever` has no counterpart among the runs' properties: it is the safety half
of `WaitEnds` and `CancelEndsWaiting`, which TLC checks under fairness. A wake-up would be
lost if the mirror showed a task active that has ended and of which nothing more is
said. `Informed` excludes that: what the mirror shows is the task's status and nothing is
queued about it, or the last update queued about it says the status. `Slotted` adds that a
task waits for a slot only while all are taken, `Wakeful` that an agent that awaits has
its turn in the queue. The last update of a task is stated as one after which the queue
has no other of it (`LastOf`), so that no induction over the queue is needed.

`AgentLoop_proofs` proves, for any tools, gates, executors and yields at which
consumers stop:

| Theorem | Establishes | Under |
|---|---|---|
| `TypeCorrect` | `TypeOK` | |
| `HistoryStaysPaired` | `PairedHistory` | saves at the end of invocations, no stop between the appends |
| `BatchAppendedOnce` | `AppendedOnce` | the same, and no stop before the batch is cleared |
| `AppendedResultsAreReal` | `ResultsAreReal` | |
| `InterruptedAgentsResume` | `InterruptedCanResume` | |
| `ToolsRunOnce` | `RunOnce` | gates of a batch interrupt once at most |
| `GatesHold` | `GatedToolsWaitWhileRead` | |

Each has an invariant of its own on top of `TypeInv` (`Paired`, `Once`, `Real`,
`Resumable` with `SnapshotResumable`, `RanOnce` with `SnapshotUngated`, `Gated`), since they
are about different parts of the state; a `...Frame` lemma says of each what it
depends on, so that the actions that touch nothing of it need one line. Every
property that speaks of an agent must also hold of the snapshot it may be restored
from: `SavedStep` says that a snapshot is only taken of a state in which the invariant
holds. The hypotheses in the last column are in the statements of the theorems; end
of section 4 says what happens without them.

`ExtractionCoordinator_proofs` proves, for every set of stores, every filter, every
choice of failing stores and every positive backoff setting:

| Theorem | Establishes |
|---|---|
| `TypeCorrect` | `TypeOK` |
| `OrderCorrect` | `SavedInOrder` |
| `RetryCorrect` | `FailedSaveIsRetried` |
| `HealthyCorrect` | a store whose writes succeed misses nothing |
| `AloneCorrect` | a store that is alone misses nothing, however its writes fail |
| `FlushCorrect` | `FlushCovers`, an action property |

The inductive invariant joins `TypeOK`, `Ordered` for every store and
`UpwardClosed`. `SavedInOrder` alone says nothing of a store that is not writing;
`Ordered` says that what a store has acknowledged ends at `Low`: its mark, or the mark
its running save found, to which a failure goes back. `UpwardClosed` (the buffer holds
every message from its oldest on) makes the highest fresh message the last one
recorded, so no fact about finite sets is needed, and is what a trim preserves
(`TrimKeeps`). Completeness is one lemma, `StepKeeps`: every step keeps what a store
has not missed, unless it robs the store. A store that cannot fail is never robbed; a
store alone is not either, because only its own settled saves trim. A failing store
with a sibling may be, and that is the first finding.

For `FlushCorrect` the invariant `FlushInv` says what the promises that `flush` took are
worth while it waits. They are saves of the store that are queued or running, all of them
as long as no save was added. The last one starts after the flush was called, so that
while it runs and after it has succeeded the store is covered: it has, or is being given,
what was recorded before (`Covered`). A save that fails uncovers it, and no promise is
left then; `failures` is not zero until a later write succeeds, and that one takes
everything from the mark on, which `FailedSaveIsRetried` says is enough.

`Graph_proofs` proves, with cycles or without, for every `MaxConcurrency` and
`MaxSteps`, whatever handlers, gates, timeouts and consumers do:

| Theorem | Establishes | Under |
|---|---|---|
| `TypeCorrect` | `TypeOK` | every finite graph |
| `ExecutionsAreTracked` | `NoOrphanedExecution` | `SimpleGraph` |
| `ResultsAreComplete` | `ResultsComplete` | `SimpleGraph` |
| `NoneIsLeftOut` | `FreshDownstreamRuns` | `SimpleGraph` |
| `NobodyWaitsForNobody` | `SomeoneGoesOn` | `SimpleGraph` |
| `RunsOnce` | `ExecutedOnce` | `SimpleGraph`, `SourcesAreRoots` |
| `RunsInOrder` | `DependenciesFirst` | `SimpleGraph`, `SourcesAreRoots` |

`SimpleGraph` is a finite graph without parallel edges and repeated sources, which the
constructor does not promise (section 4). In one, a list of targets never has a node
twice, nor one that is in `streams`, and so no execution is overwritten.
`SourcesAreRoots` says that sources depend on no node. It is what `_resolveSources`
finds by itself; configured sources may differ. `Tracked` says where a node in
execution is: in `streams`, and not yet at the end of the queue; with the types it is
inductive, and the first two theorems follow. `Reported` follows a result from the
handler's end over the queue to the bag of results. The order needs `Handled` (the
event of a node that has ended is in the queue or being handled) and `InOrder`. Its
heart is a relation between the two ends of an edge, in three stages: before a node
has answered nothing behind it was tried (`Early`); from then on a successor that
another parent made ready may run, but has not delivered (`Answered`); so that its
result lies behind its parent's in the queue, and it is still in `streams` when the
parent's result is handled and `FindReady` looks at it (`Late`). `ReadyIsFresh` draws
the conclusion. Without the guard of `Acknowledge`, that deliveries come before the
next acknowledgement, `Answered` would not hold.

`NoneIsLeftOut` rests on `Discovered`: while a run is not interrupted, a node whose
dependencies have completed, one of them in this invocation, was tried, is in `targets`,
or has a dependency still in `streams`, whose result was not handled yet. The last of
its dependencies to be handled is the one whose `FindReady` puts it into `targets`; a
run that was interrupted keeps an interrupted result, and so does not complete.

`NobodyWaitsForNobody` has no counterpart among the runs' properties: it is the safety
half of `EndsUnlessStopped`, which TLC checks under fairness. Where the main loop waits
for its queue, some node runs or is about to deliver, except for a run that was
interrupted with targets left; where the unwinding waits for the streams, every one of
them ends by itself, except the one that waits for the event that was being handled. The
two exceptions are the findings of `Graph_interrupted` and `Graph_abandoned`, so the
theorem says that these are the only situations in which everybody waits for everybody.
The invariant `Going` matches the nodes that wait for an acknowledgement with the events
in the queue or being handled, one each (`Answerable`).

`McpClient_proofs` proves, for any callers, lists of tools and options, any number of
attempts and vendor clients at once, and without the constraint of the runs:

| Theorem | Establishes |
|---|---|
| `TypeCorrect` | `TypeOK` |
| `DisconnectIsHeld` | `DisconnectHolds` |
| `AgentIsUpToDate` | `AgentFollowsServer` |

`DisconnectHolds` has two halves with an invariant each. `Asked`: whoever may still make
the client connected (an attempt of the current generation, a caller that waits for one
or was just told of its end) was asked for after the last disconnect. `Alone`: as long
as attempts and disconnects have not overlapped there is one attempt at most, none but
the present client is open, and an attempt dials that one. `Following` is the invariant
of the third: whatever the agent lacks, something is on its way that will say so, which
is a notification, a round of the refresh that is yet to list, or a refresh that has not
listed; and an answer that is outdated on its arrival is followed by one of these. Its
exceptions, a notification lost with its connection and a list taken beside the agent,
are those of the property. It is proved once for all steps in which neither the server
speaks nor anything is listed (`ConnectionFollowing`).

Model-checked only: the liveness properties (`QueuedEventuallyStarts`, `CancelEnds`,
`CancelEndsWaiting`, `WaitEnds`, `OutageRecovers`, `EndsUnlessStopped`), which rest on
fairness and are out of the provers' reach.

## 6. Not modelled, and the plan

Of the modelled parts: structured output, checkpoints, retries of model calls,
middleware, direct tool calls and redaction in the agent; immutable snapshots and
triggers of the session manager; the submissions table of the task manager; calls of
tools and task sessions of the MCP client; snapshots of multi-agent state.

What could follow, in this order:

1. An abstract schedule of a directed acyclic graph that the graph implements, with the
   invariants of `Graph_proofs`.
2. *Swarm, AsyncLock, Router* with the retry strategy; the lock implements an abstract
   queue lock.
3. The conversation managers' trimming as operators on bounded histories.

Out of reach of the provers, and left to TLC: liveness under fairness, and anything
that needs induction over data.

Not planned, for lack of state or of interaction: storage, sandboxes, model
providers, telemetry, hook and tool registries, the context manager, the harnesses,
the command line, the documentation server and the site. The Python SDK is a second
implementation of the same design and would need specifications of its own.
