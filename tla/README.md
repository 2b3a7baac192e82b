# Verification of oh-my-pi

TLA+ models of the concurrent core of oh-my-pi, a coding agent: the loop between
user, model and tools (`packages/agent`), the background jobs of a session and how their
results reach the model, forced tool choices, the ways a session gets to its file or its
database (`packages/coding-agent`), swarms of agents (`packages/swarm-extension`), and the
event queue of robomp, the GitHub bot that drives the agent (`python/robomp`). TLC checks
the models on small instances; TLAPS proves most of the safety properties for every value of
the bounds: those of the tool batch, the agent's loop, the job manager, session persistence,
session storage, the yield queue, forced tool choices, swarms and robomp's queue.

Contents: 1 the system, 2 the modules and how they follow the code, 3 the runs, their bounds
and the fairness, 4 what is proved, 5 what the code does against its own words, 6 what is not
modelled, 7 the plan.

## 1. The system

### 1.1 Components, state, operations

| Component | Source | State | Operations |
|---|---|---|---|
| Tool batch | `agent/src/agent-loop.ts` `executeToolCalls` | one promise per call, `lastExclusive`, `sharedTasks`, `interruptState`, `steeringCheck`, the records with their results | run a call, emit its result, look for steering messages, join a look, sweep |
| Agent and its loop | `agent/src/agent.ts`, `agent-loop.ts`, `ai/src/utils/event-stream.ts` | transcript, steering and follow-up queues, `isStreaming`, `#abortController`, `#runningPrompt`; per run the context, pending messages, retry count and event stream | prompt, continue, steer, followUp, pop, clear, abort; poll, turn, stream, tools, yield; consume events, settle |
| Background jobs | `coding-agent/src/async/job-manager.ts`, `tools/job.ts`, `tools/bash.ts`, `sdk.ts` | `#jobs`, `#suppressedDeliveries`, `#watchedJobs`, `#evictionTimers`, `#deliveries`, `#inFlightDeliveries`, `#deliveryLoop` | register, end, cancel, poll, acknowledge, deliver with retry, drain, evict, dispose |
| robomp queue | `robomp/src/queue.py`, `db.py`, `slot_pool.py`, `worker.py`, `server.py` | rows of `events`; `_inflight`, `_wakeup`, `_cancelled`, `_cancel_hooks`, `_shutdown_cancelled`; free slots; worker threads | record, claim, put back, run, cancel, replay, re-trigger, stop, crash, restart |
| Session persistence | `coding-agent/src/session/session-manager.ts`, `session-storage.ts` | entries in memory, `#flushed`, `#needsFullRewriteOnNextPersist`, the writer, the promise chain of tasks; the session file, its backups | append in place, rewrite, ensure on disk, flush, close, crash, recover |
| Session storage | `session/indexed-session-storage.ts`, `redis-`, `sql-session-storage.ts` | index, chains of operations by path, writers, first error of a drain | write, append, rename, unlink, delete, read, flush, drain |
| Yield queue | `session/yield-queue.ts`, `agent-session.ts` | entries by kind, pending idle flush; prompts in flight, their generation, post-prompt tasks | enqueue, idle flush, flush at a yield, prompt, abort |
| Forced tool choices | `session/tool-choice-queue.ts`, `tools/resolve.ts`, `agent-session.ts` | directives, the one in flight | push, next, resolve, reject, requeue, remove |
| Swarms | `swarm-extension/src/swarm` | dependency graph, in-degrees, waves; status of pipeline and agents, `pipeline.json` | find cycles, divide into waves, run a wave, record, abort |
| Session tree | `session/session-manager.ts` | entries with parents, leaf | branch, compact, rebuild a context |
| Workflow | `workflow/scheduler.ts`, `runner.ts`, `run-store.ts`, `patches.ts` | queue of activations, state, checkpoints, graph revisions | activate, join, patch, pause, resume |
| Goals | `goals/runtime.ts` | the goal with its budget | start, pause, account, finish |
| Subagent tasks | `task/parallel.ts`, `task/executor.ts` | pool of workers, semaphore | acquire, release, abort |

The remaining packages (providers, MCP/LSP/DAP clients, tools, terminal interface, memory
store, native code, statistics) are listed with the reason why they have no model in
`PROJECT.json` and in section 6.

### 1.2 How they interact

A prompt starts a **run** of the agent. The run has two halves that only share an event
stream: the loop, which asks the model and executes tools, and the consumer, which builds the
transcript. A turn with tool calls goes through a **tool batch**, which polls the agent's
steering queue after each call. The bash tool can leave work to a **background job**; when the
job ends, the manager hands its result to the session (`onJobComplete` in `sdk.ts`), which puts
it on the **yield queue**; `onBeforeYield` of the loop empties that queue into the agent's
follow-ups, or an idle flush starts a run. The job tool, itself a call of a tool batch, polls
jobs and acknowledges what it reports. Each request of the loop takes the next **forced tool
choice**; the session settles it in a listener of `turn_end` that first awaits the hooks of
extensions. Every message that is appended goes through **session persistence**: a line written
in place, or a rewrite of the whole file queued on a promise chain, over the file system; or,
through the same interface, over **session storage**, which answers from an index while its
operations are on their way to Redis or SQL. A **swarm** runs whole agents, each a subprocess,
in waves given by a dependency graph. Everything so far shares one JavaScript thread: a step
is what runs between two awaits, and any other step may come in between.

**robomp** runs the agent as a subprocess per GitHub event. Its dispatcher and its tasks share
an asyncio loop; each turn is driven by a worker thread that shares the cancellation tables
with the loop. Only the rows of the events table survive the process.

### 1.3 What is hard

* *Interleaving at awaits.* A queue is emptied when a look starts and its answer is used when
  the look comes back; a call that joins the look gets an answer older than itself. A session
  that drains deliveries takes them from under the loop that sleeps on them. A finally block
  runs after listeners had their turn.
* *Two threads.* `_arm_cancel` reads one table and writes another while the event loop writes
  and reads them; cancelling a task does not stop the thread it waits for.
* *Failure in the middle.* A stream may fail before its first event, half way, or with events
  still queued; every tool call must have its result all the same. A line may be written in
  part, and the next one is appended to what there is. A rename in a backend may lose the time
  it was to take along, and say nothing.
* *Identity.* Job ids are reused, rows of one delivery are replaced, one poll's mark on a job is
  taken away by another poll.
* *Optimism.* An index is changed before its operation is sent and put back when it fails, with
  other calls in between; an entry is appended to a file that a queued rewrite is about to
  replace.
* *Crash and restart.* A row is claimed before its task exists; stop() interrupts tasks at any
  await. A file is replaced by two renames where one is refused, and the process may die
  between them.
* *Counting and settling.* A count of prompts in flight is reset by an abort while the prompts it
  counts are still unwinding; a choice in flight is settled by a listener the run does not wait
  for. An abort waits twice, for the run and for the goal's accounting, before it resets and
  rejects, and what has begun in the second wait is hit as well.
* *Agreement of two algorithms.* Cycle detection and wave building are written apart.
* *Liveness.* A wake-up flag is cleared after the look it belongs to; a loop that is about to
  end still counts as running; dispose waits without a limit.

`PROJECT.json` lists each hazard at its line with the properties that watch it.

### 1.4 What makes each component correct

* Tool batch: exclusive calls run alone; a call starts only when the conflicting ones before it
  have finished; one result per call; no steering message lost, doubled or reordered; an abort
  ends the batch.
* Agent: tool calls and results stay paired in every request and in the transcript; no user
  message is lost or delivered twice; each message is answered; the two halves agree; a
  discarded response is never shown to the model; an abort ends its run.
* Background jobs: no result delivered twice or after a tool reported it; each result is
  reported; dispose returns.
* Session persistence: what is on disk survives rewrites, refused renames and crashes; the file
  has the entries in order without a gap; a flush that succeeds is durable; what belongs on disk
  gets there.
* Session storage: the index agrees with the backend once nothing is pending; a writer's lines
  have no gap; a read sees what was written before it.
* Yield queue: an entry is in one place; a session whose prompts are over is not busy; an entry
  gets told.
* Forced tool choices: a choice is served once, in its order, over aborts and failures; the
  handler of a preview is there while its tool runs; nothing stays in flight.
* Swarms: cycles are refused and nothing else is; an agent runs after all it waits for, whatever
  becomes of them; the final status is earned, and on disk; the run ends.
* robomp queue: one run per issue; rows agree with tasks; slots are not shared with stragglers;
  a cancelled run is not done; each queued event is worked off.

## 2. The modules

| Module | Models | Extends / instantiates |
|---|---|---|
| `ToolSchedule` | what a batch of tool calls promises, with no promises and no queue | |
| `ToolBatch` | `executeToolCalls` with the steering queue | `INSTANCE ToolSchedule` with a refinement mapping |
| `AgentLoop` | `Agent`, `runLoopBody`, `streamAssistantResponse`, `EventStream` | |
| `AgentLoop_proofs` | theorems about `AgentLoop` | `AgentLoop`, `TLAPS` |
| `AsyncJobs` | `AsyncJobManager` and its users | |
| `AsyncJobs_proofs` | theorems about `AsyncJobs` | `AsyncJobs`, `TLAPS` |
| `SessionPersist` | the persistence half of `SessionManager` over `FileSessionStorage`, with crashes | |
| `SessionPersist_proofs` | theorems about `SessionPersist` | `SessionPersist`, `TLAPS` |
| `SessionStorage` | `IndexedSessionStorage`, its writers and backends | |
| `SessionStorage_proofs` | theorems about `SessionStorage` | `SessionStorage`, `TLAPS` |
| `YieldQueue` | `YieldQueue` as `AgentSession` drives it | |
| `YieldQueue_proofs` | theorems about `YieldQueue` | `YieldQueue`, `TLAPS` |
| `ToolChoice` | `ToolChoiceQueue` with the turns, prompts and aborts around it | |
| `Tools_proofs` | theorems about `ToolBatch` and `ToolChoice` | `ToolBatch`, `ToolChoice`, `TLAPS` |
| `SwarmDag` | `detectCycles`, `buildExecutionWaves`, the dependency graph | |
| `SwarmPipeline` | `PipelineController`, `executeSwarmAgent`, `StateTracker` | `SwarmDag` |
| `SwarmPipeline_proofs` | theorems about `SwarmDag` and `SwarmPipeline` | `SwarmPipeline`, `TLAPS` |
| `RobompQueue` | `WorkerPool`, the events table, slots, worker threads | |
| `RobompQueue_proofs` | theorems about `RobompQueue` | `RobompQueue`, `TLAPS` |

`map` in `PROJECT.json` gives the source lines of every definition. In all modules a step is
the code between two awaits (or, in a worker thread, between two accesses to shared tables),
and the user's operations are actions that may come between any two steps. Operators named
in a comment "Mutant of ..." are deliberate errors, used to show that a property notices
them; no specification uses them.

### 2.1 ToolBatch and ToolSchedule

`pc[i]` follows the promise of call i: `waiting` behind `Preds(i)`, `running` its tool,
`checking` (its own look at the queue is pending), `joined` (it waits for the look of another
call), `settled`. `Preds(i)` is the chain the scheduling loop builds: an exclusive call waits
for the last exclusive call and the shared ones since, a shared call for the last exclusive
one. `Finish(i)` is the rest of `runTool` after the tool returns or throws: it emits the result
(a placeholder if the batch was interrupted meanwhile) and enters `checkSteering`, without an
await in between; emptying the queue happens there, storing the answer in `CheckDone`.
`Return` is `allSettled`, the sweep, and the return. Concurrency modes, interrupt mode and
steering mode are chosen in `Init`, so that one run covers all of them.

`ToolSchedule` says only: a call begins when every earlier *conflicting* call has finished and
the batch is not interrupted; it gets one answer; the batch closes with placeholders.

### 2.2 AgentLoop

`run[r]` is a record with the loop's half (`at`, `ctx`, `pending`, `hasMore`, `retry`, ...), the
stream (`events`, `closed`) and the consumer's half (`consumer`, `partial`). `at` names the await
the loop stands at: `poll`, `turn`, `request`, `streaming`, `tools`, `yield`. Text is abstracted
to numbers: a user message is its number, a response its turn and how many calls it makes, a
result the call it answers. `Finalize` is all that follows a final response, with the
placeholders and the end of the run. `Consume` and `Settle` are the for-await of `#runLoop` and
its catch/finally. The tool batch is reduced to what the loop sees: calls answered in any order,
perhaps a steering message; calls are answered one by one, so that events of the batch
interleave with the consumer.

A run may be asked for whenever `isStreaming` is off, from a listener of `agent_end` too: the
consumer's half of the old run then still has its finally block to come. That finally block says
that the agent does not stream, while the new run does, so that a third run may start beside a
run that is at work (`AtWork`: not over, with more left than its finally block); the history
`crossed` remembers that it happened.

A leaked response (`HarmonyTarget`) leaves the context and is retried at most twice. That the
detector finds a leak is a choice.

### 2.3 AsyncJobs

A job is one registration; its id may be handed out again after eviction, and every table is
kept by id, as in the code. `status = "finished"` stands for completed and failed. `RunLoop` is
`#runDeliveryLoop` from the top of its while to its next await; `loop = "exit"` is the time
between the loop's last test and the settling of its promise, in which `#deliveryLoop` is still
set. A drain by a session may take any queued delivery: owner filters are subsets of the queue,
and every subset is covered. `EndHandOver` is the end of `onJobComplete`, which looks at the
suppression once more after formatting, or its failure, which queues the delivery again.
`waiter` holds the jobs whose starting tool (bash with auto-background) still waits for the
result. `retried` marks deliveries whose next attempt lies in the future.

### 2.4 RobompQueue

`row`/`arrival` are the events table in the order of `received_at`. `disp` follows the
dispatcher: `top`, `claimed`, `empty`/`backoff` (it still holds the lock), `sleep`. `task[e]` is
`_run_event`: waiting for a `slot`, `prep`aring, `await`ing its thread, `release`. `thread[e]` is
`_run_rpc_blocking`: `pre` (bringing the subprocess up), `checked` (`_arm_cancel` has looked at
`_cancelled` and not yet stored the hook), `working`, and its outcome. `Finally` is the finally
clause up to the wait for the lock; a thread that is still alive stays behind it. `Restart`
forgets everything but the rows and resets the ones found running.

`cancel_event` adds to one table and pops from another; it is one action although the thread may
look in between, because each order of the thread's look and store against the two writes has
the same outcome as one of the orders the model has. The semaphore that replaces the slot pool
outside containers is the same model with slots nobody runs under.

### 2.5 SessionPersist

A file is an inode with the `lines` the loader can read; `primary` and `backups` say what the session's path and its
`.bak` paths mean, and a rename changes that and not what an open descriptor writes to. `age` is
the order of modification times (`<<j, i>>`: inode `i` was last written no earlier than `j`), by which
`recoverOrphanedBackups` picks the newest backup.
`chain` is `#persistChain`, its tasks `rewrite`, `ensure`, `close` and `flush`; `task` says where
the first of them stands: a rewrite closes the writer, takes its snapshot, writes a temporary
file, renames it, and takes the detour over a backup when the rename is refused (EPERM). `AppendEntry`
is `_persist`: the hot path writes a line through the writer, the cold path queues a rewrite. Any
file operation may fail (`MaxFaults`), the sync of a flush included, which sets `#persistError` for
good. `Crash` forgets the process, `Restart` is the next start on the same file.

`AppendLine` has the outcomes of `writeLineSync` (`session-storage.ts:84`): the line is there; the open
fails; the write fails with nothing written, or with a part, a fragment without its newline that
nobody cuts off. `torn` are the files that end in one. `#persistError` keeps this process from
appending more, but the next start takes the file as it is (`flushed`), and its first append is
joined to the fragment: the loader skips that line. It is the lenient loader of
`utils/src/stream.ts`, on a parser of the runtime, and modelled by what it does. A process killed
between two writes of one line leaves the same fragment; in the model that is a failing write
followed by a crash. A fragment that lacks nothing but its newline could be read and is counted
among those that cannot; what is appended to it is lost all the same.

Histories: `written`, what a finished rewrite or a hot append has written; `glued`, the entries that
were joined to a fragment and not rewritten since; `overlapped`, an entry was appended while a
rewrite had its snapshot and not yet its rename.

### 2.6 SessionStorage

`ops` are the operations in the order they were queued, each with the operations it waits for
(`Previous`: the tails of its paths at that time), and `state` where each stands. `calls` are the
asynchronous calls with the point they stand at (`at`); each step of a call is the code from one
await to the next, so that two calls of one path interleave. Readers and flushes wait for what was
queued when they were asked for. A backend operation succeeds, fails, or fails when part of it is
done (`BackendFails`); a writer that has lost a line refuses those behind it. The rename of the
Redis backend has one more outcome, `MoveUntimed`: the file is moved, what goes wrong with the times
after that is caught and logged, and the operation is done (`redis-session-storage.ts:149`). What
time the file has then is `OldTime`: the one recorded for that path before, or what `loadIndex` falls
back to where there is none. Histories: `clobbered`, a failure left something behind that its call does
not take back, or took back more than its own; `untimed`, the paths whose file was moved there
without its time and has not been given one since.

### 2.7 YieldQueue

`entries` and `idleFlushPending` are the queue. `idleTask` is the flush that is scheduled a
millisecond later; `maintenance` stands for the other post-prompt tasks, which may start a
continuation. `prompts[p]` follows a prompt from its setup over its run to the recovery behind it;
`generation` and `inFlight` are what `abort()` bumps and resets under prompts that are still
unwinding. `run` is the loop of `AgentLoop`, reduced to the two places where it looks at this queue,
`RunYields` (`onBeforeYield`) and `RunPolls`. Histories: `told`, `suppressed` (the model fetched the
result with a poll), `missed`: entries the code leaves to a run that may never come.

### 2.8 ToolChoice

`queue` holds directives with the choices they have yet to yield; `inFlight` and `inFlightOf` the
choice taken and the label its directive has by now. `turn` follows a request: `Request` takes the
choice, and the answer, an error, a leak or an abort ends in a `turn_end` whose listener is an
element of `ending` until the hooks it awaits are through (`TurnEndHandled`). `RequestLost` is a
request that ends without `turn_end`.

A prompt is set up (`setup`), and its run begins unless an abort has begun since: `AbortBegins` makes
of those that are being set up `stale` ones, as the generation does that `abort()` bumps and the
setup compares (`agent-session.ts:4344`, `4412`, `4468`, `4484`). A prompt that finds another's run
on tries again (`retrying`) and looks at no generation any more. `promptInFlightCount` is set to zero by
the end of an abort and by the finally of whatever prompt unwinds (`runner` is the prompt the run is
of). `abort` goes from `waiting`, for the run to be over, to `resetting`, where the goal's accounting is
awaited (`agent-session.ts:5043`), and from there to its end, which resets the count and rejects what
is in flight. A prompt that begins after the bump is not outdated by this abort: its run may be on
when the abort ends, and then it is its choice that is rejected.

Histories: `resolved`, the choices served in order; `lost`
and `overtaken` mark the behaviours in which a request was made while another one's choice was
still to be settled; `snatched`, the end of an abort has rejected the choice of the turn that is on. `ChoicesKept` counts where a choice is: in `resolved` (`Served`), in flight, and in
the queue (`Queued`).

### 2.9 SwarmDag and SwarmPipeline

`DagInit(mode)` is any definition of `AgentCount` agents with up to `MaxLinks` names in `waits_for`
and `reports_to`, the chain that sequential and pipeline mode add when nothing is declared
included. `Take` is one turn of the queue of `detectCycles`, in any order of the queue; `NextWave` one turn of
`buildExecutionWaves`. `HasCycle` is the reference: a set of agents each of which waits for one of
the set.

`controller`, `iteration`, `wave` and `unmarked` follow `run()`; `at[a]` follows `executeSwarmAgent` from
its first write to its last. `tracker` is the state in memory, `file` is `pipeline.json`, `writes` are the
snapshots on their way, which may arrive in any order. A write may fail, and have landed or not;
the log line that follows it is taken together with it. `targetCount` is `target_count`, more than
one in pipeline mode only. Nobody in the repository passes a signal to `run()`; `Abort` is there
because it is part of the controller's interface.

## 3. The runs

| Run | Shows | Distinct states, about |
|---|---|---|
| `tool_batch` | exclusivity, one result per call, no steering message lost, the refinement of `ToolSchedule`, and that an abort ends the batch | 120 000 |
| `agent_loop` | pairing, conservation, answers, agreement of the halves, over leaks too | 6 600 000 |
| `agent_loop_leak` | leaked responses: nothing torn off in a request, abort ends the run | 480 000 |
| `robomp_queue` | safety over cancels, replays, one stop or crash; every queued event is worked off | 177 000 |
| `async_jobs` | no result delivered twice or after a tool reported it; each is reported; dispose returns | 470 000 |
| `session_persist` | nothing saved is lost over failing operations and a crash, the file agrees with memory, flushes are durable, entries get written | 2 040 000 |
| `session_storage` | no gap in a writer's lines, index and backend agree at rest, reads see earlier writes | 3 130 000 |
| `yield_queue` | entries are accounted for and told, the session does not stay busy | 190 000 |
| `tool_choice` | choices are kept and in order, handlers in place, nothing left in flight | 9 450 000 |
| `swarm` | the two graph algorithms agree, waves are levels and followed, status earned and on disk, run() returns | 620 000 |
| `session_persist_lost` | an entry appended in place is lost (section 5); TLC finds it violated | |
| `agent_loop_partial` | a torn-off response is committed (section 5); TLC finds it violated | |

The type invariants (`TypeOK`, `PipelineTypeOK`, `ChoiceTypeOK`) hold in all these instances and are
proved for all modules, of `SessionStorage` as `QueueType` and `FilesOk`, which leave out the bounds that
follow from `MaxRequests`. They document the variables and are not among the properties of the runs.

### 3.1 Bounds

* `tool_batch`: `NumCalls = 4`, `MaxSteer = 2`. Four calls are the least for a chain with shared
  calls between two exclusive ones and a call behind them, where the nearest conflict is not
  the only one; with a second message one can be queued while the look for the first is pending.
  All but the liveness is proved for any number (section 4).
* `agent_loop`: two runs, so that `continue()` and a prompt after an abort or an error meet what
  the first run left; three messages, for one prompt and one in each queue; two responses of up
  to two calls, so that results may come in another order than the calls. Its model leaks
  (`HarmonyTarget`), so that a partial response can be committed. All its properties are proved
  for any number of each.
* `agent_loop_leak`: `MaxTurns = 4` allows a response, two retries and the leak that fails the
  run; `QueueMode = "all"`, while `agent_loop` has "one-at-a-time", so both are covered.
* `async_jobs`: two jobs reuse an id and overtake one another; two polls watch one job; one
  failed hand-over puts a delivery off and behind a later one. Its safety is proved for any number.
* `session_persist`: three entries, so that one may come before, in and after a rewrite; two
  requests, so that a rewrite has another one, a flush or a close behind it; three failing
  operations for the longest detour (rename refused, rename of the temporary file refused, backup
  put back); one crash, from which everything starts anew. A line written in part, a crash, a
  restart and the append that is joined to the fragment fit in, with a rewrite behind it. All but the liveness is proved for any
  number of each, and at least one entry.
* `session_storage`: two paths, for a rename from one to the other and back; one writer; three
  requests at once, the least for a call that fails, one that overlaps with it and a reader; two
  failures, so that a rename which has lost its time can be followed by a call that fails on the
  path. All its properties are proved for any number of each.
* `yield_queue`: two entries of two kinds, two prompts, one abort, one early end of a run and one
  continuation: a second prompt can be in its setup while the first one is aborted and unwinds.
  Its safety is proved for any number of each.
* `tool_choice`: two `/force` commands, one preview, three prompts (one that an abort outdates, one
  that begins while the abort waits, one that finds the other's run on), four turns (a forced tool
  that is aborted, the tool again, its "none", and one more), an abort and a request that throws or
  leaks. All of it is proved for any number of each.
* `swarm`: three agents are the least for a cycle beside or above an agent that is not in it, for a
  diamond's half and for two waves of different width; every graph with up to three links is a
  definition; two iterations, one failing write, one abort. Except for `PipelineReturns` its
  properties are proved for any number of each.
* `robomp_queue`: two events, which may be of one issue, where they serialize, or of two, where both
  can be at work; one slot, for which they wait; one replay or re-trigger and one restart. The run
  is about `EventuallyProcessed`, for which a third event adds nothing that the second does not do;
  its safety properties are proved for any deliveries, issues and slots.
* `agent_loop_partial`: one run, a prompt and a steering message, three responses: the least for a
  turn entered for a steering message whose response leaks.

Deadlock is checked in the runs of `ToolBatch`, `AgentLoop`, `AsyncJobs` and `RobompQueue`. `Done`,
`Idle` and `Quiet` stutter only where the system really rests: a batch that has returned, an agent
with no run going on, a manager that was disposed of, a queue without work. The other modules
have `CHECK_DEADLOCK FALSE`: a session whose user asks for nothing more, a process that found
no session to go on with, and a swarm whose run() has returned do stop there. The bounds on user
actions (`MaxMessages`, `MaxJobs`, `MaxRequests`, `MaxReplays`, ...) limit how much the environment
does, never what the program does with it; the exception is `MaxTurns`, which limits how often the
model is asked: a run that would ask once more stays at "request", where it can still be aborted or
fail.

### 3.2 Fairness

* JavaScript: a continuation that is ready runs (weak fairness of the steps of the loops). A
  model call or a tool may take for ever; only once its abort signal has fired is it assumed to
  settle, as providers and tools are written to. Users are never fair.
* `AsyncJobs`: a job settles once it is cancelled; a poll has a time limit
  (`async.pollWaitDuration`, five minutes at most); a hand-over comes back. `LongRetention` says
  that the retention time (five minutes, the default and the only value `sdk.ts` uses) is longer
  than a cancelled job takes to settle, a hand-over takes, and a poll waits. The code does not
  enforce it. Without it a job that outlives the eviction of its id evicts, when it settles, the
  running job that has the id now; the hazard list says so.
  `CallbacksDone` is the rule of the event loop that promise callbacks run before timers.
* `SessionPersist`: a file operation comes back (`TaskStep`), and a session that crashed is opened
  again (`Restart`).
* `YieldQueue`: timers fire, the provider answers or fails (`RunStep`), post-prompt tasks, setups and
  aborts end. `SwarmPipeline`: an agent comes to an end and a write comes back; an agent that
  hangs is not ended by the controller.
* `RobompQueue`: the ten-second timeout of the wait makes `WakeUp` fair without a signal. A
  worker thread ends at the latest by its hard timeout. Slots and the lock are handed out first
  come first served (`asyncio.Queue`, `asyncio.Lock`), which justifies strong fairness of
  `AcquireSlot` and `Release`. A stopped process is started again (the restart policy of the
  compose file).

### 3.3 What some properties leave out on purpose

* `ToolPairing` and `TranscriptMatchesContext` speak of conversations that are `Orderly`: no torn-off
  response has been committed (`NoPartialCommitted`, the finding of `agent_loop_partial`), and no two
  runs have written the transcript side by side (`crossed`). After either, what the transcript says
  is no longer the conversation of one loop. `EveryPromptAnswered` and `NoPartialInRequests` need only the
  former; `MessagesConserved` needs neither.
* `NoStraggler` speaks of the time until `stop()` starts to interrupt tasks: in that phase a slot may
  go to a waiting task while a thread of the old one is about to bring its subprocess up.
* `CancelledNeverDone` says that a cancelled run is not recorded as done, not that it ends early or is
  never resumed (section 5).
* `TranscriptMatchesContext` speaks of loops that ended regularly; of a stream that failed it is
  `EveryPromptAnswered` that says what the transcript must hold.
* `ReportedNotDelivered` ends with dispose, which throws the acknowledgements away. The liveness of
  deliveries is stated under `LongRetention`.
* `SavedSurvives`, `FileMatchesEntries` and the other properties of `SessionPersist` except
  `HotAppendSurvives` leave out behaviours that are `overlapped`: there the loss of section 5 has happened.
  They except the entries in `glued`, which are lost as section 5 tells, `FileMatchesEntries` by saying
  nothing while one of the entries in memory is among them. What they say is that a fragment
  costs no other entry, neither one before it nor one behind it, and that a rewrite brings back the
  one it has cost. `FileMatchesEntries` and `EntriesGetWritten` are silent once persistence has failed
  (`#persistError`), `FlushIsDurable` about a flush that throws.
* `IndexAgreesAtRest` leaves out `clobbered` behaviours: an operation that failed half done, or a
  rollback that restored the entry remembered before its await over a write that succeeded since. Of
  the paths in `untimed` it says that the file is there and how long it is, not when it was written.
* `UnmissedGetTold` leaves out entries in `missed` (section 5).
* `NoBusyForEver` bounds the count of prompts in flight from above. That the session is busy while a
  prompt is at work is not claimed: it is not so (section 5).
* The properties of `ToolChoice` leave out `overtaken` behaviours: a request made before the listener
  of the turn before has settled its choice, which takes a slow hook, a request that threw or a
  leaked response; or the end of an abort that rejects while such a listener waits. `HandlerInPlace`
  leaves out the turn whose choice the end of an abort has taken (`snatched`); the other three hold
  there too: the choice is put back once, and the listener finds nothing to settle.
* `StatusIsEarned` says nothing of a run that was aborted, and blames an agent only where no write
  failed. Results of tools are opaque to `ToolBatch`, and no property says what they are worth.

## 4. What is proved

### 4.1 Tools_proofs: the batch

For every `NumCalls \in Nat \ {0}` and `MaxSteer \in Nat` (the two assumptions of `ToolBatch`,
nothing else):

* `TypeCorrect`: `Spec => []TypeOK`. `TypeOK` is inductive. The steps that need an argument are
  the look at the queue (`DequeueType`) and the sweep (`TypeReturn`).
* `ChainCorrect`: `Spec => []ChainInv`: a call that has left `waiting` has every earlier
  conflicting call settled. `ExclusiveRunsAlone` is not inductive: it says nothing about a call
  that is about to start. The code chains a call to the *nearest* conflicts only (`Preds`), so
  `ChainInv` is not the guard of `Start` either: take an earlier conflict that is not in
  `Preds(j)`; then an exclusive call stands between the two; the last such call is in `Preds(j)`, so it
  is settled, so it has left `waiting`, and by `ChainInv` for it the earlier call is settled as
  well (`ChainSuffices`). That there is a last one among finitely many calls is `MaxExists`.
  Settled calls stay settled (`ChainStep`).
* `ExclusiveCorrect`: `Spec => []ExclusiveRunsAlone`, from `ChainInv`: of two calls in flight the
  later one has left `waiting`, and the earlier one is not settled.
* `ScheduleImplemented`: `Spec => ScheduleSpec`, the refinement. `waiting` maps to `pending`,
  `settled` to `finished`, the rest to `active`. `Start` maps to `Begin` or `Drop`, and needs
  `ChainInv` since the abstract guard names all earlier conflicts; `Finish` maps to `Answer`,
  `CheckDone` and `JoinDone` to `Finish`, `Return` to `Close`; the user's steps stutter.
  `AnswerInv` says which calls have a result at each `pc`.

### 4.2 SwarmPipeline_proofs: the graph

For every number of agents and every graph (`AgentsAssumption` only):

* `NeverStuckCorrect` and `RejectsCorrect`: the two algorithms agree, and cycle detection is right
  on every graph and for every order of the queue. The invariant (`DetectionInv`) says that an
  in-degree counts the dependencies not yet sorted (`CountInv`), that the queue holds exactly the
  unsorted agents without such a dependency (`QueueInv`), that what sorted agents wait for is
  sorted (`ClosedInv`), and `GroundedInv`: among any sorted agents one waits for none of the
  others. An empty queue with agents left over is a set in which each waits for another of it
  (a cycle, by `QueueInv`); with all agents sorted `GroundedInv` says there is no cycle, and for
  the agents still to be put in a wave that one of them is ready (`SomeoneReady`), so that
  `buildExecutionWaves` never gives up.
* `LevelsCorrect`: `WavesAreLevels`. `LevelsInv` adds that `completed` is the union of the waves and
  that whoever is left was not ready for the last wave.
* `TypeCorrect`: the types, for which an in-degree that is lowered must be positive, hence `CountInv`.

### 4.3 SwarmPipeline_proofs: the pipeline

For every graph, every `target_count`, and any number of failing writes (`PipelineAssumption`):

* `DagUnderPipeline`: `Spec => DagSpec`, so the theorems about the graph hold of the pipeline.
* `AfterDependenciesCorrect`, `WavesDoNotOverlapCorrect`, `FileIsFinalCorrect`, from `PipelineInv`:
  `ProgressInv` (agents of earlier waves are through with the iteration, those of later waves
  have not begun), `BusyInv` (only agents of the wave that is on are busy), `WriteInv` (whoever has a
  snapshot on its way waits for it, and a last write of the controller is the state it ends in),
  `LayeredInv` (run() begins with its waves complete). `AfterDependencies` needs
  `LevelsCorrect`: what an agent of the wave waits for is in an earlier wave.
* `PipelineTypeCorrect`, with `IterationInv` for the count of iterations.

* `StatusIsEarnedCorrect`, from `EarnedInv`: whoever is through with his run has one result
  (`ResultsInv`); while nobody aborts, each agent has as many outcomes as there were iterations
  (`LengthInv`), because an iteration goes through all waves and every agent is in one (from
  `LayeredInv` and `LevelsInv`); so the verdict, which is passed on all outcomes (`VerdictIsDue`),
  is about all agents and all iterations.

### 4.4 AgentLoop_proofs

For any number of runs, messages, responses and calls, either queue mode, and models whose
responses are checked for leaks or not (`BoundsAssumption`):

* `TypeCorrect`, with `LoopInv`, on which all the others rest: where a run is and whether it is begun,
  open, over (`Phases`); a call is answered once (`CallsOnce`); the response that is streamed or
  executed is the last message of the context (`InTheMaking`), so that taking the last message away
  takes away that response and nothing else.
* `NoPartialInRequestsCorrect`, from `ShownInv`: the context but for the response in the making is whole.
  It is needed between requests as well, since a context that is not sent now is sent later.
* `ToolPairingCorrect` and `TranscriptCorrect`, from `OrderInv`. Its core is `InStep`: the conversation the
  run at work has so far (`Conv`: its context, without the response in the making, with the results
  that came) is paired, and it is the transcript followed by the messages whose end is still on the
  stream (`Follows`). Each step of the loop puts the same block of messages at the end of both; each
  step of the consumer moves the border between the two. A response that ends brings its
  results or placeholders as one block (`GoodBlock`, and `PairedConcat`: blocks that are paired are
  paired behind one another), and a batch whose calls are all answered has each once, in some
  order (`AllAnswered`, by counting). `Alone` says that only the last run is at work as long as
  nothing is `crossed`; `AtRest` that the transcript is paired between runs, from which the next one
  starts. `TornInv` tells what a run that ends leaves to the consumer: nothing torn off, unless a
  partial response is committed.
* `EveryPromptAnsweredCorrect`, from `AnswerInv`: a user message in the transcript has an answer behind
  it, or some run will bring one (`AnswerComes`): its answer is on the stream, or the run *owes* one,
  since it has more to do than look for messages, has failed, or leaves a torn-off response to
  commit (`Owes`). The same holds of the user messages on a stream (`UsersOnStream`). Each place at which
  a run may cease to owe, that is a final response, an abort, or the end of the run at `Yield`, has
  to be shown to have put an answer on the stream. It holds with runs that overlap, too.
* `MessagesAreConserved`: `MessagesConserved`, from `ConservedInv`. `Held` has the sequences a message of
  the user can be in: the two queues, the transcript, and of each run what it took for its next turn, what
  a batch found, and the messages on its stream. A message is in one of them at one position
  (`UserAt`), and what a step does to the positions is one of four things: a list leaves the front
  of one place for the end of another (`SomeMove`), one message arrives (`OneArrives`), some are taken
  back (`SomeLeave`), or nothing moves (`NothingMoves`); none of them loses or doubles a message.
  Of each step it is shown which one it is. What a run takes is only handed over if nothing is
  overwritten by it, and that is `HandsInv`: `pending` is empty except at "turn", `steering` except in
  "tools", the stream of an idle run is empty, and only a message's end carries it.

### 4.5 Tools_proofs: more of the batch

* `ResultsCorrect`: `OneResultPerCall`, from `AnswerInv`.
* `SteeringCorrect`: `SteeringConserved`. `SteeringInv` adds that only messages that were sent were
  withdrawn. The proof needs `LookCorrect`: looks at the queue are single-flight, and none is
  started or comes back after the batch has found messages (`LookInv`); otherwise one answer would
  overwrite another. A list is shown to stay without gap and repetition when a part of it moves from
  the queue to the batch, a message is appended, or one is taken back (`Conserves`).

### 4.6 RobompQueue_proofs

For all finite or infinite sets of deliveries, issues and slots, and any number of replays,
restarts and crashes (`ConstantsAssumption`):

* `TypeCorrect`, with `KnownInv`: only the dispatcher's claim makes a row claimed, and only a recorded
  row can be claimed or worked on.
* `OneRunCorrect`: `OneRunPerIssue`, from `EngagedInv`: an issue has at most one event that has a task or a
  thread; its key is in `_inflight` as long as the task is there; and a thread outlives its task
  only once stop() interrupts. `StopInv` says that the dispatcher, the only one to admit a task, is off
  by then.
* `RowsCorrect`: `RowsMatchTasks`, with `ClaimedInv`: what the dispatcher has claimed has no live task.
* `NoStragglerCorrect`, from `SlotInv`: a task has a slot from its preparation to its end, no two have
  the same, and its thread runs under it.
* `CancelledCorrect`: `CancelledNeverDone`, an action property, from `AskedInv`: a cancel that came while
  the task was alive stays known until its end.

### 4.7 AsyncJobs_proofs

For any number of jobs, ids, polls and failed hand-overs:

* `TypeCorrect`.
* `DeliveredOnceCorrect`, from `PlaceInv`: a result is in one place: not there yet, in the queue once,
  with one of the two that hand over, or told. Thirty actions touch the queue; `DeliveryStep` says what
  all of them come down to (`Takes`: something is taken out, the rest keeps its order), and
  `PlaceInv` is shown of that.
* `ReportedCorrect`: `ReportedNotDelivered`, under `[]LongRetention` (section 3.2), from `HomeInv` (a job that
  runs, or whose promise has not settled, is the one its id leads to; an eviction is only scheduled
  for a job that has ended) and `QuietInv` (what was shown is acknowledged until it cannot be delivered any
  more). Without the hypothesis the eviction of an id takes the acknowledgement with it.

### 4.8 SessionStorage_proofs

For any paths and writers, and any number of calls and failures:

* `ChainCorrect`: `TailInv` (the tail of a path is its last operation while that is queued) and `ChainInv`: an
  operation that is not settled has behind each later one on one of its paths another that waits
  on that path. It is proved by following the chain upwards: what an operation waits for settles
  before it (`InOrder`).
* `NoGapCorrect`: `NoGapInWriter`, with `WriterInv`: operations of a writer are on its path, and behind a
  failed one the writer knows of the error.
* `ReadsCorrect`: `ReadsWhatWasWritten`, an action property, from `ReadInv`: what was queued on the path
  when the read was called has settled, or the read waits for an operation behind it.
* `QueueTypeCorrect`, for the queue, the calls and the writers; `FilesCorrect`, for the files and for the
  paths of operations.
* `IndexAgreesCorrect`: `IndexAgreesAtRest`. The index is ahead of the backend by everything that is queued,
  so the invariant has to say what each entry will be. `AgreeInv` does so with one witness, `found`:
  for each operation ever queued, the index as it was then, which nothing in the program keeps.
  `Post(op, found[k], p)` is what operation k makes of path p, `Latest` the last one to wait for a path
  before a given number, and `Comes` says that a value is what that one makes of it, or, where nobody
  waits, what the backend has: for a path in `untimed` up to its time, which the witness has as if
  the rename had recorded it (`Matches`). Then
  - `FindsIt`: what an operation found in the index is what the backend will have when it is sent;
  - `TellsIt`: the index is what the backend will have when all are through, except on a path that a call
    whose operation failed has yet to take back (`Touches`);
  - `TakesBack`: there the entry the call remembers is what the backend has now;
  - `Remembers`: a call whose operation is queued remembers what that one found.

  A success makes of the files what `Post` says (`AppliedIs`, for each kind of operation), `MoveUntimed`
  but for the time of a path that is in `untimed` from then on, and by the
  chain it is the first on its paths (`FirstOnPath`), so what it found is what is there. After a failure
  that changed nothing, what matters is that no later operation has built on it. Where one has
  (`Doomed`), the rollback is going to be `clobbered`, because nothing can undo that
  (`OvertakenStep`), and nothing is claimed. `CallsInv` finds the call of each operation that no drain tells
  of. The proof is by cases of `IndexStep`, to which the twelve steps of a call, the four of an operation
  and the requests are first reduced (`IndexSteps`): one more operation, one that succeeds or fails, a
  rollback, and steps that leave index, files and chain alone.

### 4.9 YieldQueue_proofs

For any number of entries, prompts, runs, aborts and continuations:

* `TypeCorrect`.
* `BusyCorrect`: `NoBusyForEver`. The count of prompts in flight never exceeds those that will still lower
  it: each counted itself once, and an abort only resets it. It is an upper bound (section 3.3).
* `EntriesCorrect`: `EntriesAccounted`, from `EntriesInv`, which adds that the two kinds have no entry in
  common and that messages on their way do not either.

### 4.10 SessionPersist_proofs

For any number of requests, crashes and failing file operations, and at least one entry
(`BoundsAssumption`):

* `TypeCorrect`, from `TypeInv`. That a new file always finds an inode of its own is shown by counting
  (`CountInv`: each file was made by an entry or by a request, and tasks that have not written yet
  still have theirs to come). Of the ages `AgeInv` says that any files have a newest one, and
  `TornInv` that a new file does not end in a fragment.
* `SavedSurvivesCorrect`: what was written, except where it was itself joined to a fragment, and as
  long as no entry was appended behind the back of a rewrite (`overlapped`). From `DirInv` and
  `SavedInv`. `DirInv` is about the directory: an open descriptor is the session file's, and
  open only between rewrites; backups are older than the session file, and while it is moved
  aside it is the newest of them; the temporary file is the newest file of all and has the snapshot.
  So what a start after a crash finds is known after every step of a rewrite, the detour included.
  `SavedInv` says that what was written is there now and in what the file will be when nothing else
  happens (`Kept`: the snapshot from the moment it was taken).
* `FileMatchesCorrect`, under the same exceptions, and while persistence has not failed, from
  `KeptInv`: what the file will be is a beginning of the entries, and all of them once they belong on
  disk, or a rewrite is still to come that has not taken its snapshot (`RewriteToCome`). `WholeParts`
  says so where no entry in memory was joined to a fragment (`NoneJoined`, which lets the rewrite under
  way account for those it has copied); `NoneMissing` says of the general case that all the other
  entries are there. That no entry is joined to a fragment between the rename of a rewrite and its
  end is `SoundInv`: the file a rewrite has made does not end in one.
* `FlushCorrect`: `FlushIsDurable`, an action property, from the same and with the same exceptions: what a
  flush in the chain is to find on disk is in what the file will be, or a rewrite ahead of it is still
  to come (`FlushesInv`).

### 4.11 Tools_proofs: the forced choices

For any number of /force commands, previews, prompts, turns, aborts and faults
(`BoundsAssumption`). One invariant, `ChoiceInv` (`ChoiceInvariant`), carries all of it; every part of
it was checked by TLC before it was proved, and none is inductive without some of the others:

* `ChoiceTypeCorrect`, with `CountedInv` (a turn that is being answered has been counted) and `TodoInv` (a directive labelled as the todo call has
  only that to yield, so that removing it takes nothing else along).
* `NothingStaysInFlight`: `NothingLeftInFlight`. A run begins only where none is going on, but other
  prompts, and the end of an abort, may be anywhere while it is.
* `HandlerStaysInPlace`: `HandlerInPlace`, from `ServingInv`: while a turn is answered and its tools run, no
  listener is left that could settle its choice; the end of a prompt takes away nothing but the todo
  call; and if the end of an abort has taken its choice, `snatched` says so. Any prompts may be
  set up, wait, and unwind meanwhile.
* `ChoicesAreKept`: `ChoicesKept`, from `KeptInv`: a choice is at exactly one place, served, in flight, or
  queued. A choice is taken only when nothing is in flight, by the theorem above; a new one is nowhere
  before it is made, by `IssuedInv`.
* `ForcedComesBeforeNone`: `ForcedBeforeNone`, from `OrderInv`: wherever the tool and the "none" of a /force
  are, the tool comes first, within the queue, in flight or served. A "none" that is taken or put back
  finds its tool served, because `KeptInv` leaves it no other place.

The queue is a sequence of directives that hold sequences of choices. The proofs take it apart into
places (`At(q, i, j, c)`: directive i of q yields c as its j-th), say of each operation what becomes
of the places (`AppendIs`, `PrependIs`, `TakenPlaces`, `WithoutIs`), and from that what it keeps: a choice
that is `Nowhere`, one that is there `Once`, and two of which one is `Ahead` of the other. `removeByLabel` is a
filter; `Without` builds it by the rank of what stays (`Ranks`: ranks number any finite set of
positions without a gap), not by recursion, so that it can be reasoned about.

### 4.12 Only model-checked

* Liveness (`AbortEndsBatch`, `AbortEndsRun`, `EventuallyProcessed`, `EveryResultReported`, `DisposeEnds`,
  `EntriesGetWritten`, `UnmissedGetTold`, `PipelineReturns`) depends on fairness and on ENABLED, which the
  prover does not handle.

Every invariant and every action property of the passing runs is stated by a theorem.

## 5. Where the code departs from its own words

`session_persist_lost` shows the gravest: while a queued rewrite (a new session name, a second cold
rewrite) has taken its snapshot and not yet renamed its temporary file over the session's,
`_persist` opens a new writer on the old file and appends in place (`session-manager.ts:2782`). The
rename then replaces that file by the older snapshot; the writer goes on appending to a file that
has no name. The comment above (`session-manager.ts:2776`) says that such an entry survives a kill
that comes right after.

`agent_loop_partial` shows the other: the retry of a leaked response is a `continue` of a loop whose
condition no longer holds when the turn was entered for a steering message only
(`agent-loop.ts:554`, `agent-loop.ts:489`). The run goes on to its end, and the consumer commits the
torn-off response it was left with to the transcript, from where the next run sends it to the model.
`packages/agent/CHANGELOG.md:25` says that it is "aborted-and-retried by the existing mitigation instead
of being committed as-is".
As long as that has not happened, no request shows a torn-off response (`NoPartialInRequestsCorrect`).

Known from reading and modelling the code, without a run of their own:

* A call that joins a pending look for steering messages takes an answer from before its own end;
  a message queued in between does not keep the next call from starting (`agent-loop.ts:1081`
  against `agent.ts:685` and `types.ts:120`). `SteeringConserved` says that it is not lost.
* The agent stops being busy at `agent_end`, before listeners run, and the old run's finally
  clears what a listener's prompt has set up (`agent.ts:1024`): that run can then not be aborted
  or waited for, and a further prompt is not refused as `AgentBusyError` (`agent.ts:65`) says it is:
  it starts a run beside the one at work, and the two write one transcript (`crossed`). No message is lost
  over it, and each is answered (`EveryPromptAnsweredCorrect`).
* A line that was written in part stays at the end of the session file (`session-storage.ts:84`). After a
  restart the next entry is appended to it, `appendMessage` and a later `flush()` report no error, and the
  loader skips the joined line: the entry does not survive, against the same comment
  (`session-manager.ts:2776`), unless something rewrites the file. It takes a failing disk, or a kill
  between two writes of one line, and a restart. `glued` are these entries.
* A rename of the Redis storage that fails to record the time succeeds
  (`redis-session-storage.ts:149`): the index has the time of the source, and the backend another one or
  none until the file is written again (`untimed`).
* A failed operation puts the index entry back that its call remembered before its await, also over a
  write of the path that was queued since and has succeeded (`indexed-session-storage.ts:171`): the
  index is then behind the backend until the next `refresh` (`clobbered`).
* `abort()` rejects the choice in flight after it has awaited the goal's accounting
  (`agent-session.ts:5043`). A prompt that has begun since is not outdated by this abort; if its run is
  on, its choice is rejected, and a `resolve` call it was forced to make finds no handler
  (`snatched`). The choice is put back, so the next turn is forced again. The comment there speaks of
  runs that were aborted without an answer only.
* The count of prompts in flight is lowered by the finally of a prompt that an abort has outdated
  (`agent-session.ts:4494`), also when a new prompt has raised it meanwhile: the session then looks
  idle while that one is being set up, and a further prompt is let in beside it.
* A message steered during `onBeforeYield` is overtaken by a follow-up (`agent-loop.ts:654`).
* A result that comes after the last look of a run at the yield queue, or while a prompt is only being
  set up, or that an abort finds in the queue, is told by no one until the user starts another run
  (`yield-queue.ts:63`, `yield-queue.ts:112`), although `tools/bash.ts:466` and
  `prompts/tools/job.md:3` say that results are delivered automatically.
* `dag.ts:62` says that `detectCycles` returns the agents involved in cycles; it also returns those
  that only wait for one of them. A write that fails before an agent starts leaves it "running" in
  the state for good. An abort in the last iteration still ends in "completed" or "failed".
* `close()` returns at once when there is no writer, although a rewrite may be queued
  (`session-manager.ts:2502`).
* robomp: a cancel between the test and the store of `_arm_cancel` reaches neither (`queue.py:239`);
  the run goes on and is then recorded as failed (`CancelledNeverDone` holds). A thread whose task
  stop() has cancelled brings up its subprocess after stop() has returned (`queue.py:156`). stop()
  after an operator's cancel leaves the row running, and the next process resumes what was
  cancelled (`queue.py:286`). A claim whose issue is busy is put back and blocks younger rows of
  other issues until a wake-up (`_claim_next_unique` says it skips them). A cancel of an event
  that has ended stays in `_cancelled` and hits its next retry (`queue.py:259`).

## 6. What is not modelled, and why

Inside the modelled components:

* Tool batch: arguments, validation and transformation of results (data); telemetry. A task's
  promise does not reject: everything that can throw inside `runTool` is caught there.
* Agent: `reset()`, telemetry, the Cursor split of tool results, the branch that recovers a leaked
  response in place, responses without content (dropped by `agent.ts:1035`), and a stream
  that ends without a final event. The cap on tool calls of a response ends in the same states as
  a complete one.
* Background jobs: progress reports, names, a retention of zero (which `sdk.ts` never sets).
* Session persistence: what an entry says, the tree of entries (branches, compaction, rebuilding a
  context), moving a session to another directory, and blobs stored beside the file.
* Session storage: `refresh`, which only `initialize` calls, before any other call, and which gives
  the index that `Init` starts from; a crash of the process between two statements of a backend (a
  move in SQL is a DELETE and an UPDATE without a transaction, `sql-session-storage.ts:310`); what
  the files say.
* Yield queue: `clear()` at the end of a session, unregistering a dispatcher. A prompt that waits for
  the agent to fall idle is not told of an abort (`agent-session.ts:8155`); the model's prompt
  does the same, and no property speaks of it.
* Forced tool choices: `clear()`, which nothing calls, and what the callbacks do besides resolve.
  Prompts are the user's: hidden and automatic continuations, and a `continue` of the agent after a
  compaction, begin runs without a setup of their own. Aborts come one at a time; two that overlap
  would each wait, reset and reject.
* Swarms: reading the YAML definition, the display of a run, and what an agent's subprocess does.
* robomp queue: rows in state `skipped` (recorded and never claimed), the attempts counter, choice of
  model, garbage collection, and a database that fails: the dispatcher then ends until the process
  is restarted (`queue.py:207`).

Whole components: providers, credentials, MCP/LSP/DAP clients and evaluation kernels talk
to processes and services outside the repository; tools, modes, configuration and the terminal
interface are input and output; hash-line edits, compaction and the memory store compute over text and
numbers and keep no protocol between actors; `crates/brush-*` is vendored. These make up most of the
repository's lines, which is why the modelled share of all lines is small. Each is listed with its
reason in `PROJECT.json`.

## 7. Plan

Done, in this order: `ToolSchedule` and `ToolBatch`; `AgentLoop`; `RobompQueue`; `AsyncJobs`;
`SessionPersist`; `SessionStorage`; `YieldQueue`; `ToolChoice`; `SwarmDag` and `SwarmPipeline`; the
theorems of section 4.

Next:

1. Composition of `ToolBatch` and `AsyncJobs`: a poll whose result is replaced by a placeholder has
   acknowledged the results it was to report.
2. `WorkflowScheduler`, then runner and run store: joins fire once per combination, limits hold,
   a resumed run continues where its checkpoint was.
3. Pool and semaphore of `task/parallel.ts`; goals; the session tree.
4. Credentials: refresh and rotation of tokens across processes.
