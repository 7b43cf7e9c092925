# Anuki in TLA+

Anuki is a Node.js server that runs command-line agents (Claude, OpenAI, Ollama)
for its users: one process per message, in the conversation and the workspace of
an agent.  Agents may write to each other, the server may restart itself, and
everything happens on one event loop whose callbacks interleave at every
`await`, timer, child-process event and socket message.  This directory models
the parts of the server where those interleavings decide whether a message is
answered, answered twice, or lost.

Paths are relative to the repository's `src/`; `executor.js:1352` means line 1352
of `src/agent/executor.js`.

## The system

| Component | State | Operations | Talks to |
|---|---|---|---|
| AgentExecutor (`agent/executor.js`) | process, job, queue and lock maps, restart flag | execute, tryFinalize, retry, flush, abort, requestSafeRestart | everything below |
| MessageRouter (`agent/message-router.js`) | pending promises, timers, conversation cache, circuit breakers | sendMessage, retry, extend, give up, handle a response, sweep | executor, agent manager, policy |
| AgentSupervisor (`agent/supervisor.js`) | registered pids, circuit breaker per agent | canExecute, record, register, check resources | executor, watchdog |
| HealthWatchdog (`agent/health-watchdog.js`) | timers, statistics | kill zombies, sweep orphans, checkpoint | executor, supervisor |
| LaneQueue (`agent/lane-queue.js`) | queue per lane | enqueue, process, clear | (enqueue has no caller) |
| WebSocket gateway (`gateway/websocket-server.js`) | clients, resume buffers, pending completions | select, send, abort, broadcast | executor, conversations |
| HTTP gateway (`gateway/http-server.js`) | none of its own | routes | everything |
| PidRegistry, atomic writes, boot (`core/pid-registry.js`, `utils/atomic-write.js`, `index.js`) | files of child pids and of active jobs | register, orphan sweep, killAll, gracefulShutdown | executor |
| ConversationManager (`utils/conversation-manager.js`) | cached conversations, save timer | create, add, debounced flush, prune | gateway, router |
| MessagePolicy (`agent/message-policy.js`) | counters per sender | canSend | router |
| SharedContext (`agent/shared-context.js`) | namespaces, their files, flush timer | set, delete, evict, expire, flush | planner, executor |
| CronManager (`gateway/cron.js`) | jobs, tasks, one file | add, remove, enable, run | executor |
| GroupChat, TaskPlanner (`agent/`) | groups with history, plans with results | send, go round; plan, batch, hand on facts | router, shared context |
| WebhookManager (`gateway/webhook-manager.js`) | hooks, log, rates | receive, forward, retry | HTTP gateway |
| WorkspaceManager, SimpleAgentManager | `workspaces.json`, `agents.json`, directories | create, delete, rename, sweep, synchronise | nearly all |
| Sessions, output, compaction (`agent/executor.js`, `compactor.js`, `context-guard.js`) | session map and file, answer and tool history of a run, messages | resume, rotate, clear; parse; compact, recap | conversations |
| API providers (`agent/providers/`, `agent/tools/`) | messages of a run | request, stream, run tools, kill | executor |
| CognitiveMemory (`memory/cognitive.js`) | lines on file, index, caches, identity groups | store, search, invalidate, clean up, link | executor |
| Skills (`agent/skill-*.js`), ModelResolver | agents' skills, index, ratings; cooldowns | extract, refresh, rate; choose, fail over | routers, HTTP gateway |
| Usage and statistics, configuration, error analysis | three files with timers; `config.json`; reports | record, save; load, reload; analyse | executor |
| Security, storage, backup, logging, channels, PreventionGuard, AutoRouter | files, fixed lists | | |

`PROJECT.json` lists every source file under a component with its status.

What is hard: the executor decides from maps (`activeProcesses`,
`_workspaceLocks`, `_activeJobs`) that several callbacks write between the
decision and its effect; a killed process dies later than its entry; queues are
flushed only by exit paths that must not forget to; timeouts race answers;
delegation turns run outside their conversation; a restart or a crash may fall
between any two of these steps.

## Modules

* `AgentExecutor` - one action per stretch of JavaScript that runs without
  interruption.  The variables have the names of the maps; `stage` says where
  the asynchronous function `execute` stands with each request.  The source
  decides between the actions: `Execute` is the stale cleanup and the busy check
  (1341-1410), `Spawn` the registrations (1866-1939), `FinalizeWithOutput`,
  `FinalizeCancelled`, `FinalizeRetry` and `FinalizeFailed` the four exit paths
  of `tryFinalize` (2358-2882), `Complete` and `Delegate` what follows
  `_processToolTags`, `Abort` is `abort`, `FlushTimer` the 500 ms timer behind a
  cancelled run.  `Traits` gives each request the courses it may take, so that an
  instance can be small and still have retries, delegation turns, self-restarts,
  failed spawns and compaction waits.
* `RequestService` - what the executor promises its callers, as a state per
  request.  `AgentExecutor` implements it (`ServiceSpec`): the mapping is
  `Status`, from `stage` and the number of final callbacks.
* `AgentRuns` - what the rest of the server sees of the executor: runs that begin, take
  the entry of their conversation, lose it (to an abort, a cleanup or another run)
  and end; `isProcessActive` and `abort` look at entries only.  `AgentExecutor`
  implements it too (`RunsSpec`, mapping `RunOf`), and the router is built on it.
* `Delegation` - one chain of agents that wait for each other: the checks of
  `sendMessage` and the context each agent is started with.
* `MessageRouter` - the blocking call: its promise, its entry with the timer it
  holds, the tracked conversation, the retry, and the breaker per target.  The
  executor is an instance of `AgentRuns` with a run for each attempt of a message.
* `Supervision` - the circuit breakers with their clock, the pid an agent is
  tracked by, and the watchdog's check, driven by runs that start, fail, are
  retried, refused or cancelled.  A run here is what the supervisor is told of
  it: `Spawn` and `SpawnError` (1866-1912, 2895-2906), the three outcomes of
  `tryFinalize` (2402-2550) and the decision to retry (2744).  Breakers are
  records transformed by operators named after their methods (`Checked` is what
  `canExecute` leaves, `RecordFailure` what `recordFailure` and the `canExecute`
  behind it leave).  Pids are finite and are given again after a reap.  Failures
  are kept by age, newest first; `Tick` ages all of them.

Processes and delivery:

* `Lifecycle` - the server and the agent processes it leaves behind: children.json,
  the sweep at boot and by the watchdog, `killAll`, shutdown with clients that
  leave and a second signal, messages that wait for an agent, crashes, writes of
  children.json that fail.  The operating system gives free pids to anybody.  `Fake` is
  the pid -1 under which every run of an HTTP provider is registered
  (openai-provider.js:381, ollama-provider.js:395): a SIGTERM to it reaches every process of
  the user (`Reached`), the SIGKILL that follows goes to the group of it only, which is
  process 1 and out of reach of the normal user the server is taken to run as.
  `lifeMisled` remembers that the registry may hold such an entry, or one of another's
  process, without a run of its own, and `SparesOthers` is about everything before that.
* `LaneQueue` - one lane: the processing loop, timeouts, late ends, retries,
  clearing, the watchdog's cure.
* `RunOutput` - what `execute` makes of the events a run prints: text as deltas and
  in whole messages, uses and results of tools, the tool history, the zombie guard.
* `Provider` - the agentic loop of the OpenAI and Ollama providers, up to the
  'close' event they imitate.
* `Sessions` - the map of resumable sessions: records held and changed by
  reference while the map is pruned, cleared, saved (or not: the write may fail) and
  loaded.  A run is given a session in one of three ways: `Begin` is a message with the
  session its conversation has kept (`sessConv`, written by `TellConversation`,
  websocket-server.js:445-463), `Flush` one from the queue of a run that is over, with that
  run's session, whosever the message is (executor.js:4096), and `Retry` one without.
  `sessMixed` remembers the conversations a `Flush` has given a session of another.
* `Gateway` over `Conversations` - connections that select, send, send again, delete
  and leave; callbacks of the runs; the replay buffer.  `Conversations` is the
  manager's cache as a value with its operations: for each id the workspace, the
  messages and the conversations that were created before it, which is all the
  choice of the canonical one looks at.
* `Webhooks`, `GroupChat`, `TaskPlanner`, `ErrorAnalysis` - deliveries with retries, rounds of
  a group, plans with their facts, analyses that are runs themselves.

What is kept:

* `ConversationFile` - conversations.json: cache, debounce, one temporary file,
  inodes, synchronous flush, load.
* `Registry` - agents.json, workspaces.json and the directories.  Handlers are
  synchronous, so each is the sequence of disks it leaves behind and a crash or an exception
  cuts the sequence anywhere; any write of the two files may fail besides, after which
  `disk` (what the program has in memory) and `file` (workspaces.json) differ until the
  list is read again or saved; boot is a step for the sweep, one for each agent it
  synchronises (in any order) and one for the default agent.
* `SharedContext`, `Cron`, `Config`, `Statistics` - files behind timers; written in place
  or atomically as the code does, with failing and torn writes.  The failures are
  swallowed as in the code: what is in memory stays there, a timer that was cleared is not
  set again, and a file written in place may be left empty (`UsageSaveFails`,
  `SaveStats`, `SaveOutputs`).
* `Memory` - lines on file, the index, the caches; `Skills` - agents.json, the index of
  skills, the ratings, with writes that fail; `ModelResolver` - cooldowns and the two strategies;
  `MessagePolicy` - the counters; `Compaction` - compaction and recap as operators
  from messages to messages, applied to a conversation that grows.

Composition:

* `MCServices` and `MCStores` put these components into one specification each.
  The components share no variable (where two of them touch, one carries what it
  sees of the other, as `Gateway` does with the executor), so the specification is
  their sum: `part` says whose behaviour it is and the others rest in their initial
  state.  Of a product, which would only interleave steps that cannot see each
  other, nothing would be learnt.  The properties there are conjunctions by theme
  of the components' own, which their modules state and comment one by one.
* Router and executor are composed through `AgentRuns`: the executor's side is shown
  for all its requests, the router's for the attempts of its messages, and
  `CallersSeeRuns` (below) says that the former gives the latter.
* `MCAgentExecutor`, `MCDelegation`, `MCMessageRouter`, `MCSupervision` - constants for
  TLC.
* `AgentExecutorProofs`, `AgentExecutorSafety`, `AgentExecutorRefinement`,
  `DelegationProofs`, `SupervisionProofs`, `MessageRouterProofs`, `StoresProofs`,
  `ServicesProofs` - theorems.

## Runs

| Run | Instance | Shows |
|---|---|---|
| `conversation` | 3 requests in one conversation, one retry, every course | process map, PID registry and queue stay exact, callbacks fire once, `RequestService` and `AgentRuns` are implemented |
| `workspace` | 2 conversations of one workspace, a cron request for an unknown workspace, restarts | every lock has an owner that will release it; no job record belongs to a run that completed or failed; only a delegation turn makes `execute` throw a message away |
| `served` | one conversation, one retry, aborts, a failing spawn, fairness | a queue always has somebody to flush it; every message is answered or dropped by an abort |
| `oneprocess` | 3 requests, one conversation | *violated*: two CLI processes at work in a conversation |
| `stranded` | 2 conversations, one workspace | *violated*: queued messages nobody will flush |
| `delegation_names` | 2 agents, one named | *violated*: a loop closed through a name |
| `router_delivery` | 3 messages to one agent, one retry, threshold 2 | one timer per waiting call, answers come from agents, breaker and count agree, calls settle, no attempt is run twice |
| `router_tworuns` | one message | *violated*: a retry beside a run that is still alive |
| `supervision_breaker` | 2 requests of one agent, 2 pids, thresholds of 2, backoff 1 to 2, window 2 | breakers follow their window, failures are recorded once, ghosts come from cancelled runs only and are cleaned, circuits are probed |
| `supervision_unrecorded` | one request, every kind of error | *violated*: a rate limit that is neither retried nor recorded |
| `services` | the eleven services with an end to reach, and delegation of 5 agents by id, 2 hops | what comes twice is taken once; later steps know what came before; faults do no more harm than the code accepts; files catch up unless the write fails; work and processes end; delegation contexts are true, bounded and free of loops |
| `stores` | the ten components that keep something | files, registries and memory agree unless the last write failed; caches and indexes are current; what was deleted stays away; answers land beside their questions, in their own context but for shared queues; limits hold; housekeeping spares |

Why the bounds suffice.  Three requests are what the races need: one that ends,
one that arrives in between, one that waits.  One retry exercises the first,
the last and the refused attempt.  Two conversations of one workspace are the
smallest instance in which conversation and workspace disagree; a written
workspace id that resolves to another one needs two ids.  Delegation is a stack:
`MaxDepth` 2 and five agents let a chain reach the limit with agents to spare.
The router's instance has a threshold of two so that one failure leaves the
circuit closed, the second opens it and a third message probes it; the agent
may be deleted and created at any time, which gives routing failures on first
attempts and on retries.  Supervision needs two overlapping runs of one agent (an
entry is shared by an agent's runs only) and a pid that may go to somebody else;
with thresholds, window and retries of two, each counter has a step that does
not reach its limit and one that does, and the backoff doubles once and is then
capped.  Rate limits may be retried twice and other errors once, so that the two
limits differ.  Deadlock is not checked for the executor and the
router, whose instances end when every request has settled, nor for `services` and
`stores`, where a behaviour ends when its bounded inputs are used up.

In `services` and `stores`, each component has what its races need and a limit that
is reached and, where a step beyond it matters, passed: two flushes and three files,
so that a flush can meet another and a file lie under it; one pid, which is free, an
agent's or somebody else's in turn, beside the pid -1 that several runs share (with two
pids `Lifecycle` alone has 383,297 states and its properties hold as well); three tasks
in a queue of two; two deliveries, one too large to
be logged whole, and one retry; four subtasks in batches of two, so that there is a
second batch and a subtask without an agent; three participants, so that one has
somebody before and behind; three requests of two tool calls; two uses of tools with
a history of one; three failures with two analyses; three namespaces of which two
fit; three jobs, one of them one-time, with two runs each; two senders, one denied,
with hours of three minutes; the default agent and another with three names, so that
a name can be taken, be freed and be of an agent and not of its workspace (with two
others and two names `Registry` alone has 344,399 states and its properties hold as well);
two runs of three keys, two of them conversations and the third without one, so that a
queue can pass a session from one to another; seven messages with limits of
four and two; two connections, two conversations and two messages; three model
providers, so that one can be limited while two are chosen in turn.

Fairness.  `AgentExecutor!FairSpec` assumes that the event loop runs what is due
and that a CLI, which is given a maximum of turns, ends.  `MessageRouter!FairSpec`
assumes only that Node's timers fire, and nothing of the agents: a blocking call
must settle because of its timers alone.  Messages in `Slow` (a timeout beyond
the ten minutes of the stale sweep) are excluded from the liveness property; see
below.  `Supervision!FairSpec` assumes that time passes and that the watchdog's
interval timer fires; no run has to start, end or be retried.

In `services` a component's fairness is that of its module: timers that were set fire
(`StoreTimer`, `KillSurvivors`, `TimesOut`, `RetryForward`, `SaveOutputs`, `Reload`, `ZombieGuard`),
a loop that can go on does (`StartBatch`, `AskNext`), awaited I/O ends in one way or
another (`FlushStep`, `AttemptFails`, `AnalysisFails`: requests and analyses have
timeouts), a process that was sent SIGKILL dies, connections end once the server
closes them.  Nothing is assumed of whoever calls: agents need not answer, clients need not
come back.  Properties that a crash, an overlap of two flushes, a failed write
or the pid -1 may refute say so, by a history variable that is set at that step (`storeOverlap`,
`storeFailed`, `laneRaced`, `outputsFailed`, `failed`, `sessUnsaved`, `ratingsUnsaved`,
`lifeMisled`), and not by leaving the failure out.

## Where the code and its documents disagree

Shown by a run:

1. `oneprocess` - the stale cleanup (executor.js:1352-1364) deletes the entry of a
   process that is dead but not finalized; its `tryFinalize` then deletes the
   entry of the next run, and a third message runs in parallel.
2. `stranded` - messages for a busy workspace are queued under the conversation
   that holds it, and flushed one at a time into their own conversations; the
   rest wait in a queue nobody flushes.
3. `delegation_names` - `chainPath.includes(to)` compares names with ids.
4. `router_tworuns` - a run without a process is taken for a dead one.
5. `supervision_unrecorded` - a failure is withheld from the supervisor when it
   looks like a rate limit (executor.js:2542), but retried only when
   `_isRetryableCliError` agrees (2744) and eight hours have not passed (2762);
   in between it is lost, and a lasting rate limit never opens the circuit.

Exhibited by the models, without a run of their own: a message that meets a
delegation turn in its workspace makes `execute` throw on `busyConvId.substring`
(executor.js:1392) before it is queued, against the comment at 1343
(`RejectedBehindDelegation` says that no other message is thrown away); a
queued restart is forgotten when the last agent fails or is cancelled (2709), against
"it will execute when the last agent finishes" (4375); an agent older than an hour
does not hold up a safe restart (629); `_shuttingDown` is never set, so queues are flushed into a server that is shutting down (2515);
an early return of a request resumed from the queue does not flush what waits
behind it (`EarlyExit`); six delegation hops are accepted where the comment at
message-router.js:53 says five; the stale sweep deletes entry and timer of a
message whose run is queued or waiting, whose caller then waits for ever
(message-router.js:602; in the model, `CleanupStale` of a message in `Slow`); a
failed spawn is recorded twice (2904 and 2546; `FailureRecordedOnce` says so); a
cancelled run leaves its pid tracked until the watchdog comes by (2527).

Met while modelling the components of `services` and `stores`, whose models do what the
code does:

* Lanes: a task that times out goes on beside the next one, against "processed
  sequentially" (lane-queue.js:6, 179).
* Policy: the minute branch moves `lastReset`, so under steady traffic the hourly count
  is never reset (message-policy.js:95-105).
* Webhooks: a payload of more than 2048 characters is cut and then parsed as JSON, which
  throws: it is counted, but neither forwarded nor logged (webhook-manager.js:280).
* Plans: dropping the oldest plan may drop one that executes (task-planner.js:166).
* Workspaces: two names may reduce to one sandbox folder (workspace-manager.js:424).
* Memory: what `memory_forget` invalidates is valid again after a restart (cognitive.js:1716); a
  `[CORE_UPDATE]` leaves the core cache as it was (96); the clean-up of steps overwrites an
  append that lands between its read and its write (1788-1810); linking an identity
  to a second group splits the first (580).
* Providers: a run that is killed never reports 'close', as its stream is destroyed and
  does not end (openai-provider.js:384-395): `tryFinalize` never comes for it.
* Sessions: deleting a conversation leaves its running session, which is saved again
  at the end of the run (http-server.js:2387).
* Sessions: a message of one conversation that waited behind another of the same workspace
  is flushed with the other's session (executor.js:1391-1403, 4096-4106), prefers it to its own
  (1513) and has it stored as its own at the end (2583): the "cross-conversation
  contamination" that the key of the session is to prevent (1507).  `OwnContext` excepts
  these conversations by name (`sessMixed`) and no others.
* Sessions: /clear answers "session(s) cleared" (executor.js:1136) and leaves the session
  that the conversation itself has kept (websocket-server.js:463), so the next message of the
  web chat asks for it (445), resumes it and has it stored again: `DeletedIsOver` is
  about deleted conversations, whose own copy is gone with them, and not about /clear.
* Failed writes: those of sessions, ratings, workspaces, agents, usage and answers are logged at
  most (executor.js:589, skill-cache.js:383, workspace-manager.js:397,
  simple-agent-manager.js:378, usage-tracker.js:310, agent-outputs.js:267).  The first four are
  mended by the next write; until then a restart loses what was not written.  Worse, a
  workspace whose entry was not written is forgotten when the list is read again, and the
  next boot sweeps its directory with its soul files (workspace-manager.js:338):
  `OwnSoulsStay` is about workspaces that are listed, `DirectoriesAreRegistered` about a
  program of which no write has failed since a boot has swept.
* Compaction: marked messages do not survive the second compaction, against
  "important messages preserved" (compactor.js:12).
* Output: with more than ten uses of tools in one message the history has duplicates
  (executor.js:72); a grandchild that holds stdout delays 'close' (2389).
* Model providers: with the priority strategy a failed call chooses the same provider
  again, against "automatic failover on errors" (model-resolver.js:6, 210).
* Configuration: `load` assigns before it validates, and a reload that fails emits
  'error', which nothing listens to (config.js:142, 188).
* Processes: the runs of HTTP providers are registered under the pid -1, a "sentinel value"
  for the executor (openai-provider.js:381) that the registry takes for a pid
  (executor.js:1905): a sweep that finds it on file after a crash, and `killAll` at a
  shutdown, call `process.kill(-1, 'SIGTERM')` once `kill(1)` was refused
  (pid-registry.js:101-123, 172-181), which signals every process of the user.  Before the
  server goes down for the first time with such a run under way, or fails to write that one
  has ended, nobody else's process is signalled; that is `SparesOthers`.
* Processes: `killAll` clears the registry of agents that were started while it waited
  (pid-registry.js:157).
* Errors: the analyzer's circuit breaker never opens, and a cancelled analysis keeps
  its slot (error-analyzer.js:346).
* Active jobs: saved "for resume after restart" (executor.js:656), but nothing in the
  repository calls `_loadActiveJobs` (771) or `_loadPendingCompletions` (752): the records
  serve the restart decision and the dashboard, and no job is resumed.
* Skills: three routes change agents and ask for no refresh; the cache's `shutdown` has
  no caller.

Further hazards, without a property: the router's map of tracked messages keeps every
fire-and-forget message (message-router.js:413); a rejection of `execute` reaches
nobody (423); conversation ids are milliseconds, so two conversations of one
millisecond are one (367, conversation-manager.js:98); deliveries of completions found
at boot (websocket-server.js:636) cannot happen, as nothing fills the list.

## Proofs

* `TypeCorrect` (`AgentExecutorProofs`): `TypeOK` is inductive.  `Flush`,
  `Execute` and `Release`, which several actions share, have lemmas of their
  own; the step has one case per action.
* `QueuesSound`, `EntriesOwned`, `LocksOwned`, `JobsResumable`, `PidRegistryExact`,
  `RequestsAnsweredOnce` (`AgentExecutorSafety`): the six safety invariants of the
  executor, from one inductive invariant, `IInv` (the run checks the two on processes as
  `ProcessesKnown`, theorem `ProcessesAreKnown`).  It is `TypeOK` with the six and
  two facts they need: a signalled process is not yet finished
  (`SignalledAlive`, or a request about to be spawned could be missing from the
  registry) and a request with a spawn error only waits for its 'close' event
  (`SpawnErrorEnds`, or a second answer could be given to a request started
  again).  The queues come first: `AppendConsistent`, `TailConsistent` and
  `ClearConsistent` say for any queues and stages what an append, a shift and a
  clear do, and from them `FlushMoves` and `DelegateMoves` follow: a flush calls
  one queued request and moves nobody else.  Steps that start, finish and signal
  no process (15 of the 23 disjuncts) are treated together as `Aside`, the four
  exit paths of `tryFinalize` as `Finished`, the others one by one.
* `ConversationServed`, `QueuesServed` (`AgentExecutorSafety`): `QueueServed`, with the
  premise it needs.  `SelfContained(k)` says that no workspace is shared between
  conversation `k` and another one, that nobody of `k` delegates, and that nobody of
  it ends in a way that flushes nothing (an early return, the auto-router, a
  self-restart).  The queue of such a conversation always has somebody to flush it,
  whatever the others do; if all are such, as in the run `served`, so do all queues.
  `stranded` shows that the premise is needed.  The invariant (`ServedInv`) adds
  to `IInv` that the requests of `k`, and only they, run under `k`, and that only
  they wait in its queue: so the head a flush calls is the next to flush it.
* `RejectionsExplained` (`RejectedBehindDelegation`): a request is rejected only if it
  was called with the workspace of another that may delegate.  A request runs under its conversation or,
  in a delegation turn, under none (`OwnConv`), and by `LockOwned` the lock that
  rejects is that of such a turn (`BusyHolder`).
* `ImplementsService` (`AgentExecutorRefinement`, as the next; `KeepsPromises` is both):
  `Spec => ServiceSpec`.  `IInv`
  gives the number of replies at each stage (`UnansweredYet`), so each action's
  effect on `Status` is one of the moves `RequestService` allows (`UnansweredMoves`,
  `AnswerMoves`), and an abort is one `Lose` of all it drops (`AbortLoses`).
* `ImplementsRuns`, `ProcessesSeen`, `CallersSeeRuns` (`AgentExecutorRefinement`): the
  executor implements `AgentRuns`; `isProcessActive`, which reads the map, is the
  operator of that name there; and the runs any set of requests makes are again
  `AgentRuns`, whatever else the executor serves.  The invariant is `RInv`: `IInv`,
  `OwnConv` and that an entry is never that of a request that could not be
  spawned (`EntriesStarted`, from `EntriesShrink`).  A step lets some runs lose their
  entries (`AllFade`), or ends one run and takes entries away (`OneEnds`), or
  gives an entry to one run (`SpawnTakes`).
* `ContextsFaithful` (`DelegationProofs`): the inductive invariant is `TypeOK`
  with `ContextIsChain` and `DepthBounded` and the fact that the bottom of the
  stack was started by a user; `SendContext` shows that the computed path, depth
  and originator are those of the chain, `PushEffect` and `PopEffect` say what
  the two kinds of step do to the stack.
* `AcyclicByIds`: with ids only (`Alias = {}`), `NoAgentTwice` follows from the
  invariant: a target outside the path is outside the chain.  The assumption is
  needed, as `delegation_names` shows.
* `ChainsBounded`: the bound of `ContextsFaithful` alone; names do not matter to it.
* `MessageRouterProofs`: `TypeCorrect`, `CallsTimed`, `TrackedAreWaiting`,
  `AnswersFromAgents` and `BreakersCount`, the five safety invariants of the router
  (the run checks the second and third as `CallsAgree`, theorem `CallsDoAgree`), and
  `DrivesRuns`: the router drives the executor as `AgentRuns` allows.
  The five are inductive with the type of the runs.  `CallsOK` is about the
  calls: a step moves the call of one message, and `CallMove` says what it must leave in
  order (waiting exactly with a timer or in its backoff, tracked only with a timer).
  `BreakersOK` is about the breakers: `FailureCounted` and `SuccessCounted`.
  One lemma per action combines the two.  `DrivesRuns` needs `Fresh`: whatever
  attempt a message still has to start has not been run, so that every run is begun
  once; with it each step of the router is one of `AgentRuns` or leaves the runs alone.
* `SupervisionProofs`: every breaker operation maps good breakers to good ones
  (`Good`: the type, a half-open circuit that still waits for a success, failures
  in the order of their ages, and the two invariants of closed circuits).
  `RecentFailures` shows that what is kept of sorted ages is a prefix and lies in
  the window.  From `Good` follow `TypeCorrect`,
  `ClosedHealthy` and `BackoffKept`.  `GhostsOfCancelled` is an action property and
  needs types alone: each step but the end of a cancelled run either clears the
  agent's entry, or sets it to the pid of a run, or leaves the pids of the agent's
  runs alone.  `RecordedOnce` rests on `RetryAgrees`: without the two kinds of rate
  limit of finding 5, and with at least as many retries of rate limits as of other
  errors, the two conditions for a retry are one.

* `StoresProofs`: all that the run `stores` checks, for any number of agents,
  workspaces, namespaces, jobs, senders, runs, messages and providers and any limits:
  `StoresTyped`, `StoresDoAgree`, `DerivedStaysCurrent`, `AnswersArePlaced`, `LimitsDoHold`
  (invariants), `RemovedStaysOver` and `HousekeepingDoesSpare` (with action
  properties).  A behaviour of the sum is one of each component (`RegistryApart`
  and its nine like), so each component is proved alone, from an invariant of its own:
  - Registry (`RegInv`): memory and file are sound (names unique, the default one of the
    workspaces) whatever fails; as long as nothing has failed they agree, a directory without
    a workspace is gone once the sweep was, and
    during a boot each agent that is not due has been served.  An operation is the
    sequence of disks it writes; `Writes` says that each of them is sound, loses
    neither the last workspace nor a soul without consent, and `EndsWell`
    that to stop after any of them, or to lose a write, is well.  Boot had to be taken apart
    for this: as one step it is a fold over the agents, about which an induction
    over sets would be needed.
  - Shared facts (`CtxInv`): clean namespaces are on disk, what is not there is not in a
    file unless its deletion failed, and no two namespaces were last written at one time (`OneAtATime`), from which
    follows that the least recently written is not the last one.
  - Jobs (`CronInv`), memory (`MemInv`: what is on its way to the file, and what a
    clean-up has read of it, is known), skills (`SkillsInv`: nothing is known of an agent
    before it is there), model providers (types alone).
  - Message policy (`PolInv`): what was let through since the last reset is
    within the counter, and what was within a minute, or an hour, within the counter
    and one limit more.  The sums are a recursive function; `SumsExist` shows
    that there is one, `SumsShift` and `SumsBump` what a tick and a message do to it.
  - Sessions (`SesInv`): wherever a session is named (record, file, run, the conversation
    itself) it was opened by a run that is over, and by one of that conversation unless this
    has no key of its own or was given a message by the queue of another; a conversation has one
    run; unless the last write failed, the file says what the records say; and a deleted
    conversation is not in the map unless a run of it was under way or has begun since.
  - Compaction (`CmpInv`): messages are in the order in which they were said, but a
    summary in front is younger than the one behind it.  `RecapIs` gives the uses a
    recap tells as intervals of time, which overlap nowhere.
  - Gateway (`GwInv`): a message that was seen has its conversation; while this is there
    it holds the message and is ahead of the others of its workspace.  That one
    is ahead, as the order is finite, is `FrontExists`; that no step but the
    deletion of it lets another get ahead is `Steady`.

* `ServicesProofs`: all the safety that the run `services` checks, for any number of tasks,
  plans, groups, deliveries, uses of tools, days, failures and agents: `ServicesTyped`,
  `LaterIsTold`, `TakenInOnce` (invariants) and `FaultsAreContained` (with action
  properties).  As for the stores, each part is proved alone:
  - Conversations file (`FileInv`): as long as flushes do not overlap, which
    `storeOverlap` remembers, at most one is past its start (`OneFlush`), it alone writes
    the temporary file, and what it renames is its snapshot.
  - Lane (`LaneInv`): unless a timeout raced with an end, what is queued is there once,
    the awaited task is the head of the queue, and every pending promise is queued.
  - Plans (`PlanInv`, of each plan `PlanFits`): subtasks begin in order, at most one batch of
    them is at work, and who answered left a fact, in a sequential plan one no older
    than the subtask.  A batch is the first few open subtasks, by
    `FirstFew` no more than `BatchSize`.
  - Groups (`GroupInv`): those asked are a prefix of the recipients, and each was shown
    the replies of those before it.
  - API runs (`ProvInv`): each call in the history has its answer, and is of a turn
    that is over.
  - Output of a run (`OutInv`, `OutExact`): the uses of the message under way are the last
    entries of the history, in order (`TailIs`).  So those that are looked back at are
    found and completed in place (`ToldInPlace`), and if the message has more than the
    history holds, each is gone when its turn comes and is written anew, until the
    history is the end of the message (`ToldAgain`).  This needs messages with no more uses
    than are looked back, as the comment of `HistoryIsExact` says: `TakenInOnce` has it
    as a premise on the behaviour, `FewUsesTakenInOnce` derives it where there are no
    more uses than that, which is the case in the run.  With more, the code does have
    duplicates (see above).
  - Statistics (`StatsInv`): costs are sums over days, and `OneMore` and `LessInAll` say what
    a run and the dropping of old days do to a sum.  `InWindow` keeps order and numbers.
  - Webhooks, processes, configuration, errors: `HookInv`, `LifeInv`, `ConfigTypeOK` and `ErrInv`:
    what is remembered is of the program's own children, and the pid -1 only where a run is
    under way, until the registry is misled; and the slots taken are the analyses at work
    and those that were lost.
  For the proofs, the sums, the window of runs and the inputs told by a whole message are
  recursive functions, and a batch and the recipients are chosen without `SelectSeq`, whose
  definition takes an operator; they compute what they did.

The recursive and the finite are proved by induction over the numbers, as `NatInd`: the
library's rule has an operator as parameter, so here it is stated for the set of
numbers of which the fact holds.

The proofs assume only the `ASSUME`s of the modules, which TLC evaluates on every
run.  Model-checked only: liveness, which with fairness and `ENABLED` is beyond the
prover.  Every invariant and every action property of a passing run is a theorem,
`QueueServed` with the premise above.  The
assumptions are what the code gives: the conversations between agents and the keys of sessions are finitely many;
limits are positive numbers; the default agent is an agent; a group has each of its
participants once; there are finitely many uses of tools; what is half-written
is no valid or invalid configuration (`ConfigAssumption`); `CompactionAssumption` has
the numbers of context-guard.js and compactor.js within the order the code has them in,
and prompts that are numbers: `execute` itself passes the empty prompt only
(executor.js:1564), of which `CompactedEnough` is the case 0.

## Not modelled

`PROJECT.json` has the reason for each source file.  In short: what has no behaviour
over time (matching of texts, paths and commands: AutoRouter, PreventionGuard, the
validator of skills), what computes a view on request (routes that read, the health
endpoint, agent-stats-enhanced), I/O and cryptography, and numeric heuristics (ranking and
decay of memories).  Of modelled components: authentication, uploads and status
broadcasts of the gateway; `_loadActiveJobs`, which has no caller; slash commands
other than /clear; sessions handed in by POST /api/sessions/inject; a server that kills the one
its pid file names (index.js:113); the supervisor's resource check; merging of configuration values.

Of failures: a file that cannot be read reads as one that is not there only where the model says
so (torn files); a JSONL append that fails leaves nothing, where the file system may leave
half a line, which the next entry would continue and the next boot skip together with it
(cognitive.js:1345-1352).
Of the pid -1: `Supervision` has pids of processes only; of -1 the watchdog's check
(`kill(-1, 0)`, health-watchdog.js:360) is always told that it lives, and `ps` knows no such
process, so a ghost with it is not cleaned.  `OrphansDie` and `GhostCleaned` are about processes
of the operating system.

## Left to do

* Delegation turns that wait for a reply, composed with the router: here the end of the
  wait is a free step of the executor, and the run that waits and the one it waits for
  are not related.
* `ConversationServed` for conversations that share a workspace, once the code flushes
  what it queued for others.
