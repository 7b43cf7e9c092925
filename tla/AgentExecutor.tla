--------------------------- MODULE AgentExecutor ---------------------------
(***************************************************************************)
(* The AgentExecutor class: it runs one CLI process per message, queues    *)
(* the messages that find their conversation or workspace busy, finishes a *)
(* process when its stdout and the process itself have closed, retries     *)
(* transient failures, resumes an agent with the replies of the agents it  *)
(* wrote to, aborts on demand and restarts the server when it is idle.     *)
(*                                                                         *)
(* JavaScript runs to completion between two awaits, so one action is one  *)
(* such stretch of code.  A request owns at most one CLI process at a time *)
(* and a process is named after its request.                               *)
(***************************************************************************)
EXTENDS Naturals, Sequences

CONSTANTS
    Request,    \* the messages handed to execute()
    Conv,       \* conversation ids
    Workspace,  \* workspace ids, as callers write them
    ConvOf,     \* options.conversationId of each request
    WsOf,       \* options.workspaceId of each request
    Effective,  \* the workspace a written id resolves to (the default one if unknown)
    Traits,     \* what may happen to each request, see Trait
    None,       \* no process, no job
    NoConv,     \* the conversationId `undefined` of a delegation resume
    Free,       \* an unlocked workspace
    MaxRetries, \* CLI_MAX_RETRIES (and its rate-limit counterpart)
    MayRestart  \* whether the server is restarted or stopped in this instance

(***************************************************************************)
(* "cron": sent on channel 'cron', which never queues.                     *)
(* "route": the auto-router sends its text to another agent.               *)
(* "early": it may end before a process is spawned (slash command, unknown *)
(*          workspace, open circuit breaker, no stdio).                    *)
(* "delegate": the agent may end its turn with an AGENT_MESSAGE tag.       *)
(* "selfRestart": its output may contain 'launchctl kickstart'.            *)
(* "long": the agent may work for more than MAX_ACTIVE_JOB_AGE_MS.         *)
(* "unspawnable": starting its CLI may fail.                               *)
(* "compact": its conversation is long enough for execute() to await       *)
(*            compaction between the busy check and the spawn.             *)
(***************************************************************************)
Trait == {"cron", "route", "early", "delegate", "selfRestart", "long",
          "unspawnable", "compact"}

ConvKey == Conv \cup {NoConv}

ASSUME RequestAssumption ==
    /\ ConvOf \in [Request -> Conv]
    /\ WsOf \in [Request -> Workspace]
    /\ Effective \in [Workspace -> Workspace]
    /\ Traits \in [Request -> SUBSET Trait]
    /\ \A r \in Request : ~({"cron", "route"} \subseteq Traits[r])

ASSUME SentinelAssumption ==
    /\ None \notin Request
    /\ NoConv \notin Conv
    /\ Free \notin ConvKey

ASSUME BoundAssumption == MaxRetries \in Nat /\ MayRestart \in BOOLEAN

VARIABLES
    stage,            \* where execute() stands with each request
    conv,             \* the conversation id the request now runs under
    outcome,          \* how the last process of the request ended
    resumed,          \* options._isResumeFromQueue of the request
    retries,          \* options._retryCount of the request
    replies,          \* final callbacks (onComplete or onError) the request had
    signalled,        \* processes abort() has sent SIGTERM to
    activeProcesses,  \* conversation id -> process
    activeJobs,       \* conversation id -> the request whose job record it holds
    pendingMessages,  \* conversation id -> queue of requests
    workspaceLocks,   \* workspace id -> conversation id
    pids,             \* PidRegistry: the processes to sweep after a crash
    flushTimers,      \* cancelled requests whose 500 ms flush timer is armed
    restartPending,   \* a safe restart is queued
    server            \* the Node process, see Server

requestVars == <<stage, conv, outcome, resumed, retries, replies, signalled>>
executorVars == <<activeProcesses, activeJobs, pendingMessages, workspaceLocks, pids>>
restartVars == <<restartPending, server>>
vars == <<requestVars, executorVars, flushTimers, restartVars>>

(***************************************************************************)
(* "calling": execute() has been called and not yet looked at the maps;    *)
(* "admitted": past the busy check, awaiting compaction, not yet spawned;  *)
(* "exited": the process is dead and reaped, 'close' is not yet delivered; *)
(* "tags": awaiting _processToolTags; "backoff": asleep before a retry;    *)
(* "dropped": thrown out of a queue by abort(); "rejected": execute threw. *)
(***************************************************************************)
Stage == {"new", "calling", "queued", "routing", "admitted", "running", "exited",
          "tags", "backoff", "done", "dropped", "rejected"}
\* "exiting": the 2 s timer of a safe restart runs; "stopping": gracefulShutdown
\* closes the servers and kills the registered processes.
Server == {"up", "exiting", "stopping", "down"}
Outcome == {"none", "ok", "fail", "cancel", "selfRestart", "spawnError"}

TypeOK ==
    /\ stage \in [Request -> Stage]
    /\ conv \in [Request -> ConvKey]
    /\ outcome \in [Request -> Outcome]
    /\ resumed \in [Request -> BOOLEAN]
    /\ retries \in [Request -> 0..MaxRetries]
    /\ replies \in [Request -> Nat]
    /\ signalled \subseteq Request
    /\ activeProcesses \in [ConvKey -> Request \cup {None}]
    /\ activeJobs \in [ConvKey -> Request \cup {None}]
    /\ pendingMessages \in [ConvKey -> Seq(Request)]
    /\ workspaceLocks \in [Workspace -> ConvKey \cup {Free}]
    /\ pids \subseteq Request
    /\ flushTimers \subseteq Request
    /\ restartPending \in BOOLEAN
    /\ server \in Server

Init ==
    /\ stage = [r \in Request |-> "new"]
    /\ conv = ConvOf
    /\ outcome = [r \in Request |-> "none"]
    /\ resumed = [r \in Request |-> FALSE]
    /\ retries = [r \in Request |-> 0]
    /\ replies = [r \in Request |-> 0]
    /\ signalled = {}
    /\ activeProcesses = [c \in ConvKey |-> None]
    /\ activeJobs = [c \in ConvKey |-> None]
    /\ pendingMessages = [c \in ConvKey |-> <<>>]
    /\ workspaceLocks = [w \in Workspace |-> Free]
    /\ pids = {}
    /\ flushTimers = {}
    /\ restartPending = FALSE
    /\ server = "up"

-----------------------------------------------------------------------------
(* When code may run.  A synchronous call to execute() ends before anything *)
(* else starts; the await on compaction only yields to code that is already *)
(* runnable (a second message of the same socket read), not to new events.  *)

NoCall == server # "down" /\ \A r \in Request : stage[r] # "calling"
Yielded == NoCall /\ \A r \in Request : stage[r] = "admitted" => "compact" \in Traits[r]
Quiet == NoCall /\ \A r \in Request : stage[r] # "admitted"

\* Mutant: a run with messages waiting behind it leaves the answer to them.
RepliedIfIdle(r) ==
    replies' = [replies EXCEPT ![r] = IF pendingMessages[conv[r]] = <<>> THEN @ + 1 ELSE @]
Replied(r) == replies' = [replies EXCEPT ![r] = @ + 1]
Dead(p) == p # None /\ stage[p] = "exited"

\* Mutant: the head is read and stays in the queue.
Peek(k) == UNCHANGED pendingMessages
Shift(k) == pendingMessages' = [pendingMessages EXCEPT ![k] = Tail(@)]

\* _flushPendingQueue: shift the head of queue k and call execute() with
\* _isResumeFromQueue; st is what the caller makes of stage.
Flush(k, st) ==
    IF pendingMessages[k] = <<>>
    THEN /\ stage' = st
         /\ UNCHANGED <<pendingMessages, resumed, retries>>
    ELSE LET head == Head(pendingMessages[k])
         IN /\ stage' = [st EXCEPT ![head] = "calling"]
            /\ Shift(k)
            /\ resumed' = [resumed EXCEPT ![head] = TRUE]
            /\ retries' = [retries EXCEPT ![head] = 0]

-----------------------------------------------------------------------------
(* execute(), from its call to the spawned process.                         *)

\* The WebSocket gateway, the message router or the error analyzer calls execute().
Submit(r) ==
    /\ Yielded
    /\ stage[r] = "new"
    /\ stage' = [stage EXCEPT ![r] = "calling"]
    /\ UNCHANGED <<conv, outcome, resumed, retries, replies, signalled,
                   executorVars, flushTimers, restartVars>>

\* Stale state cleanup for conversation c called with workspace w: the lock
\* that is left and the conversations whose entries are deleted.
OwnIsDead(c) == Dead(activeProcesses[c])
LockAfterOwn(c, w) ==
    IF OwnIsDead(c) /\ workspaceLocks[w] = c THEN Free ELSE workspaceLocks[w]
HeldByOther(c, w) == LockAfterOwn(c, w) \notin {Free, c}
HolderIsDead(c, w) == HeldByOther(c, w) /\ Dead(activeProcesses[workspaceLocks[w]])
OrphanLock(c, w) == HeldByOther(c, w) /\ activeProcesses[workspaceLocks[w]] = None
CleanedLock(c, w) ==
    IF HolderIsDead(c, w) \/ OrphanLock(c, w) THEN Free ELSE LockAfterOwn(c, w)
StaleConvs(c, w) ==
    {k \in ConvKey : \/ k = c /\ OwnIsDead(c)
                     \/ k = workspaceLocks[w] /\ HolderIsDead(c, w)}
Forget(map, keys) == [k \in ConvKey |-> IF k \in keys THEN None ELSE map[k]]

BusyWorkspace(c, w) == CleanedLock(c, w) \notin {Free, c}
BusyConv(c) == activeProcesses[c] # None /\ ~OwnIsDead(c)
MustQueue(r) ==
    /\ BusyConv(conv[r]) \/ BusyWorkspace(conv[r], WsOf[r])
    /\ ~resumed[r]
    /\ "cron" \notin Traits[r]

Enqueue(r) ==
    LET otherConv == BusyWorkspace(conv[r], WsOf[r])
        key == IF otherConv THEN CleanedLock(conv[r], WsOf[r]) ELSE conv[r]
    IN IF otherConv /\ key = NoConv
       THEN \* busyConvId.substring on undefined: TypeError
            /\ stage' = [stage EXCEPT ![r] = "rejected"]
            /\ UNCHANGED pendingMessages
       ELSE /\ stage' = [stage EXCEPT ![r] = "queued"]
            /\ pendingMessages' = [pendingMessages EXCEPT ![key] = Append(@, r)]

Execute(r) ==
    LET c == conv[r]
        w == WsOf[r]
    IN /\ server # "down"
       /\ stage[r] = "calling"
       /\ activeProcesses' = Forget(activeProcesses, StaleConvs(c, w))
       /\ activeJobs' = Forget(activeJobs, StaleConvs(c, w))
       /\ workspaceLocks' = [workspaceLocks EXCEPT ![w] = CleanedLock(c, w)]
       /\ IF MustQueue(r)
          THEN Enqueue(r)
          ELSE /\ stage' = [stage EXCEPT ![r] =
                      IF "route" \in Traits[r] THEN "routing" ELSE "admitted"]
               /\ UNCHANGED pendingMessages
       /\ UNCHANGED <<conv, outcome, resumed, retries, replies, signalled,
                      pids, flushTimers, restartVars>>

\* messageRouter.sendMessage settles: its reply, or its error, is the answer.
RouteReply(r) ==
    /\ Quiet
    /\ stage[r] = "routing"
    /\ stage' = [stage EXCEPT ![r] = "done"]
    /\ Replied(r)
    /\ UNCHANGED <<conv, outcome, resumed, retries, signalled,
                   executorVars, flushTimers, restartVars>>

\* A return between the busy check and the spawn, after one final callback.
EarlyExit(r) ==
    /\ NoCall
    /\ stage[r] = "admitted"
    /\ "early" \in Traits[r]
    /\ stage' = [stage EXCEPT ![r] = "done"]
    /\ Replied(r)
    /\ UNCHANGED <<conv, outcome, resumed, retries, signalled,
                   executorVars, flushTimers, restartVars>>

Spawn(r) ==
    /\ NoCall
    /\ stage[r] = "admitted"
    /\ stage' = [stage EXCEPT ![r] = "running"]
    /\ outcome' = [outcome EXCEPT ![r] = "none"]
    /\ activeProcesses' = [activeProcesses EXCEPT ![conv[r]] = r]
    /\ pids' = pids \cup {r}
    /\ workspaceLocks' = [workspaceLocks EXCEPT ![Effective[WsOf[r]]] = conv[r]]
    /\ activeJobs' = [activeJobs EXCEPT ![conv[r]] = r]
    /\ UNCHANGED <<conv, resumed, retries, replies, signalled, pendingMessages,
                   flushTimers, restartVars>>

\* The binary cannot be started: the registrations of Spawn, then, on the next
\* tick, the 'error' handler takes them back and answers; 'close' is still to
\* come.  Node reports EACCES, EAGAIN and ENOENT this way, none retryable.
SpawnError(r) ==
    /\ NoCall
    /\ stage[r] = "admitted"
    /\ "unspawnable" \in Traits[r]
    /\ stage' = [stage EXCEPT ![r] = "exited"]
    /\ outcome' = [outcome EXCEPT ![r] = "spawnError"]
    /\ Replied(r)
    /\ activeProcesses' = [activeProcesses EXCEPT ![conv[r]] = None]
    /\ workspaceLocks' = [workspaceLocks EXCEPT ![Effective[WsOf[r]]] = Free]
    /\ activeJobs' = [activeJobs EXCEPT ![conv[r]] = None]
    /\ UNCHANGED <<conv, resumed, retries, signalled, pendingMessages, pids,
                   flushTimers, restartVars>>

-----------------------------------------------------------------------------
(* The process ends and tryFinalize runs.                                   *)

\* Exit code 0; 143 or 137 ("cancel": abort, an operator, the zombie guard),
\* with or without a self-restart in the output; any other code.
Dies(r) ==
    /\ server # "down"
    /\ stage[r] = "running"
    /\ stage' = [stage EXCEPT ![r] = "exited"]
    /\ \E o \in {"ok", "fail", "cancel"} \cup (Traits[r] \cap {"selfRestart"}) :
           outcome' = [outcome EXCEPT ![r] = o]
    /\ UNCHANGED <<conv, resumed, retries, replies, signalled,
                   executorVars, flushTimers, restartVars>>

\* Mutant: a killed process keeps its entry.
RemoveEntryUnlessKilled(r) ==
    activeProcesses' = [activeProcesses EXCEPT
        ![conv[r]] = IF outcome[r] = "cancel" THEN @ ELSE None]
RemoveEntry(r) == activeProcesses' = [activeProcesses EXCEPT ![conv[r]] = None]

Unregister(r) == pids' = pids \ {r}

\* Mutant: the lock is looked up under the id the caller wrote.
UnlockWritten(r) ==
    workspaceLocks' = [workspaceLocks EXCEPT ![WsOf[r]] = IF @ = conv[r] THEN Free ELSE @]
Unlock(r) ==
    workspaceLocks' = [workspaceLocks EXCEPT
        ![Effective[WsOf[r]]] = IF @ = conv[r] THEN Free ELSE @]

\* What every exit path of tryFinalize does first, whoever now owns the entries.
Release(r) ==
    /\ Quiet
    /\ stage[r] = "exited"
    /\ RemoveEntry(r)
    /\ Unregister(r)
    /\ Unlock(r)
    /\ signalled' = signalled \ {r}

\* Mutant: a failed run leaves its job record.
ClearJobIfOk(r) ==
    activeJobs' = [activeJobs EXCEPT ![conv[r]] = IF outcome[r] = "ok" THEN None ELSE @]
ClearJob(r) == activeJobs' = [activeJobs EXCEPT ![conv[r]] = None]

\* Exit 0, or a self-restart: the job is over, its output may hold tool tags.
FinalizeWithOutput(r) ==
    /\ Release(r)
    /\ outcome[r] \in {"ok", "selfRestart"}
    /\ ClearJob(r)
    /\ stage' = [stage EXCEPT ![r] = "tags"]
    /\ UNCHANGED <<conv, outcome, resumed, retries, replies, pendingMessages,
                   flushTimers, restartVars>>

\* Mutant: messages behind a cancelled run are left where they are.
NoTimer(r) == UNCHANGED flushTimers
ArmFlushTimer(r) ==
    flushTimers' = IF pendingMessages[conv[r]] = <<>> THEN flushTimers ELSE flushTimers \cup {r}

\* onComplete of a cancelled run, and the flush timer if messages wait.
CancelReply(r) ==
    /\ stage' = [stage EXCEPT ![r] = "done"]
    /\ Replied(r)
    /\ ArmFlushTimer(r)

\* Killed: the job stays in activeJobs to be resumed; partial output, if
\* there is any, goes through the tool tags first.
FinalizeCancelled(r) ==
    /\ Release(r)
    /\ outcome[r] = "cancel"
    /\ \/ CancelReply(r)
       \/ /\ stage' = [stage EXCEPT ![r] = "tags"]
          /\ UNCHANGED <<replies, flushTimers>>
    /\ UNCHANGED <<conv, outcome, resumed, retries, pendingMessages, activeJobs,
                   restartVars>>

\* Mutant: one retry too many.
OneMoreRetry(r) == retries[r] <= MaxRetries
MayRetry(r) == retries[r] < MaxRetries

FinalizeRetry(r) ==
    /\ Release(r)
    /\ outcome[r] = "fail"
    /\ MayRetry(r)
    /\ ClearJob(r)
    /\ stage' = [stage EXCEPT ![r] = "backoff"]
    /\ retries' = [retries EXCEPT ![r] = @ + 1]
    /\ UNCHANGED <<conv, outcome, resumed, replies, pendingMessages,
                   flushTimers, restartVars>>

\* Not retryable, or retries exhausted: onError, then the queue.
FinalizeFailed(r) ==
    /\ Release(r)
    /\ outcome[r] \in {"fail", "spawnError"}
    /\ ClearJob(r)
    /\ Replied(r)
    /\ Flush(conv[r], [stage EXCEPT ![r] = "done"])
    /\ UNCHANGED <<conv, outcome, flushTimers, restartVars>>

\* Mutant: the options of a retry have no conversation id, like those of a delegation turn.
RetryNameless(r) ==
    /\ Quiet
    /\ stage[r] = "backoff"
    /\ stage' = [stage EXCEPT ![r] = "calling"]
    /\ conv' = [conv EXCEPT ![r] = NoConv]
    /\ UNCHANGED <<outcome, resumed, retries, replies, signalled,
                   executorVars, flushTimers, restartVars>>

\* The sleep of a retry is over: execute({...options}) again.
Retry(r) ==
    /\ Quiet
    /\ stage[r] = "backoff"
    /\ stage' = [stage EXCEPT ![r] = "calling"]
    /\ UNCHANGED <<conv, outcome, resumed, retries, replies, signalled,
                   executorVars, flushTimers, restartVars>>

\* _checkAndExecutePendingRestart
CheckPendingRestart ==
    IF restartPending /\ \A c \in ConvKey : activeJobs[c] = None
    THEN /\ restartPending' = FALSE
         /\ server' = IF server = "up" THEN "exiting" ELSE server
    ELSE UNCHANGED restartVars

Complete(r) ==
    /\ Quiet
    /\ stage[r] = "tags"
    /\ outcome[r] = "ok"
    /\ Replied(r)
    /\ CheckPendingRestart
    /\ Flush(conv[r], [stage EXCEPT ![r] = "done"])
    /\ UNCHANGED <<conv, outcome, signalled, activeProcesses, activeJobs,
                   workspaceLocks, pids, flushTimers>>

\* Agent replies arrived: queue the follow-up turn, whose options hold no
\* conversationId, behind what already waits, and flush the head of the queue.
Delegate(r) ==
    LET c == conv[r]
        queue == Append(pendingMessages[c], r)
        head == Head(queue)
    IN /\ Quiet
       /\ stage[r] = "tags"
       /\ outcome[r] = "ok"
       /\ "delegate" \in Traits[r]
       /\ conv' = [conv EXCEPT ![r] = NoConv]
       /\ pendingMessages' = [pendingMessages EXCEPT ![c] = Tail(queue)]
       /\ stage' = [stage EXCEPT ![r] = "queued", ![head] = "calling"]
       /\ resumed' = [resumed EXCEPT ![head] = TRUE]
       /\ retries' = [retries EXCEPT ![head] = 0]
       /\ UNCHANGED <<outcome, replies, signalled, activeProcesses, activeJobs,
                      workspaceLocks, pids, flushTimers, restartVars>>

CompleteCancelled(r) ==
    /\ Quiet
    /\ stage[r] = "tags"
    /\ outcome[r] = "cancel"
    /\ CancelReply(r)
    /\ UNCHANGED <<conv, outcome, resumed, retries, signalled, executorVars, restartVars>>

CompleteSelfRestart(r) ==
    /\ Quiet
    /\ stage[r] = "tags"
    /\ outcome[r] = "selfRestart"
    /\ stage' = [stage EXCEPT ![r] = "done"]
    /\ Replied(r)
    /\ UNCHANGED <<conv, outcome, resumed, retries, signalled,
                   executorVars, flushTimers, restartVars>>

FlushTimer(r) ==
    /\ Quiet
    /\ r \in flushTimers
    /\ flushTimers' = flushTimers \ {r}
    /\ Flush(conv[r], stage)
    /\ UNCHANGED <<conv, outcome, replies, signalled, activeProcesses, activeJobs,
                   workspaceLocks, pids, restartVars>>

-----------------------------------------------------------------------------
(* Abort, job expiry and safe restart.                                      *)

InQueue(c, r) == \E i \in DOMAIN pendingMessages[c] : pendingMessages[c][i] = r

\* Mutant: the request at work is dropped with the ones behind it.
DropAll(c) ==
    stage' = [r \in Request |->
        IF InQueue(c, r) \/ r = activeProcesses[c] THEN "dropped" ELSE stage[r]]
DropQueued(c) ==
    stage' = [r \in Request |-> IF InQueue(c, r) THEN "dropped" ELSE stage[r]]

\* abort(c): SIGTERM, and forget the process, its job and the queue at once.
Abort(c) ==
    LET p == activeProcesses[c]
    IN /\ Yielded
       /\ p # None
       /\ signalled' = signalled \cup {p}
       /\ activeProcesses' = [activeProcesses EXCEPT ![c] = None]
       /\ pids' = pids \ {p}
       /\ activeJobs' = [activeJobs EXCEPT ![c] = None]
       /\ pendingMessages' = [pendingMessages EXCEPT ![c] = <<>>]
       /\ DropQueued(c)
       /\ UNCHANGED <<conv, outcome, resumed, retries, replies, workspaceLocks,
                      flushTimers, restartVars>>

\* _saveActiveJobs, run by every checkpoint, prunes a job older than an hour.
JobExpires(c) ==
    /\ Quiet
    /\ activeJobs[c] # None
    /\ "long" \in Traits[activeJobs[c]]
    /\ activeJobs' = [activeJobs EXCEPT ![c] = None]
    /\ UNCHANGED <<requestVars, activeProcesses, pendingMessages, workspaceLocks,
                   pids, flushTimers, restartVars>>

RequestSafeRestart ==
    /\ Quiet
    /\ MayRestart
    /\ server = "up"
    /\ IF \A c \in ConvKey : activeJobs[c] = None
       THEN restartPending' = FALSE /\ server' = "exiting"
       ELSE restartPending' = TRUE /\ UNCHANGED server
    /\ UNCHANGED <<requestVars, executorVars, flushTimers>>

\* SIGTERM or SIGINT to the server; what killAll does to the agents is in Dies.
GracefulShutdown ==
    /\ Quiet
    /\ MayRestart
    /\ server \in {"up", "exiting"}
    /\ server' = "stopping"
    /\ UNCHANGED <<requestVars, executorVars, flushTimers, restartPending>>

\* process.exit, two seconds after _executeSafeRestart or at the end of gracefulShutdown
Exit ==
    /\ Quiet
    /\ server \in {"exiting", "stopping"}
    /\ server' = "down"
    /\ UNCHANGED <<requestVars, executorVars, flushTimers, restartPending>>

-----------------------------------------------------------------------------
\* The callers and the operating system.
Environment ==
    \/ \E r \in Request : Submit(r) \/ EarlyExit(r) \/ Dies(r)
    \/ \E c \in Conv : Abort(c)
    \/ RequestSafeRestart
    \/ GracefulShutdown

\* What the executor does once it has been called.
Progress(r) ==
    \/ Execute(r) \/ RouteReply(r) \/ Spawn(r) \/ SpawnError(r)
    \/ FinalizeWithOutput(r) \/ FinalizeCancelled(r) \/ FinalizeRetry(r) \/ FinalizeFailed(r)
    \/ Retry(r) \/ Complete(r) \/ Delegate(r) \/ CompleteCancelled(r)
    \/ CompleteSelfRestart(r) \/ FlushTimer(r)

Next ==
    \/ Environment
    \/ \E r \in Request : Progress(r)
    \/ \E c \in ConvKey : JobExpires(c)
    \/ Exit

Spec == Init /\ [][Next]_vars

\* The event loop runs every callback that is due; the CLI, given its maximum
\* of turns, ends; a started server is not left in its exit timer.
FairSpec ==
    /\ Spec
    /\ \A r \in Request : WF_vars(Progress(r) \/ Dies(r))

-----------------------------------------------------------------------------
(* Safety.                                                                   *)

HasProcess(r) == stage[r] \in {"running", "exited"}

\* An entry of activeProcesses belongs to a process that tryFinalize has still
\* to remove, under the key that run was started with: no conversation stays
\* busy for ever after its process is gone.
ProcessEntryOwned ==
    \A c \in ConvKey : activeProcesses[c] # None =>
        /\ HasProcess(activeProcesses[c])
        /\ conv[activeProcesses[c]] = c

\* A workspace lock is held for a conversation some process of which, started
\* in that workspace, has still to finish: no exit path, abort, stale cleanup
\* or overwriting of the lock leaves a lock nobody will release.
LockOwned ==
    \A w \in Workspace : workspaceLocks[w] # Free =>
        \E r \in Request : /\ HasProcess(r)
                            /\ Effective[WsOf[r]] = w
                            /\ conv[r] = workspaceLocks[w]

\* A job record, kept for a restart to resume, is that of a process not yet
\* finished or of one that was killed, never of a run that completed or failed.
JobResumable ==
    \A c \in ConvKey : activeJobs[c] # None =>
        LET r == activeJobs[c]
        IN /\ conv[r] = c
           /\ \/ HasProcess(r)
              \/ stage[r] \in {"tags", "done"} /\ outcome[r] = "cancel"

\* The PID registry, which the next boot kills from, names exactly the started
\* processes not yet finished, less those abort() has already signalled: a
\* crash at any point leaves no untracked CLI and no PID that could be reused.
PidsExact ==
    pids = {r \in Request : /\ HasProcess(r)
                            /\ outcome[r] # "spawnError"
                            /\ r \notin signalled}

\* What is known of processes, here and after a restart, is so: the map of entries and
\* the PID registry, written by the same handlers, are each right at every point
\* between them.
ProcessesKnown == ProcessEntryOwned /\ PidsExact

\* A request is in the queues if and only if it waits there, and once: no flush,
\* retry or delegation duplicates it or leaves it behind.
QueuedOnce ==
    /\ \A c \in ConvKey : \A i \in DOMAIN pendingMessages[c] :
           stage[pendingMessages[c][i]] = "queued"
    /\ \A r \in Request : stage[r] = "queued" =>
           \E c \in ConvKey : \E i \in DOMAIN pendingMessages[c] : pendingMessages[c][i] = r
    /\ \A c, d \in ConvKey :
           \A i \in DOMAIN pendingMessages[c], j \in DOMAIN pendingMessages[d] :
               pendingMessages[c][i] = pendingMessages[d][j] => c = d /\ i = j

\* A finished request had exactly one final callback, an unfinished one none,
\* whatever retries, delegation turns and cancellations it went through.  A spawn
\* error is the exception: the 'error' and the 'close' handler both answer.
AnsweredOnce ==
    \A r \in Request :
        replies[r] = (IF stage[r] = "done" THEN 1 ELSE 0)
                     + (IF outcome[r] = "spawnError" THEN 1 ELSE 0)

\* Every queue has somebody who will flush it: a request that is under way under
\* the same conversation id, or an armed flush timer.
UnderWay(r) == stage[r] \in {"calling", "admitted", "running", "exited", "tags", "backoff"}
QueueServed ==
    \A c \in ConvKey : pendingMessages[c] # <<>> =>
        \E r \in Request : conv[r] = c /\ (UnderWay(r) \/ r \in flushTimers)

\* Whoever execute() throws away, instead of queueing it, was called with the workspace
\* of another's delegation turn: only that turn locks a workspace for no conversation.
RejectedBehindDelegation ==
    \A r \in Request : stage[r] = "rejected" =>
        \E x \in Request \ {r} : "delegate" \in Traits[x] /\ Effective[WsOf[x]] = WsOf[r]

\* No conversation has two CLI processes at work, other than ones being killed.
OneProcessPerConversation ==
    \A r, q \in Request :
        /\ stage[r] = "running" /\ stage[q] = "running"
        /\ conv[r] = conv[q]
        /\ {r, q} \cap signalled = {}
        => r = q

-----------------------------------------------------------------------------
(* Liveness.                                                                 *)

\* A message handed to the executor is answered in the end, or thrown out of
\* the queue by an abort, or the server goes down.
EveryRequestSettles ==
    \A r \in Request :
        stage[r] = "calling" ~> stage[r] \in {"done", "dropped"} \/ server = "down"

-----------------------------------------------------------------------------
(* The service the executor offers its callers.                              *)

Status(r) ==
    CASE replies[r] > 0 -> "answered"
      [] replies[r] = 0 /\ stage[r] = "new" -> "idle"
      [] replies[r] = 0 /\ stage[r] \in {"dropped", "rejected"} -> "lost"
      [] replies[r] = 0 /\ stage[r] \in {"running", "exited", "tags"} -> "working"
      [] OTHER -> "accepted"

Service == INSTANCE RequestService WITH status <- [r \in Request |-> Status(r)]

\* The executor implements the request service.
ServiceSpec == Service!Spec

\* The run of r as the callers of isProcessActive(), abort() and the final
\* callbacks see it: "running" while its process has the entry of its conversation.
RunOf(r) ==
    CASE stage[r] = "new" -> "none"
      [] stage[r] # "new" /\ activeProcesses[ConvOf[r]] = r -> "running"
      [] stage[r] # "new" /\ activeProcesses[ConvOf[r]] # r /\ replies[r] = 0 -> "waiting"
      [] OTHER -> IF outcome[r] \in {"fail", "spawnError"} THEN "errored" ELSE "replied"

Runs == INSTANCE AgentRuns WITH Run <- Request, run <- [r \in Request |-> RunOf(r)]

\* The executor shows its callers runs as AgentRuns has them: an entry appears only
\* for a run that is not over, a run that is over never works again, and an entry
\* lost to an abort, a cleanup or another run does not end the run.
RunsSpec == Runs!Spec

\* The promises to those who are answered and to those who look on.
PromisesKept == ServiceSpec /\ RunsSpec
=============================================================================
