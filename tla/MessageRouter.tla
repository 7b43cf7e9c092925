--------------------------- MODULE MessageRouter ---------------------------
(***************************************************************************)
(* The MessageRouter class: blocking messages between agents, with a       *)
(* timeout per attempt, an extension while the target's process works, a   *)
(* retry after a backoff when it does not, a circuit breaker per target    *)
(* and a sweep of stale entries.                                           *)
(*                                                                         *)
(* The executor is AgentRuns: the router uses its execute(),               *)
(* isProcessActive() and abortProcess().  There is no clock: a timer may   *)
(* fire at any time after it is armed.                                     *)
(***************************************************************************)
EXTENDS Naturals, FiniteSets

CONSTANTS
    Message,     \* calls of sendMessage that pass its checks
    Agent,       \* target agents
    Conv,        \* inter-agent conversations, one per pair of agents
    TargetOf,    \* the target of each message
    ConvOf,      \* the conversation of its pair
    Posted,      \* the messages sent with timeout 0 (fire-and-forget)
    Slow,        \* the messages whose timeout is longer than the 10 min of the sweep
    MaxRetries,  \* MAX_RETRIES
    Threshold    \* CIRCUIT_FAILURE_THRESHOLD

ASSUME MessageAssumption ==
    /\ TargetOf \in [Message -> Agent]
    /\ ConvOf \in [Message -> Conv]
    /\ Posted \subseteq Message /\ Slow \subseteq Message

ASSUME LimitAssumption == MaxRetries \in Nat /\ Threshold \in Nat \ {0}

VARIABLES
    promise,   \* what the caller of sendMessage has seen
    pending,   \* pendingMessages: which timer the entry of a message holds
    attempt,   \* the attempt that timer, or the backoff, will start or end
    backoff,   \* messages asleep before their next attempt
    tracked,   \* keys of _activeInterAgentConvs
    run,       \* [message, attempt]: the run it has started
    failures,  \* circuitBreakers[agent].failures
    breaker,   \* circuitBreakers[agent].state
    cooled,    \* the cooldown since circuitBreakers[agent].lastFailure is over
    known      \* the ids and names agentManager.getAgent resolves

callVars == <<promise, pending, attempt, backoff, tracked>>
breakerVars == <<failures, breaker, cooled>>
vars == <<callVars, run, breakerVars, known>>

Attempt == 0..MaxRetries

\* The executor, with a run for each attempt; nobody else runs in a conversation of
\* a pair of agents.
Runs == INSTANCE AgentRuns WITH Run <- Message \X Attempt,
                                ConvOf <- [x \in Message \X Attempt |-> ConvOf[x[1]]]

TypeOK ==
    /\ promise \in [Message -> {"new", "waiting", "answered", "failed"}]
    /\ pending \in [Message -> {"none", "first", "extended"}]
    /\ attempt \in [Message -> Attempt]
    /\ backoff \subseteq Message
    /\ tracked \subseteq Message
    /\ run \in [Message \X Attempt -> Runs!RunState]
    /\ failures \in [Agent -> Nat]
    /\ breaker \in [Agent -> {"closed", "open", "half-open"}]
    /\ cooled \in [Agent -> BOOLEAN]
    /\ known \subseteq Agent

Init ==
    /\ promise = [m \in Message |-> "new"]
    /\ pending = [m \in Message |-> "none"]
    /\ attempt = [m \in Message |-> 0]
    /\ backoff = {}
    /\ tracked = {}
    /\ Runs!Init
    /\ failures = [g \in Agent |-> 0]
    /\ breaker = [g \in Agent |-> "closed"]
    /\ cooled = [g \in Agent |-> FALSE]
    /\ known = Agent

-----------------------------------------------------------------------------
(* Circuit breaker, one per target.                                          *)

RecordFailure(g) ==
    /\ failures' = [failures EXCEPT ![g] = @ + 1]
    /\ breaker' = [breaker EXCEPT ![g] = IF failures[g] + 1 >= Threshold THEN "open" ELSE @]
    /\ cooled' = [cooled EXCEPT ![g] = FALSE]

\* Mutant: the state is reset, the count is not.
ReopenOnly(g) ==
    /\ breaker' = [breaker EXCEPT ![g] = "closed"]
    /\ UNCHANGED <<failures, cooled>>
RecordSuccess(g) ==
    /\ failures' = [failures EXCEPT ![g] = 0]
    /\ breaker' = [breaker EXCEPT ![g] = "closed"]
    /\ UNCHANGED cooled

Cooldown(g) ==
    /\ failures[g] > 0
    /\ ~cooled[g]
    /\ cooled' = [cooled EXCEPT ![g] = TRUE]
    /\ UNCHANGED <<callVars, run, failures, breaker, known>>

-----------------------------------------------------------------------------
Untrack(m) == tracked' = tracked \ {m}

(* Sending.                                                                  *)

\* _routeMessage for attempt a of m: the target is unknown, and _sendError
\* settles the call, or its executor is given the message.
RouteToUnknown(m) ==
    /\ TargetOf[m] \notin known
    /\ promise' = [promise EXCEPT ![m] = "failed"]
    /\ pending' = [pending EXCEPT ![m] = "none"]
    /\ Untrack(m)
    /\ RecordFailure(TargetOf[m])
    /\ UNCHANGED run

Inject(m, a) ==
    /\ TargetOf[m] \in known
    /\ run' = [run EXCEPT ![<<m, a>>] = "waiting"]
    /\ tracked' = tracked \cup {m}

\* Mutant: the wait for a process that still works has no timer.
WaitUntimed(m) == pending' = [pending EXCEPT ![m] = "none"]
ArmTimer(m) == pending' = [pending EXCEPT ![m] = "first"]

Route(m, a) ==
    \/ RouteToUnknown(m)
    \/ /\ Inject(m, a)
       /\ ArmTimer(m)
       /\ promise' = [promise EXCEPT ![m] = "waiting"]
       /\ UNCHANGED <<failures, breaker, cooled>>

\* A retry is not routed while isProcessActive() of the tracked conversation; of
\* a message no longer tracked it asks for the conversation `undefined`, under
\* which the delegation turns of all agents run.
MayRoute(m) == m \in tracked => ~Runs!IsProcessActive(ConvOf[m])
MayWait(m) == m \in tracked => Runs!IsProcessActive(ConvOf[m])

\* _sendWithRetry after the first attempt.
NextAttempt(m) ==
    \/ /\ MayRoute(m)
       /\ Route(m, attempt[m])
    \/ /\ MayWait(m)
       /\ ArmTimer(m)
       /\ UNCHANGED <<promise, tracked, run, breakerVars>>

\* sendMessage, blocking, to a target whose circuit is not open.
Send(m) ==
    /\ promise[m] = "new"
    /\ m \notin Posted
    /\ breaker[TargetOf[m]] # "open"
    /\ Route(m, 0)
    /\ UNCHANGED <<attempt, backoff, known>>

\* The cooldown is over: half-open, and the message goes out as a probe.
Probe(m) ==
    LET g == TargetOf[m]
    IN /\ promise[m] = "new"
       /\ m \notin Posted
       /\ breaker[g] = "open"
       /\ cooled[g]
       /\ IF g \notin known
          THEN RouteToUnknown(m)
          ELSE /\ Inject(m, 0)
               /\ ArmTimer(m)
               /\ promise' = [promise EXCEPT ![m] = "waiting"]
               /\ breaker' = [breaker EXCEPT ![g] = "half-open"]
               /\ UNCHANGED <<failures, cooled>>
       /\ UNCHANGED <<attempt, backoff, known>>

FastFail(m) ==
    /\ promise[m] = "new"
    /\ m \notin Posted
    /\ breaker[TargetOf[m]] = "open"
    /\ ~cooled[TargetOf[m]]
    /\ promise' = [promise EXCEPT ![m] = "failed"]
    /\ UNCHANGED <<pending, attempt, backoff, tracked, run, breakerVars, known>>

\* sendMessage with timeout 0: the caller is answered before the target is
\* looked up, and nothing waits for the run.
Post(m) ==
    /\ promise[m] = "new"
    /\ m \in Posted
    /\ promise' = [promise EXCEPT ![m] = "answered"]
    /\ IF TargetOf[m] \notin known
       THEN RecordFailure(TargetOf[m]) /\ UNCHANGED <<tracked, run>>
       ELSE Inject(m, 0) /\ UNCHANGED breakerVars
    /\ UNCHANGED <<pending, attempt, backoff, known>>

-----------------------------------------------------------------------------
(* Timers.                                                                   *)

\* Mutant: the last attempt is extended too.
OneMoreAttempt(m) == attempt[m] <= MaxRetries
AttemptsLeft(m) == attempt[m] < MaxRetries

\* Mutant: the next attempt has the number of the last.
KeepCount(m) == UNCHANGED attempt
CountAttempt(m) == attempt' = [attempt EXCEPT ![m] = @ + 1]

StillRunning(m) == m \in tracked /\ Runs!IsProcessActive(ConvOf[m])

\* The timer of an attempt ends while the process works: another timer is set.
Extend(m) ==
    /\ pending[m] = "first"
    /\ StillRunning(m)
    /\ AttemptsLeft(m)
    /\ pending' = [pending EXCEPT ![m] = "extended"]
    /\ CountAttempt(m)
    /\ UNCHANGED <<promise, backoff, tracked, run, breakerVars, known>>

BackOff(m) ==
    /\ pending[m] = "first"
    /\ ~StillRunning(m)
    /\ AttemptsLeft(m)
    /\ pending' = [pending EXCEPT ![m] = "none"]
    /\ backoff' = backoff \cup {m}
    /\ CountAttempt(m)
    /\ Untrack(m)
    /\ UNCHANGED <<promise, run, breakerVars, known>>

\* Retries exhausted: abort whatever works in the conversation, and fail.
GiveUp(m) ==
    /\ pending[m] = "first"
    /\ ~AttemptsLeft(m)
    /\ pending' = [pending EXCEPT ![m] = "none"]
    /\ promise' = [promise EXCEPT ![m] = "failed"]
    /\ Untrack(m)
    /\ IF m \in tracked THEN Runs!Abort(ConvOf[m]) ELSE UNCHANGED run
    /\ RecordFailure(TargetOf[m])
    /\ UNCHANGED <<attempt, backoff, known>>

ExtensionEnds(m) ==
    /\ pending[m] = "extended"
    /\ NextAttempt(m)
    /\ UNCHANGED <<attempt, backoff, known>>

BackoffEnds(m) ==
    /\ m \in backoff
    /\ backoff' = backoff \ {m}
    /\ NextAttempt(m)
    /\ UNCHANGED <<attempt, known>>

\* _cleanupStale: only timeouts beyond its threshold let an entry grow so old.
\* The timer goes with the entry; the promise is left as it is.
CleanupStale(m) ==
    /\ m \in Slow
    /\ pending[m] # "none"
    /\ ~StillRunning(m)
    /\ pending' = [pending EXCEPT ![m] = "none"]
    /\ Untrack(m)
    /\ UNCHANGED <<promise, attempt, backoff, run, breakerVars, known>>

-----------------------------------------------------------------------------
(* The runs of the target's executor.                                        *)

\* A process starts, or the entries of some are taken away.
RunStarts(m, a) ==
    /\ Runs!Take(<<m, a>>)
    /\ UNCHANGED <<callVars, breakerVars, known>>

RunsHide(rs) ==
    /\ Runs!Hide(rs)
    /\ UNCHANGED <<callVars, breakerVars, known>>

\* Mutant: any callback of the run answers the call.
SettledOk(m, p) == promise' = [promise EXCEPT ![m] = "answered"]
Settled(m, p) == promise' = [promise EXCEPT ![m] = p]

\* handleResponse: without an entry the response is lost.
HandleResponse(m, p) ==
    IF pending[m] = "none"
    THEN UNCHANGED <<promise, pending, tracked>>
    ELSE /\ Settled(m, p)
         /\ pending' = [pending EXCEPT ![m] = "none"]
         /\ Untrack(m)

\* onComplete, of a killed process too: its reply is what it had written.
RunReplies(m, a) ==
    /\ \E rs \in SUBSET Runs!Seen : Runs!End(<<m, a>>, "replied", rs)
    /\ HandleResponse(m, "answered")
    /\ IF pending[m] # "none" THEN RecordSuccess(TargetOf[m]) ELSE UNCHANGED breakerVars
    /\ UNCHANGED <<attempt, backoff, known>>

\* onError: _sendError is given no target, so no failure is recorded.  After a spawn
\* error the 'close' handler calls it again.
RunErrors(m, a) ==
    /\ \/ \E rs \in SUBSET Runs!Seen : Runs!End(<<m, a>>, "errored", rs)
       \/ run[<<m, a>>] = "errored" /\ UNCHANGED run
    /\ HandleResponse(m, "failed")
    /\ UNCHANGED <<attempt, backoff, breakerVars, known>>

\* An agent is deleted, or one of the same name is created.
ChangeAgents(g) ==
    /\ known' = IF g \in known THEN known \ {g} ELSE known \cup {g}
    /\ UNCHANGED <<callVars, run, breakerVars>>

-----------------------------------------------------------------------------
Timers(m) == Extend(m) \/ BackOff(m) \/ GiveUp(m) \/ ExtensionEnds(m) \/ BackoffEnds(m)

Next ==
    \/ \E m \in Message : Send(m) \/ Probe(m) \/ FastFail(m) \/ Post(m)
    \/ \E m \in Message : Timers(m) \/ CleanupStale(m)
    \/ \E m \in Message, a \in Attempt : RunStarts(m, a) \/ RunReplies(m, a) \/ RunErrors(m, a)
    \/ \E rs \in SUBSET Runs!Seen : RunsHide(rs)
    \/ \E g \in Agent : Cooldown(g) \/ ChangeAgents(g)

Spec == Init /\ [][Next]_vars

\* Node's timers fire; nothing is assumed of the agents.
FairSpec == Spec /\ \A m \in Message : WF_vars(Timers(m))

-----------------------------------------------------------------------------
Open(m) == pending[m] # "none" \/ m \in backoff

\* A blocking call that has not settled is waited for by exactly one timer, and
\* a settled one by none: no extension, backoff, late reply or error leaves a
\* caller without a timer or lets a timer retry a call that is over.  Only the
\* sweep of an entry older than its threshold leaves a caller without one.
WaitingIsTimed ==
    /\ \A m \in Message : Open(m) => promise[m] = "waiting"
    /\ \A m \in Message \ Slow : promise[m] = "waiting" => Open(m)
    /\ \A m \in backoff : pending[m] = "none"

\* A conversation is tracked for a blocking call only while the call waits, so
\* a timeout never aborts the conversation for a call that has settled.
TrackedWaits == \A m \in tracked \ Posted : pending[m] # "none"

\* The three records of a blocking call, its promise, its timer and the tracked
\* conversation, agree at every point between its handlers.
CallsAgree == WaitingIsTimed /\ TrackedWaits

\* A blocking call is answered only if a run of its own replied.
AnswerFromAgent ==
    \A m \in Message \ Posted :
        promise[m] = "answered" => \E a \in Attempt : run[<<m, a>>] = "replied"

\* The breaker is closed exactly while a target has failed fewer times in a row
\* than the threshold, whatever probes, late replies and routing errors do.
BreakerCounts == \A g \in Agent : breaker[g] = "closed" <=> failures[g] < Threshold

\* Every call to sendMessage with a timeout below the sweep's returns or throws.
EverySendSettles ==
    \A m \in Message \ Slow : promise[m] = "waiting" ~> promise[m] \in {"answered", "failed"}

\* The router drives the executor as AgentRuns lets it: no attempt, however its
\* timers, extensions and late answers fall, is run a second time.
RunsSpec == Runs!Spec

\* A retry starts a new run only if the message's earlier run has ended.
OneLiveRun ==
    \A m \in Message : \A a, b \in Attempt :
        /\ run[<<m, a>>] \in {"waiting", "running"}
        /\ run[<<m, b>>] \in {"waiting", "running"}
        => a = b
=============================================================================
