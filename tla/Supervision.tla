---------------------------- MODULE Supervision ----------------------------
(***************************************************************************)
(* The AgentSupervisor with its CircuitBreakers, the runs of the executor  *)
(* that consult and inform it, and the liveness check of the               *)
(* HealthWatchdog.  Processes are known by their pids, which the operating *)
(* system gives again to others once a process has been reaped.            *)
(*                                                                         *)
(* The supervisor's resource check only sends signals, to the pid it       *)
(* tracks; as any process may die at any moment here, it has no action.    *)
(* Time passes in ticks; ages stop growing where no guard tells them apart.*)
(***************************************************************************)
EXTENDS Integers, Sequences, FiniteSets

CONSTANTS
    Run,              \* requests, each of which may be made again and again
    Agent,            \* effective workspace ids, which is what breakers are kept by
    Pid,              \* process ids of the operating system
    AgentOf,          \* the agent of each request
    None,             \* no pid
    Stderr,           \* what the CLIs of this instance may fail with, see Kind
    MaxRetries,       \* CLI_MAX_RETRIES
    MaxRateRetries,   \* CLI_RATE_LIMIT_MAX_RETRIES
    FailureThreshold, \* failures in the window that open a circuit
    SuccessThreshold, \* successes that close a half-open one
    BaseTimeout,      \* options.timeout
    MaxTimeout,       \* options.maxTimeout
    ResetWindow       \* options.resetWindow

\* "transient": retryable; "rate": retryable and recognised as a rate limit;
\* "429": 'too many requests' or '429' without the words 'rate limit', which
\* _isRetryableCliError does not know; "late": a rate limit met by a retry when
\* CLI_RATE_LIMIT_MAX_TOTAL_MS have passed since the first; "plain": anything else.
Kind == {"plain", "transient", "rate", "429", "late"}
Retryable == {"transient", "rate", "late"}
RateLimit == {"rate", "429", "late"}

ASSUME ConstantAssumption ==
    /\ AgentOf \in [Run -> Agent]
    /\ None \notin Pid
    /\ Stderr \subseteq Kind
    /\ MaxRetries \in Nat /\ MaxRateRetries \in Nat
    /\ FailureThreshold \in Nat \ {0} /\ SuccessThreshold \in Nat \ {0}
    /\ BaseTimeout \in Nat \ {0} /\ MaxTimeout \in Nat /\ BaseTimeout < MaxTimeout
    /\ ResetWindow \in Nat \ {0}

VARIABLES
    run,      \* where each request stands, see Stage
    outcome,  \* how its last process ended
    retries,  \* options._retryCount of its attempt under way
    recorded, \* failures recorded for the request since it was made (history)
    pidOf,    \* the pid of its process until that is finalized, or None
    pids,     \* what each pid stands for: nothing, an agent, a dead agent, another program
    tracked,  \* pid of the agents entry with status 'running', or None
    known,    \* agents that have a circuit breaker
    breaker   \* the circuit breakers; those of unknown agents are fresh

runVars == <<run, outcome, retries, recorded, pidOf>>
vars == <<runVars, pids, tracked, known, breaker>>

\* "zombie": dead and not yet reaped; "exited": reaped, tryFinalize still to run.
Stage == {"ended", "running", "zombie", "exited", "backoff"}
Outcome == {"none", "ok", "cancel", "spawnError", "refused"} \cup Kind
Breaker ==
    [state : {"closed", "open", "halfOpen"},
     successes : 0..SuccessThreshold,
     timeout : BaseTimeout..MaxTimeout,   \* currentTimeout
     openFor : 0..MaxTimeout,             \* Date.now() - openedAt
     failures : Seq(0..(ResetWindow - 1))]  \* ages of the recent failures, newest first

TypeOK ==
    /\ run \in [Run -> Stage]
    /\ outcome \in [Run -> Outcome]
    /\ retries \in [Run -> Nat]
    /\ recorded \in [Run -> Nat]
    /\ pidOf \in [Run -> Pid \cup {None}]
    /\ pids \in [Pid -> {"free", "agent", "zombie", "stranger"}]
    /\ tracked \in [Agent -> Pid \cup {None}]
    /\ known \subseteq Agent
    /\ breaker \in [Agent -> Breaker]

Fresh == [state |-> "closed", successes |-> 0, timeout |-> BaseTimeout,
          openFor |-> 0, failures |-> <<>>]

Init ==
    /\ run = [r \in Run |-> "ended"]
    /\ outcome = [r \in Run |-> "none"]
    /\ retries = [r \in Run |-> 0]
    /\ recorded = [r \in Run |-> 0]
    /\ pidOf = [r \in Run |-> None]
    /\ pids = [p \in Pid |-> "free"]
    /\ tracked = [a \in Agent |-> None]
    /\ known = {}
    /\ breaker = [a \in Agent |-> Fresh]

-----------------------------------------------------------------------------
(* CircuitBreaker.                                                           *)

Lesser(m, n) == IF m < n THEN m ELSE n

\* Mutant: the backoff doubles without a limit.
OpenedLonger(b) ==
    [b EXCEPT !.state = "open", !.openFor = 0, !.successes = 0, !.timeout = 2 * @]
Opened(b) ==
    [b EXCEPT !.state = "open", !.openFor = 0, !.successes = 0,
              !.timeout = Lesser(2 * @, MaxTimeout)]

\* canExecute(): whether it allows the execution, and the breaker it leaves.
Blocked(b) == b.state = "open" /\ b.openFor < b.timeout
Checked(b) ==
    IF b.state = "open" /\ ~Blocked(b)
    THEN [b EXCEPT !.state = "halfOpen", !.successes = 0]
    ELSE b

\* Mutant: a closed circuit keeps the backoff of the last outage.
ClosedAgain(b) == [b EXCEPT !.state = "closed", !.failures = <<>>, !.successes = @ + 1]
Closed(b) ==
    [b EXCEPT !.state = "closed", !.failures = <<>>, !.successes = @ + 1,
              !.timeout = BaseTimeout]

RecordSuccess(b) ==
    IF b.state # "halfOpen" THEN b
    ELSE IF b.successes + 1 >= SuccessThreshold THEN Closed(b)
    ELSE [b EXCEPT !.successes = @ + 1]

\* Mutant: the circuit opens one failure too late.
TooManyAndOne(b) == Len(b.failures) > FailureThreshold
TooMany(b) == Len(b.failures) >= FailureThreshold

\* recordFailure() of the breaker, and the canExecute() the supervisor calls next.
RecordFailure(b) ==
    LET c == [b EXCEPT !.failures = <<0>> \o @]
    IN Checked(IF b.state = "halfOpen" \/ (b.state = "closed" /\ TooMany(c))
               THEN Opened(c) ELSE c)

\* _cleanOldFailures, which precedes every look at the failures of a closed circuit.
Recent(ages) == SubSeq(ages, 1, Cardinality({i \in DOMAIN ages : ages[i] < ResetWindow}))

Older(b) ==
    [b EXCEPT !.openFor = Lesser(@ + 1, MaxTimeout),
              !.failures = Recent([i \in DOMAIN @ |-> @[i] + 1])]

-----------------------------------------------------------------------------
(* The runs.                                                                 *)

\* Mutant: a refused execution starts the waiting time again.
RefusedRestarts(b) == [b EXCEPT !.openFor = 0]
Refused(b) == b

\* A request is made, or made again by a retry, while the circuit is open.
Refuse(r) ==
    LET a == AgentOf[r]
    IN /\ run[r] \in {"ended", "backoff"}
       /\ Blocked(breaker[a])
       /\ breaker' = [breaker EXCEPT ![a] = Refused(@)]
       /\ run' = [run EXCEPT ![r] = "ended"]
       /\ outcome' = [outcome EXCEPT ![r] = "refused"]
       /\ retries' = [retries EXCEPT ![r] = 0]
       /\ recorded' = [recorded EXCEPT ![r] = 0]
       /\ UNCHANGED <<pidOf, pids, tracked, known>>

Attempt(r) ==
    /\ run[r] \in {"ended", "backoff"}
    /\ ~Blocked(breaker[AgentOf[r]])
    /\ UNCHANGED retries

\* What was recorded for a request that is made, or made again by a retry.
Before(r) == IF run[r] = "ended" THEN 0 ELSE recorded[r]

\* The process starts and is registered; the breaker exists from here on.
Spawn(r, p) ==
    LET a == AgentOf[r]
    IN /\ Attempt(r)
       /\ pids[p] = "free"
       /\ run' = [run EXCEPT ![r] = "running"]
       /\ outcome' = [outcome EXCEPT ![r] = "none"]
       /\ recorded' = [recorded EXCEPT ![r] = Before(r)]
       /\ pidOf' = [pidOf EXCEPT ![r] = p]
       /\ pids' = [pids EXCEPT ![p] = "agent"]
       /\ tracked' = [tracked EXCEPT ![a] = p]
       /\ known' = known \cup {a}
       /\ breaker' = [breaker EXCEPT ![a] = Checked(@)]

\* Mutant: the agent's entry outlives a run that failed.
KeepIfFailed(r) ==
    tracked' = [tracked EXCEPT ![AgentOf[r]] = IF outcome[r] = "ok" THEN None ELSE @]
Unregister(r) == tracked' = [tracked EXCEPT ![AgentOf[r]] = None]

\* recordFailure() of the supervisor, for a run of agent a with breaker b.
Failed(a, b) == IF a \in known THEN RecordFailure(b) ELSE b

\* There is no process: the 'error' handler records and unregisters, 'close' follows.
SpawnError(r) ==
    LET a == AgentOf[r]
    IN /\ Attempt(r)
       /\ run' = [run EXCEPT ![r] = "exited"]
       /\ outcome' = [outcome EXCEPT ![r] = "spawnError"]
       /\ recorded' = [recorded EXCEPT ![r] = Before(r) + 1]
       /\ Unregister(r)
       /\ breaker' = [breaker EXCEPT ![a] = Failed(a, Checked(@))]
       /\ UNCHANGED <<pidOf, pids, known>>

Dies(r) ==
    /\ run[r] = "running"
    /\ run' = [run EXCEPT ![r] = "zombie"]
    /\ \E o \in {"ok", "cancel"} \cup Stderr :
           /\ o = "late" => retries[r] > 0
           /\ outcome' = [outcome EXCEPT ![r] = o]
    /\ pids' = [pids EXCEPT ![pidOf[r]] = "zombie"]
    /\ UNCHANGED <<retries, recorded, pidOf, tracked, known, breaker>>

\* Node sees the child's exit; 'close' follows when its pipes are drained.
Reap(r) ==
    /\ run[r] = "zombie"
    /\ run' = [run EXCEPT ![r] = "exited"]
    /\ pids' = [pids EXCEPT ![pidOf[r]] = "free"]
    /\ UNCHANGED <<outcome, retries, recorded, pidOf, tracked, known, breaker>>

\* The process is done with: the request has ended or waits to be tried again.
Leaves(r, stage) ==
    /\ run' = [run EXCEPT ![r] = stage]
    /\ retries' = [retries EXCEPT ![r] = IF stage = "backoff" THEN @ + 1 ELSE 0]
    /\ pidOf' = [pidOf EXCEPT ![r] = None]

FinalizeOk(r) ==
    LET a == AgentOf[r]
    IN /\ run[r] = "exited"
       /\ outcome[r] = "ok"
       /\ Unregister(r)
       /\ breaker' = [breaker EXCEPT ![a] = RecordSuccess(@)]
       /\ Leaves(r, "ended")
       /\ UNCHANGED <<outcome, recorded, pids, known>>

\* Exit code 143 or 137: tryFinalize returns before it comes to the supervisor.
FinalizeCancelled(r) ==
    /\ run[r] = "exited"
    /\ outcome[r] = "cancel"
    /\ Leaves(r, "ended")
    /\ UNCHANGED <<outcome, recorded, pids, tracked, known, breaker>>

\* _willRetryRateLimit || _willRetryOther, by which the supervisor is informed,
\* and the condition by which the run is in fact retried.
WillRetry(r) ==
    \/ outcome[r] \in RateLimit /\ retries[r] < MaxRateRetries
    \/ outcome[r] \in Retryable /\ retries[r] < MaxRetries
Retries(r) ==
    /\ outcome[r] \in Retryable \ {"late"}
    /\ retries[r] < IF outcome[r] \in RateLimit THEN MaxRateRetries ELSE MaxRetries

\* Mutant: every failed attempt is recorded.
RecordAll(r) == TRUE
RecordsFailure(r) == ~WillRetry(r)

FinalizeFailed(r) ==
    LET a == AgentOf[r]
    IN /\ run[r] = "exited"
       /\ outcome[r] \in Kind \cup {"spawnError"}
       /\ IF RecordsFailure(r)
          THEN /\ breaker' = [breaker EXCEPT ![a] = Failed(a, @)]
               /\ recorded' = [recorded EXCEPT ![r] = @ + 1]
          ELSE UNCHANGED <<breaker, recorded>>
       /\ Unregister(r)
       /\ Leaves(r, IF Retries(r) THEN "backoff" ELSE "ended")
       /\ UNCHANGED <<outcome, pids, known>>

-----------------------------------------------------------------------------
(* The watchdog, the operating system, the clock.                            *)

\* Mutant: only zombies are cleaned.
ZombiesOnly(a) == pids[tracked[a]] = "zombie"
Gone(a) == pids[tracked[a]] \in {"free", "zombie"}

\* _checkStuckAgents: ghosts and zombies lose their entry.
CheckStuckAgents ==
    /\ tracked' = [a \in Agent |->
           IF tracked[a] # None /\ Gone(a) THEN None ELSE tracked[a]]
    /\ UNCHANGED <<runVars, pids, known, breaker>>

StrangerStarts(p) ==
    /\ pids[p] = "free"
    /\ pids' = [pids EXCEPT ![p] = "stranger"]
    /\ UNCHANGED <<runVars, tracked, known, breaker>>

StrangerExits(p) ==
    /\ pids[p] = "stranger"
    /\ pids' = [pids EXCEPT ![p] = "free"]
    /\ UNCHANGED <<runVars, tracked, known, breaker>>

Tick ==
    /\ breaker' = [a \in Agent |-> Older(breaker[a])]
    /\ UNCHANGED <<runVars, pids, tracked, known>>

Next ==
    \/ \E r \in Run :
           \/ Refuse(r) \/ SpawnError(r) \/ Dies(r) \/ Reap(r)
           \/ FinalizeOk(r) \/ FinalizeCancelled(r) \/ FinalizeFailed(r)
           \/ \E p \in Pid : Spawn(r, p)
    \/ CheckStuckAgents
    \/ \E p \in Pid : StrangerStarts(p) \/ StrangerExits(p)
    \/ Tick

Spec == Init /\ [][Next]_vars

\* Time passes and the watchdog's interval timer fires.
FairSpec == Spec /\ WF_vars(Tick) /\ WF_vars(CheckStuckAgents)

-----------------------------------------------------------------------------
(* Safety.                                                                   *)

\* An agent whose circuit is closed has failed less often in the window than the
\* threshold, whatever late failures, aged ones and recoveries came before.
ClosedIsHealthy ==
    \A a \in Agent : breaker[a].state = "closed" => Len(breaker[a].failures) < FailureThreshold

\* The backoff of a circuit starts anew with every outage, and stays above its
\* first value for as long as the outage lasts: a probe does not shorten it.
BackoffOfOutage ==
    \A a \in Agent : breaker[a].state = "closed" <=> breaker[a].timeout = BaseTimeout

\* A request that failed for good is recorded once, one that was retried and came
\* through is not, and neither are cancelled ones: what executor.js says at 2533.
\* A spawn error is the exception, recorded by the 'error' and the 'close' handler.
FailureRecordedOnce ==
    \A r \in Run :
        recorded[r] = IF outcome[r] = "spawnError" THEN IF run[r] = "exited" THEN 1 ELSE 2
                      ELSE IF run[r] = "ended" /\ outcome[r] \in Kind THEN 1
                      ELSE 0

\* A ghost: an entry that is tracked, and by which the resource check would kill,
\* though no process of that agent that is still to be finalized has its pid.
Ghost(a) ==
    /\ tracked[a] # None
    /\ \A r \in Run : AgentOf[r] = a => pidOf[r] # tracked[a]

NewGhostsAreCancelled ==
    \A a \in Agent :
        Ghost(a)' => \/ Ghost(a)
                     \/ \E r \in Run : /\ AgentOf[r] = a
                                       /\ run[r] = "exited"
                                       /\ outcome[r] = "cancel"
                                       /\ run'[r] = "ended"

\* Only a cancelled run leaves a ghost behind: every other way to end strikes the
\* entry off, also when runs of one agent overlap and take each other's entry.
GhostsAreCancelled == [][NewGhostsAreCancelled]_vars

-----------------------------------------------------------------------------
(* Liveness.                                                                 *)

\* An open circuit lets the agent be tried again, however often it is asked.
CircuitProbed ==
    \A a \in Agent : Blocked(breaker[a]) ~> ~Blocked(breaker[a])

\* A ghost is cleaned, unless its pid is given to somebody first.
GhostCleaned ==
    \A a \in Agent :
        (Ghost(a) /\ pids[tracked[a]] = "free")
            ~> (~Ghost(a) \/ pids[tracked[a]] # "free")
=============================================================================
