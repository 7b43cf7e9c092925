----------------------------- MODULE LaneQueue ------------------------------
(***************************************************************************)
(* One lane of the LaneQueue: tasks of a channel and user, run one after   *)
(* the other, with a timeout, retries and a bound on the queue, and the    *)
(* health watchdog's cure for a stuck lane.  Lanes share nothing; an idle  *)
(* lane that is deleted comes back as it was created.                      *)
(*                                                                         *)
(* The task that runs stays at the head of the queue; the loop takes the   *)
(* head off once its attempt settles, whatever is at the head by then.     *)
(***************************************************************************)
EXTENDS Naturals, Sequences, FiniteSets, SequencesExt

CONSTANTS
    Task,
    NoTask,          \* a model value: the loop waits for no task
    maxQueueDepth,
    laneMaxRetries

ASSUME LaneAssumption ==
    /\ NoTask \notin Task
    /\ maxQueueDepth \in Nat \ {0}
    /\ laneMaxRetries \in Nat

VARIABLES
    laneQueue,     \* lane.queue
    laneCurrent,   \* the task whose attempt _processLane awaits
    laneRetries,   \* taskWrapper.retries
    lanePromise,   \* what the caller of enqueue has been told
    laneRunning,   \* attempts of tasks that have been started and have not ended
    laneTimer,     \* the timer of the awaited attempt is pending
    laneStuck,     \* currentTask was enqueued longer than laneStuckTimeoutMs ago
    laneUp,        \* not shut down
    laneRaced      \* history: the queue was cleared while a task was running

laneVars == <<laneQueue, laneCurrent, laneRetries, lanePromise, laneRunning, laneTimer,
              laneStuck, laneUp, laneRaced>>

Attempt == Task \X (0..laneMaxRetries)

LaneTypeOK ==
    /\ laneQueue \in Seq(Task) /\ Len(laneQueue) <= maxQueueDepth
    /\ laneCurrent \in Task \cup {NoTask}
    /\ laneRetries \in [Task -> 0..laneMaxRetries]
    /\ lanePromise \in [Task -> {"new", "pending", "resolved", "rejected"}]
    /\ laneRunning \subseteq Attempt
    /\ laneTimer \in BOOLEAN /\ laneStuck \in BOOLEAN
    /\ laneUp \in BOOLEAN /\ laneRaced \in BOOLEAN

LaneInit ==
    /\ laneQueue = <<>>
    /\ laneCurrent = NoTask
    /\ laneRetries = [t \in Task |-> 0]
    /\ lanePromise = [t \in Task |-> "new"]
    /\ laneRunning = {}
    /\ laneTimer = FALSE
    /\ laneStuck = FALSE
    /\ laneUp = TRUE
    /\ laneRaced = FALSE

\* A promise settles once.
Settled(tasks, outcome) ==
    [t \in Task |-> IF t \in tasks /\ lanePromise[t] = "pending" THEN outcome
                                                                  ELSE lanePromise[t]]

Current == <<laneCurrent, laneRetries[laneCurrent]>>

\* The loop of _processLane goes round with this queue, while the attempts in
\* still go on.
NextTask(queue, still, retries) ==
    /\ laneQueue' = queue
    /\ laneRetries' = retries
    /\ laneStuck' = FALSE
    /\ IF queue = <<>>
       THEN /\ laneCurrent' = NoTask
            /\ laneTimer' = FALSE
            /\ laneRunning' = still
       ELSE /\ laneCurrent' = Head(queue)
            /\ laneTimer' = TRUE
            /\ laneRunning' = still \cup {<<Head(queue), retries[Head(queue)]>>}

Rest(queue) == IF queue = <<>> THEN <<>> ELSE Tail(queue)

-----------------------------------------------------------------------------

\* Mutant: the head, which is being run, does not count.
EnqueueOne(t) ==
    /\ laneUp
    /\ lanePromise[t] = "new"
    /\ IF Len(laneQueue) > maxQueueDepth
       THEN /\ lanePromise' = [lanePromise EXCEPT ![t] = "rejected"]
            /\ UNCHANGED <<laneQueue, laneCurrent, laneRetries, laneRunning, laneTimer, laneStuck>>
       ELSE /\ lanePromise' = [lanePromise EXCEPT ![t] = "pending"]
            /\ IF laneCurrent # NoTask
               THEN /\ laneQueue' = Append(laneQueue, t)
                    /\ UNCHANGED <<laneCurrent, laneRetries, laneRunning, laneTimer, laneStuck>>
               ELSE NextTask(<<t>>, laneRunning, laneRetries)
    /\ UNCHANGED <<laneUp, laneRaced>>

Enqueue(t) ==
    /\ laneUp
    /\ lanePromise[t] = "new"
    /\ IF Len(laneQueue) >= maxQueueDepth
       THEN /\ lanePromise' = [lanePromise EXCEPT ![t] = "rejected"]
            /\ UNCHANGED <<laneQueue, laneCurrent, laneRetries, laneRunning, laneTimer, laneStuck>>
       ELSE /\ lanePromise' = [lanePromise EXCEPT ![t] = "pending"]
            /\ IF laneCurrent # NoTask
               THEN /\ laneQueue' = Append(laneQueue, t)
                    /\ UNCHANGED <<laneCurrent, laneRetries, laneRunning, laneTimer, laneStuck>>
               ELSE NextTask(<<t>>, laneRunning, laneRetries)
    /\ UNCHANGED <<laneUp, laneRaced>>

Resolve ==
    /\ lanePromise' = Settled({laneCurrent}, "resolved")
    /\ NextTask(Rest(laneQueue), laneRunning \ {Current}, laneRetries)

\* Mutant: the task is pushed without being shifted off.
RetryInPlace(still) ==
    /\ laneRetries[laneCurrent] < laneMaxRetries
    /\ NextTask(Append(laneQueue, laneCurrent), still,
                [laneRetries EXCEPT ![laneCurrent] = @ + 1])
    /\ UNCHANGED lanePromise

\* A failure that may be retried sends the task to the end of the queue.
Retry(still) ==
    /\ laneRetries[laneCurrent] < laneMaxRetries
    /\ NextTask(Append(Rest(laneQueue), laneCurrent), still,
                [laneRetries EXCEPT ![laneCurrent] = @ + 1])
    /\ UNCHANGED lanePromise

Reject(still) ==
    /\ lanePromise' = Settled({laneCurrent}, "rejected")
    /\ NextTask(Rest(laneQueue), still, laneRetries)

\* The attempt the loop awaits ends in time.
AttemptEnds ==
    /\ laneTimer
    /\ LET still == laneRunning \ {Current}
       IN  \/ Resolve
           \/ Retry(still)                              \* a retryable error
           \/ Reject(still)                             \* another, or once too often
    /\ UNCHANGED <<laneUp, laneRaced>>

\* Mutant: a task that timed out is forgotten with its attempt.
TimesOutUnheard ==
    /\ laneTimer
    /\ IF laneRetries[laneCurrent] < laneMaxRetries
       THEN Retry(laneRunning)
       ELSE NextTask(Rest(laneQueue), laneRunning, laneRetries) /\ UNCHANGED lanePromise
    /\ UNCHANGED <<laneUp, laneRaced>>

\* "Task timeout" is a retryable error; the attempt itself goes on.
TimesOut ==
    /\ laneTimer
    /\ IF laneRetries[laneCurrent] < laneMaxRetries THEN Retry(laneRunning) ELSE Reject(laneRunning)
    /\ UNCHANGED <<laneUp, laneRaced>>

\* The end of an attempt nobody waits for any more.
LateEnd(a) ==
    /\ a \in laneRunning
    /\ ~(laneTimer /\ a = Current)
    /\ laneRunning' = laneRunning \ {a}
    /\ UNCHANGED <<laneQueue, laneCurrent, laneRetries, lanePromise, laneTimer, laneStuck,
                   laneUp, laneRaced>>

\* The running task is rejected too, and runs on at the head of nothing.
ClearQueue ==
    /\ laneUp
    /\ lanePromise' = Settled(Range(laneQueue), "rejected")
    /\ laneQueue' = <<>>
    /\ laneRaced' = (laneRaced \/ laneCurrent # NoTask)
    /\ UNCHANGED <<laneCurrent, laneRetries, laneRunning, laneTimer, laneStuck, laneUp>>

TaskAges ==
    /\ laneCurrent # NoTask
    /\ laneStuck' = TRUE
    /\ UNCHANGED <<laneQueue, laneCurrent, laneRetries, lanePromise, laneRunning, laneTimer,
                   laneUp, laneRaced>>

\* Mutant: the queue is spliced from its head.
UnstickAll ==
    /\ laneUp /\ laneStuck /\ Len(laneQueue) > 1
    /\ lanePromise' = Settled(Range(laneQueue), "rejected")
    /\ laneQueue' = <<>>
    /\ UNCHANGED <<laneCurrent, laneRetries, laneRunning, laneTimer, laneStuck, laneUp, laneRaced>>

\* HealthWatchdog._checkStuckLanes: everything behind the head is rejected.
CheckStuckLane ==
    /\ laneUp /\ laneStuck /\ Len(laneQueue) > 1
    /\ lanePromise' = Settled(Range(Tail(laneQueue)), "rejected")
    /\ laneQueue' = <<Head(laneQueue)>>
    /\ UNCHANGED <<laneCurrent, laneRetries, laneRunning, laneTimer, laneStuck, laneUp, laneRaced>>

\* The lanes are forgotten; the loop runs on over a lane without a queue.
LaneShutdown ==
    /\ laneUp
    /\ laneUp' = FALSE
    /\ lanePromise' = Settled(Range(laneQueue), "rejected")
    /\ laneQueue' = <<>>
    /\ UNCHANGED <<laneCurrent, laneRetries, laneRunning, laneTimer, laneStuck, laneRaced>>

LaneNext ==
    \/ \E t \in Task : Enqueue(t)
    \/ AttemptEnds
    \/ TimesOut
    \/ \E a \in Attempt : LateEnd(a)
    \/ ClearQueue
    \/ TaskAges
    \/ CheckStuckLane
    \/ LaneShutdown

\* A timer that is pending fires.
LaneFairness == WF_laneVars(TimesOut)

-----------------------------------------------------------------------------
(* Properties.                                                              *)

\* A task whose caller still waits is in the queue: it was not shifted off by
\* the end of another, unless the queue was cleared under a running task (208).
WaitingTaskKept ==
    ~laneRaced => \A t \in Task : lanePromise[t] = "pending" => t \in Range(laneQueue)

\* A task that was run to its end is not run again: only a retry puts a task
\* back, and one that is in the queue is there once.
QueuedOnce ==
    ~laneRaced => IsInjective(laneQueue)

\* Whoever enqueued a task is told how it ended: the timeout bounds every
\* attempt and the retries are bounded ("Returns a promise that resolves when
\* task completes", 50), unless the queue was cleared under a running task.
LaneServed ==
    \A t \in Task : lanePromise[t] = "pending" ~> lanePromise[t] # "pending" \/ laneRaced
=============================================================================
