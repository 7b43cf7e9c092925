----------------------------- MODULE TaskPlanner ----------------------------
(***************************************************************************)
(* The TaskPlanner: a task is split into subtasks, each is given to an     *)
(* agent by its skill and sent by the message router, in batches or one    *)
(* after the other, and what each answers is left as a fact for the next   *)
(* ones.  Plans are kept for the API, the oldest dropped beyond a bound.   *)
(*                                                                         *)
(* What a task is split into and who has which skill is data: a plan       *)
(* starts with any assignment _decompose and _assignAgents can produce.    *)
(***************************************************************************)
EXTENDS Naturals, Sequences, FiniteSets, SequencesExt

CONSTANTS
    Plan,
    Worker,
    NoWorker,          \* a model value: no agent has the skill
    maxSubtasks,
    maxConcurrency,
    maxPlans          \* plans that are kept

ASSUME PlannerAssumption ==
    /\ NoWorker \notin Worker
    /\ maxSubtasks \in Nat \ {0, 1} /\ maxConcurrency \in Nat \ {0} /\ maxPlans \in Nat

VARIABLES
    planStatus,     \* status of each plan
    planStrategy,
    planAssigned,   \* the agent of each subtask
    planResult,     \* the outcome of each subtask
    planFacts,      \* the subtask that wrote the fact of each agent, 0 for none
    planForgotten,  \* plans whose shared namespace is gone
    planTracked     \* activePlans, oldest first

planVars == <<planStatus, planStrategy, planAssigned, planResult, planFacts, planForgotten,
              planTracked>>

Outcome == {"todo", "sent", "ok", "error", "skipped"}
IsOver(outcome) == outcome \in {"ok", "error", "skipped"}

PlannerTypeOK ==
    /\ planStatus \in [Plan -> {"new", "no_subtasks", "planned", "executing", "completed"}]
    /\ planStrategy \in [Plan -> {"parallel", "sequential"}]
    /\ planFacts \in [Plan -> [Worker -> 0..maxSubtasks]]
    /\ planForgotten \subseteq Plan
    /\ IsInjective(planTracked) /\ Range(planTracked) \subseteq Plan
    /\ \A p \in Plan :
          /\ planAssigned[p] \in Seq(Worker \cup {NoWorker})
          /\ planResult[p] \in [DOMAIN planAssigned[p] -> Outcome]
          /\ Len(planAssigned[p]) \in {0} \cup 2..maxSubtasks

PlannerInit ==
    /\ planStatus = [p \in Plan |-> "new"]
    /\ planStrategy = [p \in Plan |-> "parallel"]
    /\ planAssigned = [p \in Plan |-> <<>>]
    /\ planResult = [p \in Plan |-> <<>>]
    /\ planFacts = [p \in Plan |-> [a \in Worker |-> 0]]
    /\ planForgotten = {}
    /\ planTracked = <<>>

\* Mutant: what splits into one part is a plan of one subtask.
AssignmentsOfOne == UNION {[1..n -> Worker \cup {NoWorker}] : n \in 0..maxSubtasks}

\* The subtasks of a task: none, or at least two.
Assignments == UNION {[1..n -> Worker \cup {NoWorker}] : n \in {0} \cup 2..maxSubtasks}

\* planAndExecute up to its first await.
PlanTask(p) ==
    /\ planStatus[p] = "new"
    /\ \E assigned \in Assignments, dryRun \in BOOLEAN, strategy \in {"parallel", "sequential"} :
          /\ planAssigned' = [planAssigned EXCEPT ![p] = assigned]
          /\ planResult' = [planResult EXCEPT ![p] = [i \in DOMAIN assigned |-> "todo"]]
          /\ planStrategy' = [planStrategy EXCEPT ![p] = strategy]
          /\ planStatus' = [planStatus EXCEPT ![p] =
                IF assigned = <<>> THEN "no_subtasks" ELSE IF dryRun THEN "planned" ELSE "executing"]
          /\ planTracked' = IF assigned = <<>> THEN planTracked ELSE Append(planTracked, p)
    /\ UNCHANGED <<planFacts, planForgotten>>

BatchSize(p) == IF planStrategy[p] = "sequential" THEN 1 ELSE maxConcurrency

\* Mutant: a subtask without an agent is not in a batch.
BatchOfAssigned(p) ==
    LET open == {i \in DOMAIN planResult[p] : planResult[p][i] = "todo" /\ planAssigned[p][i] # NoWorker}
    IN  {i \in open : Cardinality({j \in open : j < i}) < BatchSize(p)}

\* The next batch: the first that are open, one of them for a sequential plan.
Batch(p) ==
    LET open == {i \in DOMAIN planResult[p] : planResult[p][i] = "todo"}
    IN  {i \in open : Cardinality({j \in open : j < i}) < BatchSize(p)}

\* Mutant: a batch is begun as soon as there is room in it.
BatchHasRoom(p) ==
    Cardinality({i \in DOMAIN planResult[p] : planResult[p][i] = "sent"}) < maxConcurrency

BatchIsOver(p) == \A i \in DOMAIN planResult[p] : planResult[p][i] # "sent"

\* _executeSingle of the batch up to the await; without an agent it is skipped.
StartBatch(p) ==
    /\ planStatus[p] = "executing"
    /\ BatchIsOver(p)
    /\ Batch(p) # {}
    /\ planResult' = [planResult EXCEPT ![p] = [i \in DOMAIN planResult[p] |->
          IF i \notin Batch(p) THEN planResult[p][i]
          ELSE IF planAssigned[p][i] = NoWorker THEN "skipped" ELSE "sent"]]
    /\ UNCHANGED <<planStatus, planStrategy, planAssigned, planFacts, planForgotten, planTracked>>

\* Mutant: the first answer of an agent stays.
AnsweredOnce(p, i) ==
    /\ planResult[p][i] = "sent"
    /\ planResult' = [planResult EXCEPT ![p][i] = "ok"]
    /\ planFacts' = IF p \in planForgotten \/ planFacts[p][planAssigned[p][i]] > 0 THEN planFacts
                    ELSE [planFacts EXCEPT ![p][planAssigned[p][i]] = i]
    /\ UNCHANGED <<planStatus, planStrategy, planAssigned, planForgotten, planTracked>>

\* An answer, not an empty one; it replaces the fact an earlier subtask of the skill and agent left.
Answered(p, i) ==
    /\ planResult[p][i] = "sent"
    /\ planResult' = [planResult EXCEPT ![p][i] = "ok"]
    /\ planFacts' = IF p \in planForgotten THEN planFacts
                    ELSE [planFacts EXCEPT ![p][planAssigned[p][i]] = i]
    /\ UNCHANGED <<planStatus, planStrategy, planAssigned, planForgotten, planTracked>>

\* The router rejects: blocked, no answer in time, the agent failed.
SubtaskFails(p, i) ==
    /\ planResult[p][i] = "sent"
    /\ planResult' = [planResult EXCEPT ![p][i] = "error"]
    /\ UNCHANGED <<planStatus, planStrategy, planAssigned, planFacts, planForgotten, planTracked>>

\* All batches are over; the plans kept beyond the bound are dropped, oldest
\* first, whatever their status.
CompletePlan(p) ==
    /\ planStatus[p] = "executing"
    /\ \A i \in DOMAIN planResult[p] : IsOver(planResult[p][i])
    /\ planStatus' = [planStatus EXCEPT ![p] = "completed"]
    /\ planTracked' = IF Len(planTracked) > maxPlans
                      THEN SubSeq(planTracked, Len(planTracked) - maxPlans + 1, Len(planTracked))
                      ELSE planTracked
    /\ UNCHANGED <<planStrategy, planAssigned, planResult, planFacts, planForgotten>>

\* SharedContext drops the namespace, too old or evicted.
NamespaceGoes(p) ==
    /\ planStatus[p] = "executing" /\ p \notin planForgotten
    /\ planForgotten' = planForgotten \cup {p}
    /\ planFacts' = [planFacts EXCEPT ![p] = [a \in Worker |-> 0]]
    /\ UNCHANGED <<planStatus, planStrategy, planAssigned, planResult, planTracked>>

PlannerNext ==
    \/ \E p \in Plan : PlanTask(p)
    \/ \E p \in Plan : StartBatch(p)
    \/ \E p \in Plan : \E i \in DOMAIN planResult[p] : Answered(p, i)
    \/ \E p \in Plan : \E i \in DOMAIN planResult[p] : SubtaskFails(p, i)
    \/ \E p \in Plan : CompletePlan(p)
    \/ \E p \in Plan : NamespaceGoes(p)

\* The router settles every message it was given, by its timeout at the latest.
PlannerFairness ==
    \A p \in Plan :
        /\ WF_planVars(StartBatch(p))
        /\ WF_planVars(CompletePlan(p))
        /\ \A i \in 1..maxSubtasks : WF_planVars(i \in DOMAIN planResult[p] /\ SubtaskFails(p, i))

-----------------------------------------------------------------------------
(* Properties.                                                              *)

\* Subtasks are taken up in order and no agent is asked beyond the bound: while
\* one of a batch is out, at most maxConcurrency are, one in a sequential plan,
\* and none that comes after them has been begun (343-404).
InOrder ==
    \A p \in Plan :
        LET of(outcomes) == {i \in DOMAIN planResult[p] : planResult[p][i] \in outcomes}
        IN  /\ Cardinality(of({"sent"})) <= BatchSize(p)
            /\ \A i \in of({"todo"}), j \in DOMAIN planResult[p] \ of({"todo"}) : j < i

\* A later step of a sequential plan is told the latest answer of everyone who
\* has answered before, and every answer of any plan leaves a fact, while the
\* namespace lasts (434-474).
FactsAreHandedOn ==
    \A p \in Plan \ planForgotten : \A i \in DOMAIN planResult[p] :
        planResult[p][i] = "ok" =>
            /\ planFacts[p][planAssigned[p][i]] > 0
            /\ planStrategy[p] = "sequential" => planFacts[p][planAssigned[p][i]] >= i

\* A plan that was begun ends with an outcome for every subtask, whichever of
\* them fail, are skipped or lose their namespace (142-173).
PlanEnds ==
    \A p \in Plan : planStatus[p] = "executing" ~>
        planStatus[p] = "completed" /\ \A i \in DOMAIN planResult[p] : IsOver(planResult[p][i])
=============================================================================
