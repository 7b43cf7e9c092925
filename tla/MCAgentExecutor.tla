--------------------------- MODULE MCAgentExecutor ---------------------------
(* Small instances of AgentExecutor: who sends what where.                   *)
EXTENDS AgentExecutor

CONSTANTS r1, r2, r3, c1, c2, w1, system

\* Every workspace id but w1 is unknown and resolves to the default one, w1.
ToDefault == [w \in Workspace |-> w1]

\* All requests in one conversation of one workspace.
SameConv == [r \in Request |-> c1]
SameWorkspace == [r \in Request |-> w1]
Plain == [r \in Request |-> {}]

\* Every way a request can go, all in one conversation.
AnyCourse == [r \in Request |->
    CASE r = r1 -> {"delegate", "selfRestart", "compact"}
      [] r = r2 -> {"early", "compact", "unspawnable"}
      [] OTHER -> {"long"}]

\* Two conversations of one workspace, and the error analyzer's cron request,
\* which names the unknown workspace 'system'.
TwoConvs == [r \in Request |-> IF r = r2 THEN c2 ELSE c1]
CronElsewhere == [r \in Request |-> IF r = r2 THEN system ELSE w1]
CronAndRoute == [r \in Request |->
    CASE r = r1 -> {"delegate", "long"} [] r = r2 -> {"cron", "unspawnable"} [] OTHER -> {"route", "early"}]
SpawnMayFail == [r \in Request |-> IF r = r2 THEN {"unspawnable"} ELSE {}]

\* r1 may run for long; r1 may delegate.
LongFirst == [r \in Request |-> IF r = r1 THEN {"long"} ELSE {}]
DelegateFirst == [r \in Request |-> IF r = r1 THEN {"delegate"} ELSE {}]
=============================================================================
