----------------------------- MODULE AgentRuns -----------------------------
(***************************************************************************)
(* The runs of an agent executor as the rest of the server sees them:      *)
(* execute() starts one, isProcessActive() and abort() see the one whose   *)
(* process holds the entry of the conversation, if any, and onComplete or  *)
(* onError ends it.                                                        *)
(*                                                                         *)
(* The executor implements this module (AgentExecutor.RunsSpec) and the    *)
(* message router is built on it (MessageRouter.RunsSpec).                 *)
(***************************************************************************)
CONSTANTS
    Run,    \* calls of execute()
    ConvOf  \* the conversation each is made for

VARIABLE run

\* "waiting": not over and without an entry: queued, asleep before a retry, waiting
\* for an agent it wrote to, thrown out of a queue, or at work in a process that
\* abort(), a cleanup or another run has taken the entry from.
RunState == {"none", "waiting", "running", "replied", "errored"}

Init == run = [r \in Run |-> "none"]

\* isProcessActive
IsProcessActive(c) == \E r \in Run : ConvOf[r] = c /\ run[r] = "running"

Begin(r) ==
    /\ run[r] = "none"
    /\ run' = [run EXCEPT ![r] = "waiting"]

\* A process starts and takes the entry of its conversation, from whoever has it.
Take(r) ==
    /\ run[r] = "waiting"
    /\ run' = [x \in Run |-> CASE x = r -> "running"
                               [] x # r /\ ConvOf[x] = ConvOf[r] /\ run[x] = "running" -> "waiting"
                               [] OTHER -> run[x]]

\* The runs of rs lose their entries.
Hidden(rs) == [x \in Run |-> IF x \in rs THEN "waiting" ELSE run[x]]
Seen == {x \in Run : run[x] = "running"}

Hide(rs) == run' = Hidden(rs)

\* abort(c)
Abort(c) == Hide({x \in Seen : ConvOf[x] = c})

\* A run ends, whether or not it has the entry, and may take that of another away.
End(r, how, rs) ==
    /\ run[r] \in {"waiting", "running"}
    /\ run' = [Hidden(rs) EXCEPT ![r] = how]

Next ==
    \/ \E r \in Run : Begin(r) \/ Take(r)
    \/ \E rs \in SUBSET Seen : Hide(rs)
    \/ \E r \in Run, how \in {"replied", "errored"}, rs \in SUBSET Seen : End(r, how, rs)

Spec == Init /\ [][Next]_run
=============================================================================
