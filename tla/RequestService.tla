--------------------------- MODULE RequestService ---------------------------
(***************************************************************************)
(* What the agent executor promises to its callers, whatever queues,       *)
(* retries, delegation turns, aborts and process failures go on inside:    *)
(* a request is answered at most once and for good, only after it has been *)
(* submitted, and can only be lost while no agent works on it.             *)
(***************************************************************************)
CONSTANT Request
VARIABLE status

Statuses == {"idle", "accepted", "working", "answered", "lost"}

TypeOK == status \in [Request -> Statuses]

Init == status = [r \in Request |-> "idle"]

Move(r, from, to) ==
    /\ status[r] \in from
    /\ status' = [status EXCEPT ![r] = to]

Accept(r) == Move(r, {"idle"}, "accepted")
Start(r) == Move(r, {"accepted"}, "working")

\* The agent's turn is over but the request is not: a retry or a delegation turn.
Yield(r) == Move(r, {"working"}, "accepted")

Answer(r) == Move(r, {"accepted", "working"}, "answered")

\* A cancellation throws out waiting requests, several at once.
Lose(rs) ==
    /\ \A r \in rs : status[r] = "accepted"
    /\ status' = [r \in Request |-> IF r \in rs THEN "lost" ELSE status[r]]

Next ==
    \/ \E r \in Request : Accept(r) \/ Start(r) \/ Yield(r) \/ Answer(r)
    \/ \E rs \in SUBSET Request : Lose(rs)

Spec == Init /\ [][Next]_status
=============================================================================
