------------------------------ MODULE Webhooks ------------------------------
(***************************************************************************)
(* The WebhookManager and its routes: hooks kept in a file, a rate limit   *)
(* per source, and deliveries that are forwarded with retries and logged.  *)
(* A delivery holds on to the hook it found, whatever becomes of the hook. *)
(* The subscriber is the environment: it may accept, refuse or fail.       *)
(***************************************************************************)
EXTENDS Naturals, FiniteSets

CONSTANTS
    Hook,
    Delivery,
    Large,          \* deliveries whose payload is too large for the log
    Forwarded,      \* hooks created with a forwardUrl
    hookMaxRetries,
    rateLimitMax

ASSUME WebhookAssumption ==
    /\ Large \subseteq Delivery
    /\ Forwarded \subseteq Hook
    /\ hookMaxRetries \in Nat /\ rateLimitMax \in Nat

VARIABLES
    hookLive,       \* hooks
    hookFile,       \* webhooks.json
    hookState,      \* where each delivery is
    hookOf,         \* the hook it came for
    hookAttempts,   \* attempts to forward it
    hookAnswer,     \* what the last attempt to forward it came to
    hookRate        \* deliveries of the source in this window

hookVars == <<hookLive, hookFile, hookState, hookOf, hookAttempts, hookAnswer, hookRate>>

\* "lost": receive threw.  The log holds "received", "delivered" and "failed".
Over == {"refused", "lost", "received", "delivered", "failed"}
Logged == {"received", "delivered", "failed"}

WebhookTypeOK ==
    /\ hookLive \subseteq Hook
    /\ hookFile \subseteq Hook
    /\ hookState \in [Delivery -> {"new", "trying", "waiting"} \cup Over]
    /\ hookOf \in [Delivery -> Hook]
    /\ hookAttempts \in [Delivery -> 0..hookMaxRetries + 1]
    /\ hookAnswer \in [Delivery -> {"none", "ok", "refused", "error"}]
    /\ hookRate \in 0..rateLimitMax + 1

WebhookInit ==
    /\ hookLive = {}
    /\ hookFile = {}
    /\ hookState = [d \in Delivery |-> "new"]
    /\ hookOf \in [Delivery -> Hook]
    /\ hookAttempts = [d \in Delivery |-> 0]
    /\ hookAnswer = [d \in Delivery |-> "none"]
    /\ hookRate = 0

SaveHooks == hookFile' = hookLive'

CreateHook(h) ==
    /\ h \notin hookLive
    /\ hookLive' = hookLive \cup {h}
    /\ SaveHooks
    /\ UNCHANGED <<hookState, hookOf, hookAttempts, hookAnswer, hookRate>>

DeleteHook(h) ==
    /\ h \in hookLive
    /\ hookLive' = hookLive \ {h}
    /\ SaveHooks
    /\ UNCHANGED <<hookState, hookOf, hookAttempts, hookAnswer, hookRate>>

Try(d) ==
    /\ hookState' = [hookState EXCEPT ![d] = "trying"]
    /\ hookAttempts' = [hookAttempts EXCEPT ![d] = @ + 1]

\* POST /webhook/:id.  isRateLimited counts what it refuses; a payload that
\* _truncatePayload cuts is not JSON any more, and receive throws after the hook
\* has been saved.
Receive(d) ==
    /\ hookState[d] = "new"
    /\ hookRate' = IF hookOf[d] \in hookLive /\ hookRate <= rateLimitMax THEN hookRate + 1
                                                                        ELSE hookRate
    /\ IF hookOf[d] \notin hookLive \/ hookRate >= rateLimitMax
       THEN /\ hookState' = [hookState EXCEPT ![d] = "refused"]
            /\ UNCHANGED <<hookFile, hookAttempts>>
       ELSE /\ hookFile' = hookLive
            /\ \/ d \in Large
                  /\ hookState' = [hookState EXCEPT ![d] = "lost"]
                  /\ UNCHANGED hookAttempts
               \/ d \notin Large /\ hookOf[d] \in Forwarded
                  /\ Try(d)
               \/ d \notin Large /\ hookOf[d] \notin Forwarded
                  /\ hookState' = [hookState EXCEPT ![d] = "received"]
                  /\ UNCHANGED hookAttempts
    /\ UNCHANGED <<hookLive, hookOf, hookAnswer>>

\* The window of the rate limit is over.
NextWindow ==
    /\ hookRate > 0
    /\ hookRate' = 0
    /\ UNCHANGED <<hookLive, hookFile, hookState, hookOf, hookAttempts, hookAnswer>>

End(d, how) == hookState' = [hookState EXCEPT ![d] = how]
Tells(d, answer) == hookAnswer' = [hookAnswer EXCEPT ![d] = answer]

SubscriberAccepts(d) ==
    /\ hookState[d] = "trying"
    /\ End(d, "delivered")
    /\ Tells(d, "ok")
    /\ UNCHANGED <<hookLive, hookFile, hookOf, hookAttempts, hookRate>>

\* Mutant: every status that is not ok is retried.
RefusalRetried(d) ==
    /\ hookState[d] = "trying"
    /\ End(d, "waiting")
    /\ Tells(d, "refused")
    /\ UNCHANGED <<hookLive, hookFile, hookOf, hookAttempts, hookRate>>

\* A status in the four hundreds is not retried.
SubscriberRefuses(d) ==
    /\ hookState[d] = "trying"
    /\ End(d, "failed")
    /\ Tells(d, "refused")
    /\ UNCHANGED <<hookLive, hookFile, hookOf, hookAttempts, hookRate>>

\* Mutant: the last attempt is followed by one more.
FailsOneMore(d) ==
    /\ hookState[d] = "trying"
    /\ End(d, IF hookAttempts[d] <= hookMaxRetries + 1 THEN "waiting" ELSE "failed")
    /\ Tells(d, "error")
    /\ UNCHANGED <<hookLive, hookFile, hookOf, hookAttempts, hookRate>>

\* Another status, no connection, or no answer in ten seconds.
AttemptFails(d) ==
    /\ hookState[d] = "trying"
    /\ End(d, IF hookAttempts[d] <= hookMaxRetries THEN "waiting" ELSE "failed")
    /\ Tells(d, "error")
    /\ UNCHANGED <<hookLive, hookFile, hookOf, hookAttempts, hookRate>>

\* Mutant: the delay is never over for a hook that was deleted.
RetryIfLive(d) ==
    /\ hookState[d] = "waiting"
    /\ hookOf[d] \in hookLive
    /\ Try(d)
    /\ UNCHANGED <<hookLive, hookFile, hookOf, hookAnswer, hookRate>>

RetryForward(d) ==
    /\ hookState[d] = "waiting"
    /\ Try(d)
    /\ UNCHANGED <<hookLive, hookFile, hookOf, hookAnswer, hookRate>>

WebhookNext ==
    \/ \E h \in Hook : CreateHook(h)
    \/ \E h \in Hook : DeleteHook(h)
    \/ \E d \in Delivery : Receive(d)
    \/ NextWindow
    \/ \E d \in Delivery : SubscriberAccepts(d)
    \/ \E d \in Delivery : SubscriberRefuses(d)
    \/ \E d \in Delivery : AttemptFails(d)
    \/ \E d \in Delivery : RetryForward(d)

\* The abort timer of an attempt and the delay before a retry end.
WebhookFairness ==
    \A d \in Delivery :
        /\ WF_hookVars(AttemptFails(d))
        /\ WF_hookVars(RetryForward(d))

-----------------------------------------------------------------------------
(* Properties.                                                              *)

\* An answer is final and the log tells what it was: a delivery is tried again
\* only after an error, and given up only after a refusal or when the first
\* attempt and every retry have met an error (155-201).
LogTellsAnswer ==
    \A d \in Delivery :
        /\ hookState[d] \in {"trying", "waiting"} => hookAnswer[d] \in {"none", "error"}
        /\ hookState[d] = "delivered" => hookAnswer[d] = "ok"
        /\ hookState[d] = "failed" =>
               \/ hookAnswer[d] = "refused"
               \/ hookAnswer[d] = "error" /\ hookAttempts[d] = hookMaxRetries + 1

\* Every delivery that was accepted is logged in the end, with what became of
\* it, a deletion of its hook during the retries or not (144-150).
AcceptedIsLogged ==
    \A d \in Delivery : hookState[d] \in {"trying", "waiting"} ~> hookState[d] \in Logged
=============================================================================
