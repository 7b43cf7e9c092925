------------------------ MODULE MessageRouterProofs ------------------------
(***************************************************************************)
(* The safety invariants of the message router, for any messages, agents,  *)
(* conversations, numbers of retries and threshold.                        *)
(*                                                                         *)
(* They are inductive together.  CallsOK is about the calls, BreakersOK    *)
(* about the breakers; a step moves the call of one message, which CallMove*)
(* describes, and the breaker of its target.                               *)
(***************************************************************************)
EXTENDS MessageRouter, TLAPS

CallsOK ==
    /\ promise \in [Message -> {"new", "waiting", "answered", "failed"}]
    /\ pending \in [Message -> {"none", "first", "extended"}]
    /\ attempt \in [Message -> Attempt]
    /\ backoff \subseteq Message
    /\ tracked \subseteq Message
    /\ WaitingIsTimed
    /\ TrackedWaits

BreakersOK ==
    /\ failures \in [Agent -> Nat]
    /\ breaker \in [Agent -> {"closed", "open", "half-open"}]
    /\ cooled \in [Agent -> BOOLEAN]
    /\ BreakerCounts

RunsOK == run \in [Message \X Attempt -> Runs!RunState]

IInv == CallsOK /\ BreakersOK /\ RunsOK /\ known \subseteq Agent /\ AnswerFromAgent

-----------------------------------------------------------------------------
(* What a step does to the calls.                                            *)

\* A step that moves the call of m alone keeps the calls in order if it leaves
\* that of m in order: waiting exactly with a timer or in its backoff.
LEMMA CallMove ==
    ASSUME CallsOK,
           NEW m \in Message,
           NEW p \in {"new", "waiting", "answered", "failed"},
           NEW q \in {"none", "first", "extended"},
           promise' = [promise EXCEPT ![m] = p],
           pending' = [pending EXCEPT ![m] = q],
           attempt' \in [Message -> Attempt],
           backoff' \subseteq Message, tracked' \subseteq Message,
           \A n \in Message \ {m} : n \in backoff' <=> n \in backoff,
           \A n \in Message \ {m} : n \in tracked' <=> n \in tracked,
           q # "none" \/ m \in backoff' => p = "waiting",
           m \notin Slow /\ p = "waiting" => q # "none" \/ m \in backoff',
           m \in backoff' => q = "none",
           m \in tracked' /\ m \notin Posted => q # "none"
    PROVE  CallsOK'
<1>1. /\ promise' \in [Message -> {"new", "waiting", "answered", "failed"}]
      /\ pending' \in [Message -> {"none", "first", "extended"}]
  BY DEF CallsOK
<1>2. /\ promise'[m] = p /\ pending'[m] = q
      /\ \A n \in Message \ {m} : promise'[n] = promise[n] /\ pending'[n] = pending[n]
  BY DEF CallsOK
<1>3. WaitingIsTimed'
  <2>1. ASSUME NEW n \in Message, Open(n)'
        PROVE  promise'[n] = "waiting"
    BY <2>1, <1>2 DEF CallsOK, WaitingIsTimed, Open
  <2>2. ASSUME NEW n \in Message \ Slow, promise'[n] = "waiting"
        PROVE  Open(n)'
    BY <2>2, <1>2 DEF CallsOK, WaitingIsTimed, Open
  <2>3. ASSUME NEW n \in backoff'
        PROVE  pending'[n] = "none"
    BY <2>3, <1>2 DEF CallsOK, WaitingIsTimed
  <2>4. QED
    BY <2>1, <2>2, <2>3 DEF WaitingIsTimed
<1>4. TrackedWaits'
  BY <1>2 DEF CallsOK, TrackedWaits
<1>5. QED
  BY <1>1, <1>3, <1>4 DEF CallsOK

\* The same for a step that leaves what the caller sees, or the timer, alone.
LEMMA CallUnchanged ==
    ASSUME CallsOK, NEW m \in Message
    PROVE  /\ promise[m] \in {"new", "waiting", "answered", "failed"}
           /\ pending[m] \in {"none", "first", "extended"}
           /\ attempt[m] \in Attempt
           /\ promise = [promise EXCEPT ![m] = promise[m]]
           /\ pending = [pending EXCEPT ![m] = pending[m]]
  BY DEF CallsOK

\* A call that is new, or over, has no timer, is not in its backoff and is not tracked.
LEMMA CallAtRest ==
    ASSUME CallsOK, NEW m \in Message, promise[m] # "waiting"
    PROVE  /\ pending[m] = "none" /\ m \notin backoff
           /\ m \in tracked => m \in Posted
  BY DEF CallsOK, WaitingIsTimed, TrackedWaits, Open

-----------------------------------------------------------------------------
(* What a step does to the breakers.                                         *)

LEMMA FailureCounted ==
    ASSUME BreakersOK, NEW g \in Agent, RecordFailure(g)
    PROVE  BreakersOK'
<1>1. /\ failures' \in [Agent -> Nat] /\ cooled' \in [Agent -> BOOLEAN]
      /\ breaker' \in [Agent -> {"closed", "open", "half-open"}]
  BY DEF BreakersOK, RecordFailure
<1>2. failures'[g] = failures[g] + 1
  BY DEF BreakersOK, RecordFailure
<1>3. breaker'[g] = IF failures[g] + 1 >= Threshold THEN "open" ELSE breaker[g]
  BY DEF BreakersOK, RecordFailure
<1>4. breaker'[g] = "closed" <=> failures'[g] < Threshold
  BY <1>2, <1>3, LimitAssumption DEF BreakersOK, BreakerCounts
<1>5. \A h \in Agent \ {g} : failures'[h] = failures[h] /\ breaker'[h] = breaker[h]
  BY DEF BreakersOK, RecordFailure
<1>6. BreakerCounts'
  BY <1>4, <1>5 DEF BreakersOK, BreakerCounts
<1>7. QED
  BY <1>1, <1>6 DEF BreakersOK

LEMMA SuccessCounted ==
    ASSUME BreakersOK, NEW g \in Agent, RecordSuccess(g)
    PROVE  BreakersOK'
<1>1. /\ failures' \in [Agent -> Nat] /\ cooled' \in [Agent -> BOOLEAN]
      /\ breaker' \in [Agent -> {"closed", "open", "half-open"}]
  BY DEF BreakersOK, RecordSuccess
<1>2. failures'[g] = 0 /\ breaker'[g] = "closed"
  BY DEF BreakersOK, RecordSuccess
<1>3. \A h \in Agent \ {g} : failures'[h] = failures[h] /\ breaker'[h] = breaker[h]
  BY DEF BreakersOK, RecordSuccess
<1>4. BreakerCounts'
  BY <1>2, <1>3, LimitAssumption DEF BreakersOK, BreakerCounts
<1>5. QED
  BY <1>1, <1>4 DEF BreakersOK

LEMMA BreakersUnchanged ==
    ASSUME BreakersOK, UNCHANGED breakerVars
    PROVE  BreakersOK'
  BY DEF BreakersOK, BreakerCounts, breakerVars

-----------------------------------------------------------------------------
(* What a step does to the runs.                                             *)

\* An answer stays founded while replies stay and nobody is answered.
LEMMA AnswerKept ==
    ASSUME AnswerFromAgent,
           \A n \in Message \ Posted : promise'[n] = "answered" =>
               /\ promise[n] = "answered"
               /\ \A b \in Attempt : run[<<n, b>>] = "replied" => run'[<<n, b>>] = "replied"
    PROVE  AnswerFromAgent'
  BY DEF AnswerFromAgent

LEMMA Injected ==
    ASSUME RunsOK, NEW m \in Message, NEW a \in Attempt, Inject(m, a)
    PROVE  /\ RunsOK'
           /\ \A n \in Message \ {m}, b \in Attempt : run'[<<n, b>>] = run[<<n, b>>]
<1>1. run' = [run EXCEPT ![<<m, a>>] = "waiting"]
  BY DEF Inject
<1>2. QED
  BY <1>1 DEF RunsOK, Runs!RunState

\* Entries are taken away: no run ends or begins.
LEMMA RunsHidden ==
    ASSUME RunsOK, NEW rs \in SUBSET Runs!Seen, Runs!Hide(rs)
    PROVE  /\ RunsOK'
           /\ \A n \in Message, b \in Attempt :
                 /\ run[<<n, b>>] = "replied" => run'[<<n, b>>] = "replied"
                 /\ run[<<n, b>>] = "none" => run'[<<n, b>>] = "none"
<1>1. /\ run' = [x \in Message \X Attempt |-> IF x \in rs THEN "waiting" ELSE run[x]]
      /\ \A x \in rs : run[x] = "running"
  BY DEF Runs!Hide, Runs!Hidden, Runs!Seen
<1>2. QED
  BY <1>1 DEF RunsOK, Runs!RunState

LEMMA RunAborted ==
    ASSUME NEW c \in Conv, Runs!Abort(c)
    PROVE  \E rs \in SUBSET Runs!Seen : Runs!Hide(rs)
  BY DEF Runs!Abort

LEMMA RunStarted ==
    ASSUME RunsOK, NEW m \in Message, NEW a \in Attempt, Runs!Take(<<m, a>>)
    PROVE  /\ RunsOK'
           /\ \A n \in Message, b \in Attempt :
                 /\ run[<<n, b>>] = "replied" => run'[<<n, b>>] = "replied"
                 /\ run[<<n, b>>] = "none" => run'[<<n, b>>] = "none"
<1>1. /\ run[<<m, a>>] = "waiting"
      /\ \E hit \in SUBSET {x \in Message \X Attempt : run[x] = "running"} :
            run' = [x \in Message \X Attempt |->
                      IF x = <<m, a>> THEN "running" ELSE IF x \in hit THEN "waiting" ELSE run[x]]
  <2> DEFINE hit == {x \in Message \X Attempt :
                       x # <<m, a>> /\ ConvOf[x[1]] = ConvOf[m] /\ run[x] = "running"}
  <2>1. run[<<m, a>>] = "waiting"
    BY DEF Runs!Take
  <2>2. run' = [x \in Message \X Attempt |->
                  IF x = <<m, a>> THEN "running" ELSE IF x \in hit THEN "waiting" ELSE run[x]]
    BY DEF Runs!Take
  <2>3. QED
    BY <2>1, <2>2
<1>2. QED
  BY <1>1 DEF RunsOK, Runs!RunState

LEMMA RunEnded ==
    ASSUME RunsOK, NEW m \in Message, NEW a \in Attempt, NEW how \in {"replied", "errored"},
           NEW rs \in SUBSET Runs!Seen, Runs!End(<<m, a>>, how, rs)
    PROVE  /\ RunsOK'
           /\ run'[<<m, a>>] = how
           /\ \A n \in Message, b \in Attempt :
                 /\ run[<<n, b>>] = "replied" => run'[<<n, b>>] = "replied"
                 /\ run[<<n, b>>] = "none" => run'[<<n, b>>] = "none"
<1>1. /\ run' = [[x \in Message \X Attempt |-> IF x \in rs THEN "waiting" ELSE run[x]]
                   EXCEPT ![<<m, a>>] = how]
      /\ run[<<m, a>>] \in {"waiting", "running"}
      /\ \A x \in rs : run[x] = "running"
  BY DEF Runs!End, Runs!Hidden, Runs!Seen
<1>2. QED
  BY <1>1 DEF RunsOK, Runs!RunState

\* A message is routed, for the first time or again: whether the target
\* is found or not, call, breaker and runs are in order.
LEMMA RouteKeeps ==
    ASSUME IInv,
           NEW m \in Message, promise[m] \in {"new", "waiting"},
           NEW a \in Attempt, Route(m, a),
           attempt' = attempt, backoff' \subseteq Message, m \notin backoff',
           \A n \in Message \ {m} : n \in backoff' <=> n \in backoff
    PROVE  CallsOK' /\ BreakersOK' /\ RunsOK' /\ AnswerFromAgent'
<1>1. CASE RouteToUnknown(m)
  <2>1. CallsOK'
    <3>1. /\ promise' = [promise EXCEPT ![m] = "failed"]
          /\ pending' = [pending EXCEPT ![m] = "none"]
          /\ tracked' = tracked \ {m}
      BY <1>1 DEF RouteToUnknown, Untrack
    <3>2. attempt' \in [Message -> Attempt] /\ tracked' \subseteq Message
      BY <3>1 DEF IInv, CallsOK
    <3>3. QED
      BY <3>1, <3>2, CallMove DEF IInv
  <2>2. BreakersOK'
    BY <1>1, FailureCounted, MessageAssumption DEF RouteToUnknown, IInv
  <2>3. RunsOK' /\ run' = run
    BY <1>1 DEF RouteToUnknown, IInv, RunsOK
  <2>4. \A n \in Message \ Posted : promise'[n] = "answered" => promise[n] = "answered"
    BY <1>1 DEF RouteToUnknown, IInv, CallsOK
  <2>5. AnswerFromAgent'
    BY <2>3, <2>4, AnswerKept DEF IInv
  <2>6. QED
    BY <2>1, <2>2, <2>3, <2>5
<1>2. CASE /\ Inject(m, a)
           /\ ArmTimer(m)
           /\ promise' = [promise EXCEPT ![m] = "waiting"]
           /\ UNCHANGED <<failures, breaker, cooled>>
  <2>1. CallsOK'
    <3>1. /\ pending' = [pending EXCEPT ![m] = "first"]
          /\ tracked' = tracked \cup {m}
      BY <1>2 DEF Inject, ArmTimer
    <3>2. attempt' \in [Message -> Attempt] /\ tracked' \subseteq Message
      BY <3>1 DEF IInv, CallsOK
    <3>3. QED
      BY <1>2, <3>1, <3>2, CallMove DEF IInv
  <2>2. BreakersOK'
    BY <1>2, BreakersUnchanged DEF breakerVars, IInv
  <2>3. RunsOK' /\ \A n \in Message \ {m}, b \in Attempt : run'[<<n, b>>] = run[<<n, b>>]
    BY <1>2, Injected DEF IInv
  <2>4. \A n \in Message \ Posted : promise'[n] = "answered" => n # m /\ promise[n] = "answered"
    BY <1>2 DEF IInv, CallsOK
  <2>5. AnswerFromAgent'
    BY <2>3, <2>4, AnswerKept DEF IInv
  <2>6. QED
    BY <2>1, <2>2, <2>3, <2>5
<1>3. QED
  BY <1>1, <1>2 DEF Route

\* The same for what follows a backoff or an extension.
LEMMA NextAttemptKeeps ==
    ASSUME IInv,
           NEW m \in Message, promise[m] = "waiting", NextAttempt(m),
           attempt' = attempt, backoff' \subseteq Message, m \notin backoff',
           \A n \in Message \ {m} : n \in backoff' <=> n \in backoff
    PROVE  CallsOK' /\ BreakersOK' /\ RunsOK' /\ AnswerFromAgent'
<1>1. CASE Route(m, attempt[m])
  BY <1>1, RouteKeeps DEF IInv, CallsOK
<1>2. CASE ArmTimer(m) /\ UNCHANGED <<promise, tracked, run, breakerVars>>
  <2>1. promise' = [promise EXCEPT ![m] = "waiting"]
    BY <1>2 DEF IInv, CallsOK
  <2>2. pending' = [pending EXCEPT ![m] = "first"]
    BY <1>2 DEF ArmTimer
  <2>3. attempt' \in [Message -> Attempt] /\ tracked' = tracked /\ tracked' \subseteq Message
    BY <1>2 DEF IInv, CallsOK
  <2>4. CallsOK'
    BY <2>1, <2>2, <2>3, CallMove DEF IInv
  <2>5. BreakersOK'
    BY <1>2, BreakersUnchanged DEF IInv
  <2>6. RunsOK' /\ AnswerFromAgent'
    BY <1>2 DEF IInv, RunsOK, AnswerFromAgent
  <2>7. QED
    BY <2>4, <2>5, <2>6
<1>3. QED
  BY <1>1, <1>2 DEF NextAttempt

-----------------------------------------------------------------------------
(* The steps.                                                                *)

LEMMA SendKeeps ==
    ASSUME IInv, NEW m \in Message, Send(m)
    PROVE  IInv'
<1>1. m \notin backoff /\ backoff' = backoff /\ attempt' = attempt /\ known' = known
  BY CallAtRest DEF Send, IInv
<1>2. backoff' \subseteq Message /\ 0 \in Attempt
  BY <1>1, LimitAssumption DEF IInv, CallsOK, Attempt
<1>3. CallsOK' /\ BreakersOK' /\ RunsOK' /\ AnswerFromAgent'
  BY <1>1, <1>2, RouteKeeps DEF Send
<1>4. QED
  BY <1>1, <1>3 DEF IInv

LEMMA ProbeKeeps ==
    ASSUME IInv, NEW m \in Message, Probe(m)
    PROVE  IInv'
<1>1. /\ m \notin Posted /\ promise[m] = "new" /\ m \notin backoff
      /\ backoff' = backoff /\ attempt' = attempt /\ known' = known
  BY CallAtRest DEF Probe, IInv
<1>2. backoff' \subseteq Message /\ 0 \in Attempt
  BY <1>1, LimitAssumption DEF IInv, CallsOK, Attempt
<1>3. CASE RouteToUnknown(m)
  <2>1. CallsOK' /\ BreakersOK' /\ RunsOK' /\ AnswerFromAgent'
    BY <1>1, <1>2, <1>3, RouteKeeps DEF Route
  <2>2. QED
    BY <1>1, <2>1 DEF IInv
<1>4. CASE /\ Inject(m, 0)
           /\ ArmTimer(m)
           /\ promise' = [promise EXCEPT ![m] = "waiting"]
           /\ breaker[TargetOf[m]] = "open"
           /\ breaker' = [breaker EXCEPT ![TargetOf[m]] = "half-open"]
           /\ UNCHANGED <<failures, cooled>>
  <2>1. CallsOK'
    <3>1. /\ pending' = [pending EXCEPT ![m] = "first"]
          /\ tracked' = tracked \cup {m}
      BY <1>4 DEF Inject, ArmTimer
    <3>2. attempt' \in [Message -> Attempt] /\ tracked' \subseteq Message
      BY <1>1, <3>1 DEF IInv, CallsOK
    <3>3. QED
      BY <1>1, <1>2, <1>4, <3>1, <3>2, CallMove DEF IInv
  <2>2. BreakersOK'
    BY <1>4, MessageAssumption DEF IInv, BreakersOK, BreakerCounts
  <2>3. RunsOK' /\ \A n \in Message \ {m}, b \in Attempt : run'[<<n, b>>] = run[<<n, b>>]
    BY <1>2, <1>4, Injected DEF IInv
  <2>4. \A n \in Message \ Posted : promise'[n] = "answered" => n # m /\ promise[n] = "answered"
    BY <1>4 DEF IInv, CallsOK
  <2>5. AnswerFromAgent'
    BY <2>3, <2>4, AnswerKept DEF IInv
  <2>6. QED
    BY <1>1, <2>1, <2>2, <2>3, <2>5 DEF IInv
<1>5. QED
  BY <1>3, <1>4 DEF Probe

LEMMA FastFailKeeps ==
    ASSUME IInv, NEW m \in Message, FastFail(m)
    PROVE  IInv'
<1>1. /\ promise' = [promise EXCEPT ![m] = "failed"]
      /\ pending' = [pending EXCEPT ![m] = "none"]
      /\ m \notin backoff /\ (m \in tracked => m \in Posted)
  BY CallAtRest, CallUnchanged DEF FastFail, IInv
<1>2. /\ attempt' = attempt /\ backoff' = backoff /\ tracked' = tracked
      /\ run' = run /\ known' = known /\ UNCHANGED breakerVars
  BY DEF FastFail
<1>3. CallsOK'
  <2>1. /\ attempt' \in [Message -> Attempt]
        /\ backoff' \subseteq Message /\ tracked' \subseteq Message
    BY <1>2 DEF IInv, CallsOK
  <2>2. QED
    BY <1>1, <1>2, <2>1, CallMove DEF IInv
<1>4. AnswerFromAgent'
  BY <1>1, <1>2, AnswerKept DEF IInv, CallsOK
<1>5. QED
  BY <1>2, <1>3, <1>4, BreakersUnchanged DEF IInv, RunsOK

LEMMA PostKeeps ==
    ASSUME IInv, NEW m \in Message, Post(m)
    PROVE  IInv'
<1>1. /\ m \in Posted
      /\ promise' = [promise EXCEPT ![m] = "answered"]
      /\ pending' = [pending EXCEPT ![m] = "none"]
      /\ m \notin backoff
      /\ attempt' = attempt /\ backoff' = backoff /\ known' = known
  BY CallAtRest, CallUnchanged DEF Post, IInv
<1>2. /\ tracked' = tracked \/ tracked' = tracked \cup {m}
      /\ BreakersOK'
      /\ RunsOK' /\ \A n \in Message \ {m}, b \in Attempt : run'[<<n, b>>] = run[<<n, b>>]
  <2>1. CASE RecordFailure(TargetOf[m]) /\ UNCHANGED <<tracked, run>>
    BY <2>1, FailureCounted, MessageAssumption DEF IInv, RunsOK
  <2>2. CASE Inject(m, 0) /\ UNCHANGED breakerVars
    <3>1. 0 \in Attempt
      BY LimitAssumption DEF Attempt
    <3>2. tracked' = tracked \cup {m}
      BY <2>2 DEF Inject
    <3>3. RunsOK' /\ \A n \in Message \ {m}, b \in Attempt : run'[<<n, b>>] = run[<<n, b>>]
      BY <2>2, <3>1, Injected DEF IInv
    <3>4. QED
      BY <2>2, <3>2, <3>3, BreakersUnchanged DEF IInv
  <2>3. QED
    BY <2>1, <2>2 DEF Post
<1>3. CallsOK'
  <2>1. /\ attempt' \in [Message -> Attempt]
        /\ backoff' \subseteq Message /\ tracked' \subseteq Message
        /\ \A n \in Message \ {m} : n \in tracked' <=> n \in tracked
    BY <1>1, <1>2 DEF IInv, CallsOK
  <2>2. QED
    BY <1>1, <2>1, CallMove DEF IInv
<1>4. AnswerFromAgent'
  <2>1. \A n \in Message \ Posted : n # m /\ promise'[n] = promise[n]
    BY <1>1 DEF IInv, CallsOK
  <2>2. QED
    BY <1>2, <2>1, AnswerKept DEF IInv
<1>5. QED
  BY <1>1, <1>2, <1>3, <1>4 DEF IInv

LEMMA ExtendKeeps ==
    ASSUME IInv, NEW m \in Message, Extend(m)
    PROVE  IInv'
<1>1. /\ pending[m] = "first" /\ promise[m] = "waiting" /\ m \notin backoff
      /\ promise' = [promise EXCEPT ![m] = "waiting"]
      /\ pending' = [pending EXCEPT ![m] = "extended"]
  BY CallUnchanged DEF Extend, IInv, CallsOK, WaitingIsTimed, Open
<1>2. attempt' \in [Message -> Attempt]
  BY LimitAssumption DEF Extend, CountAttempt, AttemptsLeft, IInv, CallsOK, Attempt
<1>3. /\ promise' = promise /\ backoff' = backoff /\ tracked' = tracked
      /\ run' = run /\ known' = known /\ UNCHANGED breakerVars
  BY DEF Extend
<1>4. CallsOK'
  <2>1. backoff' \subseteq Message /\ tracked' \subseteq Message
    BY <1>3 DEF IInv, CallsOK
  <2>2. QED
    BY <1>1, <1>2, <1>3, <2>1, CallMove DEF IInv
<1>5. QED
  BY <1>3, <1>4, BreakersUnchanged DEF IInv, RunsOK, AnswerFromAgent

LEMMA BackOffKeeps ==
    ASSUME IInv, NEW m \in Message, BackOff(m)
    PROVE  IInv'
<1>1. /\ promise[m] = "waiting"
      /\ promise' = [promise EXCEPT ![m] = "waiting"]
      /\ pending' = [pending EXCEPT ![m] = "none"]
  BY CallUnchanged DEF BackOff, IInv, CallsOK, WaitingIsTimed, Open
<1>2. attempt' \in [Message -> Attempt]
  BY LimitAssumption DEF BackOff, CountAttempt, AttemptsLeft, IInv, CallsOK, Attempt
<1>3. /\ promise' = promise /\ backoff' = backoff \cup {m} /\ tracked' = tracked \ {m}
      /\ run' = run /\ known' = known /\ UNCHANGED breakerVars
  BY DEF BackOff, Untrack
<1>4. CallsOK'
  <2>1. backoff' \subseteq Message /\ tracked' \subseteq Message
    BY <1>3 DEF IInv, CallsOK
  <2>2. QED
    BY <1>1, <1>2, <1>3, <2>1, CallMove DEF IInv
<1>5. QED
  BY <1>3, <1>4, BreakersUnchanged DEF IInv, RunsOK, AnswerFromAgent

LEMMA GiveUpKeeps ==
    ASSUME IInv, NEW m \in Message, GiveUp(m)
    PROVE  IInv'
<1>1. /\ promise' = [promise EXCEPT ![m] = "failed"]
      /\ pending' = [pending EXCEPT ![m] = "none"]
      /\ m \notin backoff /\ tracked' = tracked \ {m}
      /\ attempt' = attempt /\ backoff' = backoff /\ known' = known
  BY DEF GiveUp, Untrack, IInv, CallsOK, WaitingIsTimed
<1>2. CallsOK'
  <2>1. /\ attempt' \in [Message -> Attempt]
        /\ backoff' \subseteq Message /\ tracked' \subseteq Message
    BY <1>1 DEF IInv, CallsOK
  <2>2. QED
    BY <1>1, <2>1, CallMove DEF IInv
<1>3. BreakersOK'
  BY FailureCounted, MessageAssumption DEF GiveUp, IInv
<1>4. RunsOK' /\ \A n \in Message, b \in Attempt : run[<<n, b>>] = "replied" => run'[<<n, b>>] = "replied"
  <2>1. CASE Runs!Abort(ConvOf[m])
    BY <2>1, RunAborted, RunsHidden, MessageAssumption DEF IInv
  <2>2. CASE UNCHANGED run
    BY <2>2 DEF IInv, RunsOK
  <2>3. QED
    BY <2>1, <2>2 DEF GiveUp
<1>5. AnswerFromAgent'
  BY <1>1, <1>4, AnswerKept DEF IInv, CallsOK
<1>6. QED
  BY <1>1, <1>2, <1>3, <1>4, <1>5 DEF IInv

LEMMA CleanupKeeps ==
    ASSUME IInv, NEW m \in Message, CleanupStale(m)
    PROVE  IInv'
<1>1. /\ m \in Slow /\ promise[m] = "waiting" /\ m \notin backoff
      /\ promise' = [promise EXCEPT ![m] = "waiting"]
      /\ pending' = [pending EXCEPT ![m] = "none"]
  BY CallUnchanged DEF CleanupStale, IInv, CallsOK, WaitingIsTimed, Open
<1>2. /\ promise' = promise /\ backoff' = backoff /\ tracked' = tracked \ {m}
      /\ attempt' = attempt /\ run' = run /\ known' = known /\ UNCHANGED breakerVars
  BY DEF CleanupStale, Untrack
<1>3. CallsOK'
  <2>1. /\ attempt' \in [Message -> Attempt]
        /\ backoff' \subseteq Message /\ tracked' \subseteq Message
    BY <1>2 DEF IInv, CallsOK
  <2>2. QED
    BY <1>1, <1>2, <2>1, CallMove DEF IInv
<1>4. QED
  BY <1>2, <1>3, BreakersUnchanged DEF IInv, RunsOK, AnswerFromAgent

LEMMA TimerEnds ==
    ASSUME IInv, NEW m \in Message, ExtensionEnds(m) \/ BackoffEnds(m)
    PROVE  IInv'
<1>1. promise[m] = "waiting"
  BY DEF ExtensionEnds, BackoffEnds, IInv, CallsOK, WaitingIsTimed, Open
<1>2. NextAttempt(m) /\ attempt' = attempt /\ known' = known
  BY DEF ExtensionEnds, BackoffEnds
<1>3. /\ backoff' \subseteq Message /\ m \notin backoff'
      /\ \A n \in Message \ {m} : n \in backoff' <=> n \in backoff
  <2>1. CASE ExtensionEnds(m)
    BY <2>1 DEF ExtensionEnds, IInv, CallsOK, WaitingIsTimed
  <2>2. CASE BackoffEnds(m)
    BY <2>2 DEF BackoffEnds, IInv, CallsOK
  <2>3. QED
    BY <2>1, <2>2
<1>4. CallsOK' /\ BreakersOK' /\ RunsOK' /\ AnswerFromAgent'
  BY <1>1, <1>2, <1>3, NextAttemptKeeps
<1>5. QED
  BY <1>2, <1>4 DEF IInv

\* A reply or an error reaches the call only through its entry.
LEMMA ResponseMoves ==
    ASSUME IInv, NEW m \in Message, NEW p \in {"answered", "failed"},
           HandleResponse(m, p), attempt' = attempt, backoff' = backoff
    PROVE  /\ CallsOK'
           /\ \A n \in Message \ {m} : promise'[n] = promise[n]
           /\ promise'[m] = promise[m] \/ promise'[m] = p
<1>1. CASE pending[m] = "none" /\ UNCHANGED <<promise, pending, tracked>>
  BY <1>1 DEF IInv, CallsOK, WaitingIsTimed, TrackedWaits, Open
<1>2. CASE /\ pending[m] # "none"
           /\ promise' = [promise EXCEPT ![m] = p]
           /\ pending' = [pending EXCEPT ![m] = "none"]
           /\ tracked' = tracked \ {m}
  <2>1. /\ m \notin backoff
        /\ attempt' \in [Message -> Attempt]
        /\ backoff' \subseteq Message /\ tracked' \subseteq Message
    BY <1>2 DEF IInv, CallsOK, WaitingIsTimed
  <2>2. CallsOK'
    BY <1>2, <2>1, CallMove DEF IInv
  <2>3. QED
    BY <1>2, <2>2 DEF IInv, CallsOK
<1>3. QED
  BY <1>1, <1>2 DEF HandleResponse, Settled, Untrack

LEMMA RepliesKeep ==
    ASSUME IInv, NEW m \in Message, NEW a \in Attempt, RunReplies(m, a)
    PROVE  IInv'
<1>1. /\ HandleResponse(m, "answered")
      /\ attempt' = attempt /\ backoff' = backoff /\ known' = known
  BY DEF RunReplies
<1>2. /\ CallsOK'
      /\ \A n \in Message \ {m} : promise'[n] = promise[n]
  BY <1>1, ResponseMoves
<1>3. BreakersOK'
  <2>1. CASE RecordSuccess(TargetOf[m])
    BY <2>1, SuccessCounted, MessageAssumption DEF IInv
  <2>2. CASE UNCHANGED breakerVars
    BY <2>2, BreakersUnchanged DEF IInv
  <2>3. QED
    BY <2>1, <2>2 DEF RunReplies
<1>4. /\ RunsOK' /\ run'[<<m, a>>] = "replied"
      /\ \A n \in Message, b \in Attempt : run[<<n, b>>] = "replied" => run'[<<n, b>>] = "replied"
  BY RunEnded DEF RunReplies, IInv
<1>5. AnswerFromAgent'
  BY <1>2, <1>4 DEF AnswerFromAgent, IInv
<1>6. QED
  BY <1>1, <1>2, <1>3, <1>4, <1>5 DEF IInv

LEMMA ErrorsKeep ==
    ASSUME IInv, NEW m \in Message, NEW a \in Attempt, RunErrors(m, a)
    PROVE  IInv'
<1>1. /\ HandleResponse(m, "failed")
      /\ attempt' = attempt /\ backoff' = backoff /\ known' = known
      /\ UNCHANGED breakerVars
  BY DEF RunErrors
<1>2. /\ CallsOK'
      /\ \A n \in Message \ {m} : promise'[n] = promise[n]
      /\ promise'[m] = promise[m] \/ promise'[m] = "failed"
  BY <1>1, ResponseMoves
<1>3. /\ RunsOK'
      /\ \A n \in Message, b \in Attempt : run[<<n, b>>] = "replied" => run'[<<n, b>>] = "replied"
  <2>1. CASE UNCHANGED run
    BY <2>1 DEF IInv, RunsOK
  <2>2. ASSUME NEW rs \in SUBSET Runs!Seen, Runs!End(<<m, a>>, "errored", rs)
        PROVE  /\ RunsOK'
               /\ \A n \in Message, b \in Attempt : run[<<n, b>>] = "replied" => run'[<<n, b>>] = "replied"
    BY <2>2, RunEnded DEF IInv
  <2>3. QED
    BY <2>1, <2>2 DEF RunErrors
<1>4. AnswerFromAgent'
  BY <1>2, <1>3, AnswerKept DEF IInv
<1>5. QED
  BY <1>1, <1>2, <1>3, <1>4, BreakersUnchanged DEF IInv

\* A process starts, or entries are taken away.
LEMMA RunMovesKeeps ==
    ASSUME IInv,
           \/ \E m \in Message, a \in Attempt : RunStarts(m, a)
           \/ \E rs \in SUBSET Runs!Seen : RunsHide(rs)
    PROVE  IInv'
<1>1. UNCHANGED <<callVars, breakerVars, known>>
  BY DEF RunStarts, RunsHide
<1>2. /\ RunsOK'
      /\ \A n \in Message, b \in Attempt : run[<<n, b>>] = "replied" => run'[<<n, b>>] = "replied"
  BY RunStarted, RunsHidden DEF RunStarts, RunsHide, IInv
<1>3. CallsOK'
  BY <1>1 DEF callVars, IInv, CallsOK, WaitingIsTimed, TrackedWaits, Open
<1>4. AnswerFromAgent'
  BY <1>1, <1>2, AnswerKept DEF callVars, IInv
<1>5. QED
  BY <1>1, <1>2, <1>3, <1>4, BreakersUnchanged DEF IInv

\* The cooldown passes or an agent comes or goes: no call and no count moves.
LEMMA AgentStepKeeps ==
    ASSUME IInv, NEW g \in Agent, Cooldown(g) \/ ChangeAgents(g)
    PROVE  IInv'
<1>1. UNCHANGED <<callVars, run, failures, breaker>>
  BY DEF Cooldown, ChangeAgents, breakerVars
<1>2. cooled' \in [Agent -> BOOLEAN] /\ known' \subseteq Agent
  BY DEF Cooldown, ChangeAgents, breakerVars, IInv, BreakersOK
<1>3. CallsOK' /\ RunsOK' /\ AnswerFromAgent'
  BY <1>1 DEF callVars, IInv, CallsOK, RunsOK, WaitingIsTimed, TrackedWaits, Open, AnswerFromAgent
<1>4. QED
  BY <1>1, <1>2, <1>3 DEF IInv, BreakersOK, BreakerCounts

-----------------------------------------------------------------------------
LEMMA InvInitially == Init => IInv
<1> SUFFICES ASSUME Init PROVE IInv
  OBVIOUS
<1>1. 0 \in Attempt
  BY LimitAssumption DEF Attempt
<1>2. CallsOK
  BY <1>1 DEF Init, CallsOK, WaitingIsTimed, TrackedWaits, Open
<1>3. BreakersOK
  BY LimitAssumption DEF Init, BreakersOK, BreakerCounts
<1>4. RunsOK
  BY DEF Init, RunsOK, Runs!Init, Runs!RunState
<1>5. QED
  BY <1>2, <1>3, <1>4 DEF Init, IInv, AnswerFromAgent

LEMMA InvInductive == IInv /\ [Next]_vars => IInv'
<1> SUFFICES ASSUME IInv, [Next]_vars PROVE IInv'
  OBVIOUS
<1>1. ASSUME NEW m \in Message, Send(m) \/ Probe(m) \/ FastFail(m) \/ Post(m)
      PROVE  IInv'
  BY <1>1, SendKeeps, ProbeKeeps, FastFailKeeps, PostKeeps
<1>2. ASSUME NEW m \in Message, Timers(m) \/ CleanupStale(m)
      PROVE  IInv'
  BY <1>2, ExtendKeeps, BackOffKeeps, GiveUpKeeps, TimerEnds, CleanupKeeps DEF Timers
<1>3. ASSUME NEW m \in Message, NEW a \in Attempt,
             RunReplies(m, a) \/ RunErrors(m, a)
      PROVE  IInv'
  BY <1>3, RepliesKeep, ErrorsKeep
<1>4. ASSUME NEW g \in Agent, Cooldown(g) \/ ChangeAgents(g)
      PROVE  IInv'
  BY <1>4, AgentStepKeeps
<1>5. CASE UNCHANGED vars
  <2>1. UNCHANGED <<callVars, run, breakerVars, known>>
    BY <1>5 DEF vars
  <2>2. CallsOK'
    BY <2>1 DEF callVars, IInv, CallsOK, WaitingIsTimed, TrackedWaits, Open
  <2>3. RunsOK' /\ AnswerFromAgent'
    BY <2>1 DEF callVars, IInv, RunsOK, AnswerFromAgent
  <2>4. QED
    BY <2>1, <2>2, <2>3, BreakersUnchanged DEF IInv
<1>6. CASE \/ \E m \in Message, a \in Attempt : RunStarts(m, a)
           \/ \E rs \in SUBSET Runs!Seen : RunsHide(rs)
  BY <1>6, RunMovesKeeps
<1>7. QED
  BY <1>1, <1>2, <1>3, <1>4, <1>5, <1>6 DEF Next

\* Every variable keeps its type; no attempt goes beyond MaxRetries.
THEOREM TypeCorrect == Spec => []TypeOK
<1>1. IInv => TypeOK
  BY DEF IInv, CallsOK, BreakersOK, RunsOK, TypeOK
<1>2. QED
  BY <1>1, InvInitially, InvInductive, PTL DEF Spec

\* A blocking call waits exactly while one timer will end or retry it, whatever
\* extensions, backoffs, late replies and errors there were; only the sweep of an
\* entry older than its threshold leaves a caller without one.
THEOREM CallsTimed == Spec => []WaitingIsTimed
<1>1. IInv => WaitingIsTimed
  BY DEF IInv, CallsOK
<1>2. QED
  BY <1>1, InvInitially, InvInductive, PTL DEF Spec

\* A conversation is tracked for a blocking call only while the call has a timer,
\* so that no timeout aborts the conversation for a call that is over.
THEOREM TrackedAreWaiting == Spec => []TrackedWaits
<1>1. IInv => TrackedWaits
  BY DEF IInv, CallsOK
<1>2. QED
  BY <1>1, InvInitially, InvInductive, PTL DEF Spec

\* Promise, timer and tracked conversation of a call agree.
THEOREM CallsDoAgree == Spec => []CallsAgree
<1>1. WaitingIsTimed /\ TrackedWaits => CallsAgree
  BY DEF CallsAgree
<1>2. QED
  BY <1>1, CallsTimed, TrackedAreWaiting, PTL

\* A blocking call is answered only by a reply of one of its own runs.
THEOREM AnswersFromAgents == Spec => []AnswerFromAgent
<1>1. IInv => AnswerFromAgent
  BY DEF IInv
<1>2. QED
  BY <1>1, InvInitially, InvInductive, PTL DEF Spec

\* A circuit is closed exactly while its target has failed fewer times in a row
\* than the threshold.
THEOREM BreakersCount == Spec => []BreakerCounts
<1>1. IInv => BreakerCounts
  BY DEF IInv, BreakersOK
<1>2. QED
  BY <1>1, InvInitially, InvInductive, PTL DEF Spec

-----------------------------------------------------------------------------
(* The router drives the executor as AgentRuns lets it.                      *)

\* The attempts of m that are still to be made have no run: those after the current
\* one, the current one while the extension or the backoff before it lasts, and all
\* of a call that has not been sent.
FreshCall(m) ==
    /\ \A a \in Attempt : a > attempt[m] => run[<<m, a>>] = "none"
    /\ pending[m] = "extended" \/ m \in backoff => run[<<m, attempt[m]>>] = "none"
    /\ promise[m] = "new" => \A a \in Attempt : run[<<m, a>>] = "none"

Fresh == \A m \in Message : FreshCall(m)

\* A step that begins no run of m, and counts an attempt or arms nothing new.
LEMMA FreshStays ==
    ASSUME CallsOK, Fresh, CallsOK', NEW m \in Message,
           \A a \in Attempt : run[<<m, a>>] = "none" => run'[<<m, a>>] = "none",
           promise'[m] = "new" => promise[m] = "new",
           \/ /\ attempt'[m] = attempt[m]
              /\ pending'[m] = "extended" \/ m \in backoff' => pending[m] = "extended" \/ m \in backoff
           \/ attempt'[m] = attempt[m] + 1
    PROVE  FreshCall(m)'
<1>1. FreshCall(m) /\ attempt[m] \in Attempt /\ attempt'[m] \in Attempt
  BY DEF Fresh, CallsOK
<1>2. CASE attempt'[m] = attempt[m]
  BY <1>1, <1>2 DEF FreshCall, Attempt
<1>3. CASE attempt'[m] = attempt[m] + 1
  BY <1>1, <1>3, LimitAssumption DEF FreshCall, Attempt
<1>4. QED
  BY <1>2, <1>3

\* The run of the current attempt of m begins.
LEMMA BeginMoves ==
    ASSUME IInv, Fresh, NEW m \in Message, NEW a \in Attempt, Inject(m, a),
           \/ a = 0 /\ promise[m] = "new"
           \/ a = attempt[m] /\ (pending[m] = "extended" \/ m \in backoff),
           attempt' = attempt, backoff' \subseteq backoff, m \notin backoff',
           \A n \in Message \ {m} : pending'[n] = pending[n] /\ promise'[n] = promise[n],
           pending'[m] # "extended", promise'[m] # "new"
    PROVE  Fresh' /\ Runs!Next
<1>1. /\ run' = [run EXCEPT ![<<m, a>>] = "waiting"] /\ run \in [Message \X Attempt -> Runs!RunState]
      /\ FreshCall(m) /\ attempt[m] \in Attempt
  BY DEF Inject, IInv, RunsOK, CallsOK, Fresh
<1>2. run[<<m, a>>] = "none"
  BY <1>1 DEF FreshCall
<1>3. Runs!Begin(<<m, a>>)
  BY <1>1, <1>2 DEF Runs!Begin
<1>4. \A n \in Message \ {m} : FreshCall(n)'
  <2> SUFFICES ASSUME NEW n \in Message \ {m} PROVE FreshCall(n)'
    OBVIOUS
  <2>1. \A b \in Attempt : run'[<<n, b>>] = run[<<n, b>>]
    BY <1>1
  <2>2. FreshCall(n) /\ attempt[n] \in Attempt /\ attempt'[n] = attempt[n]
    BY DEF Fresh, IInv, CallsOK
  <2>3. QED
    BY <2>1, <2>2 DEF FreshCall
<1>5. FreshCall(m)'
  <2>1. a <= attempt[m]
    BY <1>1, LimitAssumption DEF Attempt
  <2>2. \A b \in Attempt : b > attempt[m] => b # a
    BY <1>1, <2>1, LimitAssumption DEF Attempt
  <2>3. \A b \in Attempt : b > attempt[m] => run'[<<m, b>>] = run[<<m, b>>]
    BY <1>1, <2>2
  <2>4. QED
    BY <1>1, <2>3 DEF FreshCall
<1>6. QED
  BY <1>3, <1>4, <1>5 DEF Fresh, Runs!Next

\* Nobody's run begins, and the calls move as FreshStays asks.
LEMMA NothingBegins ==
    ASSUME CallsOK, Fresh, CallsOK',
           \A n \in Message, a \in Attempt : run[<<n, a>>] = "none" => run'[<<n, a>>] = "none",
           \A n \in Message : promise'[n] = "new" => promise[n] = "new",
           \A n \in Message : \/ attempt'[n] = attempt[n] + 1
                              \/ /\ attempt'[n] = attempt[n]
                                 /\ pending'[n] = "extended" => pending[n] = "extended"
                                 /\ n \in backoff' => n \in backoff
    PROVE  Fresh'
<1> SUFFICES ASSUME NEW n \in Message PROVE FreshCall(n)'
  BY DEF Fresh
<1>1. QED
  BY FreshStays

\* What every step does to the runs.
RunStep == Fresh' /\ [Runs!Next]_run

LEMMA SendDrives ==
    ASSUME IInv, IInv', Fresh, NEW m \in Message, Send(m) \/ Probe(m) \/ FastFail(m) \/ Post(m)
    PROVE  RunStep
<1>1. /\ promise[m] = "new" /\ attempt' = attempt /\ backoff' = backoff /\ m \notin backoff
      /\ 0 \in Attempt
  BY CallAtRest, LimitAssumption DEF Send, Probe, FastFail, Post, IInv, Attempt
<1>2. /\ \E p \in {"waiting", "answered", "failed"} : promise' = [promise EXCEPT ![m] = p]
      /\ \E q \in {"none", "first"} : pending' = [pending EXCEPT ![m] = q]
  <2>1. pending = [pending EXCEPT ![m] = "none"]
    BY <1>1, CallAtRest DEF IInv, CallsOK
  <2>2. QED
    BY <2>1 DEF Send, Probe, FastFail, Post, Route, RouteToUnknown, ArmTimer
<1>3. /\ \A n \in Message \ {m} : pending'[n] = pending[n] /\ promise'[n] = promise[n]
      /\ pending'[m] # "extended" /\ promise'[m] # "new"
  BY <1>2 DEF IInv, CallsOK
<1>4. CASE Inject(m, 0)
  BY <1>1, <1>3, <1>4, BeginMoves DEF RunStep
<1>5. CASE UNCHANGED run
  <2>1. \A n \in Message : pending'[n] = "extended" => pending[n] = "extended"
    BY <1>3
  <2>2. Fresh'
    BY <1>1, <1>3, <1>5, <2>1, NothingBegins DEF IInv
  <2>3. QED
    BY <1>5, <2>2 DEF RunStep
<1>6. QED
  BY <1>4, <1>5 DEF Send, Probe, FastFail, Post, Route, RouteToUnknown

LEMMA TimersDrive ==
    ASSUME IInv, IInv', Fresh, NEW m \in Message, ExtensionEnds(m) \/ BackoffEnds(m)
    PROVE  RunStep
<1>1. /\ promise[m] = "waiting" /\ attempt' = attempt /\ attempt[m] \in Attempt
      /\ backoff' \subseteq backoff /\ m \notin backoff' /\ NextAttempt(m)
      /\ pending[m] = "extended" \/ m \in backoff
  BY DEF ExtensionEnds, BackoffEnds, IInv, CallsOK, WaitingIsTimed, Open
<1>2. /\ \E p \in {"waiting", "failed"} : promise' = [promise EXCEPT ![m] = p]
      /\ \E q \in {"none", "first"} : pending' = [pending EXCEPT ![m] = q]
  <2>1. promise = [promise EXCEPT ![m] = "waiting"]
    BY <1>1 DEF IInv, CallsOK
  <2>2. QED
    BY <1>1, <2>1 DEF NextAttempt, Route, RouteToUnknown, ArmTimer
<1>3. /\ \A n \in Message \ {m} : pending'[n] = pending[n] /\ promise'[n] = promise[n]
      /\ pending'[m] # "extended" /\ promise'[m] # "new"
  BY <1>2 DEF IInv, CallsOK
<1>4. CASE Inject(m, attempt[m])
  BY <1>1, <1>3, <1>4, BeginMoves DEF RunStep
<1>5. CASE UNCHANGED run
  <2>1. \A n \in Message : /\ pending'[n] = "extended" => pending[n] = "extended"
                           /\ promise'[n] = "new" => promise[n] = "new"
    BY <1>3
  <2>2. Fresh'
    BY <1>1, <1>5, <2>1, NothingBegins DEF IInv
  <2>3. QED
    BY <1>5, <2>2 DEF RunStep
<1>6. QED
  BY <1>1, <1>4, <1>5 DEF NextAttempt, Route, RouteToUnknown

\* A timer ends the wait for an attempt.
LEMMA CountsDrive ==
    ASSUME IInv, IInv', Fresh, NEW m \in Message,
           Extend(m) \/ BackOff(m) \/ GiveUp(m) \/ CleanupStale(m)
    PROVE  RunStep
<1>1. CASE Extend(m) \/ BackOff(m)
  <2>1. /\ attempt' = [attempt EXCEPT ![m] = @ + 1] /\ UNCHANGED <<promise, run>>
        /\ \A n \in Message \ {m} : /\ pending'[n] = pending[n]
                                    /\ n \in backoff' => n \in backoff
    BY <1>1 DEF Extend, BackOff, CountAttempt, IInv, CallsOK
  <2>2. \A n \in Message : \/ attempt'[n] = attempt[n] + 1
                           \/ /\ attempt'[n] = attempt[n]
                              /\ pending'[n] = "extended" => pending[n] = "extended"
                              /\ n \in backoff' => n \in backoff
    BY <2>1 DEF IInv, CallsOK
  <2>3. Fresh'
    BY <2>1, <2>2, NothingBegins DEF IInv
  <2>4. QED
    BY <2>1, <2>3 DEF RunStep
<1>2. CASE GiveUp(m) \/ CleanupStale(m)
  <2>1. /\ UNCHANGED <<attempt, backoff>> /\ pending' = [pending EXCEPT ![m] = "none"]
        /\ promise' = promise \/ promise' = [promise EXCEPT ![m] = "failed"]
    BY <1>2 DEF GiveUp, CleanupStale
  <2>2. \A n \in Message : /\ pending'[n] = "extended" => pending[n] = "extended"
                           /\ promise'[n] = "new" => promise[n] = "new"
    BY <2>1 DEF IInv, CallsOK
  <2>3. UNCHANGED run \/ \E rs \in SUBSET Runs!Seen : Runs!Hide(rs)
    BY <1>2, RunAborted, MessageAssumption DEF GiveUp, CleanupStale
  <2>4. \A n \in Message, a \in Attempt : run[<<n, a>>] = "none" => run'[<<n, a>>] = "none"
    BY <2>3, RunsHidden DEF IInv
  <2>5. Fresh'
    BY <2>1, <2>2, <2>4, NothingBegins DEF IInv
  <2>6. QED
    BY <2>3, <2>5 DEF RunStep, Runs!Next
<1>3. QED
  BY <1>1, <1>2

LEMMA RunsDrive ==
    ASSUME IInv, IInv', Fresh,
           \/ \E m \in Message, a \in Attempt : RunStarts(m, a) \/ RunReplies(m, a) \/ RunErrors(m, a)
           \/ \E rs \in SUBSET Runs!Seen : RunsHide(rs)
    PROVE  RunStep
<1>1. /\ UNCHANGED <<attempt, backoff>>
      /\ \A n \in Message : /\ pending'[n] = "extended" => pending[n] = "extended"
                            /\ promise'[n] = "new" => promise[n] = "new"
  <2>1. CASE \/ \E m \in Message, a \in Attempt : RunStarts(m, a)
             \/ \E rs \in SUBSET Runs!Seen : RunsHide(rs)
    BY <2>1 DEF RunStarts, RunsHide, callVars
  <2>2. ASSUME NEW m \in Message, NEW a \in Attempt, RunReplies(m, a) \/ RunErrors(m, a)
        PROVE  /\ UNCHANGED <<attempt, backoff>>
               /\ \A n \in Message : /\ pending'[n] = "extended" => pending[n] = "extended"
                                     /\ promise'[n] = "new" => promise[n] = "new"
    <3>1. PICK p \in {"answered", "failed"} : HandleResponse(m, p)
      BY <2>2 DEF RunReplies, RunErrors
    <3>2. UNCHANGED <<attempt, backoff>>
      BY <2>2 DEF RunReplies, RunErrors
    <3>3. QED
      BY <3>1, <3>2 DEF HandleResponse, Settled, IInv, CallsOK
  <2>3. QED
    BY <2>1, <2>2
<1>2. \/ UNCHANGED run
      \/ \E m \in Message, a \in Attempt : Runs!Take(<<m, a>>)
      \/ \E rs \in SUBSET Runs!Seen : Runs!Hide(rs)
      \/ \E m \in Message, a \in Attempt, how \in {"replied", "errored"}, rs \in SUBSET Runs!Seen :
            Runs!End(<<m, a>>, how, rs)
  BY DEF RunStarts, RunReplies, RunErrors, RunsHide
<1>3. /\ [Runs!Next]_run
      /\ \A n \in Message, a \in Attempt : run[<<n, a>>] = "none" => run'[<<n, a>>] = "none"
  <2>1. CASE UNCHANGED run
    BY <2>1
  <2>2. ASSUME NEW m \in Message, NEW a \in Attempt, Runs!Take(<<m, a>>)
        PROVE  /\ [Runs!Next]_run
               /\ \A n \in Message, b \in Attempt : run[<<n, b>>] = "none" => run'[<<n, b>>] = "none"
    <3>1. <<m, a>> \in Message \X Attempt
      OBVIOUS
    <3>2. QED
      BY <2>2, <3>1, RunStarted DEF Runs!Next, IInv
  <2>3. ASSUME NEW rs \in SUBSET Runs!Seen, Runs!Hide(rs)
        PROVE  /\ [Runs!Next]_run
               /\ \A n \in Message, b \in Attempt : run[<<n, b>>] = "none" => run'[<<n, b>>] = "none"
    BY <2>3, RunsHidden DEF Runs!Next, IInv
  <2>4. ASSUME NEW m \in Message, NEW a \in Attempt, NEW how \in {"replied", "errored"},
               NEW rs \in SUBSET Runs!Seen, Runs!End(<<m, a>>, how, rs)
        PROVE  /\ [Runs!Next]_run
               /\ \A n \in Message, b \in Attempt : run[<<n, b>>] = "none" => run'[<<n, b>>] = "none"
    <3>1. <<m, a>> \in Message \X Attempt
      OBVIOUS
    <3>2. Runs!Next
      BY <2>4, <3>1 DEF Runs!Next
    <3>3. QED
      BY <2>4, <3>2, RunEnded DEF IInv
  <2>5. QED
    BY <1>2, <2>1, <2>2, <2>3, <2>4
<1>4. Fresh'
  BY <1>1, <1>3, NothingBegins DEF IInv
<1>5. QED
  BY <1>3, <1>4 DEF RunStep

LEMMA NextDrives ==
    ASSUME IInv, IInv', Fresh, [Next]_vars
    PROVE  RunStep
<1>1. CASE \E m \in Message : Send(m) \/ Probe(m) \/ FastFail(m) \/ Post(m)
  BY <1>1, SendDrives
<1>2. CASE \E m \in Message : Timers(m) \/ CleanupStale(m)
  BY <1>2, TimersDrive, CountsDrive DEF Timers
<1>3. CASE \/ \E m \in Message, a \in Attempt : RunStarts(m, a) \/ RunReplies(m, a) \/ RunErrors(m, a)
           \/ \E rs \in SUBSET Runs!Seen : RunsHide(rs)
  BY <1>3, RunsDrive
<1>4. CASE (\E g \in Agent : Cooldown(g) \/ ChangeAgents(g)) \/ UNCHANGED vars
  <2>1. UNCHANGED <<callVars, run>>
    BY <1>4 DEF Cooldown, ChangeAgents, vars
  <2>2. Fresh'
    BY <2>1 DEF Fresh, FreshCall, callVars
  <2>3. QED
    BY <2>1, <2>2 DEF RunStep
<1>5. QED
  BY <1>1, <1>2, <1>3, <1>4 DEF Next

\* Whatever the agents do, and however retries, extensions, backoffs and late answers
\* fall, the router makes a run of the executor at most once for each attempt, and
\* sees in it only what the executor can show.
THEOREM DrivesRuns == Spec => RunsSpec
<1>1. Init => Fresh
  <2>1. SUFFICES ASSUME Init PROVE Fresh
    OBVIOUS
  <2>2. \A m \in Message, a \in Attempt : run[<<m, a>>] = "none"
    BY <2>1 DEF Init, Runs!Init
  <2>3. 0 \in Attempt
    BY LimitAssumption DEF Attempt
  <2>4. QED
    BY <2>1, <2>2, <2>3 DEF Init, Fresh, FreshCall
<1>2. IInv /\ IInv' /\ Fresh /\ [Next]_vars => Fresh' /\ [Runs!Next]_run
  BY NextDrives DEF RunStep
<1>3. Init => Runs!Init
  BY DEF Init
<1>4. QED
  BY <1>1, <1>2, <1>3, InvInitially, InvInductive, PTL DEF Spec, RunsSpec, Runs!Spec
=============================================================================
