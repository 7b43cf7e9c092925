------------------------- MODULE SupervisionProofs -------------------------
(* Theorems about Supervision for any requests, agents, pids and limits.     *)
EXTENDS Supervision, FiniteSetTheorems, SequenceTheorems, TLAPS

-----------------------------------------------------------------------------
(* The circuit breaker: every operation leaves a good breaker good.          *)

Age == 0..(ResetWindow - 1)
Sorted(ages) == \A i, j \in 1..Len(ages) : i < j => ages[i] <= ages[j]

\* What a breaker keeps to: its type, and that a half-open circuit waits for
\* another success, that the failures are kept in their order, and the two
\* invariants about closed circuits.
Good(b) ==
    /\ b \in Breaker
    /\ b.state = "halfOpen" => b.successes < SuccessThreshold
    /\ Sorted(b.failures)
    /\ b.state = "closed" => Len(b.failures) < FailureThreshold
    /\ b.state = "closed" <=> b.timeout = BaseTimeout

LEMMA FreshGood == Good(Fresh)
<1>1. <<>> \in Seq(0..(ResetWindow - 1)) /\ Sorted(<<>>) /\ Len(<<>>) = 0
  BY DEF Sorted
<1>2. Fresh \in Breaker
  BY <1>1, ConstantAssumption DEF Fresh, Breaker
<1>3. QED
  BY <1>1, <1>2, ConstantAssumption DEF Good, Fresh

\* The fields of a breaker.
LEMMA BreakerFields ==
    ASSUME NEW b \in Breaker
    PROVE  /\ b.state \in {"closed", "open", "halfOpen"}
           /\ b.successes \in Nat /\ b.successes <= SuccessThreshold
           /\ b.timeout \in Nat /\ BaseTimeout <= b.timeout /\ b.timeout <= MaxTimeout
           /\ b.openFor \in Nat
           /\ b.failures \in Seq(Age) /\ Len(b.failures) \in Nat
<1>1. b.failures \in Seq(Age)
  BY DEF Breaker, Age
<1>2. Len(b.failures) \in Nat
  BY <1>1
<1>3. QED
  BY <1>1, <1>2, ConstantAssumption DEF Breaker

LEMMA OpenedGood ==
    ASSUME NEW b \in Breaker, Sorted(b.failures)
    PROVE  Good(Opened(b))
<1>1. /\ Lesser(2 * b.timeout, MaxTimeout) \in BaseTimeout..MaxTimeout
      /\ Lesser(2 * b.timeout, MaxTimeout) # BaseTimeout
  BY BreakerFields, ConstantAssumption DEF Lesser
<1>2. /\ Opened(b).state = "open"
      /\ Opened(b).timeout = Lesser(2 * b.timeout, MaxTimeout)
      /\ Opened(b).failures = b.failures
  BY DEF Opened, Breaker
<1>3. 0 \in 0..SuccessThreshold /\ 0 \in 0..MaxTimeout
  BY ConstantAssumption
<1>4. Opened(b) \in Breaker
  BY <1>1, <1>3 DEF Opened, Breaker
<1>5. QED
  BY <1>1, <1>2, <1>4 DEF Good

LEMMA CheckedGood ==
    ASSUME NEW b, Good(b)
    PROVE  Good(Checked(b))
<1>1. CASE Checked(b) = b
  BY <1>1
<1>2. CASE b.state = "open" /\ Checked(b) = [b EXCEPT !.state = "halfOpen", !.successes = 0]
  <2>1. b \in Breaker /\ b.timeout # BaseTimeout /\ Sorted(b.failures)
    BY <1>2 DEF Good
  <2>2. 0 \in 0..SuccessThreshold /\ 0 < SuccessThreshold
    BY ConstantAssumption
  <2>3. /\ Checked(b) \in Breaker
        /\ Checked(b).state = "halfOpen"
        /\ Checked(b).successes = 0
        /\ Checked(b).timeout = b.timeout
        /\ Checked(b).failures = b.failures
    BY <1>2, <2>1, <2>2 DEF Breaker
  <2>4. QED
    BY <2>1, <2>2, <2>3 DEF Good
<1>3. QED
  BY <1>1, <1>2 DEF Checked

LEMMA RecordSuccessGood ==
    ASSUME NEW b, Good(b)
    PROVE  Good(RecordSuccess(b))
<1>1. b \in Breaker
  BY DEF Good
<1>2. CASE b.state # "halfOpen"
  BY <1>2 DEF RecordSuccess
<1>3. CASE b.state = "halfOpen"
  <2>1. b.successes + 1 \in 0..SuccessThreshold
    BY <1>1, <1>3, BreakerFields, ConstantAssumption DEF Good
  <2>2. CASE b.successes + 1 >= SuccessThreshold
    <3>1. BaseTimeout \in BaseTimeout..MaxTimeout /\ 0 < FailureThreshold
      BY ConstantAssumption
    <3>2. /\ Closed(b) \in Breaker
          /\ Closed(b).state = "closed"
          /\ Closed(b).timeout = BaseTimeout
          /\ Closed(b).failures = <<>>
      <4>1. <<>> \in Seq(0..(ResetWindow - 1))
        OBVIOUS
      <4>2. Closed(b) \in Breaker
        BY <1>1, <2>1, <3>1, <4>1 DEF Closed, Breaker
      <4>3. QED
        BY <1>1, <4>2 DEF Closed, Breaker
    <3>3. Sorted(<<>>) /\ Len(<<>>) = 0
      BY DEF Sorted
    <3>4. RecordSuccess(b) = Closed(b)
      BY <1>3, <2>2 DEF RecordSuccess
    <3>5. QED
      BY <3>1, <3>2, <3>3, <3>4 DEF Good
  <2>3. CASE ~(b.successes + 1 >= SuccessThreshold)
    <3>1. RecordSuccess(b) = [b EXCEPT !.successes = b.successes + 1]
      BY <1>3, <2>3 DEF RecordSuccess
    <3>2. /\ RecordSuccess(b) \in Breaker
          /\ RecordSuccess(b).state = b.state
          /\ RecordSuccess(b).successes = b.successes + 1
          /\ RecordSuccess(b).timeout = b.timeout
          /\ RecordSuccess(b).failures = b.failures
      BY <1>1, <2>1, <3>1 DEF Breaker
    <3>3. b.successes + 1 < SuccessThreshold
      BY <1>1, <2>3, BreakerFields, ConstantAssumption
    <3>4. QED
      BY <1>3, <3>2, <3>3 DEF Good
  <2>4. QED
    BY <2>2, <2>3
<1>4. QED
  BY <1>2, <1>3

LEMMA RecordFailureGood ==
    ASSUME NEW b, Good(b)
    PROVE  Good(RecordFailure(b))
<1> DEFINE c == [b EXCEPT !.failures = <<0>> \o @]
<1>1. b \in Breaker /\ b.failures \in Seq(Age) /\ Sorted(b.failures)
  BY DEF Good, Breaker, Age
<1>2. <<0>> \o b.failures \in Seq(Age)
  BY <1>1, ConstantAssumption DEF Age
<1>3. Sorted(<<0>> \o b.failures)
  <2>1. Len(<<0>> \o b.failures) = Len(b.failures) + 1
    BY <1>1
  <2>2. \A i \in 1..(Len(b.failures) + 1) :
            (<<0>> \o b.failures)[i] = IF i = 1 THEN 0 ELSE b.failures[i - 1]
    BY <1>1
  <2>3. \A i \in 1..Len(b.failures) : b.failures[i] \in Nat
    BY <1>1, ConstantAssumption DEF Age
  <2>4. QED
    BY <1>1, <2>1, <2>2, <2>3 DEF Sorted
<1>4. c \in Breaker /\ c.failures = <<0>> \o b.failures
  BY <1>1, <1>2 DEF Breaker, Age
<1>5. Good(IF b.state = "halfOpen" \/ (b.state = "closed" /\ TooMany(c)) THEN Opened(c) ELSE c)
  <2>1. CASE b.state = "halfOpen" \/ (b.state = "closed" /\ TooMany(c))
    BY <2>1, <1>3, <1>4, OpenedGood
  <2>2. CASE ~(b.state = "halfOpen" \/ (b.state = "closed" /\ TooMany(c)))
    <3>1. c.state = b.state /\ c.timeout = b.timeout
      BY <1>1 DEF Breaker
    <3>2. b.state \in {"closed", "open", "halfOpen"} /\ Len(c.failures) \in Nat
      BY <1>1, <1>2, <1>4 DEF Breaker
    <3>3. QED
      BY <2>2, <3>1, <3>2, <1>3, <1>4, ConstantAssumption DEF Good, TooMany
  <2>3. QED
    BY <2>1, <2>2
<1>6. QED
  BY <1>5, CheckedGood DEF RecordFailure

\* The failures kept are the newest ones, all of them in the window.
LEMMA RecentFailures ==
    ASSUME NEW ages \in Seq(Nat), Sorted(ages)
    PROVE  /\ Recent(ages) \in Seq(Age)
           /\ Len(Recent(ages)) <= Len(ages)
           /\ \A i \in 1..Len(Recent(ages)) : Recent(ages)[i] = ages[i]
<1> DEFINE S == {i \in DOMAIN ages : ages[i] < ResetWindow}
           n == Cardinality(S)
<1>1. Len(ages) \in Nat /\ DOMAIN ages = 1..Len(ages) /\ S \subseteq 1..Len(ages)
  OBVIOUS
<1>2. IsFiniteSet(S) /\ n <= Len(ages)
  <2>1. IsFiniteSet(1..Len(ages)) /\ Cardinality(1..Len(ages)) = Len(ages)
    <3>1. IsFiniteSet(1..Len(ages))
      BY <1>1, FS_Interval
    <3>2. Cardinality(1..Len(ages)) = IF 1 > Len(ages) THEN 0 ELSE Len(ages) - 1 + 1
      BY <1>1, FS_Interval
    <3>3. QED
      BY <1>1, <3>1, <3>2
  <2>2. QED
    BY <1>1, <2>1, FS_Subset
<1>3. n \in Nat
  BY <1>2, FS_CardinalityType
<1>4. ASSUME NEW i \in 1..n
      PROVE  ages[i] \in Age
  <2>1. i \in Nat /\ i >= 1 /\ i <= Len(ages) /\ ages[i] \in Nat
    BY <1>1, <1>2, <1>3
  <2>2. SUFFICES ASSUME ~(ages[i] < ResetWindow) PROVE FALSE
    BY <2>1, ConstantAssumption DEF Age
  <2>3. S \subseteq 1..(i - 1)
    <3>1. SUFFICES ASSUME NEW j \in S PROVE j < i
      BY <1>1, <2>1
    <3>2. j \in 1..Len(ages) /\ ages[j] \in Nat /\ ages[j] < ResetWindow
      BY <1>1
    <3>3. i < j => ages[i] <= ages[j]
      BY <2>1, <3>2, <1>1 DEF Sorted
    <3>4. QED
      BY <2>1, <2>2, <3>2, <3>3, ConstantAssumption
  <2>4. IsFiniteSet(1..(i - 1)) /\ Cardinality(1..(i - 1)) = i - 1
    <3>1. i - 1 \in Int
      BY <2>1
    <3>2. IsFiniteSet(1..(i - 1))
      BY <3>1, FS_Interval
    <3>3. Cardinality(1..(i - 1)) = IF 1 > i - 1 THEN 0 ELSE (i - 1) - 1 + 1
      BY <3>1, FS_Interval
    <3>4. QED
      BY <2>1, <3>2, <3>3
  <2>5. n <= i - 1
    BY <2>3, <2>4, FS_Subset
  <2>6. QED
    BY <1>3, <2>1, <2>5
<1>5. /\ SubSeq(ages, 1, n) \in Seq(Age)
      /\ Len(SubSeq(ages, 1, n)) = n
      /\ \A i \in 1..n : SubSeq(ages, 1, n)[i] = ages[i]
  <2>1. \A i \in 1..n : ages[i] \in Age
    BY <1>4
  <2>2. /\ SubSeq(ages, 1, n) \in Seq(Age)
        /\ Len(SubSeq(ages, 1, n)) = IF 1 <= n THEN n - 1 + 1 ELSE 0
        /\ \A i \in 1..(n - 1 + 1) : SubSeq(ages, 1, n)[i] = ages[1 + i - 1]
    <3> HIDE DEF n, Age
    <3> QED
      BY <1>3, <2>1, SubSeqProperties
  <2>3. \A i \in 1..n : SubSeq(ages, 1, n)[i] = ages[i]
    <3> SUFFICES ASSUME NEW i \in 1..n PROVE SubSeq(ages, 1, n)[i] = ages[i]
      OBVIOUS
    <3> HIDE DEF n
    <3>1. i \in 1..(n - 1 + 1) /\ 1 + i - 1 = i
      BY <1>3
    <3> QED
      BY <2>2, <3>1
  <2>4. QED
    <3> HIDE DEF n, Age
    <3> QED
      BY <1>3, <2>2, <2>3
<1>6. QED
  BY <1>1, <1>2, <1>3, <1>5 DEF Recent

LEMMA OlderGood ==
    ASSUME NEW b, Good(b)
    PROVE  Good(Older(b))
<1> DEFINE ages == [i \in DOMAIN b.failures |-> b.failures[i] + 1]
<1>1. /\ b \in Breaker
      /\ b.failures \in Seq(Age)
      /\ Len(b.failures) \in Nat
      /\ DOMAIN b.failures = 1..Len(b.failures)
      /\ \A i \in 1..Len(b.failures) : b.failures[i] \in Nat
  BY ConstantAssumption DEF Good, Breaker, Age
<1>2. ages \in Seq(Nat) /\ Len(ages) = Len(b.failures)
  BY <1>1
<1>3. Sorted(ages)
  BY <1>1, <1>2 DEF Good, Sorted
<1>4. /\ Recent(ages) \in Seq(Age)
      /\ Len(Recent(ages)) \in Nat
      /\ Len(Recent(ages)) <= Len(b.failures)
      /\ \A i \in 1..Len(Recent(ages)) : Recent(ages)[i] = ages[i]
  <2> HIDE DEF ages
  <2>1. /\ Recent(ages) \in Seq(Age)
        /\ Len(Recent(ages)) <= Len(ages)
        /\ \A i \in 1..Len(Recent(ages)) : Recent(ages)[i] = ages[i]
    BY <1>2, <1>3, RecentFailures
  <2>2. Len(Recent(ages)) \in Nat
    BY <2>1
  <2>3. QED
    BY <1>2, <2>1, <2>2
<1>5. Sorted(Recent(ages))
  <2> HIDE DEF ages
  <2> SUFFICES ASSUME NEW i \in 1..Len(Recent(ages)), NEW j \in 1..Len(Recent(ages)), i < j
               PROVE  Recent(ages)[i] <= Recent(ages)[j]
    BY DEF Sorted
  <2>1. i \in 1..Len(ages) /\ j \in 1..Len(ages)
    BY <1>1, <1>2, <1>4
  <2>2. ages[i] <= ages[j]
    BY <1>3, <2>1 DEF Sorted
  <2>3. QED
    BY <1>4, <2>2
<1>6. Older(b) = [b EXCEPT !.openFor = Lesser(b.openFor + 1, MaxTimeout), !.failures = Recent(ages)]
  BY <1>1 DEF Older, Breaker
<1>7. Lesser(b.openFor + 1, MaxTimeout) \in 0..MaxTimeout
  BY <1>1, ConstantAssumption DEF Breaker, Lesser
<1>8. /\ Older(b) \in Breaker
      /\ Older(b).state = b.state
      /\ Older(b).successes = b.successes
      /\ Older(b).timeout = b.timeout
      /\ Older(b).failures = Recent(ages)
  BY <1>1, <1>4, <1>6, <1>7 DEF Breaker, Age
<1>9. QED
  BY <1>1, <1>4, <1>5, <1>8, ConstantAssumption DEF Good
-----------------------------------------------------------------------------
(* Types, and what holds of every breaker.                                   *)

BreakersGood == breaker \in [Agent -> Breaker] /\ \A a \in Agent : Good(breaker[a])

\* One breaker is replaced by a good one, if any.
LEMMA OneBreaker ==
    ASSUME BreakersGood, NEW a \in Agent, NEW b, Good(b),
           breaker' = [breaker EXCEPT ![a] = b]
    PROVE  BreakersGood'
<1>1. b \in Breaker
  BY DEF Good
<1>2. breaker' \in [Agent -> Breaker]
  BY <1>1 DEF BreakersGood
<1>3. ASSUME NEW c \in Agent
      PROVE  Good(breaker'[c])
  <2>1. CASE c = a
    BY <2>1 DEF BreakersGood
  <2>2. CASE c # a
    BY <2>2 DEF BreakersGood
  <2>3. QED
    BY <2>1, <2>2
<1>4. QED
  BY <1>2, <1>3 DEF BreakersGood

LEMMA FailedGood ==
    ASSUME NEW a, NEW b, Good(b)
    PROVE  Good(Failed(a, b))
  BY RecordFailureGood DEF Failed

LEMMA StepBreakers ==
    ASSUME BreakersGood, [Next]_vars
    PROVE  BreakersGood'
<1>1. ConstantAssumption
  BY ConstantAssumption
<1>2. ASSUME NEW r \in Run, Refuse(r)
      PROVE  BreakersGood'
  <2>1. AgentOf[r] \in Agent
    BY <1>1 DEF ConstantAssumption
  <2>2. breaker' = [breaker EXCEPT ![AgentOf[r]] = breaker[AgentOf[r]]]
    BY <1>2 DEF Refuse, Refused
  <2>3. QED
    BY <2>1, <2>2, OneBreaker DEF BreakersGood
<1>3. ASSUME NEW r \in Run, NEW p \in Pid, Spawn(r, p)
      PROVE  BreakersGood'
  <2>1. AgentOf[r] \in Agent
    BY <1>1 DEF ConstantAssumption
  <2>2. breaker' = [breaker EXCEPT ![AgentOf[r]] = Checked(breaker[AgentOf[r]])]
    BY <1>3 DEF Spawn
  <2>3. Good(Checked(breaker[AgentOf[r]]))
    BY <2>1, CheckedGood DEF BreakersGood
  <2>4. QED
    BY <2>1, <2>2, <2>3, OneBreaker
<1>4. ASSUME NEW r \in Run, SpawnError(r)
      PROVE  BreakersGood'
  <2>1. AgentOf[r] \in Agent
    BY <1>1 DEF ConstantAssumption
  <2>2. breaker' = [breaker EXCEPT ![AgentOf[r]] =
                        Failed(AgentOf[r], Checked(breaker[AgentOf[r]]))]
    BY <1>4 DEF SpawnError
  <2>3. Good(Failed(AgentOf[r], Checked(breaker[AgentOf[r]])))
    BY <2>1, CheckedGood, FailedGood DEF BreakersGood
  <2>4. QED
    BY <2>1, <2>2, <2>3, OneBreaker
<1>5. ASSUME NEW r \in Run, FinalizeOk(r)
      PROVE  BreakersGood'
  <2>1. AgentOf[r] \in Agent
    BY <1>1 DEF ConstantAssumption
  <2>2. breaker' = [breaker EXCEPT ![AgentOf[r]] = RecordSuccess(breaker[AgentOf[r]])]
    BY <1>5 DEF FinalizeOk
  <2>3. Good(RecordSuccess(breaker[AgentOf[r]]))
    BY <2>1, RecordSuccessGood DEF BreakersGood
  <2>4. QED
    BY <2>1, <2>2, <2>3, OneBreaker
<1>6. ASSUME NEW r \in Run, FinalizeFailed(r)
      PROVE  BreakersGood'
  <2>1. AgentOf[r] \in Agent
    BY <1>1 DEF ConstantAssumption
  <2>2. CASE breaker' = breaker
    BY <2>2 DEF BreakersGood
  <2>3. CASE breaker' = [breaker EXCEPT ![AgentOf[r]] = Failed(AgentOf[r], breaker[AgentOf[r]])]
    <3>1. Good(Failed(AgentOf[r], breaker[AgentOf[r]]))
      BY <2>1, FailedGood DEF BreakersGood
    <3>2. QED
      BY <2>1, <2>3, <3>1, OneBreaker
  <2>4. QED
    BY <1>6, <2>2, <2>3 DEF FinalizeFailed
<1>7. ASSUME Tick
      PROVE  BreakersGood'
  <2>1. breaker' = [a \in Agent |-> Older(breaker[a])]
    BY <1>7 DEF Tick
  <2>2. ASSUME NEW a \in Agent
        PROVE  Good(Older(breaker[a])) /\ Older(breaker[a]) \in Breaker
    <3>1. Good(Older(breaker[a]))
      BY OlderGood DEF BreakersGood
    <3>2. QED
      BY <3>1 DEF Good
  <2>3. breaker' \in [Agent -> Breaker]
    BY <2>1, <2>2
  <2>4. \A a \in Agent : breaker'[a] = Older(breaker[a])
    BY <2>1
  <2>5. QED
    BY <2>2, <2>3, <2>4 DEF BreakersGood
<1>8. ASSUME breaker' = breaker
      PROVE  BreakersGood'
  BY <1>8 DEF BreakersGood
<1>9. CASE UNCHANGED vars
  BY <1>8, <1>9 DEF vars
<1>10. ASSUME NEW r \in Run, Dies(r) \/ Reap(r) \/ FinalizeCancelled(r)
       PROVE  breaker' = breaker
  BY <1>10 DEF Dies, Reap, FinalizeCancelled
<1>11. ASSUME NEW p \in Pid, StrangerStarts(p) \/ StrangerExits(p)
       PROVE  breaker' = breaker
  BY <1>11 DEF StrangerStarts, StrangerExits
<1>12. ASSUME CheckStuckAgents
       PROVE  breaker' = breaker
  BY <1>12 DEF CheckStuckAgents
<1>13. CASE Next
  BY <1>2, <1>3, <1>4, <1>5, <1>6, <1>7, <1>8, <1>10, <1>11, <1>12, <1>13 DEF Next
<1>14. QED
  BY <1>9, <1>13

LEMMA InitBreakers == Init => BreakersGood
<1>1. Fresh \in Breaker
  BY FreshGood DEF Good
<1>2. QED
  BY <1>1, FreshGood DEF Init, BreakersGood

\* A closed circuit has fewer recent failures than the threshold, whatever the
\* thresholds, the window and the order of failures, successes and probes.
THEOREM ClosedHealthy == Spec => []ClosedIsHealthy
<1>1. BreakersGood => ClosedIsHealthy
  BY DEF BreakersGood, Good, ClosedIsHealthy
<1>2. QED
  BY <1>1, InitBreakers, StepBreakers, PTL DEF Spec

\* The backoff is at its first value exactly while the circuit is closed.
THEOREM BackoffKept == Spec => []BackoffOfOutage
<1>1. BreakersGood => BackoffOfOutage
  BY DEF BreakersGood, Good, BackoffOfOutage
<1>2. QED
  BY <1>1, InitBreakers, StepBreakers, PTL DEF Spec

-----------------------------------------------------------------------------
(* The types of the other variables.                                         *)

RunsTyped ==
    /\ run \in [Run -> Stage]
    /\ outcome \in [Run -> Outcome]
    /\ retries \in [Run -> Nat]
    /\ recorded \in [Run -> Nat]
    /\ pidOf \in [Run -> Pid \cup {None}]

PidsTyped ==
    /\ pids \in [Pid -> {"free", "agent", "zombie", "stranger"}]
    /\ tracked \in [Agent -> Pid \cup {None}]
    /\ known \subseteq Agent

LEMMA LeavesTyped ==
    ASSUME RunsTyped, NEW r \in Run, NEW stage \in {"ended", "backoff"}, Leaves(r, stage)
    PROVE  /\ run' \in [Run -> Stage]
           /\ retries' \in [Run -> Nat]
           /\ pidOf' \in [Run -> Pid \cup {None}]
  BY DEF RunsTyped, Leaves, Stage

LEMMA StepRuns ==
    ASSUME RunsTyped, [Next]_vars
    PROVE  RunsTyped'
<1>1. ASSUME runVars' = runVars
      PROVE  RunsTyped'
  BY <1>1 DEF RunsTyped, runVars
<1>2. ASSUME NEW r \in Run, Refuse(r)
      PROVE  RunsTyped'
  BY <1>2 DEF RunsTyped, Refuse, Stage, Outcome
<1>3. ASSUME NEW r \in Run
      PROVE  Before(r) \in Nat
  BY DEF RunsTyped, Before
<1>4. ASSUME NEW r \in Run, NEW p \in Pid, Spawn(r, p)
      PROVE  RunsTyped'
  BY <1>3, <1>4 DEF RunsTyped, Spawn, Attempt, Stage, Outcome
<1>5. ASSUME NEW r \in Run, SpawnError(r)
      PROVE  RunsTyped'
  <2>1. Before(r) + 1 \in Nat
    BY <1>3
  <2>2. QED
    BY <1>5, <2>1 DEF RunsTyped, SpawnError, Attempt, Stage, Outcome
<1>6. ASSUME NEW r \in Run, Dies(r)
      PROVE  RunsTyped'
  BY <1>6, ConstantAssumption DEF RunsTyped, Dies, Stage, Outcome, ConstantAssumption
<1>7. ASSUME NEW r \in Run, Reap(r)
      PROVE  RunsTyped'
  BY <1>7 DEF RunsTyped, Reap, Stage
<1>8. ASSUME NEW r \in Run, FinalizeOk(r)
      PROVE  RunsTyped'
  BY <1>8, LeavesTyped DEF RunsTyped, FinalizeOk
<1>9. ASSUME NEW r \in Run, FinalizeCancelled(r)
      PROVE  RunsTyped'
  BY <1>9, LeavesTyped DEF RunsTyped, FinalizeCancelled
<1>10. ASSUME NEW r \in Run, FinalizeFailed(r)
       PROVE  RunsTyped'
  <2>1. Leaves(r, IF Retries(r) THEN "backoff" ELSE "ended")
    BY <1>10 DEF FinalizeFailed
  <2>2. /\ run' \in [Run -> Stage]
        /\ retries' \in [Run -> Nat]
        /\ pidOf' \in [Run -> Pid \cup {None}]
    BY <2>1, LeavesTyped
  <2>3. recorded' \in [Run -> Nat]
    BY <1>10 DEF RunsTyped, FinalizeFailed
  <2>4. outcome' = outcome
    BY <1>10 DEF FinalizeFailed
  <2>5. QED
    BY <2>2, <2>3, <2>4 DEF RunsTyped
<1>11. CASE UNCHANGED vars
  BY <1>1, <1>11 DEF vars
<1>12. ASSUME NEW p \in Pid, StrangerStarts(p) \/ StrangerExits(p)
       PROVE  runVars' = runVars
  BY <1>12 DEF StrangerStarts, StrangerExits
<1>13. ASSUME CheckStuckAgents \/ Tick
       PROVE  runVars' = runVars
  BY <1>13 DEF CheckStuckAgents, Tick
<1>14. CASE Next
  BY <1>1, <1>2, <1>4, <1>5, <1>6, <1>7, <1>8, <1>9, <1>10, <1>12, <1>13, <1>14 DEF Next
<1>15. QED
  BY <1>11, <1>14

LEMMA StepPids ==
    ASSUME PidsTyped, [Next]_vars
    PROVE  PidsTyped'
<1>1. ASSUME UNCHANGED <<pids, tracked, known>>
      PROVE  PidsTyped'
  BY <1>1 DEF PidsTyped
<1>2. ASSUME NEW r \in Run, Unregister(r)
      PROVE  tracked' \in [Agent -> Pid \cup {None}]
  BY <1>2 DEF PidsTyped, Unregister
<1>3. ASSUME NEW r \in Run, NEW p \in Pid, Spawn(r, p)
      PROVE  PidsTyped'
  <2>1. AgentOf[r] \in Agent
    BY ConstantAssumption DEF ConstantAssumption
  <2>2. QED
    BY <1>3, <2>1 DEF PidsTyped, Spawn
<1>4. ASSUME NEW r \in Run, SpawnError(r) \/ FinalizeOk(r) \/ FinalizeFailed(r)
      PROVE  PidsTyped'
  <2>1. Unregister(r) /\ UNCHANGED <<pids, known>>
    BY <1>4 DEF SpawnError, FinalizeOk, FinalizeFailed
  <2>2. QED
    BY <1>2, <2>1 DEF PidsTyped
<1>5. ASSUME NEW r \in Run, Dies(r) \/ Reap(r)
      PROVE  PidsTyped'
  BY <1>5 DEF PidsTyped, Dies, Reap
<1>6. ASSUME NEW r \in Run, Refuse(r) \/ FinalizeCancelled(r)
      PROVE  UNCHANGED <<pids, tracked, known>>
  BY <1>6 DEF Refuse, FinalizeCancelled
<1>7. ASSUME CheckStuckAgents
      PROVE  PidsTyped'
  BY <1>7 DEF PidsTyped, CheckStuckAgents
<1>8. ASSUME NEW p \in Pid, StrangerStarts(p) \/ StrangerExits(p)
      PROVE  PidsTyped'
  BY <1>8 DEF PidsTyped, StrangerStarts, StrangerExits
<1>9. ASSUME Tick
      PROVE  UNCHANGED <<pids, tracked, known>>
  BY <1>9 DEF Tick
<1>10. CASE UNCHANGED vars
  BY <1>1, <1>10 DEF vars
<1>11. CASE Next
  BY <1>1, <1>3, <1>4, <1>5, <1>6, <1>7, <1>8, <1>9, <1>11 DEF Next
<1>12. QED
  BY <1>10, <1>11

\* Every variable keeps its type, the counters and ages of the breakers included.
THEOREM TypeCorrect == Spec => []TypeOK
<1>1. Init => RunsTyped /\ PidsTyped
  BY DEF Init, RunsTyped, PidsTyped, Stage, Outcome
<1>2. RunsTyped /\ PidsTyped /\ BreakersGood => TypeOK
  BY DEF RunsTyped, PidsTyped, BreakersGood, TypeOK
<1>3. QED
  BY <1>1, <1>2, InitBreakers, StepBreakers, StepRuns, StepPids, PTL DEF Spec

-----------------------------------------------------------------------------
(* Ghosts.                                                                   *)

LEMMA NoGhostOf ==
    ASSUME NEW a \in Agent, ~Ghost(a), tracked'[a] = tracked[a] \/ tracked'[a] = None,
           \A r \in Run : AgentOf[r] = a => pidOf'[r] = pidOf[r]
    PROVE  ~Ghost(a)'
  BY DEF Ghost

LEMMA UnregisteredIsNone ==
    ASSUME PidsTyped, NEW r \in Run, Unregister(r), NEW a \in Agent
    PROVE  tracked'[a] = IF a = AgentOf[r] THEN None ELSE tracked[a]
  BY DEF PidsTyped, Unregister

\* No other step than the end of a cancelled run turns an agent's entry into a
\* ghost, whatever the number of overlapping runs and reused pids.
THEOREM GhostsOfCancelled == Spec => GhostsAreCancelled
<1>1. Init => RunsTyped /\ PidsTyped
  BY DEF Init, RunsTyped, PidsTyped, Stage, Outcome
<1>2. ASSUME UNCHANGED <<tracked, pidOf>>
      PROVE  NewGhostsAreCancelled
  BY <1>2 DEF Ghost, NewGhostsAreCancelled
<1>3. ASSUME RunsTyped, PidsTyped, [Next]_vars
      PROVE  NewGhostsAreCancelled
  <2>1. ASSUME NEW r \in Run, NEW p \in Pid, Spawn(r, p)
        PROVE  NewGhostsAreCancelled
    <3>1. pidOf' = [pidOf EXCEPT ![r] = p] /\ tracked' = [tracked EXCEPT ![AgentOf[r]] = p]
      BY <2>1 DEF Spawn
    <3> SUFFICES ASSUME NEW a \in Agent, ~Ghost(a) PROVE ~Ghost(a)'
      BY DEF NewGhostsAreCancelled
    <3>2. CASE a = AgentOf[r]
      <4>1. pidOf'[r] = p /\ tracked'[a] = p
        BY <1>3, <3>1, <3>2 DEF RunsTyped, PidsTyped
      <4>2. QED
        BY <3>2, <4>1 DEF Ghost
    <3>3. CASE a # AgentOf[r]
      <4>1. tracked'[a] = tracked[a]
        BY <1>3, <3>1, <3>3 DEF PidsTyped
      <4>2. \A q \in Run : AgentOf[q] = a => pidOf'[q] = pidOf[q]
        BY <1>3, <3>1, <3>3 DEF RunsTyped
      <4>3. QED
        BY <4>1, <4>2, NoGhostOf
    <3>4. QED
      BY <3>2, <3>3
  <2>2. ASSUME NEW r \in Run, SpawnError(r) \/ FinalizeOk(r) \/ FinalizeFailed(r)
        PROVE  NewGhostsAreCancelled
    <3>1. Unregister(r)
      BY <2>2 DEF SpawnError, FinalizeOk, FinalizeFailed
    <3>2. pidOf' = pidOf \/ pidOf' = [pidOf EXCEPT ![r] = None]
      BY <2>2 DEF SpawnError, FinalizeOk, FinalizeFailed, Leaves
    <3> SUFFICES ASSUME NEW a \in Agent, ~Ghost(a) PROVE ~Ghost(a)'
      BY DEF NewGhostsAreCancelled
    <3>3. tracked'[a] = IF a = AgentOf[r] THEN None ELSE tracked[a]
      BY <1>3, <3>1, UnregisteredIsNone
    <3>4. CASE a = AgentOf[r]
      BY <3>3, <3>4 DEF Ghost
    <3>5. CASE a # AgentOf[r]
      <4>1. \A q \in Run : AgentOf[q] = a => pidOf'[q] = pidOf[q]
        BY <1>3, <3>2, <3>5 DEF RunsTyped
      <4>2. QED
        BY <3>3, <3>5, <4>1, NoGhostOf
    <3>6. QED
      BY <3>4, <3>5
  <2>3. ASSUME NEW r \in Run, FinalizeCancelled(r)
        PROVE  NewGhostsAreCancelled
    <3>1. /\ pidOf' = [pidOf EXCEPT ![r] = None]
          /\ run' = [run EXCEPT ![r] = "ended"]
          /\ tracked' = tracked
          /\ run[r] = "exited" /\ outcome[r] = "cancel"
      BY <2>3 DEF FinalizeCancelled, Leaves
    <3>2. run'[r] = "ended"
      BY <1>3, <3>1 DEF RunsTyped
    <3> SUFFICES ASSUME NEW a \in Agent, ~Ghost(a),
                        ~\E q \in Run : /\ AgentOf[q] = a
                                        /\ run[q] = "exited"
                                        /\ outcome[q] = "cancel"
                                        /\ run'[q] = "ended"
                 PROVE  ~Ghost(a)'
      BY DEF NewGhostsAreCancelled
    <3>3. a # AgentOf[r]
      BY <3>1, <3>2
    <3>4. \A q \in Run : AgentOf[q] = a => pidOf'[q] = pidOf[q]
      BY <1>3, <3>1, <3>3 DEF RunsTyped
    <3>5. QED
      BY <3>1, <3>4, NoGhostOf
  <2>4. ASSUME NEW r \in Run, Refuse(r) \/ Dies(r) \/ Reap(r)
        PROVE  UNCHANGED <<tracked, pidOf>>
    BY <2>4 DEF Refuse, Dies, Reap
  <2>5. ASSUME CheckStuckAgents
        PROVE  NewGhostsAreCancelled
    <3> SUFFICES ASSUME NEW a \in Agent, ~Ghost(a) PROVE ~Ghost(a)'
      BY DEF NewGhostsAreCancelled
    <3>1. tracked'[a] = tracked[a] \/ tracked'[a] = None
      BY <2>5 DEF CheckStuckAgents
    <3>2. pidOf' = pidOf
      BY <2>5 DEF CheckStuckAgents, runVars
    <3>3. QED
      BY <3>1, <3>2, NoGhostOf
  <2>6. ASSUME NEW p \in Pid, StrangerStarts(p) \/ StrangerExits(p)
        PROVE  UNCHANGED <<tracked, pidOf>>
    BY <2>6 DEF StrangerStarts, StrangerExits, runVars
  <2>7. ASSUME Tick
        PROVE  UNCHANGED <<tracked, pidOf>>
    BY <2>7 DEF Tick, runVars
  <2>8. CASE UNCHANGED vars
    BY <1>2, <2>8 DEF vars, runVars
  <2>9. CASE Next
    BY <1>2, <2>1, <2>2, <2>3, <2>4, <2>5, <2>6, <2>7, <2>9 DEF Next
  <2>10. QED
    BY <1>3, <2>8, <2>9
<1>4. QED
  BY <1>1, <1>3, StepRuns, StepPids, PTL DEF Spec, GhostsAreCancelled

-----------------------------------------------------------------------------
(* What is recorded of a request.                                            *)

OutcomesKnown ==
    \A r \in Run :
        /\ run[r] \in {"running", "backoff"} => outcome[r] # "spawnError"
        /\ run[r] = "zombie" => outcome[r] \in {"ok", "cancel"} \cup Stderr
        /\ run[r] = "exited" => outcome[r] \in {"ok", "cancel", "spawnError"} \cup Stderr

Recording == RunsTyped /\ OutcomesKnown /\ FailureRecordedOnce

\* A step that changes one request at most leaves the others as they are.
LEMMA OneRequest ==
    ASSUME Recording, NEW r \in Run,
           \A q \in Run \ {r} : /\ run'[q] = run[q]
                                /\ outcome'[q] = outcome[q]
                                /\ recorded'[q] = recorded[q],
           run'[r] \in {"running", "backoff"} => outcome'[r] # "spawnError",
           run'[r] = "zombie" => outcome'[r] \in {"ok", "cancel"} \cup Stderr,
           run'[r] = "exited" => outcome'[r] \in {"ok", "cancel", "spawnError"} \cup Stderr,
           recorded'[r] =
               IF outcome'[r] = "spawnError" THEN IF run'[r] = "exited" THEN 1 ELSE 2
               ELSE IF run'[r] = "ended" /\ outcome'[r] \in Kind THEN 1
               ELSE 0
    PROVE  OutcomesKnown' /\ FailureRecordedOnce'
<1>1. ASSUME NEW q \in Run
      PROVE  /\ run'[q] \in {"running", "backoff"} => outcome'[q] # "spawnError"
             /\ run'[q] = "zombie" => outcome'[q] \in {"ok", "cancel"} \cup Stderr
             /\ run'[q] = "exited" => outcome'[q] \in {"ok", "cancel", "spawnError"} \cup Stderr
  <2>1. CASE q = r
    BY <2>1
  <2>2. CASE q # r
    BY <2>2 DEF Recording, OutcomesKnown
  <2>3. QED
    BY <2>1, <2>2
<1>2. ASSUME NEW q \in Run
      PROVE  recorded'[q] =
                 IF outcome'[q] = "spawnError" THEN IF run'[q] = "exited" THEN 1 ELSE 2
                 ELSE IF run'[q] = "ended" /\ outcome'[q] \in Kind THEN 1
                 ELSE 0
  <2>1. CASE q = r
    BY <2>1
  <2>2. CASE q # r
    BY <2>2 DEF Recording, FailureRecordedOnce
  <2>3. QED
    BY <2>1, <2>2
<1>3. QED
  BY <1>1, <1>2 DEF OutcomesKnown, FailureRecordedOnce

\* What the request's own values become when its entries of the functions are set.
LEMMA Others ==
    ASSUME RunsTyped, NEW r \in Run, NEW s, NEW o, NEW n,
           run' = [run EXCEPT ![r] = s],
           outcome' = [outcome EXCEPT ![r] = o],
           recorded' = [recorded EXCEPT ![r] = n]
    PROVE  /\ run'[r] = s /\ outcome'[r] = o /\ recorded'[r] = n
           /\ \A q \in Run \ {r} : /\ run'[q] = run[q]
                                   /\ outcome'[q] = outcome[q]
                                   /\ recorded'[q] = recorded[q]
  BY DEF RunsTyped

\* An entry that is set to what it is.
LEMMA Same ==
    ASSUME RunsTyped, NEW r \in Run
    PROVE  /\ outcome = [outcome EXCEPT ![r] = outcome[r]]
           /\ recorded = [recorded EXCEPT ![r] = recorded[r]]
  BY DEF RunsTyped

\* The condition by which the supervisor is informed is the one by which the
\* request is retried, but for the two kinds of rate limit.
LEMMA RetryAgrees ==
    ASSUME Stderr \cap {"429", "late"} = {}, MaxRetries <= MaxRateRetries,
           RunsTyped, OutcomesKnown, NEW r \in Run, run[r] = "exited"
    PROVE  WillRetry(r) <=> Retries(r)
<1>1. outcome[r] \notin {"429", "late"}
  BY DEF OutcomesKnown
<1>2. retries[r] \in Nat /\ MaxRetries \in Nat /\ MaxRateRetries \in Nat
  BY ConstantAssumption DEF RunsTyped, ConstantAssumption
<1>3. CASE outcome[r] = "rate"
  BY <1>2, <1>3 DEF WillRetry, Retries, RateLimit, Retryable
<1>4. CASE outcome[r] # "rate"
  BY <1>1, <1>2, <1>4 DEF WillRetry, Retries, RateLimit, Retryable
<1>5. QED
  BY <1>3, <1>4

LEMMA StepRecording ==
    ASSUME Stderr \cap {"429", "late"} = {}, MaxRetries <= MaxRateRetries,
           Recording, [Next]_vars
    PROVE  OutcomesKnown' /\ FailureRecordedOnce'
<1>1. ASSUME UNCHANGED <<run, outcome, recorded>>
      PROVE  OutcomesKnown' /\ FailureRecordedOnce'
  BY <1>1 DEF Recording, OutcomesKnown, FailureRecordedOnce
<1>2. RunsTyped /\ OutcomesKnown /\ FailureRecordedOnce
  BY DEF Recording
<1>3. ASSUME NEW r \in Run, run[r] \in {"ended", "backoff"}
      PROVE  Before(r) = 0
  <2>1. CASE run[r] = "ended"
    BY <2>1 DEF Before
  <2>2. CASE run[r] = "backoff"
    BY <1>2, <2>2 DEF Before, FailureRecordedOnce, OutcomesKnown
  <2>3. QED
    BY <1>3, <2>1, <2>2
<1>4. ASSUME NEW r \in Run, Refuse(r)
      PROVE  OutcomesKnown' /\ FailureRecordedOnce'
  <2>1. /\ run' = [run EXCEPT ![r] = "ended"]
        /\ outcome' = [outcome EXCEPT ![r] = "refused"]
        /\ recorded' = [recorded EXCEPT ![r] = 0]
    BY <1>4 DEF Refuse
  <2>2. /\ run'[r] = "ended" /\ outcome'[r] = "refused" /\ recorded'[r] = 0
        /\ \A q \in Run \ {r} : /\ run'[q] = run[q]
                                /\ outcome'[q] = outcome[q]
                                /\ recorded'[q] = recorded[q]
    BY <1>2, <2>1, Others
  <2>3. /\ "refused" # "spawnError" /\ "refused" \notin Kind
        /\ run'[r] # "zombie" /\ run'[r] # "exited"
    BY <2>2 DEF Kind
  <2>4. recorded'[r] = IF outcome'[r] = "spawnError" THEN IF run'[r] = "exited" THEN 1 ELSE 2
                       ELSE IF run'[r] = "ended" /\ outcome'[r] \in Kind THEN 1
                       ELSE 0
    BY <2>2, <2>3
  <2>5. QED
    BY <2>2, <2>3, <2>4, OneRequest
<1>5. ASSUME NEW r \in Run, NEW p \in Pid, Spawn(r, p)
      PROVE  OutcomesKnown' /\ FailureRecordedOnce'
  <2>1. /\ run' = [run EXCEPT ![r] = "running"]
        /\ outcome' = [outcome EXCEPT ![r] = "none"]
        /\ recorded' = [recorded EXCEPT ![r] = 0]
    BY <1>3, <1>5 DEF Spawn, Attempt
  <2>2. /\ run'[r] = "running" /\ outcome'[r] = "none" /\ recorded'[r] = 0
        /\ \A q \in Run \ {r} : /\ run'[q] = run[q]
                                /\ outcome'[q] = outcome[q]
                                /\ recorded'[q] = recorded[q]
    BY <1>2, <2>1, Others
  <2>3. QED
    BY <2>2, OneRequest
<1>6. ASSUME NEW r \in Run, SpawnError(r)
      PROVE  OutcomesKnown' /\ FailureRecordedOnce'
  <2>1. Before(r) + 1 = 1
    BY <1>3, <1>6 DEF SpawnError, Attempt
  <2>2. /\ run' = [run EXCEPT ![r] = "exited"]
        /\ outcome' = [outcome EXCEPT ![r] = "spawnError"]
        /\ recorded' = [recorded EXCEPT ![r] = 1]
    BY <1>6, <2>1 DEF SpawnError
  <2>3. /\ run'[r] = "exited" /\ outcome'[r] = "spawnError" /\ recorded'[r] = 1
        /\ \A q \in Run \ {r} : /\ run'[q] = run[q]
                                /\ outcome'[q] = outcome[q]
                                /\ recorded'[q] = recorded[q]
    BY <1>2, <2>2, Others
  <2>4. QED
    BY <2>3, OneRequest
<1>7. ASSUME NEW r \in Run, Dies(r)
      PROVE  OutcomesKnown' /\ FailureRecordedOnce'
  <2>1. PICK o \in {"ok", "cancel"} \cup Stderr : outcome' = [outcome EXCEPT ![r] = o]
    BY <1>7 DEF Dies
  <2>2. /\ run' = [run EXCEPT ![r] = "zombie"]
        /\ recorded' = [recorded EXCEPT ![r] = recorded[r]]
        /\ run[r] = "running"
    BY <1>2, <1>7, Same DEF Dies
  <2>3. /\ run'[r] = "zombie" /\ outcome'[r] = o /\ recorded'[r] = recorded[r]
        /\ \A q \in Run \ {r} : /\ run'[q] = run[q]
                                /\ outcome'[q] = outcome[q]
                                /\ recorded'[q] = recorded[q]
    BY <1>2, <2>1, <2>2, Others
  <2>4. o # "spawnError"
    BY <2>1, ConstantAssumption DEF ConstantAssumption, Kind
  <2>5. recorded[r] = 0
    BY <1>2, <2>2 DEF FailureRecordedOnce, OutcomesKnown
  <2>6. QED
    BY <2>1, <2>3, <2>4, <2>5, OneRequest
<1>8. ASSUME NEW r \in Run, Reap(r)
      PROVE  OutcomesKnown' /\ FailureRecordedOnce'
  <2>1. /\ run' = [run EXCEPT ![r] = "exited"]
        /\ outcome' = [outcome EXCEPT ![r] = outcome[r]]
        /\ recorded' = [recorded EXCEPT ![r] = recorded[r]]
        /\ run[r] = "zombie"
    BY <1>2, <1>8, Same DEF Reap
  <2>2. /\ run'[r] = "exited" /\ outcome'[r] = outcome[r] /\ recorded'[r] = recorded[r]
        /\ \A q \in Run \ {r} : /\ run'[q] = run[q]
                                /\ outcome'[q] = outcome[q]
                                /\ recorded'[q] = recorded[q]
    BY <1>2, <2>1, Others
  <2>3. outcome[r] \in {"ok", "cancel"} \cup Stderr /\ outcome[r] # "spawnError"
    BY <1>2, <2>1, ConstantAssumption DEF OutcomesKnown, ConstantAssumption, Kind
  <2>4. recorded[r] = 0
    BY <1>2, <2>1, <2>3 DEF FailureRecordedOnce
  <2>5. QED
    BY <2>2, <2>3, <2>4, OneRequest
<1>9. ASSUME NEW r \in Run, FinalizeOk(r) \/ FinalizeCancelled(r)
      PROVE  OutcomesKnown' /\ FailureRecordedOnce'
  <2>1. /\ run' = [run EXCEPT ![r] = "ended"]
        /\ outcome' = [outcome EXCEPT ![r] = outcome[r]]
        /\ recorded' = [recorded EXCEPT ![r] = recorded[r]]
        /\ run[r] = "exited" /\ outcome[r] \in {"ok", "cancel"}
    BY <1>2, <1>9, Same DEF FinalizeOk, FinalizeCancelled, Leaves
  <2>2. /\ run'[r] = "ended" /\ outcome'[r] = outcome[r] /\ recorded'[r] = recorded[r]
        /\ \A q \in Run \ {r} : /\ run'[q] = run[q]
                                /\ outcome'[q] = outcome[q]
                                /\ recorded'[q] = recorded[q]
    BY <1>2, <2>1, Others
  <2>3. outcome[r] \notin Kind /\ outcome[r] # "spawnError"
    BY <2>1 DEF Kind
  <2>4. recorded[r] = 0
    BY <1>2, <2>1, <2>3 DEF FailureRecordedOnce
  <2>5. QED
    BY <2>2, <2>3, <2>4, OneRequest
<1>10. ASSUME NEW r \in Run, FinalizeFailed(r)
       PROVE  OutcomesKnown' /\ FailureRecordedOnce'
  <2>1. run[r] = "exited" /\ outcome[r] \in Kind \cup {"spawnError"}
    BY <1>10 DEF FinalizeFailed
  <2>2. RecordsFailure(r) <=> ~Retries(r)
    BY <1>2, <2>1, RetryAgrees DEF RecordsFailure
  <2>3. CASE Retries(r)
    <3>1. outcome[r] \in Kind /\ outcome[r] # "spawnError"
      BY <2>3 DEF Retries, Retryable, Kind
    <3>2. recorded[r] = 0
      BY <1>2, <2>1, <3>1 DEF FailureRecordedOnce
    <3>3. /\ run' = [run EXCEPT ![r] = "backoff"]
          /\ outcome' = [outcome EXCEPT ![r] = outcome[r]]
          /\ recorded' = [recorded EXCEPT ![r] = recorded[r]]
      BY <1>2, <1>10, <2>2, <2>3, Same DEF FinalizeFailed, Leaves
    <3>4. /\ run'[r] = "backoff" /\ outcome'[r] = outcome[r] /\ recorded'[r] = recorded[r]
          /\ \A q \in Run \ {r} : /\ run'[q] = run[q]
                                  /\ outcome'[q] = outcome[q]
                                  /\ recorded'[q] = recorded[q]
      BY <1>2, <3>3, Others
    <3>5. QED
      BY <3>1, <3>2, <3>4, OneRequest
  <2>4. CASE ~Retries(r)
    <3>1. recorded[r] + 1 = IF outcome[r] = "spawnError" THEN 2 ELSE 1
      BY <1>2, <2>1 DEF FailureRecordedOnce
    <3>2. /\ run' = [run EXCEPT ![r] = "ended"]
          /\ outcome' = [outcome EXCEPT ![r] = outcome[r]]
          /\ recorded' = [recorded EXCEPT ![r] = recorded[r] + 1]
      BY <1>2, <1>10, <2>2, <2>4, Same DEF FinalizeFailed, Leaves
    <3>3. /\ run'[r] = "ended" /\ outcome'[r] = outcome[r] /\ recorded'[r] = recorded[r] + 1
          /\ \A q \in Run \ {r} : /\ run'[q] = run[q]
                                  /\ outcome'[q] = outcome[q]
                                  /\ recorded'[q] = recorded[q]
      BY <1>2, <3>2, Others
    <3>4. QED
      BY <2>1, <3>1, <3>3, OneRequest DEF Kind
  <2>5. QED
    BY <2>3, <2>4
<1>11. ASSUME NEW p \in Pid, StrangerStarts(p) \/ StrangerExits(p)
       PROVE  UNCHANGED <<run, outcome, recorded>>
  BY <1>11 DEF StrangerStarts, StrangerExits, runVars
<1>12. ASSUME CheckStuckAgents \/ Tick
       PROVE  UNCHANGED <<run, outcome, recorded>>
  BY <1>12 DEF CheckStuckAgents, Tick, runVars
<1>13. CASE UNCHANGED vars
  BY <1>1, <1>13 DEF vars, runVars
<1>14. CASE Next
  BY <1>1, <1>4, <1>5, <1>6, <1>7, <1>8, <1>9, <1>10, <1>11, <1>12, <1>14 DEF Next
<1>15. QED
  BY <1>13, <1>14

\* But for the two kinds of rate limit that are neither retried nor recorded, and
\* with at least as many retries of rate limits as of other errors, the supervisor
\* hears of a request's failure once, after its last retry.
THEOREM RecordedOnce ==
    ASSUME Stderr \cap {"429", "late"} = {}, MaxRetries <= MaxRateRetries
    PROVE  Spec => []FailureRecordedOnce
<1>1. Init => Recording
  BY DEF Init, Recording, RunsTyped, OutcomesKnown, FailureRecordedOnce, Stage, Outcome, Kind
<1>2. Recording /\ [Next]_vars => Recording'
  <2>1. SUFFICES ASSUME Recording, [Next]_vars PROVE Recording'
    OBVIOUS
  <2>2. RunsTyped'
    BY <2>1, StepRuns DEF Recording
  <2>3. OutcomesKnown' /\ FailureRecordedOnce'
    BY <2>1, StepRecording
  <2>4. QED
    BY <2>2, <2>3 DEF Recording
<1>3. Recording => FailureRecordedOnce
  BY DEF Recording
<1>4. QED
  BY <1>1, <1>2, <1>3, PTL DEF Spec
=============================================================================
