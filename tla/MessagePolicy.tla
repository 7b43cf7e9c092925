---------------------------- MODULE MessagePolicy ---------------------------
(***************************************************************************)
(* MessagePolicy.canSend with its counters per sender.  Time is discrete:  *)
(* a minute is minute ticks and an hour is hour ticks; what is older than  *)
(* the horizon, two hours, is as old as it.                                *)
(*                                                                         *)
(* The lists are those of the configuration.  The size limit, the rules and*)
(* the default action decide after the counting and change no state.       *)
(***************************************************************************)
EXTENDS Integers, FiniteSets

CONSTANTS
    Sender,
    Denied, Allowed,        \* denylist; allowlist, empty when there is none
    minute, hour,
    maxPerMinute, maxPerHour

ASSUME PolicyAssumption ==
    /\ minute \in Nat \ {0} /\ hour \in Nat /\ hour > minute
    /\ maxPerMinute \in Nat \ {0} /\ maxPerHour \in Nat \ {0}

VARIABLES
    policyMinute,   \* counter.minute of each sender
    policyHour,     \* counter.hour
    policyAge,      \* now - counter.lastReset
    policyKnown,    \* senders with a counter
    policyCounted   \* history: messages counted for each sender, by age in ticks

policyVars == <<policyMinute, policyHour, policyAge, policyKnown, policyCounted>>

horizon == 2 * hour + 1
Older(age) == IF age < horizon THEN age + 1 ELSE horizon

PolicyTypeOK ==
    /\ policyMinute \in [Sender -> 0..maxPerMinute]
    /\ policyHour \in [Sender -> 0..maxPerHour]
    /\ policyAge \in [Sender -> 0..horizon]
    /\ policyKnown \subseteq Sender
    /\ policyCounted \in [Sender -> [0..hour -> 0..2 * maxPerHour]]

PolicyInit ==
    /\ policyMinute = [s \in Sender |-> 0]
    /\ policyHour = [s \in Sender |-> 0]
    /\ policyAge = [s \in Sender |-> 0]
    /\ policyKnown = {}
    /\ policyCounted = [s \in Sender |-> [age \in 0..hour |-> 0]]

Tock ==
    /\ policyAge' = [s \in Sender |-> IF s \in policyKnown THEN Older(policyAge[s]) ELSE 0]
    /\ policyCounted' = [s \in Sender |-> [age \in 0..hour |->
                            IF age = 0 THEN 0 ELSE policyCounted[s][age - 1]]]
    /\ UNCHANGED <<policyMinute, policyHour, policyKnown>>

\* The counters of s after the resets of _isRateLimited.
AfterReset(s) ==
    IF policyAge[s] > hour THEN [minute |-> 0, hour |-> 0, age |-> 0]
    ELSE IF policyAge[s] > minute THEN [minute |-> 0, hour |-> policyHour[s], age |-> 0]
    ELSE [minute |-> policyMinute[s], hour |-> policyHour[s], age |-> policyAge[s]]

\* Mutant: a limit is reached when it has been passed.
LimitedLate(c) == c.minute > maxPerMinute \/ c.hour > maxPerHour

Limited(c) == c.minute >= maxPerMinute \/ c.hour >= maxPerHour

\* _isRateLimited on a counter that is not limited; one that is limited keeps
\* its resets too, if it was known.
Count(s, c) ==
    /\ policyMinute' = [policyMinute EXCEPT ![s] = c.minute + 1]
    /\ policyHour' = [policyHour EXCEPT ![s] = c.hour + 1]
    /\ policyAge' = [policyAge EXCEPT ![s] = c.age]
    /\ policyKnown' = policyKnown \cup {s}
    /\ policyCounted' = [policyCounted EXCEPT ![s][0] = @ + 1]

Refuse(s, c) ==
    /\ policyMinute' = [policyMinute EXCEPT ![s] = c.minute]
    /\ policyHour' = [policyHour EXCEPT ![s] = c.hour]
    /\ policyAge' = [policyAge EXCEPT ![s] = c.age]
    /\ UNCHANGED <<policyKnown, policyCounted>>

Listed(s) == s \notin Denied /\ (Allowed = {} \/ s \in Allowed)

\* Mutant: the limits come before the lists.
CanSendCountsAll(s) ==
    LET c == AfterReset(s)
    IN  IF Limited(c) THEN Refuse(s, c) ELSE Count(s, c)

\* Mutant: the age is measured from the first message of an hour that is over.
CanSendStale(s) ==
    /\ Listed(s)
    /\ LET c == [AfterReset(s) EXCEPT !.age = policyAge[s]]
       IN  IF Limited(c) THEN Refuse(s, c) ELSE Count(s, c)

\* canSend: a sender that is not listed is refused before it is counted, a
\* message that is too large or that a rule refuses after.
CanSend(s) ==
    /\ Listed(s)
    /\ LET c == AfterReset(s)
       IN  IF Limited(c) THEN Refuse(s, c) ELSE Count(s, c)

\* _cleanupCounters, every ten minutes.
CleanupCounters ==
    LET stale == {s \in policyKnown : policyAge[s] > 2 * hour}
        Cleared(count) == [s \in Sender |-> IF s \in stale THEN 0 ELSE count[s]]
    IN  /\ stale # {}
        /\ policyKnown' = policyKnown \ stale
        /\ policyMinute' = Cleared(policyMinute)
        /\ policyHour' = Cleared(policyHour)
        /\ policyAge' = Cleared(policyAge)
        /\ UNCHANGED policyCounted

PolicyNext ==
    \/ Tock
    \/ \E s \in Sender : CanSend(s)
    \/ CleanupCounters

-----------------------------------------------------------------------------
(* Properties.                                                              *)

\* How many of the messages are of an age or younger, by age.
Sums(counted) ==
    LET sum[age \in 0..hour] == IF age = 0 THEN counted[0] ELSE sum[age - 1] + counted[age]
    IN  sum
Within(s, ticks) == Sums(policyCounted[s])[ticks]

\* The counters reset on a message, not on the clock: whatever the pattern, no
\* minute sees more than twice maxPerMinute messages of a sender and no hour
\* more than twice maxPerHour (87-121).
BurstBounded ==
    \A s \in Sender :
        /\ Within(s, minute - 1) <= 2 * maxPerMinute
        /\ Within(s, hour - 1) <= 2 * maxPerHour

\* A sender the lists exclude has no counter, so that it cannot wear out the
\* limit of anyone or be let in when they change (47-54).
ExcludedNotCounted == \A s \in policyKnown : Listed(s)
=============================================================================
