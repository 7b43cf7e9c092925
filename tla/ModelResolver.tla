---------------------------- MODULE ModelResolver ----------------------------
(***************************************************************************)
(* src/agent/model-resolver.js: one of several model providers is chosen   *)
(* for each call, providers that fail or are rate limited are left out     *)
(* for a while, and a failed call is tried again with the next choice.  A  *)
(* call of a provider blocks the process (execFileSync), so calls do not   *)
(* overlap.  A provider is its place in the order of priority.             *)
(***************************************************************************)
EXTENDS Naturals, FiniteSets, FiniteSetsExt

CONSTANTS Providers,           \* how many there are
          maxFailures,
          cooldown,            \* cooldownMs and rateLimitCooldownMs, in ticks
          rateLimitCooldown,
          RoundRobin,          \* the strategy: 'round-robin' or 'priority'
          Turns                \* bound on roundRobinIndex: a multiple of every number of
                               \* available providers, so that counting wraps soundly

ASSUME ResolverAssumption ==
  /\ Providers \in Nat \ {0} /\ maxFailures \in Nat \ {0}
  /\ cooldown \in Nat /\ rateLimitCooldown \in Nat /\ RoundRobin \in BOOLEAN
  /\ Turns \in Nat \ {0} /\ \A n \in 1 .. Providers : Turns % n = 0

VARIABLES
  healthy,        \* providerStates: healthy,
  failures,       \* failures, counted up to maxFailures,
  coolingFor,     \* the ticks until cooldownUntil
  limitedFor,     \* and until rateLimitedUntil
  nextInTurn,     \* roundRobinIndex
  trying,         \* the provider the current attempt uses or used last
  stage           \* "idle", "calling", "failed" and "again": where call() is

resolverVars == <<healthy, failures, coolingFor, limitedFor, nextInTurn, trying, stage>>
states == <<healthy, failures, coolingFor, limitedFor>>

Provider == 1 .. Providers
Everywhere(v) == [p \in Provider |-> v]

-----------------------------------------------------------------------------
\* Mutant: who is rate limited is available.
AvailableOrLimited == {p \in Provider : healthy[p] /\ coolingFor[p] = 0}

\* getAvailableProviders, in order of priority.
Available == {p \in Provider : healthy[p] /\ coolingFor[p] = 0 /\ limitedFor[p] = 0}

\* _roundRobinSelect, or the first.
Selected ==
  IF RoundRobin
  THEN CHOOSE p \in Available :
         Cardinality({q \in Available : q < p}) = nextInTurn % Cardinality(Available)
  ELSE Min(Available)

\* Mutant: every failure and cooldown is forgotten, but a provider out of service stays out.
ResolveUnhealed(p) ==
  \/ /\ Available # {} /\ p = Selected
     /\ nextInTurn' = IF RoundRobin THEN (nextInTurn + 1) % Turns ELSE nextInTurn
     /\ UNCHANGED states
  \/ /\ Available = {} /\ p = 1
     /\ failures' = Everywhere(0) /\ coolingFor' = Everywhere(0) /\ limitedFor' = Everywhere(0)
     /\ UNCHANGED <<healthy, nextInTurn>>

\* resolve(): when nobody is available, resetCooldowns, and then the first is the choice.
Resolve(p) ==
  \/ /\ Available # {} /\ p = Selected
     /\ nextInTurn' = IF RoundRobin THEN (nextInTurn + 1) % Turns ELSE nextInTurn
     /\ UNCHANGED states
  \/ /\ Available = {} /\ p = 1
     /\ healthy' = Everywhere(TRUE) /\ failures' = Everywhere(0)
     /\ coolingFor' = Everywhere(0) /\ limitedFor' = Everywhere(0)
     /\ UNCHANGED nextInTurn

\* call(): a provider is chosen and asked.
CallProvider(p) ==
  /\ stage \in {"idle", "again"}
  /\ Resolve(p)
  /\ trying' = p /\ stage' = "calling"

\* reportSuccess.
CallSucceeds ==
  /\ stage = "calling"
  /\ healthy' = [healthy EXCEPT ![trying] = TRUE]
  /\ failures' = [failures EXCEPT ![trying] = 0]
  /\ coolingFor' = [coolingFor EXCEPT ![trying] = 0]
  /\ stage' = "idle"
  /\ UNCHANGED <<limitedFor, nextInTurn, trying>>

\* reportFailure: a rate limit is waited out; too many failures put the provider out of
\* service.
CallFails(rateLimited) ==
  LET n == Min({failures[trying] + 1, maxFailures}) IN
  /\ stage = "calling"
  /\ failures' = [failures EXCEPT ![trying] = n]
  /\ limitedFor' = IF rateLimited THEN [limitedFor EXCEPT ![trying] = rateLimitCooldown]
                   ELSE limitedFor
  /\ healthy' = [healthy EXCEPT ![trying] = @ /\ (rateLimited \/ n < maxFailures)]
  /\ coolingFor' = IF ~rateLimited /\ n = maxFailures
                   THEN [coolingFor EXCEPT ![trying] = cooldown] ELSE coolingFor
  /\ stage' = "failed"
  /\ UNCHANGED <<nextInTurn, trying>>

\* A choice is made to see whether it differs: if it does the call is made again, with a
\* choice of its own; if not the caller gets the error.
FailOver(p) ==
  /\ stage = "failed"
  /\ Resolve(p)
  /\ stage' = IF p # trying THEN "again" ELSE "idle"
  /\ UNCHANGED trying

Elapses ==
  LET less(f) == [p \in Provider |-> IF f[p] = 0 THEN 0 ELSE f[p] - 1] IN
  /\ stage \in {"idle", "calling"}
  /\ coolingFor' = less(coolingFor) /\ limitedFor' = less(limitedFor)
  /\ UNCHANGED <<healthy, failures, nextInTurn, trying, stage>>

-----------------------------------------------------------------------------
ResolverInit ==
  /\ healthy = Everywhere(TRUE) /\ failures = Everywhere(0)
  /\ coolingFor = Everywhere(0) /\ limitedFor = Everywhere(0)
  /\ nextInTurn = 0 /\ trying = 1 /\ stage = "idle"

ResolverNext ==
  \/ \E p \in Provider : CallProvider(p)
  \/ CallSucceeds
  \/ \E rateLimited \in BOOLEAN : CallFails(rateLimited)
  \/ \E p \in Provider : FailOver(p)
  \/ Elapses

ResolverSpec == ResolverInit /\ [][ResolverNext]_resolverVars

-----------------------------------------------------------------------------
\* A provider is out of service only with maxFailures failures on its account, and cools
\* down only while it is out of service.
ResolverTypeOK ==
  /\ healthy \in [Provider -> BOOLEAN] /\ failures \in [Provider -> 0 .. maxFailures]
  /\ coolingFor \in [Provider -> 0 .. cooldown]
  /\ limitedFor \in [Provider -> 0 .. rateLimitCooldown]
  /\ nextInTurn \in 0 .. Turns - 1 /\ trying \in Provider
  /\ stage \in {"idle", "calling", "failed", "again"}
  /\ \A p \in Provider : /\ ~healthy[p] => failures[p] = maxFailures
                         /\ coolingFor[p] > 0 => ~healthy[p]

\* A rate limited provider is not asked before its time, however the choice is made and
\* whoever else fails, unless there was nobody left to ask.
LimitedAreLast ==
  \A p \in Provider :
    limitedFor[p] > 0 /\ (CallProvider(p) \/ FailOver(p)) =>
       \A q \in Provider : limitedFor[q] > 0 \/ coolingFor[q] > 0 \/ ~healthy[q]
LimitedIsSpared == [][LimitedAreLast]_resolverVars

===============================================================================
