------------------------------ MODULE Statistics ------------------------------
(***************************************************************************)
(* What the system counts of its agents, in three files under data/:       *)
(* src/agent/usage-tracker.js (the cost of each day, and whether a budget  *)
(* is used up), src/agent/agent-stats.js (every run of the last day) and   *)
(* src/agent-outputs.js (an agent's last few answers).  Each is kept in    *)
(* memory and written over its file now and then: the usage every minute,  *)
(* the runs every five, the answers five seconds after the first that is   *)
(* not on the file.  Nothing calls their destroy(): what was not written   *)
(* when the process ends is lost, and a write that fails is logged and     *)
(* forgotten.  The files are written in place: a crash or a failure in the *)
(* middle cuts one short, and it then reads as one that is not there.      *)
(***************************************************************************)
EXTENDS Naturals, Sequences

CONSTANTS MaxDay,         \* bound on the days that pass
          DaysPerMonth,
          KeptDays,       \* the days of usage _prune keeps
          dailyLimit,     \* the budgets at throttlePercent, in runs that cost something
          monthlyLimit,
          OutputsKept,    \* MAX_ENTRIES_PER_AGENT of agent-outputs.js
          MaxRecorded     \* bound on the runs that are recorded

ASSUME StatsAssumption ==
  /\ MaxDay \in Nat /\ DaysPerMonth \in Nat \ {0} /\ KeptDays \in Nat
  /\ dailyLimit \in Nat /\ monthlyLimit \in Nat
  /\ OutputsKept \in Nat \ {0} /\ MaxRecorded \in Nat

VARIABLES
  today,
  recorded,      \* the runs recorded so far; the n-th is the number n
  daily,         \* UsageTracker.daily: each day's cost
  throttled,     \* UsageTracker.throttled
  entries,       \* AgentStats.entries of an agent: [run, day]
  outputs,       \* AgentOutputs.outputs of an agent: the runs whose answers are kept
  outputsDue,    \* AgentOutputs._saveTimer is set
  usageFile, statsFile, outputsFile,
  statsUp,
  outputsFailed  \* history: the last save of the answers failed, and no timer was set since

statMemory == <<daily, throttled, entries, outputs, outputsDue>>
statFiles == <<usageFile, statsFile, outputsFile>>
statVars == <<today, recorded, statMemory, statFiles, statsUp, outputsFailed>>

Day == 0 .. MaxDay
NoCost == [d \in Day |-> 0]

Total(cost) ==
  LET sum[d \in Day] == IF d = 0 THEN cost[0] ELSE sum[d - 1] + cost[d]
  IN  sum[MaxDay]

\* getMonthCost.
MonthCost(cost) ==
  Total([d \in Day |-> IF d \div DaysPerMonth = today \div DaysPerMonth THEN cost[d] ELSE 0])

\* _checkLimits.
OverBudget(cost) == cost[today] >= dailyLimit \/ MonthCost(cost) >= monthlyLimit

\* The newest answers: record splices the older ones away.
LastOnes(s) == SubSeq(s, IF Len(s) > OutputsKept THEN Len(s) - OutputsKept + 1 ELSE 1, Len(s))

\* AgentStats._prune and UsageTracker._prune: what is too old goes.
InWindow(s) ==
  LET kept[n \in 0 .. Len(s)] ==
        IF n = 0 THEN <<>>
        ELSE IF s[n].day = today THEN Append(kept[n - 1], s[n]) ELSE kept[n - 1]
  IN  kept[Len(s)]
RecentDays(cost) == [d \in Day |-> IF d + KeptDays < today THEN 0 ELSE cost[d]]

-----------------------------------------------------------------------------
\* Mutant: the timer is set for the first answer only.
RecordFirst(answered, costs) ==
  LET n == recorded + 1
      cost == [daily EXCEPT ![today] = @ + 1] IN
  /\ statsUp /\ recorded < MaxRecorded
  /\ recorded' = n
  /\ entries' = Append(entries, [run |-> n, day |-> today])
  /\ outputs' = IF answered THEN LastOnes(Append(outputs, n)) ELSE outputs
  /\ outputsDue' = (outputsDue \/ (answered /\ outputs = <<>>))
  /\ outputsFailed' = (outputsFailed /\ ~answered)
  /\ daily' = IF costs THEN cost ELSE daily
  /\ throttled' = IF costs THEN OverBudget(cost) ELSE throttled
  /\ UNCHANGED <<today, statFiles, statsUp>>

\* Mutant: an answer is never spliced away.
RecordAll(answered, costs) ==
  LET n == recorded + 1
      cost == [daily EXCEPT ![today] = @ + 1] IN
  /\ statsUp /\ recorded < MaxRecorded
  /\ recorded' = n
  /\ entries' = Append(entries, [run |-> n, day |-> today])
  /\ outputs' = IF answered THEN Append(outputs, n) ELSE outputs
  /\ outputsDue' = (outputsDue \/ answered)
  /\ outputsFailed' = (outputsFailed /\ ~answered)
  /\ daily' = IF costs THEN cost ELSE daily
  /\ throttled' = IF costs THEN OverBudget(cost) ELSE throttled
  /\ UNCHANGED <<today, statFiles, statsUp>>

\* A run ends: its statistics, its answer when it has one, and its cost when it has one.
RecordRun(answered, costs) ==
  LET n == recorded + 1
      cost == [daily EXCEPT ![today] = @ + 1] IN
  /\ statsUp /\ recorded < MaxRecorded
  /\ recorded' = n
  /\ entries' = Append(entries, [run |-> n, day |-> today])
  /\ outputs' = IF answered THEN LastOnes(Append(outputs, n)) ELSE outputs
  /\ outputsDue' = (outputsDue \/ answered)
  /\ outputsFailed' = (outputsFailed /\ ~answered)
  /\ daily' = IF costs THEN cost ELSE daily
  /\ throttled' = IF costs THEN OverBudget(cost) ELSE throttled
  /\ UNCHANGED <<today, statFiles, statsUp>>

\* The three timers.  A failed write leaves a file as it was, or cut short.
SaveUsage ==
  /\ statsUp
  /\ usageFile' = daily
  /\ UNCHANGED <<today, recorded, statMemory, statsFile, outputsFile, statsUp, outputsFailed>>

UsageSaveFails ==
  /\ statsUp
  /\ usageFile' \in {usageFile, NoCost}
  /\ UNCHANGED <<today, recorded, statMemory, statsFile, outputsFile, statsUp, outputsFailed>>

SaveStats ==
  /\ statsUp
  /\ entries' = InWindow(entries)
  /\ statsFile' \in {entries', statsFile, <<>>}
  /\ UNCHANGED <<today, recorded, daily, throttled, outputs, outputsDue, usageFile, outputsFile,
                 statsUp, outputsFailed>>

\* The timer is cleared first: nothing tries again after a failure, until another answer comes.
SaveOutputs ==
  /\ statsUp /\ outputsDue
  /\ outputsDue' = FALSE
  /\ \/ outputsFile' = outputs /\ outputsFailed' = FALSE
     \/ outputsFile' \in {outputsFile, <<>>} /\ outputsFailed' = TRUE
  /\ UNCHANGED <<today, recorded, daily, throttled, entries, outputs, usageFile, statsFile, statsUp>>

DayPasses ==
  /\ today < MaxDay
  /\ today' = today + 1
  /\ UNCHANGED <<recorded, statMemory, statFiles, statsUp, outputsFailed>>

-----------------------------------------------------------------------------
StatsForgotten ==
  /\ statsUp' = FALSE
  /\ daily' = NoCost /\ throttled' = FALSE
  /\ entries' = <<>> /\ outputs' = <<>> /\ outputsDue' = FALSE
  /\ outputsFailed' = FALSE

\* The process ends, gracefully or not; or while it writes one of the files.
StatsEnd ==
  /\ statsUp
  /\ StatsForgotten
  /\ UNCHANGED <<today, recorded, statFiles>>

StatsCrashInSave ==
  /\ statsUp
  /\ StatsForgotten
  /\ \/ usageFile' = NoCost /\ UNCHANGED <<statsFile, outputsFile>>
     \/ statsFile' = <<>> /\ UNCHANGED <<usageFile, outputsFile>>
     \/ outputsDue /\ outputsFile' = <<>> /\ UNCHANGED <<usageFile, statsFile>>
  /\ UNCHANGED <<today, recorded>>

\* Mutant: the usage starts from nothing.
StatsBootAfresh ==
  /\ ~statsUp
  /\ statsUp' = TRUE
  /\ entries' = InWindow(statsFile) /\ outputs' = outputsFile
  /\ UNCHANGED <<today, recorded, daily, throttled, outputsDue, statFiles, outputsFailed>>

\* The constructors read the files.
StatsBoot ==
  /\ ~statsUp
  /\ statsUp' = TRUE
  /\ daily' = RecentDays(usageFile)
  /\ entries' = InWindow(statsFile) /\ outputs' = outputsFile
  /\ UNCHANGED <<today, recorded, throttled, outputsDue, statFiles, outputsFailed>>

-----------------------------------------------------------------------------
StatsInit ==
  /\ today = 0 /\ recorded = 0
  /\ daily = NoCost /\ throttled = FALSE
  /\ entries = <<>> /\ outputs = <<>> /\ outputsDue = FALSE
  /\ usageFile = NoCost /\ statsFile = <<>> /\ outputsFile = <<>>
  /\ statsUp = TRUE /\ outputsFailed = FALSE

StatsNext ==
  \/ \E answered, costs \in BOOLEAN : RecordRun(answered, costs)
  \/ SaveUsage \/ UsageSaveFails \/ SaveStats \/ SaveOutputs
  \/ DayPasses
  \/ StatsEnd \/ StatsCrashInSave \/ StatsBoot

\* The timer of the answers is due five seconds after it is set.
StatsFairness == WF_statVars(SaveOutputs)

StatsSpec == StatsInit /\ [][StatsNext]_statVars /\ StatsFairness

-----------------------------------------------------------------------------
Ascending(s) == \A i, j \in DOMAIN s : i < j => s[i] < s[j]

\* No run is counted twice, whatever was saved, lost and read again, and an agent's answers
\* are its newest, in order, and no more than are kept.
StatsTypeOK ==
  /\ today \in Day /\ recorded \in 0 .. MaxRecorded
  /\ \A f \in {daily, usageFile} :
       f \in [Day -> 0 .. recorded] /\ Total(f) <= recorded
  /\ throttled \in BOOLEAN /\ outputsDue \in BOOLEAN /\ statsUp \in BOOLEAN
  /\ outputsFailed \in BOOLEAN
  /\ \A s \in {outputs, outputsFile} : Ascending(s) /\ Len(s) <= OutputsKept
  /\ \A s \in {entries, statsFile} : Ascending([i \in DOMAIN s |-> s[i].run])

\* A cost that is on the file stays there, over restarts and saves, until it is too old or the
\* file is cut short, by a crash or a write that fails: a save writes what was read at the
\* start and more.
SpendingStays ==
  [][\A d \in Day : d + KeptDays >= today =>
       usageFile'[d] >= usageFile[d] \/ StatsCrashInSave \/ UsageSaveFails]_statVars

\* An answer that is recorded is on the file in the end, or the process ended before, or the
\* save failed: the timer is set once for all the answers that come until it is due, and after
\* a failure the next answer sets it again for those that are missing too.
AnswersAreSaved ==
  (statsUp /\ outputs # outputsFile /\ ~outputsFailed)
    ~> (~statsUp \/ outputs = outputsFile \/ outputsFailed)

===============================================================================
