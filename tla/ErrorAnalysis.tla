----------------------------- MODULE ErrorAnalysis -----------------------------
(***************************************************************************)
(* src/agent/error-analyzer.js: a run that fails is reported               *)
(* (AgentExecutor._analyzeFailure), and the report is analysed by a model  *)
(* - in a run of its own, which may fail too - unless too many are at it   *)
(* or one began a moment ago.  Whatever comes of it, the report becomes a  *)
(* line of data/error-analysis.jsonl.  The circuit breaker is left out:    *)
(* analyzeWithLLM catches every error, so that its count stays at zero and *)
(* it never opens.                                                         *)
(***************************************************************************)
EXTENDS Naturals, FiniteSets

CONSTANTS Failure,       \* the failures of runs that users, agents and schedules began
          maxConcurrent  \* _maxConcurrentAnalyses

ASSUME ErrorAssumption == IsFiniteSet(Failure) /\ maxConcurrent \in Nat

VARIABLES
  report,       \* of each failure: "none", "asked" (a model is at it), "lost" or "logged"
  asked,        \* analyses begun since the process started
  active,       \* _activeAnalyses
  askedJustNow,       \* _lastAnalysisTime is less than two seconds ago
  forgotten     \* reports the process took with it when it ended

errorVars == <<report, asked, active, askedJustNow, forgotten>>

Reported(how) == {f \in Failure : report[f] = how}

-----------------------------------------------------------------------------
\* Mutant: an analysis begins however many there are.
MayAskAlways == ~askedJustNow

\* logFailure's guards.
MayAsk == active < maxConcurrent /\ ~askedJustNow

\* A run fails and is reported: the model is asked, or the rules are and the line is written
\* at once.
RunFailed(f) ==
  /\ report[f] = "none"
  /\ IF MayAsk
     THEN /\ report' = [report EXCEPT ![f] = "asked"]
          /\ asked' = asked + 1 /\ active' = active + 1 /\ askedJustNow' = TRUE
     ELSE /\ report' = [report EXCEPT ![f] = "logged"]
          /\ UNCHANGED <<asked, active, askedJustNow>>
  /\ UNCHANGED forgotten

\* The model answers, and its answer is written down.
AnalysisAnswers(f) ==
  /\ report[f] = "asked"
  /\ report' = [report EXCEPT ![f] = "logged"] /\ active' = active - 1
  /\ UNCHANGED <<asked, askedJustNow, forgotten>>

\* Mutant: the failure of an analysis is reported like any other, and analysed.
AnalysisFailsReported(f) ==
  /\ report[f] = "asked"
  /\ report' = [report EXCEPT ![f] = "logged"]
  /\ asked' = asked + 1
  /\ active' = active - 1
  /\ UNCHANGED <<askedJustNow, forgotten>>

\* Mutant: the error of the analysis is the caller's.
AnalysisFailsUnlogged(f) ==
  /\ report[f] = "asked"
  /\ report' = [report EXCEPT ![f] = "rejected"] /\ active' = active - 1
  /\ UNCHANGED <<asked, askedJustNow, forgotten>>

\* The analysis's run fails, or answers in another form: the rules are asked.  The executor
\* reports this failure as well, and _analyzeFailure ignores it by its conversation's name.
AnalysisFails(f) ==
  /\ report[f] = "asked"
  /\ report' = [report EXCEPT ![f] = "logged"] /\ active' = active - 1
  /\ UNCHANGED <<asked, askedJustNow, forgotten>>

\* The analysis's run is cancelled: it calls nobody back, the promise is never settled, and
\* the count of analyses keeps it.
AnalysisCancelled(f) ==
  /\ report[f] = "asked"
  /\ report' = [report EXCEPT ![f] = "lost"]
  /\ UNCHANGED <<asked, active, askedJustNow, forgotten>>

TwoSecondsPass ==
  /\ askedJustNow
  /\ askedJustNow' = FALSE
  /\ UNCHANGED <<report, asked, active, forgotten>>

AnalyzerRestarts ==
  /\ asked > 0
  /\ report' = [f \in Failure |-> IF report[f] = "asked" THEN "lost" ELSE report[f]]
  /\ forgotten' = Reported("lost")' \cup Reported("logged")
  /\ asked' = 0 /\ active' = 0 /\ askedJustNow' = FALSE

-----------------------------------------------------------------------------
ErrorInit ==
  /\ report = [f \in Failure |-> "none"]
  /\ asked = 0 /\ active = 0 /\ askedJustNow = FALSE /\ forgotten = {}

ErrorNext ==
  \/ \E f \in Failure : RunFailed(f)
  \/ \E f \in Failure : AnalysisAnswers(f)
  \/ \E f \in Failure : AnalysisFails(f)
  \/ \E f \in Failure : AnalysisCancelled(f)
  \/ TwoSecondsPass \/ AnalyzerRestarts

\* A run of at most five turns ends.
ErrorFairness == \A f \in Failure : WF_errorVars(AnalysisAnswers(f) \/ AnalysisFails(f))

ErrorSpec == ErrorInit /\ [][ErrorNext]_errorVars /\ ErrorFairness

-----------------------------------------------------------------------------
\* The count of the analyses at work is what they are and what was cancelled, and the limit
\* holds for both together.
ErrorTypeOK ==
  /\ report \in [Failure -> {"none", "asked", "lost", "logged"}]
  /\ askedJustNow \in BOOLEAN /\ forgotten \subseteq Failure
  /\ active = Cardinality(Reported("asked")) + Cardinality(Reported("lost") \ forgotten)
  /\ active <= maxConcurrent

\* "To prevent recursive cascade": there is no more than one analysis for each failed run of
\* somebody else's, although analyses are runs and fail.
NoCascade == asked <= Cardinality(Failure \ (Reported("none") \cup forgotten))

\* A failure is written down in the end, or its analysis was cut off by a cancellation or by
\* the end of the process.
FailureIsLogged ==
  \A f \in Failure : (report[f] = "asked") ~> (report[f] \in {"logged", "lost"})

===============================================================================
