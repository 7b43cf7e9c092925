-------------------------------- MODULE Cron --------------------------------
(***************************************************************************)
(* The CronManager: job definitions kept in a file, the tasks that fire    *)
(* them, and runs of their handlers that take time while jobs are changed, *)
(* removed or fire again.  Every save writes the file in place.  Ids are   *)
(* generated: a removed id is not used again.  A start that finds no jobs, *)
(* for instance because the file is torn, creates default ones.            *)
(***************************************************************************)
EXTENDS Naturals, FiniteSets

CONSTANTS
    Job,
    OneTime,      \* the jobs that are removed once they have succeeded
    MaxRuns       \* bound: runs of a job at the same time

ASSUME CronAssumption == OneTime \subseteq Job /\ MaxRuns \in Nat \ {0}

VARIABLES
    cronUp,
    cronJobs,     \* jobs
    cronEnabled,  \* those of them that are enabled
    cronTasks,    \* tasks: jobs with a schedule that fires
    cronRuns,     \* runs of each job's handler under way
    cronFile,     \* cron-jobs.json
    cronUnsaved,  \* history: the last save failed
    cronUsed      \* ids that have been generated

cronVars == <<cronUp, cronJobs, cronEnabled, cronTasks, cronRuns, cronFile, cronUnsaved,
              cronUsed>>

Saved(jobs, enabled) == [jobs |-> jobs, enabled |-> enabled]
TornFile == [torn |-> TRUE]

CronTypeOK ==
    /\ cronUp \in BOOLEAN
    /\ cronJobs \subseteq cronUsed /\ cronUsed \subseteq Job
    /\ cronEnabled \subseteq cronJobs
    /\ cronTasks \subseteq Job
    /\ cronRuns \in [Job -> 0..MaxRuns]
    /\ cronFile = TornFile \/ (cronFile.jobs \subseteq Job /\ cronFile.enabled \subseteq cronFile.jobs)
    /\ cronUnsaved \in BOOLEAN

CronInit ==
    /\ cronUp = FALSE
    /\ cronJobs = {}
    /\ cronEnabled = {}
    /\ cronTasks = {}
    /\ cronRuns = [j \in Job |-> 0]
    /\ cronFile = Saved({}, {})
    /\ cronUnsaved = FALSE
    /\ cronUsed = {}

\* _saveJobs with what the jobs now are: the file is written, or the error is
\* logged and the old file stays.
SaveJobs ==
    \/ cronFile' = Saved(cronJobs', cronEnabled') /\ cronUnsaved' = FALSE
    \/ cronFile' = cronFile /\ cronUnsaved' = TRUE

Unused(j) == j \notin cronUsed

\* _loadJobs, the default jobs if there are none, startAll.
CronBoot ==
    /\ ~cronUp
    /\ cronUp' = TRUE
    /\ IF cronFile # TornFile /\ cronFile.jobs # {}
       THEN /\ cronJobs' = cronFile.jobs
            /\ cronEnabled' = cronFile.enabled
            /\ UNCHANGED <<cronFile, cronUnsaved, cronUsed>>
       ELSE \E default \in {j \in Job \ OneTime : Unused(j)} :
            /\ cronJobs' = {default}
            /\ cronEnabled' = {default}
            /\ cronUsed' = cronUsed \cup {default}
            /\ SaveJobs
    /\ cronTasks' = cronEnabled'
    /\ UNCHANGED cronRuns

AddJob(j, enabled) ==
    /\ cronUp /\ Unused(j)
    /\ cronJobs' = cronJobs \cup {j}
    /\ cronEnabled' = IF enabled THEN cronEnabled \cup {j} ELSE cronEnabled
    /\ cronTasks' = IF enabled THEN cronTasks \cup {j} ELSE cronTasks
    /\ cronUsed' = cronUsed \cup {j}
    /\ SaveJobs
    /\ UNCHANGED <<cronUp, cronRuns>>

\* Mutant: a job is removed and keeps its flag.
RemovedEnabled(j) ==
    /\ cronTasks' = cronTasks \ {j}
    /\ cronJobs' = cronJobs \ {j}
    /\ UNCHANGED cronEnabled
    /\ SaveJobs

\* Mutant: a job is removed and its task goes on.
RemovedTaskless(j) ==
    /\ cronTasks' = cronTasks
    /\ cronJobs' = cronJobs \ {j}
    /\ cronEnabled' = cronEnabled \ {j}
    /\ SaveJobs

Removed(j) ==
    /\ cronTasks' = cronTasks \ {j}
    /\ cronJobs' = cronJobs \ {j}
    /\ cronEnabled' = cronEnabled \ {j}
    /\ SaveJobs

RemoveJob(j) ==
    /\ cronUp /\ j \in cronJobs
    /\ Removed(j)
    /\ UNCHANGED <<cronUp, cronRuns, cronUsed>>

EnableJob(j) ==
    /\ cronUp /\ j \in cronJobs
    /\ cronEnabled' = cronEnabled \cup {j}
    /\ cronTasks' = cronTasks \cup {j}
    /\ UNCHANGED cronJobs
    /\ SaveJobs
    /\ UNCHANGED <<cronUp, cronRuns, cronUsed>>

\* Mutant: the flag is cleared and not saved.
DisableUnsaved(j) ==
    /\ cronUp /\ j \in cronJobs
    /\ cronEnabled' = cronEnabled \ {j}
    /\ cronTasks' = cronTasks \ {j}
    /\ UNCHANGED <<cronUp, cronJobs, cronRuns, cronFile, cronUnsaved, cronUsed>>

DisableJob(j) ==
    /\ cronUp /\ j \in cronJobs
    /\ cronEnabled' = cronEnabled \ {j}
    /\ cronTasks' = cronTasks \ {j}
    /\ UNCHANGED cronJobs
    /\ SaveJobs
    /\ UNCHANGED <<cronUp, cronRuns, cronUsed>>

\* _executeJob up to its await: by the schedule, or at once by runNow.
ExecuteJob(j) ==
    /\ cronUp
    /\ j \in cronTasks \/ j \in cronJobs
    /\ cronRuns[j] < MaxRuns
    /\ cronRuns' = [cronRuns EXCEPT ![j] = @ + 1]
    /\ UNCHANGED <<cronUp, cronJobs, cronEnabled, cronTasks, cronFile, cronUnsaved, cronUsed>>

\* Mutant: the definition that was run is stored again with its new counts.
HandlerStores(j) ==
    /\ cronUp /\ cronRuns[j] > 0
    /\ cronRuns' = [cronRuns EXCEPT ![j] = @ - 1]
    /\ IF j \in OneTime
       THEN Removed(j)
       ELSE /\ cronJobs' = cronJobs \cup {j}
            /\ UNCHANGED <<cronEnabled, cronTasks>>
            /\ SaveJobs
    /\ UNCHANGED <<cronUp, cronUsed>>

\* The handler succeeds; counts and dates of the job are left out.
HandlerSucceeds(j) ==
    /\ cronUp /\ cronRuns[j] > 0
    /\ cronRuns' = [cronRuns EXCEPT ![j] = @ - 1]
    /\ IF j \in OneTime
       THEN Removed(j)
       ELSE /\ UNCHANGED <<cronJobs, cronEnabled, cronTasks>>
            /\ SaveJobs
    /\ UNCHANGED <<cronUp, cronUsed>>

\* The handler throws: the job stays as it is, a one-time job too.
HandlerFails(j) ==
    /\ cronUp /\ cronRuns[j] > 0
    /\ cronRuns' = [cronRuns EXCEPT ![j] = @ - 1]
    /\ UNCHANGED <<cronUp, cronJobs, cronEnabled, cronTasks, cronFile, cronUnsaved, cronUsed>>

CronDown ==
    /\ cronUp
    /\ cronUp' = FALSE
    /\ cronJobs' = {} /\ cronEnabled' = {} /\ cronTasks' = {}
    /\ cronRuns' = [j \in Job |-> 0]
    /\ cronUnsaved' = FALSE
    /\ UNCHANGED cronUsed

\* stopAll and exit, or a crash; a crash in a save leaves the file torn.
CronStop ==
    /\ CronDown
    /\ cronFile' \in {cronFile, TornFile}

CronNext ==
    \/ CronBoot
    \/ \E j \in Job, enabled \in BOOLEAN : AddJob(j, enabled)
    \/ \E j \in Job : RemoveJob(j)
    \/ \E j \in Job : EnableJob(j)
    \/ \E j \in Job : DisableJob(j)
    \/ \E j \in Job : ExecuteJob(j)
    \/ \E j \in Job : HandlerSucceeds(j)
    \/ \E j \in Job : HandlerFails(j)
    \/ CronStop

-----------------------------------------------------------------------------
(* Properties.                                                              *)

\* What fires is what is defined and enabled, whichever way jobs were loaded,
\* added, switched and removed, by a run that ended too (263-275).
TasksAreEnabledJobs == cronTasks = cronEnabled

\* The file is what the jobs are whenever the last save succeeded: no operation
\* leaves a change to the next one, and a crash loses none ("Job persistence
\* (survive restarts)", 7).
CronFileIsJobs ==
    cronUp /\ ~cronUnsaved => cronFile = Saved(cronJobs, cronEnabled)

\* A job that is not defined any more, removed by hand or because it was a
\* one-time job that succeeded, neither comes back nor starts while the server
\* runs: the end of another run of it that was under way when it was removed
\* does not restore it (291-303, 125-144).
RemovedJobStays ==
    \A j \in cronUsed \ cronJobs :
        cronUp => j \notin cronJobs' /\ cronRuns'[j] <= cronRuns[j]
RemovedJobIsOver == [][RemovedJobStays]_cronVars

=============================================================================
