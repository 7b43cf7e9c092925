------------------------ MODULE AgentExecutorProofs ------------------------
(* Theorems about AgentExecutor for any requests, conversations, workspaces, *)
(* traits and retry bound.                                                   *)
EXTENDS AgentExecutor, SequenceTheorems, TLAPS

-----------------------------------------------------------------------------
(* Type correctness.                                                         *)

LEMMA FlushType ==
    ASSUME TypeOK, NEW k \in ConvKey, NEW st \in [Request -> Stage], Flush(k, st)
    PROVE  /\ stage' \in [Request -> Stage]
           /\ pendingMessages' \in [ConvKey -> Seq(Request)]
           /\ resumed' \in [Request -> BOOLEAN]
           /\ retries' \in [Request -> 0..MaxRetries]
<1>1. CASE pendingMessages[k] = <<>>
  BY <1>1 DEF Flush, TypeOK
<1>2. CASE pendingMessages[k] # <<>>
  <2>1. /\ Head(pendingMessages[k]) \in Request
        /\ Tail(pendingMessages[k]) \in Seq(Request)
    BY <1>2 DEF TypeOK
  <2>2. 0 \in 0..MaxRetries
    BY BoundAssumption
  <2>3. QED
    BY <1>2, <2>1, <2>2 DEF Flush, Shift, TypeOK, Stage
<1>3. QED
  BY <1>1, <1>2

LEMMA InitType == Init => TypeOK
<1> SUFFICES ASSUME Init PROVE TypeOK
  OBVIOUS
<1>1. stage \in [Request -> Stage] /\ outcome \in [Request -> Outcome]
  BY DEF Init, Stage, Outcome
<1>2. conv \in [Request -> ConvKey]
  BY RequestAssumption DEF Init, ConvKey
<1>3. retries \in [Request -> 0..MaxRetries] /\ replies \in [Request -> Nat]
  BY BoundAssumption DEF Init
<1>4. /\ activeProcesses \in [ConvKey -> Request \cup {None}]
      /\ activeJobs \in [ConvKey -> Request \cup {None}]
  BY DEF Init
<1>5. pendingMessages \in [ConvKey -> Seq(Request)]
  BY DEF Init
<1>6. workspaceLocks \in [Workspace -> ConvKey \cup {Free}]
  BY DEF Init
<1>7. QED
  BY <1>1, <1>2, <1>3, <1>4, <1>5, <1>6 DEF Init, TypeOK, Server

LEMMA ExecuteType ==
    ASSUME TypeOK, NEW r \in Request, Execute(r)
    PROVE  TypeOK'
<1> DEFINE c == conv[r]
           w == WsOf[r]
           lock == CleanedLock(c, w)
<1>1. c \in ConvKey /\ w \in Workspace
  BY RequestAssumption DEF TypeOK
<1>2. lock \in ConvKey \cup {Free}
  BY <1>1 DEF CleanedLock, LockAfterOwn, TypeOK
<1>3. /\ activeProcesses' \in [ConvKey -> Request \cup {None}]
      /\ activeJobs' \in [ConvKey -> Request \cup {None}]
  BY DEF Execute, Forget, TypeOK
<1>4. workspaceLocks' \in [Workspace -> ConvKey \cup {Free}]
  <2>1. workspaceLocks' = [workspaceLocks EXCEPT ![w] = lock]
    BY DEF Execute
  <2> HIDE DEF lock
  <2>2. QED
    BY <1>1, <1>2, <2>1 DEF TypeOK
<1>5. /\ stage' \in [Request -> Stage]
      /\ pendingMessages' \in [ConvKey -> Seq(Request)]
  <2>1. CASE MustQueue(r)
    <3> DEFINE key == IF BusyWorkspace(c, w) THEN lock ELSE c
    <3>1. key \in ConvKey
      BY <1>1, <1>2 DEF BusyWorkspace
    <3>2. \/ /\ stage' = [stage EXCEPT ![r] = "rejected"]
             /\ UNCHANGED pendingMessages
          \/ /\ stage' = [stage EXCEPT ![r] = "queued"]
             /\ pendingMessages' = [pendingMessages EXCEPT ![key] = Append(@, r)]
      BY <2>1 DEF Execute, Enqueue
    <3> HIDE DEF key
    <3>3. stage' \in [Request -> Stage]
      BY <3>2 DEF TypeOK, Stage
    <3>4. Append(pendingMessages[key], r) \in Seq(Request)
      BY <3>1 DEF TypeOK
    <3>5. pendingMessages' \in [ConvKey -> Seq(Request)]
      BY <3>1, <3>2, <3>4 DEF TypeOK
    <3>6. QED
      BY <3>3, <3>5
  <2>2. CASE ~MustQueue(r)
    BY <2>2 DEF Execute, TypeOK, Stage
  <2>3. QED  BY <2>1, <2>2
<1>6. QED
  BY <1>3, <1>4, <1>5 DEF Execute, TypeOK, restartVars

LEMMA ReleaseType ==
    ASSUME TypeOK, NEW r \in Request, Release(r)
    PROVE  /\ activeProcesses' \in [ConvKey -> Request \cup {None}]
           /\ workspaceLocks' \in [Workspace -> ConvKey \cup {Free}]
           /\ pids' \subseteq Request
           /\ signalled' \subseteq Request
<1>1. activeProcesses' \in [ConvKey -> Request \cup {None}]
  BY DEF Release, RemoveEntry, TypeOK
<1>2. workspaceLocks' \in [Workspace -> ConvKey \cup {Free}]
  BY DEF Release, Unlock, TypeOK
<1>3. QED
  BY <1>1, <1>2 DEF Release, Unregister, TypeOK

LEMMA NextType ==
    ASSUME TypeOK, [Next]_vars
    PROVE  TypeOK'
<1> USE DEF requestVars, executorVars, restartVars
<1>1. ASSUME NEW r \in Request, Submit(r)
      PROVE  TypeOK'
  BY <1>1 DEF Submit, TypeOK, Stage
<1>2. ASSUME NEW r \in Request, Execute(r)
      PROVE  TypeOK'
  BY <1>2, ExecuteType
<1>3. ASSUME NEW r \in Request, RouteReply(r)
      PROVE  TypeOK'
  BY <1>3 DEF RouteReply, Replied, TypeOK, Stage
<1>4. ASSUME NEW r \in Request, EarlyExit(r)
      PROVE  TypeOK'
  BY <1>4 DEF EarlyExit, Replied, TypeOK, Stage
<1>5. ASSUME NEW r \in Request, Spawn(r)
      PROVE  TypeOK'
  <2>1. Effective[WsOf[r]] \in Workspace /\ conv[r] \in ConvKey
    BY RequestAssumption DEF TypeOK
  <2>2. workspaceLocks' \in [Workspace -> ConvKey \cup {Free}]
    BY <1>5, <2>1 DEF Spawn, TypeOK
  <2>3. /\ activeProcesses' \in [ConvKey -> Request \cup {None}]
        /\ activeJobs' \in [ConvKey -> Request \cup {None}]
    BY <1>5, <2>1 DEF Spawn, TypeOK
  <2>4. QED
    BY <1>5, <2>2, <2>3 DEF Spawn, TypeOK, Stage, Outcome
<1>6. ASSUME NEW r \in Request, SpawnError(r)
      PROVE  TypeOK'
  <2>1. workspaceLocks' \in [Workspace -> ConvKey \cup {Free}]
    BY <1>6 DEF SpawnError, TypeOK
  <2>2. /\ activeProcesses' \in [ConvKey -> Request \cup {None}]
        /\ activeJobs' \in [ConvKey -> Request \cup {None}]
    BY <1>6 DEF SpawnError, TypeOK
  <2>3. /\ stage' \in [Request -> Stage]
        /\ outcome' \in [Request -> Outcome]
        /\ replies' \in [Request -> Nat]
    BY <1>6 DEF SpawnError, Replied, TypeOK, Stage, Outcome
  <2>4. QED
    BY <1>6, <2>1, <2>2, <2>3 DEF SpawnError, TypeOK
<1>7. ASSUME NEW r \in Request, Dies(r)
      PROVE  TypeOK'
  BY <1>7 DEF Dies, TypeOK, Stage, Outcome
<1>8. ASSUME NEW r \in Request, FinalizeWithOutput(r)
      PROVE  TypeOK'
  <2>1. /\ stage' \in [Request -> Stage]
        /\ activeJobs' \in [ConvKey -> Request \cup {None}]
    BY <1>8 DEF FinalizeWithOutput, ClearJob, TypeOK, Stage
  <2>2. QED
    BY <1>8, <2>1, ReleaseType DEF FinalizeWithOutput, TypeOK
<1>9. ASSUME NEW r \in Request, FinalizeCancelled(r)
      PROVE  TypeOK'
  <2>1. stage' \in [Request -> Stage]
    BY <1>9 DEF FinalizeCancelled, CancelReply, TypeOK, Stage
  <2>2. replies' \in [Request -> Nat]
    BY <1>9 DEF FinalizeCancelled, CancelReply, Replied, TypeOK
  <2>3. flushTimers' \subseteq Request
    BY <1>9 DEF FinalizeCancelled, CancelReply, ArmFlushTimer, TypeOK
  <2>4. QED
    BY <1>9, <2>1, <2>2, <2>3, ReleaseType DEF FinalizeCancelled, TypeOK
<1>10. ASSUME NEW r \in Request, FinalizeRetry(r)
       PROVE  TypeOK'
  <2>1. /\ stage' \in [Request -> Stage]
        /\ activeJobs' \in [ConvKey -> Request \cup {None}]
    BY <1>10 DEF FinalizeRetry, ClearJob, TypeOK, Stage
  <2>2. retries' \in [Request -> 0..MaxRetries]
    BY <1>10, BoundAssumption DEF FinalizeRetry, MayRetry, TypeOK
  <2>3. QED
    BY <1>10, <2>1, <2>2, ReleaseType DEF FinalizeRetry, TypeOK
<1>11. ASSUME NEW r \in Request, FinalizeFailed(r)
       PROVE  TypeOK'
  <2>1. conv[r] \in ConvKey /\ [stage EXCEPT ![r] = "done"] \in [Request -> Stage]
    BY DEF TypeOK, Stage
  <2>2. /\ activeJobs' \in [ConvKey -> Request \cup {None}]
        /\ replies' \in [Request -> Nat]
    BY <1>11 DEF FinalizeFailed, ClearJob, Replied, TypeOK
  <2>3. Flush(conv[r], [stage EXCEPT ![r] = "done"])
    BY <1>11 DEF FinalizeFailed
  <2>4. QED
    BY <1>11, <2>1, <2>2, <2>3, FlushType, ReleaseType DEF FinalizeFailed, TypeOK
<1>12. ASSUME NEW r \in Request, Retry(r)
       PROVE  TypeOK'
  BY <1>12 DEF Retry, TypeOK, Stage
<1>13. ASSUME NEW r \in Request, Complete(r)
       PROVE  TypeOK'
  <2>1. conv[r] \in ConvKey /\ [stage EXCEPT ![r] = "done"] \in [Request -> Stage]
    BY DEF TypeOK, Stage
  <2>2. replies' \in [Request -> Nat]
    BY <1>13 DEF Complete, Replied, TypeOK
  <2>3. restartPending' \in BOOLEAN /\ server' \in Server
    BY <1>13, Zenon DEF Complete, CheckPendingRestart, TypeOK, Server
  <2>4. Flush(conv[r], [stage EXCEPT ![r] = "done"])
    BY <1>13 DEF Complete
  <2>5. QED
    BY <1>13, <2>1, <2>2, <2>3, <2>4, FlushType DEF Complete, TypeOK
<1>14. ASSUME NEW r \in Request, Delegate(r)
       PROVE  TypeOK'
  <2> DEFINE queue == Append(pendingMessages[conv[r]], r)
  <2>1. conv[r] \in ConvKey
    BY DEF TypeOK
  <2>2. queue \in Seq(Request) /\ queue # <<>>
    <3>1. pendingMessages[conv[r]] \in Seq(Request)
      BY <2>1 DEF TypeOK
    <3>2. QED
      BY <3>1, AppendProperties
  <2>3. Head(queue) \in Request /\ Tail(queue) \in Seq(Request)
    BY <2>2
  <2>4. 0 \in 0..MaxRetries /\ NoConv \in ConvKey
    BY BoundAssumption DEF ConvKey
  <2> HIDE DEF queue
  <2>5. /\ conv' = [conv EXCEPT ![r] = NoConv]
        /\ pendingMessages' = [pendingMessages EXCEPT ![conv[r]] = Tail(queue)]
        /\ stage' = [stage EXCEPT ![r] = "queued", ![Head(queue)] = "calling"]
        /\ resumed' = [resumed EXCEPT ![Head(queue)] = TRUE]
        /\ retries' = [retries EXCEPT ![Head(queue)] = 0]
    BY <1>14 DEF Delegate, queue
  <2>6. /\ conv' \in [Request -> ConvKey]
        /\ pendingMessages' \in [ConvKey -> Seq(Request)]
        /\ retries' \in [Request -> 0..MaxRetries]
    BY <2>3, <2>4, <2>5 DEF TypeOK
  <2>7. stage' \in [Request -> Stage] /\ resumed' \in [Request -> BOOLEAN]
    BY <2>5 DEF TypeOK, Stage
  <2>8. QED
    BY <1>14, <2>6, <2>7 DEF Delegate, TypeOK
<1>15. ASSUME NEW r \in Request, CompleteCancelled(r)
       PROVE  TypeOK'
  BY <1>15 DEF CompleteCancelled, CancelReply, ArmFlushTimer, Replied, TypeOK, Stage
<1>16. ASSUME NEW r \in Request, CompleteSelfRestart(r)
       PROVE  TypeOK'
  BY <1>16 DEF CompleteSelfRestart, Replied, TypeOK, Stage
<1>17. ASSUME NEW r \in Request, FlushTimer(r)
       PROVE  TypeOK'
  <2>1. conv[r] \in ConvKey /\ stage \in [Request -> Stage] /\ Flush(conv[r], stage)
    BY <1>17 DEF FlushTimer, TypeOK
  <2>2. QED
    BY <1>17, <2>1, FlushType DEF FlushTimer, TypeOK
<1>18. ASSUME NEW c \in Conv, Abort(c)
       PROVE  TypeOK'
  <2>1. c \in ConvKey /\ <<>> \in Seq(Request)
    BY DEF ConvKey
  <2>2. pendingMessages' \in [ConvKey -> Seq(Request)]
    BY <1>18, <2>1 DEF Abort, TypeOK
  <2>3. /\ activeProcesses' \in [ConvKey -> Request \cup {None}]
        /\ activeJobs' \in [ConvKey -> Request \cup {None}]
    BY <1>18, <2>1 DEF Abort, TypeOK
  <2>4. stage' \in [Request -> Stage] /\ signalled' \subseteq Request
    BY <1>18, <2>1 DEF Abort, DropQueued, TypeOK, Stage
  <2>5. QED
    BY <1>18, <2>2, <2>3, <2>4 DEF Abort, TypeOK
<1>19. ASSUME NEW c \in ConvKey, JobExpires(c)
       PROVE  TypeOK'
  BY <1>19 DEF JobExpires, TypeOK
<1>20. CASE RequestSafeRestart
  BY <1>20 DEF RequestSafeRestart, TypeOK, Server
<1>21. CASE GracefulShutdown
  BY <1>21 DEF GracefulShutdown, TypeOK, Server
<1>22. CASE Exit
  BY <1>22 DEF Exit, TypeOK, Server
<1>23. CASE UNCHANGED vars
  BY <1>23 DEF vars, TypeOK
<1>24. QED
  BY <1>1, <1>2, <1>3, <1>4, <1>5, <1>6, <1>7, <1>8, <1>9, <1>10, <1>11,
     <1>12, <1>13, <1>14, <1>15, <1>16, <1>17, <1>18, <1>19, <1>20, <1>21,
     <1>22, <1>23
     DEF Next, Environment, Progress

\* Every variable keeps its type: in particular retries never exceed MaxRetries,
\* queues hold requests and locks hold conversation ids.
THEOREM TypeCorrect == Spec => []TypeOK
<1>1. Init => TypeOK
  BY InitType
<1>2. TypeOK /\ [Next]_vars => TypeOK'
  BY NextType
<1>3. QED
  BY <1>1, <1>2, PTL DEF Spec
=============================================================================
