---------------------- MODULE AgentExecutorRefinement ----------------------
(* AgentExecutor implements RequestService, for any requests, conversations, *)
(* workspaces, traits and retry bound.                                       *)
EXTENDS AgentExecutorSafety

\* Status, of a stage s and a number n of replies.
StatusAt(s, n) ==
    CASE n > 0 -> "answered"
      [] n = 0 /\ s = "new" -> "idle"
      [] n = 0 /\ s \in {"dropped", "rejected"} -> "lost"
      [] n = 0 /\ s \in {"running", "exited", "tags"} -> "working"
      [] OTHER -> "accepted"

statusBar == [r \in Request |-> Status(r)]

LEMMA StatusOf ==
    ASSUME NEW r \in Request
    PROVE  /\ Status(r) = StatusAt(stage[r], replies[r])
           /\ Status(r)' = StatusAt(stage'[r], replies'[r])
  BY DEF Status, StatusAt

LEMMA StatusValues ==
    ASSUME NEW s \in Stage, NEW n \in Nat
    PROVE  /\ n > 0 => StatusAt(s, n) = "answered"
           /\ n = 0 /\ s = "new" => StatusAt(s, n) = "idle"
           /\ n = 0 /\ s \in {"dropped", "rejected"} => StatusAt(s, n) = "lost"
           /\ n = 0 /\ s \in {"running", "exited", "tags"} => StatusAt(s, n) = "working"
           /\ n = 0 /\ s \in {"calling", "queued", "routing", "admitted", "backoff", "done"}
                => StatusAt(s, n) = "accepted"
  BY DEF StatusAt

\* What RequestService lets one request do in a step.
Move == {<<"idle", "accepted">>, <<"accepted", "working">>, <<"working", "accepted">>,
         <<"accepted", "answered">>, <<"working", "answered">>, <<"accepted", "lost">>}

LEMMA OneMoves ==
    ASSUME NEW r \in Request,
           \A x \in Request \ {r} : Status(x)' = Status(x),
           Status(r)' = Status(r) \/ <<Status(r), Status(r)'>> \in Move
    PROVE  [Service!Next]_statusBar
<1> DEFINE to == Status(r)'
<1>1. CASE to = Status(r)
  <2>1. \A x \in Request : Status(x)' = Status(x)
    BY <1>1
  <2>2. statusBar' = statusBar
    BY <2>1 DEF statusBar
  <2>3. QED
    BY <2>2
<1>2. CASE <<Status(r), to>> \in Move
  <2>1. statusBar[r] = Status(r)
    BY DEF statusBar
  <2>2. statusBar' = [statusBar EXCEPT ![r] = to]
    BY DEF statusBar
  <2> HIDE DEF to
  <2>3. CASE to # "lost"
    <3>1. \/ Status(r) = "idle" /\ to = "accepted"
          \/ Status(r) = "accepted" /\ to = "working"
          \/ Status(r) = "working" /\ to = "accepted"
          \/ Status(r) \in {"accepted", "working"} /\ to = "answered"
      BY <1>2, <2>3 DEF Move
    <3>2. Service!Accept(r) \/ Service!Start(r) \/ Service!Yield(r) \/ Service!Answer(r)
      BY <2>1, <2>2, <3>1
         DEF Service!Accept, Service!Start, Service!Yield, Service!Answer, Service!Move, statusBar
    <3>3. QED
      BY <3>2 DEF Service!Next
  <2>4. CASE to = "lost"
    <3>1. Status(r) = "accepted"
      BY <1>2, <2>4 DEF Move
    <3>2. Service!Lose({r})
      BY <2>1, <2>2, <2>4, <3>1 DEF Service!Lose, statusBar
    <3>3. {r} \in SUBSET Request
      OBVIOUS
    <3>4. QED
      BY <3>2, <3>3 DEF Service!Next
  <2>5. QED
    BY <2>3, <2>4
<1>3. QED
  BY <1>1, <1>2

\* A step of request r that moves nobody else, but for a flush that calls a
\* queued request.
Solo(r) ==
    /\ \A x \in Request \ {r} : \/ stage'[x] = stage[x]
                                \/ stage[x] = "queued" /\ stage'[x] = "calling"
    /\ \A x \in Request \ {r} : replies'[x] = replies[x]

\* The moves of RequestService, in terms of the stages and replies of r.
Waiting == {"calling", "queued", "routing", "admitted", "backoff"}
Working == {"running", "exited", "tags"}
Calls(r) == stage[r] = "new" /\ stage'[r] = "calling"
Waits(r) == stage[r] \in Waiting /\ stage'[r] \in Waiting
Works(r) == stage[r] \in Working /\ stage'[r] \in Working
Starts(r) == stage[r] = "admitted" /\ stage'[r] = "running"
Yields(r) == stage[r] \in Working /\ stage'[r] \in Waiting
Throws(r) == stage[r] = "calling" /\ stage'[r] = "rejected"

LEMMA SoloOthers ==
    ASSUME TypeOK, TypeOK', NEW r \in Request, Solo(r), NEW x \in Request \ {r}
    PROVE  Status(x)' = Status(x)
<1>1. /\ stage[x] \in Stage /\ stage'[x] \in Stage
      /\ replies[x] \in Nat /\ replies'[x] = replies[x]
  BY DEF TypeOK, Solo
<1>2. CASE stage'[x] = stage[x]
  BY <1>1, <1>2, StatusOf
<1>3. CASE stage[x] = "queued" /\ stage'[x] = "calling"
  <2>1. StatusAt("queued", replies[x]) = StatusAt("calling", replies[x])
    BY <1>1, <1>3 DEF StatusAt
  <2>2. QED
    BY <1>1, <1>3, <2>1, StatusOf
<1>4. QED
  BY <1>2, <1>3 DEF Solo

LEMMA UnansweredMoves ==
    ASSUME TypeOK, TypeOK', NEW r \in Request, Solo(r), replies'[r] = 0, replies[r] = 0,
           Calls(r) \/ Waits(r) \/ Works(r) \/ Starts(r) \/ Yields(r) \/ Throws(r)
    PROVE  [Service!Next]_statusBar
<1>1. /\ stage[r] \in Stage /\ stage'[r] \in Stage
      /\ Status(r) = StatusAt(stage[r], 0) /\ Status(r)' = StatusAt(stage'[r], 0)
  BY StatusOf DEF TypeOK
<1>2. \A st \in Stage :
        /\ st = "new" => StatusAt(st, 0) = "idle"
        /\ st = "rejected" => StatusAt(st, 0) = "lost"
        /\ st \in Working => StatusAt(st, 0) = "working"
        /\ st \in Waiting => StatusAt(st, 0) = "accepted"
  BY StatusValues DEF Working, Waiting
<1>3. Status(r)' = Status(r) \/ <<Status(r), Status(r)'>> \in Move
  <2>1. CASE Calls(r)
    <3>1. Status(r) = "idle" /\ Status(r)' = "accepted"
      BY <1>1, <1>2, <2>1 DEF Calls, Waiting
    <3>2. QED
      BY <3>1 DEF Move
  <2>2. CASE Waits(r)
    BY <1>1, <1>2, <2>2 DEF Waits
  <2>3. CASE Works(r)
    BY <1>1, <1>2, <2>3 DEF Works
  <2>4. CASE Starts(r)
    <3>1. Status(r) = "accepted" /\ Status(r)' = "working"
      BY <1>1, <1>2, <2>4 DEF Starts, Waiting, Working
    <3>2. QED
      BY <3>1 DEF Move
  <2>5. CASE Yields(r)
    <3>1. Status(r) = "working" /\ Status(r)' = "accepted"
      BY <1>1, <1>2, <2>5 DEF Yields
    <3>2. QED
      BY <3>1 DEF Move
  <2>6. CASE Throws(r)
    <3>1. Status(r) = "accepted" /\ Status(r)' = "lost"
      BY <1>1, <1>2, <2>6 DEF Throws, Waiting
    <3>2. QED
      BY <3>1 DEF Move
  <2>7. QED
    BY <2>1, <2>2, <2>3, <2>4, <2>5, <2>6
<1>4. QED
  BY <1>3, SoloOthers, OneMoves

LEMMA AnswerMoves ==
    ASSUME TypeOK, TypeOK', NEW r \in Request, Solo(r), replies'[r] = replies[r] + 1,
           replies[r] = 0 => stage[r] \in {"routing", "admitted"} \cup Working
    PROVE  [Service!Next]_statusBar
<1>1. /\ stage[r] \in Stage /\ stage'[r] \in Stage
      /\ replies[r] \in Nat /\ replies'[r] \in Nat /\ replies'[r] > 0
  BY DEF TypeOK
<1>2. Status(r)' = "answered"
  BY <1>1, StatusOf, StatusValues
<1>3. CASE replies[r] = 0
  <2>1. stage[r] \in Working \/ stage[r] \in {"routing", "admitted"}
    BY <1>3
  <2>2. Status(r) \in {"working", "accepted"}
    BY <1>1, <1>3, <2>1, StatusOf, StatusValues DEF Working
  <2>3. <<Status(r), Status(r)'>> \in Move
    BY <1>2, <2>2 DEF Move
  <2>4. QED
    BY <2>3, SoloOthers, OneMoves
<1>4. CASE replies[r] > 0
  <2>1. Status(r) = "answered"
    BY <1>1, <1>4, StatusOf, StatusValues
  <2>2. QED
    BY <1>2, <2>1, SoloOthers, OneMoves
<1>5. QED
  BY <1>1, <1>3, <1>4

LEMMA UnansweredYet ==
    ASSUME IInv, NEW r \in Request, stage[r] # "done", outcome[r] # "spawnError"
    PROVE  replies[r] = 0
  BY DEF IInv, AnsweredOnce

LEMMA AbortLoses ==
    ASSUME IInv, IInv', NEW c \in Conv, Abort(c)
    PROVE  [Service!Next]_statusBar
<1> DEFINE rs == {x \in Request : stage'[x] # stage[x]}
<1>1. replies' = replies /\ TypeOK /\ TypeOK' /\ QueuedOnce
  BY DEF Abort, IInv
<1>2. \A x \in rs : stage[x] = "queued" /\ stage'[x] = "dropped"
  BY <1>1, AbortMoves
<1>3. \A x \in rs : replies[x] = 0
  <2>1. \A x \in rs : outcome[x] # "spawnError"
    BY <1>2 DEF IInv, Holdings, SpawnErrorEnds
  <2>2. QED
    BY <1>2, <2>1, UnansweredYet
<1>4. /\ StatusAt("queued", 0) = "accepted" /\ StatusAt("dropped", 0) = "lost"
  BY DEF StatusAt
<1>5. \A x \in rs : Status(x) = "accepted" /\ Status(x)' = "lost"
  BY <1>1, <1>2, <1>3, <1>4, StatusOf
<1>6. \A x \in Request : x \notin rs => Status(x)' = Status(x)
  BY <1>1, StatusOf
<1>7. rs \in SUBSET Request
  OBVIOUS
<1> HIDE DEF rs
<1>8. Service!Lose(rs)
  <2>1. \A x \in rs : statusBar[x] = "accepted"
    BY <1>5, <1>7 DEF statusBar
  <2>2. statusBar' = [x \in Request |-> IF x \in rs THEN "lost" ELSE statusBar[x]]
    BY <1>5, <1>6 DEF statusBar
  <2>3. QED
    BY <2>1, <2>2 DEF Service!Lose, statusBar
<1>9. QED
  BY <1>7, <1>8 DEF Service!Next

\* Every step of the executor is a step of the service, or none.
LEMMA NextServes ==
    ASSUME IInv, IInv', [Next]_vars
    PROVE  [Service!Next]_statusBar
<1> USE DEF requestVars, executorVars, restartVars
<1>1. /\ TypeOK /\ TypeOK' /\ QueuedOnce /\ stage \in [Request -> Stage]
      /\ replies \in [Request -> Nat]
  BY DEF IInv, TypeOK
<1>2. \A x \in Request : outcome[x] = "spawnError" => stage[x] \in {"exited", "done"}
  BY DEF IInv, Holdings, SpawnErrorEnds
<1>3. ASSUME NEW r \in Request,
             Submit(r) \/ Execute(r) \/ Spawn(r) \/ Dies(r) \/ Retry(r)
             \/ FinalizeWithOutput(r) \/ FinalizeRetry(r)
      PROVE  [Service!Next]_statusBar
  <2>1. replies' = replies /\ stage[r] # "done" /\ outcome[r] # "spawnError"
    BY <1>2, <1>3
       DEF Submit, Execute, Spawn, Dies, Retry, FinalizeWithOutput, FinalizeRetry, Release
  <2>2. \E st \in Stage : /\ stage' = [stage EXCEPT ![r] = st]
                          /\ \/ stage[r] = "new" /\ st = "calling"
                             \/ stage[r] = "calling" /\ st \in {"queued", "routing", "admitted", "rejected"}
                             \/ stage[r] = "admitted" /\ st = "running"
                             \/ stage[r] = "running" /\ st = "exited"
                             \/ stage[r] = "backoff" /\ st = "calling"
                             \/ stage[r] = "exited" /\ st \in {"tags", "backoff"}
    BY <1>3 DEF Submit, Execute, Enqueue, Spawn, Dies, Retry,
                FinalizeWithOutput, FinalizeRetry, Release, Stage
  <2>3. Calls(r) \/ Waits(r) \/ Works(r) \/ Starts(r) \/ Yields(r) \/ Throws(r)
    BY <1>1, <2>2 DEF Calls, Waits, Works, Starts, Yields, Throws, Waiting, Working
  <2>4. Solo(r)
    BY <1>1, <2>1, <2>2 DEF Solo
  <2>5. replies[r] = 0 /\ replies'[r] = 0
    BY <2>1, UnansweredYet
  <2>6. QED
    BY <1>1, <2>3, <2>4, <2>5, UnansweredMoves
<1>4. ASSUME NEW r \in Request, Delegate(r)
      PROVE  [Service!Next]_statusBar
  <2>1. /\ stage[r] = "tags" /\ replies' = replies /\ stage'[r] \in {"queued", "calling"}
        /\ Solo(r)
    BY <1>1, <1>4, DelegateMoves DEF Delegate, Solo
  <2>2. Yields(r)
    BY <2>1 DEF Yields, Working, Waiting
  <2>3. replies[r] = 0 /\ replies'[r] = 0
    BY <1>2, <2>1, UnansweredYet
  <2>4. QED
    BY <1>1, <2>1, <2>2, <2>3, UnansweredMoves
<1>5. ASSUME NEW r \in Request, FinalizeCancelled(r), ~CancelReply(r)
      PROVE  [Service!Next]_statusBar
  <2>1. /\ stage[r] = "exited" /\ outcome[r] = "cancel"
        /\ stage' = [stage EXCEPT ![r] = "tags"] /\ replies' = replies
    BY <1>5 DEF FinalizeCancelled, Release
  <2>2. Works(r) /\ Solo(r)
    BY <1>1, <2>1 DEF Works, Working, Solo
  <2>3. replies[r] = 0 /\ replies'[r] = 0
    BY <2>1, UnansweredYet
  <2>4. QED
    BY <1>1, <2>2, <2>3, UnansweredMoves
<1>6. ASSUME NEW r \in Request,
             \/ RouteReply(r) \/ EarlyExit(r) \/ SpawnError(r) \/ CompleteSelfRestart(r)
             \/ (CompleteCancelled(r) \/ FinalizeCancelled(r)) /\ CancelReply(r)
      PROVE  [Service!Next]_statusBar
  <2>1. /\ stage[r] \in {"routing", "admitted"} \cup Working /\ Replied(r)
        /\ \/ stage' = [stage EXCEPT ![r] = "done"]
           \/ stage' = [stage EXCEPT ![r] = "exited"]
    BY <1>6 DEF RouteReply, EarlyExit, SpawnError, CompleteSelfRestart, CompleteCancelled,
                FinalizeCancelled, CancelReply, Release, Working
  <2>2. replies' = [replies EXCEPT ![r] = @ + 1]
    BY <2>1 DEF Replied
  <2>3. Solo(r) /\ replies'[r] = replies[r] + 1
    BY <1>1, <2>1, <2>2 DEF Solo
  <2>4. QED
    BY <1>1, <2>1, <2>3, AnswerMoves
<1>7. ASSUME NEW r \in Request, Complete(r) \/ FinalizeFailed(r)
      PROVE  [Service!Next]_statusBar
  <2>1. /\ stage[r] \in Working /\ stage[r] # "queued" /\ Replied(r)
        /\ Flush(conv[r], [stage EXCEPT ![r] = "done"])
    BY <1>7 DEF Complete, FinalizeFailed, Release, Working
  <2>2. \A x \in Request \ {r} : \/ stage'[x] = stage[x]
                                 \/ stage[x] = "queued" /\ stage'[x] = "calling"
    BY <1>1, <2>1, FailedMoves
  <2>3. Solo(r) /\ replies'[r] = replies[r] + 1
    BY <1>1, <2>1, <2>2 DEF Solo, Replied
  <2>4. QED
    BY <1>1, <2>1, <2>3, AnswerMoves
<1>8. ASSUME NEW r \in Request, FlushTimer(r)
      PROVE  [Service!Next]_statusBar
  <2>1. Flush(conv[r], stage) /\ replies' = replies /\ conv[r] \in ConvKey
    BY <1>1, <1>8 DEF FlushTimer, TypeOK
  <2>2. \A x \in Request : \/ stage'[x] = stage[x]
                           \/ stage[x] = "queued" /\ stage'[x] = "calling"
    BY <1>1, <2>1, FlushMoves
  <2>3. Solo(r)
    BY <2>1, <2>2 DEF Solo
  <2>4. CASE stage'[r] = stage[r]
    <3>1. Status(r)' = Status(r)
      BY <2>1, <2>4, StatusOf
    <3>2. QED
      BY <1>1, <2>3, <3>1, SoloOthers, OneMoves
  <2>5. CASE stage[r] = "queued" /\ stage'[r] = "calling"
    <3>1. Waits(r)
      BY <2>5 DEF Waits, Waiting
    <3>2. replies[r] = 0 /\ replies'[r] = 0
      BY <1>2, <2>1, <2>5, UnansweredYet
    <3>3. QED
      BY <1>1, <2>3, <3>1, <3>2, UnansweredMoves
  <2>6. QED
    BY <2>2, <2>4, <2>5
<1>9. ASSUME NEW c \in Conv, Abort(c)
      PROVE  [Service!Next]_statusBar
  BY <1>9, AbortLoses
<1>10. CASE ServerStep \/ \E c \in ConvKey : JobExpires(c)
  <2>1. UNCHANGED <<stage, replies>>
    BY <1>10 DEF ServerStep, RequestSafeRestart, GracefulShutdown, Exit, JobExpires, vars
  <2>2. \A x \in Request : Status(x)' = Status(x)
    BY <2>1, StatusOf
  <2>3. statusBar' = statusBar
    BY <2>2 DEF statusBar
  <2>4. QED
    BY <2>3
<1>11. ASSUME NEW r \in Request, CompleteCancelled(r)
       PROVE  CancelReply(r)
  BY <1>11 DEF CompleteCancelled
<1>12. QED
  BY <1>3, <1>4, <1>5, <1>6, <1>7, <1>8, <1>9, <1>10, <1>11
     DEF Next, Environment, Progress, ServerStep

\* The executor keeps the promise of RequestService: a request is answered at most
\* once and for good, after it was submitted, and is lost only while it waits.
THEOREM ImplementsService == Spec => ServiceSpec
<1>1. Init => Service!Init
  BY DEF Init, Service!Init, Status
<1>2. IInv /\ IInv' /\ [Next]_vars => [Service!Next]_[r \in Request |-> Status(r)]
  BY NextServes DEF statusBar
<1>3. QED
  BY <1>1, <1>2, InvariantHolds, PTL DEF Spec, ServiceSpec, Service!Spec

-----------------------------------------------------------------------------
(* AgentExecutor implements AgentRuns.                                       *)

\* RunOf, of a stage s, a number n of replies, an outcome o, and whether the process
\* has its entry.
RunAt(s, entry, n, o) ==
    CASE s = "new" -> "none"
      [] s # "new" /\ entry -> "running"
      [] s # "new" /\ ~entry /\ n = 0 -> "waiting"
      [] OTHER -> IF o \in {"fail", "spawnError"} THEN "errored" ELSE "replied"

runBar == [r \in Request |-> RunOf(r)]
Entry(r) == activeProcesses[ConvOf[r]] = r

\* A process whose start failed has no entry: the 'error' handler removes it.
EntriesStarted == \A r \in Request : Entry(r) => outcome[r] # "spawnError"

\* What else the implementation of AgentRuns rests on.
RInv == IInv /\ OwnConv /\ EntriesStarted

LEMMA RunOfIs ==
    ASSUME NEW r \in Request
    PROVE  /\ RunOf(r) = RunAt(stage[r], Entry(r), replies[r], outcome[r])
           /\ RunOf(r)' = RunAt(stage'[r], Entry(r)', replies'[r], outcome'[r])
  BY DEF RunOf, RunAt, Entry

LEMMA RunValues ==
    ASSUME NEW s \in Stage, NEW e \in BOOLEAN, NEW n \in Nat, NEW o \in Outcome
    PROVE  /\ s = "new" => RunAt(s, e, n, o) = "none"
           /\ s # "new" /\ e => RunAt(s, e, n, o) = "running"
           /\ s # "new" /\ ~e /\ n = 0 => RunAt(s, e, n, o) = "waiting"
           /\ s # "new" /\ ~e /\ n # 0 => RunAt(s, e, n, o) \in {"replied", "errored"}
           /\ s # "new" /\ ~e /\ n # 0 =>
                RunAt(s, e, n, o) = IF o \in {"fail", "spawnError"} THEN "errored" ELSE "replied"
  BY DEF RunAt

\* The entry of its conversation is that of a process at work, and nobody was told
\* an answer of it yet.
LEMMA EntryAtWork ==
    ASSUME RInv, NEW r \in Request, Entry(r)
    PROVE  /\ HasProcess(r) /\ conv[r] = ConvOf[r] /\ replies[r] = 0
<1>1. ConvOf[r] \in ConvKey /\ None \notin Request
  BY RequestAssumption, SentinelAssumption DEF ConvKey
<1>2. HasProcess(r) /\ conv[r] = ConvOf[r]
  BY <1>1 DEF RInv, IInv, Holdings, ProcessEntryOwned, Entry
<1>3. replies[r] = 0
  BY <1>2, UnansweredYet DEF RInv, EntriesStarted, HasProcess
<1>4. QED
  BY <1>2, <1>3

\* A run stays what it is, or loses its entry.
Fades(r) == RunOf(r)' = RunOf(r) \/ (RunOf(r) = "running" /\ RunOf(r)' = "waiting")

LEMMA FadesIf ==
    ASSUME RInv, TypeOK', NEW r \in Request,
           stage'[r] = "new" <=> stage[r] = "new",
           replies'[r] = replies[r],
           outcome'[r] = outcome[r] \/ replies[r] = 0,
           Entry(r)' => Entry(r)
    PROVE  Fades(r)
<1>1. /\ stage[r] \in Stage /\ replies[r] \in Nat /\ outcome[r] \in Outcome
      /\ stage'[r] \in Stage /\ replies'[r] \in Nat /\ outcome'[r] \in Outcome
      /\ Entry(r) \in BOOLEAN /\ Entry(r)' \in BOOLEAN
  BY DEF RInv, IInv, TypeOK, Entry
<1>2. Entry(r) => replies[r] = 0
  BY EntryAtWork
<1>3. QED
  BY <1>1, <1>2, RunOfIs, RunValues DEF Fades

LEMMA AllFade ==
    ASSUME \A r \in Request : Fades(r)
    PROVE  [Runs!Next]_runBar
<1> DEFINE rs == {r \in Request : RunOf(r) = "running" /\ RunOf(r)' = "waiting"}
<1>1. \A r \in Request : RunOf(r)' = IF r \in rs THEN "waiting" ELSE RunOf(r)
  BY DEF Fades
<1>2. rs \in SUBSET {r \in Request : runBar[r] = "running"}
  BY DEF runBar
<1> HIDE DEF rs
<1>3. runBar' = [r \in Request |-> IF r \in rs THEN "waiting" ELSE runBar[r]]
  BY <1>1 DEF runBar
<1>4. Runs!Hide(rs)
  BY <1>3 DEF Runs!Hide, Runs!Hidden, runBar
<1>5. rs \in SUBSET Runs!Seen
  BY <1>2 DEF Runs!Seen, runBar
<1>6. QED
  BY <1>4, <1>5 DEF Runs!Next

LEMMA OneEnds ==
    ASSUME NEW r \in Request, RunOf(r) \in {"waiting", "running"},
           RunOf(r)' \in {"replied", "errored"},
           \A x \in Request \ {r} : Fades(x)
    PROVE  [Runs!Next]_runBar
<1> DEFINE rs == {x \in Request \ {r} : RunOf(x) = "running" /\ RunOf(x)' = "waiting"}
           how == RunOf(r)'
<1>1. \A x \in Request \ {r} : RunOf(x)' = IF x \in rs THEN "waiting" ELSE RunOf(x)
  BY DEF Fades
<1>2. rs \in SUBSET Runs!Seen
  BY DEF Runs!Seen
<1>3. r \notin rs
  OBVIOUS
<1> HIDE DEF rs
<1>4. runBar' = [[x \in Request |-> IF x \in rs THEN "waiting" ELSE RunOf(x)] EXCEPT ![r] = how]
  BY <1>1 DEF runBar
<1>5. how \in {"replied", "errored"}
  OBVIOUS
<1>6. \E h \in {"replied", "errored"} : Runs!End(r, h, rs)
  <2>1. PICK h \in {"replied", "errored"} : h = how
    BY <1>5
  <2>2. [x \in Request |-> IF x \in rs THEN "waiting" ELSE RunOf(x)] = Runs!Hidden(rs)
    BY DEF Runs!Hidden
  <2>3. Runs!End(r, h, rs)
    BY <1>4, <2>1, <2>2 DEF Runs!End, runBar
  <2>4. QED
    BY <2>3
<1>7. QED
  BY <1>2, <1>6 DEF Runs!Next

\* A step gives the entry of no conversation to anybody.
LEMMA EntriesShrink ==
    ASSUME \A c \in ConvKey : activeProcesses'[c] \in {activeProcesses[c], None}
    PROVE  \A r \in Request : Entry(r)' => Entry(r)
  BY RequestAssumption, SentinelAssumption DEF Entry, ConvKey

\* A step without an answer that starts nobody.
LEMMA NobodyEnds ==
    ASSUME RInv, TypeOK', replies' = replies,
           \A x \in Request : stage'[x] = "new" <=> stage[x] = "new",
           \A x \in Request : outcome'[x] = outcome[x] \/ replies[x] = 0,
           \A c \in ConvKey : activeProcesses'[c] \in {activeProcesses[c], None}
    PROVE  [Runs!Next]_runBar
<1>1. \A x \in Request : Entry(x)' => Entry(x)
  BY EntriesShrink
<1>2. \A x \in Request : Fades(x)
  BY <1>1, FadesIf
<1>3. QED
  BY <1>2, AllFade

\* A step with a final callback of r: its run ends, or had ended by a spawn error.
LEMMA Answers ==
    ASSUME RInv, TypeOK', NEW r \in Request, Solo(r), replies'[r] = replies[r] + 1,
           stage[r] # "new", stage'[r] # "new",
           replies[r] # 0 => outcome'[r] = outcome[r],
           \A x \in Request \ {r} : outcome'[x] = outcome[x],
           \A c \in ConvKey : activeProcesses'[c] \in {activeProcesses[c], None},
           ~Entry(r)'
    PROVE  [Runs!Next]_runBar
<1>1. \A x \in Request : Entry(x)' => Entry(x)
  BY EntriesShrink
<1>2. \A x \in Request \ {r} : Fades(x)
  <2> SUFFICES ASSUME NEW x \in Request \ {r} PROVE Fades(x)
    OBVIOUS
  <2>1. stage'[x] = "new" <=> stage[x] = "new"
    BY DEF Solo
  <2>2. replies'[x] = replies[x] /\ outcome'[x] = outcome[x] /\ (Entry(x)' => Entry(x))
    BY <1>1 DEF Solo
  <2>3. QED
    BY <2>1, <2>2, FadesIf
<1>3. /\ stage[r] \in Stage /\ replies[r] \in Nat /\ outcome[r] \in Outcome
      /\ stage'[r] \in Stage /\ replies'[r] \in Nat /\ outcome'[r] \in Outcome
      /\ Entry(r) \in BOOLEAN /\ Entry(r)' \in BOOLEAN /\ replies'[r] # 0
  BY DEF RInv, IInv, TypeOK, Entry
<1>4. RunOf(r)' \in {"replied", "errored"}
  BY <1>3, RunOfIs, RunValues
<1>5. CASE replies[r] = 0
  <2>1. RunOf(r) \in {"waiting", "running"}
    BY <1>3, <1>5, RunOfIs, RunValues
  <2>2. QED
    BY <1>2, <1>4, <2>1, OneEnds
<1>6. CASE replies[r] # 0
  <2>1. ~Entry(r)
    BY <1>6, EntryAtWork
  <2>2. RunOf(r)' = RunOf(r)
    BY <1>3, <1>6, <2>1, RunOfIs, RunValues
  <2>3. QED
    BY <1>2, <2>2, AllFade DEF Fades
<1>7. QED
  BY <1>5, <1>6

LEMMA SubmitBegins ==
    ASSUME RInv, TypeOK', NEW r \in Request, Submit(r)
    PROVE  [Runs!Next]_runBar
<1> USE DEF executorVars
<1>1. /\ stage[r] = "new" /\ stage' = [stage EXCEPT ![r] = "calling"]
      /\ UNCHANGED <<replies, outcome, activeProcesses>>
      /\ stage \in [Request -> Stage] /\ outcome[r] \in Outcome
  BY DEF Submit, RInv, IInv, TypeOK
<1>2. ~Entry(r) /\ replies[r] = 0 /\ ~Entry(r)'
  <2>1. ~Entry(r)
    BY <1>1, EntryAtWork DEF HasProcess
  <2>2. replies[r] = 0
    BY <1>1, UnansweredYet DEF RInv, IInv, Holdings, SpawnErrorEnds
  <2>3. QED
    BY <1>1, <2>1, <2>2 DEF Entry
<1>3. RunOf(r) = "none" /\ RunOf(r)' = "waiting"
  BY <1>1, <1>2, RunOfIs DEF RunAt
<1>4. \A x \in Request \ {r} : RunOf(x)' = RunOf(x)
  BY <1>1, RunOfIs DEF Entry
<1>5. runBar' = [runBar EXCEPT ![r] = "waiting"] /\ runBar[r] = "none"
  BY <1>3, <1>4 DEF runBar
<1>6. Runs!Begin(r)
  BY <1>5 DEF Runs!Begin, runBar
<1>7. QED
  BY <1>6 DEF Runs!Next

\* A process started under its conversation takes the entry; one of a delegation
\* turn, which has no conversation, is not seen.
LEMMA SpawnTakes ==
    ASSUME RInv, TypeOK', NEW r \in Request, Spawn(r)
    PROVE  [Runs!Next]_runBar
<1>1. /\ stage[r] = "admitted" /\ stage' = [stage EXCEPT ![r] = "running"]
      /\ outcome' = [outcome EXCEPT ![r] = "none"] /\ replies' = replies
      /\ activeProcesses' = [activeProcesses EXCEPT ![conv[r]] = r]
      /\ stage \in [Request -> Stage] /\ outcome \in [Request -> Outcome]
      /\ activeProcesses \in [ConvKey -> Request \cup {None}]
      /\ conv[r] \in ConvKey
  BY DEF Spawn, RInv, IInv, TypeOK
<1>2. \A x \in Request : ConvOf[x] \in ConvKey /\ ConvOf[x] # NoConv
  BY RequestAssumption, SentinelAssumption DEF ConvKey
<1>3. ~Entry(r) /\ replies[r] = 0
  <2>1. ~Entry(r)
    BY <1>1, EntryAtWork DEF HasProcess
  <2>2. QED
    BY <1>1, <2>1, UnansweredYet DEF RInv, IInv, Holdings, SpawnErrorEnds
<1>4. /\ stage'[r] = "running"
      /\ \A x \in Request \ {r} : stage'[x] = stage[x] /\ outcome'[x] = outcome[x]
  BY <1>1
<1>5. RunOf(r) = "waiting"
  BY <1>1, <1>3, RunOfIs DEF RunAt
<1>6. \A x \in Request \ {r} : Entry(x)' <=> Entry(x) /\ ConvOf[x] # conv[r]
  BY <1>1, <1>2 DEF Entry
<1>7. CASE conv[r] = NoConv
  <2>1. \A x \in Request : Entry(x)' <=> Entry(x)
    BY <1>1, <1>2, <1>3, <1>7 DEF Entry
  <2>2. \A x \in Request : /\ stage'[x] = "new" <=> stage[x] = "new"
                           /\ outcome'[x] = outcome[x] \/ replies[x] = 0
    BY <1>1, <1>3, <1>4
  <2>3. \A x \in Request : Fades(x)
    BY <1>1, <2>1, <2>2, FadesIf
  <2>4. QED
    BY <2>3, AllFade
<1>8. CASE conv[r] = ConvOf[r]
  <2>1. RunOf(r)' = "running"
    <3>1. Entry(r)'
      BY <1>1, <1>2, <1>8 DEF Entry
    <3>2. QED
      BY <1>4, <3>1, RunOfIs DEF RunAt
  <2>2. ASSUME NEW x \in Request \ {r}
        PROVE  RunOf(x)' = IF ConvOf[x] = ConvOf[r] /\ RunOf(x) = "running"
                           THEN "waiting" ELSE RunOf(x)
    <3>1. /\ stage[x] \in Stage /\ replies[x] \in Nat /\ outcome[x] \in Outcome
          /\ stage'[x] = stage[x] /\ outcome'[x] = outcome[x] /\ replies'[x] = replies[x]
          /\ Entry(x) \in BOOLEAN /\ Entry(x)' \in BOOLEAN
      BY <1>1, <1>4 DEF RInv, IInv, TypeOK, Entry
    <3>2. Entry(x) => replies[x] = 0 /\ stage[x] # "new"
      BY EntryAtWork DEF HasProcess
    <3>3. CASE Entry(x) /\ ConvOf[x] = ConvOf[r]
      <4>1. ~Entry(x)'
        BY <1>6, <1>8, <3>3
      <4>2. RunOf(x) = "running"
        BY <3>2, <3>3, RunOfIs DEF RunAt
      <4>3. RunOf(x)' = "waiting"
        BY <3>1, <3>2, <3>3, <4>1, RunOfIs, RunValues
      <4>4. QED
        BY <3>3, <4>2, <4>3
    <3>4. CASE ~Entry(x)
      <4>1. ~Entry(x)'
        BY <1>6, <3>4
      <4>2. RunOf(x)' = RunOf(x) /\ RunOf(x) # "running"
        BY <3>1, <3>4, <4>1, RunOfIs, RunValues
      <4>3. QED
        BY <4>2
    <3>5. CASE Entry(x) /\ ConvOf[x] # ConvOf[r]
      <4>1. Entry(x)'
        BY <1>6, <1>8, <3>5
      <4>2. RunOf(x)' = RunOf(x)
        BY <3>1, <3>5, <4>1, RunOfIs
      <4>3. QED
        BY <3>5, <4>2
    <3>6. QED
      BY <3>3, <3>4, <3>5
  <2>3. runBar' = [x \in Request |->
                     CASE x = r -> "running"
                       [] x # r /\ ConvOf[x] = ConvOf[r] /\ runBar[x] = "running" -> "waiting"
                       [] OTHER -> runBar[x]]
    <3>1. ASSUME NEW x \in Request
          PROVE  RunOf(x)' = CASE x = r -> "running"
                       [] x # r /\ ConvOf[x] = ConvOf[r] /\ runBar[x] = "running" -> "waiting"
                       [] OTHER -> runBar[x]
      BY <2>1, <2>2 DEF runBar
    <3>2. QED
      BY <3>1 DEF runBar
  <2>4. Runs!Take(r)
    BY <1>5, <2>3 DEF Runs!Take, runBar
  <2>5. QED
    BY <2>4 DEF Runs!Next
<1>9. QED
  BY <1>2, <1>7, <1>8 DEF RInv, OwnConv

\* Where the process of r is not, or its entry is removed, r has none.
LEMMA EntryGone ==
    ASSUME RInv, NEW r \in Request,
           \A c \in ConvKey : activeProcesses'[c] \in {activeProcesses[c], None},
           ~HasProcess(r) \/ activeProcesses'[conv[r]] = None
    PROVE  ~Entry(r)'
<1>1. None \notin Request
  BY SentinelAssumption
<1>2. SUFFICES ASSUME Entry(r)' PROVE FALSE
  OBVIOUS
<1>3. Entry(r)
  BY <1>2, EntriesShrink
<1>4. HasProcess(r) /\ conv[r] = ConvOf[r]
  BY <1>3, EntryAtWork
<1>5. QED
  BY <1>1, <1>2, <1>4 DEF Entry

\* The final callbacks of tryFinalize that flush the queue.
LEMMA FlushAnswers ==
    ASSUME RInv, TypeOK', NEW r \in Request, Complete(r) \/ FinalizeFailed(r)
    PROVE  [Runs!Next]_runBar
<1>1. /\ TypeOK /\ QueuedOnce /\ conv[r] \in ConvKey
      /\ replies \in [Request -> Nat]
      /\ activeProcesses \in [ConvKey -> Request \cup {None}]
  BY DEF RInv, IInv, TypeOK
<1>2. /\ stage[r] \in {"tags", "exited"} /\ outcome' = outcome
      /\ replies' = [replies EXCEPT ![r] = @ + 1]
      /\ Flush(conv[r], [stage EXCEPT ![r] = "done"])
  BY DEF Complete, FinalizeFailed, Release, Replied
<1>3. /\ stage'[r] = "done"
      /\ \A x \in Request \ {r} : \/ stage'[x] = stage[x]
                                  \/ stage[x] = "queued" /\ stage'[x] = "calling"
  BY <1>1, <1>2, FailedMoves
<1>4. Solo(r) /\ replies'[r] = replies[r] + 1
  BY <1>1, <1>2, <1>3 DEF Solo
<1>5. \/ stage[r] = "tags" /\ activeProcesses' = activeProcesses
      \/ activeProcesses' = [activeProcesses EXCEPT ![conv[r]] = None]
  BY DEF Complete, FinalizeFailed, Release, RemoveEntry
<1>6. \A c \in ConvKey : activeProcesses'[c] \in {activeProcesses[c], None}
  BY <1>1, <1>5
<1>7. ~Entry(r)'
  BY <1>1, <1>5, <1>6, EntryGone DEF HasProcess
<1>8. QED
  BY <1>2, <1>3, <1>4, <1>6, <1>7, Answers

\* The final callbacks that do not.
LEMMA SoloAnswers ==
    ASSUME RInv, TypeOK', NEW r \in Request,
           \/ RouteReply(r) \/ EarlyExit(r) \/ SpawnError(r) \/ CompleteSelfRestart(r)
           \/ (CompleteCancelled(r) \/ FinalizeCancelled(r)) /\ CancelReply(r)
    PROVE  [Runs!Next]_runBar
<1> USE DEF executorVars
<1>1. /\ conv[r] \in ConvKey /\ stage \in [Request -> Stage]
      /\ replies \in [Request -> Nat] /\ outcome \in [Request -> Outcome]
      /\ activeProcesses \in [ConvKey -> Request \cup {None}]
  BY DEF RInv, IInv, TypeOK
<1>2. /\ stage[r] \in {"routing", "admitted", "tags", "exited"}
      /\ replies' = [replies EXCEPT ![r] = @ + 1]
      /\ \/ stage' = [stage EXCEPT ![r] = "done"]
         \/ stage' = [stage EXCEPT ![r] = "exited"]
      /\ \/ outcome' = outcome
         \/ stage[r] = "admitted" /\ outcome' = [outcome EXCEPT ![r] = "spawnError"]
  BY DEF RouteReply, EarlyExit, SpawnError, CompleteSelfRestart, CompleteCancelled,
         FinalizeCancelled, CancelReply, Release, Replied
<1>3. Solo(r) /\ replies'[r] = replies[r] + 1 /\ stage[r] # "new" /\ stage'[r] # "new"
  BY <1>1, <1>2 DEF Solo
<1>4. \/ stage[r] \in {"routing", "admitted", "tags"} /\ activeProcesses' = activeProcesses
      \/ activeProcesses' = [activeProcesses EXCEPT ![conv[r]] = None]
  BY DEF RouteReply, EarlyExit, SpawnError, CompleteSelfRestart, CompleteCancelled,
         FinalizeCancelled, Release, RemoveEntry
<1>5. \A c \in ConvKey : activeProcesses'[c] \in {activeProcesses[c], None}
  BY <1>1, <1>4
<1>6. ~Entry(r)'
  BY <1>1, <1>4, <1>5, EntryGone DEF HasProcess
<1>7. replies[r] # 0 => outcome'[r] = outcome[r]
  BY <1>2, UnansweredYet DEF RInv, IInv, Holdings, SpawnErrorEnds
<1>8. \A x \in Request \ {r} : outcome'[x] = outcome[x]
  BY <1>1, <1>2
<1>9. QED
  BY <1>3, <1>5, <1>6, <1>7, <1>8, Answers

\* Every step of the executor is a step of AgentRuns, or none.
LEMMA NextRuns ==
    ASSUME RInv, TypeOK', [Next]_vars
    PROVE  [Runs!Next]_runBar
<1> USE DEF requestVars, executorVars, restartVars
<1>1. /\ TypeOK /\ QueuedOnce /\ stage \in [Request -> Stage] /\ conv \in [Request -> ConvKey]
      /\ outcome \in [Request -> Outcome]
      /\ activeProcesses \in [ConvKey -> Request \cup {None}]
  BY DEF RInv, IInv, TypeOK
<1>2. ASSUME NEW r \in Request, Submit(r)
      PROVE  [Runs!Next]_runBar
  BY <1>2, SubmitBegins
<1>3. ASSUME NEW r \in Request, Spawn(r)
      PROVE  [Runs!Next]_runBar
  BY <1>3, SpawnTakes
<1>4. ASSUME NEW r \in Request, Complete(r) \/ FinalizeFailed(r)
      PROVE  [Runs!Next]_runBar
  BY <1>4, FlushAnswers
<1>5. ASSUME NEW r \in Request,
             \/ RouteReply(r) \/ EarlyExit(r) \/ SpawnError(r) \/ CompleteSelfRestart(r)
             \/ (CompleteCancelled(r) \/ FinalizeCancelled(r)) /\ CancelReply(r)
      PROVE  [Runs!Next]_runBar
  BY <1>5, SoloAnswers
<1>6. ASSUME NEW r \in Request,
             \/ Execute(r) \/ Dies(r) \/ Retry(r) \/ FinalizeWithOutput(r) \/ FinalizeRetry(r)
             \/ FinalizeCancelled(r) /\ ~CancelReply(r)
      PROVE  [Runs!Next]_runBar
  <2>1. /\ replies' = replies /\ stage[r] # "new"
        /\ \E st \in Stage \ {"new"} : stage' = [stage EXCEPT ![r] = st]
    BY <1>6 DEF Execute, Enqueue, Dies, Retry, FinalizeWithOutput, FinalizeRetry,
                FinalizeCancelled, Release, Stage
  <2>2. \A x \in Request : stage'[x] = "new" <=> stage[x] = "new"
    BY <1>1, <2>1
  <2>3. \/ outcome' = outcome
        \/ stage[r] = "running" /\ \E o \in Outcome : outcome' = [outcome EXCEPT ![r] = o]
    BY <1>6 DEF Execute, Dies, Retry, FinalizeWithOutput, FinalizeRetry, FinalizeCancelled, Outcome
  <2>4. \A x \in Request : outcome'[x] = outcome[x] \/ replies[x] = 0
    <3>1. stage[r] = "running" => replies[r] = 0
      BY UnansweredYet DEF RInv, IInv, Holdings, SpawnErrorEnds
    <3>2. QED
      BY <1>1, <2>3, <3>1
  <2>5. \A c \in ConvKey : activeProcesses'[c] \in {activeProcesses[c], None}
    BY <1>1, <1>6 DEF Execute, Forget, Dies, Retry, FinalizeWithOutput, FinalizeRetry,
                      FinalizeCancelled, Release, RemoveEntry
  <2>6. QED
    BY <2>1, <2>2, <2>4, <2>5, NobodyEnds
<1>7. ASSUME NEW r \in Request, Delegate(r) \/ FlushTimer(r)
      PROVE  [Runs!Next]_runBar
  <2>1. UNCHANGED <<replies, outcome, activeProcesses>>
    BY <1>7 DEF Delegate, FlushTimer
  <2>2. \A x \in Request : stage'[x] = "new" <=> stage[x] = "new"
    <3>1. CASE Delegate(r)
      <4>1. /\ stage[r] = "tags" /\ stage'[r] \in {"queued", "calling"}
            /\ \A x \in Request \ {r} : \/ stage'[x] = stage[x]
                                        \/ stage[x] = "queued" /\ stage'[x] = "calling"
        BY <1>1, <3>1, DelegateMoves DEF Delegate
      <4>2. QED
        BY <4>1
    <3>2. CASE FlushTimer(r)
      <4>1. Flush(conv[r], stage) /\ conv[r] \in ConvKey
        BY <1>1, <3>2 DEF FlushTimer
      <4>2. \A x \in Request : \/ stage'[x] = stage[x]
                               \/ stage[x] = "queued" /\ stage'[x] = "calling"
        BY <1>1, <4>1, FlushMoves
      <4>3. QED
        BY <4>2
    <3>3. QED
      BY <1>7, <3>1, <3>2
  <2>3. QED
    BY <2>1, <2>2, NobodyEnds
<1>8. ASSUME NEW c \in Conv, Abort(c)
      PROVE  [Runs!Next]_runBar
  <2>1. /\ UNCHANGED <<replies, outcome>>
        /\ activeProcesses' = [activeProcesses EXCEPT ![c] = None]
    BY <1>8 DEF Abort
  <2>2. TypeOK /\ QueuedOnce /\ Abort(c)
    BY <1>1, <1>8
  <2>3. \A x \in Request : \/ stage'[x] = stage[x]
                           \/ stage[x] = "queued" /\ stage'[x] = "dropped"
    BY <2>2, AbortMoves
  <2>4. \A x \in Request : stage'[x] = "new" <=> stage[x] = "new"
    BY <2>3
  <2>5. \A k \in ConvKey : activeProcesses'[k] \in {activeProcesses[k], None}
    BY <1>1, <2>1
  <2>6. QED
    BY <2>1, <2>4, <2>5, NobodyEnds
<1>9. CASE ServerStep \/ (\E c \in ConvKey : JobExpires(c)) \/ UNCHANGED vars
  <2>1. UNCHANGED <<stage, replies, outcome, activeProcesses>>
    BY <1>9 DEF ServerStep, RequestSafeRestart, GracefulShutdown, Exit, JobExpires, vars
  <2>2. QED
    BY <2>1, NobodyEnds
<1>10. ASSUME NEW r \in Request, CompleteCancelled(r)
       PROVE  CancelReply(r)
  BY <1>10 DEF CompleteCancelled
<1>11. QED
  BY <1>2, <1>3, <1>4, <1>5, <1>6, <1>7, <1>8, <1>9, <1>10
     DEF Next, Environment, Progress, ServerStep

LEMMA EntriesStartedKept ==
    ASSUME IInv, OwnConv, EntriesStarted, [Next]_vars
    PROVE  EntriesStarted'
<1> USE DEF requestVars, executorVars, restartVars
<1>1. RInv
  BY DEF RInv
<1>2. /\ TypeOK /\ conv \in [Request -> ConvKey] /\ outcome \in [Request -> Outcome]
      /\ activeProcesses \in [ConvKey -> Request \cup {None}]
  BY DEF IInv, TypeOK
<1>3. ASSUME \A c \in ConvKey : activeProcesses'[c] \in {activeProcesses[c], None},
             \A x \in Request : outcome'[x] = "spawnError" => outcome[x] = "spawnError"
      PROVE  EntriesStarted'
  BY <1>3, EntriesShrink DEF EntriesStarted
<1>4. ASSUME NEW r \in Request, Spawn(r)
      PROVE  EntriesStarted'
  <2>1. /\ outcome' = [outcome EXCEPT ![r] = "none"]
        /\ activeProcesses' = [activeProcesses EXCEPT ![conv[r]] = r]
    BY <1>4 DEF Spawn
  <2>2. \A x \in Request \ {r} : Entry(x)' => Entry(x)
    BY <1>2, <2>1, RequestAssumption DEF Entry, ConvKey
  <2>3. QED
    BY <1>2, <2>1, <2>2 DEF EntriesStarted
<1>5. ASSUME NEW r \in Request, SpawnError(r)
      PROVE  EntriesStarted'
  <2>1. /\ stage[r] = "admitted" /\ outcome' = [outcome EXCEPT ![r] = "spawnError"]
        /\ activeProcesses' = [activeProcesses EXCEPT ![conv[r]] = None]
    BY <1>5 DEF SpawnError
  <2>2. \A c \in ConvKey : activeProcesses'[c] \in {activeProcesses[c], None}
    BY <1>2, <2>1
  <2>3. ~Entry(r)'
    BY <1>1, <2>1, <2>2, EntryGone DEF HasProcess
  <2>4. QED
    BY <1>2, <2>1, <2>2, <2>3, EntriesShrink DEF EntriesStarted
<1>6. ASSUME NEW r \in Request,
             \/ Submit(r) \/ EarlyExit(r) \/ Execute(r) \/ RouteReply(r) \/ Retry(r)
             \/ FinalizeWithOutput(r) \/ FinalizeCancelled(r) \/ FinalizeRetry(r)
             \/ FinalizeFailed(r) \/ Complete(r) \/ Delegate(r) \/ CompleteCancelled(r)
             \/ CompleteSelfRestart(r) \/ FlushTimer(r)
      PROVE  EntriesStarted'
  <2>1. outcome' = outcome
    BY <1>6 DEF Submit, EarlyExit, Execute, RouteReply, Retry, FinalizeWithOutput,
           FinalizeCancelled, FinalizeRetry, FinalizeFailed, Complete, Delegate,
           CompleteCancelled, CompleteSelfRestart, FlushTimer
  <2>2. \/ activeProcesses' = activeProcesses
        \/ activeProcesses' = [activeProcesses EXCEPT ![conv[r]] = None]
        \/ activeProcesses' = Forget(activeProcesses, StaleConvs(conv[r], WsOf[r]))
    BY <1>6 DEF Submit, EarlyExit, Execute, RouteReply, Retry, FinalizeWithOutput,
           FinalizeCancelled, FinalizeRetry, FinalizeFailed, Complete, Delegate,
           CompleteCancelled, CompleteSelfRestart, FlushTimer, Release, RemoveEntry
  <2>3. \A c \in ConvKey : activeProcesses'[c] \in {activeProcesses[c], None}
    BY <1>2, <2>2 DEF Forget
  <2>4. QED
    BY <1>3, <2>1, <2>3
<1>7. ASSUME NEW r \in Request, Dies(r)
      PROVE  EntriesStarted'
  <2>1. /\ activeProcesses' = activeProcesses
        /\ \E o \in {"ok", "fail", "cancel", "selfRestart"} : outcome' = [outcome EXCEPT ![r] = o]
    BY <1>7 DEF Dies
  <2>2. QED
    BY <1>2, <1>3, <2>1
<1>8. ASSUME NEW c \in Conv, Abort(c)
      PROVE  EntriesStarted'
  <2>1. outcome' = outcome /\ activeProcesses' = [activeProcesses EXCEPT ![c] = None]
    BY <1>8 DEF Abort
  <2>2. QED
    BY <1>2, <1>3, <2>1
<1>9. CASE ServerStep \/ (\E c \in ConvKey : JobExpires(c)) \/ UNCHANGED vars
  <2>1. UNCHANGED <<outcome, activeProcesses>>
    BY <1>9 DEF ServerStep, RequestSafeRestart, GracefulShutdown, Exit, JobExpires, vars
  <2>2. QED
    BY <1>3, <2>1
<1>10. QED
  BY <1>4, <1>5, <1>6, <1>7, <1>8, <1>9 DEF Next, Environment, Progress, ServerStep

LEMMA RInvHolds == Spec => []RInv
<1>1. Init => EntriesStarted
  BY DEF Init, EntriesStarted
<1>2. IInv /\ OwnConv /\ EntriesStarted /\ [Next]_vars => EntriesStarted'
  BY EntriesStartedKept
<1>3. QED
  BY <1>1, <1>2, InvariantHolds, OwnConvHolds, PTL DEF Spec, RInv

\* What the executor shows its callers of its processes is what AgentRuns says, for
\* any requests, conversations, workspaces and traits: whatever takes an entry away
\* (an abort, a stale cleanup, a process started beside, a finalization of another
\* run), a run is answered once it has been at work, and never works after that.
THEOREM ImplementsRuns == Spec => RunsSpec
<1>1. Init => Runs!Init
  <2>1. SUFFICES ASSUME Init PROVE Runs!Init
    OBVIOUS
  <2>2. \A r \in Request : RunOf(r) = "none"
    BY <2>1 DEF Init, RunOf
  <2>3. QED
    BY <2>2 DEF Runs!Init
<1>2. RInv /\ RInv' /\ [Next]_vars => [Runs!Next]_runBar
  BY NextRuns DEF RInv, IInv
<1>3. QED
  BY <1>1, <1>2, RInvHolds, PTL DEF Spec, RunsSpec, Runs!Spec, runBar

\* The executor keeps both promises: of RequestService to whoever waits for an answer,
\* and of AgentRuns to whoever asks for processes and aborts them.
THEOREM KeepsPromises == Spec => PromisesKept
  BY ImplementsService, ImplementsRuns DEF PromisesKept

\* isProcessActive(), which reads the map of processes, is the one of AgentRuns.
ActiveIsSeen == \A c \in Conv : activeProcesses[c] # None <=> Runs!IsProcessActive(c)

THEOREM ProcessesSeen == Spec => []ActiveIsSeen
<1>1. RInv => ActiveIsSeen
  <2>1. SUFFICES ASSUME RInv, NEW c \in Conv
                 PROVE  activeProcesses[c] # None <=> Runs!IsProcessActive(c)
    BY DEF ActiveIsSeen
  <2>2. c \in ConvKey /\ c # NoConv /\ None \notin Request
    BY SentinelAssumption DEF ConvKey
  <2>3. activeProcesses[c] \in Request \cup {None} /\ TypeOK /\ ProcessEntryOwned /\ OwnConv
    BY <2>1, <2>2 DEF RInv, IInv, TypeOK, Holdings
  <2>4. ASSUME activeProcesses[c] # None
        PROVE  Runs!IsProcessActive(c)
    <3>1. PICK r \in Request : r = activeProcesses[c]
      BY <2>3, <2>4
    <3>2. stage[r] # "new" /\ ConvOf[r] = c
      BY <2>2, <2>3, <3>1, <2>4 DEF ProcessEntryOwned, OwnConv, HasProcess
    <3>3. RunOf(r) = "running"
      BY <3>1, <3>2 DEF RunOf
    <3>4. QED
      BY <3>2, <3>3 DEF Runs!IsProcessActive
  <2>5. ASSUME Runs!IsProcessActive(c)
        PROVE  activeProcesses[c] # None
    <3>1. PICK r \in Request : ConvOf[r] = c /\ RunOf(r) = "running"
      BY <2>5 DEF Runs!IsProcessActive
    <3>2. activeProcesses[c] = r
      <4>1. Entry(r) \in BOOLEAN /\ stage[r] \in Stage /\ replies[r] \in Nat /\ outcome[r] \in Outcome
        BY <2>3 DEF Entry, TypeOK
      <4>2. Entry(r)
        BY <3>1, <4>1, RunOfIs, RunValues
      <4>3. QED
        BY <3>1, <4>2 DEF Entry
    <3>3. QED
      BY <2>2, <3>2
  <2>6. QED
    BY <2>4, <2>5
<1>2. QED
  BY <1>1, RInvHolds, PTL

\* The runs some of the requests make, to those who make them and know of no others.
RunsAmong(R) == INSTANCE AgentRuns WITH Run <- R, run <- [r \in R |-> RunOf(r)]
someBar(R) == [r \in R |-> RunOf(r)]

\* To them, what the other runs do is the loss of an entry, or nothing.
LEMMA RunsProject ==
    ASSUME NEW R \in SUBSET Request, [Runs!Next]_runBar
    PROVE  [RunsAmong(R)!Next]_(someBar(R))
<1> DEFINE some == someBar(R)
<1>1. /\ \A x \in Request : runBar[x] = RunOf(x) /\ runBar'[x] = RunOf(x)'
      /\ some = [x \in R |-> runBar[x]] /\ some' = [x \in R |-> runBar'[x]]
  BY DEF runBar, someBar
<1>2. ASSUME NEW rs \in SUBSET R, \A x \in rs : runBar[x] = "running",
             \A x \in R : runBar'[x] = IF x \in rs THEN "waiting" ELSE runBar[x]
      PROVE  RunsAmong(R)!Next
  <2>1. RunsAmong(R)!Hide(rs)
    BY <1>1, <1>2 DEF RunsAmong!Hide, RunsAmong!Hidden
  <2>2. rs \in SUBSET RunsAmong(R)!Seen
    BY <1>1, <1>2 DEF RunsAmong!Seen
  <2>3. QED
    BY <2>1, <2>2 DEF RunsAmong!Next
<1>3. ASSUME NEW r \in Request, Runs!Begin(r)
      PROVE  [RunsAmong(R)!Next]_some
  <2>1. runBar[r] = "none" /\ runBar' = [runBar EXCEPT ![r] = "waiting"]
    BY <1>3 DEF Runs!Begin, runBar
  <2>2. CASE r \in R
    <3>1. RunsAmong(R)!Begin(r)
      BY <1>1, <2>1, <2>2 DEF RunsAmong!Begin, runBar
    <3>2. QED
      BY <2>2, <3>1 DEF RunsAmong!Next
  <2>3. CASE r \notin R
    <3>1. some' = some
      BY <1>1, <2>1, <2>3 DEF runBar
    <3>2. QED
      BY <3>1
  <2>4. QED
    BY <2>2, <2>3
<1>4. ASSUME NEW r \in Request, Runs!Take(r)
      PROVE  [RunsAmong(R)!Next]_some
  <2>1. /\ runBar[r] = "waiting"
        /\ \A x \in Request : runBar'[x] = CASE x = r -> "running"
                [] x # r /\ ConvOf[x] = ConvOf[r] /\ runBar[x] = "running" -> "waiting"
                [] OTHER -> runBar[x]
    BY <1>4 DEF Runs!Take, runBar
  <2>2. CASE r \in R
    <3>1. RunsAmong(R)!Take(r)
      BY <1>1, <2>1, <2>2 DEF RunsAmong!Take
    <3>2. QED
      BY <2>2, <3>1 DEF RunsAmong!Next
  <2>3. CASE r \notin R
    <3> DEFINE rs == {x \in R : ConvOf[x] = ConvOf[r] /\ runBar[x] = "running"}
    <3>1. \A x \in R : runBar'[x] = IF x \in rs THEN "waiting" ELSE runBar[x]
      BY <2>1, <2>3
    <3>2. rs \in SUBSET R /\ \A x \in rs : runBar[x] = "running"
      OBVIOUS
    <3> HIDE DEF rs
    <3>3. QED
      BY <1>2, <3>1, <3>2
  <2>4. QED
    BY <2>2, <2>3
<1>5. ASSUME NEW rs \in SUBSET Runs!Seen, Runs!Hide(rs)
      PROVE  [RunsAmong(R)!Next]_some
  <2>1. /\ \A x \in rs : runBar[x] = "running"
        /\ \A x \in Request : runBar'[x] = IF x \in rs THEN "waiting" ELSE runBar[x]
    BY <1>5 DEF Runs!Seen, Runs!Hide, Runs!Hidden, runBar
  <2>2. \A x \in R : runBar'[x] = IF x \in rs \cap R THEN "waiting" ELSE runBar[x]
    BY <2>1
  <2>3. QED
    BY <1>2, <2>1, <2>2
<1>6. ASSUME NEW r \in Request, NEW how \in {"replied", "errored"},
             NEW rs \in SUBSET Runs!Seen, Runs!End(r, how, rs)
      PROVE  [RunsAmong(R)!Next]_some
  <2>1. /\ \A x \in rs : runBar[x] = "running"
        /\ runBar[r] \in {"waiting", "running"}
        /\ \A x \in Request : runBar'[x] = IF x = r THEN how
                                           ELSE IF x \in rs THEN "waiting" ELSE runBar[x]
    BY <1>6 DEF Runs!Seen, Runs!End, Runs!Hidden, runBar
  <2>2. CASE r \in R
    <3>1. RunsAmong(R)!End(r, how, rs \cap R)
      <4>1. some' = [[x \in R |-> IF x \in rs \cap R THEN "waiting" ELSE runBar[x]] EXCEPT ![r] = how]
        BY <1>1, <2>1, <2>2
      <4>2. [x \in R |-> IF x \in rs \cap R THEN "waiting" ELSE runBar[x]]
              = [x \in R |-> IF x \in rs \cap R THEN "waiting" ELSE some[x]]
        BY <1>1
      <4>3. some[r] \in {"waiting", "running"}
        BY <1>1, <2>1, <2>2
      <4> HIDE DEF some
      <4>4. QED
        BY <4>1, <4>2, <4>3 DEF RunsAmong!End, RunsAmong!Hidden, some, someBar
    <3>2. rs \cap R \in SUBSET RunsAmong(R)!Seen
      BY <1>1, <2>1 DEF RunsAmong!Seen
    <3>3. QED
      BY <2>2, <3>1, <3>2 DEF RunsAmong!Next
  <2>3. CASE r \notin R
    <3>1. \A x \in R : runBar'[x] = IF x \in rs \cap R THEN "waiting" ELSE runBar[x]
      BY <2>1, <2>3
    <3>2. QED
      BY <1>2, <2>1, <3>1
  <2>4. QED
    BY <2>2, <2>3
<1>7. CASE UNCHANGED runBar
  <2>1. some' = some
    BY <1>1, <1>7
  <2>2. QED
    BY <2>1
<1>8. QED
  BY <1>3, <1>4, <1>5, <1>6, <1>7 DEF Runs!Next

\* A caller that knows only the runs it has made, as the message router does, sees
\* them as AgentRuns has them, whatever other requests the executor serves beside.
THEOREM CallersSeeRuns ==
    ASSUME NEW R \in SUBSET Request
    PROVE  Spec => RunsAmong(R)!Spec
<1>1. Init => RunsAmong(R)!Init
  BY DEF Init, RunsAmong!Init, RunOf
<1>2. RInv /\ RInv' /\ [Next]_vars => [RunsAmong(R)!Next]_[r \in R |-> RunOf(r)]
  BY NextRuns, RunsProject DEF RInv, IInv, someBar
<1>3. QED
  BY <1>1, <1>2, RInvHolds, PTL DEF Spec, RunsAmong!Spec
=============================================================================
