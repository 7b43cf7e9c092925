------------------------ MODULE AgentExecutorSafety ------------------------
(* Safety of AgentExecutor for any requests, conversations, workspaces,      *)
(* traits and retry bound.                                                   *)
EXTENDS AgentExecutorProofs

\* abort() signals running processes, and tryFinalize strikes them off.
SignalledAlive == \A r \in signalled : HasProcess(r)

\* After a spawn error only the 'close' handler is to come.
SpawnErrorEnds ==
    \A r \in Request : outcome[r] = "spawnError" => stage[r] \in {"exited", "done"}

\* What a process holds, and how the registry knows it.
Holdings == ProcessEntryOwned /\ JobResumable /\ LockOwned /\ SpawnErrorEnds
Registered == SignalledAlive /\ PidsExact

\* The inductive invariant.  JobResumable, LockOwned and ProcessEntryOwned need
\* to know which requests a flush may move (QueuedOnce), PidsExact that a request
\* about to be spawned is not among the signalled ones (SignalledAlive), and
\* AnsweredOnce that one about to be spawned has had no spawn error (SpawnErrorEnds).
IInv ==
    /\ TypeOK
    /\ QueuedOnce
    /\ Holdings
    /\ Registered
    /\ AnsweredOnce

-----------------------------------------------------------------------------
(* Queues.  Consistent is QueuedOnce for any queues q and any stages s.      *)

Consistent(q, s) ==
    /\ \A c \in ConvKey : \A i \in DOMAIN q[c] : s[q[c][i]] = "queued"
    /\ \A r \in Request : s[r] = "queued" =>
           \E c \in ConvKey : \E i \in DOMAIN q[c] : q[c][i] = r
    /\ \A c, d \in ConvKey : \A i \in DOMAIN q[c], j \in DOMAIN q[d] :
           q[c][i] = q[d][j] => c = d /\ i = j

LEMMA QueuedIsConsistent == QueuedOnce <=> Consistent(pendingMessages, stage)
  BY DEF QueuedOnce, Consistent

LEMMA QueueElements ==
    ASSUME NEW q \in [ConvKey -> Seq(Request)], NEW c \in ConvKey, NEW i \in DOMAIN q[c]
    PROVE  q[c][i] \in Request
<1>1. q[c] \in Seq(Request)
  OBVIOUS
<1>2. DOMAIN q[c] = 1..Len(q[c])
  BY <1>1, LenProperties
<1>3. QED
  BY <1>1, <1>2, ElementOfSeq

LEMMA AppendConsistent ==
    ASSUME NEW q \in [ConvKey -> Seq(Request)], NEW s \in [Request -> Stage],
           NEW k \in ConvKey, NEW r \in Request,
           Consistent(q, s), s[r] # "queued"
    PROVE  Consistent([q EXCEPT ![k] = Append(@, r)], [s EXCEPT ![r] = "queued"])
<1> DEFINE p == [q EXCEPT ![k] = Append(@, r)]
           t == [s EXCEPT ![r] = "queued"]
           new == Len(q[k]) + 1
<1>1. /\ Len(q[k]) \in Nat /\ DOMAIN q[k] = 1..Len(q[k])
      /\ p[k] = Append(q[k], r) /\ Append(q[k], r) \in Seq(Request)
  OBVIOUS
<1>2. /\ DOMAIN p[k] = 1..new
      /\ p[k][new] = r
      /\ \A i \in DOMAIN q[k] : p[k][i] = q[k][i]
  BY <1>1, AppendProperties
<1>3. \A c \in ConvKey \ {k} : p[c] = q[c]
  OBVIOUS
<1>4. \A c \in ConvKey : \A i \in DOMAIN q[c] : q[c][i] \in Request /\ q[c][i] # r
  BY QueueElements DEF Consistent
<1>5. \A c \in ConvKey : \A i \in DOMAIN p[c] :
        \/ i \in DOMAIN q[c] /\ p[c][i] = q[c][i]
        \/ c = k /\ i = new /\ p[c][i] = r
  BY <1>1, <1>2, <1>3
<1>6. \A c \in ConvKey : \A i \in DOMAIN q[c] : i \in DOMAIN p[c] /\ p[c][i] = q[c][i]
  BY <1>1, <1>2, <1>3
<1>7. t[r] = "queued" /\ \A x \in Request \ {r} : t[x] = s[x]
  OBVIOUS
<1>8. new \in DOMAIN p[k]
  BY <1>1, <1>2
<1> HIDE DEF p, t, new
<1>9. \A c \in ConvKey : \A i \in DOMAIN p[c] : t[p[c][i]] = "queued"
  BY <1>4, <1>5, <1>7 DEF Consistent
<1>10. \A x \in Request : t[x] = "queued" =>
         \E c \in ConvKey : \E i \in DOMAIN p[c] : p[c][i] = x
  BY <1>2, <1>6, <1>7, <1>8 DEF Consistent
<1>11. \A c, d \in ConvKey : \A i \in DOMAIN p[c], j \in DOMAIN p[d] :
         p[c][i] = p[d][j] => c = d /\ i = j
  <2> SUFFICES ASSUME NEW c \in ConvKey, NEW d \in ConvKey,
                      NEW i \in DOMAIN p[c], NEW j \in DOMAIN p[d],
                      p[c][i] = p[d][j]
               PROVE  c = d /\ i = j
    OBVIOUS
  <2>1. \A x, y \in ConvKey : \A m \in DOMAIN q[x], n \in DOMAIN q[y] :
          q[x][m] = q[y][n] => x = y /\ m = n
    BY DEF Consistent
  <2>2. CASE i \in DOMAIN q[c] /\ p[c][i] = q[c][i]
    <3>1. q[c][i] # r
      BY <1>4, <2>2
    <3>2. j \in DOMAIN q[d] /\ p[d][j] = q[d][j]
      BY <1>5, <2>2, <3>1
    <3>3. q[c][i] = q[d][j]
      BY <2>2, <3>2
    <3>4. QED
      BY <2>1, <2>2, <3>2, <3>3
  <2>3. CASE c = k /\ i = new /\ p[c][i] = r
    BY <1>4, <1>5, <2>3
  <2>4. QED
    BY <1>5, <2>2, <2>3
<1>12. Consistent(p, t)
  BY <1>9, <1>10, <1>11 DEF Consistent
<1>13. QED
  BY <1>12 DEF p, t

LEMMA TailConsistent ==
    ASSUME NEW q \in [ConvKey -> Seq(Request)], NEW s \in [Request -> Stage],
           NEW t \in [Request -> Stage], NEW k \in ConvKey,
           Consistent(q, s), q[k] # <<>>,
           t[Head(q[k])] # "queued",
           \A x \in Request \ {Head(q[k])} : t[x] = "queued" <=> s[x] = "queued"
    PROVE  Consistent([q EXCEPT ![k] = Tail(@)], t)
<1> DEFINE p == [q EXCEPT ![k] = Tail(@)]
           h == Head(q[k])
<1>1. /\ q[k] \in Seq(Request) /\ Len(q[k]) \in Nat \ {0}
      /\ DOMAIN q[k] = 1..Len(q[k])
      /\ Head(q[k]) = q[k][1]
      /\ Tail(q[k]) \in Seq(Request) /\ Len(Tail(q[k])) = Len(q[k]) - 1
      /\ p[k] = Tail(q[k])
  OBVIOUS
<1>2. /\ DOMAIN p[k] = 1..(Len(q[k]) - 1)
      /\ \A i \in 1..(Len(q[k]) - 1) : p[k][i] = q[k][i + 1]
      /\ h \in Request
  BY <1>1
<1>3. \A c \in ConvKey \ {k} : p[c] = q[c]
  OBVIOUS
<1>4. \A c \in ConvKey : \A i \in DOMAIN q[c] : q[c][i] \in Request
  BY QueueElements
<1>5. \A c \in ConvKey : \A i \in DOMAIN p[c] :
        \/ c # k /\ i \in DOMAIN q[c] /\ p[c][i] = q[c][i]
        \/ c = k /\ i + 1 \in DOMAIN q[c] /\ i + 1 # 1 /\ p[c][i] = q[c][i + 1]
  BY <1>1, <1>2, <1>3
<1>6. \A c \in ConvKey : \A i \in DOMAIN q[c] :
        \/ c = k /\ i = 1
        \/ \E j \in DOMAIN p[c] : p[c][j] = q[c][i]
  <2>1. \A i \in DOMAIN q[k] : i # 1 => i - 1 \in DOMAIN p[k] /\ p[k][i - 1] = q[k][i]
    BY <1>1, <1>2
  <2>2. QED
    BY <1>3, <2>1
<1>7. 1 \in DOMAIN q[k] /\ q[k][1] = h
  BY <1>1
<1>8. \A i, j \in DOMAIN p[k] : i + 1 = j + 1 => i = j
  BY <1>1, <1>2
<1> HIDE DEF p, h
<1>9. \A c \in ConvKey : \A i \in DOMAIN p[c] : p[c][i] # h /\ p[c][i] \in Request
  <2> SUFFICES ASSUME NEW c \in ConvKey, NEW i \in DOMAIN p[c]
               PROVE  p[c][i] # h /\ p[c][i] \in Request
    OBVIOUS
  <2>1. \A x, y \in ConvKey : \A m \in DOMAIN q[x], n \in DOMAIN q[y] :
          q[x][m] = q[y][n] => x = y /\ m = n
    BY DEF Consistent
  <2>2. CASE c # k
    <3>1. i \in DOMAIN q[c] /\ p[c][i] = q[c][i]
      BY <1>5, <2>2
    <3>2. q[c][i] # q[k][1]
      BY <1>7, <2>1, <2>2, <3>1
    <3>3. QED
      BY <1>4, <1>7, <3>1, <3>2
  <2>3. CASE c = k
    <3>1. i + 1 \in DOMAIN q[k] /\ i + 1 # 1 /\ p[c][i] = q[k][i + 1]
      BY <1>5, <2>3
    <3>2. q[k][i + 1] # q[k][1]
      BY <1>7, <2>1, <3>1
    <3>3. QED
      BY <1>4, <1>7, <3>1, <3>2
  <2>4. QED
    BY <2>2, <2>3
<1>10. \A c \in ConvKey : \A i \in DOMAIN p[c] : t[p[c][i]] = "queued"
  <2>1. \A x \in Request \ {h} : t[x] = "queued" <=> s[x] = "queued"
    BY DEF h
  <2>2. \A c \in ConvKey : \A i \in DOMAIN p[c] : s[p[c][i]] = "queued"
    BY <1>5 DEF Consistent
  <2>3. QED
    BY <1>9, <2>1, <2>2
<1>11. \A x \in Request : t[x] = "queued" =>
         \E c \in ConvKey : \E i \in DOMAIN p[c] : p[c][i] = x
  <2>1. SUFFICES ASSUME NEW x \in Request, t[x] = "queued"
                 PROVE  \E c \in ConvKey : \E i \in DOMAIN p[c] : p[c][i] = x
    OBVIOUS
  <2>2. x # h /\ s[x] = "queued"
    BY <2>1 DEF h
  <2>3. PICK c \in ConvKey : \E i \in DOMAIN q[c] : q[c][i] = x
    BY <2>2 DEF Consistent
  <2>4. QED
    BY <1>6, <1>7, <2>2, <2>3
<1>12. \A c, d \in ConvKey : \A i \in DOMAIN p[c], j \in DOMAIN p[d] :
         p[c][i] = p[d][j] => c = d /\ i = j
  <2> SUFFICES ASSUME NEW c \in ConvKey, NEW d \in ConvKey,
                      NEW i \in DOMAIN p[c], NEW j \in DOMAIN p[d],
                      p[c][i] = p[d][j]
               PROVE  c = d /\ i = j
    OBVIOUS
  <2>1. \A x, y \in ConvKey : \A m \in DOMAIN q[x], n \in DOMAIN q[y] :
          q[x][m] = q[y][n] => x = y /\ m = n
    BY DEF Consistent
  <2>2. CASE c # k /\ d # k
    BY <1>5, <2>1, <2>2
  <2>3. CASE c = k /\ d = k
    BY <1>5, <1>8, <2>1, <2>3
  <2>4. CASE c = k /\ d # k
    BY <1>5, <2>1, <2>4
  <2>5. CASE c # k /\ d = k
    BY <1>5, <2>1, <2>5
  <2>6. QED
    BY <2>2, <2>3, <2>4, <2>5
<1>13. Consistent(p, t)
  BY <1>10, <1>11, <1>12 DEF Consistent
<1>14. QED
  BY <1>13 DEF p

\* Only queue k is emptied, and exactly its members stop being queued.
LEMMA ClearConsistent ==
    ASSUME NEW q \in [ConvKey -> Seq(Request)], NEW s \in [Request -> Stage],
           NEW k \in ConvKey, Consistent(q, s)
    PROVE  Consistent([q EXCEPT ![k] = <<>>],
                      [r \in Request |-> IF \E i \in DOMAIN q[k] : q[k][i] = r
                                         THEN "dropped" ELSE s[r]])
<1> DEFINE p == [q EXCEPT ![k] = <<>>]
           In(r) == \E i \in DOMAIN q[k] : q[k][i] = r
           t == [r \in Request |-> IF In(r) THEN "dropped" ELSE s[r]]
<1>1. DOMAIN p[k] = {}
  OBVIOUS
<1>2. \A c \in ConvKey \ {k} : p[c] = q[c]
  OBVIOUS
<1>3. \A c \in ConvKey : \A i \in DOMAIN q[c] : q[c][i] \in Request
  BY QueueElements
<1>4. \A c \in ConvKey \ {k} : \A i \in DOMAIN q[c] : ~In(q[c][i])
  BY DEF Consistent
<1>5. \A r \in Request : ~In(r) => t[r] = s[r]
  OBVIOUS
<1>6. \A r \in Request : t[r] = "queued" => s[r] = "queued" /\ ~In(r)
  OBVIOUS
<1> HIDE DEF p, t
<1>7. \A c \in ConvKey : \A i \in DOMAIN p[c] : t[p[c][i]] = "queued"
  BY <1>1, <1>2, <1>3, <1>4, <1>5 DEF Consistent
<1>8. \A r \in Request : t[r] = "queued" =>
         \E c \in ConvKey : \E i \in DOMAIN p[c] : p[c][i] = r
  BY <1>2, <1>6 DEF Consistent
<1>9. \A c, d \in ConvKey : \A i \in DOMAIN p[c], j \in DOMAIN p[d] :
         p[c][i] = p[d][j] => c = d /\ i = j
  <2> SUFFICES ASSUME NEW c \in ConvKey, NEW d \in ConvKey,
                      NEW i \in DOMAIN p[c], NEW j \in DOMAIN p[d],
                      p[c][i] = p[d][j]
               PROVE  c = d /\ i = j
    OBVIOUS
  <2>1. \A x, y \in ConvKey : \A m \in DOMAIN q[x], n \in DOMAIN q[y] :
          q[x][m] = q[y][n] => x = y /\ m = n
    BY DEF Consistent
  <2>2. c # k /\ d # k
    BY <1>1
  <2>3. p[c] = q[c] /\ p[d] = q[d]
    BY <1>2, <2>2
  <2>4. QED
    BY <2>1, <2>3
<1>10. Consistent(p, t)
  BY <1>7, <1>8, <1>9 DEF Consistent
<1>11. QED
  BY <1>10 DEF p, t

-----------------------------------------------------------------------------
(* Every step keeps the queues.                                              *)

LEMMA SameQueues ==
    ASSUME TypeOK, QueuedOnce, UNCHANGED pendingMessages,
           \A x \in Request : stage'[x] = "queued" <=> stage[x] = "queued"
    PROVE  QueuedOnce'
<1>1. \A c \in ConvKey : \A i \in DOMAIN pendingMessages[c] : pendingMessages[c][i] \in Request
  BY QueueElements DEF TypeOK
<1>2. QED
  BY <1>1 DEF QueuedOnce

\* A flush calls the head of its queue, which was queued, and nobody else.
LEMMA FlushMoves ==
    ASSUME TypeOK, QueuedOnce, NEW k \in ConvKey, NEW st \in [Request -> Stage],
           \A x \in Request : st[x] = "queued" <=> stage[x] = "queued",
           Flush(k, st)
    PROVE  /\ QueuedOnce'
           /\ \A x \in Request : \/ stage'[x] = st[x]
                                 \/ st[x] = "queued" /\ stage'[x] = "calling"
<1>1. CASE pendingMessages[k] = <<>>
  BY <1>1, SameQueues DEF Flush
<1>2. CASE pendingMessages[k] # <<>>
  <2> DEFINE head == Head(pendingMessages[k])
  <2>1. /\ head \in Request
        /\ 1 \in DOMAIN pendingMessages[k]
        /\ pendingMessages[k][1] = head
    BY <1>2 DEF TypeOK
  <2>2. stage[head] = "queued" /\ st[head] = "queued"
    BY <2>1 DEF QueuedOnce
  <2>3. /\ stage' = [st EXCEPT ![head] = "calling"]
        /\ pendingMessages' = [pendingMessages EXCEPT ![k] = Tail(@)]
    BY <1>2 DEF Flush, Shift
  <2>4. Consistent(pendingMessages, stage)
    BY QueuedIsConsistent
  <2>5. /\ pendingMessages \in [ConvKey -> Seq(Request)]
        /\ stage \in [Request -> Stage]
    BY DEF TypeOK
  <2> HIDE DEF head
  <2>6. stage' \in [Request -> Stage]
    BY <2>3 DEF Stage
  <2>7. stage'[head] # "queued"
    BY <2>1, <2>3
  <2>8. \A x \in Request \ {head} : stage'[x] = "queued" <=> stage[x] = "queued"
    BY <2>3
  <2>9. Consistent([pendingMessages EXCEPT ![k] = Tail(@)], stage')
    BY <1>2, <2>4, <2>5, <2>6, <2>7, <2>8, TailConsistent DEF head
  <2>10. QueuedOnce'
    BY <2>3, <2>9 DEF Consistent, QueuedOnce
  <2>11. QED
    BY <2>2, <2>3, <2>10
<1>3. QED
  BY <1>1, <1>2

LEMMA ExecuteQueues ==
    ASSUME TypeOK, QueuedOnce, NEW r \in Request, Execute(r)
    PROVE  QueuedOnce'
<1> DEFINE c == conv[r]
           w == WsOf[r]
           key == IF BusyWorkspace(c, w) THEN CleanedLock(c, w) ELSE c
<1>1. stage[r] = "calling" /\ stage \in [Request -> Stage]
  BY DEF Execute, TypeOK
<1>2. CASE ~MustQueue(r) \/ (BusyWorkspace(c, w) /\ key = NoConv)
  <2>1. UNCHANGED pendingMessages
    BY <1>2 DEF Execute, Enqueue
  <2>2. \/ stage' = [stage EXCEPT ![r] = "routing"]
        \/ stage' = [stage EXCEPT ![r] = "admitted"]
        \/ stage' = [stage EXCEPT ![r] = "rejected"]
    BY <1>2 DEF Execute, Enqueue
  <2>3. \A x \in Request : stage'[x] = "queued" <=> stage[x] = "queued"
    BY <1>1, <2>2
  <2>4. QED
    BY <2>1, <2>3, SameQueues
<1>3. CASE MustQueue(r) /\ ~(BusyWorkspace(c, w) /\ key = NoConv)
  <2>1. key \in ConvKey
    <3>1. c \in ConvKey /\ w \in Workspace
      BY RequestAssumption DEF TypeOK
    <3>2. CleanedLock(c, w) \in ConvKey \cup {Free}
      BY <3>1 DEF CleanedLock, LockAfterOwn, TypeOK
    <3>3. QED
      BY <3>1, <3>2 DEF BusyWorkspace
  <2>2. /\ stage' = [stage EXCEPT ![r] = "queued"]
        /\ pendingMessages' = [pendingMessages EXCEPT ![key] = Append(@, r)]
    BY <1>3 DEF Execute, Enqueue
  <2> HIDE DEF key
  <2>3. Consistent(pendingMessages, stage)
    BY QueuedIsConsistent
  <2>4. pendingMessages \in [ConvKey -> Seq(Request)] /\ stage[r] # "queued"
    BY <1>1 DEF TypeOK
  <2>5. Consistent([pendingMessages EXCEPT ![key] = Append(@, r)],
                   [stage EXCEPT ![r] = "queued"])
    BY <1>1, <2>1, <2>3, <2>4, AppendConsistent
  <2>6. QED
    BY <2>2, <2>5 DEF Consistent, QueuedOnce
<1>4. QED
  BY <1>2, <1>3

\* The agent that delegated is appended, and the head of what results is called.
LEMMA DelegateMoves ==
    ASSUME TypeOK, QueuedOnce, NEW r \in Request, Delegate(r)
    PROVE  /\ QueuedOnce'
           /\ stage'[r] \in {"queued", "calling"}
           /\ \A x \in Request \ {r} : \/ stage'[x] = stage[x]
                                       \/ stage[x] = "queued" /\ stage'[x] = "calling"
<1> DEFINE c == conv[r]
           q == [pendingMessages EXCEPT ![c] = Append(@, r)]
           s == [stage EXCEPT ![r] = "queued"]
           head == Head(q[c])
<1>1. /\ c \in ConvKey /\ stage[r] = "tags"
      /\ pendingMessages \in [ConvKey -> Seq(Request)]
      /\ stage \in [Request -> Stage]
  BY DEF Delegate, TypeOK
<1>2. Consistent(pendingMessages, stage)
  BY QueuedIsConsistent
<1>3. Consistent(q, s)
  BY <1>1, <1>2, AppendConsistent
<1>4. q[c] = Append(pendingMessages[c], r)
  BY <1>1
<1>5. /\ stage' = [s EXCEPT ![head] = "calling"]
      /\ pendingMessages' = [pendingMessages EXCEPT ![c] = Tail(q[c])]
  BY <1>1, <1>4 DEF Delegate
<1>6. pendingMessages' = [q EXCEPT ![c] = Tail(@)]
  BY <1>1, <1>5
<1>7. q \in [ConvKey -> Seq(Request)] /\ s \in [Request -> Stage]
  <2>1. Append(pendingMessages[c], r) \in Seq(Request)
    BY <1>1
  <2>2. QED
    BY <1>1, <2>1 DEF Stage
<1>8. q[c] # <<>>
  <2>1. pendingMessages[c] \in Seq(Request)
    BY <1>1
  <2>2. QED
    BY <1>4, <2>1, AppendProperties
<1> HIDE DEF q, s
<1>9. /\ head \in Request
      /\ 1 \in DOMAIN q[c] /\ q[c][1] = head
  BY <1>1, <1>7, <1>8
<1>10. s[head] = "queued"
  BY <1>1, <1>3, <1>9 DEF Consistent
<1> HIDE DEF head
<1>11. /\ stage' \in [Request -> Stage] /\ stage'[head] # "queued"
       /\ \A x \in Request \ {head} : stage'[x] = "queued" <=> s[x] = "queued"
  BY <1>5, <1>7, <1>9 DEF Stage
<1>12. Consistent([q EXCEPT ![c] = Tail(@)], stage')
  BY <1>1, <1>3, <1>7, <1>8, <1>11, TailConsistent DEF head
<1>13. QueuedOnce'
  BY <1>6, <1>12 DEF Consistent, QueuedOnce
<1>14. \A x \in Request : stage'[x] = IF x = head THEN "calling" ELSE s[x]
  BY <1>5, <1>7
<1>15. \A x \in Request : s[x] = IF x = r THEN "queued" ELSE stage[x]
  BY <1>1 DEF s
<1>16. QED
  BY <1>9, <1>10, <1>13, <1>14, <1>15

\* The stages a finishing process leaves behind: its own, and that of a request
\* its flush may have called.
Finished(r) ==
    /\ Release(r)
    /\ UNCHANGED <<conv, outcome>>
    /\ stage'[r] \in {"tags", "done", "backoff"}
    /\ outcome[r] = "spawnError" => stage'[r] = "done"
    /\ \A x \in Request \ {r} : \/ stage'[x] = stage[x]
                                \/ stage[x] = "queued" /\ stage'[x] = "calling"
    /\ \/ ClearJob(r)
       \/ UNCHANGED activeJobs /\ outcome[r] = "cancel" /\ stage'[r] \in {"tags", "done"}

LEMMA FailedMoves ==
    ASSUME TypeOK, QueuedOnce, NEW r \in Request, stage[r] # "queued",
           Flush(conv[r], [stage EXCEPT ![r] = "done"])
    PROVE  /\ QueuedOnce'
           /\ stage'[r] = "done"
           /\ \A x \in Request \ {r} : \/ stage'[x] = stage[x]
                                       \/ stage[x] = "queued" /\ stage'[x] = "calling"
<1> DEFINE st == [stage EXCEPT ![r] = "done"]
<1>1. conv[r] \in ConvKey /\ stage \in [Request -> Stage]
  BY DEF TypeOK
<1>2. st \in [Request -> Stage]
  BY <1>1 DEF Stage
<1>3. st[r] = "done" /\ \A x \in Request \ {r} : st[x] = stage[x]
  BY <1>1
<1>4. Flush(conv[r], st)
  OBVIOUS
<1> HIDE DEF st
<1>5. \A x \in Request : st[x] = "queued" <=> stage[x] = "queued"
  BY <1>3
<1>6. /\ QueuedOnce'
      /\ \A x \in Request : \/ stage'[x] = st[x]
                            \/ st[x] = "queued" /\ stage'[x] = "calling"
  BY <1>1, <1>2, <1>4, <1>5, FlushMoves
<1>7. QED
  BY <1>3, <1>6

LEMMA FinalizeFinishes ==
    ASSUME TypeOK, QueuedOnce, NEW r \in Request,
           \/ FinalizeWithOutput(r) \/ FinalizeCancelled(r)
           \/ FinalizeRetry(r) \/ FinalizeFailed(r)
    PROVE  Finished(r) /\ QueuedOnce'
<1>1. stage \in [Request -> Stage]
  BY DEF TypeOK
<1>2. CASE FinalizeWithOutput(r)
  <2>1. Finished(r)
    BY <1>1, <1>2 DEF FinalizeWithOutput, Finished
  <2>2. UNCHANGED pendingMessages /\ stage[r] = "exited" /\ stage' = [stage EXCEPT ![r] = "tags"]
    BY <1>2 DEF FinalizeWithOutput, Release
  <2>3. QED
    BY <1>1, <2>1, <2>2, SameQueues
<1>3. CASE FinalizeCancelled(r)
  <2>1. Release(r) /\ UNCHANGED <<conv, outcome, pendingMessages, activeJobs>> /\ outcome[r] = "cancel"
    BY <1>3 DEF FinalizeCancelled
  <2>2. \/ stage' = [stage EXCEPT ![r] = "done"]
        \/ stage' = [stage EXCEPT ![r] = "tags"]
    BY <1>3 DEF FinalizeCancelled, CancelReply
  <2>3. stage[r] = "exited"
    BY <2>1 DEF Release
  <2>4. Finished(r)
    BY <1>1, <2>1, <2>2 DEF Finished
  <2>5. \A x \in Request : stage'[x] = "queued" <=> stage[x] = "queued"
    BY <1>1, <2>2, <2>3
  <2>6. QED
    BY <2>1, <2>4, <2>5, SameQueues
<1>4. CASE FinalizeRetry(r)
  <2>1. Finished(r)
    BY <1>1, <1>4 DEF FinalizeRetry, Finished
  <2>2. UNCHANGED pendingMessages /\ stage[r] = "exited" /\ stage' = [stage EXCEPT ![r] = "backoff"]
    BY <1>4 DEF FinalizeRetry, Release
  <2>3. QED
    BY <1>1, <2>1, <2>2, SameQueues
<1>5. CASE FinalizeFailed(r)
  <2>1. Release(r) /\ UNCHANGED <<conv, outcome>> /\ ClearJob(r)
    BY <1>5 DEF FinalizeFailed
  <2>2. stage[r] = "exited" /\ Flush(conv[r], [stage EXCEPT ![r] = "done"])
    BY <1>5 DEF FinalizeFailed, Release
  <2>3. QED
    BY <2>1, <2>2, FailedMoves DEF Finished
<1>6. QED
  BY <1>2, <1>3, <1>4, <1>5

LEMMA AbortQueues ==
    ASSUME TypeOK, QueuedOnce, NEW c \in Conv, Abort(c)
    PROVE  QueuedOnce'
<1>1. c \in ConvKey
  BY DEF ConvKey
<1>2. Consistent(pendingMessages, stage)
  BY QueuedIsConsistent
<1>3. /\ pendingMessages' = [pendingMessages EXCEPT ![c] = <<>>]
      /\ stage' = [r \in Request |->
                     IF \E i \in DOMAIN pendingMessages[c] : pendingMessages[c][i] = r
                     THEN "dropped" ELSE stage[r]]
  BY DEF Abort, DropQueued, InQueue
<1>4. Consistent(pendingMessages', stage')
  BY <1>1, <1>2, <1>3, ClearConsistent DEF TypeOK
<1>5. QED
  BY <1>4 DEF Consistent, QueuedOnce

\* Abort drops queued requests and moves nobody else.
LEMMA AbortMoves ==
    ASSUME TypeOK, QueuedOnce, NEW c \in Conv, Abort(c)
    PROVE  \A x \in Request : \/ stage'[x] = stage[x]
                              \/ stage[x] = "queued" /\ stage'[x] = "dropped"
<1>1. c \in ConvKey
  BY DEF ConvKey
<1>2. \A x \in Request : InQueue(c, x) => stage[x] = "queued"
  BY <1>1 DEF InQueue, QueuedOnce
<1>3. \A x \in Request : stage'[x] = IF InQueue(c, x) THEN "dropped" ELSE stage[x]
  BY DEF Abort, DropQueued
<1>4. QED
  BY <1>2, <1>3

-----------------------------------------------------------------------------
(* Steps that start, finish and signal no process.                           *)

Aside ==
    /\ outcome' = outcome
    /\ \A x \in Request :
         \/ stage'[x] = stage[x]
         \/ stage[x] \notin {"running", "exited", "tags", "done"}
            /\ stage'[x] \notin {"running", "exited"}
         \/ stage[x] = "tags" /\ stage'[x] = "done"
         \/ stage[x] = "tags" /\ outcome[x] = "ok" /\ stage'[x] \in {"queued", "calling"}
    /\ \A x \in Request : conv'[x] = conv[x] \/ (stage[x] = "tags" /\ outcome[x] = "ok")
    /\ \A c \in ConvKey : activeProcesses'[c] \in {activeProcesses[c], None}
    /\ \A c \in ConvKey : activeJobs'[c] \in {activeJobs[c], None}
    /\ \A w \in Workspace : workspaceLocks'[w] \in {workspaceLocks[w], Free}

LEMMA AsideHoldings ==
    ASSUME TypeOK, Holdings, Aside
    PROVE  Holdings'
<1>1. /\ activeProcesses \in [ConvKey -> Request \cup {None}]
      /\ activeJobs \in [ConvKey -> Request \cup {None}]
  BY DEF TypeOK
<1>2. \A x \in Request : HasProcess(x) => HasProcess(x)' /\ conv'[x] = conv[x]
  BY DEF Aside, HasProcess
<1>3. \A x \in Request : stage[x] \in {"tags", "done"} /\ outcome[x] = "cancel" =>
        stage'[x] \in {"tags", "done"} /\ outcome'[x] = "cancel" /\ conv'[x] = conv[x]
  BY DEF Aside
<1>4. ProcessEntryOwned'
  <2> SUFFICES ASSUME NEW c \in ConvKey, activeProcesses'[c] # None
               PROVE  HasProcess(activeProcesses[c])' /\ conv'[activeProcesses'[c]] = c
    BY DEF ProcessEntryOwned
  <2>1. activeProcesses'[c] = activeProcesses[c] /\ activeProcesses[c] \in Request
    BY <1>1 DEF Aside
  <2>2. HasProcess(activeProcesses[c]) /\ conv[activeProcesses[c]] = c
    BY <2>1 DEF Holdings, ProcessEntryOwned
  <2>3. stage'[activeProcesses[c]] \in {"running", "exited"} /\ conv'[activeProcesses[c]] = c
    BY <1>2, <2>1, <2>2 DEF HasProcess
  <2>4. QED
    BY <2>1, <2>3 DEF HasProcess
<1>5. JobResumable'
  <2> SUFFICES ASSUME NEW c \in ConvKey, activeJobs'[c] # None
               PROVE  /\ conv'[activeJobs'[c]] = c
                      /\ \/ stage'[activeJobs'[c]] \in {"running", "exited"}
                         \/ /\ stage'[activeJobs'[c]] \in {"tags", "done"}
                            /\ outcome'[activeJobs'[c]] = "cancel"
    BY DEF JobResumable, HasProcess
  <2> DEFINE r == activeJobs[c]
  <2>1. activeJobs'[c] = r /\ r \in Request
    BY <1>1 DEF Aside
  <2>2. conv[r] = c /\ (HasProcess(r) \/ (stage[r] \in {"tags", "done"} /\ outcome[r] = "cancel"))
    BY <2>1 DEF Holdings, JobResumable
  <2>3. CASE HasProcess(r)
    BY <1>2, <2>1, <2>2, <2>3 DEF HasProcess
  <2>4. CASE stage[r] \in {"tags", "done"} /\ outcome[r] = "cancel"
    BY <1>3, <2>1, <2>2, <2>4
  <2>5. QED
    BY <2>2, <2>3, <2>4
<1>6. LockOwned'
  <2> SUFFICES ASSUME NEW w \in Workspace, workspaceLocks'[w] # Free
               PROVE  \E x \in Request : /\ stage'[x] \in {"running", "exited"}
                                         /\ Effective[WsOf[x]] = w
                                         /\ conv'[x] = workspaceLocks'[w]
    BY DEF LockOwned, HasProcess
  <2>1. workspaceLocks'[w] = workspaceLocks[w]
    BY DEF Aside
  <2>2. PICK x \in Request : /\ HasProcess(x) /\ Effective[WsOf[x]] = w
                             /\ conv[x] = workspaceLocks[w]
    BY <2>1 DEF Holdings, LockOwned
  <2>3. QED
    BY <1>2, <2>1, <2>2 DEF HasProcess
<1>7. SpawnErrorEnds'
  BY DEF Holdings, SpawnErrorEnds, Aside
<1>8. QED
  BY <1>4, <1>5, <1>6, <1>7 DEF Holdings

LEMMA AsideRegistered ==
    ASSUME TypeOK, Registered, Aside, UNCHANGED <<signalled, pids>>
    PROVE  Registered'
<1>1. \A x \in Request : HasProcess(x)' <=> HasProcess(x)
  BY DEF Aside, HasProcess
<1>2. SignalledAlive'
  BY <1>1 DEF Registered, SignalledAlive, TypeOK
<1>3. PidsExact'
  BY <1>1 DEF Registered, PidsExact, Aside
<1>4. QED
  BY <1>2, <1>3 DEF Registered

LEMMA FinishedHoldings ==
    ASSUME TypeOK, Holdings, Registered, NEW r \in Request, Finished(r)
    PROVE  Holdings' /\ Registered'
<1>1. /\ activeProcesses \in [ConvKey -> Request \cup {None}]
      /\ activeJobs \in [ConvKey -> Request \cup {None}]
      /\ workspaceLocks \in [Workspace -> ConvKey \cup {Free}]
      /\ conv[r] \in ConvKey /\ Effective[WsOf[r]] \in Workspace
      /\ stage \in [Request -> Stage]
  BY RequestAssumption DEF TypeOK
<1>2. /\ stage[r] = "exited" /\ conv' = conv /\ outcome' = outcome
      /\ activeProcesses' = [activeProcesses EXCEPT ![conv[r]] = None]
      /\ pids' = pids \ {r} /\ signalled' = signalled \ {r}
      /\ workspaceLocks' = [workspaceLocks EXCEPT
            ![Effective[WsOf[r]]] = IF @ = conv[r] THEN Free ELSE @]
  BY DEF Finished, Release, RemoveEntry, Unregister, Unlock
<1>3. \A x \in Request : HasProcess(x)' <=> HasProcess(x) /\ x # r
  BY DEF Finished, HasProcess
<1>4. \A x \in Request \ {r} : stage[x] \in {"tags", "done"} => stage'[x] = stage[x]
  BY DEF Finished
<1>5. ProcessEntryOwned'
  <2> SUFFICES ASSUME NEW c \in ConvKey, activeProcesses'[c] # None
               PROVE  /\ stage'[activeProcesses'[c]] \in {"running", "exited"}
                      /\ conv'[activeProcesses'[c]] = c
    BY DEF ProcessEntryOwned, HasProcess
  <2>1. /\ c # conv[r] /\ activeProcesses'[c] = activeProcesses[c]
        /\ activeProcesses[c] \in Request
    BY <1>1, <1>2
  <2>2. HasProcess(activeProcesses[c]) /\ conv[activeProcesses[c]] = c
    BY <2>1 DEF Holdings, ProcessEntryOwned
  <2>3. QED
    BY <1>2, <1>3, <2>1, <2>2 DEF HasProcess
<1>6. JobResumable'
  <2> SUFFICES ASSUME NEW c \in ConvKey, activeJobs'[c] # None
               PROVE  /\ conv'[activeJobs'[c]] = c
                      /\ \/ stage'[activeJobs'[c]] \in {"running", "exited"}
                         \/ /\ stage'[activeJobs'[c]] \in {"tags", "done"}
                            /\ outcome'[activeJobs'[c]] = "cancel"
    BY DEF JobResumable, HasProcess
  <2> DEFINE j == activeJobs[c]
  <2>1. activeJobs'[c] = j /\ j \in Request
    BY <1>1 DEF Finished, ClearJob
  <2>2. conv[j] = c /\ (HasProcess(j) \/ (stage[j] \in {"tags", "done"} /\ outcome[j] = "cancel"))
    BY <2>1 DEF Holdings, JobResumable
  <2>3. CASE j # r
    <3> HIDE DEF j
    <3>1. QED
      BY <1>2, <1>3, <1>4, <2>1, <2>2, <2>3 DEF HasProcess
  <2>4. CASE j = r
    <3>1. ~ClearJob(r)
      BY <1>1, <2>1, <2>2, <2>4 DEF ClearJob
    <3>2. outcome[r] = "cancel" /\ stage'[r] \in {"tags", "done"}
      BY <3>1 DEF Finished
    <3>3. QED
      BY <1>2, <2>1, <2>2, <2>4, <3>2
  <2>5. QED
    BY <2>3, <2>4
<1>7. LockOwned'
  <2> SUFFICES ASSUME NEW w \in Workspace, workspaceLocks'[w] # Free
               PROVE  \E x \in Request : /\ stage'[x] \in {"running", "exited"}
                                         /\ Effective[WsOf[x]] = w
                                         /\ conv'[x] = workspaceLocks'[w]
    BY DEF LockOwned, HasProcess
  <2>1. workspaceLocks'[w] = workspaceLocks[w]
    BY <1>1, <1>2
  <2>2. PICK x \in Request : /\ HasProcess(x) /\ Effective[WsOf[x]] = w
                             /\ conv[x] = workspaceLocks[w]
    BY <2>1 DEF Holdings, LockOwned
  <2>3. x # r
    BY <1>1, <1>2, <2>1, <2>2
  <2>4. QED
    BY <1>2, <1>3, <2>1, <2>2, <2>3 DEF HasProcess
<1>8. SpawnErrorEnds'
  BY DEF Holdings, SpawnErrorEnds, Finished
<1>9. SignalledAlive'
  BY <1>2, <1>3 DEF Registered, SignalledAlive, TypeOK
<1>10. PidsExact'
  BY <1>2, <1>3 DEF Registered, PidsExact
<1>11. QED
  BY <1>5, <1>6, <1>7, <1>8, <1>9, <1>10 DEF Holdings, Registered

SideStep(r) ==
    \/ Submit(r) \/ Execute(r) \/ RouteReply(r) \/ EarlyExit(r) \/ Retry(r)
    \/ Complete(r) \/ Delegate(r) \/ CompleteCancelled(r) \/ CompleteSelfRestart(r)
    \/ FlushTimer(r)

\* The stale state cleanup only takes entries and locks away.
LEMMA ExecuteAside ==
    ASSUME TypeOK, NEW r \in Request, Execute(r)
    PROVE  Aside
<1>1. stage[r] = "calling" /\ UNCHANGED <<conv, outcome>>
  BY DEF Execute
<1>2. \A c \in ConvKey : activeProcesses'[c] \in {activeProcesses[c], None}
  BY DEF Execute, Forget
<1>3. \A c \in ConvKey : activeJobs'[c] \in {activeJobs[c], None}
  BY DEF Execute, Forget
<1>4. \A w \in Workspace : workspaceLocks'[w] \in {workspaceLocks[w], Free}
  BY DEF Execute, CleanedLock, LockAfterOwn, TypeOK
<1>5. \/ stage' = [stage EXCEPT ![r] = "routing"]
      \/ stage' = [stage EXCEPT ![r] = "admitted"]
      \/ stage' = [stage EXCEPT ![r] = "rejected"]
      \/ stage' = [stage EXCEPT ![r] = "queued"]
  BY DEF Execute, Enqueue
<1>6. stage'[r] \notin {"running", "exited"} /\ \A x \in Request \ {r} : stage'[x] = stage[x]
  BY <1>5 DEF TypeOK
<1>7. QED
  BY <1>1, <1>2, <1>3, <1>4, <1>6 DEF Aside

LEMMA SideStepAside ==
    ASSUME TypeOK, QueuedOnce, NEW r \in Request, SideStep(r)
    PROVE  Aside /\ QueuedOnce' /\ UNCHANGED <<signalled, pids>>
<1> USE DEF executorVars
<1>1. stage \in [Request -> Stage] /\ conv[r] \in ConvKey
  BY DEF TypeOK
<1>2. CASE Submit(r)
  BY <1>1, <1>2, SameQueues DEF Submit, Aside
<1>3. CASE Execute(r)
  BY <1>3, ExecuteAside, ExecuteQueues DEF Execute
<1>4. CASE RouteReply(r)
  BY <1>1, <1>4, SameQueues DEF RouteReply, Aside
<1>5. CASE EarlyExit(r)
  BY <1>1, <1>5, SameQueues DEF EarlyExit, Aside
<1>6. CASE Retry(r)
  BY <1>1, <1>6, SameQueues DEF Retry, Aside
<1>7. CASE Complete(r)
  <2>1. stage[r] = "tags" /\ Flush(conv[r], [stage EXCEPT ![r] = "done"])
    BY <1>7 DEF Complete
  <2>2. /\ QueuedOnce' /\ stage'[r] = "done"
        /\ \A x \in Request \ {r} : \/ stage'[x] = stage[x]
                                    \/ stage[x] = "queued" /\ stage'[x] = "calling"
    BY <2>1, FailedMoves
  <2>3. UNCHANGED <<conv, outcome, signalled, activeProcesses, activeJobs,
                    workspaceLocks, pids>>
    BY <1>7 DEF Complete
  <2>4. QED
    BY <2>1, <2>2, <2>3 DEF Aside
<1>8. CASE Delegate(r)
  <2>1. stage[r] = "tags" /\ outcome[r] = "ok"
    BY <1>8 DEF Delegate
  <2>2. /\ QueuedOnce' /\ stage'[r] \in {"queued", "calling"}
        /\ \A x \in Request \ {r} : \/ stage'[x] = stage[x]
                                    \/ stage[x] = "queued" /\ stage'[x] = "calling"
    BY <1>8, DelegateMoves
  <2>3. /\ UNCHANGED <<outcome, signalled, activeProcesses, activeJobs,
                       workspaceLocks, pids>>
        /\ \A x \in Request \ {r} : conv'[x] = conv[x]
    BY <1>8 DEF Delegate, TypeOK
  <2>4. QED
    BY <2>1, <2>2, <2>3 DEF Aside
<1>9. CASE CompleteCancelled(r)
  <2>1. /\ stage[r] = "tags" /\ stage' = [stage EXCEPT ![r] = "done"]
        /\ UNCHANGED <<conv, outcome, signalled, executorVars>>
    BY <1>9 DEF CompleteCancelled, CancelReply
  <2>2. QED
    BY <1>1, <2>1, SameQueues DEF Aside
<1>10. CASE CompleteSelfRestart(r)
  <2>1. /\ stage[r] = "tags" /\ stage' = [stage EXCEPT ![r] = "done"]
        /\ UNCHANGED <<conv, outcome, signalled, executorVars>>
    BY <1>10 DEF CompleteSelfRestart
  <2>2. QED
    BY <1>1, <2>1, SameQueues DEF Aside
<1>11. CASE FlushTimer(r)
  <2>1. Flush(conv[r], stage)
    BY <1>11 DEF FlushTimer
  <2>2. /\ QueuedOnce'
        /\ \A x \in Request : \/ stage'[x] = stage[x]
                              \/ stage[x] = "queued" /\ stage'[x] = "calling"
    BY <1>1, <2>1, FlushMoves
  <2>3. UNCHANGED <<conv, outcome, signalled, activeProcesses, activeJobs,
                    workspaceLocks, pids>>
    BY <1>11 DEF FlushTimer
  <2>4. QED
    BY <2>2, <2>3 DEF Aside
<1>12. QED
  BY <1>2, <1>3, <1>4, <1>5, <1>6, <1>7, <1>8, <1>9, <1>10, <1>11 DEF SideStep

ServerStep == RequestSafeRestart \/ GracefulShutdown \/ Exit \/ UNCHANGED vars

LEMMA ServerStepAside ==
    ASSUME TypeOK, QueuedOnce,
           ServerStep \/ \E c \in ConvKey : JobExpires(c)
    PROVE  Aside /\ QueuedOnce' /\ UNCHANGED <<signalled, pids>>
<1> USE DEF executorVars, requestVars
<1>1. CASE ServerStep
  <2>1. UNCHANGED <<requestVars, executorVars>>
    BY <1>1 DEF ServerStep, RequestSafeRestart, GracefulShutdown, Exit, vars
  <2>2. QED
    BY <2>1, SameQueues DEF Aside
<1>2. ASSUME NEW c \in ConvKey, JobExpires(c)
      PROVE  Aside /\ QueuedOnce' /\ UNCHANGED <<signalled, pids>>
  <2>1. activeJobs' = [activeJobs EXCEPT ![c] = None]
    BY <1>2 DEF JobExpires
  <2>2. UNCHANGED <<requestVars, activeProcesses, pendingMessages, workspaceLocks, pids>>
    BY <1>2 DEF JobExpires
  <2>3. QED
    BY <2>1, <2>2, SameQueues DEF Aside, TypeOK
<1>3. QED
  BY <1>1, <1>2

-----------------------------------------------------------------------------
(* Steps that start, end or signal a process.                                *)

LEMMA SpawnHoldings ==
    ASSUME TypeOK, QueuedOnce, Holdings, Registered, NEW r \in Request, Spawn(r)
    PROVE  QueuedOnce' /\ Holdings' /\ Registered'
<1>1. /\ activeProcesses \in [ConvKey -> Request \cup {None}]
      /\ activeJobs \in [ConvKey -> Request \cup {None}]
      /\ workspaceLocks \in [Workspace -> ConvKey \cup {Free}]
      /\ conv[r] \in ConvKey /\ Effective[WsOf[r]] \in Workspace
      /\ stage \in [Request -> Stage] /\ outcome \in [Request -> Outcome]
      /\ signalled \subseteq Request
  BY RequestAssumption DEF TypeOK
<1>2. /\ stage[r] = "admitted" /\ stage' = [stage EXCEPT ![r] = "running"]
      /\ outcome' = [outcome EXCEPT ![r] = "none"]
      /\ activeProcesses' = [activeProcesses EXCEPT ![conv[r]] = r]
      /\ pids' = pids \cup {r}
      /\ workspaceLocks' = [workspaceLocks EXCEPT ![Effective[WsOf[r]]] = conv[r]]
      /\ activeJobs' = [activeJobs EXCEPT ![conv[r]] = r]
      /\ UNCHANGED <<conv, signalled, pendingMessages>>
  BY DEF Spawn
<1>3. /\ stage'[r] = "running" /\ outcome'[r] = "none"
      /\ \A x \in Request \ {r} : stage'[x] = stage[x] /\ outcome'[x] = outcome[x]
  BY <1>1, <1>2
<1>4. QueuedOnce'
  BY <1>2, <1>3, SameQueues
<1>5. ~HasProcess(r) /\ r \notin signalled
  BY <1>2 DEF HasProcess, Registered, SignalledAlive
<1>6. ProcessEntryOwned'
  BY <1>1, <1>2, <1>3, <1>5 DEF Holdings, ProcessEntryOwned, HasProcess
<1>7. JobResumable'
  BY <1>1, <1>2, <1>3, <1>5 DEF Holdings, JobResumable, HasProcess
<1>8. LockOwned'
  <2> SUFFICES ASSUME NEW w \in Workspace, workspaceLocks'[w] # Free
               PROVE  \E x \in Request : /\ stage'[x] \in {"running", "exited"}
                                         /\ Effective[WsOf[x]] = w
                                         /\ conv'[x] = workspaceLocks'[w]
    BY DEF LockOwned, HasProcess
  <2>1. CASE w = Effective[WsOf[r]]
    BY <1>1, <1>2, <1>3, <2>1
  <2>2. CASE w # Effective[WsOf[r]]
    <3>1. workspaceLocks'[w] = workspaceLocks[w]
      BY <1>1, <1>2, <2>2
    <3>2. PICK x \in Request : /\ HasProcess(x) /\ Effective[WsOf[x]] = w
                               /\ conv[x] = workspaceLocks[w]
      BY <3>1 DEF Holdings, LockOwned
    <3>3. QED
      BY <1>2, <1>3, <1>5, <3>1, <3>2 DEF HasProcess
  <2>3. QED
    BY <2>1, <2>2
<1>9. SpawnErrorEnds'
  BY <1>3 DEF Holdings, SpawnErrorEnds
<1>10. SignalledAlive'
  BY <1>1, <1>2, <1>3, <1>5 DEF Registered, SignalledAlive, HasProcess
<1>11. PidsExact'
  BY <1>2, <1>3, <1>5 DEF Registered, PidsExact, HasProcess
<1>12. QED
  BY <1>4, <1>6, <1>7, <1>8, <1>9, <1>10, <1>11 DEF Holdings, Registered

LEMMA SpawnErrorHoldings ==
    ASSUME TypeOK, QueuedOnce, Holdings, Registered, NEW r \in Request, SpawnError(r)
    PROVE  QueuedOnce' /\ Holdings' /\ Registered'
<1>1. /\ activeProcesses \in [ConvKey -> Request \cup {None}]
      /\ activeJobs \in [ConvKey -> Request \cup {None}]
      /\ workspaceLocks \in [Workspace -> ConvKey \cup {Free}]
      /\ conv[r] \in ConvKey /\ Effective[WsOf[r]] \in Workspace
      /\ stage \in [Request -> Stage] /\ outcome \in [Request -> Outcome]
      /\ signalled \subseteq Request
  BY RequestAssumption DEF TypeOK
<1>2. /\ stage[r] = "admitted" /\ stage' = [stage EXCEPT ![r] = "exited"]
      /\ outcome' = [outcome EXCEPT ![r] = "spawnError"]
      /\ activeProcesses' = [activeProcesses EXCEPT ![conv[r]] = None]
      /\ workspaceLocks' = [workspaceLocks EXCEPT ![Effective[WsOf[r]]] = Free]
      /\ activeJobs' = [activeJobs EXCEPT ![conv[r]] = None]
      /\ UNCHANGED <<conv, signalled, pids, pendingMessages>>
  BY DEF SpawnError
<1>3. /\ stage'[r] = "exited" /\ outcome'[r] = "spawnError"
      /\ \A x \in Request \ {r} : stage'[x] = stage[x] /\ outcome'[x] = outcome[x]
  BY <1>1, <1>2
<1>4. QueuedOnce'
  BY <1>2, <1>3, SameQueues
<1>5. ~HasProcess(r) /\ r \notin signalled
  BY <1>2 DEF HasProcess, Registered, SignalledAlive
<1>6. ProcessEntryOwned'
  BY <1>1, <1>2, <1>3, <1>5 DEF Holdings, ProcessEntryOwned, HasProcess
<1>7. JobResumable'
  BY <1>1, <1>2, <1>3, <1>5 DEF Holdings, JobResumable, HasProcess
<1>8. LockOwned'
  <2> SUFFICES ASSUME NEW w \in Workspace, workspaceLocks'[w] # Free
               PROVE  \E x \in Request : /\ stage'[x] \in {"running", "exited"}
                                         /\ Effective[WsOf[x]] = w
                                         /\ conv'[x] = workspaceLocks'[w]
    BY DEF LockOwned, HasProcess
  <2>1. workspaceLocks'[w] = workspaceLocks[w]
    BY <1>1, <1>2
  <2>2. PICK x \in Request : /\ HasProcess(x) /\ Effective[WsOf[x]] = w
                             /\ conv[x] = workspaceLocks[w]
    BY <2>1 DEF Holdings, LockOwned
  <2>3. QED
    BY <1>2, <1>3, <1>5, <2>1, <2>2 DEF HasProcess
<1>9. SpawnErrorEnds'
  BY <1>3 DEF Holdings, SpawnErrorEnds
<1>10. SignalledAlive'
  BY <1>1, <1>2, <1>3, <1>5 DEF Registered, SignalledAlive, HasProcess
<1>11. PidsExact'
  BY <1>2, <1>3, <1>5 DEF Registered, PidsExact, HasProcess
<1>12. QED
  BY <1>4, <1>6, <1>7, <1>8, <1>9, <1>10, <1>11 DEF Holdings, Registered

LEMMA DiesHoldings ==
    ASSUME TypeOK, QueuedOnce, Holdings, Registered, NEW r \in Request, Dies(r)
    PROVE  /\ QueuedOnce' /\ Holdings' /\ Registered'
           /\ \A x \in Request : outcome'[x] = "spawnError" <=> outcome[x] = "spawnError"
<1>1. /\ activeProcesses \in [ConvKey -> Request \cup {None}]
      /\ activeJobs \in [ConvKey -> Request \cup {None}]
      /\ stage \in [Request -> Stage] /\ outcome \in [Request -> Outcome]
      /\ signalled \subseteq Request
  BY DEF TypeOK
<1>2. /\ stage[r] = "running" /\ stage' = [stage EXCEPT ![r] = "exited"]
      /\ UNCHANGED <<conv, signalled, executorVars>>
  BY DEF Dies
<1>3. outcome'[r] # "spawnError" /\ \A x \in Request \ {r} : outcome'[x] = outcome[x]
  <2>1. PICK o \in {"ok", "fail", "cancel", "selfRestart"} : outcome' = [outcome EXCEPT ![r] = o]
    BY DEF Dies
  <2>2. QED
    BY <1>1, <2>1
<1>4. stage'[r] = "exited" /\ \A x \in Request \ {r} : stage'[x] = stage[x]
  BY <1>1, <1>2
<1>5. outcome[r] # "spawnError"
  BY <1>2 DEF Holdings, SpawnErrorEnds
<1>6. QueuedOnce'
  BY <1>2, <1>4, SameQueues DEF executorVars
<1>7. \A x \in Request : HasProcess(x)' <=> HasProcess(x)
  BY <1>2, <1>4 DEF HasProcess
<1>8. ProcessEntryOwned'
  BY <1>1, <1>2, <1>4 DEF Holdings, ProcessEntryOwned, HasProcess, executorVars
<1>9. JobResumable'
  BY <1>1, <1>2, <1>3, <1>4 DEF Holdings, JobResumable, HasProcess, executorVars
<1>10. LockOwned'
  BY <1>2, <1>7 DEF Holdings, LockOwned, executorVars
<1>11. SpawnErrorEnds'
  BY <1>3, <1>4 DEF Holdings, SpawnErrorEnds
<1>12. SignalledAlive'
  BY <1>1, <1>2, <1>7 DEF Registered, SignalledAlive
<1>13. PidsExact'
  BY <1>2, <1>3, <1>5, <1>7 DEF Registered, PidsExact, executorVars
<1>14. QED
  BY <1>3, <1>5, <1>6, <1>8, <1>9, <1>10, <1>11, <1>12, <1>13 DEF Holdings, Registered

LEMMA AbortHoldings ==
    ASSUME TypeOK, QueuedOnce, Holdings, Registered, NEW c \in Conv, Abort(c)
    PROVE  QueuedOnce' /\ Holdings' /\ Registered'
<1> DEFINE p == activeProcesses[c]
<1>1. c \in ConvKey /\ p \in Request
  BY DEF Abort, ConvKey, TypeOK
<1>2. /\ activeProcesses' = [activeProcesses EXCEPT ![c] = None]
      /\ activeJobs' = [activeJobs EXCEPT ![c] = None]
      /\ signalled' = signalled \cup {p} /\ pids' = pids \ {p}
      /\ UNCHANGED <<conv, outcome, workspaceLocks>>
  BY DEF Abort
<1>3. \A x \in Request : \/ stage'[x] = stage[x]
                         \/ stage[x] = "queued" /\ stage'[x] = "dropped"
  BY AbortMoves
<1>4. Aside
  BY <1>2, <1>3 DEF Aside, TypeOK
<1>5. \A x \in Request : HasProcess(x)' <=> HasProcess(x)
  BY <1>3 DEF HasProcess
<1>6. HasProcess(p)
  BY <1>1 DEF Abort, Holdings, ProcessEntryOwned
<1> HIDE DEF p
<1>7. SignalledAlive'
  BY <1>1, <1>2, <1>5, <1>6 DEF Registered, SignalledAlive, TypeOK
<1>8. PidsExact'
  BY <1>2, <1>5 DEF Registered, PidsExact
<1>9. QED
  BY <1>4, <1>7, <1>8, AbortQueues, AsideHoldings DEF Registered

LEMMA NextHoldings ==
    ASSUME TypeOK, QueuedOnce, Holdings, Registered, [Next]_vars
    PROVE  QueuedOnce' /\ Holdings' /\ Registered'
<1>1. ASSUME NEW r \in Request, SideStep(r)
      PROVE  QueuedOnce' /\ Holdings' /\ Registered'
  BY <1>1, SideStepAside, AsideHoldings, AsideRegistered
<1>2. CASE ServerStep \/ \E c \in ConvKey : JobExpires(c)
  BY <1>2, ServerStepAside, AsideHoldings, AsideRegistered
<1>3. ASSUME NEW r \in Request, Spawn(r)
      PROVE  QueuedOnce' /\ Holdings' /\ Registered'
  BY <1>3, SpawnHoldings
<1>4. ASSUME NEW r \in Request, SpawnError(r)
      PROVE  QueuedOnce' /\ Holdings' /\ Registered'
  BY <1>4, SpawnErrorHoldings
<1>5. ASSUME NEW r \in Request, Dies(r)
      PROVE  QueuedOnce' /\ Holdings' /\ Registered'
  BY <1>5, DiesHoldings
<1>6. ASSUME NEW r \in Request,
             \/ FinalizeWithOutput(r) \/ FinalizeCancelled(r)
             \/ FinalizeRetry(r) \/ FinalizeFailed(r)
      PROVE  QueuedOnce' /\ Holdings' /\ Registered'
  BY <1>6, FinalizeFinishes, FinishedHoldings
<1>7. ASSUME NEW c \in Conv, Abort(c)
      PROVE  QueuedOnce' /\ Holdings' /\ Registered'
  BY <1>7, AbortHoldings
<1>8. QED
  BY <1>1, <1>2, <1>3, <1>4, <1>5, <1>6, <1>7
     DEF Next, Environment, Progress, SideStep, ServerStep

-----------------------------------------------------------------------------
(* Final callbacks.                                                          *)

LEMMA NobodyAnswered ==
    ASSUME AnsweredOnce, replies' = replies,
           \A x \in Request : stage'[x] = "done" <=> stage[x] = "done",
           \A x \in Request : outcome'[x] = "spawnError" <=> outcome[x] = "spawnError"
    PROVE  AnsweredOnce'
  BY DEF AnsweredOnce

LEMMA OneAnswered ==
    ASSUME TypeOK, AnsweredOnce, NEW r \in Request, Replied(r),
           stage[r] # "done", stage'[r] = "done",
           \A x \in Request \ {r} : stage'[x] = "done" <=> stage[x] = "done",
           \A x \in Request : outcome'[x] = "spawnError" <=> outcome[x] = "spawnError"
    PROVE  AnsweredOnce'
<1>1. replies \in [Request -> Nat] /\ replies' = [replies EXCEPT ![r] = @ + 1]
  BY DEF Replied, TypeOK
<1>2. replies'[r] = replies[r] + 1 /\ \A x \in Request \ {r} : replies'[x] = replies[x]
  BY <1>1
<1>3. \A x \in Request : replies[x] = (IF stage[x] = "done" THEN 1 ELSE 0)
                                  + (IF outcome[x] = "spawnError" THEN 1 ELSE 0)
  BY DEF AnsweredOnce
<1>4. replies'[r] = (IF stage'[r] = "done" THEN 1 ELSE 0)
                    + (IF outcome'[r] = "spawnError" THEN 1 ELSE 0)
  BY <1>2, <1>3
<1>5. \A x \in Request \ {r} :
        replies'[x] = (IF stage'[x] = "done" THEN 1 ELSE 0)
                      + (IF outcome'[x] = "spawnError" THEN 1 ELSE 0)
  BY <1>2, <1>3
<1>6. QED
  BY <1>4, <1>5 DEF AnsweredOnce

LEMMA NextAnswered ==
    ASSUME TypeOK, QueuedOnce, Holdings, Registered, AnsweredOnce, [Next]_vars
    PROVE  AnsweredOnce'
<1> USE DEF requestVars, executorVars
<1>1. stage \in [Request -> Stage] /\ outcome \in [Request -> Outcome]
  BY DEF TypeOK
<1>2. ASSUME NEW r \in Request,
             Submit(r) \/ Execute(r) \/ Retry(r) \/ Delegate(r) \/ FlushTimer(r)
      PROVE  AnsweredOnce'
  <2>1. SideStep(r)
    BY <1>2 DEF SideStep
  <2>2. CASE Submit(r)
    BY <1>1, <2>2, NobodyAnswered DEF Submit
  <2>3. CASE Execute(r)
    <3>1. /\ stage[r] = "calling" /\ UNCHANGED <<replies, outcome>>
          /\ \/ stage' = [stage EXCEPT ![r] = "routing"]
             \/ stage' = [stage EXCEPT ![r] = "admitted"]
             \/ stage' = [stage EXCEPT ![r] = "rejected"]
             \/ stage' = [stage EXCEPT ![r] = "queued"]
      BY <2>3 DEF Execute, Enqueue
    <3>2. \A x \in Request : stage'[x] = "done" <=> stage[x] = "done"
      BY <1>1, <3>1
    <3>3. QED
      BY <3>1, <3>2, NobodyAnswered
  <2>4. CASE Retry(r)
    BY <1>1, <2>4, NobodyAnswered DEF Retry
  <2>5. CASE Delegate(r)
    <3>1. stage[r] = "tags" /\ UNCHANGED <<replies, outcome>>
      BY <2>5 DEF Delegate
    <3>2. \A x \in Request : stage'[x] = "done" <=> stage[x] = "done"
      BY <2>5, <3>1, DelegateMoves
    <3>3. QED
      BY <3>1, <3>2, NobodyAnswered
  <2>6. CASE FlushTimer(r)
    <3>1. Flush(conv[r], stage) /\ UNCHANGED <<replies, outcome>> /\ conv[r] \in ConvKey
      BY <2>6 DEF FlushTimer, TypeOK
    <3>2. \A x \in Request : stage'[x] = "done" <=> stage[x] = "done"
      BY <1>1, <3>1, FlushMoves
    <3>3. QED
      BY <3>1, <3>2, NobodyAnswered
  <2>7. QED
    BY <1>2, <2>2, <2>3, <2>4, <2>5, <2>6
<1>3. ASSUME NEW r \in Request,
             RouteReply(r) \/ EarlyExit(r) \/ CompleteCancelled(r) \/ CompleteSelfRestart(r)
      PROVE  AnsweredOnce'
  <2>1. /\ stage[r] # "done" /\ stage' = [stage EXCEPT ![r] = "done"]
        /\ Replied(r) /\ outcome' = outcome
    BY <1>3 DEF RouteReply, EarlyExit, CompleteCancelled, CompleteSelfRestart, CancelReply
  <2>2. stage'[r] = "done" /\ \A x \in Request \ {r} : stage'[x] = stage[x]
    BY <1>1, <2>1
  <2>3. QED
    BY <2>1, <2>2, OneAnswered
<1>4. ASSUME NEW r \in Request, Complete(r) \/ FinalizeFailed(r)
      PROVE  AnsweredOnce'
  <2>1. /\ stage[r] \in {"tags", "exited"} /\ Replied(r) /\ outcome' = outcome
        /\ Flush(conv[r], [stage EXCEPT ![r] = "done"])
    BY <1>4 DEF Complete, FinalizeFailed, Release
  <2>2. /\ stage'[r] = "done"
        /\ \A x \in Request \ {r} : \/ stage'[x] = stage[x]
                                    \/ stage[x] = "queued" /\ stage'[x] = "calling"
    BY <2>1, FailedMoves
  <2>3. QED
    BY <2>1, <2>2, OneAnswered
<1>5. ASSUME NEW r \in Request, FinalizeWithOutput(r) \/ FinalizeRetry(r)
      PROVE  AnsweredOnce'
  <2>1. /\ stage[r] = "exited" /\ UNCHANGED <<replies, outcome>>
        /\ \/ stage' = [stage EXCEPT ![r] = "tags"]
           \/ stage' = [stage EXCEPT ![r] = "backoff"]
    BY <1>5 DEF FinalizeWithOutput, FinalizeRetry, Release
  <2>2. \A x \in Request : stage'[x] = "done" <=> stage[x] = "done"
    BY <1>1, <2>1
  <2>3. QED
    BY <2>1, <2>2, NobodyAnswered
<1>6. ASSUME NEW r \in Request, FinalizeCancelled(r)
      PROVE  AnsweredOnce'
  <2>1. stage[r] = "exited" /\ outcome' = outcome
    BY <1>6 DEF FinalizeCancelled, Release
  <2>2. CASE CancelReply(r)
    <3>1. stage' = [stage EXCEPT ![r] = "done"] /\ Replied(r)
      BY <2>2 DEF CancelReply
    <3>2. stage'[r] = "done" /\ \A x \in Request \ {r} : stage'[x] = stage[x]
      BY <1>1, <3>1
    <3>3. QED
      BY <2>1, <3>1, <3>2, OneAnswered
  <2>3. CASE stage' = [stage EXCEPT ![r] = "tags"] /\ UNCHANGED replies
    <3>1. \A x \in Request : stage'[x] = "done" <=> stage[x] = "done"
      BY <1>1, <2>1, <2>3
    <3>2. QED
      BY <2>1, <2>3, <3>1, NobodyAnswered
  <2>4. QED
    BY <1>6, <2>2, <2>3 DEF FinalizeCancelled
<1>7. ASSUME NEW r \in Request, Spawn(r)
      PROVE  AnsweredOnce'
  <2>1. /\ stage[r] = "admitted" /\ stage' = [stage EXCEPT ![r] = "running"]
        /\ outcome' = [outcome EXCEPT ![r] = "none"] /\ replies' = replies
    BY <1>7 DEF Spawn
  <2>2. outcome[r] # "spawnError"
    BY <2>1 DEF Holdings, SpawnErrorEnds
  <2>3. \A x \in Request : /\ stage'[x] = "done" <=> stage[x] = "done"
                           /\ outcome'[x] = "spawnError" <=> outcome[x] = "spawnError"
    BY <1>1, <2>1, <2>2
  <2>4. QED
    BY <2>1, <2>3, NobodyAnswered
\* The answer of the 'error' handler comes on top of the one of the 'close' handler.
<1>8. ASSUME NEW r \in Request, SpawnError(r)
      PROVE  AnsweredOnce'
  <2>1. /\ stage[r] = "admitted" /\ stage' = [stage EXCEPT ![r] = "exited"]
        /\ outcome' = [outcome EXCEPT ![r] = "spawnError"]
        /\ replies' = [replies EXCEPT ![r] = @ + 1]
    BY <1>8 DEF SpawnError, Replied
  <2>2. outcome[r] # "spawnError" /\ stage[r] # "done"
    BY <2>1 DEF Holdings, SpawnErrorEnds
  <2>3. /\ stage'[r] = "exited" /\ outcome'[r] = "spawnError"
        /\ replies'[r] = replies[r] + 1
        /\ \A x \in Request \ {r} : /\ stage'[x] = stage[x]
                                    /\ outcome'[x] = outcome[x]
                                    /\ replies'[x] = replies[x]
    BY <1>1, <2>1 DEF TypeOK
  <2>4. replies[r] = 0
    BY <2>2 DEF AnsweredOnce
  <2>5. replies'[r] = (IF stage'[r] = "done" THEN 1 ELSE 0)
                      + (IF outcome'[r] = "spawnError" THEN 1 ELSE 0)
    BY <2>3, <2>4
  <2>6. \A x \in Request \ {r} :
          replies'[x] = (IF stage'[x] = "done" THEN 1 ELSE 0)
                        + (IF outcome'[x] = "spawnError" THEN 1 ELSE 0)
    BY <2>3 DEF AnsweredOnce
  <2>7. QED
    BY <2>5, <2>6 DEF AnsweredOnce
<1>9. ASSUME NEW r \in Request, Dies(r)
      PROVE  AnsweredOnce'
  <2>1. /\ stage[r] = "running" /\ stage' = [stage EXCEPT ![r] = "exited"]
        /\ replies' = replies
    BY <1>9 DEF Dies
  <2>2. \A x \in Request : stage'[x] = "done" <=> stage[x] = "done"
    BY <1>1, <2>1
  <2>3. QED
    BY <1>9, <2>1, <2>2, DiesHoldings, NobodyAnswered
<1>10. ASSUME NEW c \in Conv, Abort(c)
       PROVE  AnsweredOnce'
  <2>1. UNCHANGED <<replies, outcome>>
    BY <1>10 DEF Abort
  <2>2. \A x \in Request : stage'[x] = "done" <=> stage[x] = "done"
    BY <1>10, AbortMoves
  <2>3. QED
    BY <2>1, <2>2, NobodyAnswered
<1>11. CASE ServerStep \/ \E c \in ConvKey : JobExpires(c)
  <2>1. UNCHANGED <<stage, replies, outcome>>
    BY <1>11 DEF ServerStep, RequestSafeRestart, GracefulShutdown, Exit, JobExpires, vars
  <2>2. QED
    BY <2>1, NobodyAnswered
<1>12. QED
  BY <1>2, <1>3, <1>4, <1>5, <1>6, <1>7, <1>8, <1>9, <1>10, <1>11
     DEF Next, Environment, Progress, ServerStep

-----------------------------------------------------------------------------
(* The theorems.                                                             *)

LEMMA InitIInv == Init => IInv
<1> SUFFICES ASSUME Init PROVE IInv
  OBVIOUS
<1>1. TypeOK
  BY InitType
<1>2. \A c \in ConvKey : /\ activeProcesses[c] = None /\ activeJobs[c] = None
                         /\ pendingMessages[c] = <<>>
  BY DEF Init
<1>3. \A r \in Request : stage[r] = "new" /\ outcome[r] = "none" /\ replies[r] = 0
  BY DEF Init
<1>4. (\A w \in Workspace : workspaceLocks[w] = Free) /\ signalled = {} /\ pids = {}
  BY DEF Init
<1>5. QueuedOnce
  BY <1>2, <1>3 DEF QueuedOnce
<1>6. ProcessEntryOwned /\ JobResumable /\ LockOwned
  BY <1>2, <1>4 DEF ProcessEntryOwned, JobResumable, LockOwned
<1>7. SpawnErrorEnds /\ SignalledAlive /\ PidsExact
  BY <1>3, <1>4 DEF SpawnErrorEnds, SignalledAlive, PidsExact, HasProcess
<1>8. AnsweredOnce
  <2> SUFFICES ASSUME NEW r \in Request
               PROVE  replies[r] = (IF stage[r] = "done" THEN 1 ELSE 0)
                                   + (IF outcome[r] = "spawnError" THEN 1 ELSE 0)
    BY DEF AnsweredOnce
  <2>1. stage[r] # "done" /\ outcome[r] # "spawnError" /\ replies[r] = 0
    BY <1>3
  <2>2. QED
    BY <2>1
<1>9. QED
  BY <1>1, <1>5, <1>6, <1>7, <1>8 DEF IInv, Holdings, Registered

LEMMA NextIInv == IInv /\ [Next]_vars => IInv'
<1> SUFFICES ASSUME IInv, [Next]_vars PROVE IInv'
  OBVIOUS
<1>1. TypeOK /\ QueuedOnce /\ Holdings /\ Registered /\ AnsweredOnce
  BY DEF IInv
<1>2. TypeOK'
  BY <1>1, NextType
<1>3. QueuedOnce' /\ Holdings' /\ Registered'
  BY <1>1, NextHoldings
<1>4. AnsweredOnce'
  BY <1>1, NextAnswered
<1>5. QED
  BY <1>2, <1>3, <1>4 DEF IInv

LEMMA InvariantHolds == Spec => []IInv
  BY InitIInv, NextIInv, PTL DEF Spec

\* No flush, retry, delegation turn or abort loses, duplicates or leaves behind
\* a queued request.
THEOREM QueuesSound == Spec => []QueuedOnce
<1>1. IInv => QueuedOnce
  BY DEF IInv
<1>2. QED
  BY <1>1, InvariantHolds, PTL

\* Whatever exit path, abort, stale cleanup or overwriting takes place, an entry of
\* activeProcesses is that of a process still to be finished under its own key.
THEOREM EntriesOwned == Spec => []ProcessEntryOwned
<1>1. IInv => ProcessEntryOwned
  BY DEF IInv, Holdings
<1>2. QED
  BY <1>1, InvariantHolds, PTL

\* A lock is always one that a process still to be finished will release.
THEOREM LocksOwned == Spec => []LockOwned
<1>1. IInv => LockOwned
  BY DEF IInv, Holdings
<1>2. QED
  BY <1>1, InvariantHolds, PTL

\* What a restart would resume was at work, or had been killed.
THEOREM JobsResumable == Spec => []JobResumable
<1>1. IInv => JobResumable
  BY DEF IInv, Holdings
<1>2. QED
  BY <1>1, InvariantHolds, PTL

\* The PID registry names the unfinished, unsignalled processes and no other.
THEOREM PidRegistryExact == Spec => []PidsExact
<1>1. IInv => PidsExact
  BY DEF IInv, Registered
<1>2. QED
  BY <1>1, InvariantHolds, PTL

\* Both: what the executor and the next boot believe of processes is true of them.
THEOREM ProcessesAreKnown == Spec => []ProcessesKnown
<1>1. Spec => []ProcessEntryOwned /\ []PidsExact
  BY EntriesOwned, PidRegistryExact
<1>2. ProcessEntryOwned /\ PidsExact => ProcessesKnown
  BY DEF ProcessesKnown
<1>3. QED
  BY <1>1, <1>2, PTL

\* One final callback for a finished request, and a second one only after a
\* spawn error.
THEOREM RequestsAnsweredOnce == Spec => []AnsweredOnce
<1>1. IInv => AnsweredOnce
  BY DEF IInv
<1>2. QED
  BY <1>1, InvariantHolds, PTL

-----------------------------------------------------------------------------
(* Who flushes a queue.  QueueServed does not hold of any requests: the run   *)
(* "stranded" shows what a shared workspace does to it.  It holds for each    *)
(* conversation that keeps to itself, whatever the others do.                 *)

\* Nobody of conversation k ends in a way that flushes nothing (an early return,
\* the auto-router, a self-restart) or goes on without its id (delegation), and
\* no workspace is shared between k and another conversation.
SelfContained(k) ==
    /\ \A r \in Request : "delegate" \in Traits[r] => k \notin {ConvOf[r], NoConv}
    /\ \A r \in Request : ConvOf[r] = k => Traits[r] \cap {"early", "route", "selfRestart"} = {}
    /\ \A r, q \in Request : WsOf[r] = Effective[WsOf[q]] => (ConvOf[r] = k <=> ConvOf[q] = k)

\* QueueServed, of one queue.
ServerOf(r, k) == conv[r] = k /\ (UnderWay(r) \/ r \in flushTimers)
Served(k) == pendingMessages[k] # <<>> => \E r \in Request : ServerOf(r, k)

\* The requests of k run under k, and nobody else does; nobody else waits in the
\* queue of k, so that the head a flush calls is the next to flush it.
Belongs(k) == \A r \in Request : conv[r] = k <=> ConvOf[r] = k
QueuedAtHome(k) == \A i \in DOMAIN pendingMessages[k] : conv[pendingMessages[k][i]] = k
TurnsEnd(k) == \A r \in Request : conv[r] = k => outcome[r] # "selfRestart"

ServedInv(k) == IInv /\ Belongs(k) /\ QueuedAtHome(k) /\ TurnsEnd(k) /\ Served(k)

\* A step that leaves the queue of k, and those who serve it, as they are.
LEMMA ServedKept ==
    ASSUME NEW k \in ConvKey, Belongs(k), QueuedAtHome(k), Served(k), TypeOK,
           conv' = conv, UNCHANGED pendingMessages,
           \A x \in Request : ServerOf(x, k) => ServerOf(x, k)'
    PROVE  Belongs(k)' /\ QueuedAtHome(k)' /\ Served(k)'
<1>1. Belongs(k)' /\ QueuedAtHome(k)'
  BY DEF Belongs, QueuedAtHome
<1>2. Served(k)'
  BY DEF Served
<1>3. QED
  BY <1>1, <1>2

\* A flush of any queue by a request that has done its part: the head it calls
\* serves the queue it leaves.
LEMMA ServedFlush ==
    ASSUME NEW k \in ConvKey, IInv, Belongs(k), QueuedAtHome(k), Served(k),
           NEW r \in Request, NEW st \in [Request -> Stage],
           Flush(conv[r], st), conv' = conv,
           \A x \in Request : st[x] = "queued" <=> stage[x] = "queued",
           \A x \in Request \ {r} : st[x] = stage[x],
           \A x \in Request \ {r} : x \in flushTimers => x \in flushTimers'
    PROVE  Belongs(k)' /\ QueuedAtHome(k)' /\ Served(k)'
<1> DEFINE c == conv[r]
           head == Head(pendingMessages[c])
<1>1. /\ TypeOK /\ QueuedOnce /\ c \in ConvKey
      /\ pendingMessages \in [ConvKey -> Seq(Request)]
  BY DEF IInv, TypeOK
<1>2. Belongs(k)'
  BY DEF Belongs
<1>3. \A x \in Request : \/ stage'[x] = st[x]
                         \/ st[x] = "queued" /\ stage'[x] = "calling"
  BY <1>1, FlushMoves
<1>4. \A x \in Request \ {r} : ServerOf(x, k) => ServerOf(x, k)'
  BY <1>3 DEF ServerOf, UnderWay
<1>5. CASE c # k
  <2>1. pendingMessages'[k] = pendingMessages[k]
    BY <1>1, <1>5 DEF Flush, Shift
  <2>2. QueuedAtHome(k)'
    BY <2>1 DEF QueuedAtHome
  <2>3. Served(k)'
    BY <1>4, <1>5, <2>1 DEF Served, ServerOf
  <2>4. QED
    BY <1>2, <2>2, <2>3
<1>6. CASE c = k /\ pendingMessages[k] = <<>>
  <2>1. pendingMessages' = pendingMessages
    BY <1>6 DEF Flush
  <2>2. QED
    BY <1>2, <1>6, <2>1 DEF QueuedAtHome, Served
<1>7. CASE c = k /\ pendingMessages[k] # <<>>
  <2>1. /\ pendingMessages[k] \in Seq(Request) /\ Len(pendingMessages[k]) \in Nat \ {0}
        /\ DOMAIN pendingMessages[k] = 1..Len(pendingMessages[k])
        /\ head = pendingMessages[k][1] /\ head \in Request
    BY <1>1, <1>7
  <2>2. /\ stage' = [st EXCEPT ![head] = "calling"]
        /\ pendingMessages'[k] = Tail(pendingMessages[k])
    BY <1>1, <1>7 DEF Flush, Shift
  <2>3. conv[head] = k
    BY <2>1 DEF QueuedAtHome
  <2>4. conv'[head] = k /\ stage'[head] = "calling"
    BY <2>1, <2>2, <2>3
  <2>5. Served(k)'
    BY <2>1, <2>4 DEF Served, ServerOf, UnderWay
  <2>6. /\ DOMAIN Tail(pendingMessages[k]) = 1..(Len(pendingMessages[k]) - 1)
        /\ \A i \in 1..(Len(pendingMessages[k]) - 1) :
             /\ i + 1 \in DOMAIN pendingMessages[k]
             /\ Tail(pendingMessages[k])[i] = pendingMessages[k][i + 1]
    BY <2>1
  <2>7. QueuedAtHome(k)'
    BY <2>2, <2>6 DEF QueuedAtHome
  <2>8. QED
    BY <1>2, <2>5, <2>7
<1>8. QED
  BY <1>5, <1>6, <1>7

\* What execute() finds the workspace locked for, in terms of its processes.
LEMMA BusyHolder ==
    ASSUME IInv, NEW r \in Request, BusyWorkspace(conv[r], WsOf[r])
    PROVE  LET h == CleanedLock(conv[r], WsOf[r])
           IN /\ h # conv[r]
              /\ \E x \in Request : Effective[WsOf[x]] = WsOf[r] /\ conv[x] = h
<1> DEFINE h == CleanedLock(conv[r], WsOf[r])
<1>1. WsOf[r] \in Workspace
  BY RequestAssumption
<1>2. h \notin {Free, conv[r]} /\ h = workspaceLocks[WsOf[r]]
  BY DEF BusyWorkspace, CleanedLock, LockAfterOwn
<1>3. \E x \in Request : Effective[WsOf[x]] = WsOf[r] /\ conv[x] = h
  BY <1>1, <1>2 DEF IInv, Holdings, LockOwned
<1>4. QED
  BY <1>2, <1>3

\* A message called in or with k waits, if at all, in its own queue, behind the
\* process that keeps its conversation busy.
LEMMA ExecuteServed ==
    ASSUME NEW k \in ConvKey, SelfContained(k), ServedInv(k), NEW r \in Request, Execute(r)
    PROVE  Belongs(k)' /\ QueuedAtHome(k)' /\ Served(k)'
<1> DEFINE c == conv[r]
           w == WsOf[r]
           key == IF BusyWorkspace(c, w) THEN CleanedLock(c, w) ELSE c
<1>1. /\ TypeOK /\ IInv /\ stage[r] = "calling" /\ UNCHANGED <<conv, flushTimers>>
      /\ stage \in [Request -> Stage] /\ c \in ConvKey
      /\ pendingMessages \in [ConvKey -> Seq(Request)]
  BY DEF ServedInv, IInv, Execute, TypeOK
<1>2. Belongs(k) /\ QueuedAtHome(k) /\ Served(k)
  BY DEF ServedInv
<1>3. BusyWorkspace(c, w) => c # k /\ CleanedLock(c, w) # k
  <2>1. SUFFICES ASSUME BusyWorkspace(c, w) PROVE c # k /\ CleanedLock(c, w) # k
    OBVIOUS
  <2>2. PICK x \in Request : Effective[WsOf[x]] = w /\ conv[x] = CleanedLock(c, w)
    BY <1>1, <2>1, BusyHolder
  <2>3. CleanedLock(c, w) # c
    BY <1>1, <2>1, BusyHolder
  <2>4. ConvOf[r] = k <=> ConvOf[x] = k
    BY <2>2 DEF SelfContained
  <2>5. c = k <=> conv[x] = k
    BY <1>2, <2>4 DEF Belongs
  <2>6. QED
    BY <2>2, <2>3, <2>5
<1>4. \A x \in Request \ {r} : stage'[x] = stage[x]
  BY <1>1 DEF Execute, Enqueue
<1>5. CASE c # k
  <2>1. key # k
    BY <1>3, <1>5
  <2>2. \/ UNCHANGED pendingMessages
        \/ pendingMessages' = [pendingMessages EXCEPT ![key] = Append(@, r)]
    BY DEF Execute, Enqueue
  <2> HIDE DEF key
  <2>3. pendingMessages'[k] = pendingMessages[k]
    BY <1>1, <2>1, <2>2
  <2>4. \A x \in Request : ServerOf(x, k) => ServerOf(x, k)'
    BY <1>1, <1>4, <1>5 DEF ServerOf, UnderWay
  <2>5. Served(k)'
    BY <1>2, <2>3, <2>4 DEF Served
  <2>6. QED
    BY <1>1, <1>2, <2>3, <2>5 DEF Belongs, QueuedAtHome
<1>6. CASE c = k /\ MustQueue(r)
  <2>1. ~BusyWorkspace(c, w) /\ BusyConv(c)
    BY <1>3, <1>6 DEF MustQueue
  <2>2. PICK p \in Request : HasProcess(p) /\ conv[p] = k
    BY <1>1, <1>6, <2>1 DEF BusyConv, IInv, Holdings, ProcessEntryOwned, TypeOK
  <2>3. ServerOf(p, k)'
    BY <1>1, <1>4, <2>2 DEF ServerOf, UnderWay, HasProcess
  <2>4. pendingMessages' = [pendingMessages EXCEPT ![k] = Append(@, r)]
    BY <1>6, <2>1 DEF Execute, Enqueue
  <2>5. pendingMessages'[k] = Append(pendingMessages[k], r) /\ pendingMessages[k] \in Seq(Request)
    BY <1>1, <2>4
  <2>6. \A i \in DOMAIN pendingMessages'[k] :
          \/ pendingMessages'[k][i] = r
          \/ i \in DOMAIN pendingMessages[k] /\ pendingMessages'[k][i] = pendingMessages[k][i]
    BY <2>5
  <2>7. QueuedAtHome(k)'
    BY <1>1, <1>2, <1>6, <2>6 DEF QueuedAtHome
  <2>8. Served(k)'
    BY <2>2, <2>3 DEF Served
  <2>9. QED
    BY <1>1, <1>2, <2>7, <2>8 DEF Belongs
<1>7. CASE c = k /\ ~MustQueue(r)
  <2>1. "route" \notin Traits[r]
    BY <1>2, <1>7 DEF SelfContained, Belongs
  <2>2. UNCHANGED pendingMessages /\ stage' = [stage EXCEPT ![r] = "admitted"]
    BY <1>7, <2>1 DEF Execute
  <2>3. \A x \in Request : ServerOf(x, k) => ServerOf(x, k)'
    BY <1>1, <2>2 DEF ServerOf, UnderWay
  <2>4. QED
    BY <1>1, <1>2, <2>2, <2>3, ServedKept
<1>8. QED
  BY <1>5, <1>6, <1>7

\* The steps that flush: an answer, or the timer of a cancelled run.
LEMMA FlushStepServed ==
    ASSUME NEW k \in ConvKey, ServedInv(k), NEW r \in Request,
           FinalizeFailed(r) \/ Complete(r) \/ FlushTimer(r)
    PROVE  Belongs(k)' /\ QueuedAtHome(k)' /\ Served(k)'
<1>1. /\ TypeOK /\ IInv /\ stage \in [Request -> Stage] /\ flushTimers \subseteq Request
      /\ Belongs(k) /\ QueuedAtHome(k) /\ Served(k)
  BY DEF ServedInv, IInv, TypeOK
<1>2. CASE FinalizeFailed(r) \/ Complete(r)
  <2> DEFINE st == [stage EXCEPT ![r] = "done"]
  <2>1. /\ stage[r] \in {"exited", "tags"} /\ conv' = conv /\ flushTimers' = flushTimers
        /\ Flush(conv[r], st)
    BY <1>2 DEF FinalizeFailed, Complete, Release
  <2>2. st \in [Request -> Stage]
    BY <1>1 DEF Stage
  <2>3. st[r] = "done" /\ \A x \in Request \ {r} : st[x] = stage[x]
    BY <1>1
  <2> HIDE DEF st
  <2>4. \A x \in Request : st[x] = "queued" <=> stage[x] = "queued"
    BY <2>1, <2>3
  <2>5. QED
    BY <1>1, <2>1, <2>2, <2>3, <2>4, ServedFlush
<1>3. CASE FlushTimer(r)
  <2>1. Flush(conv[r], stage) /\ conv' = conv /\ flushTimers' = flushTimers \ {r}
    BY <1>3 DEF FlushTimer
  <2>2. QED
    BY <1>1, <2>1, ServedFlush
<1>4. QED
  BY <1>2, <1>3

\* The steps of a process and of its request that flush nothing.
LEMMA RunStepServed ==
    ASSUME NEW k \in ConvKey, SelfContained(k), ServedInv(k), NEW r \in Request,
           \/ Submit(r) \/ RouteReply(r) \/ EarlyExit(r) \/ Spawn(r) \/ SpawnError(r) \/ Dies(r)
           \/ FinalizeWithOutput(r) \/ FinalizeRetry(r) \/ Retry(r) \/ CompleteSelfRestart(r)
    PROVE  Belongs(k)' /\ QueuedAtHome(k)' /\ Served(k)'
<1> USE DEF executorVars
<1>1. /\ TypeOK /\ stage \in [Request -> Stage]
      /\ Belongs(k) /\ QueuedAtHome(k) /\ Served(k) /\ TurnsEnd(k)
  BY DEF ServedInv, IInv, TypeOK
<1>2. UNCHANGED <<conv, pendingMessages, flushTimers>>
  BY DEF Submit, RouteReply, EarlyExit, Spawn, SpawnError, Dies, FinalizeWithOutput,
         FinalizeRetry, Retry, CompleteSelfRestart
<1>3. \A x \in Request \ {r} : stage'[x] = stage[x]
  BY <1>1 DEF Submit, RouteReply, EarlyExit, Spawn, SpawnError, Dies, FinalizeWithOutput,
         FinalizeRetry, Retry, CompleteSelfRestart
<1>4. ServerOf(r, k) => ServerOf(r, k)'
  <2>1. CASE \/ Submit(r) \/ RouteReply(r) \/ Spawn(r) \/ SpawnError(r) \/ Dies(r)
             \/ FinalizeWithOutput(r) \/ FinalizeRetry(r) \/ Retry(r)
    <3>1. UnderWay(r) => UnderWay(r)'
      BY <1>1, <2>1 DEF Submit, RouteReply, Spawn, SpawnError, Dies, FinalizeWithOutput,
                        FinalizeRetry, Retry, UnderWay, Release
    <3>2. QED
      BY <1>2, <3>1 DEF ServerOf
  <2>2. CASE EarlyExit(r)
    BY <1>1, <2>2 DEF EarlyExit, SelfContained, Belongs, ServerOf
  <2>3. CASE CompleteSelfRestart(r)
    BY <1>1, <2>3 DEF CompleteSelfRestart, TurnsEnd, ServerOf
  <2>4. QED
    BY <2>1, <2>2, <2>3
<1>5. \A x \in Request : ServerOf(x, k) => ServerOf(x, k)'
  BY <1>2, <1>3, <1>4 DEF ServerOf, UnderWay
<1>6. QED
  BY <1>1, <1>2, <1>5, ServedKept

\* A cancelled run leaves its queue to its flush timer.
LEMMA CancelServed ==
    ASSUME NEW k \in ConvKey, ServedInv(k), NEW r \in Request,
           FinalizeCancelled(r) \/ CompleteCancelled(r)
    PROVE  Belongs(k)' /\ QueuedAtHome(k)' /\ Served(k)'
<1> USE DEF executorVars
<1>1. /\ TypeOK /\ stage \in [Request -> Stage] /\ flushTimers \subseteq Request
      /\ Belongs(k) /\ QueuedAtHome(k) /\ Served(k)
  BY DEF ServedInv, IInv, TypeOK
<1>2. UNCHANGED <<conv, pendingMessages>>
  BY DEF FinalizeCancelled, CompleteCancelled
<1>3. CASE CancelReply(r)
  <2>1. CASE conv[r] = k /\ pendingMessages[k] # <<>>
    <3>1. r \in flushTimers'
      BY <1>3, <2>1 DEF CancelReply, ArmFlushTimer
    <3>2. Served(k)'
      BY <1>2, <2>1, <3>1 DEF Served, ServerOf
    <3>3. QED
      BY <1>1, <1>2, <3>2 DEF Belongs, QueuedAtHome
  <2>2. CASE conv[r] = k /\ pendingMessages[k] = <<>>
    BY <1>1, <1>2, <2>2 DEF Belongs, QueuedAtHome, Served
  <2>3. CASE conv[r] # k
    <3>1. /\ flushTimers \subseteq flushTimers'
          /\ \A x \in Request \ {r} : stage'[x] = stage[x]
      BY <1>3 DEF CancelReply, ArmFlushTimer
    <3>2. \A x \in Request : ServerOf(x, k) => ServerOf(x, k)'
      BY <1>2, <2>3, <3>1 DEF ServerOf, UnderWay
    <3>3. QED
      BY <1>1, <1>2, <3>2, ServedKept
  <2>4. QED
    BY <2>1, <2>2, <2>3
<1>4. CASE FinalizeCancelled(r) /\ stage' = [stage EXCEPT ![r] = "tags"]
           /\ UNCHANGED <<replies, flushTimers>>
  <2>1. \A x \in Request : ServerOf(x, k) => ServerOf(x, k)'
    BY <1>1, <1>2, <1>4 DEF ServerOf, UnderWay
  <2>2. QED
    BY <1>1, <1>2, <2>1, ServedKept
<1>5. QED
  BY <1>3, <1>4 DEF FinalizeCancelled, CompleteCancelled

\* A delegation turn is of another conversation, and flushes the queue of that one.
LEMMA DelegateServed ==
    ASSUME NEW k \in ConvKey, SelfContained(k), ServedInv(k), NEW r \in Request, Delegate(r)
    PROVE  Belongs(k)' /\ QueuedAtHome(k)' /\ Served(k)'
<1>1. /\ TypeOK /\ QueuedOnce /\ stage \in [Request -> Stage] /\ conv \in [Request -> ConvKey]
      /\ pendingMessages \in [ConvKey -> Seq(Request)]
      /\ Belongs(k) /\ QueuedAtHome(k) /\ Served(k)
  BY DEF ServedInv, IInv, TypeOK
<1>2. k \notin {ConvOf[r], NoConv} /\ conv[r] # k
  BY <1>1 DEF Delegate, SelfContained, Belongs
<1>3. /\ conv' = [conv EXCEPT ![r] = NoConv] /\ flushTimers' = flushTimers
      /\ pendingMessages'[k] = pendingMessages[k]
  BY <1>1, <1>2 DEF Delegate
<1>4. conv'[r] # k /\ \A x \in Request \ {r} : conv'[x] = conv[x]
  BY <1>1, <1>2, <1>3
<1>5. Belongs(k)'
  BY <1>1, <1>2, <1>4 DEF Belongs
<1>6. QueuedAtHome(k)'
  <2>1. \A i \in DOMAIN pendingMessages[k] :
          pendingMessages[k][i] \in Request /\ conv[pendingMessages[k][i]] = k
    BY <1>1, QueueElements DEF QueuedAtHome
  <2>2. QED
    BY <1>2, <1>3, <1>4, <2>1 DEF QueuedAtHome
<1>7. \A x \in Request : ServerOf(x, k) => ServerOf(x, k)'
  <2>1. \A x \in Request \ {r} : \/ stage'[x] = stage[x]
                                 \/ stage[x] = "queued" /\ stage'[x] = "calling"
    BY <1>1, DelegateMoves
  <2>2. QED
    BY <1>2, <1>3, <1>4, <2>1 DEF ServerOf, UnderWay
<1>8. Served(k)'
  BY <1>1, <1>3, <1>7 DEF Served
<1>9. QED
  BY <1>5, <1>6, <1>8

LEMMA AbortServed ==
    ASSUME NEW k \in ConvKey, ServedInv(k), NEW c \in Conv, Abort(c)
    PROVE  Belongs(k)' /\ QueuedAtHome(k)' /\ Served(k)'
<1>1. /\ TypeOK /\ QueuedOnce /\ pendingMessages \in [ConvKey -> Seq(Request)]
      /\ Belongs(k) /\ QueuedAtHome(k) /\ Served(k)
  BY DEF ServedInv, IInv, TypeOK
<1>2. /\ UNCHANGED <<conv, flushTimers>>
      /\ pendingMessages' = [pendingMessages EXCEPT ![c] = <<>>]
  BY DEF Abort
<1>3. Belongs(k)'
  BY <1>1, <1>2 DEF Belongs
<1>4. pendingMessages'[k] = <<>> \/ pendingMessages'[k] = pendingMessages[k]
  BY <1>1, <1>2
<1>5. QueuedAtHome(k)'
  BY <1>1, <1>2, <1>4 DEF QueuedAtHome
<1>6. \A x \in Request : ServerOf(x, k) => ServerOf(x, k)'
  BY <1>1, <1>2, AbortMoves DEF ServerOf, UnderWay
<1>7. Served(k)'
  BY <1>1, <1>4, <1>6 DEF Served
<1>8. QED
  BY <1>3, <1>5, <1>7

\* Only a process that ends sets an outcome to "selfRestart", and only its own.
LEMMA TurnsStillEnd ==
    ASSUME NEW k \in ConvKey, SelfContained(k), Belongs(k), Belongs(k)', TurnsEnd(k), TypeOK,
           [Next]_vars
    PROVE  TurnsEnd(k)'
<1> USE DEF requestVars, executorVars, restartVars
<1>1. SUFFICES ASSUME NEW x \in Request, conv'[x] = k
               PROVE  outcome'[x] # "selfRestart"
  BY DEF TurnsEnd
<1>2. outcome[x] # "selfRestart" /\ "selfRestart" \notin Traits[x]
  BY <1>1 DEF Belongs, TurnsEnd, SelfContained
<1>3. ASSUME NEW r \in Request, Dies(r)
      PROVE  outcome'[x] # "selfRestart"
  BY <1>2, <1>3 DEF Dies, TypeOK
<1>4. ASSUME NEW r \in Request, Spawn(r) \/ SpawnError(r)
      PROVE  outcome'[x] # "selfRestart"
  BY <1>2, <1>4 DEF Spawn, SpawnError, TypeOK
<1>5. ASSUME NEW r \in Request, Progress(r), ~(Spawn(r) \/ SpawnError(r))
      PROVE  outcome' = outcome
  BY <1>5 DEF Progress, Execute, RouteReply, FinalizeWithOutput, FinalizeCancelled,
              FinalizeRetry, FinalizeFailed, Retry, Complete, Delegate, CompleteCancelled,
              CompleteSelfRestart, FlushTimer
<1>6. CASE \/ \E r \in Request : Submit(r) \/ EarlyExit(r)
           \/ \E c \in Conv : Abort(c)
           \/ \E c \in ConvKey : JobExpires(c)
           \/ RequestSafeRestart \/ GracefulShutdown \/ Exit \/ UNCHANGED vars
  BY <1>2, <1>6 DEF Submit, EarlyExit, Abort, JobExpires, RequestSafeRestart,
                    GracefulShutdown, Exit, vars
<1>7. QED
  BY <1>2, <1>3, <1>4, <1>5, <1>6 DEF Next, Environment

LEMMA NextServed ==
    ASSUME NEW k \in ConvKey, SelfContained(k), ServedInv(k), [Next]_vars
    PROVE  ServedInv(k)'
<1>1. IInv' /\ TypeOK /\ Belongs(k) /\ QueuedAtHome(k) /\ Served(k)
  BY NextIInv DEF ServedInv, IInv
<1>2. ASSUME NEW r \in Request, Progress(r) \/ Submit(r) \/ EarlyExit(r) \/ Dies(r)
      PROVE  Belongs(k)' /\ QueuedAtHome(k)' /\ Served(k)'
  BY <1>2, ExecuteServed, FlushStepServed, RunStepServed, CancelServed, DelegateServed
     DEF Progress
<1>3. ASSUME NEW c \in Conv, Abort(c)
      PROVE  Belongs(k)' /\ QueuedAtHome(k)' /\ Served(k)'
  BY <1>3, AbortServed
<1>4. ASSUME ServerStep \/ \E c \in ConvKey : JobExpires(c)
      PROVE  Belongs(k)' /\ QueuedAtHome(k)' /\ Served(k)'
  <2>1. UNCHANGED <<stage, conv, pendingMessages, flushTimers>>
    BY <1>4 DEF ServerStep, RequestSafeRestart, GracefulShutdown, Exit, JobExpires, vars,
                requestVars, executorVars
  <2>2. \A x \in Request : ServerOf(x, k) => ServerOf(x, k)'
    BY <2>1 DEF ServerOf, UnderWay
  <2>3. QED
    BY <1>1, <2>1, <2>2, ServedKept
<1>5. Belongs(k)' /\ QueuedAtHome(k)' /\ Served(k)'
  BY <1>2, <1>3, <1>4 DEF Next, Environment, ServerStep
<1>6. TurnsEnd(k)'
  BY <1>1, <1>5, TurnsStillEnd DEF ServedInv
<1>7. QED
  BY <1>1, <1>5, <1>6 DEF ServedInv

LEMMA InitServed ==
    ASSUME NEW k \in ConvKey, Init
    PROVE  ServedInv(k)
<1>1. /\ IInv /\ conv = ConvOf /\ pendingMessages[k] = <<>>
      /\ \A r \in Request : outcome[r] = "none"
  BY InitIInv DEF Init
<1>2. QED
  BY <1>1 DEF ServedInv, Belongs, QueuedAtHome, TurnsEnd, Served

\* Whatever the other conversations do, the queue of one that keeps to itself is
\* never left to nobody: whoever waits in it has a request under way before it,
\* or an armed flush timer, that will call the next.
THEOREM ConversationServed ==
    ASSUME NEW k \in ConvKey, SelfContained(k)
    PROVE  Spec => []Served(k)
<1>1. Init => ServedInv(k)
  BY InitServed
<1>2. ServedInv(k) /\ [Next]_vars => ServedInv(k)'
  BY NextServed
<1>3. ServedInv(k) => Served(k)
  BY DEF ServedInv
<1>4. QED
  BY <1>1, <1>2, <1>3, PTL DEF Spec

\* QueueServed, for every queue: where all conversations keep to themselves, no
\* flush, failure, cancellation, retry or abort leaves a message nobody will call.
THEOREM QueuesServed ==
    ASSUME \A k \in ConvKey : SelfContained(k)
    PROVE  Spec => []QueueServed
<1> DEFINE AllServed == \A k \in ConvKey : ServedInv(k)
<1>1. Init => AllServed
  BY InitServed
<1>2. AllServed /\ [Next]_vars => AllServed'
  BY NextServed
<1>3. AllServed => QueueServed
  BY DEF ServedInv, Served, ServerOf, QueueServed
<1> HIDE DEF AllServed
<1>4. QED
  BY <1>1, <1>2, <1>3, PTL DEF Spec

-----------------------------------------------------------------------------
(* Who is rejected.                                                          *)

\* A request runs under its own conversation id, or, in a delegation turn, under none.
OwnConv ==
    \A r \in Request : \/ conv[r] = ConvOf[r]
                       \/ conv[r] = NoConv /\ "delegate" \in Traits[r]

LEMMA NextOwnConv ==
    ASSUME TypeOK, OwnConv, [Next]_vars
    PROVE  OwnConv'
<1> USE DEF requestVars
<1>1. ASSUME NEW r \in Request, Delegate(r)
      PROVE  OwnConv'
  <2>1. conv' = [conv EXCEPT ![r] = NoConv] /\ "delegate" \in Traits[r]
    BY <1>1 DEF Delegate
  <2>2. conv'[r] = NoConv /\ \A x \in Request \ {r} : conv'[x] = conv[x]
    BY <2>1 DEF TypeOK
  <2>3. QED
    BY <2>1, <2>2 DEF OwnConv
<1>2. ASSUME NEW r \in Request, Progress(r), ~Delegate(r)
      PROVE  conv' = conv
  BY <1>2 DEF Progress, Execute, RouteReply, Spawn, SpawnError, FinalizeWithOutput,
              FinalizeCancelled, FinalizeRetry, FinalizeFailed, Retry, Complete,
              CompleteCancelled, CompleteSelfRestart, FlushTimer
<1>3. CASE \/ \E r \in Request : Submit(r) \/ EarlyExit(r) \/ Dies(r)
           \/ \E c \in Conv : Abort(c)
           \/ \E c \in ConvKey : JobExpires(c)
           \/ RequestSafeRestart \/ GracefulShutdown \/ Exit \/ UNCHANGED vars
  BY <1>3 DEF OwnConv, Submit, EarlyExit, Dies, Abort, JobExpires, RequestSafeRestart,
              GracefulShutdown, Exit, vars
<1>4. QED
  BY <1>1, <1>2, <1>3 DEF OwnConv, Next, Environment

\* Only execute() rejects, and only if the lock it finds is of no conversation.
LEMMA ExecuteRejects ==
    ASSUME IInv, OwnConv, RejectedBehindDelegation, NEW r \in Request, Execute(r)
    PROVE  RejectedBehindDelegation'
<1>1. stage \in [Request -> Stage] /\ stage[r] = "calling"
  BY DEF IInv, TypeOK, Execute
<1>2. \A x \in Request \ {r} : stage'[x] = stage[x]
  BY <1>1 DEF Execute, Enqueue
<1>3. ASSUME stage'[r] = "rejected"
      PROVE  \E x \in Request \ {r} : "delegate" \in Traits[x] /\ Effective[WsOf[x]] = WsOf[r]
  <2>1. BusyWorkspace(conv[r], WsOf[r]) /\ CleanedLock(conv[r], WsOf[r]) = NoConv
    BY <1>1, <1>3 DEF Execute, Enqueue
  <2>2. /\ conv[r] # NoConv
        /\ \E x \in Request : Effective[WsOf[x]] = WsOf[r] /\ conv[x] = NoConv
    BY <2>1, BusyHolder
  <2>3. \A x \in Request : ConvOf[x] # NoConv
    BY RequestAssumption, SentinelAssumption
  <2>4. QED
    BY <2>2, <2>3 DEF OwnConv
<1>4. QED
  BY <1>2, <1>3 DEF RejectedBehindDelegation

LEMMA NextRejects ==
    ASSUME IInv, OwnConv, RejectedBehindDelegation, [Next]_vars
    PROVE  RejectedBehindDelegation'
<1> USE DEF requestVars, executorVars, restartVars
<1>1. TypeOK /\ QueuedOnce /\ stage \in [Request -> Stage] /\ conv \in [Request -> ConvKey]
  BY DEF IInv, TypeOK
<1>2. SUFFICES ASSUME \A r \in Request : ~Execute(r)
               PROVE  \A x \in Request : stage'[x] = "rejected" => stage[x] = "rejected"
  BY <1>1, ExecuteRejects DEF RejectedBehindDelegation
<1>3. ASSUME NEW r \in Request,
             Finished(r) \/ Delegate(r) \/ Complete(r) \/ FlushTimer(r)
      PROVE  \A x \in Request : stage'[x] = "rejected" => stage[x] = "rejected"
  <2>1. CASE Finished(r)
    BY <2>1 DEF Finished
  <2>2. CASE Delegate(r)
    BY <1>1, <2>2, DelegateMoves
  <2>3. CASE Complete(r)
    <3>1. stage[r] # "queued" /\ Flush(conv[r], [stage EXCEPT ![r] = "done"])
      BY <2>3 DEF Complete
    <3>2. QED
      BY <1>1, <3>1, FailedMoves
  <2>4. CASE FlushTimer(r)
    BY <1>1, <2>4, FlushMoves DEF FlushTimer
  <2>5. QED
    BY <1>3, <2>1, <2>2, <2>3, <2>4
<1>4. ASSUME NEW r \in Request,
             \/ Submit(r) \/ RouteReply(r) \/ EarlyExit(r) \/ Spawn(r) \/ SpawnError(r)
             \/ Dies(r) \/ Retry(r) \/ CompleteCancelled(r) \/ CompleteSelfRestart(r)
      PROVE  \A x \in Request : stage'[x] = "rejected" => stage[x] = "rejected"
  BY <1>1, <1>4 DEF Submit, RouteReply, EarlyExit, Spawn, SpawnError, Dies, Retry,
                    CompleteCancelled, CancelReply, CompleteSelfRestart
<1>5. ASSUME NEW c \in Conv, Abort(c)
      PROVE  \A x \in Request : stage'[x] = "rejected" => stage[x] = "rejected"
  BY <1>1, <1>5, AbortMoves
<1>6. CASE ServerStep \/ \E c \in ConvKey : JobExpires(c)
  BY <1>6 DEF ServerStep, RequestSafeRestart, GracefulShutdown, Exit, JobExpires, vars
<1>7. ASSUME NEW r \in Request,
             \/ FinalizeWithOutput(r) \/ FinalizeCancelled(r)
             \/ FinalizeRetry(r) \/ FinalizeFailed(r)
      PROVE  Finished(r)
  BY <1>1, <1>7, FinalizeFinishes
<1>8. QED
  BY <1>2, <1>3, <1>4, <1>5, <1>6, <1>7 DEF Next, Environment, Progress, ServerStep

LEMMA OwnConvHolds == Spec => []OwnConv
<1>1. Init => OwnConv
  BY DEF Init, OwnConv
<1>2. IInv /\ OwnConv /\ [Next]_vars => OwnConv'
  BY NextOwnConv DEF IInv
<1>3. QED
  BY <1>1, <1>2, InvariantHolds, PTL DEF Spec

\* execute() throws away a message only because the follow-up turn of a delegation
\* has locked its workspace; without delegation it rejects nobody.
THEOREM RejectionsExplained == Spec => []RejectedBehindDelegation
<1>1. Init => RejectedBehindDelegation
  BY DEF Init, RejectedBehindDelegation
<1>2. IInv /\ OwnConv /\ RejectedBehindDelegation /\ [Next]_vars => RejectedBehindDelegation'
  BY NextRejects
<1>3. QED
  BY <1>1, <1>2, InvariantHolds, OwnConvHolds, PTL DEF Spec
=============================================================================
