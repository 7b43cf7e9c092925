------------------------------ MODULE Gateway -------------------------------
(***************************************************************************)
(* GatewayWebSocketServer: browser connections select conversations, send  *)
(* messages and abort; each message goes to the executor with callbacks    *)
(* that record the answer in its conversation and stream it to the sender  *)
(* or, once that connection is closed, to whoever watches the conversation *)
(* or to a buffer that a later selection replays.                          *)
(*                                                                         *)
(* The executor is seen through what the gateway uses: isRunning, its      *)
(* queue and the callbacks.  Connections are never reopened: a browser     *)
(* that comes back is a new one.                                           *)
(***************************************************************************)
EXTENDS Conversations, Naturals, Sequences, FiniteSets

CONSTANTS
    Client,         \* connections
    Conv,           \* conversation ids, those of the inter-agent ones included
    AgentConv,      \* ids that start with 'ia-'
    Workspace,
    Message,        \* user messages, by messageId
    WsOf,           \* the workspace the browser sends each message to
    NoClient,
    NoMessage,
    NoBuffer

ASSUME GatewayAssumption ==
    /\ AgentConv \subseteq Conv /\ IsFiniteSet(AgentConv)
    /\ NoConv \notin Conv
    /\ WsOf \in [Message -> Workspace]
    /\ NoClient \notin Client /\ NoMessage \notin Message
    /\ NoBuffer \notin [processing : BOOLEAN, text : SUBSET Message]
    /\ MaxPerWorkspace \in Nat \ {0}

VARIABLES
    gwSocket,      \* state of each connection
    gwViewing,     \* client.conversationId; it survives the connection
    gwProcessing,  \* client._processing: the heartbeat leaves it alone
    gwData,        \* the conversations
    gwMade,        \* ids handed out: Date.now() does not come back
    gwSeen,        \* _dedupCache; a resend comes within its five minutes
    gwRun,         \* what the executor does with each message
    gwSender,      \* the connection whose handler passed the message on
    gwConv,        \* activeConvId, as that handler captured it
    gwCall,        \* messages whose handler still awaits execute()
    gwQueue,       \* the executor's queue of each conversation
    gwActive,      \* _activeAgents: workspace -> runs counted
    gwBuffer,      \* _resumeBuffers
    gwText         \* history: where the text of each message has gone

gwClients == <<gwSocket, gwViewing, gwProcessing>>
gwExecutor == <<gwRun, gwSender, gwConv, gwCall, gwQueue, gwActive>>
gwVars == <<gwClients, gwData, gwMade, gwSeen, gwExecutor, gwBuffer, gwText>>

\* "ending": the process is gone, or aborted, and its finalization is awaited.
Run == {"new", "queued", "running", "ending", "finished", "dropped"}
Text == {"unwritten", "shown", "buffered", "expired"}
Buffer == [processing : BOOLEAN, text : SUBSET Message]
Said == [role : {"user", "assistant"}, of : Message \cup {NoMessage}]
Conversation(others) == [ws : Workspace, messages : Seq(Said), older : SUBSET others]

GatewayTypeOK ==
    /\ gwSocket \in [Client -> {"new", "open", "closed"}]
    /\ gwViewing \in [Client -> Conv \cup {NoConv}]
    /\ gwProcessing \in [Client -> BOOLEAN]
    /\ Ids(gwData) \subseteq gwMade /\ gwMade \subseteq Conv
    /\ \A v \in Ids(gwData) : gwData[v] \in Conversation(Ids(gwData))
    /\ gwSeen \subseteq Message
    /\ gwRun \in [Message -> Run]
    /\ gwSender \in [Message -> Client \cup {NoClient}]
    /\ gwConv \in [Message -> Conv \cup {NoConv}]
    /\ gwCall \subseteq Message
    /\ gwQueue \in [Conv -> Seq(Message)]
    /\ gwActive \in [Workspace -> Nat]
    /\ gwBuffer \in [Conv -> Buffer \cup {NoBuffer}]
    /\ gwText \in [Message -> Text]

\* The server has read a file with the inter-agent conversations only; how these
\* are ordered decides nothing.
Loaded(w) ==
    [v \in AgentConv |->
        [ws |-> w, messages |-> <<[role |-> "user", of |-> NoMessage]>>, older |-> {}]]

GatewayInit ==
    /\ gwSocket = [c \in Client |-> "new"]
    /\ gwViewing = [c \in Client |-> NoConv]
    /\ gwProcessing = [c \in Client |-> FALSE]
    /\ gwData \in {Loaded(w) : w \in Workspace}
    /\ gwMade = AgentConv
    /\ gwSeen = {}
    /\ gwRun = [m \in Message |-> "new"]
    /\ gwSender = [m \in Message |-> NoClient]
    /\ gwConv = [m \in Message |-> NoConv]
    /\ gwCall = {}
    /\ gwQueue = [v \in Conv |-> <<>>]
    /\ gwActive = [w \in Workspace |-> 0]
    /\ gwBuffer = [v \in Conv |-> NoBuffer]
    /\ gwText = [m \in Message |-> "unwritten"]

Open(c) == gwSocket[c] = "open"
RunningIn(run, v) == \E m \in Message : run[m] = "running" /\ gwConv[m] = v
IsRunning(v) == RunningIn(gwRun, v)
Watched(v) == \E c \in Client : Open(c) /\ gwViewing[c] = v

-----------------------------------------------------------------------------
(* Connections and selection.                                               *)

Connect(c) ==
    /\ gwSocket[c] = "new"
    /\ gwSocket' = [gwSocket EXCEPT ![c] = "open"]
    /\ UNCHANGED <<gwViewing, gwProcessing, gwData, gwMade, gwSeen, gwExecutor, gwBuffer, gwText>>

\* 'close' or 'error'; the heartbeat closes a silent connection as well, unless
\* it is processing.
Disconnect(c) ==
    /\ Open(c)
    /\ gwSocket' = [gwSocket EXCEPT ![c] = "closed"]
    /\ UNCHANGED <<gwViewing, gwProcessing, gwData, gwMade, gwSeen, gwExecutor, gwBuffer, gwText>>

\* A completed buffer is replayed and deleted, that of a running job replayed
\* and kept; one without text is not replayed at all.
Replayed(v) == IF gwBuffer[v] = NoBuffer THEN {} ELSE gwBuffer[v].text
Spent(v) == gwBuffer[v] # NoBuffer /\ ~gwBuffer[v].processing /\ gwBuffer[v].text # {}

\* Mutant: a buffer is deleted when a connection looks at it.
SelectAndClear(c, v) ==
    /\ Open(c)
    /\ gwViewing' = [gwViewing EXCEPT ![c] = v]
    /\ gwBuffer' = [gwBuffer EXCEPT ![v] = NoBuffer]
    /\ gwText' = [m \in Message |-> IF Spent(v) /\ m \in Replayed(v) THEN "shown" ELSE gwText[m]]
    /\ UNCHANGED <<gwSocket, gwProcessing, gwData, gwMade, gwSeen, gwExecutor>>

Select(c, v) ==
    /\ Open(c)
    /\ gwViewing' = [gwViewing EXCEPT ![c] = v]
    /\ gwBuffer' = IF Spent(v) THEN [gwBuffer EXCEPT ![v] = NoBuffer] ELSE gwBuffer
    /\ gwText' = [m \in Message |-> IF m \in Replayed(v) THEN "shown" ELSE gwText[m]]
    /\ UNCHANGED <<gwSocket, gwProcessing, gwData, gwMade, gwSeen, gwExecutor>>

-----------------------------------------------------------------------------
(* Delivery of one event of message m.                                      *)

Receives(m) == Open(gwSender[m]) \/ Watched(gwConv[m])

\* broadcastToConversation without a watcher: text is kept, a final event
\* marks the buffer completed, and a completed buffer is not reopened.
Buffered(buf, text, final) ==
    LET old == IF buf = NoBuffer THEN [processing |-> TRUE, text |-> {}] ELSE buf
    IN [processing |-> old.processing /\ ~final, text |-> old.text \cup text]

Deliver(m, text, final) ==
    IF Receives(m) THEN gwBuffer ELSE [gwBuffer EXCEPT ![gwConv[m]] = Buffered(@, text, final)]

\* The agent writes.
Stream(m) ==
    /\ gwRun[m] = "running"
    /\ gwText[m] = "unwritten"
    /\ gwBuffer' = Deliver(m, {m}, FALSE)
    /\ gwText' = [gwText EXCEPT ![m] = IF Receives(m) THEN "shown" ELSE "buffered"]
    /\ UNCHANGED <<gwClients, gwData, gwMade, gwSeen, gwExecutor>>

-----------------------------------------------------------------------------
(* Messages.                                                                *)

\* Mutant: no floor.
IdledBelow(count) == count - 1
\* _markAgentIdle
Idled(count) == IF count <= 1 THEN 0 ELSE count - 1

Fresh == Conv \ (AgentConv \cup gwMade)
\* The canonical conversation of the workspace, or a new one.
Target(m) ==
    LET v == Canonical(gwData, WsOf[m], AgentConv)
    IN IF v # NoConv THEN {v} ELSE Fresh
WithUser(m, v) ==
    AddMessage(IF v \in Ids(gwData) THEN gwData ELSE Create(gwData, v, WsOf[m]),
               v, [role |-> "user", of |-> m])

\* Mutant: the id is looked up and not stored.
Forgotten(m) == UNCHANGED gwSeen
Remembered(m) == gwSeen' = gwSeen \cup {m}

\* _handleSendMessage up to its await.  A message seen before is answered with
\* 'duplicate'; what execute() may throw is left to AgentExecutor.
Send(c, m) ==
    /\ Open(c)
    /\ m \notin gwSeen
    /\ Remembered(m)
    /\ \E v \in Target(m) :
          /\ gwViewing' = [gwViewing EXCEPT ![c] = v]
          /\ gwData' = WithUser(m, v)
          /\ gwMade' = gwMade \cup {v}
          /\ gwSender' = [gwSender EXCEPT ![m] = c]
          /\ gwConv' = [gwConv EXCEPT ![m] = v]
          /\ gwProcessing' = [gwProcessing EXCEPT ![c] = TRUE]
          /\ IF IsRunning(v)
             THEN \* execute() queues the message and returns
                  /\ gwRun' = [gwRun EXCEPT ![m] = "queued"]
                  /\ gwQueue' = [gwQueue EXCEPT ![v] = Append(@, m)]
                  /\ UNCHANGED <<gwCall, gwActive>>
             ELSE /\ gwRun' = [gwRun EXCEPT ![m] = "running"]
                  /\ gwCall' = gwCall \cup {m}
                  /\ gwActive' = [gwActive EXCEPT ![WsOf[m]] = @ + 1]
                  /\ UNCHANGED gwQueue
    /\ UNCHANGED <<gwSocket, gwBuffer, gwText>>

\* The run ends; from here on its conversation is free.
Exit(m) ==
    /\ gwRun[m] = "running"
    /\ gwRun' = [gwRun EXCEPT ![m] = "ending"]
    /\ UNCHANGED <<gwClients, gwData, gwMade, gwSeen, gwSender, gwConv, gwCall, gwQueue,
                   gwActive, gwBuffer, gwText>>

\* abort: the queue of the conversation the connection views is thrown away.
Abort(c) ==
    LET v == gwViewing[c]
    IN /\ Open(c)
       /\ v # NoConv
       /\ IsRunning(v)
       /\ gwRun' = [m \in Message |->
              IF gwRun[m] = "running" /\ gwConv[m] = v THEN "ending"
              ELSE IF \E i \in DOMAIN gwQueue[v] : gwQueue[v][i] = m THEN "dropped"
              ELSE gwRun[m]]
       /\ gwQueue' = [gwQueue EXCEPT ![v] = <<>>]
       /\ UNCHANGED <<gwClients, gwData, gwMade, gwSeen, gwSender, gwConv, gwCall,
                      gwActive, gwBuffer, gwText>>

\* The executor hands the conversation to the head of its queue and execute()
\* of m resolves: its handler, if it still waits, marks the agent idle unless
\* the conversation is busy again.  Nobody waits for a run from the queue.
AfterRun(m, processing, active) ==
    LET v == gwConv[m]
        next == {n \in Message : gwQueue[v] # <<>> /\ n = Head(gwQueue[v])}
        run == [n \in Message |-> IF n = m THEN "finished"
                                  ELSE IF n \in next THEN "running" ELSE gwRun[n]]
        idle == m \in gwCall /\ ~RunningIn(run, v)
    IN /\ gwRun' = run
       /\ gwQueue' = [gwQueue EXCEPT ![v] = IF next = {} THEN @ ELSE Tail(@)]
       /\ gwCall' = gwCall \ {m}
       /\ gwProcessing' = IF idle THEN [processing EXCEPT ![gwSender[m]] = FALSE]
                          ELSE processing
       /\ gwActive' = IF idle THEN [active EXCEPT ![WsOf[m]] = Idled(@)] ELSE active
       /\ UNCHANGED <<gwSocket, gwViewing, gwSeen, gwMade, gwSender, gwConv, gwText>>

Answered(v, m) ==
    IF gwText[m] = "unwritten" THEN gwData
    ELSE AddMessage(gwData, v, [role |-> "assistant", of |-> m])

\* Mutant: the answer goes to the conversation the sender views by now.
CompleteWhereViewed(m) ==
    /\ gwRun[m] = "ending"
    /\ gwData' = Answered(gwViewing[gwSender[m]], m)
    /\ gwBuffer' = Deliver(m, {}, TRUE)
    /\ AfterRun(m, gwProcessing, gwActive)

\* onComplete, with 'complete' and, unless a message is queued, 'done'.
Complete(m) ==
    /\ gwRun[m] = "ending"
    /\ gwData' = Answered(gwConv[m], m)
    /\ gwBuffer' = Deliver(m, {}, TRUE)
    /\ AfterRun(m, gwProcessing, gwActive)

\* onError, with 'error' and 'done'; the idle mark is made here and, if the
\* handler still waits, once more when execute() resolves.
Fail(m) ==
    /\ gwRun[m] = "ending"
    /\ gwBuffer' = Deliver(m, {}, TRUE)
    /\ AfterRun(m, [gwProcessing EXCEPT ![gwSender[m]] = FALSE],
                   [gwActive EXCEPT ![WsOf[m]] = Idled(@)])
    /\ UNCHANGED gwData

-----------------------------------------------------------------------------
(* What else changes conversations, and the cleanup of buffers.             *)

EditData(data) ==
    /\ gwData' = data
    /\ gwMade' = gwMade \cup Ids(data)
    /\ UNCHANGED <<gwClients, gwSeen, gwExecutor, gwBuffer, gwText>>

\* POST and DELETE /api/conversations.
CreateChat(w) == \E v \in Fresh : EditData(Create(gwData, v, w))
DeleteChat(v) == v \in Ids(gwData) /\ EditData(Without(gwData, {v}))

\* The cron job 'conversation_cleanup'.
PruneChats ==
    \E aged \in SUBSET Ids(gwData) :
        \E data \in Pruned(gwData, aged, AgentConv) : EditData(data)

\* Five minutes after its completion a buffer is dropped.
ExpireBuffer(v) ==
    /\ gwBuffer[v] # NoBuffer
    /\ ~gwBuffer[v].processing
    /\ gwBuffer' = [gwBuffer EXCEPT ![v] = NoBuffer]
    /\ gwText' = [m \in Message |-> IF m \in gwBuffer[v].text THEN "expired" ELSE gwText[m]]
    /\ UNCHANGED <<gwClients, gwData, gwMade, gwSeen, gwExecutor>>

GatewayNext ==
    \/ \E c \in Client :
          \/ Connect(c) \/ Disconnect(c) \/ Abort(c)
          \/ \E v \in gwMade : Select(c, v)
          \/ \E m \in Message : Send(c, m)
    \/ \E m \in Message : Stream(m) \/ Exit(m) \/ Complete(m) \/ Fail(m)
    \/ \E w \in Workspace : CreateChat(w)
    \/ \E v \in Conv : DeleteChat(v) \/ ExpireBuffer(v)
    \/ PruneChats

-----------------------------------------------------------------------------
Holds(c, role, m) == \E i \in DOMAIN c.messages : c.messages[i] = [role |-> role, of |-> m]

\* An answer is recorded where its question is, whatever its sender has
\* selected, deleted or sent since.
AnswerBesideQuestion ==
    \A v \in Ids(gwData), m \in Message :
        Holds(gwData[v], "assistant", m) => Holds(gwData[v], "user", m)

\* A message sent again, by the same connection or after a reconnection, is
\* neither recorded nor run a second time.
MessageOnce ==
    \A m \in Message, u, v \in Ids(gwData) :
        \A i \in DOMAIN gwData[u].messages, j \in DOMAIN gwData[v].messages :
            /\ gwData[u].messages[i] = [role |-> "user", of |-> m]
            /\ gwData[v].messages[j] = [role |-> "user", of |-> m]
            => u = v /\ i = j

\* Text nobody could receive stays replayable until a selection has shown it
\* or five minutes have passed.
TextKept ==
    \A m \in Message : gwText[m] = "buffered" =>
        gwBuffer[gwConv[m]] # NoBuffer /\ m \in gwBuffer[gwConv[m]].text

\* One conversation per agent: while it has messages and is not deleted, the
\* conversation a workspace writes to stays the same.
CanonicalKept ==
    \A w \in Workspace :
        LET v == Canonical(gwData, w, AgentConv)
        IN (v # NoConv /\ gwData[v].messages # <<>> /\ v \in Ids(gwData'))
               => Canonical(gwData', w, AgentConv) = v
CanonicalStable == [][CanonicalKept]_gwVars
=============================================================================
