------------------------------ MODULE Provider ------------------------------
(***************************************************************************)
(* The agentic loop of the API providers (agent/providers/openai-provider  *)
(* and ollama-provider): requests with the conversation so far, answers    *)
(* that stream text or ask for tools, the tools that run between two       *)
(* requests, and the object with the interface of a child process through  *)
(* which executor.js reads the run and kills it.                           *)
(***************************************************************************)
EXTENDS Naturals, Sequences, FiniteSets

CONSTANTS
    maxTurns,       \* requests of a run
    maxCalls        \* bound: tool calls of one answer

ASSUME ProviderAssumption == maxTurns \in Nat \ {0} /\ maxCalls \in Nat

VARIABLES
    vendor,         \* "openai" or "ollama"
    turn,           \* the number of the request
    phase,          \* what the network does: "request", "stream", "refused", "over"
    calls,          \* how many tools the answer that streams asks for so far
    history,        \* the messages after the user's, as role and call id
    ui,             \* tool events written, as kind and call id
    results,        \* result events written
    output,         \* stdout and stderr: "open", "ended", "destroyed"
    closed          \* the executor was told 'close' and finalizes the run

providerVars == <<vendor, turn, phase, calls, history, ui, results, output, closed>>

RunKilled == output = "destroyed"

\* The end of the run: a result event, then the end of both streams.
FinishRun ==
    /\ phase' = "over"
    /\ results' = results + 1
    /\ output' = "ended"

\* runTurn.
\* Mutant: the limit ends the output, and the request is sent all the same.
TurnOverLimit ==
    /\ turn' = turn + 1
    /\ calls' = 0
    /\ phase' = "request"
    /\ IF turn = maxTurns
       THEN results' = results + 1 /\ output' = "ended"
       ELSE UNCHANGED <<results, output>>

\* Mutant: one request more than the limit.
TurnAfterLimit ==
    /\ turn' = turn + 1
    /\ calls' = 0
    /\ IF turn > maxTurns
       THEN FinishRun
       ELSE phase' = "request" /\ UNCHANGED <<results, output>>

NextTurn ==
    /\ turn' = turn + 1
    /\ calls' = 0
    /\ IF turn = maxTurns
       THEN FinishRun
       ELSE phase' = "request" /\ UNCHANGED <<results, output>>
-----------------------------------------------------------------------------
ProviderInit ==
    /\ vendor \in {"openai", "ollama"}
    /\ turn = 1 /\ phase = "request" /\ calls = 0
    /\ history = <<>> /\ ui = <<>> /\ results = 0
    /\ output = "open" /\ closed = FALSE

Responds ==
    /\ phase = "request" /\ ~RunKilled
    /\ phase' \in {"stream", "refused"}
    /\ UNCHANGED <<vendor, turn, calls, history, ui, results, output, closed>>

\* OpenAI sends the calls in deltas, by index.
DeltaCalls ==
    /\ vendor = "openai"
    /\ phase = "stream" /\ ~RunKilled
    /\ calls < maxCalls
    /\ calls' = calls + 1
    /\ UNCHANGED <<vendor, turn, phase, history, ui, results, output, closed>>

\* Ollama, asked not to stream, sends one message with all of them.
MessageCalls ==
    /\ vendor = "ollama"
    /\ phase = "stream" /\ ~RunKilled
    /\ calls = 0
    /\ calls' \in 1 .. maxCalls
    /\ UNCHANGED <<vendor, turn, phase, history, ui, results, output, closed>>

ToolCall(i) == [role |-> "assistant", call |-> <<turn, i>>]
ToolAnswer(i) == [role |-> "tool", call |-> <<turn, i>>]

\* Mutant: one tool result for all the calls of an answer.
RunFirstTool(n) ==
    /\ history' = history \o [i \in 1 .. n |-> ToolCall(i)] \o [i \in 1 .. 1 |-> ToolAnswer(i)]
    /\ ui' = ui \o [i \in 1 .. 2 * n |->
                       [kind |-> IF i % 2 = 1 THEN "tool_start" ELSE "tool_result",
                        call |-> <<turn, (i + 1) \div 2>>]]

\* The tools run one after the other, synchronously: executeTool returns a
\* result in every case, an error one if the tool or its arguments fail.
RunTools(n) ==
    /\ history' = history \o [i \in 1 .. n |-> ToolCall(i)] \o [i \in 1 .. n |-> ToolAnswer(i)]
    /\ ui' = ui \o [i \in 1 .. 2 * n |->
                       [kind |-> IF i % 2 = 1 THEN "tool_start" ELSE "tool_result",
                        call |-> <<turn, (i + 1) \div 2>>]]

\* The answer is complete: its tools run and the next turn begins, or it is
\* the final one.
AnswerEnds ==
    /\ phase = "stream" /\ ~RunKilled
    /\ IF calls > 0
       THEN RunTools(calls) /\ NextTurn
       ELSE FinishRun /\ UNCHANGED <<turn, calls, history, ui>>
    /\ UNCHANGED <<vendor, closed>>

\* The stream breaks, the refusal was read, or the connection failed.
\* Mutant: the streams stay open.
FailsQuietly ==
    /\ phase \in {"request", "stream", "refused"} /\ ~RunKilled
    /\ phase' = "over"
    /\ results' = results + 1
    /\ UNCHANGED <<output, vendor, turn, calls, history, ui, closed>>

RunFails ==
    /\ phase \in {"request", "stream", "refused"} /\ ~RunKilled
    /\ FinishRun
    /\ UNCHANGED <<vendor, turn, calls, history, ui, closed>>

\* abort(), or the zombie guard thirty seconds after the result: the request
\* and the streams are destroyed.
KillRun ==
    /\ ~RunKilled /\ ~closed
    /\ output' = "destroyed"
    /\ phase' = "over"
    /\ UNCHANGED <<vendor, turn, calls, history, ui, results, closed>>

\* The executor has read the output to its end: 'end' is what the 'close'
\* handlers wait for, and a destroyed stream has none.
ReportClose ==
    /\ output = "ended" /\ ~closed
    /\ closed' = TRUE
    /\ UNCHANGED <<vendor, turn, phase, calls, history, ui, results, output>>

ProviderNext ==
    \/ Responds \/ DeltaCalls \/ MessageCalls \/ AnswerEnds \/ RunFails
    \/ KillRun \/ ReportClose

\* The executor reads what is written; the network owes nothing.
ProviderFairness == WF_providerVars(ReportClose)
-----------------------------------------------------------------------------
CallIds == (1 .. maxTurns) \X (1 .. maxCalls)

ProviderTypeOK ==
    /\ vendor \in {"openai", "ollama"}
    /\ turn \in 1 .. maxTurns + 1 /\ calls \in 0 .. maxCalls
    /\ phase \in {"request", "stream", "refused", "over"}
    /\ history \in Seq([role : {"assistant", "tool"}, call : CallIds])
    /\ ui \in Seq([kind : {"tool_start", "tool_result"}, call : CallIds])
    /\ results \in Nat /\ output \in {"open", "ended", "destroyed"}
    /\ closed \in BOOLEAN

\* A request whose conversation has a tool call without a result, or two, is
\* refused by the API: at every request each call has exactly one, after it
\* (openai-provider.js:282).
CallsAreAnswered ==
    phase = "request" =>
       \A i \in DOMAIN history : history[i].role = "assistant" =>
          Cardinality({j \in DOMAIN history :
                         history[j].role = "tool" /\ history[j].call = history[i].call /\ j > i}) = 1

\* A run has one result, and no request is under way after it: the executor
\* takes the result for the end and starts its zombie guard
\* (executor.js:2271, openai-provider.js:331).
OneResult == results <= 1 /\ (output = "ended" => phase = "over" /\ results = 1)

\* Every way a run ends is one the executor hears of, unless the run is killed
\* (openai-provider.js:391).
EndIsReported == (phase = "over" /\ ~RunKilled) ~> (closed \/ RunKilled)
=============================================================================
