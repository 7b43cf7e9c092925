------------------------------ MODULE RunOutput ------------------------------
(***************************************************************************)
(* What AgentExecutor.execute makes of the output of a run's process: the  *)
(* answer, the counters of the confidence score and the tool history of    *)
(* the conversation, from which a later session is told what was done.     *)
(*                                                                         *)
(* The process is external.  It says the blocks of a message twice, first  *)
(* as they come and then in an event of the whole message, runs the tools  *)
(* the message asks for, tells their results and writes the next message,  *)
(* until it tells the result of the run and exits, which it may fail to do *)
(* by itself.                                                              *)
(***************************************************************************)
EXTENDS Naturals, Sequences, FiniteSets, SequencesExt

CONSTANTS
    Tool,           \* uses of tools
    MaxPieces,      \* bound: pieces of text of a run
    MaxRuns,        \* bound: runs of the conversation
    HistoryMax,     \* TOOL_HISTORY_MAX_PER_CONV: 200
    LookBack        \* 10

ASSUME OutputAssumption ==
    IsFiniteSet(Tool) /\ MaxPieces \in Nat /\ MaxRuns \in Nat
    /\ HistoryMax \in Nat \ {0} /\ LookBack \in Nat

VARIABLES
    outProcess,     \* none, running, answered (its result was told) or gone
    outRuns,
    outPieces,      \* pieces of text it has said
    outText,        \* pieces of the message under way
    outAsks,        \* uses of tools it asks for
    outWhole,       \* the event of the whole message has come
    outAnswer,      \* fullResponse, as pieces
    outTool,        \* each tool use: new, asked, known, ok or failed
    outUsed, outOk, \* toolUseCount, toolSuccessCount
    outHistory,     \* conversationToolHistory of the conversation
    outTimer,       \* _zombieTimer: off, zombie, kill or over
    outSignal       \* the last signal sent

outVars == <<outProcess, outRuns, outPieces, outText, outAsks, outWhole, outAnswer, outTool,
             outUsed, outOk, outHistory, outTimer, outSignal>>
outZombie == <<outTimer, outSignal>>

Entry == [id : Tool, input : BOOLEAN, result : {"none", "ok", "failed"}]

OutputTypeOK ==
    /\ outProcess \in {"none", "running", "answered", "gone"}
    /\ outRuns \in 0..MaxRuns
    /\ outPieces \in 0..MaxPieces
    /\ outWhole \in BOOLEAN
    /\ outTool \in [Tool -> {"new", "asked", "known", "ok", "failed"}]
    /\ outUsed \in 0..Cardinality(Tool) /\ outOk \in 0..Cardinality(Tool)
    /\ outHistory \in Seq(Entry) /\ Len(outHistory) <= HistoryMax
    /\ outTimer \in {"off", "zombie", "kill", "over"}
    /\ outSignal \in {"none", "TERM", "KILL"}

OutputInit ==
    /\ outProcess = "none"
    /\ outRuns = 0
    /\ outPieces = 0
    /\ outText = <<>> /\ outAsks = <<>>
    /\ outWhole = FALSE
    /\ outAnswer = <<>>
    /\ outTool = [t \in Tool |-> "new"]
    /\ outUsed = 0 /\ outOk = 0
    /\ outHistory = <<>>
    /\ outTimer = "off" /\ outSignal = "none"

outMessage == <<outText, outAsks>>
CliAlive == outProcess \in {"running", "answered"}

-----------------------------------------------------------------------------
(* The tool history.                                                        *)

Places(history, t) == {i \in 1..Len(history) : history[i].id = t}
\* Mutant: nothing is dropped.
AllOf(history) == history

\* The history is cut to its last entries.
Newest(history) == IF Len(history) > HistoryMax
                   THEN SubSeq(history, Len(history) - HistoryMax + 1, Len(history)) ELSE history

\* Mutant: every report of a use makes an entry.
UseAppended(history, t, input) ==
    Newest(Append(history, [id |-> t, input |-> input, result |-> "none"]))

\* _recordToolUse: a use that is among the last entries is completed.
ToolUse(history, t, input) ==
    LET known == {i \in Places(history, t) : i > Len(history) - LookBack}
    IN  IF known # {}
        THEN [history EXCEPT ![CHOOSE i \in known : \A j \in known : j <= i].input = @ \/ input]
        ELSE UseAppended(history, t, input)

\* The blocks of the whole message, one after the other.
InputsTold(history, asks) ==
    LET told[n \in 0..Len(asks)] ==
            IF n = 0 THEN history ELSE ToolUse(told[n - 1], asks[n], TRUE)
    IN  told[Len(asks)]

\* _recordToolResult
ToolResult(history, t, result) ==
    LET open == {i \in Places(history, t) : history[i].result = "none"}
    IN  IF open = {} THEN history
        ELSE [history EXCEPT ![CHOOSE i \in open : \A j \in open : j <= i].result = result]

-----------------------------------------------------------------------------
(* The events of the process, one line each.                                *)

StartRun ==
    /\ outProcess \in {"none", "gone"} /\ outRuns < MaxRuns
    /\ outProcess' = "running"
    /\ outRuns' = outRuns + 1
    /\ outPieces' = 0 /\ outText' = <<>> /\ outAsks' = <<>> /\ outWhole' = FALSE /\ outAnswer' = <<>>
    /\ outUsed' = 0 /\ outOk' = 0
    /\ outTimer' = "off" /\ outSignal' = "none"
    /\ UNCHANGED <<outTool, outHistory>>

\* stream_event: a piece of text.
TextDelta ==
    /\ outProcess = "running" /\ ~outWhole /\ outPieces < MaxPieces
    /\ outPieces' = outPieces + 1
    /\ outText' = Append(outText, outPieces')
    /\ outAnswer' = Append(outAnswer, outPieces')
    /\ UNCHANGED <<outProcess, outRuns, outAsks, outWhole, outTool, outUsed, outOk, outHistory, outZombie>>

\* Text that is not streamed is in the whole message only.
TextUnstreamed ==
    /\ outProcess = "running" /\ ~outWhole /\ outMessage = <<<<>>, <<>>>> /\ outPieces < MaxPieces
    /\ outPieces' = outPieces + 1
    /\ outText' = <<outPieces'>>
    /\ outWhole' = TRUE
    /\ UNCHANGED <<outProcess, outRuns, outAsks, outAnswer, outTool, outUsed, outOk, outHistory, outZombie>>

\* stream_event: a use of a tool begins; its input is to come.
ToolStarts(t) ==
    /\ outProcess = "running" /\ ~outWhole /\ outTool[t] = "new"
    /\ outTool' = [outTool EXCEPT ![t] = "asked"]
    /\ outAsks' = Append(outAsks, t)
    /\ outUsed' = outUsed + 1
    /\ outHistory' = ToolUse(outHistory, t, FALSE)
    /\ UNCHANGED <<outProcess, outRuns, outPieces, outText, outWhole, outAnswer, outOk, outZombie>>

\* tool_start: the other providers name a use with its input, and do not tell
\* the whole message.  It does not count for the success rate.
ProviderToolStarts(t) ==
    /\ outProcess = "running" /\ outTool[t] = "new" /\ outUsed = 0
    /\ outWhole => outAsks # <<>>
    /\ outTool' = [outTool EXCEPT ![t] = "known"]
    /\ outAsks' = Append(outAsks, t)
    /\ outWhole' = TRUE
    /\ outHistory' = ToolUse(outHistory, t, TRUE)
    /\ UNCHANGED <<outProcess, outRuns, outPieces, outText, outAnswer, outUsed, outOk, outZombie>>

\* Mutant: the text of the whole message is added to the answer.
WholeMessageAdded ==
    /\ outProcess = "running" /\ ~outWhole /\ outMessage # <<<<>>, <<>>>>
    /\ outWhole' = TRUE
    /\ outAnswer' = outAnswer \o outText
    /\ outTool' = [t \in Tool |-> IF t \in Range(outAsks) THEN "known" ELSE outTool[t]]
    /\ UNCHANGED <<outProcess, outRuns, outPieces, outMessage, outUsed, outOk, outHistory, outZombie>>

\* assistant: the text has been said, the tools have their input now.
WholeMessage ==
    /\ outProcess = "running" /\ ~outWhole /\ outMessage # <<<<>>, <<>>>>
    /\ outWhole' = TRUE
    /\ outTool' = [t \in Tool |-> IF t \in Range(outAsks) THEN "known" ELSE outTool[t]]
    /\ outHistory' = InputsTold(outHistory, outAsks)
    /\ UNCHANGED <<outProcess, outRuns, outPieces, outMessage, outAnswer, outUsed, outOk, outZombie>>

\* user: the result of a tool.
ToolAnswers(t, result) ==
    /\ outProcess = "running" /\ outWhole /\ outTool[t] = "known" /\ t \in Range(outAsks)
    /\ outTool' = [outTool EXCEPT ![t] = result]
    /\ outOk' = IF result = "ok" THEN outOk + 1 ELSE outOk
    /\ outHistory' = ToolResult(outHistory, t, result)
    /\ UNCHANGED <<outProcess, outRuns, outPieces, outMessage, outWhole, outAnswer, outUsed, outZombie>>

NextMessage ==
    /\ outProcess = "running" /\ outWhole
    /\ outAsks # <<>> /\ \A t \in Range(outAsks) : outTool[t] \in {"ok", "failed"}
    /\ outText' = <<>> /\ outAsks' = <<>> /\ outWhole' = FALSE
    /\ UNCHANGED <<outProcess, outRuns, outPieces, outAnswer, outTool, outUsed, outOk, outHistory, outZombie>>

\* result: it repeats the text of the last message, which is the answer when
\* nothing was streamed.  From here the process has half a minute.
ResultEvent(subtype) ==
    /\ outProcess = "running"
    /\ outWhole /\ (subtype = "success" <=> outAsks = <<>>)
    /\ outProcess' = "answered"
    /\ outAnswer' = IF subtype = "success" /\ outAnswer = <<>> THEN outText ELSE outAnswer
    /\ outTimer' = IF outTimer = "off" THEN "zombie" ELSE outTimer
    /\ UNCHANGED <<outRuns, outPieces, outMessage, outWhole, outTool, outUsed, outOk, outHistory, outSignal>>

-----------------------------------------------------------------------------
(* The end of the process.                                                  *)

\* Both the process and its output are closed: tryFinalize clears the guard.
ProcessCloses ==
    /\ CliAlive
    /\ outProcess' = "gone"
    /\ outTimer' = IF outTimer = "zombie" THEN "off" ELSE outTimer
    /\ UNCHANGED <<outRuns, outPieces, outMessage, outWhole, outAnswer, outTool, outUsed, outOk,
                   outHistory, outSignal>>

\* Mutant: the process is asked to stop, and that is all.
ZombieTermOnly ==
    /\ outTimer = "zombie"
    /\ outTimer' = "over"
    /\ outSignal' = IF CliAlive THEN "TERM" ELSE outSignal
    /\ UNCHANGED <<outProcess, outRuns, outPieces, outMessage, outWhole, outAnswer, outTool, outUsed,
                   outOk, outHistory>>

\* Half a minute after the result, the process is asked to stop.
ZombieGuard ==
    /\ outTimer = "zombie" /\ CliAlive
    /\ outTimer' = "kill"
    /\ outSignal' = "TERM"
    /\ UNCHANGED <<outProcess, outRuns, outPieces, outMessage, outWhole, outAnswer, outTool, outUsed,
                   outOk, outHistory>>

\* Five seconds later it is killed.
ZombieKill ==
    /\ outTimer = "kill"
    /\ outTimer' = "over"
    /\ outSignal' = IF CliAlive THEN "KILL" ELSE outSignal
    /\ UNCHANGED <<outProcess, outRuns, outPieces, outMessage, outWhole, outAnswer, outTool, outUsed,
                   outOk, outHistory>>

\* External: nothing survives SIGKILL.
CliKilled == outSignal = "KILL" /\ ProcessCloses

\* The hourly cleanup drops a history whose last entry is a day old.
HistoryExpires ==
    /\ outHistory # <<>> /\ ~CliAlive
    /\ outHistory' = <<>>
    /\ UNCHANGED <<outProcess, outRuns, outPieces, outMessage, outWhole, outAnswer, outTool, outUsed,
                   outOk, outZombie>>

OutputNext ==
    \/ StartRun
    \/ TextDelta
    \/ TextUnstreamed
    \/ \E t \in Tool : ToolStarts(t)
    \/ \E t \in Tool : ProviderToolStarts(t)
    \/ WholeMessage
    \/ \E t \in Tool, result \in {"ok", "failed"} : ToolAnswers(t, result)
    \/ NextMessage
    \/ \E subtype \in {"success", "error_max_turns"} : ResultEvent(subtype)
    \/ ProcessCloses
    \/ ZombieGuard
    \/ ZombieKill
    \/ HistoryExpires

OutputFairness == WF_outVars(ZombieGuard) /\ WF_outVars(ZombieKill) /\ WF_outVars(CliKilled)

-----------------------------------------------------------------------------
(* Properties.                                                              *)

\* However often a use of a tool is reported, the history has it once, with its
\* input as soon as that is known and with its own result ("Idempotent by id",
\* executor.js:72), as long as a message has no more uses than are looked back.
HistoryIsExact ==
    \A i \in 1..Len(outHistory) :
        LET entry == outHistory[i] IN
        /\ \A j \in 1..Len(outHistory) : outHistory[j].id = entry.id => j = i
        /\ entry.input = (outTool[entry.id] # "asked")
        /\ entry.result = (IF outTool[entry.id] \in {"ok", "failed"} THEN outTool[entry.id] ELSE "none")

\* The answer has no piece of text twice, keeps their order, and is not empty
\* when the last message of a successful run was text, streamed or not.
AnswerSaidOnce ==
    /\ \A i, j \in 1..Len(outAnswer) : i < j => outAnswer[i] < outAnswer[j]
    /\ outProcess = "answered" /\ outWhole /\ outText # <<>>
       /\ outAsks = <<>> => outAnswer # <<>>

\* A process that has told its result does not stay ("ZOMBIE GUARD: ... if
\* process doesn't exit within 30s, kill it", executor.js:2269).
AnsweredProcessEnds == outProcess = "answered" ~> outProcess # "answered"
=============================================================================
