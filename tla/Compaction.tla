----------------------------- MODULE Compaction ------------------------------
(***************************************************************************)
(* SessionCompactor, ContextGuard and the recap of a rotated session: what *)
(* is left of a conversation when a run starts, and what the agent of a    *)
(* new session is told of it.                                              *)
(*                                                                         *)
(* A message is its number, whether it says something to be remembered     *)
(* ("bookmarked") and, for a summary, the numbers of those it notes.  A    *)
(* message counts as one token.  execute always passes an empty prompt,    *)
(* for which the decisions are made by the number of messages.             *)
(***************************************************************************)
EXTENDS Naturals, Sequences, FiniteSets

CONSTANTS
    maxMessages,    \* 30
    compactTo,      \* 12
    MinKeep,        \* 5
    HardKeep,       \* 8 (10 at most with a prompt)
    HardNotes,      \* 5: notes of a hard clear
    Window,         \* tokens of the model but those kept for the answer
    Prompts,        \* sizes of system prompts, 0 for none (execute passes no other)
    RecapCount,     \* RECAP_MSG_COUNT: 50
    MaxSaid,        \* bound: messages
    MaxUses         \* bound: tool uses

\* The window has room for twice the messages that always stay, and with no
\* prompt is a hard clear due for those that it would leave.
ASSUME CompactionAssumption ==
    /\ {maxMessages, compactTo, MinKeep, HardKeep, HardNotes, Window, RecapCount} \subseteq Nat \ {0}
    /\ Prompts \subseteq Nat /\ MaxSaid \in Nat /\ MaxUses \in Nat
    /\ MinKeep <= compactTo /\ compactTo < maxMessages /\ HardKeep < maxMessages
    /\ MinKeep <= HardKeep /\ 2 * MinKeep <= Window
    /\ \A p \in Prompts : 100 * (p + HardKeep) < 90 * Window

VARIABLES
    cmpMessages,    \* the messages of the conversation
    cmpUses,        \* when the tools of the history were used
    cmpClock,
    cmpSaid         \* messages said

cmpVars == <<cmpMessages, cmpUses, cmpClock, cmpSaid>>

Summary == 0
SavedMessage == [number : 0..MaxSaid, marked : BOOLEAN, notes : SUBSET (1..MaxSaid), ts : Nat]

CompactionTypeOK ==
    /\ cmpMessages \in Seq(SavedMessage)
    /\ cmpUses \in Seq(Nat) /\ Len(cmpUses) <= MaxUses
    /\ cmpSaid \in 0..MaxSaid
    /\ \A i \in 2..Len(cmpMessages) : cmpMessages[i].number # Summary

CompactionInit == cmpMessages = <<>> /\ cmpUses = <<>> /\ cmpClock = 0 /\ cmpSaid = 0

Larger(a, b) == IF a > b THEN a ELSE b
Smaller(a, b) == IF a < b THEN a ELSE b
LastOf(s, n) == IF n >= Len(s) THEN s ELSE SubSeq(s, Len(s) - n + 1, Len(s))
ButLast(s, n) == IF n >= Len(s) THEN <<>> ELSE SubSeq(s, 1, Len(s) - n)

-----------------------------------------------------------------------------
(* ContextGuard.                                                            *)

\* countTotalContext
TotalContext(prompt, messages) == prompt + Len(messages)

\* checkContext: is this share of the window used?
Uses(prompt, messages, percent) == TotalContext(prompt, messages) * 100 >= percent * Window

\* Mutant: counting does not stop at the share.
RecommendedAll(messages, percent) == Larger(MinKeep, Len(messages))

\* getRecommendedMessageCount: the newest that fit into a share of the window.
Recommended(messages, percent) ==
    Larger(MinKeep, Smaller(Len(messages), (Window * percent) \div 100))

-----------------------------------------------------------------------------
(* SessionCompactor.                                                        *)

\* needsCompaction
NeedsCompaction(messages, prompt) ==
    /\ messages # <<>>
    /\ IF prompt > 0 THEN Uses(prompt, messages, 85) ELSE Len(messages) > maxMessages

\* getCompactionLevel
IsHard(messages, prompt) ==
    IF prompt > 0 THEN Uses(prompt, messages, 90) ELSE 2 * Len(messages) > 3 * maxMessages

Bookmarked(messages) == {i \in 1..Len(messages) : messages[i].number # Summary /\ messages[i].marked}
NotesOf(messages) == {messages[i].number : i \in Bookmarked(messages)}

\* Mutant: the first messages are kept.
KeptFromStart(messages, keep) == SubSeq(messages, 1, Smaller(keep, Len(messages)))

\* The messages that stay as they are.
KeptMessages(messages, keep) == LastOf(messages, keep)

\* Mutant: what is to be remembered is looked for in what is kept.
NotedOfKept(messages, keep) == NotesOf(LastOf(messages, keep))

\* The notes of a summary: those bookmarked among the messages that go.  What
\* an earlier summary noted is not bookmarked again.
Noted(messages, keep) == NotesOf(ButLast(messages, keep))

Compacted(messages, keep, notes) ==
    <<[number |-> Summary, marked |-> FALSE, notes |-> notes, ts |-> cmpClock]>>
        \o KeptMessages(messages, keep)

SoftTrim(messages, prompt) ==
    LET keep == Larger(MinKeep, Smaller(Len(messages),
                   IF prompt > 0 THEN Recommended(messages, 50) ELSE compactTo))
    IN  IF keep >= Len(messages) THEN messages ELSE Compacted(messages, keep, Noted(messages, keep))

\* Only the last notes are kept.
HardClear(messages, prompt) ==
    LET keep == IF prompt > 0 THEN Larger(MinKeep, Smaller(Recommended(messages, 35), HardKeep))
                              ELSE HardKeep
        notes == Noted(messages, keep)
    IN  Compacted(messages, keep,
                  {n \in notes : Cardinality({m \in notes : m > n}) < HardNotes})

CompactMessages(messages, prompt) ==
    IF IsHard(messages, prompt) THEN HardClear(messages, prompt) ELSE SoftTrim(messages, prompt)

-----------------------------------------------------------------------------
(* The recap.                                                               *)

\* Mutant: a gap ends with the message after it.
UsesBetween(from, to) == {u \in 1..Len(cmpUses) : from <= cmpUses[u] /\ cmpUses[u] <= to}

\* The tool uses that are told after a message: those since it and before the
\* next one.
GapUses(from, to) == {u \in 1..Len(cmpUses) : from <= cmpUses[u] /\ cmpUses[u] < to}

\* What a new session is told: the last messages, each with the tools used
\* until the next.
Recap(messages) ==
    LET recent == LastOf(messages, RecapCount)
    IN  [i \in 1..Len(recent) |->
            [number |-> recent[i].number, notes |-> recent[i].notes,
             uses |-> GapUses(recent[i].ts,
                              IF i < Len(recent) THEN recent[i + 1].ts ELSE cmpClock + 1)]]

-----------------------------------------------------------------------------
(* The conversation.                                                        *)

Say(marked) ==
    /\ cmpSaid < MaxSaid
    /\ cmpSaid' = cmpSaid + 1
    /\ cmpMessages' = Append(cmpMessages,
          [number |-> cmpSaid', marked |-> marked, notes |-> {}, ts |-> cmpClock])
    /\ cmpClock' = cmpClock + 1
    /\ UNCHANGED cmpUses

ToolUsed ==
    /\ cmpMessages # <<>> /\ Len(cmpUses) < MaxUses
    /\ cmpUses' = Append(cmpUses, cmpClock)
    /\ \E tick \in {0, 1} : cmpClock' = cmpClock + tick
    /\ UNCHANGED <<cmpMessages, cmpSaid>>

\* A run starts.
CompactConversation(prompt) ==
    /\ NeedsCompaction(cmpMessages, prompt)
    /\ cmpMessages' = CompactMessages(cmpMessages, prompt)
    /\ cmpClock' = cmpClock + 1
    /\ UNCHANGED <<cmpUses, cmpSaid>>

CompactionNext ==
    \/ \E marked \in BOOLEAN : Say(marked)
    \/ ToolUsed
    \/ \E prompt \in Prompts : CompactConversation(prompt)

-----------------------------------------------------------------------------
(* Properties.                                                              *)

Numbers(messages) == {messages[i].number : i \in 1..Len(messages)} \ {Summary}

\* The message that stands so far before the last one.
FromEnd(messages, back) == messages[Len(messages) - back]

\* A compaction, by numbers or by tokens, leaves the latest messages and their
\* order alone: whatever was said last is still there, and every message but the
\* summary stands as far before the end as it did.
LatestStay ==
    \A prompt \in Prompts :
        cmpMessages' # cmpMessages /\ CompactConversation(prompt) =>
        /\ \A back \in 0..(Len(cmpMessages') - 1) :
              FromEnd(cmpMessages', back).number # Summary =>
                 /\ back < Len(cmpMessages)
                 /\ FromEnd(cmpMessages', back) = FromEnd(cmpMessages, back)
        /\ \A back \in 0..(Smaller(MinKeep, Len(cmpMessages)) - 1) :
              /\ back < Len(cmpMessages')
              /\ FromEnd(cmpMessages', back) = FromEnd(cmpMessages, back)
RecentKept == [][LatestStay]_cmpVars

\* A compaction is enough: the next run, with the same prompt, does not start
\* with another one, unless the prompt alone takes a third of the window.
CompactedEnough ==
    \A prompt \in Prompts :
        NeedsCompaction(cmpMessages, prompt) /\ 100 * (prompt + 1) < 35 * Window =>
            ~NeedsCompaction(CompactMessages(cmpMessages, prompt), prompt)

\* A message to be remembered is still there after the compaction that takes it,
\* in the summary; a hard clear keeps the last of them.
MarkedStay ==
    \A prompt \in Prompts :
        cmpMessages' # cmpMessages /\ CompactConversation(prompt) =>
        LET marked == NotesOf(cmpMessages)
            told == Numbers(cmpMessages') \cup
                    UNION {cmpMessages'[i].notes : i \in 1..Len(cmpMessages')}
        IN  Cardinality(marked) <= HardNotes \/ ~IsHard(cmpMessages, prompt)
            => marked \subseteq told
MarkedIsNoted == [][MarkedStay]_cmpVars

\* The recap tells every tool used since its first message once, though the
\* summary in front is younger than the messages behind it.
UsesToldOnce ==
    LET recap == Recap(cmpMessages)
        recent == LastOf(cmpMessages, RecapCount)
        said == {i \in 1..Len(recent) : recent[i].number # Summary}
    IN  \A u \in 1..Len(cmpUses) :
            LET told == {i \in 1..Len(recap) : u \in recap[i].uses}
            IN  /\ Cardinality(told) <= 1
                /\ (\E i \in said : recent[i].ts <= cmpUses[u]) => told # {}
=============================================================================
