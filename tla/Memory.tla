------------------------------- MODULE Memory -------------------------------
(***************************************************************************)
(* memory/cognitive.js: the memory of one workspace.  Episodes, facts and  *)
(* procedures are lines that are appended to files in the background and   *)
(* entries of an index that answers searches, through a cache of results.  *)
(* MEMORY.md, the core memory, is read through a cache of its own; the     *)
(* [CORE_UPDATE] tag of executor.js writes the file itself.  Identities of *)
(* a user in several channels are linked into groups.                      *)
(*                                                                         *)
(* Ranking is left out: a search finds every valid entry, and the cache    *)
(* holds the answer to one query.                                          *)
(***************************************************************************)
EXTENDS Naturals, FiniteSets

CONSTANTS
    Entry,          \* episodes, facts and procedures
    Identity,       \* a user of a channel
    MaxCore         \* bound: the updates of the core memory

ASSUME MemoryAssumption == MaxCore \in Nat

NoGroup == "none"

VARIABLES
    appending,      \* entries whose append has not come to its end
    lines,          \* entries in the files
    index,          \* the valid entries of the index, and those that are not
    answer,         \* the cached result of the query, if there is one
    core,           \* MEMORY.md and the cached copy of it, if it was read, by
                    \* number of updates
    links,          \* the group of each identity, in memory and in its file
    cleanup,        \* the lines cleanupOldSteps has read and not written yet
    memoryUp

memoryVars == <<appending, lines, index, answer, core, links, cleanup, memoryUp>>

\* The program is at no synchronous work.
MemoryFree == memoryUp /\ cleanup = {}

KnownEntries == index.valid \union index.invalid
-----------------------------------------------------------------------------
MemoryInit ==
    /\ appending = {} /\ lines = {}
    /\ index = [valid |-> {}, invalid |-> {}]
    /\ answer = {}
    /\ core = [file |-> 0, cached |-> {}]
    /\ links = [i \in Identity |-> NoGroup]
    /\ cleanup = {}
    /\ memoryUp = TRUE

\* Mutant: the results stay in the cache.
StoreQuietly(e, old) ==
    /\ MemoryFree
    /\ e \notin KnownEntries \union lines
    /\ appending' = appending \union {e}
    /\ index' = [valid |-> (index.valid \ old) \union {e},
                 invalid |-> index.invalid \union (old \intersect index.valid)]
    /\ UNCHANGED <<answer, lines, core, links, cleanup, memoryUp>>

\* Mutant: the superseded fact stays valid as well.
StoreBeside(e, old) ==
    /\ MemoryFree
    /\ e \notin KnownEntries \union lines
    /\ appending' = appending \union {e}
    /\ index' = [valid |-> index.valid \union {e},
                 invalid |-> index.invalid \union (old \intersect index.valid)]
    /\ answer' = {}
    /\ UNCHANGED <<lines, core, links, cleanup, memoryUp>>

\* A new entry is indexed at once and written in the background; the entry it
\* supersedes is marked in the index.
StoreEntry(e, old) ==
    /\ MemoryFree
    /\ e \notin KnownEntries \union lines
    /\ appending' = appending \union {e}
    /\ index' = [valid |-> (index.valid \ old) \union {e},
                 invalid |-> index.invalid \union (old \intersect index.valid)]
    /\ answer' = {}
    /\ UNCHANGED <<lines, core, links, cleanup, memoryUp>>

StoreEpisode(e) == StoreEntry(e, {})
StoreProcedural(e) == StoreEntry(e, {})

\* A fact may supersede one.
StoreSemantic(e) == StoreEntry(e, {}) \/ \E old \in Entry : StoreEntry(e, {old})

AppendLands(e) ==
    /\ e \in appending
    /\ appending' = appending \ {e}
    /\ lines' = lines \union {e}
    /\ UNCHANGED <<index, answer, core, links, cleanup, memoryUp>>

AppendFails(e) ==
    /\ e \in appending
    /\ appending' = appending \ {e}
    /\ UNCHANGED <<lines, index, answer, core, links, cleanup, memoryUp>>

\* memory_forget marks the entry in the index; its line stays as it is.
InvalidateMemory(e) ==
    /\ MemoryFree
    /\ e \in KnownEntries
    /\ index' = [valid |-> index.valid \ {e}, invalid |-> index.invalid \union {e}]
    /\ answer' = {}
    /\ UNCHANGED <<appending, lines, core, links, cleanup, memoryUp>>

\* The nightly job rewrites the files without the steps of old episodes.  An
\* append that lands between the read and the write is written over.
CleanupReads ==
    /\ MemoryFree
    /\ lines # {}
    /\ cleanup' = {lines}
    /\ UNCHANGED <<appending, lines, index, answer, core, links, memoryUp>>

CleanupWrites ==
    /\ cleanup # {}
    /\ lines' = UNION cleanup
    /\ cleanup' = {}
    /\ UNCHANGED <<appending, index, answer, core, links, memoryUp>>

\* Only a miss changes what is kept: the results go into the cache.
SearchMemory ==
    /\ MemoryFree
    /\ answer = {}
    /\ answer' = {index.valid}
    /\ UNCHANGED <<appending, lines, index, core, links, cleanup, memoryUp>>

\* A result is sixty seconds old, or the hundred and first query evicts it.
AnswerExpires ==
    /\ answer # {}
    /\ answer' = {}
    /\ UNCHANGED <<appending, lines, index, core, links, cleanup, memoryUp>>
-----------------------------------------------------------------------------
\* buildSystemPrompt and /core.
GetCoreMemory ==
    /\ MemoryFree
    /\ core.cached = {}
    /\ core' = [core EXCEPT !.cached = {core.file}]
    /\ UNCHANGED <<appending, lines, index, answer, links, cleanup, memoryUp>>

\* The [CORE_UPDATE] tag of an answer.
CoreUpdate ==
    /\ MemoryFree
    /\ core.file < MaxCore
    /\ core' = [core EXCEPT !.file = @ + 1]
    /\ UNCHANGED <<appending, lines, index, answer, links, cleanup, memoryUp>>

\* /link.  A new group is named after the clock, here after the identity that
\* opens it.
LinkIdentity(i, j) ==
    /\ MemoryFree
    /\ i # j
    /\ links' = LET group == IF links[i] # NoGroup THEN links[i]
                             ELSE IF links[j] # NoGroup THEN links[j] ELSE i
                IN  [links EXCEPT ![i] = group, ![j] = group]
    /\ UNCHANGED <<appending, lines, index, answer, core, cleanup, memoryUp>>
-----------------------------------------------------------------------------
MemoryCrash ==
    /\ memoryUp
    /\ memoryUp' = FALSE
    /\ appending' = {}
    /\ index' = [valid |-> {}, invalid |-> {}]
    /\ answer' = {}
    /\ core' = [core EXCEPT !.cached = {}]
    /\ cleanup' = {}
    /\ UNCHANGED <<lines, links>>

\* Mutant: the files are not read.
BuildNothing ==
    /\ ~memoryUp
    /\ memoryUp' = TRUE
    /\ UNCHANGED <<appending, index, lines, answer, core, links, cleanup>>

\* The constructor: every line is valid, as it was when it was written.
BuildIndex ==
    /\ ~memoryUp
    /\ memoryUp' = TRUE
    /\ index' = [valid |-> lines, invalid |-> {}]
    /\ UNCHANGED <<appending, lines, answer, core, links, cleanup>>

MemoryNext ==
    \/ \E e \in Entry : StoreEpisode(e) \/ StoreProcedural(e) \/ StoreSemantic(e)
    \/ \E e \in Entry : AppendLands(e) \/ AppendFails(e) \/ InvalidateMemory(e)
    \/ CleanupReads \/ CleanupWrites
    \/ SearchMemory \/ AnswerExpires \/ GetCoreMemory \/ CoreUpdate
    \/ \E i, j \in Identity : LinkIdentity(i, j)
    \/ MemoryCrash \/ BuildIndex
-----------------------------------------------------------------------------
MemoryTypeOK ==
    /\ appending \subseteq Entry /\ lines \subseteq Entry
    /\ index \in [valid : SUBSET Entry, invalid : SUBSET Entry]
    /\ index.valid \intersect index.invalid = {}
    /\ answer \subseteq SUBSET Entry /\ Cardinality(answer) <= 1
    /\ core \in [file : 0 .. MaxCore, cached : SUBSET (0 .. MaxCore)]
    /\ links \in [Identity -> Identity \union {NoGroup}]
    /\ cleanup \subseteq SUBSET Entry /\ Cardinality(cleanup) <= 1
    /\ memoryUp \in BOOLEAN

\* What the cache answers is what the index would answer: entries that were
\* stored, forgotten or superseded since are neither missed nor found
\* (cognitive.js:1204).
AnswerIsCurrent == answer \subseteq {index.valid}

\* What has been written is known to a running program, whatever crashes there
\* were between (cognitive.js:1336).
WrittenIsKnown == memoryUp => lines \subseteq KnownEntries
=============================================================================
