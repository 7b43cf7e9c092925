-------------------------- MODULE ConversationFile --------------------------
(***************************************************************************)
(* How ConversationManager keeps conversations.json: a cache that every    *)
(* operation changes at once, a 500 ms timer that each change re-arms, an  *)
(* asynchronous flush through one temporary file, a synchronous flush at   *)
(* shutdown, and the load after a crash.                                   *)
(*                                                                         *)
(* The content of the cache is the set of changes it holds.  A file is an  *)
(* inode, because rename moves the temporary file while another flush may  *)
(* still hold it open.                                                     *)
(***************************************************************************)
EXTENDS Naturals

CONSTANTS
    Change,     \* the changes made to conversations, in the instance's runs
    Flush,      \* the asynchronous flushes that can be in flight at once
    Inode,      \* the files the file system can hold
    NoFile,     \* no file under a name
    Torn        \* a piece of text that makes JSON.parse reject a file

ASSUME StoreAssumption ==
    /\ NoFile \notin Inode
    /\ Torn \notin Change

VARIABLES
    storeLoaded,  \* _cache is not null
    storeCache,   \* _cache
    storeTimer,   \* _saveTimer is armed
    storeFlush,   \* the flushes in flight
    storeContent, \* what each inode holds
    storeTmp,     \* conversations.json.tmp
    storeFile,    \* conversations.json
    storeMade,    \* history: the changes made so far
    storeOverlap, \* history: a flush began while another was in flight
    storeFailed   \* history: a write failed

storeMemory == <<storeLoaded, storeCache, storeTimer>>
storeFiles == <<storeContent, storeTmp, storeFile>>
storeHistory == <<storeMade, storeOverlap, storeFailed>>
storeVars == <<storeMemory, storeFlush, storeFiles, storeHistory>>

Broken == {Torn}
Content == (SUBSET Change) \cup {Broken}
FlushPhase == {"idle", "opening", "writing", "renaming"}
Idle == [phase |-> "idle", snapshot |-> {}, inode |-> NoFile]

StoreTypeOK ==
    /\ storeLoaded \in BOOLEAN
    /\ storeCache \subseteq Change
    /\ storeTimer \in BOOLEAN
    /\ storeFlush \in [Flush -> [phase : FlushPhase, snapshot : SUBSET Change,
                                 inode : Inode \cup {NoFile}]]
    /\ storeContent \in [Inode -> Content]
    /\ storeTmp \in Inode \cup {NoFile}
    /\ storeFile \in Inode \cup {NoFile}
    /\ storeMade \subseteq Change
    /\ storeOverlap \in BOOLEAN
    /\ storeFailed \in BOOLEAN

StoreInit ==
    /\ storeLoaded = FALSE
    /\ storeCache = {}
    /\ storeTimer = FALSE
    /\ storeFlush = [f \in Flush |-> Idle]
    /\ storeContent = [i \in Inode |-> {}]
    /\ storeTmp = NoFile
    /\ storeFile = NoFile
    /\ storeMade = {}
    /\ storeOverlap = FALSE
    /\ storeFailed = FALSE

InFlight == {f \in Flush : storeFlush[f].phase # "idle"}
OnDisk == IF storeFile = NoFile THEN {} ELSE storeContent[storeFile]

\* The file that opening conversations.json.tmp for writing gives: the one
\* already there or a new one.
Opened ==
    IF storeTmp # NoFile THEN {storeTmp}
    ELSE {i \in Inode : i # storeFile /\ \A f \in Flush : storeFlush[f].inode # i}

\* Mutant: the server starts without reading the file.
LoadNothing ==
    /\ ~storeLoaded
    /\ storeLoaded' = TRUE
    /\ UNCHANGED <<storeCache, storeTimer, storeFlush, storeFiles, storeHistory>>

\* Mutant: the text that does not parse is kept in the cache.
LoadUnparsed ==
    /\ ~storeLoaded
    /\ storeLoaded' = TRUE
    /\ storeCache' = OnDisk
    /\ UNCHANGED <<storeTimer, storeFlush, storeFiles, storeHistory>>

\* loadConversations, first call: a file that does not parse is renamed to
\* .backup and the server goes on with no conversations.
StoreLoad ==
    /\ ~storeLoaded
    /\ storeLoaded' = TRUE
    /\ storeCache' = OnDisk \ Broken
    /\ storeFile' = IF OnDisk = Broken THEN NoFile ELSE storeFile
    /\ UNCHANGED <<storeTimer, storeFlush, storeContent, storeTmp, storeHistory>>

\* Mutant: only the first change arms the timer.
ChangeUnsaved(c) ==
    /\ storeLoaded
    /\ c \notin storeMade
    /\ storeMade' = storeMade \cup {c}
    /\ storeCache' = storeCache \cup {c}
    /\ storeTimer' = (storeMade = {})
    /\ UNCHANGED <<storeLoaded, storeFlush, storeFiles, storeOverlap, storeFailed>>

\* Any operation that edits the cached object and calls saveConversations.
StoreChange(c) ==
    /\ storeLoaded
    /\ c \notin storeMade
    /\ storeMade' = storeMade \cup {c}
    /\ storeCache' = storeCache \cup {c}
    /\ storeTimer' = TRUE
    /\ UNCHANGED <<storeLoaded, storeFlush, storeFiles, storeOverlap, storeFailed>>

\* The timer fires: _flushToDisk serialises the cache and starts writeFile.
StoreTimer(f) ==
    /\ storeTimer
    /\ storeFlush[f].phase = "idle"
    /\ storeTimer' = FALSE
    /\ storeFlush' = [storeFlush EXCEPT ![f] =
           [phase |-> "opening", snapshot |-> storeCache, inode |-> NoFile]]
    /\ storeOverlap' = (storeOverlap \/ InFlight # {})
    /\ UNCHANGED <<storeLoaded, storeCache, storeFiles, storeMade, storeFailed>>

\* Mutant: the snapshot is written to the file itself.
FlushOpenInPlace(f) ==
    /\ storeFlush[f].phase = "opening"
    /\ \E inode \in IF storeFile = NoFile THEN Opened ELSE {storeFile} :
          /\ storeTmp' = inode
          /\ storeFile' = inode
          /\ storeContent' = [storeContent EXCEPT ![inode] = Broken]
          /\ storeFlush' = [storeFlush EXCEPT ![f].phase = "writing", ![f].inode = inode]
    /\ UNCHANGED <<storeMemory, storeHistory>>

\* writeFile opens the temporary file and truncates it...
FlushOpen(f) ==
    /\ storeFlush[f].phase = "opening"
    /\ \E inode \in Opened :
          /\ storeTmp' = inode
          /\ storeContent' = [storeContent EXCEPT ![inode] = Broken]
          /\ storeFlush' = [storeFlush EXCEPT ![f].phase = "writing", ![f].inode = inode]
    /\ UNCHANGED <<storeMemory, storeFile, storeHistory>>

\* ...and writes from its beginning: over the longer content of another flush
\* the end of that content stays.
FlushWrite(f) ==
    LET fl == storeFlush[f]
    IN /\ fl.phase = "writing"
       /\ \E content \in {fl.snapshot, Broken} :
             /\ content = Broken => \/ storeContent[fl.inode] \notin {Broken, fl.snapshot}
                                    \/ InFlight # {f}
             /\ storeContent' = [storeContent EXCEPT ![fl.inode] = content]
       /\ storeFlush' = [storeFlush EXCEPT ![f].phase = "renaming"]
       /\ UNCHANGED <<storeMemory, storeTmp, storeFile, storeHistory>>

\* rename; a temporary file another flush already renamed is only logged.
FlushRename(f) ==
    /\ storeFlush[f].phase = "renaming"
    /\ storeFile' = IF storeTmp = NoFile THEN storeFile ELSE storeTmp
    /\ storeTmp' = NoFile
    /\ storeFlush' = [storeFlush EXCEPT ![f] = Idle]
    /\ UNCHANGED <<storeMemory, storeContent, storeHistory>>

\* The disk refuses a step: the error is logged and the flush is over.
FlushFail(f) ==
    /\ storeFlush[f].phase # "idle"
    /\ storeFlush' = [storeFlush EXCEPT ![f] = Idle]
    /\ storeFailed' = TRUE
    /\ UNCHANGED <<storeMemory, storeFiles, storeMade, storeOverlap>>

\* flushSync at shutdown.
StoreFlushSync ==
    /\ storeLoaded
    /\ storeTimer' = FALSE
    /\ \E inode \in Opened :
          /\ storeContent' = [storeContent EXCEPT ![inode] = storeCache]
          /\ storeFile' = inode
    /\ storeTmp' = NoFile
    /\ storeOverlap' = (storeOverlap \/ InFlight # {})
    /\ UNCHANGED <<storeLoaded, storeCache, storeFlush, storeMade, storeFailed>>

\* The process ends, at exit or by a crash; only the files are left.
StoreCrash ==
    /\ storeLoaded
    /\ storeLoaded' = FALSE
    /\ storeCache' = {}
    /\ storeTimer' = FALSE
    /\ storeFlush' = [f \in Flush |-> Idle]
    /\ UNCHANGED <<storeFiles, storeHistory>>

FlushStep(f) == FlushOpen(f) \/ FlushWrite(f) \/ FlushRename(f)

StoreNext ==
    \/ StoreLoad
    \/ \E c \in Change : StoreChange(c)
    \/ \E f \in Flush : StoreTimer(f) \/ FlushStep(f) \/ FlushFail(f)
    \/ StoreFlushSync
    \/ StoreCrash

\* Timers fire and file operations end.
StoreFairness ==
    /\ WF_storeVars(\E f \in Flush : StoreTimer(f))
    /\ \A f \in Flush : WF_storeVars(FlushStep(f))

-----------------------------------------------------------------------------
\* As long as no two flushes overlap, whatever moment the process dies at, and
\* whatever write fails, leaves a file that can be parsed.
StoreReadable == storeOverlap \/ OnDisk # Broken

\* Nor does the file then ever lose a change it once held: a crash between two
\* steps of a flush, or a load, does not bring an older file back.
KeepsChanges == storeOverlap' \/ OnDisk \subseteq OnDisk'
StoreNeverOlder == [][KeepsChanges]_storeVars

\* Every change reaches the file, unless a crash forgets it first or the
\* write fails, which the code logs and does not retry.
StoreSaved ==
    \A c \in Change :
        c \in storeCache ~> (storeOverlap \/ storeFailed \/ ~storeLoaded \/ c \in OnDisk)
=============================================================================
