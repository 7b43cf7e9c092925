--------------------------- MODULE SharedContext ----------------------------
(***************************************************************************)
(* The shared memory of agents on one task: namespaces of facts, bounded   *)
(* in number and size, expiring by age, written to a file each by a        *)
(* debounced flush, in place, and loaded again at start.                   *)
(*                                                                         *)
(* Time is a count of writes; a fact is the time it was written at, so     *)
(* that two writes of a key can be told apart.  A write to the disk may    *)
(* fail, and the process may stop at any time, in the middle of one too.   *)
(***************************************************************************)
EXTENDS Naturals, FiniteSets

CONSTANTS
    Namespace,
    FactKey,
    maxNamespaces,
    maxFacts,
    MaxTime          \* bound: writes in a behaviour

ASSUME ContextAssumption ==
    /\ maxNamespaces \in Nat \ {0}
    /\ maxFacts \in Nat \ {0}
    /\ MaxTime \in Nat

VARIABLES
    ctxUp,
    ctxTime,
    ctxMemory,    \* namespaces: what each holds, or Nothing
    ctxExpired,   \* namespaces created more than maxAge ago
    ctxDirty,     \* _dirtyNamespaces
    ctxTimer,     \* _persistTimer is pending
    ctxFile,      \* the file of each namespace
    ctxFailed     \* history: namespaces whose file could not be written or removed

ctxVars == <<ctxUp, ctxTime, ctxMemory, ctxExpired, ctxDirty, ctxTimer, ctxFile, ctxFailed>>

Nothing == [there |-> FALSE]
Torn == [torn |-> TRUE]
\* facts[k] = 0: no such fact.
Content == [there : {TRUE}, updatedAt : 0..MaxTime, facts : [FactKey -> 0..MaxTime]]

ContextTypeOK ==
    /\ ctxUp \in BOOLEAN
    /\ ctxTime \in 0..MaxTime
    /\ ctxMemory \in [Namespace -> Content \cup {Nothing}]
    /\ ctxExpired \subseteq Namespace
    /\ ctxDirty \subseteq Namespace
    /\ ctxTimer \in BOOLEAN
    /\ ctxFile \in [Namespace -> Content \cup {Nothing, Torn}]
    /\ ctxFailed \subseteq Namespace
    /\ \A n \in Namespace :
          ctxMemory[n] # Nothing => Cardinality({k \in FactKey : ctxMemory[n].facts[k] > 0}) <= maxFacts

ContextInit ==
    /\ ctxUp = FALSE
    /\ ctxTime = 0
    /\ ctxMemory = [n \in Namespace |-> Nothing]
    /\ ctxExpired = {}
    /\ ctxDirty = {}
    /\ ctxTimer = FALSE
    /\ ctxFile = [n \in Namespace |-> Nothing]
    /\ ctxFailed = {}

There(n) == ctxMemory[n] # Nothing
Live == {n \in Namespace : There(n)}

\* _loadFromDisk: files that have expired are removed, torn ones skipped.
LoadFromDisk ==
    /\ ~ctxUp
    /\ ctxUp' = TRUE
    /\ ctxFile' = [n \in Namespace |-> IF n \in ctxExpired /\ ctxFile[n] # Torn THEN Nothing
                                                                               ELSE ctxFile[n]]
    /\ ctxMemory' = [n \in Namespace |-> IF ctxFile'[n] = Torn THEN Nothing ELSE ctxFile'[n]]
    /\ ctxExpired' = {n \in ctxExpired : ctxFile[n] = Torn}
    /\ UNCHANGED <<ctxTime, ctxDirty, ctxTimer, ctxFailed>>

\* deleteNamespace on these, whose files are removed but for the failing ones.
Deleted(gone, failing, memory) ==
    /\ failing \subseteq {n \in gone : ctxFile[n] # Nothing}
    /\ ctxMemory' = [n \in Namespace |-> IF n \in gone THEN Nothing ELSE memory[n]]
    /\ ctxFile' = [n \in Namespace |-> IF n \in gone \ failing THEN Nothing ELSE ctxFile[n]]
    /\ ctxFailed' = ctxFailed \cup failing

Tick == /\ ctxTime < MaxTime
        /\ ctxTime' = ctxTime + 1

Persist(n) ==
    /\ ctxDirty' = ctxDirty \cup {n}
    /\ ctxTimer' = TRUE

\* Mutant: the namespace to evict is looked for among the newest.
EvictNewest ==
    {n \in Live : \A o \in Live : ctxMemory[o].updatedAt <= ctxMemory[n].updatedAt}

Oldest == {n \in Live : \A o \in Live : ctxMemory[n].updatedAt <= ctxMemory[o].updatedAt}

CreateNamespace(n) ==
    /\ ctxUp /\ ~There(n)
    /\ Tick
    /\ \E evicted \in IF Cardinality(Live) >= maxNamespaces THEN {{o} : o \in Oldest} ELSE {{}} :
       \E failing \in SUBSET evicted :
          /\ Deleted(evicted, failing, [ctxMemory EXCEPT ![n] =
                [there |-> TRUE, updatedAt |-> ctxTime', facts |-> [k \in FactKey |-> 0]]])
          /\ ctxExpired' = (ctxExpired \ {n}) \ evicted
    /\ Persist(n)
    /\ UNCHANGED ctxUp

\* Mutant: a fact is changed and the namespace is not marked.
SetUnmarked(n, k) ==
    /\ ctxUp /\ There(n)
    /\ \/ ctxMemory[n].facts[k] > 0
       \/ Cardinality({o \in FactKey : ctxMemory[n].facts[o] > 0}) < maxFacts
    /\ Tick
    /\ ctxMemory' = [ctxMemory EXCEPT ![n].facts[k] = ctxTime', ![n].updatedAt = ctxTime']
    /\ UNCHANGED <<ctxUp, ctxExpired, ctxDirty, ctxTimer, ctxFile, ctxFailed>>

\* Mutant: the limit is not looked at for a new key.
SetUnlimited(n, k) ==
    /\ ctxUp /\ There(n)
    /\ Tick
    /\ ctxMemory' = [ctxMemory EXCEPT ![n].facts[k] = ctxTime', ![n].updatedAt = ctxTime']
    /\ Persist(n)
    /\ UNCHANGED <<ctxUp, ctxExpired, ctxFile, ctxFailed>>

Set(n, k) ==
    /\ ctxUp /\ There(n)
    /\ \/ ctxMemory[n].facts[k] > 0
       \/ Cardinality({o \in FactKey : ctxMemory[n].facts[o] > 0}) < maxFacts
    /\ Tick
    /\ ctxMemory' = [ctxMemory EXCEPT ![n].facts[k] = ctxTime', ![n].updatedAt = ctxTime']
    /\ Persist(n)
    /\ UNCHANGED <<ctxUp, ctxExpired, ctxFile, ctxFailed>>

DeleteFact(n, k) ==
    /\ ctxUp /\ There(n)
    /\ ctxMemory[n].facts[k] > 0
    /\ Tick
    /\ ctxMemory' = [ctxMemory EXCEPT ![n].facts[k] = 0, ![n].updatedAt = ctxTime']
    /\ Persist(n)
    /\ UNCHANGED <<ctxUp, ctxExpired, ctxFile, ctxFailed>>

DeleteNamespace(n) ==
    /\ ctxUp /\ There(n)
    /\ \E failing \in SUBSET {n} : Deleted({n}, failing, ctxMemory)
    /\ ctxExpired' = ctxExpired \ {n}
    /\ UNCHANGED <<ctxUp, ctxTime, ctxDirty, ctxTimer>>

Ages(n) ==
    /\ There(n) \/ ctxFile[n] # Nothing
    /\ ctxExpired' = ctxExpired \cup {n}
    /\ UNCHANGED <<ctxUp, ctxTime, ctxMemory, ctxDirty, ctxTimer, ctxFile, ctxFailed>>

CleanupExpired ==
    /\ ctxUp /\ ctxExpired \cap Live # {}
    /\ \E failing \in SUBSET (ctxExpired \cap Live) : Deleted(ctxExpired \cap Live, failing, ctxMemory)
    /\ ctxExpired' = ctxExpired \ Live
    /\ UNCHANGED <<ctxUp, ctxTime, ctxDirty, ctxTimer>>

\* _persistImmediate on these, of which some fail; what is gone is not written.
Written(names, failing) ==
    /\ ctxFile' = [n \in Namespace |-> IF n \in (names \cap Live) \ failing THEN ctxMemory[n]
                                                                         ELSE ctxFile[n]]
    /\ ctxFailed' = (ctxFailed \ (names \cap Live)) \cup (failing \cap Live)

\* Mutant: a namespace that is gone is written as it was.
FlushGone ==
    /\ ctxUp /\ ctxTimer
    /\ ctxFile' = [n \in Namespace |-> IF n \notin ctxDirty THEN ctxFile[n] ELSE
                     IF There(n) THEN ctxMemory[n]
                     ELSE [there |-> TRUE, updatedAt |-> ctxTime, facts |-> [k \in FactKey |-> 0]]]
    /\ ctxDirty' = {}
    /\ ctxTimer' = FALSE
    /\ UNCHANGED <<ctxUp, ctxTime, ctxMemory, ctxExpired, ctxFailed>>

FlushDirty ==
    /\ ctxUp /\ ctxTimer
    /\ \E failing \in SUBSET ctxDirty : Written(ctxDirty, failing)
    /\ ctxDirty' = {}
    /\ ctxTimer' = FALSE
    /\ UNCHANGED <<ctxUp, ctxTime, ctxMemory, ctxExpired>>

Stopped ==
    /\ ctxUp' = FALSE
    /\ ctxMemory' = [n \in Namespace |-> Nothing]
    /\ ctxDirty' = {}
    /\ ctxTimer' = FALSE

ContextShutdown ==
    /\ ctxUp
    /\ \E failing \in SUBSET Live : Written(Live, failing)
    /\ Stopped
    /\ UNCHANGED <<ctxTime, ctxExpired>>

\* The process stops, perhaps in the middle of a write of the flush.
ContextCrash ==
    /\ ctxUp
    /\ \/ ctxFile' = ctxFile
       \/ ctxTimer /\ \E n \in ctxDirty \cap Live : ctxFile' = [ctxFile EXCEPT ![n] = Torn]
    /\ Stopped
    /\ UNCHANGED <<ctxTime, ctxExpired, ctxFailed>>

ContextNext ==
    \/ LoadFromDisk
    \/ \E n \in Namespace : CreateNamespace(n)
    \/ \E n \in Namespace, k \in FactKey : Set(n, k)
    \/ \E n \in Namespace, k \in FactKey : DeleteFact(n, k)
    \/ \E n \in Namespace : DeleteNamespace(n)
    \/ \E n \in Namespace : Ages(n)
    \/ CleanupExpired
    \/ FlushDirty
    \/ ContextShutdown
    \/ ContextCrash

-----------------------------------------------------------------------------
(* Properties.                                                              *)

\* What the flush will not write has been written: a namespace that is not
\* dirty, and whose last write did not fail, is on the disk as it is in memory,
\* so that a crash loses at most what the pending timer covers (327-357).
CleanIsOnDisk ==
    ctxUp => /\ ctxDirty # {} => ctxTimer
             /\ \A n \in Live : n \notin ctxDirty /\ n \notin ctxFailed => ctxFile[n] = ctxMemory[n]

\* A namespace that was deleted, evicted or has expired leaves nothing that the
\* next start would bring back, a flush that was pending for it included, unless
\* its file could not be removed (229-240, 335-337).
NothingComesBack ==
    ctxUp => \A n \in Namespace :
                ~There(n) => ctxFile[n] \in {Nothing, Torn} \/ n \in ctxFailed

\* Making room for a namespace never takes the one that was written last, the
\* one a plan is at work in, while there is another (405-421).
LastWrittenStays ==
    \A n \in Live : maxNamespaces > 1 /\ ctxUp /\ ctxUp' /\ ctxTime' > ctxTime
        /\ (\A o \in Live : ctxMemory[o].updatedAt <= ctxMemory[n].updatedAt)
        => ctxMemory'[n] # Nothing
EvictionSparesLastWritten == [][LastWrittenStays]_ctxVars

=============================================================================
