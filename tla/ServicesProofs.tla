----------------------------- MODULE ServicesProofs -----------------------------
(***************************************************************************)
(* Theorems about the services, for any number of plans, tasks, files,     *)
(* uses of tools and the like: every safety property of MCServices.  Each  *)
(* part has an inductive invariant of its own; the theorems at the end put *)
(* the parts together.                                                     *)
(***************************************************************************)
EXTENDS MCServices, DelegationProofs, WellFoundedInduction, FiniteSetTheorems, FunctionTheorems

\* A set of numbers has a least one.
LEMMA Smallest ==
  ASSUME NEW S \in SUBSET Nat, S # {}
  PROVE \E n \in S : \A m \in S : n <= m
<1> DEFINE R == OpToRel(<, Nat)
<1>1. IsWellFoundedOn(R, Nat)
  BY NatLessThanWellFounded
<1>3. \A x, y \in Nat : y < x => <<y,x>> \in R
  BY DEF OpToRel
<1> HIDE DEF R
<1>2. \E x \in S : \A y \in S : ~ (<<y, x>> \in R)
  BY <1>1, WFMin, Zenon
<1>4. PICK x \in S : \A y \in S : ~ (<<y, x>> \in R)
  BY <1>2
<1>5. \A y \in S : x <= y
  <2> TAKE y \in S
  <2>1. ~ (y < x)
    BY <1>3, <1>4
  <2> QED BY <2>1
<1> QED BY <1>5

\* Induction over the numbers, for a set instead of a predicate.
LEMMA NatInd ==
  ASSUME NEW P \in SUBSET Nat, 0 \in P, \A n \in P : n + 1 \in P
  PROVE P = Nat
<1>1. SUFFICES ASSUME Nat \ P # {} PROVE FALSE
  OBVIOUS
<1>2. PICK n \in Nat \ P : \A m \in Nat \ P : n <= m
  BY <1>1, Smallest
<1>3. n - 1 \in Nat \ P
  BY <1>2
<1> QED BY <1>2, <1>3

-------------------------------------------------------------------------------
\* The conversations file (conversation-manager.js).

\* As long as flushes have not overlapped: one is in flight at most, what it writes and the
\* cache it took it from hold what is on the disk, and the file is not the one it writes.
OneFlush ==
  /\ storeTimer => storeLoaded
  /\ \A f, g \in InFlight : f = g
  /\ InFlight # {} => storeLoaded
  /\ OnDisk # Broken
  /\ storeLoaded => OnDisk \subseteq storeCache
  /\ storeTmp # NoFile => storeTmp # storeFile
  /\ \A f \in InFlight :
        /\ OnDisk \subseteq storeFlush[f].snapshot /\ storeFlush[f].snapshot \subseteq storeCache
        /\ storeFlush[f].phase # "opening" => storeFlush[f].inode = storeTmp /\ storeTmp # NoFile
        /\ storeFlush[f].phase = "writing" => storeContent[storeTmp] = Broken
        /\ storeFlush[f].phase = "renaming" => storeContent[storeTmp] = storeFlush[f].snapshot

FileInv == StoreTypeOK /\ (storeOverlap \/ OneFlush)

\* What a flush in flight may be.
FlushRecord == [phase : FlushPhase, snapshot : SUBSET Change, inode : Inode \cup {NoFile}]

\* What a flush is made of, after one of its fields changes.
LEMMA FlushFields ==
  ASSUME NEW r \in FlushRecord, NEW i \in Inode \cup {NoFile}, NEW at \in FlushPhase
  PROVE  /\ r.phase \in FlushPhase /\ r.snapshot \in SUBSET Change /\ r.inode \in Inode \cup {NoFile}
         /\ [r EXCEPT !.phase = at] \in FlushRecord
         /\ [r EXCEPT !.phase = at].snapshot = r.snapshot
         /\ [r EXCEPT !.phase = at].inode = r.inode
         /\ [r EXCEPT !.phase = at].phase = at
         /\ [r EXCEPT !.phase = at, !.inode = i] \in FlushRecord
         /\ [r EXCEPT !.phase = at, !.inode = i].snapshot = r.snapshot
         /\ [r EXCEPT !.phase = at, !.inode = i].phase = at
         /\ [r EXCEPT !.phase = at, !.inode = i].inode = i
BY DEF FlushRecord

\* A flush that does nothing yet.
LEMMA IdleIs == Idle \in FlushRecord /\ Idle.phase = "idle"
BY DEF Idle, FlushRecord, FlushPhase

\* No inode that is opened is the one the name stands for, if only one flush is at work.
LEMMA OpenedIs ==
  ASSUME StoreTypeOK, NEW i \in Opened
  PROVE  i \in Inode /\ (OneFlush => i # storeFile)
BY DEF StoreTypeOK, Opened, OneFlush

\* The type of a step.
LEMMA FileTyped == ASSUME StoreTypeOK, [StoreNext]_storeVars PROVE StoreTypeOK'
<1> USE StoreAssumption DEF storeMemory, storeFiles, storeHistory
<1>0. /\ storeFlush \in [Flush -> FlushRecord] /\ {} \in SUBSET Change /\ Broken \in Content
      /\ SUBSET Change \subseteq Content
  <2>1. storeFlush \in [Flush -> FlushRecord]
    BY DEF StoreTypeOK, FlushRecord
  <2>2. {} \in SUBSET Change
    OBVIOUS
  <2>3. Broken \in Content /\ SUBSET Change \subseteq Content
    BY DEF Content
  <2> QED BY <2>1, <2>2, <2>3
<1>1. StoreTypeOK' <=> /\ storeLoaded' \in BOOLEAN /\ storeCache' \subseteq Change /\ storeTimer' \in BOOLEAN
                       /\ storeFlush' \in [Flush -> FlushRecord] /\ storeContent' \in [Inode -> Content]
                       /\ storeTmp' \in Inode \cup {NoFile} /\ storeFile' \in Inode \cup {NoFile}
                       /\ storeMade' \subseteq Change /\ storeOverlap' \in BOOLEAN /\ storeFailed' \in BOOLEAN
  BY DEF StoreTypeOK, FlushRecord
<1>2. CASE StoreLoad
  <2>1. OnDisk \in Content
    BY DEF OnDisk, StoreTypeOK, Content
  <2>2. OnDisk \ Broken \subseteq Change
    <3>1. OnDisk \in SUBSET Change \/ OnDisk = Broken
      BY <2>1 DEF Content
    <3> QED BY <3>1
  <2> QED BY <1>2, <1>0, <1>1, <2>2 DEF StoreLoad, StoreTypeOK
<1>3. ASSUME NEW c \in Change, StoreChange(c) PROVE StoreTypeOK'
  BY <1>3, <1>0, <1>1 DEF StoreChange, StoreTypeOK
<1>4. ASSUME NEW f \in Flush, StoreTimer(f) PROVE StoreTypeOK'
  <2>1. [phase |-> "opening", snapshot |-> storeCache, inode |-> NoFile] \in FlushRecord
    BY DEF FlushRecord, FlushPhase, StoreTypeOK
  <2>2. storeFlush' \in [Flush -> FlushRecord]
    BY <2>1, <1>0, <1>4 DEF StoreTimer
  <2> QED BY <1>4, <2>2, <1>1 DEF StoreTimer, StoreTypeOK
<1>5. ASSUME NEW f \in Flush, FlushOpen(f) PROVE StoreTypeOK'
  <2>1. PICK inode \in Opened :
          /\ storeTmp' = inode
          /\ storeContent' = [storeContent EXCEPT ![inode] = Broken]
          /\ storeFlush' = [storeFlush EXCEPT ![f] = [storeFlush[f] EXCEPT !.phase = "writing", !.inode = inode]]
    BY <1>5 DEF FlushOpen
  <2>2. inode \in Inode
    BY OpenedIs
  <2>3. storeFlush' \in [Flush -> FlushRecord]
    <3>1. storeFlush[f] \in FlushRecord /\ "writing" \in FlushPhase
      BY <1>0 DEF FlushPhase
    <3>2. [storeFlush[f] EXCEPT !.phase = "writing", !.inode = inode] \in FlushRecord
      BY <3>1, <2>2, FlushFields
    <3> QED BY <3>2, <2>1, <1>0
  <2>4. storeContent' \in [Inode -> Content]
    BY <2>1, <2>2, <1>0 DEF StoreTypeOK
  <2> QED BY <1>5, <2>1, <2>2, <2>3, <2>4, <1>1 DEF FlushOpen, StoreTypeOK
<1>6. ASSUME NEW f \in Flush, FlushWrite(f) PROVE StoreTypeOK'
  <2>1. PICK content \in {storeFlush[f].snapshot, Broken} :
          storeContent' = [storeContent EXCEPT ![storeFlush[f].inode] = content]
    BY <1>6 DEF FlushWrite
  <2>2. storeFlush[f] \in FlushRecord /\ "renaming" \in FlushPhase
    BY <1>0 DEF FlushPhase
  <2>3. content \in Content
    BY <2>2, <1>0, FlushFields
  <2>4. storeContent' \in [Inode -> Content]
    BY <2>1, <2>3 DEF StoreTypeOK
  <2>5. storeFlush' = [storeFlush EXCEPT ![f] = [storeFlush[f] EXCEPT !.phase = "renaming"]]
    BY <1>6 DEF FlushWrite
  <2>6. [storeFlush[f] EXCEPT !.phase = "renaming"] \in FlushRecord
    BY <2>2, FlushFields
  <2>7. storeFlush' \in [Flush -> FlushRecord]
    BY <2>5, <2>6, <1>0
  <2> QED BY <1>6, <2>4, <2>7, <1>1 DEF FlushWrite, StoreTypeOK
<1>7. ASSUME NEW f \in Flush, FlushRename(f) \/ FlushFail(f) PROVE StoreTypeOK'
  <2>1. storeFlush' \in [Flush -> FlushRecord]
    BY <1>0, <1>7, IdleIs DEF FlushRename, FlushFail
  <2> QED BY <1>7, <2>1, <1>1 DEF FlushRename, FlushFail, StoreTypeOK
<1>8. CASE StoreFlushSync
  <2>1. PICK inode \in Opened : storeContent' = [storeContent EXCEPT ![inode] = storeCache] /\ storeFile' = inode
    BY <1>8 DEF StoreFlushSync
  <2>2. inode \in Inode
    BY OpenedIs
  <2>3. storeContent' \in [Inode -> Content]
    BY <2>1, <2>2, <1>0 DEF StoreTypeOK
  <2> QED BY <1>8, <2>1, <2>2, <2>3, <1>0, <1>1 DEF StoreFlushSync, StoreTypeOK
<1>9. CASE StoreCrash
  <2>1. storeFlush' \in [Flush -> FlushRecord]
    BY <1>9, IdleIs DEF StoreCrash
  <2> QED BY <1>9, <2>1, <1>0, <1>1 DEF StoreCrash, StoreTypeOK
<1>10. CASE UNCHANGED storeVars
  BY <1>10, <1>0, <1>1 DEF storeVars, StoreTypeOK
<1> QED BY <1>2, <1>3, <1>4, <1>5, <1>6, <1>7, <1>8, <1>9, <1>10 DEF StoreNext, FlushStep

\* A step leaves a file that is readable and not older, until flushes overlap.
LEMMA FileKept ==
  ASSUME FileInv, [StoreNext]_storeVars PROVE (storeOverlap' \/ OneFlush') /\ KeepsChanges
<1> USE StoreAssumption DEF storeMemory, storeFiles, storeHistory
<1>0. /\ StoreTypeOK /\ StoreTypeOK' /\ storeFlush \in [Flush -> FlushRecord]
      /\ OnDisk \in Content /\ (OnDisk # Broken => OnDisk \subseteq Change)
  <2>1. StoreTypeOK /\ StoreTypeOK'
    BY FileTyped DEF FileInv
  <2>2. storeFlush \in [Flush -> FlushRecord]
    BY <2>1 DEF StoreTypeOK, FlushRecord
  <2>3. {} \in SUBSET Change
    OBVIOUS
  <2>4. OnDisk \in Content
    <3>1. CASE storeFile = NoFile
      BY <3>1, <2>3 DEF OnDisk, Content
    <3>2. CASE storeFile # NoFile
      BY <3>2, <2>1 DEF OnDisk, StoreTypeOK
    <3> QED BY <3>1, <3>2
  <2>5. OnDisk # Broken => OnDisk \subseteq Change
    BY <2>4 DEF Content
  <2> QED BY <2>1, <2>2, <2>4, <2>5
<1>1. CASE storeOverlap'
  BY <1>1 DEF KeepsChanges
<1>2. CASE ~storeOverlap'
  <2>0. ~storeOverlap /\ OneFlush
    <3>1. storeOverlap => storeOverlap'
      BY DEF StoreNext, StoreLoad, StoreChange, StoreTimer, FlushStep, FlushOpen, FlushWrite, FlushRename, FlushFail,
             StoreFlushSync, StoreCrash, storeVars
    <3> QED BY <3>1, <1>2 DEF FileInv
  <2> SUFFICES OneFlush' /\ OnDisk \subseteq OnDisk'
    BY DEF KeepsChanges
  <2>i. \A f \in Flush : f \in InFlight <=> storeFlush[f].phase # "idle"
    BY DEF InFlight
  <2>1. CASE StoreLoad
    <3>1. storeFile' = storeFile /\ storeCache' = OnDisk \ Broken /\ OnDisk' = OnDisk
          /\ storeLoaded' = TRUE /\ InFlight' = InFlight /\ storeFlush' = storeFlush
          /\ UNCHANGED <<storeTimer, storeContent, storeTmp>>
      BY <2>0, <2>1 DEF StoreLoad, OneFlush, OnDisk, InFlight
    <3>2. OnDisk \ Broken = OnDisk
      BY <1>0, <2>0 DEF OneFlush, Broken
    <3>3. InFlight = {}
      BY <2>0, <2>1 DEF OneFlush, StoreLoad
    <3> QED BY <3>1, <3>2, <3>3, <2>0 DEF OneFlush
  <2>2. ASSUME NEW c \in Change, StoreChange(c) PROVE OneFlush' /\ OnDisk \subseteq OnDisk'
    <3>1. /\ storeCache \subseteq storeCache' /\ OnDisk' = OnDisk /\ InFlight' = InFlight /\ storeLoaded' = TRUE
          /\ storeLoaded
          /\ UNCHANGED <<storeFlush, storeContent, storeTmp, storeFile>>
      BY <2>2 DEF StoreChange, OnDisk, InFlight
    <3> QED BY <3>1, <2>0 DEF OneFlush
  <2>3. ASSUME NEW f \in Flush, StoreTimer(f) PROVE OneFlush' /\ OnDisk \subseteq OnDisk'
    <3>1. /\ InFlight = {} /\ OnDisk' = OnDisk /\ storeLoaded /\ storeTimer' = FALSE
          /\ storeFlush' = [storeFlush EXCEPT ![f] = [phase |-> "opening", snapshot |-> storeCache, inode |-> NoFile]]
          /\ UNCHANGED <<storeLoaded, storeCache, storeContent, storeTmp, storeFile>>
      BY <2>3, <1>2, <2>0 DEF StoreTimer, OnDisk, OneFlush
    <3>2. /\ \A g \in Flush \ {f} : storeFlush'[g] = storeFlush[g]
          /\ storeFlush'[f].phase = "opening" /\ storeFlush'[f].snapshot = storeCache
      BY <3>1, <1>0
    <3>3. InFlight' = {f}
      BY <3>1, <3>2 DEF InFlight
    <3>4. \A g \in InFlight' : g = f
      BY <3>3
    <3> QED BY <3>1, <3>2, <3>3, <3>4, <2>0 DEF OneFlush
  <2>4. ASSUME NEW f \in Flush, FlushOpen(f) PROVE OneFlush' /\ OnDisk \subseteq OnDisk'
    <3>1. f \in InFlight /\ InFlight = {f}
      BY <2>4, <2>0, <2>i DEF FlushOpen, OneFlush
    <3>2. PICK inode \in Opened :
            /\ storeTmp' = inode
            /\ storeContent' = [storeContent EXCEPT ![inode] = Broken]
            /\ storeFlush' = [storeFlush EXCEPT ![f] = [storeFlush[f] EXCEPT !.phase = "writing", !.inode = inode]]
      BY <2>4 DEF FlushOpen
    <3>3. inode \in Inode /\ inode # storeFile
      BY <1>0, <2>0, OpenedIs
    <3>4. OnDisk' = OnDisk
      BY <2>4, <3>2, <3>3, <1>0 DEF FlushOpen, OnDisk, StoreTypeOK
    <3>5. /\ storeFlush'[f].phase = "writing" /\ storeFlush'[f].inode = inode
          /\ storeFlush'[f].snapshot = storeFlush[f].snapshot
      BY <3>2, <3>3, <1>0
    <3>6. storeContent'[inode] = Broken
      BY <3>2, <3>3, <1>0 DEF StoreTypeOK
    <3>7. InFlight' = {f}
      <4>1. \A g \in Flush \ {f} : storeFlush'[g] = storeFlush[g]
        BY <3>2, <1>0
      <4> QED BY <4>1, <3>1, <3>5, <2>i DEF InFlight
    <3>8. UNCHANGED <<storeLoaded, storeCache, storeTimer, storeFile>>
      BY <2>4 DEF FlushOpen
    <3>9. \A g \in InFlight' : g = f
      BY <3>7
    <3> QED BY <3>1, <3>2, <3>3, <3>4, <3>5, <3>6, <3>7, <3>8, <3>9, <2>0 DEF OneFlush
  <2>5. ASSUME NEW f \in Flush, FlushWrite(f) PROVE OneFlush' /\ OnDisk \subseteq OnDisk'
    <3>1. f \in InFlight /\ InFlight = {f} /\ storeFlush[f].phase = "writing"
      BY <2>5, <2>0, <2>i DEF FlushWrite, OneFlush
    <3>2. /\ storeFlush[f].inode = storeTmp /\ storeTmp # NoFile /\ storeContent[storeTmp] = Broken
          /\ storeTmp # storeFile /\ storeTmp \in Inode
      BY <3>1, <2>0, <1>0 DEF OneFlush, StoreTypeOK
    <3>3. storeFlush[f].snapshot # Broken
      <4>1. storeFlush[f].snapshot \subseteq Change
        BY <1>0, <3>1, FlushFields, IdleIs DEF FlushRecord
      <4> QED BY <4>1 DEF Broken
    <3>4. storeContent' = [storeContent EXCEPT ![storeTmp] = storeFlush[f].snapshot]
      BY <2>5, <3>1, <3>2 DEF FlushWrite
    <3>5. storeFlush' = [storeFlush EXCEPT ![f] = [storeFlush[f] EXCEPT !.phase = "renaming"]]
          /\ UNCHANGED <<storeLoaded, storeCache, storeTimer, storeFile, storeTmp>>
      BY <2>5 DEF FlushWrite
    <3>6. OnDisk' = OnDisk
      BY <3>2, <3>4, <3>5, <1>0 DEF OnDisk, StoreTypeOK
    <3>7. /\ storeFlush'[f].phase = "renaming" /\ storeFlush'[f].inode = storeFlush[f].inode
          /\ storeFlush'[f].snapshot = storeFlush[f].snapshot
      BY <3>5, <1>0, <3>1
    <3>8. storeContent'[storeTmp] = storeFlush[f].snapshot
      BY <3>2, <3>4, <1>0 DEF StoreTypeOK
    <3>9. InFlight' = {f}
      <4>1. \A g \in Flush \ {f} : storeFlush'[g] = storeFlush[g]
        BY <3>5, <1>0
      <4> QED BY <4>1, <3>1, <3>7, <2>i DEF InFlight
    <3>10. \A g \in InFlight' : g = f
      BY <3>9
    <3> QED BY <3>1, <3>2, <3>5, <3>6, <3>7, <3>8, <3>9, <3>10, <2>0 DEF OneFlush
  <2>6. ASSUME NEW f \in Flush, FlushRename(f) PROVE OneFlush' /\ OnDisk \subseteq OnDisk'
    <3>1. f \in InFlight /\ InFlight = {f} /\ storeFlush[f].phase = "renaming"
      BY <2>6, <2>0, <2>i DEF FlushRename, OneFlush
    <3>2. /\ storeTmp # NoFile /\ storeContent[storeTmp] = storeFlush[f].snapshot
          /\ OnDisk \subseteq storeFlush[f].snapshot /\ storeFlush[f].snapshot \subseteq storeCache /\ storeLoaded
      BY <3>1, <2>0 DEF OneFlush
    <3>3. storeFile' = storeTmp /\ storeTmp' = NoFile /\ storeFlush' = [storeFlush EXCEPT ![f] = Idle]
          /\ UNCHANGED <<storeLoaded, storeCache, storeTimer, storeContent>>
      BY <2>6, <3>2 DEF FlushRename
    <3>4. OnDisk' = storeFlush[f].snapshot
      BY <3>2, <3>3 DEF OnDisk
    <3>5. storeFlush[f].snapshot # Broken
      BY <3>2, <1>0 DEF Broken, StoreTypeOK
    <3>6. InFlight' = {}
      <4>1. \A g \in Flush \ {f} : storeFlush'[g] = storeFlush[g]
        BY <3>3, <1>0
      <4>2. storeFlush'[f].phase = "idle"
        BY <3>3, <1>0, IdleIs
      <4> QED BY <4>1, <4>2, <3>1, <2>i DEF InFlight
    <3> QED BY <3>2, <3>3, <3>4, <3>5, <3>6, <2>0 DEF OneFlush
  <2>7. ASSUME NEW f \in Flush, FlushFail(f) PROVE OneFlush' /\ OnDisk \subseteq OnDisk'
    <3>1. f \in InFlight /\ InFlight = {f}
      BY <2>7, <2>0, <2>i DEF FlushFail, OneFlush
    <3>2. storeFlush' = [storeFlush EXCEPT ![f] = Idle]
          /\ UNCHANGED <<storeLoaded, storeCache, storeTimer, storeContent, storeTmp, storeFile>>
      BY <2>7 DEF FlushFail
    <3>3. InFlight' = {}
      <4>1. \A g \in Flush \ {f} : storeFlush'[g] = storeFlush[g]
        BY <3>2, <1>0
      <4>2. storeFlush'[f].phase = "idle"
        BY <3>2, <1>0, IdleIs
      <4> QED BY <4>1, <4>2, <3>1, <2>i DEF InFlight
    <3>4. OnDisk' = OnDisk
      BY <3>2 DEF OnDisk
    <3> QED BY <3>2, <3>3, <3>4, <2>0 DEF OneFlush
  <2>8. CASE StoreFlushSync
    <3>1. InFlight = {} /\ storeLoaded
      BY <2>8, <1>2 DEF StoreFlushSync
    <3>2. PICK inode \in Opened : storeContent' = [storeContent EXCEPT ![inode] = storeCache] /\ storeFile' = inode
      BY <2>8 DEF StoreFlushSync
    <3>3. inode \in Inode
      BY <1>0, OpenedIs
    <3>4. OnDisk' = storeCache
      BY <3>2, <3>3, <1>0 DEF OnDisk, StoreTypeOK
    <3>5. storeCache # Broken
      BY <1>0 DEF StoreTypeOK, Broken
    <3>6. storeTmp' = NoFile /\ InFlight' = InFlight
          /\ UNCHANGED <<storeLoaded, storeCache, storeFlush>> /\ storeTimer' = FALSE
      BY <2>8 DEF StoreFlushSync, InFlight
    <3> QED BY <3>1, <3>4, <3>5, <3>6, <2>0 DEF OneFlush
  <2>9. CASE StoreCrash
    <3>1. /\ storeLoaded' = FALSE /\ storeTimer' = FALSE /\ storeFlush' = [f \in Flush |-> Idle]
          /\ UNCHANGED <<storeContent, storeTmp, storeFile>>
      BY <2>9 DEF StoreCrash
    <3>2. InFlight' = {}
      BY <3>1, IdleIs DEF InFlight
    <3>3. OnDisk' = OnDisk
      BY <3>1 DEF OnDisk
    <3> QED BY <3>1, <3>2, <3>3, <2>0 DEF OneFlush
  <2>10. CASE UNCHANGED storeVars
    BY <2>10, <2>0 DEF OneFlush, storeVars, OnDisk, InFlight
  <2> QED BY <2>1, <2>2, <2>3, <2>4, <2>5, <2>6, <2>7, <2>8, <2>9, <2>10 DEF StoreNext, FlushStep
<1> QED BY <1>1, <1>2

\* The invariant of the file holds always, and no step makes the file older.
LEMMA FileSafe == StoreInit /\ [][StoreNext]_storeVars => []FileInv /\ StoreNeverOlder
<1>1. StoreInit => FileInv
  <2> SUFFICES ASSUME StoreInit PROVE FileInv
    OBVIOUS
  <2>1. StoreTypeOK
    BY IdleIs DEF StoreInit, StoreTypeOK, FlushRecord, Content
  <2>2. InFlight = {} /\ OnDisk = {}
    BY IdleIs DEF StoreInit, InFlight, OnDisk
  <2> QED BY <2>1, <2>2 DEF StoreInit, FileInv, OneFlush, Broken
<1>2. FileInv /\ [StoreNext]_storeVars => FileInv' /\ [KeepsChanges]_storeVars
  <2> SUFFICES ASSUME FileInv, [StoreNext]_storeVars PROVE FileInv' /\ [KeepsChanges]_storeVars
    OBVIOUS
  <2>1. StoreTypeOK'
    BY FileTyped DEF FileInv
  <2> QED BY <2>1, FileKept DEF FileInv
<1> QED BY <1>1, <1>2, PTL DEF StoreNeverOlder

\* What the invariant is for.
LEMMA FileReadable == FileInv => StoreTypeOK /\ StoreReadable
BY DEF FileInv, StoreReadable, OneFlush

-------------------------------------------------------------------------------
\* Processes that outlive a crash (pid-registry.js, index.js).

Timer == {"boot", "watchdog", "killAll"}

\* The pids the server remembers: those it has registered, those on its file and those a
\* timer will signal.
Remembered == lifeFile \cup lifeChildren \cup UNION {lifeVictims[timer] : timer \in DOMAIN lifeVictims}

\* The pid -1 is registered only for a run; it is on the file only while it is registered,
\* and no timer will signal it.
FakeInPlace ==
  /\ Fake \in lifeFile => Fake \in lifeChildren
  /\ \A timer \in Timer : Fake \notin lifeVictims[timer]

\* Unless the registry is misled, none of what it remembers is another program's.
LifeInv ==
  /\ LifecycleTypeOK
  /\ SparesOthers
  /\ lifeServer = "down" => lifeChildren = {}
  /\ Fake \in lifeChildren => lifeApi
  /\ lifeMisled \/ (FakeInPlace /\ \A p \in Remembered \ {Fake} : lifeProc[p] # "foreign")

\* What a step remembers that was remembered before, or is an agent, is no other program's.
LEMMA LifeKept ==
  ASSUME LifeInv, LifecycleTypeOK',
         lifeMisled => lifeMisled',
         \A p \in Remembered' : p \in Remembered \/ p = Fake \/ lifeProc'[p] = "agent",
         \A p \in Pid : lifeProc'[p] = "foreign" => lifeProc[p] = "foreign",
         lifeStruck' => lifeStruck
                         \/ (~lifeMisled' /\ \E p \in Remembered \ {Fake} : lifeProc[p] = "foreign"),
         lifeServer' = "down" => lifeChildren' = {},
         Fake \in lifeChildren' => lifeApi',
         lifeMisled' \/ FakeInPlace'
  PROVE  LifeInv'
<1>1. \A p \in Remembered' \ {Fake} : p \in Pid
  BY DEF Remembered, LifecycleTypeOK
<1>2. SparesOthers'
  BY DEF LifeInv, SparesOthers
<1>3. lifeMisled' \/ \A p \in Remembered' \ {Fake} : lifeProc'[p] # "foreign"
  <2> SUFFICES ASSUME ~lifeMisled', NEW p \in Remembered' \ {Fake} PROVE lifeProc'[p] # "foreign"
    OBVIOUS
  <2>1. p \in Pid /\ (p \in Remembered \/ lifeProc'[p] = "agent")
    BY <1>1
  <2>2. p \in Remembered => lifeProc[p] # "foreign"
    BY DEF LifeInv
  <2> QED BY <2>1, <2>2
<1> QED BY <1>2, <1>3 DEF LifeInv

\* What a write of the registry leaves on the file.
LEMMA FileIs ==
  ASSUME Persisted
  PROVE  /\ lifeFile' \in {lifeFile, lifeChildren'}
         /\ lifeMisled => lifeMisled'
         /\ lifeMisled \in BOOLEAN => lifeMisled' \in BOOLEAN
         /\ lifeMisled' \/ (Fake \in lifeFile' => Fake \in lifeChildren')
<1>1. CASE lifeFile' = lifeChildren' /\ lifeMisled' = lifeMisled
  BY <1>1
<1>2. CASE lifeFile' = lifeFile /\ lifeMisled' = (lifeMisled \/ Fake \in lifeFile \ lifeChildren')
  <2>1. (lifeMisled => lifeMisled') /\ lifeMisled' \in BOOLEAN
    BY <1>2
  <2>2. lifeMisled' \/ (Fake \in lifeFile' => Fake \in lifeChildren')
    BY <1>2
  <2> QED BY <1>2, <2>1, <2>2
<1> QED BY <1>1, <1>2 DEF Persisted

\* The type of a step.
LEMMA LifeTyped ==
  ASSUME LifecycleTypeOK, [LifecycleNext]_lifeVars PROVE LifecycleTypeOK'
<1> USE LifecycleAssumption DEF LifecycleTypeOK, lifeWork, lifeHistory, ServerPhase
<1>0. Nobody \in [{"boot", "watchdog", "killAll"} -> SUBSET (Pid \cup {Fake})] /\ 0 \in 0 .. MaxQueue
  BY DEF Nobody
<1>g. ASSUME Gone, lifeProc' \in [Pid -> {"free", "agent", "foreign"}], lifeFile' \subseteq Pid \cup {Fake},
             lifeStruck' \in BOOLEAN
      PROVE  LifecycleTypeOK'
  BY <1>0, <1>g DEF Gone
<1>1. ASSUME NEW p \in Pid \cup {Fake}, StartAgent(p) \/ StartQueued(p) PROVE LifecycleTypeOK'
  <2>1. StartChild(p) /\ lifeQueue' \in 0 .. MaxQueue
    BY <1>1 DEF StartAgent, StartQueued
  <2>2. lifeFile' \in {lifeFile, lifeChildren'} /\ lifeMisled' \in BOOLEAN /\ lifeChildren' = lifeChildren \cup {p}
    BY <2>1, FileIs DEF StartChild, Register
  <2>3. /\ lifeProc' \in [Pid -> {"free", "agent", "foreign"}] /\ lifeApi' \in BOOLEAN
        /\ lifeStarted' \subseteq Pid /\ lifeChildren' \subseteq lifeStarted' \cup {Fake}
    <3>1. CASE p = Fake
      BY <2>1, <2>2, <3>1 DEF StartChild
    <3>2. CASE p # Fake
      BY <2>1, <2>2, <3>2 DEF StartChild
    <3> QED BY <3>1, <3>2
  <2> QED BY <2>1, <2>2, <2>3 DEF StartChild
<1>2. ASSUME NEW p \in Pid, ProcessEnds(p) PROVE LifecycleTypeOK'
  <2>1. lifeChildren' = lifeChildren \ {p} /\ lifeFile' \in {lifeFile, lifeChildren'} /\ lifeMisled' \in BOOLEAN
    BY <1>2, FileIs DEF ProcessEnds, Unregister
  <2> QED BY <1>2, <2>1 DEF ProcessEnds
<1>3. ASSUME NEW p \in Pid \cup {Fake}, AbortAgent(p) PROVE LifecycleTypeOK'
  <2>1. lifeChildren' = lifeChildren \ {p} /\ lifeFile' \in {lifeFile, lifeChildren'} /\ lifeMisled' \in BOOLEAN
    BY <1>3, FileIs DEF AbortAgent, Unregister
  <2>2. lifeApi' \in BOOLEAN /\ lifeQueue' \in 0 .. MaxQueue
    BY <1>3 DEF AbortAgent
  <2> QED BY <1>3, <2>1, <2>2 DEF AbortAgent
<1>4. ASSUME NEW p \in Pid, ForeignStarts(p) PROVE LifecycleTypeOK'
  <2>1. lifeProc' \in [Pid -> {"free", "agent", "foreign"}] /\ lifeMisled' \in BOOLEAN
    BY <1>4 DEF ForeignStarts
  <2> QED BY <1>4, <2>1 DEF ForeignStarts
<1>5. CASE QueueMessage \/ ClientComes \/ ClientLeaves \/ Signal
  <2>1. CASE QueueMessage
    <3>1. lifeQueue' \in 0 .. MaxQueue
      BY <2>1 DEF QueueMessage
    <3> QED BY <2>1, <3>1 DEF QueueMessage
  <2>2. CASE ClientComes \/ ClientLeaves \/ Signal
    BY <2>2 DEF ClientComes, ClientLeaves, Signal
  <2> QED BY <1>5, <2>1, <2>2
<1>6. CASE Boot
  <2>1. lifeFile' \in {lifeFile, lifeChildren} /\ lifeMisled' \in BOOLEAN
    BY <1>6, FileIs DEF Boot
  <2>2. lifeVictims' \in [{"boot", "watchdog", "killAll"} -> SUBSET (Pid \cup {Fake})]
    BY <1>6 DEF Boot
  <2> QED BY <1>6, <2>1, <2>2 DEF Boot, Struck
<1>7. CASE WatchdogSweep
  BY <1>7 DEF WatchdogSweep, Orphans
<1>8. ASSUME NEW timer \in {"boot", "watchdog"}, KillSurvivors(timer) PROVE LifecycleTypeOK'
  <2>1. /\ lifeFile' \in {lifeFile, lifeChildren'} /\ lifeMisled' \in BOOLEAN
        /\ lifeChildren' = lifeChildren \ (lifeVictims[timer] \ {Fake})
        /\ lifeStarted' = lifeStarted \ (lifeVictims[timer] \ {Fake})
    BY <1>8, FileIs DEF KillSurvivors
  <2>2. lifeProc' \in [Pid -> {"free", "agent", "foreign"}] /\ lifeStruck' \in BOOLEAN
    BY <1>8 DEF KillSurvivors, Struck, Killed
  <2>3. lifeVictims' \in [{"boot", "watchdog", "killAll"} -> SUBSET (Pid \cup {Fake})]
    BY <1>8 DEF KillSurvivors
  <2> QED BY <1>8, <2>1, <2>2, <2>3 DEF KillSurvivors
<1>9. CASE KillAll
  <2>1. lifeStruck' \in BOOLEAN /\ lifeProc' = lifeProc /\ lifeFile' = lifeFile
    BY <1>9 DEF KillAll, Struck
  <2>2. CASE lifeChildren = {}
    BY <2>1, <2>2, <1>9, <1>g DEF KillAll
  <2>3. CASE lifeChildren # {}
    <3>1. lifeVictims' \in [{"boot", "watchdog", "killAll"} -> SUBSET (Pid \cup {Fake})]
      BY <2>3, <1>9 DEF KillAll
    <3> QED BY <2>1, <2>3, <3>1, <1>9 DEF KillAll
  <2> QED BY <2>2, <2>3
<1>10. CASE Exit
  <2>1. lifeStruck' \in BOOLEAN /\ lifeProc' \in [Pid -> {"free", "agent", "foreign"}]
    BY <1>10 DEF Exit, Struck, Killed
  <2> QED BY <2>1, <1>10, <1>g DEF Exit
<1>11. CASE Crash
  BY <1>11, <1>g DEF Crash
<1>12. CASE UNCHANGED lifeVars
  BY <1>12 DEF lifeVars
<1>13. CASE ApiRunEnds
  <2>1. lifeChildren' = lifeChildren \ {Fake} /\ lifeFile' \in {lifeFile, lifeChildren'} /\ lifeMisled' \in BOOLEAN
    BY <1>13, FileIs DEF ApiRunEnds, Unregister
  <2> QED BY <1>13, <2>1 DEF ApiRunEnds
<1> QED BY <1>1, <1>2, <1>3, <1>4, <1>5, <1>6, <1>7, <1>8, <1>9, <1>10, <1>11, <1>12, <1>13
        DEF LifecycleNext, CloseEnds, SecondSignal

\* Every step keeps the invariant.
LEMMA LifeStep == LifeInv /\ [LifecycleNext]_lifeVars => LifeInv'
<1> SUFFICES ASSUME LifeInv, [LifecycleNext]_lifeVars PROVE LifeInv'
  OBVIOUS
<1> USE LifecycleAssumption
<1>0. /\ LifecycleTypeOK /\ LifecycleTypeOK'
      /\ DOMAIN lifeVictims = Timer /\ DOMAIN lifeVictims' = Timer
  <2>1. LifecycleTypeOK /\ LifecycleTypeOK'
    BY LifeTyped DEF LifeInv
  <2> QED BY <2>1 DEF LifecycleTypeOK, Timer
<1>u. ASSUME NEW p \in Pid \cup {Fake}, Unregister(p), lifeVictims' = lifeVictims
      PROVE  /\ Remembered' \subseteq Remembered /\ (lifeMisled => lifeMisled')
             /\ lifeChildren' = lifeChildren \ {p} /\ (lifeMisled' \/ FakeInPlace')
  <2>1. lifeChildren' = lifeChildren \ {p} /\ lifeFile' \in {lifeFile, lifeChildren'} /\ (lifeMisled => lifeMisled')
    BY <1>u, FileIs DEF Unregister
  <2>2. Remembered' \subseteq Remembered
    BY <1>u, <2>1 DEF Remembered
  <2>3. lifeMisled' \/ (Fake \in lifeFile' => Fake \in lifeChildren')
    <3>1. CASE p \in lifeChildren
      BY <1>u, <3>1, FileIs DEF Unregister
    <3>2. CASE p \notin lifeChildren
      BY <1>u, <3>2, <2>1 DEF Unregister, LifeInv, FakeInPlace
    <3> QED BY <3>1, <3>2
  <2> QED BY <1>u, <2>1, <2>2, <2>3 DEF LifeInv, FakeInPlace
<1>1. ASSUME NEW p \in Pid \cup {Fake}, StartAgent(p) \/ StartQueued(p) PROVE LifeInv'
  <2>1. /\ StartChild(p) /\ Persisted /\ lifeServer # "down" /\ lifeServer' = lifeServer
        /\ lifeChildren' = lifeChildren \cup {p} /\ lifeVictims' = lifeVictims /\ lifeStruck' = lifeStruck
    BY <1>1 DEF StartAgent, StartQueued, StartChild, Register, Running
  <2>2. \A q \in Remembered' : q \in Remembered \/ q = p
    BY <2>1, FileIs DEF Remembered
  <2>3. (p # Fake => lifeProc'[p] = "agent") /\ \A q \in Pid : lifeProc'[q] = "foreign" => lifeProc[q] = "foreign"
    <3>1. CASE p = Fake
      BY <2>1, <3>1 DEF StartChild
    <3>2. CASE p # Fake
      BY <2>1, <3>2, <1>0 DEF StartChild, LifecycleTypeOK
    <3> QED BY <3>1, <3>2
  <2>4. Fake \in lifeChildren' => lifeApi'
    BY <2>1 DEF StartChild, LifeInv
  <2>5. lifeMisled' \/ FakeInPlace'
    BY <2>1, FileIs DEF LifeInv, FakeInPlace
  <2> QED BY <1>0, <2>1, <2>2, <2>3, <2>4, <2>5, FileIs, LifeKept
<1>2. ASSUME NEW p \in Pid, ProcessEnds(p) PROVE LifeInv'
  <2>1. /\ Unregister(p) /\ lifeVictims' = lifeVictims /\ lifeStruck' = lifeStruck /\ lifeApi' = lifeApi
        /\ lifeServer' = lifeServer /\ lifeProc' = [lifeProc EXCEPT ![p] = "free"]
    BY <1>2 DEF ProcessEnds
  <2>2. \A q \in Pid : lifeProc'[q] = "foreign" => lifeProc[q] = "foreign"
    BY <2>1, <1>0 DEF LifecycleTypeOK
  <2>3. /\ Remembered' \subseteq Remembered /\ (lifeMisled => lifeMisled')
        /\ lifeChildren' = lifeChildren \ {p} /\ (lifeMisled' \/ FakeInPlace')
    BY <2>1, <1>u
  <2>4. (lifeServer' = "down" => lifeChildren' = {}) /\ (Fake \in lifeChildren' => lifeApi')
    BY <2>1, <2>3 DEF LifeInv
  <2> QED BY <1>0, <2>1, <2>2, <2>3, <2>4, LifeKept
<1>3. ASSUME NEW p \in Pid \cup {Fake}, AbortAgent(p) \/ (p = Fake /\ ApiRunEnds) PROVE LifeInv'
  <2>1. /\ Unregister(p) /\ lifeVictims' = lifeVictims /\ lifeStruck' = lifeStruck
        /\ (p # Fake => lifeApi' = lifeApi)
        /\ lifeServer' = lifeServer /\ lifeProc' = lifeProc
    BY <1>3 DEF AbortAgent, ApiRunEnds
  <2>2. /\ Remembered' \subseteq Remembered /\ (lifeMisled => lifeMisled')
        /\ lifeChildren' = lifeChildren \ {p} /\ (lifeMisled' \/ FakeInPlace')
    BY <2>1, <1>u
  <2>3. (lifeServer' = "down" => lifeChildren' = {}) /\ (Fake \in lifeChildren' => lifeApi')
    BY <2>1, <2>2 DEF LifeInv
  <2> QED BY <1>0, <2>1, <2>2, <2>3, LifeKept
<1>4. ASSUME NEW p \in Pid, ForeignStarts(p) PROVE LifeInv'
  <2>1. /\ Remembered' = Remembered /\ lifeStruck' = lifeStruck /\ (FakeInPlace' <=> FakeInPlace)
        /\ lifeProc' = [lifeProc EXCEPT ![p] = "foreign"]
        /\ lifeServer' = lifeServer /\ lifeChildren' = lifeChildren /\ lifeApi' = lifeApi
    BY <1>4 DEF ForeignStarts, Remembered, FakeInPlace
  <2>2. lifeMisled' = (lifeMisled \/ p \in Remembered)
    BY <1>4 DEF ForeignStarts, Remembered
  <2>3. \A q \in Pid \ {p} : lifeProc'[q] = lifeProc[q]
    BY <2>1, <1>0 DEF LifecycleTypeOK
  <2>4. Remembered \subseteq Pid \cup {Fake}
    BY <1>0 DEF LifecycleTypeOK, Remembered
  <2> QED BY <1>0, <2>1, <2>2, <2>3, <2>4 DEF LifeInv, SparesOthers
<1>5. CASE QueueMessage \/ ClientComes \/ ClientLeaves \/ Signal \/ UNCHANGED lifeVars
  <2>1. /\ UNCHANGED <<lifeProc, lifeFile, lifeChildren, lifeVictims, lifeMisled, lifeStruck, lifeApi>>
        /\ lifeServer' = "down" => lifeServer = "down"
    BY <1>5 DEF QueueMessage, ClientComes, ClientLeaves, Signal, lifeVars, lifeHistory
  <2>2. Remembered' = Remembered /\ (FakeInPlace' <=> FakeInPlace)
    BY <2>1 DEF Remembered, FakeInPlace
  <2> QED BY <1>0, <2>1, <2>2, LifeKept DEF LifeInv
<1>6. CASE Boot
  <2>1. /\ lifeProc' = lifeProc /\ lifeChildren' = lifeChildren /\ lifeChildren = {} /\ lifeApi' = lifeApi
        /\ lifeServer' = "up"
        /\ lifeFile' \in {lifeFile, {}} /\ (lifeMisled => lifeMisled')
        /\ lifeVictims' = [lifeVictims EXCEPT !["boot"] = IF \E p \in lifeFile : Alive(p) THEN lifeFile ELSE {}]
        /\ lifeStruck' = (lifeStruck \/ (~lifeMisled' /\ \E p \in Reached(lifeFile) : lifeProc[p] = "foreign"))
    BY <1>6, FileIs DEF Boot, Struck, LifeInv
  <2>2. ~lifeMisled' => Fake \notin lifeFile /\ FakeInPlace
    BY <2>1 DEF LifeInv, FakeInPlace
  <2>3. \A timer \in Timer : lifeVictims'[timer] \subseteq lifeFile \cup lifeVictims[timer]
    BY <2>1, <1>0 DEF LifecycleTypeOK, Timer
  <2>4. \A q \in Remembered' : q \in Remembered
    BY <2>1, <2>3, <1>0 DEF Remembered
  <2>5. lifeMisled' \/ FakeInPlace'
    BY <2>1, <2>2, <2>3 DEF FakeInPlace
  <2>6. lifeStruck' => lifeStruck \/ (~lifeMisled' /\ \E p \in Remembered \ {Fake} : lifeProc[p] = "foreign")
    BY <2>1, <2>2 DEF Reached, Remembered
  <2> QED BY <1>0, <2>1, <2>4, <2>5, <2>6, LifeKept
<1>7. CASE WatchdogSweep
  <2>1. /\ lifeFile' = lifeFile /\ lifeChildren' = lifeChildren /\ lifeProc' = lifeProc /\ lifeApi' = lifeApi
        /\ lifeMisled' = lifeMisled /\ lifeStruck' = lifeStruck /\ lifeServer' = lifeServer
        /\ lifeVictims' = [lifeVictims EXCEPT !["watchdog"] = Orphans \ lifeChildren]
    BY <1>7 DEF WatchdogSweep, lifeHistory
  <2>2. \A timer \in Timer : lifeVictims'[timer] \subseteq Orphans \cup lifeVictims[timer]
    BY <2>1, <1>0 DEF LifecycleTypeOK, Timer
  <2>3. \A q \in Remembered' : q \in Remembered \/ q \in Orphans
    BY <2>1, <2>2, <1>0 DEF Remembered
  <2>4. lifeMisled' \/ FakeInPlace'
    BY <2>1, <2>2 DEF LifeInv, FakeInPlace, Orphans
  <2> QED BY <1>0, <2>1, <2>3, <2>4, LifeKept DEF Orphans, LifeInv
<1>8. ASSUME NEW timer \in {"boot", "watchdog"}, KillSurvivors(timer) PROVE LifeInv'
  <2> DEFINE V == lifeVictims[timer] \ {Fake}
  <2>1. /\ lifeChildren' = lifeChildren \ V /\ lifeApi' = lifeApi /\ lifeServer' = lifeServer
        /\ lifeFile' \in {lifeFile, lifeChildren'} /\ (lifeMisled => lifeMisled')
        /\ lifeVictims' = [lifeVictims EXCEPT ![timer] = {}]
        /\ lifeProc' = [p \in Pid |-> IF p \in V THEN "free" ELSE lifeProc[p]]
        /\ lifeStruck' = (lifeStruck \/ (~lifeMisled' /\ \E p \in V : lifeProc[p] = "foreign"))
    BY <1>8, FileIs DEF KillSurvivors, Struck, Killed
  <2>2. \A t \in Timer : lifeVictims'[t] \subseteq lifeVictims[t]
    BY <2>1, <1>0 DEF LifecycleTypeOK, Timer
  <2>3. \A q \in Remembered' : q \in Remembered
    BY <2>1, <2>2, <1>0 DEF Remembered
  <2>4. \A q \in V : q \in Remembered \ {Fake}
    BY <1>0 DEF Remembered, Timer
  <2>5. \A q \in Pid : lifeProc'[q] = "foreign" => lifeProc[q] = "foreign"
    BY <2>1
  <2>6. lifeMisled' \/ FakeInPlace'
    <3>1. lifeMisled' \/ (Fake \in lifeFile' => Fake \in lifeChildren')
      <4>1. Persisted \/ (lifeFile' = lifeFile /\ lifeMisled' = lifeMisled)
        BY <1>8 DEF KillSurvivors
      <4>2. Fake \in lifeChildren => Fake \in lifeChildren'
        BY <2>1
      <4> QED BY <4>1, <4>2, FileIs DEF LifeInv, FakeInPlace
    <3> QED BY <2>1, <2>2, <3>1 DEF LifeInv, FakeInPlace
  <2>7. (lifeServer' = "down" => lifeChildren' = {}) /\ (Fake \in lifeChildren' => lifeApi')
    BY <2>1 DEF LifeInv
  <2> HIDE DEF V
  <2> QED BY <1>0, <2>1, <2>3, <2>4, <2>5, <2>6, <2>7, LifeKept
<1>9. CASE KillAll
  <2>1. /\ lifeProc' = lifeProc /\ lifeFile' = lifeFile /\ lifeMisled' = (lifeMisled \/ lifeApi)
        /\ lifeStruck' = (lifeStruck \/ (~lifeMisled' /\ \E p \in Reached(lifeChildren) : lifeProc[p] = "foreign"))
        /\ lifeChildren' \subseteq lifeChildren
        /\ (lifeServer' = "down" => lifeChildren' = {}) /\ (lifeChildren' # {} => lifeApi' = lifeApi)
    BY <1>9 DEF KillAll, Gone, Struck
  <2>2. \A t \in Timer : lifeVictims'[t] \subseteq lifeChildren \cup lifeVictims[t]
    <3>1. CASE lifeChildren = {}
      BY <1>9, <3>1 DEF KillAll, Gone, Nobody, Timer
    <3>2. CASE lifeChildren # {}
      <4>1. lifeVictims' = [lifeVictims EXCEPT !["killAll"] = lifeChildren]
        BY <1>9, <3>2 DEF KillAll
      <4> QED BY <4>1, <1>0
    <3> QED BY <3>1, <3>2
  <2>3. \A q \in Remembered' : q \in Remembered
    BY <2>1, <2>2, <1>0 DEF Remembered
  <2>4. ~lifeMisled' => Fake \notin lifeChildren /\ FakeInPlace
    BY <2>1 DEF LifeInv
  <2>5. lifeMisled' \/ FakeInPlace'
    BY <2>1, <2>2, <2>4 DEF FakeInPlace
  <2>6. lifeStruck' => lifeStruck \/ (~lifeMisled' /\ \E p \in Remembered \ {Fake} : lifeProc[p] = "foreign")
    BY <2>1, <2>4 DEF Reached, Remembered
  <2>7. Fake \in lifeChildren' => lifeApi'
    BY <2>1 DEF LifeInv
  <2> QED BY <1>0, <2>1, <2>3, <2>5, <2>6, <2>7, LifeKept
<1>10. CASE Exit \/ Crash
  <2>1. /\ lifeChildren' = {} /\ lifeVictims' = Nobody /\ lifeMisled' = (lifeMisled \/ lifeApi)
        /\ lifeFile' \in {lifeFile, {}}
    BY <1>10 DEF Exit, Crash, Gone
  <2>2. \A q \in Pid : lifeProc'[q] = "foreign" => lifeProc[q] = "foreign"
    BY <1>10 DEF Exit, Crash, Killed
  <2>3. \A q \in Remembered' : q \in Remembered
    BY <2>1 DEF Remembered, Nobody
  <2>4. lifeStruck' => lifeStruck \/ (~lifeMisled' /\ \E p \in Remembered \ {Fake} : lifeProc[p] = "foreign")
    <3>1. \A q \in lifeVictims["killAll"] \ {Fake} : q \in Remembered \ {Fake}
      BY <1>0 DEF Remembered, Timer
    <3> QED BY <1>10, <3>1 DEF Exit, Crash, Struck
  <2>5. lifeMisled' \/ FakeInPlace'
    <3>1. ~lifeMisled' => Fake \notin lifeFile
      BY <2>1 DEF LifeInv, FakeInPlace
    <3> QED BY <2>1, <3>1 DEF FakeInPlace, Nobody, Timer
  <2> QED BY <1>0, <2>1, <2>2, <2>3, <2>4, <2>5, LifeKept
<1>11. Fake \in Pid \cup {Fake}
  OBVIOUS
<1> QED BY <1>1, <1>2, <1>3, <1>4, <1>5, <1>6, <1>7, <1>8, <1>9, <1>10, <1>11
        DEF LifecycleNext, CloseEnds, SecondSignal

\* The invariant of the processes holds always.
LEMMA LifeSafe == LifecycleInit /\ [][LifecycleNext]_lifeVars => []LifeInv
<1>1. LifecycleInit => LifeInv
  <2> SUFFICES ASSUME LifecycleInit PROVE LifeInv
    OBVIOUS
  <2>1. Nobody \in [{"boot", "watchdog", "killAll"} -> SUBSET (Pid \cup {Fake})] /\ 0 \in 0 .. MaxQueue
    BY LifecycleAssumption DEF Nobody
  <2>2. LifecycleTypeOK
    BY <2>1 DEF LifecycleInit, LifecycleTypeOK, ServerPhase
  <2>3. Remembered = {} /\ FakeInPlace
    BY DEF LifecycleInit, Remembered, Nobody, FakeInPlace, Timer
  <2> QED BY <2>2, <2>3 DEF LifeInv, SparesOthers, LifecycleInit
<1> QED BY <1>1, LifeStep, PTL

-------------------------------------------------------------------------------
\* A lane of tasks (lane-queue.js).

\* Unless the queue was cleared under a running task, the task that is awaited is at its
\* head; what was never enqueued is neither there nor awaited.
LaneInv ==
  /\ LaneTypeOK
  /\ laneTimer => laneCurrent # NoTask
  /\ \A t \in Task : lanePromise[t] = "new" => t \notin Range(laneQueue) /\ t # laneCurrent
  /\ ~laneRaced =>
        /\ IsInjective(laneQueue)
        /\ \A t \in Task : lanePromise[t] = "pending" => t \in Range(laneQueue)
        /\ laneCurrent = NoTask => laneQueue = <<>>
        /\ laneCurrent # NoTask /\ laneQueue # <<>> => Head(laneQueue) = laneCurrent
        /\ laneCurrent # NoTask /\ laneUp => laneQueue # <<>>

\* What is in a queue.
LEMMA RangeIs == ASSUME NEW q \in Seq(Task), NEW t PROVE t \in Range(q) <=> \E i \in 1 .. Len(q) : q[i] = t
BY DEF Range

\* An empty queue.
LEMMA NothingQueued == Range(<<>>) = {} /\ IsInjective(<<>>)
BY DEF Range, IsInjective

\* What is left when the head is taken off.
LEMMA RestIs ==
  ASSUME NEW q \in Seq(Task), q # <<>>
  PROVE  /\ Head(q) \in Task /\ Head(q) \in Range(q)
         /\ Tail(q) \in Seq(Task) /\ Len(Tail(q)) = Len(q) - 1
         /\ \A t \in Range(q) : t = Head(q) \/ t \in Range(Tail(q))
         /\ \A t \in Range(Tail(q)) : t \in Range(q)
         /\ IsInjective(q) => IsInjective(Tail(q)) /\ Head(q) \notin Range(Tail(q))
<1>1. Len(q) \in Nat /\ Len(q) > 0 /\ Head(q) = q[1] /\ Head(q) \in Task
  OBVIOUS
<1>2. /\ Tail(q) \in Seq(Task) /\ Len(Tail(q)) = Len(q) - 1
      /\ \A i \in 1 .. Len(q) - 1 : Tail(q)[i] = q[i + 1]
  BY <1>1
<1>3. Head(q) \in Range(q)
  BY <1>1, RangeIs
<1>4. ASSUME NEW t \in Range(q) PROVE t = Head(q) \/ t \in Range(Tail(q))
  <2>1. PICK i \in 1 .. Len(q) : q[i] = t
    BY RangeIs
  <2>2. CASE i = 1
    BY <1>1, <2>1, <2>2
  <2>3. CASE i # 1
    <3>1. i - 1 \in 1 .. Len(Tail(q)) /\ Tail(q)[i - 1] = t
      BY <1>1, <1>2, <2>1, <2>3
    <3> QED BY <3>1, <1>2, RangeIs
  <2> QED BY <2>2, <2>3
<1>5. ASSUME NEW t \in Range(Tail(q)) PROVE t \in Range(q)
  <2>1. PICK i \in 1 .. Len(Tail(q)) : Tail(q)[i] = t
    BY <1>2, RangeIs
  <2>2. i + 1 \in 1 .. Len(q) /\ q[i + 1] = t
    BY <1>1, <1>2, <2>1
  <2> QED BY <2>2, RangeIs
<1>6. ASSUME IsInjective(q) PROVE IsInjective(Tail(q)) /\ Head(q) \notin Range(Tail(q))
  <2>0. \A i, j \in 1 .. Len(q) : q[i] = q[j] => i = j
    BY <1>6 DEF IsInjective
  <2>1. \A i, j \in 1 .. Len(Tail(q)) : Tail(q)[i] = Tail(q)[j] => i = j
    BY <1>1, <1>2, <2>0
  <2>2. \A i \in 1 .. Len(Tail(q)) : Tail(q)[i] # q[1]
    BY <1>1, <1>2, <2>0
  <2>3. Head(q) \notin Range(Tail(q))
    BY <2>2, <1>1, <1>2, RangeIs
  <2>4. DOMAIN Tail(q) = 1 .. Len(Tail(q))
    BY <1>2
  <2> QED BY <2>1, <2>3, <2>4 DEF IsInjective
<1> QED BY <1>1, <1>2, <1>3, <1>4, <1>5, <1>6

\* What a task at the end adds.
LEMMA AppendIs ==
  ASSUME NEW q \in Seq(Task), NEW t \in Task
  PROVE  /\ Append(q, t) \in Seq(Task) /\ Len(Append(q, t)) = Len(q) + 1 /\ Append(q, t) # <<>>
         /\ q # <<>> => Head(Append(q, t)) = Head(q)
         /\ q = <<>> => Head(Append(q, t)) = t
         /\ \A u : u \in Range(Append(q, t)) <=> u \in Range(q) \/ u = t
         /\ IsInjective(q) /\ t \notin Range(q) => IsInjective(Append(q, t))
<1> DEFINE r == Append(q, t)
<1>1. /\ r \in Seq(Task) /\ Len(q) \in Nat /\ Len(r) = Len(q) + 1 /\ r[Len(q) + 1] = t
      /\ \A i \in 1 .. Len(q) : r[i] = q[i]
  OBVIOUS
<1> HIDE DEF r
<1>2. r # <<>> /\ Head(r) = r[1]
  BY <1>1
<1>3. q # <<>> => Head(r) = Head(q)
  BY <1>1, <1>2
<1>4. q = <<>> => Head(r) = t
  BY <1>1, <1>2
<1>5. ASSUME NEW u PROVE u \in Range(r) <=> u \in Range(q) \/ u = t
  <2>1. (\E i \in 1 .. Len(r) : r[i] = u) <=> (\E i \in 1 .. Len(q) : q[i] = u) \/ u = t
    BY <1>1
  <2> QED BY <2>1, <1>1, RangeIs
<1>6. ASSUME IsInjective(q), t \notin Range(q) PROVE IsInjective(r)
  <2>1. \A i, j \in 1 .. Len(q) : q[i] = q[j] => i = j
    BY <1>6 DEF IsInjective
  <2>2. \A i \in 1 .. Len(q) : q[i] # t
    BY <1>6, RangeIs
  <2>3. \A i, j \in 1 .. Len(r) : r[i] = r[j] => i = j
    BY <1>1, <2>1, <2>2
  <2>4. DOMAIN r = 1 .. Len(r)
    BY <1>1
  <2> QED BY <2>3, <2>4 DEF IsInjective
<1> QED BY <1>1, <1>2, <1>3, <1>4, <1>5, <1>6 DEF r

\* A queue of one task.
LEMMA OneTask ==
  ASSUME NEW t \in Task
  PROVE  /\ <<t>> \in Seq(Task) /\ Len(<<t>>) = 1 /\ IsInjective(<<t>>) /\ Head(<<t>>) = t /\ <<t>> # <<>>
         /\ \A u : u \in Range(<<t>>) <=> u = t
<1>1. <<t>> \in Seq(Task) /\ Len(<<t>>) = 1 /\ Head(<<t>>) = t /\ <<t>> # <<>> /\ DOMAIN <<t>> = {1} /\ <<t>>[1] = t
  OBVIOUS
<1>2. IsInjective(<<t>>)
  BY <1>1 DEF IsInjective
<1>3. \A u : u \in Range(<<t>>) <=> u = t
  BY <1>1 DEF Range
<1> QED BY <1>1, <1>2, <1>3

\* The loop goes round with another queue.
LEMMA LoopGoesOn ==
  ASSUME LaneInv, NEW queue \in Seq(Task), Len(queue) <= maxQueueDepth, NEW still \in SUBSET Attempt,
         NEW retries \in [Task -> 0 .. laneMaxRetries], NextTask(queue, still, retries),
         lanePromise' \in [Task -> {"new", "pending", "resolved", "rejected"}],
         \A t \in Range(queue) : lanePromise'[t] # "new",
         laneUp' = laneUp, laneRaced' = laneRaced,
         ~laneRaced => /\ IsInjective(queue)
                       /\ \A t \in Task : lanePromise'[t] = "pending" => t \in Range(queue)
  PROVE  LaneInv'
<1> USE LaneAssumption
<1>1. /\ laneQueue' = queue /\ laneRetries' = retries /\ laneStuck' = FALSE
  BY DEF NextTask
<1>2. CASE queue = <<>>
  <2>1. laneCurrent' = NoTask /\ laneTimer' = FALSE /\ laneRunning' = still
    BY <1>2 DEF NextTask
  <2>2. LaneTypeOK'
    BY <1>1, <2>1 DEF LaneTypeOK, LaneInv
  <2> QED BY <2>1, <2>2, <1>1, <1>2 DEF LaneInv
<1>3. CASE queue # <<>>
  <2>1. Head(queue) \in Task /\ Head(queue) \in Range(queue)
    BY <1>3, RestIs
  <2>2. /\ laneCurrent' = Head(queue) /\ laneTimer' = TRUE
        /\ laneRunning' = still \cup {<<Head(queue), retries[Head(queue)]>>}
    BY <1>3 DEF NextTask
  <2>3. <<Head(queue), retries[Head(queue)]>> \in Attempt
    BY <2>1 DEF Attempt
  <2>4. LaneTypeOK'
    BY <1>1, <2>1, <2>2, <2>3 DEF LaneTypeOK, LaneInv
  <2> QED BY <2>1, <2>2, <2>4, <1>1, <1>3 DEF LaneInv
<1> QED BY <1>2, <1>3

\* Which promises are settled.
LEMMA SettledIs ==
  ASSUME LaneTypeOK, NEW tasks, NEW outcome \in {"resolved", "rejected"}
  PROVE  /\ Settled(tasks, outcome) \in [Task -> {"new", "pending", "resolved", "rejected"}]
         /\ \A t \in Task : Settled(tasks, outcome)[t] = "new" <=> lanePromise[t] = "new"
         /\ \A t \in Task : Settled(tasks, outcome)[t] = "pending" <=> lanePromise[t] = "pending" /\ t \notin tasks
BY DEF Settled, LaneTypeOK

\* What is left of the queue when the awaited task has settled.
LEMMA LaneRest ==
  ASSUME LaneInv, laneTimer
  PROVE  /\ laneCurrent \in Task /\ Current \in Attempt
         /\ Rest(laneQueue) \in Seq(Task) /\ Len(Rest(laneQueue)) <= maxQueueDepth
         /\ Len(Rest(laneQueue)) + 1 <= maxQueueDepth
         /\ \A t \in Range(Rest(laneQueue)) : t \in Task /\ lanePromise[t] # "new"
         /\ lanePromise[laneCurrent] # "new"
         /\ ~laneRaced => /\ IsInjective(Rest(laneQueue)) /\ laneCurrent \notin Range(Rest(laneQueue))
                          /\ \A t \in Task : lanePromise[t] = "pending" =>
                                t = laneCurrent \/ t \in Range(Rest(laneQueue))
<1> USE LaneAssumption
<1>1. laneCurrent \in Task /\ Current \in Attempt /\ lanePromise[laneCurrent] # "new"
      /\ laneQueue \in Seq(Task) /\ Len(laneQueue) <= maxQueueDepth
  BY DEF LaneInv, LaneTypeOK, Current, Attempt
<1>2. CASE laneQueue = <<>>
  <2>1. Rest(laneQueue) = <<>>
    BY <1>2 DEF Rest
  <2>2. <<>> \in Seq(Task) /\ Len(<<>>) = 0
    OBVIOUS
  <2>3. ~laneRaced => \A t \in Task : lanePromise[t] # "pending"
    BY <1>2, NothingQueued DEF LaneInv
  <2> QED BY <1>1, <2>1, <2>2, <2>3, NothingQueued
<1>3. CASE laneQueue # <<>>
  <2>1. Rest(laneQueue) = Tail(laneQueue)
    BY <1>3 DEF Rest
  <2>2. /\ Tail(laneQueue) \in Seq(Task) /\ Len(Tail(laneQueue)) = Len(laneQueue) - 1
        /\ \A t \in Range(laneQueue) : t = Head(laneQueue) \/ t \in Range(Tail(laneQueue))
        /\ \A t \in Range(Tail(laneQueue)) : t \in Range(laneQueue)
        /\ IsInjective(laneQueue) => IsInjective(Tail(laneQueue)) /\ Head(laneQueue) \notin Range(Tail(laneQueue))
    BY <1>1, <1>3, RestIs
  <2>3. \A t \in Range(laneQueue) : t \in Task
    BY <1>1, RangeIs
  <2>4. \A t \in Range(Tail(laneQueue)) : t \in Task /\ lanePromise[t] # "new"
    BY <2>2, <2>3 DEF LaneInv
  <2>5. ~laneRaced => Head(laneQueue) = laneCurrent
    BY <1>1, <1>3 DEF LaneInv
  <2>6. Len(Tail(laneQueue)) <= maxQueueDepth /\ Len(Tail(laneQueue)) + 1 <= maxQueueDepth
    BY <1>1, <2>2
  <2>7. ~laneRaced => /\ IsInjective(laneQueue)
                      /\ \A t \in Task : lanePromise[t] = "pending" => t \in Range(laneQueue)
    BY DEF LaneInv
  <2> QED BY <1>1, <2>1, <2>2, <2>4, <2>5, <2>6, <2>7
<1> QED BY <1>2, <1>3

\* The awaited attempt has settled the task, or its next attempt is due.
LEMMA LaneSettles ==
  ASSUME LaneInv, laneTimer, laneUp' = laneUp, laneRaced' = laneRaced, NEW still \in SUBSET Attempt,
         \/ Retry(still)
         \/ \E outcome \in {"resolved", "rejected"} :
               lanePromise' = Settled({laneCurrent}, outcome) /\ NextTask(Rest(laneQueue), still, laneRetries)
  PROVE  LaneInv'
<1> USE LaneAssumption
<1> DEFINE q == Rest(laneQueue)
<1>1. /\ laneCurrent \in Task /\ q \in Seq(Task) /\ Len(q) <= maxQueueDepth /\ Len(q) + 1 <= maxQueueDepth
      /\ \A t \in Range(q) : t \in Task /\ lanePromise[t] # "new"
      /\ lanePromise[laneCurrent] # "new"
      /\ ~laneRaced => /\ IsInjective(q) /\ laneCurrent \notin Range(q)
                       /\ \A t \in Task : lanePromise[t] = "pending" => t = laneCurrent \/ t \in Range(q)
  BY LaneRest
<1>2. /\ lanePromise \in [Task -> {"new", "pending", "resolved", "rejected"}]
      /\ laneRetries \in [Task -> 0 .. laneMaxRetries] /\ LaneTypeOK
  BY DEF LaneInv, LaneTypeOK
<1>3. CASE Retry(still)
  <2> DEFINE r == Append(q, laneCurrent)
             retries == [laneRetries EXCEPT ![laneCurrent] = @ + 1]
  <2>1. /\ r \in Seq(Task) /\ Len(r) = Len(q) + 1
        /\ \A u : u \in Range(r) <=> u \in Range(q) \/ u = laneCurrent
        /\ IsInjective(q) /\ laneCurrent \notin Range(q) => IsInjective(r)
    BY <1>1, AppendIs
  <2>2. retries \in [Task -> 0 .. laneMaxRetries]
    BY <1>1, <1>2, <1>3 DEF Retry
  <2>3. NextTask(r, still, retries) /\ lanePromise' = lanePromise
    BY <1>3 DEF Retry
  <2> HIDE DEF r, retries, q
  <2>4. Len(r) <= maxQueueDepth
    BY <2>1, <1>1
  <2>5. \A t \in Range(r) : lanePromise'[t] # "new"
    BY <2>1, <2>3, <1>1
  <2>6. ~laneRaced => /\ IsInjective(r)
                      /\ \A t \in Task : lanePromise'[t] = "pending" => t \in Range(r)
    BY <2>1, <2>3, <1>1
  <2> QED BY <2>1, <2>2, <2>3, <2>4, <2>5, <2>6, <1>2, LoopGoesOn
<1>4. ASSUME NEW outcome \in {"resolved", "rejected"}, lanePromise' = Settled({laneCurrent}, outcome),
             NextTask(q, still, laneRetries)
      PROVE  LaneInv'
  <2>1. /\ lanePromise' \in [Task -> {"new", "pending", "resolved", "rejected"}]
        /\ \A t \in Task : lanePromise'[t] = "new" <=> lanePromise[t] = "new"
        /\ \A t \in Task : lanePromise'[t] = "pending" <=> lanePromise[t] = "pending" /\ t \notin {laneCurrent}
    BY <1>2, <1>4, SettledIs
  <2> HIDE DEF q
  <2>2. \A t \in Range(q) : lanePromise'[t] # "new"
    BY <2>1, <1>1
  <2>3. ~laneRaced => \A t \in Task : lanePromise'[t] = "pending" => t \in Range(q)
    BY <2>1, <1>1
  <2> QED BY <2>1, <2>2, <2>3, <1>1, <1>2, <1>4, LoopGoesOn
<1> QED BY <1>3, <1>4

\* Every step keeps the invariant.
LEMMA LaneStep == LaneInv /\ [LaneNext]_laneVars => LaneInv'
<1> SUFFICES ASSUME LaneInv, [LaneNext]_laneVars PROVE LaneInv'
  OBVIOUS
<1> USE LaneAssumption
<1>0. /\ LaneTypeOK /\ lanePromise \in [Task -> {"new", "pending", "resolved", "rejected"}]
      /\ laneQueue \in Seq(Task) /\ Len(laneQueue) <= maxQueueDepth /\ laneRunning \in SUBSET Attempt
      /\ laneRetries \in [Task -> 0 .. laneMaxRetries]
  BY DEF LaneInv, LaneTypeOK
<1>1. ASSUME NEW t \in Task, Enqueue(t) PROVE LaneInv'
  <2>0. laneUp /\ laneUp' = laneUp /\ laneRaced' = laneRaced /\ lanePromise[t] = "new"
        /\ t \notin Range(laneQueue) /\ t # laneCurrent
    BY <1>1 DEF Enqueue, LaneInv
  <2>1. CASE Len(laneQueue) >= maxQueueDepth
    <3>1. lanePromise' = [lanePromise EXCEPT ![t] = "rejected"]
          /\ UNCHANGED <<laneQueue, laneCurrent, laneRetries, laneRunning, laneTimer, laneStuck>>
      BY <1>1, <2>1 DEF Enqueue
    <3>2. LaneTypeOK'
      BY <3>1, <2>0, <1>0 DEF LaneTypeOK
    <3>3. \A u \in Task \ {t} : lanePromise'[u] = lanePromise[u]
      BY <3>1, <1>0
    <3>4. lanePromise'[t] = "rejected"
      BY <3>1, <1>0
    <3> QED BY <3>1, <3>2, <3>3, <3>4, <2>0 DEF LaneInv
  <2>2. CASE Len(laneQueue) < maxQueueDepth
    <3>1. lanePromise' = [lanePromise EXCEPT ![t] = "pending"]
      BY <1>1, <2>2, <1>0 DEF Enqueue
    <3>2. /\ lanePromise' \in [Task -> {"new", "pending", "resolved", "rejected"}]
          /\ lanePromise'[t] = "pending" /\ \A u \in Task \ {t} : lanePromise'[u] = lanePromise[u]
      BY <3>1, <1>0
    <3>3. CASE laneCurrent # NoTask
      <4>1. laneQueue' = Append(laneQueue, t)
            /\ UNCHANGED <<laneCurrent, laneRetries, laneRunning, laneTimer, laneStuck>>
        BY <1>1, <2>2, <3>3, <1>0 DEF Enqueue
      <4>2. /\ laneQueue' \in Seq(Task) /\ Len(laneQueue') = Len(laneQueue) + 1 /\ laneQueue' # <<>>
            /\ laneQueue # <<>> => Head(laneQueue') = Head(laneQueue)
            /\ \A u : u \in Range(laneQueue') <=> u \in Range(laneQueue) \/ u = t
            /\ IsInjective(laneQueue) /\ t \notin Range(laneQueue) => IsInjective(laneQueue')
        BY <4>1, <1>0, AppendIs
      <4>3. Len(laneQueue') <= maxQueueDepth
        BY <4>2, <2>2, <1>0
      <4>4. LaneTypeOK'
        BY <4>1, <4>2, <4>3, <3>2, <2>0, <1>0 DEF LaneTypeOK
      <4>5. ~laneRaced' => /\ IsInjective(laneQueue')
                           /\ \A u \in Task : lanePromise'[u] = "pending" => u \in Range(laneQueue')
                           /\ Head(laneQueue') = laneCurrent'
        BY <4>1, <4>2, <3>2, <2>0, <3>3 DEF LaneInv
      <4>6. \A u \in Task : lanePromise'[u] = "new" => u \notin Range(laneQueue') /\ u # laneCurrent'
        BY <4>1, <4>2, <3>2, <2>0 DEF LaneInv
      <4>7. (laneTimer' => laneCurrent' # NoTask) /\ laneCurrent' # NoTask
        BY <4>1, <3>3
      <4> QED BY <4>2, <4>4, <4>5, <4>6, <4>7 DEF LaneInv
    <3>4. CASE laneCurrent = NoTask
      <4>1. NextTask(<<t>>, laneRunning, laneRetries)
        BY <1>1, <2>2, <3>4, <1>0 DEF Enqueue
      <4>3. /\ <<t>> \in Seq(Task) /\ Len(<<t>>) = 1 /\ IsInjective(<<t>>) /\ \A u : u \in Range(<<t>>) <=> u = t
        BY OneTask
      <4>4. ~laneRaced => \A u \in Task : lanePromise'[u] = "pending" => u \in Range(<<t>>)
        BY <3>2, <3>4, <4>3, NothingQueued DEF LaneInv
      <4>5. Len(<<t>>) <= maxQueueDepth
        BY <4>3
      <4>6. \A u \in Range(<<t>>) : lanePromise'[u] # "new"
        BY <4>3, <3>2
      <4> QED BY <4>1, <4>3, <4>4, <4>5, <4>6, <3>2, <2>0, <1>0, LoopGoesOn
    <3> QED BY <3>3, <3>4
  <2> QED BY <2>1, <2>2, <1>0
<1>2. CASE AttemptEnds
  <2>1. laneTimer /\ laneUp' = laneUp /\ laneRaced' = laneRaced
    BY <1>2 DEF AttemptEnds
  <2>2. laneRunning \ {Current} \in SUBSET Attempt
    BY <1>0
  <2>3. \/ Retry(laneRunning \ {Current})
        \/ \E outcome \in {"resolved", "rejected"} :
              /\ lanePromise' = Settled({laneCurrent}, outcome)
              /\ NextTask(Rest(laneQueue), laneRunning \ {Current}, laneRetries)
    BY <1>2 DEF AttemptEnds, Resolve, Reject
  <2> QED BY <2>1, <2>2, <2>3, LaneSettles
<1>3. CASE TimesOut
  <2>1. laneTimer /\ laneUp' = laneUp /\ laneRaced' = laneRaced
    BY <1>3 DEF TimesOut
  <2>2. \/ Retry(laneRunning)
        \/ \E outcome \in {"resolved", "rejected"} :
              /\ lanePromise' = Settled({laneCurrent}, outcome)
              /\ NextTask(Rest(laneQueue), laneRunning, laneRetries)
    BY <1>3 DEF TimesOut, Reject
  <2> QED BY <2>1, <2>2, <1>0, LaneSettles
<1>4. CASE (\E a \in Attempt : LateEnd(a)) \/ TaskAges \/ UNCHANGED laneVars
  <2>1. UNCHANGED <<laneQueue, laneCurrent, laneRetries, lanePromise, laneTimer, laneUp, laneRaced>>
        /\ laneRunning' \subseteq laneRunning /\ laneStuck' \in BOOLEAN
    BY <1>4 DEF LateEnd, TaskAges, laneVars, LaneInv, LaneTypeOK
  <2> QED BY <2>1 DEF LaneInv, LaneTypeOK
<1>5. CASE ClearQueue \/ LaneShutdown
  <2>1. /\ lanePromise' = Settled(Range(laneQueue), "rejected") /\ laneQueue' = <<>>
        /\ UNCHANGED <<laneCurrent, laneRetries, laneRunning, laneTimer, laneStuck>>
        /\ laneUp' \in BOOLEAN /\ laneRaced' \in BOOLEAN
        /\ laneRaced => laneRaced'
        /\ ~laneRaced' => laneCurrent = NoTask \/ ~laneUp'
    BY <1>5 DEF ClearQueue, LaneShutdown, LaneInv, LaneTypeOK
  <2>2. /\ lanePromise' \in [Task -> {"new", "pending", "resolved", "rejected"}]
        /\ \A t \in Task : lanePromise'[t] = "new" <=> lanePromise[t] = "new"
        /\ \A t \in Task : lanePromise'[t] = "pending" <=> lanePromise[t] = "pending" /\ t \notin Range(laneQueue)
    BY <1>0, <2>1, SettledIs
  <2>3. <<>> \in Seq(Task) /\ Len(<<>>) <= maxQueueDepth
    OBVIOUS
  <2>4. LaneTypeOK'
    BY <2>1, <2>2, <2>3, <1>0 DEF LaneTypeOK
  <2> QED BY <2>1, <2>2, <2>4, NothingQueued DEF LaneInv
<1>6. CASE CheckStuckLane
  <2>0. laneQueue # <<>>
    BY <1>6, <1>0 DEF CheckStuckLane
  <2> DEFINE h == Head(laneQueue)
  <2>1. /\ lanePromise' = Settled(Range(Tail(laneQueue)), "rejected") /\ laneQueue' = <<h>>
        /\ UNCHANGED <<laneCurrent, laneRetries, laneRunning, laneTimer, laneStuck, laneUp, laneRaced>>
    BY <1>6 DEF CheckStuckLane
  <2>2. /\ h \in Task /\ h \in Range(laneQueue)
        /\ \A t \in Range(laneQueue) : t = h \/ t \in Range(Tail(laneQueue))
    BY <1>0, <2>0, RestIs
  <2>4. /\ <<h>> \in Seq(Task) /\ Len(<<h>>) = 1 /\ IsInjective(<<h>>) /\ Head(<<h>>) = h /\ <<h>> # <<>>
        /\ \A u : u \in Range(<<h>>) <=> u = h
    BY <2>2, OneTask
  <2> HIDE DEF h
  <2>5. /\ lanePromise' \in [Task -> {"new", "pending", "resolved", "rejected"}]
        /\ \A t \in Task : lanePromise'[t] = "new" <=> lanePromise[t] = "new"
        /\ \A t \in Task : lanePromise'[t] = "pending" <=> lanePromise[t] = "pending" /\ t \notin Range(Tail(laneQueue))
    BY <1>0, <2>1, SettledIs
  <2>6. LaneTypeOK'
    BY <2>1, <2>4, <2>5, <1>0 DEF LaneTypeOK
  <2>7. \A t \in Task : lanePromise'[t] = "new" => t \notin Range(laneQueue') /\ t # laneCurrent'
    BY <2>1, <2>2, <2>4, <2>5 DEF LaneInv
  <2>8. ~laneRaced' => /\ IsInjective(laneQueue')
                       /\ \A t \in Task : lanePromise'[t] = "pending" => t \in Range(laneQueue')
                       /\ laneCurrent' # NoTask /\ Head(laneQueue') = laneCurrent'
    <3>1. ~laneRaced => laneCurrent # NoTask /\ h = laneCurrent
      BY <2>0 DEF LaneInv, h
    <3> QED BY <3>1, <2>1, <2>2, <2>4, <2>5 DEF LaneInv
  <2> QED BY <2>1, <2>4, <2>6, <2>7, <2>8 DEF LaneInv
<1> QED BY <1>1, <1>2, <1>3, <1>4, <1>5, <1>6 DEF LaneNext

\* The invariant of the lane holds always.
LEMMA LaneSafe == LaneInit /\ [][LaneNext]_laneVars => []LaneInv
<1>1. LaneInit => LaneInv
  <2> SUFFICES ASSUME LaneInit PROVE LaneInv
    OBVIOUS
  <2>1. <<>> \in Seq(Task) /\ Len(<<>>) <= maxQueueDepth
    BY LaneAssumption
  <2>2. LaneTypeOK
    <3>1. 0 \in 0 .. laneMaxRetries
      BY LaneAssumption
    <3>2. laneRetries \in [Task -> 0 .. laneMaxRetries]
      BY <3>1 DEF LaneInit
    <3> QED BY <2>1, <3>2 DEF LaneInit, LaneTypeOK
  <2>3. NoTask \notin Task
    BY LaneAssumption
  <2> QED BY <2>2, <2>3, NothingQueued DEF LaneInit, LaneInv
<1> QED BY <1>1, LaneStep, PTL

\* What the invariant is for.
LEMMA LaneKeeps == LaneInv => LaneTypeOK /\ QueuedOnce /\ WaitingTaskKept
BY DEF LaneInv, QueuedOnce, WaitingTaskKept

-------------------------------------------------------------------------------
\* Webhooks (webhook-manager.js).

\* The log tells the answer, and a delivery that is waiting has an attempt left.
HookInv ==
    /\ WebhookTypeOK
    /\ LogTellsAnswer
    /\ \A d \in Delivery :
          /\ hookState[d] = "new" => hookAttempts[d] = 0
          /\ hookState[d] = "new" => hookAnswer[d] = "none"
          /\ hookState[d] = "waiting" => hookAttempts[d] <= hookMaxRetries

\* Every step keeps the invariant.
LEMMA HookStep == HookInv /\ [WebhookNext]_hookVars => HookInv'
<1> SUFFICES ASSUME HookInv, [WebhookNext]_hookVars PROVE HookInv'
  OBVIOUS
<1> USE WebhookAssumption DEF HookInv, WebhookTypeOK, LogTellsAnswer, Over
<1>1. ASSUME NEW h \in Hook, CreateHook(h) \/ DeleteHook(h) PROVE HookInv'
  BY <1>1 DEF CreateHook, DeleteHook, SaveHooks
<1>2. ASSUME NEW d \in Delivery, Receive(d) PROVE HookInv'
  BY <1>2 DEF Receive, Try
<1>3. CASE NextWindow
  BY <1>3 DEF NextWindow
<1>4. ASSUME NEW d \in Delivery, SubscriberAccepts(d) \/ SubscriberRefuses(d) PROVE HookInv'
  BY <1>4 DEF SubscriberAccepts, SubscriberRefuses, End, Tells
<1>5. ASSUME NEW d \in Delivery, AttemptFails(d) PROVE HookInv'
  BY <1>5 DEF AttemptFails, End, Tells
<1>6. ASSUME NEW d \in Delivery, RetryForward(d) PROVE HookInv'
  BY <1>6 DEF RetryForward, Try
<1>7. CASE UNCHANGED hookVars
  BY <1>7 DEF hookVars
<1> QED BY <1>1, <1>2, <1>3, <1>4, <1>5, <1>6, <1>7 DEF WebhookNext

\* The invariant of the deliveries holds always.
LEMMA HookSafe == WebhookInit /\ [][WebhookNext]_hookVars => []HookInv
<1>1. WebhookInit => HookInv
  BY WebhookAssumption DEF WebhookInit, HookInv, WebhookTypeOK, LogTellsAnswer, Over
<1> QED BY <1>1, HookStep, PTL

-------------------------------------------------------------------------------
\* Plans of several steps (task-planner.js).

\* What holds of one plan: subtasks are begun in their order, those of a sequential plan one
\* by one, only agents are sent any, and what they answered is a fact.
PlanFits(strategy, assigned, result, facts, gone) ==
  /\ assigned \in Seq(Worker \cup {NoWorker}) /\ Len(assigned) \in {0} \cup 2 .. maxSubtasks
  /\ result \in [1 .. Len(assigned) -> Outcome]
  /\ facts \in [Worker -> 0 .. maxSubtasks]
  /\ \A i \in 1 .. Len(assigned) : result[i] \in {"sent", "ok"} => assigned[i] \in Worker
  /\ Cardinality({i \in 1 .. Len(assigned) : result[i] = "sent"})
        <= IF strategy = "sequential" THEN 1 ELSE maxConcurrency
  /\ \A i, j \in 1 .. Len(assigned) : result[i] = "todo" /\ result[j] # "todo" => j < i
  /\ strategy = "sequential" =>
        \A i, j \in 1 .. Len(assigned) : result[i] = "sent" /\ result[j] # "todo" /\ j # i => j < i
  /\ ~gone => \A i \in 1 .. Len(assigned) : result[i] = "ok" =>
        /\ facts[assigned[i]] > 0
        /\ strategy = "sequential" => facts[assigned[i]] >= i

PlanInv ==
  /\ planStatus \in [Plan -> {"new", "no_subtasks", "planned", "executing", "completed"}]
  /\ planStrategy \in [Plan -> {"parallel", "sequential"}]
  /\ planForgotten \subseteq Plan
  /\ planTracked \in Seq(Plan) /\ IsInjective(planTracked)
  /\ \A p \in Plan : planStatus[p] = "new" => p \notin Range(planTracked)
  /\ \E P : planAssigned \in [Plan -> P]
  /\ \E P : planResult \in [Plan -> P]
  /\ planFacts \in [Plan -> [Worker -> 0 .. maxSubtasks]]
  /\ \A p \in Plan :
       PlanFits(planStrategy[p], planAssigned[p], planResult[p], planFacts[p], p \in planForgotten)

\* A set of some of the first numbers has a largest one.
LEMMA Largest ==
  ASSUME NEW n \in Nat, NEW S \in SUBSET (1 .. n), S # {}
  PROVE  \E m \in S : \A x \in S : x <= m
<1> DEFINE U == {u \in Nat : \A x \in S : x <= u}
<1>1. U \in SUBSET Nat /\ n \in U
  OBVIOUS
<1>2. PICK m \in U : \A u \in U : m <= u
  BY <1>1, Smallest
<1>3. CASE m \in S
  BY <1>2, <1>3
<1>4. CASE m \notin S
  <2>1. PICK y \in S : TRUE
    OBVIOUS
  <2>2. m \in Nat /\ y >= 1 /\ y <= m
    BY <1>2, <2>1
  <2>3. \A x \in S : x \in Nat /\ x <= m /\ x # m
    BY <1>2, <1>4
  <2>4. m - 1 \in Nat /\ \A x \in S : x <= m - 1
    BY <2>2, <2>3
  <2>5. m - 1 \in U
    BY <2>4
  <2>6. m <= m - 1
    BY <2>5, <1>2
  <2> QED BY <2>2, <2>6
<1> QED BY <1>3, <1>4

\* Sets of numbers of subtasks.
LEMMA FirstNumbers ==
  ASSUME NEW n \in Nat
  PROVE  \A S \in SUBSET (1 .. n) :
           /\ IsFiniteSet(S) /\ Cardinality(S) \in Nat
           /\ \A T \in SUBSET S : Cardinality(T) <= Cardinality(S)
           /\ \A m \in 1 .. n : m \notin S => Cardinality(S \cup {m}) = Cardinality(S) + 1
<1>1. IsFiniteSet(1 .. n)
  BY FS_Interval
<1> SUFFICES ASSUME NEW S \in SUBSET (1 .. n)
             PROVE  /\ IsFiniteSet(S) /\ Cardinality(S) \in Nat
                    /\ \A T \in SUBSET S : Cardinality(T) <= Cardinality(S)
                    /\ \A m \in 1 .. n : m \notin S => Cardinality(S \cup {m}) = Cardinality(S) + 1
  OBVIOUS
<1>2. IsFiniteSet(S)
  BY <1>1, FS_Subset
<1>3. Cardinality(S) \in Nat
  BY <1>2, FS_CardinalityType
<1>4. \A T \in SUBSET S : Cardinality(T) <= Cardinality(S)
  BY <1>2, FS_Subset
<1>5. \A m \in 1 .. n : m \notin S => Cardinality(S \cup {m}) = Cardinality(S) + 1
  BY <1>2, FS_AddElement
<1> QED BY <1>2, <1>3, <1>4, <1>5

\* The first few of some numbers are few, and before the rest.
LEMMA FirstFew ==
  ASSUME NEW n \in Nat, NEW open \in SUBSET (1 .. n), NEW size \in Nat,
         NEW B, B = {i \in open : Cardinality({j \in open : j < i}) < size}
  PROVE  /\ Cardinality(B) <= size
         /\ \A i \in open, j \in B : i \notin B => j < i
<1> DEFINE Ahead(i) == {j \in open : j < i}
<1>1. \A i \in open : Ahead(i) \in SUBSET (1 .. n) /\ Cardinality(Ahead(i)) \in Nat
  BY FirstNumbers
<1>2. Cardinality(B) <= size
  <2>0. B \in SUBSET (1 .. n)
    OBVIOUS
  <2>1. CASE B = {}
    <3>1. Cardinality({}) = 0
      BY FS_EmptySet
    <3>2. Cardinality(B) = 0
      BY <2>1, <3>1
    <3> QED BY <3>2
  <2>2. CASE B # {}
    <3>1. PICK m \in B : \A x \in B : x <= m
      BY <2>0, <2>2, Largest
    <3>0. m \in open /\ m \in 1 .. n /\ m \in Nat
      OBVIOUS
    <3>c. Ahead(m) \in SUBSET (1 .. n)
      OBVIOUS
    <3>d. m \notin Ahead(m)
      <4>1. ~(m < m)
        BY <3>0
      <4> QED BY <4>1
    <3>a. Ahead(m) \in SUBSET (1 .. n) /\ m \notin Ahead(m)
      BY <3>c, <3>d
    <3>b. ASSUME NEW x \in B PROVE x \in Ahead(m) \cup {m}
      <4>1. x \in open /\ x \in Nat /\ x <= m
        BY <3>1
      <4>2. x < m \/ x = m
        BY <4>1, <3>0
      <4> QED BY <4>1, <4>2
    <3>2. Ahead(m) \in SUBSET (1 .. n) /\ m \in 1 .. n /\ m \notin Ahead(m) /\ B \subseteq Ahead(m) \cup {m}
      BY <3>0, <3>a, <3>b
    <3>3. Cardinality(Ahead(m)) \in Nat /\ Cardinality(Ahead(m)) < size
      BY <3>1, <1>1
    <3> HIDE DEF Ahead
    <3>4. Cardinality(Ahead(m) \cup {m}) = Cardinality(Ahead(m)) + 1
      BY <3>2, FirstNumbers
    <3>5. Ahead(m) \cup {m} \in SUBSET (1 .. n)
      BY <3>2
    <3>6. Cardinality(B) <= Cardinality(Ahead(m) \cup {m}) /\ Cardinality(B) \in Nat
      BY <3>2, <3>5, <2>0, FirstNumbers
    <3> QED BY <3>3, <3>4, <3>6
  <2> QED BY <2>1, <2>2
<1>3. ASSUME NEW i \in open, NEW j \in B, i \notin B PROVE j < i
  <2> SUFFICES ASSUME ~(j < i) PROVE FALSE
    OBVIOUS
  <2>1. i \in Nat /\ j \in Nat /\ j \in open
    OBVIOUS
  <2>a. \A k \in open : k \in Nat /\ (k < i => k < j)
    BY <2>1
  <2>2. Ahead(i) \in SUBSET Ahead(j) /\ Ahead(j) \in SUBSET (1 .. n)
    BY <2>a
  <2>3. Cardinality(Ahead(j)) < size /\ ~(Cardinality(Ahead(i)) < size)
    BY <1>3
  <2>4. Cardinality(Ahead(i)) \in Nat /\ Cardinality(Ahead(j)) \in Nat
    BY <1>1, <2>1
  <2> HIDE DEF Ahead
  <2>5. Cardinality(Ahead(i)) <= Cardinality(Ahead(j))
    BY <2>2, FirstNumbers
  <2> QED BY <2>3, <2>4, <2>5
<1> QED BY <1>2, <1>3

\* The plans but one stay what they are.
LEMMA OnePlan ==
  ASSUME PlanInv, NEW p \in Plan,
         planStatus' \in [Plan -> {"new", "no_subtasks", "planned", "executing", "completed"}],
         planStrategy' \in [Plan -> {"parallel", "sequential"}],
         planForgotten' \subseteq Plan,
         planTracked' \in Seq(Plan), IsInjective(planTracked'),
         \A q \in Plan : planStatus'[q] = "new" => q \notin Range(planTracked'),
         \E x : planAssigned' = [planAssigned EXCEPT ![p] = x],
         \E x : planResult' = [planResult EXCEPT ![p] = x],
         \E x \in [Worker -> 0 .. maxSubtasks] : planFacts' = [planFacts EXCEPT ![p] = x],
         \A q \in Plan \ {p} : planStrategy'[q] = planStrategy[q] /\ (q \in planForgotten' <=> q \in planForgotten),
         PlanFits(planStrategy'[p], planAssigned'[p], planResult'[p], planFacts'[p], p \in planForgotten')
  PROVE  PlanInv'
<1>1. PICK A : planAssigned \in [Plan -> A]
  BY DEF PlanInv
<1>2. PICK a : planAssigned' = [planAssigned EXCEPT ![p] = a]
  OBVIOUS
<1>3. PICK R : planResult \in [Plan -> R]
  BY DEF PlanInv
<1>4. PICK r : planResult' = [planResult EXCEPT ![p] = r]
  OBVIOUS
<1>5. /\ planAssigned' \in [Plan -> A \cup {a}] /\ planResult' \in [Plan -> R \cup {r}]
      /\ \A q \in Plan \ {p} : planAssigned'[q] = planAssigned[q] /\ planResult'[q] = planResult[q]
  BY <1>1, <1>2, <1>3, <1>4
<1>6. PICK x \in [Worker -> 0 .. maxSubtasks] : planFacts' = [planFacts EXCEPT ![p] = x]
  OBVIOUS
<1>7. /\ planFacts' \in [Plan -> [Worker -> 0 .. maxSubtasks]]
      /\ \A q \in Plan \ {p} : planFacts'[q] = planFacts[q]
  BY <1>6 DEF PlanInv
<1>8. ASSUME NEW q \in Plan
      PROVE  PlanFits(planStrategy'[q], planAssigned'[q], planResult'[q], planFacts'[q], q \in planForgotten')
  <2>1. CASE q = p
    BY <2>1
  <2>2. CASE q # p
    <3>1. (q \in planForgotten') = (q \in planForgotten)
      BY <2>2
    <3>2. PlanFits(planStrategy[q], planAssigned[q], planResult[q], planFacts[q], q \in planForgotten)
      BY DEF PlanInv
    <3> QED BY <2>2, <3>1, <3>2, <1>5, <1>7
  <2> QED BY <2>1, <2>2
<1> QED BY <1>5, <1>7, <1>8 DEF PlanInv

\* A step that ends a subtask.
LEMMA SubtaskEnds ==
  ASSUME NEW strategy, NEW assigned, NEW result, NEW facts, NEW gone, NEW new,
         PlanFits(strategy, assigned, result, facts, gone),
         NEW i \in 1 .. Len(assigned), result[i] = "sent", NEW how \in {"ok", "error"},
         how = "error" => new = facts,
         how = "ok" => new = IF gone THEN facts ELSE [facts EXCEPT ![assigned[i]] = i]
  PROVE  PlanFits(strategy, assigned, [result EXCEPT ![i] = how], new, gone)
<1> DEFINE n == Len(assigned)
           r == [result EXCEPT ![i] = how]
<1>1. n \in Nat /\ result \in [1 .. n -> Outcome] /\ i \in 1 .. n /\ n <= maxSubtasks
  BY PlannerAssumption DEF PlanFits
<1>2. r \in [1 .. n -> Outcome] /\ r[i] = how /\ \A j \in (1 .. n) \ {i} : r[j] = result[j]
  BY <1>1 DEF Outcome
<1>3. assigned[i] \in Worker /\ i \in 0 .. maxSubtasks /\ i > 0
  BY <1>1, PlannerAssumption DEF PlanFits
<1>4. facts \in [Worker -> 0 .. maxSubtasks]
  BY DEF PlanFits
<1>5. new \in [Worker -> 0 .. maxSubtasks]
  BY <1>3, <1>4
<1> HIDE DEF r
<1>6. {j \in 1 .. n : r[j] = "sent"} \subseteq {j \in 1 .. n : result[j] = "sent"}
  BY <1>2
<1>7. Cardinality({j \in 1 .. n : r[j] = "sent"}) <= IF strategy = "sequential" THEN 1 ELSE maxConcurrency
  <2> DEFINE S == {j \in 1 .. n : result[j] = "sent"}
             T == {j \in 1 .. n : r[j] = "sent"}
  <2>1. S \in SUBSET (1 .. n) /\ T \in SUBSET (1 .. n) /\ T \in SUBSET S
    BY <1>6
  <2>2. Cardinality(S) <= IF strategy = "sequential" THEN 1 ELSE maxConcurrency
    BY DEF PlanFits
  <2> HIDE DEF S, T
  <2>3. Cardinality(T) <= Cardinality(S) /\ Cardinality(S) \in Nat /\ Cardinality(T) \in Nat
    BY <1>1, <2>1, FirstNumbers
  <2>4. (IF strategy = "sequential" THEN 1 ELSE maxConcurrency) \in Nat
    BY PlannerAssumption
  <2>5. Cardinality(T) <= IF strategy = "sequential" THEN 1 ELSE maxConcurrency
    BY <2>2, <2>3, <2>4
  <2> QED BY <2>5 DEF T
<1>8. \A j, k \in 1 .. n : r[j] = "todo" /\ r[k] # "todo" => k < j
  BY <1>2 DEF PlanFits
<1>9. strategy = "sequential" => \A j, k \in 1 .. n : r[j] = "sent" /\ r[k] # "todo" /\ k # j => k < j
  BY <1>2 DEF PlanFits
<1>10. ASSUME ~gone, NEW j \in 1 .. n, r[j] = "ok"
       PROVE  new[assigned[j]] > 0 /\ (strategy = "sequential" => new[assigned[j]] >= j)
  <2>1. CASE j = i
    <3>1. new = [facts EXCEPT ![assigned[i]] = i]
      BY <2>1, <1>10, <1>2
    <3>2. new[assigned[i]] = i
      BY <3>1, <1>3, <1>4
    <3> QED BY <2>1, <3>2, <1>1
  <2>2. CASE j # i
    <3>1. result[j] = "ok" /\ assigned[j] \in Worker
      BY <2>2, <1>2, <1>10 DEF PlanFits
    <3>2. facts[assigned[j]] > 0 /\ (strategy = "sequential" => facts[assigned[j]] >= j)
      BY <3>1, <1>10 DEF PlanFits
    <3>3. strategy = "sequential" => j < i
      BY <3>1, <2>2 DEF PlanFits
    <3>4. new[assigned[j]] = facts[assigned[j]] \/ new[assigned[j]] = i
      BY <1>3, <1>4, <3>1
    <3> QED BY <3>2, <3>3, <3>4, <1>1
  <2> QED BY <2>1, <2>2
<1>11. \A j \in 1 .. n : r[j] \in {"sent", "ok"} => assigned[j] \in Worker
  BY <1>2, <1>3 DEF PlanFits
<1>12. PlanFits(strategy, assigned, r, new, gone)
  BY <1>2, <1>5, <1>7, <1>8, <1>9, <1>10, <1>11 DEF PlanFits
<1> QED BY <1>12 DEF r

\* A batch of subtasks begins (task-planner.js:346).
LEMMA BatchStarts ==
  ASSUME PlanInv, NEW p \in Plan, StartBatch(p) PROVE PlanInv'
<1> USE PlannerAssumption
<1> DEFINE n == Len(planAssigned[p])
           result == planResult[p]
           size == IF planStrategy[p] = "sequential" THEN 1 ELSE maxConcurrency
           open == {i \in 1 .. n : result[i] = "todo"}
           B == Batch(p)
           r == [i \in DOMAIN planResult[p] |->
                   IF i \notin Batch(p) THEN planResult[p][i]
                   ELSE IF planAssigned[p][i] = NoWorker THEN "skipped" ELSE "sent"]
<1>0. PlanFits(planStrategy[p], planAssigned[p], planResult[p], planFacts[p], p \in planForgotten)
  BY DEF PlanInv
<1>1. /\ n \in Nat /\ result \in [1 .. n -> Outcome] /\ DOMAIN result = 1 .. n
      /\ planAssigned[p] \in Seq(Worker \cup {NoWorker})
      /\ \A i \in 1 .. n : planAssigned[p][i] \in Worker \cup {NoWorker}
  BY <1>0 DEF PlanFits
<1>2. open \in SUBSET (1 .. n) /\ size \in Nat
  OBVIOUS
<1>3. B = {i \in open : Cardinality({j \in open : j < i}) < size}
  BY <1>1 DEF Batch, BatchSize
<1>4. Cardinality(B) <= size /\ B \in SUBSET open /\ \A i \in open : \A j \in B : i \notin B => j < i
  <2> HIDE DEF B, open, size
  <2>1. Cardinality(B) <= size /\ \A i \in open, j \in B : i \notin B => j < i
    BY <1>1, <1>2, <1>3, FirstFew
  <2>2. B \in SUBSET open
    BY <1>3
  <2> QED BY <2>1, <2>2
<1>5. \A i \in 1 .. n : result[i] # "sent"
  BY <1>1 DEF StartBatch, BatchIsOver
<1>6. planResult' = [planResult EXCEPT ![p] = r]
      /\ UNCHANGED <<planStatus, planStrategy, planAssigned, planFacts, planForgotten, planTracked>>
  BY DEF StartBatch
<1>7. /\ DOMAIN r = 1 .. n
      /\ \A i \in 1 .. n : r[i] = IF i \notin B THEN result[i]
                                  ELSE IF planAssigned[p][i] = NoWorker THEN "skipped" ELSE "sent"
  BY <1>1
<1> HIDE DEF B, r
<1>8. r \in [1 .. n -> Outcome]
  <2>1. \A i \in 1 .. n : r[i] \in Outcome
    BY <1>1, <1>7 DEF Outcome
  <2>2. r = [i \in 1 .. n |-> r[i]]
    BY <1>7 DEF r
  <2> QED BY <2>1, <2>2
<1>9. \A i \in 1 .. n : i \in B => result[i] = "todo"
  BY <1>4
<1>10. {i \in 1 .. n : r[i] = "sent"} \subseteq B
  BY <1>5, <1>7
<1>11. Cardinality({i \in 1 .. n : r[i] = "sent"}) <= size
  <2> DEFINE T == {i \in 1 .. n : r[i] = "sent"}
  <2>1. T \in SUBSET B /\ B \in SUBSET (1 .. n) /\ T \in SUBSET (1 .. n)
    BY <1>10, <1>4
  <2> HIDE DEF T, size
  <2>2. Cardinality(T) <= Cardinality(B) /\ Cardinality(T) \in Nat /\ Cardinality(B) \in Nat
    BY <2>1, <1>1, FirstNumbers
  <2>3. Cardinality(T) <= size
    BY <2>2, <1>2, <1>4
  <2> QED BY <2>3 DEF T
<1>12. \A i, j \in 1 .. n : r[i] = "todo" /\ r[j] # "todo" => j < i
  <2> SUFFICES ASSUME NEW i \in 1 .. n, NEW j \in 1 .. n, r[i] = "todo", r[j] # "todo" PROVE j < i
    OBVIOUS
  <2>1. i \notin B /\ result[i] = "todo"
    BY <1>7
  <2>2. CASE j \in B
    BY <2>1, <2>2, <1>4
  <2>3. CASE j \notin B
    <3>1. result[j] # "todo"
      BY <2>3, <1>7
    <3> QED BY <3>1, <2>1, <1>0 DEF PlanFits
  <2> QED BY <2>2, <2>3
<1>13. planStrategy[p] = "sequential" => \A i, j \in 1 .. n : r[i] = "sent" /\ r[j] # "todo" /\ j # i => j < i
  <2> SUFFICES ASSUME planStrategy[p] = "sequential", NEW i \in 1 .. n, NEW j \in 1 .. n,
                      r[i] = "sent", r[j] # "todo", j # i
               PROVE  j < i
    OBVIOUS
  <2>1. i \in B /\ result[i] = "todo"
    BY <1>5, <1>7, <1>9
  <2>2. CASE j \notin B
    <3>1. result[j] # "todo"
      BY <2>2, <1>7
    <3> QED BY <3>1, <2>1, <1>0 DEF PlanFits
  <2>3. CASE j \in B
    <3>1. size = 1 /\ B \in SUBSET (1 .. n)
      BY <1>4
    <3>2. {i} \in SUBSET (1 .. n) /\ j \notin {i} /\ {i} \cup {j} \in SUBSET B
      BY <2>1, <2>3
    <3>3. Cardinality({i}) = 1
      BY FS_Singleton
    <3>4. Cardinality({i} \cup {j}) = Cardinality({i}) + 1
      BY <3>2, <1>1, FirstNumbers
    <3>5. Cardinality({i} \cup {j}) <= Cardinality(B) /\ Cardinality(B) \in Nat
      BY <3>1, <3>2, <1>1, FirstNumbers
    <3>6. FALSE
      <4>1. Cardinality(B) <= 1
        BY <3>1, <1>4
      <4>2. Cardinality({i} \cup {j}) = 2
        <5> DEFINE one == Cardinality({i})
                   all == Cardinality({i} \cup {j})
        <5>1. one = 1 /\ all = one + 1
          BY <3>3, <3>4
        <5> HIDE DEF one, all
        <5>2. all = 2
          BY <5>1
        <5> QED BY <5>2 DEF all
      <4> DEFINE b == Cardinality(B)
                 two == Cardinality({i} \cup {j})
      <4>3. two = 2 /\ two <= b /\ b \in Nat /\ b <= 1
        BY <3>5, <4>1, <4>2
      <4> HIDE DEF b, two
      <4> QED BY <4>3
    <3> QED BY <3>6
  <2> QED BY <2>2, <2>3
<1>14. \A i \in 1 .. n : r[i] \in {"sent", "ok"} => planAssigned[p][i] \in Worker
  <2> SUFFICES ASSUME NEW i \in 1 .. n, r[i] \in {"sent", "ok"} PROVE planAssigned[p][i] \in Worker
    OBVIOUS
  <2>1. CASE i \in B
    BY <2>1, <1>1, <1>7
  <2>2. CASE i \notin B
    <3>1. result[i] \in {"sent", "ok"}
      BY <2>2, <1>7
    <3> QED BY <3>1, <1>0 DEF PlanFits
  <2> QED BY <2>1, <2>2
<1>15. \A i \in 1 .. n : r[i] = "ok" => result[i] = "ok"
  BY <1>7
<1>16. PlanFits(planStrategy[p], planAssigned[p], r, planFacts[p], p \in planForgotten)
  BY <1>0, <1>8, <1>11, <1>12, <1>13, <1>14, <1>15 DEF PlanFits
<1>17. planResult'[p] = r
  BY <1>6 DEF PlanInv
<1>18. /\ planAssigned' = [planAssigned EXCEPT ![p] = planAssigned[p]]
       /\ planFacts[p] \in [Worker -> 0 .. maxSubtasks] /\ planFacts' = [planFacts EXCEPT ![p] = planFacts[p]]
  BY <1>6 DEF PlanInv
<1>19. PlanFits(planStrategy'[p], planAssigned'[p], planResult'[p], planFacts'[p], p \in planForgotten')
  BY <1>6, <1>16, <1>17
<1>20. /\ planStatus' \in [Plan -> {"new", "no_subtasks", "planned", "executing", "completed"}]
       /\ planStrategy' \in [Plan -> {"parallel", "sequential"}] /\ planForgotten' \subseteq Plan
       /\ planTracked' \in Seq(Plan) /\ IsInjective(planTracked')
       /\ \A q \in Plan : planStatus'[q] = "new" => q \notin Range(planTracked')
       /\ \A q \in Plan \ {p} : planStrategy'[q] = planStrategy[q] /\ (q \in planForgotten' <=> q \in planForgotten)
  BY <1>6 DEF PlanInv
<1> QED BY <1>6, <1>18, <1>19, <1>20, OnePlan
\* A plan is kept, the oldest dropped: each is in the list once.
LEMMA NewestAre ==
  ASSUME NEW s \in Seq(Plan), IsInjective(s), Len(s) > maxPlans
  PROVE  LET t == SubSeq(s, Len(s) - maxPlans + 1, Len(s))
         IN  t \in Seq(Plan) /\ IsInjective(t) /\ Range(t) \subseteq Range(s)
<1> USE PlannerAssumption
<1> DEFINE n == Len(s)
           t == SubSeq(s, n - maxPlans + 1, n)
<1>1. n \in Nat /\ DOMAIN s = 1 .. n /\ n - maxPlans + 1 \in 1 .. n + 1
  OBVIOUS
<1>2. \A i \in n - maxPlans + 1 .. n : s[i] \in Plan
  BY <1>1
<1>3. /\ t \in Seq(Plan)
      /\ Len(t) = IF n - maxPlans + 1 <= n THEN n - (n - maxPlans + 1) + 1 ELSE 0
      /\ \A i \in 1 .. n - (n - maxPlans + 1) + 1 : t[i] = s[(n - maxPlans + 1) + i - 1]
  BY <1>1, <1>2, SubSeqProperties
<1> HIDE DEF t, n
<1>4. Len(t) = maxPlans
  BY <1>1, <1>3
<1>5. ASSUME NEW i \in 1 .. maxPlans PROVE t[i] = s[n - maxPlans + i] /\ n - maxPlans + i \in 1 .. n
  <2>1. i \in 1 .. n - (n - maxPlans + 1) + 1 /\ (n - maxPlans + 1) + i - 1 = n - maxPlans + i
    BY <1>1
  <2> QED BY <2>1, <1>1, <1>3
<1>6. DOMAIN t = 1 .. maxPlans
  BY <1>3, <1>4
<1>7. \A i, j \in 1 .. n : s[i] = s[j] => i = j
  BY <1>1 DEF IsInjective
<1>8. ASSUME NEW i \in 1 .. maxPlans, NEW j \in 1 .. maxPlans, t[i] = t[j] PROVE i = j
  <2>1. n - maxPlans + i = n - maxPlans + j
    BY <1>5, <1>7, <1>8
  <2> QED BY <2>1, <1>1
<1>9. IsInjective(t)
  BY <1>6, <1>8 DEF IsInjective
<1>10. Range(t) \subseteq Range(s)
  BY <1>1, <1>5, <1>6 DEF Range
<1> QED BY <1>3, <1>9, <1>10 DEF t, n

\* A task is planned (task-planner.js).
LEMMA PlanBegins ==
  ASSUME PlanInv, NEW p \in Plan, PlanTask(p) PROVE PlanInv'
<1> USE PlannerAssumption
<1>1. PICK assigned \in Assignments : \E strategy \in {"parallel", "sequential"} :
         \E status \in {"no_subtasks", "planned", "executing"} :
          /\ planAssigned' = [planAssigned EXCEPT ![p] = assigned]
          /\ planResult' = [planResult EXCEPT ![p] = [i \in DOMAIN assigned |-> "todo"]]
          /\ planStrategy' = [planStrategy EXCEPT ![p] = strategy]
          /\ planStatus' = [planStatus EXCEPT ![p] = status]
          /\ planTracked' \in {planTracked, Append(planTracked, p)}
  BY DEF PlanTask
<1>2. PICK strategy \in {"parallel", "sequential"}, status \in {"no_subtasks", "planned", "executing"} :
          /\ planAssigned' = [planAssigned EXCEPT ![p] = assigned]
          /\ planResult' = [planResult EXCEPT ![p] = [i \in DOMAIN assigned |-> "todo"]]
          /\ planStrategy' = [planStrategy EXCEPT ![p] = strategy]
          /\ planStatus' = [planStatus EXCEPT ![p] = status]
          /\ planTracked' \in {planTracked, Append(planTracked, p)}
  BY <1>1
<1>3. UNCHANGED <<planFacts, planForgotten>> /\ planStatus[p] = "new"
  BY DEF PlanTask
<1>4. PICK n \in {0} \cup 2 .. maxSubtasks : assigned \in [1 .. n -> Worker \cup {NoWorker}]
  BY DEF Assignments
<1>5. assigned \in Seq(Worker \cup {NoWorker}) /\ Len(assigned) = n /\ DOMAIN assigned = 1 .. n /\ n \in Nat
  BY <1>4
<1> DEFINE r == [i \in DOMAIN assigned |-> "todo"]
<1>6. r \in [1 .. n -> Outcome] /\ \A i \in 1 .. n : r[i] = "todo"
  BY <1>5 DEF Outcome
<1> HIDE DEF r
<1>7. {i \in 1 .. n : r[i] = "sent"} = {}
  BY <1>6
<1>8. Cardinality({}) = 0
  BY FS_EmptySet
<1>9. Cardinality({i \in 1 .. n : r[i] = "sent"}) <= IF strategy = "sequential" THEN 1 ELSE maxConcurrency
  <2>1. Cardinality({i \in 1 .. n : r[i] = "sent"}) = 0
    BY <1>7, <1>8
  <2> QED BY <2>1
<1>10. planFacts[p] \in [Worker -> 0 .. maxSubtasks]
  BY DEF PlanInv
<1>11. PlanFits(strategy, assigned, r, planFacts[p], p \in planForgotten)
  BY <1>5, <1>6, <1>9, <1>10 DEF PlanFits
<1>12. planAssigned'[p] = assigned /\ planResult'[p] = r
  BY <1>2 DEF PlanInv, r
<1>13. /\ planStrategy' \in [Plan -> {"parallel", "sequential"}] /\ planStrategy'[p] = strategy
       /\ \A q \in Plan \ {p} : planStrategy'[q] = planStrategy[q]
  BY <1>2 DEF PlanInv
<1>14. /\ planStatus' \in [Plan -> {"new", "no_subtasks", "planned", "executing", "completed"}]
       /\ planStatus'[p] = status /\ \A q \in Plan \ {p} : planStatus'[q] = planStatus[q]
  BY <1>2 DEF PlanInv
<1>15. PlanFits(planStrategy'[p], planAssigned'[p], planResult'[p], planFacts'[p], p \in planForgotten')
  BY <1>3, <1>11, <1>12, <1>13
<1>16. p \notin Range(planTracked) /\ planTracked \in Seq(Plan) /\ IsInjective(planTracked)
  BY <1>3 DEF PlanInv
<1>17. planTracked' \in Seq(Plan) /\ IsInjective(planTracked') /\ Range(planTracked') \subseteq Range(planTracked) \cup {p}
  <2>1. CASE planTracked' = planTracked
    BY <2>1, <1>16
  <2>2. CASE planTracked' = Append(planTracked, p)
    <3> DEFINE m == Len(planTracked)
               t == Append(planTracked, p)
    <3>1. /\ m \in Nat /\ DOMAIN planTracked = 1 .. m /\ t \in Seq(Plan) /\ Len(t) = m + 1
          /\ DOMAIN t = 1 .. m + 1 /\ t[m + 1] = p /\ \A i \in 1 .. m : t[i] = planTracked[i]
      BY <1>16
    <3> HIDE DEF t, m
    <3>2. \A i, j \in 1 .. m : planTracked[i] = planTracked[j] => i = j
      BY <3>1, <1>16 DEF IsInjective
    <3>3. \A i \in 1 .. m : planTracked[i] # p
      BY <3>1, <1>16 DEF Range
    <3>4. \A i, j \in 1 .. m + 1 : t[i] = t[j] => i = j
      BY <3>1, <3>2, <3>3
    <3>5. IsInjective(t) /\ Range(t) \subseteq Range(planTracked) \cup {p}
      <4>1. IsInjective(t)
        BY <3>1, <3>4 DEF IsInjective
      <4>2. \A i \in 1 .. m + 1 : t[i] \in Range(planTracked) \cup {p}
        BY <3>1 DEF Range
      <4> QED BY <4>1, <4>2, <3>1 DEF Range
    <3> QED BY <2>2, <3>1, <3>5 DEF t
  <2> QED BY <1>2, <2>1, <2>2
<1>18. \A q \in Plan : planStatus'[q] = "new" => q \notin Range(planTracked')
  <2> SUFFICES ASSUME NEW q \in Plan, planStatus'[q] = "new" PROVE q \notin Range(planTracked')
    OBVIOUS
  <2>1. q # p /\ planStatus[q] = "new"
    BY <1>14
  <2> QED BY <2>1, <1>17 DEF PlanInv
<1>19. /\ planForgotten' \subseteq Plan /\ planFacts' = [planFacts EXCEPT ![p] = planFacts[p]]
       /\ \A q \in Plan \ {p} : (q \in planForgotten' <=> q \in planForgotten)
  BY <1>3 DEF PlanInv
<1> QED BY <1>2, <1>10, <1>13, <1>14, <1>15, <1>17, <1>18, <1>19, OnePlan

\* A subtask ends, with an answer or an error.
LEMMA AnswerComes ==
  ASSUME PlanInv, NEW p \in Plan, NEW i \in DOMAIN planResult[p], Answered(p, i) \/ SubtaskFails(p, i)
  PROVE  PlanInv'
<1> USE PlannerAssumption
<1>0. PlanFits(planStrategy[p], planAssigned[p], planResult[p], planFacts[p], p \in planForgotten)
  BY DEF PlanInv
<1>1. i \in 1 .. Len(planAssigned[p]) /\ planResult[p][i] = "sent"
  BY <1>0 DEF PlanFits, Answered, SubtaskFails
<1>2. planAssigned[p][i] \in Worker /\ i \in 0 .. maxSubtasks
  BY <1>0, <1>1 DEF PlanFits
<1>3. UNCHANGED <<planStatus, planStrategy, planAssigned, planForgotten, planTracked>>
  BY DEF Answered, SubtaskFails
<1>4. planFacts \in [Plan -> [Worker -> 0 .. maxSubtasks]] /\ planFacts[p] \in [Worker -> 0 .. maxSubtasks]
  BY DEF PlanInv
<1>5. \E how \in {"ok", "error"} : \E new \in [Worker -> 0 .. maxSubtasks] :
        /\ planResult' = [planResult EXCEPT ![p][i] = how]
        /\ planFacts' = [planFacts EXCEPT ![p] = new]
        /\ how = "error" => new = planFacts[p]
        /\ how = "ok" => new = IF p \in planForgotten THEN planFacts[p]
                               ELSE [planFacts[p] EXCEPT ![planAssigned[p][i]] = i]
  <2>0. planFacts = [planFacts EXCEPT ![p] = planFacts[p]]
    BY <1>4
  <2>1. CASE Answered(p, i)
    <3>1. CASE p \in planForgotten
      BY <2>0, <2>1, <3>1, <1>4 DEF Answered
    <3>2. CASE p \notin planForgotten
      <4> DEFINE new == [planFacts[p] EXCEPT ![planAssigned[p][i]] = i]
      <4>1. new \in [Worker -> 0 .. maxSubtasks]
        BY <1>2, <1>4
      <4>2. planFacts' = [planFacts EXCEPT ![p] = new] /\ planResult' = [planResult EXCEPT ![p][i] = "ok"]
        BY <2>1, <3>2, <1>4 DEF Answered
      <4> QED BY <4>1, <4>2, <3>2
    <3> QED BY <3>1, <3>2
  <2>2. CASE SubtaskFails(p, i)
    BY <2>0, <2>2, <1>4 DEF SubtaskFails
  <2> QED BY <2>1, <2>2
<1>6. PICK how \in {"ok", "error"} : \E new \in [Worker -> 0 .. maxSubtasks] :
        /\ planResult' = [planResult EXCEPT ![p][i] = how]
        /\ planFacts' = [planFacts EXCEPT ![p] = new]
        /\ how = "error" => new = planFacts[p]
        /\ how = "ok" => new = IF p \in planForgotten THEN planFacts[p]
                               ELSE [planFacts[p] EXCEPT ![planAssigned[p][i]] = i]
  BY <1>5
<1>7. PICK new \in [Worker -> 0 .. maxSubtasks] :
        /\ planResult' = [planResult EXCEPT ![p][i] = how]
        /\ planFacts' = [planFacts EXCEPT ![p] = new]
        /\ how = "error" => new = planFacts[p]
        /\ how = "ok" => new = IF p \in planForgotten THEN planFacts[p]
                               ELSE [planFacts[p] EXCEPT ![planAssigned[p][i]] = i]
  BY <1>6
<1>8. PlanFits(planStrategy[p], planAssigned[p], [planResult[p] EXCEPT ![i] = how], new, p \in planForgotten)
  BY <1>0, <1>1, <1>7, SubtaskEnds
<1>9. planResult' = [planResult EXCEPT ![p] = [planResult[p] EXCEPT ![i] = how]]
  BY <1>7 DEF PlanInv
<1>10. planResult'[p] = [planResult[p] EXCEPT ![i] = how] /\ planFacts'[p] = new
  BY <1>4, <1>7, <1>9 DEF PlanInv
<1>11. PlanFits(planStrategy'[p], planAssigned'[p], planResult'[p], planFacts'[p], p \in planForgotten')
  BY <1>3, <1>8, <1>10
<1>12. planAssigned' = [planAssigned EXCEPT ![p] = planAssigned[p]]
  BY <1>3 DEF PlanInv
<1>13. /\ planStatus' \in [Plan -> {"new", "no_subtasks", "planned", "executing", "completed"}]
       /\ planStrategy' \in [Plan -> {"parallel", "sequential"}] /\ planForgotten' \subseteq Plan
       /\ planTracked' \in Seq(Plan) /\ IsInjective(planTracked')
       /\ \A q \in Plan : planStatus'[q] = "new" => q \notin Range(planTracked')
       /\ \A q \in Plan \ {p} : planStrategy'[q] = planStrategy[q] /\ (q \in planForgotten' <=> q \in planForgotten)
  BY <1>3 DEF PlanInv
<1> QED BY <1>7, <1>9, <1>11, <1>12, <1>13, OnePlan

\* Every step keeps the invariant.
LEMMA PlanStep == PlanInv /\ [PlannerNext]_planVars => PlanInv'
<1> SUFFICES ASSUME PlanInv, [PlannerNext]_planVars PROVE PlanInv'
  OBVIOUS
<1> USE PlannerAssumption
<1>1. ASSUME NEW p \in Plan, PlanTask(p) PROVE PlanInv'
  BY <1>1, PlanBegins
<1>2. ASSUME NEW p \in Plan, StartBatch(p) PROVE PlanInv'
  BY <1>2, BatchStarts
<1>3. ASSUME NEW p \in Plan, NEW i \in DOMAIN planResult[p], Answered(p, i) \/ SubtaskFails(p, i) PROVE PlanInv'
  BY <1>3, AnswerComes
<1>4. ASSUME NEW p \in Plan, CompletePlan(p) PROVE PlanInv'
  <2>1. UNCHANGED <<planStrategy, planAssigned, planResult, planFacts, planForgotten>>
        /\ planStatus' = [planStatus EXCEPT ![p] = "completed"]
    BY <1>4 DEF CompletePlan
  <2>2. planStatus' \in [Plan -> {"new", "no_subtasks", "planned", "executing", "completed"}]
        /\ \A q \in Plan : planStatus'[q] = "new" => planStatus[q] = "new"
    BY <2>1 DEF PlanInv
  <2>3. planTracked' \in Seq(Plan) /\ IsInjective(planTracked') /\ Range(planTracked') \subseteq Range(planTracked)
    <3>1. CASE Len(planTracked) > maxPlans
      BY <1>4, <3>1, NewestAre DEF CompletePlan, PlanInv
    <3>2. CASE ~(Len(planTracked) > maxPlans)
      BY <1>4, <3>2 DEF CompletePlan, PlanInv
    <3> QED BY <3>1, <3>2
  <2>4. \A q \in Plan : planStatus'[q] = "new" => q \notin Range(planTracked')
    BY <2>2, <2>3 DEF PlanInv
  <2> QED BY <2>1, <2>2, <2>3, <2>4 DEF PlanInv
<1>5. ASSUME NEW p \in Plan, NamespaceGoes(p) PROVE PlanInv'
  <2> DEFINE none == [a \in Worker |-> 0]
  <2>1. /\ UNCHANGED <<planStatus, planStrategy, planAssigned, planResult, planTracked>>
        /\ planForgotten' = planForgotten \cup {p} /\ planFacts' = [planFacts EXCEPT ![p] = none]
    BY <1>5 DEF NamespaceGoes
  <2>2. none \in [Worker -> 0 .. maxSubtasks]
    OBVIOUS
  <2> HIDE DEF none
  <2>3. PlanFits(planStrategy[p], planAssigned[p], planResult[p], none, TRUE)
    BY <2>2 DEF PlanInv, PlanFits
  <2>4. planFacts'[p] = none /\ (p \in planForgotten') = TRUE
    BY <2>1 DEF PlanInv
  <2>5. PlanFits(planStrategy'[p], planAssigned'[p], planResult'[p], planFacts'[p], p \in planForgotten')
    BY <2>1, <2>3, <2>4
  <2>6. planAssigned' = [planAssigned EXCEPT ![p] = planAssigned[p]]
        /\ planResult' = [planResult EXCEPT ![p] = planResult[p]]
    BY <2>1 DEF PlanInv
  <2>7. /\ planStatus' \in [Plan -> {"new", "no_subtasks", "planned", "executing", "completed"}]
        /\ planStrategy' \in [Plan -> {"parallel", "sequential"}] /\ planForgotten' \subseteq Plan
        /\ planTracked' \in Seq(Plan) /\ IsInjective(planTracked')
        /\ \A q \in Plan : planStatus'[q] = "new" => q \notin Range(planTracked')
        /\ \A q \in Plan \ {p} : planStrategy'[q] = planStrategy[q] /\ (q \in planForgotten' <=> q \in planForgotten)
    BY <2>1 DEF PlanInv
  <2> QED BY <2>1, <2>2, <2>5, <2>6, <2>7, OnePlan
<1>6. CASE UNCHANGED planVars
  BY <1>6 DEF planVars, PlanInv
<1> QED BY <1>1, <1>2, <1>3, <1>4, <1>5, <1>6 DEF PlannerNext

\* The invariant of the plans holds always.
LEMMA PlanSafe == PlannerInit /\ [][PlannerNext]_planVars => []PlanInv
<1>1. PlannerInit => PlanInv
  <2> SUFFICES ASSUME PlannerInit PROVE PlanInv
    OBVIOUS
  <2> USE PlannerAssumption
  <2> DEFINE none == [a \in Worker |-> 0]
  <2>1. /\ <<>> \in Seq(Plan) /\ <<>> \in Seq(Worker \cup {NoWorker}) /\ Len(<<>>) = 0
        /\ IsInjective(<<>>) /\ Range(<<>>) = {} /\ <<>> \in [1 .. 0 -> Outcome]
    BY DEF IsInjective, Range
  <2>2. none \in [Worker -> 0 .. maxSubtasks]
    OBVIOUS
  <2> HIDE DEF none
  <2>3. Cardinality({}) = 0
    BY FS_EmptySet
  <2>4. {i \in 1 .. 0 : <<>>[i] = "sent"} = {}
    OBVIOUS
  <2>5. PlanFits("parallel", <<>>, <<>>, none, FALSE)
    <3>1. Cardinality({i \in 1 .. Len(<<>>) : <<>>[i] = "sent"}) = 0
      BY <2>1, <2>3, <2>4
    <3> QED BY <2>1, <2>2, <3>1 DEF PlanFits
  <2>6. ASSUME NEW p \in Plan
        PROVE  PlanFits(planStrategy[p], planAssigned[p], planResult[p], planFacts[p], p \in planForgotten)
    <3>1. /\ planStrategy[p] = "parallel" /\ planAssigned[p] = <<>> /\ planResult[p] = <<>> /\ planFacts[p] = none
          /\ (p \in planForgotten) = FALSE
      BY DEF PlannerInit, none
    <3> QED BY <3>1, <2>5
  <2>7. planAssigned \in [Plan -> {<<>>}] /\ planResult \in [Plan -> {<<>>}]
    BY DEF PlannerInit
  <2>8. planFacts \in [Plan -> [Worker -> 0 .. maxSubtasks]]
    BY <2>2 DEF PlannerInit, none
  <2> QED BY <2>1, <2>6, <2>7, <2>8 DEF PlannerInit, PlanInv
<1> QED BY <1>1, PlanStep, PTL

\* What the invariant is for.
LEMMA PlanKeeps == PlanInv => PlannerTypeOK /\ InOrder /\ FactsAreHandedOn
<1> SUFFICES ASSUME PlanInv PROVE PlannerTypeOK /\ InOrder /\ FactsAreHandedOn
  OBVIOUS
<1> USE PlannerAssumption
<1>1. ASSUME NEW p \in Plan
      PROVE  /\ PlanFits(planStrategy[p], planAssigned[p], planResult[p], planFacts[p], p \in planForgotten)
             /\ DOMAIN planResult[p] = 1 .. Len(planAssigned[p]) /\ DOMAIN planAssigned[p] = 1 .. Len(planAssigned[p])
  <2>1. PlanFits(planStrategy[p], planAssigned[p], planResult[p], planFacts[p], p \in planForgotten)
    BY DEF PlanInv
  <2> QED BY <2>1 DEF PlanFits
<1>2. PlannerTypeOK
  <2>1. Range(planTracked) \subseteq Plan
    BY DEF PlanInv, Range
  <2> QED BY <2>1, <1>1 DEF PlanInv, PlannerTypeOK, PlanFits
<1>3. InOrder
  <2> SUFFICES ASSUME NEW p \in Plan
               PROVE  /\ Cardinality({i \in DOMAIN planResult[p] : planResult[p][i] \in {"sent"}}) <= BatchSize(p)
                      /\ \A i \in {k \in DOMAIN planResult[p] : planResult[p][k] \in {"todo"}} :
                         \A j \in DOMAIN planResult[p] \ {k \in DOMAIN planResult[p] : planResult[p][k] \in {"todo"}} : j < i
    BY DEF InOrder
  <2>1. {i \in DOMAIN planResult[p] : planResult[p][i] \in {"sent"}}
          = {i \in 1 .. Len(planAssigned[p]) : planResult[p][i] = "sent"}
    BY <1>1
  <2>2. Cardinality({i \in DOMAIN planResult[p] : planResult[p][i] \in {"sent"}}) <= BatchSize(p)
    BY <2>1, <1>1 DEF PlanFits, BatchSize
  <2>3. \A i, j \in DOMAIN planResult[p] : planResult[p][i] = "todo" /\ planResult[p][j] # "todo" => j < i
    BY <1>1 DEF PlanFits
  <2> QED BY <2>2, <2>3
<1>4. FactsAreHandedOn
  BY <1>1 DEF FactsAreHandedOn, PlanFits
<1> QED BY <1>2, <1>3, <1>4

-------------------------------------------------------------------------------
\* Group chats (group-chat.js).

\* The participants without the sender, each once.
LEMMA RecipientsAre ==
  ASSUME NEW m \in ChatMessage, groupFrom[m] \in Participant
  PROVE  /\ Recipients(m) \in Seq(Participant)
         /\ Len(Recipients(m)) \in Nat
         /\ \A i \in 1 .. Len(Recipients(m)) : Recipients(m)[i] \in Participant \ {groupFrom[m]}
         /\ \A i, j \in 1 .. Len(Recipients(m)) : Recipients(m)[i] = Recipients(m)[j] => i = j
<1> USE GroupAssumption
<1> DEFINE k == CHOOSE i \in DOMAIN order : order[i] = groupFrom[m]
           n == Len(order)
           a == SubSeq(order, 1, k - 1)
           b == SubSeq(order, k + 1, n)
<1>1. n \in Nat /\ DOMAIN order = 1 .. n
  OBVIOUS
<1>2. k \in 1 .. n /\ order[k] = groupFrom[m]
  <2>1. groupFrom[m] \in Range(order)
    OBVIOUS
  <2>2. \E i \in DOMAIN order : order[i] = groupFrom[m]
    BY <2>1 DEF Range
  <2> QED BY <2>2, <1>1
<1>3. \A i, j \in 1 .. n : order[i] = order[j] => i = j
  BY <1>1 DEF IsInjective
<1>4. Recipients(m) = a \o b
  BY DEF Recipients, RemoveAt
<1> HIDE DEF k
<1>5. a \in Seq(Participant) /\ Len(a) = k - 1 /\ \A i \in 1 .. k - 1 : a[i] = order[i]
  <2>1. k - 1 \in Int /\ \A i \in 1 .. k - 1 : order[i] \in Participant
    BY <1>1, <1>2
  <2>2. /\ a \in Seq(Participant) /\ Len(a) = IF 1 <= k - 1 THEN (k - 1) - 1 + 1 ELSE 0
        /\ \A i \in 1 .. (k - 1) - 1 + 1 : a[i] = order[1 + i - 1]
    BY <2>1, SubSeqProperties
  <2> HIDE DEF a
  <2>3. Len(a) = k - 1
    BY <1>2, <2>2
  <2>4. ASSUME NEW i \in 1 .. k - 1 PROVE a[i] = order[i]
    <3>1. i \in 1 .. (k - 1) - 1 + 1 /\ 1 + i - 1 = i
      BY <1>2
    <3> QED BY <3>1, <2>2
  <2> QED BY <2>2, <2>3, <2>4
<1>6. b \in Seq(Participant) /\ Len(b) = n - k /\ \A i \in 1 .. n - k : b[i] = order[k + i]
  <2>1. k + 1 \in Int /\ n \in Int /\ \A i \in k + 1 .. n : order[i] \in Participant
    BY <1>1, <1>2
  <2>2. /\ b \in Seq(Participant) /\ Len(b) = IF k + 1 <= n THEN n - (k + 1) + 1 ELSE 0
        /\ \A i \in 1 .. n - (k + 1) + 1 : b[i] = order[(k + 1) + i - 1]
    BY <2>1, SubSeqProperties
  <2> HIDE DEF b, n
  <2>3. Len(b) = n - k
    BY <1>1, <1>2, <2>2
  <2>4. ASSUME NEW i \in 1 .. n - k PROVE b[i] = order[k + i]
    <3>1. i \in 1 .. n - (k + 1) + 1 /\ (k + 1) + i - 1 = k + i
      BY <1>1, <1>2
    <3> QED BY <3>1, <2>2
  <2> QED BY <2>2, <2>3, <2>4
<1> DEFINE c == a \o b
<1> HIDE DEF a, b, n
<1>7. /\ c \in Seq(Participant) /\ Len(c) = Len(a) + Len(b)
      /\ \A i \in 1 .. Len(a) + Len(b) : c[i] = IF i <= Len(a) THEN a[i] ELSE b[i - Len(a)]
  BY <1>5, <1>6, ConcatProperties
<1> HIDE DEF c
<1>8. Len(c) = n - 1 /\ \A i \in 1 .. n - 1 : c[i] = IF i < k THEN order[i] ELSE order[i + 1]
  <2>1. Len(c) = n - 1
    BY <1>1, <1>2, <1>5, <1>6, <1>7
  <2>2. ASSUME NEW i \in 1 .. n - 1 PROVE c[i] = IF i < k THEN order[i] ELSE order[i + 1]
    <3>1. CASE i < k
      BY <3>1, <1>1, <1>2, <1>5, <1>6, <1>7
    <3>2. CASE i >= k
      <4>1. i - Len(a) \in 1 .. n - k /\ k + (i - Len(a)) = i + 1 /\ ~(i <= Len(a)) /\ i \in 1 .. Len(a) + Len(b)
        BY <3>2, <1>1, <1>2, <1>5, <1>6
      <4>2. c[i] = b[i - Len(a)]
        BY <4>1, <1>7
      <4> QED BY <4>1, <4>2, <1>6, <3>2, <1>2, <1>1
    <3> QED BY <3>1, <3>2, <1>1, <1>2
  <2> QED BY <2>1, <2>2
<1>9. \A i \in 1 .. n - 1 : c[i] \in Participant \ {groupFrom[m]}
  <2> SUFFICES ASSUME NEW i \in 1 .. n - 1 PROVE c[i] \in Participant /\ c[i] # groupFrom[m]
    OBVIOUS
  <2>1. PICK j \in 1 .. n : j # k /\ c[i] = order[j]
    BY <1>1, <1>2, <1>8
  <2>2. order[j] \in Participant
    BY <2>1, <1>1 DEF n
  <2> QED BY <2>1, <2>2, <1>2, <1>3
<1>10. \A i, j \in 1 .. n - 1 : c[i] = c[j] => i = j
  <2> SUFFICES ASSUME NEW i \in 1 .. n - 1, NEW j \in 1 .. n - 1, c[i] = c[j] PROVE i = j
    OBVIOUS
  <2>1. i \in 1 .. n /\ j \in 1 .. n /\ i + 1 \in 1 .. n /\ j + 1 \in 1 .. n
    BY <1>1
  <2>2. (IF i < k THEN i ELSE i + 1) = (IF j < k THEN j ELSE j + 1)
    BY <2>1, <1>3, <1>8
  <2> QED BY <2>2, <1>2, <1>1
<1>11. Recipients(m) = c
  BY <1>4 DEF c
<1>12. n \in Nat /\ Len(c) \in Nat /\ Len(c) = n - 1
  BY <1>1, <1>7, <1>8
<1> QED BY <1>7, <1>8, <1>9, <1>10, <1>11, <1>12

\* The recipients who so far are the first ones, and a message in the past is not new.
GroupInv ==
  /\ GroupTypeOK
  /\ groupHistory \in Seq(ChatMessage)
  /\ groupAsked \in [ChatMessage -> Seq(Participant)]
  /\ groupReplies \in [ChatMessage -> SUBSET Participant]
  /\ \A m \in ChatMessage :
        /\ groupMode[m] = "new" => groupAsked[m] = <<>> /\ m \notin Range(groupHistory)
        /\ groupMode[m] = "asking" => Len(groupAsked[m]) > 0
        /\ Len(groupAsked[m]) <= Len(Recipients(m))
        /\ \A i \in 1 .. Len(groupAsked[m]) : groupAsked[m][i] = Recipients(m)[i]
  /\ LaterSeeEarlier

\* What of the invariant is of one message: whom it was sent to and who replied...
Fits(sender, who, replies) ==
  /\ IsInjective(who)
  /\ Range(who) \subseteq Participant \ {sender}
  /\ replies \subseteq Range(who)

\* ...and what each of them was shown.
Sees(shown, who, replies) ==
  \A i \in DOMAIN who : shown[who[i]] = replies \cap {who[j] : j \in 1 .. (i - 1)}

Later(past, mode, shown, who, replies) ==
  \A k \in DOMAIN past :
    mode[past[k]] # "sent" /\ Len(past) - k < recent =>
      Sees(shown[past[k]], who[past[k]], replies[past[k]])

\* The property, of the variables before and after a step.
LEMMA LaterIs ==
  /\ LaterSeeEarlier <=> Later(groupHistory, groupMode, groupShown, groupAsked, groupReplies)
  /\ LaterSeeEarlier' <=> Later(groupHistory', groupMode', groupShown', groupAsked', groupReplies')
BY DEF LaterSeeEarlier, Later, Sees

\* A prefix of the recipients fits.
LEMMA PrefixFits ==
  ASSUME NEW m \in ChatMessage, groupFrom[m] \in Participant,
         NEW who \in Seq(Participant), Len(who) <= Len(Recipients(m)),
         \A i \in 1 .. Len(who) : who[i] = Recipients(m)[i]
  PROVE  IsInjective(who) /\ Range(who) \subseteq Participant \ {groupFrom[m]}
<1>1. Len(who) \in Nat /\ Len(Recipients(m)) \in Nat /\ DOMAIN who = 1 .. Len(who)
  BY RecipientsAre
<1>2. \A i \in 1 .. Len(who) : i \in 1 .. Len(Recipients(m))
  BY <1>1
<1>3. \A i, j \in 1 .. Len(who) : who[i] = who[j] => i = j
  BY <1>2, RecipientsAre
<1>4. \A i \in 1 .. Len(who) : who[i] \in Participant \ {groupFrom[m]}
  BY <1>2, RecipientsAre
<1> QED BY <1>1, <1>3, <1>4 DEF IsInjective, Range

\* Every step keeps the invariant.
LEMMA GroupStep == GroupInv /\ [GroupNext]_groupVars => GroupInv'
<1> SUFFICES ASSUME GroupInv, [GroupNext]_groupVars PROVE GroupInv'
  OBVIOUS
<1> USE GroupAssumption
<1> DEFINE Modes == {"new", "refused", "round", "asking", "done", "sent"}
<1>0. /\ groupHistory \in Seq(ChatMessage) /\ groupAsked \in [ChatMessage -> Seq(Participant)]
      /\ groupReplies \in [ChatMessage -> SUBSET Participant]
      /\ groupFrom \in [ChatMessage -> Participant] /\ groupMode \in [ChatMessage -> Modes]
      /\ groupShown \in [ChatMessage -> [Participant -> SUBSET Participant]]
      /\ groupActive \in BOOLEAN
      /\ \A m \in ChatMessage : Fits(groupFrom[m], groupAsked[m], groupReplies[m])
  BY DEF GroupInv, GroupTypeOK, Fits
<1>h. /\ Len(groupHistory) \in Nat /\ DOMAIN groupHistory = 1 .. Len(groupHistory)
      /\ \A k \in 1 .. Len(groupHistory) : groupHistory[k] \in ChatMessage
  BY <1>0
<1>l. Later(groupHistory, groupMode, groupShown, groupAsked, groupReplies)
  BY LaterIs DEF GroupInv
<1>f. groupFrom' = groupFrom /\ \A m \in ChatMessage : Recipients(m)' = Recipients(m)
  <2>1. groupFrom' = groupFrom
    BY DEF GroupNext, SendToGroup, AskNext, ReplyArrives, ReplyFails, RoundEnds, CloseGroup, groupVars
  <2> QED BY <2>1 DEF Recipients
<1>1. ASSUME NEW m \in ChatMessage, SendToGroup(m) PROVE GroupInv'
  <2>0. groupMode[m] = "new" /\ groupAsked[m] = <<>> /\ m \notin Range(groupHistory)
        /\ UNCHANGED <<groupActive, groupReplies, groupShown>>
    BY <1>1 DEF SendToGroup, GroupInv
  <2>r. groupReplies[m] = {}
    BY <2>0, <1>0 DEF Fits, Range
  <2>1. PICK mode \in {"round", "sent", "refused"} :
          /\ groupMode' = [groupMode EXCEPT ![m] = mode]
          /\ mode # "sent" => groupAsked' = groupAsked
          /\ mode = "sent" => groupAsked' = [groupAsked EXCEPT ![m] = Recipients(m)]
          /\ groupHistory' \in {groupHistory, Append(groupHistory, m)}
    BY <1>1 DEF SendToGroup, Mode
  <2>2. /\ groupMode' \in [ChatMessage -> Modes] /\ groupMode'[m] = mode
        /\ \A n \in ChatMessage \ {m} : groupMode'[n] = groupMode[n]
    BY <2>1, <1>0
  <2>3. groupFrom[m] \in Participant
    BY <1>0
  <2>4. groupAsked' \in [ChatMessage -> Seq(Participant)] /\ groupAsked'[m] \in {<<>>, Recipients(m)}
        /\ (mode # "sent" => groupAsked'[m] = <<>>)
        /\ \A n \in ChatMessage \ {m} : groupAsked'[n] = groupAsked[n]
    <3>1. Recipients(m) \in Seq(Participant)
      BY <2>3, RecipientsAre
    <3>2. groupAsked \in [ChatMessage -> Seq(Participant)]
      BY <1>0
    <3>3. CASE mode = "sent"
      BY <2>1, <3>1, <3>2, <3>3
    <3>4. CASE mode # "sent"
      BY <2>0, <2>1, <3>2, <3>4
    <3> QED BY <3>3, <3>4
  <2>5. Len(<<>>) = 0 /\ Len(Recipients(m)) \in Nat
    BY <2>3, RecipientsAre
  <2>6. ASSUME NEW n \in ChatMessage
        PROVE  /\ Len(groupAsked'[n]) <= Len(Recipients(n)')
               /\ \A i \in 1 .. Len(groupAsked'[n]) : groupAsked'[n][i] = Recipients(n)'[i]
               /\ Fits(groupFrom[n], groupAsked'[n], groupReplies'[n])
    <3>1. CASE n = m
      <4>1. /\ Len(groupAsked'[n]) <= Len(Recipients(n))
            /\ \A i \in 1 .. Len(groupAsked'[n]) : groupAsked'[n][i] = Recipients(n)[i]
        BY <3>1, <2>4, <2>5
      <4>2. IsInjective(groupAsked'[n]) /\ Range(groupAsked'[n]) \subseteq Participant \ {groupFrom[n]}
        BY <4>1, <2>3, <2>4, <3>1, PrefixFits
      <4> QED BY <4>1, <4>2, <3>1, <2>0, <2>r, <1>f DEF Fits
    <3>2. CASE n # m
      BY <3>2, <2>0, <2>4, <1>0, <1>f DEF GroupInv, Fits
    <3> QED BY <3>1, <3>2
  <2>7. ASSUME groupHistory' = groupHistory PROVE GroupInv'
    <3>1. GroupTypeOK'
      BY <2>0, <2>2, <2>6, <2>7, <1>0, <1>f DEF GroupTypeOK, GroupInv, Fits
    <3>2. LaterSeeEarlier'
      <4> SUFFICES ASSUME NEW k \in 1 .. Len(groupHistory), groupMode'[groupHistory[k]] # "sent",
                          Len(groupHistory) - k < recent
                   PROVE  Sees(groupShown[groupHistory[k]], groupAsked'[groupHistory[k]], groupReplies[groupHistory[k]])
        BY <2>0, <2>7, <1>h, LaterIs DEF Later
      <4>1. groupHistory[k] # m
        BY <2>0, <1>h DEF Range
      <4> QED BY <4>1, <2>2, <2>4, <1>h, <1>l DEF Later
    <3>3. \A n \in ChatMessage : groupMode'[n] = "new" => groupAsked'[n] = <<>> /\ n \notin Range(groupHistory')
      BY <2>0, <2>1, <2>2, <2>4, <2>7 DEF GroupInv
    <3>4. \A n \in ChatMessage : groupMode'[n] = "asking" => Len(groupAsked'[n]) > 0
      BY <2>1, <2>2, <2>4 DEF GroupInv
    <3> QED BY <3>1, <3>2, <3>3, <3>4, <2>0, <2>4, <2>6, <2>7, <1>0 DEF GroupInv
  <2>8. ASSUME groupHistory' = Append(groupHistory, m) PROVE GroupInv'
    <3> DEFINE h == Append(groupHistory, m)
    <3>1. /\ h \in Seq(ChatMessage) /\ Len(h) = Len(groupHistory) + 1 /\ h[Len(groupHistory) + 1] = m
          /\ \A k \in 1 .. Len(groupHistory) : h[k] = groupHistory[k]
          /\ DOMAIN h = 1 .. Len(h)
      BY <1>0
    <3> HIDE DEF h
    <3>2. \A k \in 1 .. Len(groupHistory) : groupHistory[k] # m
      BY <2>0, <1>h DEF Range
    <3>3. \A n : n \in Range(h) => n \in Range(groupHistory) \/ n = m
      BY <3>1, <1>h DEF Range
    <3>4. \A i, j \in 1 .. Len(groupHistory) : groupHistory[i] = groupHistory[j] => i = j
      BY <1>h DEF GroupInv, GroupTypeOK, IsInjective
    <3>5. IsInjective(h)
      <4>1. \A i, j \in 1 .. Len(h) : h[i] = h[j] => i = j
        BY <3>1, <3>2, <3>4, <1>h
      <4> QED BY <4>1, <3>1 DEF IsInjective
    <3>6. Range(h) \subseteq ChatMessage
      BY <3>1 DEF Range
    <3>7. groupHistory' = h
      BY <2>8 DEF h
    <3>8. GroupTypeOK'
      BY <2>0, <2>2, <2>6, <3>5, <3>6, <3>7, <1>0, <1>f DEF GroupTypeOK, Fits
    <3>9. LaterSeeEarlier'
      <4> SUFFICES ASSUME NEW k \in 1 .. Len(h), groupMode'[h[k]] # "sent", Len(h) - k < recent
                   PROVE  Sees(groupShown[h[k]], groupAsked'[h[k]], groupReplies[h[k]])
        BY <2>0, <3>1, <3>7, LaterIs DEF Later
      <4>1. CASE k = Len(groupHistory) + 1
        <5>1. h[k] = m /\ mode # "sent"
          BY <4>1, <3>1, <2>2
        <5>2. groupAsked'[h[k]] = <<>>
          BY <5>1, <2>4
        <5> QED BY <5>2 DEF Sees
      <4>2. CASE k # Len(groupHistory) + 1
        <5>1. k \in 1 .. Len(groupHistory) /\ Len(groupHistory) - k < recent
          BY <4>2, <3>1, <1>h
        <5>2. h[k] = groupHistory[k] /\ groupHistory[k] # m /\ groupHistory[k] \in ChatMessage
          BY <5>1, <3>1, <3>2, <1>h
        <5>3. groupMode'[h[k]] = groupMode[groupHistory[k]] /\ groupAsked'[h[k]] = groupAsked[groupHistory[k]]
          BY <5>2, <2>2, <2>4
        <5> QED BY <5>1, <5>2, <5>3, <1>h, <1>l DEF Later
      <4> QED BY <4>1, <4>2
    <3>10. \A n \in ChatMessage : groupMode'[n] = "new" => groupAsked'[n] = <<>> /\ n \notin Range(groupHistory')
      BY <2>0, <2>1, <2>2, <2>4, <3>3, <3>7 DEF GroupInv
    <3>11. \A n \in ChatMessage : groupMode'[n] = "asking" => Len(groupAsked'[n]) > 0
      BY <2>1, <2>2, <2>4 DEF GroupInv
    <3> QED BY <3>1, <3>7, <3>8, <3>9, <3>10, <3>11, <2>0, <2>4, <2>6, <1>0 DEF GroupInv
  <2> QED BY <2>1, <2>7, <2>8
<1>2. ASSUME NEW m \in ChatMessage, AskNext(m) PROVE GroupInv'
  <2> DEFINE len == Len(groupAsked[m])
             p == Recipients(m)[len + 1]
             who == Append(groupAsked[m], p)
  <2>0. /\ groupMode[m] = "round" /\ len < Len(Recipients(m))
        /\ groupAsked' = [groupAsked EXCEPT ![m] = who]
        /\ groupShown' = [groupShown EXCEPT ![m] = [groupShown[m] EXCEPT ![p] = ShownNow(m)]]
        /\ groupMode' = [groupMode EXCEPT ![m] = "asking"]
        /\ UNCHANGED <<groupActive, groupHistory, groupReplies>>
    BY <1>2 DEF AskNext, Mode
  <2>1. groupFrom[m] \in Participant /\ groupAsked[m] \in Seq(Participant) /\ len \in Nat
    BY <1>0
  <2>2. p \in Participant
    BY <2>0, <2>1, RecipientsAre
  <2>3. /\ who \in Seq(Participant) /\ Len(who) = len + 1 /\ who[len + 1] = p
        /\ \A i \in 1 .. len : who[i] = groupAsked[m][i]
        /\ DOMAIN who = 1 .. len + 1 /\ DOMAIN groupAsked[m] = 1 .. len
    BY <2>1, <2>2
  <2> HIDE DEF who
  <2>4. \A i \in 1 .. len : groupAsked[m][i] = Recipients(m)[i]
    BY DEF GroupInv
  <2>5. /\ Len(who) <= Len(Recipients(m))
        /\ \A i \in 1 .. Len(who) : who[i] = Recipients(m)[i]
    <3>1. Len(Recipients(m)) \in Nat
      BY <2>1, RecipientsAre
    <3>2. Len(who) <= Len(Recipients(m))
      BY <2>0, <2>1, <2>3, <3>1
    <3>3. ASSUME NEW i \in 1 .. Len(who) PROVE who[i] = Recipients(m)[i]
      <4>1. CASE i = len + 1
        BY <2>3, <4>1
      <4>2. CASE i # len + 1
        <5>1. i \in 1 .. len
          BY <2>1, <2>3, <4>2
        <5> QED BY <2>3, <2>4, <5>1
      <4> QED BY <4>1, <4>2
    <3> QED BY <3>2, <3>3
  <2>6. IsInjective(who) /\ Range(who) \subseteq Participant \ {groupFrom[m]}
    BY <2>1, <2>3, <2>5, PrefixFits
  <2> HIDE DEF p
  <2>7. \A i, j \in 1 .. len + 1 : who[i] = who[j] => i = j
    BY <2>3, <2>6 DEF IsInjective
  <2>8. groupReplies[m] \subseteq {who[j] : j \in 1 .. len}
    <3>1. groupReplies[m] \subseteq Range(groupAsked[m])
      BY <1>0 DEF Fits
    <3>2. Range(groupAsked[m]) \subseteq {who[j] : j \in 1 .. len}
      BY <2>3 DEF Range
    <3> QED BY <3>1, <3>2
  <2>9. groupReplies[m] \subseteq Range(who)
    <3>0. \A j \in 1 .. len : j \in DOMAIN who
      BY <2>1, <2>3
    <3>1. {who[j] : j \in 1 .. len} \subseteq Range(who)
      BY <3>0 DEF Range
    <3> QED BY <3>1, <2>8
  <2>10. ShownNow(m) \in SUBSET Participant
    BY <1>0 DEF ShownNow
  <2>11. groupShown[m] \in [Participant -> SUBSET Participant]
    BY <1>0
  <2>12. /\ groupAsked' \in [ChatMessage -> Seq(Participant)] /\ groupAsked'[m] = who
         /\ \A n \in ChatMessage \ {m} : groupAsked'[n] = groupAsked[n]
    BY <2>0, <2>3, <1>0
  <2>13. /\ groupShown' \in [ChatMessage -> [Participant -> SUBSET Participant]]
         /\ groupShown'[m] = [groupShown[m] EXCEPT ![p] = ShownNow(m)]
         /\ \A n \in ChatMessage \ {m} : groupShown'[n] = groupShown[n]
    <3>1. [groupShown[m] EXCEPT ![p] = ShownNow(m)] \in [Participant -> SUBSET Participant]
      BY <2>2, <2>10, <2>11
    <3> QED BY <3>1, <2>0, <1>0
  <2>14. groupShown'[m][p] = ShownNow(m) /\ \A q \in Participant \ {p} : groupShown'[m][q] = groupShown[m][q]
    BY <2>2, <2>11, <2>13
  <2>15. /\ groupMode' \in [ChatMessage -> Modes] /\ groupMode'[m] = "asking"
         /\ \A n \in ChatMessage \ {m} : groupMode'[n] = groupMode[n]
    BY <2>0, <1>0
  <2>16. \A n \in ChatMessage : Fits(groupFrom[n], groupAsked'[n], groupReplies'[n])
    BY <2>0, <2>6, <2>9, <2>12, <1>0 DEF Fits
  <2>17. GroupTypeOK'
    BY <2>0, <2>13, <2>15, <2>16, <1>0, <1>f DEF GroupTypeOK, GroupInv, Fits
  <2>18. LaterSeeEarlier'
    <3> SUFFICES ASSUME NEW k \in 1 .. Len(groupHistory), groupMode'[groupHistory[k]] # "sent",
                        Len(groupHistory) - k < recent
                 PROVE  Sees(groupShown'[groupHistory[k]], groupAsked'[groupHistory[k]], groupReplies[groupHistory[k]])
      BY <2>0, <1>h, LaterIs DEF Later
    <3>1. CASE groupHistory[k] # m
      BY <3>1, <2>12, <2>13, <2>15, <1>h, <1>l DEF Later
    <3>2. CASE groupHistory[k] = m
      <4> SUFFICES ASSUME NEW i \in 1 .. len + 1
                   PROVE  groupShown'[m][who[i]] = groupReplies[m] \cap {who[j] : j \in 1 .. (i - 1)}
        <5>1. Sees(groupShown'[m], who, groupReplies[m])
          BY <2>3 DEF Sees
        <5> QED BY <5>1, <3>2, <2>12
      <4>0. Sees(groupShown[m], groupAsked[m], groupReplies[m])
        BY <3>2, <2>0, <1>h, <1>l DEF Later
      <4>2. CASE i = len + 1
        <5>1. m \in Recent(groupHistory)
          BY <3>2, <1>h DEF Recent
        <5>2. groupShown'[m][who[i]] = groupReplies[m]
          BY <5>1, <4>2, <2>3, <2>14 DEF ShownNow
        <5>3. groupReplies[m] = groupReplies[m] \cap {who[j] : j \in 1 .. (i - 1)}
          BY <2>8, <4>2, <2>1
        <5> QED BY <5>2, <5>3
      <4>3. CASE i # len + 1
        <5>1. i \in 1 .. len /\ who[i] = groupAsked[m][i]
          BY <4>3, <2>1, <2>3
        <5>2. who[i] # p /\ who[i] \in Participant
          <6>1. i \in 1 .. len + 1 /\ len + 1 \in 1 .. len + 1
            BY <2>1
          <6>2. who[i] # p
            BY <6>1, <4>3, <2>3, <2>7
          <6>3. who[i] \in Participant
            BY <5>1, <2>1
          <6> QED BY <6>2, <6>3
        <5>3. groupShown'[m][who[i]] = groupShown[m][groupAsked[m][i]]
          BY <5>1, <5>2, <2>14
        <5>4. groupShown[m][groupAsked[m][i]] = groupReplies[m] \cap {groupAsked[m][j] : j \in 1 .. (i - 1)}
          BY <4>0, <5>1, <2>3 DEF Sees
        <5>5. \A j \in 1 .. (i - 1) : who[j] = groupAsked[m][j]
          BY <5>1, <2>1, <2>3
        <5>6. {groupAsked[m][j] : j \in 1 .. (i - 1)} = {who[j] : j \in 1 .. (i - 1)}
          BY <5>5
        <5> QED BY <5>3, <5>4, <5>6
      <4> QED BY <4>2, <4>3
    <3> QED BY <3>1, <3>2
  <2>19. ASSUME NEW n \in ChatMessage
         PROVE  /\ groupMode'[n] = "new" => groupAsked'[n] = <<>> /\ n \notin Range(groupHistory')
                /\ groupMode'[n] = "asking" => Len(groupAsked'[n]) > 0
                /\ Len(groupAsked'[n]) <= Len(Recipients(n)')
                /\ \A i \in 1 .. Len(groupAsked'[n]) : groupAsked'[n][i] = Recipients(n)'[i]
    <3>1. CASE n = m
      BY <3>1, <2>1, <2>3, <2>5, <2>12, <2>15, <1>f
    <3>2. CASE n # m
      BY <3>2, <2>0, <2>12, <2>15, <1>f DEF GroupInv
    <3> QED BY <3>1, <3>2
  <2> QED BY <2>0, <2>12, <2>17, <2>18, <2>19, <1>0 DEF GroupInv
<1>3. ASSUME NEW m \in ChatMessage, ReplyArrives(m) PROVE GroupInv'
  <2> DEFINE p == Last(groupAsked[m])
             len == Len(groupAsked[m])
  <2>0. /\ groupMode[m] = "asking" /\ groupMode' = [groupMode EXCEPT ![m] = "round"]
        /\ groupReplies' = [groupReplies EXCEPT ![m] = groupReplies[m] \cup {p}]
        /\ UNCHANGED <<groupActive, groupHistory, groupAsked, groupShown>>
    BY <1>3 DEF ReplyArrives, Mode
  <2>1. len \in Nat /\ len > 0 /\ groupAsked[m] \in Seq(Participant) /\ DOMAIN groupAsked[m] = 1 .. len
    BY <2>0, <1>0 DEF GroupInv
  <2>2. p = groupAsked[m][len] /\ p \in Participant /\ p \in Range(groupAsked[m])
    <3>1. len \in DOMAIN groupAsked[m]
      BY <2>1
    <3>2. p = groupAsked[m][len]
      BY DEF Last
    <3>3. groupAsked[m][len] \in Participant
      BY <2>1, <3>1
    <3>4. groupAsked[m][len] \in Range(groupAsked[m])
      BY <3>1 DEF Range
    <3> QED BY <3>2, <3>3, <3>4
  <2>3. /\ groupReplies' \in [ChatMessage -> SUBSET Participant] /\ groupReplies'[m] = groupReplies[m] \cup {p}
        /\ \A n \in ChatMessage \ {m} : groupReplies'[n] = groupReplies[n]
    BY <2>0, <2>2, <1>0
  <2>4. /\ groupMode' \in [ChatMessage -> Modes] /\ groupMode'[m] = "round"
        /\ \A n \in ChatMessage \ {m} : groupMode'[n] = groupMode[n]
    BY <2>0, <1>0
  <2>5. \A n \in ChatMessage : Fits(groupFrom[n], groupAsked'[n], groupReplies'[n])
    BY <2>0, <2>2, <2>3, <1>0 DEF Fits
  <2>6. GroupTypeOK'
    BY <2>0, <2>4, <2>5, <1>0, <1>f DEF GroupTypeOK, GroupInv, Fits
  <2> HIDE DEF p
  <2>7. LaterSeeEarlier'
    <3> SUFFICES ASSUME NEW k \in 1 .. Len(groupHistory), groupMode'[groupHistory[k]] # "sent",
                        Len(groupHistory) - k < recent
                 PROVE  Sees(groupShown[groupHistory[k]], groupAsked[groupHistory[k]], groupReplies'[groupHistory[k]])
      BY <2>0, <1>h, LaterIs DEF Later
    <3>1. CASE groupHistory[k] # m
      BY <3>1, <2>3, <2>4, <1>h, <1>l DEF Later
    <3>2. CASE groupHistory[k] = m
      <4> SUFFICES ASSUME NEW i \in 1 .. len
                   PROVE  groupShown[m][groupAsked[m][i]] =
                            (groupReplies[m] \cup {p}) \cap {groupAsked[m][j] : j \in 1 .. (i - 1)}
        <5>1. Sees(groupShown[m], groupAsked[m], groupReplies[m] \cup {p})
          BY <2>1 DEF Sees
        <5> QED BY <5>1, <3>2, <2>3
      <4>0. Sees(groupShown[m], groupAsked[m], groupReplies[m])
        BY <3>2, <2>0, <1>h, <1>l DEF Later
      <4>1. groupShown[m][groupAsked[m][i]] = groupReplies[m] \cap {groupAsked[m][j] : j \in 1 .. (i - 1)}
        BY <4>0, <2>1 DEF Sees
      <4>3. \A a, b \in 1 .. len : groupAsked[m][a] = groupAsked[m][b] => a = b
        BY <2>1, <1>0 DEF Fits, IsInjective
      <4>4. \A j \in 1 .. (i - 1) : groupAsked[m][j] # p
        BY <4>3, <2>1, <2>2
      <4>5. p \notin {groupAsked[m][j] : j \in 1 .. (i - 1)}
        BY <4>4
      <4> QED BY <4>1, <4>5
    <3> QED BY <3>1, <3>2
  <2>8. ASSUME NEW n \in ChatMessage
        PROVE  /\ groupMode'[n] = "new" => groupAsked'[n] = <<>> /\ n \notin Range(groupHistory')
               /\ groupMode'[n] = "asking" => Len(groupAsked'[n]) > 0
               /\ Len(groupAsked'[n]) <= Len(Recipients(n)')
               /\ \A i \in 1 .. Len(groupAsked'[n]) : groupAsked'[n][i] = Recipients(n)'[i]
    BY <2>0, <2>4, <1>f DEF GroupInv
  <2> QED BY <2>0, <2>3, <2>6, <2>7, <2>8, <1>0 DEF GroupInv
<1>4. ASSUME NEW m \in ChatMessage, ReplyFails(m) \/ RoundEnds(m) PROVE GroupInv'
  <2>0. PICK mode \in {"round", "done"} :
           groupMode[m] \in {"asking", "round"} /\ groupMode' = [groupMode EXCEPT ![m] = mode]
    BY <1>4 DEF ReplyFails, RoundEnds, Mode
  <2>1. UNCHANGED <<groupActive, groupHistory, groupAsked, groupReplies, groupShown>>
    BY <1>4 DEF ReplyFails, RoundEnds
  <2>2. /\ groupMode' \in [ChatMessage -> Modes] /\ groupMode'[m] = mode
        /\ \A n \in ChatMessage \ {m} : groupMode'[n] = groupMode[n]
    BY <2>0, <1>0
  <2>3. GroupTypeOK'
    BY <2>1, <2>2, <1>0, <1>f DEF GroupTypeOK, GroupInv
  <2>4. LaterSeeEarlier'
    <3>1. \A n \in ChatMessage : groupMode'[n] # "sent" => groupMode[n] # "sent"
      BY <2>0, <2>2
    <3> QED BY <3>1, <2>1, <1>h, <1>l, LaterIs DEF Later
  <2>5. ASSUME NEW n \in ChatMessage
        PROVE  /\ groupMode'[n] = "new" => groupAsked'[n] = <<>> /\ n \notin Range(groupHistory')
               /\ groupMode'[n] = "asking" => Len(groupAsked'[n]) > 0
               /\ Len(groupAsked'[n]) <= Len(Recipients(n)')
               /\ \A i \in 1 .. Len(groupAsked'[n]) : groupAsked'[n][i] = Recipients(n)'[i]
    BY <2>1, <2>2, <1>f DEF GroupInv
  <2> QED BY <2>1, <2>3, <2>4, <2>5, <1>0 DEF GroupInv
<1>5. CASE CloseGroup \/ UNCHANGED groupVars
  <2>1. UNCHANGED <<groupHistory, groupFrom, groupMode, groupAsked, groupReplies, groupShown>>
        /\ groupActive' \in BOOLEAN
    BY <1>5, <1>0 DEF CloseGroup, groupVars
  <2>2. LaterSeeEarlier'
    BY <2>1, <1>l, LaterIs
  <2>3. GroupTypeOK'
    BY <2>1 DEF GroupTypeOK, GroupInv
  <2> QED BY <2>1, <2>2, <2>3, <1>f DEF GroupInv
<1> QED BY <1>1, <1>2, <1>3, <1>4, <1>5 DEF GroupNext

\* The invariant of the groups holds always.
LEMMA GroupSafe == GroupInit /\ [][GroupNext]_groupVars => []GroupInv
<1>1. GroupInit => GroupInv
  <2> SUFFICES ASSUME GroupInit PROVE GroupInv
    OBVIOUS
  <2>1. <<>> \in Seq(ChatMessage) /\ <<>> \in Seq(Participant) /\ Len(<<>>) = 0 /\ DOMAIN <<>> = {}
    OBVIOUS
  <2>2. Range(<<>>) = {} /\ IsInjective(<<>>)
    BY <2>1 DEF Range, IsInjective
  <2>3. [m \in ChatMessage |-> [p \in Participant |-> {}]] \in [ChatMessage -> [Participant -> SUBSET Participant]]
    OBVIOUS
  <2>4. GroupTypeOK
    BY <2>1, <2>2, <2>3 DEF GroupInit, GroupTypeOK
  <2>5. LaterSeeEarlier
    BY <2>1 DEF GroupInit, LaterSeeEarlier
  <2>6. \A m \in ChatMessage : groupFrom[m] \in Participant /\ Len(Recipients(m)) \in Nat
    BY RecipientsAre DEF GroupInit
  <2> QED BY <2>1, <2>2, <2>4, <2>5, <2>6 DEF GroupInit, GroupInv
<1> QED BY <1>1, GroupStep, PTL

-------------------------------------------------------------------------------
\* A run of an API provider (openai-provider.js, gemini-provider.js).

Message == [role : {"assistant", "tool"}, call : CallIds]
ToolEvent == [kind : {"tool_start", "tool_result"}, call : CallIds]

\* Each tool call of a conversation has one result, after it.
EachAnswered(messages) ==
  \A i \in DOMAIN messages : messages[i].role = "assistant" =>
    \E j \in DOMAIN messages :
      {k \in DOMAIN messages : messages[k].role = "tool" /\ messages[k].call = messages[i].call /\ k > i} = {j}

\* The messages are of turns that are over; a run that goes on has no result.
ProvInv ==
  /\ ProviderTypeOK /\ results \in {0, 1}
  /\ EachAnswered(history)
  /\ \A i \in DOMAIN history : history[i].call[1] < turn
  /\ phase # "over" => turn <= maxTurns /\ results = 0 /\ output = "open"
  /\ output = "ended" => results = 1

\* The tools of an answer, run and told.
LEMMA ToolsRun ==
  ASSUME ProvInv, phase # "over", NEW n \in 1 .. maxCalls, RunTools(n)
  PROVE  /\ history' \in Seq(Message) /\ ui' \in Seq(ToolEvent)
         /\ EachAnswered(history')
         /\ \A i \in DOMAIN history' : history'[i].call[1] < turn + 1
<1> USE ProviderAssumption
<1> DEFINE asks == [i \in 1 .. n |-> ToolCall(i)]
           tells == [i \in 1 .. n |-> ToolAnswer(i)]
           events == [i \in 1 .. 2 * n |->
                       [kind |-> IF i % 2 = 1 THEN "tool_start" ELSE "tool_result",
                        call |-> <<turn, (i + 1) \div 2>>]]
           L == Len(history)
<1>0. /\ n \in Nat /\ n > 0 /\ turn \in 1 .. maxTurns
      /\ history \in Seq(Message) /\ ui \in Seq(ToolEvent) /\ L \in Nat /\ DOMAIN history = 1 .. L
      /\ \A i \in 1 .. L : history[i] \in Message
  <2>1. n \in Nat /\ n > 0 /\ turn \in 1 .. maxTurns
    BY DEF ProvInv, ProviderTypeOK
  <2>2. history \in Seq(Message) /\ ui \in Seq(ToolEvent)
    BY DEF ProvInv, ProviderTypeOK, Message, ToolEvent
  <2> QED BY <2>1, <2>2
<1>1. \A i \in 1 .. n : /\ <<turn, i>> \in CallIds /\ ToolCall(i) \in Message /\ ToolAnswer(i) \in Message
                        /\ ToolCall(i).role = "assistant" /\ ToolAnswer(i).role = "tool"
                        /\ ToolCall(i).call = <<turn, i>> /\ ToolAnswer(i).call = <<turn, i>>
  BY <1>0 DEF ToolCall, ToolAnswer, CallIds, Message
<1>2. asks \in Seq(Message) /\ Len(asks) = n /\ \A i \in 1 .. n : asks[i] = ToolCall(i)
  <2>1. asks \in [1 .. n -> Message]
    BY <1>1
  <2> QED BY <1>0, <2>1
<1>3. tells \in Seq(Message) /\ Len(tells) = n /\ \A i \in 1 .. n : tells[i] = ToolAnswer(i)
  <2>1. tells \in [1 .. n -> Message]
    BY <1>1
  <2> QED BY <1>0, <2>1
<1>4. ui' \in Seq(ToolEvent)
  <2>1. \A i \in 1 .. 2 * n : (i + 1) \div 2 \in 1 .. n
    BY <1>0
  <2>2. ASSUME NEW i \in 1 .. 2 * n
        PROVE  [kind |-> IF i % 2 = 1 THEN "tool_start" ELSE "tool_result",
                call |-> <<turn, (i + 1) \div 2>>] \in ToolEvent
    BY <2>1, <1>1 DEF ToolEvent
  <2>3. events \in [1 .. 2 * n -> ToolEvent] /\ 2 * n \in Nat
    BY <2>2, <1>0
  <2>4. events \in Seq(ToolEvent)
    BY <2>3
  <2>5. ui' = ui \o events
    BY DEF RunTools
  <2> HIDE DEF events
  <2> QED BY <2>4, <2>5, <1>0, ConcatProperties
<1>5. history' = (history \o asks) \o tells
  BY DEF RunTools
<1> HIDE DEF asks, tells, events
<1> DEFINE first == history \o asks
<1>6. /\ first \in Seq(Message) /\ Len(first) = L + n
      /\ \A i \in 1 .. L + n : first[i] = IF i <= L THEN history[i] ELSE asks[i - L]
  BY <1>0, <1>2, ConcatProperties
<1>r. history' = first \o tells
  BY <1>5
<1> HIDE DEF first
<1>7. /\ history' \in Seq(Message) /\ Len(history') = L + n + n
      /\ \A i \in 1 .. L + n + n : history'[i] = IF i <= L + n THEN first[i] ELSE tells[i - (L + n)]
  <2>1. first \in Seq(Message) /\ tells \in Seq(Message)
    BY <1>3, <1>6
  <2>2. /\ first \o tells \in Seq(Message) /\ Len(first \o tells) = Len(first) + Len(tells)
        /\ \A i \in 1 .. Len(first) + Len(tells) :
             (first \o tells)[i] = IF i <= Len(first) THEN first[i] ELSE tells[i - Len(first)]
    BY <2>1, ConcatProperties
  <2> QED BY <2>2, <1>r, <1>3, <1>6
<1> HIDE DEF L
<1>8. /\ \A i \in 1 .. L : history'[i] = history[i]
      /\ \A i \in 1 .. n : /\ history'[L + i] = ToolCall(i)
                           /\ history'[L + n + i] = ToolAnswer(i)
  <2>1. \A i \in 1 .. L : history'[i] = history[i]
    BY <1>0, <1>6, <1>7
  <2>2. ASSUME NEW i \in 1 .. n PROVE history'[L + i] = ToolCall(i)
    <3>1. L + i \in 1 .. L + n + n /\ L + i \in 1 .. L + n /\ L + i <= L + n /\ ~(L + i <= L) /\ (L + i) - L = i
      BY <1>0
    <3>2. history'[L + i] = first[L + i] /\ first[L + i] = asks[(L + i) - L]
      BY <3>1, <1>6, <1>7
    <3> QED BY <3>1, <3>2, <1>2
  <2>3. ASSUME NEW i \in 1 .. n PROVE history'[L + n + i] = ToolAnswer(i)
    <3>1. L + n + i \in 1 .. L + n + n /\ ~(L + n + i <= L + n) /\ (L + n + i) - (L + n) = i
      BY <1>0
    <3>2. history'[L + n + i] = tells[(L + n + i) - (L + n)]
      BY <3>1, <1>7
    <3> QED BY <3>1, <3>2, <1>3
  <2> QED BY <2>1, <2>2, <2>3
<1>9. DOMAIN history' = 1 .. L + n + n
  BY <1>0, <1>7
<1>10. \A i \in 1 .. L + n + n : i \in 1 .. L \/ (\E m \in 1 .. n : i = L + m) \/ (\E m \in 1 .. n : i = L + n + m)
  <2> SUFFICES ASSUME NEW i \in 1 .. L + n + n, i \notin 1 .. L
               PROVE  (\E m \in 1 .. n : i = L + m) \/ (\E m \in 1 .. n : i = L + n + m)
    OBVIOUS
  <2>1. CASE i <= L + n
    <3>1. i - L \in 1 .. n /\ i = L + (i - L)
      BY <2>1, <1>0
    <3> QED BY <3>1
  <2>2. CASE i > L + n
    <3>1. i - L - n \in 1 .. n /\ i = L + n + (i - L - n)
      BY <2>2, <1>0
    <3> QED BY <3>1
  <2> QED BY <2>1, <2>2, <1>0
<1>11. \A i \in 1 .. L : history[i].call[1] < turn
  BY <1>0 DEF ProvInv
<1>12. \A m \in 1 .. n : ToolCall(m).call[1] = turn /\ ToolAnswer(m).call[1] = turn
  BY DEF ToolCall, ToolAnswer
<1>13. \A i \in DOMAIN history' : history'[i].call[1] < turn + 1
  <2> SUFFICES ASSUME NEW i \in 1 .. L + n + n PROVE history'[i].call[1] < turn + 1
    BY <1>9
  <2>1. \A j \in 1 .. L : history[j].call[1] \in Int
    BY <1>0 DEF Message, CallIds
  <2>2. CASE i \in 1 .. L
    BY <2>1, <2>2, <1>0, <1>8, <1>11
  <2>3. ASSUME NEW m \in 1 .. n, i = L + m \/ i = L + n + m PROVE history'[i].call[1] < turn + 1
    <3>1. history'[i].call[1] = turn
      BY <2>3, <1>8, <1>12
    <3> QED BY <3>1, <1>0
  <2> QED BY <2>2, <2>3, <1>10
<1>14. EachAnswered(history')
  <2> SUFFICES ASSUME NEW i \in 1 .. L + n + n, history'[i].role = "assistant"
               PROVE  \E j \in 1 .. L + n + n :
                        {k \in 1 .. L + n + n : history'[k].role = "tool" /\ history'[k].call = history'[i].call
                                                 /\ k > i} = {j}
    BY <1>9 DEF EachAnswered
  <2>1. CASE i \in 1 .. L
    <3>1. PICK j \in 1 .. L : {k \in 1 .. L : history[k].role = "tool" /\ history[k].call = history[i].call /\ k > i} = {j}
      <4>1. i \in DOMAIN history /\ DOMAIN history = 1 .. L /\ history[i].role = "assistant"
        BY <2>1, <1>0, <1>8
      <4>2. EachAnswered(history)
        BY DEF ProvInv
      <4> QED BY <4>1, <4>2 DEF EachAnswered
    <3>2. \A k \in 1 .. L + n + n : k \notin 1 .. L => history'[k].call # history[i].call
      <4>1. history[i].call[1] # turn
        <5>1. history[i].call[1] < turn /\ history[i].call[1] \in Int
          BY <2>1, <1>0, <1>11 DEF Message, CallIds
        <5> QED BY <5>1, <1>0
      <4>2. \A k \in 1 .. L + n + n : k \notin 1 .. L => history'[k].call[1] = turn
        BY <1>8, <1>10, <1>12
      <4> QED BY <4>1, <4>2
    <3>3. {k \in 1 .. L + n + n : history'[k].role = "tool" /\ history'[k].call = history'[i].call /\ k > i}
          = {k \in 1 .. L : history[k].role = "tool" /\ history[k].call = history[i].call /\ k > i}
      BY <2>1, <3>2, <1>0, <1>8
    <3>4. j \in 1 .. L + n + n
      BY <1>0
    <3> QED BY <3>1, <3>3, <3>4
  <2>2. ASSUME NEW m \in 1 .. n, i = L + m
        PROVE  \E j \in 1 .. L + n + n :
                 {k \in 1 .. L + n + n : history'[k].role = "tool" /\ history'[k].call = history'[i].call
                                          /\ k > i} = {j}
    <3> DEFINE j == L + n + m
    <3>1. j \in 1 .. L + n + n /\ j > i
      BY <2>2, <1>0
    <3>2. history'[i].call = <<turn, m>> /\ history'[j].role = "tool" /\ history'[j].call = <<turn, m>>
      BY <2>2, <1>1, <1>8
    <3>3. ASSUME NEW k \in 1 .. L + n + n, history'[k].role = "tool", history'[k].call = <<turn, m>>, k > i
          PROVE  k = j
      <4>1. CASE k \in 1 .. L
        BY <4>1, <2>2, <3>3, <1>0
      <4>2. ASSUME NEW q \in 1 .. n, k = L + q PROVE k = j
        BY <4>2, <3>3, <1>1, <1>8
      <4>3. ASSUME NEW q \in 1 .. n, k = L + n + q PROVE k = j
        <5>1. <<turn, q>> = <<turn, m>>
          BY <4>3, <3>3, <1>1, <1>8
        <5>2. q = m
          BY <5>1
        <5> QED BY <5>2, <4>3
      <4> QED BY <4>1, <4>2, <4>3, <1>10
    <3>4. {k \in 1 .. L + n + n : history'[k].role = "tool" /\ history'[k].call = history'[i].call /\ k > i} = {j}
      BY <3>1, <3>2, <3>3
    <3> QED BY <3>1, <3>4
  <2>3. ASSUME NEW m \in 1 .. n, i = L + n + m PROVE FALSE
    BY <2>3, <1>1, <1>8
  <2> QED BY <2>1, <2>2, <2>3, <1>10
<1> QED BY <1>4, <1>7, <1>13, <1>14

\* Every step keeps the invariant.
LEMMA ProvStep == ProvInv /\ [ProviderNext]_providerVars => ProvInv'
<1> SUFFICES ASSUME ProvInv, [ProviderNext]_providerVars PROVE ProvInv'
  OBVIOUS
<1> USE ProviderAssumption
<1>1. CASE Responds \/ DeltaCalls \/ MessageCalls
  <2>1. /\ phase # "over" /\ phase' \in {"stream", "refused"} /\ calls' \in 0 .. maxCalls
        /\ UNCHANGED <<vendor, turn, history, ui, results, output, closed>>
    BY <1>1 DEF Responds, DeltaCalls, MessageCalls, ProvInv, ProviderTypeOK
  <2> QED BY <2>1 DEF ProvInv, ProviderTypeOK
<1>2. CASE AnswerEnds
  <2>0. phase = "stream" /\ turn \in 1 .. maxTurns /\ results = 0 /\ output = "open" /\ UNCHANGED <<vendor, closed>>
    BY <1>2 DEF AnswerEnds, ProvInv, ProviderTypeOK
  <2>1. CASE calls > 0
    <3>1. RunTools(calls) /\ NextTurn /\ calls \in 1 .. maxCalls
      BY <1>2, <2>1 DEF AnswerEnds, ProvInv, ProviderTypeOK
    <3>2. /\ history' \in Seq(Message) /\ ui' \in Seq(ToolEvent)
          /\ EachAnswered(history')
          /\ \A i \in DOMAIN history' : history'[i].call[1] < turn + 1
      BY <3>1, <2>0, ToolsRun
    <3>3. /\ turn' = turn + 1 /\ calls' = 0
          /\ \/ turn = maxTurns /\ phase' = "over" /\ results' = 1 /\ output' = "ended"
             \/ turn # maxTurns /\ phase' = "request" /\ results' = 0 /\ output' = "open"
      BY <3>1, <2>0 DEF NextTurn, FinishRun
    <3>4. turn' \in 1 .. maxTurns + 1 /\ calls' \in 0 .. maxCalls /\ (turn # maxTurns => turn' <= maxTurns)
      BY <3>3, <2>0
    <3>5. ProviderTypeOK'
      BY <3>2, <3>3, <3>4, <2>0 DEF ProvInv, ProviderTypeOK, Message, ToolEvent
    <3> QED BY <3>2, <3>3, <3>4, <3>5, <2>0 DEF ProvInv
  <2>2. CASE ~(calls > 0)
    BY <1>2, <2>0, <2>2 DEF AnswerEnds, FinishRun, ProvInv, ProviderTypeOK
  <2> QED BY <2>1, <2>2
<1>3. CASE RunFails
  BY <1>3 DEF RunFails, FinishRun, ProvInv, ProviderTypeOK
<1>4. CASE KillRun
  BY <1>4 DEF KillRun, ProvInv, ProviderTypeOK, RunKilled
<1>5. CASE ReportClose
  BY <1>5 DEF ReportClose, ProvInv, ProviderTypeOK
<1>6. CASE UNCHANGED providerVars
  BY <1>6 DEF providerVars, ProvInv, ProviderTypeOK
<1> QED BY <1>1, <1>2, <1>3, <1>4, <1>5, <1>6 DEF ProviderNext

\* The invariant of a run of an API provider holds always.
LEMMA ProvSafe == ProviderInit /\ [][ProviderNext]_providerVars => []ProvInv
<1>1. ProviderInit => ProvInv
  <2> SUFFICES ASSUME ProviderInit PROVE ProvInv
    OBVIOUS
  <2>1. 1 \in 1 .. maxTurns + 1 /\ 1 <= maxTurns /\ 0 \in 0 .. maxCalls
    BY ProviderAssumption
  <2>2. <<>> \in Seq(Message) /\ <<>> \in Seq(ToolEvent) /\ DOMAIN <<>> = {}
    OBVIOUS
  <2>3. ProviderTypeOK
    BY <2>1, <2>2 DEF ProviderInit, ProviderTypeOK, Message, ToolEvent
  <2> QED BY <2>1, <2>2, <2>3 DEF ProviderInit, ProvInv, EachAnswered
<1> QED BY <1>1, ProvStep, PTL

\* What the invariant is for.
LEMMA ProvKeeps == ProvInv => ProviderTypeOK /\ CallsAreAnswered /\ OneResult
<1> SUFFICES ASSUME ProvInv PROVE CallsAreAnswered /\ OneResult
  BY DEF ProvInv
<1>1. CallsAreAnswered
  <2> SUFFICES ASSUME NEW i \in DOMAIN history, history[i].role = "assistant"
               PROVE  Cardinality({j \in DOMAIN history :
                         history[j].role = "tool" /\ history[j].call = history[i].call /\ j > i}) = 1
    BY DEF CallsAreAnswered
  <2>1. PICK j \in DOMAIN history :
          {k \in DOMAIN history : history[k].role = "tool" /\ history[k].call = history[i].call /\ k > i} = {j}
    BY DEF ProvInv, EachAnswered
  <2>2. Cardinality({j}) = 1
    BY FS_Singleton
  <2> QED BY <2>1, <2>2
<1>2. OneResult
  BY DEF ProvInv, OneResult
<1> QED BY <1>1, <1>2

-------------------------------------------------------------------------------
\* Usage and statistics (usage-tracker.js, agent-stats.js).

\* The running sum of the days' costs.
Summed(g, f, n) ==
  /\ g \in [0 .. n -> Nat]
  /\ g[0] = f[0]
  /\ \A k \in 1 .. n : g[k] = g[k - 1] + f[k]

\* Every function of days has its running sums, by induction over the days.
LEMMA SumsExist ==
  ASSUME NEW N \in Nat, NEW f \in [0 .. N -> Nat]
  PROVE  \E g : Summed(g, f, N)
<1> DEFINE P == {n \in Nat : n <= N => \E g : Summed(g, f, n)}
<1>1. 0 \in P
  <2>1. Summed([k \in 0 .. 0 |-> f[0]], f, 0)
    BY DEF Summed
  <2> QED BY <2>1
<1>2. ASSUME NEW n \in P PROVE n + 1 \in P
  <2>1. n \in Nat
    OBVIOUS
  <2>2. SUFFICES ASSUME n + 1 <= N PROVE \E g : Summed(g, f, n + 1)
    BY <2>1
  <2>3. PICK g : Summed(g, f, n)
    BY <2>1, <2>2
  <2> DEFINE h == [k \in 0 .. (n + 1) |-> IF k = n + 1 THEN g[n] + f[n + 1] ELSE g[k]]
  <2>4. g \in [0 .. n -> Nat] /\ g[0] = f[0] /\ \A k \in 1 .. n : g[k] = g[k - 1] + f[k]
    BY <2>3 DEF Summed
  <2>5. g[n] \in Nat /\ f[n + 1] \in Nat
    BY <2>1, <2>2, <2>4
  <2>6. h \in [0 .. (n + 1) -> Nat]
    <3>1. ASSUME NEW k \in 0 .. (n + 1) PROVE (IF k = n + 1 THEN g[n] + f[n + 1] ELSE g[k]) \in Nat
      <4>1. CASE k = n + 1
        BY <4>1, <2>5
      <4>2. CASE k # n + 1
        <5>1. k \in 0 .. n
          BY <4>2, <2>1
        <5> QED BY <5>1, <4>2, <2>4
      <4> QED BY <4>1, <4>2
    <3> QED BY <3>1
  <2>7. h[0] = f[0]
    BY <2>1, <2>4
  <2>8. ASSUME NEW k \in 1 .. (n + 1) PROVE h[k] = h[k - 1] + f[k]
    <3>1. k \in 0 .. (n + 1) /\ k - 1 \in 0 .. (n + 1) /\ k - 1 # n + 1 /\ k - 1 \in 0 .. n
      BY <2>1
    <3>2. h[k - 1] = g[k - 1]
      BY <3>1
    <3>3. CASE k = n + 1
      BY <3>1, <3>2, <3>3, <2>1
    <3>4. CASE k # n + 1
      <4>1. k \in 1 .. n
        BY <3>4, <2>1
      <4>2. h[k] = g[k]
        BY <3>1, <3>4
      <4> QED BY <4>1, <4>2, <3>2, <2>4
    <3> QED BY <3>3, <3>4
  <2> QED BY <2>6, <2>7, <2>8 DEF Summed
<1>3. P \in SUBSET Nat
  OBVIOUS
<1> HIDE DEF P
<1>4. P = Nat
  BY <1>1, <1>2, <1>3, NatInd
<1>5. N \in P
  BY <1>4
<1> QED BY <1>5 DEF P

\* The sum of all days is the last of the running sums.
LEMMA TotalIs ==
  ASSUME NEW f \in [Day -> Nat]
  PROVE  \E g : Summed(g, f, MaxDay) /\ Total(f) = g[MaxDay]
<1> USE StatsAssumption
<1> DEFINE IsSum(s) == s = [d \in Day |-> IF d = 0 THEN f[0] ELSE s[d - 1] + f[d]]
           S == CHOOSE s : IsSum(s)
<1>0. Day = 0 .. MaxDay
  BY DEF Day
<1>1. PICK g : Summed(g, f, MaxDay)
  BY <1>0, SumsExist
<1>2. IsSum(g)
  <2>1. g \in [0 .. MaxDay -> Nat] /\ g[0] = f[0] /\ \A k \in 1 .. MaxDay : g[k] = g[k - 1] + f[k]
    BY <1>1 DEF Summed
  <2>2. \A d \in Day : g[d] = IF d = 0 THEN f[0] ELSE g[d - 1] + f[d]
    <3> TAKE d \in Day
    <3>1. d # 0 => d \in 1 .. MaxDay
      BY <1>0
    <3> QED BY <2>1, <3>1
  <2> QED BY <2>1, <2>2, <1>0
<1>3. Total(f) = S[MaxDay]
  BY DEF Total
<1>4. IsSum(S)
  BY <1>2
<1>5. S = [d \in Day |-> IF d = 0 THEN f[0] ELSE S[d - 1] + f[d]]
  BY <1>4
<1> HIDE DEF S, IsSum
<1>6. g \in [Day -> Nat] /\ \A d \in Day : d # 0 => d \in 1 .. MaxDay /\ d - 1 \in Day
  BY <1>0, <1>1 DEF Summed
<1> DEFINE P == {n \in Nat : n <= MaxDay => S[n] = g[n]}
<1>7. 0 \in P
  BY <1>0, <1>1, <1>5 DEF Summed
<1>8. ASSUME NEW n \in P PROVE n + 1 \in P
  <2>1. n \in Nat
    OBVIOUS
  <2>2. SUFFICES ASSUME n + 1 <= MaxDay PROVE S[n + 1] = g[n + 1]
    BY <2>1
  <2>3. n + 1 \in Day /\ n + 1 # 0 /\ n + 1 \in 1 .. MaxDay /\ (n + 1) - 1 = n
    BY <2>1, <2>2, <1>0
  <2>4. S[n] = g[n]
    BY <2>1, <2>2
  <2>5. S[n + 1] = S[n] + f[n + 1]
    BY <2>3, <1>5
  <2>6. g[n + 1] = g[n] + f[n + 1]
    BY <2>3, <1>1 DEF Summed
  <2> QED BY <2>4, <2>5, <2>6
<1>9. P \in SUBSET Nat
  OBVIOUS
<1> HIDE DEF P
<1>10. P = Nat
  BY <1>7, <1>8, <1>9, NatInd
<1>11. MaxDay \in P
  BY <1>10
<1>12. Total(f) = g[MaxDay]
  BY <1>3, <1>11 DEF P
<1> QED BY <1>1, <1>12

\* What is less each day is less in all.
LEMMA SumsCompare ==
  ASSUME NEW N \in Nat, NEW f \in [0 .. N -> Nat], NEW e \in [0 .. N -> Nat], NEW g, NEW h,
         Summed(g, f, N), Summed(h, e, N), \A k \in 0 .. N : e[k] <= f[k]
  PROVE  h[N] <= g[N] /\ g[N] \in Nat /\ h[N] \in Nat
<1> DEFINE P == {n \in Nat : n <= N => h[n] <= g[n]}
<1>0. g \in [0 .. N -> Nat] /\ h \in [0 .. N -> Nat]
  BY DEF Summed
<1>1. 0 \in P
  BY DEF Summed
<1>2. ASSUME NEW n \in P PROVE n + 1 \in P
  <2>1. n \in Nat
    OBVIOUS
  <2>2. SUFFICES ASSUME n + 1 <= N PROVE h[n + 1] <= g[n + 1]
    BY <2>1
  <2>3. n + 1 \in 1 .. N /\ (n + 1) - 1 = n /\ n \in 0 .. N /\ n + 1 \in 0 .. N
    BY <2>1, <2>2
  <2>4. g[n + 1] = g[n] + f[n + 1] /\ h[n + 1] = h[n] + e[n + 1]
    BY <2>3 DEF Summed
  <2>5. g[n] \in Nat /\ h[n] \in Nat /\ f[n + 1] \in Nat /\ e[n + 1] \in Nat /\ e[n + 1] <= f[n + 1]
    BY <2>3, <1>0
  <2>6. h[n] <= g[n]
    BY <2>1, <2>2
  <2> QED BY <2>4, <2>5, <2>6
<1>3. P \in SUBSET Nat
  OBVIOUS
<1> HIDE DEF P
<1>4. P = Nat
  BY <1>1, <1>2, <1>3, NatInd
<1>5. N \in P
  BY <1>4
<1>6. h[N] <= g[N]
  BY <1>5 DEF P
<1> QED BY <1>0, <1>6

\* The same for the totals.
LEMMA LessInAll ==
  ASSUME NEW f \in [Day -> Nat], NEW e \in [Day -> Nat], \A d \in Day : e[d] <= f[d]
  PROVE  Total(e) <= Total(f) /\ Total(e) \in Nat /\ Total(f) \in Nat
<1> USE StatsAssumption
<1>1. Day = 0 .. MaxDay
  BY DEF Day
<1>2. PICK g : Summed(g, f, MaxDay) /\ Total(f) = g[MaxDay]
  BY TotalIs
<1>3. PICK h : Summed(h, e, MaxDay) /\ Total(e) = h[MaxDay]
  BY TotalIs
<1> QED BY <1>1, <1>2, <1>3, SumsCompare

\* One day's cost is no more than that of all days.
LEMMA PartOfTotal ==
  ASSUME NEW f \in [Day -> Nat], NEW d \in Day
  PROVE  f[d] <= Total(f) /\ Total(f) \in Nat
<1> USE StatsAssumption
<1>1. Day = 0 .. MaxDay
  BY DEF Day
<1>2. PICK g : Summed(g, f, MaxDay) /\ Total(f) = g[MaxDay]
  BY TotalIs
<1>3. g \in [0 .. MaxDay -> Nat] /\ g[0] = f[0] /\ \A k \in 1 .. MaxDay : g[k] = g[k - 1] + f[k]
  BY <1>2 DEF Summed
<1> DEFINE P == {n \in Nat : d + n <= MaxDay => f[d] <= g[d + n]}
<1>4. 0 \in P
  <2>1. d + 0 = d /\ d \in 0 .. MaxDay
    BY <1>1
  <2>2. CASE d = 0
    BY <2>2, <1>1, <1>3
  <2>3. CASE d # 0
    <3>1. d \in 1 .. MaxDay /\ d - 1 \in 0 .. MaxDay
      BY <2>3, <1>1
    <3>2. g[d] = g[d - 1] + f[d] /\ g[d - 1] \in Nat /\ f[d] \in Nat
      BY <3>1, <1>3
    <3> QED BY <2>1, <3>2
  <2> QED BY <2>2, <2>3
<1>5. ASSUME NEW n \in P PROVE n + 1 \in P
  <2>1. n \in Nat /\ d \in Nat
    BY <1>1
  <2>2. SUFFICES ASSUME d + (n + 1) <= MaxDay PROVE f[d] <= g[d + (n + 1)]
    BY <2>1
  <2>3. d + (n + 1) \in 1 .. MaxDay /\ (d + (n + 1)) - 1 = d + n /\ d + n \in 0 .. MaxDay
    BY <2>1, <2>2
  <2>4. g[d + (n + 1)] = g[d + n] + f[d + (n + 1)]
    BY <2>3, <1>3
  <2>5. f[d + (n + 1)] \in Nat /\ g[d + n] \in Nat /\ f[d] \in Nat
    BY <2>3, <1>1, <1>3
  <2>6. f[d] <= g[d + n]
    BY <2>1, <2>3
  <2> QED BY <2>4, <2>5, <2>6
<1>6. P \in SUBSET Nat
  OBVIOUS
<1> HIDE DEF P
<1>7. P = Nat
  BY <1>4, <1>5, <1>6, NatInd
<1>8. MaxDay - d \in P /\ d + (MaxDay - d) = MaxDay
  BY <1>1, <1>7
<1>9. f[d] <= g[MaxDay]
  BY <1>8 DEF P
<1> QED BY <1>2, <1>3, <1>9

\* A run more is a run more in all.
LEMMA OneMore ==
  ASSUME NEW f \in [Day -> Nat], NEW d \in Day
  PROVE  Total([f EXCEPT ![d] = @ + 1]) = Total(f) + 1
<1> USE StatsAssumption
<1> DEFINE e == [f EXCEPT ![d] = @ + 1]
<1>1. Day = 0 .. MaxDay
  BY DEF Day
<1>2. e \in [Day -> Nat] /\ e[d] = f[d] + 1 /\ \A k \in Day : k # d => e[k] = f[k]
  OBVIOUS
<1> HIDE DEF e
<1>3. PICK g : Summed(g, f, MaxDay) /\ Total(f) = g[MaxDay]
  BY TotalIs
<1>4. PICK h : Summed(h, e, MaxDay) /\ Total(e) = h[MaxDay]
  BY <1>2, TotalIs
<1>5. /\ g \in [0 .. MaxDay -> Nat] /\ g[0] = f[0] /\ \A k \in 1 .. MaxDay : g[k] = g[k - 1] + f[k]
      /\ h \in [0 .. MaxDay -> Nat] /\ h[0] = e[0] /\ \A k \in 1 .. MaxDay : h[k] = h[k - 1] + e[k]
  BY <1>3, <1>4 DEF Summed
<1> DEFINE P == {n \in Nat : n <= MaxDay => h[n] = IF n < d THEN g[n] ELSE g[n] + 1}
<1>6. 0 \in P
  <2>1. 0 \in Day /\ d \in Nat
    BY <1>1
  <2>2. CASE d = 0
    BY <2>2, <1>2, <1>5
  <2>3. CASE d # 0
    BY <2>1, <2>3, <1>2, <1>5
  <2> QED BY <2>2, <2>3
<1>7. ASSUME NEW n \in P PROVE n + 1 \in P
  <2>1. n \in Nat /\ d \in Nat
    BY <1>1
  <2>2. SUFFICES ASSUME n + 1 <= MaxDay PROVE h[n + 1] = IF n + 1 < d THEN g[n + 1] ELSE g[n + 1] + 1
    BY <2>1
  <2>3. n + 1 \in 1 .. MaxDay /\ (n + 1) - 1 = n /\ n \in 0 .. MaxDay /\ n + 1 \in Day
    BY <2>1, <2>2, <1>1
  <2>4. g[n + 1] = g[n] + f[n + 1] /\ h[n + 1] = h[n] + e[n + 1]
    BY <2>3, <1>5
  <2>5. f[n + 1] \in Nat /\ e[n + 1] \in Nat /\ g[n] \in Nat /\ h[n] \in Nat
    BY <2>3, <1>2, <1>5
  <2>6. h[n] = IF n < d THEN g[n] ELSE g[n] + 1
    BY <2>1, <2>3
  <2>7. CASE n + 1 < d
    <3>1. n < d /\ n + 1 # d
      BY <2>7, <2>1
    <3> QED BY <3>1, <2>3, <2>4, <2>6, <2>7, <1>2
  <2>8. CASE n + 1 = d
    <3>1. n < d /\ ~(n + 1 < d)
      BY <2>8, <2>1
    <3>2. e[n + 1] = f[n + 1] + 1 /\ h[n] = g[n]
      BY <2>8, <2>6, <3>1, <1>2
    <3> QED BY <3>1, <3>2, <2>4, <2>5
  <2>9. CASE n + 1 > d
    <3>1. ~(n < d) /\ ~(n + 1 < d) /\ n + 1 # d
      BY <2>9, <2>1
    <3>2. e[n + 1] = f[n + 1] /\ h[n] = g[n] + 1
      BY <2>3, <2>6, <3>1, <1>2
    <3> QED BY <3>1, <3>2, <2>4, <2>5
  <2> QED BY <2>1, <2>7, <2>8, <2>9
<1>8. P \in SUBSET Nat
  OBVIOUS
<1> HIDE DEF P
<1>9. P = Nat
  BY <1>6, <1>7, <1>8, NatInd
<1>10. MaxDay \in P /\ ~(MaxDay < d)
  BY <1>1, <1>9
<1>11. h[MaxDay] = g[MaxDay] + 1
  BY <1>10 DEF P
<1>12. Total(e) = Total(f) + 1
  BY <1>3, <1>4, <1>11
<1> QED BY <1>12 DEF e

\* Nothing spent is nothing in all.
LEMMA NothingSpent == NoCost \in [Day -> Nat] /\ Total(NoCost) = 0
<1> USE StatsAssumption
<1>0. Day = 0 .. MaxDay
  BY DEF Day
<1>1. NoCost \in [Day -> Nat] /\ \A d \in Day : NoCost[d] = 0
  BY DEF NoCost
<1> HIDE DEF NoCost
<1>2. PICK g : Summed(g, NoCost, MaxDay) /\ Total(NoCost) = g[MaxDay]
  BY <1>1, TotalIs
<1>3. /\ g \in [0 .. MaxDay -> Nat] /\ g[0] = NoCost[0]
      /\ \A k \in 1 .. MaxDay : g[k] = g[k - 1] + NoCost[k]
  BY <1>2 DEF Summed
<1> DEFINE P == {n \in Nat : n <= MaxDay => g[n] = 0}
<1>4. 0 \in P
  BY <1>0, <1>1, <1>3
<1>5. ASSUME NEW n \in P PROVE n + 1 \in P
  <2>1. n \in Nat
    OBVIOUS
  <2>2. SUFFICES ASSUME n + 1 <= MaxDay PROVE g[n + 1] = 0
    BY <2>1
  <2>3. n + 1 \in 1 .. MaxDay /\ (n + 1) - 1 = n /\ n + 1 \in Day /\ g[n] = 0
    BY <2>1, <2>2, <1>0
  <2> QED BY <2>3, <1>1, <1>3
<1>6. P \in SUBSET Nat
  OBVIOUS
<1> HIDE DEF P
<1>7. P = Nat
  BY <1>4, <1>5, <1>6, NatInd
<1>8. MaxDay \in P
  BY <1>7
<1>9. g[MaxDay] = 0
  BY <1>8 DEF P
<1> QED BY <1>1, <1>2, <1>9

\* Runs in the order in which they were recorded, of the first n.
Counted(s, n) ==
  /\ s \in Seq([run : Nat, day : Day])
  /\ \A i \in 1 .. Len(s) : s[i].run <= n
  /\ \A i, j \in 1 .. Len(s) : i < j => s[i].run < s[j].run

Numbered(s, n) ==
  /\ s \in Seq(Nat)
  /\ \A i \in 1 .. Len(s) : s[i] <= n
  /\ \A i, j \in 1 .. Len(s) : i < j => s[i] < s[j]

\* What is in the window, of the first n entries.
Window(t, s, n) ==
  /\ t \in Seq([run : Nat, day : Day])
  /\ \A i \in 1 .. Len(t) : \E j \in 1 .. n : t[i] = s[j]
  /\ \A i, j \in 1 .. Len(t) : i < j => t[i].run < t[j].run

\* One entry more is looked at: it is in the window or it is not.
LEMMA WindowGrows ==
  ASSUME NEW s, NEW t, NEW n \in Nat, NEW m \in Nat, Counted(s, m), n + 1 <= Len(s), Window(t, s, n)
  PROVE  Window(t, s, n + 1) /\ Window(Append(t, s[n + 1]), s, n + 1)
<1> DEFINE E == [run : Nat, day : Day]
           u == Append(t, s[n + 1])
<1>1. s \in Seq(E) /\ t \in Seq(E) /\ Len(t) \in Nat /\ Len(s) \in Nat
  BY DEF Counted, Window
<1>2. n + 1 \in 1 .. Len(s) /\ s[n + 1] \in E
  <2>1. n + 1 \in 1 .. Len(s)
    BY <1>1
  <2>2. \A i \in 1 .. Len(s) : s[i] \in E
    BY <1>1, ElementOfSeq
  <2> QED BY <2>1, <2>2
<1>3. \A j \in 1 .. n : j \in 1 .. n + 1 /\ j \in 1 .. Len(s) /\ j < n + 1
  BY <1>1
<1>4. Window(t, s, n + 1)
  BY <1>3 DEF Window
<1>5. /\ u \in Seq(E) /\ Len(u) = Len(t) + 1 /\ u[Len(t) + 1] = s[n + 1]
      /\ \A i \in 1 .. Len(t) : u[i] = t[i]
  BY <1>1, <1>2
<1> HIDE DEF u
<1>6. ASSUME NEW i \in 1 .. Len(u) PROVE \E j \in 1 .. n + 1 : u[i] = s[j]
  <2>1. CASE i = Len(t) + 1
    <3>1. n + 1 \in 1 .. n + 1
      OBVIOUS
    <3> QED BY <2>1, <3>1, <1>5
  <2>2. CASE i # Len(t) + 1
    <3>1. i \in 1 .. Len(t)
      BY <2>2, <1>1, <1>5
    <3> QED BY <3>1, <1>4, <1>5 DEF Window
  <2> QED BY <2>1, <2>2
<1>7. ASSUME NEW i \in 1 .. Len(u), NEW j \in 1 .. Len(u), i < j PROVE u[i].run < u[j].run
  <2>0. i \in 1 .. Len(t)
    BY <1>1, <1>5, <1>7
  <2>1. CASE j = Len(t) + 1
    <3>1. PICK k \in 1 .. n : t[i] = s[k]
      BY <2>0 DEF Window
    <3>2. s[k].run < s[n + 1].run
      BY <1>2, <1>3 DEF Counted
    <3> QED BY <2>0, <2>1, <3>1, <3>2, <1>5
  <2>2. CASE j # Len(t) + 1
    <3>1. j \in 1 .. Len(t)
      BY <2>2, <1>1, <1>5
    <3>2. t[i].run < t[j].run
      BY <2>0, <3>1, <1>7 DEF Window
    <3> QED BY <2>0, <3>1, <3>2, <1>5
  <2> QED BY <2>1, <2>2
<1>8. Window(u, s, n + 1)
  BY <1>5, <1>6, <1>7 DEF Window
<1> QED BY <1>4, <1>8 DEF u

IsWindow(g, s, N) ==
  g = [n \in 0 .. N |->
         IF n = 0 THEN <<>> ELSE IF s[n].day = today THEN Append(g[n - 1], s[n]) ELSE g[n - 1]]

\* The recursion of InWindow has a solution...
LEMMA WindowExists ==
  ASSUME NEW s
  PROVE  \A N \in Nat : \E g : IsWindow(g, s, N)
<1> DEFINE Next1(n, t) == IF s[n].day = today THEN Append(t, s[n]) ELSE t
           Is(g, N) == g = [n \in 0 .. N |-> IF n = 0 THEN <<>> ELSE Next1(n, g[n - 1])]
           P == {N \in Nat : \E g : Is(g, N)}
<1>1. 0 \in P
  <2> DEFINE g == [n \in 0 .. 0 |-> <<>>]
  <2>1. Is(g, 0)
    OBVIOUS
  <2> QED BY <2>1
<1>2. ASSUME NEW N \in P PROVE N + 1 \in P
  <2>1. PICK g : Is(g, N)
    OBVIOUS
  <2> DEFINE h == [n \in 0 .. N + 1 |-> IF n = N + 1 THEN Next1(N + 1, g[N]) ELSE g[n]]
  <2> HIDE DEF Next1
  <2>2. ASSUME NEW n \in 0 .. N + 1 PROVE h[n] = IF n = 0 THEN <<>> ELSE Next1(n, h[n - 1])
    <3>1. CASE n = 0
      BY <2>1, <3>1
    <3>2. CASE n = N + 1
      <4>1. n - 1 \in 0 .. N + 1 /\ n - 1 # N + 1 /\ n - 1 = N
        BY <3>2
      <4> QED BY <3>2, <4>1
    <3>3. CASE n # 0 /\ n # N + 1
      <4>1. n \in 0 .. N /\ n - 1 \in 0 .. N + 1 /\ n - 1 # N + 1
        BY <3>3
      <4>2. g[n] = Next1(n, g[n - 1])
        BY <4>1, <2>1, <3>3
      <4> QED BY <4>1, <4>2, <3>3
    <3> QED BY <3>1, <3>2, <3>3
  <2>3. h = [n \in 0 .. N + 1 |-> h[n]]
    OBVIOUS
  <2> HIDE DEF h
  <2>4. Is(h, N + 1)
    BY <2>2, <2>3
  <2>5. N + 1 \in Nat
    OBVIOUS
  <2> HIDE DEF Is
  <2> QED BY <2>4, <2>5
<1>3. P \in SUBSET Nat
  OBVIOUS
<1>4. P = Nat
  <2> HIDE DEF P
  <2> QED BY <1>1, <1>2, <1>3, NatInd
<1>5. \A N \in Nat : \E g : Is(g, N)
  BY <1>4
<1> QED BY <1>5 DEF IsWindow

\* ...and it keeps entries as they are, in their order.
LEMMA InWindowIs ==
  ASSUME NEW s, NEW m \in Nat, Counted(s, m)
  PROVE  Counted(InWindow(s), m)
<1> DEFINE N == Len(s)
           Is(g) == g = [n \in 0 .. N |->
              IF n = 0 THEN <<>> ELSE IF s[n].day = today THEN Append(g[n - 1], s[n]) ELSE g[n - 1]]
           K == CHOOSE g : Is(g)
<1>1. N \in Nat
  BY DEF Counted
<1>2. \E g : Is(g)
  <2>1. PICK g : IsWindow(g, s, N)
    BY <1>1, WindowExists
  <2> QED BY <2>1 DEF IsWindow
<1>3. Is(K)
  BY <1>2
<1>4. InWindow(s) = K[N]
  BY DEF InWindow
<1>5. K = [n \in 0 .. N |->
             IF n = 0 THEN <<>> ELSE IF s[n].day = today THEN Append(K[n - 1], s[n]) ELSE K[n - 1]]
  BY <1>3
<1> HIDE DEF K, Is
<1> DEFINE P == {n \in Nat : n <= N => Window(K[n], s, n)}
<1>6. 0 \in P
  <2>1. K[0] = <<>>
    BY <1>1, <1>5
  <2>2. Window(<<>>, s, 0)
    BY DEF Window
  <2> QED BY <2>1, <2>2
<1>7. ASSUME NEW n \in P PROVE n + 1 \in P
  <2>1. n \in Nat
    OBVIOUS
  <2>2. SUFFICES ASSUME n + 1 <= N PROVE Window(K[n + 1], s, n + 1)
    BY <2>1
  <2>3. Window(K[n], s, n)
    BY <1>1, <2>1, <2>2
  <2>4. n + 1 \in 0 .. N /\ n + 1 # 0 /\ (n + 1) - 1 = n
    BY <1>1, <2>1, <2>2
  <2>5. K[n + 1] = IF s[n + 1].day = today THEN Append(K[n], s[n + 1]) ELSE K[n]
    BY <2>4, <1>5
  <2>6. Window(K[n], s, n + 1) /\ Window(Append(K[n], s[n + 1]), s, n + 1)
    BY <2>1, <2>2, <2>3, WindowGrows
  <2> QED BY <2>5, <2>6
<1>8. P \in SUBSET Nat
  OBVIOUS
<1> HIDE DEF P
<1>9. P = Nat
  BY <1>6, <1>7, <1>8, NatInd
<1>10. N \in P
  BY <1>1, <1>9
<1>11. Window(K[N], s, N)
  BY <1>1, <1>10 DEF P
<1>12. \A i \in 1 .. Len(K[N]) : K[N][i].run <= m
  <2> TAKE i \in 1 .. Len(K[N])
  <2>1. PICK j \in 1 .. N : K[N][i] = s[j]
    BY <1>11 DEF Window
  <2> QED BY <2>1 DEF Counted
<1>13. Counted(K[N], m)
  BY <1>11, <1>12 DEF Window, Counted
<1> QED BY <1>4, <1>13

\* The last few of some numbers.
LEMMA LastOnesAre ==
  ASSUME NEW s, NEW m \in Nat, Numbered(s, m)
  PROVE  Numbered(LastOnes(s), m) /\ Len(LastOnes(s)) <= OutputsKept
<1> USE StatsAssumption
<1> DEFINE n == Len(s)
           k == IF n > OutputsKept THEN n - OutputsKept + 1 ELSE 1
           t == SubSeq(s, k, n)
<1>1. s \in Seq(Nat) /\ n \in Nat /\ k \in Nat /\ k >= 1 /\ k <= n + 1 /\ n - k + 1 <= OutputsKept
  BY DEF Numbered
<1>2. LastOnes(s) = t
  BY DEF LastOnes
<1> HIDE DEF k
<1>3. \A i \in k .. n : s[i] \in Nat
  BY <1>1
<1>4. /\ t \in Seq(Nat) /\ Len(t) = IF k <= n THEN n - k + 1 ELSE 0
      /\ \A i \in 1 .. n - k + 1 : t[i] = s[k + i - 1]
  <2> HIDE DEF n
  <2> QED BY <1>1, <1>3, SubSeqProperties
<1> HIDE DEF t, n
<1>5. Len(t) = n - k + 1
  BY <1>1, <1>4
<1>6. \A i \in 1 .. n - k + 1 : k + i - 1 \in 1 .. n
  BY <1>1
<1>7. \A i \in 1 .. n : s[i] <= m
  BY DEF Numbered, n
<1>8. \A i, j \in 1 .. n : i < j => s[i] < s[j]
  BY DEF Numbered, n
<1>9. \A i \in 1 .. Len(t) : t[i] <= m
  BY <1>4, <1>5, <1>6, <1>7
<1>10. ASSUME NEW i \in 1 .. Len(t), NEW j \in 1 .. Len(t), i < j PROVE t[i] < t[j]
  <2>1. k + i - 1 < k + j - 1
    BY <1>1, <1>5, <1>10
  <2> QED BY <2>1, <1>4, <1>5, <1>6, <1>8
<1>11. Numbered(t, m)
  BY <1>4, <1>9, <1>10 DEF Numbered
<1> QED BY <1>1, <1>2, <1>5, <1>11

\* The next number at the end.
LEMMA NextIsNumbered ==
  ASSUME NEW s, NEW m \in Nat, Numbered(s, m)
  PROVE  Numbered(Append(s, m + 1), m + 1)
<1> DEFINE t == Append(s, m + 1)
<1>1. s \in Seq(Nat) /\ Len(s) \in Nat
  BY DEF Numbered
<1>2. /\ t \in Seq(Nat) /\ Len(t) = Len(s) + 1 /\ t[Len(s) + 1] = m + 1
      /\ \A i \in 1 .. Len(s) : t[i] = s[i] /\ s[i] \in Nat
  BY <1>1
<1> HIDE DEF t
<1>3. \A i \in 1 .. Len(s) : t[i] <= m
  BY <1>2 DEF Numbered
<1>4. \A i \in 1 .. Len(t) : i \in 1 .. Len(s) \/ i = Len(s) + 1
  BY <1>1, <1>2
<1>5. ASSUME NEW i \in 1 .. Len(t) PROVE t[i] <= m + 1
  <2>1. CASE i \in 1 .. Len(s)
    <3>1. t[i] <= m /\ t[i] \in Nat
      BY <1>2, <1>3, <2>1
    <3> QED BY <3>1
  <2>2. CASE i = Len(s) + 1
    BY <1>2, <2>2
  <2> QED BY <1>4, <2>1, <2>2
<1>6. ASSUME NEW i \in 1 .. Len(t), NEW j \in 1 .. Len(t), i < j PROVE t[i] < t[j]
  <2>1. i \in 1 .. Len(s)
    BY <1>1, <1>2, <1>6
  <2>2. CASE j \in 1 .. Len(s)
    <3>1. s[i] < s[j]
      BY <2>1, <2>2, <1>6 DEF Numbered
    <3> QED BY <2>1, <2>2, <3>1, <1>2
  <2>3. CASE j = Len(s) + 1
    <3>1. t[i] \in Nat /\ t[i] <= m
      BY <2>1, <1>2, <1>3
    <3> QED BY <2>3, <3>1, <1>2
  <2> QED BY <2>2, <2>3, <1>4
<1>7. Numbered(t, m + 1)
  BY <1>2, <1>5, <1>6 DEF Numbered
<1> QED BY <1>7 DEF t

\* The next entry at the end.
LEMMA NextIsCounted ==
  ASSUME NEW s, NEW m \in Nat, Counted(s, m), NEW day \in Day
  PROVE  Counted(Append(s, [run |-> m + 1, day |-> day]), m + 1)
<1> DEFINE E == [run : Nat, day : Day]
           e == [run |-> m + 1, day |-> day]
           t == Append(s, e)
<1>1. s \in Seq(E) /\ Len(s) \in Nat /\ e \in E /\ e.run = m + 1
  BY DEF Counted
<1> HIDE DEF e
<1>2. /\ t \in Seq(E) /\ Len(t) = Len(s) + 1 /\ t[Len(s) + 1] = e
      /\ \A i \in 1 .. Len(s) : t[i] = s[i] /\ s[i].run \in Nat
  <2>1. t \in Seq(E) /\ Len(t) = Len(s) + 1 /\ t[Len(s) + 1] = e /\ \A i \in 1 .. Len(s) : t[i] = s[i]
    BY <1>1
  <2>2. \A i \in 1 .. Len(s) : s[i] \in E
    BY <1>1, ElementOfSeq
  <2> QED BY <2>1, <2>2
<1> HIDE DEF t
<1>3. \A i \in 1 .. Len(s) : t[i].run <= m
  BY <1>2 DEF Counted
<1>4. \A i \in 1 .. Len(t) : i \in 1 .. Len(s) \/ i = Len(s) + 1
  BY <1>1, <1>2
<1>5. \A i \in 1 .. Len(t) : t[i].run <= m + 1
  <2> SUFFICES ASSUME NEW i \in 1 .. Len(t) PROVE t[i].run <= m + 1
    OBVIOUS
  <2>1. CASE i = Len(s) + 1
    <3>1. t[i].run = m + 1
      BY <1>1, <1>2, <2>1
    <3> QED BY <3>1
  <2>2. CASE i # Len(s) + 1
    <3>1. i \in 1 .. Len(s)
      BY <1>4, <2>2
    <3>2. t[i].run \in Nat /\ t[i].run <= m
      <4>1. t[i] = s[i] /\ s[i].run \in Nat
        BY <1>2, <3>1
      <4> QED BY <1>3, <3>1, <4>1
    <3> QED BY <3>2
  <2> QED BY <2>1, <2>2
<1>6. ASSUME NEW i \in 1 .. Len(t), NEW j \in 1 .. Len(t), i < j PROVE t[i].run < t[j].run
  <2>1. i \in 1 .. Len(s)
    BY <1>1, <1>2, <1>6
  <2>2. CASE j \in 1 .. Len(s)
    <3>1. s[i].run < s[j].run
      BY <2>1, <2>2, <1>6 DEF Counted
    <3> QED BY <2>1, <2>2, <3>1, <1>2
  <2>3. CASE j = Len(s) + 1
    <3>1. t[i].run \in Nat /\ t[i].run <= m
      BY <2>1, <1>2, <1>3
    <3> QED BY <2>3, <3>1, <1>1, <1>2
  <2> QED BY <2>2, <2>3, <1>4
<1>7. Counted(t, m + 1)
  BY <1>2, <1>5, <1>6 DEF Counted
<1> QED BY <1>7 DEF t, e

\* The invariant: what is on a file is what was counted before; while the process runs, the
\* costs in memory that are not too old are those of the file and more.
StatsInv ==
  /\ today \in Day /\ recorded \in 0 .. MaxRecorded
  /\ throttled \in BOOLEAN /\ outputsDue \in BOOLEAN /\ statsUp \in BOOLEAN
  /\ outputsFailed \in BOOLEAN
  /\ daily \in [Day -> Nat] /\ Total(daily) <= recorded
  /\ usageFile \in [Day -> Nat] /\ Total(usageFile) <= recorded
  /\ Counted(entries, recorded) /\ Counted(statsFile, recorded)
  /\ Numbered(outputs, recorded) /\ Len(outputs) <= OutputsKept
  /\ Numbered(outputsFile, recorded) /\ Len(outputsFile) <= OutputsKept
  /\ statsUp => \A d \in Day : d + KeptDays >= today => daily[d] >= usageFile[d]

\* Nothing recorded yet.
LEMMA EmptyIs == ASSUME NEW n \in Nat
                 PROVE  Counted(<<>>, n) /\ Numbered(<<>>, n) /\ Len(<<>>) <= OutputsKept
BY StatsAssumption DEF Counted, Numbered

\* Every step keeps the invariant.
LEMMA StatsStep == StatsInv /\ [StatsNext]_statVars => StatsInv'
<1> SUFFICES ASSUME StatsInv, [StatsNext]_statVars PROVE StatsInv'
  OBVIOUS
<1> USE StatsAssumption
<1>0. /\ Day = 0 .. MaxDay /\ recorded \in Nat
      /\ Total(daily) \in Nat /\ Total(usageFile) \in Nat
      /\ \A d \in Day : daily[d] \in Nat /\ usageFile[d] \in Nat
  <2>1. 0 \in Day /\ Day = 0 .. MaxDay
    BY DEF Day
  <2>2. Total(daily) \in Nat /\ Total(usageFile) \in Nat
    BY <2>1, PartOfTotal DEF StatsInv
  <2> QED BY <2>1, <2>2 DEF StatsInv
<1>1. ASSUME NEW answered \in BOOLEAN, NEW costs \in BOOLEAN, RecordRun(answered, costs) PROVE StatsInv'
  <2> DEFINE n == recorded + 1
             cost == [daily EXCEPT ![today] = @ + 1]
  <2>1. /\ statsUp /\ recorded < MaxRecorded /\ recorded' = n
        /\ entries' = Append(entries, [run |-> n, day |-> today])
        /\ outputs' = IF answered THEN LastOnes(Append(outputs, n)) ELSE outputs
        /\ outputsDue' = (outputsDue \/ answered)
        /\ daily' = IF costs THEN cost ELSE daily
        /\ throttled' = IF costs THEN OverBudget(cost) ELSE throttled
        /\ outputsFailed' = (outputsFailed /\ ~answered)
        /\ UNCHANGED <<today, statFiles, statsUp>>
    BY <1>1 DEF RecordRun
  <2>2. today' = today /\ usageFile' = usageFile /\ statsFile' = statsFile /\ outputsFile' = outputsFile
        /\ statsUp' = statsUp
    BY <2>1 DEF statFiles
  <2>3. n \in 0 .. MaxRecorded /\ n \in Nat /\ today \in Day
    BY <2>1, <1>0 DEF StatsInv
  <2>4. throttled' \in BOOLEAN /\ outputsDue' \in BOOLEAN /\ outputsFailed' \in BOOLEAN
    <3>1. OverBudget(cost) \in BOOLEAN
      BY DEF OverBudget
    <3> QED BY <2>1, <3>1 DEF StatsInv
  <2>5. Total(cost) = Total(daily) + 1 /\ cost \in [Day -> Nat] /\ \A d \in Day : cost[d] >= daily[d]
    <3>1. daily \in [Day -> Nat] /\ today \in Day
      BY DEF StatsInv
    <3>2. Total(cost) = Total(daily) + 1
      BY <3>1, OneMore
    <3>3. cost \in [Day -> Nat] /\ \A d \in Day : cost[d] >= daily[d]
      BY <3>1
    <3> QED BY <3>2, <3>3
  <2> HIDE DEF cost
  <2>6. daily' \in [Day -> Nat] /\ Total(daily') <= n /\ \A d \in Day : daily'[d] >= daily[d]
    <3>1. CASE costs
      <4>1. daily' = cost
        BY <2>1, <3>1
      <4>2. Total(daily) <= recorded /\ Total(daily) \in Nat /\ recorded \in Nat
        BY <1>0 DEF StatsInv
      <4>3. Total(cost) <= n
        BY <2>5, <4>2
      <4> QED BY <2>5, <4>1, <4>3
    <3>2. CASE ~costs
      BY <2>1, <3>2, <1>0 DEF StatsInv
    <3> QED BY <3>1, <3>2
  <2>7. usageFile' \in [Day -> Nat] /\ Total(usageFile') <= n
    BY <2>2, <1>0 DEF StatsInv
  <2>8. Counted(entries', n)
    BY <2>1, <2>3, <1>0, NextIsCounted DEF StatsInv
  <2>9. Numbered(outputs', n) /\ Len(outputs') <= OutputsKept
    <3>1. CASE answered
      <4>1. Numbered(Append(outputs, n), n)
        BY <1>0, NextIsNumbered DEF StatsInv
      <4> QED BY <2>1, <2>3, <3>1, <4>1, LastOnesAre
    <3>2. CASE ~answered
      <4>1. outputs' = outputs
        BY <2>1, <3>2
      <4>2. \A i \in 1 .. Len(outputs) : outputs[i] \in Nat
        BY DEF StatsInv, Numbered
      <4> QED BY <4>1, <4>2, <1>0 DEF StatsInv, Numbered
    <3> QED BY <3>1, <3>2
  <2>10. Counted(statsFile, n) /\ Numbered(outputsFile, n)
    <3>0. \A i \in 1 .. Len(statsFile) : statsFile[i] \in [run : Nat, day : Day]
      <4>1. statsFile \in Seq([run : Nat, day : Day])
        BY DEF StatsInv, Counted
      <4> QED BY <4>1, ElementOfSeq
    <3>1. \A i \in 1 .. Len(statsFile) : statsFile[i].run \in Nat
      BY <3>0
    <3>2. \A i \in 1 .. Len(outputsFile) : outputsFile[i] \in Nat
      BY DEF StatsInv, Numbered
    <3>3. Counted(statsFile, n)
      <4>1. Counted(statsFile, recorded)
        BY DEF StatsInv
      <4>2. \A i \in 1 .. Len(statsFile) : statsFile[i].run <= n
        BY <3>1, <4>1, <1>0 DEF Counted
      <4> QED BY <4>1, <4>2 DEF Counted
    <3>4. Numbered(outputsFile, n)
      BY <3>2, <1>0 DEF StatsInv, Numbered
    <3> QED BY <3>3, <3>4
  <2>11. \A d \in Day : d + KeptDays >= today' => daily'[d] >= usageFile'[d]
    <3> SUFFICES ASSUME NEW d \in Day, d + KeptDays >= today PROVE daily'[d] >= usageFile[d]
      BY <2>2
    <3>1. daily[d] >= usageFile[d]
      BY <2>1 DEF StatsInv
    <3>2. daily'[d] >= daily[d] /\ daily'[d] \in Nat
      BY <2>6
    <3> QED BY <3>1, <3>2, <1>0
  <2> QED BY <2>1, <2>2, <2>3, <2>4, <2>6, <2>7, <2>8, <2>9, <2>10, <2>11 DEF StatsInv
<1>2. CASE SaveUsage \/ UsageSaveFails
  <2>1. /\ usageFile' \in {daily, usageFile, NoCost}
        /\ UNCHANGED <<today, recorded, daily, throttled, entries, outputs, outputsDue, statsFile,
                       outputsFile, statsUp, outputsFailed>>
    BY <1>2 DEF SaveUsage, UsageSaveFails, statMemory
  <2>2. NoCost \in [Day -> Nat] /\ Total(NoCost) <= recorded /\ \A d \in Day : daily[d] >= NoCost[d]
    BY <1>0, NothingSpent DEF NoCost
  <2>3. \A d \in Day : daily[d] >= daily[d]
    BY <1>0
  <2>4. CASE usageFile' = daily
    BY <2>1, <2>3, <2>4 DEF StatsInv
  <2>5. CASE usageFile' = usageFile
    BY <2>1, <2>5 DEF StatsInv
  <2>6. CASE usageFile' = NoCost
    BY <2>1, <2>2, <2>6 DEF StatsInv
  <2> QED BY <2>1, <2>4, <2>5, <2>6
<1>3. CASE SaveStats
  <2>1. /\ entries' = InWindow(entries) /\ statsFile' \in {entries', statsFile, <<>>}
        /\ UNCHANGED <<today, recorded, daily, throttled, outputs, outputsDue, usageFile, outputsFile,
                       statsUp, outputsFailed>>
    BY <1>3 DEF SaveStats
  <2>2. Counted(InWindow(entries), recorded) /\ Counted(<<>>, recorded)
    BY <1>0, InWindowIs, EmptyIs DEF StatsInv
  <2> QED BY <2>1, <2>2 DEF StatsInv
<1>4. CASE SaveOutputs
  <2>1. /\ outputsFile' \in {outputs, outputsFile, <<>>}
        /\ outputsDue' \in BOOLEAN /\ outputsFailed' \in BOOLEAN
        /\ UNCHANGED <<today, recorded, daily, throttled, entries, outputs, usageFile, statsFile, statsUp>>
    BY <1>4 DEF SaveOutputs
  <2>2. Numbered(<<>>, recorded) /\ Len(<<>>) <= OutputsKept
    BY <1>0, EmptyIs
  <2> QED BY <2>1, <2>2 DEF StatsInv
<1>5. CASE DayPasses
  <2>1. /\ today < MaxDay /\ today' = today + 1
        /\ UNCHANGED <<recorded, daily, throttled, entries, outputs, outputsDue, usageFile, statsFile,
                       outputsFile, statsUp, outputsFailed>>
    BY <1>5 DEF DayPasses, statMemory, statFiles
  <2>2. today' \in Day /\ \A d \in Day : d + KeptDays >= today' => d + KeptDays >= today
    BY <2>1, <1>0 DEF StatsInv
  <2> QED BY <2>1, <2>2 DEF StatsInv
<1>6. CASE StatsEnd \/ StatsCrashInSave
  <2>1. /\ statsUp' = FALSE /\ daily' = NoCost /\ throttled' = FALSE
        /\ entries' = <<>> /\ outputs' = <<>> /\ outputsDue' = FALSE /\ outputsFailed' = FALSE
        /\ UNCHANGED <<today, recorded>>
        /\ usageFile' \in {usageFile, NoCost} /\ statsFile' \in {statsFile, <<>>}
        /\ outputsFile' \in {outputsFile, <<>>}
    BY <1>6 DEF StatsEnd, StatsCrashInSave, StatsForgotten, statFiles
  <2>2. NoCost \in [Day -> Nat] /\ Total(NoCost) <= recorded
    BY <1>0, NothingSpent
  <2>3. Counted(<<>>, recorded) /\ Numbered(<<>>, recorded) /\ Len(<<>>) <= OutputsKept
    BY <1>0, EmptyIs
  <2> QED BY <2>1, <2>2, <2>3 DEF StatsInv
<1>7. CASE StatsBoot
  <2>1. /\ statsUp' = TRUE /\ daily' = RecentDays(usageFile)
        /\ entries' = InWindow(statsFile) /\ outputs' = outputsFile
        /\ UNCHANGED <<today, recorded, throttled, outputsDue, usageFile, statsFile, outputsFile,
                       outputsFailed>>
    BY <1>7 DEF StatsBoot, statFiles
  <2>2. /\ RecentDays(usageFile) \in [Day -> Nat]
        /\ \A d \in Day : RecentDays(usageFile)[d] <= usageFile[d]
        /\ \A d \in Day : d + KeptDays >= today => RecentDays(usageFile)[d] >= usageFile[d]
    BY <1>0 DEF RecentDays, StatsInv
  <2>3. Total(RecentDays(usageFile)) <= recorded
    <3>1. Total(RecentDays(usageFile)) <= Total(usageFile) /\ Total(RecentDays(usageFile)) \in Nat
      BY <2>2, LessInAll DEF StatsInv
    <3> QED BY <3>1, <1>0 DEF StatsInv
  <2>4. Counted(InWindow(statsFile), recorded)
    BY <1>0, InWindowIs DEF StatsInv
  <2> QED BY <2>1, <2>2, <2>3, <2>4 DEF StatsInv
<1>8. CASE UNCHANGED statVars
  BY <1>8 DEF statVars, statMemory, statFiles, StatsInv
<1> QED BY <1>1, <1>2, <1>3, <1>4, <1>5, <1>6, <1>7, <1>8 DEF StatsNext

\* The invariant of the statistics holds always, and no step forgets spending.
LEMMA StatsSafe == StatsInit /\ [][StatsNext]_statVars => []StatsInv /\ SpendingStays
<1>1. StatsInit => StatsInv
  <2> SUFFICES ASSUME StatsInit PROVE StatsInv
    OBVIOUS
  <2> USE StatsAssumption
  <2>1. NoCost \in [Day -> Nat] /\ Total(NoCost) = 0 /\ 0 \in Day /\ 0 \in Nat
    BY NothingSpent DEF Day
  <2>2. Counted(<<>>, 0) /\ Numbered(<<>>, 0) /\ Len(<<>>) <= OutputsKept
    BY EmptyIs
  <2>3. \A d \in Day : NoCost[d] >= NoCost[d]
    BY <2>1
  <2>4. daily \in [Day -> Nat] /\ Total(daily) <= recorded /\ usageFile \in [Day -> Nat] /\ Total(usageFile) <= recorded
    BY <2>1 DEF StatsInit
  <2>5. Counted(entries, recorded) /\ Counted(statsFile, recorded)
    BY <2>2 DEF StatsInit
  <2>6. Numbered(outputs, recorded) /\ Numbered(outputsFile, recorded)
        /\ Len(outputs) <= OutputsKept /\ Len(outputsFile) <= OutputsKept
    BY <2>2 DEF StatsInit
  <2>7. \A d \in Day : daily[d] >= usageFile[d]
    BY <2>3 DEF StatsInit
  <2>8. today \in Day /\ recorded \in 0 .. MaxRecorded
    BY <2>1 DEF StatsInit
  <2>9. throttled \in BOOLEAN /\ outputsDue \in BOOLEAN /\ statsUp \in BOOLEAN /\ outputsFailed \in BOOLEAN
    BY DEF StatsInit
  <2> QED BY <2>4, <2>5, <2>6, <2>7, <2>8, <2>9 DEF StatsInv
<1>2. StatsInv /\ [StatsNext]_statVars =>
        [\A d \in Day : d + KeptDays >= today => usageFile'[d] >= usageFile[d] \/ StatsCrashInSave \/ UsageSaveFails]_statVars
  <2> SUFFICES ASSUME StatsInv, StatsNext, ~StatsCrashInSave, ~UsageSaveFails, NEW d \in Day, d + KeptDays >= today
               PROVE  usageFile'[d] >= usageFile[d]
    BY DEF statVars
  <2>1. usageFile[d] \in Nat
    BY DEF StatsInv
  <2>2. CASE SaveUsage
    BY <2>2 DEF SaveUsage, StatsInv
  <2>3. CASE ~SaveUsage
    <3>1. usageFile' = usageFile
      BY <2>3 DEF StatsNext, RecordRun, SaveStats, SaveOutputs, DayPasses, StatsEnd, StatsBoot, statFiles
    <3> QED BY <2>1, <3>1
  <2> QED BY <2>2, <2>3
<1> QED BY <1>1, <1>2, StatsStep, PTL DEF SpendingStays

\* What the invariant says of types.
LEMMA StatsTyped == StatsInv => StatsTypeOK
<1> SUFFICES ASSUME StatsInv PROVE StatsTypeOK
  OBVIOUS
<1> USE StatsAssumption
<1>1. ASSUME NEW f \in {daily, usageFile} PROVE f \in [Day -> 0 .. recorded] /\ Total(f) <= recorded
  <2>1. f \in [Day -> Nat] /\ Total(f) <= recorded /\ recorded \in Nat
    BY DEF StatsInv
  <2>2. ASSUME NEW d \in Day PROVE f[d] \in 0 .. recorded
    <3>1. f[d] <= Total(f) /\ Total(f) \in Nat /\ f[d] \in Nat
      BY <2>1, PartOfTotal
    <3> QED BY <2>1, <3>1
  <2> QED BY <2>1, <2>2
<1>2. ASSUME NEW s \in {outputs, outputsFile} PROVE Ascending(s) /\ Len(s) <= OutputsKept
  <2>1. Numbered(s, recorded) /\ Len(s) <= OutputsKept
    BY DEF StatsInv
  <2>2. DOMAIN s = 1 .. Len(s) /\ \A i, j \in 1 .. Len(s) : i < j => s[i] < s[j]
    BY <2>1 DEF Numbered
  <2> QED BY <2>1, <2>2 DEF Ascending
<1>3. ASSUME NEW s \in {entries, statsFile} PROVE Ascending([i \in DOMAIN s |-> s[i].run])
  <2>0. Counted(s, recorded)
    BY DEF StatsInv
  <2>1. DOMAIN s = 1 .. Len(s) /\ \A i, j \in 1 .. Len(s) : i < j => s[i].run < s[j].run
    BY <2>0 DEF Counted
  <2> QED BY <2>1 DEF Ascending
<1> QED BY <1>1, <1>2, <1>3 DEF StatsTypeOK, StatsInv

-------------------------------------------------------------------------------
\* The output of a run's process (executor.js).

\* A use whose input is known, and one that has its result.
Upgraded(e, input) == [e EXCEPT !.input = e.input \/ input]
Finished(e, result) == [e EXCEPT !.result = result]

\* What an entry is made of, after one of its fields changes.
LEMMA EntryIs ==
  ASSUME NEW e \in Entry, NEW input \in BOOLEAN, NEW result \in {"none", "ok", "failed"}
  PROVE  /\ e.id \in Tool /\ e.input \in BOOLEAN /\ e.result \in {"none", "ok", "failed"}
         /\ Upgraded(e, input) \in Entry /\ Upgraded(e, input).id = e.id
         /\ Upgraded(e, input).input = (e.input \/ input) /\ Upgraded(e, input).result = e.result
         /\ Finished(e, result) \in Entry /\ Finished(e, result).id = e.id
         /\ Finished(e, result).input = e.input /\ Finished(e, result).result = result
<1>1. e.id \in Tool /\ e.input \in BOOLEAN /\ e.result \in {"none", "ok", "failed"}
  BY DEF Entry
<1>2. e = [id |-> e.id, input |-> e.input, result |-> e.result]
  BY DEF Entry
<1>3. Upgraded(e, input) = [id |-> e.id, input |-> (e.input \/ input), result |-> e.result]
  BY <1>2 DEF Upgraded
<1>4. Finished(e, result) = [id |-> e.id, input |-> e.input, result |-> result]
  BY <1>2 DEF Finished
<1> QED BY <1>1, <1>3, <1>4 DEF Entry

\* A history of uses, no longer than it may be.
Kept(h) == h \in Seq(Entry) /\ Len(h) <= HistoryMax

\* What a history is made of.
LEMMA KeptIs ==
  ASSUME NEW h, Kept(h)
  PROVE  /\ Len(h) \in Nat /\ DOMAIN h = 1 .. Len(h) /\ Len(h) <= HistoryMax
         /\ \A i \in 1 .. Len(h) : h[i] \in Entry
<1>1. h \in Seq(Entry)
  BY DEF Kept
<1>2. \A i \in 1 .. Len(h) : h[i] \in Entry
  BY <1>1, ElementOfSeq
<1> QED BY <1>1, <1>2 DEF Kept

\* One entry of a history changes.
LEMMA OneEntry ==
  ASSUME NEW h, Kept(h), NEW i \in 1 .. Len(h), NEW e \in Entry, NEW u, u = [h EXCEPT ![i] = e]
  PROVE  Kept(u) /\ Len(u) = Len(h) /\ u[i] = e /\ \A j \in 1 .. Len(h) : j # i => u[j] = h[j]
<1>1. h \in Seq(Entry) /\ Len(h) <= HistoryMax
  BY DEF Kept
<1>2. u \in Seq(Entry) /\ Len(u) = Len(h) /\ u[i] = e /\ \A j \in 1 .. Len(h) : j # i => u[j] = h[j]
  BY <1>1
<1> QED BY <1>1, <1>2 DEF Kept

\* A use is added at the end; the oldest goes when there is no place.
LEMMA UseIsLast ==
  ASSUME NEW h, Kept(h), NEW t \in Tool, NEW input \in BOOLEAN, NEW u, u = UseAppended(h, t, input)
  PROVE  /\ Kept(u)
         /\ Len(u) = IF Len(h) < HistoryMax THEN Len(h) + 1 ELSE HistoryMax
         /\ u[Len(u)] = [id |-> t, input |-> input, result |-> "none"]
         /\ \A i \in 1 .. Len(u) - 1 :
              /\ (Len(h) + 1) - Len(u) + i \in 1 .. Len(h)
              /\ u[i] = h[(Len(h) + 1) - Len(u) + i]
<1> USE OutputAssumption
<1> DEFINE e == [id |-> t, input |-> input, result |-> "none"]
           g == Append(h, e)
           n == Len(h)
<1>1. n \in Nat /\ n <= HistoryMax /\ h \in Seq(Entry) /\ e \in Entry
  BY DEF Kept, Entry
<1> HIDE DEF e
<1>2. g \in Seq(Entry) /\ Len(g) = n + 1 /\ g[n + 1] = e /\ \A i \in 1 .. n : g[i] = h[i]
  BY <1>1
<1>3. u = Newest(g)
  BY DEF UseAppended, e
<1> HIDE DEF g, n
<1>4. CASE n < HistoryMax
  <2>1. u = g
    BY <1>1, <1>2, <1>3, <1>4 DEF Newest
  <2>2. \A i \in 1 .. Len(u) - 1 : i \in 1 .. n /\ (n + 1) - Len(u) + i = i
    BY <1>1, <1>2, <2>1
  <2> QED BY <1>1, <1>2, <1>4, <2>1, <2>2 DEF Kept, e, n
<1>5. CASE ~(n < HistoryMax)
  <2>1. n = HistoryMax
    BY <1>1, <1>5
  <2>2. u = SubSeq(g, 2, n + 1)
    BY <1>2, <1>3, <2>1 DEF Newest
  <2>3. /\ u \in Seq(Entry) /\ Len(u) = IF 2 <= n + 1 THEN (n + 1) - 2 + 1 ELSE 0
        /\ \A i \in 1 .. (n + 1) - 2 + 1 : u[i] = g[2 + i - 1]
    <3>1. \A i \in 2 .. n + 1 : g[i] \in Entry
      BY <1>1, <1>2, ElementOfSeq
    <3> QED BY <1>1, <2>2, <3>1, SubSeqProperties
  <2>4. Len(u) = n /\ \A i \in 1 .. n : u[i] = g[i + 1]
    <3>1. Len(u) = n
      BY <1>1, <2>1, <2>3
    <3>2. ASSUME NEW i \in 1 .. n PROVE u[i] = g[i + 1]
      <4>1. i \in 1 .. (n + 1) - 2 + 1 /\ 2 + i - 1 = i + 1
        BY <1>1
      <4> QED BY <4>1, <2>3
    <3> QED BY <3>1, <3>2
  <2>5. u[n] = e
    BY <1>1, <1>2, <2>1, <2>4
  <2>6. ASSUME NEW i \in 1 .. n - 1 PROVE (n + 1) - Len(u) + i \in 1 .. n /\ u[i] = h[(n + 1) - Len(u) + i]
    <3>1. i + 1 \in 1 .. n /\ i \in 1 .. n /\ (n + 1) - Len(u) + i = i + 1
      BY <1>1, <2>4
    <3> QED BY <3>1, <1>2, <2>4
  <2>7. Kept(u)
    BY <2>1, <2>3, <2>4 DEF Kept
  <2> QED BY <1>5, <2>1, <2>4, <2>5, <2>6, <2>7 DEF n, e
<1> QED BY <1>4, <1>5

\* A use that is among the last entries is completed, the last of them; any other is added.
LEMMA ToolUseIs ==
  ASSUME NEW h, Kept(h), NEW t \in Tool, NEW input \in BOOLEAN
  PROVE  LET known == {i \in 1 .. Len(h) : h[i].id = t /\ i > Len(h) - LookBack} IN
         /\ known = {} => ToolUse(h, t, input) = UseAppended(h, t, input)
         /\ known # {} => \E i \in known : ToolUse(h, t, input) = [h EXCEPT ![i] = Upgraded(h[i], input)]
<1> USE OutputAssumption
<1> DEFINE known == {i \in Places(h, t) : i > Len(h) - LookBack}
           m == CHOOSE i \in known : \A j \in known : j <= i
<1>1. known = {i \in 1 .. Len(h) : h[i].id = t /\ i > Len(h) - LookBack}
  BY DEF Places
<1>2. ToolUse(h, t, input) = IF known # {} THEN [h EXCEPT ![m].input = @ \/ input] ELSE UseAppended(h, t, input)
  BY DEF ToolUse
<1>3. ASSUME known # {} PROVE m \in known
  <2>1. \E i \in known : \A j \in known : j <= i
    <3>1. known \in SUBSET (1 .. Len(h)) /\ Len(h) \in Nat
      BY <1>1, KeptIs
    <3> HIDE DEF known
    <3> QED BY <3>1, <1>3, Largest
  <2> QED BY <2>1
<1> HIDE DEF known, m
<1>4. ASSUME known # {} PROVE ToolUse(h, t, input) = [h EXCEPT ![m] = Upgraded(h[m], input)]
  BY <1>2, <1>4 DEF Upgraded
<1>5. known = {} => ToolUse(h, t, input) = UseAppended(h, t, input)
  BY <1>2
<1> QED BY <1>1, <1>3, <1>4, <1>5

\* A result goes to the last use of its id that has none.
LEMMA ToolResultIs ==
  ASSUME NEW h, Kept(h), NEW t \in Tool, NEW result \in {"ok", "failed"}
  PROVE  LET open == {i \in 1 .. Len(h) : h[i].id = t /\ h[i].result = "none"} IN
         /\ open = {} => ToolResult(h, t, result) = h
         /\ open # {} => \E i \in open : ToolResult(h, t, result) = [h EXCEPT ![i] = Finished(h[i], result)]
<1> DEFINE open == {i \in Places(h, t) : h[i].result = "none"}
           m == CHOOSE i \in open : \A j \in open : j <= i
<1>1. open = {i \in 1 .. Len(h) : h[i].id = t /\ h[i].result = "none"}
  BY DEF Places
<1>2. ToolResult(h, t, result) = IF open = {} THEN h ELSE [h EXCEPT ![m].result = result]
  BY DEF ToolResult
<1>3. ASSUME open # {} PROVE m \in open
  <2>1. \E i \in open : \A j \in open : j <= i
    <3>1. open \in SUBSET (1 .. Len(h)) /\ Len(h) \in Nat
      BY <1>1, KeptIs
    <3> HIDE DEF open
    <3> QED BY <3>1, <1>3, Largest
  <2> QED BY <2>1
<1> HIDE DEF open, m
<1>4. ASSUME open # {} PROVE ToolResult(h, t, result) = [h EXCEPT ![m] = Finished(h[m], result)]
  BY <1>2, <1>4 DEF Finished
<1>5. open = {} => ToolResult(h, t, result) = h
  BY <1>2
<1> QED BY <1>1, <1>3, <1>4, <1>5

\* What is told of a use leaves a history of uses.
LEMMA UseKeeps ==
  ASSUME NEW h, Kept(h), NEW t \in Tool, NEW input \in BOOLEAN PROVE Kept(ToolUse(h, t, input))
<1> DEFINE known == {i \in 1 .. Len(h) : h[i].id = t /\ i > Len(h) - LookBack}
<1>1. CASE known = {}
  <2>1. ToolUse(h, t, input) = UseAppended(h, t, input)
    BY <1>1, ToolUseIs
  <2>2. Kept(UseAppended(h, t, input))
    BY UseIsLast
  <2> QED BY <2>1, <2>2
<1>2. CASE known # {}
  <2>1. PICK i \in 1 .. Len(h) : ToolUse(h, t, input) = [h EXCEPT ![i] = Upgraded(h[i], input)]
    BY <1>2, ToolUseIs
  <2>2. Upgraded(h[i], input) \in Entry
    BY KeptIs, EntryIs
  <2>3. Kept([h EXCEPT ![i] = Upgraded(h[i], input)])
    BY <2>2, OneEntry
  <2> QED BY <2>1, <2>3
<1> QED BY <1>1, <1>2

\* A history stays one.
LEMMA ResultKeeps ==
  ASSUME NEW h, Kept(h), NEW t \in Tool, NEW result \in {"ok", "failed"} PROVE Kept(ToolResult(h, t, result))
<1> DEFINE open == {i \in 1 .. Len(h) : h[i].id = t /\ h[i].result = "none"}
<1>1. CASE open = {}
  BY <1>1, ToolResultIs
<1>2. CASE open # {}
  <2>1. PICK i \in 1 .. Len(h) : ToolResult(h, t, result) = [h EXCEPT ![i] = Finished(h[i], result)]
    BY <1>2, ToolResultIs
  <2>2. Finished(h[i], result) \in Entry
    BY KeptIs, EntryIs
  <2>3. Kept([h EXCEPT ![i] = Finished(h[i], result)])
    BY <2>2, OneEntry
  <2> QED BY <2>1, <2>3
<1> QED BY <1>1, <1>2

\* The recursion of InputsTold has a solution...
IsTold(g, h, a, n) ==
  g = [m \in 0 .. n |-> IF m = 0 THEN h ELSE ToolUse(g[m - 1], a[m], TRUE)]

\* The recursion of InputsTold has a solution...
LEMMA ToldExists ==
  ASSUME NEW h, NEW a
  PROVE  \A n \in Nat : \E g : IsTold(g, h, a, n)
<1> DEFINE P == {n \in Nat : \E g : IsTold(g, h, a, n)}
<1>1. 0 \in P
  <2> DEFINE g == [m \in 0 .. 0 |-> h]
  <2>1. IsTold(g, h, a, 0)
    BY DEF IsTold
  <2> QED BY <2>1
<1>2. ASSUME NEW n \in P PROVE n + 1 \in P
  <2>1. PICK g : IsTold(g, h, a, n)
    OBVIOUS
  <2>0. n \in Nat /\ g[0] = h /\ \A m \in 1 .. n : g[m] = ToolUse(g[m - 1], a[m], TRUE)
    <3>1. n \in Nat
      OBVIOUS
    <3>2. 0 \in 0 .. n /\ \A m \in 1 .. n : m \in 0 .. n /\ m # 0
      BY <3>1
    <3>3. g = [m \in 0 .. n |-> IF m = 0 THEN h ELSE ToolUse(g[m - 1], a[m], TRUE)]
      BY <2>1 DEF IsTold
    <3>4. g[0] = h
      BY <3>2, <3>3
    <3>5. \A m \in 1 .. n : g[m] = ToolUse(g[m - 1], a[m], TRUE)
      BY <3>2, <3>3
    <3> QED BY <3>1, <3>4, <3>5
  <2> HIDE DEF P
  <2> DEFINE f == [m \in 0 .. n + 1 |-> IF m = n + 1 THEN ToolUse(g[n], a[n + 1], TRUE) ELSE g[m]]
  <2>2. ASSUME NEW m \in 0 .. n + 1 PROVE f[m] = IF m = 0 THEN h ELSE ToolUse(f[m - 1], a[m], TRUE)
    <3>1. CASE m = 0
      <4>1. m # n + 1
        BY <2>0, <3>1
      <4>2. f[m] = g[m]
        BY <4>1
      <4> QED BY <2>0, <3>1, <4>2
    <3>2. CASE m = n + 1
      <4>1. m - 1 \in 0 .. n + 1 /\ m - 1 # n + 1 /\ m - 1 = n /\ m # 0
        BY <2>0, <3>2
      <4>2. f[m - 1] = g[n] /\ f[m] = ToolUse(g[n], a[m], TRUE)
        BY <3>2, <4>1
      <4> QED BY <4>1, <4>2
    <3>3. CASE m # 0 /\ m # n + 1
      <4>1. m \in 1 .. n /\ m \in 0 .. n /\ m - 1 \in 0 .. n + 1 /\ m - 1 # n + 1
        BY <2>0, <3>3
      <4>2. g[m] = ToolUse(g[m - 1], a[m], TRUE)
        BY <4>1, <2>0
      <4> QED BY <4>1, <4>2, <3>3
    <3> QED BY <3>1, <3>2, <3>3
  <2>3. f = [m \in 0 .. n + 1 |-> f[m]]
    OBVIOUS
  <2> HIDE DEF f
  <2>4. IsTold(f, h, a, n + 1)
    BY <2>2, <2>3 DEF IsTold
  <2> QED BY <2>0, <2>4 DEF P
<1>3. P \in SUBSET Nat
  OBVIOUS
<1>4. P = Nat
  <2> HIDE DEF P
  <2> QED BY <1>1, <1>2, <1>3, NatInd
<1> QED BY <1>4

\* ...which takes the blocks one after the other.
Told(g, h, a) ==
  /\ g[0] = h
  /\ \A n \in 0 .. Len(a) : Kept(g[n])
  /\ \A n \in 1 .. Len(a) : g[n] = ToolUse(g[n - 1], a[n], TRUE)

\* ...which goes from one use to the next.
LEMMA ToldSteps ==
  ASSUME NEW h, Kept(h), NEW a \in Seq(Tool)
  PROVE  \E g : InputsTold(h, a) = g[Len(a)] /\ Told(g, h, a)
<1> DEFINE k == Len(a)
           Is(g) == g = [n \in 0 .. k |-> IF n = 0 THEN h ELSE ToolUse(g[n - 1], a[n], TRUE)]
           K == CHOOSE g : Is(g)
<1>1. k \in Nat /\ \A n \in 1 .. k : a[n] \in Tool
  OBVIOUS
<1>2. \E g : Is(g)
  <2>1. PICK g : IsTold(g, h, a, k)
    BY <1>1, ToldExists
  <2> QED BY <2>1 DEF IsTold
<1>3. Is(K)
  BY <1>2
<1>4. InputsTold(h, a) = K[k]
  BY DEF InputsTold
<1>5. K = [n \in 0 .. k |-> IF n = 0 THEN h ELSE ToolUse(K[n - 1], a[n], TRUE)]
  BY <1>3
<1> HIDE DEF K, Is, k
<1>6. K[0] = h /\ \A n \in 1 .. k : K[n] = ToolUse(K[n - 1], a[n], TRUE)
  <2>1. 0 \in 0 .. k /\ \A n \in 1 .. k : n \in 0 .. k /\ n # 0
    BY <1>1
  <2> QED BY <2>1, <1>5
<1> DEFINE P == {n \in Nat : n <= k => Kept(K[n])}
<1>7. 0 \in P
  BY <1>6
<1>8. ASSUME NEW n \in P PROVE n + 1 \in P
  <2>1. n \in Nat
    OBVIOUS
  <2>2. SUFFICES ASSUME n + 1 <= k PROVE Kept(K[n + 1])
    BY <2>1
  <2>3. n + 1 \in 1 .. k /\ (n + 1) - 1 = n
    BY <2>1, <2>2, <1>1
  <2>4. Kept(K[n])
    BY <2>1, <2>2, <1>1
  <2>5. K[n + 1] = ToolUse(K[n], a[n + 1], TRUE) /\ a[n + 1] \in Tool
    BY <2>3, <1>1, <1>6
  <2> QED BY <2>4, <2>5, UseKeeps
<1>9. P \in SUBSET Nat
  OBVIOUS
<1> HIDE DEF P
<1>10. P = Nat
  BY <1>7, <1>8, <1>9, NatInd
<1>11. \A n \in 0 .. k : Kept(K[n])
  <2> TAKE n \in 0 .. k
  <2>1. n \in P
    BY <1>10
  <2> QED BY <2>1 DEF P
<1> QED BY <1>4, <1>6, <1>11 DEF k, Told

\* The uses of the message under way are the last of the history, as many as are kept.
TailIs(h, a) ==
  LET c == IF Len(a) <= HistoryMax THEN Len(a) ELSE HistoryMax IN
  /\ c <= Len(h)
  /\ \A i \in 1 .. c : h[Len(h) - c + i].id = a[Len(a) - c + i]

EachOnce(h) == \A i, j \in 1 .. Len(h) : h[i].id = h[j].id => i = j

\* What becomes of the entries: those of the message are completed where they are...
InPlace(u, h, a) ==
  /\ Len(u) = Len(h)
  /\ \A i \in 1 .. Len(h) : u[i] = IF i > Len(h) - Len(a) THEN Upgraded(h[i], TRUE) ELSE h[i]

\* ...or all are written again.
Again(u, h, a) ==
  /\ Len(h) = HistoryMax /\ Len(u) = Len(h)
  /\ \A i \in 1 .. Len(h) :
       /\ Len(a) - HistoryMax + i \in 1 .. Len(a)
       /\ h[i].id = a[Len(a) - HistoryMax + i]
       /\ u[i] = [id |-> a[Len(a) - HistoryMax + i], input |-> TRUE, result |-> "none"]

\* The uses of the message are all in what is looked back at: each is completed in its place.
LEMMA ToldInPlace ==
  ASSUME NEW h, Kept(h), EachOnce(h), NEW a \in Seq(Tool), TailIs(h, a),
         Len(a) <= LookBack, Len(a) <= HistoryMax,
         NEW g, Told(g, h, a)
  PROVE  InPlace(g[Len(a)], h, a)
<1> USE OutputAssumption
<1> DEFINE k == Len(a)
           L == Len(h)
           Done(n) == /\ Len(g[n]) = L
                      /\ \A i \in 1 .. L : g[n][i] = IF i > L - k /\ i <= L - k + n THEN Upgraded(h[i], TRUE) ELSE h[i]
           P == {n \in Nat : n <= k => Done(n)}
<1>1. k \in Nat /\ L \in Nat /\ k <= L /\ L <= HistoryMax /\ \A n \in 1 .. k : a[n] \in Tool
  BY KeptIs DEF TailIs
<1>2. \A i \in 1 .. k : L - k + i \in 1 .. L /\ h[L - k + i].id = a[i]
  <2>1. \A i \in 1 .. k : h[L - k + i].id = a[k - k + i]
    BY <1>1 DEF TailIs
  <2> QED BY <1>1, <2>1
<1>3. \A i \in 1 .. L : h[i] \in Entry /\ Upgraded(h[i], TRUE).id = h[i].id
  BY KeptIs, EntryIs
<1>g. /\ g[0] = h
      /\ \A n \in 0 .. k : Kept(g[n])
      /\ \A n \in 1 .. k : g[n] = ToolUse(g[n - 1], a[n], TRUE)
  BY DEF Told
<1> HIDE DEF k, L
<1>4. 0 \in P
  <2>1. g[0] = h /\ Len(h) = L
    BY <1>g DEF L
  <2>2. \A i \in 1 .. L : ~(i > L - k /\ i <= L - k + 0)
    BY <1>1
  <2> QED BY <2>1, <2>2
<1>5. ASSUME NEW n \in P PROVE n + 1 \in P
  <2>1. n \in Nat
    OBVIOUS
  <2> HIDE DEF Done
  <2>2. SUFFICES ASSUME n + 1 <= k PROVE Done(n + 1)
    BY <2>1
  <2>3. n + 1 \in 1 .. k /\ (n + 1) - 1 = n /\ n <= k /\ n \in 0 .. k
    BY <1>1, <2>1, <2>2
  <2>a. Done(n)
    BY <2>3
  <2>b. Kept(g[n]) /\ a[n + 1] \in Tool /\ g[n + 1] = ToolUse(g[n], a[n + 1], TRUE)
    BY <1>1, <1>g, <2>1, <2>3 DEF k
  <2> HIDE DEF P
  <2> USE DEF Done
  <2>4. Done(n) /\ Kept(g[n]) /\ a[n + 1] \in Tool /\ g[n + 1] = ToolUse(g[n], a[n + 1], TRUE)
    BY <2>a, <2>b
  <2> DEFINE p == L - k + (n + 1)
             known == {i \in 1 .. Len(g[n]) : g[n][i].id = a[n + 1] /\ i > Len(g[n]) - LookBack}
  <2>5. p \in 1 .. L /\ h[p].id = a[n + 1] /\ p > L - LookBack
    <3>1. k <= LookBack
      BY DEF k
    <3>2. p \in 1 .. L /\ h[p].id = a[n + 1]
      BY <1>2, <2>3
    <3>3. p > L - LookBack
      BY <1>1, <2>1, <3>1
    <3> QED BY <3>2, <3>3
  <2>6. \A i \in 1 .. L : g[n][i].id = h[i].id
    BY <1>3, <2>4
  <2>7. known = {p}
    <3>1. p \in known
      BY <2>4, <2>5, <2>6
    <3>2. ASSUME NEW i \in known PROVE i = p
      <4>1. i \in 1 .. L /\ h[i].id = h[p].id
        BY <2>4, <2>5, <2>6
      <4> QED BY <2>5, <4>1 DEF EachOnce, L
    <3> QED BY <3>1, <3>2
  <2>8. g[n + 1] = [g[n] EXCEPT ![p] = Upgraded(g[n][p], TRUE)]
    <3> DEFINE f == g[n]
               t == a[n + 1]
    <3>0. Kept(f) /\ t \in Tool /\ TRUE \in BOOLEAN
      BY <2>b
    <3> HIDE DEF Done, f, t, p
    <3>a. LET o == {i \in 1 .. Len(f) : f[i].id = t /\ i > Len(f) - LookBack}
          IN  o # {} => \E i \in o : ToolUse(f, t, TRUE) = [f EXCEPT ![i] = Upgraded(f[i], TRUE)]
      BY <3>0, ToolUseIs
    <3>1. known # {} => \E i \in known : ToolUse(g[n], a[n + 1], TRUE) = [g[n] EXCEPT ![i] = Upgraded(g[n][i], TRUE)]
      BY <3>a DEF f, t
    <3> HIDE DEF known
    <3> QED BY <2>b, <2>7, <3>1
  <2>9. g[n][p] = h[p] /\ p \in 1 .. Len(g[n])
    <3>1. ~(p <= L - k + n)
      BY <1>1, <2>1
    <3> QED BY <2>4, <2>5, <3>1
  <2>10. Upgraded(h[p], TRUE) \in Entry
    BY <1>3, <2>5, EntryIs
  <2>11. g[n + 1] = [g[n] EXCEPT ![p] = Upgraded(h[p], TRUE)]
    BY <2>8, <2>9
  <2> HIDE DEF p, known
  <2>12. /\ Len(g[n + 1]) = Len(g[n]) /\ g[n + 1][p] = Upgraded(h[p], TRUE)
         /\ \A j \in 1 .. Len(g[n]) : j # p => g[n + 1][j] = g[n][j]
    <3> DEFINE f == g[n]
               u == g[n + 1]
               e == Upgraded(h[p], TRUE)
    <3>1. Kept(f) /\ p \in 1 .. Len(f) /\ e \in Entry /\ u = [f EXCEPT ![p] = e]
      BY <2>b, <2>9, <2>10, <2>11
    <3> HIDE DEF Done, f, u, e
    <3>2. Len(u) = Len(f) /\ u[p] = e /\ \A j \in 1 .. Len(f) : j # p => u[j] = f[j]
      BY <3>1, OneEntry
    <3> QED BY <3>2 DEF f, u, e
  <2>13. ASSUME NEW i \in 1 .. L
         PROVE  g[n + 1][i] = IF i > L - k /\ i <= L - k + (n + 1) THEN Upgraded(h[i], TRUE) ELSE h[i]
    <3>1. CASE i = p
      <4>1. i > L - k /\ i <= L - k + (n + 1)
        BY <3>1, <1>1, <2>1 DEF p
      <4> QED BY <3>1, <4>1, <2>12
    <3>2. CASE i # p
      <4>1. (i > L - k /\ i <= L - k + (n + 1)) <=> (i > L - k /\ i <= L - k + n)
        BY <3>2, <1>1, <2>1 DEF p
      <4> QED BY <3>2, <4>1, <2>4, <2>12
    <3> QED BY <3>1, <3>2
  <2> QED BY <2>4, <2>12, <2>13
<1>6. P \in SUBSET Nat
  OBVIOUS
<1>7. P = Nat
  <2> HIDE DEF P
  <2> QED BY <1>4, <1>5, <1>6, NatInd
<1>8. Done(k)
  <2> HIDE DEF Done
  <2>1. k \in P /\ k <= k
    BY <1>1, <1>7
  <2> QED BY <2>1
<1>9. \A i \in 1 .. L : (i > L - k /\ i <= L - k + k) <=> i > L - k
  BY <1>1
<1> QED BY <1>8, <1>9 DEF k, L, InPlace

\* The message has more uses than the history keeps: each is added again, and pushes its
\* first report out.
LEMMA ToldAgain ==
  ASSUME NEW h, Kept(h), NEW a \in Seq(Tool), TailIs(h, a), Len(a) > HistoryMax,
         \A i, j \in 1 .. Len(a) : a[i] = a[j] => i = j,
         NEW g, Told(g, h, a)
  PROVE  Again(g[Len(a)], h, a)
<1> USE OutputAssumption
<1> DEFINE k == Len(a)
           M == HistoryMax
           New(i) == [id |-> a[i], input |-> TRUE, result |-> "none"]
           Done(n) == /\ Len(g[n]) = M
                      /\ \A i \in 1 .. M : g[n][i] = IF n - M + i >= 1 THEN New(n - M + i) ELSE h[n + i]
           P == {n \in Nat : n <= k => Done(n)}
<1>1. k \in Nat /\ k > M /\ M \in Nat /\ M >= 1 /\ Len(h) = M /\ \A n \in 1 .. k : a[n] \in Tool
  <2>1. Len(h) \in Nat /\ Len(h) <= M /\ M <= Len(h)
    BY KeptIs DEF TailIs
  <2> QED BY <2>1
<1>2. \A i \in 1 .. M : k - M + i \in 1 .. k /\ h[i].id = a[k - M + i]
  <2>1. \A i \in 1 .. M : h[Len(h) - M + i].id = a[k - M + i]
    <3>1. ~(Len(a) <= HistoryMax)
      BY <1>1
    <3> QED BY <3>1 DEF TailIs
  <2>2. \A i \in 1 .. M : M - M + i = i /\ k - M + i \in 1 .. k
    BY <1>1
  <2> QED BY <1>1, <2>1, <2>2
<1>3. \A i, j \in 1 .. k : a[i] = a[j] => i = j
  OBVIOUS
<1>g. /\ g[0] = h
      /\ \A n \in 0 .. k : Kept(g[n])
      /\ \A n \in 1 .. k : g[n] = ToolUse(g[n - 1], a[n], TRUE)
  BY DEF Told
<1> HIDE DEF k, New
<1>4. 0 \in P
  <2>1. \A i \in 1 .. M : ~(0 - M + i >= 1) /\ 0 + i = i
    OBVIOUS
  <2> QED BY <1>1, <1>g, <2>1
<1>5. ASSUME NEW n \in P PROVE n + 1 \in P
  <2>1. n \in Nat
    OBVIOUS
  <2>2. SUFFICES ASSUME n + 1 <= k PROVE Done(n + 1)
    BY <2>1
  <2>3. n + 1 \in 1 .. k /\ (n + 1) - 1 = n /\ n <= k /\ n \in 0 .. k
    BY <1>1, <2>1, <2>2
  <2>4. Done(n) /\ Kept(g[n]) /\ a[n + 1] \in Tool /\ g[n + 1] = ToolUse(g[n], a[n + 1], TRUE)
    BY <1>1, <1>g, <2>1, <2>3
  <2>5. ASSUME NEW i \in 1 .. M PROVE g[n][i].id # a[n + 1]
    <3>1. CASE n - M + i >= 1
      <4>1. n - M + i \in 1 .. k /\ n - M + i # n + 1
        BY <1>1, <2>1, <2>3, <3>1
      <4>2. g[n][i].id = a[n - M + i]
        <5>1. g[n][i] = New(n - M + i)
          BY <2>4, <3>1
        <5>2. New(n - M + i).id = a[n - M + i]
          BY DEF New
        <5> QED BY <5>1, <5>2
      <4> QED BY <4>1, <4>2, <1>3, <2>3
    <3>2. CASE ~(n - M + i >= 1)
      <4>1. n + i \in 1 .. M /\ k - M + (n + i) \in 1 .. k /\ k - M + (n + i) # n + 1
        BY <1>1, <2>1, <3>2
      <4>2. g[n][i].id = a[k - M + (n + i)]
        BY <1>2, <2>4, <3>2, <4>1
      <4> QED BY <4>1, <4>2, <1>3, <2>3
    <3> QED BY <3>1, <3>2
  <2>6. g[n + 1] = UseAppended(g[n], a[n + 1], TRUE)
    <3> DEFINE known == {i \in 1 .. Len(g[n]) : g[n][i].id = a[n + 1] /\ i > Len(g[n]) - LookBack}
    <3>1. known = {}
      BY <2>4, <2>5
    <3>2. known = {} => ToolUse(g[n], a[n + 1], TRUE) = UseAppended(g[n], a[n + 1], TRUE)
      BY <2>4, ToolUseIs
    <3> HIDE DEF known
    <3> QED BY <2>4, <3>1, <3>2
  <2> DEFINE u == g[n + 1]
             l == Len(g[n])
  <2>7. /\ Len(u) = IF l < M THEN l + 1 ELSE M
        /\ u[Len(u)] = [id |-> a[n + 1], input |-> TRUE, result |-> "none"]
        /\ \A i \in 1 .. Len(u) - 1 : u[i] = g[n][(l + 1) - Len(u) + i]
    <3> DEFINE f == g[n]
               t == a[n + 1]
    <3> DEFINE known == TRUE
    <3>1. Kept(f) /\ t \in Tool /\ known \in BOOLEAN /\ u = UseAppended(f, t, known)
      BY <2>4, <2>6
    <3> HIDE DEF f, t, u, Done, P, known
    <3>2. /\ Len(u) = IF Len(f) < HistoryMax THEN Len(f) + 1 ELSE HistoryMax
          /\ u[Len(u)] = [id |-> t, input |-> known, result |-> "none"]
          /\ \A i \in 1 .. Len(u) - 1 : u[i] = f[(Len(f) + 1) - Len(u) + i]
      BY <3>1, UseIsLast
    <3> QED BY <3>2 DEF f, t, known
  <2>8. l = M
    BY <2>4
  <2> HIDE DEF l
  <2>9. Len(u) = M /\ u[M] = New(n + 1) /\ \A i \in 1 .. M - 1 : u[i] = g[n][i + 1]
    <3>1. Len(u) = M
      BY <1>1, <2>7, <2>8
    <3>2. u[M] = New(n + 1)
      BY <2>7, <3>1 DEF New
    <3>3. ASSUME NEW i \in 1 .. M - 1 PROVE u[i] = g[n][i + 1]
      <4>1. (l + 1) - Len(u) + i = i + 1 /\ i \in 1 .. Len(u) - 1
        BY <1>1, <2>8, <3>1
      <4> QED BY <2>7, <4>1
    <3> QED BY <3>1, <3>2, <3>3
  <2> HIDE DEF u
  <2>10. ASSUME NEW i \in 1 .. M
         PROVE  u[i] = IF (n + 1) - M + i >= 1 THEN New((n + 1) - M + i) ELSE h[(n + 1) + i]
    <3>1. CASE i = M
      <4>1. (n + 1) - M + i = n + 1 /\ n + 1 >= 1
        BY <1>1, <2>1, <3>1
      <4> QED BY <3>1, <4>1, <2>9
    <3>2. CASE i # M
      <4>a. i \in 1 .. M - 1 /\ i + 1 \in 1 .. M
        BY <1>1, <3>2
      <4>b. n - M + (i + 1) = (n + 1) - M + i /\ n + (i + 1) = (n + 1) + i
        BY <1>1, <2>1
      <4>1. i \in 1 .. M - 1 /\ i + 1 \in 1 .. M /\ n - M + (i + 1) = (n + 1) - M + i /\ n + (i + 1) = (n + 1) + i
        BY <4>a, <4>b
      <4>2. u[i] = g[n][i + 1]
        BY <2>9, <4>1
      <4>3. g[n][i + 1] = IF n - M + (i + 1) >= 1 THEN New(n - M + (i + 1)) ELSE h[n + (i + 1)]
        BY <2>4, <4>1
      <4> QED BY <4>1, <4>2, <4>3
    <3> QED BY <3>1, <3>2
  <2> QED BY <2>9, <2>10 DEF u
<1>6. P \in SUBSET Nat
  OBVIOUS
<1>7. P = Nat
  <2> HIDE DEF P
  <2> QED BY <1>4, <1>5, <1>6, NatInd
<1>8. Done(k)
  <2> HIDE DEF Done
  <2>1. k \in P /\ k <= k
    BY <1>1, <1>7
  <2> QED BY <2>1
<1>9. \A i \in 1 .. M : k - M + i >= 1
  BY <1>1
<1>10. Len(g[k]) = M /\ \A i \in 1 .. M : g[k][i] = New(k - M + i)
  BY <1>8, <1>9
<1> QED BY <1>1, <1>2, <1>10 DEF k, New, Again

\* So the whole message gives the uses it asks for their input, and changes nothing else.
LEMMA WholeIsTold ==
  ASSUME NEW h, Kept(h), EachOnce(h), NEW a \in Seq(Tool), TailIs(h, a), Len(a) <= LookBack,
         \A i, j \in 1 .. Len(a) : a[i] = a[j] => i = j,
         \A i \in 1 .. Len(h) : h[i].id \in Range(a) => h[i].result = "none"
  PROVE  LET u == InputsTold(h, a) IN
         /\ Len(u) = Len(h)
         /\ \A i \in 1 .. Len(h) :
              /\ u[i].id = h[i].id /\ u[i].result = h[i].result
              /\ u[i].input = (h[i].input \/ h[i].id \in Range(a))
<1> USE OutputAssumption
<1>1. PICK g : InputsTold(h, a) = g[Len(a)] /\ Told(g, h, a)
  BY ToldSteps, Zenon
<1> DEFINE u == InputsTold(h, a)
           k == Len(a)
           L == Len(h)
<1>2. k \in Nat /\ L \in Nat /\ L <= HistoryMax /\ Range(a) = {a[i] : i \in 1 .. k}
  BY KeptIs DEF Range
<1>3. \A i \in 1 .. L : h[i] \in Entry /\ h[i].input \in BOOLEAN
  BY KeptIs, EntryIs
<1>4. CASE k <= HistoryMax
  <2>1. Len(u) = L /\ \A i \in 1 .. L : u[i] = IF i > L - k THEN Upgraded(h[i], TRUE) ELSE h[i]
    <3>1. InPlace(g[Len(a)], h, a)
      BY <1>1, <1>4, ToldInPlace, Zenon
    <3> QED BY <1>1, <3>1 DEF InPlace
  <2>2. k <= L /\ \A i \in 1 .. k : h[L - k + i].id = a[i]
    <3>1. k <= L /\ \A i \in 1 .. k : h[L - k + i].id = a[k - k + i]
      BY <1>4 DEF TailIs
    <3> QED BY <1>2, <3>1
  <2> HIDE DEF u, k, L
  <2>3. ASSUME NEW i \in 1 .. L
        PROVE  u[i].id = h[i].id /\ u[i].result = h[i].result /\ u[i].input = (h[i].input \/ h[i].id \in Range(a))
    <3>1. CASE i > L - k
      <4>1. i - (L - k) \in 1 .. k /\ L - k + (i - (L - k)) = i
        BY <1>2, <2>2, <3>1
      <4>2. h[i].id \in Range(a)
        <5>1. h[L - k + (i - (L - k))].id = a[i - (L - k)]
          BY <2>2, <4>1
        <5>2. h[i].id = a[i - (L - k)]
          BY <4>1, <5>1
        <5>3. a[i - (L - k)] \in Range(a)
          BY <1>2, <4>1
        <5> QED BY <5>2, <5>3
      <4>3. u[i] = Upgraded(h[i], TRUE)
        BY <2>1, <3>1
      <4> DEFINE e == h[i]
      <4>4. e \in Entry /\ TRUE \in BOOLEAN
        BY <1>3
      <4> HIDE DEF e
      <4>5. Upgraded(e, TRUE).id = e.id /\ Upgraded(e, TRUE).result = e.result /\ Upgraded(e, TRUE).input = (e.input \/ TRUE)
        BY <4>4, EntryIs
      <4>6. u[i] = Upgraded(e, TRUE)
        BY <4>3 DEF e
      <4>7. u[i].id = e.id /\ u[i].result = e.result /\ u[i].input = TRUE
        BY <4>5, <4>6
      <4>8. (h[i].input \/ h[i].id \in Range(a)) = TRUE
        BY <4>2
      <4>9. u[i].id = h[i].id /\ u[i].result = h[i].result /\ u[i].input = TRUE
        BY <4>7 DEF e
      <4> QED BY <4>8, <4>9
    <3>2. CASE ~(i > L - k)
      <4>1. h[i].id \notin Range(a)
        <5> SUFFICES ASSUME NEW j \in 1 .. k, h[i].id = a[j] PROVE FALSE
          BY <1>2
        <5>1. L - k + j \in 1 .. L /\ i # L - k + j /\ h[L - k + j].id = h[i].id
          BY <1>2, <2>2, <3>2
        <5> QED BY <5>1 DEF EachOnce, L
      <4>2. u[i] = h[i]
        BY <2>1, <3>2
      <4> QED BY <1>3, <4>1, <4>2
    <3> QED BY <3>1, <3>2
  <2> QED BY <2>1, <2>3 DEF u, L
<1>5. CASE k > HistoryMax
  <2>1. /\ Len(u) = L /\ L = HistoryMax
        /\ \A i \in 1 .. L :
             /\ k - HistoryMax + i \in 1 .. k
             /\ h[i].id = a[k - HistoryMax + i]
             /\ u[i] = [id |-> a[k - HistoryMax + i], input |-> TRUE, result |-> "none"]
    <3>1. Again(g[Len(a)], h, a)
      BY <1>1, <1>5, ToldAgain, Zenon
    <3> QED BY <1>1, <3>1 DEF Again
  <2> HIDE DEF u, k
  <2>2. ASSUME NEW i \in 1 .. L
        PROVE  u[i].id = h[i].id /\ u[i].result = h[i].result /\ u[i].input = (h[i].input \/ h[i].id \in Range(a))
    <3>1. h[i].id \in Range(a)
      <4>1. a[k - HistoryMax + i] \in Range(a)
        BY <1>2, <2>1
      <4> QED BY <2>1, <4>1
    <3>2. h[i].result = "none"
      BY <3>1
    <3>3. u[i].id = h[i].id /\ u[i].result = "none" /\ u[i].input = TRUE
      BY <2>1
    <3>4. (h[i].input \/ h[i].id \in Range(a)) = TRUE
      BY <3>1
    <3> QED BY <3>2, <3>3, <3>4
  <2> QED BY <2>1, <2>2 DEF u
<1> QED BY <1>2, <1>4, <1>5

\* The invariant of the output: what was said is in order, and every use is counted once.
Seen(tools) == {t \in Tool : tools[t] # "new"}
Good(tools) == {t \in Tool : tools[t] = "ok"}

OutInv ==
  /\ OutputTypeOK
  /\ outAsks \in Seq(Tool)
  /\ Numbered(outText, outPieces) /\ Numbered(outAnswer, outPieces)
  /\ outUsed <= Cardinality(Seen(outTool)) /\ outOk <= Cardinality(Good(outTool))
  /\ ~outWhole => \A t \in Range(outAsks) : outTool[t] = "asked"
  /\ ~outWhole /\ outUsed = 0 => outAsks = <<>>
  /\ outProcess = "answered" /\ outWhole /\ outText # <<>> /\ outAsks = <<>> => outAnswer # <<>>

\* Sets of uses are finite, and counted one by one.
LEMMA SetsOfTools ==
  /\ Cardinality(Tool) \in Nat
  /\ \A S \in SUBSET Tool : Cardinality(S) \in Nat /\ Cardinality(S) <= Cardinality(Tool)
  /\ \A S, T \in SUBSET Tool : S \subseteq T => Cardinality(S) <= Cardinality(T)
  /\ \A S \in SUBSET Tool : \A t \in Tool : t \notin S => Cardinality(S \cup {t}) = Cardinality(S) + 1
<1>1. IsFiniteSet(Tool)
  BY OutputAssumption
<1>2. \A S \in SUBSET Tool : IsFiniteSet(S)
  BY <1>1, FS_Subset
<1>3. Cardinality(Tool) \in Nat /\ \A S \in SUBSET Tool : Cardinality(S) \in Nat
  BY <1>1, <1>2, FS_CardinalityType
<1>4. \A S, T \in SUBSET Tool : S \subseteq T => Cardinality(S) <= Cardinality(T)
  BY <1>2, FS_Subset
<1>5. \A S \in SUBSET Tool : Cardinality(S) <= Cardinality(Tool)
  BY <1>1, FS_Subset
<1>6. \A S \in SUBSET Tool : \A t \in Tool : t \notin S => Cardinality(S \cup {t}) = Cardinality(S) + 1
  BY <1>2, FS_AddElement
<1> QED BY <1>3, <1>4, <1>5, <1>6

\* A use that goes on.
GoesTo(tools, t, to) == [tools EXCEPT ![t] = to]

\* What that does to the counts.
LEMMA UseGoesOn ==
  ASSUME NEW tools \in [Tool -> {"new", "asked", "known", "ok", "failed"}], NEW t \in Tool,
         NEW to \in {"asked", "known", "ok", "failed"}
  PROVE  /\ GoesTo(tools, t, to) \in [Tool -> {"new", "asked", "known", "ok", "failed"}]
         /\ GoesTo(tools, t, to)[t] = to /\ \A x \in Tool : x # t => GoesTo(tools, t, to)[x] = tools[x]
         /\ Cardinality(Seen(tools)) <= Cardinality(Seen(GoesTo(tools, t, to)))
         /\ tools[t] = "new" => Cardinality(Seen(GoesTo(tools, t, to))) = Cardinality(Seen(tools)) + 1
         /\ tools[t] # "ok" => Cardinality(Good(tools)) <= Cardinality(Good(GoesTo(tools, t, to)))
         /\ tools[t] # "ok" /\ to = "ok" => Cardinality(Good(GoesTo(tools, t, to))) = Cardinality(Good(tools)) + 1
<1> DEFINE new == GoesTo(tools, t, to)
<1>1. /\ new \in [Tool -> {"new", "asked", "known", "ok", "failed"}]
      /\ new[t] = to /\ \A x \in Tool : x # t => new[x] = tools[x]
  BY DEF GoesTo
<1> HIDE DEF new
<1>2. Seen(tools) \in SUBSET Tool /\ Seen(new) = Seen(tools) \cup {t} /\ Good(tools) \in SUBSET Tool
      /\ Good(new) \in SUBSET Tool
  BY <1>1 DEF Seen, Good
<1>3. Cardinality(Seen(tools)) <= Cardinality(Seen(new))
  <2>1. Seen(new) \in SUBSET Tool /\ Seen(tools) \subseteq Seen(new)
    BY <1>2
  <2> QED BY <1>2, <2>1, SetsOfTools
<1>4. tools[t] = "new" => Cardinality(Seen(new)) = Cardinality(Seen(tools)) + 1
  <2>1. tools[t] = "new" => t \notin Seen(tools)
    BY DEF Seen
  <2> QED BY <1>2, <2>1, SetsOfTools
<1>5. tools[t] # "ok" => Cardinality(Good(tools)) <= Cardinality(Good(new))
  <2>1. tools[t] # "ok" => Good(tools) \subseteq Good(new)
    BY <1>1 DEF Good
  <2> QED BY <1>2, <2>1, SetsOfTools
<1>6. tools[t] # "ok" /\ to = "ok" => Cardinality(Good(new)) = Cardinality(Good(tools)) + 1
  <2>1. tools[t] # "ok" /\ to = "ok" => t \notin Good(tools) /\ Good(new) = Good(tools) \cup {t}
    BY <1>1 DEF Good
  <2> QED BY <1>2, <2>1, SetsOfTools
<1> QED BY <1>1, <1>3, <1>4, <1>5, <1>6 DEF new

\* A use more is asked for.
LEMMA AskedNext ==
  ASSUME NEW a \in Seq(Tool), NEW t \in Tool
  PROVE  /\ Append(a, t) \in Seq(Tool) /\ Len(a) \in Nat /\ Len(Append(a, t)) = Len(a) + 1
         /\ Append(a, t)[Len(a) + 1] = t /\ \A i \in 1 .. Len(a) : Append(a, t)[i] = a[i]
         /\ Range(Append(a, t)) = Range(a) \cup {t} /\ Range(a) \in SUBSET Tool
         /\ Append(a, t) # <<>>
<1> DEFINE b == Append(a, t)
           n == Len(a)
<1>1. /\ b \in Seq(Tool) /\ n \in Nat /\ Len(b) = n + 1 /\ b[n + 1] = t /\ \A i \in 1 .. n : b[i] = a[i]
      /\ DOMAIN a = 1 .. n /\ DOMAIN b = 1 .. n + 1 /\ b # <<>>
  OBVIOUS
<1>2. \A i \in 1 .. n : a[i] \in Tool
  OBVIOUS
<1> HIDE DEF b, n
<1>3. Range(b) = Range(a) \cup {t}
  <2>1. ASSUME NEW i \in 1 .. n + 1 PROVE b[i] \in Range(a) \cup {t}
    <3>1. CASE i = n + 1
      BY <1>1, <3>1
    <3>2. CASE i # n + 1
      <4>1. i \in 1 .. n
        BY <1>1, <3>2
      <4> QED BY <1>1, <4>1 DEF Range
    <3> QED BY <3>1, <3>2
  <2>2. ASSUME NEW i \in 1 .. n PROVE a[i] \in Range(b)
    <3>1. i \in DOMAIN b /\ b[i] = a[i]
      BY <1>1
    <3> QED BY <3>1 DEF Range
  <2>3. n + 1 \in DOMAIN b
    BY <1>1
  <2>4. t \in Range(b)
    BY <1>1, <2>3 DEF Range
  <2> QED BY <1>1, <2>1, <2>2, <2>4 DEF Range
<1>4. Range(a) \in SUBSET Tool
  BY <1>1, <1>2 DEF Range
<1> QED BY <1>1, <1>3, <1>4 DEF b, n

\* Every step keeps the invariant.
LEMMA OutTyped == OutInv /\ [OutputNext]_outVars => OutInv'
<1> SUFFICES ASSUME OutInv, [OutputNext]_outVars PROVE OutInv'
  OBVIOUS
<1> USE OutputAssumption
<1> DEFINE C == Cardinality(Tool)
           States == {"new", "asked", "known", "ok", "failed"}
<1>0. /\ outRuns \in 0 .. MaxRuns /\ outPieces \in 0 .. MaxPieces /\ outWhole \in BOOLEAN
      /\ outTool \in [Tool -> States] /\ outUsed \in 0 .. C /\ outOk \in 0 .. C /\ Kept(outHistory)
      /\ outAsks \in Seq(Tool)
      /\ C \in Nat /\ Cardinality(Seen(outTool)) \in Nat /\ Cardinality(Good(outTool)) \in Nat
  <2>1. Seen(outTool) \in SUBSET Tool /\ Good(outTool) \in SUBSET Tool
    BY DEF Seen, Good
  <2> QED BY <2>1, SetsOfTools DEF OutInv, OutputTypeOK, Kept
<1> HIDE DEF C
<1>e. \A n \in Nat : Numbered(<<>>, n)
  BY DEF Numbered
<1>r. Range(<<>>) = {} /\ <<>> \in Seq(Tool)
  BY DEF Range
<1>1. CASE StartRun
  <2>1. /\ outProcess' = "running" /\ outRuns' \in 0 .. MaxRuns /\ outPieces' = 0 /\ outText' = <<>>
        /\ outAsks' = <<>> /\ outWhole' = FALSE /\ outAnswer' = <<>> /\ outUsed' = 0 /\ outOk' = 0
        /\ outTimer' = "off" /\ outSignal' = "none" /\ outTool' = outTool /\ outHistory' = outHistory
    BY <1>0, <1>1 DEF StartRun
  <2>2. OutputTypeOK'
    <3>1. Cardinality(Tool) \in Nat
      BY SetsOfTools
    <3>2. 0 \in 0 .. Cardinality(Tool) /\ 0 \in 0 .. MaxPieces /\ FALSE \in BOOLEAN
      BY <3>1
    <3> QED BY <2>1, <3>2 DEF OutInv, OutputTypeOK
  <2> QED BY <1>0, <1>e, <1>r, <2>1, <2>2 DEF OutInv
<1>2. CASE TextDelta
  <2>1. /\ outProcess = "running" /\ outPieces < MaxPieces /\ outPieces' = outPieces + 1
        /\ outText' = Append(outText, outPieces + 1) /\ outAnswer' = Append(outAnswer, outPieces + 1)
        /\ UNCHANGED <<outProcess, outRuns, outAsks, outWhole, outTool, outUsed, outOk, outHistory, outTimer, outSignal>>
    BY <1>2 DEF TextDelta, outZombie
  <2>2. OutputTypeOK'
    BY <1>0, <2>1 DEF OutInv, OutputTypeOK
  <2>3. Numbered(outText', outPieces') /\ Numbered(outAnswer', outPieces')
    BY <1>0, <2>1, NextIsNumbered DEF OutInv
  <2> QED BY <2>1, <2>2, <2>3 DEF OutInv
<1>3. CASE TextUnstreamed
  <2>1. /\ outProcess = "running" /\ outPieces < MaxPieces /\ outPieces' = outPieces + 1
        /\ outText' = <<outPieces + 1>> /\ outWhole' = TRUE
        /\ UNCHANGED <<outProcess, outRuns, outAsks, outAnswer, outTool, outUsed, outOk, outHistory, outTimer, outSignal>>
    BY <1>3 DEF TextUnstreamed, outZombie
  <2>2. OutputTypeOK'
    BY <1>0, <2>1 DEF OutInv, OutputTypeOK
  <2>3. Numbered(outText', outPieces')
    BY <1>0, <2>1 DEF Numbered
  <2>4. Numbered(outAnswer', outPieces')
    <3>1. \A i \in 1 .. Len(outAnswer) : outAnswer[i] \in Nat
      BY DEF OutInv, Numbered
    <3> QED BY <1>0, <2>1, <3>1 DEF OutInv, Numbered
  <2> QED BY <2>1, <2>2, <2>3, <2>4 DEF OutInv
<1>4. ASSUME NEW t \in Tool, ToolStarts(t) PROVE OutInv'
  <2>1. /\ outProcess = "running" /\ ~outWhole /\ outTool[t] = "new"
        /\ outTool' = [outTool EXCEPT ![t] = "asked"] /\ outAsks' = Append(outAsks, t)
        /\ outUsed' = outUsed + 1 /\ outHistory' = ToolUse(outHistory, t, FALSE)
        /\ UNCHANGED <<outProcess, outRuns, outPieces, outText, outWhole, outAnswer, outOk, outTimer, outSignal>>
    BY <1>4 DEF ToolStarts, outZombie
  <2>2. /\ outTool' \in [Tool -> States] /\ outTool'[t] = "asked" /\ \A x \in Tool : x # t => outTool'[x] = outTool[x]
        /\ Cardinality(Seen(outTool')) = Cardinality(Seen(outTool)) + 1
        /\ Cardinality(Good(outTool)) <= Cardinality(Good(outTool'))
    <3>1. outTool' = GoesTo(outTool, t, "asked")
      BY <2>1 DEF GoesTo
    <3>2. outTool[t] = "new" /\ outTool \in [Tool -> {"new", "asked", "known", "ok", "failed"}] /\ "asked" \in {"asked", "known", "ok", "failed"}
      BY <1>0, <2>1
    <3> QED BY <3>1, <3>2, UseGoesOn
  <2>3. Cardinality(Seen(outTool')) <= C /\ Cardinality(Seen(outTool')) \in Nat /\ Cardinality(Good(outTool')) \in Nat
    <3>1. Seen(outTool') \in SUBSET Tool /\ Good(outTool') \in SUBSET Tool
      BY DEF Seen, Good
    <3> QED BY <3>1, SetsOfTools DEF C
  <2>4. outUsed' <= Cardinality(Seen(outTool')) /\ outUsed' \in 0 .. C /\ outOk <= Cardinality(Good(outTool'))
    <3>1. outUsed <= Cardinality(Seen(outTool)) /\ outOk <= Cardinality(Good(outTool))
      BY DEF OutInv
    <3> QED BY <1>0, <2>1, <2>2, <2>3, <3>1
  <2>5. Kept(outHistory')
    <3>1. Kept(ToolUse(outHistory, t, FALSE))
      BY <1>0, UseKeeps
    <3> QED BY <2>1, <3>1
  <2>6. outAsks' \in Seq(Tool) /\ outAsks' # <<>> /\ \A x \in Range(outAsks') : outTool'[x] = "asked"
    <3>1. outAsks' \in Seq(Tool) /\ outAsks' # <<>> /\ Range(outAsks') = Range(outAsks) \cup {t} /\ Range(outAsks) \in SUBSET Tool
      BY <1>0, <2>1, AskedNext
    <3>2. \A x \in Range(outAsks) : outTool[x] = "asked"
      BY <2>1 DEF OutInv
    <3> QED BY <2>2, <3>1, <3>2
  <2>7. OutputTypeOK'
    BY <1>0, <2>1, <2>2, <2>4, <2>5 DEF OutInv, OutputTypeOK, Kept, C
  <2>8. ~(outUsed' = 0)
    BY <1>0, <2>1
  <2> QED BY <2>1, <2>4, <2>6, <2>7, <2>8 DEF OutInv
<1>5. ASSUME NEW t \in Tool, ProviderToolStarts(t) PROVE OutInv'
  <2>1. /\ outProcess = "running" /\ outTool[t] = "new"
        /\ outTool' = [outTool EXCEPT ![t] = "known"] /\ outAsks' = Append(outAsks, t) /\ outWhole' = TRUE
        /\ outHistory' = ToolUse(outHistory, t, TRUE)
        /\ UNCHANGED <<outProcess, outRuns, outPieces, outText, outAnswer, outUsed, outOk, outTimer, outSignal>>
    BY <1>5 DEF ProviderToolStarts, outZombie
  <2>2. /\ outTool' \in [Tool -> States]
        /\ Cardinality(Seen(outTool')) = Cardinality(Seen(outTool)) + 1
        /\ Cardinality(Good(outTool)) <= Cardinality(Good(outTool'))
    <3>1. outTool' = GoesTo(outTool, t, "known")
      BY <2>1 DEF GoesTo
    <3>2. outTool[t] = "new" /\ outTool \in [Tool -> {"new", "asked", "known", "ok", "failed"}] /\ "known" \in {"asked", "known", "ok", "failed"}
      BY <1>0, <2>1
    <3> QED BY <3>1, <3>2, UseGoesOn
  <2>3. Cardinality(Seen(outTool')) \in Nat /\ Cardinality(Good(outTool')) \in Nat
    <3>1. Seen(outTool') \in SUBSET Tool /\ Good(outTool') \in SUBSET Tool
      BY DEF Seen, Good
    <3> QED BY <3>1, SetsOfTools
  <2>4. outUsed' <= Cardinality(Seen(outTool')) /\ outOk' <= Cardinality(Good(outTool'))
    <3>1. outUsed <= Cardinality(Seen(outTool)) /\ outOk <= Cardinality(Good(outTool))
      BY DEF OutInv
    <3> QED BY <1>0, <2>1, <2>2, <2>3, <3>1
  <2>5. Kept(outHistory')
    <3>1. Kept(ToolUse(outHistory, t, TRUE))
      BY <1>0, UseKeeps
    <3> QED BY <2>1, <3>1
  <2>6. outAsks' \in Seq(Tool)
    BY <1>0, <2>1, AskedNext
  <2>7. OutputTypeOK'
    BY <1>0, <2>1, <2>2, <2>4, <2>5 DEF OutInv, OutputTypeOK, Kept, C
  <2> QED BY <2>1, <2>4, <2>6, <2>7 DEF OutInv
<1>6. CASE WholeMessage
  <2>1. /\ outProcess = "running" /\ ~outWhole /\ outWhole' = TRUE
        /\ outTool' = [t \in Tool |-> IF t \in Range(outAsks) THEN "known" ELSE outTool[t]]
        /\ outHistory' = InputsTold(outHistory, outAsks)
        /\ UNCHANGED <<outProcess, outRuns, outPieces, outText, outAsks, outAnswer, outUsed, outOk, outTimer, outSignal>>
    BY <1>6 DEF WholeMessage, outZombie, outMessage
  <2>2. \A t \in Range(outAsks) : outTool[t] = "asked"
    BY <2>1 DEF OutInv
  <2>3. outTool' \in [Tool -> States] /\ Seen(outTool') = Seen(outTool) /\ Good(outTool') = Good(outTool)
    BY <1>0, <2>1, <2>2 DEF Seen, Good
  <2>4. Kept(outHistory')
    <3>1. PICK g : InputsTold(outHistory, outAsks) = g[Len(outAsks)] /\ Told(g, outHistory, outAsks)
      BY <1>0, ToldSteps
    <3>2. Len(outAsks) \in 0 .. Len(outAsks)
      BY <1>0
    <3> QED BY <2>1, <3>1, <3>2 DEF Told
  <2>5. OutputTypeOK'
    BY <1>0, <2>1, <2>3, <2>4 DEF OutInv, OutputTypeOK, Kept, C
  <2> QED BY <2>1, <2>3, <2>5 DEF OutInv
<1>7. ASSUME NEW t \in Tool, NEW result \in {"ok", "failed"}, ToolAnswers(t, result) PROVE OutInv'
  <2>1. /\ outProcess = "running" /\ outWhole /\ outTool[t] = "known"
        /\ outTool' = [outTool EXCEPT ![t] = result] /\ outOk' = IF result = "ok" THEN outOk + 1 ELSE outOk
        /\ outHistory' = ToolResult(outHistory, t, result)
        /\ UNCHANGED <<outProcess, outRuns, outPieces, outText, outAsks, outWhole, outAnswer, outUsed, outTimer, outSignal>>
    BY <1>7 DEF ToolAnswers, outZombie, outMessage
  <2>2. /\ outTool' \in [Tool -> States]
        /\ Cardinality(Seen(outTool)) <= Cardinality(Seen(outTool'))
        /\ Cardinality(Good(outTool)) <= Cardinality(Good(outTool'))
        /\ result = "ok" => Cardinality(Good(outTool')) = Cardinality(Good(outTool)) + 1
    <3>1. outTool' = GoesTo(outTool, t, result)
      BY <2>1 DEF GoesTo
    <3>2. outTool[t] = "known" /\ outTool \in [Tool -> {"new", "asked", "known", "ok", "failed"}] /\ result \in {"asked", "known", "ok", "failed"}
      BY <1>0, <2>1
    <3> QED BY <3>1, <3>2, UseGoesOn
  <2>3. Cardinality(Seen(outTool')) \in Nat /\ Cardinality(Good(outTool')) \in Nat /\ Cardinality(Good(outTool')) <= C
    <3>1. Seen(outTool') \in SUBSET Tool /\ Good(outTool') \in SUBSET Tool
      BY DEF Seen, Good
    <3> QED BY <3>1, SetsOfTools DEF C
  <2>4. outUsed' <= Cardinality(Seen(outTool')) /\ outOk' <= Cardinality(Good(outTool')) /\ outOk' \in 0 .. C
    <3>1. outUsed <= Cardinality(Seen(outTool)) /\ outOk <= Cardinality(Good(outTool))
      BY DEF OutInv
    <3>2. CASE result = "ok"
      BY <1>0, <2>1, <2>2, <2>3, <3>1, <3>2
    <3>3. CASE result # "ok"
      BY <1>0, <2>1, <2>2, <2>3, <3>1, <3>3
    <3> QED BY <3>2, <3>3
  <2>5. Kept(outHistory')
    BY <1>0, <2>1, ResultKeeps
  <2>6. OutputTypeOK'
    BY <1>0, <2>1, <2>2, <2>4, <2>5 DEF OutInv, OutputTypeOK, Kept, C
  <2> QED BY <2>1, <2>4, <2>6 DEF OutInv
<1>8. CASE NextMessage
  <2>1. /\ outProcess = "running" /\ outText' = <<>> /\ outAsks' = <<>> /\ outWhole' = FALSE
        /\ UNCHANGED <<outProcess, outRuns, outPieces, outAnswer, outTool, outUsed, outOk, outHistory, outTimer, outSignal>>
    BY <1>8 DEF NextMessage, outZombie
  <2>2. OutputTypeOK'
    BY <2>1 DEF OutInv, OutputTypeOK
  <2> QED BY <1>0, <1>e, <1>r, <2>1, <2>2 DEF OutInv
<1>9. ASSUME NEW subtype \in {"success", "error_max_turns"}, ResultEvent(subtype) PROVE OutInv'
  <2>1. /\ outProcess' = "answered" /\ (subtype = "success" <=> outAsks = <<>>)
        /\ outAnswer' = IF subtype = "success" /\ outAnswer = <<>> THEN outText ELSE outAnswer
        /\ outTimer' \in {"zombie", outTimer}
        /\ UNCHANGED <<outRuns, outPieces, outText, outAsks, outWhole, outTool, outUsed, outOk, outHistory, outSignal>>
    BY <1>9 DEF ResultEvent, outMessage
  <2>2. OutputTypeOK'
    BY <2>1 DEF OutInv, OutputTypeOK
  <2>3. Numbered(outAnswer', outPieces)
    BY <2>1 DEF OutInv
  <2> QED BY <2>1, <2>2, <2>3 DEF OutInv
<1>10. CASE ProcessCloses
  <2>1. /\ outProcess' = "gone" /\ outTimer' \in {"off", outTimer}
        /\ UNCHANGED <<outRuns, outPieces, outText, outAsks, outWhole, outAnswer, outTool, outUsed, outOk, outHistory, outSignal>>
    BY <1>10 DEF ProcessCloses, outMessage
  <2>2. OutputTypeOK'
    BY <2>1 DEF OutInv, OutputTypeOK
  <2> QED BY <2>1, <2>2 DEF OutInv
<1>11. CASE ZombieGuard \/ ZombieKill
  <2>1. /\ outTimer' \in {"kill", "over"} /\ outSignal' \in {"TERM", "KILL", outSignal}
        /\ UNCHANGED <<outProcess, outRuns, outPieces, outText, outAsks, outWhole, outAnswer, outTool, outUsed, outOk, outHistory>>
    BY <1>11 DEF ZombieGuard, ZombieKill, outMessage
  <2>2. OutputTypeOK'
    BY <2>1 DEF OutInv, OutputTypeOK
  <2> QED BY <2>1, <2>2 DEF OutInv
<1>12. CASE HistoryExpires
  <2>1. /\ outHistory' = <<>>
        /\ UNCHANGED <<outProcess, outRuns, outPieces, outText, outAsks, outWhole, outAnswer, outTool, outUsed, outOk, outTimer, outSignal>>
    BY <1>12 DEF HistoryExpires, outMessage, outZombie
  <2>2. <<>> \in Seq(Entry) /\ Len(<<>>) <= HistoryMax
    OBVIOUS
  <2>3. OutputTypeOK'
    BY <2>1, <2>2 DEF OutInv, OutputTypeOK
  <2> QED BY <2>1, <2>3 DEF OutInv
<1>13. CASE UNCHANGED outVars
  <2>1. UNCHANGED <<outProcess, outRuns, outPieces, outText, outAsks, outWhole, outAnswer, outTool, outUsed, outOk,
                    outHistory, outTimer, outSignal>>
    BY <1>13 DEF outVars
  <2>2. OutputTypeOK'
    BY <2>1 DEF OutInv, OutputTypeOK
  <2> QED BY <2>1, <2>2 DEF OutInv
<1> QED BY <1>1, <1>2, <1>3, <1>4, <1>5, <1>6, <1>7, <1>8, <1>9, <1>10, <1>11, <1>12, <1>13 DEF OutputNext

\* What the history tells of the uses of tools, and the uses it has.
ToldAsIs(h, tools) ==
  \A i \in 1 .. Len(h) :
    /\ h[i].input <=> tools[h[i].id] # "asked"
    /\ h[i].result = IF tools[h[i].id] \in {"ok", "failed"} THEN tools[h[i].id] ELSE "none"
Begun(h, tools) == \A i \in 1 .. Len(h) : tools[h[i].id] # "new"
NotTwice(a) == \A i, j \in 1 .. Len(a) : a[i] = a[j] => i = j

OutExact ==
  /\ EachOnce(outHistory) /\ ToldAsIs(outHistory, outTool) /\ Begun(outHistory, outTool)
  /\ NotTwice(outAsks) /\ \A t \in Range(outAsks) : outTool[t] # "new"
  /\ outProcess = "running" => TailIs(outHistory, outAsks)

\* A use that begins is told as it is.
LEMMA BegunIsTold ==
  ASSUME NEW h, Kept(h), EachOnce(h),
         NEW tools \in [Tool -> {"new", "asked", "known", "ok", "failed"}], ToldAsIs(h, tools), Begun(h, tools),
         NEW t \in Tool, tools[t] = "new", NEW to \in {"asked", "known"}, NEW input \in BOOLEAN, input <=> to # "asked"
  PROVE  /\ ToolUse(h, t, input) = UseAppended(h, t, input)
         /\ EachOnce(ToolUse(h, t, input))
         /\ ToldAsIs(ToolUse(h, t, input), GoesTo(tools, t, to)) /\ Begun(ToolUse(h, t, input), GoesTo(tools, t, to))
<1> DEFINE u == UseAppended(h, t, input)
           w == GoesTo(tools, t, to)
           L == Len(h)
           N == Len(u)
<1>1. L \in Nat /\ \A i \in 1 .. L : h[i] \in Entry /\ h[i].id \in Tool /\ h[i].id # t
  <2>1. L \in Nat /\ \A i \in 1 .. L : h[i] \in Entry
    BY KeptIs
  <2> QED BY <2>1 DEF Entry, Begun
<1>2. ToolUse(h, t, input) = u
  <2>1. {i \in 1 .. L : h[i].id = t /\ i > L - LookBack} = {}
    BY <1>1
  <2> QED BY <2>1, ToolUseIs
<1>3. /\ w[t] = to /\ \A x \in Tool : x # t => w[x] = tools[x]
  BY DEF GoesTo
<1>4. Kept(u) /\ N \in Nat /\ N > 0 /\ u[N].id = t /\ u[N].input = input /\ u[N].result = "none"
      /\ \A i \in 1 .. N - 1 : (L + 1) - N + i \in 1 .. L /\ u[i] = h[(L + 1) - N + i]
  <2>1. Kept(u) /\ N = (IF L < HistoryMax THEN L + 1 ELSE HistoryMax) /\ u[N] = [id |-> t, input |-> input, result |-> "none"]
        /\ \A i \in 1 .. N - 1 : (L + 1) - N + i \in 1 .. L /\ u[i] = h[(L + 1) - N + i]
    BY UseIsLast
  <2>2. HistoryMax \in Nat /\ HistoryMax > 0
    BY OutputAssumption
  <2> HIDE DEF u, w, L, N
  <2>3. N \in Nat /\ N > 0
    BY <1>1, <2>1, <2>2
  <2>4. u[N].id = t /\ u[N].input = input /\ u[N].result = "none"
    BY <2>1
  <2> QED BY <2>1, <2>3, <2>4
<1> HIDE DEF u, w, L, N
<1>5. EachOnce(u)
  <2> SUFFICES ASSUME NEW i \in 1 .. N, NEW j \in 1 .. N, u[i].id = u[j].id PROVE i = j
    BY DEF EachOnce, N
  <2>1. CASE i = N \/ j = N
    <3>1. ASSUME NEW m \in 1 .. N, u[m].id = t PROVE m = N
      <4>1. m # N => m \in 1 .. N - 1
        BY <1>4
      <4> QED BY <1>1, <1>4, <3>1, <4>1
    <3> QED BY <1>4, <2>1, <3>1
  <2>2. CASE i # N /\ j # N
    <3>1. i \in 1 .. N - 1 /\ j \in 1 .. N - 1
      BY <1>4, <2>2
    <3>2. (L + 1) - N + i = (L + 1) - N + j
      BY <1>4, <3>1 DEF EachOnce, L
    <3> QED BY <1>1, <1>4, <3>1, <3>2
  <2> QED BY <2>1, <2>2
<1>6. ASSUME NEW i \in 1 .. N
      PROVE  /\ u[i].input <=> w[u[i].id] # "asked"
             /\ u[i].result = IF w[u[i].id] \in {"ok", "failed"} THEN w[u[i].id] ELSE "none"
             /\ w[u[i].id] # "new"
  <2>1. CASE i = N
    BY <1>3, <1>4, <2>1
  <2>2. CASE i # N
    <3>1. i \in 1 .. N - 1
      BY <1>4, <2>2
    <3>2. PICK j \in 1 .. L : u[i] = h[j]
      BY <1>4, <3>1
    <3>3. h[j].id \in Tool /\ h[j].id # t
      BY <1>1
    <3>4. w[h[j].id] = tools[h[j].id]
      BY <1>3, <3>3
    <3> QED BY <3>2, <3>4 DEF ToldAsIs, Begun, L
  <2> QED BY <2>1, <2>2
<1>7. ToldAsIs(u, w) /\ Begun(u, w)
  BY <1>6 DEF ToldAsIs, Begun, N
<1> QED BY <1>2, <1>5, <1>7 DEF u, w

\* The uses of the message stay the last of the history.
LEMMA TailGrows ==
  ASSUME NEW h, Kept(h), NEW a \in Seq(Tool), TailIs(h, a), NEW t \in Tool, NEW input \in BOOLEAN
  PROVE  TailIs(UseAppended(h, t, input), Append(a, t))
<1> DEFINE u == UseAppended(h, t, input)
           b == Append(a, t)
           L == Len(h)
           N == Len(u)
           k == Len(a)
           M == HistoryMax
           c == IF k <= M THEN k ELSE M
           d == IF k + 1 <= M THEN k + 1 ELSE M
<1>1. L \in Nat /\ L <= M /\ k \in Nat /\ M \in Nat /\ M > 0
  BY KeptIs, OutputAssumption
<1>2. Len(b) = k + 1 /\ b[k + 1] = t /\ \A i \in 1 .. k : b[i] = a[i]
  BY AskedNext
<1>3. N = (IF L < M THEN L + 1 ELSE M) /\ u[N].id = t
      /\ \A i \in 1 .. N - 1 : (L + 1) - N + i \in 1 .. L /\ u[i] = h[(L + 1) - N + i]
  <2>1. N = (IF L < HistoryMax THEN L + 1 ELSE HistoryMax) /\ u[N] = [id |-> t, input |-> input, result |-> "none"]
        /\ \A i \in 1 .. N - 1 : (L + 1) - N + i \in 1 .. L /\ u[i] = h[(L + 1) - N + i]
    BY UseIsLast
  <2> QED BY <2>1
<1>4. c <= L /\ \A i \in 1 .. c : h[L - c + i].id = a[k - c + i]
  BY DEF TailIs
<1> HIDE DEF u, b, L, N, k, M
<1>5. d <= N /\ N \in Nat /\ N > 0 /\ c \in Nat /\ d \in Nat /\ d > 0 /\ c <= k /\ d <= k + 1 /\ (d = c + 1 \/ d = c)
  BY <1>1, <1>3, <1>4
<1> HIDE DEF c, d
<1>6. ASSUME NEW i \in 1 .. d PROVE u[N - d + i].id = b[(k + 1) - d + i]
  <2>1. CASE i = d
    <3>1. N - d + i = N /\ (k + 1) - d + i = k + 1
      BY <1>1, <1>3, <2>1
    <3> QED BY <1>2, <1>3, <3>1
  <2>2. CASE i # d
    <3>1. /\ N - d + i \in 1 .. N - 1 /\ (L + 1) - N + (N - d + i) = L - c + (c - d + 1 + i)
          /\ c - d + 1 + i \in 1 .. c /\ (k + 1) - d + i = k - c + (c - d + 1 + i)
          /\ (k + 1) - d + i \in 1 .. k
      <4>1. i \in Nat /\ 1 <= i /\ i < d
        BY <1>5, <2>2
      <4>2. N - d + i \in 1 .. N - 1 /\ (k + 1) - d + i \in 1 .. k
        BY <1>1, <1>5, <4>1
      <4>3. c - d + 1 + i \in 1 .. c
        BY <1>5, <4>1
      <4>4. (L + 1) - N + (N - d + i) = L - c + (c - d + 1 + i) /\ (k + 1) - d + i = k - c + (c - d + 1 + i)
        BY <1>1, <1>5, <4>1
      <4> QED BY <4>2, <4>3, <4>4
    <3>2. u[N - d + i] = h[L - c + (c - d + 1 + i)]
      BY <1>3, <3>1
    <3>3. h[L - c + (c - d + 1 + i)].id = a[k - c + (c - d + 1 + i)]
      BY <1>4, <3>1
    <3>4. b[(k + 1) - d + i] = a[(k + 1) - d + i]
      BY <1>2, <3>1
    <3> QED BY <3>1, <3>2, <3>3, <3>4
  <2> QED BY <2>1, <2>2
<1>7. TailIs(u, b) <=> /\ (IF Len(b) <= HistoryMax THEN Len(b) ELSE HistoryMax) <= Len(u)
                       /\ \A i \in 1 .. (IF Len(b) <= HistoryMax THEN Len(b) ELSE HistoryMax) :
                            u[Len(u) - (IF Len(b) <= HistoryMax THEN Len(b) ELSE HistoryMax) + i].id
                              = b[Len(b) - (IF Len(b) <= HistoryMax THEN Len(b) ELSE HistoryMax) + i]
  BY DEF TailIs
<1>8. (IF Len(b) <= HistoryMax THEN Len(b) ELSE HistoryMax) = d /\ Len(b) = k + 1 /\ Len(u) = N
  BY <1>2 DEF M, N, d
<1>9. TailIs(u, b)
  BY <1>5, <1>6, <1>7, <1>8
<1> QED BY <1>9 DEF u, b

\* A new use at the end of the uses of a message.
LEMMA NotTwiceNext ==
  ASSUME NEW a \in Seq(Tool), NotTwice(a), NEW t \in Tool, t \notin Range(a) PROVE NotTwice(Append(a, t))
<1> DEFINE b == Append(a, t)
           k == Len(a)
<1>1. k \in Nat /\ Len(b) = k + 1 /\ b[k + 1] = t /\ \A i \in 1 .. k : b[i] = a[i] /\ a[i] \in Range(a)
  BY AskedNext DEF Range
<1> HIDE DEF b, k
<1>2. ASSUME NEW i \in 1 .. k + 1, NEW j \in 1 .. k + 1, b[i] = b[j] PROVE i = j
  <2>1. ASSUME NEW m \in 1 .. k + 1, m # k + 1 PROVE m \in 1 .. k
    BY <1>1, <2>1
  <2> QED BY <1>1, <1>2, <2>1 DEF NotTwice, k
<1> QED BY <1>1, <1>2 DEF NotTwice, b

\* A use that ends is told with its result.
LEMMA EndIsTold ==
  ASSUME NEW h, Kept(h), EachOnce(h),
         NEW tools \in [Tool -> {"new", "asked", "known", "ok", "failed"}], ToldAsIs(h, tools), Begun(h, tools),
         NEW t \in Tool, tools[t] = "known", NEW result \in {"ok", "failed"}
  PROVE  LET u == ToolResult(h, t, result) IN
         /\ Kept(u) /\ Len(u) = Len(h) /\ \A i \in 1 .. Len(h) : u[i].id = h[i].id
         /\ ToldAsIs(u, GoesTo(tools, t, result)) /\ Begun(u, GoesTo(tools, t, result))
<1> DEFINE u == ToolResult(h, t, result)
           w == GoesTo(tools, t, result)
           L == Len(h)
           open == {i \in 1 .. L : h[i].id = t /\ h[i].result = "none"}
<1>1. L \in Nat /\ \A i \in 1 .. L : h[i] \in Entry /\ h[i].id \in Tool
  <2>1. L \in Nat /\ \A i \in 1 .. L : h[i] \in Entry
    BY KeptIs
  <2> QED BY <2>1 DEF Entry
<1>2. /\ w[t] = result /\ \A x \in Tool : x # t => w[x] = tools[x]
  BY DEF GoesTo
<1>3. Kept(u)
  BY ResultKeeps
<1>4. \A i \in 1 .. L : h[i].id = t => h[i].result = "none" /\ h[i].input
  BY DEF ToldAsIs
<1>5. CASE open = {}
  <2>1. u = h
    BY <1>5, ToolResultIs
  <2>2. \A i \in 1 .. L : h[i].id # t
    BY <1>4, <1>5
  <2>3. \A i \in 1 .. L : w[h[i].id] = tools[h[i].id]
    BY <1>1, <1>2, <2>2
  <2> HIDE DEF w, u
  <2>4. ToldAsIs(h, w) /\ Begun(h, w)
    BY <2>3 DEF ToldAsIs, Begun
  <2> QED BY <1>3, <2>1, <2>4 DEF u, w
<1>6. CASE open # {}
  <2>1. PICK m \in open : u = [h EXCEPT ![m] = Finished(h[m], result)]
    BY <1>6, ToolResultIs
  <2>2. m \in 1 .. L /\ h[m].id = t
    OBVIOUS
  <2>3. /\ Finished(h[m], result) \in Entry /\ Finished(h[m], result).id = t
        /\ Finished(h[m], result).input = h[m].input /\ Finished(h[m], result).result = result
    <3>1. h[m] \in Entry /\ h[m].input \in BOOLEAN
      BY <1>1, <2>2 DEF Entry
    <3> QED BY <2>2, <3>1, EntryIs
  <2>4. Len(u) = L /\ u[m] = Finished(h[m], result) /\ \A j \in 1 .. L : j # m => u[j] = h[j]
    <3>1. m \in 1 .. Len(h)
      BY <2>2
    <3> HIDE DEF u
    <3> QED BY <2>1, <2>3, <3>1, OneEntry
  <2> HIDE DEF u, w, open
  <2>5. \A i \in 1 .. L : u[i].id = h[i].id
    BY <2>2, <2>3, <2>4
  <2>6. ASSUME NEW i \in 1 .. L
        PROVE  /\ u[i].input <=> w[u[i].id] # "asked"
               /\ u[i].result = IF w[u[i].id] \in {"ok", "failed"} THEN w[u[i].id] ELSE "none"
               /\ w[u[i].id] # "new"
    <3>1. CASE i = m
      BY <1>2, <1>4, <2>2, <2>3, <2>4, <3>1
    <3>2. CASE i # m
      <4>1. h[i].id # t
        BY <2>2, <3>2 DEF EachOnce
      <4>2. w[h[i].id] = tools[h[i].id] /\ u[i] = h[i]
        BY <1>1, <1>2, <2>4, <3>2, <4>1
      <4> QED BY <4>2 DEF ToldAsIs, Begun
    <3> QED BY <3>1, <3>2
  <2>7. ToldAsIs(u, w) /\ Begun(u, w)
    BY <2>4, <2>6 DEF ToldAsIs, Begun
  <2> QED BY <1>3, <2>4, <2>5, <2>7 DEF u, w
<1> QED BY <1>5, <1>6

\* The whole message tells the inputs of its uses.
LEMMA WholeTells ==
  ASSUME NEW h, Kept(h), EachOnce(h),
         NEW tools \in [Tool -> {"new", "asked", "known", "ok", "failed"}], ToldAsIs(h, tools), Begun(h, tools),
         NEW a \in Seq(Tool), TailIs(h, a), Len(a) <= LookBack, NotTwice(a),
         \A t \in Range(a) : tools[t] = "asked"
  PROVE  LET u == InputsTold(h, a)
             w == [t \in Tool |-> IF t \in Range(a) THEN "known" ELSE tools[t]]
         IN  /\ Len(u) = Len(h) /\ \A i \in 1 .. Len(h) : u[i].id = h[i].id
             /\ ToldAsIs(u, w) /\ Begun(u, w)
<1> DEFINE u == InputsTold(h, a)
           w == [t \in Tool |-> IF t \in Range(a) THEN "known" ELSE tools[t]]
           L == Len(h)
<1>1. L \in Nat /\ \A i \in 1 .. L : h[i] \in Entry /\ h[i].id \in Tool
  <2>1. L \in Nat /\ \A i \in 1 .. L : h[i] \in Entry
    BY KeptIs
  <2> QED BY <2>1 DEF Entry
<1>2. /\ Len(u) = L
      /\ \A i \in 1 .. L : u[i].id = h[i].id /\ u[i].result = h[i].result /\ u[i].input = (h[i].input \/ h[i].id \in Range(a))
  <2>1. \A i \in 1 .. L : h[i].id \in Range(a) => h[i].result = "none"
    BY DEF ToldAsIs
  <2>2. \A i, j \in 1 .. Len(a) : a[i] = a[j] => i = j
    BY DEF NotTwice
  <2> HIDE DEF u
  <2> QED BY <2>1, <2>2, WholeIsTold DEF u
<1>3. \A x \in Tool : w[x] = IF x \in Range(a) THEN "known" ELSE tools[x]
  OBVIOUS
<1> HIDE DEF u, w
<1>4. ASSUME NEW i \in 1 .. L
      PROVE  /\ u[i].input <=> w[u[i].id] # "asked"
             /\ u[i].result = IF w[u[i].id] \in {"ok", "failed"} THEN w[u[i].id] ELSE "none"
             /\ w[u[i].id] # "new"
  <2>1. CASE h[i].id \in Range(a)
    <3>1. tools[h[i].id] = "asked" /\ w[h[i].id] = "known"
      BY <1>1, <1>3, <2>1
    <3>2. h[i].result = "none"
      BY <3>1 DEF ToldAsIs
    <3> QED BY <1>2, <2>1, <3>1, <3>2
  <2>2. CASE h[i].id \notin Range(a)
    <3>1. w[h[i].id] = tools[h[i].id] /\ u[i].id = h[i].id /\ u[i].result = h[i].result /\ u[i].input = (h[i].input \/ FALSE)
      BY <1>1, <1>2, <1>3, <2>2
    <3> QED BY <3>1 DEF ToldAsIs, Begun
  <2> QED BY <2>1, <2>2
<1>5. ToldAsIs(u, w) /\ Begun(u, w)
  BY <1>2, <1>4 DEF ToldAsIs, Begun
<1> QED BY <1>2, <1>5 DEF u, w

\* What does not change the uses of a history does not change their order.
LEMMA SameIds ==
  ASSUME NEW h, NEW u, Len(u) = Len(h), Len(h) \in Nat, \A i \in 1 .. Len(h) : u[i].id = h[i].id, NEW a \in Seq(Tool)
  PROVE  /\ EachOnce(h) => EachOnce(u)
         /\ TailIs(h, a) => TailIs(u, a)
<1>1. EachOnce(h) => EachOnce(u)
  BY DEF EachOnce
<1>2. ASSUME TailIs(h, a) PROVE TailIs(u, a)
  <2> DEFINE c == IF Len(a) <= HistoryMax THEN Len(a) ELSE HistoryMax
  <2>1. c \in Nat /\ c <= Len(h) /\ \A i \in 1 .. c : h[Len(h) - c + i].id = a[Len(a) - c + i]
    <3>1. Len(a) \in Nat /\ HistoryMax \in Nat
      BY OutputAssumption
    <3> QED BY <1>2, <3>1 DEF TailIs
  <2> HIDE DEF c
  <2>2. c <= Len(u) /\ \A i \in 1 .. c : u[Len(u) - c + i].id = a[Len(a) - c + i]
    <3>1. \A i \in 1 .. c : Len(h) - c + i \in 1 .. Len(h)
      BY <2>1
    <3> QED BY <2>1, <3>1
  <2> QED BY <2>2 DEF TailIs, c
<1> QED BY <1>1, <1>2

\* A message that asks for nothing.
LEMMA NothingAsked == ASSUME NEW h, Len(h) \in Nat PROVE TailIs(h, <<>>) /\ NotTwice(<<>>) /\ Range(<<>>) = {}
<1>1. Len(<<>>) = 0 /\ 0 <= HistoryMax /\ Range(<<>>) = {}
  BY OutputAssumption DEF Range
<1> QED BY <1>1 DEF TailIs, NotTwice

\* Every step keeps the history exact, while no message has more uses than are looked back.
LEMMA ExactStep == OutInv /\ OutExact /\ Len(outAsks) <= LookBack /\ [OutputNext]_outVars => OutExact'
<1> SUFFICES ASSUME OutInv, OutExact, Len(outAsks) <= LookBack, [OutputNext]_outVars PROVE OutExact'
  OBVIOUS
<1>0. /\ Kept(outHistory) /\ outAsks \in Seq(Tool) /\ outTool \in [Tool -> {"new", "asked", "known", "ok", "failed"}]
      /\ EachOnce(outHistory) /\ ToldAsIs(outHistory, outTool) /\ Begun(outHistory, outTool) /\ NotTwice(outAsks)
      /\ Len(outHistory) \in Nat
  <2>1. Kept(outHistory)
    BY DEF OutInv, OutputTypeOK, Kept
  <2> QED BY <2>1, KeptIs DEF OutInv, OutputTypeOK, OutExact
<1>1. ASSUME NEW t \in Tool, outTool[t] = "new", NEW to \in {"asked", "known"}, NEW input \in BOOLEAN, input <=> to # "asked",
             outTool' = [outTool EXCEPT ![t] = to], outAsks' = Append(outAsks, t), outProcess = "running",
             outHistory' = ToolUse(outHistory, t, input)
      PROVE  OutExact'
  <2>1. outTool' = GoesTo(outTool, t, to)
    BY <1>1 DEF GoesTo
  <2>2. /\ ToolUse(outHistory, t, input) = UseAppended(outHistory, t, input)
        /\ EachOnce(ToolUse(outHistory, t, input))
        /\ ToldAsIs(ToolUse(outHistory, t, input), GoesTo(outTool, t, to))
        /\ Begun(ToolUse(outHistory, t, input), GoesTo(outTool, t, to))
    BY <1>0, <1>1, BegunIsTold
  <2>3. EachOnce(outHistory') /\ ToldAsIs(outHistory', outTool') /\ Begun(outHistory', outTool')
    BY <1>1, <2>1, <2>2
  <2>4. TailIs(outHistory', outAsks')
    <3>1. TailIs(outHistory, outAsks)
      BY <1>1 DEF OutExact
    <3>2. TailIs(UseAppended(outHistory, t, input), Append(outAsks, t))
      BY <1>0, <3>1, TailGrows
    <3> QED BY <1>1, <2>2, <3>2
  <2>5. \A x \in Range(outAsks) : outTool[x] # "new"
    BY DEF OutExact
  <2>6. NotTwice(outAsks')
    <3>1. t \notin Range(outAsks)
      BY <1>1, <2>5
    <3> QED BY <1>0, <1>1, <3>1, NotTwiceNext
  <2>7. \A x \in Range(outAsks') : outTool'[x] # "new"
    <3>1. Range(outAsks') = Range(outAsks) \cup {t} /\ Range(outAsks) \in SUBSET Tool
      BY <1>0, <1>1, AskedNext
    <3>2. \A x \in Tool : outTool'[x] = IF x = t THEN to ELSE outTool[x]
      BY <1>0, <1>1
    <3> QED BY <2>5, <3>1, <3>2
  <2> QED BY <2>3, <2>4, <2>6, <2>7 DEF OutExact
<1>2. ASSUME NEW t \in Tool, ToolStarts(t) PROVE OutExact'
  <2>1. outTool[t] = "new" /\ outTool' = [outTool EXCEPT ![t] = "asked"] /\ outAsks' = Append(outAsks, t)
        /\ outProcess = "running" /\ outHistory' = ToolUse(outHistory, t, FALSE)
    BY <1>2 DEF ToolStarts
  <2> QED BY <1>1, <2>1
<1>3. ASSUME NEW t \in Tool, ProviderToolStarts(t) PROVE OutExact'
  <2>1. outTool[t] = "new" /\ outTool' = [outTool EXCEPT ![t] = "known"] /\ outAsks' = Append(outAsks, t)
        /\ outProcess = "running" /\ outHistory' = ToolUse(outHistory, t, TRUE)
    BY <1>3 DEF ProviderToolStarts
  <2> QED BY <1>1, <2>1
<1>4. CASE WholeMessage
  <2>1. /\ outProcess = "running" /\ ~outWhole /\ outAsks' = outAsks
        /\ outTool' = [t \in Tool |-> IF t \in Range(outAsks) THEN "known" ELSE outTool[t]]
        /\ outHistory' = InputsTold(outHistory, outAsks)
    BY <1>4 DEF WholeMessage, outMessage
  <2>2. TailIs(outHistory, outAsks) /\ \A t \in Range(outAsks) : outTool[t] = "asked"
    BY <2>1 DEF OutExact, OutInv
  <2>3. /\ Len(InputsTold(outHistory, outAsks)) = Len(outHistory)
        /\ \A i \in 1 .. Len(outHistory) : InputsTold(outHistory, outAsks)[i].id = outHistory[i].id
        /\ ToldAsIs(InputsTold(outHistory, outAsks), [t \in Tool |-> IF t \in Range(outAsks) THEN "known" ELSE outTool[t]])
        /\ Begun(InputsTold(outHistory, outAsks), [t \in Tool |-> IF t \in Range(outAsks) THEN "known" ELSE outTool[t]])
    BY <1>0, <2>2, WholeTells
  <2>4. /\ Len(outHistory') = Len(outHistory) /\ \A i \in 1 .. Len(outHistory) : outHistory'[i].id = outHistory[i].id
        /\ ToldAsIs(outHistory', outTool') /\ Begun(outHistory', outTool')
    BY <2>1, <2>3
  <2>5. EachOnce(outHistory') /\ TailIs(outHistory', outAsks)
    BY <1>0, <2>2, <2>4, SameIds
  <2>6. \A t \in Range(outAsks) : outTool'[t] # "new"
    <3>1. Range(outAsks) \subseteq Tool
      BY <1>0 DEF Range
    <3> QED BY <2>1, <3>1
  <2> QED BY <1>0, <2>1, <2>4, <2>5, <2>6 DEF OutExact
<1>5. ASSUME NEW t \in Tool, NEW result \in {"ok", "failed"}, ToolAnswers(t, result) PROVE OutExact'
  <2>1. /\ outProcess = "running" /\ outTool[t] = "known" /\ outTool' = GoesTo(outTool, t, result)
        /\ outHistory' = ToolResult(outHistory, t, result) /\ outAsks' = outAsks /\ outProcess' = outProcess
    BY <1>5 DEF ToolAnswers, outMessage, GoesTo
  <2>2. /\ Len(ToolResult(outHistory, t, result)) = Len(outHistory)
        /\ \A i \in 1 .. Len(outHistory) : ToolResult(outHistory, t, result)[i].id = outHistory[i].id
        /\ ToldAsIs(ToolResult(outHistory, t, result), GoesTo(outTool, t, result))
        /\ Begun(ToolResult(outHistory, t, result), GoesTo(outTool, t, result))
    BY <1>0, <2>1, EndIsTold
  <2>3. /\ Len(outHistory') = Len(outHistory) /\ \A i \in 1 .. Len(outHistory) : outHistory'[i].id = outHistory[i].id
        /\ ToldAsIs(outHistory', outTool') /\ Begun(outHistory', outTool')
    BY <2>1, <2>2
  <2>4. EachOnce(outHistory') /\ TailIs(outHistory', outAsks)
    <3>1. TailIs(outHistory, outAsks)
      BY <2>1 DEF OutExact
    <3> QED BY <1>0, <2>3, <3>1, SameIds
  <2>5. \A x \in Range(outAsks) : outTool'[x] # "new"
    <3>1. Range(outAsks) \subseteq Tool
      BY <1>0 DEF Range
    <3>2. \A x \in Range(outAsks) : outTool[x] # "new"
      BY DEF OutExact
    <3>3. \A x \in Tool : outTool'[x] = IF x = t THEN result ELSE outTool[x]
      BY <1>0, <2>1 DEF GoesTo
    <3> QED BY <3>1, <3>2, <3>3
  <2> QED BY <1>0, <2>1, <2>3, <2>4, <2>5 DEF OutExact
<1>6. CASE StartRun \/ NextMessage
  <2>1. outAsks' = <<>> /\ outTool' = outTool /\ outHistory' = outHistory
    BY <1>6 DEF StartRun, NextMessage
  <2>2. TailIs(outHistory, <<>>) /\ NotTwice(<<>>) /\ Range(<<>>) = {}
    BY <1>0, NothingAsked
  <2> QED BY <1>0, <2>1, <2>2 DEF OutExact
<1>7. CASE HistoryExpires
  <2>1. outProcess # "running" /\ outProcess' = outProcess /\ outHistory' = <<>> /\ outAsks' = outAsks /\ outTool' = outTool
    BY <1>7 DEF HistoryExpires, CliAlive, outMessage
  <2>2. Len(<<>>) = 0
    OBVIOUS
  <2>3. EachOnce(<<>>) /\ ToldAsIs(<<>>, outTool) /\ Begun(<<>>, outTool)
    BY <2>2 DEF EachOnce, ToldAsIs, Begun
  <2> QED BY <1>0, <2>1, <2>3 DEF OutExact
<1>8. CASE TextDelta \/ TextUnstreamed \/ (\E subtype \in {"success", "error_max_turns"} : ResultEvent(subtype))
           \/ ProcessCloses \/ ZombieGuard \/ ZombieKill \/ UNCHANGED outVars
  <2>1. outAsks' = outAsks /\ outTool' = outTool /\ outHistory' = outHistory /\ (outProcess' = "running" => outProcess = "running")
    BY <1>8 DEF TextDelta, TextUnstreamed, ResultEvent, ProcessCloses, ZombieGuard, ZombieKill, outVars, outMessage
  <2> QED BY <2>1 DEF OutExact
<1> QED BY <1>2, <1>3, <1>4, <1>5, <1>6, <1>7, <1>8 DEF OutputNext

\* The invariants hold at first.
LEMMA OutBegins == OutputInit => OutInv /\ OutExact
<1> SUFFICES ASSUME OutputInit PROVE OutInv /\ OutExact
  OBVIOUS
<1>1. /\ outProcess = "none" /\ outRuns = 0 /\ outPieces = 0 /\ outText = <<>> /\ outAsks = <<>> /\ outWhole = FALSE
      /\ outAnswer = <<>> /\ outTool = [t \in Tool |-> "new"] /\ outUsed = 0 /\ outOk = 0 /\ outHistory = <<>>
      /\ outTimer = "off" /\ outSignal = "none"
  BY DEF OutputInit
<1>2. Cardinality(Tool) \in Nat /\ MaxRuns \in Nat /\ MaxPieces \in Nat /\ HistoryMax \in Nat
  BY SetsOfTools, OutputAssumption
<1>3. Len(<<>>) = 0 /\ <<>> \in Seq(Entry) /\ <<>> \in Seq(Tool) /\ Range(<<>>) = {}
  BY DEF Range
<1>4. outTool \in [Tool -> {"new", "asked", "known", "ok", "failed"}]
  BY <1>1
<1>5. 0 \in 0 .. Cardinality(Tool) /\ 0 \in 0 .. MaxPieces /\ 0 \in 0 .. MaxRuns
  BY <1>2
<1>6. OutputTypeOK
  <2>1. outHistory \in Seq(Entry) /\ Len(outHistory) <= HistoryMax
    BY <1>1, <1>2, <1>3
  <2>2. outUsed \in 0 .. Cardinality(Tool) /\ outOk \in 0 .. Cardinality(Tool) /\ outPieces \in 0 .. MaxPieces /\ outRuns \in 0 .. MaxRuns
    BY <1>1, <1>5
  <2>3. outProcess \in {"none", "running", "answered", "gone"} /\ outWhole \in BOOLEAN
        /\ outTimer \in {"off", "zombie", "kill", "over"} /\ outSignal \in {"none", "TERM", "KILL"}
    BY <1>1
  <2> QED BY <1>4, <2>1, <2>2, <2>3 DEF OutputTypeOK
<1>7. Numbered(<<>>, 0)
  BY DEF Numbered
<1>8. 0 <= Cardinality(Seen(outTool)) /\ 0 <= Cardinality(Good(outTool))
  <2>1. Seen(outTool) \in SUBSET Tool /\ Good(outTool) \in SUBSET Tool
    BY DEF Seen, Good
  <2>2. Cardinality(Seen(outTool)) \in Nat /\ Cardinality(Good(outTool)) \in Nat
    BY <2>1, SetsOfTools
  <2> QED BY <2>2
<1>9. OutInv
  BY <1>1, <1>3, <1>6, <1>7, <1>8 DEF OutInv
<1>10. OutExact
  BY <1>1, <1>3, NothingAsked DEF OutExact, EachOnce, ToldAsIs, Begun
<1> QED BY <1>9, <1>10

\* The invariant of the output holds always.
LEMMA OutSafe == OutputInit /\ [][OutputNext]_outVars => []OutInv
<1>1. OutputInit => OutInv
  BY OutBegins
<1> QED BY <1>1, OutTyped, PTL

\* As long as a message has no more uses than are looked back.
LEMMA OutExactly == OutputInit /\ [][OutputNext]_outVars /\ [](Len(outAsks) <= LookBack) => []OutExact
<1>1. OutputInit => OutInv /\ OutExact
  BY OutBegins
<1> QED BY <1>1, OutSafe, ExactStep, PTL

\* What the invariant is for.
LEMMA OutKeeps == OutInv => OutputTypeOK /\ AnswerSaidOnce
<1> SUFFICES ASSUME OutInv PROVE OutputTypeOK /\ AnswerSaidOnce
  OBVIOUS
<1>1. \A i, j \in 1 .. Len(outAnswer) : i < j => outAnswer[i] < outAnswer[j]
  BY DEF OutInv, Numbered
<1> QED BY <1>1 DEF OutInv, AnswerSaidOnce

\* What the other invariant is for.
LEMMA OutIsExact == OutInv /\ OutExact => HistoryIsExact
<1> SUFFICES ASSUME OutInv, OutExact, NEW i \in 1 .. Len(outHistory)
             PROVE  /\ \A j \in 1 .. Len(outHistory) : outHistory[j].id = outHistory[i].id => j = i
                    /\ outHistory[i].input = (outTool[outHistory[i].id] # "asked")
                    /\ outHistory[i].result = (IF outTool[outHistory[i].id] \in {"ok", "failed"} THEN outTool[outHistory[i].id] ELSE "none")
  BY DEF HistoryIsExact
<1>1. \A j \in 1 .. Len(outHistory) : outHistory[j].id = outHistory[i].id => j = i
  BY DEF OutExact, EachOnce
<1>2. Kept(outHistory)
  BY DEF OutInv, OutputTypeOK, Kept
<1>3. outHistory[i].input \in BOOLEAN
  <2>1. outHistory[i] \in Entry
    BY <1>2, KeptIs
  <2> QED BY <2>1 DEF Entry
<1>4. (outHistory[i].input <=> outTool[outHistory[i].id] # "asked")
      /\ outHistory[i].result = (IF outTool[outHistory[i].id] \in {"ok", "failed"} THEN outTool[outHistory[i].id] ELSE "none")
  BY DEF OutExact, ToldAsIs
<1>5. outHistory[i].input = (outTool[outHistory[i].id] # "asked")
  <2>1. CASE outTool[outHistory[i].id] # "asked"
    BY <1>3, <1>4, <2>1
  <2>2. CASE outTool[outHistory[i].id] = "asked"
    BY <1>3, <1>4, <2>2
  <2> QED BY <2>1, <2>2
<1> QED BY <1>1, <1>4, <1>5

-------------------------------------------------------------------------------
\* The configuration (config.js).

\* What is loaded into the program while it runs.
LEMMA ConfigStep == ConfigTypeOK /\ [ConfigNext]_configVars => ConfigTypeOK'
<1> SUFFICES ASSUME ConfigTypeOK, [ConfigNext]_configVars PROVE ConfigTypeOK'
  OBVIOUS
<1> USE ConfigAssumption DEF ConfigTypeOK, ConfigContent
<1>1. ASSUME NEW c \in ConfigContent, WriteFile(c) \/ ReplaceFile(c) PROVE ConfigTypeOK'
  <2>1. /\ configFile' = c /\ edits < MaxEdits /\ edits' = edits + 1 /\ sameFile' \in BOOLEAN /\ reloadDue' \in BOOLEAN
        /\ UNCHANGED <<inForce, watching, told, configUp>>
    BY <1>1 DEF WriteFile, ReplaceFile
  <2>2. edits' \in 0 .. MaxEdits
    BY <2>1
  <2> QED BY <2>1, <2>2
<1>2. CASE Reload
  BY <1>2 DEF Reload, Loads, Reads, Validates
<1>3. CASE ConfigBoot \/ ConfigEnd
  BY <1>3 DEF ConfigBoot, ConfigEnd, Reads, Validates
<1>4. CASE UNCHANGED configVars
  BY <1>4 DEF configVars
<1> QED BY <1>1, <1>2, <1>3, <1>4 DEF ConfigNext

\* The type holds always.
LEMMA ConfigSafe == ConfigInit /\ [][ConfigNext]_configVars => []ConfigTypeOK
<1>1. ConfigInit => ConfigTypeOK
  <2> SUFFICES ASSUME ConfigInit PROVE ConfigTypeOK
    OBVIOUS
  <2>1. edits \in 0 .. MaxEdits
    BY ConfigAssumption DEF ConfigInit
  <2>2. configFile \in Valid \cup {Absent} /\ configFile # HalfWritten
    BY ConfigAssumption DEF ConfigInit
  <2> QED BY <2>1, <2>2 DEF ConfigInit, ConfigTypeOK, ConfigContent
<1> QED BY <1>1, ConfigStep, PTL

\* A reload of a half-written file loads nothing.
LEMMA HalfWritesIdle == ConfigInit /\ [][ConfigNext]_configVars => HalfWritesDoNothing
<1>1. [ConfigNext]_configVars => [configUp /\ configUp' /\ configFile = HalfWritten => inForce' = inForce]_configVars
  BY DEF ConfigNext, WriteFile, ReplaceFile, Reload, Loads, Reads, ConfigBoot, ConfigEnd, configVars
<1> QED BY <1>1, PTL DEF HalfWritesDoNothing

-------------------------------------------------------------------------------
\* The analysis of errors (error-analyzer.js).

\* What the counters count: analyses at work or lost since the start, and the
\* failures of this process that were asked about.
ErrInv ==
  /\ ErrorTypeOK /\ NoCascade
  /\ asked \in Nat
  /\ \A f \in forgotten : report[f] \in {"lost", "logged"}

\* How many are reported in a way, after one is reported in another.
LEMMA ReportMoves ==
  ASSUME report \in [Failure -> {"none", "asked", "lost", "logged"}],
         NEW f \in Failure, NEW how \in {"none", "asked", "lost", "logged"},
         report' = [report EXCEPT ![f] = how]
  PROVE  \A x \in {"none", "asked", "lost", "logged"} :
           Reported(x)' = IF x = how THEN Reported(x) \cup {f} ELSE Reported(x) \ {f}
BY DEF Reported

\* Sets of failures are finite, and counted one by one.
LEMMA RunsCounted ==
  /\ \A x : IsFiniteSet(Reported(x)) /\ Cardinality(Reported(x)) \in Nat
  /\ \A S \in SUBSET Failure : IsFiniteSet(S) /\ Cardinality(S) \in Nat
  /\ \A S \in SUBSET Failure : \A f \in Failure \ S : Cardinality(S \cup {f}) = Cardinality(S) + 1
  /\ \A S \in SUBSET Failure : \A f \in S : Cardinality(S \ {f}) = Cardinality(S) - 1
<1>1. \A S \in SUBSET Failure : IsFiniteSet(S) /\ Cardinality(S) \in Nat
  BY ErrorAssumption, FS_Subset, FS_CardinalityType
<1>2. \A x : Reported(x) \in SUBSET Failure
  BY DEF Reported
<1>3. \A S \in SUBSET Failure : \A f \in Failure \ S : Cardinality(S \cup {f}) = Cardinality(S) + 1
  BY <1>1, FS_AddElement
<1>4. \A S \in SUBSET Failure : \A f \in S : Cardinality(S \ {f}) = Cardinality(S) - 1
  BY <1>1, FS_RemoveElement
<1> QED BY <1>1, <1>2, <1>3, <1>4

\* A run fails (error-analyzer.js).
LEMMA RunFailedKeeps ==
  ASSUME ErrInv, NEW f \in Failure, RunFailed(f) PROVE ErrInv'
<1> USE DEF ErrInv, ErrorTypeOK, NoCascade
<1> DEFINE Old == Failure \ (Reported("none") \cup forgotten)
<1>1. f \notin forgotten /\ f \in Reported("none") /\ f \notin Reported("asked") /\ f \notin Reported("lost")
  BY DEF RunFailed, Reported
<1>2. Old \in SUBSET Failure /\ f \notin Old /\ forgotten' = forgotten
  BY <1>1 DEF RunFailed
<1>3. PICK how \in {"asked", "logged"} : report' = [report EXCEPT ![f] = how]
  BY DEF RunFailed
<1>4. Old' = Old \cup {f}
  <2>1. report \in [Failure -> {"none", "asked", "lost", "logged"}]
    OBVIOUS
  <2>2. Reported("none")' = Reported("none") \ {f}
    BY <1>3, <2>1, ReportMoves
  <2> QED BY <1>1, <1>2, <2>2
<1>5. Cardinality(Old') = Cardinality(Old) + 1
  BY <1>2, <1>4, RunsCounted
<1>6. Reported("lost")' = Reported("lost")
  <2>1. Reported("lost")' = Reported("lost") \ {f}
    BY <1>3, ReportMoves
  <2> QED BY <2>1, <1>1
<1>7. asked' \in {asked, asked + 1}
  BY DEF RunFailed
<1>8. NoCascade'
  BY <1>5, <1>7, <1>2, RunsCounted
<1>9. active' = Cardinality(Reported("asked")') + Cardinality(Reported("lost")' \ forgotten') /\ active' <= maxConcurrent
  <2>1. CASE MayAsk
    <3>1. Reported("asked")' = Reported("asked") \cup {f} /\ active' = active + 1
      BY <2>1, <1>1, ReportMoves DEF RunFailed
    <3>2. Cardinality(Reported("asked")') = Cardinality(Reported("asked")) + 1
      BY <3>1, <1>1, RunsCounted DEF Reported
    <3>3. active \in Nat /\ active < maxConcurrent
      BY <2>1, RunsCounted DEF MayAsk, Reported
    <3>4. Cardinality(Reported("asked")) \in Nat /\ Cardinality(Reported("lost") \ forgotten) \in Nat
      BY RunsCounted DEF Reported
    <3>5. maxConcurrent \in Nat
      BY ErrorAssumption
    <3> QED BY <3>1, <3>2, <3>3, <3>4, <3>5, <1>6, <1>2
  <2>2. CASE ~MayAsk
    <3>1. Reported("asked")' = Reported("asked") /\ active' = active
      BY <2>2, <1>1, ReportMoves DEF RunFailed
    <3> QED BY <3>1, <1>6, <1>2
  <2> QED BY <2>1, <2>2
<1>10. \A g \in forgotten' : report'[g] \in {"lost", "logged"}
  BY <1>1, <1>2, <1>3
<1>11. report' \in [Failure -> {"none", "asked", "lost", "logged"}] /\ askedJustNow' \in BOOLEAN /\ asked' \in Nat
  <2>1. report' \in [Failure -> {"none", "asked", "lost", "logged"}]
    BY <1>3
  <2>2. askedJustNow' \in BOOLEAN
    BY DEF RunFailed
  <2>3. asked' \in Nat
    BY <1>7
  <2> QED BY <2>1, <2>2, <2>3
<1> QED BY <1>8, <1>9, <1>10, <1>11, <1>2

\* An analysis that ends takes its report from those at work.
LEMMA AskedEnds ==
  ASSUME ErrInv, NEW f \in Failure, report[f] = "asked", NEW how \in {"lost", "logged"},
         report' = [report EXCEPT ![f] = how], UNCHANGED <<asked, askedJustNow, forgotten>>,
         active' = IF how = "lost" THEN active ELSE active - 1
  PROVE  ErrInv'
<1> USE DEF ErrInv, ErrorTypeOK, NoCascade
<1>1. f \notin forgotten /\ f \in Reported("asked") /\ f \notin Reported("none") /\ f \notin Reported("lost")
  BY DEF Reported
<1>2. Reported("none")' = Reported("none") /\ Reported("asked")' = Reported("asked") \ {f}
      /\ Reported("lost")' = IF how = "lost" THEN Reported("lost") \cup {f} ELSE Reported("lost")
  <2>1. /\ Reported("none")' = Reported("none") \ {f} /\ Reported("asked")' = Reported("asked") \ {f}
        /\ Reported("lost")' = IF "lost" = how THEN Reported("lost") \cup {f} ELSE Reported("lost") \ {f}
    BY ReportMoves
  <2> QED BY <2>1, <1>1
<1>3. Cardinality(Reported("asked")') = Cardinality(Reported("asked")) - 1
  BY <1>1, <1>2, RunsCounted DEF Reported
<1>4. how = "lost" => Cardinality(Reported("lost")' \ forgotten') = Cardinality(Reported("lost") \ forgotten) + 1
  <2>1. how = "lost" => Reported("lost")' \ forgotten' = (Reported("lost") \ forgotten) \cup {f}
    BY <1>1, <1>2
  <2>2. Reported("lost") \ forgotten \in SUBSET Failure /\ f \notin Reported("lost") \ forgotten
    BY <1>1 DEF Reported
  <2> QED BY <2>1, <2>2, RunsCounted
<1>5. Cardinality(Reported("asked")) \in Nat /\ Cardinality(Reported("lost") \ forgotten) \in Nat
  BY RunsCounted DEF Reported
<1>6. active' = Cardinality(Reported("asked")') + Cardinality(Reported("lost")' \ forgotten')
  <2>1. CASE how = "lost"
    BY <2>1, <1>3, <1>4, <1>5
  <2>2. CASE how # "lost"
    <3>1. Reported("lost")' \ forgotten' = Reported("lost") \ forgotten
      BY <2>2, <1>2
    <3>2. active' = active - 1
      BY <2>2
    <3>3. active = Cardinality(Reported("asked")) + Cardinality(Reported("lost") \ forgotten)
      OBVIOUS
    <3>4. Cardinality(Reported("lost")' \ forgotten') = Cardinality(Reported("lost") \ forgotten)
      BY <3>1
    <3> HIDE DEF ErrInv, ErrorTypeOK, NoCascade
    <3> QED BY <3>2, <3>3, <3>4, <1>3, <1>5
  <2> QED BY <2>1, <2>2
<1>7. active' <= maxConcurrent
  BY <1>5, ErrorAssumption
<1>8. \A g \in forgotten' : report'[g] \in {"lost", "logged"}
  BY <1>1
<1>9. NoCascade'
  BY <1>2
<1> QED BY <1>6, <1>7, <1>8, <1>9

\* The program restarts.
LEMMA RestartKeeps ==
  ASSUME ErrInv, AnalyzerRestarts PROVE ErrInv'
<1> USE DEF ErrInv, ErrorTypeOK, NoCascade
<1>1. /\ report' \in [Failure -> {"none", "lost", "logged"}]
      /\ Reported("asked")' = {} /\ Reported("lost")' = Reported("lost") \cup Reported("asked")
      /\ Reported("logged")' = Reported("logged")
  BY DEF AnalyzerRestarts, Reported
<1>2. /\ forgotten' \subseteq Failure
      /\ \A g \in forgotten' : report'[g] \in {"lost", "logged"}
      /\ Reported("lost")' \ forgotten' = {}
  BY <1>1 DEF AnalyzerRestarts, Reported
<1>3. Cardinality({}) = 0
  BY FS_EmptySet
<1>4. Cardinality(Failure \ (Reported("none")' \cup forgotten')) \in Nat
  <2>1. Failure \ (Reported("none")' \cup forgotten') \in SUBSET Failure
    OBVIOUS
  <2> QED BY <2>1, RunsCounted
<1>5. NoCascade'
  BY <1>4 DEF AnalyzerRestarts
<1>6. active' = Cardinality(Reported("asked")') + Cardinality(Reported("lost")' \ forgotten') /\ active' <= maxConcurrent
  <2>1. active' = 0 /\ maxConcurrent \in Nat
    BY ErrorAssumption DEF AnalyzerRestarts
  <2>2. Cardinality(Reported("asked")') = 0 /\ Cardinality(Reported("lost")' \ forgotten') = 0
    BY <1>1, <1>2, <1>3
  <2> QED BY <2>1, <2>2
<1> QED BY <1>1, <1>2, <1>5, <1>6 DEF AnalyzerRestarts

\* Every step keeps the invariant.
LEMMA ErrorStep == ErrInv /\ [ErrorNext]_errorVars => ErrInv'
<1> SUFFICES ASSUME ErrInv, [ErrorNext]_errorVars PROVE ErrInv'
  OBVIOUS
<1>1. ASSUME NEW f \in Failure, AnalysisAnswers(f) \/ AnalysisFails(f) PROVE ErrInv'
  <2>1. report[f] = "asked" /\ report' = [report EXCEPT ![f] = "logged"] /\ active' = active - 1
        /\ UNCHANGED <<asked, askedJustNow, forgotten>>
    BY <1>1 DEF AnalysisAnswers, AnalysisFails
  <2> QED BY <2>1, AskedEnds
<1>2. ASSUME NEW f \in Failure, AnalysisCancelled(f) PROVE ErrInv'
  <2>1. report[f] = "asked" /\ report' = [report EXCEPT ![f] = "lost"] /\ active' = active
        /\ UNCHANGED <<asked, askedJustNow, forgotten>>
    BY <1>2 DEF AnalysisCancelled
  <2> QED BY <2>1, AskedEnds
<1>3. CASE TwoSecondsPass
  BY <1>3 DEF TwoSecondsPass, ErrInv, ErrorTypeOK, NoCascade, Reported
<1>4. CASE UNCHANGED errorVars
  BY <1>4 DEF errorVars, ErrInv, ErrorTypeOK, NoCascade, Reported
<1> QED BY <1>1, <1>2, <1>3, <1>4, RunFailedKeeps, RestartKeeps DEF ErrorNext

\* The invariant of the analysis holds always.
LEMMA ErrorSafe == ErrorInit /\ [][ErrorNext]_errorVars => []ErrInv
<1>1. ErrorInit => ErrInv
  <2> SUFFICES ASSUME ErrorInit PROVE ErrInv
    OBVIOUS
  <2>1. Reported("asked") = {} /\ Reported("lost") \ forgotten = {}
    BY DEF ErrorInit, Reported
  <2>2. Failure \ (Reported("none") \cup forgotten) = {}
    BY DEF ErrorInit, Reported
  <2>3. Cardinality({}) = 0 /\ maxConcurrent \in Nat
    BY FS_EmptySet, ErrorAssumption
  <2>4. active = Cardinality(Reported("asked")) + Cardinality(Reported("lost") \ forgotten) /\ active <= maxConcurrent
    BY <2>1, <2>3 DEF ErrorInit
  <2>5. NoCascade
    BY <2>2, <2>3 DEF ErrorInit, NoCascade
  <2> QED BY <2>4, <2>5 DEF ErrorInit, ErrInv, ErrorTypeOK
<1> QED BY <1>1, ErrorStep, PTL

-------------------------------------------------------------------------------
(***************************************************************************)
(* The services together.  They share no variable, so a behaviour of all   *)
(* of them is a behaviour of each.                                         *)
(***************************************************************************)

\* The part of the conversations file is left alone by the steps of the others.
LEMMA StoreApart == Services => StoreInit /\ [][StoreNext]_storeVars
<1>1. SumInit => StoreInit
  BY DEF SumInit
<1>2. [SumNext]_sumVars => [StoreNext]_storeVars
  BY DEF SumNext, sumVars
<1> QED BY <1>1, <1>2, PTL DEF Services

\* The part of processes is left alone by the steps of the others.
LEMMA LifeApart == Services => LifecycleInit /\ [][LifecycleNext]_lifeVars
<1>1. SumInit => LifecycleInit
  BY DEF SumInit
<1>2. [SumNext]_sumVars => [LifecycleNext]_lifeVars
  BY DEF SumNext, sumVars
<1> QED BY <1>1, <1>2, PTL DEF Services

\* The part of lanes is left alone by the steps of the others.
LEMMA LaneApart == Services => LaneInit /\ [][LaneNext]_laneVars
<1>1. SumInit => LaneInit
  BY DEF SumInit
<1>2. [SumNext]_sumVars => [LaneNext]_laneVars
  BY DEF SumNext, sumVars
<1> QED BY <1>1, <1>2, PTL DEF Services

\* The part of webhooks is left alone by the steps of the others.
LEMMA HookApart == Services => WebhookInit /\ [][WebhookNext]_hookVars
<1>1. SumInit => WebhookInit
  BY DEF SumInit
<1>2. [SumNext]_sumVars => [WebhookNext]_hookVars
  BY DEF SumNext, sumVars
<1> QED BY <1>1, <1>2, PTL DEF Services

\* The part of plans is left alone by the steps of the others.
LEMMA PlanApart == Services => PlannerInit /\ [][PlannerNext]_planVars
<1>1. SumInit => PlannerInit
  BY DEF SumInit
<1>2. [SumNext]_sumVars => [PlannerNext]_planVars
  BY DEF SumNext, sumVars
<1> QED BY <1>1, <1>2, PTL DEF Services

\* The part of groups is left alone by the steps of the others.
LEMMA GroupApart == Services => GroupInit /\ [][GroupNext]_groupVars
<1>1. SumInit => GroupInit
  BY DEF SumInit
<1>2. [SumNext]_sumVars => [GroupNext]_groupVars
  BY DEF SumNext, sumVars
<1> QED BY <1>1, <1>2, PTL DEF Services

\* The part of the providers is left alone by the steps of the others.
LEMMA ProviderApart == Services => ProviderInit /\ [][ProviderNext]_providerVars
<1>1. SumInit => ProviderInit
  BY DEF SumInit
<1>2. [SumNext]_sumVars => [ProviderNext]_providerVars
  BY DEF SumNext, sumVars
<1> QED BY <1>1, <1>2, PTL DEF Services

\* The part of the output is left alone by the steps of the others.
LEMMA OutputApart == Services => OutputInit /\ [][OutputNext]_outVars
<1>1. SumInit => OutputInit
  BY DEF SumInit
<1>2. [SumNext]_sumVars => [OutputNext]_outVars
  BY DEF SumNext, sumVars
<1> QED BY <1>1, <1>2, PTL DEF Services

\* The part of statistics is left alone by the steps of the others.
LEMMA StatsApart == Services => StatsInit /\ [][StatsNext]_statVars
<1>1. SumInit => StatsInit
  BY DEF SumInit
<1>2. [SumNext]_sumVars => [StatsNext]_statVars
  BY DEF SumNext, sumVars
<1> QED BY <1>1, <1>2, PTL DEF Services

\* The part of the configuration is left alone by the steps of the others.
LEMMA ConfigApart == Services => ConfigInit /\ [][ConfigNext]_configVars
<1>1. SumInit => ConfigInit
  BY DEF SumInit
<1>2. [SumNext]_sumVars => [ConfigNext]_configVars
  BY DEF SumNext, sumVars
<1> QED BY <1>1, <1>2, PTL DEF Services

\* The part of the analysis of errors is left alone by the steps of the others.
LEMMA ErrorApart == Services => ErrorInit /\ [][ErrorNext]_errorVars
<1>1. SumInit => ErrorInit
  BY DEF SumInit
<1>2. [SumNext]_sumVars => [ErrorNext]_errorVars
  BY DEF SumNext, sumVars
<1> QED BY <1>1, <1>2, PTL DEF Services

\* The part of delegation is left alone by the steps of the others.
LEMMA ChainApart == Services => Init /\ [][Next]_vars
<1>1. SumInit => Init
  BY DEF SumInit
<1>2. [SumNext]_sumVars => [Next]_vars
  BY DEF SumNext, sumVars
<1> QED BY <1>1, <1>2, PTL DEF Services

\* Chains of delegations: the invariant of DelegationProofs.
LEMMA ChainSafe == Init /\ [][Next]_vars => []Inv
<1>1. Init => Inv
  BY DepthAssumption DEF Init, Inv, TypeOK, ContextIsChain, DepthBounded
<1> QED BY <1>1, InvInductive, PTL

\* A message whose uses of tools are all different has no more of them than there are.
LEMMA AsksAreUses ==
  ASSUME NEW a \in Seq(Tool), NotTwice(a) PROVE Len(a) <= Cardinality(Tool)
<1> DEFINE n == Len(a)
           f == [i \in 1 .. n |-> a[i]]
<1>1. n \in Nat /\ \A i \in 1 .. n : a[i] \in Tool
  OBVIOUS
<1>2. \A i, j \in 1 .. n : f[i] = f[j] => i = j
  BY DEF NotTwice
<1>3. f \in Injection(1 .. n, Tool)
  BY <1>1, <1>2, Fun_IsInj
<1>4. IsFiniteSet(Tool)
  BY OutputAssumption
<1>5. Cardinality(1 .. n) <= Cardinality(Tool)
  BY <1>3, <1>4, FS_Injection
<1>6. Cardinality(1 .. n) = n
  <2> HIDE DEF n
  <2>1. 1 \in Int /\ n \in Int
    BY <1>1
  <2>2. Cardinality(1 .. n) = IF 1 > n THEN 0 ELSE n - 1 + 1
    BY <2>1, FS_Interval
  <2> QED BY <1>1, <2>2
<1> QED BY <1>5, <1>6

\* Every variable of every service stays of its type, for any number of tasks,
\* plans, messages, deliveries, uses of tools, days, failures and agents, and
\* whatever crashes there are (the constructors and loaders of the files above).
THEOREM ServicesTyped == Services => []ServicesTypeOK
<1>1. Services => []StoreTypeOK
  BY StoreApart, FileSafe, FileReadable, PTL
<1>2. Services => []LifecycleTypeOK
  <2>1. LifeInv => LifecycleTypeOK
    BY DEF LifeInv
  <2> QED BY <2>1, LifeApart, LifeSafe, PTL
<1>3. Services => []LaneTypeOK
  BY LaneApart, LaneSafe, LaneKeeps, PTL
<1>4. Services => []WebhookTypeOK
  <2>1. HookInv => WebhookTypeOK
    BY DEF HookInv
  <2> QED BY <2>1, HookApart, HookSafe, PTL
<1>5. Services => []PlannerTypeOK
  BY PlanApart, PlanSafe, PlanKeeps, PTL
<1>6. Services => []GroupTypeOK
  <2>1. GroupInv => GroupTypeOK
    BY DEF GroupInv
  <2> QED BY <2>1, GroupApart, GroupSafe, PTL
<1>7. Services => []ProviderTypeOK
  BY ProviderApart, ProvSafe, ProvKeeps, PTL
<1>8. Services => []OutputTypeOK
  BY OutputApart, OutSafe, OutKeeps, PTL
<1>9. Services => []StatsTypeOK
  BY StatsApart, StatsSafe, StatsTyped, PTL
<1>10. Services => []ConfigTypeOK
  BY ConfigApart, ConfigSafe, PTL
<1>11. Services => []ErrorTypeOK
  <2>1. ErrInv => ErrorTypeOK
    BY DEF ErrInv
  <2> QED BY <2>1, ErrorApart, ErrorSafe, PTL
<1>12. Services => []TypeOK
  <2>1. Inv => TypeOK
    BY DEF Inv
  <2> QED BY <2>1, ChainApart, ChainSafe, PTL
<1>13. StoreTypeOK /\ LifecycleTypeOK /\ LaneTypeOK /\ WebhookTypeOK /\ PlannerTypeOK /\ GroupTypeOK /\ ProviderTypeOK
       /\ OutputTypeOK /\ StatsTypeOK /\ ConfigTypeOK /\ ErrorTypeOK /\ TypeOK => ServicesTypeOK
  BY DEF ServicesTypeOK
<1> QED BY <1>1, <1>2, <1>3, <1>4, <1>5, <1>6, <1>7, <1>8, <1>9, <1>10, <1>11, <1>12, <1>13, PTL

\* Whoever is asked later knows what came before, however many plans, groups and
\* turns there are: a step of a plan the answers and facts of the earlier ones
\* (task-planner.js:434), a participant the replies of those asked before
\* (group-chat.js:160), the API the result of each of its tool calls
\* (openai-provider.js:282).
THEOREM LaterIsTold == Services => []KnowsWhatCameBefore
<1>1. Services => []LaterSeeEarlier
  <2>1. GroupInv => LaterSeeEarlier
    BY DEF GroupInv
  <2> QED BY <2>1, GroupApart, GroupSafe, PTL
<1>2. Services => [](InOrder /\ FactsAreHandedOn)
  BY PlanApart, PlanSafe, PlanKeeps, PTL
<1>3. Services => []CallsAreAnswered
  BY ProviderApart, ProvSafe, ProvKeeps, PTL
<1>4. InOrder /\ FactsAreHandedOn /\ LaterSeeEarlier /\ CallsAreAnswered => KnowsWhatCameBefore
  BY DEF KnowsWhatCameBefore
<1> QED BY <1>1, <1>2, <1>3, <1>4, PTL

\* A fault does no more harm than the code accepts, wherever it strikes: what the
\* conversations file holds after a crash (conversation-manager.js:75), whom the
\* sweep and the shutdown signal as long as the registry remembers no pid of
\* another and no server ended with the pid -1 of an HTTP provider under way or
\* left on file (pid-registry.js:101, 163), what an analysis that fails starts
\* (error-analyzer.js:346), what becomes of the tasks behind one that times out
\* (lane-queue.js:179), of what was spent and is on file, which only a crash or a
\* failure in the write loses (usage-tracker.js:303), and of a configuration that
\* is half written (config.js:164).
THEOREM FaultsAreContained == Services => FaultsDoNoHarm
<1>1. Services => []StoreReadable /\ StoreNeverOlder
  BY StoreApart, FileSafe, FileReadable, PTL
<1>2. Services => []SparesOthers
  <2>1. LifeInv => SparesOthers
    BY DEF LifeInv
  <2> QED BY <2>1, LifeApart, LifeSafe, PTL
<1>3. Services => []NoCascade
  <2>1. ErrInv => NoCascade
    BY DEF ErrInv
  <2> QED BY <2>1, ErrorApart, ErrorSafe, PTL
<1>4. Services => []WaitingTaskKept
  BY LaneApart, LaneSafe, LaneKeeps, PTL
<1>5. Services => SpendingStays
  BY StatsApart, StatsSafe, PTL
<1>6. Services => HalfWritesDoNothing
  BY ConfigApart, HalfWritesIdle, PTL
<1> QED BY <1>1, <1>2, <1>3, <1>4, <1>5, <1>6, PTL DEF FaultsDoNoHarm

\* A task that is retried or cleared (lane-queue.js:179), the end of an API run
\* (openai-provider.js:331), the answer of a webhook's receiver
\* (webhook-manager.js:155) and a text that is streamed and told whole
\* (executor.js:2005) are each taken in once, whatever comes between.
LEMMA OnceHolds == Services => [](QueuedOnce /\ OneResult /\ AnswerSaidOnce /\ LogTellsAnswer)
<1>1. Services => []QueuedOnce
  BY LaneApart, LaneSafe, LaneKeeps, PTL
<1>2. Services => []OneResult
  BY ProviderApart, ProvSafe, ProvKeeps, PTL
<1>3. Services => []AnswerSaidOnce
  BY OutputApart, OutSafe, OutKeeps, PTL
<1>4. Services => []LogTellsAnswer
  <2>1. HookInv => LogTellsAnswer
    BY DEF HookInv
  <2> QED BY <2>1, HookApart, HookSafe, PTL
<1> QED BY <1>1, <1>2, <1>3, <1>4, PTL

\* Together with the uses of tools, which the history has once and exactly in every
\* behaviour whose messages have no more of them than are looked back
\* ("Idempotent by id", executor.js:72; the ten of _recordToolUse).
THEOREM TakenInOnce == Services /\ [](Len(outAsks) <= LookBack) => []OnceAndExact
<1>1. Services /\ [](Len(outAsks) <= LookBack) => []HistoryIsExact
  BY OutputApart, OutSafe, OutExactly, OutIsExact, PTL
<1>2. QueuedOnce /\ OneResult /\ HistoryIsExact /\ AnswerSaidOnce /\ LogTellsAnswer => OnceAndExact
  BY DEF OnceAndExact
<1> QED BY <1>1, <1>2, OnceHolds, PTL

\* The same without a premise on the behaviour, where there are no more uses of
\* tools than are looked back: a history may still be shorter than a message.
THEOREM FewUsesTakenInOnce ==
  ASSUME Cardinality(Tool) <= LookBack PROVE Services => []OnceAndExact
<1>1. OutInv /\ OutExact => Len(outAsks) <= LookBack
  <2> SUFFICES ASSUME OutInv, OutExact PROVE Len(outAsks) <= LookBack
    OBVIOUS
  <2>1. outAsks \in Seq(Tool) /\ NotTwice(outAsks)
    BY DEF OutInv, OutExact
  <2>2. Len(outAsks) <= Cardinality(Tool)
    BY <2>1, AsksAreUses
  <2>3. Len(outAsks) \in Nat /\ Cardinality(Tool) \in Nat /\ LookBack \in Nat
    BY <2>1, SetsOfTools, OutputAssumption
  <2> QED BY <2>2, <2>3
<1>2. OutInv /\ OutExact /\ [OutputNext]_outVars => (OutInv /\ OutExact)'
  BY <1>1, OutTyped, ExactStep
<1>3. OutputInit => OutInv /\ OutExact
  BY OutBegins
<1>4. Services => [](OutInv /\ OutExact)
  BY <1>2, <1>3, OutputApart, PTL
<1>5. Services => [](Len(outAsks) <= LookBack)
  BY <1>1, <1>4, PTL
<1> QED BY <1>5, TakenInOnce, PTL
===============================================================================
