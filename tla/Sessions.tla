------------------------------ MODULE Sessions -------------------------------
(***************************************************************************)
(* AgentExecutor.sessions: which session of the command line tool a run    *)
(* resumes.  The map goes from a key (channel, user, workspace and         *)
(* conversation, or 'new') to a record that the runs of the key hold and   *)
(* change by reference, also when the map has dropped it meanwhile; the    *)
(* file is written whole, atomically, unless the write fails, which nobody *)
(* hears of, and is read at start.                                         *)
(*                                                                         *)
(* Two others know a session: the conversation of the web chat keeps the   *)
(* one its last answer came from, and its next message asks for it; and    *)
(* who takes the next message from the queue of a run asks for the run's,  *)
(* whichever conversation the message is of.                               *)
(*                                                                         *)
(* A session is named after the run that opened it; the tool keeps its     *)
(* name when it resumes it.  Time is how long ago the last turn of a       *)
(* record was: "now", "idle" (two hours, or from before four) or "old", a  *)
(* day.                                                                    *)
(***************************************************************************)
EXTENDS Naturals, FiniteSets

CONSTANTS
    Key,
    SharedKey,        \* keys without a conversation: their runs may overlap
    CronKey,          \* keys of cron jobs and agents
    CliRun,           \* runs, each used once
    NoSession,
    MaxSessionTurns,  \* SESSION_MAX_TURNS: 200
    MaxSessions,      \* 50
    MaxRecords        \* bound: records a key ever has

ASSUME SessionAssumption ==
    /\ IsFiniteSet(Key) /\ SharedKey \subseteq Key /\ CronKey \subseteq Key
    /\ NoSession \notin CliRun
    /\ MaxSessionTurns \in Nat \ {0} /\ MaxSessions \in Nat /\ MaxRecords \in Nat \ {0}

VARIABLES
    sessUp,
    sessMap,        \* sessions: the record of each key, 0 for none
    sessRecord,     \* the records a key has had
    sessFile,       \* sessions.json
    sessRun,        \* runs
    sessDeleted,    \* keys whose conversation was deleted
    sessConv,       \* conversation.sessionId, kept with the conversation
    sessTell,       \* runs that are over and have not told their conversation
    sessNext,       \* runs that are over and may have a retry or a queue to go on with
    sessCut,        \* history: keys with a run that ended before it had a session
    sessMixed,      \* history: keys a queue has given a session of another key
    sessLate,       \* history: keys with a run under way at their deletion or after
    sessUnsaved     \* history: the last write of the file failed

sessHistory == <<sessCut, sessMixed, sessLate, sessUnsaved>>
sessVars == <<sessUp, sessMap, sessRecord, sessFile, sessRun, sessDeleted,
              sessConv, sessTell, sessNext, sessHistory>>

Gone == {"now", "idle", "old"}
NewRecord == [id |-> NoSession, turns |-> 0, last |-> "now"]
Record == [id : CliRun \cup {NoSession}, turns : 0..MaxSessionTurns + 1, last : Gone]
NoRun == [state |-> "new"]
WebKey == Key \ (SharedKey \cup CronKey)

SessionTypeOK ==
    /\ sessUp \in BOOLEAN
    /\ sessMap \in [Key -> 0..MaxRecords]
    /\ sessRecord \in [Key -> [1..MaxRecords -> Record]]
    /\ \A k \in Key : sessFile[k] = {} \/ \E r \in Record : sessFile[k] = {r}
    /\ Cardinality({k \in Key : sessFile[k] # {}}) <= MaxSessions
    /\ \A r \in CliRun : sessRun[r].state \in {"new", "running", "over"}
    /\ sessDeleted \subseteq Key
    /\ sessConv \in [Key -> CliRun \cup {NoSession}]
    /\ sessTell \subseteq CliRun /\ sessNext \subseteq CliRun

SessionInit ==
    /\ sessUp = TRUE
    /\ sessMap = [k \in Key |-> 0]
    /\ sessRecord = [k \in Key |-> [n \in 1..MaxRecords |-> NewRecord]]
    /\ sessFile = [k \in Key |-> {}]
    /\ sessRun = [r \in CliRun |-> NoRun]
    /\ sessDeleted = {}
    /\ sessConv = [k \in Key |-> NoSession]
    /\ sessTell = {} /\ sessNext = {}
    /\ sessCut = {} /\ sessMixed = {} /\ sessLate = {}
    /\ sessUnsaved = FALSE

RunningOn(k) == {r \in CliRun : sessRun[r].state = "running" /\ sessRun[r].key = k}
MadeOn(k) == {n \in 1..MaxRecords : sessMap[k] >= n
                  \/ \E r \in CliRun : sessRun[r] # NoRun /\ sessRun[r].key = k /\ sessRun[r].record >= n}
NextRecord(k) == Cardinality(MadeOn(k)) + 1

\* Runtime pruning: cron and agent sessions of two hours, user sessions of a day
\* with a turn at most.
Stale(k, record) ==
    \/ k \in CronKey /\ record.last \in {"idle", "old"}
    \/ k \notin CronKey /\ record.last = "old" /\ record.turns <= 1

Rank(last) == CASE last = "now" -> 0 [] last = "idle" -> 1 [] OTHER -> 2

\* Mutant: the map is not cut to its size.
KeptAll(map, record) == {{k \in Key : map[k] > 0 /\ ~Stale(k, record[k][map[k]])}}

\* What _saveSessions leaves of the map: nothing stale, and the most recent.
Kept(map, record) ==
    LET live == {k \in Key : map[k] > 0 /\ ~Stale(k, record[k][map[k]])}
        age(k) == Rank(record[k][map[k]].last)
    IN  IF Cardinality(live) <= MaxSessions THEN {live}
        ELSE {keys \in SUBSET live : /\ Cardinality(keys) = MaxSessions
                                     /\ \A k \in keys, d \in live \ keys : age(k) <= age(d)}

\* Mutant: the map is written before the change.
SavedBefore(map, record) ==
    \E kept \in Kept(sessMap, sessRecord) :
        /\ sessMap' = [k \in Key |-> IF k \in kept \/ map[k] # sessMap[k] THEN map[k] ELSE 0]
        /\ sessFile' = [k \in Key |-> IF k \in kept THEN {sessRecord[k][sessMap[k]]} ELSE {}]
        /\ sessRecord' = record
        /\ sessUnsaved' = FALSE

\* The map and the records become these and are saved, or the write fails.
SaveSessions(map, record) ==
    \E kept \in Kept(map, record) :
        /\ sessMap' = [k \in Key |-> IF k \in kept THEN map[k] ELSE 0]
        /\ \/ /\ sessFile' = [k \in Key |-> IF k \in kept THEN {record[k][map[k]]} ELSE {}]
              /\ sessUnsaved' = FALSE
           \/ sessFile' = sessFile /\ sessUnsaved' = TRUE
        /\ sessRecord' = record

-----------------------------------------------------------------------------
(* Runs.                                                                    *)

\* Idle for two hours, another day, or too many turns.
MustRotate(record) == record.last # "now" \/ record.turns >= MaxSessionTurns

\* Mutant: the key has no conversation in it.
SessionKeyOfUser(k) == IF k \in CronKey THEN k ELSE CHOOSE u \in Key \ CronKey : TRUE

SessionKey(k) == k

\* execute up to the start of the process.  given is the session the caller
\* asks for, before the record's; after a failure none is resumed.  Whether the
\* file of the session is there is asked last.
BeginRun(r, conversation, given, force) ==
    LET k == SessionKey(conversation)
        n == IF sessMap[k] > 0 THEN sessMap[k] ELSE NextRecord(k)
        old == IF sessMap[k] > 0 THEN sessRecord[k][n] ELSE NewRecord
        asked == IF force THEN NoSession ELSE IF given # NoSession THEN given ELSE old.id
        rotate == asked # NoSession /\ sessMap[k] > 0 /\ MustRotate(old)
    IN  /\ sessUp /\ sessRun[r] = NoRun
        /\ conversation \in SharedKey \/ RunningOn(conversation) = {}
        /\ n <= MaxRecords
        /\ \E missing \in BOOLEAN :
              LET resumed == IF rotate \/ missing THEN NoSession ELSE asked
                  turns == (IF rotate THEN 0 ELSE old.turns) + 1
              IN  /\ missing => asked # NoSession /\ ~rotate
                  /\ turns <= MaxSessionTurns + 1
                  /\ sessRecord' = [sessRecord EXCEPT ![k][n] =
                        [id |-> IF missing THEN NoSession ELSE old.id,
                         turns |-> turns, last |-> "now"]]
                  /\ sessRun' = [sessRun EXCEPT ![r] =
                        [state |-> "running", key |-> conversation, record |-> n,
                         resumed |-> resumed, session |-> NoSession]]
                  /\ sessMap' = [sessMap EXCEPT ![k] = n]
        /\ sessLate' = IF k \in sessDeleted THEN sessLate \cup {k} ELSE sessLate
        /\ UNCHANGED <<sessUp, sessFile, sessDeleted, sessConv, sessTell, sessCut, sessUnsaved>>

\* A message of the web chat asks for the session its conversation has kept,
\* every other request for none.
Begin(r, k) ==
    /\ k \notin sessDeleted
    /\ BeginRun(r, k, sessConv[k], FALSE)
    /\ UNCHANGED <<sessNext, sessMixed>>

\* The session run p was in, or was to resume.
LastSession(p) == IF sessRun[p].session # NoSession THEN sessRun[p].session ELSE sessRun[p].resumed

\* A message from the queue of run p, or the follow-up of a delegation of it, asks
\* for p's session.  It may have waited for the workspace behind another
\* conversation, and its own may have been deleted since.
Flush(p, r, k) ==
    /\ p \in sessNext \ sessTell
    /\ sessNext' = sessNext \ {p}
    /\ BeginRun(r, k, LastSession(p), FALSE)
    /\ sessMixed' = IF LastSession(p) # NoSession /\ sessRun[LastSession(p)].key # k
                    THEN sessMixed \cup {k} ELSE sessMixed

\* The process says which session it is in.
CaptureSession(r) ==
    /\ sessUp /\ sessRun[r].state = "running" /\ sessRun[r].session = NoSession
    /\ LET id == IF sessRun[r].resumed = NoSession THEN r ELSE sessRun[r].resumed
       IN  /\ sessRun' = [sessRun EXCEPT ![r].session = id]
    /\ UNCHANGED <<sessUp, sessMap, sessRecord, sessFile, sessDeleted, sessConv, sessTell,
                   sessNext, sessHistory>>

RunIsOver(r) ==
    /\ sessRun' = [sessRun EXCEPT ![r].state = "over", ![r].record = 0,
                      ![r].resumed = IF sessRun[r].session = NoSession THEN @ ELSE NoSession]
    /\ sessNext' = sessNext \cup {r}
    /\ sessCut' = IF sessRun[r].session = NoSession THEN sessCut \cup {SessionKey(sessRun[r].key)}
                                                    ELSE sessCut

\* The run succeeds, or is cancelled: its record holds the session it was in and
\* is put into the map, whether it is still there or not.
KeepSession(r) ==
    LET k == SessionKey(sessRun[r].key) n == sessRun[r].record IN
    /\ sessUp /\ sessRun[r].state = "running"
    /\ RunIsOver(r)
    /\ IF sessRun[r].session # NoSession
       THEN SaveSessions([sessMap EXCEPT ![k] = n],
                         [sessRecord EXCEPT ![k][n].id = sessRun[r].session])
       ELSE UNCHANGED <<sessMap, sessRecord, sessFile, sessUnsaved>>
    /\ sessTell' = IF k \in WebKey /\ sessRun[r].session # NoSession THEN sessTell \cup {r} ELSE sessTell
    /\ UNCHANGED <<sessUp, sessDeleted, sessConv, sessMixed, sessLate>>

\* onComplete of the web chat: the conversation keeps the session, if it is still
\* there and its write does not fail.
TellConversation(r) ==
    /\ sessUp /\ r \in sessTell
    /\ sessTell' = sessTell \ {r}
    /\ \/ /\ sessRun[r].key \notin sessDeleted
          /\ sessConv' = [sessConv EXCEPT ![sessRun[r].key] = sessRun[r].session]
       \/ sessConv' = sessConv
    /\ UNCHANGED <<sessUp, sessMap, sessRecord, sessFile, sessRun, sessDeleted, sessNext, sessHistory>>

\* The last retry has failed: the session of the record is given up.
DropSession(r) ==
    LET k == SessionKey(sessRun[r].key) n == sessRun[r].record IN
    /\ sessUp /\ sessRun[r].state = "running"
    /\ RunIsOver(r)
    /\ IF sessRecord[k][n].id # NoSession
       THEN SaveSessions([sessMap EXCEPT ![k] = n],
                         [sessRecord EXCEPT ![k][n].id = NoSession, ![k][n].turns = 0])
       ELSE UNCHANGED <<sessMap, sessRecord, sessFile, sessUnsaved>>
    /\ UNCHANGED <<sessUp, sessDeleted, sessConv, sessTell, sessMixed, sessLate>>

\* The process could not be started.
SpawnFails(r) ==
    /\ sessUp /\ sessRun[r].state = "running" /\ sessRun[r].session = NoSession
    /\ RunIsOver(r)
    /\ UNCHANGED <<sessUp, sessMap, sessRecord, sessFile, sessDeleted, sessConv, sessTell,
                   sessMixed, sessLate, sessUnsaved>>

\* A failure that is retried: the retry is a run of its own, in a new session, or
\* after a process that could not be started in the record's.
Retry(r, retry) ==
    /\ r \in sessNext \ sessTell
    /\ sessNext' = sessNext \ {r}
    /\ \E force \in BOOLEAN : BeginRun(retry, sessRun[r].key, NoSession, force)
    /\ UNCHANGED sessMixed

TimePasses(k) ==
    /\ sessUp /\ sessMap[k] > 0
    /\ \E last \in Gone :
          /\ Rank(last) = Rank(sessRecord[k][sessMap[k]].last) + 1
          /\ sessRecord' = [sessRecord EXCEPT ![k][sessMap[k]].last = last]
    /\ UNCHANGED <<sessUp, sessMap, sessFile, sessRun, sessDeleted, sessConv, sessTell,
                   sessNext, sessHistory>>

-----------------------------------------------------------------------------
(* What else changes the map.                                               *)

\* /clear, in conversation k, takes the sessions of all conversations of the user
\* out of the map.  What the conversations themselves have kept stays.
ClearCommand(k) ==
    /\ sessUp /\ k \notin CronKey /\ RunningOn(k) = {}
    /\ SaveSessions([u \in Key |-> IF u \in CronKey THEN sessMap[u] ELSE 0], sessRecord)
    /\ UNCHANGED <<sessUp, sessRun, sessDeleted, sessConv, sessTell, sessNext, sessCut,
                   sessMixed, sessLate>>

\* Mutant: the map keeps the session of the conversation.
CleanupNothing(k) ==
    /\ sessUp /\ k \notin SharedKey \cup sessDeleted
    /\ sessDeleted' = sessDeleted \cup {k}
    /\ sessConv' = [sessConv EXCEPT ![k] = NoSession]
    /\ sessLate' = IF RunningOn(k) # {} THEN sessLate \cup {k} ELSE sessLate
    /\ UNCHANGED <<sessMap, sessRecord, sessFile, sessUnsaved>>
    /\ UNCHANGED <<sessUp, sessRun, sessTell, sessNext, sessCut, sessMixed>>

\* DELETE /api/conversations/:id
CleanupConversationSessions(k) ==
    /\ sessUp /\ k \notin SharedKey \cup sessDeleted
    /\ sessDeleted' = sessDeleted \cup {k}
    /\ sessConv' = [sessConv EXCEPT ![k] = NoSession]
    /\ sessLate' = IF RunningOn(k) # {} THEN sessLate \cup {k} ELSE sessLate
    /\ IF sessMap[k] > 0 THEN SaveSessions([sessMap EXCEPT ![k] = 0], sessRecord)
                         ELSE UNCHANGED <<sessMap, sessRecord, sessFile, sessUnsaved>>
    /\ UNCHANGED <<sessUp, sessRun, sessTell, sessNext, sessCut, sessMixed>>

SessionCrash ==
    /\ sessUp
    /\ sessUp' = FALSE
    /\ sessMap' = [k \in Key |-> 0]
    /\ sessRun' = [r \in CliRun |-> IF sessRun[r].state = "running"
                                    THEN [sessRun[r] EXCEPT !.state = "over", !.record = 0] ELSE sessRun[r]]
    /\ sessCut' = sessCut \cup {k \in Key : RunningOn(k) # {}}
    /\ sessTell' = {} /\ sessNext' = {}
    /\ sessUnsaved' = FALSE
    /\ UNCHANGED <<sessRecord, sessFile, sessDeleted, sessConv, sessMixed, sessLate>>

\* What _loadSessions takes from the file: nothing stale, and of the web chat no
\* session whose conversation is gone.
Loadable ==
    {k \in Key : sessFile[k] # {} /\ k \notin sessDeleted /\ \A rec \in sessFile[k] : ~Stale(k, rec)}

\* What was left out is taken out of the file; when that write fails, nothing is
\* loaded.
LoadSessions ==
    /\ ~sessUp
    /\ sessUp' = TRUE
    /\ sessLate' = {}
    /\ \/ /\ sessFile' = [k \in Key |-> IF k \in Loadable THEN sessFile[k] ELSE {}]
          /\ sessMap' = [k \in Key |-> IF k \in Loadable THEN NextRecord(k) ELSE 0]
          /\ \A k \in Loadable : NextRecord(k) <= MaxRecords
          /\ sessRecord' = [k \in Key |-> IF k \in Loadable
                               THEN [sessRecord[k] EXCEPT ![NextRecord(k)] = CHOOSE rec \in sessFile[k] : TRUE]
                               ELSE sessRecord[k]]
       \/ /\ \E k \in Key \ Loadable : sessFile[k] # {}
          /\ UNCHANGED <<sessFile, sessMap, sessRecord>>
    /\ UNCHANGED <<sessRun, sessDeleted, sessConv, sessTell, sessNext, sessCut, sessMixed, sessUnsaved>>

SessionNext ==
    \/ \E r \in CliRun, k \in Key : Begin(r, k)
    \/ \E p, r \in CliRun, k \in Key : Flush(p, r, k)
    \/ \E r, retry \in CliRun : Retry(r, retry)
    \/ \E r \in CliRun : CaptureSession(r)
    \/ \E r \in CliRun : KeepSession(r)
    \/ \E r \in CliRun : TellConversation(r)
    \/ \E r \in CliRun : DropSession(r)
    \/ \E r \in CliRun : SpawnFails(r)
    \/ \E k \in Key : TimePasses(k)
    \/ \E k \in Key : ClearCommand(k)
    \/ \E k \in Key : CleanupConversationSessions(k)
    \/ SessionCrash
    \/ LoadSessions

-----------------------------------------------------------------------------
(* Properties.                                                              *)

\* A run of a conversation resumes only what runs of the same conversation have
\* opened, whichever way the map was pruned, cleared, saved and loaded and whatever
\* the conversation itself has kept: no "cross-conversation contamination"
\* (executor.js:1507), unless a queue that it shared with another conversation has
\* handed it the other's session (executor.js:4096).
OwnContext ==
    \A r \in CliRun : sessRun[r] # NoRun /\ sessRun[r].key \notin SharedKey \cup sessMixed
                      /\ sessRun[r].resumed # NoSession =>
        sessRun[sessRun[r].resumed].key = sessRun[r].key

\* The session of a deleted conversation does not come back, by a write that failed,
\* a restart or a save of another, unless a run of the conversation was under way
\* or has begun since (executor.js:595, 515).
DeletedIsOver == \A k \in sessDeleted : sessMap[k] > 0 => k \in sessLate

\* A crash takes nobody's session: when the last write did not fail, what the record
\* of a conversation without a run says, the file says.
SessionIsSaved ==
    sessUp /\ ~sessUnsaved => \A k \in Key \ SharedKey :
        sessMap[k] > 0 /\ RunningOn(k) = {} /\ k \notin sessCut
        /\ sessRecord[k][sessMap[k]].id # NoSession =>
            \E rec \in sessFile[k] : rec.id = sessRecord[k][sessMap[k]].id
=============================================================================
