-------------------------------- MODULE Config --------------------------------
(***************************************************************************)
(* The configuration of the running system, src/core/config.js:            *)
(* config.json is merged over the defaults and overridden by the           *)
(* environment when the process starts, and again half a second after the  *)
(* last change of the file that is seen.  fs.watch sees what is written    *)
(* into the file; an editor that puts a new file in its place takes the    *)
(* watched one away.                                                       *)
(***************************************************************************)
EXTENDS Naturals

CONSTANTS Valid,      \* the contents that pass validate()
          Invalid,    \* those that parse and do not pass
          HalfWritten,       \* a content that does not parse, as half a write leaves it
          Absent,     \* no config.json: the defaults
          MaxEdits    \* bound on the changes of the file

ASSUME ConfigAssumption ==
  /\ HalfWritten \notin Valid \cup Invalid /\ Absent \notin Valid \cup Invalid
  /\ HalfWritten # Absent /\ MaxEdits \in Nat

VARIABLES
  configFile,
  inForce,      \* ConfigManager._config
  watching,     \* _watcher is there
  sameFile,     \* and config.json is the file it was put on
  reloadDue,    \* _reloadTimeout is set
  told,         \* what the last 'reload' event announced
  edits,
  configUp

configVars == <<configFile, inForce, watching, sameFile, reloadDue, told, edits, configUp>>

ConfigContent == Valid \cup Invalid \cup {HalfWritten, Absent}

\* Mutant: a file that does not parse counts as no file.
ReadsOrDefault(c) == TRUE

\* loadFromFile: a file that does not parse is an error; none is not.
Reads(c) == c # HalfWritten

\* validate(), of what was merged: the defaults pass it.
Validates(c) == c \in Valid \cup {Absent}

\* load() puts what it read into force and validates it then.
Loads(c) == IF ~Reads(c) THEN inForce ELSE IF c = HalfWritten THEN Absent ELSE c

-----------------------------------------------------------------------------
\* The module is required: a configuration that does not load ends the process.
ConfigBoot ==
  /\ ~configUp
  /\ Reads(configFile) /\ Validates(configFile)
  /\ configUp' = TRUE
  /\ inForce' = configFile /\ told' = configFile
  /\ watching' = (configFile # Absent) /\ sameFile' = watching'
  /\ reloadDue' = FALSE
  /\ UNCHANGED <<configFile, edits>>

ConfigEnd ==
  /\ configUp
  /\ configUp' = FALSE /\ watching' = FALSE /\ sameFile' = FALSE /\ reloadDue' = FALSE
  /\ UNCHANGED <<configFile, inForce, told, edits>>

\* Someone writes into the file: the watcher sees it and the half second begins anew.
WriteFile(c) ==
  /\ edits < MaxEdits /\ c # Absent /\ c # configFile
  /\ edits' = edits + 1
  /\ configFile' = c
  /\ reloadDue' = (reloadDue \/ (watching /\ sameFile))
  /\ UNCHANGED <<inForce, watching, sameFile, told, configUp>>

\* Someone puts another file in its place: the event is a 'rename', which is not looked at.
ReplaceFile(c) ==
  /\ edits < MaxEdits /\ c # configFile
  /\ edits' = edits + 1
  /\ configFile' = c /\ sameFile' = FALSE
  /\ UNCHANGED <<inForce, watching, reloadDue, told, configUp>>

\* Mutant: an error closes the watcher.
ReloadOrStop ==
  /\ reloadDue
  /\ reloadDue' = FALSE
  /\ inForce' = Loads(configFile)
  /\ told' = IF Reads(configFile) /\ Validates(configFile) THEN configFile ELSE told
  /\ watching' = (watching /\ Reads(configFile) /\ Validates(configFile))
  /\ UNCHANGED <<configFile, sameFile, edits, configUp>>

\* Mutant: the event comes before the validation.
ReloadAndTell ==
  /\ reloadDue
  /\ reloadDue' = FALSE
  /\ inForce' = Loads(configFile)
  /\ told' = inForce'
  /\ UNCHANGED <<configFile, watching, sameFile, edits, configUp>>

\* _reload: the 'reload' event announces a configuration that validates; an error has no
\* listener.
Reload ==
  /\ reloadDue
  /\ reloadDue' = FALSE
  /\ inForce' = Loads(configFile)
  /\ told' = IF Reads(configFile) /\ Validates(configFile) THEN configFile ELSE told
  /\ UNCHANGED <<configFile, watching, sameFile, edits, configUp>>

-----------------------------------------------------------------------------
ConfigInit ==
  /\ configFile \in Valid \cup {Absent}
  /\ inForce = configFile /\ told = configFile
  /\ watching = FALSE /\ sameFile = FALSE /\ reloadDue = FALSE /\ edits = 0 /\ configUp = FALSE

ConfigNext ==
  \/ \E c \in ConfigContent : WriteFile(c) \/ ReplaceFile(c)
  \/ Reload \/ ConfigBoot \/ ConfigEnd

ConfigFairness == WF_configVars(Reload)

ConfigSpec == ConfigInit /\ [][ConfigNext]_configVars /\ ConfigFairness

-----------------------------------------------------------------------------
\* A listener of 'reload' is never given a configuration that does not validate.
ConfigTypeOK ==
  /\ configFile \in ConfigContent /\ inForce \in ConfigContent \ {HalfWritten}
  /\ told \in Valid \cup {Absent}
  /\ watching \in BOOLEAN /\ sameFile \in BOOLEAN /\ reloadDue \in BOOLEAN /\ configUp \in BOOLEAN
  /\ edits \in 0 .. MaxEdits

\* While a file is half written what was in force stays in force, however often the reload
\* reads it in that state.
HalfWritesDoNothing ==
  [][configUp /\ configUp' /\ configFile = HalfWritten => inForce' = inForce]_configVars

\* What is written into the watched file is in force in the end, also when it was half
\* written or wrong in between.
EditTakesEffect ==
  \A c \in Valid : (configUp /\ sameFile /\ configFile = c) ~>
                      (inForce = c \/ configFile # c \/ ~sameFile \/ ~configUp)

===============================================================================
