-------------------------------- MODULE Skills --------------------------------
(***************************************************************************)
(* What the agents can do: src/agent/skill-registry.js reads skills out of *)
(* an agent's soul files and writes them into agents.json;                 *)
(* src/agent/skill-cache.js indexes agents by skill for the routers and    *)
(* keeps a rating of each agent in a file of its own.  The index is built  *)
(* anew half a second after a route asked for it (a later request starts   *)
(* the half second again) and every ten minutes.  The writes of            *)
(* agents.json, which is replaced whole, and of the ratings, which are     *)
(* written over the old ones, may fail, and nobody hears of it.            *)
(***************************************************************************)
EXTENDS Naturals, FiniteSets

CONSTANTS Agent,     \* the agents there ever are
          Named,     \* the skills a soul file or a configuration may name
          ByHand,    \* the skills a client may register
          MaxCalls   \* bound on the ratings an agent is given

Skill == Named \cup ByHand

VARIABLES
  agentIs,      \* "unborn", "there" or "deleted", as agents.json tells it
  soulSays,     \* the skills the agent's soul files and configuration name
  simple,       \* agents.json: capabilities.skillsSimple
  structured,   \* agents.json: the names in capabilities.skills
  manual,       \* those of them a client registered by name
  withSchema,   \* agents one of whose structured skills has a schema
  extracted,    \* SkillRegistry.extractedSkills; {} when there is no entry
  cached,       \* agents in SkillCache.cache
  calls,        \* successCount and failureCount of each agent in the cache
  indexed,      \* the agents each skill is found under
  ratedAtBoot,  \* SkillCache._persistedRatings
  ratingsFile,  \* data/skill-ratings.json; nothing is read from one that is cut short
  ratingsUnsaved, \* history: the last write of the ratings failed
  refreshDue,   \* SkillCache._refreshDebounceTimer is set
  unannounced,  \* agents a route changed since the last refresh without asking for one
  skillsUp

registered == <<agentIs, soulSays, simple, structured, manual, withSchema, extracted>>
cacheVars == <<cached, calls, indexed, unannounced>>
ratingVars == <<ratedAtBoot, ratingsFile, ratingsUnsaved>>
skillVars == <<registered, cacheVars, ratingVars, refreshDue, skillsUp>>

Agents == {a \in Agent : agentIs[a] = "there"}
NoCalls == [ok |-> 0, failed |-> 0]
Made(c) == c.ok + c.failed

-----------------------------------------------------------------------------
(* agents.json and the registry, as one call leaves them *)

\* _extractSkillsForAgent: the plain list of agents.json, and what the soul files (by the
\* known domains, the bullets of a skills section and the lists of interests they have) and
\* the configuration name.
Extracted(a, says) == simple[a] \cup says[a]

\* Mutant: the skills that were read replace the structured ones.
SyncedOver(a, base, skills) == IF a \in withSchema' THEN base ELSE skills

\* _syncToAgentsJson: an agent with a schema keeps its structured skills as they are.
SyncedNames(a, base, skills) == IF a \in withSchema' THEN base ELSE base \cup skills

\* refreshAgent, called last in a route: what the soul files say is added to the skills
\* agents.json has already, unless that write fails.
RefreshAgent(a, base) ==
  LET skills == Extracted(a, soulSays') IN
  /\ extracted' = [extracted EXCEPT ![a] = skills]
  /\ \/ /\ simple' = [simple EXCEPT ![a] = skills]
        /\ structured' = [structured EXCEPT ![a] =
             IF skills = {} THEN base ELSE SyncedNames(a, base, skills)]
     \/ UNCHANGED simple /\ structured' = [structured EXCEPT ![a] = base]

-----------------------------------------------------------------------------
(* SkillCache *)

\* The agents a skill is found under: by a structured skill's name, by agents.json's plain
\* list, or by what the registry read.
SkillsOf(a) == simple[a] \cup extracted[a] \cup structured[a]
FoundUnder(s) == {a \in Agents : s \in SkillsOf(a)}

\* Mutant: the counts are those read at boot.
RefreshFromFile ==
  /\ cached' = {a \in Agents : SkillsOf(a) # {}}
  /\ calls' = [a \in Agent |-> IF a \in cached' THEN ratedAtBoot[a] ELSE NoCalls]
  /\ indexed' = [s \in Skill |-> FoundUnder(s)]
  /\ unannounced' = {}

\* Mutant: an agent without structured skills is left out of the cache.
RefreshStructured ==
  /\ cached' = {a \in Agents : structured[a] # {}}
  /\ calls' = [a \in Agent |->
       IF a \in cached' THEN (IF a \in cached THEN calls[a] ELSE ratedAtBoot[a]) ELSE NoCalls]
  /\ indexed' = [s \in Skill |-> FoundUnder(s)]
  /\ unannounced' = {}

\* _refresh: an agent that was in the cache keeps its counts; one that was not begins with
\* those of the file read at boot.
Refresh ==
  /\ cached' = {a \in Agents : SkillsOf(a) # {}}
  /\ calls' = [a \in Agent |->
       IF a \in cached' THEN (IF a \in cached THEN calls[a] ELSE ratedAtBoot[a]) ELSE NoCalls]
  /\ indexed' = [s \in Skill |-> FoundUnder(s)]
  /\ unannounced' = {}

\* The five-hundred-millisecond timer, and the ten-minute one, which leaves it set.
RefreshNow ==
  /\ skillsUp /\ refreshDue
  /\ Refresh
  /\ refreshDue' = FALSE
  /\ UNCHANGED <<registered, ratingVars, skillsUp>>

AutoRefresh ==
  /\ skillsUp
  /\ Refresh
  /\ UNCHANGED <<registered, ratingVars, refreshDue, skillsUp>>

\* _savePersistedRatings writes the agents in the cache that were rated, over the file.
SavedRatings(made) == [a \in Agent |-> IF a \in cached THEN made[a] ELSE NoCalls]

\* The counts c after one more call.
Rated(c, success) ==
  IF success THEN [c EXCEPT !.ok = c.ok + 1] ELSE [c EXCEPT !.failed = c.failed + 1]

\* Mutant: the file is left to the shutdown, which nothing calls.
UpdateRatingLater(a, success) ==
  /\ skillsUp /\ a \in cached
  /\ Made(calls[a]) < MaxCalls
  /\ calls' = [calls EXCEPT ![a] = Rated(calls[a], success)]
  /\ UNCHANGED <<registered, cached, indexed, unannounced, ratingVars, refreshDue, skillsUp>>

\* POST /api/agents/:id/rating: updateRating.  A write that fails leaves the file as it was
\* or cut short.
UpdateRating(a, success) ==
  LET made == [calls EXCEPT ![a] = Rated(calls[a], success)] IN
  /\ skillsUp /\ a \in cached
  /\ Made(calls[a]) < MaxCalls
  /\ calls' = made
  /\ \/ ratingsFile' = SavedRatings(made) /\ ratingsUnsaved' = FALSE
     \/ ratingsFile' \in {ratingsFile, [b \in Agent |-> NoCalls]} /\ ratingsUnsaved' = TRUE
  /\ UNCHANGED <<registered, cached, indexed, unannounced, ratedAtBoot, refreshDue, skillsUp>>

-----------------------------------------------------------------------------
(* The routes that change an agent's skills *)

\* Mutant: the cache is not told.
SaveSoulQuietly(a, S) ==
  /\ skillsUp /\ a \in Agents
  /\ soulSays' = [soulSays EXCEPT ![a] = S]
  /\ UNCHANGED <<manual, withSchema>>
  /\ RefreshAgent(a, structured[a])
  /\ UNCHANGED <<agentIs, cacheVars, ratingVars, refreshDue, skillsUp>>

\* PUT of a soul file, and POST /api/skills/registry/:agentId/refresh when S is what the
\* files said already.
SaveSoul(a, S) ==
  /\ skillsUp /\ a \in Agents
  /\ soulSays' = [soulSays EXCEPT ![a] = S]
  /\ UNCHANGED <<manual, withSchema>>
  /\ RefreshAgent(a, structured[a])
  /\ refreshDue' = TRUE
  /\ UNCHANGED <<agentIs, cacheVars, ratingVars, skillsUp>>

\* The agent's own tools write its soul files: nobody is told.
EditSoul(a, S) ==
  /\ a \in Agents /\ S # soulSays[a]
  /\ soulSays' = [soulSays EXCEPT ![a] = S]
  /\ UNCHANGED <<agentIs, simple, structured, manual, withSchema, extracted, cacheVars,
                 ratingVars, refreshDue, skillsUp>>

\* POST /api/agents/:agentId/skills: the skill is added to agents.json unless one of its
\* name is there, a refresh is asked for, and then the registry reads the soul files.  When
\* the skill cannot be written, what is left is SaveSoul of what the files say.
RegisterSkill(a, s, schema) ==
  /\ skillsUp /\ a \in Agents /\ s \notin structured[a]
  /\ withSchema' = IF schema THEN withSchema \cup {a} ELSE withSchema
  /\ manual' = [manual EXCEPT ![a] = @ \cup {s}]
  /\ UNCHANGED soulSays
  /\ RefreshAgent(a, structured[a] \cup {s})
  /\ refreshDue' = TRUE
  /\ UNCHANGED <<agentIs, cacheVars, ratingVars, skillsUp>>

\* PUT /api/agents/:id with capabilities: they replace the agent's, and nobody is told.
ReplaceCapabilities(a, S) ==
  /\ skillsUp /\ a \in Agents
  /\ simple' = [simple EXCEPT ![a] = {}]
  /\ structured' = [structured EXCEPT ![a] = S]
  /\ manual' = [manual EXCEPT ![a] = S]
  /\ withSchema' = withSchema \ {a}
  /\ unannounced' = unannounced \cup {a}
  /\ UNCHANGED <<agentIs, soulSays, extracted, cached, calls, indexed, ratingVars, refreshDue,
                 skillsUp>>

\* POST /api/agents and the AGENT_CREATE tag: the registry reads the new agent's soul files.
NewAgent(a, S) ==
  /\ skillsUp /\ agentIs[a] = "unborn"
  /\ agentIs' = [agentIs EXCEPT ![a] = "there"]
  /\ soulSays' = [soulSays EXCEPT ![a] = S]
  /\ UNCHANGED <<manual, withSchema>>
  /\ RefreshAgent(a, {})
  /\ refreshDue' = TRUE
  /\ UNCHANGED <<cacheVars, ratingVars, skillsUp>>

\* POST /api/workspaces makes an agent too, and neither the registry nor the cache is told.
NewWithWorkspace(a, S) ==
  /\ skillsUp /\ agentIs[a] = "unborn"
  /\ agentIs' = [agentIs EXCEPT ![a] = "there"]
  /\ soulSays' = [soulSays EXCEPT ![a] = S]
  /\ UNCHANGED <<simple, structured, manual, withSchema, extracted, cacheVars, ratingVars,
                 refreshDue, skillsUp>>

\* DELETE /api/agents/:id, which asks for a refresh, and DELETE /api/workspaces/:id, which
\* deletes the agent and does not.  The registry keeps what it read of the agent.
DropAgent(a, told) ==
  /\ skillsUp /\ a \in Agents
  /\ agentIs' = [agentIs EXCEPT ![a] = "deleted"]
  /\ refreshDue' = (refreshDue \/ told)
  /\ unannounced' = IF told THEN unannounced ELSE unannounced \cup {a}
  /\ simple' = [simple EXCEPT ![a] = {}] /\ structured' = [structured EXCEPT ![a] = {}]
  /\ manual' = [manual EXCEPT ![a] = {}] /\ soulSays' = [soulSays EXCEPT ![a] = {}]
  /\ withSchema' = withSchema \ {a}
  /\ UNCHANGED <<extracted, cached, calls, indexed, ratingVars, skillsUp>>

-----------------------------------------------------------------------------
(* The process ends (nothing calls SkillCache.shutdown), and starts again *)

None == [a \in Agent |-> {}]

MemoryGone ==
  /\ skillsUp' = FALSE
  /\ extracted' = None /\ cached' = {} /\ indexed' = [s \in Skill |-> {}]
  /\ calls' = [a \in Agent |-> NoCalls] /\ ratedAtBoot' = [a \in Agent |-> NoCalls]
  /\ refreshDue' = FALSE /\ unannounced' = {} /\ ratingsUnsaved' = FALSE

SkillsEnd ==
  /\ skillsUp
  /\ MemoryGone
  /\ UNCHANGED <<agentIs, soulSays, simple, structured, manual, withSchema, ratingsFile>>

\* It ends while it writes the ratings over the old ones: the file is cut short.
CrashInSave ==
  /\ skillsUp /\ cached # {}
  /\ MemoryGone
  /\ ratingsFile' = [a \in Agent |-> NoCalls]
  /\ UNCHANGED <<agentIs, soulSays, simple, structured, manual, withSchema>>

\* SkillRegistry.initialize for every agent, of whom the lost ones cannot be written into
\* agents.json, then SkillCache.initialize with an empty cache.
SkillsBoot(lost) ==
  LET read(a) == IF agentIs[a] = "there" THEN Extracted(a, soulSays) ELSE {}
      names(a) == IF a \in withSchema \cup lost \/ read(a) = {} THEN structured[a]
                  ELSE structured[a] \cup read(a)
      has(a) == IF agentIs[a] = "there" THEN read(a) \cup names(a) ELSE {} IN
  /\ ~skillsUp
  /\ skillsUp' = TRUE
  /\ extracted' = [a \in Agent |-> read(a)]
  /\ simple' = [a \in Agent |->
       IF agentIs[a] = "there" /\ a \notin lost THEN read(a) ELSE simple[a]]
  /\ structured' = [a \in Agent |-> IF agentIs[a] = "there" THEN names(a) ELSE structured[a]]
  /\ ratedAtBoot' = ratingsFile
  /\ cached' = {a \in Agent : has(a) # {}}
  /\ calls' = [a \in Agent |-> IF has(a) # {} THEN ratingsFile[a] ELSE NoCalls]
  /\ indexed' = [s \in Skill |-> {a \in Agent : s \in has(a)}]
  /\ refreshDue' = FALSE
  /\ unannounced' = {}
  /\ UNCHANGED <<agentIs, soulSays, manual, withSchema, ratingsFile, ratingsUnsaved>>

-----------------------------------------------------------------------------
SkillsInit ==
  /\ agentIs = [a \in Agent |-> "unborn"]
  /\ soulSays = [a \in Agent |-> {}] /\ simple = soulSays /\ structured = soulSays
  /\ manual = soulSays /\ withSchema = {} /\ extracted = soulSays
  /\ cached = {} /\ calls = [a \in Agent |-> NoCalls]
  /\ indexed = [s \in Skill |-> {}]
  /\ ratedAtBoot = calls /\ ratingsFile = calls
  /\ ratingsUnsaved = FALSE
  /\ refreshDue = FALSE /\ unannounced = {} /\ skillsUp = TRUE

SkillsNext ==
  \/ \E a \in Agent, S \in SUBSET Named : SaveSoul(a, S)
  \/ \E a \in Agent, S \in SUBSET Named : EditSoul(a, S)
  \/ \E a \in Agent, S \in SUBSET Named : NewAgent(a, S)
  \/ \E a \in Agent, S \in SUBSET Named : NewWithWorkspace(a, S)
  \/ \E a \in Agent, S \in SUBSET ByHand : ReplaceCapabilities(a, S)
  \/ \E a \in Agent, s \in ByHand, schema \in BOOLEAN : RegisterSkill(a, s, schema)
  \/ \E a \in Agent, success \in BOOLEAN : UpdateRating(a, success)
  \/ \E a \in Agent, told \in BOOLEAN : DropAgent(a, told)
  \/ \E lost \in SUBSET Agents : SkillsBoot(lost)
  \/ RefreshNow \/ AutoRefresh \/ SkillsEnd \/ CrashInSave

SkillsSpec == SkillsInit /\ [][SkillsNext]_skillVars

-----------------------------------------------------------------------------
\* Every skill is found under agents there are or were, a cached agent is not unborn, and
\* nothing is extracted for an agent that never was.
SkillsTypeOK ==
  /\ agentIs \in [Agent -> {"unborn", "there", "deleted"}]
  /\ soulSays \in [Agent -> SUBSET Skill] /\ simple \in [Agent -> SUBSET Skill]
  /\ structured \in [Agent -> SUBSET Skill] /\ extracted \in [Agent -> SUBSET Skill]
  /\ manual \in [Agent -> SUBSET Skill] /\ withSchema \subseteq Agent
  /\ cached \subseteq {a \in Agent : agentIs[a] # "unborn"}
  /\ indexed \in [Skill -> SUBSET cached]
  /\ \A a \in Agent \ cached : calls[a] = NoCalls
  /\ refreshDue \in BOOLEAN /\ skillsUp \in BOOLEAN /\ ratingsUnsaved \in BOOLEAN

\* A router looks an agent up in an index that is as old as the last refresh: whatever the
\* index says wrong of an agent is to be set right by a refresh that is due, but for the
\* agents a route changed without asking for one.
StaleIsDue ==
  skillsUp /\ ~refreshDue =>
    \A s \in Skill : indexed[s] \ unannounced = FoundUnder(s) \ unannounced

\* A skill a client registered stays the agent's whatever the registry reads afterwards and
\* however often it writes agents.json.
RegisteredIsKept == \A a \in Agents : manual[a] \subseteq structured[a]

\* The ratings an agent was given since the process started are on the file, the other
\* agents' as well as its own, also after a write that failed once another has not: the
\* file is written from the whole cache.
RatingIsOnFile ==
  skillsUp /\ ~ratingsUnsaved => \A a \in cached : calls[a] # ratedAtBoot[a] => ratingsFile[a] = calls[a]

\* A refresh builds the cache anew; an agent that stays in it keeps every rating it was
\* given.
RatingsStay ==
  \A a \in cached \cap cached' :
    skillsUp /\ skillsUp' => Made(calls'[a]) >= Made(calls[a])
RatingKept == [][RatingsStay]_skillVars

===============================================================================
