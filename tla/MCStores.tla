------------------------------- MODULE MCStores -------------------------------
(***************************************************************************)
(* The components that keep something (what agents there are, what they    *)
(* can do, what is remembered, who is answered), in one run.  They share   *)
(* no state, so a behaviour is that of one of them while the others rest   *)
(* as they began, as in MCServices.                                        *)
(***************************************************************************)
EXTENDS Registry, SharedContext, Cron, MessagePolicy, Memory, Sessions, Compaction, Skills, ModelResolver, Gateway

CONSTANTS w1

VARIABLE part  \* the part this behaviour is of

\* Every message of the instance is about one workspace.
MessagesOfOne == [m \in Message |-> w1]

Part == {"registry", "context", "cron", "policy", "memory", "sessions", "compaction", "skills", "resolver", "gateway"}

SumInit ==
  /\ part \in Part
  /\ RegistryInit /\ ContextInit /\ CronInit /\ PolicyInit
  /\ MemoryInit /\ SessionInit /\ CompactionInit /\ SkillsInit
  /\ ResolverInit /\ GatewayInit

SumNext ==
  \/ /\ part = "registry" /\ RegistryNext
     /\ UNCHANGED <<part, ctxVars, cronVars, policyVars, memoryVars, sessVars, cmpVars,
                     skillVars, resolverVars, gwVars>>
  \/ /\ part = "context" /\ ContextNext
     /\ UNCHANGED <<part, registryVars, cronVars, policyVars, memoryVars, sessVars, cmpVars,
                     skillVars, resolverVars, gwVars>>
  \/ /\ part = "cron" /\ CronNext
     /\ UNCHANGED <<part, registryVars, ctxVars, policyVars, memoryVars, sessVars, cmpVars,
                     skillVars, resolverVars, gwVars>>
  \/ /\ part = "policy" /\ PolicyNext
     /\ UNCHANGED <<part, registryVars, ctxVars, cronVars, memoryVars, sessVars, cmpVars,
                     skillVars, resolverVars, gwVars>>
  \/ /\ part = "memory" /\ MemoryNext
     /\ UNCHANGED <<part, registryVars, ctxVars, cronVars, policyVars, sessVars, cmpVars,
                     skillVars, resolverVars, gwVars>>
  \/ /\ part = "sessions" /\ SessionNext
     /\ UNCHANGED <<part, registryVars, ctxVars, cronVars, policyVars, memoryVars, cmpVars,
                     skillVars, resolverVars, gwVars>>
  \/ /\ part = "compaction" /\ CompactionNext
     /\ UNCHANGED <<part, registryVars, ctxVars, cronVars, policyVars, memoryVars, sessVars,
                     skillVars, resolverVars, gwVars>>
  \/ /\ part = "skills" /\ SkillsNext
     /\ UNCHANGED <<part, registryVars, ctxVars, cronVars, policyVars, memoryVars, sessVars,
                     cmpVars, resolverVars, gwVars>>
  \/ /\ part = "resolver" /\ ResolverNext
     /\ UNCHANGED <<part, registryVars, ctxVars, cronVars, policyVars, memoryVars, sessVars,
                     cmpVars, skillVars, gwVars>>
  \/ /\ part = "gateway" /\ GatewayNext
     /\ UNCHANGED <<part, registryVars, ctxVars, cronVars, policyVars, memoryVars, sessVars,
                     cmpVars, skillVars, resolverVars>>

sumVars == <<part, registryVars, ctxVars, cronVars, policyVars, memoryVars, sessVars,
            cmpVars, skillVars, resolverVars, gwVars>>

Stores == SumInit /\ [][SumNext]_sumVars

\* Every variable of every store is of its type.
StoresTypeOK ==
  /\ RegistryTypeOK /\ ContextTypeOK /\ CronTypeOK /\ PolicyTypeOK /\ MemoryTypeOK
  /\ SessionTypeOK /\ CompactionTypeOK /\ SkillsTypeOK /\ ResolverTypeOK /\ GatewayTypeOK

\* Whatever order operations and crashes come in, the places that hold one thing
\* agree unless the last write of one of them failed, which the code only logs:
\* workspaces.json with the directories, with its default and within itself
\* (workspace-manager.js:338, 413, 811), the file of shared facts, of jobs, of
\* sessions and of ratings with what is in memory (shared-context.js:335,
\* cron.js:404, executor.js:559, skill-cache.js:368).  After a failed write the
\* next one that succeeds mends the file, but for the workspaces: what their list
\* forgets and the sweep removes is lost, so their part is of a program of which
\* no write has failed since it swept.  The names of workspaces stay unique
\* whatever is written.
StoresAgree ==
  /\ DirectoriesAreRegistered /\ DefaultExists /\ NamesAreUnique
  /\ CleanIsOnDisk /\ CronFileIsJobs /\ SessionIsSaved /\ RatingIsOnFile

\* What was removed stays away, though a flush, a run, a failed write or a restart
\* that was on its way could bring it back: a namespace that was deleted, evicted
\* or expired (shared-context.js:229), the session of a conversation that was
\* deleted (executor.js:515, 595), a job that is no longer defined (cron.js:291).
\* A session that /clear removed does come back, with the next message
\* (websocket-server.js:445).
RemovedIsOver == [](NothingComesBack /\ DeletedIsOver) /\ RemovedJobIsOver

\* What is kept to be quick says what its source says: the cache and the index of
\* a memory (cognitive.js:1204, 1336), the tasks of the jobs (cron.js:263), the
\* index and the skills of the agents (skill-cache.js), the recap of the tools.
DerivedIsCurrent ==
  /\ AnswerIsCurrent /\ WrittenIsKnown /\ TasksAreEnabledJobs
  /\ StaleIsDue /\ RegisteredIsKept /\ UsesToldOnce

\* An answer lands where its question is: beside it in the conversation, once,
\* replayable while nobody could receive it (websocket-server.js:458), and from a
\* run that resumed its own conversation's context (executor.js:1507), unless the
\* conversation has had a message in the queue of another, which hands over its
\* session (executor.js:4096).
AnswersFindTheirPlace == AnswerBesideQuestion /\ MessageOnce /\ TextKept /\ OwnContext

\* The limits do what they are for: two adjacent minutes or hours do not add up to
\* more than twice the rate, the excluded do not count (message-policy.js:87),
\* and a compaction is enough for the next run (compactor.js).
LimitsHold == BurstBounded /\ ExcludedNotCounted /\ CompactedEnough

\* Housekeeping takes only what it is for: an eviction not what was written last,
\* a sweep no soul of a user and a boot whose writes succeed no agent, a compaction neither the
\* latest nor the marked messages, a refresh no rating, a failover not those that
\* are limited, and the list of agent conversations shows one of each pair.
HousekeepingSpares ==
  /\ EvictionSparesLastWritten /\ CustomSoulKept /\ BootRegistersAgents
  /\ RecentKept /\ MarkedIsNoted /\ RatingKept /\ LimitedIsSpared /\ CanonicalStable
===============================================================================
