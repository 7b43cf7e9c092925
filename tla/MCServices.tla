------------------------------ MODULE MCServices ------------------------------
(***************************************************************************)
(* The services with something that must happen in the end, and the chains *)
(* of delegation, in one run.  They share no state, so a behaviour is that *)
(* of one of them while the others rest as they began: what the run        *)
(* explores is the sum of the components, never their product.  Each       *)
(* component's fairness is that of its own specification; a component that *)
(* rests has none of its fair steps enabled.                               *)
(***************************************************************************)
EXTENDS ConversationFile, Lifecycle, LaneQueue, Webhooks, TaskPlanner, GroupChat, Provider, RunOutput, Statistics, Config, ErrorAnalysis, MCDelegation

CONSTANTS q1, q2, q3

VARIABLE part  \* the part this behaviour is of

\* The order in which the participants of the group are asked.
Order == <<q1, q2, q3>>

\* What a component that rests begins with, where it may begin with several things.
One(S) == CHOOSE x \in S : TRUE

Part == {"store", "life", "lane", "hook", "plan", "group", "provider", "output", "stats", "config", "errors", "delegation"}

SumInit ==
  /\ part \in Part
  /\ StoreInit /\ LifecycleInit /\ LaneInit /\ WebhookInit
  /\ PlannerInit /\ GroupInit /\ ProviderInit /\ OutputInit
  /\ StatsInit /\ ConfigInit /\ ErrorInit /\ Init
  /\ part # "hook" => hookOf = One([Delivery -> Hook])
  /\ part # "group" => groupFrom = One([ChatMessage -> Participant])
  /\ part # "provider" => vendor = "openai"
  /\ part # "config" => configFile = Absent

SumNext ==
  \/ /\ part = "store" /\ StoreNext
     /\ UNCHANGED <<part, lifeVars, laneVars, hookVars, planVars, groupVars, providerVars,
                     outVars, statVars, configVars, errorVars, vars>>
  \/ /\ part = "life" /\ LifecycleNext
     /\ UNCHANGED <<part, storeVars, laneVars, hookVars, planVars, groupVars, providerVars,
                     outVars, statVars, configVars, errorVars, vars>>
  \/ /\ part = "lane" /\ LaneNext
     /\ UNCHANGED <<part, storeVars, lifeVars, hookVars, planVars, groupVars, providerVars,
                     outVars, statVars, configVars, errorVars, vars>>
  \/ /\ part = "hook" /\ WebhookNext
     /\ UNCHANGED <<part, storeVars, lifeVars, laneVars, planVars, groupVars, providerVars,
                     outVars, statVars, configVars, errorVars, vars>>
  \/ /\ part = "plan" /\ PlannerNext
     /\ UNCHANGED <<part, storeVars, lifeVars, laneVars, hookVars, groupVars, providerVars,
                     outVars, statVars, configVars, errorVars, vars>>
  \/ /\ part = "group" /\ GroupNext
     /\ UNCHANGED <<part, storeVars, lifeVars, laneVars, hookVars, planVars, providerVars,
                     outVars, statVars, configVars, errorVars, vars>>
  \/ /\ part = "provider" /\ ProviderNext
     /\ UNCHANGED <<part, storeVars, lifeVars, laneVars, hookVars, planVars, groupVars,
                     outVars, statVars, configVars, errorVars, vars>>
  \/ /\ part = "output" /\ OutputNext
     /\ UNCHANGED <<part, storeVars, lifeVars, laneVars, hookVars, planVars, groupVars,
                     providerVars, statVars, configVars, errorVars, vars>>
  \/ /\ part = "stats" /\ StatsNext
     /\ UNCHANGED <<part, storeVars, lifeVars, laneVars, hookVars, planVars, groupVars,
                     providerVars, outVars, configVars, errorVars, vars>>
  \/ /\ part = "config" /\ ConfigNext
     /\ UNCHANGED <<part, storeVars, lifeVars, laneVars, hookVars, planVars, groupVars,
                     providerVars, outVars, statVars, errorVars, vars>>
  \/ /\ part = "errors" /\ ErrorNext
     /\ UNCHANGED <<part, storeVars, lifeVars, laneVars, hookVars, planVars, groupVars,
                     providerVars, outVars, statVars, configVars, vars>>
  \/ /\ part = "delegation" /\ Next
     /\ UNCHANGED <<part, storeVars, lifeVars, laneVars, hookVars, planVars, groupVars,
                     providerVars, outVars, statVars, configVars, errorVars>>

sumVars == <<part, storeVars, lifeVars, laneVars, hookVars, planVars, groupVars,
            providerVars, outVars, statVars, configVars, errorVars, vars>>

SumFairness ==
  /\ StoreFairness /\ LifecycleFairness /\ LaneFairness /\ WebhookFairness
  /\ PlannerFairness /\ GroupFairness /\ ProviderFairness /\ OutputFairness
  /\ StatsFairness /\ ConfigFairness /\ ErrorFairness

Services == SumInit /\ [][SumNext]_sumVars /\ SumFairness

\* Every variable of every service is of its type.
ServicesTypeOK ==
  /\ StoreTypeOK /\ LifecycleTypeOK /\ LaneTypeOK /\ WebhookTypeOK
  /\ PlannerTypeOK /\ GroupTypeOK /\ ProviderTypeOK /\ OutputTypeOK
  /\ StatsTypeOK /\ ConfigTypeOK /\ ErrorTypeOK /\ TypeOK

\* What may come several times is taken in once, and told as it was: a task that
\* is retried or cleared (lane-queue.js:179), a use of a tool and a text that are
\* streamed and then told whole (executor.js:72, 2005), the end of an API run
\* (openai-provider.js:331), the answer of a webhook's receiver
\* (webhook-manager.js:155).
OnceAndExact == QueuedOnce /\ OneResult /\ HistoryIsExact /\ AnswerSaidOnce /\ LogTellsAnswer

\* Whoever is asked later knows what came before: a step of a plan the answers
\* and facts of the earlier ones (task-planner.js:434), a participant the replies
\* of those asked before (group-chat.js:160), the API the result of each of its
\* tool calls (openai-provider.js:282); and steps of a plan keep their order.
KnowsWhatCameBefore == InOrder /\ FactsAreHandedOn /\ LaterSeeEarlier /\ CallsAreAnswered

\* A fault does no more harm than the code accepts: a crash or a failed write
\* leaves a conversations file that can be read and is not older
\* (conversation-manager.js:75); the sweep after a crash and the shutdown spare the
\* processes of others (pid-registry.js:101, 163), unless the system has given one
\* of them a remembered pid, or a run of an HTTP provider, whose pid -1 means every
\* process (openai-provider.js:381), was under way at the end of a server or its
\* entry is still on file because the write that takes it off failed; a failing
\* analysis is not analysed again (error-analyzer.js:346); a task that fails or
\* times out does not take another's place (lane-queue.js:179); a restart forgets
\* no spending that is on file, unless a crash or a failed write has cut the file
\* short (usage-tracker.js:303); a half-written configuration changes nothing
\* (config.js:164).
FaultsDoNoHarm ==
  /\ [](StoreReadable /\ SparesOthers /\ NoCascade /\ WaitingTaskKept)
  /\ StoreNeverOlder /\ SpendingStays /\ HalfWritesDoNothing

\* Memory and files meet in the end, whatever timer, lock or half-written file
\* stood between: conversations, the configuration, and recorded answers, these
\* only if the save does not fail, since nothing tries again before the next answer
\* (agent-outputs.js:267).
FilesCatchUp == StoreSaved /\ AnswersAreSaved /\ EditTakesEffect

\* What was begun ends, whoever fails, refuses or times out: a task of a lane, a
\* delivery, a plan, a round of a group, the analysis of an error.
WorkEnds ==
  LaneServed /\ AcceptedIsLogged /\ PlanEnds /\ RoundReachesAll /\ FailureIsLogged

\* No process outlives its use: agents of a crashed server (pid-registry.js:80),
\* the server that shuts down (index.js:599), a run of an API provider
\* (openai-provider.js:391), a run that has told its result (executor.js:2269).
ProcessesEnd == OrphansDie /\ ShutdownEnds /\ EndIsReported /\ AnsweredProcessEnds
===============================================================================
