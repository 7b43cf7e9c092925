----------------------------- MODULE Lifecycle ------------------------------
(***************************************************************************)
(* The server process and the agent processes it leaves behind: the        *)
(* PidRegistry with its file children.json, the sweep of orphans at boot   *)
(* and by the health watchdog, graceful shutdown, and crashes.             *)
(*                                                                         *)
(* Agents are started detached: they outlive the server.  SIGTERM may be   *)
(* ignored, SIGKILL may not.  The operating system gives a pid that is     *)
(* free to the next process, of this system or of another.                 *)
(*                                                                         *)
(* A run of an HTTP provider (openai-provider.js, ollama-provider.js) is   *)
(* no process: all of them are registered under the pid -1.  To kill(2)    *)
(* that is every process the user may signal, and the "group" of it is     *)
(* init, which a normal user may not.  A failed write of the registry is   *)
(* logged and forgotten.                                                   *)
(***************************************************************************)
EXTENDS Naturals, FiniteSets

CONSTANTS
    Pid,
    Fake,        \* the pid -1 of the runs of an HTTP provider
    MaxQueue     \* bound: messages waiting behind the running agents

ASSUME LifecycleAssumption == MaxQueue \in Nat /\ Fake \notin Pid

VARIABLES
    lifeProc,      \* what runs under each pid
    lifeServer,    \* phase of the server process
    lifeChildren,  \* PidRegistry.children
    lifeFile,      \* children.json
    lifeApi,       \* a run of an HTTP provider has not reported its end
    lifeStarted,   \* agents the present server started, and still its children
    lifeVictims,   \* pids a pending SIGKILL timer will signal
    lifeQueue,     \* messages queued behind a running agent
    lifeClients,   \* a browser is connected
    lifeMisled,    \* history: what the registry remembers may be another's.  A foreign process
                   \* got a pid of it, a server ended while lifeApi, or a failed write left
                   \* Fake on file
    lifeStruck     \* history: the server has signalled a foreign process when not misled

lifeVars == <<lifeProc, lifeServer, lifeChildren, lifeFile, lifeApi, lifeStarted, lifeVictims,
              lifeQueue, lifeClients, lifeMisled, lifeStruck>>
lifeWork == <<lifeQueue, lifeClients>>
lifeHistory == <<lifeMisled, lifeStruck>>

\* "closing": waiting for server.close; "killing": in the grace of killAll.
ServerPhase == {"down", "up", "closing", "killing"}

LifecycleTypeOK ==
    /\ lifeProc \in [Pid -> {"free", "agent", "foreign"}]
    /\ lifeServer \in ServerPhase
    /\ lifeChildren \subseteq lifeStarted \cup {Fake} /\ lifeStarted \subseteq Pid
    /\ lifeFile \subseteq Pid \cup {Fake}
    /\ lifeVictims \in [{"boot", "watchdog", "killAll"} -> SUBSET (Pid \cup {Fake})]
    /\ lifeApi \in BOOLEAN
    /\ lifeQueue \in 0..MaxQueue
    /\ lifeClients \in BOOLEAN
    /\ lifeMisled \in BOOLEAN /\ lifeStruck \in BOOLEAN

Nobody == [timer \in {"boot", "watchdog", "killAll"} |-> {}]

LifecycleInit ==
    /\ lifeProc = [p \in Pid |-> "free"]
    /\ lifeServer = "down"
    /\ lifeChildren = {}
    /\ lifeFile = {}
    /\ lifeApi = FALSE
    /\ lifeStarted = {}
    /\ lifeVictims = Nobody
    /\ lifeQueue = 0
    /\ lifeClients = FALSE
    /\ lifeMisled = FALSE
    /\ lifeStruck = FALSE

Running == lifeServer # "down"
Alive(p) == IF p = Fake THEN TRUE ELSE lifeProc[p] # "free"
Orphans == {p \in Pid : lifeProc[p] = "agent" /\ p \notin lifeStarted}

\* SIGTERM, to the group and, where that fails, to the pid; the process ends or ignores it.
Reached(pids) == IF Fake \in pids THEN Pid ELSE pids
\* SIGKILL, to the group only.
Killed(pids) == [p \in Pid |-> IF p \in pids THEN "free" ELSE lifeProc[p]]
Struck(pids) ==
    lifeStruck' = (lifeStruck \/ (~lifeMisled' /\ \E p \in pids : lifeProc[p] = "foreign"))

\* _persist.
Persisted ==
    \/ lifeFile' = lifeChildren' /\ UNCHANGED lifeMisled
    \/ lifeFile' = lifeFile /\ lifeMisled' = (lifeMisled \/ Fake \in lifeFile \ lifeChildren')

\* register and unregister.
Register(p) ==
    /\ lifeChildren' = lifeChildren \cup {p}
    /\ Persisted
Unregister(p) ==
    /\ lifeChildren' = lifeChildren \ {p}
    /\ IF p \in lifeChildren THEN Persisted ELSE UNCHANGED <<lifeFile, lifeMisled>>

-----------------------------------------------------------------------------
(* Agents.                                                                  *)

StartChild(p) ==
    /\ \/ /\ p = Fake
          /\ lifeApi' = TRUE
          /\ UNCHANGED <<lifeProc, lifeStarted>>
       \/ /\ p # Fake /\ lifeProc[p] = "free"
          /\ lifeProc' = [lifeProc EXCEPT ![p] = "agent"]
          /\ lifeStarted' = lifeStarted \cup {p}
          /\ UNCHANGED lifeApi
    /\ Register(p)
    /\ UNCHANGED <<lifeServer, lifeVictims, lifeClients, lifeStruck>>

\* A message from a browser, a cron job or another agent.
StartAgent(p) ==
    /\ lifeServer = "up"
    /\ StartChild(p)
    /\ UNCHANGED lifeQueue

\* A message that found the agent busy.
QueueMessage ==
    /\ lifeServer = "up"
    /\ lifeChildren # {} \/ lifeApi
    /\ lifeQueue < MaxQueue
    /\ lifeQueue' = lifeQueue + 1
    /\ UNCHANGED <<lifeProc, lifeServer, lifeChildren, lifeFile, lifeApi, lifeStarted, lifeVictims,
                   lifeClients, lifeHistory>>

\* _flushPendingQueue after the run it waited behind, which may be one of
\* several: _shuttingDown, which should prevent it, is never set.
StartQueued(p) ==
    /\ Running
    /\ lifeQueue > 0
    /\ lifeQueue' = lifeQueue - 1
    /\ StartChild(p)

\* Mutant: the close event does not reach the registry.
EndsUnnoticed(p) ==
    /\ lifeProc[p] # "free"
    /\ lifeProc' = [lifeProc EXCEPT ![p] = "free"]
    /\ lifeStarted' = lifeStarted \ {p}
    /\ UNCHANGED <<lifeServer, lifeChildren, lifeFile, lifeApi, lifeVictims, lifeWork, lifeHistory>>

\* A process ends, by itself or by a signal it does not ignore; the close
\* event of a child makes the executor unregister it.
ProcessEnds(p) ==
    /\ lifeProc[p] # "free"
    /\ lifeProc' = [lifeProc EXCEPT ![p] = "free"]
    /\ Unregister(p)
    /\ lifeStarted' = lifeStarted \ {p}
    /\ UNCHANGED <<lifeServer, lifeApi, lifeVictims, lifeWork, lifeStruck>>

\* Mutant: the end of an HTTP run does not reach the registry.
ApiRunEndsUnnoticed ==
    /\ Running /\ lifeApi
    /\ lifeApi' \in BOOLEAN
    /\ UNCHANGED <<lifeProc, lifeServer, lifeChildren, lifeFile, lifeStarted, lifeVictims, lifeWork,
                   lifeHistory>>

\* A run of an HTTP provider reports its end: the others lose their entry too.
ApiRunEnds ==
    /\ Running /\ lifeApi
    /\ lifeApi' \in BOOLEAN
    /\ Unregister(Fake)
    /\ UNCHANGED <<lifeProc, lifeServer, lifeStarted, lifeVictims, lifeWork, lifeStruck>>

\* abort(): SIGTERM, and unregistered whether it dies or not; what waits behind
\* it is dropped.
AbortAgent(p) ==
    /\ lifeServer = "up"
    /\ IF p = Fake THEN lifeApi /\ lifeApi' \in BOOLEAN
                   ELSE p \in lifeChildren /\ UNCHANGED lifeApi
    /\ Unregister(p)
    /\ lifeQueue' \in 0..lifeQueue
    /\ UNCHANGED <<lifeProc, lifeServer, lifeStarted, lifeVictims, lifeClients, lifeStruck>>

\* Another program of the machine.
ForeignStarts(p) ==
    /\ lifeProc[p] = "free"
    /\ lifeProc' = [lifeProc EXCEPT ![p] = "foreign"]
    /\ lifeMisled' = (lifeMisled \/ p \in lifeFile \cup lifeChildren
                                 \/ \E timer \in DOMAIN lifeVictims : p \in lifeVictims[timer])
    /\ UNCHANGED <<lifeServer, lifeChildren, lifeFile, lifeApi, lifeStarted, lifeVictims, lifeWork,
                   lifeStruck>>

-----------------------------------------------------------------------------
(* Boot and sweeps.                                                         *)

\* Mutant: every agent of the machine is swept, known or not.
BootSweepsAll ==
    /\ lifeServer = "down"
    /\ lifeServer' = "up"
    /\ lifeVictims' = [lifeVictims EXCEPT !["boot"] = Pid]
    /\ lifeFile' = {}
    /\ UNCHANGED <<lifeProc, lifeChildren, lifeApi, lifeStarted, lifeWork, lifeMisled>>
    /\ Struck({p \in Pid : Alive(p)})

\* cleanupOrphans: SIGTERM to what is alive, SIGKILL three seconds later to what
\* is alive then, and the file is cleared at once.
Boot ==
    /\ lifeServer = "down"
    /\ lifeServer' = "up"
    /\ lifeVictims' = [lifeVictims EXCEPT !["boot"] =
           IF \E p \in lifeFile : Alive(p) THEN lifeFile ELSE {}]
    /\ UNCHANGED <<lifeProc, lifeChildren, lifeApi, lifeStarted, lifeWork>>
    /\ IF lifeFile # {} THEN Persisted ELSE UNCHANGED <<lifeFile, lifeMisled>>
    /\ Struck(Reached(lifeFile))

\* The watchdog asks ps for agents whose parent is init.
WatchdogSweep ==
    /\ lifeServer = "up"
    /\ Orphans \ lifeChildren # {}
    /\ lifeVictims["watchdog"] = {}
    /\ lifeVictims' = [lifeVictims EXCEPT !["watchdog"] = Orphans \ lifeChildren]
    /\ UNCHANGED <<lifeProc, lifeServer, lifeChildren, lifeFile, lifeApi, lifeStarted, lifeWork,
                   lifeHistory>>

\* Mutant: the sweep is content with SIGTERM.
GiveUp(timer) ==
    /\ timer # "killAll" /\ Running
    /\ lifeVictims[timer] # {}
    /\ lifeVictims' = [lifeVictims EXCEPT ![timer] = {}]
    /\ UNCHANGED <<lifeProc, lifeServer, lifeChildren, lifeFile, lifeApi, lifeStarted, lifeWork,
                   lifeHistory>>

\* Three seconds later: SIGKILL, by pid.  A child that got such a pid dies too.
KillSurvivors(timer) ==
    LET victims == lifeVictims[timer] \ {Fake}
    IN /\ timer # "killAll" /\ Running
       /\ lifeVictims[timer] # {}
       /\ lifeProc' = Killed(victims)
       /\ lifeVictims' = [lifeVictims EXCEPT ![timer] = {}]
       /\ lifeChildren' = lifeChildren \ victims
       /\ IF lifeChildren \cap victims # {} THEN Persisted ELSE UNCHANGED <<lifeFile, lifeMisled>>
       /\ Struck(victims)
       /\ lifeStarted' = lifeStarted \ victims
       /\ UNCHANGED <<lifeServer, lifeApi, lifeWork>>

-----------------------------------------------------------------------------
(* Shutdown and crash.                                                      *)

ClientComes ==
    /\ lifeServer = "up"
    /\ lifeClients' = TRUE
    /\ UNCHANGED <<lifeProc, lifeServer, lifeChildren, lifeFile, lifeApi, lifeStarted, lifeVictims,
                   lifeQueue, lifeHistory>>
ClientLeaves ==
    /\ lifeClients
    /\ lifeClients' = FALSE
    /\ UNCHANGED <<lifeProc, lifeServer, lifeChildren, lifeFile, lifeApi, lifeStarted, lifeVictims,
                   lifeQueue, lifeHistory>>

\* gracefulShutdown closes the servers; server.close calls back when the last
\* connection is gone, WebSockets included.
Signal ==
    /\ lifeServer = "up"
    /\ lifeServer' = "closing"
    /\ UNCHANGED <<lifeProc, lifeChildren, lifeFile, lifeApi, lifeStarted, lifeVictims, lifeWork,
                   lifeHistory>>

\* The process is gone; its agents now belong to init.
Gone ==
    /\ lifeServer' = "down"
    /\ lifeChildren' = {}
    /\ lifeApi' = FALSE /\ lifeMisled' = (lifeMisled \/ lifeApi)
    /\ lifeStarted' = {}
    /\ lifeVictims' = Nobody
    /\ lifeQueue' = 0
    /\ lifeClients' = FALSE

\* flushSync, then killAll: SIGTERM to the registered, three seconds of grace.
\* A second signal gets here without waiting: server.close refuses to close twice.
KillAll ==
    /\ lifeServer = "closing"
    /\ IF lifeChildren = {}
       THEN Gone
       ELSE /\ lifeServer' = "killing"
            /\ lifeVictims' = [lifeVictims EXCEPT !["killAll"] = lifeChildren]
            /\ lifeMisled' = (lifeMisled \/ lifeApi)
            /\ UNCHANGED <<lifeChildren, lifeApi, lifeStarted, lifeWork>>
    /\ Struck(Reached(lifeChildren))
    /\ UNCHANGED <<lifeProc, lifeFile>>
CloseEnds == ~lifeClients /\ KillAll
SecondSignal == KillAll

\* Mutant: the exit waits until all victims have ended.
ExitWhenDead ==
    /\ lifeServer = "killing"
    /\ \A p \in lifeVictims["killAll"] \ {Fake} : ~Alive(p)
    /\ lifeFile' \in {{}, lifeFile}
    /\ Gone
    /\ UNCHANGED <<lifeProc, lifeStruck>>

\* The rest of killAll: SIGKILL, an empty registry on disk, process.exit(0).
Exit ==
    /\ lifeServer = "killing"
    /\ lifeProc' = Killed(lifeVictims["killAll"])
    /\ lifeFile' \in {{}, lifeFile}
    /\ Gone
    /\ Struck(lifeVictims["killAll"] \ {Fake})

Crash ==
    /\ Running
    /\ Gone
    /\ UNCHANGED <<lifeProc, lifeFile, lifeStruck>>

LifecycleNext ==
    \/ \E p \in Pid \cup {Fake} : StartAgent(p) \/ StartQueued(p) \/ AbortAgent(p)
    \/ \E p \in Pid : ProcessEnds(p) \/ ForeignStarts(p)
    \/ ApiRunEnds
    \/ QueueMessage \/ ClientComes \/ ClientLeaves
    \/ Boot \/ WatchdogSweep \/ \E timer \in {"boot", "watchdog"} : KillSurvivors(timer)
    \/ Signal \/ CloseEnds \/ SecondSignal \/ Exit \/ Crash

\* Timers fire and browsers do not stay for ever on a server that is closing.
LifecycleFairness ==
    /\ WF_lifeVars(WatchdogSweep)
    /\ WF_lifeVars(\E timer \in {"boot", "watchdog"} : KillSurvivors(timer))
    /\ WF_lifeVars(lifeServer = "closing" /\ ClientLeaves)
    /\ WF_lifeVars(CloseEnds)
    /\ WF_lifeVars(Exit)

-----------------------------------------------------------------------------
\* No process of another program is signalled, unless the operating system has
\* given it a pid the registry remembers, or a server has ended during a run of
\* an HTTP provider, or after one whose end could not be written to the file.
SparesOthers == ~lifeStruck

\* Whatever crashed, and however often, once a server stays up no agent of an
\* earlier one stays alive.
OrphansDie == <>[](lifeServer = "up") => \A p \in Pid : []<>(p \notin Orphans)

\* A shutdown that has begun ends, even if agents ignore SIGTERM.
ShutdownEnds == (lifeServer = "closing") ~> (lifeServer = "down")
=============================================================================
