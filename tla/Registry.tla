------------------------------ MODULE Registry ------------------------------
(***************************************************************************)
(* The agents and the workspaces of the program: agents.json, kept by      *)
(* simple-agent-manager.js, workspaces.json and the directories under      *)
(* workspace/, kept by workspace-manager.js, the HTTP handlers and the     *)
(* [AGENT_CREATE] tag that change both, and the boot in index.js that      *)
(* sweeps, registers and synchronises them.                                *)
(*                                                                         *)
(* Every handler is synchronous, so nothing comes between its writes but a *)
(* crash: an operation is the trail of what it leaves behind after each of *)
(* its writes, and a crash or an exception cuts it anywhere.  A save of    *)
(* agents.json or workspaces.json that fails is logged and otherwise       *)
(* ignored: the handler goes on, and memory and file differ.               *)
(***************************************************************************)
EXTENDS Naturals, FiniteSets, Sequences, SequencesExt

CONSTANTS
    AgentId,        \* ids of agents, which are the ids of their workspaces
    DefaultId,      \* "default", the id of the workspace PROTOS
    Name,           \* names, compared without case
    DefaultName     \* PROTOS

ASSUME RegistryAssumption ==
    /\ DefaultId \in AgentId
    /\ DefaultName \in Name

VARIABLES
    disk,           \* agents.json and the directories as they are on disk, the
                    \* workspaces as WorkspaceManager has them in memory
    file,           \* workspaces.json
    phase,          \* of the program: "down", "boot" or "up"
    due,            \* the agents the boot has still to synchronise
    main,           \* the default workspace the boot has found or made
    failed,         \* a write or a removal failed, and no boot has swept since
    consent         \* the workspaces whose soul files the last operation may
                    \* replace: a forced deletion's, a newly registered agent's

registryVars == <<disk, file, phase, due, main, failed, consent>>

up == phase = "up"

NoWorkspace == "none"

\* A directory is absent, made but still without soul files, filled with the
\* generated soul files, or has soul files its user has written.
DirState == {"absent", "bare", "stock", "own"}

Disk == [agents : UNION {[S -> Name] : S \in SUBSET AgentId},
         spaces : UNION {[S -> Name] : S \in SUBSET AgentId},
         default : AgentId \union {NoWorkspace},
         dir : [AgentId -> DirState]]

Forget(f, id) == [x \in DOMAIN f \ {id} |-> f[x]]
Remember(f, id, name) == [x \in DOMAIN f \union {id} |-> IF x = id THEN name ELSE f[x]]

HasSoul(d, id) == d.dir[id] \in {"stock", "own"}
Taken(f, name) == \E id \in DOMAIN f : f[id] = name

WorkspaceList(d) == [spaces |-> d.spaces, default |-> d.default]
Reloaded(d, l) == [d EXCEPT !.spaces = l.spaces, !.default = l.default]

\* getWorkspace reads the file again when it is asked for an id that is not in
\* memory, and what was never written to it is forgotten.
Seen(id) == IF id \in DOMAIN disk.spaces THEN disk ELSE Reloaded(disk, file)

\* What an operation that began with d has left at its end.
After(d, trail) == IF trail = <<>> THEN d ELSE Last(trail)
Then(d, trail, Op(_)) == trail \o Op(After(d, trail))
-----------------------------------------------------------------------------
\* WorkspaceManager.

\* The template's or the default soul files, the memory directories and
\* SAFETY.md, whatever was there before.
Filled(d, id) == [d EXCEPT !.dir[id] = "stock"]

\* Mutant: only the id is looked up.
CreateAnyName(d, id, name) ==
    IF id \in DOMAIN d.spaces
    THEN <<>>
    ELSE LET filled == Filled(d, id)
         IN  <<filled,
               [filled EXCEPT !.spaces = Remember(@, id, name),
                              !.default = IF @ = NoWorkspace THEN id ELSE @]>>

\* A duplicate id or name returns the workspace that has it.  The directories
\* come before the entry.
CreateWorkspace(d, id, name) ==
    IF id \in DOMAIN d.spaces \/ Taken(d.spaces, name)
    THEN <<>>
    ELSE LET bare == [d EXCEPT !.dir[id] = IF HasSoul(d, id) THEN @ ELSE "bare"]
             filled == Filled(bare, id)
         IN  <<bare, filled,
               [filled EXCEPT !.spaces = Remember(@, id, name),
                              !.default = IF @ = NoWorkspace THEN id ELSE @]>>

\* Mutant: the default is kept.
DeleteKeepingDefault(d, id, force) ==
    IF \/ id \notin DOMAIN d.spaces
       \/ Cardinality(DOMAIN d.spaces) = 1
       \/ ~force /\ HasSoul(d, id)
    THEN <<>>
    ELSE LET gone == [d EXCEPT !.dir[id] = "absent"]
         IN  <<gone, [gone EXCEPT !.spaces = Forget(@, id)]>>

\* Mutant: the directory stays.
DeleteEntryOnly(d, id, force) ==
    IF \/ id \notin DOMAIN d.spaces
       \/ Cardinality(DOMAIN d.spaces) = 1
       \/ ~force /\ HasSoul(d, id)
    THEN <<>>
    ELSE <<[d EXCEPT !.spaces = Forget(@, id),
                     !.default = IF @ = id THEN CHOOSE x \in DOMAIN d.spaces \ {id} : TRUE ELSE @]>>

\* The new default is the first workspace that is left, here any.
DeleteWorkspace(d, id, force) ==
    IF \/ id \notin DOMAIN d.spaces
       \/ Cardinality(DOMAIN d.spaces) = 1
       \/ ~force /\ HasSoul(d, id)
    THEN <<>>
    ELSE LET gone == [d EXCEPT !.dir[id] = "absent"]
             left == DOMAIN d.spaces \ {id}
         IN  <<gone,
               [gone EXCEPT !.spaces = Forget(@, id),
                            !.default = IF @ = id THEN CHOOSE x \in left : TRUE ELSE @]>>

SweepOrphanWorkspaces(d) ==
    IF DOMAIN d.spaces = {}
    THEN d
    ELSE [d EXCEPT !.dir = [id \in AgentId |-> IF id \in DOMAIN d.spaces THEN @[id] ELSE "absent"]]
-----------------------------------------------------------------------------
\* simple-agent-manager.js.

\* A name another workspace has makes createWorkspace do nothing: without a
\* template the soul file then finds no directory, with one nobody notices.
CreateAgent(d, id, name, template) ==
    IF id \in DOMAIN d.agents
    THEN <<>>
    ELSE LET made == IF id \in DOMAIN d.spaces
                     THEN <<[d EXCEPT !.dir[id] = "stock"]>>
                     ELSE CreateWorkspace(d, id, name)
         IN  IF made = <<>> /\ ~template /\ d.dir[id] = "absent"
             THEN <<>>
             ELSE Append(made, [After(d, made) EXCEPT !.agents = Remember(@, id, name)])

\* Mutant: the guard that asks for force is missing.
DeleteAgentUnguarded(d, id, force, preserve) ==
    IF id \notin DOMAIN d.agents
    THEN <<>>
    ELSE LET gone == IF preserve THEN d ELSE [d EXCEPT !.dir[id] = "absent"]
         IN  <<gone, [gone EXCEPT !.agents = Forget(@, id)]>>

DeleteAgent(d, id, force, preserve) ==
    IF id \notin DOMAIN d.agents \/ (~force /\ HasSoul(d, id))
    THEN <<>>
    ELSE LET gone == IF preserve THEN d ELSE [d EXCEPT !.dir[id] = "absent"]
         IN  <<gone, [gone EXCEPT !.agents = Forget(@, id)]>>
-----------------------------------------------------------------------------
\* The files that d has otherwise than from.
FilesChanged(from, d) ==
    {f \in {"agents", "workspaces"} :
        IF f = "agents" THEN d.agents # from.agents ELSE WorkspaceList(d) # WorkspaceList(from)}

\* What is left of d when the saves of `lost` have failed.
MemoryAfter(from, d, lost) == IF "agents" \in lost THEN [d EXCEPT !.agents = from.agents] ELSE d
FileAfter(from, d, lost) ==
    IF "workspaces" \in FilesChanged(from, d) \ lost THEN WorkspaceList(d) ELSE file

LivesOn(from, d, lost) ==
    /\ disk' = MemoryAfter(from, d, lost)
    /\ file' = FileAfter(from, d, lost)

\* The memory of a program that is down is what it will read.
Dies(from, d, lost) ==
    /\ file' = FileAfter(from, d, lost)
    /\ disk' = Reloaded(MemoryAfter(from, d, lost), file')
    /\ phase' = "down" /\ due' = {} /\ main' = NoWorkspace

\* What writes this trail runs to its end; or a file operation throws, which a
\* handler answers and a boot ends with; or the program dies after a write.
Ends(from, trail, next, left, bad) ==
    \/ \E lost \in SUBSET FilesChanged(from, After(from, trail)) :
           /\ LivesOn(from, After(from, trail), lost)
           /\ phase' = next /\ due' = left
           /\ failed' = (bad \/ lost # {})
    \/ \E i \in 1 .. Len(trail) - 1 : \E lost \in SUBSET FilesChanged(from, trail[i]) :
           \/ /\ next = "up"
              /\ LivesOn(from, trail[i], lost)
              /\ phase' = "up" /\ due' = {}
              /\ failed' = TRUE
           \/ /\ Dies(from, trail[i], lost)
              /\ failed' = (bad \/ lost # {})

Runs(from, trail, ids) ==
    /\ up
    /\ trail # <<>>
    /\ consent' = ids /\ main' = NoWorkspace
    /\ Ends(from, trail, "up", {}, failed)

\* An id made from a random number or the time.
FreshId(id) ==
    /\ id \notin DOMAIN disk.spaces \union DOMAIN file.spaces \union DOMAIN disk.agents
    /\ disk.dir[id] = "absent"

\* POST /api/agents takes an id, a name and a template of its caller.
AddAgent(id, name, template) == Runs(Seen(id), CreateAgent(Seen(id), id, name, template), {id})

\* [AGENT_CREATE] in an answer makes the id itself, takes the template its
\* skills match, and asks for a name no agent has.
AgentCreateTag(id, name, template) ==
    /\ FreshId(id)
    /\ ~Taken(disk.agents, name)
    /\ Runs(Seen(id), CreateAgent(Seen(id), id, name, template), {id})

\* POST /api/workspaces: the list is read again, a new id and a name no workspace
\* has, and an agent of the same name when the caller wants an icon.
AddWorkspace(id, name, icon) ==
    /\ FreshId(id)
    /\ LET from == Reloaded(disk, file)
           made == CreateWorkspace(from, id, name)
       IN  Runs(from,
                IF icon /\ made # <<>>
                THEN made \o CreateAgent(Last(made), id, name, FALSE)
                ELSE made, {})

\* DELETE /api/agents/:id: the workspace goes without force, which its guard
\* allows because the directory is gone.
RemoveAgent(id, force, preserve) ==
    Runs(Seen(id),
         LET gone == DeleteAgent(Seen(id), id, force, preserve)
         IN  IF gone = <<>> \/ preserve
             THEN gone
             ELSE gone \o DeleteWorkspace(Last(gone), id, FALSE),
         IF force THEN {id} ELSE {})

\* DELETE /api/workspaces/:id: what deleteAgent refuses is ignored.
RemoveWorkspace(id, force) ==
    Runs(Seen(id),
         Then(Seen(id), DeleteAgent(Seen(id), id, force, FALSE),
              LAMBDA d : DeleteWorkspace(d, id, force)),
         IF force THEN {id} ELSE {})

\* Mutant: an update without a name clears it.
UpdateAgentBlindly(id, name) ==
    /\ id \in DOMAIN disk.agents
    /\ Runs(disk, <<[disk EXCEPT !.agents[id] = NoWorkspace]>>, {})

\* PUT /api/agents/:id changes the name of the agent, not of its workspace.
UpdateAgent(id, name) ==
    /\ id \in DOMAIN disk.agents
    /\ Runs(disk, <<[disk EXCEPT !.agents[id] = name]>>, {})

SaveSoulFile(id) ==
    /\ id \in DOMAIN Seen(id).spaces
    /\ Runs(Seen(id), <<[Seen(id) EXCEPT !.dir[id] = "own"]>>, {})

\* listWorkspaces and getWorkspace of an id nobody has read the file again.
ListWorkspaces ==
    /\ up
    /\ disk' = Reloaded(disk, file)
    /\ consent' = {}
    /\ UNCHANGED <<file, phase, due, main, failed>>

RegistryCrash ==
    /\ phase # "down"
    /\ Dies(disk, disk, {})
    /\ consent' = {}
    /\ UNCHANGED failed
-----------------------------------------------------------------------------
\* The boot: the sweep, the default workspace, a workspace for every agent
\* that has none, and an agent for the default workspace.
FirstWorkspace(d) ==
    IF d.default \in DOMAIN d.spaces THEN <<>> ELSE CreateWorkspace(d, DefaultId, DefaultName)

\* Mutant: the agents are not looked at.
SyncNone(d, id) == <<>>

SyncWorkspace(d, id) == CreateWorkspace(d, id, d.agents[id])

\* The workspace the boot began with, whatever was read again since.
DefaultAgent(d) ==
    CreateAgent(d, main, IF main \in DOMAIN d.spaces THEN d.spaces[main] ELSE DefaultName, FALSE)

\* A sweep that fails leaves what it has not yet removed, here everything.
RegistryBoot ==
    /\ phase = "down"
    /\ consent' = {}
    /\ \E swept \in {SweepOrphanWorkspaces(disk), disk} :
           LET trail == Then(disk, <<swept>>, FirstWorkspace)
           IN  /\ Ends(disk, trail, "boot", DOMAIN Last(trail).agents,
                       IF swept = SweepOrphanWorkspaces(disk) THEN failed /\ DOMAIN disk.spaces = {} ELSE TRUE)
               /\ phase' = "boot" => main' = Last(trail).default

\* One turn of the loop over the agents, here in any order.
BootSync(id) ==
    /\ phase = "boot" /\ id \in due
    /\ consent' = {}
    /\ Ends(Seen(id), SyncWorkspace(Seen(id), id), "boot", due \ {id}, failed)
    /\ phase' = "boot" => main' = main

BootEnds ==
    /\ phase = "boot" /\ due = {}
    /\ consent' = {main} \ DOMAIN disk.agents
    /\ Ends(Seen(main), DefaultAgent(Seen(main)), "up", {}, failed)
    /\ main' = NoWorkspace
-----------------------------------------------------------------------------
RegistryInit ==
    /\ disk = [agents |-> <<>>, spaces |-> <<>>, default |-> NoWorkspace,
               dir |-> [id \in AgentId |-> "absent"]]
    /\ file = WorkspaceList(disk)
    /\ phase = "down" /\ due = {} /\ main = NoWorkspace
    /\ failed = FALSE /\ consent = {}

RegistryNext ==
    \/ \E id \in AgentId, name \in Name, b \in BOOLEAN :
           AddAgent(id, name, b) \/ AgentCreateTag(id, name, b) \/ AddWorkspace(id, name, b)
    \/ \E id \in AgentId, name \in Name : UpdateAgent(id, name)
    \/ \E id \in AgentId, force, preserve \in BOOLEAN : RemoveAgent(id, force, preserve)
    \/ \E id \in AgentId, force \in BOOLEAN : RemoveWorkspace(id, force)
    \/ \E id \in AgentId : SaveSoulFile(id) \/ BootSync(id)
    \/ ListWorkspaces \/ RegistryCrash \/ RegistryBoot \/ BootEnds
-----------------------------------------------------------------------------
RegistryTypeOK ==
    /\ disk \in Disk
    /\ Reloaded(disk, file) \in Disk
    /\ file = WorkspaceList(Reloaded(disk, file))
    /\ phase \in {"down", "boot", "up"}
    /\ due \subseteq AgentId /\ consent \subseteq AgentId
    /\ main \in AgentId \union {NoWorkspace}
    /\ failed \in BOOLEAN

\* While the program runs and nothing it had to write or remove has failed since
\* a boot has swept, every directory under workspace/ belongs to an entry of
\* workspaces.json, so the sweep of the next boot removes only what a crash has
\* left (workspace-manager.js:338, 390, simple-agent-manager.js:714).
DirectoriesAreRegistered ==
    up /\ ~failed => \A id \in AgentId : disk.dir[id] # "absent" => id \in DOMAIN file.spaces

\* A running program of which no write has failed has a default workspace, and it
\* is one that exists, in memory and in the file (workspace-manager.js:811, 858).
DefaultExists ==
    up /\ ~failed => file.default \in DOMAIN file.spaces /\ WorkspaceList(disk) = file

\* No two workspaces have one name, in memory or in the file, whichever way agents
\* and workspaces are created, renamed and synchronised and whatever of it is
\* written (workspace-manager.js:413).
NamesAreUnique ==
    \A spaces \in {disk.spaces, file.spaces} :
        \A v, w \in DOMAIN spaces : spaces[v] = spaces[w] => v = w

\* Soul files their user has written stay, as long as their workspace is listed,
\* unless a deletion was forced or an agent is registered for the workspace, which
\* writes the generated ones over them: neither a crash nor a failed write nor a
\* boot nor a refused deletion loses them (simple-agent-manager.js:714,
\* workspace-manager.js:837).
OwnSoulsStay ==
    \A id \in DOMAIN disk.spaces :
        disk.dir[id] = "own" /\ disk'.dir[id] # "own" => id \in consent'
CustomSoulKept == [][OwnSoulsStay]_registryVars

\* A boot that comes through with all its writes leaves an agent without a
\* workspace only when a workspace of another agent has its name (index.js:313).
AgentsAreServed ==
    ~up /\ up' /\ ~failed' =>
        \A id \in DOMAIN disk'.agents \ DOMAIN disk'.spaces :
            Taken(disk'.spaces, disk'.agents[id])
BootRegistersAgents == [][AgentsAreServed]_registryVars
=============================================================================
