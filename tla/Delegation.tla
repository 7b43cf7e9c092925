----------------------------- MODULE Delegation -----------------------------
(***************************************************************************)
(* Delegation between agents: an agent's turn may end with an              *)
(* AGENT_MESSAGE tag that names another agent by id or by name.  The       *)
(* router rejects messages that are too deep or close a loop; an accepted  *)
(* one starts a run of its target, which inherits the delegation context,  *)
(* while the sender waits for the reply and then takes another turn.       *)
(*                                                                         *)
(* One chain of agents waiting for each other is modelled: agents send one *)
(* message at a time, so the runs of one user message form a stack.        *)
(***************************************************************************)
EXTENDS Naturals, Sequences

CONSTANTS
    Agent,    \* agent (and workspace) ids, the values of `from`
    Alias,    \* agent names, which the prompt tells agents to use
    AgentOf,  \* agentManager.getAgent: what an id or a name resolves to
    MaxDepth  \* MAX_DELEGATION_DEPTH

Reference == Agent \cup Alias

ASSUME AgentAssumption ==
    /\ AgentOf \in [Reference -> Agent]
    /\ \A a \in Agent : AgentOf[a] = a

ASSUME DepthAssumption == MaxDepth \in Nat

VARIABLES
    chain,    \* the agents under way, each waiting for the next
    contexts  \* the delegationContext each of them was started with

vars == <<chain, contexts>>

\* The delegationContext null of an agent that a user's message started.
NoContext == [depth |-> 0, path |-> {}, originator |-> {}]
Context == [depth : Nat, path : SUBSET Agent, originator : SUBSET Agent]

TypeOK ==
    /\ chain \in Seq(Agent)
    /\ contexts \in Seq(Context)
    /\ Len(contexts) = Len(chain)

Init == chain = <<>> /\ contexts = <<>>

-----------------------------------------------------------------------------
Sender == chain[Len(chain)]
Received == contexts[Len(contexts)]

\* chainDepth, chainPath and originatorId of the message about to be sent.
\* Mutant: the sender is left out of the path.
PathOfReceived == IF Len(chain) = 1 THEN {Sender} ELSE Received.path
ChainPath == IF Len(chain) = 1 THEN {Sender} ELSE Received.path \cup {Sender}
ChainDepth == IF Len(chain) = 1 THEN 0 ELSE Received.depth + 1
Originator == IF Len(chain) = 1 THEN {Sender} ELSE Received.originator

\* Mutant: one hop more.
NotYetPastLimit == ChainDepth <= MaxDepth + 1
WithinDepth == ChainDepth <= MaxDepth
NotSelf(to) == to # Sender /\ AgentOf[to] # Sender
NoLoop(to) ==
    /\ to \notin ChainPath
    /\ ChainDepth > 0 => to \notin Originator

\* A user message: the executor runs agent a without a delegation context.
Start(a) ==
    /\ chain = <<>>
    /\ chain' = <<a>>
    /\ contexts' = <<NoContext>>

\* The tag of the agent at work passes every check of sendMessage.
Send(to) ==
    /\ chain # <<>>
    /\ NotSelf(to)
    /\ WithinDepth
    /\ NoLoop(to)
    /\ chain' = Append(chain, AgentOf[to])
    /\ contexts' = Append(contexts, [depth |-> ChainDepth,
                                     path |-> ChainPath,
                                     originator |-> Originator])

\* Mutant: the sender goes on in the context of the agent that replied.
KeepContext == UNCHANGED contexts
RestoreContext == contexts' = SubSeq(contexts, 1, Len(contexts) - 1)

\* The agent at work replies; its sender, if there is one, is resumed with the
\* context it had.
Reply ==
    /\ chain # <<>>
    /\ chain' = SubSeq(chain, 1, Len(chain) - 1)
    /\ RestoreContext

Next ==
    \/ \E a \in Agent : Start(a)
    \/ \E to \in Reference : Send(to)
    \/ Reply

Spec == Init /\ [][Next]_vars

-----------------------------------------------------------------------------
Senders(n) == {chain[j] : j \in 1..n}

\* The context an agent runs under tells the truth about the chain above it,
\* however often the agents above have been resumed and have sent again.
ContextIsChain ==
    \A i \in 2..Len(chain) :
        /\ contexts[i].depth = i - 2
        /\ contexts[i].path = Senders(i - 1)
        /\ contexts[i].originator = {chain[1]}

\* Messages are nested at most MaxDepth levels below the first one.
DepthBounded == Len(chain) <= MaxDepth + 2

\* No agent waits, directly or through others, for itself.
NoAgentTwice == \A i, j \in 1..Len(chain) : chain[i] = chain[j] => i = j
=============================================================================
