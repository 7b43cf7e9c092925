-------------------------- MODULE DelegationProofs --------------------------
(* Theorems about Delegation for any agents, names and depth limit.          *)
EXTENDS Delegation, SequenceTheorems, TLAPS

-----------------------------------------------------------------------------
(* A step pushes one agent with its context or pops the last one.            *)

LEMMA PushEffect ==
    ASSUME TypeOK, NEW a \in Agent, NEW c \in Context,
           chain' = Append(chain, a), contexts' = Append(contexts, c)
    PROVE  /\ TypeOK'
           /\ Len(chain') = Len(chain) + 1
           /\ \A i \in 1..Len(chain) : chain'[i] = chain[i] /\ contexts'[i] = contexts[i]
           /\ chain'[Len(chain) + 1] = a
           /\ contexts'[Len(chain) + 1] = c
<1>1. /\ chain' \in Seq(Agent)
      /\ Len(chain') = Len(chain) + 1
      /\ \A i \in 1..Len(chain) : chain'[i] = chain[i]
      /\ chain'[Len(chain) + 1] = a
  BY AppendProperties DEF TypeOK
<1>2. /\ contexts' \in Seq(Context)
      /\ Len(contexts') = Len(contexts) + 1
      /\ \A i \in 1..Len(contexts) : contexts'[i] = contexts[i]
      /\ contexts'[Len(contexts) + 1] = c
  BY AppendProperties DEF TypeOK
<1>3. QED
  BY <1>1, <1>2 DEF TypeOK

LEMMA PopEffect ==
    ASSUME TypeOK, Reply
    PROVE  /\ TypeOK'
           /\ Len(chain') = Len(chain) - 1
           /\ \A i \in 1..(Len(chain) - 1) : chain'[i] = chain[i] /\ contexts'[i] = contexts[i]
<1>1. Len(chain) \in Nat /\ Len(chain) > 0
  BY DEF TypeOK, Reply, RestoreContext
<1>2. /\ chain' \in Seq(Agent)
      /\ Len(chain') = Len(chain) - 1
      /\ \A i \in 1..(Len(chain) - 1) : chain'[i] = chain[i]
  BY <1>1 DEF TypeOK, Reply, RestoreContext
<1>3. /\ contexts' \in Seq(Context)
      /\ Len(contexts') = Len(chain) - 1
      /\ \A i \in 1..(Len(chain) - 1) : contexts'[i] = contexts[i]
  BY <1>1 DEF TypeOK, Reply, RestoreContext
<1>4. QED
  BY <1>2, <1>3 DEF TypeOK

-----------------------------------------------------------------------------
(* What every message carries.                                               *)

Inv == TypeOK /\ ContextIsChain /\ DepthBounded

LEMMA NextContext ==
    ASSUME Inv, chain # <<>>
    PROVE  /\ Sender \in Agent
           /\ ChainDepth = Len(chain) - 1
           /\ ChainPath = Senders(Len(chain))
           /\ Originator = {chain[1]}
<1>1. chain \in Seq(Agent) /\ Len(chain) \in Nat /\ Len(chain) >= 1
  BY EmptySeq DEF Inv, TypeOK
<1>2. Sender \in Agent /\ Received \in Context
  BY <1>1 DEF Inv, TypeOK, Sender, Received
<1>3. CASE Len(chain) = 1
  BY <1>2, <1>3 DEF ChainDepth, ChainPath, Originator, Sender, Senders
<1>4. CASE Len(chain) > 1
  <2> DEFINE n == Len(chain)
  <2>1. /\ contexts[n].depth = n - 2
        /\ contexts[n].path = Senders(n - 1)
        /\ contexts[n].originator = {chain[1]}
    <3>1. n \in 2..n
      BY <1>1, <1>4
    <3>2. QED
      BY <3>1 DEF Inv, ContextIsChain
  <2>2. Received = contexts[n]
    BY DEF Inv, TypeOK, Received
  <2>3. Senders(n - 1) \cup {Sender} = Senders(n)
    BY <1>1, <1>4 DEF Sender, Senders
  <2>4. ChainDepth = n - 1
    <3>1. ChainDepth = Received.depth + 1
      BY <1>4 DEF ChainDepth
    <3>2. QED
      BY <1>1, <2>1, <2>2, <3>1
  <2>5. ChainPath = Senders(n) /\ Originator = {chain[1]}
    BY <1>4, <2>1, <2>2, <2>3 DEF ChainPath, Originator
  <2>6. QED
    BY <1>2, <2>4, <2>5
<1>5. Len(chain) = 1 \/ Len(chain) > 1
  BY <1>1
<1>6. QED
  BY <1>3, <1>4, <1>5

LEMMA SendContext ==
    ASSUME Inv, NEW to \in Reference, Send(to)
    PROVE  /\ AgentOf[to] \in Agent
           /\ [depth |-> ChainDepth, path |-> ChainPath, originator |-> Originator] \in Context
           /\ ChainDepth = Len(chain) - 1
           /\ ChainPath = Senders(Len(chain))
           /\ Originator = {chain[1]}
           /\ ChainDepth <= MaxDepth
           /\ Len(chain) \in Nat /\ Len(chain) >= 1
<1>1. Len(chain) \in Nat /\ Len(chain) >= 1
  BY EmptySeq DEF Inv, TypeOK, Send
<1>2. /\ ChainDepth = Len(chain) - 1
      /\ ChainPath = Senders(Len(chain))
      /\ Originator = {chain[1]}
  BY NextContext DEF Send
<1>3. ChainPath \subseteq Agent /\ Originator \subseteq Agent
  BY <1>1, <1>2 DEF Inv, TypeOK, Senders
<1>4. QED
  BY <1>1, <1>2, <1>3, AgentAssumption DEF Send, WithinDepth, Context

LEMMA InvInductive ==
    ASSUME Inv, [Next]_vars
    PROVE  Inv'
<1>1. ASSUME NEW a \in Agent, Start(a)
      PROVE  Inv'
  <2>1. NoContext \in Context
    BY DEF NoContext, Context
  <2>2. TypeOK' /\ Len(chain') = 1
    BY <1>1, <2>1 DEF Start, TypeOK
  <2>3. QED
    BY <2>2, DepthAssumption DEF Inv, ContextIsChain, DepthBounded
<1>2. ASSUME NEW to \in Reference, Send(to)
      PROVE  Inv'
  <2> DEFINE n == Len(chain)
             c == [depth |-> ChainDepth, path |-> ChainPath, originator |-> Originator]
  <2>1. /\ AgentOf[to] \in Agent /\ c \in Context
        /\ n \in Nat /\ n >= 1 /\ n - 1 <= MaxDepth
    BY <1>2, SendContext
  <2>2. c.depth = n - 1 /\ c.path = Senders(n) /\ c.originator = {chain[1]}
    BY <1>2, SendContext
  <2> HIDE DEF c
  <2>3. /\ TypeOK' /\ Len(chain') = n + 1
        /\ \A i \in 1..n : chain'[i] = chain[i] /\ contexts'[i] = contexts[i]
        /\ contexts'[n + 1] = c
    BY <1>2, <2>1, PushEffect DEF Inv, Send, c
  <2>4. ASSUME NEW i \in 2..(n + 1)
        PROVE  Senders(i - 1)' = Senders(i - 1)
    BY <2>1, <2>3 DEF Senders
  <2>5. ASSUME NEW i \in 2..(n + 1)
        PROVE  /\ contexts'[i].depth = i - 2
               /\ contexts'[i].path = Senders(i - 1)'
               /\ contexts'[i].originator = {chain'[1]}
    <3>1. CASE i \in 2..n
      BY <2>1, <2>3, <2>4, <3>1 DEF Inv, ContextIsChain
    <3>2. CASE i = n + 1
      BY <2>1, <2>2, <2>3, <2>4, <3>2
    <3>3. QED
      BY <2>1, <3>1, <3>2
  <2>6. QED
    BY <2>1, <2>3, <2>5, DepthAssumption DEF Inv, ContextIsChain, DepthBounded
<1>3. CASE Reply
  <2> DEFINE n == Len(chain)
  <2>1. n \in Nat /\ n >= 1
    BY <1>3, EmptySeq DEF Inv, TypeOK, Reply, RestoreContext
  <2>2. /\ TypeOK' /\ Len(chain') = n - 1
        /\ \A i \in 1..(n - 1) : chain'[i] = chain[i] /\ contexts'[i] = contexts[i]
    BY <1>3, PopEffect DEF Inv
  <2>3. ASSUME NEW i \in 2..(n - 1)
        PROVE  Senders(i - 1)' = Senders(i - 1)
    BY <2>1, <2>2 DEF Senders
  <2>4. ContextIsChain'
    BY <2>1, <2>2, <2>3 DEF Inv, ContextIsChain
  <2>5. QED
    BY <2>1, <2>2, <2>4, DepthAssumption DEF Inv, DepthBounded
<1>4. CASE UNCHANGED vars
  BY <1>4 DEF vars, Inv, TypeOK, ContextIsChain, Senders, DepthBounded
<1>5. QED
  BY <1>1, <1>2, <1>3, <1>4 DEF Next

\* Depth, path and originator an agent is given are those of the chain above it,
\* and no chain is longer than the depth limit allows, whatever names agents use.
THEOREM ContextsFaithful == Spec => [](ContextIsChain /\ DepthBounded)
<1>1. Init => Inv
  BY DepthAssumption DEF Init, Inv, TypeOK, ContextIsChain, DepthBounded
<1>2. Inv /\ [Next]_vars => Inv'
  BY InvInductive
<1>3. Inv => ContextIsChain /\ DepthBounded
  BY DEF Inv
<1>4. QED
  BY <1>1, <1>2, <1>3, PTL DEF Spec

\* No chain of delegations is longer than the depth limit allows, even if agents are
\* addressed by names that the loop detection does not recognise.
THEOREM ChainsBounded == Spec => []DepthBounded
<1>1. (ContextIsChain /\ DepthBounded) => DepthBounded
  OBVIOUS
<1>2. QED
  BY <1>1, ContextsFaithful, PTL

-----------------------------------------------------------------------------
(* Loop detection.                                                           *)

LEMMA AcyclicStep ==
    ASSUME Alias = {}, Inv, NoAgentTwice, [Next]_vars
    PROVE  NoAgentTwice'
<1>1. ASSUME NEW a \in Agent, Start(a)
      PROVE  NoAgentTwice'
  BY <1>1 DEF Start, NoAgentTwice
<1>2. ASSUME NEW to \in Reference, Send(to)
      PROVE  NoAgentTwice'
  <2> DEFINE n == Len(chain)
  <2>1. AgentOf[to] = to /\ to \in Agent
    BY AgentAssumption DEF Reference
  <2>2. \A j \in 1..n : chain[j] # to
    BY <1>2, SendContext DEF Send, NoLoop, Senders
  <2>3. /\ n \in Nat
        /\ Len(chain') = n + 1
        /\ \A i \in 1..n : chain'[i] = chain[i]
        /\ chain'[n + 1] = to
    BY <1>2, <2>1, SendContext, PushEffect DEF Inv, Send
  <2>4. QED
    BY <2>2, <2>3 DEF NoAgentTwice
<1>3. CASE Reply
  <2>1. /\ Len(chain) \in Nat
        /\ Len(chain') = Len(chain) - 1
        /\ \A i \in 1..(Len(chain) - 1) : chain'[i] = chain[i]
    BY <1>3, PopEffect DEF Inv, TypeOK
  <2>2. QED
    BY <2>1 DEF NoAgentTwice
<1>4. CASE UNCHANGED vars
  BY <1>4 DEF vars, NoAgentTwice
<1>5. QED
  BY <1>1, <1>2, <1>3, <1>4 DEF Next

\* While agents address each other by id, no agent ever waits for itself through
\* a chain of delegations: the loop detection is complete for ids.
THEOREM AcyclicByIds ==
    ASSUME Alias = {}
    PROVE  Spec => []NoAgentTwice
<1>1. Init => Inv /\ NoAgentTwice
  BY DepthAssumption DEF Init, Inv, TypeOK, ContextIsChain, DepthBounded, NoAgentTwice
<1>2. Inv /\ NoAgentTwice /\ [Next]_vars => Inv' /\ NoAgentTwice'
  BY InvInductive, AcyclicStep
<1>3. QED
  BY <1>1, <1>2, PTL DEF Spec
=============================================================================
