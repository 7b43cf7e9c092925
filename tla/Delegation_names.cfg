CONSTANTS
    a1 = a1
    a2 = a2
    a3 = a3
    a4 = a4
    a5 = a5
    nameOfA1 = nameOfA1
    Agent = {a1, a2}
    Alias = {nameOfA1}
    AgentOf <- OneName
    MaxDepth = 2
SPECIFICATION Spec
INVARIANTS
    NoAgentTwice
