-------------------------- MODULE MCMessageRouter --------------------------
(* Small instances of MessageRouter.                                         *)
EXTENDS MessageRouter

CONSTANTS m1, m2, m3, g1, p1

\* Messages of one agent to another: they share the pair's conversation.
OneTarget == [m \in Message |-> g1]
OnePair == [m \in Message |-> p1]
=============================================================================
