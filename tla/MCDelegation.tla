---------------------------- MODULE MCDelegation ----------------------------
(* Small instances of Delegation: agents known by id only, or also by name.  *)
EXTENDS Delegation

CONSTANTS a1, a2, a3, a4, a5, nameOfA1

IdsOnly == [r \in Reference |-> r]
OneName == [r \in Reference |-> IF r = nameOfA1 THEN a1 ELSE r]
=============================================================================
