------------------------ MODULE MCObjectTypeVersions ------------------------
(* ObjectTypeVersions on small instances. *)
EXTENDS ObjectTypeVersions, TLC

CONSTANTS t1, t2, t3, t4

Symmetry == Permutations(Txns) \cup Permutations(Schemas)
=============================================================================
