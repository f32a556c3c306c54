------------------------- MODULE MCScientificMemory -------------------------
(* The contract with its index on a small instance: clients and updates    *)
(* are symmetric.                                                          *)
EXTENDS ScientificMemory, TLC

Symmetry == Permutations(Client) \union Permutations(Update)
=============================================================================
