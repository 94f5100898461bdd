-------------------------------- MODULE MCProducers --------------------------------
(***************************************************************************)
(* Producers for TLC.                                                      *)
(***************************************************************************)
EXTENDS Producers, TLC

\* Two ids that collide in every table, and others that do not.
MCHashOf == [id \in Ids |-> IF id = 3 THEN 1 ELSE id]

Symmetry == Permutations(Threads) \cup Permutations(Tokens)
==============================================================================
