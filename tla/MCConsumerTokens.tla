------------------------------ MODULE MCConsumerTokens ------------------------------
(***************************************************************************)
(* ConsumerTokens for TLC.                                                 *)
(***************************************************************************)
EXTENDS ConsumerTokens, TLC

\* Consumers with a token, and consumers without.
Symmetry == Permutations(HasToken) \cup Permutations(Consumers \ HasToken)
==============================================================================
