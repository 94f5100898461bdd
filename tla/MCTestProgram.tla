----------------------------- MODULE MCTestProgram -----------------------------
(***************************************************************************)
(* TestProgram for TLC.                                                    *)
(***************************************************************************)
EXTENDS TestProgram, TLC

CONSTANTS s1, a, b, c, d

\* startingJob has the child endJob, the jobs of the batch have none.
StartingThenEnd == [j \in Jobs |-> IF j = a THEN <<b>> ELSE << >>]

Symmetry == Permutations(Batch)
==============================================================================
