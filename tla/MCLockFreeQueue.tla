--------------------------- MODULE MCLockFreeQueue ---------------------------
(***************************************************************************)
(* LockFreeQueue for TLC.                                                  *)
(***************************************************************************)
EXTENDS LockFreeQueue, TLC

\* Items are only copied and threads only compared: both may be permuted in the
\* runs that check no liveness (BoundedFIFO treats them alike too).
Symmetry == Permutations(Threads) \cup Permutations(Items)
==============================================================================
