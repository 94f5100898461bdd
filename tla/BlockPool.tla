-------------------------------- MODULE BlockPool --------------------------------
(***************************************************************************)
(* What the block pool of concurrentqueue.h promises to those that draw on  *)
(* it (requisition_block, add_block_to_free_list): a block that is given    *)
(* out is nobody else's until it is given back.                             *)
(***************************************************************************)
CONSTANTS Blocks, Users

VARIABLE held   \* the blocks each user has

TypeOK == held \in [Users -> SUBSET Blocks]

Init == held = [u \in Users |-> {}]

\* requisition_block returns b.
Requisition(u, b) ==
  /\ \A v \in Users : b \notin held[v]
  /\ held' = [held EXCEPT ![u] = @ \cup {b}]

\* add_block_to_free_list(b).
GiveBack(u, b) == b \in held[u] /\ held' = [held EXCEPT ![u] = @ \ {b}]

Next == \E u \in Users, b \in Blocks : Requisition(u, b) \/ GiveBack(u, b)

Spec == Init /\ [][Next]_held
==============================================================================
