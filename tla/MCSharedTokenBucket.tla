------------------------ MODULE MCSharedTokenBucket ------------------------
(***************************************************************************)
(* One request of every kind: a consume of the whole bucket, a drain that  *)
(* asks for more than it holds, a borrow that may have to run it into      *)
(* debt, and a return that may fill it beyond its capacity.                *)
(***************************************************************************)
EXTENDS SharedTokenBucket

MCRequests ==
  {[op |-> "consume", cost |-> 2], [op |-> "drain", cost |-> 3],
   [op |-> "borrow", cost |-> 2], [op |-> "give", cost |-> 1]}
=============================================================================
