----------------------- MODULE MCConnectionLimiter -------------------------
(***************************************************************************)
(* Small instances of ConnectionLimiter for TLC.                           *)
(***************************************************************************)
EXTENDS ConnectionLimiter, TLC

\* Up to ten bytes cost one token and anything larger two; more than twenty
\* bytes are too many.
OneSpec ==
  [maxPayloadBytes |-> 20,
   sizeRamp |-> <<[upToBytes |-> 10, cost |-> 1], [upToBytes |-> 20, cost |-> 2]>>]

\* A small frame, a large one, and one over the cap.
ThreePayloads == {10, 11, 21}

\* A check that finds nothing, one that charges for the work, one that drops
\* with a penalty of a token, and one with more than a bucket can hold.
VisitorDecisions ==
  {Admit(0), Admit(1), Drop("check", 0), Drop("check", 1), Drop("check", 3)}

Symmetry == Permutations(Threads) \cup Permutations(Conns)

=============================================================================
