-------------------------- MODULE MCAdmissionGate --------------------------
(***************************************************************************)
(* A small instance of AdmissionGate for TLC.                              *)
(***************************************************************************)
EXTENDS AdmissionGate

Tiers == [upToBytes : {2, 4}, cost : {1, 3}]

\* Every ramp of at most two tiers, in either order.
Ramps == {<<>>} \cup {<<a>> : a \in Tiers} \cup {<<a, b>> : a, b \in Tiers}

OneSpec ==
  {[maxPayloadBytes |-> 3,
    sizeRamp |-> <<[upToBytes |-> 2, cost |-> 1], [upToBytes |-> 4, cost |-> 3]>>]}

\* Absent, or there with any of those ramps, the empty one included.
AllConfigs ==
  [maxPayloadBytes : {<<>>, <<1>>, <<5>>},
   sizeRamp : {<<>>} \cup {<<ramp>> : ramp \in Ramps}]
=============================================================================
