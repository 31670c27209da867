--------------------------- MODULE AdmissionGate ---------------------------
(***************************************************************************)
(* The gate of one message type at work: payloads of any size arrive, one  *)
(* after the other, and each is priced or dropped before it is parsed,     *)
(* against the tunables the type resolves to under the server's config.    *)
(*                                                                         *)
(* Two ways lead to a decision: AdmissionSpec::preAdmit given the bag that *)
(* Resolver.hpp resolves from the config, and the free preAdmit<T>, which  *)
(* is what ConnectionLimiter calls.                                        *)
(***************************************************************************)
EXTENDS AdmissionSpec, SequencesExt

CONSTANTS
  Specs,    \* the compile-time bags a type may be written with
  Configs,  \* what the server's config may supply for it
  Sizes     \* payload sizes

ASSUME GateAssumption ==
  /\ Specs \subseteq Tunables
  /\ Configs \subseteq Supplies
  /\ Sizes \subseteq Nat

VARIABLES
  spec,     \* the type's spec
  config,   \* the config the server runs with
  frame,    \* the last payload: its size, the bag consulted, the decision
  dearest   \* history: the highest price a payload was admitted at

vars == <<spec, config, frame, dearest>>

Resolved == Resolve(spec, config)

\* No payload so far.
NoFrame == [bytes |-> -1, cfg |-> ResolveDefaults(spec), decision |-> Admit(0)]

Init ==
  /\ spec \in Specs
  /\ config \in Configs
  /\ frame = NoFrame
  /\ dearest = 0

Decide(bytes, cfg, decision) ==
  /\ frame' = [bytes |-> bytes, cfg |-> cfg, decision |-> decision]
  /\ dearest' = IF ~Dropped(decision) /\ decision.tokenCost > dearest
                THEN decision.tokenCost ELSE dearest
  /\ UNCHANGED <<spec, config>>

\* The two-argument preAdmit, with the bag resolved from the config.
GateResolved(bytes) == Decide(bytes, Resolved, PreAdmit(bytes, Resolved))

\* The free function, as the limiter calls it.
GateDefault(bytes) ==
  Decide(bytes, ResolveDefaults(spec), PreAdmitFor(spec, bytes))

Next == \E bytes \in Sizes : GateResolved(bytes)

\* A server whose frames go through ConnectionLimiter.
NextDefault == \E bytes \in Sizes : GateDefault(bytes)

Spec == Init /\ [][Next]_vars

SpecDefault == Init /\ [][NextDefault]_vars

-----------------------------------------------------------------------------
\* Tiers ascend in size and price, as SizeCostRamp expects.
Ascending(tiers) ==
  \A i, j \in 1..Len(tiers) :
    i < j => /\ tiers[i].upToBytes < tiers[j].upToBytes
             /\ tiers[i].cost <= tiers[j].cost

\* The price read off a ramp as a set of tiers, whatever their order: that of
\* the smallest tier the payload fits in, else of the largest tier there is.
Price(tiers, bytes) ==
  LET fitting == {tier \in ToSet(tiers) : bytes <= tier.upToBytes}
  IN  IF tiers = <<>> THEN 0
      ELSE IF fitting # {}
      THEN (CHOOSE tier \in fitting :
              \A other \in fitting : tier.upToBytes <= other.upToBytes).cost
      ELSE (CHOOSE tier \in ToSet(tiers) :
              \A other \in ToSet(tiers) : tier.upToBytes >= other.upToBytes).cost

\* The first-match walk over an ascending ramp finds the tightest tier, at the
\* inclusive bounds too, and prices what lies beyond the last tier like it.
PricedByTightestTier ==
  frame # NoFrame /\ Ascending(frame.cfg.sizeRamp) =>
    frame.decision.tokenCost = Price(frame.cfg.sizeRamp, frame.bytes)

\* Sending too much never pays: the penalty of an oversize payload is at least
\* the price of any payload this server has admitted.
OversizePaysMost ==
  Ascending(frame.cfg.sizeRamp) /\ Dropped(frame.decision) =>
    frame.decision.tokenCost >= dearest

Costly(tiers) == \A tier \in ToSet(tiers) : tier.cost > 0

\* No payload of a type that charges for size is free, admitted or dropped: not
\* one beyond the last tier, nor one over the cap, nor any of them because the
\* config's array of tiers is there and empty.
NothingIsFree ==
  /\ frame # NoFrame
  /\ spec.sizeRamp # <<>> /\ Costly(spec.sizeRamp)
  /\ config.sizeRamp # <<>> => Costly(config.sizeRamp[1])
  => frame.decision.tokenCost > 0

\* "their thresholds are config-overridable too ... evaluation runs against a
\* ResolvedTunables produced by resolving the bag": the decision taken is the
\* one the config asks for.
ConfigHonoured ==
  frame # NoFrame => frame.decision = PreAdmit(frame.bytes, Resolved)
=============================================================================
