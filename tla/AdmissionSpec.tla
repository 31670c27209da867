--------------------------- MODULE AdmissionSpec ---------------------------
(***************************************************************************)
(* The admission policy of a message type (admissionspec/Types.hpp,        *)
(* Resolver.hpp and AdmissionSpec.hpp): decisions, the size-to-cost ramp,  *)
(* the resolution of tunables against a config, and the gate a payload     *)
(* passes before it is parsed.                                             *)
(*                                                                         *)
(* A reason is the only text in a decision and nothing depends on its      *)
(* wording, so it is one of a few names.  Costs are natural numbers of     *)
(* tokens.                                                                 *)
(***************************************************************************)
EXTENDS Integers, Sequences

\* AdmissionDecision
Admit(cost) == [action |-> "Admit", tokenCost |-> cost, reason |-> ""]
Drop(why, cost) == [action |-> "Drop", tokenCost |-> cost, reason |-> why]
Dropped(decision) == decision.action = "Drop"

\* The bag of a type: the cap on a payload and the ramp, a sequence of tiers.
Tier == [upToBytes : Nat, cost : Nat]
Tunables == [maxPayloadBytes : Nat, sizeRamp : Seq(Tier)]

\* A slip: the bound of a tier is exclusive.
CostForExclusive(tiers, bytes) ==
  LET reaching == {i \in 1..Len(tiers) : bytes < tiers[i].upToBytes}
  IN  IF tiers = <<>> THEN 0
      ELSE IF reaching # {}
      THEN tiers[CHOOSE i \in reaching : \A j \in reaching : i <= j].cost
      ELSE tiers[Len(tiers)].cost

\* The first tier that reaches up to the size decides, the last tier when
\* none does; an empty ramp charges nothing.
CostFor(tiers, bytes) ==
  LET reaching == {i \in 1..Len(tiers) : bytes <= tiers[i].upToBytes}
  IN  IF tiers = <<>> THEN 0
      ELSE IF reaching # {}
      THEN tiers[CHOOSE i \in reaching : \A j \in reaching : i <= j].cost
      ELSE tiers[Len(tiers)].cost

\* A config maps a tunable to the sequence of values it supplies: empty when
\* the key is absent, else with the value in front.  A scalar is overridden by a
\* value that is present; a ramp by an array that is present and has a tier.
Supplies == [maxPayloadBytes : Seq(Nat), sizeRamp : Seq(Seq(Tier))]

ResolveScalar(supplied, default) ==
  IF supplied = <<>> THEN default ELSE supplied[1]

\* A slip: an array that is there replaces the ramp even when it is empty.
ResolveRampEmpty(supplied, default) == ResolveScalar(supplied, default)

ResolveRamp(supplied, default) ==
  IF supplied = <<>> \/ supplied[1] = <<>> THEN default ELSE supplied[1]

Resolve(spec, config) ==
  [maxPayloadBytes |-> ResolveScalar(config.maxPayloadBytes, spec.maxPayloadBytes),
   sizeRamp        |-> ResolveRamp(config.sizeRamp, spec.sizeRamp)]

\* What resolvedFor<T>() keeps in its static: the compile-time defaults.
ResolveDefaults(spec) == spec

\* A slip: the size is priced only once it is known to be admissible.
PreAdmitFreeDrop(bytes, cfg) ==
  IF bytes > cfg.maxPayloadBytes THEN Drop("oversize", 0)
  ELSE Admit(CostFor(cfg.sizeRamp, bytes))

\* AdmissionSpec::preAdmit: the size is priced before the cap is checked, so
\* that an oversize payload carries its price as a penalty.
PreAdmit(bytes, cfg) ==
  LET cost == CostFor(cfg.sizeRamp, bytes)
  IN  IF bytes > cfg.maxPayloadBytes THEN Drop("oversize", cost) ELSE Admit(cost)

\* The free function preAdmit<T>, which ConnectionLimiter::admitPre calls.
PreAdmitFor(spec, bytes) == PreAdmit(bytes, ResolveDefaults(spec))
=============================================================================
