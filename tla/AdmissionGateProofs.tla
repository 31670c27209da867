------------------------ MODULE AdmissionGateProofs ------------------------
(***************************************************************************)
(* The price of a payload, for every ramp, every config and every size:    *)
(* the walk over the tiers finds the tightest one, a larger payload never  *)
(* costs less, and sending too much never pays.                            *)
(***************************************************************************)
EXTENDS AdmissionGate, TLAPS, WellFoundedInduction, SequenceTheorems

\* A set of naturals that is not empty has a least element.
LEMMA LeastNatural ==
  ASSUME NEW S \in SUBSET Nat, S # {}
  PROVE  \E least \in S : \A n \in S : least <= n
<1> DEFINE below == {pair \in Nat \X Nat : pair[1] < pair[2]}
<1>1. IsWellFoundedOn(below, Nat)
  BY NatLessThanWellFounded DEF OpToRel
<1>2. PICK least \in S : \A n \in S : <<n, least>> \notin below
  <2> HIDE DEF below
  <2> QED
    BY <1>1, WFMin
<1>3. \A n \in S : ~(n < least)
  BY <1>2
<1> QED
  BY <1>3

-----------------------------------------------------------------------------
\* The fields of a tier.
LEMMA TierFields ==
  ASSUME NEW tiers \in Seq(Tier)
  PROVE  /\ Len(tiers) \in Nat
         /\ tiers # <<>> => Len(tiers) \in 1..Len(tiers)
         /\ \A i \in 1..Len(tiers) : tiers[i].cost \in Nat /\ tiers[i].upToBytes \in Nat
<1>1. \A i \in 1..Len(tiers) : tiers[i] \in Tier
  BY ElementOfSeq
<1> QED
  BY <1>1, EmptySeq, LenProperties DEF Tier

\* A ramp that is not empty either has a first tier the payload fits in, or
\* the payload lies beyond all of them.
LEMMA DecidingTier ==
  ASSUME NEW tiers \in Seq(Tier), NEW bytes \in Nat
  PROVE  \/ \E i \in 1..Len(tiers) :
              /\ bytes <= tiers[i].upToBytes
              /\ \A j \in 1..(i - 1) : tiers[j].upToBytes < bytes
         \/ \A i \in 1..Len(tiers) : tiers[i].upToBytes < bytes
<1> DEFINE reaching == {i \in 1..Len(tiers) : bytes <= tiers[i].upToBytes}
<1>1. \A i \in 1..Len(tiers) : tiers[i].upToBytes \in Nat
  BY TierFields
<1>2. CASE reaching = {}
  BY <1>1, <1>2
<1>3. CASE reaching # {}
  <2>1. reaching \in SUBSET Nat
    BY TierFields
  <2>2. PICK i \in reaching : \A j \in reaching : i <= j
    <3> HIDE DEF reaching
    <3> QED
      BY <1>3, <2>1, LeastNatural
  <2> QED
    BY <1>1, <2>1, <2>2
<1> QED
  BY <1>2, <1>3

\* The walk stops at the first tier that reaches up to the size (costFor).
LEMMA FirstTierDecides ==
  ASSUME NEW tiers \in Seq(Tier), NEW bytes \in Nat, NEW i \in 1..Len(tiers),
         bytes <= tiers[i].upToBytes,
         \A j \in 1..(i - 1) : tiers[j].upToBytes < bytes
  PROVE  CostFor(tiers, bytes) = tiers[i].cost
<1> DEFINE reaching == {j \in 1..Len(tiers) : bytes <= tiers[j].upToBytes}
<1>1. i \in reaching /\ tiers # <<>>
  OBVIOUS
<1>2. \A j \in reaching : i <= j
  BY TierFields
<1>3. \A k \in reaching : (\A j \in reaching : k <= j) => k = i
  BY <1>1, <1>2
<1>4. (CHOOSE k \in reaching : \A j \in reaching : k <= j) = i
  <2> HIDE DEF reaching
  <2> QED
    BY <1>1, <1>2, <1>3
<1> QED
  BY <1>1, <1>4 DEF CostFor

\* Beyond every tier the last one prices the payload (costFor).
LEMMA LastTierPricesBeyond ==
  ASSUME NEW tiers \in Seq(Tier), NEW bytes \in Nat, tiers # <<>>,
         \A i \in 1..Len(tiers) : tiers[i].upToBytes < bytes
  PROVE  CostFor(tiers, bytes) = tiers[Len(tiers)].cost
<1>1. {i \in 1..Len(tiers) : bytes <= tiers[i].upToBytes} = {}
  BY TierFields
<1> QED
  BY <1>1 DEF CostFor

\* A cost is a number of tokens.
LEMMA CostIsNatural ==
  ASSUME NEW tiers \in Seq(Tier), NEW bytes \in Nat
  PROVE  CostFor(tiers, bytes) \in Nat
<1>1. \A i \in 1..Len(tiers) : tiers[i].cost \in Nat
  BY TierFields
<1>2. CASE tiers = <<>>
  BY <1>2 DEF CostFor
<1>3. ASSUME NEW i \in 1..Len(tiers), bytes <= tiers[i].upToBytes,
             \A j \in 1..(i - 1) : tiers[j].upToBytes < bytes
      PROVE  CostFor(tiers, bytes) \in Nat
  BY <1>1, <1>3, FirstTierDecides
<1>4. CASE tiers # <<>> /\ \A i \in 1..Len(tiers) : tiers[i].upToBytes < bytes
  <2>1. Len(tiers) \in 1..Len(tiers)
    BY <1>4, TierFields
  <2> QED
    BY <1>1, <1>4, <2>1, LastTierPricesBeyond
<1> QED
  BY <1>2, <1>3, <1>4, DecidingTier

\* On a ramp whose tiers ascend, a larger payload never costs less.
THEOREM LargerNeverCheaper ==
  ASSUME NEW tiers \in Seq(Tier), Ascending(tiers),
         NEW small \in Nat, NEW large \in Nat, small <= large
  PROVE  CostFor(tiers, small) <= CostFor(tiers, large)
<1>1. \A i \in 1..Len(tiers) : tiers[i].cost \in Nat /\ tiers[i].upToBytes \in Nat
  BY TierFields
<1>2. CASE tiers = <<>>
  BY <1>2 DEF CostFor
<1>3. \A i, j \in 1..Len(tiers) : i <= j => tiers[i].cost <= tiers[j].cost
  BY <1>1 DEF Ascending
<1>4. ASSUME NEW i \in 1..Len(tiers), small <= tiers[i].upToBytes,
             \A k \in 1..(i - 1) : tiers[k].upToBytes < small
      PROVE  CostFor(tiers, small) <= CostFor(tiers, large)
  <2>1. CostFor(tiers, small) = tiers[i].cost
    BY <1>4, FirstTierDecides
  <2>2. ASSUME NEW j \in 1..Len(tiers), large <= tiers[j].upToBytes,
               \A k \in 1..(j - 1) : tiers[k].upToBytes < large
        PROVE  CostFor(tiers, small) <= CostFor(tiers, large)
    <3>1. CostFor(tiers, large) = tiers[j].cost
      BY <2>2, FirstTierDecides
    <3>2. i <= j
      BY <1>1, <1>4, <2>2
    <3> QED
      BY <1>3, <2>1, <3>1, <3>2
  <2>3. CASE \A k \in 1..Len(tiers) : tiers[k].upToBytes < large
    <3>1. CostFor(tiers, large) = tiers[Len(tiers)].cost
      BY <2>3, LastTierPricesBeyond
    <3>2. Len(tiers) \in 1..Len(tiers) /\ i <= Len(tiers)
      BY TierFields
    <3> QED
      BY <1>3, <2>1, <3>1, <3>2
  <2> QED
    BY <2>2, <2>3, DecidingTier
<1>5. CASE tiers # <<>> /\ \A k \in 1..Len(tiers) : tiers[k].upToBytes < small
  <2>1. \A k \in 1..Len(tiers) : tiers[k].upToBytes < large
    BY <1>1, <1>5
  <2>2. CostFor(tiers, small) = CostFor(tiers, large)
    BY <1>5, <2>1, LastTierPricesBeyond
  <2>3. Len(tiers) \in 1..Len(tiers)
    BY <1>5, TierFields
  <2> QED
    BY <1>1, <1>5, <2>2, <2>3, LastTierPricesBeyond
<1> QED
  BY <1>2, <1>4, <1>5, DecidingTier

\* On such a ramp the walk finds what the reading of the ramp as a set of tiers
\* promises: the tightest tier, or the largest one when none is large enough.
LEMMA WalkFindsTightestTier ==
  ASSUME NEW tiers \in Seq(Tier), Ascending(tiers), NEW bytes \in Nat
  PROVE  CostFor(tiers, bytes) = Price(tiers, bytes)
<1> DEFINE fitting == {tier \in ToSet(tiers) : bytes <= tier.upToBytes}
<1>1. \A i \in 1..Len(tiers) : tiers[i].cost \in Nat /\ tiers[i].upToBytes \in Nat
  BY TierFields
<1>2. ToSet(tiers) = {tiers[i] : i \in 1..Len(tiers)}
  BY LenProperties DEF ToSet
<1>3. CASE tiers = <<>>
  BY <1>3 DEF CostFor, Price
<1>4. ASSUME NEW i \in 1..Len(tiers), bytes <= tiers[i].upToBytes,
             \A j \in 1..(i - 1) : tiers[j].upToBytes < bytes
      PROVE  CostFor(tiers, bytes) = Price(tiers, bytes)
  <2>1. tiers[i] \in fitting
    BY <1>2, <1>4
  <2>2. \A j \in 1..Len(tiers) : bytes <= tiers[j].upToBytes => i <= j
    BY <1>1, <1>4
  <2>3. \A other \in fitting : tiers[i].upToBytes <= other.upToBytes
    <3> SUFFICES ASSUME NEW j \in 1..Len(tiers), bytes <= tiers[j].upToBytes
                 PROVE  tiers[i].upToBytes <= tiers[j].upToBytes
      BY <1>2
    <3>1. i = j \/ i < j
      BY <2>2
    <3> QED
      BY <1>1, <3>1 DEF Ascending
  <2>4. \A tier \in fitting :
          (\A other \in fitting : tier.upToBytes <= other.upToBytes) => tier = tiers[i]
    <3> SUFFICES ASSUME NEW j \in 1..Len(tiers), tiers[j] \in fitting,
                        tiers[j].upToBytes <= tiers[i].upToBytes
                 PROVE  tiers[j] = tiers[i]
      BY <1>2, <2>1
    <3>1. i <= j
      BY <2>2
    <3>2. ~(i < j)
      BY <1>1 DEF Ascending
    <3> QED
      BY <3>1, <3>2
  <2>5. (CHOOSE tier \in fitting :
           \A other \in fitting : tier.upToBytes <= other.upToBytes) = tiers[i]
    <3> HIDE DEF fitting
    <3> QED
      BY <2>1, <2>3, <2>4
  <2>6. tiers # <<>> /\ fitting # {}
    BY <2>1
  <2>7. Price(tiers, bytes) = tiers[i].cost
    BY <2>5, <2>6 DEF Price
  <2> QED
    BY <1>4, <2>7, FirstTierDecides
<1>5. CASE tiers # <<>> /\ \A i \in 1..Len(tiers) : tiers[i].upToBytes < bytes
  <2> DEFINE all == ToSet(tiers)
             last == tiers[Len(tiers)]
  <2>1. Len(tiers) \in 1..Len(tiers)
    BY <1>5, TierFields
  <2>2. last \in all
    BY <1>2, <2>1
  <2>3. \A other \in all : last.upToBytes >= other.upToBytes
    BY <1>1, <1>2, <2>1 DEF Ascending
  <2>4. \A tier \in all :
          (\A other \in all : tier.upToBytes >= other.upToBytes) => tier = last
    <3> SUFFICES ASSUME NEW j \in 1..Len(tiers), tiers[j].upToBytes >= last.upToBytes
                 PROVE  tiers[j] = last
      BY <1>2, <2>2
    <3>1. ~(j < Len(tiers))
      BY <1>1, <2>1 DEF Ascending
    <3> QED
      BY <2>1, <3>1
  <2>5. (CHOOSE tier \in all :
           \A other \in all : tier.upToBytes >= other.upToBytes) = last
    <3> HIDE DEF all, last
    <3> QED
      BY <2>2, <2>3, <2>4
  <2>6. fitting = {}
    BY <1>1, <1>2, <1>5
  <2>7. Price(tiers, bytes) = last.cost
    BY <1>5, <2>5, <2>6 DEF Price
  <2> QED
    BY <1>5, <2>7, LastTierPricesBeyond
<1> QED
  BY <1>3, <1>4, <1>5, DecidingTier

-----------------------------------------------------------------------------
\* The bag a type resolves to is a bag.
LEMMA ResolvedIsABag ==
  ASSUME NEW s \in Tunables, NEW supplied \in Supplies
  PROVE  Resolve(s, supplied) \in Tunables
<1>1. /\ supplied.maxPayloadBytes # <<>> => supplied.maxPayloadBytes[1] \in Nat
      /\ supplied.sizeRamp # <<>> => supplied.sizeRamp[1] \in Seq(Tier)
  <2>1. /\ supplied.maxPayloadBytes \in Seq(Nat)
        /\ supplied.sizeRamp \in Seq(Seq(Tier))
    BY DEF Supplies
  <2>2. /\ supplied.maxPayloadBytes # <<>> => 1 \in 1..Len(supplied.maxPayloadBytes)
        /\ supplied.sizeRamp # <<>> => 1 \in 1..Len(supplied.sizeRamp)
    BY <2>1, EmptySeq
  <2> QED
    BY <2>1, <2>2, ElementOfSeq
<1> QED
  BY <1>1 DEF Resolve, ResolveScalar, ResolveRamp, Tunables

\* The last payload was decided by the bag the config resolves to, and the
\* dearest price so far is that of some payload within the cap: the inductive
\* form of the three properties of the gate.
GateInv ==
  /\ spec \in Specs
  /\ config \in Configs
  /\ \/ frame = NoFrame
     \/ \E bytes \in Sizes :
          frame = [bytes |-> bytes, cfg |-> Resolved,
                   decision |-> PreAdmit(bytes, Resolved)]
  /\ \/ dearest = 0
     \/ \E bytes \in Sizes :
          /\ bytes <= Resolved.maxPayloadBytes
          /\ dearest = CostFor(Resolved.sizeRamp, bytes)

\* The gate keeps it from payload to payload.
THEOREM GateInvariance == Spec => []GateInv
<1>1. Init => GateInv
  BY DEF Init, GateInv
<1>2. GateInv /\ [Next]_vars => GateInv'
  <2> SUFFICES ASSUME GateInv, [Next]_vars PROVE GateInv'
    OBVIOUS
  <2>1. ASSUME NEW bytes \in Sizes, GateResolved(bytes) PROVE GateInv'
    <3> DEFINE decision == PreAdmit(bytes, Resolved)
    <3>1. /\ frame' = [bytes |-> bytes, cfg |-> Resolved, decision |-> decision]
          /\ dearest' = IF ~Dropped(decision) /\ decision.tokenCost > dearest
                        THEN decision.tokenCost ELSE dearest
          /\ spec' = spec /\ config' = config
      BY <2>1 DEF GateResolved, Decide
    <3>2. Resolved' = Resolved
      BY <3>1 DEF Resolved
    <3>3. ~Dropped(decision) => /\ bytes <= Resolved.maxPayloadBytes
                                /\ decision.tokenCost = CostFor(Resolved.sizeRamp, bytes)
      <4>1. Resolved.maxPayloadBytes \in Nat /\ bytes \in Nat
        BY ResolvedIsABag, GateAssumption DEF GateInv, Resolved, Tunables
      <4> QED
        BY <4>1 DEF PreAdmit, Dropped, Admit, Drop
    <3> HIDE DEF decision
    <3>4. \/ dearest' = 0
          \/ \E b \in Sizes : /\ b <= Resolved.maxPayloadBytes
                              /\ dearest' = CostFor(Resolved.sizeRamp, b)
      BY <3>1, <3>3 DEF GateInv
    <3> QED
      BY <3>1, <3>2, <3>4 DEF GateInv, decision
  <2>2. CASE UNCHANGED vars
    BY <2>2 DEF vars, GateInv, NoFrame, Resolved
  <2> QED
    BY <2>1, <2>2 DEF Next
<1> QED
  BY <1>1, <1>2, PTL DEF Spec

\* What the gate has decided, it has decided with the resolved bag, and for a
\* payload of some size.
LEMMA Consulted ==
  ASSUME GateInv, frame # NoFrame
  PROVE  /\ frame.bytes \in Nat
         /\ frame.cfg = Resolved
         /\ Resolved.sizeRamp \in Seq(Tier)
         /\ Resolved.maxPayloadBytes \in Nat
         /\ frame.decision = PreAdmit(frame.bytes, Resolved)
         /\ frame.decision.tokenCost = CostFor(Resolved.sizeRamp, frame.bytes)
<1>1. PICK bytes \in Sizes : frame = [bytes |-> bytes, cfg |-> Resolved,
                                      decision |-> PreAdmit(bytes, Resolved)]
  BY DEF GateInv
<1>2. Resolved \in Tunables
  BY ResolvedIsABag, GateAssumption DEF GateInv, Resolved
<1>3. PreAdmit(bytes, Resolved).tokenCost = CostFor(Resolved.sizeRamp, bytes)
  BY DEF PreAdmit, Admit, Drop
<1> QED
  BY <1>1, <1>2, <1>3, GateAssumption DEF Tunables

\* The first match of the walk over an ascending ramp is the tightest tier, at
\* the inclusive bounds too (costFor).
THEOREM PricedByTightestTierHolds == Spec => []PricedByTightestTier
<1>1. GateInv => PricedByTightestTier
  BY Consulted, WalkFindsTightestTier DEF PricedByTightestTier
<1> QED
  BY <1>1, GateInvariance, PTL

\* An oversize payload pays at least as much as any payload the gate let in,
\* because its price is looked up before its size is refused (preAdmit).
THEOREM OversizePaysMostHolds == Spec => []OversizePaysMost
<1>1. GateInv => OversizePaysMost
  <2> SUFFICES ASSUME GateInv, Ascending(frame.cfg.sizeRamp), Dropped(frame.decision)
               PROVE  frame.decision.tokenCost >= dearest
    BY DEF OversizePaysMost
  <2>0. \A cost : ~Dropped(Admit(cost))
    BY DEF Dropped, Admit
  <2>1. frame # NoFrame
    <3>1. NoFrame.decision = Admit(0)
      BY DEF NoFrame
    <3> QED
      BY <2>0, <3>1
  <2> DEFINE ramp == Resolved.sizeRamp
  <2>2. /\ frame.bytes \in Nat
        /\ ramp \in Seq(Tier)
        /\ Ascending(ramp)
        /\ Resolved.maxPayloadBytes \in Nat
        /\ frame.decision = PreAdmit(frame.bytes, Resolved)
        /\ frame.decision.tokenCost = CostFor(ramp, frame.bytes)
    BY <2>1, Consulted
  <2>3. frame.bytes > Resolved.maxPayloadBytes
    BY <2>0, <2>2 DEF PreAdmit
  <2>4. CostFor(ramp, frame.bytes) \in Nat
    BY <2>2, CostIsNatural
  <2>5. CASE dearest = 0
    BY <2>2, <2>4, <2>5
  <2>6. ASSUME NEW bytes \in Sizes, bytes <= Resolved.maxPayloadBytes,
               dearest = CostFor(ramp, bytes)
        PROVE  frame.decision.tokenCost >= dearest
    <3>1. bytes \in Nat
      BY GateAssumption
    <3>2. bytes <= frame.bytes
      BY <2>2, <2>3, <2>6, <3>1
    <3>3. CostFor(ramp, bytes) \in Nat /\ CostFor(ramp, bytes) <= CostFor(ramp, frame.bytes)
      BY <2>2, <3>1, <3>2, CostIsNatural, LargerNeverCheaper
    <3> QED
      BY <2>2, <2>4, <2>6, <3>3
  <2> QED
    BY <2>5, <2>6 DEF GateInv
<1> QED
  BY <1>1, GateInvariance, PTL

\* A tier of a ramp decides the price of every payload (costFor).
LEMMA SomeTierPrices ==
  ASSUME NEW tiers \in Seq(Tier), tiers # <<>>, NEW bytes \in Nat
  PROVE  \E tier \in ToSet(tiers) : CostFor(tiers, bytes) = tier.cost
<1>1. ToSet(tiers) = {tiers[i] : i \in 1..Len(tiers)}
  BY LenProperties DEF ToSet
<1>2. ASSUME NEW i \in 1..Len(tiers), bytes <= tiers[i].upToBytes,
             \A j \in 1..(i - 1) : tiers[j].upToBytes < bytes
      PROVE  CostFor(tiers, bytes) = tiers[i].cost
  BY <1>2, FirstTierDecides
<1>3. CASE \A i \in 1..Len(tiers) : tiers[i].upToBytes < bytes
  <2>1. CostFor(tiers, bytes) = tiers[Len(tiers)].cost
    BY <1>3, LastTierPricesBeyond
  <2> QED
    BY <1>1, <2>1, TierFields
<1> QED
  BY <1>1, <1>2, <1>3, DecidingTier

\* Whatever the config supplies, a type whose tiers all cost something lets no
\* payload through, and drops none, for nothing (resolveOne, costFor).
THEOREM NothingIsFreeHolds == Spec => []NothingIsFree
<1>1. GateInv => NothingIsFree
  <2> SUFFICES ASSUME GateInv, frame # NoFrame,
                      spec.sizeRamp # <<>>, Costly(spec.sizeRamp),
                      config.sizeRamp # <<>> => Costly(config.sizeRamp[1])
               PROVE  frame.decision.tokenCost > 0
    BY DEF NothingIsFree
  <2> DEFINE ramp == Resolved.sizeRamp
  <2>1. /\ frame.bytes \in Nat
        /\ ramp \in Seq(Tier)
        /\ frame.decision.tokenCost = CostFor(ramp, frame.bytes)
    BY Consulted
  <2>2. ramp # <<>> /\ Costly(ramp)
    <3>1. ramp = ResolveRamp(config.sizeRamp, spec.sizeRamp)
      BY DEF Resolved, Resolve
    <3>2. CASE config.sizeRamp = <<>> \/ config.sizeRamp[1] = <<>>
      BY <3>1, <3>2 DEF ResolveRamp
    <3>3. CASE ~(config.sizeRamp = <<>> \/ config.sizeRamp[1] = <<>>)
      BY <3>1, <3>3 DEF ResolveRamp
    <3> QED
      BY <3>2, <3>3
  <2> HIDE DEF ramp
  <2>3. PICK tier \in ToSet(ramp) : CostFor(ramp, frame.bytes) = tier.cost
    BY <2>1, <2>2, SomeTierPrices
  <2> QED
    BY <2>1, <2>2, <2>3 DEF Costly
<1> QED
  BY <1>1, GateInvariance, PTL
=============================================================================
