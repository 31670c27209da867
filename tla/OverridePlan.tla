---------------------------- MODULE OverridePlan ----------------------------
(***************************************************************************)
(* The override plan of a spec: buildOverridePlan of rpcspec/RpcSpec.hpp.  *)
(* Fields that share a key count as one, which runs where the key first    *)
(* stands and by its last definition.                                      *)
(***************************************************************************)
EXTENDS Integers, Sequences

KeyOf(fields, i) == fields[i].key

\* shouldRun
IsFirst(fields, i) == \A j \in 1..(i - 1) : KeyOf(fields, j) # KeyOf(fields, i)

\* effectiveIdx
LastWithKeyOf(fields, i) ==
  CHOOSE j \in DOMAIN fields :
    /\ KeyOf(fields, j) = KeyOf(fields, i)
    /\ \A k \in DOMAIN fields : KeyOf(fields, k) = KeyOf(fields, i) => k =< j

\* A slip: the first definition of a key kept.
FirstDefinitions(fields) ==
  [i \in DOMAIN fields |-> [shouldRun |-> IsFirst(fields, i), field |-> fields[i]]]

\* The plan of a walk: at each place of the declaration whether a key runs there, and the
\* definition it runs by.
EffectiveFields(fields) ==
  [i \in DOMAIN fields |->
     [shouldRun |-> IsFirst(fields, i), field |-> fields[LastWithKeyOf(fields, i)]]]

FieldsOf(plan) == {plan[i].field : i \in DOMAIN plan}
=============================================================================
