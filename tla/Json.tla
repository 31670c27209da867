-------------------------------- MODULE Json --------------------------------
(***************************************************************************)
(* The JSON values a request is read from, as the field views of           *)
(* rpcspec/backends/BoostJson.hpp show them.  A value is a record with one *)
(* field, its kind: null, bool, int64, uint64, double, string, array or    *)
(* object.  A field that is not there is the value Absent.  The widths are *)
(* constants, scaled down from 2^31 - 1, 2^32 - 1, 2^63 - 1 and 2^64 - 1;  *)
(* a double is given by its integral part.                                 *)
(***************************************************************************)
EXTENDS Integers, Sequences, FiniteSets

CONSTANTS MaxInt32, MaxUint32, MaxInt64, MaxUint64

ASSUME WidthsGrow ==
  /\ {MaxInt32, MaxUint32, MaxInt64, MaxUint64} \subseteq Nat
  /\ MaxUint32 = 2 * MaxInt32 + 1 /\ MaxUint32 < MaxInt64 /\ MaxInt64 < MaxUint64

Null        == [null |-> TRUE]
Absent      == [absent |-> TRUE]
Bool(b)     == [bool |-> b]
Signed(n)   == [int64 |-> n]
Unsigned(n) == [uint64 |-> n]
Double(n)   == [double |-> n]
Text(t)     == [string |-> t]
Array(s)    == [array |-> s]
Object(f)   == [object |-> f]

Kind(v) == CHOOSE k \in DOMAIN v : TRUE

Present(v) == Kind(v) # "absent"
IsNull(v)  == Kind(v) = "null"

\* The integers of a 64-bit value that a signed 64-bit reader can take.
IsInt64(v) == Kind(v) = "int64" \/ (Kind(v) = "uint64" /\ v.uint64 <= MaxInt64)

IsUint32(v) == Kind(v) \in {"int64", "uint64"} /\ v[Kind(v)] \in 0..MaxUint32

\* The number of a value that is an int64 or a uint32.
Number(v) == v[Kind(v)]

\* FieldView::is<T>(), with T named by the kind it asks for.
Is(T, v) ==
  \/ T = "int64" /\ IsInt64(v)
  \/ T = "uint32" /\ IsUint32(v)
  \/ T \notin {"int64", "uint32"} /\ T = Kind(v)

ArraySize(v)  == IF Is("array", v) THEN Len(v.array) ELSE 0
ObjectSize(v) == IF Is("object", v) THEN Cardinality(DOMAIN v.object) ELSE 0

Child(v, key) == IF Is("object", v) /\ key \in DOMAIN v.object THEN v.object[key] ELSE Absent

Element(v, i) == IF Is("array", v) /\ i \in DOMAIN v.array THEN v.array[i] ELSE Absent

\* What a view leaves in the document when it writes w through the field `key`.
Stored(v, key, w) ==
  IF Present(Child(v, key)) THEN Object([v.object EXCEPT ![key] = w]) ELSE v

\* The JSON a request is made of: its numbers fit 64 bits, its arrays are sequences, and
\* nothing in it is absent.  Inner says the same of the values one level down.
IsJson(v, Inner(_)) ==
  /\ Present(v)
  /\ Kind(v) = "int64"  => v.int64 \in (-MaxInt64 - 1)..MaxInt64
  /\ Kind(v) = "uint64" => v.uint64 \in 0..MaxUint64
  /\ Kind(v) = "array"  => /\ v.array \in Seq({v.array[i] : i \in DOMAIN v.array})
                           /\ \A i \in DOMAIN v.array : Inner(v.array[i])
  /\ Kind(v) = "object" => \A k \in DOMAIN v.object : Inner(v.object[k])

JsonLeaf(v)  == IsJson(v, Present)
JsonPart(v)  == IsJson(v, JsonLeaf)
JsonValue(v) == IsJson(v, JsonPart)
=============================================================================
