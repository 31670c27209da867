----------------------------- MODULE ItemShapes -----------------------------
(***************************************************************************)
(* What the lists of items of the specs are made of, as far as it can be   *)
(* told without running them: which items leave a field as it is, which    *)
(* are surely run, and which nested fields a section looks at.  One level  *)
(* of nesting is described over the level below, as Wrappers runs them.    *)
(***************************************************************************)
EXTENDS Naturals, Sequences

CONSTANTS LeafKeeps(_), LeafIsSafe(_),
          InnerKeeps(_), InnerIsSafe(_), InnerTests(_, _, _),
          InnerSimple(_), InnerSectioned(_), InnerParts(_, _)

\* Stands for the kind of a field of which nothing is known.
AnyKind == "any kind"

IsList(s) == s \in Seq({s[i] : i \in DOMAIN s})

Holders == {"ifServer", "ifType", "withCustomError"}

HeldBy(item) == IF item.item = "withCustomError" THEN <<item.inner>> ELSE item.items

IsHolder(item) == item.item \in Holders /\ (item.item = "withCustomError" => item.code # "none")

\* Whether an item is a leaf, and whether what it holds is run on a field of a kind.
IsLeaf(item) == item.item \notin Holders \union {"section"}

Runs(on, kind, item) ==
  /\ item.item = "ifServer" => item.server = on
  /\ item.item = "ifType"   => kind # AnyKind /\ item.kind = kind

\* The items that never rewrite the field.
Keeps(item) ==
  \/ IsHolder(item) /\ InnerKeeps(HeldBy(item))
  \/ IsLeaf(item) /\ LeafKeeps(item)

KeepsAll(items) == IsList(items) /\ \A i \in DOMAIN items : Keeps(items[i])

\* The leaves surely run on a field of a kind.
Tests(on, kind, item) ==
  IF IsLeaf(item) THEN {item}
  ELSE IF item.item \in Holders /\ Runs(on, kind, item) THEN InnerTests(on, kind, HeldBy(item))
  ELSE {}

TestsOf(on, kind, items) == UNION {Tests(on, kind, items[i]) : i \in DOMAIN items}

\* A list whose last item alone may rewrite the field.
Simple(items) ==
  /\ IsList(items)
  /\ \A i \in DOMAIN items :
       \/ Keeps(items[i])
       \/ /\ i = Len(items)
          /\ \/ IsLeaf(items[i])
             \/ IsHolder(items[i]) /\ items[i].item # "ifType" /\ InnerSimple(HeldBy(items[i]))

\* The items whose codes are of this server and not an exception.
IsSafe(item) ==
  \/ item.item = "withCustomError" /\ item.code # "threw"
  \/ item.item \in Holders \ {"withCustomError"} /\ InnerIsSafe(item.items)
  \/ item.item = "section" /\ IsList(item.fields) /\ \A n \in DOMAIN item.fields : InnerIsSafe(item.fields[n].items)
  \/ IsLeaf(item) /\ LeafIsSafe(item)

SafeAll(items) == IsList(items) /\ \A i \in DOMAIN items : IsSafe(items[i])

\* The nested fields a list looks at on an object, each with the leaves run on it.
Parts(on, item) ==
  IF item.item = "section"
  THEN {[key |-> item.fields[n].key, tests |-> InnerTests(on, AnyKind, item.fields[n].items)] :
          n \in DOMAIN item.fields}
  ELSE IF item.item \in Holders THEN InnerParts(on, HeldBy(item)) ELSE {}

\* The items before the first section.
Heading(items) == {i \in DOMAIN items : \A j \in 1..i : Keeps(items[j])}

HeadingTests(on, kind, items) == UNION {Tests(on, kind, items[i]) : i \in Heading(items)}

PartsOf(on, items) == UNION {Parts(on, items[i]) : i \in DOMAIN items \ Heading(items)}

KeysOf(parts) == {p.key : p \in parts}

\* An item that on an object runs a section of distinct fields, and on another value nothing.
IsSection(item) ==
  \/ /\ item.item = "section" /\ IsList(item.fields)
     /\ \A n \in DOMAIN item.fields : InnerSimple(item.fields[n].items)
     /\ \A m, n \in DOMAIN item.fields : item.fields[m].key = item.fields[n].key => m = n
  \/ item.item = "ifType" /\ item.kind = "object" /\ InnerSectioned(item.items)
  \/ item.item = "withCustomError" /\ IsHolder(item) /\ InnerSectioned(<<item.inner>>)

\* A list of items that keep the field and, behind them, sections that share no key.
Sectioned(items) ==
  /\ IsList(items)
  /\ \A i \in DOMAIN items \ Heading(items) : IsSection(items[i])
  /\ \A i, j \in DOMAIN items \ Heading(items) : \A on \in {"clio", "xrpld"} :
       i # j => KeysOf(Parts(on, items[i])) \intersect KeysOf(Parts(on, items[j])) = {}
=============================================================================
