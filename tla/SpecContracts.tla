--------------------------- MODULE SpecContracts ---------------------------
(***************************************************************************)
(* What the specs of the handlers owe their converters and the members of  *)
(* their Input.  A converter takes for granted what the items before it    *)
(* have checked, a handler that a member is set or a limit bounded, and    *)
(* nothing in the types of a spec says so: the table of the handlers has   *)
(* to keep to it (the assumptions of HandlerFor).                          *)
(***************************************************************************)
EXTENDS Items

\* The items a Verify knows, and what can be told of a leaf from its name.
Requirements ==
  { "required", "type", "min", "between", "oneOf", "notSupported", "notSupportedIf", "minArrayLength",
    "maxArrayLength", "accountIdArray", "account", "accountBase58", "uint256Hex", "uint192Hex",
    "hex256Array", "uint192Array", "accountMarker", "currency", "strictCurrency", "issuer",
    "currencyIssue", "credentialType", "authorizeCredential", "timeFormat", "hotWallet",
    "kTxTypeValidator", "kDelegateValidator", "kStringIssueValidator", "kRippleStateAccountsValidator",
    "kTakerValidator", "kSubscribeAccountsValidator", "kSubscribeStreamValidator",
    "subscribe kBooksValidator", "unsubscribe kBooksValidator" }

LeafKeeps(item) == item.item \notin Modifiers

LeafIsSafe(item) ==
  /\ item.item \in Requirements \union Modifiers \union Markers
  /\ item.item = "hotWallet" => item.code # "threw"

\* The shapes of the lists of each level of nesting; below the lowest there is nothing.
NoneBelow(items)              == FALSE
NoTestsBelow(on, kind, items) == {}
NoPartsBelow(on, items)       == {}

Shape0 == INSTANCE ItemShapes WITH
            InnerKeeps <- NoneBelow, InnerIsSafe <- NoneBelow, InnerTests <- NoTestsBelow,
            InnerSimple <- NoneBelow, InnerSectioned <- NoneBelow, InnerParts <- NoPartsBelow
Shape1 == INSTANCE ItemShapes WITH
            InnerKeeps <- Shape0!KeepsAll, InnerIsSafe <- Shape0!SafeAll, InnerTests <- Shape0!TestsOf,
            InnerSimple <- Shape0!Simple, InnerSectioned <- Shape0!Sectioned, InnerParts <- Shape0!PartsOf
Shape2 == INSTANCE ItemShapes WITH
            InnerKeeps <- Shape1!KeepsAll, InnerIsSafe <- Shape1!SafeAll, InnerTests <- Shape1!TestsOf,
            InnerSimple <- Shape1!Simple, InnerSectioned <- Shape1!Sectioned, InnerParts <- Shape1!PartsOf
Shape3 == INSTANCE ItemShapes WITH
            InnerKeeps <- Shape2!KeepsAll, InnerIsSafe <- Shape2!SafeAll, InnerTests <- Shape2!TestsOf,
            InnerSimple <- Shape2!Simple, InnerSectioned <- Shape2!Sectioned, InnerParts <- Shape2!PartsOf

KeepsAll(items)               == Shape3!KeepsAll(items)
SafeAll(items)                == Shape3!SafeAll(items)
Simple(items)                 == Shape3!Simple(items)
Sectioned(items)              == Shape3!Sectioned(items)
TestsOf(on, items)            == Shape3!TestsOf(on, Shape3!AnyKind, items)
HeadingTests(on, items)       == Shape3!HeadingTests(on, Shape3!AnyKind, items)
TextTests(on, items)          == Shape3!HeadingTests(on, "string", items)
PartsOf(on, items)            == Shape3!PartsOf(on, items)

----------------------------------------------------------------------------
Has(tests, names)       == \E x \in tests : x.item \in names
HasType(tests, kinds)   == \E x \in tests : x.item = "type" /\ x.kinds = kinds
AllKeep(tests)          == \A x \in tests : LeafKeeps(x)
OnlyRewrites(tests, name) == \A x \in tests : LeafKeeps(x) \/ x.item = name

\* The converters that take nothing for granted.
SelfGuarded ==
  { "accountId", "accountIdActMalformed", "deferredAccountId", "deferredAccountIdActMalformed",
    "linesAccount", "deferredAsset", "asUint32", "asString", "asUint256", "asUint192", "accountIdHex",
    "jsonBool", "jsonBoolStrict", "JsonBoolConverterT<kIsClioBuild>", "asBool", "accountMarkerStr",
    "ledgerData markerConv", "accountOwnedTypeConv", "ledgerEntryTypeConv", "TxHashConverter",
    "ownerConv", "uint8Conv", "currencyConv", "takerConv" }

\* Those that need one test of the field, which no item may rewrite then.
TestsFor ==
  [ asAccountIdVec       |-> {"accountIdArray", "kSubscribeAccountsValidator"},
    asUint192Vec         |-> {"uint192Array"},
    credentialsArrayConv |-> {"hex256Array"},
    streamVecConv        |-> {"kSubscribeStreamValidator"},
    subscribeBooksConv   |-> {"subscribe kBooksValidator"},
    unsubscribeBooksConv |-> {"unsubscribe kBooksValidator"},
    dateConv             |-> {"timeFormat"},
    markerStringConv     |-> {"accountMarker"},
    delegateConv         |-> {"kDelegateValidator"},
    roleGateway          |-> {"oneOf"} ]

\* A part of an object: the test each kind of part needs, and whether it has it.
TestFor(part) ==
  CASE part \in {"account", "optional account"} -> "accountBase58"
    [] part \in {"hash256", "optional hash256"} -> "uint256Hex"
    [] part = "hash192"  -> "uint192Hex"
    [] part = "text"     -> "credentialType"
    [] part = "issue"    -> "currencyIssue"
    [] part = "accounts" -> "kRippleStateAccountsValidator"
    [] part = "currency" -> "currency"
    [] part = "optional credentials" -> "authorizeCredential"

NeededParts   == {"account", "hash256", "hash192", "text", "issue", "accounts", "currency"}
OptionalParts == {"optional account", "optional hash256", "optional credentials"}

PartVouchedFor(part, tests) ==
  \/ part = "optional uint32"
  \/ part \in OptionalParts /\ AllKeep(tests) /\ Has(tests, {TestFor(part)})
  \/ part \in NeededParts /\ AllKeep(tests) /\ Has(tests, {TestFor(part)}) /\ Has(tests, {"required"})
  \/ /\ part = "uint32" /\ Has(tests, {"required"})
     /\ \/ AllKeep(tests) /\ HasType(tests, {"uint32"})
        \/ OnlyRewrites(tests, "toNumber") /\ Has(tests, {"toNumber"}) /\ HasType(tests, {"uint32", "string"})

\* An object of such parts, and the sides of a book that book_offers asks for.
PartsVouchedFor(on, items, parts, kinds) ==
  /\ Sectioned(items)
  /\ HasType(HeadingTests(on, items), kinds)
  /\ \A key \in DOMAIN parts : \E p \in PartsOf(on, items) : p.key = key /\ PartVouchedFor(parts[key], p.tests)

TakerVouchedFor(on, items) ==
  /\ Sectioned(items)
  /\ Has(HeadingTests(on, items), {"kTakerValidator"})
  /\ \A p \in PartsOf(on, items) : AllKeep(p.tests)
  /\ on = "clio" =>
       /\ HasType(HeadingTests(on, items), {"object"})
       /\ \E p \in PartsOf(on, items) : p.key = "issuer" /\ Has(p.tests, {"issuer"})

\* Whether the items of a field vouch for what its converter reads.
VouchedFor(on, items, conv) ==
  LET name == conv.conv
  IN \/ name \in SelfGuarded
     \/ name = "hotWalletConv" /\ KeepsAll(items)
     \/ name \in DOMAIN TestsFor /\ KeepsAll(items) /\ Has(TestsOf(on, items), TestsFor[name])
     \/ /\ name = "int32Bound" /\ Simple(items) /\ HasType(TestsOf(on, items), {"int64"})
        /\ OnlyRewrites(TestsOf(on, items), "clampAs")
     \/ /\ name = "oraclesConv" /\ Simple(items)
        /\ IF on = "clio" THEN /\ Has(TestsOf(on, items), {"kOraclesValidator"})
                              /\ OnlyRewrites(TestsOf(on, items), "kOraclesValidator")
           ELSE AllKeep(TestsOf(on, items))
     \/ name \in {"takerPaysConv", "takerGetsConv"} /\ TakerVouchedFor(on, items)
     \/ name = "markerConv" /\ PartsVouchedFor(on, items, [ledger |-> "uint32", seq |-> "uint32"], {"object"})
     \/ name = "bridgeConv" /\ PartsVouchedFor(on, items, BridgeParts, {"object"})
     \/ /\ name = "entry" /\ PartsVouchedFor(on, items, conv.parts, {"string", "object"})
        /\ Has(TextTests(on, items), {"uint256Hex"})
----------------------------------------------------------------------------
\* What a field owes the member it is bound to.  The converters that leave none unset, and
\* the fields that never unset theirs.
Populating ==
  { "accountId", "accountIdActMalformed", "linesAccount", "deferredAccountId", "asUint32",
    "asUint192", "asUint256", "currencyConv" }

DefaultsOf(items) == {item \in {items[i] : i \in DOMAIN items} : item.item = "default"}

NeverUnsets(f) ==
  /\ f.conv.conv \in Populating /\ "empty" \notin DOMAIN f.conv
  /\ \A item \in DefaultsOf(f.items) : item.value # Unset

\* Those that set it in every request they accept, by a default or a value they require, and
\* those that set it when another, which is bound to it too, finds no value.
GuardedBy(on, f, keys) ==
  /\ Named(on, f.items, "never") = {}
  /\ \A guard \in Named(on, f.items, "ifAbsent") : guard.key \in keys

Requires(on, f) == KeepsAll(f.items) /\ Has(TestsOf(on, f.items), {"required"})

Populates(on, f) == GuardedBy(on, f, {}) /\ (DefaultsOf(f.items) # {} \/ Requires(on, f))

StandsInFor(on, f, g) ==
  /\ GuardedBy(on, f, {g.key}) /\ Requires(on, f)
  /\ GuardedBy(on, g, {}) /\ KeepsAll(g.items) /\ g.alternate = g.key

\* The items that let no 32-bit number out of a range pass, and the lists that end with one
\* of them: those behind it keep the field, or are not run on this server.
Bounds(range, item) ==
  \/ item.item = "clamp" /\ {item.lo, item.hi} \subseteq range /\ item.lo..item.hi \subseteq range
  \/ item.item = "min"   /\ item.bound \in range /\ item.bound..MaxUint32 \subseteq range

EndsIn(items, IsLast(_), IsIdle(_)) ==
  /\ Shape3!IsList(items)
  /\ \E i \in DOMAIN items : IsLast(items[i]) /\ \A j \in DOMAIN items : j > i => IsIdle(items[j])

LeavesBounded(range, items) ==
  /\ \A i \in DOMAIN items : Shape3!IsLeaf(items[i])
  /\ EndsIn(items, LAMBDA item : Bounds(range, item), LeafKeeps)

Bounded(on, range, items) ==
  EndsIn(items,
         LAMBDA item : \/ Bounds(range, item)
                       \/ item.item = "ifServer" /\ item.server = on /\ LeavesBounded(range, item.items),
         LAMBDA item : Shape3!Keeps(item) \/ (item.item = "ifServer" /\ item.server # on))

\* A field that hands over a number of a range, or none.
HandsOver(on, range, f) ==
  /\ f.conv = as("asUint32")
  /\ Bounded(on, range, f.items)
  /\ \A item \in DefaultsOf(f.items) : \E n \in range : item.value = UInt(n)
=============================================================================
