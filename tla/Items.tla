------------------------------- MODULE Items --------------------------------
(***************************************************************************)
(* The items a field of a spec lists, the constructors they are written    *)
(* with (rpcspec/Aliases.hpp) and what running them does to a field of a   *)
(* request.  An item is a record, so that a spec is a constant; Leaf gives *)
(* it its meaning, and Wrappers that of an item that holds others.         *)
(***************************************************************************)
EXTENDS Converters

----------------------------------------------------------------------------
\* Constructors.
required            == [item |-> "required"]
type(kinds)         == [item |-> "type", kinds |-> kinds]
min(bound)          == [item |-> "min", bound |-> bound]
between(lo, hi)     == [item |-> "between", lo |-> lo, hi |-> hi]
clamp(lo, hi)       == [item |-> "clamp", lo |-> lo, hi |-> hi]
oneOf(texts)        == [item |-> "oneOf", texts |-> texts]
nullAs(n)           == [item |-> "nullAs", value |-> Unsigned(n)]
defaultTo(n)        == [item |-> "default", value |-> UInt(n)]
notSupported        == [item |-> "notSupported"]
notSupportedIf(b)   == [item |-> "notSupportedIf", value |-> b]
minArrayLength(n)   == [item |-> "minArrayLength", bound |-> n]
maxArrayLength(n)   == [item |-> "maxArrayLength", bound |-> n]
accountIdArray(n)   == [item |-> "accountIdArray", bound |-> n]
hotWallet(code)     == [item |-> "hotWallet", code |-> code]
named(name)         == [item |-> name]
deprecated          == [item |-> "deprecated"]

section(fields)             == [item |-> "section", fields |-> fields]
ifType(kind, items)         == [item |-> "ifType", kind |-> kind, items |-> items]
withCustomError(item, code) == [item |-> "withCustomError", inner |-> item, code |-> code]
\* The servers rpc-spec is built for.
Servers == {"clio", "xrpld"}

ifServer(which, items)      == [item |-> "ifServer", server |-> which, items |-> items]
ifServerClio(items)         == ifServer("clio", items)
ifServerXrpld(items)        == ifServer("xrpld", items)

\* Guards.
ifAbsent(key) == [item |-> "ifAbsent", key |-> key]
never         == [item |-> "never"]

\* A field of a section.
nested(key, items) == [key |-> key, items |-> items]

----------------------------------------------------------------------------
\* What the requirement an item names says of a field.
Verify(server, item, v) ==
  LET name == item.item
  IN CASE name = "required"       -> Required(v)
       [] name = "type"           -> Type(item.kinds, v)
       [] name = "min"            -> Min("uint32", item.bound, v)
       [] name = "between"        -> Between("uint32", item.lo, item.hi, v)
       [] name = "oneOf"          -> OneOfValidator(item.texts, v)
       [] name = "notSupported"   -> NotSupported(v)
       [] name = "notSupportedIf" -> NotSupportedIfEqual(item.value, v)
       [] name = "minArrayLength" -> MinArrayLength(item.bound, v)
       [] name = "maxArrayLength" -> MaxArrayLength(item.bound, v)
       [] name = "accountIdArray" -> AccountIdArrayValidator(item.bound, v)
       [] name = "account"        -> AccountFormat(v)
       [] name = "accountBase58"  -> AccountBase58Validator(v)
       [] name = "uint256Hex"     -> HexStringValidator(256, v)
       [] name = "uint192Hex"     -> HexStringValidator(192, v)
       [] name = "hex256Array"    -> Hex256ArrayValidator(v)
       [] name = "uint192Array"   -> Uint192ArrayValidator(v)
       [] name = "accountMarker"  -> AccountMarkerValidator(v)
       [] name = "currency"       -> CurrencyValidator(v)
       [] name = "strictCurrency" -> StrictCurrencyValidator(v)
       [] name = "issuer"         -> IssuerValidator(v)
       [] name = "currencyIssue"  -> CurrencyIssueValidator(v)
       [] name = "credentialType" -> CredentialTypeValidator(v)
       [] name = "authorizeCredential" -> AuthorizeCredentialValidator(v)
       [] name = "timeFormat"     -> TimeFormatValidator(v)
       [] name = "hotWallet"      -> HotWalletValidator(item.code, v)
       [] name = "kTxTypeValidator"             -> TxTypeValidator(v)
       [] name = "kDelegateValidator"           -> DelegateValidator(v)
       [] name = "kStringIssueValidator"        -> StringIssueValidator(v)
       [] name = "kRippleStateAccountsValidator" -> RippleStateAccountsValidator(v)
       [] name = "kTakerValidator"              -> TakerValidator(server, v)
       [] name = "kSubscribeAccountsValidator"  -> SubscribeAccountsValidator(v)
       [] name = "kSubscribeStreamValidator"    -> StreamsValidator(server, v)
       [] name = "subscribe kBooksValidator"    -> SubscribeBooksValidator(v)
       [] name = "unsubscribe kBooksValidator"  -> UnsubscribeBooksValidator(v)

\* The items that rewrite the field they look at.
Modifiers ==
  {"clamp", "clampAs", "nullAs", "toLower", "toUpper", "toNumber", "lexicalUint32", "kOraclesValidator"}

Modify(item, v) ==
  LET name == item.item
  IN CASE name = "clamp"         -> Clamp("uint32", item.lo, item.hi, v)
       [] name = "clampAs"       -> ClampAs(v)
       [] name = "nullAs"        -> NullAs(item.value, v)
       [] name = "toLower"       -> ToLowerModifier(v)
       [] name = "toUpper"       -> ToUpperModifier(v)
       [] name = "toNumber"      -> ToNumberModifier(v)
       [] name = "lexicalUint32" -> LexicalUint32Modifier(v)
       [] name = "kOraclesValidator" -> OraclesValidator(v)

\* The items that no processor is called for: callIfProcessor leaves them out.
Markers == {"default", "deprecated", "ifAbsent", "never"}

\* An item that holds no others.
Leaf(server, item, v) ==
  IF item.item \in Modifiers THEN Modify(item, v)
  ELSE [error |-> IF item.item \in Markers THEN Fine ELSE Verify(server, item, v), value |-> v]

\* The specs nest their items three deep at most: a wrapper in a section in an ifType.
Deepest(server, items, v) == Passed(v)

Nested0 == INSTANCE Wrappers WITH Inner <- Deepest
Nested1 == INSTANCE Wrappers WITH Inner <- Nested0!RunProcessors
Nested2 == INSTANCE Wrappers WITH Inner <- Nested1!RunProcessors
Nested3 == INSTANCE Wrappers WITH Inner <- Nested2!RunProcessors

RunProcessors(server, items, v) == Nested3!RunProcessors(server, items, v)

\* The items of a list that are in force on a server, those of a wrapper among them.
InForce(server, items) ==
  LET wrappers == {i \in DOMAIN items : items[i].item = "ifServer"}
      active   == {i \in wrappers : items[i].server = server}
  IN {items[i] : i \in DOMAIN items \ wrappers}
       \union UNION {{items[i].items[j] : j \in DOMAIN items[i].items} : i \in active}

Named(server, items, name) == {item \in InForce(server, items) : item.item = name}

\* Whether a guard among the items keeps the field from running on this request.
SkipsField(server, items, root) ==
  \/ Named(server, items, "never") # {}
  \/ \E guard \in Named(server, items, "ifAbsent") : Present(Child(root, guard.key))

\* Whether a field the request carries earns it a deprecation warning.
Warns(server, items, v) == Deprecated(v) /\ Named(server, items, "deprecated") # {}
=============================================================================
