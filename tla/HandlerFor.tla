----------------------------- MODULE HandlerFor -----------------------------
(***************************************************************************)
(* A handler parsing one request, HandlerFor::parseInput of                *)
(* rpcspec/HandlerForDefs.hpp, on the server rpc-spec is built for.  The   *)
(* parse is one call of a function without side effects, so it is one      *)
(* step: it accepts the request with the typed Input, or refuses it with a *)
(* code.  What it must guarantee relates it to other parses: of the        *)
(* request it has rewritten, of another API version, on the other server.  *)
(***************************************************************************)
EXTENDS SpecDump, SpecContracts

CONSTANTS
  Specs,   \* the spec of every handler, a sequence of fields per API version
  Calls    \* the records [handler, version, request] a server receives

ASSUME CallsAreRequests ==
  \A call \in Calls : /\ call.handler \in DOMAIN Specs /\ call.version \in Nat
                      /\ Is("object", call.request) /\ JsonValue(call.request)

\* What the tables of the handlers keep to, and nothing in their types makes them.
Definitions(fields) == {fields[i] : i \in DOMAIN fields}
NamesOf(f)          == {f.key, f.alternate}
GuardsOf(f)         == {guard.key : guard \in UNION {Named(on, f.items, "ifAbsent") : on \in Servers}}

InEverySpec(Holds(_)) ==
  \A handler \in DOMAIN Specs : \A n \in DOMAIN Specs[handler] : Holds(Specs[handler][n])

ASSUME SpecsAreVersioned ==
  /\ \A handler \in DOMAIN Specs :
       Specs[handler] \in Seq(Definitions(Specs[handler])) \ {<<>>}
  /\ InEverySpec(LAMBDA fields :
       /\ fields \in Seq(Definitions(fields))
       /\ \A f \in Definitions(fields) : DOMAIN f = {"key", "member", "items", "conv", "alternate"})

\* Two fields that do not share their key share no name at all, nor one with the selector.
ASSUME NamesApart ==
  InEverySpec(LAMBDA fields :
    \A f, g \in Definitions(fields) :
      /\ f.key # g.key => NamesOf(f) \intersect NamesOf(g) = {}
      /\ f.conv = Selector => f.key = "ledger_index" /\ "ledger_hash" \notin NamesOf(g))

\* A guard names a field of the same spec; and only a bound field that no other reads has
\* an alternate name.
ASSUME OwnNames ==
  InEverySpec(LAMBDA fields :
    \A f \in Definitions(fields) :
      /\ GuardsOf(f) \subseteq {g.key : g \in Definitions(fields)}
      /\ f.alternate # f.key =>
           /\ f.conv \notin {Unbound, Selector}
           /\ NamesOf(f) \intersect (LedgerKeys \union UNION {GuardsOf(g) : g \in Definitions(fields)}) = {})

\* What the converter of a field takes for granted, the items of the field have checked.
ASSUME ConvertersVouchedFor ==
  InEverySpec(LAMBDA fields :
    \A f \in Definitions(fields) :
      /\ f.conv # Selector => SafeAll(f.items)
      /\ f.conv \notin {Unbound, Selector} => \A on \in Servers : VouchedFor(on, f.items, f.conv))

\* The plan of every version of every spec.
Plans ==
  [handler \in DOMAIN Specs |-> [n \in DOMAIN Specs[handler] |-> EffectiveFields(Specs[handler][n])]]

PlanOf(handler, version) == SelectedSpec(Plans[handler], version)

VARIABLES server, call, answer

vars == <<server, call, answer>>

Pending == [error |-> "pending"]

Init ==
  /\ server \in Servers
  /\ call \in Calls
  /\ answer = Pending

ParseInput == Parse(server, PlanOf(call.handler, call.version), call.request)

Accept(parsed) ==
  /\ answer = Pending
  /\ parsed.error = Fine
  /\ answer' = parsed
  /\ UNCHANGED <<server, call>>

Refuse(parsed) ==
  /\ answer = Pending
  /\ parsed.error # Fine
  /\ answer' = [error |-> CodeOn(server, parsed.error)]
  /\ UNCHANGED <<server, call>>

Next == Accept(ParseInput) \/ Refuse(ParseInput)

Spec == Init /\ [][Next]_vars

----------------------------------------------------------------------------
Accepted == answer.error = Fine

\* Another parse that accepts too, or gives the same answer.
AcceptsToo(other) == other.error = Fine
SameInput(other)  == Accepted => answer.input = other.input
SameAnswer(other) == (Accepted <=> AcceptsToo(other)) /\ SameInput(other)

Members == DOMAIN answer.input

Given(key) == Child(call.request, key)

\* The request without a key, and with a key under another name.
Without(key) ==
  Object([k \in DOMAIN call.request.object \ {key} |-> call.request.object[k]])
Renaming(old, new) ==
  Object([k \in (DOMAIN call.request.object \ {old}) \union {new} |->
            IF k = new THEN call.request.object[old] ELSE call.request.object[k]])

ParseOf(on, version, request) == Parse(on, PlanOf(call.handler, version), request)

(***************************************************************************)
(* No request makes an accessor throw: whatever a converter or a nested    *)
(* reader takes for granted (a *FromValidated helper, asUint32 on a child) *)
(* an item before it has checked, on both servers and in every version.    *)
(***************************************************************************)
NeverThrows == answer.error # "threw"

(***************************************************************************)
(* The request a parse leaves behind, which the modifiers have normalised  *)
(* in place, is a normal form: it is accepted again, as the same Input, is *)
(* not rewritten again, and earns the same deprecation warnings.           *)
(***************************************************************************)
NormalFormStable ==
  Accepted =>
    LET plan == PlanOf(call.handler, call.version)
    IN /\ ParseOf(server, call.version, answer.root) = answer
       /\ Warnings(server, plan, answer.root) = Warnings(server, plan, call.request)

(***************************************************************************)
(* Typed.hpp says that a non-optional member is populated or defaulted.    *)
(* These members are not optional and Types.hpp gives them no initialiser. *)
(***************************************************************************)
LimitedHandlers ==
  { "account_channels", "account_currencies", "account_lines", "account_mptokens",
    "account_mptoken_issuances", "account_nfts", "account_objects", "account_offers",
    "book_offers", "nft_offers_common", "nfts_by_issuer", "noripple_check" }

PlainMembers ==
  LET accountHandlers ==
        { "account_channels", "account_currencies", "account_lines", "account_mptokens",
          "account_mptoken_issuances", "account_nfts", "account_objects", "account_offers",
          "account_tx", "gateway_balances", "noripple_check" }
      others ==
           [nfts_by_issuer |-> {"issuer"}, mpt_holders |-> {"mpt_issuance_id"},
            mptoken_issuance_history |-> {"mpt_issuance_id"}, nft_info |-> {"nft_id"},
            nft_history |-> {"nft_id"}, nft_offers_common |-> {"nft_id"},
            deposit_authorized |-> {"source_account", "destination_account"},
            get_aggregate_price |-> {"base_asset", "quote_asset"}]
  IN [h \in DOMAIN Specs |->
        (IF h \in LimitedHandlers THEN {"limit"} ELSE {})
          \union (IF h \in accountHandlers THEN {"account"} ELSE {})
          \union (IF h \in DOMAIN others THEN others[h] ELSE {})]

\* A member that is not optional is set in every request: by a field that takes no request
\* without a value for it, or by one of two, and none unsets it again.
SetBy(on, plan, m) ==
  /\ \A f \in FieldsOf(plan) : f.member = m => NeverUnsets(f)
  /\ \E p, q \in DOMAIN plan :
       /\ plan[p].shouldRun /\ plan[p].field.member = m
       /\ plan[q].shouldRun /\ plan[q].field.member = m
       /\ \/ Populates(on, plan[p].field)
          \/ p < q /\ StandsInFor(on, plan[p].field, plan[q].field)

ASSUME PlainMembersAreSet ==
  \A handler \in DOMAIN Specs : \A n \in DOMAIN Specs[handler] :
    \A m \in PlainMembers[handler], on \in Servers : SetBy(on, EffectiveFields(Specs[handler][n]), m)

MembersPopulated == Accepted => \A m \in PlainMembers[call.handler] : answer.input[m] # Unset

(***************************************************************************)
(* An integer of an Input is the one the request wrote, as a number or as  *)
(* the text of one, at whatever depth: none is cut to 32 bits, wrapped or  *)
(* taken from another field.  The limit and the ledger range may saturate. *)
(***************************************************************************)
Spells(v, n) ==
  IF Is("string", v) THEN WithoutPlus(v.string) \in DOMAIN Decimals /\ Decimals[WithoutPlus(v.string)] = n
  ELSE Kind(v) \in {"int64", "uint64"} /\ Number(v) = n

ExactWith(v, typed, Inner(_, _)) ==
  CASE Kind(typed) = "number" -> Spells(v, typed.number)
    [] Kind(typed) = "entry"  -> \A k \in DOMAIN typed.entry : Inner(Child(v, k), typed.entry[k])
    [] Kind(typed) = "list"   -> \A i \in DOMAIN typed.list : Inner(Element(v, i), typed.list[i])
    [] OTHER -> TRUE

\* As deep as an Input goes: a text in a credential of the list of an entry.
ExactLeaf(v, typed)    == ExactWith(v, typed, LAMBDA w, deeper : FALSE)
ExactPart(v, typed)    == ExactWith(v, typed, ExactLeaf)
ExactElement(v, typed) == ExactWith(v, typed, ExactPart)
IsExact(v, typed)      == ExactWith(v, typed, ExactElement)

Saturated(v, n) ==
  \/ Spells(v, n)
  \/ n = MaxInt32 /\ Number(v) > MaxInt32
  \/ n = -MaxInt32 - 1 /\ Number(v) < -MaxInt32 - 1

IntegersAreExact ==
  Accepted =>
    \A m \in Members \ {"limit", "ledger"} :
      IF m \in {"ledger_index_min", "ledger_index_max"}
      THEN answer.input[m] # Unset => Saturated(Given(m), answer.input[m].number)
      ELSE \A key \in {m} \union {f.alternate : f \in {g \in FieldsOf(PlanOf(call.handler, call.version)) :
                                                        g.member = m}} :
             Present(Given(key)) => IsExact(Given(key), answer.input[m])

(***************************************************************************)
(* API version 2 changes the retightened bools and nothing else: it        *)
(* accepts what version 1 accepts if those the request carries are bools,  *)
(* with the same Input.                                                    *)
(***************************************************************************)
RetightenedBools ==
  [ account_tx |-> {"binary", "forward"}, noripple_check |-> {"transactions"}, tx |-> {"binary"},
    ledger |-> {"transactions", "expand", "binary", "owner_funds"},
    account_info |-> IF server = "clio" THEN {"signer_lists"} ELSE {} ]

Retightened ==
  IF call.handler \in DOMAIN RetightenedBools THEN RetightenedBools[call.handler] ELSE {}

TightenedFrom(one) ==
  /\ Accepted <=> /\ AcceptsToo(one)
                  /\ \A key \in Retightened : Present(Given(key)) => Is("bool", Given(key))
  /\ SameInput(one)

VersionTwoTightensBools ==
  (answer # Pending /\ call.version # 1 /\ Len(Specs[call.handler]) = 2) =>
    TightenedFrom(ParseOf(server, 1, call.request))

(***************************************************************************)
(* A request both servers accept means the same on both, up to what xrpld  *)
(* leaves to its handlers (clamping, a malformed account) and the names of *)
(* a ledger that only xrpld knows.                                         *)
(***************************************************************************)
OnlyOnXrpld == {"ident", "ledger"}

MeansTheSame(other) ==
  AcceptsToo(other) =>
    \A m \in Members \ {"limit"} :
      Kind(other.input[m]) # "deferred" => answer.input[m] = other.input[m]

ServersAgree ==
  (Accepted /\ server = "clio" /\ \A key \in OnlyOnXrpld : ~Present(Given(key))) =>
    MeansTheSame(ParseOf("xrpld", call.version, call.request))

(***************************************************************************)
(* An alias is a renaming: a request that uses the alternate name of a     *)
(* field is answered like the one that uses its own name, and one that     *)
(* uses both is refused.                                                   *)
(***************************************************************************)
AliasIsRenaming ==
  answer # Pending =>
    \A f \in FieldsOf(PlanOf(call.handler, call.version)) :
      (f.alternate # f.key /\ Present(Given(f.alternate))) =>
        IF Present(Given(f.key)) THEN ~Accepted
        ELSE SameAnswer(ParseOf(server, call.version, Renaming(f.alternate, f.key)))

(***************************************************************************)
(* The schema dump walks the same plan as a parse: it lists a key once,    *)
(* however often the spec overrides it (SpecDump.hpp), and lists every key *)
(* a parse or a warning depends on.  A request left with the listed keys   *)
(* alone is answered, and warned about, like the whole.  The `ledger` that *)
(* the selector of xrpld reads is the one key the dump leaves out.         *)
(***************************************************************************)
Dumps ==
  [handler \in DOMAIN Specs |-> [n \in DOMAIN Specs[handler] |-> dump(Specs[handler][n])]]

ReadUnlisted == IF server = "xrpld" THEN {"ledger"} ELSE {}

SchemaListsWhatIsRead ==
  LET dumped == SelectedSpec(Dumps[call.handler], call.version)
      plan   == PlanOf(call.handler, call.version)
      listed == Object([k \in DOMAIN call.request.object \intersect (ListedKeys(dumped) \union ReadUnlisted) |->
                          call.request.object[k]])
  IN answer # Pending =>
       /\ ListedOnce(dumped)
       /\ SameAnswer(ParseOf(server, call.version, listed))
       /\ Warnings(server, plan, listed) = Warnings(server, plan, call.request)

(***************************************************************************)
(* On xrpld `ident` stands in for a missing `account` and is ignored, even *)
(* malformed, when `account` is there.                                     *)
(***************************************************************************)
IdentYieldsToAccount ==
  (answer # Pending /\ server = "xrpld" /\ call.handler \in {"account_currencies", "account_info"}
     /\ Present(Given("ident"))) =>
    SameAnswer(ParseOf(server, call.version,
                       IF Present(Given("account")) THEN Without("ident")
                       ELSE Renaming("ident", "account")))

(***************************************************************************)
(* A limit Clio hands to a handler is one the handler is written for, and  *)
(* xrpld hands over no zero.                                               *)
(***************************************************************************)
LimitRange ==
  [ account_channels |-> 10..400, account_currencies |-> 10..400, account_lines |-> 10..400,
    account_mptoken_issuances |-> 10..400, account_mptokens |-> 10..400,
    account_nfts |-> 20..400, account_objects |-> 10..400, account_offers |-> 10..400,
    account_tx |-> 1..1000, book_offers |-> 1..100, mpt_holders |-> 1..100,
    mptoken_issuance_history |-> 1..100, nft_history |-> 1..100, nft_offers_common |-> 50..500,
    nfts_by_issuer |-> 1..100, noripple_check |-> 1..500 ]

LimitPolicy(on, handler) ==
  IF on = "clio" /\ handler \in DOMAIN LimitRange THEN LimitRange[handler] ELSE 1..MaxUint32

\* A field bound to a limit hands over a number of the range, or none.
ASSUME LimitsAreBounded ==
  \A handler \in DOMAIN Specs : \A n \in DOMAIN Specs[handler] :
    \A f \in FieldsOf(EffectiveFields(Specs[handler][n])), on \in Servers :
      f.member = "limit" => HandsOver(on, LimitPolicy(on, handler), f)

LimitWithinPolicy ==
  (Accepted /\ "limit" \in Members) =>
    (answer.input.limit # Unset =>
       LET n == answer.input.limit.number
       IN /\ n > 0
          /\ (server = "clio" /\ call.handler \in DOMAIN LimitRange) => n \in LimitRange[call.handler])

(***************************************************************************)
(* The comment of book_offers (Spec.hpp:64) calls the code of a malformed  *)
(* mpt_issuance_id in the converter unreachable, the section having        *)
(* validated the digits: the id would always answer the currency's code.   *)
(***************************************************************************)
MptBranchUnreachable ==
  (call.handler = "book_offers" /\ Present(Child(Given("taker_pays"), "mpt_issuance_id"))) =>
    answer.error # "srcIsrMalformed"
=============================================================================
