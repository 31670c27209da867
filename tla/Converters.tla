----------------------------- MODULE Converters -----------------------------
(***************************************************************************)
(* The converters that end a bound field: rpcspec/Converters.hpp,          *)
(* Account.hpp, Asset.hpp and those of single handlers.  A converter takes *)
(* the field after its processors and returns [error, value], the value    *)
(* being the typed one the Input member receives.  The code "threw" stands *)
(* for what no answer is made of: an exception of an accessor or of a      *)
(* *FromValidated helper, or an accessor used on an absent field.          *)
(***************************************************************************)
EXTENDS Checks

\* Typed values.  A member nobody assigned keeps what value-initialisation gave it.
Unset       == [unset |-> TRUE]
Account(a)  == [account |-> a]
UInt(n)     == [number |-> n]
Flag(b)     == [flag |-> b]
Str(t)      == [text |-> t]
Hash(t)     == [hash |-> t]
Issue(c, i) == [issue |-> <<c, i>>]
MPT(t)      == [mpt |-> t]
Vec(s)      == [list |-> s]
Entry(f)    == [entry |-> f]
Deferred(e) == [deferred |-> e]

Threw == Failed("threw")

\* What a reading is wrapped into, or the code of a reading that failed.
Wrapped(reading, Wrap(_), code) == IF reading = NoText THEN Failed(code) ELSE Passed(Wrap(reading))

\* A field read as a text, with one code for another kind and one for a bad text.
ReadText(v, Read(_), Wrap(_), notString, malformed) ==
  IF Is("string", v) THEN Wrapped(Read(v.string), Wrap, malformed) ELSE Failed(notString)

\* accountFromValidated and its kin: the validators before it vouch for the text.
FromValidated(v, Read(_), Wrap(_)) == ReadText(v, Read, Wrap, "threw", "threw")

\* FieldView::asUint32 casts whatever integer it finds.
AsUint32(v) ==
  IF Kind(v) \in {"int64", "uint64"} THEN Passed(UInt(Number(v) % (MaxUint32 + 1))) ELSE Threw

AsText(v) == IF Is("string", v) THEN Passed(Str(v.string)) ELSE Threw

\* Every element of an array converted, the code of the first one that fails.
ListOf(v, Convert(_)) ==
  LET results == [i \in 1..ArraySize(v) |-> Convert(v.array[i])]
      failed  == {i \in DOMAIN results : results[i].error # Fine}
  IN IF failed = {} THEN Passed(Vec([i \in DOMAIN results |-> results[i].value]))
     ELSE results[CHOOSE i \in failed : \A j \in failed : i =< j]

\* An entry of the typed parts, unless the reading of one of them failed.
Assembled(parts) ==
  LET failed == {key \in DOMAIN parts : parts[key].error # Fine}
  IN IF failed = {} THEN Passed(Entry([key \in DOMAIN parts |-> parts[key].value]))
     ELSE parts[CHOOSE key \in failed : TRUE]

Hex256Of(t) == ParseHex(256, CStr(t))
Hex192Of(t) == ParseHex(192, CStr(t))
Hex160Of(t) == ParseHex(160, CStr(t))

----------------------------------------------------------------------------
\* Converters.hpp
AccountIdConverter(server, v) ==
  ReadText(v, LAMBDA t : IF server = "xrpld" THEN ParseBase58Account(t) ELSE AccountFromStringStrict(t),
           Account, "invalidParams", "actMalformed")

AccountIdActMalformedConverter(v) ==
  ReadText(v, AccountFromStringStrict, Account, "actMalformed", "actMalformed")

HexConverterBase(bits, v) ==
  ReadText(v, LAMBDA t : ParseHex(bits, CStr(t)), Hash, "invalidParams", "invalidParams")

\* What a lenient reader takes for true, the first character of a text being no NUL.
Truth(v) ==
  LET kind == Kind(v)
  IN CASE kind = "bool" -> v.bool
       [] kind \in {"int64", "uint64"} -> IsInt64(v) /\ Number(v) # 0
       [] kind = "double" -> v.double # 0
       [] kind = "string" -> v.string # ""
       [] kind = "array"  -> v.array # <<>>
       [] kind = "object" -> DOMAIN v.object # {}
       [] OTHER -> FALSE

JsonBoolConverter(strict, v) ==
  IF strict => Is("bool", v) THEN Passed(Flag(Truth(v))) ELSE Failed("invalidParams")

Uint32Converter(v) == IF IsUint32(v) THEN AsUint32(v) ELSE Failed("invalidParams")

StringConverter(v) == IF Is("string", v) THEN AsText(v) ELSE Failed("invalidParams")

AccountIdVecConverter(v) == ListOf(v, LAMBDA e : FromValidated(e, AccountFromStringStrict, Account))
Uint192VecConverter(v)   == ListOf(v, LAMBDA e : FromValidated(e, Hex192Of, Hash))

\* The hint of a marker as each server reads it: xrpld stops at a second comma and
\* allows a leading '+'.
MarkerHint(server, t) == IF server = "xrpld" THEN WithoutPlus(BetweenCommas(t)) ELSE AfterComma(t)

AccountMarkerStrConverter(server, v) ==
  ReadText(v, LAMBDA t : IF /\ HasComma(t) /\ ParseHex(256, CStr(BeforeComma(t))) # NoText
                            /\ FromChars(MarkerHint(server, t), 0, MaxUint64)
                         THEN t ELSE NoText,
           Str, "invalidParams", "invalidParams")

----------------------------------------------------------------------------
\* Account.hpp: xrpld leaves a bad text to the handler, and another kind too when
\* nonString says so; Clio fails with what its own converter answers.
DeferredAccountId(server, clioResult, nonString, v) ==
  LET id == AccountIdConverter("xrpld", v)
  IN IF server = "clio" \/ id.error = Fine THEN (IF server = "clio" THEN clioResult ELSE id)
     ELSE IF Is("string", v) \/ nonString = "deferred" THEN Passed(Deferred("malformed"))
     ELSE id

\* Asset.hpp: the asset xrpld reads from a view; what is malformed is left to the handler.
AssetFromView(v) ==
  LET currency == Child(v, "currency")
      mptID    == Child(v, "mpt_issuance_id")
      issuer   == Child(v, "issuer")
      code     == ToCurrency(currency.string)
      isAsset  ==
        /\ Is("object", v)
        /\ Present(currency) # Present(mptID)
        /\ IF Present(mptID)
           THEN ~Present(issuer) /\ Is("string", mptID) /\ ParseHex(192, mptID.string) # NoText
           ELSE /\ Is("string", currency) /\ code \notin {NoText, BadCurrency, NoCurrency}
                /\ IF code = XrpCurrency THEN ~Present(issuer) \/ IsNull(issuer)
                   ELSE /\ Is("string", issuer)
                        /\ ParseBase58Account(issuer.string) \notin {NoText, NoAccount, XrpAccount}
  IN IF ~isAsset THEN Deferred("malformed")
     ELSE IF Present(mptID) THEN MPT(mptID.string)
     ELSE IF code = XrpCurrency THEN Issue(code, XrpAccount)
     ELSE Issue(code, ParseBase58Account(issuer.string))

\* amm_info, on Clio.
IssueConverter(v) ==
  LET currency == Child(v, "currency")
      issuer   == Child(v, "issuer")
  IN IF ~Is("string", currency) \/ ToCurrency(currency.string) = NoText THEN Failed("issueMalformed")
     ELSE IF ToCurrency(currency.string) = XrpCurrency THEN Passed(Issue(XrpCurrency, XrpAccount))
     ELSE ReadText(issuer, ToIssuer, LAMBDA i : Issue(ToCurrency(currency.string), i),
                   "issueMalformed", "issueMalformed")

----------------------------------------------------------------------------
\* account_lines
AsBoolConverter(server, v) == JsonBoolConverter(server = "clio", v)

\* account_tx, nft_history and mptoken_issuance_history: -1 stands for no bound, and the
\* cast to 32 bits keeps what clampAs left.
Int32BoundConverter(v) ==
  IF ~(Kind(v) \in {"int64", "uint64"}) THEN Threw
  ELSE LET wrapped == ((Number(v) + MaxInt32 + 1) % (MaxUint32 + 1)) - MaxInt32 - 1
       IN Passed(IF wrapped = -1 THEN Unset ELSE UInt(wrapped))

\* account_objects and ledger_data
AccountOwnedTypeConverter(v) ==
  ReadText(v, AccountOwnedLedgerTypeFromStr, Str, "invalidParams", "invalidParams")

LedgerEntryTypeConverter(v) ==
  ReadText(v, LedgerEntryTypeFromStr, Str, "invalidParams", "invalidParams")

LedgerDataMarkerConverter(server, v) ==
  IF server = "clio" /\ ~Is("string", v)
  THEN (IF IsUint32(v) THEN AsUint32(v) ELSE Failed("invalidParams"))
  ELSE ReadText(v, Hex256Of, Hash, "invalidParams", "invalidParams")

\* transaction_entry: a hash that cannot be read is left to the handler.
TxHashConverter(v) ==
  IF Is("string", v) /\ Hex256Of(v.string) # NoText THEN Passed(Hash(Hex256Of(v.string)))
  ELSE Passed(Deferred("malformed"))

\* vault_info
OwnerConverter(server, v) ==
  LET malformed == IF server = "clio" THEN "malformedRequest" ELSE "actMalformed"
  IN ReadText(v, AccountFromStringStrict, Account, malformed, malformed)

\* gateway_balances: one wallet or an array of them, kept as a set.
HotWalletConverter(v) ==
  LET wallets == ListOf(IF Is("string", v) THEN Array(<<v>>) ELSE v,
                        LAMBDA e : ReadText(e, AccountFromStringStrict, Account,
                                            "invalidParams", "invalidParams"))
  IN IF wallets.error # Fine THEN wallets
     ELSE Passed([wallets |-> {wallets.value.list[i] : i \in DOMAIN wallets.value.list}])

\* get_aggregate_price
Uint8Converter(v) == IF IsUint32(v) THEN Passed(UInt(Number(v) % 256)) ELSE Failed("invalidParams")

DocumentId(docId) ==
  IF IsUint32(docId) THEN AsUint32(docId)
  ELSE LET lexical == LexicalUint32Modifier(docId)
       IN IF Is("string", docId) /\ lexical.error = Fine THEN AsUint32(lexical.value)
          ELSE Failed("invalid")

\* On Clio kOraclesValidator has rewritten the ids; xrpld reads them here and leaves
\* what is wrong with one to the handler.
OraclesConverter(server, v) ==
  LET docId(e)   == Child(e, "oracle_document_id")
      account(e) == Child(e, "account")
      holder(e)  == IF server = "clio"
                    THEN ReadText(account(e), AccountFromStringStrict, Account, "threw", "invalidParams")
                    ELSE ReadText(account(e), LAMBDA t : IF ParseBase58Account(t) = XrpAccount THEN NoText
                                                         ELSE ParseBase58Account(t),
                                  Account, "invalid", "invalid")
      number(e)  == IF server = "clio" THEN AsUint32(docId(e)) ELSE DocumentId(docId(e))
      oracle(e)  ==
        IF server = "xrpld" /\ ~(Present(docId(e)) /\ Present(account(e))) THEN Failed("malformed")
        ELSE Assembled([oracle_document_id |-> number(e), account |-> holder(e)])
      oracles    == ListOf(v, oracle)
  IN IF oracles.error \in {"malformed", "invalid"} THEN Passed(Deferred(oracles.error)) ELSE oracles

----------------------------------------------------------------------------
\* book_offers
TakerAssetConverter(server, amtErr, isrErr, v) ==
  LET currency  == Child(v, "currency")
      mptID     == Child(v, "mpt_issuance_id")
      issuer    == Child(v, "issuer")
      code      == ToCurrency(currency.string)
      isXrp     == code = XrpCurrency
      onClio    == server = "clio"
      issuerIs  == IF Present(issuer) THEN ToIssuer(issuer.string) ELSE XrpAccount
      currencyCode ==
        Unless(Is("string", currency), "threw")
          ?? Unless(code # NoText, IF onClio THEN isrErr ELSE amtErr)
      xrpldCode ==
        Unless(Present(issuer) => Is("string", issuer), "invalidParams")
          ?? Unless(issuerIs \notin {NoText, NoAccount}, isrErr)
          ?? Unless(isXrp <=> issuerIs = XrpAccount, isrErr)
      clioCode ==
        IF isXrp THEN Unless(~Present(issuer), isrErr)
        ELSE Unless(Present(issuer) => Is("string", issuer), "threw")
               ?? Unless(issuerIs # NoText, isrErr)
      fault == currencyCode ?? (IF onClio THEN clioCode ELSE xrpldCode)
  IN IF Present(mptID)
     THEN ReadText(mptID, LAMBDA t : ParseHex(192, t), MPT, "threw", isrErr)
     ELSE IF fault # Fine THEN Failed(fault) ELSE Passed(Issue(code, issuerIs))

TakerConverter(server, v) ==
  ReadText(v, LAMBDA t : IF server = "xrpld" THEN ParseBase58Account(t) ELSE AccountFromStringStrict(t),
           Account, "invalidParams", "invalidParams")

----------------------------------------------------------------------------
\* subscribe and unsubscribe.  rt_transactions is the old name of transactions_proposed.
StreamVecConverter(v) ==
  ListOf(v, LAMBDA e : FromValidated(e, LAMBDA t : IF t = "rt_transactions" THEN "transactions_proposed"
                                                   ELSE t, Str))

\* A side of a book, whose currency and issuer the validator has read.
SideOf(side) ==
  LET currency == FromValidated(Child(side, "currency"), ToCurrency, Str)
      issuer   == FromValidated(Child(side, "issuer"), ToIssuer, Str)
  IN IF currency.error # Fine \/ (Present(Child(side, "issuer")) /\ issuer.error # Fine) THEN Threw
     ELSE Passed(Issue(SideCurrency(side), SideIssuer(side)))

\* An optional child whose accessor throws unless it is of the kind the validator asked for.
Optional(v, kind, Wrap(_), otherwise) ==
  IF ~Present(v) THEN Passed(otherwise)
  ELSE IF Is(kind, v) THEN Passed(Wrap(v[kind])) ELSE Threw

BooksConverter(isSubscribe, v) ==
  LET asked(b, key) == IF isSubscribe THEN Child(b, key) ELSE Absent
      domainOf(b)   == Child(b, "domain")
      parts(b) ==
        [ both     |-> Optional(Child(b, "both"), "bool", Flag, Flag(FALSE)),
          snapshot |-> Optional(asked(b, "snapshot"), "bool", Flag, Flag(FALSE)),
          taker    |-> Optional(asked(b, "taker"), "string", Str, Unset),
          pays     |-> SideOf(Child(b, "taker_pays")),
          gets     |-> SideOf(Child(b, "taker_gets")),
          domain   |-> IF Present(domainOf(b)) THEN FromValidated(domainOf(b), Hex256Of, Hash)
                       ELSE Passed(Unset) ]
  IN ListOf(v, LAMBDA b : Assembled(parts(b)))

SubscribeBooksConverter(v)   == BooksConverter(TRUE, v)
UnsubscribeBooksConverter(v) == BooksConverter(FALSE, v)

----------------------------------------------------------------------------
\* ledger_entry.  An entry is named by its index, 64 hexadecimal digits, or by an object
\* whose parts the section has validated; a part marked "optional" may be missing.
CurrencyIssueOf(v) ==
  IF Is("string", Child(v, "currency")) /\ SideCurrency(v) = XrpCurrency
  THEN Passed(Issue(XrpCurrency, XrpAccount))
  ELSE IF Present(Child(v, "issuer")) THEN SideOf(v) ELSE Threw

CredentialsOf(v) ==
  ListOf(v, LAMBDA e : Assembled(
    [ issuer |-> FromValidated(Child(e, "issuer"), AccountFromStringStrict, Account),
      credential_type |-> AsText(Child(e, "credential_type")) ]))

\* Both accounts are read, whatever the array holds.
TwoAccountsOf(v) ==
  ListOf(Array(<<Element(v, 1), Element(v, 2)>>),
         LAMBDA e : FromValidated(e, AccountFromStringStrict, Account))

PartOf(part, v) ==
  CASE part = "account"  -> FromValidated(v, AccountFromStringStrict, Account)
    [] part = "hash256"  -> FromValidated(v, Hex256Of, Hash)
    [] part = "hash192"  -> FromValidated(v, Hex192Of, Hash)
    [] part = "uint32"   -> AsUint32(v)
    [] part = "text"     -> AsText(v)
    [] part = "issue"    -> CurrencyIssueOf(v)
    [] part = "accounts" -> TwoAccountsOf(v)
    [] part = "currency" -> FromValidated(v, ToCurrency, Str)
    [] part = "optional account" ->
         IF Is("string", v) THEN FromValidated(v, AccountFromStringStrict, Account) ELSE Passed(Unset)
    [] part = "optional hash256" ->
         IF Is("string", v) THEN FromValidated(v, Hex256Of, Hash) ELSE Passed(Unset)
    [] part = "optional uint32" -> IF IsUint32(v) THEN AsUint32(v) ELSE Passed(Unset)
    [] part = "optional credentials" -> IF Is("array", v) THEN CredentialsOf(v) ELSE Passed(Unset)

EntryConverter(parts, v) ==
  IF Is("string", v) THEN FromValidated(v, Hex256Of, Hash)
  ELSE Assembled([key \in DOMAIN parts |-> PartOf(parts[key], Child(v, key))])

\* A bridge has no text form.
BridgeParts ==
  [ LockingChainDoor  |-> "account", IssuingChainDoor  |-> "account",
    LockingChainIssue |-> "issue",   IssuingChainIssue |-> "issue" ]

BridgeConverter(v) == Assembled([key \in DOMAIN BridgeParts |-> PartOf(BridgeParts[key], Child(v, key))])

----------------------------------------------------------------------------
\* Converters of one line.
MarkerConverter(v) ==
  Assembled([ledger |-> AsUint32(Child(v, "ledger")), seq |-> AsUint32(Child(v, "seq"))])

DelegateFilterConverter(v) ==
  Assembled([ delegateType |-> AsText(Child(v, "delegate_filter")),
              counterParty |-> IF Present(Child(v, "counter_party")) THEN AsText(Child(v, "counter_party"))
                               ELSE Passed(Unset) ])

RoleGatewayConverter(v) ==
  IF Is("string", v) THEN Passed(Flag(v.string = "gateway")) ELSE Threw

DateConverter(v) == FromValidated(v, SystemTpFromUtcStr, Str)

CurrencyConverter(v) == ReadText(v, ToCurrency, Str, "invalidParams", "invalidParams")

CredentialsArrayConverter(v) == ListOf(v, LAMBDA e : FromValidated(e, Hex256Of, Hash))

AccountIdHexConverter(v) == HexConverterBase(160, v)

----------------------------------------------------------------------------
\* A spec names the converter that ends a field; `empty` is what emptyAsAbsent makes of
\* an empty text on xrpld, and `parts` what an entry of ledger_entry is made of.
as(name)      == [conv |-> name]
entry(parts)  == [conv |-> "entry", parts |-> parts]

AbsentValue(conv) == IF conv.conv = "linesAccount" THEN Deferred("missing") ELSE Unset

emptyAsAbsent(conv) == [conv |-> conv.conv, empty |-> AbsentValue(conv)]

LinesAccount(server, v) == DeferredAccountId(server, AccountIdActMalformedConverter(v), "fails", v)

ConverterNamed(server, conv, v) ==
  LET name == conv.conv
  IN CASE name = "accountId"      -> AccountIdConverter(server, v)
       [] name = "accountIdActMalformed" -> AccountIdActMalformedConverter(v)
       [] name = "deferredAccountId" ->
            DeferredAccountId(server, AccountIdConverter(server, v), "fails", v)
       [] name = "deferredAccountIdActMalformed" ->
            DeferredAccountId(server, AccountIdActMalformedConverter(v), "deferred", v)
       [] name = "linesAccount"   -> LinesAccount(server, v)
       [] name = "deferredAsset"  -> IF server = "xrpld" THEN Passed(AssetFromView(v)) ELSE IssueConverter(v)
       [] name = "asUint32"       -> Uint32Converter(v)
       [] name = "asString"       -> StringConverter(v)
       [] name = "asUint256"      -> HexConverterBase(256, v)
       [] name = "asUint192"      -> HexConverterBase(192, v)
       [] name = "accountIdHex"   -> AccountIdHexConverter(v)
       [] name = "asAccountIdVec" -> AccountIdVecConverter(v)
       [] name = "asUint192Vec"   -> Uint192VecConverter(v)
       [] name = "jsonBool"       -> JsonBoolConverter(FALSE, v)
       [] name = "jsonBoolStrict" -> JsonBoolConverter(TRUE, v)
       [] name = "JsonBoolConverterT<kIsClioBuild>" -> JsonBoolConverter(server = "clio", v)
       [] name = "asBool"         -> AsBoolConverter(server, v)
       [] name = "accountMarkerStr" -> AccountMarkerStrConverter(server, v)
       [] name = "int32Bound"     -> Int32BoundConverter(v)
       [] name = "markerConv"     -> MarkerConverter(v)
       [] name = "ledgerData markerConv" -> LedgerDataMarkerConverter(server, v)
       [] name = "markerStringConv" -> AsText(v)
       [] name = "delegateConv"   -> DelegateFilterConverter(v)
       [] name = "accountOwnedTypeConv" -> AccountOwnedTypeConverter(v)
       [] name = "ledgerEntryTypeConv"  -> LedgerEntryTypeConverter(v)
       [] name = "roleGateway"    -> RoleGatewayConverter(v)
       [] name = "dateConv"       -> DateConverter(v)
       [] name = "TxHashConverter" -> TxHashConverter(v)
       [] name = "ownerConv"      -> OwnerConverter(server, v)
       [] name = "hotWalletConv"  -> HotWalletConverter(v)
       [] name = "uint8Conv"      -> Uint8Converter(v)
       [] name = "currencyConv"   -> CurrencyConverter(v)
       [] name = "oraclesConv"    -> OraclesConverter(server, v)
       [] name = "credentialsArrayConv" -> CredentialsArrayConverter(v)
       [] name = "takerPaysConv"  -> TakerAssetConverter(server, "srcCurMalformed", "srcIsrMalformed", v)
       [] name = "takerGetsConv"  -> TakerAssetConverter(server, "dstAmtMalformed", "dstIsrMalformed", v)
       [] name = "takerConv"      -> TakerConverter(server, v)
       [] name = "streamVecConv"  -> StreamVecConverter(v)
       [] name = "subscribeBooksConv"   -> SubscribeBooksConverter(v)
       [] name = "unsubscribeBooksConv" -> UnsubscribeBooksConverter(v)
       [] name = "entry"          -> EntryConverter(conv.parts, v)
       [] name = "bridgeConv"     -> BridgeConverter(v)

Convert(server, conv, v) ==
  IF server = "xrpld" /\ "empty" \in DOMAIN conv /\ v = Text("") THEN Passed(conv.empty)
  ELSE ConverterNamed(server, conv, v)
=============================================================================
