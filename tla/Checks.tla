------------------------------- MODULE Checks -------------------------------
(***************************************************************************)
(* The validators and modifiers that one handler keeps to itself           *)
(* (rpcspec/handlers/<name>/Spec.hpp), in the form of Validators.  Each is *)
(* wrapped in a CustomValidator or CustomModifier or tests by itself that  *)
(* the field is there, so each is fine with an absent field.               *)
(***************************************************************************)
EXTENDS Validators

\* The code of the first element of an array that Code finds fault with.
FirstFault(v, Code(_)) ==
  LET faulty == {i \in DOMAIN v.array : Code(v.array[i]) # Fine}
  IN IF faulty = {} THEN Fine
     ELSE Code(v.array[CHOOSE i \in faulty : \A j \in faulty : i =< j])

IsTextIn(texts, v) == Is("string", v) /\ v.string \in texts

----------------------------------------------------------------------------
\* account_tx and mptoken_issuance_history
TxTypeValidator(v) == TextOf(v, "invalidParams", LAMBDA t : t \in TxTypesInLowercase, "invalidParams")

DelegateValidator(v) ==
  IF ~Present(v) THEN Fine
  ELSE Unless(Is("object", v), "invalidParams")
         ?? Unless(IsTextIn({"actor", "authorizer"}, Child(v, "delegate_filter")), "invalidParams")
         ?? Unless(AccountFormat(Child(v, "counter_party")) = Fine, "actMalformed")

\* amm_info.  issueFromJson reads an object and throws on a text.
StringIssueValidator(v) == Unless(~Present(v), "issueMalformed")

\* ledger_entry
RippleStateAccountsValidator(v) ==
  LET account(i) == v.array[i]
  IN IF ~Present(v) THEN Fine
     ELSE Unless(Is("array", v) /\ Len(v.array) = 2, "invalidParams")
            ?? Unless(/\ Is("string", account(1)) /\ Is("string", account(2))
                      /\ account(1) # account(2), "invalidParams")
            ?? Unless(\A i \in 1..2 : ParseBase58Account(account(i).string) # NoText,
                      "malformedAddress")

\* gateway_balances: V1 fails with invalidHotwallet and V2 with invalidParams.
IsHotWallet(e) ==
  /\ Is("string", e)
  /\ e.string = "publicKey58" \/ ParseBase58Account(e.string) # NoText

HotWalletValidator(code, v) ==
  IF ~Present(v) THEN Fine
  ELSE Unless(IF Is("array", v) THEN \A i \in DOMAIN v.array : IsHotWallet(v.array[i])
              ELSE IsHotWallet(v), code)

\* tx
ToUpperModifier(v) ==
  IF Is("string", v) THEN Passed(Text(IF v.string = "ctid" THEN "CTID" ELSE v.string)) ELSE Passed(v)

----------------------------------------------------------------------------
\* book_offers.  xrpld takes null for an object without members; on Clio the
\* type check reports what is not an object.
TakerValidator(server, v) ==
  LET currency == Child(v, "currency")
      mptID    == Child(v, "mpt_issuance_id")
  IN IF ~Present(v) \/ (server = "clio" /\ ~Is("object", v)) THEN Fine
     ELSE Unless(/\ IsNull(v) \/ Is("object", v)
                 /\ Present(currency) # Present(mptID)
                 /\ Present(mptID) => ~Present(Child(v, "issuer"))
                 /\ Is("string", currency) \/ Is("string", mptID), "invalidParams")

----------------------------------------------------------------------------
\* get_aggregate_price, on Clio: every document id is rewritten to the number it spells.
OraclesMax == 200

OracleCode(e) ==
  LET docId   == Child(e, "oracle_document_id")
      account == Child(e, "account")
  IN Unless(Present(docId) /\ Present(account), "oracleMalformed")
       ?? Type({"uint32", "string"}, docId)
       ?? ToNumberModifier(docId).error
       ?? Unless(AccountBase58Validator(account) = Fine, "invalidParams")

NumberedOracle(e) ==
  Stored(e, "oracle_document_id", ToNumberModifier(Child(e, "oracle_document_id")).value)

OraclesValidator(v) ==
  IF ~Present(v) THEN Passed(v)
  ELSE IF ~(Is("array", v) /\ Len(v.array) \in 1..OraclesMax) THEN Failed("oracleMalformed")
  ELSE LET fault == FirstFault(v, OracleCode)
       IN IF fault # Fine THEN Failed(fault)
          ELSE Passed(Array([i \in DOMAIN v.array |-> NumberedOracle(v.array[i])]))

----------------------------------------------------------------------------
\* subscribe and unsubscribe
SubscribeAccountsValidator(v) ==
  IF ~Present(v) THEN Fine
  ELSE Unless(Is("array", v), "invalidParams")
         ?? Unless(v.array # <<>>, "actMalformed")
         ?? FirstFault(v, AccountFormat)

CommonStreams ==
  {"ledger", "transactions", "transactions_proposed", "book_changes", "manifests", "validations"}
NotSupportedStreams == {"server", "peer_status", "consensus"}
RippledExtraStreams == NotSupportedStreams \union {"rt_transactions"}

StreamCode(server, e) ==
  Unless(Is("string", e), "invalidParams")
    ?? Unless(~(server = "clio" /\ e.string \in NotSupportedStreams), "notSupported")
    ?? Unless(\/ e.string \in CommonStreams
              \/ server = "xrpld" /\ e.string \in RippledExtraStreams, "streamMalformed")

StreamsValidator(server, v) ==
  IF ~Present(v) THEN Fine
  ELSE Unless(Is("array", v), "invalidParams") ?? FirstFault(v, LAMBDA e : StreamCode(server, e))

\* The issuer a side of a book names, the XRP account when it names none.
SideIssuer(side) ==
  IF Present(Child(side, "issuer")) THEN ToIssuer(Child(side, "issuer").string) ELSE XrpAccount

SideCurrency(side) == ToCurrency(Child(side, "currency").string)

CurrencyCode(side, malformed) ==
  Unless(Is("string", Child(side, "currency")), malformed)
    ?? Unless(SideCurrency(side) # NoText, malformed)

IssuerCode(side, malformed) ==
  Unless(Present(Child(side, "issuer")) => Is("string", Child(side, "issuer")), "invalidParams")
    ?? Unless(SideIssuer(side) \notin {NoText, NoAccount}, malformed)
    ?? Unless((SideCurrency(side) = XrpCurrency) <=> (SideIssuer(side) = XrpAccount), malformed)

\* What subscribe alone asks of a book: a bool snapshot and a taker that is an account.
SnapshotCode(book) ==
  Type({"bool"}, Child(book, "snapshot"))
    ?? Unless(AccountFormat(Child(book, "taker")) = Fine, "badIssuer")

BookCode(book, Extra(_)) ==
  LET pays   == Child(book, "taker_pays")
      gets   == Child(book, "taker_gets")
      domain == Child(book, "domain")
  IN Unless(Is("object", book), "invalidParams")
       ?? Type({"bool"}, Child(book, "both"))
       ?? Extra(book)
       ?? Unless(Is("object", pays) /\ Is("object", gets), "invalidParams")
       ?? CurrencyCode(pays, "srcCurMalformed")
       ?? CurrencyCode(gets, "dstAmtMalformed")
       ?? Unless(Present(domain) => Is("string", domain), "domainMalformed")
       ?? IssuerCode(pays, "srcIsrMalformed")
       ?? IssuerCode(gets, "dstIsrMalformed")
       ?? Unless(<<SideCurrency(pays), SideIssuer(pays)>> # <<SideCurrency(gets), SideIssuer(gets)>>,
                 "badMarket")
       ?? Unless(Present(domain) => ParseHex(256, domain.string) # NoText, "domainMalformed")

BooksCode(v, Extra(_)) ==
  IF ~Present(v) THEN Fine
  ELSE Unless(Is("array", v), "invalidParams")
         ?? FirstFault(v, LAMBDA book : BookCode(book, Extra))

SubscribeBooksValidator(v)   == BooksCode(v, SnapshotCode)
UnsubscribeBooksValidator(v) == BooksCode(v, LAMBDA book : Fine)
=============================================================================
