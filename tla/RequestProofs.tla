--------------------------- MODULE RequestProofs ---------------------------
(***************************************************************************)
(* What holds of every request and not only of those TLC can enumerate:    *)
(* which definition of a key the override plan runs, what the ledger       *)
(* selector of each server makes of the three keys it reads, that a        *)
(* validator vouches for all that the converter behind it reads, and that  *)
(* the items of a field then vouch for its converter, however they are     *)
(* nested: what WrapperProofs shows of one level of wrappers is carried    *)
(* from the leaves up to the lists of items of the fields.                 *)
(***************************************************************************)
EXTENDS SpecContracts, LedgerSelector, OverridePlan, TLAPS, WellFoundedInduction, SequenceTheorems

\* A set of naturals that is not empty has a least element.
LEMMA LeastNatural ==
  ASSUME NEW S \in SUBSET Nat, S # {}
  PROVE  \E least \in S : \A n \in S : least <= n
<1> DEFINE below == {pair \in Nat \X Nat : pair[1] < pair[2]}
<1>1. IsWellFoundedOn(below, Nat)
  BY NatLessThanWellFounded DEF OpToRel
<1>2. PICK least \in S : \A n \in S : <<n, least>> \notin below
  <2> HIDE DEF below
  <2> QED
    BY <1>1, WFMin
<1>3. \A n \in S : ~(n < least)
  BY <1>2
<1> QED
  BY <1>3

\* And one that is bounded has a greatest.
LEMMA GreatestNatural ==
  ASSUME NEW bound \in Nat, NEW S \in SUBSET (0..bound), S # {}
  PROVE  \E greatest \in S : \A n \in S : n <= greatest
<1> DEFINE mirror == {bound - n : n \in S}
<1>1. mirror \in SUBSET Nat /\ mirror # {}
  <2>1. \A n \in S : bound - n \in Nat
    OBVIOUS
  <2>2. PICK n \in S : TRUE
    OBVIOUS
  <2> QED
    BY <2>1, <2>2
<1>2. PICK least \in mirror : \A n \in mirror : least <= n
  <2> HIDE DEF mirror
  <2> QED
    BY <1>1, LeastNatural
<1>3. PICK greatest \in S : least = bound - greatest
  BY <1>2
<1>4. \A n \in S : bound - greatest <= bound - n
  BY <1>2, <1>3
<1> QED
  BY <1>4

-----------------------------------------------------------------------------
\* Every key of a spec runs exactly once, in the place of its first definition
\* and by its last one, so that a version that retightens a field replaces it
\* and moves nothing (buildOverridePlan).
THEOREM KeysRunOnce ==
  ASSUME NEW Definitions, NEW fields \in Seq(Definitions), NEW k \in DOMAIN fields
  PROVE  \E i \in DOMAIN fields :
           /\ KeyOf(fields, i) = KeyOf(fields, k)
           /\ IsFirst(fields, i)
           /\ \A j \in DOMAIN fields :
                KeyOf(fields, j) = KeyOf(fields, k) =>
                  /\ i <= j
                  /\ IsFirst(fields, j) => j = i
                  /\ j <= LastWithKeyOf(fields, i)
           /\ LastWithKeyOf(fields, i) \in DOMAIN fields
           /\ KeyOf(fields, LastWithKeyOf(fields, i)) = KeyOf(fields, k)
<1> DEFINE same == {j \in DOMAIN fields : KeyOf(fields, j) = KeyOf(fields, k)}
<1>1. /\ Len(fields) \in Nat
      /\ DOMAIN fields = 1..Len(fields)
      /\ same \in SUBSET (0..Len(fields)) /\ same \in SUBSET Nat
      /\ k \in same
  BY LenProperties
<1>2. PICK i \in same : \A j \in same : i <= j
  <2> HIDE DEF same
  <2> QED
    BY <1>1, LeastNatural
<1>3. PICK last \in same : \A j \in same : j <= last
  <2> HIDE DEF same
  <2> QED
    BY <1>1, GreatestNatural
<1>4. IsFirst(fields, i)
  BY <1>1, <1>2 DEF IsFirst
<1>5. \A j \in same : IsFirst(fields, j) => j = i
  BY <1>1, <1>2 DEF IsFirst
<1>6. LastWithKeyOf(fields, i) = last
  <2>1. \A j \in DOMAIN fields :
          (/\ KeyOf(fields, j) = KeyOf(fields, i)
           /\ \A n \in DOMAIN fields : KeyOf(fields, n) = KeyOf(fields, i) => n <= j)
          <=> j = last
    BY <1>1, <1>2, <1>3
  <2> QED
    BY <1>3, <2>1 DEF LastWithKeyOf
<1> QED
  BY <1>1, <1>2, <1>3, <1>4, <1>5, <1>6
-----------------------------------------------------------------------------
\* The decimal texts and the numbers they spell.
LEMMA DecimalTexts ==
  /\ DOMAIN Decimals = {"0", "-0", "7", "-1", "huge"}
  /\ \A t \in DOMAIN Decimals : Decimals[t] \in Int
<1>1. {s[1] : s \in Spellings} = {"0", "-0", "7", "-1", "huge"}
  BY DEF Spellings
<1>2. \A s \in Spellings : s[2] \in Int
  BY WidthsGrow DEF Spellings
<1>3. \A t \in {s[1] : s \in Spellings} : (CHOOSE s \in Spellings : s[1] = t)[2] \in Int
  BY <1>2
<1> QED
  BY <1>1, <1>3 DEF Decimals

\* A selector answers a specifier or invalidParams, and nothing else, whatever
\* the keys hold.
THEOREM SelectorNeverThrows ==
  ASSUME NEW server, NEW root
  PROVE  LedgerFromRequest(server, root).error \in {Fine, "invalidParams"}
<1>1. \A v : FromHash(v).error \in {Fine, "invalidParams"}
  BY DEF FromHash, HexConverterBase, ReadText, Wrapped, Passed, Failed
<1>2. \A v, t : FromSequence(v, t).error \in {Fine, "invalidParams"}
  BY DEF FromSequence, AsUint32, IsUint32, Passed, Refused, Failed
<1>3. \A v : LedgerSpecifierFromIndex(v).error \in {Fine, "invalidParams"}
  BY <1>2 DEF LedgerSpecifierFromIndex, FromShortcut, Passed
<1>4. \A v : XrpldLedgerFromIndex(v).error \in {Fine, "invalidParams"}
  BY <1>2 DEF XrpldLedgerFromIndex, FromShortcut, Passed
<1>5. Refused.error = "invalidParams" /\ Passed(Unspecified).error = Fine
  BY DEF Refused, Failed, Passed
<1>6. ClioLedgerFromRequest(root).error \in {Fine, "invalidParams"}
  BY <1>1, <1>3, <1>5 DEF ClioLedgerFromRequest
<1>7. XrpldLedgerFromRequest(root).error \in {Fine, "invalidParams"}
  BY <1>1, <1>4, <1>5 DEF XrpldLedgerFromRequest
<1> QED
  BY <1>6, <1>7 DEF LedgerFromRequest

\* v spells the number n: as an integer of either sign, or as a text that one
\* of the servers reads.
Denotes(v, n) ==
  \/ Kind(v) \in {"int64", "uint64"} /\ Number(v) = n
  \/ /\ Is("string", v)
     /\ \E t \in DOMAIN Decimals \cap {v.string, WithoutPlus(v.string)} : Decimals[t] = n

\* What a sequence is read from, and that the cast to 32 bits loses nothing.
LEMMA SequenceExact ==
  ASSUME NEW v, NEW t \in {v.string, WithoutPlus(v.string)}, NEW n,
         FromSequence(v, t) = Passed(UInt(n))
  PROVE  n \in 0..MaxUint32 /\ Denotes(v, n)
<1>1. /\ \A x : Passed(UInt(x)) = Passed(UInt(n)) => x = n
      /\ Passed(UInt(n)) # Refused
  <2>1. ASSUME NEW x, Passed(UInt(x)) = Passed(UInt(n)) PROVE x = n
    <3>1. Passed(UInt(x)).value.number = x /\ Passed(UInt(n)).value.number = n
      BY DEF Passed, UInt
    <3> QED
      BY <2>1, <3>1
  <2> QED
    BY <2>1 DEF Passed, Refused, Failed, Fine
<1>2. CASE IsUint32(v)
  <2>1. /\ Kind(v) \in {"int64", "uint64"}
        /\ Number(v) \in 0..MaxUint32
    BY <1>2 DEF IsUint32, Number
  <2>2. Number(v) % (MaxUint32 + 1) = Number(v)
    BY <2>1, WidthsGrow
  <2>3. n = Number(v)
    BY <1>1, <1>2, <2>1, <2>2 DEF FromSequence, AsUint32
  <2> QED
    BY <2>1, <2>3 DEF Denotes
<1>3. CASE ~IsUint32(v)
  <2>1. /\ Is("string", v) /\ FromChars(t, 0, MaxUint32)
        /\ n = Decimals[t]
    BY <1>1, <1>3 DEF FromSequence
  <2> QED
    BY <2>1 DEF Denotes, FromChars
<1> QED
  BY <1>2, <1>3

\* Whatever the other keys hold, a sequence in the answer is the one that
\* `ledger_index` or `ledger` spells, and it fits the 32 bits it is cast to
\* (ledgerSpecifierFromIndex, xrpldLedgerFromIndex).
THEOREM SelectorIsExact ==
  ASSUME NEW server, NEW root, NEW n,
         LedgerFromRequest(server, root) = Passed(UInt(n))
  PROVE  /\ n \in 0..MaxUint32
         /\ \E key \in {"ledger", "ledger_index"} : Denotes(Child(root, key), n)
<1> DEFINE answer == Passed(UInt(n))
<1>1. \A v : FromHash(v) # answer
  BY DEF FromHash, HexConverterBase, ReadText, Wrapped, Passed, Failed, Hash, UInt, Fine
<1>2. /\ Passed(Unspecified) # answer /\ Refused # answer
      /\ \A s : Passed(Shortcut(s)) # answer
  BY DEF Passed, Refused, Failed, Unspecified, Unset, UInt, Shortcut, Fine
<1>3. \A v : LedgerSpecifierFromIndex(v) = answer => FromSequence(v, v.string) = answer
  BY <1>2 DEF LedgerSpecifierFromIndex, FromShortcut
<1>4. \A v : XrpldLedgerFromIndex(v) = answer => FromSequence(v, WithoutPlus(v.string)) = answer
  BY <1>2 DEF XrpldLedgerFromIndex, FromShortcut
<1>5. PICK key \in {"ledger", "ledger_index"} :
             \/ LedgerSpecifierFromIndex(Child(root, key)) = answer
             \/ XrpldLedgerFromIndex(Child(root, key)) = answer
  <2>1. CASE server = "xrpld"
    BY <1>1, <1>2, <2>1 DEF LedgerFromRequest, XrpldLedgerFromRequest
  <2>2. CASE server # "xrpld"
    BY <1>1, <1>2, <2>2 DEF LedgerFromRequest, ClioLedgerFromRequest
  <2> QED
    BY <2>1, <2>2
<1> QED
  BY <1>3, <1>4, <1>5, SequenceExact

\* A request that both servers take asks both for the same ledger, as long as
\* it leaves out the `ledger` that xrpld alone reads.
THEOREM SelectorsAgree ==
  ASSUME NEW root, ~Present(Child(root, "ledger")),
         LedgerFromRequest("clio", root).error = Fine,
         LedgerFromRequest("xrpld", root).error = Fine
  PROVE  LedgerFromRequest("clio", root) = LedgerFromRequest("xrpld", root)
<1> DEFINE index == Child(root, "ledger_index")
<1>1. Refused.error # Fine
  BY DEF Refused, Failed, Fine
<1>2. CASE Present(Child(root, "ledger_hash"))
  BY <1>1, <1>2 DEF LedgerFromRequest, ClioLedgerFromRequest, XrpldLedgerFromRequest
<1>3. CASE ~Present(Child(root, "ledger_hash")) /\ ~Present(index)
  BY <1>1, <1>3 DEF LedgerFromRequest, ClioLedgerFromRequest, XrpldLedgerFromRequest
<1>4. CASE ~Present(Child(root, "ledger_hash")) /\ Present(index)
  <2>1. /\ LedgerFromRequest("clio", root) = LedgerSpecifierFromIndex(index)
        /\ LedgerFromRequest("xrpld", root) = XrpldLedgerFromIndex(index)
    BY <1>1, <1>4 DEF LedgerFromRequest, ClioLedgerFromRequest, XrpldLedgerFromRequest
  <2>2. CASE ~Is("string", index)
    BY <2>1, <2>2 DEF LedgerSpecifierFromIndex, XrpldLedgerFromIndex, FromShortcut, FromSequence
  <2>3. CASE Is("string", index)
    <3> DEFINE t == index.string
    <3>1. ~IsUint32(index)
      BY <2>3 DEF Is, IsUint32
    <3>2. CASE t = "validated"
      BY <2>1, <2>3, <3>2 DEF LedgerSpecifierFromIndex, XrpldLedgerFromIndex, FromShortcut
    <3>3. CASE t # "validated"
      <4>1. t \in DOMAIN Decimals
        BY <1>1, <2>1, <2>3, <3>1, <3>3 DEF LedgerSpecifierFromIndex, FromShortcut, FromSequence, FromChars
      <4>2. WithoutPlus(t) = t /\ t \notin {"current", "", "validated", "closed"}
        BY <4>1, DecimalTexts DEF WithoutPlus
      <4> QED
        BY <2>1, <2>3, <3>3, <4>2 DEF LedgerSpecifierFromIndex, XrpldLedgerFromIndex, FromShortcut
    <3> QED
      BY <3>2, <3>3
  <2> QED
    BY <2>2, <2>3
<1> QED
  BY <1>2, <1>3, <1>4

-----------------------------------------------------------------------------
\* What a validator of a text lets pass is a text that satisfies Reads.
LEMMA CodesDiffer ==
  /\ Fine # "invalidParams" /\ Fine # "actMalformed" /\ Fine # "malformedAddress"
  /\ Fine # "malformedCurrency" /\ Fine # "malformedAuthorizedCredentials"
  /\ Fine # "malformedRequest"
  /\ \A x : Passed(x).error = Fine
  BY DEF Fine, Passed

\* A text that a validator of addresses, hashes, currencies or issuers lets
\* pass is one that the accountFromValidated, ...FromValidated of its converter
\* can read.
THEOREM TextsVouchedFor ==
  ASSUME NEW v, Present(v)
  PROVE  /\ AccountFormat(v) = Fine \/ AccountBase58Validator(v) = Fine =>
              FromValidated(v, AccountFromStringStrict, Account).error = Fine
         /\ \A bits : HexStringValidator(bits, v) = Fine =>
              FromValidated(v, LAMBDA t : ParseHex(bits, CStr(t)), Hash).error = Fine
         /\ CurrencyValidator(v) = Fine => FromValidated(v, ToCurrency, Str).error = Fine
         /\ IssuerValidator(v) = Fine => FromValidated(v, ToIssuer, Str).error = Fine
         /\ TimeFormatValidator(v) = Fine => DateConverter(v).error = Fine
<1>1. AccountFormat(v) = Fine \/ AccountBase58Validator(v) = Fine =>
        Is("string", v) /\ AccountFromStringStrict(v.string) # NoText
  BY CodesDiffer DEF AccountFormat, AccountBase58Validator, TextOf, Unless, ??, AccountFromStringStrict
<1>2. \A bits : HexStringValidator(bits, v) = Fine =>
        Is("string", v) /\ ParseHex(bits, CStr(v.string)) # NoText
  BY CodesDiffer DEF HexStringValidator, TextOf, Unless, ??
<1>3. CurrencyValidator(v) = Fine => Is("string", v) /\ ToCurrency(v.string) # NoText
  BY CodesDiffer DEF CurrencyValidator, TextOf, Unless, ??
<1>4. IssuerValidator(v) = Fine => Is("string", v) /\ ToIssuer(v.string) # NoText
  BY CodesDiffer DEF IssuerValidator, TextOf, Unless, ??
<1>5. TimeFormatValidator(v) = Fine => Is("string", v) /\ SystemTpFromUtcStr(v.string) # NoText
  BY CodesDiffer DEF TimeFormatValidator, TextOf, Unless, ??
<1>6. AccountFormat(v) = Fine \/ AccountBase58Validator(v) = Fine =>
        FromValidated(v, AccountFromStringStrict, Account).error = Fine
  BY <1>1, CodesDiffer DEF FromValidated, ReadText, Wrapped
<1>7. \A bits : HexStringValidator(bits, v) = Fine =>
        FromValidated(v, LAMBDA t : ParseHex(bits, CStr(t)), Hash).error = Fine
  BY <1>2, CodesDiffer DEF FromValidated, ReadText, Wrapped
<1>8. CurrencyValidator(v) = Fine => FromValidated(v, ToCurrency, Str).error = Fine
  BY <1>3, CodesDiffer DEF FromValidated, ReadText, Wrapped
<1>9. IssuerValidator(v) = Fine => FromValidated(v, ToIssuer, Str).error = Fine
  BY <1>4, CodesDiffer DEF FromValidated, ReadText, Wrapped
<1>10. TimeFormatValidator(v) = Fine => DateConverter(v).error = Fine
  BY <1>5, CodesDiffer DEF DateConverter, FromValidated, ReadText, Wrapped
<1> QED
  BY <1>6, <1>7, <1>8, <1>9, <1>10

\* The first of a set of positions is one of them.
LEMMA FirstOfSome ==
  ASSUME NEW S \in SUBSET Nat, S # {}
  PROVE  (CHOOSE i \in S : \A j \in S : i <= j) \in S
  BY LeastNatural

\* An array is a sequence of whatever it holds, and holds no absent value.
IsArrayOf(v, Elements) ==
  Is("array", v) => v.array \in Seq(Elements) /\ \A e \in Elements : Present(e)

\* The size of such an array is the length of its sequence, and each position holds a value.
LEMMA ElementsOf ==
  ASSUME NEW v, Is("array", v), NEW Elements, IsArrayOf(v, Elements)
  PROVE  /\ ArraySize(v) = Len(v.array)
         /\ DOMAIN v.array = 1..ArraySize(v)
         /\ DOMAIN v.array \subseteq Nat
         /\ \A i \in DOMAIN v.array : Present(v.array[i])
  BY LenProperties, ElementOfSeq DEF ArraySize, IsArrayOf

\* The same of arrays: of accounts, of hashes, of streams.
THEOREM ArraysVouchedFor ==
  ASSUME NEW v, Present(v), NEW Elements, IsArrayOf(v, Elements)
  PROVE  /\ \A most : AccountIdArrayValidator(most, v) = Fine => AccountIdVecConverter(v).error = Fine
         /\ SubscribeAccountsValidator(v) = Fine => AccountIdVecConverter(v).error = Fine
         /\ Uint192ArrayValidator(v) = Fine => Uint192VecConverter(v).error = Fine
         /\ Hex256ArrayValidator(v) = Fine => CredentialsArrayConverter(v).error = Fine
         /\ \A server : StreamsValidator(server, v) = Fine => StreamVecConverter(v).error = Fine
<1>1. ASSUME Is("array", v),
             \A i \in DOMAIN v.array :
               Is("string", v.array[i]) /\ AccountFromStringStrict(v.array[i].string) # NoText
      PROVE  AccountIdVecConverter(v).error = Fine
  <2>1. \A i \in 1..ArraySize(v) :
          FromValidated(v.array[i], AccountFromStringStrict, Account).error = Fine
    BY <1>1, ElementsOf, CodesDiffer DEF FromValidated, ReadText, Wrapped
  <2> QED
    BY <2>1, CodesDiffer DEF AccountIdVecConverter, ListOf
<1>2. ASSUME Is("array", v),
             \A i \in DOMAIN v.array :
               Is("string", v.array[i]) /\ ParseHex(192, CStr(v.array[i].string)) # NoText
      PROVE  Uint192VecConverter(v).error = Fine
  <2>1. \A i \in 1..ArraySize(v) : FromValidated(v.array[i], Hex192Of, Hash).error = Fine
    BY <1>2, ElementsOf, CodesDiffer DEF FromValidated, ReadText, Wrapped, Hex192Of
  <2> QED
    BY <2>1, CodesDiffer DEF Uint192VecConverter, ListOf
<1>3. ASSUME Is("array", v),
             \A i \in DOMAIN v.array :
               Is("string", v.array[i]) /\ ParseHex(256, CStr(v.array[i].string)) # NoText
      PROVE  CredentialsArrayConverter(v).error = Fine
  <2>1. \A i \in 1..ArraySize(v) : FromValidated(v.array[i], Hex256Of, Hash).error = Fine
    BY <1>3, ElementsOf, CodesDiffer DEF FromValidated, ReadText, Wrapped, Hex256Of
  <2> QED
    BY <2>1, CodesDiffer DEF CredentialsArrayConverter, ListOf
<1>4. \A most : AccountIdArrayValidator(most, v) = Fine => AccountIdVecConverter(v).error = Fine
  BY <1>1, CodesDiffer DEF AccountIdArrayValidator, AllTexts, Unless
<1>5. Uint192ArrayValidator(v) = Fine => Uint192VecConverter(v).error = Fine
  BY <1>2, CodesDiffer DEF Uint192ArrayValidator, AllTexts, Unless
<1>6. Hex256ArrayValidator(v) = Fine => CredentialsArrayConverter(v).error = Fine
  BY <1>3, CodesDiffer DEF Hex256ArrayValidator, AllTexts, Unless
<1>7. ASSUME SubscribeAccountsValidator(v) = Fine
      PROVE  AccountIdVecConverter(v).error = Fine
  <2> DEFINE faulty == {i \in DOMAIN v.array : AccountFormat(v.array[i]) # Fine}
  <2>1. Is("array", v) /\ FirstFault(v, AccountFormat) = Fine
    BY <1>7, CodesDiffer DEF SubscribeAccountsValidator, Unless, ??
  <2>2. faulty = {}
    <3>1. faulty \in SUBSET Nat
      BY <2>1, ElementsOf
    <3> QED
      BY <2>1, <3>1, FirstOfSome DEF FirstFault
  <2>3. \A i \in DOMAIN v.array :
          Is("string", v.array[i]) /\ AccountFromStringStrict(v.array[i].string) # NoText
    BY <2>1, <2>2, ElementsOf, CodesDiffer DEF AccountFormat, TextOf, Unless, ??
  <2> QED
    BY <1>1, <2>1, <2>3
<1>8. ASSUME NEW server, StreamsValidator(server, v) = Fine
      PROVE  StreamVecConverter(v).error = Fine
  <2> DEFINE faulty == {i \in DOMAIN v.array : StreamCode(server, v.array[i]) # Fine}
             Renamed(t) == IF t = "rt_transactions" THEN "transactions_proposed" ELSE t
  <2>1. Is("array", v) /\ FirstFault(v, LAMBDA e : StreamCode(server, e)) = Fine
    BY <1>8, CodesDiffer DEF StreamsValidator, Unless, ??
  <2>2. faulty = {}
    <3>1. faulty \in SUBSET Nat
      BY <2>1, ElementsOf
    <3> QED
      BY <2>1, <3>1, FirstOfSome DEF FirstFault
  <2>3. \A i \in DOMAIN v.array :
          /\ Is("string", v.array[i])
          /\ v.array[i].string \in CommonStreams \cup RippledExtraStreams
    BY <2>2, CodesDiffer DEF StreamCode, Unless, ??, Fine
  <2>4. \A i \in DOMAIN v.array : Renamed(v.array[i].string) # NoText
    BY <2>3 DEF CommonStreams, RippledExtraStreams, NotSupportedStreams, NoText
  <2>5. \A i \in 1..ArraySize(v) : FromValidated(v.array[i], Renamed, Str).error = Fine
    BY <2>1, <2>3, <2>4, ElementsOf, CodesDiffer DEF FromValidated, ReadText, Wrapped
  <2> QED
    BY <2>5, CodesDiffer DEF StreamVecConverter, ListOf
<1> QED
  BY <1>4, <1>5, <1>6, <1>7, <1>8

\* What reads as hexadecimal digits as a whole does so as a C string.
LEMMA WholeTextReadsAsCString ==
  ASSUME NEW bits, NEW t, ParseHex(bits, t) # NoText
  PROVE  ParseHex(bits, CStr(t)) # NoText
<1>1. t \notin {"hex256~", "hex192~"}
  BY DEF ParseHex, HexTexts
<1> QED
  BY <1>1 DEF CStr

\* A side of a book whose currency and issuer have passed can be read.
LEMMA SideVouchedFor ==
  ASSUME NEW side, NEW badCurrency, badCurrency # Fine, NEW badIssuer, badIssuer # Fine,
         CurrencyCode(side, badCurrency) = Fine, IssuerCode(side, badIssuer) = Fine
  PROVE  SideOf(side).error = Fine
<1> DEFINE currency == Child(side, "currency")
           issuer   == Child(side, "issuer")
<1>1. Is("string", currency) /\ ToCurrency(currency.string) # NoText
  BY CodesDiffer DEF CurrencyCode, SideCurrency, Unless, ??
<1>2. Present(issuer) => Is("string", issuer) /\ ToIssuer(issuer.string) # NoText
  BY CodesDiffer DEF IssuerCode, SideIssuer, Unless, ??
<1>3. FromValidated(currency, ToCurrency, Str).error = Fine
  BY <1>1, CodesDiffer DEF FromValidated, ReadText, Wrapped
<1>4. Present(issuer) => FromValidated(issuer, ToIssuer, Str).error = Fine
  BY <1>2, CodesDiffer DEF FromValidated, ReadText, Wrapped
<1> QED
  BY <1>3, <1>4, CodesDiffer DEF SideOf

\* What a book that passed is made of.
LEMMA BookPassed ==
  ASSUME NEW book,
         BookCode(book, SnapshotCode) = Fine \/ BookCode(book, LAMBDA b : Fine) = Fine
  PROVE  /\ BookCode(book, SnapshotCode) = Fine => SnapshotCode(book) = Fine
         /\ Present(Child(book, "both")) => Is("bool", Child(book, "both"))
         /\ SideOf(Child(book, "taker_pays")).error = Fine
         /\ SideOf(Child(book, "taker_gets")).error = Fine
         /\ Present(Child(book, "domain")) =>
              FromValidated(Child(book, "domain"), Hex256Of, Hash).error = Fine
<1> DEFINE pays   == Child(book, "taker_pays")
           gets   == Child(book, "taker_gets")
           domain == Child(book, "domain")
<1>1. /\ Fine # "srcCurMalformed" /\ Fine # "dstAmtMalformed" /\ Fine # "domainMalformed"
      /\ Fine # "srcIsrMalformed" /\ Fine # "dstIsrMalformed" /\ Fine # "badMarket"
      /\ Fine # "invalidParams"
  BY DEF Fine
<1>2. /\ BookCode(book, SnapshotCode) = Fine => SnapshotCode(book) = Fine
      /\ Type({"bool"}, Child(book, "both")) = Fine
      /\ CurrencyCode(pays, "srcCurMalformed") = Fine
      /\ CurrencyCode(gets, "dstAmtMalformed") = Fine
      /\ Unless(Present(domain) => Is("string", domain), "domainMalformed") = Fine
      /\ IssuerCode(pays, "srcIsrMalformed") = Fine
      /\ IssuerCode(gets, "dstIsrMalformed") = Fine
      /\ Unless(Present(domain) => ParseHex(256, domain.string) # NoText, "domainMalformed") = Fine
  BY DEF BookCode, ??
<1>3. Present(Child(book, "both")) => Is("bool", Child(book, "both"))
  BY <1>1, <1>2 DEF Type, Unless
<1>4. SideOf(pays).error = Fine /\ SideOf(gets).error = Fine
  BY <1>1, <1>2, SideVouchedFor
<1>5. Present(domain) => Is("string", domain) /\ ParseHex(256, CStr(domain.string)) # NoText
  BY <1>1, <1>2, WholeTextReadsAsCString DEF Unless
<1>6. Present(domain) => FromValidated(domain, Hex256Of, Hash).error = Fine
  BY <1>5, CodesDiffer DEF FromValidated, ReadText, Wrapped, Hex256Of
<1> QED
  BY <1>2, <1>3, <1>4, <1>6

\* An optional child of the kind asked for is read, and one that is not there is
\* left out.
LEMMA OptionalRead ==
  ASSUME NEW v, NEW kind, Present(v) => Is(kind, v), NEW otherwise
  PROVE  /\ Optional(v, kind, Flag, otherwise).error = Fine
         /\ Optional(v, kind, Str, otherwise).error = Fine
  BY CodesDiffer DEF Optional

\* The converter of the books reads nothing the validators have not looked at,
\* on a subscription and when it ends (kBooksValidator, kBooksConv).
THEOREM BooksVouchedFor ==
  ASSUME NEW v, Present(v), NEW Elements, IsArrayOf(v, Elements)
  PROVE  /\ SubscribeBooksValidator(v) = Fine => SubscribeBooksConverter(v).error = Fine
         /\ UnsubscribeBooksValidator(v) = Fine => UnsubscribeBooksConverter(v).error = Fine
<1> DEFINE asked(isSubscribe, b, key) == IF isSubscribe THEN Child(b, key) ELSE Absent
           domainOf(b) == Child(b, "domain")
           parts(isSubscribe, b) ==
             [ both     |-> Optional(Child(b, "both"), "bool", Flag, Flag(FALSE)),
               snapshot |-> Optional(asked(isSubscribe, b, "snapshot"), "bool", Flag, Flag(FALSE)),
               taker    |-> Optional(asked(isSubscribe, b, "taker"), "string", Str, Unset),
               pays     |-> SideOf(Child(b, "taker_pays")),
               gets     |-> SideOf(Child(b, "taker_gets")),
               domain   |-> IF Present(domainOf(b)) THEN FromValidated(domainOf(b), Hex256Of, Hash)
                            ELSE Passed(Unset) ]
<1>0. ~Present(Absent)
  BY DEF Present, Kind, Absent
<1>1. ASSUME NEW isSubscribe \in BOOLEAN, NEW b,
             IF isSubscribe THEN BookCode(b, SnapshotCode) = Fine
             ELSE BookCode(b, LAMBDA e : Fine) = Fine
      PROVE  Assembled(parts(isSubscribe, b)).error = Fine
  <2>1. isSubscribe =>
          /\ Present(Child(b, "snapshot")) => Is("bool", Child(b, "snapshot"))
          /\ Present(Child(b, "taker")) => Is("string", Child(b, "taker"))
    BY <1>1, BookPassed, CodesDiffer DEF SnapshotCode, Type, AccountFormat, TextOf, Unless, ??, Fine
  <2>2. /\ parts(isSubscribe, b).both.error = Fine
        /\ parts(isSubscribe, b).snapshot.error = Fine
        /\ parts(isSubscribe, b).taker.error = Fine
    BY <1>0, <1>1, <2>1, BookPassed, OptionalRead
  <2>3. /\ parts(isSubscribe, b).pays.error = Fine
        /\ parts(isSubscribe, b).gets.error = Fine
        /\ parts(isSubscribe, b).domain.error = Fine
    BY <1>1, BookPassed, CodesDiffer
  <2>4. DOMAIN parts(isSubscribe, b) = {"both", "snapshot", "taker", "pays", "gets", "domain"}
    OBVIOUS
  <2>5. \A key \in DOMAIN parts(isSubscribe, b) : parts(isSubscribe, b)[key].error = Fine
    BY <2>2, <2>3, <2>4
  <2> HIDE DEF parts
  <2> QED
    BY <2>5, CodesDiffer DEF Assembled
<1>2. ASSUME NEW isSubscribe \in BOOLEAN, Is("array", v),
             \A i \in 1..ArraySize(v) :
               IF isSubscribe THEN BookCode(v.array[i], SnapshotCode) = Fine
               ELSE BookCode(v.array[i], LAMBDA e : Fine) = Fine
      PROVE  BooksConverter(isSubscribe, v).error = Fine
  <2>1. \A i \in 1..ArraySize(v) : Assembled(parts(isSubscribe, v.array[i])).error = Fine
    BY <1>1, <1>2
  <2> QED
    BY <2>1, CodesDiffer DEF BooksConverter, ListOf
<1>3. ASSUME SubscribeBooksValidator(v) = Fine PROVE SubscribeBooksConverter(v).error = Fine
  <2> DEFINE faulty == {i \in DOMAIN v.array : BookCode(v.array[i], SnapshotCode) # Fine}
  <2>1. Is("array", v) /\ FirstFault(v, LAMBDA b : BookCode(b, SnapshotCode)) = Fine
    BY <1>3, CodesDiffer DEF SubscribeBooksValidator, BooksCode, Unless, ??
  <2>2. faulty \in SUBSET Nat
    BY <2>1, ElementsOf
  <2>3. faulty = {}
    BY <2>1, <2>2, FirstOfSome DEF FirstFault
  <2> QED
    BY <1>2, <2>1, <2>3, ElementsOf DEF SubscribeBooksConverter
<1>4. ASSUME UnsubscribeBooksValidator(v) = Fine PROVE UnsubscribeBooksConverter(v).error = Fine
  <2> DEFINE faulty == {i \in DOMAIN v.array : BookCode(v.array[i], LAMBDA b : Fine) # Fine}
  <2>1. Is("array", v) /\ FirstFault(v, LAMBDA b : BookCode(b, LAMBDA e : Fine)) = Fine
    BY <1>4, CodesDiffer DEF UnsubscribeBooksValidator, BooksCode, Unless, ??
  <2>2. faulty \in SUBSET Nat
    BY <2>1, ElementsOf
  <2>3. faulty = {}
    BY <2>1, <2>2, FirstOfSome DEF FirstFault
  <2> QED
    BY <1>2, <2>1, <2>3, ElementsOf DEF UnsubscribeBooksConverter
<1> QED
  BY <1>3, <1>4

\* Credentials, the two accounts of a trust line and an issue of ledger_entry:
\* the same.
THEOREM EntryPartsVouchedFor ==
  ASSUME NEW v, Present(v), NEW Elements, IsArrayOf(v, Elements)
  PROVE  /\ AuthorizeCredentialValidator(v) = Fine => CredentialsOf(v).error = Fine
         /\ RippleStateAccountsValidator(v) = Fine => TwoAccountsOf(v).error = Fine
         /\ CurrencyIssueValidator(v) = Fine => CurrencyIssueOf(v).error = Fine
<1>1. ASSUME AuthorizeCredentialValidator(v) = Fine PROVE CredentialsOf(v).error = Fine
  <2> DEFINE parts(e) ==
        [ issuer |-> FromValidated(Child(e, "issuer"), AccountFromStringStrict, Account),
          credential_type |-> AsText(Child(e, "credential_type")) ]
  <2>1. /\ Is("array", v)
        /\ \A i \in DOMAIN v.array :
             /\ Present(Child(v.array[i], "issuer"))
             /\ AccountBase58Validator(Child(v.array[i], "issuer")) = Fine
             /\ Present(Child(v.array[i], "credential_type"))
             /\ CredentialTypeValidator(Child(v.array[i], "credential_type")) = Fine
    BY <1>1, CodesDiffer DEF AuthorizeCredentialValidator, Unless, ??
  <2>2. ASSUME NEW i \in 1..ArraySize(v) PROVE Assembled(parts(v.array[i])).error = Fine
    <3> DEFINE e == v.array[i]
    <3>1. parts(e).issuer.error = Fine
      BY <2>1, ElementsOf, TextsVouchedFor
    <3>2. Is("string", Child(e, "credential_type"))
      BY <2>1, ElementsOf, CodesDiffer DEF CredentialTypeValidator, TextOf, Unless, ??
    <3>3. parts(e).credential_type.error = Fine
      BY <3>2, CodesDiffer DEF AsText
    <3>4. \A key \in DOMAIN parts(e) : parts(e)[key].error = Fine
      BY <3>1, <3>3
    <3> HIDE DEF parts
    <3> QED
      BY <3>4, CodesDiffer DEF Assembled
  <2> QED
    BY <2>2, CodesDiffer DEF CredentialsOf, ListOf
<1>2. ASSUME RippleStateAccountsValidator(v) = Fine PROVE TwoAccountsOf(v).error = Fine
  <2>1. /\ Is("array", v) /\ Len(v.array) = 2
        /\ \A i \in 1..2 : /\ Is("string", v.array[i])
                           /\ ParseBase58Account(v.array[i].string) # NoText
    BY <1>2, CodesDiffer DEF RippleStateAccountsValidator, Unless, ??
  <2>2. \A i \in 1..2 : i \in DOMAIN v.array /\ Element(v, i) = v.array[i]
    BY <2>1, ElementsOf DEF Element
  <2>3. \A i \in 1..2 : FromValidated(Element(v, i), AccountFromStringStrict, Account).error = Fine
    BY <2>1, <2>2, CodesDiffer DEF FromValidated, ReadText, Wrapped, AccountFromStringStrict
  <2> DEFINE both == Array(<<Element(v, 1), Element(v, 2)>>)
  <2>4. /\ ArraySize(both) = 2
        /\ both.array[1] = Element(v, 1) /\ both.array[2] = Element(v, 2)
    BY DEF ArraySize, Is, Kind, Array
  <2>5. \A i \in 1..ArraySize(both) :
          FromValidated(both.array[i], AccountFromStringStrict, Account).error = Fine
    BY <2>3, <2>4
  <2> HIDE DEF both
  <2>6. ListOf(both, LAMBDA e : FromValidated(e, AccountFromStringStrict, Account)).error = Fine
    BY <2>5, CodesDiffer DEF ListOf
  <2> QED
    BY <2>6 DEF TwoAccountsOf, both
<1>3. ASSUME CurrencyIssueValidator(v) = Fine PROVE CurrencyIssueOf(v).error = Fine
  <2> DEFINE currency == Child(v, "currency")
             issuer   == Child(v, "issuer")
  <2>1. /\ Is("string", currency) /\ ToCurrency(currency.string) # NoText
        /\ IF ToCurrency(currency.string) = XrpCurrency THEN ~Present(issuer)
           ELSE Is("string", issuer) /\ ToIssuer(issuer.string) # NoText
    BY <1>3, CodesDiffer DEF CurrencyIssueValidator, IsCurrencyIssue, Unless, ??
  <2>2. CASE ToCurrency(currency.string) = XrpCurrency
    BY <2>1, <2>2, CodesDiffer DEF CurrencyIssueOf, SideCurrency
  <2>3. CASE ToCurrency(currency.string) # XrpCurrency
    <3>1. Present(issuer)
      BY <2>1, <2>3 DEF Is, Present, IsInt64
    <3>2. /\ FromValidated(currency, ToCurrency, Str).error = Fine
          /\ FromValidated(issuer, ToIssuer, Str).error = Fine
      BY <2>1, <2>3, CodesDiffer DEF FromValidated, ReadText, Wrapped
    <3>3. SideOf(v).error = Fine
      BY <3>2, CodesDiffer DEF SideOf
    <3> QED
      BY <2>1, <2>3, <3>1, <3>3 DEF CurrencyIssueOf, SideCurrency
  <2> QED
    BY <2>2, <2>3
<1> QED
  BY <1>1, <1>2, <1>3

-----------------------------------------------------------------------------
\* What a reader makes of a value the code has just written.
LEMMA Written ==
  ASSUME NEW x
  PROVE  /\ Kind(Text(x)) = "string" /\ Text(x).string = x
         /\ Kind(Signed(x)) = "int64" /\ Number(Signed(x)) = x
         /\ Kind(Unsigned(x)) = "uint64" /\ Number(Unsigned(x)) = x
         /\ Kind(Array(x)) = "array" /\ Array(x).array = x
         /\ Kind(Object(x)) = "object" /\ Object(x).object = x
  BY DEF Kind, Text, Signed, Unsigned, Array, Object, Number

\* A text spelled out as a number: it fits 32 bits, so that the cast that reads
\* it later loses nothing.
LEMMA SpelledOut ==
  ASSUME NEW v, Is("string", v), NEW t \in {v.string, WithoutPlus(v.string)}, NEW least \in Int
  PROVE  /\ SpelledNumber(v, t, least, Signed).error = Fine =>
              \E n \in 0..MaxUint32 :
                Denotes(v, n) /\ SpelledNumber(v, t, least, Signed) = Passed(Signed(n))
         /\ SpelledNumber(v, t, least, Unsigned).error = Fine =>
              \E n \in 0..MaxUint32 :
                Denotes(v, n) /\ SpelledNumber(v, t, least, Unsigned) = Passed(Unsigned(n))
<1>1. FromChars(t, least, MaxInt64) /\ Decimals[t] \in 0..MaxUint32 => Denotes(v, Decimals[t])
  BY DEF FromChars, Denotes
<1>2. Failed("invalidParams").error # Fine
  BY DEF Failed, Fine
<1> QED
  BY <1>1, <1>2 DEF SpelledNumber

\* A number that fits 32 bits is read back as it is, from either sign.
LEMMA ReadBack ==
  ASSUME NEW n \in 0..MaxUint32
  PROVE  /\ AsUint32(Signed(n)) = Passed(UInt(n))
         /\ AsUint32(Unsigned(n)) = Passed(UInt(n))
<1>1. n % (MaxUint32 + 1) = n
  BY WidthsGrow
<1> QED
  BY <1>1, Written DEF AsUint32

\* A number given as a text reaches the Input as the number it spells, through
\* toNumber on Clio and lexicalUint32 on xrpld, whatever spelling they take.
THEOREM SpelledNumbersAreExact ==
  ASSUME NEW v, Is("string", v)
  PROVE  /\ ToNumberModifier(v).error = Fine =>
              \E n \in 0..MaxUint32 :
                Denotes(v, n) /\ AsUint32(ToNumberModifier(v).value) = Passed(UInt(n))
         /\ LexicalUint32Modifier(v).error = Fine =>
              \E n \in 0..MaxUint32 :
                Denotes(v, n) /\ AsUint32(LexicalUint32Modifier(v).value) = Passed(UInt(n))
<1>1. \A x : Passed(x).value = x
  BY DEF Passed
<1>2. -MaxInt64 - 1 \in Int
  BY WidthsGrow
<1>3. ASSUME ToNumberModifier(v).error = Fine
      PROVE  \E n \in 0..MaxUint32 :
               Denotes(v, n) /\ AsUint32(ToNumberModifier(v).value) = Passed(UInt(n))
  <2>1. PICK n \in 0..MaxUint32 : Denotes(v, n) /\ ToNumberModifier(v) = Passed(Signed(n))
    BY <1>2, <1>3, SpelledOut DEF ToNumberModifier
  <2> QED
    BY <1>1, <2>1, ReadBack
<1>4. ASSUME LexicalUint32Modifier(v).error = Fine
      PROVE  \E n \in 0..MaxUint32 :
               Denotes(v, n) /\ AsUint32(LexicalUint32Modifier(v).value) = Passed(UInt(n))
  <2>1. PICK n \in 0..MaxUint32 : Denotes(v, n) /\ LexicalUint32Modifier(v) = Passed(Unsigned(n))
    <3>1. 0 \in Int /\ WithoutPlus(v.string) \in {v.string, WithoutPlus(v.string)}
      OBVIOUS
    <3> QED
      BY <1>4, <3>1, SpelledOut DEF LexicalUint32Modifier
  <2> QED
    BY <1>1, <2>1, ReadBack
<1> QED
  BY <1>3, <1>4

\* A bound of a history (account_tx and its kin) that leaves the signed 32 bits
\* saturates before the cast, whatever its 64 bits hold: it never wraps to
\* another ledger.
THEOREM BoundsSaturate ==
  ASSUME NEW v, Is("int64", v), Number(v) \in Int
  PROVE  \E n \in (-MaxInt32 - 1)..MaxInt32 :
           /\ Int32BoundConverter(ClampAs(v).value) = Passed(IF n = -1 THEN Unset ELSE UInt(n))
           /\ \/ n = Number(v)
              \/ n = MaxInt32 /\ Number(v) > MaxInt32
              \/ n = -MaxInt32 - 1 /\ Number(v) < -MaxInt32 - 1
<1> DEFINE n == Clamped(Number(v), -MaxInt32 - 1, MaxInt32)
<1>1. MaxInt32 \in Nat /\ MaxUint32 = 2 * MaxInt32 + 1
  BY WidthsGrow
<1>2. /\ n \in (-MaxInt32 - 1)..MaxInt32
      /\ \/ n = Number(v)
         \/ n = MaxInt32 /\ Number(v) > MaxInt32
         \/ n = -MaxInt32 - 1 /\ Number(v) < -MaxInt32 - 1
  BY <1>1 DEF Clamped
<1>3. ((n + MaxInt32 + 1) % (MaxUint32 + 1)) - MaxInt32 - 1 = n
  <2>1. n + MaxInt32 + 1 \in 0..MaxUint32
    BY <1>1, <1>2
  <2>2. (n + MaxInt32 + 1) % (MaxUint32 + 1) = n + MaxInt32 + 1
    BY <1>1, <2>1
  <2> QED
    BY <1>1, <1>2, <2>2
<1>4. ClampAs(v).value = Signed(n)
  BY DEF ClampAs, Is, Passed
<1> HIDE DEF n
<1>5. Int32BoundConverter(Signed(n)) = Passed(IF n = -1 THEN Unset ELSE UInt(n))
  BY <1>3, Written DEF Int32BoundConverter
<1> QED
  BY <1>2, <1>4, <1>5

\* A modifier that is run again, on the request as it left it, changes nothing
\* more: a request that Clio forwards after it has parsed it is parsed alike.
Settles(Modified(_), v) ==
  Modified(v).error = Fine => Modified(Modified(v).value) = Passed(Modified(v).value)

\* So does each modifier the specs use, for every value and every bound.
THEOREM ModifiersSettle ==
  ASSUME NEW v, Kind(v) \in {"int64", "uint64"} => Number(v) \in Int
  PROVE  /\ \A lo, hi \in 0..MaxUint32 : lo <= hi => Settles(LAMBDA w : Clamp("uint32", lo, hi, w), v)
         /\ Settles(ClampAs, v)
         /\ \A n : Settles(LAMBDA w : NullAs(Unsigned(n), w), v)
         /\ Settles(ToLowerModifier, v)
         /\ Settles(ToUpperModifier, v)
         /\ Settles(ToNumberModifier, v)
         /\ Settles(LexicalUint32Modifier, v)
<1>0. /\ \A x : Passed(x).value = x /\ Passed(x).error = Fine
      /\ \A x : ~Is("string", Signed(x)) /\ ~Is("string", Unsigned(x)) /\ ~IsNull(Unsigned(x))
  BY Written DEF Passed, Is, IsInt64, IsNull
<1>1. ASSUME NEW lo \in 0..MaxUint32, NEW hi \in 0..MaxUint32, lo <= hi
      PROVE  Settles(LAMBDA w : Clamp("uint32", lo, hi, w), v)
  <2>1. CASE ~Is("uint32", v)
    BY <1>0, <2>1 DEF Settles, Clamp
  <2>2. CASE Is("uint32", v)
    <3> DEFINE n == Clamped(Number(v), lo, hi)
    <3>1. n \in lo..hi /\ n \in 0..MaxUint32 /\ Clamped(n, lo, hi) = n
      BY <1>1, <2>2, WidthsGrow DEF Is, IsUint32, Clamped
    <3>2. Clamp("uint32", lo, hi, v) = Passed(Unsigned(n))
      BY <2>2 DEF Clamp, SetNumber
    <3> HIDE DEF n
    <3>3. Is("uint32", Unsigned(n)) /\ Number(Unsigned(n)) = n
      BY <3>1, Written DEF Is, IsUint32, Unsigned
    <3>4. Clamp("uint32", lo, hi, Unsigned(n)) = Passed(Unsigned(n))
      BY <3>1, <3>3 DEF Clamp, SetNumber
    <3> QED
      BY <1>0, <3>2, <3>4 DEF Settles
  <2> QED
    BY <2>1, <2>2
<1>2. Settles(ClampAs, v)
  <2>1. CASE ~IsInt64(v)
    BY <1>0, <2>1 DEF Settles, ClampAs
  <2>2. CASE IsInt64(v)
    <3> DEFINE n == Clamped(Number(v), -MaxInt32 - 1, MaxInt32)
    <3>1. Clamped(n, -MaxInt32 - 1, MaxInt32) = n
      BY <2>2, WidthsGrow DEF IsInt64, Clamped
    <3>2. ClampAs(v) = Passed(Signed(n))
      BY <2>2 DEF ClampAs
    <3> HIDE DEF n
    <3>3. ClampAs(Signed(n)) = Passed(Signed(n))
      BY <3>1, Written DEF ClampAs, IsInt64
    <3> QED
      BY <1>0, <3>2, <3>3 DEF Settles
  <2> QED
    BY <2>1, <2>2
<1>3. \A n : Settles(LAMBDA w : NullAs(Unsigned(n), w), v)
  BY <1>0 DEF Settles, NullAs
<1>4. Settles(ToLowerModifier, v)
  <2>1. \A t : ToLower(ToLower(t)) = ToLower(t)
    BY DEF ToLower, Reading, NoText
  <2>2. \A t : Is("string", Text(t)) /\ Text(t).string = t
    BY Written DEF Is
  <2> QED
    BY <1>0, <2>1, <2>2 DEF Settles, ToLowerModifier
<1>5. Settles(ToUpperModifier, v)
  <2>1. \A t : Is("string", Text(t)) /\ Text(t).string = t
    BY Written DEF Is
  <2> QED
    BY <1>0, <2>1 DEF Settles, ToUpperModifier
<1>6. Settles(ToNumberModifier, v)
  <2>1. \A x : ~Is("string", x) => ToNumberModifier(x) = Passed(x)
    BY DEF ToNumberModifier, SpelledNumber
  <2>2. -MaxInt64 - 1 \in Int
    BY WidthsGrow
  <2>3. Is("string", v) /\ ToNumberModifier(v).error = Fine =>
          \E n : ToNumberModifier(v) = Passed(Signed(n))
    BY <2>2, SpelledOut DEF ToNumberModifier
  <2> QED
    BY <1>0, <2>1, <2>3 DEF Settles
<1>7. Settles(LexicalUint32Modifier, v)
  <2>1. \A x : ~Is("string", x) => LexicalUint32Modifier(x) = Passed(x)
    BY DEF LexicalUint32Modifier, SpelledNumber
  <2>2. Is("string", v) /\ LexicalUint32Modifier(v).error = Fine =>
          \E n : LexicalUint32Modifier(v) = Passed(Unsigned(n))
    <3>1. 0 \in Int /\ WithoutPlus(v.string) \in {v.string, WithoutPlus(v.string)}
      OBVIOUS
    <3> QED
      BY <3>1, SpelledOut DEF LexicalUint32Modifier
  <2> QED
    BY <1>0, <2>1, <2>2 DEF Settles
<1> QED
  BY <1>1, <1>2, <1>3, <1>4, <1>5, <1>6, <1>7

\* The oracles whose document ids Clio has rewritten to numbers are all read:
\* neither an id nor an account is left that the converter does not expect
\* (kOraclesValidator, kOraclesConv).
THEOREM OraclesVouchedFor ==
  ASSUME NEW v, Present(v), NEW Elements, IsArrayOf(v, Elements), OraclesValidator(v).error = Fine
  PROVE  OraclesConverter("clio", OraclesValidator(v).value).error = Fine
<1> DEFINE rewritten == Array([i \in DOMAIN v.array |-> NumberedOracle(v.array[i])])
           docId(e)   == Child(e, "oracle_document_id")
           account(e) == Child(e, "account")
           holder(e)  == ReadText(account(e), AccountFromStringStrict, Account, "threw", "invalidParams")
           parts(e)   == [oracle_document_id |-> AsUint32(docId(e)), account |-> holder(e)]
           faulty     == {i \in DOMAIN v.array : OracleCode(v.array[i]) # Fine}
<1>1. Failed("oracleMalformed").error # Fine /\ \A code : code # Fine => Failed(code).error # Fine
  BY DEF Failed, Fine
<1>2. /\ Is("array", v)
      /\ FirstFault(v, OracleCode) = Fine
      /\ OraclesValidator(v).value = rewritten
  BY <1>1 DEF OraclesValidator, Passed
<1>3. faulty = {}
  <2>1. faulty \in SUBSET Nat
    BY <1>2, ElementsOf
  <2> QED
    BY <1>2, <2>1, FirstOfSome DEF FirstFault
<1>4. ASSUME NEW e, OracleCode(e) = Fine PROVE Assembled(parts(NumberedOracle(e))).error = Fine
  <2> DEFINE number == ToNumberModifier(docId(e)).value
             f == [e.object EXCEPT !["oracle_document_id"] = number]
  <2>1. /\ Present(docId(e)) /\ Present(account(e))
        /\ IsUint32(docId(e)) \/ Is("string", docId(e))
        /\ ToNumberModifier(docId(e)).error = Fine
        /\ AccountBase58Validator(account(e)) = Fine
    BY <1>4 DEF OracleCode, Type, Is, Unless, ??, Fine
  <2>2. ~Present(Absent)
    BY DEF Present, Kind, Absent
  <2>3. /\ Is("object", e)
        /\ "account" \in DOMAIN e.object /\ "oracle_document_id" \in DOMAIN e.object
    BY <2>1, <2>2 DEF Child
  <2>4. NumberedOracle(e) = Object(f)
    BY <2>1 DEF NumberedOracle, Stored
  <2>5. Is("object", Object(f)) /\ Object(f).object = f
    BY Written DEF Is
  <2>6. account(NumberedOracle(e)) = account(e) /\ docId(NumberedOracle(e)) = number
    BY <2>3, <2>4, <2>5 DEF Child
  <2>7. AsUint32(number).error = Fine
    <3>1. CASE Is("string", docId(e))
      BY <2>1, <3>1, SpelledNumbersAreExact, CodesDiffer
    <3>2. CASE ~Is("string", docId(e))
      BY <2>1, <3>2, CodesDiffer DEF ToNumberModifier, SpelledNumber, Passed, AsUint32, IsUint32
    <3> QED
      BY <3>1, <3>2
  <2>8. holder(NumberedOracle(e)).error = Fine
    <3>1. Is("string", account(e)) /\ AccountFromStringStrict(account(e).string) # NoText
      BY <2>1, CodesDiffer DEF AccountBase58Validator, TextOf, Unless, ??, AccountFromStringStrict
    <3> QED
      BY <2>6, <3>1, CodesDiffer DEF ReadText, Wrapped
  <2>9. \A key \in DOMAIN parts(NumberedOracle(e)) : parts(NumberedOracle(e))[key].error = Fine
    BY <2>6, <2>7, <2>8
  <2> HIDE DEF parts
  <2> QED
    BY <2>9, CodesDiffer DEF Assembled
<1>5. ArraySize(rewritten) = ArraySize(v)
  BY <1>2, ElementsOf, Written DEF ArraySize, Is
<1>6. \A i \in 1..ArraySize(rewritten) : Assembled(parts(rewritten.array[i])).error = Fine
  BY <1>2, <1>3, <1>4, <1>5, ElementsOf, Written
<1> HIDE DEF rewritten
<1>7. \A i \in 1..ArraySize(rewritten) :
        Assembled([oracle_document_id |-> AsUint32(docId(rewritten.array[i])),
                   account |-> holder(rewritten.array[i])]).error = Fine
  BY <1>6
<1> QED
  BY <1>2, <1>7, CodesDiffer DEF OraclesConverter, ListOf, Fine

-----------------------------------------------------------------------------
\* The code of a check that fails is never an exception.
LEMMA ChecksSafe ==
  ASSUME NEW v, NEW on
  PROVE  /\ Required(v) # "threw" /\ NotSupported(v) # "threw"
         /\ \A kinds : Type(kinds, v) # "threw"
         /\ \A n : Min("uint32", n, v) # "threw"
         /\ \A m, n : Between("uint32", m, n, v) # "threw"
         /\ \A texts : OneOfValidator(texts, v) # "threw"
         /\ \A b : NotSupportedIfEqual(b, v) # "threw"
         /\ \A n : MinArrayLength(n, v) # "threw" /\ MaxArrayLength(n, v) # "threw"
         /\ \A n : AccountIdArrayValidator(n, v) # "threw"
         /\ AccountFormat(v) # "threw" /\ AccountBase58Validator(v) # "threw"
         /\ \A bits : HexStringValidator(bits, v) # "threw"
         /\ Hex256ArrayValidator(v) # "threw" /\ Uint192ArrayValidator(v) # "threw"
         /\ AccountMarkerValidator(v) # "threw"
         /\ CurrencyValidator(v) # "threw" /\ StrictCurrencyValidator(v) # "threw"
         /\ IssuerValidator(v) # "threw" /\ CurrencyIssueValidator(v) # "threw"
         /\ CredentialTypeValidator(v) # "threw"
         /\ AuthorizeCredentialValidator(v) # "threw" /\ TimeFormatValidator(v) # "threw"
<1> USE DEF Unless, Fine, ??, TextOf
<1>1. /\ Required(v) # "threw" /\ NotSupported(v) # "threw"
      /\ \A kinds : Type(kinds, v) # "threw"
      /\ \A n : Min("uint32", n, v) # "threw"
      /\ \A m, n : Between("uint32", m, n, v) # "threw"
      /\ \A b : NotSupportedIfEqual(b, v) # "threw"
      /\ \A n : MinArrayLength(n, v) # "threw" /\ MaxArrayLength(n, v) # "threw"
      /\ \A n : AccountIdArrayValidator(n, v) # "threw"
      /\ Hex256ArrayValidator(v) # "threw" /\ Uint192ArrayValidator(v) # "threw"
  BY DEF Required, NotSupported, Type, Min, Between, NotSupportedIfEqual, MinArrayLength, MaxArrayLength,
         AccountIdArrayValidator, Hex256ArrayValidator, Uint192ArrayValidator
<1>2. /\ \A texts : OneOfValidator(texts, v) # "threw"
      /\ AccountFormat(v) # "threw" /\ AccountBase58Validator(v) # "threw"
      /\ \A bits : HexStringValidator(bits, v) # "threw"
      /\ AccountMarkerValidator(v) # "threw" /\ TimeFormatValidator(v) # "threw"
      /\ IssuerValidator(v) # "threw" /\ CredentialTypeValidator(v) # "threw"
  BY DEF OneOfValidator, AccountFormat, AccountBase58Validator, HexStringValidator, AccountMarkerValidator,
         TimeFormatValidator, IssuerValidator, CredentialTypeValidator
<1>3. CurrencyValidator(v) # "threw" /\ StrictCurrencyValidator(v) # "threw"
  BY DEF CurrencyValidator, StrictCurrencyValidator
<1>4. CurrencyIssueValidator(v) # "threw" /\ AuthorizeCredentialValidator(v) # "threw"
  BY DEF CurrencyIssueValidator, AuthorizeCredentialValidator
<1> QED
  BY <1>1, <1>2, <1>3, <1>4

\* Nor is that of the checks that a handler brings along.
LEMMA OwnChecksSafe ==
  ASSUME NEW v, NEW on
  PROVE  /\ TxTypeValidator(v) # "threw" /\ DelegateValidator(v) # "threw"
         /\ StringIssueValidator(v) # "threw" /\ RippleStateAccountsValidator(v) # "threw"
         /\ TakerValidator(on, v) # "threw"
         /\ SubscribeAccountsValidator(v) # "threw" /\ StreamsValidator(on, v) # "threw"
         /\ SubscribeBooksValidator(v) # "threw" /\ UnsubscribeBooksValidator(v) # "threw"
         /\ \A code : code # "threw" => HotWalletValidator(code, v) # "threw"
<1>1. \A e : AccountFormat(e) # "threw" /\ StreamCode(on, e) # "threw"
  BY ChecksSafe DEF StreamCode, Unless, ??, Fine
<1>2. TxTypeValidator(v) # "threw" /\ StringIssueValidator(v) # "threw" /\ DelegateValidator(v) # "threw"
  BY DEF TxTypeValidator, StringIssueValidator, DelegateValidator, TextOf, Unless, ??, Fine
<1>3. RippleStateAccountsValidator(v) # "threw" /\ TakerValidator(on, v) # "threw"
  BY DEF RippleStateAccountsValidator, TakerValidator, Unless, ??, Fine
<1>4. SubscribeAccountsValidator(v) # "threw" /\ StreamsValidator(on, v) # "threw"
  BY <1>1 DEF SubscribeAccountsValidator, StreamsValidator, FirstFault, Unless, ??, Fine
<1>5. \A b : BookCode(b, SnapshotCode) # "threw" /\ BookCode(b, LAMBDA e : Fine) # "threw"
  <2>1. \A b : SnapshotCode(b) # "threw"
    BY ChecksSafe DEF SnapshotCode, Unless, ??, Fine
  <2>2. \A e : Type({"bool"}, e) # "threw"
    BY ChecksSafe
  <2>3. \A e, code : code # "threw" => CurrencyCode(e, code) # "threw" /\ IssuerCode(e, code) # "threw"
    BY DEF CurrencyCode, IssuerCode, Unless, ??, Fine
  <2>4. \A one, other : one # "threw" /\ other # "threw" => (one ?? other) # "threw"
    BY DEF ??
  <2>5. \A b : BookCode(b, SnapshotCode) # "threw"
    BY <2>1, <2>2, <2>3, <2>4 DEF BookCode, Unless, Fine
  <2>6. \A b : BookCode(b, LAMBDA e : Fine) # "threw"
    BY <2>1, <2>2, <2>3, <2>4 DEF BookCode, Unless, Fine
  <2> QED
    BY <2>5, <2>6
<1>6. SubscribeBooksValidator(v) # "threw" /\ UnsubscribeBooksValidator(v) # "threw"
  BY <1>5 DEF SubscribeBooksValidator, UnsubscribeBooksValidator, BooksCode, FirstFault, Unless, ??, Fine
<1>7. \A code : code # "threw" => HotWalletValidator(code, v) # "threw"
  BY DEF HotWalletValidator, Unless, Fine
<1> QED
  BY <1>2, <1>3, <1>4, <1>6, <1>7

\* The items that check the digits of a hash.
LEMMA HexItems ==
  ASSUME NEW on, NEW item, NEW v
  PROVE  /\ item.item = "uint256Hex" => Verify(on, item, v) = HexStringValidator(256, v)
         /\ item.item = "uint192Hex" => Verify(on, item, v) = HexStringValidator(192, v)
<1>1. item.item = "uint256Hex" => Verify(on, item, v) = HexStringValidator(256, v)
  BY SMTT(30) DEF Verify
<1>2. item.item = "uint192Hex" => Verify(on, item, v) = HexStringValidator(192, v)
  BY SMTT(30) DEF Verify
<1> QED
  BY <1>1, <1>2

\* Nor is that of an item that verifies.
LEMMA VerifySafe ==
  ASSUME NEW on, NEW item, NEW v, item.item \in Requirements, item.item = "hotWallet" => item.code # "threw"
  PROVE  Verify(on, item, v) # "threw"
<1>1. CASE item.item \in {"required", "type", "min", "between", "oneOf", "notSupported", "notSupportedIf"}
  BY <1>1, ChecksSafe, Zenon DEF Verify
<1>2. CASE item.item \in {"minArrayLength", "maxArrayLength", "accountIdArray", "account", "accountBase58"}
  BY <1>2, ChecksSafe, Zenon DEF Verify
<1>3. CASE item.item \in {"uint256Hex", "uint192Hex", "hex256Array", "uint192Array", "accountMarker"}
  <2>1. item.item = "hex256Array" => Verify(on, item, v) = Hex256ArrayValidator(v)
    BY Zenon DEF Verify
  <2>2. item.item = "uint192Array" => Verify(on, item, v) = Uint192ArrayValidator(v)
    BY Zenon DEF Verify
  <2>3. item.item = "accountMarker" => Verify(on, item, v) = AccountMarkerValidator(v)
    BY Zenon DEF Verify
  <2> QED
    BY <1>3, <2>1, <2>2, <2>3, HexItems, ChecksSafe
<1>4. CASE item.item \in {"currency", "strictCurrency", "issuer", "currencyIssue", "credentialType",
                          "authorizeCredential", "timeFormat"}
  BY <1>4, ChecksSafe, Zenon DEF Verify
<1>5. CASE item.item \in {"kTxTypeValidator", "kDelegateValidator", "kStringIssueValidator",
                          "kRippleStateAccountsValidator", "kTakerValidator"}
  BY <1>5, OwnChecksSafe, Zenon DEF Verify
<1>6. CASE item.item \in {"kSubscribeAccountsValidator", "kSubscribeStreamValidator", "hotWallet",
                          "subscribe kBooksValidator", "unsubscribe kBooksValidator"}
  BY <1>6, OwnChecksSafe, Zenon DEF Verify
<1> QED
  BY <1>1, <1>2, <1>3, <1>4, <1>5, <1>6 DEF Requirements

\* A modifier fails with a code too.
LEMMA ModifySafe ==
  ASSUME NEW item, NEW v, item.item \in Modifiers
  PROVE  Modify(item, v).error # "threw"
<1>1. /\ \A x : Passed(x).error # "threw"
      /\ \A code : Failed(code).error = code
  BY DEF Passed, Failed, Fine
<1>2. /\ \A lo, hi : Clamp("uint32", lo, hi, v).error # "threw"
      /\ ClampAs(v).error # "threw" /\ \A w : NullAs(w, v).error # "threw"
      /\ ToLowerModifier(v).error # "threw" /\ ToUpperModifier(v).error # "threw"
  BY <1>1 DEF Clamp, ClampAs, NullAs, ToLowerModifier, ToUpperModifier
<1>3. \A w : ToNumberModifier(w).error # "threw" /\ LexicalUint32Modifier(w).error # "threw"
  BY <1>1 DEF ToNumberModifier, LexicalUint32Modifier, SpelledNumber
<1>4. OraclesValidator(v).error # "threw"
  <2>1. \A e : OracleCode(e) # "threw"
    <3>1. \A e : Type({"uint32", "string"}, e) # "threw"
      BY ChecksSafe
    <3> QED
      BY <1>3, <3>1 DEF OracleCode, Unless, ??, Fine
  <2>2. FirstFault(v, OracleCode) # "threw"
    BY <2>1 DEF FirstFault, Fine
  <2> QED
    BY <1>1, <2>2 DEF OraclesValidator
<1>5. /\ item.item = "clamp" => Modify(item, v) = Clamp("uint32", item.lo, item.hi, v)
      /\ item.item = "clampAs" => Modify(item, v) = ClampAs(v)
      /\ item.item = "nullAs" => Modify(item, v) = NullAs(item.value, v)
      /\ item.item = "toLower" => Modify(item, v) = ToLowerModifier(v)
      /\ item.item = "toUpper" => Modify(item, v) = ToUpperModifier(v)
      /\ item.item = "toNumber" => Modify(item, v) = ToNumberModifier(v)
      /\ item.item = "lexicalUint32" => Modify(item, v) = LexicalUint32Modifier(v)
      /\ item.item = "kOraclesValidator" => Modify(item, v) = OraclesValidator(v)
  BY Zenon DEF Modify
<1> QED
  BY <1>2, <1>3, <1>4, <1>5 DEF Modifiers

\* What a leaf does to a field.
LEMMA LeafResult ==
  ASSUME NEW on, NEW item, NEW v
  PROVE  /\ LeafKeeps(item) => Leaf(on, item, v).value = v
         /\ LeafKeeps(item) /\ item.item \notin Markers => Leaf(on, item, v).error = Verify(on, item, v)
         /\ ~LeafKeeps(item) => Leaf(on, item, v) = Modify(item, v)
         /\ LeafIsSafe(item) => Leaf(on, item, v).error # "threw"
<1>1. CASE LeafKeeps(item)
  <2>1. /\ Leaf(on, item, v).value = v
        /\ Leaf(on, item, v).error = IF item.item \in Markers THEN Fine ELSE Verify(on, item, v)
    BY <1>1 DEF Leaf, LeafKeeps
  <2>2. LeafIsSafe(item) /\ item.item \notin Markers => Verify(on, item, v) # "threw"
    BY <1>1, VerifySafe DEF LeafIsSafe, LeafKeeps
  <2> QED
    BY <1>1, <2>1, <2>2 DEF Fine
<1>2. CASE ~LeafKeeps(item)
  <2>1. Leaf(on, item, v) = Modify(item, v)
    BY <1>2 DEF Leaf, LeafKeeps
  <2> QED
    BY <1>2, <2>1, ModifySafe DEF LeafKeeps
<1> QED
  BY <1>1, <1>2

-----------------------------------------------------------------------------
\* The levels at which the specs nest their items, each with the shapes of the level below.
At0 == INSTANCE WrapperProofs WITH
         Inner <- Deepest,
         InnerKeeps <- NoneBelow, InnerIsSafe <- NoneBelow, InnerTests <- NoTestsBelow,
         InnerSimple <- NoneBelow, InnerSectioned <- NoneBelow, InnerParts <- NoPartsBelow
At1 == INSTANCE WrapperProofs WITH
         Inner <- Nested0!RunProcessors,
         InnerKeeps <- Shape0!KeepsAll, InnerIsSafe <- Shape0!SafeAll, InnerTests <- Shape0!TestsOf,
         InnerSimple <- Shape0!Simple, InnerSectioned <- Shape0!Sectioned, InnerParts <- Shape0!PartsOf
At2 == INSTANCE WrapperProofs WITH
         Inner <- Nested1!RunProcessors,
         InnerKeeps <- Shape1!KeepsAll, InnerIsSafe <- Shape1!SafeAll, InnerTests <- Shape1!TestsOf,
         InnerSimple <- Shape1!Simple, InnerSectioned <- Shape1!Sectioned, InnerParts <- Shape1!PartsOf
At3 == INSTANCE WrapperProofs WITH
         Inner <- Nested2!RunProcessors,
         InnerKeeps <- Shape2!KeepsAll, InnerIsSafe <- Shape2!SafeAll, InnerTests <- Shape2!TestsOf,
         InnerSimple <- Shape2!Simple, InnerSectioned <- Shape2!Sectioned, InnerParts <- Shape2!PartsOf

\* What the wrappers of one level owe the level above: a list that keeps a field returns it
\* as it was, one whose last item rewrites it returns what that makes of it, one with sections
\* has run its tests on every part, and none ends in an exception.
LEMMA Level0 ==
  At1!InnerKept /\ At1!InnerTestsKeep /\ At1!InnerSettles /\ At1!InnerSafe /\ At1!InnerCovers
<1>1. At0!LeafKept /\ At0!LeafSafe
  BY LeafResult DEF At0!LeafKept, At0!LeafSafe, At0!Fine, Fine
<1>2. At0!InnerKept /\ At0!InnerTestsKeep /\ At0!InnerSettles /\ At0!InnerSafe /\ At0!InnerCovers
  BY Zenon DEF At0!InnerKept, At0!InnerTestsKeep, At0!InnerSettles, At0!InnerSafe, At0!InnerCovers,
               NoneBelow
<1>3. At0!ListKept /\ At0!ListTestsKeep /\ At0!ListSettles /\ At0!ListSafe /\ At0!ListCovers
  BY <1>1, <1>2, At0!KeptOneUp, At0!TestsKeepOneUp, At0!SettlesOneUp, At0!SafeOneUp,
     At0!CoversOneUp, WidthsGrow
<1>4. ASSUME NEW on, NEW items, NEW v
      PROVE  At0!RunProcessors(on, items, v) = Nested0!RunProcessors(on, items, v)
  BY Zenon DEF At0!RunProcessors, Nested0!RunProcessors, At0!Process, Nested0!Process, At0!IfServer,
               Nested0!IfServer, At0!IfType, Nested0!IfType, At0!NestedField, Nested0!NestedField,
               At0!Section, Nested0!Section, At0!WithCustomError, Nested0!WithCustomError,
               At0!Through, Nested0!Through, At0!Passed, Nested0!Passed, At0!Failed, Nested0!Failed,
               At0!Fine, Nested0!Fine, At0!Is, Nested0!Is, At0!IsInt64, Nested0!IsInt64,
               At0!IsUint32, Nested0!IsUint32, At0!Kind, Nested0!Kind, At0!Child, Nested0!Child,
               At0!Stored, Nested0!Stored, At0!Object, Nested0!Object, At0!Present, Nested0!Present,
               At0!Absent, Nested0!Absent
<1>5. ASSUME NEW on, NEW kind, NEW items
      PROVE  /\ At0!KeepsAll(items) <=> Shape0!KeepsAll(items)
             /\ At0!TestsOf(on, kind, items) = Shape0!TestsOf(on, kind, items)
             /\ At0!Simple(items) <=> Shape0!Simple(items)
             /\ At0!SafeAll(items) <=> Shape0!SafeAll(items)
             /\ At0!Sectioned(items) <=> Shape0!Sectioned(items)
             /\ At0!PartsOf(on, items) = Shape0!PartsOf(on, items)
  BY Zenon DEF At0!KeepsAll, Shape0!KeepsAll, At0!TestsOf, Shape0!TestsOf, At0!Simple,
               Shape0!Simple, At0!SafeAll, Shape0!SafeAll, At0!Sectioned, Shape0!Sectioned,
               At0!PartsOf, Shape0!PartsOf, At0!Keeps, Shape0!Keeps, At0!Tests, Shape0!Tests,
               At0!Runs, Shape0!Runs, At0!IsSafe, Shape0!IsSafe, At0!IsSection, Shape0!IsSection,
               At0!Parts, Shape0!Parts, At0!Heading, Shape0!Heading, At0!KeysOf, Shape0!KeysOf,
               At0!IsList, Shape0!IsList, At0!IsHolder, Shape0!IsHolder, At0!Holders,
               Shape0!Holders, At0!HeldBy, Shape0!HeldBy, At0!IsLeaf, Shape0!IsLeaf, At0!AnyKind,
               Shape0!AnyKind
<1>6. At1!InnerKept
  <2> SUFFICES ASSUME NEW on, NEW kind, NEW items, NEW v, Shape0!KeepsAll(items),
                      Nested0!RunProcessors(on, items, v).error = At1!Fine
               PROVE  /\ Nested0!RunProcessors(on, items, v).value = v
                      /\ At1!InKind(kind, v) => At1!AllPass(on, Shape0!TestsOf(on, kind, items), v)
    BY DEF At1!InnerKept
  <2>1. At0!KeepsAll(items) /\ At0!RunProcessors(on, items, v).error = At0!Fine
    BY <1>4, <1>5 DEF At0!Fine, At1!Fine
  <2>2. /\ At0!RunProcessors(on, items, v).value = v
        /\ At0!InKind(kind, v) => At0!AllPass(on, At0!TestsOf(on, kind, items), v)
    BY <1>3, <2>1 DEF At0!ListKept
  <2>3. At0!InKind(kind, v) <=> At1!InKind(kind, v)
    BY Zenon DEF At0!InKind, At1!InKind, At0!AnyKind, At1!AnyKind, At0!Is, At1!Is, At0!IsInt64,
                 At1!IsInt64, At0!IsUint32, At1!IsUint32, At0!Kind, At1!Kind
  <2>4. \A T : At0!AllPass(on, T, v) <=> At1!AllPass(on, T, v)
    BY Zenon DEF At0!AllPass, At1!AllPass, At0!Fine, At1!Fine
  <2> QED
    BY <1>4, <1>5, <2>2, <2>3, <2>4
<1>7. At1!InnerTestsKeep
  BY <1>3, <1>5, Zenon DEF At0!ListTestsKeep, At1!InnerTestsKeep
<1>8. At1!InnerSettles
  <2> SUFFICES ASSUME NEW on, NEW items, NEW v, Shape0!Simple(items),
                      Nested0!RunProcessors(on, items, v).error = At1!Fine
               PROVE  LET T == Shape0!TestsOf(on, At1!AnyKind, items)
                      IN At1!AllPass(on, T, v) /\ At1!LeftBy(on, T, v, Nested0!RunProcessors(on, items, v).value)
    BY DEF At1!InnerSettles
  <2>1. At0!Simple(items) /\ At0!RunProcessors(on, items, v).error = At0!Fine
    BY <1>4, <1>5 DEF At0!Fine, At1!Fine
  <2>2. LET T == At0!TestsOf(on, At0!AnyKind, items)
        IN At0!AllPass(on, T, v) /\ At0!LeftBy(on, T, v, At0!RunProcessors(on, items, v).value)
    BY <1>3, <2>1 DEF At0!ListSettles
  <2>3. \A T, w : /\ At0!AllPass(on, T, v) <=> At1!AllPass(on, T, v)
                  /\ At0!LeftBy(on, T, v, w) <=> At1!LeftBy(on, T, v, w)
    BY Zenon DEF At0!AllPass, At1!AllPass, At0!LeftBy, At1!LeftBy, At0!Fine, At1!Fine
  <2>4. At0!AnyKind = At1!AnyKind
    BY DEF At0!AnyKind, At1!AnyKind
  <2> QED
    BY <1>4, <1>5, <2>2, <2>3, <2>4
<1>9. At1!InnerSafe
  BY <1>3, <1>4, <1>5, Zenon DEF At0!ListSafe, At1!InnerSafe
<1>10. At1!InnerCovers
  <2> SUFFICES ASSUME NEW on \in {"clio", "xrpld"}, NEW items, NEW v, Shape0!Sectioned(items),
                      Nested0!RunProcessors(on, items, v).error = At1!Fine
               PROVE  At1!SectionEffect(on, Shape0!PartsOf(on, items), v, Nested0!RunProcessors(on, items, v).value)
    BY DEF At1!InnerCovers
  <2>1. At0!Sectioned(items) /\ At0!RunProcessors(on, items, v).error = At0!Fine
    BY <1>4, <1>5 DEF At0!Fine, At1!Fine
  <2>2. At0!SectionEffect(on, At0!PartsOf(on, items), v, At0!RunProcessors(on, items, v).value)
    BY <1>3, <2>1 DEF At0!ListCovers
  <2>3. \A P, w : At0!SectionEffect(on, P, v, w) <=> At1!SectionEffect(on, P, v, w)
    BY Zenon DEF At0!SectionEffect, At1!SectionEffect, At0!PartRun, At1!PartRun, At0!AllPass,
                 At1!AllPass, At0!LeftBy, At1!LeftBy, At0!KeysOf, At1!KeysOf, At0!Fine, At1!Fine,
                 At0!Is, At1!Is, At0!IsInt64, At1!IsInt64, At0!IsUint32, At1!IsUint32, At0!Kind,
                 At1!Kind, At0!Child, At1!Child, At0!Present, At1!Present, At0!Absent, At1!Absent
  <2> QED
    BY <1>4, <1>5, <2>2, <2>3
<1> QED
  BY <1>6, <1>7, <1>8, <1>9, <1>10

\* The same one level up.
LEMMA Level1 ==
  ASSUME At1!InnerKept, At1!InnerTestsKeep, At1!InnerSettles, At1!InnerSafe, At1!InnerCovers
  PROVE  At2!InnerKept /\ At2!InnerTestsKeep /\ At2!InnerSettles /\ At2!InnerSafe /\ At2!InnerCovers
<1>1. At1!LeafKept /\ At1!LeafSafe
  BY LeafResult DEF At1!LeafKept, At1!LeafSafe, At1!Fine, Fine
<1>2. At1!InnerKept /\ At1!InnerTestsKeep /\ At1!InnerSettles /\ At1!InnerSafe /\ At1!InnerCovers
  OBVIOUS
<1>3. At1!ListKept /\ At1!ListTestsKeep /\ At1!ListSettles /\ At1!ListSafe /\ At1!ListCovers
  BY <1>1, <1>2, At1!KeptOneUp, At1!TestsKeepOneUp, At1!SettlesOneUp, At1!SafeOneUp,
     At1!CoversOneUp, WidthsGrow
<1>4. ASSUME NEW on, NEW items, NEW v
      PROVE  At1!RunProcessors(on, items, v) = Nested1!RunProcessors(on, items, v)
  BY Zenon DEF At1!RunProcessors, Nested1!RunProcessors, At1!Process, Nested1!Process, At1!IfServer,
               Nested1!IfServer, At1!IfType, Nested1!IfType, At1!NestedField, Nested1!NestedField,
               At1!Section, Nested1!Section, At1!WithCustomError, Nested1!WithCustomError,
               At1!Through, Nested1!Through, At1!Passed, Nested1!Passed, At1!Failed, Nested1!Failed,
               At1!Fine, Nested1!Fine, At1!Is, Nested1!Is, At1!IsInt64, Nested1!IsInt64,
               At1!IsUint32, Nested1!IsUint32, At1!Kind, Nested1!Kind, At1!Child, Nested1!Child,
               At1!Stored, Nested1!Stored, At1!Object, Nested1!Object, At1!Present, Nested1!Present,
               At1!Absent, Nested1!Absent
<1>5. ASSUME NEW on, NEW kind, NEW items
      PROVE  /\ At1!KeepsAll(items) <=> Shape1!KeepsAll(items)
             /\ At1!TestsOf(on, kind, items) = Shape1!TestsOf(on, kind, items)
             /\ At1!Simple(items) <=> Shape1!Simple(items)
             /\ At1!SafeAll(items) <=> Shape1!SafeAll(items)
             /\ At1!Sectioned(items) <=> Shape1!Sectioned(items)
             /\ At1!PartsOf(on, items) = Shape1!PartsOf(on, items)
  BY Zenon DEF At1!KeepsAll, Shape1!KeepsAll, At1!TestsOf, Shape1!TestsOf, At1!Simple,
               Shape1!Simple, At1!SafeAll, Shape1!SafeAll, At1!Sectioned, Shape1!Sectioned,
               At1!PartsOf, Shape1!PartsOf, At1!Keeps, Shape1!Keeps, At1!Tests, Shape1!Tests,
               At1!Runs, Shape1!Runs, At1!IsSafe, Shape1!IsSafe, At1!IsSection, Shape1!IsSection,
               At1!Parts, Shape1!Parts, At1!Heading, Shape1!Heading, At1!KeysOf, Shape1!KeysOf,
               At1!IsList, Shape1!IsList, At1!IsHolder, Shape1!IsHolder, At1!Holders,
               Shape1!Holders, At1!HeldBy, Shape1!HeldBy, At1!IsLeaf, Shape1!IsLeaf, At1!AnyKind,
               Shape1!AnyKind
<1>6. At2!InnerKept
  <2> SUFFICES ASSUME NEW on, NEW kind, NEW items, NEW v, Shape1!KeepsAll(items),
                      Nested1!RunProcessors(on, items, v).error = At2!Fine
               PROVE  /\ Nested1!RunProcessors(on, items, v).value = v
                      /\ At2!InKind(kind, v) => At2!AllPass(on, Shape1!TestsOf(on, kind, items), v)
    BY DEF At2!InnerKept
  <2>1. At1!KeepsAll(items) /\ At1!RunProcessors(on, items, v).error = At1!Fine
    BY <1>4, <1>5 DEF At1!Fine, At2!Fine
  <2>2. /\ At1!RunProcessors(on, items, v).value = v
        /\ At1!InKind(kind, v) => At1!AllPass(on, At1!TestsOf(on, kind, items), v)
    BY <1>3, <2>1 DEF At1!ListKept
  <2>3. At1!InKind(kind, v) <=> At2!InKind(kind, v)
    BY Zenon DEF At1!InKind, At2!InKind, At1!AnyKind, At2!AnyKind, At1!Is, At2!Is, At1!IsInt64,
                 At2!IsInt64, At1!IsUint32, At2!IsUint32, At1!Kind, At2!Kind
  <2>4. \A T : At1!AllPass(on, T, v) <=> At2!AllPass(on, T, v)
    BY Zenon DEF At1!AllPass, At2!AllPass, At1!Fine, At2!Fine
  <2> QED
    BY <1>4, <1>5, <2>2, <2>3, <2>4
<1>7. At2!InnerTestsKeep
  BY <1>3, <1>5, Zenon DEF At1!ListTestsKeep, At2!InnerTestsKeep
<1>8. At2!InnerSettles
  <2> SUFFICES ASSUME NEW on, NEW items, NEW v, Shape1!Simple(items),
                      Nested1!RunProcessors(on, items, v).error = At2!Fine
               PROVE  LET T == Shape1!TestsOf(on, At2!AnyKind, items)
                      IN At2!AllPass(on, T, v) /\ At2!LeftBy(on, T, v, Nested1!RunProcessors(on, items, v).value)
    BY DEF At2!InnerSettles
  <2>1. At1!Simple(items) /\ At1!RunProcessors(on, items, v).error = At1!Fine
    BY <1>4, <1>5 DEF At1!Fine, At2!Fine
  <2>2. LET T == At1!TestsOf(on, At1!AnyKind, items)
        IN At1!AllPass(on, T, v) /\ At1!LeftBy(on, T, v, At1!RunProcessors(on, items, v).value)
    BY <1>3, <2>1 DEF At1!ListSettles
  <2>3. \A T, w : /\ At1!AllPass(on, T, v) <=> At2!AllPass(on, T, v)
                  /\ At1!LeftBy(on, T, v, w) <=> At2!LeftBy(on, T, v, w)
    BY Zenon DEF At1!AllPass, At2!AllPass, At1!LeftBy, At2!LeftBy, At1!Fine, At2!Fine
  <2>4. At1!AnyKind = At2!AnyKind
    BY DEF At1!AnyKind, At2!AnyKind
  <2> QED
    BY <1>4, <1>5, <2>2, <2>3, <2>4
<1>9. At2!InnerSafe
  BY <1>3, <1>4, <1>5, Zenon DEF At1!ListSafe, At2!InnerSafe
<1>10. At2!InnerCovers
  <2> SUFFICES ASSUME NEW on \in {"clio", "xrpld"}, NEW items, NEW v, Shape1!Sectioned(items),
                      Nested1!RunProcessors(on, items, v).error = At2!Fine
               PROVE  At2!SectionEffect(on, Shape1!PartsOf(on, items), v, Nested1!RunProcessors(on, items, v).value)
    BY DEF At2!InnerCovers
  <2>1. At1!Sectioned(items) /\ At1!RunProcessors(on, items, v).error = At1!Fine
    BY <1>4, <1>5 DEF At1!Fine, At2!Fine
  <2>2. At1!SectionEffect(on, At1!PartsOf(on, items), v, At1!RunProcessors(on, items, v).value)
    BY <1>3, <2>1 DEF At1!ListCovers
  <2>3. \A P, w : At1!SectionEffect(on, P, v, w) <=> At2!SectionEffect(on, P, v, w)
    BY Zenon DEF At1!SectionEffect, At2!SectionEffect, At1!PartRun, At2!PartRun, At1!AllPass,
                 At2!AllPass, At1!LeftBy, At2!LeftBy, At1!KeysOf, At2!KeysOf, At1!Fine, At2!Fine,
                 At1!Is, At2!Is, At1!IsInt64, At2!IsInt64, At1!IsUint32, At2!IsUint32, At1!Kind,
                 At2!Kind, At1!Child, At2!Child, At1!Present, At2!Present, At1!Absent, At2!Absent
  <2> QED
    BY <1>4, <1>5, <2>2, <2>3
<1> QED
  BY <1>6, <1>7, <1>8, <1>9, <1>10

\* And on the level of the wrappers that the items of a field stand in.
LEMMA Level2 ==
  ASSUME At2!InnerKept, At2!InnerTestsKeep, At2!InnerSettles, At2!InnerSafe, At2!InnerCovers
  PROVE  At3!InnerKept /\ At3!InnerTestsKeep /\ At3!InnerSettles /\ At3!InnerSafe /\ At3!InnerCovers
<1>1. At2!LeafKept /\ At2!LeafSafe
  BY LeafResult DEF At2!LeafKept, At2!LeafSafe, At2!Fine, Fine
<1>2. At2!InnerKept /\ At2!InnerTestsKeep /\ At2!InnerSettles /\ At2!InnerSafe /\ At2!InnerCovers
  OBVIOUS
<1>3. At2!ListKept /\ At2!ListTestsKeep /\ At2!ListSettles /\ At2!ListSafe /\ At2!ListCovers
  BY <1>1, <1>2, At2!KeptOneUp, At2!TestsKeepOneUp, At2!SettlesOneUp, At2!SafeOneUp,
     At2!CoversOneUp, WidthsGrow
<1>4. ASSUME NEW on, NEW items, NEW v
      PROVE  At2!RunProcessors(on, items, v) = Nested2!RunProcessors(on, items, v)
  BY Zenon DEF At2!RunProcessors, Nested2!RunProcessors, At2!Process, Nested2!Process, At2!IfServer,
               Nested2!IfServer, At2!IfType, Nested2!IfType, At2!NestedField, Nested2!NestedField,
               At2!Section, Nested2!Section, At2!WithCustomError, Nested2!WithCustomError,
               At2!Through, Nested2!Through, At2!Passed, Nested2!Passed, At2!Failed, Nested2!Failed,
               At2!Fine, Nested2!Fine, At2!Is, Nested2!Is, At2!IsInt64, Nested2!IsInt64,
               At2!IsUint32, Nested2!IsUint32, At2!Kind, Nested2!Kind, At2!Child, Nested2!Child,
               At2!Stored, Nested2!Stored, At2!Object, Nested2!Object, At2!Present, Nested2!Present,
               At2!Absent, Nested2!Absent
<1>5. ASSUME NEW on, NEW kind, NEW items
      PROVE  /\ At2!KeepsAll(items) <=> Shape2!KeepsAll(items)
             /\ At2!TestsOf(on, kind, items) = Shape2!TestsOf(on, kind, items)
             /\ At2!Simple(items) <=> Shape2!Simple(items)
             /\ At2!SafeAll(items) <=> Shape2!SafeAll(items)
             /\ At2!Sectioned(items) <=> Shape2!Sectioned(items)
             /\ At2!PartsOf(on, items) = Shape2!PartsOf(on, items)
  BY Zenon DEF At2!KeepsAll, Shape2!KeepsAll, At2!TestsOf, Shape2!TestsOf, At2!Simple,
               Shape2!Simple, At2!SafeAll, Shape2!SafeAll, At2!Sectioned, Shape2!Sectioned,
               At2!PartsOf, Shape2!PartsOf, At2!Keeps, Shape2!Keeps, At2!Tests, Shape2!Tests,
               At2!Runs, Shape2!Runs, At2!IsSafe, Shape2!IsSafe, At2!IsSection, Shape2!IsSection,
               At2!Parts, Shape2!Parts, At2!Heading, Shape2!Heading, At2!KeysOf, Shape2!KeysOf,
               At2!IsList, Shape2!IsList, At2!IsHolder, Shape2!IsHolder, At2!Holders,
               Shape2!Holders, At2!HeldBy, Shape2!HeldBy, At2!IsLeaf, Shape2!IsLeaf, At2!AnyKind,
               Shape2!AnyKind
<1>6. At3!InnerKept
  <2> SUFFICES ASSUME NEW on, NEW kind, NEW items, NEW v, Shape2!KeepsAll(items),
                      Nested2!RunProcessors(on, items, v).error = At3!Fine
               PROVE  /\ Nested2!RunProcessors(on, items, v).value = v
                      /\ At3!InKind(kind, v) => At3!AllPass(on, Shape2!TestsOf(on, kind, items), v)
    BY DEF At3!InnerKept
  <2>1. At2!KeepsAll(items) /\ At2!RunProcessors(on, items, v).error = At2!Fine
    BY <1>4, <1>5 DEF At2!Fine, At3!Fine
  <2>2. /\ At2!RunProcessors(on, items, v).value = v
        /\ At2!InKind(kind, v) => At2!AllPass(on, At2!TestsOf(on, kind, items), v)
    BY <1>3, <2>1 DEF At2!ListKept
  <2>3. At2!InKind(kind, v) <=> At3!InKind(kind, v)
    BY Zenon DEF At2!InKind, At3!InKind, At2!AnyKind, At3!AnyKind, At2!Is, At3!Is, At2!IsInt64,
                 At3!IsInt64, At2!IsUint32, At3!IsUint32, At2!Kind, At3!Kind
  <2>4. \A T : At2!AllPass(on, T, v) <=> At3!AllPass(on, T, v)
    BY Zenon DEF At2!AllPass, At3!AllPass, At2!Fine, At3!Fine
  <2> QED
    BY <1>4, <1>5, <2>2, <2>3, <2>4
<1>7. At3!InnerTestsKeep
  BY <1>3, <1>5, Zenon DEF At2!ListTestsKeep, At3!InnerTestsKeep
<1>8. At3!InnerSettles
  <2> SUFFICES ASSUME NEW on, NEW items, NEW v, Shape2!Simple(items),
                      Nested2!RunProcessors(on, items, v).error = At3!Fine
               PROVE  LET T == Shape2!TestsOf(on, At3!AnyKind, items)
                      IN At3!AllPass(on, T, v) /\ At3!LeftBy(on, T, v, Nested2!RunProcessors(on, items, v).value)
    BY DEF At3!InnerSettles
  <2>1. At2!Simple(items) /\ At2!RunProcessors(on, items, v).error = At2!Fine
    BY <1>4, <1>5 DEF At2!Fine, At3!Fine
  <2>2. LET T == At2!TestsOf(on, At2!AnyKind, items)
        IN At2!AllPass(on, T, v) /\ At2!LeftBy(on, T, v, At2!RunProcessors(on, items, v).value)
    BY <1>3, <2>1 DEF At2!ListSettles
  <2>3. \A T, w : /\ At2!AllPass(on, T, v) <=> At3!AllPass(on, T, v)
                  /\ At2!LeftBy(on, T, v, w) <=> At3!LeftBy(on, T, v, w)
    BY Zenon DEF At2!AllPass, At3!AllPass, At2!LeftBy, At3!LeftBy, At2!Fine, At3!Fine
  <2>4. At2!AnyKind = At3!AnyKind
    BY DEF At2!AnyKind, At3!AnyKind
  <2> QED
    BY <1>4, <1>5, <2>2, <2>3, <2>4
<1>9. At3!InnerSafe
  BY <1>3, <1>4, <1>5, Zenon DEF At2!ListSafe, At3!InnerSafe
<1>10. At3!InnerCovers
  <2> SUFFICES ASSUME NEW on \in {"clio", "xrpld"}, NEW items, NEW v, Shape2!Sectioned(items),
                      Nested2!RunProcessors(on, items, v).error = At3!Fine
               PROVE  At3!SectionEffect(on, Shape2!PartsOf(on, items), v, Nested2!RunProcessors(on, items, v).value)
    BY DEF At3!InnerCovers
  <2>1. At2!Sectioned(items) /\ At2!RunProcessors(on, items, v).error = At2!Fine
    BY <1>4, <1>5 DEF At2!Fine, At3!Fine
  <2>2. At2!SectionEffect(on, At2!PartsOf(on, items), v, At2!RunProcessors(on, items, v).value)
    BY <1>3, <2>1 DEF At2!ListCovers
  <2>3. \A P, w : At2!SectionEffect(on, P, v, w) <=> At3!SectionEffect(on, P, v, w)
    BY Zenon DEF At2!SectionEffect, At3!SectionEffect, At2!PartRun, At3!PartRun, At2!AllPass,
                 At3!AllPass, At2!LeftBy, At3!LeftBy, At2!KeysOf, At3!KeysOf, At2!Fine, At3!Fine,
                 At2!Is, At3!Is, At2!IsInt64, At3!IsInt64, At2!IsUint32, At3!IsUint32, At2!Kind,
                 At3!Kind, At2!Child, At3!Child, At2!Present, At3!Present, At2!Absent, At3!Absent
  <2> QED
    BY <1>4, <1>5, <2>2, <2>3
<1> QED
  BY <1>6, <1>7, <1>8, <1>9, <1>10

-----------------------------------------------------------------------------
\* What is known of the leaves that are run on a field, of what they leave of it, and of
\* what a section of nested fields does.
Pass(on, T, v) == \A x \in T : Leaf(on, x, v).error = Fine

Left(on, T, v, w) ==
  \/ w = v /\ AllKeep(T)
  \/ \E x \in T : ~LeafKeeps(x) /\ w = Leaf(on, x, v).value

PartDone(on, p, c, d) ==
  /\ Pass(on, p.tests, c)
  /\ IF Present(c) THEN Left(on, p.tests, c, d) ELSE ~Present(d)

SectionDone(on, P, v, w) ==
  /\ ~Is("object", v) => w = v
  /\ Is("object", v) => Is("object", w) /\ \A p \in P : PartDone(on, p, Child(v, p.key), Child(w, p.key))
  /\ \A k : k \notin {p.key : p \in P} => Child(w, k) = Child(v, k)

\* What is known of a field once its items have let it pass, by the shape of their list.
LEMMA ItemsRun ==
  ASSUME NEW on \in Servers, NEW items, NEW v, RunProcessors(on, items, v).error = Fine
  PROVE  LET w == RunProcessors(on, items, v).value
         IN /\ KeepsAll(items) => w = v /\ AllKeep(TestsOf(on, items)) /\ Pass(on, TestsOf(on, items), v)
            /\ Simple(items) => Pass(on, TestsOf(on, items), v) /\ Left(on, TestsOf(on, items), v, w)
            /\ Sectioned(items) => /\ Pass(on, HeadingTests(on, items), v)
                                   /\ Is("string", v) => Pass(on, TextTests(on, items), v)
                                   /\ SectionDone(on, PartsOf(on, items), v, w)
<1> DEFINE w == RunProcessors(on, items, v).value
<1>1. At3!LeafKept /\ At3!LeafSafe
  BY LeafResult DEF At3!LeafKept, At3!LeafSafe, At3!Fine, Fine
<1>2. At3!InnerKept /\ At3!InnerTestsKeep /\ At3!InnerSettles /\ At3!InnerSafe /\ At3!InnerCovers
  BY Level0, Level1, Level2
<1>3. At3!ListKept /\ At3!ListTestsKeep /\ At3!ListSettles /\ At3!ListCovers
  BY <1>1, <1>2, At3!KeptOneUp, At3!TestsKeepOneUp, At3!SettlesOneUp, At3!CoversOneUp, WidthsGrow
<1>4. RunProcessors(on, items, v) = At3!RunProcessors(on, items, v)
  BY Zenon DEF RunProcessors, At3!RunProcessors, Nested3!RunProcessors, At3!Process, Nested3!Process,
               At3!IfServer, Nested3!IfServer, At3!IfType, Nested3!IfType, At3!NestedField,
               Nested3!NestedField, At3!Section, Nested3!Section, At3!WithCustomError, Nested3!WithCustomError,
               At3!Through, Nested3!Through, At3!Passed, Nested3!Passed, At3!Failed, Nested3!Failed, At3!Fine,
               Nested3!Fine, At3!Is, Nested3!Is, At3!IsInt64, Nested3!IsInt64, At3!IsUint32, Nested3!IsUint32,
               At3!Kind, Nested3!Kind, At3!Child, Nested3!Child, At3!Stored, Nested3!Stored, At3!Object,
               Nested3!Object, At3!Present, Nested3!Present, At3!Absent, Nested3!Absent
<1>5. ASSUME NEW kind
      PROVE  /\ At3!KeepsAll(items) <=> KeepsAll(items)
             /\ At3!TestsOf(on, kind, items) = Shape3!TestsOf(on, kind, items)
             /\ At3!HeadingTests(on, kind, items) = Shape3!HeadingTests(on, kind, items)
             /\ At3!Simple(items) <=> Simple(items)
             /\ At3!Sectioned(items) <=> Sectioned(items)
             /\ At3!PartsOf(on, items) = PartsOf(on, items)
  BY Zenon DEF KeepsAll, Simple, Sectioned, PartsOf, At3!KeepsAll, Shape3!KeepsAll, At3!TestsOf,
               Shape3!TestsOf, At3!HeadingTests, Shape3!HeadingTests, At3!Simple, Shape3!Simple, At3!Sectioned,
               Shape3!Sectioned, At3!PartsOf, Shape3!PartsOf, At3!Keeps, Shape3!Keeps, At3!Tests, Shape3!Tests,
               At3!Runs, Shape3!Runs, At3!IsSection, Shape3!IsSection, At3!Parts, Shape3!Parts, At3!Heading,
               Shape3!Heading, At3!KeysOf, Shape3!KeysOf, At3!IsList, Shape3!IsList, At3!IsHolder,
               Shape3!IsHolder, At3!Holders, Shape3!Holders, At3!HeldBy, Shape3!HeldBy, At3!IsLeaf,
               Shape3!IsLeaf, At3!AnyKind, Shape3!AnyKind
<1>6. At3!AnyKind = Shape3!AnyKind /\ At3!Fine = Fine
  BY DEF At3!AnyKind, Shape3!AnyKind, At3!Fine, Fine
<1>7. ASSUME NEW T, NEW x, NEW y
      PROVE  /\ At3!AllPass(on, T, x) <=> Pass(on, T, x)
             /\ At3!LeftBy(on, T, x, y) <=> Left(on, T, x, y)
             /\ At3!SectionEffect(on, T, x, y) => SectionDone(on, T, x, y)
  BY Zenon DEF At3!AllPass, At3!LeftBy, At3!SectionEffect, At3!PartRun, At3!KeysOf, Pass, Left, AllKeep, SectionDone,
               PartDone, At3!Fine, Fine, At3!Is, Is, At3!IsInt64, IsInt64, At3!IsUint32, IsUint32, At3!Kind, Kind,
               At3!Child, Child, At3!Present, Present, At3!Absent, Absent
<1>8. At3!InKind(Shape3!AnyKind, v) /\ (Is("string", v) => At3!InKind("string", v))
  BY <1>6, Zenon DEF At3!InKind, At3!Is, Is, At3!IsInt64, IsInt64, At3!IsUint32, IsUint32, At3!Kind, Kind
<1>9. At3!RunProcessors(on, items, v).error = At3!Fine
  BY <1>4, <1>6
<1>10. KeepsAll(items) => w = v /\ AllKeep(TestsOf(on, items)) /\ Pass(on, TestsOf(on, items), v)
  BY <1>3, <1>4, <1>5, <1>7, <1>8, <1>9 DEF At3!ListKept, At3!ListTestsKeep, AllKeep, TestsOf
<1>11. Simple(items) => Pass(on, TestsOf(on, items), v) /\ Left(on, TestsOf(on, items), v, w)
  BY <1>3, <1>4, <1>5, <1>6, <1>7, <1>9 DEF At3!ListSettles, TestsOf
<1>12. ASSUME Sectioned(items)
       PROVE  /\ Pass(on, HeadingTests(on, items), v)
              /\ Is("string", v) => Pass(on, TextTests(on, items), v)
              /\ SectionDone(on, PartsOf(on, items), v, w)
  <2>1. At3!Sectioned(items) /\ At3!IsList(items)
    BY <1>5, <1>12 DEF At3!Sectioned
  <2>2. ASSUME NEW kind, At3!InKind(kind, v) PROVE At3!AllPass(on, At3!HeadingTests(on, kind, items), v)
    BY <1>1, <1>2, <1>9, <2>1, <2>2, At3!HeadingHolds, WidthsGrow
  <2>3. Pass(on, HeadingTests(on, items), v)
    BY <1>5, <1>7, <1>8, <2>2 DEF HeadingTests
  <2>4. Is("string", v) => Pass(on, TextTests(on, items), v)
    BY <1>5, <1>7, <1>8, <2>2 DEF TextTests
  <2>5. SectionDone(on, PartsOf(on, items), v, w)
    BY <1>3, <1>4, <1>5, <1>7, <1>9, <2>1 DEF At3!ListCovers, Servers
  <2> QED
    BY <2>3, <2>4, <2>5
<1> QED
  BY <1>10, <1>11, <1>12

\* Items whose codes are none of an exception do not end in one.
LEMMA ItemsSafe ==
  ASSUME NEW on, NEW items, NEW v, SafeAll(items)
  PROVE  RunProcessors(on, items, v).error # "threw"
<1>1. At3!LeafSafe
  BY LeafResult DEF At3!LeafSafe
<1>2. At3!InnerSafe
  BY Level0, Level1, Level2
<1>3. At3!ListSafe
  BY <1>1, <1>2, At3!SafeOneUp, WidthsGrow
<1>4. RunProcessors(on, items, v) = At3!RunProcessors(on, items, v)
  BY Zenon DEF RunProcessors, At3!RunProcessors, Nested3!RunProcessors, At3!Process, Nested3!Process,
               At3!IfServer, Nested3!IfServer, At3!IfType, Nested3!IfType, At3!NestedField,
               Nested3!NestedField, At3!Section, Nested3!Section, At3!WithCustomError, Nested3!WithCustomError,
               At3!Through, Nested3!Through, At3!Passed, Nested3!Passed, At3!Failed, Nested3!Failed, At3!Fine,
               Nested3!Fine, At3!Is, Nested3!Is, At3!IsInt64, Nested3!IsInt64, At3!IsUint32, Nested3!IsUint32,
               At3!Kind, Nested3!Kind, At3!Child, Nested3!Child, At3!Stored, Nested3!Stored, At3!Object,
               Nested3!Object, At3!Present, Nested3!Present, At3!Absent, Nested3!Absent
<1>5. At3!SafeAll(items)
  BY Zenon DEF SafeAll, At3!SafeAll, Shape3!SafeAll, At3!IsSafe, Shape3!IsSafe, At3!IsList, Shape3!IsList,
     At3!Holders, Shape3!Holders, At3!IsLeaf, Shape3!IsLeaf
<1> QED
  BY <1>3, <1>4, <1>5 DEF At3!ListSafe

-----------------------------------------------------------------------------
\* The converters that read nothing before they have looked at it.
LEMMA ReadersSafe ==
  ASSUME NEW on, NEW v
  PROVE  /\ AccountIdConverter(on, v).error # "threw"
         /\ AccountIdActMalformedConverter(v).error # "threw"
         /\ \A bits : HexConverterBase(bits, v).error # "threw"
         /\ \A strict : JsonBoolConverter(strict, v).error # "threw"
         /\ Uint32Converter(v).error # "threw" /\ StringConverter(v).error # "threw"
         /\ Uint8Converter(v).error # "threw" /\ CurrencyConverter(v).error # "threw"
         /\ AccountMarkerStrConverter(on, v).error # "threw"
         /\ AccountOwnedTypeConverter(v).error # "threw" /\ LedgerEntryTypeConverter(v).error # "threw"
         /\ TxHashConverter(v).error # "threw" /\ TakerConverter(on, v).error # "threw"
         /\ OwnerConverter(on, v).error # "threw" /\ LedgerDataMarkerConverter(on, v).error # "threw"
         /\ IssueConverter(v).error # "threw"
<1> USE DEF ReadText, Wrapped, Passed, Failed, Fine
<1>1. /\ AccountIdConverter(on, v).error # "threw"
      /\ AccountIdActMalformedConverter(v).error # "threw"
      /\ \A bits : HexConverterBase(bits, v).error # "threw"
      /\ TakerConverter(on, v).error # "threw"
      /\ OwnerConverter(on, v).error # "threw"
  BY DEF AccountIdConverter, AccountIdActMalformedConverter, HexConverterBase, TakerConverter, OwnerConverter
<1>2. Uint32Converter(v).error # "threw"
  BY DEF Uint32Converter, AsUint32, IsUint32
<1>3. /\ \A strict : JsonBoolConverter(strict, v).error # "threw"
      /\ StringConverter(v).error # "threw" /\ Uint8Converter(v).error # "threw"
      /\ CurrencyConverter(v).error # "threw" /\ TxHashConverter(v).error # "threw"
  BY DEF JsonBoolConverter, StringConverter, AsText, Uint8Converter, CurrencyConverter, TxHashConverter
<1>4. /\ AccountMarkerStrConverter(on, v).error # "threw"
      /\ AccountOwnedTypeConverter(v).error # "threw" /\ LedgerEntryTypeConverter(v).error # "threw"
  BY DEF AccountMarkerStrConverter, AccountOwnedTypeConverter, LedgerEntryTypeConverter
<1>5. LedgerDataMarkerConverter(on, v).error # "threw"
  BY DEF LedgerDataMarkerConverter, AsUint32, IsUint32
<1>6. IssueConverter(v).error # "threw"
  BY DEF IssueConverter
<1> QED
  BY <1>1, <1>2, <1>3, <1>4, <1>5, <1>6

\* Whatever their names are bound to, on the server they are built for.
LEMMA SelfGuardedSafe ==
  ASSUME NEW on \in Servers, NEW conv, conv.conv \in SelfGuarded, NEW v
  PROVE  ConverterNamed(on, conv, v).error # "threw"
<1>1. ASSUME NEW clioResult, clioResult.error # "threw", NEW nonString
      PROVE  DeferredAccountId(on, clioResult, nonString, v).error # "threw"
  BY <1>1, ReadersSafe DEF DeferredAccountId, Passed, Fine
<1>2. LinesAccount(on, v).error # "threw"
  BY <1>1, ReadersSafe DEF LinesAccount
<1>3. AsBoolConverter(on, v).error # "threw" /\ AccountIdHexConverter(v).error # "threw"
  <2>1. AsBoolConverter(on, v).error # "threw"
    BY ReadersSafe DEF AsBoolConverter
  <2>2. AccountIdHexConverter(v).error # "threw"
    BY ReadersSafe DEF AccountIdHexConverter
  <2> QED
    BY <2>1, <2>2
<1>4. /\ JsonBoolConverter(FALSE, v).error # "threw" /\ JsonBoolConverter(TRUE, v).error # "threw"
       /\ JsonBoolConverter(on = "clio", v).error # "threw"
       /\ HexConverterBase(256, v).error # "threw" /\ HexConverterBase(192, v).error # "threw"
  <2>1. \A strict : JsonBoolConverter(strict, v).error # "threw"
    BY ReadersSafe
  <2>2. \A bits : HexConverterBase(bits, v).error # "threw"
    BY ReadersSafe
  <2> QED
    BY <2>1, <2>2, Zenon
<1>5. Passed(AssetFromView(v)).error # "threw"
  BY DEF Passed, Fine
<1>6. CASE conv.conv \in {"accountId", "accountIdActMalformed", "linesAccount", "deferredAsset"}
  BY <1>2, <1>5, <1>6, ReadersSafe, Zenon DEF ConverterNamed
<1>7. CASE conv.conv \in {"deferredAccountId", "deferredAccountIdActMalformed"}
  <2>1. /\ conv.conv = "deferredAccountId" => ConverterNamed(on, conv, v) = DeferredAccountId(on, AccountIdConverter(on, v), "fails", v)
        /\ conv.conv = "deferredAccountIdActMalformed" => ConverterNamed(on, conv, v) = DeferredAccountId(on, AccountIdActMalformedConverter(v), "deferred", v)
    BY Zenon DEF ConverterNamed
  <2>2. /\ DeferredAccountId(on, AccountIdConverter(on, v), "fails", v).error # "threw"
        /\ DeferredAccountId(on, AccountIdActMalformedConverter(v), "deferred", v).error # "threw"
    BY <1>1, ReadersSafe
  <2> QED
    BY <1>7, <2>1, <2>2
<1>8. CASE conv.conv \in {"asUint32", "asString", "asUint256", "asUint192", "accountIdHex", "jsonBool"}
  BY <1>3, <1>8, <1>4, ReadersSafe, Zenon DEF ConverterNamed
<1>9. CASE conv.conv \in {"jsonBoolStrict", "JsonBoolConverterT<kIsClioBuild>", "asBool", "accountMarkerStr",
                          "ledgerData markerConv", "accountOwnedTypeConv"}
  BY <1>3, <1>9, <1>4, ReadersSafe, Zenon DEF ConverterNamed
<1>10. CASE conv.conv \in {"ledgerEntryTypeConv", "TxHashConverter", "ownerConv", "uint8Conv", "currencyConv",
                          "takerConv"}
  BY <1>10, ReadersSafe, Zenon DEF ConverterNamed
<1> QED
  BY <1>6, <1>8, <1>9, <1>10, <1>7 DEF SelfGuarded

\* A test that has passed on a field it does not rewrite.
LEMMA TestPassed ==
  ASSUME NEW on, NEW T, NEW v, Pass(on, T, v), NEW x \in T, LeafKeeps(x), x.item \in Requirements
  PROVE  Verify(on, x, v) = Fine
<1>1. x.item \notin Markers
  BY DEF Requirements, Markers
<1> QED
  BY <1>1, LeafResult DEF Pass

\* The arrays of a request, and of what it holds, are sequences of values that are there.
LEMMA ArraysOfRequest ==
  ASSUME NEW v, JsonPart(v) \/ JsonLeaf(v)
  PROVE  Present(v) /\ IsArrayOf(v, {v.array[i] : i \in DOMAIN v.array})
<1>1. CASE JsonPart(v)
  <2>1. /\ Present(v)
        /\ Kind(v) = "array" => /\ v.array \in Seq({v.array[i] : i \in DOMAIN v.array})
                                /\ \A i \in DOMAIN v.array : JsonLeaf(v.array[i])
    BY <1>1 DEF JsonPart, IsJson
  <2>2. \A w : JsonLeaf(w) => Present(w)
    BY DEF JsonLeaf, IsJson
  <2> QED
    BY <2>1, <2>2 DEF IsArrayOf, Is
<1>2. CASE JsonLeaf(v)
  BY <1>2 DEF JsonLeaf, IsJson, IsArrayOf, Is
<1> QED
  BY <1>1, <1>2

\* A converter that relies on one test of the field, which has passed.
LEMMA OneTestSafe ==
  ASSUME NEW on, NEW v, Present(v), NEW Elements, IsArrayOf(v, Elements), NEW x, Verify(on, x, v) = Fine,
         NEW conv, conv.conv \in DOMAIN TestsFor, x.item \in TestsFor[conv.conv]
  PROVE  ConverterNamed(on, conv, v).error # "threw"
<1> DEFINE name == conv.conv
<1>1. /\ AccountMarkerValidator(v) = Fine => AsText(v).error = Fine
      /\ \A texts : OneOfValidator(texts, v) = Fine => RoleGatewayConverter(v).error = Fine
  BY CodesDiffer DEF AccountMarkerValidator, OneOfValidator, TextOf, Unless, ??, AsText, RoleGatewayConverter
<1>2. ASSUME DelegateValidator(v) = Fine PROVE DelegateFilterConverter(v).error = Fine
  <2> DEFINE filter == Child(v, "delegate_filter")
             party == Child(v, "counter_party")
  <2>1. Is("string", filter) /\ (Present(party) => Is("string", party))
    BY <1>2, CodesDiffer DEF DelegateValidator, IsTextIn, AccountFormat, TextOf, Unless, ??
  <2>2. AsText(filter).error = Fine /\ (Present(party) => AsText(party).error = Fine)
    BY <2>1, CodesDiffer DEF AsText
  <2> HIDE DEF filter, party
  <2> DEFINE parts == [delegateType |-> AsText(filter),
                       counterParty |-> IF Present(party) THEN AsText(party) ELSE Passed(Unset)]
  <2>3. \A key \in DOMAIN parts : parts[key].error = Fine
    BY <2>2, CodesDiffer
  <2>4. Assembled(parts).error = Fine
    <3> HIDE DEF parts
    <3> QED
      BY <2>3, CodesDiffer DEF Assembled
  <2> QED
    BY <2>4 DEF DelegateFilterConverter, filter, party
<1>3. Fine # "threw"
  BY DEF Fine
<1>4. CASE name = "asAccountIdVec"
  <2>1. ConverterNamed(on, conv, v) = AccountIdVecConverter(v)
    BY <1>4, Zenon DEF ConverterNamed
  <2>2. CASE x.item = "accountIdArray"
    <3>1. Verify(on, x, v) = AccountIdArrayValidator(x.bound, v)
      BY <2>2, Zenon DEF Verify
    <3> QED
      BY <1>3, <2>1, <3>1, ArraysVouchedFor
  <2>3. CASE x.item = "kSubscribeAccountsValidator"
    <3>1. Verify(on, x, v) = SubscribeAccountsValidator(v)
      BY <2>3, Zenon DEF Verify
    <3> QED
      BY <1>3, <2>1, <3>1, ArraysVouchedFor
  <2> QED
    BY <1>4, <2>2, <2>3 DEF TestsFor
<1>5. CASE name = "asUint192Vec"
  <2>1. x.item = "uint192Array"
    BY <1>5 DEF TestsFor
  <2>2. Verify(on, x, v) = Uint192ArrayValidator(v) /\ ConverterNamed(on, conv, v) = Uint192VecConverter(v)
    BY <1>5, <2>1, Zenon DEF Verify, ConverterNamed
  <2> QED
    BY <1>3, <2>2, ArraysVouchedFor
<1>6. CASE name = "credentialsArrayConv"
  <2>1. x.item = "hex256Array"
    BY <1>6 DEF TestsFor
  <2>2. Verify(on, x, v) = Hex256ArrayValidator(v) /\ ConverterNamed(on, conv, v) = CredentialsArrayConverter(v)
    BY <1>6, <2>1, Zenon DEF Verify, ConverterNamed
  <2> QED
    BY <1>3, <2>2, ArraysVouchedFor
<1>7. CASE name = "streamVecConv"
  <2>1. x.item = "kSubscribeStreamValidator"
    BY <1>7 DEF TestsFor
  <2>2. Verify(on, x, v) = StreamsValidator(on, v) /\ ConverterNamed(on, conv, v) = StreamVecConverter(v)
    BY <1>7, <2>1, Zenon DEF Verify, ConverterNamed
  <2> QED
    BY <1>3, <2>2, ArraysVouchedFor
<1>8. CASE name = "subscribeBooksConv"
  <2>1. x.item = "subscribe kBooksValidator"
    <3>1. TestsFor["subscribeBooksConv"] = {"subscribe kBooksValidator"}
      BY DEF TestsFor
    <3> QED
      BY <1>8, <3>1
  <2>2. Verify(on, x, v) = SubscribeBooksValidator(v) /\ ConverterNamed(on, conv, v) = SubscribeBooksConverter(v)
    BY <1>8, <2>1, Zenon DEF Verify, ConverterNamed
  <2> QED
    BY <1>3, <2>2, BooksVouchedFor
<1>9. CASE name = "unsubscribeBooksConv"
  <2>1. x.item = "unsubscribe kBooksValidator"
    <3>1. TestsFor["unsubscribeBooksConv"] = {"unsubscribe kBooksValidator"}
      BY DEF TestsFor
    <3> QED
      BY <1>9, <3>1
  <2>2. Verify(on, x, v) = UnsubscribeBooksValidator(v) /\ ConverterNamed(on, conv, v) = UnsubscribeBooksConverter(v)
    BY <1>9, <2>1, Zenon DEF Verify, ConverterNamed
  <2> QED
    BY <1>3, <2>2, BooksVouchedFor
<1>10. CASE name = "dateConv"
  <2>1. x.item = "timeFormat"
    BY <1>10 DEF TestsFor
  <2>2. Verify(on, x, v) = TimeFormatValidator(v) /\ ConverterNamed(on, conv, v) = DateConverter(v)
    BY <1>10, <2>1, Zenon DEF Verify, ConverterNamed
  <2> QED
    BY <1>3, <2>2, TextsVouchedFor
<1>11. CASE name = "markerStringConv"
  <2>1. x.item = "accountMarker"
    BY <1>11 DEF TestsFor
  <2>2. Verify(on, x, v) = AccountMarkerValidator(v) /\ ConverterNamed(on, conv, v) = AsText(v)
    BY <1>11, <2>1, Zenon DEF Verify, ConverterNamed
  <2> QED
    BY <1>1, <1>3, <2>2
<1>12. CASE name = "delegateConv"
  <2>1. x.item = "kDelegateValidator"
    BY <1>12 DEF TestsFor
  <2>2. Verify(on, x, v) = DelegateValidator(v) /\ ConverterNamed(on, conv, v) = DelegateFilterConverter(v)
    BY <1>12, <2>1, Zenon DEF Verify, ConverterNamed
  <2> QED
    BY <1>2, <1>3, <2>2
<1>13. CASE name = "roleGateway"
  <2>1. x.item = "oneOf"
    BY <1>13 DEF TestsFor
  <2>2. Verify(on, x, v) = OneOfValidator(x.texts, v) /\ ConverterNamed(on, conv, v) = RoleGatewayConverter(v)
    BY <1>13, <2>1, Zenon DEF Verify, ConverterNamed
  <2> QED
    BY <1>1, <1>3, <2>2
<1> QED
  BY <1>4, <1>5, <1>6, <1>7, <1>8, <1>9, <1>10, <1>11, <1>12, <1>13 DEF TestsFor

\* Among tests that rewrite nothing and have passed, each has verified the field.
LEMMA TestHolds ==
  ASSUME NEW on, NEW T, NEW v, Pass(on, T, v), NEW names, names \subseteq Requirements, Has(T, names),
         \A x \in T : x.item \in names => LeafKeeps(x)
  PROVE  \E x \in T : x.item \in names /\ Verify(on, x, v) = Fine
<1>1. PICK x \in T : x.item \in names
  BY DEF Has
<1>2. x.item \in Requirements /\ LeafKeeps(x)
  BY <1>1
<1> QED
  BY <1>1, <1>2, TestPassed

\* A field whose tests require it is there.
LEMMA RequiredHolds ==
  ASSUME NEW on, NEW T, NEW v, Pass(on, T, v), Has(T, {"required"})
  PROVE  Present(v)
<1>1. \A x : x.item = "required" => LeafKeeps(x)
  BY DEF LeafKeeps, Modifiers
<1>2. {"required"} \subseteq Requirements
  BY DEF Requirements
<1>3. PICK x \in T : x.item = "required" /\ Verify(on, x, v) = Fine
  BY <1>1, <1>2, TestHolds
<1>4. Verify(on, x, v) = Required(v)
  BY <1>3, Zenon DEF Verify
<1> QED
  BY <1>3, <1>4, CodesDiffer DEF Required, Unless

\* A field whose tests name its type is of one of the kinds they name.
LEMMA TypeHolds ==
  ASSUME NEW on, NEW T, NEW v, Pass(on, T, v), NEW kinds, HasType(T, kinds), Present(v)
  PROVE  \E kind \in kinds : Is(kind, v)
<1>1. PICK x \in T : x.item = "type" /\ x.kinds = kinds
  BY DEF HasType
<1>2. LeafKeeps(x) /\ x.item \in Requirements
  BY <1>1 DEF LeafKeeps, Modifiers, Requirements
<1>3. Verify(on, x, v) = Fine
  BY <1>2, TestPassed
<1>4. Verify(on, x, v) = Type(x.kinds, v)
  BY <1>1, Zenon DEF Verify
<1> QED
  BY <1>1, <1>3, <1>4, CodesDiffer DEF Type, Unless

\* The digits of a hash read by one of the readers of a fixed width.
LEMMA DigitsVouchedFor ==
  ASSUME NEW v, Present(v)
  PROVE  /\ HexStringValidator(256, v) = Fine => FromValidated(v, Hex256Of, Hash).error = Fine
         /\ HexStringValidator(192, v) = Fine => FromValidated(v, Hex192Of, Hash).error = Fine
  BY CodesDiffer DEF HexStringValidator, TextOf, Unless, ??, FromValidated, ReadText, Wrapped, Hex256Of, Hex192Of

\* A part of an object whose tests have passed is read, in whatever form they left it.
LEMMA PartSafe ==
  ASSUME NEW on, NEW part, NEW T, PartVouchedFor(part, T), NEW c, c = Absent \/ JsonLeaf(c), NEW d,
         Pass(on, T, c), IF Present(c) THEN Left(on, T, c, d) ELSE ~Present(d)
  PROVE  PartOf(part, d).error # "threw"
<1>1. Fine # "threw" /\ \A x : Passed(x).error # "threw"
  BY DEF Passed, Fine
<1>2. CASE part = "optional uint32"
  <2>1. PartOf(part, d) = IF IsUint32(d) THEN AsUint32(d) ELSE Passed(Unset)
    BY <1>2, Zenon DEF PartOf
  <2> QED
    BY <1>1, <2>1 DEF AsUint32, IsUint32
<1>3. CASE part = "uint32"
  <2>1. PartOf(part, d) = AsUint32(d)
    BY <1>3, Zenon DEF PartOf
  <2>2. Present(c) /\ Left(on, T, c, d)
    BY <1>3, RequiredHolds DEF PartVouchedFor, OptionalParts, NeededParts
  <2>3. CASE AllKeep(T) /\ HasType(T, {"uint32"})
    <3>1. d = c
      BY <2>2, <2>3 DEF Left, AllKeep
    <3>2. Is("uint32", c)
      BY <2>2, <2>3, TypeHolds
    <3> QED
      BY <1>1, <2>1, <3>1, <3>2 DEF Is, IsUint32, AsUint32
  <2>4. CASE OnlyRewrites(T, "toNumber") /\ Has(T, {"toNumber"}) /\ HasType(T, {"uint32", "string"})
    <3>1. ~AllKeep(T)
      BY <2>4 DEF Has, AllKeep, LeafKeeps, Modifiers
    <3>2. PICK x \in T : ~LeafKeeps(x) /\ d = Leaf(on, x, c).value
      BY <2>2, <3>1 DEF Left
    <3>3. x.item = "toNumber"
      BY <2>4, <3>2 DEF OnlyRewrites
    <3>4. Leaf(on, x, c) = Modify(x, c) /\ Leaf(on, x, c).error = Fine
      BY <3>2, LeafResult DEF Pass
    <3>5. Modify(x, c) = ToNumberModifier(c)
      BY <3>3, Zenon DEF Modify
    <3>6. Is("uint32", c) \/ Is("string", c)
      BY <2>2, <2>4, TypeHolds
    <3>7. CASE Is("string", c)
      BY <1>1, <2>1, <3>2, <3>4, <3>5, <3>7, SpelledNumbersAreExact
    <3>8. CASE ~Is("string", c)
      <4>1. ToNumberModifier(c) = Passed(c)
        BY <3>8 DEF ToNumberModifier, SpelledNumber
      <4> QED
        BY <1>1, <2>1, <3>2, <3>4, <3>5, <3>6, <3>8, <4>1 DEF Is, IsUint32, AsUint32, Passed
    <3> QED
      BY <3>7, <3>8
  <2> QED
    BY <1>3, <2>3, <2>4 DEF PartVouchedFor, OptionalParts, NeededParts
<1>4. CASE part \in OptionalParts \union NeededParts
  <2>1. AllKeep(T) /\ Has(T, {TestFor(part)}) /\ (part \in NeededParts => Present(c))
    BY <1>4, RequiredHolds DEF PartVouchedFor, OptionalParts, NeededParts
  <2>2. IF Present(c) THEN d = c ELSE ~Present(d)
    BY <2>1 DEF Left, AllKeep
  <2>3. Present(c) => IsArrayOf(c, {c.array[i] : i \in DOMAIN c.array})
    BY ArraysOfRequest DEF Present, Kind, Absent
  <2>4. ASSUME ~Present(d) PROVE ~Is("string", d) /\ ~Is("array", d)
    BY <2>4 DEF Present, Is
  <2>5. ASSUME NEW name \in Requirements, TestFor(part) = name
        PROVE  \E x : x.item = name /\ Verify(on, x, c) = Fine
    <3>1. {name} \subseteq Requirements /\ \A x \in T : LeafKeeps(x)
      BY <2>1 DEF AllKeep
    <3> QED
      BY <2>1, <2>5, <3>1, TestHolds
  <2>6. CASE part = "account"
    <3>1. TestFor(part) = "accountBase58" /\ "accountBase58" \in Requirements
      BY <2>6, Zenon DEF TestFor, Requirements
    <3>2. PICK x : x.item = "accountBase58" /\ Verify(on, x, c) = Fine
      BY <2>5, <3>1
    <3>3. Verify(on, x, c) = AccountBase58Validator(c)
      BY <3>2, Zenon DEF Verify
    <3>4. PartOf(part, d) = FromValidated(d, AccountFromStringStrict, Account)
      BY <2>6, Zenon DEF PartOf
    <3>5. Present(c) /\ d = c
      BY <2>1, <2>2, <2>6 DEF NeededParts
    <3>6. FromValidated(d, AccountFromStringStrict, Account).error = Fine
      BY <2>3, <3>2, <3>3, <3>5, TextsVouchedFor
    <3> QED
      BY <1>1, <3>4, <3>6
  <2>7. CASE part = "hash256"
    <3>1. TestFor(part) = "uint256Hex" /\ "uint256Hex" \in Requirements
      BY <2>7, Zenon DEF TestFor, Requirements
    <3>2. PICK x : x.item = "uint256Hex" /\ Verify(on, x, c) = Fine
      BY <2>5, <3>1
    <3>3. Verify(on, x, c) = HexStringValidator(256, c)
      BY <3>2, HexItems
    <3>4. PartOf(part, d) = FromValidated(d, Hex256Of, Hash)
      BY <2>7, Zenon DEF PartOf
    <3>5. Present(c) /\ d = c
      BY <2>1, <2>2, <2>7 DEF NeededParts
    <3>6. FromValidated(d, Hex256Of, Hash).error = Fine
      BY <2>3, <3>2, <3>3, <3>5, DigitsVouchedFor
    <3> QED
      BY <1>1, <3>4, <3>6
  <2>8. CASE part = "hash192"
    <3>1. TestFor(part) = "uint192Hex" /\ "uint192Hex" \in Requirements
      BY <2>8, Zenon DEF TestFor, Requirements
    <3>2. PICK x : x.item = "uint192Hex" /\ Verify(on, x, c) = Fine
      BY <2>5, <3>1
    <3>3. Verify(on, x, c) = HexStringValidator(192, c)
      BY <3>2, HexItems
    <3>4. PartOf(part, d) = FromValidated(d, Hex192Of, Hash)
      BY <2>8, Zenon DEF PartOf
    <3>5. Present(c) /\ d = c
      BY <2>1, <2>2, <2>8 DEF NeededParts
    <3>6. FromValidated(d, Hex192Of, Hash).error = Fine
      BY <2>3, <3>2, <3>3, <3>5, DigitsVouchedFor
    <3> QED
      BY <1>1, <3>4, <3>6
  <2>9. CASE part = "text"
    <3>1. TestFor(part) = "credentialType" /\ "credentialType" \in Requirements
      BY <2>9, Zenon DEF TestFor, Requirements
    <3>2. PICK x : x.item = "credentialType" /\ Verify(on, x, c) = Fine
      BY <2>5, <3>1
    <3>3. Verify(on, x, c) = CredentialTypeValidator(c)
      BY <3>2, Zenon DEF Verify
    <3>4. PartOf(part, d) = AsText(d)
      BY <2>9, Zenon DEF PartOf
    <3>5. Present(c) /\ d = c
      BY <2>1, <2>2, <2>9 DEF NeededParts
    <3> QED
      BY <1>1, <3>2, <3>3, <3>4, <3>5, CodesDiffer DEF CredentialTypeValidator, TextOf, Unless, ??, AsText
  <2>10. CASE part = "issue"
    <3>1. TestFor(part) = "currencyIssue" /\ "currencyIssue" \in Requirements
      BY <2>10, Zenon DEF TestFor, Requirements
    <3>2. PICK x : x.item = "currencyIssue" /\ Verify(on, x, c) = Fine
      BY <2>5, <3>1
    <3>3. Verify(on, x, c) = CurrencyIssueValidator(c)
      BY <3>2, Zenon DEF Verify
    <3>4. PartOf(part, d) = CurrencyIssueOf(d)
      BY <2>10, Zenon DEF PartOf
    <3>5. Present(c) /\ d = c
      BY <2>1, <2>2, <2>10 DEF NeededParts
    <3>6. CurrencyIssueOf(d).error = Fine
      BY <2>3, <3>2, <3>3, <3>5, EntryPartsVouchedFor
    <3> QED
      BY <1>1, <3>4, <3>6
  <2>11. CASE part = "accounts"
    <3>1. TestFor(part) = "kRippleStateAccountsValidator" /\ "kRippleStateAccountsValidator" \in Requirements
      BY <2>11, Zenon DEF TestFor, Requirements
    <3>2. PICK x : x.item = "kRippleStateAccountsValidator" /\ Verify(on, x, c) = Fine
      BY <2>5, <3>1
    <3>3. Verify(on, x, c) = RippleStateAccountsValidator(c)
      BY <3>2, Zenon DEF Verify
    <3>4. PartOf(part, d) = TwoAccountsOf(d)
      BY <2>11, Zenon DEF PartOf
    <3>5. Present(c) /\ d = c
      BY <2>1, <2>2, <2>11 DEF NeededParts
    <3>6. TwoAccountsOf(d).error = Fine
      BY <2>3, <3>2, <3>3, <3>5, EntryPartsVouchedFor
    <3> QED
      BY <1>1, <3>4, <3>6
  <2>12. CASE part = "currency"
    <3>1. TestFor(part) = "currency" /\ "currency" \in Requirements
      BY <2>12, Zenon DEF TestFor, Requirements
    <3>2. PICK x : x.item = "currency" /\ Verify(on, x, c) = Fine
      BY <2>5, <3>1
    <3>3. Verify(on, x, c) = CurrencyValidator(c)
      BY <3>2, Zenon DEF Verify
    <3>4. PartOf(part, d) = FromValidated(d, ToCurrency, Str)
      BY <2>12, Zenon DEF PartOf
    <3>5. Present(c) /\ d = c
      BY <2>1, <2>2, <2>12 DEF NeededParts
    <3>6. FromValidated(d, ToCurrency, Str).error = Fine
      BY <2>3, <3>2, <3>3, <3>5, TextsVouchedFor
    <3> QED
      BY <1>1, <3>4, <3>6
  <2>13. CASE part = "optional account"
    <3>1. TestFor(part) = "accountBase58" /\ "accountBase58" \in Requirements
      BY <2>13, Zenon DEF TestFor, Requirements
    <3>2. PICK x : x.item = "accountBase58" /\ Verify(on, x, c) = Fine
      BY <2>5, <3>1
    <3>3. Verify(on, x, c) = AccountBase58Validator(c)
      BY <3>2, Zenon DEF Verify
    <3>4. PartOf(part, d) = IF Is("string", d) THEN FromValidated(d, AccountFromStringStrict, Account) ELSE Passed(Unset)
      BY <2>13, Zenon DEF PartOf
    <3>5. Present(c) => FromValidated(d, AccountFromStringStrict, Account).error = Fine
      BY <2>2, <2>3, <3>2, <3>3, TextsVouchedFor
    <3> QED
      BY <1>1, <2>2, <2>4, <3>4, <3>5
  <2>14. CASE part = "optional hash256"
    <3>1. TestFor(part) = "uint256Hex" /\ "uint256Hex" \in Requirements
      BY <2>14, Zenon DEF TestFor, Requirements
    <3>2. PICK x : x.item = "uint256Hex" /\ Verify(on, x, c) = Fine
      BY <2>5, <3>1
    <3>3. Verify(on, x, c) = HexStringValidator(256, c)
      BY <3>2, HexItems
    <3>4. PartOf(part, d) = IF Is("string", d) THEN FromValidated(d, Hex256Of, Hash) ELSE Passed(Unset)
      BY <2>14, Zenon DEF PartOf
    <3>5. Present(c) => FromValidated(d, Hex256Of, Hash).error = Fine
      BY <2>2, <2>3, <3>2, <3>3, DigitsVouchedFor
    <3> QED
      BY <1>1, <2>2, <2>4, <3>4, <3>5
  <2>15. CASE part = "optional credentials"
    <3>1. TestFor(part) = "authorizeCredential" /\ "authorizeCredential" \in Requirements
      BY <2>15, Zenon DEF TestFor, Requirements
    <3>2. PICK x : x.item = "authorizeCredential" /\ Verify(on, x, c) = Fine
      BY <2>5, <3>1
    <3>3. Verify(on, x, c) = AuthorizeCredentialValidator(c)
      BY <3>2, Zenon DEF Verify
    <3>4. PartOf(part, d) = IF Is("array", d) THEN CredentialsOf(d) ELSE Passed(Unset)
      BY <2>15, Zenon DEF PartOf
    <3>5. Present(c) => CredentialsOf(d).error = Fine
      BY <2>2, <2>3, <3>2, <3>3, EntryPartsVouchedFor
    <3> QED
      BY <1>1, <2>2, <2>4, <3>4, <3>5
  <2> QED
    BY <1>4, <2>6, <2>7, <2>8, <2>9, <2>10, <2>11, <2>12, <2>13, <2>14, <2>15 DEF OptionalParts, NeededParts
<1> QED
  BY <1>2, <1>3, <1>4 DEF PartVouchedFor

\* A part that a section has looked at is read.
LEMMA SectionPartSafe ==
  ASSUME NEW on, NEW items, NEW parts, NEW kinds, PartsVouchedFor(on, items, parts, kinds),
         NEW v, JsonPart(v), Is("object", v), NEW w, SectionDone(on, PartsOf(on, items), v, w),
         NEW key \in DOMAIN parts
  PROVE  PartOf(parts[key], Child(w, key)).error # "threw"
<1>1. PICK p \in PartsOf(on, items) : p.key = key /\ PartVouchedFor(parts[key], p.tests)
  BY DEF PartsVouchedFor
<1>2. PartDone(on, p, Child(v, key), Child(w, key))
  BY <1>1 DEF SectionDone
<1>3. Child(v, key) = Absent \/ JsonLeaf(Child(v, key))
  BY DEF Child, JsonPart, IsJson, Is
<1> QED
  BY <1>1, <1>2, <1>3, PartSafe DEF PartDone

\* What an object is assembled from does not throw unless one of its parts does.
LEMMA AssembledSafe ==
  ASSUME NEW parts, \A key \in DOMAIN parts : parts[key].error # "threw"
  PROVE  Assembled(parts).error # "threw"
  BY DEF Assembled, Passed, Fine

\* A text in the place of an entry is passed on as it was tested (ledger_entry).
LEMMA EntryText ==
  ASSUME NEW on \in Servers, NEW items, NEW parts, NEW kinds, PartsVouchedFor(on, items, parts, kinds),
         NEW v, JsonPart(v), RunProcessors(on, items, v).error = Fine, Is("string", v)
  PROVE  RunProcessors(on, items, v).value = v /\ Pass(on, TextTests(on, items), v)
<1>1. /\ SectionDone(on, PartsOf(on, items), v, RunProcessors(on, items, v).value)
      /\ Pass(on, TextTests(on, items), v)
  BY ItemsRun DEF PartsVouchedFor
<1> QED
  BY <1>1 DEF SectionDone, Is

\* The parts of an object that a section has looked at are read (the entry types of
\* ledger_entry, a bridge, the marker of account_lines), and a text is what was tested.
LEMMA EntrySafe ==
  ASSUME NEW on \in Servers, NEW items, NEW parts, NEW kinds, PartsVouchedFor(on, items, parts, kinds),
         NEW v, JsonPart(v), RunProcessors(on, items, v).error = Fine
  PROVE  LET w == RunProcessors(on, items, v).value
         IN /\ kinds = {"object"} \/ kinds = {"string", "object"} =>
                 /\ (Is("string", v) /\ kinds = {"string", "object"}) \/ Is("object", v)
                 /\ Is("object", v) =>
                      /\ Is("object", w)
                      /\ Assembled([key \in DOMAIN parts |-> PartOf(parts[key], Child(w, key))]).error # "threw"
            /\ Is("string", v) => w = v /\ Pass(on, TextTests(on, items), v)
<1> DEFINE w == RunProcessors(on, items, v).value
<1>1. /\ Pass(on, HeadingTests(on, items), v) /\ SectionDone(on, PartsOf(on, items), v, w)
      /\ Is("string", v) => Pass(on, TextTests(on, items), v)
  BY ItemsRun DEF PartsVouchedFor
<1> HIDE DEF w
<1>2. \E kind \in kinds : Is(kind, v)
  BY <1>1, TypeHolds, ArraysOfRequest DEF PartsVouchedFor
<1>3. ASSUME Is("object", v)
      PROVE  /\ Is("object", w)
             /\ Assembled([key \in DOMAIN parts |-> PartOf(parts[key], Child(w, key))]).error # "threw"
  <2>1. \A key \in DOMAIN parts : PartOf(parts[key], Child(w, key)).error # "threw"
    BY <1>1, <1>3, SectionPartSafe
  <2>2. Is("object", w)
    BY <1>1, <1>3 DEF SectionDone
  <2> DEFINE read == [key \in DOMAIN parts |-> PartOf(parts[key], Child(w, key))]
  <2>3. \A key \in DOMAIN read : read[key].error # "threw"
    BY <2>1
  <2> HIDE DEF read
  <2>4. Assembled(read).error # "threw"
    BY <2>3, AssembledSafe
  <2> QED
    BY <2>2, <2>4 DEF read
<1>4. Is("string", v) => w = v
  BY <1>1 DEF SectionDone, Is
<1> QED
  BY <1>1, <1>2, <1>3, <1>4 DEF w

\* A side of a book that book_offers asks for is read.
LEMMA TakerSafe ==
  ASSUME NEW on \in Servers, NEW items, TakerVouchedFor(on, items), NEW v, JsonPart(v),
         RunProcessors(on, items, v).error = Fine, NEW amtErr, amtErr # "threw", NEW isrErr, isrErr # "threw"
  PROVE  TakerAssetConverter(on, amtErr, isrErr, RunProcessors(on, items, v).value).error # "threw"
<1> DEFINE w == RunProcessors(on, items, v).value
<1>1. /\ Pass(on, HeadingTests(on, items), v) /\ SectionDone(on, PartsOf(on, items), v, w)
  BY ItemsRun DEF TakerVouchedFor
<1> HIDE DEF w
<1>2. Present(v)
  BY ArraysOfRequest
<1>3. TakerValidator(on, v) = Fine
  <2>1. {"kTakerValidator"} \subseteq Requirements /\ \A x : x.item = "kTakerValidator" => LeafKeeps(x)
    BY DEF Requirements, LeafKeeps, Modifiers
  <2>2. PICK x : x.item = "kTakerValidator" /\ Verify(on, x, v) = Fine
    BY <1>1, <2>1, TestHolds DEF TakerVouchedFor
  <2>3. Verify(on, x, v) = TakerValidator(on, v)
    BY <2>2, Zenon DEF Verify
  <2> QED
    BY <2>2, <2>3
<1>4. on = "clio" => Is("object", v)
  BY <1>1, <1>2, TypeHolds DEF TakerVouchedFor
<1>5. /\ Present(Child(v, "currency")) => ~Present(Child(v, "mpt_issuance_id"))
      /\ Is("string", Child(v, "currency")) \/ Is("string", Child(v, "mpt_issuance_id"))
  BY <1>2, <1>3, <1>4, CodesDiffer DEF TakerValidator, Unless
<1>6. ASSUME NEW key
      PROVE  IF Present(Child(v, key)) THEN Child(w, key) = Child(v, key) ELSE ~Present(Child(w, key))
  <2>1. CASE ~Is("object", v)
    BY <1>1, <2>1 DEF SectionDone
  <2>2. CASE Is("object", v)
    <3>1. CASE key \notin {p.key : p \in PartsOf(on, items)}
      BY <1>1, <3>1 DEF SectionDone
    <3>2. CASE key \in {p.key : p \in PartsOf(on, items)}
      <4>1. PICK p \in PartsOf(on, items) : p.key = key
        BY <3>2
      <4>2. AllKeep(p.tests) /\ PartDone(on, p, Child(v, key), Child(w, key))
        BY <1>1, <2>2, <4>1 DEF SectionDone, TakerVouchedFor
      <4> QED
        BY <4>2 DEF PartDone, Left, AllKeep
    <3> QED
      BY <3>1, <3>2
  <2> QED
    BY <2>1, <2>2
<1>7. ASSUME on = "clio", Present(Child(v, "issuer"))
      PROVE  Is("string", Child(v, "issuer"))
  <2>1. PICK p \in PartsOf(on, items) : p.key = "issuer" /\ Has(p.tests, {"issuer"})
    BY <1>7 DEF TakerVouchedFor
  <2>2. AllKeep(p.tests) /\ Pass(on, p.tests, Child(v, "issuer"))
    BY <1>1, <1>4, <1>7, <2>1 DEF SectionDone, TakerVouchedFor, PartDone
  <2>3. {"issuer"} \subseteq Requirements /\ \A x \in p.tests : LeafKeeps(x)
    BY <2>2 DEF Requirements, AllKeep
  <2>4. PICK x : x.item = "issuer" /\ Verify(on, x, Child(v, "issuer")) = Fine
    BY <2>1, <2>2, <2>3, TestHolds
  <2>5. Verify(on, x, Child(v, "issuer")) = IssuerValidator(Child(v, "issuer"))
    BY <2>4, Zenon DEF Verify
  <2> QED
    BY <1>7, <2>4, <2>5, CodesDiffer DEF IssuerValidator, TextOf, Unless, ??
<1>8. \A x : Is("string", x) => Present(x)
  BY DEF Is, Present
<1>9. CASE Present(Child(w, "mpt_issuance_id"))
  <2>1. Present(Child(v, "mpt_issuance_id")) /\ Child(w, "mpt_issuance_id") = Child(v, "mpt_issuance_id")
    BY <1>6, <1>9
  <2> QED
    BY <1>5, <1>8, <1>9, <2>1 DEF TakerAssetConverter, ReadText, Wrapped, Passed, Failed, Fine, w
<1>10. CASE ~Present(Child(w, "mpt_issuance_id"))
  <2>1. Is("string", Child(w, "currency"))
    BY <1>5, <1>6, <1>8, <1>10
  <2>2. on = "clio" /\ Present(Child(w, "issuer")) => Is("string", Child(w, "issuer"))
    BY <1>6, <1>7
  <2> QED
    BY <1>10, <2>1, <2>2 DEF TakerAssetConverter, Passed, Failed, Unless, ??, Fine, w
<1> QED
  BY <1>9, <1>10

\* The converters that need more than one test, by name.
LEMMA NamesOfConverters ==
  ASSUME NEW on, NEW conv, NEW v
  PROVE  /\ conv.conv = "int32Bound" => ConverterNamed(on, conv, v) = Int32BoundConverter(v)
         /\ conv.conv = "hotWalletConv" => ConverterNamed(on, conv, v) = HotWalletConverter(v)
         /\ conv.conv = "oraclesConv" => ConverterNamed(on, conv, v) = OraclesConverter(on, v)
         /\ conv.conv = "takerPaysConv" =>
              ConverterNamed(on, conv, v) = TakerAssetConverter(on, "srcCurMalformed", "srcIsrMalformed", v)
         /\ conv.conv = "takerGetsConv" =>
              ConverterNamed(on, conv, v) = TakerAssetConverter(on, "dstAmtMalformed", "dstIsrMalformed", v)
         /\ conv.conv = "markerConv" => ConverterNamed(on, conv, v) = MarkerConverter(v)
         /\ conv.conv = "entry" => ConverterNamed(on, conv, v) = EntryConverter(conv.parts, v)
         /\ conv.conv = "bridgeConv" => ConverterNamed(on, conv, v) = BridgeConverter(v)
  BY Zenon DEF ConverterNamed

\* A bound of a range of ledgers is a number, as sent or as clampAs left it.
LEMMA BoundSafe ==
  ASSUME NEW on \in Servers, NEW items, Simple(items), HasType(TestsOf(on, items), {"int64"}),
         OnlyRewrites(TestsOf(on, items), "clampAs"), NEW v, v = Absent \/ JsonPart(v),
         RunProcessors(on, items, v).error = Fine, NEW w, w = RunProcessors(on, items, v).value, Present(w)
  PROVE  Int32BoundConverter(w).error # "threw"
<1>1. /\ Pass(on, TestsOf(on, items), v) /\ Left(on, TestsOf(on, items), v, w)
  BY ItemsRun
<1>2. w = v \/ w = ClampAs(v).value
  <2>1. ASSUME NEW x, x.item = "clampAs" PROVE ~LeafKeeps(x) /\ Leaf(on, x, v) = ClampAs(v)
    <3>1. ~LeafKeeps(x)
      BY <2>1 DEF LeafKeeps, Modifiers
    <3>2. Modify(x, v) = ClampAs(v)
      BY <2>1, Zenon DEF Modify
    <3> QED
      BY <3>1, <3>2, LeafResult
  <2> QED
    BY <1>1, <2>1 DEF Left, OnlyRewrites
<1>3. v # Absent
  BY <1>2 DEF ClampAs, Passed, IsInt64, Kind, Absent, Present
<1>4. Is("int64", v)
  <2>1. Present(v)
    BY <1>3, ArraysOfRequest
  <2>2. \E kind \in {"int64"} : Is(kind, v)
    BY <1>1, <2>1, TypeHolds
  <2> QED
    BY <2>2
<1>5. Kind(w) \in {"int64", "uint64"}
  BY <1>2, <1>4, Written DEF ClampAs, Passed, Is, IsInt64
<1> QED
  BY <1>5 DEF Int32BoundConverter, Passed, Fine

\* A list of what a converter makes of each element throws only if one of them does.
LEMMA WalletsSafe ==
  ASSUME NEW v, NEW Elements, IsArrayOf(v, Elements)
  PROVE  HotWalletConverter(v).error # "threw"
<1> DEFINE arr == IF Is("string", v) THEN Array(<<v>>) ELSE v
           read(e) == ReadText(e, AccountFromStringStrict, Account, "invalidParams", "invalidParams")
           results == [i \in 1..ArraySize(arr) |-> read(arr.array[i])]
           failed  == {i \in DOMAIN results : results[i].error # Fine}
           wallets == IF failed = {} THEN Passed(Vec([i \in DOMAIN results |-> results[i].value]))
                      ELSE results[CHOOSE i \in failed : \A j \in failed : i =< j]
<1>1. \A e : read(e).error # "threw"
  BY DEF ReadText, Wrapped, Passed, Failed, Fine
<1>2. failed \in SUBSET Nat
  <2>1. ArraySize(arr) \in Nat
    <3>1. CASE Is("string", v)
      BY <3>1, Written DEF ArraySize, Is
    <3>2. CASE ~Is("string", v)
      BY <3>2 DEF ArraySize, IsArrayOf
    <3> QED
      BY <3>1, <3>2
  <2> QED
    BY <2>1
<1>3. failed # {} => (CHOOSE i \in failed : \A j \in failed : i =< j) \in failed
  <2> HIDE DEF failed
  <2> QED
    BY <1>2, FirstOfSome
<1>4. wallets.error # "threw"
  <2>1. CASE failed = {}
    BY <2>1 DEF Passed, Fine
  <2>2. CASE failed # {}
    BY <1>1, <1>3, <2>2
  <2> QED
    BY <2>1, <2>2
<1>5. HotWalletConverter(v) = IF wallets.error # Fine THEN wallets
                              ELSE Passed([wallets |-> {wallets.value.list[i] : i \in DOMAIN wallets.value.list}])
  BY DEF HotWalletConverter, ListOf
<1> HIDE DEF wallets
<1> QED
  BY <1>4, <1>5 DEF Passed, Fine

\* The oracles as xrpld reads them: what is wrong with one is left to the handler.
LEMMA XrpldOraclesSafe ==
  ASSUME NEW v, NEW Elements, IsArrayOf(v, Elements)
  PROVE  OraclesConverter("xrpld", v).error # "threw"
<1> DEFINE docId(e)   == Child(e, "oracle_document_id")
           account(e) == Child(e, "account")
           holder(e)  == ReadText(account(e), LAMBDA t : IF ParseBase58Account(t) = XrpAccount THEN NoText
                                                         ELSE ParseBase58Account(t),
                                  Account, "invalid", "invalid")
           oracle(e)  ==
             IF ~(Present(docId(e)) /\ Present(account(e))) THEN Failed("malformed")
             ELSE Assembled([oracle_document_id |-> DocumentId(docId(e)), account |-> holder(e)])
           results == [i \in 1..ArraySize(v) |-> oracle(v.array[i])]
           failed  == {i \in DOMAIN results : results[i].error # Fine}
           oracles == IF failed = {} THEN Passed(Vec([i \in DOMAIN results |-> results[i].value]))
                      ELSE results[CHOOSE i \in failed : \A j \in failed : i =< j]
<1>1. ASSUME NEW e PROVE oracle(e).error # "threw"
  <2>1. holder(e).error # "threw"
    BY DEF ReadText, Wrapped, Passed, Failed, Fine
  <2>2. DocumentId(docId(e)).error # "threw"
    <3>1. CASE IsUint32(docId(e))
      BY <3>1 DEF DocumentId, AsUint32, IsUint32, Passed, Fine
    <3>2. CASE ~IsUint32(docId(e)) /\ Is("string", docId(e)) /\ LexicalUint32Modifier(docId(e)).error = Fine
      <4>1. PICK n \in 0..MaxUint32 : AsUint32(LexicalUint32Modifier(docId(e)).value) = Passed(UInt(n))
        BY <3>2, SpelledNumbersAreExact
      <4> QED
        BY <3>2, <4>1 DEF DocumentId, Passed, Fine
    <3>3. CASE ~IsUint32(docId(e)) /\ ~(Is("string", docId(e)) /\ LexicalUint32Modifier(docId(e)).error = Fine)
      BY <3>3 DEF DocumentId, Failed
    <3> QED
      BY <3>1, <3>2, <3>3
  <2> HIDE DEF docId, holder, account
  <2> DEFINE parts == [oracle_document_id |-> DocumentId(docId(e)), account |-> holder(e)]
  <2>3. \A key \in DOMAIN parts : parts[key].error # "threw"
    BY <2>1, <2>2
  <2>4. Assembled(parts).error # "threw"
    <3> HIDE DEF parts
    <3> QED
      BY <2>3, AssembledSafe
  <2> QED
    BY <2>4 DEF Failed
<1> HIDE DEF oracle
<1>2. failed \in SUBSET Nat
  BY DEF ArraySize, IsArrayOf
<1>3. failed # {} => (CHOOSE i \in failed : \A j \in failed : i =< j) \in failed
  <2> HIDE DEF failed
  <2> QED
    BY <1>2, FirstOfSome
<1>4. oracles.error # "threw"
  <2>1. CASE failed = {}
    BY <2>1 DEF Passed, Fine
  <2>2. CASE failed # {}
    BY <1>1, <1>3, <2>2
  <2> QED
    BY <2>1, <2>2
<1>5. OraclesConverter("xrpld", v) = IF oracles.error \in {"malformed", "invalid"}
                                     THEN Passed(Deferred(oracles.error)) ELSE oracles
  BY SMTT(60) DEF OraclesConverter, ListOf, oracle
<1> HIDE DEF oracles
<1> QED
  BY <1>4, <1>5 DEF Passed, Fine

\* The oracles are read as the validator of Clio rewrote them, or on xrpld as they were sent.
LEMMA OraclesSafe ==
  ASSUME NEW on \in Servers, NEW items, Simple(items), NEW v, v = Absent \/ JsonPart(v),
         IF on = "clio" THEN /\ Has(TestsOf(on, items), {"kOraclesValidator"})
                             /\ OnlyRewrites(TestsOf(on, items), "kOraclesValidator")
         ELSE AllKeep(TestsOf(on, items)),
         RunProcessors(on, items, v).error = Fine, NEW w, w = RunProcessors(on, items, v).value, Present(w)
  PROVE  OraclesConverter(on, w).error # "threw"
<1>1. /\ Pass(on, TestsOf(on, items), v) /\ Left(on, TestsOf(on, items), v, w)
  BY ItemsRun
<1>2. CASE on = "clio"
  <2>1. ASSUME NEW x, x.item = "kOraclesValidator" PROVE ~LeafKeeps(x) /\ Leaf(on, x, v) = OraclesValidator(v)
    <3>1. ~LeafKeeps(x)
      BY <2>1 DEF LeafKeeps, Modifiers
    <3>2. Modify(x, v) = OraclesValidator(v)
      BY <2>1, Zenon DEF Modify
    <3> QED
      BY <3>1, <3>2, LeafResult
  <2>2. w = OraclesValidator(v).value /\ OraclesValidator(v).error = Fine
    <3>1. ~AllKeep(TestsOf(on, items))
      BY <1>2, <2>1 DEF Has, AllKeep
    <3>2. PICK x \in TestsOf(on, items) : ~LeafKeeps(x) /\ w = Leaf(on, x, v).value
      BY <1>1, <3>1 DEF Left
    <3>3. x.item = "kOraclesValidator" /\ Leaf(on, x, v).error = Fine
      BY <1>1, <1>2, <3>2 DEF OnlyRewrites, Pass
    <3> QED
      BY <2>1, <3>2, <3>3
  <2>3. v # Absent
    BY <2>2 DEF OraclesValidator, Passed, Present, Kind, Absent
  <2> QED
    BY <1>2, <2>2, <2>3, ArraysOfRequest, OraclesVouchedFor DEF Fine
<1>3. CASE on = "xrpld"
  <2>1. w = v
    BY <1>1, <1>3 DEF Left, AllKeep
  <2>2. v # Absent
    BY <2>1 DEF Present, Kind, Absent
  <2> QED
    BY <1>3, <2>1, <2>2, ArraysOfRequest, XrpldOraclesSafe
<1> QED
  BY <1>2, <1>3 DEF Servers

\* The converter of a field does not throw on what the items of the field have let pass.
LEMMA ConvertSafe ==
  ASSUME NEW on \in Servers, NEW items, NEW conv, VouchedFor(on, items, conv),
         NEW v, v = Absent \/ JsonPart(v), RunProcessors(on, items, v).error = Fine,
         NEW w, w = RunProcessors(on, items, v).value, Present(w)
  PROVE  Convert(on, conv, w).error # "threw"
<1> DEFINE name == conv.conv
<1>1. SUFFICES ConverterNamed(on, conv, w).error # "threw"
  BY DEF Convert, Passed, Fine
<1>2. ASSUME w = v PROVE JsonPart(v) /\ Present(v) /\ IsArrayOf(v, {v.array[i] : i \in DOMAIN v.array})
  BY <1>2, ArraysOfRequest DEF Present, Kind, Absent
<1>3. CASE name \in SelfGuarded
  BY <1>3, SelfGuardedSafe
<1>4. CASE name = "hotWalletConv" /\ KeepsAll(items)
  <2>1. w = v
    BY <1>4, ItemsRun
  <2>2. ConverterNamed(on, conv, w) = HotWalletConverter(w)
    BY <1>4, NamesOfConverters
  <2> QED
    BY <1>2, <2>1, <2>2, WalletsSafe
<1>5. CASE name \in DOMAIN TestsFor /\ KeepsAll(items) /\ Has(TestsOf(on, items), TestsFor[name])
  <2>1. w = v /\ AllKeep(TestsOf(on, items)) /\ Pass(on, TestsOf(on, items), v)
    BY <1>5, ItemsRun
  <2>2. TestsFor[name] \subseteq Requirements
    <3> DEFINE relied == { "accountIdArray", "kSubscribeAccountsValidator", "uint192Array", "hex256Array",
                           "kSubscribeStreamValidator", "subscribe kBooksValidator",
                           "unsubscribe kBooksValidator", "timeFormat", "accountMarker",
                           "kDelegateValidator", "oneOf" }
    <3>1. relied \subseteq Requirements
      BY DEF Requirements
    <3>2. /\ TestsFor["asAccountIdVec"] = {"accountIdArray", "kSubscribeAccountsValidator"}
          /\ TestsFor["asUint192Vec"] = {"uint192Array"}
          /\ TestsFor["credentialsArrayConv"] = {"hex256Array"}
          /\ TestsFor["streamVecConv"] = {"kSubscribeStreamValidator"}
          /\ TestsFor["subscribeBooksConv"] = {"subscribe kBooksValidator"}
          /\ TestsFor["unsubscribeBooksConv"] = {"unsubscribe kBooksValidator"}
          /\ TestsFor["dateConv"] = {"timeFormat"}
          /\ TestsFor["markerStringConv"] = {"accountMarker"}
          /\ TestsFor["delegateConv"] = {"kDelegateValidator"}
          /\ TestsFor["roleGateway"] = {"oneOf"}
      BY DEF TestsFor
    <3>3. DOMAIN TestsFor = { "asAccountIdVec", "asUint192Vec", "credentialsArrayConv", "streamVecConv",
                              "subscribeBooksConv", "unsubscribeBooksConv", "dateConv",
                              "markerStringConv", "delegateConv", "roleGateway" }
      BY DEF TestsFor
    <3>4. \A n \in DOMAIN TestsFor : TestsFor[n] \subseteq relied
      <4>1. /\ TestsFor["asAccountIdVec"] \subseteq relied /\ TestsFor["asUint192Vec"] \subseteq relied
            /\ TestsFor["credentialsArrayConv"] \subseteq relied
        BY <3>2
      <4>2. /\ TestsFor["streamVecConv"] \subseteq relied /\ TestsFor["subscribeBooksConv"] \subseteq relied
            /\ TestsFor["unsubscribeBooksConv"] \subseteq relied
        BY <3>2
      <4>3. /\ TestsFor["dateConv"] \subseteq relied /\ TestsFor["markerStringConv"] \subseteq relied
            /\ TestsFor["delegateConv"] \subseteq relied /\ TestsFor["roleGateway"] \subseteq relied
        BY <3>2
      <4> HIDE DEF relied
      <4> QED
        BY <3>3, <4>1, <4>2, <4>3
    <3> HIDE DEF relied
    <3> QED
      BY <1>5, <3>1, <3>4
  <2>3. PICK x : x.item \in TestsFor[name] /\ Verify(on, x, v) = Fine
    BY <1>5, <2>1, <2>2, TestHolds DEF AllKeep
  <2> QED
    BY <1>2, <1>5, <2>1, <2>3, OneTestSafe
<1>6. CASE name = "int32Bound" /\ Simple(items) /\ HasType(TestsOf(on, items), {"int64"})
             /\ OnlyRewrites(TestsOf(on, items), "clampAs")
  BY <1>6, BoundSafe, NamesOfConverters
<1>7. CASE /\ name = "oraclesConv" /\ Simple(items)
           /\ IF on = "clio" THEN /\ Has(TestsOf(on, items), {"kOraclesValidator"})
                                  /\ OnlyRewrites(TestsOf(on, items), "kOraclesValidator")
              ELSE AllKeep(TestsOf(on, items))
  <2>1. OraclesConverter(on, w).error # "threw"
    BY <1>7, OraclesSafe
  <2> QED
    BY <1>7, <2>1, NamesOfConverters
<1>8. ASSUME Sectioned(items) PROVE JsonPart(v)
  <2>1. ~Is("object", v) => w = v
    BY <1>8, ItemsRun DEF SectionDone
  <2> QED
    BY <2>1 DEF Is, Present, Kind, Absent
<1>9. CASE name \in {"takerPaysConv", "takerGetsConv"} /\ TakerVouchedFor(on, items)
  <2>1. JsonPart(v)
    BY <1>8, <1>9 DEF TakerVouchedFor
  <2>2. /\ TakerAssetConverter(on, "srcCurMalformed", "srcIsrMalformed", w).error # "threw"
        /\ TakerAssetConverter(on, "dstAmtMalformed", "dstIsrMalformed", w).error # "threw"
    BY <1>9, <2>1, TakerSafe
  <2> QED
    BY <1>9, <2>2, NamesOfConverters
<1>10. ASSUME NEW parts, PartsVouchedFor(on, items, parts, {"object"})
       PROVE  Assembled([key \in DOMAIN parts |-> PartOf(parts[key], Child(w, key))]).error # "threw"
  <2>1. JsonPart(v)
    BY <1>8, <1>10 DEF PartsVouchedFor
  <2>2. {"object"} # {"string", "object"}
    OBVIOUS
  <2> QED
    BY <1>10, <2>1, <2>2, EntrySafe
<1>11. CASE name = "markerConv" /\ PartsVouchedFor(on, items, [ledger |-> "uint32", seq |-> "uint32"], {"object"})
  <2> DEFINE parts == [ledger |-> "uint32", seq |-> "uint32"]
  <2>1. Assembled([key \in DOMAIN parts |-> PartOf(parts[key], Child(w, key))]).error # "threw"
    <3> HIDE DEF parts
    <3> QED
      BY <1>10, <1>11 DEF parts
  <2>2. \A x : PartOf("uint32", x) = AsUint32(x)
    BY Zenon DEF PartOf
  <2>3. [key \in DOMAIN parts |-> PartOf(parts[key], Child(w, key))]
          = [ledger |-> AsUint32(Child(w, "ledger")), seq |-> AsUint32(Child(w, "seq"))]
    BY <2>2
  <2> QED
    BY <1>11, <2>1, <2>3, NamesOfConverters DEF MarkerConverter
<1>12. CASE name = "bridgeConv" /\ PartsVouchedFor(on, items, BridgeParts, {"object"})
  <2>1. BridgeConverter(w).error # "threw"
    BY <1>10, <1>12 DEF BridgeConverter
  <2> QED
    BY <1>12, <2>1, NamesOfConverters
<1>13. CASE /\ name = "entry" /\ PartsVouchedFor(on, items, conv.parts, {"string", "object"})
            /\ Has(TextTests(on, items), {"uint256Hex"})
  <2>1. JsonPart(v)
    BY <1>8, <1>13 DEF PartsVouchedFor
  <2>2. ConverterNamed(on, conv, w) = EntryConverter(conv.parts, w)
    BY <1>13, NamesOfConverters
  <2>3. CASE Is("string", v)
    <3>1. w = v /\ Pass(on, TextTests(on, items), v)
      <4>1. PartsVouchedFor(on, items, conv.parts, {"string", "object"})
        BY <1>13
      <4> QED
        BY <2>1, <2>3, <4>1, EntryText
    <3>2. {"uint256Hex"} \subseteq Requirements /\ \A x : x.item = "uint256Hex" => LeafKeeps(x)
      BY DEF Requirements, LeafKeeps, Modifiers
    <3>3. PICK x : x.item = "uint256Hex" /\ Verify(on, x, v) = Fine
      BY <1>13, <3>1, <3>2, TestHolds
    <3>4. Verify(on, x, v) = HexStringValidator(256, v)
      BY <3>3, HexItems
    <3>5. FromValidated(w, Hex256Of, Hash).error = Fine
      BY <1>2, <3>1, <3>3, <3>4, DigitsVouchedFor
    <3> QED
      BY <2>2, <2>3, <3>1, <3>5 DEF EntryConverter, Fine
  <2>4. CASE ~Is("string", v)
    <3>1. /\ Is("object", w)
          /\ Assembled([key \in DOMAIN conv.parts |-> PartOf(conv.parts[key], Child(w, key))]).error # "threw"
      BY <1>13, <2>1, <2>4, EntrySafe
    <3>2. ~Is("string", w)
      BY <3>1 DEF Is
    <3> QED
      BY <2>2, <3>1, <3>2 DEF EntryConverter
  <2> QED
    BY <2>3, <2>4
<1> QED
  BY <1>3, <1>4, <1>5, <1>6, <1>7, <1>9, <1>11, <1>12, <1>13 DEF VouchedFor

-----------------------------------------------------------------------------
\* A converter that leaves no member unset.
LEMMA ConvertersPopulate ==
  ASSUME NEW on, NEW conv, conv.conv \in Populating, "empty" \notin DOMAIN conv, NEW v,
         Convert(on, conv, v).error = Fine
  PROVE  Convert(on, conv, v).value # Unset
<1>1. Convert(on, conv, v) = ConverterNamed(on, conv, v)
  BY DEF Convert
<1>2. \A x : /\ Account(x) # Unset /\ UInt(x) # Unset /\ Hash(x) # Unset
             /\ Str(x) # Unset /\ Deferred(x) # Unset
  BY DEF Account, UInt, Hash, Str, Deferred, Unset
<1>3. /\ \A x : Passed(x).value = x
      /\ Failed("invalidParams").error # Fine /\ Failed("actMalformed").error # Fine
      /\ Failed("threw").error # Fine
  BY DEF Passed, Failed, Fine
<1>4. /\ AccountIdConverter(on, v).error = Fine => AccountIdConverter(on, v).value # Unset
      /\ AccountIdConverter("xrpld", v).error = Fine => AccountIdConverter("xrpld", v).value # Unset
      /\ AccountIdActMalformedConverter(v).error = Fine => AccountIdActMalformedConverter(v).value # Unset
      /\ \A bits : HexConverterBase(bits, v).error = Fine => HexConverterBase(bits, v).value # Unset
      /\ CurrencyConverter(v).error = Fine => CurrencyConverter(v).value # Unset
  BY <1>2, <1>3 DEF AccountIdConverter, AccountIdActMalformedConverter, HexConverterBase, CurrencyConverter,
                    ReadText, Wrapped
<1>5. Uint32Converter(v).error = Fine => Uint32Converter(v).value # Unset
  BY <1>2, <1>3 DEF Uint32Converter, AsUint32, Threw
<1>6. ASSUME NEW clioResult, clioResult.error = Fine => clioResult.value # Unset, NEW nonString
      PROVE  DeferredAccountId(on, clioResult, nonString, v).error = Fine
               => DeferredAccountId(on, clioResult, nonString, v).value # Unset
  BY <1>2, <1>3, <1>4, <1>6 DEF DeferredAccountId
<1>7. /\ conv.conv = "accountId" => ConverterNamed(on, conv, v) = AccountIdConverter(on, v)
      /\ conv.conv = "accountIdActMalformed" => ConverterNamed(on, conv, v) = AccountIdActMalformedConverter(v)
      /\ conv.conv = "linesAccount" => ConverterNamed(on, conv, v) = LinesAccount(on, v)
      /\ conv.conv = "deferredAccountId" =>
           ConverterNamed(on, conv, v) = DeferredAccountId(on, AccountIdConverter(on, v), "fails", v)
  BY Zenon DEF ConverterNamed
<1>8. /\ conv.conv = "asUint32" => ConverterNamed(on, conv, v) = Uint32Converter(v)
      /\ conv.conv = "asUint192" => ConverterNamed(on, conv, v) = HexConverterBase(192, v)
      /\ conv.conv = "asUint256" => ConverterNamed(on, conv, v) = HexConverterBase(256, v)
      /\ conv.conv = "currencyConv" => ConverterNamed(on, conv, v) = CurrencyConverter(v)
  <2>1. /\ conv.conv = "asUint32" => ConverterNamed(on, conv, v) = Uint32Converter(v)
        /\ conv.conv = "currencyConv" => ConverterNamed(on, conv, v) = CurrencyConverter(v)
    BY Zenon DEF ConverterNamed
  <2>2. conv.conv = "asUint192" => ConverterNamed(on, conv, v) = HexConverterBase(192, v)
    BY SMTT(30) DEF ConverterNamed
  <2>3. conv.conv = "asUint256" => ConverterNamed(on, conv, v) = HexConverterBase(256, v)
    BY SMTT(30) DEF ConverterNamed
  <2> QED
    BY <2>1, <2>2, <2>3
<1>9. CASE conv.conv \in {"linesAccount", "deferredAccountId"}
  BY <1>1, <1>4, <1>6, <1>7, <1>9 DEF LinesAccount
<1>10. CASE conv.conv \in {"accountId", "accountIdActMalformed", "asUint32", "asUint192", "asUint256",
                           "currencyConv"}
  BY <1>1, <1>4, <1>5, <1>7, <1>8, <1>10
<1> QED
  BY <1>9, <1>10 DEF Populating

\* A field whose items keep it and require it is there behind them.
LEMMA RequiredThere ==
  ASSUME NEW on \in Servers, NEW items, KeepsAll(items), NEW v, RunProcessors(on, items, v).error = Fine
  PROVE  /\ RunProcessors(on, items, v).value = v
         /\ Has(TestsOf(on, items), {"required"}) => Present(v)
  BY ItemsRun, RequiredHolds

\* The number of a converted 32-bit integer is the one that was read.
LEMMA NumberConverted ==
  ASSUME NEW on, NEW v, Convert(on, as("asUint32"), v).error = Fine
  PROVE  /\ Is("uint32", v) /\ Number(v) \in 0..MaxUint32
         /\ Convert(on, as("asUint32"), v).value = UInt(Number(v))
<1>1. as("asUint32").conv = "asUint32" /\ "empty" \notin DOMAIN as("asUint32")
  BY DEF as
<1>2. ConverterNamed(on, as("asUint32"), v) = Uint32Converter(v)
  BY <1>1, Zenon DEF ConverterNamed
<1>3. Convert(on, as("asUint32"), v) = Uint32Converter(v)
  BY <1>1, <1>2 DEF Convert
<1>4. IsUint32(v) /\ Uint32Converter(v) = AsUint32(v)
  <2>1. Uint32Converter(v).error = Fine
    BY <1>3
  <2>2. Failed("invalidParams").error # Fine
    BY DEF Failed, Fine
  <2> QED
    BY <2>1, <2>2, Zenon DEF Uint32Converter
<1>5. Number(v) \in 0..MaxUint32 /\ Number(v) % (MaxUint32 + 1) = Number(v)
  BY <1>4, WidthsGrow DEF IsUint32, Number
<1>6. AsUint32(v).value = UInt(Number(v))
  BY <1>4, <1>5 DEF AsUint32, Passed, IsUint32
<1>7. Is("uint32", v)
  BY <1>4 DEF Is
<1>8. Convert(on, as("asUint32"), v).value = UInt(Number(v))
  BY <1>3, <1>4, <1>6, Zenon
<1> QED
  BY <1>5, <1>7, <1>8

\* A 32-bit number, if it is one, lies in a range.
Within(range, v) == Is("uint32", v) => Number(v) \in range

\* A leaf that bounds a number does.
LEMMA LeafWithin ==
  ASSUME NEW on, NEW range \in SUBSET Int, NEW item, Bounds(range, item), NEW v, Leaf(on, item, v).error = Fine
  PROVE  Within(range, Leaf(on, item, v).value)
<1>1. ASSUME NEW x, Is("uint32", x) PROVE Number(x) \in 0..MaxUint32 /\ NumericValue("uint32", x) = {Number(x)}
  BY <1>1 DEF Is, IsUint32, Number, NumericValue
<1>2. CASE item.item = "clamp" /\ {item.lo, item.hi} \subseteq range /\ item.lo..item.hi \subseteq range
  <2>1. Leaf(on, item, v) = Modify(item, v)
    BY <1>2, LeafResult DEF LeafKeeps, Modifiers
  <2>2. Modify(item, v) = Clamp("uint32", item.lo, item.hi, v)
    BY <1>2, Zenon DEF Modify
  <2>3. CASE Is("uint32", v)
    <3>1. item.lo \in Int /\ item.hi \in Int
      BY <1>2
    <3>2. Number(v) \in Int
      BY <1>1, <2>3, WidthsGrow
    <3> DEFINE n == Clamped(Number(v), item.lo, item.hi)
    <3>3. Clamp("uint32", item.lo, item.hi, v).value = Unsigned(n)
      BY <2>3 DEF Clamp, Passed, SetNumber
    <3>4. n \in range
      BY <1>2, <3>1, <3>2 DEF Clamped
    <3> HIDE DEF n
    <3>5. Number(Unsigned(n)) = n
      BY Written
    <3> QED
      BY <2>1, <2>2, <3>3, <3>4, <3>5 DEF Within
  <2>4. CASE ~Is("uint32", v)
    <3>1. Clamp("uint32", item.lo, item.hi, v).value = v
      BY <2>4 DEF Clamp, Passed
    <3> QED
      BY <2>1, <2>2, <2>4, <3>1 DEF Within
  <2> QED
    BY <2>3, <2>4
<1>3. CASE item.item = "min" /\ item.bound \in range /\ item.bound..MaxUint32 \subseteq range
  <2>1. LeafKeeps(item) /\ item.item \notin Markers
    BY <1>3 DEF LeafKeeps, Modifiers, Markers
  <2>2. Leaf(on, item, v).value = v /\ Leaf(on, item, v).error = Verify(on, item, v)
    BY <2>1, LeafResult
  <2>3. Verify(on, item, v) = Min("uint32", item.bound, v)
    BY <1>3, Zenon DEF Verify
  <2>4. ASSUME Is("uint32", v) PROVE Number(v) \in range
    <3>1. Number(v) >= item.bound
      <4>1. Min("uint32", item.bound, v) = Fine
        BY <2>2, <2>3
      <4>2. \A n \in {Number(v)} : n >= item.bound
        BY <1>1, <2>4, <4>1 DEF Min, Unless, Fine
      <4> QED
        BY <4>2
    <3>2. Number(v) \in 0..MaxUint32 /\ item.bound \in Int /\ MaxUint32 \in Nat
      BY <1>1, <1>3, <2>4, WidthsGrow
    <3> QED
      BY <1>3, <3>1, <3>2
  <2> QED
    BY <2>2, <2>4 DEF Within
<1> QED
  BY <1>2, <1>3 DEF Bounds

\* So does a list of leaves that ends with one.
LEMMA LeavesWithin ==
  ASSUME NEW on, NEW range \in SUBSET Int, NEW items, LeavesBounded(range, items), NEW v,
         Nested2!RunProcessors(on, items, v).error = Fine
  PROVE  Within(range, Nested2!RunProcessors(on, items, v).value)
<1>1. At2!RunProcessors(on, items, v) = Nested2!RunProcessors(on, items, v)
  BY Zenon DEF At2!RunProcessors, Nested2!RunProcessors, At2!Process, Nested2!Process, At2!IfServer,
               Nested2!IfServer, At2!IfType, Nested2!IfType, At2!NestedField, Nested2!NestedField,
               At2!Section, Nested2!Section, At2!WithCustomError, Nested2!WithCustomError,
               At2!Through, Nested2!Through, At2!Passed, Nested2!Passed, At2!Failed, Nested2!Failed,
               At2!Fine, Nested2!Fine, At2!Is, Nested2!Is, At2!IsInt64, Nested2!IsInt64,
               At2!IsUint32, Nested2!IsUint32, At2!Kind, Nested2!Kind, At2!Child, Nested2!Child,
               At2!Stored, Nested2!Stored, At2!Object, Nested2!Object, At2!Present, Nested2!Present,
               At2!Absent, Nested2!Absent
<1>2. /\ \A i \in DOMAIN items : Shape3!IsLeaf(items[i])
      /\ Shape3!IsList(items)
  BY DEF LeavesBounded, EndsIn
<1>3. PICK i \in DOMAIN items :
        Bounds(range, items[i]) /\ \A j \in DOMAIN items : j > i => LeafKeeps(items[j])
  BY DEF LeavesBounded, EndsIn
<1>4. At2!IsList(items) /\ At2!Fine = Fine
  BY <1>2 DEF At2!IsList, Shape3!IsList, At2!Fine, Fine
<1>5. ASSUME NEW j \in DOMAIN items, NEW x PROVE At2!Process(on, items[j], x) = Leaf(on, items[j], x)
  <2>1. At2!IsLeaf(items[j])
    BY <1>2, Zenon DEF At2!IsLeaf, Shape3!IsLeaf, At2!Holders, Shape3!Holders
  <2> QED
    BY <2>1, At2!LeafRuns, WidthsGrow
<1>6. \A j \in DOMAIN items : j > i =>
        \A x : At2!Process(on, items[j], x).error = At2!Fine => At2!Process(on, items[j], x).value = x
  BY <1>3, <1>5, LeafResult
<1>7. PICK u : /\ At2!Process(on, items[i], u).error = At2!Fine
               /\ At2!RunProcessors(on, items, v).value = At2!Process(on, items[i], u).value
  BY <1>1, <1>4, <1>6, At2!LastWord, WidthsGrow
<1> QED
  BY <1>1, <1>3, <1>4, <1>5, <1>7, LeafWithin

\* And the items of a field, in whichever wrapper of its server the last word is said.
LEMMA ItemsWithin ==
  ASSUME NEW on \in Servers, NEW range \in SUBSET Int, NEW items, Bounded(on, range, items), NEW v,
         RunProcessors(on, items, v).error = Fine
  PROVE  Within(range, RunProcessors(on, items, v).value)
<1>1. At3!RunProcessors(on, items, v) = RunProcessors(on, items, v)
  BY Zenon DEF RunProcessors, At3!RunProcessors, Nested3!RunProcessors, At3!Process, Nested3!Process,
               At3!IfServer, Nested3!IfServer, At3!IfType, Nested3!IfType, At3!NestedField,
               Nested3!NestedField, At3!Section, Nested3!Section, At3!WithCustomError, Nested3!WithCustomError,
               At3!Through, Nested3!Through, At3!Passed, Nested3!Passed, At3!Failed, Nested3!Failed, At3!Fine,
               Nested3!Fine, At3!Is, Nested3!Is, At3!IsInt64, Nested3!IsInt64, At3!IsUint32, Nested3!IsUint32,
               At3!Kind, Nested3!Kind, At3!Child, Nested3!Child, At3!Stored, Nested3!Stored, At3!Object,
               Nested3!Object, At3!Present, Nested3!Present, At3!Absent, Nested3!Absent
<1> DEFINE isLast(item) ==
             \/ Bounds(range, item)
             \/ item.item = "ifServer" /\ item.server = on /\ LeavesBounded(range, item.items)
           isIdle(item) == Shape3!Keeps(item) \/ (item.item = "ifServer" /\ item.server # on)
<1>2. /\ Shape3!IsList(items)
      /\ \E i \in DOMAIN items : isLast(items[i]) /\ \A j \in DOMAIN items : j > i => isIdle(items[j])
  BY DEF Bounded, EndsIn
<1>3. PICK i \in DOMAIN items : isLast(items[i]) /\ \A j \in DOMAIN items : j > i => isIdle(items[j])
  BY <1>2
<1>4. At3!IsList(items) /\ At3!Fine = Fine
  BY <1>2 DEF At3!IsList, Shape3!IsList, At3!Fine, Fine
<1>5. At3!LeafKept /\ At3!InnerKept
  BY LeafResult, Level0, Level1, Level2 DEF At3!LeafKept, At3!Fine, Fine
<1>6. ASSUME NEW item, item.item = "ifServer", NEW x
      PROVE  At3!Process(on, item, x)
               = IF item.server = on THEN Nested2!RunProcessors(on, item.items, x) ELSE At3!Passed(x)
  <2>1. At3!Process(on, item, x) = At3!IfServer(on, item, x)
    BY <1>6, Zenon DEF At3!Process
  <2> QED
    BY <2>1 DEF At3!IfServer
<1>7. ASSUME NEW item, isIdle(item), NEW x, At3!Process(on, item, x).error = At3!Fine
      PROVE  At3!Process(on, item, x).value = x
  <2>1. CASE Shape3!Keeps(item)
    <3>1. At3!Keeps(item)
      BY <2>1, Zenon DEF At3!Keeps, Shape3!Keeps, At3!IsHolder, Shape3!IsHolder, At3!Holders, Shape3!Holders,
                         At3!HeldBy, Shape3!HeldBy, At3!IsLeaf, Shape3!IsLeaf
    <3> QED
      BY <1>5, <1>7, <3>1, At3!ItemKept, WidthsGrow
  <2>2. CASE item.item = "ifServer" /\ item.server # on
    BY <1>6, <2>2 DEF At3!Passed
  <2> QED
    BY <1>7, <2>1, <2>2
<1>8. ASSUME NEW item, isLast(item), NEW x, At3!Process(on, item, x).error = Fine
      PROVE  Within(range, At3!Process(on, item, x).value)
  <2>1. CASE Bounds(range, item)
    <3>1. At3!IsLeaf(item)
      BY <2>1 DEF Bounds, At3!IsLeaf, At3!Holders
    <3>2. At3!Process(on, item, x) = Leaf(on, item, x)
      BY <3>1, At3!LeafRuns, WidthsGrow
    <3> QED
      BY <1>8, <2>1, <3>2, LeafWithin
  <2>2. CASE item.item = "ifServer" /\ item.server = on /\ LeavesBounded(range, item.items)
    <3>1. At3!Process(on, item, x) = Nested2!RunProcessors(on, item.items, x)
      BY <1>6, <2>2
    <3> QED
      BY <1>8, <2>2, <3>1, LeavesWithin
  <2> QED
    BY <1>8, <2>1, <2>2
<1> HIDE DEF isLast, isIdle
<1>9. \A j \in DOMAIN items : j > i =>
        \A x : At3!Process(on, items[j], x).error = At3!Fine => At3!Process(on, items[j], x).value = x
  BY <1>3, <1>7
<1>10. PICK u : /\ At3!Process(on, items[i], u).error = At3!Fine
                /\ At3!RunProcessors(on, items, v).value = At3!Process(on, items[i], u).value
  BY <1>1, <1>4, <1>9, At3!LastWord, WidthsGrow
<1> QED
  BY <1>1, <1>3, <1>4, <1>8, <1>10
=============================================================================
