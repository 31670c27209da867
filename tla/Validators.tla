----------------------------- MODULE Validators -----------------------------
(***************************************************************************)
(* The validators and modifiers of rpcspec/Validators.hpp, each under the  *)
(* name of its struct.  A validator returns the code it fails with, or     *)
(* "none"; a modifier returns [error, value], the value being what it      *)
(* leaves in the document.  Of a Status only the code is kept, under the   *)
(* name it has on Clio: CodeOn gives the one each server answers.          *)
(***************************************************************************)
EXTENDS XrplTexts

Fine == "none"
Unless(ok, code) == IF ok THEN Fine ELSE code

Passed(v)    == [error |-> Fine, value |-> v]
Failed(code) == [error |-> code, value |-> Absent]

\* A result carried through steps 1, 2, ... up to the first that fails; Step makes of the
\* result before a step the one after it.
Through(steps, Step(_, _), start) ==
  LET result[n \in 0..steps] ==
        IF n = 0 THEN start
        ELSE LET before == result[n - 1]
             IN IF before.error # Fine THEN before ELSE Step(n, before)
  IN result[steps]

\* One check and then the next: the first code that is not Fine.
first ?? next == IF first # Fine THEN first ELSE next

\* The codes that only Clio has; xrpld answers invalidParams for each of them.
ClioCodes ==
  { "malformedRequest", "malformedAddress", "malformedOwner", "malformedCurrency",
    "malformedOracleDocumentId", "malformedAuthorizedCredentials", "fieldNotFoundTransaction" }

CodeOn(server, code) == IF server = "xrpld" /\ code \in ClioCodes THEN "invalidParams" ELSE code

\* What a validator of a string says of a field: absent is fine, another kind is
\* `notString`, and a text must satisfy Reads or fails with `malformed`.
TextOf(v, notString, Reads(_), malformed) ==
  IF ~Present(v) THEN Fine
  ELSE Unless(Is("string", v), notString) ?? Unless(Reads(v.string), malformed)

----------------------------------------------------------------------------
Required(v)      == Unless(Present(v), "invalidParams")
Type(kinds, v)   == Unless(Present(v) => \E T \in kinds : Is(T, v), "invalidParams")
NotSupported(v)  == Unless(~Present(v), "notSupported")

NotSupportedIfEqual(b, v) == Unless(~(Is("bool", v) /\ v = Bool(b)), "notSupported")

\* Min, Between and Clamp look only at a field that has the bound's own type T.
NumericValue(T, v) == IF Is(T, v) THEN {Number(v)} ELSE {}

Min(T, bound, v) == Unless(\A n \in NumericValue(T, v) : n >= bound, "invalidParams")

Between(T, lo, hi, v) == Unless(\A n \in NumericValue(T, v) : n \in lo..hi, "invalidParams")

Clamped(n, lo, hi) == IF n < lo THEN lo ELSE IF n > hi THEN hi ELSE n

\* What a view stores for a number of type T: an uint32 becomes a uint64.
SetNumber(T, n) == IF T = "uint32" THEN Unsigned(n) ELSE Signed(n)

\* A slip: a number under the range left alone.
ClampHighOnly(T, lo, hi, v) ==
  IF Is(T, v) THEN Passed(SetNumber(T, IF Number(v) > hi THEN hi ELSE Number(v))) ELSE Passed(v)

Clamp(T, lo, hi, v) ==
  IF Is(T, v) THEN Passed(SetNumber(T, Clamped(Number(v), lo, hi))) ELSE Passed(v)

\* A slip: the clamped number stored as an unsigned one.
ClampAsUnsigned(v) ==
  IF IsInt64(v)
  THEN Passed(Unsigned(Clamped(Number(v), -MaxInt32 - 1, MaxInt32) % (MaxUint32 + 1))) ELSE Passed(v)

\* clampAs<int32_t>: an integer brought into the signed 32-bit range.
ClampAs(v) ==
  IF IsInt64(v) THEN Passed(Signed(Clamped(Number(v), -MaxInt32 - 1, MaxInt32))) ELSE Passed(v)

MinArrayLength(bound, v) == Unless(Is("array", v) => Len(v.array) >= bound, "invalidParams")
MaxArrayLength(bound, v) == Unless(Is("array", v) => Len(v.array) =< bound, "invalidParams")

OneOfValidator(texts, v) ==
  TextOf(v, "invalidParams", LAMBDA t : t \in texts, "invalidParams")

NullAs(default, v) == IF IsNull(v) THEN Passed(default) ELSE Passed(v)

ToLowerModifier(v) == IF Is("string", v) THEN Passed(Text(ToLower(v.string))) ELSE Passed(v)

\* A text replaced by the number it spells: an integer of a type that starts at `least`
\* and that fits 32 bits.  Another kind is left alone.
SpelledNumber(v, spelling, least, Set(_)) ==
  IF ~Is("string", v) THEN Passed(v)
  ELSE IF FromChars(spelling, least, MaxInt64) /\ Decimals[spelling] \in 0..MaxUint32
       THEN Passed(Set(Decimals[spelling]))
  ELSE Failed("invalidParams")

\* A slip: a number of more than 32 bits let through.
ToNumberUnchecked(v) ==
  IF Is("string", v) /\ v.string \in DOMAIN Decimals THEN Passed(Signed(Decimals[v.string]))
  ELSE SpelledNumber(v, v.string, -MaxInt64 - 1, Signed)

ToNumberModifier(v)      == SpelledNumber(v, v.string, -MaxInt64 - 1, Signed)
LexicalUint32Modifier(v) == SpelledNumber(v, WithoutPlus(v.string), 0, Unsigned)

----------------------------------------------------------------------------
AccountFormat(v) ==
  TextOf(v, "invalidParams", LAMBDA t : AccountFromStringStrict(t) # NoText, "actMalformed")

AccountBase58Validator(v) ==
  TextOf(v, "invalidParams", LAMBDA t : ParseBase58Account(t) \notin {NoText, XrpAccount},
         "malformedAddress")

TimeFormatValidator(v) ==
  TextOf(v, "invalidParams", LAMBDA t : SystemTpFromUtcStr(t) # NoText, "invalidParams")

HexStringValidator(bits, v) ==
  TextOf(v, "invalidParams", LAMBDA t : ParseHex(bits, CStr(t)) # NoText, "invalidParams")

CurrencyValidator(v) ==
  Unless(v # Text(""), "invalidParams")
    ?? TextOf(v, "invalidParams", LAMBDA t : ToCurrency(t) # NoText, "malformedCurrency")

StrictCurrencyValidator(v) ==
  CurrencyValidator(v)
    ?? TextOf(v, "invalidParams", LAMBDA t : ToCurrency(t) \notin {BadCurrency, NoCurrency},
              "malformedCurrency")

IssuerValidator(v) ==
  TextOf(v, "invalidParams", LAMBDA t : ToIssuer(t) \notin {NoText, NoAccount}, "invalidParams")

\* {currency} alone for XRP, {currency, issuer} for any other currency.
IsCurrencyIssue(v) ==
  LET currency == Child(v, "currency")
      issuer   == Child(v, "issuer")
  IN /\ Is("string", currency) /\ ToCurrency(currency.string) # NoText
     /\ IF ToCurrency(currency.string) = XrpCurrency THEN ~Present(issuer)
        ELSE Is("string", issuer) /\ ToIssuer(issuer.string) # NoText

CurrencyIssueValidator(v) ==
  IF ~Present(v) THEN Fine
  ELSE Unless(Is("object", v), "invalidParams") ?? Unless(IsCurrencyIssue(v), "malformedRequest")

MaxCredentialTypeLength == 64

CredentialTypeValidator(v) ==
  TextOf(v, "malformedAuthorizedCredentials",
         LAMBDA t : UnHexLength(t) \in 1..MaxCredentialTypeLength,
         "malformedAuthorizedCredentials")

\* Every element of an array of texts satisfies Reads.
AllTexts(v, Reads(_)) ==
  \A i \in DOMAIN v.array : Is("string", v.array[i]) /\ Reads(v.array[i].string)

MaxCredentialsArraySize == 8

AuthorizeCredentialValidator(v) ==
  LET Authorizes(e) ==
        /\ Is("object", e)
        /\ Present(Child(e, "issuer")) /\ AccountBase58Validator(Child(e, "issuer")) = Fine
        /\ Present(Child(e, "credential_type"))
        /\ CredentialTypeValidator(Child(e, "credential_type")) = Fine
  IN IF ~Present(v) THEN Fine
     ELSE Unless(Is("array", v), "malformedRequest")
            ?? Unless(/\ Len(v.array) \in 1..MaxCredentialsArraySize
                      /\ \A i \in DOMAIN v.array : Authorizes(v.array[i]),
                      "malformedAuthorizedCredentials")

AccountIdArrayValidator(maxSize, v) ==
  Unless(Present(v) => /\ Is("array", v) /\ Len(v.array) \in 1..maxSize
                       /\ AllTexts(v, LAMBDA t : AccountFromStringStrict(t) # NoText),
         "invalidParams")

Hex256ArrayValidator(v) ==
  Unless(Present(v) => Is("array", v) /\ AllTexts(v, LAMBDA t : ParseHex(256, CStr(t)) # NoText),
         "invalidParams")

\* A slip: the texts of the array are not looked at.
Uint192ArrayUnread(v) == Unless(Present(v) => Is("array", v) /\ Len(v.array) > 0, "invalidParams")

Uint192ArrayValidator(v) ==
  Unless(Present(v) => /\ Is("array", v) /\ Len(v.array) > 0
                       /\ AllTexts(v, LAMBDA t : ParseHex(192, CStr(t)) # NoText),
         "invalidParams")

AccountMarkerValidator(v) ==
  TextOf(v, "invalidParams",
         LAMBDA t : /\ HasComma(t) /\ ParseHex(256, CStr(BeforeComma(t))) # NoText
                    /\ FromChars(AfterComma(t), 0, MaxUint64),
         "invalidParams")

\* The warning of a deprecated field that a request carries.
Deprecated(v) == Present(v)
=============================================================================
