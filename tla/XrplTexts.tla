----------------------------- MODULE XrplTexts -----------------------------
(***************************************************************************)
(* The texts requests carry and what the functions that read them return.  *)
(* A text is a plain string that stands for its class: "rAlice" for a      *)
(* base58 account, "hex256" for 64 hexadecimal digits, and so on.  The     *)
(* readers of libxrpl (parseBase58, parseHex, toCurrency, toIssuer,        *)
(* strUnHex) and of the C++ library (from_chars) are external; the helpers *)
(* of rpcspec/detail/XrplParse.hpp and rpcspec/LedgerTypes.hpp that choose *)
(* among them are translated.  Where a reader fails it returns "none".     *)
(***************************************************************************)
EXTENDS Json, TLC

NoText == "none"

\* The reading of t by a table that maps texts to what they stand for.
Reading(table, t) == IF t \in DOMAIN table THEN table[t] ELSE NoText

----------------------------------------------------------------------------
\* Accounts.  xrpAccount() is the zero account and noAccount() the one account.
XrpAccount == "xrpAccount"
NoAccount  == "noAccount"

ParseBase58Account(t) ==
  Reading([rAlice |-> "alice", rBob |-> "bob", rZero |-> XrpAccount, rOne |-> NoAccount], t)

\* An account named by its public key, in base58 or in hexadecimal.
PublicKeyAccount(t) == Reading([publicKey58 |-> "alice", publicKeyHex |-> "bob"], t)

AccountFromStringStrict(t) ==
  IF PublicKeyAccount(t) # NoText THEN PublicKeyAccount(t) ELSE ParseBase58Account(t)

----------------------------------------------------------------------------
\* A std::string handed over as a C string ends at its first NUL: the text
\* "hex256~" is 64 hexadecimal digits, a NUL and more, and "hex192~" likewise.
CStr(t) == IF t = "hex256~" THEN "hex256" ELSE IF t = "hex192~" THEN "hex192" ELSE t

HexTexts == {<<160, "hex160">>, <<192, "hex192">>, <<256, "hex256">>}

\* base_uint::parseHex for a width in bits: exactly that many digits, or "0".
ParseHex(bits, t) ==
  IF t = "0" THEN "zero" ELSE IF <<bits, t>> \in HexTexts THEN t ELSE NoText

\* strUnHex: the number of bytes a hexadecimal text decodes to, -1 when it does not.
UnHexLength(t) ==
  CASE t \in {"hex160", "hex192", "hex256", "publicKeyHex"} -> 20
    [] t = ""        -> 0
    [] t = "hexLong" -> 80
    [] t \in {"0", "7"} -> 1
    [] OTHER         -> -1

----------------------------------------------------------------------------
\* Currencies and issuers.
XrpCurrency == "XRP"
BadCurrency == "badCurrency"
NoCurrency  == "noCurrency"

ToCurrency(t) ==
  CASE t \in {"", "XRP"}    -> XrpCurrency
    [] t \in {"USD", "EUR"} -> t
    [] t = "hex160"         -> "hexCurrency"
    [] t = "hexBad"         -> BadCurrency
    [] t = "hexNone"        -> NoCurrency
    [] OTHER                -> NoText

ToIssuer(t) == IF t = "hex160" THEN "hexAccount" ELSE ParseBase58Account(t)

----------------------------------------------------------------------------
\* Decimal texts, and std::from_chars with the whole text consumed: a type without a
\* sign takes no text with one, not even "-0".
Spellings == {<<"0", 0>>, <<"-0", 0>>, <<"7", 7>>, <<"-1", -1>>, <<"huge", MaxUint32 + 1>>}

Decimals == [t \in {s[1] : s \in Spellings} |-> (CHOOSE s \in Spellings : s[1] = t)[2]]

FromChars(t, lo, hi) ==
  t \in DOMAIN Decimals /\ Decimals[t] \in lo..hi /\ (lo = 0 => t # "-0")

\* The text after a leading '+'.
WithoutPlus(t) == IF t = "+7" THEN "7" ELSE t

\* A marker is a text with a comma: what stands before and after the first one,
\* and what the part after it is when it is cut at its own first comma.
MarkerTexts ==
     "hex256,7"   :> <<"hex256", "7", "7">>
  @@ "hex256,+7"  :> <<"hex256", "+7", "+7">>
  @@ "hex256,7,x" :> <<"hex256", "7,x", "7">>
  @@ "hex256,x"   :> <<"hex256", "x", "x">>
  @@ "hex256~,7"  :> <<"hex256~", "7", "7">>
  @@ "junk,7"     :> <<"junk", "7", "7">>

HasComma(t)       == t \in DOMAIN MarkerTexts
BeforeComma(t)    == MarkerTexts[t][1]
AfterComma(t)     == MarkerTexts[t][2]
BetweenCommas(t)  == MarkerTexts[t][3]

----------------------------------------------------------------------------
\* A time in the format a spec asks for, which systemTpFromUtcStr can read.
SystemTpFromUtcStr(t) == IF t = "2024-01-01T00:00:00Z" THEN "2024" ELSE NoText

ToLower(t) ==
  LET lower == Reading([AccountRoot |-> "accountroot", FeeSettings |-> "feesettings",
                        Payment |-> "payment", EUR |-> "eur"], t)
  IN IF lower = NoText THEN t ELSE lower

\* One ledger entry type of each category, under its two names.
LedgerTypesTable ==
  { [name |-> "accountroot", rpcName |-> "account", category |-> "AccountOwned"],
    [name |-> "ripplestate", rpcName |-> "state",   category |-> "DeletionBlocker"],
    [name |-> "check",       rpcName |-> "check",   category |-> "DeletionBlocker"],
    [name |-> "feesettings", rpcName |-> "fee",     category |-> "Chain"] }

\* The entries a text names: by its RPC name, or else by its canonical name in any case.
LedgerTypeInfoFromStr(t) ==
  LET byRpcName == {e \in LedgerTypesTable : e.rpcName = t}
  IN IF byRpcName # {} THEN byRpcName
     ELSE {e \in LedgerTypesTable : e.name = ToLower(t)}

\* The type a text names, by its RPC name; "none" is ltANY.
LedgerEntryTypeFromStr(t) ==
  IF LedgerTypeInfoFromStr(t) = {} THEN NoText
  ELSE (CHOOSE e \in LedgerTypeInfoFromStr(t) : TRUE).rpcName

AccountOwnedLedgerTypeFromStr(t) ==
  IF \E e \in LedgerTypeInfoFromStr(t) : e.category # "Chain"
  THEN LedgerEntryTypeFromStr(t) ELSE NoText

TxTypesInLowercase == {"payment", "offercreate"}
=============================================================================
