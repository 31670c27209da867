--------------------------- MODULE LedgerSelector ---------------------------
(***************************************************************************)
(* The ledger a request asks for: rpcspec/Ledger.hpp.  The selector is one *)
(* bound field that reads up to three keys of the request.  A specifier is *)
(* a shortcut, a hash, a sequence, or the unset value of a request that    *)
(* names no ledger.  Every refusal is an invalidParams.                    *)
(***************************************************************************)
EXTENDS Converters

Shortcut(s) == [shortcut |-> s]
Unspecified == Unset

Refused == Failed("invalidParams")

FromHash(v) == HexConverterBase(256, v)

\* The sequence a text or a number names.
FromSequence(v, spelling) ==
  IF IsUint32(v) THEN AsUint32(v)
  ELSE IF Is("string", v) /\ FromChars(spelling, 0, MaxUint32) THEN Passed(UInt(Decimals[spelling]))
  ELSE Refused

FromShortcut(v, shortcuts, Sequence(_)) ==
  IF Is("string", v) /\ v.string \in DOMAIN shortcuts THEN Passed(Shortcut(shortcuts[v.string]))
  ELSE Sequence(v)

----------------------------------------------------------------------------
\* Clio
\* A slip: every shortcut taken for the validated ledger.
AnyShortcutValidated(v) ==
  FromShortcut(v, [t \in {"current", "validated", "closed"} |-> "validated"],
               LAMBDA w : FromSequence(w, w.string))

LedgerSpecifierFromIndex(v) ==
  FromShortcut(v, [t \in {"validated"} |-> t], LAMBDA w : FromSequence(w, w.string))

\* The index is validated even when the hash wins.
ClioLedgerFromRequest(root) ==
  LET hash   == Child(root, "ledger_hash")
      index  == Child(root, "ledger_index")
      byHash == FromHash(hash)
  IN IF Present(hash)
     THEN IF byHash.error = Fine /\ Present(index) /\ LedgerSpecifierFromIndex(index).error # Fine
          THEN Refused ELSE byHash
     ELSE IF Present(index) THEN LedgerSpecifierFromIndex(index) ELSE Passed(Unspecified)

----------------------------------------------------------------------------
\* xrpld
XrpldLedgerFromIndex(v) ==
  FromShortcut(v, [t \in {"current", "", "validated", "closed"} |-> IF t = "" THEN "current" ELSE t],
               LAMBDA w : FromSequence(w, WithoutPlus(w.string)))

IsStringOrInteger(v) == Is("string", v) \/ Is("int64", v)

\* Of the texts, those of 64 characters.
IsHashLong(v) == Is("string", v) /\ v.string = "hex256"

LedgerKeys == {"ledger", "ledger_hash", "ledger_index"}

NamedLedgers(root) == {key \in LedgerKeys : Present(Child(root, key))}

XrpldLedgerFromRequest(root) ==
  LET legacy == Child(root, "ledger")
      hash   == Child(root, "ledger_hash")
      index  == Child(root, "ledger_index")
      named  == NamedLedgers(root)
      byName(v) == IF IsStringOrInteger(v) THEN XrpldLedgerFromIndex(v) ELSE Refused
  IN IF Cardinality(named) > 1 THEN Refused
     ELSE IF Present(legacy) THEN (IF IsHashLong(legacy) THEN FromHash(legacy) ELSE byName(legacy))
     ELSE IF Present(hash) THEN FromHash(hash)
     ELSE IF Present(index) THEN byName(index)
     ELSE Passed(Unspecified)

LedgerFromRequest(server, root) ==
  IF server = "xrpld" THEN XrpldLedgerFromRequest(root) ELSE ClioLedgerFromRequest(root)
=============================================================================
