---------------------------- MODULE MCHandlerFor ----------------------------
(***************************************************************************)
(* A finite instance of HandlerFor: for every handler a request it         *)
(* accepts, and that request with one key at a time, at its top or inside  *)
(* one of its objects, left out or given every value of a pool; with any   *)
(* two keys given one of a few values, and those that read each other      *)
(* varied together.                                                        *)
(***************************************************************************)
EXTENDS HandlerFor, LedgerEntrySpec

T(t) == Text(t)

Numbers ==
  { Signed(-1), Signed(0), Signed(7), Unsigned(7), Unsigned(450), Unsigned(MaxInt32 + 1),
    Unsigned(MaxUint32 + 8), Signed(-MaxInt32 - 2), Unsigned(MaxUint64), Double(7) }

Texts ==
  { T(t) : t \in
    { "", "0", "7", "+7", "-0", "-1", "huge", "junk", "rAlice", "rZero", "rOne", "publicKey58",
      "publicKeyHex", "hex160", "hex192", "hex256", "hex192~", "hex256~", "hexBad", "hexNone",
      "hexLong", "USD", "XRP", "validated", "current", "closed", "hex256,7", "hex256,+7", "hex256,7,x", "hex256~,7", "junk,7", "Payment",
      "AccountRoot", "fee", "gateway", "2024-01-01T00:00:00Z", "ctid" } }

Usd == Object([currency |-> T("USD"), issuer |-> T("rAlice")])
Xrp == Object([currency |-> T("XRP")])

Arrays ==
  { Array(s) : s \in
    { <<>>, <<T("rAlice")>>, <<T("rAlice"), T("rBob")>>, <<T("rAlice"), T("rAlice")>>,
      <<T("publicKey58"), T("publicKeyHex")>>, <<T("rAlice"), T("junk")>>,
      <<T("hex192")>>, <<T("hex192~")>>, <<T("hex256~")>>,
      <<T("ledger"), T("rt_transactions")>>, <<T("server")>>, <<Signed(7)>>, <<Xrp>>,
      [i \in 1..9 |-> T("hex256")] } }

Pool == {Null, Bool(TRUE), Bool(FALSE), Usd, Xrp, Object(<<>>)} \union Numbers \union Texts \union Arrays

----------------------------------------------------------------------------
\* The functions one step away from one: a key left out, or given another value.
Dropped(f, key)        == [k \in DOMAIN f \ {key} |-> f[k]]
With(f, key, v)        == (key :> v) @@ f
WithEach(f, key, vs)   == {With(f, key, v) : v \in vs}
Around(f, keys) ==
  {f} \union {Dropped(f, key) : key \in keys} \union UNION {WithEach(f, key, Pool) : key \in keys}

\* The same around an object, and around the objects of an array.
Inside(v)   == {Object(f) : f \in Around(v.object, DOMAIN v.object)}
Listed(vs)  == {Array(<<v>>) : v \in vs}

\* An object with one field replaced by each of some values.
Nesting(v, key, vs) == {Object(f) : f \in WithEach(v.object, key, vs)}

----------------------------------------------------------------------------
\* Sides of a book, and books.
Sides ==
  { Object(f) : f \in
    Around(Usd.object, {"currency", "issuer"})
      \union WithEach(Xrp.object, "issuer", {T("rAlice"), T("rZero"), T("rOne"), Null})
      \union {[mpt_issuance_id |-> t] : t \in {T("hex192"), T("hex192~"), T("junk"), Signed(7)}}
      \union {With(Usd.object, "mpt_issuance_id", T("hex192"))} }

Book ==
  Object([ taker_pays |-> Usd, taker_gets |-> Xrp, both |-> Bool(TRUE), snapshot |-> Bool(TRUE),
           taker |-> T("rAlice"), domain |-> T("hex256") ])

Books ==
  Listed(Inside(Book) \union Nesting(Book, "taker_pays", Sides) \union Nesting(Book, "taker_gets", Sides))

\* Objects of other handlers.
Oracle       == Object([oracle_document_id |-> Signed(7), account |-> T("rAlice")])
HistoryPoint == Object([ledger |-> Unsigned(7), seq |-> Signed(0)])
Filter       == Object([delegate_filter |-> T("actor"), counter_party |-> T("rBob")])
Credential   == Object([issuer |-> T("rAlice"), credential_type |-> T("hex160")])

Doors ==
  [ LockingChainDoor |-> T("rAlice"), IssuingChainDoor |-> T("rBob"),
    LockingChainIssue |-> Usd, IssuingChainIssue |-> Xrp ]

Bridges(more) ==
  Inside(Object(Doors @@ more)) \union Nesting(Object(Doors @@ more), "LockingChainIssue", Inside(Usd))

\* An object that names an entry, by the key of ledger_entry that takes it.
Entries ==
  LET byOwner   == [owner |-> T("rAlice"), seq |-> Unsigned(7)]
      byAccount == [account |-> T("rAlice"), seq |-> Unsigned(7)]
  IN [ deposit_preauth |-> [owner |-> T("rAlice"), authorized |-> T("rBob")],
       directory |-> [owner |-> T("rAlice"), dir_root |-> T("hex256"), sub_index |-> Signed(7)],
       escrow |-> byOwner, offer |-> byAccount,
       ripple_state |-> [accounts |-> Array(<<T("rAlice"), T("rBob")>>), currency |-> T("USD")],
       ticket |-> [account |-> T("rAlice"), ticket_seq |-> Unsigned(7)],
       amm |-> [asset |-> Usd, asset2 |-> Xrp], oracle |-> Oracle.object,
       credential |-> [subject |-> T("rBob"), issuer |-> T("rAlice"), credential_type |-> T("hex160")],
       mptoken |-> [account |-> T("rAlice"), mpt_issuance_id |-> T("hex192")],
       permissioned_domain |-> byAccount, vault |-> byOwner, loan_broker |-> byOwner,
       loan |-> [loan_broker_id |-> T("hex256"), loan_seq |-> Unsigned(7)],
       delegate |-> [account |-> T("rAlice"), authorize |-> T("rBob")],
       sponsorship |-> [sponsor |-> T("rAlice"), sponsee |-> T("rBob")] ]

EntriesOf(key) ==
  Inside(Object(Entries[key]))
    \union (IF key = "amm" THEN Nesting(Object(Entries.amm), "asset", Inside(Usd)) ELSE {})
    \union (IF key = "deposit_preauth"
            THEN Nesting(Object(Entries.deposit_preauth), "authorized_credentials", Listed(Inside(Credential)))
            ELSE {})

----------------------------------------------------------------------------
\* A request each handler accepts.
Bases ==
  LET ofAccount == [account |-> T("rAlice")]
      ofNft     == [nft_id |-> T("hex256")]
      ofMpt     == [mpt_issuance_id |-> T("hex192")]
      base(h) ==
        CASE h = "noripple_check" -> [account |-> T("rAlice"), role |-> T("gateway")]
          [] h = "nfts_by_issuer" -> [issuer |-> T("rAlice")]
          [] h \in {"nft_info", "nft_history", "nft_offers_common"} -> ofNft
          [] h \in {"mpt_holders", "mptoken_issuance_history"} -> ofMpt
          [] h = "deposit_authorized" ->
               [source_account |-> T("rAlice"), destination_account |-> T("rBob")]
          [] h = "get_aggregate_price" ->
               [oracles |-> Array(<<Oracle>>), base_asset |-> T("USD"), quote_asset |-> T("XRP")]
          [] h = "book_offers" -> [taker_pays |-> Usd, taker_gets |-> Xrp]
          [] h = "transaction_entry" -> [tx_hash |-> T("hex256")]
          [] h = "account_info" \/ "account" \in PlainMembers[h] -> ofAccount
          [] OTHER -> [k \in {} |-> Null]
  IN [h \in DOMAIN Specs |-> base(h)]

\* The objects and arrays of objects that a key of a handler takes.
NestedValues(h, key) ==
  CASE h = "ledger_entry" /\ key \in DOMAIN Entries -> EntriesOf(key)
    [] h = "ledger_entry" /\ key = "bridge" -> Bridges(<<>>)
    [] h = "ledger_entry" /\ key \in {"xchain_owned_claim_id", "xchain_owned_create_account_claim_id"} ->
         Bridges(key :> Unsigned(7))
    [] h \in {"subscribe", "unsubscribe"} /\ key = "books" -> Books
    [] h = "book_offers" /\ key \in {"taker_pays", "taker_gets"} -> Sides
    [] h = "amm_info" /\ key = "asset" -> Sides
    [] h = "get_aggregate_price" /\ key = "oracles" -> Listed(Inside(Oracle))
    [] h \in {"account_tx", "nft_history"} /\ key = "marker" -> Inside(HistoryPoint)
    [] h = "account_tx" /\ key = "delegate" -> Inside(Filter)
    [] OTHER -> {}

\* The keys of a handler.  The selector of the ledger is the same in all of them, and its
\* keys are varied in book_changes alone.
KeysOf(h) ==
  UNION {{f.key, f.alternate} : f \in {g \in FieldsOf(Plans[h][1]) : g.conv # Selector}}

\* Keys that some handlers read, given to all of them.
SharedKeys == {"account", "ident", "ledger", "marker", "type"}

SingleChanges(h) ==
  Around(Bases[h], KeysOf(h))
    \union UNION {WithEach(Bases[h], key, {T("rBob"), T("junk"), Null}) : key \in SharedKeys}
    \union UNION {WithEach(Bases[h], key, NestedValues(h, key)) : key \in KeysOf(h)}

\* Some keys that are read together, each given a value or left as it is in a base.
Together(f, keys, vs) ==
  {[k \in {j \in keys : g[j] # Absent} |-> g[k]] @@ f : g \in [keys -> vs \union {Absent}]}

Accounts == {T("rAlice"), T("rBob"), T("junk"), T("publicKey58"), T(""), Null, Signed(7)}
Ledgers  ==
  { T("hex256"), T("hex256~"), T("validated"), T("current"), T("closed"), T(""), T("7"), T("+7"), T("-0"),
    T("junk"), Unsigned(7), Signed(-1), Unsigned(MaxUint32 + 8), Double(7), Null }

JointChanges(h) ==
  CASE h = "book_changes" -> Together(Bases[h], LedgerKeys, Ledgers)
    [] h \in {"account_currencies", "account_info"} -> Together(<<>>, {"account", "ident"}, Accounts)
    [] h = "ledger_entry" ->
         Together(<<>>, {"account", "account_root"}, Accounts)
           \union Together(<<>>, {"state", "ripple_state"}, {T("hex256"), T("junk"), Object(Entries.ripple_state), Null})
    [] OTHER -> {}

\* Two keys at once, each as in the base or given one of a few values; ledger_entry, whose
\* keys name entries that have nothing to do with each other, is left out.
FewValues == {Null, Bool(TRUE), T("rBob"), T("validated"), Signed(7), Unsigned(MaxInt32 + 1)}

DoubleChanges(h) ==
  IF h = "ledger_entry" THEN {}
  ELSE UNION {Together(Bases[h], keys, FewValues) :
                keys \in {{a, b} : <<a, b>> \in KeysOf(h) \X KeysOf(h)}}

Requests(h) == {Object(f) : f \in SingleChanges(h) \union JointChanges(h) \union DoubleChanges(h)}

\* Version 0 is out of range and gets the last spec.
Versions(h) == IF Len(Specs[h]) = 1 THEN {1} ELSE {0, 1, 2}

AllCalls ==
  UNION {[handler : {h}, version : Versions(h), request : Requests(h)] : h \in DOMAIN Specs}

BookOffersCalls == [handler : {"book_offers"}, version : {1}, request : Requests("book_offers")]
=============================================================================
