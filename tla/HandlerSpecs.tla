---------------------------- MODULE HandlerSpecs ----------------------------
(***************************************************************************)
(* The specs of the handlers, each under the name of its directory in      *)
(* rpcspec/handlers.  A spec is the sequence of its API versions, and a    *)
(* version the sequence of its fields.  A withCustomError whose code is    *)
(* the one its item has anyway is about wording, and left out.             *)
(***************************************************************************)
EXTENDS Fields

Uint32 == type({"uint32"})

\* The limit of most handlers: xrpld takes null for the default and leaves clamping
\* to the handler, Clio clamps.
pagedLimit(least, lo, hi, default) ==
  bound("limit",
        << ifServerXrpld(<<nullAs(default)>>), ifServerXrpld(<<Uint32, min(least)>>),
           ifServerClio(<<Uint32, min(least)>>), ifServerClio(<<clamp(lo, hi)>>),
           defaultTo(default) >>,
        as("asUint32"))

\* The limit that both servers clamp.
clampedLimit(lo, hi, default) ==
  bound("limit", <<Uint32, min(1), clamp(lo, hi), defaultTo(default)>>, as("asUint32"))

\* The limit that has no default.
historyLimit(hi) == bound("limit", <<Uint32, min(1), clamp(1, hi)>>, as("asUint32"))

cursor        == bound("marker", <<>>, as("accountMarkerStr"))
account       == named("account")
accountBase58 == named("accountBase58")

flag(key)       == bound(key, <<>>, as("jsonBool"))
strictFlag(key) == bound(key, <<>>, as("jsonBoolStrict"))
checkedFlag(key, items) == bound(key, <<type({"bool"})>> \o items, as("jsonBool"))

indexBound(key) == bound(key, <<type({"int64"}), named("clampAs")>>, as("int32Bound"))

historyMarker ==
  bound("marker",
        << type({"object"}),
           ifType("object", <<section(<< nested("ledger", <<required, Uint32>>),
                                         nested("seq", <<required, Uint32>>) >>)>>) >>,
        as("markerConv"))

deprecatedOnClio(key) == validated(key, <<ifServerClio(<<deprecated>>)>>)
deprecatedKey(key)    == validated(key, <<deprecated>>)

txType == bound("tx_type", <<named("toLower"), named("kTxTypeValidator")>>, as("asString"))

\* On xrpld the old name of `account`, read when that one is absent.
ident(onClio) ==
  boundAs("ident", "account",
          <<ifServerXrpld(<<ifAbsent("account"), required>>), ifServerClio(<<onClio>>)>>,
          as("deferredAccountId"))

requiredAccount(conv) == bound("account", <<required>>, as(conv))

----------------------------------------------------------------------------
account_channels ==
  << << ledgerSelector, requiredAccount("accountId"),
        bound("destination_account", <<ifServerClio(<<type({"string"})>>)>>,
              emptyAsAbsent(as("accountId"))),
        pagedLimit(1, 10, 400, 200), cursor >> >>

account_currencies ==
  << << ledgerSelector, ident(never),
        bound("account", <<ifServerClio(<<required>>)>>, as("deferredAccountId")),
        pagedLimit(1, 10, 400, 200), cursor,
        deprecatedOnClio("account_index"), deprecatedOnClio("strict") >> >>

account_info ==
  LET v1 == << ledgerSelector, ident(deprecated), bound("account", <<>>, as("deferredAccountId")),
               flag("signer_lists"), flag("queue"),
               deprecatedOnClio("ledger"), deprecatedOnClio("strict") >>
  IN <<v1, extend(v1, <<bound("signer_lists", <<>>, as("JsonBoolConverterT<kIsClioBuild>"))>>)>>

account_lines ==
  << << ledgerSelector, requiredAccount("linesAccount"),
        bound("peer", <<>>, emptyAsAbsent(as("linesAccount"))),
        bound("ignore_default", <<ifServerClio(<<type({"bool"})>>)>>, as("asBool")),
        pagedLimit(1, 10, 400, 200), cursor,
        deprecatedOnClio("ledger"), deprecatedOnClio("peer_index") >> >>

accountTokens ==
  << << ledgerSelector, requiredAccount("accountIdActMalformed"), clampedLimit(10, 400, 200),
        bound("marker", <<named("accountMarker")>>, as("asString")), deprecatedKey("ledger") >> >>

account_mptoken_issuances == accountTokens
account_mptokens          == accountTokens

account_nfts ==
  << << ledgerSelector, requiredAccount("accountId"), pagedLimit(1, 20, 400, 100),
        bound("marker", <<ifServerXrpld(<<type({"string"})>>)>>, as("asUint256")) >> >>

account_objects ==
  << << ledgerSelector, requiredAccount("accountId"), clampedLimit(10, 400, 200),
        bound("type", <<>>, as("accountOwnedTypeConv")),
        bound("marker", <<named("accountMarker")>>, as("markerStringConv")),
        strictFlag("deletion_blockers_only"), strictFlag("sponsored") >> >>

account_offers ==
  LET v1 == << ledgerSelector, requiredAccount("deferredAccountId"), pagedLimit(1, 10, 400, 200),
               cursor, deprecatedOnClio("ledger"), deprecatedOnClio("strict") >>
  IN <<v1, v1>>

account_tx ==
  LET v1 == << ledgerSelector, requiredAccount("accountId"),
               indexBound("ledger_index_min"), indexBound("ledger_index_max"),
               validated("ctid", <<type({"string"})>>), historyLimit(1000), historyMarker,
               flag("binary"), flag("forward"), txType,
               bound("mpt_issuance_id", <<>>, as("asUint192")),
               bound("delegate", <<named("kDelegateValidator")>>, as("delegateConv")) >>
  IN <<v1, extend(v1, <<strictFlag("binary"), strictFlag("forward")>>)>>

gateway_balances ==
  LET hotwallet(code) == bound("hotwallet", <<hotWallet(code)>>, as("hotWalletConv"))
      v1 == <<ledgerSelector, requiredAccount("accountId"), hotwallet("invalidHotwallet")>>
  IN <<v1, extend(v1, <<hotwallet("invalidParams")>>)>>

noripple_check ==
  LET v1 == << ledgerSelector, requiredAccount("accountId"),
               bound("role", <<required, oneOf({"gateway", "user"})>>, as("roleGateway")),
               clampedLimit(1, 500, 300), flag("transactions") >>
  IN <<v1, extend(v1, <<strictFlag("transactions")>>)>>

deposit_authorized ==
  LET party(key) == bound(key, <<required, ifServerXrpld(<<type({"string"})>>)>>, as("accountId"))
  IN << << ledgerSelector, party("source_account"), party("destination_account"),
           bound("credentials",
                 << ifServerXrpld(<< type({"array"}), minArrayLength(1),
                                     maxArrayLength(MaxCredentialsArraySize) >>),
                    named("hex256Array") >>,
                 as("credentialsArrayConv")) >> >>

----------------------------------------------------------------------------
amm_info ==
  LET asset(key) ==
        bound(key,
              << ifServerClio(<<withCustomError(type({"string", "object"}), "issueMalformed")>>),
                 ifType("string", <<ifServerClio(<<named("kStringIssueValidator")>>)>>),
                 ifType("object", <<ifServerClio(<<withCustomError(named("currencyIssue"),
                                                                   "issueMalformed")>>)>>) >>,
              as("deferredAsset"))
  IN << << ledgerSelector, asset("asset"), asset("asset2"),
           bound("amm_account", <<>>, as("deferredAccountIdActMalformed")),
           bound("account", <<>>, as("deferredAccountIdActMalformed")) >> >>

book_offers ==
  LET taker(key, cur, isr, conv) ==
        bound(key,
              << required, ifServerClio(<<type({"object"})>>), named("kTakerValidator"),
                 section(<<
                   nested("currency", <<ifServerClio(<<withCustomError(named("currency"), cur)>>)>>),
                   nested("mpt_issuance_id", <<withCustomError(named("uint192Hex"), cur)>>),
                   nested("issuer", <<ifServerClio(<<withCustomError(named("issuer"), isr)>>)>>) >>) >>,
              as(conv))
  IN << << ledgerSelector,
           taker("taker_pays", "srcCurMalformed", "srcIsrMalformed", "takerPaysConv"),
           taker("taker_gets", "dstAmtMalformed", "dstIsrMalformed", "takerGetsConv"),
           bound("taker", << ifServerXrpld(<<type({"string"})>>),
                             ifServerClio(<<withCustomError(account, "invalidParams")>>) >>,
                 as("takerConv")),
           bound("domain", << withCustomError(type({"string"}), "domainMalformed"),
                              withCustomError(named("uint256Hex"), "domainMalformed") >>,
                 as("asString")),
           pagedLimit(1, 1, 100, 60) >> >>

get_aggregate_price ==
  LET asset(key) ==
        bound(key, << required, ifServerXrpld(<<withCustomError(named("strictCurrency"), "invalidParams")>>),
                      ifServerClio(<<withCustomError(named("currency"), "invalidParams")>>) >>,
              as("currencyConv"))
      lexical ==
        << ifServerXrpld(<<type({"uint32", "string"})>>), ifServerClio(<<Uint32>>),
           ifServerXrpld(<<named("lexicalUint32")>>) >>
  IN << << ledgerSelector,
           bound("oracles",
                 << required,
                    ifServerXrpld(<< withCustomError(type({"array"}), "oracleMalformed"),
                                     withCustomError(minArrayLength(1), "oracleMalformed"),
                                     withCustomError(maxArrayLength(OraclesMax), "oracleMalformed") >>),
                    ifServerClio(<<named("kOraclesValidator")>>) >>,
                 as("oraclesConv")),
           asset("base_asset"), asset("quote_asset"),
           bound("trim", lexical \o <<between(1, 25)>>, as("uint8Conv")),
           bound("time_threshold", lexical, as("asUint32")) >> >>

nftID == bound("nft_id", <<required>>, as("asUint256"))

nft_info == << <<ledgerSelector, nftID>> >>

nft_history ==
  LET v1 == << ledgerSelector, nftID, indexBound("ledger_index_min"), indexBound("ledger_index_max"),
               historyLimit(100), historyMarker, strictFlag("binary"), strictFlag("forward") >>
  IN <<v1, v1>>

nft_offers_common ==
  << << ledgerSelector, nftID, pagedLimit(1, 50, 500, 250),
        bound("marker", <<ifServerXrpld(<<type({"string"}), named("uint256Hex")>>)>>, as("asUint256")) >> >>

nfts_by_issuer ==
  << << ledgerSelector, bound("issuer", <<required>>, as("accountId")),
        bound("nft_taxon", <<Uint32>>, as("asUint32")), clampedLimit(1, 100, 50),
        bound("marker", <<>>, as("asUint256")) >> >>

mpt_holders ==
  << << ledgerSelector, bound("mpt_issuance_id", <<required>>, as("asUint192")),
        bound("marker", <<>>, as("accountIdHex")),
        bound("accounts", <<accountIdArray(100)>>, as("asAccountIdVec")), historyLimit(100) >> >>

mptoken_issuance_history ==
  << << ledgerSelector, bound("mpt_issuance_id", <<required, named("uint192Hex")>>, as("asUint192")),
        bound("account", <<>>, as("accountId")), txType,
        indexBound("ledger_index_min"), indexBound("ledger_index_max"),
        strictFlag("binary"), strictFlag("forward"), historyLimit(100), historyMarker >> >>

vault_info ==
  LET malformed(item) == withCustomError(item, "malformedRequest")
  IN << << ledgerSelector, bound("vault_id", <<malformed(named("uint256Hex"))>>, as("asUint256")),
           bound("owner", <<ifServerClio(<<malformed(accountBase58)>>)>>, as("ownerConv")),
           bound("seq", <<malformed(Uint32)>>, as("asUint32")) >> >>

----------------------------------------------------------------------------
book_changes == << <<ledgerSelector>> >>

feature ==
  << << ledgerSelector, bound("feature", <<>>, as("asString")),
        validated("vetoed", <<withCustomError(notSupported, "noPermission")>>) >> >>

ledger ==
  LET refused(items) == <<ifServerClio(<<notSupportedIf(TRUE)>> \o items)>>
      v1 == << ledgerSelector, checkedFlag("full", refused(<<deprecated>>)),
               checkedFlag("accounts", refused(<<deprecated>>)), checkedFlag("owner_funds", <<>>),
               checkedFlag("queue", refused(<<>>)), checkedFlag("transactions", <<>>),
               checkedFlag("expand", <<>>), checkedFlag("binary", <<>>),
               bound("diff", <<ifServerClio(<<type({"bool"})>>)>>, as("jsonBool")),
               deprecatedOnClio("ledger"), deprecatedKey("type") >>
  IN << v1, extend(v1, << strictFlag("transactions"), strictFlag("expand"), strictFlag("binary"),
                          strictFlag("owner_funds") >>) >>

ledger_data ==
  << << ledgerSelector, strictFlag("binary"), bound("limit", <<Uint32, min(1)>>, as("asUint32")),
        bound("marker", <<>>, as("ledgerData markerConv")), strictFlag("out_of_order"),
        bound("type", <<>>, as("ledgerEntryTypeConv")), deprecatedKey("ledger") >> >>

ledger_index == << <<bound("date", <<named("timeFormat")>>, as("dateConv"))>> >>

server_info == << <<flag("backend_counters")>> >>

transaction_entry ==
  << << ledgerSelector,
        bound("tx_hash",
              <<ifServerClio(<<withCustomError(required, "fieldNotFoundTransaction"), named("uint256Hex")>>)>>,
              as("TxHashConverter")) >> >>

tx ==
  LET v1 == << bound("transaction", <<>>, as("asUint256")), bound("ctid", <<named("toUpper")>>, as("asString")),
               flag("binary"), bound("min_ledger", <<>>, as("asUint32")),
               bound("max_ledger", <<>>, as("asUint32")) >>
  IN <<v1, extend(v1, <<strictFlag("binary")>>)>>

----------------------------------------------------------------------------
subscriptions(books, conv, old) ==
  LET accounts(key) == bound(key, <<named("kSubscribeAccountsValidator")>>, as("asAccountIdVec"))
      deprecations  == [i \in DOMAIN old |-> deprecatedKey(old[i])]
  IN << << bound("streams", <<named("kSubscribeStreamValidator")>>, as("streamVecConv")),
           accounts("accounts"), accounts("accounts_proposed"), bound("books", <<named(books)>>, as(conv)),
           bound("mpt_issuances", <<named("uint192Array")>>, as("asUint192Vec")) >> \o deprecations >>

subscribe ==
  subscriptions("subscribe kBooksValidator", "subscribeBooksConv", <<"user", "password", "rt_accounts">>)

unsubscribe ==
  subscriptions("unsubscribe kBooksValidator", "unsubscribeBooksConv",
                <<"url", "rt_accounts", "rt_transactions">>)
=============================================================================
