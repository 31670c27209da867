-------------------------- MODULE LedgerEntrySpec --------------------------
(***************************************************************************)
(* The spec of ledger_entry (rpcspec/handlers/ledger_entry/Spec.hpp): most *)
(* of its fields name an entry by its index or by an object with the parts *)
(* that make up its key.                                                   *)
(***************************************************************************)
EXTENDS HandlerSpecs

malformed(item, code) == withCustomError(item, code)
malformedRequest(item) == malformed(item, "malformedRequest")

hexString == malformedRequest(named("uint256Hex"))
int       == malformedRequest(Uint32)
holder    == malformed(accountBase58, "malformedAddress")
owner     == malformed(accountBase58, "malformedOwner")

\* A part that an object must have, and the parts of an object.
part(key, items)  == nested(key, <<malformedRequest(required)>> \o items)
parts(fields)     == <<ifType("object", <<section(fields)>>)>>

indexField(key) == bound(key, <<hexString>>, as("asUint256"))

\* An entry by index or by parts: the first fields of the spec answer another kind with
\* invalidParams, the later ones with malformedRequest.
entryField(key, kindItem, textItem, items, typed) ==
  bound(key, <<kindItem, ifType("string", <<textItem>>)>> \o items, entry(typed))

oldEntry(key, fields, typed) ==
  entryField(key, type({"string", "object"}), hexString, parts(fields), typed)
newEntry(key, fields, typed) ==
  entryField(key, malformedRequest(type({"string", "object"})), hexString, parts(fields), typed)
addressedEntry(key, fields, typed) ==
  entryField(key, malformedRequest(type({"string", "object"})), malformed(hexString, "malformedAddress"),
             parts(fields), typed)

bridgeJson ==
  LET door(key)  == nested(key, <<required, accountBase58>>)
      issue(key) == nested(key, <<required, named("currencyIssue")>>)
  IN malformedRequest(ifType("object", <<section(<<
       door("LockingChainDoor"), door("IssuingChainDoor"),
       issue("LockingChainIssue"), issue("IssuingChainIssue") >>)>>))

----------------------------------------------------------------------------
plainFields ==
  << ledgerSelector,
     checkedFlag("binary", <<>>),
     indexField("index"),
     alias("account", bound("account_root", <<accountBase58>>, as("accountId"))),
     bound("did", <<accountBase58>>, as("accountId")),
     indexField("check") >>

oldEntries ==
  LET sequenced(accountKey, accountItem, seqKey) ==
        << nested(accountKey, <<required, accountItem>>), nested(seqKey, <<required, int>>) >>
  IN << oldEntry("deposit_preauth",
          << nested("owner", <<required, owner>>), nested("authorized", <<accountBase58>>),
             nested("authorized_credentials", <<named("authorizeCredential")>>) >>,
          [ owner |-> "account", authorized |-> "optional account",
            authorized_credentials |-> "optional credentials" ]),
        oldEntry("directory",
          << nested("owner", <<accountBase58>>), nested("dir_root", <<named("uint256Hex")>>),
             nested("sub_index", <<int>>) >>,
          [ owner |-> "optional account", dir_root |-> "optional hash256",
            sub_index |-> "optional uint32" ]),
        oldEntry("escrow", sequenced("owner", owner, "seq"), [owner |-> "account", seq |-> "uint32"]),
        oldEntry("offer", sequenced("account", accountBase58, "seq"), [account |-> "account", seq |-> "uint32"]),
        indexField("payment_channel"),
        alias("state",
          oldEntry("ripple_state",
            << nested("accounts", <<required, named("kRippleStateAccountsValidator")>>),
               nested("currency", <<required, named("currency")>>) >>,
            [accounts |-> "accounts", currency |-> "currency"])),
        oldEntry("ticket", sequenced("account", accountBase58, "ticket_seq"),
                 [account |-> "account", ticket_seq |-> "uint32"]),
        indexField("nft_page") >>

ammAndBridges ==
  LET asset(key) == part(key, <<malformedRequest(type({"object"})), named("currencyIssue")>>)
      claim(key) ==
        entryField(key, malformedRequest(type({"string", "object"})), hexString,
          << bridgeJson, malformedRequest(ifType("object", <<section(<<nested(key, <<required, Uint32>>)>>)>>)) >>,
          BridgeParts @@ (key :> "uint32"))
  IN << oldEntry("amm", <<asset("asset"), asset("asset2")>>, [asset |-> "issue", asset2 |-> "issue"]),
        bound("bridge", <<malformedRequest(type({"object"})), bridgeJson>>, as("bridgeConv")),
        bound("bridge_account", <<malformedRequest(accountBase58)>>, as("accountId")),
        claim("xchain_owned_claim_id"), claim("xchain_owned_create_account_claim_id") >>

oracleParts ==
  << part("account", <<holder>>),
     part("oracle_document_id",
          << malformed(type({"uint32", "string"}), "malformedOracleDocumentId"),
             malformed(named("toNumber"), "malformedOracleDocumentId") >>) >>

oracleAndCredential ==
  << addressedEntry("oracle", oracleParts, [account |-> "account", oracle_document_id |-> "uint32"]),
     addressedEntry("credential",
       << part("subject", <<holder>>), part("issuer", <<holder>>),
          part("credential_type", <<malformedRequest(type({"string"})), named("credentialType")>>) >>,
       [subject |-> "account", issuer |-> "account", credential_type |-> "text"]) >>

newEntries ==
  LET owned(key) == newEntry(key, <<part("seq", <<int>>), part("owner", <<owner>>)>>,
                             [owner |-> "account", seq |-> "uint32"])
      paired(key, one, two) == newEntry(key, <<part(one, <<holder>>), part(two, <<holder>>)>>,
                                        (one :> "account") @@ (two :> "account"))
  IN << bound("mpt_issuance", <<malformedRequest(named("uint192Hex"))>>, as("asUint192")),
        newEntry("mptoken",
          << part("account", <<holder>>), part("mpt_issuance_id", <<malformedRequest(named("uint192Hex"))>>) >>,
          [account |-> "account", mpt_issuance_id |-> "hash192"]),
        newEntry("permissioned_domain", <<part("seq", <<int>>), part("account", <<holder>>)>>,
                 [account |-> "account", seq |-> "uint32"]),
        owned("vault"), owned("loan_broker"),
        newEntry("loan", <<part("loan_seq", <<int>>), part("loan_broker_id", <<hexString>>)>>,
                 [loan_broker_id |-> "hash256", loan_seq |-> "uint32"]),
        paired("delegate", "account", "authorize"), paired("sponsorship", "sponsor", "sponsee") >>

lastFields ==
  << indexField("amendments"), indexField("fee"), indexField("hashes"), indexField("nft_offer"),
     indexField("nunl"), indexField("signer_list"), deprecatedKey("ledger"),
     checkedFlag("include_deleted", <<>>) >>

ledger_entry ==
  << plainFields \o oldEntries \o ammAndBridges \o oracleAndCredential \o newEntries \o lastFields >>

----------------------------------------------------------------------------
\* Every handler and the versions of its spec.
HandlerTable ==
  [ account_channels |-> account_channels, account_currencies |-> account_currencies,
    account_info |-> account_info, account_lines |-> account_lines,
    account_mptoken_issuances |-> account_mptoken_issuances, account_mptokens |-> account_mptokens,
    account_nfts |-> account_nfts, account_objects |-> account_objects,
    account_offers |-> account_offers, account_tx |-> account_tx, amm_info |-> amm_info,
    book_changes |-> book_changes, book_offers |-> book_offers,
    deposit_authorized |-> deposit_authorized, feature |-> feature,
    gateway_balances |-> gateway_balances, get_aggregate_price |-> get_aggregate_price,
    ledger |-> ledger, ledger_data |-> ledger_data, ledger_entry |-> ledger_entry,
    ledger_index |-> ledger_index, mpt_holders |-> mpt_holders,
    mptoken_issuance_history |-> mptoken_issuance_history, nft_history |-> nft_history,
    nft_info |-> nft_info, nft_offers_common |-> nft_offers_common,
    nfts_by_issuer |-> nfts_by_issuer, noripple_check |-> noripple_check,
    server_info |-> server_info, subscribe |-> subscribe, transaction_entry |-> transaction_entry,
    tx |-> tx, unsubscribe |-> unsubscribe, vault_info |-> vault_info ]
=============================================================================
