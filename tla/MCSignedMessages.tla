-------------------------- MODULE MCSignedMessages --------------------------
(* Instances of SignedMessages for TLC. *)
EXTENDS ReadRegistrations

\* Short stand-ins for the bytes of the tokens; digits have their own.
MCUtf8 == [t \in {"a", "b", "-", "_", ":", "did:willow:", "\n", "Key: ", "0", "7", "s", "u"} |->
  CASE t = "a" -> <<97>> [] t = "b" -> <<98>> [] t = "-" -> <<45>> [] t = "_" -> <<95>>
    [] t = ":" -> <<58>> [] t = "did:willow:" -> <<100, 58>> [] t = "\n" -> <<10>>
    [] t = "Key: " -> <<75, 58>> [] t = "0" -> <<48>> [] t = "7" -> <<55>>
    [] t = "s" -> <<115>> [] t = "u" -> <<117>>]

S(tokens) == <<"str", tokens>>
N(n) == <<"num", n>>
L(vs) == <<"arr", vs>>
O(r) == <<"obj", r>>
B(b) == <<"bool", b>>
Did(x) == <<"did:willow:", x>>

MCNumbers == 0 .. 2
MCBlobs == {1, 2}

\* Schemas: the empty object, a full one, and one of each refusal.
MCSchemaOf ==
  LET e(k, v) == [key |-> k, value |-> v]
  IN  (<<"s">> :> <<>>)
   @@ (<<"s", "a">> :> <<e("version", N(1)), e("fields", O([x |-> S(<<"string">>)])),
                         e("indexes", L(<<>>)), e("required_fields", L(<<S(<<"a">>)>>)),
                         e("other", N(1)), e("other", N(2))>>)
   @@ (<<"s", "0">> :> <<e("version", N(1)), e("version", N(1))>>)
   @@ (<<"s", "7">> :> <<e("fields", O([x |-> S(<<"text">>)]))>>)
   @@ (<<"s", "-">> :> <<e("indexes", L(<<S(<<"a">>)>>))>>)
   @@ (<<"s", "s">> :> <<e("fields", S(<<"string">>))>>)
   @@ (<<"u", "a">> :> <<e("version", N(-1))>>)
   @@ (<<"u", "b">> :> <<e("version", Null)>>)
   @@ (<<"u", "0">> :> <<e("required_fields", L(<<N(1)>>))>>)
   @@ (<<"u", "7">> :> <<e("required_fields", S(<<"a">>))>>)
   @@ (<<"u", "-">> :> <<e("indexes", Null)>>)
   @@ (<<"u", "s">> :> <<e("fields", O([x |-> N(1)]))>>)

-----------------------------------------------------------------------------
(* Texts: plain ones, ones with a line break and a label in them, and one  *)
(* that is not UTF-8.                                                      *)
Broken == <<"a", NL, "Key: ", "a">>
MCTexts == {<<"a">>, <<"b">>, Broken, <<"a", Invalid>>}

DataTxs == [kind : {"StoreData"}, subgrove : MCTexts, key : MCTexts, owner : MCTexts,
            data : {1, 2}, nonce : {1, 2}]
DeleteTxs == [kind : {"DeleteFileManifest"}, subgrove : MCTexts, key : MCTexts, owner : MCTexts,
              nonce : {1, 2}]
BaseManifest == [kind |-> "StoreFileManifest", subgrove |-> <<"a">>, key |-> <<"a">>,
                 owner |-> <<"a">>, filename |-> <<"a">>, contentType |-> <<"a">>,
                 totalSize |-> 1, contentHash |-> 1, chunkCount |-> 1, chunkSize |-> 1,
                 merkleRoot |-> 1, encryption |-> <<>>, nonce |-> 1]
ManifestTxs ==
  {[BaseManifest EXCEPT ![f] = v] : f \in {"subgrove", "key", "owner", "filename", "contentType"}, v \in MCTexts}
  \union {[BaseManifest EXCEPT ![f] = 2] : f \in {"totalSize", "contentHash", "chunkCount",
                                                  "chunkSize", "merkleRoot", "nonce"}}
  \union {[BaseManifest EXCEPT !.encryption = e] : e \in {<<1, 1>>, <<1, 2>>, <<2, 1>>}}
UnregisterTxs == [kind : {"UnregisterStorageNode"}, node : MCTexts, nonce : {1, 2}]

\* One text of each way not to be a DID.
Strangers == {<<"a">>, <<"b", "a">>, <<"did:willow:">>, Did(":"), <<>>,
              <<"did:willow:", "a", "a", "a", "a", "a", "a">>}

BaseGrant == [grantee |-> Did("a"), granteeKey |-> <<"a">>, epoch |-> 1, ephemeral |-> 1,
              encrypted |-> 1, grantedBy |-> <<"a">>, grantedAt |-> 1]
Grants ==
  {[BaseGrant EXCEPT !.grantee = d] : d \in Strangers \union {Did("a"), Did("b")}}
  \union {[BaseGrant EXCEPT ![f] = v] : f \in {"granteeKey", "grantedBy"}, v \in MCTexts}
  \union {[BaseGrant EXCEPT ![f] = 2] : f \in {"epoch", "ephemeral", "encrypted", "grantedAt"}}
GrantTxs == [kind : {"GrantSubgroveKey"}, subgrove : {<<"a">>, Broken}, sender : {<<"a">>, <<"b">>},
             grants : {<<g>> : g \in Grants}, nonce : {1}]
RotateTxs == [kind : {"RotateSubgroveKey"}, subgrove : {<<"a">>}, sender : {<<"a">>}, newEpoch : {1, 2},
              grants : {<<>>} \union {<<g>> : g \in Grants} \union {<<BaseGrant, g>> : g \in Grants},
              nonce : {1}]
RevokeTxs == [kind : {"RevokeSubgroveKey"},
              subgrove : {<<"a">>, <<"a", ":", "did:willow:", "a">>, <<"did:willow:">>, <<":">>, <<>>, <<"a", Invalid>>},
              revokee : {Did("a"), Did("b"), <<"did:willow:", "a", ":", "did:willow:", "a">>},
              sender : {Did("a"), Did("b"), <<"did:willow:", "a", ":", "did:willow:", "a">>},
              nonce : {1, 2}]

-----------------------------------------------------------------------------
(* Registrations: a base, and each field set to other values.              *)

Pricing(e, p, s) == O([enabled |-> e, price_per_query |-> p, owner_revenue_share_bps |-> s])
DataMode(name, writers, readers, pricing) ==
  O([name |-> name, writers |-> writers, free_readers |-> readers, read_pricing |-> pricing])
FileMode == [name |-> S(<<"a">>), max_file_size |-> N(9), replication_factor |-> N(2),
             writers |-> L(<<>>), free_readers |-> L(<<S(Did("a"))>>), read_pricing |-> Null]
KeyGrant == [grantee_did |-> S(Did("a")), key_epoch |-> N(0), grantee_public_key_id |-> S(<<"b">>),
             ephemeral_public_key |-> L(<<N(1), N(255)>>), encrypted_key |-> L(<<N(2)>>),
             granted_by |-> S(<<"a">>), granted_at |-> N(300)]
Private == O([allowed_indexers |-> Null, commitment_frequency |-> S(<<"Never">>)])

Base == [subgrove_id |-> S(<<"a">>), name |-> S(<<"b">>), description |-> S(<<>>),
         schema |-> S(<<"s">>), owner_did |-> S(Did("a")), admins |-> L(<<>>),
         initial_funding |-> Null, checkpoint_verification |-> O(<<>>),
         mode |-> O([DataStorage |-> DataMode(S(<<>>), L(<<>>), L(<<>>), Null)]),
         privacy |-> Null, initial_owner_key_grant |-> Null, template_config |-> Null,
         confirmation_depth |-> N(0), signature |-> L(<<N(1)>>), public_key_id |-> S(<<"a">>),
         nonce |-> N(1), cryptographic_completeness |-> B(FALSE)]
With(f, vs) == {[Base EXCEPT ![f] = v] : v \in vs}

MarshalledBases ==
  {[Base EXCEPT !.subgrove_id = S(i), !.name = S(n)] :
     i \in {<<"a">>, <<"a", "b">>, <<"-">>, <<>>, <<"a", ":">>, <<"a", "a", "a", "a">>}, n \in {<<"b">>, <<"b", "b">>, <<>>}}
  \union With("description", {S(<<"a">>)})
  \union With("schema", {S(s) : s \in DOMAIN MCSchemaOf} \union {S(<<"a">>)})
  \union With("owner_did", {S(<<"b">>), S(Broken)})
  \union With("admins", {L(<<S(Did("a"))>>), L(<<S(Did("a")), S(Did("b"))>>)}
                          \union {L(<<S(Did("a")), S(d)>>) : d \in Strangers})
  \union With("initial_funding", {N(0), N(70000)})
  \union With("checkpoint_verification", {O([required_tee |-> S(<<"IntelSgx">>)])})
  \union With("mode",
       {O([DataStorage |-> DataMode(S(<<"a">>), w, r, p)]) :
          w \in {L(<<>>), L(<<S(Did("a"))>>), L(<<S(<<"b">>)>>)}, r \in {L(<<>>), L(<<S(Did("a"))>>), L(<<S(<<"b">>)>>)},
          p \in {Null, Pricing(B(TRUE), N(7), N(1)), Pricing(B(FALSE), N(7), N(1))}}
       \union {O([FileStorage |-> O(FileMode)]),
               O([FileStorage |-> O([FileMode EXCEPT !.writers = L(<<S(Did("b"))>>)])]),
               O([DataStorage |-> DataMode(S(<<>>), L(<<>>), L(<<>>), Null),
                  FileStorage |-> O(FileMode)])})
  \union With("privacy", {Private, O([allowed_indexers |-> L(<<S(<<"a">>)>>),
                                      commitment_frequency |-> O([EveryNBlocks |-> N(5)])])})
  \union {[Base EXCEPT !.privacy = Private,
             !.initial_owner_key_grant = O([KeyGrant EXCEPT !.grantee_did = S(d), !.key_epoch = N(k)])] :
             d \in {Did("a"), Did("b")}, k \in {0, 1}}
  \union {[Base EXCEPT !.privacy = Private, !.owner_did = S(d),
             !.initial_owner_key_grant = O([KeyGrant EXCEPT !.grantee_did = S(d)])] : d \in Strangers}
  \union With("confirmation_depth", {N(1)}) \union With("public_key_id", {S(<<"b">>)})
  \union With("signature", {L(<<>>)}) \union With("nonce", {N(2)})
  \union With("cryptographic_completeness", {B(TRUE)})

RegisterTxs == {[kind |-> "RegisterSubgrove", json |-> O(b)] : b \in MarshalledBases}

MCTxs == DataTxs \union DeleteTxs \union ManifestTxs \union UnregisterTxs \union GrantTxs
           \union RotateTxs \union RevokeTxs \union RegisterTxs

-----------------------------------------------------------------------------
(* Any JSON: every field of every part missing, null or of another kind,   *)
(* the aliases, strings for numbers, and the indexing mode.                *)

Without(r, f) == [g \in DOMAIN r \ {f} |-> r[g]]
Oddities(r) ==
  {Without(r, f) : f \in DOMAIN r}
  \union {[r EXCEPT ![f] = v] : f \in DOMAIN r, v \in {Null, N(-1), N(300), S(<<"7", "0">>), B(TRUE), L(<<>>)}}

\* Payloads of variants without fields.
Payloads == {Null, N(5), O(<<>>)}

Module == [name |-> S(<<"a">>), hash |-> L([i \in 1 .. 32 |-> N(i)]), content |-> L(<<N(1)>>)]
Config == [min_indexers |-> N(1), max_indexers |-> N(2), reward_per_epoch |-> N(5),
           epoch_length |-> N(6), min_indexer_stake |-> S(<<"7">>)]
Complete == [log_config_hash |-> L([i \in 1 .. 4 |-> N(i)]), tx_config_hash |-> L([i \in 1 .. 4 |-> N(9)]),
             deferred |-> B(TRUE), bond_amount |-> N(4)]
Indexing == [manifest_content |-> L(<<N(1)>>), wasm_modules |-> L(<<>>),
             execution_mode |-> S(<<"ConsensusExecution">>), indexer_config |-> O(Config),
             retention_window |-> S(<<"VerifyOnly">>), completeness |-> Null,
             historical_auth_mode |-> S(<<"CanonizedAccumulator">>)]
IndexingOf(f, vs) == {[Indexing EXCEPT ![f] = v] : v \in vs}
Indexings ==
  Oddities(Indexing)
  \union IndexingOf("wasm_modules", {L(<<O(m)>>) : m \in {Module} \union Oddities(Module)} \union {L(<<O(Module), O(Module)>>)})
  \union IndexingOf("execution_mode",
       {O([IndexerExecution |-> O([sampling_rate_percent |-> N(n)])]) : n \in {5, 300}}
       \union {O([TeeExecution |-> O([tee_type |-> S(<<t>>)])]) : t \in {"AmdSev", "a"}}
       \union {O([TeeExecution |-> O([tee_type |-> O([AmdSev |-> Null])])])}
       \union {O([ConsensusExecution |-> p]) : p \in Payloads}
       \union {S(<<"TeeExecution">>), S(<<"a">>)})
  \union IndexingOf("indexer_config", {O(c) : c \in Oddities(Config)})
  \union IndexingOf("retention_window", {O([Blocks |-> N(3)]), O([Seconds |-> N(3)]), S(<<"Blocks">>)}
       \union {O([Indefinite |-> p]) : p \in Payloads} \union {O([VerifyOnly |-> p]) : p \in Payloads})
  \union IndexingOf("historical_auth_mode", {O([BftEquivalent |-> p]) : p \in Payloads})
  \union IndexingOf("completeness", {O(c) : c \in {Complete} \union Oddities(Complete)})

Template == [template_id |-> S(<<"a">>), template_version |-> N(3), variant_id |-> S(<<"b">>),
             parameters |-> L(<<N(1)>>), contracts |-> L(<<S(<<"a">>)>>),
             event_signatures |-> L(<<>>), chain |-> S(<<"a">>)]
DataFields == [name |-> S(<<"a">>), writers |-> L(<<>>), free_readers |-> L(<<S(<<"a">>)>>), read_pricing |-> Null]

MCJsons ==
  {O(r) : r \in Oddities(Base)}
  \union {O(r) : r \in
       With("mode", {O([BlockchainIndexing |-> O(i)]) : i \in Indexings}
                    \union {O([FileStorage |-> O(m)]) : m \in Oddities(FileMode)}
                    \union {O([DataStorage |-> O(m)]) : m \in Oddities(DataFields)}
                    \union {O([DataStorage |-> O(Without(DataFields, "free_readers") @@ [readers |-> L(<<>>)])]),
                            O([DataStorage |-> O(DataFields @@ [readers |-> L(<<>>)])]), O([a |-> O(<<>>)])})
       \union With("template_config", {O(t) : t \in {Template} \union Oddities(Template)})
       \union With("initial_owner_key_grant", {O(g) : g \in Oddities(KeyGrant)})
       \union With("checkpoint_verification", {O([required_tee |-> O([AmdSev |-> Null])])})
       \union With("privacy", {O(p) : p \in Oddities(Private[2])
         \union {[Private[2] EXCEPT !.commitment_frequency = O(v)] :
                    v \in UNION {{[Never |-> p], [EveryUpdate |-> p]} : p \in Payloads}}})}
=============================================================================
