------------------------- MODULE ChainRegistration -------------------------
(***************************************************************************)
(* External: the chain's RegisterSubgroveTx as a type, what a JSON text    *)
(* means under that type (the fields the chain fills in included), and how *)
(* bincode bytes read back under it.  It is written from the type, field   *)
(* by field, and shares nothing with the encoder of RegisterSubgrove but   *)
(* the shape of JSON values: the two are compared.                         *)
(*                                                                         *)
(* A type is <<"str">>, <<"bool">>, <<"uint", width>>, <<"u128", flexible>>*)
(* <<"unit">>, <<"vec", T>>, <<"array", n, T>>, <<"option", T>>, <<"enum", variants>>  *)
(* with variants <<name, T>>, or <<"struct", fields>> with fields          *)
(* <<names, T, default>>.  The value of a type: bytes, a boolean, a        *)
(* number, a sequence, or for an enum its index and its payload.           *)
(***************************************************************************)
EXTENDS Integers, Sequences, FiniteSets, SequencesExt

CONSTANT Utf8

NoDefault == <<"absent">>
Required(name, T) == <<{name}, T, NoDefault>>
OrElse(name, T, default) == <<{name}, T, default>>

Str == <<"str">>
Bool == <<"bool">>
Uint(width) == <<"uint", width>>
U128 == <<"u128", FALSE>>
U128Flex == <<"u128", TRUE>>
List(T) == <<"vec", T>>
ByteList == List(Uint(1))
Unit == <<"unit">>    \* no fields: a payload, where one is given, is null
UnitEnum(names) == <<"enum", [i \in DOMAIN names |-> <<names[i], Unit>>]>>
Opt(name, T) == <<{name}, <<"option", T>>, <<"null">>>>

Tee == UnitEnum(<<"AwsNitro", "IntelSgx", "AmdSev">>)

Pricing == <<"struct", <<Required("enabled", Bool), Required("price_per_query", U128),
                         Required("owner_revenue_share_bps", Uint(4))>>>>

Indexing == <<"struct", <<
  Required("manifest_content", ByteList),
  OrElse("wasm_modules",
         List(<<"struct", <<Required("name", Str), Required("hash", <<"array", 32, Uint(1)>>),
                            Required("content", ByteList)>>>>),
         <<"arr", <<>>>>),
  Required("execution_mode", <<"enum", <<
    <<"ConsensusExecution", Unit>>,
    <<"IndexerExecution", <<"struct", <<Required("sampling_rate_percent", Uint(1))>>>>>>,
    <<"TeeExecution", <<"struct", <<Required("tee_type", Tee)>>>>>>>>>>),
  Required("indexer_config", <<"struct", <<
    Required("min_indexers", Uint(1)), Required("max_indexers", Uint(1)),
    Required("reward_per_epoch", U128Flex), OrElse("epoch_length", Uint(8), <<"num", 100>>),
    Required("min_indexer_stake", U128Flex)>>>>),
  OrElse("retention_window", <<"enum", <<
    <<"Blocks", Uint(8)>>, <<"Seconds", Uint(8)>>, <<"Indefinite", Unit>>,
    <<"VerifyOnly", Unit>>>>>>, <<"str", <<"Indefinite">>>>),
  Opt("completeness", <<"struct", <<
    Required("log_config_hash", <<"array", 4, Uint(4)>>),
    Required("tx_config_hash", <<"array", 4, Uint(4)>>),
    OrElse("deferred", Bool, <<"bool", FALSE>>),
    OrElse("bond_amount", U128, <<"num", 0>>)>>>>),
  OrElse("historical_auth_mode", UnitEnum(<<"BftEquivalent", "CanonizedAccumulator">>),
         <<"str", <<"BftEquivalent">>>>)>>>>

Mode == <<"enum", <<
  <<"DataStorage", <<"struct", <<
     Required("name", Str), Required("writers", List(Str)),
     <<{"free_readers", "readers"}, List(Str), NoDefault>>,
     Opt("read_pricing", Pricing)>>>>>>,
  <<"FileStorage", <<"struct", <<
     Required("name", Str), Required("max_file_size", Uint(8)),
     Required("replication_factor", Uint(1)), Required("writers", List(Str)),
     Required("free_readers", List(Str)), Opt("read_pricing", Pricing),
     OrElse("retention_period", Uint(8), <<"num", 0>>)>>>>>>,
  <<"BlockchainIndexing", Indexing>>>>>>

RegisterSubgroveTx == <<"struct", <<
  Required("subgrove_id", Str), Required("name", Str), OrElse("description", Str, <<"str", <<>>>>),
  Required("schema", Str), Required("owner_did", Str), OrElse("admins", List(Str), <<"arr", <<>>>>),
  Opt("initial_funding", U128Flex),
  OrElse("checkpoint_verification", <<"struct", <<Opt("required_tee", Tee)>>>>, <<"obj", <<>>>>),
  OrElse("mode", Mode, <<"obj", [DataStorage |-> <<"obj",
           [name |-> <<"str", <<>>>>, writers |-> <<"arr", <<>>>>, readers |-> <<"arr", <<>>>>]>>]>>),
  Opt("privacy", <<"struct", <<
    Opt("allowed_indexers", List(Str)),
    Required("commitment_frequency", <<"enum", <<
      <<"EveryUpdate", Unit>>, <<"EveryNBlocks", Uint(8)>>, <<"EveryNSeconds", Uint(8)>>,
      <<"Never", Unit>>>>>>)>>>>),
  Opt("initial_owner_key_grant", <<"struct", <<
    Required("grantee_did", Str), Required("key_epoch", Uint(4)),
    Required("grantee_public_key_id", Str), Required("ephemeral_public_key", ByteList),
    Required("encrypted_key", ByteList), Required("granted_by", Str),
    Required("granted_at", Uint(8))>>>>),
  Opt("template_config", <<"struct", <<
    Required("template_id", Str), Required("template_version", Uint(4)),
    Required("variant_id", Str), Required("parameters", ByteList),
    Required("contracts", List(Str)), Required("event_signatures", List(Str)),
    Opt("chain", Str)>>>>),
  OrElse("confirmation_depth", Uint(4), <<"num", 0>>),
  Required("signature", ByteList), Required("public_key_id", Str), Required("nonce", Uint(8)),
  OrElse("cryptographic_completeness", Bool, <<"bool", FALSE>>)>>>>

-----------------------------------------------------------------------------
(* What a JSON value means under a type.  A result is <<value>>, or <<>>   *)
(* when the chain refuses to read it.                                      *)

Wrong == <<>>
AllOf(results) ==
  IF \E i \in DOMAIN results : results[i] = Wrong THEN Wrong
  ELSE <<[i \in DOMAIN results |-> results[i][1]]>>

TextBytes(tokens) ==
  FoldLeft(LAMBDA acc, t : acc \o Utf8[t], <<>>, tokens)

Digits(b) == FoldLeft(LAMBDA n, d : n * 10 + (d - 48), 0, b)

RECURSIVE Meaning(_, _)
Meaning(T, v) ==
  CASE T[1] = "str"  -> IF v[1] = "str" THEN <<TextBytes(v[2])>> ELSE Wrong
    [] T[1] = "bool" -> IF v[1] = "bool" THEN <<v[2]>> ELSE Wrong
    [] T[1] = "uint" -> IF v[1] = "num" /\ v[2] >= 0 /\ (T[2] > 1 \/ v[2] < 256)
                          THEN <<v[2]>> ELSE Wrong
    [] T[1] = "u128" ->
         CASE v[1] = "num" /\ v[2] >= 0 -> <<v[2]>>
           [] v[1] = "str" /\ T[2] /\ v[2] # <<>>
                /\ \A i \in DOMAIN TextBytes(v[2]) : TextBytes(v[2])[i] \in 48 .. 57
                -> <<Digits(TextBytes(v[2]))>>
           [] OTHER -> Wrong
    [] T[1] = "unit" -> IF v = <<"null">> THEN <<<<>>>> ELSE Wrong
    [] T[1] = "vec" -> IF v[1] = "arr"
                         THEN AllOf([i \in DOMAIN v[2] |-> Meaning(T[2], v[2][i])]) ELSE Wrong
    [] T[1] = "array" -> IF v[1] = "arr" /\ Len(v[2]) = T[2]
                           THEN AllOf([i \in DOMAIN v[2] |-> Meaning(T[3], v[2][i])]) ELSE Wrong
    [] T[1] = "option" -> IF v = <<"null">> THEN <<<<>>>> ELSE AllOf(<<Meaning(T[2], v)>>)
    [] T[1] = "enum" ->
         LET named(name) == {i \in DOMAIN T[2] : T[2][i][1] = name}
             ofUnit == IF v[1] = "str" /\ Len(v[2]) = 1
                         THEN {i \in named(v[2][1]) : T[2][i][2] = Unit} ELSE {}
             ofObj  == IF v[1] = "obj" /\ Cardinality(DOMAIN v[2]) = 1
                         THEN UNION {named(n) : n \in DOMAIN v[2]} ELSE {}
         IN  CASE ofUnit # {} -> <<<<CHOOSE i \in ofUnit : TRUE, <<>>>>>>
               [] ofObj # {} ->
                    LET i == CHOOSE i \in ofObj : TRUE
                        p == Meaning(T[2][i][2], v[2][T[2][i][1]])
                    IN  IF p = Wrong THEN Wrong ELSE <<<<i, p[1]>>>>
               [] OTHER -> Wrong
    [] T[1] = "struct" ->
         IF v[1] # "obj" THEN Wrong
         ELSE AllOf([i \in DOMAIN T[2] |->
                LET given == T[2][i][1] \intersect DOMAIN v[2]
                IN  CASE Cardinality(given) = 1 ->
                           Meaning(T[2][i][2], v[2][CHOOSE n \in given : TRUE])
                      [] given = {} /\ T[2][i][3] # NoDefault ->
                           Meaning(T[2][i][2], T[2][i][3])
                      [] OTHER -> Wrong])

-----------------------------------------------------------------------------
(* Reading bincode: a value and the bytes after it, or Wrong. *)

Number(b, width) ==
  FoldLeft(LAMBDA n, i : n + b[i] * 256 ^ (i - 1), 0, [i \in 1 .. (IF width > 3 THEN 3 ELSE width) |-> i])

RECURSIVE Read(_, _), ReadAll(_, _)
\* Values of the types Ts, one after the other.
ReadAll(Ts, b) ==
  IF Ts = <<>> THEN <<<<>>, b>>
  ELSE LET first == Read(Head(Ts), b)
       IN  IF first = Wrong THEN Wrong
           ELSE LET others == ReadAll(Tail(Ts), first[2])
                IN  IF others = Wrong THEN Wrong
                    ELSE <<<<first[1]>> \o others[1], others[2]>>

Drop(b, n) == SubSeq(b, n + 1, Len(b))
Counted(n, T, b) ==
  IF n > Len(b) THEN Wrong ELSE ReadAll([i \in 1 .. n |-> T], b)

Read(T, b) ==
  CASE T[1] \in {"uint", "u128", "bool"} ->
         LET width == CASE T[1] = "uint" -> T[2] [] T[1] = "u128" -> 16 [] OTHER -> 1
         IN  IF Len(b) < width THEN Wrong
             ELSE IF T[1] = "bool" THEN <<b[1] = 1, Drop(b, 1)>>
             ELSE <<Number(b, width), Drop(b, width)>>
    [] T[1] = "str" -> IF Len(b) < 8 \/ Number(b, 8) > Len(b) - 8 THEN Wrong
                       ELSE <<SubSeq(b, 9, 8 + Number(b, 8)), Drop(b, 8 + Number(b, 8))>>
    [] T[1] = "unit" -> <<<<>>, b>>
    [] T[1] = "vec" -> IF Len(b) < 8 THEN Wrong ELSE Counted(Number(b, 8), T[2], Drop(b, 8))
    [] T[1] = "array" -> Counted(T[2], T[3], b)
    [] T[1] = "option" -> IF b = <<>> THEN Wrong ELSE Counted(b[1], T[2], Drop(b, 1))
    [] T[1] = "enum" ->
         IF Len(b) < 4 \/ Number(b, 4) >= Len(T[2]) THEN Wrong
         ELSE LET i == Number(b, 4) + 1
                  p == Read(T[2][i][2], Drop(b, 4))
              IN  IF p = Wrong THEN Wrong ELSE <<<<i, p[1]>>, p[2]>>
    [] T[1] = "struct" -> ReadAll([i \in DOMAIN T[2] |-> T[2][i][2]], b)
=============================================================================
