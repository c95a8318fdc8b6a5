-------------------------- MODULE RegisterSubgrove --------------------------
(***************************************************************************)
(* RegisterSubgroveUnsignedBincode (consensus/register_subgrove.go): the   *)
(* bytes a registration's signed Config hashes, written from the JSON the  *)
(* transaction is sent as.                                                 *)
(*                                                                         *)
(* A JSON value is a tuple: <<"null">>, <<"bool", b>>, <<"num", n>>,       *)
(* <<"str", tokens>>, <<"arr", values>> or <<"obj", record>>.  A string is *)
(* a sequence of tokens and Utf8 gives each token's bytes.  Numbers are    *)
(* below 2^31, the largest TLC has, and are written at their full width.   *)
(***************************************************************************)
EXTENDS Integers, Sequences, FiniteSets, SequencesExt

CONSTANT Utf8   \* the bytes of each string token

Null   == <<"null">>
Missing == <<"absent">>     \* a field the JSON does not have
Bad    == <<-1>>           \* an error: nothing is signed (no byte is -1)

-----------------------------------------------------------------------------
(* The primitives: little-endian integers, lengths before contents. *)

LittleEndian(n, width) ==
  [i \in 1 .. width |-> IF i > 4 THEN 0 ELSE (n \div 256 ^ (i - 1)) % 256]

u8(n)   == LittleEndian(n, 1)
u32(n)  == LittleEndian(n, 4)
u64(n)  == LittleEndian(n, 8)
u128(n) == LittleEndian(n, 16)
boolean(b) == u8(IF b THEN 1 ELSE 0)

\* Mutation: a length of 4 bytes.
bytesVecShort(b) == u32(Len(b)) \o b

bytesVec(b) == u64(Len(b)) \o b

\* Fields written one after the other; an error of any is an error.
Fields(parts) ==
  IF \E i \in DOMAIN parts : parts[i] = Bad THEN Bad ELSE FlattenSeq(parts)

-----------------------------------------------------------------------------
(* The accessors: a field that is missing, null or of the wrong kind is     *)
(* refused unless it has a default, which only a missing field takes.       *)

Kind(v) == v[1]
IsObject(v) == Kind(v) = "obj"
At(v, name) == IF name \in DOMAIN v[2] THEN v[2][name] ELSE Missing
Default(v, def) == IF v = Missing THEN def ELSE v

Utf8Bytes(tokens) == IF tokens = <<>> THEN <<>> ELSE FlattenSeq([i \in DOMAIN tokens |-> Utf8[tokens[i]]])

str(v) == IF Kind(v) = "str" THEN bytesVec(Utf8Bytes(v[2])) ELSE Bad

\* A list whose elements are written so.
Vec(v, elements) == IF Kind(v) # "arr" THEN Bad ELSE Fields(<<u64(Len(v[2]))>> \o elements)

strs(v) == Vec(v, [i \in DOMAIN v[2] |-> str(v[2][i])])

\* strconv.ParseUint: a negative number or one too wide is refused.
uint(v, width) ==
  IF Kind(v) = "num" /\ v[2] >= 0 /\ (width = 1 => v[2] < 256)
    THEN LittleEndian(v[2], width) ELSE Bad

oneByte(v) == uint(v, 1)
bytes(v) == Vec(v, [i \in DOMAIN v[2] |-> oneByte(v[2][i])])

bool(v) == IF Kind(v) = "bool" THEN boolean(v[2]) ELSE Bad

\* Decimal digits, leading zeros allowed, none refused.
ParseUint128(b) ==
  IF b = <<>> \/ \E i \in DOMAIN b : b[i] \notin 48 .. 57 THEN Bad
  ELSE u128(FoldLeft(LAMBDA n, d : n * 10 + (d - 48), 0, b))

asU128(v, stringToo) ==
  CASE Kind(v) = "num" -> uint(v, 16)
    [] Kind(v) = "str" /\ stringToo -> ParseUint128(Utf8Bytes(v[2]))
    [] OTHER -> Bad

U128Flexible(v) == asU128(v, TRUE)

\* Missing or null is None; another value is written so.
option(v, some) == IF v \in {Missing, Null} THEN u8(0) ELSE Fields(<<u8(1), some>>)

-----------------------------------------------------------------------------
(* Enums: "Variant" or {"Variant": payload}, written as the variant's index *)
(* and its payload.                                                         *)

teeTypes == <<"AwsNitro", "IntelSgx", "AmdSev">>
subgroveModes == <<"DataStorage", "FileStorage", "BlockchainIndexing">>
commitmentFrequencies == <<"EveryUpdate", "EveryNBlocks", "EveryNSeconds", "Never">>
executionModes == <<"ConsensusExecution", "IndexerExecution", "TeeExecution">>
retentionWindows == <<"Blocks", "Seconds", "Indefinite", "VerifyOnly">>
historicalAuthModes == <<"BftEquivalent", "CanonizedAccumulator">>
defaultEpochLength == 100

\* The name and the payload, or "" for what is no enum value.
enumParts(v) ==
  CASE Kind(v) = "str" /\ Len(v[2]) = 1 -> <<v[2][1], Null>>
    [] Kind(v) = "obj" /\ Cardinality(DOMAIN v[2]) = 1 ->
         LET name == CHOOSE n \in DOMAIN v[2] : TRUE IN <<name, v[2][name]>>
    [] OTHER -> <<"", Null>>

variant(name, variants) ==
  IF Contains(variants, name)
    THEN u32((CHOOSE i \in DOMAIN variants : variants[i] = name) - 1) ELSE Bad

unitVariant(v, variants) ==
  IF Kind(v) = "str" /\ Len(v[2]) = 1 THEN variant(v[2][1], variants) ELSE Bad

\* An enum whose variants in withNumber carry one u64.
NumberedVariant(v, variants, withNumber) ==
  LET parts == enumParts(v)
  IN  Fields(<<variant(parts[1], variants),
               IF parts[1] \in withNumber THEN uint(parts[2], 8) ELSE <<>>>>)

TeeType(v) == unitVariant(v, teeTypes)

-----------------------------------------------------------------------------
(* The parts of a registration, in the order the chain's struct has them.  *)

readPricing(v) ==
  IF ~IsObject(v) THEN Bad
  ELSE Fields(<<bool(At(v, "enabled")),
                asU128(At(v, "price_per_query"), FALSE),
                uint(At(v, "owner_revenue_share_bps"), 4)>>)

\* The chain also reads free_readers from "readers", but not from both.
FreeReaders(m) ==
  IF At(m, "readers") = Missing THEN At(m, "free_readers")
  ELSE IF At(m, "free_readers") = Missing THEN At(m, "readers") ELSE Missing

DataStorage(m) ==
  Fields(<<str(At(m, "name")), strs(At(m, "writers")), strs(FreeReaders(m)),
           option(At(m, "read_pricing"), readPricing(At(m, "read_pricing")))>>)

FileStorage(m) ==
  Fields(<<str(At(m, "name")), uint(At(m, "max_file_size"), 8),
           uint(At(m, "replication_factor"), 1),
           strs(At(m, "writers")), strs(At(m, "free_readers")),
           option(At(m, "read_pricing"), readPricing(At(m, "read_pricing"))),
           uint(Default(At(m, "retention_period"), <<"num", 0>>), 8)>>)

\* A hash is its bytes alone, without a length.
wasmModule(v) ==
  IF ~IsObject(v) THEN Bad
  ELSE LET hash == At(v, "hash")
       IN  Fields(<<str(At(v, "name")),
                    IF Kind(hash) = "arr" /\ Len(hash[2]) = 32
                      THEN Fields([i \in 1 .. 32 |-> oneByte(hash[2][i])]) ELSE Bad,
                    bytes(At(v, "content"))>>)

wasmModules(v) == Vec(v, [i \in DOMAIN v[2] |-> wasmModule(v[2][i])])

executionMode(v) ==
  LET parts == enumParts(v)
      ex    == parts[2]
  IN  Fields(<<variant(parts[1], executionModes),
        CASE parts[1] = "IndexerExecution" ->
               IF IsObject(ex) THEN uint(At(ex, "sampling_rate_percent"), 1) ELSE Bad
          [] parts[1] = "TeeExecution" ->
               IF IsObject(ex) THEN TeeType(At(ex, "tee_type")) ELSE Bad
          [] OTHER -> <<>>>>)

indexerConfig(v) ==
  IF ~IsObject(v) THEN Bad
  ELSE Fields(<<uint(At(v, "min_indexers"), 1), uint(At(v, "max_indexers"), 1),
                U128Flexible(At(v, "reward_per_epoch")),
                uint(Default(At(v, "epoch_length"), <<"num", defaultEpochLength>>), 8),
                U128Flexible(At(v, "min_indexer_stake"))>>)

configHash(v) ==
  IF Kind(v) = "arr" /\ Len(v[2]) = 4
    THEN Fields([i \in 1 .. 4 |-> uint(v[2][i], 4)]) ELSE Bad

completeness(v) ==
  IF ~IsObject(v) THEN Bad
  ELSE Fields(<<configHash(At(v, "log_config_hash")), configHash(At(v, "tx_config_hash")),
                bool(Default(At(v, "deferred"), <<"bool", FALSE>>)),
                asU128(Default(At(v, "bond_amount"), <<"num", 0>>), FALSE)>>)

blockchainIndexing(m) ==
  Fields(<<bytes(At(m, "manifest_content")),
           wasmModules(Default(At(m, "wasm_modules"), <<"arr", <<>>>>)),
           executionMode(At(m, "execution_mode")),
           indexerConfig(At(m, "indexer_config")),
           NumberedVariant(Default(At(m, "retention_window"), <<"str", <<"Indefinite">>>>),
                           retentionWindows, {"Blocks", "Seconds"}),
           option(At(m, "completeness"), completeness(At(m, "completeness"))),
           unitVariant(Default(At(m, "historical_auth_mode"), <<"str", <<"BftEquivalent">>>>),
                       historicalAuthModes)>>)

subgroveMode(v) ==
  LET parts == enumParts(v)
      m     == parts[2]
  IN  IF ~IsObject(m) THEN Bad
      ELSE Fields(<<variant(parts[1], subgroveModes),
             CASE parts[1] = "DataStorage" -> DataStorage(m)
               [] parts[1] = "FileStorage" -> FileStorage(m)
               [] OTHER -> blockchainIndexing(m)>>)

privacy(v) ==
  IF ~IsObject(v) THEN Bad
  ELSE Fields(<<option(At(v, "allowed_indexers"), strs(At(v, "allowed_indexers"))),
                NumberedVariant(At(v, "commitment_frequency"), commitmentFrequencies,
                                {"EveryNBlocks", "EveryNSeconds"})>>)

keyGrant(v) ==
  IF ~IsObject(v) THEN Bad
  ELSE Fields(<<str(At(v, "grantee_did")), uint(At(v, "key_epoch"), 4),
                str(At(v, "grantee_public_key_id")),
                bytes(At(v, "ephemeral_public_key")), bytes(At(v, "encrypted_key")),
                str(At(v, "granted_by")), uint(At(v, "granted_at"), 8)>>)

templateConfig(v) ==
  IF ~IsObject(v) THEN Bad
  ELSE Fields(<<str(At(v, "template_id")), uint(At(v, "template_version"), 4),
                str(At(v, "variant_id")), bytes(At(v, "parameters")),
                strs(At(v, "contracts")), strs(At(v, "event_signatures")),
                option(At(v, "chain"), str(At(v, "chain")))>>)

checkpointVerification(v) ==
  IF IsObject(v) THEN option(At(v, "required_tee"), TeeType(At(v, "required_tee"))) ELSE Bad

defaultMode ==
  <<"obj", [DataStorage |-> <<"obj", [name |-> <<"str", <<>>>>, writers |-> <<"arr", <<>>>>,
                                      free_readers |-> <<"arr", <<>>>>]>>]>>

\* The whole transaction, its signature required but replaced by an empty one.
registerSubgrove(t) ==
  IF ~IsObject(t) THEN Bad
  ELSE Fields(<<
    str(At(t, "subgrove_id")), str(At(t, "name")),
    str(Default(At(t, "description"), <<"str", <<>>>>)),
    str(At(t, "schema")), str(At(t, "owner_did")),
    strs(Default(At(t, "admins"), <<"arr", <<>>>>)),
    option(At(t, "initial_funding"), U128Flexible(At(t, "initial_funding"))),
    checkpointVerification(Default(At(t, "checkpoint_verification"), <<"obj", <<>>>>)),
    subgroveMode(Default(At(t, "mode"), defaultMode)),
    option(At(t, "privacy"), privacy(At(t, "privacy"))),
    option(At(t, "initial_owner_key_grant"), keyGrant(At(t, "initial_owner_key_grant"))),
    option(At(t, "template_config"), templateConfig(At(t, "template_config"))),
    uint(Default(At(t, "confirmation_depth"), <<"num", 0>>), 4),
    IF bytes(At(t, "signature")) = Bad THEN Bad ELSE bytesVec(<<>>),
    str(At(t, "public_key_id")), uint(At(t, "nonce"), 8),
    bool(Default(At(t, "cryptographic_completeness"), <<"bool", FALSE>>))>>)
=============================================================================
