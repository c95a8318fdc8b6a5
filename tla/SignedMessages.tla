--------------------------- MODULE SignedMessages ---------------------------
(***************************************************************************)
(* The messages transactions are signed over (signed_messages.go): kinds,  *)
(* "Label: value" lines and the refusals of text, DIDs, rotations,         *)
(* revocations and registrations, and what the signature then stands for   *)
(* on the chain.                                                           *)
(*                                                                         *)
(* The owner signs one transaction.  The chain (external) rebuilds the     *)
(* message from the JSON it is sent and runs a transaction whose rebuilt   *)
(* message was signed; anyone may send it any transaction with the         *)
(* signature.  Text is a sequence of tokens; a label, a line break, ':',   *)
(* "did:willow:" and a byte that is not UTF-8 are tokens of their own.     *)
(* Numbers, bytes and hashes are tokens too, SHA-256 without collisions.   *)
(***************************************************************************)
EXTENDS RegisterSubgrove, TLC

CONSTANTS
  Txs,         \* the transactions: records with a kind
  Numbers,     \* the numbers in them, and of grants in a rotation
  Blobs,       \* the byte strings in them
  RegistrationMeans(_),  \* what the chain reads the JSON of a registration as
  Jsons,       \* other JSON given to RegisterSubgroveUnsignedBincode
  SchemaOf,    \* the JSON object a schema text parses as: its members, in order
  MaxId,       \* the longest subgrove id, in tokens (64 bytes in the code)
  MaxDid       \* the longest DID, in tokens (128 bytes in the code)

VARIABLES
  tx,       \* the transaction the owner signed, or NoTx
  message,  \* the message it was signed over, or Refused
  outcome,  \* "", "refused", "signed", "ran" or "rejected"
  ran       \* the transactions the chain ran under the signature

vars == <<tx, message, outcome, ran>>

NoTx == [kind |-> "none"]
Refused == <<"refused">>

NL == "\n"
Invalid == "\\xff"    \* a byte that is not UTF-8
Replacement == "U+FFFD"
Plain == {"a", "b", "-", "_"}    \* letters and digits, and '-' and '_'
Alnum == {"a", "b"}

-----------------------------------------------------------------------------
(* Lines. *)

\* Mutation: line breaks are let through.
BadTextButBreaks(v) == Contains(v, Invalid)

\* text refuses a value with a line break or that is not UTF-8.
BadText(v) == Contains(v, NL) \/ Contains(v, Invalid)

line(label, v) == <<label>> \o v
text(label, v) == line(label, v)

\* Lines with a separator between them (strings.Join).
JoinedBy(sep, lines) ==
  LET rest[i \in 1 .. Len(lines)] ==
        IF i = Len(lines) THEN lines[i] ELSE lines[i] \o (<<sep>> \o rest[i + 1])
  IN  rest[1]

\* Values of lines that hold no line break: numbers, bytes and hashes.
Decimal(n) == <<ToString(n)>>
Hex(b) == <<ToString(<<"hex", b>>)>>
HexSha256(b) == <<ToString(<<"sha256", b>>)>>

-----------------------------------------------------------------------------
(* What the builders refuse. *)

validateWillowDID(did) ==
  /\ Len(did) \in 2 .. MaxDid
  /\ did[1] = "did:willow:"
  /\ \A i \in 2 .. Len(did) : did[i] \in Plain

validateStorageSubgroveID(id) ==
  /\ Len(id) \in 1 .. MaxId
  /\ id[1] \in Alnum
  /\ \A i \in DOMAIN id : id[i] \in Plain

validateGrantees(grants) == \A i \in DOMAIN grants : validateWillowDID(grants[i].grantee)

\* Mutation: the grantees are not looked at.
validateRotationAnyGrantee(t) ==
  /\ t.grants # <<>>
  /\ \A i \in DOMAIN t.grants : t.grants[i].epoch = t.newEpoch

validateRotation(t) ==
  /\ t.grants # <<>>
  /\ \A i \in DOMAIN t.grants : t.grants[i].epoch = t.newEpoch
  /\ validateGrantees(t.grants)

validateRevoke(t) ==
  /\ t.subgrove # <<>>
  /\ ~Contains(t.subgrove, ":") /\ ~Contains(t.subgrove, "did:willow:")   \* both hold ':'
  /\ validateWillowDID(t.revokee)
  /\ validateWillowDID(t.sender)

chainFieldTypes == {<<"string">>, <<"number">>, <<"boolean">>, <<"array">>, <<"object">>, <<"bytes">>}

\* One known member of the schema object has the chain's form.
SchemaMember(e) ==
  CASE e.key = "version" -> Kind(e.value) = "num" /\ e.value[2] >= 0
    [] e.key = "fields" ->
         /\ IsObject(e.value)
         /\ \A f \in DOMAIN e.value[2] : /\ Kind(e.value[2][f]) = "str"
                                         /\ e.value[2][f][2] \in chainFieldTypes
    [] e.key = "indexes" -> Kind(e.value) = "arr" /\ e.value[2] = <<>>
    [] e.key = "required_fields" ->
         Kind(e.value) = "arr" /\ \A i \in DOMAIN e.value[2] : Kind(e.value[2][i]) = "str"
    [] OTHER -> TRUE

\* An object whose known members appear once each; the loop remembers those
\* seen, and a member it does not know is skipped.
checkChainSchema(schema) ==
  /\ schema \in DOMAIN SchemaOf
  /\ LET entries == SchemaOf[schema]
         known   == {"version", "fields", "indexes", "required_fields"}
     IN  \A i \in DOMAIN entries :
           entries[i].key \in known =>
             /\ \A j \in 1 .. i - 1 : entries[j].key # entries[i].key
             /\ SchemaMember(entries[i])

-----------------------------------------------------------------------------
(* Registrations: t.json is what the transaction marshals to. *)

Tokens(v) == v[2]
TokensAt(v, name) == Tokens(At(v, name))
AllDIDs(v) == \A i \in DOMAIN v[2] : validateWillowDID(Tokens(v[2][i]))

\* MarshalJSON sends a nil Mode as an empty DataStorage.
ModeName(j) == CHOOSE n \in DOMAIN At(j, "mode")[2] : TRUE
OneMode(j) == Cardinality(DOMAIN At(j, "mode")[2]) = 1

checkStorageRegistration(j) ==
  LET mode  == At(At(j, "mode"), ModeName(j))
      grant == At(j, "initial_owner_key_grant")
  IN  /\ validateStorageSubgroveID(TokensAt(j, "subgrove_id"))
      /\ AllDIDs(At(j, "admins"))
      /\ AllDIDs(At(mode, "writers"))
      /\ AllDIDs(At(mode, "free_readers"))
      /\ checkChainSchema(TokensAt(j, "schema"))
      /\ ModeName(j) = "DataStorage" /\ At(j, "privacy") # Null /\ grant # Null =>
           /\ At(grant, "key_epoch")[2] = 0
           /\ TokensAt(grant, "grantee_did") = TokensAt(j, "owner_did")
           /\ validateWillowDID(TokensAt(grant, "grantee_did"))

RegisterLines(j) ==
  <<text("Subgrove: ", TokensAt(j, "subgrove_id")), text("Owner: ", TokensAt(j, "owner_did")),
    line("Config: ", HexSha256(registerSubgrove(j))), line("Nonce: ", Decimal(At(j, "nonce")[2]))>>

\* What FormatRegisterSubgroveMessage signs at all.
Registrable(j) ==
  /\ OneMode(j)
  /\ ModeName(j) # "BlockchainIndexing"
  /\ checkStorageRegistration(j)
  /\ registerSubgrove(j) # Bad

-----------------------------------------------------------------------------
(* The lines of the other messages. *)

DataStoreLines(t) ==
  <<text("Subgrove: ", t.subgrove), text("Key: ", t.key), text("Owner: ", t.owner),
    line("DataHash: ", HexSha256(t.data)), line("Nonce: ", Decimal(t.nonce))>>

EncryptionLine(e) ==
  IF e = <<>> THEN <<"none">> ELSE <<Decimal(e[1])[1], ":", Hex(e[2])[1]>>

ManifestLines(t) ==
  <<text("Subgrove: ", t.subgrove), text("Key: ", t.key), text("Owner: ", t.owner),
    text("Filename: ", t.filename), text("ContentType: ", t.contentType),
    line("TotalSize: ", Decimal(t.totalSize)), line("ContentHash: ", Hex(t.contentHash)),
    line("ChunkCount: ", Decimal(t.chunkCount)), line("ChunkSize: ", Decimal(t.chunkSize)),
    line("ChunkMerkleRoot: ", Hex(t.merkleRoot)), line("Encryption: ", EncryptionLine(t.encryption)),
    line("Nonce: ", Decimal(t.nonce))>>

DeleteLines(t) ==
  <<text("Subgrove: ", t.subgrove), text("Key: ", t.key), text("Owner: ", t.owner),
    line("Nonce: ", Decimal(t.nonce))>>

UnregisterLines(t) == <<text("Node: ", t.node), line("Nonce: ", Decimal(t.nonce))>>

grant(g) ==
  <<text("Grantee: ", g.grantee), text("GranteeKey: ", g.granteeKey),
    line("KeyEpoch: ", Decimal(g.epoch)), line("EphemeralKey: ", Hex(g.ephemeral)),
    line("EncryptedKey: ", Hex(g.encrypted)), text("GrantedBy: ", g.grantedBy),
    line("GrantedAt: ", Decimal(g.grantedAt))>>

GrantLines(t) ==
  <<text("Subgrove: ", t.subgrove), text("Sender: ", t.sender)>> \o grant(t.grants[1])
    \o <<line("Nonce: ", Decimal(t.nonce))>>

RotateLines(t) ==
  <<text("Subgrove: ", t.subgrove), text("Sender: ", t.sender),
    line("NewEpoch: ", Decimal(t.newEpoch)), line("Grants: ", Decimal(Len(t.grants)))>>
    \o [i \in 1 .. 7 * Len(t.grants) |-> grant(t.grants[(i - 1) \div 7 + 1])[((i - 1) % 7) + 1]]
    \o <<line("Nonce: ", Decimal(t.nonce))>>

\* One line joined by ':' instead of labelled lines.
RevokeText(t) ==
  JoinedBy(":", <<<<t.kind>>, t.subgrove, t.revokee, t.sender, Decimal(t.nonce)>>)

-----------------------------------------------------------------------------
Lines(t) ==
  CASE t.kind = "StoreData"             -> DataStoreLines(t)
    [] t.kind = "StoreFileManifest"     -> ManifestLines(t)
    [] t.kind = "DeleteFileManifest"    -> DeleteLines(t)
    [] t.kind = "UnregisterStorageNode" -> UnregisterLines(t)
    [] t.kind = "GrantSubgroveKey"      -> GrantLines(t)
    [] t.kind = "RotateSubgroveKey"     -> RotateLines(t)
    [] t.kind = "RegisterSubgrove"      -> RegisterLines(t.json)

\* The message of a transaction's fields, without any refusal.
MessageText(t) ==
  IF t.kind = "RevokeSubgroveKey" THEN RevokeText(t) ELSE JoinedBy(NL, <<<<t.kind>>>> \o Lines(t))

TextFields == {"subgrove", "key", "owner", "filename", "contentType", "node", "sender", "revokee"}
GrantTexts(g) == {g.grantee, g.granteeKey, g.grantedBy}

\* The text fields a message is built from.
TextsOf(t) ==
  CASE t.kind = "RegisterSubgrove" -> {TokensAt(t.json, "subgrove_id"), TokensAt(t.json, "owner_did")}
    [] t.kind = "RevokeSubgroveKey" -> {}
    [] OTHER -> {t[f] : f \in DOMAIN t \intersect TextFields}
                  \union (IF t.kind \in {"GrantSubgroveKey", "RotateSubgroveKey"}
                            THEN UNION {GrantTexts(t.grants[i]) : i \in DOMAIN t.grants} ELSE {})

\* What the builders refuse before they build.
Valid(t) ==
  CASE t.kind = "RegisterSubgrove"  -> Registrable(t.json)
    [] t.kind = "RevokeSubgroveKey" -> validateRevoke(t)
    [] t.kind = "GrantSubgroveKey"  -> validateGrantees(t.grants)
    [] t.kind = "RotateSubgroveKey" -> validateRotation(t)
    [] OTHER -> TRUE

\* The message a transaction is signed over, or Refused.
Format(t) ==
  IF Valid(t) /\ \A v \in TextsOf(t) : ~BadText(v) THEN MessageText(t) ELSE Refused

-----------------------------------------------------------------------------
(* The chain: external. *)

\* JSON carries U+FFFD in place of bytes that are not UTF-8.
CleanText(v) == [i \in DOMAIN v |-> IF v[i] = Invalid THEN Replacement ELSE v[i]]
CleanGrant(g) == [g EXCEPT !.grantee = CleanText(@), !.granteeKey = CleanText(@),
                           !.grantedBy = CleanText(@)]
AsSent(t) ==
  [f \in DOMAIN t |-> CASE f \in TextFields -> CleanText(t[f])
                        [] f = "grants" -> [i \in DOMAIN t.grants |-> CleanGrant(t.grants[i])]
                        [] OTHER -> t[f]]

\* The message the chain rebuilds from what it is sent.
Rebuilt == [t \in Txs |-> MessageText(AsSent(t))]

\* What a transaction is to the chain.
Means(t) == IF t.kind = "RegisterSubgrove" THEN RegistrationMeans(t.json) ELSE AsSent(t)

Unreadable == <<>>

\* The chain's own rules, as the docs of the builders and of the transactions
\* state them.  It holds DIDs, subgrove ids and schemas to a form of its own.
IsDID(v) ==
  /\ v # <<>> /\ Head(v) = "did:willow:"
  /\ Tail(v) # <<>> /\ ToSet(Tail(v)) \subseteq Plain
  /\ Len(v) <= MaxDid
IsSubgroveID(v) ==
  v # <<>> /\ Head(v) \in Alnum /\ ToSet(v) \subseteq Plain /\ Len(v) <= MaxId
AreDIDs(list) == \A i \in DOMAIN list[2] : IsDID(list[2][i][2])

FieldTypes == {<<x>> : x \in {"string", "number", "boolean", "array", "object", "bytes"}}

\* SchemaDefinition: each member at most once, unknown ones ignored.
IsSchema(schema) ==
  /\ schema \in DOMAIN SchemaOf
  /\ LET members  == SchemaOf[schema]
         Of(key)  == {i \in DOMAIN members : members[i].key = key}
         Is(v, kind) == v[1] = kind
     IN  /\ \A key \in {"version", "fields", "indexes", "required_fields"} :
              \A i, j \in Of(key) : i = j
         /\ \A i \in Of("version") : Is(members[i].value, "num") /\ members[i].value[2] >= 0
         /\ \A i \in Of("fields") :
              /\ Is(members[i].value, "obj")
              /\ \A f \in DOMAIN members[i].value[2] :
                   Is(members[i].value[2][f], "str") /\ members[i].value[2][f][2] \in FieldTypes
         /\ \A i \in Of("indexes") : Is(members[i].value, "arr") /\ members[i].value[2] = <<>>
         /\ \A i \in Of("required_fields") :
              /\ Is(members[i].value, "arr")
              /\ \A n \in DOMAIN members[i].value[2] : Is(members[i].value[2][n], "str")

TakesRegistration(t) ==
  LET j    == t.json
      mode == At(At(j, "mode"), ModeName(j))
      g    == At(j, "initial_owner_key_grant")
  IN  /\ Means(t) # Unreadable
      /\ IsSubgroveID(TokensAt(j, "subgrove_id"))
      /\ IsSchema(TokensAt(j, "schema"))
      /\ AreDIDs(At(j, "admins")) /\ AreDIDs(At(mode, "writers")) /\ AreDIDs(At(mode, "free_readers"))
      /\ At(j, "privacy") # Null /\ g # Null /\ ModeName(j) = "DataStorage" =>
           /\ At(g, "key_epoch") = <<"num", 0>> /\ At(g, "grantee_did") = At(j, "owner_did")
           /\ IsDID(TokensAt(j, "owner_did"))

Takes(t) ==
  /\ \A v \in TextsOf(t) : ~Contains(v, NL)
  /\ t.kind \in {"GrantSubgroveKey", "RotateSubgroveKey"} =>
       \A i \in DOMAIN t.grants : IsDID(t.grants[i].grantee)
  /\ t.kind = "RotateSubgroveKey" =>
       /\ t.grants # <<>>
       /\ \A i \in DOMAIN t.grants : t.grants[i].epoch = t.newEpoch
  /\ t.kind = "RevokeSubgroveKey" =>
       /\ t.subgrove # <<>> /\ {":", "did:willow:"} \intersect ToSet(t.subgrove) = {}
       /\ IsDID(t.revokee) /\ IsDID(t.sender)
  /\ t.kind = "RegisterSubgrove" => TakesRegistration(t)

-----------------------------------------------------------------------------
(* What the constants are taken to be. *)

Token == STRING
Text == Seq(Token)

Labels ==
  {"Subgrove: ", "Key: ", "Owner: ", "DataHash: ", "Nonce: ", "Filename: ", "ContentType: ",
   "TotalSize: ", "ContentHash: ", "ChunkCount: ", "ChunkSize: ", "ChunkMerkleRoot: ",
   "Encryption: ", "Node: ", "Sender: ", "NewEpoch: ", "Grants: ", "Grantee: ", "GranteeKey: ",
   "KeyEpoch: ", "EphemeralKey: ", "EncryptedKey: ", "GrantedBy: ", "GrantedAt: ", "Config: "}
Kinds ==
  {"StoreData", "StoreFileManifest", "DeleteFileManifest", "UnregisterStorageNode",
   "GrantSubgroveKey", "RotateSubgroveKey", "RevokeSubgroveKey", "RegisterSubgrove"}

ASSUME TokensAssumption ==
  Labels \union Kinds \union {NL, ":", "none", Replacement} \subseteq Token

GrantRecords == [grantee : Text, granteeKey : Text, epoch : Numbers, ephemeral : Blobs,
                 encrypted : Blobs, grantedBy : Text, grantedAt : Numbers]

DataStoreTx == [kind : {"StoreData"}, subgrove : Text, key : Text, owner : Text, data : Blobs,
                nonce : Numbers]
ManifestTx == [kind : {"StoreFileManifest"}, subgrove : Text, key : Text, owner : Text,
               filename : Text, contentType : Text, totalSize : Numbers, contentHash : Blobs,
               chunkCount : Numbers, chunkSize : Numbers, merkleRoot : Blobs,
               encryption : {<<>>} \union (Numbers \X Blobs), nonce : Numbers]
DeleteTx == [kind : {"DeleteFileManifest"}, subgrove : Text, key : Text, owner : Text,
             nonce : Numbers]
UnregisterTx == [kind : {"UnregisterStorageNode"}, node : Text, nonce : Numbers]
GrantTx == [kind : {"GrantSubgroveKey"}, subgrove : Text, sender : Text,
            grants : [1 .. 1 -> GrantRecords], nonce : Numbers]
RotateTx == [kind : {"RotateSubgroveKey"}, subgrove : Text, sender : Text, newEpoch : Numbers,
             grants : Seq(GrantRecords), nonce : Numbers]
RevokeTx == [kind : {"RevokeSubgroveKey"}, subgrove : Text, revokee : Text, sender : Text,
             nonce : Numbers]

\* A list of text.
Texts == {"arr"} \X Seq({"str"} \X Text)

\* What a Go struct marshals to has these fields, whatever they hold.
IsRegistration(t) ==
  /\ t = [kind |-> "RegisterSubgrove", json |-> t.json]
  /\ \A f \in {"subgrove_id", "owner_did"} : At(t.json, f) \in {"str"} \X Text
  /\ At(t.json, "nonce") \in {"num"} \X Numbers
  /\ At(t.json, "admins") \in Texts
  /\ \A m \in DOMAIN At(t.json, "mode")[2] \ {"BlockchainIndexing"} :
       \A f \in {"writers", "free_readers"} : At(At(t.json, "mode")[2][m], f) \in Texts
  /\ LET g == At(t.json, "initial_owner_key_grant")
     IN  g # Null => /\ At(g, "key_epoch") \in {"num"} \X Nat
                     /\ At(g, "grantee_did") \in {"str"} \X Text

Registrations == {t \in Txs : t.kind = "RegisterSubgrove"}
Configs == {registerSubgrove(t.json) : t \in Registrations}

ASSUME TxsAssumption ==
  \A t \in Txs :
    \/ t \in DataStoreTx \/ t \in ManifestTx \/ t \in DeleteTx \/ t \in UnregisterTx
    \/ t \in GrantTx \/ t \in RevokeTx
    \/ t \in RotateTx /\ Len(t.grants) \in Numbers
    \/ IsRegistration(t)

ASSUME SchemasAssumption ==
  \A s \in DOMAIN SchemaOf : DOMAIN SchemaOf[s] = 1 .. Len(SchemaOf[s])

\* Decimal and hex digits hold no separator and are of one value, and SHA-256
\* has no collisions.
Prints(token(_), values) ==
  /\ \A v \in values : token(v)[1] \in Token /\ token(v)[1] \notin {NL, ":"}
  /\ \A v, w \in values : token(v) = token(w) => v = w

ASSUME PrintedAssumption ==
  /\ Prints(Decimal, Numbers)
  /\ Prints(Hex, Blobs) /\ Prints(HexSha256, Blobs)
  /\ Prints(HexSha256, Configs)

\* The chain reads from a registration what its bincode holds.
ASSUME RegistrationsAssumption ==
  \A t, u \in Registrations :
    registerSubgrove(t.json) # Bad /\ registerSubgrove(u.json) = registerSubgrove(t.json) =>
      /\ RegistrationMeans(u.json) = RegistrationMeans(t.json)
      /\ RegistrationMeans(t.json) # Unreadable

-----------------------------------------------------------------------------
Init == tx = NoTx /\ message = Refused /\ outcome = "" /\ ran = {}

\* The owner signs a transaction, unless its message is refused.
Sign(t) ==
  /\ outcome = ""
  /\ tx' = t
  /\ message' = Format(t)
  /\ outcome' = IF Format(t) = Refused THEN "refused" ELSE "signed"
  /\ UNCHANGED ran

\* RegisterSubgroveUnsignedBincode called by itself, on any JSON.
Encode(j) ==
  /\ outcome = ""
  /\ tx' = [kind |-> "json", json |-> j]
  /\ outcome' = "refused"
  /\ UNCHANGED <<message, ran>>

\* The signed transaction is sent and reaches the chain.
Deliver ==
  /\ outcome = "signed"
  /\ IF Takes(AsSent(tx)) /\ Rebuilt[tx] = message
       THEN outcome' = "ran" /\ ran' = ran \union {tx}
       ELSE outcome' = "rejected" /\ UNCHANGED ran
  /\ UNCHANGED <<tx, message>>

\* Some transaction is sent with the signature; the chain runs any whose
\* rebuilt message was signed (its other rules left out, so more may run).
Present(t) ==
  /\ outcome \in {"signed", "ran"}
  /\ Rebuilt[t] = message
  /\ ran' = ran \union {t}
  /\ UNCHANGED <<tx, message, outcome>>

Next ==
  \/ Deliver
  \/ \E t \in Txs : Sign(t) \/ Present(t)
  \/ \E j \in Jsons : Encode(j)

Spec == Init /\ [][Next]_vars

-----------------------------------------------------------------------------
(* Properties. *)

\* A signature stands for one transaction: whatever is sent with it, the chain
\* runs only transactions that mean to it exactly what the signed one means,
\* of the same kind and with every field, list and default the same.
OnlyWhatWasSigned ==
  \A t \in ran : t.kind = tx.kind /\ Means(t) = Means(tx)

\* What the builders sign, the chain takes: the message it rebuilds from the
\* JSON it is sent is the one signed, and its rules for text, DIDs, subgrove
\* ids, schemas, grants, rotations and revocations (signed_messages.go:20-22,
\* 149-159, 417-418, 443-444, 504-507) refuse nothing the builders let
\* through.  (revokeSubgroveKeyMessage alone does not look for bytes that are
\* not UTF-8.)
SignedIsTaken ==
  outcome = "rejected" => tx.kind = "RevokeSubgroveKey" /\ Contains(tx.subgrove, Invalid)
=============================================================================
