------------------------------ MODULE GroveDB ------------------------------
(***************************************************************************)
(* The grovedb package (grovedb/verifier.go, types.go): the decoder of a   *)
(* proof's bincode envelope and of its Merk operations, the stack machine  *)
(* that runs them, and CheckEnvelope.  LayerWalk is the walk of the layers.*)
(*                                                                         *)
(* A proof is a sequence of bytes in which a hash is one opaque element,   *)
(* hashes are tags over what they hash, and the bytes of a value's length  *)
(* count in ByteBase.  The package is deprecated because its hashing is    *)
(* not grovedb's: nothing here says that a proof it accepts is a Willow    *)
(* proof.                                                                  *)
(***************************************************************************)
EXTENDS LayerWalk

CONSTANTS
  Provable,        \* what an honest prover proves: a grove, the order of its
                   \* operations and the path of the query
  Forged,          \* proofs nobody proved: the bytes, and the path asked for if any
  ByteBase,        \* 256 in the code: what a byte of a value's length counts in
  MaxValueLen,     \* the longest value of a large-value operation
  maxLayerDepth    \* how deep the layers of an envelope may nest

VARIABLES
  proved,    \* what was proved: <<p>> of a member p of Provable, or <<>>
  given      \* the bytes given and the path asked for, or <<>>

groveVars == <<proved, given, walkVars>>

KVHash(key, valueHash) == <<"kv", key, valueHash>>
ComputeNodeHash(kv, left, right) == <<"node", kv, left, right>>

LargeValueThreshold == ByteBase * ByteBase

-----------------------------------------------------------------------------
(* MerkDecoder.  Offsets count from 1; a read past the end makes the end of  *)
(* the operation lie past it.                                                *)

At(d, i) == IF i <= Len(d) THEN d[i] ELSE 0
Number(digits) == FoldLeft(LAMBDA n, b : n * ByteBase + b, 0, digits)

Kinds == <<"Hash", "KVHash", "KV", "KVValueHash", "KVDigest", "KVRefValueHash">>
LargeKinds == <<"KV", "KVValueHash", "KVRefValueHash">>
Turns == <<"Parent", "Child", "ParentInverted", "ChildInverted">>

\* The operation of a code: a push, plain or inverted, of a kind of node, with
\* a short or a large value, or a turn.  Codes 7, 14, 35 and 43 are unknown.
Code(b) ==
  CASE b \in 1..6   -> [op |-> "Push", kind |-> Kinds[b], large |-> FALSE]
    [] b \in 8..13  -> [op |-> "PushInverted", kind |-> Kinds[b - 7], large |-> FALSE]
    [] b \in 16..19 -> [op |-> Turns[b - 15], kind |-> "none", large |-> FALSE]
    [] b \in 32..34 -> [op |-> "Push", kind |-> LargeKinds[b - 31], large |-> TRUE]
    [] b \in 40..42 -> [op |-> "PushInverted", kind |-> LargeKinds[b - 39], large |-> TRUE]
    [] OTHER -> [op |-> "unknown", kind |-> "none", large |-> FALSE]

HasKey(kind) == kind \notin {"none", "Hash", "KVHash"}
HasValue(kind) == kind \in {"KV", "KVValueHash", "KVRefValueHash"}
HasHash(kind) == kind \notin {"none", "KV"}

\* MerkDecoder.Next at offset off: the operation and the offset after it, or <<>>.  A node's
\* value is <<>> when it has none and <<v>> otherwise.
NextOp(d, off) ==
  LET c == Code(d[off])
      keyEnd == IF HasKey(c.kind) THEN off + 1 + At(d, off + 1) ELSE off
      lenEnd == IF HasValue(c.kind) THEN keyEnd + (IF c.large THEN 4 ELSE 2) ELSE keyEnd
      valueLen == Number([i \in 1..(lenEnd - keyEnd) |-> At(d, keyEnd + i)])
      end == lenEnd + valueLen + (IF HasHash(c.kind) THEN 1 ELSE 0)
  IN  IF \/ c.op = "unknown"
         \/ end > Len(d)
         \/ c.large /\ valueLen \notin LargeValueThreshold..MaxValueLen
        THEN <<>>
        ELSE <<[op |-> c.op, off |-> end + 1,
                node |-> [kind |-> c.kind,
                          key |-> SubSeq(d, off + 2, keyEnd),
                          value |-> IF HasValue(c.kind) THEN <<SubSeq(d, lenEnd + 1, lenEnd + valueLen)>> ELSE <<>>,
                          hash |-> IF HasHash(c.kind) THEN d[end] ELSE NullHash]]>>

-----------------------------------------------------------------------------
(* ExecuteMerkProof.  A child is attached by its hash: its own children, and  *)
(* its node, are gone from the tree.                                          *)

NewTree(node) == [node |-> node, left |-> NullHash, right |-> NullHash, heights |-> <<0, 0>>]
Height(t) == 1 + (IF t.heights[1] > t.heights[2] THEN t.heights[1] ELSE t.heights[2])

HashOf(t) ==
  CASE t.node.kind = "Hash" -> t.node.hash
    [] t.node.kind = "KVHash" -> ComputeNodeHash(t.node.hash, t.left, t.right)
    [] t.node.kind = "KV" -> ComputeNodeHash(KVHash(t.node.key, ValueHash(t.node.value[1])), t.left, t.right)
    [] OTHER -> ComputeNodeHash(KVHash(t.node.key, t.node.hash), t.left, t.right)

AttachWithHeight(parent, isLeft, child) ==
  IF isLeft THEN [parent EXCEPT !.left = HashOf(child), !.heights[1] = Height(child)]
            ELSE [parent EXCEPT !.right = HashOf(child), !.heights[2] = Height(child)]

\* What a push adds to the result set: a key with its value (or none) and the
\* hash the proof gives for it.
Proved(node) ==
  IF ~HasKey(node.kind) THEN <<>>
  ELSE <<[key |-> node.key, value |-> node.value,
          hash |-> IF node.kind = "KV" THEN ValueHash(node.value[1]) ELSE node.hash]>>

\* Mutation: ParentInverted attaches its child as Parent does.
TurnAlike(op, top, under) ==
  IF op \in {"Parent", "ParentInverted"} THEN AttachWithHeight(top, TRUE, under)
  ELSE AttachWithHeight(under, op = "ChildInverted", top)

\* A turn makes one of the two topmost trees a child of the other: the lower of
\* the upper for a Parent, the upper of the lower for a Child.
Turn(op, top, under) ==
  IF op \in {"Parent", "ParentInverted"} THEN AttachWithHeight(top, op = "Parent", under)
  ELSE AttachWithHeight(under, op = "ChildInverted", top)

RECURSIVE Execute(_, _, _, _)
Execute(d, off, stack, kvs) ==
  IF off > Len(d)
    THEN IF Len(stack) # 1 THEN <<>>
         ELSE LET h == stack[1].heights
              IN  IF h[1] - h[2] \notin -1..1 THEN <<>>
                  ELSE <<[root |-> HashOf(stack[1]), kvs |-> kvs]>>
  ELSE LET n == NextOp(d, off)
           k == Len(stack)
       IN  IF n = <<>> THEN <<>>
           ELSE IF n[1].op \in {"Push", "PushInverted"}
             THEN Execute(d, n[1].off, Append(stack, NewTree(n[1].node)), kvs \o Proved(n[1].node))
           ELSE IF k < 2 THEN <<>>
           ELSE Execute(d, n[1].off,
                        Append(SubSeq(stack, 1, k - 2), Turn(n[1].op, stack[k], stack[k - 1])), kvs)

ExecuteMerkProof(d) == Execute(d, 1, <<>>, <<>>)

-----------------------------------------------------------------------------
(* The envelope.  A reader's result is <<what it read, the next offset>>, or  *)
(* <<>> when the proof is truncated or malformed.                             *)

\* A varint: a literal below 251, or the bytes after the tag.  A number above
\* MaxInt, which no proof has bytes for, is read as MaxInt.
MaxInt == 65536
varint(d, off) ==
  LET tag == At(d, off)
      n == CASE tag < 251 -> 0 [] tag = 251 -> 2 [] tag = 252 -> 4 [] tag = 253 -> 8 [] OTHER -> -1
  IN  IF n = -1 \/ off + n > Len(d) THEN <<>>
      ELSE IF n = 0 THEN <<tag, off + 1>>
      ELSE <<FoldLeft(LAMBDA v, b : IF v >= MaxInt THEN MaxInt ELSE v * 256 + b, 0, SubSeq(d, off + 1, off + n)),
             off + n + 1>>

\* What is done with what a reader read, unless it failed.
Then(read, Use(_)) == IF read = <<>> THEN <<>> ELSE Use(read)

byteVec(d, off) ==
  Then(varint(d, off), LAMBDA n :
    IF n[1] > Len(d) + 1 - n[2] THEN <<>> ELSE <<SubSeq(d, n[2], n[2] + n[1] - 1), n[2] + n[1]>>)

\* The loop over a layer's entries stops at the first it cannot read, and each
\* has a byte at least: rounds after the proof's length change nothing.  A later
\* entry of the same key replaces an earlier one.
RECURSIVE decodeLayerProof(_, _, _)
decodeLayerProof(d, off, depth) ==
  LET Entry(s, i) ==
        Then(s, LAMBDA sofar : Then(byteVec(d, sofar[2]), LAMBDA key :
          Then(decodeLayerProof(d, key[2], depth + 1), LAMBDA nested :
            <<[k \in DOMAIN sofar[1] \cup {key[1]} |-> IF k = key[1] THEN nested[1] ELSE sofar[1][k]], nested[2]>>)))
      Rounds(count) == [i \in {j \in 1..(Len(d) + 1) : j <= count} |-> i]
  IN  IF depth > maxLayerDepth THEN <<>>
      ELSE Then(byteVec(d, off), LAMBDA merk : Then(varint(d, merk[2]), LAMBDA count :
        Then(FoldLeft(Entry, <<[k \in {} |-> <<>>], count[2]>>, Rounds(count[1])), LAMBDA lower :
          <<[merk |-> merk[1], lower |-> lower[1]], lower[2]>>)))

\* <<the root layer, the prove option>>, or <<>>.
DecodeGroveDBProof(d) ==
  Then(varint(d, 1), LAMBDA variant :
    IF variant[1] # 0 THEN <<>>
    ELSE Then(decodeLayerProof(d, variant[2], 0), LAMBDA root :
      IF root[2] # Len(d) THEN <<>>          \* no prove_options, or trailing bytes
      ELSE <<root[1], d[root[2]] # 0>>))

RECURSIVE Descends(_, _)
Descends(layer, path) ==
  IF path = <<>> THEN DOMAIN layer.lower = {}
  ELSE path[1] \in DOMAIN layer.lower /\ Descends(layer.lower[path[1]], Tail(path))

CheckEnvelope(envelope, path) == envelope[2] /\ Descends(envelope[1], path)

-----------------------------------------------------------------------------
(* The prover (external): a tree is <<>> or a node with its key, its value,   *)
(* the way its proof shows it, its children, and the tree below it.           *)

RECURSIVE RootOf(_)
ValueHashOf(t) == IF t.below = <<>> THEN ValueHash(t.value) ELSE CombineHash(ValueHash(t.value), RootOf(t.below[1]))
RootOf(t) ==
  LET Child(c) == IF c = <<>> THEN NullHash ELSE RootOf(c[1])
  IN  ComputeNodeHash(KVHash(t.key, ValueHashOf(t)), Child(t.left), Child(t.right))

\* The bytes that push node t, with the codes Code reads.
PushBytes(t, inverted) ==
  LET large == HasValue(t.show) /\ Len(t.value) >= LargeValueThreshold
      number == CHOOSE i \in 1..6 : Kinds[i] = t.show
      code == IF large THEN 31 + (CHOOSE i \in 1..3 : LargeKinds[i] = t.show) + (IF inverted THEN 8 ELSE 0)
              ELSE number + (IF inverted THEN 7 ELSE 0)
      digits == IF large THEN 4 ELSE 2
      Digit(i) == (Len(t.value) \div (ByteBase ^ (digits - i))) % ByteBase
  IN  <<code>>
      \o (IF HasKey(t.show) THEN <<Len(t.key)>> \o t.key ELSE <<>>)
      \o (IF HasValue(t.show) THEN [i \in 1..digits |-> Digit(i)] \o t.value ELSE <<>>)
      \o (CASE t.show = "Hash" -> <<RootOf(t)>>
            [] t.show = "KVHash" -> <<KVHash(t.key, ValueHashOf(t))>>
            [] t.show = "KV" -> <<>>
            [] OTHER -> <<ValueHashOf(t)>>)

RECURSIVE Ops(_, _)
Ops(t, inverted) ==
  LET first == IF inverted THEN t.right ELSE t.left
      last == IF inverted THEN t.left ELSE t.right
  IN  IF t.show = "Hash" THEN PushBytes(t, inverted)
      ELSE (IF first = <<>> THEN <<>> ELSE Ops(first[1], inverted))
           \o PushBytes(t, inverted)
           \o (IF first = <<>> THEN <<>> ELSE <<IF inverted THEN 18 ELSE 16>>)
           \o (IF last = <<>> THEN <<>> ELSE Ops(last[1], inverted) \o <<IF inverted THEN 19 ELSE 17>>)

\* The node of a tree with a key.
RECURSIVE Find(_, _)
Find(t, key) ==
  IF t.key = key THEN t
  ELSE LET Has(c) == c # <<>> /\ Find(c[1], key).key = key
       IN  CASE Has(t.left) -> Find(t.left[1], key)
             [] Has(t.right) -> Find(t.right[1], key)
             [] OTHER -> t

VarintBytes(n) == IF n < 251 THEN <<n>> ELSE <<251, n \div 256, n % 256>>
VecBytes(b) == VarintBytes(Len(b)) \o b

\* One layer for the tree and one below it for each segment of the path.
RECURSIVE LayerBytes(_, _, _)
LayerBytes(t, inverted, path) ==
  VecBytes(Ops(t, inverted)) \o
  IF path = <<>> THEN <<0>>
  ELSE <<1>> \o VecBytes(path[1]) \o LayerBytes(Find(t, path[1]).below[1], inverted, Tail(path))

ProofBytes(p) == <<0>> \o LayerBytes(p.tree, p.inverted, p.path) \o <<1>>

\* What the proof shows: the keys with a value, in the order of the operations,
\* those of the layer below in the place of its key.
RECURSIVE Shown(_, _, _, _)
Shown(t, inverted, path, at) ==
  LET Side(c) == IF c = <<>> THEN <<>> ELSE Shown(c[1], inverted, path, at)
      own == IF ~HasValue(t.show) THEN <<>>
             ELSE IF path # <<>> /\ path[1] = t.key
               THEN Shown(t.below[1], inverted, Tail(path), Append(at, t.key))
             ELSE <<[path |-> at, key |-> t.key, value |-> t.value]>>
  IN  IF t.show = "Hash" THEN <<>>
      ELSE IF inverted THEN Side(t.right) \o own \o Side(t.left)
      ELSE Side(t.left) \o own \o Side(t.right)

\* The trees proved: at the top, and below each segment of the path.
RECURSIVE Layers(_, _)
Layers(t, path) ==
  {t} \cup (IF path = <<>> THEN {} ELSE Layers(Find(t, path[1]).below[1], Tail(path)))

\* The levels a proof shows of a child.
RECURSIVE Levels(_)
Levels(c) ==
  CASE c = <<>> -> 0
    [] c # <<>> /\ c[1].show = "Hash" -> 1
    [] OTHER -> 1 + Max({Levels(c[1].left), Levels(c[1].right)})

\* The sides of the root of an AVL tree, as shown, are more than a level apart.
LooksUneven(t) == t.show # "Hash" /\ Levels(t.left) - Levels(t.right) \notin -1..1

-----------------------------------------------------------------------------
GroveIdle == proved = <<>> /\ given = <<>> /\ WalkIdle

\* VerifyProofAtPath for <<path>>, and VerifyProof, which looks at the prove
\* option only, for <<>>: what the walk is given, or <<>>.
Envelope(d, path) ==
  Then(DecodeGroveDBProof(d), LAMBDA envelope :
    IF (IF path = <<>> THEN envelope[2] ELSE CheckEnvelope(envelope, path[1]))
      THEN <<envelope[1]>> ELSE <<>>)

VerifyProof(d, path, of) ==
  /\ proved' = of
  /\ given' = <<d, path>>
  /\ \/ Envelope(d, path) = <<>> /\ RefuseEnvelope
     \/ Envelope(d, path) # <<>> /\ verifyDecoded(Envelope(d, path)[1])

\* The calls: with what was proved, as the prover was asked, and with any other.
Given ==
  {<<ProofBytes(p), <<p.path>>, <<p>>>> : p \in Provable} \cup {<<f.bytes, f.path, <<>>>> : f \in Forged}

GroveNext ==
  \/ given = <<>> /\ \E g \in Given : VerifyProof(g[1], g[2], g[3])
  \/ WalkStep /\ UNCHANGED <<proved, given>>

\* A proof that descends to the path and was made for it, plain or inverted,
\* with values of either size and any nodes collapsed, is read as what it is:
\* the walk ends with the root of the proved trees and exactly the key-values
\* the proof shows, each once and under its path.  But the check for an AVL
\* tree (ExecuteMerkProof) counts a collapsed node as one level, whatever is
\* below it: of an honest proof too it refuses a layer that shows one side of
\* its root by its hash and three levels or more of the other.
ProofReadsBack ==
  \A p \in Range(proved) :
    frames = <<>> =>
      IF \E t \in Layers(p.tree, p.path) : LooksUneven(t) THEN verdict = "failed"
      ELSE /\ verdict = "verified"
           /\ rootHash = RootOf(p.tree)
           /\ results = Shown(p.tree, p.inverted, p.path, <<>>)
=============================================================================
