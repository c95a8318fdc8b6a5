------------------------------ MODULE EthState ------------------------------
(***************************************************************************)
(* Ethereum state reads served by an indexer (eth_state.go): GetState,     *)
(* GetCall and Erc20Balance, the checks that an answer is about what was   *)
(* asked, and the walk of its Merkle Patricia proofs, one node a step.     *)
(*                                                                         *)
(* The indexer is external and answers anything: any claims, any state     *)
(* root, and any node at each step of a proof.  Keccak is a tag (without   *)
(* collisions) over decoded nodes:                                         *)
(*   <<"branch", children, value>>   children from nibbles to references   *)
(*   <<"ext", path, reference>>  and  <<"leaf", path, value>>              *)
(* where a reference is a hash, <<>> for none, <<"bytes">> for a string of *)
(* another length than a hash's, or <<"inline", node>> for a node embedded *)
(* in its parent, an RLP list in the list.  Rlp models how a node's bytes  *)
(* decode into these items.                                                *)
(***************************************************************************)
EXTENDS Integers, Sequences, FiniteSets, SequencesExt

CONSTANTS
  Requests,    \* what callers ask: op, mode, address, slots, block
  Answers,     \* the answers of an indexer: block, root, proofs, decodes
  Nodes,       \* the nodes an indexer may serve
  Path,        \* the nibbles of the keccak of an address or slot
  Padded,      \* how an address or slot reads, padded to its width
  MaxWord,     \* the largest uint256: a claim above it takes over 32 bytes
  Entries(_)   \* what a trie holds under a reference: pairs of path and value

VARIABLES
  req,    \* what was asked
  ans,    \* the indexer's answer
  at,     \* where the call is: "idle", "posted", "account", "slot", "done"
  walk,   \* the walk: the state proof p and its storage proof s being walked,
          \* the nodes read of it, the hash the next one must have (expected),
          \* the nibbles consumed (idx) and the account's storage hash
  res     \* "" or how the call ended: "ok", or why not

ethVars == <<req, ans, at, walk, res>>

Keccak(node) == <<"keccak", node>>
emptyTrieRoot == Keccak(<<"empty">>)
emptyCodeHash == <<"nocode">>
ZeroHash == <<"zero">>

\* The RLP of an account and of a storage word, as leaves hold them.
AccountLeaf(c) == <<"account", c.nonce, c.balance, c.storage, c.code>>
WordLeaf(v) == <<"word", v>>

-----------------------------------------------------------------------------
(* What an answer must say in every mode. *)

\* Mutation: bytes of any number are taken.
wireBytesAnyLength(w) == Padded[w] \in DOMAIN Padded

\* wireBytes, for addresses and slots: the exact width.
wireBytes(w) == Padded[w] = w

checkWords(proof) ==
  /\ proof.account.balance <= MaxWord
  /\ \A i \in DOMAIN proof.slots : proof.slots[i].value <= MaxWord

checkStateAnswer(proof) ==
  /\ checkWords(proof)
  /\ wireBytes(proof.address)
  /\ proof.address = req.address
  /\ proof.block = req.block
  /\ Len(proof.slots) = Len(req.slots)
  /\ \A i \in DOMAIN proof.slots :
       wireBytes(proof.slots[i].slot) /\ proof.slots[i].slot = req.slots[i]

checkCallAnswer(a) ==
  /\ a.block = req.block
  /\ \A i \in DOMAIN a.proofs : /\ a.proofs[i].block = req.block
                                /\ checkWords(a.proofs[i])
                                /\ a.proofs[i].root = a.root

CheckAnswer(a) ==
  IF req.op = "call" THEN checkCallAnswer(a)
  ELSE Len(a.proofs) = 1 /\ checkStateAnswer(a.proofs[1])

-----------------------------------------------------------------------------
(* The calls. *)

NoWalk == [p |-> 1, s |-> 0, nodes |-> 0, expected |-> <<>>, idx |-> 0, storage |-> <<>>]

EthIdle == req = <<>> /\ ans = <<>> /\ at = "idle" /\ walk = NoWalk /\ res = ""

Finish(r) == at' = "done" /\ res' = r /\ UNCHANGED walk

\* GetCall decodes its result last; Erc20Balance refuses a token account that
\* does not exist or has no code.
Verdict(a) ==
  CASE req.op = "call" /\ ~a.decodes -> "result"
    [] req.op = "erc20" /\ a.proofs[1].account.code \in {emptyCodeHash, ZeroHash} -> "nocontract"
    [] OTHER -> "ok"

\* walkStateProof of proof i starts at its account, unless its address has
\* not 20 bytes.
StartProof(a, i) ==
  IF wireBytes(a.proofs[i].address)
    THEN /\ at' = "account"
         /\ walk' = [NoWalk EXCEPT !.p = i, !.expected = a.proofs[i].root]
         /\ UNCHANGED res
    ELSE Finish("width")

Ask ==
  /\ at = "idle"
  /\ req' \in Requests
  /\ at' = "posted"
  /\ UNCHANGED <<ans, walk, res>>

\* The request fails, its status is not 2xx or its body does not decode.
PostFails ==
  /\ at = "posted"
  /\ Finish("failed")
  /\ UNCHANGED <<req, ans>>

PostAnswers ==
  /\ at = "posted"
  /\ \E a \in Answers :
       /\ ans' = a
       /\ IF ~CheckAnswer(a) THEN Finish("mismatch")
          ELSE IF req.mode = "skip" \/ a.proofs = <<>> THEN Finish(Verdict(a))
          ELSE StartProof(a, 1)
  /\ UNCHANGED req

-----------------------------------------------------------------------------
(* The walk. *)

Proof == ans.proofs[walk.p]
Slot == Proof.slots[walk.s]
Key == IF at = "account" THEN Path[Proof.address] ELSE Path[Slot.slot]

\* After an account or a slot: the next slot, walked against the storage hash,
\* the next state proof, or the result.
NextProof(storage) ==
  IF walk.s < Len(Proof.slots)
    THEN IF wireBytes(Proof.slots[walk.s + 1].slot)
           THEN /\ at' = "slot"
                /\ walk' = [walk EXCEPT !.s = @ + 1, !.nodes = 0, !.expected = storage,
                                        !.idx = 0, !.storage = storage]
                /\ UNCHANGED res
           ELSE Finish("width")
    ELSE IF walk.p < Len(ans.proofs) THEN StartProof(ans, walk.p + 1)
    ELSE Finish(Verdict(ans))

\* An absent account must be claimed empty.
ClaimsEmpty(c) ==
  /\ c.nonce = 0 /\ c.balance = 0
  /\ c.storage \in {emptyTrieRoot, ZeroHash}
  /\ c.code \in {emptyCodeHash, ZeroHash}

\* mptLookup returns found false: no account, or a slot that is zero.
KeyAbsent ==
  IF at = "account"
    THEN IF ClaimsEmpty(Proof.account) THEN NextProof(emptyTrieRoot) ELSE Finish("claim")
    ELSE IF Slot.value = 0 THEN NextProof(walk.storage) ELSE Finish("claim")

\* mptLookup returns a value: the account claimed, or the slot's, never zero.
KeyHolds(v) ==
  IF at = "account"
    THEN IF v = AccountLeaf(Proof.account)
           THEN NextProof(Proof.account.storage) ELSE Finish("claim")
    ELSE IF Slot.value # 0 /\ v = WordLeaf(Slot.value)
           THEN NextProof(walk.storage) ELSE Finish("claim")

Follow(ref, idx) ==
  IF ref = <<"bytes">> THEN Finish("inline")
  ELSE /\ walk' = [walk EXCEPT !.nodes = @ + 1, !.expected = ref, !.idx = idx]
       /\ UNCHANGED <<at, res>>

WalkBranch(n) ==
  IF walk.idx = Len(Key)
    THEN IF n[3] = <<>> THEN KeyAbsent ELSE KeyHolds(n[3])
    ELSE LET next == n[2][Key[walk.idx + 1]]
         IN  IF next = <<>> THEN KeyAbsent ELSE Follow(next, walk.idx + 1)

\* Mutation: a leaf whose path ends before the key's holds the key.
WalkPathPrefix(n) ==
  LET rest == SubSeq(Key, walk.idx + 1, Len(Key))
  IN  IF ~IsPrefix(n[2], rest) THEN KeyAbsent
      ELSE IF n[1] = "leaf" THEN KeyHolds(n[3])
      ELSE Follow(n[3], walk.idx + Len(n[2]))

\* An extension or a leaf: absence when its path leaves the key's, or a leaf's
\* ends before the key does.  An extension's reference must be a hash.
WalkPath(n) ==
  LET rest == SubSeq(Key, walk.idx + 1, Len(Key))
  IN  IF ~IsPrefix(n[2], rest) THEN KeyAbsent
      ELSE IF n[1] = "leaf"
        THEN IF n[2] = rest THEN KeyHolds(n[3]) ELSE KeyAbsent
      ELSE IF n[3] = <<>> THEN Finish("inline")
      ELSE Follow(n[3], walk.idx + Len(n[2]))

Walking == at \in {"account", "slot"}

\* rlpDecodeList refuses a list in the list: a branch with an embedded child,
\* also when the key's path does not go there, or an extension of one.
Nested(ref) == ref # <<>> /\ ref[1] = "inline"

rlpDecodes(n) ==
  CASE n[1] = "branch" -> \A x \in DOMAIN n[2] : ~Nested(n[2][x])
    [] n[1] = "ext" -> ~Nested(n[3])
    [] n[1] = "leaf" -> TRUE
    [] OTHER -> FALSE

\* One round of mptLookup's loop, with the next node of the proof.
WalkNode ==
  /\ Walking
  /\ \E n \in Nodes :
       IF Keccak(n) # walk.expected THEN Finish("hash")
       ELSE IF ~rlpDecodes(n) THEN Finish("rlp")
       ELSE IF n[1] = "branch" THEN WalkBranch(n) ELSE WalkPath(n)
  /\ UNCHANGED <<req, ans>>

\* The proof has no node left.  A proof of no nodes, or of the empty node
\* alone, shows every key absent from the empty trie.
ProofEnds ==
  /\ Walking
  /\ IF walk.nodes = 0 /\ walk.expected = emptyTrieRoot THEN KeyAbsent
     ELSE Finish("exhausted")
  /\ UNCHANGED <<req, ans>>

EthNext ==
  \/ Ask
  \/ PostFails
  \/ PostAnswers
  \/ WalkNode
  \/ ProofEnds

-----------------------------------------------------------------------------
(* What a trie holds, by its structure and not along one key: the entries   *)
(* under a node are those under its children, each with its path extended.  *)

EntriesOf(n) ==
  CASE n[1] = "leaf" -> {<<n[2], n[3]>>}
    [] n[1] = "ext" -> {<<n[2] \o e[1], e[2]>> : e \in Entries(n[3])}
    [] n[1] = "branch" ->
         {<<<<>>, v>> : v \in {n[3]} \ {<<>>}} \cup
         UNION {{<<<<x>> \o e[1], e[2]>> : e \in Entries(n[2][x])} : x \in DOMAIN n[2]}
    [] OTHER -> {}

References(n) ==
  CASE n[1] = "ext" -> {n[3]} [] n[1] = "branch" -> Range(n[2]) [] OTHER -> {}

\* Every reference a walk may start at or follow.
TrieReferences ==
  LET ofAnswer(a) == {p.root : p \in Range(a.proofs)} \cup {p.account.storage : p \in Range(a.proofs)}
  IN  {<<>>, emptyTrieRoot} \cup {Keccak(n) : n \in Nodes}
        \cup (UNION {References(n) : n \in Nodes}) \cup (UNION {ofAnswer(a) : a \in Answers})

\* Entries is what the tries of Nodes hold.
ASSUME EntriesAreTheTries ==
  /\ Entries(<<>>) = {} /\ Entries(emptyTrieRoot) = {}
  /\ \A n \in Nodes : Entries(Keccak(n)) = EntriesOf(n)
  /\ \A r \in TrieReferences : \A e \in Entries(r) : e = <<e[1], e[2]>> /\ e[1] \in Seq(Nat)

\* Paths are nibbles, of which a branch has a child each.
ASSUME PathsAreNibbles ==
  /\ \A key \in DOMAIN Path : Path[key] \in Seq(Nat)
  /\ \A n \in Nodes : n[1] \in {"ext", "leaf"} => n[2] \in Seq(Nat)
  /\ \A n \in Nodes : n[1] = "branch" =>
       /\ DOMAIN n[2] \subseteq Nat
       /\ \A key \in DOMAIN Path : Range(Path[key]) \subseteq DOMAIN n[2]

\* What an answer decodes into.
ASSUME AnswersAreLists ==
  \A a \in Answers :
    /\ a.proofs \in Seq(Range(a.proofs))
    /\ \A p \in Range(a.proofs) :
         /\ p.address \in DOMAIN Path
         /\ p.slots \in Seq(Range(p.slots))
         /\ \A slot \in Range(p.slots) : slot.slot \in DOMAIN Path

Holds(root, key, v) == <<Path[key], v>> \in Entries(root)
Absent(root, key) == \A e \in Entries(root) : e[1] # Path[key]

\* State proof p's claim about the account, as the caller reads it (its
\* address padded to 20 bytes), is what its state root commits to.
AccountIsHeld(p) ==
  LET c == p.account
  IN  \/ Holds(p.root, Padded[p.address], AccountLeaf(c))
      \/ /\ Absent(p.root, Padded[p.address])
         /\ c.nonce = 0 /\ c.balance = 0
         /\ c.storage \in {emptyTrieRoot, ZeroHash} /\ c.code \in {emptyCodeHash, ZeroHash}

\* Its claim about slot i is what the account's storage commits to: nothing,
\* which is zero, when the account is absent.
SlotIsHeld(p, i) ==
  LET slot == Padded[p.slots[i].slot]
      v == p.slots[i].value
      storage == IF Absent(p.root, Padded[p.address]) THEN emptyTrieRoot ELSE p.account.storage
  IN  IF v = 0 THEN Absent(storage, slot)
      ELSE Holds(storage, slot, WordLeaf(v))

EthSpec == EthIdle /\ [][EthNext]_ethVars

\* "In EthWalkProofs mode the SDK walks the proofs, so a result is at least
\* consistent with the root the answer names": every account and slot value
\* returned, read under the padded address and slot the caller is shown, is the
\* one the answer's state root commits to, whatever nodes the indexer served.
WalkedIsHeld ==
  at = "done" /\ res = "ok" /\ req.mode = "walk" =>
    \A p \in Range(ans.proofs) :
      AccountIsHeld(p) /\ \A i \in DOMAIN p.slots : SlotIsHeld(p, i)

\* The walk says "the account the proof holds isn't the one the answer claims",
\* or that the proof shows a key absent or set against the claim, only of a
\* claim the state root does not commit to: no honest answer is refused so, a
\* zero slot and an absent account named as geth names it included.
TrueClaimTaken ==
  res = "claim" => LET p == ans.proofs[walk.p]
                   IN  IF walk.s = 0 THEN ~AccountIsHeld(p) ELSE ~SlotIsHeld(p, walk.s)
=============================================================================
