----------------------------- MODULE MCEthState -----------------------------
(* Two-nibble keys, and tries of every shape: see the README's bounds. *)
EXTENDS EthState

MCPath == [A |-> <<0, 0>>, B |-> <<0, 1>>, b |-> <<1, 0>>,
           s |-> <<0, 0>>, t |-> <<1, 1>>, t0 |-> <<1, 0>>]
MCPadded == [A |-> "A", B |-> "B", b |-> "B", s |-> "s", t |-> "t", t0 |-> "t"]
MCMaxWord == 2

Branch(c0, c1, v) == <<"branch", (0 :> c0) @@ (1 :> c1), v>>
Leaf(path, v) == <<"leaf", path, v>>
Word(v) == WordLeaf(v)
Account(nonce, balance, storage, code) ==
  [nonce |-> nonce, balance |-> balance, storage |-> storage, code |-> code]

\* Storage: s is 1 and t 2; a leaf that ends early; a zero stored.
st1 == Branch(Keccak(Leaf(<<0>>, Word(1))), Keccak(Leaf(<<1>>, Word(2))), <<>>)
st2 == Leaf(<<0>>, Word(1))
st3 == Branch(Keccak(Leaf(<<0>>, Word(0))), <<>>, <<>>)

token == Account(1, 2, Keccak(st1), <<"code">>)
plain == Account(1, 0, emptyTrieRoot, emptyCodeHash)
early == Account(0, 0, Keccak(st2), <<"code">>)
zeroed == Account(0, 0, Keccak(st3), <<"code">>)
MCClaims == {token, plain, early, zeroed,
             Account(0, 0, emptyTrieRoot, emptyCodeHash), Account(0, 0, ZeroHash, ZeroHash)}

State(c) == AccountLeaf(c)
pair == Branch(Keccak(Leaf(<<>>, State(token))), Keccak(Leaf(<<>>, State(plain))), <<>>)
deep == Branch(Keccak(Branch(<<>>, <<>>, State(token))), <<"bytes">>, <<>>)
tries == {<<"ext", <<0>>, Keccak(pair)>>, Leaf(<<0, 1>>, State(token)),
          Leaf(<<0, 0>>, State(early)), Leaf(<<0, 0>>, State(zeroed)), Leaf(<<0>>, State(plain)),
          Branch(<<"inline", Leaf(<<0>>, State(plain))>>, <<>>, <<>>),
          Branch(Keccak(deep), <<>>, <<>>), <<"ext", <<>>, emptyTrieRoot>>, <<"empty">>}

RECURSIVE Below(_)
Below(n) ==
  {n} \cup CASE n[1] = "branch" -> UNION {Below(n[2][x][2]) : x \in {y \in 0..1 : Len(n[2][y]) = 2}}
             [] n[1] = "ext" -> Below(n[3][2])
             [] OTHER -> {}
MCNodes == UNION {Below(n) : n \in tries \cup {st1, st2, st3}}

RECURSIVE MCEntries(_)
MCEntries(ref) ==
  IF ref = <<>> \/ ref[1] \notin {"keccak", "inline"} THEN {}
  ELSE LET n == ref[2]
       IN CASE n[1] = "leaf" -> {<<n[2], n[3]>>}
            [] n[1] = "ext" -> {<<n[2] \o e[1], e[2]>> : e \in MCEntries(n[3])}
            [] n[1] = "branch" ->
                 {<<<<>>, v>> : v \in {n[3]} \ {<<>>}} \cup
                 UNION {{<<<<x>> \o e[1], e[2]>> : e \in MCEntries(n[2][x])} : x \in DOMAIN n[2]}
            [] OTHER -> {}

Proofs(addrs, claims, slots, blocks) ==
  [address : addrs, root : {Keccak(n) : n \in tries}, account : claims, slots : slots, block : blocks]
Slots(names, values) == {<<>>} \cup {<<x>> : x \in [slot : names, value : values]}

Single == Proofs({"A", "B"}, MCClaims, Slots({"s", "t"}, 0..2), {1})
Odd == Proofs({"A"}, {token, Account(1, 3, Keccak(st1), <<"code">>)}, Slots({"s"}, {1, 3}), {1, 2})
Called == Proofs({"A", "b"}, {token, Account(0, 0, ZeroHash, ZeroHash)}, Slots({"t", "t0"}, {0, 2}), {1})
Answer(ps, decodes) ==
  [block |-> 1, root |-> IF ps = <<>> THEN emptyTrieRoot ELSE ps[1].root, proofs |-> ps, decodes |-> decodes]

MCAnswers ==
  {Answer(<<p>>, TRUE) : p \in Single \cup Odd \cup Called} \cup
  {Answer(<<p, q>>, d) : p \in {p \in Called : p.slots = <<>>}, q \in {p \in Called : p.account # token}, d \in BOOLEAN} \cup
  {Answer(<<>>, TRUE), Answer(<<>>, FALSE)} \cup
  {[Answer(<<p>>, TRUE) EXCEPT !.block = 2] : p \in {p \in Called : p.slots = <<>>}}

Req(op, mode, address, slots) ==
  [op |-> op, mode |-> mode, address |-> address, slots |-> slots, block |-> 1]
MCRequests ==
  {Req("state", "walk", "A", <<"s">>), Req("state", "walk", "B", <<>>), Req("state", "walk", "B", <<"t">>),
   Req("state", "skip", "A", <<"s">>), Req("erc20", "walk", "A", <<"t">>),
   Req("call", "walk", "A", <<>>), Req("call", "skip", "A", <<>>)}

=============================================================================
