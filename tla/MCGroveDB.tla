----------------------------- MODULE MCGroveDB -----------------------------
(* Lengths count in twos, so a value of four bytes is large; trees of up to *)
(* four nodes, each shown in every way, AVL trees of four levels with any  *)
(* nodes collapsed, and groves of up to three layers.                      *)
EXTENDS GroveDB
NodeValues == {<<9>>, <<9, 9, 9, 9>>}
N(key, value, show, left, right, below) ==
  [key |-> key, value |-> value, show |-> show, left |-> left, right |-> right, below |-> below]
LeafNodes(key) == {<<N(key, v, k, <<>>, <<>>, <<>>)>> : v \in NodeValues, k \in Range(Kinds)}
Inner(key, lefts, rights) ==
  {N(key, <<>>, k, l, r, <<>>) : k \in Range(Kinds) \ {"Hash"}, l \in lefts, r \in rights}
Flat == Inner(<<2>>, {<<>>} \cup LeafNodes(<<1>>), {<<>>} \cup LeafNodes(<<3, 3>>))
Tall == {N(<<2>>, <<9>>, "KV", l, <<t>>, <<>>) :
           l \in LeafNodes(<<1>>), t \in Inner(<<4>>, {<<>>} \cup LeafNodes(<<3, 3>>), LeafNodes(<<5>>))}
\* Seven nodes, three levels to the left of the root and two to its right.
Shows == {"KV", "Hash"}
Deep == {N(<<5>>, <<9>>, "KV", <<l>>, <<r>>, <<>>) :
  l \in {N(<<3>>, <<9>>, k, <<n>>, <<N(<<4>>, <<9>>, m, <<>>, <<>>, <<>>)>>, <<>>) :
          k \in Shows, m \in Shows,
          n \in {N(<<2>>, <<9>>, k, <<N(<<1>>, <<9>>, m, <<>>, <<>>, <<>>)>>, <<>>, <<>>) :
                 k \in Shows, m \in Shows}},
  r \in {N(<<7>>, <<9>>, k, <<N(<<6>>, <<9>>, m, <<>>, <<>>, <<>>)>>, <<>>, <<>>) :
          k \in Shows, m \in Shows}}
\* A tree whose node a has the tree t below it.
Over(t, side, show) == N(<<6>>, <<9>>, "KVDigest", <<N(<<5>>, <<8>>, show, <<>>, <<>>, <<t>>)>>, side, <<>>)
Lowest == {N(<<7>>, <<>>, "KV", <<>>, <<>>, <<>>), N(<<7>>, <<9>>, "KV", <<N(<<1>>, <<>>, "KVHash", <<>>, <<>>, <<>>)>>, <<>>, <<>>)}
NestedTrees == {Over(t, s, k) : t \in Lowest, s \in {<<>>, <<N(<<7>>, <<1>>, "KV", <<>>, <<>>, <<>>)>>}, k \in {"KVValueHash", "KVRefValueHash"}}
MCProvable ==
  [tree : Flat \cup Tall \cup Deep, inverted : BOOLEAN, path : {<<>>}] \cup
  [tree : {Over(t, <<>>, "KVValueHash") : t \in Deep}, inverted : {FALSE}, path : {<<<<5>>>>}] \cup
  [tree : NestedTrees, inverted : BOOLEAN, path : {<<<<5>>>>}] \cup
  [tree : {Over(t, <<>>, "KVValueHash") : t \in NestedTrees}, inverted : BOOLEAN, path : {<<<<5>>, <<5>>>>}]

\* Proofs that are none: cut short, with bytes after the end or another prove
\* option, nested too deep, a key proven twice, a short value in a large push.
deepTree == CHOOSE t \in {Over(Over(u, <<>>, "KVValueHash"), <<>>, "KVValueHash") : u \in NestedTrees} : TRUE
twice(t) == N(<<5>>, <<8>>, "KVValueHash", <<N(<<5>>, <<8>>, "KVValueHash", <<>>, <<>>, <<t>>)>>, <<>>, <<t>>)
Encoded(t, path) == ProofBytes([tree |-> t, inverted |-> FALSE, path |-> path])
lowest == CHOOSE t \in Lowest : TRUE
whole == Encoded(Over(CHOOSE t \in NestedTrees : TRUE, <<>>, "KVValueHash"), <<<<5>>, <<5>>>>)
repeated == Encoded(twice(twice(lowest)), <<<<5>>, <<5>>>>)
\* A layer of another tree below the first, and one with malformed operations.
Grafted(below) ==
  <<0>> \o VecBytes(Ops(Over(lowest, <<>>, "KVValueHash"), FALSE))
    \o <<1>> \o VecBytes(<<5>>) \o below \o <<1>>
MCForged ==
  [bytes : {Grafted(LayerBytes(t, FALSE, <<>>)) : t \in Lowest}, path : {<<>>}] \cup
  [bytes : {Grafted(VecBytes(<<16>>) \o <<0>>)}, path : {<<>>}] \cup
  {[bytes |-> SubSeq(whole, 1, i), path |-> p] : i \in 0..(Len(whole) - 1), p \in {<<>>, <<<<<<5>>, <<5>>>>>>}} \cup
  [bytes : {whole, repeated, Encoded(deepTree, <<<<5>>, <<5>>, <<5>>>>), whole \o <<1>>,
            [whole EXCEPT ![Len(whole)] = 0], [whole EXCEPT ![1] = 1],
            <<0>> \o VecBytes(<<32, 1, 5, 0, 0, 1, 1, 7, 7, 7>>) \o <<0, 1>>,
            <<0>> \o VecBytes(<<7, 7>>) \o <<0, 1>>, <<0, 253, 128, 0, 0, 0, 0, 0, 0, 0, 0, 1>>,
            <<0>> \o VecBytes(<<16>>) \o <<0, 1>>},
   path : {<<>>, <<<<>>>>, <<<<<<5>>>>>>, <<<<<<5>>, <<5>>>>>>}]
=============================================================================
