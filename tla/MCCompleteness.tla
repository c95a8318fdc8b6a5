--------------------------- MODULE MCCompleteness ---------------------------
(* Two-valued bytes, so that lengths, topics and data can be mistaken for    *)
(* each other, and up to two logs.                                           *)
EXTENDS Completeness, TLC

Hex(n) == UNION {[1..k -> {0, 1}] : k \in 0..n}
Log(a, ts, d) == [address |-> a, topics |-> ts, data |-> d]
GoodLogs == [address : {<<0>>, <<1>>}, topics : {<<>>, <<<<0>>>>, <<<<1>>>>, <<<<0>>, <<0>>>>}, data : Hex(2)]
BadLogs == {Log(NotHex, <<>>, <<>>), Log(<<>>, <<>>, <<>>), Log(<<0, 0>>, <<>>, <<>>),
            Log(<<0>>, <<<<0, 1>>>>, <<>>), Log(<<0>>, <<NotHex>>, <<>>), Log(<<0>>, <<>>, NotHex)}
MCServedLogs == {<<>>} \cup {<<l>> : l \in GoodLogs \cup BadLogs} \cup [1..2 -> GoodLogs]
MCCommitted ==
  (<<"g", 1>> :> <<Log(<<0>>, <<<<1>>>>, <<0>>)>>) @@
  (<<"g", 2>> :> <<Log(<<0>>, <<<<0>>>>, <<>>), Log(<<1>>, <<>>, <<0, 1>>)>>) @@
  (<<"h", 1>> :> <<>>)
=============================================================================
