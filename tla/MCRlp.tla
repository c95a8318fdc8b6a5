------------------------------- MODULE MCRlp --------------------------------
(* Every form of header at its shortest and longest, and every short string  *)
(* of the bytes at which the decoder's cases change.                         *)
EXTENDS Rlp

Sevens(n) == [i \in 1..n |-> 7]
Strings == {<<>>, <<0>>, <<127>>, <<128>>, Sevens(2), Sevens(55), Sevens(56), Sevens(255), Sevens(256)}
Paths == {<<>>, <<0>>, <<15>>, <<0, 1>>, <<1, 2, 3>>}
Lists == (UNION {[1..n -> Strings] : n \in 1..2}) \cup
         {[i \in 1..17 |-> IF i \in set THEN Sevens(32) ELSE <<>>] : set \in {{}, {1}, 1..16}}
MCSent == [path : {<<>>}, leaf : {FALSE}, items : Lists] \cup
          [path : {<<p>> : p \in Paths}, leaf : BOOLEAN, items : {<<<<1>>>>, <<Sevens(32)>>}]

Marks == {0, 1, 127, 128, 129, 183, 184, 185, 191, 192, 193, 194, 247, 248, 249, 255}
Long(head, b, tail) == <<head>> \o [i \in 1..8 |-> IF i = 1 THEN b ELSE tail]
MCRaw == {<<>>} \cup UNION {[1..n -> Marks] : n \in 1..3} \cup
         {Long(h, b, t) \o e : h \in {191, 255}, b \in {0, 127, 128, 255}, t \in {0, 255}, e \in {<<>>, <<1>>}} \cup
         {<<201>> \o Long(191, b, t) : b \in {0, 127, 128, 255}, t \in {0, 255}}
=============================================================================
