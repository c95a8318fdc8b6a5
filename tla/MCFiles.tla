------------------------------ MODULE MCFiles ------------------------------
(* Instances of Files for TLC. *)
EXTENDS Files

CONSTANTS c1, c2, c3

\* Two bytes.
a == 97
b == 98

\* A download beside two writes, one of them an upload.
MCDoes == (c1 :> {"download"}) @@ (c2 :> {"upload", "delete", "unregister"})
            @@ (c3 :> {"upload"})

\* No data, one short chunk, and three chunks, an odd level of the Merkle
\* tree, the last one short and equal to the other file's only chunk.
MCContents == {<<>>, <<a>>, <<a, b, a, b, a>>}

\* Four chunks, whose Merkle root is that of three, no chunk, one chunk too
\* many, and a chunk over the cap.
MCShapes == {[total_size |-> t[1], chunk_count |-> t[2], chunk_size |-> t[3]] :
               t \in {<<8, 4, 2>>, <<0, 0, 2>>, <<3, 3, 2>>, <<5, 1, 5>>}}

MCServed == {<<a>>, <<a, b, b, a>>}
=============================================================================
