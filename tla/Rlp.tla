-------------------------------- MODULE Rlp --------------------------------
(***************************************************************************)
(* The RLP of eth_state.go, on bytes: how the bytes of a trie node decode  *)
(* into its items, one item a step, how a node's compact path decodes into *)
(* nibbles, and the encoders a claim is compared through.                  *)
(*                                                                         *)
(* Offsets are Go's, from 0, and a slice outside its bytes panics.         *)
(***************************************************************************)
EXTENDS Integers, Sequences, SequencesExt

CONSTANTS
  Sent,    \* what an honest indexer encodes: [path, leaf, items], the path of
           \* an extension or leaf before its items, or none
  Raw      \* byte strings nobody encoded

VARIABLES
  source,    \* what was encoded into data: <<s>> of a member s of Sent, or <<>>
  data,      \* the bytes rlpDecodeList is given
  payload,   \* the list's payload
  pos,       \* how far its loop is
  out,       \* the items so far
  rlp        \* "idle", "items", then "ok", "error" or "panic"

rlpVars == <<source, data, payload, pos, out, rlp>>

-----------------------------------------------------------------------------
(* Encoding. *)

trimLeadingZeros(b) ==
  IF \A i \in DOMAIN b : b[i] = 0 THEN <<>>
  ELSE SubSeq(b, CHOOSE i \in DOMAIN b : b[i] # 0 /\ \A j \in 1..(i - 1) : b[j] = 0, Len(b))

\* The four high bytes of a length are zero.
uintToMinBE(n) ==
  trimLeadingZeros(<<n \div 16777216, (n \div 65536) % 256, (n \div 256) % 256, n % 256>>)

Headed(base, body) ==
  IF Len(body) <= 55 THEN <<base + Len(body)>> \o body
  ELSE LET size == uintToMinBE(Len(body)) IN <<base + 55 + Len(size)>> \o size \o body

rlpEncodeBytes(b) == IF Len(b) = 1 /\ b[1] < 128 THEN b ELSE Headed(128, b)

rlpEncodeList(items) == Headed(192, FlattenSeq(items))

-----------------------------------------------------------------------------
(* Decoding. *)

InRange(d, from, to) == 0 <= from /\ from <= to /\ to <= Len(d)
Slice(d, from, to) == SubSeq(d, from + 1, to)

\* The number in the k bytes after the first, read as a uint64.  Past MaxLength
\* it is more than any bytes here, and stays so.
MaxLength == 2147483647
Uint64(d, k) ==
  LET l[i \in 0 .. k] ==
        IF i = 0 THEN 0 ELSE IF l[i - 1] > MaxLength \div 256 THEN l[i - 1] ELSE l[i - 1] * 256 + d[i + 1]
  IN  l[k]

\* Mutation: the length is compared as an int, so one of 2^63 or more is
\* negative and passes.
rlpLongLengthInt(d, lenOfLen) ==
  IF 1 + lenOfLen > Len(d) THEN -1
  ELSE IF lenOfLen = 8 /\ d[2] >= 128 THEN -2
  ELSE IF Uint64(d, lenOfLen) > Len(d) - 1 - lenOfLen THEN -1 ELSE Uint64(d, lenOfLen)

\* The length in the lenOfLen bytes after the first, or -1: too few bytes for
\* it, or for what it announces.
rlpLongLength(d, lenOfLen) ==
  IF 1 + lenOfLen > Len(d) THEN -1
  ELSE IF Uint64(d, lenOfLen) > Len(d) - 1 - lenOfLen THEN -1 ELSE Uint64(d, lenOfLen)

\* Where in d a string or list whose long form starts after long, and short
\* after short, has its bytes: <<from, to>>, or <<>> for an error.
Extent(d, short, long) ==
  IF d[1] <= long
    THEN LET l == d[1] - short IN IF 1 + l > Len(d) THEN <<>> ELSE <<1, 1 + l>>
    ELSE LET k == d[1] - long
             l == rlpLongLength(d, k)
         IN  IF l = -1 THEN <<>> ELSE <<1 + k, 1 + k + l>>

rlpDecodeItem(d) ==
  CASE d[1] <= 127 -> <<0, 1>>
    [] d[1] \in 128..191 -> Extent(d, 128, 183)
    [] OTHER -> <<>>            \* a nested list

Outcome(r) == rlp' = r /\ UNCHANGED <<payload, pos, out>>

\* rlpDecodeList up to its loop.
Decode(bytes, from) ==
  /\ data' = bytes
  /\ source' = from
  /\ IF bytes = <<>> \/ bytes[1] < 192 THEN Outcome("error")
     ELSE LET e == Extent(bytes, 192, 247)
          IN  IF e = <<>> THEN Outcome("error")
              ELSE IF ~InRange(bytes, e[1], e[2]) THEN Outcome("panic")
              ELSE /\ payload' = Slice(bytes, e[1], e[2])
                   /\ rlp' = "items"
                   /\ UNCHANGED <<pos, out>>

\* One round of its loop, or its end.
DecodeItem ==
  /\ rlp = "items"
  /\ IF pos >= Len(payload) THEN Outcome("ok")
     ELSE LET rest == Slice(payload, pos, Len(payload))
              e == rlpDecodeItem(rest)
          IN  IF e = <<>> THEN Outcome("error")
              ELSE IF ~InRange(rest, e[1], e[2]) THEN Outcome("panic")
              ELSE /\ out' = Append(out, Slice(rest, e[1], e[2]))
                   /\ pos' = pos + e[2]
                   /\ UNCHANGED <<payload, rlp>>
  /\ UNCHANGED <<source, data>>

\* The nibbles and the leaf flag of a path.
decodeCompactPath(encoded) ==
  IF encoded = <<>> THEN [path |-> <<>>, leaf |-> FALSE]
  ELSE LET flag == encoded[1] \div 16
           first == IF flag % 2 = 1 THEN <<encoded[1] % 16>> ELSE <<>>
           nibs == [i \in 1 .. 2 * (Len(encoded) - 1) |->
                     LET b == encoded[1 + (i + 1) \div 2] IN IF i % 2 = 1 THEN b \div 16 ELSE b % 16]
       IN  [path |-> first \o nibs, leaf |-> flag >= 2]

-----------------------------------------------------------------------------
(* The indexer: how a trie writes the path of a node (external). *)

HexPrefix(path, leaf) ==
  LET odd == Len(path) % 2
      flag == (IF leaf THEN 2 ELSE 0) + odd
      nibs == (IF odd = 1 THEN <<flag>> ELSE <<flag, 0>>) \o path
  IN  [i \in 1..(Len(nibs) \div 2) |-> 16 * nibs[2 * i - 1] + nibs[2 * i]]

Items(s) == [i \in DOMAIN s.path |-> HexPrefix(s.path[i], s.leaf)] \o s.items
Encodings(s) == [i \in DOMAIN Items(s) |-> rlpEncodeBytes(Items(s)[i])]
EncodeSent(s) == rlpEncodeList(Encodings(s))

\* Items are bytes, a path nibbles, and an answer is capped far below MaxLength
\* (httpbody.Large).
Bytes == 0 .. 255
ASSUME SentAreNodes ==
  \A s \in Sent :
    /\ s.path \in Seq(Seq(0 .. 15)) /\ Len(s.path) <= 1
    /\ s.leaf \in BOOLEAN
    /\ s.items \in Seq(Seq(Bytes))
    /\ \A i \in DOMAIN Items(s) : Len(Items(s)[i]) <= MaxLength
    /\ Len(FlattenSeq(Encodings(s))) <= MaxLength

ASSUME RawAreBytes == Raw \subseteq Seq(Bytes)

RlpIdle == source = <<>> /\ data = <<>> /\ payload = <<>> /\ pos = 0 /\ out = <<>> /\ rlp = "idle"

RlpNext ==
  \/ rlp = "idle" /\ \E s \in Sent : Decode(EncodeSent(s), <<s>>)
  \/ rlp = "idle" /\ \E bytes \in Raw : Decode(bytes, <<>>)
  \/ DecodeItem

RlpSpec == RlpIdle /\ [][RlpNext]_rlpVars

\* No bytes make the decoder slice outside them ("refuses a length longer than
\* the bytes that follow them, so the length fits in an int and the caller can
\* slice"), and what the encoders write is read back: the items, at every
\* length where the form of a header changes, and a path and its leaf flag.
RlpReadsBack ==
  /\ rlp # "panic"
  /\ rlp \notin {"idle", "items"} =>
       \A s \in Range(source) :
         /\ rlp = "ok"
         /\ out = Items(s)
         /\ \A path \in Range(s.path) :
              decodeCompactPath(out[1]) = [path |-> path, leaf |-> s.leaf]
=============================================================================
