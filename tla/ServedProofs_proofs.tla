------------------------ MODULE ServedProofs_proofs ------------------------
(***************************************************************************)
(* What bytes and texts are read back as: what the checks of served        *)
(* evidence accept, for all sets of logs and blocks, and for all tries,    *)
(* nodes and answers, and what a signed message stands for.                *)
(*                                                                         *)
(* Completeness: the bytes hashed are those of one sequence of logs only,  *)
(* so that a block verifies as complete exactly when every log the chain   *)
(* committed to, and no other, was served in order.  Of Keccak this takes  *)
(* that it separates texts, which is what the model has it do.             *)
(*                                                                         *)
(* EthState: what the hash a walk expects holds at the rest of the key is  *)
(* what the trie holds at the key, so a walk that ends with a value ends   *)
(* with the one the root commits to, and no true claim is refused.         *)
(*                                                                         *)
(* RLP: a length that is not refused fits in the bytes there are, so that  *)
(* no slice is outside them; and a list, its items and a compact path are  *)
(* read back as they were written, a header's length at whatever number of *)
(* bytes it takes.                                                         *)
(*                                                                         *)
(* SignedMessages: the lines of a signed message hold no line break and    *)
(* those of a revocation no ':', so they are the finest lines that give    *)
(* its text, and a message that has as many is of the same fields.  A      *)
(* rotation has as many because it counts its grants before it lists them. *)
(*                                                                         *)
(* LayerWalk: a layer is run below a key its own has not walked yet, so it *)
(* has not been run before.                                                *)
(***************************************************************************)
EXTENDS Completeness, EthState, Rlp, SignedMessages, LayerWalk, SequenceFacts, FiniteSetTheorems

\* What a log that parses is made of.
Parsed(m) ==
  /\ m.address \in Seq(Int) /\ Len(m.address) = Width
  /\ m.topics \in Seq(Seq(Int)) /\ Len(m.topics) < Limit32
  /\ \A i \in 1 .. Len(m.topics) : Len(m.topics[i]) = Width
  /\ m.data \in Seq(Int) /\ Len(m.data) < Limit32

LEMMA LogsParse ==
  ASSUME NEW m \in MatchedLogs, parseMatchedLog(m)
  PROVE  /\ Parsed(m)
         /\ m = [address |-> m.address, topics |-> m.topics, data |-> m.data]
<1>1. /\ m \in [address : Hexes, topics : Seq(Hexes), data : Hexes]
      /\ Len(m.topics) < Limit32 /\ (m.data # NotHex => Len(m.data) < Limit32)
  BY DEF MatchedLogs
<1>2. m.address \in Hexes /\ m.topics \in Seq(Hexes) /\ m.data \in Hexes
  BY <1>1
<1>3. m.address # NotHex /\ m.data # NotHex /\ NotHex \notin Range(m.topics)
  BY DEF parseMatchedLog
<1>4. ASSUME NEW s \in Seq(0 .. 255) PROVE s \in Seq(Int)
  <2>1. 0 .. 255 \subseteq Int
    OBVIOUS
  <2> QED BY ZenonT(60), <2>1, SeqMonotonic
<1>5. \A i \in 1 .. Len(m.topics) : m.topics[i] \in Range(m.topics)
  BY <1>2 DEF Range
<1>6. ASSUME NEW i \in 1 .. Len(m.topics)
      PROVE  m.topics[i] \in Seq(Int) /\ Len(m.topics[i]) = Width
  <2>1. m.topics[i] \in Hexes /\ m.topics[i] # NotHex
    BY <1>2, <1>3, <1>5
  <2> QED BY <1>4, <1>5, <2>1 DEF Hexes, parseMatchedLog
<1>7. m.topics \in Seq(Seq(Int))
  BY SMTT(60), <1>2, <1>6
<1>8. m.address \in Seq(Int) /\ m.data \in Seq(Int)
  BY <1>2, <1>3, <1>4 DEF Hexes
<1>9. Len(m.address) = Width /\ Len(m.data) < Limit32
  BY <1>1, <1>3 DEF parseMatchedLog
<1> QED BY <1>1, <1>6, <1>7, <1>8, <1>9 DEF Parsed

\* The parts of a log's bytes, the first outermost.
LEMMA NestRight ==
  ASSUME NEW a \in Seq(Int), NEW b \in Seq(Int), NEW c \in Seq(Int),
         NEW d \in Seq(Int), NEW e \in Seq(Int), NEW r \in Seq(Int)
  PROVE  /\ Cat(Cat(Cat(Cat(Cat(a, b), c), d), e), r) = Cat(a, Cat(b, Cat(c, Cat(d, Cat(e, r)))))
         /\ Cat(Cat(Cat(Cat(a, b), c), d), e) \in Seq(Int)
         /\ Cat(e, r) \in Seq(Int)
         /\ Cat(d, Cat(e, r)) \in Seq(Int)
         /\ Cat(c, Cat(d, Cat(e, r))) \in Seq(Int)
         /\ Cat(b, Cat(c, Cat(d, Cat(e, r)))) \in Seq(Int)
<1>1. \A s, t \in Seq(Int) : Cat(s, t) \in Seq(Int)
  BY CatFacts
<1>2. \A s, t, v \in Seq(Int) : Cat(Cat(s, t), v) = Cat(s, Cat(t, v))
  BY CatFacts
<1>3. Cat(a, b) \in Seq(Int) /\ Cat(e, r) \in Seq(Int)
  BY <1>1
<1>4. Cat(Cat(a, b), c) \in Seq(Int) /\ Cat(d, Cat(e, r)) \in Seq(Int)
  BY <1>1, <1>3
<1>5. Cat(Cat(Cat(a, b), c), d) \in Seq(Int) /\ Cat(c, Cat(d, Cat(e, r))) \in Seq(Int)
  BY <1>1, <1>4
<1>6. /\ Cat(Cat(Cat(Cat(a, b), c), d), e) \in Seq(Int)
      /\ Cat(b, Cat(c, Cat(d, Cat(e, r)))) \in Seq(Int)
  BY <1>1, <1>5
<1>7. Cat(Cat(Cat(Cat(Cat(a, b), c), d), e), r) = Cat(Cat(Cat(Cat(a, b), c), d), Cat(e, r))
  BY <1>2, <1>5
<1>8. Cat(Cat(Cat(Cat(a, b), c), d), Cat(e, r)) = Cat(Cat(Cat(a, b), c), Cat(d, Cat(e, r)))
  BY <1>2, <1>3, <1>4
<1>9. Cat(Cat(Cat(a, b), c), Cat(d, Cat(e, r))) = Cat(Cat(a, b), Cat(c, Cat(d, Cat(e, r))))
  BY <1>2, <1>3, <1>4
<1>10. Cat(Cat(a, b), Cat(c, Cat(d, Cat(e, r)))) = Cat(a, Cat(b, Cat(c, Cat(d, Cat(e, r)))))
  BY <1>2, <1>5
<1> QED BY <1>3, <1>4, <1>5, <1>6, <1>7, <1>8, <1>9, <1>10

\* FlattenUnique, of bytes.
LEMMA TextsFlattenOnce ==
  \A f, g \in Seq(Seq(Int)) : \A u, v \in Seq(Int) :
    Len(f) = Len(g) /\ Apart(f, g, Int) /\ Cat(FlattenSeq(f), u) = Cat(FlattenSeq(g), v)
      => (\A i \in 1 .. Len(f) : f[i] = g[i]) /\ u = v
BY FlattenUnique

\* One word per log: a text begins with the bytes of one log at most.
LEMMA LogsAreApart ==
  ASSUME NEW l, NEW m, Parsed(l), Parsed(m), NEW r \in Seq(Int), NEW s \in Seq(Int),
         Cat(LogBytes(l), r) = Cat(LogBytes(m), s)
  PROVE  l.address = m.address /\ l.topics = m.topics /\ l.data = m.data
<1> DEFINE a1 == l.address
           a2 == m.address
           b1 == <<Len(l.topics) % Limit32>>
           b2 == <<Len(m.topics) % Limit32>>
           c1 == FlattenSeq(l.topics)
           c2 == FlattenSeq(m.topics)
           d1 == <<Len(l.data) % Limit32>>
           d2 == <<Len(m.data) % Limit32>>
           e1 == l.data
           e2 == m.data
<1>1. \A p, q, x, y \in Seq(Int) : Cat(p, x) = Cat(q, y) /\ Len(p) = Len(q) => p = q /\ x = y
  BY Peel
<1>2. /\ Len(l.topics) % Limit32 = Len(l.topics) /\ Len(m.topics) % Limit32 = Len(m.topics)
      /\ Len(l.data) % Limit32 = Len(l.data) /\ Len(m.data) % Limit32 = Len(m.data)
  <2>1. \A n \in Nat : n < Limit32 => n % Limit32 = n
    BY SMTT(60), CompletenessConstants
  <2>2. /\ Len(l.topics) \in Nat /\ Len(m.topics) \in Nat
        /\ Len(l.data) \in Nat /\ Len(m.data) \in Nat
    BY LenProperties DEF Parsed
  <2> QED BY <2>1, <2>2 DEF Parsed
<1>3. c1 \in Seq(Int) /\ c2 \in Seq(Int)
  <2>1. l.topics \in Seq(Seq(Int)) /\ m.topics \in Seq(Seq(Int))
    BY DEF Parsed
  <2> QED BY <2>1, FlattenIn
<1>4. /\ a1 \in Seq(Int) /\ a2 \in Seq(Int) /\ Len(a1) = Len(a2)
      /\ e1 \in Seq(Int) /\ e2 \in Seq(Int)
  BY DEF Parsed
<1>5. /\ b1 \in Seq(Int) /\ b2 \in Seq(Int) /\ Len(b1) = Len(b2)
      /\ d1 \in Seq(Int) /\ d2 \in Seq(Int) /\ Len(d1) = Len(d2)
  BY <1>2 DEF Parsed
<1>6. /\ LogBytes(l) = Cat(Cat(Cat(Cat(a1, b1), c1), d1), e1)
      /\ LogBytes(m) = Cat(Cat(Cat(Cat(a2, b2), c2), d2), e2)
  BY DEF LogBytes, Cat
<1>7. (b1 = b2 => Len(l.topics) = Len(m.topics)) /\ (d1 = d2 => Len(e1) = Len(e2))
  BY <1>2
<1> HIDE DEF a1, a2, b1, b2, c1, c2, d1, d2, e1, e2
<1> DEFINE x1 == Cat(e1, r)
           x2 == Cat(e2, s)
           y1 == Cat(d1, x1)
           y2 == Cat(d2, x2)
           z1 == Cat(c1, y1)
           z2 == Cat(c2, y2)
           w1 == Cat(b1, z1)
           w2 == Cat(b2, z2)
<1>8. /\ Cat(a1, w1) = Cat(a2, w2)
      /\ x1 \in Seq(Int) /\ y1 \in Seq(Int) /\ z1 \in Seq(Int) /\ w1 \in Seq(Int)
      /\ x2 \in Seq(Int) /\ y2 \in Seq(Int) /\ z2 \in Seq(Int) /\ w2 \in Seq(Int)
  <2>1. /\ Cat(LogBytes(l), r) = Cat(a1, w1)
        /\ x1 \in Seq(Int) /\ y1 \in Seq(Int) /\ z1 \in Seq(Int) /\ w1 \in Seq(Int)
    BY SMTT(60), <1>3, <1>4, <1>5, <1>6, NestRight
  <2>2. /\ Cat(LogBytes(m), s) = Cat(a2, w2)
        /\ x2 \in Seq(Int) /\ y2 \in Seq(Int) /\ z2 \in Seq(Int) /\ w2 \in Seq(Int)
    BY SMTT(60), <1>3, <1>4, <1>5, <1>6, NestRight
  <2> QED BY <2>1, <2>2
<1> HIDE DEF w1, w2
<1>9. a1 = a2 /\ w1 = w2
  BY SMTT(60), <1>1, <1>4, <1>8
<1> USE DEF w1, w2
<1> HIDE DEF z1, z2
<1>10. b1 = b2 /\ z1 = z2
  BY <1>1, <1>5, <1>8, <1>9
<1>11. l.topics = m.topics /\ y1 = y2
  <2>1. Len(l.topics) = Len(m.topics) /\ l.topics \in Seq(Seq(Int)) /\ m.topics \in Seq(Seq(Int))
    BY <1>7, <1>10 DEF Parsed
  <2>2. Apart(l.topics, m.topics, Int)
    <3>1. ASSUME NEW i \in 1 .. Len(l.topics), NEW x \in Seq(Int), NEW y \in Seq(Int),
                 Cat(l.topics[i], x) = Cat(m.topics[i], y)
          PROVE  l.topics[i] = m.topics[i]
      <4>1. l.topics[i] \in Seq(Int) /\ m.topics[i] \in Seq(Int)
        BY SMTT(60), <2>1
      <4>2. Len(l.topics[i]) = Len(m.topics[i])
        BY <2>1 DEF Parsed
      <4> QED BY SMTT(60), <1>1, <3>1, <4>1, <4>2
    <3> QED BY <3>1, Zenon DEF Apart
  <2>3. Cat(FlattenSeq(l.topics), y1) = Cat(FlattenSeq(m.topics), y2)
    BY <1>10, Zenon DEF z1, z2, c1, c2
  <2> HIDE DEF y1, y2
  <2>4. (\A i \in 1 .. Len(l.topics) : l.topics[i] = m.topics[i]) /\ y1 = y2
    <3>1. y1 \in Seq(Int) /\ y2 \in Seq(Int)
      BY <1>8
    <3>2. \A u, v \in Seq(Int) :
            Cat(FlattenSeq(l.topics), u) = Cat(FlattenSeq(m.topics), v)
              => (\A i \in 1 .. Len(l.topics) : l.topics[i] = m.topics[i]) /\ u = v
      BY SMTT(60), <2>1, <2>2, TextsFlattenOnce
    <3> QED BY <2>3, <3>1, <3>2
  <2>5. l.topics = m.topics
    BY <2>1, <2>4, SeqEqual
  <2> QED BY <2>4, <2>5
<1> HIDE DEF x1, x2
<1>12. d1 = d2 /\ x1 = x2
  BY SMTT(60), <1>1, <1>5, <1>8, <1>11 DEF y1, y2
<1>13. e1 = e2
  BY <1>1, <1>4, <1>7, <1>12 DEF x1, x2
<1> QED BY <1>9, <1>11, <1>13 DEF a1, a2, e1, e2

LEMMA LogBytesAreBytes ==
  ASSUME NEW m, Parsed(m)
  PROVE  LogBytes(m) \in Seq(Int)
<1> DEFINE b == <<Len(m.topics) % Limit32>>
           c == FlattenSeq(m.topics)
           d == <<Len(m.data) % Limit32>>
<1>1. m.topics \in Seq(Seq(Int)) /\ m.address \in Seq(Int) /\ m.data \in Seq(Int)
  BY DEF Parsed
<1>2. c \in Seq(Int)
  BY <1>1, FlattenIn
<1>3. b \in Seq(Int) /\ d \in Seq(Int)
  BY <1>1, LenProperties, CompletenessConstants
<1>4. LogBytes(m) = Cat(Cat(Cat(Cat(m.address, b), c), d), m.data)
  BY DEF LogBytes, Cat
<1> HIDE DEF b, c, d
<1>5. <<>> \in Seq(Int)
  BY EmptySeq
<1> QED BY <1>1, <1>2, <1>3, <1>4, <1>5, NestRight

\* The bytes hashed are those of one sequence of logs ("length-prefixed, so no
\* boundary is ambiguous", completeness.go).
LEMMA HashIsOfOneSet ==
  ASSUME NEW n \in Nat, NEW A \in Seq(MatchedLogs), NEW B \in Seq(MatchedLogs),
         parseMatchedLogs(A), parseMatchedLogs(B),
         CanonicalEventSetHash(n, A) = CanonicalEventSetHash(n, B)
  PROVE  A = B
<1> DEFINE f == [i \in DOMAIN A |-> LogBytes(A[i])]
           g == [i \in DOMAIN B |-> LogBytes(B[i])]
           F == FlattenSeq(f)
           G == FlattenSeq(g)
           N == <<n>>
           K == <<Len(A)>>
           L == <<Len(B)>>
<1>1. ASSUME NEW C \in Seq(MatchedLogs), parseMatchedLogs(C), NEW i \in 1 .. Len(C)
      PROVE  /\ Parsed(C[i]) /\ LogBytes(C[i]) \in Seq(Int)
             /\ C[i] = [address |-> C[i].address, topics |-> C[i].topics, data |-> C[i].data]
  <2>1. C[i] \in MatchedLogs
    OBVIOUS
  <2>2. C[i] \in Range(C)
    BY DEF Range
  <2>3. parseMatchedLog(C[i])
    BY <1>1, <2>2, Zenon DEF parseMatchedLogs
  <2>4. /\ Parsed(C[i])
        /\ C[i] = [address |-> C[i].address, topics |-> C[i].topics, data |-> C[i].data]
    BY <2>1, <2>3, LogsParse
  <2> QED BY <2>4, LogBytesAreBytes
<1>2. /\ Len(A) \in Nat /\ DOMAIN A = 1 .. Len(A)
      /\ Len(B) \in Nat /\ DOMAIN B = 1 .. Len(B)
  BY LenProperties
<1>3. f \in Seq(Seq(Int)) /\ Len(f) = Len(A) /\ g \in Seq(Seq(Int)) /\ Len(g) = Len(B)
  <2>1. /\ \A i \in 1 .. Len(A) : LogBytes(A[i]) \in Seq(Int)
        /\ \A i \in 1 .. Len(B) : LogBytes(B[i]) \in Seq(Int)
    BY <1>1
  <2>2. f \in [1 .. Len(A) -> Seq(Int)] /\ g \in [1 .. Len(B) -> Seq(Int)]
    BY <1>2, <2>1
  <2> QED BY <1>2, <2>2
<1>4. F \in Seq(Int) /\ G \in Seq(Int)
  BY <1>3, FlattenIn
<1>5. /\ N \in Seq(Int) /\ K \in Seq(Int) /\ L \in Seq(Int)
      /\ Len(N) = 1 /\ Len(K) = 1 /\ Len(L) = 1
      /\ (K = L => Len(A) = Len(B))
  <2>1. \A i, j \in Nat : <<i>> \in Seq(Int) /\ Len(<<i>>) = 1 /\ (<<i>> = <<j>> => i = j)
    OBVIOUS
  <2> QED BY <1>2, <2>1, Zenon
<1>6. Cat(Cat(N, K), F) = Cat(Cat(N, L), G)
  BY DEF CanonicalEventSetHash, Cat
<1> HIDE DEF F, G, N, K, L
<1>7. Len(A) = Len(B) /\ F = G
  <2>1. \A s, t, r \in Seq(Int) : Cat(Cat(s, t), r) = Cat(s, Cat(t, r))
    BY CatFacts
  <2>2. \A s, t \in Seq(Int) : Cat(s, t) \in Seq(Int)
    BY CatFacts
  <2>3. \A p, q, x, y \in Seq(Int) : Cat(p, x) = Cat(q, y) /\ Len(p) = Len(q) => p = q /\ x = y
    BY Peel
  <2>4. Cat(N, Cat(K, F)) = Cat(N, Cat(L, G))
    BY <1>4, <1>5, <1>6, <2>1
  <2>5. Cat(K, F) = Cat(L, G)
    BY <1>4, <1>5, <2>2, <2>3, <2>4
  <2> QED BY <1>4, <1>5, <2>3, <2>5
<1>8. ASSUME NEW i \in 1 .. Len(A), NEW x \in Seq(Int), NEW y \in Seq(Int),
             Cat(LogBytes(A[i]), x) = Cat(LogBytes(B[i]), y)
      PROVE  A[i] = B[i]
  <2>1. /\ Parsed(A[i]) /\ Parsed(B[i])
        /\ A[i] = [address |-> A[i].address, topics |-> A[i].topics, data |-> A[i].data]
        /\ B[i] = [address |-> B[i].address, topics |-> B[i].topics, data |-> B[i].data]
    BY <1>1, <1>7
  <2>2. A[i].address = B[i].address /\ A[i].topics = B[i].topics /\ A[i].data = B[i].data
    BY <1>8, <2>1, LogsAreApart
  <2> QED BY <2>1, <2>2
<1>9. \A i \in 1 .. Len(A) : f[i] = LogBytes(A[i]) /\ g[i] = LogBytes(B[i])
  BY <1>2, <1>7
<1> HIDE DEF f, g
<1>10. Apart(f, g, Int)
  <2>1. ASSUME NEW i \in 1 .. Len(f), NEW x \in Seq(Int), NEW y \in Seq(Int),
               Cat(f[i], x) = Cat(g[i], y)
        PROVE  f[i] = g[i]
    BY <1>3, <1>8, <1>9, <2>1
  <2> QED BY <2>1, Zenon DEF Apart
<1>11. <<>> \in Seq(Int) /\ Cat(F, <<>>) = Cat(G, <<>>)
  BY <1>7, EmptySeq
<1>12. \A i \in 1 .. Len(f) : f[i] = g[i]
  <2>1. Cat(FlattenSeq(f), <<>>) = Cat(FlattenSeq(g), <<>>)
    BY <1>11, Zenon DEF F, G
  <2>2. \A u, v \in Seq(Int) :
          Cat(FlattenSeq(f), u) = Cat(FlattenSeq(g), v) => \A i \in 1 .. Len(f) : f[i] = g[i]
    BY <1>3, <1>7, <1>10, TextsFlattenOnce
  <2> QED BY <1>11, <2>1, <2>2
<1>13. ASSUME NEW i \in 1 .. Len(A) PROVE A[i] = B[i]
  <2>1. Cat(LogBytes(A[i]), <<>>) = Cat(LogBytes(B[i]), <<>>)
    BY <1>3, <1>9, <1>12
  <2> QED BY <1>8, <1>11, <2>1
<1> QED BY <1>7, <1>13, SeqEqual

-----------------------------------------------------------------------------
(* The check of a block. *)

\* What the client knows while it checks: the commitment it goes by is that of
\* the subgrove and block asked for.
CompletenessInv ==
  /\ step # "idle" => asked \in DOMAIN Committed
  /\ step = "logs" => commitment = CanonicalEventSetHash(asked[2], Committed[asked])
  /\ complete # "" => step = "done"
  /\ CompleteIsExact

LEMMA CompletenessKnows == CompletenessSpec => []CompletenessInv
<1>1. CompletenessIdle => CompletenessInv
  BY DEF CompletenessIdle, CompletenessInv, CompleteIsExact
<1>2. CompletenessInv /\ [CompletenessNext]_completenessVars => CompletenessInv'
  <2> SUFFICES ASSUME CompletenessInv, [CompletenessNext]_completenessVars
               PROVE  CompletenessInv'
    OBVIOUS
  <2> USE DEF CompletenessInv
  <2>1. ASSUME NEW x \in DOMAIN Committed, VerifyBlockCompleteness(x) PROVE CompletenessInv'
    BY <2>1 DEF VerifyBlockCompleteness, CompleteIsExact
  <2>2. CASE AnchorFails
    BY <2>2 DEF AnchorFails, Return, CompleteIsExact
  <2>3. ASSUME NEW a \in Anchors, FetchEventsCommitment(a) PROVE CompletenessInv'
    <3>1. PICK x \in DOMAIN Committed :
            a = [of |-> x, commitment |-> CanonicalEventSetHash(x[2], Committed[x])]
      BY Zenon DEF Anchors
    <3>2. a.of = x /\ a.commitment = CanonicalEventSetHash(x[2], Committed[x])
      BY <3>1
    <3> QED BY <2>3, <3>2 DEF FetchEventsCommitment, Return, CompleteIsExact
  <2>4. CASE LogsFail
    BY <2>4 DEF LogsFail, Return, CompleteIsExact
  <2>5. CASE FetchMatchedLogs
    <3>1. PICK logs \in ServedLogs :
            /\ servedLogs' = logs
            /\ Return(IF ~parseMatchedLogs(logs) THEN "error"
                      ELSE IF VerifyServedEvents(commitment, asked[2], logs) THEN "true"
                      ELSE "false")
      BY <2>5 DEF FetchMatchedLogs
    <3>2. /\ asked \in DOMAIN Committed /\ asked' = asked
          /\ commitment = CanonicalEventSetHash(asked[2], Committed[asked])
      BY <2>5 DEF FetchMatchedLogs
    <3>3. /\ asked[2] \in Nat /\ Committed[asked] \in Seq(MatchedLogs)
          /\ parseMatchedLogs(Committed[asked]) /\ logs \in Seq(MatchedLogs)
      BY <3>2, CommittedAreLogs, ServedAreLogs
    <3>4. ASSUME parseMatchedLogs(logs), VerifyServedEvents(commitment, asked[2], logs)
          PROVE  logs = Committed[asked]
      <4>1. CanonicalEventSetHash(asked[2], logs) = CanonicalEventSetHash(asked[2], Committed[asked])
        BY <3>2, <3>4 DEF VerifyServedEvents
      <4> QED BY <3>3, <3>4, <4>1, HashIsOfOneSet
    <3>5. logs = Committed[asked] => parseMatchedLogs(logs) /\ VerifyServedEvents(commitment, asked[2], logs)
      BY <3>2, <3>3, Zenon DEF VerifyServedEvents
    <3>6. step' = "done"
      BY <3>1 DEF Return
    <3>7. CompleteIsExact'
      <4>1. complete' = "true" => logs = Committed[asked]
        BY <3>1, <3>4 DEF Return
      <4>2. complete' = "false" => logs # Committed[asked]
        BY <3>1, <3>5 DEF Return
      <4> QED BY <3>1, <3>2, <4>1, <4>2 DEF CompleteIsExact
    <3> QED BY <3>2, <3>6, <3>7
  <2>6. CASE UNCHANGED completenessVars
    BY <2>6 DEF completenessVars, CompleteIsExact
  <2> QED BY <2>1, <2>2, <2>3, <2>4, <2>5, <2>6 DEF CompletenessNext
<1> QED BY <1>1, <1>2, PTL DEF CompletenessSpec

\* VerifyBlockCompleteness returns true exactly when the logs served are those
\* the chain committed to for the subgrove and block asked for, whatever the
\* RPC node answers about others and the indexer serves.
THEOREM CompleteMeansComplete == CompletenessSpec => []CompleteIsExact
<1>1. CompletenessInv => CompleteIsExact
  BY DEF CompletenessInv
<1> QED BY <1>1, CompletenessKnows, PTL

-----------------------------------------------------------------------------
(* What a walk leaves of a trie: the values under a reference at a path.    *)

Values(ref, path) == {e[2] : e \in {x \in Entries(ref) : x[1] = path}}

\* What is left of a key after i nibbles.
Rest(key, i) == SubSeq(key, i + 1, Len(key))

LEMMA RestIs ==
  ASSUME NEW key \in Seq(Nat), NEW i \in 0 .. Len(key)
  PROVE  /\ Rest(key, i) \in Seq(Nat) /\ Len(Rest(key, i)) = Len(key) - i
         /\ \A j \in 1 .. Len(key) - i : Rest(key, i)[j] = key[i + j]
<1>1. Len(key) \in Nat /\ i \in Nat /\ i + 1 \in Int /\ i <= Len(key)
  OBVIOUS
<1>2. \A j \in i + 1 .. Len(key) : key[j] \in Nat
  OBVIOUS
<1>3. /\ Rest(key, i) \in Seq(Nat)
      /\ Len(Rest(key, i)) = IF i + 1 <= Len(key) THEN Len(key) - (i + 1) + 1 ELSE 0
      /\ \A j \in 1 .. Len(key) - (i + 1) + 1 : Rest(key, i)[j] = key[i + 1 + j - 1]
  <2> DEFINE m == i + 1
             n == Len(key)
             sub == SubSeq(key, m, n)
  <2>1. m \in Int /\ n \in Int /\ \A j \in m .. n : key[j] \in Nat
    BY <1>1, <1>2
  <2>2. Rest(key, i) = sub
    BY DEF Rest
  <2> HIDE DEF m, n
  <2>3. /\ sub \in Seq(Nat)
        /\ Len(sub) = IF m <= n THEN n - m + 1 ELSE 0
        /\ \A j \in 1 .. n - m + 1 : sub[j] = key[m + j - 1]
    BY <2>1, SubSeqProperties
  <2> HIDE DEF sub
  <2> QED BY <2>2, <2>3 DEF m, n
<1>4. Len(Rest(key, i)) = Len(key) - i
  BY <1>1, <1>3
<1>5. Len(key) - (i + 1) + 1 = Len(key) - i
  BY SMTT(60), <1>1
<1>6. ASSUME NEW j \in 1 .. Len(key) - i PROVE Rest(key, i)[j] = key[i + j]
  <2>1. Rest(key, i)[j] = key[i + 1 + j - 1]
    BY <1>3, <1>5
  <2>2. i + 1 + j - 1 = i + j
    BY <1>1
  <2> QED BY SMTT(60), <2>1, <2>2
<1> QED BY <1>3, <1>4, <1>6

LEMMA RestOfAll ==
  ASSUME NEW s \in Seq(Nat)
  PROVE  0 \in 0 .. Len(s) /\ Rest(s, 0) = s
<1>1. SubSeq(s, 1, Len(s)) = s
  BY SubSeqFull
<1> QED BY <1>1 DEF Rest

LEMMA RestOfRest ==
  ASSUME NEW key \in Seq(Nat), NEW i \in 0 .. Len(key), NEW k \in 0 .. Len(key) - i
  PROVE  Rest(Rest(key, i), k) = Rest(key, i + k)
<1> DEFINE r == Rest(key, i)
           u == Rest(r, k)
           w == Rest(key, i + k)
<1>1. /\ r \in Seq(Nat) /\ Len(r) = Len(key) - i
      /\ \A j \in 1 .. Len(key) - i : r[j] = key[i + j]
  BY RestIs
<1>2. i \in Nat /\ k \in Nat /\ Len(key) \in Nat /\ i + k \in 0 .. Len(key)
  OBVIOUS
<1>3. /\ w \in Seq(Nat) /\ Len(w) = Len(key) - (i + k)
      /\ \A j \in 1 .. Len(key) - (i + k) : w[j] = key[(i + k) + j]
  BY <1>2, RestIs
<1>4. k \in 0 .. Len(r)
  BY <1>1
<1>5. /\ u \in Seq(Nat) /\ Len(u) = Len(r) - k
      /\ \A j \in 1 .. Len(r) - k : u[j] = r[k + j]
  <2> HIDE DEF r
  <2> QED BY <1>1, <1>4, RestIs
<1> HIDE DEF r, u, w
<1>6. Len(u) = Len(w)
  BY <1>1, <1>2, <1>3, <1>5
<1>7. ASSUME NEW j \in 1 .. Len(u) PROVE u[j] = w[j]
  <2>1. j \in Nat /\ j \in 1 .. Len(key) - (i + k) /\ k + j \in 1 .. Len(key) - i
    BY <1>2, <1>3, <1>6
  <2>2. u[j] = r[k + j] /\ r[k + j] = key[i + (k + j)] /\ w[j] = key[(i + k) + j]
    BY <1>1, <1>3, <1>5, <2>1
  <2>3. i + (k + j) = (i + k) + j
    BY <1>2, <2>1
  <2> QED BY <2>2, <2>3
<1>8. u = w
  BY <1>3, <1>5, <1>6, <1>7, SeqEqual
<1> QED BY <1>8 DEF r, u, w

\* What begins a sequence leaves the rest of it.
LEMMA SplitsAt ==
  ASSUME NEW r \in Seq(Nat), NEW q \in Seq(Nat), NEW t \in Seq(Nat)
  PROVE  Cat(q, t) = r <=> IsPrefix(q, r) /\ t = Rest(r, Len(q))
<1> DEFINE p == SubSeq(r, 1, Len(q))
           w == Rest(r, Len(q))
<1>1. Len(q) \in Nat /\ Len(r) \in Nat /\ Len(t) \in Nat
  OBVIOUS
<1>2. SubSeq(q, 1, Len(q)) = q
  BY SubSeqFull
<1>3. ASSUME Len(q) <= Len(r)
      PROVE  p \in Seq(Nat) /\ w \in Seq(Nat) /\ Len(p) = Len(q) /\ Cat(p, w) = r
  <2>1. Len(q) \in 0 .. Len(r) /\ Len(q) \in 1 - 1 .. Len(r) /\ Len(r) \in Len(q) .. Len(r)
        /\ 1 \in 1 .. Len(r) + 1
    BY <1>1, <1>3
  <2>2. \A i \in 1 .. Len(q) : r[i] \in Nat
    BY SMTT(60), <1>1, <1>3
  <2>3. p \in Seq(Nat) /\ Len(p) = IF 1 <= Len(q) THEN Len(q) - 1 + 1 ELSE 0
    BY <1>1, <2>2, SubSeqProperties
  <2>4. Len(p) = Len(q)
    BY <1>1, <2>3
  <2>5. w \in Seq(Nat)
    BY <2>1, RestIs
  <2>6. SubSeq(r, 1, Len(q)) \o SubSeq(r, Len(q) + 1, Len(r)) = SubSeq(r, 1, Len(r))
    BY <2>1, ConcatAdjacentSubSeq
  <2>7. SubSeq(r, 1, Len(r)) = r
    BY SubSeqFull
  <2>8. Cat(p, w) = r
    BY <2>6, <2>7, Zenon DEF Cat, Rest
  <2> QED BY <2>3, <2>4, <2>5, <2>8
<1> HIDE DEF w
<1>4. ASSUME Cat(q, t) = r PROVE IsPrefix(q, r) /\ t = w
  <2>1. Len(Cat(q, t)) = Len(q) + Len(t)
    BY ConcatProperties DEF Cat
  <2>2. Len(q) <= Len(r)
    BY <1>1, <1>4, <2>1
  <2>3. p = q /\ t = w
    <3> HIDE DEF p
    <3>1. \A a, b, x, y \in Seq(Nat) : Cat(a, x) = Cat(b, y) /\ Len(a) = Len(b) => a = b /\ x = y
      BY Peel
    <3> QED BY <1>3, <1>4, <2>2, <3>1
  <2> QED BY <1>2, <2>2, <2>3 DEF IsPrefix
<1>5. ASSUME IsPrefix(q, r), t = w PROVE Cat(q, t) = r
  <2>1. Len(q) <= Len(r) /\ p = q
    BY <1>2, <1>5 DEF IsPrefix
  <2> HIDE DEF p
  <2> QED BY <1>3, <1>5, <2>1
<1> QED BY <1>4, <1>5 DEF w

\* A path that begins what is left of a key leaves the rest of it.
LEMMA Splits ==
  ASSUME NEW key \in Seq(Nat), NEW i \in 0 .. Len(key), NEW q \in Seq(Nat)
  PROVE  /\ IsPrefix(q, Rest(key, i)) => i + Len(q) \in 0 .. Len(key)
         /\ \A t \in Seq(Nat) :
              Cat(q, t) = Rest(key, i) <=> IsPrefix(q, Rest(key, i)) /\ t = Rest(key, i + Len(q))
<1> DEFINE r == Rest(key, i)
<1>1. r \in Seq(Nat) /\ Len(r) = Len(key) - i
  BY RestIs
<1>2. Len(q) \in Nat /\ Len(key) \in Nat
  OBVIOUS
<1> HIDE DEF r
<1>3. ASSUME IsPrefix(q, r)
      PROVE  i + Len(q) \in 0 .. Len(key) /\ Rest(r, Len(q)) = Rest(key, i + Len(q))
  <2>1. Len(q) <= Len(r)
    BY <1>3 DEF IsPrefix
  <2>2. i + Len(q) \in 0 .. Len(key) /\ Len(q) \in 0 .. Len(key) - i
    BY <1>1, <1>2, <2>1
  <2> QED BY <2>2, RestOfRest DEF r
<1>4. ASSUME NEW t \in Seq(Nat)
      PROVE  Cat(q, t) = r <=> IsPrefix(q, r) /\ t = Rest(key, i + Len(q))
  BY <1>1, <1>3, SplitsAt
<1> QED BY <1>3, <1>4 DEF r

LEMMA LeafValues ==
  ASSUME NEW n \in Nodes, n[1] = "leaf", NEW path
  PROVE  Values(Keccak(n), path) = IF n[2] = path THEN {n[3]} ELSE {}
<1>1. Entries(Keccak(n)) = {<<n[2], n[3]>>}
  BY EntriesAreTheTries DEF EntriesOf
<1> DEFINE X == Entries(Keccak(n))
<1> HIDE DEF X
<1>2. ASSUME NEW v PROVE v \in Values(Keccak(n), path) <=> n[2] = path /\ v = n[3]
  <2>1. v \in Values(Keccak(n), path) <=> \E x \in X : x[1] = path /\ v = x[2]
    BY DEF Values, X
  <2>2. X = {<<n[2], n[3]>>}
    BY <1>1 DEF X
  <2> QED BY <2>1, <2>2
<1> QED BY <1>2

LEMMA ExtValues ==
  ASSUME NEW n \in Nodes, n[1] = "ext", NEW key \in Seq(Nat), NEW i \in 0 .. Len(key)
  PROVE  Values(Keccak(n), Rest(key, i)) =
           IF IsPrefix(n[2], Rest(key, i)) THEN Values(n[3], Rest(key, i + Len(n[2]))) ELSE {}
<1> DEFINE E == Entries(n[3])
           X == Entries(Keccak(n))
           r == Rest(key, i)
           q == n[2]
           t == Rest(key, i + Len(q))
<1>1. X = {<<Cat(q, e[1]), e[2]>> : e \in E}
  BY EntriesAreTheTries DEF EntriesOf, Cat
<1>2. \A e \in E : e[1] \in Seq(Nat)
  <2>1. n[3] \in TrieReferences
    BY DEF TrieReferences, References
  <2> QED BY <2>1, EntriesAreTheTries
<1>3. q \in Seq(Nat)
  BY PathsAreNibbles
<1> HIDE DEF E, X, q
<1>4. \A e \in E : Cat(q, e[1]) = r <=> IsPrefix(q, r) /\ e[1] = t
  BY <1>2, <1>3, Splits
<1> HIDE DEF r, t
<1>5. ASSUME NEW v PROVE v \in Values(Keccak(n), r) <=> IsPrefix(q, r) /\ v \in Values(n[3], t)
  <2>1. v \in Values(Keccak(n), r) <=> \E x \in X : x[1] = r /\ v = x[2]
    BY DEF Values, X
  <2>2. (\E x \in X : x[1] = r /\ v = x[2]) <=> \E e \in E : Cat(q, e[1]) = r /\ v = e[2]
    <3>1. ASSUME NEW x \in X, x[1] = r, v = x[2] PROVE \E e \in E : Cat(q, e[1]) = r /\ v = e[2]
      BY <1>1, <3>1
    <3>2. ASSUME NEW e \in E, Cat(q, e[1]) = r, v = e[2] PROVE \E x \in X : x[1] = r /\ v = x[2]
      <4>1. <<Cat(q, e[1]), e[2]>> \in X
        BY <1>1
      <4> QED BY <3>2, <4>1
    <3> QED BY <3>1, <3>2
  <2>3. v \in Values(n[3], t) <=> \E e \in E : e[1] = t /\ v = e[2]
    BY DEF Values, E
  <2> QED BY <1>4, <2>1, <2>2, <2>3
<1> QED BY <1>5 DEF r, t, q

LEMMA BranchValues ==
  ASSUME NEW n \in Nodes, n[1] = "branch", NEW key \in Seq(Nat), Range(key) \subseteq DOMAIN n[2],
         NEW i \in 0 .. Len(key)
  PROVE  Values(Keccak(n), Rest(key, i)) =
           IF i = Len(key) THEN {n[3]} \ {<<>>} ELSE Values(n[2][key[i + 1]], Rest(key, i + 1))
<1> DEFINE D == DOMAIN n[2]
           E(x) == Entries(n[2][x])
           V == {n[3]} \ {<<>>}
           X == Entries(Keccak(n))
           r == Rest(key, i)
<1>1. X = {<<<<>>, v>> : v \in V} \cup UNION {{<<Cat(<<x>>, e[1]), e[2]>> : e \in E(x)} : x \in D}
  BY EntriesAreTheTries DEF EntriesOf, Cat
<1>2. \A x \in D : x \in Nat /\ \A e \in E(x) : e[1] \in Seq(Nat)
  <2>1. D \subseteq Nat
    BY PathsAreNibbles
  <2>2. ASSUME NEW x \in D PROVE n[2][x] \in TrieReferences
    <3>1. References(n) = Range(n[2])
      BY DEF References
    <3>2. n[2][x] \in References(n)
      BY <3>1 DEF Range
    <3> QED BY <3>2, Zenon DEF TrieReferences
  <2> QED BY <2>1, <2>2, EntriesAreTheTries
<1>3. /\ r \in Seq(Nat) /\ Len(r) = Len(key) - i
      /\ \A j \in 1 .. Len(key) - i : r[j] = key[i + j]
  BY RestIs
<1> HIDE DEF X, E, V, D
<1>4. ASSUME NEW x \in D, NEW e \in E(x)
      PROVE  Cat(<<x>>, e[1]) = r <=> i # Len(key) /\ x = key[i + 1] /\ e[1] = Rest(key, i + 1)
  <2> DEFINE q == <<x>>
             u == SubSeq(r, 1, 1)
  <2>1. /\ q \in Seq(Nat) /\ Len(q) = 1 /\ q[1] = x /\ SubSeq(q, 1, 1) = q
        /\ e[1] \in Seq(Nat)
    <3>1. q \in Seq(Nat) /\ Len(q) = 1 /\ q[1] = x
      BY <1>2
    <3> HIDE DEF q
    <3> QED BY <1>2, <3>1, SubSeqFull
  <2> HIDE DEF q, u, r
  <2>2. Cat(q, e[1]) = Rest(key, i) <=> IsPrefix(q, Rest(key, i)) /\ e[1] = Rest(key, i + Len(q))
    <3>1. q \in Seq(Nat) /\ e[1] \in Seq(Nat)
      BY <2>1
    <3>2. \A t \in Seq(Nat) :
            Cat(q, t) = Rest(key, i) <=> IsPrefix(q, Rest(key, i)) /\ t = Rest(key, i + Len(q))
      BY <3>1, Splits
    <3> QED BY <3>1, <3>2
  <2>3. Len(r) >= 1 => r[1] = key[i + 1] /\ u \in Seq(Nat) /\ Len(u) = 1 /\ u[1] = r[1]
    <3> SUFFICES ASSUME Len(r) >= 1
                 PROVE  r[1] = key[i + 1] /\ u \in Seq(Nat) /\ Len(u) = 1 /\ u[1] = r[1]
      OBVIOUS
    <3>1. \A j \in 1 .. 1 : r[j] \in Nat
      BY SMTT(60), <1>3
    <3>2. /\ u \in Seq(Nat) /\ Len(u) = IF 1 <= 1 THEN 1 - 1 + 1 ELSE 0
          /\ \A j \in 1 .. 1 - 1 + 1 : u[j] = r[1 + j - 1]
      BY <3>1, SubSeqProperties DEF u
    <3> HIDE DEF u
    <3>3. Len(u) = 1 /\ u[1] = r[1]
      BY SMTT(60), <3>2
    <3>4. r[1] = key[i + 1]
      BY SMTT(60), <1>3
    <3> QED BY <3>2, <3>3, <3>4
  <2>4. IsPrefix(q, r) <=> Len(r) >= 1 /\ u = q
    BY <1>3, <2>1 DEF IsPrefix, u
  <2>5. Len(r) >= 1 => (u = q <=> x = key[i + 1])
    <3>1. ASSUME Len(r) >= 1, u[1] = q[1] PROVE u = q
      BY <2>1, <2>3, <3>1, SeqEqual
    <3> QED BY <2>1, <2>3, <3>1
  <2>6. Len(r) >= 1 <=> i # Len(key)
    <3>1. Len(key) \in Nat /\ i \in Nat /\ i <= Len(key)
      OBVIOUS
    <3>2. Len(r) = Len(key) - i
      BY <1>3
    <3> QED BY <3>1, <3>2
  <2> QED BY <2>1, <2>2, <2>4, <2>5, <2>6 DEF q, r
<1>5. r = <<>> <=> i = Len(key)
  BY <1>3, EmptySeq
<1> HIDE DEF r
<1>6. ASSUME NEW v
      PROVE  v \in Values(Keccak(n), r) <=>
               \/ i = Len(key) /\ v \in V
               \/ i # Len(key) /\ v \in Values(n[2][key[i + 1]], Rest(key, i + 1))
  <2>1. v \in Values(Keccak(n), r) <=> \E y \in X : y[1] = r /\ v = y[2]
    BY DEF Values, X
  <2>2. (\E y \in X : y[1] = r /\ v = y[2]) <=>
          \/ r = <<>> /\ v \in V
          \/ \E x \in D : \E e \in E(x) : Cat(<<x>>, e[1]) = r /\ v = e[2]
    <3>1. ASSUME NEW y \in X, y[1] = r, v = y[2]
          PROVE  \/ r = <<>> /\ v \in V
                 \/ \E x \in D : \E e \in E(x) : Cat(<<x>>, e[1]) = r /\ v = e[2]
      <4>1. CASE y \in {<<<<>>, w>> : w \in V}
        BY <3>1, <4>1
      <4>2. CASE y \in UNION {{<<Cat(<<x>>, e[1]), e[2]>> : e \in E(x)} : x \in D}
        <5>1. PICK x \in D : y \in {<<Cat(<<x>>, e[1]), e[2]>> : e \in E(x)}
          BY <4>2, Zenon
        <5>2. PICK e \in E(x) : y = <<Cat(<<x>>, e[1]), e[2]>>
          BY <5>1, Zenon
        <5>3. Cat(<<x>>, e[1]) = r /\ v = e[2]
          BY <3>1, <5>2
        <5> QED BY <5>3, Zenon
      <4> QED BY <1>1, <4>1, <4>2, Zenon
    <3>2. ASSUME r = <<>>, v \in V PROVE \E y \in X : y[1] = r /\ v = y[2]
      <4>1. <<<<>>, v>> \in X
        BY <1>1, <3>2
      <4> QED BY <3>2, <4>1
    <3>3. ASSUME NEW x \in D, NEW e \in E(x), Cat(<<x>>, e[1]) = r, v = e[2]
          PROVE  \E y \in X : y[1] = r /\ v = y[2]
      <4>1. <<Cat(<<x>>, e[1]), e[2]>> \in X
        BY <1>1
      <4> QED BY <3>3, <4>1
    <3> QED BY <3>1, <3>2, <3>3
  <2>3. i # Len(key) => key[i + 1] \in D
    BY DEF D, Range
  <2>4. \A x \in D : v \in Values(n[2][x], Rest(key, i + 1)) <=>
                       \E e \in E(x) : e[1] = Rest(key, i + 1) /\ v = e[2]
    BY DEF Values, E
  <2> QED BY <1>4, <1>5, <2>1, <2>2, <2>3, <2>4
<1> QED BY <1>6 DEF r, V

-----------------------------------------------------------------------------
(* The walk. *)

ProofIsHeld(p) == AccountIsHeld(p) /\ \A i \in DOMAIN p.slots : SlotIsHeld(p, i)

\* What a state root commits to as the storage of an account.
StorageOf(p) == IF Absent(p.root, Padded[p.address]) THEN emptyTrieRoot ELSE p.account.storage

\* The trie a key is looked up in.
Base == IF at = "account" THEN Proof.root ELSE walk.storage

\* At a node of a walk: all that is walked before it is held, and what its hash
\* holds at the rest of the key is what the whole trie holds at the key.
WalkIsTrue ==
  /\ ans \in Answers
  /\ walk.p \in 1 .. Len(ans.proofs)
  /\ walk = [p |-> walk.p, s |-> walk.s, nodes |-> walk.nodes, expected |-> walk.expected,
             idx |-> walk.idx, storage |-> walk.storage]
  /\ wireBytes(Proof.address)
  /\ \A i \in 1 .. walk.p - 1 : ProofIsHeld(ans.proofs[i])
  /\ at = "account" => walk.s = 0
  /\ at = "slot" => /\ walk.s \in 1 .. Len(Proof.slots)
                    /\ wireBytes(Slot.slot)
                    /\ AccountIsHeld(Proof)
                    /\ walk.storage = StorageOf(Proof)
                    /\ \A j \in 1 .. walk.s - 1 : SlotIsHeld(Proof, j)
  /\ walk.idx \in 0 .. Len(Key)
  /\ Values(walk.expected, Rest(Key, walk.idx)) = Values(Base, Key)

WalkInv ==
  /\ at \in {"idle", "posted", "account", "slot", "done"}
  /\ at # "done" => res \notin {"ok", "claim"}
  /\ Walking => WalkIsTrue
  /\ WalkedIsHeld
  /\ TrueClaimTaken

\* The reference reads as the values at the key's path.
LEMMA HoldsIs ==
  ASSUME NEW r \in TrieReferences, NEW key
  PROVE  /\ \A v : Holds(r, key, v) <=> v \in Values(r, Path[key])
         /\ Absent(r, key) <=> Values(r, Path[key]) = {}
<1> DEFINE E == Entries(r)
           path == Path[key]
<1>1. \A e \in E : e = <<e[1], e[2]>>
  BY EntriesAreTheTries
<1> HIDE DEF E, path
<1>2. ASSUME NEW v PROVE v \in Values(r, path) <=> \E e \in E : e[1] = path /\ v = e[2]
  BY DEF Values, E
<1>3. ASSUME NEW v PROVE Holds(r, key, v) <=> v \in Values(r, path)
  <2>1. Holds(r, key, v) <=> <<path, v>> \in E
    BY DEF Holds, E, path
  <2>2. <<path, v>> \in E <=> \E e \in E : e[1] = path /\ v = e[2]
    BY <1>1
  <2> QED BY <1>2, <2>1, <2>2
<1>4. Absent(r, key) <=> Values(r, path) = {}
  <2>1. Absent(r, key) <=> \A e \in E : e[1] # path
    BY DEF Absent, E, path
  <2> QED BY <1>2, <2>1
<1> QED BY <1>3, <1>4 DEF path

\* What an answer's state proof is about.
LEMMA ProofTyped ==
  ASSUME NEW a \in Answers, NEW i \in 1 .. Len(a.proofs)
  PROVE  LET p == a.proofs[i]
         IN  /\ p.address \in DOMAIN Path /\ Path[p.address] \in Seq(Nat)
             /\ p.root \in TrieReferences /\ p.account.storage \in TrieReferences
             /\ Len(p.slots) \in Nat /\ DOMAIN p.slots = 1 .. Len(p.slots)
             /\ \A j \in 1 .. Len(p.slots) :
                  p.slots[j].slot \in DOMAIN Path /\ Path[p.slots[j].slot] \in Seq(Nat)
<1> DEFINE p == a.proofs[i]
<1>1. a.proofs \in Seq(Range(a.proofs))
  BY AnswersAreLists
<1>2. DOMAIN a.proofs = 1 .. Len(a.proofs)
  BY <1>1, LenProperties
<1>3. p \in Range(a.proofs)
  BY <1>2 DEF Range
<1> HIDE DEF p
<1>4. /\ p.address \in DOMAIN Path /\ p.slots \in Seq(Range(p.slots))
      /\ \A slot \in Range(p.slots) : slot.slot \in DOMAIN Path
  BY <1>3, AnswersAreLists
<1>5. Len(p.slots) \in Nat /\ DOMAIN p.slots = 1 .. Len(p.slots)
  BY <1>4, LenProperties
<1>6. \A j \in 1 .. Len(p.slots) : p.slots[j].slot \in DOMAIN Path
  BY <1>4, <1>5 DEF Range
<1>7. p.root \in TrieReferences /\ p.account.storage \in TrieReferences
  <2> DEFINE R == {q.root : q \in Range(a.proofs)} \cup {q.account.storage : q \in Range(a.proofs)}
  <2>1. p.root \in R /\ p.account.storage \in R
    BY <1>3
  <2>2. \A r \in R : r \in TrieReferences
    BY Zenon DEF TrieReferences
  <2> QED BY <2>1, <2>2
<1> QED BY <1>4, <1>5, <1>6, <1>7, PathsAreNibbles DEF p

LEMMA FinishBad ==
  ASSUME NEW r, Finish(r), r \notin {"ok", "claim"}
  PROVE  WalkInv'
BY DEF Finish, WalkInv, Walking, WalkedIsHeld, TrueClaimTaken

LEMMA FinishClaim ==
  ASSUME Finish("claim"), UNCHANGED ans,
         IF walk.s = 0 THEN ~AccountIsHeld(Proof) ELSE ~SlotIsHeld(Proof, walk.s)
  PROVE  WalkInv'
BY DEF Finish, WalkInv, Walking, WalkedIsHeld, TrueClaimTaken, Proof

LEMMA FinishTrue ==
  ASSUME NEW r \in {"ok", "result", "nocontract"}, Finish(r), ans' \in Answers,
         \A i \in 1 .. Len(ans'.proofs) : ProofIsHeld(ans'.proofs[i])
  PROVE  WalkInv'
<1>1. \A p \in Range(ans'.proofs) : ProofIsHeld(p)
  <2>1. ans'.proofs \in Seq(Range(ans'.proofs))
    BY AnswersAreLists
  <2>2. DOMAIN ans'.proofs = 1 .. Len(ans'.proofs)
    BY <2>1, LenProperties
  <2> QED BY <2>2 DEF Range
<1>2. WalkedIsHeld'
  BY <1>1 DEF WalkedIsHeld, ProofIsHeld
<1> QED BY <1>2 DEF Finish, WalkInv, Walking, TrueClaimTaken

LEMMA VerdictIs ==
  ASSUME NEW a
  PROVE  Verdict(a) \in {"ok", "result", "nocontract"}
BY DEF Verdict

\* The walk of a state proof starts at its account.
LEMMA StartIsTrue ==
  ASSUME NEW a \in Answers, ans' = a, res \notin {"ok", "claim"}, NEW i \in 1 .. Len(a.proofs),
         \A j \in 1 .. i - 1 : ProofIsHeld(a.proofs[j]), StartProof(a, i)
  PROVE  WalkInv'
<1>1. CASE ~wireBytes(a.proofs[i].address)
  <2>1. Finish("width")
    BY <1>1 DEF StartProof
  <2> QED BY <2>1, FinishBad
<1>2. CASE wireBytes(a.proofs[i].address)
  <2>1. /\ at' = "account" /\ res' \notin {"ok", "claim"}
        /\ walk' = [p |-> i, s |-> 0, nodes |-> 0, expected |-> a.proofs[i].root,
                    idx |-> 0, storage |-> <<>>]
    BY <1>2 DEF StartProof, NoWalk
  <2>2. /\ walk'.p = i /\ walk'.s = 0 /\ walk'.idx = 0 /\ walk'.expected = a.proofs[i].root
        /\ walk' = [p |-> walk'.p, s |-> walk'.s, nodes |-> walk'.nodes,
                    expected |-> walk'.expected, idx |-> walk'.idx, storage |-> walk'.storage]
    BY <2>1
  <2>3. Proof' = a.proofs[i] /\ Key' = Path[a.proofs[i].address] /\ Base' = a.proofs[i].root
    BY <2>1, <2>2 DEF Proof, Key, Base
  <2>4. Path[a.proofs[i].address] \in Seq(Nat)
    BY ProofTyped
  <2>5. Key' \in Seq(Nat) /\ 0 \in 0 .. Len(Key') /\ Rest(Key', 0) = Key'
    BY <2>3, <2>4, RestOfAll
  <2>6. WalkIsTrue'
    BY <1>2, <2>1, <2>2, <2>3, <2>5 DEF WalkIsTrue
  <2> QED BY <2>1, <2>6 DEF WalkInv, Walking, WalkedIsHeld, TrueClaimTaken
<1> QED BY <1>1, <1>2

\* The places of a walk.
LEMMA WalkTyped ==
  ASSUME Walking, WalkIsTrue
  PROVE  /\ walk.p \in Nat /\ walk.p >= 1 /\ walk.p <= Len(ans.proofs) /\ Len(ans.proofs) \in Nat
         /\ walk.s \in Nat /\ walk.s <= Len(Proof.slots) /\ Len(Proof.slots) \in Nat
         /\ DOMAIN Proof.slots = 1 .. Len(Proof.slots)
         /\ Key \in {Path[x] : x \in DOMAIN Path} /\ Key \in Seq(Nat)
<1>1. ans.proofs \in Seq(Range(ans.proofs))
  BY AnswersAreLists DEF WalkIsTrue
<1>2. Len(ans.proofs) \in Nat
  BY <1>1, LenProperties
<1>3. walk.p \in 1 .. Len(ans.proofs) /\ ans \in Answers
  BY DEF WalkIsTrue
<1>4. /\ Proof.address \in DOMAIN Path /\ Path[Proof.address] \in Seq(Nat)
      /\ Len(Proof.slots) \in Nat /\ DOMAIN Proof.slots = 1 .. Len(Proof.slots)
      /\ \A j \in 1 .. Len(Proof.slots) :
           Proof.slots[j].slot \in DOMAIN Path /\ Path[Proof.slots[j].slot] \in Seq(Nat)
  BY <1>3, ProofTyped DEF Proof
<1>5. at = "account" => walk.s = 0 /\ Key = Path[Proof.address]
  BY DEF WalkIsTrue, Key
<1>6. at = "slot" => walk.s \in 1 .. Len(Proof.slots) /\ Key = Path[Proof.slots[walk.s].slot]
  BY DEF WalkIsTrue, Key, Slot
<1>7. at = "account" \/ at = "slot"
  BY DEF Walking
<1> HIDE DEF Proof, Key
<1>8. walk.s \in Nat /\ walk.s <= Len(Proof.slots)
  BY <1>4, <1>5, <1>6, <1>7
<1>9. Key \in {Path[x] : x \in DOMAIN Path} /\ Key \in Seq(Nat)
  BY <1>4, <1>5, <1>6, <1>7
<1> QED BY <1>2, <1>3, <1>4, <1>8, <1>9

\* What the trie holds at the key is the claim's reference.
LEMMA AtAccount ==
  ASSUME Walking, WalkIsTrue, at = "account"
  PROVE  /\ Absent(Proof.root, Padded[Proof.address]) <=> Values(Base, Key) = {}
         /\ \A v : Holds(Proof.root, Padded[Proof.address], v) <=> v \in Values(Base, Key)
<1>1. Base = Proof.root /\ Key = Path[Proof.address] /\ Padded[Proof.address] = Proof.address
  BY DEF Base, Key, WalkIsTrue, wireBytes
<1>2. Proof.root \in TrieReferences
  BY ProofTyped DEF WalkIsTrue, Proof
<1> QED BY <1>1, <1>2, HoldsIs

LEMMA AtSlot ==
  ASSUME Walking, WalkIsTrue, at = "slot"
  PROVE  /\ Absent(walk.storage, Padded[Slot.slot]) <=> Values(Base, Key) = {}
         /\ \A v : Holds(walk.storage, Padded[Slot.slot], v) <=> v \in Values(Base, Key)
<1>1. Base = walk.storage /\ Key = Path[Slot.slot] /\ Padded[Slot.slot] = Slot.slot
  BY DEF Base, Key, WalkIsTrue, wireBytes
<1>2. Proof.account.storage \in TrieReferences
  BY ProofTyped DEF WalkIsTrue, Proof
<1>3. emptyTrieRoot \in TrieReferences
  BY Zenon DEF TrieReferences
<1>4. walk.storage \in TrieReferences
  BY <1>2, <1>3 DEF WalkIsTrue, StorageOf
<1> QED BY <1>1, <1>4, HoldsIs

LEMMA SlotHeldIs ==
  ASSUME NEW p, NEW i
  PROVE  SlotIsHeld(p, i) <=> IF p.slots[i].value = 0 THEN Absent(StorageOf(p), Padded[p.slots[i].slot])
                              ELSE Holds(StorageOf(p), Padded[p.slots[i].slot], WordLeaf(p.slots[i].value))
BY DEF SlotIsHeld, StorageOf

LEMMA NextIsTrue ==
  ASSUME Walking, WalkIsTrue, res \notin {"ok", "claim"}, UNCHANGED ans, NEW storage, storage = StorageOf(Proof),
         AccountIsHeld(Proof), \A j \in 1 .. walk.s : SlotIsHeld(Proof, j), NextProof(storage)
  PROVE  WalkInv'
<1>1. /\ walk.p \in Nat /\ walk.p >= 1 /\ walk.p <= Len(ans.proofs) /\ Len(ans.proofs) \in Nat
      /\ walk.s \in Nat /\ walk.s <= Len(Proof.slots) /\ Len(Proof.slots) \in Nat
      /\ DOMAIN Proof.slots = 1 .. Len(Proof.slots)
  BY WalkTyped
<1>2. /\ ans \in Answers /\ wireBytes(Proof.address)
      /\ \A i \in 1 .. walk.p - 1 : ProofIsHeld(ans.proofs[i])
      /\ walk = [p |-> walk.p, s |-> walk.s, nodes |-> walk.nodes, expected |-> walk.expected,
                 idx |-> walk.idx, storage |-> walk.storage]
  BY DEF WalkIsTrue
<1>3. CASE walk.s < Len(Proof.slots) /\ wireBytes(Proof.slots[walk.s + 1].slot)
  <2>1. /\ at' = "slot" /\ res' \notin {"ok", "claim"}
        /\ walk' = [walk EXCEPT !.s = @ + 1, !.nodes = 0, !.expected = storage,
                                !.idx = 0, !.storage = storage]
    BY <1>3 DEF NextProof
  <2>2. walk' = [p |-> walk.p, s |-> walk.s + 1, nodes |-> 0, expected |-> storage,
                 idx |-> 0, storage |-> storage]
    BY <1>2, <2>1
  <2>3. /\ walk'.p = walk.p /\ walk'.s = walk.s + 1 /\ walk'.idx = 0
        /\ walk'.expected = storage /\ walk'.storage = storage
        /\ walk' = [p |-> walk'.p, s |-> walk'.s, nodes |-> walk'.nodes,
                    expected |-> walk'.expected, idx |-> walk'.idx, storage |-> walk'.storage]
    BY <2>2
  <2>4. Proof' = Proof
    BY <2>3 DEF Proof
  <2>5. Slot' = Proof.slots[walk.s + 1]
    BY <2>3, <2>4 DEF Slot
  <2>6. Key' = Path[Proof.slots[walk.s + 1].slot] /\ Base' = storage
    BY <2>1, <2>3, <2>5 DEF Key, Base
  <2>7. Key' \in Seq(Nat)
    <3>1. walk.s + 1 \in 1 .. Len(Proof.slots)
      BY SMTT(60), <1>1, <1>3
    <3>2. Path[Proof.slots[walk.s + 1].slot] \in Seq(Nat)
      BY SMTT(60), <1>1, <1>2, <3>1, ProofTyped DEF Proof
    <3> QED BY <2>6, <3>2
  <2>8. 0 \in 0 .. Len(Key') /\ Rest(Key', 0) = Key'
    BY <2>7, RestOfAll
  <2>9. walk.s + 1 \in 1 .. Len(Proof.slots) /\ (walk.s + 1) - 1 = walk.s
        /\ walk.p \in 1 .. Len(ans.proofs)
    BY SMTT(60), <1>1, <1>3
  <2>10. WalkIsTrue'
    BY <1>2, <1>3, <2>1, <2>3, <2>4, <2>5, <2>6, <2>8, <2>9 DEF WalkIsTrue
  <2> QED BY <2>1, <2>10 DEF WalkInv, Walking, WalkedIsHeld, TrueClaimTaken
<1>4. CASE walk.s < Len(Proof.slots) /\ ~wireBytes(Proof.slots[walk.s + 1].slot)
  <2>1. Finish("width")
    BY <1>4 DEF NextProof
  <2> QED BY <2>1, FinishBad
<1>5. CASE ~(walk.s < Len(Proof.slots))
  <2>1. ProofIsHeld(Proof)
    <3>1. \A j \in DOMAIN Proof.slots : SlotIsHeld(Proof, j)
      BY <1>1, <1>5
    <3> QED BY <3>1 DEF ProofIsHeld
  <2>2. \A i \in 1 .. walk.p : ProofIsHeld(ans.proofs[i])
    <3>1. ASSUME NEW i \in 1 .. walk.p PROVE ProofIsHeld(ans.proofs[i])
      <4>1. CASE i = walk.p
        BY <2>1, <4>1 DEF Proof
      <4>2. CASE i # walk.p
        BY <1>1, <1>2, <4>2
      <4> QED BY <4>1, <4>2
    <3> QED BY <3>1
  <2>3. CASE walk.p < Len(ans.proofs)
    <3>1. StartProof(ans, walk.p + 1)
      BY <1>5, <2>3 DEF NextProof
    <3>2. walk.p + 1 \in 1 .. Len(ans.proofs) /\ (walk.p + 1) - 1 = walk.p
      BY <1>1, <2>3
    <3> QED BY <1>2, <2>2, <3>1, <3>2, StartIsTrue
  <2>4. CASE ~(walk.p < Len(ans.proofs))
    <3>1. Finish(Verdict(ans))
      BY <1>5, <2>4 DEF NextProof
    <3>2. walk.p = Len(ans.proofs)
      BY <1>1, <2>4
    <3> QED BY <1>2, <2>2, <3>1, <3>2, VerdictIs, FinishTrue
  <2> QED BY <2>3, <2>4
<1> QED BY <1>3, <1>4, <1>5

\* The proof shows the key absent, and it is.
LEMMA AbsenceIsTrue ==
  ASSUME Walking, WalkIsTrue, res \notin {"ok", "claim"}, UNCHANGED ans,
         Values(Base, Key) = {}, KeyAbsent
  PROVE  WalkInv'
<1>1. CASE at = "account"
  <2>1. /\ Absent(Proof.root, Padded[Proof.address])
        /\ \A v : ~Holds(Proof.root, Padded[Proof.address], v)
    BY <1>1, AtAccount
  <2>2. walk.s = 0
    BY <1>1 DEF WalkIsTrue
  <2>3. AccountIsHeld(Proof) <=> ClaimsEmpty(Proof.account)
    BY <2>1, Zenon DEF AccountIsHeld, ClaimsEmpty
  <2>4. CASE ClaimsEmpty(Proof.account)
    <3>1. NextProof(emptyTrieRoot)
      BY <1>1, <2>4 DEF KeyAbsent
    <3>2. emptyTrieRoot = StorageOf(Proof)
      BY <2>1 DEF StorageOf
    <3>3. \A j \in 1 .. walk.s : SlotIsHeld(Proof, j)
      BY <2>2
    <3> QED BY <2>3, <2>4, <3>1, <3>2, <3>3, NextIsTrue
  <2>5. CASE ~ClaimsEmpty(Proof.account)
    <3>1. Finish("claim")
      BY <1>1, <2>5 DEF KeyAbsent
    <3> QED BY <2>2, <2>3, <2>5, <3>1, FinishClaim
  <2> QED BY <2>4, <2>5
<1>2. CASE at = "slot"
  <2>1. /\ Absent(walk.storage, Padded[Slot.slot])
        /\ \A v : ~Holds(walk.storage, Padded[Slot.slot], v)
    BY <1>2, AtSlot
  <2>2. /\ walk.s # 0 /\ walk.s \in Nat /\ walk.storage = StorageOf(Proof)
        /\ AccountIsHeld(Proof) /\ \A j \in 1 .. walk.s - 1 : SlotIsHeld(Proof, j)
    BY <1>2, WalkTyped DEF WalkIsTrue
  <2>3. SlotIsHeld(Proof, walk.s) <=> Slot.value = 0
    BY <2>1, <2>2, SlotHeldIs DEF Slot
  <2>4. CASE Slot.value = 0
    <3>1. NextProof(walk.storage)
      BY <1>2, <2>4 DEF KeyAbsent
    <3>2. \A j \in 1 .. walk.s : SlotIsHeld(Proof, j)
      BY <2>2, <2>3, <2>4
    <3> QED BY <2>2, <3>1, <3>2, NextIsTrue
  <2>5. CASE Slot.value # 0
    <3>1. Finish("claim")
      BY <1>2, <2>5 DEF KeyAbsent
    <3> QED BY <2>2, <2>3, <2>5, <3>1, FinishClaim
  <2> QED BY <2>4, <2>5
<1> QED BY <1>1, <1>2 DEF Walking

\* The proof shows a value, and it is the one the trie holds.
LEMMA PresenceIsTrue ==
  ASSUME Walking, WalkIsTrue, res \notin {"ok", "claim"}, UNCHANGED ans,
         NEW v, Values(Base, Key) = {v}, KeyHolds(v)
  PROVE  WalkInv'
<1>1. CASE at = "account"
  <2>1. /\ ~Absent(Proof.root, Padded[Proof.address])
        /\ \A w : Holds(Proof.root, Padded[Proof.address], w) <=> w = v
    BY <1>1, AtAccount
  <2>2. walk.s = 0
    BY <1>1 DEF WalkIsTrue
  <2>3. AccountIsHeld(Proof) <=> v = AccountLeaf(Proof.account)
    BY <2>1 DEF AccountIsHeld
  <2>4. CASE v = AccountLeaf(Proof.account)
    <3>1. NextProof(Proof.account.storage)
      BY <1>1, <2>4 DEF KeyHolds
    <3>2. Proof.account.storage = StorageOf(Proof)
      BY <2>1 DEF StorageOf
    <3>3. \A j \in 1 .. walk.s : SlotIsHeld(Proof, j)
      BY <2>2
    <3> QED BY <2>3, <2>4, <3>1, <3>2, <3>3, NextIsTrue
  <2>5. CASE v # AccountLeaf(Proof.account)
    <3>1. Finish("claim")
      BY <1>1, <2>5 DEF KeyHolds
    <3> QED BY <2>2, <2>3, <2>5, <3>1, FinishClaim
  <2> QED BY <2>4, <2>5
<1>2. CASE at = "slot"
  <2>1. /\ ~Absent(walk.storage, Padded[Slot.slot])
        /\ \A w : Holds(walk.storage, Padded[Slot.slot], w) <=> w = v
    BY <1>2, AtSlot
  <2>2. /\ walk.s # 0 /\ walk.s \in Nat /\ walk.storage = StorageOf(Proof)
        /\ AccountIsHeld(Proof) /\ \A j \in 1 .. walk.s - 1 : SlotIsHeld(Proof, j)
    BY <1>2, WalkTyped DEF WalkIsTrue
  <2>3. SlotIsHeld(Proof, walk.s) <=> Slot.value # 0 /\ v = WordLeaf(Slot.value)
    BY <2>1, <2>2, SlotHeldIs DEF Slot
  <2>4. CASE Slot.value # 0 /\ v = WordLeaf(Slot.value)
    <3>1. NextProof(walk.storage)
      BY <1>2, <2>4 DEF KeyHolds
    <3>2. \A j \in 1 .. walk.s : SlotIsHeld(Proof, j)
      BY <2>2, <2>3, <2>4
    <3> QED BY <2>2, <3>1, <3>2, NextIsTrue
  <2>5. CASE ~(Slot.value # 0 /\ v = WordLeaf(Slot.value))
    <3>1. Finish("claim")
      BY <1>2, <2>5 DEF KeyHolds
    <3> QED BY <2>2, <2>3, <2>5, <3>1, FinishClaim
  <2> QED BY <2>4, <2>5
<1> QED BY <1>1, <1>2 DEF Walking

LEMMA FollowIsTrue ==
  ASSUME Walking, WalkIsTrue, res \notin {"ok", "claim"}, UNCHANGED ans,
         NEW ref, NEW idx \in 0 .. Len(Key), Values(ref, Rest(Key, idx)) = Values(Base, Key),
         Follow(ref, idx)
  PROVE  WalkInv'
<1>1. CASE ref = <<"bytes">>
  <2>1. Finish("inline")
    BY <1>1 DEF Follow
  <2> QED BY <2>1, FinishBad
<1>2. CASE ref # <<"bytes">>
  <2>1. /\ at' = at /\ res' = res
        /\ walk' = [walk EXCEPT !.nodes = @ + 1, !.expected = ref, !.idx = idx]
    BY <1>2 DEF Follow
  <2>2. walk = [p |-> walk.p, s |-> walk.s, nodes |-> walk.nodes, expected |-> walk.expected,
                idx |-> walk.idx, storage |-> walk.storage]
    BY DEF WalkIsTrue
  <2>3. walk' = [p |-> walk.p, s |-> walk.s, nodes |-> walk.nodes + 1, expected |-> ref,
                 idx |-> idx, storage |-> walk.storage]
    BY <2>1, <2>2
  <2>4. /\ walk'.p = walk.p /\ walk'.s = walk.s /\ walk'.storage = walk.storage
        /\ walk'.expected = ref /\ walk'.idx = idx
        /\ walk' = [p |-> walk'.p, s |-> walk'.s, nodes |-> walk'.nodes,
                    expected |-> walk'.expected, idx |-> walk'.idx, storage |-> walk'.storage]
    BY <2>3
  <2>5. Proof' = Proof
    BY <2>4 DEF Proof
  <2>6. Slot' = Slot
    BY <2>4, <2>5 DEF Slot
  <2>7. Key' = Key /\ Base' = Base
    BY <2>1, <2>4, <2>5, <2>6 DEF Key, Base
  <2>8. WalkIsTrue'
    BY <2>1, <2>4, <2>5, <2>6, <2>7 DEF WalkIsTrue
  <2> QED BY <2>1, <2>8 DEF WalkInv, Walking, WalkedIsHeld, TrueClaimTaken
<1> QED BY <1>1, <1>2

\* A branch with the hash expected.
LEMMA BranchIsTrue ==
  ASSUME Walking, WalkIsTrue, res \notin {"ok", "claim"}, UNCHANGED ans,
         NEW n \in Nodes, Keccak(n) = walk.expected, n[1] = "branch", WalkBranch(n)
  PROVE  WalkInv'
<1>1. Key \in Seq(Nat) /\ walk.idx \in 0 .. Len(Key) /\ Range(Key) \subseteq DOMAIN n[2]
  <2>1. Key \in {Path[x] : x \in DOMAIN Path} /\ Key \in Seq(Nat)
    BY WalkTyped
  <2>2. PICK x \in DOMAIN Path : Key = Path[x]
    BY <2>1
  <2>3. Range(Path[x]) \subseteq DOMAIN n[2]
    BY PathsAreNibbles
  <2> QED BY <2>1, <2>2, <2>3 DEF WalkIsTrue
<1>2. Values(Base, Key) = Values(Keccak(n), Rest(Key, walk.idx))
  BY DEF WalkIsTrue
<1>3. Values(Keccak(n), Rest(Key, walk.idx)) =
        IF walk.idx = Len(Key) THEN {n[3]} \ {<<>>}
        ELSE Values(n[2][Key[walk.idx + 1]], Rest(Key, walk.idx + 1))
  BY <1>1, BranchValues
<1>4. CASE walk.idx = Len(Key) /\ n[3] = <<>>
  <2>1. KeyAbsent
    BY <1>4 DEF WalkBranch
  <2>2. Values(Base, Key) = {}
    BY <1>2, <1>3, <1>4
  <2> QED BY <2>1, <2>2, AbsenceIsTrue
<1>5. CASE walk.idx = Len(Key) /\ n[3] # <<>>
  <2>1. KeyHolds(n[3])
    BY <1>5 DEF WalkBranch
  <2>2. Values(Base, Key) = {n[3]}
    BY <1>2, <1>3, <1>5
  <2> QED BY <2>1, <2>2, PresenceIsTrue
<1>6. CASE walk.idx # Len(Key)
  <2> DEFINE next == n[2][Key[walk.idx + 1]]
  <2>1. Values(Base, Key) = Values(next, Rest(Key, walk.idx + 1))
    BY <1>2, <1>3, <1>6
  <2>2. CASE next = <<>>
    <3>1. KeyAbsent
      BY <1>6, <2>2 DEF WalkBranch
    <3>2. Entries(<<>>) = {}
      BY EntriesAreTheTries
    <3>3. Values(Base, Key) = {}
      BY <2>1, <2>2, <3>2 DEF Values
    <3> QED BY <3>1, <3>3, AbsenceIsTrue
  <2>3. CASE next # <<>>
    <3>1. Follow(next, walk.idx + 1)
      BY <1>6, <2>3 DEF WalkBranch
    <3>2. walk.idx + 1 \in 0 .. Len(Key)
      BY <1>1, <1>6
    <3> HIDE DEF next
    <3> QED BY <2>1, <3>1, <3>2, FollowIsTrue
  <2> QED BY <2>2, <2>3
<1> QED BY <1>4, <1>5, <1>6

\* An extension or a leaf with the hash expected.
LEMMA PathIsTrue ==
  ASSUME Walking, WalkIsTrue, res \notin {"ok", "claim"}, UNCHANGED ans,
         NEW n \in Nodes, Keccak(n) = walk.expected, n[1] \in {"ext", "leaf"}, WalkPath(n)
  PROVE  WalkInv'
<1> DEFINE rest == Rest(Key, walk.idx)
<1>1. Key \in Seq(Nat) /\ walk.idx \in 0 .. Len(Key) /\ n[2] \in Seq(Nat)
  BY WalkTyped, PathsAreNibbles DEF WalkIsTrue
<1>2. Values(Base, Key) = Values(Keccak(n), rest)
  BY DEF WalkIsTrue
<1>3. rest \in Seq(Nat)
  BY <1>1, RestIs
<1>4. n[1] = "leaf" => Values(Base, Key) = IF n[2] = rest THEN {n[3]} ELSE {}
  BY <1>2, LeafValues
<1>5. n[1] = "ext" =>
        Values(Base, Key) = IF IsPrefix(n[2], rest) THEN Values(n[3], Rest(Key, walk.idx + Len(n[2]))) ELSE {}
  BY <1>1, <1>2, ExtValues
<1>6. n[2] = rest => IsPrefix(n[2], rest)
  <2> HIDE DEF rest
  <2> QED BY <1>3 DEF IsPrefix
<1>7. IF ~IsPrefix(n[2], rest) THEN KeyAbsent
      ELSE IF n[1] = "leaf"
        THEN IF n[2] = rest THEN KeyHolds(n[3]) ELSE KeyAbsent
      ELSE IF n[3] = <<>> THEN Finish("inline")
      ELSE Follow(n[3], walk.idx + Len(n[2]))
  BY DEF WalkPath, Rest
<1> HIDE DEF rest
<1>8. CASE ~IsPrefix(n[2], rest)
  <2>1. Values(Base, Key) = {}
    BY <1>4, <1>5, <1>6, <1>8
  <2> QED BY <1>7, <1>8, <2>1, AbsenceIsTrue
<1>9. CASE IsPrefix(n[2], rest) /\ n[1] = "leaf" /\ n[2] = rest
  <2>1. Values(Base, Key) = {n[3]} /\ KeyHolds(n[3])
    BY <1>4, <1>7, <1>9
  <2> QED BY <2>1, PresenceIsTrue
<1>10. CASE IsPrefix(n[2], rest) /\ n[1] = "leaf" /\ n[2] # rest
  <2>1. Values(Base, Key) = {} /\ KeyAbsent
    BY <1>4, <1>7, <1>10
  <2> QED BY <2>1, AbsenceIsTrue
<1>11. CASE IsPrefix(n[2], rest) /\ n[1] = "ext" /\ n[3] = <<>>
  <2>1. Finish("inline")
    BY <1>7, <1>11
  <2> QED BY <2>1, FinishBad
<1>12. CASE IsPrefix(n[2], rest) /\ n[1] = "ext" /\ n[3] # <<>>
  <2>1. /\ Follow(n[3], walk.idx + Len(n[2]))
        /\ Values(n[3], Rest(Key, walk.idx + Len(n[2]))) = Values(Base, Key)
    BY <1>5, <1>7, <1>12
  <2>2. walk.idx + Len(n[2]) \in 0 .. Len(Key)
    BY <1>1, <1>12, Splits DEF rest
  <2> QED BY <2>1, <2>2, FollowIsTrue
<1> QED BY <1>8, <1>9, <1>10, <1>11, <1>12

LEMMA WalksAreTrue == EthSpec => []WalkInv
<1>1. EthIdle => WalkInv
  BY DEF EthIdle, WalkInv, Walking, WalkedIsHeld, TrueClaimTaken
<1>2. WalkInv /\ [EthNext]_ethVars => WalkInv'
  <2> SUFFICES ASSUME WalkInv, [EthNext]_ethVars
               PROVE  WalkInv'
    OBVIOUS
  <2>1. CASE Ask
    BY <2>1 DEF Ask, WalkInv, Walking, WalkedIsHeld, TrueClaimTaken
  <2>2. CASE PostFails
    <3>1. Finish("failed")
      BY <2>2 DEF PostFails
    <3> QED BY <3>1, FinishBad
  <2>3. CASE PostAnswers
    <3>1. PICK a \in Answers :
            /\ ans' = a
            /\ IF ~CheckAnswer(a) THEN Finish("mismatch")
               ELSE IF req.mode = "skip" \/ a.proofs = <<>> THEN Finish(Verdict(a))
               ELSE StartProof(a, 1)
      BY <2>3 DEF PostAnswers
    <3>2. req' = req /\ res \notin {"ok", "claim"}
      BY <2>3 DEF PostAnswers, WalkInv
    <3>3. a.proofs \in Seq(Range(a.proofs))
      BY AnswersAreLists
    <3>4. CASE ~CheckAnswer(a)
      <4>1. Finish("mismatch")
        BY <3>1, <3>4
      <4> QED BY <4>1, FinishBad
    <3>5. CASE CheckAnswer(a) /\ a.proofs = <<>>
      <4>1. Finish(Verdict(a)) /\ Len(a.proofs) = 0
        BY <3>1, <3>5
      <4>2. \A i \in 1 .. Len(a.proofs) : ProofIsHeld(a.proofs[i])
        BY <4>1
      <4> QED BY <3>1, <4>1, <4>2, VerdictIs, FinishTrue
    <3>6. CASE CheckAnswer(a) /\ req.mode = "skip"
      <4>1. Finish(Verdict(a)) /\ Verdict(a) \in {"ok", "result", "nocontract"}
        BY <3>1, <3>6, VerdictIs
      <4> QED BY <3>2, <3>6, <4>1 DEF Finish, WalkInv, Walking, WalkedIsHeld, TrueClaimTaken
    <3>7. CASE CheckAnswer(a) /\ req.mode # "skip" /\ a.proofs # <<>>
      <4>1. StartProof(a, 1)
        BY <3>1, <3>7
      <4>2. 1 \in 1 .. Len(a.proofs)
        BY <3>3, <3>7, EmptySeq
      <4>3. \A j \in 1 .. 1 - 1 : ProofIsHeld(a.proofs[j])
        OBVIOUS
      <4> QED BY <3>1, <3>2, <4>1, <4>2, <4>3, StartIsTrue
    <3> QED BY <3>4, <3>5, <3>6, <3>7
  <2>4. CASE WalkNode
    <3>1. PICK n \in Nodes :
            IF Keccak(n) # walk.expected THEN Finish("hash")
            ELSE IF ~rlpDecodes(n) THEN Finish("rlp")
            ELSE IF n[1] = "branch" THEN WalkBranch(n) ELSE WalkPath(n)
      BY <2>4 DEF WalkNode
    <3>2. Walking /\ WalkIsTrue /\ res \notin {"ok", "claim"} /\ ans' = ans
      BY <2>4 DEF WalkNode, WalkInv, Walking
    <3>3. CASE Keccak(n) # walk.expected
      <4>1. Finish("hash")
        BY <3>1, <3>3
      <4> QED BY <4>1, FinishBad
    <3>4. CASE Keccak(n) = walk.expected /\ ~rlpDecodes(n)
      <4>1. Finish("rlp")
        BY <3>1, <3>4
      <4> QED BY <4>1, FinishBad
    <3>5. CASE Keccak(n) = walk.expected /\ rlpDecodes(n) /\ n[1] = "branch"
      <4>1. WalkBranch(n)
        BY <3>1, <3>5
      <4> QED BY <3>2, <3>5, <4>1, BranchIsTrue
    <3>6. CASE Keccak(n) = walk.expected /\ rlpDecodes(n) /\ n[1] # "branch"
      <4>1. WalkPath(n)
        BY <3>1, <3>6
      <4>2. n[1] \in {"ext", "leaf"}
        BY <3>6 DEF rlpDecodes
      <4> QED BY <3>2, <3>6, <4>1, <4>2, PathIsTrue
    <3> QED BY <3>3, <3>4, <3>5, <3>6
  <2>5. CASE ProofEnds
    <3>1. Walking /\ WalkIsTrue /\ res \notin {"ok", "claim"} /\ ans' = ans
      BY <2>5 DEF ProofEnds, WalkInv, Walking
    <3>2. CASE walk.nodes = 0 /\ walk.expected = emptyTrieRoot
      <4>1. KeyAbsent
        BY <2>5, <3>2 DEF ProofEnds
      <4>2. Entries(emptyTrieRoot) = {}
        BY EntriesAreTheTries
      <4>3. Values(emptyTrieRoot, Rest(Key, walk.idx)) = {}
        BY <4>2 DEF Values
      <4>4. Values(Base, Key) = {}
        BY <3>1, <3>2, <4>3 DEF WalkIsTrue
      <4> QED BY <3>1, <4>1, <4>4, AbsenceIsTrue
    <3>3. CASE ~(walk.nodes = 0 /\ walk.expected = emptyTrieRoot)
      <4>1. Finish("exhausted")
        BY SMTT(60), <2>5, <3>3 DEF ProofEnds
      <4> QED BY SMTT(60), <4>1, FinishBad
    <3> QED BY <3>2, <3>3
  <2>6. CASE UNCHANGED ethVars
    <3>1. at' = at /\ res' = res /\ walk' = walk /\ ans' = ans /\ req' = req
      BY <2>6 DEF ethVars
    <3> QED BY <3>1 DEF WalkInv, Walking, WalkIsTrue, WalkedIsHeld, TrueClaimTaken, Proof, Slot, Key, Base
  <2> QED BY <2>1, <2>2, <2>3, <2>4, <2>5, <2>6 DEF EthNext
<1> QED BY <1>1, <1>2, PTL DEF EthSpec

\* A result of EthWalkProofs mode is what the answer's state root commits to,
\* whatever claims, roots and nodes the indexer serves and whatever the tries.
THEOREM WalkedResultsAreHeld == EthSpec => []WalkedIsHeld
<1>1. WalkInv => WalkedIsHeld
  BY DEF WalkInv
<1> QED BY <1>1, WalksAreTrue, PTL

\* The walk refuses a claim only if the state root does not commit to it.
THEOREM TrueClaimsAreTaken == EthSpec => []TrueClaimTaken
<1>1. WalkInv => TrueClaimTaken
  BY DEF WalkInv
<1> QED BY <1>1, WalksAreTrue, PTL

-----------------------------------------------------------------------------
(* RLP: numbers, and the bytes they are written in. *)

\* Bytes are numbers below 256.
LEMMA ByteOf ==
  ASSUME NEW d \in Seq(Bytes)
  PROVE  Len(d) \in Nat /\ \A i \in 1 .. Len(d) : d[i] \in Nat /\ d[i] \in Bytes /\ d[i] <= 255
<1>1. \A b \in Bytes : b \in Nat /\ b <= 255
  BY DEF Bytes
<1>2. \A i \in 1 .. Len(d) : d[i] \in Bytes
  OBVIOUS
<1> QED BY <1>1, <1>2

\* A number below 256 is a byte.
LEMMA ByteIs == \A b \in Nat : b <= 255 => b \in Bytes
BY DEF Bytes

\* The function Uint64 reads a number with.
Reads(f, d, k) ==
  f = [i \in 0 .. k |->
        IF i = 0 THEN 0 ELSE IF f[i - 1] > MaxLength \div 256 THEN f[i - 1] ELSE f[i - 1] * 256 + d[i + 1]]

\* A number can be read byte by byte.
LEMMA ReadsExists ==
  ASSUME NEW d, NEW k \in Nat
  PROVE  \E f : Reads(f, d, k)
<1> DEFINE P(n) == \E f : Reads(f, d, n)
           T == {n \in 0 .. k : ~P(n)}
           NextByte(v, i) == IF v > MaxLength \div 256 THEN v ELSE v * 256 + d[i + 1]
<1> HIDE DEF P
<1>2. ASSUME T # {} PROVE FALSE
  <2>1. T \subseteq Nat
    OBVIOUS
  <2>2. PICK n \in T : \A m \in T : n <= m
    <3> HIDE DEF T
    <3> QED BY <1>2, <2>1, LeastMember
  <2>3. n \in 0 .. k /\ ~P(n) /\ n \in Nat
    BY <2>1, <2>2
  <2>4. n # 0
    <3> DEFINE f == [i \in 0 .. 0 |-> 0]
    <3>1. Reads(f, d, 0)
      BY DEF Reads
    <3> QED BY <2>3, <3>1 DEF P
  <2>5. n - 1 \in 0 .. k /\ n - 1 \notin T
    BY <2>2, <2>3, <2>4
  <2>6. PICK f : Reads(f, d, n - 1)
    BY <2>5 DEF P
  <2>7. \A i \in 0 .. n - 1 : f[i] = IF i = 0 THEN 0 ELSE NextByte(f[i - 1], i)
    BY <2>6 DEF Reads
  <2> DEFINE last == NextByte(f[n - 1], n)
             e == [i \in 0 .. n |-> IF i = n THEN last ELSE f[i]]
  <2> HIDE DEF NextByte
  <2>8. ASSUME NEW i \in 0 .. n PROVE e[i] = IF i = 0 THEN 0 ELSE NextByte(e[i - 1], i)
    <3>1. i # 0 => i - 1 \in 0 .. n /\ i - 1 # n /\ e[i - 1] = f[i - 1]
      BY <2>3
    <3>2. i # n => i \in 0 .. n - 1 /\ e[i] = f[i]
      BY <2>3
    <3>3. e[n] = NextByte(f[n - 1], n)
      <4> HIDE DEF last
      <4>1. e[n] = last
        BY <2>3
      <4> QED BY <4>1 DEF last
    <3> HIDE DEF e
    <3> QED BY <2>4, <2>7, <3>1, <3>2, <3>3
  <2>9. e = [i \in 0 .. n |-> IF i = 0 THEN 0 ELSE NextByte(e[i - 1], i)]
    <3>1. e = [i \in 0 .. n |-> e[i]]
      OBVIOUS
    <3> HIDE DEF e
    <3> QED BY <2>8, <3>1
  <2>10. Reads(e, d, n)
    <3> HIDE DEF e
    <3> QED BY <2>9 DEF Reads, NextByte
  <2> HIDE DEF e
  <2> QED BY <2>3, <2>10 DEF P
<1>3. P(k)
  BY <1>2
<1> QED BY <1>3 DEF P

\* The number is that of a function that reads it.
LEMMA Uint64Reads ==
  ASSUME NEW d, NEW k \in Nat
  PROVE  \E f : Reads(f, d, k) /\ Uint64(d, k) = f[k]
<1>1. PICK f : Reads(f, d, k)
  BY ReadsExists
<1> QED BY ZenonT(60), <1>1 DEF Uint64, Reads

\* The bytes of a number are a natural number.
LEMMA Uint64Nat ==
  ASSUME NEW d \in Seq(Bytes), NEW k \in Nat, 1 + k <= Len(d)
  PROVE  Uint64(d, k) \in Nat
<1>1. PICK f : Reads(f, d, k) /\ Uint64(d, k) = f[k]
  BY Uint64Reads
<1>2. \A i \in 0 .. k : f[i] = IF i = 0 THEN 0 ELSE IF f[i - 1] > MaxLength \div 256 THEN f[i - 1]
                                ELSE f[i - 1] * 256 + d[i + 1]
  BY <1>1 DEF Reads
<1>3. \A i \in 1 .. Len(d) : d[i] \in Nat
  BY ByteOf
<1> DEFINE T == {i \in 0 .. k : f[i] \notin Nat}
<1>4. ASSUME T # {} PROVE FALSE
  <2>1. T \subseteq Nat
    OBVIOUS
  <2>2. PICK n \in T : \A m \in T : n <= m
    <3> HIDE DEF T
    <3> QED BY <1>4, <2>1, LeastMember
  <2>3. n \in 0 .. k /\ f[n] \notin Nat /\ n \in Nat
    BY <2>1, <2>2
  <2>4. n # 0
    BY <1>2, <2>3
  <2>5. n - 1 \in 0 .. k /\ f[n - 1] \in Nat
    BY <2>2, <2>3, <2>4
  <2>6. d[n + 1] \in Nat
    BY <1>3, <2>3, <2>4
  <2>7. f[n - 1] * 256 + d[n + 1] \in Nat
    BY SMTT(60), <2>5, <2>6
  <2> QED BY ZenonT(60), <1>2, <2>3, <2>4, <2>5, <2>7
<1>5. f[k] \in Nat
  BY <1>4
<1> QED BY <1>1, <1>5

\* A length that is not refused fits in the bytes there are.
LEMMA LongLengthFits ==
  ASSUME NEW d \in Seq(Bytes), NEW k \in Nat, rlpLongLength(d, k) # -1
  PROVE  /\ rlpLongLength(d, k) \in Nat
         /\ 1 + k + rlpLongLength(d, k) <= Len(d)
<1>1. /\ 1 + k <= Len(d) /\ rlpLongLength(d, k) = Uint64(d, k)
      /\ ~(Uint64(d, k) > Len(d) - 1 - k)
  BY DEF rlpLongLength
<1>2. Uint64(d, k) \in Nat
  BY <1>1, Uint64Nat
<1>3. Len(d) \in Nat
  OBVIOUS
<1> QED BY <1>1, <1>2, <1>3

\* Where a string or list has its bytes is inside the bytes there are.
LEMMA ExtentInRange ==
  ASSUME NEW d \in Seq(Bytes), d # <<>>, NEW short \in Nat, NEW long \in Nat, short <= d[1],
         Extent(d, short, long) # <<>>
  PROVE  LET e == Extent(d, short, long) IN
         /\ e[1] \in Nat /\ e[2] \in Nat /\ e[1] >= 1
         /\ InRange(d, e[1], e[2])
<1>1. Len(d) \in Nat /\ 1 \in 1 .. Len(d) /\ d[1] \in Nat
  BY ByteOf, EmptySeq
<1> DEFINE e == Extent(d, short, long)
<1>0. e # <<>>
  OBVIOUS
<1>2. CASE d[1] <= long
  <2>0. e = IF 1 + (d[1] - short) > Len(d) THEN <<>> ELSE <<1, 1 + (d[1] - short)>>
    BY <1>2 DEF Extent
  <2>1. e = <<1, 1 + (d[1] - short)>> /\ 1 + (d[1] - short) <= Len(d)
    <3> HIDE DEF e
    <3> QED BY <1>0, <1>1, <2>0
  <2>2. short <= d[1] /\ short \in Nat
    OBVIOUS
  <2> HIDE DEF e
  <2>3. e[1] = 1 /\ e[2] = 1 + (d[1] - short)
    BY <2>1
  <2> QED BY <1>1, <2>1, <2>2, <2>3 DEF InRange, e
<1>3. CASE ~(d[1] <= long)
  <2>1. PICK k \in Nat : k = d[1] - long /\ k >= 1
    BY <1>1, <1>3
  <2>2. e = IF rlpLongLength(d, k) = -1 THEN <<>> ELSE <<1 + k, 1 + k + rlpLongLength(d, k)>>
    BY <1>3, <2>1 DEF Extent
  <2> HIDE DEF e
  <2>3. rlpLongLength(d, k) # -1 /\ e[1] = 1 + k /\ e[2] = 1 + k + rlpLongLength(d, k)
    BY <1>0, <2>2
  <2>4. rlpLongLength(d, k) \in Nat /\ 1 + k + rlpLongLength(d, k) <= Len(d)
    BY <2>3, LongLengthFits
  <2> QED BY SMTT(60), <1>1, <2>1, <2>3, <2>4 DEF InRange, e
<1> QED BY <1>2, <1>3

\* The numbers in up to four bytes, as long as they are at most MaxLength.
LEMMA Uint64Is ==
  ASSUME NEW d \in Seq(Bytes), NEW k \in 1 .. 4, 1 + k <= Len(d), k = 4 => d[2] <= 127
  PROVE  /\ k = 1 => Uint64(d, k) = d[2]
         /\ k = 2 => Uint64(d, k) = d[2] * 256 + d[3]
         /\ k = 3 => Uint64(d, k) = (d[2] * 256 + d[3]) * 256 + d[4]
         /\ k = 4 => Uint64(d, k) = ((d[2] * 256 + d[3]) * 256 + d[4]) * 256 + d[5]
<1>1. PICK f : Reads(f, d, k) /\ Uint64(d, k) = f[k]
  BY Uint64Reads
<1>2. MaxLength \div 256 = 8388607
  BY SMT DEF MaxLength
<1>3. \A i \in 0 .. k : f[i] = IF i = 0 THEN 0 ELSE IF f[i - 1] > 8388607 THEN f[i - 1]
                                ELSE f[i - 1] * 256 + d[i + 1]
  BY SMT, <1>1, <1>2 DEF Reads
<1>4. \A i \in 1 .. Len(d) : d[i] \in Nat /\ d[i] <= 255
  BY ByteOf
<1>5. f[0] = 0 /\ f[1] = d[2] /\ d[2] \in Nat /\ d[2] <= 255
  BY SMT, <1>3, <1>4
<1>6. ASSUME k >= 2 PROVE f[2] = d[2] * 256 + d[3] /\ d[3] \in Nat /\ d[3] <= 255
  BY SMT, <1>3, <1>4, <1>5, <1>6
<1>7. ASSUME k >= 3 PROVE f[3] = (d[2] * 256 + d[3]) * 256 + d[4] /\ d[4] \in Nat /\ d[4] <= 255
  <2>1. f[2] = d[2] * 256 + d[3] /\ f[2] \in Nat /\ f[2] <= 8388607 /\ d[4] \in Nat /\ d[4] <= 255
    BY SMTT(60), <1>4, <1>5, <1>6, <1>7
  <2>2. f[3] = f[2] * 256 + d[4]
    BY SMT, <1>3, <1>7, <2>1
  <2> QED BY <2>1, <2>2
<1>8. ASSUME k = 4 PROVE f[4] = ((d[2] * 256 + d[3]) * 256 + d[4]) * 256 + d[5]
  <2>1. f[3] = (d[2] * 256 + d[3]) * 256 + d[4] /\ d[3] \in Nat /\ d[3] <= 255 /\ d[4] \in Nat /\ d[4] <= 255 /\ d[2] <= 127
    BY SMT, <1>6, <1>7, <1>8
  <2>2. f[3] \in Nat /\ f[3] <= 8388607
    <3>1. f[2] = d[2] * 256 + d[3] /\ d[2] \in Nat /\ d[3] \in Nat
      BY <1>5, <1>6, <1>8, <2>1
    <3>2. f[2] \in Nat /\ f[2] <= 32767
      BY SMTT(60), <2>1, <3>1
    <3>3. f[3] = f[2] * 256 + d[4]
      BY SMT, <2>1, <3>1
    <3> QED BY SMTT(60), <2>1, <3>2, <3>3
  <2>3. f[4] = f[3] * 256 + d[5]
    BY SMT, <1>3, <1>8, <2>2
  <2> QED BY <2>1, <2>3
<1> QED BY <1>1, <1>5, <1>6, <1>7, <1>8

\* What is left when the zeros before the i-th byte are trimmed.
LEMMA TrimIs ==
  ASSUME NEW b \in Seq(Bytes), NEW i \in 1 .. Len(b), b[i] # 0, \A j \in 1 .. (i - 1) : b[j] = 0
  PROVE  trimLeadingZeros(b) = SubSeq(b, i, Len(b))
<1> DEFINE P(m) == b[m] # 0 /\ \A j \in 1 .. (m - 1) : b[j] = 0
<1>1. i \in DOMAIN b /\ P(i)
  OBVIOUS
<1>2. ASSUME NEW m \in DOMAIN b, P(m) PROVE m = i
  <2>1. m \in Nat /\ i \in Nat /\ m >= 1 /\ i >= 1
    OBVIOUS
  <2> QED BY <1>2, <2>1
<1>3. (CHOOSE m \in DOMAIN b : P(m)) = i
  <2> HIDE DEF P
  <2> QED BY <1>1, <1>2
<1> QED BY <1>1, <1>3 DEF trimLeadingZeros

\* Division by 256.
LEMMA Mod256 ==
  ASSUME NEW n \in Nat
  PROVE  \E q, r \in Nat : q = n \div 256 /\ r = n % 256 /\ r <= 255 /\ n = q * 256 + r
<1>1. n % 256 = n - 256 * (n \div 256)
  BY SMT
<1>2. PICK q \in Nat : q = n \div 256
  BY SMT
<1>3. PICK r \in Nat : r = n % 256 /\ r <= 255
  BY SMT
<1>4. r = n - 256 * q
  BY SMT, <1>1, <1>2, <1>3
<1>5. n = q * 256 + r
  BY SMT, <1>4
<1> QED BY <1>2, <1>3, <1>5

\* A number is its four bytes.
LEMMA FourBytes ==
  ASSUME NEW n \in Nat, n <= MaxLength
  PROVE  \E a, b, c, e \in Nat :
           /\ a = n \div 16777216 /\ b = (n \div 65536) % 256 /\ c = (n \div 256) % 256 /\ e = n % 256
           /\ a <= 127 /\ b <= 255 /\ c <= 255 /\ e <= 255
           /\ n = ((a * 256 + b) * 256 + c) * 256 + e
<1>1. n <= 2147483647
  BY SMT DEF MaxLength
<1>2. PICK m, e \in Nat : m = n \div 256 /\ e = n % 256 /\ e <= 255 /\ n = m * 256 + e
  BY SMT, Mod256
<1>3. PICK l, c \in Nat : l = m \div 256 /\ c = m % 256 /\ c <= 255 /\ m = l * 256 + c
  BY SMT, Mod256
<1>4. l = n \div 65536
  BY SMT, <1>2, <1>3
<1>5. PICK a, b \in Nat : a = l \div 256 /\ b = l % 256 /\ b <= 255 /\ l = a * 256 + b
  BY SMT, Mod256
<1>6. a = n \div 16777216
  BY SMT, <1>4, <1>5
<1>7. a <= 127
  BY SMT, <1>1, <1>6
<1> QED BY SMT, <1>2, <1>3, <1>4, <1>5, <1>6, <1>7

\* A length is written in one to four bytes, the number they hold.
LEMMA SizeIs ==
  ASSUME NEW n \in Nat, 1 <= n, n <= MaxLength
  PROVE  LET z == uintToMinBE(n)
         IN  /\ z \in Seq(Bytes) /\ Len(z) \in 1 .. 4
             /\ Len(z) = 1 => n = z[1]
             /\ Len(z) = 2 => n = z[1] * 256 + z[2]
             /\ Len(z) = 3 => n = (z[1] * 256 + z[2]) * 256 + z[3]
             /\ Len(z) = 4 => n = ((z[1] * 256 + z[2]) * 256 + z[3]) * 256 + z[4] /\ z[1] <= 127
<1>1. PICK a, b, c, e \in Nat :
        /\ a = n \div 16777216 /\ b = (n \div 65536) % 256 /\ c = (n \div 256) % 256 /\ e = n % 256
        /\ a <= 127 /\ b <= 255 /\ c <= 255 /\ e <= 255
        /\ n = ((a * 256 + b) * 256 + c) * 256 + e
  BY SMT, FourBytes
<1> DEFINE w == <<a, b, c, e>>
           z == uintToMinBE(n)
<1>2. a \in Bytes /\ b \in Bytes /\ c \in Bytes /\ e \in Bytes
  BY SMT, <1>1 DEF Bytes
<1>3. z = trimLeadingZeros(w)
  BY SMT, <1>1 DEF uintToMinBE
<1>4. /\ w \in Seq(Bytes) /\ Len(w) = 4
      /\ w[1] = a /\ w[2] = b /\ w[3] = c /\ w[4] = e
  BY <1>2
<1>5. a <= 127 /\ n = ((a * 256 + b) * 256 + c) * 256 + e
  BY SMT, <1>1
<1> HIDE DEF w, z
<1>6. \A i \in 1 .. 4 : w[i] # 0 /\ (\A j \in 1 .. (i - 1) : w[j] = 0) => z = SubSeq(w, i, 4)
  BY <1>3, <1>4, TrimIs
<1>7. \A i \in 1 .. 4 : LET s == SubSeq(w, i, 4)
                        IN  /\ s \in Seq(Bytes) /\ Len(s) = 5 - i
                            /\ \A j \in 1 .. 5 - i : s[j] = w[i + j - 1]
  <2> TAKE i \in 1 .. 4
  <2>1. Len(w) = 4 /\ w \in Seq(Bytes)
    BY <1>4
  <2>2. \A j \in i .. 4 : w[j] \in Bytes
    BY SMT, <2>1
  <2>3. /\ SubSeq(w, i, 4) \in Seq(Bytes)
        /\ Len(SubSeq(w, i, 4)) = IF i <= 4 THEN 4 - i + 1 ELSE 0
        /\ \A j \in 1 .. 4 - i + 1 : SubSeq(w, i, 4)[j] = w[i + j - 1]
    BY SMT, <2>2, SubSeqProperties
  <2> QED BY SMT, <2>3
<1>8. CASE a # 0
  <2>1. z = SubSeq(w, 1, 4)
    BY <1>4, <1>6, <1>8
  <2>2. z \in Seq(Bytes) /\ Len(z) = 4 /\ z[1] = a /\ z[2] = b /\ z[3] = c /\ z[4] = e
    BY <1>4, <1>7, <2>1
  <2>3. n = ((z[1] * 256 + z[2]) * 256 + z[3]) * 256 + z[4] /\ z[1] <= 127
    BY SMT, <1>5, <2>2
  <2> QED BY SMT, <2>2, <2>3 DEF z
<1>9. CASE a = 0 /\ b # 0
  <2>1. z = SubSeq(w, 2, 4)
    BY <1>4, <1>6, <1>9
  <2>2. z \in Seq(Bytes) /\ Len(z) = 3 /\ z[1] = b /\ z[2] = c /\ z[3] = e
    BY <1>4, <1>7, <2>1
  <2>3. n = (z[1] * 256 + z[2]) * 256 + z[3]
    BY SMT, <1>5, <1>9, <2>2
  <2> QED BY SMT, <2>2, <2>3 DEF z
<1>10. CASE a = 0 /\ b = 0 /\ c # 0
  <2>1. z = SubSeq(w, 3, 4)
    BY <1>4, <1>6, <1>10
  <2>2. z \in Seq(Bytes) /\ Len(z) = 2 /\ z[1] = c /\ z[2] = e
    BY <1>4, <1>7, <2>1
  <2>3. n = z[1] * 256 + z[2]
    BY SMT, <1>5, <1>10, <2>2
  <2> QED BY SMT, <2>2, <2>3 DEF z
<1>11. CASE a = 0 /\ b = 0 /\ c = 0
  <2>1. e # 0
    BY <1>5, <1>11
  <2>2. z = SubSeq(w, 4, 4)
    BY <1>4, <1>6, <1>11, <2>1
  <2>3. z \in Seq(Bytes) /\ Len(z) = 1 /\ z[1] = e
    BY <1>4, <1>7, <2>2
  <2>4. n = z[1]
    BY SMT, <1>5, <1>11, <2>3
  <2> QED BY SMT, <2>3, <2>4 DEF z
<1> QED BY <1>8, <1>9, <1>10, <1>11

\* What is between a head and a tail.
LEMMA Middle ==
  ASSUME NEW S, NEW h \in Seq(S), NEW b \in Seq(S), NEW t \in Seq(S)
  PROVE  /\ Slice(h \o b \o t, Len(h), Len(h) + Len(b)) = b
         /\ Len(h \o b \o t) = Len(h) + Len(b) + Len(t)
         /\ \A i \in 1 .. Len(h) : (h \o b \o t)[i] = h[i]
<1> DEFINE d == h \o b \o t
           s == SubSeq(d, Len(h) + 1, Len(h) + Len(b))
<1>1. /\ d \in Seq(S) /\ Len(d) = Len(h) + Len(b) + Len(t)
      /\ Len(h) \in Nat /\ Len(b) \in Nat /\ Len(t) \in Nat
  OBVIOUS
<1>2. \A i \in 1 .. Len(h) : d[i] = h[i]
  OBVIOUS
<1>3. \A i \in 1 .. Len(b) : d[Len(h) + i] = b[i]
  OBVIOUS
<1> HIDE DEF d
<1>4. s \in Seq(S) /\ Len(s) = Len(b) /\ \A i \in 1 .. Len(b) : s[i] = d[Len(h) + i]
  BY <1>1
<1> HIDE DEF s
<1>5. s = b
  BY <1>3, <1>4, SeqEqual
<1> QED BY <1>1, <1>2, <1>5 DEF d, s, Slice

\* h is the head of body: one byte, or a byte and the length.
IsHead(h, base, body) ==
  /\ Headed(base, body) = h \o body
  /\ Len(h) >= 1 /\ base <= h[1] /\ h[1] <= base + 59
  /\ \/ Len(body) <= 55 /\ Len(h) = 1 /\ h[1] = base + Len(body)
     \/ /\ Len(body) > 55 /\ Len(h) - 1 \in 1 .. 4 /\ h[1] = base + 55 + Len(h) - 1
        /\ \A d \in Seq(Bytes) :
             Len(d) >= Len(h) /\ (\A i \in 1 .. Len(h) : d[i] = h[i])
               => Uint64(d, Len(h) - 1) = Len(body)

\* Headed writes a head.
LEMMA HeadWritten ==
  ASSUME NEW base \in {128, 192}, NEW body \in Seq(Bytes), Len(body) <= MaxLength
  PROVE  \E h \in Seq(Bytes)  : IsHead(h, base, body)
<1>1. base \in Nat /\ base <= 192 /\ Len(body) \in Nat
  OBVIOUS
<1>2. CASE Len(body) <= 55
  <2> DEFINE h == <<base + Len(body)>>
  <2>1. base + Len(body) \in Bytes
    BY <1>1, <1>2, ByteIs
  <2>2. h \in Seq(Bytes) /\ Len(h) = 1 /\ h[1] = base + Len(body)
    BY <2>1
  <2>3. Headed(base, body) = h \o body
    BY <1>2 DEF Headed
  <2> HIDE DEF h
  <2>4. base <= h[1] /\ h[1] <= base + 59 /\ Len(h) >= 1
    BY <1>1, <1>2, <2>2
  <2>5. IsHead(h, base, body)
    BY <1>2, <2>2, <2>3, <2>4, Zenon DEF IsHead
  <2> QED BY <2>2, <2>5
<1>3. CASE ~(Len(body) <= 55)
  <2>1. PICK z \in Seq(Bytes) :
          /\ z = uintToMinBE(Len(body)) /\ Len(z) \in 1 .. 4
          /\ Len(z) = 1 => Len(body) = z[1]
          /\ Len(z) = 2 => Len(body) = z[1] * 256 + z[2]
          /\ Len(z) = 3 => Len(body) = (z[1] * 256 + z[2]) * 256 + z[3]
          /\ Len(z) = 4 => Len(body) = ((z[1] * 256 + z[2]) * 256 + z[3]) * 256 + z[4] /\ z[1] <= 127
    BY SMT, <1>1, <1>3, SizeIs
  <2>2. PICK k \in 1 .. 4 : k = Len(z)
    BY <2>1
  <2> DEFINE h == <<base + 55 + Len(z)>> \o z
  <2>3. base + 55 + Len(z) \in Bytes
    <3>1. base + 55 + k \in Nat /\ base + 55 + k <= 255
      BY <1>1
    <3> QED BY <2>2, <3>1, ByteIs
  <2>4. /\ h \in Seq(Bytes) /\ Len(h) = k + 1 /\ h[1] = base + 55 + k
        /\ \A i \in 1 .. k : h[i + 1] = z[i]
    BY <2>2, <2>3
  <2>5. Headed(base, body) = h \o body
    BY <1>3, <2>1 DEF Headed
  <2> HIDE DEF h
  <2>6. ASSUME NEW d \in Seq(Bytes), Len(d) >= k + 1, \A i \in 1 .. k + 1 : d[i] = h[i]
        PROVE  Uint64(d, k) = Len(body)
    <3>1. \A i \in 1 .. k : d[i + 1] = z[i]
      BY <2>4, <2>6
    <3>2. 1 + k <= Len(d) /\ d[2] = z[1] /\ (k = 4 => d[2] <= 127)
      BY SMTT(60), <2>1, <2>2, <2>6, <3>1
    <3>3. /\ k = 1 => Uint64(d, k) = d[2]
          /\ k = 2 => Uint64(d, k) = d[2] * 256 + d[3]
          /\ k = 3 => Uint64(d, k) = (d[2] * 256 + d[3]) * 256 + d[4]
          /\ k = 4 => Uint64(d, k) = ((d[2] * 256 + d[3]) * 256 + d[4]) * 256 + d[5]
      BY <3>2, Uint64Is
    <3>4. (k >= 2 => d[3] = z[2]) /\ (k >= 3 => d[4] = z[3]) /\ (k = 4 => d[5] = z[4])
      BY <3>1
    <3>5. CASE k = 1
      BY SMT, <2>1, <2>2, <3>2, <3>3, <3>5
    <3>6. CASE k = 2
      BY SMT, <2>1, <2>2, <3>2, <3>3, <3>4, <3>6
    <3>7. CASE k = 3
      BY SMT, <2>1, <2>2, <3>2, <3>3, <3>4, <3>7
    <3>8. CASE k = 4
      BY SMT, <2>1, <2>2, <3>2, <3>3, <3>4, <3>8
    <3> QED BY <3>5, <3>6, <3>7, <3>8
  <2>7. k = Len(h) - 1 /\ k \in Nat /\ k + 1 = Len(h) /\ base + 55 + k = base + 55 + Len(h) - 1
    BY <1>1, <2>4
  <2>8. \A d \in Seq(Bytes) : Len(d) >= Len(h) /\ (\A i \in 1 .. Len(h) : d[i] = h[i])
            => Uint64(d, Len(h) - 1) = Len(body)
    BY <2>6, <2>7
  <2>9. Len(h) - 1 \in 1 .. 4 /\ h[1] = base + 55 + Len(h) - 1 /\ Len(h) >= 1
    BY <2>4, <2>7
  <2>10. base <= h[1] /\ h[1] <= base + 59 /\ Len(body) > 55
    BY <1>1, <1>3, <2>4
  <2>11. IsHead(h, base, body)
    BY <2>5, <2>8, <2>9, <2>10, Zenon DEF IsHead
  <2> QED BY <2>4, <2>11
<1> QED BY <1>2, <1>3

\* What Headed writes is found where it is: the body, and where it ends.
LEMMA HeadedIsRead ==
  ASSUME NEW base \in {128, 192}, NEW body \in Seq(Bytes), Len(body) <= MaxLength,
         NEW tail \in Seq(Bytes)
  PROVE  LET w == Headed(base, body)
             d == w \o tail
             e == Extent(d, base, base + 55)
         IN  /\ w \in Seq(Bytes) /\ Len(w) >= 1 /\ d # <<>>
             /\ base <= d[1] /\ d[1] <= base + 59
             /\ e # <<>> /\ e[2] = Len(w) /\ Slice(d, e[1], e[2]) = body
<1>1. base \in Nat /\ base <= 192 /\ Len(body) \in Nat
  OBVIOUS
<1>2. PICK h \in Seq(Bytes) : IsHead(h, base, body)
  BY HeadWritten
<1>0. /\ Headed(base, body) = h \o body
      /\ Len(h) >= 1 /\ base <= h[1] /\ h[1] <= base + 59
      /\ \/ Len(body) <= 55 /\ Len(h) = 1 /\ h[1] = base + Len(body)
         \/ /\ Len(body) > 55 /\ Len(h) - 1 \in 1 .. 4 /\ h[1] = base + 55 + Len(h) - 1
            /\ \A d \in Seq(Bytes) :
                 Len(d) >= Len(h) /\ (\A i \in 1 .. Len(h) : d[i] = h[i])
                   => Uint64(d, Len(h) - 1) = Len(body)
  BY <1>2, Zenon DEF IsHead
<1> DEFINE d == h \o body \o tail
           e == Extent(d, base, base + 55)
<1>3. /\ Slice(d, Len(h), Len(h) + Len(body)) = body
      /\ Len(d) = Len(h) + Len(body) + Len(tail)
      /\ \A i \in 1 .. Len(h) : d[i] = h[i]
  BY Middle
<1>4. /\ d \in Seq(Bytes) /\ Len(h) \in Nat /\ Len(tail) \in Nat
      /\ h \o body \in Seq(Bytes) /\ Len(h \o body) = Len(h) + Len(body)
  OBVIOUS
<1> HIDE DEF d
<1>5. d[1] = h[1] /\ Len(d) >= Len(h) /\ d # <<>>
  BY <1>1, <1>0, <1>3, <1>4
<1>6. e = <<Len(h), Len(h) + Len(body)>>
  <2>1. CASE Len(body) <= 55 /\ Len(h) = 1 /\ h[1] = base + Len(body)
    <3>1. d[1] <= base + 55 /\ d[1] - base = Len(body) /\ ~(1 + Len(body) > Len(d))
      BY <1>1, <1>3, <1>4, <1>5, <2>1
    <3>2. e = <<1, 1 + Len(body)>>
      BY <3>1 DEF Extent
    <3> QED BY <2>1, <3>2
  <2>2. CASE Len(body) > 55 /\ Len(h) - 1 \in 1 .. 4 /\ h[1] = base + 55 + Len(h) - 1
    <3>1. PICK k \in 1 .. 4 : k = Len(h) - 1
      BY <2>2
    <3>2. Uint64(d, k) = Len(body)
      BY SMTT(60), <1>0, <1>3, <1>4, <1>5, <2>2, <3>1
    <3>3. d[1] - (base + 55) = k /\ ~(d[1] <= base + 55) /\ 1 + k = Len(h)
      <4>1. d[1] = base + 55 + k /\ k \in Nat /\ k >= 1
        BY SMTT(60), <1>1, <1>4, <1>5, <2>2, <3>1
      <4> QED BY <1>1, <1>4, <3>1, <4>1
    <3>4. ~(1 + k > Len(d)) /\ ~(Len(body) > Len(d) - 1 - k) /\ Len(body) # -1
      BY <1>1, <1>3, <1>4, <3>3
    <3>5. rlpLongLength(d, k) = Len(body)
      BY <3>2, <3>4 DEF rlpLongLength
    <3>6. e = <<1 + k, 1 + k + Len(body)>>
      BY <3>3, <3>4, <3>5 DEF Extent
    <3> QED BY <3>3, <3>6
  <2> QED BY <1>0, <2>1, <2>2
<1> HIDE DEF e
<1>7. e # <<>> /\ e[1] = Len(h) /\ e[2] = Len(h) + Len(body)
  BY <1>6
<1>8. Len(h \o body) >= 1 /\ base <= d[1] /\ d[1] <= base + 59
  BY <1>1, <1>0, <1>4, <1>5
<1>9. Slice(d, e[1], e[2]) = body
  BY <1>3, <1>7
<1> QED BY <1>0, <1>4, <1>5, <1>7, <1>8, <1>9 DEF d, e

\* What rlpDecodeItem takes for an item.
LEMMA ItemCases ==
  ASSUME NEW d, d[1] \in Nat
  PROVE  /\ d[1] <= 127 => rlpDecodeItem(d) = <<0, 1>>
         /\ 128 <= d[1] /\ d[1] <= 191 => rlpDecodeItem(d) = Extent(d, 128, 183)
         /\ d[1] > 191 => rlpDecodeItem(d) = <<>>
<1>1. ASSUME d[1] <= 127 PROVE rlpDecodeItem(d) = <<0, 1>>
  <2>1. ~(d[1] \in 128 .. 191)
    BY <1>1
  <2> QED BY <1>1, <2>1, Zenon DEF rlpDecodeItem
<1>2. ASSUME 128 <= d[1], d[1] <= 191 PROVE rlpDecodeItem(d) = Extent(d, 128, 183)
  <2>1. ~(d[1] <= 127) /\ d[1] \in 128 .. 191
    BY <1>2
  <2> QED BY <2>1, Zenon DEF rlpDecodeItem
<1>3. ASSUME d[1] > 191 PROVE rlpDecodeItem(d) = <<>>
  <2>1. ~(d[1] <= 127) /\ ~(d[1] \in 128 .. 191)
    BY <1>3
  <2> QED BY <2>1, Zenon DEF rlpDecodeItem
<1> QED BY <1>1, <1>2, <1>3

\* An item starts and ends where rlpDecodeItem says.
LEMMA ItemInRange ==
  ASSUME NEW d \in Seq(Bytes), d # <<>>, rlpDecodeItem(d) # <<>>
  PROVE  LET e == rlpDecodeItem(d)
         IN  e[1] \in Nat /\ e[2] \in Nat /\ e[2] >= 1 /\ InRange(d, e[1], e[2])
<1>1. Len(d) \in Nat /\ Len(d) >= 1 /\ d[1] \in Nat
  BY ByteOf, EmptySeq
<1>2. CASE d[1] <= 127
  <2>1. rlpDecodeItem(d) = <<0, 1>>
    BY <1>1, <1>2, ItemCases
  <2> DEFINE e == rlpDecodeItem(d)
  <2>2. e[1] = 0 /\ e[2] = 1
    BY <2>1
  <2> HIDE DEF e
  <2> QED BY <1>1, <2>2 DEF InRange, e
<1>3. CASE ~(d[1] <= 127)
  <2>1. d[1] >= 128
    BY <1>1, <1>3
  <2>2. rlpDecodeItem(d) = Extent(d, 128, 183)
    BY <1>1, <2>1, ItemCases
  <2> DEFINE e == Extent(d, 128, 183)
  <2>3. e[1] \in Nat /\ e[2] \in Nat /\ e[1] >= 1 /\ InRange(d, e[1], e[2])
    BY <2>1, <2>2, ExtentInRange
  <2> HIDE DEF e
  <2>4. e[2] >= 1
    BY <2>3 DEF InRange
  <2> QED BY <2>2, <2>3, <2>4 DEF e
<1> QED BY <1>2, <1>3

\* An item that was written is read, and its end found.
LEMMA ItemIsRead ==
  ASSUME NEW b \in Seq(Bytes), Len(b) <= MaxLength, NEW tail \in Seq(Bytes)
  PROVE  LET w == rlpEncodeBytes(b)
             d == w \o tail
             e == rlpDecodeItem(d)
         IN  /\ w \in Seq(Bytes) /\ d # <<>>
             /\ e # <<>> /\ e[2] = Len(w) /\ Slice(d, e[1], e[2]) = b
<1> DEFINE w == rlpEncodeBytes(b)
           d == w \o tail
           e == rlpDecodeItem(d)
<1>1. CASE Len(b) = 1 /\ b[1] < 128
  <2>1. w = b
    BY <1>1 DEF rlpEncodeBytes
  <2>2. b[1] \in Nat /\ b[1] <= 127
    <3>1. 1 \in 1 .. Len(b)
      BY <1>1
    <3>2. b[1] \in Nat
      BY <3>1, ByteOf
    <3> QED BY <1>1, <3>2
  <2>3. d = b \o tail /\ d # <<>> /\ d[1] = b[1] /\ d \in Seq(Bytes)
    <3>1. /\ b \o tail \in Seq(Bytes) /\ Len(b \o tail) = Len(b) + Len(tail)
          /\ (b \o tail)[1] = b[1] /\ Len(tail) \in Nat
      <4>1. /\ b \o tail \in Seq(Bytes) /\ Len(b \o tail) = Len(b) + Len(tail)
            /\ \A i \in 1 .. Len(b) + Len(tail) : (b \o tail)[i] = IF i <= Len(b) THEN b[i] ELSE tail[i - Len(b)]
        BY ConcatProperties
      <4>2. Len(tail) \in Nat /\ 1 \in 1 .. Len(b) + Len(tail) /\ 1 <= Len(b)
        BY <1>1
      <4> QED BY <4>1, <4>2, Zenon
    <3>2. b \o tail # <<>>
      <4> DEFINE c == b \o tail
      <4>1. c \in Seq(Bytes) /\ Len(c) # 0
        BY <1>1, <3>1
      <4> HIDE DEF c
      <4>2. c # <<>>
        BY <4>1, EmptySeq
      <4> QED BY <4>2 DEF c
    <3>3. d = b \o tail
      BY <2>1, Zenon
    <3> HIDE DEF d
    <3> QED BY <3>1, <3>2, <3>3, Zenon
  <2> HIDE DEF d
  <2>4. e = <<0, 1>>
    BY <2>2, <2>3, ItemCases
  <2>5. Slice(b \o tail, 0, 1) = b
    <3>1. Slice(<<>> \o b \o tail, 0, 0 + 1) = b
      <4>1. <<>> \in Seq(Bytes) /\ Len(<<>>) = 0
        BY EmptySeq
      <4>2. Slice(<<>> \o b \o tail, Len(<<>>), Len(<<>>) + Len(b)) = b
        BY <4>1, Middle, ZenonT(60)
      <4> QED BY <1>1, <4>1, <4>2
    <3>2. <<>> \o b = b
      BY ConcatEmptySeq
    <3> QED BY <3>1, <3>2
  <2>6. Slice(d, 0, 1) = b
    BY <2>3, <2>5
  <2> HIDE DEF e
  <2>7. e # <<>> /\ e[1] = 0 /\ e[2] = 1
    BY <2>4
  <2>8. Slice(d, e[1], e[2]) = b /\ e[2] = Len(b)
    BY <1>1, <2>6, <2>7
  <2> HIDE DEF w
  <2> QED BY <2>1, <2>3, <2>7, <2>8 DEF w, d, e
<1>2. CASE ~(Len(b) = 1 /\ b[1] < 128)
  <2>1. w = Headed(128, b)
    BY <1>2 DEF rlpEncodeBytes
  <2> DEFINE x == Extent(d, 128, 128 + 55)
  <2>2. /\ w \in Seq(Bytes) /\ d # <<>> /\ 128 <= d[1] /\ d[1] <= 128 + 59
        /\ x # <<>> /\ x[2] = Len(w) /\ Slice(d, x[1], x[2]) = b
    BY <2>1, HeadedIsRead
  <2>3. d \in Seq(Bytes)
    BY <2>2, ConcatProperties
  <2> HIDE DEF d
  <2>4. d[1] \in Nat
    BY <2>2, <2>3, ByteOf, EmptySeq
  <2>5. e = x
    <3>1. 128 <= d[1] /\ d[1] <= 191 /\ 128 + 55 = 183
      BY <2>2, <2>4
    <3> QED BY <2>4, <3>1, ItemCases
  <2> HIDE DEF w, e, x
  <2> QED BY <2>2, <2>5 DEF w, d, e
<1> QED BY <1>1, <1>2

\* A list that was written is found.
LEMMA ListIsRead ==
  ASSUME NEW body \in Seq(Bytes), Len(body) <= MaxLength
  PROVE  LET w == Headed(192, body)
             e == Extent(w, 192, 247)
         IN  /\ w \in Seq(Bytes) /\ w # <<>> /\ 192 <= w[1]
             /\ e # <<>> /\ Slice(w, e[1], e[2]) = body
<1>1. PICK t \in Seq(Bytes) : t = <<>>
  BY EmptySeq
<1> DEFINE w == Headed(192, body)
           d == w \o t
           x == Extent(d, 192, 192 + 55)
<1>2. /\ w \in Seq(Bytes) /\ d # <<>> /\ 192 <= d[1]
      /\ x # <<>> /\ Slice(d, x[1], x[2]) = body
  BY HeadedIsRead
<1>3. d = w
  <2>1. \A v \in Seq(Bytes) : v \o <<>> = v
    BY ConcatEmptySeq
  <2> QED BY <1>1, <1>2, <2>1, ZenonT(60)
<1>4. 192 + 55 = 247
  OBVIOUS
<1> HIDE DEF w, d
<1> QED BY <1>2, <1>3, <1>4 DEF w

\* A path is read back from its compact form.
LEMMA PathIsRead ==
  ASSUME NEW path \in Seq(0 .. 15), NEW leaf \in BOOLEAN
  PROVE  /\ HexPrefix(path, leaf) \in Seq(Bytes)
         /\ decodeCompactPath(HexPrefix(path, leaf)) = [path |-> path, leaf |-> leaf]
<1>1. Len(path) \in Nat /\ path = [i \in 1 .. Len(path) |-> path[i]]
  OBVIOUS
<1>2. \A i \in 1 .. Len(path) : path[i] \in Nat /\ path[i] <= 15
  BY SMTT(60)
<1> DEFINE odd == Len(path) % 2
           flag == (IF leaf THEN 2 ELSE 0) + odd
           nibs == (IF odd = 1 THEN <<flag>> ELSE <<flag, 0>>) \o path
           hp == HexPrefix(path, leaf)
<1>3. PICK m \in Nat : Len(path) = 2 * m + odd /\ odd \in {0, 1}
  <2>1. \A n \in Nat : n % 2 = n - 2 * (n \div 2)
    BY SMT
  <2>2. \A n \in Nat : n \div 2 \in Nat /\ n % 2 \in {0, 1}
    BY SMT
  <2>3. PICK m \in Nat : m = Len(path) \div 2
    BY <1>1, <2>2
  <2>4. odd = Len(path) - 2 * m /\ odd \in {0, 1}
    BY <1>1, <2>1, <2>2, <2>3
  <2> HIDE DEF odd
  <2>5. Len(path) = 2 * m + odd
    BY <1>1, <2>4
  <2> QED BY <2>4, <2>5
<1>4. hp = [i \in 1 .. (Len(nibs) \div 2) |-> 16 * nibs[2 * i - 1] + nibs[2 * i]]
  BY DEF HexPrefix
<1> HIDE DEF odd, hp
<1>5. flag \in Nat /\ flag <= 3 /\ flag % 2 = odd /\ (flag >= 2 <=> leaf)
  BY <1>3
<1> HIDE DEF flag
<1>6. /\ Len(nibs) = 2 * (m + 1) /\ nibs[1] = flag
      /\ odd = 0 => nibs[2] = 0
      /\ \A i \in 1 .. Len(path) : nibs[i + 2 - odd] = path[i]
  <2>1. CASE odd = 0
    <3>1. nibs = <<flag, 0>> \o path
      BY <2>1
    <3> QED BY <1>1, <1>3, <2>1, <3>1
  <2>2. CASE odd = 1
    <3>1. nibs = <<flag>> \o path
      BY <2>2
    <3> QED BY <1>1, <1>3, <2>2, <3>1
  <2> QED BY <1>3, <2>1, <2>2
<1> HIDE DEF nibs
<1>7. ASSUME NEW i \in 1 .. 2 * (m + 1) PROVE nibs[i] \in Nat /\ nibs[i] <= 15
  <2>1. CASE i = 1
    BY <1>5, <1>6, <2>1
  <2>2. CASE i = 2 /\ odd = 0
    BY <1>6, <2>2
  <2>3. CASE i - 2 + odd >= 1
    <3>1. PICK j \in 1 .. Len(path) : i = j + 2 - odd
      <4> DEFINE x == i - 2 + odd
      <4>1. x \in 1 .. Len(path) /\ i = x + 2 - odd
        <5>1. CASE odd = 0
          BY <1>1, <1>3, <2>3, <5>1
        <5>2. CASE odd = 1
          BY SMTT(60), <1>1, <1>3, <2>3, <5>2
        <5> QED BY <1>3, <5>1, <5>2
      <4> HIDE DEF x
      <4> QED BY <4>1
    <3> QED BY <1>2, <1>6, <3>1
  <2> QED BY <1>3, <2>1, <2>2, <2>3
<1>8. /\ Len(hp) = m + 1
      /\ \A i \in 1 .. m + 1 : hp[i] = 16 * nibs[2 * i - 1] + nibs[2 * i]
  <2>1. Len(nibs) \div 2 = m + 1
    BY <1>6
  <2> QED BY <1>4, <2>1
<1>9. \A x, y \in Nat : x <= 15 /\ y <= 15 =>
        /\ 16 * x + y \in Nat /\ 16 * x + y <= 255
        /\ (16 * x + y) \div 16 = x /\ (16 * x + y) % 16 = y
  BY SMT
<1>10. ASSUME NEW i \in 1 .. m + 1
       PROVE  /\ hp[i] \in Bytes
              /\ hp[i] \div 16 = nibs[2 * i - 1] /\ hp[i] % 16 = nibs[2 * i]
  <2>1. 2 * i - 1 \in 1 .. 2 * (m + 1) /\ 2 * i \in 1 .. 2 * (m + 1)
    OBVIOUS
  <2>2. /\ nibs[2 * i - 1] \in Nat /\ nibs[2 * i - 1] <= 15
        /\ nibs[2 * i] \in Nat /\ nibs[2 * i] <= 15
    BY <1>7, <2>1
  <2>3. hp[i] = 16 * nibs[2 * i - 1] + nibs[2 * i]
    BY <1>8
  <2> HIDE DEF nibs
  <2>4. PICK x, y \in Nat : x = nibs[2 * i - 1] /\ y = nibs[2 * i] /\ x <= 15 /\ y <= 15
    BY <2>2
  <2>5. /\ hp[i] = 16 * x + y /\ hp[i] \in Nat /\ hp[i] <= 255
        /\ hp[i] \div 16 = x /\ hp[i] % 16 = y
    <3>1. hp[i] = 16 * x + y
      BY <2>3, <2>4
    <3>2. /\ 16 * x + y \in Nat /\ 16 * x + y <= 255
          /\ (16 * x + y) \div 16 = x /\ (16 * x + y) % 16 = y
      BY <1>9, <2>4, ZenonT(60)
    <3> QED BY <3>1, <3>2, Zenon
  <2> QED BY <2>4, <2>5, ByteIs
<1>11. hp \in Seq(Bytes) /\ hp # <<>>
  <2>1. hp = [i \in 1 .. m + 1 |-> hp[i]]
    BY <1>4, <1>6
  <2>2. m + 1 \in Nat /\ m + 1 # 0
    OBVIOUS
  <2>3. \A i \in 1 .. m + 1 : hp[i] \in Bytes
    BY <1>10
  <2>4. hp \in Seq(Bytes)
    BY <2>1, <2>2, <2>3
  <2> QED BY <1>8, <2>2, <2>4, EmptySeq
<1> DEFINE first == IF (hp[1] \div 16) % 2 = 1 THEN <<hp[1] % 16>> ELSE <<>>
           rest == [i \in 1 .. 2 * (Len(hp) - 1) |->
                     LET b == hp[1 + (i + 1) \div 2] IN IF i % 2 = 1 THEN b \div 16 ELSE b % 16]
<1>12. decodeCompactPath(hp) = [path |-> first \o rest, leaf |-> (hp[1] \div 16) >= 2]
  BY <1>11 DEF decodeCompactPath
<1>13. hp[1] \div 16 = flag /\ hp[1] % 16 = nibs[2]
  BY <1>6, <1>10
<1>14. rest = [i \in 1 .. 2 * m |-> nibs[i + 2]]
  <2>1. 2 * (Len(hp) - 1) = 2 * m
    BY <1>8
  <2>2. ASSUME NEW i \in 1 .. 2 * m
        PROVE  (LET b == hp[1 + (i + 1) \div 2] IN IF i % 2 = 1 THEN b \div 16 ELSE b % 16) = nibs[i + 2]
    <3>1. PICK j \in 1 .. m : i = 2 * j - 1 \/ i = 2 * j
      <4> DEFINE x == (i + 1) \div 2
      <4>1. x \in 1 .. m /\ (i = 2 * x - 1 \/ i = 2 * x)
        OBVIOUS
      <4> HIDE DEF x
      <4> QED BY <4>1
    <3>2. (i + 1) \div 2 = j /\ (i = 2 * j - 1 => i % 2 = 1) /\ (i = 2 * j => i % 2 = 0)
      BY <3>1
    <3>3. 1 + j \in 1 .. m + 1
      OBVIOUS
    <3>4. hp[1 + j] \div 16 = nibs[2 * (1 + j) - 1] /\ hp[1 + j] % 16 = nibs[2 * (1 + j)]
      BY <1>10, <3>3
    <3> QED BY <3>1, <3>2, <3>4
  <2> QED BY <2>1, <2>2
<1>15. first \o rest = path
  <2>1. CASE odd = 0
    <3>1. first = <<>>
      BY <1>5, <1>13, <2>1
    <3>2. rest = path
      <4>1. \A i \in 1 .. 2 * m : nibs[i + 2] = path[i]
        BY <1>3, <1>6, <2>1
      <4>2. rest = [i \in 1 .. 2 * m |-> path[i]]
        BY <1>14, <4>1
      <4>3. Len(path) = 2 * m
        BY <1>3, <2>1
      <4> QED BY <1>1, <4>2, <4>3, Zenon
    <3> QED BY <3>1, <3>2, ConcatEmptySeq
  <2>2. CASE odd = 1
    <3>1. first = <<path[1]>>
      BY <1>3, <1>5, <1>6, <1>13, <2>2
    <3>2. rest = [i \in 1 .. 2 * m |-> path[i + 1]]
      <4>1. ASSUME NEW i \in 1 .. 2 * m PROVE nibs[i + 2] = path[i + 1]
        <5>1. PICK j \in 1 .. Len(path) : j = i + 1
          BY <1>3, <2>2
        <5>2. j + 2 - odd = i + 2
          BY <2>2, <5>1
        <5> QED BY <1>6, <5>1, <5>2, Zenon
      <4> QED BY <1>14, <4>1
    <3> HIDE DEF first, rest
    <3>3. path[1] \in 0 .. 15 /\ \A i \in 1 .. 2 * m : path[i + 1] \in 0 .. 15
      BY SMTT(60), <1>1, <1>3, <2>2
    <3>4. rest \in Seq(0 .. 15) /\ first \in Seq(0 .. 15)
      BY <3>1, <3>2, <3>3
    <3>5. /\ first \o rest \in Seq(0 .. 15) /\ Len(first \o rest) = 1 + 2 * m
          /\ (first \o rest)[1] = path[1]
          /\ \A i \in 1 .. 2 * m : (first \o rest)[i + 1] = path[i + 1]
      BY <3>1, <3>2, <3>4
    <3>6. \A i \in 1 .. Len(path) : (first \o rest)[i] = path[i]
      <4> TAKE i \in 1 .. Len(path)
      <4>1. CASE i = 1
        BY <3>5, <4>1
      <4>2. CASE i # 1
        <5>1. PICK j \in 1 .. 2 * m : i = j + 1
          BY <1>3, <2>2, <4>2
        <5> QED BY <3>5, <5>1
      <4> QED BY <4>1, <4>2
    <3> QED BY <1>3, <2>2, <3>5, <3>6, SeqEqual
  <2> QED BY <1>3, <2>1, <2>2
<1>16. (hp[1] \div 16) >= 2 <=> leaf
  BY <1>5, <1>13
<1>17. ((hp[1] \div 16) >= 2) = leaf
  <2>1. CASE leaf = TRUE
    BY <1>16, <2>1
  <2>2. CASE leaf = FALSE
    BY <1>16, <2>2
  <2> QED BY <2>1, <2>2
<1> HIDE DEF first, rest
<1>18. decodeCompactPath(hp) = [path |-> path, leaf |-> leaf]
  BY <1>12, <1>15, <1>17, Zenon
<1> QED BY <1>11, <1>18 DEF hp

\* What joins two sequences begins with the first.
LEMMA ConcatAt ==
  ASSUME NEW S
  PROVE  \A x, y \in Seq(S) : /\ x \o y \in Seq(S) /\ Len(x \o y) = Len(x) + Len(y)
                             /\ Len(x) \in Nat /\ Len(y) \in Nat
                             /\ \A i \in 1 .. Len(x) : (x \o y)[i] = x[i]
<1> TAKE x, y \in Seq(S)
<1>1. Len(x) \in Nat /\ Len(y) \in Nat
  OBVIOUS
<1>2. /\ x \o y \in Seq(S) /\ Len(x \o y) = Len(x) + Len(y)
      /\ \A i \in 1 .. Len(x) + Len(y) : (x \o y)[i] = IF i <= Len(x) THEN x[i] ELSE y[i - Len(x)]
  BY ConcatProperties
<1> QED BY <1>1, <1>2

\* What is sent is items of bytes, and as many encodings.
LEMMA SentFacts ==
  ASSUME NEW s \in Sent
  PROVE  /\ Items(s) \in Seq(Seq(Bytes)) /\ Encodings(s) \in Seq(Seq(Bytes))
         /\ Len(Encodings(s)) = Len(Items(s)) /\ Len(Items(s)) \in Nat
         /\ \A i \in 1 .. Len(Items(s)) :
              /\ Encodings(s)[i] = rlpEncodeBytes(Items(s)[i])
              /\ Items(s)[i] \in Seq(Bytes) /\ Len(Items(s)[i]) <= MaxLength
         /\ FlattenSeq(Encodings(s)) \in Seq(Bytes) /\ Len(FlattenSeq(Encodings(s))) <= MaxLength
         /\ Len(s.path) <= 1
         /\ \A i \in 1 .. Len(s.path) :
              /\ s.path[i] \in Seq(0 .. 15) /\ 1 <= Len(Items(s))
              /\ Items(s)[1] = HexPrefix(s.path[1], s.leaf)
<1> DEFINE head == [i \in DOMAIN s.path |-> HexPrefix(s.path[i], s.leaf)]
           its == Items(s)
<1>1. /\ s.path \in Seq(Seq(0 .. 15)) /\ Len(s.path) <= 1 /\ s.leaf \in BOOLEAN
      /\ s.items \in Seq(Seq(Bytes))
      /\ \A i \in DOMAIN its : Len(its[i]) <= MaxLength
      /\ Len(FlattenSeq(Encodings(s))) <= MaxLength
  BY SentAreNodes
<1>2. /\ DOMAIN s.path = 1 .. Len(s.path) /\ Len(s.path) \in Nat
      /\ \A i \in 1 .. Len(s.path) : s.path[i] \in Seq(0 .. 15)
  BY <1>1
<1>3. \A i \in 1 .. Len(s.path) : HexPrefix(s.path[i], s.leaf) \in Seq(Bytes)
  BY <1>1, <1>2, PathIsRead
<1>4. head \in Seq(Seq(Bytes)) /\ Len(head) = Len(s.path)
      /\ \A i \in 1 .. Len(s.path) : head[i] = HexPrefix(s.path[i], s.leaf)
  BY <1>2, <1>3
<1>5. its = head \o s.items
  BY DEF Items
<1> HIDE DEF head, its
<1>6. /\ its \in Seq(Seq(Bytes)) /\ Len(its) = Len(s.path) + Len(s.items)
      /\ \A i \in 1 .. Len(s.path) : its[i] = head[i]
  <2>1. \A x, y \in Seq(Seq(Bytes)) :
          /\ x \o y \in Seq(Seq(Bytes)) /\ Len(x \o y) = Len(x) + Len(y)
          /\ \A i \in 1 .. Len(x) : (x \o y)[i] = x[i]
    BY ConcatAt
  <2> QED BY <1>1, <1>4, <1>5, <2>1, ZenonT(60)
<1>7. /\ Len(its) \in Nat /\ DOMAIN its = 1 .. Len(its)
      /\ \A i \in 1 .. Len(its) : its[i] \in Seq(Bytes) /\ Len(its[i]) <= MaxLength
  <2>1. Len(its) \in Nat /\ DOMAIN its = 1 .. Len(its) /\ \A i \in 1 .. Len(its) : its[i] \in Seq(Bytes)
    BY <1>6, LenProperties, ElementOfSeq
  <2> QED BY <1>1, <2>1, Zenon
<1>8. Encodings(s) = [i \in 1 .. Len(its) |-> rlpEncodeBytes(its[i])]
  BY <1>7 DEF Encodings, its
<1>9. \A i \in 1 .. Len(its) : rlpEncodeBytes(its[i]) \in Seq(Bytes)
  <2> TAKE i \in 1 .. Len(its)
  <2>1. its[i] \in Seq(Bytes) /\ Len(its[i]) <= MaxLength
    BY <1>7
  <2>2. <<>> \in Seq(Bytes)
    BY EmptySeq
  <2> QED BY <2>1, <2>2, ItemIsRead
<1>10. /\ Encodings(s) \in Seq(Seq(Bytes)) /\ Len(Encodings(s)) = Len(its)
       /\ \A i \in 1 .. Len(its) : Encodings(s)[i] = rlpEncodeBytes(its[i])
  BY <1>7, <1>8, <1>9
<1>11. FlattenSeq(Encodings(s)) \in Seq(Bytes)
  BY <1>10, FlattenIn
<1>12. \A i \in 1 .. Len(s.path) : its[1] = HexPrefix(s.path[1], s.leaf) /\ 1 <= Len(its)
  <2> TAKE i \in 1 .. Len(s.path)
  <2>1. 1 \in 1 .. Len(s.path) /\ 1 <= Len(s.path)
    BY <1>2
  <2>2. Len(s.items) \in Nat
    BY <1>1, LenProperties
  <2>3. 1 <= Len(its)
    <3>1. PICK a, b \in Nat : a = Len(s.path) /\ b = Len(s.items) /\ Len(its) = a + b /\ 1 <= a
      BY <1>2, <1>6, <2>1, <2>2, Zenon
    <3>2. \A x, y \in Nat : 1 <= x => 1 <= x + y
      OBVIOUS
    <3> QED BY <3>1, <3>2, Zenon
  <2> QED BY <1>4, <1>6, <2>1, <2>3, Zenon
<1> QED BY <1>1, <1>2, <1>6, <1>7, <1>10, <1>11, <1>12, Zenon DEF its

-----------------------------------------------------------------------------
(* The decoder. *)

\* Of what s was written as, the first items are read, and the rest is ahead.
ReadSoFar(s) ==
  /\ rlp \in {"items", "ok"}
  /\ Len(out) \in Nat /\ Len(out) <= Len(Items(s)) /\ out = SubSeq(Items(s), 1, Len(out))
  /\ payload = FlattenSeq(Encodings(s))
  /\ pos = Len(FlattenSeq(SubSeq(Encodings(s), 1, Len(out))))
  /\ rlp = "ok" => Len(out) = Len(Items(s))

\* The decoder is inside its bytes, and what was sent is read as far as it is.
RlpInv ==
  /\ rlp \in {"idle", "items", "ok", "error"}
  /\ source = <<>> \/ \E s \in Sent : source = <<s>>
  /\ rlp = "idle" => source = <<>> /\ pos = 0 /\ out = <<>>
  /\ rlp = "items" => payload \in Seq(Bytes) /\ pos \in Nat /\ pos <= Len(payload)
  /\ \A s \in Sent : source = <<s>> => ReadSoFar(s)

\* One source is not none, and is no other.
LEMMA SourceIsOne == \A s : <<s>> # <<>> /\ \A t : <<s>> = <<t>> => s = t
OBVIOUS

\* The decoder starts in the invariant.
LEMMA RlpBegins == RlpIdle => RlpInv
BY SourceIsOne DEF RlpIdle, RlpInv

\* A list that was sent is found whole; bytes nobody sent never panic.
LEMMA SentIsFound ==
  ASSUME RlpInv, rlp = "idle", NEW s \in Sent, Decode(EncodeSent(s), <<s>>)
  PROVE  RlpInv'
<1> DEFINE body == FlattenSeq(Encodings(s))
           raw == EncodeSent(s)
           e == Extent(raw, 192, 247)
<1>1. body \in Seq(Bytes) /\ Len(body) <= MaxLength /\ Len(Items(s)) \in Nat
  BY SentFacts
<1>2. /\ raw \in Seq(Bytes) /\ raw # <<>> /\ 192 <= raw[1]
      /\ e # <<>> /\ Slice(raw, e[1], e[2]) = body
  <2>1. raw = Headed(192, body)
    BY DEF EncodeSent, rlpEncodeList
  <2> HIDE DEF body
  <2> QED BY <1>1, <2>1, ListIsRead
<1>3. InRange(raw, e[1], e[2])
  <2> HIDE DEF raw
  <2> QED BY <1>2, ExtentInRange
<1>4. raw[1] \in Nat
  <2> HIDE DEF raw
  <2> QED BY <1>2, ByteOf, EmptySeq
<1> HIDE DEF raw, e
<1>5. /\ source' = <<s>> /\ payload' = body /\ rlp' = "items" /\ pos' = pos /\ out' = out
  <2>1. ~(raw = <<>> \/ raw[1] < 192)
    BY <1>2, <1>4
  <2> QED BY <1>2, <1>3, <2>1 DEF Decode, raw, e
<1>6. pos = 0 /\ out = <<>>
  BY DEF RlpInv
<1>7. ReadSoFar(s)'
  <2>1. /\ Len(<<>>) = 0 /\ SubSeq(Items(s), 1, 0) = <<>> /\ SubSeq(Encodings(s), 1, 0) = <<>>
        /\ FlattenSeq(<<>>) = <<>>
    BY DEF FlattenSeq
  <2>2. out' = <<>> /\ pos' = 0 /\ Len(out') = 0
    BY <1>5, <1>6, <2>1
  <2>3. pos' = Len(FlattenSeq(SubSeq(Encodings(s), 1, Len(out'))))
    BY <2>1, <2>2, Zenon
  <2>4. out' = SubSeq(Items(s), 1, Len(out'))
    BY <2>1, <2>2, Zenon
  <2>5. Len(out') \in Nat /\ Len(out') <= Len(Items(s))
    BY <1>1, <2>2
  <2> QED BY <1>5, <2>3, <2>4, <2>5 DEF ReadSoFar
<1> QED BY <1>1, <1>5, <1>6, <1>7, SourceIsOne DEF RlpInv

\* Bytes nobody sent are refused, or their payload is taken from inside them.
LEMMA RawIsTaken ==
  ASSUME RlpInv, rlp = "idle", NEW raw \in Seq(Bytes), Decode(raw, <<>>)
  PROVE  RlpInv'
<1> DEFINE e == Extent(raw, 192, 247)
<1>1. pos = 0 /\ out = <<>> /\ source' = <<>>
  BY DEF RlpInv, Decode
<1>2. \A s : <<s>> # <<>>
  BY SourceIsOne
<1>3. CASE rlp' = "error"
  BY <1>1, <1>2, <1>3 DEF RlpInv
<1>4. CASE rlp' # "error"
  <2>1. raw # <<>> /\ ~(raw[1] < 192) /\ e # <<>>
    BY <1>4 DEF Decode, Outcome
  <2>2. raw[1] \in Nat
    BY <2>1, ByteOf, EmptySeq
  <2>3. e[1] \in Nat /\ e[2] \in Nat /\ InRange(raw, e[1], e[2])
    BY <2>1, <2>2, ExtentInRange
  <2>4. rlp' = "items" /\ payload' = Slice(raw, e[1], e[2]) /\ pos' = pos
    BY <2>1, <2>3 DEF Decode
  <2> HIDE DEF e
  <2>5. payload' \in Seq(Bytes)
    BY <2>3, <2>4 DEF Slice, InRange
  <2>6. Len(payload') \in Nat
    BY <2>5
  <2> QED BY <1>1, <1>2, <2>4, <2>5, <2>6 DEF RlpInv
<1> QED BY <1>3, <1>4

\* A round of the loop over bytes nobody sent stays inside them.
LEMMA RoundInRange ==
  ASSUME RlpInv, rlp = "items", DecodeItem
  PROVE  /\ rlp' \in {"items", "ok", "error"} /\ source' = source
         /\ rlp' = "items" => payload' \in Seq(Bytes) /\ pos' \in Nat /\ pos' <= Len(payload')
<1> DEFINE rest == Slice(payload, pos, Len(payload))
           e == rlpDecodeItem(rest)
<1>1. payload \in Seq(Bytes) /\ pos \in Nat /\ pos <= Len(payload) /\ Len(payload) \in Nat
  BY DEF RlpInv
<1>2. source' = source
  BY DEF DecodeItem
<1>3. CASE pos >= Len(payload)
  BY <1>2, <1>3 DEF DecodeItem, Outcome
<1>4. CASE ~(pos >= Len(payload)) /\ e = <<>>
  BY <1>2, <1>4 DEF DecodeItem, Outcome
<1>5. CASE ~(pos >= Len(payload)) /\ e # <<>>
  <2>1. rest \in Seq(Bytes) /\ Len(rest) = Len(payload) - pos
    BY <1>1 DEF Slice
  <2>2. rest # <<>>
    BY <1>1, <1>5, <2>1, EmptySeq
  <2>3. e[2] \in Nat /\ InRange(rest, e[1], e[2])
    <3> HIDE DEF rest
    <3> QED BY <1>5, <2>1, <2>2, ItemInRange
  <2>4. payload' = payload /\ pos' = pos + e[2] /\ rlp' = rlp
    BY <1>5, <2>3 DEF DecodeItem
  <2> HIDE DEF rest, e
  <2>5. e[2] <= Len(payload) - pos
    BY <2>1, <2>3 DEF InRange
  <2> QED BY <1>1, <1>2, <2>3, <2>4, <2>5
<1> QED BY <1>3, <1>4, <1>5

\* A round of the loop over what was sent reads the next item.
LEMMA NextItemIsRead ==
  ASSUME RlpInv, rlp = "items", DecodeItem, NEW s \in Sent, ReadSoFar(s)
  PROVE  ReadSoFar(s)'
<1> DEFINE n == Len(out)
           enc == Encodings(s)
           rest == Slice(payload, pos, Len(payload))
           e == rlpDecodeItem(rest)
<1>1. /\ n \in Nat /\ n <= Len(Items(s)) /\ out = SubSeq(Items(s), 1, n)
      /\ payload = FlattenSeq(enc) /\ pos = Len(FlattenSeq(SubSeq(enc, 1, n)))
  BY DEF ReadSoFar
<1>2. /\ Items(s) \in Seq(Seq(Bytes)) /\ enc \in Seq(Seq(Bytes))
      /\ Len(enc) = Len(Items(s)) /\ Len(Items(s)) \in Nat
      /\ \A i \in 1 .. Len(Items(s)) :
           enc[i] = rlpEncodeBytes(Items(s)[i]) /\ Items(s)[i] \in Seq(Bytes) /\ Len(Items(s)[i]) <= MaxLength
  BY SentFacts
<1> HIDE DEF n, enc
<1>3. CASE n = Len(Items(s))
  <2>1. SubSeq(enc, 1, n) = enc
    BY <1>2, <1>3, SubSeqFull
  <2>2. pos = Len(payload)
    BY <1>1, <2>1
  <2>3. Len(payload) \in Nat
    BY DEF RlpInv
  <2>4. rlp' = "ok" /\ UNCHANGED <<payload, pos, out>>
    BY <2>2, <2>3 DEF DecodeItem, Outcome
  <2> QED BY <1>1, <1>2, <1>3, <2>4, Zenon DEF ReadSoFar, n, enc
<1>4. CASE n # Len(Items(s))
  <2>1. n < Len(enc) /\ n + 1 \in 1 .. Len(Items(s))
    BY SMTT(60), <1>1, <1>2, <1>4
  <2> DEFINE item == Items(s)[n + 1]
             w == rlpEncodeBytes(item)
  <2>2. item \in Seq(Bytes) /\ Len(item) <= MaxLength /\ enc[n + 1] = w
    BY <1>2, <2>1
  <2>20. PICK p, r \in Seq(Bytes) : Around(enc, n, p, r)
    <3>1. enc \in Seq(Seq(Bytes)) /\ n \in Nat /\ n < Len(enc)
      BY <1>1, <1>2, <2>1
    <3> QED BY <3>1, FlattenStep
  <2>3. /\ p = FlattenSeq(SubSeq(enc, 1, n))
        /\ FlattenSeq(SubSeq(enc, 1, n + 1)) = p \o enc[n + 1]
        /\ FlattenSeq(enc) = p \o (enc[n + 1] \o r)
    BY <2>20, Zenon DEF Around
  <2> DEFINE d == w \o r
             x == rlpDecodeItem(d)
  <2> HIDE DEF item
  <2>4. /\ w \in Seq(Bytes) /\ d # <<>>
        /\ x # <<>> /\ x[2] = Len(w) /\ Slice(d, x[1], x[2]) = item
    BY <2>2, ItemIsRead
  <2> HIDE DEF w
  <2>5. d \in Seq(Bytes) /\ payload = p \o d /\ pos = Len(p)
    BY <1>1, <2>2, <2>3, <2>4
  <2>6. InRange(d, x[1], x[2]) /\ x[2] \in Nat
    BY <2>4, <2>5, ItemInRange
  <2> HIDE DEF d, x
  <2>7. rest = d /\ ~(pos >= Len(payload))
    <3>0. PICK t \in Seq(Bytes) : t = <<>>
      BY EmptySeq
    <3>1. Slice(p \o d \o t, Len(p), Len(p) + Len(d)) = d
      BY <2>5, Middle
    <3>2. p \o d \o t = p \o d /\ Len(p \o d) = Len(p) + Len(d) /\ Len(p) \in Nat
      BY <2>3, <2>5, <3>0
    <3>3. Len(d) \in Nat \ {0}
      BY <2>4, <2>5, EmptySeq
    <3> QED BY <2>5, <3>1, <3>2, <3>3
  <2>8. e = x
    BY <2>7 DEF x
  <2>9. out' = Append(out, item) /\ pos' = pos + x[2] /\ payload' = payload /\ rlp' = rlp
    <3> HIDE DEF rest
    <3>1. e # <<>> /\ InRange(rest, e[1], e[2]) /\ Slice(rest, e[1], e[2]) = item
      BY <2>4, <2>6, <2>7, <2>8
    <3> QED BY <2>7, <2>8, <3>1 DEF DecodeItem, rest
  <2>10. out' = SubSeq(Items(s), 1, n + 1) /\ Len(out') = n + 1
    <3>1. SubSeq(Items(s), 1, n + 1) = Append(SubSeq(Items(s), 1, n), Items(s)[n + 1])
      BY SMTT(60), <1>1, <1>2, <2>1
    <3>2. Len(SubSeq(Items(s), 1, n + 1)) = n + 1
      BY <1>1, <1>2, <2>1
    <3> QED BY <1>1, <2>9, <3>1, <3>2 DEF item
  <2>11. pos' = Len(FlattenSeq(SubSeq(enc, 1, n + 1)))
    BY <2>2, <2>3, <2>4, <2>5, <2>9
  <2>12. n + 1 \in Nat /\ n + 1 <= Len(Items(s))
    BY <1>1, <1>2, <2>1
  <2>13. rlp' = "items" /\ payload' = FlattenSeq(enc)
    BY <1>1, <2>9
  <2> QED BY <2>10, <2>11, <2>12, <2>13 DEF ReadSoFar, enc
<1> QED BY <1>3, <1>4

\* Every step of the decoder keeps the invariant.
LEMMA RlpStep == RlpInv /\ [RlpNext]_rlpVars => RlpInv'
<1> SUFFICES ASSUME RlpInv, [RlpNext]_rlpVars
             PROVE  RlpInv'
  OBVIOUS
<1>1. CASE rlp = "idle" /\ \E s \in Sent : Decode(EncodeSent(s), <<s>>)
  BY <1>1, SentIsFound
<1>2. CASE rlp = "idle" /\ \E raw \in Raw : Decode(raw, <<>>)
  BY <1>2, RawIsTaken, RawAreBytes
<1>3. CASE DecodeItem
  <2>1. rlp = "items"
    BY <1>3 DEF DecodeItem
  <2>2. /\ rlp' \in {"items", "ok", "error"} /\ source' = source
        /\ rlp' = "items" => payload' \in Seq(Bytes) /\ pos' \in Nat /\ pos' <= Len(payload')
    BY <1>3, <2>1, RoundInRange
  <2>3. \A s \in Sent : ReadSoFar(s) => ReadSoFar(s)'
    BY <1>3, <2>1, NextItemIsRead
  <2> QED BY <2>2, <2>3 DEF RlpInv
<1>4. CASE UNCHANGED rlpVars
  BY <1>4 DEF rlpVars, RlpInv, ReadSoFar
<1> QED BY <1>1, <1>2, <1>3, <1>4 DEF RlpNext

\* The invariant says what the property does.
LEMMA RlpInvReads == RlpInv => RlpReadsBack
<1> SUFFICES ASSUME RlpInv PROVE RlpReadsBack
  OBVIOUS
<1>1. rlp # "panic"
  BY DEF RlpInv
<1>2. ASSUME rlp \notin {"idle", "items"}, NEW s \in Range(source)
      PROVE  /\ rlp = "ok" /\ out = Items(s)
             /\ \A path \in Range(s.path) :
                  decodeCompactPath(out[1]) = [path |-> path, leaf |-> s.leaf]
  <2>1. source = <<s>> /\ s \in Sent
    <3>1. source # <<>>
      BY <1>2 DEF Range
    <3>2. PICK t \in Sent : source = <<t>>
      BY <3>1 DEF RlpInv
    <3>3. s = t
      BY <1>2, <3>2 DEF Range
    <3> QED BY <3>2, <3>3
  <2>2. ReadSoFar(s)
    BY <2>1 DEF RlpInv
  <2>3. rlp = "ok" /\ out = SubSeq(Items(s), 1, Len(Items(s)))
    BY <1>2, <2>2 DEF ReadSoFar
  <2>4. out = Items(s)
    BY <2>1, <2>3, SentFacts, SubSeqFull
  <2>5. ASSUME NEW path \in Range(s.path)
        PROVE  decodeCompactPath(out[1]) = [path |-> path, leaf |-> s.leaf]
    <3>1. s.path \in Seq(Seq(0 .. 15)) /\ Len(s.path) <= 1 /\ s.leaf \in BOOLEAN
      BY <2>1, SentAreNodes
    <3>2. DOMAIN s.path = 1 .. Len(s.path) /\ Len(s.path) \in Nat
      BY <3>1
    <3>3. 1 \in 1 .. Len(s.path) /\ path = s.path[1]
      BY <2>5, <3>1, <3>2 DEF Range
    <3>4. out[1] = HexPrefix(path, s.leaf) /\ path \in Seq(0 .. 15)
      BY <2>1, <2>4, <3>3, SentFacts
    <3> QED BY <3>1, <3>4, PathIsRead
  <2> QED BY <2>3, <2>4, <2>5
<1> QED BY <1>1, <1>2 DEF RlpReadsBack

\* No bytes make the decoder panic, and what the encoders write is read back.
THEOREM RlpIsReadBack == RlpSpec => []RlpReadsBack
<1>1. RlpSpec => []RlpInv
  BY RlpBegins, RlpStep, PTL DEF RlpSpec
<1> QED BY <1>1, RlpInvReads, PTL

-----------------------------------------------------------------------------
(* SignedMessages: what a message can be cut into, and what it stands for. *)

LEMMA JoinedIs ==
  ASSUME NEW sep, NEW lines, Len(lines) \in Nat \ {0}
  PROVE  \E w : Separates(w, sep, lines) /\ JoinedBy(sep, lines) = w[1]
<1>1. \E w : Separates(w, sep, lines)
  BY SeparatesExists
<1> QED BY <1>1 DEF JoinedBy, Separates

\* Joined lines begin with the first line.
LEMMA JoinedBegins ==
  ASSUME NEW sep \in Token, NEW lines \in Seq(Text), lines # <<>>, NEW v, lines[1] = <<v>>
  PROVE  JoinedBy(sep, lines)[1] = v
<1>1. Len(lines) \in Nat \ {0}
  BY EmptySeq, LenProperties
<1>2. PICK w : Separates(w, sep, lines) /\ JoinedBy(sep, lines) = w[1]
  BY <1>1, JoinedIs
<1> DEFINE rest == After(w, sep, lines, 1)
<1>3. w[1] = Cat(lines[1], rest) /\ rest \in Seq(Token) /\ lines[1] \in Seq(Token)
  <2>1. 1 \in 1 .. Len(lines)
    BY <1>1
  <2>2. lines \in Seq(Seq(Token))
    BY DEF Text
  <2>3. \A j \in 1 .. Len(lines) :
          /\ w[j] = Cat(lines[j], After(w, sep, lines, j))
          /\ After(w, sep, lines, j) \in Seq(Token)
    BY <1>2, <2>2, SeparatedLines
  <2>4. lines[1] \in Seq(Token)
    BY <2>1, <2>2, ElementOfSeq
  <2> QED BY <2>1, <2>3, <2>4
<1> HIDE DEF rest
<1>4. (<<v>> \o rest)[1] = v
  <2>1. <<v>> \in Seq(Token) /\ Len(<<v>>) = 1 /\ <<v>>[1] = v /\ Len(rest) \in Nat
    BY <1>3, LenProperties
  <2>2. 1 \in 1 .. Len(<<v>>) + Len(rest) /\ 1 <= Len(<<v>>)
    BY <2>1
  <2> QED BY <1>3, <2>1, <2>2, ConcatProperties
<1> QED BY <1>2, <1>3, <1>4 DEF Cat

\* Two texts of which the first's lines hold no separator.
LEMMA JoinedSame ==
  ASSUME NEW sep \in Token,
         NEW A \in Seq(Text), A # <<>>, \A i \in 1 .. Len(A) : FreeOf(A[i], sep),
         NEW B \in Seq(Text), B # <<>>, JoinedBy(sep, A) = JoinedBy(sep, B)
  PROVE  Coarser(B, A, sep)
<1>1. Len(A) \in Nat \ {0} /\ Len(B) \in Nat \ {0}
  BY EmptySeq, LenProperties
<1>2. PICK v : Separates(v, sep, A) /\ JoinedBy(sep, A) = v[1]
  BY <1>1, JoinedIs
<1>3. PICK w : Separates(w, sep, B) /\ JoinedBy(sep, B) = w[1]
  BY <1>1, JoinedIs
<1>4. A \in Seq(Seq(Token)) /\ B \in Seq(Seq(Token)) /\ v[1] = w[1]
  BY <1>2, <1>3 DEF Text
<1> QED BY <1>2, <1>3, <1>4, LinesSplit

\* A labelled line begins with its label, says one value, and breaks only
\* where its value does.
LEMMA LineFacts ==
  /\ \A label \in Token : \A v \in Text :
       /\ line(label, v) \in Text /\ line(label, v)[1] = label /\ line(label, v) # <<>>
       /\ text(label, v) = line(label, v)
       /\ label # NL /\ FreeOf(v, NL) => FreeOf(line(label, v), NL)
  /\ \A label \in Token : \A v, w \in Text : line(label, v) = line(label, w) => v = w
<1>1. ASSUME NEW label \in Token, NEW v \in Text
      PROVE  /\ line(label, v) \in Text /\ line(label, v)[1] = label /\ line(label, v) # <<>>
             /\ label # NL /\ FreeOf(v, NL) => FreeOf(line(label, v), NL)
  <2> DEFINE l == <<label>> \o v
  <2>1. <<label>> \in Seq(Token) /\ Len(<<label>>) = 1 /\ <<label>>[1] = label
    OBVIOUS
  <2>2. /\ l \in Seq(Token) /\ Len(l) = 1 + Len(v)
        /\ \A i \in 1 .. 1 + Len(v) : l[i] = IF i <= 1 THEN label ELSE v[i - 1]
    BY <2>1, ConcatProperties DEF Text
  <2>3. Len(v) \in Nat
    BY LenProperties DEF Text
  <2>4. line(label, v) = l
    BY DEF line
  <2> HIDE DEF l
  <2>5. l[1] = label /\ l # <<>>
    BY <2>2, <2>3
  <2>6. ASSUME label # NL, FreeOf(v, NL) PROVE FreeOf(l, NL)
    <3>1. ASSUME NEW i \in 1 .. Len(l) PROVE l[i] # NL
      <4>1. i = 1 \/ (~(i <= 1) /\ i - 1 \in 1 .. Len(v))
        BY <2>2, <2>3
      <4> QED BY <2>2, <2>5, <2>6, <4>1 DEF FreeOf
    <3> QED BY <3>1 DEF FreeOf
  <2> QED BY <2>2, <2>4, <2>5, <2>6 DEF Text
<1>2. ASSUME NEW label \in Token, NEW v \in Text, NEW w \in Text, line(label, v) = line(label, w)
      PROVE  v = w
  <2>1. <<label>> \in Seq(Token)
    OBVIOUS
  <2>2. <<label>> \o v = <<label>> \o w
    BY <1>2 DEF line
  <2> QED BY <2>1, <2>2, ConcatFacts DEF Text
<1> QED BY <1>1, <1>2 DEF text

\* What a value that is printed as one token of its own is in a line.
IsPrinted(v) == v \in Text /\ FreeOf(v, NL) /\ FreeOf(v, ":") /\ v = <<v[1]>>

LEMMA OneToken ==
  ASSUME NEW t \in Token, t \notin {NL, ":"}
  PROVE  IsPrinted(<<t>>)
<1> DEFINE v == <<t>>
<1>1. v \in Seq(Token) /\ Len(v) = 1 /\ v[1] = t /\ v = <<v[1]>>
  OBVIOUS
<1> HIDE DEF v
<1>2. IsPrinted(v)
  BY <1>1 DEF IsPrinted, FreeOf, Text
<1> QED BY <1>2 DEF v

LEMMA PrintFacts ==
  /\ \A n \in Numbers : IsPrinted(Decimal(n))
  /\ \A b \in Blobs : IsPrinted(Hex(b)) /\ IsPrinted(HexSha256(b))
  /\ \A b \in Configs : IsPrinted(HexSha256(b))
  /\ \A m, n \in Numbers : Decimal(m) = Decimal(n) => m = n
  /\ \A b, c \in Blobs : Hex(b) = Hex(c) => b = c
  /\ \A b, c \in Blobs : HexSha256(b) = HexSha256(c) => b = c
  /\ \A b, c \in Configs : HexSha256(b) = HexSha256(c) => b = c
<1>1. /\ \A n : Decimal(n) = <<Decimal(n)[1]>> /\ Hex(n) = <<Hex(n)[1]>>
      /\ \A n : HexSha256(n) = <<HexSha256(n)[1]>>
  BY DEF Decimal, Hex, HexSha256
<1> QED BY <1>1, PrintedAssumption, OneToken DEF Prints

\* Cleaned text stays clean.
LEMMA CleanFacts ==
  /\ \A v \in Text : CleanText(v) \in Text /\ CleanText(CleanText(v)) = CleanText(v)
  /\ \A v \in Text : ~Contains(v, Invalid) => CleanText(v) = v
<1> SUFFICES ASSUME NEW v \in Text
             PROVE  /\ CleanText(v) \in Text /\ CleanText(CleanText(v)) = CleanText(v)
                    /\ ~Contains(v, Invalid) => CleanText(v) = v
  OBVIOUS
<1>1. /\ DOMAIN v = 1 .. Len(v) /\ Len(v) \in Nat /\ v = [i \in DOMAIN v |-> v[i]]
      /\ \A i \in DOMAIN v : v[i] \in Token
  <2>1. v \in Seq(Token)
    BY DEF Text
  <2>2. DOMAIN v = 1 .. Len(v) /\ Len(v) \in Nat /\ \A i \in 1 .. Len(v) : v[i] \in Token
    BY <2>1
  <2>3. v = [i \in 1 .. Len(v) |-> v[i]]
    BY <2>1
  <2> QED BY <2>2, <2>3
<1>2. Replacement \in Token /\ Replacement # Invalid
  BY TokensAssumption DEF Replacement, Invalid
<1> DEFINE c == CleanText(v)
<1>3. /\ DOMAIN c = DOMAIN v /\ c = [i \in 1 .. Len(v) |-> c[i]]
      /\ \A i \in DOMAIN v : c[i] = (IF v[i] = Invalid THEN Replacement ELSE v[i])
  <2>1. c = [i \in DOMAIN v |-> IF v[i] = Invalid THEN Replacement ELSE v[i]]
    BY DEF CleanText
  <2>2. DOMAIN c = DOMAIN v /\ c = [i \in DOMAIN c |-> c[i]]
    BY <2>1
  <2>3. \A i \in DOMAIN v : c[i] = (IF v[i] = Invalid THEN Replacement ELSE v[i])
    BY <2>1
  <2> HIDE DEF c
  <2> QED BY <1>1, <2>2, <2>3
<1> HIDE DEF c
<1>4. \A i \in DOMAIN v : c[i] \in Token /\ c[i] # Invalid
  BY <1>1, <1>2, <1>3
<1>5. c \in Text
  <2>1. c \in [1 .. Len(v) -> Token]
    BY <1>1, <1>3, <1>4
  <2> QED BY <1>1, <2>1 DEF Text
<1>6. CleanText(c) = c
  <2>1. c = [i \in DOMAIN c |-> c[i]]
    BY <1>1, <1>3
  <2> QED BY <1>3, <1>4, <2>1 DEF CleanText
<1>7. ~Contains(v, Invalid) => CleanText(v) = v
  BY <1>1 DEF Contains, CleanText
<1> QED BY <1>5, <1>6, <1>7 DEF c

LEMMA CleanGrantFacts ==
  ASSUME NEW g \in GrantRecords
  PROVE  /\ CleanGrant(g) \in GrantRecords /\ CleanGrant(CleanGrant(g)) = CleanGrant(g)
         /\ (\A v \in GrantTexts(g) : ~Contains(v, Invalid)) => CleanGrant(g) = g
<1>1. g.grantee \in Text /\ g.granteeKey \in Text /\ g.grantedBy \in Text
  BY DEF GrantRecords
<1> DEFINE c == [g EXCEPT !.grantee = CleanText(g.grantee), !.granteeKey = CleanText(g.granteeKey),
                          !.grantedBy = CleanText(g.grantedBy)]
<1>2. CleanGrant(g) = c
  BY DEF CleanGrant
<1>3. /\ c \in GrantRecords
      /\ c.grantee = CleanText(g.grantee) /\ c.granteeKey = CleanText(g.granteeKey)
      /\ c.grantedBy = CleanText(g.grantedBy)
  <2> HIDE DEF CleanText
  <2> QED BY <1>1, CleanFacts DEF GrantRecords
<1> HIDE DEF c
<1>4. CleanGrant(c) = c
  <2>1. CleanGrant(c) = [c EXCEPT !.grantee = c.grantee, !.granteeKey = c.granteeKey,
                                  !.grantedBy = c.grantedBy]
    BY <1>1, <1>3, CleanFacts DEF CleanGrant
  <2> QED BY <1>3, <2>1 DEF GrantRecords
<1>5. ASSUME \A v \in GrantTexts(g) : ~Contains(v, Invalid) PROVE c = g
  <2>1. /\ CleanText(g.grantee) = g.grantee /\ CleanText(g.granteeKey) = g.granteeKey
        /\ CleanText(g.grantedBy) = g.grantedBy
    BY <1>1, <1>5, CleanFacts DEF GrantTexts
  <2> QED BY <2>1 DEF c, GrantRecords
<1> QED BY <1>2, <1>3, <1>4, <1>5

\* What a transaction's text is in: its text fields and its grants.
Worded(t) ==
  /\ t = [f \in DOMAIN t |-> t[f]]
  /\ \A f \in DOMAIN t \intersect TextFields : t[f] \in Text
  /\ "grants" \in DOMAIN t =>
       /\ t.grants = [i \in DOMAIN t.grants |-> t.grants[i]]
       /\ \A i \in DOMAIN t.grants : t.grants[i] \in GrantRecords

LEMMA SentFields ==
  ASSUME NEW t
  PROVE  /\ DOMAIN AsSent(t) = DOMAIN t
         /\ AsSent(t) = [f \in DOMAIN t |-> AsSent(t)[f]]
         /\ \A f \in DOMAIN t \intersect TextFields : AsSent(t)[f] = CleanText(t[f])
         /\ "grants" \in DOMAIN t =>
              AsSent(t).grants = [i \in DOMAIN t.grants |-> CleanGrant(t.grants[i])]
         /\ \A f \in DOMAIN t : f \notin TextFields /\ f # "grants" => AsSent(t)[f] = t[f]
<1> DEFINE e(f) == CASE f \in TextFields -> CleanText(t[f])
                     [] f = "grants" -> [i \in DOMAIN t.grants |-> CleanGrant(t.grants[i])]
                     [] OTHER -> t[f]
           s == [f \in DOMAIN t |-> e(f)]
<1>1. AsSent(t) = s
  BY DEF AsSent
<1>2. "grants" \notin TextFields
  BY DEF TextFields
<1>3. /\ \A f \in TextFields : e(f) = CleanText(t[f])
      /\ e("grants") = [i \in DOMAIN t.grants |-> CleanGrant(t.grants[i])]
      /\ \A f : f \notin TextFields /\ f # "grants" => e(f) = t[f]
  <2> HIDE DEF TextFields
  <2> QED BY <1>2
<1> HIDE DEF e
<1>4. DOMAIN s = DOMAIN t /\ s = [f \in DOMAIN t |-> s[f]] /\ \A f \in DOMAIN t : s[f] = e(f)
  OBVIOUS
<1> HIDE DEF s
<1> QED BY <1>1, <1>3, <1>4

\* JSON is read back as it was sent: what is sent changes only once, and not
\* at all where every byte is UTF-8.
LEMMA SentOnce ==
  ASSUME NEW t, Worded(t)
  PROVE  /\ AsSent(AsSent(t)) = AsSent(t)
         /\ /\ \A f \in DOMAIN t \intersect TextFields : ~Contains(t[f], Invalid)
            /\ "grants" \in DOMAIN t =>
                 \A i \in DOMAIN t.grants : \A v \in GrantTexts(t.grants[i]) : ~Contains(v, Invalid)
            => AsSent(t) = t
<1> DEFINE s == AsSent(t)
           r == AsSent(s)
<1>1. /\ DOMAIN s = DOMAIN t /\ s = [f \in DOMAIN t |-> s[f]]
      /\ \A f \in DOMAIN t \intersect TextFields : s[f] = CleanText(t[f])
      /\ "grants" \in DOMAIN t => s.grants = [i \in DOMAIN t.grants |-> CleanGrant(t.grants[i])]
      /\ \A f \in DOMAIN t : f \notin TextFields /\ f # "grants" => s[f] = t[f]
  BY SentFields
<1> HIDE DEF s
<1>2. /\ DOMAIN r = DOMAIN s /\ r = [f \in DOMAIN s |-> r[f]]
      /\ \A f \in DOMAIN s \intersect TextFields : r[f] = CleanText(s[f])
      /\ "grants" \in DOMAIN s => r.grants = [i \in DOMAIN s.grants |-> CleanGrant(s.grants[i])]
      /\ \A f \in DOMAIN s : f \notin TextFields /\ f # "grants" => r[f] = s[f]
  BY SentFields
<1> HIDE DEF r
<1>3. r = s
  <2>1. ASSUME NEW f \in DOMAIN t PROVE r[f] = s[f]
    <3>1. CASE f \in TextFields
      BY <1>1, <1>2, <3>1, CleanFacts DEF Worded
    <3>2. CASE f = "grants"
      <4> DEFINE h == t.grants
                 c == [i \in DOMAIN h |-> CleanGrant(h[i])]
      <4>1. s.grants = c /\ r.grants = [i \in DOMAIN c |-> CleanGrant(c[i])]
        BY <1>1, <1>2, <3>2
      <4>2. \A i \in DOMAIN h : CleanGrant(CleanGrant(h[i])) = CleanGrant(h[i])
        BY <3>2, CleanGrantFacts DEF Worded
      <4> HIDE DEF h
      <4>3. [i \in DOMAIN c |-> CleanGrant(c[i])] = c
        BY <4>2
      <4> QED BY <3>2, <4>1, <4>3
    <3>3. CASE f \notin TextFields /\ f # "grants"
      BY <1>1, <1>2, <3>3
    <3> QED BY <3>1, <3>2, <3>3
  <2> QED BY <1>1, <1>2, <2>1
<1>4. ASSUME /\ \A f \in DOMAIN t \intersect TextFields : ~Contains(t[f], Invalid)
             /\ "grants" \in DOMAIN t =>
                  \A i \in DOMAIN t.grants : \A v \in GrantTexts(t.grants[i]) : ~Contains(v, Invalid)
      PROVE  s = t
  <2>1. ASSUME NEW f \in DOMAIN t PROVE s[f] = t[f]
    <3>1. CASE f \in TextFields
      BY <1>1, <1>4, <3>1, CleanFacts DEF Worded
    <3>2. CASE f = "grants"
      <4> DEFINE h == t.grants
      <4>1. h = [i \in DOMAIN h |-> h[i]] /\ s.grants = [i \in DOMAIN h |-> CleanGrant(h[i])]
        BY <1>1, <3>2 DEF Worded
      <4>2. ASSUME NEW i \in DOMAIN h PROVE CleanGrant(h[i]) = h[i]
        <5>1. h[i] \in GrantRecords /\ \A v \in GrantTexts(h[i]) : ~Contains(v, Invalid)
          BY <1>4, <3>2 DEF Worded
        <5> QED BY <5>1, CleanGrantFacts
      <4> HIDE DEF h
      <4>3. s.grants = h
        BY <4>1, <4>2
      <4> QED BY <3>2, <4>3 DEF h
    <3>3. CASE f \notin TextFields /\ f # "grants"
      BY <1>1, <3>3
    <3> QED BY <3>1, <3>2, <3>3
  <2>2. t = [f \in DOMAIN t |-> t[f]]
    BY DEF Worded
  <2> QED BY <1>1, <2>1, <2>2
<1> QED BY <1>3, <1>4 DEF r, s

\* The forms a transaction has, and that what is sent has the same.
Forms == {DataStoreTx, ManifestTx, DeleteTx, UnregisterTx, GrantTx, RotateTx, RevokeTx}

LEMMA FormsAreWorded ==
  ASSUME NEW t, (\E T \in Forms : t \in T) \/ IsRegistration(t)
  PROVE  Worded(t)
<1>1. ASSUME t \in DataStoreTx PROVE Worded(t)
  BY <1>1 DEF DataStoreTx, Worded, TextFields
<1>2. ASSUME t \in ManifestTx PROVE Worded(t)
  BY <1>2 DEF ManifestTx, Worded, TextFields
<1>3. ASSUME t \in DeleteTx PROVE Worded(t)
  BY <1>3 DEF DeleteTx, Worded, TextFields
<1>4. ASSUME t \in UnregisterTx PROVE Worded(t)
  BY <1>4 DEF UnregisterTx, Worded, TextFields
<1>5. ASSUME t \in GrantTx PROVE Worded(t)
  BY <1>5 DEF GrantTx, Worded, TextFields
<1>6. ASSUME t \in RotateTx PROVE Worded(t)
  BY <1>6 DEF RotateTx, Worded, TextFields
<1>7. ASSUME t \in RevokeTx PROVE Worded(t)
  BY <1>7 DEF RevokeTx, Worded, TextFields
<1>8. ASSUME IsRegistration(t) PROVE Worded(t)
  <2>1. t = [kind |-> "RegisterSubgrove", json |-> t.json]
    BY <1>8 DEF IsRegistration
  <2> QED BY <2>1 DEF Worded, TextFields
<1> QED BY <1>1, <1>2, <1>3, <1>4, <1>5, <1>6, <1>7, <1>8 DEF Forms

LEMMA FormsAreKept ==
  ASSUME NEW t
  PROVE  /\ \A T \in Forms : t \in T => AsSent(t) \in T
         /\ t \in RotateTx => Len(AsSent(t).grants) = Len(t.grants)
         /\ IsRegistration(t) => AsSent(t) = t
<1> DEFINE s == AsSent(t)
<1>1. /\ DOMAIN s = DOMAIN t /\ s = [f \in DOMAIN t |-> s[f]]
      /\ \A f \in DOMAIN t \intersect TextFields : s[f] = CleanText(t[f])
      /\ "grants" \in DOMAIN t => s.grants = [i \in DOMAIN t.grants |-> CleanGrant(t.grants[i])]
      /\ \A f \in DOMAIN t : f \notin TextFields /\ f # "grants" => s[f] = t[f]
  BY SentFields
<1>2. \A v \in Text : CleanText(v) \in Text
  BY CleanFacts
<1>3. \A g \in GrantRecords : CleanGrant(g) \in GrantRecords
  BY CleanGrantFacts
<1> HIDE DEF s
<1>4. ASSUME t \in DataStoreTx PROVE s \in DataStoreTx
  BY <1>1, <1>2, <1>4 DEF DataStoreTx, TextFields
<1>5. ASSUME t \in ManifestTx PROVE s \in ManifestTx
  BY <1>1, <1>2, <1>5 DEF ManifestTx, TextFields
<1>6. ASSUME t \in DeleteTx PROVE s \in DeleteTx
  BY <1>1, <1>2, <1>6 DEF DeleteTx, TextFields
<1>7. ASSUME t \in UnregisterTx PROVE s \in UnregisterTx
  BY <1>1, <1>2, <1>7 DEF UnregisterTx, TextFields
<1>8. ASSUME t \in GrantTx PROVE s \in GrantTx
  <2>1. s.grants \in [1 .. 1 -> GrantRecords]
    <3>1. t.grants \in [1 .. 1 -> GrantRecords] /\ "grants" \in DOMAIN t
      BY <1>8 DEF GrantTx
    <3> QED BY <1>1, <1>3, <3>1
  <2> QED BY <1>1, <1>2, <1>8, <2>1 DEF GrantTx, TextFields
<1>9. ASSUME t \in RotateTx PROVE s \in RotateTx /\ Len(s.grants) = Len(t.grants)
  <2> DEFINE n == Len(t.grants)
             e == s.grants
             h == t.grants
  <2>1. h \in Seq(GrantRecords) /\ "grants" \in DOMAIN t
    BY <1>9 DEF RotateTx
  <2>2. e = [i \in DOMAIN h |-> CleanGrant(h[i])]
    BY <1>1, <2>1
  <2>3. /\ n \in Nat /\ DOMAIN h = 1 .. n /\ \A i \in 1 .. n : h[i] \in GrantRecords
    BY <2>1, LenProperties, ElementOfSeq
  <2> HIDE DEF e, h, n
  <2>4. e \in [1 .. n -> GrantRecords]
    BY <1>3, <2>2, <2>3
  <2>5. e \in Seq(GrantRecords) /\ Len(e) = n
    BY <2>3, <2>4
  <2> QED BY <1>1, <1>2, <1>9, <2>5 DEF RotateTx, TextFields, e, n, h
<1>10. ASSUME t \in RevokeTx PROVE s \in RevokeTx
  BY <1>1, <1>2, <1>10 DEF RevokeTx, TextFields
<1>11. ASSUME IsRegistration(t) PROVE s = t
  <2>1. t = [kind |-> "RegisterSubgrove", json |-> t.json]
    BY <1>11 DEF IsRegistration
  <2>2. DOMAIN t = {"kind", "json"} /\ t = [f \in DOMAIN t |-> t[f]]
    BY <2>1
  <2>3. \A f \in DOMAIN t : s[f] = t[f]
    BY <1>1, <2>2 DEF TextFields
  <2> QED BY <1>1, <2>2, <2>3
<1> QED BY <1>4, <1>5, <1>6, <1>7, <1>8, <1>9, <1>10, <1>11 DEF Forms, s

-----------------------------------------------------------------------------
(* The pieces a message is joined from. *)

SepOf(t) == IF t.kind = "RevokeSubgroveKey" THEN ":" ELSE NL
Pieces(t) ==
  IF t.kind = "RevokeSubgroveKey"
    THEN <<<<t.kind>>, t.subgrove, t.revokee, t.sender, Decimal(t.nonce)>>
    ELSE <<<<t.kind>>>> \o Lines(t)

LEMMA TextIsJoined == \A t : MessageText(t) = JoinedBy(SepOf(t), Pieces(t))
BY DEF MessageText, RevokeText, SepOf, Pieces

\* What the builders look at for breaks.
Unbroken(t) == \A v \in TextsOf(t) : ~BadText(v)

LEMMA TextsAre ==
  /\ \A t : t.kind \notin {"RegisterSubgrove", "RevokeSubgroveKey"} =>
       \A f \in DOMAIN t \intersect TextFields : t[f] \in TextsOf(t)
  /\ \A t : t.kind \in {"GrantSubgroveKey", "RotateSubgroveKey"} =>
       \A i \in DOMAIN t.grants : GrantTexts(t.grants[i]) \subseteq TextsOf(t)
  /\ \A t : t.kind = "RegisterSubgrove" =>
       TokensAt(t.json, "subgrove_id") \in TextsOf(t) /\ TokensAt(t.json, "owner_did") \in TextsOf(t)
BY DEF TextsOf

\* A line, which holds no line break when no text of t does.
IsLine(t, l) == l \in Text /\ (Unbroken(t) => FreeOf(l, NL))

LEMMA PrintedLine ==
  ASSUME NEW t, NEW label \in Labels, NEW v, IsPrinted(v)
  PROVE  IsLine(t, line(label, v)) /\ line(label, v)[1] = label
<1>1. label \in Token /\ label # NL
  BY TokensAssumption DEF Labels, NL
<1> QED BY <1>1, LineFacts DEF IsPrinted, IsLine

LEMMA TextLine ==
  ASSUME NEW t, NEW label \in Labels, NEW v \in Text, v \in TextsOf(t)
  PROVE  IsLine(t, text(label, v)) /\ text(label, v)[1] = label
<1>1. label \in Token /\ label # NL
  BY TokensAssumption DEF Labels, NL
<1>2. Unbroken(t) => FreeOf(v, NL)
  BY DEF Unbroken, BadText, Contains, FreeOf
<1> QED BY <1>1, <1>2, LineFacts DEF IsLine

\* n lines.
Lined(t, lines, n) ==
  /\ lines \in Seq(Text) /\ Len(lines) = n
  /\ Unbroken(t) => \A i \in 1 .. n : FreeOf(lines[i], NL)

LEMMA DataStoreLined == \A t \in DataStoreTx : Lined(t, DataStoreLines(t), 5)
<1> TAKE t \in DataStoreTx
<1>0. {"Subgrove: ", "Key: ", "Owner: ", "DataHash: ", "Nonce: "} \subseteq Labels
  BY DEF Labels
<1>1. /\ t.subgrove \in Text /\ t.key \in Text /\ t.owner \in Text
      /\ t.data \in Blobs /\ t.nonce \in Numbers
      /\ t.kind = "StoreData" /\ {"subgrove", "key", "owner"} \subseteq DOMAIN t \intersect TextFields
  BY DEF DataStoreTx, TextFields
<1>2. {t.subgrove, t.key, t.owner} \subseteq TextsOf(t)
  BY <1>1, TextsAre
<1> DEFINE a == text("Subgrove: ", t.subgrove)
           b == text("Key: ", t.key)
           c == text("Owner: ", t.owner)
           d == line("DataHash: ", HexSha256(t.data))
           e == line("Nonce: ", Decimal(t.nonce))
<1>3. IsLine(t, a)
  BY <1>1, <1>2, <1>0, TextLine
<1>4. IsLine(t, b)
  BY <1>1, <1>2, <1>0, TextLine
<1>5. IsLine(t, c)
  BY <1>1, <1>2, <1>0, TextLine
<1>6. IsLine(t, d)
  BY <1>1, <1>0, PrintFacts, PrintedLine
<1>7. IsLine(t, e)
  BY <1>1, <1>0, PrintFacts, PrintedLine
<1>8. DataStoreLines(t) = <<a, b, c, d, e>>
  BY DEF DataStoreLines
<1> HIDE DEF a, b, c, d, e
<1> QED BY <1>3, <1>4, <1>5, <1>6, <1>7, <1>8 DEF Lined, IsLine

LEMMA DeleteLined == \A t \in DeleteTx : Lined(t, DeleteLines(t), 4)
<1> TAKE t \in DeleteTx
<1>0. {"Subgrove: ", "Key: ", "Owner: ", "Nonce: "} \subseteq Labels
  BY DEF Labels
<1>1. /\ t.subgrove \in Text /\ t.key \in Text /\ t.owner \in Text
      /\ t.nonce \in Numbers
      /\ t.kind = "DeleteFileManifest" /\ {"subgrove", "key", "owner"} \subseteq DOMAIN t \intersect TextFields
  BY DEF DeleteTx, TextFields
<1>2. {t.subgrove, t.key, t.owner} \subseteq TextsOf(t)
  BY <1>1, TextsAre
<1> DEFINE a == text("Subgrove: ", t.subgrove)
           b == text("Key: ", t.key)
           c == text("Owner: ", t.owner)
           d == line("Nonce: ", Decimal(t.nonce))
<1>3. IsLine(t, a)
  BY <1>1, <1>2, <1>0, TextLine
<1>4. IsLine(t, b)
  BY <1>1, <1>2, <1>0, TextLine
<1>5. IsLine(t, c)
  BY <1>1, <1>2, <1>0, TextLine
<1>6. IsLine(t, d)
  BY <1>1, <1>0, PrintFacts, PrintedLine
<1>7. DeleteLines(t) = <<a, b, c, d>>
  BY DEF DeleteLines
<1> HIDE DEF a, b, c, d
<1> QED BY <1>3, <1>4, <1>5, <1>6, <1>7 DEF Lined, IsLine

LEMMA UnregisterLined == \A t \in UnregisterTx : Lined(t, UnregisterLines(t), 2)
<1> TAKE t \in UnregisterTx
<1>0. {"Node: ", "Nonce: "} \subseteq Labels
  BY DEF Labels
<1>1. /\ t.node \in Text
      /\ t.nonce \in Numbers
      /\ t.kind = "UnregisterStorageNode" /\ {"node"} \subseteq DOMAIN t \intersect TextFields
  BY DEF UnregisterTx, TextFields
<1>2. {t.node} \subseteq TextsOf(t)
  BY <1>1, TextsAre
<1> DEFINE a == text("Node: ", t.node)
           b == line("Nonce: ", Decimal(t.nonce))
<1>3. IsLine(t, a)
  BY <1>1, <1>2, <1>0, TextLine
<1>4. IsLine(t, b)
  BY <1>1, <1>0, PrintFacts, PrintedLine
<1>5. UnregisterLines(t) = <<a, b>>
  BY DEF UnregisterLines
<1> HIDE DEF a, b
<1> QED BY <1>3, <1>4, <1>5 DEF Lined, IsLine

LEMMA RegisterLined ==
  ASSUME NEW t \in Txs, IsRegistration(t)
  PROVE  Lined(t, RegisterLines(t.json), 4)
<1> DEFINE id == TokensAt(t.json, "subgrove_id")
           owner == TokensAt(t.json, "owner_did")
           b == registerSubgrove(t.json)
           n == At(t.json, "nonce")[2]
<1>0. {"Subgrove: ", "Owner: ", "Config: ", "Nonce: "} \subseteq Labels
  BY DEF Labels
<1>1. id \in Text /\ owner \in Text /\ n \in Numbers /\ t.kind = "RegisterSubgrove"
  BY DEF IsRegistration, TokensAt, Tokens
<1>2. {id, owner} \subseteq TextsOf(t)
  BY <1>1, TextsAre
<1>3. b \in Configs
  BY <1>1 DEF Configs, Registrations
<1> HIDE DEF id, owner, b, n
<1> DEFINE k == text("Subgrove: ", id)
           l == text("Owner: ", owner)
           c == line("Config: ", HexSha256(b))
           d == line("Nonce: ", Decimal(n))
<1>4. IsLine(t, k)
  BY <1>1, <1>2, <1>0, TextLine
<1>5. IsLine(t, l)
  BY <1>1, <1>2, <1>0, TextLine
<1>6. IsLine(t, c)
  BY <1>3, <1>0, PrintFacts, PrintedLine
<1>7. IsLine(t, d)
  BY <1>1, <1>0, PrintFacts, PrintedLine
<1>8. RegisterLines(t.json) = <<k, l, c, d>>
  BY DEF RegisterLines, id, owner, b, n
<1> HIDE DEF k, l, c, d
<1> QED BY <1>4, <1>5, <1>6, <1>7, <1>8 DEF Lined, IsLine
LEMMA EncryptionFacts ==
  /\ \A e \in {<<>>} \union (Numbers \X Blobs) :
       EncryptionLine(e) \in Text /\ FreeOf(EncryptionLine(e), NL)
  /\ \A e, d \in {<<>>} \union (Numbers \X Blobs) : EncryptionLine(e) = EncryptionLine(d) => e = d
<1> DEFINE E == {<<>>} \union (Numbers \X Blobs)
<1>1. \A n \in Numbers : Decimal(n)[1] \in Token /\ Decimal(n)[1] # NL /\ Decimal(n) = <<Decimal(n)[1]>>
  BY PrintedAssumption DEF Prints, Decimal
<1>2. \A b \in Blobs : Hex(b)[1] \in Token /\ Hex(b)[1] # NL /\ Hex(b) = <<Hex(b)[1]>>
  BY PrintedAssumption DEF Prints, Hex
<1>3. "none" \in Token /\ ":" \in Token /\ "none" # NL /\ ":" # NL
  BY TokensAssumption DEF NL
<1>4. \A e \in E : e = <<>> \/ (e = <<e[1], e[2]>> /\ e[1] \in Numbers /\ e[2] \in Blobs)
  OBVIOUS
<1>5. ASSUME NEW e \in E PROVE EncryptionLine(e) \in Text /\ FreeOf(EncryptionLine(e), NL)
  <2>1. CASE e = <<>>
    <3>1. EncryptionLine(e) = <<"none">>
      BY <2>1 DEF EncryptionLine
    <3> QED BY <1>3, <3>1 DEF Text, FreeOf
  <2>2. CASE e # <<>>
    <3> DEFINE a == Decimal(e[1])[1]
               b == Hex(e[2])[1]
    <3>1. EncryptionLine(e) = <<a, ":", b>>
      BY <2>2 DEF EncryptionLine
    <3>2. a \in Token /\ b \in Token /\ a # NL /\ b # NL
      BY <1>1, <1>2, <1>4, <2>2
    <3> HIDE DEF a, b
    <3> QED BY <1>3, <3>1, <3>2 DEF Text, FreeOf
  <2> QED BY <2>1, <2>2
<1>6. ASSUME NEW e \in E, NEW d \in E, EncryptionLine(e) = EncryptionLine(d) PROVE e = d
  <2> DEFINE a(x) == Decimal(x[1])[1]
             b(x) == Hex(x[2])[1]
  <2>1. \A x \in E : EncryptionLine(x) = IF x = <<>> THEN <<"none">> ELSE <<a(x), ":", b(x)>>
    BY DEF EncryptionLine
  <2> HIDE DEF a, b
  <2>2. Len(<<"none">>) = 1 /\ \A x, y, z : Len(<<x, y, z>>) = 3
    OBVIOUS
  <2>3. CASE e = <<>> \/ d = <<>>
    BY <1>6, <2>1, <2>2, <2>3
  <2>4. CASE e # <<>> /\ d # <<>>
    <3>1. a(e) = a(d) /\ b(e) = b(d)
      BY <1>6, <2>1, <2>4
    <3>2. Decimal(e[1]) = Decimal(d[1]) /\ Hex(e[2]) = Hex(d[2])
      BY <1>1, <1>2, <1>4, <2>4, <3>1 DEF a, b
    <3>3. e[1] = d[1] /\ e[2] = d[2]
      BY <1>4, <2>4, <3>2, PrintFacts
    <3> QED BY <1>4, <2>4, <3>3
  <2> QED BY <2>3, <2>4
<1> QED BY <1>5, <1>6

LEMMA ManifestLined == \A t \in ManifestTx : Lined(t, ManifestLines(t), 12)
<1> TAKE t \in ManifestTx
<1>0. {"Subgrove: ", "Key: ", "Owner: ", "Filename: ", "ContentType: ", "TotalSize: ",
       "ContentHash: ", "ChunkCount: ", "ChunkSize: ", "ChunkMerkleRoot: ", "Encryption: ", "Nonce: "} \subseteq Labels
  BY DEF Labels
<1>1. /\ t.subgrove \in Text /\ t.key \in Text /\ t.owner \in Text /\ t.filename \in Text /\ t.contentType \in Text
      /\ t.totalSize \in Numbers /\ t.chunkCount \in Numbers /\ t.chunkSize \in Numbers /\ t.nonce \in Numbers /\ t.contentHash \in Blobs /\ t.merkleRoot \in Blobs /\ t.encryption \in {<<>>} \union (Numbers \X Blobs)
      /\ t.kind = "StoreFileManifest" /\ {"subgrove", "key", "owner", "filename", "contentType"} \subseteq DOMAIN t \intersect TextFields
  BY DEF ManifestTx, TextFields
<1>2. {t.subgrove, t.key, t.owner, t.filename, t.contentType} \subseteq TextsOf(t)
  BY <1>1, TextsAre
<1> DEFINE a == text("Subgrove: ", t.subgrove)
           b == text("Key: ", t.key)
           c == text("Owner: ", t.owner)
           d == text("Filename: ", t.filename)
           e == text("ContentType: ", t.contentType)
           f == line("TotalSize: ", Decimal(t.totalSize))
           g == line("ContentHash: ", Hex(t.contentHash))
           h == line("ChunkCount: ", Decimal(t.chunkCount))
           i == line("ChunkSize: ", Decimal(t.chunkSize))
           j == line("ChunkMerkleRoot: ", Hex(t.merkleRoot))
           k == line("Encryption: ", EncryptionLine(t.encryption))
           l == line("Nonce: ", Decimal(t.nonce))
<1>3. IsLine(t, a)
  BY <1>1, <1>2, <1>0, TextLine
<1>4. IsLine(t, b)
  BY <1>1, <1>2, <1>0, TextLine
<1>5. IsLine(t, c)
  BY <1>1, <1>2, <1>0, TextLine
<1>6. IsLine(t, d)
  BY <1>1, <1>2, <1>0, TextLine
<1>7. IsLine(t, e)
  BY <1>1, <1>2, <1>0, TextLine
<1>8. IsLine(t, f)
  BY <1>1, <1>0, PrintFacts, PrintedLine
<1>9. IsLine(t, g)
  BY <1>1, <1>0, PrintFacts, PrintedLine
<1>10. IsLine(t, h)
  BY <1>1, <1>0, PrintFacts, PrintedLine
<1>11. IsLine(t, i)
  BY <1>1, <1>0, PrintFacts, PrintedLine
<1>12. IsLine(t, j)
  BY <1>1, <1>0, PrintFacts, PrintedLine
<1>13. IsLine(t, k)
  BY <1>1, <1>0, EncryptionFacts, LineFacts, TokensAssumption DEF IsLine, NL
<1>14. IsLine(t, l)
  BY <1>1, <1>0, PrintFacts, PrintedLine
<1>15. ManifestLines(t) = <<a, b, c, d, e, f, g, h, i, j, k, l>>
  BY DEF ManifestLines
<1> HIDE DEF a, b, c, d, e, f, g, h, i, j, k, l
<1> QED BY <1>3, <1>4, <1>5, <1>6, <1>7, <1>8, <1>9, <1>10, <1>11, <1>12, <1>13, <1>14, <1>15 DEF Lined, IsLine

\* z is x, of m lines, and then the n lines of y.
Glued(z, x, m, y, n) == \A i \in 1 .. m + n : z[i] = IF i <= m THEN x[i] ELSE y[i - m]

LEMMA ConcatLined ==
  ASSUME NEW t, NEW x, NEW y, NEW m \in Nat, NEW n \in Nat, Lined(t, x, m), Lined(t, y, n)
  PROVE  Lined(t, x \o y, m + n) /\ Glued(x \o y, x, m, y, n)
<1>1. x \in Seq(Text) /\ y \in Seq(Text) /\ Len(x) = m /\ Len(y) = n
  BY DEF Lined
<1>2. /\ x \o y \in Seq(Text) /\ Len(x \o y) = m + n
      /\ \A i \in 1 .. m + n : (x \o y)[i] = IF i <= m THEN x[i] ELSE y[i - m]
  BY <1>1, ConcatProperties
<1> DEFINE z == x \o y
<1> HIDE DEF z
<1>3. ASSUME Unbroken(t), NEW i \in 1 .. m + n PROVE FreeOf(z[i], NL)
  <2>1. CASE i <= m
    <3>1. i \in 1 .. m /\ z[i] = x[i]
      BY <1>2, <2>1 DEF z
    <3> QED BY <1>3, <3>1 DEF Lined
  <2>2. CASE i > m
    <3>1. i - m \in 1 .. n /\ z[i] = y[i - m]
      BY <1>2, <2>2 DEF z
    <3> QED BY <1>3, <3>1 DEF Lined
  <2> QED BY <2>1, <2>2
<1> QED BY <1>2, <1>3 DEF Lined, Glued, z

\* A line that says how many grants follow.
Counts(l) == l[1] = "Grants: "

LEMMA KeyGrantLined ==
  ASSUME NEW t, NEW g \in GrantRecords, GrantTexts(g) \subseteq TextsOf(t)
  PROVE  Lined(t, grant(g), 7) /\ \A i \in 1 .. 7 : ~Counts(grant(g)[i])
<1>0. {"Grantee: ", "GranteeKey: ", "KeyEpoch: ",
       "EphemeralKey: ", "EncryptedKey: ", "GrantedBy: ", "GrantedAt: "} \subseteq Labels
  BY DEF Labels
<1>1. /\ g.grantee \in Text /\ g.granteeKey \in Text /\ g.grantedBy \in Text
      /\ g.epoch \in Numbers /\ g.grantedAt \in Numbers /\ g.ephemeral \in Blobs /\ g.encrypted \in Blobs
  BY DEF GrantRecords
<1>2. g.grantee \in TextsOf(t) /\ g.granteeKey \in TextsOf(t) /\ g.grantedBy \in TextsOf(t)
  BY DEF GrantTexts
<1> DEFINE a == text("Grantee: ", g.grantee)
           b == text("GranteeKey: ", g.granteeKey)
           c == line("KeyEpoch: ", Decimal(g.epoch))
           d == line("EphemeralKey: ", Hex(g.ephemeral))
           e == line("EncryptedKey: ", Hex(g.encrypted))
           f == text("GrantedBy: ", g.grantedBy)
           h == line("GrantedAt: ", Decimal(g.grantedAt))
<1>3. IsLine(t, a) /\ a[1] = "Grantee: "
  BY <1>1, <1>2, <1>0, TextLine
<1>4. IsLine(t, b) /\ b[1] = "GranteeKey: "
  BY <1>1, <1>2, <1>0, TextLine
<1>5. IsLine(t, c) /\ c[1] = "KeyEpoch: "
  BY <1>1, <1>0, PrintFacts, PrintedLine
<1>6. IsLine(t, d) /\ d[1] = "EphemeralKey: "
  BY <1>1, <1>0, PrintFacts, PrintedLine
<1>7. IsLine(t, e) /\ e[1] = "EncryptedKey: "
  BY <1>1, <1>0, PrintFacts, PrintedLine
<1>8. IsLine(t, f) /\ f[1] = "GrantedBy: "
  BY <1>1, <1>2, <1>0, TextLine
<1>9. IsLine(t, h) /\ h[1] = "GrantedAt: "
  BY <1>1, <1>0, PrintFacts, PrintedLine
<1>10. grant(g) = <<a, b, c, d, e, f, h>>
  BY DEF grant
<1> HIDE DEF a, b, c, d, e, f, h
<1>11. Lined(t, grant(g), 7)
  <2>1. /\ IsLine(t, a) /\ IsLine(t, b) /\ IsLine(t, c) /\ IsLine(t, d)
        /\ IsLine(t, e) /\ IsLine(t, f) /\ IsLine(t, h)
    BY <1>3, <1>4, <1>5, <1>6, <1>7, <1>8, <1>9
  <2> QED BY <1>10, <2>1 DEF Lined, IsLine
<1>12. ASSUME NEW i \in 1 .. 7 PROVE ~Counts(grant(g)[i])
  <2>1. grant(g)[i] \in {a, b, c, d, e, f, h}
    BY <1>10
  <2> QED BY <1>3, <1>4, <1>5, <1>6, <1>7, <1>8, <1>9, <2>1 DEF Counts
<1> QED BY <1>11, <1>12
LEMMA GrantLined == \A t \in GrantTx : Lined(t, GrantLines(t), 10)
<1> TAKE t \in GrantTx
<1>0. {"Subgrove: ", "Sender: ", "Nonce: "} \subseteq Labels
  BY DEF Labels
<1>1. /\ t.subgrove \in Text /\ t.sender \in Text /\ t.nonce \in Numbers
      /\ t.kind = "GrantSubgroveKey" /\ {"subgrove", "sender"} \subseteq DOMAIN t \intersect TextFields
      /\ t.grants[1] \in GrantRecords /\ 1 \in DOMAIN t.grants
  BY DEF GrantTx, TextFields
<1>2. /\ {t.subgrove, t.sender} \subseteq TextsOf(t)
      /\ GrantTexts(t.grants[1]) \subseteq TextsOf(t)
  BY <1>1, TextsAre
<1> DEFINE a == text("Subgrove: ", t.subgrove)
           b == text("Sender: ", t.sender)
           c == grant(t.grants[1])
           d == line("Nonce: ", Decimal(t.nonce))
<1>3. IsLine(t, a)
  BY <1>0, <1>1, <1>2, TextLine
<1>4. IsLine(t, b)
  BY <1>0, <1>1, <1>2, TextLine
<1>5. Lined(t, c, 7)
  BY <1>1, <1>2, KeyGrantLined
<1>6. IsLine(t, d)
  BY <1>0, <1>1, PrintFacts, PrintedLine
<1>7. GrantLines(t) = (<<a, b>> \o c) \o <<d>>
  BY DEF GrantLines
<1> HIDE DEF a, b, c, d
<1>8. Lined(t, <<a, b>>, 2) /\ Lined(t, <<d>>, 1)
  BY <1>3, <1>4, <1>6 DEF Lined, IsLine
<1>9. Lined(t, <<a, b>> \o c, 9)
  <2>1. Lined(t, <<a, b>> \o c, 2 + 7)
    BY <1>5, <1>8, ConcatLined
  <2> QED BY <2>1
<1>10. Lined(t, (<<a, b>> \o c) \o <<d>>, 9 + 1)
  BY <1>8, <1>9, ConcatLined
<1> QED BY <1>7, <1>10

\* The grants' lines of a rotation.
GrantsOf(t) ==
  [i \in 1 .. 7 * Len(t.grants) |-> grant(t.grants[(i - 1) \div 7 + 1])[((i - 1) % 7) + 1]]

LEMMA Sevens ==
  ASSUME NEW n \in Nat
  PROVE  /\ \A i \in 1 .. 7 * n : (i - 1) \div 7 + 1 \in 1 .. n /\ ((i - 1) % 7) + 1 \in 1 .. 7
         /\ \A j \in 1 .. n : \A k \in 1 .. 7 :
              /\ 7 * (j - 1) + k \in 1 .. 7 * n
              /\ (7 * (j - 1) + k - 1) \div 7 + 1 = j
              /\ ((7 * (j - 1) + k - 1) % 7) + 1 = k
OBVIOUS

LEMMA GrantsLined ==
  ASSUME NEW t \in RotateTx
  PROVE  /\ Len(t.grants) \in Nat
         /\ Lined(t, GrantsOf(t), 7 * Len(t.grants))
         /\ \A i \in 1 .. 7 * Len(t.grants) : ~Counts(GrantsOf(t)[i])
<1> DEFINE n == Len(t.grants)
           G == GrantsOf(t)
           N == 7 * n
<1>1. /\ t.grants \in Seq(GrantRecords) /\ t.kind = "RotateSubgroveKey"
  BY DEF RotateTx
<1>2. n \in Nat /\ DOMAIN t.grants = 1 .. n /\ \A j \in 1 .. n : t.grants[j] \in GrantRecords
  BY <1>1, LenProperties, ElementOfSeq
<1>3. \A j \in 1 .. n : GrantTexts(t.grants[j]) \subseteq TextsOf(t)
  BY <1>1, <1>2, TextsAre
<1>4. \A j \in 1 .. n : /\ Lined(t, grant(t.grants[j]), 7)
                       /\ \A k \in 1 .. 7 : ~Counts(grant(t.grants[j])[k])
  BY <1>2, <1>3, KeyGrantLined
<1>5. G = [i \in 1 .. N |-> G[i]] /\ N \in Nat
  BY <1>2 DEF GrantsOf
<1>6. ASSUME NEW i \in 1 .. N
      PROVE  G[i] \in Text /\ (Unbroken(t) => FreeOf(G[i], NL)) /\ ~Counts(G[i])
  <2> DEFINE j == (i - 1) \div 7 + 1
             k == ((i - 1) % 7) + 1
             l == grant(t.grants[j])
  <2>1. j \in 1 .. n /\ k \in 1 .. 7
    BY <1>2, Sevens
  <2>2. G[i] = l[k]
    BY DEF GrantsOf
  <2> HIDE DEF j, k
  <2>3. Lined(t, l, 7) /\ ~Counts(l[k])
    BY <1>4, <2>1
  <2> HIDE DEF l
  <2>4. l[k] \in Text
    BY <2>1, <2>3, ElementOfSeq DEF Lined
  <2>5. Unbroken(t) => FreeOf(l[k], NL)
    BY <2>1, <2>3 DEF Lined
  <2> QED BY <2>2, <2>3, <2>4, <2>5
<1> HIDE DEF G, N
<1>7. G \in Seq(Text) /\ Len(G) = N
  <2>1. G \in [1 .. N -> Text]
    BY <1>5, <1>6
  <2> QED BY <1>5, <2>1
<1>8. Lined(t, G, N)
  BY <1>6, <1>7 DEF Lined
<1> QED BY <1>2, <1>6, <1>8 DEF G, N

\* A rotation's lines: the grants are counted before they are listed, and
\* nowhere else.
LEMMA RotateLined ==
  ASSUME NEW t \in RotateTx, Len(t.grants) \in Numbers
  PROVE  LET n == Len(t.grants)
             L == RotateLines(t)
         IN  /\ n \in Nat /\ Lined(t, L, 7 * n + 5)
             /\ L[4] = line("Grants: ", Decimal(n))
             /\ \A i \in 1 .. 7 * n + 5 : Counts(L[i]) => i = 4
             /\ L[1] = text("Subgrove: ", t.subgrove) /\ L[2] = text("Sender: ", t.sender)
             /\ L[3] = line("NewEpoch: ", Decimal(t.newEpoch))
             /\ \A i \in 1 .. 7 * n : L[i + 4] = GrantsOf(t)[i]
             /\ L[7 * n + 5] = line("Nonce: ", Decimal(t.nonce))
<1> DEFINE n == Len(t.grants)
           N == 7 * n
           G == GrantsOf(t)
<1>0. {"Subgrove: ", "Sender: ", "NewEpoch: ", "Grants: ", "Nonce: "} \subseteq Labels
  BY DEF Labels
<1>1. /\ t.subgrove \in Text /\ t.sender \in Text /\ t.nonce \in Numbers /\ t.newEpoch \in Numbers
      /\ t.kind = "RotateSubgroveKey" /\ {"subgrove", "sender"} \subseteq DOMAIN t \intersect TextFields
  BY DEF RotateTx, TextFields
<1>2. {t.subgrove, t.sender} \subseteq TextsOf(t)
  BY <1>1, TextsAre
<1>3. /\ n \in Nat /\ N \in Nat /\ Lined(t, G, N)
      /\ \A i \in 1 .. N : ~Counts(G[i])
  BY GrantsLined
<1> DEFINE a == text("Subgrove: ", t.subgrove)
           b == text("Sender: ", t.sender)
           c == line("NewEpoch: ", Decimal(t.newEpoch))
           d == line("Grants: ", Decimal(n))
           e == line("Nonce: ", Decimal(t.nonce))
<1>4. IsLine(t, a) /\ ~Counts(a)
  <2>1. IsLine(t, a) /\ a[1] = "Subgrove: "
    BY ZenonT(60), <1>0, <1>1, <1>2, TextLine
  <2> QED BY <2>1 DEF Counts
<1>5. IsLine(t, b) /\ ~Counts(b)
  <2>1. IsLine(t, b) /\ b[1] = "Sender: "
    BY ZenonT(60), <1>0, <1>1, <1>2, TextLine
  <2> QED BY <2>1 DEF Counts
<1>6. IsLine(t, c) /\ ~Counts(c)
  BY <1>0, <1>1, PrintFacts, PrintedLine DEF Counts
<1>7. IsLine(t, d)
  BY <1>0, PrintFacts, PrintedLine
<1>8. IsLine(t, e) /\ ~Counts(e)
  BY <1>0, <1>1, PrintFacts, PrintedLine DEF Counts
<1> DEFINE L == RotateLines(t)
           H == <<a, b, c, d>>
<1>9. L = (H \o G) \o <<e>>
  BY DEF RotateLines, GrantsOf
<1> HIDE DEF a, b, c, d, e, G, N, L
<1>10. /\ IsLine(t, a) /\ IsLine(t, b) /\ IsLine(t, c) /\ IsLine(t, e)
  BY <1>4, <1>5, <1>6, <1>8
<1>11. Lined(t, H, 4) /\ Lined(t, <<e>>, 1)
  BY <1>7, <1>10 DEF Lined, IsLine
<1>12. H[1] = a /\ H[2] = b /\ H[3] = c /\ H[4] = d /\ <<e>>[1] = e
  OBVIOUS
<1> HIDE DEF H
<1> DEFINE P == H \o G
<1>13. Lined(t, P, 4 + N) /\ Glued(P, H, 4, G, N)
  BY <1>3, <1>11, ConcatLined
<1> HIDE DEF P
<1>14. Lined(t, L, 4 + N + 1) /\ Glued(L, P, 4 + N, <<e>>, 1)
  <2>1. L = P \o <<e>> /\ 4 + N \in Nat
    BY <1>3, <1>9 DEF P
  <2> QED BY <1>11, <1>13, <2>1, ConcatLined
<1>15. /\ L[1] = a /\ L[2] = b /\ L[3] = c /\ L[4] = d
       /\ \A i \in 1 .. N : L[i + 4] = G[i]
       /\ L[N + 5] = e
  <2>1. \A i \in 1 .. 4 : i <= 4 /\ i \in 1 .. 4 + N /\ i \in 1 .. 4 + N + 1 /\ i <= 4 + N
    BY <1>3
  <2>2. \A i \in 1 .. 4 : L[i] = H[i]
    BY <1>13, <1>14, <2>1 DEF Glued
  <2>3. ASSUME NEW i \in 1 .. N PROVE L[i + 4] = G[i]
    <3>1. i + 4 \in 1 .. 4 + N /\ i + 4 \in 1 .. 4 + N + 1 /\ i + 4 <= 4 + N /\ ~(i + 4 <= 4) /\ i + 4 - 4 = i
      BY <1>3
    <3> QED BY <1>13, <1>14, <3>1 DEF Glued
  <2>4. N + 5 \in 1 .. 4 + N + 1 /\ ~(N + 5 <= 4 + N) /\ N + 5 - (4 + N) = 1
    BY <1>3
  <2>5. L[N + 5] = <<e>>[1]
    <3>1. \A i \in 1 .. 4 + N + 1 : L[i] = IF i <= 4 + N THEN P[i] ELSE <<e>>[i - (4 + N)]
      BY <1>14 DEF Glued
    <3> DEFINE k == N + 5
    <3>2. k \in 1 .. 4 + N + 1 /\ ~(k <= 4 + N) /\ k - (4 + N) = 1
      BY <1>3
    <3> HIDE DEF k
    <3>3. L[k] = <<e>>[k - (4 + N)]
      BY <3>1, <3>2, Zenon
    <3>4. L[k] = <<e>>[1]
      BY <3>2, <3>3, Zenon
    <3> QED BY <3>4, Zenon DEF k
  <2> QED BY <1>12, <2>2, <2>3, <2>5
<1>16. ASSUME NEW i \in 1 .. N + 5, i # 4 PROVE ~Counts(L[i])
  <2>1. i \in {1, 2, 3} \/ i = N + 5 \/ (i - 4 \in 1 .. N /\ i - 4 + 4 = i)
    BY <1>3, <1>16
  <2>2. ASSUME i - 4 \in 1 .. N, i - 4 + 4 = i PROVE L[i] = G[i - 4]
    BY <1>15, <2>2
  <2> QED BY <1>3, <1>4, <1>5, <1>6, <1>8, <1>15, <2>1, <2>2
<1>17. Lined(t, L, N + 5)
  <2>1. 4 + N + 1 = N + 5
    BY <1>3
  <2> QED BY <1>14, <2>1
<1> QED BY <1>3, <1>15, <1>16, <1>17 DEF a, b, c, d, e, G, N, L
-----------------------------------------------------------------------------
(* What a message is cut into. *)

\* The transactions there are, as they are signed and as they are sent.
IsTx(t) ==
  \/ t \in DataStoreTx \/ t \in ManifestTx \/ t \in DeleteTx \/ t \in UnregisterTx
  \/ t \in GrantTx \/ t \in RevokeTx
  \/ t \in RotateTx /\ Len(t.grants) \in Numbers
  \/ t \in Txs /\ IsRegistration(t)

LEMMA IsTxFacts ==
  ASSUME NEW t, IsTx(t)
  PROVE  t.kind \in Kinds /\ Worded(t)
<1>1. t.kind \in Kinds
  BY DEF IsTx, DataStoreTx, ManifestTx, DeleteTx, UnregisterTx, GrantTx, RevokeTx, RotateTx,
         IsRegistration, Kinds
<1>2. (\E T \in Forms : t \in T) \/ IsRegistration(t)
  BY DEF IsTx, Forms
<1> QED BY <1>1, <1>2, FormsAreWorded

LEMMA TxFacts ==
  ASSUME NEW t \in Txs
  PROVE  IsTx(t) /\ IsTx(AsSent(t)) /\ AsSent(AsSent(t)) = AsSent(t)
<1>1. IsTx(t)
  BY TxsAssumption DEF IsTx
<1>2. IsTx(AsSent(t))
  <2>1. CASE \/ t \in DataStoreTx \/ t \in ManifestTx \/ t \in DeleteTx \/ t \in UnregisterTx
             \/ t \in GrantTx \/ t \in RevokeTx
    BY <2>1, FormsAreKept DEF Forms, IsTx
  <2>2. CASE t \in RotateTx /\ Len(t.grants) \in Numbers
    BY <2>2, FormsAreKept DEF Forms, IsTx
  <2>3. CASE IsRegistration(t)
    BY <1>1, <2>3, FormsAreKept
  <2> QED BY <2>1, <2>2, <2>3, TxsAssumption
<1> QED BY <1>1, <1>2, IsTxFacts, SentOnce

LEMMA KindFacts ==
  ASSUME NEW t, t.kind \in Kinds
  PROVE  /\ <<t.kind>> \in Text /\ <<t.kind>>[1] = t.kind /\ ~Counts(<<t.kind>>)
         /\ FreeOf(<<t.kind>>, NL) /\ FreeOf(<<t.kind>>, ":")
<1> DEFINE k == t.kind
<1>1. /\ k \in Token /\ k # NL /\ k # ":" /\ ~Counts(<<k>>)
  <2>1. k # "Grants: " /\ k # NL /\ k # ":"
    BY DEF Kinds, NL
  <2>2. k \in Token
    BY TokensAssumption
  <2> QED BY <2>1, <2>2 DEF Counts
<1> HIDE DEF k
<1>2. <<k>> \in Seq(Token) /\ Len(<<k>>) = 1 /\ <<k>>[1] = k
  BY <1>1
<1>3. \A sep : k # sep => FreeOf(<<k>>, sep)
  BY <1>2 DEF FreeOf
<1>4. <<k>> \in Text
  BY <1>2 DEF Text
<1>5. FreeOf(<<k>>, NL) /\ FreeOf(<<k>>, ":")
  BY <1>1, <1>3
<1> QED BY <1>1, <1>2, <1>4, <1>5 DEF k

\* A message's pieces are its kind and its lines.
LEMMA OfLines ==
  ASSUME NEW t, NEW n \in Nat, t.kind \in Kinds, t.kind # "RevokeSubgroveKey",
         Lined(t, Lines(t), n)
  PROVE  /\ Lined(t, Pieces(t), 1 + n) /\ Pieces(t)[1] = <<t.kind>>
         /\ \A i \in 1 .. n : Pieces(t)[i + 1] = Lines(t)[i]
<1> DEFINE k == <<<<t.kind>>>>
           L == Lines(t)
           P == Pieces(t)
<1>1. k \in Seq(Text) /\ Len(k) = 1 /\ k[1] = <<t.kind>> /\ FreeOf(k[1], NL)
  BY KindFacts
<1>2. P = k \o L
  BY DEF Pieces
<1> HIDE DEF k, L, P
<1>3. Lined(t, k, 1)
  BY <1>1 DEF Lined
<1>4. Lined(t, P, 1 + n) /\ Glued(P, k, 1, L, n)
  BY <1>2, <1>3, ConcatLined DEF L
<1>5. \A i \in 1 .. 1 + n : P[i] = IF i <= 1 THEN k[i] ELSE L[i - 1]
  BY <1>4 DEF Glued
<1>6. P[1] = k[1]
  <2>1. 1 \in 1 .. 1 + n /\ 1 <= 1
    OBVIOUS
  <2> QED BY <1>5, <2>1
<1>7. ASSUME NEW i \in 1 .. n PROVE P[i + 1] = L[i]
  <2>1. i + 1 \in 1 .. 1 + n /\ ~(i + 1 <= 1) /\ i + 1 - 1 = i
    OBVIOUS
  <2> QED BY <1>5, <2>1
<1> QED BY <1>1, <1>4, <1>6, <1>7 DEF L, P
\* A message is its pieces, and one that is signed has no separator in any.
Whole(t) == \A i \in 1 .. Len(Pieces(t)) : FreeOf(Pieces(t)[i], SepOf(t))
Piecewise(t) ==
  /\ Pieces(t) \in Seq(Text) /\ Pieces(t) # <<>> /\ Pieces(t)[1] = <<t.kind>>
  /\ SepOf(t) \in Token
  /\ Format(t) # Refused => Whole(t)

\* What the builders let through.
LEMMA Signable ==
  ASSUME NEW t, Format(t) # Refused
  PROVE  /\ Valid(t) /\ Unbroken(t) /\ Format(t) = MessageText(t)
         /\ t.kind = "RevokeSubgroveKey" => validateRevoke(t)
         /\ t.kind = "RegisterSubgrove" => Registrable(t.json)
         /\ t.kind = "RotateSubgroveKey" => validateRotation(t)
         /\ t.kind = "GrantSubgroveKey" => validateGrantees(t.grants)
<1>1. Valid(t) /\ Unbroken(t) /\ Format(t) = MessageText(t)
  BY DEF Format, Unbroken
<1> QED BY <1>1 DEF Valid

LEMMA PiecesOfLines ==
  ASSUME NEW t, NEW n \in Nat, t.kind \in Kinds, t.kind # "RevokeSubgroveKey",
         Lined(t, Lines(t), n)
  PROVE  Piecewise(t) /\ SepOf(t) = NL /\ Len(Pieces(t)) = 1 + n
<1>1. Lined(t, Pieces(t), 1 + n) /\ Pieces(t)[1] = <<t.kind>>
  BY OfLines
<1>2. SepOf(t) = NL /\ NL \in Token
  BY TokensAssumption DEF SepOf
<1>3. Pieces(t) \in Seq(Text) /\ Len(Pieces(t)) = 1 + n
  BY <1>1 DEF Lined
<1>4. Pieces(t) # <<>>
  BY <1>3, EmptySeq, LenProperties
<1>5. Format(t) # Refused => Whole(t)
  BY <1>1, <1>2, <1>3, Signable DEF Whole, Lined
<1> QED BY <1>1, <1>2, <1>3, <1>4, <1>5 DEF Piecewise

\* The texts of a revocation.
LEMMA DIDUnbroken ==
  ASSUME NEW v \in Text, validateWillowDID(v)
  PROVE  FreeOf(v, ":") /\ ~Contains(v, Invalid)
<1>1. Len(v) \in Nat /\ DOMAIN v = 1 .. Len(v)
  BY LenProperties DEF Text
<1>2. ASSUME NEW i \in 1 .. Len(v) PROVE v[i] # ":" /\ v[i] # Invalid
  <2>1. v[i] = "did:willow:" \/ v[i] \in Plain
    BY <1>1 DEF validateWillowDID
  <2> QED BY <2>1 DEF Plain, Invalid
<1> QED BY <1>1, <1>2 DEF FreeOf, Contains

LEMMA RevokePieces ==
  ASSUME NEW t \in RevokeTx
  PROVE  Piecewise(t) /\ SepOf(t) = ":" /\ Len(Pieces(t)) = 5
<1> DEFINE a == <<t.kind>>
           b == t.subgrove
           c == t.revokee
           d == t.sender
           e == Decimal(t.nonce)
           P == Pieces(t)
<1>1. /\ b \in Text /\ c \in Text /\ d \in Text /\ t.nonce \in Numbers
      /\ t.kind = "RevokeSubgroveKey" /\ t.kind \in Kinds
  BY DEF RevokeTx, Kinds
<1>2. a \in Text /\ FreeOf(a, ":")
  BY <1>1, KindFacts
<1>3. e \in Text /\ FreeOf(e, ":")
  BY <1>1, PrintFacts DEF IsPrinted
<1>4. P = <<a, b, c, d, e>>
  BY <1>1 DEF Pieces
<1>5. SepOf(t) = ":" /\ ":" \in Token
  BY <1>1, TokensAssumption DEF SepOf
<1>6. Format(t) # Refused => FreeOf(b, ":") /\ FreeOf(c, ":") /\ FreeOf(d, ":")
  <2> SUFFICES ASSUME Format(t) # Refused
               PROVE  FreeOf(b, ":") /\ FreeOf(c, ":") /\ FreeOf(d, ":")
    OBVIOUS
  <2>1. validateRevoke(t)
    BY <1>1, Signable
  <2>2. DOMAIN b = 1 .. Len(b)
    BY <1>1 DEF Text
  <2>3. FreeOf(b, ":")
    BY <2>1, <2>2 DEF validateRevoke, Contains, FreeOf
  <2> QED BY <1>1, <2>1, <2>3, DIDUnbroken DEF validateRevoke
<1> HIDE DEF a, b, c, d, e, P
<1>7. P \in Seq(Text) /\ Len(P) = 5 /\ P # <<>> /\ P[1] = a
  BY <1>1, <1>2, <1>3, <1>4
<1>8. Format(t) # Refused => \A i \in 1 .. 5 : FreeOf(P[i], ":")
  BY <1>2, <1>3, <1>4, <1>6
<1> QED BY <1>5, <1>7, <1>8 DEF Piecewise, Whole, a, P
\* Two messages that are the same text begin with the same kind, and the one
\* that is signed has the finer pieces.
LEMMA SameText ==
  ASSUME NEW s, NEW u, Piecewise(s), Piecewise(u), Format(u) # Refused,
         MessageText(s) = MessageText(u)
  PROVE  s.kind = u.kind /\ Coarser(Pieces(s), Pieces(u), SepOf(u))
<1>1. JoinedBy(SepOf(s), Pieces(s)) = JoinedBy(SepOf(u), Pieces(u))
  BY TextIsJoined
<1>2. JoinedBy(SepOf(s), Pieces(s))[1] = s.kind
  BY JoinedBegins DEF Piecewise
<1>3. JoinedBy(SepOf(u), Pieces(u))[1] = u.kind
  BY JoinedBegins DEF Piecewise
<1>4. s.kind = u.kind
  BY <1>1, <1>2, <1>3
<1>5. SepOf(s) = SepOf(u)
  BY <1>4 DEF SepOf
<1>6. \A i \in 1 .. Len(Pieces(u)) : FreeOf(Pieces(u)[i], SepOf(u))
  BY DEF Piecewise, Whole
<1>7. Coarser(Pieces(s), Pieces(u), SepOf(u))
  BY <1>1, <1>5, <1>6, JoinedSame DEF Piecewise
<1> QED BY <1>4, <1>7

\* Messages of as many lines have the same lines.
LEMMA SameLines ==
  ASSUME NEW s, NEW u, NEW n \in Nat,
         s.kind \in Kinds, s.kind # "RevokeSubgroveKey", Lined(s, Lines(s), n),
         u.kind \in Kinds, u.kind # "RevokeSubgroveKey", Lined(u, Lines(u), n),
         Format(u) # Refused, MessageText(s) = MessageText(u)
  PROVE  Lines(s) = Lines(u)
<1>1. Piecewise(s) /\ Piecewise(u) /\ Len(Pieces(s)) = 1 + n /\ Len(Pieces(u)) = 1 + n
  BY PiecesOfLines
<1>2. Coarser(Pieces(s), Pieces(u), SepOf(u))
  BY <1>1, SameText
<1>3. Pieces(s) = Pieces(u)
  BY <1>1, <1>2 DEF Coarser
<1>4. /\ \A i \in 1 .. n : Pieces(s)[i + 1] = Lines(s)[i]
      /\ \A i \in 1 .. n : Pieces(u)[i + 1] = Lines(u)[i]
  BY OfLines
<1> DEFINE x == Lines(s)
           y == Lines(u)
<1>5. x \in Seq(Text) /\ y \in Seq(Text) /\ Len(x) = n /\ Len(y) = n
  BY DEF Lined
<1>6. \A i \in 1 .. n : x[i] = y[i]
  BY <1>3, <1>4
<1> HIDE DEF x, y
<1>7. x = y
  BY <1>5, <1>6, SeqEqual
<1> QED BY <1>7 DEF x, y

\* A labelled value is in a line as it is.
LEMMA LineValue ==
  /\ \A label \in Labels : \A v, w \in Text : text(label, v) = text(label, w) => v = w
  /\ \A label \in Labels : \A m, n \in Numbers : line(label, Decimal(m)) = line(label, Decimal(n)) => m = n
  /\ \A label \in Labels : \A b, c \in Blobs : line(label, Hex(b)) = line(label, Hex(c)) => b = c
  /\ \A label \in Labels : \A b, c \in Blobs :
       line(label, HexSha256(b)) = line(label, HexSha256(c)) => b = c
  /\ \A label \in Labels : \A b, c \in Configs :
       line(label, HexSha256(b)) = line(label, HexSha256(c)) => b = c
  /\ \A label \in Labels : \A e, d \in {<<>>} \union (Numbers \X Blobs) :
       line(label, EncryptionLine(e)) = line(label, EncryptionLine(d)) => e = d
<1>1. Labels \subseteq Token
  BY TokensAssumption
<1>2. \A label \in Labels : \A v, w \in Text : line(label, v) = line(label, w) => v = w
  BY <1>1, LineFacts
<1>3. /\ \A n \in Numbers : Decimal(n) \in Text
      /\ \A b \in Blobs : Hex(b) \in Text /\ HexSha256(b) \in Text
      /\ \A b \in Configs : HexSha256(b) \in Text
      /\ \A e \in {<<>>} \union (Numbers \X Blobs) : EncryptionLine(e) \in Text
  BY PrintFacts, EncryptionFacts DEF IsPrinted
<1>4. \A label \in Labels : \A v, w \in Text : text(label, v) = text(label, w) => v = w
  BY <1>2 DEF text
<1>5. \A label \in Labels : \A m, n \in Numbers :
        line(label, Decimal(m)) = line(label, Decimal(n)) => m = n
  BY <1>2, <1>3, PrintFacts
<1>6. \A label \in Labels : \A b, c \in Blobs : line(label, Hex(b)) = line(label, Hex(c)) => b = c
  BY <1>2, <1>3, PrintFacts
<1>7. \A label \in Labels : \A b, c \in Blobs :
       line(label, HexSha256(b)) = line(label, HexSha256(c)) => b = c
  BY <1>2, <1>3, PrintFacts
<1>8. \A label \in Labels : \A b, c \in Configs :
       line(label, HexSha256(b)) = line(label, HexSha256(c)) => b = c
  BY <1>2, <1>3, PrintFacts
<1>9. \A label \in Labels : \A e, d \in {<<>>} \union (Numbers \X Blobs) :
       line(label, EncryptionLine(e)) = line(label, EncryptionLine(d)) => e = d
  BY <1>2, <1>3, EncryptionFacts
<1> QED BY <1>4, <1>5, <1>6, <1>7, <1>8, <1>9
\* The fields are read back from the lines of each message.
LEMMA DataStoreRead ==
  ASSUME NEW s \in DataStoreTx, NEW u \in DataStoreTx, DataStoreLines(s) = DataStoreLines(u)
  PROVE  s = u
<1>0. {"Subgrove: ", "Key: ", "Owner: ", "DataHash: ", "Nonce: "} \subseteq Labels
  BY DEF Labels
<1>1. \A t \in {s, u} :
        /\ t.subgrove \in Text
        /\ t.key \in Text
        /\ t.owner \in Text
        /\ t.data \in Blobs
        /\ t.nonce \in Numbers
  BY DEF DataStoreTx
<1> DEFINE a(t) == text("Subgrove: ", t.subgrove)
           b(t) == text("Key: ", t.key)
           c(t) == text("Owner: ", t.owner)
           d(t) == line("DataHash: ", HexSha256(t.data))
           e(t) == line("Nonce: ", Decimal(t.nonce))
<1>2. \A t : DataStoreLines(t) = <<a(t), b(t), c(t), d(t), e(t)>>
  BY DEF DataStoreLines
<1> HIDE DEF a, b, c, d, e
<1>3. a(s) = a(u) /\ b(s) = b(u) /\ c(s) = c(u) /\ d(s) = d(u) /\ e(s) = e(u)
  BY <1>2
<1>4. s.subgrove = u.subgrove
  BY <1>0, <1>1, <1>3, LineValue DEF a
<1>5. s.key = u.key
  BY <1>0, <1>1, <1>3, LineValue DEF b
<1>6. s.owner = u.owner
  BY <1>0, <1>1, <1>3, LineValue DEF c
<1>7. s.data = u.data
  BY <1>0, <1>1, <1>3, LineValue DEF d
<1>8. s.nonce = u.nonce
  BY <1>0, <1>1, <1>3, LineValue DEF e
<1> QED BY <1>4, <1>5, <1>6, <1>7, <1>8 DEF DataStoreTx

LEMMA ManifestRead ==
  ASSUME NEW s \in ManifestTx, NEW u \in ManifestTx, ManifestLines(s) = ManifestLines(u)
  PROVE  s = u
<1>0. {"Subgrove: ", "Key: ", "Owner: ", "Filename: ", "ContentType: ", "TotalSize: ", "ContentHash: ", "ChunkCount: ", "ChunkSize: ", "ChunkMerkleRoot: ", "Encryption: ", "Nonce: "} \subseteq Labels
  BY DEF Labels
<1>1. \A t \in {s, u} :
        /\ t.subgrove \in Text
        /\ t.key \in Text
        /\ t.owner \in Text
        /\ t.filename \in Text
        /\ t.contentType \in Text
        /\ t.totalSize \in Numbers
        /\ t.contentHash \in Blobs
        /\ t.chunkCount \in Numbers
        /\ t.chunkSize \in Numbers
        /\ t.merkleRoot \in Blobs
        /\ t.encryption \in {<<>>} \union (Numbers \X Blobs)
        /\ t.nonce \in Numbers
  BY DEF ManifestTx
<1> DEFINE a(t) == text("Subgrove: ", t.subgrove)
           b(t) == text("Key: ", t.key)
           c(t) == text("Owner: ", t.owner)
           d(t) == text("Filename: ", t.filename)
           e(t) == text("ContentType: ", t.contentType)
           f(t) == line("TotalSize: ", Decimal(t.totalSize))
           g(t) == line("ContentHash: ", Hex(t.contentHash))
           h(t) == line("ChunkCount: ", Decimal(t.chunkCount))
           i(t) == line("ChunkSize: ", Decimal(t.chunkSize))
           j(t) == line("ChunkMerkleRoot: ", Hex(t.merkleRoot))
           k(t) == line("Encryption: ", EncryptionLine(t.encryption))
           l(t) == line("Nonce: ", Decimal(t.nonce))
<1>2. \A t : ManifestLines(t) = <<a(t), b(t), c(t), d(t), e(t), f(t), g(t), h(t), i(t), j(t), k(t), l(t)>>
  BY DEF ManifestLines
<1> HIDE DEF a, b, c, d, e, f, g, h, i, j, k, l
<1>3. a(s) = a(u) /\ b(s) = b(u) /\ c(s) = c(u) /\ d(s) = d(u) /\ e(s) = e(u) /\ f(s) = f(u) /\ g(s) = g(u) /\ h(s) = h(u) /\ i(s) = i(u) /\ j(s) = j(u) /\ k(s) = k(u) /\ l(s) = l(u)
  BY <1>2
<1>4. s.subgrove = u.subgrove
  BY <1>0, <1>1, <1>3, LineValue DEF a
<1>5. s.key = u.key
  BY <1>0, <1>1, <1>3, LineValue DEF b
<1>6. s.owner = u.owner
  BY <1>0, <1>1, <1>3, LineValue DEF c
<1>7. s.filename = u.filename
  BY <1>0, <1>1, <1>3, LineValue DEF d
<1>8. s.contentType = u.contentType
  BY <1>0, <1>1, <1>3, LineValue DEF e
<1>9. s.totalSize = u.totalSize
  BY <1>0, <1>1, <1>3, LineValue DEF f
<1>10. s.contentHash = u.contentHash
  BY <1>0, <1>1, <1>3, LineValue DEF g
<1>11. s.chunkCount = u.chunkCount
  BY <1>0, <1>1, <1>3, LineValue DEF h
<1>12. s.chunkSize = u.chunkSize
  BY <1>0, <1>1, <1>3, LineValue DEF i
<1>13. s.merkleRoot = u.merkleRoot
  BY <1>0, <1>1, <1>3, LineValue DEF j
<1>14. s.encryption = u.encryption
  BY <1>0, <1>1, <1>3, LineValue DEF k
<1>15. s.nonce = u.nonce
  BY <1>0, <1>1, <1>3, LineValue DEF l
<1> QED BY <1>4, <1>5, <1>6, <1>7, <1>8, <1>9, <1>10, <1>11, <1>12, <1>13, <1>14, <1>15 DEF ManifestTx

LEMMA DeleteRead ==
  ASSUME NEW s \in DeleteTx, NEW u \in DeleteTx, DeleteLines(s) = DeleteLines(u)
  PROVE  s = u
<1>0. {"Subgrove: ", "Key: ", "Owner: ", "Nonce: "} \subseteq Labels
  BY DEF Labels
<1>1. \A t \in {s, u} :
        /\ t.subgrove \in Text
        /\ t.key \in Text
        /\ t.owner \in Text
        /\ t.nonce \in Numbers
  BY DEF DeleteTx
<1> DEFINE a(t) == text("Subgrove: ", t.subgrove)
           b(t) == text("Key: ", t.key)
           c(t) == text("Owner: ", t.owner)
           d(t) == line("Nonce: ", Decimal(t.nonce))
<1>2. \A t : DeleteLines(t) = <<a(t), b(t), c(t), d(t)>>
  BY DEF DeleteLines
<1> HIDE DEF a, b, c, d
<1>3. a(s) = a(u) /\ b(s) = b(u) /\ c(s) = c(u) /\ d(s) = d(u)
  BY <1>2
<1>4. s.subgrove = u.subgrove
  BY <1>0, <1>1, <1>3, LineValue DEF a
<1>5. s.key = u.key
  BY <1>0, <1>1, <1>3, LineValue DEF b
<1>6. s.owner = u.owner
  BY <1>0, <1>1, <1>3, LineValue DEF c
<1>7. s.nonce = u.nonce
  BY <1>0, <1>1, <1>3, LineValue DEF d
<1> QED BY <1>4, <1>5, <1>6, <1>7 DEF DeleteTx

LEMMA UnregisterRead ==
  ASSUME NEW s \in UnregisterTx, NEW u \in UnregisterTx, UnregisterLines(s) = UnregisterLines(u)
  PROVE  s = u
<1>0. {"Node: ", "Nonce: "} \subseteq Labels
  BY DEF Labels
<1>1. \A t \in {s, u} :
        /\ t.node \in Text
        /\ t.nonce \in Numbers
  BY DEF UnregisterTx
<1> DEFINE a(t) == text("Node: ", t.node)
           b(t) == line("Nonce: ", Decimal(t.nonce))
<1>2. \A t : UnregisterLines(t) = <<a(t), b(t)>>
  BY DEF UnregisterLines
<1> HIDE DEF a, b
<1>3. a(s) = a(u) /\ b(s) = b(u)
  BY <1>2
<1>4. s.node = u.node
  BY <1>0, <1>1, <1>3, LineValue DEF a
<1>5. s.nonce = u.nonce
  BY <1>0, <1>1, <1>3, LineValue DEF b
<1> QED BY <1>4, <1>5 DEF UnregisterTx
LEMMA KeyGrantRead ==
  ASSUME NEW g \in GrantRecords, NEW h \in GrantRecords,
         \A k \in 1 .. 7 : grant(g)[k] = grant(h)[k]
  PROVE  g = h
<1>0. {"Grantee: ", "GranteeKey: ", "KeyEpoch: ", "EphemeralKey: ", "EncryptedKey: ",
       "GrantedBy: ", "GrantedAt: "} \subseteq Labels
  BY DEF Labels
<1>1. \A x \in {g, h} :
        /\ x.grantee \in Text
        /\ x.granteeKey \in Text
        /\ x.epoch \in Numbers
        /\ x.ephemeral \in Blobs
        /\ x.encrypted \in Blobs
        /\ x.grantedBy \in Text
        /\ x.grantedAt \in Numbers
  BY DEF GrantRecords
<1> DEFINE a(x) == text("Grantee: ", x.grantee)
           b(x) == text("GranteeKey: ", x.granteeKey)
           c(x) == line("KeyEpoch: ", Decimal(x.epoch))
           d(x) == line("EphemeralKey: ", Hex(x.ephemeral))
           e(x) == line("EncryptedKey: ", Hex(x.encrypted))
           f(x) == text("GrantedBy: ", x.grantedBy)
           i(x) == line("GrantedAt: ", Decimal(x.grantedAt))
<1>2. \A x : grant(x) = <<a(x), b(x), c(x), d(x), e(x), f(x), i(x)>>
  BY DEF grant
<1> HIDE DEF a, b, c, d, e, f, i
<1>3. /\ a(g) = a(h) /\ b(g) = b(h) /\ c(g) = c(h) /\ d(g) = d(h) /\ e(g) = e(h)
      /\ f(g) = f(h) /\ i(g) = i(h)
  BY <1>2
<1>4. g.grantee = h.grantee
  BY <1>0, <1>1, <1>3, LineValue DEF a
<1>5. g.granteeKey = h.granteeKey
  BY <1>0, <1>1, <1>3, LineValue DEF b
<1>6. g.epoch = h.epoch
  BY <1>0, <1>1, <1>3, LineValue DEF c
<1>7. g.ephemeral = h.ephemeral
  BY <1>0, <1>1, <1>3, LineValue DEF d
<1>8. g.encrypted = h.encrypted
  BY <1>0, <1>1, <1>3, LineValue DEF e
<1>9. g.grantedBy = h.grantedBy
  BY <1>0, <1>1, <1>3, LineValue DEF f
<1>10. g.grantedAt = h.grantedAt
  BY <1>0, <1>1, <1>3, LineValue DEF i
<1> QED BY <1>4, <1>5, <1>6, <1>7, <1>8, <1>9, <1>10 DEF GrantRecords

LEMMA GrantRead ==
  ASSUME NEW s \in GrantTx, NEW u \in GrantTx, GrantLines(s) = GrantLines(u)
  PROVE  s = u
<1>0. {"Subgrove: ", "Sender: ", "Nonce: "} \subseteq Labels
  BY DEF Labels
<1>1. \A t \in {s, u} :
        /\ t.subgrove \in Text
        /\ t.sender \in Text
        /\ t.grants[1] \in GrantRecords
        /\ t.nonce \in Numbers
  BY DEF GrantTx
<1> DEFINE a(t) == text("Subgrove: ", t.subgrove)
           b(t) == text("Sender: ", t.sender)
           c(t) == grant(t.grants[1])
           d(t) == line("Nonce: ", Decimal(t.nonce))
           H(t) == <<a(t), b(t)>>
           P(t) == Cat(H(t), c(t))
<1>2. \A t : GrantLines(t) = Cat(P(t), <<d(t)>>)
  BY DEF GrantLines, Cat
<1>3. \A t \in {s, u} : a(t) \in Text /\ b(t) \in Text /\ d(t) \in Text
  <2>1. \A label \in Labels : \A v \in Text : line(label, v) \in Text /\ text(label, v) \in Text
    BY LineFacts, TokensAssumption
  <2>2. \A n \in Numbers : Decimal(n) \in Text
    BY PrintFacts DEF IsPrinted
  <2> QED BY <1>0, <1>1, <2>1, <2>2
<1>4. \A t \in {s, u} : c(t) \in Seq(Text) /\ Len(c(t)) = 7
  <2>1. ASSUME NEW t \in {s, u} PROVE c(t) \in Seq(Text) /\ Len(c(t)) = 7
    <3>1. /\ t.kind \in {"GrantSubgroveKey", "RotateSubgroveKey"} /\ 1 \in DOMAIN t.grants
      BY DEF GrantTx
    <3>2. GrantTexts(t.grants[1]) \subseteq TextsOf(t)
      BY <3>1, TextsAre
    <3>3. Lined(t, c(t), 7)
      BY <1>1, <3>2, KeyGrantLined
    <3> QED BY <3>3 DEF Lined
  <2> QED BY <2>1
<1>5. \A t : H(t)[1] = a(t) /\ H(t)[2] = b(t) /\ <<d(t)>>[1] = d(t)
  OBVIOUS
<1>6. \A t \in {s, u} : /\ H(t) \in Seq(Text) /\ Len(H(t)) = 2
                       /\ <<d(t)>> \in Seq(Text)
  <2> HIDE DEF a, b, d
  <2> QED BY <1>3
<1> HIDE DEF a, b, c, d, H
<1>7. \A t \in {s, u} : P(t) \in Seq(Text) /\ Len(P(t)) = 9
  <2>1. ASSUME NEW p \in Seq(Text), NEW q \in Seq(Text), Len(p) = 2, Len(q) = 7
        PROVE  Cat(p, q) \in Seq(Text) /\ Len(Cat(p, q)) = 9
    <3>1. p \o q \in Seq(Text) /\ Len(p \o q) = Len(p) + Len(q)
      BY ConcatProperties
    <3> QED BY <2>1, <3>1 DEF Cat
  <2> QED BY <1>4, <1>6, <2>1
<1>8. P(s) = P(u) /\ <<d(s)>> = <<d(u)>>
  <2> HIDE DEF P
  <2>1. Cat(P(s), <<d(s)>>) = Cat(P(u), <<d(u)>>) /\ Len(P(s)) = Len(P(u))
    BY <1>2, <1>7
  <2> QED BY ZenonT(60), <1>6, <1>7, <2>1, Peel
<1>9. H(s) = H(u) /\ c(s) = c(u)
  BY <1>4, <1>6, <1>8, Peel
<1>10. a(s) = a(u) /\ b(s) = b(u) /\ d(s) = d(u)
  BY <1>5, <1>8, <1>9
<1>11. s.subgrove = u.subgrove
  BY <1>0, <1>1, <1>10, LineValue DEF a
<1>12. s.sender = u.sender
  BY <1>0, <1>1, <1>10, LineValue DEF b
<1>13. s.nonce = u.nonce
  BY <1>0, <1>1, <1>10, LineValue DEF d
<1>14. s.grants[1] = u.grants[1]
  BY <1>1, <1>9, KeyGrantRead DEF c
<1>15. s.grants = u.grants
  BY <1>14 DEF GrantTx
<1> QED BY <1>11, <1>12, <1>13, <1>15 DEF GrantTx
\* Rotations of as many grants.
LEMMA RotateRead ==
  ASSUME NEW s \in RotateTx, NEW u \in RotateTx, Len(s.grants) \in Numbers,
         Len(s.grants) = Len(u.grants), RotateLines(s) = RotateLines(u)
  PROVE  s = u
<1> DEFINE n == Len(s.grants)
           L == RotateLines(s)
<1>0. {"Subgrove: ", "Sender: ", "NewEpoch: ", "Nonce: "} \subseteq Labels
  BY DEF Labels
<1>1. \A t \in {s, u} :
        /\ t.subgrove \in Text
        /\ t.sender \in Text
        /\ t.newEpoch \in Numbers
        /\ t.nonce \in Numbers
        /\ t.grants \in Seq(GrantRecords)
  BY DEF RotateTx
<1>2. \A t \in {s, u} :
        /\ n \in Nat /\ L[1] = text("Subgrove: ", t.subgrove) /\ L[2] = text("Sender: ", t.sender)
        /\ L[3] = line("NewEpoch: ", Decimal(t.newEpoch))
        /\ \A i \in 1 .. 7 * n : L[i + 4] = GrantsOf(t)[i]
        /\ L[7 * n + 5] = line("Nonce: ", Decimal(t.nonce))
  <2>1. \A t \in {s, u} : L = RotateLines(t) /\ n = Len(t.grants) /\ t \in RotateTx
    OBVIOUS
  <2> HIDE DEF L, n
  <2>2. n \in Numbers
    BY DEF n
  <2>3. ASSUME NEW t \in {s, u}
        PROVE  /\ n \in Nat /\ L[1] = text("Subgrove: ", t.subgrove)
               /\ L[2] = text("Sender: ", t.sender)
               /\ L[3] = line("NewEpoch: ", Decimal(t.newEpoch))
               /\ \A i \in 1 .. 7 * n : L[i + 4] = GrantsOf(t)[i]
               /\ L[7 * n + 5] = line("Nonce: ", Decimal(t.nonce))
    <3>1. t \in RotateTx /\ L = RotateLines(t) /\ n = Len(t.grants) /\ Len(t.grants) \in Numbers
      BY <2>1, <2>2
    <3> QED BY <3>1, RotateLined
  <2> QED BY <2>3
<1> HIDE DEF L
<1>3. s.subgrove = u.subgrove
  <2>1. text("Subgrove: ", s.subgrove) = text("Subgrove: ", u.subgrove)
    BY <1>2
  <2> QED BY <1>0, <1>1, <2>1, LineValue
<1>4. s.sender = u.sender
  <2>1. text("Sender: ", s.sender) = text("Sender: ", u.sender)
    BY <1>2
  <2> QED BY <1>0, <1>1, <2>1, LineValue
<1>5. s.newEpoch = u.newEpoch
  <2>1. line("NewEpoch: ", Decimal(s.newEpoch)) = line("NewEpoch: ", Decimal(u.newEpoch))
    BY <1>2
  <2> QED BY <1>0, <1>1, <2>1, LineValue
<1>6. s.nonce = u.nonce
  <2>1. line("Nonce: ", Decimal(s.nonce)) = line("Nonce: ", Decimal(u.nonce))
    BY <1>2
  <2> QED BY <1>0, <1>1, <2>1, LineValue
<1>7. ASSUME NEW j \in 1 .. n PROVE s.grants[j] = u.grants[j]
  <2>1. s.grants[j] \in GrantRecords /\ u.grants[j] \in GrantRecords
    BY <1>1, ElementOfSeq
  <2>2. ASSUME NEW k \in 1 .. 7 PROVE grant(s.grants[j])[k] = grant(u.grants[j])[k]
    <3> DEFINE i == 7 * (j - 1) + k
    <3>1. i \in 1 .. 7 * n /\ (i - 1) \div 7 + 1 = j /\ ((i - 1) % 7) + 1 = k
      <4>1. n \in Nat
        BY <1>2
      <4> HIDE DEF n
      <4> QED BY <4>1, Sevens
    <3> HIDE DEF i
    <3>2. \A t \in {s, u} : GrantsOf(t)[i] = grant(t.grants[j])[k]
      <4>1. ASSUME NEW t \in {s, u} PROVE GrantsOf(t)[i] = grant(t.grants[j])[k]
        <5>1. i \in 1 .. 7 * Len(t.grants)
          BY <3>1
        <5>2. GrantsOf(t)[i] = grant(t.grants[(i - 1) \div 7 + 1])[((i - 1) % 7) + 1]
          BY <5>1 DEF GrantsOf
        <5> QED BY <3>1, <5>2
      <4> QED BY <4>1
    <3>3. GrantsOf(s)[i] = GrantsOf(u)[i]
      BY <1>2, <3>1
    <3> QED BY <3>2, <3>3
  <2> QED BY <2>1, <2>2, KeyGrantRead
<1>8. s.grants = u.grants
  BY <1>1, <1>7, SeqEqual
<1> QED BY <1>3, <1>4, <1>5, <1>6, <1>8 DEF RotateTx

LEMMA RevokeRead ==
  ASSUME NEW s \in RevokeTx, NEW u \in RevokeTx, Pieces(s) = Pieces(u)
  PROVE  s = u
<1>1. \A t \in {s, u} : t.kind = "RevokeSubgroveKey" /\ t.nonce \in Numbers
  BY DEF RevokeTx
<1> DEFINE k(t) == <<t.kind>>
           d(t) == Decimal(t.nonce)
<1>2. \A t \in {s, u} : Pieces(t) = <<k(t), t.subgrove, t.revokee, t.sender, d(t)>>
  BY <1>1 DEF Pieces
<1> HIDE DEF k, d
<1>3. s.subgrove = u.subgrove /\ s.revokee = u.revokee /\ s.sender = u.sender /\ d(s) = d(u)
  BY <1>2
<1>4. s.nonce = u.nonce
  BY <1>1, <1>3, PrintFacts DEF d
<1> QED BY <1>3, <1>4 DEF RevokeTx

\* A registration's bincode is read back from its hash.
LEMMA RegisterRead ==
  ASSUME NEW s \in Txs, NEW u \in Txs, IsRegistration(s), IsRegistration(u),
         RegisterLines(s.json) = RegisterLines(u.json)
  PROVE  registerSubgrove(s.json) = registerSubgrove(u.json)
<1>0. "Config: " \in Labels
  BY DEF Labels
<1>1. s.kind = "RegisterSubgrove" /\ u.kind = "RegisterSubgrove"
  BY DEF IsRegistration
<1>2. registerSubgrove(s.json) \in Configs /\ registerSubgrove(u.json) \in Configs
  BY <1>1 DEF Configs, Registrations
<1> DEFINE a(j) == text("Subgrove: ", TokensAt(j, "subgrove_id"))
           b(j) == text("Owner: ", TokensAt(j, "owner_did"))
           c(j) == line("Config: ", HexSha256(registerSubgrove(j)))
           d(j) == line("Nonce: ", Decimal(At(j, "nonce")[2]))
<1>3. \A j : RegisterLines(j) = <<a(j), b(j), c(j), d(j)>>
  BY DEF RegisterLines
<1> HIDE DEF a, b, c, d
<1>4. c(s.json) = c(u.json)
  BY <1>3
<1> QED BY <1>0, <1>2, <1>4, LineValue DEF c
\* The lines of each form.
LEMMA LinesAre ==
  /\ \A t \in DataStoreTx : /\ t.kind = "StoreData" /\ t.kind \in Kinds /\ t.kind # "RevokeSubgroveKey"
                        /\ Lines(t) = DataStoreLines(t) /\ Lined(t, Lines(t), 5)
  /\ \A t \in ManifestTx : /\ t.kind = "StoreFileManifest" /\ t.kind \in Kinds /\ t.kind # "RevokeSubgroveKey"
                        /\ Lines(t) = ManifestLines(t) /\ Lined(t, Lines(t), 12)
  /\ \A t \in DeleteTx : /\ t.kind = "DeleteFileManifest" /\ t.kind \in Kinds /\ t.kind # "RevokeSubgroveKey"
                        /\ Lines(t) = DeleteLines(t) /\ Lined(t, Lines(t), 4)
  /\ \A t \in UnregisterTx : /\ t.kind = "UnregisterStorageNode" /\ t.kind \in Kinds /\ t.kind # "RevokeSubgroveKey"
                        /\ Lines(t) = UnregisterLines(t) /\ Lined(t, Lines(t), 2)
  /\ \A t \in GrantTx : /\ t.kind = "GrantSubgroveKey" /\ t.kind \in Kinds /\ t.kind # "RevokeSubgroveKey"
                        /\ Lines(t) = GrantLines(t) /\ Lined(t, Lines(t), 10)
  /\ \A t \in RotateTx :
       /\ t.kind = "RotateSubgroveKey" /\ t.kind \in Kinds /\ t.kind # "RevokeSubgroveKey"
       /\ Lines(t) = RotateLines(t)
       /\ Len(t.grants) \in Numbers =>
            Len(t.grants) \in Nat /\ Lined(t, Lines(t), 7 * Len(t.grants) + 5)
  /\ \A t \in Txs : IsRegistration(t) =>
       /\ t.kind = "RegisterSubgrove" /\ t.kind \in Kinds /\ t.kind # "RevokeSubgroveKey"
       /\ Lines(t) = RegisterLines(t.json) /\ Lined(t, Lines(t), 4)
<1>1. ASSUME NEW t \in DataStoreTx
      PROVE  /\ t.kind = "StoreData" /\ t.kind \in Kinds /\ t.kind # "RevokeSubgroveKey"
             /\ Lines(t) = DataStoreLines(t) /\ Lined(t, Lines(t), 5)
  <2>1. t.kind = "StoreData"
    BY DEF DataStoreTx
  <2>2. t.kind \in Kinds /\ t.kind # "RevokeSubgroveKey"
    BY <2>1 DEF Kinds
  <2>3. Lines(t) = DataStoreLines(t)
    BY <2>1 DEF Lines
  <2> QED BY <2>1, <2>2, <2>3, DataStoreLined
<1>2. ASSUME NEW t \in ManifestTx
      PROVE  /\ t.kind = "StoreFileManifest" /\ t.kind \in Kinds /\ t.kind # "RevokeSubgroveKey"
             /\ Lines(t) = ManifestLines(t) /\ Lined(t, Lines(t), 12)
  <2>1. t.kind = "StoreFileManifest"
    BY DEF ManifestTx
  <2>2. t.kind \in Kinds /\ t.kind # "RevokeSubgroveKey"
    BY <2>1 DEF Kinds
  <2>3. Lines(t) = ManifestLines(t)
    BY <2>1 DEF Lines
  <2> QED BY <2>1, <2>2, <2>3, ManifestLined
<1>3. ASSUME NEW t \in DeleteTx
      PROVE  /\ t.kind = "DeleteFileManifest" /\ t.kind \in Kinds /\ t.kind # "RevokeSubgroveKey"
             /\ Lines(t) = DeleteLines(t) /\ Lined(t, Lines(t), 4)
  <2>1. t.kind = "DeleteFileManifest"
    BY DEF DeleteTx
  <2>2. t.kind \in Kinds /\ t.kind # "RevokeSubgroveKey"
    BY <2>1 DEF Kinds
  <2>3. Lines(t) = DeleteLines(t)
    BY <2>1 DEF Lines
  <2> QED BY <2>1, <2>2, <2>3, DeleteLined
<1>4. ASSUME NEW t \in UnregisterTx
      PROVE  /\ t.kind = "UnregisterStorageNode" /\ t.kind \in Kinds /\ t.kind # "RevokeSubgroveKey"
             /\ Lines(t) = UnregisterLines(t) /\ Lined(t, Lines(t), 2)
  <2>1. t.kind = "UnregisterStorageNode"
    BY DEF UnregisterTx
  <2>2. t.kind \in Kinds /\ t.kind # "RevokeSubgroveKey"
    BY <2>1 DEF Kinds
  <2>3. Lines(t) = UnregisterLines(t)
    BY <2>1 DEF Lines
  <2> QED BY <2>1, <2>2, <2>3, UnregisterLined
<1>5. ASSUME NEW t \in GrantTx
      PROVE  /\ t.kind = "GrantSubgroveKey" /\ t.kind \in Kinds /\ t.kind # "RevokeSubgroveKey"
             /\ Lines(t) = GrantLines(t) /\ Lined(t, Lines(t), 10)
  <2>1. t.kind = "GrantSubgroveKey"
    BY DEF GrantTx
  <2>2. t.kind \in Kinds /\ t.kind # "RevokeSubgroveKey"
    BY <2>1 DEF Kinds
  <2>3. Lines(t) = GrantLines(t)
    BY <2>1 DEF Lines
  <2> QED BY <2>1, <2>2, <2>3, GrantLined
<1>6. ASSUME NEW t \in RotateTx
      PROVE  /\ t.kind = "RotateSubgroveKey" /\ t.kind \in Kinds /\ t.kind # "RevokeSubgroveKey"
             /\ Lines(t) = RotateLines(t)
             /\ Len(t.grants) \in Numbers =>
                  Len(t.grants) \in Nat /\ Lined(t, Lines(t), 7 * Len(t.grants) + 5)
  <2>1. t.kind = "RotateSubgroveKey"
    BY DEF RotateTx
  <2>2. t.kind \in Kinds /\ t.kind # "RevokeSubgroveKey"
    BY <2>1 DEF Kinds
  <2>3. Lines(t) = RotateLines(t)
    BY <2>1 DEF Lines
  <2>4. Len(t.grants) \in Numbers =>
          Len(t.grants) \in Nat /\ Lined(t, RotateLines(t), 7 * Len(t.grants) + 5)
    BY RotateLined
  <2> QED BY <2>1, <2>2, <2>3, <2>4
<1>7. ASSUME NEW t \in Txs, IsRegistration(t)
      PROVE  /\ t.kind = "RegisterSubgrove" /\ t.kind \in Kinds /\ t.kind # "RevokeSubgroveKey"
             /\ Lines(t) = RegisterLines(t.json) /\ Lined(t, Lines(t), 4)
  <2>1. t.kind = "RegisterSubgrove"
    BY <1>7 DEF IsRegistration
  <2>2. t.kind \in Kinds /\ t.kind # "RevokeSubgroveKey"
    BY <2>1 DEF Kinds
  <2>3. Lines(t) = RegisterLines(t.json)
    BY <2>1 DEF Lines
  <2> QED BY <1>7, <2>1, <2>2, <2>3, RegisterLined
<1> QED BY <1>1, <1>2, <1>3, <1>4, <1>5, <1>6, <1>7

\* The kind says the form.
LEMMA FormOfKind ==
  ASSUME NEW t, IsTx(t)
  PROVE  /\ t.kind = "StoreData" => t \in DataStoreTx
         /\ t.kind = "StoreFileManifest" => t \in ManifestTx
         /\ t.kind = "DeleteFileManifest" => t \in DeleteTx
         /\ t.kind = "UnregisterStorageNode" => t \in UnregisterTx
         /\ t.kind = "GrantSubgroveKey" => t \in GrantTx
         /\ t.kind = "RevokeSubgroveKey" => t \in RevokeTx
         /\ t.kind = "RotateSubgroveKey" => t \in RotateTx /\ Len(t.grants) \in Numbers
         /\ t.kind = "RegisterSubgrove" => t \in Txs /\ IsRegistration(t)
<1>1. t \in RevokeTx => t.kind = "RevokeSubgroveKey"
  BY DEF RevokeTx
<1>2. /\ t \in DataStoreTx => t.kind = "StoreData"
      /\ t \in ManifestTx => t.kind = "StoreFileManifest"
      /\ t \in DeleteTx => t.kind = "DeleteFileManifest"
      /\ t \in UnregisterTx => t.kind = "UnregisterStorageNode"
      /\ t \in GrantTx => t.kind = "GrantSubgroveKey"
      /\ t \in RotateTx => t.kind = "RotateSubgroveKey"
      /\ t \in Txs /\ IsRegistration(t) => t.kind = "RegisterSubgrove"
  BY LinesAre
<1> QED BY <1>1, <1>2 DEF IsTx

LEMMA PieceFacts ==
  ASSUME NEW t, IsTx(t)
  PROVE  Piecewise(t)
<1>1. ASSUME NEW n \in Nat, t.kind \in Kinds, t.kind # "RevokeSubgroveKey", Lined(t, Lines(t), n)
      PROVE  Piecewise(t)
  BY <1>1, PiecesOfLines
<1>2. CASE \/ t \in DataStoreTx \/ t \in ManifestTx \/ t \in DeleteTx \/ t \in UnregisterTx
           \/ t \in GrantTx
  BY <1>1, <1>2, LinesAre
<1>3. CASE t \in RotateTx /\ Len(t.grants) \in Numbers
  <2>1. /\ Len(t.grants) \in Nat /\ t.kind \in Kinds /\ t.kind # "RevokeSubgroveKey"
        /\ Lined(t, Lines(t), 7 * Len(t.grants) + 5)
    BY <1>3, LinesAre
  <2>2. 7 * Len(t.grants) + 5 \in Nat
    BY <2>1
  <2> QED BY <1>1, <2>1, <2>2
<1>4. CASE t \in Txs /\ IsRegistration(t)
  BY <1>1, <1>4, LinesAre
<1>5. CASE t \in RevokeTx
  BY <1>5, RevokePieces
<1> QED BY <1>2, <1>3, <1>4, <1>5 DEF IsTx
\* A rotation's message says how many grants it has.
LEMMA RotateCounted ==
  ASSUME NEW s \in RotateTx, Len(s.grants) \in Numbers,
         NEW u \in RotateTx, Len(u.grants) \in Numbers,
         Format(u) # Refused, MessageText(s) = MessageText(u)
  PROVE  Len(s.grants) = Len(u.grants)
<1> DEFINE m == Len(s.grants)
           n == Len(u.grants)
           P == Pieces(s)
           Q == Pieces(u)
           Count(k) == line("Grants: ", Decimal(k))
<1>1. /\ IsTx(s) /\ IsTx(u)
      /\ u.kind \in Kinds /\ u.kind # "RevokeSubgroveKey" /\ s.kind \in Kinds
      /\ s.kind # "RevokeSubgroveKey"
      /\ m \in Nat /\ Lined(s, Lines(s), 7 * m + 5) /\ Lines(s)[4] = Count(m)
      /\ n \in Nat /\ Lined(u, Lines(u), 7 * n + 5) /\ Lines(u)[4] = Count(n)
      /\ \A i \in 1 .. 7 * n + 5 : Counts(Lines(u)[i]) => i = 4
  <2>1. Lines(s) = RotateLines(s) /\ Lines(u) = RotateLines(u)
    BY LinesAre
  <2>2. IsTx(s) /\ IsTx(u)
    BY DEF IsTx
  <2>3. m \in Nat /\ n \in Nat /\ Lines(s)[4] = Count(m) /\ Lines(u)[4] = Count(n)
    BY <2>1, RotateLined
  <2>4. \A i \in 1 .. 7 * n + 5 : Counts(Lines(u)[i]) => i = 4
    BY <2>1, RotateLined
  <2>5. Lined(s, Lines(s), 7 * m + 5) /\ Lined(u, Lines(u), 7 * n + 5)
    BY LinesAre
  <2>6. /\ u.kind \in Kinds /\ u.kind # "RevokeSubgroveKey"
        /\ s.kind \in Kinds /\ s.kind # "RevokeSubgroveKey"
    BY LinesAre
  <2> HIDE DEF m, n, Count
  <2> QED BY <2>2, <2>3, <2>4, <2>5, <2>6
<1>2. /\ 7 * m + 5 \in Nat /\ 7 * n + 5 \in Nat /\ 4 \in 1 .. 7 * m + 5 /\ 4 \in 1 .. 7 * n + 5
      /\ 5 \in 1 .. 1 + (7 * m + 5) /\ 4 + 1 = 5
  <2>1. m \in Nat /\ n \in Nat
    BY <1>1
  <2> HIDE DEF m, n
  <2> QED BY <2>1
<1>3. /\ Len(P) = 1 + (7 * m + 5) /\ \A i \in 1 .. 7 * m + 5 : P[i + 1] = Lines(s)[i]
      /\ Len(Q) = 1 + (7 * n + 5) /\ \A i \in 1 .. 7 * n + 5 : Q[i + 1] = Lines(u)[i]
      /\ Q[1] = <<u.kind>>
  <2> HIDE DEF m, n
  <2>1. Len(P) = 1 + (7 * m + 5) /\ Len(Q) = 1 + (7 * n + 5)
    BY <1>1, <1>2, PiecesOfLines
  <2> QED BY <1>1, <1>2, <2>1, OfLines
<1>4. Coarser(P, Q, NL)
  <2>1. SepOf(u) = NL
    BY <1>1 DEF SepOf
  <2> QED BY <1>1, <2>1, PieceFacts, SameText
<1>5. \A k \in Numbers : Counts(Count(k)) /\ FreeOf(Count(k), NL)
  <2>1. "Grants: " \in Labels /\ "Grants: " # NL
    BY DEF Labels, NL
  <2>2. "Grants: " \in Token
    BY <2>1, TokensAssumption
  <2>3. \A k \in Numbers : Decimal(k) \in Text /\ FreeOf(Decimal(k), NL)
    BY PrintFacts DEF IsPrinted
  <2> QED BY <2>1, <2>2, <2>3, LineFacts DEF Counts
<1>6. m \in Numbers /\ n \in Numbers
  OBVIOUS
<1> HIDE DEF m, n, P, Q
<1>7. P[5] = Count(m)
  BY <1>1, <1>2, <1>3
<1> HIDE DEF Count
<1>8. PICK i \in 1 .. Len(Q) : Q[i] = P[5]
  <2>1. 5 \in 1 .. Len(P) /\ FreeOf(P[5], NL)
    BY <1>2, <1>3, <1>5, <1>6, <1>7
  <2> QED BY <1>4, <2>1 DEF Coarser
<1>9. Counts(Q[i])
  BY <1>5, <1>6, <1>7, <1>8
<1>10. i # 1
  <2>1. ~Counts(Q[1])
    BY <1>1, <1>3, KindFacts
  <2> QED BY <1>9, <2>1
<1>11. i - 1 \in 1 .. 7 * n + 5 /\ (i - 1) + 1 = i
  BY <1>1, <1>3, <1>10
<1>12. Q[i] = Lines(u)[i - 1]
  BY <1>3, <1>11
<1>13. i - 1 = 4
  BY <1>1, <1>9, <1>11, <1>12
<1>14. Count(m) = Count(n)
  BY <1>1, <1>7, <1>8, <1>12, <1>13
<1> QED
  <2>1. "Grants: " \in Labels
    BY DEF Labels
  <2>2. m = n
    BY <1>6, <1>14, <2>1, LineValue DEF Count
  <2> QED BY <2>2 DEF m, n

\* What a signature stands for: two messages that are the same are of the same
\* transaction, to the chain.
LEMMA SameMessage ==
  ASSUME NEW s, NEW u, IsTx(s), IsTx(u), Format(u) # Refused, MessageText(s) = MessageText(u)
  PROVE  /\ s.kind = u.kind
         /\ s.kind # "RegisterSubgrove" => s = u
         /\ s.kind = "RegisterSubgrove" =>
              registerSubgrove(u.json) # Bad /\ registerSubgrove(s.json) = registerSubgrove(u.json)
<1>1. Piecewise(s) /\ Piecewise(u)
  BY PieceFacts
<1>2. s.kind = u.kind /\ Coarser(Pieces(s), Pieces(u), SepOf(u)) /\ u.kind \in Kinds
  BY <1>1, SameText, IsTxFacts
<1>3. ASSUME NEW n \in Nat, s.kind \in Kinds, s.kind # "RevokeSubgroveKey",
             Lined(s, Lines(s), n), Lined(u, Lines(u), n)
      PROVE  Lines(s) = Lines(u)
  BY <1>2, <1>3, SameLines
<1>4. CASE u.kind = "StoreData"
  <2>1. s \in DataStoreTx /\ u \in DataStoreTx
    BY <1>2, <1>4, FormOfKind
  <2>2. DataStoreLines(s) = DataStoreLines(u)
    BY <1>3, <2>1, LinesAre
  <2> QED BY <1>2, <1>4, <2>1, <2>2, DataStoreRead
<1>5. CASE u.kind = "StoreFileManifest"
  <2>1. s \in ManifestTx /\ u \in ManifestTx
    BY <1>2, <1>5, FormOfKind
  <2>2. ManifestLines(s) = ManifestLines(u)
    BY <1>3, <2>1, LinesAre
  <2> QED BY <1>2, <1>5, <2>1, <2>2, ManifestRead
<1>6. CASE u.kind = "DeleteFileManifest"
  <2>1. s \in DeleteTx /\ u \in DeleteTx
    BY <1>2, <1>6, FormOfKind
  <2>2. DeleteLines(s) = DeleteLines(u)
    BY <1>3, <2>1, LinesAre
  <2> QED BY <1>2, <1>6, <2>1, <2>2, DeleteRead
<1>7. CASE u.kind = "UnregisterStorageNode"
  <2>1. s \in UnregisterTx /\ u \in UnregisterTx
    BY <1>2, <1>7, FormOfKind
  <2>2. UnregisterLines(s) = UnregisterLines(u)
    BY <1>3, <2>1, LinesAre
  <2> QED BY <1>2, <1>7, <2>1, <2>2, UnregisterRead
<1>8. CASE u.kind = "GrantSubgroveKey"
  <2>1. s \in GrantTx /\ u \in GrantTx
    BY <1>2, <1>8, FormOfKind
  <2>2. GrantLines(s) = GrantLines(u)
    BY <1>3, <2>1, LinesAre
  <2> QED BY <1>2, <1>8, <2>1, <2>2, GrantRead
<1>9. CASE u.kind = "RotateSubgroveKey"
  <2>1. /\ s \in RotateTx /\ Len(s.grants) \in Numbers
        /\ u \in RotateTx /\ Len(u.grants) \in Numbers
    BY <1>2, <1>9, FormOfKind
  <2>2. Len(s.grants) = Len(u.grants)
    BY <2>1, RotateCounted
  <2>3. RotateLines(s) = RotateLines(u)
    <3> DEFINE n == 7 * Len(s.grants) + 5
    <3>1. /\ Len(s.grants) \in Nat /\ Lined(s, Lines(s), n) /\ Lined(u, Lines(u), n)
          /\ s.kind \in Kinds /\ s.kind # "RevokeSubgroveKey"
          /\ Lines(s) = RotateLines(s) /\ Lines(u) = RotateLines(u)
      BY <2>1, <2>2, LinesAre
    <3>2. n \in Nat
      BY <3>1
    <3> QED BY <1>3, <3>1, <3>2
  <2> QED BY <1>2, <1>9, <2>1, <2>2, <2>3, RotateRead
<1>10. CASE u.kind = "RegisterSubgrove"
  <2>1. s \in Txs /\ IsRegistration(s) /\ u \in Txs /\ IsRegistration(u)
    BY <1>2, <1>10, FormOfKind
  <2>2. RegisterLines(s.json) = RegisterLines(u.json)
    BY <1>3, <2>1, LinesAre
  <2>3. registerSubgrove(s.json) = registerSubgrove(u.json)
    BY <2>1, <2>2, RegisterRead
  <2>4. registerSubgrove(u.json) # Bad
    BY <1>10, Signable DEF Registrable
  <2> QED BY <1>2, <1>10, <2>3, <2>4
<1>11. CASE u.kind = "RevokeSubgroveKey"
  <2>1. s \in RevokeTx /\ u \in RevokeTx
    BY <1>2, <1>11, FormOfKind
  <2>2. Len(Pieces(s)) = 5 /\ Len(Pieces(u)) = 5
    BY <2>1, RevokePieces
  <2>3. Pieces(s) = Pieces(u)
    BY <1>2, <2>2 DEF Coarser
  <2> QED BY <1>2, <1>11, <2>1, <2>3, RevokeRead
<1> QED BY <1>2, <1>4, <1>5, <1>6, <1>7, <1>8, <1>9, <1>10, <1>11 DEF Kinds
LEMMA SentKind ==
  ASSUME NEW t \in Txs
  PROVE  AsSent(t).kind = t.kind
<1>1. "kind" \in DOMAIN t
  <2>1. t \in RevokeTx \/ t \in RotateTx => "kind" \in DOMAIN t
    BY DEF RevokeTx, RotateTx
  <2>2. t \in DataStoreTx \/ t \in ManifestTx \/ t \in DeleteTx => "kind" \in DOMAIN t
    BY DEF DataStoreTx, ManifestTx, DeleteTx
  <2>3. t \in UnregisterTx \/ t \in GrantTx => "kind" \in DOMAIN t
    BY DEF UnregisterTx, GrantTx
  <2>4. IsRegistration(t) => "kind" \in DOMAIN t
    <3> SUFFICES ASSUME IsRegistration(t) PROVE "kind" \in DOMAIN t
      OBVIOUS
    <3>1. t = [kind |-> "RegisterSubgrove", json |-> t.json]
      BY DEF IsRegistration
    <3>2. DOMAIN t = {"kind", "json"}
      BY <3>1
    <3> QED BY <3>2
  <2> QED BY <2>1, <2>2, <2>3, <2>4, TxsAssumption
<1>2. "kind" \notin TextFields /\ "kind" # "grants"
  BY DEF TextFields
<1> QED BY <1>1, <1>2, SentFields

\* A transaction whose message was signed, and one sent that gives it.
LEMMA SameMeaning ==
  ASSUME NEW t \in Txs, NEW u \in Txs, Format(u) # Refused, Rebuilt[t] = Format(u)
  PROVE  t.kind = u.kind /\ Means(t) = Means(u)
<1> DEFINE s == AsSent(t)
<1>1. MessageText(s) = MessageText(u)
  <2>1. Rebuilt[t] = MessageText(s)
    BY DEF Rebuilt
  <2> QED BY <2>1, Signable
<1>2. IsTx(s) /\ IsTx(u) /\ AsSent(s) = s /\ s.kind = t.kind
  BY TxFacts, SentKind
<1>3. /\ s.kind = u.kind
      /\ s.kind # "RegisterSubgrove" => s = u
      /\ s.kind = "RegisterSubgrove" =>
           registerSubgrove(u.json) # Bad /\ registerSubgrove(s.json) = registerSubgrove(u.json)
  <2> HIDE DEF s
  <2> QED BY <1>1, <1>2, SameMessage
<1>4. CASE s.kind # "RegisterSubgrove"
  <2>1. Means(t) = s /\ Means(u) = AsSent(u)
    BY <1>2, <1>3, <1>4 DEF Means
  <2> QED BY <1>2, <1>3, <1>4, <2>1
<1>5. CASE s.kind = "RegisterSubgrove"
  <2>1. IsRegistration(t)
    BY <1>2, <1>5, TxFacts, FormOfKind
  <2>2. s = t
    BY <2>1, FormsAreKept
  <2>3. t \in Registrations /\ u \in Registrations
    BY <1>2, <1>3, <1>5 DEF Registrations
  <2>4. RegistrationMeans(t.json) = RegistrationMeans(u.json)
    BY <1>3, <1>5, <2>2, <2>3, RegistrationsAssumption
  <2> QED BY <1>2, <1>3, <1>5, <2>4 DEF Means
<1> QED BY <1>4, <1>5

\* What is signed is sent as it is, but for a revocation of bytes that are not UTF-8.
Misread(t) == t.kind = "RevokeSubgroveKey" /\ Contains(t.subgrove, Invalid)

LEMMA SentAsSigned ==
  ASSUME NEW t \in Txs, Format(t) # Refused, ~Misread(t)
  PROVE  AsSent(t) = t
<1>1. IsTx(t) /\ Worded(t) /\ t.kind \in Kinds
  BY TxFacts, IsTxFacts
<1>2. Unbroken(t)
  BY Signable
<1>3. CASE t.kind = "RegisterSubgrove"
  BY <1>1, <1>3, FormOfKind, FormsAreKept
<1>4. CASE t.kind = "RevokeSubgroveKey"
  <2>1. t \in RevokeTx
    BY <1>1, <1>4, FormOfKind
  <2>2. /\ t.revokee \in Text /\ t.sender \in Text
        /\ DOMAIN t \intersect TextFields = {"subgrove", "revokee", "sender"}
        /\ "grants" \notin DOMAIN t
    BY <2>1 DEF RevokeTx, TextFields
  <2>3. validateWillowDID(t.revokee) /\ validateWillowDID(t.sender)
    BY <1>4, Signable DEF validateRevoke
  <2>4. ~Contains(t.subgrove, Invalid) /\ ~Contains(t.revokee, Invalid) /\ ~Contains(t.sender, Invalid)
    BY <1>4, <2>2, <2>3, DIDUnbroken DEF Misread
  <2>5. \A f \in DOMAIN t \intersect TextFields : ~Contains(t[f], Invalid)
    BY <2>2, <2>4
  <2> QED BY <1>1, <2>2, <2>5, SentOnce
<1>5. CASE t.kind \notin {"RegisterSubgrove", "RevokeSubgroveKey"}
  <2>1. \A v \in TextsOf(t) : ~Contains(v, Invalid)
    BY <1>2 DEF Unbroken, BadText
  <2>2. \A f \in DOMAIN t \intersect TextFields : ~Contains(t[f], Invalid)
    BY <1>5, <2>1, TextsAre
  <2>3. "grants" \in DOMAIN t => t.kind \in {"GrantSubgroveKey", "RotateSubgroveKey"}
    <3>1. t \in DataStoreTx \/ t \in ManifestTx \/ t \in DeleteTx => "grants" \notin DOMAIN t
      BY DEF DataStoreTx, ManifestTx, DeleteTx
    <3>2. t \in UnregisterTx \/ t \in RevokeTx => "grants" \notin DOMAIN t
      BY DEF UnregisterTx, RevokeTx
    <3>3. t \in GrantTx \/ t \in RotateTx => t.kind \in {"GrantSubgroveKey", "RotateSubgroveKey"}
      BY DEF GrantTx, RotateTx
    <3>4. IsRegistration(t) => t.kind = "RegisterSubgrove"
      BY DEF IsRegistration
    <3> QED BY <1>1, <1>5, <3>1, <3>2, <3>3, <3>4 DEF IsTx
  <2>4. ASSUME "grants" \in DOMAIN t, NEW i \in DOMAIN t.grants, NEW v \in GrantTexts(t.grants[i])
        PROVE  ~Contains(v, Invalid)
    BY <2>1, <2>3, <2>4, TextsAre
  <2> QED BY <1>1, <2>2, <2>4, SentOnce
<1> QED BY <1>3, <1>4, <1>5

\* The chain's rules, from those of the builders.
LEMMA DIDsTaken ==
  ASSUME NEW d \in Text, validateWillowDID(d)
  PROVE  IsDID(d)
<1>1. /\ Len(d) \in Nat /\ Len(d) >= 2 /\ Len(d) <= MaxDid
      /\ d[1] = "did:willow:" /\ \A i \in 2 .. Len(d) : d[i] \in Plain
  BY DEF validateWillowDID, Text
<1>2. d # <<>> /\ Head(d) = d[1] /\ Tail(d) \in Text /\ Len(Tail(d)) = Len(d) - 1
  BY <1>1 DEF Text
<1>3. \A i \in 1 .. Len(Tail(d)) : Tail(d)[i] = d[i + 1] /\ i + 1 \in 2 .. Len(d)
  BY <1>1, <1>2 DEF Text
<1>4. ToSet(Tail(d)) \subseteq Plain
  <2>1. DOMAIN Tail(d) = 1 .. Len(Tail(d))
    BY <1>2 DEF Text
  <2> QED BY <2>1, <1>1, <1>3 DEF ToSet
<1>5. Tail(d) # <<>>
  BY <1>1, <1>2
<1> QED BY <1>1, <1>2, <1>4, <1>5 DEF IsDID

LEMMA IDsTaken ==
  ASSUME NEW id \in Text, validateStorageSubgroveID(id)
  PROVE  IsSubgroveID(id)
<1>1. /\ Len(id) \in Nat /\ Len(id) >= 1 /\ Len(id) <= MaxId
      /\ id[1] \in Alnum /\ \A i \in DOMAIN id : id[i] \in Plain
  BY DEF validateStorageSubgroveID, Text
<1>2. id # <<>> /\ Head(id) = id[1]
  BY <1>1 DEF Text
<1>3. ToSet(id) \subseteq Plain
  BY <1>1 DEF ToSet
<1> QED BY <1>1, <1>2, <1>3 DEF IsSubgroveID

LEMMA ListsTaken ==
  ASSUME NEW list \in Texts, AllDIDs(list)
  PROVE  AreDIDs(list)
<1>1. list[2] \in Seq({"str"} \X Text)
  BY DEF Texts
<1>2. ASSUME NEW i \in DOMAIN list[2]
      PROVE  IsDID(list[2][i][2])
  <2>1. list[2][i] \in {"str"} \X Text
    BY <1>1, <1>2
  <2>2. validateWillowDID(list[2][i][2])
    BY <1>2 DEF AllDIDs, Tokens
  <2> QED BY <2>1, <2>2, DIDsTaken
<1> QED BY <1>2 DEF AreDIDs

LEMMA SchemasTaken ==
  ASSUME NEW s, checkChainSchema(s)
  PROVE  IsSchema(s)
<1> DEFINE members == SchemaOf[s]
           Of(key) == {i \in DOMAIN members : members[i].key = key}
           known   == {"version", "fields", "indexes", "required_fields"}
<1>1. s \in DOMAIN SchemaOf
  BY DEF checkChainSchema
<1>2. \A i \in DOMAIN members : members[i].key \in known =>
        /\ \A j \in 1 .. i - 1 : members[j].key # members[i].key
        /\ SchemaMember(members[i])
  BY DEF checkChainSchema
<1>3. DOMAIN members = 1 .. Len(members)
  BY <1>1, SchemasAssumption
<1>4. ASSUME NEW key \in known, NEW i \in Of(key), NEW j \in Of(key)
      PROVE  i = j
  <2>1. i \in Int /\ j \in Int /\ i >= 1 /\ j >= 1
    BY <1>3
  <2>2. ~(i < j)
    BY <1>2, <2>1
  <2>3. ~(j < i)
    BY <1>2, <2>1
  <2> QED BY <2>1, <2>2, <2>3
<1>5. \A i \in Of("version") : members[i].value[1] = "num" /\ members[i].value[2] >= 0
  BY <1>2 DEF SchemaMember, Kind
<1>6. \A i \in Of("fields") :
        /\ members[i].value[1] = "obj"
        /\ \A f \in DOMAIN members[i].value[2] :
             members[i].value[2][f][1] = "str" /\ members[i].value[2][f][2] \in FieldTypes
  <2>1. chainFieldTypes = FieldTypes
    BY DEF chainFieldTypes, FieldTypes
  <2> QED BY <1>2, <2>1 DEF SchemaMember, IsObject, Kind
<1>7. \A i \in Of("indexes") : members[i].value[1] = "arr" /\ members[i].value[2] = <<>>
  BY <1>2 DEF SchemaMember, Kind
<1>8. \A i \in Of("required_fields") :
        /\ members[i].value[1] = "arr"
        /\ \A n \in DOMAIN members[i].value[2] : members[i].value[2][n][1] = "str"
  BY <1>2 DEF SchemaMember, Kind
<1> QED BY <1>1, <1>4, <1>5, <1>6, <1>7, <1>8 DEF IsSchema

LEMMA RegistrationsTaken ==
  ASSUME NEW t \in Txs, Format(t) # Refused, t.kind = "RegisterSubgrove"
  PROVE  TakesRegistration(t)
<1> DEFINE j == t.json
           g == At(j, "initial_owner_key_grant")
           mode == At(At(j, "mode"), ModeName(j))
           writers == At(mode, "writers")
           readers == At(mode, "free_readers")
<1>1. registerSubgrove(j) # Bad /\ checkStorageRegistration(j)
      /\ OneMode(j) /\ ModeName(j) # "BlockchainIndexing"
  BY Signable DEF Registrable
<1>2. t \in Registrations /\ IsRegistration(t)
  BY TxFacts, FormOfKind DEF Registrations
<1>3. Means(t) # Unreadable
  BY <1>1, <1>2, RegistrationsAssumption DEF Means
<1>4. /\ IsSubgroveID(TokensAt(j, "subgrove_id"))
      /\ IsSchema(TokensAt(j, "schema"))
  <2>1. TokensAt(j, "subgrove_id") \in Text
    BY <1>2 DEF IsRegistration, TokensAt, Tokens
  <2> QED BY <1>1, <2>1, IDsTaken, SchemasTaken DEF checkStorageRegistration
<1>5. AreDIDs(At(j, "admins"))
  <2>1. At(j, "admins") \in Texts /\ AllDIDs(At(j, "admins"))
    BY <1>1, <1>2 DEF IsRegistration, checkStorageRegistration
  <2> QED BY <2>1, ListsTaken
<1>6. AreDIDs(writers) /\ AreDIDs(readers)
  <2>1. DOMAIN At(j, "mode")[2] # {}
    BY <1>1, FS_EmptySet DEF OneMode
  <2>2. ModeName(j) \in DOMAIN At(j, "mode")[2] \ {"BlockchainIndexing"}
    BY <1>1, <2>1 DEF ModeName
  <2>3. mode = At(j, "mode")[2][ModeName(j)]
    BY <2>2 DEF At
  <2>4. writers \in Texts /\ readers \in Texts
    BY <1>2, <2>2, <2>3 DEF IsRegistration
  <2>5. AllDIDs(writers) /\ AllDIDs(readers)
    BY <1>1 DEF checkStorageRegistration
  <2> QED BY <2>4, <2>5, ListsTaken
<1>7. ASSUME At(j, "privacy") # Null, g # Null, ModeName(j) = "DataStorage"
      PROVE  /\ At(g, "key_epoch") = <<"num", 0>> /\ At(g, "grantee_did") = At(j, "owner_did")
             /\ IsDID(TokensAt(j, "owner_did"))
  <2>1. /\ At(g, "key_epoch")[2] = 0
        /\ TokensAt(g, "grantee_did") = TokensAt(j, "owner_did")
        /\ validateWillowDID(TokensAt(g, "grantee_did"))
    BY <1>1, <1>7 DEF checkStorageRegistration
  <2>2. /\ At(g, "key_epoch") \in {"num"} \X Nat
        /\ At(g, "grantee_did") \in {"str"} \X Text
        /\ At(j, "owner_did") \in {"str"} \X Text
    BY <1>2, <1>7 DEF IsRegistration
  <2>3. \A x, y, z : x \in {y} \X z => x = <<y, x[2]>>
    OBVIOUS
  <2>4. /\ At(g, "key_epoch") = <<"num", At(g, "key_epoch")[2]>>
        /\ At(g, "grantee_did") = <<"str", At(g, "grantee_did")[2]>>
        /\ At(j, "owner_did") = <<"str", At(j, "owner_did")[2]>>
    BY <2>2, <2>3
  <2>5. TokensAt(j, "owner_did") \in Text
    BY <2>2 DEF TokensAt, Tokens
  <2> QED BY <2>1, <2>4, <2>5, DIDsTaken DEF TokensAt, Tokens
<1> QED BY <1>3, <1>4, <1>5, <1>6, <1>7 DEF TakesRegistration

\* What is signed, the chain's own rules let through.
LEMMA SignedTakes ==
  ASSUME NEW t \in Txs, Format(t) # Refused
  PROVE  Takes(t)
<1>1. \A v \in TextsOf(t) : ~Contains(v, NL)
  BY Signable DEF Unbroken, BadText
<1>2. ASSUME t.kind \in {"GrantSubgroveKey", "RotateSubgroveKey"}, NEW i \in DOMAIN t.grants
      PROVE  IsDID(t.grants[i].grantee)
  <2>1. validateGrantees(t.grants)
    BY <1>2, Signable DEF validateRotation
  <2>2. t \in GrantTx \/ t \in RotateTx
    BY <1>2, TxFacts, FormOfKind
  <2>3. t.grants[i] \in GrantRecords
    BY <1>2, <2>2 DEF GrantTx, RotateTx
  <2>4. t.grants[i].grantee \in Text
    BY <2>3 DEF GrantRecords
  <2> QED BY <1>2, <2>1, <2>4, DIDsTaken DEF validateGrantees
<1>3. ASSUME t.kind = "RotateSubgroveKey"
      PROVE  /\ t.grants # <<>>
             /\ \A i \in DOMAIN t.grants : t.grants[i].epoch = t.newEpoch
  BY <1>3, Signable DEF validateRotation
<1>4. ASSUME t.kind = "RevokeSubgroveKey"
      PROVE  /\ t.subgrove # <<>> /\ {":", "did:willow:"} \intersect ToSet(t.subgrove) = {}
             /\ IsDID(t.revokee) /\ IsDID(t.sender)
  <2>1. validateRevoke(t) /\ t \in RevokeTx
    BY <1>4, Signable, TxFacts, FormOfKind
  <2>2. t.revokee \in Text /\ t.sender \in Text
    BY <2>1 DEF RevokeTx
  <2>3. {":", "did:willow:"} \intersect ToSet(t.subgrove) = {}
    BY <2>1 DEF validateRevoke, Contains, ToSet
  <2> QED BY <2>1, <2>2, <2>3, DIDsTaken DEF validateRevoke
<1>5. t.kind = "RegisterSubgrove" => TakesRegistration(t)
  BY RegistrationsTaken
<1> QED BY <1>1, <1>2, <1>3, <1>4, <1>5 DEF Takes

\* Nothing runs before a message is signed, and what is signed is the message of
\* the owner's transaction.
MessagesInv ==
  /\ outcome \in {"", "refused"} => ran = {}
  /\ outcome \in {"signed", "ran", "rejected"} =>
       tx \in Txs /\ Format(tx) # Refused /\ message = Format(tx)
  /\ outcome \in {"", "refused", "signed", "ran", "rejected"}
  /\ OnlyWhatWasSigned
  /\ SignedIsTaken

LEMMA MessagesBegin == Init => MessagesInv
BY DEF Init, MessagesInv, OnlyWhatWasSigned, SignedIsTaken

LEMMA MessagesStep == MessagesInv /\ [Next]_vars => MessagesInv'
<1> SUFFICES ASSUME MessagesInv, [Next]_vars PROVE MessagesInv'
  OBVIOUS
<1>1. CASE Deliver
  <2>1. /\ tx \in Txs /\ Format(tx) # Refused /\ message = Format(tx)
        /\ outcome = "signed" /\ tx' = tx /\ message' = message
    BY <1>1 DEF Deliver, MessagesInv
  <2>2. CASE Takes(AsSent(tx)) /\ Rebuilt[tx] = message
    <3>1. outcome' = "ran" /\ ran' = ran \union {tx}
      BY <1>1, <2>2 DEF Deliver
    <3>2. OnlyWhatWasSigned'
      BY <2>1, <3>1 DEF MessagesInv, OnlyWhatWasSigned, Means
    <3> QED BY <2>1, <3>1, <3>2 DEF MessagesInv, SignedIsTaken
  <2>3. CASE ~(Takes(AsSent(tx)) /\ Rebuilt[tx] = message)
    <3>1. outcome' = "rejected" /\ ran' = ran
      BY <1>1, <2>3 DEF Deliver
    <3>2. OnlyWhatWasSigned'
      BY <2>1, <3>1 DEF MessagesInv, OnlyWhatWasSigned, Means
    <3>3. Misread(tx)
      <4> SUFFICES ASSUME ~Misread(tx) PROVE FALSE
        OBVIOUS
      <4>1. AsSent(tx) = tx
        BY <2>1, SentAsSigned
      <4>2. Takes(tx)
        BY <2>1, SignedTakes
      <4>3. Rebuilt[tx] = MessageText(tx)
        BY <2>1, <4>1 DEF Rebuilt
      <4> QED BY <2>1, <2>3, <4>1, <4>2, <4>3, Signable
    <3> QED BY <2>1, <3>1, <3>2, <3>3 DEF MessagesInv, SignedIsTaken, Misread
  <2> QED BY <2>2, <2>3
<1>2. ASSUME NEW t \in Txs, Sign(t) PROVE MessagesInv'
  <2>1. /\ ran = {} /\ ran' = {} /\ tx' = t /\ message' = Format(t)
        /\ outcome' = IF Format(t) = Refused THEN "refused" ELSE "signed"
    BY <1>2 DEF Sign, MessagesInv
  <2> QED BY <2>1 DEF MessagesInv, OnlyWhatWasSigned, SignedIsTaken
<1>3. ASSUME NEW t \in Txs, Present(t) PROVE MessagesInv'
  <2>1. /\ tx \in Txs /\ Format(tx) # Refused /\ message = Format(tx) /\ Rebuilt[t] = message
        /\ outcome \in {"signed", "ran"} /\ ran' = ran \union {t}
        /\ tx' = tx /\ message' = message /\ outcome' = outcome
    BY <1>3 DEF Present, MessagesInv
  <2>2. t.kind = tx.kind /\ Means(t) = Means(tx)
    BY <2>1, SameMeaning
  <2>3. OnlyWhatWasSigned'
    BY <2>1, <2>2 DEF MessagesInv, OnlyWhatWasSigned, Means
  <2> QED BY <2>1, <2>3 DEF MessagesInv, SignedIsTaken
<1>4. ASSUME NEW j \in Jsons, Encode(j) PROVE MessagesInv'
  <2>1. ran = {} /\ ran' = {} /\ outcome' = "refused"
    BY <1>4 DEF Encode, MessagesInv
  <2> QED BY <2>1 DEF MessagesInv, OnlyWhatWasSigned, SignedIsTaken
<1>5. CASE UNCHANGED vars
  BY <1>5 DEF vars, MessagesInv, OnlyWhatWasSigned, SignedIsTaken, Means
<1> QED BY <1>1, <1>2, <1>3, <1>4, <1>5 DEF Next

LEMMA MessagesHold == Spec => []MessagesInv
<1> QED BY MessagesBegin, MessagesStep, PTL DEF Spec

\* A signature stands for one transaction: two messages that are the same text
\* are read back as the same fields, so the chain runs nothing else under it.
THEOREM SignatureIsOfOne == Spec => []OnlyWhatWasSigned
<1>1. MessagesInv => OnlyWhatWasSigned
  BY DEF MessagesInv
<1> QED BY <1>1, MessagesHold, PTL

\* What the builders sign the chain takes, but for a revocation of a subgrove
\* id that is not UTF-8.
THEOREM WhatIsSignedIsTaken == Spec => []SignedIsTaken
<1>1. MessagesInv => SignedIsTaken
  BY DEF MessagesInv
<1> QED BY <1>1, MessagesHold, PTL

-----------------------------------------------------------------------------
(***************************************************************************)
(* LayerWalk.  Frame i has a path of i - 1 segments that extends those     *)
(* below it, each by a key walked there, and what was run below a frame    *)
(* was run below a key it has walked: a key not walked yet leads to a      *)
(* layer that has not been run.                                            *)
(***************************************************************************)
FrameShape(f) == f = [path |-> f.path, lower |-> f.lower, root |-> f.root, left |-> f.left, walked |-> f.walked]

\* A sequence, of whatever it holds.
IsSeq(s) == s \in Seq(Range(s))

NestedFrames(fs) ==
  /\ IsSeq(fs)
  /\ \A i \in 1 .. Len(fs) :
       /\ FrameShape(fs[i])
       /\ IsSeq(fs[i].path) /\ Len(fs[i].path) = i - 1
  /\ \A i, j \in 1 .. Len(fs) : j < i =>
       /\ fs[i].path[j] \in fs[j].walked
       /\ \A m \in 1 .. (j - 1) : fs[i].path[m] = fs[j].path[m]

RunBelowWalked(fs, run) ==
  \A p \in run : \A i \in 1 .. Len(fs) :
    Len(p) >= i /\ (\A m \in 1 .. (i - 1) : p[m] = fs[i].path[m]) => p[i] \in fs[i].walked

LayersInv ==
  /\ NestedFrames(frames) /\ RunBelowWalked(frames, layersRun)
  /\ IsFiniteSet(layersRun) /\ calls = Cardinality(layersRun)

LEMMA OwnRange == ASSUME NEW S, NEW t \in Seq(S) PROVE IsSeq(t)
<1>1. \A i \in 1 .. Len(t) : t[i] \in Range(t)
  BY DEF Range
<1> QED BY <1>1 DEF IsSeq

LEMMA SeqLen == \A s : IsSeq(s) => Len(s) \in Nat /\ (s # <<>> => Len(s) > 0)
  BY EmptySeq DEF IsSeq

\* A sequence with another element.
Appended(t, s, e) ==
  /\ IsSeq(t) /\ Len(t) = Len(s) + 1 /\ t[Len(s) + 1] = e
  /\ \A i \in 1 .. Len(s) : t[i] = s[i]

LEMMA AppendIs == ASSUME NEW s, NEW e, IsSeq(s) PROVE Appended(Append(s, e), s, e)
<1> DEFINE t == Append(s, e)
<1> DEFINE S == Range(s) \cup {e}
<1>1. s \in Seq(S) /\ e \in S
  BY SeqMonotonic DEF IsSeq
<1> HIDE DEF S
<1>2. /\ t \in Seq(S) /\ Len(t) = Len(s) + 1
      /\ \A i \in 1 .. Len(s) : t[i] = s[i]
      /\ t[Len(s) + 1] = e
  BY <1>1
<1> HIDE DEF t
<1>3. Appended(t, s, e)
  BY <1>2, OwnRange DEF Appended
<1> QED BY <1>3 DEF t

\* A sequence with an element replaced.
Replaced(t, s, k, e) ==
  /\ IsSeq(t) /\ Len(t) = Len(s) /\ t[k] = e
  /\ \A i \in 1 .. Len(s) : i # k => t[i] = s[i]

LEMMA ReplacedIs ==
  ASSUME NEW s, NEW k, NEW e, IsSeq(s), k \in 1 .. Len(s) PROVE Replaced([s EXCEPT ![k] = e], s, k, e)
<1> DEFINE t == [s EXCEPT ![k] = e]
<1> DEFINE S == Range(s) \cup {e}
<1>1. s \in Seq(S) /\ e \in S
  BY SeqMonotonic DEF IsSeq
<1> HIDE DEF S
<1>2. t \in Seq(S) /\ Len(t) = Len(s) /\ \A i \in 1 .. Len(s) : t[i] = IF i = k THEN e ELSE s[i]
  BY <1>1, ExceptSeq
<1> HIDE DEF t
<1>3. Replaced(t, s, k, e)
  BY <1>2, OwnRange DEF Replaced
<1> QED BY <1>3 DEF t

\* A frame that goes on, or has walked another key.
Kept(g, f, walked) == FrameShape(g) /\ g.path = f.path /\ g.walked = walked

LEMMA FrameIsKept ==
  ASSUME NEW f, NEW x, FrameShape(f)
  PROVE  Kept([f EXCEPT !.left = x], f, f.walked) /\ Kept([f EXCEPT !.walked = x], f, x)
<1>1. PICK p, l, r, t, w : f = [path |-> p, lower |-> l, root |-> r, left |-> t, walked |-> w]
  BY DEF FrameShape
<1>2. /\ [f EXCEPT !.left = x] = [path |-> p, lower |-> l, root |-> r, left |-> x, walked |-> w]
      /\ [f EXCEPT !.walked = x] = [path |-> p, lower |-> l, root |-> r, left |-> t, walked |-> x]
  BY <1>1
<1> QED BY <1>1, <1>2 DEF FrameShape, Kept

\* Frames of the same paths, that have walked as much or more, are as good.
LEMMA FramesGoOn ==
  ASSUME NEW fs, NEW gs, NEW run, NestedFrames(fs), RunBelowWalked(fs, run),
         IsSeq(gs), Len(gs) <= Len(fs),
         \A i \in 1 .. Len(gs) : /\ FrameShape(gs[i]) /\ gs[i].path = fs[i].path
                                 /\ fs[i].walked \subseteq gs[i].walked
  PROVE  NestedFrames(gs) /\ RunBelowWalked(gs, run)
<1>1. Len(gs) \in Nat /\ Len(fs) \in Nat /\ \A i \in 1 .. Len(gs) : i \in 1 .. Len(fs)
  BY SeqLen DEF NestedFrames
<1>2. NestedFrames(gs)
  <2>1. ASSUME NEW i \in 1 .. Len(gs), NEW j \in 1 .. Len(gs), j < i
        PROVE  /\ gs[i].path[j] \in gs[j].walked
               /\ \A m \in 1 .. (j - 1) : gs[i].path[m] = gs[j].path[m]
    BY <1>1, <2>1 DEF NestedFrames
  <2> QED BY <1>1, <2>1 DEF NestedFrames
<1>3. RunBelowWalked(gs, run)
  BY <1>1 DEF RunBelowWalked
<1> QED BY <1>2, <1>3

\* A frame pushed for a key the innermost has walked, but below which nothing
\* was run, is in its place, and its layer was not run.
NotRun(fs, run, key) ==
  \A p \in run :
    Len(p) >= Len(fs) /\ (\A m \in 1 .. (Len(fs) - 1) : p[m] = fs[Len(fs)].path[m]) => p[Len(fs)] # key

LEMMA FramePushed ==
  ASSUME NEW fs, NEW run, NEW key, NEW gs, NEW g, NEW path,
         NestedFrames(fs), RunBelowWalked(fs, run), NotRun(fs, run, key),
         Len(fs) > 0, key \in fs[Len(fs)].walked,
         FrameShape(g), g.path = path, Appended(path, fs[Len(fs)].path, key), Appended(gs, fs, g)
  PROVE  NestedFrames(gs) /\ RunBelowWalked(gs, run \cup {path}) /\ path \notin run
<1> DEFINE n == Len(fs)
           top == fs[n].path
<1>0. IsSeq(fs) /\ n \in Nat /\ n \in 1 .. n
  BY SeqLen DEF NestedFrames
<1>1. n \in Nat /\ n > 0 /\ IsSeq(top) /\ Len(top) = n - 1 /\ IsSeq(fs)
  BY <1>0 DEF NestedFrames
<1>2. IsSeq(gs) /\ Len(gs) = n + 1 /\ (\A i \in 1 .. n : gs[i] = fs[i]) /\ gs[n + 1] = g
  BY DEF Appended
<1>3. IsSeq(g.path) /\ Len(path) = n /\ (\A m \in 1 .. (n - 1) : path[m] = top[m]) /\ path[n] = key
  BY <1>1 DEF Appended
<1>4. \A i \in 1 .. n : FrameShape(fs[i]) /\ IsSeq(fs[i].path) /\ Len(fs[i].path) = i - 1
  BY DEF NestedFrames
<1>5. ASSUME NEW i \in 1 .. n, NEW j \in 1 .. n, j < i
      PROVE  /\ fs[i].path[j] \in fs[j].walked
             /\ \A m \in 1 .. (j - 1) : fs[i].path[m] = fs[j].path[m]
  BY <1>5 DEF NestedFrames
<1>6. \A j \in 1 .. n : path[j] \in fs[j].walked /\ \A m \in 1 .. (j - 1) : path[m] = fs[j].path[m]
  <2> SUFFICES ASSUME NEW j \in 1 .. n
               PROVE  path[j] \in fs[j].walked /\ \A m \in 1 .. (j - 1) : path[m] = fs[j].path[m]
    OBVIOUS
  <2>1. CASE j = n
    BY <1>1, <1>3, <2>1
  <2>2. CASE j < n
    <3>1. /\ fs[n].path[j] \in fs[j].walked
          /\ \A m \in 1 .. (j - 1) : fs[n].path[m] = fs[j].path[m]
      BY <1>0, <1>5, <2>2
    <3> QED BY <1>1, <1>3, <2>2, <3>1
  <2> QED BY <1>1, <2>1, <2>2
<1>7. path \notin run
  BY <1>1, <1>3 DEF NotRun
<1>8. RunBelowWalked(gs, run \cup {path})
  <2> SUFFICES ASSUME NEW p \in run \cup {path}, NEW i \in 1 .. (n + 1), Len(p) >= i,
                      \A m \in 1 .. (i - 1) : p[m] = gs[i].path[m]
               PROVE  p[i] \in gs[i].walked
    BY <1>2 DEF RunBelowWalked
  <2>1. CASE p = path
    BY <1>1, <1>2, <1>3, <1>6, <2>1
  <2>2. CASE p \in run /\ i \in 1 .. n
    BY <1>2, <2>2 DEF RunBelowWalked
  <2>3. CASE p \in run /\ i = n + 1
    <3>1. \A m \in 1 .. n : p[m] = path[m]
      BY <1>1, <1>2, <2>3
    <3>2. p[n] = key /\ \A m \in 1 .. (n - 1) : p[m] = top[m]
      BY <1>1, <1>3, <3>1
    <3>3. Len(p) >= n
      BY <1>1, <2>3
    <3> QED BY <2>3, <3>2, <3>3 DEF NotRun
  <2> QED BY <1>1, <2>1, <2>2, <2>3
<1>9. NestedFrames(gs)
  <2>1. \A i \in 1 .. Len(gs) : i \in 1 .. n \/ i = n + 1
    BY <1>1, <1>2
  <2>2. ASSUME NEW i \in 1 .. Len(gs)
        PROVE  FrameShape(gs[i]) /\ IsSeq(gs[i].path) /\ Len(gs[i].path) = i - 1
    BY <1>1, <1>2, <1>3, <1>4, <2>1
  <2>3. ASSUME NEW i \in 1 .. Len(gs), NEW j \in 1 .. Len(gs), j < i
        PROVE  /\ gs[i].path[j] \in gs[j].walked
               /\ \A m \in 1 .. (j - 1) : gs[i].path[m] = gs[j].path[m]
    <3>1. j \in 1 .. n /\ gs[j] = fs[j]
      BY <1>1, <1>2, <2>1, <2>3
    <3>2. CASE i \in 1 .. n
      BY <1>2, <1>5, <2>3, <3>1, <3>2
    <3>3. CASE i = n + 1
      BY <1>2, <1>6, <3>1, <3>3
    <3> QED BY <2>1, <3>2, <3>3
  <2> QED BY <1>2, <2>2, <2>3 DEF NestedFrames
<1> QED BY <1>7, <1>8, <1>9

\* No frames.
LEMMA NoFrames == ASSUME NEW run PROVE NestedFrames(<<>>) /\ RunBelowWalked(<<>>, run)
<1>1. IsSeq(<<>>) /\ Len(<<>>) = 0
  BY OwnRange, EmptySeq
<1> QED BY <1>1 DEF NestedFrames, RunBelowWalked

LEMMA WalkGoesOn ==
  ASSUME LayersInv, [RefuseEnvelope \/ (\E layer : verifyDecoded(layer)) \/ WalkStep]_walkVars
  PROVE  LayersInv'
<1> DEFINE n == Len(frames)
<1>1. /\ NestedFrames(frames) /\ RunBelowWalked(frames, layersRun)
      /\ IsFiniteSet(layersRun) /\ calls = Cardinality(layersRun)
  BY DEF LayersInv
<1>2. ASSUME UNCHANGED <<layersRun, calls>>, frames' = <<>> \/ UNCHANGED frames
      PROVE  LayersInv'
  BY <1>1, <1>2, NoFrames DEF LayersInv
<1>3. n \in Nat /\ IsSeq(frames) /\ (frames # <<>> => n > 0)
      /\ \A i \in 1 .. n : FrameShape(frames[i])
  BY <1>1, SeqLen DEF NestedFrames
<1>4. ASSUME UNCHANGED <<layersRun, calls>>, NEW fs, NestedFrames(fs), RunBelowWalked(fs, layersRun), frames' = fs
      PROVE  LayersInv'
  BY <1>1, <1>4 DEF LayersInv
\* The innermost of the frames, or of those below it, goes on.
<1>5. ASSUME UNCHANGED <<layersRun, calls>>, NEW fs, IsSeq(fs), Len(fs) > 0, Len(fs) <= n,
             \A i \in 1 .. Len(fs) : fs[i] = frames[i], frames' = Onward(fs)
      PROVE  LayersInv'
  <2> DEFINE gs == Onward(fs)
             k == Len(fs)
  <2>1. k \in Nat /\ k > 0
    BY <1>5
  <2>2. /\ Len(gs) = k /\ IsSeq(gs)
        /\ \A i \in 1 .. k : gs[i] = IF i = k THEN [fs[k] EXCEPT !.left = Tail(@)] ELSE fs[i]
    <3>1. gs = [fs EXCEPT ![k] = [fs[k] EXCEPT !.left = Tail(@)]]
      BY DEF Onward
    <3>2. k \in 1 .. Len(fs)
      BY <2>1
    <3> DEFINE e == [fs[k] EXCEPT !.left = Tail(@)]
    <3> HIDE DEF gs, e
    <3>3. gs = [fs EXCEPT ![k] = e]
      BY <3>1 DEF e
    <3>4. Replaced(gs, fs, k, e)
      BY <1>5, <3>2, <3>3, ReplacedIs
    <3>5. Len(gs) = k /\ IsSeq(gs) /\ \A i \in 1 .. k : gs[i] = IF i = k THEN e ELSE fs[i]
      BY <3>4 DEF Replaced
    <3> QED BY <3>5 DEF e
  <2>3. \A i \in 1 .. k : i \in 1 .. n
    BY <1>3, <1>5, <2>1
  <2> HIDE DEF gs
  <2>4. ASSUME NEW i \in 1 .. k PROVE FrameShape(gs[i]) /\ gs[i].path = frames[i].path /\ gs[i].walked = frames[i].walked
    <3>1. FrameShape(frames[i]) /\ fs[i] = frames[i]
      BY <1>3, <1>5, <2>3
    <3>2. CASE i = k
      <4>1. gs[i] = [fs[i] EXCEPT !.left = Tail(@)]
        BY <2>2, <3>2
      <4>2. FrameShape(fs[i])
        BY <3>1
      <4>3. Kept(gs[i], fs[i], fs[i].walked)
        BY ZenonT(60), <4>1, <4>2, FrameIsKept
      <4> QED BY <3>1, <4>3 DEF Kept
    <3>3. CASE i # k
      BY <2>2, <3>1, <3>3
    <3> QED BY <3>2, <3>3
  <2>5. NestedFrames(gs) /\ RunBelowWalked(gs, layersRun)
    BY <1>1, <1>5, <2>2, <2>4, FramesGoOn
  <2> QED BY <1>4, <1>5, <2>5 DEF gs
\* A layer is walked from these frames.
<1>6. ASSUME NEW fs, NEW layer, NEW path, path \notin layersRun, Call(layer, path, fs),
             NestedFrames(Append(fs, Frame(layer, path))),
             RunBelowWalked(Append(fs, Frame(layer, path)), layersRun \cup {path})
      PROVE  LayersInv'
  <2>1. layersRun' = layersRun \cup {path} /\ calls' = calls + 1
    BY <1>6 DEF Call
  <2>2. IsFiniteSet(layersRun') /\ calls' = Cardinality(layersRun')
    BY <1>1, <1>6, <2>1, FS_AddElement
  <2>3. frames' = <<>> \/ frames' = Append(fs, Frame(layer, path))
    BY <1>6 DEF Call, Fails
  <2>4. NestedFrames(frames') /\ RunBelowWalked(frames', layersRun')
    BY <1>6, <2>1, <2>3, NoFrames
  <2> QED BY <2>2, <2>4 DEF LayersInv
<1>7. ASSUME RefuseEnvelope PROVE LayersInv'
  BY <1>2, <1>7 DEF RefuseEnvelope
<1>8. ASSUME NEW layer, verifyDecoded(layer) PROVE LayersInv'
  <2> DEFINE f == Frame(layer, <<>>)
             fs == <<f>>
  <2>1. layersRun = {} /\ Call(layer, <<>>, <<>>)
    <3>1. calls = 0 /\ Call(layer, <<>>, <<>>)
      BY <1>8 DEF verifyDecoded, Unused
    <3> QED BY <1>1, <3>1, FS_EmptySet
  <2>2. Append(<<>>, f) = fs /\ Len(fs) = 1 /\ fs[1] = f /\ IsSeq(fs)
    <3>1. fs \in Seq({f}) /\ Len(fs) = 1 /\ fs[1] = f
      OBVIOUS
    <3>2. Append(<<>>, f) = fs
      OBVIOUS
    <3> HIDE DEF fs, f
    <3> QED BY <3>1, <3>2, OwnRange
  <2>3. FrameShape(f) /\ f.path = <<>>
    BY DEF FrameShape, Frame
  <2> HIDE DEF f, fs
  <2>4. NestedFrames(fs)
    <3>1. IsSeq(f.path) /\ Len(f.path) = 0
      BY <2>3, OwnRange, EmptySeq
    <3>2. ASSUME NEW i \in 1 .. Len(fs) PROVE i = 1
      BY <2>2
    <3>3. ASSUME NEW i \in 1 .. Len(fs), NEW j \in 1 .. Len(fs) PROVE ~(j < i)
      BY <2>2
    <3>4. ASSUME NEW i \in 1 .. Len(fs) PROVE FrameShape(fs[i]) /\ IsSeq(fs[i].path) /\ Len(fs[i].path) = i - 1
      BY <2>2, <2>3, <3>1, <3>2
    <3> QED BY <2>2, <3>3, <3>4 DEF NestedFrames
  <2>5. RunBelowWalked(fs, layersRun \cup {<<>>})
    BY <2>1, <2>2 DEF RunBelowWalked
  <2> QED BY <1>6, <2>1, <2>2, <2>4, <2>5 DEF f
<1>9. ASSUME SkipDigest \/ LeafValue PROVE LayersInv'
  BY <1>3, <1>5, <1>9 DEF SkipDigest, LeafValue, AtKey
<1>10. ASSUME ProvenTwice PROVE LayersInv'
  BY <1>2, <1>10 DEF ProvenTwice, Fails
<1>11. ASSUME Descend PROVE LayersInv'
  <2> DEFINE key == KV.key
             fs == [frames EXCEPT ![n].walked = @ \cup {key}]
             path == Append(Top.path, key)
             layer == Top.lower[key]
  <2>1. n > 0 /\ key \notin frames[n].walked /\ Call(layer, path, fs)
    BY <1>3, <1>11 DEF Descend, AtKey, Repeats, Top
  <2>2. /\ Len(fs) = n /\ IsSeq(fs)
        /\ \A i \in 1 .. n : fs[i] = IF i = n THEN [frames[n] EXCEPT !.walked = @ \cup {key}] ELSE frames[i]
    <3>1. fs = [frames EXCEPT ![n] = [frames[n] EXCEPT !.walked = @ \cup {key}]]
      OBVIOUS
    <3>2. n \in 1 .. Len(frames)
      BY <1>3, <2>1
    <3> DEFINE e == [frames[n] EXCEPT !.walked = @ \cup {key}]
    <3> HIDE DEF fs, e
    <3>3. fs = [frames EXCEPT ![n] = e]
      BY <3>1 DEF e
    <3>4. Replaced(fs, frames, n, e)
      BY <1>3, <3>2, <3>3, ReplacedIs
    <3>5. Len(fs) = n /\ IsSeq(fs) /\ \A i \in 1 .. n : fs[i] = IF i = n THEN e ELSE frames[i]
      BY <3>4 DEF Replaced
    <3> QED BY <3>5 DEF e
  <2>3. ASSUME NEW i \in 1 .. n
        PROVE  /\ FrameShape(fs[i]) /\ fs[i].path = frames[i].path
               /\ fs[i].walked = IF i = n THEN frames[n].walked \cup {key} ELSE frames[i].walked
    <3> HIDE DEF fs, key
    <3>1. CASE i = n
      <4>1. fs[i] = [frames[i] EXCEPT !.walked = @ \cup {key}]
        BY <2>2, <3>1
      <4>2. FrameShape(frames[i])
        BY <1>3
      <4>3. Kept(fs[i], frames[i], frames[i].walked \cup {key})
        BY ZenonT(60), <4>1, <4>2, FrameIsKept
      <4> QED BY <3>1, <4>3 DEF Kept
    <3>2. CASE i # n
      BY <1>3, <2>2, <3>2
    <3> QED BY <3>1, <3>2
  <2> DEFINE g == Frame(layer, path)
             u == Append(fs, g)
  <2>4. FrameShape(g) /\ g.path = path
    BY DEF FrameShape, Frame
  <2>5. path = Append(frames[n].path, key)
    BY DEF Top
  <2>6. u = Append(fs, g)
    OBVIOUS
  <2> HIDE DEF fs, path, layer, key, g, u
  <2>7. NestedFrames(fs) /\ RunBelowWalked(fs, layersRun)
    BY <1>1, <1>3, <2>2, <2>3, FramesGoOn
  <2>8. key \in fs[Len(fs)].walked /\ fs[Len(fs)].path = frames[n].path /\ Len(fs) > 0
    BY <1>3, <2>1, <2>2, <2>3
  <2>9. NotRun(fs, layersRun, key)
    BY SMTT(60), <1>1, <1>3, <2>1, <2>2, <2>8 DEF RunBelowWalked, NotRun
  <2>10. IsSeq(frames[n].path)
    BY <1>1, <1>3, <2>1 DEF NestedFrames
  <2>11. Appended(path, fs[Len(fs)].path, key)
    <3>1. Appended(path, frames[n].path, key)
      BY <2>5, <2>10, AppendIs
    <3> QED BY <2>8, <3>1
  <2>12. Appended(u, fs, g)
    BY <2>2, <2>6, AppendIs
  <2>13. NestedFrames(u) /\ RunBelowWalked(u, layersRun \cup {path}) /\ path \notin layersRun
    BY <2>4, <2>7, <2>8, <2>9, <2>11, <2>12, FramePushed
  <2> QED BY <1>6, <2>1, <2>13 DEF g, u
<1>12. ASSUME Ascend PROVE LayersInv'
  <2> DEFINE fs == SubSeq(frames, 1, n - 1)
  <2>1. n > 1 /\ UNCHANGED <<layersRun, calls>> /\ (frames' = <<>> \/ frames' = Onward(fs))
    BY <1>12 DEF Ascend, Fails
  <2>2. Len(fs) = n - 1 /\ \A i \in 1 .. (n - 1) : fs[i] = frames[i]
    BY <1>3, <2>1
  <2>3. IsSeq(fs)
    <3>1. frames \in Seq(Range(frames)) /\ \A i \in 1 .. (n - 1) : frames[i] \in Range(frames)
      BY <1>3, <2>1 DEF IsSeq
    <3>2. fs \in Seq(Range(frames))
      BY <1>3, <3>1, SubSeqProperties
    <3> HIDE DEF fs
    <3> QED BY <3>2, OwnRange
  <2> HIDE DEF fs
  <2>4. Len(fs) > 0 /\ Len(fs) <= n /\ \A i \in 1 .. Len(fs) : fs[i] = frames[i]
    BY <1>3, <2>1, <2>2
  <2> QED BY <1>2, <1>5, <2>1, <2>3, <2>4
<1>13. ASSUME WalkEnds PROVE LayersInv'
  BY <1>2, <1>13 DEF WalkEnds
<1>14. ASSUME UNCHANGED walkVars PROVE LayersInv'
  BY <1>2, <1>14 DEF walkVars
<1> QED BY <1>7, <1>8, <1>9, <1>10, <1>11, <1>12, <1>13, <1>14 DEF WalkStep

\* LayersRunOnce holds: however the keys of a proof repeat and its layers nest,
\* verifyLayerProof runs the Merk proof of no layer of the envelope twice.
THEOREM LayersAreRunOnce == WalkSpec => []LayersRunOnce
<1>1. WalkIdle => LayersInv
  BY NoFrames, FS_EmptySet DEF WalkIdle, LayersInv
<1>2. LayersInv => LayersRunOnce
  BY DEF LayersInv, LayersRunOnce
<1> QED BY <1>1, <1>2, WalkGoesOn, PTL DEF WalkSpec
=============================================================================
