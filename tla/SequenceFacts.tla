---------------------------- MODULE SequenceFacts ----------------------------
(***************************************************************************)
(* Facts about FlattenSeq and about sequences that the proofs about files, *)
(* event sets and trie walks share.  Those that are inductions take the    *)
(* form of a least counterexample (LeastMember).                           *)
(***************************************************************************)
EXTENDS Integers, Sequences, SequencesExt, SequenceTheorems, WellFoundedInduction, TLAPS

\* A set of naturals has a least member.
LEMMA LeastMember ==
  ASSUME NEW T, T \subseteq Nat, T # {}
  PROVE  \E n \in T : \A m \in T : n <= m
<1> DEFINE R == OpToRel(<, Nat)
<1>1. IsWellFoundedOn(R, Nat)
  BY NatLessThanWellFounded
<1>2. \A a, b \in Nat : <<a, b>> \notin R => b <= a
  BY DEF OpToRel
<1> HIDE DEF R
<1>3. PICK n \in T : \A m \in T : <<m, n>> \notin R
  BY <1>1, WFMin
<1> QED BY <1>2, <1>3

\* The function FlattenSeq folds the sequences with.
Joins(f, seqs) == f = [i \in 1 .. Len(seqs) |-> IF i = 1 THEN seqs[i] ELSE f[i - 1] \o seqs[i]]

\* A function that joins the sequences one by one gives the whole in the end.
LEMMA FlattenIs ==
  ASSUME NEW seqs, Len(seqs) \in Nat \ {0}, NEW h, Joins(h, seqs)
  PROVE  FlattenSeq(seqs) = h[Len(seqs)]
<1> DEFINE k == Len(seqs)
<1>1. PICK f : Joins(f, seqs) /\ FlattenSeq(seqs) = f[k]
  BY DEF FlattenSeq, Joins
<1>2. k \in Nat \ {0}
  OBVIOUS
<1>3. \A i \in 1 .. k : /\ f[i] = IF i = 1 THEN seqs[i] ELSE f[i - 1] \o seqs[i]
                       /\ h[i] = IF i = 1 THEN seqs[i] ELSE h[i - 1] \o seqs[i]
  BY <1>1 DEF Joins
<1> DEFINE T == {i \in 1 .. k : f[i] # h[i]}
<1> HIDE DEF k
<1>4. ASSUME T # {} PROVE FALSE
  <2>1. T \subseteq Nat
    BY <1>2
  <2>2. PICK i \in T : \A j \in T : i <= j
    <3> HIDE DEF T
    <3> QED BY <1>4, <2>1, LeastMember
  <2>3. i \in 1 .. k /\ f[i] # h[i] /\ i \in Nat
    BY <1>2, <2>2
  <2>4. i # 1
    BY <1>3, <2>3
  <2>5. i - 1 \in 1 .. k /\ i - 1 \notin T
    BY <1>2, <2>2, <2>3, <2>4
  <2>6. f[i - 1] = h[i - 1]
    BY <2>5
  <2> QED BY <1>3, <2>3, <2>4, <2>6
<1>5. f[k] = h[k]
  BY <1>2, <1>4
<1> QED BY <1>1, <1>5 DEF k

\* Sequences can be joined one by one.
LEMMA JoinsExists ==
  ASSUME NEW seqs, Len(seqs) \in Nat \ {0}
  PROVE  \E h : Joins(h, seqs)
<1> DEFINE k == Len(seqs)
           P(n) == \E h : h = [i \in 1 .. n |-> IF i = 1 THEN seqs[i] ELSE h[i - 1] \o seqs[i]]
           T == {n \in 1 .. k : ~P(n)}
<1>1. k \in Nat \ {0}
  OBVIOUS
<1> HIDE DEF k, P
<1>2. ASSUME T # {} PROVE FALSE
  <2>1. T \subseteq Nat
    BY <1>1
  <2>2. PICK n \in T : \A m \in T : n <= m
    <3> HIDE DEF T
    <3> QED BY <1>2, <2>1, LeastMember
  <2>3. n \in 1 .. k /\ ~P(n) /\ n \in Nat
    BY <2>1, <2>2
  <2>4. n # 1
    <3> DEFINE h == [i \in 1 .. 1 |-> seqs[i]]
    <3>1. h = [i \in 1 .. 1 |-> IF i = 1 THEN seqs[i] ELSE h[i - 1] \o seqs[i]]
      OBVIOUS
    <3>2. P(1)
      BY <3>1 DEF P
    <3> QED BY <2>3, <3>2
  <2>5. n - 1 \in 1 .. k /\ n - 1 \notin T
    BY <1>1, <2>2, <2>3, <2>4
  <2>6. PICK h : h = [i \in 1 .. n - 1 |-> IF i = 1 THEN seqs[i] ELSE h[i - 1] \o seqs[i]]
    BY <2>5 DEF P
  <2> DEFINE all == h[n - 1] \o seqs[n]
             e == [i \in 1 .. n |-> IF i = n THEN all ELSE h[i]]
  <2>7. ASSUME NEW i \in 1 .. n PROVE e[i] = IF i = 1 THEN seqs[i] ELSE e[i - 1] \o seqs[i]
    <3>1. i # 1 => i - 1 \in 1 .. n /\ i - 1 # n /\ e[i - 1] = h[i - 1]
      BY <2>3
    <3>2. i # n => i \in 1 .. n - 1 /\ e[i] = h[i]
      BY <2>3
    <3>3. i # n => h[i] = IF i = 1 THEN seqs[i] ELSE h[i - 1] \o seqs[i]
      BY <2>6, <3>2
    <3>4. e[n] = h[n - 1] \o seqs[n]
      <4> HIDE DEF all
      <4>1. e[n] = all
        BY <2>3
      <4> QED BY <4>1 DEF all
    <3> HIDE DEF e
    <3> QED BY <2>4, <3>1, <3>2, <3>3, <3>4
  <2>8. e = [i \in 1 .. n |-> IF i = 1 THEN seqs[i] ELSE e[i - 1] \o seqs[i]]
    <3>1. e = [i \in 1 .. n |-> e[i]]
      OBVIOUS
    <3> HIDE DEF e
    <3> QED BY <2>7, <3>1
  <2> HIDE DEF e
  <2> QED BY <2>3, <2>8 DEF P
<1>3. P(k)
  BY <1>1, <1>2
<1> QED BY <1>3 DEF Joins, P, k

\* Concatenation, in the form in which the proofs below cite it.
LEMMA ConcatFacts ==
  ASSUME NEW S
  PROVE  /\ \A s, t, r \in Seq(S) : (s \o t) \o r = s \o (t \o r)
         /\ \A s, t, r \in Seq(S) : s \o t = s \o r => t = r
<1>1. \A s, t, r \in Seq(S) : (s \o t) \o r = s \o (t \o r)
  <2> TAKE s, t, r \in Seq(S)
  <2> QED BY ConcatAssociative
<1>2. \A s, t, r \in Seq(S) : s \o t = s \o r => t = r
  <2> TAKE s, t, r \in Seq(S)
  <2> QED BY ConcatSimplifications
<1> QED BY <1>1, <1>2, Zenon

\* all begins with first.
Begins(all, first, S) == \E r \in Seq(S) : all = first \o r

\* Concatenation under a name of its own, which the provers leave alone.
Cat(s, t) == s \o t

\* No word of f that a word of g replaces begins with it, or is its beginning.
Apart(f, g, S) ==
  \A i \in 1 .. Len(f) : \A r, s \in Seq(S) : Cat(f[i], r) = Cat(g[i], s) => f[i] = g[i]

\* What is joined is a sequence, and begins with what was joined before.
LEMMA JoinsGrow ==
  ASSUME NEW S, NEW seqs \in Seq(Seq(S)), NEW h, Joins(h, seqs), NEW n \in 1 .. Len(seqs)
  PROVE  /\ h[n] \in Seq(S)
         /\ \A i \in 1 .. n : Begins(h[n], h[i], S)
<1> DEFINE k == Len(seqs)
           P(m) == h[m] \in Seq(S) /\ \A i \in 1 .. m : Begins(h[m], h[i], S)
           T == {m \in 1 .. k : ~P(m)}
<1>1. k \in Nat /\ \A i \in 1 .. k : seqs[i] \in Seq(S)
  OBVIOUS
<1>2. \A i \in 1 .. k : h[i] = IF i = 1 THEN seqs[i] ELSE h[i - 1] \o seqs[i]
  BY DEF Joins
<1> HIDE DEF k, P
<1>3. <<>> \in Seq(S) /\ \A s \in Seq(S) : s = s \o <<>>
  BY ConcatEmptySeq
<1>0. \A s, t, r \in Seq(S) : (s \o t) \o r = s \o (t \o r)
  <2> TAKE s, t, r \in Seq(S)
  <2> QED BY SMTT(60), ConcatAssociative
<1>4. ASSUME T # {} PROVE FALSE
  <2>1. T \subseteq Nat
    BY <1>1
  <2>2. PICK m \in T : \A j \in T : m <= j
    <3> HIDE DEF T
    <3> QED BY <1>4, <2>1, LeastMember
  <2>3. m \in 1 .. k /\ ~P(m) /\ m \in Nat
    BY <2>1, <2>2
  <2>4. CASE m = 1
    <3>1. h[1] \in Seq(S)
      BY <1>1, <1>2, <2>3, <2>4
    <3>2. h[1] = h[1] \o <<>>
      BY <1>3, <3>1
    <3>3. ASSUME NEW i \in 1 .. 1 PROVE Begins(h[1], h[i], S)
      <4>1. i = 1
        OBVIOUS
      <4> QED BY <1>3, <3>2, <4>1, Zenon DEF Begins
    <3> QED BY <2>3, <2>4, <3>1, <3>3 DEF P
  <2>5. CASE m # 1
    <3>1. m - 1 \in 1 .. k /\ m - 1 \notin T
      BY <1>1, <2>2, <2>3, <2>5
    <3>2. P(m - 1)
      BY <3>1
    <3>3. h[m] = h[m - 1] \o seqs[m] /\ seqs[m] \in Seq(S) /\ h[m - 1] \in Seq(S)
      BY <1>1, <1>2, <2>3, <2>5, <3>2 DEF P
    <3>4. h[m] \in Seq(S)
      BY <3>3, ConcatProperties
    <3>5. ASSUME NEW i \in 1 .. m PROVE Begins(h[m], h[i], S)
      <4>1. CASE i = m
        BY <1>3, <3>4, <4>1, Zenon DEF Begins
      <4>2. CASE i # m
        <5>1. i \in 1 .. m - 1 /\ i \in 1 .. k
          BY <1>1, <2>3, <4>2
        <5>2. PICK r \in Seq(S) : h[m - 1] = h[i] \o r
          BY <3>2, <5>1 DEF P, Begins
        <5>3. h[i] \in Seq(S)
          <6>1. i \notin T
            BY <1>1, <2>2, <2>3, <5>1
          <6> QED BY <5>1, <6>1 DEF P
        <5>4. h[m] = h[i] \o (r \o seqs[m])
          <6>1. (h[i] \o r) \o seqs[m] = h[i] \o (r \o seqs[m])
            BY <1>0, <3>3, <5>3, Zenon
          <6> QED BY <3>3, <5>2, <6>1, Zenon
        <5>5. r \o seqs[m] \in Seq(S)
          BY <3>3, ConcatProperties
        <5> QED BY <5>4, <5>5, Zenon DEF Begins
      <4> QED BY <4>1, <4>2
    <3> QED BY <2>3, <3>4, <3>5 DEF P
  <2> QED BY <2>4, <2>5
<1>5. n \in 1 .. k /\ n \notin T
  BY <1>4 DEF k
<1> QED BY <1>5 DEF P

LEMMA CatFacts ==
  ASSUME NEW S
  PROVE  /\ \A s, t \in Seq(S) : Cat(s, t) \in Seq(S)
         /\ \A s, t, r \in Seq(S) : Cat(Cat(s, t), r) = Cat(s, Cat(t, r))
         /\ \A s, t, r \in Seq(S) : Cat(s, t) = Cat(s, r) => t = r
<1>1. \A s, t \in Seq(S) : Cat(s, t) \in Seq(S)
  <2> TAKE s, t \in Seq(S)
  <2> QED BY ConcatProperties DEF Cat
<1> QED BY <1>1, ConcatFacts, Zenon DEF Cat

\* A code in which no word is the beginning of another, as far as two texts of
\* as many words compare, is read back in one way.
LEMMA FlattenUnique ==
  ASSUME NEW S, NEW f \in Seq(Seq(S)), NEW g \in Seq(Seq(S)), Len(f) = Len(g),
         NEW u \in Seq(S), NEW v \in Seq(S), Cat(FlattenSeq(f), u) = Cat(FlattenSeq(g), v),
         Apart(f, g, S)
  PROVE  (\A i \in 1 .. Len(f) : f[i] = g[i]) /\ u = v
<1> DEFINE k == Len(f)
<1>1. /\ k \in Nat /\ Len(g) = k
      /\ \A i \in 1 .. k : f[i] \in Seq(S) /\ g[i] \in Seq(S)
  OBVIOUS
<1>4. \A s, t, r \in Seq(S) : Cat(Cat(s, t), r) = Cat(s, Cat(t, r))
  BY CatFacts
<1>5. \A s, t, r \in Seq(S) : Cat(s, t) = Cat(s, r) => t = r
  BY CatFacts
<1>6. \A s, t \in Seq(S) : Cat(s, t) \in Seq(S)
  BY CatFacts
<1>2. CASE k = 0
  <2>1. f = <<>> /\ g = <<>>
    BY <1>1, <1>2, EmptySeq
  <2>2. FlattenSeq(f) = <<>> /\ FlattenSeq(g) = <<>>
    BY <2>1 DEF FlattenSeq
  <2>3. <<>> \o u = u /\ <<>> \o v = v
    BY ConcatEmptySeq
  <2>4. u = v
    BY <2>2, <2>3, Zenon DEF Cat
  <2> QED BY <1>2, <2>4
<1>3. CASE k # 0
  <2>1. PICK a : Joins(a, f)
    BY <1>1, <1>3, JoinsExists
  <2>2. PICK b : Joins(b, g)
    BY <1>1, <1>3, JoinsExists
  <2>3. FlattenSeq(f) = a[k] /\ FlattenSeq(g) = b[k]
    BY <1>1, <1>3, <2>1, <2>2, FlattenIs
  <2>4. ASSUME NEW i \in 1 .. k
        PROVE  /\ a[i] = IF i = 1 THEN f[i] ELSE a[i - 1] \o f[i]
               /\ b[i] = IF i = 1 THEN g[i] ELSE b[i - 1] \o g[i]
    BY <1>1, <2>1, <2>2 DEF Joins
  <2>5. ASSUME NEW i \in 1 .. k
        PROVE  /\ a[i] \in Seq(S) /\ b[i] \in Seq(S)
               /\ Begins(a[k], a[i], S) /\ Begins(b[k], b[i], S)
    <3>1. a[i] \in Seq(S) /\ b[i] \in Seq(S)
      BY <1>1, <2>1, <2>2, JoinsGrow
    <3>2. k \in 1 .. k
      BY <1>1, <1>3
    <3>3. \A j \in 1 .. k : Begins(a[k], a[j], S)
      BY <2>1, <3>2, JoinsGrow
    <3>4. \A j \in 1 .. k : Begins(b[k], b[j], S)
      BY <1>1, <2>2, <3>2, JoinsGrow
    <3> QED BY <3>1, <3>3, <3>4
  <2> DEFINE Same(i) == f[i] = g[i] /\ a[i] = b[i]
             T == {i \in 1 .. k : ~Same(i)}
  <2> HIDE DEF k, Same
  <2>6. ASSUME T # {} PROVE FALSE
    <3>1. T \subseteq Nat
      BY <1>1
    <3>2. PICK i \in T : \A j \in T : i <= j
      <4> HIDE DEF T
      <4> QED BY <2>6, <3>1, LeastMember
    <3>3. i \in 1 .. k /\ ~Same(i) /\ i \in Nat
      BY <3>1, <3>2
    <3>4. PICK r \in Seq(S) : a[k] = Cat(a[i], r)
      BY <2>5, <3>3, Zenon DEF Begins, Cat
    <3>5. PICK s \in Seq(S) : b[k] = Cat(b[i], s)
      BY <2>5, <3>3, Zenon DEF Begins, Cat
    <3>6. f[i] \in Seq(S) /\ g[i] \in Seq(S)
      BY <1>1, <3>3
    <3>7. Cat(a[k], u) = Cat(b[k], v)
      BY <2>3, Zenon DEF k
    <3>8. \A x, y \in Seq(S) : Cat(f[i], x) = Cat(g[i], y) => f[i] = g[i]
      BY <3>3, Zenon DEF k, Apart
    <3>9. Cat(r, u) \in Seq(S) /\ Cat(s, v) \in Seq(S)
      BY <1>6
    <3>11. CASE i = 1
      <4>1. a[i] = f[i] /\ b[i] = g[i]
        BY <2>4, <3>3, <3>11
      <4>2. Cat(f[i], Cat(r, u)) = Cat(g[i], Cat(s, v))
        BY SMTT(60), <1>4, <3>4, <3>5, <3>6, <3>7, <4>1
      <4> QED BY <3>3, <3>8, <3>9, <4>1, <4>2 DEF Same
    <3>12. CASE i # 1
      <4>1. i - 1 \in 1 .. k /\ i - 1 \notin T
        BY <1>1, <3>2, <3>3, <3>12
      <4>2. a[i - 1] = b[i - 1] /\ a[i - 1] \in Seq(S)
        BY <2>5, <4>1 DEF Same
      <4>3. a[i] = Cat(a[i - 1], f[i]) /\ b[i] = Cat(a[i - 1], g[i])
        BY <2>4, <3>3, <3>12, <4>2 DEF Cat
      <4>4. PICK p \in Seq(S), x \in Seq(S), y \in Seq(S) :
              p = a[i - 1] /\ x = f[i] /\ y = g[i]
        BY <3>6, <4>2
      <4>5. Cat(Cat(Cat(p, x), r), u) = Cat(Cat(Cat(p, y), s), v)
        <5>1. a[i] = Cat(p, x) /\ b[i] = Cat(p, y)
          BY <4>3, <4>4, Zenon
        <5> QED BY <3>4, <3>5, <3>7, <5>1, Zenon
      <4>6. Cat(x, Cat(r, u)) = Cat(y, Cat(s, v))
        <5>1. p \in Seq(S) /\ x \in Seq(S) /\ y \in Seq(S) /\ r \in Seq(S) /\ s \in Seq(S)
          BY <3>4, <3>5, <4>4
        <5>2. Cat(p, x) \in Seq(S) /\ Cat(p, y) \in Seq(S)
              /\ Cat(x, Cat(r, u)) \in Seq(S) /\ Cat(y, Cat(s, v)) \in Seq(S)
          BY <1>6, <3>9, <5>1
        <5>3. Cat(Cat(Cat(p, x), r), u) = Cat(Cat(p, x), Cat(r, u))
          BY SMTT(60), <1>4, <5>1, <5>2
        <5>4. Cat(Cat(p, x), Cat(r, u)) = Cat(p, Cat(x, Cat(r, u)))
          BY SMTT(60), <1>4, <3>9, <5>1
        <5>5. Cat(Cat(Cat(p, y), s), v) = Cat(Cat(p, y), Cat(s, v))
          BY SMTT(60), <1>4, <5>1, <5>2
        <5>6. Cat(Cat(p, y), Cat(s, v)) = Cat(p, Cat(y, Cat(s, v)))
          BY SMTT(60), <1>4, <3>9, <5>1
        <5>7. Cat(p, Cat(x, Cat(r, u))) = Cat(p, Cat(y, Cat(s, v)))
          BY <4>5, <5>3, <5>4, <5>5, <5>6, Zenon
        <5> QED BY SMTT(60), <1>5, <5>1, <5>2, <5>7
      <4>7. f[i] = g[i]
        BY <3>8, <3>9, <4>4, <4>6
      <4> QED BY <3>3, <4>2, <4>3, <4>7 DEF Same
    <3> QED BY <3>11, <3>12
  <2>7. \A i \in 1 .. k : f[i] = g[i] /\ a[i] = b[i]
    BY <2>6 DEF Same
  <2>8. k \in 1 .. k
    BY <1>1, <1>3
  <2>9. a[k] = b[k] /\ a[k] \in Seq(S)
    BY <2>5, <2>7, <2>8
  <2>10. u = v
    <3>1. Cat(a[k], u) = Cat(a[k], v)
      BY <2>3, <2>9, Zenon DEF k
    <3> QED BY <1>5, <2>9, <3>1
  <2> QED BY <2>7, <2>10 DEF k
<1> QED BY <1>2, <1>3

\* What sequences flatten to is a sequence over the same set.
LEMMA FlattenIn ==
  ASSUME NEW S, NEW f \in Seq(Seq(S))
  PROVE  FlattenSeq(f) \in Seq(S)
<1>1. CASE f = <<>>
  <2>1. FlattenSeq(f) = <<>>
    BY <1>1 DEF FlattenSeq
  <2> QED BY <2>1, EmptySeq
<1>2. CASE f # <<>>
  <2>1. Len(f) \in Nat \ {0} /\ Len(f) \in 1 .. Len(f)
    BY <1>2, EmptySeq
  <2>2. PICK h : Joins(h, f)
    BY <2>1, JoinsExists
  <2>3. FlattenSeq(f) = h[Len(f)]
    BY <2>1, <2>2, FlattenIs
  <2>4. h[Len(f)] \in Seq(S)
    BY <2>1, <2>2, JoinsGrow
  <2> QED BY <2>3, <2>4
<1> QED BY <1>1, <1>2

\* The sequences up to one of them, joined.
LEMMA FlattenPrefix ==
  ASSUME NEW seqs, Len(seqs) \in Nat, NEW h, Joins(h, seqs), NEW n \in 1 .. Len(seqs)
  PROVE  FlattenSeq(SubSeq(seqs, 1, n)) = h[n]
<1> DEFINE p == SubSeq(seqs, 1, n)
           g == [i \in 1 .. n |-> h[i]]
<1>1. p = [i \in 1 .. n |-> seqs[i]]
  OBVIOUS
<1>2. Len(p) = n /\ n \in Nat \ {0}
  BY <1>1
<1>3. \A i \in 1 .. Len(seqs) : h[i] = IF i = 1 THEN seqs[i] ELSE h[i - 1] \o seqs[i]
  BY DEF Joins
<1>4. ASSUME NEW i \in 1 .. n PROVE g[i] = IF i = 1 THEN p[i] ELSE g[i - 1] \o p[i]
  <2>1. g[i] = h[i] /\ p[i] = seqs[i] /\ i \in 1 .. Len(seqs)
    BY <1>1
  <2>2. i # 1 => g[i - 1] = h[i - 1]
    OBVIOUS
  <2> HIDE DEF g, p
  <2> QED BY <1>3, <2>1, <2>2
<1>5. g = [i \in 1 .. n |-> g[i]]
  OBVIOUS
<1> HIDE DEF g, p
<1>6. g = [i \in 1 .. n |-> IF i = 1 THEN p[i] ELSE g[i - 1] \o p[i]]
  BY <1>4, <1>5
<1>7. Joins(g, p)
  BY <1>2, <1>6 DEF Joins
<1>8. FlattenSeq(p) = g[n]
  BY <1>2, <1>7, FlattenIs
<1> QED BY <1>8 DEF p, g

\* p is what the first n sequences join to, r what follows the one after.
Around(seqs, n, p, r) ==
  /\ p = FlattenSeq(SubSeq(seqs, 1, n))
  /\ FlattenSeq(SubSeq(seqs, 1, n + 1)) = p \o seqs[n + 1]
  /\ FlattenSeq(seqs) = p \o (seqs[n + 1] \o r)

\* What the sequences up to one of them join to, and that one, begin the whole.
LEMMA FlattenStep ==
  ASSUME NEW S, NEW seqs \in Seq(Seq(S)), NEW n \in Nat, n < Len(seqs)
  PROVE  \E p, r \in Seq(S) : Around(seqs, n, p, r)
<1> DEFINE k == Len(seqs)
<1>1. k \in Nat \ {0} /\ n + 1 \in 1 .. k /\ seqs[n + 1] \in Seq(S)
  OBVIOUS
<1>2. PICK h : Joins(h, seqs)
  BY <1>1, JoinsExists
<1>3. FlattenSeq(seqs) = h[k]
  BY <1>1, <1>2, FlattenIs
<1>4. FlattenSeq(SubSeq(seqs, 1, n + 1)) = h[n + 1]
  BY <1>1, <1>2, FlattenPrefix
<1>5. \A i \in 1 .. k : h[i] = IF i = 1 THEN seqs[i] ELSE h[i - 1] \o seqs[i]
  BY <1>2 DEF Joins
<1>6. k \in 1 .. k
  BY <1>1
<1>7. PICK r \in Seq(S) : h[k] = h[n + 1] \o r
  <2>1. Len(seqs) \in 1 .. Len(seqs)
    BY <1>6
  <2>2. \A i \in 1 .. Len(seqs) : Begins(h[Len(seqs)], h[i], S)
    BY <1>2, <2>1, JoinsGrow
  <2>3. Begins(h[Len(seqs)], h[n + 1], S)
    BY <1>1, <2>2
  <2> QED BY <2>3, Zenon DEF Begins
<1>8. CASE n = 0
  <2>1. SubSeq(seqs, 1, n) = <<>>
    BY <1>8
  <2>2. FlattenSeq(SubSeq(seqs, 1, n)) = <<>>
    BY <2>1 DEF FlattenSeq
  <2>3. h[n + 1] = seqs[n + 1]
    BY <1>1, <1>5, <1>8
  <2>4. seqs[n + 1] \o r \in Seq(S)
    BY <1>1, ConcatProperties
  <2>5. <<>> \in Seq(S) /\ \A s \in Seq(S) : <<>> \o s = s
    BY ConcatEmptySeq
  <2>6. seqs[n + 1] = <<>> \o seqs[n + 1] /\ seqs[n + 1] \o r = <<>> \o (seqs[n + 1] \o r)
    BY <1>1, <2>4, <2>5
  <2> DEFINE p == FlattenSeq(SubSeq(seqs, 1, n))
  <2>7. p = <<>> /\ p \in Seq(S)
    BY <2>2, <2>5, Zenon
  <2>8. FlattenSeq(SubSeq(seqs, 1, n + 1)) = p \o seqs[n + 1]
    BY <1>4, <2>3, <2>6, <2>7, Zenon
  <2>9. FlattenSeq(seqs) = p \o (seqs[n + 1] \o r)
    BY <1>3, <1>7, <2>3, <2>6, <2>7, Zenon
  <2> QED BY <2>7, <2>8, <2>9, Zenon DEF Around
<1>9. CASE n # 0
  <2>1. n \in 1 .. k
    BY <1>1, <1>9
  <2>2. FlattenSeq(SubSeq(seqs, 1, n)) = h[n]
    BY <1>1, <1>2, <2>1, FlattenPrefix
  <2>5. h[n] \in Seq(S)
    BY <1>2, <2>1, JoinsGrow
  <2>3. h[n + 1] = h[n] \o seqs[n + 1]
    <3>1. ASSUME NEW i \in 1 .. k, i # 1, NEW j, j = i - 1
          PROVE  h[i] = h[j] \o seqs[i]
      BY <1>5, <3>1, Zenon
    <3>2. n + 1 # 1 /\ n = (n + 1) - 1
      BY <2>1
    <3> QED BY <1>1, <3>1, <3>2
  <2>4. (h[n] \o seqs[n + 1]) \o r = h[n] \o (seqs[n + 1] \o r)
    <3>1. \A s, t, u \in Seq(S) : (s \o t) \o u = s \o (t \o u)
      BY ConcatFacts
    <3> QED BY <1>1, <2>5, <3>1, Zenon
  <2>6. FlattenSeq(seqs) = h[n] \o (seqs[n + 1] \o r)
    BY <1>3, <1>7, <2>3, <2>4, Zenon
  <2> QED BY <1>1, <1>4, <2>2, <2>3, <2>5, <2>6, Zenon DEF Around
<1> QED BY <1>8, <1>9

\* Texts are cut in one way at a given length.
LEMMA Peel ==
  ASSUME NEW S
  PROVE  \A p, q, x, y \in Seq(S) : Cat(p, x) = Cat(q, y) /\ Len(p) = Len(q) => p = q /\ x = y
<1> TAKE p, q, x, y \in Seq(S)
<1> HAVE Cat(p, x) = Cat(q, y) /\ Len(p) = Len(q)
<1> DEFINE c == p \o x
           d == q \o y
<1>1. c = d
  BY DEF Cat
<1>2. Len(p) \in Nat /\ Len(x) \in Nat
  BY LenProperties
<1>3. \A i \in 1 .. Len(p) + Len(x) : c[i] = IF i <= Len(p) THEN p[i] ELSE x[i - Len(p)]
  BY ConcatProperties
<1>4. \A i \in 1 .. Len(q) + Len(y) : d[i] = IF i <= Len(q) THEN q[i] ELSE y[i - Len(q)]
  BY ConcatProperties
<1>5. Len(q) \in Nat /\ Len(y) \in Nat
  BY LenProperties
<1> HIDE DEF c, d
<1>6. ASSUME NEW i \in 1 .. Len(p) PROVE p[i] = q[i]
  <2>1. i \in 1 .. Len(p) + Len(x) /\ i \in 1 .. Len(q) + Len(y) /\ i <= Len(p) /\ i <= Len(q)
    BY <1>2, <1>5
  <2> QED BY <1>1, <1>3, <1>4, <2>1
<1>7. p = q
  BY <1>6, SeqEqual
<1>8. \A t, w, z \in Seq(S) : Cat(t, w) = Cat(t, z) => w = z
  BY CatFacts
<1>9. x = y
  <2>1. Cat(p, x) = Cat(p, y)
    BY <1>7
  <2> QED BY <1>8, <2>1
<1> QED BY <1>7, <1>9

-----------------------------------------------------------------------------
(* Lines with a separator between them. *)

FreeOf(s, sep) == \A i \in 1 .. Len(s) : s[i] # sep

\* A line without a separator, and one, begin a text in one way: what is cut
\* elsewhere has the separator inside it.
LEMMA Cuts ==
  ASSUME NEW S, NEW sep \in S, NEW a \in Seq(S), FreeOf(a, sep),
         NEW x \in Seq(S), NEW c \in Seq(S), NEW y \in Seq(S),
         Cat(a, Cat(<<sep>>, x)) = Cat(c, Cat(<<sep>>, y))
  PROVE  \/ c = a /\ x = y
         \/ ~FreeOf(c, sep) /\ \E r \in Seq(S) : x = Cat(r, Cat(<<sep>>, y))
<1> DEFINE X == Cat(<<sep>>, x)
           Y == Cat(<<sep>>, y)
           s == Cat(a, X)
           p == Len(a) + 1
           q == Len(c) + 1
<1>1. <<sep>> \in Seq(S) /\ Len(<<sep>>) = 1 /\ <<sep>>[1] = sep
  OBVIOUS
<1>2. /\ X \in Seq(S) /\ Len(X) = Len(x) + 1 /\ X[1] = sep
      /\ Y \in Seq(S) /\ Len(Y) = Len(y) + 1 /\ Y[1] = sep
  <2>1. ASSUME NEW z \in Seq(S)
        PROVE  /\ Cat(<<sep>>, z) \in Seq(S) /\ Len(Cat(<<sep>>, z)) = Len(z) + 1
               /\ Cat(<<sep>>, z)[1] = sep
    <3>1. Len(z) \in Nat
      BY LenProperties
    <3>2. /\ <<sep>> \o z \in Seq(S) /\ Len(<<sep>> \o z) = Len(<<sep>>) + Len(z)
          /\ \A i \in 1 .. Len(<<sep>>) + Len(z) :
               (<<sep>> \o z)[i] = IF i <= Len(<<sep>>) THEN <<sep>>[i] ELSE z[i - Len(<<sep>>)]
      BY <1>1, ConcatProperties
    <3> QED BY <1>1, <3>1, <3>2 DEF Cat
  <2> QED BY <2>1
<1>3. Len(a) \in Nat /\ Len(c) \in Nat /\ Len(x) \in Nat /\ Len(y) \in Nat
  BY LenProperties
<1> HIDE DEF X, Y
<1>4. /\ s \in Seq(S) /\ Len(s) = Len(a) + Len(X) /\ Len(s) = Len(c) + Len(Y)
      /\ \A i \in 1 .. Len(s) : s[i] = IF i <= Len(a) THEN a[i] ELSE X[i - Len(a)]
      /\ \A i \in 1 .. Len(s) : s[i] = IF i <= Len(c) THEN c[i] ELSE Y[i - Len(c)]
  <2>1. s = Cat(c, Y)
    BY DEF X, Y
  <2>2. /\ Cat(a, X) \in Seq(S) /\ Len(Cat(a, X)) = Len(a) + Len(X)
        /\ \A i \in 1 .. Len(a) + Len(X) : Cat(a, X)[i] = IF i <= Len(a) THEN a[i] ELSE X[i - Len(a)]
    BY <1>2, ConcatProperties DEF Cat
  <2>3. /\ Len(Cat(c, Y)) = Len(c) + Len(Y)
        /\ \A i \in 1 .. Len(c) + Len(Y) : Cat(c, Y)[i] = IF i <= Len(c) THEN c[i] ELSE Y[i - Len(c)]
    BY <1>2, ConcatProperties DEF Cat
  <2>4. s = Cat(a, X)
    OBVIOUS
  <2> HIDE DEF s
  <2> QED BY <2>1, <2>2, <2>3, <2>4
<1> HIDE DEF s
<1>5. s[p] = sep /\ s[q] = sep /\ p \in 1 .. Len(s) /\ q \in 1 .. Len(s)
  <2>1. p \in 1 .. Len(s) /\ q \in 1 .. Len(s) /\ p - Len(a) = 1 /\ q - Len(c) = 1
    BY <1>2, <1>3, <1>4
  <2>2. ~(p <= Len(a)) /\ ~(q <= Len(c))
    BY <1>3
  <2> HIDE DEF p, q
  <2> QED BY <1>2, <1>4, <2>1, <2>2
<1>6. q >= p
  BY <1>3, <1>4, <1>5 DEF FreeOf
<1>7. CASE q = p
  <2>1. Cat(a, X) = Cat(c, Y) /\ Len(a) = Len(c)
    BY <1>3, <1>7 DEF X, Y
  <2>2. a = c /\ X = Y
    BY <1>2, <2>1, Peel
  <2>3. x = y
    <3>1. \A t, w, z \in Seq(S) : Cat(t, w) = Cat(t, z) => w = z
      BY CatFacts
    <3> QED BY <1>1, <2>2, <3>1 DEF X, Y
  <2> QED BY <2>2, <2>3
<1>8. CASE q > p
  <2> DEFINE r == SubSeq(c, p + 1, Len(c))
             R == Cat(<<sep>>, r)
             d == Cat(a, R)
  <2>1. r \in Seq(S) /\ Len(r) = Len(c) - p /\ \A i \in 1 .. Len(c) - p : r[i] = c[p + i]
    <3>1. p + 1 \in Int /\ p + 1 <= Len(c) + 1 /\ p + 1 >= 1
      BY <1>3, <1>8
    <3>2. \A i \in p + 1 .. Len(c) : c[i] \in S
      BY <1>3, ElementOfSeq
    <3> QED BY <1>3, <3>1, <3>2, SubSeqProperties
  <2> HIDE DEF r
  <2>2. R \in Seq(S) /\ Len(R) = Len(r) + 1 /\ R[1] = sep /\ \A i \in 2 .. Len(r) + 1 : R[i] = r[i - 1]
    BY <1>1, <2>1, ConcatProperties, LenProperties DEF Cat
  <2> HIDE DEF R
  <2>3. /\ d \in Seq(S) /\ Len(d) = Len(a) + Len(R)
        /\ \A i \in 1 .. Len(a) + Len(R) : d[i] = IF i <= Len(a) THEN a[i] ELSE R[i - Len(a)]
    BY <2>2, ConcatProperties DEF Cat
  <2>4. c = d
    <3>1. Len(c) = Len(d)
      BY <1>3, <2>1, <2>2, <2>3
    <3>2. ASSUME NEW i \in 1 .. Len(c) PROVE c[i] = d[i]
      <4>1. i \in 1 .. Len(s) /\ s[i] = c[i] /\ i \in 1 .. Len(a) + Len(R)
        BY <1>3, <1>4, <2>1, <2>2, <2>3, <3>1
      <4>2. CASE i <= Len(a)
        BY <1>4, <2>3, <4>1, <4>2
      <4>3. CASE i = p
        BY <1>3, <1>5, <2>2, <2>3, <4>1, <4>3
      <4>4. CASE i > p
        <5>1. d[i] = R[i - Len(a)] /\ i - Len(a) \in 2 .. Len(r) + 1
          BY <1>3, <2>1, <2>3, <4>1, <4>4
        <5>2. d[i] = r[i - p] /\ i - p \in 1 .. Len(c) - p
          BY <1>3, <2>1, <2>2, <5>1
        <5> QED BY <1>3, <2>1, <5>2
      <4> QED BY <1>3, <4>2, <4>3, <4>4
    <3> HIDE DEF d
    <3> QED BY <2>3, <3>1, <3>2, SeqEqual
  <2>5. ~FreeOf(c, sep)
    <3>1. p \in 1 .. Len(c) /\ s[p] = c[p]
      BY <1>3, <1>4, <1>5, <1>8
    <3> QED BY <1>5, <3>1 DEF FreeOf
  <2>6. x = Cat(r, Y)
    <3>1. \A t, w, z \in Seq(S) : Cat(t, w) = Cat(t, z) => w = z
      BY CatFacts
    <3>2. \A t, w, z \in Seq(S) : Cat(Cat(t, w), z) = Cat(t, Cat(w, z)) /\ Cat(w, z) \in Seq(S)
      BY CatFacts
    <3>3. Cat(a, X) = Cat(a, Cat(R, Y))
      <4>1. Cat(a, X) = Cat(Cat(a, R), Y)
        BY <2>4, Zenon DEF X, Y
      <4>2. Cat(Cat(a, R), Y) = Cat(a, Cat(R, Y))
        BY <1>2, <2>2, <3>2
      <4> QED BY <4>1, <4>2
    <3>4. X = Cat(R, Y)
      BY <1>2, <2>2, <3>1, <3>2, <3>3
    <3>5. Cat(<<sep>>, x) = Cat(<<sep>>, Cat(r, Y))
      <4>1. Cat(<<sep>>, x) = Cat(Cat(<<sep>>, r), Y)
        BY <3>4, Zenon DEF X, R
      <4>2. Cat(Cat(<<sep>>, r), Y) = Cat(<<sep>>, Cat(r, Y))
        BY <1>1, <1>2, <2>1, <3>2
      <4> QED BY <4>1, <4>2
    <3>6. Cat(r, Y) \in Seq(S)
      BY <1>2, <2>1, <3>2
    <3> QED BY <1>1, <3>1, <3>5, <3>6
  <2> QED BY <2>1, <2>5, <2>6 DEF Y
<1> QED BY <1>3, <1>6, <1>7, <1>8

\* The function strings.Join is written with: the lines from i on, a separator
\* between them.
Separates(w, sep, lines) ==
  w = [i \in 1 .. Len(lines) |->
         IF i = Len(lines) THEN lines[i] ELSE lines[i] \o (<<sep>> \o w[i + 1])]

LEMMA SeparatesExists ==
  ASSUME NEW sep, NEW lines, Len(lines) \in Nat \ {0}
  PROVE  \E w : Separates(w, sep, lines)
<1> DEFINE k == Len(lines)
           From(n) == k - n .. k
           P(n) == \E w : w = [i \in From(n) |->
                     IF i = k THEN lines[i] ELSE lines[i] \o (<<sep>> \o w[i + 1])]
           T == {n \in 0 .. k - 1 : ~P(n)}
<1>1. k \in Nat \ {0}
  OBVIOUS
<1> HIDE DEF k, P
<1>2. ASSUME T # {} PROVE FALSE
  <2>1. T \subseteq Nat
    BY <1>1
  <2>2. PICK n \in T : \A m \in T : n <= m
    <3> HIDE DEF T
    <3> QED BY <1>2, <2>1, LeastMember
  <2>3. n \in 0 .. k - 1 /\ ~P(n) /\ n \in Nat
    BY <2>1, <2>2
  <2>4. n # 0
    <3> DEFINE w == [i \in From(0) |-> lines[i]]
    <3>1. \A i \in From(0) : i = k
      BY <1>1
    <3>2. w = [i \in From(0) |-> IF i = k THEN lines[i] ELSE lines[i] \o (<<sep>> \o w[i + 1])]
      BY <3>1
    <3>3. P(0)
      BY <3>2 DEF P
    <3> QED BY <2>3, <3>3
  <2>5. n - 1 \in 0 .. k - 1 /\ n - 1 \notin T
    BY <1>1, <2>2, <2>3, <2>4
  <2>6. PICK w : w = [i \in From(n - 1) |->
                   IF i = k THEN lines[i] ELSE lines[i] \o (<<sep>> \o w[i + 1])]
    BY <2>5 DEF P
  <2> DEFINE first == lines[k - n] \o (<<sep>> \o w[k - n + 1])
             e == [i \in From(n) |-> IF i = k - n THEN first ELSE w[i]]
  <2>7. ASSUME NEW i \in From(n)
        PROVE  e[i] = IF i = k THEN lines[i] ELSE lines[i] \o (<<sep>> \o e[i + 1])
    <3>1. k - n # k /\ k - n \in From(n)
      BY <1>1, <2>3, <2>4
    <3>2. i # k - n => i \in From(n - 1) /\ e[i] = w[i]
      BY <1>1, <2>3
    <3>3. i # k - n => w[i] = IF i = k THEN lines[i] ELSE lines[i] \o (<<sep>> \o w[i + 1])
      BY <2>6, <3>2
    <3>4. i # k => i + 1 \in From(n) /\ i + 1 # k - n /\ e[i + 1] = w[i + 1]
      BY <1>1, <2>3
    <3>5. e[k - n] = lines[k - n] \o (<<sep>> \o w[k - n + 1])
      <4> HIDE DEF first
      <4>1. e[k - n] = first
        BY <3>1
      <4> QED BY <4>1 DEF first
    <3> HIDE DEF e
    <3>6. CASE i = k - n
      <4>1. e[i + 1] = w[k - n + 1]
        BY <3>1, <3>4, <3>6
      <4> QED BY <3>1, <3>5, <3>6, <4>1
    <3> QED BY <3>2, <3>3, <3>4, <3>6
  <2>8. e = [i \in From(n) |-> IF i = k THEN lines[i] ELSE lines[i] \o (<<sep>> \o e[i + 1])]
    <3>1. e = [i \in From(n) |-> e[i]]
      OBVIOUS
    <3> HIDE DEF e
    <3> QED BY <2>7, <3>1
  <2> HIDE DEF e
  <2> QED BY <2>3, <2>8 DEF P
<1>3. P(k - 1)
  BY <1>1, <1>2
<1>4. From(k - 1) = 1 .. k
  BY <1>1
<1> HIDE DEF From
<1> QED BY <1>3, <1>4 DEF Separates, P, k

\* Joined lines are a text, a line and what comes after it.
After(w, sep, lines, j) == IF j = Len(lines) THEN <<>> ELSE <<sep>> \o w[j + 1]

LEMMA SeparatedLines ==
  ASSUME NEW S, NEW sep \in S, NEW lines \in Seq(Seq(S)), NEW w, Separates(w, sep, lines)
  PROVE  \A j \in 1 .. Len(lines) :
           /\ w[j] \in Seq(S)
           /\ w[j] = Cat(lines[j], After(w, sep, lines, j))
           /\ After(w, sep, lines, j) \in Seq(S)
<1> DEFINE k == Len(lines)
           T == {n \in 0 .. k - 1 : w[k - n] \notin Seq(S)}
<1>1. k \in Nat /\ <<sep>> \in Seq(S) /\ <<>> \in Seq(S)
  BY LenProperties
<1>2. \A j \in 1 .. k : lines[j] \in Seq(S)
  BY ElementOfSeq
<1>3. \A j \in 1 .. k : w[j] = IF j = k THEN lines[j] ELSE lines[j] \o (<<sep>> \o w[j + 1])
  BY DEF Separates
<1>4. \A u, v \in Seq(S) : u \o v \in Seq(S)
  BY ConcatProperties
<1> HIDE DEF k
<1>5. ASSUME T # {} PROVE FALSE
  <2>1. T \subseteq Nat
    BY <1>1
  <2>2. PICK n \in T : \A m \in T : n <= m
    <3> HIDE DEF T
    <3> QED BY <1>5, <2>1, LeastMember
  <2>3. n \in 0 .. k - 1 /\ n \in Nat /\ w[k - n] \notin Seq(S) /\ k - n \in 1 .. k
    <3>1. n \in 0 .. k - 1 /\ w[k - n] \notin Seq(S)
      BY <2>2
    <3> QED BY <1>1, <3>1
  <2>4. n # 0
    <3>1. n = 0 => k - n = k
      BY <1>1
    <3> QED BY <1>2, <1>3, <2>3, <3>1
  <2>5. n - 1 \in 0 .. k - 1 /\ n - 1 \notin T /\ k - (n - 1) = k - n + 1
    <3>1. n - 1 \in 0 .. k - 1 /\ k - (n - 1) = k - n + 1
      BY <1>1, <2>3, <2>4
    <3>2. n - 1 \notin T
      <4> HIDE DEF T
      <4> QED BY <2>2, <2>3
    <3> QED BY <3>1, <3>2
  <2>6. w[k - n + 1] \in Seq(S)
    BY <2>5
  <2>7. k - n # k
    BY <1>1, <2>3, <2>4
  <2>8. w[k - n] = lines[k - n] \o (<<sep>> \o w[k - n + 1])
    BY <1>3, <2>3, <2>7
  <2>9. <<sep>> \o w[k - n + 1] \in Seq(S)
    BY <1>1, <1>4, <2>6
  <2> QED BY <1>2, <1>4, <2>3, <2>8, <2>9
<1>6. ASSUME NEW j \in 1 .. k PROVE w[j] \in Seq(S)
  <2>1. k - j \in 0 .. k - 1 /\ k - (k - j) = j
    BY <1>1
  <2> QED BY <1>5, <2>1
<1>7. ASSUME NEW j \in 1 .. k
      PROVE  After(w, sep, lines, j) \in Seq(S) /\ w[j] = Cat(lines[j], After(w, sep, lines, j))
  <2>1. CASE j = k
    <3>1. After(w, sep, lines, j) = <<>>
      BY <2>1 DEF After, k
    <3>2. lines[j] \o <<>> = lines[j]
      BY <1>2, ConcatEmptySeq
    <3> QED BY <1>1, <1>3, <2>1, <3>1, <3>2 DEF Cat
  <2>2. CASE j # k
    <3>1. After(w, sep, lines, j) = <<sep>> \o w[j + 1] /\ j + 1 \in 1 .. k
      BY <1>1, <2>2 DEF After, k
    <3>2. <<sep>> \o w[j + 1] \in Seq(S)
      BY <1>1, <1>4, <1>6, <3>1
    <3> QED BY <1>3, <2>2, <3>1, <3>2 DEF Cat
  <2> QED BY <2>1, <2>2
<1> QED BY <1>6, <1>7 DEF k

\* The lines of A from i on are as fine as c and the lines of B after j.
Finer(A, i, c, B, j, sep) ==
  /\ Len(B) - j <= Len(A) - i
  /\ Len(B) - j = Len(A) - i =>
       c = A[i] /\ \A d \in j + 1 .. Len(B) : B[d] = A[d - j + i]
  /\ FreeOf(c, sep) => \E m \in 1 .. Len(A) : A[m] = c
  /\ \A d \in j + 1 .. Len(B) : FreeOf(B[d], sep) => \E m \in 1 .. Len(A) : A[m] = B[d]

\* The lines B are no finer than A: as many are the same, and one without a
\* separator is among A.
Coarser(B, A, sep) ==
  /\ Len(B) <= Len(A)
  /\ Len(B) = Len(A) => B = A
  /\ \A j \in 1 .. Len(B) :
       FreeOf(B[j], sep) => \E i \in 1 .. Len(A) : A[i] = B[j]

\* Lines that hold no separator are the finest that give a text.
LEMMA LinesSplit ==
  ASSUME NEW S, NEW sep \in S,
         NEW A \in Seq(Seq(S)), A # <<>>, \A i \in 1 .. Len(A) : FreeOf(A[i], sep),
         NEW B \in Seq(Seq(S)), B # <<>>,
         NEW v, Separates(v, sep, A), NEW w, Separates(w, sep, B), v[1] = w[1]
  PROVE  Coarser(B, A, sep)
<1> DEFINE k == Len(A)
           l == Len(B)
           Q(i) == \A j \in 1 .. l : \A c \in Seq(S) :
                     v[i] = Cat(c, After(w, sep, B, j)) => Finer(A, i, c, B, j, sep)
           T == {n \in 0 .. k - 1 : ~Q(k - n)}
<1>1. k \in Nat \ {0} /\ l \in Nat \ {0}
  BY EmptySeq, LenProperties
<1>2. \A i \in 1 .. k : A[i] \in Seq(S) /\ FreeOf(A[i], sep)
  BY ElementOfSeq
<1>3. \A i \in 1 .. k : /\ v[i] \in Seq(S) /\ v[i] = Cat(A[i], After(v, sep, A, i))
                       /\ After(v, sep, A, i) \in Seq(S)
  BY SeparatedLines
<1>4. \A j \in 1 .. l : /\ w[j] \in Seq(S) /\ w[j] = Cat(B[j], After(w, sep, B, j))
                       /\ After(w, sep, B, j) \in Seq(S)
  BY SeparatedLines
<1>5. /\ \A i \in 1 .. k : i # k => After(v, sep, A, i) = Cat(<<sep>>, v[i + 1]) /\ i + 1 \in 1 .. k
      /\ \A j \in 1 .. l : j # l => After(w, sep, B, j) = Cat(<<sep>>, w[j + 1]) /\ j + 1 \in 1 .. l
  <2>1. ASSUME NEW i \in 1 .. k, i # k
        PROVE  After(v, sep, A, i) = Cat(<<sep>>, v[i + 1]) /\ i + 1 \in 1 .. k
    BY <1>1, <2>1 DEF After, Cat
  <2>2. ASSUME NEW j \in 1 .. l, j # l
        PROVE  After(w, sep, B, j) = Cat(<<sep>>, w[j + 1]) /\ j + 1 \in 1 .. l
    BY <1>1, <2>2 DEF After, Cat
  <2> QED BY <2>1, <2>2
<1>6. /\ After(v, sep, A, k) = <<>> /\ After(w, sep, B, l) = <<>>
      /\ \A s \in Seq(S) : Cat(s, <<>>) = s
  BY ConcatEmptySeq DEF After, Cat
<1>7. ASSUME NEW s \in Seq(S), NEW r \in Seq(S) PROVE ~FreeOf(Cat(s, Cat(<<sep>>, r)), sep)
  <2>1. <<sep>> \in Seq(S) /\ Len(<<sep>>) = 1 /\ <<sep>>[1] = sep
    OBVIOUS
  <2> DEFINE t == <<sep>> \o r
  <2>2. t \in Seq(S) /\ Len(t) = 1 + Len(r) /\ \A i \in 1 .. 1 + Len(r) :
          t[i] = IF i <= 1 THEN sep ELSE r[i - 1]
    BY <2>1, ConcatProperties
  <2>3. Len(r) \in Nat /\ Len(s) \in Nat
    BY LenProperties
  <2>4. t[1] = sep
    BY <2>2, <2>3
  <2> HIDE DEF t
  <2> DEFINE u == s \o t
  <2>5. Len(u) = Len(s) + Len(t) /\ \A i \in 1 .. Len(s) + Len(t) :
          u[i] = IF i <= Len(s) THEN s[i] ELSE t[i - Len(s)]
    BY <2>2, ConcatProperties
  <2> HIDE DEF u
  <2>6. u[Len(s) + 1] = t[1] /\ Len(s) + 1 \in 1 .. Len(u)
    <3>1. Len(s) + 1 \in 1 .. Len(s) + Len(t) /\ ~(Len(s) + 1 <= Len(s)) /\ Len(s) + 1 - Len(s) = 1
      BY <2>2, <2>3
    <3> QED BY <2>5, <3>1
  <2>7. ~FreeOf(u, sep)
    BY <2>4, <2>6 DEF FreeOf
  <2>8. Cat(s, Cat(<<sep>>, r)) = u
    BY DEF Cat, u, t
  <2> QED BY <2>7, <2>8
<1> HIDE DEF Q
<1>8. Q(k)
  <2> SUFFICES ASSUME NEW j \in 1 .. l, NEW c \in Seq(S), v[k] = Cat(c, After(w, sep, B, j))
               PROVE  Finer(A, k, c, B, j, sep)
    BY DEF Q
  <2>1. v[k] = A[k] /\ k \in 1 .. k
    <3>1. k \in 1 .. k
      BY <1>1
    <3>2. v[k] = Cat(A[k], <<>>) /\ A[k] \in Seq(S)
      BY <1>2, <1>3, <1>6, <3>1
    <3> QED BY <1>6, <3>1, <3>2
  <2>2. j = l
    <3>1. FreeOf(v[k], sep)
      BY <1>2, <2>1
    <3>2. j # l => v[k] = Cat(c, Cat(<<sep>>, w[j + 1])) /\ w[j + 1] \in Seq(S)
      BY <1>4, <1>5
    <3> QED BY <1>7, <3>1, <3>2
  <2>3. c = A[k]
    BY <1>6, <2>1, <2>2
  <2>4. \A d \in j + 1 .. l : FALSE
    BY <1>1, <2>2
  <2> QED BY <1>1, <2>1, <2>2, <2>3, <2>4 DEF Finer
<1>9. ASSUME NEW i \in 1 .. k, i # k, Q(i + 1) PROVE Q(i)
  <2> SUFFICES ASSUME NEW j \in 1 .. l, NEW c \in Seq(S), v[i] = Cat(c, After(w, sep, B, j))
               PROVE  Finer(A, i, c, B, j, sep)
    BY DEF Q
  <2>1. /\ v[i] = Cat(A[i], Cat(<<sep>>, v[i + 1]))
        /\ i + 1 \in 1 .. k /\ v[i + 1] \in Seq(S) /\ A[i] \in Seq(S) /\ FreeOf(A[i], sep)
    BY <1>2, <1>3, <1>5, <1>9
  <2>2. CASE j = l
    <3>1. c = v[i]
      BY <1>6, <2>2
    <3>2. ~FreeOf(c, sep)
      BY <1>7, <2>1, <3>1
    <3>3. \A d \in j + 1 .. l : FALSE
      BY <1>1, <2>2
    <3>4. l - j = 0 /\ k - i > 0
      BY <1>1, <1>9, <2>2
    <3> QED BY <3>2, <3>3, <3>4 DEF Finer
  <2>3. CASE j # l
    <3>1. /\ After(w, sep, B, j) = Cat(<<sep>>, w[j + 1]) /\ j + 1 \in 1 .. l
          /\ w[j + 1] \in Seq(S)
      BY <1>4, <1>5, <2>3
    <3>2. CASE c = A[i] /\ v[i + 1] = w[j + 1]
      <4>1. B[j + 1] \in Seq(S) /\ v[i + 1] = Cat(B[j + 1], After(w, sep, B, j + 1))
        BY <1>4, <3>1, <3>2, ElementOfSeq
      <4>2. Finer(A, i + 1, B[j + 1], B, j + 1, sep)
        BY <1>9, <3>1, <4>1 DEF Q
      <4>3. \A d \in j + 1 .. l : d = j + 1 \/ d \in j + 1 + 1 .. l
        BY <1>1
      <4>4. l - j <= k - i
        BY <1>1, <2>1, <3>1, <4>2 DEF Finer
      <4>5. ASSUME l - j = k - i, NEW d \in j + 1 .. l PROVE B[d] = A[d - j + i]
        <5>1. l - (j + 1) = k - (i + 1) /\ j + 1 - j + i = i + 1
          BY <1>1, <4>5
        <5>2. B[j + 1] = A[i + 1]
          BY <4>2, <5>1 DEF Finer
        <5>3. ASSUME d \in j + 1 + 1 .. l PROVE B[d] = A[d - j + i]
          <6>1. B[d] = A[d - (j + 1) + (i + 1)]
            BY <4>2, <5>1, <5>3 DEF Finer
          <6>2. d - (j + 1) + (i + 1) = d - j + i
            OBVIOUS
          <6> QED BY <6>1, <6>2
        <5> QED BY <4>3, <5>1, <5>2, <5>3
      <4>6. ASSUME NEW d \in j + 1 .. l, FreeOf(B[d], sep) PROVE \E m \in 1 .. k : A[m] = B[d]
        BY <4>2, <4>3, <4>6 DEF Finer
      <4> QED BY <3>2, <4>4, <4>5, <4>6 DEF Finer
    <3>3. CASE ~FreeOf(c, sep) /\ \E r \in Seq(S) : v[i + 1] = Cat(r, Cat(<<sep>>, w[j + 1]))
      <4>1. PICK r \in Seq(S) : v[i + 1] = Cat(r, After(w, sep, B, j))
        BY <3>1, <3>3
      <4>2. Finer(A, i + 1, r, B, j, sep)
        BY <1>9, <4>1 DEF Q
      <4>3. l - j < k - i
        BY <1>1, <2>1, <4>2 DEF Finer
      <4>4. ASSUME NEW d \in j + 1 .. l, FreeOf(B[d], sep) PROVE \E m \in 1 .. k : A[m] = B[d]
        BY <4>2, <4>4 DEF Finer
      <4> QED BY <1>1, <3>3, <4>3, <4>4 DEF Finer
    <3>4. Cat(A[i], Cat(<<sep>>, v[i + 1])) = Cat(c, Cat(<<sep>>, w[j + 1]))
      BY <2>1, <3>1
    <3> HIDE DEF k, l
    <3>5. \/ c = A[i] /\ v[i + 1] = w[j + 1]
          \/ ~FreeOf(c, sep) /\ \E r \in Seq(S) : v[i + 1] = Cat(r, Cat(<<sep>>, w[j + 1]))
      BY <2>1, <3>1, <3>4, Cuts
    <3> QED BY <3>2, <3>3, <3>5
  <2> QED BY <2>2, <2>3
<1>10. ASSUME T # {} PROVE FALSE
  <2>1. T \subseteq Nat
    BY <1>1
  <2>2. PICK n \in T : \A m \in T : n <= m
    <3> HIDE DEF T
    <3> QED BY <1>10, <2>1, LeastMember
  <2>3. n \in 0 .. k - 1 /\ n \in Nat /\ ~Q(k - n) /\ k - n \in 1 .. k
    <3>1. n \in 0 .. k - 1 /\ ~Q(k - n)
      BY <2>2
    <3> QED BY <1>1, <3>1
  <2>4. n # 0
    <3>1. n = 0 => k - n = k
      BY <1>1
    <3> QED BY <1>8, <2>3, <3>1
  <2>5. n - 1 \in 0 .. k - 1 /\ n - 1 \notin T /\ k - (n - 1) = k - n + 1 /\ k - n # k
    <3>1. n - 1 \in 0 .. k - 1 /\ k - (n - 1) = k - n + 1 /\ k - n # k
      BY <1>1, <2>3, <2>4
    <3>2. n - 1 \notin T
      <4> HIDE DEF T
      <4> QED BY <2>2, <2>3
    <3> QED BY <3>1, <3>2
  <2>6. Q(k - n + 1)
    BY <2>5
  <2> QED BY <1>9, <2>3, <2>5, <2>6
<1>11. Q(1)
  <2>1. k - 1 \in 0 .. k - 1 /\ k - (k - 1) = 1
    BY <1>1
  <2> QED BY <1>10, <2>1
<1>12. Finer(A, 1, B[1], B, 1, sep)
  <2>1. 1 \in 1 .. l /\ B[1] \in Seq(S) /\ v[1] = Cat(B[1], After(w, sep, B, 1))
    BY <1>1, <1>4, ElementOfSeq
  <2> QED BY <1>11, <2>1 DEF Q
<1>13. \A j \in 1 .. l : j = 1 \/ j \in 1 + 1 .. l
  BY <1>1
<1>14. l <= k
  BY <1>1, <1>12 DEF Finer
<1>15. l = k => B = A
  <2> HAVE l = k
  <2>1. B[1] = A[1] /\ \A d \in 1 + 1 .. l : B[d] = A[d - 1 + 1]
    BY <1>1, <1>12 DEF Finer
  <2>2. \A d \in 1 .. l : B[d] = A[d]
    <3> TAKE d \in 1 .. l
    <3>1. d - 1 + 1 = d
      OBVIOUS
    <3> QED BY <1>13, <2>1, <3>1
  <2> QED BY <2>2, SeqEqual
<1>16. ASSUME NEW j \in 1 .. l, FreeOf(B[j], sep) PROVE \E i \in 1 .. k : A[i] = B[j]
  BY <1>12, <1>13, <1>16 DEF Finer
<1> QED BY <1>14, <1>15, <1>16 DEF Coarser
=============================================================================
