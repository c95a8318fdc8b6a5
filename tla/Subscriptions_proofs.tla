------------------------ MODULE Subscriptions_proofs ------------------------
(***************************************************************************)
(* What holds of every subscription: the attempts between two payloads are *)
(* bounded, nothing changes once Done is closed, Err tells the truth, and  *)
(* payloads arrive in order with none missing.                             *)
(***************************************************************************)
EXTENDS Subscriptions, SequenceTheorems, TLAPS

\* The places of a loop that has returned.
Over == {"return", "doneClosed", "ended"}

(***************************************************************************)
(* The stream.  Every step leaves the pipeline as it is, takes its oldest  *)
(* number, cuts it off somewhere or appends the next number.               *)
(***************************************************************************)
LEMMA MaxSentNat == MaxSent \in Nat
  BY OptionAssumption

Rising(s) == \A i, j \in 1..Len(s) : i < j => s[i] < s[j]

\* Above k + 1 no number is missing.
Unbroken(s, k) == \A i \in 2..Len(s) : s[i] > k + 1 => s[i - 1] = s[i] - 1

Last(s) == s[Len(s)]

Stream(s, k, m) ==
    /\ s \in Seq(Nat) /\ Len(s) > 0 /\ Rising(s) /\ Unbroken(s, k) /\ Last(s) <= m

\* The oldest number is taken.
LEMMA StreamTail ==
  ASSUME NEW k \in Nat, NEW m \in Nat, NEW s, Stream(s, k, m), Len(s) > 1
  PROVE  Stream(Tail(s), k, m) /\ Last(Tail(s)) = Last(s)
<1>1. /\ s \in Seq(Nat) /\ Tail(s) \in Seq(Nat) /\ Len(Tail(s)) = Len(s) - 1 /\ Len(s) \in Nat
      /\ \A i \in 1..Len(Tail(s)) : Tail(s)[i] = s[i + 1]
  BY HeadTailProperties, EmptySeq, LenProperties DEF Stream
<1>2. Rising(Tail(s))
  BY <1>1 DEF Stream, Rising
<1>3. Unbroken(Tail(s), k)
  BY <1>1 DEF Stream, Unbroken
<1> QED BY <1>1, <1>2, <1>3 DEF Stream, Last

\* It is cut off after the j-th.
LEMMA StreamCut ==
  ASSUME NEW k \in Nat, NEW m \in Nat, NEW s, Stream(s, k, m), NEW j \in 1..Len(s),
         NEW r \in Seq(Nat), Len(r) = j, \A i \in 1..j : r[i] = s[i]
  PROVE  Stream(r, k, m)
<1>1. s \in Seq(Nat) /\ Len(s) \in Nat /\ \A i \in 1..Len(s) : s[i] \in Nat
  BY LenProperties, ElementOfSeq DEF Stream
<1>2. Rising(s) /\ Unbroken(s, k) /\ s[Len(s)] <= m
  BY DEF Stream, Last
<1>3. ASSUME NEW i \in 1..j, NEW n \in 1..j, i < n PROVE r[i] < r[n]
  <2>1. i \in 1..Len(s) /\ n \in 1..Len(s) /\ r[i] = s[i] /\ r[n] = s[n]
    BY <1>1
  <2>2. s[i] < s[n]
    BY <1>2, <1>3, <2>1 DEF Rising
  <2> QED BY <2>1, <2>2
<1>4. ASSUME NEW i \in 2..j, r[i] > k + 1 PROVE r[i - 1] = r[i] - 1
  <2>1. r[i - 1] = s[i - 1] /\ r[i] = s[i] /\ i \in 2..Len(s)
    BY SMTT(60), <1>1
  <2> QED BY <1>2, <1>4, <2>1 DEF Unbroken
<1>5. Last(r) <= m
  <2>1. s[j] <= s[Len(s)]
    BY SMTT(60), <1>1, <1>2 DEF Rising
  <2> QED BY <1>1, <1>2, <2>1 DEF Last
<1> QED BY <1>3, <1>4, <1>5 DEF Stream, Rising, Unbroken

\* The next number is appended.
LEMMA StreamAppend ==
  ASSUME NEW k \in Nat, NEW m \in Nat, NEW s, Stream(s, k, m), m > k => Last(s) = m,
         NEW r \in Seq(Nat), Len(r) = Len(s) + 1, \A i \in 1..Len(s) : r[i] = s[i],
         r[Len(s) + 1] = m + 1
  PROVE  Stream(r, k, m + 1) /\ Last(r) = m + 1
<1>1. s \in Seq(Nat) /\ Len(s) \in Nat \ {0} /\ \A i \in 1..Len(s) : s[i] \in Nat
  BY SMTT(60), LenProperties, ElementOfSeq DEF Stream
<1>2. Rising(s) /\ Unbroken(s, k) /\ s[Len(s)] <= m
  BY DEF Stream, Last
<1>3. ASSUME NEW i \in 1..Len(s) PROVE s[i] <= m
  <2>1. Len(s) \in 1..Len(s) /\ (i = Len(s) \/ i < Len(s)) /\ s[i] \in Nat /\ s[Len(s)] \in Nat
    BY SMTT(60), <1>1
  <2>2. s[i] <= s[Len(s)]
    <3>1. CASE i < Len(s)
      BY SMTT(60), <1>2, <2>1, <3>1 DEF Rising
    <3> QED BY <2>1, <3>1
  <2> QED BY <1>2, <2>1, <2>2
<1>4. ASSUME NEW i \in 1..Len(r), NEW n \in 1..Len(r), i < n PROVE r[i] < r[n]
  <2>0. i \in 1..Len(s) /\ r[i] = s[i] /\ s[i] \in Nat
    BY SMTT(60), <1>1, <1>4
  <2>1. CASE n <= Len(s)
    <3>1. n \in 1..Len(s) /\ r[n] = s[n]
      BY SMTT(60), <1>1, <2>1
    <3>2. s[i] < s[n]
      BY <1>2, <1>4, <2>0, <3>1 DEF Rising
    <3> QED BY <2>0, <3>1, <3>2
  <2>2. CASE n = Len(s) + 1
    BY <1>3, <2>0, <2>2
  <2> QED BY <1>1, <2>1, <2>2
<1>5. ASSUME NEW i \in 2..Len(r), r[i] > k + 1 PROVE r[i - 1] = r[i] - 1
  <2>1. CASE i <= Len(s)
    <3>0. i \in 2..Len(s) /\ i - 1 \in 1..Len(s) /\ i \in 1..Len(s)
      BY <1>1, <2>1
    <3>1. r[i - 1] = s[i - 1] /\ r[i] = s[i] /\ i \in 2..Len(s)
      BY <3>0
    <3> QED BY <1>2, <1>5, <3>1 DEF Unbroken
  <2>2. CASE i = Len(s) + 1
    <3>1. r[i] = m + 1 /\ i - 1 = Len(s) /\ Len(s) \in 1..Len(s)
      BY <1>1, <2>2
    <3> QED BY SMTT(60), <1>1, <1>5, <3>1 DEF Last
  <2> QED BY <1>1, <2>1, <2>2
<1> QED BY <1>1, <1>4, <1>5 DEF Stream, Rising, Unbroken, Last

\* A new connection is opened: nothing of it is in the pipeline.
LEMMA StreamReopen ==
  ASSUME NEW k \in Nat, NEW m \in Nat, NEW s, Stream(s, k, m)
  PROVE  Stream(s, m, m)
<1>1. s \in Seq(Nat) /\ Len(s) \in Nat /\ \A i \in 1..Len(s) : s[i] \in Nat
  BY LenProperties, ElementOfSeq DEF Stream
<1>2. \A i \in 1..Len(s) : s[i] <= m
  BY <1>1 DEF Stream, Rising, Last
<1> QED BY <1>1, <1>2 DEF Stream, Unbroken

\* What the elements of a concatenation are.
LEMMA ConcatAt ==
  ASSUME NEW s \in Seq(Nat), NEW t \in Seq(Nat), NEW c, c = s \o t, NEW n, n = Len(s)
  PROVE  /\ c \in Seq(Nat) /\ Len(c) = n + Len(t)
         /\ \A i \in 1..n : c[i] = s[i]
         /\ \A i \in 1..Len(t) : c[n + i] = t[i]
<1>0. Len(s) \in Nat /\ Len(t) \in Nat
  BY LenProperties
<1>1. /\ c \in Seq(Nat) /\ Len(c) = n + Len(t)
      /\ \A i \in 1..n + Len(t) : c[i] = IF i <= n THEN s[i] ELSE t[i - n]
  BY ConcatProperties
<1>2. ASSUME NEW i \in 1..Len(t) PROVE c[n + i] = t[i]
  <2>1. n + i - n = i /\ n + i \in 1..n + Len(t) /\ ~(n + i <= n)
    BY <1>0
  <2> QED BY <1>1, <2>1
<1> QED BY SMTT(60), <1>0, <1>1, <1>2

\* s is g, e, h and f one after the other.
IsPipe(s, g, e, h, f) ==
    /\ s \in Seq(Nat) /\ Len(s) = 1 + Len(e) + Len(h) + Len(f)
    /\ s[1] = g
    /\ \A i \in 1..Len(e) : s[1 + i] = e[i]
    /\ \A i \in 1..Len(h) : s[1 + Len(e) + i] = h[i]
    /\ \A i \in 1..Len(f) : s[1 + Len(e) + Len(h) + i] = f[i]

LEMMA PipeConcat ==
  ASSUME NEW g \in Nat, NEW e \in Seq(Nat), NEW h \in Seq(Nat), NEW f \in Seq(Nat),
         NEW a, a = <<g>> \o e, NEW b, b = a \o h, NEW s, s = b \o f
  PROVE  IsPipe(s, g, e, h, f)
<1>0. Len(e) \in Nat /\ Len(h) \in Nat /\ Len(f) \in Nat /\ <<g>> \in Seq(Nat) /\ Len(<<g>>) = 1
      /\ <<g>>[1] = g
  BY LenProperties
<1>1. a \in Seq(Nat) /\ Len(a) = 1 + Len(e) /\ a[1] = g /\ \A i \in 1..Len(e) : a[1 + i] = e[i]
  BY <1>0, ConcatAt
<1>2. /\ b \in Seq(Nat) /\ Len(b) = 1 + Len(e) + Len(h)
      /\ \A i \in 1..(1 + Len(e)) : b[i] = a[i]
      /\ \A i \in 1..Len(h) : b[1 + Len(e) + i] = h[i]
  <2>1. a \in Seq(Nat) /\ 1 + Len(e) = Len(a)
    BY <1>1
  <2>2. /\ b \in Seq(Nat) /\ Len(b) = Len(a) + Len(h)
        /\ \A i \in 1..Len(a) : b[i] = a[i]
        /\ \A i \in 1..Len(h) : b[Len(a) + i] = h[i]
    BY <2>1, ConcatAt
  <2> QED BY <2>1, <2>2
<1>3. /\ s \in Seq(Nat) /\ Len(s) = 1 + Len(e) + Len(h) + Len(f)
      /\ \A i \in 1..(1 + Len(e) + Len(h)) : s[i] = b[i]
      /\ \A i \in 1..Len(f) : s[1 + Len(e) + Len(h) + i] = f[i]
  <2>1. b \in Seq(Nat) /\ 1 + Len(e) + Len(h) = Len(b)
    BY <1>2
  <2>2. /\ s \in Seq(Nat) /\ Len(s) = Len(b) + Len(f)
        /\ \A i \in 1..Len(b) : s[i] = b[i]
        /\ \A i \in 1..Len(f) : s[Len(b) + i] = f[i]
    BY <2>1, ConcatAt
  <2> QED BY <2>1, <2>2
<1>4. s[1] = g
  BY <1>0, <1>1, <1>2, <1>3
<1>5. ASSUME NEW i \in 1..Len(e) PROVE s[1 + i] = e[i]
  <2>1. 1 + i \in 1..(1 + Len(e)) /\ 1 + i \in 1..(1 + Len(e) + Len(h))
    BY <1>0
  <2> QED BY <1>1, <1>2, <1>3, <2>1
<1>6. ASSUME NEW i \in 1..Len(h) PROVE s[1 + Len(e) + i] = h[i]
  <2>1. 1 + Len(e) + i \in 1..(1 + Len(e) + Len(h))
    BY <1>0
  <2> QED BY <1>2, <1>3, <2>1
<1> QED BY <1>3, <1>4, <1>5, <1>6 DEF IsPipe

\* The consumer receives the head of the channel.
LEMMA PipeReceive ==
  ASSUME NEW g \in Nat, NEW e \in Seq(Nat), NEW h \in Seq(Nat), NEW f \in Seq(Nat), NEW s, NEW r,
         IsPipe(s, g, e, h, f), e # <<>>, IsPipe(r, Head(e), Tail(e), h, f)
  PROVE  r = Tail(s) /\ Len(s) > 1
<1>0. Len(e) \in Nat \ {0} /\ Len(h) \in Nat /\ Len(f) \in Nat
  BY LenProperties, EmptySeq
<1>1. /\ s \in Seq(Nat) /\ r \in Seq(Nat) /\ Len(s) = 1 + Len(e) + Len(h) + Len(f)
      /\ Len(Tail(e)) = Len(e) - 1 /\ Len(r) = Len(e) + Len(h) + Len(f) /\ Len(s) > 1 /\ s # <<>>
  BY <1>0, HeadTailProperties, EmptySeq DEF IsPipe
<1>2. /\ Tail(s) \in Seq(Nat) /\ Len(Tail(s)) = Len(r)
      /\ \A i \in 1..Len(r) : Tail(s)[i] = s[i + 1]
  BY <1>0, <1>1, HeadTailProperties
<1>3. ASSUME NEW i \in 1..Len(r) PROVE r[i] = s[i + 1]
  <2>1. CASE i = 1
    <3>1. r[1] = Head(e) /\ Head(e) = e[1] /\ s[1 + 1] = e[1]
      BY <1>0 DEF IsPipe
    <3> QED BY <2>1, <3>1
  <2>2. CASE i > 1 /\ i <= Len(e)
    <3>1. i - 1 \in 1..Len(Tail(e)) /\ i \in 1..Len(e) /\ 1 + (i - 1) = i /\ i + 1 = 1 + i /\ (i - 1) + 1 = i
      BY <1>0, <1>1, <2>2
    <3>2. r[1 + (i - 1)] = Tail(e)[i - 1] /\ s[1 + i] = e[i]
      BY <3>1 DEF IsPipe
    <3>3. Tail(e)[i - 1] = e[(i - 1) + 1]
      BY <3>1, HeadTailProperties
    <3> QED BY <3>1, <3>2, <3>3
  <2>3. CASE i > Len(e) /\ i <= Len(e) + Len(h)
    <3>1. /\ i - Len(e) \in 1..Len(h) /\ 1 + Len(Tail(e)) + (i - Len(e)) = i
          /\ 1 + Len(e) + (i - Len(e)) = i + 1
      BY <1>0, <1>1, <2>3
    <3>2. r[1 + Len(Tail(e)) + (i - Len(e))] = h[i - Len(e)] /\ s[1 + Len(e) + (i - Len(e))] = h[i - Len(e)]
      BY <3>1 DEF IsPipe
    <3> QED BY <3>1, <3>2
  <2>4. CASE i > Len(e) + Len(h)
    <3> DEFINE j == i - Len(e) - Len(h)
    <3>1. /\ j \in 1..Len(f) /\ 1 + Len(Tail(e)) + Len(h) + j = i /\ 1 + Len(e) + Len(h) + j = i + 1
      BY <1>0, <1>1, <2>4
    <3> HIDE DEF j
    <3>2. r[1 + Len(Tail(e)) + Len(h) + j] = f[j] /\ s[1 + Len(e) + Len(h) + j] = f[j]
      BY <3>1 DEF IsPipe
    <3> QED BY <3>1, <3>2
  <2>5. i = 1 \/ (i > 1 /\ i <= Len(e)) \/ (i > Len(e) /\ i <= Len(e) + Len(h)) \/ i > Len(e) + Len(h)
    <3>1. i \in Nat /\ i >= 1
      BY <1>0, <1>1
    <3> QED BY <1>0, <3>1
  <2> QED BY <2>1, <2>2, <2>3, <2>4, <2>5
<1> QED BY ZenonT(60), <1>1, <1>2, <1>3, SeqEqual

\* What a sequence is made of.
LEMMA SeqParts ==
  ASSUME NEW s \in Seq(Nat)
  PROVE  /\ \A x \in Nat : Append(s, x) = s \o <<x>> /\ <<x>> \in Seq(Nat)
         /\ s # <<>> => s = <<Head(s)>> \o Tail(s) /\ Tail(s) \in Seq(Nat) /\ Head(s) \in Nat
<1>1. ASSUME NEW x \in Nat PROVE Append(s, x) = s \o <<x>> /\ <<x>> \in Seq(Nat)
  OBVIOUS
<1>2. ASSUME s # <<>> PROVE s = <<Head(s)>> \o Tail(s) /\ Tail(s) \in Seq(Nat) /\ Head(s) \in Nat
  <2>1. /\ Head(s) \in Nat /\ Tail(s) \in Seq(Nat) /\ Len(s) \in Nat \ {0} /\ Len(Tail(s)) = Len(s) - 1
        /\ \A i \in 1..Len(Tail(s)) : Tail(s)[i] = s[i + 1]
        /\ <<Head(s)>> \in Seq(Nat) /\ Len(<<Head(s)>>) = 1 /\ <<Head(s)>>[1] = s[1]
    BY <1>2, HeadTailProperties, EmptySeq
  <2>2. PICK c : c = <<Head(s)>> \o Tail(s)
    OBVIOUS
  <2>3. /\ c \in Seq(Nat) /\ Len(c) = 1 + Len(Tail(s)) /\ c[1] = s[1]
        /\ \A i \in 1..Len(Tail(s)) : c[1 + i] = Tail(s)[i]
    BY <2>1, <2>2, ConcatAt
  <2>4. ASSUME NEW i \in 1..Len(s) PROVE s[i] = c[i]
    <3>1. CASE i = 1
      BY <2>3, <3>1
    <3>2. CASE i > 1
      <4>1. i - 1 \in 1..Len(Tail(s)) /\ 1 + (i - 1) = i /\ (i - 1) + 1 = i
        BY <2>1, <3>2
      <4>2. c[1 + (i - 1)] = Tail(s)[i - 1] /\ Tail(s)[i - 1] = s[(i - 1) + 1]
        BY <2>1, <2>3, <4>1
      <4> QED BY <4>1, <4>2
    <3> QED BY <2>1, <3>1, <3>2
  <2>5. Len(s) = Len(c)
    BY <2>1, <2>3
  <2> QED BY <2>1, <2>2, <2>3, <2>4, <2>5, SeqEqual
<1> QED BY <1>1, <1>2

LEMMA ConcatNat ==
  ASSUME NEW s \in Seq(Nat), NEW t \in Seq(Nat), NEW u \in Seq(Nat)
  PROVE  (s \o t) \o u = s \o (t \o u)
  BY SMTT(60)

\* Reading a frame leaves the pipeline as it is,
LEMMA PipeReads ==
  ASSUME NEW a \in Seq(Nat), NEW f \in Seq(Nat), f # <<>>,
         NEW h, h = <<>>, NEW h2, h2 = <<Head(f)>>, NEW f2, f2 = Tail(f)
  PROVE  a \o h2 \o f2 = a \o h \o f
<1>1. a \o <<>> = a
  BY ConcatEmptySeq
<1>2. f2 \in Seq(Nat) /\ h2 \in Seq(Nat)
  BY SeqParts
<1>3. (a \o h2) \o f2 = a \o (h2 \o f2)
  BY SMTT(60), <1>2, ConcatNat
<1>4. f = h2 \o f2
  BY SeqParts
<1> QED BY <1>1, <1>3, <1>4

\* and so does sending it to the channel;
LEMMA PipeSends ==
  ASSUME NEW a \in Seq(Nat), NEW e \in Seq(Nat), NEW x \in Nat,
         NEW h, h = <<x>>, NEW e2, e2 = Append(e, x), NEW h2, h2 = <<>>
  PROVE  a \o e2 \o h2 = a \o e \o h
<1>1. e2 = e \o h /\ h \in Seq(Nat)
  BY SeqParts
<1>2. a \o e2 = a \o e \o h
  BY <1>1, ConcatNat
<1>3. e2 \in Seq(Nat)
  OBVIOUS
<1>4. a \o e2 \in Seq(Nat)
  BY <1>3, ConcatProperties
<1>5. (a \o e2) \o h2 = a \o e2
  BY <1>4, ConcatEmptySeq
<1> QED BY <1>2, <1>5

\* a frame the server sends is appended to it.
LEMMA PipeAppends ==
  ASSUME NEW b \in Seq(Nat), NEW f \in Seq(Nat), NEW x \in Nat, NEW f2, f2 = Append(f, x)
  PROVE  b \o f2 = Append(b \o f, x)
<1>1. b \o f \in Seq(Nat) /\ <<x>> \in Seq(Nat)
  BY ConcatProperties
<1>2. f2 = f \o <<x>> /\ Append(b \o f, x) = (b \o f) \o <<x>>
  BY <1>1, SeqParts
<1>3. \A y \in Seq(Nat) : (b \o f) \o y = b \o (f \o y)
  BY ConcatNat
<1> QED BY <1>1, <1>2, <1>3

\* What is in hand is dropped, or some of what was not read is.
Cut(h, f, h2, f2) ==
    \/ h2 = <<>> /\ f2 = <<>>
    \/ h2 = h /\ Len(f2) <= Len(f) /\ \A i \in 1..Len(f2) : f2[i] = f[i]

IsPrefixOf(r, s) == Len(r) \in 1..Len(s) /\ \A i \in 1..Len(r) : r[i] = s[i]

LEMMA PipeCut ==
  ASSUME NEW g \in Nat, NEW e \in Seq(Nat), NEW h \in Seq(Nat), NEW f \in Seq(Nat), NEW s, NEW r,
         NEW h2 \in Seq(Nat), NEW f2 \in Seq(Nat), IsPipe(s, g, e, h, f), IsPipe(r, g, e, h2, f2),
         Cut(h, f, h2, f2)
  PROVE  IsPrefixOf(r, s)
<1>c. \/ h2 = <<>> /\ f2 = <<>>
      \/ h2 = h /\ Len(f2) <= Len(f) /\ \A i \in 1..Len(f2) : f2[i] = f[i]
  BY DEF Cut
<1>0. /\ Len(e) \in Nat /\ Len(h) \in Nat /\ Len(f) \in Nat /\ Len(h2) \in Nat /\ Len(f2) \in Nat
      /\ h2 = <<>> => Len(h2) = 0
      /\ f2 = <<>> => Len(f2) = 0
  BY LenProperties, EmptySeq
<1>1. Len(s) = 1 + Len(e) + Len(h) + Len(f) /\ Len(r) = 1 + Len(e) + Len(h2) + Len(f2)
  BY DEF IsPipe
<1>2. Len(r) \in 1..Len(s) /\ Len(r) \in Nat
  BY SMTT(60), <1>c, <1>0, <1>1
<1>3. ASSUME NEW i \in 1..Len(r) PROVE r[i] = s[i]
  <2>0. i \in Nat /\ i >= 1 /\ i <= 1 + Len(e) + Len(h2) + Len(f2)
    BY <1>0, <1>1, <1>2
  <2>1. CASE i = 1
    BY <2>1 DEF IsPipe
  <2>2. CASE i > 1 /\ i <= 1 + Len(e)
    <3>1. i - 1 \in 1..Len(e) /\ 1 + (i - 1) = i
      BY <1>0, <2>0, <2>2
    <3>2. r[1 + (i - 1)] = e[i - 1] /\ s[1 + (i - 1)] = e[i - 1]
      BY <3>1 DEF IsPipe
    <3> QED BY <3>1, <3>2
  <2>3. CASE i > 1 + Len(e)
    <3>1. h2 = h /\ Len(f2) <= Len(f) /\ \A j \in 1..Len(f2) : f2[j] = f[j]
      BY <1>c, <1>0, <2>0, <2>3
    <3>2. CASE i <= 1 + Len(e) + Len(h)
      <4> DEFINE j == i - 1 - Len(e)
      <4>1. j \in 1..Len(h) /\ 1 + Len(e) + j = i
        BY <1>0, <2>0, <2>3, <3>2
      <4> HIDE DEF j
      <4>2. s[1 + Len(e) + j] = h[j]
        <5>1. \A n \in 1..Len(h) : s[1 + Len(e) + n] = h[n]
          BY DEF IsPipe
        <5> QED BY <4>1, <5>1
      <4>3. r[1 + Len(e) + j] = h[j]
        <5>1. \A n \in 1..Len(h) : r[1 + Len(e) + n] = h[n]
          BY <3>1 DEF IsPipe
        <5> QED BY <4>1, <5>1
      <4> QED BY <4>1, <4>2, <4>3
    <3>3. CASE i > 1 + Len(e) + Len(h)
      <4> DEFINE j == i - 1 - Len(e) - Len(h)
      <4>1. j \in 1..Len(f2) /\ j \in 1..Len(f) /\ 1 + Len(e) + Len(h) + j = i
        BY SMTT(60), <1>0, <2>0, <3>1, <3>3
      <4> HIDE DEF j
      <4>2. s[1 + Len(e) + Len(h) + j] = f[j]
        <5>1. \A n \in 1..Len(f) : s[1 + Len(e) + Len(h) + n] = f[n]
          BY DEF IsPipe
        <5> QED BY <4>1, <5>1
      <4>3. r[1 + Len(e) + Len(h) + j] = f2[j]
        <5>1. \A n \in 1..Len(f2) : r[1 + Len(e) + Len(h) + n] = f2[n]
          BY <3>1 DEF IsPipe
        <5> QED BY <4>1, <5>1
      <4> QED BY <3>1, <4>1, <4>2, <4>3
    <3> QED BY <1>0, <2>0, <3>2, <3>3
  <2> QED BY <1>0, <2>0, <2>1, <2>2, <2>3
<1> QED BY <1>2, <1>3 DEF IsPrefixOf

\* The numbers of the first k frames.
LEMMA NumbersSeq ==
  ASSUME NEW fs \in Seq(Frame), NEW k \in 0..Len(fs), NEW s, s = [i \in 1..k |-> fs[i].n]
  PROVE  s \in Seq(Nat) /\ Len(s) = k /\ \A i \in 1..k : s[i] = fs[i].n
<1>1. \A i \in 1..k : fs[i].n \in Nat
  <2>1. Len(fs) \in Nat /\ \A i \in 1..Len(fs) : fs[i] \in Frame
    BY LenProperties, ElementOfSeq
  <2> QED BY <2>1 DEF Frame
<1> QED BY <1>1, LenProperties

(***************************************************************************)
(* The invariant of the stream: the pipeline is one, a "complete" is the   *)
(* last frame of its connection, and while the connection is up, or once   *)
(* it was completed, the newest number sent on it is in the pipeline.      *)
(***************************************************************************)
StreamType ==
    /\ frames \in Seq(Frame) /\ held \in Frame /\ events \in Seq(Nat) /\ got \in Nat
    /\ sent \in 0..MaxSent /\ firstSent \in 0..sent

LinkInv ==
    /\ link = "none" => frames = <<>>
    /\ link # "none" => pc \in InPump
    /\ pc = "send" => link # "none"
    /\ reason = "complete" => pc \in Over

CompleteIsLast == \A i \in 1..Len(frames) : frames[i].kind = "complete" => i = Len(frames)

CaughtUp ==
    (link = "up" \/ Completed \/ reason = "complete") /\ sent > firstSent => Last(Pipeline) = sent

StreamInv ==
    /\ StreamType /\ LinkInv /\ CompleteIsLast
    /\ Stream(Pipeline, firstSent, sent) /\ CaughtUp

\* What Numbers is, whatever the frames.
LEMMA NumbersAre ==
  ASSUME StreamType
  PROVE  /\ Numbers \in Seq(Nat) /\ InHand \in Seq(Nat) /\ Len(frames) \in Nat
         /\ Len(Numbers) = IF Completed THEN Len(frames) - 1 ELSE Len(frames)
         /\ \A i \in 1..Len(Numbers) : Numbers[i] = frames[i].n
         /\ IsPipe(Pipeline, got, events, InHand, Numbers)
<1>1. Len(frames) \in Nat /\ (frames # <<>> => Len(frames) > 0)
  BY LenProperties, EmptySeq DEF StreamType
<1>2. InHand \in Seq(Nat)
  BY DEF InHand, StreamType, Frame
<1> DEFINE k == IF Completed THEN Len(frames) - 1 ELSE Len(frames)
<1>3. k \in 0..Len(frames)
  BY <1>1 DEF Completed
<1>4. Numbers = [i \in 1..k |-> frames[i].n]
  BY DEF Numbers
<1> HIDE DEF k
<1>5. Numbers \in Seq(Nat) /\ Len(Numbers) = k /\ \A i \in 1..k : Numbers[i] = frames[i].n
  BY <1>3, <1>4, NumbersSeq DEF StreamType
<1>6. IsPipe(Pipeline, got, events, InHand, Numbers)
  BY <1>2, <1>5, PipeConcat DEF StreamType, Pipeline
<1> QED BY <1>1, <1>2, <1>5, <1>6 DEF k

LEMMA NumbersAreNext ==
  ASSUME StreamType'
  PROVE  /\ Numbers' \in Seq(Nat) /\ InHand' \in Seq(Nat) /\ Len(frames') \in Nat
         /\ Len(Numbers') = IF Completed' THEN Len(frames') - 1 ELSE Len(frames')
         /\ \A i \in 1..Len(Numbers') : Numbers'[i] = frames'[i].n
         /\ IsPipe(Pipeline', got', events', InHand', Numbers')
<1>1. Len(frames') \in Nat /\ (frames' # <<>> => Len(frames') > 0)
  BY LenProperties, EmptySeq DEF StreamType
<1>2. InHand' \in Seq(Nat)
  BY DEF InHand, StreamType, Frame
<1> DEFINE k == IF Completed' THEN Len(frames') - 1 ELSE Len(frames')
<1>3. k \in 0..Len(frames')
  BY <1>1 DEF Completed
<1>4. Numbers' = [i \in 1..k |-> frames'[i].n]
  BY DEF Numbers
<1> HIDE DEF k
<1>5. Numbers' \in Seq(Nat) /\ Len(Numbers') = k /\ \A i \in 1..k : Numbers'[i] = frames'[i].n
  BY <1>3, <1>4, NumbersSeq DEF StreamType
<1>6. IsPipe(Pipeline', got', events', InHand', Numbers')
  BY <1>2, <1>5, PipeConcat DEF StreamType, Pipeline
<1> QED BY <1>1, <1>2, <1>5, <1>6 DEF k

\* A step that leaves the stream alone.
LEMMA StreamQuiet ==
  ASSUME StreamInv, UNCHANGED <<frames, held, events, got, sent, firstSent>>,
         pc' = "send" <=> pc = "send", LinkInv',
         link' = "up" => link = "up", reason' = "complete" => reason = "complete"
  PROVE  StreamInv'
<1>1. Pipeline' = Pipeline /\ (Completed' <=> Completed)
  BY DEF Pipeline, InHand, Numbers, Completed
<1>2. StreamType' /\ CompleteIsLast'
  BY DEF StreamInv, StreamType, CompleteIsLast
<1>3. Stream(Pipeline, firstSent, sent)' /\ CaughtUp'
  BY <1>1 DEF StreamInv, CaughtUp, Stream
<1> QED BY <1>2, <1>3 DEF StreamInv

\* The consumer takes the oldest number, and the newest stays.
LEMMA StreamReceive ==
  ASSUME StreamInv, Receive
  PROVE  StreamInv'
<1>0. /\ events # <<>> /\ got' = Head(events) /\ events' = Tail(events)
      /\ UNCHANGED <<link, frames, sent, firstSent, held, pc, reason>>
  BY DEF Receive, loopVars
<1>1. StreamType /\ StreamType' /\ LinkInv' /\ CompleteIsLast'
  BY <1>0, HeadTailProperties DEF StreamInv, StreamType, LinkInv, CompleteIsLast
<1>2. InHand' = InHand /\ Numbers' = Numbers /\ (Completed' <=> Completed)
  BY <1>0 DEF InHand, Numbers, Completed
<1>3. /\ IsPipe(Pipeline, got, events, InHand, Numbers)
      /\ IsPipe(Pipeline', Head(events), Tail(events), InHand, Numbers)
      /\ InHand \in Seq(Nat) /\ Numbers \in Seq(Nat)
  BY <1>0, <1>1, <1>2, NumbersAre, NumbersAreNext
<1>4. Pipeline' = Tail(Pipeline) /\ Len(Pipeline) > 1
  BY <1>0, <1>1, <1>3, PipeReceive DEF StreamType
<1>5. Stream(Pipeline', firstSent, sent) /\ Last(Pipeline') = Last(Pipeline)
  BY <1>1, <1>4, StreamTail DEF StreamInv, StreamType
<1>6. CaughtUp'
  BY <1>0, <1>2, <1>5 DEF StreamInv, CaughtUp, Last
<1> QED BY <1>0, <1>1, <1>5, <1>6 DEF StreamInv

\* A read and a send move a number along.
LEMMA StreamMoves ==
  ASSUME StreamInv, PumpReads \/ PumpSends
  PROVE  StreamInv'
<1>0. StreamType /\ Len(frames) \in Nat /\ (frames # <<>> => Len(frames) > 0)
  BY LenProperties, EmptySeq DEF StreamInv, StreamType
<1>1. CASE PumpReads
  <2>0. /\ pc = "read" /\ pc' = "send" /\ frames # <<>> /\ frames[1].kind # "complete"
        /\ held' = frames[1] /\ frames' = Tail(frames)
        /\ UNCHANGED <<link, sent, firstSent, events, got, reason>>
    BY <1>1 DEF PumpReads, Goto
  <2>1. /\ frames' \in Seq(Frame) /\ Len(frames') = Len(frames) - 1
        /\ \A i \in 1..Len(frames') : frames'[i] = frames[i + 1]
        /\ frames[1] \in Frame
    BY <1>0, <2>0, HeadTailProperties, ElementOfSeq DEF StreamType
  <2>2. StreamType' /\ LinkInv'
    BY <1>0, <2>0, <2>1 DEF StreamInv, StreamType, LinkInv, InPump, Over
  <2>3. CompleteIsLast'
    BY <1>0, <2>1 DEF StreamInv, CompleteIsLast
  <2>4. Completed' <=> Completed
    <3>1. CASE Len(frames) = 1
      <4>1. frames' = <<>> /\ ~Completed
        BY <2>0, <2>1, <3>1, EmptySeq DEF Completed
      <4> QED BY <4>1 DEF Completed
    <3>2. CASE Len(frames) > 1
      <4>1. frames'[Len(frames')] = frames[Len(frames)] /\ frames' # <<>>
        BY <1>0, <2>1, <3>2
      <4> QED BY <2>0, <4>1 DEF Completed
    <3>3. Len(frames) = 1 \/ Len(frames) > 1
      <4>1. Len(frames) \in Nat /\ Len(frames) > 0
        BY <1>0, <2>0, Zenon
      <4>2. \A n \in Nat : n > 0 => n = 1 \/ n > 1
        OBVIOUS
      <4> QED BY <4>1, <4>2, Zenon
    <3> QED BY <3>1, <3>2, <3>3
  <2>5. /\ InHand = <<>> /\ InHand' = <<frames[1].n>>
    BY <2>0 DEF InHand
  <2>6. Numbers # <<>> /\ Numbers[1] = frames[1].n /\ Numbers' = Tail(Numbers)
    <3>1. /\ Numbers \in Seq(Nat) /\ Len(Numbers) = IF Completed THEN Len(frames) - 1 ELSE Len(frames)
          /\ \A i \in 1..Len(Numbers) : Numbers[i] = frames[i].n
          /\ Numbers' \in Seq(Nat) /\ Len(Numbers') = IF Completed' THEN Len(frames') - 1 ELSE Len(frames')
          /\ \A i \in 1..Len(Numbers') : Numbers'[i] = frames'[i].n
      BY <1>0, <2>2, NumbersAre, NumbersAreNext
    <3>2. Len(Numbers) > 0 /\ Len(Numbers) \in Nat
      BY <1>0, <2>0, <3>1, LenProperties DEF Completed
    <3>3. Numbers # <<>> /\ Numbers[1] = frames[1].n
      BY <3>1, <3>2, EmptySeq
    <3>4. /\ Tail(Numbers) \in Seq(Nat) /\ Len(Tail(Numbers)) = Len(Numbers) - 1
          /\ \A i \in 1..Len(Tail(Numbers)) : Tail(Numbers)[i] = Numbers[i + 1]
      BY <3>1, <3>3, HeadTailProperties
    <3>5. Len(Numbers') = Len(Tail(Numbers))
      BY <1>0, <2>1, <2>4, <3>1, <3>4
    <3>6. ASSUME NEW i \in 1..Len(Numbers') PROVE Numbers'[i] = Tail(Numbers)[i]
      <4>1. i + 1 \in 1..Len(Numbers) /\ i \in 1..Len(frames')
        BY <1>0, <2>1, <3>1, <3>2, <3>4, <3>5
      <4> QED BY <2>1, <3>1, <3>4, <3>5, <4>1
    <3> QED BY <3>1, <3>3, <3>4, <3>5, <3>6, SeqEqual
  <2>7. Pipeline' = Pipeline
    <3>1. Numbers \in Seq(Nat)
      BY <1>0, NumbersAre
    <3>2. InHand' = <<Head(Numbers)>>
      BY <2>5, <2>6, <3>1
    <3>3. <<got>> \o events \o InHand' \o Numbers' = <<got>> \o events \o InHand \o Numbers
      <4>1. <<got>> \o events \in Seq(Nat)
        BY <1>0, ConcatProperties DEF StreamType
      <4>2. \A a \in Seq(Nat) : a \o InHand' \o Numbers' = a \o InHand \o Numbers
        BY SMTT(60), <2>5, <2>6, <3>1, <3>2, PipeReads
      <4> QED BY <4>1, <4>2
    <3> QED BY <2>0, <3>3 DEF Pipeline
  <2> QED BY <2>0, <2>2, <2>3, <2>4, <2>7 DEF StreamInv, CaughtUp
<1>2. CASE PumpSends
  <2>0. /\ pc = "send" /\ pc' = "top" /\ events' = Append(events, held.n) /\ held' = Complete
        /\ UNCHANGED <<link, frames, sent, firstSent, got, reason>>
    BY <1>2 DEF PumpSends, SendUnchanged
  <2>1. held.n \in Nat /\ Complete \in Frame
    BY <1>0, MaxSentNat DEF StreamType, Frame, Complete
  <2>2. StreamType' /\ LinkInv' /\ CompleteIsLast'
    BY <1>0, <2>0, <2>1 DEF StreamInv, StreamType, LinkInv, InPump, Over, CompleteIsLast
  <2>3. Numbers' = Numbers /\ (Completed' <=> Completed) /\ InHand = <<held.n>> /\ InHand' = <<>>
    BY <2>0 DEF Numbers, Completed, InHand
  <2>4. Pipeline' = Pipeline
    <3>1. <<got>> \in Seq(Nat) /\ events \in Seq(Nat)
      BY <1>0 DEF StreamType
    <3>2. <<got>> \o events' \o InHand' = <<got>> \o events \o InHand
      BY SMTT(60), <2>0, <2>1, <2>3, <3>1, PipeSends
    <3> QED BY <2>0, <2>3, <3>2 DEF Pipeline
  <2> QED BY <2>0, <2>2, <2>3, <2>4 DEF StreamInv, CaughtUp
<1> QED BY <1>1, <1>2

\* The server appends the next number, or a "complete".
LEMMA StreamServer ==
  ASSUME StreamInv, ServerSends \/ ServerCompletes
  PROVE  StreamInv'
<1>0. /\ StreamType /\ Len(frames) \in Nat /\ frames \in Seq(Frame)
      /\ UNCHANGED <<link, firstSent, held, events, got, pc, reason>>
      /\ link = "up" /\ \A i \in 1..Len(frames) : frames[i].kind # "complete"
  BY LenProperties DEF StreamInv, StreamType, ServerSends, ServerCompletes, Open, loopVars
<1>1. InHand' = InHand /\ ~Completed
  BY <1>0, EmptySeq DEF InHand, Completed
<1>2. ASSUME NEW f \in Frame, frames' = Append(frames, f)
      PROVE  /\ frames' \in Seq(Frame) /\ Len(frames') = Len(frames) + 1 /\ frames'[Len(frames')] = f
             /\ \A i \in 1..Len(frames) : frames'[i] = frames[i]
             /\ CompleteIsLast' /\ frames' # <<>>
  <2>1. /\ frames' \in Seq(Frame) /\ Len(frames') = Len(frames) + 1 /\ frames'[Len(frames) + 1] = f
        /\ \A i \in 1..Len(frames) : frames'[i] = frames[i]
    BY <1>0, <1>2
  <2>2. frames' # <<>> /\ frames'[Len(frames')] = f
    BY <1>0, <2>1, EmptySeq
  <2>3. ASSUME NEW i \in 1..Len(frames'), frames'[i].kind = "complete" PROVE i = Len(frames')
    <3>1. i \in 1..Len(frames) \/ i = Len(frames) + 1
      BY <1>0, <2>1
    <3> QED BY <1>0, <2>1, <2>3, <3>1
  <2> QED BY <2>1, <2>2, <2>3 DEF CompleteIsLast
<1>3. CASE ServerSends
  <2>0. sent < MaxSent /\ sent' = sent + 1 /\ sent \in Nat /\ firstSent \in 0..sent /\ sent' \in 0..MaxSent
    BY <1>0, <1>3, MaxSentNat DEF ServerSends, StreamType
  <2>1. PICK f \in {NextFrame(sent + 1), ErrorFrame(sent + 1)} : frames' = Append(frames, f)
    BY <1>3 DEF ServerSends
  <2>2. f \in Frame /\ f.kind # "complete" /\ f.n = sent + 1
    BY <2>0, <2>1, MaxSentNat DEF NextFrame, ErrorFrame, Frame
  <2>3. StreamType' /\ LinkInv' /\ CompleteIsLast' /\ ~Completed'
    <3>1. frames' \in Seq(Frame) /\ frames'[Len(frames')] = f /\ CompleteIsLast' /\ frames' # <<>>
      BY <1>2, <2>1, <2>2
    <3>2. StreamType'
      BY <1>0, <2>0, <3>1 DEF StreamType
    <3>3. ~Completed'
      BY <2>2, <3>1 DEF Completed
    <3> QED BY <1>0, <3>1, <3>2, <3>3 DEF StreamInv, LinkInv
  <2>4. Numbers' = Append(Numbers, sent + 1)
    <3>1. /\ Numbers \in Seq(Nat) /\ Len(Numbers) = Len(frames)
          /\ \A i \in 1..Len(Numbers) : Numbers[i] = frames[i].n
          /\ Numbers' \in Seq(Nat) /\ Len(Numbers') = Len(frames')
          /\ \A i \in 1..Len(Numbers') : Numbers'[i] = frames'[i].n
      BY <1>0, <1>1, <2>3, NumbersAre, NumbersAreNext
    <3>2. /\ Len(frames') = Len(frames) + 1 /\ frames'[Len(frames')] = f
          /\ \A i \in 1..Len(frames) : frames'[i] = frames[i]
      BY <1>2, <2>1, <2>2
    <3> DEFINE a == Append(Numbers, sent + 1)
    <3>3. /\ a \in Seq(Nat) /\ Len(a) = Len(Numbers) + 1 /\ a[Len(Numbers) + 1] = sent + 1
          /\ \A i \in 1..Len(Numbers) : a[i] = Numbers[i]
      BY <2>0, <3>1
    <3> HIDE DEF a
    <3>4. ASSUME NEW i \in 1..Len(Numbers') PROVE Numbers'[i] = a[i]
      <4>1. i \in 1..Len(Numbers) \/ i = Len(Numbers) + 1
        BY <1>0, <3>1, <3>2
      <4>2. CASE i \in 1..Len(Numbers)
        BY <3>1, <3>2, <3>3, <4>2
      <4>3. CASE i = Len(Numbers) + 1
        BY <2>2, <3>1, <3>2, <3>3, <4>3
      <4> QED BY <4>1, <4>2, <4>3
    <3>5. Len(Numbers') = Len(a)
      BY <3>1, <3>2, <3>3
    <3>6. Numbers' = a
      BY <3>1, <3>3, <3>4, <3>5, SeqEqual
    <3> QED BY <3>6 DEF a
  <2>5. Pipeline' = Append(Pipeline, sent + 1)
    <3>1. Numbers \in Seq(Nat) /\ InHand \in Seq(Nat)
      BY <1>0, NumbersAre
    <3>2. <<got>> \o events \o InHand \in Seq(Nat)
      <4>1. <<got>> \in Seq(Nat) /\ events \in Seq(Nat)
        BY <1>0 DEF StreamType
      <4>2. <<got>> \o events \in Seq(Nat)
        BY <4>1, ConcatProperties
      <4> QED BY <3>1, <4>2, ConcatProperties
    <3>3. \A b \in Seq(Nat) : b \o Numbers' = Append(b \o Numbers, sent + 1)
      BY SMTT(60), <2>0, <2>4, <3>1, PipeAppends
    <3>4. Pipeline' = <<got>> \o events \o InHand \o Numbers' /\ Pipeline = <<got>> \o events \o InHand \o Numbers
      BY <1>0, <1>1 DEF Pipeline
    <3> QED BY <3>2, <3>3, <3>4
  <2>6. Stream(Pipeline', firstSent, sent + 1) /\ Last(Pipeline') = sent + 1
    <3>1. Stream(Pipeline, firstSent, sent) /\ (sent > firstSent => Last(Pipeline) = sent) /\ Pipeline \in Seq(Nat)
      BY <1>0 DEF StreamInv, CaughtUp, Stream
    <3>2. /\ Pipeline' \in Seq(Nat) /\ Len(Pipeline') = Len(Pipeline) + 1
          /\ \A i \in 1..Len(Pipeline) : Pipeline'[i] = Pipeline[i]
          /\ Pipeline'[Len(Pipeline) + 1] = sent + 1
      BY <2>0, <2>5, <3>1
    <3>3. firstSent \in Nat /\ sent \in Nat
      BY <2>0
    <3> QED BY <3>1, <3>2, <3>3, StreamAppend, ZenonT(60)
  <2> QED BY <1>0, <2>0, <2>3, <2>6 DEF StreamInv, CaughtUp, Last
<1>4. CASE ServerCompletes
  <2>0. frames' = Append(frames, Complete) /\ sent' = sent /\ Complete \in Frame /\ Complete.kind = "complete"
    BY <1>4, MaxSentNat DEF ServerCompletes, Complete, Frame
  <2>1. /\ frames' \in Seq(Frame) /\ Len(frames') = Len(frames) + 1 /\ frames'[Len(frames')] = Complete
        /\ \A i \in 1..Len(frames) : frames'[i] = frames[i]
        /\ CompleteIsLast' /\ frames' # <<>>
    BY <1>2, <2>0
  <2>2. StreamType' /\ LinkInv' /\ Completed'
    BY <1>0, <2>0, <2>1 DEF StreamInv, StreamType, LinkInv, Completed
  <2>3. Numbers' = Numbers
    <3>1. /\ Numbers \in Seq(Nat) /\ Len(Numbers) = Len(frames)
          /\ \A i \in 1..Len(Numbers) : Numbers[i] = frames[i].n
          /\ Numbers' \in Seq(Nat) /\ Len(Numbers') = Len(frames') - 1
          /\ \A i \in 1..Len(Numbers') : Numbers'[i] = frames'[i].n
      BY <1>0, <1>1, <2>2, NumbersAre, NumbersAreNext
    <3>2. Len(Numbers') = Len(Numbers)
      BY <1>0, <2>1, <3>1
    <3>3. \A i \in 1..Len(Numbers') : Numbers'[i] = Numbers[i]
      BY <2>1, <3>1, <3>2
    <3> QED BY <3>1, <3>2, <3>3, SeqEqual
  <2>4. Pipeline' = Pipeline
    BY <1>0, <1>1, <2>3 DEF Pipeline
  <2> QED BY <1>0, <2>0, <2>1, <2>2, <2>4 DEF StreamInv, CaughtUp
<1> QED BY <1>3, <1>4

\* What a step cuts off leaves a stream.
LEMMA StreamShorter ==
  ASSUME StreamInv, StreamType', UNCHANGED <<events, got, sent, firstSent>>,
         Cut(InHand, Numbers, InHand', Numbers')
  PROVE  Stream(Pipeline', firstSent, sent)
<1>1. /\ StreamType /\ Stream(Pipeline, firstSent, sent) /\ firstSent \in Nat /\ sent \in Nat
      /\ got \in Nat /\ events \in Seq(Nat)
  BY DEF StreamInv, StreamType
<1>2. /\ IsPipe(Pipeline, got, events, InHand, Numbers) /\ InHand \in Seq(Nat) /\ Numbers \in Seq(Nat)
      /\ IsPipe(Pipeline', got, events, InHand', Numbers') /\ InHand' \in Seq(Nat) /\ Numbers' \in Seq(Nat)
  BY <1>1, NumbersAre, NumbersAreNext
<1>3. IsPrefixOf(Pipeline', Pipeline)
  BY <1>1, <1>2, PipeCut, Zenon
<1>4. Pipeline' \in Seq(Nat)
  BY <1>2 DEF IsPipe
<1> QED BY <1>1, <1>3, <1>4, StreamCut DEF IsPrefixOf

\* The end of a connection overtakes some of its frames.
LEMMA StreamEnds ==
  ASSUME StreamInv, ConnectionEnds
  PROVE  StreamInv'
<1>0. /\ StreamType /\ Len(frames) \in Nat /\ frames \in Seq(Frame) /\ CompleteIsLast
      /\ UNCHANGED <<sent, firstSent, held, events, got, pc, reason>>
      /\ link = "up" /\ link' \in {"closed", "broken"}
  BY LenProperties DEF StreamInv, StreamType, ConnectionEnds
<1>1. PICK k \in 0..Len(frames) : frames' = SubSeq(frames, 1, k)
  BY DEF ConnectionEnds
<1>2. /\ frames' \in Seq(Frame) /\ Len(frames') = k /\ k \in Nat
      /\ \A i \in 1..k : frames'[i] = frames[i]
  <2>1. k \in Int /\ \A i \in 1..k : frames[i] \in Frame
    BY <1>0, ElementOfSeq
  <2>2. /\ SubSeq(frames, 1, k) \in Seq(Frame) /\ Len(SubSeq(frames, 1, k)) = IF 1 <= k THEN k - 1 + 1 ELSE 0
        /\ \A i \in 1..k - 1 + 1 : SubSeq(frames, 1, k)[i] = frames[1 + i - 1]
    BY <2>1, SubSeqProperties
  <2>3. k - 1 + 1 = k /\ \A i \in 1..k : 1 + i - 1 = i
    BY <2>1
  <2> QED BY <1>0, <1>1, <2>2, <2>3
<1>3. StreamType' /\ LinkInv' /\ InHand' = InHand
  BY <1>0, <1>2 DEF StreamInv, StreamType, LinkInv, InHand
<1>4. CompleteIsLast'
  <2> SUFFICES ASSUME NEW i \in 1..k, frames[i].kind = "complete" PROVE i = k
    BY <1>2 DEF CompleteIsLast
  <2>1. i \in 1..Len(frames) /\ i = Len(frames)
    BY <1>0 DEF CompleteIsLast
  <2> QED BY <1>0, <2>1
<1>5. Completed' => Completed /\ k = Len(frames)
  <2> SUFFICES ASSUME Completed' PROVE Completed /\ k = Len(frames)
    OBVIOUS
  <2>1. k > 0 /\ frames'[k].kind = "complete"
    BY <1>2, EmptySeq DEF Completed
  <2>2. k \in 1..Len(frames) /\ frames[k].kind = "complete"
    BY <1>0, <1>2, <2>1
  <2>3. k = Len(frames)
    BY <1>0, <2>2 DEF CompleteIsLast
  <2> QED BY <2>2, <2>3, EmptySeq DEF Completed
<1>6. /\ Numbers \in Seq(Nat) /\ Len(Numbers) = IF Completed THEN Len(frames) - 1 ELSE Len(frames)
      /\ \A i \in 1..Len(Numbers) : Numbers[i] = frames[i].n
      /\ Numbers' \in Seq(Nat) /\ Len(Numbers') = IF Completed' THEN k - 1 ELSE k
      /\ \A i \in 1..Len(Numbers') : Numbers'[i] = frames'[i].n
  BY <1>0, <1>2, <1>3, NumbersAre, NumbersAreNext
<1>7. Len(Numbers') <= Len(Numbers)
  <2>1. k = Len(frames) \/ k <= Len(frames) - 1
    BY <1>0
  <2>2. CASE Completed'
    BY <1>0, <1>5, <1>6, <2>2
  <2>3. CASE ~Completed'
    <3>1. CASE Completed /\ k = Len(frames)
      <4>1. frames' = frames
        BY <1>0, <1>2, <3>1, SeqEqual
      <4> QED BY <2>3, <3>1, <4>1 DEF Completed
    <3>2. CASE ~Completed
      BY <1>0, <1>6, <2>3, <3>2
    <3>3. CASE k <= Len(frames) - 1
      BY <1>0, <1>6, <2>3, <3>3
    <3> QED BY <2>1, <3>1, <3>2, <3>3
  <2> QED BY <2>2, <2>3
<1>8. ASSUME NEW i \in 1..Len(Numbers') PROVE Numbers'[i] = Numbers[i]
  <2>1. i \in 1..Len(Numbers) /\ i \in 1..k
    BY <1>2, <1>6, <1>7, LenProperties
  <2> QED BY <1>2, <1>6, <2>1
<1>9. Stream(Pipeline', firstSent, sent)
  BY <1>0, <1>3, <1>7, <1>8, StreamShorter DEF Cut
<1>10. CaughtUp'
  <2> SUFFICES ASSUME Completed' \/ reason = "complete", sent > firstSent PROVE Last(Pipeline') = sent
    BY <1>0 DEF CaughtUp, Last
  <2>1. Completed'
    BY <1>0 DEF StreamInv, LinkInv, InPump, Over
  <2>2. frames' = frames
    <3>1. Len(frames') = Len(frames) /\ \A i \in 1..Len(frames') : frames'[i] = frames[i]
      BY <1>2, <1>5, <2>1
    <3> QED BY <1>0, <1>2, <3>1, SeqEqual
  <2>3. Pipeline' = Pipeline
    BY <1>0, <1>3, <2>2 DEF Pipeline, Numbers, Completed
  <2> QED BY <1>0, <2>3 DEF StreamInv, CaughtUp
<1> QED BY <1>0, <1>3, <1>4, <1>9, <1>10 DEF StreamInv

\* The socket is torn down.
LEMMA StreamTornDown ==
  ASSUME StreamInv, TearDown, pc \in InPump, pc' \notin InPump, link' = "none",
         reason' = "complete" => pc' \in Over
  PROVE  /\ StreamType' /\ LinkInv' /\ CompleteIsLast' /\ ~Completed'
         /\ Stream(Pipeline, firstSent, sent)'
         /\ pc # "send" /\ (frames = <<>> \/ (Completed /\ Len(frames) = 1)) => Pipeline' = Pipeline
<1>0. /\ frames' = <<>> /\ held' = Complete /\ UNCHANGED <<sent, firstSent, events, got>>
      /\ StreamType
  BY DEF TearDown, StreamInv
<1>1. StreamType' /\ LinkInv'
  BY <1>0, EmptySeq, MaxSentNat DEF StreamType, LinkInv, Complete, Frame, InPump
<1>2. CompleteIsLast' /\ ~Completed'
  BY <1>0, EmptySeq DEF CompleteIsLast, Completed
<1>3. InHand' = <<>>
  BY DEF InHand, InPump
<1>4. Numbers' = <<>>
  <2>1. Numbers' \in Seq(Nat) /\ Len(Numbers') = 0
    BY <1>0, <1>1, <1>2, NumbersAreNext, EmptySeq
  <2> QED BY <2>1, EmptySeq
<1>5. Stream(Pipeline, firstSent, sent)'
  <2>1. Stream(Pipeline', firstSent, sent)
    BY <1>0, <1>1, <1>3, <1>4, StreamShorter DEF Cut
  <2> QED BY <1>0, <2>1 DEF Stream
<1>6. ASSUME pc # "send", frames = <<>> \/ (Completed /\ Len(frames) = 1) PROVE Pipeline' = Pipeline
  <2>1. InHand = <<>>
    BY <1>6 DEF InHand
  <2>2. Numbers = <<>>
    <3>1. Numbers \in Seq(Nat) /\ Len(Numbers) = 0
      BY <1>0, <1>6, NumbersAre, EmptySeq DEF Completed
    <3> QED BY <3>1, EmptySeq
  <2> QED BY <1>0, <1>3, <1>4, <2>1, <2>2 DEF Pipeline
<1> QED BY <1>1, <1>2, <1>5, <1>6

\* pump ends: whatever was not read or sent is lost, except after a "complete",
\* which comes last.
LEMMA StreamLost ==
  ASSUME StreamInv, PumpCancelled \/ PumpCompletes \/ PumpDisconnected
  PROVE  StreamInv'
<1>0. /\ TearDown /\ pc \in InPump /\ link' = "none" /\ UNCHANGED <<sent, firstSent>>
  BY DEF PumpCancelled, PumpCompletes, PumpDisconnected, TearDown, InPump
<1>1. reason # "complete"
  BY <1>0 DEF StreamInv, LinkInv, InPump, Over
<1>2. CASE reason' # "complete" /\ pc' \notin InPump
  <2>1. StreamType' /\ LinkInv' /\ CompleteIsLast' /\ ~Completed' /\ Stream(Pipeline, firstSent, sent)'
    BY <1>0, <1>2, StreamTornDown
  <2>2. CaughtUp'
    BY <1>0, <1>2, <2>1 DEF CaughtUp
  <2> QED BY <2>1, <2>2 DEF StreamInv
<1>3. CASE PumpCompletes
  <2>1. pc = "read" /\ frames # <<>> /\ frames[1].kind = "complete" /\ pc' = "return"
    BY <1>3 DEF PumpCompletes, Return
  <2>2. Completed /\ Len(frames) = 1
    <3>1. frames \in Seq(Frame) /\ Len(frames) \in Nat /\ Len(frames) # 0
      BY <2>1, LenProperties, EmptySeq DEF StreamInv, StreamType
    <3>2. 1 \in 1..Len(frames)
      BY <3>1
    <3>3. 1 = Len(frames)
      BY <2>1, <3>2 DEF StreamInv, CompleteIsLast
    <3> QED BY <2>1, <3>3 DEF Completed
  <2>3. pc' \notin InPump /\ pc' \in Over
    BY <2>1 DEF InPump, Over
  <2>4. /\ StreamType' /\ LinkInv' /\ CompleteIsLast' /\ Stream(Pipeline, firstSent, sent)'
        /\ Pipeline' = Pipeline
    BY <1>0, <2>1, <2>2, <2>3, StreamTornDown
  <2>5. CaughtUp'
    BY <1>0, <2>2, <2>4 DEF StreamInv, CaughtUp
  <2> QED BY <2>4, <2>5 DEF StreamInv
<1>4. CASE PumpCancelled
  BY <1>2, <1>4 DEF PumpCancelled, Return, InPump
<1>5. CASE PumpDisconnected
  BY <1>1, <1>2, <1>5 DEF PumpDisconnected, Return, Retry, InPump
<1> QED BY <1>3, <1>4, <1>5

\* A connection is opened.
LEMMA StreamOpened ==
  ASSUME StreamInv, Connected
  PROVE  StreamInv'
<1>0. /\ pc = "connect" /\ pc' = "top" /\ link' = "up" /\ frames' = <<>> /\ firstSent' = sent
      /\ UNCHANGED <<sent, held, events, got, reason>>
  BY DEF Connected
<1>1. frames = <<>>
  BY <1>0 DEF StreamInv, LinkInv, InPump
<1>2. Pipeline' = Pipeline
  BY <1>0, <1>1 DEF Pipeline, InHand, Numbers, Completed
<1>3. StreamType' /\ LinkInv' /\ CompleteIsLast'
  BY <1>0, EmptySeq DEF StreamInv, StreamType, LinkInv, InPump, Over, CompleteIsLast
<1>4. Stream(Pipeline, sent, sent)
  BY StreamReopen DEF StreamInv, StreamType
<1>5. Stream(Pipeline, firstSent, sent)'
  BY <1>0, <1>2, <1>4 DEF Stream
<1>6. CaughtUp'
  BY <1>0 DEF CaughtUp, StreamInv, StreamType
<1> QED BY <1>3, <1>5, <1>6 DEF StreamInv

\* The steps that leave the stream alone.
LEMMA StreamElse ==
  ASSUME StreamInv,
         \/ Resolve \/ LookupCached \/ LookupMiss \/ Discovered \/ DiscoveryFails \/ ConnectFails
         \/ PumpTop \/ Ending \/ Unsubscribe \/ Elsewhere \/ UNCHANGED vars
  PROVE  StreamInv'
<1> SUFFICES ASSUME TRUE
             PROVE  /\ UNCHANGED streamVars /\ (pc' = "send" <=> pc = "send")
                    /\ (pc \in InPump => pc' \in InPump)
                    /\ (reason' = "complete" => reason = "complete" /\ (pc \in Over => pc' \in Over))
  BY StreamQuiet DEF StreamInv, LinkInv, streamVars, InPump, Over
<1>1. CASE Resolve
  BY <1>1 DEF Resolve, InPump, Over
<1>2. CASE LookupCached
  BY <1>2 DEF LookupCached, Choose, ResolveFails, Retry, Return, InPump, Over
<1>3. CASE LookupMiss
  BY <1>3 DEF LookupMiss, InPump, Over
<1>4. CASE Discovered
  BY <1>4 DEF Discovered, Choose, ResolveFails, Retry, Return, InPump, Over
<1>5. CASE DiscoveryFails
  BY <1>5 DEF DiscoveryFails, ResolveFails, Retry, Return, InPump, Over
<1>6. CASE ConnectFails
  BY <1>6 DEF ConnectFails, ResolveFails, Retry, Return, InPump, Over
<1>7. CASE PumpTop
  BY <1>7 DEF PumpTop, Goto, InPump, Over
<1>8. CASE Ending
  BY <1>8 DEF Ending, BackoffEnds, BackoffCancelled, CloseDone, CloseEvents, Goto, Return, InPump, Over
<1>9. CASE Unsubscribe \/ Elsewhere \/ UNCHANGED vars
  BY <1>9 DEF Unsubscribe, Elsewhere, vars, loopVars
<1> QED BY <1>1, <1>2, <1>3, <1>4, <1>5, <1>6, <1>7, <1>8, <1>9

\* A stream in which nothing is left begins its numbers again.
LEMMA StreamRenumbers ==
  ASSUME StreamInv, Renumber
  PROVE  StreamInv'
<1>0. /\ frames' = <<>> /\ events' = <<>> /\ sent' = 0 /\ firstSent' = 0 /\ got' = 0
      /\ UNCHANGED <<link, pc, reason, held>> /\ pc # "send" /\ frames' = frames
  BY DEF Renumber, loopVars
<1>1. StreamType' /\ LinkInv' /\ CompleteIsLast'
  BY <1>0, EmptySeq, MaxSentNat DEF StreamInv, StreamType, LinkInv, CompleteIsLast
<1>2. ~Completed'
  BY <1>0 DEF Completed
<1>3. IsPipe(Pipeline', got', events', InHand', Numbers') /\ Len(Numbers') = 0
  BY <1>0, <1>1, <1>2, NumbersAreNext, EmptySeq
<1>4. Pipeline' \in Seq(Nat) /\ Len(Pipeline') = 1 /\ Pipeline'[1] = 0
  BY <1>0, <1>3, EmptySeq DEF IsPipe, InHand
<1>5. Stream(Pipeline', 0, 0)
  BY <1>4 DEF Stream, Rising, Unbroken, Last
<1> QED BY <1>0, <1>1, <1>5 DEF StreamInv, CaughtUp

LEMMA StreamHolds == Spec => []StreamInv
<1>1. Init => StreamInv
  <2> SUFFICES ASSUME Init PROVE StreamInv
    OBVIOUS
  <2>0. /\ pc = "resolve" /\ link = "none" /\ frames = <<>> /\ sent = 0 /\ firstSent = 0
        /\ held = Complete /\ events = <<>> /\ got = 0 /\ reason = "none"
    BY DEF Init
  <2>1. StreamType /\ LinkInv /\ CompleteIsLast /\ ~Completed
    BY <2>0, EmptySeq, MaxSentNat
    DEF StreamType, LinkInv, CompleteIsLast, Completed, Complete, Frame
  <2>2. IsPipe(Pipeline, got, events, InHand, Numbers) /\ Len(Numbers) = 0
    BY <2>0, <2>1, NumbersAre, EmptySeq
  <2>3. Pipeline \in Seq(Nat) /\ Len(Pipeline) = 1 /\ Pipeline[1] = 0
    BY <2>0, <2>2, EmptySeq DEF IsPipe, InHand
  <2>4. Stream(Pipeline, 0, 0)
    BY <2>3 DEF Stream, Rising, Unbroken, Last
  <2> QED BY <2>0, <2>1, <2>4 DEF StreamInv, CaughtUp
<1>2. ASSUME StreamInv, [Next]_vars PROVE StreamInv'
  BY <1>2, StreamQuiet, StreamReceive, StreamMoves, StreamServer, StreamEnds, StreamLost,
     StreamOpened, StreamRenumbers, StreamElse
  DEF Next, Resolving, Pumping, Server
<1> QED BY <1>1, <1>2, PTL DEF Spec

\* Payloads reach the consumer in the order the servers sent them and never
\* twice, across any number of reconnects and however many frames are sent
\* (pump and the Events channel of subscriptions.go).
THEOREM PayloadsAreInOrder == Spec => []InOrder
<1>1. StreamInv => InOrder
  <2> SUFFICES ASSUME StreamInv PROVE InOrder
    OBVIOUS
  <2>1. Rising(Pipeline) /\ DOMAIN Pipeline = 1..Len(Pipeline)
    BY LenProperties DEF StreamInv, Stream
  <2> QED BY <2>1 DEF InOrder, Rising
<1> QED BY <1>1, StreamHolds, PTL

\* Of what the current connection's server sent nothing is missing between it and
\* the consumer, and a subscription that ends with the server's "complete" has
\* put everything sent before it into the channel.
THEOREM NoPayloadIsLost == Spec => []NoneLost
<1>1. StreamInv => NoneLost
  <2> SUFFICES ASSUME StreamInv PROVE NoneLost
    OBVIOUS
  <2>1. /\ Unbroken(Pipeline, firstSent) /\ DOMAIN Pipeline = 1..Len(Pipeline) /\ Len(Pipeline) \in Nat
        /\ CaughtUp
    BY LenProperties DEF StreamInv, Stream
  <2>2. \A i \in 1..Len(Pipeline) : i > 1 => i \in 2..Len(Pipeline)
    BY <2>1
  <2> QED BY <2>1, <2>2 DEF NoneLost, Unbroken, CaughtUp, Last
<1> QED BY <1>1, StreamHolds, PTL

USE SubAssumption, OptionAssumption

(***************************************************************************)
(* The attempt counter.  tries never passes attempts, except that once the *)
(* connection delivered a payload tries is 0 and attempts is still to be   *)
(* reset; and attempts never passes the limit, because Retry gives up      *)
(* before it would.                                                        *)
(***************************************************************************)
CounterInv ==
    /\ attempts \in Nat /\ tries \in Nat /\ delivered \in BOOLEAN
    /\ tries <= attempts
    /\ delivered /\ pc \in InPump => tries = 0
    /\ MaxReconnectAttempts > 0 => attempts <= MaxReconnectAttempts

\* Retry keeps the counters within the limit, whatever it is given to surface.
LEMMA RetryCounts ==
  ASSUME NEW k \in Nat, NEW e, tries \in Nat, tries <= k, attempts \in Nat, tries <= attempts,
         MaxReconnectAttempts > 0 => k <= MaxReconnectAttempts,
         MaxReconnectAttempts > 0 => attempts <= MaxReconnectAttempts,
         Retry(k, e)
  PROVE  /\ attempts' \in Nat /\ tries' \in Nat /\ tries' <= attempts'
         /\ MaxReconnectAttempts > 0 => attempts' <= MaxReconnectAttempts
         /\ pc' \notin InPump
  BY DEF Retry, Exhausted, Return, InPump

\* A failed resolution keeps them too.
LEMMA ResolveFailsCounts ==
  ASSUME NEW e, CounterInv, delivered' = delivered, ResolveFails(e)
  PROVE  CounterInv'
<1>1. CASE ~handed /\ pc' = "failed" /\ UNCHANGED <<attempts, tries, delay, err>>
  BY <1>1 DEF CounterInv, InPump
<1>2. CASE Return("cancelled", err)
  BY <1>2 DEF CounterInv, InPump, Return
<1>3. CASE Retry(attempts, e)
  BY <1>3, RetryCounts DEF CounterInv
<1> QED BY <1>1, <1>2, <1>3 DEF ResolveFails

\* "The counter resets only after a reconnection delivers at least one real
\* payload": for any limit, never more attempts than MaxReconnectAttempts are
\* made between two payloads (subscriptionLoop).
THEOREM AttemptsAreBounded == Spec => []AttemptsBounded
<1>1. Init => CounterInv
  <2> SUFFICES ASSUME Init PROVE CounterInv
    OBVIOUS
  <2>1. attempts = 0 /\ tries = 0
    BY DEF Init
  <2>2. delivered = FALSE
    BY DEF Init
  <2>3. /\ attempts \in Nat /\ tries \in Nat /\ tries <= attempts
        /\ MaxReconnectAttempts > 0 => attempts <= MaxReconnectAttempts
    BY <2>1
  <2> QED BY <2>1, <2>2, <2>3, Zenon DEF CounterInv
<1>2. CounterInv /\ [Next]_vars => CounterInv'
  <2> SUFFICES ASSUME CounterInv, [Next]_vars PROVE CounterInv'
    OBVIOUS
  <2>1. ASSUME NEW candidates, delivered' = delivered, Choose(candidates) PROVE CounterInv'
    <3>1. CASE pc' = "connect" /\ UNCHANGED <<attempts, tries>>
      BY <2>1, <3>1 DEF CounterInv, InPump
    <3>2. CASE ResolveFails("noIndexer")
      BY <2>1, <3>2, ResolveFailsCounts
    <3> QED BY <2>1, <3>1, <3>2 DEF Choose
  <2>2. CASE Resolving
    <3>1. CASE Resolve \/ LookupMiss
      BY <3>1 DEF Resolve, LookupMiss, CounterInv, InPump
    <3>2. CASE LookupCached \/ Discovered
      BY <2>1, <3>2 DEF LookupCached, Discovered
    <3>3. CASE DiscoveryFails \/ ConnectFails
      BY <3>3, ResolveFailsCounts DEF DiscoveryFails, ConnectFails
    <3>4. CASE Connected
      BY <3>4 DEF Connected, CounterInv, InPump
    <3> QED BY <2>2, <3>1, <3>2, <3>3, <3>4 DEF Resolving
  <2>3. CASE Pumping
    <3>1. CASE PumpTop \/ PumpReads
      BY <3>1 DEF PumpTop, PumpReads, Goto, CounterInv, InPump
    <3>2. CASE PumpCancelled \/ PumpCompletes
      BY <3>2 DEF PumpCancelled, PumpCompletes, Return, CounterInv, InPump
    <3>3. CASE PumpSends
      BY <3>3 DEF PumpSends, SendUnchanged, CounterInv, InPump
    <3>4. CASE PumpDisconnected
      <4>1. pc = "read" /\ delivered' = delivered
        BY <3>4 DEF PumpDisconnected
      <4>2. /\ AttemptsAfter \in Nat /\ tries <= AttemptsAfter
            /\ MaxReconnectAttempts > 0 => AttemptsAfter <= MaxReconnectAttempts
        BY <4>1 DEF AttemptsAfter, CounterInv, InPump
      <4>3. CASE Return("dropped", IF ReadError # "nil" THEN ReadError ELSE err)
        BY <4>1, <4>3 DEF Return, CounterInv, InPump
      <4>4. CASE Retry(AttemptsAfter, ReadError)
        <5>1. /\ attempts' \in Nat /\ tries' \in Nat /\ tries' <= attempts'
              /\ MaxReconnectAttempts > 0 => attempts' <= MaxReconnectAttempts
              /\ pc' \notin InPump
          BY <4>2, <4>4, RetryCounts DEF CounterInv
        <5> QED BY <4>1, <5>1 DEF CounterInv
      <4> QED BY <3>4, <4>3, <4>4 DEF PumpDisconnected
    <3> QED BY <2>3, <3>1, <3>2, <3>3, <3>4 DEF Pumping
  <2>4. CASE Ending
    BY <2>4 DEF Ending, BackoffEnds, BackoffCancelled, CloseDone, CloseEvents, Goto, Return,
                CounterInv, InPump
  <2>5. ASSUME UNCHANGED <<pc, delivered, attempts, tries>> PROVE CounterInv'
    BY <2>5 DEF CounterInv
  <2>6. CASE Unsubscribe \/ Receive \/ ServerSends \/ Renumber \/ ServerCompletes \/ ConnectionEnds \/ Elsewhere
    BY <2>5, <2>6 DEF Unsubscribe, Receive, ServerSends, Renumber, ServerCompletes, ConnectionEnds, Elsewhere, loopVars
  <2>7. CASE UNCHANGED vars
    BY <2>5, <2>7 DEF vars, loopVars
  <2> QED BY <2>2, <2>3, <2>4, <2>6, <2>7 DEF Next, Server
<1>3. CounterInv => AttemptsBounded
  BY DEF CounterInv, AttemptsBounded
<1> QED BY <1>1, <1>2, <1>3, PTL DEF Spec

(***************************************************************************)
(* Done.  It is closed by the deferred calls, after the loop's last step,  *)
(* so a closed Done finds the loop past everything that sends or records   *)
(* an error.                                                               *)
(***************************************************************************)
AfterLoop == {"doneClosed", "ended"}

DoneInv == done => pc \in AfterLoop

\* Every step of the loop proper starts before its deferred calls, and leaves
\* Done alone.
LEMMA LoopStep ==
  ASSUME Resolving \/ Pumping \/ BackoffEnds \/ BackoffCancelled
  PROVE  pc \notin AfterLoop /\ done' = done
<1>1. CASE Resolving
  BY <1>1, Zenon DEF Resolving, Resolve, LookupCached, LookupMiss, Discovered, DiscoveryFails,
                     Connected, ConnectFails, AfterLoop
<1>2. CASE Pumping \/ BackoffEnds \/ BackoffCancelled
  BY <1>2, Zenon DEF Pumping, PumpTop, PumpCancelled, PumpReads, PumpSends, PumpCompletes, PumpDisconnected,
                     BackoffEnds, BackoffCancelled, SendUnchanged, PumpUnchanged, AfterLoop
<1> QED BY <1>1, <1>2

\* The caller, the server and the other users of the cache leave the loop's
\* place, its error and Done alone; of Events they only take the head.
LEMMA OtherStep ==
  ASSUME Unsubscribe \/ Receive \/ Server \/ Elsewhere \/ UNCHANGED vars
  PROVE  /\ pc' = pc /\ done' = done /\ err' = err
         /\ events' = events \/ (events # <<>> /\ events' = Tail(events))
BY DEF Unsubscribe, Receive, Server, ServerSends, Renumber, ServerCompletes, ConnectionEnds, Elsewhere,
       vars, loopVars, streamVars

\* "Safe to call after <-Done()": whatever the connection and the caller still
\* do, once Done is closed Err returns the same error forever, and nothing
\* more is put into Events (subscriptionLoop's deferred closes).
THEOREM DoneIsFinal == Spec => FinalOnceDone
<1> DEFINE Final == done => /\ err' = err
                            /\ events' = events \/ (events # <<>> /\ events' = Tail(events))
<1>1. Init => DoneInv
  BY DEF Init, DoneInv
<1>2. DoneInv /\ [Next]_vars => DoneInv' /\ Final
  <2> SUFFICES ASSUME DoneInv, [Next]_vars PROVE DoneInv' /\ Final
    OBVIOUS
  <2>1. CASE Resolving \/ Pumping \/ BackoffEnds \/ BackoffCancelled
    BY <2>1, LoopStep DEF DoneInv
  <2>2. CASE CloseDone \/ CloseEvents
    BY <2>2 DEF CloseDone, CloseEvents, streamVars, DoneInv, AfterLoop
  <2>3. CASE Unsubscribe \/ Receive \/ Server \/ Elsewhere \/ UNCHANGED vars
    BY <2>3, OtherStep DEF DoneInv
  <2> QED BY <2>1, <2>2, <2>3 DEF Next, Ending
<1>3. DoneInv /\ [Next]_vars =>
        [done => err' = err /\ (events' = events \/ (events # <<>> /\ events' = Tail(events)))]_vars
  BY <1>2
<1> QED BY <1>1, <1>2, <1>3, PTL DEF Spec, FinalOnceDone

(***************************************************************************)
(* Err.  Until the loop returns no error is recorded, whatever attempts    *)
(* failed; what a connection ended with is kept in lastEnd until the loop  *)
(* sees it, and an attempt that fails after it is an error.                *)
(***************************************************************************)
Told ==
    /\ reason \in {"complete", "cancelled"} => err = "nil"
    /\ reason \in {"dropped", "exhausted"} => (err = "nil" <=> lastEnd = "clean")

ErrInv ==
    /\ pc \notin Over => err = "nil"
    /\ pc \in Over => Told
    /\ link # "none" => pc \in InPump
    /\ link = "closed" => lastEnd = "clean"
    /\ link = "broken" => lastEnd = "error"
    /\ DoneInv

\* Retry either schedules an attempt and records nothing, or gives up and
\* records what it was given to surface.
LEMMA RetryTells ==
  ASSUME NEW k, NEW e, Retry(k, e), err = "nil"
  PROVE  \/ pc' = "backoff" /\ err' = "nil"
         \/ pc' = "return" /\ reason' = "exhausted" /\ err' = e
<1>1. CASE Return("exhausted", IF e # "nil" THEN e ELSE err)
  BY <1>1 DEF Return
<1>2. CASE pc' = "backoff" /\ err' = err
  BY <1>2
<1> QED BY <1>1, <1>2 DEF Retry

\* A failed resolution, before or after the subscription was handed out.
LEMMA ResolveFailsTells ==
  ASSUME ErrInv, NEW e, e \in {"noIndexer", "discovery", "connect"},
         pc \in {"lookup", "discover", "connect"}, ResolveFails(e),
         link' = link, done' = done
  PROVE  ErrInv'
<1>1. err = "nil" /\ link = "none" /\ ~done /\ lastEnd' = "error"
  BY DEF ErrInv, DoneInv, AfterLoop, Over, InPump, ResolveFails
<1>2. CASE pc' = "failed" /\ err' = err
  BY <1>1, <1>2 DEF ErrInv, DoneInv, Over
<1>3. CASE Return("cancelled", err)
  BY <1>1, <1>3 DEF ErrInv, DoneInv, Over, Told, Return
<1>4. CASE Retry(attempts, e)
  BY <1>1, <1>4, RetryTells DEF ErrInv, DoneInv, Over, Told
<1> QED BY <1>2, <1>3, <1>4 DEF ResolveFails

\* "Err returns the error that terminated the subscription, or nil if it was a
\* clean completion or Unsubscribe" (subscriptionLoop): for any options and
\* limits, an error of an attempt that was retried never shows through, and a
\* subscription that was given up reports nil exactly after a normal close.
THEOREM ErrorsAreTrue == Spec => []ErrTellsWhy
<1>1. Init => ErrInv
  BY DEF Init, ErrInv, DoneInv, Over, InPump
<1>2. ErrInv /\ [Next]_vars => ErrInv'
  <2> SUFFICES ASSUME ErrInv, [Next]_vars PROVE ErrInv'
    OBVIOUS
  <2>1. ASSUME NEW candidates, pc \in {"lookup", "discover"}, link' = link, done' = done,
               Choose(candidates)
        PROVE  ErrInv'
    <3>1. CASE pc' = "connect" /\ UNCHANGED <<err, reason, lastEnd>>
      BY <2>1, <3>1 DEF ErrInv, DoneInv, Over, InPump, AfterLoop
    <3>2. CASE ResolveFails("noIndexer")
      BY <2>1, <3>2, ResolveFailsTells
    <3> QED BY <2>1, <3>1, <3>2 DEF Choose
  <2>2. CASE Resolve \/ LookupMiss
    BY <2>2 DEF Resolve, LookupMiss, streamVars, ErrInv, DoneInv, Over, InPump, AfterLoop
  <2>3. CASE LookupCached \/ Discovered
    BY <2>1, <2>3 DEF LookupCached, Discovered, streamVars
  <2>4. CASE DiscoveryFails \/ ConnectFails
    BY <2>4, ResolveFailsTells DEF DiscoveryFails, ConnectFails, streamVars
  <2>5. CASE Connected
    BY <2>5 DEF Connected, ErrInv, DoneInv, Over, InPump, AfterLoop
  <2>6. CASE PumpTop \/ PumpReads \/ PumpSends
    BY <2>6 DEF PumpTop, PumpReads, PumpSends, Goto, SendUnchanged, PumpUnchanged, streamVars,
                ErrInv, DoneInv, Over, InPump, AfterLoop
  <2>7. CASE PumpCancelled \/ PumpCompletes
    BY <2>7 DEF PumpCancelled, PumpCompletes, TearDown, Return, PumpUnchanged,
                ErrInv, DoneInv, Over, Told, InPump, AfterLoop
  <2>8. CASE PumpDisconnected
    <3>1. /\ pc = "read" /\ link \in {"closed", "broken"} /\ err = "nil" /\ ~done
          /\ link' = "none" /\ done' = done /\ lastEnd' = lastEnd
          /\ ReadError = "nil" <=> lastEnd = "clean"
      BY <2>8 DEF PumpDisconnected, TearDown, PumpUnchanged, ReadError, ErrInv, DoneInv, Over, AfterLoop
    <3>2. CASE Return("dropped", IF ReadError # "nil" THEN ReadError ELSE err)
      BY <3>1, <3>2 DEF Return, ErrInv, DoneInv, Over, Told
    <3>3. CASE Retry(AttemptsAfter, ReadError)
      BY <3>1, <3>3, RetryTells DEF ErrInv, DoneInv, Over, Told
    <3> QED BY <2>8, <3>2, <3>3 DEF PumpDisconnected
  <2>9. CASE Ending
    BY <2>9 DEF Ending, BackoffEnds, BackoffCancelled, CloseDone, CloseEvents, Goto, Return, PumpUnchanged,
                streamVars, ErrInv, DoneInv, Over, Told, InPump, AfterLoop
  <2>10. CASE ConnectionEnds
    BY <2>10 DEF ConnectionEnds, ErrInv, DoneInv, Over, InPump, AfterLoop
  <2>11. CASE Unsubscribe \/ Receive \/ ServerSends \/ Renumber \/ ServerCompletes \/ Elsewhere \/ UNCHANGED vars
    <3>1. UNCHANGED <<pc, err, reason, lastEnd, link, done>>
      BY <2>11 DEF Unsubscribe, Receive, ServerSends, Renumber, ServerCompletes, Elsewhere, vars, loopVars, streamVars
    <3> QED BY <3>1 DEF ErrInv, DoneInv, Told
  <2> QED BY <2>2, <2>3, <2>4, <2>5, <2>6, <2>7, <2>8, <2>9, <2>10, <2>11
          DEF Next, Resolving, Pumping, Server
<1>3. ErrInv => ErrTellsWhy
  BY DEF ErrInv, DoneInv, AfterLoop, Over, Told, ErrTellsWhy
<1> QED BY <1>1, <1>2, <1>3, PTL DEF Spec
=============================================================================
