---------------------------- MODULE DequeProofs -----------------------------
(***************************************************************************)
(* The chunked deque holds what was pushed, inserted and popped, and so    *)
(* does the flat one: for every sequence of elements, every base of the    *)
(* varints, every size of a node and of what append spares.                *)
(*                                                                         *)
(* Bytes(xs) are the encodings of xs end to end.  An entry decodes to its  *)
(* element from either side: its length is that of the element at its      *)
(* first byte, and the digits of its back length add up to it again.  The  *)
(* flat deque of xs is Bytes(xs) (IsBasic).                                *)
(*                                                                         *)
(* A chunked deque is Laid out as B, a sequence of sequences of elements,  *)
(* behind a gap g: node i holds Bytes(B[i]), the head behind g.  No B[i]   *)
(* is empty, except the first, after pops from the right that left the gap *)
(* (GapFirst).  It holds the sequence that B joins to (HoldsElems).  The   *)
(* cases of each operation (into the gap, into spare capacity, into a new  *)
(* node, across a node that is split) change B and g and keep the layout;  *)
(* the iterator of LINSERT and LRANGE, and LPOP, read B in order (StepAt)  *)
(* unless the head is just a gap.                                          *)
(***************************************************************************)
EXTENDS Lists, SequenceTheorems, Induction

-----------------------------------------------------------------------------
(* Sequences, cut and joined *)

\* What holds of the empty sequence, and of a sequence with an element added
\* when it holds of the sequence, holds of every sequence.
LEMMA SeqInd ==
  ASSUME NEW S, NEW T, <<>> \in T,
         \A s \in Seq(S), e \in S : s \in T => Append(s, e) \in T
  PROVE  Seq(S) \subseteq T
<1> DEFINE Q == {n \in Nat : \A s \in Seq(S) : Len(s) = n => s \in T}
<1>1. 0 \in Q
  <2>1. \A s \in Seq(S) : Len(s) = 0 => s = <<>>
    BY EmptySeq
  <2> QED BY <2>1
<1>2. ASSUME NEW n \in Nat, n \in Q PROVE n + 1 \in Q
  <2>1. ASSUME NEW s \in Seq(S), Len(s) = n + 1 PROVE s \in T
    <3>1. s # <<>>
      BY <2>1, EmptySeq
    <3>2. PICK r \in Seq(S), e \in S : s = Append(r, e)
      BY <3>1, SequenceEmptyOrAppend
    <3>3. Len(r) \in Nat /\ Len(r) + 1 = n + 1
      BY <2>1, <3>2, AppendProperties, LenProperties
    <3>4. r \in T
      BY <1>2, <3>3
    <3> QED BY <3>2, <3>4
  <2> QED BY <2>1
<1> HIDE DEF Q
<1>3. Nat \subseteq Q
  BY <1>1, <1>2, NatInd
<1>4. ASSUME NEW s \in Seq(S) PROVE s \in T
  <2>1. Len(s) \in Q
    BY <1>3, LenProperties
  <2> QED BY <2>1 DEF Q
<1> QED BY <1>4

\* Facts of the library, in a form that can be instantiated from the memberships.
LEMMA JoinAssoc ==
  ASSUME NEW S, NEW a, a \in Seq(S), NEW b, b \in Seq(S), NEW c, c \in Seq(S)
  PROVE  (a \o b) \o c = a \o (b \o c)
BY ConcatAssociative

LEMMA FunctionSeq ==
  ASSUME NEW S, NEW n, n \in Nat, NEW d, d \in [1..n -> S]
  PROVE  d \in Seq(S) /\ Len(d) = n
OBVIOUS

\* Both parts of what was joined can be cut out of it.
LEMMA CutJoined ==
  ASSUME NEW S, NEW s \in Seq(S), NEW t \in Seq(S)
  PROVE  /\ SubSeq(s \o t, 1, Len(s)) = s
         /\ SubSeq(s \o t, Len(s) + 1, Len(s \o t)) = t
<1> DEFINE u == s \o t
<1>1. /\ u \in Seq(S) /\ Len(u) = Len(s) + Len(t)
      /\ \A i \in 1..(Len(s) + Len(t)) : u[i] = IF i <= Len(s) THEN s[i] ELSE t[i - Len(s)]
  BY ConcatProperties
<1>2. /\ Len(s) \in Nat /\ Len(t) \in Nat
      /\ \A i \in 1..Len(u) : u[i] \in S
  BY <1>1, LenProperties, ElementOfSeq
<1> HIDE DEF u
<1>3. SubSeq(u, 1, Len(s)) = s
  <2> DEFINE c == SubSeq(u, 1, Len(s))
  <2>1. \A i \in 1..Len(s) : u[i] \in S
    BY <1>1, <1>2
  <2>2. c \in Seq(S)
    BY <1>2, <2>1, SubSeqProperties
  <2>3. Len(c) = Len(s)
    <3>1. Len(c) = IF 1 <= Len(s) THEN Len(s) - 1 + 1 ELSE 0
      BY <1>2, <2>1, SubSeqProperties
    <3> HIDE DEF c
    <3> QED BY <1>2, <3>1
  <2>4. \A i \in 1..Len(s) : c[i] = s[i]
    <3>1. \A i \in 1..(Len(s) - 1 + 1) : c[i] = u[1 + i - 1]
      BY <1>2, <2>1, SubSeqProperties
    <3> HIDE DEF c
    <3> QED BY <1>1, <1>2, <3>1
  <2> HIDE DEF c
  <2>5. c = s
    BY <2>2, <2>3, <2>4, SeqEqual
  <2> QED BY <2>5 DEF c
<1>4. SubSeq(u, Len(s) + 1, Len(u)) = t
  <2> DEFINE c == SubSeq(u, Len(s) + 1, Len(u))
  <2>1. /\ \A i \in (Len(s) + 1)..Len(u) : u[i] \in S
        /\ Len(s) + 1 \in Int /\ Len(u) \in Int
    BY <1>1, <1>2
  <2>2. c \in Seq(S)
    BY <2>1, SubSeqProperties
  <2>3. Len(c) = Len(t)
    <3>1. Len(c) = IF Len(s) + 1 <= Len(u) THEN Len(u) - (Len(s) + 1) + 1 ELSE 0
      BY <2>1, SubSeqProperties
    <3> HIDE DEF c
    <3> QED BY <1>1, <1>2, <3>1
  <2>4. \A i \in 1..Len(t) : c[i] = t[i]
    <3>1. \A i \in 1..(Len(u) - (Len(s) + 1) + 1) : c[i] = u[Len(s) + 1 + i - 1]
      BY <2>1, SubSeqProperties
    <3> HIDE DEF c
    <3>2. ASSUME NEW i \in 1..Len(t) PROVE c[i] = t[i]
      <4>1. /\ i \in 1..(Len(u) - (Len(s) + 1) + 1)
            /\ Len(s) + 1 + i - 1 = Len(s) + i /\ Len(s) + i \in 1..(Len(s) + Len(t))
            /\ ~(Len(s) + i <= Len(s)) /\ Len(s) + i - Len(s) = i
        BY <1>1, <1>2
      <4> QED BY SMTT(30), <1>1, <3>1, <4>1
    <3> QED BY <3>2
  <2> HIDE DEF c
  <2>5. c = t
    BY <2>2, <2>3, <2>4, SeqEqual
  <2> QED BY <2>5 DEF c
<1> QED BY <1>3, <1>4 DEF u

\* A sequence is what comes up to i and what comes after it.
LEMMA CutAt ==
  ASSUME NEW S, NEW s \in Seq(S), NEW i \in 0..Len(s)
  PROVE  /\ SubSeq(s, 1, i) \in Seq(S) /\ Len(SubSeq(s, 1, i)) = i
         /\ SubSeq(s, i + 1, Len(s)) \in Seq(S) /\ Len(SubSeq(s, i + 1, Len(s))) = Len(s) - i
         /\ s = SubSeq(s, 1, i) \o SubSeq(s, i + 1, Len(s))
<1>1. Len(s) \in Nat /\ \A j \in 1..Len(s) : s[j] \in S
  BY LenProperties, ElementOfSeq
<1>2. /\ \A j \in 1..i : s[j] \in S
      /\ \A j \in (i + 1)..Len(s) : s[j] \in S
      /\ i + 1 \in Int /\ Len(s) \in Int /\ i \in Int
  BY <1>1
<1>3. SubSeq(s, 1, i) \in Seq(S) /\ Len(SubSeq(s, 1, i)) = i
  <2>1. SubSeq(s, 1, i) \in Seq(S)
    BY <1>2, SubSeqProperties
  <2>2. Len(SubSeq(s, 1, i)) = IF 1 <= i THEN i - 1 + 1 ELSE 0
    BY <1>2, SubSeqProperties
  <2> DEFINE a == SubSeq(s, 1, i)
  <2> HIDE DEF a
  <2>3. Len(a) = IF 1 <= i THEN i - 1 + 1 ELSE 0
    BY <2>2 DEF a
  <2>4. Len(a) = i
    BY <1>1, <2>3
  <2> QED BY <2>1, <2>4 DEF a
<1>4. SubSeq(s, i + 1, Len(s)) \in Seq(S) /\ Len(SubSeq(s, i + 1, Len(s))) = Len(s) - i
  <2>1. SubSeq(s, i + 1, Len(s)) \in Seq(S)
    BY <1>2, SubSeqProperties
  <2>2. Len(SubSeq(s, i + 1, Len(s))) = IF i + 1 <= Len(s) THEN Len(s) - (i + 1) + 1 ELSE 0
    BY <1>2, SubSeqProperties
  <2> DEFINE a == SubSeq(s, i + 1, Len(s))
  <2> HIDE DEF a
  <2>3. Len(a) = IF i + 1 <= Len(s) THEN Len(s) - (i + 1) + 1 ELSE 0
    BY <2>2 DEF a
  <2>4. Len(a) = Len(s) - i
    BY <1>1, <2>3
  <2> QED BY <2>1, <2>4 DEF a
<1>5. SubSeq(s, 1, i) \o SubSeq(s, i + 1, Len(s)) = SubSeq(s, 1, Len(s))
  <2>1. 1 \in 1..(Len(s) + 1) /\ i \in (1 - 1)..Len(s) /\ Len(s) \in i..Len(s)
    BY <1>1
  <2> QED BY <2>1, ConcatAdjacentSubSeq
<1>6. SubSeq(s, 1, Len(s)) = s
  BY SubSeqFull
<1> QED BY <1>3, <1>4, <1>5, <1>6

-----------------------------------------------------------------------------
(* Sequences of sequences, end to end *)

\* g[i] is the first i sequences of ss, end to end.
Joins(g, ss, n, S) ==
  /\ g \in [0..n -> Seq(S)] /\ g[0] = <<>>
  /\ \A i \in 1..n : g[i] = g[i - 1] \o ss[i]

LEMMA JoinsExists ==
  ASSUME NEW S, NEW ss \in Seq(Seq(S))
  PROVE  \E g : Joins(g, ss, Len(ss), S)
<1> DEFINE n == Len(ss)
           step == [p \in (1..n) \X Seq(S) |-> p[2] \o ss[p[1]]]
<1>1. n \in Nat /\ \A i \in 1..n : ss[i] \in Seq(S)
  BY LenProperties, ElementOfSeq
<1>2. step \in [(1..n) \X Seq(S) -> Seq(S)]
  <2>1. \A p \in (1..n) \X Seq(S) : p[2] \o ss[p[1]] \in Seq(S)
    <3>1. \A p \in (1..n) \X Seq(S) : p[2] \in Seq(S) /\ ss[p[1]] \in Seq(S)
      BY <1>1
    <3> QED BY <3>1, ConcatProperties
  <2> QED BY <2>1
<1>3. <<>> \in Seq(S)
  BY EmptySeq
<1>4. PICK g \in [0..n -> Seq(S)] : Follows(g, n, <<>>, step)
  <2> HIDE DEF step, n
  <2> QED BY <1>1, <1>2, <1>3, RecursionExists
<1>5. ASSUME NEW i \in 1..n PROVE g[i] = g[i - 1] \o ss[i]
  <2>1. g[i] = step[<<i, g[i - 1]>>]
    BY <1>4 DEF Follows
  <2>2. <<i, g[i - 1]>> \in (1..n) \X Seq(S)
    <3>1. i - 1 \in 0..n
      BY <1>1
    <3> QED BY <1>4, <3>1
  <2>3. step[<<i, g[i - 1]>>] = g[i - 1] \o ss[i]
    BY <2>2
  <2> QED BY <2>1, <2>3
<1> QED BY <1>4, <1>5 DEF Joins, Follows

LEMMA FlattenIs ==
  ASSUME NEW S, NEW ss \in Seq(Seq(S)), NEW g, Joins(g, ss, Len(ss), S)
  PROVE  FlattenSeq(ss) = g[Len(ss)] /\ FlattenSeq(ss) \in Seq(S)
<1> DEFINE n == Len(ss)
           Body(h) == [i \in 1..n |-> IF i = 1 THEN ss[i] ELSE h[i - 1] \o ss[i]]
           f == CHOOSE h : h = Body(h)
<1>1. n \in Nat /\ \A i \in 1..n : ss[i] \in Seq(S)
  BY LenProperties, ElementOfSeq
<1>2. g \in [0..n -> Seq(S)] /\ g[0] = <<>> /\ \A i \in 1..n : g[i] = g[i - 1] \o ss[i]
  BY DEF Joins
<1>3. g[n] \in Seq(S)
  BY <1>1, <1>2
<1>4. CASE n = 0
  <2>1. ss = <<>> /\ FlattenSeq(ss) = ss
    BY <1>4, EmptySeq DEF FlattenSeq
  <2> QED BY <1>2, <1>3, <1>4, <2>1
<1>5. CASE n # 0
  <2>1. FlattenSeq(ss) = f[n]
    BY <1>5 DEF FlattenSeq
  <2> DEFINE h == [i \in 1..n |-> g[i]]
  <2>2. h = Body(h)
    <3>1. ASSUME NEW i \in 1..n PROVE h[i] = Body(h)[i]
      <4>1. CASE i = 1
        <5>1. 1 \in 1..n /\ 1 - 1 = 0
          BY <4>1
        <5>2. g[1] = g[1 - 1] \o ss[1]
          BY <1>2, <5>1
        <5>3. g[1] = <<>> \o ss[1]
          BY ONLY <1>2, <5>1, <5>2
        <5>4. ss[1] \in Seq(S)
          BY <1>1, <5>1
        <5>5. g[1] = ss[1]
          BY <5>3, <5>4, ConcatEmptySeq
        <5> QED BY <4>1, <5>5
      <4>2. CASE i # 1
        <5>1. i - 1 \in 1..n
          BY <1>1, <4>2
        <5>2. h[i - 1] = g[i - 1] /\ g[i] = g[i - 1] \o ss[i]
          BY <1>2, <5>1
        <5> QED BY <4>2, <5>2
      <4> QED BY <4>1, <4>2
    <3>2. h = [i \in 1..n |-> Body(h)[i]]
      BY <3>1
    <3>3. Body(h) = [i \in 1..n |-> Body(h)[i]]
      <4> HIDE DEF h
      <4> QED OBVIOUS
    <3> HIDE DEF h, Body
    <3> QED BY <3>2, <3>3
  <2>3. f = Body(f)
    <3>1. \E x : x = Body(x)
      BY <2>2
    <3> HIDE DEF Body
    <3> QED BY <3>1
  <2> HIDE DEF f
  <2>4. \A i \in 1..n : f[i] = IF i = 1 THEN ss[i] ELSE f[i - 1] \o ss[i]
    BY <2>3
  <2>5. \A i \in 1..n : h[i] = IF i = 1 THEN ss[i] ELSE h[i - 1] \o ss[i]
    BY <2>2
  <2> DEFINE Q == {m \in Nat : m + 1 <= n => f[m + 1] = h[m + 1]}
  <2> HIDE DEF h
  <2>6. 0 \in Q
    <3>1. 1 \in 1..n
      BY <1>1, <1>5
    <3>2. f[1] = ss[1] /\ h[1] = ss[1]
      BY <2>4, <2>5, <3>1
    <3> QED BY <3>2
  <2>7. ASSUME NEW m \in Nat, m \in Q PROVE m + 1 \in Q
    <3> SUFFICES ASSUME m + 1 + 1 <= n PROVE f[m + 1 + 1] = h[m + 1 + 1]
      OBVIOUS
    <3>1. m + 1 + 1 \in 1..n /\ m + 1 + 1 # 1 /\ (m + 1 + 1) - 1 = m + 1 /\ m + 1 <= n
      BY <1>1
    <3>2. f[m + 1] = h[m + 1]
      BY <2>7, <3>1
    <3>3. /\ f[m + 1 + 1] = f[m + 1] \o ss[m + 1 + 1]
          /\ h[m + 1 + 1] = h[m + 1] \o ss[m + 1 + 1]
      BY <2>4, <2>5, <3>1
    <3> QED BY <3>2, <3>3
  <2> HIDE DEF Q
  <2>8. n - 1 \in Q
    <3>1. Nat \subseteq Q
      BY <2>6, <2>7, NatInd
    <3>2. n - 1 \in Nat
      BY <1>1, <1>5
    <3> QED BY <3>1, <3>2
  <2>9. f[n] = h[n]
    <3>1. (n - 1) + 1 = n /\ n - 1 \in Nat
      BY <1>1, <1>5
    <3>2. (n - 1) + 1 <= n => f[(n - 1) + 1] = h[(n - 1) + 1]
      BY <2>8 DEF Q
    <3> QED BY <1>1, <3>1, <3>2
  <2>10. h[n] = g[n]
    BY <1>1, <1>5 DEF h
  <2> QED BY <1>3, <2>1, <2>9, <2>10
<1> QED BY <1>4, <1>5

LEMMA FlattenEmpty ==
  FlattenSeq(<<>>) = <<>>
BY DEF FlattenSeq

LEMMA FlattenType ==
  ASSUME NEW S, NEW ss \in Seq(Seq(S))
  PROVE  FlattenSeq(ss) \in Seq(S)
BY JoinsExists, FlattenIs

LEMMA FlattenAppend ==
  ASSUME NEW S, NEW ss \in Seq(Seq(S)), NEW s \in Seq(S)
  PROVE  FlattenSeq(Append(ss, s)) = FlattenSeq(ss) \o s
<1> DEFINE n == Len(ss)
           tt == Append(ss, s)
<1>1. n \in Nat /\ tt \in Seq(Seq(S))
  BY LenProperties, AppendProperties
<1>2. Len(tt) = n + 1
  BY AppendProperties
<1>3. \A i \in 1..n : tt[i] = ss[i]
  BY AppendProperties
<1>4. tt[n + 1] = s
  BY AppendProperties
<1> HIDE DEF tt, n
<1>5. PICK g : Joins(g, ss, n, S)
  BY JoinsExists DEF n
<1> DEFINE h == [i \in 0..(n + 1) |-> IF i = n + 1 THEN g[n] \o s ELSE g[i]]
<1>6. g \in [0..n -> Seq(S)] /\ g[0] = <<>> /\ \A i \in 1..n : g[i] = g[i - 1] \o ss[i]
  BY <1>5 DEF Joins
<1>7. g[n] \o s \in Seq(S)
  BY <1>1, <1>6, ConcatProperties
<1>8. /\ \A i \in 0..n : h[i] = g[i]
      /\ h[n + 1] = g[n] \o s
      /\ h \in [0..(n + 1) -> Seq(S)]
  <2>1. \A i \in 0..(n + 1) : i = n + 1 \/ i \in 0..n
    BY <1>1
  <2>2. \A i \in 0..n : i \in 0..(n + 1) /\ i # n + 1
    BY <1>1
  <2> QED BY SMTT(30), <1>1, <1>6, <1>7, <2>1, <2>2
<1> HIDE DEF h
<1>9. ASSUME NEW i \in 1..(n + 1) PROVE h[i] = h[i - 1] \o tt[i]
  <2>1. CASE i = n + 1
    <3>1. i - 1 = n /\ n \in 0..n
      BY <1>1, <2>1
    <3> QED BY <1>4, <1>8, <2>1, <3>1
  <2>2. CASE i # n + 1
    <3>1. i \in 1..n /\ i \in 0..n /\ i - 1 \in 0..n
      BY <1>1, <2>2
    <3> QED BY <1>3, <1>6, <1>8, <3>1
  <2> QED BY <2>1, <2>2
<1>10. h[0] = <<>>
  BY <1>1, <1>6, <1>8
<1>11. Joins(h, tt, n + 1, S)
  BY <1>8, <1>9, <1>10 DEF Joins
<1>12. FlattenSeq(tt) = h[n + 1]
  BY <1>1, <1>2, <1>11, FlattenIs
<1>13. FlattenSeq(ss) = g[n]
  BY <1>5, FlattenIs DEF n
<1> QED BY <1>8, <1>12, <1>13 DEF tt

LEMMA FlattenOne ==
  ASSUME NEW S, NEW s \in Seq(S)
  PROVE  FlattenSeq(<<s>>) = s
<1>1. <<>> \in Seq(Seq(S)) /\ <<>> \in Seq(S)
  BY EmptySeq
<1>2. <<s>> = Append(<<>>, s)
  OBVIOUS
<1>3. FlattenSeq(Append(<<>>, s)) = FlattenSeq(<<>>) \o s
  BY <1>1, FlattenAppend
<1>4. <<>> \o s = s
  BY ConcatEmptySeq
<1> QED BY <1>2, <1>3, <1>4, FlattenEmpty

LEMMA AppendJoins ==
  ASSUME NEW S, NEW s \in Seq(S), NEW t \in Seq(S), NEW e \in S
  PROVE  s \o Append(t, e) = Append(s \o t, e)
<1>1. Append(t, e) = t \o <<e>> /\ <<e>> \in Seq(S)
  BY AppendIsConcat
<1>2. s \o t \in Seq(S)
  BY ConcatProperties
<1>3. Append(s \o t, e) = (s \o t) \o <<e>>
  BY <1>2, AppendIsConcat
<1>4. (s \o t) \o <<e>> = s \o (t \o <<e>>)
  BY <1>1, JoinAssoc
<1> QED BY <1>1, <1>3, <1>4

LEMMA FlattenJoin ==
  ASSUME NEW S, NEW ss \in Seq(Seq(S)), NEW tt \in Seq(Seq(S))
  PROVE  FlattenSeq(ss \o tt) = FlattenSeq(ss) \o FlattenSeq(tt)
<1> DEFINE T == {uu \in Seq(Seq(S)) : FlattenSeq(ss \o uu) = FlattenSeq(ss) \o FlattenSeq(uu)}
<1>1. FlattenSeq(ss) \in Seq(S)
  BY FlattenType
<1>2. <<>> \in T
  <2>1. <<>> \in Seq(Seq(S)) /\ ss \o <<>> = ss
    BY EmptySeq, ConcatEmptySeq
  <2>2. FlattenSeq(ss) \o <<>> = FlattenSeq(ss)
    BY <1>1, ConcatEmptySeq
  <2> QED BY <2>1, <2>2, FlattenEmpty
<1>3. ASSUME NEW uu \in Seq(Seq(S)), NEW u \in Seq(S), uu \in T
      PROVE  Append(uu, u) \in T
  <2>1. Append(uu, u) \in Seq(Seq(S)) /\ ss \o uu \in Seq(Seq(S)) /\ FlattenSeq(uu) \in Seq(S)
    BY AppendProperties, ConcatProperties, FlattenType
  <2>2. FlattenSeq(ss \o Append(uu, u)) = FlattenSeq(ss \o uu) \o u
    <3>1. ss \o Append(uu, u) = Append(ss \o uu, u)
      BY AppendJoins
    <3>2. FlattenSeq(Append(ss \o uu, u)) = FlattenSeq(ss \o uu) \o u
      BY <2>1, FlattenAppend
    <3> QED BY <3>1, <3>2
  <2>3. FlattenSeq(Append(uu, u)) = FlattenSeq(uu) \o u
    BY FlattenAppend
  <2>4. (FlattenSeq(ss) \o FlattenSeq(uu)) \o u = FlattenSeq(ss) \o (FlattenSeq(uu) \o u)
    BY SMTT(30), <1>1, <2>1, JoinAssoc
  <2>5. FlattenSeq(ss \o uu) = FlattenSeq(ss) \o FlattenSeq(uu)
    BY <1>3
  <2>6. FlattenSeq(ss \o Append(uu, u)) = FlattenSeq(ss) \o FlattenSeq(Append(uu, u))
    BY ONLY <2>2, <2>3, <2>4, <2>5
  <2> QED BY <2>1, <2>6
<1> HIDE DEF T
<1>4. Seq(Seq(S)) \subseteq T
  BY <1>2, <1>3, SeqInd
<1> QED BY <1>4 DEF T

-----------------------------------------------------------------------------
(* Back lengths *)

LEMMA VarintRanges ==
  /\ VarintBase \in Nat /\ VarintBase > 1 /\ VarintRange[1] = VarintBase
  /\ \A n \in 1..5 : VarintRange[n] \in Nat
  /\ \A n \in 2..5 : VarintRange[n] = VarintRange[n - 1] * VarintBase
<1> DEFINE b == VarintBase
<1>1. b \in Nat /\ b > 1
  BY DequeAssumption
<1>2. /\ VarintRange[1] = b /\ VarintRange[2] = b * b /\ VarintRange[3] = b * b * b
      /\ VarintRange[4] = b * b * b * b /\ VarintRange[5] = b * b * b * b * b
  BY DEF VarintRange
<1> HIDE DEF b
<1>3. \A m, n \in Nat : m * n \in Nat
  OBVIOUS
<1>4. /\ b * b \in Nat /\ b * b * b \in Nat /\ b * b * b * b \in Nat
      /\ b * b * b * b * b \in Nat
  BY <1>1, <1>3
<1>5. \A n \in 1..5 : n = 1 \/ n = 2 \/ n = 3 \/ n = 4 \/ n = 5
  OBVIOUS
<1>6. \A n \in 1..5 : VarintRange[n] \in Nat
  BY <1>1, <1>2, <1>4, <1>5
<1>7. ASSUME NEW n \in 2..5 PROVE VarintRange[n] = VarintRange[n - 1] * b
  <2>1. \/ n = 2 /\ n - 1 = 1
        \/ n = 3 /\ n - 1 = 2
        \/ n = 4 /\ n - 1 = 3
        \/ n = 5 /\ n - 1 = 4
    OBVIOUS
  <2> QED BY <1>2, <2>1
<1> QED BY <1>1, <1>2, <1>6, <1>7 DEF b

LEMMA VarintFits ==
  ASSUME NEW x \in Nat, x < VarintRange[5]
  PROVE  GetEncodeUIntSize(x) \in 1..5 /\ x < VarintRange[GetEncodeUIntSize(x)]
<1> DEFINE r == VarintRange
           n == GetEncodeUIntSize(x)
<1>1. r[1] \in Nat /\ r[2] \in Nat /\ r[3] \in Nat /\ r[4] \in Nat /\ r[5] \in Nat
  <2>1. 1 \in 1..5 /\ 2 \in 1..5 /\ 3 \in 1..5 /\ 4 \in 1..5 /\ 5 \in 1..5
    OBVIOUS
  <2> HIDE DEF r
  <2> QED BY <2>1, VarintRanges DEF r
<1> HIDE DEF r
<1>2. n = CASE x < r[1] -> 1
            [] x \in r[1]..(r[2] - 2) -> 2
            [] x \in (r[2] - 1)..(r[3] - 2) -> 3
            [] x \in (r[3] - 1)..(r[4] - 2) -> 4
            [] OTHER -> 5
  BY DEF GetEncodeUIntSize, r
<1> HIDE DEF n
<1>3. \/ x < r[1] /\ n = 1
      \/ x \in r[1]..(r[2] - 2) /\ n = 2
      \/ x \in (r[2] - 1)..(r[3] - 2) /\ n = 3
      \/ x \in (r[3] - 1)..(r[4] - 2) /\ n = 4
      \/ n = 5
  BY <1>2
<1>4. x < r[5]
  BY DEF r
<1>5. n \in 1..5 /\ x < r[n]
  BY <1>1, <1>3, <1>4
<1> QED BY <1>5 DEF n, r

LEMMA Division ==
  ASSUME NEW a \in Nat, NEW b \in Nat, b > 0
  PROVE  /\ a \div b \in Nat /\ a % b \in 0..(b - 1)
         /\ ((a \div b) * b) + (a % b) = a
<1>1. a \div b \in Int /\ a % b \in 0..(b - 1) /\ a = (b * (a \div b)) + (a % b)
  OBVIOUS
<1> DEFINE q == a \div b
           m == a % b
<1> HIDE DEF q, m
<1>2. q \in Int /\ m \in 0..(b - 1) /\ a = b * q + m
  BY <1>1 DEF q, m
<1>3. q >= 0
  <2>1. CASE q <= -1
    <3>1. b * q <= b * (-1)
      BY <1>2, <2>1
    <3>2. b * q + m < 0
      BY <1>2, <3>1
    <3> QED BY <1>2, <3>2
  <2> QED BY <1>2, <2>1
<1>4. q * b + m = a
  BY <1>2
<1>5. q \in Nat
  BY <1>2, <1>3
<1>6. m \in 0..(b - 1)
  BY <1>2
<1> QED BY <1>4, <1>5, <1>6 DEF q, m

\* Dividing by the base shifts the last digit out.
LEMMA Shifted ==
  ASSUME NEW a \in Nat, NEW b \in Nat, b > 0, NEW r \in Nat, a < r * b
  PROVE  a \div b < r
<1> DEFINE q == a \div b
           m == a % b
<1>1. q \in Nat /\ m \in 0..(b - 1) /\ q * b + m = a
  BY Division
<1> HIDE DEF q, m
<1>2. CASE q >= r
  <2>1. q * b >= r * b
    BY <1>1, <1>2
  <2>2. q * b \in Nat /\ r * b \in Nat
    BY <1>1
  <2> QED BY <1>1, <2>1, <2>2
<1>3. q < r
  BY <1>1, <1>2
<1> QED BY <1>3 DEF q

\* f[j] is what is left of x when j digits are shifted out; there are n digits.
Shifts(f, x, n) ==
  /\ f \in [0..(n - 1) -> Nat] /\ f[0] = x
  /\ \A j \in 1..(n - 1) : f[j] = f[j - 1] \div VarintBase
  /\ f[n - 1] < VarintBase

LEMMA RevVarintIs ==
  ASSUME NEW x \in Nat, x < VarintRange[5]
  PROVE  \E f : /\ Shifts(f, x, GetEncodeUIntSize(x))
                /\ RevVarint(x) = [i \in 1..GetEncodeUIntSize(x) |->
                     <<"len", f[GetEncodeUIntSize(x) - i] % VarintBase, i > 1>>]
<1> DEFINE n == GetEncodeUIntSize(x)
           b == VarintBase
           Body(h) == [j \in 0..(n - 1) |-> IF j = 0 THEN x ELSE h[j - 1] \div VarintBase]
           f == CHOOSE h : h = Body(h)
           step == [p \in (1..(n - 1)) \X Nat |-> p[2] \div VarintBase]
<1>1. n \in 1..5 /\ x < VarintRange[n]
  BY VarintFits
<1>2. b \in Nat /\ b > 1 /\ b > 0
  BY VarintRanges
<1>3. RevVarint(x) = [i \in 1..n |-> <<"len", f[n - i] % VarintBase, i > 1>>]
  BY DEF RevVarint
<1>4. f = Body(f)
  <2>1. \A p \in (1..(n - 1)) \X Nat : p[2] \in Nat /\ p[2] \div b \in Nat
    BY <1>2, Division
  <2>2. step \in [(1..(n - 1)) \X Nat -> Nat]
    BY <2>1
  <2>3. n - 1 \in Nat
    BY <1>1
  <2>4. PICK g \in [0..(n - 1) -> Nat] : Follows(g, n - 1, x, step)
    <3> HIDE DEF step, n
    <3> QED BY <2>2, <2>3, RecursionExists
  <2>5. ASSUME NEW j \in 0..(n - 1) PROVE g[j] = Body(g)[j]
    <3>1. CASE j = 0
      BY <2>4, <3>1 DEF Follows
    <3>2. CASE j # 0
      <4>1. j \in 1..(n - 1) /\ j - 1 \in 0..(n - 1)
        BY <1>1, <3>2
      <4>2. g[j] = step[<<j, g[j - 1]>>]
        BY <2>4, <4>1 DEF Follows
      <4>3. <<j, g[j - 1]>> \in (1..(n - 1)) \X Nat
        BY <2>4, <4>1
      <4>4. step[<<j, g[j - 1]>>] = g[j - 1] \div VarintBase
        BY <4>3
      <4> HIDE DEF step
      <4> QED BY <3>2, <4>2, <4>4
    <3> QED BY <3>1, <3>2
  <2>6. g = Body(g)
    <3>1. g = [j \in 0..(n - 1) |-> g[j]]
      BY <2>4
    <3>2. Body(g) = [j \in 0..(n - 1) |-> Body(g)[j]]
      OBVIOUS
    <3> HIDE DEF Body
    <3> QED BY <2>5, <3>1, <3>2
  <2> HIDE DEF Body
  <2> QED BY <2>6
<1>5. \A j \in 0..(n - 1) : f[j] = IF j = 0 THEN x ELSE f[j - 1] \div b
  BY <1>4
<1>6. f = [j \in 0..(n - 1) |-> f[j]]
  <2>1. Body(f) = [j \in 0..(n - 1) |-> Body(f)[j]]
    OBVIOUS
  <2> HIDE DEF f, Body
  <2> QED BY <1>4, <2>1
<1> HIDE DEF f
<1> DEFINE Q == {j \in Nat : j <= n - 1 => f[j] \in Nat /\ f[j] < VarintRange[n - j]}
<1>7. 0 \in Q
  <2>1. f[0] = x
    BY <1>1, <1>5
  <2>2. n - 0 = n
    BY <1>1
  <2> QED BY <1>1, <2>1, <2>2
<1>8. ASSUME NEW j \in Nat, j \in Q PROVE j + 1 \in Q
  <2> SUFFICES ASSUME j + 1 <= n - 1
               PROVE  f[j + 1] \in Nat /\ f[j + 1] < VarintRange[n - (j + 1)]
    OBVIOUS
  <2>1. /\ j + 1 \in 0..(n - 1) /\ j + 1 # 0 /\ (j + 1) - 1 = j /\ j <= n - 1
        /\ n - j \in 2..5 /\ (n - j) - 1 = n - (j + 1) /\ n - (j + 1) \in 1..5
    BY <1>1
  <2>2. f[j + 1] = f[j] \div b
    BY <1>5, <2>1
  <2>3. f[j] \in Nat /\ f[j] < VarintRange[n - j]
    BY <1>8, <2>1
  <2>4. VarintRange[n - j] = VarintRange[n - (j + 1)] * b /\ VarintRange[n - (j + 1)] \in Nat
    BY <2>1, VarintRanges
  <2> DEFINE r == VarintRange[n - (j + 1)]
  <2> HIDE DEF r
  <2>5. f[j] < r * b /\ r \in Nat
    BY <2>3, <2>4 DEF r
  <2>6. f[j] \div b \in Nat /\ f[j] \div b < r
    <3> HIDE DEF n, b
    <3> QED BY <1>2, <2>3, <2>5, Division, Shifted
  <2> QED BY <2>2, <2>6 DEF r
<1> HIDE DEF Q
<1>9. Nat \subseteq Q
  BY <1>7, <1>8, NatInd
<1>10. ASSUME NEW j \in 0..(n - 1) PROVE f[j] \in Nat /\ f[j] < VarintRange[n - j]
  <2>1. j \in Nat /\ j <= n - 1
    BY <1>1
  <2>2. j \in Q
    BY <1>9, <2>1
  <2> QED BY <2>1, <2>2 DEF Q
<1>11. f \in [0..(n - 1) -> Nat]
  BY <1>6, <1>10
<1>12. f[n - 1] < VarintBase
  <2>1. n - 1 \in 0..(n - 1) /\ n - (n - 1) = 1
    BY <1>1
  <2>2. f[n - 1] < VarintRange[n - (n - 1)]
    BY <1>10, <2>1
  <2> QED BY <2>1, <2>2, VarintRanges
<1>13. f[0] = x /\ \A j \in 1..(n - 1) : f[j] = f[j - 1] \div VarintBase
  <2>1. 0 \in 0..(n - 1) /\ \A j \in 1..(n - 1) : j \in 0..(n - 1) /\ j # 0
    BY <1>1
  <2> QED BY <1>5, <2>1
<1>14. Shifts(f, x, n)
  BY <1>11, <1>12, <1>13 DEF Shifts
<1> QED BY <1>3, <1>14

-----------------------------------------------------------------------------
(* Entries *)

Unit ==
  {<<"enc", x>> : x \in Elem} \cup {<<"data", x>> : x \in Elem}
    \cup {<<"len", p[1], p[2]>> : p \in Nat \X BOOLEAN} \cup {<<"gap">>}

LEMMA EncLenFits ==
  ASSUME NEW x \in Elem
  PROVE  EncLen(x) \in Nat \ {0} /\ EncLen(x) < VarintRange[5]
<1>1. x.v \in Int /\ x.int \in BOOLEAN /\ (x.int \/ x.v \in Nat) /\ EncLen(x) < VarintRange[5]
  BY ElemAssumption
<1> DEFINE v == x.v
           e == IntEncLen(v)
<1>2. e \in Nat \ {0}
  <2> HIDE DEF v
  <2>1. \/ e = 1
        \/ e = 2
        \/ e = 3
        \/ e = 4
        \/ e = 5
        \/ e = 9
    BY DEF IntEncLen
  <2> HIDE DEF e
  <2> QED BY <2>1
<1>3. v \in Nat => StrEncLen(v) \in Nat \ {0}
  <2> HIDE DEF v
  <2> QED BY DEF StrEncLen
<1> HIDE DEF e, v
<1>4. EncLen(x) = IF x.int THEN e ELSE StrEncLen(v)
  BY DEF EncLen, e, v
<1>5. EncLen(x) \in Nat \ {0}
  BY <1>1, <1>2, <1>3, <1>4 DEF v
<1> QED BY <1>1, <1>5

\* The back length of an entry: n digits after its E bytes.
BackLen(e, E, n, f) ==
  \A i \in 1..n : e[E + i] = <<"len", f[n - i] % VarintBase, i > 1>>

LEMMA EntryIs ==
  ASSUME NEW x \in Elem
  PROVE  /\ EncodeDeqEntry(x) \in Seq(Unit)
         /\ Len(EncodeDeqEntry(x)) = EncLen(x) + GetEncodeUIntSize(EncLen(x))
         /\ EncodeDeqEntry(x)[1] = <<"enc", x>>
         /\ \E f : /\ Shifts(f, EncLen(x), GetEncodeUIntSize(EncLen(x)))
                   /\ BackLen(EncodeDeqEntry(x), EncLen(x), GetEncodeUIntSize(EncLen(x)), f)
<1> DEFINE E == EncLen(x)
           n == GetEncodeUIntSize(E)
           a == <<<<"enc", x>>>>
           d == [i \in 1..(E - 1) |-> <<"data", x>>]
           v == RevVarint(E)
<1>1. E \in Nat \ {0} /\ E < VarintRange[5]
  BY EncLenFits
<1>2. n \in 1..5
  BY <1>1, VarintFits
<1>3. PICK f : /\ Shifts(f, E, n)
               /\ v = [i \in 1..n |-> <<"len", f[n - i] % VarintBase, i > 1>>]
  BY <1>1, RevVarintIs
<1>4. EncodeDeqEntry(x) = a \o d \o v
  BY DEF EncodeDeqEntry
<1>5. a \in Seq(Unit) /\ Len(a) = 1 /\ a[1] = <<"enc", x>>
  <2>1. <<"enc", x>> \in Unit
    BY DEF Unit
  <2> QED BY <2>1
<1>6. d \in Seq(Unit) /\ Len(d) = E - 1
  <2>1. <<"data", x>> \in Unit
    BY DEF Unit
  <2>2. E - 1 \in Nat
    BY <1>1
  <2>3. d \in [1..(E - 1) -> Unit]
    BY <2>1
  <2> HIDE DEF E, d
  <2> QED BY <2>2, <2>3, FunctionSeq
<1>7. v \in Seq(Unit) /\ Len(v) = n
  <2>1. ASSUME NEW i \in 1..n PROVE <<"len", f[n - i] % VarintBase, i > 1>> \in Unit
    <3>1. n - i \in 0..(n - 1)
      BY <1>2
    <3>2. f[n - i] \in Nat
      BY <1>3, <3>1 DEF Shifts
    <3>3. VarintBase \in Nat /\ VarintBase > 0
      BY VarintRanges
    <3> DEFINE m == f[n - i]
    <3> HIDE DEF m
    <3>4. m % VarintBase \in Nat
      BY <3>2, <3>3, Division DEF m
    <3> DEFINE c == i > 1
               k == m % VarintBase
               p == <<k, c>>
    <3>5. c \in BOOLEAN /\ k \in Nat
      BY <3>4
    <3> HIDE DEF c, k
    <3>6. p \in Nat \X BOOLEAN
      BY <3>5
    <3>7. <<"len", p[1], p[2]>> \in Unit
      <4> HIDE DEF p
      <4> QED BY <3>6 DEF Unit
    <3>8. p[1] = k /\ p[2] = c
      OBVIOUS
    <3> HIDE DEF p
    <3>9. <<"len", k, c>> \in Unit
      BY <3>7, <3>8
    <3> QED BY <3>9 DEF m, c, k
  <2> HIDE DEF n, v
  <2>2. v \in [1..n -> Unit]
    BY <1>3, <2>1
  <2> QED BY <1>2, <2>2
<1>8. \A i \in 1..n : v[i] = <<"len", f[n - i] % VarintBase, i > 1>>
  BY <1>3
<1> HIDE DEF a, d, v, n, E
<1>9. /\ a \o d \in Seq(Unit) /\ Len(a \o d) = E
      /\ (a \o d)[1] = a[1]
  <2>1. Len(a \o d) = Len(a) + Len(d)
    BY <1>5, <1>6, ConcatProperties
  <2>2. \A i \in 1..(Len(a) + Len(d)) : (a \o d)[i] = IF i <= Len(a) THEN a[i] ELSE d[i - Len(a)]
    BY <1>5, <1>6, ConcatProperties
  <2>3. a \o d \in Seq(Unit)
    BY <1>5, <1>6, ConcatProperties
  <2>4. 1 + (E - 1) = E /\ 1 \in 1..(1 + (E - 1)) /\ 1 <= 1
    BY <1>1
  <2> QED BY <1>5, <1>6, <2>1, <2>2, <2>3, <2>4
<1> DEFINE s == a \o d
<1> HIDE DEF s
<1>10. s \in Seq(Unit) /\ Len(s) = E /\ s[1] = <<"enc", x>>
  BY <1>5, <1>9 DEF s
<1>11. /\ s \o v \in Seq(Unit) /\ Len(s \o v) = E + n
       /\ \A i \in 1..(E + n) : (s \o v)[i] = IF i <= E THEN s[i] ELSE v[i - E]
  BY <1>7, <1>10, ConcatProperties
<1>12. (s \o v)[1] = <<"enc", x>>
  <2>1. 1 \in 1..(E + n) /\ 1 <= E
    BY <1>1, <1>2
  <2> QED BY <1>10, <1>11, <2>1
<1>13. BackLen(s \o v, E, n, f)
  <2>1. ASSUME NEW i \in 1..n PROVE (s \o v)[E + i] = v[i]
    <3>1. E + i \in 1..(E + n) /\ ~(E + i <= E) /\ (E + i) - E = i
      BY <1>1, <1>2
    <3> QED BY <1>11, <3>1
  <2> QED BY <1>8, <2>1 DEF BackLen
<1>14. EncodeDeqEntry(x) = s \o v
  BY <1>4 DEF s
<1>15. /\ EncodeDeqEntry(x) \in Seq(Unit) /\ Len(EncodeDeqEntry(x)) = E + n
       /\ EncodeDeqEntry(x)[1] = <<"enc", x>>
       /\ BackLen(EncodeDeqEntry(x), E, n, f)
  BY <1>11, <1>12, <1>13, <1>14
<1> HIDE <1>4
<1> QED BY <1>3, <1>15 DEF n, E

\* What is needed of an entry at the left of a buffer.
LEMMA EntrySize ==
  ASSUME NEW x \in Elem
  PROVE  /\ EncodeDeqEntry(x) \in Seq(Unit)
         /\ Len(EncodeDeqEntry(x)) = GetEncodeDeqEntrySize(x)
         /\ GetEncodeDeqEntrySize(x) \in Nat \ {0}
<1> DEFINE E == EncLen(x)
           n == GetEncodeUIntSize(E)
           e == EncodeDeqEntry(x)
<1>1. E \in Nat \ {0} /\ E < VarintRange[5]
  BY EncLenFits
<1>2. n \in 1..5
  BY <1>1, VarintFits
<1>3. e \in Seq(Unit) /\ Len(e) = E + n
  BY EntryIs
<1>4. GetEncodeDeqEntrySize(x) = E + n
  BY DEF GetEncodeDeqEntrySize
<1> HIDE DEF E, n
<1> QED BY <1>1, <1>2, <1>3, <1>4

LEMMA EntryRead ==
  ASSUME NEW s \in Seq(Unit), NEW x \in Elem, NEW t \in Seq(Unit)
  PROVE  /\ DecodeDeqEntry(s \o EncodeDeqEntry(x) \o t, Len(s)) = x
         /\ EntryLen(s \o EncodeDeqEntry(x) \o t, Len(s)) = GetEncodeDeqEntrySize(x)
<1> DEFINE e == EncodeDeqEntry(x)
           l == Len(s)
           n == Len(e)
           m == Len(t)
           b == s \o e \o t
<1>1. e \in Seq(Unit) /\ n \in Nat \ {0} /\ e[1] = <<"enc", x>>
  BY EntrySize, EntryIs
<1>2. l \in Nat /\ m \in Nat
  BY LenProperties
<1> HIDE DEF e
<1>3. s \o e \in Seq(Unit)
  BY <1>1, ConcatProperties
<1>4. Len(s \o e) = l + n
  BY <1>1, ConcatProperties
<1>5. \A i \in 1..(l + n) : (s \o e)[i] = IF i <= l THEN s[i] ELSE e[i - l]
  BY <1>1, ConcatProperties
<1>6. Len(b) = (l + n) + m /\ \A i \in 1..((l + n) + m) : b[i] = IF i <= l + n THEN (s \o e)[i] ELSE t[i - (l + n)]
  BY <1>3, <1>4, ConcatProperties
<1> HIDE DEF l, n, m, b
<1>7. b[l + 1] = <<"enc", x>> /\ l < Len(b)
  <2>1. /\ l + 1 \in 1..((l + n) + m) /\ l + 1 <= l + n /\ l + 1 \in 1..(l + n) /\ ~(l + 1 <= l)
        /\ (l + 1) - l = 1 /\ l < (l + n) + m
    BY <1>1, <1>2
  <2> QED BY <1>1, <1>5, <1>6, <2>1
<1>8. DecodeDeqEntry(b, l) = x
  <2>1. b[l + 1][1] = "enc" /\ b[l + 1][2] = x
    BY <1>7
  <2> QED BY <1>7, <2>1 DEF DecodeDeqEntry
<1>9. EntryLen(b, l) = GetEncodeDeqEntrySize(x)
  <2>1. x # BadEntry
    BY ElemAssumption
  <2> QED BY <1>8, <2>1 DEF EntryLen
<1> QED BY <1>8, <1>9 DEF b, l, e

LEMMA LastEntry ==
  ASSUME NEW s \in Seq(Unit), NEW x \in Elem
  PROVE  LastEntryAt(s \o EncodeDeqEntry(x)) = Len(s)
<1> DEFINE e == EncodeDeqEntry(x)
           E == EncLen(x)
           n == GetEncodeUIntSize(E)
           l == Len(s)
           b == s \o e
           m == Len(b)
           More(i) == b[i][1] = "len" /\ b[i][3]
           start == CHOOSE p \in 1..m : ~More(p) /\ \A i \in (p + 1)..m : More(i)
           Digit(i) == IF b[i][1] = "len" THEN b[i][2] ELSE 0
           Body(h) == [i \in start..m |-> (IF i = start THEN 0 ELSE h[i - 1] * VarintBase) + Digit(i)]
           back == CHOOSE h : h = Body(h)
<1>1. LastEntryAt(b) = start - 1 - back[m]
  BY DEF LastEntryAt
<1>2. E \in Nat \ {0} /\ E < VarintRange[5]
  BY EncLenFits
<1>3. n \in 1..5
  BY <1>2, VarintFits
<1>4. PICK f : Shifts(f, E, n) /\ BackLen(e, E, n, f)
  BY EntryIs
<1>5. e \in Seq(Unit) /\ Len(e) = E + n /\ l \in Nat
  BY EntryIs, LenProperties
<1>6. m = l + (E + n) /\ \A i \in 1..(l + (E + n)) : b[i] = IF i <= l THEN s[i] ELSE e[i - l]
  <2> HIDE DEF e
  <2> QED BY <1>5, ConcatProperties
<1> HIDE DEF e, E, n, l, b, m
<1>7. ASSUME NEW i \in 1..n
      PROVE  b[l + E + i] = <<"len", f[n - i] % VarintBase, i > 1>>
  <2>1. /\ l + E + i \in 1..(l + (E + n)) /\ ~(l + E + i <= l) /\ (l + E + i) - l = E + i
    BY <1>2, <1>3, <1>5
  <2>2. b[l + E + i] = e[E + i]
    BY <1>6, <2>1
  <2> QED BY <1>4, <2>2 DEF BackLen
<1> DEFINE p == l + E + 1
<1>8. p \in 1..m /\ p + (n - 1) = m /\ m \in Nat /\ p \in Nat
  BY <1>2, <1>3, <1>5, <1>6
<1>9. ASSUME NEW i \in 1..n PROVE More(l + E + i) <=> i > 1
  <2> DEFINE u == b[l + E + i]
             d == f[n - i] % VarintBase
             c == i > 1
  <2>1. u = <<"len", d, c>>
    BY <1>7
  <2> HIDE DEF u, d
  <2>2. c \in BOOLEAN
    OBVIOUS
  <2> HIDE DEF c
  <2>3. u[1] = "len" /\ u[3] = c
    BY <2>1
  <2>4. More(l + E + i) <=> u[1] = "len" /\ u[3]
    BY DEF u
  <2> HIDE DEF More
  <2>5. More(l + E + i) <=> c
    BY <2>2, <2>3, <2>4
  <2> QED BY <2>5 DEF c
<1>10. ~More(p)
  <2>1. 1 \in 1..n /\ ~(1 > 1)
    BY <1>3
  <2> HIDE DEF More
  <2> QED BY <1>9, <2>1
<1>11. ASSUME NEW j \in (p + 1)..m PROVE More(j)
  <2> DEFINE i == j - (l + E)
  <2>1. i \in 1..n /\ i > 1 /\ l + E + i = j
    BY <1>2, <1>3, <1>5, <1>8
  <2> HIDE DEF More, i
  <2> QED BY <1>9, <2>1
<1>12. start = p
  <2>1. start \in 1..m /\ ~More(start) /\ \A i \in (start + 1)..m : More(i)
    <3> DEFINE P(q) == ~More(q) /\ \A i \in (q + 1)..m : More(i)
    <3>1. P(p)
      <4> HIDE DEF More, p
      <4> QED BY <1>10, <1>11
    <3>2. start = CHOOSE q \in 1..m : P(q)
      OBVIOUS
    <3> HIDE DEF P, start, p
    <3>3. start \in 1..m /\ P(start)
      BY <1>8, <3>1, <3>2
    <3> QED BY <3>3 DEF P
  <2> HIDE DEF More, start
  <2>2. start \in Int /\ p \in Int /\ m \in Int
    BY <1>8, <2>1
  <2>3. CASE start < p
    <3>1. p \in (start + 1)..m
      BY <1>8, <2>2, <2>3
    <3> HIDE DEF p
    <3> QED BY <1>10, <2>1, <3>1
  <2>4. CASE start > p
    <3>1. start \in (p + 1)..m
      BY <1>8, <2>1, <2>4
    <3> HIDE DEF p
    <3> QED BY <1>11, <2>1, <3>1
  <2> HIDE DEF p
  <2> QED BY <2>2, <2>3, <2>4
<1> HIDE DEF start
<1>13. f \in [0..(n - 1) -> Nat] /\ f[0] = E /\ f[n - 1] < VarintBase
       /\ \A j \in 1..(n - 1) : f[j] = f[j - 1] \div VarintBase
  BY <1>4 DEF Shifts
<1>14. VarintBase \in Nat /\ VarintBase > 0
  BY VarintRanges
<1>15. ASSUME NEW i \in 1..n
       PROVE  Digit(l + E + i) = f[n - i] % VarintBase
  BY <1>7
<1> HIDE DEF Digit, More, p
\* What the digits read so far say: what was left when the others were out.
<1> DEFINE left == [i \in p..m |-> f[m - i]]
<1>16. \A i \in p..m : /\ i - (l + E) \in 1..n /\ l + E + (i - (l + E)) = i
                       /\ n - (i - (l + E)) = m - i /\ m - i \in 0..(n - 1)
  BY <1>2, <1>3, <1>5, <1>8 DEF p
<1>17. ASSUME NEW i \in p..m
       PROVE  left[i] = (IF i = p THEN 0 ELSE left[i - 1] * VarintBase) + Digit(i)
  <2>1. Digit(i) = f[m - i] % VarintBase
    BY <1>15, <1>16
  <2>2. left[i] = f[m - i] /\ f[m - i] \in Nat
    BY <1>13, <1>16
  <2>3. CASE i = p
    <3>1. m - i = n - 1
      BY <1>3, <1>8, <2>3
    <3> DEFINE a == f[m - i]
    <3> HIDE DEF a
    <3>2. a \in Nat /\ a < VarintBase
      BY <1>13, <2>2, <3>1 DEF a
    <3>3. a % VarintBase = a
      BY <1>14, <3>2
    <3>4. Digit(i) = a /\ left[i] = a
      BY <2>1, <2>2, <3>3 DEF a
    <3>5. left[i] = 0 + Digit(i)
      <4> HIDE DEF left
      <4> QED BY <3>2, <3>4
    <3> HIDE DEF left
    <3> QED BY <2>3, <3>5
  <2>4. CASE i # p
    <3>1. i - 1 \in p..m /\ m - (i - 1) \in 1..(n - 1) /\ (m - (i - 1)) - 1 = m - i /\ i \in Int /\ m \in Int
      BY <1>3, <1>8, <2>4
    <3>2. left[i - 1] = f[m - (i - 1)]
      BY <3>1
    <3> DEFINE a == f[m - i]
               c == f[m - (i - 1)]
    <3> HIDE DEF a, c
    <3>3. c = a \div VarintBase
      BY <1>13, <3>1 DEF a, c
    <3>4. a \in Nat
      BY <2>2 DEF a
    <3>5. c * VarintBase + (a % VarintBase) = a
      BY <1>14, <3>3, <3>4, Division
    <3>6. left[i - 1] = c /\ Digit(i) = a % VarintBase /\ left[i] = a
      BY <2>1, <2>2, <3>2 DEF a, c
    <3> HIDE DEF left
    <3> QED BY <2>4, <3>5, <3>6
  <2> QED BY <2>3, <2>4
<1>18. left = Body(left)
  <2>1. Body(left) = [i \in p..m |-> Body(left)[i]] /\ left = [i \in p..m |-> left[i]]
    BY <1>12
  <2>2. \A i \in p..m : Body(left)[i] = (IF i = p THEN 0 ELSE left[i - 1] * VarintBase) + Digit(i)
    <3> HIDE DEF left
    <3> QED BY <1>12
  <2> HIDE DEF left, Body
  <2> QED BY <1>17, <2>1, <2>2
<1>19. back = Body(back)
  <2> HIDE DEF Body, left
  <2>1. \E h : h = Body(h)
    BY <1>18
  <2> QED BY <2>1
<1> HIDE DEF back
<1>20. \A i \in p..m : back[i] = (IF i = p THEN 0 ELSE back[i - 1] * VarintBase) + Digit(i)
  BY <1>12, <1>19
<1> DEFINE Q == {j \in Nat : p + j <= m => back[p + j] = left[p + j]}
<1> HIDE DEF left
<1>21. 0 \in Q
  <2>1. p + 0 = p /\ p \in p..m
    BY <1>8
  <2>2. back[p] = left[p]
    BY <1>17, <1>20, <2>1
  <2> QED BY <2>1, <2>2
<1>22. ASSUME NEW j \in Nat, j \in Q PROVE j + 1 \in Q
  <2> SUFFICES ASSUME p + (j + 1) <= m PROVE back[p + (j + 1)] = left[p + (j + 1)]
    OBVIOUS
  <2>1. /\ p + (j + 1) \in p..m /\ p + (j + 1) # p /\ (p + (j + 1)) - 1 = p + j /\ p + j <= m
    BY <1>8
  <2>2. back[p + j] = left[p + j]
    BY <1>22, <2>1
  <2>3. /\ back[p + (j + 1)] = back[p + j] * VarintBase + Digit(p + (j + 1))
        /\ left[p + (j + 1)] = left[p + j] * VarintBase + Digit(p + (j + 1))
    BY <1>17, <1>20, <2>1
  <2> QED BY <2>2, <2>3
<1> HIDE DEF Q
<1>23. back[m] = left[m]
  <2>1. m - p \in Nat /\ p + (m - p) = m /\ m <= m
    BY <1>8
  <2>2. Nat \subseteq Q
    BY <1>21, <1>22, NatInd
  <2>3. m - p \in Q
    BY <2>1, <2>2
  <2>4. p + (m - p) <= m => back[p + (m - p)] = left[p + (m - p)]
    BY <2>3 DEF Q
  <2> QED BY <2>1, <2>4
<1>24. left[m] = E
  <2>1. m \in p..m /\ m - m = 0
    BY <1>8
  <2> QED BY <1>13, <2>1 DEF left
<1>25. p - 1 - E = l
  BY <1>2, <1>5 DEF p
<1> QED BY <1>1, <1>12, <1>23, <1>24, <1>25 DEF b, e, l

-----------------------------------------------------------------------------
(* The encoding of a sequence of elements *)

EncAll(xs) == [i \in 1..Len(xs) |-> EncodeDeqEntry(xs[i])]
Bytes(xs) == FlattenSeq(EncAll(xs))

LEMMA EncAllType ==
  ASSUME NEW xs \in Seq(Elem)
  PROVE  EncAll(xs) \in Seq(Seq(Unit)) /\ Len(EncAll(xs)) = Len(xs)
<1>1. Len(xs) \in Nat /\ \A i \in 1..Len(xs) : xs[i] \in Elem
  BY LenProperties, ElementOfSeq
<1>2. \A i \in 1..Len(xs) : EncodeDeqEntry(xs[i]) \in Seq(Unit)
  BY <1>1, EntrySize
<1>3. EncAll(xs) \in [1..Len(xs) -> Seq(Unit)]
  BY <1>2 DEF EncAll
<1> QED BY <1>1, <1>3

LEMMA BytesType ==
  ASSUME NEW xs \in Seq(Elem)
  PROVE  Bytes(xs) \in Seq(Unit)
BY EncAllType, FlattenType DEF Bytes

LEMMA BytesEmpty == Bytes(<<>>) = <<>>
<1>1. EncAll(<<>>) = <<>>
  BY DEF EncAll
<1> QED BY <1>1, FlattenEmpty DEF Bytes

LEMMA BytesAppend ==
  ASSUME NEW xs \in Seq(Elem), NEW x \in Elem
  PROVE  Bytes(Append(xs, x)) = Bytes(xs) \o EncodeDeqEntry(x)
<1> DEFINE n == Len(xs)
           ys == Append(xs, x)
           e == EncodeDeqEntry(x)
           a == EncAll(xs)
           c == Append(a, e)
<1>1. e \in Seq(Unit) /\ a \in Seq(Seq(Unit)) /\ Len(a) = n /\ n \in Nat
  BY EntrySize, EncAllType, LenProperties
<1>2. ys \in Seq(Elem) /\ Len(ys) = n + 1 /\ ys[n + 1] = x
  BY AppendProperties
<1>3. \A i \in 1..n : ys[i] = xs[i]
  BY AppendProperties
<1>4. EncAll(ys) \in Seq(Seq(Unit)) /\ Len(EncAll(ys)) = n + 1
  BY <1>2, EncAllType
<1>5. \A i \in 1..(n + 1) : EncAll(ys)[i] = EncodeDeqEntry(ys[i])
  BY <1>2 DEF EncAll
<1>6. \A i \in 1..n : a[i] = EncodeDeqEntry(xs[i])
  BY DEF EncAll
<1> HIDE DEF ys, a, e, n
<1>7. c \in Seq(Seq(Unit)) /\ Len(c) = n + 1
  BY <1>1, AppendProperties
<1>8. \A i \in 1..n : c[i] = a[i]
  BY <1>1, AppendProperties
<1>9. c[n + 1] = e
  BY <1>1, AppendProperties
<1> HIDE DEF c
<1>10. ASSUME NEW i \in 1..(n + 1) PROVE EncAll(ys)[i] = c[i]
  <2>1. CASE i = n + 1
    BY <1>2, <1>5, <1>9, <2>1 DEF e
  <2>2. CASE i # n + 1
    <3>1. i \in 1..n
      BY <1>1, <2>2
    <3> QED BY <1>3, <1>5, <1>6, <1>8, <3>1
  <2> QED BY <2>1, <2>2
<1>11. EncAll(ys) = c
  BY <1>4, <1>7, <1>10, SeqEqual
<1>12. FlattenSeq(c) = FlattenSeq(a) \o e
  BY <1>1, FlattenAppend DEF c
<1> QED BY <1>11, <1>12 DEF Bytes, ys, a, e

LEMMA BytesOne ==
  ASSUME NEW x \in Elem
  PROVE  Bytes(<<x>>) = EncodeDeqEntry(x)
<1>1. <<>> \in Seq(Elem) /\ <<x>> = Append(<<>>, x)
  BY EmptySeq
<1>2. Bytes(Append(<<>>, x)) = <<>> \o EncodeDeqEntry(x)
  BY <1>1, BytesAppend, BytesEmpty
<1>3. <<>> \o EncodeDeqEntry(x) = EncodeDeqEntry(x)
  BY EntrySize, ConcatEmptySeq
<1> QED BY <1>1, <1>2, <1>3

LEMMA BytesJoin ==
  ASSUME NEW xs \in Seq(Elem), NEW ys \in Seq(Elem)
  PROVE  Bytes(xs \o ys) = Bytes(xs) \o Bytes(ys)
<1> DEFINE T == {zs \in Seq(Elem) : Bytes(xs \o zs) = Bytes(xs) \o Bytes(zs)}
<1>1. Bytes(xs) \in Seq(Unit)
  BY BytesType
<1>2. <<>> \in T
  <2>1. <<>> \in Seq(Elem) /\ xs \o <<>> = xs
    BY EmptySeq, ConcatEmptySeq
  <2>2. Bytes(xs) \o <<>> = Bytes(xs)
    BY <1>1, ConcatEmptySeq
  <2> QED BY <2>1, <2>2, BytesEmpty
<1>3. ASSUME NEW zs \in Seq(Elem), NEW z \in Elem, zs \in T PROVE Append(zs, z) \in T
  <2>1. Append(zs, z) \in Seq(Elem) /\ xs \o zs \in Seq(Elem) /\ EncodeDeqEntry(z) \in Seq(Unit)
        /\ Bytes(zs) \in Seq(Unit)
    BY AppendProperties, ConcatProperties, EntrySize, BytesType
  <2>2. xs \o Append(zs, z) = Append(xs \o zs, z)
    BY AppendJoins
  <2>3. Bytes(Append(xs \o zs, z)) = Bytes(xs \o zs) \o EncodeDeqEntry(z)
    BY <2>1, BytesAppend
  <2>4. Bytes(Append(zs, z)) = Bytes(zs) \o EncodeDeqEntry(z)
    BY BytesAppend
  <2>5. (Bytes(xs) \o Bytes(zs)) \o EncodeDeqEntry(z) = Bytes(xs) \o (Bytes(zs) \o EncodeDeqEntry(z))
    BY SMTT(30), <1>1, <2>1, JoinAssoc
  <2>6. Bytes(xs \o zs) = Bytes(xs) \o Bytes(zs)
    BY <1>3
  <2>7. Bytes(xs \o Append(zs, z)) = Bytes(xs) \o Bytes(Append(zs, z))
    BY ONLY <2>2, <2>3, <2>4, <2>5, <2>6
  <2> QED BY <2>1, <2>7
<1> HIDE DEF T
<1>4. Seq(Elem) \subseteq T
  BY <1>2, <1>3, SeqInd
<1> QED BY <1>4 DEF T

LEMMA BytesSome ==
  ASSUME NEW xs \in Seq(Elem)
  PROVE  /\ Len(Bytes(xs)) \in Nat
         /\ xs # <<>> => Len(Bytes(xs)) > 0
<1>1. Len(Bytes(xs)) \in Nat
  BY BytesType, LenProperties
<1>2. ASSUME xs # <<>> PROVE Len(Bytes(xs)) > 0
  <2>1. PICK ys \in Seq(Elem), y \in Elem : xs = Append(ys, y)
    BY <1>2, SequenceEmptyOrAppend
  <2>2. Bytes(xs) = Bytes(ys) \o EncodeDeqEntry(y)
    BY <2>1, BytesAppend
  <2>3. /\ Bytes(ys) \in Seq(Unit) /\ EncodeDeqEntry(y) \in Seq(Unit)
        /\ Len(EncodeDeqEntry(y)) \in Nat \ {0} /\ Len(Bytes(ys)) \in Nat
    BY BytesType, EntrySize, LenProperties
  <2>4. Len(Bytes(xs)) = Len(Bytes(ys)) + Len(EncodeDeqEntry(y))
    BY <2>2, <2>3, ConcatProperties
  <2> QED BY <2>3, <2>4
<1> QED BY <1>1, <1>2

BytesEach(B) == [i \in 1..Len(B) |-> Bytes(B[i])]

LEMMA BytesEachType ==
  ASSUME NEW B \in Seq(Seq(Elem))
  PROVE  BytesEach(B) \in Seq(Seq(Unit)) /\ Len(BytesEach(B)) = Len(B)
<1>1. Len(B) \in Nat /\ \A i \in 1..Len(B) : B[i] \in Seq(Elem)
  BY LenProperties, ElementOfSeq
<1>2. \A i \in 1..Len(B) : Bytes(B[i]) \in Seq(Unit)
  BY <1>1, BytesType
<1>3. BytesEach(B) \in [1..Len(B) -> Seq(Unit)]
  BY <1>2 DEF BytesEach
<1> DEFINE n == Len(B)
           S == Seq(Unit)
           f == BytesEach(B)
<1> HIDE DEF n, S, f
<1>4. n \in Nat /\ f \in [1..n -> S]
  BY <1>1, <1>3 DEF n, S, f
<1>5. f \in Seq(S) /\ Len(f) = n
  BY <1>4
<1> QED BY <1>5 DEF n, S, f

\* Encoding what the blocks hold, or each block.
LEMMA BytesFlat ==
  ASSUME NEW B \in Seq(Seq(Elem))
  PROVE  Bytes(FlattenSeq(B)) = FlattenSeq(BytesEach(B))
<1> DEFINE T == {C \in Seq(Seq(Elem)) : Bytes(FlattenSeq(C)) = FlattenSeq(BytesEach(C))}
<1>1. <<>> \in T
  <2>1. <<>> \in Seq(Seq(Elem))
    BY EmptySeq
  <2>2. BytesEach(<<>>) = <<>>
    BY DEF BytesEach
  <2> QED BY <2>1, <2>2, FlattenEmpty, BytesEmpty
<1>2. ASSUME NEW C \in Seq(Seq(Elem)), NEW c \in Seq(Elem), C \in T PROVE Append(C, c) \in T
  <2> DEFINE n == Len(C)
             D == Append(C, c)
             b == BytesEach(C)
             e == Append(b, Bytes(c))
  <2>1. D \in Seq(Seq(Elem)) /\ Len(D) = n + 1 /\ D[n + 1] = c /\ n \in Nat
    BY AppendProperties, LenProperties
  <2>2. \A i \in 1..n : D[i] = C[i]
    BY AppendProperties
  <2>3. b \in Seq(Seq(Unit)) /\ Len(b) = n /\ Bytes(c) \in Seq(Unit)
    BY BytesEachType, BytesType
  <2>4. BytesEach(D) \in Seq(Seq(Unit)) /\ Len(BytesEach(D)) = n + 1
    BY <2>1, BytesEachType
  <2>5. \A i \in 1..(n + 1) : BytesEach(D)[i] = Bytes(D[i])
    BY <2>1 DEF BytesEach
  <2>6. \A i \in 1..n : b[i] = Bytes(C[i])
    BY DEF BytesEach
  <2>7. FlattenSeq(D) = FlattenSeq(C) \o c /\ FlattenSeq(C) \in Seq(Elem)
    BY FlattenAppend, FlattenType
  <2>8. Bytes(FlattenSeq(C)) = FlattenSeq(b)
    BY <1>2
  <2> HIDE DEF D, b, n
  <2>9. e \in Seq(Seq(Unit)) /\ Len(e) = n + 1 /\ e[n + 1] = Bytes(c)
    BY <2>3, AppendProperties
  <2>10. \A i \in 1..n : e[i] = b[i]
    BY <2>3, AppendProperties
  <2>11. FlattenSeq(e) = FlattenSeq(b) \o Bytes(c)
    BY <2>3, FlattenAppend
  <2> HIDE DEF e
  <2>12. ASSUME NEW i \in 1..(n + 1) PROVE BytesEach(D)[i] = e[i]
    <3>1. CASE i = n + 1
      BY <2>1, <2>5, <2>9, <3>1
    <3>2. CASE i # n + 1
      <4>1. i \in 1..n
        BY <2>1, <3>2
      <4> QED BY <2>2, <2>5, <2>6, <2>10, <4>1
    <3> QED BY <3>1, <3>2
  <2>13. BytesEach(D) = e
    BY <2>4, <2>9, <2>12, SeqEqual
  <2>14. Bytes(FlattenSeq(D)) = Bytes(FlattenSeq(C)) \o Bytes(c)
    BY <2>7, BytesJoin
  <2>15. D \in T
    <3>1. Bytes(FlattenSeq(D)) = FlattenSeq(BytesEach(D))
      BY ONLY <2>8, <2>11, <2>13, <2>14
    <3> QED BY <2>1, <3>1
  <2> HIDE DEF T
  <2> QED BY <2>15 DEF D
<1> HIDE DEF T
<1>3. Seq(Seq(Elem)) \subseteq T
  BY <1>1, <1>2, SeqInd
<1> QED BY <1>3 DEF T

-----------------------------------------------------------------------------
(* Cuts of a sequence *)

LEMMA SplitAt ==
  ASSUME NEW S, NEW s \in Seq(S), NEW i \in 1..Len(s)
  PROVE  /\ SubSeq(s, 1, i - 1) \in Seq(S) /\ Len(SubSeq(s, 1, i - 1)) = i - 1
         /\ SubSeq(s, i + 1, Len(s)) \in Seq(S) /\ Len(SubSeq(s, i + 1, Len(s))) = Len(s) - i
         /\ s[i] \in S
         /\ SubSeq(s, 1, i) = SubSeq(s, 1, i - 1) \o <<s[i]>>
         /\ s = SubSeq(s, 1, i - 1) \o <<s[i]>> \o SubSeq(s, i + 1, Len(s))
<1>1. Len(s) \in Nat /\ i - 1 \in 0..Len(s) /\ i \in 0..Len(s) /\ s[i] \in S
  BY LenProperties, ElementOfSeq
<1>2. SubSeq(s, 1, i - 1) \in Seq(S) /\ Len(SubSeq(s, 1, i - 1)) = i - 1
  <2> DEFINE j == i - 1
  <2> HIDE DEF j
  <2>1. j \in 0..Len(s)
    BY <1>1 DEF j
  <2>2. SubSeq(s, 1, j) \in Seq(S) /\ Len(SubSeq(s, 1, j)) = j
    BY <2>1, CutAt
  <2> QED BY <2>2 DEF j
<1>3. /\ SubSeq(s, i + 1, Len(s)) \in Seq(S) /\ Len(SubSeq(s, i + 1, Len(s))) = Len(s) - i
      /\ s = SubSeq(s, 1, i) \o SubSeq(s, i + 1, Len(s))
  BY <1>1, CutAt
<1>4. SubSeq(s, 1, i) = SubSeq(s, 1, i - 1) \o <<s[i]>>
  <2>1. 1 \in 1..Len(s) /\ i \in 1..Len(s)
    BY <1>1
  <2> QED BY <2>1, SubSeqRecursiveSecond
<1> QED BY ONLY <1>1, <1>2, <1>3, <1>4

LEMMA JoinLen ==
  ASSUME NEW S, NEW s \in Seq(S), NEW t \in Seq(S)
  PROVE  /\ s \o t \in Seq(S) /\ Len(s \o t) = Len(s) + Len(t)
         /\ Len(s) \in Nat /\ Len(t) \in Nat
BY ConcatProperties, LenProperties

LEMMA OneType ==
  ASSUME NEW S, NEW x \in S
  PROVE  <<x>> \in Seq(S) /\ Len(<<x>>) = 1 /\ <<x>>[1] = x
OBVIOUS

\* s with x after its first k elements.
Inserted(s, k, x) == SubSeq(s, 1, k) \o <<x>> \o SubSeq(s, k + 1, Len(s))

LEMMA InsertedIs ==
  ASSUME NEW S, NEW s \in Seq(S), NEW t \in Seq(S), NEW x \in S
  PROVE  Inserted(s \o t, Len(s), x) = s \o <<x>> \o t
BY CutJoined DEF Inserted

\* The position of the first y.
First(s, y) == SelectInSeq(s, LAMBDA z : z = y)

LEMMA FirstIs ==
  ASSUME NEW S, NEW s \in Seq(S), NEW y
  PROVE  First(s, y) = 0 \/ (First(s, y) \in 1..Len(s) /\ s[First(s, y)] = y)
<1> DEFINE I == {i \in 1..Len(s) : s[i] = y}
           m == Min(I)
<1>1. First(s, y) = IF I # {} THEN m ELSE 0
  BY DEF First, SelectInSeq
<1>2. ASSUME I # {} PROVE m \in I
  <2>1. Len(s) \in Nat
    BY LenProperties
  <2>2. I \subseteq Nat
    BY <2>1
  <2> HIDE DEF I
  <2>3. PICK n \in I : \A j \in I : n <= j
    BY <1>2, <2>2, LeastNat
  <2>4. m \in I
    BY <2>3 DEF Min
  <2> QED BY <2>4
<1> HIDE DEF m
<1>3. m \in I => m \in 1..Len(s) /\ s[m] = y
  OBVIOUS
<1> HIDE DEF I
<1> QED BY <1>1, <1>2, <1>3

-----------------------------------------------------------------------------
(* The flat deque *)

\* g holds xs.
IsBasic(g, xs) == xs \in Seq(Elem) /\ g = [len |-> Len(xs), buf |-> Bytes(xs)]

LEMMA BasicNew == IsBasic(NewBasicDeque, <<>>)
BY BytesEmpty, EmptySeq DEF IsBasic, NewBasicDeque

LEMMA BasicLPushIs ==
  ASSUME NEW g, NEW xs, IsBasic(g, xs), NEW x \in Elem
  PROVE  IsBasic(BasicLPush(g, x), <<x>> \o xs)
<1>1. xs \in Seq(Elem) /\ g.len = Len(xs) /\ g.buf = Bytes(xs)
  BY DEF IsBasic
<1>2. <<x>> \in Seq(Elem) /\ Len(<<x>>) = 1
  BY OneType
<1>3. <<x>> \o xs \in Seq(Elem) /\ Len(<<x>> \o xs) = 1 + Len(xs) /\ Len(xs) \in Nat
  BY <1>1, <1>2, JoinLen
<1>4. Bytes(<<x>> \o xs) = EncodeDeqEntry(x) \o Bytes(xs)
  BY <1>1, <1>2, BytesJoin, BytesOne
<1>5. 1 + Len(xs) = Len(xs) + 1
  BY <1>3
<1> QED BY <1>1, <1>3, <1>4, <1>5 DEF IsBasic, BasicLPush

LEMMA BasicRPushIs ==
  ASSUME NEW g, NEW xs, IsBasic(g, xs), NEW x \in Elem
  PROVE  IsBasic(BasicRPush(g, x), xs \o <<x>>)
<1>1. xs \in Seq(Elem) /\ g.len = Len(xs) /\ g.buf = Bytes(xs)
  BY DEF IsBasic
<1>2. <<x>> \in Seq(Elem) /\ Len(<<x>>) = 1
  BY OneType
<1>3. xs \o <<x>> \in Seq(Elem) /\ Len(xs \o <<x>>) = Len(xs) + 1
  BY <1>1, <1>2, JoinLen
<1>4. Bytes(xs \o <<x>>) = Bytes(xs) \o EncodeDeqEntry(x)
  BY <1>1, <1>2, BytesJoin, BytesOne
<1> QED BY <1>1, <1>3, <1>4 DEF IsBasic, BasicRPush

LEMMA BasicLPopIs ==
  ASSUME NEW g, NEW x \in Elem, NEW xs \in Seq(Elem), IsBasic(g, <<x>> \o xs)
  PROVE  IsBasic(BasicLPop(g), xs)
<1> DEFINE e == EncodeDeqEntry(x)
           b == Bytes(xs)
<1>1. g.len = Len(<<x>> \o xs) /\ g.buf = Bytes(<<x>> \o xs)
  BY DEF IsBasic
<1>2. <<x>> \in Seq(Elem) /\ Len(<<x>>) = 1
  BY OneType
<1>3. Len(<<x>> \o xs) = 1 + Len(xs) /\ Len(xs) \in Nat
  BY <1>2, JoinLen
<1>4. g.buf = e \o b
  BY <1>1, <1>2, BytesJoin, BytesOne
<1>5. /\ e \in Seq(Unit) /\ b \in Seq(Unit) /\ <<>> \in Seq(Unit) /\ Len(<<>>) = 0
      /\ Len(e) = GetEncodeDeqEntrySize(x)
  BY EntrySize, BytesType, EmptySeq
<1>6. EntryLen(g.buf, 0) = Len(e)
  <2>1. <<>> \o e = e
    BY <1>5, ConcatEmptySeq
  <2>2. EntryLen(<<>> \o e \o b, Len(<<>>)) = GetEncodeDeqEntrySize(x)
    BY <1>5, EntryRead
  <2> HIDE DEF e, b
  <2> QED BY <1>4, <1>5, <2>1, <2>2
<1>7. SubSeq(g.buf, EntryLen(g.buf, 0) + 1, Len(g.buf)) = b
  <2> HIDE DEF e, b
  <2> QED BY <1>4, <1>5, <1>6, CutJoined
<1>8. g.len - 1 = Len(xs)
  BY <1>1, <1>3
<1> QED BY <1>7, <1>8 DEF IsBasic, BasicLPop

LEMMA BasicRPopIs ==
  ASSUME NEW g, NEW x \in Elem, NEW xs \in Seq(Elem), IsBasic(g, xs \o <<x>>)
  PROVE  IsBasic(BasicRPop(g), xs)
<1> DEFINE e == EncodeDeqEntry(x)
           b == Bytes(xs)
<1>1. g.len = Len(xs \o <<x>>) /\ g.buf = Bytes(xs \o <<x>>)
  BY DEF IsBasic
<1>2. <<x>> \in Seq(Elem) /\ Len(<<x>>) = 1
  BY OneType
<1>3. Len(xs \o <<x>>) = Len(xs) + 1 /\ Len(xs) \in Nat
  BY <1>2, JoinLen
<1>4. g.buf = b \o e
  BY <1>1, <1>2, BytesJoin, BytesOne
<1>5. e \in Seq(Unit) /\ b \in Seq(Unit)
  BY EntrySize, BytesType
<1>6. LastEntryAt(g.buf) = Len(b)
  BY <1>4, <1>5, LastEntry
<1>7. SubSeq(g.buf, 1, LastEntryAt(g.buf)) = b
  <2> HIDE DEF e, b
  <2> QED BY <1>4, <1>5, <1>6, CutJoined
<1>8. g.len - 1 = Len(xs)
  BY <1>1, <1>3
<1> QED BY <1>7, <1>8 DEF IsBasic, BasicRPop

\* Where entry i starts: after the entries before it.
LEMMA OffsetStep ==
  ASSUME NEW xs \in Seq(Elem), NEW i \in 1..Len(xs)
  PROVE  /\ Len(Bytes(SubSeq(xs, 1, i - 1))) \in Nat
         /\ DecodeDeqEntry(Bytes(xs), Len(Bytes(SubSeq(xs, 1, i - 1)))) = xs[i]
         /\ Len(Bytes(SubSeq(xs, 1, i)))
              = Len(Bytes(SubSeq(xs, 1, i - 1))) + EntryLen(Bytes(xs), Len(Bytes(SubSeq(xs, 1, i - 1))))
<1> DEFINE us == SubSeq(xs, 1, i - 1)
           vs == SubSeq(xs, i + 1, Len(xs))
           x == xs[i]
           b == Bytes(us)
           e == EncodeDeqEntry(x)
           t == Bytes(vs)
<1>1. /\ us \in Seq(Elem) /\ vs \in Seq(Elem) /\ x \in Elem
      /\ SubSeq(xs, 1, i) = us \o <<x>> /\ xs = us \o <<x>> \o vs
  BY SplitAt
<1> HIDE DEF us, vs, x
<1>2. <<x>> \in Seq(Elem) /\ us \o <<x>> \in Seq(Elem)
  BY <1>1, OneType, JoinLen
<1>3. Bytes(us \o <<x>>) = b \o e /\ Bytes(xs) = b \o e \o t
  <2>1. Bytes(us \o <<x>>) = b \o e
    BY <1>1, <1>2, BytesJoin, BytesOne
  <2>2. Bytes((us \o <<x>>) \o vs) = Bytes(us \o <<x>>) \o t
    BY <1>1, <1>2, BytesJoin
  <2> QED BY ONLY <1>1, <2>1, <2>2
<1>4. b \in Seq(Unit) /\ e \in Seq(Unit) /\ t \in Seq(Unit) /\ Len(b) \in Nat /\ Len(e) = GetEncodeDeqEntrySize(x)
  BY <1>1, BytesType, EntrySize, LenProperties
<1>5. /\ DecodeDeqEntry(b \o e \o t, Len(b)) = x
      /\ EntryLen(b \o e \o t, Len(b)) = GetEncodeDeqEntrySize(x)
  BY <1>1, <1>4, EntryRead
<1> HIDE DEF b, e, t
<1>6. Len(b \o e) = Len(b) + Len(e)
  BY <1>4, JoinLen
<1>7. /\ Len(b) \in Nat /\ DecodeDeqEntry(Bytes(xs), Len(b)) = x
      /\ Len(Bytes(SubSeq(xs, 1, i))) = Len(b) + EntryLen(Bytes(xs), Len(b))
  BY <1>1, <1>3, <1>4, <1>5, <1>6
<1> QED BY <1>7 DEF b, us, x

LEMMA BasicOffsetsAre ==
  ASSUME NEW g, NEW xs, IsBasic(g, xs)
  PROVE  \A i \in 1..(Len(xs) + 1) : BasicOffsets(g)[i] = Len(Bytes(SubSeq(xs, 1, i - 1)))
<1> DEFINE n == Len(xs)
           buf == Bytes(xs)
           w == [i \in 1..(n + 1) |-> Len(Bytes(SubSeq(xs, 1, i - 1)))]
           Body(h) == [i \in 1..(n + 1) |-> IF i = 1 THEN 0 ELSE h[i - 1] + EntryLen(buf, h[i - 1])]
           off == CHOOSE h : h = Body(h)
<1>1. xs \in Seq(Elem) /\ g.len = n /\ g.buf = buf /\ n \in Nat
  BY LenProperties DEF IsBasic
<1>2. BasicOffsets(g) = off
  BY <1>1 DEF BasicOffsets
<1> HIDE DEF buf, n
<1>3. ASSUME NEW i \in 1..(n + 1)
      PROVE  w[i] = IF i = 1 THEN 0 ELSE w[i - 1] + EntryLen(buf, w[i - 1])
  <2>1. CASE i = 1
    <3>1. SubSeq(xs, 1, 1 - 1) = <<>>
      BY SubSeqEmpty
    <3>2. w[i] = Len(Bytes(SubSeq(xs, 1, 1 - 1)))
      BY <2>1
    <3>3. w[i] = 0
      BY ONLY <3>1, <3>2, BytesEmpty, EmptySeq
    <3> HIDE DEF w
    <3> QED BY <2>1, <3>3
  <2>2. CASE i # 1
    <3> DEFINE j == i - 1
    <3>1. j \in 1..n /\ j \in 1..(n + 1) /\ i \in 1..(n + 1)
      BY <1>1, <2>2
    <3>2. w[i] = Len(Bytes(SubSeq(xs, 1, j))) /\ w[j] = Len(Bytes(SubSeq(xs, 1, j - 1)))
      BY <3>1
    <3> HIDE DEF w, j
    <3>3. Len(Bytes(SubSeq(xs, 1, j)))
            = Len(Bytes(SubSeq(xs, 1, j - 1))) + EntryLen(buf, Len(Bytes(SubSeq(xs, 1, j - 1))))
      BY <1>1, <3>1, OffsetStep DEF n, buf
    <3>4. w[i] = w[j] + EntryLen(buf, w[j])
      BY <3>2, <3>3
    <3> QED BY <2>2, <3>4 DEF j
  <2> QED BY <2>1, <2>2
<1>4. w = Body(w)
  <2>1. Body(w) = [i \in 1..(n + 1) |-> Body(w)[i]] /\ w = [i \in 1..(n + 1) |-> w[i]]
    OBVIOUS
  <2>2. \A i \in 1..(n + 1) : Body(w)[i] = IF i = 1 THEN 0 ELSE w[i - 1] + EntryLen(buf, w[i - 1])
    <3> HIDE DEF w
    <3> QED OBVIOUS
  <2> HIDE DEF w, Body
  <2> QED BY <1>3, <2>1, <2>2
<1>5. off = Body(off)
  <2> HIDE DEF Body, w
  <2>1. \E h : h = Body(h)
    BY <1>4
  <2> QED BY <2>1
<1> HIDE DEF off
<1>6. \A i \in 1..(n + 1) : off[i] = IF i = 1 THEN 0 ELSE off[i - 1] + EntryLen(buf, off[i - 1])
  BY <1>5
<1> DEFINE Q == {m \in Nat : m + 1 <= n + 1 => off[m + 1] = w[m + 1]}
<1> HIDE DEF w
<1>7. 0 \in Q
  <2>1. 0 + 1 = 1 /\ 1 \in 1..(n + 1)
    BY <1>1
  <2>2. off[1] = w[1]
    BY <1>3, <1>6, <2>1
  <2> QED BY <2>1, <2>2
<1>8. ASSUME NEW m \in Nat, m \in Q PROVE m + 1 \in Q
  <2> DEFINE j == m + 1
  <2> SUFFICES ASSUME j + 1 <= n + 1 PROVE off[j + 1] = w[j + 1]
    OBVIOUS
  <2>1. j + 1 \in 1..(n + 1) /\ j + 1 # 1 /\ (j + 1) - 1 = j /\ m + 1 <= n + 1
    BY <1>1
  <2>2. off[j] = w[j]
    BY <1>8, <2>1
  <2> HIDE DEF j
  <2>3. off[j + 1] = off[j] + EntryLen(buf, off[j]) /\ w[j + 1] = w[j] + EntryLen(buf, w[j])
    BY <1>3, <1>6, <2>1
  <2> QED BY <2>2, <2>3
<1> HIDE DEF Q
<1>9. ASSUME NEW i \in 1..(n + 1) PROVE off[i] = w[i]
  <2>1. i - 1 \in Nat /\ (i - 1) + 1 = i /\ i <= n + 1
    BY <1>1
  <2>2. Nat \subseteq Q
    BY <1>7, <1>8, NatInd
  <2>3. i - 1 \in Q
    BY <2>1, <2>2
  <2>4. (i - 1) + 1 <= n + 1 => off[(i - 1) + 1] = w[(i - 1) + 1]
    BY <2>3 DEF Q
  <2> QED BY <2>1, <2>4
<1>10. \A i \in 1..(n + 1) : w[i] = Len(Bytes(SubSeq(xs, 1, i - 1)))
  BY DEF w
<1> QED BY <1>2, <1>9, <1>10 DEF n

LEMMA BasicElemsAre ==
  ASSUME NEW g, NEW xs, IsBasic(g, xs)
  PROVE  BasicElems(g) = xs
<1> DEFINE n == Len(xs)
           off == BasicOffsets(g)
<1>1. xs \in Seq(Elem) /\ g.len = n /\ g.buf = Bytes(xs) /\ n \in Nat
  BY LenProperties DEF IsBasic
<1>2. BasicElems(g) = [i \in 1..n |-> DecodeDeqEntry(Bytes(xs), off[i])]
  BY <1>1 DEF BasicElems
<1>3. ASSUME NEW i \in 1..n PROVE DecodeDeqEntry(Bytes(xs), off[i]) = xs[i]
  <2>1. i \in 1..(n + 1)
    BY <1>1
  <2>2. off[i] = Len(Bytes(SubSeq(xs, 1, i - 1)))
    BY <2>1, BasicOffsetsAre
  <2>3. DecodeDeqEntry(Bytes(xs), Len(Bytes(SubSeq(xs, 1, i - 1)))) = xs[i]
    BY <1>1, OffsetStep
  <2> QED BY <2>2, <2>3
<1>4. xs = [i \in 1..n |-> xs[i]]
  BY <1>1, LenProperties
<1> HIDE DEF n, off
<1> QED BY <1>2, <1>3, <1>4

\* LINSERT puts x where the pivot starts or where it ends.
PutAfter(p, where) == IF where = "before" THEN p - 1 ELSE p

LEMMA BasicLInsertIs ==
  ASSUME NEW g, NEW xs, IsBasic(g, xs), NEW pivot \in Elem, NEW x \in Elem,
         NEW where \in {"before", "after"}
  PROVE  IF First(xs, pivot) = 0 THEN BasicLInsert(g, pivot, x, where) = g
         ELSE IsBasic(BasicLInsert(g, pivot, x, where),
                      Inserted(xs, PutAfter(First(xs, pivot), where), x))
<1> DEFINE n == Len(xs)
           offs == BasicOffsets(g)
           p == First(xs, pivot)
           at == IF where = "before" THEN offs[p] ELSE offs[p + 1]
           k == PutAfter(p, where)
           new == CASE p = 1 /\ where = "before" -> BasicLPush(g, x)
                    [] p = n /\ where = "after" -> BasicRPush(g, x)
                    [] OTHER -> BasicInsertAt(g, x, at)
           res == BasicLInsert(g, pivot, x, where)
           us == SubSeq(xs, 1, k)
           vs == SubSeq(xs, k + 1, Len(xs))
<1>1. xs \in Seq(Elem) /\ g.len = n /\ g.buf = Bytes(xs) /\ n \in Nat
  BY LenProperties DEF IsBasic
<1>2. res = IF p = 0 THEN g ELSE new
  BY <1>1, BasicElemsAre DEF BasicLInsert, First
<1>3. p = 0 \/ p \in 1..n
  BY <1>1, FirstIs
<1> HIDE DEF res, p
<1>4. ASSUME p # 0 PROVE IsBasic(new, Inserted(xs, k, x))
  <2>1. p \in 1..n
    BY <1>3, <1>4
  <2>2. k \in 0..n /\ at = offs[k + 1] /\ k + 1 \in 1..(n + 1) /\ (k + 1) - 1 = k
    <3>1. CASE where = "before"
      <4>1. k = p - 1 /\ at = offs[p]
        BY <3>1 DEF PutAfter
      <4> HIDE DEF k, at, offs
      <4>2. k \in 0..n /\ k + 1 = p /\ k + 1 \in 1..(n + 1) /\ (k + 1) - 1 = k
        BY <1>1, <2>1, <4>1
      <4> QED BY <4>1, <4>2
    <3>2. CASE where = "after"
      <4>1. k = p /\ at = offs[p + 1]
        BY <3>2 DEF PutAfter
      <4> HIDE DEF k, at, offs
      <4>2. k \in 0..n /\ k + 1 \in 1..(n + 1) /\ (k + 1) - 1 = k
        BY <1>1, <2>1, <4>1
      <4> QED BY <4>1, <4>2
    <3> QED BY <3>1, <3>2
  <2>3. /\ us \in Seq(Elem) /\ Len(us) = k /\ vs \in Seq(Elem) /\ xs = us \o vs
    <3> HIDE DEF k
    <3> QED BY <1>1, <2>2, CutAt
  <2>4. at = Len(Bytes(us))
    <3>1. offs[k + 1] = Len(Bytes(SubSeq(xs, 1, (k + 1) - 1)))
      <4> HIDE DEF k, offs
      <4> QED BY <2>2, BasicOffsetsAre DEF offs
    <3> QED BY <2>2, <3>1
  <2>5. Inserted(xs, k, x) = us \o <<x>> \o vs
    BY DEF Inserted
  <2>6. /\ <<x>> \in Seq(Elem) /\ us \o <<x>> \in Seq(Elem) /\ us \o <<x>> \o vs \in Seq(Elem)
        /\ Len(us \o <<x>> \o vs) = n + 1
    <3>1. <<x>> \in Seq(Elem) /\ Len(<<x>>) = 1
      BY OneType
    <3>2. us \o <<x>> \in Seq(Elem) /\ Len(us \o <<x>>) = k + 1
      <4> HIDE DEF us, k
      <4> QED BY <2>3, <3>1, JoinLen
    <3>3. n = k + Len(vs) /\ Len(vs) \in Nat
      <4> HIDE DEF us, vs, k
      <4>1. Len(us \o vs) = Len(us) + Len(vs) /\ Len(vs) \in Nat
        BY <2>3, JoinLen
      <4> QED BY <2>3, <4>1
    <3>4. us \o <<x>> \o vs \in Seq(Elem) /\ Len(us \o <<x>> \o vs) = (k + 1) + Len(vs)
      <4> HIDE DEF us, vs, k
      <4> QED BY <2>3, <3>2, JoinLen
    <3>5. (k + 1) + Len(vs) = n + 1
      <4> HIDE DEF k, vs, n
      <4> QED BY <2>2, <3>3
    <3> QED BY ONLY <3>1, <3>2, <3>4, <3>5
  <2>7. Bytes(us \o <<x>> \o vs) = Bytes(us) \o EncodeDeqEntry(x) \o Bytes(vs)
    <3> HIDE DEF us, vs
    <3>1. Bytes(us \o <<x>>) = Bytes(us) \o EncodeDeqEntry(x)
      BY ZenonT(40), <2>3, <2>6, BytesJoin, BytesOne
    <3> QED BY <2>3, <2>6, <3>1, BytesJoin
  <2>8. Bytes(xs) = Bytes(us) \o Bytes(vs) /\ Bytes(us) \in Seq(Unit) /\ Bytes(vs) \in Seq(Unit)
    <3> HIDE DEF us, vs
    <3> QED BY <2>3, BytesJoin, BytesType
  <2>9. CASE p = 1 /\ where = "before"
    <3>1. new = BasicLPush(g, x) /\ k = 0
      BY <2>9 DEF PutAfter
    <3>2. us = <<>>
      <4> HIDE DEF us
      <4> QED BY <2>3, <3>1, EmptySeq
    <3> HIDE DEF us, vs, new
    <3>3. <<>> \o vs = vs /\ <<>> \o <<x>> = <<x>>
      BY <2>3, <2>6, ConcatEmptySeq
    <3>4. IsBasic(BasicLPush(g, x), <<x>> \o xs)
      BY BasicLPushIs
    <3> HIDE DEF k
    <3> QED BY <2>3, <2>5, <3>1, <3>2, <3>3, <3>4
  <2>10. CASE p = n /\ where = "after" /\ ~(p = 1 /\ where = "before")
    <3>1. new = BasicRPush(g, x) /\ k = n
      BY <2>10 DEF PutAfter
    <3>2. vs = <<>>
      <4>1. n < k + 1
        BY <1>1, <3>1
      <4>2. SubSeq(xs, k + 1, Len(xs)) = <<>>
        <5> HIDE DEF k
        <5> QED BY <1>1, <2>2, <4>1, SubSeqEmpty
      <4> QED BY <4>2
    <3> HIDE DEF us, vs, new
    <3>3. us \o <<>> = us /\ (us \o <<x>>) \o <<>> = us \o <<x>>
      BY <2>3, <2>6, ConcatEmptySeq
    <3>4. IsBasic(BasicRPush(g, x), xs \o <<x>>)
      BY BasicRPushIs
    <3> HIDE DEF k
    <3> QED BY <2>3, <2>5, <3>1, <3>2, <3>3, <3>4
  <2>11. CASE ~(p = n /\ where = "after") /\ ~(p = 1 /\ where = "before")
    <3>1. new = BasicInsertAt(g, x, at)
      BY <2>11
    <3>2. BasicInsertAt(g, x, at)
            = [len |-> g.len + 1,
               buf |-> SubSeq(g.buf, 1, at) \o EncodeDeqEntry(x) \o SubSeq(g.buf, at + 1, Len(g.buf))]
      BY DEF BasicInsertAt
    <3> HIDE DEF us, vs, new, k, at
    <3>3. SubSeq(g.buf, 1, at) = Bytes(us) /\ SubSeq(g.buf, at + 1, Len(g.buf)) = Bytes(vs)
      BY <1>1, <2>4, <2>8, CutJoined
    <3> QED BY <1>1, <2>5, <2>6, <2>7, <3>1, <3>2, <3>3 DEF IsBasic
  <2> HIDE DEF new, k
  <2> QED BY <2>9, <2>10, <2>11
<1> HIDE DEF new, k
<1>5. IF p = 0 THEN res = g ELSE IsBasic(res, Inserted(xs, k, x))
  BY <1>2, <1>4
<1> QED BY <1>5 DEF res, k, p

-----------------------------------------------------------------------------
(* The chunked deque *)

Chunk == [buf : Seq(Unit), cap : Nat]

\* The gap is at the left of the first node.
Gapped(g, i) == IF i = 1 THEN g ELSE <<>>

\* The nodes ns hold the blocks of elements B after the gap g.
Blocks(ns, B, g) ==
  /\ ns \in Seq(Chunk) /\ B \in Seq(Seq(Elem)) /\ g \in Seq(Unit) /\ Len(ns) = Len(B)
  /\ \A i \in 1..Len(B) : ns[i].buf = Gapped(g, i) \o Bytes(B[i]) /\ Len(ns[i].buf) <= ns[i].cap

AllFull(B) == \A i \in 1..Len(B) : B[i] # <<>>

LEMMA BlocksNone == Blocks(<<>>, <<>>, <<>>) /\ AllFull(<<>>)
BY EmptySeq DEF Blocks, AllFull

LEMMA BlocksOne ==
  ASSUME NEW nd \in Chunk, NEW b \in Seq(Elem), NEW g \in Seq(Unit),
         nd.buf = g \o Bytes(b), Len(nd.buf) <= nd.cap
  PROVE  Blocks(<<nd>>, <<b>>, g)
<1>1. <<nd>> \in Seq(Chunk) /\ <<b>> \in Seq(Seq(Elem)) /\ Len(<<nd>>) = 1 /\ Len(<<b>>) = 1
  BY OneType
<1>2. \A i \in 1..1 : i = 1
  OBVIOUS
<1>3. <<nd>>[1] = nd /\ <<b>>[1] = b /\ Gapped(g, 1) = g
  BY DEF Gapped
<1> QED BY <1>1, <1>2, <1>3 DEF Blocks

LEMMA BlocksJoin ==
  ASSUME NEW m, NEW A, NEW g, Blocks(m, A, g), NEW n, NEW B, Blocks(n, B, <<>>),
         m = <<>> => g = <<>>
  PROVE  Blocks(m \o n, A \o B, g)
<1>1. /\ m \in Seq(Chunk) /\ A \in Seq(Seq(Elem)) /\ g \in Seq(Unit) /\ Len(m) = Len(A)
      /\ \A i \in 1..Len(A) : m[i].buf = Gapped(g, i) \o Bytes(A[i]) /\ Len(m[i].buf) <= m[i].cap
  BY DEF Blocks
<1>2. /\ n \in Seq(Chunk) /\ B \in Seq(Seq(Elem)) /\ Len(n) = Len(B)
      /\ \A i \in 1..Len(B) : n[i].buf = Gapped(<<>>, i) \o Bytes(B[i]) /\ Len(n[i].buf) <= n[i].cap
  BY DEF Blocks
<1> DEFINE j == Len(A)
           k == Len(B)
<1>3. /\ m \o n \in Seq(Chunk) /\ Len(m \o n) = j + k
      /\ \A i \in 1..(j + k) : (m \o n)[i] = IF i <= j THEN m[i] ELSE n[i - j]
  <2>1. m \o n \in Seq(Chunk)
    BY <1>1, <1>2, ConcatProperties
  <2>2. Len(m \o n) = Len(m) + Len(n)
    BY <1>1, <1>2, ConcatProperties
  <2>3. \A i \in 1..(Len(m) + Len(n)) : (m \o n)[i] = IF i <= Len(m) THEN m[i] ELSE n[i - Len(m)]
    BY <1>1, <1>2, ConcatProperties
  <2>4. Len(m) = j /\ Len(n) = k
    BY <1>1, <1>2
  <2> HIDE DEF j, k
  <2> QED BY <2>1, <2>2, <2>3, <2>4
<1>4. /\ A \o B \in Seq(Seq(Elem)) /\ Len(A \o B) = j + k
      /\ \A i \in 1..(j + k) : (A \o B)[i] = IF i <= j THEN A[i] ELSE B[i - j]
  <2>1. A \o B \in Seq(Seq(Elem))
    BY <1>1, <1>2, ConcatProperties
  <2>2. Len(A \o B) = j + k
    BY <1>1, <1>2, ConcatProperties
  <2>3. \A i \in 1..(j + k) : (A \o B)[i] = IF i <= j THEN A[i] ELSE B[i - j]
    BY <1>1, <1>2, ConcatProperties
  <2> QED BY ONLY <2>1, <2>2, <2>3
<1>5. j \in Nat /\ k \in Nat
  BY <1>1, <1>2, LenProperties
<1>6. j = 0 => g = <<>>
  BY <1>1, EmptySeq
<1>7. \A i : Gapped(<<>>, i) = <<>>
  BY DEF Gapped
<1> HIDE DEF j, k
<1>8. ASSUME NEW i \in 1..(j + k)
      PROVE  /\ (m \o n)[i].buf = Gapped(g, i) \o Bytes((A \o B)[i])
             /\ Len((m \o n)[i].buf) <= (m \o n)[i].cap
  <2>1. CASE i <= j
    <3>1. i \in 1..j /\ (m \o n)[i] = m[i] /\ (A \o B)[i] = A[i]
      BY <1>3, <1>4, <1>5, <2>1
    <3> QED BY <1>1, <3>1 DEF j
  <2>2. CASE ~(i <= j)
    <3>1. i - j \in 1..k /\ (m \o n)[i] = n[i - j] /\ (A \o B)[i] = B[i - j]
      BY SMTT(30), <1>3, <1>4, <1>5, <2>2
    <3>2. n[i - j].buf = Gapped(<<>>, i - j) \o Bytes(B[i - j]) /\ Len(n[i - j].buf) <= n[i - j].cap
      BY <1>2, <3>1 DEF k
    <3>3. Gapped(g, i) = <<>>
      <4>1. i = 1 => j = 0
        BY <1>5, <2>2
      <4> QED BY <1>6, <4>1 DEF Gapped
    <3> QED BY <1>7, <3>1, <3>2, <3>3
  <2> QED BY <2>1, <2>2
<1> QED BY <1>1, <1>3, <1>4, <1>8 DEF Blocks

LEMMA FullJoin ==
  ASSUME NEW A \in Seq(Seq(Elem)), NEW B \in Seq(Seq(Elem)), AllFull(A), AllFull(B)
  PROVE  AllFull(A \o B)
<1> DEFINE j == Len(A)
           k == Len(B)
<1>1. /\ Len(A \o B) = j + k
      /\ \A i \in 1..(j + k) : (A \o B)[i] = IF i <= j THEN A[i] ELSE B[i - j]
  BY ConcatProperties
<1>2. j \in Nat /\ k \in Nat
  BY LenProperties
<1> HIDE DEF j, k
<1>3. ASSUME NEW i \in 1..(j + k) PROVE (A \o B)[i] # <<>>
  <2>1. CASE i <= j
    <3>1. i \in 1..j
      BY <1>2, <2>1
    <3> QED BY <1>1, <2>1, <3>1 DEF AllFull, j
  <2>2. CASE ~(i <= j)
    <3>1. i - j \in 1..k
      BY <1>2, <2>2
    <3> QED BY <1>1, <2>2, <3>1 DEF AllFull, k
  <2> QED BY <2>1, <2>2
<1> QED BY <1>1, <1>3 DEF AllFull

LEMMA FullOne ==
  ASSUME NEW b, b # <<>>
  PROVE  AllFull(<<b>>)
<1>1. Len(<<b>>) = 1 /\ <<b>>[1] = b /\ \A i \in 1..1 : i = 1
  OBVIOUS
<1> QED BY <1>1 DEF AllFull

\* The first i nodes, and the others.
LEMMA BlocksCut ==
  ASSUME NEW ns, NEW B, NEW g, Blocks(ns, B, g), NEW i \in 0..Len(B)
  PROVE  /\ Blocks(SubSeq(ns, 1, i), SubSeq(B, 1, i), g)
         /\ Blocks(SubSeq(ns, i + 1, Len(ns)), SubSeq(B, i + 1, Len(B)), IF i = 0 THEN g ELSE <<>>)
         /\ AllFull(B) => AllFull(SubSeq(B, 1, i)) /\ AllFull(SubSeq(B, i + 1, Len(B)))
<1> DEFINE n == Len(B)
           m1 == SubSeq(ns, 1, i)
           m2 == SubSeq(ns, i + 1, n)
           B1 == SubSeq(B, 1, i)
           B2 == SubSeq(B, i + 1, n)
           h == IF i = 0 THEN g ELSE <<>>
<1>1. /\ ns \in Seq(Chunk) /\ B \in Seq(Seq(Elem)) /\ g \in Seq(Unit) /\ Len(ns) = n
      /\ \A j \in 1..n : ns[j].buf = Gapped(g, j) \o Bytes(B[j]) /\ Len(ns[j].buf) <= ns[j].cap
  BY DEF Blocks
<1>2. n \in Nat /\ i \in Int /\ i + 1 \in Int
  BY <1>1, LenProperties
<1>3. /\ m1 \in Seq(Chunk) /\ Len(m1) = i /\ m2 \in Seq(Chunk) /\ Len(m2) = n - i
  BY <1>1, CutAt
<1>4. /\ B1 \in Seq(Seq(Elem)) /\ Len(B1) = i /\ B2 \in Seq(Seq(Elem)) /\ Len(B2) = n - i
  BY <1>1, CutAt
<1>5. /\ \A j \in 1..n : ns[j] \in Chunk /\ B[j] \in Seq(Elem)
  BY <1>1, ElementOfSeq
<1> HIDE DEF n
<1>6. /\ \A j \in 1..i : ns[j] \in Chunk /\ B[j] \in Seq(Elem)
      /\ \A j \in (i + 1)..n : ns[j] \in Chunk /\ B[j] \in Seq(Elem)
  BY <1>2, <1>5 DEF n
<1>7. \A j \in 1..i : m1[j] = ns[j]
  <2>1. \A j \in 1..(i - 1 + 1) : m1[j] = ns[1 + j - 1]
    BY <1>2, <1>6, SubSeqProperties
  <2> HIDE DEF m1
  <2>2. \A j \in 1..i : j \in 1..(i - 1 + 1) /\ 1 + j - 1 = j
    BY <1>2
  <2> QED BY <2>1, <2>2
<1>8. \A j \in 1..i : B1[j] = B[j]
  <2>1. \A j \in 1..(i - 1 + 1) : B1[j] = B[1 + j - 1]
    BY <1>2, <1>6, SubSeqProperties
  <2> HIDE DEF B1
  <2>2. \A j \in 1..i : j \in 1..(i - 1 + 1) /\ 1 + j - 1 = j
    BY <1>2
  <2> QED BY <2>1, <2>2
<1>9. \A j \in 1..(n - i) : m2[j] = ns[i + j]
  <2>1. \A j \in 1..(n - (i + 1) + 1) : m2[j] = ns[i + 1 + j - 1]
    BY <1>2, <1>6, SubSeqProperties
  <2> HIDE DEF m2
  <2>2. \A j \in 1..(n - i) : j \in 1..(n - (i + 1) + 1) /\ i + 1 + j - 1 = i + j
    BY <1>2
  <2> QED BY <2>1, <2>2
<1>10. \A j \in 1..(n - i) : B2[j] = B[i + j]
  <2>1. \A j \in 1..(n - (i + 1) + 1) : B2[j] = B[i + 1 + j - 1]
    BY <1>2, <1>6, SubSeqProperties
  <2> HIDE DEF B2
  <2>2. \A j \in 1..(n - i) : j \in 1..(n - (i + 1) + 1) /\ i + 1 + j - 1 = i + j
    BY <1>2
  <2> QED BY <2>1, <2>2
<1>11. (\A j \in 1..i : j \in 1..n) /\ (\A j \in 1..(n - i) : i + j \in 1..n)
  BY <1>2 DEF n
<1> HIDE DEF m1, m2, B1, B2
<1>12. \A j \in 1..i : m1[j].buf = Gapped(g, j) \o Bytes(B1[j]) /\ Len(m1[j].buf) <= m1[j].cap
  BY <1>1, <1>7, <1>8, <1>11
<1>13. Blocks(m1, B1, g)
  BY <1>1, <1>3, <1>4, <1>12 DEF Blocks
<1>14. ASSUME NEW j \in 1..(n - i)
       PROVE  m2[j].buf = Gapped(h, j) \o Bytes(B2[j]) /\ Len(m2[j].buf) <= m2[j].cap
  <2>1. Gapped(g, i + j) = Gapped(h, j)
    <3>1. CASE i = 0
      BY <3>1 DEF Gapped
    <3>2. CASE i # 0
      <4>1. i + j # 1
        BY <1>2, <3>2
      <4> QED BY <3>2, <4>1 DEF Gapped
    <3> QED BY <3>1, <3>2
  <2> QED BY <1>1, <1>9, <1>10, <1>11, <2>1
<1>15. Blocks(m2, B2, h)
  <2>1. h \in Seq(Unit)
    BY <1>1, EmptySeq
  <2> HIDE DEF h
  <2> QED BY <1>3, <1>4, <1>14, <2>1 DEF Blocks
<1>16. AllFull(B) => AllFull(B1) /\ AllFull(B2)
  BY ZenonT(40), <1>4, <1>8, <1>10, <1>11 DEF AllFull, n
<1> QED BY <1>1, <1>13, <1>15, <1>16 DEF m1, m2, B1, B2, n

ElemsBefore(B, i) == FlattenSeq(SubSeq(B, 1, i - 1))
ElemsAfter(B, i) == FlattenSeq(SubSeq(B, i + 1, Len(B)))

LEMMA FlatAt ==
  ASSUME NEW B \in Seq(Seq(Elem)), NEW i \in 1..Len(B)
  PROVE  /\ ElemsBefore(B, i) \in Seq(Elem) /\ B[i] \in Seq(Elem) /\ ElemsAfter(B, i) \in Seq(Elem)
         /\ FlattenSeq(B) = ElemsBefore(B, i) \o B[i] \o ElemsAfter(B, i)
         /\ i = 1 => ElemsBefore(B, i) = <<>>
         /\ i = Len(B) => ElemsAfter(B, i) = <<>>
<1> DEFINE s == SubSeq(B, 1, i - 1)
           t == SubSeq(B, i + 1, Len(B))
           b == B[i]
<1>1. /\ s \in Seq(Seq(Elem)) /\ t \in Seq(Seq(Elem)) /\ b \in Seq(Elem)
      /\ B = s \o <<b>> \o t
  BY SplitAt
<1>2. i = 1 => s = <<>>
  <2>1. SubSeq(B, 1, 1 - 1) = <<>>
    BY SubSeqEmpty
  <2> QED BY <2>1
<1>3. i = Len(B) => t = <<>>
  <2>1. Len(B) \in Nat /\ Len(B) < Len(B) + 1
    BY LenProperties
  <2>2. SubSeq(B, Len(B) + 1, Len(B)) = <<>>
    BY <2>1, SubSeqEmpty
  <2> QED BY <2>2
<1>4. ElemsBefore(B, i) = FlattenSeq(s) /\ ElemsAfter(B, i) = FlattenSeq(t)
  BY DEF ElemsBefore, ElemsAfter
<1> HIDE DEF s, t
<1>5. FlattenSeq(s) \in Seq(Elem) /\ FlattenSeq(t) \in Seq(Elem)
  BY <1>1, FlattenType
<1>6. <<b>> \in Seq(Seq(Elem)) /\ s \o <<b>> \in Seq(Seq(Elem))
  BY <1>1, OneType, JoinLen
<1>7. FlattenSeq(s \o <<b>>) = FlattenSeq(s) \o b
  <2>1. FlattenSeq(<<b>>) = b
    BY <1>1, FlattenOne
  <2>2. FlattenSeq(s \o <<b>>) = FlattenSeq(s) \o FlattenSeq(<<b>>)
    BY <1>1, <1>6, FlattenJoin
  <2> QED BY ONLY <2>1, <2>2
<1>8. FlattenSeq((s \o <<b>>) \o t) = FlattenSeq(s \o <<b>>) \o FlattenSeq(t)
  BY <1>1, <1>6, FlattenJoin
<1>9. FlattenSeq(B) = FlattenSeq(s) \o b \o FlattenSeq(t)
  BY ONLY <1>1, <1>7, <1>8
<1> QED BY <1>1, <1>2, <1>3, <1>4, <1>5, <1>9, FlattenEmpty

LEMMA SubSeqSame ==
  ASSUME NEW S, NEW s \in Seq(S), NEW t \in Seq(S), NEW a \in Nat, NEW n \in Nat,
         \A j \in a..n : s[j] \in S /\ t[j] = s[j]
  PROVE  SubSeq(s, a, n) = SubSeq(t, a, n)
<1> DEFINE u == SubSeq(s, a, n)
           v == SubSeq(t, a, n)
<1>1. /\ u \in Seq(S) /\ Len(u) = (IF a <= n THEN n - a + 1 ELSE 0)
      /\ \A j \in 1..(n - a + 1) : u[j] = s[a + j - 1]
  <2>1. u \in Seq(S)
    BY SubSeqProperties
  <2>2. Len(u) = IF a <= n THEN n - a + 1 ELSE 0
    BY SubSeqProperties
  <2>3. \A j \in 1..(n - a + 1) : u[j] = s[a + j - 1]
    BY SubSeqProperties
  <2> QED BY ONLY <2>1, <2>2, <2>3
<1>2. /\ v \in Seq(S) /\ Len(v) = (IF a <= n THEN n - a + 1 ELSE 0)
      /\ \A j \in 1..(n - a + 1) : v[j] = t[a + j - 1]
  <2>1. v \in Seq(S)
    BY SubSeqProperties
  <2>2. Len(v) = IF a <= n THEN n - a + 1 ELSE 0
    BY SubSeqProperties
  <2>3. \A j \in 1..(n - a + 1) : v[j] = t[a + j - 1]
    BY SubSeqProperties
  <2> QED BY ONLY <2>1, <2>2, <2>3
<1> HIDE DEF u, v
<1>3. ASSUME NEW j \in 1..Len(u) PROVE u[j] = v[j]
  <2>1. j \in 1..(n - a + 1) /\ a + j - 1 \in a..n
    BY <1>1, <1>3
  <2> QED BY <1>1, <1>2, <2>1
<1>4. u = v
  BY <1>1, <1>2, <1>3, SeqEqual
<1> QED BY <1>4 DEF u, v

LEMMA FlatSet ==
  ASSUME NEW B \in Seq(Seq(Elem)), NEW i \in 1..Len(B), NEW b \in Seq(Elem)
  PROVE  /\ [B EXCEPT ![i] = b] \in Seq(Seq(Elem)) /\ Len([B EXCEPT ![i] = b]) = Len(B)
         /\ FlattenSeq([B EXCEPT ![i] = b]) = ElemsBefore(B, i) \o b \o ElemsAfter(B, i)
         /\ b # <<>> /\ (AllFull(B) \/ Len(B) = 1) => AllFull([B EXCEPT ![i] = b])
<1> DEFINE C == [B EXCEPT ![i] = b]
           n == Len(B)
<1>1. /\ C \in Seq(Seq(Elem)) /\ Len(C) = n
      /\ \A j \in 1..n : C[j] = IF j = i THEN b ELSE B[j]
  <2>1. C \in Seq(Seq(Elem))
    BY ExceptSeq
  <2>2. Len(C) = n
    BY ExceptSeq
  <2>3. \A j \in 1..n : C[j] = IF j = i THEN b ELSE B[j]
    BY ExceptSeq
  <2> QED BY ONLY <2>1, <2>2, <2>3
<1> HIDE DEF C
<1>2. n \in Nat /\ \A j \in 1..n : B[j] \in Seq(Elem)
  BY LenProperties, ElementOfSeq
<1>3. C[i] = b /\ i \in 1..Len(C)
  BY <1>1
<1>4. SubSeq(B, 1, i - 1) = SubSeq(C, 1, i - 1)
  <2>1. i - 1 \in Nat /\ \A j \in 1..(i - 1) : B[j] \in Seq(Elem) /\ C[j] = B[j]
    <3>1. i - 1 \in Nat /\ \A j \in 1..(i - 1) : j \in 1..n /\ j # i
      BY <1>2
    <3> QED BY <1>1, <1>2, <3>1
  <2> HIDE DEF n
  <2> QED BY <1>1, <2>1, SubSeqSame
<1>5. SubSeq(B, i + 1, n) = SubSeq(C, i + 1, n)
  <2>1. i + 1 \in Nat /\ \A j \in (i + 1)..n : B[j] \in Seq(Elem) /\ C[j] = B[j]
    <3>1. i + 1 \in Nat /\ \A j \in (i + 1)..n : j \in 1..n /\ j # i
      BY <1>2
    <3> QED BY <1>1, <1>2, <3>1
  <2> HIDE DEF n
  <2> QED BY <1>1, <1>2, <2>1, SubSeqSame
<1>6. ElemsBefore(C, i) = ElemsBefore(B, i) /\ ElemsAfter(C, i) = ElemsAfter(B, i)
  BY <1>1, <1>4, <1>5 DEF ElemsBefore, ElemsAfter
<1>7. FlattenSeq(C) = ElemsBefore(C, i) \o C[i] \o ElemsAfter(C, i)
  BY <1>1, <1>3, FlatAt
<1>8. b # <<>> /\ (AllFull(B) \/ n = 1) => AllFull(C)
  <2>1. n = 1 => \A j \in 1..n : j = i
    OBVIOUS
  <2> QED BY <1>1, <2>1 DEF AllFull, n
<1> QED BY <1>1, <1>3, <1>6, <1>7, <1>8 DEF C

LEMMA BlocksSet ==
  ASSUME NEW ns, NEW B, NEW g, Blocks(ns, B, g), NEW i \in 1..Len(B), NEW nd \in Chunk,
         NEW b \in Seq(Elem), NEW h \in Seq(Unit), i = 1 \/ h = g,
         nd.buf = Gapped(h, i) \o Bytes(b), Len(nd.buf) <= nd.cap
  PROVE  Blocks([ns EXCEPT ![i] = nd], [B EXCEPT ![i] = b], h)
<1> DEFINE C == [B EXCEPT ![i] = b]
           m == [ns EXCEPT ![i] = nd]
           n == Len(B)
<1>1. /\ ns \in Seq(Chunk) /\ B \in Seq(Seq(Elem)) /\ Len(ns) = n
      /\ \A j \in 1..n : ns[j].buf = Gapped(g, j) \o Bytes(B[j]) /\ Len(ns[j].buf) <= ns[j].cap
  BY DEF Blocks
<1>2. /\ C \in Seq(Seq(Elem)) /\ Len(C) = n
      /\ \A j \in 1..n : C[j] = IF j = i THEN b ELSE B[j]
  <2>1. C \in Seq(Seq(Elem))
    BY <1>1, ExceptSeq
  <2>2. Len(C) = n
    BY <1>1, ExceptSeq
  <2>3. \A j \in 1..n : C[j] = IF j = i THEN b ELSE B[j]
    BY <1>1, ExceptSeq
  <2> QED BY ONLY <2>1, <2>2, <2>3
<1>3. /\ m \in Seq(Chunk) /\ Len(m) = n
      /\ \A j \in 1..n : m[j] = IF j = i THEN nd ELSE ns[j]
  <2>0. i \in 1..Len(ns)
    BY <1>1
  <2>1. m \in Seq(Chunk)
    BY <1>1, <2>0, ExceptSeq
  <2>2. Len(m) = Len(ns)
    BY <1>1, <2>0, ExceptSeq
  <2>3. \A j \in 1..Len(ns) : m[j] = IF j = i THEN nd ELSE ns[j]
    BY <1>1, <2>0, ExceptSeq
  <2> HIDE DEF m
  <2> QED BY <1>1, <2>1, <2>2, <2>3
<1> HIDE DEF C, m, n
<1>4. ASSUME NEW j \in 1..n
      PROVE  m[j].buf = Gapped(h, j) \o Bytes(C[j]) /\ Len(m[j].buf) <= m[j].cap
  <2>1. CASE j = i
    BY <1>2, <1>3, <2>1
  <2>2. CASE j # i
    <3>1. Gapped(g, j) = Gapped(h, j)
      BY <2>2 DEF Gapped
    <3> QED BY <1>1, <1>2, <1>3, <2>2, <3>1
  <2> QED BY <2>1, <2>2
<1>5. Blocks(m, C, h)
  BY <1>2, <1>3, <1>4 DEF Blocks
<1> QED BY <1>5 DEF m, C

DequeType == [len : Nat, nodes : Seq(Chunk), leftIdx : Nat]

\* The head holds nothing but the gap.
GapFirst(B, g) ==
  /\ Len(B) > 0 /\ B[1] = <<>> /\ g # <<>>
  /\ \A i \in 2..Len(B) : B[i] # <<>>

\* No node is empty.
NoneEmpty(B, g) == (AllFull(B) /\ (B = <<>> => g = <<>>)) \/ GapFirst(B, g)

\* The nodes of q hold B after the gap g.
Laid(q, B, g) ==
  /\ q \in DequeType /\ q.leftIdx = Len(g)
  /\ Blocks(q.nodes, B, g)
  /\ NoneEmpty(B, g)

\* q holds xs.
HoldsElems(q, xs) ==
  \E B, g : Laid(q, B, g) /\ FlattenSeq(B) = xs /\ q.len = Len(xs)

LEMMA LaidNode ==
  ASSUME NEW q, NEW B, NEW g, Laid(q, B, g), NEW i \in 1..Len(B)
  PROVE  /\ q.nodes[i] \in Chunk /\ B[i] \in Seq(Elem) /\ i \in 1..Len(q.nodes)
         /\ Gapped(g, i) \in Seq(Unit)
         /\ q.nodes[i].buf = Gapped(g, i) \o Bytes(B[i])
         /\ Len(q.nodes[i].buf) <= q.nodes[i].cap
<1>1. /\ q.nodes \in Seq(Chunk) /\ B \in Seq(Seq(Elem)) /\ g \in Seq(Unit) /\ Len(q.nodes) = Len(B)
      /\ \A j \in 1..Len(B) : /\ q.nodes[j].buf = Gapped(g, j) \o Bytes(B[j])
                              /\ Len(q.nodes[j].buf) <= q.nodes[j].cap
  BY DEF Laid, Blocks
<1>2. q.nodes[i] \in Chunk /\ B[i] \in Seq(Elem)
  BY <1>1, ElementOfSeq
<1>3. Gapped(g, i) \in Seq(Unit)
  BY <1>1, EmptySeq DEF Gapped
<1> QED BY <1>1, <1>2, <1>3

LEMMA LaidType ==
  ASSUME NEW q, NEW B, NEW g, Laid(q, B, g)
  PROVE  /\ q \in DequeType /\ q.len \in Nat /\ q.nodes \in Seq(Chunk)
         /\ B \in Seq(Seq(Elem)) /\ g \in Seq(Unit) /\ Len(q.nodes) = Len(B) /\ Len(B) \in Nat
         /\ q.leftIdx = Len(g) /\ Len(g) \in Nat
         /\ q = [len |-> q.len, nodes |-> q.nodes, leftIdx |-> q.leftIdx]
         /\ FlattenSeq(B) \in Seq(Elem)
<1>1. q \in DequeType /\ q.leftIdx = Len(g) /\ B \in Seq(Seq(Elem)) /\ g \in Seq(Unit) /\ Len(q.nodes) = Len(B)
  BY DEF Laid, Blocks
<1>2. q.len \in Nat /\ q.nodes \in Seq(Chunk) /\ q = [len |-> q.len, nodes |-> q.nodes, leftIdx |-> q.leftIdx]
  BY <1>1 DEF DequeType
<1> QED BY <1>1, <1>2, FlattenType, LenProperties

\* Blocks of which none is empty are a deque.
LEMMA LaidKept ==
  ASSUME NEW l \in Nat, NEW ns, NEW B, NEW g, Blocks(ns, B, g), NoneEmpty(B, g)
  PROVE  Laid([len |-> l, nodes |-> ns, leftIdx |-> Len(g)], B, g)
<1>1. ns \in Seq(Chunk) /\ Len(g) \in Nat
  BY LenProperties DEF Blocks
<1> DEFINE q == [len |-> l, nodes |-> ns, leftIdx |-> Len(g)]
<1>2. q \in DequeType /\ q.nodes = ns /\ q.leftIdx = Len(g)
  BY <1>1 DEF DequeType
<1> HIDE DEF q
<1>3. Laid(q, B, g)
  BY <1>2 DEF Laid
<1> QED BY <1>3 DEF q

LEMMA LaidFull ==
  ASSUME NEW l \in Nat, NEW ns, NEW B, NEW g, Blocks(ns, B, g), AllFull(B), B = <<>> => g = <<>>
  PROVE  Laid([len |-> l, nodes |-> ns, leftIdx |-> Len(g)], B, g)
<1>1. NoneEmpty(B, g)
  BY DEF NoneEmpty
<1> QED BY <1>1, LaidKept

\* The head has elements, or nothing is in front of it.
LEMMA LaidSome ==
  ASSUME NEW q, NEW B, NEW g, Laid(q, B, g), g = <<>> \/ B[1] # <<>>
  PROVE  AllFull(B) /\ (B = <<>> => g = <<>>)
BY DEF Laid, NoneEmpty, GapFirst

\* The deque has entries and its head is not just a gap: the head has some.
LEMMA HeadHas ==
  ASSUME NEW q, NEW B, NEW g, Laid(q, B, g), q.len > 0, q.len = Len(FlattenSeq(B)), ~GapHead(q)
  PROVE  B[1] # <<>>
<1> SUFFICES ASSUME B[1] = <<>> PROVE FALSE
  OBVIOUS
<1>1. B \in Seq(Seq(Elem)) /\ g \in Seq(Unit) /\ Len(B) \in Nat /\ q.leftIdx = Len(g)
  BY LaidType
<1>2. B # <<>>
  <2>1. Len(FlattenSeq(<<>>)) = 0
    BY FlattenEmpty, EmptySeq
  <2>2. Len(FlattenSeq(B)) # 0
    OBVIOUS
  <2> QED BY <2>1, <2>2
<1>3. 1 \in 1..Len(B)
  BY <1>1, <1>2, EmptySeq
<1>4. q.nodes[1].buf = Gapped(g, 1) \o Bytes(B[1])
  <2> DEFINE i == 1
  <2>1. i \in 1..Len(B)
    BY <1>3
  <2> HIDE DEF i
  <2>2. q.nodes[i].buf = Gapped(g, i) \o Bytes(B[i])
    BY <2>1, LaidNode
  <2> QED BY <2>2 DEF i
<1>5. q.nodes[1].buf = g
  BY <1>1, <1>4, BytesEmpty, ConcatEmptySeq DEF Gapped
<1> QED BY <1>1, <1>5 DEF GapHead

\* A head with entries is not just a gap.
LEMMA FullHead ==
  ASSUME NEW q, NEW B, NEW g, Laid(q, B, g), q.len = Len(FlattenSeq(B)), AllFull(B)
  PROVE  ~GapHead(q)
<1> SUFFICES ASSUME GapHead(q) PROVE FALSE
  OBVIOUS
<1>1. B \in Seq(Seq(Elem)) /\ g \in Seq(Unit) /\ Len(B) \in Nat /\ q.leftIdx = Len(g) /\ Len(g) \in Nat
  BY LaidType
<1>2. B # <<>>
  <2>1. Len(FlattenSeq(<<>>)) = 0
    BY FlattenEmpty, EmptySeq
  <2>2. q.len > 0
    BY DEF GapHead
  <2> QED BY <2>1, <2>2
<1>3. 1 \in 1..Len(B)
  BY <1>1, <1>2, EmptySeq
<1>4. q.nodes[1].buf = Gapped(g, 1) \o Bytes(B[1]) /\ B[1] \in Seq(Elem) /\ B[1] # <<>>
  <2> DEFINE i == 1
  <2>1. i \in 1..Len(B)
    BY <1>3
  <2> HIDE DEF i
  <2>2. q.nodes[i].buf = Gapped(g, i) \o Bytes(B[i]) /\ B[i] \in Seq(Elem)
    BY <2>1, LaidNode
  <2>3. B[i] # <<>>
    BY <2>1 DEF AllFull
  <2> QED BY <2>2, <2>3 DEF i
<1> DEFINE w == Bytes(B[1])
<1>5. w \in Seq(Unit) /\ Len(w) > 0 /\ Len(w) \in Nat
  BY <1>4, BytesType, BytesSome
<1>6. q.nodes[1].buf = g \o w
  BY <1>4 DEF Gapped
<1> HIDE DEF w
<1>7. Len(g \o w) = Len(g) + Len(w)
  BY <1>1, <1>5, JoinLen
<1>8. Len(g \o w) = Len(g)
  BY <1>1, <1>6 DEF GapHead
<1> QED BY ONLY <1>1, <1>5, <1>7, <1>8

\* C's head is that of B, and what is behind it is x or from B.
HeadKept(B, C, x) ==
  /\ Len(C) > 0 /\ C[1] = B[1]
  /\ \A i \in 2..Len(C) : C[i] = x \/ (i \in 2..Len(B) /\ C[i] = B[i])

\* What changes behind the head leaves it a gap.
LEMMA GapStays ==
  ASSUME NEW B, NEW g, GapFirst(B, g), NEW C, NEW x, x # <<>>, HeadKept(B, C, x)
  PROVE  GapFirst(C, g)
<1>1. ASSUME NEW i \in 2..Len(C) PROVE C[i] # <<>>
  <2>1. CASE C[i] = x
    BY <2>1
  <2>2. CASE i \in 2..Len(B) /\ C[i] = B[i]
    <3>1. B[i] # <<>>
      BY <2>2 DEF GapFirst
    <3> QED BY <2>2, <3>1
  <2> QED BY <2>1, <2>2 DEF HeadKept
<1>2. C[1] = <<>> /\ g # <<>> /\ Len(C) > 0
  BY DEF GapFirst, HeadKept
<1> QED BY <1>1, <1>2 DEF GapFirst

LEMMA DequeNodes ==
  ASSUME NEW d, NEW l, NEW ns, NEW k, d = [len |-> l, nodes |-> ns, leftIdx |-> k], NEW i, NEW m
  PROVE  /\ [d EXCEPT !.nodes = m] = [len |-> l, nodes |-> m, leftIdx |-> k]
         /\ [d EXCEPT !.nodes[i] = m] = [len |-> l, nodes |-> [ns EXCEPT ![i] = m], leftIdx |-> k]
<1>1. [d EXCEPT !.nodes = m] = [len |-> l, nodes |-> m, leftIdx |-> k]
  OBVIOUS
<1>2. [d EXCEPT !.nodes[i] = m] = [len |-> l, nodes |-> [ns EXCEPT ![i] = m], leftIdx |-> k]
  OBVIOUS
<1> QED BY ONLY <1>1, <1>2

LEMMA RPushIs ==
  ASSUME NEW q, NEW B, NEW g, Laid(q, B, g), NEW x \in Elem
  PROVE  \E C : /\ Laid(RPush(q, x), C, g) /\ (AllFull(B) => AllFull(C)) /\ C # <<>>
                /\ FlattenSeq(C) = FlattenSeq(B) \o <<x>>
                /\ RPush(q, x).len = q.len + 1
<1> DEFINE e == EncodeDeqEntry(x)
           size == Len(e)
           n == Len(q.nodes)
           tail == q.nodes[n]
           cap == IF size > minDequeNodeSize THEN size ELSE minDequeNodeSize
           nd == Node(e, cap)
           wide == Node(tail.buf \o e,
                        IF tail.cap - Len(tail.buf) < size THEN Len(tail.buf) + size ELSE tail.cap)
           Q(ns) == [len |-> q.len + 1, nodes |-> ns, leftIdx |-> Len(g)]
<1>1. /\ q \in DequeType /\ q.len \in Nat /\ q.nodes \in Seq(Chunk)
      /\ B \in Seq(Seq(Elem)) /\ g \in Seq(Unit) /\ n = Len(B) /\ n \in Nat
      /\ q.leftIdx = Len(g) /\ Len(g) \in Nat
      /\ q = [len |-> q.len, nodes |-> q.nodes, leftIdx |-> q.leftIdx]
      /\ FlattenSeq(B) \in Seq(Elem)
  BY LaidType
<1>2. e \in Seq(Unit) /\ size \in Nat \ {0}
  BY EntrySize
<1>3. /\ n = 0 => RPush(q, x) = Q(<<nd>>)
      /\ n > 0 /\ Len(tail.buf) = tail.cap => RPush(q, x) = Q(Append(q.nodes, nd))
      /\ n > 0 /\ Len(tail.buf) # tail.cap => RPush(q, x) = Q([q.nodes EXCEPT ![n] = wide])
  <2> DEFINE longer == [q EXCEPT !.len = @ + 1]
  <2>1. longer = Q(q.nodes)
    <3> HIDE DEF e, size, tail, cap, nd, wide, n
    <3> QED BY <1>1
  <2>2. RPush(q, x) = CASE n = 0 -> [longer EXCEPT !.nodes = <<nd>>]
                        [] n > 0 /\ Len(tail.buf) = tail.cap -> [longer EXCEPT !.nodes = Append(@, nd)]
                        [] OTHER -> [longer EXCEPT !.nodes[n] = wide]
    BY DEF RPush
  <2> DEFINE p1 == n = 0
             p2 == n > 0 /\ Len(tail.buf) = tail.cap
             r1 == [longer EXCEPT !.nodes = <<nd>>]
             r2 == [longer EXCEPT !.nodes = Append(@, nd)]
             r3 == [longer EXCEPT !.nodes[n] = wide]
  <2>3. RPush(q, x) = CASE p1 -> r1 [] p2 -> r2 [] OTHER -> r3
    BY <2>2
  <2>4. r1 = Q(<<nd>>) /\ r2 = Q(Append(q.nodes, nd)) /\ r3 = Q([q.nodes EXCEPT ![n] = wide])
    <3> HIDE DEF longer, e, size, tail, cap, nd, wide, n
    <3>1. longer = [len |-> q.len + 1, nodes |-> q.nodes, leftIdx |-> Len(g)]
      BY <2>1
    <3>2. longer.nodes = q.nodes
      BY <3>1
    <3>3. r1 = Q(<<nd>>)
      BY <3>1, DequeNodes
    <3>4. r2 = Q(Append(longer.nodes, nd))
      BY SMTT(30), <3>1, DequeNodes
    <3>5. r3 = Q([q.nodes EXCEPT ![n] = wide])
      BY <3>1, DequeNodes
    <3> QED BY ONLY <3>2, <3>3, <3>4, <3>5
  <2>5. p1 => ~p2
    <3> HIDE DEF tail
    <3> QED OBVIOUS
  <2> HIDE DEF r1, r2, r3, Q, nd, wide, tail
  <2>6. /\ p1 => RPush(q, x) = r1
        /\ p2 => RPush(q, x) = r2
        /\ ~p1 /\ ~p2 => RPush(q, x) = r3
    <3> HIDE DEF p1, p2
    <3> QED BY <2>3, <2>5
  <2> HIDE DEF n
  <2> QED BY <2>4, <2>6
<1>4. cap \in Nat /\ size <= cap /\ nd \in Chunk /\ nd.buf = e /\ nd.cap = cap
  <2>1. cap \in Nat /\ size <= cap
    <3> HIDE DEF e, size
    <3> QED BY <1>2, DequeAssumption
  <2> HIDE DEF e, cap
  <2> QED BY <1>2, <2>1 DEF Chunk, Node
<1>5. /\ <<x>> \in Seq(Elem) /\ <<x>> # <<>> /\ Bytes(<<x>>) = e
  BY OneType, BytesOne
<1>6. \A ns : Q(ns).len = q.len + 1
  OBVIOUS
<1>7. ASSUME NEW ns, NEW C, Blocks(ns, C, g), NoneEmpty(C, g), RPush(q, x) = Q(ns)
      PROVE  Laid(RPush(q, x), C, g) /\ RPush(q, x).len = q.len + 1
  <2>1. q.len + 1 \in Nat
    BY <1>1
  <2>2. Laid([len |-> q.len + 1, nodes |-> ns, leftIdx |-> Len(g)], C, g)
    <3> HIDE DEF n
    <3> QED BY <1>7, <2>1, LaidKept
  <2> QED BY <1>7, <2>2
<1> HIDE DEF Q, nd, wide, e, size, cap
\* The new node alone.
<1>8. Blocks(<<nd>>, <<<<x>>>>, <<>>) /\ AllFull(<<<<x>>>>) /\ FlattenSeq(<<<<x>>>>) = <<x>>
  <2>1. <<>> \o e = e /\ <<>> \in Seq(Unit)
    BY <1>2, ConcatEmptySeq, EmptySeq
  <2>2. nd.buf = <<>> \o Bytes(<<x>>) /\ Len(nd.buf) <= nd.cap
    BY <1>4, <1>5, <2>1 DEF size
  <2>3. Blocks(<<nd>>, <<<<x>>>>, <<>>)
    BY <1>4, <1>5, <2>1, <2>2, BlocksOne
  <2> QED BY <1>5, <2>3, FullOne, FlattenOne
<1>9. CASE n = 0
  <2>1. B = <<>> /\ RPush(q, x) = Q(<<nd>>)
    BY <1>1, <1>3, <1>9, EmptySeq
  <2>2. g = <<>>
    <3>1. ~GapFirst(B, g)
      BY <2>1, EmptySeq DEF GapFirst
    <3> QED BY <2>1, <3>1 DEF Laid, NoneEmpty
  <2>3. FlattenSeq(<<<<x>>>>) = FlattenSeq(B) \o <<x>>
    BY <1>5, <1>8, <2>1, FlattenEmpty, ConcatEmptySeq
  <2>4. <<<<x>>>> # <<>>
    OBVIOUS
  <2>5. NoneEmpty(<<<<x>>>>, g)
    BY <1>8, <2>2 DEF NoneEmpty
  <2> QED BY <1>7, <1>8, <2>1, <2>2, <2>3, <2>4, <2>5
<1>10. CASE n > 0 /\ Len(tail.buf) = tail.cap
  <2> DEFINE C == Append(B, <<x>>)
             ns == Append(q.nodes, nd)
  <2>1. RPush(q, x) = Q(ns)
    BY <1>3, <1>10
  <2>2. B # <<>> /\ q.nodes # <<>>
    BY <1>1, <1>10, EmptySeq
  <2>4. C = B \o <<<<x>>>> /\ <<<<x>>>> \in Seq(Seq(Elem))
    BY <1>1, <1>5, AppendIsConcat, OneType
  <2>5. ns = q.nodes \o <<nd>>
    BY <1>1, <1>4, AppendIsConcat
  <2> HIDE DEF C, ns
  <2>6. Blocks(ns, C, g)
    <3>1. Blocks(q.nodes, B, g)
      BY DEF Laid
    <3>2. Blocks(q.nodes \o <<nd>>, B \o <<<<x>>>>, g)
      BY <1>8, <2>2, <3>1, BlocksJoin
    <3> QED BY <2>4, <2>5, <3>2
  <2>7. AllFull(B) => AllFull(C)
    BY <1>1, <1>8, <2>4, FullJoin
  <2>8. FlattenSeq(C) = FlattenSeq(B) \o <<x>>
    BY <1>1, <1>5, FlattenAppend DEF C
  <2>9. C # <<>>
    <3>1. C \in Seq(Seq(Elem)) /\ Len(C) = Len(B) + 1
      BY <1>1, <1>5, AppendProperties DEF C
    <3>2. Len(C) # 0
      BY <1>1, <3>1
    <3> QED BY <3>2, EmptySeq
  <2>10. NoneEmpty(C, g)
    <3>1. CASE AllFull(B)
      BY <2>7, <2>9, <3>1 DEF NoneEmpty
    <3>2. CASE GapFirst(B, g)
      <4>1. Len(C) = Len(B) + 1 /\ C[Len(B) + 1] = <<x>> /\ \A i \in 1..Len(B) : C[i] = B[i]
        BY <1>1, <1>5, AppendProperties DEF C
      <4>2. Len(B) \in Nat /\ Len(B) > 0
        BY <1>1, <3>2 DEF GapFirst
      <4> DEFINE y == <<x>>
      <4>3. y # <<>> /\ C[Len(B) + 1] = y
        BY <1>5, <4>1
      <4> HIDE DEF y, n
      <4>4. C[1] = B[1] /\ Len(C) > 0 /\ Len(C) \in Nat
        BY <4>1, <4>2
      <4>5. \A i \in 2..Len(C) : C[i] = y \/ (i \in 2..Len(B) /\ C[i] = B[i])
        BY ONLY <4>1, <4>2, <4>3
      <4>6. GapFirst(C, g)
        <5>1. HeadKept(B, C, y)
          BY ONLY <4>4, <4>5 DEF HeadKept
        <5> QED BY <3>2, <4>3, <5>1, GapStays
      <4> QED BY <4>6 DEF NoneEmpty
    <3> QED BY <3>1, <3>2 DEF Laid, NoneEmpty
  <2> QED BY <1>7, <2>1, <2>6, <2>7, <2>8, <2>9, <2>10
<1>11. CASE n > 0 /\ Len(tail.buf) # tail.cap
  <2> DEFINE b == B[n]
             c == b \o <<x>>
             C == [B EXCEPT ![n] = c]
             ns == [q.nodes EXCEPT ![n] = wide]
  <2>1. RPush(q, x) = Q(ns)
    BY <1>3, <1>11
  <2>2. n \in 1..Len(B)
    BY <1>1, <1>11
  <2>3. /\ tail \in Chunk /\ b \in Seq(Elem) /\ Gapped(g, n) \in Seq(Unit)
        /\ tail.buf = Gapped(g, n) \o Bytes(b) /\ Len(tail.buf) <= tail.cap
    BY <2>2, LaidNode
  <2> HIDE DEF b, tail
  <2>4. tail.buf \in Seq(Unit) /\ tail.cap \in Nat /\ Len(tail.buf) \in Nat
    BY <2>3, LenProperties DEF Chunk
  <2>5. tail.buf \o e \in Seq(Unit) /\ Len(tail.buf \o e) = Len(tail.buf) + size
    BY <1>2, <2>4, JoinLen DEF size
  <2>6. wide \in Chunk /\ wide.buf = tail.buf \o e /\ Len(wide.buf) <= wide.cap
    <3> DEFINE k == IF tail.cap - Len(tail.buf) < size THEN Len(tail.buf) + size ELSE tail.cap
    <3>1. k \in Nat /\ Len(tail.buf) + size <= k
      BY <1>2, <2>4 DEF size
    <3>2. wide = [buf |-> tail.buf \o e, cap |-> k]
      BY DEF wide, Node, size
    <3> HIDE DEF k
    <3> QED BY <2>5, <3>1, <3>2 DEF Chunk
  <2>7. c \in Seq(Elem) /\ c # <<>> /\ Bytes(c) = Bytes(b) \o e
    <3>1. c \in Seq(Elem) /\ Len(c) = Len(b) + 1 /\ Len(b) \in Nat
      BY <1>5, <2>3, OneType, JoinLen
    <3>2. Bytes(c) = Bytes(b) \o e
      BY <1>5, <2>3, BytesJoin
    <3> HIDE DEF c
    <3>3. c # <<>>
      BY <3>1, EmptySeq
    <3> QED BY <3>1, <3>2, <3>3
  <2>8. wide.buf = Gapped(g, n) \o Bytes(c)
    <3>1. Bytes(b) \in Seq(Unit)
      BY <2>3, BytesType
    <3>2. (Gapped(g, n) \o Bytes(b)) \o e = Gapped(g, n) \o (Bytes(b) \o e)
      BY SMTT(30), <1>2, <2>3, <3>1, JoinAssoc
    <3> HIDE DEF c
    <3> QED BY <2>3, <2>6, <2>7, <3>2
  <2>9. Blocks(ns, C, g)
    <3> HIDE DEF c, n
    <3>1. Blocks(q.nodes, B, g)
      BY DEF Laid
    <3> QED BY <1>1, <2>2, <2>6, <2>7, <2>8, <3>1, BlocksSet
  <2>10. /\ C \in Seq(Seq(Elem)) /\ Len(C) = Len(B)
         /\ FlattenSeq(C) = ElemsBefore(B, n) \o c \o ElemsAfter(B, n)
         /\ AllFull(B) \/ Len(B) = 1 => AllFull(C)
    <3> HIDE DEF c, n
    <3> QED BY <1>1, <2>2, <2>7, FlatSet
  <2>11. /\ ElemsBefore(B, n) \in Seq(Elem) /\ ElemsAfter(B, n) = <<>>
         /\ FlattenSeq(B) = ElemsBefore(B, n) \o b \o ElemsAfter(B, n)
    <3> HIDE DEF c, C, ns, n
    <3> QED BY <1>1, <2>2, FlatAt DEF b
  <2>13. C # <<>>
    <3> HIDE DEF C
    <3> QED BY <2>2, <2>10, EmptySeq
  <2>12. NoneEmpty(C, g)
    <3>1. CASE AllFull(B) \/ Len(B) = 1
      <4> HIDE DEF C
      <4> QED BY <2>10, <2>13, <3>1 DEF NoneEmpty
    <3>2. CASE GapFirst(B, g) /\ Len(B) # 1
      <4>1. \A i \in 1..Len(B) : C[i] = IF i = n THEN c ELSE B[i]
        <5> HIDE DEF c, n
        <5> QED BY <1>1, <2>2, <2>7, ExceptSeq
      <4>2. Len(C) = Len(B) /\ Len(B) \in Nat /\ Len(B) > 0 /\ n # 1 /\ c # <<>>
        BY <1>1, <2>2, <2>7, <2>10, <3>2
      <4> HIDE DEF C, c, n
      <4>3. C[1] = B[1] /\ \A i \in 2..Len(C) : C[i] = c \/ (i \in 2..Len(B) /\ C[i] = B[i])
        BY ONLY <4>1, <4>2
      <4>4. GapFirst(C, g)
        <5>1. Len(C) > 0
          BY <4>2
        <5>2. HeadKept(B, C, c)
          BY ONLY <4>3, <5>1 DEF HeadKept
        <5> QED BY <3>2, <4>2, <5>2, GapStays
      <4> QED BY <4>4 DEF NoneEmpty
    <3> QED BY <3>1, <3>2 DEF Laid, NoneEmpty
  <2>14. FlattenSeq(C) = FlattenSeq(B) \o <<x>>
    <3> DEFINE s == ElemsBefore(B, n)
    <3> HIDE DEF s, C, n
    <3>1. s \o b \in Seq(Elem) /\ s \o c \in Seq(Elem)
      BY <2>3, <2>7, <2>11, JoinLen DEF s
    <3>2. (s \o b) \o <<>> = s \o b /\ (s \o c) \o <<>> = s \o c
      BY <3>1, ConcatEmptySeq
    <3>3. (s \o b) \o <<x>> = s \o c
      BY SMTT(30), <1>5, <2>3, <2>11, JoinAssoc DEF s
    <3> HIDE DEF c
    <3> QED BY <2>10, <2>11, <3>2, <3>3 DEF s
  <2> HIDE DEF C, ns
  <2> QED BY <1>7, <2>1, <2>9, <2>10, <2>12, <2>13, <2>14
<1>12. n = 0 \/ n > 0
  BY <1>1
<1> HIDE DEF n, tail
<1> QED BY <1>9, <1>10, <1>11, <1>12

\* Writing e over v.
Overwrites(u, v, w, e) == Written(u \o v \o w, Len(u), e) = u \o e \o w

LEMMA WrittenIs ==
  ASSUME NEW u, u \in Seq(Unit), NEW v, v \in Seq(Unit), NEW w, w \in Seq(Unit),
         NEW e, e \in Seq(Unit), Len(e) = Len(v)
  PROVE  Overwrites(u, v, w, e)
<1> DEFINE a == Len(u)
           k == Len(v)
           c == Len(w)
           s == u \o v
           t == u \o e
           buf == s \o w
           res == t \o w
<1>1. a \in Nat /\ k \in Nat /\ c \in Nat
  BY LenProperties
<1>2. s \in Seq(Unit) /\ Len(s) = a + k /\ \A i \in 1..(a + k) : s[i] = IF i <= a THEN u[i] ELSE v[i - a]
  <2>1. s \in Seq(Unit)
    BY ConcatProperties
  <2>2. Len(s) = a + k
    BY ConcatProperties
  <2>3. \A i \in 1..(a + k) : s[i] = IF i <= a THEN u[i] ELSE v[i - a]
    BY ConcatProperties
  <2> QED BY ONLY <2>1, <2>2, <2>3
<1>3. t \in Seq(Unit) /\ Len(t) = a + k /\ \A i \in 1..(a + k) : t[i] = IF i <= a THEN u[i] ELSE e[i - a]
  <2>1. t \in Seq(Unit)
    BY ConcatProperties
  <2>2. Len(t) = a + Len(e)
    BY ConcatProperties
  <2>3. \A i \in 1..(a + Len(e)) : t[i] = IF i <= a THEN u[i] ELSE e[i - a]
    BY ConcatProperties
  <2> QED BY <2>1, <2>2, <2>3
<1> HIDE DEF a, k, c, s, t
<1>4. Len(buf) = (a + k) + c /\ \A i \in 1..((a + k) + c) : buf[i] = IF i <= a + k THEN s[i] ELSE w[i - (a + k)]
  BY <1>2, ConcatProperties DEF c
<1>5. res \in Seq(Unit) /\ Len(res) = (a + k) + c
      /\ \A i \in 1..((a + k) + c) : res[i] = IF i <= a + k THEN t[i] ELSE w[i - (a + k)]
  BY <1>3, ConcatProperties DEF c
<1> HIDE DEF buf, res
<1>6. Written(buf, a, e) = [j \in 1..((a + k) + c) |-> IF j \in (a + 1)..(a + k) THEN e[j - a] ELSE buf[j]]
  BY <1>4 DEF Written, k
<1>7. ASSUME NEW j \in 1..((a + k) + c)
      PROVE  res[j] = IF j \in (a + 1)..(a + k) THEN e[j - a] ELSE buf[j]
  <2>1. CASE j <= a
    <3>1. j \in 1..(a + k) /\ j <= a + k /\ j \notin (a + 1)..(a + k)
      BY <1>1, <2>1
    <3> QED BY <1>2, <1>3, <1>4, <1>5, <2>1, <3>1
  <2>2. CASE j \in (a + 1)..(a + k)
    <3>1. j \in 1..(a + k) /\ j <= a + k /\ ~(j <= a)
      BY <1>1, <2>2
    <3> QED BY <1>3, <1>5, <2>2, <3>1
  <2>3. CASE ~(j <= a + k)
    <3>1. j \notin (a + 1)..(a + k)
      BY <1>1, <2>3
    <3> QED BY <1>4, <1>5, <2>3, <3>1
  <2> QED BY <1>1, <2>1, <2>2, <2>3
<1>8. res = [j \in 1..((a + k) + c) |-> res[j]]
  BY <1>5, LenProperties
<1>9. Written(buf, a, e) = res
  BY <1>6, <1>7, <1>8
<1> QED BY <1>9 DEF buf, a, res, s, t, Overwrites

LEMMA GapIs ==
  ASSUME NEW n \in Nat
  PROVE  Gap(n) \in Seq(Unit) /\ Len(Gap(n)) = n
<1>1. <<"gap">> \in Unit
  BY DEF Unit
<1>2. Gap(n) \in [1..n -> Unit]
  BY <1>1 DEF Gap
<1> QED BY <1>2

LEMMA NodeBuf ==
  ASSUME NEW ns \in Seq(Chunk), NEW i \in 1..Len(ns), NEW m
  PROVE  [ns EXCEPT ![i].buf = m] = [ns EXCEPT ![i] = Node(m, ns[i].cap)]
<1> DEFINE nd == ns[i]
<1>1. nd \in Chunk
  BY ElementOfSeq
<1>2. [nd EXCEPT !.buf = m] = [buf |-> m, cap |-> nd.cap]
  <2> HIDE DEF nd
  <2>1. nd \in [buf : Seq(Unit), cap : Nat]
    BY <1>1 DEF Chunk
  <2> DEFINE S == Seq(Unit)
  <2> HIDE DEF S
  <2>2. nd \in [buf : S, cap : Nat]
    BY <2>1 DEF S
  <2> QED BY ONLY <2>2
<1>3. [ns EXCEPT ![i] = [ns[i] EXCEPT !.buf = m]] = [ns EXCEPT ![i] = [buf |-> m, cap |-> ns[i].cap]]
  BY <1>2
<1> QED BY <1>3 DEF Node

\* q with another head.
HeadSet(q, nd, l, i) == [len |-> l, nodes |-> [q.nodes EXCEPT ![1] = nd], leftIdx |-> i]

\* With nd as its head and h before its first element, q holds x and then
\* what is in B.
Headed(q, nd, h, B, x) ==
  \E C : /\ Laid(HeadSet(q, nd, q.len + 1, Len(h)), C, h)
         /\ FlattenSeq(C) = <<x>> \o FlattenSeq(B)

\* The first node replaced by one with x before its elements.
LEMMA FirstPushed ==
  ASSUME NEW q, NEW B, NEW g, Laid(q, B, g), B # <<>>, NEW x, x \in Elem, NEW h, h \in Seq(Unit),
         NEW nd, nd \in Chunk, nd.buf = h \o Bytes(<<x>> \o B[1]), Len(nd.buf) <= nd.cap
  PROVE  Headed(q, nd, h, B, x)
<1> DEFINE b == B[1]
           c == <<x>> \o b
           C == [B EXCEPT ![1] = c]
           ns == [q.nodes EXCEPT ![1] = nd]
           t == ElemsAfter(B, 1)
<1>1. q.len \in Nat /\ B \in Seq(Seq(Elem)) /\ Len(B) \in Nat
  BY LaidType
<1>2. 1 \in 1..Len(B)
  BY <1>1, EmptySeq
<1>3. b \in Seq(Elem) /\ <<x>> \in Seq(Elem)
  BY <1>2, LaidNode, OneType
<1>4. c \in Seq(Elem) /\ c # <<>>
  <2>1. c \in Seq(Elem) /\ Len(c) = 1 + Len(b) /\ Len(b) \in Nat
    BY <1>3, OneType, JoinLen
  <2> HIDE DEF c
  <2>2. Len(c) # 0
    BY <2>1
  <2> QED BY <2>1, <2>2, EmptySeq
<1>5. Gapped(h, 1) = h /\ Blocks(q.nodes, B, g)
  BY DEF Gapped, Laid
<1>6. Blocks(ns, C, h)
  <2> HIDE DEF b
  <2>1. nd.buf = Gapped(h, 1) \o Bytes(c)
    BY <1>5 DEF b
  <2> HIDE DEF c
  <2> QED BY <1>2, <1>4, <1>5, <2>1, BlocksSet
<1>7. /\ C \in Seq(Seq(Elem)) /\ Len(C) = Len(B)
      /\ FlattenSeq(C) = ElemsBefore(B, 1) \o c \o ElemsAfter(B, 1)
      /\ AllFull(B) \/ Len(B) = 1 => AllFull(C)
  <2> HIDE DEF c
  <2> QED BY <1>1, <1>2, <1>4, FlatSet
<1>8. /\ ElemsBefore(B, 1) = <<>> /\ ElemsAfter(B, 1) \in Seq(Elem)
      /\ FlattenSeq(B) = ElemsBefore(B, 1) \o b \o ElemsAfter(B, 1)
  <2> HIDE DEF c, C
  <2> QED BY <1>1, <1>2, FlatAt DEF b
<1>9. AllFull(C)
  <2>1. \A i \in 2..Len(B) : B[i] # <<>>
    BY <1>1 DEF Laid, NoneEmpty, AllFull, GapFirst
  <2>2. \A i \in 1..Len(B) : C[i] = IF i = 1 THEN c ELSE B[i]
    <3> HIDE DEF c
    <3> QED BY <1>1, <1>2, <1>4, ExceptSeq
  <2> HIDE DEF C, c, b, ns, t
  <2> SUFFICES ASSUME NEW i \in 1..Len(B) PROVE C[i] # <<>>
    BY <1>7 DEF AllFull
  <2>3. CASE i = 1
    BY <1>4, <2>2, <2>3
  <2>4. CASE i # 1
    <3>1. i \in 2..Len(B)
      BY <1>1, <2>4
    <3> QED BY <2>1, <2>2, <2>4, <3>1
  <2> QED BY <2>3, <2>4
<1>10. C # <<>>
  <2> HIDE DEF C
  <2> QED BY <1>2, <1>7, EmptySeq
<1>11. FlattenSeq(C) = <<x>> \o FlattenSeq(B)
  <2> HIDE DEF C, b
  <2>1. <<>> \o b = b /\ <<>> \o c = c
    BY <1>3, <1>4, ConcatEmptySeq DEF b
  <2>2. (<<x>> \o b) \o t = <<x>> \o (b \o t)
    <3>1. b \in Seq(Elem) /\ <<x>> \in Seq(Elem) /\ t \in Seq(Elem)
      BY <1>3, <1>8 DEF b
    <3> HIDE DEF t
    <3> QED BY <3>1, JoinAssoc
  <2> HIDE DEF t
  <2>3. FlattenSeq(C) = (<<x>> \o b) \o t /\ FlattenSeq(B) = b \o t
    BY <1>7, <1>8, <2>1 DEF t
  <2> QED BY ONLY <2>2, <2>3
<1> HIDE DEF C, ns
<1>12. Laid([len |-> q.len + 1, nodes |-> ns, leftIdx |-> Len(h)], C, h)
  <2>1. q.len + 1 \in Nat
    BY <1>1
  <2> QED BY <1>6, <1>9, <1>10, <2>1, LaidFull
<1> QED BY <1>11, <1>12 DEF ns, HeadSet, Headed

\* d with m as its i-th buffer.
BufSet(d, i, m) == [d EXCEPT !.nodes[i].buf = m]

\* ns with nd as its i-th node.
NodeSet(ns, i, nd) == [ns EXCEPT ![i] = nd]

\* The same, when a buffer is replaced.
LEMMA DequeBuf ==
  ASSUME NEW d, NEW l, NEW ns, NEW k, d = [len |-> l, nodes |-> ns, leftIdx |-> k],
         ns \in Seq(Chunk), NEW i, i \in 1..Len(ns), NEW m
  PROVE  BufSet(d, i, m) = [len |-> l, nodes |-> NodeSet(ns, i, Node(m, ns[i].cap)), leftIdx |-> k]
<1>1. d.nodes = ns
  OBVIOUS
<1>2. [d EXCEPT !.nodes[i].buf = m] = [d EXCEPT !.nodes = [ns EXCEPT ![i].buf = m]]
  BY <1>1
<1>3. [ns EXCEPT ![i].buf = m] = [ns EXCEPT ![i] = Node(m, ns[i].cap)]
  BY NodeBuf
<1> DEFINE t == [ns EXCEPT ![i].buf = m]
<1> HIDE DEF t
<1>4. [d EXCEPT !.nodes = t] = [len |-> l, nodes |-> t, leftIdx |-> k]
  BY DequeNodes
<1>5. t = [ns EXCEPT ![i] = Node(m, ns[i].cap)]
  BY <1>3 DEF t
<1>6. [d EXCEPT !.nodes[i].buf = m] = [d EXCEPT !.nodes = t]
  BY <1>2 DEF t
<1>7. [d EXCEPT !.nodes[i].buf = m]
        = [len |-> l, nodes |-> [ns EXCEPT ![i] = Node(m, ns[i].cap)], leftIdx |-> k]
  BY ONLY <1>4, <1>5, <1>6
<1> QED BY <1>7 DEF BufSet, NodeSet

LEMMA LPushIs ==
  ASSUME NEW q, NEW B, NEW g, Laid(q, B, g), NEW x \in Elem
  PROVE  \E C, h : /\ Laid(LPush(q, x), C, h)
                   /\ FlattenSeq(C) = <<x>> \o FlattenSeq(B)
                   /\ LPush(q, x).len = q.len + 1
<1> DEFINE e == EncodeDeqEntry(x)
           size == Len(e)
           head == q.nodes[1]
           kept == SubSeq(head.buf, q.leftIdx + 1, Len(head.buf))
           room == size + minDequeNodeSize - q.leftIdx
           cap == IF size > minDequeNodeSize THEN size ELSE minDequeNodeSize
           longer == [q EXCEPT !.len = @ + 1]
           left == q.leftIdx - size
           nd1 == Node(Written(head.buf, left, e), head.cap)
           nd2 == IF size + Len(kept) <= room THEN Node(e \o kept, room) ELSE Copied(e \o kept)
           nd3 == Node(Gap(cap - size) \o e, cap)
           p1 == q.leftIdx >= size
           p2 == q.leftIdx \in 1..(size - 1)
           r1 == [longer EXCEPT !.leftIdx = @ - size, !.nodes[1].buf = Written(@, q.leftIdx - size, e)]
           r2 == [longer EXCEPT !.leftIdx = 0, !.nodes[1] = nd2]
           r3 == [longer EXCEPT !.leftIdx = cap - size, !.nodes = <<nd3>> \o @]
           res == LPush(q, x)
<1>1. /\ q \in DequeType /\ q.len \in Nat /\ q.nodes \in Seq(Chunk)
      /\ B \in Seq(Seq(Elem)) /\ g \in Seq(Unit) /\ Len(q.nodes) = Len(B) /\ Len(B) \in Nat
      /\ q.leftIdx = Len(g) /\ Len(g) \in Nat
      /\ q = [len |-> q.len, nodes |-> q.nodes, leftIdx |-> q.leftIdx]
      /\ FlattenSeq(B) \in Seq(Elem)
  BY LaidType
<1>2. e \in Seq(Unit) /\ size \in Nat \ {0}
  BY EntrySize
<1>3. res = CASE p1 -> r1 [] p2 -> r2 [] OTHER -> r3
  BY DEF LPush
<1>4. longer = [len |-> q.len + 1, nodes |-> q.nodes, leftIdx |-> q.leftIdx]
  BY <1>1
<1>5. longer.nodes = q.nodes /\ longer.leftIdx = q.leftIdx
  <2> HIDE DEF longer
  <2> QED BY <1>4
<1>6. r2 = HeadSet(q, nd2, q.len + 1, 0)
  <2> HIDE DEF longer, nd2
  <2> DEFINE moved == [longer EXCEPT !.leftIdx = 0]
  <2>1. moved = [len |-> q.len + 1, nodes |-> q.nodes, leftIdx |-> 0]
    BY <1>4
  <2>2. r2 = [moved EXCEPT !.nodes[1] = nd2]
    OBVIOUS
  <2> HIDE DEF moved
  <2>3. [moved EXCEPT !.nodes[1] = nd2]
          = [len |-> q.len + 1, nodes |-> [q.nodes EXCEPT ![1] = nd2], leftIdx |-> 0]
    BY <2>1, DequeNodes
  <2> HIDE DEF r2
  <2> QED BY <2>2, <2>3 DEF HeadSet
<1>7. r3 = [len |-> q.len + 1, nodes |-> <<nd3>> \o q.nodes, leftIdx |-> cap - size]
  <2> DEFINE t == <<nd3>> \o q.nodes
             j == cap - size
  <2> HIDE DEF longer, nd3, cap, size
  <2> DEFINE moved == [longer EXCEPT !.leftIdx = j]
  <2>1. r3 = [longer EXCEPT !.leftIdx = j, !.nodes = t]
    BY <1>5
  <2> HIDE DEF r3, t, j
  <2>2. moved = [len |-> q.len + 1, nodes |-> q.nodes, leftIdx |-> j]
    BY <1>4
  <2>3. r3 = [moved EXCEPT !.nodes = t]
    BY <2>1
  <2> HIDE DEF moved
  <2>4. [moved EXCEPT !.nodes = t] = [len |-> q.len + 1, nodes |-> t, leftIdx |-> j]
    BY <2>2, DequeNodes
  <2> QED BY <2>3, <2>4 DEF t, j
<1>8. ASSUME 1 \in 1..Len(q.nodes) PROVE r1 = HeadSet(q, nd1, q.len + 1, left)
  <2>1. longer.nodes[1].buf = head.buf
    BY <1>5
  <2> DEFINE m == Written(head.buf, left, e)
             moved == [longer EXCEPT !.leftIdx = left]
  <2>2. nd1 = Node(m, q.nodes[1].cap)
    OBVIOUS
  <2> HIDE DEF longer, size, e
  <2>3. r1 = [longer EXCEPT !.leftIdx = left, !.nodes[1].buf = m]
    BY <1>5, <2>1
  <2> HIDE DEF m, nd1, left, head, r1, kept
  <2>4. moved = [len |-> q.len + 1, nodes |-> q.nodes, leftIdx |-> left]
    BY <1>4
  <2>5. r1 = [moved EXCEPT !.nodes[1].buf = m]
    BY <2>3
  <2> HIDE DEF moved
  <2>6. BufSet(moved, 1, m)
          = [len |-> q.len + 1, nodes |-> NodeSet(q.nodes, 1, Node(m, q.nodes[1].cap)), leftIdx |-> left]
    <3> DEFINE n1 == q.len + 1
    <3> HIDE DEF n1
    <3>1. moved = [len |-> n1, nodes |-> q.nodes, leftIdx |-> left]
      BY <2>4 DEF n1
    <3>2. q.nodes \in Seq(Chunk) /\ 1 \in 1..Len(q.nodes)
      BY <1>1, <1>8
    <3>3. BufSet(moved, 1, m)
            = [len |-> n1, nodes |-> NodeSet(q.nodes, 1, Node(m, q.nodes[1].cap)), leftIdx |-> left]
      BY <3>1, <3>2, DequeBuf
    <3> QED BY <3>3 DEF n1
  <2>7. [moved EXCEPT !.nodes[1].buf = m]
          = [len |-> q.len + 1, nodes |-> [q.nodes EXCEPT ![1] = Node(m, q.nodes[1].cap)], leftIdx |-> left]
    BY <2>6 DEF BufSet, NodeSet
  <2> QED BY <2>2, <2>5, <2>7 DEF HeadSet
<1>9. B # <<>> => 1 \in 1..Len(q.nodes) /\ 1 \in 1..Len(B)
  BY <1>1, EmptySeq
<1>10. B = <<>> => q.leftIdx = 0
  <2>1. <<>> # <<<<>>>>
    OBVIOUS
  <2> QED BY <1>1, <2>1, EmptySeq DEF Laid, NoneEmpty, GapFirst
<1> HIDE DEF r1, r2, r3, longer, nd1, nd2, nd3, kept, head, res
<1>11. B # <<>> => /\ head \in Chunk /\ B[1] \in Seq(Elem) /\ head.buf = g \o Bytes(B[1])
                   /\ Len(head.buf) <= head.cap
  <2> SUFFICES ASSUME B # <<>>
               PROVE  /\ head \in Chunk /\ B[1] \in Seq(Elem) /\ head.buf = g \o Bytes(B[1])
                      /\ Len(head.buf) <= head.cap
    OBVIOUS
  <2>1. Gapped(g, 1) = g
    BY DEF Gapped
  <2>2. 1 \in 1..Len(B)
    BY <1>9
  <2>3. /\ q.nodes[1] \in Chunk /\ B[1] \in Seq(Elem) /\ q.nodes[1].buf = Gapped(g, 1) \o Bytes(B[1])
        /\ Len(q.nodes[1].buf) <= q.nodes[1].cap
    BY <2>2, LaidNode
  <2> QED BY <2>1, <2>3 DEF head
<1>12. <<x>> \in Seq(Elem) /\ (B # <<>> => Bytes(<<x>> \o B[1]) = e \o Bytes(B[1]) /\ Bytes(B[1]) \in Seq(Unit))
  <2>1. <<x>> \in Seq(Elem)
    BY OneType
  <2> QED BY <1>11, <2>1, BytesJoin, BytesOne, BytesType
<1> HIDE DEF e
\* The entry fits into the gap.
<1>13. CASE p1
  <2>1. B # <<>> /\ res = r1
    <3>1. B # <<>>
      BY <1>2, <1>10, <1>13
    <3>2. ~p2
      BY <1>2, <1>13
    <3> HIDE DEF p1, p2
    <3> QED BY <1>3, <1>13, <3>1, <3>2
  <2> DEFINE u == SubSeq(g, 1, left)
             v == SubSeq(g, left + 1, Len(g))
             w == Bytes(B[1])
  <2>2. left \in 0..Len(g)
    BY <1>1, <1>2, <1>13
  <2>3. /\ u \in Seq(Unit) /\ Len(u) = left /\ v \in Seq(Unit) /\ Len(v) = Len(g) - left
        /\ g = u \o v
    <3> HIDE DEF left
    <3> QED BY <1>1, <2>2, CutAt
  <2>4. Len(e) = Len(v)
    <3>1. Len(g) - left = size
      BY <1>1, <1>2
    <3> QED BY <2>3, <3>1
  <2> HIDE DEF u, v
  <2>5. Written(u \o v \o w, Len(u), e) = u \o e \o w
    <3>1. w \in Seq(Unit)
      BY <1>12, <2>1
    <3> HIDE DEF w, left
    <3>2. u \in Seq(Unit) /\ v \in Seq(Unit) /\ e \in Seq(Unit)
      BY <1>2, <2>3
    <3>3. Overwrites(u, v, w, e)
      BY <2>4, <3>1, <3>2, WrittenIs
    <3> QED BY <3>3 DEF Overwrites
  <2>6. nd1.buf = u \o (e \o w) /\ nd1.cap = head.cap
    <3>1. (u \o e) \o w = u \o (e \o w)
      BY SMTT(30), <1>2, <1>12, <2>1, <2>3, JoinAssoc
    <3>2. head.buf = u \o v \o w
      BY <1>11, <2>1, <2>3
    <3>3. Written(head.buf, left, e) = u \o (e \o w)
      <4> HIDE DEF left, w
      <4> QED BY ONLY <2>3, <2>5, <3>1, <3>2
    <3> QED BY <3>3 DEF nd1, Node
  <2>7. nd1 \in Chunk /\ Len(nd1.buf) <= nd1.cap
    <3>1. u \o (e \o w) \in Seq(Unit) /\ Len(u \o (e \o w)) = Len(u) + (Len(e) + Len(w))
      BY ZenonT(40), <1>2, <1>12, <2>1, <2>3, JoinLen
    <3>2. Len(head.buf) = Len(g) + Len(w)
      BY <1>1, <1>11, <1>12, <2>1, JoinLen
    <3>3. Len(w) \in Nat /\ head.cap \in Nat
      BY <1>11, <1>12, <2>1, LenProperties DEF Chunk
    <3>4. Len(u) + (Len(e) + Len(w)) = Len(g) + Len(w)
      <4> HIDE DEF w
      <4> QED BY <1>1, <1>2, <2>3, <3>3
    <3>5. Len(nd1.buf) <= nd1.cap
      BY <1>11, <2>1, <2>6, <3>1, <3>2, <3>4
    <3>6. nd1 = [buf |-> nd1.buf, cap |-> nd1.cap]
      BY DEF nd1, Node
    <3>7. nd1.buf \in Seq(Unit) /\ nd1.cap \in Nat
      BY <2>6, <3>1, <3>3
    <3>8. nd1 \in Chunk
      BY <3>6, <3>7 DEF Chunk
    <3> QED BY <3>5, <3>8
  <2>8. Headed(q, nd1, u, B, x)
    <3>1. nd1.buf = u \o Bytes(<<x>> \o B[1])
      BY <1>12, <2>1, <2>6
    <3>2. nd1 \in Chunk /\ Len(nd1.buf) <= nd1.cap /\ u \in Seq(Unit) /\ B # <<>>
      BY <2>1, <2>3, <2>7
    <3> QED BY <3>1, <3>2, FirstPushed
  <2>9. res = HeadSet(q, nd1, q.len + 1, Len(u))
    BY <1>8, <1>9, <2>1, <2>3
  <2>10. res.len = q.len + 1
    BY <2>9 DEF HeadSet
  <2> QED BY <2>8, <2>9, <2>10 DEF res, Headed
\* The gap is too small: the head is copied without it.
<1>14. CASE p2
  <2>1. B # <<>> /\ res = r2
    <3>1. B # <<>>
      BY <1>10, <1>14
    <3>2. ~p1
      BY <1>1, <1>2, <1>14
    <3> HIDE DEF p1, p2
    <3> QED BY <1>3, <1>14, <3>1, <3>2
  <2> DEFINE w == Bytes(B[1])
  <2>2. kept = w
    <3>1. SubSeq(g \o w, Len(g) + 1, Len(g \o w)) = w
      BY <1>1, <1>12, <2>1, CutJoined
    <3> QED BY <1>1, <1>11, <2>1, <3>1 DEF kept
  <2> HIDE DEF w
  <2>3. w \in Seq(Unit) /\ Bytes(<<x>> \o B[1]) = e \o w
    BY <1>12, <2>1 DEF w
  <2>4. e \o w \in Seq(Unit) /\ Len(e \o w) = size + Len(w) /\ Len(w) \in Nat
    BY <1>2, <2>3, JoinLen
  <2>5. nd2 \in Chunk /\ nd2.buf = e \o w /\ Len(nd2.buf) <= nd2.cap
    <3>1. CASE size + Len(w) <= room
      <4>1. nd2 = [buf |-> e \o w, cap |-> room]
        BY <2>2, <3>1 DEF nd2, Node
      <4>2. room \in Int /\ size + Len(w) \in Nat
        BY <1>1, <1>2, <2>4, DequeAssumption
      <4> HIDE DEF room
      <4>3. room \in Nat
        BY <3>1, <4>2
      <4> QED BY <2>4, <3>1, <4>1, <4>3 DEF Chunk
    <3>2. CASE ~(size + Len(w) <= room)
      <4> DEFINE k == Len(e \o w) + Spare
      <4>1. nd2 = [buf |-> e \o w, cap |-> k]
        BY <2>2, <3>2 DEF nd2, Node, Copied
      <4>2. k \in Nat /\ Len(e \o w) <= k
        BY <1>2, <2>4, DequeAssumption
      <4> HIDE DEF k
      <4> QED BY <2>4, <4>1, <4>2 DEF Chunk
    <3> QED BY <3>1, <3>2
  <2>6. <<>> \in Seq(Unit) /\ Len(<<>>) = 0 /\ <<>> \o (e \o w) = e \o w
    BY <2>4, EmptySeq, ConcatEmptySeq
  <2>7. Headed(q, nd2, <<>>, B, x)
    <3>1. nd2.buf = <<>> \o Bytes(<<x>> \o B[1])
      BY <2>3, <2>5, <2>6
    <3>2. nd2 \in Chunk /\ Len(nd2.buf) <= nd2.cap /\ B # <<>> /\ <<>> \in Seq(Unit)
      BY <2>1, <2>5, <2>6
    <3> QED BY <3>1, <3>2, FirstPushed
  <2>8. res = HeadSet(q, nd2, q.len + 1, Len(<<>>))
    BY <1>6, <2>1, <2>6
  <2>9. res.len = q.len + 1
    BY <2>8 DEF HeadSet
  <2> QED BY <2>7, <2>8, <2>9 DEF res, Headed
\* There is no gap: a new head.
<1>15. CASE ~p1 /\ ~p2
  <2>1. q.leftIdx = 0 /\ res = r3
    <3>1. q.leftIdx = 0
      BY <1>1, <1>2, <1>15
    <3> HIDE DEF p1, p2
    <3> QED BY <1>3, <1>15, <3>1
  <2>2. g = <<>>
    BY <1>1, <2>1, EmptySeq
  <2>3. AllFull(B)
    BY <2>2, LaidSome
  <2> DEFINE h == Gap(cap - size)
             b == <<x>>
             C == <<b>> \o B
  <2>4. cap \in Nat /\ cap - size \in Nat /\ size <= cap
    BY <1>2, DequeAssumption
  <2>5. h \in Seq(Unit) /\ Len(h) = cap - size
    <3> HIDE DEF cap, size
    <3> QED BY <2>4, GapIs
  <2>6. h \o e \in Seq(Unit) /\ Len(h \o e) = Len(h) + size
    <3> HIDE DEF h
    <3> QED BY <1>2, <2>5, JoinLen
  <2>7. nd3 = [buf |-> h \o e, cap |-> cap]
    BY DEF nd3, Node
  <2> HIDE DEF cap, h
  <2>8. nd3 \in Chunk /\ Len(nd3.buf) <= nd3.cap
    BY <1>2, <2>4, <2>5, <2>6, <2>7 DEF Chunk
  <2>9. b \in Seq(Elem) /\ b # <<>> /\ nd3.buf = h \o Bytes(b)
    <3>1. Bytes(b) = e
      BY BytesOne DEF e
    <3>2. nd3.buf = h \o e
      BY <2>7
    <3> QED BY <1>12, <3>1, <3>2
  <2> HIDE DEF b
  <2>10. Blocks(<<nd3>>, <<b>>, h)
    BY <2>5, <2>8, <2>9, BlocksOne
  <2>11. Blocks(<<nd3>> \o q.nodes, C, h)
    <3>1. Blocks(q.nodes, B, <<>>)
      BY <2>2 DEF Laid
    <3>2. <<nd3>> # <<>>
      OBVIOUS
    <3> QED BY <2>10, <3>1, <3>2, BlocksJoin
  <2>12. <<b>> \in Seq(Seq(Elem)) /\ AllFull(<<b>>) /\ FlattenSeq(<<b>>) = b
    BY <2>9, OneType, FullOne, FlattenOne
  <2>13. AllFull(C) /\ FlattenSeq(C) = b \o FlattenSeq(B)
    BY <1>1, <2>3, <2>12, FullJoin, FlattenJoin
  <2>14. C # <<>>
    <3>1. Len(C) = Len(<<b>>) + Len(B) /\ Len(<<b>>) = 1
      BY <1>1, <2>12, JoinLen
    <3> HIDE DEF C
    <3>2. Len(C) # 0
      BY <1>1, <3>1
    <3> QED BY <3>2, EmptySeq
  <2> HIDE DEF C
  <2>15. Laid([len |-> q.len + 1, nodes |-> <<nd3>> \o q.nodes, leftIdx |-> Len(h)], C, h)
    <3>1. q.len + 1 \in Nat
      BY <1>1
    <3> QED BY <2>11, <2>13, <2>14, <3>1, LaidFull
  <2>16. res = [len |-> q.len + 1, nodes |-> <<nd3>> \o q.nodes, leftIdx |-> Len(h)]
    BY <1>7, <2>1, <2>5
  <2>17. res.len = q.len + 1
    BY <2>16
  <2> QED BY <2>13, <2>15, <2>16, <2>17 DEF res, b
<1> HIDE DEF p1, p2
<1> QED BY <1>13, <1>14, <1>15


\* A sequence is its first element and the others, and its last and those
\* before.
LEMMA HeadOf ==
  ASSUME NEW S, NEW s, s \in Seq(S), s # <<>>
  PROVE  s[1] \in S /\ SubSeq(s, 2, Len(s)) \in Seq(S) /\ s = <<s[1]>> \o SubSeq(s, 2, Len(s))
<1>1. Len(s) \in Nat /\ Len(s) # 0
  BY EmptySeq, LenProperties
<1>2. 1 \in 1..Len(s)
  BY <1>1
<1> DEFINE x == s[1]
           u == SubSeq(s, 1, 1 - 1)
           r == SubSeq(s, 1 + 1, Len(s))
<1>3. /\ u \in Seq(S) /\ Len(u) = 0 /\ r \in Seq(S) /\ x \in S
      /\ s = u \o <<x>> \o r
  <2>1. u \in Seq(S) /\ Len(u) = 1 - 1
    BY <1>2, SplitAt
  <2>2. r \in Seq(S) /\ x \in S
    BY <1>2, SplitAt
  <2>3. s = u \o <<x>> \o r
    BY <1>2, SplitAt
  <2> QED BY ONLY <2>1, <2>2, <2>3
<1> HIDE DEF u, r, x
<1>4. u = <<>>
  BY <1>3, EmptySeq
<1>5. <<>> \o <<x>> = <<x>>
  BY SMTT(30), <1>3, OneType, ConcatEmptySeq
<1> QED BY <1>3, <1>4, <1>5 DEF x, r

LEMMA LastOf ==
  ASSUME NEW S, NEW s, s \in Seq(S), s # <<>>
  PROVE  /\ s[Len(s)] \in S /\ SubSeq(s, 1, Len(s) - 1) \in Seq(S)
         /\ s = SubSeq(s, 1, Len(s) - 1) \o <<s[Len(s)]>>
<1> DEFINE n == Len(s)
<1>1. n \in Nat /\ n # 0
  BY EmptySeq, LenProperties
<1>2. n \in 1..Len(s) /\ n \in 0..Len(s)
  BY <1>1
<1>3. SubSeq(s, 1, n - 1) \in Seq(S) /\ s[n] \in S
  <2> HIDE DEF n
  <2> QED BY <1>2, SplitAt
<1>4. SubSeq(s, 1, n) = SubSeq(s, 1, n - 1) \o <<s[n]>>
  <2> HIDE DEF n
  <2> QED BY <1>2, SplitAt
<1> DEFINE t == SubSeq(s, n + 1, Len(s))
           c == SubSeq(s, 1, n)
<1>5. c \in Seq(S) /\ t \in Seq(S) /\ Len(t) = Len(s) - n /\ s = c \o t
  <2>1. c \in Seq(S)
    <3> HIDE DEF n
    <3> QED BY <1>2, CutAt
  <2>2. t \in Seq(S) /\ Len(t) = Len(s) - n
    <3> HIDE DEF n
    <3> QED BY <1>2, CutAt
  <2>3. s = c \o t
    <3> HIDE DEF n
    <3> QED BY <1>2, CutAt
  <2> QED BY ONLY <2>1, <2>2, <2>3
<1> HIDE DEF t, c
<1>6. t = <<>>
  BY <1>1, <1>5, EmptySeq
<1>7. s = c
  BY <1>5, <1>6, ConcatEmptySeq
<1> QED BY <1>3, <1>4, <1>7 DEF c

\* q holds what x is the first of, and r what is left.
PoppedLeft(q, B, r) ==
  \E C, h, x : /\ x \in Elem /\ Laid(r, C, h) /\ AllFull(C) /\ r.len = q.len - 1
               /\ FlattenSeq(B) = <<x>> \o FlattenSeq(C)

LEMMA LPopIs ==
  ASSUME NEW q, NEW B, NEW g, Laid(q, B, g), FlattenSeq(B) # <<>>, B[1] # <<>>, q.len > 0
  PROVE  PoppedLeft(q, B, LPop(q))
<1> DEFINE head == q.nodes[1]
           idx == q.leftIdx + EntryLen(head.buf, q.leftIdx)
           b == B[1]
           t == ElemsAfter(B, 1)
<1>1. /\ q \in DequeType /\ q.len \in Nat /\ q.nodes \in Seq(Chunk)
      /\ B \in Seq(Seq(Elem)) /\ g \in Seq(Unit) /\ Len(q.nodes) = Len(B) /\ Len(B) \in Nat
      /\ q.leftIdx = Len(g) /\ Len(g) \in Nat
      /\ q = [len |-> q.len, nodes |-> q.nodes, leftIdx |-> q.leftIdx]
      /\ Blocks(q.nodes, B, g)
  BY LaidType DEF Laid
<1>2. AllFull(B)
  BY LaidSome
<1>3. B # <<>> /\ 1 \in 1..Len(B) /\ 1 \in 1..Len(q.nodes)
  <2>1. B # <<>>
    BY FlattenEmpty
  <2> QED BY <1>1, <2>1, EmptySeq
<1>4. b \in Seq(Elem) /\ b # <<>> /\ head \in Chunk /\ head.buf = g \o Bytes(b) /\ Len(head.buf) <= head.cap
  <2>1. Gapped(g, 1) = g
    BY DEF Gapped
  <2>2. /\ q.nodes[1] \in Chunk /\ B[1] \in Seq(Elem) /\ q.nodes[1].buf = Gapped(g, 1) \o Bytes(B[1])
        /\ Len(q.nodes[1].buf) <= q.nodes[1].cap
    BY <1>3, LaidNode
  <2>3. B[1] # <<>>
    BY <1>2, <1>3 DEF AllFull
  <2> QED BY <2>1, <2>2, <2>3
<1>5. /\ t \in Seq(Elem) /\ FlattenSeq(B) = b \o t /\ ElemsBefore(B, 1) = <<>>
  <2> HIDE DEF t
  <2>1. /\ ElemsBefore(B, 1) = <<>> /\ ElemsAfter(B, 1) \in Seq(Elem)
        /\ FlattenSeq(B) = ElemsBefore(B, 1) \o b \o ElemsAfter(B, 1)
    BY <1>1, <1>3, FlatAt
  <2>2. <<>> \o b = b
    BY <1>4, ConcatEmptySeq
  <2> QED BY <2>1, <2>2 DEF t
<1> HIDE DEF b, t, head
<1> DEFINE y == b[1]
           r == SubSeq(b, 2, Len(b))
<1>6. y \in Elem /\ r \in Seq(Elem) /\ b = <<y>> \o r
  BY <1>4, HeadOf
<1> HIDE DEF y, r
<1> DEFINE e == EncodeDeqEntry(y)
           w == Bytes(r)
           s == g \o e
<1>7. e \in Seq(Unit) /\ Len(e) \in Nat \ {0} /\ Len(e) = GetEncodeDeqEntrySize(y) /\ w \in Seq(Unit)
  BY <1>6, EntrySize, BytesType
<1>8. Bytes(b) = e \o w /\ <<y>> \in Seq(Elem)
  BY <1>6, OneType, BytesJoin, BytesOne
<1> HIDE DEF e, w
<1>9. s \in Seq(Unit) /\ Len(s) = Len(g) + Len(e)
  BY <1>1, <1>7, JoinLen
<1>10. head.buf = s \o w
  <2>1. g \o (e \o w) = (g \o e) \o w
    <3>1. g \in Seq(Unit) /\ e \in Seq(Unit) /\ w \in Seq(Unit)
      BY <1>1, <1>7
    <3> HIDE DEF s
    <3> QED BY SMTT(30), <3>1, JoinAssoc
  <2> QED BY <1>4, <1>8, <2>1
<1>11. idx = Len(s)
  <2>1. EntryLen(g \o EncodeDeqEntry(y) \o w, Len(g)) = GetEncodeDeqEntrySize(y)
    BY <1>1, <1>6, <1>7, EntryRead
  <2> QED BY <1>1, <1>7, <1>9, <1>10, <2>1 DEF e
<1> HIDE DEF s, idx
<1>12. Len(head.buf) = Len(s) + Len(w) /\ Len(w) \in Nat /\ Len(s) \in Nat
  BY <1>7, <1>9, <1>10, JoinLen
<1>13. Len(w) = 0 <=> r = <<>>
  <2>1. r # <<>> => Len(w) > 0
    BY <1>6, BytesSome DEF w
  <2>2. r = <<>> => Len(w) = 0
    BY BytesEmpty DEF w
  <2> QED BY <1>12, <2>1, <2>2
<1>14. FlattenSeq(B) = <<y>> \o (r \o t)
  <2>1. (<<y>> \o r) \o t = <<y>> \o (r \o t)
    BY <1>5, <1>8, JoinAssoc
  <2> QED BY <1>5, <1>6, <2>1
\* The entry is the head's last: the node goes.
<1>15. CASE r = <<>>
  <2> DEFINE ns == SubSeq(q.nodes, 1 + 1, Len(q.nodes))
             C == SubSeq(B, 1 + 1, Len(B))
             l == q.len - 1
  <2>1. LPop(q) = [len |-> q.len - 1, nodes |-> Tail(q.nodes), leftIdx |-> 0]
    <3>1. idx = Len(head.buf)
      BY <1>11, <1>12, <1>13, <1>15
    <3> QED BY <3>1 DEF LPop, idx, head
  <2>2. Tail(q.nodes) = ns
    BY DEF Tail
  <2>3. Blocks(ns, C, <<>>) /\ AllFull(C)
    <3>1. 1 \in 0..Len(B)
      BY <1>1, <1>3
    <3>2. Blocks(ns, C, IF 1 = 0 THEN g ELSE <<>>)
      BY <1>1, <3>1, BlocksCut
    <3>3. AllFull(C)
      BY <1>1, <1>2, <3>1, BlocksCut
    <3> QED BY <3>2, <3>3
  <2>4. q.len - 1 \in Nat /\ Len(<<>>) = 0
    BY <1>1
  <2>5. FlattenSeq(C) = t
    BY DEF t, ElemsAfter
  <2>6. r \o t = t
    BY <1>5, <1>15, ConcatEmptySeq
  <2> HIDE DEF ns, C, l
  <2>7. Laid([len |-> l, nodes |-> ns, leftIdx |-> Len(<<>>)], C, <<>>)
    BY <2>3, <2>4, LaidFull DEF l
  <2>8. LPop(q) = [len |-> l, nodes |-> ns, leftIdx |-> Len(<<>>)]
    BY <2>1, <2>2, <2>4 DEF l
  <2>9. Laid(LPop(q), C, <<>>) /\ LPop(q).len = q.len - 1
    BY <2>7, <2>8 DEF l
  <2> QED BY <1>6, <1>14, <2>3, <2>5, <2>6, <2>9 DEF PoppedLeft
\* Its bytes join the gap.
<1>16. CASE r # <<>>
  <2> DEFINE h == Gap(idx)
             m == Written(head.buf, 0, h)
             nd == Node(h \o w, head.cap)
             l == q.len - 1
             less == [q EXCEPT !.len = @ - 1]
             moved == [less EXCEPT !.leftIdx = idx]
             C == [B EXCEPT ![1] = r]
  <2>1. h \in Seq(Unit) /\ Len(h) = idx
    BY <1>11, <1>12, GapIs
  <2> HIDE DEF h
  <2>2. m = h \o w
    <3>1. <<>> \in Seq(Unit) /\ Len(<<>>) = 0 /\ <<>> \o s = s /\ <<>> \o h = h
      BY <1>9, <2>1, EmptySeq, ConcatEmptySeq
    <3>2. Len(h) = Len(s)
      BY <1>11, <2>1
    <3>3. Overwrites(<<>>, s, w, h)
      BY <1>7, <1>9, <2>1, <3>1, <3>2, WrittenIs
    <3>4. Written(<<>> \o s \o w, Len(<<>>), h) = <<>> \o h \o w
      BY <3>3 DEF Overwrites
    <3> QED BY <1>10, <3>1, <3>4
  <2> HIDE DEF m
  <2>3. l \in Nat
    BY <1>1
  <2>4. less = [len |-> l, nodes |-> q.nodes, leftIdx |-> q.leftIdx]
    <3>1. q = [len |-> q.len, nodes |-> q.nodes, leftIdx |-> q.leftIdx]
      BY <1>1
    <3> QED BY ONLY <3>1
  <2> HIDE DEF less, l
  <2>5. moved = [len |-> l, nodes |-> q.nodes, leftIdx |-> idx]
    BY <2>4
  <2>6. less.nodes[1].buf = head.buf
    BY <2>4 DEF head
  <2>7. LPop(q) = [less EXCEPT !.leftIdx = idx, !.nodes[1].buf = m]
    <3>1. idx # Len(head.buf)
      BY <1>11, <1>12, <1>13, <1>16
    <3>2. LPop(q) = [q EXCEPT !.len = @ - 1, !.leftIdx = idx, !.nodes[1].buf = Written(@, 0, Gap(idx))]
      BY <3>1 DEF LPop, idx, head
    <3>3. LPop(q) = [less EXCEPT !.leftIdx = idx, !.nodes[1].buf = Written(@, 0, h)]
      BY <3>2 DEF less, h
    <3> QED BY <2>6, <3>3 DEF m
  <2>8. LPop(q) = [moved EXCEPT !.nodes[1].buf = m]
    BY <2>7
  <2> HIDE DEF moved
  <2>9. BufSet(moved, 1, m)
          = [len |-> l, nodes |-> NodeSet(q.nodes, 1, Node(m, q.nodes[1].cap)), leftIdx |-> idx]
    <3>1. q.nodes \in Seq(Chunk) /\ 1 \in 1..Len(q.nodes)
      BY <1>1, <1>3
    <3> QED BY <2>5, <3>1, DequeBuf
  <2>10. LPop(q) = [len |-> l, nodes |-> [q.nodes EXCEPT ![1] = nd], leftIdx |-> Len(h)]
    BY <2>1, <2>2, <2>8, <2>9 DEF BufSet, NodeSet, head
  <2>11. nd = [buf |-> h \o w, cap |-> head.cap]
    BY DEF Node
  <2>12. h \o w \in Seq(Unit) /\ Len(h \o w) = Len(head.buf)
    BY <1>7, <1>11, <1>12, <2>1, JoinLen
  <2> HIDE DEF nd
  <2>13. nd \in Chunk /\ nd.buf = Gapped(h, 1) \o Bytes(r) /\ Len(nd.buf) <= nd.cap
    <3>1. nd.buf = h \o w /\ nd.cap = head.cap
      BY <2>11
    <3>2. head.cap \in Nat
      BY <1>4 DEF Chunk
    <3> QED BY <1>4, <2>11, <2>12, <3>1, <3>2 DEF Chunk, Gapped, w
  <2>14. Blocks([q.nodes EXCEPT ![1] = nd], C, h)
    BY <1>1, <1>3, <1>6, <2>1, <2>13, BlocksSet
  <2>15. /\ C \in Seq(Seq(Elem)) /\ Len(C) = Len(B)
         /\ FlattenSeq(C) = ElemsBefore(B, 1) \o r \o ElemsAfter(B, 1)
         /\ AllFull(C)
    BY <1>1, <1>2, <1>3, <1>6, <1>16, FlatSet
  <2> HIDE DEF C
  <2>16. C # <<>>
    BY <1>3, <2>15, EmptySeq
  <2>17. FlattenSeq(C) = r \o t
    <3>1. <<>> \o r = r
      BY <1>6, ConcatEmptySeq
    <3> QED BY <1>5, <2>15, <3>1 DEF t
  <2>18. Laid([len |-> l, nodes |-> [q.nodes EXCEPT ![1] = nd], leftIdx |-> Len(h)], C, h)
    BY <2>3, <2>14, <2>15, <2>16, LaidFull
  <2>19. Laid(LPop(q), C, h) /\ LPop(q).len = l
    BY <2>10, <2>18
  <2> QED BY <1>6, <1>14, <2>15, <2>17, <2>19 DEF PoppedLeft, l
<1> QED BY <1>15, <1>16


\* x is what q held last, and r holds what is left.
PoppedRight(q, B, r) ==
  \E C, h, x : /\ x \in Elem /\ Laid(r, C, h) /\ r.len = q.len - 1
               /\ FlattenSeq(B) = FlattenSeq(C) \o <<x>>

\* What changes behind the head leaves it a gap.
LEMMA GapSet ==
  ASSUME NEW B \in Seq(Seq(Elem)), NEW g, GapFirst(B, g), NEW i \in 2..Len(B),
         NEW b \in Seq(Elem), b # <<>>
  PROVE  GapFirst([B EXCEPT ![i] = b], g)
<1> DEFINE C == [B EXCEPT ![i] = b]
<1>1. Len(B) \in Nat /\ i \in 1..Len(B) /\ i # 1
  BY LenProperties
<1>2. Len(C) = Len(B)
  BY <1>1, ExceptSeq
<1>3. \A j \in 1..Len(B) : C[j] = IF j = i THEN b ELSE B[j]
  BY <1>1, ExceptSeq
<1> HIDE DEF C
<1>4. GapFirst(C, g)
  <2>1. Len(B) > 0 /\ Len(C) \in Nat /\ Len(C) > 0
    BY <1>1, <1>2
  <2>2. C[1] = B[1]
    BY ONLY <1>1, <1>3, <2>1
  <2>3. \A j \in 2..Len(C) : C[j] = b \/ (j \in 2..Len(B) /\ C[j] = B[j])
    BY ONLY <1>1, <1>2, <1>3
  <2>4. HeadKept(B, C, b)
    BY ONLY <2>1, <2>2, <2>3 DEF HeadKept
  <2> QED BY <2>4, GapStays
<1> QED BY <1>4 DEF C

LEMMA GapCut ==
  ASSUME NEW B \in Seq(Seq(Elem)), NEW g, GapFirst(B, g), NEW i \in 1..Len(B)
  PROVE  GapFirst(SubSeq(B, 1, i), g)
<1> DEFINE C == SubSeq(B, 1, i)
<1>1. Len(B) \in Nat /\ i \in Nat /\ i \in 0..Len(B)
  BY LenProperties
<1>2. Len(C) = i
  BY <1>1, CutAt
<1>3. \A j \in 1..i : C[j] = B[j]
  <2>1. \A j \in 1..Len(B) : B[j] \in Seq(Elem)
    BY ElementOfSeq
  <2> QED BY <1>1, <2>1, SubSeqProperties
<1>4. B[1] = <<>> /\ g # <<>> /\ \A j \in 2..Len(B) : B[j] # <<>>
  BY DEF GapFirst
<1>5. i > 0
  BY <1>1
<1> HIDE DEF C
<1>6. Len(C) > 0 /\ C[1] = <<>>
  BY ONLY <1>1, <1>2, <1>3, <1>4, <1>5
<1>7. \A j \in 2..Len(C) : C[j] # <<>>
  <2> SUFFICES ASSUME NEW j, j \in 2..Len(C) PROVE C[j] # <<>>
    OBVIOUS
  <2>1. j \in 1..i /\ j \in 2..Len(B)
    BY ONLY <1>1, <1>2, j \in 2..Len(C), i \in 1..Len(B)
  <2> QED BY <1>3, <1>4, <2>1
<1>8. GapFirst(C, g)
  BY <1>4, <1>6, <1>7 DEF GapFirst
<1> QED BY <1>8 DEF C

LEMMA RPopIs ==
  ASSUME NEW q, NEW B, NEW g, Laid(q, B, g), FlattenSeq(B) # <<>>, q.len > 0
  PROVE  PoppedRight(q, B, RPop(q))
<1> DEFINE n == Len(B)
           tail == q.nodes[n]
           b == B[n]
           u == ElemsBefore(B, n)
           G == Gapped(g, n)
           at == LastEntryAt(tail.buf)
           l == q.len - 1
<1>1. /\ q \in DequeType /\ q.len \in Nat /\ q.nodes \in Seq(Chunk)
      /\ B \in Seq(Seq(Elem)) /\ g \in Seq(Unit) /\ Len(q.nodes) = n /\ n \in Nat
      /\ q.leftIdx = Len(g) /\ Len(g) \in Nat
      /\ q = [len |-> q.len, nodes |-> q.nodes, leftIdx |-> q.leftIdx]
      /\ Blocks(q.nodes, B, g)
  BY LaidType DEF Laid
<1>3. B # <<>> /\ n \in 1..Len(B) /\ n \in 1..Len(q.nodes)
  <2>1. B # <<>>
    BY FlattenEmpty
  <2> QED BY <1>1, <2>1, EmptySeq
<1>2. AllFull(B) \/ (GapFirst(B, g) /\ n # 1)
  <2>1. ~GapFirst(B, g) \/ n # 1
    <3> SUFFICES ASSUME GapFirst(B, g), n = 1 PROVE FALSE
      OBVIOUS
    <3>1. Len(B) = 1 /\ B[1] = <<>>
      BY DEF GapFirst
    <3>2. B = <<<<>>>>
      <4> HIDE DEF n
      <4> QED BY <1>1, <3>1
    <3>3. <<>> \in Seq(Elem)
      BY EmptySeq
    <3> QED BY <3>2, <3>3, FlattenOne
  <2>2. AllFull(B) \/ GapFirst(B, g)
    BY DEF Laid, NoneEmpty
  <2> QED BY ONLY <2>1, <2>2
<1>4. /\ b \in Seq(Elem) /\ b # <<>> /\ tail \in Chunk /\ tail.buf = G \o Bytes(b)
      /\ Len(tail.buf) <= tail.cap /\ G \in Seq(Unit)
  <2> HIDE DEF n, G
  <2>1. /\ q.nodes[n] \in Chunk /\ B[n] \in Seq(Elem) /\ q.nodes[n].buf = Gapped(g, n) \o Bytes(B[n])
        /\ Len(q.nodes[n].buf) <= q.nodes[n].cap /\ Gapped(g, n) \in Seq(Unit)
    BY <1>3, LaidNode
  <2>2. B[n] # <<>>
    <3>1. CASE AllFull(B)
      BY <1>3, <3>1 DEF AllFull
    <3>2. CASE GapFirst(B, g) /\ n # 1
      <4>1. n \in 2..Len(B)
        BY <1>1, <1>3, <3>2
      <4> QED BY <3>2, <4>1 DEF GapFirst
    <3> QED BY <1>2, <3>1, <3>2
  <2> QED BY <2>1, <2>2 DEF G
<1>5. u \in Seq(Elem) /\ FlattenSeq(B) = u \o b /\ ElemsAfter(B, n) = <<>>
  <2> HIDE DEF u
  <2>1. /\ ElemsBefore(B, n) \in Seq(Elem)
        /\ FlattenSeq(B) = ElemsBefore(B, n) \o b \o ElemsAfter(B, n)
    BY <1>1, <1>3, FlatAt
  <2>2. ElemsAfter(B, n) = <<>>
    BY <1>1, <1>3, FlatAt
  <2>3. (u \o b) \o <<>> = u \o b
    <3>1. u \o b \in Seq(Elem)
      BY <1>4, <2>1, JoinLen DEF u
    <3> HIDE DEF b
    <3> QED BY <3>1, ConcatEmptySeq
  <2> QED BY <2>1, <2>2, <2>3 DEF u
<1> HIDE DEF b, u, tail, G, n
<1> DEFINE y == b[Len(b)]
           r == SubSeq(b, 1, Len(b) - 1)
<1>7. y \in Elem /\ r \in Seq(Elem) /\ b = r \o <<y>>
  BY <1>4, LastOf
<1> HIDE DEF y, r
<1> DEFINE e == EncodeDeqEntry(y)
           w == Bytes(r)
           s == G \o w
<1>8. e \in Seq(Unit) /\ Len(e) \in Nat \ {0} /\ w \in Seq(Unit)
  BY <1>7, EntrySize, BytesType
<1>9. Bytes(b) = w \o e /\ <<y>> \in Seq(Elem)
  BY <1>7, OneType, BytesJoin, BytesOne
<1> HIDE DEF w
<1>10. /\ s \in Seq(Unit) /\ Len(s) = Len(G) + Len(w) /\ Len(G) \in Nat /\ Len(w) \in Nat
  BY <1>4, <1>8, JoinLen
<1>11. tail.buf = s \o e
  <2>1. G \in Seq(Unit) /\ e \in Seq(Unit) /\ w \in Seq(Unit)
    BY <1>4, <1>8
  <2> HIDE DEF s, e
  <2>2. (G \o w) \o e = G \o (w \o e)
    BY <2>1, JoinAssoc
  <2> QED BY <1>4, <1>9, <2>2 DEF s
<1>12. at = Len(s)
  <2> HIDE DEF s
  <2> QED BY <1>7, <1>10, <1>11, LastEntry
<1> HIDE DEF e, s, at
<1>13. /\ SubSeq(tail.buf, 1, at) = s /\ Len(tail.buf) = Len(s) + Len(e) /\ Len(s) \in Nat
  <2>1. SubSeq(s \o e, 1, Len(s)) = s
    BY <1>8, <1>10, CutJoined
  <2> QED BY <1>8, <1>10, <1>11, <1>12, <2>1, JoinLen
<1>14. /\ r # <<>> => Len(w) > 0
       /\ r = <<>> => w = <<>> /\ Len(w) = 0
  BY <1>7, BytesSome, BytesEmpty DEF w
<1>15. FlattenSeq(B) = (u \o r) \o <<y>>
  <2>1. (u \o r) \o <<y>> = u \o (r \o <<y>>)
    BY SMTT(30), <1>5, <1>7, <1>9, JoinAssoc
  <2> QED BY <1>5, <1>7, <2>1
<1>16. l \in Nat
  BY <1>1
<1> DEFINE less == [q EXCEPT !.len = @ - 1]
           left == [q EXCEPT !.len = @ - 1, !.nodes[n].buf = SubSeq(@, 1, at)]
           nd == Node(s, tail.cap)
           ns == [q.nodes EXCEPT ![n] = nd]
<1>17. left = [len |-> l, nodes |-> ns, leftIdx |-> Len(g)]
  <2>1. less = [len |-> l, nodes |-> q.nodes, leftIdx |-> q.leftIdx]
    <3>1. q = [len |-> q.len, nodes |-> q.nodes, leftIdx |-> q.leftIdx]
      BY <1>1
    <3> QED BY ONLY <3>1
  <2> HIDE DEF less, l, nd
  <2>2. less.nodes[n].buf = tail.buf
    BY <2>1 DEF tail
  <2>3. left = [less EXCEPT !.nodes[n].buf = SubSeq(@, 1, at)]
    BY DEF less
  <2> HIDE DEF left
  <2>4. left = [less EXCEPT !.nodes[n].buf = s]
    BY <1>13, <2>2, <2>3
  <2>5. BufSet(less, n, s)
          = [len |-> l, nodes |-> NodeSet(q.nodes, n, Node(s, q.nodes[n].cap)), leftIdx |-> q.leftIdx]
    <3>1. q.nodes \in Seq(Chunk) /\ n \in 1..Len(q.nodes)
      BY <1>1, <1>3
    <3> QED BY <2>1, <3>1, DequeBuf
  <2> QED BY <1>1, <2>4, <2>5 DEF BufSet, NodeSet, tail, nd
<1>18. nd \in Chunk /\ nd.buf = G \o Bytes(r) /\ Len(nd.buf) < nd.cap /\ nd.buf = s /\ Len(nd.buf) <= nd.cap
  <2>1. nd = [buf |-> s, cap |-> tail.cap]
    BY DEF Node
  <2> HIDE DEF nd
  <2>2. nd.buf = s /\ nd.cap = tail.cap
    BY <2>1
  <2>3. tail.cap \in Nat
    BY <1>4 DEF Chunk
  <2>4. Len(s) < tail.cap /\ Len(s) <= tail.cap
    BY <1>4, <1>8, <1>13, <2>3
  <2> QED BY <1>10, <2>1, <2>2, <2>3, <2>4 DEF Chunk, s, w
<1>19. RPop(q) = IF at > 0 THEN left ELSE [left EXCEPT !.nodes = Front(@), !.leftIdx = IF n = 1 THEN 0 ELSE @]
  BY <1>1 DEF RPop, at, tail
<1> HIDE DEF left, nd, ns, less
\* What is left of the node stays.
<1>20. CASE at > 0
  <2> DEFINE C == [B EXCEPT ![n] = r]
  <2>1. Blocks(ns, C, g)
    BY <1>1, <1>3, <1>7, <1>18, BlocksSet DEF ns, G
  <2>2. /\ C \in Seq(Seq(Elem)) /\ Len(C) = Len(B)
        /\ FlattenSeq(C) = ElemsBefore(B, n) \o r \o ElemsAfter(B, n)
        /\ r # <<>> /\ AllFull(B) => AllFull(C)
    BY <1>1, <1>3, <1>7, FlatSet
  <2>3. FlattenSeq(C) = u \o r
    <3>1. u \o r \in Seq(Elem)
      BY <1>5, <1>7, JoinLen
    <3>2. (u \o r) \o <<>> = u \o r
      BY <3>1, ConcatEmptySeq
    <3> HIDE DEF C
    <3> QED BY <1>5, <2>2, <3>2 DEF u
  <2>4. Laid(left, C, g)
    <3>1. CASE r # <<>>
      <4>1. GapFirst(B, g) /\ n # 1 => GapFirst(C, g)
        <5> SUFFICES ASSUME GapFirst(B, g), n # 1 PROVE GapFirst(C, g)
          OBVIOUS
        <5>1. n \in 2..Len(B)
          BY <1>1, <1>3
        <5> QED BY <1>1, <1>7, <3>1, <5>1, GapSet
      <4> HIDE DEF C, l
      <4>2. C # <<>>
        BY <1>3, <2>2, EmptySeq
      <4>3. NoneEmpty(C, g)
        BY <1>2, <2>2, <3>1, <4>1, <4>2 DEF NoneEmpty
      <4>4. Laid([len |-> l, nodes |-> ns, leftIdx |-> Len(g)], C, g)
        BY <1>16, <2>1, <4>3, LaidKept
      <4> QED BY <1>17, <4>4
    <3>2. CASE r = <<>>
      <4>1. Len(G) > 0
        BY <1>10, <1>12, <1>14, <1>20, <3>2
      <4>2. n = 1 /\ G = g /\ g # <<>>
        <5>1. G = IF n = 1 THEN g ELSE <<>>
          BY DEF G, Gapped
        <5> QED BY <4>1, <5>1, EmptySeq
      <4>3. C = <<<<>>>>
        <5>1. C \in Seq(Seq(Elem)) /\ Len(C) = 1 /\ C[1] = <<>>
          BY <1>1, <1>3, <2>2, <3>2, <4>2 DEF n
        <5> HIDE DEF C
        <5> QED BY <5>1
      <4>4. GapFirst(C, g)
        <5>1. Len(C) = 1 /\ C[1] = <<>>
          BY <4>3
        <5> HIDE DEF C
        <5> QED BY <4>2, <5>1 DEF GapFirst
      <4> HIDE DEF C, l
      <4>5. Laid([len |-> l, nodes |-> ns, leftIdx |-> Len(g)], C, g)
        BY <1>16, <2>1, <4>4, LaidKept DEF NoneEmpty
      <4> QED BY <1>17, <4>5
    <3> QED BY <3>1, <3>2
  <2>5. RPop(q) = left /\ left.len = q.len - 1
    BY <1>17, <1>19, <1>20
  <2> HIDE DEF C
  <2> QED BY <1>7, <1>15, <2>3, <2>4, <2>5 DEF PoppedRight
\* The node goes.
<1>21. CASE ~(at > 0)
  <2> DEFINE C == SubSeq(B, 1, n - 1)
             ms == SubSeq(q.nodes, 1, n - 1)
  <2>1. r = <<>> /\ Len(G) = 0
    BY <1>10, <1>12, <1>14, <1>21
  <2>2. n = 1 => g = <<>> /\ Len(g) = 0
    BY <1>1, <1>4, <2>1, EmptySeq DEF G, Gapped
  <2>3. /\ ns \in Seq(Chunk) /\ Len(ns) = n /\ \A j \in 1..n : j # n => ns[j] = q.nodes[j]
    <3>1. ns \in Seq(Chunk)
      BY <1>1, <1>3, <1>18, ExceptSeq DEF ns
    <3>2. Len(ns) = Len(q.nodes)
      BY <1>1, <1>3, <1>18, ExceptSeq DEF ns
    <3>3. \A j \in 1..Len(q.nodes) : ns[j] = IF j = n THEN nd ELSE q.nodes[j]
      BY <1>1, <1>3, <1>18, ExceptSeq DEF ns
    <3> QED BY <1>1, <3>1, <3>2, <3>3
  <2>4. Front(ns) = ms
    <3>1. Front(ns) = SubSeq(ns, 1, n - 1)
      BY <2>3 DEF Front
    <3> DEFINE i == n - 1
    <3>2. i \in Nat /\ \A j \in 1..i : q.nodes[j] \in Chunk /\ ns[j] = q.nodes[j]
      <4>1. i \in Nat /\ \A j \in 1..i : j \in 1..n /\ j # n
        BY <1>1, <1>3
      <4> QED BY <1>1, <1>3, <2>3, <4>1, ElementOfSeq
    <3> HIDE DEF i
    <3>3. SubSeq(q.nodes, 1, i) = SubSeq(ns, 1, i)
      <4>1. q.nodes \in Seq(Chunk) /\ ns \in Seq(Chunk) /\ 1 \in Nat
        BY <1>1, <2>3
      <4> QED BY <3>2, <4>1, SubSeqSame
    <3> QED BY <3>1, <3>3 DEF i
  <2>5. [left EXCEPT !.nodes = Front(@), !.leftIdx = IF n = 1 THEN 0 ELSE @]
          = [len |-> l, nodes |-> Front(ns), leftIdx |-> IF n = 1 THEN 0 ELSE Len(g)]
    <3> DEFINE f == Front(ns)
               k == IF n = 1 THEN 0 ELSE Len(g)
               moved == [left EXCEPT !.nodes = f]
    <3> HIDE DEF l
    <3>1. left.nodes = ns /\ left.leftIdx = Len(g)
      BY <1>17
    <3>2. [left EXCEPT !.nodes = Front(@), !.leftIdx = IF n = 1 THEN 0 ELSE @]
            = [left EXCEPT !.nodes = f, !.leftIdx = k]
      BY <3>1
    <3> HIDE DEF f, k
    <3>3. moved = [len |-> l, nodes |-> f, leftIdx |-> Len(g)]
      BY <1>17
    <3>4. [left EXCEPT !.nodes = f, !.leftIdx = k] = [moved EXCEPT !.leftIdx = k]
      OBVIOUS
    <3> HIDE DEF moved
    <3>5. [moved EXCEPT !.leftIdx = k] = [len |-> l, nodes |-> f, leftIdx |-> k]
      BY <3>3
    <3> QED BY <3>2, <3>4, <3>5 DEF f, k
  <2>6. RPop(q) = [len |-> l, nodes |-> ms, leftIdx |-> Len(g)]
    BY <1>19, <1>21, <2>2, <2>4, <2>5
  <2>7. n - 1 \in 0..Len(B)
    BY <1>1, <1>3 DEF n
  <2>8. Blocks(ms, C, g) /\ (AllFull(B) => AllFull(C)) /\ (GapFirst(B, g) /\ n # 1 => GapFirst(C, g))
    <3> DEFINE i == n - 1
    <3> HIDE DEF i
    <3>1. i \in 0..Len(B)
      BY <2>7 DEF i
    <3>2. Blocks(SubSeq(q.nodes, 1, i), SubSeq(B, 1, i), g)
      BY <1>1, <3>1, BlocksCut
    <3>3. AllFull(B) => AllFull(SubSeq(B, 1, i))
      BY <1>1, <3>1, BlocksCut
    <3>4. n # 1 => i \in 1..Len(B)
      BY <1>1, <1>3 DEF i, n
    <3>5. GapFirst(B, g) /\ n # 1 => GapFirst(SubSeq(B, 1, i), g)
      BY <1>1, <3>4, GapCut
    <3> QED BY <3>2, <3>3, <3>5 DEF i
  <2>9. C = <<>> => g = <<>>
    <3>1. Len(C) = n - 1
      <4> DEFINE i == n - 1
      <4> HIDE DEF i
      <4>1. Len(SubSeq(B, 1, i)) = i
        BY <1>1, <2>7, CutAt DEF i
      <4> QED BY <4>1 DEF i
    <3> HIDE DEF C
    <3> QED BY <1>1, <2>2, <3>1, EmptySeq
  <2>10. FlattenSeq(C) = u
    BY DEF u, ElemsBefore
  <2>11. u \o r = u
    BY <1>5, <2>1, ConcatEmptySeq
  <2> HIDE DEF C, ms
  <2>12. Laid([len |-> l, nodes |-> ms, leftIdx |-> Len(g)], C, g)
    <3> HIDE DEF l
    <3>1. NoneEmpty(C, g)
      BY <1>2, <2>8, <2>9 DEF NoneEmpty
    <3> QED BY <1>16, <2>8, <3>1, LaidKept
  <2>13. Laid(RPop(q), C, g) /\ RPop(q).len = q.len - 1
    BY <2>6, <2>12
  <2> QED BY <1>7, <1>15, <2>10, <2>11, <2>13 DEF PoppedRight
<1> QED BY <1>20, <1>21


-----------------------------------------------------------------------------
(* The iterator *)

\* Where the iterator goes after x, which us precedes and vs follows in the
\* p-th block.
Onward(g, p, us, x, vs) ==
  IF vs = <<>> THEN [node |-> p + 1, idx |-> 0]
  ELSE [node |-> p, idx |-> Len(Gapped(g, p)) + Len(Bytes(us \o <<x>>))]

\* The step s of the iterator is at the i-th element.
Spot(B, g, i, s, p, us, vs) ==
  /\ p \in 1..Len(B) /\ us \in Seq(Elem) /\ vs \in Seq(Elem) /\ s.x \in Elem
  /\ B[p] = us \o <<s.x>> \o vs
  /\ i = Len(ElemsBefore(B, p)) + Len(us) + 1
  /\ s = [x |-> s.x, node |-> p, next |-> Onward(g, p, us, s.x, vs)]

StepAt(B, g, i, s) == \E p, us, vs : Spot(B, g, i, s, p, us, vs)

\* The iterator reads x there.
Reads(q, g, p, us, x, vs) ==
  IterNext(q, [node |-> p, idx |-> Len(Gapped(g, p)) + Len(Bytes(us))])
    = [x |-> x, node |-> p, next |-> Onward(g, p, us, x, vs)]

LEMMA ReadAt ==
  ASSUME NEW q, NEW B, NEW g, Laid(q, B, g), NEW p, p \in 1..Len(B), NEW us, us \in Seq(Elem),
         NEW x, x \in Elem, NEW vs, vs \in Seq(Elem), B[p] = us \o <<x>> \o vs
  PROVE  Reads(q, g, p, us, x, vs)
<1> DEFINE buf == q.nodes[p].buf
           G == Gapped(g, p)
           e == EncodeDeqEntry(x)
           b == Bytes(us)
           w == Bytes(vs)
           s == G \o b
           at == [node |-> p, idx |-> Len(G) + Len(b)]
           idx == Len(s) + Len(e)
<1>1. buf = G \o Bytes(B[p]) /\ G \in Seq(Unit)
  <2>1. q.nodes[p].buf = Gapped(g, p) \o Bytes(B[p]) /\ Gapped(g, p) \in Seq(Unit)
    BY LaidNode
  <2> QED BY <2>1
<1>2. /\ e \in Seq(Unit) /\ Len(e) \in Nat \ {0} /\ Len(e) = GetEncodeDeqEntrySize(x)
      /\ b \in Seq(Unit) /\ w \in Seq(Unit) /\ Len(w) \in Nat /\ Len(b) \in Nat /\ Len(G) \in Nat
  BY <1>1, EntrySize, BytesType, LenProperties
<1>3. <<x>> \in Seq(Elem) /\ us \o <<x>> \in Seq(Elem) /\ Bytes(us \o <<x>>) = b \o e
  <2>1. <<x>> \in Seq(Elem)
    BY OneType
  <2>2. us \o <<x>> \in Seq(Elem)
    BY <2>1, JoinLen
  <2>3. Bytes(us \o <<x>>) = b \o Bytes(<<x>>)
    BY <2>1, BytesJoin
  <2> QED BY <2>1, <2>2, <2>3, BytesOne
<1>4. Bytes(B[p]) = b \o e \o w
  <2>1. Bytes((us \o <<x>>) \o vs) = Bytes(us \o <<x>>) \o w
    BY <1>3, BytesJoin
  <2> QED BY ONLY B[p] = us \o <<x>> \o vs, <1>3, <2>1
<1> HIDE DEF G, b, w
<1>5. s \in Seq(Unit) /\ Len(s) = Len(G) + Len(b)
  BY <1>1, <1>2, JoinLen
<1>6. buf = s \o e \o w
  <2> DEFINE c == b \o e
  <2>1. G \in Seq(Unit) /\ b \in Seq(Unit) /\ e \in Seq(Unit) /\ w \in Seq(Unit)
    BY <1>1, <1>2
  <2> HIDE DEF e
  <2>2. c \in Seq(Unit)
    BY <2>1, JoinLen
  <2>3. (G \o b) \o e = G \o c
    BY SMTT(30), <2>1, JoinAssoc
  <2> HIDE DEF c, s, buf
  <2>4. (G \o c) \o w = G \o (c \o w)
    <3>1. G \in Seq(Unit) /\ c \in Seq(Unit) /\ w \in Seq(Unit)
      BY <2>1, <2>2
    <3> QED BY SMTT(30), <3>1, JoinAssoc
  <2>5. buf = G \o (c \o w)
    BY <1>1, <1>4 DEF c
  <2> QED BY ONLY <2>3, <2>4, <2>5 DEF s
<1>7. DecodeDeqEntry(buf, Len(s)) = x /\ EntryLen(buf, Len(s)) = Len(e)
  <2>1. /\ DecodeDeqEntry(s \o EncodeDeqEntry(x) \o w, Len(s)) = x
        /\ EntryLen(s \o EncodeDeqEntry(x) \o w, Len(s)) = GetEncodeDeqEntrySize(x)
    <3> HIDE DEF s
    <3> QED BY <1>2, <1>5, EntryRead
  <2> QED BY <1>2, <1>6, <2>1
<1> HIDE DEF s, e
<1>8. Len(buf) = idx + Len(w)
  <2>1. s \o e \in Seq(Unit) /\ Len(s \o e) = Len(s) + Len(e)
    BY <1>2, <1>5, JoinLen
  <2>2. Len((s \o e) \o w) = Len(s \o e) + Len(w)
    BY <1>2, <2>1, JoinLen
  <2> QED BY <1>6, <2>1, <2>2
<1>9. Len(w) = 0 <=> vs = <<>>
  <2>1. vs # <<>> => Len(w) > 0
    BY BytesSome DEF w
  <2>2. vs = <<>> => Len(w) = 0
    BY BytesEmpty DEF w
  <2> QED BY <1>2, <2>1, <2>2
<1>10. idx = Len(buf) <=> vs = <<>>
  <2>1. idx \in Nat
    BY <1>2, <1>5
  <2> HIDE DEF buf, idx
  <2> QED BY <1>2, <1>8, <1>9, <2>1
<1>11. idx = Len(G) + Len(Bytes(us \o <<x>>))
  <2>1. Len(b \o e) = Len(b) + Len(e)
    BY <1>2, JoinLen
  <2>2. Len(Bytes(us \o <<x>>)) = Len(b) + Len(e)
    BY <1>3, <2>1
  <2>3. Len(e) \in Nat
    BY <1>2
  <2>4. Len(s) + Len(e) = Len(G) + (Len(b) + Len(e))
    <3>1. Len(s) = Len(G) + Len(b) /\ Len(G) \in Nat /\ Len(b) \in Nat
      BY <1>2, <1>5
    <3> QED BY ONLY <2>3, <3>1
  <2> QED BY ONLY <2>2, <2>4 DEF idx
<1>12. at.node = p /\ at.idx = Len(s)
  BY <1>5
<1> HIDE DEF at
<1>13. IterNext(q, at)
         = [x |-> DecodeDeqEntry(buf, Len(s)), node |-> p,
            next |-> IF Len(s) + EntryLen(buf, Len(s)) = Len(buf) THEN [node |-> p + 1, idx |-> 0]
                     ELSE [node |-> p, idx |-> Len(s) + EntryLen(buf, Len(s))]]
  BY <1>12 DEF IterNext
<1>14. Onward(g, p, us, x, vs) = IF vs = <<>> THEN [node |-> p + 1, idx |-> 0]
                                 ELSE [node |-> p, idx |-> idx]
  BY <1>11 DEF Onward, G
<1> HIDE DEF buf, idx
<1>15. IterNext(q, at) = [x |-> x, node |-> p, next |-> Onward(g, p, us, x, vs)]
  BY <1>7, <1>10, <1>13, <1>14 DEF idx
<1> QED BY <1>15 DEF at, G, b, Reads

LEMMA BeforeNext ==
  ASSUME NEW B, B \in Seq(Seq(Elem)), NEW p, p \in 1..Len(B)
  PROVE  /\ ElemsBefore(B, p + 1) = ElemsBefore(B, p) \o B[p]
         /\ p = Len(B) => FlattenSeq(B) = ElemsBefore(B, p + 1)
<1> DEFINE s == SubSeq(B, 1, p - 1)
<1>1. s \in Seq(Seq(Elem)) /\ B[p] \in Seq(Elem)
  BY SplitAt
<1>2. SubSeq(B, 1, p) = s \o <<B[p]>>
  BY SplitAt
<1> HIDE DEF s
<1>3. <<B[p]>> \in Seq(Seq(Elem))
  BY <1>1, OneType
<1>4. FlattenSeq(s \o <<B[p]>>) = FlattenSeq(s) \o FlattenSeq(<<B[p]>>)
  BY <1>1, <1>3, FlattenJoin
<1>5. FlattenSeq(<<B[p]>>) = B[p]
  BY <1>1, FlattenOne
<1>6. (p + 1) - 1 = p
  OBVIOUS
<1>7. ElemsBefore(B, p + 1) = FlattenSeq(SubSeq(B, 1, p))
  BY <1>6 DEF ElemsBefore
<1>8. ElemsBefore(B, p + 1) = ElemsBefore(B, p) \o B[p]
  BY <1>2, <1>4, <1>5, <1>7 DEF ElemsBefore, s
<1>9. p = Len(B) => SubSeq(B, 1, p) = B
  <2>1. Len(B) \in Nat /\ \A i \in 1..Len(B) : B[i] \in Seq(Elem)
    BY LenProperties, ElementOfSeq
  <2> SUFFICES ASSUME p = Len(B) PROVE SubSeq(B, 1, Len(B)) = B
    OBVIOUS
  <2> QED BY SubSeqFull
<1> QED BY <1>7, <1>8, <1>9

LEMMA MiddleIs ==
  ASSUME NEW S, NEW s, s \in Seq(S), NEW x, x \in S, NEW t, t \in Seq(S)
  PROVE  /\ (s \o <<x>> \o t)[Len(s) + 1] = x
         /\ Len(s \o <<x>> \o t) = Len(s) + 1 + Len(t)
<1> DEFINE u == s \o <<x>>
           n == Len(s)
           m == Len(t)
<1>1. n \in Nat /\ m \in Nat /\ <<x>> \in Seq(S) /\ Len(<<x>>) = 1
  BY OneType, LenProperties
<1>2. u \in Seq(S) /\ Len(u) = n + 1 /\ u[n + 1] = x
  <2>1. u \in Seq(S)
    BY <1>1, JoinLen
  <2>2. Len(u) = n + 1
    BY <1>1, JoinLen
  <2>3. u = Append(s, x)
    BY AppendIsConcat
  <2>4. Append(s, x)[n + 1] = x
    BY AppendProperties
  <2> QED BY <2>1, <2>2, <2>3, <2>4
<1> HIDE DEF u, n, m
<1>3. Len(u \o t) = Len(u) + m /\ \A i \in 1..(Len(u) + m) : (u \o t)[i] = IF i <= Len(u) THEN u[i] ELSE t[i - Len(u)]
  BY <1>2, ConcatProperties DEF m
<1>4. (u \o t)[n + 1] = x
  <2>1. n + 1 \in 1..(Len(u) + m) /\ n + 1 <= Len(u)
    BY <1>1, <1>2
  <2> QED BY <1>2, <1>3, <2>1
<1> QED BY <1>1, <1>2, <1>3, <1>4 DEF u, n, m

\* The step is at the element of its number.
LEMMA StepElem ==
  ASSUME NEW q, NEW B, NEW g, Laid(q, B, g), NEW i, NEW s, StepAt(B, g, i, s)
  PROVE  s.x \in Elem /\ s.x = FlattenSeq(B)[i]
<1>1. PICK p, us, vs : Spot(B, g, i, s, p, us, vs)
  BY DEF StepAt
<1> DEFINE x == s.x
           E == ElemsBefore(B, p)
           A == ElemsAfter(B, p)
<1>2. /\ p \in 1..Len(B) /\ us \in Seq(Elem) /\ vs \in Seq(Elem) /\ x \in Elem
      /\ B[p] = us \o <<x>> \o vs /\ i = Len(E) + Len(us) + 1
  BY <1>1 DEF Spot
<1> HIDE DEF x, E, A
<1>3. B \in Seq(Seq(Elem))
  BY LaidType
<1>4. E \in Seq(Elem) /\ A \in Seq(Elem) /\ FlattenSeq(B) = E \o (us \o <<x>> \o vs) \o A
  <2>1. /\ ElemsBefore(B, p) \in Seq(Elem) /\ ElemsAfter(B, p) \in Seq(Elem)
        /\ FlattenSeq(B) = ElemsBefore(B, p) \o B[p] \o ElemsAfter(B, p)
    BY <1>2, <1>3, FlatAt
  <2> QED BY <1>2, <2>1 DEF E, A
<1> DEFINE u == E \o us
           t == vs \o A
<1>5. u \in Seq(Elem) /\ Len(u) = Len(E) + Len(us) /\ t \in Seq(Elem)
  BY <1>2, <1>4, JoinLen
<1>6. FlattenSeq(B) = u \o <<x>> \o t
  <2> DEFINE y == <<x>>
  <2>1. y \in Seq(Elem)
    BY <1>2, OneType
  <2> HIDE DEF y
  <2>2. E \o ((us \o y) \o vs) = (u \o y) \o vs
    <3>1. E \in Seq(Elem) /\ us \in Seq(Elem) /\ y \in Seq(Elem) /\ vs \in Seq(Elem)
      BY <1>2, <1>4, <2>1
    <3> DEFINE c == us \o y
    <3>2. c \in Seq(Elem) /\ u \o y = E \o c
      <4>1. c \in Seq(Elem)
        BY <3>1, JoinLen
      <4> HIDE DEF t
      <4>2. (E \o us) \o y = E \o c
        BY SMTT(30), <3>1, JoinAssoc
      <4> QED BY <4>1, <4>2
    <3> HIDE DEF c, t, u
    <3>3. (E \o c) \o vs = E \o (c \o vs)
      <4>1. E \in Seq(Elem) /\ c \in Seq(Elem) /\ vs \in Seq(Elem)
        BY <3>1, <3>2
      <4> QED BY <4>1, JoinAssoc
    <3> QED BY <3>2, <3>3 DEF c
  <2>3. ((u \o y) \o vs) \o A = (u \o y) \o t
    <3> DEFINE c == u \o y
    <3>1. c \in Seq(Elem)
      BY <1>5, <2>1, JoinLen
    <3> HIDE DEF c, u
    <3>2. (c \o vs) \o A = c \o (vs \o A)
      <4>1. c \in Seq(Elem) /\ vs \in Seq(Elem) /\ A \in Seq(Elem)
        BY <1>2, <1>4, <3>1
      <4> HIDE DEF t
      <4> QED BY <4>1, JoinAssoc
    <3> QED BY <3>2 DEF c
  <2> HIDE DEF u, t
  <2> QED BY <1>4, <2>2, <2>3 DEF y
<1> HIDE DEF u, t
<1>7. FlattenSeq(B)[Len(u) + 1] = x
  <2>1. u \in Seq(Elem) /\ x \in Elem /\ t \in Seq(Elem)
    BY <1>2, <1>5
  <2>2. (u \o <<x>> \o t)[Len(u) + 1] = x
    BY <2>1, MiddleIs
  <2> QED BY ONLY <1>6, <2>2
<1> QED BY <1>2, <1>5, <1>7 DEF x


\* Reading the first element of a block.
LEMMA BlockStart ==
  ASSUME NEW q, NEW B, NEW g, Laid(q, B, g), NEW p, p \in 1..Len(B), B[p] # <<>>
  PROVE  StepAt(B, g, Len(ElemsBefore(B, p)) + 1, IterNext(q, [node |-> p, idx |-> Len(Gapped(g, p))]))
<1> DEFINE b == B[p]
           x == b[1]
           r == SubSeq(b, 2, Len(b))
           s == [x |-> x, node |-> p, next |-> Onward(g, p, <<>>, x, r)]
           i == Len(ElemsBefore(B, p)) + 1
           it == [node |-> p, idx |-> Len(Gapped(g, p))]
<1>1. b \in Seq(Elem) /\ Gapped(g, p) \in Seq(Unit)
  BY LaidNode
<1>2. x \in Elem /\ r \in Seq(Elem) /\ b = <<x>> \o r
  <2>1. b # <<>>
    OBVIOUS
  <2> HIDE DEF b
  <2> QED BY <1>1, <2>1, HeadOf
<1> HIDE DEF x, r
<1>3. <<>> \in Seq(Elem) /\ Len(<<>>) = 0 /\ <<>> \o <<x>> = <<x>>
  BY <1>2, EmptySeq, OneType, ConcatEmptySeq
<1>4. B[p] = <<>> \o <<x>> \o r
  BY <1>2, <1>3
<1>5. IterNext(q, [node |-> p, idx |-> Len(Gapped(g, p)) + Len(Bytes(<<>>))]) = s
  <2>1. Reads(q, g, p, <<>>, x, r)
    <3> HIDE DEF b
    <3> QED BY <1>2, <1>3, <1>4, ReadAt
  <2> QED BY <2>1 DEF Reads
<1>6. Len(Gapped(g, p)) + Len(Bytes(<<>>)) = Len(Gapped(g, p))
  <2>1. Len(Gapped(g, p)) \in Nat
    BY <1>1, LenProperties
  <2> QED BY <1>3, <2>1, BytesEmpty
<1>7. IterNext(q, it) = s
  BY ONLY <1>5, <1>6
<1> HIDE DEF it
<1>8. s.x = x
  OBVIOUS
<1>9. i = Len(ElemsBefore(B, p)) + Len(<<>>) + 1
  <2>1. B \in Seq(Seq(Elem))
    BY LaidType
  <2>2. ElemsBefore(B, p) \in Seq(Elem)
    BY <2>1, FlatAt
  <2>3. Len(ElemsBefore(B, p)) \in Nat
    BY <2>2, LenProperties
  <2> QED BY <1>3, <2>3
<1> HIDE DEF i
<1>10. s = [x |-> s.x, node |-> p, next |-> Onward(g, p, <<>>, s.x, r)]
  BY <1>8
<1> HIDE DEF s, b
<1>11. Spot(B, g, i, s, p, <<>>, r)
  BY <1>2, <1>3, <1>4, <1>8, <1>9, <1>10 DEF Spot
<1>12. StepAt(B, g, i, s)
  BY <1>11 DEF StepAt
<1> QED BY <1>7, <1>12 DEF i, it

LEMMA FirstStep ==
  ASSUME NEW q, NEW B, NEW g, Laid(q, B, g), AllFull(B), B # <<>>
  PROVE  StepAt(B, g, 1, IterNext(q, [node |-> 1, idx |-> q.leftIdx]))
<1>1. B \in Seq(Seq(Elem)) /\ q.leftIdx = Len(g) /\ Len(B) \in Nat
  BY LaidType
<1>2. 1 \in 1..Len(B)
  BY <1>1, EmptySeq
<1>3. B[1] # <<>>
  BY <1>2 DEF AllFull
<1>4. ElemsBefore(B, 1) = <<>>
  BY <1>1, <1>2, FlatAt
<1>5. Len(ElemsBefore(B, 1)) + 1 = 1
  BY <1>4, EmptySeq
<1>6. Gapped(g, 1) = g
  BY DEF Gapped
<1>7. StepAt(B, g, Len(ElemsBefore(B, 1)) + 1, IterNext(q, [node |-> 1, idx |-> Len(Gapped(g, 1))]))
  BY <1>2, <1>3, BlockStart
<1> QED BY ONLY <1>1, <1>5, <1>6, <1>7

LEMMA NextStep ==
  ASSUME NEW q, NEW B, NEW g, Laid(q, B, g), AllFull(B), NEW i, NEW s, StepAt(B, g, i, s),
         i < Len(FlattenSeq(B))
  PROVE  StepAt(B, g, i + 1, IterNext(q, s.next))
<1>1. PICK p, us, vs : Spot(B, g, i, s, p, us, vs)
  BY DEF StepAt
<1> DEFINE x == s.x
           E == ElemsBefore(B, p)
<1>2. /\ p \in 1..Len(B) /\ us \in Seq(Elem) /\ vs \in Seq(Elem) /\ x \in Elem
      /\ B[p] = us \o <<x>> \o vs /\ i = Len(E) + Len(us) + 1
      /\ s = [x |-> x, node |-> p, next |-> Onward(g, p, us, x, vs)]
  BY <1>1 DEF Spot
<1>3. s.next = Onward(g, p, us, x, vs)
  <2> HIDE DEF x
  <2> QED BY <1>2
<1>4. B \in Seq(Seq(Elem)) /\ Len(B) \in Nat
  BY LaidType
<1>5. E \in Seq(Elem) /\ Len(E) \in Nat /\ Len(us) \in Nat /\ Len(vs) \in Nat
  <2>1. E \in Seq(Elem)
    BY <1>2, <1>4, FlatAt
  <2> QED BY <1>2, <2>1, LenProperties
<1> HIDE DEF x, E
<1>6. CASE vs # <<>>
  <2> DEFINE y == vs[1]
             r == SubSeq(vs, 2, Len(vs))
             us2 == us \o <<x>>
             t == [x |-> y, node |-> p, next |-> Onward(g, p, us2, y, r)]
  <2>1. y \in Elem /\ r \in Seq(Elem) /\ vs = <<y>> \o r
    BY <1>2, <1>6, HeadOf
  <2> HIDE DEF y, r
  <2>2. <<x>> \in Seq(Elem) /\ <<y>> \in Seq(Elem) /\ Len(<<x>>) = 1
    BY <1>2, <2>1, OneType
  <2>3. us2 \in Seq(Elem) /\ Len(us2) = Len(us) + 1
    BY <1>2, <2>2, JoinLen
  <2>4. B[p] = us2 \o <<y>> \o r
    <3> HIDE DEF us2
    <3>1. (us2 \o <<y>>) \o r = us2 \o (<<y>> \o r)
      BY <2>1, <2>2, <2>3, JoinAssoc
    <3>2. B[p] = us2 \o vs
      BY <1>2 DEF us2
    <3> QED BY <2>1, <3>1, <3>2
  <2>5. s.next = [node |-> p, idx |-> Len(Gapped(g, p)) + Len(Bytes(us2))]
    BY <1>3, <1>6 DEF Onward
  <2> HIDE DEF us2
  <2>6. IterNext(q, [node |-> p, idx |-> Len(Gapped(g, p)) + Len(Bytes(us2))]) = t
    <3>1. Reads(q, g, p, us2, y, r)
      BY <1>2, <2>1, <2>3, <2>4, ReadAt
    <3> QED BY <3>1 DEF Reads
  <2>7. t.x = y /\ t = [x |-> t.x, node |-> p, next |-> Onward(g, p, us2, t.x, r)]
    OBVIOUS
  <2> HIDE DEF t
  <2>8. i + 1 = Len(E) + Len(us2) + 1
    BY <1>2, <1>5, <2>3
  <2>9. Spot(B, g, i + 1, t, p, us2, r)
    BY <1>2, <2>1, <2>3, <2>4, <2>7, <2>8 DEF Spot, E
  <2>10. StepAt(B, g, i + 1, t)
    BY <2>9 DEF StepAt
  <2> QED BY <2>5, <2>6, <2>10
<1>7. CASE vs = <<>>
  <2> DEFINE j == p + 1
  <2>1. ElemsBefore(B, j) = E \o B[p] /\ (p = Len(B) => FlattenSeq(B) = ElemsBefore(B, j))
    BY <1>2, <1>4, BeforeNext DEF E
  <2>2. B[p] \in Seq(Elem) /\ Len(B[p]) = Len(us) + 1
    <3>1. B[p] \in Seq(Elem)
      BY <1>2, LaidNode
    <3>2. Len(us \o <<x>> \o vs) = Len(us) + 1 + Len(vs)
      BY <1>2, MiddleIs
    <3>3. Len(vs) = 0
      BY <1>7
    <3> QED BY <1>2, <1>5, <3>1, <3>2, <3>3
  <2>3. Len(E \o B[p]) = Len(E) + Len(B[p])
    BY <1>5, <2>2, JoinLen
  <2>4. Len(ElemsBefore(B, j)) = i
    BY <1>2, <1>5, <2>1, <2>2, <2>3
  <2>5. p # Len(B)
    <3>1. i \in Nat
      BY <1>2, <1>5
    <3> QED BY <2>1, <2>4, <3>1
  <2>6. j \in 1..Len(B) /\ j # 1
    BY <1>2, <1>4, <2>5
  <2>7. B[j] # <<>>
    BY <2>6 DEF AllFull
  <2>8. s.next = [node |-> j, idx |-> 0]
    BY <1>3, <1>7 DEF Onward
  <2> HIDE DEF j
  <2>9. StepAt(B, g, Len(ElemsBefore(B, j)) + 1, IterNext(q, [node |-> j, idx |-> Len(Gapped(g, j))]))
    BY <2>6, <2>7, BlockStart
  <2>10. Len(Gapped(g, j)) = 0
    BY <2>6, EmptySeq DEF Gapped
  <2> QED BY <2>4, <2>8, <2>9, <2>10
<1> QED BY <1>6, <1>7


\* The iterator of a deque with elements visits each in turn.
LEMMA IterationIs ==
  ASSUME NEW q, NEW B, NEW g, Laid(q, B, g), q.len = Len(FlattenSeq(B)), q.len > 0, ~GapHead(q)
  PROVE  \A i \in 1..q.len : StepAt(B, g, i, Iteration(q)[i])
<1> DEFINE n == q.len
           first == IterNext(q, [node |-> 1, idx |-> q.leftIdx])
           W == [x : Elem, node : Nat, next : [node : Nat, idx : Nat]]
           Go(s) == IterNext(q, s.next)
           step == [a \in (1..n) \X W |-> IF a[1] = 1 \/ Go(a[2]) \notin W THEN first ELSE Go(a[2])]
           Body(h) == [i \in 1..n |-> IterNext(q, IF i = 1 THEN [node |-> 1, idx |-> q.leftIdx]
                                                 ELSE h[i - 1].next)]
           it == CHOOSE h : h = Body(h)
<1>1. n \in Nat /\ B \in Seq(Seq(Elem)) /\ FlattenSeq(B) \in Seq(Elem)
  BY LaidType
<1>2. FlattenSeq(B) # <<>>
  BY <1>1, EmptySeq
<1>3. AllFull(B) /\ B # <<>>
  BY <1>2, HeadHas, LaidSome, FlattenEmpty
<1>4. StepAt(B, g, 1, first)
  BY <1>3, FirstStep
<1>5. Iteration(q) = it
  BY DEF Iteration
<1> HIDE DEF first
<1>6. ASSUME NEW i, NEW s, StepAt(B, g, i, s) PROVE s \in W
  <2>1. PICK p, us, vs : Spot(B, g, i, s, p, us, vs)
    BY <1>6 DEF StepAt
  <2> DEFINE x == s.x
             o == Onward(g, p, us, x, vs)
  <2>2. /\ p \in 1..Len(B) /\ us \in Seq(Elem) /\ x \in Elem
        /\ s = [x |-> x, node |-> p, next |-> o]
    BY <2>1 DEF Spot
  <2> HIDE DEF x
  <2>3. p \in Nat /\ p + 1 \in Nat
    BY <1>1, <2>2, LenProperties
  <2>4. Len(Gapped(g, p)) + Len(Bytes(us \o <<x>>)) \in Nat
    <3>1. us \o <<x>> \in Seq(Elem)
      BY <2>2, OneType, JoinLen
    <3>2. Gapped(g, p) \in Seq(Unit)
      BY <2>2, LaidNode
    <3>3. Len(Gapped(g, p)) \in Nat
      BY <3>2, LenProperties
    <3> QED BY <3>1, <3>3, BytesSome
  <2>5. o \in [node : Nat, idx : Nat]
    BY <2>3, <2>4 DEF Onward
  <2> HIDE DEF o
  <2> QED BY <2>2, <2>3, <2>5
<1>7. ASSUME NEW i \in 1..n, NEW s, StepAt(B, g, i, s), i + 1 \in 1..n PROVE StepAt(B, g, i + 1, Go(s))
  <2>1. i < Len(FlattenSeq(B))
    BY <1>1, <1>7
  <2> QED BY <1>3, <1>7, <2>1, NextStep
<1>8. first \in W
  BY <1>4, <1>6
<1>9. step \in [(1..n) \X W -> W]
  <2> HIDE DEF W, n, Go
  <2>1. \A a \in (1..n) \X W : (IF a[1] = 1 \/ Go(a[2]) \notin W THEN first ELSE Go(a[2])) \in W
    BY <1>8
  <2> QED BY <2>1
<1> HIDE DEF Go, W, step, n
<1>10. PICK f \in [0..n -> W] : Follows(f, n, first, step)
  BY <1>1, <1>8, <1>9, RecursionExists
<1>11. \A i \in 1..n : f[i] = IF i = 1 \/ Go(f[i - 1]) \notin W THEN first ELSE Go(f[i - 1])
  <2> SUFFICES ASSUME NEW i \in 1..n
               PROVE  f[i] = IF i = 1 \/ Go(f[i - 1]) \notin W THEN first ELSE Go(f[i - 1])
    OBVIOUS
  <2>1. f[i] = step[<<i, f[i - 1]>>]
    BY <1>10 DEF Follows
  <2>2. i - 1 \in 0..n
    BY <1>1
  <2>3. f[i - 1] \in W
    BY <2>2
  <2> DEFINE c == f[i - 1]
  <2> HIDE DEF c
  <2>4. step[<<i, c>>] = IF i = 1 \/ Go(c) \notin W THEN first ELSE Go(c)
    BY <2>3 DEF step, c
  <2> QED BY <2>1, <2>4 DEF c
<1>12. 1 \in 1..n
  BY <1>1 DEF n
\* So the function the iteration is exists.
<1>13. \A i \in 1..n : StepAt(B, g, i, f[i]) /\ (i # 1 => f[i] = Go(f[i - 1]))
  <2> DEFINE Q == {m \in Nat : m + 1 \in 1..n => /\ StepAt(B, g, m + 1, f[m + 1])
                                                /\ (m # 0 => f[m + 1] = Go(f[m]))}
  <2>1. 0 \in Q
    <3>1. f[1] = first
      BY <1>11, <1>12
    <3>2. StepAt(B, g, 1, f[1])
      BY <1>4, <3>1
    <3> QED BY <3>2
  <2>2. ASSUME NEW m \in Nat, m \in Q PROVE m + 1 \in Q
    <3> DEFINE i == m + 1
    <3> SUFFICES ASSUME i + 1 \in 1..n PROVE StepAt(B, g, i + 1, f[i + 1]) /\ f[i + 1] = Go(f[i])
      OBVIOUS
    <3>1. i \in 1..n /\ i + 1 # 1 /\ (i + 1) - 1 = i
      BY <1>1
    <3>2. StepAt(B, g, i, f[i])
      BY <2>2, <3>1
    <3> HIDE DEF i
    <3>3. StepAt(B, g, i + 1, Go(f[i]))
      BY <1>7, <3>1, <3>2
    <3>4. Go(f[i]) \in W
      BY <1>6, <3>3
    <3>5. f[i + 1] = IF i + 1 = 1 \/ Go(f[(i + 1) - 1]) \notin W THEN first ELSE Go(f[(i + 1) - 1])
      BY <1>11
    <3>6. f[i + 1] = Go(f[i])
      BY <3>1, <3>4, <3>5
    <3> QED BY <3>3, <3>6
  <2> HIDE DEF Q
  <2>3. Nat \subseteq Q
    BY <2>1, <2>2, NatInd
  <2> SUFFICES ASSUME NEW i \in 1..n PROVE StepAt(B, g, i, f[i]) /\ (i # 1 => f[i] = Go(f[i - 1]))
    OBVIOUS
  <2> DEFINE j == i - 1
  <2>4. j \in Nat /\ j + 1 = i /\ (i # 1 => j # 0)
    BY <1>1
  <2>5. StepAt(B, g, j + 1, f[j + 1]) /\ (j # 0 => f[j + 1] = Go(f[j]))
    <3> HIDE DEF j
    <3>1. j \in Q
      BY <2>3, <2>4
    <3> QED BY <2>4, <3>1 DEF Q
  <2> QED BY <2>4, <2>5
<1> DEFINE w == [i \in 1..n |-> f[i]]
<1>14. ASSUME NEW i \in 1..n
       PROVE  w[i] = IterNext(q, IF i = 1 THEN [node |-> 1, idx |-> q.leftIdx] ELSE w[i - 1].next)
  <2>1. CASE i = 1
    <3>1. w[i] = first
      BY <1>11, <1>12, <2>1
    <3> HIDE DEF w
    <3> QED BY <2>1, <3>1 DEF first
  <2>2. CASE i # 1
    <3>1. i - 1 \in 1..n
      BY <1>1, <2>2
    <3>2. w[i] = Go(w[i - 1])
      BY <1>13, <2>2, <3>1
    <3> HIDE DEF w
    <3> QED BY <2>2, <3>2 DEF Go
  <2> QED BY <2>1, <2>2
<1>15. w = Body(w)
  <2>1. Body(w) = [i \in 1..n |-> Body(w)[i]] /\ w = [i \in 1..n |-> w[i]]
    BY DEF n
  <2>2. \A i \in 1..n : Body(w)[i] = IterNext(q, IF i = 1 THEN [node |-> 1, idx |-> q.leftIdx] ELSE w[i - 1].next)
    <3> HIDE DEF w
    <3> QED BY DEF n
  <2> HIDE DEF w, Body
  <2> QED BY ZenonT(40), <1>14, <2>1, <2>2
<1>16. it = Body(it)
  <2> HIDE DEF Body, w
  <2>1. \E h : h = Body(h)
    BY <1>15
  <2> QED BY <2>1
<1> HIDE DEF it
<1>17. \A i \in 1..n : it[i] = IterNext(q, IF i = 1 THEN [node |-> 1, idx |-> q.leftIdx] ELSE it[i - 1].next)
  BY <1>16 DEF n
<1> HIDE DEF w, Body
\* And there is only one.
<1>18. \A i \in 1..n : StepAt(B, g, i, it[i])
  <2> DEFINE Q == {m \in Nat : m + 1 \in 1..n => StepAt(B, g, m + 1, it[m + 1])}
  <2>1. 0 \in Q
    <3>1. it[1] = first
      BY <1>12, <1>17 DEF first
    <3>2. StepAt(B, g, 1, it[1])
      BY <1>4, <3>1
    <3> QED BY <3>2
  <2>2. ASSUME NEW m \in Nat, m \in Q PROVE m + 1 \in Q
    <3> DEFINE i == m + 1
    <3> SUFFICES ASSUME i + 1 \in 1..n PROVE StepAt(B, g, i + 1, it[i + 1])
      OBVIOUS
    <3>1. i \in 1..n /\ i + 1 # 1 /\ (i + 1) - 1 = i
      BY <1>1
    <3>2. StepAt(B, g, i, it[i])
      BY <2>2, <3>1
    <3> HIDE DEF i
    <3>3. StepAt(B, g, i + 1, Go(it[i]))
      BY <1>7, <3>1, <3>2
    <3>4. it[i + 1] = Go(it[i])
      BY <1>17, <3>1 DEF Go
    <3> QED BY <3>3, <3>4
  <2> HIDE DEF Q
  <2>3. Nat \subseteq Q
    BY <2>1, <2>2, NatInd
  <2> SUFFICES ASSUME NEW i \in 1..n PROVE StepAt(B, g, i, it[i])
    OBVIOUS
  <2> DEFINE j == i - 1
  <2>4. j \in Nat /\ j + 1 = i
    BY <1>1
  <2>5. StepAt(B, g, j + 1, it[j + 1])
    <3> HIDE DEF j
    <3>1. j \in Q
      BY <2>3, <2>4
    <3> QED BY <2>4, <3>1 DEF Q
  <2> QED BY <2>4, <2>5
<1> QED BY <1>5, <1>18 DEF n

LEMMA ElemsAre ==
  ASSUME NEW q, NEW B, NEW g, Laid(q, B, g), q.len = Len(FlattenSeq(B)), ~GapHead(q)
  PROVE  Elems(q) = FlattenSeq(B)
<1> DEFINE xs == FlattenSeq(B)
           n == q.len
<1>1. xs \in Seq(Elem) /\ n \in Nat /\ n = Len(xs)
  BY LaidType
<1>2. Elems(q) = [i \in 1..n |-> Iteration(q)[i].x]
  BY DEF Elems
<1>3. ASSUME NEW i \in 1..n PROVE Iteration(q)[i].x = xs[i]
  <2>1. n > 0
    BY <1>1
  <2>2. StepAt(B, g, i, Iteration(q)[i])
    BY <2>1, IterationIs
  <2> QED BY <2>2, StepElem
<1>4. xs = [i \in 1..n |-> xs[i]]
  BY <1>1, LenProperties
<1> DEFINE it == Iteration(q)
<1> HIDE DEF xs, n, it
<1>5. \A i \in 1..n : it[i].x = xs[i]
  BY <1>3 DEF it
<1>6. [i \in 1..n |-> it[i].x] = [i \in 1..n |-> xs[i]]
  BY ONLY <1>5
<1>7. [i \in 1..n |-> it[i].x] = xs
  BY ONLY <1>4, <1>6
<1> QED BY ONLY <1>2, <1>7 DEF xs, n, it


-----------------------------------------------------------------------------
(* Insertion *)

\* The nodes ns hold the blocks B, none of them empty, after the gap g.
Full(ns, B, g) == Blocks(ns, B, g) /\ AllFull(B) /\ B # <<>>

LEMMA FullType ==
  ASSUME NEW ns, NEW B, NEW g, Full(ns, B, g)
  PROVE  /\ ns \in Seq(Chunk) /\ B \in Seq(Seq(Elem)) /\ g \in Seq(Unit) /\ Len(ns) = Len(B)
         /\ Len(B) \in Nat \ {0} /\ ns # <<>>
<1>1. /\ ns \in Seq(Chunk) /\ B \in Seq(Seq(Elem)) /\ g \in Seq(Unit) /\ Len(ns) = Len(B) /\ B # <<>>
  BY DEF Full, Blocks
<1>2. Len(B) \in Nat \ {0}
  BY <1>1, EmptySeq, LenProperties
<1> QED BY <1>1, <1>2, EmptySeq

LEMMA FullLaid ==
  ASSUME NEW l, l \in Nat, NEW ns, NEW B, NEW g, Full(ns, B, g)
  PROVE  Laid([len |-> l, nodes |-> ns, leftIdx |-> Len(g)], B, g)
BY LaidFull DEF Full

LEMMA NodesJoin ==
  ASSUME NEW m, NEW A, NEW g, Full(m, A, g), NEW n, NEW B, Blocks(n, B, <<>>), AllFull(B)
  PROVE  Full(m \o n, A \o B, g) /\ FlattenSeq(A \o B) = FlattenSeq(A) \o FlattenSeq(B)
<1>1. /\ m # <<>> /\ A \in Seq(Seq(Elem)) /\ Len(A) \in Nat \ {0} /\ B \in Seq(Seq(Elem)) /\ Len(B) \in Nat
  BY FullType, LenProperties DEF Blocks
<1>2. Blocks(m \o n, A \o B, g)
  BY <1>1, BlocksJoin DEF Full
<1>3. AllFull(A \o B)
  BY <1>1, FullJoin DEF Full
<1>4. A \o B # <<>>
  <2>1. Len(A \o B) = Len(A) + Len(B)
    BY <1>1, JoinLen
  <2>2. Len(A \o B) # 0
    BY <1>1, <2>1
  <2> QED BY <2>2, EmptySeq
<1>5. FlattenSeq(A \o B) = FlattenSeq(A) \o FlattenSeq(B)
  BY <1>1, FlattenJoin
<1> QED BY <1>2, <1>3, <1>4, <1>5 DEF Full

LEMMA NodeFull ==
  ASSUME NEW nd, nd \in Chunk, NEW b, b \in Seq(Elem), b # <<>>, NEW g, g \in Seq(Unit),
         nd.buf = g \o Bytes(b), Len(nd.buf) <= nd.cap
  PROVE  Full(<<nd>>, <<b>>, g) /\ FlattenSeq(<<b>>) = b
<1>1. Blocks(<<nd>>, <<b>>, g)
  BY BlocksOne
<1>2. AllFull(<<b>>)
  BY FullOne
<1>3. <<b>> # <<>>
  OBVIOUS
<1> QED BY <1>1, <1>2, <1>3, FlattenOne DEF Full

\* The nodes before the p-th, and then others.
LEMMA TopIs ==
  ASSUME NEW ns, NEW B, NEW g, Full(ns, B, g), NEW p, p \in 1..Len(B), NEW h, h \in Seq(Unit),
         p = 1 \/ h = g, NEW mid, NEW M, Full(mid, M, Gapped(h, p))
  PROVE  /\ Full(SubSeq(ns, 1, p - 1) \o mid, SubSeq(B, 1, p - 1) \o M, h)
         /\ FlattenSeq(SubSeq(B, 1, p - 1) \o M) = ElemsBefore(B, p) \o FlattenSeq(M)
<1> DEFINE i == p - 1
           ms == SubSeq(ns, 1, i)
           C == SubSeq(B, 1, i)
<1>1. /\ ns \in Seq(Chunk) /\ B \in Seq(Seq(Elem)) /\ g \in Seq(Unit) /\ Len(ns) = Len(B) /\ Len(B) \in Nat
      /\ mid \in Seq(Chunk) /\ M \in Seq(Seq(Elem))
  BY FullType
<1>2. i \in 0..Len(B)
  BY <1>1
<1>3. Blocks(ms, C, g) /\ AllFull(C)
  <2> HIDE DEF i
  <2>1. Blocks(ms, C, g)
    BY <1>2, BlocksCut DEF Full
  <2>2. AllFull(C)
    BY <1>2, BlocksCut DEF Full
  <2> QED BY <2>1, <2>2
<1>4. FlattenSeq(C) = ElemsBefore(B, p)
  BY DEF ElemsBefore
<1>5. ms \in Seq(Chunk) /\ C \in Seq(Seq(Elem)) /\ Len(C) = i
  <2> HIDE DEF i
  <2> QED BY <1>1, <1>2, CutAt
<1>6. CASE p = 1
  <2>1. ms = <<>> /\ C = <<>>
    <3>1. Len(C) = 0
      BY <1>5, <1>6
    <3>2. Len(ms) = Len(C)
      BY <1>3 DEF Blocks
    <3> HIDE DEF ms, C
    <3> QED BY <1>5, <3>1, <3>2, EmptySeq
  <2>2. Gapped(h, p) = h
    BY <1>6 DEF Gapped
  <2>3. <<>> \o mid = mid /\ <<>> \o M = M
    BY <1>1, ConcatEmptySeq
  <2>4. FlattenSeq(M) \in Seq(Elem)
    BY <1>1, FlattenType
  <2>5. <<>> \o FlattenSeq(M) = FlattenSeq(M)
    BY <2>4, ConcatEmptySeq
  <2> HIDE DEF ms, C
  <2>6. Full(ms \o mid, C \o M, h)
    BY <2>1, <2>2, <2>3
  <2>7. FlattenSeq(C \o M) = ElemsBefore(B, p) \o FlattenSeq(M)
    BY <1>4, <2>1, <2>3, <2>5, FlattenEmpty
  <2> QED BY <2>6, <2>7 DEF ms, C, i
<1>7. CASE p # 1
  <2>1. Gapped(h, p) = <<>> /\ h = g
    BY <1>7 DEF Gapped
  <2>2. C # <<>>
    <3>1. Len(C) # 0
      BY <1>1, <1>5, <1>7
    <3> HIDE DEF C
    <3> QED BY <3>1, EmptySeq
  <2> HIDE DEF ms, C
  <2>3. Full(ms, C, h)
    BY <1>3, <2>1, <2>2 DEF Full
  <2>4. Blocks(mid, M, <<>>) /\ AllFull(M)
    BY <2>1 DEF Full
  <2>5. Full(ms \o mid, C \o M, h)
    BY <2>3, <2>4, NodesJoin
  <2>6. FlattenSeq(C \o M) = FlattenSeq(C) \o FlattenSeq(M)
    BY <2>3, <2>4, NodesJoin
  <2> QED BY <1>4, <2>5, <2>6 DEF ms, C, i
<1> QED BY <1>6, <1>7

\* And the nodes after the p-th.
LEMMA RestIs ==
  ASSUME NEW ns, NEW B, NEW g, Full(ns, B, g), NEW p, p \in 1..Len(B),
         NEW ms, NEW C, NEW h, Full(ms, C, h)
  PROVE  /\ Full(ms \o SubSeq(ns, p + 1, Len(ns)), C \o SubSeq(B, p + 1, Len(B)), h)
         /\ FlattenSeq(C \o SubSeq(B, p + 1, Len(B))) = FlattenSeq(C) \o ElemsAfter(B, p)
<1> DEFINE mt == SubSeq(ns, p + 1, Len(ns))
           D == SubSeq(B, p + 1, Len(B))
<1>1. Len(B) \in Nat
  BY FullType
<1>2. p \in 0..Len(B) /\ p # 0
  BY <1>1
<1>3. Blocks(mt, D, IF p = 0 THEN g ELSE <<>>)
  BY <1>2, BlocksCut DEF Full
<1>4. AllFull(D)
  BY <1>2, BlocksCut DEF Full
<1>5. FlattenSeq(D) = ElemsAfter(B, p)
  BY DEF ElemsAfter
<1> HIDE DEF mt, D
<1>6. Blocks(mt, D, <<>>)
  BY <1>2, <1>3
<1>7. Full(ms \o mt, C \o D, h)
  BY <1>4, <1>6, NodesJoin
<1>8. FlattenSeq(C \o D) = FlattenSeq(C) \o FlattenSeq(D)
  BY <1>4, <1>6, NodesJoin
<1> QED BY <1>5, <1>7, <1>8 DEF mt, D


\* r is d, whose nodes hold B, with x pushed.
Pushed(d, r, B, g, x) ==
  \E C : /\ Full(r.nodes, C, g) /\ FlattenSeq(C) = FlattenSeq(B) \o <<x>>
         /\ r = [len |-> d.len + 1, nodes |-> r.nodes, leftIdx |-> Len(g)]

LEMMA FullPush ==
  ASSUME NEW l, l \in Nat, NEW ns, NEW B, NEW g, Full(ns, B, g), NEW x, x \in Elem,
         NEW d, d = [len |-> l, nodes |-> ns, leftIdx |-> Len(g)]
  PROVE  Pushed(d, RPush(d, x), B, g, x)
<1> DEFINE r == RPush(d, x)
<1>1. Laid(d, B, g)
  BY FullLaid
<1> HIDE DEF r
<1>2. PICK C : /\ Laid(r, C, g) /\ AllFull(C) /\ C # <<>>
               /\ FlattenSeq(C) = FlattenSeq(B) \o <<x>> /\ r.len = d.len + 1
  BY <1>1, RPushIs DEF r, Full
<1>3. r = [len |-> r.len, nodes |-> r.nodes, leftIdx |-> r.leftIdx] /\ r.leftIdx = Len(g)
  BY <1>2, LaidType
<1>5. Full(r.nodes, C, g)
  BY <1>2 DEF Full, Laid
<1> QED BY <1>2, <1>3, <1>5 DEF r, Pushed

\* A prefix with another last element.
LEMMA LastSet ==
  ASSUME NEW S, NEW s, s \in Seq(S), NEW p, p \in 1..Len(s), NEW y, y \in S
  PROVE  [SubSeq(s, 1, p) EXCEPT ![p] = y] = SubSeq(s, 1, p - 1) \o <<y>>
<1> DEFINE r == SubSeq(s, 1, p - 1)
           c == SubSeq(s, 1, p)
           e == [c EXCEPT ![p] = y]
           a == Append(r, y)
<1>1. r \in Seq(S) /\ s[p] \in S /\ Len(r) = p - 1
  BY SplitAt
<1>2. c = r \o <<s[p]>>
  BY SplitAt
<1> HIDE DEF r, c
<1>3. r \o <<s[p]>> = Append(r, s[p]) /\ r \o <<y>> = a
  BY <1>1, AppendIsConcat
<1>4. p - 1 \in Nat /\ (p - 1) + 1 = p
  BY LenProperties
<1>5. c \in Seq(S) /\ Len(c) = p /\ \A j \in 1..(p - 1) : c[j] = r[j]
  <2> DEFINE z == s[p]
             b == Append(r, z)
  <2> HIDE DEF z
  <2>1. b \in Seq(S)
    BY <1>1, AppendProperties DEF z
  <2>2. Len(b) = Len(r) + 1
    BY <1>1, AppendProperties DEF z
  <2>3. \A j \in 1..Len(r) : b[j] = r[j]
    BY <1>1, AppendProperties DEF z
  <2>4. c = b
    BY <1>2, <1>3 DEF z
  <2> HIDE DEF b
  <2> QED BY <1>1, <1>4, <2>1, <2>2, <2>3, <2>4
<1>6. a \in Seq(S) /\ Len(a) = p /\ a[p] = y /\ \A j \in 1..(p - 1) : a[j] = r[j]
  <2>1. a \in Seq(S)
    BY <1>1, AppendProperties
  <2>2. Len(a) = Len(r) + 1
    BY <1>1, AppendProperties
  <2>3. a[Len(r) + 1] = y
    BY <1>1, AppendProperties
  <2>4. \A j \in 1..Len(r) : a[j] = r[j]
    BY <1>1, AppendProperties
  <2> HIDE DEF a
  <2> QED BY <1>1, <1>4, <2>1, <2>2, <2>3, <2>4
<1>7. e \in Seq(S) /\ Len(e) = p /\ \A j \in 1..p : e[j] = IF j = p THEN y ELSE c[j]
  <2>0. p \in 1..Len(c)
    BY <1>4, <1>5
  <2>1. e \in Seq(S)
    BY <1>5, <2>0, ExceptSeq
  <2>2. Len(e) = Len(c)
    BY <1>5, <2>0, ExceptSeq
  <2>3. \A j \in 1..Len(c) : e[j] = IF j = p THEN y ELSE c[j]
    BY <1>5, <2>0, ExceptSeq
  <2> HIDE DEF e
  <2> QED BY <1>5, <2>1, <2>2, <2>3
<1> HIDE DEF e, a
<1>8. ASSUME NEW j \in 1..p PROVE e[j] = a[j]
  <2>1. CASE j = p
    BY <1>6, <1>7, <2>1
  <2>2. CASE j # p
    <3>1. j \in 1..(p - 1)
      BY <1>4, <2>2
    <3> QED BY <1>5, <1>6, <1>7, <2>2, <3>1
  <2> QED BY <2>1, <2>2
<1>9. e = a
  BY <1>6, <1>7, <1>8, SeqEqual
<1> QED BY <1>3, <1>9 DEF e, c, r


\* What is in B up to the element of the step, and what is after it.
Upto(B, p, us, x) == ElemsBefore(B, p) \o (us \o <<x>>)
Beyond(B, p, vs) == vs \o ElemsAfter(B, p)

LEMMA SpotSplit ==
  ASSUME NEW q, NEW B, NEW g, Laid(q, B, g), NEW i, NEW s, NEW p, NEW us, NEW vs,
         Spot(B, g, i, s, p, us, vs)
  PROVE  /\ Upto(B, p, us, s.x) \in Seq(Elem) /\ Beyond(B, p, vs) \in Seq(Elem)
         /\ Len(Upto(B, p, us, s.x)) = i
         /\ FlattenSeq(B) = Upto(B, p, us, s.x) \o Beyond(B, p, vs)
         /\ ElemsBefore(B, p) \in Seq(Elem) /\ ElemsAfter(B, p) \in Seq(Elem)
<1> DEFINE x == s.x
           E == ElemsBefore(B, p)
           A == ElemsAfter(B, p)
           c == us \o <<x>>
<1>1. /\ p \in 1..Len(B) /\ us \in Seq(Elem) /\ vs \in Seq(Elem) /\ x \in Elem
      /\ B[p] = c \o vs /\ i = Len(E) + Len(us) + 1
  BY DEF Spot
<1>2. B \in Seq(Seq(Elem))
  BY LaidType
<1>3. E \in Seq(Elem) /\ A \in Seq(Elem) /\ FlattenSeq(B) = E \o B[p] \o A
  <2> HIDE DEF x, c
  <2> QED BY <1>1, <1>2, FlatAt
<1> HIDE DEF x, E, A
<1>4. c \in Seq(Elem) /\ Len(c) = Len(us) + 1 /\ Len(us) \in Nat /\ Len(E) \in Nat
  <2>1. <<x>> \in Seq(Elem) /\ Len(<<x>>) = 1
    BY <1>1, OneType
  <2>2. us \o <<x>> \in Seq(Elem) /\ Len(us \o <<x>>) = Len(us) + Len(<<x>>)
    BY <1>1, <2>1, JoinLen
  <2> QED BY <1>1, <1>3, <2>1, <2>2, LenProperties
<1> HIDE DEF c
<1>5. E \o c \in Seq(Elem) /\ Len(E \o c) = Len(E) + Len(c) /\ vs \o A \in Seq(Elem)
  BY <1>1, <1>3, <1>4, JoinLen
<1>6. Len(E \o c) = i
  BY <1>1, <1>4, <1>5
<1>7. (E \o (c \o vs)) \o A = (E \o c) \o (vs \o A)
  <2> DEFINE d == E \o c
  <2>1. (E \o c) \o vs = E \o (c \o vs)
    <3>1. E \in Seq(Elem) /\ c \in Seq(Elem) /\ vs \in Seq(Elem)
      BY <1>1, <1>3, <1>4
    <3> HIDE DEF d
    <3> QED BY <3>1, JoinAssoc
  <2> HIDE DEF d
  <2>2. (d \o vs) \o A = d \o (vs \o A)
    <3>1. d \in Seq(Elem) /\ vs \in Seq(Elem) /\ A \in Seq(Elem)
      BY <1>1, <1>3, <1>5 DEF d
    <3> QED BY SMTT(30), <3>1, JoinAssoc
  <2> QED BY <2>1, <2>2 DEF d
<1>8. FlattenSeq(B) = (E \o c) \o (vs \o A)
  BY ONLY <1>1, <1>3, <1>7
<1> QED BY <1>3, <1>5, <1>6, <1>8 DEF x, E, A, c, Upto, Beyond

\* The buffer around the step.
Surrounds(q, g, s, p, us, vs) ==
  LET G == Gapped(g, p)
      top == G \o Bytes(us \o <<s.x>>)
      buf == q.nodes[p].buf
  IN /\ G \in Seq(Unit) /\ Bytes(us) \in Seq(Unit) /\ Bytes(vs) \in Seq(Unit)
     /\ Bytes(us \o <<s.x>>) = Bytes(us) \o EncodeDeqEntry(s.x)
     /\ top \in Seq(Unit) /\ us \o <<s.x>> \in Seq(Elem)
     /\ Len(top) = Len(G) + Len(Bytes(us)) + GetEncodeDeqEntrySize(s.x)
     /\ buf = top \o Bytes(vs)
     /\ s.node = p
     /\ s.next.idx = IF vs = <<>> THEN 0 ELSE Len(top)
     /\ Len(top) \in Nat \ {0}
     /\ q.nodes[p] \in Chunk /\ Len(buf) <= q.nodes[p].cap

LEMMA SpotBuf ==
  ASSUME NEW q, NEW B, NEW g, Laid(q, B, g), NEW i, NEW s, NEW p, NEW us, NEW vs,
         Spot(B, g, i, s, p, us, vs)
  PROVE  Surrounds(q, g, s, p, us, vs)
<1> DEFINE x == s.x
           G == Gapped(g, p)
           c == us \o <<x>>
           e == EncodeDeqEntry(x)
           top == G \o Bytes(c)
           buf == q.nodes[p].buf
<1>1. /\ p \in 1..Len(B) /\ us \in Seq(Elem) /\ vs \in Seq(Elem) /\ x \in Elem
      /\ B[p] = c \o vs /\ s = [x |-> x, node |-> p, next |-> Onward(g, p, us, x, vs)]
  BY DEF Spot
<1>2. s.node = p /\ s.next = Onward(g, p, us, x, vs)
  <2> HIDE DEF x
  <2> QED BY <1>1
<1>3. q.nodes[p] \in Chunk /\ Len(buf) <= q.nodes[p].cap /\ G \in Seq(Unit) /\ buf = G \o Bytes(B[p])
  <2> HIDE DEF c
  <2>1. /\ q.nodes[p] \in Chunk /\ Gapped(g, p) \in Seq(Unit)
        /\ q.nodes[p].buf = Gapped(g, p) \o Bytes(B[p]) /\ Len(q.nodes[p].buf) <= q.nodes[p].cap
    BY <1>1, LaidNode
  <2> QED BY <2>1
<1> HIDE DEF x, G, buf
<1>4. <<x>> \in Seq(Elem) /\ c \in Seq(Elem)
  BY <1>1, OneType, JoinLen
<1>5. Bytes(c) = Bytes(us) \o e
  BY <1>1, <1>4, BytesJoin, BytesOne
<1>6. /\ Bytes(us) \in Seq(Unit) /\ e \in Seq(Unit) /\ Len(e) = GetEncodeDeqEntrySize(x)
      /\ Len(e) \in Nat \ {0} /\ Bytes(vs) \in Seq(Unit) /\ Bytes(c) \in Seq(Unit)
  <2> HIDE DEF c
  <2> QED BY <1>1, <1>4, BytesType, EntrySize
<1> HIDE DEF c, e
<1>7. Bytes(c \o vs) = Bytes(c) \o Bytes(vs)
  BY <1>1, <1>4, BytesJoin
<1>8. /\ Len(Bytes(c)) = Len(Bytes(us)) + Len(e) /\ Len(Bytes(us)) \in Nat
      /\ top \in Seq(Unit) /\ Len(top) = Len(G) + Len(Bytes(c)) /\ Len(G) \in Nat
  <2>1. Len(Bytes(us) \o e) = Len(Bytes(us)) + Len(e) /\ Len(Bytes(us)) \in Nat
    BY <1>6, JoinLen
  <2>2. top \in Seq(Unit) /\ Len(top) = Len(G) + Len(Bytes(c)) /\ Len(G) \in Nat
    BY <1>3, <1>6, JoinLen
  <2> QED BY <1>5, <2>1, <2>2
<1>9. buf = top \o Bytes(vs)
  <2> DEFINE y == Bytes(c)
             z == Bytes(vs)
  <2>1. G \in Seq(Unit) /\ y \in Seq(Unit) /\ z \in Seq(Unit)
    BY <1>3, <1>6
  <2> HIDE DEF y, z
  <2>2. (G \o y) \o z = G \o (y \o z)
    <3> HIDE DEF top
    <3> QED BY <2>1, JoinAssoc
  <2> QED BY <1>1, <1>3, <1>7, <2>2 DEF y, z
<1>10. s.next.idx = IF vs = <<>> THEN 0 ELSE Len(top)
  <2>1. Onward(g, p, us, x, vs).idx = IF vs = <<>> THEN 0 ELSE Len(G) + Len(Bytes(c))
    BY DEF Onward, G, c
  <2> QED BY <1>2, <1>8, <2>1
<1> HIDE DEF top
<1>11. Len(top) = Len(G) + Len(Bytes(us)) + GetEncodeDeqEntrySize(x) /\ Len(top) \in Nat \ {0}
  <2> DEFINE a == Len(Bytes(us))
             b == Len(Bytes(c))
             k == Len(e)
             n == Len(G)
  <2>1. Len(top) = n + b /\ b = a + k /\ n \in Nat /\ a \in Nat /\ k \in Nat \ {0}
    BY <1>6, <1>8
  <2>2. k = GetEncodeDeqEntrySize(x)
    BY <1>6
  <2> HIDE DEF a, b, k, n
  <2>3. Len(top) = n + a + k /\ Len(top) \in Nat \ {0}
    BY <2>1
  <2> QED BY <2>2, <2>3 DEF a, b, n
<1> QED BY <1>2, <1>3, <1>4, <1>5, <1>6, <1>8, <1>9, <1>10, <1>11 DEF top, x, G, c, e, buf, Surrounds


\* r holds xs, one element more than q.
Extended(q, r, xs) == \E C, h : Laid(r, C, h) /\ FlattenSeq(C) = xs /\ r.len = q.len + 1

LEMMA ExtendedIs ==
  ASSUME NEW q, q.len \in Nat, NEW ns, NEW C, NEW h, Full(ns, C, h), NEW r,
         r = [len |-> q.len + 1, nodes |-> ns, leftIdx |-> Len(h)]
  PROVE  Extended(q, r, FlattenSeq(C))
<1> DEFINE l == q.len + 1
<1>1. l \in Nat
  OBVIOUS
<1>2. r = [len |-> l, nodes |-> ns, leftIdx |-> Len(h)]
  OBVIOUS
<1> HIDE DEF l
<1>3. Laid([len |-> l, nodes |-> ns, leftIdx |-> Len(h)], C, h)
  BY <1>1, FullLaid
<1>4. Laid(r, C, h) /\ r.len = l
  BY ONLY <1>2, <1>3
<1> QED BY <1>4 DEF Extended, l

\* What insertAfterPivotNode does to the p-th node.
AfterNode(q, x, p, at) ==
  LET rest == SubSeq(q.nodes, p + 1, Len(q.nodes))
      upTo == [q EXCEPT !.nodes = SubSeq(@, 1, p)]
  IN IF at = 0
     THEN [RPush(upTo, x) EXCEPT !.nodes = @ \o rest]
     ELSE LET buf == q.nodes[p].buf
              cut == [upTo EXCEPT !.nodes[p].buf = SubSeq(@, 1, at)]
          IN [RPush(cut, x) EXCEPT !.nodes = @ \o <<Copied(SubSeq(buf, at + 1, Len(buf)))>> \o rest]

\* x is put after the step's element.
InsertedAfter(q, r, B, p, us, y, x, vs) == Extended(q, r, (Upto(B, p, us, y) \o <<x>>) \o Beyond(B, p, vs))

LEMMA InsertAfterIs ==
  ASSUME NEW q, NEW B, NEW g, Laid(q, B, g), AllFull(B), NEW i, NEW s, NEW p, NEW us, NEW vs,
         Spot(B, g, i, s, p, us, vs), NEW x, x \in Elem
  PROVE  InsertedAfter(q, insertAfterPivotNode(q, x, s), B, p, us, s.x, x, vs)
<1> DEFINE y == s.x
           ns == q.nodes
           at == s.next.idx
           rest == SubSeq(ns, p + 1, Len(ns))
           m1 == SubSeq(ns, 1, p)
           upTo == [q EXCEPT !.nodes = m1]
           buf == ns[p].buf
           c == us \o <<y>>
           top == Gapped(g, p) \o Bytes(c)
           P == Upto(B, p, us, y)
           S == Beyond(B, p, vs)
           A == ElemsAfter(B, p)
           cut == [upTo EXCEPT !.nodes[p].buf = SubSeq(@, 1, at)]
           tailnd == Copied(SubSeq(buf, at + 1, Len(buf)))
           res == insertAfterPivotNode(q, x, s)
<1>1. /\ q.len \in Nat /\ ns \in Seq(Chunk) /\ B \in Seq(Seq(Elem)) /\ g \in Seq(Unit)
      /\ Len(ns) = Len(B) /\ Len(B) \in Nat /\ q.leftIdx = Len(g)
      /\ q = [len |-> q.len, nodes |-> ns, leftIdx |-> q.leftIdx] /\ Blocks(ns, B, g)
  BY LaidType DEF Laid
<1>2. /\ p \in 1..Len(B) /\ us \in Seq(Elem) /\ vs \in Seq(Elem) /\ y \in Elem /\ B[p] = c \o vs
  BY DEF Spot
<1>3. /\ P \in Seq(Elem) /\ S \in Seq(Elem) /\ A \in Seq(Elem)
  BY SpotSplit
<1>4. /\ c \in Seq(Elem) /\ top \in Seq(Unit) /\ Len(top) \in Nat \ {0} /\ buf = top \o Bytes(vs)
      /\ s.node = p /\ at = (IF vs = <<>> THEN 0 ELSE Len(top)) /\ Bytes(vs) \in Seq(Unit)
      /\ ns[p] \in Chunk /\ Len(buf) <= ns[p].cap /\ Gapped(g, p) \in Seq(Unit)
  <2>1. Surrounds(q, g, s, p, us, vs)
    BY SpotBuf
  <2> QED BY <2>1 DEF Surrounds
<1>5. Full(ns, B, g)
  BY <1>1, <1>2, EmptySeq DEF Full
<1>6. upTo = [len |-> q.len, nodes |-> m1, leftIdx |-> Len(g)]
  <2> HIDE DEF m1
  <2>1. upTo = [len |-> q.len, nodes |-> m1, leftIdx |-> q.leftIdx]
    BY <1>1, DequeNodes
  <2> QED BY <1>1, <2>1
<1>7. res = IF at = 0 THEN [RPush(upTo, x) EXCEPT !.nodes = @ \o rest]
            ELSE [RPush(cut, x) EXCEPT !.nodes = (@ \o <<tailnd>>) \o rest]
  <2>1. res = AfterNode(q, x, s.node, s.next.idx)
    BY DEF insertAfterPivotNode, AfterNode
  <2>2. res = AfterNode(q, x, p, at)
    <3> HIDE DEF res
    <3> QED BY <1>4, <2>1
  <2>3. AfterNode(q, x, p, at) = IF at = 0 THEN [RPush(upTo, x) EXCEPT !.nodes = @ \o rest]
            ELSE [RPush(cut, x) EXCEPT !.nodes = (@ \o <<tailnd>>) \o rest]
    BY DEF AfterNode
  <2> HIDE DEF upTo, cut, res
  <2> QED BY <2>2, <2>3
<1> HIDE DEF y, res, upTo, c
\* The pivot is the last of its node.
<1>8. CASE vs = <<>>
  <2> DEFINE C0 == SubSeq(B, 1, p)
  <2>1. Full(m1, C0, g) /\ FlattenSeq(C0) = P
    <3>1. p \in 0..Len(B)
      BY <1>1, <1>2
    <3>2. Blocks(m1, C0, g)
      BY <1>1, <3>1, BlocksCut
    <3>3. AllFull(C0)
      BY <1>1, <3>1, BlocksCut
    <3>4. Len(C0) = p
      BY <1>1, <3>1, CutAt
    <3>5. C0 # <<>>
      <4> HIDE DEF C0
      <4> QED BY <1>2, <3>4, EmptySeq
    <3>6. ElemsBefore(B, p + 1) = ElemsBefore(B, p) \o B[p]
      BY <1>1, <1>2, BeforeNext
    <3>7. ElemsBefore(B, p + 1) = FlattenSeq(C0)
      BY <1>2 DEF ElemsBefore
    <3>8. B[p] = c
      BY <1>2, <1>4, <1>8, ConcatEmptySeq
    <3> HIDE DEF m1, C0
    <3>9. FlattenSeq(C0) = P
      BY <3>6, <3>7, <3>8 DEF Upto, c
    <3> QED BY <3>2, <3>3, <3>5, <3>9 DEF Full
  <2> HIDE DEF C0, P, m1
  <2> DEFINE r == RPush(upTo, x)
  <2>2. PICK C : /\ Full(r.nodes, C, g) /\ FlattenSeq(C) = FlattenSeq(C0) \o <<x>>
                 /\ r = [len |-> q.len + 1, nodes |-> r.nodes, leftIdx |-> Len(g)]
    <3> DEFINE l == q.len
    <3>1. l \in Nat /\ upTo = [len |-> l, nodes |-> m1, leftIdx |-> Len(g)]
      BY <1>1, <1>6
    <3> HIDE DEF l
    <3>2. Pushed(upTo, r, C0, g, x)
      BY <2>1, <3>1, FullPush
    <3>3. upTo.len = l
      BY <3>1
    <3> HIDE DEF r
    <3> QED BY <3>2, <3>3 DEF l, Pushed
  <2> DEFINE D == C \o SubSeq(B, p + 1, Len(B))
             l1 == q.len + 1
             ms == r.nodes \o rest
  <2>3. Full(ms, D, g) /\ FlattenSeq(D) = FlattenSeq(C) \o A
    <3> HIDE DEF r
    <3>1. Full(r.nodes, C, g)
      BY <2>2
    <3>2. Full(ms, D, g)
      BY <1>2, <1>5, <3>1, RestIs
    <3>3. FlattenSeq(D) = FlattenSeq(C) \o A
      BY ZenonT(40), <1>2, <1>5, <3>1, RestIs
    <3> QED BY <3>2, <3>3
  <2>4. res = [r EXCEPT !.nodes = @ \o rest]
    BY <1>4, <1>7, <1>8
  <2>5. res = [len |-> l1, nodes |-> ms, leftIdx |-> Len(g)]
    <3>1. res = [r EXCEPT !.nodes = ms]
      BY <2>4
    <3>2. r = [len |-> l1, nodes |-> r.nodes, leftIdx |-> Len(g)]
      BY <2>2
    <3> HIDE DEF r, ms, l1
    <3> QED BY ONLY <3>1, <3>2, DequeNodes
  <2>6. FlattenSeq(D) = (P \o <<x>>) \o S
    <3>1. S = A
      BY <1>3, <1>8, ConcatEmptySeq DEF Beyond
    <3> HIDE DEF D, S, A
    <3> QED BY ONLY <2>1, <2>2, <2>3, <3>1
  <2> HIDE DEF D, ms, S, r
  <2>7. Extended(q, res, FlattenSeq(D))
    BY <1>1, <2>3, <2>5, ExtendedIs DEF l1
  <2> QED BY <2>6, <2>7 DEF InsertedAfter, P, S, res, y
\* The node is cut after the pivot.
<1>9. CASE vs # <<>>
  <2> DEFINE nd == Node(top, ns[p].cap)
             m0 == SubSeq(ns, 1, p - 1) \o <<nd>>
             C0 == SubSeq(B, 1, p - 1) \o <<c>>
  <2>1. at = Len(top) /\ at # 0 /\ SubSeq(buf, 1, at) = top /\ SubSeq(buf, at + 1, Len(buf)) = Bytes(vs)
    <3>1. at = Len(top) /\ at # 0
      BY <1>4, <1>9
    <3> DEFINE w == Bytes(vs)
    <3>2. top \in Seq(Unit) /\ w \in Seq(Unit) /\ buf = top \o w
      BY <1>4
    <3> HIDE DEF top, w, buf
    <3>3. SubSeq(top \o w, 1, Len(top)) = top /\ SubSeq(top \o w, Len(top) + 1, Len(top \o w)) = w
      BY <3>2, CutJoined
    <3> HIDE DEF at
    <3> QED BY <3>1, <3>2, <3>3 DEF w
  <2>2. nd \in Chunk /\ nd.buf = top /\ Len(nd.buf) <= nd.cap
    <3>1. nd = [buf |-> top, cap |-> ns[p].cap]
      BY DEF Node
    <3>2. Len(buf) = Len(top) + Len(Bytes(vs)) /\ Len(Bytes(vs)) \in Nat
      <4> DEFINE w == Bytes(vs)
      <4>1. top \in Seq(Unit) /\ w \in Seq(Unit) /\ buf = top \o w
        BY <1>4
      <4> HIDE DEF top, w, buf
      <4>2. Len(top \o w) = Len(top) + Len(w) /\ Len(w) \in Nat
        BY <4>1, JoinLen
      <4> QED BY <4>1, <4>2 DEF w
    <3>3. ns[p].cap \in Nat
      BY <1>4 DEF Chunk
    <3>4. Len(top) <= ns[p].cap
      <4> HIDE DEF top, buf
      <4> QED BY <1>4, <3>2, <3>3
    <3> HIDE DEF top, nd
    <3> QED BY <1>4, <3>1, <3>3, <3>4 DEF Chunk
  <2>3. c # <<>>
    <3>1. Len(us \o <<y>>) = Len(us) + 1
      <4>1. <<y>> \in Seq(Elem) /\ Len(<<y>>) = 1
        BY <1>2, OneType
      <4> QED BY <1>2, <4>1, JoinLen
    <3>2. Len(us) \in Nat
      BY <1>2, LenProperties
    <3>3. Len(c) # 0
      BY <3>1, <3>2 DEF c
    <3> QED BY <3>3, EmptySeq
  <2>4. Full(<<nd>>, <<c>>, Gapped(g, p)) /\ FlattenSeq(<<c>>) = c
    <3> HIDE DEF nd
    <3> QED BY <1>4, <2>2, <2>3, NodeFull
  <2>5. Full(m0, C0, g) /\ FlattenSeq(C0) = P
    <3> HIDE DEF nd
    <3>1. Full(m0, C0, g) /\ FlattenSeq(C0) = ElemsBefore(B, p) \o FlattenSeq(<<c>>)
      <4> DEFINE mid == <<nd>>
                 M == <<c>>
      <4>1. Full(mid, M, Gapped(g, p))
        BY <2>4
      <4> HIDE DEF mid, M
      <4>2. g \in Seq(Unit) /\ p \in 1..Len(B)
        BY <1>1, <1>2
      <4>3. Full(SubSeq(ns, 1, p - 1) \o mid, SubSeq(B, 1, p - 1) \o M, g)
        BY <1>5, <4>1, <4>2, TopIs
      <4>4. FlattenSeq(SubSeq(B, 1, p - 1) \o M) = ElemsBefore(B, p) \o FlattenSeq(M)
        BY <1>5, <4>1, <4>2, TopIs
      <4> QED BY <4>3, <4>4 DEF mid, M
    <3> QED BY <2>4, <3>1 DEF Upto, c
  <2> HIDE DEF C0, P
  <2>6. cut = [len |-> q.len, nodes |-> m0, leftIdx |-> Len(g)]
    <3> DEFINE l == q.len
               k == Len(g)
    <3>1. upTo = [len |-> l, nodes |-> m1, leftIdx |-> k]
      BY <1>6
    <3>2. m1 \in Seq(Chunk) /\ Len(m1) = p /\ m1[p] = ns[p] /\ p \in 1..Len(m1)
      <4>1. p \in 0..Len(ns) /\ p \in 1..Len(ns)
        BY <1>1, <1>2
      <4>2. m1 \in Seq(Chunk) /\ Len(m1) = p
        BY <1>1, <4>1, CutAt
      <4>3. m1[p] = ns[p]
        <5> DEFINE a == SubSeq(ns, 1, p - 1)
                   z == ns[p]
        <5>1. m1 = a \o <<z>>
          BY ZenonT(40), <1>1, <4>1, SplitAt
        <5>2. a \in Seq(Chunk) /\ Len(a) = p - 1 /\ z \in Chunk
          BY <1>1, <4>1, SplitAt
        <5> HIDE DEF a, z, m1
        <5>3. a \o <<z>> = Append(a, z) /\ Append(a, z)[Len(a) + 1] = z
          BY <5>2, AppendIsConcat, AppendProperties
        <5>4. (p - 1) + 1 = p
          BY <1>2
        <5> QED BY <5>1, <5>2, <5>3, <5>4 DEF z
      <4> HIDE DEF m1
      <4> QED BY <1>2, <4>2, <4>3
    <3> HIDE DEF l, k, m1
    <3>3. upTo.nodes[p].buf = buf
      BY <3>1, <3>2
    <3>4. cut = [upTo EXCEPT !.nodes[p].buf = top]
      BY <2>1, <3>3
    <3> HIDE DEF cut, top
    <3>5. BufSet(upTo, p, top) = [len |-> l, nodes |-> NodeSet(m1, p, Node(top, m1[p].cap)), leftIdx |-> k]
      BY <3>1, <3>2, DequeBuf
    <3>6. [m1 EXCEPT ![p] = nd] = m0
      <4> HIDE DEF nd
      <4>1. p \in 1..Len(ns)
        BY <1>1, <1>2
      <4> QED BY SMTT(30), <1>1, <2>2, <4>1, LastSet DEF m1
    <3>7. NodeSet(m1, p, Node(top, m1[p].cap)) = m0
      BY <3>2, <3>6 DEF NodeSet
    <3> HIDE DEF m0, nd
    <3> QED BY <3>4, <3>5, <3>7 DEF BufSet, l, k
  <2> HIDE DEF cut, m0
  <2> DEFINE r == RPush(cut, x)
  <2>7. PICK C : /\ Full(r.nodes, C, g) /\ FlattenSeq(C) = FlattenSeq(C0) \o <<x>>
                 /\ r = [len |-> q.len + 1, nodes |-> r.nodes, leftIdx |-> Len(g)]
    <3> DEFINE l == q.len
    <3>1. l \in Nat /\ cut = [len |-> l, nodes |-> m0, leftIdx |-> Len(g)]
      BY <1>1, <2>6
    <3> HIDE DEF l
    <3>2. Pushed(cut, r, C0, g, x)
      BY <2>5, <3>1, FullPush
    <3>3. cut.len = l
      BY <3>1
    <3> HIDE DEF r
    <3> QED BY <3>2, <3>3 DEF l, Pushed
  <2>8. tailnd \in Chunk /\ tailnd.buf = <<>> \o Bytes(vs) /\ Len(tailnd.buf) <= tailnd.cap
    <3> DEFINE w == Bytes(vs)
    <3>1. w \in Seq(Unit) /\ Len(w) \in Nat
      BY <1>4, LenProperties
    <3>2. tailnd = [buf |-> w, cap |-> Len(w) + Spare]
      BY <2>1 DEF Copied, Node
    <3> HIDE DEF w, tailnd
    <3>3. <<>> \o w = w
      BY <3>1, ConcatEmptySeq
    <3> QED BY <3>1, <3>2, <3>3, DequeAssumption DEF Chunk, w
  <2> HIDE DEF tailnd
  <2>9. Full(<<tailnd>>, <<vs>>, <<>>) /\ FlattenSeq(<<vs>>) = vs
    <3>1. <<>> \in Seq(Unit)
      BY EmptySeq
    <3> QED BY <1>2, <1>9, <2>8, <3>1, NodeFull
  <2> HIDE DEF r
  <2> DEFINE m2 == r.nodes \o <<tailnd>>
             C2 == C \o <<vs>>
  <2>10. Full(m2, C2, g) /\ FlattenSeq(C2) = FlattenSeq(C) \o vs
    <3>1. Full(r.nodes, C, g)
      BY <2>7
    <3>2. Blocks(<<tailnd>>, <<vs>>, <<>>) /\ AllFull(<<vs>>)
      BY <2>9 DEF Full
    <3>3. Full(m2, C2, g)
      BY <3>1, <3>2, NodesJoin
    <3>4. FlattenSeq(C2) = FlattenSeq(C) \o FlattenSeq(<<vs>>)
      BY SMTT(30), <3>1, <3>2, NodesJoin
    <3> HIDE DEF m2, C2
    <3> QED BY <2>9, <3>3, <3>4
  <2> HIDE DEF C2
  <2> DEFINE D == C2 \o SubSeq(B, p + 1, Len(B))
             l1 == q.len + 1
             ms == m2 \o rest
  <2>11. Full(ms, D, g) /\ FlattenSeq(D) = FlattenSeq(C2) \o A
    <3> HIDE DEF m2
    <3>1. Full(m2, C2, g)
      BY <2>10
    <3>2. Full(ms, D, g)
      BY <1>2, <1>5, <3>1, RestIs
    <3>3. FlattenSeq(D) = FlattenSeq(C2) \o A
      BY ZenonT(40), <1>2, <1>5, <3>1, RestIs
    <3> QED BY <3>2, <3>3
  <2>12. res = [len |-> l1, nodes |-> ms, leftIdx |-> Len(g)]
    <3>1. res = [r EXCEPT !.nodes = (@ \o <<tailnd>>) \o rest]
      BY <1>7, <2>1 DEF r
    <3>2. res = [r EXCEPT !.nodes = ms]
      BY <3>1
    <3>3. r = [len |-> l1, nodes |-> r.nodes, leftIdx |-> Len(g)]
      BY <2>7
    <3> HIDE DEF ms, l1
    <3> QED BY ONLY <3>2, <3>3, DequeNodes
  <2>13. FlattenSeq(D) = (P \o <<x>>) \o S
    <3> DEFINE Px == P \o <<x>>
    <3>1. Px \in Seq(Elem)
      BY <1>3, OneType, JoinLen DEF P
    <3>2. FlattenSeq(C2) = Px \o vs
      BY <2>5, <2>7, <2>10
    <3> HIDE DEF Px, A, D
    <3>3. (Px \o vs) \o A = Px \o (vs \o A)
      <4>1. Px \in Seq(Elem) /\ vs \in Seq(Elem) /\ A \in Seq(Elem)
        BY <1>2, <1>3, <3>1 DEF A
      <4> QED BY <4>1, JoinAssoc
    <3>4. S = vs \o A
      BY DEF Beyond, A
    <3> HIDE DEF S
    <3>5. FlattenSeq(D) = Px \o S
      BY <2>11, <3>2, <3>3, <3>4
    <3> QED BY <3>5 DEF Px
  <2> HIDE DEF D, ms, S
  <2>14. Extended(q, res, FlattenSeq(D))
    BY <1>1, <2>11, <2>12, ExtendedIs DEF l1
  <2> QED BY <2>13, <2>14 DEF InsertedAfter, P, S, res, y
<1> QED BY <1>8, <1>9


LEMMA MidCut ==
  ASSUME NEW S, NEW a, a \in Seq(S), NEW b, b \in Seq(S), NEW c, c \in Seq(S)
  PROVE  SubSeq((a \o b) \o c, Len(a) + 1, Len(a) + Len(b)) = b
<1> DEFINE s == a \o b
           t == s \o c
           k == Len(a)
           m == Len(b)
           n == Len(c)
<1>1. k \in Nat /\ m \in Nat /\ n \in Nat
  BY LenProperties
<1>2. s \in Seq(S) /\ Len(s) = k + m
  BY JoinLen
<1>3. SubSeq(s, k + 1, Len(s)) = b
  BY CutJoined
<1> HIDE DEF s
<1>4. t \in Seq(S)
  BY <1>2, JoinLen
<1>5. \A i \in 1..(Len(s) + n) : t[i] = IF i <= Len(s) THEN s[i] ELSE c[i - Len(s)]
  BY <1>2, ConcatProperties
<1> HIDE DEF t, k, m, n
<1>6. \A j \in (k + 1)..(k + m) : s[j] \in S /\ t[j] = s[j]
  <2> SUFFICES ASSUME NEW j \in (k + 1)..(k + m) PROVE s[j] \in S /\ t[j] = s[j]
    OBVIOUS
  <2>1. j \in 1..Len(s) /\ j \in 1..(Len(s) + n) /\ j <= Len(s)
    BY <1>1, <1>2
  <2> QED BY <1>2, <1>5, <2>1, ElementOfSeq
<1>7. k + 1 \in Nat /\ k + m \in Nat
  BY <1>1
<1>8. SubSeq(s, k + 1, k + m) = SubSeq(t, k + 1, k + m)
  <2> DEFINE i == k + 1
             j == k + m
  <2> HIDE DEF i, j
  <2>1. i \in Nat /\ j \in Nat /\ \A l \in i..j : s[l] \in S /\ t[l] = s[l]
    BY <1>6, <1>7 DEF i, j
  <2>2. SubSeq(s, i, j) = SubSeq(t, i, j)
    BY <1>2, <1>4, <2>1, SubSeqSame
  <2> QED BY <2>2 DEF i, j
<1> QED BY <1>2, <1>3, <1>8 DEF t, s, k, m

Regroups(a, u, x, y, v, z) ==
  (a \o ((u \o x) \o (y \o v))) \o z = ((a \o u) \o x) \o (y \o (v \o z))

LEMMA Regrouped ==
  ASSUME NEW S, NEW a, a \in Seq(S), NEW u, u \in Seq(S), NEW x, x \in Seq(S), NEW y, y \in Seq(S),
         NEW v, v \in Seq(S), NEW z, z \in Seq(S)
  PROVE  Regroups(a, u, x, y, v, z)
<1> DEFINE b == y \o v
           t == u \o x
           d == a \o t
<1>1. b \in Seq(S) /\ t \in Seq(S)
  BY JoinLen
<1>2. (a \o u) \o x = a \o t
  BY SMTT(30), JoinAssoc
<1>3. b \o z = y \o (v \o z)
  BY SMTT(30), JoinAssoc
<1> HIDE DEF b, t
<1>4. d \in Seq(S)
  BY <1>1, JoinLen
<1>5. (a \o t) \o b = a \o (t \o b)
  <2> HIDE DEF d
  <2>1. a \in Seq(S) /\ t \in Seq(S) /\ b \in Seq(S)
    BY <1>1
  <2> QED BY ONLY <2>1, JoinAssoc
<1> HIDE DEF d
<1>6. (d \o b) \o z = d \o (b \o z)
  <2>1. d \in Seq(S) /\ b \in Seq(S) /\ z \in Seq(S)
    BY <1>1, <1>4
  <2> QED BY ONLY SMTT(30), <2>1, JoinAssoc
<1>7. (a \o (t \o b)) \o z = ((a \o u) \o x) \o (y \o (v \o z))
  BY ONLY <1>2, <1>3, <1>5, <1>6 DEF d
<1> QED BY <1>7 DEF b, t, Regroups

LEMMA TwoJoined ==
  ASSUME NEW a, NEW b
  PROVE  <<a>> \o <<b>> = <<a, b>>
<1> DEFINE S == {a, b}
<1>1. <<a>> \in Seq(S) /\ <<b>> \in Seq(S) /\ <<a, b>> \in Seq(S)
  OBVIOUS
<1>2. Len(<<a>>) = 1 /\ Len(<<b>>) = 1 /\ Len(<<a, b>>) = 2
  OBVIOUS
<1>5. <<a>>[1] = a /\ <<b>>[1] = b /\ <<a, b>>[1] = a /\ <<a, b>>[2] = b
  OBVIOUS
<1> DEFINE p == <<a>>
           q == <<b>>
           r == <<a, b>>
<1> HIDE DEF S, p, q, r
<1>3. p \in Seq(S) /\ q \in Seq(S) /\ r \in Seq(S) /\ Len(p) = 1 /\ Len(q) = 1 /\ Len(r) = 2
      /\ p[1] = a /\ q[1] = b /\ r[1] = a /\ r[2] = b
  BY <1>1, <1>2, <1>5 DEF p, q, r
<1>4. /\ p \o q \in Seq(S) /\ Len(p \o q) = 2
      /\ \A i \in 1..2 : (p \o q)[i] = IF i <= 1 THEN p[i] ELSE q[i - 1]
  BY <1>3, ConcatProperties
<1>6. \A i \in 1..2 : (p \o q)[i] = r[i]
  BY <1>3, <1>4
<1>7. p \o q = r
  <2> DEFINE s == p \o q
  <2>1. s \in Seq(S) /\ r \in Seq(S) /\ Len(s) = Len(r) /\ \A i \in 1..Len(s) : s[i] = r[i]
    BY <1>3, <1>4, <1>6
  <2> HIDE DEF s
  <2> QED BY <2>1, SeqEqual DEF s
<1> QED BY <1>7 DEF p, q, r

LEMMA ThreeJoined ==
  ASSUME NEW a, NEW b, NEW c
  PROVE  (<<a>> \o <<b>>) \o <<c>> = <<a, b, c>>
<1> DEFINE S == {a, b, c}
           p == <<a, b>>
           q == <<c>>
           r == <<a, b, c>>
<1>1. p \in Seq(S) /\ q \in Seq(S) /\ r \in Seq(S)
  OBVIOUS
<1>2. Len(p) = 2 /\ Len(q) = 1 /\ Len(r) = 3
  OBVIOUS
<1>3. p[1] = a /\ p[2] = b /\ q[1] = c /\ r[1] = a /\ r[2] = b /\ r[3] = c
  OBVIOUS
<1> HIDE DEF S, p, q, r
<1>4. /\ p \o q \in Seq(S) /\ Len(p \o q) = 3
      /\ \A i \in 1..3 : (p \o q)[i] = IF i <= 2 THEN p[i] ELSE q[i - 2]
  <2>1. /\ p \o q \in Seq(S) /\ Len(p \o q) = Len(p) + Len(q)
        /\ \A i \in 1..(Len(p) + Len(q)) : (p \o q)[i] = IF i <= Len(p) THEN p[i] ELSE q[i - Len(p)]
    BY <1>1, ConcatProperties
  <2>2. Len(p) + Len(q) = 3
    BY <1>2
  <2> QED BY <1>2, <2>1, <2>2
<1>5. \A i \in 1..3 : (p \o q)[i] = r[i]
  BY <1>3, <1>4
<1>6. p \o q = r
  <2> DEFINE s == p \o q
  <2>1. s \in Seq(S) /\ r \in Seq(S) /\ Len(s) = Len(r) /\ \A i \in 1..Len(s) : s[i] = r[i]
    BY <1>1, <1>2, <1>4, <1>5
  <2> HIDE DEF s
  <2> QED BY <2>1, SeqEqual DEF s
<1>7. <<a>> \o <<b>> = p
  BY TwoJoined DEF p
<1> QED BY <1>6, <1>7 DEF p, q, r

\* The node of an element of its own.
LEMMA ElementNode ==
  ASSUME NEW x, x \in Elem
  PROVE  /\ Full(<<Node(EncodeDeqEntry(x), GetEncodeDeqEntrySize(x))>>, <<<<x>>>>, <<>>)
         /\ FlattenSeq(<<<<x>>>>) = <<x>>
<1> DEFINE e == EncodeDeqEntry(x)
           size == GetEncodeDeqEntrySize(x)
           nd == Node(e, size)
           b == <<x>>
<1>1. e \in Seq(Unit) /\ Len(e) = size /\ size \in Nat
  BY EntrySize
<1>2. b \in Seq(Elem) /\ b # <<>> /\ Bytes(b) = e /\ <<>> \in Seq(Unit)
  BY OneType, BytesOne, EmptySeq
<1>3. <<>> \o e = e
  BY <1>1, ConcatEmptySeq
<1> HIDE DEF e, size, b
<1>4. nd = [buf |-> e, cap |-> size]
  BY DEF Node
<1> HIDE DEF nd
<1>5. nd \in Chunk /\ nd.buf = <<>> \o Bytes(b) /\ Len(nd.buf) <= nd.cap
  BY <1>1, <1>2, <1>3, <1>4 DEF Chunk
<1>6. Full(<<nd>>, <<b>>, <<>>) /\ FlattenSeq(<<b>>) = b
  BY <1>2, <1>5, NodeFull
<1> QED BY <1>6 DEF nd, b, e, size

\* The p-th node replaced by the nodes mid.
Around(ns, p, mid) == SubSeq(ns, 1, p - 1) \o mid \o SubSeq(ns, p + 1, Len(ns))

Replaced(ns, B, p, mid, h, xs) ==
  \E C : Full(Around(ns, p, mid), C, h) /\ FlattenSeq(C) = (ElemsBefore(B, p) \o xs) \o ElemsAfter(B, p)

LEMMA AroundIs ==
  ASSUME NEW ns, NEW B, NEW g, Full(ns, B, g), NEW p, p \in 1..Len(B), NEW h, h \in Seq(Unit),
         p = 1 \/ h = g, NEW mid, NEW M, Full(mid, M, Gapped(h, p))
  PROVE  Replaced(ns, B, p, mid, h, FlattenSeq(M))
<1> DEFINE ms == SubSeq(ns, 1, p - 1) \o mid
           C == SubSeq(B, 1, p - 1) \o M
           D == C \o SubSeq(B, p + 1, Len(B))
<1>1. Full(ms, C, h)
  BY TopIs
<1>2. FlattenSeq(C) = ElemsBefore(B, p) \o FlattenSeq(M)
  BY SMTT(30), TopIs
<1> HIDE DEF ms, C
<1>3. Full(ms \o SubSeq(ns, p + 1, Len(ns)), D, h)
  BY <1>1, RestIs
<1>4. FlattenSeq(D) = FlattenSeq(C) \o ElemsAfter(B, p)
  BY <1>1, RestIs
<1> HIDE DEF D
<1>5. Around(ns, p, mid) = ms \o SubSeq(ns, p + 1, Len(ns))
  BY DEF Around, ms
<1> QED BY <1>2, <1>3, <1>4, <1>5 DEF Replaced

\* What insertBeforePivotHelper does to the p-th node.
BeforeNode(q, pivot, x, p, at) ==
  LET node == q.nodes[p]
      size == GetEncodeDeqEntrySize(pivot)
      leftIdx == IF p = 1 THEN q.leftIdx ELSE 0
      end == IF at = 0 THEN Len(node.buf) ELSE at
      elementNode == Node(EncodeDeqEntry(x), GetEncodeDeqEntrySize(x))
      longer == [q EXCEPT !.len = @ + 1]
  IN IF end = size
     THEN [longer EXCEPT !.nodes = Around(q.nodes, p, <<elementNode, node>>)]
     ELSE [longer EXCEPT
             !.nodes = Around(q.nodes, p,
                              <<Copied(SubSeq(node.buf, leftIdx + 1, end - size)), elementNode,
                                Node(SubSeq(node.buf, end - size + 1, Len(node.buf)),
                                     node.cap - (end - size))>>),
             !.leftIdx = IF p = 1 THEN 0 ELSE @]

LEMMA BeforeNodeIs ==
  ASSUME NEW q, NEW pivot, NEW x, NEW s
  PROVE  insertBeforePivotHelper(q, pivot, x, s) = BeforeNode(q, pivot, x, s.node, s.next.idx)
BY DEF insertBeforePivotHelper, BeforeNode, Around

\* x is put before the step's element.
InsertedBefore(q, r, B, p, us, y, x, vs) ==
  Extended(q, r, ((ElemsBefore(B, p) \o us) \o <<x>>) \o (<<y>> \o Beyond(B, p, vs)))

\* The three nodes, and the gap left.
LEMMA InsertBeforeIs ==
  ASSUME NEW q, NEW B, NEW g, Laid(q, B, g), AllFull(B), NEW i, NEW s, NEW p, NEW us, NEW vs,
         Spot(B, g, i, s, p, us, vs), i > 1, NEW x, x \in Elem, NEW pivot, pivot = s.x
  PROVE  InsertedBefore(q, insertBeforePivotHelper(q, pivot, x, s), B, p, us, pivot, x, vs)
<1> DEFINE ns == q.nodes
           at == s.next.idx
           node == ns[p]
           buf == node.buf
           G == Gapped(g, p)
           c == us \o <<pivot>>
           bu == Bytes(us)
           w == Bytes(vs)
           e == EncodeDeqEntry(pivot)
           size == GetEncodeDeqEntrySize(pivot)
           top == G \o Bytes(c)
           E == ElemsBefore(B, p)
           A == ElemsAfter(B, p)
           S == Beyond(B, p, vs)
           leftIdx == IF p = 1 THEN q.leftIdx ELSE 0
           end == IF at = 0 THEN Len(node.buf) ELSE at
           en == Node(EncodeDeqEntry(x), GetEncodeDeqEntrySize(x))
           longer == [q EXCEPT !.len = @ + 1]
           ln == Copied(SubSeq(node.buf, leftIdx + 1, end - size))
           rn == Node(SubSeq(node.buf, end - size + 1, Len(node.buf)), node.cap - (end - size))
           res == insertBeforePivotHelper(q, pivot, x, s)
           ys == ((E \o us) \o <<x>>) \o (<<pivot>> \o S)
<1>1. /\ q.len \in Nat /\ ns \in Seq(Chunk) /\ B \in Seq(Seq(Elem)) /\ g \in Seq(Unit)
      /\ Len(ns) = Len(B) /\ Len(B) \in Nat /\ q.leftIdx = Len(g) /\ Len(g) \in Nat
      /\ q = [len |-> q.len, nodes |-> ns, leftIdx |-> q.leftIdx] /\ Blocks(ns, B, g)
  BY LaidType DEF Laid
<1>2. /\ p \in 1..Len(B) /\ us \in Seq(Elem) /\ vs \in Seq(Elem) /\ pivot \in Elem /\ B[p] = c \o vs
      /\ i = Len(E) + Len(us) + 1
  BY DEF Spot
<1>3. /\ S \in Seq(Elem) /\ A \in Seq(Elem) /\ E \in Seq(Elem)
  BY SpotSplit
<1>4. /\ c \in Seq(Elem) /\ top \in Seq(Unit) /\ Len(top) \in Nat \ {0} /\ buf = top \o w
      /\ s.node = p /\ at = (IF vs = <<>> THEN 0 ELSE Len(top))
      /\ node \in Chunk /\ Len(buf) <= node.cap
      /\ Len(top) = Len(G) + Len(bu) + size
  <2>1. Surrounds(q, g, s, p, us, vs)
    BY SpotBuf
  <2> QED BY <2>1 DEF Surrounds
<1>5. /\ w \in Seq(Unit) /\ bu \in Seq(Unit) /\ G \in Seq(Unit) /\ Bytes(c) = bu \o e
  <2>1. Surrounds(q, g, s, p, us, vs)
    BY SpotBuf
  <2> QED BY <2>1 DEF Surrounds
<1>6. e \in Seq(Unit) /\ Len(e) = size /\ size \in Nat \ {0}
  BY <1>2, EntrySize
<1>7. Len(G) \in Nat /\ Len(bu) \in Nat /\ Len(w) \in Nat /\ Len(us) \in Nat /\ Len(E) \in Nat /\ Len(buf) = Len(top) + Len(w)
  <2>1. Len(top \o w) = Len(top) + Len(w) /\ Len(w) \in Nat
    <3> HIDE DEF top, w
    <3> QED BY <1>4, <1>5, JoinLen
  <2> HIDE DEF top, w
  <2> QED BY <1>2, <1>3, <1>4, <1>5, <2>1, LenProperties
<1>8. Full(ns, B, g)
  BY <1>1, <1>2, EmptySeq DEF Full
<1> HIDE DEF size, e
<1>9. end = Len(top)
  <2> HIDE DEF top, w
  <2>1. CASE vs = <<>>
    <3>1. Len(w) = 0
      BY <2>1, BytesEmpty, EmptySeq DEF w
    <3> QED BY <1>4, <1>7, <2>1, <3>1
  <2>2. CASE vs # <<>>
    BY <1>4, <2>2
  <2> QED BY <2>1, <2>2
<1> HIDE DEF end
<1>10. res = IF end = size
             THEN [longer EXCEPT !.nodes = Around(ns, p, <<en, node>>)]
             ELSE [longer EXCEPT !.nodes = Around(ns, p, <<ln, en, rn>>), !.leftIdx = IF p = 1 THEN 0 ELSE @]
  <2>1. res = BeforeNode(q, pivot, x, s.node, at)
    BY BeforeNodeIs
  <2>2. res = BeforeNode(q, pivot, x, p, at)
    <3> HIDE DEF res
    <3> QED BY <1>4, <2>1
  <2> HIDE DEF res
  <2>3. BeforeNode(q, pivot, x, p, at) = IF end = size
             THEN [longer EXCEPT !.nodes = Around(ns, p, <<en, node>>)]
             ELSE [longer EXCEPT !.nodes = Around(ns, p, <<ln, en, rn>>), !.leftIdx = IF p = 1 THEN 0 ELSE @]
    BY DEF BeforeNode, end, size
  <2> HIDE DEF longer, ln, rn, en
  <2> QED BY <2>2, <2>3
<1> HIDE DEF res
<1>11. longer = [len |-> q.len + 1, nodes |-> ns, leftIdx |-> Len(g)]
  BY <1>1
<1>12. Full(<<en>>, <<<<x>>>>, <<>>) /\ FlattenSeq(<<<<x>>>>) = <<x>>
  BY ElementNode
<1> HIDE DEF longer, en
<1>13. us = <<>> => p # 1 /\ G = <<>> /\ Len(bu) = 0
  <2>1. p = 1 => E = <<>>
    BY <1>1, <1>2, FlatAt
  <2>2. us = <<>> => Len(us) = 0 /\ Len(bu) = 0
    BY BytesEmpty, EmptySeq
  <2>3. E = <<>> => Len(E) = 0
    BY EmptySeq
  <2> HIDE DEF E, bu
  <2>4. us = <<>> => p # 1
    BY <1>2, <1>7, <2>1, <2>2, <2>3
  <2> QED BY <2>2, <2>4 DEF Gapped
<1>14. end = size <=> us = <<>>
  <2>1. us # <<>> => Len(bu) > 0
    BY <1>2, BytesSome
  <2>2. G = <<>> => Len(G) = 0
    BY EmptySeq
  <2>3. size \in Nat
    BY <1>6
  <2>4. us = <<>> => Len(bu) = 0 /\ Len(G) = 0
    BY <1>13, <2>2
  <2>5. end = Len(G) + Len(bu) + size /\ Len(G) \in Nat /\ Len(bu) \in Nat
    BY <1>4, <1>7, <1>9
  <2> QED BY ONLY <2>1, <2>3, <2>4, <2>5
<1>15. B[p] \in Seq(Elem) /\ <<x>> \in Seq(Elem) /\ <<pivot>> \in Seq(Elem) /\ <<pivot>> \o vs \in Seq(Elem)
  <2>1. <<x>> \in Seq(Elem) /\ <<pivot>> \in Seq(Elem)
    BY <1>2, OneType
  <2> QED BY <1>1, <1>2, <2>1, LaidNode, JoinLen
<1>16. g \in Seq(Unit) /\ p \in 1..Len(B)
  BY <1>1, <1>2
<1> DEFINE b == <<pivot>> \o vs
           l1 == q.len + 1
<1>17. (E \o ((us \o <<x>>) \o b)) \o A = ys
  <2> DEFINE X == <<x>>
             Y == <<pivot>>
  <2>1. E \in Seq(Elem) /\ A \in Seq(Elem) /\ X \in Seq(Elem) /\ Y \in Seq(Elem)
    BY <1>3, <1>15
  <2> HIDE DEF X, Y, E, A
  <2>2. (E \o ((us \o X) \o (Y \o vs))) \o A = ((E \o us) \o X) \o (Y \o (vs \o A))
    <3>1. us \in Seq(Elem) /\ vs \in Seq(Elem)
      BY <1>2
    <3>2. Regroups(E, us, X, Y, vs, A)
      BY <2>1, <3>1, Regrouped
    <3> QED BY <3>2 DEF Regroups
  <2> QED BY <2>2 DEF X, Y, A, Beyond
\* x gets a node of its own, before the pivot's.
<1>18. CASE us = <<>>
  <2> DEFINE mid == <<en>> \o <<node>>
             M == <<<<x>>>> \o <<B[p]>>
  <2>1. G = <<>> /\ p # 1
    BY <1>13, <1>18
  <2>2. Blocks(<<node>>, <<B[p]>>, <<>>) /\ AllFull(<<B[p]>>) /\ FlattenSeq(<<B[p]>>) = B[p]
    <3>1. node.buf = <<>> \o Bytes(B[p]) /\ B[p] # <<>>
      <4>1. q.nodes[p].buf = Gapped(g, p) \o Bytes(B[p])
        BY <1>16, LaidNode
      <4> QED BY <1>16, <2>1, <4>1 DEF AllFull
    <3>2. <<>> \in Seq(Unit)
      BY EmptySeq
    <3> HIDE DEF node, c
    <3> DEFINE k == B[p]
    <3>3. node \in Chunk /\ k \in Seq(Elem) /\ k # <<>> /\ node.buf = <<>> \o Bytes(k) /\ Len(node.buf) <= node.cap
      BY <1>4, <1>15, <3>1
    <3> HIDE DEF k
    <3>4. Full(<<node>>, <<k>>, <<>>) /\ FlattenSeq(<<k>>) = k
      BY <3>2, <3>3, NodeFull
    <3> QED BY <3>4 DEF Full, k
  <2> HIDE DEF node
  <2>3. Full(mid, M, <<>>) /\ FlattenSeq(M) = <<x>> \o B[p]
    <3> DEFINE m1 == <<en>>
               M1 == <<<<x>>>>
               n1 == <<node>>
               N1 == <<B[p]>>
    <3>1. Full(m1, M1, <<>>) /\ Blocks(n1, N1, <<>>) /\ AllFull(N1)
      BY <1>12, <2>2
    <3> HIDE DEF m1, M1, n1, N1
    <3>2. Full(m1 \o n1, M1 \o N1, <<>>)
      BY <3>1, NodesJoin
    <3>3. FlattenSeq(M1 \o N1) = FlattenSeq(M1) \o FlattenSeq(N1)
      BY <3>1, NodesJoin
    <3>4. FlattenSeq(M1) = <<x>> /\ FlattenSeq(N1) = B[p]
      BY <1>12, <2>2 DEF M1, N1
    <3>5. FlattenSeq(M1 \o N1) = <<x>> \o B[p]
      BY <3>3, <3>4
    <3> QED BY <3>2, <3>5 DEF m1, M1, n1, N1
  <2>4. mid = <<en, node>>
    BY TwoJoined
  <2> HIDE DEF mid, M
  <2>5. Replaced(ns, B, p, mid, g, FlattenSeq(M))
    BY <1>8, <1>16, <2>1, <2>3, AroundIs
  <2>6. res = [len |-> l1, nodes |-> Around(ns, p, mid), leftIdx |-> Len(g)]
    <3> DEFINE m == Around(ns, p, mid)
    <3>1. res = [longer EXCEPT !.nodes = m]
      BY <1>10, <1>14, <1>18, <2>4
    <3>2. longer = [len |-> l1, nodes |-> ns, leftIdx |-> Len(g)]
      BY <1>11
    <3> HIDE DEF m, l1
    <3>3. [longer EXCEPT !.nodes = m] = [len |-> l1, nodes |-> m, leftIdx |-> Len(g)]
      BY <3>2, DequeNodes
    <3> QED BY <3>1, <3>3 DEF m
  <2>7. PICK C : Full(Around(ns, p, mid), C, g) /\ FlattenSeq(C) = (E \o FlattenSeq(M)) \o A
    BY <2>5 DEF Replaced
  <2>8. FlattenSeq(M) = (us \o <<x>>) \o b
    <3>1. us \o <<x>> = <<x>>
      BY <1>15, <1>18, ConcatEmptySeq
    <3>2. <<>> \o <<pivot>> = <<pivot>>
      BY <1>15, ConcatEmptySeq
    <3>3. B[p] = b
      BY <1>2, <1>18, <3>2
    <3> HIDE DEF b, c
    <3> QED BY <2>3, <3>1, <3>3
  <2>9. FlattenSeq(C) = ys
    <3> HIDE DEF E, A, b, ys
    <3> QED BY <1>17, <2>7, <2>8
  <2>10. Extended(q, res, FlattenSeq(C))
    <3> DEFINE m == Around(ns, p, mid)
    <3>1. Full(m, C, g) /\ q.len \in Nat
      BY <1>1, <2>7
    <3>2. res = [len |-> q.len + 1, nodes |-> m, leftIdx |-> Len(g)]
      BY <2>6
    <3> HIDE DEF m
    <3> QED BY <3>1, <3>2, ExtendedIs
  <2> HIDE DEF ys
  <2>11. Extended(q, res, ys)
    BY <2>9, <2>10
  <2> QED BY <2>11 DEF ys, S, E, InsertedBefore, res
\* The pivot's node is cut in two, and x is put between.
<1>19. CASE us # <<>>
  <2> DEFINE h == IF p = 1 THEN <<>> ELSE g
             k == end - size
             first == G \o bu
             last == e \o w
  <2>1. h \in Seq(Unit) /\ Gapped(h, p) = <<>> /\ (p = 1 \/ h = g)
    BY <1>1, EmptySeq DEF Gapped
  <2>2. leftIdx = Len(G) /\ k = Len(G) + Len(bu) /\ k \in Nat
    <3>1. leftIdx = Len(G)
      <4>1. Len(<<>>) = 0
        OBVIOUS
      <4> QED BY <1>1, <4>1 DEF Gapped
    <3> HIDE DEF leftIdx, top, G, bu
    <3> QED BY <1>4, <1>6, <1>7, <1>9, <3>1
  <2> HIDE DEF leftIdx, h
  <2>3. /\ first \in Seq(Unit) /\ Len(first) = Len(G) + Len(bu)
        /\ last \in Seq(Unit) /\ Len(last) = size + Len(w)
        /\ buf = first \o last /\ Len(buf) = Len(first) + Len(last)
    <3> HIDE DEF G, bu, w, buf
    <3>1. first \in Seq(Unit) /\ Len(first) = Len(G) + Len(bu)
      BY <1>5, JoinLen
    <3>2. last \in Seq(Unit) /\ Len(last) = size + Len(w)
      BY <1>5, <1>6, JoinLen
    <3>3. top = first \o e
      <4>1. (G \o bu) \o e = G \o (bu \o e)
        <5> HIDE DEF first
        <5> QED BY SMTT(30), <1>5, <1>6, JoinAssoc
      <4> QED BY <1>5, <4>1
    <3> HIDE DEF top, first
    <3>4. (first \o e) \o w = first \o (e \o w)
      <4> HIDE DEF last
      <4> QED BY SMTT(30), <1>5, <1>6, <3>1, JoinAssoc
    <3>5. buf = first \o last
      BY <1>4, <3>3, <3>4
    <3> HIDE DEF last
    <3>6. Len(first \o last) = Len(first) + Len(last)
      BY <3>1, <3>2, JoinLen
    <3> QED BY <3>1, <3>2, <3>5, <3>6
  <2>4. SubSeq(buf, leftIdx + 1, k) = bu
    <3> HIDE DEF G, bu, w, buf, last, k
    <3>1. SubSeq((G \o bu) \o last, Len(G) + 1, Len(G) + Len(bu)) = bu
      <4> HIDE DEF first
      <4> QED BY <1>5, <2>3, MidCut
    <3> QED BY <2>2, <2>3, <3>1
  <2>5. SubSeq(buf, k + 1, Len(buf)) = last
    <3> HIDE DEF first, last, buf, k
    <3>1. SubSeq(first \o last, Len(first) + 1, Len(first \o last)) = last
      BY <2>3, CutJoined
    <3> QED BY <2>2, <2>3, <3>1
  <2>6. last = Bytes(b) /\ b # <<>>
    <3>1. Bytes(<<pivot>>) = e
      BY <1>2, BytesOne DEF e
    <3>2. Bytes(b) = Bytes(<<pivot>>) \o w
      <4> DEFINE Y == <<pivot>>
      <4>1. Y \in Seq(Elem)
        BY <1>15
      <4> HIDE DEF Y
      <4> QED BY <1>2, <4>1, BytesJoin DEF Y
    <3>3. b # <<>>
      <4>1. Len(<<pivot>> \o vs) = 1 + Len(vs) /\ Len(vs) \in Nat
        <5> DEFINE Y == <<pivot>>
        <5>1. Y \in Seq(Elem) /\ Len(Y) = 1
          BY <1>15
        <5> HIDE DEF Y
        <5>2. Len(Y \o vs) = Len(Y) + Len(vs) /\ Len(vs) \in Nat
          BY <1>2, <5>1, JoinLen
        <5> QED BY <5>1, <5>2 DEF Y
      <4>2. Len(b) # 0
        BY <4>1
      <4> QED BY <4>2, EmptySeq
    <3> QED BY <3>1, <3>2, <3>3
  <2> HIDE DEF first, b, last
  <2>7. Full(<<ln>>, <<us>>, <<>>) /\ FlattenSeq(<<us>>) = us
    <3>1. ln = [buf |-> bu, cap |-> Len(bu) + Spare]
      BY <2>4 DEF Copied, Node
    <3> HIDE DEF ln
    <3>2. <<>> \o bu = bu /\ <<>> \in Seq(Unit)
      BY <1>5, ConcatEmptySeq, EmptySeq
    <3>3. ln \in Chunk /\ ln.buf = <<>> \o Bytes(us) /\ Len(ln.buf) <= ln.cap
      <4> HIDE DEF bu
      <4>1. ln \in Chunk /\ ln.buf = bu /\ Len(ln.buf) <= ln.cap
        BY <1>5, <1>7, <3>1, DequeAssumption DEF Chunk
      <4> QED BY <3>2, <4>1 DEF bu
    <3> QED BY <1>2, <1>19, <3>2, <3>3, NodeFull
  <2>8. Full(<<rn>>, <<b>>, <<>>) /\ FlattenSeq(<<b>>) = b
    <3>1. rn = [buf |-> last, cap |-> node.cap - k]
      BY <2>5 DEF Node
    <3>2. node.cap - k \in Nat /\ Len(last) <= node.cap - k
      <4>1. node.cap \in Nat /\ Len(last) \in Nat /\ Len(buf) <= node.cap
        BY <1>4, <2>3, LenProperties DEF Chunk
      <4> HIDE DEF buf, node, k
      <4> QED BY <2>2, <2>3, <4>1
    <3> HIDE DEF rn
    <3>3. <<>> \o last = last /\ <<>> \in Seq(Unit)
      BY <2>3, ConcatEmptySeq, EmptySeq
    <3>4. rn \in Chunk /\ rn.buf = last /\ Len(rn.buf) <= rn.cap
      <4> HIDE DEF node, k
      <4> QED BY <2>3, <3>1, <3>2 DEF Chunk
    <3>5. b \in Seq(Elem)
      BY <1>15 DEF b
    <3> QED BY <2>6, <3>3, <3>4, <3>5, NodeFull
  <2> HIDE DEF ln, rn
  <2> DEFINE m2 == <<ln>> \o <<en>>
             M2 == <<us>> \o <<<<x>>>>
             mid == m2 \o <<rn>>
             M == M2 \o <<b>>
  <2>9. Full(m2, M2, <<>>) /\ FlattenSeq(M2) = us \o <<x>>
    <3> DEFINE m1 == <<ln>>
               M1 == <<us>>
               n1 == <<en>>
               N1 == <<<<x>>>>
    <3>1. Full(m1, M1, <<>>) /\ Blocks(n1, N1, <<>>) /\ AllFull(N1)
      BY <1>12, <2>7 DEF Full
    <3> HIDE DEF m1, M1, n1, N1
    <3>2. Full(m1 \o n1, M1 \o N1, <<>>)
      BY <3>1, NodesJoin
    <3>3. FlattenSeq(M1 \o N1) = FlattenSeq(M1) \o FlattenSeq(N1)
      BY <3>1, NodesJoin
    <3>4. FlattenSeq(M1) = us /\ FlattenSeq(N1) = <<x>>
      BY <1>12, <2>7 DEF M1, N1
    <3>5. FlattenSeq(M1 \o N1) = us \o <<x>>
      BY <3>3, <3>4
    <3> QED BY <3>2, <3>5 DEF m1, M1, n1, N1
  <2>10. mid = <<ln, en, rn>>
    BY ThreeJoined
  <2> HIDE DEF m2, M2
  <2>11. Full(mid, M, <<>>) /\ FlattenSeq(M) = (us \o <<x>>) \o b
    <3> DEFINE n1 == <<rn>>
               N1 == <<b>>
    <3>1. Full(m2, M2, <<>>) /\ Blocks(n1, N1, <<>>) /\ AllFull(N1)
      BY <2>8, <2>9 DEF Full
    <3> HIDE DEF n1, N1
    <3>2. Full(m2 \o n1, M2 \o N1, <<>>)
      BY <3>1, NodesJoin
    <3>3. FlattenSeq(M2 \o N1) = FlattenSeq(M2) \o FlattenSeq(N1)
      BY <3>1, NodesJoin
    <3>4. FlattenSeq(N1) = b
      BY <2>8 DEF N1
    <3>5. FlattenSeq(M2 \o N1) = (us \o <<x>>) \o b
      BY <2>9, <3>3, <3>4
    <3> QED BY <3>2, <3>5 DEF n1, N1
  <2> HIDE DEF mid, M
  <2>12. Replaced(ns, B, p, mid, h, FlattenSeq(M))
    BY <1>8, <1>16, <2>1, <2>11, AroundIs
  <2>13. res = [len |-> l1, nodes |-> Around(ns, p, mid), leftIdx |-> Len(h)]
    <3> DEFINE m == Around(ns, p, mid)
               moved == [longer EXCEPT !.nodes = m]
               j == IF p = 1 THEN 0 ELSE moved.leftIdx
    <3>1. res = [longer EXCEPT !.nodes = m, !.leftIdx = IF p = 1 THEN 0 ELSE @]
      BY <1>10, <1>14, <1>19, <2>10
    <3>2. longer = [len |-> l1, nodes |-> ns, leftIdx |-> Len(g)]
      BY <1>11
    <3> HIDE DEF m, l1
    <3>3. moved = [len |-> l1, nodes |-> m, leftIdx |-> Len(g)]
      BY <3>2, DequeNodes
    <3>4. res = [moved EXCEPT !.leftIdx = IF p = 1 THEN 0 ELSE @]
      BY <3>1, <3>2
    <3> HIDE DEF moved
    <3>5. res = [len |-> l1, nodes |-> m, leftIdx |-> IF p = 1 THEN 0 ELSE Len(g)]
      BY ONLY <3>3, <3>4
    <3>6. Len(h) = IF p = 1 THEN 0 ELSE Len(g)
      <4>1. Len(<<>>) = 0
        OBVIOUS
      <4> QED BY <4>1 DEF h
    <3> QED BY <3>5, <3>6 DEF m
  <2>14. PICK C : Full(Around(ns, p, mid), C, h) /\ FlattenSeq(C) = (E \o FlattenSeq(M)) \o A
    BY <2>12 DEF Replaced
  <2>15. FlattenSeq(C) = ys
    <3> HIDE DEF E, A, ys
    <3> QED BY <1>17, <2>11, <2>14
  <2>16. Extended(q, res, FlattenSeq(C))
    <3> DEFINE m == Around(ns, p, mid)
    <3>1. Full(m, C, h) /\ q.len \in Nat
      BY <1>1, <2>14
    <3>2. res = [len |-> q.len + 1, nodes |-> m, leftIdx |-> Len(h)]
      BY <2>13
    <3> HIDE DEF m
    <3> QED BY <3>1, <3>2, ExtendedIs
  <2> HIDE DEF ys
  <2>17. Extended(q, res, ys)
    BY <2>15, <2>16
  <2> QED BY <2>17 DEF ys, S, E, InsertedBefore, res
<1> QED BY <1>18, <1>19


-----------------------------------------------------------------------------
(* What the operations do to the elements *)

LEMMA HoldsType ==
  ASSUME NEW q, NEW xs, HoldsElems(q, xs)
  PROVE  /\ xs \in Seq(Elem) /\ Len(xs) \in Nat /\ q.len = Len(xs) /\ q \in DequeType
         /\ ~GapHead(q) => Elems(q) = xs
<1>1. PICK B, g : Laid(q, B, g) /\ FlattenSeq(B) = xs /\ q.len = Len(xs)
  BY DEF HoldsElems
<1>2. FlattenSeq(B) \in Seq(Elem) /\ q \in DequeType
  BY <1>1, LaidType
<1>3. ~GapHead(q) => Elems(q) = FlattenSeq(B)
  BY <1>1, ElemsAre
<1> QED BY <1>1, <1>2, <1>3, LenProperties

LEMMA HoldsNew == HoldsElems(NewDeque, <<>>)
<1>1. Blocks(<<>>, <<>>, <<>>) /\ AllFull(<<>>)
  BY BlocksNone
<1>2. NewDeque \in DequeType /\ NewDeque.nodes = <<>> /\ NewDeque.leftIdx = 0 /\ NewDeque.len = 0
  <2>1. <<>> \in Seq(Chunk)
    BY EmptySeq
  <2> QED BY <2>1 DEF NewDeque, DequeType
<1>3. Len(<<>>) = 0
  OBVIOUS
<1>4. Laid(NewDeque, <<>>, <<>>)
  BY <1>1, <1>2, <1>3 DEF Laid, NoneEmpty
<1> QED BY <1>2, <1>3, <1>4, FlattenEmpty DEF HoldsElems

LEMMA ExtendedHolds ==
  ASSUME NEW q, NEW r, NEW xs, Extended(q, r, xs), Len(xs) = q.len + 1
  PROVE  HoldsElems(r, xs)
BY DEF Extended, HoldsElems

LEMMA HoldsRPush ==
  ASSUME NEW q, NEW xs, HoldsElems(q, xs), NEW x, x \in Elem
  PROVE  HoldsElems(RPush(q, x), xs \o <<x>>)
<1>1. PICK B, g : Laid(q, B, g) /\ FlattenSeq(B) = xs /\ q.len = Len(xs)
  BY DEF HoldsElems
<1>2. PICK C : /\ Laid(RPush(q, x), C, g) /\ C # <<>>
               /\ FlattenSeq(C) = FlattenSeq(B) \o <<x>> /\ RPush(q, x).len = q.len + 1
  BY <1>1, RPushIs
<1>3. xs \in Seq(Elem)
  BY HoldsType
<1>4. Len(xs \o <<x>>) = Len(xs) + 1
  BY <1>3, OneType, JoinLen
<1> QED BY <1>1, <1>2, <1>4 DEF HoldsElems

LEMMA HoldsLPush ==
  ASSUME NEW q, NEW xs, HoldsElems(q, xs), NEW x, x \in Elem
  PROVE  HoldsElems(LPush(q, x), <<x>> \o xs)
<1>1. PICK B, g : Laid(q, B, g) /\ FlattenSeq(B) = xs /\ q.len = Len(xs)
  BY DEF HoldsElems
<1>2. PICK C, h : /\ Laid(LPush(q, x), C, h) /\ FlattenSeq(C) = <<x>> \o FlattenSeq(B)
                  /\ LPush(q, x).len = q.len + 1
  BY <1>1, LPushIs
<1>3. xs \in Seq(Elem) /\ Len(xs) \in Nat
  BY HoldsType
<1>4. Len(<<x>> \o xs) = Len(xs) + 1
  <2>1. <<x>> \in Seq(Elem) /\ Len(<<x>>) = 1
    BY OneType
  <2>2. Len(<<x>> \o xs) = Len(<<x>>) + Len(xs)
    BY <1>3, <2>1, JoinLen
  <2> QED BY <1>3, <2>1, <2>2
<1> QED BY <1>1, <1>2, <1>4 DEF HoldsElems

\* r holds what is left of xs when its first element is taken, and its head
\* is not just a gap.
FirstTaken(r, xs) ==
  /\ ~GapHead(r)
  /\ \E x, ys : x \in Elem /\ ys \in Seq(Elem) /\ xs = <<x>> \o ys /\ HoldsElems(r, ys)

LastTaken(r, xs) == \E x, ys : x \in Elem /\ ys \in Seq(Elem) /\ xs = ys \o <<x>> /\ HoldsElems(r, ys)

LEMMA HoldsLPop ==
  ASSUME NEW q, NEW xs, HoldsElems(q, xs), xs # <<>>, ~GapHead(q)
  PROVE  FirstTaken(LPop(q), xs)
<1>1. PICK B, g : Laid(q, B, g) /\ FlattenSeq(B) = xs /\ q.len = Len(xs)
  BY DEF HoldsElems
<1>2. xs \in Seq(Elem) /\ Len(xs) \in Nat
  BY HoldsType
<1>3. Len(xs) # 0
  BY <1>2, EmptySeq
<1>4. PoppedLeft(q, B, LPop(q))
  <2>1. q.len > 0
    BY <1>1, <1>2, <1>3
  <2>2. B[1] # <<>>
    BY <1>1, <2>1, HeadHas
  <2> QED BY <1>1, <2>1, <2>2, LPopIs
<1>5. PICK C, h, x : /\ x \in Elem /\ Laid(LPop(q), C, h) /\ AllFull(C) /\ LPop(q).len = q.len - 1
                     /\ FlattenSeq(B) = <<x>> \o FlattenSeq(C)
  BY <1>4 DEF PoppedLeft
<1> DEFINE ys == FlattenSeq(C)
<1>6. ys \in Seq(Elem)
  BY <1>5, LaidType
<1>7. Len(<<x>> \o ys) = 1 + Len(ys) /\ Len(ys) \in Nat
  <2>1. <<x>> \in Seq(Elem) /\ Len(<<x>>) = 1
    BY <1>5, OneType
  <2> HIDE DEF ys
  <2>2. Len(<<x>> \o ys) = Len(<<x>>) + Len(ys) /\ Len(ys) \in Nat
    BY <1>6, <2>1, JoinLen
  <2> QED BY <2>1, <2>2
<1>8. LPop(q).len = Len(ys)
  <2>1. Len(xs) = 1 + Len(ys)
    BY <1>1, <1>5, <1>7
  <2> HIDE DEF ys
  <2> QED BY <1>1, <1>5, <1>7, <2>1
<1>9. HoldsElems(LPop(q), ys)
  BY <1>5, <1>8 DEF HoldsElems
<1>10. ~GapHead(LPop(q))
  BY <1>5, <1>8, FullHead
<1> QED BY <1>1, <1>5, <1>6, <1>9, <1>10 DEF FirstTaken

LEMMA HoldsRPop ==
  ASSUME NEW q, NEW xs, HoldsElems(q, xs), xs # <<>>
  PROVE  LastTaken(RPop(q), xs)
<1>1. PICK B, g : Laid(q, B, g) /\ FlattenSeq(B) = xs /\ q.len = Len(xs)
  BY DEF HoldsElems
<1>2. xs \in Seq(Elem) /\ Len(xs) \in Nat
  BY HoldsType
<1>3. Len(xs) # 0
  BY <1>2, EmptySeq
<1>4. PoppedRight(q, B, RPop(q))
  BY <1>1, <1>2, <1>3, RPopIs
<1>5. PICK C, h, x : /\ x \in Elem /\ Laid(RPop(q), C, h) /\ RPop(q).len = q.len - 1
                     /\ FlattenSeq(B) = FlattenSeq(C) \o <<x>>
  BY <1>4 DEF PoppedRight
<1> DEFINE ys == FlattenSeq(C)
<1>6. ys \in Seq(Elem)
  BY <1>5, LaidType
<1>7. Len(ys \o <<x>>) = Len(ys) + 1 /\ Len(ys) \in Nat
  <2>1. <<x>> \in Seq(Elem) /\ Len(<<x>>) = 1
    BY <1>5, OneType
  <2> HIDE DEF ys
  <2>2. Len(ys \o <<x>>) = Len(ys) + Len(<<x>>) /\ Len(ys) \in Nat
    BY <1>6, <2>1, JoinLen
  <2> QED BY <2>1, <2>2
<1>8. RPop(q).len = Len(ys)
  <2>1. Len(xs) = Len(ys) + 1
    BY <1>1, <1>5, <1>7
  <2> HIDE DEF ys
  <2> QED BY <1>1, <1>5, <1>7, <2>1
<1>9. HoldsElems(RPop(q), ys)
  BY <1>5, <1>8 DEF HoldsElems
<1> QED BY <1>1, <1>5, <1>6, <1>9 DEF LastTaken

\* An element put in adds one to the length.
LEMMA InsertedLen ==
  ASSUME NEW S, NEW s, s \in Seq(S), NEW t, t \in Seq(S), NEW x, x \in S
  PROVE  /\ (s \o <<x>>) \o t \in Seq(S)
         /\ Len((s \o <<x>>) \o t) = Len(s \o t) + 1
<1> DEFINE u == s \o <<x>>
<1>1. <<x>> \in Seq(S) /\ Len(<<x>>) = 1
  BY OneType
<1>2. u \in Seq(S) /\ Len(u) = Len(s) + 1 /\ Len(s) \in Nat /\ Len(t) \in Nat
  <2> DEFINE y == <<x>>
  <2>1. y \in Seq(S) /\ Len(y) = 1
    BY <1>1
  <2> HIDE DEF y
  <2>2. s \o y \in Seq(S) /\ Len(s \o y) = Len(s) + Len(y)
    BY <2>1, JoinLen
  <2> QED BY <2>1, <2>2, LenProperties DEF y
<1>3. Len(s \o t) = Len(s) + Len(t)
  BY JoinLen
<1> HIDE DEF u
<1>4. u \o t \in Seq(S) /\ Len(u \o t) = Len(u) + Len(t)
  BY <1>2, JoinLen
<1>5. Len(u \o t) = Len(s \o t) + 1
  BY <1>2, <1>3, <1>4
<1> QED BY <1>4, <1>5 DEF u

\* LINSERT: unchanged without the pivot, else x is where DequeBasic puts it.
ListInserted(q, r, xs, pivot, x, where) ==
  IF First(xs, pivot) = 0 THEN r = q
  ELSE HoldsElems(r, Inserted(xs, PutAfter(First(xs, pivot), where), x))

\* What insertion makes of the deque around the pivot's step.
LEMMA AfterPivot ==
  ASSUME NEW q, NEW B, NEW g, Laid(q, B, g), q.len = Len(FlattenSeq(B)), AllFull(B),
         NEW i, NEW s, StepAt(B, g, i, s), NEW x, x \in Elem
  PROVE  HoldsElems(insertAfterPivotNode(q, x, s), Inserted(FlattenSeq(B), i, x))
<1>1. PICK p, us, vs : Spot(B, g, i, s, p, us, vs)
  BY DEF StepAt
<1> DEFINE u == Upto(B, p, us, s.x)
           v == Beyond(B, p, vs)
           r == insertAfterPivotNode(q, x, s)
<1>2. InsertedAfter(q, r, B, p, us, s.x, x, vs)
  BY <1>1, InsertAfterIs
<1>3. Extended(q, r, (u \o <<x>>) \o v)
  BY <1>2 DEF InsertedAfter
<1>4. u \in Seq(Elem) /\ v \in Seq(Elem) /\ Len(u) = i /\ FlattenSeq(B) = u \o v
  BY <1>1, SpotSplit
<1> HIDE DEF u, v, r
<1>5. Inserted(u \o v, Len(u), x) = (u \o <<x>>) \o v
  BY <1>4, InsertedIs
<1>6. Len((u \o <<x>>) \o v) = Len(u \o v) + 1
  BY <1>4, InsertedLen
<1>7. Len((u \o <<x>>) \o v) = q.len + 1
  BY <1>4, <1>6
<1>8. HoldsElems(r, (u \o <<x>>) \o v)
  BY <1>3, <1>7, ExtendedHolds
<1> QED BY <1>4, <1>5, <1>8 DEF r

LEMMA BeforePivot ==
  ASSUME NEW q, NEW B, NEW g, Laid(q, B, g), q.len = Len(FlattenSeq(B)), AllFull(B),
         NEW i, i > 1, NEW s, StepAt(B, g, i, s), NEW x, x \in Elem, NEW pivot, pivot = s.x
  PROVE  HoldsElems(insertBeforePivotHelper(q, pivot, x, s), Inserted(FlattenSeq(B), i - 1, x))
<1>1. PICK p, us, vs : Spot(B, g, i, s, p, us, vs)
  BY DEF StepAt
<1> DEFINE E == ElemsBefore(B, p)
           Y == <<pivot>>
           u == E \o us
           S == Beyond(B, p, vs)
           v == Y \o S
           r == insertBeforePivotHelper(q, pivot, x, s)
<1>2. InsertedBefore(q, r, B, p, us, pivot, x, vs)
  BY <1>1, InsertBeforeIs
<1>3. Extended(q, r, (u \o <<x>>) \o v)
  BY <1>2 DEF InsertedBefore
<1>4. us \in Seq(Elem) /\ s.x \in Elem /\ i = Len(E) + Len(us) + 1
  BY <1>1 DEF Spot
<1>5. /\ S \in Seq(Elem) /\ E \in Seq(Elem) /\ FlattenSeq(B) = Upto(B, p, us, s.x) \o S
  BY <1>1, SpotSplit
<1>6. FlattenSeq(B) = (E \o (us \o Y)) \o S
  BY <1>5 DEF Upto
<1>7. Y \in Seq(Elem)
  BY <1>4, OneType
<1> HIDE DEF E, Y, S, r
<1>8. u \in Seq(Elem) /\ v \in Seq(Elem) /\ Len(u) = i - 1
  <2>1. u \in Seq(Elem) /\ Len(u) = Len(E) + Len(us)
    BY <1>4, <1>5, JoinLen
  <2>2. v \in Seq(Elem)
    BY <1>5, <1>7, JoinLen
  <2>3. Len(E) \in Nat /\ Len(us) \in Nat
    BY <1>4, <1>5, LenProperties
  <2> HIDE DEF u, v
  <2> QED BY <1>4, <2>1, <2>2, <2>3
<1>9. FlattenSeq(B) = u \o v
  <2>1. (E \o us) \o Y = E \o (us \o Y)
    <3>1. E \in Seq(Elem) /\ us \in Seq(Elem) /\ Y \in Seq(Elem)
      BY <1>4, <1>5, <1>7
    <3> HIDE DEF u
    <3> QED BY SMTT(30), <3>1, JoinAssoc
  <2> HIDE DEF u
  <2>2. (u \o Y) \o S = u \o (Y \o S)
    <3>1. u \in Seq(Elem) /\ Y \in Seq(Elem) /\ S \in Seq(Elem)
      BY <1>5, <1>7, <1>8
    <3> HIDE DEF v
    <3> QED BY SMTT(30), <3>1, JoinAssoc
  <2> QED BY <1>6, <2>1, <2>2 DEF u
<1> HIDE DEF u, v
<1>10. Inserted(u \o v, Len(u), x) = (u \o <<x>>) \o v
  BY <1>8, InsertedIs
<1>11. Len((u \o <<x>>) \o v) = Len(u \o v) + 1
  BY <1>8, InsertedLen
<1>12. Len((u \o <<x>>) \o v) = q.len + 1
  BY <1>9, <1>11
<1>13. HoldsElems(r, (u \o <<x>>) \o v)
  BY <1>3, <1>12, ExtendedHolds
<1> QED BY <1>8, <1>9, <1>10, <1>13 DEF r

LEMMA InsertedEnds ==
  ASSUME NEW S, NEW s, s \in Seq(S), NEW x, x \in S
  PROVE  Inserted(s, 0, x) = <<x>> \o s /\ Inserted(s, Len(s), x) = s \o <<x>>
<1> DEFINE n == Len(s)
           y == <<x>>
<1>1. y \in Seq(S) /\ s \o y \in Seq(S) /\ <<>> \in Seq(S) /\ Len(<<>>) = 0
  BY OneType, JoinLen, EmptySeq
<1> HIDE DEF y
<1>2. <<>> \o y = y /\ (s \o y) \o <<>> = s \o y
  BY <1>1, ConcatEmptySeq
<1>3. <<>> \o s = s /\ s \o <<>> = s
  BY ConcatEmptySeq
<1>4. Inserted(<<>> \o s, Len(<<>>), x) = <<>> \o y \o s
  BY <1>1, InsertedIs DEF y
<1>5. Inserted(s \o <<>>, Len(s), x) = s \o y \o <<>>
  BY <1>1, InsertedIs DEF y
<1> QED BY <1>1, <1>2, <1>3, <1>4, <1>5 DEF y

LEMMA HoldsLInsert ==
  ASSUME NEW q, NEW xs, HoldsElems(q, xs), NEW pivot, NEW x, x \in Elem,
         NEW where, where \in {"before", "after"}, ~GapHead(q)
  PROVE  ListInserted(q, LInsert(q, pivot, x, where), xs, pivot, x, where)
<1> DEFINE p == First(xs, pivot)
           s == Iteration(q)[p]
           b1 == where = "before" /\ p = 1
           b2 == where = "before" /\ p > 1
           b3 == where = "after" /\ p = q.len
           new == CASE b1 -> LPush(q, x)
                    [] b2 -> insertBeforePivotHelper(q, pivot, x, s)
                    [] b3 -> RPush(q, x)
                    [] OTHER -> insertAfterPivotNode(q, x, s)
           r == LInsert(q, pivot, x, where)
           k == PutAfter(p, where)
<1>1. /\ xs \in Seq(Elem) /\ Len(xs) \in Nat /\ q.len = Len(xs) /\ Elems(q) = xs
  BY HoldsType
<1>2. r = IF p = 0 THEN q ELSE new
  BY <1>1 DEF LInsert, First
<1>3. PICK B, g : Laid(q, B, g) /\ FlattenSeq(B) = xs /\ q.len = Len(xs)
  BY DEF HoldsElems
<1>4. p = 0 \/ (p \in 1..Len(xs) /\ xs[p] = pivot)
  BY <1>1, FirstIs
<1> HIDE DEF r, p
<1>5. ASSUME p # 0 PROVE HoldsElems(new, Inserted(xs, k, x))
  <2>1. p \in 1..Len(xs) /\ xs[p] = pivot
    BY <1>4, <1>5
  <2>2. q.len > 0 /\ xs # <<>>
    BY <1>1, <2>1, EmptySeq
  <2>3. AllFull(B)
    <3>1. B[1] # <<>>
      BY <1>3, <2>2, HeadHas
    <3> QED BY <1>3, <3>1, LaidSome
  <2>4. StepAt(B, g, p, s)
    BY <1>1, <1>3, <2>1, <2>2, IterationIs
  <2>5. s.x = pivot
    <3> HIDE DEF s
    <3> QED BY <1>3, <2>1, <2>4, StepElem
  <2> HIDE DEF s
  <2> DEFINE r1 == LPush(q, x)
             r2 == insertBeforePivotHelper(q, pivot, x, s)
             r3 == RPush(q, x)
             r4 == insertAfterPivotNode(q, x, s)
  <2>6. CASE b1
    <3>1. k = 0
      BY <2>6 DEF PutAfter
    <3>2. HoldsElems(r1, <<x>> \o xs)
      BY HoldsLPush
    <3>3. new = r1
      BY <2>6
    <3> HIDE DEF new, r1, k
    <3>4. Inserted(xs, 0, x) = <<x>> \o xs
      BY <1>1, InsertedEnds
    <3> QED BY <3>1, <3>2, <3>3, <3>4
  <2>7. CASE b2
    <3>1. k = p - 1
      BY <2>7 DEF PutAfter
    <3>2. HoldsElems(r2, Inserted(xs, p - 1, x))
      <4>1. p > 1
        BY <2>7
      <4> HIDE DEF r2
      <4> QED BY <1>1, <1>3, <2>3, <2>4, <2>5, <4>1, BeforePivot DEF r2
    <3>3. new = r2
      <4>1. b2 /\ ~b1 /\ ~b3
        BY <1>1, <2>1, <2>7
      <4> HIDE DEF b1, b2, b3, r2
      <4> QED BY <4>1 DEF r2
    <3> HIDE DEF new, r2, k
    <3> QED BY <3>1, <3>2, <3>3
  <2>8. CASE where = "after" /\ p = q.len
    <3>1. k = Len(xs)
      BY <1>1, <2>8 DEF PutAfter
    <3>2. HoldsElems(r3, xs \o <<x>>)
      BY HoldsRPush
    <3>3. new = r3
      <4>1. b3 /\ ~b1 /\ ~b2
        BY <2>8
      <4> HIDE DEF b1, b2, b3, r3
      <4> QED BY <4>1 DEF r3
    <3> HIDE DEF new, r3, k
    <3>4. Inserted(xs, Len(xs), x) = xs \o <<x>>
      BY <1>1, InsertedEnds
    <3> QED BY <3>1, <3>2, <3>3, <3>4
  <2>9. CASE where = "after" /\ p # q.len
    <3>1. k = p
      BY <2>9 DEF PutAfter
    <3>2. HoldsElems(r4, Inserted(xs, p, x))
      <4> HIDE DEF r4
      <4> QED BY <1>1, <1>3, <2>3, <2>4, AfterPivot DEF r4
    <3>3. new = r4
      <4>1. ~b3 /\ ~b1 /\ ~b2
        BY <2>9
      <4> HIDE DEF b1, b2, b3, r4
      <4> QED BY <4>1 DEF r4
    <3> HIDE DEF new, r4, k
    <3> QED BY <3>1, <3>2, <3>3
  <2>10. b1 \/ b2 \/ (where = "after" /\ p = q.len) \/ (where = "after" /\ p # q.len)
    BY <1>1, <2>1
  <2> HIDE DEF new, k
  <2> QED BY <2>6, <2>7, <2>8, <2>9, <2>10
<1> HIDE DEF new, k
<1>6. IF p = 0 THEN r = q ELSE HoldsElems(r, Inserted(xs, k, x))
  BY <1>2, <1>5
<1> QED BY <1>6 DEF ListInserted, p, r, k


\* RESTORE's deque holds the same.
LEMMA HoldsRestored ==
  ASSUME NEW q, NEW xs, HoldsElems(q, xs)
  PROVE  HoldsElems(DeserializeDeque(SerializeDeque(q)), xs)
<1>1. PICK B, g : Laid(q, B, g) /\ FlattenSeq(B) = xs /\ q.len = Len(xs)
  BY DEF HoldsElems
<1> DEFINE ns == q.nodes
           n == Len(B)
           ms == [i \in 1..n |-> Node(ns[i].buf, Len(ns[i].buf))]
           r == DeserializeDeque(SerializeDeque(q))
<1>2. /\ q.len \in Nat /\ ns \in Seq(Chunk) /\ B \in Seq(Seq(Elem)) /\ g \in Seq(Unit)
      /\ Len(ns) = n /\ n \in Nat /\ q.leftIdx = Len(g) /\ Len(g) \in Nat
      /\ xs \in Seq(Elem)
  BY <1>1, LaidType
<1>3. DOMAIN ns = 1..n
  BY <1>2, LenProperties
<1>4. NoneEmpty(B, g)
  BY <1>1 DEF Laid
<1>5. r = [len |-> q.len, nodes |-> ms, leftIdx |-> Len(g)]
  <2> DEFINE bufs == [i \in 1..n |-> ns[i].buf]
             d == SerializeDeque(q)
  <2>1. d = [len |-> q.len, leftIdx |-> Len(g), bufs |-> bufs]
    BY <1>2, <1>3 DEF SerializeDeque
  <2>2. DOMAIN bufs = 1..n /\ \A i \in 1..n : bufs[i] = ns[i].buf
    OBVIOUS
  <2> HIDE DEF bufs, d, n
  <2>3. r = [len |-> d.len, leftIdx |-> d.leftIdx, nodes |-> [i \in DOMAIN d.bufs |-> Node(d.bufs[i], Len(d.bufs[i]))]]
    BY DEF DeserializeDeque, d
  <2>4. d.len = q.len /\ d.leftIdx = Len(g) /\ d.bufs = bufs
    BY <2>1
  <2> HIDE DEF r
  <2>5. r = [len |-> q.len, leftIdx |-> Len(g), nodes |-> [i \in 1..n |-> Node(bufs[i], Len(bufs[i]))]]
    BY <2>2, <2>3, <2>4
  <2>6. [i \in 1..n |-> Node(bufs[i], Len(bufs[i]))] = ms
    BY <2>2
  <2> HIDE DEF ms
  <2> QED BY <2>5, <2>6
<1> HIDE DEF r
<1>6. \A i \in 1..n : /\ ms[i] \in Chunk /\ ms[i].buf = Gapped(g, i) \o Bytes(B[i])
                      /\ Len(ms[i].buf) <= ms[i].cap
  <2> SUFFICES ASSUME NEW i \in 1..n
               PROVE  /\ ms[i] \in Chunk /\ ms[i].buf = Gapped(g, i) \o Bytes(B[i])
                      /\ Len(ms[i].buf) <= ms[i].cap
    OBVIOUS
  <2> DEFINE b == ns[i].buf
  <2>1. ns[i] \in Chunk /\ b = Gapped(g, i) \o Bytes(B[i])
    BY <1>1, LaidNode
  <2>2. b \in Seq(Unit)
    BY <2>1 DEF Chunk
  <2>3. Len(b) \in Nat
    BY <2>2, LenProperties
  <2>4. ms[i] = [buf |-> b, cap |-> Len(b)]
    BY DEF Node
  <2> HIDE DEF b, ms, n
  <2> QED BY <2>1, <2>2, <2>3, <2>4 DEF Chunk
<1>7. ms \in Seq(Chunk) /\ Len(ms) = n
  <2>1. \A i \in 1..n : Node(ns[i].buf, Len(ns[i].buf)) \in Chunk
    BY <1>6
  <2>2. ms \in [1..n -> Chunk]
    BY <2>1
  <2> HIDE DEF ms, n
  <2> QED BY <1>2, <2>2
<1> HIDE DEF ms
<1>8. Blocks(ms, B, g)
  BY <1>2, <1>6, <1>7 DEF Blocks
<1>9. Laid(r, B, g)
  <2> HIDE DEF n
  <2> QED BY <1>2, <1>4, <1>5, <1>8, LaidKept
<1>10. r.len = q.len
  BY <1>5
<1> QED BY <1>1, <1>9, <1>10 DEF r, HoldsElems

\* The buffers, end to end.
LEMMA BuffersAre ==
  ASSUME NEW q, NEW B, NEW g, Laid(q, B, g)
  PROVE  FlattenSeq([i \in 1..Len(B) |-> q.nodes[i].buf]) = g \o Bytes(FlattenSeq(B))
<1> DEFINE n == Len(B)
           bufs == [i \in 1..n |-> q.nodes[i].buf]
           each == BytesEach(B)
<1>1. B \in Seq(Seq(Elem)) /\ g \in Seq(Unit) /\ n \in Nat /\ q.leftIdx = Len(g)
  BY LaidType
<1>2. each \in Seq(Seq(Unit)) /\ Len(each) = n /\ \A i \in 1..n : each[i] = Bytes(B[i])
  <2>1. each \in Seq(Seq(Unit)) /\ Len(each) = n
    BY <1>1, BytesEachType
  <2>2. \A i \in 1..n : each[i] = Bytes(B[i])
    BY DEF BytesEach
  <2> QED BY <2>1, <2>2
<1>3. Bytes(FlattenSeq(B)) = FlattenSeq(each)
  BY <1>1, BytesFlat
<1> HIDE DEF each
<1>4. \A i \in 1..n : bufs[i] \in Seq(Unit) /\ bufs[i] = Gapped(g, i) \o each[i]
  <2> SUFFICES ASSUME NEW i \in 1..n
               PROVE  bufs[i] \in Seq(Unit) /\ bufs[i] = Gapped(g, i) \o each[i]
    OBVIOUS
  <2>1. q.nodes[i] \in Chunk /\ q.nodes[i].buf = Gapped(g, i) \o Bytes(B[i])
    BY LaidNode
  <2>2. q.nodes[i].buf \in Seq(Unit)
    BY <2>1 DEF Chunk
  <2> QED BY <1>2, <2>1, <2>2
<1>5. bufs \in Seq(Seq(Unit)) /\ Len(bufs) = n
  <2>1. \A i \in 1..n : q.nodes[i].buf \in Seq(Unit)
    BY <1>4
  <2>2. bufs \in [1..n -> Seq(Unit)]
    BY <2>1
  <2> HIDE DEF bufs, n
  <2> QED BY <1>1, <2>2
<1> HIDE DEF bufs
<1>6. CASE B = <<>>
  <2>1. n = 0 /\ g = <<>>
    <3>1. n = 0
      BY <1>6
    <3>2. ~GapFirst(B, g)
      BY <3>1 DEF GapFirst
    <3> QED BY <1>6, <3>1, <3>2 DEF Laid, NoneEmpty
  <2> HIDE DEF n
  <2>2. bufs = <<>> /\ each = <<>>
    BY <1>2, <1>5, <2>1, EmptySeq
  <2>3. <<>> \o <<>> = <<>>
    BY EmptySeq, ConcatEmptySeq
  <2> QED BY <1>3, <2>1, <2>2, <2>3, FlattenEmpty DEF bufs, n
<1>7. CASE B # <<>>
  <2> DEFINE s == each[1]
             t == SubSeq(each, 2, n)
  <2>1. n # 0 /\ 1 \in 1..n
    <3>1. n # 0
      <4> HIDE DEF n
      <4> QED BY <1>1, <1>7, EmptySeq DEF n
    <3> HIDE DEF n
    <3> QED BY <1>1, <3>1
  <2> HIDE DEF n
  <2>2. s \in Seq(Unit) /\ t \in Seq(Seq(Unit)) /\ each = <<s>> \o t
    <3>1. each # <<>>
      BY <1>2, <2>1, EmptySeq
    <3> QED BY <1>2, <3>1, HeadOf
  <2>3. bufs[1] = g \o s
    BY <1>4, <2>1 DEF Gapped
  <2>4. SubSeq(bufs, 2, n) = t
    <3>1. \A j \in 2..n : each[j] \in Seq(Unit) /\ bufs[j] = each[j]
      <4> SUFFICES ASSUME NEW j \in 2..n PROVE each[j] \in Seq(Unit) /\ bufs[j] = each[j]
        OBVIOUS
      <4>1. j \in 1..n /\ j # 1
        BY <1>1
      <4>2. each[j] \in Seq(Unit)
        BY <1>2, <4>1, ElementOfSeq
      <4>3. bufs[j] = <<>> \o each[j]
        BY <1>4, <4>1 DEF Gapped
      <4> QED BY <4>2, <4>3, ConcatEmptySeq
    <3> DEFINE a == 2
    <3>2. a \in Nat /\ n \in Nat /\ \A j \in a..n : each[j] \in Seq(Unit) /\ bufs[j] = each[j]
      BY <1>1, <3>1
    <3> HIDE DEF a
    <3>3. SubSeq(each, a, n) = SubSeq(bufs, a, n)
      BY <1>2, <1>5, <3>2, SubSeqSame
    <3> QED BY <3>3 DEF a
  <2>5. bufs = <<g \o s>> \o t
    <3>1. bufs # <<>>
      BY <1>5, <2>1, EmptySeq
    <3>2. bufs = <<bufs[1]>> \o SubSeq(bufs, 2, Len(bufs))
      BY <1>5, <3>1, HeadOf
    <3> QED BY <1>5, <2>3, <2>4, <3>2
  <2> HIDE DEF s, t
  <2> DEFINE gs == g \o s
             S1 == <<s>>
             G1 == <<gs>>
             f == FlattenSeq(t)
  <2>6. gs \in Seq(Unit)
    BY <1>1, <2>2, JoinLen
  <2>7. S1 \in Seq(Seq(Unit)) /\ FlattenSeq(S1) = s
    BY <2>2, OneType, FlattenOne
  <2> HIDE DEF gs
  <2>8. G1 \in Seq(Seq(Unit)) /\ FlattenSeq(G1) = gs
    BY <2>6, OneType, FlattenOne
  <2>9. f \in Seq(Unit)
    BY <2>2, FlattenType
  <2> HIDE DEF S1, G1, f
  <2>10. FlattenSeq(S1 \o t) = FlattenSeq(S1) \o FlattenSeq(t)
    BY <2>2, <2>7, FlattenJoin
  <2>11. FlattenSeq(G1 \o t) = FlattenSeq(G1) \o FlattenSeq(t)
    BY <2>2, <2>8, FlattenJoin
  <2>12. (g \o s) \o f = g \o (s \o f)
    <3>1. g \in Seq(Unit) /\ s \in Seq(Unit) /\ f \in Seq(Unit)
      BY <1>1, <2>2, <2>9
    <3> QED BY SMTT(30), <3>1, JoinAssoc
  <2>13. FlattenSeq(each) = s \o f
    BY <2>2, <2>7, <2>10 DEF S1, f
  <2>14. FlattenSeq(bufs) = gs \o f
    BY <2>5, <2>8, <2>11 DEF G1, f, gs
  <2>15. FlattenSeq(bufs) = g \o FlattenSeq(each)
    BY <2>12, <2>13, <2>14 DEF gs
  <2> QED BY <1>3, <2>15 DEF bufs, n
<1> QED BY <1>6, <1>7

\* The nodes of q are the gap and then the bytes of xs, and none is empty or
\* too long.
Stored(q, xs) ==
  LET bytes == FlattenSeq([i \in DOMAIN q.nodes |-> q.nodes[i].buf])
  IN /\ SubSeq(bytes, q.leftIdx + 1, Len(bytes)) = Bytes(xs)
     /\ \A i \in DOMAIN q.nodes :
          Len(q.nodes[i].buf) \in (IF i = 1 /\ q.leftIdx > 0 THEN q.leftIdx ELSE 1)..q.nodes[i].cap

LEMMA HoldsStored ==
  ASSUME NEW q, NEW xs, HoldsElems(q, xs)
  PROVE  Stored(q, xs)
<1>1. PICK B, g : Laid(q, B, g) /\ FlattenSeq(B) = xs /\ q.len = Len(xs)
  BY DEF HoldsElems
<1> DEFINE ns == q.nodes
           n == Len(B)
           bytes == FlattenSeq([i \in 1..n |-> ns[i].buf])
           m == Bytes(xs)
<1>2. /\ ns \in Seq(Chunk) /\ B \in Seq(Seq(Elem)) /\ g \in Seq(Unit)
      /\ Len(ns) = n /\ n \in Nat /\ q.leftIdx = Len(g) /\ Len(g) \in Nat
      /\ xs \in Seq(Elem)
  BY <1>1, LaidType
<1>3. DOMAIN ns = 1..n
  BY <1>2, LenProperties
<1>4. bytes = g \o m
  BY <1>1, BuffersAre
<1>5. m \in Seq(Unit)
  BY <1>2, BytesType
<1> HIDE DEF bytes, m
<1>6. SubSeq(bytes, q.leftIdx + 1, Len(bytes)) = m
  <2>1. SubSeq(g \o m, Len(g) + 1, Len(g \o m)) = m
    BY <1>2, <1>5, CutJoined
  <2> QED BY <1>2, <1>4, <2>1
<1>7. ASSUME NEW i \in 1..n
      PROVE  Len(ns[i].buf) \in (IF i = 1 /\ q.leftIdx > 0 THEN q.leftIdx ELSE 1)..ns[i].cap
  <2> DEFINE b == ns[i].buf
             c == ns[i].cap
             h == Gapped(g, i)
             e == Bytes(B[i])
  <2>1. ns[i] \in Chunk /\ B[i] \in Seq(Elem) /\ h \in Seq(Unit) /\ b = h \o e /\ Len(b) <= c
    BY <1>1, LaidNode
  <2>2. c \in Nat /\ e \in Seq(Unit)
    BY <2>1, BytesType DEF Chunk
  <2>3. B[i] # <<>> => Len(e) > 0
    BY <2>1, BytesSome
  <2> HIDE DEF h, e
  <2>4. Len(b) = Len(h) + Len(e) /\ Len(h) \in Nat /\ Len(e) \in Nat
    <3>1. Len(h \o e) = Len(h) + Len(e) /\ Len(h) \in Nat /\ Len(e) \in Nat
      BY <2>1, <2>2, JoinLen
    <3> QED BY <2>1, <3>1
  <2>5. i = 1 => Len(h) = Len(g)
    BY DEF h, Gapped
  <2>6. B[i] # <<>> \/ (i = 1 /\ g # <<>>)
    <3>1. CASE GapFirst(B, g)
      <4>1. i = 1 \/ i \in 2..Len(B)
        BY <1>2
      <4> QED BY <3>1, <4>1 DEF GapFirst
    <3>2. CASE AllFull(B)
      BY <3>2 DEF AllFull
    <3> QED BY <1>1, <3>1, <3>2 DEF Laid, NoneEmpty
  <2>7. g # <<>> => Len(g) # 0
    BY <1>2, EmptySeq
  <2> HIDE DEF b, c
  <2>8. Len(b) \in (IF i = 1 /\ q.leftIdx > 0 THEN q.leftIdx ELSE 1)..c
    <3> HIDE DEF n
    <3>1. Len(b) <= c /\ Len(b) \in Nat
      BY <2>1, <2>4
    <3>2. CASE i = 1 /\ q.leftIdx > 0
      <4>1. Len(b) >= q.leftIdx
        BY <1>2, <2>4, <2>5, <3>2
      <4> QED BY <1>2, <2>2, <3>1, <3>2, <4>1
    <3>3. CASE ~(i = 1 /\ q.leftIdx > 0)
      <4>1. Len(b) >= 1
        <5>1. B[i] # <<>>
          BY <1>2, <2>6, <2>7, <3>3
        <5> QED BY <2>3, <2>4, <5>1
      <4> QED BY <2>2, <3>1, <3>3, <4>1
    <3> QED BY <3>2, <3>3
  <2> QED BY <2>8 DEF b, c
<1>8. \A i \in 1..n : Len(ns[i].buf) \in (IF i = 1 /\ q.leftIdx > 0 THEN q.leftIdx ELSE 1)..ns[i].cap
  BY <1>7
<1> QED BY <1>3, <1>6, <1>8 DEF Stored, bytes, m

=============================================================================
