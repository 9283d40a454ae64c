--------------------------- MODULE WalForgeProofs ---------------------------
(***************************************************************************)
(* WalForge for any sizes of buffer and segment, any number of entries,    *)
(* segments (up to the two digits SegmentKey compares) and runs: every     *)
(* segment keeps the order of the log, losses are suffixes of a run, a     *)
(* replay returns no entry twice, and the first one a prefix.              *)
(*                                                                         *)
(* The argument is about Flows, each segment with the buffer that is going *)
(* to be written to it: flushes and rotations leave Flows as it is,        *)
(* LogCommand appends to it, and a crash cuts it back to the files.  The   *)
(* inductive invariant WalInv says that Flows is in order and has no unit  *)
(* twice, that what is buffered is newer than all that is written and of   *)
(* the running server, that no entry of the running server is out of       *)
(* Flows, and how the first run laid its segments.                         *)
(***************************************************************************)
EXTENDS WalForge, FiniteSetTheorems, SequenceTheorems, Induction, TLAPS

-----------------------------------------------------------------------------
(* What a segment holds once the buffer is written to it *)

Flow(s) == IF s = csIdx THEN files[s] \o buf ELSE files[s]
Flows == [s \in Segment |-> Flow(s)]

Entry(id) == <<HeadOf(id), BodyOf(id)>>

\* Every segment of g is the beginning of the same segment of f.
Within(g, f) ==
  \A s \in Segment :
    Len(g[s]) <= Len(f[s]) /\ \A p \in 1..Len(g[s]) : g[s][p] = f[s][p]

\* f has entries up to n, each segment in order, and no unit twice.
Known(f, n) == \A s \in Segment : \A p \in 1..Len(f[s]) : f[s][p][1] <= n
Ordered(f) ==
  \A s \in Segment : \A p, q \in 1..Len(f[s]) : p < q => f[s][p][1] <= f[s][q][1]
Unique(f) ==
  \A s, t \in Segment : \A p \in 1..Len(f[s]), q \in 1..Len(f[t]) :
    f[s][p] = f[t][q] => s = t /\ p = q
Sound(f, n) == Known(f, n) /\ Ordered(f) /\ Unique(f)

\* g is f with the entry id at the end of segment c.
Extends(g, f, c, id) ==
  /\ \A s \in Segment : s # c => g[s] = f[s]
  /\ g[c] = f[c] \o Entry(id)

LEMMA UnitFields ==
  ASSUME NEW u \in Unit
  PROVE  u = <<u[1], u[2]>> /\ u[1] \in 1..MaxLog /\ u[2] \in {"head", "body"}
BY DEF Unit

LEMMA EntryUnits ==
  ASSUME NEW id \in 1..MaxLog
  PROVE  /\ Entry(id) \in Seq(Unit) /\ Len(Entry(id)) = 2
         /\ Entry(id)[1] = HeadOf(id) /\ Entry(id)[2] = BodyOf(id)
         /\ HeadOf(id) \in Unit /\ BodyOf(id) \in Unit
         /\ HeadOf(id)[1] = id /\ BodyOf(id)[1] = id
         /\ HeadOf(id)[2] = "head" /\ BodyOf(id)[2] = "body"
         /\ HeadOf(id) # BodyOf(id)
BY DEF Entry, HeadOf, BodyOf, Unit

LEMMA WithinSound ==
  ASSUME NEW f \in [Segment -> Seq(Unit)], NEW g \in [Segment -> Seq(Unit)], NEW n \in Nat,
         Within(g, f), Sound(f, n)
  PROVE  Sound(g, n)
<1>1. \A s \in Segment : \A p \in 1..Len(g[s]) : p \in 1..Len(f[s]) /\ g[s][p] = f[s][p]
  BY DEF Within
<1>2. Known(g, n)
  BY <1>1 DEF Known, Sound
<1>3. Ordered(g)
  BY <1>1 DEF Ordered, Sound
<1>4. Unique(g)
  BY <1>1 DEF Unique, Sound
<1> QED BY <1>2, <1>3, <1>4 DEF Sound

LEMMA Concat ==
  ASSUME NEW a \in Seq(Unit), NEW b \in Seq(Unit)
  PROVE  /\ a \o b \in Seq(Unit) /\ Len(a \o b) = Len(a) + Len(b)
         /\ Len(a) \in Nat /\ Len(b) \in Nat
         /\ \A p \in 1..Len(a) + Len(b) :
              (a \o b)[p] = IF p <= Len(a) THEN a[p] ELSE b[p - Len(a)]
<1> DEFINE U == Unit
<1>1. a \in Seq(U) /\ b \in Seq(U)
  OBVIOUS
<1> HIDE DEF U
<1>2. /\ a \o b \in Seq(U) /\ Len(a \o b) = Len(a) + Len(b)
      /\ \A p \in 1..Len(a) + Len(b) :
           (a \o b)[p] = IF p <= Len(a) THEN a[p] ELSE b[p - Len(a)]
  BY <1>1, ConcatProperties
<1> QED BY <1>1, <1>2 DEF U

LEMMA UnitsAssociative ==
  \A a, b, c \in Seq(Unit) : (a \o b) \o c = a \o (b \o c)
<1> DEFINE U == Unit
<1> HIDE DEF U
<1>1. \A a, b, c \in Seq(U) : (a \o b) \o c = a \o (b \o c)
  BY ConcatAssociative
<1> QED BY <1>1 DEF U

LEMMA ExtendsPointwise ==
  ASSUME NEW f \in [Segment -> Seq(Unit)], NEW g, NEW c \in Segment, NEW id \in 1..MaxLog,
         Extends(g, f, c, id)
  PROVE  /\ g[c] \in Seq(Unit) /\ Len(g[c]) = Len(f[c]) + 2 /\ Len(f[c]) \in Nat
         /\ \A p \in 1..Len(f[c]) : g[c][p] = f[c][p]
         /\ g[c][Len(f[c]) + 1] = HeadOf(id) /\ g[c][Len(f[c]) + 2] = BodyOf(id)
<1> DEFINE n == Len(f[c])
           e == Entry(id)
<1>1. e \in Seq(Unit) /\ Len(e) = 2 /\ e[1] = HeadOf(id) /\ e[2] = BodyOf(id)
  BY EntryUnits
<1>2. f[c] \in Seq(Unit) /\ n \in Nat
  OBVIOUS
<1>3. g[c] = f[c] \o e
  BY DEF Extends
<1> HIDE DEF e
<1>4. /\ f[c] \o e \in Seq(Unit) /\ Len(f[c] \o e) = n + 2
      /\ \A p \in 1..n + 2 : (f[c] \o e)[p] = IF p <= n THEN f[c][p] ELSE e[p - n]
  <2> DEFINE a == f[c]
  <2>1. a \in Seq(Unit) /\ e \in Seq(Unit)
    BY <1>1, <1>2
  <2> HIDE DEF a
  <2>2. /\ a \o e \in Seq(Unit) /\ Len(a \o e) = Len(a) + Len(e)
        /\ \A p \in 1..Len(a) + Len(e) :
             (a \o e)[p] = IF p <= Len(a) THEN a[p] ELSE e[p - Len(a)]
    BY <2>1, Concat
  <2>3. Len(a) + Len(e) = n + 2 /\ n = Len(a)
    BY <1>1 DEF a
  <2> QED BY <2>2, <2>3 DEF a
<1>5. \A p \in 1..n : (f[c] \o e)[p] = f[c][p]
  BY <1>2, <1>4
<1>6. (f[c] \o e)[n + 1] = e[1]
  BY <1>2, <1>4
<1>7. (f[c] \o e)[n + 2] = e[2]
  BY <1>2, <1>4
<1> QED BY <1>1, <1>2, <1>3, <1>4, <1>5, <1>6, <1>7

LEMMA ExtendsSound ==
  ASSUME NEW f \in [Segment -> Seq(Unit)], NEW g \in [Segment -> Seq(Unit)],
         NEW c \in Segment, NEW n \in Nat, n + 1 <= MaxLog,
         Extends(g, f, c, n + 1), Sound(f, n)
  PROVE  Sound(g, n + 1)
<1> DEFINE m == Len(f[c])
           id == n + 1
<1>0. id \in 1..MaxLog
  BY BoundAssumption
<1>1. /\ Len(g[c]) = m + 2 /\ m \in Nat
      /\ \A p \in 1..m : g[c][p] = f[c][p]
      /\ g[c][m + 1] = HeadOf(id) /\ g[c][m + 2] = BodyOf(id)
  <2>1. Extends(g, f, c, id)
    OBVIOUS
  <2> HIDE DEF id, m
  <2>2. /\ Len(g[c]) = Len(f[c]) + 2 /\ Len(f[c]) \in Nat
        /\ \A p \in 1..Len(f[c]) : g[c][p] = f[c][p]
        /\ g[c][Len(f[c]) + 1] = HeadOf(id) /\ g[c][Len(f[c]) + 2] = BodyOf(id)
    BY <1>0, <2>1, ExtendsPointwise
  <2> QED BY <2>2 DEF m
<1>2. /\ HeadOf(id)[1] = id /\ BodyOf(id)[1] = id /\ HeadOf(id) # BodyOf(id)
  BY <1>0, EntryUnits
<1>3. \A s \in Segment : s # c => g[s] = f[s]
  BY DEF Extends
<1>4. \A p \in 1..Len(g[c]) : p \in 1..m \/ p = m + 1 \/ p = m + 2
  BY <1>1
<1> DEFINE Old(s, p) == p \in 1..Len(f[s]) /\ g[s][p] = f[s][p]
           New(s, p) == s = c /\ ((p = m + 1 /\ g[s][p] = HeadOf(id)) \/ (p = m + 2 /\ g[s][p] = BodyOf(id)))
<1>5. \A s \in Segment : \A p \in 1..Len(g[s]) : Old(s, p) \/ New(s, p)
  BY <1>1, <1>3, <1>4
<1>6. \A s \in Segment : \A p \in 1..Len(f[s]) : f[s][p][1] <= n /\ f[s][p][1] \in Nat
  <2>1. \A s \in Segment : \A p \in 1..Len(f[s]) : f[s][p] \in Unit
    OBVIOUS
  <2> QED BY <2>1, UnitFields DEF Sound, Known
<1> HIDE DEF m, id
<1>7. id = n + 1
  BY DEF id
<1>8. Known(g, id)
  <2> SUFFICES ASSUME NEW s \in Segment, NEW p \in 1..Len(g[s]) PROVE g[s][p][1] <= id
    BY DEF Known
  <2>1. CASE Old(s, p)
    BY <2>1, <1>6, <1>7
  <2>2. CASE New(s, p)
    BY <2>2, <1>2, <1>7
  <2> QED BY <2>1, <2>2, <1>5
<1>9. Ordered(g)
  <2> SUFFICES ASSUME NEW s \in Segment, NEW p \in 1..Len(g[s]), NEW q \in 1..Len(g[s]), p < q
               PROVE  g[s][p][1] <= g[s][q][1]
    BY DEF Ordered
  <2>1. CASE Old(s, p) /\ Old(s, q)
    BY <2>1 DEF Sound, Ordered
  <2>2. CASE Old(s, p) /\ New(s, q)
    BY <2>2, <1>2, <1>6, <1>7
  <2>3. CASE New(s, p) /\ Old(s, q)
    BY <2>3, <1>1 DEF m
  <2>4. CASE New(s, p) /\ New(s, q)
    BY <2>4, <1>2, <1>7
  <2> QED BY <2>1, <2>2, <2>3, <2>4, <1>5
<1>10. Unique(g)
  <2> SUFFICES ASSUME NEW s \in Segment, NEW t \in Segment,
                      NEW p \in 1..Len(g[s]), NEW q \in 1..Len(g[t]), g[s][p] = g[t][q]
               PROVE  s = t /\ p = q
    BY DEF Unique
  <2>1. CASE Old(s, p) /\ Old(t, q)
    <3>1. p \in 1..Len(f[s]) /\ q \in 1..Len(f[t]) /\ f[s][p] = f[t][q]
      BY <2>1
    <3>2. Unique(f)
      BY DEF Sound
    <3> QED BY <3>1, <3>2 DEF Unique
  <2>2. CASE Old(s, p) /\ New(t, q)
    BY <2>2, <1>2, <1>6, <1>7
  <2>3. CASE New(s, p) /\ Old(t, q)
    BY <2>3, <1>2, <1>6, <1>7
  <2>4. CASE New(s, p) /\ New(t, q)
    BY <2>4, <1>2
  <2> QED BY <2>1, <2>2, <2>3, <2>4, <1>5
<1> QED BY <1>7, <1>8, <1>9, <1>10 DEF Sound

-----------------------------------------------------------------------------
(* Writing to a segment *)

LEMMA Cut ==
  ASSUME NEW a \in Seq(Unit), NEW out \in 0..Len(a)
  PROVE  LET l == SubSeq(a, 1, out)
             r == SubSeq(a, out + 1, Len(a))
         IN  /\ l \in Seq(Unit) /\ Len(l) = out /\ \A i \in 1..out : l[i] = a[i]
             /\ r \in Seq(Unit) /\ Len(r) = Len(a) - out
             /\ \A i \in 1..Len(a) - out : r[i] = a[out + i]
             /\ l \o r = a
<1> DEFINE U == Unit
           n == Len(a)
           l == SubSeq(a, 1, out)
           r == SubSeq(a, out + 1, n)
<1>1. a \in Seq(U) /\ n \in Nat /\ out \in Nat /\ out <= n
  OBVIOUS
<1>2. \A i \in 1..n : a[i] \in U
  BY <1>1
<1> HIDE DEF U
<1>3. l \in Seq(U) /\ Len(l) = out /\ \A i \in 1..out : l[i] = a[i]
  <2>1. \A i \in 1..out : a[i] \in U
    BY <1>1, <1>2
  <2>2. /\ SubSeq(a, 1, out) \in Seq(U)
        /\ Len(SubSeq(a, 1, out)) = IF 1 <= out THEN out - 1 + 1 ELSE 0
        /\ \A i \in 1..out - 1 + 1 : SubSeq(a, 1, out)[i] = a[1 + i - 1]
    <3> HIDE DEF n
    <3> QED BY <2>1, <1>1, SubSeqProperties
  <2> QED BY <2>2, <1>1
<1>4. r \in Seq(U) /\ Len(r) = n - out /\ \A i \in 1..n - out : r[i] = a[out + i]
  <2>1. \A i \in out + 1..n : a[i] \in U
    BY <1>1, <1>2
  <2>2. /\ SubSeq(a, out + 1, n) \in Seq(U)
        /\ Len(SubSeq(a, out + 1, n)) = IF out + 1 <= n THEN n - (out + 1) + 1 ELSE 0
        /\ \A i \in 1..n - (out + 1) + 1 : SubSeq(a, out + 1, n)[i] = a[out + 1 + i - 1]
    <3> HIDE DEF n
    <3>1. out + 1 \in Int /\ n \in Int
      BY <1>1
    <3> QED BY <2>1, <3>1, SubSeqProperties
  <2>3. n - (out + 1) + 1 = n - out /\ \A i \in 1..n - out : out + 1 + i - 1 = out + i
    BY <1>1
  <2> HIDE DEF n
  <2> QED BY <2>2, <2>3, <1>1
<1>5. l \o r = a
  <2> HIDE DEF l, r, n
  <2>1. l \o r \in Seq(U) /\ Len(l \o r) = n
        /\ \A p \in 1..n : (l \o r)[p] = IF p <= out THEN l[p] ELSE r[p - out]
    <3>1. /\ l \o r \in Seq(U) /\ Len(l \o r) = Len(l) + Len(r)
          /\ \A p \in 1..Len(l) + Len(r) :
               (l \o r)[p] = IF p <= Len(l) THEN l[p] ELSE r[p - Len(l)]
      BY <1>3, <1>4, ConcatProperties
    <3>2. Len(l) = out /\ Len(l) + Len(r) = n
      BY <1>1, <1>3, <1>4
    <3> QED BY <3>1, <3>2
  <2>2. \A p \in 1..n : (l \o r)[p] = a[p]
    <3> SUFFICES ASSUME NEW p \in 1..n PROVE (l \o r)[p] = a[p]
      OBVIOUS
    <3>1. CASE p <= out
      BY <3>1, <2>1, <1>3, <1>1
    <3>2. CASE p > out
      <4>1. p - out \in 1..n - out /\ out + (p - out) = p
        BY <3>2, <1>1
      <4> QED BY <3>2, <4>1, <2>1, <1>4, <1>1
    <3>3. p <= out \/ p > out
      BY <1>1
    <3> QED BY <3>1, <3>2, <3>3
  <2>3. Len(l \o r) = Len(a)
    BY <2>1 DEF n
  <2>4. \A p \in 1..Len(l \o r) : (l \o r)[p] = a[p]
    BY <2>1, <2>2
  <2> QED BY <2>1, <2>3, <2>4, <1>1, SeqEqual
<1> QED BY <1>3, <1>4, <1>5 DEF U

\* What a write of the entry id to segment s of F, after the buffer b, gives.
Written(w, F, s, b, size, id) ==
  /\ w.files \in [Segment -> Seq(Unit)]
  /\ w.buf \in Seq(Unit) /\ Len(w.buf) <= size
  /\ \A t \in Segment : t # s => w.files[t] = F[t]
  /\ w.files[s] \o w.buf = (F[s] \o b) \o Entry(id)
  /\ Within(F, w.files)
  /\ \A q \in 1..Len(w.buf) : \/ w.buf[q] = HeadOf(id) \/ w.buf[q] = BodyOf(id)
                              \/ \E r \in 1..Len(b) : w.buf[q] = b[r]

\* bufio.Writer.Write keeps the order of what it is given: file and buffer
\* together have the entry after all that was there.
LEMMA WriteLaw ==
  ASSUME NEW F \in [Segment -> Seq(Unit)], NEW s \in Segment, NEW b \in Seq(Unit),
         NEW size \in Nat, size >= 2, Len(b) <= size, NEW id \in 1..MaxLog
  PROVE  Written(Write(F, s, b, size, id), F, s, b, size, id)
<1> DEFINE e == Entry(id)
           all == b \o e
           n == Len(b)
           out == IF n + 2 > size THEN size ELSE 0
           l == SubSeq(all, 1, out)
           r == SubSeq(all, out + 1, n + 2)
           w == Write(F, s, b, size, id)
<1>1. e \in Seq(Unit) /\ Len(e) = 2 /\ e[1] = HeadOf(id) /\ e[2] = BodyOf(id)
  BY EntryUnits
<1>2. F[s] \in Seq(Unit) /\ n \in Nat /\ b \in Seq(Unit) /\ n <= size
  OBVIOUS
<1> HIDE DEF e
<1>3. /\ all \in Seq(Unit) /\ Len(all) = n + 2
      /\ \A p \in 1..n + 2 : all[p] = IF p <= n THEN b[p] ELSE e[p - n]
  <2>1. /\ b \o e \in Seq(Unit) /\ Len(b \o e) = Len(b) + Len(e)
        /\ \A p \in 1..Len(b) + Len(e) :
             (b \o e)[p] = IF p <= Len(b) THEN b[p] ELSE e[p - Len(b)]
    BY <1>1, <1>2, Concat
  <2>2. Len(b) + Len(e) = n + 2
    BY <1>1
  <2> QED BY <2>1, <2>2
<1>4. out \in 0..n + 2 /\ n + 2 - out <= size
  BY <1>2
<1>5. w = [files |-> [F EXCEPT ![s] = @ \o l], buf |-> r]
  <2>1. w = LET a == b \o Entry(id)
                o == IF Len(a) > size THEN size ELSE 0
            IN [files |-> [F EXCEPT ![s] = @ \o SubSeq(a, 1, o)], buf |-> SubSeq(a, o + 1, Len(a))]
    BY DEF Write, Entry
  <2> QED BY <2>1, <1>3 DEF e
<1> HIDE DEF all, out, n, w
<1>6. /\ l \in Seq(Unit) /\ Len(l) = out /\ \A i \in 1..out : l[i] = all[i]
      /\ r \in Seq(Unit) /\ Len(r) = n + 2 - out
      /\ \A i \in 1..n + 2 - out : r[i] = all[out + i]
      /\ l \o r = all
  <2>1. out \in 0..Len(all) /\ Len(all) = n + 2
    BY <1>3, <1>4
  <2>2. LET x == SubSeq(all, 1, out)
            y == SubSeq(all, out + 1, Len(all))
        IN  /\ x \in Seq(Unit) /\ Len(x) = out /\ \A i \in 1..out : x[i] = all[i]
            /\ y \in Seq(Unit) /\ Len(y) = Len(all) - out
            /\ \A i \in 1..Len(all) - out : y[i] = all[out + i]
            /\ x \o y = all
    BY <1>3, <2>1, Cut
  <2>3. l = SubSeq(all, 1, out) /\ r = SubSeq(all, out + 1, Len(all))
    BY <2>1
  <2> HIDE DEF l, r
  <2>4. /\ l \in Seq(Unit) /\ Len(l) = out /\ \A i \in 1..out : l[i] = all[i]
        /\ r \in Seq(Unit) /\ Len(r) = Len(all) - out
        /\ \A i \in 1..Len(all) - out : r[i] = all[out + i]
        /\ l \o r = all
    BY <2>2, <2>3
  <2>5. Len(all) - out = n + 2 - out
    BY <1>2, <1>3, <1>4
  <2> QED BY <2>4, <2>5
<1> HIDE DEF l, r
<1>7. F[s] \o l \in Seq(Unit) /\ Len(F[s]) <= Len(F[s] \o l) /\ \A p \in 1..Len(F[s]) : (F[s] \o l)[p] = F[s][p]
  <2>1. /\ F[s] \o l \in Seq(Unit) /\ Len(F[s] \o l) = Len(F[s]) + Len(l)
        /\ Len(F[s]) \in Nat /\ Len(l) \in Nat
        /\ \A p \in 1..Len(F[s]) + Len(l) :
             (F[s] \o l)[p] = IF p <= Len(F[s]) THEN F[s][p] ELSE l[p - Len(F[s])]
    BY <1>2, <1>6, Concat
  <2> QED BY <2>1
<1>8. /\ w.files = [F EXCEPT ![s] = F[s] \o l] /\ w.buf = r
      /\ w.files[s] = F[s] \o l /\ \A t \in Segment : t # s => w.files[t] = F[t]
  BY <1>5
<1>9. w.files \in [Segment -> Seq(Unit)]
  BY <1>7, <1>8
<1>10. Within(F, w.files)
  <2> SUFFICES ASSUME NEW t \in Segment
               PROVE  /\ Len(F[t]) <= Len(w.files[t])
                      /\ \A p \in 1..Len(F[t]) : F[t][p] = w.files[t][p]
    BY DEF Within
  <2>1. CASE t = s
    BY <2>1, <1>7, <1>8
  <2>2. CASE t # s
    <3>1. w.files[t] = F[t] /\ Len(F[t]) \in Nat
      BY <2>2, <1>8
    <3> QED BY <3>1
  <2> QED BY <2>1, <2>2
<1>11. w.files[s] \o w.buf = (F[s] \o b) \o e
  <2> DEFINE a == F[s]
             Assoc(y, z) == (a \o y) \o z = a \o (y \o z)
  <2>0. a \in Seq(Unit)
    BY <1>2
  <2> HIDE DEF a
  <2>3. \A y, z \in Seq(Unit) : Assoc(y, z)
    BY <2>0, UnitsAssociative
  <2>4. r \in Seq(Unit) /\ l \in Seq(Unit) /\ b \in Seq(Unit) /\ e \in Seq(Unit)
    BY <1>1, <1>2, <1>6
  <2>5. Assoc(l, r) /\ Assoc(b, e)
    <3> HIDE DEF Assoc
    <3> QED BY <2>3, <2>4, Zenon
  <2>1. (a \o l) \o r = a \o (l \o r)
    BY <2>5
  <2>2. (a \o b) \o e = a \o (b \o e)
    BY <2>5
  <2> QED BY <2>1, <2>2, <1>6, <1>8 DEF all, a
<1>12. ASSUME NEW q \in 1..Len(r)
       PROVE  r[q] = HeadOf(id) \/ r[q] = BodyOf(id) \/ \E k \in 1..Len(b) : r[q] = b[k]
  <2>1. out + q \in 1..n + 2 /\ r[q] = all[out + q] /\ out + q \in Nat
    BY <1>2, <1>4, <1>6
  <2>2. PICK k \in Nat : k = out + q
    BY <2>1
  <2>3. k \in 1..n + 2 /\ r[q] = all[k]
    BY <2>1, <2>2
  <2>4. CASE k <= n
    <3>1. k \in 1..Len(b) /\ r[q] = b[k]
      BY <2>3, <2>4, <1>3 DEF n
    <3> QED BY <3>1
  <2>5. CASE k = n + 1
    BY <2>3, <2>5, <1>1, <1>2, <1>3
  <2>6. CASE k = n + 2
    BY <2>3, <2>6, <1>1, <1>2, <1>3
  <2> QED BY <2>3, <2>4, <2>5, <2>6, <1>2
<1>13. w.buf \in Seq(Unit) /\ Len(w.buf) <= size
  BY <1>4, <1>6, <1>8
<1> QED
  BY <1>8, <1>9, <1>10, <1>11, <1>12, <1>13 DEF w, e, Written

-----------------------------------------------------------------------------
(* The order in which replay takes the segments *)

LEMMA MaxNat ==
  ASSUME NEW n \in Nat, NEW T, T \subseteq 0..n, T # {}
  PROVE  Max(T) \in T /\ \A x \in T : x <= Max(T)
<1> DEFINE D == {k \in Nat : n - k \in T}
<1>1. D # {} /\ D \subseteq Nat
  <2>1. PICK x \in T : TRUE
    OBVIOUS
  <2>2. n - x \in Nat /\ n - (n - x) = x
    BY <2>1
  <2>3. n - x \in D
    BY <2>1, <2>2
  <2> QED BY <2>3
<1>2. PICK d \in D : \A k \in D : d <= k
  <2> HIDE DEF D
  <2> QED BY <1>1, LeastNat
<1>3. \A x \in T : n - x \in D
  <2> SUFFICES ASSUME NEW x \in T PROVE n - x \in D
    OBVIOUS
  <2>1. n - x \in Nat /\ n - (n - x) = x
    OBVIOUS
  <2> QED BY <2>1
<1>4. n - d \in T /\ \A x \in T : n - d >= x
  <2>1. n - d \in T
    BY <1>2
  <2>2. ASSUME NEW x \in T PROVE n - d >= x
    <3>1. n - x \in D
      BY <1>3
    <3>2. d <= n - x /\ d \in Nat /\ x \in Nat
      BY <3>1, <1>2
    <3> QED BY <3>2
  <2> QED BY <2>1, <2>2
<1>5. \E m \in T : \A x \in T : m >= x
  BY <1>4
<1>6. Max(T) \in T /\ \A x \in T : Max(T) >= x
  BY <1>5 DEF Max
<1>7. \A x \in T : x \in Int
  OBVIOUS
<1> QED BY <1>6, <1>7

LEMMA KeyInjective ==
  ASSUME NEW s \in 0..99, NEW t \in 0..99, SegmentKey(s) = SegmentKey(t)
  PROVE  s = t
BY DEF SegmentKey

\* How many segments come before s.
Rank(s) == Cardinality({u \in Segment : SegmentKey(u) < SegmentKey(s)})

LEMMA KeyType == \A s \in Segment : SegmentKey(s) \in Nat /\ s \in 0..99
BY BoundAssumption DEF SegmentKey, Segment

LEMMA RankInjective ==
  /\ \A s \in Segment : Rank(s) \in 0..MaxSeg
  /\ \A s, t \in Segment : Rank(s) = Rank(t) => s = t
<1> DEFINE Below(s) == {u \in Segment : SegmentKey(u) < SegmentKey(s)}
<1>1. IsFiniteSet(Segment) /\ Cardinality(Segment) = MaxSeg + 1
  BY BoundAssumption, FS_Interval DEF Segment
<1>2. \A s \in Segment : Below(s) \subseteq Segment /\ s \in Segment \ Below(s)
  BY KeyType
<1> HIDE DEF Below
<1>3. ASSUME NEW s \in Segment
      PROVE  IsFiniteSet(Below(s)) /\ Cardinality(Below(s)) \in 0..MaxSeg
  <2>1. IsFiniteSet(Below(s)) /\ Cardinality(Below(s)) <= Cardinality(Segment)
        /\ (Cardinality(Segment) = Cardinality(Below(s)) => Segment = Below(s))
    BY <1>1, <1>2, FS_Subset
  <2>2. Cardinality(Below(s)) \in Nat
    BY <2>1, FS_CardinalityType
  <2> QED BY <2>1, <2>2, <1>1, <1>2, BoundAssumption
<1>4. ASSUME NEW s \in Segment, NEW t \in Segment, SegmentKey(s) < SegmentKey(t)
      PROVE  Cardinality(Below(s)) < Cardinality(Below(t))
  <2>1. Below(s) \subseteq Below(t) /\ s \in Below(t) \ Below(s)
    BY <1>4, KeyType DEF Below
  <2>2. Cardinality(Below(s)) <= Cardinality(Below(t))
        /\ (Cardinality(Below(t)) = Cardinality(Below(s)) => Below(t) = Below(s))
    BY <2>1, <1>3, FS_Subset
  <2> QED BY <2>1, <2>2, <1>3
<1>5. ASSUME NEW s \in Segment, NEW t \in Segment, Cardinality(Below(s)) = Cardinality(Below(t))
      PROVE  s = t
  <2>1. SegmentKey(s) = SegmentKey(t)
    BY <1>3, <1>4, <1>5, KeyType
  <2> QED BY <2>1, KeyType, KeyInjective
<1> QED BY <1>3, <1>5 DEF Rank, Below

\* segments() lists every segment once, and in ascending order while there
\* are at most ten of them.
LEMMA SegmentsLaw ==
  /\ \A i \in 1..MaxSeg + 1 : segments[i] \in Segment
  /\ \A i, j \in 1..MaxSeg + 1 : segments[i] = segments[j] => i = j
  /\ MaxSeg < 10 => \A i \in 1..MaxSeg + 1 : segments[i] = i - 1
<1> DEFINE rank == [s \in Segment |-> Rank(s)]
<1>1. /\ IsFiniteSet(Segment) /\ Cardinality(Segment) = MaxSeg + 1 /\ MaxSeg \in Nat
      /\ IsFiniteSet(0..MaxSeg) /\ Cardinality(0..MaxSeg) = MaxSeg + 1
  BY BoundAssumption, FS_Interval DEF Segment
<1>2. rank \in Injection(Segment, 0..MaxSeg)
  BY RankInjective DEF Injection, IsInjective
<1>3. rank \in Surjection(Segment, 0..MaxSeg)
  <2> HIDE DEF rank
  <2> QED BY <1>1, <1>2, FS_Injection
<1>4. \A r \in 0..MaxSeg : \E s \in Segment : Rank(s) = r
  BY <1>3 DEF Surjection
<1>5. ASSUME NEW i \in 1..MaxSeg + 1
      PROVE  segments[i] \in Segment /\ Rank(segments[i]) = i - 1
  <2>1. \E s \in Segment : Rank(s) = i - 1
    BY <1>1, <1>4
  <2>2. segments[i] = CHOOSE s \in Segment : Rank(s) = i - 1
    BY DEF segments, Rank
  <2> QED BY <2>1, <2>2
<1>6. \A i, j \in 1..MaxSeg + 1 : segments[i] = segments[j] => i = j
  BY <1>1, <1>5
<1>7. ASSUME MaxSeg < 10, NEW i \in 1..MaxSeg + 1 PROVE segments[i] = i - 1
  <2>1. i - 1 \in Segment /\ i \in Nat
    BY <1>1 DEF Segment
  <2>2. {u \in Segment : SegmentKey(u) < SegmentKey(i - 1)} = 0..i - 2
    BY <1>7, <1>1 DEF Segment, SegmentKey
  <2>3. Rank(i - 1) = i - 1
    <3>1. i - 2 \in Int /\ i - 2 - 0 + 1 = i - 1 /\ (0 > i - 2 <=> i - 1 = 0)
      BY <2>1, <1>1
    <3>2. Cardinality(0..i - 2) = IF 0 > i - 2 THEN 0 ELSE i - 2 - 0 + 1
      BY <3>1, FS_Interval
    <3> QED BY <2>2, <3>1, <3>2 DEF Rank
  <2> QED BY <1>5, <2>1, <2>3, RankInjective
<1> QED BY <1>5, <1>6, <1>7

-----------------------------------------------------------------------------
(* Replay *)

\* What replay makes of the n-th segment after prev.
ReplayStep(n, prev, refused) ==
  LET f == files[segments[n]]
      m == Accepted(f, refused)
  IN  IF ~prev.ok THEN prev
      ELSE [ids |-> prev.ids \o [j \in 1..m |-> f[2 * j - 1][1]], ok |-> 2 * m = Len(f)]

Progress == [ids : Seq(1..MaxLog), ok : BOOLEAN]

\* The entries accepted from a file lie at its beginning, head before body.
LEMMA AcceptedLaw ==
  ASSUME NEW f \in Seq(Unit), NEW refused
  PROVE  LET m == Accepted(f, refused)
         IN  /\ m \in Nat /\ 2 * m <= Len(f)
             /\ \A j \in 1..m : /\ 2 * j - 1 \in 1..Len(f)
                                /\ f[2 * j - 1] = HeadOf(f[2 * j - 1][1])
                                /\ f[2 * j - 1][1] \in 1..MaxLog
<1> DEFINE h == Len(f) \div 2
           R == {n \in 0..h : \A j \in 1..n : WellFormed(f, j)}
           r == Readable(f)
           T == {n \in 0..r : \A j \in 1..n : f[2 * j - 1][1] \notin refused}
           m == Accepted(f, refused)
<1>1. Len(f) \in Nat /\ h \in Nat /\ 2 * h <= Len(f)
  OBVIOUS
<1>2. r \in R
  <2>1. 0 \in R
    BY <1>1
  <2>2. R \subseteq 0..h /\ r = Max(R)
    BY DEF Readable
  <2> HIDE DEF R, h, r
  <2> QED BY <2>1, <2>2, <1>1, MaxNat
<1>3. r \in 0..h /\ \A j \in 1..r : WellFormed(f, j)
  BY <1>2
<1> HIDE DEF r, h
<1>4. m \in T
  <2>1. 0 \in T
    BY <1>1, <1>3
  <2>2. T \subseteq 0..r /\ m = Max(T) /\ r \in Nat
    BY <1>1, <1>3 DEF Accepted, r
  <2> HIDE DEF T, m
  <2> QED BY <2>1, <2>2, MaxNat
<1>5. m \in 0..r
  BY <1>4
<1> HIDE DEF m
<1>6. m \in Nat /\ m <= h
  BY <1>1, <1>3, <1>5
<1>7. ASSUME NEW j \in 1..m
      PROVE  /\ 2 * j - 1 \in 1..Len(f)
             /\ f[2 * j - 1] = HeadOf(f[2 * j - 1][1])
             /\ f[2 * j - 1][1] \in 1..MaxLog
  <2>1. 2 * j - 1 \in 1..Len(f)
    BY <1>1, <1>6
  <2>2. f[2 * j - 1] \in Unit
    BY <2>1
  <2>3. f[2 * j - 1][2] = "head"
    BY <1>1, <1>3, <1>5 DEF WellFormed
  <2>4. PICK u \in Unit : u = f[2 * j - 1]
    BY <2>2
  <2>5. u = HeadOf(u[1]) /\ u[1] \in 1..MaxLog
    BY <2>3, <2>4, UnitFields DEF HeadOf
  <2> QED BY <2>1, <2>4, <2>5
<1>8. 2 * m <= Len(f)
  BY <1>1, <1>6
<1> QED BY <1>6, <1>7, <1>8 DEF m

\* next has the ids of prev and those of the first m entries of f.
Advances(next, prev, f, m) ==
  LET k == Len(prev.ids)
  IN  /\ ~prev.ok => next = prev
      /\ prev.ok => /\ next.ok <=> 2 * m = Len(f)
                    /\ Len(next.ids) = k + m /\ k \in Nat /\ m \in Nat
                    /\ \A i \in 1..k : next.ids[i] = prev.ids[i]
                    /\ \A i \in k + 1..k + m : next.ids[i] = f[2 * (i - k) - 1][1]

LEMMA ReplayStepLaw ==
  ASSUME files \in [Segment -> Seq(Unit)], NEW refused,
         NEW n \in 1..MaxSeg + 1, NEW prev \in Progress
  PROVE  LET f == files[segments[n]]
         IN  /\ ReplayStep(n, prev, refused) \in Progress
             /\ Advances(ReplayStep(n, prev, refused), prev, f, Accepted(f, refused))
<1> DEFINE f == files[segments[n]]
           m == Accepted(f, refused)
           k == Len(prev.ids)
           new == [j \in 1..m |-> f[2 * j - 1][1]]
           next == ReplayStep(n, prev, refused)
           N == 1..MaxLog
<1>1. f \in Seq(Unit)
  BY SegmentsLaw
<1> HIDE DEF f
<1>2. m \in Nat /\ \A j \in 1..m : f[2 * j - 1][1] \in N
  BY <1>1, AcceptedLaw
<1> HIDE DEF m
<1>3. next = IF ~prev.ok THEN prev ELSE [ids |-> prev.ids \o new, ok |-> 2 * m = Len(f)]
  BY DEF ReplayStep, f, m
<1>4. prev.ids \in Seq(N) /\ prev.ok \in BOOLEAN /\ k \in Nat
  BY DEF Progress
<1> HIDE DEF N
<1>5. new \in Seq(N) /\ Len(new) = m /\ \A j \in 1..m : new[j] = f[2 * j - 1][1]
  BY <1>2
<1> HIDE DEF new
<1>6. /\ prev.ids \o new \in Seq(N) /\ Len(prev.ids \o new) = k + m
      /\ \A i \in 1..k + m : (prev.ids \o new)[i] = IF i <= k THEN prev.ids[i] ELSE new[i - k]
  <2>1. Len(prev.ids) + Len(new) = k + m
    BY <1>5
  <2>2. /\ prev.ids \o new \in Seq(N) /\ Len(prev.ids \o new) = Len(prev.ids) + Len(new)
        /\ \A i \in 1..Len(prev.ids) + Len(new) :
             (prev.ids \o new)[i] = IF i <= Len(prev.ids) THEN prev.ids[i] ELSE new[i - Len(prev.ids)]
    BY <1>4, <1>5, ConcatProperties
  <2> QED BY <2>1, <2>2
<1> HIDE DEF next, k
<1>7. CASE ~prev.ok
  BY <1>3, <1>4, <1>7 DEF next, f, m, Advances
<1>8. CASE prev.ok
  <2>1. next = [ids |-> prev.ids \o new, ok |-> 2 * m = Len(f)]
    BY <1>3, <1>8
  <2>2. next.ids = prev.ids \o new /\ (next.ok <=> 2 * m = Len(f)) /\ next \in Progress
    <3>1. (2 * m = Len(f)) \in BOOLEAN
      OBVIOUS
    <3>2. next.ids = prev.ids \o new /\ next.ok = (2 * m = Len(f))
      BY <2>1
    <3>3. next \in [ids : Seq(N), ok : BOOLEAN]
      BY <2>1, <3>1, <1>6
    <3> QED BY <3>2, <3>3 DEF Progress, N
  <2>3. \A i \in 1..k : next.ids[i] = prev.ids[i]
    BY <2>2, <1>2, <1>4, <1>6 DEF k
  <2>4. ASSUME NEW i \in k + 1..k + m PROVE next.ids[i] = f[2 * (i - k) - 1][1]
    <3>1. i \in 1..k + m /\ ~(i <= k) /\ i - k \in 1..m
      BY <1>2, <1>4 DEF k
    <3>2. (prev.ids \o new)[i] = new[i - k]
      BY <3>1, <1>6
    <3> QED BY <3>1, <3>2, <2>2, <1>5
  <2> QED BY <1>2, <1>4, <1>6, <1>8, <2>2, <2>3, <2>4 DEF next, f, m, k, Advances
<1> QED BY <1>7, <1>8

Start == [ids |-> <<>>, ok |-> TRUE]

\* The replay is the chain of its steps, one for each segment.
LEMMA ReplayLaw ==
  ASSUME files \in [Segment -> Seq(Unit)], NEW refused
  PROVE  \E f \in [0..MaxSeg + 1 -> Progress] :
           /\ f[0] = Start
           /\ \A n \in 1..MaxSeg + 1 : f[n] = ReplayStep(n, f[n - 1], refused)
           /\ Replay(refused) = f[MaxSeg + 1].ids
<1> DEFINE N == MaxSeg + 1
           Body(f) == [n \in 0..N |-> IF n = 0 THEN Start ELSE ReplayStep(n, f[n - 1], refused)]
           step == [p \in (1..N) \X Progress |-> ReplayStep(p[1], p[2], refused)]
<1>1. N \in Nat /\ Start \in Progress
  BY BoundAssumption DEF Start, Progress
<1>2. \A n \in 1..N, v \in Progress : ReplayStep(n, v, refused) \in Progress
  BY ReplayStepLaw
<1>3. step \in [(1..N) \X Progress -> Progress]
  BY <1>2
<1>4. \A n \in 1..N, v \in Progress : step[<<n, v>>] = ReplayStep(n, v, refused)
  OBVIOUS
<1> HIDE DEF step
<1>5. PICK g \in [0..N -> Progress] : Follows(g, N, Start, step)
  <2> HIDE DEF N
  <2> QED BY <1>1, <1>3, RecursionExists
<1>6. g[0] = Start /\ \A n \in 1..N : g[n] = ReplayStep(n, g[n - 1], refused)
  <2>1. g[0] = Start /\ \A n \in 1..N : g[n] = step[<<n, g[n - 1]>>]
    BY <1>5 DEF Follows
  <2>2. ASSUME NEW n \in 1..N PROVE g[n] = ReplayStep(n, g[n - 1], refused)
    <3>1. n - 1 \in 0..N
      BY <1>1
    <3>2. g[n - 1] \in Progress
      BY <3>1, <1>5
    <3> QED BY <3>2, <2>1, <1>4
  <2> QED BY <2>1, <2>2
<1>7. g = Body(g)
  <2>1. \A n \in 0..N : g[n] = Body(g)[n]
    BY <1>1, <1>6
  <2>2. DOMAIN Body(g) = 0..N /\ DOMAIN g = 0..N /\ Body(g) = [n \in 0..N |-> Body(g)[n]]
        /\ g = [n \in 0..N |-> g[n]]
    BY <1>5
  <2> HIDE DEF Body
  <2> QED BY <2>1, <2>2
<1> DEFINE f == CHOOSE h : h = Body(h)
<1>8. Replay(refused) = f[N].ids
  BY DEF Replay, ReplayStep, Start
<1>9. f = Body(f)
  <2> HIDE DEF Body
  <2>1. \E h : h = Body(h)
    BY <1>7
  <2> QED BY <2>1
<1> HIDE DEF f
<1>10. Alike(f, g, N)
  <2>1. f[0] = g[0]
    BY <1>9, <1>6, <1>1
  <2>2. ASSUME NEW n \in 1..N, f[n - 1] = g[n - 1] PROVE f[n] = g[n]
    <3>1. n \in 0..N /\ n # 0
      BY <1>1
    <3>2. f[n] = ReplayStep(n, f[n - 1], refused)
      BY <3>1, <1>9
    <3> QED BY <3>2, <2>2, <1>6
  <2> QED BY <2>1, <2>2 DEF Alike
<1>11. \A n \in 0..N : f[n] = g[n]
  BY <1>1, <1>10, RecursionUnique
<1>12. Replay(refused) = g[N].ids
  BY <1>1, <1>8, <1>11
<1> QED BY <1>6, <1>12

LEMMA ReplayType ==
  ASSUME files \in [Segment -> Seq(Unit)], NEW refused
  PROVE  Replay(refused) \in Seq(1..MaxLog)
<1>1. PICK f \in [0..MaxSeg + 1 -> Progress] : Replay(refused) = f[MaxSeg + 1].ids
  BY ReplayLaw
<1>2. f[MaxSeg + 1] \in Progress
  BY BoundAssumption
<1> QED BY <1>1, <1>2 DEF Progress

\* Files that hold no unit twice replay no entry twice.
LEMMA ReplayOnce ==
  ASSUME files \in [Segment -> Seq(Unit)], Unique(files), NEW refused
  PROVE  \A i, j \in 1..Len(Replay(refused)) :
           Replay(refused)[i] = Replay(refused)[j] => i = j
<1> DEFINE N == MaxSeg + 1
           Found(n, id) == \E k \in 1..n : \E p \in 1..Len(files[segments[k]]) :
                             files[segments[k]][p] = HeadOf(id)
<1>1. PICK f \in [0..N -> Progress] :
        /\ f[0] = Start
        /\ \A n \in 1..N : f[n] = ReplayStep(n, f[n - 1], refused)
        /\ Replay(refused) = f[N].ids
  BY ReplayLaw
<1> DEFINE Good(n) == /\ \A i \in 1..Len(f[n].ids) : Found(n, f[n].ids[i])
                      /\ \A i, j \in 1..Len(f[n].ids) : f[n].ids[i] = f[n].ids[j] => i = j
           S == {n \in Nat : n <= N => Good(n)}
<1>2. N \in Nat
  BY BoundAssumption
<1>3. 0 \in S
  <2>1. f[0].ids = <<>> /\ Len(f[0].ids) = 0
    BY <1>1 DEF Start
  <2> QED BY <2>1
<1>4. ASSUME NEW n0 \in Nat, n0 \in S PROVE n0 + 1 \in S
  <2> SUFFICES ASSUME n0 + 1 <= N PROVE Good(n0 + 1)
    OBVIOUS
  <2> DEFINE n == n0 + 1
             F == files[segments[n]]
             m == Accepted(F, refused)
             prev == f[n0]
             next == f[n]
             k == Len(prev.ids)
  <2>1. n \in 1..N /\ n - 1 = n0 /\ n0 \in 0..N /\ n \in Nat
    BY <1>2
  <2>2. Good(n0)
    BY <1>4, <2>1
  <2>3. prev \in Progress /\ F \in Seq(Unit) /\ segments[n] \in Segment
    BY <2>1, SegmentsLaw
  <2>4. next = ReplayStep(n, prev, refused)
    BY <2>1, <1>1
  <2>5. m \in Nat /\ \A j \in 1..m : 2 * j - 1 \in 1..Len(F) /\ F[2 * j - 1] = HeadOf(F[2 * j - 1][1])
    <3> HIDE DEF F
    <3> QED BY <2>3, AcceptedLaw
  <2> HIDE DEF n
  <2>6. /\ ~prev.ok => next = prev
        /\ prev.ok => /\ Len(next.ids) = k + m /\ k \in Nat
                      /\ \A i \in 1..k : next.ids[i] = prev.ids[i]
                      /\ \A i \in k + 1..k + m : next.ids[i] = F[2 * (i - k) - 1][1]
    <3>1. prev \in Progress /\ n \in 1..MaxSeg + 1
      BY <2>1, <2>3
    <3> HIDE DEF prev, next
    <3>2. Advances(next, prev, F, m)
      BY <3>1, <2>4, ReplayStepLaw
    <3> HIDE DEF F, m
    <3> QED BY <3>2 DEF Advances
  <2> HIDE DEF m, k, F, prev, next
  <2>7. \A id : Found(n0, id) => Found(n, id)
    <3>1. 1..n0 \subseteq 1..n
      BY <2>1
    <3> QED BY <3>1
  <2>8. CASE ~prev.ok
    <3>1. f[n] = f[n0]
      BY <2>6, <2>8 DEF prev, next
    <3>2. Good(n)
      <4> HIDE DEF Found
      <4> QED BY <3>1, <2>2, <2>7
    <3> QED BY <3>2 DEF n
  <2>9. CASE prev.ok
    <3> DEFINE Old(i) == i \in 1..k /\ next.ids[i] = prev.ids[i] /\ Found(n0, next.ids[i])
               New(i) == \E j \in 1..m : i = k + j /\ next.ids[i] = F[2 * j - 1][1]
    <3>1. ASSUME NEW i \in 1..Len(next.ids) PROVE Old(i) \/ New(i)
      <4>1. CASE i <= k
        <5>1. i \in 1..k
          BY <4>1, <2>6, <2>9
        <5>2. Found(n0, prev.ids[i])
          <6> HIDE DEF Found
          <6> QED BY <5>1, <2>2 DEF prev, k
        <5> HIDE DEF Found
        <5> QED BY <5>1, <5>2, <2>6, <2>9
      <4>2. CASE i > k
        <5>1. i \in k + 1..k + m /\ i - k \in 1..m /\ i = k + (i - k)
          BY <4>2, <2>5, <2>6, <2>9
        <5>2. next.ids[i] = F[2 * (i - k) - 1][1]
          BY <5>1, <2>6, <2>9
        <5> QED BY <5>1, <5>2
      <4> QED BY <4>1, <4>2, <2>6, <2>9
    <3>2. ASSUME NEW j \in 1..m
          PROVE  /\ Found(n, F[2 * j - 1][1])
                 /\ ~Found(n0, F[2 * j - 1][1])
      <4> DEFINE p == 2 * j - 1
      <4>1. p \in 1..Len(F) /\ F[p] = HeadOf(F[p][1])
        BY <2>5
      <4> HIDE DEF p
      <4>2. Found(n, F[p][1])
        BY <4>1, <2>1 DEF F
      <4>3. ASSUME Found(n0, F[p][1]) PROVE FALSE
        <5>1. PICK k1 \in 1..n0 : \E q \in 1..Len(files[segments[k1]]) :
                files[segments[k1]][q] = F[p]
          BY <4>1, <4>3
        <5>2. k1 \in 1..N /\ k1 # n
          BY <2>1, <1>2
        <5>3. segments[k1] \in Segment
          BY <5>2, SegmentsLaw
        <5>4. segments[k1] = segments[n]
          BY <5>1, <5>3, <4>1, <2>3 DEF Unique, F
        <5> QED BY <5>2, <5>4, <2>1, SegmentsLaw
      <4> QED BY <4>2, <4>3 DEF p
    <3>3. ASSUME NEW i \in 1..m, NEW j \in 1..m, F[2 * i - 1][1] = F[2 * j - 1][1] PROVE i = j
      <4>1. F[2 * i - 1] = F[2 * j - 1]
        BY <3>3, <2>5
      <4>2. 2 * i - 1 \in 1..Len(F) /\ 2 * j - 1 \in 1..Len(F)
        BY <2>5
      <4>3. 2 * i - 1 = 2 * j - 1
        <5> DEFINE a == 2 * i - 1
                   b == 2 * j - 1
        <5>1. a \in 1..Len(F) /\ b \in 1..Len(F) /\ F[a] = F[b]
          BY <4>1, <4>2
        <5> HIDE DEF a, b
        <5>2. a = b
          BY <5>1, <2>3 DEF Unique, F
        <5> QED BY <5>2 DEF a, b
      <4> QED BY <4>3
    <3> HIDE DEF Found
    <3>4. \A i \in 1..Len(next.ids) : Found(n, next.ids[i])
      BY <3>1, <3>2, <2>7
    <3>5. ASSUME NEW i \in 1..Len(next.ids), NEW j \in 1..Len(next.ids), next.ids[i] = next.ids[j]
          PROVE  i = j
      <4>1. CASE Old(i) /\ Old(j)
        BY <4>1, <3>5, <2>2 DEF prev, k
      <4>2. CASE Old(i) /\ New(j)
        BY <4>2, <3>2, <3>5
      <4>3. CASE New(i) /\ Old(j)
        BY <4>3, <3>2, <3>5
      <4>4. CASE New(i) /\ New(j)
        BY <4>4, <3>3, <3>5
      <4> QED BY <4>1, <4>2, <4>3, <4>4, <3>1
    <3> QED BY <3>4, <3>5 DEF next, n
  <2> QED BY <2>8, <2>9
<1> HIDE DEF S
<1>5. N \in S
  BY <1>2, <1>3, <1>4, NatInd
<1>6. Good(N)
  BY <1>2, <1>5 DEF S
<1> QED BY <1>1, <1>6

-----------------------------------------------------------------------------
(* The log of the first run, which found the directory empty *)

\* The p-th unit of a segment that starts after the entry b.
UnitAt(b, p) == <<b + ((p + 1) \div 2), IF p % 2 = 1 THEN "head" ELSE "body">>

\* The segments of F up to c hold the entries without a gap; segment s starts
\* after the entry base[s].
Laid(F, base, c) ==
  /\ base[0] = 0
  /\ \A s \in Segment : s < c => 2 * (base[s + 1] - base[s]) = Len(F[s])
  /\ \A s \in Segment : s > c => F[s] = <<>>
  /\ \A s \in Segment : \A p \in 1..Len(F[s]) : F[s][p] = UnitAt(base[s], p)

\* They end with the entry n.
LaidTo(F, base, c, n) == Laid(F, base, c) /\ 2 * (n - base[c]) = Len(F[c])

LEMMA SegmentType == Segment \subseteq Nat /\ 0 \in Segment /\ MaxSeg \in Nat
BY BoundAssumption DEF Segment

LEMMA LaidRotate ==
  ASSUME NEW F \in [Segment -> Seq(Unit)], NEW base \in [Segment -> Nat], NEW c \in Segment,
         c + 1 \in Segment, NEW n \in Nat,
         LaidTo(F, base, c, n)
  PROVE  \E b \in [Segment -> Nat] : LaidTo(F, b, c + 1, n)
<1> DEFINE b == [base EXCEPT ![c + 1] = n]
<1>1. b \in [Segment -> Nat] /\ b[c + 1] = n /\ \A s \in Segment : s # c + 1 => b[s] = base[s]
  OBVIOUS
<1> HIDE DEF b
<1>2. F[c + 1] = <<>> /\ Len(F[c + 1]) = 0
  BY SegmentType DEF Laid, LaidTo
<1>3. b[0] = 0
  BY <1>1, SegmentType DEF Laid, LaidTo
<1>4. ASSUME NEW s \in Segment, s < c + 1 PROVE 2 * (b[s + 1] - b[s]) = Len(F[s])
  <2>1. CASE s = c
    BY <2>1, <1>1, SegmentType DEF LaidTo
  <2>2. CASE s < c
    <3>1. s # c + 1 /\ s + 1 # c + 1 /\ s + 1 \in Segment /\ s \in Nat
      BY <2>2, SegmentType DEF Segment
    <3> QED BY <3>1, <2>2, <1>1 DEF Laid, LaidTo
  <2> QED BY <2>1, <2>2, <1>4, SegmentType
<1>5. \A s \in Segment : s > c + 1 => F[s] = <<>>
  BY SegmentType DEF Laid, LaidTo
<1>6. ASSUME NEW s \in Segment, NEW p \in 1..Len(F[s]) PROVE F[s][p] = UnitAt(b[s], p)
  <2>1. s # c + 1
    BY <1>2
  <2> QED BY <2>1, <1>1 DEF Laid, LaidTo
<1>7. 2 * (n - b[c + 1]) = Len(F[c + 1])
  BY <1>1, <1>2
<1> QED BY <1>1, <1>3, <1>4, <1>5, <1>6, <1>7 DEF Laid, LaidTo

LEMMA LaidExtends ==
  ASSUME NEW F \in [Segment -> Seq(Unit)], NEW G, NEW base \in [Segment -> Nat],
         NEW c \in Segment, NEW n \in Nat, n + 1 <= MaxLog,
         LaidTo(F, base, c, n), Extends(G, F, c, n + 1)
  PROVE  LaidTo(G, base, c, n + 1)
<1> DEFINE m == Len(F[c])
           id == n + 1
<1>1. id \in 1..MaxLog /\ base[c] \in Nat /\ m \in Nat /\ m = 2 * (n - base[c])
  BY BoundAssumption DEF LaidTo
<1>2. /\ Len(G[c]) = m + 2
      /\ \A p \in 1..m : G[c][p] = F[c][p]
      /\ G[c][m + 1] = HeadOf(id) /\ G[c][m + 2] = BodyOf(id)
  <2>1. Extends(G, F, c, id) /\ id \in 1..MaxLog
    BY <1>1
  <2> HIDE DEF id, m
  <2>2. /\ Len(G[c]) = Len(F[c]) + 2 /\ Len(F[c]) \in Nat
        /\ \A p \in 1..Len(F[c]) : G[c][p] = F[c][p]
        /\ G[c][Len(F[c]) + 1] = HeadOf(id) /\ G[c][Len(F[c]) + 2] = BodyOf(id)
    BY <2>1, ExtendsPointwise
  <2> QED BY <2>2 DEF m
<1>3. \A s \in Segment : s # c => G[s] = F[s]
  BY DEF Extends
<1>4. UnitAt(base[c], m + 1) = HeadOf(id)
  <2>1. (m + 1) % 2 = 1 /\ (m + 1 + 1) \div 2 = n - base[c] + 1
    BY <1>1
  <2>2. base[c] + (n - base[c] + 1) = id
    BY <1>1
  <2> HIDE DEF m, id
  <2> QED BY <2>1, <2>2 DEF UnitAt, HeadOf
<1>5. UnitAt(base[c], m + 2) = BodyOf(id)
  <2>1. (m + 2) % 2 # 1 /\ (m + 2 + 1) \div 2 = n - base[c] + 1
    BY <1>1
  <2>2. base[c] + (n - base[c] + 1) = id
    BY <1>1
  <2> HIDE DEF m, id
  <2> QED BY <2>1, <2>2 DEF UnitAt, BodyOf
<1> HIDE DEF m
<1>6. ASSUME NEW s \in Segment, NEW p \in 1..Len(G[s]) PROVE G[s][p] = UnitAt(base[s], p)
  <2>1. CASE s # c
    BY <2>1, <1>3 DEF Laid, LaidTo
  <2>2. CASE s = c /\ p <= m
    <3>1. p \in 1..Len(F[c])
      BY <2>2 DEF m
    <3> QED BY <3>1, <2>2, <1>2 DEF Laid, LaidTo, m
  <2>3. CASE s = c /\ p = m + 1
    BY <2>3, <1>2, <1>4
  <2>4. CASE s = c /\ p = m + 2
    BY <2>4, <1>2, <1>5
  <2>5. ASSUME s = c PROVE p <= m \/ p = m + 1 \/ p = m + 2
    <3>1. p \in 1..m + 2
      BY <2>5, <1>2
    <3>2. m \in Nat
      BY <1>1
    <3> QED BY <3>1, <3>2
  <2> QED BY <2>1, <2>2, <2>3, <2>4, <2>5
<1>7. \A s \in Segment : s < c => 2 * (base[s + 1] - base[s]) = Len(G[s])
  <2> SUFFICES ASSUME NEW s \in Segment, s < c PROVE 2 * (base[s + 1] - base[s]) = Len(G[s])
    OBVIOUS
  <2>1. 2 * (base[s + 1] - base[s]) = Len(F[s])
    BY DEF Laid, LaidTo
  <2>2. s # c
    BY SegmentType
  <2> QED BY <2>1, <2>2, <1>3
<1>8. \A s \in Segment : s > c => G[s] = <<>>
  BY <1>3, SegmentType DEF Laid, LaidTo
<1>9. 2 * ((n + 1) - base[c]) = Len(G[c])
  BY <1>1, <1>2
<1> QED BY <1>6, <1>7, <1>8, <1>9 DEF Laid, LaidTo

LEMMA LaidWithin ==
  ASSUME NEW F \in [Segment -> Seq(Unit)], NEW G \in [Segment -> Seq(Unit)], NEW base, NEW c \in Segment,
         Laid(F, base, c), Within(G, F), \A s \in Segment : s # c => G[s] = F[s]
  PROVE  Laid(G, base, c)
<1>1. \A s \in Segment : s < c \/ s > c => G[s] = F[s]
  BY SegmentType
<1>2. \A s \in Segment : \A p \in 1..Len(G[s]) : p \in 1..Len(F[s]) /\ G[s][p] = F[s][p]
  BY DEF Within
<1> QED BY <1>1, <1>2 DEF Laid

\* Segments without a gap, taken in ascending order, replay as 1, 2, 3...
LEMMA ReplayPrefix ==
  ASSUME files \in [Segment -> Seq(Unit)], NEW base \in [Segment -> Nat], NEW c \in Segment,
         Laid(files, base, c), MaxSeg < 10, NEW refused
  PROVE  \A i \in 1..Len(Replay(refused)) : Replay(refused)[i] = i
<1> DEFINE N == MaxSeg + 1
<1>1. PICK f \in [0..N -> Progress] :
        /\ f[0] = Start
        /\ \A n \in 1..N : f[n] = ReplayStep(n, f[n - 1], refused)
        /\ Replay(refused) = f[N].ids
  BY ReplayLaw
<1> DEFINE Good(n) == /\ \A i \in 1..Len(f[n].ids) : f[n].ids[i] = i
                      /\ f[n].ok /\ n <= c => Len(f[n].ids) = base[n]
           S == {n \in Nat : n <= N => Good(n)}
<1>2. N \in Nat /\ Segment = 0..N - 1
  BY SegmentType DEF Segment
<1>3. 0 \in S
  <2>1. f[0].ids = <<>> /\ Len(f[0].ids) = 0
    BY <1>1 DEF Start
  <2>2. base[0] = 0
    BY DEF Laid
  <2> QED BY <2>1, <2>2
<1>4. ASSUME NEW n0 \in Nat, n0 \in S PROVE n0 + 1 \in S
  <2> SUFFICES ASSUME n0 + 1 <= N PROVE Good(n0 + 1)
    OBVIOUS
  <2> DEFINE n == n0 + 1
             F == files[n0]
             m == Accepted(F, refused)
             prev == f[n0]
             next == f[n]
             k == Len(prev.ids)
  <2>1. n \in 1..N /\ n - 1 = n0 /\ n0 \in 0..N /\ n \in Nat /\ n0 \in Segment
    BY <1>2
  <2>2. Good(n0)
    BY <1>4, <2>1
  <2>3. prev \in Progress /\ F \in Seq(Unit) /\ segments[n] = n0
    BY <2>1, SegmentsLaw
  <2>4. next = ReplayStep(n, prev, refused)
    BY <2>1, <1>1
  <2>5. m \in Nat /\ 2 * m <= Len(F) /\ \A j \in 1..m : 2 * j - 1 \in 1..Len(F)
    <3> HIDE DEF F
    <3> QED BY <2>3, AcceptedLaw
  <2>6. Advances(next, prev, F, m)
    <3>1. prev \in Progress /\ n \in 1..MaxSeg + 1 /\ F = files[segments[n]]
      BY <2>1, <2>3
    <3> HIDE DEF prev, next, n, F
    <3> QED BY <3>1, <2>4, ReplayStepLaw
  <2> HIDE DEF n, m, F, prev, next
  <2>7. CASE ~prev.ok
    <3>1. f[n] = f[n0] /\ ~f[n].ok
      BY <2>6, <2>7 DEF prev, next, Advances
    <3> QED BY <3>1, <2>2 DEF n
  <2>8. CASE prev.ok
    <3>1. /\ next.ok <=> 2 * m = Len(F)
          /\ Len(next.ids) = k + m /\ k \in Nat
          /\ \A i \in 1..k : next.ids[i] = prev.ids[i]
          /\ \A i \in k + 1..k + m : next.ids[i] = F[2 * (i - k) - 1][1]
      BY <2>6, <2>8 DEF Advances
    <3>2. \A i \in 1..k : next.ids[i] = i
      BY <3>1, <2>2 DEF prev
    <3>3. CASE n0 > c
      <4>1. F = <<>> /\ m = 0
        <5>1. F = <<>>
          BY <3>3, <2>1 DEF Laid, F
        <5> QED BY <5>1, <2>5
      <4>2. Len(next.ids) = k
        BY <4>1, <3>1
      <4>3. ~(n <= c)
        BY <3>3, <2>1, SegmentType
      <4> QED BY <4>2, <4>3, <3>2 DEF next, n
    <3>4. CASE n0 <= c
      <4>1. k = base[n0] /\ base[n0] \in Nat
        BY <3>4, <2>1, <2>2, <2>8 DEF prev
      <4>2. ASSUME NEW i \in k + 1..k + m PROVE next.ids[i] = i
        <5>1. i - k \in 1..m /\ i - k \in Nat /\ 2 * (i - k) - 1 \in 1..Len(F)
          <6>1. i - k \in 1..m /\ i - k \in Nat
            BY <2>5, <3>1
          <6> QED BY <6>1, <2>5
        <5>2. F[2 * (i - k) - 1] = UnitAt(base[n0], 2 * (i - k) - 1)
          BY <5>1, <2>1 DEF Laid, F
        <5>3. (2 * (i - k) - 1 + 1) \div 2 = i - k /\ k + (i - k) = i
          <6>1. PICK j \in Nat : j = i - k
            BY <5>1
          <6>2. (2 * j - 1 + 1) \div 2 = j
            OBVIOUS
          <6>3. k + (i - k) = i
            BY <3>1
          <6> QED BY <6>1, <6>2, <6>3
        <5>4. F[2 * (i - k) - 1][1] = i
          BY <5>2, <5>3, <4>1 DEF UnitAt
        <5> QED BY <5>4, <3>1
      <4>3. \A i \in 1..Len(next.ids) : next.ids[i] = i
        <5>1. \A i \in 1..Len(next.ids) : i \in 1..k \/ i \in k + 1..k + m
          BY <3>1, <2>5
        <5> QED BY <5>1, <3>2, <4>2
      <4>4. ASSUME next.ok, n <= c PROVE Len(next.ids) = base[n]
        <5>1. n0 < c /\ n0 + 1 = n /\ n \in Segment
          BY <4>4, <2>1, <1>2
        <5>2. 2 * (base[n] - base[n0]) = Len(F)
          BY <5>1, <2>1 DEF Laid, F
        <5>3. base[n] \in Nat
          BY <5>1
        <5>4. 2 * m = Len(F)
          BY <4>4, <3>1
        <5>5. m = base[n] - base[n0]
          <6>1. m \in Nat /\ 2 * (base[n] - base[n0]) = 2 * m
            BY <2>5, <5>2, <5>4
          <6>2. \A x, y, z \in Nat : 2 * (x - y) = 2 * z => z = x - y
            OBVIOUS
          <6>3. base[n] \in Nat /\ base[n0] \in Nat
            BY <4>1, <5>3
          <6> HIDE DEF k
          <6> QED BY <6>1, <6>2, <6>3
        <5>6. Len(next.ids) = base[n0] + m
          BY <4>1, <3>1
        <5> QED BY <4>1, <5>3, <5>5, <5>6
      <4> QED BY <4>3, <4>4 DEF next, n
    <3> QED BY <3>3, <3>4, <2>1, SegmentType
  <2> QED BY <2>7, <2>8
<1> HIDE DEF S
<1>5. N \in S
  BY <1>2, <1>3, <1>4, NatInd
<1>6. Good(N)
  BY <1>2, <1>5 DEF S
<1> QED BY <1>1, <1>6

-----------------------------------------------------------------------------
(* What the actions do to the files and to the segments with their buffer *)

\* All that is buffered comes after all that is written.
Newest ==
  \A s \in Segment : \A p \in 1..Len(files[s]), q \in 1..Len(buf) : files[s][p][1] <= buf[q][1]

\* The buffer holds entries of the server that is running.
Owned ==
  /\ state # "up" => buf = <<>>
  /\ \A q \in 1..Len(buf) : buf[q][1] \in 1..Len(logged) /\ logged[buf[q][1]].run = run

\* No entry of the server that is running is lost while it runs.
Reached ==
  state = "up" => \A i \in 1..Len(logged) :
                    logged[i].run = run => \E s \in Segment : Complete(Flows[s], i)

\* The first run laid its segments one after the other.
FirstRun ==
  run = 1 => \E base \in [Segment -> Nat] :
               /\ Laid(files, base, csIdx)
               /\ state = "up" => LaidTo(Flows, base, csIdx, Len(logged))

WalInv ==
  /\ TypeOK /\ Sound(Flows, Len(logged)) /\ Newest /\ Owned /\ Reached /\ FirstRun
  /\ run >= 1 /\ ReplayedOnce /\ FirstRecoveryIsPrefix

LEMMA FlowType ==
  ASSUME TypeOK
  PROVE  /\ Flows \in [Segment -> Seq(Unit)]
         /\ \A s \in Segment : s # csIdx => Flows[s] = files[s]
         /\ Flows[csIdx] = files[csIdx] \o buf
         /\ Within(files, Flows)
<1>1. csIdx \in Segment /\ files \in [Segment -> Seq(Unit)] /\ buf \in Seq(Unit)
  BY DEF TypeOK
<1>2. /\ files[csIdx] \o buf \in Seq(Unit)
      /\ Len(files[csIdx]) <= Len(files[csIdx] \o buf)
      /\ \A p \in 1..Len(files[csIdx]) : (files[csIdx] \o buf)[p] = files[csIdx][p]
  <2>1. files[csIdx] \in Seq(Unit)
    BY <1>1
  <2>2. /\ files[csIdx] \o buf \in Seq(Unit)
        /\ Len(files[csIdx] \o buf) = Len(files[csIdx]) + Len(buf)
        /\ Len(files[csIdx]) \in Nat /\ Len(buf) \in Nat
        /\ \A p \in 1..Len(files[csIdx]) + Len(buf) :
             (files[csIdx] \o buf)[p] =
               IF p <= Len(files[csIdx]) THEN files[csIdx][p] ELSE buf[p - Len(files[csIdx])]
    BY <1>1, <2>1, Concat
  <2> QED BY <2>2
<1>3. /\ \A s \in Segment : s # csIdx => Flows[s] = files[s]
      /\ Flows[csIdx] = files[csIdx] \o buf
  BY <1>1 DEF Flows, Flow
<1>4. Flows \in [Segment -> Seq(Unit)]
  BY <1>1, <1>2 DEF Flows, Flow
<1>5. Within(files, Flows)
  <2> SUFFICES ASSUME NEW s \in Segment
               PROVE  /\ Len(files[s]) <= Len(Flows[s])
                      /\ \A p \in 1..Len(files[s]) : files[s][p] = Flows[s][p]
    BY DEF Within
  <2>1. CASE s = csIdx
    BY <2>1, <1>2, <1>3
  <2>2. CASE s # csIdx
    <3>1. Flows[s] = files[s] /\ Len(files[s]) \in Nat
      BY <2>2, <1>1, <1>3
    <3> QED BY <3>1
  <2> QED BY <2>1, <2>2
<1> QED BY <1>3, <1>4, <1>5

\* A unit of a segment is in its file or in the buffer.
LEMMA FlowUnits ==
  ASSUME TypeOK, NEW s \in Segment, NEW p \in 1..Len(Flows[s])
  PROVE  \/ p \in 1..Len(files[s]) /\ Flows[s][p] = files[s][p]
         \/ s = csIdx /\ \E q \in 1..Len(buf) : p = Len(files[s]) + q /\ Flows[s][p] = buf[q]
<1>1. csIdx \in Segment /\ files[s] \in Seq(Unit) /\ buf \in Seq(Unit)
  BY DEF TypeOK
<1>2. CASE s # csIdx
  BY <1>2, FlowType
<1>3. CASE s = csIdx
  <2> DEFINE a == files[s]
             n == Len(a)
  <2>1. Flows[s] = a \o buf
    BY <1>3, FlowType
  <2>2. /\ Len(a \o buf) = n + Len(buf) /\ n \in Nat /\ Len(buf) \in Nat
        /\ \A i \in 1..n + Len(buf) : (a \o buf)[i] = IF i <= n THEN a[i] ELSE buf[i - n]
    BY <1>1, Concat
  <2> HIDE DEF a, n
  <2>3. p \in 1..n + Len(buf)
    BY <2>1, <2>2
  <2>4. CASE p <= n
    BY <2>1, <2>2, <2>3, <2>4 DEF n, a
  <2>5. CASE p > n
    <3>1. p - n \in 1..Len(buf) /\ p = n + (p - n) /\ ~(p <= n)
      BY <2>2, <2>3, <2>5
    <3>2. Flows[s][p] = buf[p - n]
      BY <3>1, <2>1, <2>2, <2>3
    <3> QED BY <3>1, <3>2, <1>3 DEF n, a
  <2> QED BY <2>2, <2>3, <2>4, <2>5
<1> QED BY <1>2, <1>3

\* A flush leaves the segments as they are, and writes them all.
LEMMA FlushEffect ==
  ASSUME TypeOK, files' = sync, buf' = <<>>, csIdx' \in Segment
  PROVE  files' = Flows /\ Flows' = Flows
<1>1. files \in [Segment -> Seq(Unit)] /\ csIdx \in Segment
  BY DEF TypeOK
<1>2. sync = Flows
  BY <1>1 DEF sync, Flows, Flow
<1>3. \A s \in Segment : files'[s] \in Seq(Unit)
  BY <1>2, FlowType
<1>4. \A s \in Segment : Flow(s)' = files'[s]
  <2> SUFFICES ASSUME NEW s \in Segment PROVE Flow(s)' = files'[s]
    OBVIOUS
  <2>1. files'[s] \o <<>> = files'[s]
    BY <1>3, ConcatEmptySeq
  <2> QED BY <2>1 DEF Flow
<1>5. Flows' = [s \in Segment |-> files'[s]]
  BY <1>4 DEF Flows
<1>6. Flows = [s \in Segment |-> Flows[s]]
  BY DEF Flows
<1> QED BY <1>2, <1>5, <1>6

\* An end or a start leaves what was written.
LEMMA DropEffect ==
  ASSUME TypeOK, files' = files, buf' = <<>>, csIdx' \in Segment
  PROVE  Flows' = files
<1>1. files \in [Segment -> Seq(Unit)]
  BY DEF TypeOK
<1>2. \A s \in Segment : Flow(s)' = files[s]
  <2> SUFFICES ASSUME NEW s \in Segment PROVE Flow(s)' = files[s]
    OBVIOUS
  <2>1. files[s] \in Seq(Unit)
    BY <1>1
  <2>2. files[s] \o <<>> = files[s]
    BY <2>1, ConcatEmptySeq
  <2> QED BY <2>2 DEF Flow
<1>3. Flows' = [s \in Segment |-> files[s]]
  BY <1>2 DEF Flows
<1> QED BY <1>1, <1>3

\* LogCommand adds the entry at the end of the segment it goes on with.
LEMMA LogEffect ==
  ASSUME TypeOK, run >= 1, NEW kind \in {"plain", "timed"}, LogCommand(kind)
  PROVE  LET id == Len(logged) + 1
         IN  /\ id \in 1..MaxLog /\ Len(logged) \in Nat /\ state = "up"
             /\ TypeOK'
             /\ csIdx' = csIdx \/ csIdx' = csIdx + 1
             /\ Extends(Flows', Flows, csIdx', id)
             /\ Within(files, files')
             /\ \A q \in 1..Len(buf') : \/ buf'[q] = HeadOf(id) \/ buf'[q] = BodyOf(id)
                                        \/ csIdx' = csIdx /\ \E r \in 1..Len(buf) : buf'[q] = buf[r]
             /\ csIdx' = csIdx => \A t \in Segment : t # csIdx => files'[t] = files[t]
             /\ csIdx' # csIdx => files'[csIdx] = Flows[csIdx]
<1> DEFINE id == Len(logged) + 1
           c == csIdx'
           rotate == rotateLogIfNeeded
           F == IF rotate THEN sync ELSE files
           b == IF rotate THEN <<>> ELSE buf
           size == IF rotate THEN LaterBuffer ELSE BufferSize
           w == Write(F, c, b, size, id)
<1>1. /\ files \in [Segment -> Seq(Unit)] /\ buf \in Seq(Unit) /\ Len(buf) <= BufferSize
      /\ csIdx \in Segment /\ csSize \in 0..MaxSegmentSize /\ state \in {"up", "crashed", "stopped"}
      /\ run \in Nat /\ logged \in Seq([run : 1..run, kind : {"plain", "timed"}])
      /\ restored \in Seq(1..MaxLog)
  BY DEF TypeOK
<1>2. /\ state = "up" /\ id <= MaxLog /\ c <= MaxSeg
      /\ c = IF rotate THEN csIdx + 1 ELSE csIdx
      /\ csSize' = IF rotate THEN EntrySize ELSE csSize + EntrySize
      /\ logged' = Append(logged, [run |-> run, kind |-> kind])
      /\ state' = state /\ run' = run /\ restored' = restored
  BY DEF LogCommand
<1>3. files' = w.files /\ buf' = w.buf
  BY <1>2 DEF LogCommand
<1>4. id \in 1..MaxLog /\ Len(logged) \in Nat
  BY <1>1, <1>2
<1>5. c \in Segment /\ (c = csIdx \/ c = csIdx + 1)
  BY <1>1, <1>2, SegmentType DEF Segment
<1>6. F \in [Segment -> Seq(Unit)] /\ Within(files, F) /\ (\A t \in Segment : t # csIdx => F[t] = files[t])
      /\ (rotate => F = Flows)
  <2>1. CASE rotate
    <3>1. sync = Flows
      BY <1>1 DEF sync, Flows, Flow
    <3>2. F = Flows
      BY <2>1, <3>1
    <3> HIDE DEF F
    <3> QED BY <3>2, FlowType
  <2>2. CASE ~rotate
    <3>1. F = files
      BY <2>2
    <3> HIDE DEF F
    <3>2. Within(files, files)
      BY <1>1 DEF Within
    <3> QED BY <3>1, <3>2, <1>1, <2>2
  <2> QED BY <2>1, <2>2
<1>7. b \in Seq(Unit) /\ Len(b) <= size /\ size \in Nat /\ size >= 2
  BY <1>1, SizeAssumption DEF EntrySize, BufferSize
<1> HIDE DEF w, F, b, size, id, c
<1>8. /\ w.files \in [Segment -> Seq(Unit)]
      /\ w.buf \in Seq(Unit) /\ Len(w.buf) <= size
      /\ \A t \in Segment : t # c => w.files[t] = F[t]
      /\ w.files[c] \o w.buf = (F[c] \o b) \o Entry(id)
      /\ Within(F, w.files)
      /\ \A q \in 1..Len(w.buf) : \/ w.buf[q] = HeadOf(id) \/ w.buf[q] = BodyOf(id)
                                  \/ \E r \in 1..Len(b) : w.buf[q] = b[r]
  <2>1. Written(w, F, c, b, size, id)
    BY <1>4, <1>5, <1>6, <1>7, WriteLaw DEF w
  <2> QED BY <2>1 DEF Written
<1>9. /\ files' \in [Segment -> Seq(Unit)] /\ buf' \in Seq(Unit) /\ Len(buf') <= size
      /\ \A t \in Segment : t # c => files'[t] = F[t]
      /\ files'[c] \o buf' = (F[c] \o b) \o Entry(id)
  BY <1>3, <1>8
<1>10. size = BufferSize'
  <2>1. CASE rotate
    <3>1. csIdx' # 0
      BY <2>1, <1>1, <1>2, SegmentType DEF c
    <3> QED BY <2>1, <3>1 DEF BufferSize, size
  <2>2. CASE ~rotate
    BY <2>2, <1>2 DEF BufferSize, size, c
  <2> QED BY <2>1, <2>2
<1>11. TypeOK'
  <2>1. csSize' \in 0..MaxSegmentSize
    BY <1>1, <1>2, SizeAssumption DEF rotateLogIfNeeded, EntrySize
  <2>2. logged' \in Seq([run : 1..run', kind : {"plain", "timed"}])
    <3> DEFINE R == [run : 1..run, kind : {"plain", "timed"}]
               e == [run |-> run, kind |-> kind]
    <3>1. e \in R
      <4>1. run \in 1..run
        BY <1>1
      <4> QED BY <4>1
    <3>2. Append(logged, e) \in Seq(R)
      <4> HIDE DEF R, e
      <4> QED BY <1>1, <3>1, AppendProperties DEF R
    <3> QED BY <1>2, <3>2
  <2>3. c = csIdx'
    BY DEF c
  <2> QED BY <1>1, <1>2, <1>5, <1>9, <1>10, <2>1, <2>2, <2>3 DEF TypeOK
<1>12. Extends(Flows', Flows, csIdx', id)
  <2>1. F[c] \o b = Flows[c]
    <3>1. CASE rotate
      <4>1. Flows[c] \in Seq(Unit)
        BY <1>5, FlowType
      <4>2. b = <<>> /\ F[c] = Flows[c]
        BY <3>1, <1>6 DEF b
      <4> QED BY <4>1, <4>2, ConcatEmptySeq
    <3>2. CASE ~rotate
      <4>1. b = buf /\ F = files /\ c = csIdx
        BY <3>2, <1>2 DEF b, F
      <4> QED BY <4>1, FlowType
    <3> QED BY <3>1, <3>2
  <2>2. Flows'[c] = Flows[c] \o Entry(id)
    <3>1. Flows'[c] = files'[c] \o buf'
      BY <1>5 DEF Flows, Flow, c
    <3> QED BY <3>1, <2>1, <1>9
  <2>3. ASSUME NEW t \in Segment, t # c PROVE Flows'[t] = Flows[t]
    <3>1. Flows'[t] = F[t]
      BY <2>3, <1>9 DEF Flows, Flow, c
    <3>2. CASE rotate
      BY <3>1, <3>2, <1>6
    <3>3. CASE ~rotate
      <4>1. F = files /\ c = csIdx
        BY <3>3, <1>2 DEF F
      <4> QED BY <4>1, <3>1, <2>3, FlowType
    <3> QED BY <3>2, <3>3
  <2> QED BY <2>2, <2>3 DEF Extends, c
<1>13. Within(files, files')
  <2>1. \A s \in Segment : Len(files[s]) \in Nat /\ Len(F[s]) \in Nat /\ Len(files'[s]) \in Nat
    BY <1>1, <1>6, <1>9
  <2>2. Within(F, files')
    BY <1>3, <1>8
  <2> QED BY <2>1, <2>2, <1>6 DEF Within
<1>14. ASSUME NEW q \in 1..Len(buf')
       PROVE  \/ buf'[q] = HeadOf(id) \/ buf'[q] = BodyOf(id)
              \/ c = csIdx /\ \E r \in 1..Len(buf) : buf'[q] = buf[r]
  <2>1. CASE rotate
    <3>1. b = <<>>
      BY <2>1 DEF b
    <3> QED BY <3>1, <1>3, <1>8
  <2>2. CASE ~rotate
    <3>1. b = buf /\ c = csIdx
      BY <2>2, <1>2 DEF b
    <3> QED BY <3>1, <1>3, <1>8
  <2> QED BY <2>1, <2>2
<1>15. c = csIdx => \A t \in Segment : t # csIdx => files'[t] = files[t]
  BY <1>6, <1>9
<1>16. ASSUME c # csIdx PROVE files'[csIdx] = Flows[csIdx]
  <2>1. rotate
    BY <1>16, <1>2
  <2> QED BY <2>1, <1>16, <1>1, <1>6, <1>9
<1> QED BY <1>2, <1>4, <1>5, <1>11, <1>12, <1>13, <1>14, <1>15, <1>16 DEF id, c

-----------------------------------------------------------------------------
(* The invariant is kept *)

\* A segment with its buffer is its file, then the buffer.
FlowFact ==
  /\ Flows \in [Segment -> Seq(Unit)] /\ Within(files, Flows)
  /\ \A s \in Segment : s # csIdx => Flows[s] = files[s]
  /\ Len(files[csIdx]) \in Nat /\ Len(buf) \in Nat
  /\ Len(Flows[csIdx]) = Len(files[csIdx]) + Len(buf)
  /\ \A q \in 1..Len(buf) : Flows[csIdx][Len(files[csIdx]) + q] = buf[q]

LEMMA FlowLaw == TypeOK => FlowFact
<1> SUFFICES ASSUME TypeOK PROVE FlowFact
  OBVIOUS
<1> DEFINE a == files[csIdx]
           n == Len(a)
<1>1. a \in Seq(Unit) /\ buf \in Seq(Unit) /\ Flows[csIdx] = a \o buf
  BY FlowType DEF TypeOK
<1>2. /\ Len(a \o buf) = n + Len(buf) /\ n \in Nat /\ Len(buf) \in Nat
      /\ \A i \in 1..n + Len(buf) : (a \o buf)[i] = IF i <= n THEN a[i] ELSE buf[i - n]
  BY <1>1, Concat
<1> HIDE DEF a, n
<1>3. ASSUME NEW q \in 1..Len(buf) PROVE Flows[csIdx][n + q] = buf[q]
  <2>1. n + q \in 1..n + Len(buf) /\ ~(n + q <= n) /\ n + q - n = q
    BY <1>2
  <2>2. PICK i \in 1..n + Len(buf) : i = n + q
    BY <2>1
  <2>3. ~(i <= n) /\ i - n = q
    BY <1>2, <2>2
  <2>4. (a \o buf)[i] = buf[q]
    BY <1>2, <2>3
  <2> QED BY <1>1, <2>2, <2>4
<1> QED BY <1>1, <1>2, <1>3, FlowType DEF FlowFact, a, n

LEMMA ExtendsComplete ==
  ASSUME NEW f \in [Segment -> Seq(Unit)], NEW g, NEW c \in Segment, NEW id \in 1..MaxLog,
         Extends(g, f, c, id)
  PROVE  /\ Complete(g[c], id)
         /\ \A s \in Segment, i \in Nat : Complete(f[s], i) => Complete(g[s], i)
<1> DEFINE m == Len(f[c])
<1>1. /\ Len(g[c]) = m + 2 /\ m \in Nat
      /\ \A p \in 1..m : g[c][p] = f[c][p]
      /\ g[c][m + 1] = HeadOf(id) /\ g[c][m + 2] = BodyOf(id)
  BY ExtendsPointwise
<1>2. \A s \in Segment : s # c => g[s] = f[s]
  BY DEF Extends
<1> HIDE DEF m
<1>3. Complete(g[c], id)
  <2>1. m + 1 \in 1..Len(g[c]) - 1 /\ m + 1 + 1 = m + 2
    BY <1>1
  <2> QED BY <1>1, <2>1 DEF Complete
<1>4. ASSUME NEW i \in Nat, Complete(f[c], i) PROVE Complete(g[c], i)
  <2>1. PICK p \in 1..m - 1 : f[c][p] = HeadOf(i) /\ f[c][p + 1] = BodyOf(i)
    BY <1>4 DEF Complete, m
  <2>2. p \in 1..m /\ p + 1 \in 1..m /\ p \in 1..Len(g[c]) - 1
    BY <1>1
  <2>3. g[c][p] = HeadOf(i) /\ g[c][p + 1] = BodyOf(i)
    BY <1>1, <2>1, <2>2
  <2> QED BY <2>2, <2>3 DEF Complete
<1> QED BY <1>2, <1>3, <1>4

LEMMA LogStep ==
  ASSUME WalInv, NEW kind \in {"plain", "timed"}, LogCommand(kind)
  PROVE  WalInv'
<1> DEFINE n == Len(logged)
           id == n + 1
           c == csIdx'
           e == [run |-> run, kind |-> kind]
<1>1. TypeOK /\ run >= 1 /\ Sound(Flows, n) /\ Newest /\ Owned /\ Reached /\ FirstRun
  BY DEF WalInv
<1>2. /\ id \in 1..MaxLog /\ n \in Nat /\ state = "up"
      /\ TypeOK'
      /\ c = csIdx \/ c = csIdx + 1
      /\ Extends(Flows', Flows, c, id)
      /\ Within(files, files')
      /\ \A q \in 1..Len(buf') : \/ buf'[q] = HeadOf(id) \/ buf'[q] = BodyOf(id)
                                 \/ c = csIdx /\ \E r \in 1..Len(buf) : buf'[q] = buf[r]
      /\ c = csIdx => \A t \in Segment : t # csIdx => files'[t] = files[t]
  BY <1>1, LogEffect
<1>3. /\ logged' = Append(logged, e) /\ state' = state /\ run' = run /\ restored' = restored
  BY DEF LogCommand
<1>4. FlowFact /\ FlowFact'
  <2>1. (TypeOK => FlowFact)'
    BY FlowLaw, PTL
  <2> QED BY <1>1, <1>2, <2>1, FlowLaw
<1>5. /\ files \in [Segment -> Seq(Unit)] /\ files' \in [Segment -> Seq(Unit)]
      /\ buf \in Seq(Unit) /\ buf' \in Seq(Unit) /\ csIdx \in Segment /\ c \in Segment
      /\ logged \in Seq([run : 1..run, kind : {"plain", "timed"}])
  BY <1>1, <1>2 DEF TypeOK
<1>6. Len(logged') = id /\ (\A i \in 1..n : logged'[i] = logged[i]) /\ logged'[id] = e
  BY <1>3, <1>5
<1> HIDE DEF n, id, c, e
<1>7. id = n + 1 /\ HeadOf(id)[1] = id /\ BodyOf(id)[1] = id
  BY <1>2, EntryUnits DEF id
<1>8. Flows \in [Segment -> Seq(Unit)] /\ Flows' \in [Segment -> Seq(Unit)]
      /\ Within(files', Flows')
  BY <1>4 DEF FlowFact
<1>9. Sound(Flows', id)
  <2>1. n + 1 <= MaxLog /\ Extends(Flows', Flows, c, n + 1)
    BY <1>2, <1>7
  <2>2. Sound(Flows', n + 1)
    BY <1>1, <1>2, <1>5, <1>8, <2>1, ExtendsSound
  <2> QED BY <2>2, <1>7
<1>10. Newest'
  <2> SUFFICES ASSUME NEW s \in Segment, NEW p \in 1..Len(files'[s]), NEW q \in 1..Len(buf')
               PROVE  files'[s][p][1] <= buf'[q][1]
    BY DEF Newest
  <2>1. p \in 1..Len(Flows'[s]) /\ files'[s][p] = Flows'[s][p] /\ p \in Nat
    <3>1. Len(files'[s]) \in Nat /\ Len(Flows'[s]) \in Nat
      BY <1>5, <1>8
    <3> QED BY <3>1, <1>8 DEF Within
  <2>2. CASE buf'[q] = HeadOf(id) \/ buf'[q] = BodyOf(id)
    <3>1. Flows'[s][p][1] <= id
      BY <2>1, <1>9 DEF Sound, Known
    <3> QED BY <3>1, <2>1, <2>2, <1>7
  <2>3. CASE c = csIdx /\ s # csIdx /\ \E r \in 1..Len(buf) : buf'[q] = buf[r]
    <3>1. files'[s] = files[s]
      BY <2>3, <1>2
    <3> QED BY <3>1, <2>3, <1>1 DEF Newest
  <2>4. CASE s = c
    <3> DEFINE x == Len(files'[c]) + q
    <3>1. /\ Len(files'[c]) \in Nat /\ Len(Flows'[c]) = Len(files'[c]) + Len(buf')
          /\ Flows'[c][x] = buf'[q] /\ Len(buf') \in Nat
      BY <1>4 DEF FlowFact, c
    <3>2. x \in 1..Len(Flows'[c]) /\ p < x
      BY <3>1, <2>1, <2>4
    <3>3. Flows'[s][p][1] <= Flows'[s][x][1]
      BY <3>2, <2>1, <2>4, <1>9 DEF Sound, Ordered
    <3> QED BY <3>1, <3>3, <2>1, <2>4
  <2> QED BY <2>2, <2>3, <2>4, <1>2
<1>11. Owned'
  <2>1. ASSUME NEW q \in 1..Len(buf')
        PROVE  buf'[q][1] \in 1..Len(logged') /\ logged'[buf'[q][1]].run = run
    <3>1. CASE buf'[q] = HeadOf(id) \/ buf'[q] = BodyOf(id)
      BY <3>1, <1>2, <1>6, <1>7 DEF e
    <3>2. CASE \E r \in 1..Len(buf) : buf'[q] = buf[r]
      <4>1. buf'[q][1] \in 1..n /\ logged[buf'[q][1]].run = run
        BY <3>2, <1>1 DEF Owned, n
      <4>2. buf'[q][1] \in 1..id
        BY <4>1, <1>2, <1>7
      <4> QED BY <4>1, <4>2, <1>6
    <3> QED BY <3>1, <3>2, <1>2
  <2> QED BY <2>1, <1>2, <1>3 DEF Owned
<1>12. Reached'
  <2> SUFFICES ASSUME NEW i \in 1..Len(logged'), logged'[i].run = run
               PROVE  \E s \in Segment : Complete(Flows'[s], i)
    BY <1>3 DEF Reached
  <2>1. /\ Complete(Flows'[c], id)
        /\ \A s \in Segment, j \in Nat : Complete(Flows[s], j) => Complete(Flows'[s], j)
    BY <1>2, <1>5, <1>8, ExtendsComplete
  <2>2. CASE i = id
    BY <2>1, <2>2, <1>5
  <2>3. CASE i \in 1..n
    <3>1. logged[i].run = run
      BY <2>3, <1>6
    <3>2. \E s \in Segment : Complete(Flows[s], i)
      BY <3>1, <2>3, <1>1, <1>2 DEF Reached, n
    <3> QED BY <3>2, <2>1, <2>3
  <2>4. i = id \/ i \in 1..n
    BY <1>2, <1>6, <1>7
  <2> QED BY <2>2, <2>3, <2>4
<1>13. FirstRun'
  <2> SUFFICES ASSUME run = 1
               PROVE  \E base \in [Segment -> Nat] :
                        Laid(files', base, c) /\ LaidTo(Flows', base, c, id)
    BY <1>3, <1>6 DEF FirstRun, c
  <2>1. PICK old \in [Segment -> Nat] : LaidTo(Flows, old, csIdx, n)
    BY <1>1, <1>2 DEF FirstRun, n
  <2>2. PICK base \in [Segment -> Nat] : LaidTo(Flows, base, c, n)
    <3>1. CASE c = csIdx
      BY <3>1, <2>1
    <3>2. CASE c = csIdx + 1
      <4>1. csIdx + 1 \in Segment
        BY <3>2, <1>5
      <4> QED BY <3>2, <4>1, <2>1, <1>2, <1>5, <1>8, LaidRotate
    <3> QED BY <3>1, <3>2, <1>2
  <2>3. LaidTo(Flows', base, c, id)
    <3>1. n + 1 <= MaxLog /\ Extends(Flows', Flows, c, n + 1)
      BY <1>2, <1>7
    <3>2. LaidTo(Flows', base, c, n + 1)
      BY <3>1, <2>2, <1>2, <1>5, <1>8, LaidExtends
    <3> QED BY <3>2, <1>7
  <2>4. Laid(files', base, c)
    <3>1. \A s \in Segment : s # c => files'[s] = Flows'[s]
      BY <1>4 DEF FlowFact, c
    <3>2. Laid(Flows', base, c)
      BY <2>3 DEF LaidTo
    <3> QED BY <3>1, <3>2, <1>5, <1>8, LaidWithin
  <2> QED BY <2>3, <2>4
<1>14. ReplayedOnce' /\ FirstRecoveryIsPrefix'
  BY <1>3 DEF WalInv, ReplayedOnce, FirstRecoveryIsPrefix
<1>15. Sound(Flows, Len(logged))'
  BY <1>6, <1>9
<1> QED BY <1>1, <1>2, <1>3, <1>10, <1>11, <1>12, <1>13, <1>14, <1>15 DEF WalInv

\* The ticker, and a rotation without a command.
LEMMA FlushStep ==
  ASSUME WalInv, state = "up", files' = sync, buf' = <<>>, UNCHANGED <<state, run, logged, restored>>,
         \/ csIdx' = csIdx /\ csSize' = csSize
         \/ csIdx < MaxSeg /\ csIdx' = csIdx + 1 /\ csSize' = 0
  PROVE  WalInv'
<1> DEFINE n == Len(logged)
           c == csIdx'
<1>1. TypeOK /\ run >= 1 /\ Sound(Flows, n) /\ Newest /\ Owned /\ Reached /\ FirstRun
  BY DEF WalInv
<1>2. /\ files \in [Segment -> Seq(Unit)] /\ buf \in Seq(Unit) /\ csIdx \in Segment
      /\ csSize \in 0..MaxSegmentSize /\ n \in Nat
  BY <1>1 DEF TypeOK
<1>3. c \in Segment /\ (c = csIdx \/ c = csIdx + 1)
  BY <1>2, SegmentType DEF Segment
<1>4. files' = Flows /\ Flows' = Flows /\ FlowFact
  BY <1>1, <1>3, FlushEffect, FlowLaw
<1>5. Flows \in [Segment -> Seq(Unit)]
  BY <1>4 DEF FlowFact
<1>6. TypeOK'
  <2>1. 0 <= BufferSize'
    BY SizeAssumption DEF BufferSize
  <2>2. csSize' \in 0..MaxSegmentSize
    BY <1>2, SizeAssumption
  <2>3. buf' \in Seq(Unit) /\ Len(buf') = 0
    OBVIOUS
  <2> QED BY <1>1, <1>3, <1>4, <1>5, <2>1, <2>2, <2>3 DEF TypeOK
<1>7. Sound(Flows, Len(logged))'
  BY <1>1, <1>4
<1>8. Newest' /\ Owned'
  BY DEF Newest, Owned
<1>9. Reached'
  BY <1>1, <1>4 DEF Reached
<1>10. FirstRun'
  <2> SUFFICES ASSUME run = 1
               PROVE  \E base \in [Segment -> Nat] : Laid(Flows, base, c) /\ LaidTo(Flows, base, c, n)
    BY <1>4 DEF FirstRun
  <2>1. PICK old \in [Segment -> Nat] : LaidTo(Flows, old, csIdx, n)
    BY <1>1 DEF FirstRun
  <2>2. CASE c = csIdx
    BY <2>1, <2>2 DEF LaidTo
  <2>3. CASE c = csIdx + 1
    <3>1. csIdx + 1 \in Segment
      BY <2>3, <1>3
    <3> HIDE DEF n
    <3>2. \E b \in [Segment -> Nat] : LaidTo(Flows, b, csIdx + 1, n)
      BY <3>1, <2>1, <1>2, <1>5, LaidRotate
    <3> QED BY <2>3, <3>2 DEF LaidTo
  <2> QED BY <2>2, <2>3, <1>3
<1>11. ReplayedOnce' /\ FirstRecoveryIsPrefix'
  BY DEF WalInv, ReplayedOnce, FirstRecoveryIsPrefix
<1> QED BY <1>1, <1>6, <1>7, <1>8, <1>9, <1>10, <1>11 DEF WalInv

LEMMA EndStep ==
  ASSUME WalInv, NEW how \in {"crashed", "stopped"}, End(how)
  PROVE  WalInv'
<1>1. TypeOK /\ run >= 1 /\ Sound(Flows, Len(logged)) /\ FirstRun
  BY DEF WalInv
<1>2. /\ state = "up" /\ state' = how /\ buf' = <<>>
      /\ files' = files /\ csIdx' = csIdx /\ csSize' = csSize /\ run' = run
      /\ logged' = logged /\ restored' = restored
  BY DEF End
<1>3. files \in [Segment -> Seq(Unit)] /\ csIdx \in Segment /\ Len(logged) \in Nat
  BY <1>1 DEF TypeOK
<1>4. Flows' = files /\ FlowFact
  BY <1>1, <1>2, <1>3, DropEffect, FlowLaw
<1>5. TypeOK'
  <2>1. 0 <= BufferSize'
    BY SizeAssumption DEF BufferSize
  <2>2. buf' \in Seq(Unit) /\ Len(buf') = 0
    BY <1>2
  <2> QED BY <1>1, <1>2, <2>1, <2>2 DEF TypeOK
<1>6. Sound(Flows, Len(logged))'
  <2>1. Flows \in [Segment -> Seq(Unit)] /\ Within(files, Flows)
    BY <1>4 DEF FlowFact
  <2>2. Sound(files, Len(logged))
    BY <1>1, <1>3, <2>1, WithinSound
  <2> QED BY <1>2, <1>4, <2>2
<1>7. Newest' /\ Owned' /\ Reached'
  BY <1>2 DEF Newest, Owned, Reached
<1>8. FirstRun'
  BY <1>1, <1>2 DEF FirstRun
<1>9. ReplayedOnce' /\ FirstRecoveryIsPrefix'
  BY <1>2 DEF WalInv, ReplayedOnce, FirstRecoveryIsPrefix
<1> QED BY <1>1, <1>2, <1>5, <1>6, <1>7, <1>8, <1>9 DEF WalInv

LEMMA RestartStep ==
  ASSUME WalInv, Restart
  PROVE  WalInv'
<1>1. /\ TypeOK /\ run >= 1 /\ Sound(Flows, Len(logged)) /\ FirstRun
      /\ ReplayedOnce /\ FirstRecoveryIsPrefix
  BY DEF WalInv
<1>2. /\ state # "up" /\ state' = "up" /\ run' = run + 1 /\ buf' = <<>> /\ csIdx' = 0 /\ csSize' = 0
      /\ files' = files /\ logged' = logged
  BY DEF Restart
<1>3. PICK refused : restored' = Replay(refused)
  BY DEF Restart
<1>4. /\ files \in [Segment -> Seq(Unit)] /\ csIdx \in Segment /\ Len(logged) \in Nat /\ run \in Nat
      /\ 0 \in Segment /\ logged \in Seq([run : 1..run, kind : {"plain", "timed"}])
  BY <1>1, SegmentType DEF TypeOK
<1>5. Flows' = files /\ FlowFact
  BY <1>1, <1>2, <1>4, DropEffect, FlowLaw
<1>6. \A i \in 1..Len(logged) : logged[i].run \in 1..run
  <2> DEFINE R == [run : 1..run, kind : {"plain", "timed"}]
  <2>1. logged \in Seq(R)
    BY <1>4
  <2>2. \A r \in R : r.run \in 1..run
    OBVIOUS
  <2> HIDE DEF R
  <2>3. \A i \in 1..Len(logged) : logged[i] \in R
    BY <2>1
  <2> QED BY <2>2, <2>3
<1>7. TypeOK'
  <2>1. 0 <= BufferSize'
    BY SizeAssumption DEF BufferSize
  <2>2. buf' \in Seq(Unit) /\ Len(buf') = 0
    BY <1>2
  <2>3. logged' \in Seq([run : 1..run', kind : {"plain", "timed"}])
    <3> DEFINE R == [run : 1..run, kind : {"plain", "timed"}]
               T == [run : 1..run + 1, kind : {"plain", "timed"}]
    <3>1. R \subseteq T
      <4>1. run \in Nat
        BY <1>4
      <4>2. \A i \in 1..run : i \in 1..run + 1
        BY <4>1
      <4> QED BY <4>2
    <3>2. logged \in Seq(T)
      <4>1. logged \in Seq(R)
        BY <1>4
      <4> HIDE DEF R, T
      <4> QED BY <3>1, <4>1, SeqMonotonic
    <3> QED BY <3>2, <1>2
  <2>4. restored' \in Seq(1..MaxLog)
    BY <1>3, <1>4, ReplayType
  <2>5. csSize' \in 0..MaxSegmentSize
    BY <1>2, SizeAssumption
  <2> QED BY <1>1, <1>2, <1>4, <2>1, <2>2, <2>3, <2>4, <2>5 DEF TypeOK
<1>8. Sound(files, Len(logged))
  <2>1. Flows \in [Segment -> Seq(Unit)] /\ Within(files, Flows)
    BY <1>5 DEF FlowFact
  <2> QED BY <1>1, <1>4, <2>1, WithinSound
<1>9. Sound(Flows, Len(logged))'
  BY <1>2, <1>5, <1>8
<1>10. Newest' /\ Owned'
  BY <1>2 DEF Newest, Owned
<1>11. Reached'
  BY <1>2, <1>4, <1>6 DEF Reached
<1>12. FirstRun'
  BY <1>1, <1>2, <1>4 DEF FirstRun
<1>13. restored' \in Seq(1..MaxLog) /\ DOMAIN restored' = 1..Len(restored')
  BY <1>3, <1>4, ReplayType
<1>14. ReplayedOnce'
  <2>1. Unique(files)
    BY <1>8 DEF Sound
  <2>2. \A i, j \in 1..Len(restored') : restored'[i] = restored'[j] => i = j
    BY <1>3, <1>4, <2>1, ReplayOnce
  <2> QED BY <1>13, <2>2 DEF ReplayedOnce
<1>15. FirstRecoveryIsPrefix'
  <2> SUFFICES ASSUME run' = 2, MaxSeg < 10 PROVE \A i \in 1..Len(restored') : restored'[i] = i
    BY <1>13 DEF FirstRecoveryIsPrefix
  <2>1. run = 1
    BY <1>2, <1>4
  <2>2. PICK base \in [Segment -> Nat] : Laid(files, base, csIdx)
    BY <1>1, <2>1 DEF FirstRun
  <2> QED BY <1>3, <1>4, <2>2, ReplayPrefix
<1> QED BY <1>1, <1>2, <1>4, <1>7, <1>9, <1>10, <1>11, <1>12, <1>14, <1>15 DEF WalInv

LEMMA InitWalInv == Init => WalInv
<1> SUFFICES ASSUME Init PROVE WalInv
  OBVIOUS
<1>1. /\ files = [s \in Segment |-> <<>>] /\ buf = <<>> /\ csIdx = 0 /\ csSize = 0
      /\ state = "up" /\ run = 1 /\ logged = <<>> /\ restored = <<>>
  BY DEF Init
<1>2. TypeOK
  BY <1>1, SegmentType, SizeAssumption DEF TypeOK, BufferSize
<1>3. Flows = [s \in Segment |-> <<>>]
  BY <1>1 DEF Flows, Flow
<1>4. \A s \in Segment : Flows[s] = <<>> /\ Len(Flows[s]) = 0
  BY <1>3
<1>5. Sound(Flows, Len(logged))
  BY <1>1, <1>4 DEF Sound, Known, Ordered, Unique
<1>6. Newest /\ Owned /\ Reached
  BY <1>1 DEF Newest, Owned, Reached
<1>7. FirstRun
  <2> DEFINE base == [s \in Segment |-> 0]
  <2>1. base \in [Segment -> Nat] /\ \A s \in Segment : base[s] = 0
    OBVIOUS
  <2> HIDE DEF base
  <2>2. files = Flows
    BY <1>1, <1>3
  <2>3. Laid(Flows, base, 0)
    BY <2>1, <1>4, SegmentType DEF Laid
  <2>4. LaidTo(Flows, base, 0, 0)
    <3>1. base[0] = 0 /\ Len(Flows[0]) = 0 /\ 2 * (0 - 0) = 0
      BY <2>1, <1>4, SegmentType
    <3> QED BY <2>3, <3>1 DEF LaidTo
  <2> QED BY <1>1, <2>1, <2>2, <2>3, <2>4 DEF FirstRun
<1>8. ReplayedOnce /\ FirstRecoveryIsPrefix
  BY <1>1 DEF ReplayedOnce, FirstRecoveryIsPrefix
<1> QED BY <1>1, <1>2, <1>5, <1>6, <1>7, <1>8 DEF WalInv

LEMMA NextWalInv == WalInv /\ [Next]_vars => WalInv'
<1> SUFFICES ASSUME WalInv, [Next]_vars PROVE WalInv'
  OBVIOUS
<1>1. CASE \E kind \in {"plain", "timed"} : LogCommand(kind)
  BY <1>1, LogStep
<1>2. CASE periodicSyncBuffer
  BY <1>2, FlushStep DEF periodicSyncBuffer
<1>3. CASE periodicRotateSegment
  BY <1>3, FlushStep DEF periodicRotateSegment
<1>4. CASE Crash
  BY <1>4, EndStep DEF Crash
<1>5. CASE TeardownWAL
  BY <1>5, EndStep DEF TeardownWAL
<1>6. CASE Restart
  BY <1>6, RestartStep
<1>7. CASE UNCHANGED vars
  <2>1. Flows' = Flows
    BY <1>7 DEF vars, Flows, Flow
  <2> QED BY <1>7, <2>1 DEF vars, WalInv, TypeOK, BufferSize, Newest, Owned, Reached, FirstRun,
                             ReplayedOnce, FirstRecoveryIsPrefix
<1> QED BY <1>1, <1>2, <1>3, <1>4, <1>5, <1>6, <1>7 DEF Next

-----------------------------------------------------------------------------
(* The theorems *)

\* The invariant of every reachable state.
THEOREM LogSound == Spec => []WalInv
<1> QED BY InitWalInv, NextWalInv, PTL DEF Spec

\* The writer keeps its shape whatever the sizes of buffer and segment: the
\* buffer never holds more than it can, no segment is larger than the limit
\* by what rotateLogIfNeeded counted, and a replay returns entries.
THEOREM TypeCorrect == Spec => []TypeOK
<1>1. WalInv => TypeOK
  BY DEF WalInv
<1> QED BY <1>1, LogSound, PTL

LEMMA InvSegments == WalInv => SegmentsInOrder
<1> SUFFICES ASSUME WalInv PROVE SegmentsInOrder
  OBVIOUS
<1>1. TypeOK /\ Ordered(Flows) /\ FlowFact
  BY FlowLaw DEF WalInv, Sound
<1>2. \A s \in Segment : /\ DOMAIN files[s] = 1..Len(files[s])
                         /\ \A p \in 1..Len(files[s]) : p \in 1..Len(Flows[s]) /\ Flows[s][p] = files[s][p]
  BY <1>1 DEF TypeOK, FlowFact, Within
<1> QED BY <1>1, <1>2 DEF SegmentsInOrder, Ordered

\* Every segment file has its entries in the order LogCommand took them,
\* however many restarts append to segment 0 again.
THEOREM SegmentsOrdered == Spec => []SegmentsInOrder
<1> QED BY InvSegments, LogSound, PTL

\* Replay returns no entry twice: a command is never applied twice by it.
THEOREM ReplayedAtMostOnce == Spec => []ReplayedOnce
<1>1. WalInv => ReplayedOnce
  BY DEF WalInv
<1> QED BY <1>1, LogSound, PTL

\* What the first restart recovers is a prefix of the first run's commands,
\* wherever the crash cut the buffer and whichever timed command is refused.
THEOREM FirstRecoveryPrefix == Spec => []FirstRecoveryIsPrefix
<1>1. WalInv => FirstRecoveryIsPrefix
  BY DEF WalInv
<1> QED BY <1>1, LogSound, PTL

-----------------------------------------------------------------------------
(* Losses are suffixes *)

\* While the server runs, it cannot have lost an entry and have a later one.
CurrentRun ==
  state = "up" =>
    \A i, j \in 1..Len(logged) :
      i < j /\ logged[i].run = run /\ OnDisk(j) => OnDisk(i)

LEMMA InvCurrentRun == WalInv => CurrentRun
<1> SUFFICES ASSUME WalInv, state = "up", NEW i \in 1..Len(logged), NEW j \in 1..Len(logged),
                    i < j, logged[i].run = run, OnDisk(j), ~OnDisk(i)
             PROVE  FALSE
  BY DEF CurrentRun
<1>1. TypeOK /\ Ordered(Flows) /\ Newest /\ FlowFact
  BY FlowLaw DEF WalInv, Sound
<1>2. PICK s \in Segment : Complete(Flows[s], i)
  BY DEF WalInv, Reached
<1>3. PICK p \in 1..Len(Flows[s]) - 1 : Flows[s][p] = HeadOf(i) /\ Flows[s][p + 1] = BodyOf(i)
  BY <1>2 DEF Complete
<1>4. PICK t \in Segment : Complete(files[t], j)
  BY DEF OnDisk
<1>5. PICK r \in 1..Len(files[t]) - 1 : files[t][r] = HeadOf(j)
  BY <1>4 DEF Complete
<1>6. /\ files \in [Segment -> Seq(Unit)] /\ Flows \in [Segment -> Seq(Unit)]
      /\ Len(files[t]) \in Nat /\ Len(files[s]) \in Nat /\ Len(Flows[s]) \in Nat
  <2>1. files \in [Segment -> Seq(Unit)] /\ Flows \in [Segment -> Seq(Unit)]
    BY <1>1 DEF TypeOK, FlowFact
  <2>2. files[t] \in Seq(Unit) /\ files[s] \in Seq(Unit) /\ Flows[s] \in Seq(Unit)
    BY <2>1
  <2> QED BY <2>1, <2>2
<1>7. p \in 1..Len(Flows[s]) /\ p + 1 \in 1..Len(Flows[s]) /\ p \in Nat
  BY <1>6
<1>8. \E q \in 1..Len(buf) : buf[q] = BodyOf(i)
  <2>1. CASE p + 1 \in 1..Len(files[s])
    <3>1. p \in 1..Len(files[s]) - 1
      BY <1>6, <1>7, <2>1
    <3>2. p \in 1..Len(files[s])
      BY <1>6, <1>7, <2>1
    <3>3. \A x \in 1..Len(files[s]) : files[s][x] = Flows[s][x]
      BY <1>1 DEF FlowFact, Within
    <3>4. files[s][p] = HeadOf(i) /\ files[s][p + 1] = BodyOf(i)
      BY <1>3, <2>1, <3>2, <3>3
    <3> QED BY <3>1, <3>4 DEF Complete, OnDisk
  <2>2. CASE \E q \in 1..Len(buf) : Flows[s][p + 1] = buf[q]
    BY <1>3, <2>2
  <2> QED BY <1>1, <1>7, <2>1, <2>2, FlowUnits
<1>9. HeadOf(j)[1] = j /\ BodyOf(i)[1] = i
  BY DEF HeadOf, BodyOf
<1>10. r \in 1..Len(files[t])
  BY <1>6
<1>11. j <= i
  BY <1>1, <1>5, <1>8, <1>9, <1>10 DEF Newest
<1> QED BY <1>11

\* What a step completes on disk was logged by the run that makes the step.
LEMMA NotSuccessor == \A n \in Nat : n # n + 1
OBVIOUS

LEMMA LoggedSeq == TypeOK => Len(logged) \in Nat /\ DOMAIN logged = 1..Len(logged)
BY DEF TypeOK

LEMMA NewOnDisk ==
  ASSUME WalInv, WalInv', state = "up", Len(logged') \in Nat, run' = run,
         Within(files, files'),
         \A s \in Segment : \A p \in 1..Len(Flows'[s]) :
           \/ p \in 1..Len(files[s]) \/ \E q \in 1..Len(buf) : Flows'[s][p] = buf[q]
           \/ Flows'[s][p][1] = Len(logged) + 1 /\ Len(logged') = Len(logged) + 1,
         \A i \in 1..Len(logged) : i \in 1..Len(logged') /\ logged'[i] = logged[i],
         Len(logged') = Len(logged) + 1 => logged'[Len(logged) + 1].run = run,
         NEW j \in Nat, OnDisk(j)'
  PROVE  OnDisk(j) \/ logged'[j].run = run
<1>1. TypeOK /\ FlowFact' /\ Owned
  <2>1. (TypeOK => FlowFact)'
    BY FlowLaw, PTL
  <2> QED BY <2>1 DEF WalInv
<1>2. PICK s \in Segment : Complete(files'[s], j)
  BY DEF OnDisk
<1>3. PICK p \in 1..Len(files'[s]) - 1 : files'[s][p] = HeadOf(j) /\ files'[s][p + 1] = BodyOf(j)
  BY <1>2 DEF Complete
<1>4. /\ files \in [Segment -> Seq(Unit)] /\ files' \in [Segment -> Seq(Unit)]
      /\ Len(files[s]) \in Nat /\ Len(files'[s]) \in Nat /\ Len(Flows'[s]) \in Nat
  <2>1. /\ files \in [Segment -> Seq(Unit)] /\ files' \in [Segment -> Seq(Unit)]
        /\ Flows' \in [Segment -> Seq(Unit)]
    BY <1>1 DEF TypeOK, WalInv, FlowFact
  <2>2. files[s] \in Seq(Unit) /\ files'[s] \in Seq(Unit) /\ Flows'[s] \in Seq(Unit)
    BY <2>1
  <2> QED BY <2>1, <2>2
<1>5. p \in Nat /\ p + 1 \in 1..Len(files'[s]) /\ p + 1 \in 1..Len(Flows'[s])
      /\ Flows'[s][p + 1] = BodyOf(j)
  <2>1. p \in Nat /\ p + 1 \in 1..Len(files'[s])
    BY <1>3, <1>4
  <2>2. /\ Len(files'[s]) <= Len(Flows'[s])
        /\ \A q \in 1..Len(files'[s]) : files'[s][q] = Flows'[s][q]
    BY <1>1 DEF FlowFact, Within
  <2> QED BY <1>3, <1>4, <2>1, <2>2
<1>6. BodyOf(j)[1] = j
  BY DEF BodyOf
<1>7. CASE p + 1 \in 1..Len(files[s])
  <2>1. p \in 1..Len(files[s]) - 1 /\ p \in 1..Len(files[s])
    BY <1>4, <1>5, <1>7
  <2>2. files[s][p] = HeadOf(j) /\ files[s][p + 1] = BodyOf(j)
    BY <2>1, <1>3, <1>7 DEF Within
  <2> QED BY <2>1, <2>2 DEF Complete, OnDisk
<1>8. CASE \E q \in 1..Len(buf) : Flows'[s][p + 1] = buf[q]
  <2>1. j \in 1..Len(logged) /\ logged[j].run = run
    BY <1>1, <1>5, <1>6, <1>8 DEF Owned
  <2> QED BY <2>1
<1>9. CASE Flows'[s][p + 1][1] = Len(logged) + 1 /\ Len(logged') = Len(logged) + 1
  BY <1>5, <1>6, <1>9
<1> QED BY <1>5, <1>7, <1>8, <1>9

LEMMA LogHole ==
  ASSUME WalInv, WalInv', CurrentRun', NoHoleInARun, NEW kind \in {"plain", "timed"}, LogCommand(kind)
  PROVE  NoHoleInARun'
<1> DEFINE n == Len(logged)
           e == [run |-> run, kind |-> kind]
<1>1. TypeOK /\ run >= 1 /\ TypeOK'
  BY DEF WalInv
<1>2. /\ n + 1 \in 1..MaxLog /\ n \in Nat /\ state = "up"
      /\ Extends(Flows', Flows, csIdx', n + 1) /\ Within(files, files')
      /\ csIdx' \in Segment
  BY <1>1, LogEffect DEF TypeOK
<1>3. logged' = Append(logged, e) /\ state' = state /\ run' = run
  BY DEF LogCommand
<1>4. logged \in Seq([run : 1..run, kind : {"plain", "timed"}])
  BY <1>1 DEF TypeOK
<1>5. /\ Len(logged') = n + 1 /\ (\A i \in 1..n : logged'[i] = logged[i]) /\ logged'[n + 1] = e
      /\ DOMAIN logged' = 1..n + 1 /\ DOMAIN logged = 1..n
  BY <1>3, <1>4
<1>6. \A s \in Segment : \A p \in 1..Len(Flows'[s]) :
        \/ p \in 1..Len(files[s]) \/ \E q \in 1..Len(buf) : Flows'[s][p] = buf[q]
        \/ Flows'[s][p][1] = n + 1
  <2> SUFFICES ASSUME NEW s \in Segment, NEW p \in 1..Len(Flows'[s])
               PROVE  \/ p \in 1..Len(files[s]) \/ \E q \in 1..Len(buf) : Flows'[s][p] = buf[q]
                      \/ Flows'[s][p][1] = n + 1
    OBVIOUS
  <2> DEFINE c == csIdx'
             m == Len(Flows[c])
             id == n + 1
  <2>1. Flows \in [Segment -> Seq(Unit)]
    BY <1>1, FlowType
  <2>2. id \in 1..MaxLog /\ Extends(Flows', Flows, c, id) /\ c \in Segment
    BY <1>2
  <2> HIDE DEF id, c
  <2>3. /\ Len(Flows'[c]) = m + 2 /\ m \in Nat
        /\ \A x \in 1..m : Flows'[c][x] = Flows[c][x]
        /\ Flows'[c][m + 1] = HeadOf(id) /\ Flows'[c][m + 2] = BodyOf(id)
    <3> HIDE DEF m
    <3>1. m = Len(Flows[c])
      BY DEF m
    <3>2. /\ Len(Flows'[c]) = Len(Flows[c]) + 2 /\ Len(Flows[c]) \in Nat
          /\ \A x \in 1..Len(Flows[c]) : Flows'[c][x] = Flows[c][x]
          /\ Flows'[c][Len(Flows[c]) + 1] = HeadOf(id) /\ Flows'[c][Len(Flows[c]) + 2] = BodyOf(id)
      BY <2>1, <2>2, ExtendsPointwise
    <3> QED BY <3>1, <3>2
  <2>4. \A t \in Segment : t # c => Flows'[t] = Flows[t]
    BY <2>2 DEF Extends
  <2>5. HeadOf(id)[1] = id /\ BodyOf(id)[1] = id
    BY DEF HeadOf, BodyOf
  <2>6. CASE p \in 1..Len(Flows[s]) /\ Flows'[s][p] = Flows[s][p]
    BY <2>6, <1>1, FlowUnits
  <2> HIDE DEF m
  <2>7. CASE s = c /\ (p = m + 1 \/ p = m + 2)
    BY <2>7, <2>3, <2>5 DEF id
  <2>8. CASE s = c /\ p \in 1..m
    BY <2>8, <2>3, <2>6 DEF m
  <2>9. CASE s # c
    BY <2>9, <2>4, <2>6
  <2>10. s = c => p \in 1..m \/ p = m + 1 \/ p = m + 2
    BY <2>3
  <2> QED BY <2>7, <2>8, <2>9, <2>10
<1> HIDE DEF e
<1>7. e.run = run
  BY DEF e
<1>8. \A j \in Nat : OnDisk(j)' => OnDisk(j) \/ logged'[j].run = run
  <2> TAKE j \in Nat
  <2> HAVE OnDisk(j)'
  <2>1. \A i \in 1..n : i \in 1..Len(logged') /\ logged'[i] = logged[i]
    BY <1>2, <1>5
  <2>2. logged'[n + 1].run = run /\ Len(logged') = n + 1 /\ Len(logged') \in Nat
    BY <1>2, <1>5, <1>7
  <2> QED BY <1>2, <1>3, <1>6, <2>1, <2>2, NewOnDisk
<1>9. \A i \in Nat : OnDisk(i) => OnDisk(i)'
  <2> SUFFICES ASSUME NEW i \in Nat, NEW s \in Segment, Complete(files[s], i)
               PROVE  Complete(files'[s], i)
    BY DEF OnDisk
  <2>1. Len(files[s]) \in Nat /\ Len(files'[s]) \in Nat
    BY <1>1 DEF TypeOK
  <2>2. PICK p \in 1..Len(files[s]) - 1 : files[s][p] = HeadOf(i) /\ files[s][p + 1] = BodyOf(i)
    BY DEF Complete
  <2>3. p \in 1..Len(files[s]) /\ p + 1 \in 1..Len(files[s]) /\ Len(files[s]) <= Len(files'[s])
    BY <2>1, <1>2 DEF Within
  <2>4. p \in 1..Len(files'[s]) - 1
    BY <2>1, <2>3
  <2>5. files'[s][p] = HeadOf(i) /\ files'[s][p + 1] = BodyOf(i)
    BY <1>2, <2>2, <2>3 DEF Within
  <2> QED BY <2>4, <2>5 DEF Complete
<1> SUFFICES ASSUME NEW i \in 1..n + 1, NEW j \in 1..n + 1,
                    i < j, logged'[i].run = logged'[j].run, OnDisk(j)'
             PROVE  OnDisk(i)'
  BY <1>5 DEF NoHoleInARun
<1>10. CASE logged'[j].run = run
  BY <1>2, <1>3, <1>5, <1>10 DEF CurrentRun
<1>11. CASE logged'[j].run # run
  <2>1. OnDisk(j) /\ j # n + 1 /\ j \in 1..n /\ i \in 1..n /\ i \in Nat
    BY <1>2, <1>5, <1>7, <1>8, <1>11
  <2>2. OnDisk(i)
    BY <2>1, <1>5 DEF NoHoleInARun
  <2> QED BY <2>1, <2>2, <1>9
<1> QED BY <1>10, <1>11

LEMMA FlushHole ==
  ASSUME WalInv, WalInv', CurrentRun', NoHoleInARun, state = "up", files' = sync, buf' = <<>>,
         UNCHANGED <<state, run, logged, restored>>
  PROVE  NoHoleInARun'
<1>1. TypeOK /\ csIdx' \in Segment
  BY DEF WalInv, TypeOK
<1>2. files' = Flows /\ Flows' = Flows /\ FlowFact
  BY <1>1, FlushEffect, FlowLaw
<1>3. \A s \in Segment : \A p \in 1..Len(Flows'[s]) :
        p \in 1..Len(files[s]) \/ \E q \in 1..Len(buf) : Flows'[s][p] = buf[q]
  BY <1>1, <1>2, FlowUnits
<1>4. Len(logged) \in Nat /\ DOMAIN logged = 1..Len(logged)
  BY <1>1, LoggedSeq, Zenon
<1>5. \A j \in Nat : OnDisk(j)' => OnDisk(j) \/ logged[j].run = run
  <2> TAKE j \in Nat
  <2> HAVE OnDisk(j)'
  <2>1. Within(files, files')
    BY <1>2, Zenon DEF FlowFact
  <2>3. Len(logged') = Len(logged) /\ Len(logged') # Len(logged) + 1
    BY <1>4, NotSuccessor, Zenon
  <2> QED BY <1>3, <1>4, <2>1, <2>3, NewOnDisk, Zenon
<1>6. \A i \in Nat : OnDisk(i) => OnDisk(i)'
  <2> SUFFICES ASSUME NEW i \in Nat, NEW s \in Segment, Complete(files[s], i)
               PROVE  Complete(files'[s], i)
    BY DEF OnDisk
  <2>1. files[s] \in Seq(Unit) /\ Flows[s] \in Seq(Unit)
    BY <1>1, <1>2 DEF TypeOK, FlowFact
  <2>2. PICK p \in 1..Len(files[s]) - 1 : files[s][p] = HeadOf(i) /\ files[s][p + 1] = BodyOf(i)
    BY DEF Complete
  <2>3. Len(files[s]) \in Nat /\ Len(Flows[s]) \in Nat /\ Len(files[s]) <= Len(Flows[s])
    BY <2>1, <1>2 DEF FlowFact, Within
  <2>4. p \in 1..Len(files[s]) /\ p + 1 \in 1..Len(files[s]) /\ p \in 1..Len(Flows[s]) - 1
    BY <2>3
  <2>5. Flows[s][p] = HeadOf(i) /\ Flows[s][p + 1] = BodyOf(i)
    BY <1>2, <2>2, <2>4 DEF FlowFact, Within
  <2> QED BY <1>2, <2>4, <2>5 DEF Complete
<1> SUFFICES ASSUME NEW i \in 1..Len(logged), NEW j \in 1..Len(logged),
                    i < j, logged[i].run = logged[j].run, OnDisk(j)'
             PROVE  OnDisk(i)'
  BY <1>4 DEF NoHoleInARun
<1>7. CASE logged[j].run = run
  BY <1>7 DEF CurrentRun
<1>8. CASE logged[j].run # run
  <2>1. OnDisk(j) /\ i \in Nat
    BY <1>4, <1>5, <1>8
  <2>2. OnDisk(i)
    BY <2>1, <1>4 DEF NoHoleInARun
  <2> QED BY <2>1, <2>2, <1>6
<1> QED BY <1>7, <1>8

\* What a run lost is the end of what it logged: the buffer spills over in
\* order, and a rotation flushes it before the next segment is opened.  No
\* restart, of any number, makes a hole in an earlier run.
THEOREM LossesAreSuffixes == Spec => []NoHoleInARun
<1>1. Init => NoHoleInARun
  BY DEF Init, NoHoleInARun
<1>2. WalInv /\ WalInv' /\ CurrentRun' /\ NoHoleInARun /\ [Next]_vars => NoHoleInARun'
  <2> SUFFICES ASSUME WalInv, WalInv', CurrentRun', NoHoleInARun, [Next]_vars
               PROVE  NoHoleInARun'
    OBVIOUS
  <2>1. CASE \E kind \in {"plain", "timed"} : LogCommand(kind)
    BY <2>1, LogHole
  <2>2. CASE periodicSyncBuffer \/ periodicRotateSegment
    BY <2>2, FlushHole DEF periodicSyncBuffer, periodicRotateSegment
  <2>3. CASE UNCHANGED <<files, logged>>
    BY <2>3 DEF NoHoleInARun, OnDisk
  <2>4. Crash \/ TeardownWAL \/ Restart \/ UNCHANGED vars => UNCHANGED <<files, logged>>
    BY DEF Crash, TeardownWAL, End, Restart, vars
  <2> QED BY <2>1, <2>2, <2>3, <2>4 DEF Next
<1>3. WalInv => CurrentRun
  BY InvCurrentRun
<1> QED BY <1>1, <1>2, <1>3, LogSound, PTL DEF Spec

=============================================================================
