--------------------------- MODULE DataTypesProofs --------------------------
(***************************************************************************)
(* What DataTypes promises, proved for every value of its constants.       *)
(*                                                                         *)
(* The invariant, DataInv, says of every key what its type needs: a filter *)
(* holds the bits of every item that it was given (IsFilter); the tree of  *)
(* a sorted set is the one that goes with its map, and no score is above   *)
(* infinity, unless a NaN was stored (AnySets); a sketch is what is left,  *)
(* modulo 2^64, of one whose rows add up to the true counts and whose      *)
(* cells have at least the true counts that fall into them (IsSketch); the *)
(* fields of a hash have the values known exactly, and what a scan owes    *)
(* lies ahead of its cursor (IsHash); a list and its flat deque hold the   *)
(* same elements, no more than the bound (IsList, on what DequeProofs says *)
(* of the operations). Every command is shown to be an Outcome: it ends    *)
(* the process, or changes one key, into one of these, and an error        *)
(* changes nothing that DataInv speaks of.                                 *)
(*                                                                         *)
(* The commands fold over their arguments. FoldLeft is shown to go step by *)
(* step (FoldLeftLaw), so that what each step keeps the fold keeps; the    *)
(* sums over the cells of a row are taken apart one element at a time, a   *)
(* merge is an exchange of the order of two sums (SumOfTotals), and sums   *)
(* of rests have the rest of the sum (SumWraps). What the sorted sets      *)
(* answer rests on their list of items: it is increasing, so an item's     *)
(* position is the number of items before it (Listed).                     *)
(***************************************************************************)
EXTENDS DataTypes, DequeProofs, FiniteSetTheorems, TLAPS

-----------------------------------------------------------------------------
(* What FoldLeft makes of a sequence, step by step *)

MaxOf(n) == [s \in SUBSET (1..n) |-> Max(s)]

LEMMA MaxChooses ==
  ASSUME NEW n \in Nat
  PROVE  /\ Chooser(MaxOf(n), 1..n)
         /\ \A i \in 1..n : MaxOf(n)[1..i] = i /\ (1..i) \ {i} = 1..(i - 1)
<1>1. ASSUME NEW s \in SUBSET (1..n), s # {}
      PROVE  Max(s) \in s
  <2> DEFINE T == {n - x : x \in s}
  <2>1. T \subseteq Nat /\ T # {} /\ \A x \in s : x \in Int /\ n - x \in T
    <3>1. \A x \in s : x \in Int /\ n - x \in Nat
      BY <1>1
    <3>2. \A x \in s : n - x \in T
      OBVIOUS
    <3>3. T # {}
      BY <1>1
    <3> QED BY <3>1, <3>2, <3>3
  <2>2. PICK m \in T : \A x \in T : m <= x
    <3> HIDE DEF T
    <3> QED BY <2>1, LeastNat
  <2>3. PICK y \in s : m = n - y
    BY <2>2
  <2>4. ASSUME NEW x \in s PROVE y >= x
    <3>1. n - y <= n - x
      BY <2>1, <2>2, <2>3
    <3>2. x \in Int
      BY <1>1
    <3>3. y \in Int
      BY <1>1, <2>3
    <3> QED BY ONLY <3>1, <3>2, <3>3, n \in Nat
  <2> QED BY <2>4 DEF Max
<1>2. ASSUME NEW i \in 1..n
      PROVE  Max(1..i) = i
  <2>1. i \in 1..i /\ \A x \in 1..i : i >= x
    OBVIOUS
  <2>2. \A y \in 1..i : (\A x \in 1..i : y >= x) => y = i
    OBVIOUS
  <2> QED BY <2>1, <2>2 DEF Max
<1>3. \A i \in 1..n : (1..i) \in SUBSET (1..n) /\ (1..i) \ {i} = 1..(i - 1)
  OBVIOUS
<1> QED BY <1>1, <1>2, <1>3 DEF MaxOf, Chooser

\* it takes the last position from a set, and steps on from the rest.
LeftStep(it, s, v, step) == it[s] = IF s = {} THEN v ELSE step[<<Max(s), it[s \ {Max(s)}]>>]
LeftSteps(it, n, v, step) == \A s \in SUBSET (1..n) : LeftStep(it, s, v, step)

\* The function that FoldLeft defines exists.
LEMMA FoldLeftExists ==
  ASSUME NEW n \in Nat, NEW V, NEW v \in V, NEW step \in [(1..n) \X V -> V]
  PROVE  \E it \in [SUBSET (1..n) -> V] : LeftSteps(it, n, v, step)
<1>1. Chooser(MaxOf(n), 1..n) /\ IsFiniteSet(1..n)
  BY MaxChooses, FS_Interval
<1>2. PICK it \in [SUBSET (1..n) -> V] :
        \A s \in SUBSET (1..n) : FoldStep(it, s, v, MaxOf(n), step)
  BY <1>1, FoldExists
<1>3. \A s \in SUBSET (1..n) : MaxOf(n)[s] = Max(s)
  BY DEF MaxOf
<1>4. ASSUME NEW s \in SUBSET (1..n) PROVE LeftStep(it, s, v, step)
  <2>1. FoldStep(it, s, v, MaxOf(n), step) /\ MaxOf(n)[s] = Max(s)
    BY <1>2, <1>3
  <2> QED BY ONLY <2>1 DEF FoldStep, LeftStep
<1> QED BY <1>4 DEF LeftSteps

\* What it does to the sets it has values of V for.
LeftFold(f, n, V, v, step) ==
  \A s \in SUBSET (1..n) :
    (s = {} \/ f[s \ {Max(s)}] \in V) => LeftStep(f, s, v, step)

\* r is the last of the values that step leads to.
FoldsTo(r, n, V, v, step) == \E g \in [0..n -> V] : Follows(g, n, v, step) /\ r = g[n]

LEMMA FoldLeftLaw ==
  ASSUME NEW n \in Nat, NEW V, NEW v \in V, NEW step \in [(1..n) \X V -> V],
         NEW f, LeftFold(f, n, V, v, step)
  PROVE  FoldsTo(f[1..n], n, V, v, step) /\ f[1..n] \in V
<1>1. \A s \in SUBSET (1..n) : MaxOf(n)[s] = Max(s)
  BY DEF MaxOf
<1>2. Folds(f, 1..n, V, v, MaxOf(n), step)
  BY <1>1 DEF LeftFold, LeftStep, Folds, FoldStep
<1>3. \A s \in SUBSET (1..n) : f[s] \in V /\ FoldStep(f, s, v, MaxOf(n), step)
  <2>1. Chooser(MaxOf(n), 1..n) /\ IsFiniteSet(1..n)
    BY MaxChooses, FS_Interval
  <2> QED BY <1>2, <2>1, FoldTotal
<1> DEFINE g == [i \in 0..n |-> f[1..i]]
<1>4. g \in [0..n -> V] /\ f[1..n] = g[n]
  <2>1. \A i \in 0..n : (1..i) \in SUBSET (1..n)
    OBVIOUS
  <2> QED BY <1>3, <2>1
<1>5. g[0] = v
  <2>1. (1..0) = {} /\ {} \in SUBSET (1..n)
    OBVIOUS
  <2>2. f[{}] = v
    BY <1>3, <2>1 DEF FoldStep
  <2>3. g[0] = f[1..0]
    OBVIOUS
  <2> QED BY <2>1, <2>2, <2>3
<1>6. ASSUME NEW i \in 1..n PROVE g[i] = step[<<i, g[i - 1]>>]
  <2>1. (1..i) \in SUBSET (1..n) /\ (1..i) # {} /\ i - 1 \in 0..n
    OBVIOUS
  <2>2. f[1..i] = step[<<i, f[1..(i - 1)]>>]
    <3>1. FoldStep(f, 1..i, v, MaxOf(n), step)
      BY <1>3, <2>1
    <3>2. MaxOf(n)[1..i] = i /\ (1..i) \ {i} = 1..(i - 1)
      BY MaxChooses
    <3> QED BY ONLY <2>1, <3>1, <3>2 DEF FoldStep
  <2> QED BY <2>1, <2>2
<1>7. Follows(g, n, v, step)
  BY <1>5, <1>6 DEF Follows
<1> HIDE DEF g
<1>8. n \in 0..n
  OBVIOUS
<1> QED BY <1>4, <1>7, <1>8 DEF FoldsTo

-----------------------------------------------------------------------------
(* The inductive invariant, one part for each type *)

\* The items that a filter takes.
NonEmpty == Item \ {""}

\* b is a filter that was given the items of added, and no others.
IsFilter(b, added) ==
  /\ b = [bits |-> b.bits, seeds |-> b.seeds, bitset |-> b.bitset, cnt |-> b.cnt]
  /\ b.bits \in Nat \ {0}
  /\ \A i \in DOMAIN b.seeds : b.seeds[i] \in Seed
  /\ b.bitset \subseteq 0..(b.bits - 1)
  /\ added \subseteq NonEmpty
  /\ \A item \in added : Range(updateIndexes(b, item)) \subseteq b.bitset
  /\ b.cnt \in Nat /\ b.cnt <= Cardinality(added)

FilterCell(o, g) == o.type = "bf" => IsFilter(o.val, g)

\* A sorted set is the tree that goes with a map of finitely many members.
Scores == UNION {[S -> Int] : S \in {T \in SUBSET Member : IsFiniteSet(T)}}

\* The scores of the evaluators are at most infinite, those of the commands
\* are int64.
Capped(f) == \A m \in DOMAIN f : f[m] <= Inf
CappedScores == {f \in Scores : Capped(f)}
IntScores == {f \in Scores : \A m \in DOMAIN f : f[m] <= MaxScore}

TreeOf(f) == {<<f[m], m>> : m \in DOMAIN f}
ZSetOf(f) == [tree |-> TreeOf(f), memberMap |-> f, nan |-> FALSE]
CappedSets == {ZSetOf(f) : f \in CappedScores}

\* What a NaN went into: any tree, and a map that may hold NaN.
Floats == {x \in Int : x <= Inf} \cup {NaN}
FloatMaps == UNION {[S -> Floats] : S \in {T \in SUBSET Member : IsFiniteSet(T)}}
NaNSets == [tree : SUBSET (Floats \X Member), memberMap : FloatMaps, nan : {TRUE}]

AnySets == CappedSets \cup NaNSets

TreeCell(o) ==
  /\ o.type = "zset" => o.val \in AnySets
  /\ o.type = "sortedset" => o.val \in IntScores

\* A sketch that does not wrap around: every cell of an item has at least its
\* true count, every row adds up to the count of the sketch, and that is the
\* sum of the true counts.
IsExact(c, counts) ==
  /\ c = [depth |-> c.depth, width |-> c.width, count |-> c.count, matrix |-> c.matrix]
  /\ c.depth \in Nat \ {0} /\ c.width \in Nat \ {0} /\ c.count \in Nat
  /\ c.matrix \in [0..(c.depth - 1) -> [0..(c.width - 1) -> Nat]]
  /\ counts \in [Item -> Nat]
  /\ \A row \in 0..(c.depth - 1), item \in Item :
       c.matrix[row][matrixPositions(c, item)[row]] >= counts[item]
  /\ \A row \in 0..(c.depth - 1) : SumFunction(c.matrix[row]) = c.count
  /\ SumFunction(counts) = c.count

\* What is left of it in unsigned numbers.
Modular(u) ==
  [depth |-> u.depth, width |-> u.width, count |-> u.count % UintMod,
   matrix |-> [row \in 0..(u.depth - 1) |-> [col \in 0..(u.width - 1) |-> u.matrix[row][col] % UintMod]]]

IsSketch(c, counts) == \E u : IsExact(u, counts) /\ c = Modular(u)

SketchCell(o, g) == o.type = "cms" => IsSketch(o.val, g)

FieldMap(h) == DOMAIN h \subseteq Field /\ IsFiniteSet(DOMAIN h) /\ h = [x \in DOMAIN h |-> h[x]]

\* The number of fields that a scan meets before f.
FieldRank(h, f) == Cardinality(Lower(f, DOMAIN h, IntOrder))

\* What a scan has to return and has not returned is ahead of its cursor.
ScanState(h, scan) ==
  /\ scan = [cursor |-> scan.cursor, match |-> scan.match, must |-> scan.must,
             seen |-> scan.seen, clean |-> scan.clean]
  /\ scan.cursor \in Nat /\ scan.clean \in BOOLEAN
  /\ scan.must \subseteq DOMAIN h \cap scan.match
  /\ scan.clean => \A f \in scan.must \ scan.seen :
                     scan.cursor # 0 /\ FieldRank(h, f) >= scan.cursor

\* The exact values that are known are values that the fields have.
Known(h, exact) ==
  /\ exact = [x \in DOMAIN exact |-> exact[x]] /\ DOMAIN exact \subseteq DOMAIN h
  /\ \A x \in DOMAIN exact : exact[x] = h[x] /\ exact[x] \in Int

IsHash(h, g) ==
  /\ FieldMap(h)
  /\ g = [exact |-> g.exact, scan |-> g.scan] /\ Known(h, g.exact)
  /\ ScanState(h, g.scan)

HashCell(o, g) == o.type = "ssmap" => IsHash(o.val, g)

\* q and the flat deque g hold the same n elements.
Agree(q, g, n) == \E xs : HoldsElems(q, xs) /\ IsBasic(g, xs) /\ Len(xs) = n

\* A list and the flat deque that was told the same.
IsList(q, g) == \E n \in 0..MaxList : Agree(q, g, n)

ListCell(o, g) == o.type = "deque" => IsList(o.val, g)

Shape(o, g) ==
  /\ o = Obj(o.type, o.val)
  /\ o.type \in Types \cup {"none"}
  /\ o.type = "none" => o = NoObj /\ g = Nil

Cell(o, g) ==
  /\ Shape(o, g) /\ FilterCell(o, g) /\ TreeCell(o) /\ SketchCell(o, g) /\ HashCell(o, g)
  /\ ListCell(o, g)

DataInv ==
  /\ store = [k \in Key |-> store[k]] /\ ghost = [k \in Key |-> ghost[k]]
  /\ reply \in {OK, Err, Panicked}
  /\ \A k \in Key : Cell(store[k], ghost[k])

\* A step that puts o and g in the place of k.
Put(k, o, g) == store' = [store EXCEPT ![k] = o] /\ ghost' = [ghost EXCEPT ![k] = g]

\* What a command on k may do: end the process, or change k and nothing else.
Outcome(k) ==
  \/ Crash
  \/ \E o, g :
       /\ Put(k, o, g) /\ Cell(o, g)
       /\ \/ reply' = OK
          \/ reply' = Err /\ (o = store[k] \/ Residue(store[k], o))

\* What holds after an Outcome.
Safe ==
  /\ DataInv'
  /\ reply' = Err => \A j \in Key : store'[j] = store[j] \/ Residue(store[j], store'[j])

LEMMA NoObjCell == Cell(NoObj, Nil)
BY DEF Cell, NoObj, Obj, Shape, FilterCell, TreeCell, SketchCell, HashCell, ListCell

LEMMA CrashSafe ==
  ASSUME Crash
  PROVE  Safe
<1>1. \A j \in Key : store'[j] = NoObj /\ ghost'[j] = Nil
  BY DEF Crash
<1>2. (\A j \in Key : Cell(store[j], ghost[j]))'
  BY <1>1, NoObjCell
<1>3. (store = [j \in Key |-> store[j]] /\ ghost = [j \in Key |-> ghost[j]])'
  BY DEF Crash
<1>4. reply' = Panicked /\ Panicked # Err
  BY DEF Crash, Panicked, Err
<1> QED BY <1>2, <1>3, <1>4 DEF DataInv, Safe

LEMMA PutSafe ==
  ASSUME DataInv, NEW k \in Key, NEW o, NEW g, Put(k, o, g), Cell(o, g),
         \/ reply' = OK
         \/ reply' = Err /\ (o = store[k] \/ Residue(store[k], o))
  PROVE  Safe
<1>2. /\ store = [j \in Key |-> store[j]] /\ ghost = [j \in Key |-> ghost[j]]
      /\ \A j \in Key : Cell(store[j], ghost[j])
  BY DEF DataInv
<1>3. /\ store' = [j \in Key |-> IF j = k THEN o ELSE store[j]]
      /\ ghost' = [j \in Key |-> IF j = k THEN g ELSE ghost[j]]
  BY <1>2 DEF Put
<1>4. \A j \in Key : store'[j] = (IF j = k THEN o ELSE store[j]) /\ ghost'[j] = (IF j = k THEN g ELSE ghost[j])
  BY <1>3
<1>5. \A j \in Key : Cell(store'[j], ghost'[j])
  BY <1>2, <1>4
<1>6. store' = [j \in Key |-> store'[j]] /\ ghost' = [j \in Key |-> ghost'[j]]
  BY <1>3
<1>7. reply' \in {OK, Err, Panicked}
  OBVIOUS
<1>8. (\A j \in Key : Cell(store[j], ghost[j]))'
  BY <1>5
<1>9. DataInv'
  BY <1>6, <1>7, <1>8 DEF DataInv
<1>10. OK # Err
  BY DEF OK, Err
<1> QED BY <1>4, <1>9, <1>10 DEF Safe

LEMMA OutcomeSafe ==
  ASSUME DataInv, NEW k \in Key, Outcome(k)
  PROVE  Safe
BY CrashSafe, PutSafe DEF Outcome

LEMMA CrashOutcome ==
  ASSUME NEW k \in Key, Crash
  PROVE  Outcome(k)
BY DEF Outcome

LEMMA AnswerOutcome ==
  ASSUME DataInv, NEW k \in Key, NEW r \in {OK, Err}, Answer(r)
  PROVE  Outcome(k)
<1>1. /\ store = [j \in Key |-> store[j]] /\ ghost = [j \in Key |-> ghost[j]]
      /\ Cell(store[k], ghost[k])
  BY DEF DataInv
<1>2. store = [store EXCEPT ![k] = store[k]] /\ ghost = [ghost EXCEPT ![k] = ghost[k]]
  BY <1>1
<1>3. Put(k, store[k], ghost[k])
  BY <1>2 DEF Put, Answer
<1>4. reply' = OK \/ reply' = Err
  BY DEF Answer
<1> QED BY <1>1, <1>3, <1>4 DEF Outcome

LEMMA WriteOutcome ==
  ASSUME NEW k \in Key, NEW o, NEW g, Write(k, o, g), Cell(o, g)
  PROVE  Outcome(k)
<1>1. Put(k, o, g) /\ reply' = OK
  BY DEF Write, Put
<1> QED BY <1>1 DEF Outcome

-----------------------------------------------------------------------------
(* Objects *)

LEMMA ObjFields ==
  ASSUME NEW t, NEW v
  PROVE  Obj(t, v).type = t /\ Obj(t, v).val = v /\ Obj(t, v) = Obj(Obj(t, v).type, Obj(t, v).val)
BY DEF Obj

\* An object has only its own type's part of the invariant to meet.
LEMMA CellOf ==
  ASSUME NEW t \in Types, NEW v, NEW g,
         t = "bf" => IsFilter(v, g),
         t = "zset" => v \in AnySets,
         t = "sortedset" => v \in IntScores,
         t = "cms" => IsSketch(v, g),
         t = "ssmap" => IsHash(v, g),
         t = "deque" => IsList(v, g)
  PROVE  Cell(Obj(t, v), g)
<1>1. t # "none"
  BY DEF Types, PairTypes, Strings
<1>2. Shape(Obj(t, v), g)
  BY <1>1, ObjFields DEF Shape
<1>3. /\ FilterCell(Obj(t, v), g) /\ TreeCell(Obj(t, v)) /\ SketchCell(Obj(t, v), g) /\ HashCell(Obj(t, v), g)
      /\ ListCell(Obj(t, v), g)
  BY ObjFields DEF FilterCell, TreeCell, SketchCell, HashCell, ListCell
<1> QED BY <1>2, <1>3 DEF Cell

LEMMA FilterObj ==
  ASSUME NEW b, NEW added, IsFilter(b, added)
  PROVE  Cell(Obj("bf", b), added)
<1>1. "bf" \in Types
  BY DEF Types, PairTypes
<1> QED BY <1>1, CellOf

-----------------------------------------------------------------------------
(* Bloom filters *)

\* The indexes of an item are bits of the filter.
LEMMA IndexesInBitset ==
  ASSUME NEW b, NEW item \in Item, b.bits \in Nat \ {0}, \A i \in DOMAIN b.seeds : b.seeds[i] \in Seed
  PROVE  Range(updateIndexes(b, item)) \subseteq 0..(b.bits - 1)
<1>1. ASSUME NEW i \in DOMAIN b.seeds
      PROVE  SeedHash[b.seeds[i]][item] % b.bits \in 0..(b.bits - 1)
  <2>1. SeedHash[b.seeds[i]][item] \in Nat
    BY SketchAssumption
  <2> DEFINE h == SeedHash[b.seeds[i]][item]
  <2> HIDE DEF h
  <2>2. h \in Nat
    BY <2>1 DEF h
  <2>3. h % b.bits \in 0..(b.bits - 1)
    BY <2>2
  <2> QED BY <2>3 DEF h
<1> QED BY <1>1 DEF updateIndexes, Range

\* An addition keeps the bits of the items added before, and counts only an
\* item that was not among them.
LEMMA AddKeepsFilter ==
  ASSUME NEW b, NEW added, IsFilter(b, added), NEW item \in NonEmpty
  PROVE  IsFilter(add(b, item), added \cup {item})
<1> DEFINE idx == Range(updateIndexes(b, item))
           c == add(b, item)
<1>0. item \in Item /\ added \cup {item} \subseteq Item
  BY DEF NonEmpty, IsFilter
<1>1. /\ b = [bits |-> b.bits, seeds |-> b.seeds, bitset |-> b.bitset, cnt |-> b.cnt]
      /\ b.bits \in Nat \ {0} /\ (\A i \in DOMAIN b.seeds : b.seeds[i] \in Seed)
      /\ b.bitset \subseteq 0..(b.bits - 1) /\ added \subseteq NonEmpty
      /\ (\A x \in added : Range(updateIndexes(b, x)) \subseteq b.bitset)
      /\ b.cnt \in Nat /\ b.cnt <= Cardinality(added)
  BY DEF IsFilter
<1>2. idx \subseteq 0..(b.bits - 1)
  BY <1>0, <1>1, IndexesInBitset
<1>3. /\ c.bits = b.bits /\ c.seeds = b.seeds /\ c.bitset = b.bitset \cup idx
      /\ c.cnt = IF idx \subseteq b.bitset THEN b.cnt ELSE b.cnt + 1
      /\ c = [bits |-> c.bits, seeds |-> c.seeds, bitset |-> c.bitset, cnt |-> c.cnt]
  <2> DEFINE n == IF idx \subseteq b.bitset THEN b.cnt ELSE b.cnt + 1
             bs == b.bitset \cup idx
  <2>1. c = [b EXCEPT !.bitset = bs, !.cnt = n]
    BY DEF add
  <2> HIDE DEF n, idx, bs, c
  <2>2. c.bits = b.bits /\ c.seeds = b.seeds /\ c.bitset = bs /\ c.cnt = n
    BY <1>1, <2>1
  <2>3. c = [bits |-> c.bits, seeds |-> c.seeds, bitset |-> c.bitset, cnt |-> c.cnt]
    BY <1>1, <2>1
  <2> QED BY <2>2, <2>3 DEF n, bs
<1>4. \A x \in Item : updateIndexes(c, x) = updateIndexes(b, x)
  BY <1>3 DEF updateIndexes
<1>5. IsFiniteSet(added) /\ Cardinality(added) \in Nat
  BY <1>1, SketchAssumption, FS_Subset, FS_CardinalityType DEF NonEmpty
<1>6. Cardinality(added \cup {item}) = IF item \in added THEN Cardinality(added) ELSE Cardinality(added) + 1
  BY <1>5, FS_AddElement
<1>7. item \in added => idx \subseteq b.bitset
  BY <1>1
<1> HIDE DEF idx, c
<1>8. c.cnt \in Nat /\ c.cnt <= Cardinality(added \cup {item})
  <2>1. CASE item \in added
    BY <1>1, <1>3, <1>5, <1>6, <1>7, <2>1
  <2>2. CASE item \notin added
    <3>1. Cardinality(added \cup {item}) = Cardinality(added) + 1
      BY <1>6, <2>2
    <3>2. c.cnt \in Nat /\ c.cnt <= b.cnt + 1
      BY <1>1, <1>3
    <3>3. b.cnt \in Nat /\ b.cnt <= Cardinality(added) /\ Cardinality(added) \in Nat
      BY <1>1, <1>5
    <3> QED BY <3>1, <3>2, <3>3
  <2> QED BY <2>1, <2>2
<1>9. \A x \in added \cup {item} : Range(updateIndexes(c, x)) \subseteq c.bitset
  BY <1>0, <1>1, <1>3, <1>4 DEF idx
<1>10. c.bitset \subseteq 0..(c.bits - 1)
  BY <1>1, <1>2, <1>3
<1>11. IsFilter(c, added \cup {item})
  BY <1>1, <1>3, <1>8, <1>9, <1>10 DEF IsFilter
<1> QED BY <1>11 DEF c

LEMMA NewFilter ==
  ASSUME NEW dim, dim.bits \in Nat \ {0}, dim.k \in Nat, NEW seeds \in SeedsFor(dim)
  PROVE  IsFilter(NewBloomFilter(dim, seeds), {})
<1>1. \A i \in DOMAIN seeds : seeds[i] \in Seed
  BY DEF SeedsFor
<1>2. Cardinality({}) = 0
  BY FS_EmptySet
<1> QED BY <1>1, <1>2 DEF NewBloomFilter, IsFilter

LEMMA BloomDims ==
  /\ BloomDim[1] \in Range(BloomDim) /\ BloomDim[1].bits # 0
  /\ \A dim \in Range(BloomDim) : dim.bits \in Nat /\ dim.k \in Nat
<1> DEFINE D == [k : Nat, bits : Nat]
<1>1. BloomDim \in Seq(D) /\ BloomDim # <<>> /\ BloomDim[1].bits > 0
  BY SketchAssumption
<1>2. 1 \in DOMAIN BloomDim /\ \A i \in DOMAIN BloomDim : BloomDim[i] \in D
  <2> HIDE DEF D
  <2> QED BY <1>1
<1>3. Range(BloomDim) \subseteq D /\ BloomDim[1] \in Range(BloomDim)
  BY <1>2 DEF Range
<1>4. \A dim \in D : dim.bits \in Nat /\ dim.k \in Nat
  OBVIOUS
<1>5. BloomDim[1].bits # 0
  BY <1>1, <1>3, <1>4
<1> QED BY <1>3, <1>4, <1>5

LEMMA ReserveOutcome ==
  ASSUME DataInv, NEW k \in Key, NEW dim \in Range(BloomDim), NEW seeds \in SeedsFor(dim),
         BFRESERVE(k, dim, seeds)
  PROVE  Outcome(k)
<1>1. CASE (dim.bits = 0 \/ Exists(k)) /\ Answer(Err)
  BY <1>1, AnswerOutcome
<1>2. CASE dim.bits > 0 /\ ~Exists(k) /\ PutBF(k, NewBloomFilter(dim, seeds), {})
  <2>1. dim.bits \in Nat \ {0} /\ dim.k \in Nat
    BY <1>2, BloomDims
  <2>2. Cell(Obj("bf", NewBloomFilter(dim, seeds)), {})
    BY <2>1, NewFilter, FilterObj
  <2> QED BY <1>2, <2>2, WriteOutcome DEF PutBF
<1> QED BY <1>1, <1>2 DEF BFRESERVE

\* The filter BF.ADD adds to.
LEMMA AddedTo ==
  ASSUME DataInv, NEW k \in Key, ~WrongType(k, "bf"), NEW seeds \in SeedsFor(BloomDim[1])
  PROVE  IsFilter(IF Exists(k) THEN Val(k) ELSE NewBloomFilter(BloomDim[1], seeds), GhostOr(k, {}))
<1>1. CASE Exists(k)
  <2>1. store[k].type = "bf" /\ Cell(store[k], ghost[k])
    BY <1>1 DEF WrongType, DataInv
  <2> QED BY <1>1, <2>1 DEF Cell, FilterCell, Val, GhostOr
<1>2. CASE ~Exists(k)
  <2>1. BloomDim[1].bits \in Nat \ {0} /\ BloomDim[1].k \in Nat
    BY BloomDims
  <2>2. IsFilter(NewBloomFilter(BloomDim[1], seeds), {})
    BY <2>1, NewFilter
  <2> QED BY <1>2, <2>2 DEF GhostOr
<1> QED BY <1>1, <1>2

\* An empty value is refused when the filter is in the store: a new one is
\* left behind.
LEMMA BFAddOutcome ==
  ASSUME DataInv, NEW k \in Key, NEW item \in Item \cup {""}, NEW seeds \in SeedsFor(BloomDim[1]),
         BFADD(k, item, seeds)
  PROVE  Outcome(k)
<1> DEFINE b == IF Exists(k) THEN Val(k) ELSE NewBloomFilter(BloomDim[1], seeds)
           added == GhostOr(k, {})
<1>1. \/ WrongType(k, "bf") /\ Answer(Err)
      \/ /\ ~WrongType(k, "bf") /\ item = ""
         /\ store' = [store EXCEPT ![k] = Obj("bf", b)]
         /\ ghost' = [ghost EXCEPT ![k] = added]
         /\ reply' = Err
      \/ ~WrongType(k, "bf") /\ item # "" /\ PutBF(k, add(b, item), added \cup {item})
  BY DEF BFADD
<1>2. ~WrongType(k, "bf") => IsFilter(b, added)
  BY AddedTo
<1>3. ~WrongType(k, "bf") => Obj("bf", b) = store[k] \/ Residue(store[k], Obj("bf", b))
  <2>1. CASE Exists(k) /\ ~WrongType(k, "bf")
    <3>1. store[k].type = "bf" /\ store[k] = Obj(store[k].type, store[k].val)
      BY <2>1 DEF WrongType, DataInv, Cell, Shape
    <3> QED BY <2>1, <3>1 DEF Val
  <2>2. CASE ~Exists(k)
    <3>1. store[k] = NoObj
      BY <2>2 DEF Exists, DataInv, Cell, Shape
    <3>2. Obj("bf", b).type = "bf" /\ Obj("bf", b).val.bitset = {}
      BY <2>2 DEF Obj, NewBloomFilter
    <3> HIDE DEF b
    <3> QED BY <3>1, <3>2 DEF Residue
  <2> QED BY <2>1, <2>2
<1> HIDE DEF b, added
<1>4. CASE WrongType(k, "bf") /\ Answer(Err)
  BY <1>4, AnswerOutcome
<1>5. CASE /\ ~WrongType(k, "bf") /\ item = ""
           /\ store' = [store EXCEPT ![k] = Obj("bf", b)]
           /\ ghost' = [ghost EXCEPT ![k] = added]
           /\ reply' = Err
  <2>1. Put(k, Obj("bf", b), added) /\ Cell(Obj("bf", b), added)
    BY <1>2, <1>5, FilterObj DEF Put
  <2> QED BY <1>3, <1>5, <2>1 DEF Outcome
<1>6. CASE ~WrongType(k, "bf") /\ item # "" /\ PutBF(k, add(b, item), added \cup {item})
  <2>1. Cell(Obj("bf", add(b, item)), added \cup {item})
    BY <1>2, <1>6, AddKeepsFilter, FilterObj DEF NonEmpty
  <2> QED BY <1>6, <2>1, WriteOutcome DEF PutBF
<1> QED BY <1>1, <1>4, <1>5, <1>6

-----------------------------------------------------------------------------
(* The order of the items of a sorted set *)

Item2 == Int \X Int

LessRel == {p \in Item2 \X Item2 : Less(p[1], p[2])}

LEMMA LessOrders ==
  ASSUME NEW tree \in SUBSET Item2
  PROVE  Orders(LessRel, tree)
<1>1. \A a, b \in Item2 : <<a, b>> \in LessRel <=> Less(a, b)
  BY DEF LessRel
<1>2. \A a \in Item2 : ~Less(a, a)
  BY DEF Less, Item2
<1>3. \A a, b \in Item2 : a # b => Less(a, b) \/ Less(b, a)
  BY DEF Less, Item2
<1>4. \A a, b, c \in Item2 : Less(a, b) /\ Less(b, c) => Less(a, c)
  BY DEF Less, Item2
<1> HIDE DEF LessRel
<1> QED BY <1>1, <1>2, <1>3, <1>4 DEF Orders

\* Ascend visits every item once, in its order.
LEMMA AscendSorts ==
  ASSUME NEW tree \in SUBSET Item2, IsFiniteSet(tree)
  PROVE  LET n == Cardinality(tree)
             s == Ascend(tree)
         IN /\ s \in [1..n -> tree] /\ n \in Nat
            /\ \A i, j \in 1..n : i < j => Less(s[i], s[j])
            /\ \A i, j \in 1..n : s[i] = s[j] => i = j
            /\ \A x \in tree : \E i \in 1..n : s[i] = x
<1> DEFINE n == Cardinality(tree)
           s == Ascend(tree)
           Up(t) == \A i, j \in 1..n : i < j => Less(t[i], t[j])
<1>1. \A a, b \in Item2 : <<a, b>> \in LessRel <=> Less(a, b)
  BY DEF LessRel
<1>2. \A t \in [1..n -> tree] : Increasing(t, n, LessRel) <=> Up(t)
  <2>1. \A t \in [1..n -> tree], i \in 1..n : t[i] \in Item2
    OBVIOUS
  <2> HIDE DEF n
  <2> QED BY <1>1, <2>1 DEF Increasing
<1>3. \E t \in [1..n -> tree] : Up(t)
  <2>1. \E t \in [1..n -> tree] : Increasing(t, n, LessRel)
    BY LessOrders, IncreasingExists
  <2> HIDE DEF n, Up
  <2> QED BY <1>2, <2>1
<1>4. s = CHOOSE t \in [1..n -> tree] : Up(t)
  BY DEF Ascend
<1>5. s \in [1..n -> tree] /\ Up(s)
  <2> HIDE DEF n, Up, s
  <2> QED BY <1>3, <1>4
<1>6. Increasing(s, n, LessRel)
  <2> HIDE DEF n, Up, s
  <2> QED BY <1>2, <1>5
<1>7. n \in Nat
  BY FS_CardinalityType
<1>8. /\ \A i, j \in 1..n : s[i] = s[j] => i = j
      /\ \A x \in tree : \E i \in 1..n : s[i] = x
  <2>1. Orders(LessRel, tree)
    BY LessOrders
  <2>2. s \in [1..n -> tree] /\ Increasing(s, n, LessRel)
    BY <1>5, <1>6
  <2> HIDE DEF s, LessRel
  <2>3. Enumerates(s, n, tree)
    BY <2>1, <2>2, IncreasingOnto
  <2> HIDE DEF n
  <2> QED BY <2>3 DEF Enumerates
<1> QED BY <1>5, <1>7, <1>8

-----------------------------------------------------------------------------
(* Sorted sets: the tree that goes with a map *)

LEMMA ScoresDef ==
  ASSUME NEW f
  PROVE  f \in Scores <=> /\ DOMAIN f \in SUBSET Member /\ IsFiniteSet(DOMAIN f)
                          /\ f \in [DOMAIN f -> Int]
BY DEF Scores

LEMMA FloatMapsDef ==
  ASSUME NEW f
  PROVE  f \in FloatMaps <=> /\ DOMAIN f \in SUBSET Member /\ IsFiniteSet(DOMAIN f)
                             /\ f \in [DOMAIN f -> Floats]
BY DEF FloatMaps

LEMMA TreeIsFinite ==
  ASSUME NEW f \in Scores
  PROVE  /\ TreeOf(f) \in SUBSET Item2 /\ IsFiniteSet(TreeOf(f))
         /\ Cardinality(TreeOf(f)) = Cardinality(DOMAIN f) /\ Cardinality(DOMAIN f) \in Nat
<1>1. DOMAIN f \in SUBSET Member /\ IsFiniteSet(DOMAIN f) /\ \A m \in DOMAIN f : f[m] \in Int
  BY ScoresDef
<1>2. Member \subseteq Int
  BY SortedSetAssumption
<1> DEFINE g == [m \in DOMAIN f |-> <<f[m], m>>]
<1>3. g \in Bijection(DOMAIN f, TreeOf(f))
  BY DEF TreeOf, Bijection, Injection, Surjection, IsInjective
<1>4. ExistsBijection(DOMAIN f, TreeOf(f))
  BY <1>3 DEF ExistsBijection
<1>5. IsFiniteSet(TreeOf(f)) /\ Cardinality(TreeOf(f)) = Cardinality(DOMAIN f)
  BY <1>1, <1>4, FS_Bijection
<1>6. TreeOf(f) \in SUBSET Item2
  <2>1. \A m \in DOMAIN f : m \in Int /\ f[m] \in Int
    BY <1>1, <1>2
  <2>2. \A m \in DOMAIN f : <<f[m], m>> \in Item2
    BY <2>1 DEF Item2
  <2> QED BY <2>2 DEF TreeOf
<1> QED BY <1>1, <1>5, <1>6, FS_CardinalityType

\* Setting a score keeps a map one of finitely many members.
LEMMA SetScoreStays ==
  ASSUME NEW f, NEW m \in Member, NEW score
  PROVE  /\ f \in CappedScores /\ score \in Int /\ score <= Inf => SetScore(f, m, score) \in CappedScores
         /\ f \in IntScores /\ score \in Int /\ score <= MaxScore => SetScore(f, m, score) \in IntScores
         /\ f \in FloatMaps /\ score \in Floats => SetScore(f, m, score) \in FloatMaps
<1> DEFINE g == SetScore(f, m, score)
<1>1. /\ DOMAIN g = DOMAIN f \cup {m} /\ g = [x \in DOMAIN g |-> g[x]] /\ g[m] = score
      /\ \A x \in DOMAIN g : g[x] = IF x = m THEN score ELSE f[x]
  BY DEF SetScore
<1>2. DOMAIN f \in SUBSET Member /\ IsFiniteSet(DOMAIN f) => DOMAIN g \in SUBSET Member /\ IsFiniteSet(DOMAIN g)
  BY <1>1, FS_AddElement
<1> HIDE DEF g
<1>3. ASSUME f \in CappedScores, score \in Int, score <= Inf PROVE g \in CappedScores
  BY <1>1, <1>2, <1>3, ScoresDef DEF CappedScores, Capped
<1>4. ASSUME f \in IntScores, score \in Int, score <= MaxScore PROVE g \in IntScores
  BY <1>1, <1>2, <1>4, ScoresDef DEF IntScores
<1>5. ASSUME f \in FloatMaps, score \in Floats PROVE g \in FloatMaps
  BY <1>1, <1>2, <1>5, FloatMapsDef
<1> QED BY <1>3, <1>4, <1>5 DEF g

LEMMA CappedFloats ==
  ASSUME NEW f \in CappedScores
  PROVE  f \in FloatMaps /\ TreeOf(f) \in SUBSET (Floats \X Member)
<1>1. f \in Scores /\ \A m \in DOMAIN f : f[m] <= Inf
  BY DEF CappedScores, Capped
<1>2. /\ DOMAIN f \in SUBSET Member /\ IsFiniteSet(DOMAIN f)
      /\ f = [m \in DOMAIN f |-> f[m]] /\ \A m \in DOMAIN f : f[m] \in Int
  BY <1>1, ScoresDef
<1>3. \A m \in DOMAIN f : f[m] \in Floats /\ m \in Member
  BY <1>1, <1>2 DEF Floats
<1>4. f \in FloatMaps
  BY <1>2, <1>3, FloatMapsDef
<1> QED BY <1>3, <1>4 DEF TreeOf

\* Upsert replaces the item of the old score by that of the new one.
LEMMA UpsertTree ==
  ASSUME NEW f \in CappedScores, NEW m \in Member, NEW score \in Int, NEW hit
  PROVE  Upsert(ZSetOf(f), score, m, hit) = ZSetOf(SetScore(f, m, score))
<1> DEFINE g == SetScore(f, m, score)
           old == IF m \in DOMAIN f THEN {<<f[m], m>>} ELSE {}
<1>1. /\ DOMAIN g = DOMAIN f \cup {m} /\ g[m] = score
      /\ \A x \in DOMAIN f : x # m => g[x] = f[x]
  BY DEF SetScore
<1>2. score # NaN
  BY NaNAssumption
<1>3. Upsert(ZSetOf(f), score, m, hit) =
        [tree |-> (TreeOf(f) \ old) \cup {<<score, m>>}, memberMap |-> g, nan |-> FALSE]
  BY <1>2 DEF Upsert, ZSetOf, Has
<1>4. (TreeOf(f) \ old) \cup {<<score, m>>} = TreeOf(g)
  <2> HIDE DEF g
  <2> QED BY <1>1 DEF TreeOf
<1> HIDE DEF g, old
<1> QED BY <1>3, <1>4 DEF ZSetOf, g

\* Taking a member out of the map and its item out of the tree.
LEMMA WithoutTree ==
  ASSUME NEW f \in CappedScores, NEW m \in DOMAIN f
  PROVE  /\ [tree |-> TreeOf(f) \ {<<f[m], m>>}, memberMap |-> Without(f, m), nan |-> FALSE] = ZSetOf(Without(f, m))
         /\ Without(f, m) \in CappedScores
<1> DEFINE g == Without(f, m)
<1>1. DOMAIN f \in SUBSET Member /\ IsFiniteSet(DOMAIN f) /\ f \in [DOMAIN f -> Int] /\ Capped(f)
  BY ScoresDef DEF CappedScores
<1>2. DOMAIN g = DOMAIN f \ {m} /\ \A x \in DOMAIN f : x # m => g[x] = f[x]
  BY DEF Without
<1>3. g \in Scores
  <2>1. IsFiniteSet(DOMAIN f \ {m})
    BY <1>1, FS_RemoveElement
  <2>2. g \in [DOMAIN g -> Int]
    BY <1>1 DEF Without
  <2> QED BY <1>1, <1>2, <2>1, <2>2, ScoresDef
<1>4. TreeOf(f) \ {<<f[m], m>>} = TreeOf(g)
  <2> HIDE DEF g
  <2> QED BY <1>2 DEF TreeOf
<1> HIDE DEF g
<1>5. [tree |-> TreeOf(f) \ {<<f[m], m>>}, memberMap |-> g, nan |-> FALSE] = ZSetOf(g)
  BY <1>4 DEF ZSetOf
<1>6. Capped(g)
  BY <1>1, <1>2 DEF Capped
<1> QED BY <1>3, <1>5, <1>6 DEF g, CappedScores

LEMMA ZSetFields ==
  ASSUME NEW ss \in CappedSets
  PROVE  /\ ss.memberMap \in CappedScores /\ ss.memberMap \in Scores /\ ss = ZSetOf(ss.memberMap)
         /\ ss.tree = TreeOf(ss.memberMap) /\ ss.nan = FALSE
BY DEF CappedSets, CappedScores, ZSetOf

LEMMA NaNFields ==
  ASSUME NEW ss \in NaNSets
  PROVE  /\ ss.memberMap \in FloatMaps /\ ss.tree \in SUBSET (Floats \X Member) /\ ss.nan = TRUE
         /\ ss = [tree |-> ss.tree, memberMap |-> ss.memberMap, nan |-> TRUE]
BY DEF NaNSets

LEMMA NaNSetIs ==
  ASSUME NEW t \in SUBSET (Floats \X Member), NEW f \in FloatMaps
  PROVE  [tree |-> t, memberMap |-> f, nan |-> TRUE] \in NaNSets
BY DEF NaNSets

LEMMA AnyMap ==
  ASSUME NEW ss \in AnySets
  PROVE  ss.memberMap \in FloatMaps
BY ZSetFields, NaNFields, CappedFloats DEF AnySets

LEMMA UpsertStays ==
  ASSUME NEW ss \in AnySets, NEW m \in Member, NEW score \in Floats, NEW hit
  PROVE  /\ Upsert(ss, score, m, hit) \in AnySets
         /\ DOMAIN Upsert(ss, score, m, hit).memberMap = DOMAIN ss.memberMap \cup {m}
<1> DEFINE f == ss.memberMap
           g == SetScore(f, m, score)
           u == Upsert(ss, score, m, hit)
<1>1. u.memberMap = g
  BY DEF Upsert
<1>2. DOMAIN g = DOMAIN f \cup {m}
  BY DEF SetScore
<1>3. g \in FloatMaps
  BY AnyMap, SetScoreStays
<1>4. ASSUME ss \in CappedSets, score # NaN PROVE u \in AnySets
  <2>1. f \in CappedScores /\ ss = ZSetOf(f)
    BY <1>4, ZSetFields
  <2>2. score \in Int /\ score <= Inf
    BY <1>4 DEF Floats
  <2>3. g \in CappedScores
    BY <2>1, <2>2, SetScoreStays
  <2> HIDE DEF f
  <2>4. u = ZSetOf(g)
    BY <2>1, <2>2, UpsertTree
  <2> HIDE DEF g, u
  <2> QED BY <2>3, <2>4 DEF CappedSets, AnySets
<1>5. ASSUME ss \in CappedSets, score = NaN PROVE u \in AnySets
  <2>1. f \in CappedScores /\ ss.tree = TreeOf(f) /\ ss.nan = FALSE
    BY <1>5, ZSetFields
  <2>2. ss.tree \in SUBSET (Floats \X Member)
    BY <2>1, CappedFloats
  <2> DEFINE others == ss.tree \ (IF Has(ss, m) THEN {<<ss.memberMap[m], m>>} ELSE {})
             tree == {it \in others : it[2] # hit} \cup {<<score, m>>}
  <2>3. tree \in SUBSET (Floats \X Member)
    BY <2>2
  <2>4. u = [tree |-> tree, memberMap |-> g, nan |-> TRUE]
    BY <1>5, <2>1 DEF Upsert
  <2> HIDE DEF tree, g, u
  <2> QED BY <1>3, <2>3, <2>4, NaNSetIs DEF AnySets
<1>6. ASSUME ss \in NaNSets PROVE u \in AnySets
  <2>1. ss.nan = TRUE
    BY <1>6, NaNFields
  <2>2. u = [tree |-> {}, memberMap |-> g, nan |-> TRUE]
    BY <2>1 DEF Upsert, Unknown
  <2>3. {} \in SUBSET (Floats \X Member)
    OBVIOUS
  <2> HIDE DEF g, u
  <2> QED BY <1>3, <2>2, <2>3, NaNSetIs DEF AnySets
<1>7. u \in AnySets
  BY <1>4, <1>5, <1>6 DEF AnySets
<1> QED BY <1>1, <1>2, <1>7

LEMMA RestrictFloats ==
  ASSUME NEW f \in FloatMaps, NEW S \in SUBSET DOMAIN f
  PROVE  [x \in S |-> f[x]] \in FloatMaps
<1> DEFINE g == [x \in S |-> f[x]]
<1>1. DOMAIN f \in SUBSET Member /\ IsFiniteSet(DOMAIN f) /\ \A m \in DOMAIN f : f[m] \in Floats
  BY FloatMapsDef
<1>2. IsFiniteSet(S)
  BY <1>1, FS_Subset
<1>3. DOMAIN g = S /\ g \in [S -> Floats]
  BY <1>1
<1> HIDE DEF g
<1>4. g \in FloatMaps
  BY <1>1, <1>2, <1>3, FloatMapsDef
<1> QED BY <1>4 DEF g

LEMMA RemoveStays ==
  ASSUME NEW ss \in AnySets, NEW m
  PROVE  RemoveMember(ss, m) \in AnySets
<1> DEFINE f == ss.memberMap
<1>1. CASE m \notin DOMAIN f
  BY <1>1 DEF RemoveMember, Has
<1>2. CASE m \in DOMAIN f /\ ss \in CappedSets
  <2>1. f \in CappedScores /\ ss.tree = TreeOf(f) /\ ss.nan = FALSE
    BY <1>2, ZSetFields
  <2>2. RemoveMember(ss, m) = [tree |-> TreeOf(f) \ {<<f[m], m>>}, memberMap |-> Without(f, m), nan |-> FALSE]
    BY <1>2, <2>1 DEF RemoveMember, Has
  <2> HIDE DEF f
  <2>3. RemoveMember(ss, m) = ZSetOf(Without(f, m)) /\ Without(f, m) \in CappedScores
    BY <1>2, <2>1, <2>2, WithoutTree
  <2> QED BY <2>3 DEF CappedSets, AnySets
<1>3. CASE m \in DOMAIN f /\ ss \in NaNSets
  <2>1. f \in FloatMaps /\ ss.nan = TRUE
    BY <1>3, NaNFields
  <2>2. RemoveMember(ss, m) = [tree |-> {}, memberMap |-> Without(f, m), nan |-> TRUE]
    BY <1>3, <2>1 DEF RemoveMember, Has, Unknown
  <2>3. Without(f, m) \in FloatMaps
    BY <2>1, RestrictFloats DEF Without
  <2>4. {} \in SUBSET (Floats \X Member)
    OBVIOUS
  <2> QED BY <2>2, <2>3, <2>4, NaNSetIs DEF AnySets
<1> QED BY <1>1, <1>2, <1>3 DEF AnySets

LEMMA LostStays ==
  ASSUME NEW ss \in AnySets, ss.nan, NEW gone
  PROVE  Lost(ss, gone) \in AnySets
<1>1. ss \in NaNSets
  BY ZSetFields DEF AnySets
<1>2. ss.memberMap \in FloatMaps /\ ss.nan = TRUE
  BY <1>1, NaNFields
<1> DEFINE S == DOMAIN ss.memberMap \ gone
           g == [x \in S |-> ss.memberMap[x]]
<1>3. Lost(ss, gone) = [tree |-> {}, memberMap |-> g, nan |-> TRUE]
  BY <1>2 DEF Lost, Unknown
<1>4. S \in SUBSET DOMAIN ss.memberMap
  OBVIOUS
<1>5. g \in FloatMaps
  <2> HIDE DEF S
  <2> QED BY <1>2, <1>4, RestrictFloats
<1>6. {} \in SUBSET (Floats \X Member)
  OBVIOUS
<1> HIDE DEF g
<1> QED BY <1>3, <1>5, <1>6, NaNSetIs DEF AnySets

LEMMA PopEndStays ==
  ASSUME NEW ss \in CappedSets, NEW item \in ss.tree
  PROVE  PopEnd(ss, item) \in CappedSets
<1> DEFINE f == ss.memberMap
<1>1. f \in CappedScores /\ ss.tree = TreeOf(f) /\ ss.nan = FALSE
  BY ZSetFields
<1> HIDE DEF f
<1>2. PICK m \in DOMAIN f : item = <<f[m], m>>
  BY <1>1 DEF TreeOf
<1>3. item[2] = m
  BY <1>2
<1>4. PopEnd(ss, item) = [tree |-> TreeOf(f) \ {<<f[m], m>>}, memberMap |-> Without(f, m), nan |-> FALSE]
  BY <1>1, <1>2, <1>3 DEF PopEnd, f
<1>5. PopEnd(ss, item) = ZSetOf(Without(f, m)) /\ Without(f, m) \in CappedScores
  BY <1>1, <1>2, <1>4, WithoutTree
<1> QED BY <1>5 DEF CappedSets

\* The first and the last item of a tree are items of it.
LEMMA AscendEnds ==
  ASSUME NEW ss \in CappedSets, ss.tree # {}
  PROVE  Ascend(ss.tree)[1] \in ss.tree /\ Last(Ascend(ss.tree)) \in ss.tree
<1> DEFINE tree == ss.tree
           n == Cardinality(tree)
           s == Ascend(tree)
<1>1. tree \in SUBSET Item2 /\ IsFiniteSet(tree)
  BY ZSetFields, TreeIsFinite
<1>2. s \in [1..n -> tree] /\ n \in Nat
  <2> HIDE DEF tree
  <2> QED BY <1>1, AscendSorts
<1>3. n # 0
  BY <1>1, FS_EmptySet
<1> HIDE DEF tree, n, s
<1>4. 1 \in 1..n /\ n \in 1..n
  BY <1>2, <1>3
<1>5. s[1] \in tree /\ s[n] \in tree /\ Len(s) = n
  BY <1>2, <1>4
<1> QED BY <1>5 DEF Last, s, tree

-----------------------------------------------------------------------------
(* ZADD of the evaluators *)

Pair == (Score \cup Infinite \cup {NaN}) \X Member

Ends == {"", Err, "unchanged", "incr"}

\* What the loop carries: a sorted set that has at least the members in D.
Accs(D) == [ss : {z \in AnySets : D \subseteq DOMAIN z.memberMap}, end : Ends]

LEMMA InfIs == MaxScore \in Nat /\ Inf \in Int /\ Inf = MaxScore + 1 /\ -Inf \in Int /\ -Inf <= Inf
BY SortedSetAssumption DEF Inf

LEMMA PairFields ==
  ASSUME NEW p \in Pair
  PROVE  (p[1] # NaN => p[1] \in Int /\ p[1] <= Inf /\ p[1] \in Floats) /\ p[2] \in Member
<1>1. \A x \in Score : x \in Int /\ x <= MaxScore
  BY SortedSetAssumption
<1>2. \A x \in Infinite : x \in Int /\ x <= Inf
  BY InfIs DEF Infinite
<1>3. \A x \in Score \cup Infinite : x \in Int /\ x <= Inf
  BY <1>1, <1>2, InfIs
<1> QED BY <1>3 DEF Pair, Floats

\* A sum is at most infinite, or NaN.
LEMMA FloatSumIn ==
  ASSUME NEW a \in Floats, NEW b \in Int, b <= Inf
  PROVE  FloatSum(a, b) \in Floats
<1>1. CASE a = NaN
  BY <1>1 DEF FloatSum, Floats
<1>2. CASE a # NaN
  <2>1. a \in Int /\ a <= Inf /\ a + b \in Int /\ -Inf \in Int /\ -Inf <= Inf /\ Inf \in Int
    BY <1>2, InfIs DEF Floats
  <2>2. \A x \in Int : x <= Inf => x \in Floats
    BY DEF Floats
  <2>3. FloatSum(a, b) \in {NaN, a, b, Inf, -Inf} \/ (FloatSum(a, b) = a + b /\ ~(a + b > Inf))
    BY <1>2 DEF FloatSum
  <2>4. ~(a + b > Inf) => a + b <= Inf
    BY <2>1
  <2>5. {NaN, a, b, Inf, -Inf} \subseteq Floats
    BY <2>1, <2>2 DEF Floats
  <2> QED BY <2>1, <2>2, <2>3, <2>4, <2>5
<1> QED BY <1>1, <1>2

LEMMA ProcessStays ==
  ASSUME NEW D, NEW acc \in Accs(D), NEW pair \in Pair, NEW F, NEW hit
  PROVE  processMember(acc, pair, F, hit) \in Accs(D)
<1> DEFINE m == pair[2]
           there == Has(acc.ss, m)
           cur == IF there THEN acc.ss.memberMap[m] ELSE 0
           score == IF "INCR" \in F THEN FloatSum(cur, pair[1]) ELSE pair[1]
<1>1. (pair[1] # NaN => pair[1] \in Int /\ pair[1] <= Inf /\ pair[1] \in Floats) /\ m \in Member
  BY PairFields
<1>2. /\ acc.ss \in AnySets /\ D \subseteq DOMAIN acc.ss.memberMap /\ acc.end \in Ends
      /\ acc = [ss |-> acc.ss, end |-> acc.end]
  BY DEF Accs
<1>3. cur \in Floats
  <2>1. acc.ss.memberMap \in FloatMaps
    BY <1>2, AnyMap
  <2>2. \A x \in DOMAIN acc.ss.memberMap : acc.ss.memberMap[x] \in Floats
    BY <2>1, FloatMapsDef
  <2>3. 0 \in Floats
    BY InfIs DEF Floats
  <2> QED BY <2>2, <2>3 DEF Has
<1> HIDE DEF cur, there
<1>4. pair[1] # NaN => score \in Floats
  BY <1>1, <1>3, FloatSumIn
<1> DEFINE stop == "INCR" \in F /\ there /\ (("GT" \in F /\ AtLeast(cur, score)) \/ ("LT" \in F /\ AtLeast(score, cur)))
           step == CASE acc.end # "" -> acc
             [] acc.end = "" /\ pair[1] = NaN -> [acc EXCEPT !.end = Err]
             [] acc.end = "" /\ pair[1] # NaN ->
                  CASE stop -> [acc EXCEPT !.end = "unchanged"]
                    [] OTHER ->
                       IF shouldSkipMember(score, cur, there, F) THEN acc
                       ELSE [ss |-> Upsert(acc.ss, score, m, hit), end |-> IF "INCR" \in F THEN "incr" ELSE ""]
<1>5. processMember(acc, pair, F, hit) = step
  BY DEF processMember, cur, there
<1>6. [acc EXCEPT !.end = Err] \in Accs(D) /\ [acc EXCEPT !.end = "unchanged"] \in Accs(D)
  BY <1>2 DEF Accs, Ends
<1>7. ASSUME pair[1] # NaN
      PROVE  [ss |-> Upsert(acc.ss, score, m, hit), end |-> IF "INCR" \in F THEN "incr" ELSE ""] \in Accs(D)
  <2>1. /\ Upsert(acc.ss, score, m, hit) \in AnySets
        /\ D \subseteq DOMAIN Upsert(acc.ss, score, m, hit).memberMap
    BY <1>1, <1>2, <1>4, <1>7, UpsertStays
  <2> HIDE DEF score, m
  <2> QED BY <2>1 DEF Accs, Ends
<1> HIDE DEF score, m, stop
<1>8. step \in Accs(D)
  BY <1>6, <1>7
<1> QED BY <1>5, <1>8

\* The loop ends with a sorted set that has the members it began with.
LEMMA ZAddLoop ==
  ASSUME NEW n \in Nat, NEW pairs \in [1..n -> Pair], NEW F, NEW hit, NEW ss \in AnySets
  PROVE  processMembersWithFlags(ss, pairs, F, hit) \in Accs(DOMAIN ss.memberMap)
<1> DEFINE V == Accs(DOMAIN ss.memberMap)
           v == [ss |-> ss, end |-> ""]
           Body(it) == [s \in SUBSET DOMAIN pairs |->
                          IF s = {} THEN v ELSE processMember(it[s \ {Max(s)}], pairs[Max(s)], F, hit)]
           step == [q \in (1..n) \X V |-> processMember(q[2], pairs[q[1]], F, hit)]
           f == CHOOSE it : it = Body(it)
<1>1. v \in V
  BY DEF Accs, Ends
<1>2. /\ step \in [(1..n) \X V -> V]
      /\ \A i \in 1..n, a \in V : step[<<i, a>>] = processMember(a, pairs[i], F, hit)
  <2>1. \A q \in (1..n) \X V : processMember(q[2], pairs[q[1]], F, hit) \in V
    BY ProcessStays
  <2> HIDE DEF V
  <2> QED BY <2>1
<1>3. DOMAIN pairs = 1..n
  OBVIOUS
<1>4. \A s \in SUBSET (1..n) : s # {} => Max(s) \in 1..n /\ s \ {Max(s)} \in SUBSET (1..n)
  BY MaxChooses DEF Chooser, MaxOf
<1> HIDE DEF V, v, step
<1>5. \E it : it = Body(it)
  <2>1. PICK it \in [SUBSET (1..n) -> V] : LeftSteps(it, n, v, step)
    BY <1>1, <1>2, FoldLeftExists
  <2>2. \A s \in SUBSET (1..n) : it[s] = Body(it)[s]
    BY <1>2, <1>3, <1>4, <2>1 DEF LeftSteps, LeftStep
  <2>3. it = Body(it)
    BY <1>3, <2>1, <2>2
  <2> QED BY <2>3
<1>6. f = Body(f)
  <2> HIDE DEF Body
  <2> QED BY <1>5
<1>7. processMembersWithFlags(ss, pairs, F, hit) = f[1..n]
  BY <1>3 DEF processMembersWithFlags, FoldLeft, MapThenFoldSet, v
<1> HIDE DEF f
<1>8. LeftFold(f, n, V, v, step)
  BY <1>2, <1>3, <1>4, <1>6 DEF LeftFold, LeftStep
<1>9. f[1..n] \in V
  BY <1>1, <1>2, <1>8, FoldLeftLaw
<1> QED BY <1>7, <1>9 DEF V

LEMMA ZSetObj ==
  ASSUME NEW ss \in AnySets, NEW g
  PROVE  Cell(Obj("zset", ss), g)
<1>1. "zset" \in Types
  BY DEF Types
<1> QED BY <1>1, CellOf

LEMMA NoScores == <<>> \in CappedScores /\ <<>> \in IntScores
<1> DEFINE f == <<>>
<1>1. DOMAIN f = {} /\ f \in [DOMAIN f -> Int]
  OBVIOUS
<1> HIDE DEF f
<1>2. f \in Scores /\ Capped(f)
  BY <1>1, ScoresDef, FS_EmptySet DEF Capped
<1>3. \A m \in DOMAIN f : f[m] <= MaxScore
  BY <1>1
<1> QED BY <1>2, <1>3 DEF f, CappedScores, IntScores

LEMMA NewSetIn == NewSet \in AnySets /\ NewSet.memberMap = <<>>
<1> DEFINE f == <<>>
<1>1. DOMAIN f = {}
  OBVIOUS
<1>2. f \in CappedScores
  BY NoScores
<1>3. NewSet = ZSetOf(f)
  <2>1. TreeOf(f) = {}
    BY <1>1 DEF TreeOf
  <2> QED BY <2>1 DEF NewSet, ZSetOf
<1> HIDE DEF f
<1>4. NewSet \in AnySets
  BY <1>2, <1>3 DEF CappedSets, AnySets
<1> QED BY <1>4 DEF NewSet

\* The sorted set of a key that holds no other type.
LEMMA SetValIn ==
  ASSUME DataInv, NEW k \in Key, ~WrongType(k, "zset")
  PROVE  /\ SetVal(k) \in AnySets
         /\ Exists(k) => store[k] = Obj("zset", SetVal(k)) /\ SetVal(k) = Val(k)
<1>1. CASE Exists(k)
  <2>1. store[k].type = "zset" /\ Cell(store[k], ghost[k])
    BY <1>1 DEF WrongType, DataInv
  <2>2. store[k].val \in AnySets /\ store[k] = Obj("zset", store[k].val)
    BY <2>1 DEF Cell, TreeCell, Shape
  <2> QED BY <1>1, <2>2 DEF SetVal, Val
<1>2. CASE ~Exists(k)
  BY <1>2, NewSetIn DEF SetVal
<1> QED BY <1>1, <1>2

LEMMA PairListsDef ==
  ASSUME NEW pairs \in PairLists
  PROVE  \E n \in Nat : pairs \in [1..n -> (Score \cup {NaN}) \X Member]
<1>1. CASE pairs \in [1..1 -> (Score \cup {NaN}) \X Member]
  BY <1>1
<1>2. CASE pairs \in {<<p, q>> : p, q \in (Score \cup {NaN}) \X Member}
  <2> DEFINE P == (Score \cup {NaN}) \X Member
  <2>1. PICK p \in P, q \in P : pairs = <<p, q>>
    BY <1>2
  <2> HIDE DEF P
  <2>2. pairs \in [1..2 -> P]
    BY <2>1
  <2> USE DEF P
  <2> QED BY <2>2
<1> QED BY <1>1, <1>2 DEF PairLists

FloatPairs == PairLists \cup [1..1 -> Infinite \X Member]

LEMMA FloatPairsDef ==
  ASSUME NEW pairs \in FloatPairs
  PROVE  \E n \in Nat : pairs \in [1..n -> Pair]
<1>1. (Score \cup {NaN}) \X Member \subseteq Pair /\ Infinite \X Member \subseteq Pair
  BY DEF Pair
<1>2. CASE pairs \in PairLists
  BY <1>1, <1>2, PairListsDef
<1>3. CASE pairs \in [1..1 -> Infinite \X Member]
  BY <1>1, <1>3
<1> QED BY <1>2, <1>3 DEF FloatPairs

\* A set in the store keeps what the pairs before the bad one did.
LEMMA EvalZAddOutcome ==
  ASSUME DataInv, NEW k \in Key, NEW pairs \in FloatPairs, NEW F, EvalZADD(k, pairs, F)
  PROVE  Outcome(k)
<1> DEFINE ss == SetVal(k)
<1>1. CASE WrongType(k, "zset") \/ FlagsInvalid(F, pairs)
  <2>1. Answer(Err)
    BY <1>1 DEF EvalZADD
  <2> QED BY <2>1, AnswerOutcome
<1>2. CASE ~(WrongType(k, "zset") \/ FlagsInvalid(F, pairs))
  <2>0. PICK hit :
          LET a == processMembersWithFlags(ss, pairs, F, hit)
          IN /\ store' = IF Exists(k) \/ a.end = "" THEN [store EXCEPT ![k] = Obj("zset", a.ss)] ELSE store
             /\ reply' = IF a.end = Err THEN Err ELSE OK
             /\ ghost' = ghost
    BY <1>2 DEF EvalZADD
  <2> DEFINE acc == processMembersWithFlags(ss, pairs, F, hit)
             new == Obj("zset", acc.ss)
  <2>1. /\ store' = IF Exists(k) \/ acc.end = "" THEN [store EXCEPT ![k] = new] ELSE store
        /\ reply' = IF acc.end = Err THEN Err ELSE OK
        /\ ghost' = ghost
    BY <2>0
  <2>2. ss \in AnySets /\ (Exists(k) => store[k] = Obj("zset", ss))
    BY <1>2, SetValIn
  <2>3. acc.ss \in AnySets /\ DOMAIN ss.memberMap \subseteq DOMAIN acc.ss.memberMap
    <3>1. PICK n \in Nat : pairs \in [1..n -> Pair]
      BY FloatPairsDef
    <3> DEFINE D == DOMAIN ss.memberMap
    <3>2. acc \in Accs(D)
      <4> HIDE DEF ss
      <4> QED BY <2>2, <3>1, ZAddLoop DEF ss
    <3> HIDE DEF acc, D
    <3>3. acc.ss \in AnySets /\ D \subseteq DOMAIN acc.ss.memberMap
      BY <3>2 DEF Accs
    <3> QED BY <3>3 DEF D
  <2> HIDE DEF acc, ss
  <2>4. ghost = [ghost EXCEPT ![k] = ghost[k]] /\ store = [store EXCEPT ![k] = store[k]]
    BY DEF DataInv
  <2>5. Cell(new, ghost[k]) /\ Cell(store[k], ghost[k])
    BY <2>3, ZSetObj DEF DataInv
  <2>6. CASE Exists(k) \/ acc.end = ""
    <3>1. Put(k, new, ghost[k])
      BY <2>1, <2>4, <2>6 DEF Put
    <3>2. Err # ""
      BY DEF Err
    <3>3. Exists(k) => Residue(store[k], new)
      BY <2>2, <2>3, ObjFields DEF Residue
    <3>4. reply' = OK \/ (reply' = Err /\ Exists(k))
      BY <2>1, <2>6, <3>2
    <3> QED BY <2>5, <3>1, <3>3, <3>4 DEF Outcome
  <2>7. CASE ~(Exists(k) \/ acc.end = "")
    <3>1. Put(k, store[k], ghost[k])
      BY <2>1, <2>4, <2>7 DEF Put
    <3>2. reply' = OK \/ reply' = Err
      BY <2>1
    <3> QED BY <2>5, <3>1, <3>2 DEF Outcome
  <2> QED BY <2>6, <2>7
<1> QED BY <1>1, <1>2

-----------------------------------------------------------------------------
(* The other commands on sorted sets *)

RemoveAll(ss, ms) == FoldLeft(RemoveMember, ss, ms)

\* Removing members one after the other.
LEMMA RemoveLoop ==
  ASSUME NEW m1, NEW m2, NEW ss \in AnySets
  PROVE  RemoveAll(ss, <<m1, m2>>) \in AnySets
<1> DEFINE n == 2
           xs == <<m1, m2>>
           Body(it) == [s \in SUBSET DOMAIN xs |->
                          IF s = {} THEN ss ELSE RemoveMember(it[s \ {Max(s)}], xs[Max(s)])]
           step == [q \in (1..n) \X AnySets |-> RemoveMember(q[2], xs[q[1]])]
           f == CHOOSE it : it = Body(it)
<1>3. n \in Nat /\ DOMAIN xs = 1..n
  OBVIOUS
<1>2. /\ step \in [(1..n) \X AnySets -> AnySets]
      /\ \A i \in 1..n, a \in AnySets : step[<<i, a>>] = RemoveMember(a, xs[i])
  <2>1. \A q \in (1..n) \X AnySets : RemoveMember(q[2], xs[q[1]]) \in AnySets
    BY RemoveStays
  <2> HIDE DEF xs, n
  <2> QED BY <2>1
<1>4. \A s \in SUBSET (1..n) : s # {} => Max(s) \in 1..n /\ s \ {Max(s)} \in SUBSET (1..n)
  BY <1>3, MaxChooses DEF Chooser, MaxOf
<1>5. RemoveAll(ss, <<m1, m2>>) = f[1..n]
  BY <1>3 DEF RemoveAll, FoldLeft, MapThenFoldSet
<1> HIDE DEF step, xs, n
<1>6. \E it : it = Body(it)
  <2>1. PICK it \in [SUBSET (1..n) -> AnySets] : LeftSteps(it, n, ss, step)
    BY <1>2, <1>3, FoldLeftExists
  <2>2. \A s \in SUBSET (1..n) : it[s] = Body(it)[s]
    BY <1>2, <1>3, <1>4, <2>1 DEF LeftSteps, LeftStep
  <2>3. it = Body(it)
    BY <1>3, <2>1, <2>2
  <2> QED BY <2>3
<1>7. f = Body(f)
  <2> HIDE DEF Body
  <2> QED BY <1>6
<1> HIDE DEF f
<1>8. LeftFold(f, n, AnySets, ss, step)
  BY <1>2, <1>3, <1>4, <1>7 DEF LeftFold, LeftStep
<1>9. f[1..n] \in AnySets
  BY <1>2, <1>3, <1>8, FoldLeftLaw
<1> QED BY <1>5, <1>9

PopStep(s, item) == IF s.tree = {} THEN s ELSE PopEnd(s, item)
MinStep(s) == PopStep(s, Ascend(s.tree)[1])
MaxStep(s) == PopStep(s, Last(Ascend(s.tree)))

LEMMA PopStepStays ==
  ASSUME NEW s \in CappedSets
  PROVE  MinStep(s) \in CappedSets /\ MaxStep(s) \in CappedSets
BY AscendEnds, PopEndStays DEF PopStep, MinStep, MaxStep

\* Popping the least items.
LEMMA GetMinLoop ==
  ASSUME NEW count \in Nat, NEW ss \in CappedSets
  PROVE  GetMin(ss, count) \in CappedSets
<1> DEFINE n == count
           xs == [i \in 1..count |-> i]
           Body(it) == [s \in SUBSET DOMAIN xs |->
                          IF s = {} THEN ss ELSE MinStep(it[s \ {Max(s)}])]
           step == [q \in (1..n) \X CappedSets |-> MinStep(q[2])]
           f == CHOOSE it : it = Body(it)
<1>3. n \in Nat /\ DOMAIN xs = 1..n
  OBVIOUS
<1>2. /\ step \in [(1..n) \X CappedSets -> CappedSets]
      /\ \A i \in 1..n, a \in CappedSets : step[<<i, a>>] = MinStep(a)
  <2>1. \A q \in (1..n) \X CappedSets : MinStep(q[2]) \in CappedSets
    BY PopStepStays
  <2> HIDE DEF xs, n
  <2> QED BY <2>1
<1>4. \A s \in SUBSET (1..n) : s # {} => Max(s) \in 1..n /\ s \ {Max(s)} \in SUBSET (1..n)
  BY <1>3, MaxChooses DEF Chooser, MaxOf
<1>5. GetMin(ss, count) = f[1..n]
  BY <1>3 DEF GetMin, MinStep, PopStep, FoldLeft, MapThenFoldSet
<1> HIDE DEF step, xs, n
<1>6. \E it : it = Body(it)
  <2>1. PICK it \in [SUBSET (1..n) -> CappedSets] : LeftSteps(it, n, ss, step)
    BY <1>2, <1>3, FoldLeftExists
  <2>2. \A s \in SUBSET (1..n) : it[s] = Body(it)[s]
    BY <1>2, <1>3, <1>4, <2>1 DEF LeftSteps, LeftStep
  <2>3. it = Body(it)
    BY <1>3, <2>1, <2>2
  <2> QED BY <2>3
<1>7. f = Body(f)
  <2> HIDE DEF Body
  <2> QED BY <1>6
<1> HIDE DEF f
<1>8. LeftFold(f, n, CappedSets, ss, step)
  <2>1. \A s \in SUBSET (1..n) : f[s] = IF s = {} THEN ss ELSE MinStep(f[s \ {Max(s)}])
    BY <1>3, <1>7
  <2>2. \A s \in SUBSET (1..n) : s # {} /\ f[s \ {Max(s)}] \in CappedSets =>
          step[<<Max(s), f[s \ {Max(s)}]>>] = MinStep(f[s \ {Max(s)}])
    BY <1>2, <1>4
  <2> HIDE DEF n
  <2> QED BY <2>1, <2>2 DEF LeftFold, LeftStep
<1>9. f[1..n] \in CappedSets
  BY <1>2, <1>3, <1>8, FoldLeftLaw
<1> QED BY <1>5, <1>9

\* Popping the greatest items.
LEMMA PopMaxLoop ==
  ASSUME NEW count \in Nat, NEW ss \in CappedSets
  PROVE  PopMax(ss, count) \in CappedSets
<1> DEFINE n == count
           xs == [i \in 1..count |-> i]
           Body(it) == [s \in SUBSET DOMAIN xs |->
                          IF s = {} THEN ss ELSE MaxStep(it[s \ {Max(s)}])]
           step == [q \in (1..n) \X CappedSets |-> MaxStep(q[2])]
           f == CHOOSE it : it = Body(it)
<1>3. n \in Nat /\ DOMAIN xs = 1..n
  OBVIOUS
<1>2. /\ step \in [(1..n) \X CappedSets -> CappedSets]
      /\ \A i \in 1..n, a \in CappedSets : step[<<i, a>>] = MaxStep(a)
  <2>1. \A q \in (1..n) \X CappedSets : MaxStep(q[2]) \in CappedSets
    BY PopStepStays
  <2> HIDE DEF xs, n
  <2> QED BY <2>1
<1>4. \A s \in SUBSET (1..n) : s # {} => Max(s) \in 1..n /\ s \ {Max(s)} \in SUBSET (1..n)
  BY <1>3, MaxChooses DEF Chooser, MaxOf
<1>5. PopMax(ss, count) = f[1..n]
  BY <1>3 DEF PopMax, MaxStep, PopStep, FoldLeft, MapThenFoldSet
<1> HIDE DEF step, xs, n
<1>6. \E it : it = Body(it)
  <2>1. PICK it \in [SUBSET (1..n) -> CappedSets] : LeftSteps(it, n, ss, step)
    BY <1>2, <1>3, FoldLeftExists
  <2>2. \A s \in SUBSET (1..n) : it[s] = Body(it)[s]
    BY <1>2, <1>3, <1>4, <2>1 DEF LeftSteps, LeftStep
  <2>3. it = Body(it)
    BY <1>3, <2>1, <2>2
  <2> QED BY <2>3
<1>7. f = Body(f)
  <2> HIDE DEF Body
  <2> QED BY <1>6
<1> HIDE DEF f
<1>8. LeftFold(f, n, CappedSets, ss, step)
  <2>1. \A s \in SUBSET (1..n) : f[s] = IF s = {} THEN ss ELSE MaxStep(f[s \ {Max(s)}])
    BY <1>3, <1>7
  <2>2. \A s \in SUBSET (1..n) : s # {} /\ f[s \ {Max(s)}] \in CappedSets =>
          step[<<Max(s), f[s \ {Max(s)}]>>] = MaxStep(f[s \ {Max(s)}])
    BY <1>2, <1>4
  <2> HIDE DEF n
  <2> QED BY <2>1, <2>2 DEF LeftFold, LeftStep
<1>9. f[1..n] \in CappedSets
  BY <1>2, <1>3, <1>8, FoldLeftLaw
<1> QED BY <1>5, <1>9

Loaded(ss) == [ss EXCEPT !.tree = IF ss.nan THEN Unknown ELSE @]

LEMMA LoadedStays ==
  ASSUME NEW ss \in AnySets
  PROVE  Loaded(ss) \in AnySets
<1>1. CASE ss \in CappedSets
  BY <1>1, ZSetFields DEF Loaded, ZSetOf
<1>2. CASE ss \in NaNSets
  <2>1. ss.memberMap \in FloatMaps /\ ss.nan = TRUE
        /\ ss = [tree |-> ss.tree, memberMap |-> ss.memberMap, nan |-> TRUE]
    BY <1>2, NaNFields
  <2> DEFINE t == ss.tree
             f == ss.memberMap
  <2>2. Loaded(ss) = [tree |-> {}, memberMap |-> ss.memberMap, nan |-> TRUE]
    <3>1. ss = [tree |-> t, memberMap |-> f, nan |-> TRUE]
      BY <2>1
    <3> HIDE DEF t, f
    <3>2. Loaded([tree |-> t, memberMap |-> f, nan |-> TRUE]) = [tree |-> {}, memberMap |-> f, nan |-> TRUE]
      <4> DEFINE r == [tree |-> t, memberMap |-> f, nan |-> TRUE]
      <4>0. ASSUME NEW b
            PROVE  [[tree |-> t, memberMap |-> f, nan |-> b] EXCEPT !.tree = {}]
                     = [tree |-> {}, memberMap |-> f, nan |-> b]
        OBVIOUS
      <4>1. r.nan = TRUE /\ [r EXCEPT !.tree = {}] = [tree |-> {}, memberMap |-> f, nan |-> TRUE]
        BY <4>0
      <4>2. Loaded(r) = [r EXCEPT !.tree = IF r.nan THEN {} ELSE r.tree]
        BY DEF Loaded, Unknown
      <4>3. (IF r.nan THEN {} ELSE r.tree) = {}
        BY <4>1
      <4> HIDE DEF r
      <4>4. Loaded(r) = [r EXCEPT !.tree = {}]
        BY <4>2, <4>3
      <4> QED BY <4>1, <4>4 DEF r
    <3> QED BY <3>1, <3>2 DEF f
  <2>3. {} \in SUBSET (Floats \X Member)
    OBVIOUS
  <2> QED BY <2>1, <2>2, <2>3, NaNSetIs DEF AnySets
<1> QED BY <1>1, <1>2 DEF AnySets

\* RESTORE adds the members of a map to a new set.
LEMMA DeserializeLoop ==
  ASSUME NEW map \in FloatMaps
  PROVE  DeserializeSet(map) \in AnySets
<1> DEFINE n == Cardinality(DOMAIN map)
           xs == SetToSeq(DOMAIN map)
           Body(it) == [s \in SUBSET DOMAIN xs |->
                          IF s = {} THEN NewSet ELSE Upsert(it[s \ {Max(s)}], map[xs[Max(s)]], xs[Max(s)], Nil)]
           step == [q \in (1..n) \X AnySets |-> Upsert(q[2], map[xs[q[1]]], xs[q[1]], Nil)]
           f == CHOOSE it : it = Body(it)
<1>1. /\ DOMAIN map \in SUBSET Member /\ IsFiniteSet(DOMAIN map) /\ map \in [DOMAIN map -> Floats]
  BY FloatMapsDef
<1>3. /\ n \in Nat /\ DOMAIN xs = 1..n /\ NewSet \in AnySets
      /\ \A i \in 1..n : xs[i] \in Member /\ map[xs[i]] \in Floats
  <2>1. n \in Nat /\ ExistsBijection(1..n, DOMAIN map)
    BY <1>1, FS_CardinalityType
  <2>2. \E g \in [1..n -> DOMAIN map] : IsInjective(g)
    BY <2>1 DEF ExistsBijection, Bijection, Injection, IsInjective
  <2>3. xs = CHOOSE g \in [1..n -> DOMAIN map] : IsInjective(g)
    BY DEF SetToSeq
  <2>4. xs \in [1..n -> DOMAIN map]
    <3> HIDE DEF xs, n
    <3> QED BY <2>2, <2>3
  <2> HIDE DEF xs
  <2> QED BY <1>1, <2>1, <2>4, NewSetIn
<1>2. /\ step \in [(1..n) \X AnySets -> AnySets]
      /\ \A i \in 1..n, a \in AnySets : step[<<i, a>>] = Upsert(a, map[xs[i]], xs[i], Nil)
  <2>1. \A q \in (1..n) \X AnySets : Upsert(q[2], map[xs[q[1]]], xs[q[1]], Nil) \in AnySets
    BY <1>3, UpsertStays
  <2> HIDE DEF xs, n
  <2> QED BY <2>1
<1>4. \A s \in SUBSET (1..n) : s # {} => Max(s) \in 1..n /\ s \ {Max(s)} \in SUBSET (1..n)
  BY <1>3, MaxChooses DEF Chooser, MaxOf
<1>5. DeserializeSet(map) = Loaded(f[1..n])
  <2> DEFINE loaded == FoldLeft(LAMBDA s, m : Upsert(s, map[m], m, Nil), NewSet, SetToSeq(DOMAIN map))
  <2>1. loaded = f[1..n]
    BY <1>3 DEF FoldLeft, MapThenFoldSet
  <2>2. DeserializeSet(map) = Loaded(loaded)
    BY DEF DeserializeSet, Loaded
  <2> HIDE DEF loaded, f
  <2> QED BY <2>1, <2>2
<1> HIDE DEF step, xs, n
<1>6. \E it : it = Body(it)
  <2>1. PICK it \in [SUBSET (1..n) -> AnySets] : LeftSteps(it, n, NewSet, step)
    BY <1>2, <1>3, FoldLeftExists
  <2>2. \A s \in SUBSET (1..n) : it[s] = Body(it)[s]
    BY <1>2, <1>3, <1>4, <2>1 DEF LeftSteps, LeftStep
  <2>3. it = Body(it)
    BY <1>3, <2>1, <2>2
  <2> QED BY <2>3
<1>7. f = Body(f)
  <2> HIDE DEF Body
  <2> QED BY <1>6
<1> HIDE DEF f
<1>8. LeftFold(f, n, AnySets, NewSet, step)
  BY <1>2, <1>3, <1>4, <1>7 DEF LeftFold, LeftStep
<1>9. f[1..n] \in AnySets
  BY <1>2, <1>3, <1>8, FoldLeftLaw
<1> QED BY <1>5, <1>9, LoadedStays

LEMMA EvalZRemOutcome ==
  ASSUME DataInv, NEW k \in Key, NEW m1, NEW m2, EvalZREM(k, <<m1, m2>>)
  PROVE  Outcome(k)
<1>1. CASE Answer(OK) \/ Answer(Err)
  BY <1>1, AnswerOutcome
<1>2. CASE Holds(k, "zset") /\ Write(k, Obj("zset", RemoveAll(Val(k), <<m1, m2>>)), Nil)
  <2>1. Val(k) \in AnySets
    BY <1>2, SetValIn DEF Holds, WrongType
  <2>2. RemoveAll(Val(k), <<m1, m2>>) \in AnySets
    BY <2>1, RemoveLoop
  <2> QED BY <1>2, <2>2, ZSetObj, WriteOutcome
<1> QED BY <1>1, <1>2 DEF EvalZREM, RemoveAll

LEMMA EvalZPopOutcome ==
  ASSUME DataInv, NEW k \in Key, NEW count \in {NaN, 0, 1, 2},
         EvalZPOPMIN(k, count) \/ EvalZPOPMAX(k, count)
  PROVE  Outcome(k)
<1>1. CASE Answer(OK) \/ Answer(Err)
  BY <1>1, AnswerOutcome
<1>2. CASE /\ Holds(k, "zset") /\ count \in Positive
           /\ PutPopped(k, count, GetMin) \/ PutPopped(k, count, PopMax)
  <2>1. Val(k) \in AnySets
    BY <1>2, SetValIn DEF Holds, WrongType
  <2>2. count \in Nat
    BY <1>2 DEF Positive
  <2>3. CASE ~Val(k).nan
    <3>1. Val(k) \in CappedSets
      BY <2>1, <2>3, NaNFields DEF AnySets
    <3>2. GetMin(Val(k), count) \in AnySets /\ PopMax(Val(k), count) \in AnySets
      BY <2>2, <3>1, GetMinLoop, PopMaxLoop DEF AnySets
    <3>3. \/ Write(k, Obj("zset", GetMin(Val(k), count)), Nil)
          \/ Write(k, Obj("zset", PopMax(Val(k), count)), Nil)
      BY <1>2, <2>3 DEF PutPopped
    <3> QED BY <3>2, <3>3, ZSetObj, WriteOutcome
  <2>4. CASE Val(k).nan
    <3>1. PICK gone : Write(k, Obj("zset", Lost(Val(k), gone)), Nil)
      BY <1>2, <2>4 DEF PutPopped
    <3>2. Lost(Val(k), gone) \in AnySets
      BY <2>1, <2>4, LostStays
    <3> QED BY <3>1, <3>2, ZSetObj, WriteOutcome
  <2> QED BY <2>3, <2>4
<1> QED BY <1>1, <1>2 DEF EvalZPOPMIN, EvalZPOPMAX

-----------------------------------------------------------------------------
(* The objects that have no part of the invariant of their own *)

Plain == {"string", "set", "hll"}

LEMMA PlainObj ==
  ASSUME NEW t \in Plain, NEW v, NEW g
  PROVE  Cell(Obj(t, v), g)
<1>1. t \in Types /\ t \notin {"bf", "zset", "sortedset", "cms", "ssmap", "deque"}
  BY DEF Plain, Types, PairTypes, Strings
<1> QED BY <1>1, CellOf

-----------------------------------------------------------------------------
(* The sorted sets of the commands: a score for every member *)

LEMMA ScoresObj ==
  ASSUME NEW scores \in IntScores, NEW g
  PROVE  Cell(Obj("sortedset", scores), g)
<1>1. "sortedset" \in Types
  BY DEF Types, PairTypes, Strings
<1> QED BY <1>1, CellOf

\* The scores of a key that holds no other type.
ScoresOf(k) == IF Exists(k) THEN Val(k) ELSE <<>>

LEMMA ScoresAt ==
  ASSUME DataInv, NEW k \in Key, ~WrongType(k, "sortedset")
  PROVE  ScoresOf(k) \in IntScores
<1>1. CASE Exists(k)
  <2>1. store[k].type = "sortedset" /\ Cell(store[k], ghost[k])
    BY <1>1 DEF WrongType, DataInv
  <2> QED BY <1>1, <2>1 DEF Cell, TreeCell, ScoresOf, Val
<1>2. CASE ~Exists(k)
  BY <1>2, NoScores DEF ScoresOf
<1> QED BY <1>1, <1>2

\* What is left of a score map when members are taken out.
LEMMA RestrictStays ==
  ASSUME NEW f \in IntScores, NEW S \in SUBSET DOMAIN f
  PROVE  [x \in S |-> f[x]] \in IntScores
<1> DEFINE g == [x \in S |-> f[x]]
<1>1. /\ DOMAIN f \in SUBSET Member /\ IsFiniteSet(DOMAIN f) /\ f \in [DOMAIN f -> Int]
      /\ \A m \in DOMAIN f : f[m] <= MaxScore
  BY ScoresDef DEF IntScores
<1>2. DOMAIN g = S /\ \A m \in S : g[m] = f[m]
  OBVIOUS
<1>3. IsFiniteSet(S)
  BY <1>1, FS_Subset
<1>4. g \in [S -> Int]
  BY <1>1
<1> HIDE DEF g
<1>5. g \in Scores /\ \A m \in DOMAIN g : g[m] <= MaxScore
  BY <1>1, <1>2, <1>3, <1>4, ScoresDef
<1> QED BY <1>5 DEF IntScores, g

LEMMA WithoutStays ==
  ASSUME NEW f \in IntScores, NEW m
  PROVE  Without(f, m) \in IntScores
BY RestrictStays DEF Without

LEMMA PoppedStays ==
  ASSUME NEW f \in IntScores, NEW n
  PROVE  Popped(f, n) \in IntScores
<1> DEFINE S == DOMAIN f \ {n[i][2] : i \in DOMAIN n}
<1>1. Popped(f, n) = [x \in S |-> f[x]]
  BY DEF Popped
<1>2. S \in SUBSET DOMAIN f
  OBVIOUS
<1> HIDE DEF S
<1> QED BY <1>1, <1>2, RestrictStays

\* One pair of ZADD.
Skipped(s, p, F) ==
  \/ "NX" \in F /\ p[2] \in DOMAIN s
  \/ "XX" \in F /\ p[2] \notin DOMAIN s
  \/ /\ p[2] \in DOMAIN s
     /\ \/ "GT" \in F /\ p[1] <= s[p[2]]
        \/ "LT" \in F /\ p[1] >= s[p[2]]

AddPair(s, p, F) ==
  IF "INCR" \in F THEN SetScore(s, p[2], IF p[2] \in DOMAIN s THEN IntSum(s[p[2]], p[1]) ELSE p[1])
  ELSE IF Skipped(s, p, F) THEN s ELSE SetScore(s, p[2], p[1])

IntPair == {x \in Int : x <= MaxScore} \X Member

\* What a sum wraps around to is an int64.
LEMMA IntSumIn ==
  ASSUME NEW a \in Int, NEW b \in Int
  PROVE  IntSum(a, b) \in Int /\ IntSum(a, b) <= MaxScore
<1> DEFINE n == 2 * Inf
           x == a + b + Inf
<1>1. n \in Nat \ {0} /\ x \in Int /\ Inf \in Int /\ Inf = MaxScore + 1 /\ MaxScore \in Nat
  BY InfIs
<1>2. x % n \in 0..(n - 1)
  <2> HIDE DEF n, x
  <2> QED BY <1>1
<1>3. IntSum(a, b) = (x % n) - Inf
  BY DEF IntSum
<1> DEFINE r == x % n
<1>4. r \in 0..(n - 1)
  BY <1>2
<1> HIDE DEF r
<1>5. r - Inf \in Int /\ r - Inf <= MaxScore
  BY <1>1, <1>4
<1> QED BY <1>3, <1>5 DEF r

LEMMA AddPairStays ==
  ASSUME NEW s \in IntScores, NEW p \in IntPair, NEW F
  PROVE  AddPair(s, p, F) \in IntScores
<1>1. p[1] \in Int /\ p[1] <= MaxScore /\ p[2] \in Member
  BY DEF IntPair
<1> DEFINE sum == IF p[2] \in DOMAIN s THEN IntSum(s[p[2]], p[1]) ELSE p[1]
<1>2. sum \in Int /\ sum <= MaxScore
  <2>1. \A m \in DOMAIN s : s[m] \in Int
    BY ScoresDef DEF IntScores
  <2> QED BY <1>1, <2>1, IntSumIn
<1>3. AddPair(s, p, F) \in {s, SetScore(s, p[2], sum), SetScore(s, p[2], p[1])}
  BY DEF AddPair
<1> HIDE DEF sum
<1> QED BY <1>1, <1>2, <1>3, SetScoreStays

\* The loop of ZADD.
LEMMA AddLoop ==
  ASSUME NEW n \in Nat, NEW xs \in [1..n -> IntPair], NEW F, NEW v \in IntScores
  PROVE  SetZADD(v, xs, F) \in IntScores
<1> DEFINE Body(it) == [s \in SUBSET DOMAIN xs |->
                          IF s = {} THEN v ELSE AddPair(it[s \ {Max(s)}], xs[Max(s)], F)]
           step == [q \in (1..n) \X IntScores |-> AddPair(q[2], xs[q[1]], F)]
           f == CHOOSE it : it = Body(it)
<1>3. n \in Nat /\ DOMAIN xs = 1..n /\ v \in IntScores
  OBVIOUS
<1>2. /\ step \in [(1..n) \X IntScores -> IntScores]
      /\ \A i \in 1..n, a \in IntScores : step[<<i, a>>] = AddPair(a, xs[i], F)
  <2>1. \A q \in (1..n) \X IntScores : AddPair(q[2], xs[q[1]], F) \in IntScores
    BY AddPairStays
  <2> QED BY <2>1
<1>4. \A s \in SUBSET (1..n) : s # {} => Max(s) \in 1..n /\ s \ {Max(s)} \in SUBSET (1..n)
  BY <1>3, MaxChooses DEF Chooser, MaxOf
<1>5. SetZADD(v, xs, F) = f[1..n]
  BY <1>3 DEF SetZADD, AddPair, Skipped, FoldLeft, MapThenFoldSet
<1> HIDE DEF step
<1>6. \E it : it = Body(it)
  <2>1. PICK it \in [SUBSET (1..n) -> IntScores] : LeftSteps(it, n, v, step)
    BY <1>2, <1>3, FoldLeftExists
  <2>2. \A s \in SUBSET (1..n) : it[s] = Body(it)[s]
    BY <1>2, <1>3, <1>4, <2>1 DEF LeftSteps, LeftStep
  <2>3. it = Body(it)
    BY <1>3, <2>1, <2>2
  <2> QED BY <2>3
<1>7. f = Body(f)
  <2> HIDE DEF Body
  <2> QED BY <1>6
<1> HIDE DEF f
<1>8. LeftFold(f, n, IntScores, v, step)
  <2>1. \A s \in SUBSET (1..n) : f[s] = IF s = {} THEN v ELSE AddPair(f[s \ {Max(s)}], xs[Max(s)], F)
    BY <1>3, <1>7
  <2>2. \A s \in SUBSET (1..n) : s # {} /\ f[s \ {Max(s)}] \in IntScores =>
          step[<<Max(s), f[s \ {Max(s)}]>>] = AddPair(f[s \ {Max(s)}], xs[Max(s)], F)
    BY <1>2, <1>4
  <2> QED BY <2>1, <2>2 DEF LeftFold, LeftStep
<1>9. f[1..n] \in IntScores
  BY <1>2, <1>3, <1>8, FoldLeftLaw
<1> QED BY <1>5, <1>9

\* The loop of ZREM.
LEMMA WithoutLoop ==
  ASSUME NEW m1, NEW m2, NEW v \in IntScores
  PROVE  FoldLeft(Without, v, <<m1, m2>>) \in IntScores
<1> DEFINE n == 2
           xs == <<m1, m2>>
           Body(it) == [s \in SUBSET DOMAIN xs |->
                          IF s = {} THEN v ELSE Without(it[s \ {Max(s)}], xs[Max(s)])]
           step == [q \in (1..n) \X IntScores |-> Without(q[2], xs[q[1]])]
           f == CHOOSE it : it = Body(it)
<1>3. n \in Nat /\ DOMAIN xs = 1..n /\ v \in IntScores
  OBVIOUS
<1>2. /\ step \in [(1..n) \X IntScores -> IntScores]
      /\ \A i \in 1..n, a \in IntScores : step[<<i, a>>] = Without(a, xs[i])
  <2>1. \A q \in (1..n) \X IntScores : Without(q[2], xs[q[1]]) \in IntScores
    BY WithoutStays
  <2> HIDE DEF xs, n
  <2> QED BY <2>1
<1>4. \A s \in SUBSET (1..n) : s # {} => Max(s) \in 1..n /\ s \ {Max(s)} \in SUBSET (1..n)
  BY <1>3, MaxChooses DEF Chooser, MaxOf
<1>5. FoldLeft(Without, v, <<m1, m2>>) = f[1..n]
  BY <1>3 DEF FoldLeft, MapThenFoldSet
<1> HIDE DEF step, xs, n
<1>6. \E it : it = Body(it)
  <2>1. PICK it \in [SUBSET (1..n) -> IntScores] : LeftSteps(it, n, v, step)
    BY <1>2, <1>3, FoldLeftExists
  <2>2. \A s \in SUBSET (1..n) : it[s] = Body(it)[s]
    BY <1>2, <1>3, <1>4, <2>1 DEF LeftSteps, LeftStep
  <2>3. it = Body(it)
    BY <1>3, <2>1, <2>2
  <2> QED BY <2>3
<1>7. f = Body(f)
  <2> HIDE DEF Body
  <2> QED BY <1>6
<1> HIDE DEF f
<1>8. LeftFold(f, n, IntScores, v, step)
  <2>1. \A s \in SUBSET (1..n) : f[s] = IF s = {} THEN v ELSE Without(f[s \ {Max(s)}], xs[Max(s)])
    BY <1>3, <1>7
  <2>2. \A s \in SUBSET (1..n) : s # {} /\ f[s \ {Max(s)}] \in IntScores =>
          step[<<Max(s), f[s \ {Max(s)}]>>] = Without(f[s \ {Max(s)}], xs[Max(s)])
    BY <1>2, <1>4
  <2> QED BY <2>1, <2>2 DEF LeftFold, LeftStep
<1>9. f[1..n] \in IntScores
  BY <1>2, <1>3, <1>8, FoldLeftLaw
<1> QED BY <1>5, <1>9

\* ZADD leaves the empty set of a missing key behind when it refuses the flags.
LEMMA ZAddOutcome ==
  ASSUME DataInv, NEW k \in Key, NEW pairs \in PairLists, NEW F, ZADD(k, pairs, F)
  PROVE  Outcome(k)
<1> DEFINE scores == ScoresOf(k)
           new == SetZADD(scores, pairs, F)
           invalid == FlagsInvalid(F, pairs)
           o == Obj("sortedset", IF invalid THEN scores ELSE new)
<1>1. CASE (\E i \in DOMAIN pairs : pairs[i][1] = NaN) \/ WrongType(k, "sortedset")
  <2>1. Answer(Err)
    BY <1>1 DEF ZADD
  <2> QED BY <2>1, AnswerOutcome
<1>2. CASE ~((\E i \in DOMAIN pairs : pairs[i][1] = NaN) \/ WrongType(k, "sortedset"))
  <2>1. /\ store' = [store EXCEPT ![k] = o]
        /\ reply' = IF invalid THEN Err ELSE OK
        /\ ghost' = ghost
    BY <1>2 DEF ZADD, ScoresOf
  <2>2. ghost = [ghost EXCEPT ![k] = ghost[k]] /\ Cell(store[k], ghost[k])
    BY DEF DataInv
  <2>3. Put(k, o, ghost[k])
    BY <2>1, <2>2 DEF Put
  <2>4. Cell(o, ghost[k])
    <3>1. scores \in IntScores
      BY <1>2, ScoresAt
    <3>2. new \in IntScores
      <4> DEFINE P == (Score \cup {NaN}) \X Member
      <4>1. PICK n \in Nat : pairs \in [1..n -> P]
        BY PairListsDef
      <4>2. \A i \in 1..n : pairs[i][1] # NaN
        BY <1>2, <4>1
      <4>3. ASSUME NEW i \in 1..n PROVE pairs[i] \in IntPair
        <5>1. pairs[i] \in P /\ pairs[i][1] # NaN
          BY <4>1, <4>2
        <5>2. PICK a \in Score \cup {NaN}, m \in Member : pairs[i] = <<a, m>>
          BY <5>1
        <5>3. a \in Int /\ a <= MaxScore
          BY <5>1, <5>2, SortedSetAssumption
        <5> QED BY <5>2, <5>3 DEF IntPair
      <4>4. pairs \in [1..n -> IntPair]
        BY <4>1, <4>3
      <4> HIDE DEF scores, P
      <4> QED BY <3>1, <4>4, AddLoop
    <3> HIDE DEF scores, new, invalid
    <3>4. (IF invalid THEN scores ELSE new) \in IntScores
      BY <3>1, <3>2
    <3> QED BY <3>4, ScoresObj
  <2>5. invalid => o = store[k] \/ Residue(store[k], o)
    <3>1. CASE Exists(k)
      <4>1. store[k].type = "sortedset" /\ store[k] = Obj(store[k].type, store[k].val)
        BY <1>2, <2>2, <3>1 DEF WrongType, Cell, Shape
      <4> QED BY <3>1, <4>1 DEF Val, ScoresOf
    <3>2. CASE ~Exists(k)
      <4>1. store[k] = NoObj
        BY <2>2, <3>2 DEF Exists, Cell, Shape
      <4> QED BY <3>2, <4>1, ObjFields DEF Residue, ScoresOf
    <3> QED BY <3>1, <3>2
  <2> HIDE DEF o, invalid
  <2> QED BY <2>1, <2>3, <2>4, <2>5 DEF Outcome
<1> QED BY <1>1, <1>2

LEMMA ZRemOutcome ==
  ASSUME DataInv, NEW k \in Key, NEW m1, NEW m2, ZREM(k, <<m1, m2>>)
  PROVE  Outcome(k)
<1>1. CASE Answer(OK) \/ Answer(Err)
  BY <1>1, AnswerOutcome
<1>2. CASE Holds(k, "sortedset") /\ Write(k, Obj("sortedset", FoldLeft(Without, Val(k), <<m1, m2>>)), Nil)
  <2>1. Val(k) \in IntScores
    BY <1>2, ScoresAt DEF Holds, WrongType, ScoresOf
  <2> DEFINE rest == FoldLeft(Without, Val(k), <<m1, m2>>)
  <2>2. rest \in IntScores
    BY <2>1, WithoutLoop
  <2>3. Write(k, Obj("sortedset", rest), Nil)
    BY <1>2
  <2> HIDE DEF rest
  <2> QED BY <2>2, <2>3, ScoresObj, WriteOutcome
<1> QED BY <1>1, <1>2 DEF ZREM

LEMMA ZPopOutcome ==
  ASSUME DataInv, NEW k \in Key, NEW count, ZPOPMIN(k, count) \/ ZPOPMAX(k, count)
  PROVE  Outcome(k)
<1>1. CASE Answer(OK) \/ Answer(Err)
  BY <1>1, AnswerOutcome
<1>2. ASSUME NEW n, Holds(k, "sortedset"), Write(k, Obj("sortedset", Popped(Val(k), n)), Nil)
      PROVE  Outcome(k)
  <2>1. Val(k) \in IntScores
    BY <1>2, ScoresAt DEF Holds, WrongType, ScoresOf
  <2> QED BY <1>2, <2>1, PoppedStays, ScoresObj, WriteOutcome
<1> QED BY <1>1, <1>2 DEF ZPOPMIN, ZPOPMAX, ZPOP

LEMMA SortedSetStep ==
  ASSUME DataInv, NEW k \in Key, SortedSetNext(k)
  PROVE  Outcome(k)
<1>1. CASE \E pairs \in FloatPairs, F \in FlagSets : EvalZADD(k, pairs, F)
  BY <1>1, EvalZAddOutcome
<1>2. CASE \E m, n \in Member : EvalZREM(k, <<m, n>>)
  BY <1>2, EvalZRemOutcome
<1>3. CASE \E count \in {NaN, 0, 1, 2} : EvalZPOPMIN(k, count) \/ EvalZPOPMAX(k, count)
  BY <1>3, EvalZPopOutcome
<1>4. CASE \E pairs \in PairLists, F \in FlagSets : ZADD(k, pairs, F)
  BY <1>4, ZAddOutcome
<1>5. CASE \E m, n \in Member : ZREM(k, <<m, n>>)
  BY <1>5, ZRemOutcome
<1>6. CASE \E count \in {NaN, 0, 1, 2} : ZPOPMIN(k, count) \/ ZPOPMAX(k, count)
  BY <1>6, ZPopOutcome
<1> QED BY <1>1, <1>2, <1>3, <1>4, <1>5, <1>6 DEF SortedSetNext, FloatPairs

-----------------------------------------------------------------------------
(* Hashes *)

\* The maps that a hash may grow into.
Grown(h) ==
  UNION {[S -> Range(h) \cup {Text, 0}] :
           S \in {T \in SUBSET Field : IsFiniteSet(T) /\ DOMAIN h \subseteq T}}

LEMMA GrownDef ==
  ASSUME NEW h, NEW m
  PROVE  m \in Grown(h) <=> /\ DOMAIN m \subseteq Field /\ IsFiniteSet(DOMAIN m)
                            /\ DOMAIN h \subseteq DOMAIN m
                            /\ m \in [DOMAIN m -> Range(h) \cup {Text, 0}]
BY DEF Grown

LEMMA PairIsField ==
  ASSUME NEW p \in FieldValues
  PROVE  p[1] \in Field /\ p[2] \in {Text, 0}
<1>1. Counter \subseteq Field
  BY NumberAssumption
<1> QED BY <1>1 DEF FieldValues

LEMMA SetFieldGrows ==
  ASSUME NEW h, NEW m \in Grown(h), NEW p \in FieldValues
  PROVE  HSetField(m, p[1], p[2]) \in Grown(h)
<1> DEFINE c == HSetField(m, p[1], p[2])
<1>1. p[1] \in Field /\ p[2] \in {Text, 0}
  BY PairIsField
<1>2. /\ DOMAIN m \subseteq Field /\ IsFiniteSet(DOMAIN m) /\ DOMAIN h \subseteq DOMAIN m
      /\ m \in [DOMAIN m -> Range(h) \cup {Text, 0}]
  BY GrownDef
<1>3. DOMAIN c = DOMAIN m \cup {p[1]} /\ c \in [DOMAIN c -> Range(h) \cup {Text, 0}]
  BY <1>1, <1>2 DEF HSetField
<1>4. IsFiniteSet(DOMAIN m \cup {p[1]})
  BY <1>2, FS_AddElement
<1> HIDE DEF c
<1>5. c \in Grown(h)
  BY <1>1, <1>2, <1>3, <1>4, GrownDef
<1> QED BY <1>5 DEF c

LEMMA HashGrows ==
  ASSUME NEW h, FieldMap(h)
  PROVE  h \in Grown(h)
<1>1. \A x \in DOMAIN h : h[x] \in Range(h)
  BY DEF Range
<1>2. h \in [DOMAIN h -> Range(h) \cup {Text, 0}]
  BY <1>1 DEF FieldMap
<1> QED BY <1>2, GrownDef DEF FieldMap

\* Setting the pairs one by one.
Builds(g, h, pairs, n) ==
  g[0] = h /\ \A i \in 1..n : g[i] = HSetField(g[i - 1], pairs[i][1], pairs[i][2])

BuildsTo(m, h, pairs, n) == \E g : Builds(g, h, pairs, n) /\ m = g[n]

LEMMA BuilderLoop ==
  ASSUME NEW h, FieldMap(h), NEW len \in Nat, NEW pairs \in [1..len -> FieldValues]
  PROVE  BuildsTo(hashMapBuilder(h, pairs), h, pairs, len)
<1> DEFINE n == len
           xs == pairs
           Body(it) == [s \in SUBSET DOMAIN xs |->
                          IF s = {} THEN h ELSE HSetField(it[s \ {Max(s)}], xs[Max(s)][1], xs[Max(s)][2])]
           step == [q \in (1..n) \X Grown(h) |-> HSetField(q[2], xs[q[1]][1], xs[q[1]][2])]
           f == CHOOSE it : it = Body(it)
<1>3. n \in Nat /\ DOMAIN xs = 1..n /\ h \in Grown(h)
  BY HashGrows
<1>2. /\ step \in [(1..n) \X Grown(h) -> Grown(h)]
      /\ \A i \in 1..n, a \in Grown(h) : step[<<i, a>>] = HSetField(a, xs[i][1], xs[i][2])
  <2>1. \A q \in (1..n) \X Grown(h) : HSetField(q[2], xs[q[1]][1], xs[q[1]][2]) \in Grown(h)
    BY SetFieldGrows
  <2> HIDE DEF xs, n
  <2> QED BY <2>1
<1>4. \A s \in SUBSET (1..n) : s # {} => Max(s) \in 1..n /\ s \ {Max(s)} \in SUBSET (1..n)
  BY <1>3, MaxChooses DEF Chooser, MaxOf
<1>5. hashMapBuilder(h, pairs) = f[1..n]
  BY <1>3 DEF hashMapBuilder, FoldLeft, MapThenFoldSet
<1> HIDE DEF step, xs, n
<1>6. \E it : it = Body(it)
  <2>1. PICK it \in [SUBSET (1..n) -> Grown(h)] : LeftSteps(it, n, h, step)
    BY <1>2, <1>3, FoldLeftExists
  <2>2. \A s \in SUBSET (1..n) : it[s] = Body(it)[s]
    BY <1>2, <1>3, <1>4, <2>1 DEF LeftSteps, LeftStep
  <2>3. it = Body(it)
    BY <1>3, <2>1, <2>2
  <2> QED BY <2>3
<1>7. f = Body(f)
  <2> HIDE DEF Body
  <2> QED BY <1>6
<1> HIDE DEF f
<1>8. LeftFold(f, n, Grown(h), h, step)
  BY <1>2, <1>3, <1>4, <1>7 DEF LeftFold, LeftStep
<1>9. FoldsTo(f[1..n], n, Grown(h), h, step)
  BY <1>2, <1>3, <1>8, FoldLeftLaw
<1>10. PICK g \in [0..n -> Grown(h)] : Follows(g, n, h, step) /\ f[1..n] = g[n]
  BY <1>9 DEF FoldsTo
<1>11. Builds(g, h, xs, n)
  <2>1. g[0] = h /\ \A i \in 1..n : g[i] = step[<<i, g[i - 1]>>]
    BY <1>10 DEF Follows
  <2>2. \A i \in 1..n : g[i - 1] \in Grown(h)
    BY <1>3, <1>10
  <2> QED BY <1>2, <2>1, <2>2 DEF Builds
<1> QED BY <1>5, <1>10, <1>11 DEF BuildsTo, xs, n

LEMMA SetFieldIs ==
  ASSUME NEW h, FieldMap(h), NEW f \in Field, NEW v
  PROVE  FieldMap(HSetField(h, f, v)) /\ DOMAIN h \subseteq DOMAIN HSetField(h, f, v)
<1>1. IsFiniteSet(DOMAIN h \cup {f})
  BY FS_AddElement DEF FieldMap
<1> QED BY <1>1 DEF HSetField, FieldMap

LEMMA KnownMap ==
  ASSUME NEW h, FieldMap(h), NEW e, Known(h, e)
  PROVE  FieldMap(e)
<1>1. IsFiniteSet(DOMAIN e)
  BY FS_Subset DEF FieldMap, Known
<1> QED BY <1>1 DEF FieldMap, Known

\* What is known when a field is set, by a sum that is exact or by another.
LEMMA KnownSet ==
  ASSUME NEW h, NEW e, Known(h, e), NEW f, NEW v
  PROVE  /\ v \in Int => Known(HSetField(h, f, v), HSetField(e, f, v))
         /\ Known(HSetField(h, f, v), WithoutField(e, f))
         /\ f \notin DOMAIN e => Known(HSetField(h, f, v), e)
         /\ Known(WithoutField(h, f), WithoutField(e, f))
BY DEF Known, HSetField, WithoutField

LEMMA BuiltOne ==
  ASSUME NEW h, FieldMap(h), NEW p \in FieldValues
  PROVE  hashMapBuilder(h, <<p>>) = HSetField(h, p[1], p[2])
<1> DEFINE pairs == <<p>>
           m == hashMapBuilder(h, pairs)
<1>1. pairs \in [1..1 -> FieldValues] /\ pairs[1] = p
  OBVIOUS
<1>2. BuildsTo(m, h, pairs, 1)
  <2> HIDE DEF pairs
  <2> QED BY <1>1, BuilderLoop
<1> HIDE DEF m, pairs
<1>3. PICK g : Builds(g, h, pairs, 1) /\ m = g[1]
  BY <1>2 DEF BuildsTo
<1>4. g[0] = h /\ g[1] = HSetField(g[1 - 1], pairs[1][1], pairs[1][2])
  BY <1>3 DEF Builds
<1> QED BY <1>1, <1>3, <1>4 DEF m, pairs

LEMMA BuiltTwo ==
  ASSUME NEW h, FieldMap(h), NEW p \in FieldValues, NEW q \in FieldValues
  PROVE  hashMapBuilder(h, <<p, q>>) = HSetField(HSetField(h, p[1], p[2]), q[1], q[2])
<1> DEFINE pairs == <<p, q>>
           m == hashMapBuilder(h, pairs)
<1>1. pairs \in [1..2 -> FieldValues] /\ pairs[1] = p /\ pairs[2] = q
  OBVIOUS
<1>2. BuildsTo(m, h, pairs, 2)
  <2> HIDE DEF pairs
  <2> QED BY <1>1, BuilderLoop
<1> HIDE DEF m, pairs
<1>3. PICK g : Builds(g, h, pairs, 2) /\ m = g[2]
  BY <1>2 DEF BuildsTo
<1>4. /\ g[0] = h /\ g[1] = HSetField(g[1 - 1], pairs[1][1], pairs[1][2])
      /\ g[2] = HSetField(g[2 - 1], pairs[2][1], pairs[2][2])
  BY <1>3 DEF Builds
<1>5. 1 - 1 = 0 /\ 2 - 1 = 1
  OBVIOUS
<1> QED BY <1>1, <1>3, <1>4, <1>5 DEF m, pairs

\* Pairs are set in a hash, and what is known of it is told the same.
Built(h, e, pairs) ==
  /\ FieldMap(hashMapBuilder(h, pairs)) /\ DOMAIN h \subseteq DOMAIN hashMapBuilder(h, pairs)
  /\ Known(hashMapBuilder(h, pairs), hashMapBuilder(e, pairs))

LEMMA ValuesAreInt ==
  ASSUME NEW p \in FieldValues
  PROVE  p[1] \in Field /\ p[2] \in Int
BY PairIsField, NumberAssumption

LEMMA BuiltIs ==
  ASSUME NEW h, FieldMap(h), NEW e, Known(h, e), NEW p \in FieldValues
  PROVE  Built(h, e, <<p>>) /\ \A q \in FieldValues : Built(h, e, <<p, q>>)
<1> DEFINE h1 == HSetField(h, p[1], p[2])
           e1 == HSetField(e, p[1], p[2])
<1>1. FieldMap(h1) /\ DOMAIN h \subseteq DOMAIN h1 /\ Known(h1, e1)
  BY ValuesAreInt, SetFieldIs, KnownSet
<1>2. FieldMap(e)
  BY KnownMap
<1>3. hashMapBuilder(h, <<p>>) = h1 /\ hashMapBuilder(e, <<p>>) = e1
  BY <1>2, BuiltOne
<1>4. ASSUME NEW q \in FieldValues PROVE Built(h, e, <<p, q>>)
  <2> DEFINE h2 == HSetField(h1, q[1], q[2])
             e2 == HSetField(e1, q[1], q[2])
  <2>1. hashMapBuilder(h, <<p, q>>) = h2 /\ hashMapBuilder(e, <<p, q>>) = e2
    BY <1>2, BuiltTwo
  <2> HIDE DEF h1, e1
  <2>2. FieldMap(h2) /\ DOMAIN h1 \subseteq DOMAIN h2 /\ Known(h2, e2)
    BY <1>1, ValuesAreInt, SetFieldIs, KnownSet
  <2> HIDE DEF h2, e2
  <2> QED BY <1>1, <2>1, <2>2 DEF Built
<1> HIDE DEF h1, e1
<1> QED BY <1>1, <1>3, <1>4 DEF Built

\* Fields added to a hash move none of the others back.
LEMMA RankGrows ==
  ASSUME NEW h, NEW m, IsFiniteSet(DOMAIN m), DOMAIN h \subseteq DOMAIN m, NEW f
  PROVE  FieldRank(h, f) \in Nat /\ FieldRank(m, f) \in Nat /\ FieldRank(h, f) <= FieldRank(m, f)
<1> DEFINE S == Lower(f, DOMAIN h, IntOrder)
           T == Lower(f, DOMAIN m, IntOrder)
<1>1. S \subseteq T /\ T \subseteq DOMAIN m
  BY DEF Lower
<1> HIDE DEF S, T
<1>2. IsFiniteSet(T)
  BY <1>1, FS_Subset
<1>3. IsFiniteSet(S) /\ Cardinality(S) <= Cardinality(T)
  BY <1>1, <1>2, FS_Subset
<1>4. Cardinality(S) \in Nat /\ Cardinality(T) \in Nat
  BY <1>2, <1>3, FS_CardinalityType
<1> QED BY <1>3, <1>4 DEF FieldRank, S, T

LEMMA ScanKept ==
  ASSUME NEW h, NEW m, FieldMap(m), DOMAIN h \subseteq DOMAIN m, NEW scan, ScanState(h, scan)
  PROVE  ScanState(m, scan)
<1>1. scan.must \subseteq DOMAIN m \cap scan.match
  BY DEF ScanState
<1>2. ASSUME scan.clean, NEW f \in scan.must \ scan.seen
      PROVE  scan.cursor # 0 /\ FieldRank(m, f) >= scan.cursor
  <2>1. scan.cursor # 0 /\ FieldRank(h, f) >= scan.cursor /\ scan.cursor \in Nat
    BY <1>2 DEF ScanState
  <2>2. FieldRank(h, f) \in Nat /\ FieldRank(m, f) \in Nat /\ FieldRank(h, f) <= FieldRank(m, f)
    BY RankGrows DEF FieldMap
  <2> QED BY <2>1, <2>2
<1> QED BY <1>1, <1>2 DEF ScanState

\* The hash of a key that holds no other type.
LEMMA HashAt ==
  ASSUME DataInv, NEW k \in Key, ~WrongType(k, "ssmap")
  PROVE  /\ IsHash(HMap(k), HGhost(k))
         /\ Exists(k) => store[k] = Obj("ssmap", HMap(k)) /\ HMap(k) = Val(k) /\ HGhost(k) = ghost[k]
<1>1. CASE Exists(k)
  <2>1. store[k].type = "ssmap" /\ Cell(store[k], ghost[k])
    BY <1>1 DEF WrongType, DataInv
  <2>2. IsHash(store[k].val, ghost[k]) /\ store[k] = Obj("ssmap", store[k].val)
    BY <2>1 DEF Cell, HashCell, Shape
  <2> QED BY <1>1, <2>2 DEF HMap, HGhost, Val, GhostOr
<1>2. CASE ~Exists(k)
  <2>0. Known(<<>>, <<>>)
    BY DEF Known
  <2>1. HMap(k) = <<>> /\ HGhost(k) = [exact |-> <<>>, scan |-> NoScan]
    BY <1>2 DEF HMap, HGhost, GhostOr
  <2>2. FieldMap(<<>>)
    BY FS_EmptySet DEF FieldMap
  <2>3. ScanState(<<>>, NoScan)
    BY DEF ScanState, NoScan
  <2> QED BY <1>2, <2>0, <2>1, <2>2, <2>3 DEF IsHash
<1> QED BY <1>1, <1>2

LEMMA HashObj ==
  ASSUME NEW h, NEW g, FieldMap(h), g = [exact |-> g.exact, scan |-> g.scan], Known(h, g.exact),
         ScanState(h, g.scan)
  PROVE  Cell(Obj("ssmap", h), g)
<1>1. "ssmap" \in Types
  BY DEF Types
<1>2. IsHash(h, g)
  BY DEF IsHash
<1> QED BY <1>1, <1>2, CellOf

\* Putting a map as the hash, and what is known of it.
LEMMA PutHashOutcome ==
  ASSUME DataInv, NEW k \in Key, ~WrongType(k, "ssmap"),
         NEW h, FieldMap(h), DOMAIN HMap(k) \subseteq DOMAIN h, NEW e, Known(h, e), PutHash(k, h, e)
  PROVE  Outcome(k)
<1> DEFINE old == HGhost(k)
           g == [old EXCEPT !.exact = e]
<1>1. old = [exact |-> old.exact, scan |-> old.scan] /\ ScanState(HMap(k), old.scan)
  BY HashAt DEF IsHash
<1>2. Write(k, Obj("ssmap", h), g)
  BY DEF PutHash
<1>3. ScanState(h, old.scan)
  BY <1>1, ScanKept
<1> HIDE DEF old
<1>4. g = [exact |-> e, scan |-> old.scan] /\ g.exact = e /\ g.scan = old.scan
  BY <1>1
<1> HIDE DEF g
<1>5. Cell(Obj("ssmap", h), g)
  BY <1>3, <1>4, HashObj
<1> QED BY <1>2, <1>5, WriteOutcome

LEMMA InsertOutcome ==
  ASSUME DataInv, NEW k \in Key, ~WrongType(k, "ssmap"), NEW pairs,
         Built(HMap(k), HGhost(k).exact, pairs), insertInHashMap(k, pairs)
  PROVE  Outcome(k)
BY PutHashOutcome DEF Built, insertInHashMap

LEMMA EvalHSetOutcome ==
  ASSUME DataInv, NEW k \in Key, NEW p \in FieldValues, NEW q \in FieldValues, NEW odd \in BOOLEAN,
         EvalHSET(k, <<p, q>>, odd)
  PROVE  Outcome(k)
<1> DEFINE pairs == <<p, q>>
           h == HMap(k)
           e == HGhost(k).exact
           m == hashMapBuilder(h, pairs)
<1>1. CASE Answer(Err)
  BY <1>1, AnswerOutcome
<1>2. ASSUME ~WrongType(k, "ssmap")
      PROVE  Built(h, e, pairs)
  <2>1. IsHash(h, HGhost(k))
    BY <1>2, HashAt
  <2>2. Known(h, e) /\ FieldMap(h)
    BY <2>1 DEF IsHash
  <2> HIDE DEF h, e
  <2> QED BY <2>2, BuiltIs
<1>3. CASE ~WrongType(k, "ssmap") /\ insertInHashMap(k, pairs)
  <2> HIDE DEF pairs
  <2> QED BY <1>2, <1>3, InsertOutcome
<1>4. CASE /\ Holds(k, "ssmap")
           /\ store' = [store EXCEPT ![k].val = hashMapBuilder(@, pairs)]
           /\ ghost' = [ghost EXCEPT ![k].exact = hashMapBuilder(@, pairs)]
           /\ reply' = Err
  <2>1. /\ ~WrongType(k, "ssmap") /\ store[k] = Obj("ssmap", h) /\ e = ghost[k].exact
        /\ ghost[k] = [exact |-> e, scan |-> ghost[k].scan] /\ ScanState(h, ghost[k].scan)
    BY <1>4, HashAt DEF Holds, WrongType, IsHash
  <2> DEFINE b == hashMapBuilder(e, pairs)
             g == [exact |-> b, scan |-> ghost[k].scan]
  <2>2. store' = [store EXCEPT ![k] = Obj("ssmap", m)]
    <3>1. store' = [store EXCEPT ![k] = [store[k] EXCEPT !.val = hashMapBuilder(store[k].val, pairs)]]
      BY <1>4
    <3>2. [store[k] EXCEPT !.val = hashMapBuilder(store[k].val, pairs)] = Obj("ssmap", m)
      BY <2>1 DEF Obj
    <3> QED BY <3>1, <3>2
  <2>3. ghost' = [ghost EXCEPT ![k] = g]
    <3>1. ghost' = [ghost EXCEPT ![k] = [ghost[k] EXCEPT !.exact = hashMapBuilder(ghost[k].exact, pairs)]]
      BY <1>4
    <3>2. [ghost[k] EXCEPT !.exact = hashMapBuilder(ghost[k].exact, pairs)] = g
      <4> HIDE DEF e, pairs
      <4> QED BY <2>1
    <3> QED BY <3>1, <3>2
  <2>4. Put(k, Obj("ssmap", m), g)
    BY <2>2, <2>3 DEF Put
  <2>5. g = [exact |-> g.exact, scan |-> g.scan] /\ g.exact = b /\ g.scan = ghost[k].scan
    OBVIOUS
  <2>6. FieldMap(m) /\ DOMAIN h \subseteq DOMAIN m /\ Known(m, b)
    BY <1>2, <2>1 DEF Built
  <2> HIDE DEF m, g, h, b, e
  <2>7. Cell(Obj("ssmap", m), g)
    BY <2>1, <2>5, <2>6, HashObj, ScanKept
  <2>8. Residue(store[k], Obj("ssmap", m))
    BY <2>1, <2>6, ObjFields DEF Residue
  <2> QED BY <1>4, <2>4, <2>7, <2>8 DEF Outcome
<1> QED BY <1>1, <1>3, <1>4 DEF EvalHSET

LEMMA EvalHSetNXOutcome ==
  ASSUME DataInv, NEW k \in Key, NEW p \in FieldValues, EvalHSETNX(k, p[1], p[2])
  PROVE  Outcome(k)
<1> DEFINE pairs == <<<<p[1], p[2]>>>>
<1>1. CASE Answer(Err) \/ Answer(OK)
  BY <1>1, AnswerOutcome
<1>2. CASE ~WrongType(k, "ssmap") /\ insertInHashMap(k, pairs)
  <2>1. IsHash(HMap(k), HGhost(k))
    BY <1>2, HashAt
  <2>2. Known(HMap(k), HGhost(k).exact) /\ FieldMap(HMap(k))
    BY <2>1 DEF IsHash
  <2>3. pairs = <<p>>
    BY DEF FieldValues
  <2>4. Built(HMap(k), HGhost(k).exact, pairs)
    BY <2>2, <2>3, BuiltIs
  <2> HIDE DEF pairs
  <2> QED BY <1>2, <2>4, InsertOutcome
<1> QED BY <1>1, <1>2 DEF EvalHSETNX

\* A sum that is not refused does not wrap around.
LEMMA NoWrap ==
  ASSUME NEW i, NEW n, IsInt(i), IsInt(n), ~Overflows(i, n)
  PROVE  Wrapped(i + n) = n + i
<1>1. MaxInt \in Nat /\ i \in (-MaxInt - 2)..MaxInt /\ n \in (-MaxInt - 2)..MaxInt
  BY NumberAssumption DEF IsInt
<1>2. i + n <= MaxInt /\ i + n >= -MaxInt - 2
  BY <1>1 DEF Overflows
<1> QED BY <1>1, <1>2 DEF Wrapped

\* What a field holds, and the sum of what it is known to be.
LEMMA SumKnown ==
  ASSUME NEW h, NEW e, Known(h, e), NEW f, f \notin DOMAIN h \ DOMAIN e, NEW n \in Int
  PROVE  LET old == IF f \in DOMAIN h THEN h[f] ELSE 0
         IN old \in Int /\ ExactSum(e, f, n) = n + old /\ ExactSum(e, f, n) \in Int
<1>1. f \in DOMAIN h <=> f \in DOMAIN e
  BY DEF Known
<1>2. f \in DOMAIN e => e[f] = h[f] /\ e[f] \in Int
  BY DEF Known
<1> QED BY <1>1, <1>2 DEF ExactSum

LEMMA EvalHIncrByOutcome ==
  ASSUME DataInv, NEW k \in Key, NEW f \in Counter, NEW n, EvalHINCRBY(k, f, n)
  PROVE  Outcome(k)
<1> DEFINE h == HMap(k)
           e == HGhost(k).exact
           old == IF f \in DOMAIN h THEN h[f] ELSE 0
           v == Wrapped(old + n)
           m == HSetField(h, f, v)
           b == IF Inexact(k, f) THEN e ELSE HSetField(e, f, ExactSum(e, f, n))
<1>1. CASE Answer(Err)
  BY <1>1, AnswerOutcome
<1>2. CASE /\ ~WrongType(k, "ssmap") /\ IsInt(n) /\ IsInt(old) /\ ~Overflows(old, n)
           /\ PutHash(k, m, b)
  <2>1. IsHash(h, HGhost(k))
    BY <1>2, HashAt
  <2>2. Known(h, e) /\ FieldMap(h)
    BY <2>1 DEF IsHash
  <2>3. v = n + old /\ n \in Int
    <3> HIDE DEF old
    <3> QED BY <1>2, NoWrap, NumberAssumption DEF IsInt
  <2>4. FieldMap(m) /\ DOMAIN h \subseteq DOMAIN m
    <3>1. f \in Field
      BY NumberAssumption
    <3> HIDE DEF h, v
    <3> QED BY <2>2, <3>1, SetFieldIs
  <2>5. Inexact(k, f) <=> f \in DOMAIN h \ DOMAIN e
    BY DEF Inexact
  <2>6. CASE Inexact(k, f)
    <3>1. b = e /\ f \notin DOMAIN e
      BY <2>5, <2>6
    <3>2. Known(m, b)
      <4> HIDE DEF h, e, v, b
      <4> QED BY <2>2, <3>1, KnownSet
    <3> HIDE DEF m, b
    <3> QED BY <1>2, <2>4, <3>2, PutHashOutcome
  <2>7. CASE ~Inexact(k, f)
    <3>1. ExactSum(e, f, n) = n + old /\ ExactSum(e, f, n) \in Int
      <4> HIDE DEF h, e
      <4> QED BY <2>2, <2>3, <2>5, <2>7, SumKnown
    <3>2. b = HSetField(e, f, v) /\ v \in Int
      <4> HIDE DEF v, old, e
      <4> QED BY <2>3, <2>7, <3>1
    <3>3. Known(m, b)
      <4> HIDE DEF h, e, v, b
      <4> QED BY <2>2, <3>2, KnownSet
    <3> HIDE DEF m, b
    <3> QED BY <1>2, <2>4, <3>3, PutHashOutcome
  <2> QED BY <2>6, <2>7
<1> QED BY <1>1, <1>2 DEF EvalHINCRBY

LEMMA EvalHIncrByFloatOutcome ==
  ASSUME DataInv, NEW k \in Key, NEW f \in Counter, NEW n \in Incr \cup {Text}, EvalHINCRBYFLOAT(k, f, n)
  PROVE  Outcome(k)
<1> DEFINE h == HMap(k)
           e == HGhost(k).exact
           new == IF f \in DOMAIN h THEN Rounded(h[f] + n) ELSE n
           sum == ExactSum(e, f, n)
           m == HSetField(h, f, new)
           lost == Inexact(k, f) \/ sum \notin -MaxExact..MaxExact
           b == IF lost THEN WithoutField(e, f) ELSE HSetField(e, f, sum)
<1>1. CASE Answer(Err)
  BY <1>1, AnswerOutcome
<1>2. CASE ~WrongType(k, "ssmap") /\ PutHash(k, m, b)
  <2>1. IsHash(h, HGhost(k))
    BY <1>2, HashAt
  <2>2. Known(h, e) /\ FieldMap(h)
    BY <2>1 DEF IsHash
  <2>3. FieldMap(m) /\ DOMAIN h \subseteq DOMAIN m
    <3>1. f \in Field
      BY NumberAssumption
    <3> HIDE DEF h, new
    <3> QED BY <2>2, <3>1, SetFieldIs
  <2>4. CASE lost
    <3>1. b = WithoutField(e, f)
      BY <2>4
    <3>2. Known(m, b)
      <4> HIDE DEF h, e, new, b
      <4> QED BY <2>2, <3>1, KnownSet
    <3> HIDE DEF m, b
    <3> QED BY <1>2, <2>3, <3>2, PutHashOutcome
  <2>5. CASE ~lost
    <3> DEFINE old == IF f \in DOMAIN h THEN h[f] ELSE 0
    <3>0. n \in Int
      BY NumberAssumption
    <3>1. old \in Int /\ sum = n + old /\ sum \in Int
      <4>1. f \notin DOMAIN h \ DOMAIN e
        BY <2>5 DEF Inexact
      <4> HIDE DEF h, e
      <4> QED BY <2>2, <3>0, <4>1, SumKnown
    <3>2. sum \in -MaxExact..MaxExact
      BY <2>5
    <3>3. new = sum
      <4>1. CASE f \in DOMAIN h
        <5>1. new = Rounded(old + n)
          BY <4>1
        <5> HIDE DEF old, new, sum
        <5>2. old + n = sum
          BY <3>0, <3>1
        <5> QED BY <3>2, <5>1, <5>2 DEF Rounded
      <4>2. CASE f \notin DOMAIN h
        <5>1. new = n /\ old = 0
          BY <4>2
        <5> HIDE DEF old, new, sum
        <5> QED BY <3>0, <3>1, <5>1
      <4> QED BY <4>1, <4>2
    <3>4. b = HSetField(e, f, new)
      <4>1. b = HSetField(e, f, sum)
        BY <2>5
      <4> HIDE DEF b, sum, new, e
      <4> QED BY <3>3, <4>1
    <3> HIDE DEF old
    <3>5. new \in Int
      <4> HIDE DEF new, sum
      <4> QED BY <3>1, <3>3
    <3>6. Known(m, b)
      <4> HIDE DEF h, e, new, b
      <4> QED BY <2>2, <3>4, <3>5, KnownSet
    <3> HIDE DEF m, b
    <3> QED BY <1>2, <2>3, <3>6, PutHashOutcome
  <2> QED BY <2>4, <2>5
<1> QED BY <1>1, <1>2 DEF EvalHINCRBYFLOAT

-----------------------------------------------------------------------------
(* Scans *)

LEMMA MinIs ==
  ASSUME NEW S, S \subseteq Nat, S # {}
  PROVE  Min(S) \in S /\ \A x \in S : Min(S) <= x
<1>1. \E m \in S : \A x \in S : m <= x
  BY LeastNat
<1> QED BY <1>1 DEF Min

\* SortedFields puts every field behind those below it.
LEMMA FieldsSorted ==
  ASSUME NEW h, FieldMap(h)
  PROVE  /\ Cardinality(DOMAIN h) \in Nat
         /\ SortedFields(h) \in [1..Cardinality(DOMAIN h) -> DOMAIN h]
         /\ Enumerates(SortedFields(h), Cardinality(DOMAIN h), DOMAIN h)
         /\ \A i \in 1..Cardinality(DOMAIN h) : FieldRank(h, SortedFields(h)[i]) = i - 1
<1> DEFINE S == DOMAIN h
           n == Cardinality(S)
           s == SortedFields(h)
           Up(t) == \A i, j \in 1..n : i < j => t[i] < t[j]
<1>1. IsFiniteSet(S) /\ S \in SUBSET Int
  BY NumberAssumption DEF FieldMap
<1>2. n \in Nat
  BY <1>1, FS_CardinalityType
<1> HIDE DEF S
<1>3. Orders(IntOrder, S)
  BY <1>1, IntOrdered
<1>4. \A t \in [1..n -> S] : Increasing(t, n, IntOrder) <=> Up(t)
  <2>1. \A t \in [1..n -> S], i \in 1..n : t[i] \in Int
    BY <1>1
  <2> HIDE DEF n
  <2> QED BY <2>1 DEF Increasing, IntOrder
<1>5. \E t \in [1..n -> S] : Up(t)
  <2>1. \E t \in [1..n -> S] : Increasing(t, n, IntOrder)
    BY <1>1, <1>3, IncreasingExists
  <2> HIDE DEF n, Up
  <2> QED BY <1>4, <2>1
<1>6. s = CHOOSE t \in [1..n -> S] : Up(t)
  BY DEF SortedFields, S
<1>7. s \in [1..n -> S] /\ Up(s)
  <2> HIDE DEF n, Up, s
  <2> QED BY <1>5, <1>6
<1>8. Increasing(s, n, IntOrder)
  <2> HIDE DEF n, Up, s
  <2> QED BY <1>4, <1>7
<1> HIDE DEF s
<1>9. Enumerates(s, n, S)
  BY <1>1, <1>3, <1>7, <1>8, IncreasingOnto
<1>10. \A i \in 1..n : Cardinality(Lower(s[i], S, IntOrder)) = i - 1
  BY <1>1, <1>3, <1>7, <1>8, IncreasingRank
<1>11. \A i \in 1..n : FieldRank(h, s[i]) = i - 1
  BY <1>10 DEF FieldRank, S
<1> QED BY <1>2, <1>7, <1>9, <1>11 DEF s, S

\* The position of a field, found by looking for it.
LEMMA FieldFound ==
  ASSUME NEW h, FieldMap(h), NEW f \in DOMAIN h
  PROVE  /\ FieldRank(h, f) \in Nat
         /\ SelectInSeq(SortedFields(h), LAMBDA x : x = f) = FieldRank(h, f) + 1
<1> DEFINE n == Cardinality(DOMAIN h)
           s == SortedFields(h)
           I == {i \in 1..Len(s) : s[i] = f}
<1>1. /\ n \in Nat /\ s \in [1..n -> DOMAIN h] /\ Enumerates(s, n, DOMAIN h)
      /\ \A i \in 1..n : FieldRank(h, s[i]) = i - 1
  BY FieldsSorted
<1>2. SelectInSeq(s, LAMBDA x : x = f) = IF I # {} THEN Min(I) ELSE 0
  BY DEF SelectInSeq
<1> HIDE DEF s, n
<1>3. Len(s) = n
  BY <1>1
<1>4. PICK i \in 1..n : s[i] = f
  BY <1>1 DEF Enumerates
<1>5. I = {i}
  BY <1>1, <1>3, <1>4 DEF Enumerates
<1>6. Min(I) = i
  <2> HIDE DEF I
  <2>1. I \subseteq Nat /\ I # {}
    BY <1>4, <1>5
  <2> QED BY <1>5, <2>1, MinIs
<1> QED BY <1>1, <1>2, <1>4, <1>5, <1>6 DEF s

\* Deleting a field that is not behind c fields leaves the others where a
\* cursor at c still meets them.
LEMMA RankWithout ==
  ASSUME NEW h, FieldMap(h), NEW f \in DOMAIN h, NEW x \in DOMAIN h, x # f,
         NEW m, DOMAIN m = DOMAIN h \ {f},
         NEW c \in Nat, FieldRank(h, f) >= c, FieldRank(h, x) >= c
  PROVE  FieldRank(m, x) >= c
<1> DEFINE X == Lower(x, DOMAIN h, IntOrder)
           F == Lower(f, DOMAIN h, IntOrder)
           M == Lower(x, DOMAIN m, IntOrder)
<1>1. IsFiniteSet(DOMAIN h) /\ X \subseteq DOMAIN h /\ F \subseteq DOMAIN h /\ DOMAIN h \subseteq Int
  BY NumberAssumption DEF Lower, FieldMap
<1>2. M = X \ {f}
  BY DEF Lower
<1>3. f \in X => F \cup {f} \subseteq X /\ f \notin F
  BY <1>1 DEF Lower, IntOrder
<1> HIDE DEF X, F, M
<1>4. /\ IsFiniteSet(X) /\ IsFiniteSet(F) /\ Cardinality(X) \in Nat /\ Cardinality(F) \in Nat
  BY <1>1, FS_Subset, FS_CardinalityType
<1>5. CASE f \in X
  <2>1. Cardinality(M) = Cardinality(X) - 1
    BY <1>2, <1>4, <1>5, FS_RemoveElement
  <2>2. IsFiniteSet(F \cup {f}) /\ Cardinality(F \cup {f}) = Cardinality(F) + 1
    BY <1>3, <1>4, <1>5, FS_AddElement
  <2>3. Cardinality(F \cup {f}) <= Cardinality(X)
    BY <1>3, <1>4, <1>5, FS_Subset
  <2> QED BY <1>4, <2>1, <2>2, <2>3 DEF FieldRank, F, M
<1>6. CASE f \notin X
  <2>1. M = X
    BY <1>2, <1>6
  <2> QED BY <2>1 DEF FieldRank, X, M
<1> QED BY <1>5, <1>6

LEMMA EvalHDelOutcome ==
  ASSUME DataInv, NEW k \in Key, NEW f, EvalHDEL(k, f)
  PROVE  Outcome(k)
<1> DEFINE h == Val(k)
           scan == ghost[k].scan
           behind == SelectInSeq(SortedFields(h), LAMBDA x : x = f) <= scan.cursor
           e == ghost[k].exact
           m == WithoutField(h, f)
           b == WithoutField(e, f)
           new == [scan EXCEPT !.must = @ \ {f}, !.clean = @ /\ ~behind]
           g == [exact |-> b, scan |-> new]
<1>1. CASE Answer(OK) \/ Answer(Err)
  BY <1>1, AnswerOutcome
<1>2. ASSUME Holds(k, "ssmap"), f \in DOMAIN Val(k)
      PROVE  IsHash(h, ghost[k])
  BY <1>2, HashAt DEF Holds, WrongType, IsHash
<1>3. CASE /\ Holds(k, "ssmap") /\ f \in DOMAIN Val(k)
           /\ Write(k, Obj("ssmap", m), g)
  <2>1. FieldMap(h) /\ ScanState(h, scan) /\ Known(h, e)
    BY <1>2, <1>3 DEF IsHash
  <2>2. Known(m, b)
    <3> HIDE DEF h, e
    <3> QED BY <2>1, KnownSet
  <2>3. FieldMap(m) /\ DOMAIN m = DOMAIN h \ {f}
    <3>1. IsFiniteSet(DOMAIN h \ {f})
      BY <2>1, FS_RemoveElement DEF FieldMap
    <3> QED BY <2>1, <3>1 DEF FieldMap, WithoutField
  <2>4. /\ scan = [cursor |-> scan.cursor, match |-> scan.match, must |-> scan.must,
                   seen |-> scan.seen, clean |-> scan.clean]
        /\ scan.cursor \in Nat /\ scan.clean \in BOOLEAN
        /\ scan.must \subseteq DOMAIN h \cap scan.match
        /\ scan.clean => \A x \in scan.must \ scan.seen :
                           scan.cursor # 0 /\ FieldRank(h, x) >= scan.cursor
    BY <2>1 DEF ScanState
  <2>5. FieldRank(h, f) \in Nat /\ (behind <=> FieldRank(h, f) + 1 <= scan.cursor)
    BY <1>3, <2>1, FieldFound
  <2> DEFINE must == scan.must \ {f}
             clean == scan.clean /\ ~behind
             c == scan.cursor
  <2>6. new = [cursor |-> c, match |-> scan.match, must |-> must, seen |-> scan.seen, clean |-> clean]
    <3>1. new = [scan EXCEPT !.must = must, !.clean = clean]
      OBVIOUS
    <3> HIDE DEF scan, must, clean, new
    <3> QED BY <2>4, <3>1
  <2>7. must \subseteq DOMAIN m \cap scan.match /\ must \subseteq scan.must
    BY <2>3, <2>4
  <2>8. clean => \A x \in must \ scan.seen : c # 0 /\ FieldRank(m, x) >= c
    <3> SUFFICES ASSUME clean, NEW x \in must \ scan.seen
                 PROVE  c # 0 /\ FieldRank(m, x) >= c
      OBVIOUS
    <3>1. x \in DOMAIN h /\ x # f /\ x \in scan.must \ scan.seen
      BY <2>4
    <3>2. c # 0 /\ FieldRank(h, x) >= c /\ c \in Nat
      BY <2>4, <3>1
    <3>3. FieldRank(h, f) >= c
      <4>1. ~(FieldRank(h, f) + 1 <= c)
        BY <2>5
      <4> HIDE DEF clean, behind, c
      <4> QED BY <2>5, <3>2, <4>1
    <3> HIDE DEF m, c, clean
    <3> QED BY <1>3, <2>1, <2>3, <3>1, <3>2, <3>3, RankWithout
  <2>9. clean \in BOOLEAN
    OBVIOUS
  <2> HIDE DEF behind, clean, must
  <2>10. ScanState(m, new)
    BY <2>4, <2>6, <2>7, <2>8, <2>9 DEF ScanState
  <2> HIDE DEF m, b, new
  <2>11. g = [exact |-> g.exact, scan |-> g.scan] /\ g.exact = b /\ g.scan = new
    OBVIOUS
  <2> HIDE DEF g
  <2>12. Cell(Obj("ssmap", m), g)
    BY <2>2, <2>3, <2>10, <2>11, HashObj
  <2> QED BY <1>3, <2>12, WriteOutcome DEF m, g, b
<1> QED BY <1>1, <1>3 DEF EvalHDEL

LEMMA EvalHScanOutcome ==
  ASSUME DataInv, NEW k \in Key, NEW pattern, NEW count, EvalHSCAN(k, pattern, count)
  PROVE  Outcome(k)
<1> DEFINE h == Val(k)
           keys == SortedFields(h)
           cursor == ghost[k].scan.cursor
           scan == IF cursor # 0 THEN ghost[k].scan
                   ELSE [NoScan EXCEPT !.match = pattern, !.must = DOMAIN h \cap pattern]
           Matched(i) == {j \in (cursor + 1)..i : keys[j] \in scan.match}
           full == {i \in (cursor + 1)..Len(keys) : Cardinality(Matched(i)) = count}
           last == IF full = {} THEN Len(keys) ELSE Min(full)
           c == newCursor(full, Len(keys))
           seen == scan.seen \cup {keys[j] : j \in Matched(last)}
           new == [scan EXCEPT !.cursor = c, !.seen = @ \cup {keys[j] : j \in Matched(last)}]
           g == [ghost[k] EXCEPT !.scan = new]
<1>1. CASE Answer(OK) \/ Answer(Err)
  BY <1>1, AnswerOutcome
<1>2. CASE Holds(k, "ssmap") /\ Write(k, store[k], g)
  <2>1. IsHash(h, ghost[k]) /\ store[k] = Obj("ssmap", h)
    BY <1>2, HashAt DEF Holds, WrongType, IsHash
  <2>2. /\ FieldMap(h) /\ ScanState(h, ghost[k].scan)
        /\ ghost[k] = [exact |-> ghost[k].exact, scan |-> ghost[k].scan] /\ Known(h, ghost[k].exact)
    BY <2>1 DEF IsHash
  <2> DEFINE n == Cardinality(DOMAIN h)
  <2>3. /\ n \in Nat /\ keys \in [1..n -> DOMAIN h] /\ Enumerates(keys, n, DOMAIN h)
        /\ \A i \in 1..n : FieldRank(h, keys[i]) = i - 1
    BY <2>2, FieldsSorted
  <2>4. /\ scan = [cursor |-> scan.cursor, match |-> scan.match, must |-> scan.must,
                   seen |-> scan.seen, clean |-> scan.clean]
        /\ cursor \in Nat /\ scan.clean \in BOOLEAN
        /\ scan.must \subseteq DOMAIN h \cap scan.match
        /\ scan.clean => \A f \in scan.must \ scan.seen : FieldRank(h, f) >= cursor
    <3>1. CASE cursor # 0
      BY <2>2, <3>1 DEF ScanState
    <3>2. CASE cursor = 0
      <4>1. scan = [cursor |-> 0, match |-> pattern, must |-> DOMAIN h \cap pattern,
                    seen |-> {}, clean |-> TRUE]
        BY <3>2 DEF NoScan
      <4>2. \A f : FieldRank(h, f) >= 0
        BY <2>2, RankGrows DEF FieldMap
      <4> HIDE DEF scan, h, cursor
      <4> QED BY <3>2, <4>1, <4>2
    <3> QED BY <3>1, <3>2
  <2> HIDE DEF keys, n, cursor, scan, h
  <2>5. Len(keys) = n
    BY <2>3
  <2>6. full \subseteq Nat /\ (full # {} => Min(full) \in full)
    <3>1. full \subseteq Nat
      BY <2>3, <2>4, <2>5
    <3> HIDE DEF full
    <3> QED BY <3>1, MinIs
  <2>7. /\ last \in Nat /\ c \in Nat
        /\ full # {} => last \in (cursor + 1)..n /\ (last < n => c = last)
        /\ full = {} => last = n
    <3>1. full # {} => Min(full) \in (cursor + 1)..n
      BY <2>5, <2>6
    <3> HIDE DEF full
    <3> QED BY <2>3, <2>4, <2>5, <2>6, <3>1 DEF newCursor
  <2> HIDE DEF full, last, c
  <2>8. scan.clean => \A f \in scan.must \ seen : c # 0 /\ FieldRank(h, f) >= c
    <3> SUFFICES ASSUME scan.clean, NEW f \in scan.must \ seen
                 PROVE  c # 0 /\ FieldRank(h, f) >= c
      OBVIOUS
    <3>1. f \in DOMAIN h /\ f \in scan.match /\ FieldRank(h, f) >= cursor
      BY <2>4
    <3>2. PICK i \in 1..n : keys[i] = f
      BY <2>3, <3>1 DEF Enumerates
    <3>3. FieldRank(h, f) = i - 1 /\ i >= cursor + 1
      BY <2>3, <2>4, <3>1, <3>2
    <3>4. ~(i <= last)
      <4> SUFFICES ASSUME i <= last PROVE FALSE
        OBVIOUS
      <4>1. i \in (cursor + 1)..last
        BY <2>4, <2>7, <3>3
      <4>2. i \in Matched(last)
        BY <3>1, <3>2, <4>1
      <4>3. f \in {keys[j] : j \in Matched(last)}
        <5> HIDE DEF Matched
        <5> QED BY <3>2, <4>2
      <4> HIDE DEF Matched
      <4> QED BY <4>3
    <3>5. full # {}
      BY <2>3, <2>7, <3>4
    <3>6. c = last /\ last >= 1
      BY <2>3, <2>4, <2>7, <3>4, <3>5
    <3> QED BY <2>7, <3>3, <3>4, <3>6
  <2>9. new = [cursor |-> c, match |-> scan.match, must |-> scan.must, seen |-> seen, clean |-> scan.clean]
    <3>1. new = [scan EXCEPT !.cursor = c, !.seen = seen]
      OBVIOUS
    <3> HIDE DEF new, seen
    <3> QED BY <2>4, <3>1
  <2> HIDE DEF seen
  <2>10. ScanState(h, new)
    BY <2>4, <2>7, <2>8, <2>9 DEF ScanState
  <2> HIDE DEF new
  <2>11. g = [exact |-> g.exact, scan |-> g.scan] /\ g.exact = ghost[k].exact /\ g.scan = new
    BY <2>2
  <2> HIDE DEF g
  <2>12. Cell(store[k], g)
    BY <2>1, <2>2, <2>10, <2>11, HashObj DEF h
  <2> QED BY <1>2, <2>12, WriteOutcome
<1> QED BY <1>1, <1>2 DEF EvalHSCAN

LEMMA HashStep ==
  ASSUME DataInv, NEW k \in Key, HashNext(k)
  PROVE  Outcome(k)
<1>1. CASE \E p, q \in FieldValues, odd \in BOOLEAN : EvalHSET(k, <<p, q>>, odd)
  BY <1>1, EvalHSetOutcome
<1>2. CASE \E p \in FieldValues : EvalHSETNX(k, p[1], p[2])
  BY <1>2, EvalHSetNXOutcome
<1>3. CASE \E f \in Field : EvalHDEL(k, f)
  BY <1>3, EvalHDelOutcome
<1>4. CASE \E f \in Counter, n \in Incr \cup {Text} : EvalHINCRBY(k, f, n) \/ EvalHINCRBYFLOAT(k, f, n)
  BY <1>4, EvalHIncrByOutcome, EvalHIncrByFloatOutcome
<1>5. CASE \E pattern \in Patterns, count \in {0, 1, 2} : EvalHSCAN(k, pattern, count)
  BY <1>5, EvalHScanOutcome
<1> QED BY <1>1, <1>2, <1>3, <1>4, <1>5 DEF HashNext

-----------------------------------------------------------------------------
(* Sums *)

AnyOf(D) == [s \in SUBSET D |-> CHOOSE x \in s : TRUE]

LEMMA AnyChooses ==
  ASSUME NEW D
  PROVE  Chooser(AnyOf(D), D)
BY DEF Chooser, AnyOf

LEMMA AnyFold ==
  ASSUME NEW D, IsFiniteSet(D), NEW V, NEW v \in V, NEW step \in [D \X V -> V]
  PROVE  \E it \in [SUBSET D -> V] : \A s \in SUBSET D : FoldStep(it, s, v, AnyOf(D), step)
BY AnyChooses, FoldExists

\* it[s] is the sum of f over s.
SumSteps(it, f, D) ==
  \A s \in SUBSET D : it[s] = IF s = {} THEN 0 ELSE f[AnyOf(D)[s]] + it[s \ {AnyOf(D)[s]}]

\* SumFunction adds up the values of a function one by one.
LEMMA SumIs ==
  ASSUME NEW D, IsFiniteSet(D), NEW f \in [D -> Int]
  PROVE  \E it \in [SUBSET D -> Int] : SumSteps(it, f, D) /\ SumFunction(f) = it[D]
<1> DEFINE Pick(s) == CHOOSE x \in s : TRUE
           Body(it) == [s \in SUBSET DOMAIN f |-> IF s = {} THEN 0 ELSE f[Pick(s)] + it[s \ {Pick(s)}]]
           step == [q \in D \X Int |-> f[q[1]] + q[2]]
           it0 == CHOOSE it : it = Body(it)
           ch == AnyOf(D)
<1>1. /\ step \in [D \X Int -> Int]
      /\ \A x \in D, a \in Int : step[<<x, a>>] = f[x] + a
  OBVIOUS
<1>2. DOMAIN f = D
  OBVIOUS
<1>3. \A s \in SUBSET D : Pick(s) = ch[s] /\ (s # {} => ch[s] \in D /\ s \ {ch[s]} \in SUBSET D)
  <2>1. \A s \in SUBSET D : Pick(s) = ch[s]
    BY DEF AnyOf
  <2> HIDE DEF ch, Pick
  <2> QED BY <2>1, AnyChooses DEF Chooser, ch
<1>4. Chooser(ch, D) /\ 0 \in Int
  BY AnyChooses
<1>5. SumFunction(f) = it0[D]
  BY <1>2 DEF SumFunction, SumFunctionOnSet, FoldFunctionOnSet, MapThenFoldSet
<1> HIDE DEF step, ch, Pick
<1>6. \E it : it = Body(it)
  <2> DEFINE zero == 0
             V == Int
  <2>4. zero \in V /\ step \in [D \X V -> V] /\ IsFiniteSet(D) /\ Chooser(ch, D)
    BY <1>1, <1>4
  <2> HIDE DEF zero, V
  <2>3. \E it \in [SUBSET D -> V] : \A s \in SUBSET D : FoldStep(it, s, zero, ch, step)
    BY <2>4, AnyFold DEF ch
  <2>1. PICK it \in [SUBSET D -> Int] : \A s \in SUBSET D : FoldStep(it, s, zero, ch, step)
    BY <2>3 DEF V
  <2>5. ASSUME NEW s \in SUBSET D, s # {}
        PROVE  it[s] = f[ch[s]] + it[s \ {ch[s]}]
    <3>1. ch[s] \in D /\ it[s \ {ch[s]}] \in Int
      BY <1>3, <2>1, <2>5
    <3>2. it[s] = step[<<ch[s], it[s \ {ch[s]}]>>]
      BY <2>1, <2>5 DEF FoldStep
    <3> QED BY <1>1, <3>1, <3>2
  <2>6. it[{}] = 0
    BY <2>1 DEF FoldStep, zero
  <2>2. \A s \in SUBSET D : it[s] = Body(it)[s]
    BY <1>2, <1>3, <2>5, <2>6
  <2>7. it = Body(it)
    BY <1>2, <2>1, <2>2
  <2> QED BY <2>7
<1>7. it0 = Body(it0)
  <2> HIDE DEF Body
  <2> QED BY <1>6
<1> HIDE DEF it0
<1>8. \A s \in SUBSET D : it0[s] = IF s = {} THEN 0 ELSE f[ch[s]] + it0[s \ {ch[s]}]
  BY <1>2, <1>3, <1>7
<1>9. Folds(it0, D, Int, 0, ch, step)
  BY <1>1, <1>3, <1>8 DEF Folds, FoldStep
<1>10. \A s \in SUBSET D : it0[s] \in Int
  BY <1>1, <1>4, <1>9, FoldTotal
<1>11. it0 = [s \in SUBSET D |-> it0[s]]
  BY <1>2, <1>7
<1>12. it0 \in [SUBSET D -> Int]
  BY <1>10, <1>11
<1>13. SumSteps(it0, f, D)
  BY <1>8 DEF SumSteps, ch
<1> QED BY <1>5, <1>12, <1>13

\* What holds of 0 and of the sum of a set when it holds of the sum of the
\* rest of it: the induction over the sets that sums go through.
LEMMA SumInd ==
  ASSUME NEW D, IsFiniteSet(D), NEW T, {} \in T,
         \A s \in SUBSET D : s # {} /\ s \ {AnyOf(D)[s]} \in T => s \in T
  PROVE  D \in T
<1>1. Chooser(AnyOf(D), D)
  BY AnyChooses
<1>2. SUBSET D \subseteq T
  BY <1>1, SubsetInd
<1> QED BY <1>2

LEMMA AnyIn ==
  ASSUME NEW D, NEW s \in SUBSET D, s # {}
  PROVE  AnyOf(D)[s] \in s /\ AnyOf(D)[s] \in D /\ s \ {AnyOf(D)[s]} \in SUBSET D
BY AnyChooses DEF Chooser

LEMMA SumNat ==
  ASSUME NEW D, IsFiniteSet(D), NEW f \in [D -> Nat]
  PROVE  SumFunction(f) \in Nat
<1>1. f \in [D -> Int]
  OBVIOUS
<1>2. PICK it \in [SUBSET D -> Int] : SumSteps(it, f, D) /\ SumFunction(f) = it[D]
  BY <1>1, SumIs
<1> DEFINE T == {s \in SUBSET D : it[s] \in Nat}
<1>3. {} \in T
  BY <1>2 DEF SumSteps
<1>4. ASSUME NEW s \in SUBSET D, s # {}, s \ {AnyOf(D)[s]} \in T
      PROVE  s \in T
  <2>1. it[s] = f[AnyOf(D)[s]] + it[s \ {AnyOf(D)[s]}] /\ f[AnyOf(D)[s]] \in Nat
    BY <1>2, <1>4, AnyIn DEF SumSteps
  <2> QED BY <1>4, <2>1
<1> HIDE DEF T
<1>5. D \in T
  BY <1>3, <1>4, SumInd
<1> QED BY <1>2, <1>5 DEF T

LEMMA SumZero ==
  ASSUME NEW D, IsFiniteSet(D), NEW f \in [D -> Int], \A x \in D : f[x] = 0
  PROVE  SumFunction(f) = 0
<1>2. PICK it \in [SUBSET D -> Int] : SumSteps(it, f, D) /\ SumFunction(f) = it[D]
  BY SumIs
<1> DEFINE T == {s \in SUBSET D : it[s] = 0}
<1>3. {} \in T
  BY <1>2 DEF SumSteps
<1>4. ASSUME NEW s \in SUBSET D, s # {}, s \ {AnyOf(D)[s]} \in T
      PROVE  s \in T
  <2>1. it[s] = f[AnyOf(D)[s]] + it[s \ {AnyOf(D)[s]}] /\ f[AnyOf(D)[s]] = 0
    BY <1>2, <1>4, AnyIn DEF SumSteps
  <2> QED BY <1>4, <2>1
<1> HIDE DEF T
<1>5. D \in T
  BY <1>3, <1>4, SumInd
<1> QED BY <1>2, <1>5 DEF T

LEMMA Distributes ==
  ASSUME NEW v \in Int, NEW w \in Int, NEW a \in Int, NEW b \in Int, NEW c \in Int, NEW d \in Int
  PROVE  (v * a + w * b) + (v * c + w * d) = v * (a + c) + w * (b + d)
<1>1. v * (a + c) = v * a + v * c /\ w * (b + d) = w * b + w * d
  OBVIOUS
<1>2. v * a \in Int /\ v * c \in Int /\ w * b \in Int /\ w * d \in Int
  OBVIOUS
<1> DEFINE p == v * a
           q == v * c
           r == w * b
           t == w * d
<1>3. p \in Int /\ q \in Int /\ r \in Int /\ t \in Int
  BY <1>2
<1> HIDE DEF p, q, r, t
<1>4. (p + r) + (q + t) = (p + q) + (r + t)
  BY <1>3
<1> QED BY <1>1, <1>4 DEF p, q, r, t

Weighted(h, v, f, w, g, D) == \A x \in D : h[x] = v * f[x] + w * g[x]

\* A weighted sum of functions sums to the weighted sum of their sums.
LEMMA SumWeighted ==
  ASSUME NEW D, IsFiniteSet(D), NEW v \in Int, NEW w \in Int,
         NEW f \in [D -> Int], NEW g \in [D -> Int], NEW h \in [D -> Int],
         Weighted(h, v, f, w, g, D)
  PROVE  SumFunction(h) = v * SumFunction(f) + w * SumFunction(g)
<1>1. PICK F \in [SUBSET D -> Int] : SumSteps(F, f, D) /\ SumFunction(f) = F[D]
  BY SumIs
<1>2. PICK G \in [SUBSET D -> Int] : SumSteps(G, g, D) /\ SumFunction(g) = G[D]
  BY SumIs
<1>3. PICK H \in [SUBSET D -> Int] : SumSteps(H, h, D) /\ SumFunction(h) = H[D]
  BY SumIs
<1> DEFINE T == {s \in SUBSET D : H[s] = v * F[s] + w * G[s]}
<1>4. {} \in T
  <2>1. F[{}] = 0 /\ G[{}] = 0 /\ H[{}] = 0
    BY <1>1, <1>2, <1>3 DEF SumSteps
  <2>2. v * 0 = 0 /\ w * 0 = 0
    OBVIOUS
  <2> QED BY <2>1, <2>2
<1>5. ASSUME NEW s \in SUBSET D, s # {}, s \ {AnyOf(D)[s]} \in T
      PROVE  s \in T
  <2> DEFINE x == AnyOf(D)[s]
             r == s \ {x}
  <2>1. x \in D /\ r \in SUBSET D
    BY <1>5, AnyIn
  <2>2. F[s] = f[x] + F[r] /\ G[s] = g[x] + G[r] /\ H[s] = h[x] + H[r]
    BY <1>1, <1>2, <1>3, <1>5 DEF SumSteps
  <2>3. H[r] = v * F[r] + w * G[r] /\ h[x] = v * f[x] + w * g[x]
    BY <1>5, <2>1 DEF Weighted
  <2>4. f[x] \in Int /\ g[x] \in Int /\ F[r] \in Int /\ G[r] \in Int
    BY <2>1
  <2> HIDE DEF x, r
  <2>5. (v * f[x] + w * g[x]) + (v * F[r] + w * G[r]) = v * (f[x] + F[r]) + w * (g[x] + G[r])
    BY <2>4, Distributes
  <2>6. H[s] = v * F[s] + w * G[s]
    BY <2>2, <2>3, <2>5
  <2> QED BY <2>6
<1> HIDE DEF T
<1>6. D \in T
  BY <1>4, <1>5, SumInd
<1> QED BY <1>1, <1>2, <1>3, <1>6 DEF T

\* Adding to one value adds to the sum.
LEMMA SumBump ==
  ASSUME NEW D, IsFiniteSet(D), NEW f \in [D -> Int], NEW g \in [D -> Int], NEW a \in D, NEW n \in Int,
         g[a] = f[a] + n, \A x \in D : x # a => g[x] = f[x]
  PROVE  SumFunction(g) = SumFunction(f) + n
<1>1. PICK F \in [SUBSET D -> Int] : SumSteps(F, f, D) /\ SumFunction(f) = F[D]
  BY SumIs
<1>2. PICK G \in [SUBSET D -> Int] : SumSteps(G, g, D) /\ SumFunction(g) = G[D]
  BY SumIs
<1> DEFINE T == {s \in SUBSET D : G[s] = IF a \in s THEN F[s] + n ELSE F[s]}
<1>4. {} \in T
  BY <1>1, <1>2 DEF SumSteps
<1>5. ASSUME NEW s \in SUBSET D, s # {}, s \ {AnyOf(D)[s]} \in T
      PROVE  s \in T
  <2> DEFINE x == AnyOf(D)[s]
             r == s \ {x}
  <2>1. x \in s /\ x \in D /\ r \in SUBSET D
    BY <1>5, AnyIn
  <2>2. F[s] = f[x] + F[r] /\ G[s] = g[x] + G[r]
    BY <1>1, <1>2, <1>5 DEF SumSteps
  <2>3. G[r] = IF a \in r THEN F[r] + n ELSE F[r]
    BY <1>5
  <2>4. f[x] \in Int /\ g[x] \in Int /\ F[r] \in Int /\ G[r] \in Int
    BY <2>1
  <2>5. a \in r <=> a \in s /\ a # x
    OBVIOUS
  <2> HIDE DEF x, r
  <2>6. G[s] = IF a \in s THEN F[s] + n ELSE F[s]
    BY <2>1, <2>2, <2>3, <2>4, <2>5
  <2> QED BY <2>6
<1> HIDE DEF T
<1>6. D \in T
  BY <1>4, <1>5, SumInd
<1> QED BY <1>1, <1>2, <1>6 DEF T

-----------------------------------------------------------------------------
(* Unsigned numbers wrap around: rests of sums *)

LEMMA UintIs == UintMod \in Nat /\ UintMod > 0
BY SketchAssumption DEF Positive

LEMMA DivMod ==
  ASSUME NEW x \in Nat
  PROVE  /\ x = UintMod * (x \div UintMod) + (x % UintMod)
         /\ x \div UintMod \in Nat /\ x % UintMod \in 0..(UintMod - 1)
BY UintIs

LEMMA Rest ==
  ASSUME NEW q \in Int, NEW d \in Int, NEW r \in 0..(UintMod - 1), NEW s \in 0..(UintMod - 1),
         UintMod * q + r = UintMod * d + s
  PROVE  r = s
<1>1. CASE q = d
  BY <1>1, UintIs
<1>2. CASE q > d
  <2> DEFINE e == q - d
  <2>1. e \in Int /\ e >= 1 /\ q = d + e
    BY <1>2
  <2> HIDE DEF e
  <2>2. UintMod * q = UintMod * d + UintMod * e /\ UintMod * e >= UintMod
    BY <2>1, UintIs
  <2> DEFINE a == UintMod * q
             b == UintMod * d
             f == UintMod * e
  <2>3. a \in Int /\ b \in Int /\ f \in Int /\ a = b + f /\ f >= UintMod /\ a + r = b + s
    BY <2>1, <2>2, UintIs
  <2> HIDE DEF a, b, f
  <2> QED BY <2>3, UintIs
<1>3. CASE d > q
  <2> DEFINE e == d - q
  <2>1. e \in Int /\ e >= 1 /\ d = q + e
    BY <1>3
  <2> HIDE DEF e
  <2>2. UintMod * d = UintMod * q + UintMod * e /\ UintMod * e >= UintMod
    BY <2>1, UintIs
  <2> QED BY <2>2, UintIs
<1> QED BY <1>1, <1>2, <1>3

\* Numbers that differ by a multiple have the same rest.
LEMMA SameRest ==
  ASSUME NEW x \in Nat, NEW y \in Nat, NEW z \in Int, x = y + UintMod * z
  PROVE  x % UintMod = y % UintMod
<1> DEFINE q == x \div UintMod
           d == y \div UintMod
           r == x % UintMod
           s == y % UintMod
<1>1. x = UintMod * q + r /\ y = UintMod * d + s /\ q \in Int /\ d \in Int
      /\ r \in 0..(UintMod - 1) /\ s \in 0..(UintMod - 1)
  BY DivMod
<1> HIDE DEF q, d, r, s
<1>2. UintMod * (d + z) = UintMod * d + UintMod * z /\ d + z \in Int
  BY <1>1, UintIs
<1>3. UintMod * q + r = UintMod * (d + z) + s
  BY <1>1, <1>2, UintIs
<1>4. r = s
  BY <1>1, <1>2, <1>3, Rest
<1> QED BY <1>4 DEF r, s

LEMMA RestOfSum ==
  ASSUME NEW a \in Nat, NEW b \in Nat
  PROVE  ((a % UintMod) + b) % UintMod = (a + b) % UintMod
<1> DEFINE q == a \div UintMod
           r == a % UintMod
           p == UintMod * q
<1>1. a = p + r /\ q \in Nat /\ r \in Nat /\ p \in Nat
  BY DivMod, UintIs
<1> DEFINE x == a + b
           y == r + b
<1>3. x \in Nat /\ y \in Nat /\ x = y + p /\ q \in Int
  <2> HIDE DEF p, q, r
  <2> QED BY <1>1
<1>5. x = y + UintMod * q
  BY <1>3
<1> HIDE DEF q, r, p, x, y
<1>4. x % UintMod = y % UintMod
  BY <1>3, <1>5, SameRest
<1> QED BY <1>4 DEF x, y, r

LEMMA RestOfProduct ==
  ASSUME NEW a \in Nat, NEW v \in Nat, NEW b \in Nat
  PROVE  ((a % UintMod) + v * (b % UintMod)) % UintMod = (a + v * b) % UintMod
<1> DEFINE q == b \div UintMod
           r == b % UintMod
           s == a % UintMod
<1>1. b = UintMod * q + r /\ q \in Nat /\ r \in Nat /\ s \in Nat
  BY DivMod, UintIs
<1>2. v * b = v * r + UintMod * (v * q) /\ v * q \in Int /\ v * r \in Nat /\ v * b \in Nat
  <2> HIDE DEF q, r
  <2>1. q \in Int /\ r \in Int /\ UintMod \in Int /\ v \in Int /\ b = UintMod * q + r
    BY <1>1, UintIs
  <2>2. ASSUME NEW m \in Int, NEW i \in Int, NEW j \in Int, NEW u \in Int
        PROVE  u * (m * i + j) = u * j + m * (u * i)
    OBVIOUS
  <2>3. v * (UintMod * q + r) = v * r + UintMod * (v * q)
    BY <2>1, <2>2
  <2> QED BY <1>1, <2>1, <2>3
<1> DEFINE t == v * b
           z == v * q
           e == v * r
<1>3. t = e + UintMod * z /\ z \in Int /\ e \in Nat /\ t \in Nat
  BY <1>2
<1> HIDE DEF q, r, s, t, z, e
<1>4. (s + t) % UintMod = (a + t) % UintMod
  BY <1>3, RestOfSum DEF s
<1> DEFINE x == s + t
           y == s + e
<1>5. x \in Nat /\ y \in Nat /\ x = y + UintMod * z
  <2> DEFINE m == UintMod * z
  <2>1. m \in Int /\ t = e + m
    BY <1>3, UintIs
  <2> HIDE DEF m
  <2>2. s + t \in Nat /\ s + e \in Nat /\ s + t = (s + e) + m
    BY <1>1, <1>3, <2>1
  <2> QED BY <2>2 DEF m
<1> HIDE DEF x, y
<1>6. x % UintMod = y % UintMod
  BY <1>3, <1>5, SameRest
<1> QED BY <1>4, <1>6 DEF x, y, s, t, e, r

Wraps(g, f, D) == \A x \in D : g[x] = f[x] % UintMod

\* The rests of the values sum to the rest of the sum.
LEMMA SumWraps ==
  ASSUME NEW D, IsFiniteSet(D), NEW f \in [D -> Nat], NEW g \in [D -> Nat], Wraps(g, f, D)
  PROVE  SumFunction(g) % UintMod = SumFunction(f) % UintMod
<1>0. f \in [D -> Int] /\ g \in [D -> Int]
  OBVIOUS
<1>1. PICK F \in [SUBSET D -> Int] : SumSteps(F, f, D) /\ SumFunction(f) = F[D]
  BY <1>0, SumIs
<1>2. PICK G \in [SUBSET D -> Int] : SumSteps(G, g, D) /\ SumFunction(g) = G[D]
  BY <1>0, SumIs
<1> DEFINE T == {s \in SUBSET D : F[s] \in Nat /\ G[s] \in Nat /\ G[s] % UintMod = F[s] % UintMod}
<1>4. {} \in T
  BY <1>1, <1>2 DEF SumSteps
<1>5. ASSUME NEW s \in SUBSET D, s # {}, s \ {AnyOf(D)[s]} \in T
      PROVE  s \in T
  <2> DEFINE x == AnyOf(D)[s]
             r == s \ {x}
             a == f[x]
             b == F[r]
             d == G[r]
             h == g[x]
  <2>1. x \in D /\ r \in SUBSET D
    BY <1>5, AnyIn
  <2>2. F[s] = a + b /\ G[s] = h + d
    BY <1>1, <1>2, <1>5 DEF SumSteps
  <2>3. b \in Nat /\ d \in Nat /\ d % UintMod = b % UintMod
    BY <1>5
  <2>4. h = a % UintMod /\ a \in Nat /\ h \in Nat
    BY <2>1 DEF Wraps
  <2> HIDE DEF x, r, a, b, d, h
  <2>5. (h + d) % UintMod = (a + d) % UintMod
    BY <2>3, <2>4, RestOfSum
  <2>6. ((d % UintMod) + a) % UintMod = (d + a) % UintMod /\ ((b % UintMod) + a) % UintMod = (b + a) % UintMod
    BY <2>3, <2>4, RestOfSum
  <2>7. a + d = d + a /\ a + b = b + a /\ a + b \in Nat /\ h + d \in Nat
    BY <2>3, <2>4
  <2>8. (h + d) % UintMod = (a + b) % UintMod
    BY ONLY <2>3, <2>5, <2>6, <2>7
  <2> QED BY <2>2, <2>7, <2>8
<1> HIDE DEF T
<1>6. D \in T
  BY <1>4, <1>5, SumInd
<1> QED BY <1>1, <1>2, <1>6 DEF T

\* No value exceeds the sum.
LEMMA SumGeq ==
  ASSUME NEW D, IsFiniteSet(D), NEW f \in [D -> Nat], NEW y \in D
  PROVE  SumFunction(f) >= f[y]
<1>0. f \in [D -> Int]
  OBVIOUS
<1>1. PICK F \in [SUBSET D -> Int] : SumSteps(F, f, D) /\ SumFunction(f) = F[D]
  BY <1>0, SumIs
<1> DEFINE T == {s \in SUBSET D : F[s] \in Nat /\ (y \in s => F[s] >= f[y])}
<1>4. {} \in T
  BY <1>1 DEF SumSteps
<1>5. ASSUME NEW s \in SUBSET D, s # {}, s \ {AnyOf(D)[s]} \in T
      PROVE  s \in T
  <2> DEFINE x == AnyOf(D)[s]
             r == s \ {x}
  <2>1. x \in D /\ r \in SUBSET D
    BY <1>5, AnyIn
  <2>2. F[s] = f[x] + F[r]
    BY <1>1, <1>5 DEF SumSteps
  <2>3. F[r] \in Nat /\ (y \in r => F[r] >= f[y])
    BY <1>5
  <2>4. f[x] \in Nat /\ f[y] \in Nat /\ (y \in s => y \in r \/ y = x)
    BY <2>1
  <2> HIDE DEF x, r
  <2> QED BY <2>2, <2>3, <2>4
<1> HIDE DEF T
<1>6. D \in T
  BY <1>4, <1>5, SumInd
<1> QED BY <1>1, <1>6 DEF T

-----------------------------------------------------------------------------
(* Count-min sketches *)

LEMMA SketchDef ==
  ASSUME NEW c, NEW counts, IsExact(c, counts)
  PROVE  /\ c.depth \in Nat /\ c.depth # 0 /\ c.width \in Nat /\ c.width # 0
         /\ \A row \in 0..(c.depth - 1) : c.matrix[row] \in [0..(c.width - 1) -> Nat]
         /\ 0 \in 0..(c.depth - 1)
BY DEF IsExact

\* An item has a cell in every row.
LEMMA PositionIn ==
  ASSUME NEW c, c.depth \in Nat, c.width \in Nat, c.width # 0,
         NEW item \in Item, NEW row \in 0..(c.depth - 1)
  PROVE  matrixPositions(c, item)[row] \in 0..(c.width - 1)
<1>1. Hash1[item] \in Nat /\ Hash2[item] \in Nat /\ row \in Nat
  BY SketchAssumption
<1> DEFINE a == Hash1[item]
           b == Hash2[item]
           p == b * row
           w == c.width
<1>2. p \in Nat
  <2> HIDE DEF b
  <2>1. b \in Nat
    BY <1>1 DEF b
  <2> QED BY <1>1, <2>1
<1>3. matrixPositions(c, item)[row] = (a + p) % w
  BY DEF matrixPositions
<1> DEFINE x == a + p
<1>4. x \in Nat /\ w \in Nat /\ w # 0
  <2> HIDE DEF p, a
  <2>1. a \in Nat
    BY <1>1 DEF a
  <2> QED BY <1>2, <2>1
<1> HIDE DEF x, w
<1>5. x % w \in 0..(w - 1)
  BY <1>4
<1> QED BY <1>3, <1>5 DEF x, w

\* The increment as it would be without a largest number.
ExactUpdate(c, item, n) ==
  [c EXCEPT !.count = @ + n,
            !.matrix = [row \in DOMAIN @ |-> [c.matrix[row] EXCEPT ![matrixPositions(c, item)[row]] = @ + n]]]

\* What it does to the parts of a sketch.
Updated(u, c, item, n) ==
  /\ u = [depth |-> u.depth, width |-> u.width, count |-> u.count, matrix |-> u.matrix]
  /\ u.depth = c.depth /\ u.width = c.width /\ u.count = c.count + n
  /\ u.matrix = [row \in DOMAIN c.matrix |->
                   [c.matrix[row] EXCEPT ![matrixPositions(c, item)[row]] = @ + n]]

LEMMA UpdateFields ==
  ASSUME NEW c, c = [depth |-> c.depth, width |-> c.width, count |-> c.count, matrix |-> c.matrix],
         NEW item, NEW n
  PROVE  Updated(ExactUpdate(c, item, n), c, item, n)
<1> DEFINE u == ExactUpdate(c, item, n)
           pos == matrixPositions(c, item)
           count == c.count + n
           matrix == [row \in DOMAIN c.matrix |-> [c.matrix[row] EXCEPT ![pos[row]] = @ + n]]
<1>1. u = [c EXCEPT !.count = count, !.matrix = matrix]
  BY DEF ExactUpdate
<1> HIDE DEF count, matrix, u
<1>2. u.depth = c.depth /\ u.width = c.width /\ u.count = count /\ u.matrix = matrix
  BY <1>1
<1>3. u = [depth |-> u.depth, width |-> u.width, count |-> u.count, matrix |-> u.matrix]
  BY <1>1
<1> QED BY <1>2, <1>3 DEF count, matrix, u, Updated

LEMMA ColumnsFinite ==
  ASSUME NEW w \in Nat
  PROVE  IsFiniteSet(0..(w - 1))
<1>1. 0 \in Int /\ w - 1 \in Int
  OBVIOUS
<1> QED BY <1>1, FS_Interval

LEMMA UpdateKeeps ==
  ASSUME NEW c, NEW counts, IsExact(c, counts), NEW item \in Item, NEW n \in Nat
  PROVE  IsExact(ExactUpdate(c, item, n), [counts EXCEPT ![item] = @ + n])
<1> DEFINE u == ExactUpdate(c, item, n)
           after == [counts EXCEPT ![item] = @ + n]
           rows == 0..(c.depth - 1)
           cols == 0..(c.width - 1)
           pos == matrixPositions(c, item)
<1>1. /\ c = [depth |-> c.depth, width |-> c.width, count |-> c.count, matrix |-> c.matrix]
      /\ c.depth \in Nat \ {0} /\ c.width \in Nat \ {0} /\ c.count \in Nat
      /\ c.matrix \in [rows -> [cols -> Nat]]
      /\ counts \in [Item -> Nat]
      /\ \A row \in rows, x \in Item : c.matrix[row][matrixPositions(c, x)[row]] >= counts[x]
      /\ \A row \in rows : SumFunction(c.matrix[row]) = c.count
      /\ SumFunction(counts) = c.count
  BY DEF IsExact
<1>2. /\ u = [depth |-> u.depth, width |-> u.width, count |-> u.count, matrix |-> u.matrix]
      /\ u.depth = c.depth /\ u.width = c.width /\ u.count = c.count + n
      /\ u.matrix = [row \in DOMAIN c.matrix |-> [c.matrix[row] EXCEPT ![pos[row]] = @ + n]]
  <2>1. Updated(u, c, item, n)
    BY <1>1, UpdateFields
  <2> HIDE DEF u
  <2> QED BY <2>1 DEF Updated
<1>3. \A x \in Item, row \in rows : matrixPositions(c, x)[row] \in cols
  <2> SUFFICES ASSUME NEW x \in Item, NEW row \in rows PROVE matrixPositions(c, x)[row] \in cols
    OBVIOUS
  <2> QED BY <1>1, PositionIn
<1>4. \A x \in Item : matrixPositions(u, x) = matrixPositions(c, x)
  BY <1>2 DEF matrixPositions
<1> HIDE DEF u, cols, rows
<1>5. \A row \in rows : pos[row] \in cols
  BY <1>3
<1> HIDE DEF pos
<1>6. \A row \in rows :
        /\ u.matrix[row] \in [cols -> Nat]
        /\ u.matrix[row][pos[row]] = c.matrix[row][pos[row]] + n
        /\ \A col \in cols : col # pos[row] => u.matrix[row][col] = c.matrix[row][col]
  BY <1>1, <1>2, <1>5
<1>7. u.matrix \in [rows -> [cols -> Nat]]
  BY <1>1, <1>2, <1>6
<1>8. IsFiniteSet(cols) /\ IsFiniteSet(Item)
  BY <1>1, ColumnsFinite, SketchAssumption DEF cols
<1>9. ASSUME NEW row \in rows PROVE SumFunction(u.matrix[row]) = u.count
  <2> DEFINE f == c.matrix[row]
             g == u.matrix[row]
  <2>1. f \in [cols -> Int] /\ g \in [cols -> Int] /\ pos[row] \in cols /\ n \in Int
    BY <1>1, <1>5, <1>6
  <2>2. g[pos[row]] = f[pos[row]] + n /\ \A x \in cols : x # pos[row] => g[x] = f[x]
    BY <1>6
  <2> HIDE DEF f, g
  <2>3. SumFunction(g) = SumFunction(f) + n
    BY <1>8, <2>1, <2>2, SumBump
  <2> QED BY <1>1, <1>2, <2>3 DEF f, g
<1>10. after \in [Item -> Nat] /\ after[item] = counts[item] + n
       /\ \A x \in Item : x # item => after[x] = counts[x]
  BY <1>1
<1> HIDE DEF after
<1>11. SumFunction(after) = u.count
  <2>1. after \in [Item -> Int] /\ counts \in [Item -> Int] /\ n \in Int
    BY <1>1, <1>10
  <2>2. SumFunction(after) = SumFunction(counts) + n
    BY <1>8, <1>10, <2>1, SumBump
  <2> QED BY <1>1, <1>2, <2>2
<1>12. ASSUME NEW row \in rows, NEW x \in Item
       PROVE  u.matrix[row][matrixPositions(u, x)[row]] >= after[x]
  <2> DEFINE col == matrixPositions(c, x)[row]
  <2>1. col \in cols /\ c.matrix[row][col] >= counts[x]
    BY <1>1, <1>3
  <2>2. x = item => col = pos[row]
    BY DEF pos
  <2>3. matrixPositions(u, x)[row] = col
    BY <1>4
  <2> HIDE DEF col
  <2>4. c.matrix[row][col] \in Nat /\ counts[x] \in Nat
    BY <1>1, <2>1
  <2>5. u.matrix[row][col] >= after[x]
    <3>1. CASE x = item
      BY <1>6, <1>10, <2>1, <2>2, <2>4, <3>1
    <3>2. CASE x # item /\ col = pos[row]
      BY <1>6, <1>10, <2>1, <2>4, <3>2
    <3>3. CASE x # item /\ col # pos[row]
      BY <1>6, <1>10, <2>1, <2>4, <3>3
    <3> QED BY <3>1, <3>2, <3>3
  <2> QED BY <2>3, <2>5
<1>13. u.count \in Nat
  BY <1>1, <1>2
<1>14. IsExact(u, after)
  BY <1>1, <1>2, <1>7, <1>9, <1>10, <1>11, <1>12, <1>13 DEF IsExact, rows, cols
<1> QED BY <1>14 DEF u, after

LEMMA NewExact ==
  ASSUME NEW dim, dim.depth \in Nat \ {0}, dim.width \in Nat \ {0}
  PROVE  IsExact(newCountMinSketch(dim), NoCounts)
<1> DEFINE c == newCountMinSketch(dim)
           rows == 0..(c.depth - 1)
           cols == 0..(c.width - 1)
<1>1. /\ c = [depth |-> c.depth, width |-> c.width, count |-> c.count, matrix |-> c.matrix]
      /\ c.depth = dim.depth /\ c.width = dim.width /\ c.count = 0
      /\ c.matrix = [row \in rows |-> [col \in cols |-> 0]]
  BY DEF newCountMinSketch
<1>2. NoCounts \in [Item -> Nat] /\ \A x \in Item : NoCounts[x] = 0
  BY DEF NoCounts
<1>3. \A x \in Item, row \in rows : matrixPositions(c, x)[row] \in cols
  <2> SUFFICES ASSUME NEW x \in Item, NEW row \in rows PROVE matrixPositions(c, x)[row] \in cols
    OBVIOUS
  <2> HIDE DEF c
  <2> QED BY <1>1, PositionIn
<1> HIDE DEF c
<1>4. IsFiniteSet(cols) /\ IsFiniteSet(Item)
  BY <1>1, ColumnsFinite, SketchAssumption
<1> HIDE DEF cols, rows
<1>5. \A row \in rows : c.matrix[row] \in [cols -> Nat] /\ \A col \in cols : c.matrix[row][col] = 0
  BY <1>1
<1>6. \A row \in rows : SumFunction(c.matrix[row]) = c.count
  <2> SUFFICES ASSUME NEW row \in rows PROVE SumFunction(c.matrix[row]) = 0
    BY <1>1
  <2> DEFINE f == c.matrix[row]
  <2>1. f \in [cols -> Int] /\ \A x \in cols : f[x] = 0
    BY <1>5
  <2> HIDE DEF f
  <2>2. SumFunction(f) = 0
    BY <1>4, <2>1, SumZero
  <2> QED BY <2>2 DEF f
<1>7. SumFunction(NoCounts) = c.count
  <2>1. NoCounts \in [Item -> Int]
    BY <1>2
  <2>2. SumFunction(NoCounts) = 0
    BY <1>2, <1>4, <2>1, SumZero
  <2> QED BY <1>1, <2>2
<1>8. \A row \in rows, x \in Item : c.matrix[row][matrixPositions(c, x)[row]] >= NoCounts[x]
  BY <1>2, <1>3, <1>5
<1>9. c.matrix \in [rows -> [cols -> Nat]]
  BY <1>1, <1>5
<1>10. /\ c = [depth |-> c.depth, width |-> c.width, count |-> c.count, matrix |-> c.matrix]
       /\ c.depth \in Nat \ {0} /\ c.width \in Nat \ {0} /\ c.count \in Nat
  BY <1>1
<1>11. IsExact(c, NoCounts)
  <2> HIDE <1>1
  <2> QED BY <1>2, <1>6, <1>7, <1>8, <1>9, <1>10 DEF IsExact, rows, cols
<1> QED BY <1>11 DEF c

\* The parts of a sketch that wraps around.
Reduced(c, u) ==
  /\ c = [depth |-> c.depth, width |-> c.width, count |-> c.count, matrix |-> c.matrix]
  /\ c.depth = u.depth /\ c.width = u.width /\ c.count = u.count % UintMod
  /\ c.matrix = [row \in 0..(u.depth - 1) |->
                   [col \in 0..(u.width - 1) |-> u.matrix[row][col] % UintMod]]

LEMMA ModularFields ==
  ASSUME NEW u
  PROVE  Reduced(Modular(u), u)
<1> DEFINE count == u.count % UintMod
           matrix == [row \in 0..(u.depth - 1) |-> [col \in 0..(u.width - 1) |-> u.matrix[row][col] % UintMod]]
           c == Modular(u)
<1>1. c = [depth |-> u.depth, width |-> u.width, count |-> count, matrix |-> matrix]
  BY DEF Modular
<1> HIDE DEF count, matrix, c
<1>2. c.depth = u.depth /\ c.width = u.width /\ c.count = count /\ c.matrix = matrix
  BY <1>1
<1>3. c = [depth |-> c.depth, width |-> c.width, count |-> c.count, matrix |-> c.matrix]
  BY <1>1
<1> QED BY <1>2, <1>3 DEF count, matrix, c, Reduced

LEMMA WrappedIs ==
  ASSUME NEW c, NEW u, Reduced(c, u)
  PROVE  c = Modular(u)
BY DEF Reduced, Modular

\* What an increment does to the parts of a sketch.
WrapUpdated(v, c, item, n) ==
  /\ v = [depth |-> v.depth, width |-> v.width, count |-> v.count, matrix |-> v.matrix]
  /\ v.depth = c.depth /\ v.width = c.width /\ v.count = (c.count + n) % UintMod
  /\ v.matrix = [row \in DOMAIN c.matrix |->
                   [c.matrix[row] EXCEPT ![matrixPositions(c, item)[row]] = (@ + n) % UintMod]]

LEMMA WrapFields ==
  ASSUME NEW c, c = [depth |-> c.depth, width |-> c.width, count |-> c.count, matrix |-> c.matrix],
         NEW item, NEW n
  PROVE  WrapUpdated(updateMatrix(c, item, n), c, item, n)
<1> DEFINE u == updateMatrix(c, item, n)
           pos == matrixPositions(c, item)
           count == (c.count + n) % UintMod
           matrix == [row \in DOMAIN c.matrix |-> [c.matrix[row] EXCEPT ![pos[row]] = (@ + n) % UintMod]]
<1>1. u = [c EXCEPT !.count = count, !.matrix = matrix]
  BY DEF updateMatrix
<1> HIDE DEF count, matrix, u
<1>2. u.depth = c.depth /\ u.width = c.width /\ u.count = count /\ u.matrix = matrix
  BY <1>1
<1>3. u = [depth |-> u.depth, width |-> u.width, count |-> u.count, matrix |-> u.matrix]
  BY <1>1
<1> QED BY <1>2, <1>3 DEF count, matrix, u, WrapUpdated

\* The increment of what is left is what is left of the increment.
LEMMA UpdateWraps ==
  ASSUME NEW u, NEW counts, IsExact(u, counts), NEW item \in Item, NEW n \in Nat
  PROVE  updateMatrix(Modular(u), item, n) = Modular(ExactUpdate(u, item, n))
<1> DEFINE c == Modular(u)
           v == updateMatrix(c, item, n)
           e == ExactUpdate(u, item, n)
           rows == 0..(u.depth - 1)
           cols == 0..(u.width - 1)
           pos == matrixPositions(u, item)
<1>1. /\ u = [depth |-> u.depth, width |-> u.width, count |-> u.count, matrix |-> u.matrix]
      /\ u.depth \in Nat \ {0} /\ u.width \in Nat \ {0} /\ u.count \in Nat
      /\ u.matrix \in [rows -> [cols -> Nat]]
  BY DEF IsExact
<1>2. Updated(e, u, item, n) /\ Reduced(c, u)
  BY <1>1, UpdateFields, ModularFields
<1>3. WrapUpdated(v, c, item, n)
  BY <1>2, WrapFields DEF Reduced
<1> HIDE DEF c, v, e
<1>4. matrixPositions(c, item) = pos
  BY <1>2 DEF Reduced, matrixPositions
<1>5. \A row \in rows : pos[row] \in cols
  BY <1>1, PositionIn
<1> HIDE DEF pos, rows, cols
<1>6. v.depth = e.depth /\ v.width = e.width /\ e.depth = u.depth /\ e.width = u.width
  BY <1>2, <1>3 DEF Updated, Reduced, WrapUpdated
<1>7. v.count = e.count % UintMod
  <2>1. v.count = (c.count + n) % UintMod /\ e.count = u.count + n /\ c.count = u.count % UintMod
    BY <1>2, <1>3 DEF Updated, Reduced, WrapUpdated
  <2> QED BY <1>1, <2>1, RestOfSum
<1>8. /\ e.matrix = [row \in rows |-> [u.matrix[row] EXCEPT ![pos[row]] = @ + n]]
      /\ c.matrix = [row \in rows |-> [col \in cols |-> u.matrix[row][col] % UintMod]]
      /\ v.matrix = [row \in rows |-> [c.matrix[row] EXCEPT ![pos[row]] = (@ + n) % UintMod]]
  <2>1. e.matrix = [row \in rows |-> [u.matrix[row] EXCEPT ![pos[row]] = @ + n]]
    BY <1>1, <1>2 DEF Updated, pos
  <2>2. c.matrix = [row \in rows |-> [col \in cols |-> u.matrix[row][col] % UintMod]]
    BY <1>2 DEF Reduced, rows, cols
  <2>3. v.matrix = [row \in rows |-> [c.matrix[row] EXCEPT ![pos[row]] = (@ + n) % UintMod]]
    BY <1>3, <1>4, <2>2 DEF WrapUpdated
  <2> QED BY <2>1, <2>2, <2>3
<1>9. ASSUME NEW row \in rows
      PROVE  v.matrix[row] = [col \in cols |-> e.matrix[row][col] % UintMod]
  <2> DEFINE f == u.matrix[row]
             p == pos[row]
             g == [col \in cols |-> f[col] % UintMod]
             h == [g EXCEPT ![p] = (@ + n) % UintMod]
             k == [f EXCEPT ![p] = @ + n]
  <2>1. f \in [cols -> Nat] /\ p \in cols
    BY <1>1, <1>5
  <2>2. v.matrix[row] = h /\ e.matrix[row] = k
    BY <1>8
  <2> HIDE DEF f, p
  <2>3. ASSUME NEW col \in cols PROVE h[col] = k[col] % UintMod
    <3>1. ((f[col] % UintMod) + n) % UintMod = (f[col] + n) % UintMod
      BY <2>1, RestOfSum
    <3>2. CASE col = p
      BY <2>1, <3>1, <3>2
    <3>3. CASE col # p
      BY <2>1, <3>3
    <3> QED BY <3>2, <3>3
  <2>4. h = [col \in cols |-> h[col]]
    BY <2>1
  <2> HIDE DEF h, k
  <2> QED BY <2>2, <2>3, <2>4
<1>10. v.matrix = [row \in rows |-> v.matrix[row]]
  BY <1>8
<1>11. v.matrix = [row \in rows |-> [col \in cols |-> e.matrix[row][col] % UintMod]]
  <2> HIDE <1>8
  <2> QED BY <1>9, <1>10
<1>12. Reduced(v, e)
  BY <1>3, <1>6, <1>7, <1>11 DEF Reduced, WrapUpdated, rows, cols
<1> QED BY <1>12, WrappedIs DEF v, e, c

LEMMA SketchUpdate ==
  ASSUME NEW c, NEW counts, IsSketch(c, counts), NEW item \in Item, NEW n \in Nat
  PROVE  IsSketch(updateMatrix(c, item, n), [counts EXCEPT ![item] = @ + n])
<1>1. PICK u : IsExact(u, counts) /\ c = Modular(u)
  BY DEF IsSketch
<1>2. IsExact(ExactUpdate(u, item, n), [counts EXCEPT ![item] = @ + n])
  BY <1>1, UpdateKeeps
<1>3. updateMatrix(c, item, n) = Modular(ExactUpdate(u, item, n))
  BY <1>1, UpdateWraps
<1> QED BY <1>2, <1>3 DEF IsSketch

\* Every part of a sketch, with what it is the rest of.
SketchParts(c, u, counts) ==
  /\ IsExact(u, counts) /\ Reduced(c, u)
  /\ c.depth \in Nat \ {0} /\ c.width \in Nat \ {0} /\ c.count \in 0..(UintMod - 1)
  /\ c.matrix \in [0..(c.depth - 1) -> [0..(c.width - 1) -> Nat]]

LEMMA SketchIs ==
  ASSUME NEW c, NEW counts, IsSketch(c, counts)
  PROVE  \E u : SketchParts(c, u, counts)
<1>1. PICK u : IsExact(u, counts) /\ c = Modular(u)
  BY DEF IsSketch
<1>2. Reduced(c, u)
  BY <1>1, ModularFields
<1> DEFINE rows == 0..(u.depth - 1)
           cols == 0..(u.width - 1)
<1>3. /\ u.depth \in Nat \ {0} /\ u.width \in Nat \ {0} /\ u.count \in Nat
      /\ u.matrix \in [rows -> [cols -> Nat]]
  BY <1>1 DEF IsExact
<1>4. /\ c.depth = u.depth /\ c.width = u.width /\ c.count = u.count % UintMod
      /\ c.matrix = [row \in rows |-> [col \in cols |-> u.matrix[row][col] % UintMod]]
  BY <1>2 DEF Reduced
<1>5. c.count \in 0..(UintMod - 1)
  BY <1>3, <1>4, DivMod
<1> HIDE DEF rows, cols
<1>6. \A row \in rows, col \in cols : u.matrix[row][col] % UintMod \in Nat
  <2> SUFFICES ASSUME NEW row \in rows, NEW col \in cols PROVE u.matrix[row][col] % UintMod \in Nat
    OBVIOUS
  <2>1. u.matrix[row][col] \in Nat
    BY <1>3
  <2> QED BY <2>1, DivMod, UintIs
<1>7. c.matrix \in [rows -> [cols -> Nat]]
  BY <1>4, <1>6
<1>8. c.depth \in Nat \ {0} /\ c.width \in Nat \ {0}
      /\ c.matrix \in [0..(c.depth - 1) -> [0..(c.width - 1) -> Nat]]
  BY <1>3, <1>4, <1>7 DEF rows, cols
<1> QED BY <1>1, <1>2, <1>5, <1>8 DEF SketchParts

LEMMA NewSketch ==
  ASSUME NEW dim, dim.depth \in Nat \ {0}, dim.width \in Nat \ {0}
  PROVE  IsSketch(newCountMinSketch(dim), NoCounts)
<1> DEFINE c == newCountMinSketch(dim)
<1>1. IsExact(c, NoCounts)
  BY NewExact
<1>2. 0 % UintMod = 0
  BY UintIs
<1>3. Reduced(c, c)
  <2>1. /\ c = [depth |-> c.depth, width |-> c.width, count |-> c.count, matrix |-> c.matrix]
        /\ c.depth = dim.depth /\ c.width = dim.width /\ c.count = 0
        /\ c.matrix = [row \in 0..(dim.depth - 1) |-> [col \in 0..(dim.width - 1) |-> 0]]
    BY DEF newCountMinSketch
  <2> HIDE DEF c
  <2> DEFINE rows == 0..(dim.depth - 1)
             cols == 0..(dim.width - 1)
             m == c.matrix
  <2>2. m = [row \in rows |-> [col \in cols |-> 0]]
    BY <2>1
  <2> HIDE DEF m, rows, cols
  <2>3. m = [row \in rows |-> [col \in cols |-> m[row][col] % UintMod]]
    BY <1>2, <2>2
  <2> QED BY <1>2, <2>1, <2>3 DEF m, rows, cols, Reduced
<1>4. c = Modular(c)
  BY <1>3, WrappedIs
<1> QED BY <1>1, <1>4 DEF IsSketch

LEMMA SketchObj ==
  ASSUME NEW c, NEW counts, IsSketch(c, counts)
  PROVE  Cell(Obj("cms", c), counts)
<1>1. "cms" \in Types
  BY DEF Types, PairTypes
<1> QED BY <1>1, CellOf

LEMMA PutSketchOutcome ==
  ASSUME NEW k \in Key, NEW c, NEW counts, IsSketch(c, counts), PutCMS(k, c, counts)
  PROVE  Outcome(k)
BY SketchObj, WriteOutcome DEF PutCMS

LEMMA InitOutcome ==
  ASSUME DataInv, NEW k \in Key, NEW dim \in CMSDim, CMSINIT(k, dim)
  PROVE  Outcome(k)
<1>1. CASE Answer(Err)
  BY <1>1, AnswerOutcome
<1>2. CASE dim.depth > 0 /\ dim.width > 0 /\ PutCMS(k, newCountMinSketch(dim), NoCounts)
  <2>1. dim.depth \in Nat /\ dim.width \in Nat
    BY SketchAssumption
  <2>2. dim.depth # 0 /\ dim.width # 0
    BY <1>2, <2>1
  <2>3. IsSketch(newCountMinSketch(dim), NoCounts)
    BY <2>1, <2>2, NewSketch
  <2> QED BY <1>2, <2>3, PutSketchOutcome
<1> QED BY <1>1, <1>2 DEF CMSINIT

-----------------------------------------------------------------------------
(* CMS.INCRBY *)

Updates(c, p) == updateMatrix(c, p[1], p[2])
Counts(g, p) == [g EXCEPT ![p[1]] = @ + p[2]]

SketchSet(d, w) ==
  [depth : {d}, width : {w}, count : Nat, matrix : [0..(d - 1) -> [0..(w - 1) -> Nat]]]

LEMMA UpdatesStay ==
  ASSUME NEW d, NEW w, NEW c \in SketchSet(d, w), NEW p \in Item \X Nat
  PROVE  Updates(c, p) \in SketchSet(d, w)
<1> DEFINE rows == 0..(d - 1)
           cols == 0..(w - 1)
           u == Updates(c, p)
           n == p[2]
<1>1. /\ c = [depth |-> c.depth, width |-> c.width, count |-> c.count, matrix |-> c.matrix]
      /\ c.depth = d /\ c.width = w /\ c.count \in Nat /\ c.matrix \in [rows -> [cols -> Nat]]
  BY DEF SketchSet
<1>2. n \in Nat
  OBVIOUS
<1>3. WrapUpdated(u, c, p[1], n)
  BY <1>1, WrapFields DEF Updates
<1> HIDE DEF u, n, rows, cols
<1>4. /\ u = [depth |-> u.depth, width |-> u.width, count |-> u.count, matrix |-> u.matrix]
      /\ u.depth = c.depth /\ u.width = c.width /\ u.count = (c.count + n) % UintMod
      /\ u.matrix = [row \in DOMAIN c.matrix |->
                       [c.matrix[row] EXCEPT ![matrixPositions(c, p[1])[row]] = (@ + n) % UintMod]]
  BY <1>3 DEF WrapUpdated
<1>5. u.matrix \in [rows -> [cols -> Nat]]
  <2> SUFFICES ASSUME NEW row \in rows
               PROVE  [c.matrix[row] EXCEPT ![matrixPositions(c, p[1])[row]] = (@ + n) % UintMod] \in [cols -> Nat]
    BY <1>1, <1>4
  <2> DEFINE f == c.matrix[row]
             at == matrixPositions(c, p[1])[row]
  <2>1. f \in [cols -> Nat]
    BY <1>1
  <2> HIDE DEF f, at
  <2>2. [f EXCEPT ![at] = (@ + n) % UintMod] \in [cols -> Nat]
    <3>1. CASE at \in cols
      <4>1. (f[at] + n) % UintMod \in Nat
        BY <1>2, <2>1, <3>1, UintIs
      <4> QED BY <2>1, <4>1
    <3>2. CASE at \notin cols
      <4>1. [f EXCEPT ![at] = (@ + n) % UintMod] = f
        BY <2>1, <3>2
      <4> QED BY <2>1, <4>1
    <3> QED BY <3>1, <3>2
  <2> QED BY <2>2 DEF f, at
<1>6. u \in [depth : {d}, width : {w}, count : Nat, matrix : [rows -> [cols -> Nat]]]
  <2>1. u.depth = d /\ u.width = w /\ u.count \in Nat
    BY <1>1, <1>2, <1>4, UintIs
  <2> HIDE <1>4
  <2>2. u = [depth |-> u.depth, width |-> u.width, count |-> u.count, matrix |-> u.matrix]
    BY <1>4
  <2> QED BY <1>5, <2>1, <2>2
<1> QED BY <1>6 DEF SketchSet, rows, cols, u

LEMMA CountsStay ==
  ASSUME NEW g \in [Item -> Nat], NEW p \in Item \X Nat
  PROVE  Counts(g, p) \in [Item -> Nat]
BY DEF Counts

UpdateAll(c, pairs) == FoldLeft(LAMBDA s, p : updateMatrix(s, p[1], p[2]), c, pairs)
CountAll(g, pairs) == FoldLeft(LAMBDA s, p : [s EXCEPT ![p[1]] = @ + p[2]], g, pairs)

UpdateRun(g, n, c, pairs) == g[0] = c /\ \A i \in 1..n : g[i] = Updates(g[i - 1], pairs[i])
CountRun(g, n, c, pairs) == g[0] = c /\ \A i \in 1..n : g[i] = Counts(g[i - 1], pairs[i])

\* The increments of the matrix, one after the other.
LEMMA UpdateLoop ==
  ASSUME NEW d, NEW w, NEW c \in SketchSet(d, w), NEW len \in Nat, NEW pairs \in [1..len -> Item \X Nat]
  PROVE  \E g \in [0..len -> SketchSet(d, w)] : UpdateRun(g, len, c, pairs) /\ UpdateAll(c, pairs) = g[len]
<1> DEFINE n == len
           xs == pairs
           Body(it) == [s \in SUBSET DOMAIN xs |->
                          IF s = {} THEN c ELSE Updates(it[s \ {Max(s)}], xs[Max(s)])]
           step == [q \in (1..n) \X SketchSet(d, w) |-> Updates(q[2], xs[q[1]])]
           f == CHOOSE it : it = Body(it)
<1>3. n \in Nat /\ DOMAIN xs = 1..n
  OBVIOUS
<1>2. /\ step \in [(1..n) \X SketchSet(d, w) -> SketchSet(d, w)]
      /\ \A i \in 1..n, a \in SketchSet(d, w) : step[<<i, a>>] = Updates(a, xs[i])
  <2>1. \A q \in (1..n) \X SketchSet(d, w) : Updates(q[2], xs[q[1]]) \in SketchSet(d, w)
    BY <1>3, UpdatesStay
  <2> HIDE DEF xs, n
  <2> QED BY <2>1
<1>4. \A s \in SUBSET (1..n) : s # {} => Max(s) \in 1..n /\ s \ {Max(s)} \in SUBSET (1..n)
  BY <1>3, MaxChooses DEF Chooser, MaxOf
<1>5. UpdateAll(c, pairs) = f[1..n]
  BY <1>3 DEF UpdateAll, Updates, FoldLeft, MapThenFoldSet
<1> HIDE DEF step, xs, n
<1>6. \E it : it = Body(it)
  <2>1. PICK it \in [SUBSET (1..n) -> SketchSet(d, w)] : LeftSteps(it, n, c, step)
    BY <1>2, <1>3, FoldLeftExists
  <2>2. \A s \in SUBSET (1..n) : it[s] = Body(it)[s]
    BY <1>2, <1>3, <1>4, <2>1 DEF LeftSteps, LeftStep
  <2>3. it = Body(it)
    BY <1>3, <2>1, <2>2
  <2> QED BY <2>3
<1>7. f = Body(f)
  <2> HIDE DEF Body
  <2> QED BY <1>6
<1> HIDE DEF f
<1>8. LeftFold(f, n, SketchSet(d, w), c, step)
  <2>1. \A s \in SUBSET (1..n) : f[s] = IF s = {} THEN c ELSE Updates(f[s \ {Max(s)}], xs[Max(s)])
    BY <1>3, <1>7
  <2>2. \A s \in SUBSET (1..n) : s # {} /\ f[s \ {Max(s)}] \in SketchSet(d, w) =>
          step[<<Max(s), f[s \ {Max(s)}]>>] = Updates(f[s \ {Max(s)}], xs[Max(s)])
    BY <1>2, <1>4
  <2> QED BY <2>1, <2>2 DEF LeftFold, LeftStep
<1>9. FoldsTo(f[1..n], n, SketchSet(d, w), c, step)
  BY <1>2, <1>3, <1>8, FoldLeftLaw
<1>10. PICK g \in [0..n -> SketchSet(d, w)] : Follows(g, n, c, step) /\ f[1..n] = g[n]
  BY <1>9 DEF FoldsTo
<1>11. \A i \in 1..n : g[i] = Updates(g[i - 1], xs[i])
  <2>1. \A i \in 1..n : g[i - 1] \in SketchSet(d, w)
    BY <1>3, <1>10
  <2> QED BY <1>2, <1>10, <2>1 DEF Follows
<1>12. g[0] = c
  BY <1>10 DEF Follows
<1> QED BY <1>5, <1>10, <1>11, <1>12 DEF UpdateRun, xs, n

\* The increments of the true counts.
LEMMA CountLoop ==
  ASSUME NEW c \in [Item -> Nat], NEW len \in Nat, NEW pairs \in [1..len -> Item \X Nat]
  PROVE  \E g \in [0..len -> [Item -> Nat]] : CountRun(g, len, c, pairs) /\ CountAll(c, pairs) = g[len]
<1> DEFINE n == len
           xs == pairs
           Body(it) == [s \in SUBSET DOMAIN xs |->
                          IF s = {} THEN c ELSE Counts(it[s \ {Max(s)}], xs[Max(s)])]
           step == [q \in (1..n) \X [Item -> Nat] |-> Counts(q[2], xs[q[1]])]
           f == CHOOSE it : it = Body(it)
<1>3. n \in Nat /\ DOMAIN xs = 1..n
  OBVIOUS
<1>2. /\ step \in [(1..n) \X [Item -> Nat] -> [Item -> Nat]]
      /\ \A i \in 1..n, a \in [Item -> Nat] : step[<<i, a>>] = Counts(a, xs[i])
  <2>1. \A q \in (1..n) \X [Item -> Nat] : Counts(q[2], xs[q[1]]) \in [Item -> Nat]
    BY <1>3, CountsStay
  <2> HIDE DEF xs, n
  <2> QED BY <2>1
<1>4. \A s \in SUBSET (1..n) : s # {} => Max(s) \in 1..n /\ s \ {Max(s)} \in SUBSET (1..n)
  BY <1>3, MaxChooses DEF Chooser, MaxOf
<1>5. CountAll(c, pairs) = f[1..n]
  BY <1>3 DEF CountAll, Counts, FoldLeft, MapThenFoldSet
<1> HIDE DEF step, xs, n
<1>6. \E it : it = Body(it)
  <2>1. PICK it \in [SUBSET (1..n) -> [Item -> Nat]] : LeftSteps(it, n, c, step)
    BY <1>2, <1>3, FoldLeftExists
  <2>2. \A s \in SUBSET (1..n) : it[s] = Body(it)[s]
    BY <1>2, <1>3, <1>4, <2>1 DEF LeftSteps, LeftStep
  <2>3. it = Body(it)
    BY <1>3, <2>1, <2>2
  <2> QED BY <2>3
<1>7. f = Body(f)
  <2> HIDE DEF Body
  <2> QED BY <1>6
<1> HIDE DEF f
<1>8. LeftFold(f, n, [Item -> Nat], c, step)
  <2>1. \A s \in SUBSET (1..n) : f[s] = IF s = {} THEN c ELSE Counts(f[s \ {Max(s)}], xs[Max(s)])
    BY <1>3, <1>7
  <2>2. \A s \in SUBSET (1..n) : s # {} /\ f[s \ {Max(s)}] \in [Item -> Nat] =>
          step[<<Max(s), f[s \ {Max(s)}]>>] = Counts(f[s \ {Max(s)}], xs[Max(s)])
    BY <1>2, <1>4
  <2> QED BY <2>1, <2>2 DEF LeftFold, LeftStep
<1>9. FoldsTo(f[1..n], n, [Item -> Nat], c, step)
  BY <1>2, <1>3, <1>8, FoldLeftLaw
<1>10. PICK g \in [0..n -> [Item -> Nat]] : Follows(g, n, c, step) /\ f[1..n] = g[n]
  BY <1>9 DEF FoldsTo
<1>11. \A i \in 1..n : g[i] = Counts(g[i - 1], xs[i])
  <2>1. \A i \in 1..n : g[i - 1] \in [Item -> Nat]
    BY <1>3, <1>10
  <2> QED BY <1>2, <1>10, <2>1 DEF Follows
<1>12. g[0] = c
  BY <1>10 DEF Follows
<1> QED BY <1>5, <1>10, <1>11, <1>12 DEF CountRun, xs, n

\* Sketch and true counts stay together.
LEMMA IncrementsKeep ==
  ASSUME NEW c, NEW counts, IsSketch(c, counts), NEW len \in Nat, NEW pairs \in [1..len -> Item \X Nat]
  PROVE  IsSketch(UpdateAll(c, pairs), CountAll(counts, pairs))
<1>1. c \in SketchSet(c.depth, c.width) /\ counts \in [Item -> Nat]
  <2>1. PICK u : SketchParts(c, u, counts)
    BY SketchIs
  <2>2. /\ c = [depth |-> c.depth, width |-> c.width, count |-> c.count, matrix |-> c.matrix]
        /\ c.matrix \in [0..(c.depth - 1) -> [0..(c.width - 1) -> Nat]] /\ c.count \in Nat
    BY <2>1, UintIs DEF SketchParts, Reduced
  <2>3. counts \in [Item -> Nat]
    BY <2>1 DEF SketchParts, IsExact
  <2> HIDE <2>1
  <2>4. c \in SketchSet(c.depth, c.width)
    <3> DEFINE d == c.depth
               w == c.width
               e == c.count
               m == c.matrix
    <3>1. c = [depth |-> d, width |-> w, count |-> e, matrix |-> m] /\ e \in Nat
          /\ m \in [0..(d - 1) -> [0..(w - 1) -> Nat]]
      BY <2>2
    <3> HIDE DEF d, w, e, m
    <3>2. c \in SketchSet(d, w)
      BY <3>1 DEF SketchSet
    <3> QED BY <3>2 DEF d, w
  <2> QED BY <2>3, <2>4
<1>2. PICK g : UpdateRun(g, len, c, pairs) /\ UpdateAll(c, pairs) = g[len]
  BY <1>1, UpdateLoop
<1>3. PICK t : CountRun(t, len, counts, pairs) /\ CountAll(counts, pairs) = t[len]
  BY <1>1, CountLoop
<1> DEFINE S == {m \in Nat : m <= len => IsSketch(g[m], t[m])}
<1>4. 0 \in S
  BY <1>2, <1>3 DEF UpdateRun, CountRun
<1>5. ASSUME NEW m \in Nat, m \in S PROVE m + 1 \in S
  <2> SUFFICES ASSUME m + 1 <= len PROVE IsSketch(g[m + 1], t[m + 1])
    OBVIOUS
  <2> DEFINE i == m + 1
  <2>1. i \in 1..len /\ i - 1 = m /\ IsSketch(g[m], t[m])
    BY <1>5
  <2>2. pairs[i][1] \in Item /\ pairs[i][2] \in Nat
    BY <2>1
  <2>3. g[i] = Updates(g[m], pairs[i]) /\ t[i] = Counts(t[m], pairs[i])
    BY <1>2, <1>3, <2>1 DEF UpdateRun, CountRun
  <2> HIDE DEF i
  <2>4. IsSketch(Updates(g[m], pairs[i]), Counts(t[m], pairs[i]))
    BY <2>1, <2>2, SketchUpdate DEF Updates, Counts
  <2>5. IsSketch(g[i], t[i])
    BY <2>3, <2>4
  <2> QED BY <2>5 DEF i
<1> HIDE DEF S
<1>6. len \in S
  BY <1>4, <1>5, NatInd
<1> QED BY <1>2, <1>3, <1>6 DEF S

LEMMA IncrByOutcome ==
  ASSUME DataInv, NEW k \in Key, NEW len \in Nat, NEW items \in [1..len -> Item],
         NEW ns \in [1..len -> Nat \cup {NaN}], CMSINCRBY(k, items, ns)
  PROVE  Outcome(k)
<1> DEFINE pairs == [i \in DOMAIN items |-> <<items[i], ns[i]>>]
<1>1. CASE Answer(Err)
  BY <1>1, AnswerOutcome
<1>2. CASE /\ Holds(k, "cms") /\ \A i \in DOMAIN ns : ns[i] # NaN
           /\ PutCMS(k, UpdateAll(Val(k), pairs), CountAll(ghost[k], pairs))
  <2>1. IsSketch(Val(k), ghost[k])
    <3>1. Cell(store[k], ghost[k])
      BY DEF DataInv
    <3> QED BY <1>2, <3>1 DEF Cell, SketchCell, Holds, Val
  <2>2. pairs \in [1..len -> Item \X Nat]
    BY <1>2
  <2> HIDE DEF pairs
  <2>3. IsSketch(UpdateAll(Val(k), pairs), CountAll(ghost[k], pairs))
    BY <2>1, <2>2, IncrementsKeep
  <2> QED BY <1>2, <2>3, PutSketchOutcome
<1> QED BY <1>1, <1>2 DEF CMSINCRBY, UpdateAll, CountAll

-----------------------------------------------------------------------------
(* CMS.MERGE: weighted totals *)

TotalRun(g, n, w, a) == g[0] = 0 /\ \A i \in 1..n : g[i] = g[i - 1] + w[i] * a[i]

\* r is the total of the values of a, weighted with w.
IsTotal(r, n, w, a) == \E g \in [0..n -> Nat] : TotalRun(g, n, w, a) /\ r = g[n]

CountTotal(ss, w) ==
  FoldLeft(LAMBDA sum, i : sum + w[i] * ss[i].count, 0, [i \in DOMAIN ss |-> i])
CellTotal(ss, w, row, col) ==
  FoldLeft(LAMBDA sum, i : sum + w[i] * ss[i].matrix[row][col], 0, [i \in DOMAIN ss |-> i])
TrueTotal(G, ss, w, item) ==
  FoldLeft(LAMBDA sum, i : sum + w[i] * G[ss[i]][item], 0, [i \in DOMAIN ss |-> i])

\* The count of a merge.
LEMMA CountTotalIs ==
  ASSUME NEW n \in Nat, NEW w \in [1..n -> Nat], NEW a \in [1..n -> Nat],
         NEW ss, DOMAIN ss = 1..n, \A i \in 1..n : a[i] = ss[i].count
  PROVE  IsTotal(CountTotal(ss, w), n, w, a)
<1> DEFINE xs == [i \in DOMAIN ss |-> i]
           zero == 0
           prod == [i \in 1..n |-> w[i] * a[i]]
           T(x) == w[x] * ss[x].count
           Body(it) == [s \in SUBSET DOMAIN xs |->
                          IF s = {} THEN zero ELSE it[s \ {Max(s)}] + T(xs[Max(s)])]
           step == [q \in (1..n) \X Nat |-> q[2] + prod[q[1]]]
           f == CHOOSE it : it = Body(it)
<1>1. \A i \in 1..n : xs[i] = i /\ T(xs[i]) = prod[i] /\ prod[i] = w[i] * a[i] /\ prod[i] \in Nat
  <2> SUFFICES ASSUME NEW i \in 1..n
               PROVE  xs[i] = i /\ T(xs[i]) = prod[i] /\ prod[i] = w[i] * a[i] /\ prod[i] \in Nat
    OBVIOUS
  <2>1. w[i] \in Nat /\ a[i] \in Nat
    OBVIOUS
  <2>2. w[i] * a[i] \in Nat
    BY <2>1
  <2>3. xs[i] = i
    OBVIOUS
  <2>4. prod[i] = w[i] * a[i]
    OBVIOUS
  <2>5. T(i) = w[i] * a[i]
    OBVIOUS
  <2> QED BY <2>2, <2>3, <2>4, <2>5
<1> HIDE DEF prod, T
<1>2. /\ step \in [(1..n) \X Nat -> Nat] /\ zero \in Nat
      /\ \A i \in 1..n, b \in Nat : step[<<i, b>>] = b + prod[i]
  <2>1. \A q \in (1..n) \X Nat : q[2] + prod[q[1]] \in Nat
    BY SMTT(30), <1>1
  <2> QED BY <2>1
<1>3. DOMAIN xs = 1..n
  OBVIOUS
<1>4. \A s \in SUBSET (1..n) : s # {} => Max(s) \in 1..n /\ s \ {Max(s)} \in SUBSET (1..n)
  BY MaxChooses DEF Chooser, MaxOf
<1>5. CountTotal(ss, w) = f[1..n]
  BY <1>3 DEF CountTotal, FoldLeft, MapThenFoldSet, prod, T
<1> HIDE DEF step, xs, zero
<1>6. \E it : it = Body(it)
  <2> DEFINE V == Nat
  <2>0. step \in [(1..n) \X V -> V] /\ zero \in V
    BY <1>2
  <2> HIDE DEF V
  <2>1. PICK it \in [SUBSET (1..n) -> V] : LeftSteps(it, n, zero, step)
    BY <2>0, FoldLeftExists
  <2>2. \A s \in SUBSET (1..n) : it[s] = Body(it)[s]
    <3> SUFFICES ASSUME NEW s \in SUBSET (1..n) PROVE it[s] = Body(it)[s]
      OBVIOUS
    <3>1. CASE s = {}
      BY <1>3, <2>1, <3>1 DEF LeftSteps, LeftStep
    <3>2. CASE s # {}
      <4>1. Max(s) \in 1..n /\ it[s \ {Max(s)}] \in Nat
        BY <1>4, <2>1, <3>2 DEF V
      <4>2. it[s] = step[<<Max(s), it[s \ {Max(s)}]>>]
        BY <2>1, <3>2 DEF LeftSteps, LeftStep
      <4>3. it[s] = it[s \ {Max(s)}] + T(xs[Max(s)])
        <5>1. step[<<Max(s), it[s \ {Max(s)}]>>] = it[s \ {Max(s)}] + prod[Max(s)]
          BY <1>2, <4>1
        <5>2. T(xs[Max(s)]) = prod[Max(s)]
          BY <1>1, <4>1
        <5> QED BY <4>2, <5>1, <5>2
      <4> QED BY <1>3, <3>2, <4>3
    <3> QED BY <3>1, <3>2
  <2>3. it = Body(it)
    BY <1>3, <2>1, <2>2
  <2> QED BY <2>3
<1>7. f = Body(f)
  <2> HIDE DEF Body
  <2> QED BY <1>6
<1> HIDE DEF f
<1>8. LeftFold(f, n, Nat, zero, step)
  <2>1. \A s \in SUBSET (1..n) : f[s] = IF s = {} THEN zero ELSE f[s \ {Max(s)}] + T(xs[Max(s)])
    BY <1>3, <1>7
  <2>2. \A s \in SUBSET (1..n) : s # {} /\ f[s \ {Max(s)}] \in Nat =>
          step[<<Max(s), f[s \ {Max(s)}]>>] = f[s \ {Max(s)}] + T(xs[Max(s)])
    <3> SUFFICES ASSUME NEW s \in SUBSET (1..n), s # {}, f[s \ {Max(s)}] \in Nat
                 PROVE  step[<<Max(s), f[s \ {Max(s)}]>>] = f[s \ {Max(s)}] + T(xs[Max(s)])
      OBVIOUS
    <3>1. Max(s) \in 1..n
      BY <1>4
    <3>2. step[<<Max(s), f[s \ {Max(s)}]>>] = f[s \ {Max(s)}] + prod[Max(s)]
      BY <1>2, <3>1
    <3>3. T(xs[Max(s)]) = prod[Max(s)]
      BY <1>1, <3>1
    <3> QED BY <3>2, <3>3
  <2> QED BY <2>1, <2>2 DEF LeftFold, LeftStep
<1>9. FoldsTo(f[1..n], n, Nat, zero, step)
  <2> DEFINE V == Nat
  <2>1. step \in [(1..n) \X V -> V] /\ zero \in V /\ LeftFold(f, n, V, zero, step)
    BY <1>2, <1>8
  <2> HIDE DEF V
  <2>2. FoldsTo(f[1..n], n, V, zero, step)
    BY <2>1, FoldLeftLaw
  <2> QED BY <2>2 DEF V
<1>10. PICK g \in [0..n -> Nat] : Follows(g, n, zero, step) /\ f[1..n] = g[n]
  BY <1>9 DEF FoldsTo
<1>11. \A i \in 1..n : g[i] = g[i - 1] + w[i] * a[i]
  <2>1. \A i \in 1..n : g[i - 1] \in Nat
    BY <1>10
  <2> SUFFICES ASSUME NEW i \in 1..n PROVE g[i] = g[i - 1] + w[i] * a[i]
    OBVIOUS
  <2>2. g[i] = step[<<i, g[i - 1]>>]
    BY <1>10 DEF Follows
  <2>3. step[<<i, g[i - 1]>>] = g[i - 1] + prod[i]
    BY <1>2, <2>1
  <2>4. prod[i] = w[i] * a[i]
    BY <1>1
  <2> QED BY <2>2, <2>3, <2>4
<1>12. g[0] = 0
  BY <1>10 DEF Follows, zero
<1> QED BY <1>5, <1>10, <1>11, <1>12 DEF IsTotal, TotalRun

\* A cell of a merge.
LEMMA CellTotalIs ==
  ASSUME NEW n \in Nat, NEW w \in [1..n -> Nat], NEW a \in [1..n -> Nat],
         NEW ss, DOMAIN ss = 1..n, NEW row, NEW col,
         \A i \in 1..n : a[i] = ss[i].matrix[row][col]
  PROVE  IsTotal(CellTotal(ss, w, row, col), n, w, a)
<1> DEFINE xs == [i \in DOMAIN ss |-> i]
           zero == 0
           prod == [i \in 1..n |-> w[i] * a[i]]
           T(x) == w[x] * ss[x].matrix[row][col]
           Body(it) == [s \in SUBSET DOMAIN xs |->
                          IF s = {} THEN zero ELSE it[s \ {Max(s)}] + T(xs[Max(s)])]
           step == [q \in (1..n) \X Nat |-> q[2] + prod[q[1]]]
           f == CHOOSE it : it = Body(it)
<1>1. \A i \in 1..n : xs[i] = i /\ T(xs[i]) = prod[i] /\ prod[i] = w[i] * a[i] /\ prod[i] \in Nat
  <2> SUFFICES ASSUME NEW i \in 1..n
               PROVE  xs[i] = i /\ T(xs[i]) = prod[i] /\ prod[i] = w[i] * a[i] /\ prod[i] \in Nat
    OBVIOUS
  <2>1. w[i] \in Nat /\ a[i] \in Nat
    OBVIOUS
  <2>2. w[i] * a[i] \in Nat
    BY <2>1
  <2>3. xs[i] = i
    OBVIOUS
  <2>4. prod[i] = w[i] * a[i]
    OBVIOUS
  <2>5. T(i) = w[i] * a[i]
    OBVIOUS
  <2> QED BY <2>2, <2>3, <2>4, <2>5
<1> HIDE DEF prod, T
<1>2. /\ step \in [(1..n) \X Nat -> Nat] /\ zero \in Nat
      /\ \A i \in 1..n, b \in Nat : step[<<i, b>>] = b + prod[i]
  <2>1. \A q \in (1..n) \X Nat : q[2] + prod[q[1]] \in Nat
    BY <1>1
  <2> QED BY <2>1
<1>3. DOMAIN xs = 1..n
  OBVIOUS
<1>4. \A s \in SUBSET (1..n) : s # {} => Max(s) \in 1..n /\ s \ {Max(s)} \in SUBSET (1..n)
  BY MaxChooses DEF Chooser, MaxOf
<1>5. CellTotal(ss, w, row, col) = f[1..n]
  BY <1>3 DEF CellTotal, FoldLeft, MapThenFoldSet, prod, T
<1> HIDE DEF step, xs, zero
<1>6. \E it : it = Body(it)
  <2> DEFINE V == Nat
  <2>0. step \in [(1..n) \X V -> V] /\ zero \in V
    BY <1>2
  <2> HIDE DEF V
  <2>1. PICK it \in [SUBSET (1..n) -> V] : LeftSteps(it, n, zero, step)
    BY <2>0, FoldLeftExists
  <2>2. \A s \in SUBSET (1..n) : it[s] = Body(it)[s]
    <3> SUFFICES ASSUME NEW s \in SUBSET (1..n) PROVE it[s] = Body(it)[s]
      OBVIOUS
    <3>1. CASE s = {}
      BY <1>3, <2>1, <3>1 DEF LeftSteps, LeftStep
    <3>2. CASE s # {}
      <4>1. Max(s) \in 1..n /\ it[s \ {Max(s)}] \in Nat
        BY <1>4, <2>1, <3>2 DEF V
      <4>2. it[s] = step[<<Max(s), it[s \ {Max(s)}]>>]
        BY <2>1, <3>2 DEF LeftSteps, LeftStep
      <4>3. it[s] = it[s \ {Max(s)}] + T(xs[Max(s)])
        <5>1. step[<<Max(s), it[s \ {Max(s)}]>>] = it[s \ {Max(s)}] + prod[Max(s)]
          BY <1>2, <4>1
        <5>2. T(xs[Max(s)]) = prod[Max(s)]
          BY <1>1, <4>1
        <5> QED BY <4>2, <5>1, <5>2
      <4> QED BY <1>3, <3>2, <4>3
    <3> QED BY <3>1, <3>2
  <2>3. it = Body(it)
    BY <1>3, <2>1, <2>2
  <2> QED BY <2>3
<1>7. f = Body(f)
  <2> HIDE DEF Body
  <2> QED BY <1>6
<1> HIDE DEF f
<1>8. LeftFold(f, n, Nat, zero, step)
  <2>1. \A s \in SUBSET (1..n) : f[s] = IF s = {} THEN zero ELSE f[s \ {Max(s)}] + T(xs[Max(s)])
    BY <1>3, <1>7
  <2>2. \A s \in SUBSET (1..n) : s # {} /\ f[s \ {Max(s)}] \in Nat =>
          step[<<Max(s), f[s \ {Max(s)}]>>] = f[s \ {Max(s)}] + T(xs[Max(s)])
    <3> SUFFICES ASSUME NEW s \in SUBSET (1..n), s # {}, f[s \ {Max(s)}] \in Nat
                 PROVE  step[<<Max(s), f[s \ {Max(s)}]>>] = f[s \ {Max(s)}] + T(xs[Max(s)])
      OBVIOUS
    <3>1. Max(s) \in 1..n
      BY <1>4
    <3>2. step[<<Max(s), f[s \ {Max(s)}]>>] = f[s \ {Max(s)}] + prod[Max(s)]
      BY <1>2, <3>1
    <3>3. T(xs[Max(s)]) = prod[Max(s)]
      BY <1>1, <3>1
    <3> QED BY <3>2, <3>3
  <2> QED BY <2>1, <2>2 DEF LeftFold, LeftStep
<1>9. FoldsTo(f[1..n], n, Nat, zero, step)
  <2> DEFINE V == Nat
  <2>1. step \in [(1..n) \X V -> V] /\ zero \in V /\ LeftFold(f, n, V, zero, step)
    BY <1>2, <1>8
  <2> HIDE DEF V
  <2>2. FoldsTo(f[1..n], n, V, zero, step)
    BY <2>1, FoldLeftLaw
  <2> QED BY <2>2 DEF V
<1>10. PICK g \in [0..n -> Nat] : Follows(g, n, zero, step) /\ f[1..n] = g[n]
  BY <1>9 DEF FoldsTo
<1>11. \A i \in 1..n : g[i] = g[i - 1] + w[i] * a[i]
  <2>1. \A i \in 1..n : g[i - 1] \in Nat
    BY <1>10
  <2> SUFFICES ASSUME NEW i \in 1..n PROVE g[i] = g[i - 1] + w[i] * a[i]
    OBVIOUS
  <2>2. g[i] = step[<<i, g[i - 1]>>]
    BY <1>10 DEF Follows
  <2>3. step[<<i, g[i - 1]>>] = g[i - 1] + prod[i]
    BY <1>2, <2>1
  <2>4. prod[i] = w[i] * a[i]
    BY <1>1
  <2> QED BY <2>2, <2>3, <2>4
<1>12. g[0] = 0
  BY <1>10 DEF Follows, zero
<1> QED BY <1>5, <1>10, <1>11, <1>12 DEF IsTotal, TotalRun

\* The true count of an item in a merge.
LEMMA TrueTotalIs ==
  ASSUME NEW n \in Nat, NEW w \in [1..n -> Nat], NEW a \in [1..n -> Nat],
         NEW G, NEW ss, DOMAIN ss = 1..n, NEW item, \A i \in 1..n : a[i] = G[ss[i]][item]
  PROVE  IsTotal(TrueTotal(G, ss, w, item), n, w, a)
<1> DEFINE xs == [i \in DOMAIN ss |-> i]
           zero == 0
           prod == [i \in 1..n |-> w[i] * a[i]]
           T(x) == w[x] * G[ss[x]][item]
           Body(it) == [s \in SUBSET DOMAIN xs |->
                          IF s = {} THEN zero ELSE it[s \ {Max(s)}] + T(xs[Max(s)])]
           step == [q \in (1..n) \X Nat |-> q[2] + prod[q[1]]]
           f == CHOOSE it : it = Body(it)
<1>1. \A i \in 1..n : xs[i] = i /\ T(xs[i]) = prod[i] /\ prod[i] = w[i] * a[i] /\ prod[i] \in Nat
  <2> SUFFICES ASSUME NEW i \in 1..n
               PROVE  xs[i] = i /\ T(xs[i]) = prod[i] /\ prod[i] = w[i] * a[i] /\ prod[i] \in Nat
    OBVIOUS
  <2>1. w[i] \in Nat /\ a[i] \in Nat
    OBVIOUS
  <2>2. w[i] * a[i] \in Nat
    BY <2>1
  <2>3. xs[i] = i
    OBVIOUS
  <2>4. prod[i] = w[i] * a[i]
    OBVIOUS
  <2>5. T(i) = w[i] * a[i]
    OBVIOUS
  <2> QED BY <2>2, <2>3, <2>4, <2>5
<1> HIDE DEF prod, T
<1>2. /\ step \in [(1..n) \X Nat -> Nat] /\ zero \in Nat
      /\ \A i \in 1..n, b \in Nat : step[<<i, b>>] = b + prod[i]
  <2>1. \A q \in (1..n) \X Nat : q[2] + prod[q[1]] \in Nat
    BY SMTT(30), <1>1
  <2> QED BY <2>1
<1>3. DOMAIN xs = 1..n
  OBVIOUS
<1>4. \A s \in SUBSET (1..n) : s # {} => Max(s) \in 1..n /\ s \ {Max(s)} \in SUBSET (1..n)
  BY MaxChooses DEF Chooser, MaxOf
<1>5. TrueTotal(G, ss, w, item) = f[1..n]
  BY <1>3 DEF TrueTotal, FoldLeft, MapThenFoldSet, prod, T
<1> HIDE DEF step, xs, zero
<1>6. \E it : it = Body(it)
  <2> DEFINE V == Nat
  <2>0. step \in [(1..n) \X V -> V] /\ zero \in V
    BY <1>2
  <2> HIDE DEF V
  <2>1. PICK it \in [SUBSET (1..n) -> V] : LeftSteps(it, n, zero, step)
    BY <2>0, FoldLeftExists
  <2>2. \A s \in SUBSET (1..n) : it[s] = Body(it)[s]
    <3> SUFFICES ASSUME NEW s \in SUBSET (1..n) PROVE it[s] = Body(it)[s]
      OBVIOUS
    <3>1. CASE s = {}
      BY <1>3, <2>1, <3>1 DEF LeftSteps, LeftStep
    <3>2. CASE s # {}
      <4>1. Max(s) \in 1..n /\ it[s \ {Max(s)}] \in Nat
        BY <1>4, <2>1, <3>2 DEF V
      <4>2. it[s] = step[<<Max(s), it[s \ {Max(s)}]>>]
        BY <2>1, <3>2 DEF LeftSteps, LeftStep
      <4>3. it[s] = it[s \ {Max(s)}] + T(xs[Max(s)])
        <5>1. step[<<Max(s), it[s \ {Max(s)}]>>] = it[s \ {Max(s)}] + prod[Max(s)]
          BY <1>2, <4>1
        <5>2. T(xs[Max(s)]) = prod[Max(s)]
          BY <1>1, <4>1
        <5> QED BY <4>2, <5>1, <5>2
      <4> QED BY <1>3, <3>2, <4>3
    <3> QED BY <3>1, <3>2
  <2>3. it = Body(it)
    BY <1>3, <2>1, <2>2
  <2> QED BY <2>3
<1>7. f = Body(f)
  <2> HIDE DEF Body
  <2> QED BY <1>6
<1> HIDE DEF f
<1>8. LeftFold(f, n, Nat, zero, step)
  <2>1. \A s \in SUBSET (1..n) : f[s] = IF s = {} THEN zero ELSE f[s \ {Max(s)}] + T(xs[Max(s)])
    BY <1>3, <1>7
  <2>2. \A s \in SUBSET (1..n) : s # {} /\ f[s \ {Max(s)}] \in Nat =>
          step[<<Max(s), f[s \ {Max(s)}]>>] = f[s \ {Max(s)}] + T(xs[Max(s)])
    <3> SUFFICES ASSUME NEW s \in SUBSET (1..n), s # {}, f[s \ {Max(s)}] \in Nat
                 PROVE  step[<<Max(s), f[s \ {Max(s)}]>>] = f[s \ {Max(s)}] + T(xs[Max(s)])
      OBVIOUS
    <3>1. Max(s) \in 1..n
      BY <1>4
    <3>2. step[<<Max(s), f[s \ {Max(s)}]>>] = f[s \ {Max(s)}] + prod[Max(s)]
      BY <1>2, <3>1
    <3>3. T(xs[Max(s)]) = prod[Max(s)]
      BY <1>1, <3>1
    <3> QED BY <3>2, <3>3
  <2> QED BY <2>1, <2>2 DEF LeftFold, LeftStep
<1>9. FoldsTo(f[1..n], n, Nat, zero, step)
  <2> DEFINE V == Nat
  <2>1. step \in [(1..n) \X V -> V] /\ zero \in V /\ LeftFold(f, n, V, zero, step)
    BY <1>2, <1>8
  <2> HIDE DEF V
  <2>2. FoldsTo(f[1..n], n, V, zero, step)
    BY <2>1, FoldLeftLaw
  <2> QED BY <2>2 DEF V
<1>10. PICK g \in [0..n -> Nat] : Follows(g, n, zero, step) /\ f[1..n] = g[n]
  BY <1>9 DEF FoldsTo
<1>11. \A i \in 1..n : g[i] = g[i - 1] + w[i] * a[i]
  <2>1. \A i \in 1..n : g[i - 1] \in Nat
    BY <1>10
  <2> SUFFICES ASSUME NEW i \in 1..n PROVE g[i] = g[i - 1] + w[i] * a[i]
    OBVIOUS
  <2>2. g[i] = step[<<i, g[i - 1]>>]
    BY <1>10 DEF Follows
  <2>3. step[<<i, g[i - 1]>>] = g[i - 1] + prod[i]
    BY <1>2, <2>1
  <2>4. prod[i] = w[i] * a[i]
    BY <1>1
  <2> QED BY <2>2, <2>3, <2>4
<1>12. g[0] = 0
  BY <1>10 DEF Follows, zero
<1> QED BY <1>5, <1>10, <1>11, <1>12 DEF IsTotal, TotalRun

LEMMA TotalNat ==
  ASSUME NEW n \in Nat, NEW w, NEW a, NEW r, IsTotal(r, n, w, a)
  PROVE  r \in Nat
BY DEF IsTotal

LEMMA TimesGeq ==
  ASSUME NEW v \in Nat, NEW a \in Nat, NEW b \in Nat, a >= b
  PROVE  v * a \in Nat /\ v * b \in Nat /\ v * a >= v * b
<1> DEFINE d == a - b
<1>1. d \in Nat /\ a = b + d
  OBVIOUS
<1> HIDE DEF d
<1>2. v * a = v * b + v * d /\ v * b \in Nat /\ v * d \in Nat
  BY <1>1
<1> QED BY <1>2

\* The total of greater values is not smaller.
LEMMA TotalMonotone ==
  ASSUME NEW n \in Nat, NEW w \in [1..n -> Nat], NEW a \in [1..n -> Nat], NEW b \in [1..n -> Nat],
         \A i \in 1..n : a[i] >= b[i], NEW r, NEW q, IsTotal(r, n, w, a), IsTotal(q, n, w, b)
  PROVE  r >= q
<1>1. PICK f \in [0..n -> Nat] : TotalRun(f, n, w, a) /\ r = f[n]
  BY DEF IsTotal
<1>2. PICK g \in [0..n -> Nat] : TotalRun(g, n, w, b) /\ q = g[n]
  BY DEF IsTotal
<1> DEFINE S == {m \in Nat : m <= n => f[m] >= g[m]}
<1>3. 0 \in S
  BY <1>1, <1>2 DEF TotalRun
<1>4. ASSUME NEW m \in Nat, m \in S PROVE m + 1 \in S
  <2> SUFFICES ASSUME m + 1 <= n PROVE f[m + 1] >= g[m + 1]
    OBVIOUS
  <2> DEFINE i == m + 1
  <2>1. i \in 1..n /\ i - 1 = m /\ f[m] >= g[m] /\ f[m] \in Nat /\ g[m] \in Nat
    BY <1>4
  <2>2. f[i] = f[m] + w[i] * a[i] /\ g[i] = g[m] + w[i] * b[i]
    BY <1>1, <1>2, <2>1 DEF TotalRun
  <2>3. w[i] \in Nat /\ a[i] \in Nat /\ b[i] \in Nat /\ a[i] >= b[i]
    BY <2>1
  <2> HIDE DEF i
  <2>4. w[i] * a[i] \in Nat /\ w[i] * b[i] \in Nat /\ w[i] * a[i] >= w[i] * b[i]
    BY <2>3, TimesGeq
  <2> DEFINE p == w[i] * a[i]
             o == w[i] * b[i]
  <2>6. p \in Nat /\ o \in Nat /\ p >= o /\ f[i] = f[m] + p /\ g[i] = g[m] + o
    BY <2>2, <2>4
  <2> HIDE DEF p, o
  <2>5. f[i] >= g[i]
    <3>1. f[m] \in Nat /\ g[m] \in Nat /\ f[m] >= g[m]
      BY <2>1
    <3> QED BY ONLY <3>1, <2>6
  <2> QED BY <2>5 DEF i
<1> HIDE DEF S
<1>5. n \in S
  BY <1>3, <1>4, NatInd
<1> QED BY <1>1, <1>2, <1>5 DEF S

Adds(new, old, x, more, D) == \A a \in D : new[a] = old[a] + x * more[a]
AddsUp(new, old, x, more) == SumFunction(new) = SumFunction(old) + x * SumFunction(more)

LEMMA SumAdds ==
  ASSUME NEW D, IsFiniteSet(D), NEW x \in Int,
         NEW old \in [D -> Int], NEW more \in [D -> Int], NEW new \in [D -> Int],
         Adds(new, old, x, more, D)
  PROVE  AddsUp(new, old, x, more)
<1> DEFINE one == 1
<1>1. one \in Int
  OBVIOUS
<1>2. Weighted(new, one, old, x, more, D)
  <2>1. \A a \in D : old[a] \in Int /\ 1 * old[a] = old[a]
    OBVIOUS
  <2> QED BY <2>1 DEF Weighted, Adds
<1> HIDE DEF one
<1>3. SumFunction(new) = one * SumFunction(old) + x * SumFunction(more)
  BY <1>1, <1>2, SumWeighted
<1>4. SumFunction(old) \in Int
  <2>1. PICK it \in [SUBSET D -> Int] : SumSteps(it, old, D) /\ SumFunction(old) = it[D]
    BY SumIs
  <2> QED BY <2>1
<1>5. one * SumFunction(old) = SumFunction(old)
  BY <1>4 DEF one
<1> QED BY <1>3, <1>5 DEF AddsUp

\* Each of the functions F has its sum in S, A has their values at each
\* point, and R the totals of those.
HaveSums(S, F, n) == \A i \in 1..n : SumFunction(F[i]) = S[i]
Transposes(A, F, D, n) == \A x \in D, i \in 1..n : A[x][i] = F[i][x]
HasTotals(R, n, w, A, D) == \A x \in D : IsTotal(R[x], n, w, A[x])

Tableau(D, n, w, F, S, A, R, t) ==
  /\ IsFiniteSet(D) /\ n \in Nat /\ w \in [1..n -> Nat]
  /\ F \in [1..n -> [D -> Nat]] /\ S \in [1..n -> Nat] /\ HaveSums(S, F, n)
  /\ A \in [D -> [1..n -> Nat]] /\ Transposes(A, F, D, n)
  /\ R \in [D -> Nat] /\ HasTotals(R, n, w, A, D)
  /\ IsTotal(t, n, w, S)

\* The sum of totals is the total of sums.
LEMMA SumOfTotals ==
  ASSUME NEW D, NEW n, NEW w, NEW F, NEW S, NEW A, NEW R, NEW t, Tableau(D, n, w, F, S, A, R, t)
  PROVE  SumFunction(R) = t
<1>0. /\ IsFiniteSet(D) /\ n \in Nat /\ w \in [1..n -> Nat]
      /\ F \in [1..n -> [D -> Nat]] /\ S \in [1..n -> Nat] /\ HaveSums(S, F, n)
      /\ A \in [D -> [1..n -> Nat]] /\ Transposes(A, F, D, n)
      /\ R \in [D -> Nat] /\ HasTotals(R, n, w, A, D)
      /\ IsTotal(t, n, w, S)
  BY DEF Tableau
<1> USE <1>0
<1>1. PICK h \in [0..n -> Nat] : TotalRun(h, n, w, S) /\ t = h[n]
  BY DEF IsTotal
<1> DEFINE G == [x \in D |-> CHOOSE g \in [0..n -> Nat] : TotalRun(g, n, w, A[x]) /\ R[x] = g[n]]
<1>2. \A x \in D : G[x] \in [0..n -> Nat] /\ TotalRun(G[x], n, w, A[x]) /\ R[x] = G[x][n]
  <2> SUFFICES ASSUME NEW x \in D
               PROVE  G[x] \in [0..n -> Nat] /\ TotalRun(G[x], n, w, A[x]) /\ R[x] = G[x][n]
    OBVIOUS
  <2>1. \E g \in [0..n -> Nat] : TotalRun(g, n, w, A[x]) /\ R[x] = g[n]
    BY DEF IsTotal, HasTotals
  <2>2. G[x] = CHOOSE g \in [0..n -> Nat] : TotalRun(g, n, w, A[x]) /\ R[x] = g[n]
    OBVIOUS
  <2> HIDE DEF G
  <2> QED BY <2>1, <2>2
<1> HIDE DEF G
<1> DEFINE Part(m) == [x \in D |-> G[x][m]]
           T == {m \in Nat : m <= n => SumFunction(Part(m)) = h[m]}
<1>3. 0 \in T
  <2> DEFINE f == Part(0)
  <2>1. f \in [D -> Int] /\ \A x \in D : f[x] = 0
    BY <1>2 DEF TotalRun
  <2> HIDE DEF f
  <2>2. SumFunction(f) = 0
    BY <2>1, SumZero
  <2>3. SumFunction(Part(0)) = h[0]
    BY <1>1, <2>2 DEF TotalRun, f
  <2> QED BY <2>3
<1>4. ASSUME NEW m \in Nat, m \in T PROVE m + 1 \in T
  <2> SUFFICES ASSUME m + 1 <= n PROVE SumFunction(Part(m + 1)) = h[m + 1]
    OBVIOUS
  <2> DEFINE i == m + 1
             old == Part(m)
             more == F[i]
             new == Part(i)
             by == w[i]
  <2>1. i \in 1..n /\ i - 1 = m /\ m \in 0..n /\ i \in 0..n /\ SumFunction(old) = h[m]
    BY <1>4
  <2>2. old \in [D -> Int] /\ more \in [D -> Int] /\ new \in [D -> Int] /\ by \in Int /\ h[m] \in Int
    BY <1>2, <2>1
  <2>3. \A x \in D : new[x] = old[x] + by * more[x]
    <3> SUFFICES ASSUME NEW x \in D PROVE new[x] = old[x] + by * more[x]
      OBVIOUS
    <3>1. G[x][i] = G[x][i - 1] + w[i] * A[x][i]
      BY <1>2, <2>1 DEF TotalRun
    <3>2. A[x][i] = more[x]
      BY <2>1 DEF Transposes
    <3>3. new[x] = G[x][i] /\ old[x] = G[x][m]
      OBVIOUS
    <3> HIDE DEF old, more, new, i
    <3> QED BY <2>1, <3>1, <3>2, <3>3
  <2>4. h[i] = h[m] + by * S[i] /\ S[i] = SumFunction(more)
    BY <1>1, <2>1 DEF TotalRun, HaveSums
  <2>7. S[i] \in Nat
    BY <2>1
  <2> HIDE DEF old, more, new, by
  <2>5. Adds(new, old, by, more, D)
    BY <2>3 DEF Adds
  <2>6. AddsUp(new, old, by, more)
    BY <2>2, <2>5, SumAdds
  <2>9. SumFunction(new) = h[i]
    BY <2>1, <2>4, <2>6 DEF AddsUp
  <2> QED BY <2>9 DEF new
<1> HIDE DEF T
<1>5. n \in T
  BY <1>3, <1>4, NatInd
<1>6. SumFunction(Part(n)) = h[n]
  BY <1>5 DEF T
<1>7. R = [x \in D |-> G[x][n]]
  BY <1>2
<1> QED BY <1>1, <1>6, <1>7

-----------------------------------------------------------------------------
(* CMS.MERGE: totals that wrap around *)

ModRun(g, n, w, a) == g[0] = 0 /\ \A i \in 1..n : g[i] = (g[i - 1] + w[i] * a[i]) % UintMod

IsModTotal(r, n, w, a) == \E g \in [0..n -> Nat] : ModRun(g, n, w, a) /\ r = g[n]

ModCount(ss, w) ==
  FoldLeft(LAMBDA sum, i : (sum + w[i] * ss[i].count) % UintMod, 0, [i \in DOMAIN ss |-> i])
ModCell(ss, w, row, col) ==
  FoldLeft(LAMBDA sum, i : (sum + w[i] * ss[i].matrix[row][col]) % UintMod, 0, [i \in DOMAIN ss |-> i])

LEMMA ModCountIs ==
  ASSUME NEW n \in Nat, NEW w \in [1..n -> Nat], NEW a \in [1..n -> Nat],
         NEW ss, DOMAIN ss = 1..n, \A i \in 1..n : a[i] = ss[i].count
  PROVE  IsModTotal(ModCount(ss, w), n, w, a)
<1> DEFINE xs == [i \in DOMAIN ss |-> i]
           zero == 0
           prod == [i \in 1..n |-> w[i] * a[i]]
           T(x) == w[x] * ss[x].count
           Body(it) == [s \in SUBSET DOMAIN xs |->
                          IF s = {} THEN zero ELSE (it[s \ {Max(s)}] + T(xs[Max(s)])) % UintMod]
           step == [q \in (1..n) \X Nat |-> (q[2] + prod[q[1]]) % UintMod]
           f == CHOOSE it : it = Body(it)
<1>1. \A i \in 1..n : xs[i] = i /\ T(xs[i]) = prod[i] /\ prod[i] = w[i] * a[i] /\ prod[i] \in Nat
  <2> SUFFICES ASSUME NEW i \in 1..n
               PROVE  xs[i] = i /\ T(xs[i]) = prod[i] /\ prod[i] = w[i] * a[i] /\ prod[i] \in Nat
    OBVIOUS
  <2>1. w[i] \in Nat /\ a[i] \in Nat
    OBVIOUS
  <2>2. w[i] * a[i] \in Nat
    BY <2>1
  <2>3. xs[i] = i
    OBVIOUS
  <2>4. prod[i] = w[i] * a[i]
    OBVIOUS
  <2>5. T(i) = w[i] * a[i]
    OBVIOUS
  <2> QED BY <2>2, <2>3, <2>4, <2>5
<1> HIDE DEF prod, T
<1>2. /\ step \in [(1..n) \X Nat -> Nat] /\ zero \in Nat
      /\ \A i \in 1..n, b \in Nat : step[<<i, b>>] = (b + prod[i]) % UintMod
  <2>1. \A q \in (1..n) \X Nat : (q[2] + prod[q[1]]) % UintMod \in Nat
    <3> SUFFICES ASSUME NEW q \in (1..n) \X Nat PROVE (q[2] + prod[q[1]]) % UintMod \in Nat
      OBVIOUS
    <3>1. q[1] \in 1..n /\ q[2] \in Nat /\ prod[q[1]] \in Nat
      BY <1>1
    <3> QED BY <3>1, UintIs
  <2> QED BY <2>1
<1>3. DOMAIN xs = 1..n
  OBVIOUS
<1>4. \A s \in SUBSET (1..n) : s # {} => Max(s) \in 1..n /\ s \ {Max(s)} \in SUBSET (1..n)
  BY MaxChooses DEF Chooser, MaxOf
<1>5. ModCount(ss, w) = f[1..n]
  BY <1>3 DEF ModCount, FoldLeft, MapThenFoldSet, prod, T
<1> HIDE DEF step, xs, zero
<1>6. \E it : it = Body(it)
  <2> DEFINE V == Nat
  <2>0. step \in [(1..n) \X V -> V] /\ zero \in V
    BY <1>2
  <2> HIDE DEF V
  <2>1. PICK it \in [SUBSET (1..n) -> V] : LeftSteps(it, n, zero, step)
    BY <2>0, FoldLeftExists
  <2>2. \A s \in SUBSET (1..n) : it[s] = Body(it)[s]
    <3> SUFFICES ASSUME NEW s \in SUBSET (1..n) PROVE it[s] = Body(it)[s]
      OBVIOUS
    <3>1. CASE s = {}
      BY <1>3, <2>1, <3>1 DEF LeftSteps, LeftStep
    <3>2. CASE s # {}
      <4>1. Max(s) \in 1..n /\ it[s \ {Max(s)}] \in Nat
        BY <1>4, <2>1, <3>2 DEF V
      <4>2. it[s] = step[<<Max(s), it[s \ {Max(s)}]>>]
        BY <2>1, <3>2 DEF LeftSteps, LeftStep
      <4>3. it[s] = (it[s \ {Max(s)}] + T(xs[Max(s)])) % UintMod
        <5>1. step[<<Max(s), it[s \ {Max(s)}]>>] = (it[s \ {Max(s)}] + prod[Max(s)]) % UintMod
          BY <1>2, <4>1
        <5>2. T(xs[Max(s)]) = prod[Max(s)]
          BY <1>1, <4>1
        <5> QED BY <4>2, <5>1, <5>2
      <4> QED BY <1>3, <3>2, <4>3
    <3> QED BY <3>1, <3>2
  <2>3. it = Body(it)
    BY <1>3, <2>1, <2>2
  <2> QED BY <2>3
<1>7. f = Body(f)
  <2> HIDE DEF Body
  <2> QED BY <1>6
<1> HIDE DEF f
<1>8. LeftFold(f, n, Nat, zero, step)
  <2>1. \A s \in SUBSET (1..n) : f[s] = IF s = {} THEN zero ELSE (f[s \ {Max(s)}] + T(xs[Max(s)])) % UintMod
    BY <1>3, <1>7
  <2>2. \A s \in SUBSET (1..n) : s # {} /\ f[s \ {Max(s)}] \in Nat =>
          step[<<Max(s), f[s \ {Max(s)}]>>] = (f[s \ {Max(s)}] + T(xs[Max(s)])) % UintMod
    <3> SUFFICES ASSUME NEW s \in SUBSET (1..n), s # {}, f[s \ {Max(s)}] \in Nat
                 PROVE  step[<<Max(s), f[s \ {Max(s)}]>>] = (f[s \ {Max(s)}] + T(xs[Max(s)])) % UintMod
      OBVIOUS
    <3>1. Max(s) \in 1..n
      BY <1>4
    <3>2. step[<<Max(s), f[s \ {Max(s)}]>>] = (f[s \ {Max(s)}] + prod[Max(s)]) % UintMod
      BY <1>2, <3>1
    <3>3. T(xs[Max(s)]) = prod[Max(s)]
      BY <1>1, <3>1
    <3> QED BY <3>2, <3>3
  <2> QED BY <2>1, <2>2 DEF LeftFold, LeftStep
<1>9. FoldsTo(f[1..n], n, Nat, zero, step)
  <2> DEFINE V == Nat
  <2>1. step \in [(1..n) \X V -> V] /\ zero \in V /\ LeftFold(f, n, V, zero, step)
    BY <1>2, <1>8
  <2> HIDE DEF V
  <2>2. FoldsTo(f[1..n], n, V, zero, step)
    BY <2>1, FoldLeftLaw
  <2> QED BY <2>2 DEF V
<1>10. PICK g \in [0..n -> Nat] : Follows(g, n, zero, step) /\ f[1..n] = g[n]
  BY <1>9 DEF FoldsTo
<1>11. \A i \in 1..n : g[i] = (g[i - 1] + w[i] * a[i]) % UintMod
  <2>1. \A i \in 1..n : g[i - 1] \in Nat
    BY <1>10
  <2> SUFFICES ASSUME NEW i \in 1..n PROVE g[i] = (g[i - 1] + w[i] * a[i]) % UintMod
    OBVIOUS
  <2>2. g[i] = step[<<i, g[i - 1]>>]
    BY <1>10 DEF Follows
  <2>3. step[<<i, g[i - 1]>>] = (g[i - 1] + prod[i]) % UintMod
    BY <1>2, <2>1
  <2>4. prod[i] = w[i] * a[i]
    BY <1>1
  <2> QED BY <2>2, <2>3, <2>4
<1>12. g[0] = 0
  BY <1>10 DEF Follows, zero
<1> QED BY <1>5, <1>10, <1>11, <1>12 DEF IsModTotal, ModRun

LEMMA ModCellIs ==
  ASSUME NEW n \in Nat, NEW w \in [1..n -> Nat], NEW a \in [1..n -> Nat],
         NEW ss, DOMAIN ss = 1..n, NEW row, NEW col,
         \A i \in 1..n : a[i] = ss[i].matrix[row][col]
  PROVE  IsModTotal(ModCell(ss, w, row, col), n, w, a)
<1> DEFINE xs == [i \in DOMAIN ss |-> i]
           zero == 0
           prod == [i \in 1..n |-> w[i] * a[i]]
           T(x) == w[x] * ss[x].matrix[row][col]
           Body(it) == [s \in SUBSET DOMAIN xs |->
                          IF s = {} THEN zero ELSE (it[s \ {Max(s)}] + T(xs[Max(s)])) % UintMod]
           step == [q \in (1..n) \X Nat |-> (q[2] + prod[q[1]]) % UintMod]
           f == CHOOSE it : it = Body(it)
<1>1. \A i \in 1..n : xs[i] = i /\ T(xs[i]) = prod[i] /\ prod[i] = w[i] * a[i] /\ prod[i] \in Nat
  <2> SUFFICES ASSUME NEW i \in 1..n
               PROVE  xs[i] = i /\ T(xs[i]) = prod[i] /\ prod[i] = w[i] * a[i] /\ prod[i] \in Nat
    OBVIOUS
  <2>1. w[i] \in Nat /\ a[i] \in Nat
    OBVIOUS
  <2>2. w[i] * a[i] \in Nat
    BY <2>1
  <2>3. xs[i] = i
    OBVIOUS
  <2>4. prod[i] = w[i] * a[i]
    OBVIOUS
  <2>5. T(i) = w[i] * a[i]
    OBVIOUS
  <2> QED BY <2>2, <2>3, <2>4, <2>5
<1> HIDE DEF prod, T
<1>2. /\ step \in [(1..n) \X Nat -> Nat] /\ zero \in Nat
      /\ \A i \in 1..n, b \in Nat : step[<<i, b>>] = (b + prod[i]) % UintMod
  <2>1. \A q \in (1..n) \X Nat : (q[2] + prod[q[1]]) % UintMod \in Nat
    <3> SUFFICES ASSUME NEW q \in (1..n) \X Nat PROVE (q[2] + prod[q[1]]) % UintMod \in Nat
      OBVIOUS
    <3>1. q[1] \in 1..n /\ q[2] \in Nat /\ prod[q[1]] \in Nat
      BY <1>1
    <3> QED BY <3>1, UintIs
  <2> QED BY <2>1
<1>3. DOMAIN xs = 1..n
  OBVIOUS
<1>4. \A s \in SUBSET (1..n) : s # {} => Max(s) \in 1..n /\ s \ {Max(s)} \in SUBSET (1..n)
  BY MaxChooses DEF Chooser, MaxOf
<1>5. ModCell(ss, w, row, col) = f[1..n]
  BY <1>3 DEF ModCell, FoldLeft, MapThenFoldSet, prod, T
<1> HIDE DEF step, xs, zero
<1>6. \E it : it = Body(it)
  <2> DEFINE V == Nat
  <2>0. step \in [(1..n) \X V -> V] /\ zero \in V
    BY <1>2
  <2> HIDE DEF V
  <2>1. PICK it \in [SUBSET (1..n) -> V] : LeftSteps(it, n, zero, step)
    BY <2>0, FoldLeftExists
  <2>2. \A s \in SUBSET (1..n) : it[s] = Body(it)[s]
    <3> SUFFICES ASSUME NEW s \in SUBSET (1..n) PROVE it[s] = Body(it)[s]
      OBVIOUS
    <3>1. CASE s = {}
      BY <1>3, <2>1, <3>1 DEF LeftSteps, LeftStep
    <3>2. CASE s # {}
      <4>1. Max(s) \in 1..n /\ it[s \ {Max(s)}] \in Nat
        BY <1>4, <2>1, <3>2 DEF V
      <4>2. it[s] = step[<<Max(s), it[s \ {Max(s)}]>>]
        BY <2>1, <3>2 DEF LeftSteps, LeftStep
      <4>3. it[s] = (it[s \ {Max(s)}] + T(xs[Max(s)])) % UintMod
        <5>1. step[<<Max(s), it[s \ {Max(s)}]>>] = (it[s \ {Max(s)}] + prod[Max(s)]) % UintMod
          BY <1>2, <4>1
        <5>2. T(xs[Max(s)]) = prod[Max(s)]
          BY <1>1, <4>1
        <5> QED BY <4>2, <5>1, <5>2
      <4> QED BY <1>3, <3>2, <4>3
    <3> QED BY <3>1, <3>2
  <2>3. it = Body(it)
    BY <1>3, <2>1, <2>2
  <2> QED BY <2>3
<1>7. f = Body(f)
  <2> HIDE DEF Body
  <2> QED BY <1>6
<1> HIDE DEF f
<1>8. LeftFold(f, n, Nat, zero, step)
  <2>1. \A s \in SUBSET (1..n) : f[s] = IF s = {} THEN zero ELSE (f[s \ {Max(s)}] + T(xs[Max(s)])) % UintMod
    BY <1>3, <1>7
  <2>2. \A s \in SUBSET (1..n) : s # {} /\ f[s \ {Max(s)}] \in Nat =>
          step[<<Max(s), f[s \ {Max(s)}]>>] = (f[s \ {Max(s)}] + T(xs[Max(s)])) % UintMod
    <3> SUFFICES ASSUME NEW s \in SUBSET (1..n), s # {}, f[s \ {Max(s)}] \in Nat
                 PROVE  step[<<Max(s), f[s \ {Max(s)}]>>] = (f[s \ {Max(s)}] + T(xs[Max(s)])) % UintMod
      OBVIOUS
    <3>1. Max(s) \in 1..n
      BY <1>4
    <3>2. step[<<Max(s), f[s \ {Max(s)}]>>] = (f[s \ {Max(s)}] + prod[Max(s)]) % UintMod
      BY <1>2, <3>1
    <3>3. T(xs[Max(s)]) = prod[Max(s)]
      BY <1>1, <3>1
    <3> QED BY <3>2, <3>3
  <2> QED BY <2>1, <2>2 DEF LeftFold, LeftStep
<1>9. FoldsTo(f[1..n], n, Nat, zero, step)
  <2> DEFINE V == Nat
  <2>1. step \in [(1..n) \X V -> V] /\ zero \in V /\ LeftFold(f, n, V, zero, step)
    BY <1>2, <1>8
  <2> HIDE DEF V
  <2>2. FoldsTo(f[1..n], n, V, zero, step)
    BY <2>1, FoldLeftLaw
  <2> QED BY <2>2 DEF V
<1>10. PICK g \in [0..n -> Nat] : Follows(g, n, zero, step) /\ f[1..n] = g[n]
  BY <1>9 DEF FoldsTo
<1>11. \A i \in 1..n : g[i] = (g[i - 1] + w[i] * a[i]) % UintMod
  <2>1. \A i \in 1..n : g[i - 1] \in Nat
    BY <1>10
  <2> SUFFICES ASSUME NEW i \in 1..n PROVE g[i] = (g[i - 1] + w[i] * a[i]) % UintMod
    OBVIOUS
  <2>2. g[i] = step[<<i, g[i - 1]>>]
    BY <1>10 DEF Follows
  <2>3. step[<<i, g[i - 1]>>] = (g[i - 1] + prod[i]) % UintMod
    BY <1>2, <2>1
  <2>4. prod[i] = w[i] * a[i]
    BY <1>1
  <2> QED BY <2>2, <2>3, <2>4
<1>12. g[0] = 0
  BY <1>10 DEF Follows, zero
<1> QED BY <1>5, <1>10, <1>11, <1>12 DEF IsModTotal, ModRun

\* The total of rests that wraps around is the rest of the total.
LEMMA TotalWraps ==
  ASSUME NEW n \in Nat, NEW w \in [1..n -> Nat], NEW a \in [1..n -> Nat], NEW b \in [1..n -> Nat],
         Wraps(b, a, 1..n), NEW r, NEW q, IsTotal(r, n, w, a), IsModTotal(q, n, w, b)
  PROVE  q = r % UintMod
<1>1. PICK h \in [0..n -> Nat] : TotalRun(h, n, w, a) /\ r = h[n]
  BY DEF IsTotal
<1>2. PICK g \in [0..n -> Nat] : ModRun(g, n, w, b) /\ q = g[n]
  BY DEF IsModTotal
<1> DEFINE S == {m \in Nat : m <= n => g[m] = h[m] % UintMod}
<1>3. 0 \in S
  <2>1. 0 % UintMod = 0
    BY UintIs
  <2> QED BY <1>1, <1>2, <2>1 DEF TotalRun, ModRun
<1>4. ASSUME NEW m \in Nat, m \in S PROVE m + 1 \in S
  <2> SUFFICES ASSUME m + 1 <= n PROVE g[m + 1] = h[m + 1] % UintMod
    OBVIOUS
  <2> DEFINE i == m + 1
  <2>1. i \in 1..n /\ i - 1 = m /\ g[m] = h[m] % UintMod /\ h[m] \in Nat
    BY <1>4
  <2>2. w[i] \in Nat /\ a[i] \in Nat /\ b[i] = a[i] % UintMod
    BY <2>1 DEF Wraps
  <2>3. g[i] = (g[m] + w[i] * b[i]) % UintMod /\ h[i] = h[m] + w[i] * a[i]
    BY <1>1, <1>2, <2>1 DEF TotalRun, ModRun
  <2> HIDE DEF i
  <2> DEFINE x == h[m]
             v == w[i]
             y == a[i]
  <2>4. x \in Nat /\ v \in Nat /\ y \in Nat
    BY <2>1, <2>2
  <2> HIDE DEF x, v, y
  <2>5. ((x % UintMod) + v * (y % UintMod)) % UintMod = (x + v * y) % UintMod
    BY <2>4, RestOfProduct
  <2>6. g[i] = ((x % UintMod) + v * (y % UintMod)) % UintMod /\ h[i] = x + v * y
    BY <2>1, <2>2, <2>3 DEF x, v, y
  <2> QED BY <2>5, <2>6 DEF i
<1> HIDE DEF S
<1>5. n \in S
  BY <1>3, <1>4, NatInd
<1> QED BY <1>1, <1>2, <1>5 DEF S

-----------------------------------------------------------------------------
(* CMS.MERGE: the sketch *)

\* The merge as it would be without a largest number.
ExactMerge(c, ss, w) ==
  [c EXCEPT !.count = CountTotal(ss, w),
            !.matrix = [row \in DOMAIN c.matrix |->
                          [col \in DOMAIN c.matrix[row] |-> CellTotal(ss, w, row, col)]]]

\* What it makes of the parts of the destination.
Merged(u, c, ss, w) ==
  /\ u = [depth |-> u.depth, width |-> u.width, count |-> u.count, matrix |-> u.matrix]
  /\ u.depth = c.depth /\ u.width = c.width /\ u.count = CountTotal(ss, w)
  /\ u.matrix = [row \in DOMAIN c.matrix |-> [col \in DOMAIN c.matrix[row] |-> CellTotal(ss, w, row, col)]]

LEMMA MergeFields ==
  ASSUME NEW c, c = [depth |-> c.depth, width |-> c.width, count |-> c.count, matrix |-> c.matrix],
         NEW ss, NEW w
  PROVE  Merged(ExactMerge(c, ss, w), c, ss, w)
<1> DEFINE u == ExactMerge(c, ss, w)
           count == CountTotal(ss, w)
           matrix == [row \in DOMAIN c.matrix |-> [col \in DOMAIN c.matrix[row] |-> CellTotal(ss, w, row, col)]]
<1>1. u = [c EXCEPT !.count = count, !.matrix = matrix]
  BY DEF ExactMerge
<1> HIDE DEF count, matrix, u
<1>2. u.depth = c.depth /\ u.width = c.width /\ u.count = count /\ u.matrix = matrix
  BY <1>1
<1>3. u = [depth |-> u.depth, width |-> u.width, count |-> u.count, matrix |-> u.matrix]
  BY <1>1
<1> QED BY <1>2, <1>3 DEF count, matrix, u, Merged

\* The sources of a merge: sketches of one size, with their true counts.
Sources(ss, srcs, G, n, c) ==
  /\ DOMAIN ss = 1..n /\ DOMAIN srcs = 1..n
  /\ \A i \in 1..n : IsExact(ss[i], G[srcs[i]]) /\ ss[i].depth = c.depth /\ ss[i].width = c.width

\* Every part of a source that a merge adds up.
LEMMA SourceParts ==
  ASSUME NEW n \in Nat, NEW c, NEW ss, NEW srcs, NEW G, Sources(ss, srcs, G, n, c), NEW i \in 1..n
  PROVE  /\ ss[i].count \in Nat /\ ss[i].matrix \in [0..(c.depth - 1) -> [0..(c.width - 1) -> Nat]]
         /\ G[srcs[i]] \in [Item -> Nat] /\ SumFunction(G[srcs[i]]) = ss[i].count
         /\ \A row \in 0..(c.depth - 1) : SumFunction(ss[i].matrix[row]) = ss[i].count
         /\ \A row \in 0..(c.depth - 1), x \in Item :
              ss[i].matrix[row][matrixPositions(c, x)[row]] >= G[srcs[i]][x]
<1>1. IsExact(ss[i], G[srcs[i]]) /\ ss[i].depth = c.depth /\ ss[i].width = c.width
  BY DEF Sources
<1> DEFINE s == ss[i]
           g == G[srcs[i]]
<1> HIDE DEF s, g
<1>2. /\ s.depth = c.depth /\ s.width = c.width /\ s.count \in Nat
      /\ s.matrix \in [0..(s.depth - 1) -> [0..(s.width - 1) -> Nat]]
      /\ g \in [Item -> Nat]
      /\ (\A row \in 0..(s.depth - 1), item \in Item : s.matrix[row][matrixPositions(s, item)[row]] >= g[item])
      /\ (\A row \in 0..(s.depth - 1) : SumFunction(s.matrix[row]) = s.count)
      /\ SumFunction(g) = s.count
  <2>1. IsExact(s, g) /\ s.depth = c.depth /\ s.width = c.width
    BY <1>1 DEF s, g
  <2> QED BY <2>1 DEF IsExact
<1>3. \A x \in Item : matrixPositions(s, x) = matrixPositions(c, x)
  BY <1>2 DEF matrixPositions
<1>4. \A row \in 0..(c.depth - 1), x \in Item : s.matrix[row][matrixPositions(c, x)[row]] >= g[x]
  BY <1>2, <1>3
<1>5. /\ s.matrix \in [0..(c.depth - 1) -> [0..(c.width - 1) -> Nat]]
      /\ \A row \in 0..(c.depth - 1) : SumFunction(s.matrix[row]) = s.count
  BY <1>2
<1> QED BY <1>2, <1>4, <1>5 DEF s, g

RowTotal(ss, w, row, cols) == [col \in cols |-> CellTotal(ss, w, row, col)]

\* A row of a merge adds up to its count.
LEMMA MergedRow ==
  ASSUME NEW n \in Nat, NEW w \in [1..n -> Nat], NEW c, NEW ss, NEW srcs, NEW G,
         c.width \in Nat, Sources(ss, srcs, G, n, c), NEW row \in 0..(c.depth - 1)
  PROVE  /\ RowTotal(ss, w, row, 0..(c.width - 1)) \in [0..(c.width - 1) -> Nat]
         /\ SumFunction(RowTotal(ss, w, row, 0..(c.width - 1))) = CountTotal(ss, w)
<1> DEFINE cols == 0..(c.width - 1)
           R == [col \in cols |-> CellTotal(ss, w, row, col)]
           F == [i \in 1..n |-> ss[i].matrix[row]]
           S == [i \in 1..n |-> ss[i].count]
           A == [col \in cols |-> [i \in 1..n |-> ss[i].matrix[row][col]]]
           t == CountTotal(ss, w)
<1>1. /\ DOMAIN ss = 1..n
      /\ \A i \in 1..n : ss[i].count \in Nat /\ ss[i].matrix[row] \in [cols -> Nat]
                         /\ SumFunction(ss[i].matrix[row]) = ss[i].count
  <2>1. DOMAIN ss = 1..n
    BY DEF Sources
  <2>2. ASSUME NEW i \in 1..n
        PROVE  ss[i].count \in Nat /\ ss[i].matrix[row] \in [cols -> Nat]
               /\ SumFunction(ss[i].matrix[row]) = ss[i].count
    <3>1. /\ ss[i].count \in Nat /\ ss[i].matrix \in [0..(c.depth - 1) -> [cols -> Nat]]
          /\ \A x \in 0..(c.depth - 1) : SumFunction(ss[i].matrix[x]) = ss[i].count
      BY SourceParts
    <3> QED BY <3>1
  <2> QED BY <2>1, <2>2
<1>2. IsFiniteSet(cols)
  BY ColumnsFinite
<1> HIDE DEF cols
<1>3. /\ F \in [1..n -> [cols -> Nat]] /\ S \in [1..n -> Nat] /\ A \in [cols -> [1..n -> Nat]]
      /\ HaveSums(S, F, n) /\ Transposes(A, F, cols, n)
  BY <1>1 DEF HaveSums, Transposes
<1>4. IsTotal(t, n, w, S)
  <2>1. \A i \in 1..n : S[i] = ss[i].count
    OBVIOUS
  <2> HIDE DEF S
  <2> QED BY <1>1, <1>3, <2>1, CountTotalIs
<1>5. ASSUME NEW col \in cols PROVE IsTotal(R[col], n, w, A[col])
  <2> DEFINE a == A[col]
  <2>1. a \in [1..n -> Nat] /\ \A i \in 1..n : a[i] = ss[i].matrix[row][col]
    BY <1>3
  <2> HIDE DEF a
  <2>2. IsTotal(CellTotal(ss, w, row, col), n, w, a)
    BY <1>1, <2>1, CellTotalIs
  <2> QED BY <2>2 DEF a
<1>6. R \in [cols -> Nat]
  <2>1. \A col \in cols : R[col] \in Nat
    <3> HIDE DEF R, A
    <3> QED BY <1>5, TotalNat
  <2> QED BY <2>1
<1> HIDE DEF R, F, S, A, t
<1>8. HasTotals(R, n, w, A, cols)
  BY <1>5 DEF HasTotals
<1>10. Tableau(cols, n, w, F, S, A, R, t)
  BY <1>2, <1>3, <1>4, <1>6, <1>8 DEF Tableau
<1>7. SumFunction(R) = t
  BY <1>10, SumOfTotals
<1> QED BY <1>6, <1>7 DEF R, t, cols, RowTotal

\* A cell of an item has at least its true count.
LEMMA MergedCell ==
  ASSUME NEW n \in Nat, NEW w \in [1..n -> Nat], NEW c, NEW ss, NEW srcs, NEW G,
         c.depth \in Nat, c.width \in Nat, c.width # 0,
         Sources(ss, srcs, G, n, c), NEW row \in 0..(c.depth - 1), NEW item \in Item
  PROVE  CellTotal(ss, w, row, matrixPositions(c, item)[row]) >= TrueTotal(G, srcs, w, item)
<1> DEFINE col == matrixPositions(c, item)[row]
           a == [i \in 1..n |-> ss[i].matrix[row][col]]
           b == [i \in 1..n |-> G[srcs[i]][item]]
<1>1. col \in 0..(c.width - 1)
  BY PositionIn
<1>2. DOMAIN ss = 1..n /\ DOMAIN srcs = 1..n
  BY DEF Sources
<1>3. ASSUME NEW i \in 1..n
      PROVE  ss[i].matrix[row][col] \in Nat /\ G[srcs[i]][item] \in Nat
             /\ ss[i].matrix[row][col] >= G[srcs[i]][item]
  <2>1. /\ ss[i].matrix \in [0..(c.depth - 1) -> [0..(c.width - 1) -> Nat]]
        /\ G[srcs[i]] \in [Item -> Nat]
        /\ ss[i].matrix[row][col] >= G[srcs[i]][item]
    BY SourceParts
  <2> HIDE DEF col
  <2> QED BY <1>1, <2>1
<1> HIDE DEF col
<1>4. /\ a \in [1..n -> Nat] /\ b \in [1..n -> Nat]
      /\ \A i \in 1..n : a[i] = ss[i].matrix[row][col] /\ b[i] = G[srcs[i]][item] /\ a[i] >= b[i]
  BY <1>3
<1> HIDE DEF a, b
<1>5. IsTotal(CellTotal(ss, w, row, col), n, w, a)
  BY <1>2, <1>4, CellTotalIs
<1>6. IsTotal(TrueTotal(G, srcs, w, item), n, w, b)
  BY <1>2, <1>4, TrueTotalIs
<1>7. CellTotal(ss, w, row, col) >= TrueTotal(G, srcs, w, item)
  BY <1>4, <1>5, <1>6, TotalMonotone
<1> QED BY <1>7 DEF col

\* The true counts of a merge add up to its count.
LEMMA MergedTrue ==
  ASSUME NEW n \in Nat, NEW w \in [1..n -> Nat], NEW c, NEW ss, NEW srcs, NEW G,
         Sources(ss, srcs, G, n, c)
  PROVE  /\ [item \in Item |-> TrueTotal(G, srcs, w, item)] \in [Item -> Nat]
         /\ SumFunction([item \in Item |-> TrueTotal(G, srcs, w, item)]) = CountTotal(ss, w)
         /\ CountTotal(ss, w) \in Nat
<1> DEFINE R == [item \in Item |-> TrueTotal(G, srcs, w, item)]
           F == [i \in 1..n |-> G[srcs[i]]]
           S == [i \in 1..n |-> ss[i].count]
           A == [item \in Item |-> [i \in 1..n |-> G[srcs[i]][item]]]
           t == CountTotal(ss, w)
<1>1. /\ DOMAIN ss = 1..n /\ DOMAIN srcs = 1..n
      /\ \A i \in 1..n : ss[i].count \in Nat /\ G[srcs[i]] \in [Item -> Nat]
                         /\ SumFunction(G[srcs[i]]) = ss[i].count
  <2>1. DOMAIN ss = 1..n /\ DOMAIN srcs = 1..n
    BY DEF Sources
  <2>2. ASSUME NEW i \in 1..n
        PROVE  ss[i].count \in Nat /\ G[srcs[i]] \in [Item -> Nat] /\ SumFunction(G[srcs[i]]) = ss[i].count
    BY SourceParts
  <2> QED BY <2>1, <2>2
<1>3. /\ F \in [1..n -> [Item -> Nat]] /\ S \in [1..n -> Nat] /\ A \in [Item -> [1..n -> Nat]]
      /\ HaveSums(S, F, n) /\ Transposes(A, F, Item, n)
  BY <1>1 DEF HaveSums, Transposes
<1>4. IsTotal(t, n, w, S)
  <2>1. \A i \in 1..n : S[i] = ss[i].count
    OBVIOUS
  <2> HIDE DEF S
  <2> QED BY <1>1, <1>3, <2>1, CountTotalIs
<1>5. ASSUME NEW item \in Item PROVE IsTotal(R[item], n, w, A[item])
  <2> DEFINE a == A[item]
  <2>1. a \in [1..n -> Nat] /\ \A i \in 1..n : a[i] = G[srcs[i]][item]
    BY <1>3
  <2> HIDE DEF a
  <2>2. IsTotal(TrueTotal(G, srcs, w, item), n, w, a)
    BY <1>1, <2>1, TrueTotalIs
  <2> QED BY <2>2 DEF a
<1>6. R \in [Item -> Nat]
  <2>1. \A item \in Item : R[item] \in Nat
    <3> HIDE DEF R, A
    <3> QED BY <1>5, TotalNat
  <2> QED BY <2>1
<1> HIDE DEF R, F, S, A, t
<1>9. HasTotals(R, n, w, A, Item) /\ IsFiniteSet(Item)
  BY <1>5, SketchAssumption DEF HasTotals
<1>10. Tableau(Item, n, w, F, S, A, R, t)
  BY <1>3, <1>4, <1>6, <1>9 DEF Tableau
<1>7. SumFunction(R) = t
  BY <1>10, SumOfTotals
<1>8. t \in Nat
  BY <1>4, TotalNat
<1> QED BY <1>6, <1>7, <1>8 DEF R, t

\* A merge keeps sketch and true counts together.
LEMMA MergeKeeps ==
  ASSUME NEW n \in Nat, NEW w \in [1..n -> Nat], NEW c, NEW counts, IsExact(c, counts),
         NEW ss, NEW srcs, NEW G, Sources(ss, srcs, G, n, c)
  PROVE  IsExact(ExactMerge(c, ss, w), [item \in Item |-> TrueTotal(G, srcs, w, item)])
<1> DEFINE u == ExactMerge(c, ss, w)
           after == [item \in Item |-> TrueTotal(G, srcs, w, item)]
           rows == 0..(c.depth - 1)
           cols == 0..(c.width - 1)
<1>1. /\ c = [depth |-> c.depth, width |-> c.width, count |-> c.count, matrix |-> c.matrix]
      /\ c.depth \in Nat \ {0} /\ c.width \in Nat \ {0}
      /\ c.matrix \in [rows -> [cols -> Nat]]
  BY DEF IsExact
<1>2. Merged(u, c, ss, w)
  BY <1>1, MergeFields
<1> HIDE DEF u
<1>3. /\ u = [depth |-> u.depth, width |-> u.width, count |-> u.count, matrix |-> u.matrix]
      /\ u.depth = c.depth /\ u.width = c.width /\ u.count = CountTotal(ss, w)
      /\ u.matrix = [row \in rows |-> [col \in cols |-> CellTotal(ss, w, row, col)]]
  BY <1>1, <1>2 DEF Merged
<1>4. after \in [Item -> Nat] /\ SumFunction(after) = u.count /\ u.count \in Nat
  BY <1>3, MergedTrue
<1>5. \A row \in rows : u.matrix[row] \in [cols -> Nat] /\ SumFunction(u.matrix[row]) = u.count
  <2> SUFFICES ASSUME NEW row \in rows
               PROVE  u.matrix[row] \in [cols -> Nat] /\ SumFunction(u.matrix[row]) = u.count
    OBVIOUS
  <2>0. c.width \in Nat /\ row \in 0..(c.depth - 1)
    BY <1>1
  <2>1. /\ RowTotal(ss, w, row, cols) \in [cols -> Nat]
        /\ SumFunction(RowTotal(ss, w, row, cols)) = CountTotal(ss, w)
    BY ONLY <2>0, n \in Nat, w \in [1..n -> Nat], Sources(ss, srcs, G, n, c), MergedRow
  <2>2. u.matrix[row] = RowTotal(ss, w, row, cols)
    BY <1>3 DEF RowTotal
  <2> QED BY <1>3, <2>1, <2>2
<1>6. \A row \in rows, x \in Item : u.matrix[row][matrixPositions(u, x)[row]] >= after[x]
  <2> SUFFICES ASSUME NEW row \in rows, NEW x \in Item
               PROVE  u.matrix[row][matrixPositions(u, x)[row]] >= after[x]
    OBVIOUS
  <2> DEFINE col == matrixPositions(c, x)[row]
  <2>1. CellTotal(ss, w, row, col) >= TrueTotal(G, srcs, w, x) /\ col \in cols
    BY <1>1, MergedCell, PositionIn
  <2>2. matrixPositions(u, x)[row] = col
    BY <1>3 DEF matrixPositions
  <2> HIDE DEF col
  <2>3. u.matrix[row][col] = CellTotal(ss, w, row, col)
    BY <1>3, <2>1
  <2>4. after[x] = TrueTotal(G, srcs, w, x)
    OBVIOUS
  <2> QED BY <2>1, <2>2, <2>3, <2>4
<1>7. u.matrix \in [rows -> [cols -> Nat]]
  BY <1>3, <1>5
<1> HIDE DEF after
<1>8. IsExact(u, after)
  <2>1. u.depth \in Nat \ {0} /\ u.width \in Nat \ {0}
    BY <1>1, <1>3
  <2> QED BY <1>3, <1>4, <1>5, <1>6, <1>7, <2>1 DEF IsExact
<1> QED BY <1>8 DEF u, after

\* What a merge makes of the parts of the destination.
WrapMerged(u, c, ss, w) ==
  /\ u = [depth |-> u.depth, width |-> u.width, count |-> u.count, matrix |-> u.matrix]
  /\ u.depth = c.depth /\ u.width = c.width /\ u.count = ModCount(ss, w)
  /\ u.matrix = [row \in DOMAIN c.matrix |-> [col \in DOMAIN c.matrix[row] |-> ModCell(ss, w, row, col)]]

LEMMA WrapMergeFields ==
  ASSUME NEW c, c = [depth |-> c.depth, width |-> c.width, count |-> c.count, matrix |-> c.matrix],
         NEW ss, NEW w
  PROVE  WrapMerged(mergeMatrices(c, ss, w), c, ss, w)
<1> DEFINE u == mergeMatrices(c, ss, w)
           count == ModCount(ss, w)
           matrix == [row \in DOMAIN c.matrix |-> [col \in DOMAIN c.matrix[row] |-> ModCell(ss, w, row, col)]]
<1>1. u = [c EXCEPT !.count = count, !.matrix = matrix]
  BY DEF mergeMatrices, ModCount, ModCell
<1> HIDE DEF count, matrix, u
<1>2. u.depth = c.depth /\ u.width = c.width /\ u.count = count /\ u.matrix = matrix
  BY <1>1
<1>3. u = [depth |-> u.depth, width |-> u.width, count |-> u.count, matrix |-> u.matrix]
  BY <1>1
<1> QED BY <1>2, <1>3 DEF count, matrix, u, WrapMerged

\* The sketches of a merge, and what they are the rests of.
Rests(ss, us, n) == DOMAIN ss = 1..n /\ DOMAIN us = 1..n /\ \A i \in 1..n : Reduced(ss[i], us[i])

LEMMA CountWraps ==
  ASSUME NEW n \in Nat, NEW w \in [1..n -> Nat], NEW c, NEW us, NEW srcs, NEW G, NEW ss,
         Sources(us, srcs, G, n, c), Rests(ss, us, n)
  PROVE  ModCount(ss, w) = CountTotal(us, w) % UintMod
<1> DEFINE a == [i \in 1..n |-> us[i].count]
           b == [i \in 1..n |-> ss[i].count]
<1>1. ASSUME NEW i \in 1..n
      PROVE  us[i].count \in Nat /\ ss[i].count = us[i].count % UintMod /\ us[i].count % UintMod \in Nat
  <2>1. us[i].count \in Nat
    BY SourceParts
  <2>2. ss[i].count = us[i].count % UintMod
    BY DEF Rests, Reduced
  <2> QED BY <2>1, <2>2, UintIs
<1>2. /\ a \in [1..n -> Nat] /\ b \in [1..n -> Nat]
      /\ \A i \in 1..n : a[i] = us[i].count /\ b[i] = ss[i].count /\ b[i] = a[i] % UintMod
  BY <1>1
<1> HIDE DEF a, b
<1>3. Wraps(b, a, 1..n)
  BY <1>2 DEF Wraps
<1>4. DOMAIN ss = 1..n /\ DOMAIN us = 1..n
  BY DEF Rests
<1>5. IsTotal(CountTotal(us, w), n, w, a)
  BY <1>2, <1>4, CountTotalIs
<1>6. IsModTotal(ModCount(ss, w), n, w, b)
  BY <1>2, <1>4, ModCountIs
<1> QED BY <1>2, <1>3, <1>5, <1>6, TotalWraps

LEMMA CellWraps ==
  ASSUME NEW n \in Nat, NEW w \in [1..n -> Nat], NEW c, NEW us, NEW srcs, NEW G, NEW ss,
         Sources(us, srcs, G, n, c), Rests(ss, us, n),
         NEW row \in 0..(c.depth - 1), NEW col \in 0..(c.width - 1)
  PROVE  ModCell(ss, w, row, col) = CellTotal(us, w, row, col) % UintMod
<1> DEFINE a == [i \in 1..n |-> us[i].matrix[row][col]]
           b == [i \in 1..n |-> ss[i].matrix[row][col]]
<1>1. ASSUME NEW i \in 1..n
      PROVE  /\ us[i].matrix[row][col] \in Nat
             /\ ss[i].matrix[row][col] = us[i].matrix[row][col] % UintMod
             /\ us[i].matrix[row][col] % UintMod \in Nat
  <2>1. us[i].matrix \in [0..(c.depth - 1) -> [0..(c.width - 1) -> Nat]]
    BY SourceParts
  <2>2. us[i].depth = c.depth /\ us[i].width = c.width
    BY DEF Sources
  <2>3. ss[i].matrix = [x \in 0..(us[i].depth - 1) |->
                         [y \in 0..(us[i].width - 1) |-> us[i].matrix[x][y] % UintMod]]
    BY DEF Rests, Reduced
  <2>4. ss[i].matrix[row][col] = us[i].matrix[row][col] % UintMod
    BY <2>2, <2>3
  <2>5. us[i].matrix[row][col] \in Nat
    BY <2>1
  <2> QED BY <2>4, <2>5, UintIs
<1>2. /\ a \in [1..n -> Nat] /\ b \in [1..n -> Nat]
      /\ \A i \in 1..n : /\ a[i] = us[i].matrix[row][col] /\ b[i] = ss[i].matrix[row][col]
                         /\ b[i] = a[i] % UintMod
  BY <1>1
<1> HIDE DEF a, b
<1>3. Wraps(b, a, 1..n)
  BY <1>2 DEF Wraps
<1>4. DOMAIN ss = 1..n /\ DOMAIN us = 1..n
  BY DEF Rests
<1>5. IsTotal(CellTotal(us, w, row, col), n, w, a)
  BY <1>2, <1>4, CellTotalIs
<1>6. IsModTotal(ModCell(ss, w, row, col), n, w, b)
  BY <1>2, <1>4, ModCellIs
<1> QED BY <1>2, <1>3, <1>5, <1>6, TotalWraps

\* The merge of what is left is what is left of the merge.
LEMMA MergeWraps ==
  ASSUME NEW n \in Nat, NEW w \in [1..n -> Nat], NEW u, NEW counts, IsExact(u, counts),
         NEW us, NEW srcs, NEW G, NEW ss, Sources(us, srcs, G, n, u), Rests(ss, us, n)
  PROVE  mergeMatrices(Modular(u), ss, w) = Modular(ExactMerge(u, us, w))
<1> DEFINE c == Modular(u)
           v == mergeMatrices(c, ss, w)
           e == ExactMerge(u, us, w)
           rows == 0..(u.depth - 1)
           cols == 0..(u.width - 1)
<1>1. /\ u = [depth |-> u.depth, width |-> u.width, count |-> u.count, matrix |-> u.matrix]
      /\ u.matrix \in [rows -> [cols -> Nat]]
  BY DEF IsExact
<1>2. Merged(e, u, us, w) /\ Reduced(c, u)
  BY <1>1, MergeFields, ModularFields
<1>3. WrapMerged(v, c, ss, w)
  BY <1>2, WrapMergeFields DEF Reduced
<1> HIDE DEF c, v, e
<1>4. v.count = e.count % UintMod
  BY <1>2, <1>3, CountWraps DEF Merged, WrapMerged
<1>5. \A row \in rows, col \in cols : ModCell(ss, w, row, col) = CellTotal(us, w, row, col) % UintMod
  BY CellWraps
<1>6. v.depth = e.depth /\ v.width = e.width /\ e.depth = u.depth /\ e.width = u.width
  BY <1>2, <1>3 DEF Merged, Reduced, WrapMerged
<1> HIDE DEF rows, cols
<1>7. c.matrix = [row \in rows |-> [col \in cols |-> u.matrix[row][col] % UintMod]]
  BY <1>2 DEF Reduced, rows, cols
<1>8. e.matrix = [row \in rows |-> [col \in cols |-> CellTotal(us, w, row, col)]]
  BY <1>1, <1>2 DEF Merged
<1>9. v.matrix = [row \in rows |-> [col \in cols |-> ModCell(ss, w, row, col)]]
  BY <1>3, <1>7 DEF WrapMerged
<1>10. v.matrix = [row \in rows |-> [col \in cols |-> e.matrix[row][col] % UintMod]]
  BY <1>5, <1>8, <1>9
<1>11. Reduced(v, e)
  BY <1>3, <1>4, <1>6, <1>10 DEF Reduced, WrapMerged, rows, cols
<1> QED BY <1>11, WrappedIs DEF v, e, c

\* The sources of a merge as they are kept.
SketchSources(ss, srcs, G, n, c) ==
  /\ DOMAIN ss = 1..n /\ DOMAIN srcs = 1..n
  /\ \A i \in 1..n : IsSketch(ss[i], G[srcs[i]]) /\ ss[i].depth = c.depth /\ ss[i].width = c.width

LEMMA SketchMerge ==
  ASSUME NEW n \in Nat, NEW w \in [1..n -> Nat], NEW c, NEW counts, IsSketch(c, counts),
         NEW ss, NEW srcs, NEW G, SketchSources(ss, srcs, G, n, c)
  PROVE  IsSketch(mergeMatrices(c, ss, w), [item \in Item |-> TrueTotal(G, srcs, w, item)])
<1>1. PICK u : SketchParts(c, u, counts)
  BY SketchIs
<1> DEFINE us == [i \in 1..n |-> CHOOSE x : SketchParts(ss[i], x, G[srcs[i]])]
<1>2. ASSUME NEW i \in 1..n PROVE SketchParts(ss[i], us[i], G[srcs[i]])
  <2>1. \E x : SketchParts(ss[i], x, G[srcs[i]])
    BY SketchIs DEF SketchSources
  <2>2. us[i] = CHOOSE x : SketchParts(ss[i], x, G[srcs[i]])
    OBVIOUS
  <2> QED BY <2>1, <2>2
<1>3. DOMAIN us = 1..n
  OBVIOUS
<1> HIDE DEF us
<1>4. Sources(us, srcs, G, n, u)
  <2>1. ASSUME NEW i \in 1..n
        PROVE  IsExact(us[i], G[srcs[i]]) /\ us[i].depth = u.depth /\ us[i].width = u.width
    <3>1. IsExact(us[i], G[srcs[i]]) /\ Reduced(ss[i], us[i]) /\ Reduced(c, u)
      BY <1>1, <1>2 DEF SketchParts
    <3>2. ss[i].depth = c.depth /\ ss[i].width = c.width
      BY DEF SketchSources
    <3> QED BY <3>1, <3>2 DEF Reduced
  <2> QED BY <1>3, <2>1 DEF Sources, SketchSources
<1>5. Rests(ss, us, n)
  BY <1>2, <1>3 DEF Rests, SketchSources, SketchParts
<1>6. IsExact(u, counts) /\ c = Modular(u)
  BY <1>1, WrappedIs DEF SketchParts
<1>7. mergeMatrices(c, ss, w) = Modular(ExactMerge(u, us, w))
  BY <1>4, <1>5, <1>6, MergeWraps
<1>8. IsExact(ExactMerge(u, us, w), [item \in Item |-> TrueTotal(G, srcs, w, item)])
  BY <1>4, <1>6, MergeKeeps
<1> QED BY <1>7, <1>8 DEF IsSketch

LEMMA MergeOutcome ==
  ASSUME DataInv, NEW k \in Key, NEW n \in Nat, NEW srcs \in [1..n -> Key],
         NEW w \in Seq(Nat \cup {NaN}), CMSMERGE(k, srcs, w)
  PROVE  Outcome(k)
<1> DEFINE SameDim(j) == Val(j).depth = Val(k).depth /\ Val(j).width = Val(k).width
           valid == /\ Holds(k, "cms")
                    /\ Len(srcs) >= 1 /\ Len(w) = Len(srcs)
                    /\ \A i \in DOMAIN srcs : Holds(srcs[i], "cms") /\ SameDim(srcs[i])
                    /\ \A i \in DOMAIN w : w[i] # NaN
           ss == [i \in DOMAIN srcs |-> Val(srcs[i])]
           u == mergeMatrices(Val(k), ss, w)
           after == [item \in Item |-> TrueTotal(ghost, srcs, w, item)]
<1>1. CASE ~valid
  <2>1. Answer(Err)
    BY <1>1 DEF CMSMERGE
  <2> QED BY <2>1, AnswerOutcome
<1>2. CASE valid
  <2>1. PutCMS(k, u, after)
    BY <1>2 DEF CMSMERGE, TrueTotal
  <2>2. \A j \in Key : Holds(j, "cms") => IsSketch(Val(j), ghost[j])
    <3> SUFFICES ASSUME NEW j \in Key, Holds(j, "cms") PROVE IsSketch(Val(j), ghost[j])
      OBVIOUS
    <3>1. Cell(store[j], ghost[j])
      BY DEF DataInv
    <3> QED BY <3>1 DEF Cell, SketchCell, Holds, Val
  <2>3. DOMAIN srcs = 1..n /\ DOMAIN ss = 1..n /\ Len(srcs) = n
    <3>1. srcs \in Seq(Key)
      BY DEF Seq
    <3> QED BY <3>1, LenProperties
  <2>4. w \in [1..n -> Nat]
    <3>1. Len(w) = n
      BY <1>2, <2>3
    <3>2. w \in [1..n -> Nat \cup {NaN}] /\ DOMAIN w = 1..n
      BY <3>1, LenProperties
    <3>3. \A i \in 1..n : w[i] # NaN
      BY <1>2, <3>2
    <3> QED BY <3>2, <3>3
  <2>5. SketchSources(ss, srcs, ghost, n, Val(k))
    <3>1. ASSUME NEW i \in 1..n
          PROVE  IsSketch(ss[i], ghost[srcs[i]]) /\ ss[i].depth = Val(k).depth /\ ss[i].width = Val(k).width
      <4>1. srcs[i] \in Key /\ Holds(srcs[i], "cms") /\ SameDim(srcs[i])
        BY <1>2, <2>3
      <4>2. ss[i] = Val(srcs[i])
        BY <2>3
      <4> HIDE DEF ss
      <4> QED BY <2>2, <4>1, <4>2
    <3> HIDE DEF ss
    <3> QED BY <2>3, <3>1 DEF SketchSources
  <2>6. IsSketch(Val(k), ghost[k])
    BY <1>2, <2>2
  <2> HIDE DEF ss, valid
  <2>7. IsSketch(u, after)
    BY <2>4, <2>5, <2>6, SketchMerge
  <2> HIDE DEF u, after
  <2> QED BY <2>1, <2>7, PutSketchOutcome
<1> QED BY <1>1, <1>2

LEMMA SketchStep ==
  ASSUME DataInv, NEW k \in Key, SketchNext(k)
  PROVE  Outcome(k)
<1>1. CASE \E dim \in CMSDim : CMSINIT(k, dim)
  BY <1>1, InitOutcome
<1>2. CASE \E i, j \in Item, m, n \in {1, NaN} : CMSINCRBY(k, <<i, j>>, <<m, n>>)
  <2>1. PICK i \in Item, j \in Item, m \in {1, NaN}, n \in {1, NaN} : CMSINCRBY(k, <<i, j>>, <<m, n>>)
    BY <1>2
  <2> DEFINE len == 2
             items == <<i, j>>
             ns == <<m, n>>
  <2>2. len \in Nat /\ items \in [1..len -> Item] /\ ns \in [1..len -> Nat \cup {NaN}]
    OBVIOUS
  <2>3. CMSINCRBY(k, items, ns)
    BY <2>1
  <2> HIDE DEF len, items, ns
  <2> QED BY <2>2, <2>3, IncrByOutcome
<1>3. CASE \E i \in Item : CMSINCRBY(k, <<i>>, <<UintMod - 1>>)
  <2>1. PICK i \in Item : CMSINCRBY(k, <<i>>, <<UintMod - 1>>)
    BY <1>3
  <2> DEFINE len == 1
             items == <<i>>
             ns == <<UintMod - 1>>
  <2>2. len \in Nat /\ items \in [1..len -> Item] /\ ns \in [1..len -> Nat \cup {NaN}]
    <3>1. UintMod - 1 \in Nat
      BY UintIs
    <3> QED BY <3>1
  <2>3. CMSINCRBY(k, items, ns)
    BY <2>1
  <2> HIDE DEF len, items, ns
  <2> QED BY <2>2, <2>3, IncrByOutcome
<1>4. CASE \E j \in Key, w \in {<<1>>, <<2>>, <<1, 1>>, <<NaN>>} : CMSMERGE(k, <<j>>, w)
  <2>1. PICK j \in Key, w \in {<<1>>, <<2>>, <<1, 1>>, <<NaN>>} : CMSMERGE(k, <<j>>, w)
    BY <1>4
  <2> DEFINE n == 1
             srcs == <<j>>
  <2>2. n \in Nat /\ srcs \in [1..n -> Key]
    OBVIOUS
  <2>4. w \in Seq(Nat \cup {NaN})
    <3>1. <<1>> \in Seq(Nat \cup {NaN}) /\ <<2>> \in Seq(Nat \cup {NaN})
          /\ <<1, 1>> \in Seq(Nat \cup {NaN}) /\ <<NaN>> \in Seq(Nat \cup {NaN})
      OBVIOUS
    <3> QED BY <2>1, <3>1
  <2>3. CMSMERGE(k, srcs, w)
    BY <2>1
  <2> HIDE DEF n, srcs
  <2> QED BY <2>2, <2>3, <2>4, MergeOutcome
<1>5. CASE \E i, j \in Key : CMSMERGE(k, <<i, j>>, <<1, 1>>)
  <2>1. PICK i \in Key, j \in Key : CMSMERGE(k, <<i, j>>, <<1, 1>>)
    BY <1>5
  <2> DEFINE n == 2
             srcs == <<i, j>>
             w == <<1, 1>>
  <2>2. n \in Nat /\ srcs \in [1..n -> Key] /\ w \in Seq(Nat \cup {NaN})
    OBVIOUS
  <2>3. CMSMERGE(k, srcs, w)
    BY <2>1
  <2> HIDE DEF n, srcs, w
  <2> QED BY <2>2, <2>3, MergeOutcome
<1>6. CASE \E dim \in Range(BloomDim) : \E seeds \in SeedsFor(dim) : BFRESERVE(k, dim, seeds)
  BY <1>6, ReserveOutcome
<1>7. CASE \E item \in Item \cup {""}, seeds \in SeedsFor(BloomDim[1]) : BFADD(k, item, seeds)
  BY <1>7, BFAddOutcome
<1> QED BY <1>1, <1>2, <1>3, <1>4, <1>5, <1>6, <1>7 DEF SketchNext

-----------------------------------------------------------------------------
(* Sets, HyperLogLogs, strings *)

LEMMA SetStep ==
  ASSUME DataInv, NEW k \in Key, SetNext(k)
  PROVE  Outcome(k)
<1>1. ASSUME NEW v, NEW g PROVE Cell(Obj("set", v), g)
  BY PlainObj DEF Plain
<1>2. PICK xs \in SUBSET Element : EvalSADD(k, xs) \/ EvalSREM(k, xs)
  BY DEF SetNext
<1>3. CASE EvalSADD(k, xs)
  BY <1>1, <1>3, AnswerOutcome, WriteOutcome DEF EvalSADD
<1>4. CASE EvalSREM(k, xs)
  BY <1>1, <1>4, AnswerOutcome, WriteOutcome DEF EvalSREM
<1> QED BY <1>2, <1>3, <1>4

\* A merge that fails midway leaves the destination with more than it had.
LEMMA MergeHLLOutcome ==
  ASSUME DataInv, NEW k \in Key, NEW srcs, EvalPFMERGE(k, srcs)
  PROVE  Outcome(k)
<1> DEFINE bad == SelectInSeq(srcs, LAMBDA j : WrongType(j, "hll"))
           used == IF bad = 0 THEN srcs ELSE SubSeq(srcs, 1, bad - 1)
           merged == HLL(k) \cup UNION {HLL(j) : j \in Range(used)}
           o == Obj("hll", merged)
           g == ghost[k]
<1>1. CASE Answer(Err)
  BY <1>1, AnswerOutcome
<1>2. CASE /\ ~WrongType(k, "hll") /\ ~(bad > 0 /\ ~Exists(k))
           /\ store' = [store EXCEPT ![k] = o]
           /\ reply' = IF bad > 0 THEN Err ELSE OK
           /\ UNCHANGED ghost
  <2>1. ghost = [j \in Key |-> ghost[j]] /\ Cell(store[k], ghost[k])
    BY DEF DataInv
  <2>2. ghost' = [ghost EXCEPT ![k] = g]
    BY <1>2, <2>1
  <2>3. Put(k, o, g)
    BY <1>2, <2>2 DEF Put
  <2>4. Cell(o, g)
    BY PlainObj DEF Plain
  <2>5. bad > 0 => Residue(store[k], o)
    <3> SUFFICES ASSUME bad > 0 PROVE Residue(store[k], o)
      OBVIOUS
    <3>1. Exists(k) /\ store[k].type = "hll"
      BY <1>2 DEF WrongType
    <3>2. o.type = "hll" /\ o.val = merged
      BY ObjFields
    <3> HIDE DEF bad
    <3>3. store[k].val \subseteq merged
      BY <3>1 DEF HLL, Val
    <3> QED BY <3>1, <3>2, <3>3 DEF Residue
  <2> HIDE DEF o, g, bad
  <2>6. reply' = OK \/ (reply' = Err /\ Residue(store[k], o))
    <3>1. reply' = IF bad > 0 THEN Err ELSE OK
      BY <1>2
    <3>2. CASE bad > 0
      BY <2>5, <3>1, <3>2
    <3>3. CASE ~(bad > 0)
      BY <3>1, <3>3
    <3> QED BY <3>2, <3>3
  <2> QED BY <2>3, <2>4, <2>6 DEF Outcome
<1> QED BY <1>1, <1>2 DEF EvalPFMERGE

LEMMA HLLStep ==
  ASSUME DataInv, NEW k \in Key, HLLNext(k)
  PROVE  Outcome(k)
<1>1. ASSUME NEW v, NEW g PROVE Cell(Obj("hll", v), g)
  BY PlainObj DEF Plain
<1>2. ASSUME NEW xs, EvalPFADD(k, xs) PROVE Outcome(k)
  BY <1>1, <1>2, AnswerOutcome, WriteOutcome DEF EvalPFADD
<1>3. ASSUME NEW srcs, EvalPFMERGE(k, srcs) PROVE Outcome(k)
  BY <1>3, MergeHLLOutcome
<1> QED BY <1>2, <1>3 DEF HLLNext

LEMMA StringStep ==
  ASSUME DataInv, NEW k \in Key, SETString(k)
  PROVE  Outcome(k)
<1>1. Cell(Obj("string", "text"), Nil)
  BY PlainObj DEF Plain
<1> QED BY <1>1, WriteOutcome DEF SETString

LEMMA DelStep ==
  ASSUME DataInv, NEW k \in Key, DEL(k)
  PROVE  Outcome(k)
BY NoObjCell, WriteOutcome DEF DEL

-----------------------------------------------------------------------------
(* Lists *)

LEMMA AgreeLen ==
  ASSUME NEW q, NEW g, NEW n, Agree(q, g, n)
  PROVE  n \in Nat /\ q.len = n /\ g.len = n
<1>1. PICK xs : HoldsElems(q, xs) /\ IsBasic(g, xs) /\ Len(xs) = n
  BY DEF Agree
<1> QED BY <1>1, HoldsType DEF IsBasic

LEMMA AgreeNew == Agree(NewDeque, NewBasicDeque, 0)
<1>1. Len(<<>>) = 0
  OBVIOUS
<1> QED BY <1>1, HoldsNew, BasicNew DEF Agree

LEMMA AgreeLPush ==
  ASSUME NEW q, NEW g, NEW n, Agree(q, g, n), NEW x, x \in Elem
  PROVE  Agree(LPush(q, x), BasicLPush(g, x), n + 1)
<1>1. PICK xs : HoldsElems(q, xs) /\ IsBasic(g, xs) /\ Len(xs) = n
  BY DEF Agree
<1>2. HoldsElems(LPush(q, x), <<x>> \o xs)
  BY <1>1, HoldsLPush
<1>3. IsBasic(BasicLPush(g, x), <<x>> \o xs)
  BY <1>1, BasicLPushIs
<1>4. Len(<<x>> \o xs) = n + 1
  <2>1. <<x>> \in Seq(Elem) /\ Len(<<x>>) = 1 /\ xs \in Seq(Elem)
    BY <1>1, OneType, HoldsType
  <2>2. Len(<<x>> \o xs) = Len(<<x>>) + Len(xs) /\ Len(xs) \in Nat
    BY <2>1, JoinLen
  <2> QED BY <1>1, <2>1, <2>2
<1> QED BY <1>2, <1>3, <1>4 DEF Agree

LEMMA AgreeRPush ==
  ASSUME NEW q, NEW g, NEW n, Agree(q, g, n), NEW x, x \in Elem
  PROVE  Agree(RPush(q, x), BasicRPush(g, x), n + 1)
<1>1. PICK xs : HoldsElems(q, xs) /\ IsBasic(g, xs) /\ Len(xs) = n
  BY DEF Agree
<1>2. HoldsElems(RPush(q, x), xs \o <<x>>)
  BY <1>1, HoldsRPush
<1>3. IsBasic(BasicRPush(g, x), xs \o <<x>>)
  BY <1>1, BasicRPushIs
<1>4. Len(xs \o <<x>>) = n + 1
  <2>1. <<x>> \in Seq(Elem) /\ Len(<<x>>) = 1 /\ xs \in Seq(Elem)
    BY <1>1, OneType, HoldsType
  <2>2. Len(xs \o <<x>>) = Len(xs) + Len(<<x>>)
    BY <2>1, JoinLen
  <2> QED BY <1>1, <2>1, <2>2
<1> QED BY <1>2, <1>3, <1>4 DEF Agree

LEMMA AgreeLPop ==
  ASSUME NEW q, NEW g, NEW n, Agree(q, g, n), n # 0, ~GapHead(q)
  PROVE  Agree(LPop(q), BasicLPop(g), n - 1) /\ ~GapHead(LPop(q))
<1>1. PICK xs : HoldsElems(q, xs) /\ IsBasic(g, xs) /\ Len(xs) = n
  BY DEF Agree
<1>2. xs # <<>>
  <2>1. Len(<<>>) = 0
    OBVIOUS
  <2> QED BY <1>1, <2>1
<1>3. FirstTaken(LPop(q), xs)
  BY <1>1, <1>2, HoldsLPop
<1>4. PICK x, ys : x \in Elem /\ ys \in Seq(Elem) /\ xs = <<x>> \o ys /\ HoldsElems(LPop(q), ys)
  BY <1>3 DEF FirstTaken
<1>5. IsBasic(BasicLPop(g), ys)
  BY <1>1, <1>4, BasicLPopIs
<1>6. Len(ys) = n - 1
  <2>1. <<x>> \in Seq(Elem) /\ Len(<<x>>) = 1
    BY <1>4, OneType
  <2>2. Len(<<x>> \o ys) = Len(<<x>>) + Len(ys) /\ Len(ys) \in Nat
    BY <1>4, <2>1, JoinLen
  <2> QED BY <1>1, <1>4, <2>1, <2>2
<1> QED BY <1>3, <1>4, <1>5, <1>6 DEF Agree, FirstTaken

LEMMA AgreeRPop ==
  ASSUME NEW q, NEW g, NEW n, Agree(q, g, n), n # 0
  PROVE  Agree(RPop(q), BasicRPop(g), n - 1)
<1>1. PICK xs : HoldsElems(q, xs) /\ IsBasic(g, xs) /\ Len(xs) = n
  BY DEF Agree
<1>2. xs # <<>>
  <2>1. Len(<<>>) = 0
    OBVIOUS
  <2> QED BY <1>1, <2>1
<1>3. LastTaken(RPop(q), xs)
  BY <1>1, <1>2, HoldsRPop
<1>4. PICK x, ys : x \in Elem /\ ys \in Seq(Elem) /\ xs = ys \o <<x>> /\ HoldsElems(RPop(q), ys)
  BY <1>3 DEF LastTaken
<1>5. IsBasic(BasicRPop(g), ys)
  BY <1>1, <1>4, BasicRPopIs
<1>6. Len(ys) = n - 1
  <2>1. <<x>> \in Seq(Elem) /\ Len(<<x>>) = 1
    BY <1>4, OneType
  <2>2. Len(ys \o <<x>>) = Len(ys) + Len(<<x>>) /\ Len(ys) \in Nat
    BY <1>4, <2>1, JoinLen
  <2> QED BY <1>1, <1>4, <2>1, <2>2
<1> QED BY <1>4, <1>5, <1>6 DEF Agree

\* LINSERT adds an element to both, or to neither.
LEMMA AgreeLInsert ==
  ASSUME NEW q, NEW g, NEW n, Agree(q, g, n), NEW pivot, pivot \in Elem, NEW x, x \in Elem,
         NEW where, where \in {"before", "after"}, ~GapHead(q)
  PROVE  \/ Agree(LInsert(q, pivot, x, where), BasicLInsert(g, pivot, x, where), n)
         \/ Agree(LInsert(q, pivot, x, where), BasicLInsert(g, pivot, x, where), n + 1)
<1>1. PICK xs : HoldsElems(q, xs) /\ IsBasic(g, xs) /\ Len(xs) = n
  BY DEF Agree
<1> DEFINE r == LInsert(q, pivot, x, where)
           t == BasicLInsert(g, pivot, x, where)
           p == First(xs, pivot)
           k == PutAfter(p, where)
           ys == Inserted(xs, k, x)
<1>2. ListInserted(q, r, xs, pivot, x, where)
  BY <1>1, HoldsLInsert
<1>3. IF p = 0 THEN t = g ELSE IsBasic(t, ys)
  BY <1>1, BasicLInsertIs
<1>4. IF p = 0 THEN r = q ELSE HoldsElems(r, ys)
  BY <1>2 DEF ListInserted
<1>5. xs \in Seq(Elem) /\ Len(xs) \in Nat
  BY <1>1, HoldsType
<1>6. p = 0 \/ p \in 1..Len(xs)
  BY <1>5, FirstIs
<1> HIDE DEF r, t, p
<1>7. CASE p = 0
  BY <1>1, <1>3, <1>4, <1>7 DEF Agree, r, t
<1>8. CASE p # 0
  <2>1. k \in 0..Len(xs)
    BY <1>5, <1>6, <1>8 DEF PutAfter
  <2> HIDE DEF k
  <2> DEFINE u == SubSeq(xs, 1, k)
             v == SubSeq(xs, k + 1, Len(xs))
  <2>2. u \in Seq(Elem) /\ v \in Seq(Elem) /\ xs = u \o v
    BY <1>5, <2>1, CutAt
  <2>3. ys = (u \o <<x>>) \o v
    BY DEF Inserted
  <2> HIDE DEF u, v, ys
  <2>4. Len((u \o <<x>>) \o v) = Len(u \o v) + 1
    BY <2>2, InsertedLen
  <2>5. Len(ys) = n + 1
    BY <1>1, <2>2, <2>3, <2>4
  <2>6. Agree(r, t, n + 1)
    BY <1>3, <1>4, <1>8, <2>5 DEF Agree
  <2> QED BY <2>6 DEF r, t
<1> QED BY <1>7, <1>8

LEMMA AgreeRestored ==
  ASSUME NEW q, NEW g, NEW n, Agree(q, g, n)
  PROVE  Agree(DeserializeDeque(SerializeDeque(q)), g, n)
BY HoldsRestored DEF Agree

\* What the deques of lists can be.
Deques == {d \in DequeType : \E xs \in Seq(Elem) : HoldsElems(d, xs)}
Basics == {g \in [len : Nat, buf : Seq(Unit)] : \E xs \in Seq(Elem) : IsBasic(g, xs)}

LEMMA InDeques ==
  ASSUME NEW d, NEW xs, HoldsElems(d, xs)
  PROVE  d \in Deques
BY HoldsType DEF Deques

LEMMA InBasics ==
  ASSUME NEW g, NEW xs, IsBasic(g, xs)
  PROVE  g \in Basics
<1>1. xs \in Seq(Elem) /\ g = [len |-> Len(xs), buf |-> Bytes(xs)]
  BY DEF IsBasic
<1>2. Bytes(xs) \in Seq(Unit) /\ Len(xs) \in Nat
  BY <1>1, BytesType, LenProperties
<1>3. g \in [len : Nat, buf : Seq(Unit)]
  BY <1>1, <1>2
<1> QED BY <1>1, <1>3 DEF Basics

LEMMA LPushStays ==
  ASSUME NEW q \in Deques, NEW x \in Elem
  PROVE  LPush(q, x) \in Deques
<1>1. PICK xs \in Seq(Elem) : HoldsElems(q, xs)
  BY DEF Deques
<1>2. HoldsElems(LPush(q, x), <<x>> \o xs)
  BY <1>1, HoldsLPush
<1> QED BY <1>2, InDeques

LEMMA RPushStays ==
  ASSUME NEW q \in Deques, NEW x \in Elem
  PROVE  RPush(q, x) \in Deques
<1>1. PICK xs \in Seq(Elem) : HoldsElems(q, xs)
  BY DEF Deques
<1>2. HoldsElems(RPush(q, x), xs \o <<x>>)
  BY <1>1, HoldsRPush
<1> QED BY <1>2, InDeques

LEMMA BasicLPushStays ==
  ASSUME NEW q \in Basics, NEW x \in Elem
  PROVE  BasicLPush(q, x) \in Basics
<1>1. PICK xs \in Seq(Elem) : IsBasic(q, xs)
  BY DEF Basics
<1>2. IsBasic(BasicLPush(q, x), <<x>> \o xs)
  BY <1>1, BasicLPushIs
<1> QED BY <1>2, InBasics

LEMMA BasicRPushStays ==
  ASSUME NEW q \in Basics, NEW x \in Elem
  PROVE  BasicRPush(q, x) \in Basics
<1>1. PICK xs \in Seq(Elem) : IsBasic(q, xs)
  BY DEF Basics
<1>2. IsBasic(BasicRPush(q, x), xs \o <<x>>)
  BY <1>1, BasicRPushIs
<1> QED BY <1>2, InBasics

\* Elements pushed in turn.
LPushAll(q, xs) == FoldLeft(LPush, q, xs)

LEMMA LPushLoop ==
  ASSUME NEW q \in Deques, NEW n \in Nat, NEW xs \in [1..n -> Elem]
  PROVE  \E g \in [0..n -> Deques] :
           g[0] = q /\ (\A i \in 1..n : g[i] = LPush(g[i - 1], xs[i])) /\ LPushAll(q, xs) = g[n]
<1> DEFINE Body(it) == [s \in SUBSET DOMAIN xs |->
                          IF s = {} THEN q ELSE LPush(it[s \ {Max(s)}], xs[Max(s)])]
           step == [p \in (1..n) \X Deques |-> LPush(p[2], xs[p[1]])]
           f == CHOOSE it : it = Body(it)
<1>1. DOMAIN xs = 1..n
  OBVIOUS
<1>2. /\ step \in [(1..n) \X Deques -> Deques]
      /\ \A i \in 1..n, a \in Deques : step[<<i, a>>] = LPush(a, xs[i])
  <2>1. \A p \in (1..n) \X Deques : LPush(p[2], xs[p[1]]) \in Deques
    BY LPushStays
  <2> QED BY <2>1
<1>3. \A s \in SUBSET (1..n) : s # {} => Max(s) \in 1..n /\ s \ {Max(s)} \in SUBSET (1..n)
  BY MaxChooses DEF Chooser, MaxOf
<1>4. LPushAll(q, xs) = f[1..n]
  BY <1>1 DEF LPushAll, FoldLeft, MapThenFoldSet
<1> HIDE DEF step
<1>5. \E it : it = Body(it)
  <2>1. PICK it \in [SUBSET (1..n) -> Deques] : LeftSteps(it, n, q, step)
    BY <1>2, FoldLeftExists
  <2>2. \A s \in SUBSET (1..n) : it[s] = Body(it)[s]
    BY <1>1, <1>2, <1>3, <2>1 DEF LeftSteps, LeftStep
  <2>3. it = Body(it)
    BY <1>1, <2>1, <2>2
  <2> QED BY <2>3
<1>6. f = Body(f)
  <2> HIDE DEF Body
  <2> QED BY <1>5
<1> HIDE DEF f
<1>7. LeftFold(f, n, Deques, q, step)
  <2>1. \A s \in SUBSET (1..n) : f[s] = IF s = {} THEN q ELSE LPush(f[s \ {Max(s)}], xs[Max(s)])
    BY <1>1, <1>6
  <2>2. \A s \in SUBSET (1..n) : s # {} /\ f[s \ {Max(s)}] \in Deques =>
          step[<<Max(s), f[s \ {Max(s)}]>>] = LPush(f[s \ {Max(s)}], xs[Max(s)])
    BY <1>2, <1>3
  <2> QED BY <2>1, <2>2 DEF LeftFold, LeftStep
<1>8. PICK g \in [0..n -> Deques] : Follows(g, n, q, step) /\ f[1..n] = g[n]
  <2>1. FoldsTo(f[1..n], n, Deques, q, step)
    BY <1>2, <1>7, FoldLeftLaw
  <2> QED BY <2>1 DEF FoldsTo
<1>9. \A i \in 1..n : g[i] = LPush(g[i - 1], xs[i])
  <2>1. \A i \in 1..n : g[i - 1] \in Deques
    BY <1>8
  <2> QED BY <1>2, <1>8, <2>1 DEF Follows
<1>10. g[0] = q
  BY <1>8 DEF Follows
<1> QED BY <1>4, <1>8, <1>9, <1>10

BasicLPushAll(q, xs) == FoldLeft(BasicLPush, q, xs)

LEMMA BasicLPushLoop ==
  ASSUME NEW q \in Basics, NEW n \in Nat, NEW xs \in [1..n -> Elem]
  PROVE  \E g \in [0..n -> Basics] :
           g[0] = q /\ (\A i \in 1..n : g[i] = BasicLPush(g[i - 1], xs[i])) /\ BasicLPushAll(q, xs) = g[n]
<1> DEFINE Body(it) == [s \in SUBSET DOMAIN xs |->
                          IF s = {} THEN q ELSE BasicLPush(it[s \ {Max(s)}], xs[Max(s)])]
           step == [p \in (1..n) \X Basics |-> BasicLPush(p[2], xs[p[1]])]
           f == CHOOSE it : it = Body(it)
<1>1. DOMAIN xs = 1..n
  OBVIOUS
<1>2. /\ step \in [(1..n) \X Basics -> Basics]
      /\ \A i \in 1..n, a \in Basics : step[<<i, a>>] = BasicLPush(a, xs[i])
  <2>1. \A p \in (1..n) \X Basics : BasicLPush(p[2], xs[p[1]]) \in Basics
    BY BasicLPushStays
  <2> QED BY <2>1
<1>3. \A s \in SUBSET (1..n) : s # {} => Max(s) \in 1..n /\ s \ {Max(s)} \in SUBSET (1..n)
  BY MaxChooses DEF Chooser, MaxOf
<1>4. BasicLPushAll(q, xs) = f[1..n]
  BY <1>1 DEF BasicLPushAll, FoldLeft, MapThenFoldSet
<1> HIDE DEF step
<1>5. \E it : it = Body(it)
  <2>1. PICK it \in [SUBSET (1..n) -> Basics] : LeftSteps(it, n, q, step)
    BY <1>2, FoldLeftExists
  <2>2. \A s \in SUBSET (1..n) : it[s] = Body(it)[s]
    BY <1>1, <1>2, <1>3, <2>1 DEF LeftSteps, LeftStep
  <2>3. it = Body(it)
    BY <1>1, <2>1, <2>2
  <2> QED BY <2>3
<1>6. f = Body(f)
  <2> HIDE DEF Body
  <2> QED BY <1>5
<1> HIDE DEF f
<1>7. LeftFold(f, n, Basics, q, step)
  <2>1. \A s \in SUBSET (1..n) : f[s] = IF s = {} THEN q ELSE BasicLPush(f[s \ {Max(s)}], xs[Max(s)])
    BY <1>1, <1>6
  <2>2. \A s \in SUBSET (1..n) : s # {} /\ f[s \ {Max(s)}] \in Basics =>
          step[<<Max(s), f[s \ {Max(s)}]>>] = BasicLPush(f[s \ {Max(s)}], xs[Max(s)])
    BY <1>2, <1>3
  <2> QED BY <2>1, <2>2 DEF LeftFold, LeftStep
<1>8. PICK g \in [0..n -> Basics] : Follows(g, n, q, step) /\ f[1..n] = g[n]
  <2>1. FoldsTo(f[1..n], n, Basics, q, step)
    BY <1>2, <1>7, FoldLeftLaw
  <2> QED BY <2>1 DEF FoldsTo
<1>9. \A i \in 1..n : g[i] = BasicLPush(g[i - 1], xs[i])
  <2>1. \A i \in 1..n : g[i - 1] \in Basics
    BY <1>8
  <2> QED BY <1>2, <1>8, <2>1 DEF Follows
<1>10. g[0] = q
  BY <1>8 DEF Follows
<1> QED BY <1>4, <1>8, <1>9, <1>10

\* Elements pushed in turn.
RPushAll(q, xs) == FoldLeft(RPush, q, xs)

LEMMA RPushLoop ==
  ASSUME NEW q \in Deques, NEW n \in Nat, NEW xs \in [1..n -> Elem]
  PROVE  \E g \in [0..n -> Deques] :
           g[0] = q /\ (\A i \in 1..n : g[i] = RPush(g[i - 1], xs[i])) /\ RPushAll(q, xs) = g[n]
<1> DEFINE Body(it) == [s \in SUBSET DOMAIN xs |->
                          IF s = {} THEN q ELSE RPush(it[s \ {Max(s)}], xs[Max(s)])]
           step == [p \in (1..n) \X Deques |-> RPush(p[2], xs[p[1]])]
           f == CHOOSE it : it = Body(it)
<1>1. DOMAIN xs = 1..n
  OBVIOUS
<1>2. /\ step \in [(1..n) \X Deques -> Deques]
      /\ \A i \in 1..n, a \in Deques : step[<<i, a>>] = RPush(a, xs[i])
  <2>1. \A p \in (1..n) \X Deques : RPush(p[2], xs[p[1]]) \in Deques
    BY RPushStays
  <2> QED BY <2>1
<1>3. \A s \in SUBSET (1..n) : s # {} => Max(s) \in 1..n /\ s \ {Max(s)} \in SUBSET (1..n)
  BY MaxChooses DEF Chooser, MaxOf
<1>4. RPushAll(q, xs) = f[1..n]
  BY <1>1 DEF RPushAll, FoldLeft, MapThenFoldSet
<1> HIDE DEF step
<1>5. \E it : it = Body(it)
  <2>1. PICK it \in [SUBSET (1..n) -> Deques] : LeftSteps(it, n, q, step)
    BY <1>2, FoldLeftExists
  <2>2. \A s \in SUBSET (1..n) : it[s] = Body(it)[s]
    BY <1>1, <1>2, <1>3, <2>1 DEF LeftSteps, LeftStep
  <2>3. it = Body(it)
    BY <1>1, <2>1, <2>2
  <2> QED BY <2>3
<1>6. f = Body(f)
  <2> HIDE DEF Body
  <2> QED BY <1>5
<1> HIDE DEF f
<1>7. LeftFold(f, n, Deques, q, step)
  <2>1. \A s \in SUBSET (1..n) : f[s] = IF s = {} THEN q ELSE RPush(f[s \ {Max(s)}], xs[Max(s)])
    BY <1>1, <1>6
  <2>2. \A s \in SUBSET (1..n) : s # {} /\ f[s \ {Max(s)}] \in Deques =>
          step[<<Max(s), f[s \ {Max(s)}]>>] = RPush(f[s \ {Max(s)}], xs[Max(s)])
    BY <1>2, <1>3
  <2> QED BY <2>1, <2>2 DEF LeftFold, LeftStep
<1>8. PICK g \in [0..n -> Deques] : Follows(g, n, q, step) /\ f[1..n] = g[n]
  <2>1. FoldsTo(f[1..n], n, Deques, q, step)
    BY <1>2, <1>7, FoldLeftLaw
  <2> QED BY <2>1 DEF FoldsTo
<1>9. \A i \in 1..n : g[i] = RPush(g[i - 1], xs[i])
  <2>1. \A i \in 1..n : g[i - 1] \in Deques
    BY <1>8
  <2> QED BY <1>2, <1>8, <2>1 DEF Follows
<1>10. g[0] = q
  BY <1>8 DEF Follows
<1> QED BY <1>4, <1>8, <1>9, <1>10

BasicRPushAll(q, xs) == FoldLeft(BasicRPush, q, xs)

LEMMA BasicRPushLoop ==
  ASSUME NEW q \in Basics, NEW n \in Nat, NEW xs \in [1..n -> Elem]
  PROVE  \E g \in [0..n -> Basics] :
           g[0] = q /\ (\A i \in 1..n : g[i] = BasicRPush(g[i - 1], xs[i])) /\ BasicRPushAll(q, xs) = g[n]
<1> DEFINE Body(it) == [s \in SUBSET DOMAIN xs |->
                          IF s = {} THEN q ELSE BasicRPush(it[s \ {Max(s)}], xs[Max(s)])]
           step == [p \in (1..n) \X Basics |-> BasicRPush(p[2], xs[p[1]])]
           f == CHOOSE it : it = Body(it)
<1>1. DOMAIN xs = 1..n
  OBVIOUS
<1>2. /\ step \in [(1..n) \X Basics -> Basics]
      /\ \A i \in 1..n, a \in Basics : step[<<i, a>>] = BasicRPush(a, xs[i])
  <2>1. \A p \in (1..n) \X Basics : BasicRPush(p[2], xs[p[1]]) \in Basics
    BY BasicRPushStays
  <2> QED BY <2>1
<1>3. \A s \in SUBSET (1..n) : s # {} => Max(s) \in 1..n /\ s \ {Max(s)} \in SUBSET (1..n)
  BY MaxChooses DEF Chooser, MaxOf
<1>4. BasicRPushAll(q, xs) = f[1..n]
  BY <1>1 DEF BasicRPushAll, FoldLeft, MapThenFoldSet
<1> HIDE DEF step
<1>5. \E it : it = Body(it)
  <2>1. PICK it \in [SUBSET (1..n) -> Basics] : LeftSteps(it, n, q, step)
    BY <1>2, FoldLeftExists
  <2>2. \A s \in SUBSET (1..n) : it[s] = Body(it)[s]
    BY <1>1, <1>2, <1>3, <2>1 DEF LeftSteps, LeftStep
  <2>3. it = Body(it)
    BY <1>1, <2>1, <2>2
  <2> QED BY <2>3
<1>6. f = Body(f)
  <2> HIDE DEF Body
  <2> QED BY <1>5
<1> HIDE DEF f
<1>7. LeftFold(f, n, Basics, q, step)
  <2>1. \A s \in SUBSET (1..n) : f[s] = IF s = {} THEN q ELSE BasicRPush(f[s \ {Max(s)}], xs[Max(s)])
    BY <1>1, <1>6
  <2>2. \A s \in SUBSET (1..n) : s # {} /\ f[s \ {Max(s)}] \in Basics =>
          step[<<Max(s), f[s \ {Max(s)}]>>] = BasicRPush(f[s \ {Max(s)}], xs[Max(s)])
    BY <1>2, <1>3
  <2> QED BY <2>1, <2>2 DEF LeftFold, LeftStep
<1>8. PICK g \in [0..n -> Basics] : Follows(g, n, q, step) /\ f[1..n] = g[n]
  <2>1. FoldsTo(f[1..n], n, Basics, q, step)
    BY <1>2, <1>7, FoldLeftLaw
  <2> QED BY <2>1 DEF FoldsTo
<1>9. \A i \in 1..n : g[i] = BasicRPush(g[i - 1], xs[i])
  <2>1. \A i \in 1..n : g[i - 1] \in Basics
    BY <1>8
  <2> QED BY <1>2, <1>8, <2>1 DEF Follows
<1>10. g[0] = q
  BY <1>8 DEF Follows
<1> QED BY <1>4, <1>8, <1>9, <1>10

\* Both stay alike while elements are pushed to them in turn.
LEMMA LPushesAgree ==
  ASSUME NEW q, NEW b, NEW l, Agree(q, b, l), NEW n, n \in Nat, NEW xs, xs \in [1..n -> Elem]
  PROVE  Agree(LPushAll(q, xs), BasicLPushAll(b, xs), l + n)
<1>1. l \in Nat
  BY AgreeLen
<1>2. q \in Deques /\ b \in Basics
  BY InDeques, InBasics DEF Agree
<1>3. PICK g \in [0..n -> Deques] :
        g[0] = q /\ (\A i \in 1..n : g[i] = LPush(g[i - 1], xs[i])) /\ LPushAll(q, xs) = g[n]
  BY SMTT(30), <1>2, LPushLoop
<1>4. PICK h \in [0..n -> Basics] :
        h[0] = b /\ (\A i \in 1..n : h[i] = BasicLPush(h[i - 1], xs[i])) /\ BasicLPushAll(b, xs) = h[n]
  BY <1>2, BasicLPushLoop
<1> DEFINE Q == {i \in Nat : i <= n => Agree(g[i], h[i], l + i)}
<1>5. 0 \in Q
  <2>1. l + 0 = l
    BY <1>1
  <2>2. Agree(g[0], h[0], l + 0)
    BY <1>3, <1>4, <2>1
  <2> QED BY <2>2
<1>6. ASSUME NEW i \in Nat, i \in Q PROVE i + 1 \in Q
  <2> SUFFICES ASSUME i + 1 <= n PROVE Agree(g[i + 1], h[i + 1], l + (i + 1))
    OBVIOUS
  <2> DEFINE j == i + 1
  <2>1. j \in 1..n /\ j - 1 = i /\ i <= n /\ l + j = (l + i) + 1 /\ xs[j] \in Elem
    BY <1>1
  <2>2. Agree(g[i], h[i], l + i)
    BY <1>6, <2>1
  <2> HIDE DEF j
  <2>3. Agree(LPush(g[i], xs[j]), BasicLPush(h[i], xs[j]), (l + i) + 1)
    BY <2>1, <2>2, AgreeLPush
  <2>4. g[j] = LPush(g[i], xs[j]) /\ h[j] = BasicLPush(h[i], xs[j])
    BY <1>3, <1>4, <2>1
  <2>5. Agree(g[j], h[j], l + j)
    BY <2>1, <2>3, <2>4
  <2> QED BY <2>5 DEF j
<1> HIDE DEF Q
<1>7. n \in Q
  BY <1>5, <1>6, NatInd
<1> QED BY <1>3, <1>4, <1>7 DEF Q

LEMMA RPushesAgree ==
  ASSUME NEW q, NEW b, NEW l, Agree(q, b, l), NEW n, n \in Nat, NEW xs, xs \in [1..n -> Elem]
  PROVE  Agree(RPushAll(q, xs), BasicRPushAll(b, xs), l + n)
<1>1. l \in Nat
  BY AgreeLen
<1>2. q \in Deques /\ b \in Basics
  BY InDeques, InBasics DEF Agree
<1>3. PICK g \in [0..n -> Deques] :
        g[0] = q /\ (\A i \in 1..n : g[i] = RPush(g[i - 1], xs[i])) /\ RPushAll(q, xs) = g[n]
  BY <1>2, RPushLoop
<1>4. PICK h \in [0..n -> Basics] :
        h[0] = b /\ (\A i \in 1..n : h[i] = BasicRPush(h[i - 1], xs[i])) /\ BasicRPushAll(b, xs) = h[n]
  BY <1>2, BasicRPushLoop
<1> DEFINE Q == {i \in Nat : i <= n => Agree(g[i], h[i], l + i)}
<1>5. 0 \in Q
  <2>1. l + 0 = l
    BY <1>1
  <2>2. Agree(g[0], h[0], l + 0)
    BY <1>3, <1>4, <2>1
  <2> QED BY <2>2
<1>6. ASSUME NEW i \in Nat, i \in Q PROVE i + 1 \in Q
  <2> SUFFICES ASSUME i + 1 <= n PROVE Agree(g[i + 1], h[i + 1], l + (i + 1))
    OBVIOUS
  <2> DEFINE j == i + 1
  <2>1. j \in 1..n /\ j - 1 = i /\ i <= n /\ l + j = (l + i) + 1 /\ xs[j] \in Elem
    BY <1>1
  <2>2. Agree(g[i], h[i], l + i)
    BY <1>6, <2>1
  <2> HIDE DEF j
  <2>3. Agree(RPush(g[i], xs[j]), BasicRPush(h[i], xs[j]), (l + i) + 1)
    BY <2>1, <2>2, AgreeRPush
  <2>4. g[j] = RPush(g[i], xs[j]) /\ h[j] = BasicRPush(h[i], xs[j])
    BY <1>3, <1>4, <2>1
  <2>5. Agree(g[j], h[j], l + j)
    BY <2>1, <2>3, <2>4
  <2> QED BY <2>5 DEF j
<1> HIDE DEF Q
<1>7. n \in Q
  BY <1>5, <1>6, NatInd
<1> QED BY <1>3, <1>4, <1>7 DEF Q

\* Elements popped in turn: commands pop one or two.
LEMMA FewMax ==
  ASSUME NEW n \in 0..2, NEW s \in SUBSET (1..n), s # {}
  PROVE  Max(s) \in s /\ \A y \in s : y <= Max(s)
<1>1. 1..n \subseteq {1, 2}
  OBVIOUS
<1>2. \E m \in s : \A y \in s : y <= m
  <2>1. CASE 2 \in s
    BY <1>1, <2>1
  <2>2. CASE 2 \notin s
    <3>1. \A y \in s : y = 1
      BY <1>1, <2>2
    <3>2. PICK m \in s : TRUE
      OBVIOUS
    <3>3. m = 1 /\ \A y \in s : y <= m
      BY <3>1, <3>2
    <3> QED BY <3>2, <3>3
  <2> QED BY <2>1, <2>2
<1> QED BY <1>1, <1>2 DEF Max

LPopAll(q, xs) == FoldLeft(LAMBDA p, i : LPop(p), q, xs)

LEMMA LPopFew ==
  ASSUME NEW q, NEW n \in 0..2, NEW xs, DOMAIN xs = 1..n
  PROVE  /\ n = 0 => LPopAll(q, xs) = q
         /\ n = 1 => LPopAll(q, xs) = LPop(q)
         /\ n = 2 => LPopAll(q, xs) = LPop(LPop(q))
<1> DEFINE Body(it) == [s \in SUBSET DOMAIN xs |->
                          IF s = {} THEN q ELSE LPop(it[s \ {Max(s)}])]
           few == [s \in SUBSET (1..n) |->
                     CASE s = {} -> q
                       [] s = {1} -> LPop(q)
                       [] s = {2} -> LPop(q)
                       [] OTHER -> LPop(LPop(q))]
           f == CHOOSE it : it = Body(it)
<1>1. LPopAll(q, xs) = f[1..n]
  BY DEF LPopAll, FoldLeft, MapThenFoldSet
<1>2. ASSUME NEW s \in SUBSET (1..n), s # {}
      PROVE  \/ s = {1} /\ Max(s) = 1 /\ s \ {Max(s)} = {}
             \/ s = {2} /\ Max(s) = 2 /\ s \ {Max(s)} = {}
             \/ s = {1, 2} /\ Max(s) = 2 /\ s \ {Max(s)} = {1} /\ s # {1} /\ s # {2}
  <2>1. Max(s) \in s /\ \A y \in s : y <= Max(s)
    BY <1>2, FewMax
  <2>2. s = {1} \/ s = {2} \/ s = {1, 2}
    <3>1. 1..n \subseteq {1, 2}
      OBVIOUS
    <3> QED BY <1>2, <3>1
  <2> QED BY <2>1, <2>2
<1>3. few = Body(few)
  <2>1. \A s \in SUBSET (1..n) : few[s] = Body(few)[s]
    <3> SUFFICES ASSUME NEW s \in SUBSET (1..n) PROVE few[s] = Body(few)[s]
      OBVIOUS
    <3>1. few[{}] = q /\ ({1} \in SUBSET (1..n) => few[{1}] = LPop(q))
      OBVIOUS
    <3>2. CASE s = {}
      BY <3>2
    <3>3. CASE s = {1}
      <4>1. Max(s) = 1 /\ s \ {Max(s)} = {}
        BY <1>2, <3>3
      <4> QED BY <3>1, <3>3, <4>1
    <3>4. CASE s = {2}
      <4>1. Max(s) = 2 /\ s \ {Max(s)} = {}
        BY <1>2, <3>4
      <4>2. few[s] = LPop(q)
        BY <3>4
      <4>3. Body(few)[s] = LPop(few[s \ {Max(s)}])
        BY <3>4
      <4> HIDE DEF few, Body
      <4> QED BY <3>1, <4>1, <4>2, <4>3
    <3>5. CASE s = {1, 2}
      <4>1. Max(s) = 2 /\ s \ {Max(s)} = {1} /\ s # {1} /\ s # {2} /\ s # {}
        BY SMTT(30), <1>2, <3>5
      <4>2. few[s] = LPop(LPop(q))
        BY <4>1
      <4>3. Body(few)[s] = LPop(few[s \ {Max(s)}])
        BY <4>1
      <4>4. {1} \in SUBSET (1..n)
        BY <3>5
      <4> HIDE DEF few, Body
      <4> QED BY <3>1, <4>1, <4>2, <4>3, <4>4
    <3> QED BY <1>2, <3>2, <3>3, <3>4, <3>5
  <2>2. few = Body(few)
    <3>1. few = [s \in SUBSET (1..n) |-> few[s]]
      OBVIOUS
    <3> HIDE DEF few
    <3>2. Body(few) = [s \in SUBSET (1..n) |-> Body(few)[s]]
      OBVIOUS
    <3> HIDE DEF Body
    <3> QED BY <2>1, <3>1, <3>2
  <2> QED BY <2>2
<1>4. f = Body(f)
  <2>1. \E it : it = Body(it)
    BY <1>3
  <2> HIDE DEF Body
  <2> QED BY <2>1
<1> HIDE DEF f, few
<1>5. \A s \in SUBSET (1..n) : f[s] = IF s = {} THEN q ELSE LPop(f[s \ {Max(s)}])
  BY <1>4
<1>6. f[{}] = q
  BY <1>5
<1>7. CASE n = 0
  BY <1>1, <1>6, <1>7
<1>8. ASSUME n \in 1..2 PROVE f[{1}] = LPop(q)
  <2>1. {1} \in SUBSET (1..n) /\ {1} # {}
    BY <1>8
  <2>2. Max({1}) = 1 /\ {1} \ {Max({1})} = {}
    BY <1>2, <2>1
  <2> QED BY <1>5, <1>6, <2>1, <2>2
<1>9. CASE n = 1
  <2>1. 1..n = {1}
    BY <1>9
  <2> QED BY <1>1, <1>8, <1>9, <2>1
<1>10. CASE n = 2
  <2>1. 1..n = {1, 2}
    BY <1>10
  <2>2. Max({1, 2}) = 2 /\ {1, 2} \ {Max({1, 2})} = {1}
    <3>1. {1, 2} \in SUBSET (1..n) /\ {1, 2} # {} /\ {1, 2} # {1} /\ {1, 2} # {2}
      <4>1. 1 \in {1, 2} /\ 2 \in {1, 2} /\ 1 \notin {2} /\ 2 \notin {1} /\ 1 \notin {}
        OBVIOUS
      <4> QED BY <2>1, <4>1, Zenon
    <3> QED BY <1>2, <3>1
  <2>3. f[{1, 2}] = LPop(f[{1, 2} \ {Max({1, 2})}])
    BY <1>5, <2>1
  <2> QED BY <1>1, <1>8, <1>10, <2>1, <2>2, <2>3
<1> QED BY <1>7, <1>9, <1>10

BasicLPopAll(q, xs) == FoldLeft(LAMBDA p, i : BasicLPop(p), q, xs)

LEMMA BasicLPopFew ==
  ASSUME NEW q, NEW n \in 0..2, NEW xs, DOMAIN xs = 1..n
  PROVE  /\ n = 0 => BasicLPopAll(q, xs) = q
         /\ n = 1 => BasicLPopAll(q, xs) = BasicLPop(q)
         /\ n = 2 => BasicLPopAll(q, xs) = BasicLPop(BasicLPop(q))
<1> DEFINE Body(it) == [s \in SUBSET DOMAIN xs |->
                          IF s = {} THEN q ELSE BasicLPop(it[s \ {Max(s)}])]
           few == [s \in SUBSET (1..n) |->
                     CASE s = {} -> q
                       [] s = {1} -> BasicLPop(q)
                       [] s = {2} -> BasicLPop(q)
                       [] OTHER -> BasicLPop(BasicLPop(q))]
           f == CHOOSE it : it = Body(it)
<1>1. BasicLPopAll(q, xs) = f[1..n]
  BY DEF BasicLPopAll, FoldLeft, MapThenFoldSet
<1>2. ASSUME NEW s \in SUBSET (1..n), s # {}
      PROVE  \/ s = {1} /\ Max(s) = 1 /\ s \ {Max(s)} = {}
             \/ s = {2} /\ Max(s) = 2 /\ s \ {Max(s)} = {}
             \/ s = {1, 2} /\ Max(s) = 2 /\ s \ {Max(s)} = {1} /\ s # {1} /\ s # {2}
  <2>1. Max(s) \in s /\ \A y \in s : y <= Max(s)
    BY <1>2, FewMax
  <2>2. s = {1} \/ s = {2} \/ s = {1, 2}
    <3>1. 1..n \subseteq {1, 2}
      OBVIOUS
    <3> QED BY <1>2, <3>1
  <2> QED BY <2>1, <2>2
<1>3. few = Body(few)
  <2>1. \A s \in SUBSET (1..n) : few[s] = Body(few)[s]
    <3> SUFFICES ASSUME NEW s \in SUBSET (1..n) PROVE few[s] = Body(few)[s]
      OBVIOUS
    <3>1. few[{}] = q /\ ({1} \in SUBSET (1..n) => few[{1}] = BasicLPop(q))
      OBVIOUS
    <3>2. CASE s = {}
      BY <3>2
    <3>3. CASE s = {1}
      <4>1. Max(s) = 1 /\ s \ {Max(s)} = {}
        BY <1>2, <3>3
      <4> QED BY <3>1, <3>3, <4>1
    <3>4. CASE s = {2}
      <4>1. Max(s) = 2 /\ s \ {Max(s)} = {}
        BY <1>2, <3>4
      <4>2. few[s] = BasicLPop(q)
        BY <3>4
      <4>3. Body(few)[s] = BasicLPop(few[s \ {Max(s)}])
        BY <3>4
      <4> HIDE DEF few, Body
      <4> QED BY <3>1, <4>1, <4>2, <4>3
    <3>5. CASE s = {1, 2}
      <4>1. Max(s) = 2 /\ s \ {Max(s)} = {1} /\ s # {1} /\ s # {2} /\ s # {}
        BY <1>2, <3>5
      <4>2. few[s] = BasicLPop(BasicLPop(q))
        BY <4>1
      <4>3. Body(few)[s] = BasicLPop(few[s \ {Max(s)}])
        BY <4>1
      <4>4. {1} \in SUBSET (1..n)
        BY <3>5
      <4> HIDE DEF few, Body
      <4> QED BY <3>1, <4>1, <4>2, <4>3, <4>4
    <3> QED BY <1>2, <3>2, <3>3, <3>4, <3>5
  <2>2. few = Body(few)
    <3>1. few = [s \in SUBSET (1..n) |-> few[s]]
      OBVIOUS
    <3> HIDE DEF few
    <3>2. Body(few) = [s \in SUBSET (1..n) |-> Body(few)[s]]
      OBVIOUS
    <3> HIDE DEF Body
    <3> QED BY <2>1, <3>1, <3>2
  <2> QED BY <2>2
<1>4. f = Body(f)
  <2>1. \E it : it = Body(it)
    BY <1>3
  <2> HIDE DEF Body
  <2> QED BY <2>1
<1> HIDE DEF f, few
<1>5. \A s \in SUBSET (1..n) : f[s] = IF s = {} THEN q ELSE BasicLPop(f[s \ {Max(s)}])
  BY <1>4
<1>6. f[{}] = q
  BY <1>5
<1>7. CASE n = 0
  BY <1>1, <1>6, <1>7
<1>8. ASSUME n \in 1..2 PROVE f[{1}] = BasicLPop(q)
  <2>1. {1} \in SUBSET (1..n) /\ {1} # {}
    BY <1>8
  <2>2. Max({1}) = 1 /\ {1} \ {Max({1})} = {}
    BY <1>2, <2>1
  <2> QED BY <1>5, <1>6, <2>1, <2>2
<1>9. CASE n = 1
  <2>1. 1..n = {1}
    BY <1>9
  <2> QED BY <1>1, <1>8, <1>9, <2>1
<1>10. CASE n = 2
  <2>1. 1..n = {1, 2}
    BY <1>10
  <2>2. Max({1, 2}) = 2 /\ {1, 2} \ {Max({1, 2})} = {1}
    <3>1. {1, 2} \in SUBSET (1..n) /\ {1, 2} # {} /\ {1, 2} # {1} /\ {1, 2} # {2}
      <4>1. 1 \in {1, 2} /\ 2 \in {1, 2} /\ 1 \notin {2} /\ 2 \notin {1} /\ 1 \notin {}
        OBVIOUS
      <4> QED BY <2>1, <4>1, Zenon
    <3> QED BY <1>2, <3>1
  <2>3. f[{1, 2}] = BasicLPop(f[{1, 2} \ {Max({1, 2})}])
    BY <1>5, <2>1
  <2> QED BY <1>1, <1>8, <1>10, <2>1, <2>2, <2>3
<1> QED BY <1>7, <1>9, <1>10

\* The list of a key, empty when there is none.
LEMMA ListAt ==
  ASSUME DataInv, NEW k \in Key, ~WrongType(k, "deque")
  PROVE  \E n \in 0..MaxList : Agree(ListOf(k), BasicOf(k), n)
<1>1. Cell(store[k], ghost[k])
  BY DEF DataInv
<1>2. CASE Exists(k)
  <2>1. IsList(store[k].val, ghost[k])
    BY <1>1, <1>2 DEF WrongType, Cell, ListCell
  <2> QED BY <1>2, <2>1 DEF IsList, ListOf, Val, BasicOf, GhostOr
<1>3. CASE ~Exists(k)
  <2>1. ListOf(k) = NewDeque /\ BasicOf(k) = NewBasicDeque
    BY <1>3 DEF ListOf, BasicOf, GhostOr
  <2>2. 0 \in 0..MaxList
    BY ListAssumption
  <2> QED BY <2>1, <2>2, AgreeNew
<1> QED BY <1>2, <1>3

LEMMA ListHeld ==
  ASSUME DataInv, NEW k \in Key, Holds(k, "deque")
  PROVE  Val(k).len \in 0..MaxList /\ Agree(Val(k), ghost[k], Val(k).len)
<1>1. IsList(store[k].val, ghost[k])
  BY DEF DataInv, Cell, ListCell, Holds
<1>2. PICK n \in 0..MaxList : Agree(Val(k), ghost[k], n)
  BY <1>1 DEF IsList, Val
<1> QED BY <1>2, AgreeLen

LEMMA PutListOutcome ==
  ASSUME NEW k \in Key, NEW q, NEW g, NEW n \in 0..MaxList, Agree(q, g, n), PutList(k, q, g)
  PROVE  Outcome(k)
<1>1. "deque" \in Types
  BY DEF Types
<1>2. Cell(Obj("deque", q), g)
  BY <1>1, CellOf DEF IsList
<1> QED BY <1>2, WriteOutcome DEF PutList

LEMMA LPushOutcome ==
  ASSUME DataInv, NEW k \in Key, NEW n \in Nat, NEW as \in [1..n -> Arg], LPUSH(k, as)
  PROVE  Outcome(k)
<1> DEFINE xs == Spelt(as)
<1>1. xs \in [1..n -> Elem]
  BY DEF Spelt, Arg
<1> HIDE DEF xs
<1>2. CASE Answer(Err)
  BY <1>2, AnswerOutcome
<1>3. CASE Crash
  BY <1>3, CrashOutcome
<1>4. CASE /\ ~WrongType(k, "deque") /\ ListOf(k).len + Len(as) <= MaxList
           /\ PutList(k, LPushAll(ListOf(k), xs), BasicLPushAll(BasicOf(k), xs))
  <2>1. PICK l \in 0..MaxList : Agree(ListOf(k), BasicOf(k), l)
    BY <1>4, ListAt
  <2>2. ListOf(k).len = l
    BY <2>1, AgreeLen
  <2>3. Len(as) = n
    OBVIOUS
  <2>4. l + n \in 0..MaxList
    BY <1>4, <2>2, <2>3, ListAssumption
  <2> DEFINE q == LPushAll(ListOf(k), xs)
             b == BasicLPushAll(BasicOf(k), xs)
  <2>5. Agree(q, b, l + n)
    BY <1>1, <2>1, LPushesAgree
  <2>6. PutList(k, q, b)
    BY <1>4
  <2> HIDE DEF q, b
  <2> QED BY <2>4, <2>5, <2>6, PutListOutcome
<1> QED BY <1>2, <1>3, <1>4 DEF LPUSH, LPushAll, BasicLPushAll, xs

LEMMA RPushOutcome ==
  ASSUME DataInv, NEW k \in Key, NEW n \in Nat, NEW as \in [1..n -> Arg], RPUSH(k, as)
  PROVE  Outcome(k)
<1> DEFINE xs == Spelt(as)
<1>1. xs \in [1..n -> Elem]
  BY DEF Spelt, Arg
<1> HIDE DEF xs
<1>2. CASE Answer(Err)
  BY <1>2, AnswerOutcome
<1>3. CASE Crash
  BY <1>3, CrashOutcome
<1>4. CASE /\ ~WrongType(k, "deque") /\ ListOf(k).len + Len(as) <= MaxList
           /\ PutList(k, RPushAll(ListOf(k), xs), BasicRPushAll(BasicOf(k), xs))
  <2>1. PICK l \in 0..MaxList : Agree(ListOf(k), BasicOf(k), l)
    BY <1>4, ListAt
  <2>2. ListOf(k).len = l
    BY <2>1, AgreeLen
  <2>3. Len(as) = n
    OBVIOUS
  <2>4. l + n \in 0..MaxList
    BY <1>4, <2>2, <2>3, ListAssumption
  <2> DEFINE q == RPushAll(ListOf(k), xs)
             b == BasicRPushAll(BasicOf(k), xs)
  <2>5. Agree(q, b, l + n)
    BY <1>1, <2>1, RPushesAgree
  <2>6. PutList(k, q, b)
    BY <1>4
  <2> HIDE DEF q, b
  <2> QED BY <2>4, <2>5, <2>6, PutListOutcome
<1> QED BY <1>2, <1>3, <1>4 DEF RPUSH, RPushAll, BasicRPushAll, xs

LEMMA LPopOutcome ==
  ASSUME DataInv, NEW k \in Key, NEW count \in {NaN, -1, 0, 1, 2}, LPOP(k, count)
  PROVE  Outcome(k)
<1> DEFINE n == Min({count, Val(k).len})
           times == [i \in 1..n |-> i]
<1>1. CASE Answer(Err) \/ Answer(OK)
  BY <1>1, AnswerOutcome
<1>3. CASE Crash
  BY <1>3, CrashOutcome
<1>2. CASE /\ count \in Positive /\ Holds(k, "deque") /\ ~GapHead(Val(k))
           /\ PutList(k, LPopAll(Val(k), times), BasicLPopAll(ghost[k], times))
  <2> DEFINE q == Val(k)
             b == ghost[k]
             len == q.len
  <2>1. len \in 0..MaxList /\ Agree(q, b, len) /\ ~GapHead(q)
    BY <1>2, ListHeld
  <2>2. count \in 1..2
    <3>1. count \in Nat /\ count # 0
      BY <1>2 DEF Positive
    <3> QED BY <3>1, NaNAssumption
  <2>3. n \in 0..2 /\ n <= len
    <3> HIDE DEF q, len
    <3>1. count <= len \/ len <= count
      BY <2>1, <2>2
    <3>2. \E m \in {count, len} : \A y \in {count, len} : m <= y
      BY <2>1, <2>2, <3>1
    <3>3. Min({count, len}) \in {count, len} /\ \A y \in {count, len} : Min({count, len}) <= y
      BY <3>2 DEF Min
    <3>4. n = Min({count, len})
      BY DEF len, q
    <3> HIDE DEF n
    <3> QED BY <2>1, <2>2, <3>3, <3>4
  <2>4. DOMAIN times = 1..n
    OBVIOUS
  <2>5. PutList(k, LPopAll(q, times), BasicLPopAll(b, times))
    BY <1>2
  <2> DEFINE r == LPopAll(q, times)
             t == BasicLPopAll(b, times)
  <2> HIDE DEF n, q, b, len, times
  <2>6. Agree(r, t, len - n)
    <3>1. CASE n = 0
      <4>1. r = q /\ t = b
        BY <2>3, <2>4, <3>1, LPopFew, BasicLPopFew
      <4> QED BY <2>1, <3>1, <4>1
    <3>2. CASE n = 1
      <4>1. r = LPop(q) /\ t = BasicLPop(b)
        BY <2>3, <2>4, <3>2, LPopFew, BasicLPopFew
      <4>2. len # 0
        BY <2>1, <2>3, <3>2
      <4> QED BY <2>1, <3>2, <4>1, <4>2, AgreeLPop
    <3>3. CASE n = 2
      <4>1. r = LPop(LPop(q)) /\ t = BasicLPop(BasicLPop(b))
        BY <2>3, <2>4, <3>3, LPopFew, BasicLPopFew
      <4> DEFINE l == len - 1
      <4>2. len # 0 /\ l # 0 /\ l - 1 = len - n
        BY <2>1, <2>3, <3>3
      <4>3. Agree(LPop(q), BasicLPop(b), l) /\ ~GapHead(LPop(q))
        BY <2>1, <4>2, AgreeLPop
      <4> HIDE DEF l, r, t
      <4>4. Agree(LPop(LPop(q)), BasicLPop(BasicLPop(b)), l - 1)
        BY <4>2, <4>3, AgreeLPop
      <4> QED BY <4>1, <4>2, <4>4
    <3> QED BY <2>3, <3>1, <3>2, <3>3
  <2>7. len - n \in 0..MaxList
    BY <2>1, <2>3, ListAssumption
  <2> HIDE DEF r, t
  <2>8. PutList(k, r, t)
    BY <2>5 DEF r, t
  <2> QED BY <2>6, <2>7, <2>8, PutListOutcome
<1> QED BY <1>1, <1>2, <1>3 DEF LPOP, LPopAll, BasicLPopAll

LEMMA RPopOutcome ==
  ASSUME DataInv, NEW k \in Key, RPOP(k)
  PROVE  Outcome(k)
<1>1. CASE Answer(Err) \/ Answer(OK)
  BY <1>1, AnswerOutcome
<1>2. CASE Holds(k, "deque") /\ Val(k).len > 0 /\ PutList(k, RPop(Val(k)), BasicRPop(ghost[k]))
  <2> DEFINE q == Val(k)
             len == q.len
  <2>1. len \in 0..MaxList /\ Agree(q, ghost[k], len)
    BY <1>2, ListHeld
  <2>2. len > 0 /\ PutList(k, RPop(q), BasicRPop(ghost[k]))
    BY <1>2
  <2> HIDE DEF q, len
  <2>3. len - 1 \in 0..MaxList /\ len # 0
    BY <2>1, <2>2, ListAssumption
  <2>4. Agree(RPop(q), BasicRPop(ghost[k]), len - 1)
    BY <2>1, <2>3, AgreeRPop
  <2> QED BY <2>2, <2>3, <2>4, PutListOutcome
<1> QED BY <1>1, <1>2 DEF RPOP

LEMMA LInsertOutcome ==
  ASSUME DataInv, NEW k \in Key, NEW where, NEW p \in Arg, NEW a \in Arg, LINSERT(k, where, p, a)
  PROVE  Outcome(k)
<1> DEFINE pivot == p.elem
           x == a.elem
<1>3. pivot \in Elem /\ x \in Elem
  BY DEF Arg
<1> HIDE DEF pivot, x
<1>4. CASE Crash
  BY <1>4, CrashOutcome
<1>1. CASE Answer(Err) \/ Answer(OK)
  BY <1>1, AnswerOutcome
<1>2. CASE /\ Holds(k, "deque") /\ Val(k).len > 0 /\ Val(k).len < MaxList
           /\ where \in {"before", "after"} /\ ~GapHead(Val(k))
           /\ PutList(k, LInsert(Val(k), pivot, x, where), BasicLInsert(ghost[k], pivot, x, where))
  <2> DEFINE q == Val(k)
             len == q.len
             r == LInsert(q, pivot, x, where)
             t == BasicLInsert(ghost[k], pivot, x, where)
  <2>1. len \in 0..MaxList /\ Agree(q, ghost[k], len) /\ ~GapHead(q)
    BY <1>2, ListHeld
  <2>2. len > 0 /\ len < MaxList /\ PutList(k, r, t)
    BY <1>2
  <2> HIDE DEF q, len
  <2>3. Agree(r, t, len) \/ Agree(r, t, len + 1)
    BY <1>2, <1>3, <2>1, AgreeLInsert
  <2>4. len + 1 \in 0..MaxList
    BY <2>1, <2>2, ListAssumption
  <2> HIDE DEF r, t
  <2> QED BY <2>1, <2>2, <2>3, <2>4, PutListOutcome
<1> QED BY <1>1, <1>2, <1>4 DEF LINSERT, LInsertPanics, pivot, x

LEMMA ListStep ==
  ASSUME DataInv, NEW k \in Key, ListNext(k)
  PROVE  Outcome(k)
<1>1. CASE \E a, b \in Arg : LPUSH(k, <<a>>) \/ RPUSH(k, <<a, b>>)
  <2>1. PICK a, b \in Arg : LPUSH(k, <<a>>) \/ RPUSH(k, <<a, b>>)
    BY <1>1
  <2>2. <<a>> \in [1..1 -> Arg] /\ <<a, b>> \in [1..2 -> Arg] /\ 1 \in Nat /\ 2 \in Nat
    OBVIOUS
  <2>3. CASE LPUSH(k, <<a>>)
    <3> DEFINE n == 1
               as == <<a>>
    <3>1. n \in Nat /\ as \in [1..n -> Arg] /\ LPUSH(k, as)
      BY <2>2, <2>3
    <3> HIDE DEF n, as
    <3> QED BY <3>1, LPushOutcome
  <2>4. CASE RPUSH(k, <<a, b>>)
    <3> DEFINE n == 2
               as == <<a, b>>
    <3>1. n \in Nat /\ as \in [1..n -> Arg] /\ RPUSH(k, as)
      BY <2>2, <2>4
    <3> HIDE DEF n, as
    <3> QED BY <3>1, RPushOutcome
  <2> QED BY <2>1, <2>3, <2>4
<1>2. CASE \E count \in {NaN, -1, 0, 1, 2} : LPOP(k, count)
  BY <1>2, LPopOutcome
<1>3. CASE RPOP(k)
  BY <1>3, RPopOutcome
<1>4. CASE \E where \in {"before", "after", "beside"}, pivot, a \in Arg : LINSERT(k, where, pivot, a)
  BY <1>4, LInsertOutcome
<1>5. CASE Crash
  BY <1>5, CrashOutcome
<1> QED BY <1>1, <1>2, <1>3, <1>4, <1>5 DEF ListNext

-----------------------------------------------------------------------------
(* COPY, DUMP and RESTORE *)

LEMMA CopyStep ==
  ASSUME DataInv, NEW src \in Key, NEW dst \in Key, NEW replace, COPY(src, dst, replace)
  PROVE  Outcome(dst)
<1>1. Cell(DeepCopy(store[src]), Nil)
  <2>1. CASE store[src].type = "string"
    <3>1. store[src] = Obj("string", store[src].val)
      BY <2>1 DEF DataInv, Cell, Shape
    <3>2. Cell(Obj("string", store[src].val), Nil)
      BY PlainObj DEF Plain
    <3> QED BY <2>1, <3>1, <3>2 DEF DeepCopy
  <2>2. CASE store[src].type # "string"
    BY <2>2, NoObjCell DEF DeepCopy
  <2> QED BY <2>1, <2>2
<1> QED BY <1>1, AnswerOutcome, WriteOutcome DEF COPY

\* RESTORE makes what DUMP was given, as far as the invariant goes.
LEMMA RestoredCell ==
  ASSUME NEW o, NEW g, Cell(o, g), o.type \in Dumpable
  PROVE  Cell(Restored(o), g)
<1> DEFINE v == o.val
<1>1. CASE o.type \in {"string", "set"}
  <2>1. Restored(o) = Obj(o.type, v)
    BY <1>1 DEF Restored
  <2>2. o.type \in Plain
    BY <1>1 DEF Plain
  <2> QED BY <2>1, <2>2, PlainObj
<1>2. CASE o.type = "deque"
  <2> DEFINE q == DeserializeDeque(SerializeDeque(v))
  <2>1. Restored(o) = Obj("deque", q)
    BY <1>2 DEF Restored
  <2>2. PICK n \in 0..MaxList : Agree(v, g, n)
    BY <1>2 DEF Cell, ListCell, IsList
  <2>3. Agree(q, g, n)
    <3> HIDE DEF v
    <3> QED BY <2>2, AgreeRestored
  <2>5. IsList(q, g)
    BY <2>3 DEF IsList
  <2>4. "deque" \in Types
    BY DEF Types
  <2> HIDE DEF q
  <2> QED BY <2>1, <2>4, <2>5, CellOf
<1>3. CASE o.type = "bf"
  <2> DEFINE b == DeserializeBloom(SerializeBloom(v))
  <2>1. Restored(o) = Obj("bf", b)
    BY <1>3 DEF Restored
  <2>2. IsFilter(v, g)
    BY <1>3 DEF Cell, FilterCell
  <2>3. b = v
    <3>1. v = [bits |-> v.bits, seeds |-> v.seeds, bitset |-> v.bitset, cnt |-> v.cnt]
      BY <2>2 DEF IsFilter
    <3>2. b = [cnt |-> v.cnt, bits |-> v.bits, seeds |-> v.seeds, bitset |-> v.bitset]
      BY DEF SerializeBloom, DeserializeBloom
    <3> HIDE DEF b, v
    <3> QED BY <3>1, <3>2
  <2> HIDE DEF b
  <2> QED BY <2>1, <2>2, <2>3, FilterObj
<1>4. CASE o.type = "cms"
  <2> DEFINE c == DeserializeCMS(serializeCMS(v))
  <2>1. Restored(o) = Obj("cms", c)
    BY <1>4 DEF Restored
  <2>2. IsSketch(v, g)
    BY <1>4 DEF Cell, SketchCell
  <2>3. c = v
    <3>1. v = [depth |-> v.depth, width |-> v.width, count |-> v.count, matrix |-> v.matrix]
      <4>1. PICK u : SketchParts(v, u, g)
        BY <2>2, SketchIs
      <4> QED BY <4>1 DEF SketchParts, Reduced
    <3>2. c = [depth |-> v.depth, width |-> v.width, count |-> v.count, matrix |-> v.matrix]
      BY DEF serializeCMS, DeserializeCMS
    <3> HIDE DEF c, v
    <3> QED BY <3>1, <3>2
  <2> HIDE DEF c
  <2> QED BY <2>1, <2>2, <2>3, SketchObj
<1>5. CASE o.type = "zset"
  <2>1. Restored(o) = Obj("zset", DeserializeSet(SerializeSet(v)))
    BY <1>5 DEF Restored
  <2>2. v \in AnySets
    BY <1>5 DEF Cell, TreeCell
  <2>3. v.memberMap \in FloatMaps
    BY <2>2, AnyMap
  <2>4. DeserializeSet(SerializeSet(v)) \in AnySets
    BY <2>3, DeserializeLoop DEF SerializeSet
  <2> QED BY <2>1, <2>4, ZSetObj
<1> QED BY <1>1, <1>2, <1>3, <1>4, <1>5 DEF Dumpable

LEMMA RestoreStep ==
  ASSUME DataInv, NEW src \in Key, NEW dst \in Key, DUMPRESTORE(src, dst)
  PROVE  Outcome(dst)
<1>1. Cell(store[src], ghost[src])
  BY DEF DataInv
<1>2. Exists(src) /\ store[src].type \in Dumpable => Cell(Restored(store[src]), ghost[src])
  BY <1>1, RestoredCell
<1> QED BY <1>2, AnswerOutcome, WriteOutcome DEF DUMPRESTORE

-----------------------------------------------------------------------------
(* The theorems *)

LEMMA InitInv ==
  ASSUME Init
  PROVE  DataInv
<1>1. store = [k \in Key |-> NoObj] /\ ghost = [k \in Key |-> Nil] /\ reply = OK
  BY DEF Init, TypedInit
<1>2. \A k \in Key : Cell(store[k], ghost[k])
  BY <1>1, NoObjCell
<1> QED BY <1>1, <1>2 DEF DataInv

\* Every step does to one key what a command may do.
LEMMA NextOutcome ==
  ASSUME DataInv, Next
  PROVE  \E k \in Key : Outcome(k)
<1>1. PICK k \in Key :
        \/ ListNext(k) \/ SketchNext(k) \/ SortedSetNext(k) \/ HashNext(k) \/ SetNext(k) \/ HLLNext(k)
        \/ SETString(k) \/ DEL(k)
        \/ (\E j \in Key : DUMPRESTORE(j, k))
        \/ \E j \in Key, replace \in BOOLEAN : COPY(j, k, replace)
  BY DEF Next
<1>2. CASE ListNext(k) \/ SketchNext(k) \/ SortedSetNext(k)
  BY <1>2, ListStep, SketchStep, SortedSetStep
<1>3. CASE HashNext(k) \/ SetNext(k) \/ HLLNext(k)
  BY <1>3, HashStep, SetStep, HLLStep
<1>4. CASE SETString(k) \/ DEL(k)
  BY <1>4, StringStep, DelStep
<1>5. CASE \E j \in Key : DUMPRESTORE(j, k)
  BY <1>5, RestoreStep
<1>6. CASE \E j \in Key, replace \in BOOLEAN : COPY(j, k, replace)
  BY <1>6, CopyStep
<1> QED BY <1>1, <1>2, <1>3, <1>4, <1>5, <1>6

LEMMA NextInv ==
  ASSUME DataInv, [Next]_vars
  PROVE  DataInv'
<1>1. CASE Next
  BY <1>1, NextOutcome, OutcomeSafe DEF Safe
<1>2. CASE UNCHANGED vars
  BY <1>2 DEF vars, DataInv
<1> QED BY <1>1, <1>2

\* The invariant the others follow from: every key's object, with what its
\* commands were told, is as its type demands.
THEOREM SpecInv == Spec => []DataInv
<1>1. Init => DataInv
  BY InitInv
<1>2. DataInv /\ [Next]_vars => DataInv'
  BY NextInv
<1> QED BY <1>1, <1>2, PTL DEF Spec

\* Every key is empty, or holds an object of one of the types: a list no
\* longer than its bound, a filter whose bits are within its size.
THEOREM TypeCorrect == Spec => []TypeOK
<1>1. DataInv => TypeOK
  <2> SUFFICES ASSUME DataInv PROVE TypeOK
    OBVIOUS
  <2>1. ASSUME NEW k \in Key
        PROVE  \/ store[k] = NoObj /\ ghost[k] = Nil
               \/ /\ store[k].type \in Types
                  /\ store[k].type = "deque" => Val(k).len \in 0..MaxList
                  /\ store[k].type = "cms" => Val(k).count \in 0..(UintMod - 1) /\ DOMAIN ghost[k] = Item
                  /\ store[k].type = "bf" => Val(k).bitset \subseteq 0..(Val(k).bits - 1)
                  /\ store[k].type = "ssmap" => DOMAIN Val(k) \subseteq Field
    <3>1. Cell(store[k], ghost[k])
      BY DEF DataInv
    <3>2. store[k].type = "none" => store[k] = NoObj /\ ghost[k] = Nil
      BY <3>1 DEF Cell, Shape
    <3>3. store[k].type \in Types \cup {"none"}
      BY <3>1 DEF Cell, Shape
    <3>4. store[k].type = "deque" => Val(k).len \in 0..MaxList
      <4>1. ASSUME NEW q, NEW g, IsList(q, g) PROVE q.len \in 0..MaxList
        BY <4>1, AgreeLen DEF IsList
      <4> QED BY <3>1, <4>1 DEF Cell, ListCell, Val
    <3>5. store[k].type = "cms" => Val(k).count \in 0..(UintMod - 1) /\ DOMAIN ghost[k] = Item
      <4>1. ASSUME NEW c, NEW g, IsSketch(c, g) PROVE c.count \in 0..(UintMod - 1) /\ DOMAIN g = Item
        <5>1. PICK u : SketchParts(c, u, g)
          BY <4>1, SketchIs
        <5> QED BY <5>1 DEF SketchParts, IsExact
      <4> QED BY <3>1, <4>1 DEF Cell, SketchCell, Val
    <3>6. store[k].type = "bf" => Val(k).bitset \subseteq 0..(Val(k).bits - 1)
      BY <3>1 DEF Cell, FilterCell, IsFilter, Val
    <3>7. store[k].type = "ssmap" => DOMAIN Val(k) \subseteq Field
      BY <3>1 DEF Cell, HashCell, IsHash, FieldMap, Val
    <3> QED BY <3>2, <3>3, <3>4, <3>5, <3>6, <3>7
  <2>2. reply \in {OK, Err, Panicked}
    BY DEF DataInv
  <2> QED BY <2>1, <2>2 DEF TypeOK
<1> QED BY <1>1, SpecInv, PTL

\* A Bloom filter never denies an item it was given, whatever its size, its
\* hashes and the seeds it drew, and counts at most one element for each.
THEOREM FilterCorrect == Spec => []NoFalseNegatives
<1>1. DataInv => NoFalseNegatives
  <2> SUFFICES ASSUME DataInv, NEW k \in Key, Holds(k, "bf")
               PROVE  /\ \A item \in ghost[k] : BFEXISTS(k, item) = TRUE
                      /\ BFINFO(k)[3] <= Cardinality(ghost[k])
    BY DEF NoFalseNegatives
  <2> DEFINE b == Val(k)
             added == ghost[k]
  <2>1. IsFilter(b, added) /\ Exists(k)
    BY DEF DataInv, Cell, FilterCell, Holds, Val
  <2> HIDE DEF b, added
  <2>2. /\ added \subseteq NonEmpty /\ b.cnt <= Cardinality(added)
        /\ \A item \in added : Range(updateIndexes(b, item)) \subseteq b.bitset
    BY <2>1 DEF IsFilter
  <2>3. ASSUME NEW item \in added PROVE BFEXISTS(k, item) = TRUE
    <3>1. item # ""
      BY <2>2 DEF NonEmpty
    <3>2. BFEXISTS(k, item) = exists(b, item)
      BY <2>1, <3>1 DEF BFEXISTS, b
    <3>3. exists(b, item) = TRUE
      BY <2>2 DEF exists
    <3> QED BY <3>2, <3>3
  <2>4. BFINFO(k)[3] = b.cnt
    BY DEF BFINFO, b
  <2> QED BY <2>2, <2>3, <2>4 DEF added
<1> QED BY <1>1, SpecInv, PTL

\* The tree of a sorted set holds what its map holds, whatever sequence of
\* additions, changed scores, removals, pops and restores came before, with
\* infinite scores among them, until a NaN is stored.
THEOREM TreeCorrect == Spec => []TreeMatchesMap
<1>1. DataInv => TreeMatchesMap
  <2> SUFFICES ASSUME DataInv, NEW k \in Key, Holds(k, "zset"), ~Val(k).nan
               PROVE  Val(k).tree = {<<Val(k).memberMap[m], m>> : m \in DOMAIN Val(k).memberMap}
    BY DEF TreeMatchesMap
  <2>1. Val(k) \in AnySets
    BY DEF DataInv, Cell, TreeCell, Holds, Val
  <2>2. Val(k) \in CappedSets
    BY <2>1, NaNFields DEF AnySets
  <2>3. Val(k).tree = TreeOf(Val(k).memberMap)
    BY <2>2, ZSetFields
  <2> QED BY <2>3 DEF TreeOf
<1> QED BY <1>1, SpecInv, PTL

\* A field that was set and then only incremented, by HINCRBY at the ends of
\* int64 too, or by HINCRBYFLOAT within what a float64 holds exactly, has the
\* sum of what it was told.
THEOREM CountersCorrect == Spec => []CountersExact
<1>1. DataInv => CountersExact
  <2> SUFFICES ASSUME DataInv, NEW k \in Key, Holds(k, "ssmap"), NEW f \in DOMAIN ghost[k].exact
               PROVE  <<f, ghost[k].exact[f]>> \in EvalHGETALL(k)
    BY DEF CountersExact
  <2>1. IsHash(Val(k), ghost[k]) /\ Exists(k)
    BY DEF DataInv, Cell, HashCell, Holds, Val
  <2>2. Known(Val(k), ghost[k].exact)
    BY <2>1 DEF IsHash
  <2>3. f \in DOMAIN Val(k) /\ ghost[k].exact[f] = Val(k)[f]
    BY <2>2 DEF Known
  <2>4. EvalHGETALL(k) = {<<x, Val(k)[x]>> : x \in DOMAIN Val(k)}
    BY <2>1 DEF EvalHGETALL, HashRead
  <2> QED BY <2>3, <2>4
<1> QED BY <1>1, SpecInv, PTL

\* A scan that came to its end has returned every matching field that was
\* there all along, unless a field it had passed was deleted.
THEOREM ScanCorrect == Spec => []ScanComplete
<1>1. DataInv => ScanComplete
  <2> SUFFICES ASSUME DataInv, NEW k \in Key, Holds(k, "ssmap"),
                      ghost[k].scan.cursor = 0, ghost[k].scan.clean
               PROVE  ghost[k].scan.must \subseteq ghost[k].scan.seen
    BY DEF ScanComplete
  <2>1. IsHash(Val(k), ghost[k])
    BY DEF DataInv, Cell, HashCell, Holds, Val
  <2>2. ScanState(Val(k), ghost[k].scan)
    BY <2>1 DEF IsHash
  <2> QED BY <2>2 DEF ScanState
<1> QED BY <1>1, SpecInv, PTL

\* A sketch of any size, under any hashes, never answers less than the true
\* count of an item while the true counts add up to a uint64; every row of
\* it, and the count it tells, is always their sum modulo 2^64.
THEOREM SketchCorrect == Spec => []SketchCounts
<1>1. DataInv => SketchCounts
  <2> SUFFICES ASSUME DataInv, NEW k \in Key, Holds(k, "cms")
               PROVE  /\ SumFunction(ghost[k]) < UintMod =>
                           \A item \in Item : CMSQUERY(k, item) >= ghost[k][item]
                      /\ \A row \in DOMAIN Val(k).matrix :
                           SumFunction(Val(k).matrix[row]) % UintMod = SumFunction(ghost[k]) % UintMod
                      /\ CMSINFO(k)[3] = SumFunction(ghost[k]) % UintMod
    BY DEF SketchCounts
  <2> DEFINE c == Val(k)
             g == ghost[k]
             rows == 0..(c.depth - 1)
             cols == 0..(c.width - 1)
             total == SumFunction(g)
  <2>1. IsSketch(c, g)
    BY DEF DataInv, Cell, SketchCell, Holds, Val
  <2>2. CMSINFO(k)[3] = c.count
    BY DEF CMSINFO
  <2>3. \A item \in Item : CMSQUERY(k, item) = estimateCount(c, item)
    BY DEF CMSQUERY
  <2> HIDE DEF c, g
  <2>4. PICK u : SketchParts(c, u, g)
    BY <2>1, SketchIs
  <2>5. /\ c.depth \in Nat \ {0} /\ c.width \in Nat \ {0} /\ c.depth = u.depth /\ c.width = u.width
        /\ c.matrix \in [rows -> [cols -> Nat]] /\ u.matrix \in [rows -> [cols -> Nat]]
        /\ c.count = u.count % UintMod /\ u.count \in Nat /\ g \in [Item -> Nat]
        /\ c.matrix = [row \in rows |-> [col \in cols |-> u.matrix[row][col] % UintMod]]
    BY <2>4 DEF SketchParts, Reduced, IsExact
  <2>6. /\ total = u.count
        /\ \A row \in rows, item \in Item : u.matrix[row][matrixPositions(u, item)[row]] >= g[item]
        /\ \A row \in rows : SumFunction(u.matrix[row]) = total
    BY <2>4, <2>5 DEF SketchParts, IsExact
  <2>7. \A item : matrixPositions(u, item) = matrixPositions(c, item)
    BY <2>5 DEF matrixPositions
  <2>8. IsFiniteSet(cols)
    BY <2>5, ColumnsFinite
  <2> HIDE DEF total, rows, cols
  <2>9. ASSUME NEW row \in rows PROVE SumFunction(c.matrix[row]) % UintMod = total % UintMod
    <3>1. c.matrix[row] \in [cols -> Nat] /\ u.matrix[row] \in [cols -> Nat]
      BY <2>5
    <3>2. Wraps(c.matrix[row], u.matrix[row], cols)
      BY <2>5 DEF Wraps
    <3>3. SumFunction(c.matrix[row]) % UintMod = SumFunction(u.matrix[row]) % UintMod
      BY <2>8, <3>1, <3>2, SumWraps
    <3> QED BY <2>6, <3>3
  <2>10. ASSUME total < UintMod, NEW item \in Item, NEW row \in rows
         PROVE  /\ c.matrix[row][matrixPositions(c, item)[row]] \in Nat
                /\ c.matrix[row][matrixPositions(c, item)[row]] >= g[item]
    <3> DEFINE col == matrixPositions(c, item)[row]
               y == u.matrix[row][col]
    <3>1. col \in cols
      BY <2>5, PositionIn DEF rows, cols
    <3> HIDE DEF col
    <3>2. u.matrix[row] \in [cols -> Nat] /\ y \in Nat
      BY <2>5, <3>1
    <3>3. total >= y
      <4>1. SumFunction(u.matrix[row]) >= u.matrix[row][col]
        BY <2>8, <3>1, <3>2, SumGeq
      <4> QED BY <2>6, <4>1
    <3>4. c.matrix[row][col] = y % UintMod
      BY <2>5, <3>1
    <3>5. y >= g[item]
      BY <2>6, <2>7 DEF col
    <3> HIDE DEF y
    <3>6. total \in Nat
      BY <2>5, <2>6
    <3>7. y % UintMod = y
      BY <2>10, <3>2, <3>3, <3>6, UintIs
    <3> QED BY <3>2, <3>4, <3>5, <3>7 DEF col
  <2>11. DOMAIN c.matrix = rows
    BY <2>5
  <2>12. ASSUME total < UintMod, NEW item \in Item PROVE estimateCount(c, item) >= g[item]
    <3> DEFINE S == {c.matrix[row][matrixPositions(c, item)[row]] : row \in rows}
    <3>1. estimateCount(c, item) = Min(S)
      BY <2>11 DEF estimateCount
    <3>2. S \subseteq Nat /\ S # {} /\ \A x \in S : x >= g[item]
      <4>1. 0 \in rows
        BY <2>5 DEF rows
      <4> QED BY <2>10, <2>12, <4>1
    <3> HIDE DEF S
    <3>3. Min(S) \in S
      BY <3>2, MinIs
    <3> QED BY <3>1, <3>2, <3>3
  <2> QED BY <2>2, <2>3, <2>5, <2>6, <2>9, <2>11, <2>12 DEF c, g, total
<1> QED BY <1>1, SpecInv, PTL

\* A list and its flat deque hold the same elements.
LEMMA ListElems ==
  ASSUME DataInv, NEW k \in Key, Holds(k, "deque")
  PROVE  \E xs : HoldsElems(Val(k), xs) /\ IsBasic(ghost[k], xs)
<1>1. IsList(store[k].val, ghost[k])
  BY DEF DataInv, Cell, ListCell, Holds
<1>2. PICK n \in 0..MaxList : Agree(Val(k), ghost[k], n)
  BY <1>1 DEF IsList, Val
<1> QED BY <1>2 DEF Agree

\* Nothing lies between an index and a smaller one.
LEMMA SubSeqNone ==
  ASSUME NEW s, NEW a \in Int, NEW b \in Int, b < a
  PROVE  SubSeq(s, a, b) = <<>>
OBVIOUS

\* The indexes that are looked for.
LEMMA IndexesAre ==
  ASSUME NEW n \in Nat, NEW i \in Int
  PROVE  sanitizeStartIndex(n, i) \in Int /\ sanitizeStopIndex(n, i) \in Int
BY DEF sanitizeStartIndex, sanitizeStopIndex

\* LRANGE answers as on the flat deque, for every pair of indexes, unless
\* the first node is all gap.
LEMMA RangesAgree ==
  ASSUME DataInv, NEW k \in Key, Holds(k, "deque"), NEW start \in Int, NEW stop \in Int
  PROVE  \/ LRANGE(k, start, stop) = BasicLRange(ghost[k], start, stop)
         \/ GapHead(Val(k)) /\ LRANGE(k, start, stop) = Panicked
<1> DEFINE q == Val(k)
           g == ghost[k]
           from == sanitizeStartIndex(q.len, start)
           to == sanitizeStopIndex(q.len, stop)
<1>1. PICK xs : HoldsElems(q, xs) /\ IsBasic(g, xs)
  BY ListElems
<1>2. start # NaN /\ stop # NaN
  BY NaNAssumption
<1>3. Exists(k) /\ ~WrongType(k, "deque")
  BY DEF Holds, WrongType
<1>4. LRANGE(k, start, stop) = IF LRangePanics(q, start, stop) THEN Panicked ELSE LRange(q, start, stop)
  BY <1>2, <1>3 DEF LRANGE
<1> HIDE DEF q, g
<1>5. /\ q.len = Len(xs) /\ q.len \in Nat
      /\ ~GapHead(q) => Elems(q) = xs
  BY <1>1, HoldsType
<1>6. BasicElems(g) = xs
  BY <1>1, BasicElemsAre
<1>7. g.len = Len(xs)
  BY <1>1 DEF IsBasic
<1>8. CASE ~GapHead(q)
  <2>1. LRange(q, start, stop) = BasicLRange(g, start, stop)
    BY <1>5, <1>6, <1>7, <1>8 DEF LRange, BasicLRange
  <2> QED BY <1>4, <1>8, <2>1 DEF LRangePanics, g
<1>9. CASE GapHead(q) /\ from <= to
  BY <1>4, <1>9 DEF LRangePanics, q
<1>10. CASE GapHead(q) /\ ~(from <= to)
  <2>1. from \in Int /\ to \in Int
    BY <1>5, IndexesAre
  <2>2. LRange(q, start, stop) = SubSeq(Elems(q), from + 1, to + 1)
    BY DEF LRange
  <2>3. BasicLRange(g, start, stop) = SubSeq(xs, from + 1, to + 1)
    BY <1>5, <1>6, <1>7 DEF BasicLRange
  <2>4. ~LRangePanics(q, start, stop)
    BY <1>10 DEF LRangePanics
  <2> HIDE DEF from, to
  <2>5. from + 1 \in Int /\ to + 1 \in Int /\ to + 1 < from + 1
    BY <1>10, <2>1
  <2>6. SubSeq(Elems(q), from + 1, to + 1) = <<>> /\ SubSeq(xs, from + 1, to + 1) = <<>>
    BY <2>5, SubSeqNone
  <2> QED BY <1>4, <2>2, <2>3, <2>4, <2>6 DEF g
<1> QED BY <1>8, <1>9, <1>10

\* LRANGE and LLEN answer as on one flat sequence of elements, whatever
\* pushes, pops, insertions and restores came before, whatever the encodings
\* of the elements and the sizes of the nodes; a range does not answer where
\* the first node is all gap.
THEOREM ListsCorrect == Spec => []ListsAgree
<1>1. DataInv => ListsAgree
  <2> SUFFICES ASSUME DataInv, NEW k \in Key, Holds(k, "deque")
               PROVE  /\ LLEN(k) = ghost[k].len
                      /\ \A r \in ListRanges :
                           LRANGE(k, r[1], r[2]) \in {BasicLRange(ghost[k], r[1], r[2])}
                             \cup (IF GapHead(Val(k)) THEN {Panicked} ELSE {})
    BY DEF ListsAgree
  <2>1. PICK xs : HoldsElems(Val(k), xs) /\ IsBasic(ghost[k], xs)
    BY ListElems
  <2>2. LLEN(k) = Val(k).len
    BY DEF LLEN, Holds, WrongType
  <2>3. Val(k).len = Len(xs)
    BY <2>1, HoldsType
  <2>4. ghost[k].len = Len(xs)
    BY <2>1 DEF IsBasic
  <2>5. \A r \in ListRanges : r[1] \in Int /\ r[2] \in Int
    BY DEF ListRanges
  <2>6. ASSUME NEW r \in ListRanges
        PROVE  LRANGE(k, r[1], r[2]) \in {BasicLRange(ghost[k], r[1], r[2])}
                 \cup (IF GapHead(Val(k)) THEN {Panicked} ELSE {})
    <3>1. \/ LRANGE(k, r[1], r[2]) = BasicLRange(ghost[k], r[1], r[2])
          \/ GapHead(Val(k)) /\ LRANGE(k, r[1], r[2]) = Panicked
      BY <2>5, RangesAgree
    <3> QED BY <3>1
  <2> QED BY <2>2, <2>3, <2>4, <2>6
<1> QED BY <1>1, SpecInv, PTL

\* The nodes' buffers hold the encodings of the list's elements end to end,
\* behind the gap, with no entry split, lost or written twice, no empty node
\* and none longer than its capacity.
THEOREM LayoutCorrect == Spec => []DequeLayout
<1>1. DataInv => DequeLayout
  <2>1. ASSUME DataInv, NEW k \in Key, Holds(k, "deque")
        PROVE  \E xs : Stored(Val(k), xs) /\ ghost[k].buf = Bytes(xs)
    <3>1. PICK xs : HoldsElems(Val(k), xs) /\ IsBasic(ghost[k], xs)
      BY <2>1, ListElems
    <3>2. Stored(Val(k), xs)
      BY <3>1, HoldsStored
    <3>3. ghost[k].buf = Bytes(xs)
      BY <3>1 DEF IsBasic
    <3> QED BY <3>2, <3>3
  <2> QED BY <2>1 DEF DequeLayout, Stored
<1> QED BY <1>1, SpecInv, PTL

\* A command that answers an error leaves every list, set, string, sketch,
\* filter and score map as it was, and removes nothing from the others.
THEOREM ErrorsClean == Spec => ErrorIsClean
<1>1. DataInv /\ [Next]_vars =>
        [reply' = Err => \A k \in Key : store'[k] = store[k] \/ Residue(store[k], store'[k])]_vars
  BY NextOutcome, OutcomeSafe DEF Safe
<1> QED BY <1>1, SpecInv, PTL DEF ErrorIsClean, Spec

-----------------------------------------------------------------------------
(* Ranks: where the items of a score map are in its list *)

\* s lists the items of f, each one after those that come before it.
Listing(s, n, f) ==
  /\ n \in Nat /\ s \in [1..n -> Int \X Int]
  /\ \A i \in 1..n : s[i][2] \in DOMAIN f /\ s[i] = <<f[s[i][2]], s[i][2]>>
  /\ \A i, j \in 1..n : s[i][2] = s[j][2] => i = j
  /\ \A m \in DOMAIN f : /\ Cardinality(Before(f, m)) + 1 \in 1..n
                         /\ s[Cardinality(Before(f, m)) + 1] = <<f[m], m>>

\* The items of a score map, in ascending order, are such a list.
LEMMA Listed ==
  ASSUME NEW f \in Scores
  PROVE  Listing(Ascend(TreeOf(f)), Cardinality(DOMAIN f), f)
<1> DEFINE n == Cardinality(DOMAIN f)
           s == Ascend(TreeOf(f))
           T == TreeOf(f)
<1>1. /\ DOMAIN f \in SUBSET Member /\ IsFiniteSet(DOMAIN f) /\ f \in [DOMAIN f -> Int]
      /\ Member \subseteq Int
  BY ScoresDef, SortedSetAssumption
<1>2. T \in SUBSET Item2 /\ IsFiniteSet(T) /\ Cardinality(T) = n /\ n \in Nat
  BY TreeIsFinite
<1>3. /\ s \in [1..n -> T]
      /\ \A i, j \in 1..n : i < j => Less(s[i], s[j])
      /\ \A i, j \in 1..n : s[i] = s[j] => i = j
      /\ \A x \in T : \E i \in 1..n : s[i] = x
  BY <1>2, AscendSorts
<1>4. \A x \in T : x[2] \in DOMAIN f /\ x = <<f[x[2]], x[2]>> /\ x \in Int \X Int
  BY <1>1 DEF TreeOf
<1>5. \A m \in DOMAIN f : <<f[m], m>> \in T
  BY DEF TreeOf
<1>6. \A x, y \in T : <<x, y>> \in LessRel <=> Less(x, y)
  BY <1>2 DEF LessRel
<1>7. Orders(LessRel, T) /\ Increasing(s, n, LessRel)
  <2>1. Orders(LessRel, T)
    BY <1>2, LessOrders
  <2>2. ASSUME NEW i \in 1..n, NEW j \in 1..n, i < j PROVE <<s[i], s[j]>> \in LessRel
    <3>1. s[i] \in T /\ s[j] \in T /\ Less(s[i], s[j])
      BY <1>3, <2>2
    <3> HIDE DEF s, T
    <3> QED BY <1>6, <3>1
  <2> HIDE DEF s, n
  <2> QED BY <2>1, <2>2 DEF Increasing
<1> HIDE DEF s, T, n
<1>8. ASSUME NEW m \in DOMAIN f
      PROVE  /\ Cardinality(Before(f, m)) + 1 \in 1..n
             /\ s[Cardinality(Before(f, m)) + 1] = <<f[m], m>>
  <2>1. PICK i \in 1..n : s[i] = <<f[m], m>>
    BY <1>3, <1>5
  <2> DEFINE B == Before(f, m)
             L == Lower(s[i], T, LessRel)
             g == [x \in B |-> <<f[x], x>>]
  <2>2. Cardinality(L) = i - 1
    BY <1>2, <1>3, <1>7, IncreasingRank
  <2>3. L = {y \in T : Less(y, <<f[m], m>>)}
    <3>1. s[i] \in T
      BY <1>3
    <3> QED BY <1>6, <2>1, <3>1 DEF Lower
  <2>4. B = {x \in DOMAIN f : Less(<<f[x], x>>, <<f[m], m>>)}
    BY DEF Before
  <2>5. IsFiniteSet(B)
    BY <1>1, <2>4, FS_Subset
  <2> HIDE DEF L, B
  <2>6. g \in Bijection(B, L)
    <3>1. g \in [B -> L]
      BY <1>5, <2>3, <2>4
    <3>2. \A x, y \in B : g[x] = g[y] => x = y
      OBVIOUS
    <3>3. ASSUME NEW y \in L PROVE \E x \in B : g[x] = y
      <4>1. y[2] \in DOMAIN f /\ y = <<f[y[2]], y[2]>>
        BY <1>4, <2>3
      <4>2. y[2] \in B
        BY <2>3, <2>4, <4>1
      <4> QED BY <4>1, <4>2
    <3> HIDE DEF g
    <3> QED BY <3>1, <3>2, <3>3 DEF Bijection, Injection, Surjection, IsInjective
  <2>7. Cardinality(B) = Cardinality(L)
    <3> HIDE DEF g
    <3>1. ExistsBijection(B, L)
      BY <2>6 DEF ExistsBijection
    <3> QED BY <2>5, <3>1, FS_Bijection
  <2>8. Cardinality(B) + 1 = i
    BY <2>2, <2>7
  <2> QED BY <2>1, <2>8 DEF B
<1>9. \A i \in 1..n : s[i] \in T
  BY <1>3
<1>10. s \in [1..n -> Int \X Int]
  BY <1>3, <1>4
<1>11. \A i \in 1..n : s[i][2] \in DOMAIN f /\ s[i] = <<f[s[i][2]], s[i][2]>>
  BY <1>4, <1>9
<1>12. \A i, j \in 1..n : s[i][2] = s[j][2] => i = j
  BY <1>3, <1>11
<1>13. Listing(s, n, f)
  BY <1>2, <1>8, <1>10, <1>11, <1>12 DEF Listing
<1> QED BY <1>13 DEF s, T, n

\* A stretch of a list.
LEMMA SliceIs ==
  ASSUME NEW n \in Nat, NEW s \in [1..n -> Int \X Int], NEW a \in 1..n, NEW b \in a..n
  PROVE  /\ SubSeq(s, a, b) \in Seq(Int \X Int)
         /\ Len(SubSeq(s, a, b)) = b - a + 1 /\ DOMAIN SubSeq(s, a, b) = 1..(b - a + 1)
         /\ \A i \in 1..(b - a + 1) : SubSeq(s, a, b)[i] = s[a + i - 1]
<1> DEFINE S == Int \X Int
<1>1. \A i \in a..b : s[i] \in S
  <2>1. s \in [1..n -> S]
    OBVIOUS
  <2> HIDE DEF S
  <2> QED BY <2>1
<1>2. a \in Int /\ b \in Int /\ a <= b
  OBVIOUS
<1> HIDE DEF S
<1>3. /\ SubSeq(s, a, b) \in Seq(S)
      /\ Len(SubSeq(s, a, b)) = b - a + 1
      /\ \A i \in 1..(b - a + 1) : SubSeq(s, a, b)[i] = s[a + i - 1]
  <2>1. SubSeq(s, a, b) \in Seq(S)
    BY <1>1, <1>2, SubSeqProperties
  <2>2. Len(SubSeq(s, a, b)) = b - a + 1
    BY <1>1, <1>2, SubSeqProperties
  <2>3. \A i \in 1..(b - a + 1) : SubSeq(s, a, b)[i] = s[a + i - 1]
    BY <1>1, <1>2, SubSeqProperties
  <2> QED BY <2>1, <2>2, <2>3
<1>4. DOMAIN SubSeq(s, a, b) = 1..(b - a + 1)
  BY <1>3, LenProperties
<1> QED BY <1>3, <1>4 DEF S

\* A stretch of one item.
LEMMA SliceOfOne ==
  ASSUME NEW n \in Nat, NEW s \in [1..n -> Int \X Int], NEW a \in 1..n
  PROVE  SubSeq(s, a, a) = <<s[a]>>
<1>1. a \in a..n /\ a - a + 1 = 1 /\ a + 1 - 1 = a
  OBVIOUS
<1>2. /\ Len(SubSeq(s, a, a)) = 1 /\ SubSeq(s, a, a) \in Seq(Int \X Int)
      /\ SubSeq(s, a, a)[1] = s[a]
  BY <1>1, SliceIs
<1> DEFINE S == Int \X Int
           q == SubSeq(s, a, a)
<1>3. q \in Seq(S) /\ Len(q) = 1 /\ q[1] = s[a]
  BY <1>2
<1> HIDE DEF S, q
<1>4. q = <<s[a]>>
  BY <1>3
<1> QED BY <1>4 DEF q

\* A member's position in the list.
LEMMA PositionOf ==
  ASSUME NEW n, NEW s, NEW f, Listing(s, n, f), NEW m \in DOMAIN f
  PROVE  SelectInSeq(s, LAMBDA it : it[2] = m) = Cardinality(Before(f, m)) + 1
<1> DEFINE r == Cardinality(Before(f, m))
           I == {i \in 1..Len(s) : s[i][2] = m}
<1>1. /\ n \in Nat /\ s \in [1..n -> Int \X Int] /\ r + 1 \in 1..n /\ s[r + 1] = <<f[m], m>>
      /\ \A i, j \in 1..n : s[i][2] = s[j][2] => i = j
  BY DEF Listing
<1>2. Len(s) = n
  BY <1>1
<1> HIDE DEF r
<1>3. I = {r + 1}
  BY <1>1, <1>2
<1>4. SelectInSeq(s, LAMBDA it : it[2] = m) = IF I # {} THEN Min(I) ELSE 0
  BY DEF SelectInSeq
<1> HIDE DEF I
<1>5. Min({r + 1}) = r + 1
  BY <1>1 DEF Min
<1> QED BY <1>3, <1>4, <1>5 DEF r

\* No item is above a bound that no score exceeds.
LEMMA NoneAbove ==
  ASSUME NEW n, NEW s, NEW f, Listing(s, n, f), NEW bound \in Int, \A x \in DOMAIN f : f[x] <= bound
  PROVE  SelectInSeq(s, LAMBDA it : it[1] > bound) = 0
<1> DEFINE I == {i \in 1..Len(s) : s[i][1] > bound}
<1>1. /\ n \in Nat /\ s \in [1..n -> Int \X Int]
      /\ \A i \in 1..n : s[i][2] \in DOMAIN f /\ s[i] = <<f[s[i][2]], s[i][2]>>
  BY DEF Listing
<1>2. ASSUME NEW i \in 1..n PROVE ~(s[i][1] > bound)
  <2>1. s[i][1] <= bound /\ s[i][1] \in Int
    BY <1>1
  <2> QED BY <2>1
<1>3. Len(s) = n
  BY <1>1
<1>4. I = {}
  BY <1>2, <1>3
<1>5. SelectInSeq(s, LAMBDA it : it[1] > bound) = IF I # {} THEN Min(I) ELSE 0
  BY DEF SelectInSeq
<1> QED BY <1>4, <1>5

\* As many items have at least the score of m as members do.
LEMMA CountFrom ==
  ASSUME NEW f \in Scores, NEW n, NEW s, Listing(s, n, f), n = Cardinality(DOMAIN f), NEW low \in Int
  PROVE  Cardinality({i \in 1..n : s[i][1] >= low})
           = n - Cardinality({x \in DOMAIN f : f[x] < low})
<1> DEFINE P == {i \in 1..n : s[i][1] >= low}
           H == {x \in DOMAIN f : f[x] >= low}
           L == {x \in DOMAIN f : f[x] < low}
           g == [i \in P |-> s[i][2]]
<1>1. /\ n \in Nat /\ s \in [1..n -> Int \X Int]
      /\ \A i \in 1..n : s[i][2] \in DOMAIN f /\ s[i] = <<f[s[i][2]], s[i][2]>>
      /\ \A i, j \in 1..n : s[i][2] = s[j][2] => i = j
      /\ \A m \in DOMAIN f : \E i \in 1..n : s[i] = <<f[m], m>>
  BY DEF Listing
<1>2. IsFiniteSet(DOMAIN f) /\ \A x \in DOMAIN f : f[x] \in Int
  BY ScoresDef
<1>3. g \in Bijection(P, H)
  <2>1. g \in [P -> H]
    <3>1. ASSUME NEW i \in P PROVE s[i][2] \in H
      <4>1. s[i][2] \in DOMAIN f /\ s[i] = <<f[s[i][2]], s[i][2]>> /\ s[i][1] >= low
        BY <1>1
      <4>2. s[i][1] = f[s[i][2]]
        BY <4>1
      <4> QED BY <4>1, <4>2
    <3> HIDE DEF P, H
    <3> QED BY <3>1
  <2>2. \A i, j \in P : g[i] = g[j] => i = j
    BY <1>1
  <2>3. ASSUME NEW x \in H PROVE \E i \in P : g[i] = x
    <3>1. PICK i \in 1..n : s[i] = <<f[x], x>>
      BY <1>1
    <3>2. i \in P /\ s[i][2] = x
      BY <3>1
    <3> QED BY <3>2
  <2> HIDE DEF g, P, H
  <2> QED BY <2>1, <2>2, <2>3 DEF Bijection, Injection, Surjection, IsInjective
<1>4. Cardinality(P) = Cardinality(H)
  <2>1. IsFiniteSet(P)
    <3>1. IsFiniteSet(1..n) /\ P \in SUBSET (1..n)
      BY <1>1, FS_Interval
    <3> HIDE DEF P
    <3> QED BY <3>1, FS_Subset
  <2> HIDE DEF g, P, H
  <2>2. ExistsBijection(P, H)
    BY <1>3 DEF ExistsBijection
  <2> QED BY <2>1, <2>2, FS_Bijection
<1>5. H = DOMAIN f \ L /\ DOMAIN f \cap L = L
  BY <1>2
<1> HIDE DEF P, H, L
<1>6. Cardinality(H) = n - Cardinality(L)
  BY <1>2, <1>5, FS_Difference
<1> QED BY <1>4, <1>6 DEF P, L

\* Finitely many items are before any.
LEMMA BeforeNat ==
  ASSUME NEW f \in Scores, NEW m \in DOMAIN f
  PROVE  Cardinality(Before(f, m)) \in Nat
<1>1. IsFiniteSet(DOMAIN f) /\ Before(f, m) \in SUBSET DOMAIN f
  BY ScoresDef DEF Before
<1> QED BY <1>1, FS_Subset, FS_CardinalityType

\* The answers of the evaluators.
LEMMA TreeAnswers ==
  ASSUME NEW k \in Key, Holds(k, "zset"), NEW f \in CappedScores, Val(k) = ZSetOf(f), NEW m \in DOMAIN f
  PROVE  LET r == Cardinality(Before(f, m))
         IN /\ EvalZRANK(k, m) = r
            /\ EvalZRANGE(k, r, r, FALSE) = <<<<f[m], m>>>>
            /\ EvalZRANGE(k, -1 - r, -1 - r, TRUE) = <<<<f[m], m>>>>
            /\ EvalZCOUNT(k, f[m], Inf) =
                 EvalZCARD(k) - Cardinality({x \in DOMAIN f : f[x] < f[m]})
<1> DEFINE r == Cardinality(Before(f, m))
           s == Ascend(TreeOf(f))
           n == Cardinality(DOMAIN f)
           back == -1 - r
           low == f[m]
<1>1. /\ f \in Scores /\ n = Cardinality(TreeOf(f)) /\ low \in Int /\ Inf \in Int
      /\ \A x \in DOMAIN f : f[x] <= Inf
  BY ScoresDef, TreeIsFinite, SortedSetAssumption DEF CappedScores, Capped, Inf
<1>2. Listing(s, n, f)
  BY <1>1, Listed
<1>3. Exists(k) /\ Val(k).tree = TreeOf(f) /\ Val(k).memberMap = f
  BY DEF Holds, ZSetOf
<1>4. /\ n \in Nat /\ s \in [1..n -> Int \X Int] /\ r \in Nat /\ r + 1 \in 1..n
      /\ s[r + 1] = <<f[m], m>>
  BY <1>1, <1>2, BeforeNat DEF Listing
<1>5. Len(s) = n
  BY <1>4
<1>6. EvalZRANK(k, m) = r
  <2> DEFINE hit == SelectInSeq(s, LAMBDA it : it[2] = m)
  <2>1. hit = r + 1
    BY <1>2, PositionOf
  <2>2. RankWithScore(Val(k), m, FALSE) = IF hit = 0 THEN Len(s) ELSE hit - 1
    BY <1>3 DEF RankWithScore, Has
  <2>3. EvalZRANK(k, m) = RankWithScore(Val(k), m, FALSE)
    BY <1>3 DEF EvalZRANK
  <2> HIDE DEF r, s, n, hit
  <2>4. hit # 0 /\ hit - 1 = r
    BY <1>4, <2>1
  <2> QED BY <2>2, <2>3, <2>4
<1>7. EvalZRANGE(k, r, r, FALSE) = <<<<f[m], m>>>>
  <2>1. r # NaN
    BY <1>4, NaNAssumption
  <2>2. GetRange(Val(k), r, r, FALSE) = SubSeq(s, r + 1, r + 1)
    <3> HIDE DEF r, n
    <3> QED BY <1>1, <1>3, <1>4 DEF GetRange
  <2>3. EvalZRANGE(k, r, r, FALSE) = GetRange(Val(k), r, r, FALSE)
    BY <1>3, <2>1 DEF EvalZRANGE
  <2> HIDE DEF r, s, n
  <2> QED BY <1>4, <2>2, <2>3, SliceOfOne
<1>8. EvalZRANGE(k, back, back, TRUE) = <<<<f[m], m>>>>
  <2> DEFINE t == Reverse(s)
  <2>1. back # NaN /\ back \in Int /\ back < 0 /\ back + n = n - 1 - r
    <3> HIDE DEF r, n
    <3> QED BY <1>4, NaNAssumption
  <2>2. GetRange(Val(k), back, back, TRUE) = SubSeq(t, n - 1 - r + 1, n - 1 - r + 1)
    <3> DEFINE c == Cardinality(Val(k).tree)
               shift == IF back < 0 THEN back + c ELSE back
               from == IF shift < 0 THEN 0 ELSE shift
               to == IF shift >= c THEN c - 1 ELSE shift
    <3>1. GetRange(Val(k), back, back, TRUE) =
            IF from > to \/ from >= c THEN <<>> ELSE SubSeq(t, from + 1, to + 1)
      BY <1>3 DEF GetRange
    <3>2. c = n
      BY <1>1, <1>3
    <3> HIDE DEF r, n, back, t, c
    <3>3. shift = n - 1 - r /\ shift \in 0..(n - 1)
      BY <1>4, <2>1, <3>2
    <3> HIDE DEF shift
    <3>4. from = shift /\ to = shift /\ ~(from > to) /\ ~(from >= c)
      BY <1>4, <3>2, <3>3
    <3> QED BY <3>1, <3>3, <3>4
  <2>3. EvalZRANGE(k, back, back, TRUE) = GetRange(Val(k), back, back, TRUE)
    BY <1>3, <2>1 DEF EvalZRANGE
  <2> HIDE DEF r, s, n, back
  <2>4. t = [i \in 1..n |-> s[n - i + 1]]
    BY <1>5 DEF Reverse
  <2>5. n - 1 - r + 1 \in 1..n /\ n - (n - 1 - r + 1) + 1 = r + 1
    BY <1>4
  <2>6. t \in [1..n -> Int \X Int] /\ t[n - 1 - r + 1] = s[r + 1]
    <3>1. \A i \in 1..n : n - i + 1 \in 1..n
      BY <1>4
    <3>2. \A i \in 1..n : s[n - i + 1] \in Int \X Int
      BY <1>4, <3>1
    <3> QED BY <2>4, <2>5, <3>2
  <2> HIDE DEF t
  <2> DEFINE a == n - 1 - r + 1
  <2>7. a \in 1..n /\ t[a] = s[r + 1] /\ EvalZRANGE(k, back, back, TRUE) = SubSeq(t, a, a)
    BY <2>2, <2>3, <2>5, <2>6
  <2> HIDE DEF a
  <2>8. SubSeq(t, a, a) = <<t[a]>>
    BY <1>4, <2>6, <2>7, SliceOfOne
  <2> QED BY <1>4, <2>7, <2>8
<1>9. EvalZCOUNT(k, low, Inf) = EvalZCARD(k) - Cardinality({x \in DOMAIN f : f[x] < low})
  <2>1. low # NaN /\ Inf # NaN
    BY <1>1, NaNAssumption
  <2>2. EvalZCARD(k) = n
    BY <1>3 DEF EvalZCARD
  <2>3. EvalZCOUNT(k, low, Inf) = CountInRange(Val(k), low, Inf)
    BY <1>3, <2>1 DEF EvalZCOUNT
  <2>4. SelectInSeq(s, LAMBDA it : it[1] > Inf) = 0
    BY <1>1, <1>2, NoneAbove
  <2>5. CountInRange(Val(k), low, Inf) = Cardinality({i \in 1..n : s[i][1] >= low})
    <3> DEFINE over == SelectInSeq(s, LAMBDA it : it[1] > Inf)
               seen == IF over = 0 THEN Len(s) ELSE over - 1
    <3>1. CountInRange(Val(k), low, Inf) = Cardinality({i \in 1..seen : s[i][1] >= low})
      BY <1>3 DEF CountInRange
    <3>2. seen = n
      BY <1>5, <2>4
    <3> HIDE DEF seen
    <3> QED BY <3>1, <3>2
  <2> HIDE DEF low, s, n
  <2>6. n = Cardinality(DOMAIN f)
    BY DEF n
  <2>7. Cardinality({i \in 1..n : s[i][1] >= low}) = n - Cardinality({x \in DOMAIN f : f[x] < low})
    BY <1>1, <1>2, <2>6, CountFrom
  <2> QED BY <2>2, <2>3, <2>5, <2>7
<1> QED BY <1>6, <1>7, <1>8, <1>9

\* A rank appended to an item.
LEMMA PairAppend ==
  ASSUME NEW a, NEW b, NEW c
  PROVE  Append(<<a, b>>, c) = <<a, b, c>>
<1> DEFINE S == {a, b, c}
           p == <<a, b>>
           q == Append(p, c)
<1>1. p \in Seq(S) /\ Len(p) = 2 /\ p[1] = a /\ p[2] = b /\ c \in S
  OBVIOUS
<1> HIDE DEF p, S
<1>2. q \in Seq(S) /\ Len(q) = 3
  <2>1. Append(p, c) \in Seq(S)
    BY <1>1, AppendProperties
  <2>2. Len(Append(p, c)) = Len(p) + 1
    BY <1>1, AppendProperties
  <2> QED BY <1>1, <2>1, <2>2
<1>3. q[1] = a /\ q[2] = b
  <2>1. \A i \in 1..Len(p) : Append(p, c)[i] = p[i]
    BY <1>1, SMTT(30)
  <2>2. 1 \in 1..Len(p) /\ 2 \in 1..Len(p)
    BY <1>1
  <2> HIDE DEF q
  <2>3. \A i \in 1..Len(p) : q[i] = p[i]
    BY <2>1 DEF q
  <2> QED BY <1>1, <2>2, <2>3
<1>4. q[3] = c
  <2>1. Append(p, c)[Len(p) + 1] = c
    BY <1>1, SMTT(30)
  <2>2. Len(p) + 1 = 3
    BY <1>1
  <2> HIDE DEF q
  <2>3. q[Len(p) + 1] = c
    BY <2>1 DEF q
  <2> QED BY <2>2, <2>3
<1> HIDE DEF q
<1>5. q = <<a, b, c>>
  BY <1>2, <1>3, <1>4
<1> QED BY <1>5 DEF q, p

\* The rank the tree answers is the position.
LEMMA FindRankIs ==
  ASSUME NEW n, NEW f, Listing(Nodes(f), n, f), NEW m \in DOMAIN f
  PROVE  FindRank(f, m) = Cardinality(Before(f, m)) + 1
<1> DEFINE r == Cardinality(Before(f, m))
           s == Nodes(f)
           I == {i \in 1..Len(s) : s[i][2] = m}
<1>1. FindRank(f, m) = IF I # {} THEN Min(I) ELSE 0
  BY DEF FindRank, SelectInSeq
<1>2. /\ n \in Nat /\ s \in [1..n -> Int \X Int] /\ r + 1 \in 1..n /\ s[r + 1] = <<f[m], m>>
      /\ \A i, j \in 1..n : s[i][2] = s[j][2] => i = j
  BY DEF Listing
<1> HIDE DEF r, s
<1>3. Len(s) = n
  BY <1>2
<1>4. I = {r + 1}
  BY <1>2, <1>3
<1> HIDE DEF I
<1>5. Min({r + 1}) = r + 1
  BY <1>2 DEF Min
<1> QED BY <1>1, <1>4, <1>5 DEF r

\* A stretch of a list.
Stretch(s, a, b) == SubSeq(s, a, b)

\* The ranks of a stretch of the list count up from the rank of its first.
LEMMA RanksFrom ==
  ASSUME NEW f, NEW n, NEW s, Listing(s, n, f), s = Nodes(f), NEW from \in 1..n
  PROVE  /\ Stretch(s, from, n) # <<>> /\ Len(Stretch(s, from, n)) = n - from + 1
         /\ DOMAIN Stretch(s, from, n) = 1..(n - from + 1)
         /\ FindRank(f, Stretch(s, from, n)[1][2]) = from
         /\ \A i \in 1..(n - from + 1) : Stretch(s, from, n)[i] = s[from + i - 1]
<1> DEFINE found == Stretch(s, from, n)
           x == s[from][2]
           p == Cardinality(Before(f, x)) + 1
<1>1. /\ n \in Nat /\ s \in [1..n -> Int \X Int] /\ x \in DOMAIN f
      /\ \A i, j \in 1..n : s[i][2] = s[j][2] => i = j
  BY DEF Listing
<1>2. p \in 1..n /\ s[p] = <<f[x], x>>
  BY <1>1 DEF Listing
<1>3. /\ Len(found) = n - from + 1 /\ DOMAIN found = 1..(n - from + 1)
      /\ \A i \in 1..(n - from + 1) : found[i] = s[from + i - 1]
  BY <1>1, SliceIs DEF Stretch
<1>4. 1 \in 1..(n - from + 1) /\ from + 1 - 1 = from
  BY <1>1
<1>5. FindRank(f, x) = p
  BY <1>1, FindRankIs
<1> HIDE DEF p, found
<1>6. s[p][2] = x
  BY <1>2
<1> HIDE DEF x
<1>7. p = from
  BY <1>1, <1>2, <1>6 DEF x
<1>8. found[1] = s[from] /\ found # <<>>
  BY <1>3, <1>4
<1>9. found[1][2] = x
  BY <1>8 DEF x
<1>10. FindRank(f, found[1][2]) = from
  BY <1>5, <1>7, <1>9
<1> QED BY <1>3, <1>8, <1>10 DEF found

\* The first item with at least the score of m is not behind m.
LEMMA FirstFrom ==
  ASSUME NEW f \in Scores, NEW n, NEW s, Listing(s, n, f), NEW m \in DOMAIN f
  PROVE  SelectInSeq(s, LAMBDA it : it[1] >= f[m]) \in 1..(Cardinality(Before(f, m)) + 1)
<1> DEFINE I == {i \in 1..Len(s) : s[i][1] >= f[m]}
           r == Cardinality(Before(f, m))
<1>1. /\ n \in Nat /\ s \in [1..n -> Int \X Int] /\ r + 1 \in 1..n /\ s[r + 1] = <<f[m], m>>
      /\ f[m] \in Int /\ Len(s) = n
  BY ScoresDef DEF Listing
<1> HIDE DEF r
<1>2. I \subseteq Nat /\ r + 1 \in I /\ \A i \in I : i >= 1
  BY <1>1
<1>3. SelectInSeq(s, LAMBDA it : it[1] >= f[m]) = IF I # {} THEN Min(I) ELSE 0
  BY DEF SelectInSeq
<1> HIDE DEF I
<1>4. Min(I) \in I /\ \A i \in I : Min(I) <= i
  <2>1. \E a \in I : \A i \in I : a <= i
    BY <1>2, LeastNat
  <2> QED BY <2>1 DEF Min
<1>5. Min(I) \in 1..(r + 1)
  <2> DEFINE a == Min(I)
  <2>1. a \in Nat /\ a >= 1 /\ a <= r + 1 /\ r + 1 \in Nat
    BY <1>1, <1>2, <1>4
  <2> HIDE DEF a
  <2>2. a \in 1..(r + 1)
    BY <2>1
  <2> QED BY <2>2 DEF a
<1> QED BY <1>2, <1>3, <1>5 DEF r

\* The answers of the commands.
LEMMA ScoreAnswers ==
  ASSUME NEW k \in Key, Holds(k, "sortedset"), NEW f \in IntScores, Val(k) = f, NEW m \in DOMAIN f
  PROVE  LET n == ZCARD(k)
             rank == 1 + Cardinality(Before(f, m))
             item == <<f[m], m, rank>>
         IN /\ ZRANK(k, m) = item
            /\ ZRANGE(k, 1, n, FALSE)[rank] = item
            /\ item \in Range(ZRANGE(k, f[m], MaxScore, TRUE))
            /\ ZCOUNT(k, f[m], MaxScore) = Len(ZRANGE(k, f[m], MaxScore, TRUE))
            /\ item = MinElements(f, n)[rank]
            /\ item = MaxElements(f, n)[n + 1 - rank]
<1> DEFINE n == Cardinality(DOMAIN f)
           rank == 1 + Cardinality(Before(f, m))
           item == <<f[m], m, rank>>
           s == Nodes(f)
           low == f[m]
<1>1. /\ f \in Scores /\ low \in Int /\ MaxScore \in Int
      /\ \A x \in DOMAIN f : f[x] <= MaxScore
  BY ScoresDef, SortedSetAssumption DEF IntScores
<1>2. Listing(s, n, f)
  BY <1>1, Listed DEF Nodes, TreeOf
<1>3. Exists(k) /\ ~WrongType(k, "sortedset") /\ ZCARD(k) = n
  BY DEF Holds, WrongType, ZCARD
<1>4. Cardinality(Before(f, m)) + 1 = rank
  BY <1>1, BeforeNat
<1>5. /\ n \in Nat /\ s \in [1..n -> Int \X Int] /\ rank \in 1..n
      /\ s[rank] = <<f[m], m>> /\ Len(s) = n
  BY <1>2, <1>4 DEF Listing
<1>6. 1 # NaN /\ n # NaN /\ low # NaN /\ MaxScore # NaN /\ low <= MaxScore
  BY <1>1, <1>5, NaNAssumption
<1>7. Append(s[rank], rank) = item
  BY <1>5, PairAppend
<1>8. Min({n, n}) = n
  BY <1>5 DEF Min
<1>9. ZRANK(k, m) = item
  <2>1. FindRank(f, m) = rank
    BY <1>2, <1>4, FindRankIs
  <2>2. ZRANK(k, m) = <<f[m], m, FindRank(f, m)>>
    BY <1>3 DEF ZRANK
  <2> QED BY <2>1, <2>2
<1>10. ZRANGE(k, 1, n, FALSE)[rank] = item
  <2> DEFINE found == SubSeq(s, 1, n)
             first == FindRank(f, found[1][2])
             up == [i \in DOMAIN found |-> Append(found[i], first + (i - 1))]
  <2>1. ZRANGE(k, 1, n, FALSE) = SetZRANGE(f, 1, n, FALSE)
    BY <1>3, <1>6 DEF ZRANGE
  <2>2. 1 \in 1..n
    BY <1>5
  <2>3. /\ found # <<>> /\ DOMAIN found = 1..(n - 1 + 1) /\ first = 1
        /\ \A i \in 1..(n - 1 + 1) : found[i] = s[1 + i - 1]
    <3>1. s = Nodes(f)
      OBVIOUS
    <3> HIDE DEF s, n
    <3>2. Listing(s, n, f)
      BY <1>2
    <3>3. /\ Stretch(s, 1, n) # <<>> /\ Len(Stretch(s, 1, n)) = n - 1 + 1
          /\ DOMAIN Stretch(s, 1, n) = 1..(n - 1 + 1)
          /\ FindRank(f, Stretch(s, 1, n)[1][2]) = 1
          /\ \A i \in 1..(n - 1 + 1) : Stretch(s, 1, n)[i] = s[1 + i - 1]
      BY ONLY <2>2, <3>1, <3>2, RanksFrom
    <3> QED BY <3>3 DEF Stretch
  <2>4. SubSeq(s, 1, Min({n, Len(s)})) = found
    BY <1>5, <1>8
  <2>5. SetZRANGE(f, 1, n, FALSE) = up
    <3> HIDE DEF found, s
    <3> QED BY <2>3, <2>4 DEF SetZRANGE, s
  <2> HIDE DEF found, first, s, n, rank, item
  <2>6. rank \in DOMAIN found /\ found[rank] = s[rank] /\ first + (rank - 1) = rank
    <3>1. n - 1 + 1 = n /\ 1 + rank - 1 = rank /\ 1 + (rank - 1) = rank
      BY <1>5
    <3> QED BY <1>5, <2>3, <3>1
  <2> QED BY <1>7, <2>1, <2>5, <2>6
<1> DEFINE from == SelectInSeq(s, LAMBDA it : it[1] >= low)
           found == SubSeq(s, from, n)
           first == FindRank(f, found[1][2])
           up == [i \in DOMAIN found |-> Append(found[i], first + (i - 1))]
<1>11. from \in 1..rank /\ from \in 1..n
  <2>1. from \in 1..rank
    BY <1>1, <1>2, <1>4, FirstFrom
  <2> HIDE DEF from
  <2> QED BY <1>5, <2>1
<1>12. /\ found # <<>> /\ Len(found) = n - from + 1 /\ DOMAIN found = 1..(n - from + 1)
       /\ first = from /\ \A i \in 1..(n - from + 1) : found[i] = s[from + i - 1]
  <2>1. s = Nodes(f)
    OBVIOUS
  <2> HIDE DEF from, s, n
  <2>2. Listing(s, n, f)
    BY <1>2
  <2>3. /\ Stretch(s, from, n) # <<>> /\ Len(Stretch(s, from, n)) = n - from + 1
        /\ DOMAIN Stretch(s, from, n) = 1..(n - from + 1)
        /\ FindRank(f, Stretch(s, from, n)[1][2]) = from
        /\ \A i \in 1..(n - from + 1) : Stretch(s, from, n)[i] = s[from + i - 1]
    BY ONLY <1>11, <2>1, <2>2, RanksFrom
  <2> QED BY <2>3 DEF Stretch
<1>13. GetByScoreRange(f, low, MaxScore) = found
  <2> DEFINE over == SelectInSeq(s, LAMBDA it : it[1] > MaxScore)
  <2>1. over = 0
    BY <1>1, <1>2, NoneAbove
  <2>2. GetByScoreRange(f, low, MaxScore) =
          IF from = 0 THEN <<>> ELSE SubSeq(s, from, IF over = 0 THEN Len(s) ELSE over - 1)
    BY DEF GetByScoreRange
  <2> HIDE DEF from, over, s, n
  <2>3. from # 0
    BY <1>11
  <2> QED BY <1>5, <2>1, <2>2, <2>3
<1>14. ZRANGE(k, low, MaxScore, TRUE) = up
  <2>1. ZRANGE(k, low, MaxScore, TRUE) = SetZRANGE(f, low, MaxScore, TRUE)
    BY <1>3, <1>6 DEF ZRANGE
  <2> HIDE DEF found, low
  <2>2. SetZRANGE(f, low, MaxScore, TRUE) = up
    BY <1>12, <1>13 DEF SetZRANGE
  <2> QED BY <2>1, <2>2
<1>15. item \in Range(ZRANGE(k, low, MaxScore, TRUE))
  <2> DEFINE j == rank - from + 1
  <2> HIDE DEF from, found, first, s, n, rank, item
  <2>1. j \in 1..(n - from + 1) /\ from + j - 1 = rank /\ from + (j - 1) = rank
    BY <1>5, <1>11
  <2>2. j \in DOMAIN up /\ up[j] = item
    BY <1>7, <1>12, <2>1
  <2> QED BY <1>14, <2>2 DEF Range
<1>16. ZCOUNT(k, low, MaxScore) = Len(ZRANGE(k, low, MaxScore, TRUE))
  <2>1. ZCOUNT(k, low, MaxScore) = Len(found)
    <3>1. ~(low > MaxScore)
      BY <1>1, <1>6
    <3> QED BY <1>3, <1>6, <1>13, <3>1 DEF ZCOUNT, Holds
  <2>2. DOMAIN up = 1..(n - from + 1) /\ n - from + 1 \in Nat
    <3> HIDE DEF from, n, found
    <3> QED BY <1>5, <1>11, <1>12
  <2>3. Len(up) = n - from + 1
    <3> DEFINE c == n - from + 1
    <3> HIDE DEF c, found, first
    <3>1. up \in [1..c -> Range(up)]
      BY <2>2 DEF Range, c
    <3> HIDE DEF up
    <3> QED BY <2>2, <3>1 DEF c
  <2> QED BY <1>12, <1>14, <2>1, <2>3
<1>17. item = MinElements(f, n)[rank]
  <2>1. MinElements(f, n) = [i \in 1..n |-> Append(s[i], i)]
    BY <1>8 DEF MinElements
  <2> HIDE DEF s, n, rank, item
  <2> QED BY <1>5, <1>7, <2>1
<1>18. item = MaxElements(f, n)[n + 1 - rank]
  <2>1. MaxElements(f, n) = [i \in 1..n |-> Append(s[n + 1 - i], n - (i - 1))]
    BY <1>8 DEF MaxElements
  <2> HIDE DEF s, n, rank, item
  <2> DEFINE i == n + 1 - rank
  <2>2. i \in 1..n /\ n + 1 - i = rank /\ n - (i - 1) = rank
    BY <1>5
  <2> QED BY <1>7, <2>1, <2>2
<1> QED BY <1>3, <1>9, <1>10, <1>15, <1>16, <1>17, <1>18

\* The ranks, ranges, pops and counts of either kind of sorted set agree, for
\* any members, scores and flags, infinite scores included and until the
\* evaluators store a NaN: the position of an item in the tree or in
\* the list is the number of items before it.
THEOREM RanksCorrect == Spec => []RanksAgree
<1>1. DataInv => RanksAgree
  <2> SUFFICES ASSUME DataInv, NEW k \in Key PROVE
        /\ Holds(k, "zset") /\ ~Val(k).nan =>
             LET scores == Val(k).memberMap
             IN \A m \in DOMAIN scores :
                  LET rank == Cardinality(Before(scores, m))
                  IN /\ EvalZRANK(k, m) = rank
                     /\ EvalZRANGE(k, rank, rank, FALSE) = <<<<scores[m], m>>>>
                     /\ EvalZRANGE(k, -1 - rank, -1 - rank, TRUE) = <<<<scores[m], m>>>>
                     /\ EvalZCOUNT(k, scores[m], Inf) =
                          EvalZCARD(k) - Cardinality({x \in DOMAIN scores : scores[x] < scores[m]})
        /\ Holds(k, "sortedset") =>
             LET scores == Val(k)
                 n == ZCARD(k)
             IN \A m \in DOMAIN scores :
                  LET rank == 1 + Cardinality(Before(scores, m))
                      item == <<scores[m], m, rank>>
                  IN /\ ZRANK(k, m) = item
                     /\ ZRANGE(k, 1, n, FALSE)[rank] = item
                     /\ item \in Range(ZRANGE(k, scores[m], MaxScore, TRUE))
                     /\ ZCOUNT(k, scores[m], MaxScore) = Len(ZRANGE(k, scores[m], MaxScore, TRUE))
                     /\ item = MinElements(scores, n)[rank]
                     /\ item = MaxElements(scores, n)[n + 1 - rank]
    BY DEF RanksAgree
  <2>1. Cell(store[k], ghost[k])
    BY DEF DataInv
  <2>2. ASSUME Holds(k, "zset"), ~Val(k).nan PROVE
          \E f \in CappedScores : Val(k) = ZSetOf(f) /\ Val(k).memberMap = f
    <3>1. Val(k) \in AnySets
      BY <2>1, <2>2 DEF Cell, TreeCell, Holds, Val
    <3>2. Val(k) \in CappedSets
      BY <2>2, <3>1, NaNFields DEF AnySets
    <3> QED BY <3>2, ZSetFields
  <2>3. ASSUME Holds(k, "sortedset") PROVE Val(k) \in IntScores
    BY <2>1, <2>3 DEF Cell, TreeCell, Holds, Val
  <2>4. CASE Holds(k, "zset") /\ ~Val(k).nan
    <3>1. PICK f \in CappedScores : Val(k) = ZSetOf(f) /\ Val(k).memberMap = f
      BY <2>2, <2>4
    <3>2. ~Holds(k, "sortedset")
      BY <2>4 DEF Holds
    <3> QED BY <2>4, <3>1, <3>2, TreeAnswers
  <2>5. CASE Holds(k, "sortedset")
    <3>1. Val(k) \in IntScores /\ ~Holds(k, "zset")
      BY <2>3, <2>5 DEF Holds
    <3> QED BY <2>5, <3>1, ScoreAnswers
  <2> QED BY <2>4, <2>5
<1> QED BY <1>1, SpecInv, PTL

=============================================================================
