------------------------------- MODULE Sketches -----------------------------
(***************************************************************************)
(* The probabilistic types: count-min sketches (countminsketch.go) and     *)
(* Bloom filters (type_bloomfilter.go), with their evaluators.             *)
(*                                                                         *)
(* Hashes are constants: the two halves of the FNV hash of an item, and    *)
(* one hash of an item per seed a filter draws.  How an error rate turns   *)
(* into dimensions is abstracted: a filter has k functions and so many     *)
(* bits.                                                                   *)
(*                                                                         *)
(* Cells, counts, increments and weights are uint64: they wrap around.     *)
(*                                                                         *)
(* The ghost of a sketch is the true count of every item, which does not   *)
(* wrap; that of a filter is the set of the items added.                   *)
(***************************************************************************)
EXTENDS TypedStore, SequencesExt

CONSTANTS
  Item,
  Hash1, Hash2,  \* [Item -> Nat]
  Seed,          \* the seeds rand.Uint64 may draw
  SeedHash,      \* [Seed -> [Item -> Nat]]
  CMSDim,        \* the [depth, width] asked for
  BloomDim,      \* the [k, bits] asked for, 0 bits for options that are
                 \* invalid; the first is the default
  UintMod,       \* one more than the largest uint64: 2^64 in the code
  MaxCount       \* bound: the sum of the true counts

ASSUME SketchAssumption ==
  /\ {Hash1, Hash2} \subseteq [Item -> Nat]
  /\ SeedHash \in [Seed -> [Item -> Nat]]
  /\ BloomDim \in Seq([k : Nat, bits : Nat]) /\ BloomDim # <<>> /\ BloomDim[1].bits > 0
  /\ CMSDim \subseteq [depth : Nat, width : Nat]
  /\ IsFiniteSet(Item) /\ MaxCount \in Nat /\ UintMod \in Positive

-----------------------------------------------------------------------------
(* Count-min sketches: [depth, width, matrix, count] *)

newCountMinSketch(dim) ==
  [depth |-> dim.depth, width |-> dim.width, count |-> 0,
   matrix |-> [row \in 0..(dim.depth - 1) |-> [col \in 0..(dim.width - 1) |-> 0]]]

matrixPositions(c, item) ==
  [row \in 0..(c.depth - 1) |-> (Hash1[item] + Hash2[item] * row) % c.width]

\* Mutant: a cell is set to the increment.
updateMatrix_Sets(c, item, n) ==
  LET pos == matrixPositions(c, item)
      Row(row) == [c.matrix[row] EXCEPT ![pos[row]] = n]
  IN [c EXCEPT !.count = (@ + n) % UintMod, !.matrix = [row \in DOMAIN @ |-> Row(row)]]

updateMatrix(c, item, n) ==
  LET pos == matrixPositions(c, item)
      Row(row) == [c.matrix[row] EXCEPT ![pos[row]] = (@ + n) % UintMod]
  IN [c EXCEPT !.count = (@ + n) % UintMod, !.matrix = [row \in DOMAIN @ |-> Row(row)]]

estimateCount(c, item) ==
  LET pos == matrixPositions(c, item) IN Min({c.matrix[row][pos[row]] : row \in DOMAIN c.matrix})

\* The destination is zeroed and takes the weighted sum of the sources; a
\* source that is the destination is read as it was before.
mergeMatrices(c, sources, weights) ==
  LET Total(F(_)) == FoldLeft(LAMBDA sum, i : (sum + weights[i] * F(sources[i])) % UintMod, 0,
                              [i \in DOMAIN sources |-> i])
  IN [c EXCEPT !.count = Total(LAMBDA s : s.count),
               !.matrix = [row \in DOMAIN @ |-> [col \in DOMAIN @[row] |->
                                                   Total(LAMBDA s : s.matrix[row][col])]]]

\* RESTORE makes a new sketch of the dimensions, the count and the cells.
serializeCMS(c) == <<c.depth, c.width, c.count, c.matrix>>
DeserializeCMS(d) == [depth |-> d[1], width |-> d[2], count |-> d[3], matrix |-> d[4]]

NoCounts == [item \in Item |-> 0]

PutCMS(k, c, counts) == SumFunction(counts) <= MaxCount /\ Write(k, Obj("cms", c), counts)

\* CMS.INITBYDIM and CMS.INITBYPROB.
CMSINIT(k, dim) ==
  \/ (dim.depth = 0 \/ dim.width = 0 \/ Exists(k)) /\ Answer(Err)
  \/ dim.depth > 0 /\ dim.width > 0 /\ ~Exists(k) /\ PutCMS(k, newCountMinSketch(dim), NoCounts)

\* Mutant: a number is added as soon as it is parsed.
CMSINCRBY_AsParsed(k, items, ns) ==
  LET bad == SelectInSeq(ns, LAMBDA n : n = NaN)
      pairs == [i \in 1..(IF bad = 0 THEN Len(ns) ELSE bad - 1) |-> <<items[i], ns[i]>>]
      c == FoldLeft(LAMBDA s, p : updateMatrix(s, p[1], p[2]), Val(k), pairs)
  IN IF ~Holds(k, "cms") THEN Answer(Err)
     ELSE /\ store' = [store EXCEPT ![k] = Obj("cms", c)]
          /\ ghost' = [ghost EXCEPT ![k] = FoldLeft(LAMBDA g, p : [g EXCEPT ![p[1]] = @ + p[2]], @, pairs)]
          /\ reply' = IF bad = 0 THEN OK ELSE Err

\* All the numbers are parsed before the first is added.
CMSINCRBY(k, items, ns) ==
  \/ (~Holds(k, "cms") \/ \E i \in DOMAIN ns : ns[i] = NaN) /\ Answer(Err)
  \/ /\ Holds(k, "cms") /\ \A i \in DOMAIN ns : ns[i] # NaN
     /\ LET pairs == [i \in DOMAIN items |-> <<items[i], ns[i]>>]
        IN PutCMS(k, FoldLeft(LAMBDA c, p : updateMatrix(c, p[1], p[2]), Val(k), pairs),
                  FoldLeft(LAMBDA g, p : [g EXCEPT ![p[1]] = @ + p[2]], ghost[k], pairs))

CMSMERGE(k, srcs, weights) ==
  LET SameDim(j) == Val(j).depth = Val(k).depth /\ Val(j).width = Val(k).width
      valid == /\ Holds(k, "cms")
               /\ Len(srcs) >= 1 /\ Len(weights) = Len(srcs)
               /\ \A i \in DOMAIN srcs : Holds(srcs[i], "cms") /\ SameDim(srcs[i])
               /\ \A i \in DOMAIN weights : weights[i] # NaN
  IN IF ~valid THEN Answer(Err)
     ELSE PutCMS(k, mergeMatrices(Val(k), [i \in DOMAIN srcs |-> Val(srcs[i])], weights),
                 [item \in Item |->
                    FoldLeft(LAMBDA sum, i : sum + weights[i] * ghost[srcs[i]][item], 0,
                             [i \in DOMAIN srcs |-> i])])

CMSQUERY(k, item) == IF Holds(k, "cms") THEN estimateCount(Val(k), item) ELSE Err

CMSINFO(k) == IF Holds(k, "cms") THEN <<Val(k).width, Val(k).depth, Val(k).count>> ELSE Err

-----------------------------------------------------------------------------
(* Bloom filters: [bits, seeds, bitset, cnt] *)

NewBloomFilter(dim, seeds) == [bits |-> dim.bits, seeds |-> seeds, bitset |-> {}, cnt |-> 0]

\* Mutant: the hash is not reduced to the length of the bitset.
updateIndexes_NoModulus(b, item) == [i \in DOMAIN b.seeds |-> SeedHash[b.seeds[i]][item]]

\* The indexes of an item, which may coincide.
updateIndexes(b, item) == [i \in DOMAIN b.seeds |-> SeedHash[b.seeds[i]][item] % b.bits]

\* Mutant: only the bit of the first function is set.
add_FirstBit(b, item) ==
  LET i == updateIndexes(b, item)[1]
  IN [b EXCEPT !.bitset = @ \cup {i}, !.cnt = IF i \in b.bitset THEN @ ELSE @ + 1]

\* The number of elements counts the additions that set a bit.
add(b, item) ==
  LET idx == Range(updateIndexes(b, item))
  IN [b EXCEPT !.bitset = @ \cup idx, !.cnt = IF idx \subseteq b.bitset THEN @ ELSE @ + 1]

exists(b, item) == \A i \in Range(updateIndexes(b, item)) : i \in b.bitset

\* The seeds are dumped, the functions made anew from them.  The bitset that
\* RESTORE makes is eight times too long and takes in what follows it in the
\* dump; no index reaches that part.
SerializeBloom(b) == <<b.cnt, b.bits, b.seeds, b.bitset>>
DeserializeBloom(d) == [cnt |-> d[1], bits |-> d[2], seeds |-> d[3], bitset |-> d[4]]

PutBF(k, b, added) == Write(k, Obj("bf", b), added)

BFRESERVE(k, dim, seeds) ==
  \/ (dim.bits = 0 \/ Exists(k)) /\ Answer(Err)
  \/ dim.bits > 0 /\ ~Exists(k) /\ PutBF(k, NewBloomFilter(dim, seeds), {})

\* A missing filter is created with the default options, then added to; an
\* empty value, "", is refused after that.
BFADD(k, item, seeds) ==
  LET b == IF Exists(k) THEN Val(k) ELSE NewBloomFilter(BloomDim[1], seeds)
      added == GhostOr(k, {})
  IN \/ WrongType(k, "bf") /\ Answer(Err)
     \/ /\ ~WrongType(k, "bf") /\ item = ""
        /\ store' = [store EXCEPT ![k] = Obj("bf", b)]
        /\ ghost' = [ghost EXCEPT ![k] = added]
        /\ reply' = Err
     \/ ~WrongType(k, "bf") /\ item # "" /\ PutBF(k, add(b, item), added \cup {item})

BFEXISTS(k, item) ==
  IF ~Exists(k) THEN FALSE ELSE IF ~Holds(k, "bf") \/ item = "" THEN Err ELSE exists(Val(k), item)

BFINFO(k) == IF Holds(k, "bf") THEN <<Val(k).bits, Len(Val(k).seeds), Val(k).cnt>> ELSE Err

-----------------------------------------------------------------------------

SeedsFor(dim) == [1..dim.k -> Seed]

SketchNext(k) ==
  \/ \E dim \in CMSDim : CMSINIT(k, dim)
  \/ \E i, j \in Item, m, n \in {1, NaN} : CMSINCRBY(k, <<i, j>>, <<m, n>>)
  \/ \E i \in Item : CMSINCRBY(k, <<i>>, <<UintMod - 1>>)
  \/ \E j \in Key, w \in {<<1>>, <<2>>, <<1, 1>>, <<NaN>>} : CMSMERGE(k, <<j>>, w)
  \/ \E i, j \in Key : CMSMERGE(k, <<i, j>>, <<1, 1>>)
  \/ \E dim \in Range(BloomDim) : \E seeds \in SeedsFor(dim) : BFRESERVE(k, dim, seeds)
  \/ \E item \in Item \cup {""}, seeds \in SeedsFor(BloomDim[1]) : BFADD(k, item, seeds)

=============================================================================
