----------------------------- MODULE SortedSets -----------------------------
(***************************************************************************)
(* Sorted sets, twice: sortedset.Set (internal/eval/sortedset), a B-tree   *)
(* and a map kept in step, with the evaluators of store_eval.go; and       *)
(* types.SortedSet, a skip list of a library, with the commands of         *)
(* internal/cmd.                                                           *)
(*                                                                         *)
(* Members are numbers, ordered as their names are.  Scores are integers:  *)
(* those of the commands are int64 and wrap around; those of the           *)
(* evaluators are float64, of which the ends, infinity and NaN are         *)
(* modelled and the rounding in between is not.                            *)
(***************************************************************************)
EXTENDS TypedStore, SequencesExt

CONSTANTS
  Member,
  Score,     \* the scores given
  FlagSets,  \* the sets of flags a ZADD is given
  MaxScore   \* the largest int64, and the largest finite float64

ASSUME SortedSetAssumption ==
  /\ Member \subseteq Int /\ Nil \notin Member
  /\ MaxScore \in Nat /\ Score \subseteq -MaxScore..MaxScore
  /\ FlagSets \subseteq SUBSET {"NX", "XX", "GT", "LT", "CH", "INCR"}

\* The flags refused by validateFlagsAndArgs, and by types.SortedSet.ZADD.
FlagsInvalid(F, pairs) ==
  \/ {"NX", "XX"} \subseteq F
  \/ {"GT", "NX"} \subseteq F \/ {"LT", "NX"} \subseteq F \/ {"GT", "LT"} \subseteq F
  \/ "INCR" \in F /\ Len(pairs) > 1

-----------------------------------------------------------------------------
(* Arithmetic of scores.  Inf is infinity; NaN, NaN. *)

Inf == MaxScore + 1
Infinite == {Inf, -Inf}

FloatSum(a, b) ==
  IF a = NaN \/ (a \in Infinite /\ b = -a) THEN NaN
  ELSE IF a \in Infinite THEN a ELSE IF b \in Infinite THEN b
  ELSE IF a + b > Inf THEN Inf ELSE IF a + b < -Inf THEN -Inf ELSE a + b

\* The bits that are left of a sum of int64.
IntSum(a, b) == ((a + b + Inf) % (2 * Inf)) - Inf

\* Nothing compares with NaN.
AtLeast(a, b) == a # NaN /\ b # NaN /\ a >= b

-----------------------------------------------------------------------------
(* sortedset.Set: [tree: a set of <<score, member>>, memberMap, nan] *)

\* nan: a NaN went into the tree.  It is neither less nor greater than any
\* item, and what a tree does with the items that follow depends on where
\* they lie: its items are followed up to the NaN, and are unknown later.
NewSet == [tree |-> {}, memberMap |-> <<>>, nan |-> FALSE]

Unknown == {}

Less(a, b) == a[1] < b[1] \/ (a[1] = b[1] /\ a[2] < b[2])

\* The items in their order.
Ascend(tree) ==
  CHOOSE s \in [1..Cardinality(tree) -> tree] :
    \A i, j \in 1..Cardinality(tree) : i < j => Less(s[i], s[j])

Has(ss, m) == m \in DOMAIN ss.memberMap

SetScore(f, m, score) == [x \in DOMAIN f \cup {m} |-> IF x = m THEN score ELSE f[x]]

\* Mutant: the item of the old score stays in the tree.
Upsert_KeepsOld(ss, score, m, hit) ==
  [tree |-> ss.tree \cup {<<score, m>>}, memberMap |-> SetScore(ss.memberMap, m, score),
   nan |-> ss.nan]

\* The tree finds a NaN equal to an item that it has, that of hit, which the
\* NaN takes the place of.
Upsert(ss, score, m, hit) ==
  LET others == ss.tree \ (IF Has(ss, m) THEN {<<ss.memberMap[m], m>>} ELSE {})
      tree == CASE ss.nan -> Unknown
                [] ~ss.nan /\ score = NaN -> {it \in others : it[2] # hit} \cup {<<score, m>>}
                [] ~ss.nan /\ score # NaN -> others \cup {<<score, m>>}
  IN [tree |-> tree, memberMap |-> SetScore(ss.memberMap, m, score),
      nan |-> ss.nan \/ score = NaN]

Without(f, m) == [x \in DOMAIN f \ {m} |-> f[x]]

RemoveMember(ss, m) ==
  IF ~Has(ss, m) THEN ss
  ELSE [tree |-> IF ss.nan THEN Unknown ELSE ss.tree \ {<<ss.memberMap[m], m>>},
        memberMap |-> Without(ss.memberMap, m), nan |-> ss.nan]

\* The position of the first item with the member, from either end; -1.
RankWithScore(ss, m, reverse) ==
  LET items == Ascend(ss.tree)
      hit == SelectInSeq(items, LAMBDA it : it[2] = m)
      rank == IF hit = 0 THEN Len(items) ELSE hit - 1
  IN IF ~Has(ss, m) THEN -1
     ELSE IF reverse THEN Cardinality(DOMAIN ss.memberMap) - rank - 1 ELSE rank

GetRange(ss, start, stop, reverse) ==
  LET n == Cardinality(ss.tree)
      Shift(i) == IF i < 0 THEN i + n ELSE i
      from == IF Shift(start) < 0 THEN 0 ELSE Shift(start)
      to == IF Shift(stop) >= n THEN n - 1 ELSE Shift(stop)
      items == IF reverse THEN Reverse(Ascend(ss.tree)) ELSE Ascend(ss.tree)
  IN IF from > to \/ from >= n THEN <<>> ELSE SubSeq(items, from + 1, to + 1)

\* DeleteMin and DeleteMax of the tree, then of the map by member.
PopEnd(ss, item) ==
  [tree |-> ss.tree \ {item}, memberMap |-> Without(ss.memberMap, item[2]), nan |-> ss.nan]

GetMin(ss, count) ==
  FoldLeft(LAMBDA s, i : IF s.tree = {} THEN s ELSE PopEnd(s, Ascend(s.tree)[1]),
           ss, [i \in 1..count |-> i])

PopMax(ss, count) ==
  FoldLeft(LAMBDA s, i : IF s.tree = {} THEN s ELSE PopEnd(s, Last(Ascend(s.tree))),
           ss, [i \in 1..count |-> i])

\* What is left when the items of gone, which may be any, were at the end.
Lost(ss, gone) ==
  [tree |-> Unknown, memberMap |-> [x \in DOMAIN ss.memberMap \ gone |-> ss.memberMap[x]],
   nan |-> ss.nan]

\* The walk stops at the first score above the range.
CountInRange(ss, min, max) ==
  LET items == Ascend(ss.tree)
      over == SelectInSeq(items, LAMBDA it : it[1] > max)
      seen == IF over = 0 THEN Len(items) ELSE over - 1
  IN Cardinality({i \in 1..seen : items[i][1] >= min})

\* DUMP writes the map; RESTORE adds its members to a new set.
SerializeSet(ss) == ss.memberMap
DeserializeSet(map) ==
  LET loaded == FoldLeft(LAMBDA s, m : Upsert(s, map[m], m, Nil), NewSet, SetToSeq(DOMAIN map))
  IN [loaded EXCEPT !.tree = IF loaded.nan THEN Unknown ELSE @]

SetVal(k) == IF Exists(k) THEN Val(k) ELSE NewSet

shouldSkipMember(score, cur, exists, F) ==
  \/ "NX" \in F /\ exists
  \/ "XX" \in F /\ ~exists
  \/ "LT" \in F /\ exists /\ AtLeast(score, cur)
  \/ "GT" \in F /\ exists /\ AtLeast(cur, score)

\* One pair of processMembersWithFlags; end tells how the loop was left.  NaN
\* is refused as a score, and not looked for in a sum.
processMember(acc, pair, F, hit) ==
  LET m == pair[2]
      exists == Has(acc.ss, m)
      cur == IF exists THEN acc.ss.memberMap[m] ELSE 0
      score == IF "INCR" \in F THEN FloatSum(cur, pair[1]) ELSE pair[1]
  IN CASE acc.end # "" -> acc
       [] acc.end = "" /\ pair[1] = NaN -> [acc EXCEPT !.end = Err]
       [] acc.end = "" /\ pair[1] # NaN ->
            CASE /\ "INCR" \in F /\ exists
                 /\ \/ "GT" \in F /\ AtLeast(cur, score)
                    \/ "LT" \in F /\ AtLeast(score, cur) -> [acc EXCEPT !.end = "unchanged"]
              [] OTHER ->
                 IF shouldSkipMember(score, cur, exists, F) THEN acc
                 ELSE [ss |-> Upsert(acc.ss, score, m, hit), end |-> IF "INCR" \in F THEN "incr" ELSE ""]

\* Whose item a NaN may be found equal to: that of any other member.
Hits(ss, pairs) ==
  LET others == DOMAIN ss.memberMap \ {pairs[1][2]}
  IN IF pairs[1][1] \in Infinite /\ others # {} THEN others ELSE {Nil}

processMembersWithFlags(ss, pairs, F, hit) ==
  FoldLeft(LAMBDA a, p : processMember(a, p, F, hit), [ss |-> ss, end |-> ""], pairs)

\* A set that is in the store changes in place, whatever happens next; a new
\* one is stored only when the loop runs to its end.
EvalZADD(k, pairs, F) ==
  \/ (WrongType(k, "zset") \/ FlagsInvalid(F, pairs)) /\ Answer(Err)
  \/ /\ ~WrongType(k, "zset") /\ ~FlagsInvalid(F, pairs)
     /\ \E hit \in Hits(SetVal(k), pairs) :
          LET acc == processMembersWithFlags(SetVal(k), pairs, F, hit)
          IN /\ store' = IF Exists(k) \/ acc.end = ""
                         THEN [store EXCEPT ![k] = Obj("zset", acc.ss)] ELSE store
             /\ reply' = IF acc.end = Err THEN Err ELSE OK
     /\ UNCHANGED ghost

EvalZREM(k, ms) ==
  \/ ~Exists(k) /\ Answer(OK)
  \/ WrongType(k, "zset") /\ Answer(Err)
  \/ Holds(k, "zset") /\ Write(k, Obj("zset", FoldLeft(RemoveMember, Val(k), ms)), Nil)

PutPopped(k, count, Pops(_, _)) ==
  \/ ~Val(k).nan /\ Write(k, Obj("zset", Pops(Val(k), count)), Nil)
  \/ /\ Val(k).nan
     /\ \E gone \in SUBSET DOMAIN Val(k).memberMap :
          Cardinality(gone) <= count /\ Write(k, Obj("zset", Lost(Val(k), gone)), Nil)

EvalZPOPMIN(k, count) ==
  \/ ~Exists(k) /\ Answer(OK)
  \/ (WrongType(k, "zset") \/ (Holds(k, "zset") /\ count = NaN)) /\ Answer(Err)
  \/ Holds(k, "zset") /\ count # NaN /\ count < 1 /\ Answer(OK)
  \/ Holds(k, "zset") /\ count \in Positive /\ PutPopped(k, count, GetMin)

EvalZPOPMAX(k, count) ==
  \/ count = NaN /\ Answer(Err)
  \/ count # NaN /\ (count <= 0 \/ ~Exists(k)) /\ Answer(OK)
  \/ count \in Positive /\ WrongType(k, "zset") /\ Answer(Err)
  \/ count \in Positive /\ Holds(k, "zset") /\ PutPopped(k, count, PopMax)

EvalZRANGE(k, start, stop, reverse) ==
  IF start = NaN \/ stop = NaN THEN Err ELSE IF ~Exists(k) THEN <<>>
  ELSE IF ~Holds(k, "zset") THEN Err ELSE GetRange(Val(k), start, stop, reverse)

EvalZRANK(k, m) ==
  IF ~Exists(k) THEN -1 ELSE IF ~Holds(k, "zset") THEN Err ELSE RankWithScore(Val(k), m, FALSE)

EvalZCOUNT(k, min, max) ==
  IF min = NaN \/ max = NaN THEN Err ELSE IF ~Exists(k) THEN 0
  ELSE IF ~Holds(k, "zset") THEN Err ELSE CountInRange(Val(k), min, max)

EvalZCARD(k) ==
  IF ~Exists(k) THEN 0 ELSE IF ~Holds(k, "zset") THEN Err ELSE Cardinality(DOMAIN Val(k).memberMap)

-----------------------------------------------------------------------------
(* types.SortedSet: the score of every member *)

\* The nodes of the library's list, in its order.
Nodes(scores) == Ascend({<<scores[m], m>> : m \in DOMAIN scores})

\* From the first node with a score in the range to the last.
GetByScoreRange(scores, min, max) ==
  LET nodes == Nodes(scores)
      from == SelectInSeq(nodes, LAMBDA n : n[1] >= min)
      over == SelectInSeq(nodes, LAMBDA n : n[1] > max)
  IN IF from = 0 THEN <<>> ELSE SubSeq(nodes, from, IF over = 0 THEN Len(nodes) ELSE over - 1)

FindRank(scores, m) == SelectInSeq(Nodes(scores), LAMBDA n : n[2] = m)

SetZADD(scores, pairs, F) ==
  LET Skip(s, p) == \/ "NX" \in F /\ p[2] \in DOMAIN s
                    \/ "XX" \in F /\ p[2] \notin DOMAIN s
                    \/ /\ p[2] \in DOMAIN s
                       /\ \/ "GT" \in F /\ p[1] <= s[p[2]]
                          \/ "LT" \in F /\ p[1] >= s[p[2]]
      Incremented(s, p) == IF p[2] \in DOMAIN s THEN IntSum(s[p[2]], p[1]) ELSE p[1]
  IN FoldLeft(LAMBDA s, p : IF "INCR" \in F THEN SetScore(s, p[2], Incremented(s, p))
                            ELSE IF Skip(s, p) THEN s ELSE SetScore(s, p[2], p[1]),
              scores, pairs)

\* Scores are parsed first.  A missing set is stored before the flags are
\* validated, and stays when they are refused.
ZADD(k, pairs, F) ==
  LET scores == IF Exists(k) THEN Val(k) ELSE <<>>
      new == SetZADD(scores, pairs, F)
      invalid == FlagsInvalid(F, pairs)
  IN IF (\E i \in DOMAIN pairs : pairs[i][1] = NaN) \/ WrongType(k, "sortedset") THEN Answer(Err)
     ELSE /\ store' = [store EXCEPT ![k] = Obj("sortedset", IF invalid THEN scores ELSE new)]
          /\ reply' = IF invalid THEN Err ELSE OK
          /\ UNCHANGED ghost

ZREM(k, ms) ==
  \/ ~Exists(k) /\ Answer(OK)
  \/ WrongType(k, "sortedset") /\ Answer(Err)
  \/ Holds(k, "sortedset") /\ Write(k, Obj("sortedset", FoldLeft(Without, Val(k), ms)), Nil)

\* What a pop leaves, and the elements it answers with: [member, score, rank].
Popped(scores, n) == [x \in DOMAIN scores \ {n[i][2] : i \in DOMAIN n} |-> scores[x]]

MinElements(scores, count) ==
  [i \in 1..Min({count, Cardinality(DOMAIN scores)}) |-> Append(Nodes(scores)[i], i)]

\* Mutant: ranks are counted down from the number of elements popped.
MaxElements_RankOfPopped(scores, count) ==
  LET total == Cardinality(DOMAIN scores)
  IN [i \in 1..Min({count, total}) |-> Append(Nodes(scores)[total + 1 - i], count - i)]

MaxElements(scores, count) ==
  LET total == Cardinality(DOMAIN scores)
  IN [i \in 1..Min({count, total}) |-> Append(Nodes(scores)[total + 1 - i], total - (i - 1))]

ZPOP(k, count, Elements(_, _)) ==
  \/ count \notin Positive /\ Answer(Err)
  \/ count \in Positive /\ ~Exists(k) /\ Answer(OK)
  \/ count \in Positive /\ WrongType(k, "sortedset") /\ Answer(Err)
  \/ /\ count \in Positive /\ Holds(k, "sortedset")
     /\ Write(k, Obj("sortedset", Popped(Val(k), Elements(Val(k), count))), Nil)

ZPOPMIN(k, count) == ZPOP(k, count, MinElements)
ZPOPMAX(k, count) == ZPOP(k, count, MaxElements)

\* The ranks count up from the rank of the first node.  Ranges that start
\* after they stop, which the library reverses, are left out.
SetZRANGE(scores, start, stop, byScore) ==
  LET nodes == Nodes(scores)
      found == IF byScore THEN GetByScoreRange(scores, start, stop)
               ELSE SubSeq(nodes, start, Min({stop, Len(nodes)}))
      rank == IF found = <<>> THEN 0 ELSE FindRank(scores, found[1][2])
  IN [i \in DOMAIN found |-> Append(found[i], rank + (i - 1))]

ZRANGE(k, start, stop, byScore) ==
  IF start = NaN \/ stop = NaN THEN Err ELSE IF ~Exists(k) THEN <<>>
  ELSE IF ~Holds(k, "sortedset") THEN Err ELSE SetZRANGE(Val(k), start, stop, byScore)

\* [score, member, rank]: rank 0 and score 0 for what is no member.
ZRANK(k, m) ==
  CASE ~Exists(k) -> Nil
    [] WrongType(k, "sortedset") -> Err
    [] OTHER -> IF m \notin DOMAIN Val(k) THEN <<0, m, 0>>
                ELSE <<Val(k)[m], m, FindRank(Val(k), m)>>

ZCOUNT(k, min, max) ==
  IF min = NaN \/ max = NaN THEN Err ELSE IF min > max \/ ~Exists(k) THEN 0
  ELSE IF ~Holds(k, "sortedset") THEN Err
  ELSE Len(GetByScoreRange(Val(k), min, max))

ZCARD(k) ==
  IF ~Exists(k) THEN 0 ELSE IF ~Holds(k, "sortedset") THEN Err ELSE Cardinality(DOMAIN Val(k))

-----------------------------------------------------------------------------

PairLists ==
  [1..1 -> (Score \cup {NaN}) \X Member] \cup {<<p, q>> : p, q \in (Score \cup {NaN}) \X Member}

\* A server has either the evaluators or the commands.
SortedSetNext(k) ==
  \/ \E pairs \in PairLists \cup [1..1 -> Infinite \X Member], F \in FlagSets : EvalZADD(k, pairs, F)
  \/ \E m, n \in Member : EvalZREM(k, <<m, n>>)
  \/ \E count \in {NaN, 0, 1, 2} : EvalZPOPMIN(k, count) \/ EvalZPOPMAX(k, count)
  \/ /\ ~Holds(k, "zset")
     /\ \/ \E pairs \in PairLists, F \in FlagSets : ZADD(k, pairs, F)
        \/ \E m, n \in Member : ZREM(k, <<m, n>>)
        \/ \E count \in {NaN, 0, 1, 2} : ZPOPMIN(k, count) \/ ZPOPMAX(k, count)

=============================================================================
