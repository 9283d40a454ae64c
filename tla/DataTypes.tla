------------------------------ MODULE DataTypes -----------------------------
(***************************************************************************)
(* One shard under the evaluators of every data type, and the commands     *)
(* that work on any type: DUMP, RESTORE, COPY.                             *)
(*                                                                         *)
(* A type's commands meet missing keys, keys of the type, and keys that    *)
(* hold a string, the type they have to refuse.  Two keys hold an object   *)
(* at once only for the types whose commands take two keys.                *)
(***************************************************************************)
EXTENDS Lists, Sketches, SortedSets, Collections

Strings == {"string"}
PairTypes == {"cms", "bf", "hll"} \cup Strings

Types == PairTypes \cup {"deque", "zset", "sortedset", "ssmap", "set"}

\* SET, for a value that is no number.
SETString(k) == Write(k, Obj("string", "text"), Nil)

-----------------------------------------------------------------------------

\* The types rdbSerialize knows how to write.  A types.SortedSet has the
\* type of a sorted set and is not the value it expects.
Dumpable == {"string", "set", "deque", "bf", "zset", "cms"}

\* What RESTORE makes of what DUMP wrote.
Restored(obj) ==
  Obj(obj.type,
      CASE obj.type = "deque" -> DeserializeDeque(SerializeDeque(obj.val))
        [] obj.type = "bf" -> DeserializeBloom(SerializeBloom(obj.val))
        [] obj.type = "cms" -> DeserializeCMS(serializeCMS(obj.val))
        [] obj.type = "zset" -> DeserializeSet(SerializeSet(obj.val))
        [] OTHER -> obj.val)

\* A client DUMPs src and RESTOREs the answer as dst, whatever dst holds.
DUMPRESTORE(src, dst) ==
  \/ ~Exists(src) /\ Answer(OK)
  \/ Exists(src) /\ store[src].type \notin Dumpable /\ Answer(Err)
  \/ /\ Exists(src) /\ store[src].type \in Dumpable
     /\ Write(dst, Restored(store[src]), ghost[src])

\* None of the values is a DeepCopyable: their methods have other result
\* types than the interface.
DeepCopy(obj) == IF obj.type = "string" THEN obj ELSE NoObj

\* The destination is deleted before the source is found to be of a type
\* that cannot be copied.
COPY(src, dst, replace) ==
  \/ ~Exists(src) /\ Answer(OK)
  \/ Exists(src) /\ ~replace /\ Exists(dst) /\ Answer(Err)
  \/ Exists(src) /\ (replace \/ ~Exists(dst)) /\ Write(dst, DeepCopy(store[src]), Nil)

-----------------------------------------------------------------------------

Init == TypedInit

Meets(k, types) == Exists(k) => store[k].type \in types \cup Strings

Alone(k) == \A j \in Key \ {k} : ~Exists(j)
Paired(k) == \A j \in Key : Meets(j, PairTypes)

Next ==
  \E k \in Key :
    \/ Meets(k, {"deque"}) /\ Alone(k) /\ ListNext(k)
    \/ Meets(k, {"cms", "bf"}) /\ Paired(k) /\ SketchNext(k)
    \/ Meets(k, {"zset", "sortedset"}) /\ Alone(k) /\ SortedSetNext(k)
    \/ Meets(k, {"ssmap"}) /\ Alone(k) /\ HashNext(k)
    \/ Meets(k, {"set"}) /\ Alone(k) /\ SetNext(k)
    \/ Meets(k, {"hll"}) /\ Paired(k) /\ HLLNext(k)
    \/ Paired(k) /\ SETString(k)
    \/ DEL(k)
    \/ \E j \in Key : (j = k \/ Paired(j)) /\ DUMPRESTORE(j, k)
    \/ \E j \in Key, replace \in BOOLEAN : COPY(j, k, replace)

Spec == Init /\ [][Next]_vars

-----------------------------------------------------------------------------

TypeOK ==
  /\ reply \in {OK, Err, Panicked}
  /\ \A k \in Key :
       \/ store[k] = NoObj /\ ghost[k] = Nil
       \/ /\ store[k].type \in Types
          /\ store[k].type = "deque" => Val(k).len \in 0..MaxList
          /\ store[k].type = "cms" => Val(k).count \in 0..(UintMod - 1) /\ DOMAIN ghost[k] = Item
          /\ store[k].type = "bf" => Val(k).bitset \subseteq 0..(Val(k).bits - 1)
          /\ store[k].type = "ssmap" => DOMAIN Val(k) \subseteq Field

\* LLEN and LRANGE of the chunked deque answer as those of the flat one,
\* whatever sequence of pushes, pops, insertions and restores came before.
\* Only a range of a deque that RESTORE left with a gap for a head, which is
\* the case LRangeAnswers is about, has no answer.
ListsAgree ==
  \A k \in Key : Holds(k, "deque") =>
    /\ LLEN(k) = ghost[k].len
    /\ \A r \in ListRanges :
         LRANGE(k, r[1], r[2]) \in {BasicLRange(ghost[k], r[1], r[2])}
           \cup (IF GapHead(Val(k)) THEN {Panicked} ELSE {})

\* Whenever a push, an insertion or a pop returns, the buffers of a deque's
\* nodes, end to end, are the gap at the left and then the encoding of its
\* entries, none of it split, lost or written twice; no node is empty, and
\* none is longer than its capacity.
DequeLayout ==
  \A k \in Key : Holds(k, "deque") =>
    LET q == Val(k)
        bytes == FlattenSeq([i \in DOMAIN q.nodes |-> q.nodes[i].buf])
    IN /\ SubSeq(bytes, q.leftIdx + 1, Len(bytes)) = ghost[k].buf
       /\ \A i \in DOMAIN q.nodes :
            Len(q.nodes[i].buf) \in (IF i = 1 /\ q.leftIdx > 0 THEN q.leftIdx ELSE 1)..q.nodes[i].cap

\* RPUSH puts what it is given at the tail, whatever it is: it does not end
\* the process.  Refuted: MCDataTypes_rpush.
RPushAnswers == [][\A k \in Key, a \in Arg : RPUSH(k, <<a>>) => reply' # Panicked]_vars

\* LPUSH puts an element in its shortest form at the head, whatever was
\* pushed and popped before.  Refuted: MCDataTypes_lpush.
LPushAnswers ==
  [][\A k \in Key, a \in Arg : a.padded = 0 /\ LPUSH(k, <<a>>) => reply' # Panicked]_vars

\* LRANGE answers for every list, restored ones included.
\* Refuted: MCDataTypes_lrange.
LRangeAnswers ==
  \A k \in Key : Holds(k, "deque") => \A r \in ListRanges : LRANGE(k, r[1], r[2]) # Panicked

\* While the true counts add up to a uint64, a count-min sketch never answers
\* less than the true count of an item: increments, merges (into one of the
\* sources too) and restores included.  However often it wrapped around, it
\* loses and invents nothing else: every row, and the count CMS.INFO gives,
\* is the sum of the true counts, modulo 2^64.
SketchCounts ==
  \A k \in Key : Holds(k, "cms") =>
    LET total == SumFunction(ghost[k])
    IN /\ total < UintMod => \A item \in Item : CMSQUERY(k, item) >= ghost[k][item]
       /\ \A row \in DOMAIN Val(k).matrix : SumFunction(Val(k).matrix[row]) % UintMod = total % UintMod
       /\ CMSINFO(k)[3] = total % UintMod

\* CMS.INCRBY increases the count of the item, or leaves it as it is.
\* Refuted: MCDataTypes_increases.
IncrByIncreases ==
  [][\A k \in Key, item \in Item, n \in {1, UintMod - 1} :
       Holds(k, "cms") /\ CMSINCRBY(k, <<item>>, <<n>>) => CMSQUERY(k, item)' >= CMSQUERY(k, item)]_vars

\* A Bloom filter never denies an item it was given, and counts at most one
\* element for each.
NoFalseNegatives ==
  \A k \in Key : Holds(k, "bf") =>
    /\ \A item \in ghost[k] : BFEXISTS(k, item) = TRUE
    /\ BFINFO(k)[3] <= Cardinality(ghost[k])

\* The B-tree of a sorted set holds what its map holds: the order Upsert,
\* Remove and the pops keep them in step, a changed score and infinite ones
\* included, up to the first NaN.
TreeMatchesMap ==
  \A k \in Key : Holds(k, "zset") /\ ~Val(k).nan =>
    Val(k).tree = {<<Val(k).memberMap[m], m>> : m \in DOMAIN Val(k).memberMap}

\* A ZADD of one member leaves the items of the others in the tree.
\* Refuted: MCDataTypes_keepsothers.
ZADDKeepsOthers ==
  [][\A k \in Key, score \in Score \cup Infinite, m \in Member, F \in FlagSets :
       Holds(k, "zset") /\ ~Val(k).nan /\ EvalZADD(k, <<<<score, m>>>>, F)
         => \A it \in Val(k).tree : it[2] # m => it \in store'[k].val.tree]_vars

\* The members of a score map that come before m.
Before(scores, m) == {x \in DOMAIN scores : Less(<<scores[x], x>>, <<scores[m], m>>)}

\* The answers of either kind of sorted set agree with each other: a
\* member's rank is the number of members before it (counted from 1 by the
\* commands, as their help says), ranges and pops list members at the ranks
\* they have, and a count is the length of the range by score.  The
\* evaluators' do up to the first NaN.
RanksAgree ==
  \A k \in Key :
    /\ Holds(k, "zset") /\ ~Val(k).nan =>
         LET scores == Val(k).memberMap
         IN \A m \in DOMAIN scores :
              LET rank == Cardinality(Before(scores, m))
              IN /\ EvalZRANK(k, m) = rank
                 /\ EvalZRANGE(k, rank, rank, FALSE) = <<<<scores[m], m>>>>
                 /\ EvalZRANGE(k, -1 - rank, -1 - rank, TRUE) = <<<<scores[m], m>>>>
                 /\ EvalZCOUNT(k, scores[m], Inf) =
                      EvalZCARD(k) - Cardinality({x \in DOMAIN scores : scores[x] < scores[m]})
    /\ Holds(k, "sortedset") =>
         LET scores == Val(k)
             n == ZCARD(k)
         IN \A m \in DOMAIN scores :
              LET rank == 1 + Cardinality(Before(scores, m))
                  item == <<scores[m], m, rank>>
              IN /\ ZRANK(k, m) = item
                 /\ ZRANGE(k, 1, n, FALSE)[rank] = item
                 /\ item \in Range(ZRANGE(k, scores[m], MaxScore, TRUE))
                 /\ ZCOUNT(k, scores[m], MaxScore) = Len(ZRANGE(k, scores[m], MaxScore, TRUE))
                 /\ item = MinElements(scores, n)[rank]
                 /\ item = MaxElements(scores, n)[n + 1 - rank]

\* The rank ZRANK answers is 0-based: the member with the lowest score has
\* rank 0.  Refuted: MCDataTypes_zrank.
RanksFromZero ==
  \A k \in Key : Holds(k, "sortedset") =>
    \A m \in DOMAIN Val(k) : Before(Val(k), m) = {} => ZRANK(k, m)[3] = 0

\* A field holds the exact sum of what HINCRBY, at the ends of int64 too,
\* and HINCRBYFLOAT were told since it was set, as long as HINCRBYFLOAT made
\* no sum beyond what a float64 holds exactly.
CountersExact ==
  \A k \in Key : Holds(k, "ssmap") =>
    LET exact == ghost[k].exact
    IN {<<f, exact[f]>> : f \in DOMAIN exact} \subseteq EvalHGETALL(k)

\* A scan whose cursor came back to 0 has returned every matching field that
\* was there all along, whatever was set meanwhile, provided no field it had
\* passed was deleted.
ScanComplete ==
  \A k \in Key : Holds(k, "ssmap") =>
    LET scan == ghost[k].scan
    IN scan.cursor = 0 /\ scan.clean => scan.must \subseteq scan.seen

\* What an error may leave behind, where a command stops midway: fields and
\* items added, scores changed, an empty sorted set or filter.
Residue(old, new) ==
  \/ old = NoObj /\ new.type = "sortedset" /\ new.val = <<>>
  \/ old = NoObj /\ new.type = "bf" /\ new.val.bitset = {}
  \/ /\ new.type = old.type
     /\ \/ old.type = "ssmap" /\ DOMAIN old.val \subseteq DOMAIN new.val
        \/ old.type = "zset" /\ DOMAIN old.val.memberMap \subseteq DOMAIN new.val.memberMap
        \/ old.type = "hll" /\ old.val \subseteq new.val

\* A command that answers an error leaves every list, set, string, sketch,
\* filter and score map as it was, and removes nothing from the others.
ErrorIsClean ==
  [][reply' = Err => \A k \in Key : store'[k] = store[k] \/ Residue(store[k], store'[k])]_vars

=============================================================================
