-------------------------------- MODULE Lists -------------------------------
(***************************************************************************)
(* The list evaluators of internal/eval/store_eval.go over Deque.  The     *)
(* ghost of a list is a DequeBasic that is told the same.                  *)
(***************************************************************************)
EXTENDS TypedStore, Deque

CONSTANTS
  Elem,    \* the elements pushed
  Padding, \* the lengths of the numerals not in shortest form
  MaxList, \* bound: the length of a list
  MaxBuf   \* bound: the length of a buffer, gap included

ASSUME ListAssumption == MaxList \in Nat /\ Padding \subseteq Nat

\* An element is an integer or has a length.  No element's encoding has a
\* length at which GetEncodeUIntSize takes one byte more than the encoder
\* writes, or one that five bytes cannot hold: an entry says the length of
\* its string in 32 bits.
ASSUME ElemAssumption ==
  \A x \in Elem :
    /\ x \in [int : BOOLEAN, v : Int] /\ (x.int \/ x.v \in Nat) /\ x # BadEntry
    /\ \A n \in 2..4 : EncLen(x) # VarintRange[n] - 1
    /\ EncLen(x) < VarintRange[5]

Arg == {a \in [elem : Elem, padded : {0} \cup Padding] : a.padded # 0 => a.elem.int}

Spelt(as) == [i \in DOMAIN as |-> as[i].elem]

NewList == Obj("deque", NewDeque)
ListOf(k) == IF Exists(k) THEN Val(k) ELSE NewDeque
BasicOf(k) == GhostOr(k, NewBasicDeque)

PutList(k, q, basic) ==
  /\ \A i \in DOMAIN q.nodes : Len(q.nodes[i].buf) <= MaxBuf
  /\ Write(k, Obj("deque", q), basic)

\* Every element is pushed in turn.
LPUSH(k, as) ==
  LET before(i) == FoldLeft(LPush, ListOf(k), Spelt(SubSeq(as, 1, i - 1)))
      panics == \E i \in DOMAIN as : LPushPanics(before(i), as[i])
  IN \/ WrongType(k, "deque") /\ Answer(Err)
     \/ ~WrongType(k, "deque") /\ panics /\ Crash
     \/ /\ ~WrongType(k, "deque") /\ ~panics
        /\ ListOf(k).len + Len(as) <= MaxList
        /\ PutList(k, FoldLeft(LPush, ListOf(k), Spelt(as)),
                      FoldLeft(BasicLPush, BasicOf(k), Spelt(as)))

RPUSH(k, as) ==
  LET panics == \E i \in DOMAIN as : RPushPanics(as[i])
  IN \/ WrongType(k, "deque") /\ Answer(Err)
     \/ ~WrongType(k, "deque") /\ panics /\ Crash
     \/ /\ ~WrongType(k, "deque") /\ ~panics
        /\ ListOf(k).len + Len(as) <= MaxList
        /\ PutList(k, FoldLeft(RPush, ListOf(k), Spelt(as)),
                      FoldLeft(BasicRPush, BasicOf(k), Spelt(as)))

\* Pop until count elements are taken or the deque is empty.  An emptied
\* list stays.
LPOP(k, count) ==
  \/ count \notin Nat /\ Answer(Err)
  \/ count = 0 /\ Answer(OK)
  \/ count \in Positive /\ ~Exists(k) /\ Answer(OK)
  \/ count \in Positive /\ WrongType(k, "deque") /\ Answer(Err)
  \/ count \in Positive /\ Holds(k, "deque") /\ GapHead(Val(k)) /\ Crash
  \/ /\ count \in Positive /\ Holds(k, "deque") /\ ~GapHead(Val(k))
     /\ LET n == Min({count, Val(k).len})
            times == [i \in 1..n |-> i]
        IN PutList(k, FoldLeft(LAMBDA q, i : LPop(q), Val(k), times),
                   FoldLeft(LAMBDA q, i : BasicLPop(q), ghost[k], times))

RPOP(k) ==
  \/ ~Exists(k) /\ Answer(OK)
  \/ WrongType(k, "deque") /\ Answer(Err)
  \/ Holds(k, "deque") /\ Val(k).len = 0 /\ Answer(OK)
  \/ /\ Holds(k, "deque") /\ Val(k).len > 0
     /\ PutList(k, RPop(Val(k)), BasicRPop(ghost[k]))

LINSERT(k, where, pivot, a) ==
  \/ ~Exists(k) /\ Answer(OK)
  \/ WrongType(k, "deque") /\ Answer(Err)
  \/ Holds(k, "deque") /\ Val(k).len = 0 /\ Answer(OK)
  \/ /\ Holds(k, "deque") /\ Val(k).len > 0
     /\ where \notin {"before", "after"}
     /\ Answer(Err)
  \/ /\ Holds(k, "deque") /\ Val(k).len > 0
     /\ where \in {"before", "after"}
     /\ \/ LInsertPanics(Val(k), pivot, a, where) /\ Crash
        \/ ~LInsertPanics(Val(k), pivot, a, where) /\ pivot.padded # 0 /\ Answer(OK)
        \/ /\ ~LInsertPanics(Val(k), pivot, a, where) /\ pivot.padded = 0
           /\ Val(k).len < MaxList
           /\ PutList(k, LInsert(Val(k), pivot.elem, a.elem, where),
                         BasicLInsert(ghost[k], pivot.elem, a.elem, where))

LLEN(k) ==
  IF ~Exists(k) THEN 0 ELSE IF WrongType(k, "deque") THEN Err ELSE Val(k).len

LRANGE(k, start, stop) ==
  CASE start = NaN \/ stop = NaN -> Err
    [] start # NaN /\ stop # NaN /\ ~Exists(k) -> <<>>
    [] start # NaN /\ stop # NaN /\ WrongType(k, "deque") -> Err
    [] OTHER -> IF LRangePanics(Val(k), start, stop) THEN Panicked ELSE LRange(Val(k), start, stop)

\* Ranges from both ends, empty ones, and ones that reach beyond the list.
ListRanges == {<<0, -1>>, <<1, 2>>, <<-2, -1>>, <<-5, 0>>, <<2, 1>>, <<1, 9>>}

ListNext(k) ==
  \/ \E a, b \in Arg : LPUSH(k, <<a>>) \/ RPUSH(k, <<a, b>>)
  \/ \E count \in {NaN, -1, 0, 1, 2} : LPOP(k, count)
  \/ RPOP(k)
  \/ \E where \in {"before", "after", "beside"}, pivot, a \in Arg : LINSERT(k, where, pivot, a)
  \/ \E r \in ListRanges : LRANGE(k, r[1], r[2]) = Panicked /\ Crash

=============================================================================
