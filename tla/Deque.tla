------------------------------- MODULE Deque --------------------------------
(***************************************************************************)
(* The two double-ended queues of internal/eval/deque.go.                  *)
(*                                                                         *)
(* DequeBasic keeps its entries in one buffer.  Deque, which lists are     *)
(* made of, keeps them in a linked list of buffers (bytelist.go): entries  *)
(* are written into the gap at the left of the head, into the spare        *)
(* capacity at the right of the tail, or into a new node, and LINSERT      *)
(* splits a node in two.  The nodes are a sequence here: the pointers of   *)
(* the list, which always link it both ways, are abstracted.               *)
(*                                                                         *)
(* A buffer is a sequence of units.  An entry is its encoding byte, its    *)
(* data and its back length, a reversed variable-length integer that RPop  *)
(* reads from the right.  An element is [int, v]: an integer v, or a       *)
(* string of length v.  An argument is [elem, padded]: the element its     *)
(* text spells and, for a numeral that is not in its shortest form (zeros  *)
(* or a plus sign in front), the length of the text; 0 otherwise.          *)
(*                                                                         *)
(* The operators that change a deque say what it holds when they return.   *)
(* Those named ...Panics say when they do not.                             *)
(***************************************************************************)
EXTENDS Integers, SequencesExt

CONSTANTS
  minDequeNodeSize,  \* 256 in the code
  VarintBase,        \* the values of one byte of a varint: 128 in the code
  Spare              \* what append allocates beyond the length it needs

ASSUME DequeAssumption == minDequeNodeSize \in Nat \ {0} /\ VarintBase \in Nat \ {0, 1} /\ Spare \in Nat

-----------------------------------------------------------------------------
(* Entries *)

\* v is a signed number of the width whose greatest number is m.
Signed(v, m) == -m - 1 <= v /\ v <= m

IntEncLen(v) ==
  IF 0 <= v /\ v <= 127 THEN 1
  ELSE IF Signed(v, 4095) THEN 2
  ELSE IF Signed(v, 32767) THEN 3
  ELSE IF Signed(v, 8388607) THEN 4
  ELSE IF Signed(v, 2147483647) THEN 5
  ELSE 9

StrEncLen(n) == n + (IF n <= 63 THEN 1 ELSE IF n <= 4095 THEN 2 ELSE 5)

\* The bytes before the back length, which is their number.
EncLen(x) == IF x.int THEN IntEncLen(x.v) ELSE StrEncLen(x.v)

\* How many numbers one, two, ... bytes of a varint tell apart.
VarintRange ==
  LET b == VarintBase IN <<b, b * b, b * b * b, b * b * b * b, b * b * b * b * b>>

GetEncodeUIntSize(x) ==
  CASE x < VarintRange[1] -> 1
    [] x \in VarintRange[1]..(VarintRange[2] - 2) -> 2
    [] x \in (VarintRange[2] - 1)..(VarintRange[3] - 2) -> 3
    [] x \in (VarintRange[3] - 1)..(VarintRange[4] - 2) -> 4
    [] OTHER -> 5

\* The back length, most significant digit first: what is left of x after
\* each digit is shifted out.  Every byte but the first has its continuation
\* bit set.
RevVarint(x) ==
  LET n == GetEncodeUIntSize(x)
      shifted[j \in 0..(n - 1)] == IF j = 0 THEN x ELSE shifted[j - 1] \div VarintBase
  IN [i \in 1..n |-> <<"len", shifted[n - i] % VarintBase, i > 1>>]

EncodeDeqEntry(x) ==
  <<<<"enc", x>>>> \o [i \in 1..(EncLen(x) - 1) |-> <<"data", x>>] \o RevVarint(EncLen(x))

GetEncodeDeqEntrySize(x) == EncLen(x) + GetEncodeUIntSize(EncLen(x))

\* What an argument is encoded as: a text of 21 characters or more is a
\* string whatever it spells.
Encoded(a) == IF a.elem.int /\ a.padded >= 21 THEN [int |-> FALSE, v |-> a.padded] ELSE a.elem

\* The room reserved for an argument is that of the number it spells, and its
\* back length is written behind its data: beyond the room, which panics, when
\* it is encoded as a string.
Overruns(a) == EncLen(Encoded(a)) > GetEncodeDeqEntrySize(a.elem)

\* What is read at an offset that no entry starts at.
BadEntry == [int |-> TRUE, v |-> -999]

DecodeDeqEntry(buf, i) ==
  IF i < Len(buf) /\ buf[i + 1][1] = "enc" THEN buf[i + 1][2] ELSE BadEntry

EntryLen(buf, i) ==
  LET x == DecodeDeqEntry(buf, i) IN IF x = BadEntry THEN 1 ELSE GetEncodeDeqEntrySize(x)

\* The offset of the last entry of a buffer, read from its back length.
LastEntryAt(buf) ==
  LET More(i) == buf[i][1] = "len" /\ buf[i][3]
      start == CHOOSE s \in 1..Len(buf) : ~More(s) /\ \A i \in (s + 1)..Len(buf) : More(i)
      Digit(i) == IF buf[i][1] = "len" THEN buf[i][2] ELSE 0
      backlen[i \in start..Len(buf)] ==
        (IF i = start THEN 0 ELSE backlen[i - 1] * VarintBase) + Digit(i)
  IN start - 1 - backlen[Len(buf)]

-----------------------------------------------------------------------------
(* DequeBasic *)

NewBasicDeque == [len |-> 0, buf |-> <<>>]

BasicLPush(q, x) == [len |-> q.len + 1, buf |-> EncodeDeqEntry(x) \o q.buf]
BasicRPush(q, x) == [len |-> q.len + 1, buf |-> q.buf \o EncodeDeqEntry(x)]

\* Popping returns what is left; callers check that there is an entry.
BasicRPop(q) == [len |-> q.len - 1, buf |-> SubSeq(q.buf, 1, LastEntryAt(q.buf))]
BasicLPop(q) == [len |-> q.len - 1, buf |-> SubSeq(q.buf, EntryLen(q.buf, 0) + 1, Len(q.buf))]

\* The offsets of the entries, in the order the iterator visits them, and
\* the end of the last one.
BasicOffsets(q) ==
  LET off[i \in 1..(q.len + 1)] == IF i = 1 THEN 0 ELSE off[i - 1] + EntryLen(q.buf, off[i - 1])
  IN off

BasicElems(q) ==
  LET off == BasicOffsets(q) IN [i \in 1..q.len |-> DecodeDeqEntry(q.buf, off[i])]

BasicInsertAt(q, x, idx) ==
  [len |-> q.len + 1,
   buf |-> SubSeq(q.buf, 1, idx) \o EncodeDeqEntry(x) \o SubSeq(q.buf, idx + 1, Len(q.buf))]

\* The queue after LINSERT: unchanged when the pivot is not found.
BasicLInsert(q, pivot, x, where) ==
  LET offs == BasicOffsets(q)
      p == SelectInSeq(BasicElems(q), LAMBDA y : y = pivot)
      at == IF where = "before" THEN offs[p] ELSE offs[p + 1]
      new == CASE p = 1 /\ where = "before" -> BasicLPush(q, x)
               [] p = q.len /\ where = "after" -> BasicRPush(q, x)
               [] OTHER -> BasicInsertAt(q, x, at)
  IN IF p = 0 THEN q ELSE new

sanitizeStartIndex(n, start) == LET s == IF start < 0 THEN n + start ELSE start
                                IN IF s < 0 THEN 0 ELSE s

sanitizeStopIndex(n, stop) == LET s == IF stop < 0 THEN n + stop ELSE stop
                              IN IF s >= n THEN n - 1 ELSE s

BasicLRange(q, start, stop) ==
  SubSeq(BasicElems(q), sanitizeStartIndex(q.len, start) + 1, sanitizeStopIndex(q.len, stop) + 1)

-----------------------------------------------------------------------------
(* Deque *)

NewDeque == [len |-> 0, nodes |-> <<>>, leftIdx |-> 0]

Node(buf, cap) == [buf |-> buf, cap |-> cap]
Copied(buf) == Node(buf, Len(buf) + Spare)

\* buf with the bytes e written over it at offset i.
Written(buf, i, e) ==
  [j \in 1..Len(buf) |-> IF j \in (i + 1)..(i + Len(e)) THEN e[j - i] ELSE buf[j]]

Gap(n) == [i \in 1..n |-> <<"gap">>]

\* A buffer for the entry and the gap's remainder is made of capacity
\* size + minDequeNodeSize - leftIdx, less than its size behind a gap wider
\* than a node.
LPushPanics(q, a) ==
  \/ Overruns(a)
  \/ /\ q.leftIdx \in 1..(GetEncodeDeqEntrySize(a.elem) - 1)
     /\ q.leftIdx > minDequeNodeSize

LPush(q, x) ==
  LET e == EncodeDeqEntry(x)
      size == Len(e)
      head == q.nodes[1]
      kept == SubSeq(head.buf, q.leftIdx + 1, Len(head.buf))
      room == size + minDequeNodeSize - q.leftIdx
      cap == IF size > minDequeNodeSize THEN size ELSE minDequeNodeSize
      longer == [q EXCEPT !.len = @ + 1]
  IN CASE q.leftIdx >= size ->
            [longer EXCEPT !.leftIdx = @ - size,
                           !.nodes[1].buf = Written(@, q.leftIdx - size, e)]
       [] q.leftIdx \in 1..(size - 1) ->
            [longer EXCEPT !.leftIdx = 0,
                           !.nodes[1] = IF size + Len(kept) <= room THEN Node(e \o kept, room)
                                        ELSE Copied(e \o kept)]
       [] OTHER ->
            [longer EXCEPT !.leftIdx = cap - size,
                           !.nodes = <<Node(Gap(cap - size) \o e, cap)>> \o @]

RPushPanics(a) == Overruns(a)

RPush(q, x) ==
  LET e == EncodeDeqEntry(x)
      size == Len(e)
      n == Len(q.nodes)
      tail == q.nodes[n]
      cap == IF size > minDequeNodeSize THEN size ELSE minDequeNodeSize
      longer == [q EXCEPT !.len = @ + 1]
  IN CASE n = 0 -> [longer EXCEPT !.nodes = <<Node(e, cap)>>]
       [] n > 0 /\ Len(tail.buf) = tail.cap -> [longer EXCEPT !.nodes = Append(@, Node(e, cap))]
       [] OTHER ->
            [longer EXCEPT !.nodes[n] =
               Node(tail.buf \o e,
                    IF tail.cap - Len(tail.buf) < size THEN Len(tail.buf) + size ELSE tail.cap)]

\* Mutant: a head whose last entry is popped stays.
LPop_KeepsHead(q) ==
  LET idx == q.leftIdx + EntryLen(q.nodes[1].buf, q.leftIdx)
  IN [q EXCEPT !.len = @ - 1, !.leftIdx = idx, !.nodes[1].buf = Written(@, 0, Gap(idx))]

\* What is left of leftIdx is never read again: it is replaced by the gap.
LPop(q) ==
  LET head == q.nodes[1]
      idx == q.leftIdx + EntryLen(head.buf, q.leftIdx)
  IN IF idx = Len(head.buf) THEN [len |-> q.len - 1, nodes |-> Tail(q.nodes), leftIdx |-> 0]
     ELSE [q EXCEPT !.len = @ - 1, !.leftIdx = idx,
                    !.nodes[1].buf = Written(@, 0, Gap(idx))]

\* A tail that holds nothing but the gap stays.
RPop(q) ==
  LET n == Len(q.nodes)
      at == LastEntryAt(q.nodes[n].buf)
      left == [q EXCEPT !.len = @ - 1, !.nodes[n].buf = SubSeq(@, 1, at)]
  IN IF at > 0 THEN left
     ELSE [left EXCEPT !.nodes = Front(@), !.leftIdx = IF n = 1 THEN 0 ELSE @]

\* The deque has entries, and none where one is read from the left: RESTORE
\* allocates the gap of an emptied deque at its length and no more, so that
\* RPush adds a node behind it.
GapHead(q) == q.len > 0 /\ q.leftIdx = Len(q.nodes[1].buf)

\* The iterator's step: [x, node: where the entry is, next: the node and the
\* offset after it].
IterNext(q, it) ==
  LET buf == q.nodes[it.node].buf
      idx == it.idx + EntryLen(buf, it.idx)
  IN [x |-> DecodeDeqEntry(buf, it.idx), node |-> it.node,
      next |-> IF idx = Len(buf) THEN [node |-> it.node + 1, idx |-> 0]
               ELSE [node |-> it.node, idx |-> idx]]

\* The steps of an iteration over the deque.
Iteration(q) ==
  LET step[i \in 1..q.len] ==
        IterNext(q, IF i = 1 THEN [node |-> 1, idx |-> q.leftIdx] ELSE step[i - 1].next)
  IN step

Elems(q) == LET step == Iteration(q) IN [i \in 1..q.len |-> step[i].x]

\* Mutant: what was moved to the new node stays in the pivot's node too.
insertAfterPivotNode_KeepsRest(q, x, step) ==
  LET p == step.node
      at == step.next.idx
      rest == SubSeq(q.nodes, p + 1, Len(q.nodes))
      upTo == [q EXCEPT !.nodes = SubSeq(@, 1, p)]
      moved == IF at = 0 THEN <<>>
               ELSE <<Copied(SubSeq(q.nodes[p].buf, at + 1, Len(q.nodes[p].buf)))>>
  IN [RPush(upTo, x) EXCEPT !.nodes = @ \o moved \o rest]

insertAfterPivotNode(q, x, step) ==
  LET p == step.node
      at == step.next.idx
      rest == SubSeq(q.nodes, p + 1, Len(q.nodes))
      upTo == [q EXCEPT !.nodes = SubSeq(@, 1, p)]
  IN IF at = 0
     THEN [RPush(upTo, x) EXCEPT !.nodes = @ \o rest]
     ELSE LET buf == q.nodes[p].buf
              cut == [upTo EXCEPT !.nodes[p].buf = SubSeq(@, 1, at)]
          IN [RPush(cut, x) EXCEPT !.nodes = @ \o <<Copied(SubSeq(buf, at + 1, Len(buf)))>> \o rest]

insertBeforePivotHelper(q, pivot, x, step) ==
  LET p == step.node
      node == q.nodes[p]
      size == GetEncodeDeqEntrySize(pivot)
      leftIdx == IF p = 1 THEN q.leftIdx ELSE 0
      end == IF step.next.idx = 0 THEN Len(node.buf) ELSE step.next.idx
      elementNode == Node(EncodeDeqEntry(x), GetEncodeDeqEntrySize(x))
      Around(mid) == SubSeq(q.nodes, 1, p - 1) \o mid \o SubSeq(q.nodes, p + 1, Len(q.nodes))
      longer == [q EXCEPT !.len = @ + 1]
  IN IF end = size
     THEN [longer EXCEPT !.nodes = Around(<<elementNode, node>>)]
     ELSE [longer EXCEPT
             !.nodes = Around(<<Copied(SubSeq(node.buf, leftIdx + 1, end - size)), elementNode,
                                Node(SubSeq(node.buf, end - size + 1, Len(node.buf)),
                                     node.cap - (end - size))>>),
             !.leftIdx = IF p = 1 THEN 0 ELSE @]

LInsert(q, pivot, x, where) ==
  LET p == SelectInSeq(Elems(q), LAMBDA y : y = pivot)
      step == Iteration(q)[p]
      new == CASE where = "before" /\ p = 1 -> LPush(q, x)
               [] where = "before" /\ p > 1 -> insertBeforePivotHelper(q, pivot, x, step)
               [] where = "after" /\ p = q.len -> RPush(q, x)
               [] OTHER -> insertAfterPivotNode(q, x, step)
  IN IF p = 0 THEN q ELSE new

\* The pivot is compared with what entries are read as, the shortest form.
LInsertPanics(q, pivot, a, where) ==
  LET p == SelectInSeq(Elems(q), LAMBDA y : y = pivot.elem)
  IN \/ GapHead(q)
     \/ /\ pivot.padded = 0 /\ p > 0
        /\ IF where = "before" /\ p = 1 THEN LPushPanics(q, a) ELSE Overruns(a)

LRangePanics(q, start, stop) ==
  GapHead(q) /\ sanitizeStartIndex(q.len, start) <= sanitizeStopIndex(q.len, stop)

LRange(q, start, stop) ==
  SubSeq(Elems(q), sanitizeStartIndex(q.len, start) + 1, sanitizeStopIndex(q.len, stop) + 1)

\* DUMP writes the length, the left index and the buffers, gap included;
\* RESTORE allocates each buffer at its length.
SerializeDeque(q) == [len |-> q.len, leftIdx |-> q.leftIdx, bufs |-> [i \in DOMAIN q.nodes |-> q.nodes[i].buf]]
DeserializeDeque(d) ==
  [len |-> d.len, leftIdx |-> d.leftIdx,
   nodes |-> [i \in DOMAIN d.bufs |-> Node(d.bufs[i], Len(d.bufs[i]))]]

=============================================================================
