----------------------------- MODULE Collections ----------------------------
(***************************************************************************)
(* Hashes (hmap.go), sets and HyperLogLogs, with the evaluators of         *)
(* store_eval.go.                                                          *)
(*                                                                         *)
(* Fields are numbers, ordered as their names are.  The value of a field   *)
(* counts halves: an even number is an integer, an odd one has a fraction, *)
(* and Text is what no parser accepts.  A HyperLogLog is the set of the    *)
(* items it was given.                                                     *)
(*                                                                         *)
(* The ghost of a hash holds the exact values of its fields, but of those  *)
(* whose sum a float64 did not hold, and the scan a client is making of it.*)
(***************************************************************************)
EXTENDS TypedStore, SequencesExt

CONSTANTS
  Field,
  Counter,   \* the fields that are incremented
  Incr,      \* the increments given, in halves
  Text,
  MaxInt,    \* the largest int64, in halves
  MaxExact,  \* what a float64 holds exactly: 2^53 in the code, in halves
  MaxPlain,  \* what %v writes without an exponent: 10^6 in the code, in halves
  MaxFloat,  \* the largest float64, in halves
  Patterns,  \* the sets of fields the patterns of scans match
  Element    \* what sets and HyperLogLogs are given

ASSUME NumberAssumption ==
  /\ {MaxExact, MaxPlain, MaxInt, MaxFloat, Text} \subseteq Nat
  /\ MaxExact < MaxInt /\ MaxInt < MaxFloat /\ MaxFloat < Text
  /\ MaxInt % 2 = 0
  /\ Counter \subseteq Field /\ Field \cup Incr \subseteq Int

IsInt(v) == v % 2 = 0 /\ v \in (-MaxInt - 2)..MaxInt

\* int64 addition wraps around.
Wrapped(v) ==
  CASE v > MaxInt -> v - (2 * MaxInt + 4)
    [] v < -MaxInt - 2 -> v + (2 * MaxInt + 4)
    [] OTHER -> v

\* Beyond what it holds exactly, a float64 is a multiple of something: here
\* of two.
Rounded(v) == IF v \in -MaxExact..MaxExact THEN v ELSE (v \div 4) * 4

-----------------------------------------------------------------------------
(* HashMap *)

HSetField(h, f, v) == [x \in DOMAIN h \cup {f} |-> IF x = f THEN v ELSE h[x]]

HMap(k) == IF Exists(k) THEN Val(k) ELSE <<>>

NoScan == [cursor |-> 0, match |-> {}, must |-> {}, seen |-> {}, clean |-> TRUE]
HGhost(k) == GhostOr(k, [exact |-> <<>>, scan |-> NoScan])

PutHash(k, h, exact) == Write(k, Obj("ssmap", h), [HGhost(k) EXCEPT !.exact = exact])

\* The pairs are set one by one.
hashMapBuilder(h, pairs) == FoldLeft(LAMBDA m, p : HSetField(m, p[1], p[2]), h, pairs)

insertInHashMap(k, pairs) ==
  PutHash(k, hashMapBuilder(HMap(k), pairs), hashMapBuilder(HGhost(k).exact, pairs))

\* HSET, HMSET.  A field without a value is met when the pairs before it are
\* set: in place, when the hash is in the store.
EvalHSET(k, pairs, odd) ==
  \/ WrongType(k, "ssmap") /\ Answer(Err)
  \/ ~WrongType(k, "ssmap") /\ ~odd /\ insertInHashMap(k, pairs)
  \/ ~Exists(k) /\ odd /\ Answer(Err)
  \/ /\ Holds(k, "ssmap") /\ odd
     /\ store' = [store EXCEPT ![k].val = hashMapBuilder(@, pairs)]
     /\ ghost' = [ghost EXCEPT ![k].exact = hashMapBuilder(@, pairs)]
     /\ reply' = Err

EvalHSETNX(k, f, v) ==
  \/ WrongType(k, "ssmap") /\ Answer(Err)
  \/ ~WrongType(k, "ssmap") /\ f \in DOMAIN HMap(k) /\ Answer(OK)
  \/ ~WrongType(k, "ssmap") /\ f \notin DOMAIN HMap(k) /\ insertInHashMap(k, <<<<f, v>>>>)

\* Mutant: only the upper end is guarded.
Overflows_UpperOnly(i, n) == i > 0 /\ n > 0 /\ i > MaxInt - n

\* The sum of two int64 that incrementValue refuses.
Overflows(i, n) == (i > 0 /\ n > 0 /\ i > MaxInt - n) \/ (i < 0 /\ n < 0 /\ i < -MaxInt - 2 - n)

\* The sum of what the field is known to be, if there is one, and n.
ExactSum(exact, f, n) == n + (IF f \in DOMAIN exact THEN exact[f] ELSE 0)
Inexact(k, f) == f \in DOMAIN HMap(k) \ DOMAIN HGhost(k).exact

WithoutField(h, f) == [x \in DOMAIN h \ {f} |-> h[x]]

\* An integer that HINCRBYFLOAT wrote with an exponent is none to ParseInt:
\* which of the large values it wrote is not followed.
EvalHINCRBY(k, f, n) ==
  LET h == HMap(k)
      old == IF f \in DOMAIN h THEN h[f] ELSE 0
      exact == HGhost(k).exact
      refused == ~IsInt(n) \/ ~IsInt(old) \/ Overflows(old, n)
  IN \/ WrongType(k, "ssmap") /\ Answer(Err)
     \/ ~WrongType(k, "ssmap") /\ (refused \/ old \notin -MaxPlain..MaxPlain) /\ Answer(Err)
     \/ /\ ~WrongType(k, "ssmap") /\ ~refused
        /\ PutHash(k, HSetField(h, f, Wrapped(old + n)),
                   IF Inexact(k, f) THEN exact ELSE HSetField(exact, f, ExactSum(exact, f, n)))

\* inf and nan, which the parser of floats accepts, are left out.
EvalHINCRBYFLOAT(k, f, n) ==
  LET h == HMap(k)
      new == IF f \in DOMAIN h THEN Rounded(h[f] + n) ELSE n
      exact == HGhost(k).exact
      sum == ExactSum(exact, f, n)
  IN IF WrongType(k, "ssmap") \/ n = Text \/ (f \in DOMAIN h /\ h[f] = Text)
        \/ new \notin -MaxFloat..MaxFloat
     THEN Answer(Err)
     ELSE PutHash(k, HSetField(h, f, new),
                  IF Inexact(k, f) \/ sum \notin -MaxExact..MaxExact THEN WithoutField(exact, f)
                  ELSE HSetField(exact, f, sum))

\* The fields in the order HSCAN sorts them.
SortedFields(h) ==
  CHOOSE s \in [1..Cardinality(DOMAIN h) -> DOMAIN h] :
    \A i, j \in 1..Cardinality(DOMAIN h) : i < j => s[i] < s[j]

\* The deletion moves what follows the field up by one.
EvalHDEL(k, f) ==
  LET scan == ghost[k].scan
      behind == SelectInSeq(SortedFields(Val(k)), LAMBDA x : x = f) <= scan.cursor
  IN \/ ~Exists(k) /\ Answer(OK)
     \/ WrongType(k, "ssmap") /\ Answer(Err)
     \/ Holds(k, "ssmap") /\ f \notin DOMAIN Val(k) /\ Answer(OK)
     \/ /\ Holds(k, "ssmap") /\ f \in DOMAIN Val(k)
        /\ Write(k, Obj("ssmap", WithoutField(Val(k), f)),
                 [exact |-> WithoutField(ghost[k].exact, f),
                  scan |-> [scan EXCEPT !.must = @ \ {f}, !.clean = @ /\ ~behind]])

\* Mutant: the cursor passes one field too many.
newCursor_SkipsOne(full, len) == IF full = {} \/ Min(full) + 1 >= len THEN 0 ELSE Min(full) + 1

\* full: the positions at which the count is reached.
newCursor(full, len) == IF full = {} \/ Min(full) >= len THEN 0 ELSE Min(full)

\* One call of a scan, from the cursor the last one returned: it goes on
\* until count fields match.  A scan starts at 0, and gives the same pattern
\* (the fields it matches) all along.  Cursors below 0 index out of range.
EvalHSCAN(k, pattern, count) ==
  LET keys == SortedFields(Val(k))
      cursor == ghost[k].scan.cursor
      scan == IF cursor # 0 THEN ghost[k].scan
              ELSE [NoScan EXCEPT !.match = pattern, !.must = DOMAIN Val(k) \cap pattern]
      Matched(i) == {j \in (cursor + 1)..i : keys[j] \in scan.match}
      full == {i \in (cursor + 1)..Len(keys) : Cardinality(Matched(i)) = count}
      last == IF full = {} THEN Len(keys) ELSE Min(full)
  IN \/ WrongType(k, "ssmap") /\ Answer(Err)
     \/ ~Exists(k) /\ Answer(OK)
     \/ Holds(k, "ssmap") /\ count < 1 /\ Answer(Err)
     \/ /\ Holds(k, "ssmap") /\ count >= 1
        /\ Write(k, store[k],
                 [ghost[k] EXCEPT !.scan =
                    [scan EXCEPT !.cursor = newCursor(full, Len(keys)),
                                 !.seen = @ \cup {keys[j] : j \in Matched(last)}]])

\* The reads: what they return of the fields.
HashRead(k, none, F(_)) ==
  IF ~Exists(k) THEN none ELSE IF ~Holds(k, "ssmap") THEN Err ELSE F(Val(k))

EvalHGET(k, f) == HashRead(k, Nil, LAMBDA h : IF f \in DOMAIN h THEN h[f] ELSE Nil)
EvalHMGET(k, fs) == HashRead(k, [i \in DOMAIN fs |-> Nil], LAMBDA h : [i \in DOMAIN fs |-> EvalHGET(k, fs[i])])
EvalHGETALL(k) == HashRead(k, {}, LAMBDA h : {<<f, h[f]>> : f \in DOMAIN h})
EvalHKEYS(k) == HashRead(k, {}, LAMBDA h : DOMAIN h)
EvalHVALS(k) == HashRead(k, <<>>, LAMBDA h : [i \in 1..Cardinality(DOMAIN h) |-> h[SetToSeq(DOMAIN h)[i]]])
EvalHLEN(k) == HashRead(k, 0, LAMBDA h : Cardinality(DOMAIN h))
EvalHEXISTS(k, f) == HashRead(k, FALSE, LAMBDA h : f \in DOMAIN h)

\* What HRANDFIELD may return: distinct fields for a positive count, any for
\* a negative one.
EvalHRANDFIELD(k, count) ==
  HashRead(k, {<<>>}, LAMBDA h :
    IF count > 0
    THEN {s \in [1..Min({count, Cardinality(DOMAIN h)}) -> DOMAIN h] :
            Cardinality(Range(s)) = Len(s)}
    ELSE [1..(-count) -> DOMAIN h])

-----------------------------------------------------------------------------
(* Sets *)

EvalSADD(k, xs) ==
  \/ WrongType(k, "set") /\ Answer(Err)
  \/ ~WrongType(k, "set")
     /\ Write(k, Obj("set", (IF Exists(k) THEN Val(k) ELSE {}) \cup xs), Nil)

EvalSREM(k, xs) ==
  \/ ~Exists(k) /\ Answer(OK)
  \/ WrongType(k, "set") /\ Answer(Err)
  \/ Holds(k, "set") /\ Write(k, Obj("set", Val(k) \ xs), Nil)

EvalSMEMBERS(k) == IF ~Exists(k) THEN {} ELSE IF ~Holds(k, "set") THEN Err ELSE Val(k)
EvalSCARD(k) == IF ~Exists(k) THEN 0 ELSE IF ~Holds(k, "set") THEN Err ELSE Cardinality(Val(k))

-----------------------------------------------------------------------------
(* HyperLogLogs *)

HLL(k) == IF Exists(k) THEN Val(k) ELSE {}

EvalPFADD(k, xs) ==
  \/ WrongType(k, "hll") /\ Answer(Err)
  \/ ~WrongType(k, "hll") /\ Write(k, Obj("hll", HLL(k) \cup xs), Nil)

\* The sources are merged in turn, into the destination when it is in the
\* store, before one that is no HyperLogLog is met.  Missing sources count
\* for nothing.
EvalPFMERGE(k, srcs) ==
  LET bad == SelectInSeq(srcs, LAMBDA j : WrongType(j, "hll"))
      used == IF bad = 0 THEN srcs ELSE SubSeq(srcs, 1, bad - 1)
      merged == HLL(k) \cup UNION {HLL(j) : j \in Range(used)}
  IN IF WrongType(k, "hll") \/ (bad > 0 /\ ~Exists(k)) THEN Answer(Err)
     ELSE /\ store' = [store EXCEPT ![k] = Obj("hll", merged)]
          /\ reply' = IF bad > 0 THEN Err ELSE OK
          /\ UNCHANGED ghost

\* The items a count is an estimate of.
EvalPFCOUNT(ks) ==
  IF \E k \in ks : WrongType(k, "hll") THEN Err ELSE Cardinality(UNION {HLL(k) : k \in ks})

-----------------------------------------------------------------------------

\* Only counters are given numbers.
FieldValues == (Field \X {Text}) \cup (Counter \X {0})

HashNext(k) ==
  \/ \E p, q \in FieldValues, odd \in BOOLEAN : EvalHSET(k, <<p, q>>, odd)
  \/ \E p \in FieldValues : EvalHSETNX(k, p[1], p[2])
  \/ \E f \in Field : EvalHDEL(k, f)
  \/ \E f \in Counter, n \in Incr \cup {Text} : EvalHINCRBY(k, f, n) \/ EvalHINCRBYFLOAT(k, f, n)
  \/ \E pattern \in Patterns, count \in {0, 1, 2} : EvalHSCAN(k, pattern, count)

SetNext(k) == \E xs \in SUBSET Element \ {{}} : EvalSADD(k, xs) \/ EvalSREM(k, xs)

HLLNext(k) ==
  \/ \E xs \in SUBSET Element : EvalPFADD(k, xs)
  \/ \E i, j \in Key : EvalPFMERGE(k, <<i, j>>)

=============================================================================
