--------------------------- MODULE KeyspaceProofs ---------------------------
(***************************************************************************)
(* Keyspace keeps its store consistent: the two maps and the two counters  *)
(* agree after every command, tick and sweep, for any keys, objects,       *)
(* options and bounds.  The invariants TLC checks on small instances are   *)
(* parts of the inductive invariant Consistent(db).                        *)
(*                                                                         *)
(* From that invariant: a shard implements the cache TTLCache promises its *)
(* clients, and evicts the least recently used keys.  The refinement goes  *)
(* through View(s, t), what clients see of a store s at time t.  One lemma *)
(* says what each method of the store does to the view; one lemma per      *)
(* command maps it to the command of the cache.                            *)
(***************************************************************************)
EXTENDS Keyspace, FiniteSetTheorems, TLAPS

-----------------------------------------------------------------------------
(* The methods of the store *)

LEMMA StoredFinite ==
  ASSUME NEW s
  PROVE  /\ IsFiniteSet(Stored(s))
         /\ Cardinality(Stored(s)) \in Nat
BY KeyAssumption, FS_Subset, FS_CardinalityType DEF Stored

LEMMA EmptyStoreConsistent == Consistent(EmptyStore)
<1>1. Stored(EmptyStore) = {}
  BY DEF Stored, EmptyStore
<1>2. Cardinality(Stored(EmptyStore)) = 0
  BY <1>1, FS_EmptySet
<1>3. EmptyStore \in StoreType
  BY DEF EmptyStore, StoreType
<1>4. NoOrphan(EmptyStore)
  BY DEF NoOrphan, EmptyStore
<1> QED
  BY <1>1, <1>2, <1>3, <1>4, MaxKeysAssumption
  DEF Consistent, NoDangling, Injective, CountExact, CountBounded, LenCovers, EmptyStore

\* Collecting garbage changes no map, no counter and no object in use.
LEMMA CollectConsistent ==
  ASSUME NEW s, Consistent(s)
  PROVE  Consistent(Collect(s))
<1> DEFINE c == Collect(s)
<1>1. /\ s \in StoreType
      /\ c.store = s.store /\ c.expires = s.expires
      /\ c.numKeys = s.numKeys /\ c.len = s.len
      /\ c.heap = [o \in Obj |-> IF o \in Referenced(s) THEN s.heap[o] ELSE Nil]
  BY DEF Consistent, StoreType, Collect
<1>2. Stored(c) = Stored(s)
  BY <1>1 DEF Stored
<1>3. c \in StoreType
  BY <1>1 DEF StoreType, Collect
<1>4. NoDangling(c)
  <2> SUFFICES ASSUME NEW k \in Stored(c) PROVE c.heap[c.store[k]] \in Cell
    BY DEF NoDangling
  <2>1. k \in Key /\ s.store[k] \in Obj /\ s.store[k] \in Referenced(s)
    BY <1>1, <1>2 DEF Stored, StoreType, Referenced
  <2>2. s.heap[s.store[k]] \in Cell
    BY <1>2 DEF Consistent, NoDangling
  <2> QED BY <1>1, <2>1, <2>2
<1> QED
  BY <1>1, <1>2, <1>3, <1>4
  DEF Consistent, Injective, NoOrphan, CountExact, CountBounded, LenCovers

LEMMA DelKeysConsistent ==
  ASSUME NEW s, Consistent(s), NEW D
  PROVE  /\ Consistent(DelKeys(s, D))
         /\ Stored(DelKeys(s, D)) = Stored(s) \ D
         /\ DelKeys(s, D).heap = s.heap
<1> DEFINE gone == D \cap Stored(s)
           d == DelKeys(s, D)
<1>1. /\ s \in StoreType
      /\ d.store = [k \in Key |-> IF k \in gone THEN Nil ELSE s.store[k]]
      /\ d.expires = [o \in Obj |-> IF \E k \in gone : s.store[k] = o
                                    THEN NoExpiry ELSE s.expires[o]]
      /\ d.numKeys = s.numKeys - Cardinality(gone)
      /\ d.len = s.len - Cardinality(gone)
      /\ d.heap = s.heap
  BY DEF Consistent, StoreType, DelKeys
<1>2. Stored(d) = Stored(s) \ D
  BY <1>1 DEF Stored
<1>3. /\ Cardinality(Stored(d)) = Cardinality(Stored(s)) - Cardinality(gone)
      /\ Cardinality(gone) \in Nat
      /\ Cardinality(Stored(s)) \in Nat
  <2>1. IsFiniteSet(Stored(s)) /\ Cardinality(Stored(s)) \in Nat
    BY StoredFinite
  <2>2. Stored(s) \cap D = gone
    OBVIOUS
  <2>3. IsFiniteSet(gone) /\ Cardinality(gone) \in Nat
    BY <2>1, FS_Subset, FS_CardinalityType
  <2> QED BY <1>2, <2>1, <2>2, <2>3, FS_Difference
<1>4. d \in StoreType
  BY <1>1, <1>3 DEF StoreType, DelKeys
<1>5. NoDangling(d)
  BY <1>1, <1>2 DEF Consistent, NoDangling, Stored
<1>6. Injective(d)
  BY <1>1, <1>2 DEF Consistent, Injective, Stored
<1>7. NoOrphan(d)
  <2> SUFFICES ASSUME NEW o \in Obj, d.expires[o] # NoExpiry
               PROVE  \E k \in Key : d.store[k] = o
    BY DEF NoOrphan
  <2>1. ~(\E k \in gone : s.store[k] = o) /\ s.expires[o] # NoExpiry
    BY <1>1
  <2>2. PICK k \in Key : s.store[k] = o
    BY <2>1 DEF Consistent, NoOrphan
  <2> QED BY <1>1, <2>1, <2>2
<1>8. CountExact(d) /\ CountBounded(d) /\ LenCovers(d)
  BY <1>1, <1>3, MaxKeysAssumption
  DEF Consistent, CountExact, CountBounded, LenCovers, StoreType
<1> QED
  BY <1>1, <1>2, <1>4, <1>5, <1>6, <1>7, <1>8 DEF Consistent

\* A read leaves a consistent store, and the key either absent or as it was
\* with an object that has not expired.
LEMMA GetConsistent ==
  ASSUME NEW s, Consistent(s), NEW k \in Key, NEW t \in Nat
  PROVE  /\ Consistent(GetNoTouch(s, k, t))
         /\ Consistent(Get(s, k, t))
<1> DEFINE g == GetNoTouch(s, k, t)
           o == g.store[k]
           u == Touch(g, o, t)
<1>1. Consistent(g)
  BY DelKeysConsistent DEF GetNoTouch
<1>2. CASE o = Nil
  BY <1>1, <1>2 DEF Get
<1>3. CASE o # Nil
  <2>1. g \in StoreType /\ k \in Stored(g) /\ o \in Obj
    BY <1>1, <1>3 DEF Consistent, StoreType, Stored
  <2>2. g.heap[o] \in Cell
    BY <1>1, <2>1 DEF Consistent, NoDangling
  <2>3. [g.heap[o] EXCEPT !.last = t] \in Cell
    BY <2>2 DEF Cell
  <2>4. /\ u.store = g.store /\ u.expires = g.expires
        /\ u.numKeys = g.numKeys /\ u.len = g.len
        /\ u.heap = [g.heap EXCEPT ![o] = [g.heap[o] EXCEPT !.last = t]]
    BY <2>1 DEF StoreType, Touch
  <2>5. Stored(u) = Stored(g)
    BY <2>4 DEF Stored
  <2>6. u \in StoreType
    BY <2>1, <2>3, <2>4 DEF StoreType, Touch
  <2>7. NoDangling(u)
    BY <1>1, <2>1, <2>3, <2>4, <2>5 DEF Consistent, NoDangling, StoreType, Stored
  <2>8. Consistent(u)
    BY <1>1, <2>4, <2>5, <2>6, <2>7
    DEF Consistent, Injective, NoOrphan, CountExact, CountBounded, LenCovers
  <2> QED BY <1>1, <1>3, <2>8 DEF Get
<1> QED BY <1>1, <1>2, <1>3

\* Changing the deadline of an object the store holds.
LEMMA ExpiryConsistent ==
  ASSUME NEW s, Consistent(s), NEW k \in Stored(s), NEW at \in Int
  PROVE  /\ Consistent(SetUnixTimeExpiry(s, s.store[k], at))
         /\ Consistent(DelExpiry(s, s.store[k]))
<1> DEFINE o == s.store[k]
<1>1. s \in StoreType /\ k \in Key /\ o \in Obj
  BY DEF Consistent, StoreType, Stored
<1>2. ASSUME NEW x \in Int \cup {NoExpiry}
      PROVE  Consistent([s EXCEPT !.expires[o] = x])
  <2> DEFINE e == [s EXCEPT !.expires[o] = x]
  <2>1. /\ e.store = s.store /\ e.heap = s.heap
        /\ e.numKeys = s.numKeys /\ e.len = s.len
        /\ e.expires = [s.expires EXCEPT ![o] = x]
    BY <1>1 DEF StoreType
  <2>2. Stored(e) = Stored(s)
    BY <2>1 DEF Stored
  <2>3. e \in StoreType
    BY <1>1, <2>1 DEF StoreType
  <2>4. NoOrphan(e)
    BY <1>1, <2>1 DEF Consistent, NoOrphan, StoreType
  <2> QED
    BY <2>1, <2>2, <2>3, <2>4
    DEF Consistent, NoDangling, Injective, CountExact, CountBounded, LenCovers
<1> QED BY <1>2 DEF SetUnixTimeExpiry, DelExpiry

\* Replacing the value of an object the store holds.
LEMMA UpdateConsistent ==
  ASSUME NEW s, Consistent(s), NEW k \in Stored(s), NEW v \in Value
  PROVE  Consistent([s EXCEPT !.heap[s.store[k]] = [s.heap[s.store[k]] EXCEPT !.val = v]])
<1> DEFINE o == s.store[k]
           c == [s.heap[o] EXCEPT !.val = v]
           u == [s EXCEPT !.heap[o] = c]
<1>1. s \in StoreType /\ k \in Key /\ o \in Obj /\ s.heap[o] \in Cell
  BY DEF Consistent, StoreType, Stored, NoDangling
<1>2. c \in Cell
  BY <1>1 DEF Cell
<1> HIDE DEF c
<1>3. /\ u.store = s.store /\ u.expires = s.expires
      /\ u.numKeys = s.numKeys /\ u.len = s.len
      /\ u.heap = [s.heap EXCEPT ![o] = c]
  BY <1>1 DEF StoreType
<1>4. Stored(u) = Stored(s)
  BY <1>3 DEF Stored
<1>5. u \in StoreType
  BY <1>1, <1>2, <1>3 DEF StoreType
<1>6. NoDangling(u)
  BY <1>1, <1>2, <1>3, <1>4 DEF Consistent, NoDangling, StoreType, Stored
<1>7. Consistent(u)
  BY <1>3, <1>4, <1>5, <1>6
  DEF Consistent, Injective, NoOrphan, CountExact, CountBounded, LenCovers
<1> QED BY <1>7 DEF c

\* Adding a key with a new object to a store that has room for it.
Adds(d, k, o, at, c, r) ==
  /\ r.store = [d.store EXCEPT ![k] = o]
  /\ r.expires = [d.expires EXCEPT ![o] = at]
  /\ r.heap = [d.heap EXCEPT ![o] = c]
  /\ r.numKeys = d.numKeys + 1
  /\ r.len = d.len + 1

LEMMA AddConsistent ==
  ASSUME NEW d, Consistent(d), NEW k \in Key, k \notin Stored(d), NEW o \in Obj,
         \A j \in Key : d.store[j] # o,
         Cardinality(Stored(d)) < MaxKeys,
         NEW at \in Int \cup {NoExpiry}, NEW c \in Cell, NEW r \in StoreType,
         Adds(d, k, o, at, c, r)
  PROVE  Consistent(r)
<1> USE DEF Adds
<1>1. d \in StoreType /\ k \in Key /\ o # Nil
  BY ObjAssumption DEF Consistent
<1>2. Stored(r) = Stored(d) \cup {k}
  BY <1>1 DEF Stored, StoreType
<1>3. /\ Cardinality(Stored(r)) = Cardinality(Stored(d)) + 1
      /\ Cardinality(Stored(d)) \in Nat
  BY <1>2, StoredFinite, FS_AddElement
<1>5. NoDangling(r)
  <2> SUFFICES ASSUME NEW j \in Stored(r) PROVE r.heap[r.store[j]] \in Cell
    BY DEF NoDangling
  <2>1. CASE j = k
    BY <1>1, <2>1 DEF StoreType
  <2>2. CASE j # k
    <3>1. j \in Key /\ j \in Stored(d)
      BY <1>2, <2>2 DEF Stored
    <3>2. r.store[j] = d.store[j] /\ d.store[j] \in Obj /\ d.store[j] # o
      BY <1>1, <2>2, <3>1 DEF StoreType, Stored
    <3>3. d.heap[d.store[j]] \in Cell
      BY <3>1 DEF Consistent, NoDangling
    <3> QED BY <1>1, <3>2, <3>3 DEF StoreType
  <2> QED BY <2>1, <2>2
<1>6. Injective(r)
  BY <1>1, <1>2 DEF Consistent, Injective, StoreType, Stored
<1>7. NoOrphan(r)
  <2> SUFFICES ASSUME NEW x \in Obj, r.expires[x] # NoExpiry
               PROVE  \E j \in Key : r.store[j] = x
    BY DEF NoOrphan
  <2>1. CASE x = o
    BY <1>1, <2>1 DEF StoreType
  <2>2. CASE x # o
    <3>1. d.expires[x] # NoExpiry
      BY <1>1, <2>2 DEF StoreType
    <3>2. PICK j \in Key : d.store[j] = x
      BY <3>1 DEF Consistent, NoOrphan
    <3>3. j # k
      BY <3>2, <1>1, ObjAssumption DEF Stored
    <3> QED BY <1>1, <3>2, <3>3 DEF StoreType
  <2> QED BY <2>1, <2>2
<1>8. CountExact(r) /\ CountBounded(r) /\ LenCovers(r)
  BY <1>1, <1>3, MaxKeysAssumption
  DEF Consistent, CountExact, CountBounded, LenCovers, StoreType
<1> QED BY <1>5, <1>6, <1>7, <1>8 DEF Consistent

\* Replacing the object of a key by a new one.
Replaces(s, k, o, at, c, r) ==
  /\ r.store = [s.store EXCEPT ![k] = o]
  /\ r.expires = [x \in Obj |-> IF x = s.store[k] THEN NoExpiry
                                ELSE IF x = o THEN at ELSE s.expires[x]]
  /\ r.heap = [s.heap EXCEPT ![o] = c]
  /\ r.numKeys = s.numKeys
  /\ r.len = s.len + 1

LEMMA ReplaceConsistent ==
  ASSUME NEW s, Consistent(s), NEW k \in Stored(s), NEW o \in Obj,
         \A j \in Key : s.store[j] # o,
         NEW at \in Int \cup {NoExpiry}, NEW c \in Cell, NEW r \in StoreType,
         Replaces(s, k, o, at, c, r)
  PROVE  Consistent(r)
<1> USE DEF Replaces
<1>1. s \in StoreType /\ k \in Key /\ o # Nil /\ s.store[k] \in Obj
  BY ObjAssumption DEF Consistent, Stored, StoreType
<1>2. Stored(r) = Stored(s)
  BY <1>1 DEF Stored, StoreType
<1>4. NoDangling(r)
  <2> SUFFICES ASSUME NEW j \in Stored(s) PROVE r.heap[r.store[j]] \in Cell
    BY <1>2 DEF NoDangling
  <2>1. CASE j = k
    BY <1>1, <2>1 DEF StoreType
  <2>2. CASE j # k
    <3>1. j \in Key /\ r.store[j] = s.store[j] /\ s.store[j] \in Obj /\ s.store[j] # o
      BY <1>1, <2>2 DEF StoreType, Stored
    <3>2. s.heap[s.store[j]] \in Cell
      BY DEF Consistent, NoDangling
    <3> QED BY <1>1, <3>1, <3>2 DEF StoreType
  <2> QED BY <2>1, <2>2
<1>5. Injective(r)
  BY <1>1, <1>2 DEF Consistent, Injective, StoreType, Stored
<1>6. NoOrphan(r)
  <2> SUFFICES ASSUME NEW x \in Obj, r.expires[x] # NoExpiry
               PROVE  \E j \in Key : r.store[j] = x
    BY DEF NoOrphan
  <2>1. CASE x = o
    BY <1>1, <2>1 DEF StoreType
  <2>2. CASE x # o
    <3>1. s.expires[x] # NoExpiry /\ x # s.store[k]
      BY <1>1, <2>2 DEF StoreType
    <3>2. PICK j \in Key : s.store[j] = x
      BY <3>1 DEF Consistent, NoOrphan
    <3> QED BY <1>1, <3>1, <3>2 DEF StoreType
  <2> QED BY <2>1, <2>2
<1>7. CountExact(r) /\ CountBounded(r) /\ LenCovers(r)
  <2>1. Cardinality(Stored(s)) \in Nat
    BY StoredFinite
  <2> QED
    BY <1>1, <1>2, <2>1 DEF Consistent, CountExact, CountBounded, LenCovers, StoreType
<1> QED BY <1>4, <1>5, <1>6, <1>7 DEF Consistent

\* Evicting makes room: fewer than maxKeys keys are left.
LEMMA EvictMakesRoom ==
  ASSUME NEW s, CountExact(s), CountBounded(s), NEW V \in VictimSets(s, ShouldEvict(s))
  PROVE  /\ V \subseteq Stored(s)
         /\ Cardinality(Stored(s) \ V) < MaxKeys
<1> DEFINE m == Cardinality(Stored(s))
           n == ShouldEvict(s)
<1>1. /\ V \subseteq Stored(s)
      /\ Cardinality(V) = n \/ V = Stored(s)
  BY DEF VictimSets
<1>2. m \in Nat /\ IsFiniteSet(Stored(s)) /\ m <= MaxKeys /\ s.numKeys = m
  BY StoredFinite DEF CountExact, CountBounded
<1>3. Cardinality(V) \in Nat /\ Cardinality(Stored(s) \ V) = m - Cardinality(V)
  <2>1. IsFiniteSet(V) /\ Cardinality(V) \in Nat
    BY <1>1, <1>2, FS_Subset, FS_CardinalityType
  <2>2. Stored(s) \cap V = V
    BY <1>1
  <2>3. Cardinality(Stored(s) \ V) = Cardinality(Stored(s)) - Cardinality(Stored(s) \cap V)
    BY <1>2, FS_Difference
  <2> QED BY <2>1, <2>2, <2>3
<1>4. CASE m < MaxKeys
  <2> HIDE DEF m
  <2> QED BY <1>1, <1>2, <1>3, <1>4, MaxKeysAssumption
<1>5. CASE ~(m < MaxKeys)
  <2>1. EvictTarget \in Int
    BY MaxKeysAssumption DEF EvictTarget
  <2>2. n >= 1 /\ n \in Int
    BY <1>2, <1>5, <2>1 DEF ShouldEvict
  <2> HIDE DEF m, n
  <2>3. CASE Cardinality(V) = n
    BY <1>1, <1>2, <1>3, <2>2, <2>3, MaxKeysAssumption
  <2>4. CASE V = Stored(s)
    BY <1>1, <1>2, <1>3, <2>4, MaxKeysAssumption DEF m
  <2> QED BY <1>1, <2>3, <2>4 DEF n
<1> QED BY <1>1, <1>4, <1>5

\* putHelper with a new object, the way SET, GETSET, INCR and HSET write: the
\* object of k is replaced, or k is added once the victims V are gone.
PutResult(s, k, o, v, at, keep, t, r) ==
  LET c   == [val |-> v, last |-> t]
      cur == s.store[k]
      a   == IF keep /\ s.expires[cur] # NoExpiry /\ s.expires[cur] > 0
             THEN s.expires[cur] ELSE at
  IN  \/ cur # Nil /\ Replaces(s, k, o, a, c, r)
      \/ /\ cur = Nil
         /\ \E V \in VictimSets(NewObj(s, o, v, at, t), ShouldEvict(s)) :
              Adds(DelKeys(s, V), k, o, at, c, r)

LEMMA PutShape ==
  ASSUME NEW s, Consistent(s), NEW k \in Key, NEW o \in Fresh(s), NEW v \in Value,
         NEW at \in Int \cup {NoExpiry}, NEW keep \in BOOLEAN, NEW t \in Nat,
         NEW r \in Put(NewObj(s, o, v, at, t), k, o, keep, t)
  PROVE  /\ r \in StoreType
         /\ PutResult(s, k, o, v, at, keep, t, r)
<1> DEFINE c == [val |-> v, last |-> t]
           n == NewObj(s, o, v, at, t)
<1>1. /\ s \in StoreType /\ o \in Obj /\ c \in Cell
      /\ \A j \in Key : s.store[j] # o
  BY DEF Consistent, Fresh, Referenced, Cell
<1>2. /\ n \in StoreType
      /\ n.store = s.store /\ n.numKeys = s.numKeys /\ n.len = s.len
      /\ n.expires = [s.expires EXCEPT ![o] = at]
      /\ n.heap = [s.heap EXCEPT ![o] = c]
  BY <1>1 DEF NewObj, StoreType
<1>0. [c EXCEPT !.last = t] = c
  OBVIOUS
<1> HIDE DEF n, c
<1>3. Stored(n) = Stored(s)
  BY <1>2 DEF Stored
<1>4. CASE s.store[k] # Nil
  <2>1. k \in Stored(s) /\ s.store[k] \in Obj /\ s.store[k] # o
    BY <1>1, <1>4 DEF Stored, StoreType
  <2>2. r = Overwrite(n, k, o, keep, t)
    BY <1>2, <1>4 DEF Put, n
  <2> DEFINE cur == s.store[k]
             a == IF keep /\ s.expires[cur] # NoExpiry /\ s.expires[cur] > 0
                  THEN s.expires[cur] ELSE at
  <2>3. a \in Int \cup {NoExpiry}
    BY <1>1, <2>1 DEF StoreType
  <2>4. /\ r.store = [s.store EXCEPT ![k] = o]
        /\ r.expires = [[s.expires EXCEPT ![o] = a] EXCEPT ![cur] = NoExpiry]
        /\ r.heap = [s.heap EXCEPT ![o] = c]
        /\ r.numKeys = s.numKeys
        /\ r.len = s.len + 1
    BY <1>0, <1>1, <1>2, <2>1, <2>2 DEF Overwrite, StoreType
  <2> HIDE DEF a
  <2>5. r.expires = [x \in Obj |-> IF x = s.store[k] THEN NoExpiry
                                   ELSE IF x = o THEN a ELSE s.expires[x]]
    BY <1>1, <2>1, <2>4 DEF StoreType
  <2>6. r \in StoreType
    <3>1. r = [store |-> r.store, expires |-> r.expires, heap |-> r.heap,
               numKeys |-> r.numKeys, len |-> r.len]
      BY <2>2 DEF Overwrite
    <3>2. /\ r.store \in [Key -> Obj \cup {Nil}]
          /\ r.expires \in [Obj -> Int \cup {NoExpiry}]
          /\ r.heap \in [Obj -> Cell \cup {Nil}]
          /\ r.numKeys \in Int /\ r.len \in Int
      BY <1>1, <2>1, <2>3, <2>4 DEF StoreType
    <3> QED BY <3>1, <3>2 DEF StoreType
  <2>7. Replaces(s, k, o, a, c, r)
    BY <2>4, <2>5 DEF Replaces
  <2> QED BY <1>4, <2>6, <2>7 DEF PutResult, c, a
<1>5. CASE s.store[k] = Nil
  <2>1. PICK V \in VictimSets(n, ShouldEvict(n)) : r = Insert(DelKeys(n, V), k, o, t)
    BY <1>2, <1>5 DEF Put, EvictVictims, n
  <2>2. CountExact(n) /\ CountBounded(n)
    BY <1>2, <1>3 DEF Consistent, CountExact, CountBounded
  <2> DEFINE d == DelKeys(s, V)
             e == DelKeys(n, V)
  <2>3. /\ Consistent(d) /\ Stored(d) = Stored(s) \ V /\ d.heap = s.heap
        /\ Cardinality(Stored(d)) < MaxKeys
    BY <1>3, <2>2, DelKeysConsistent, EvictMakesRoom
  <2>4. d \in StoreType /\ \A j \in Key : d.store[j] # o
    BY <1>1, <2>3, ObjAssumption DEF Consistent, DelKeys
  <2>5. k \notin Stored(d)
    BY <1>5, <2>3 DEF Stored
  <2>6. /\ e.store = d.store /\ e.numKeys = d.numKeys /\ e.len = d.len
        /\ e.heap = [d.heap EXCEPT ![o] = c]
    BY <1>2, <1>3, <2>3 DEF DelKeys
  <2>7. e.expires = [d.expires EXCEPT ![o] = at]
    <3> DEFINE hit(x) == \E j \in V \cap Stored(s) : s.store[j] = x
    <3>1. d.expires = [x \in Obj |-> IF hit(x) THEN NoExpiry ELSE s.expires[x]]
      BY DEF DelKeys
    <3>2. e.expires = [x \in Obj |-> IF hit(x) THEN NoExpiry ELSE n.expires[x]]
      BY <1>2, <1>3 DEF DelKeys
    <3>3. ~hit(o)
      BY <1>1 DEF Stored
    <3> HIDE DEF hit, d, e
    <3> QED BY <1>1, <1>2, <3>1, <3>2, <3>3 DEF StoreType
  <2> HIDE DEF d, e
  <2>8. /\ r.store = [d.store EXCEPT ![k] = o]
        /\ r.expires = [d.expires EXCEPT ![o] = at]
        /\ r.numKeys = d.numKeys + 1
        /\ r.len = d.len + 1
    BY <2>1, <2>6, <2>7 DEF Insert, e
  <2>9. r.heap = [d.heap EXCEPT ![o] = c]
    BY <1>0, <1>1, <2>1, <2>4, <2>6 DEF Insert, StoreType, e
  <2>10. r \in StoreType
    <3>1. r = [store |-> r.store, expires |-> r.expires, heap |-> r.heap,
               numKeys |-> r.numKeys, len |-> r.len]
      BY <2>1 DEF Insert
    <3>2. /\ r.store \in [Key -> Obj \cup {Nil}]
          /\ r.expires \in [Obj -> Int \cup {NoExpiry}]
          /\ r.heap \in [Obj -> Cell \cup {Nil}]
          /\ r.numKeys \in Int /\ r.len \in Int
      BY <1>1, <2>4, <2>8, <2>9 DEF StoreType
    <3> QED BY <3>1, <3>2 DEF StoreType
  <2>11. Adds(d, k, o, at, c, r)
    BY <2>8, <2>9 DEF Adds
  <2>12. ShouldEvict(n) = ShouldEvict(s)
    BY <1>2 DEF ShouldEvict
  <2> QED BY <1>5, <2>1, <2>10, <2>11, <2>12 DEF PutResult, c, d, n
<1> QED BY <1>4, <1>5

LEMMA PutConsistent ==
  ASSUME NEW s, Consistent(s), NEW k \in Key, NEW o \in Fresh(s), NEW v \in Value,
         NEW at \in Int \cup {NoExpiry}, NEW keep \in BOOLEAN, NEW t \in Nat,
         NEW r \in Put(NewObj(s, o, v, at, t), k, o, keep, t)
  PROVE  Consistent(r)
<1> DEFINE c == [val |-> v, last |-> t]
           n == NewObj(s, o, v, at, t)
           cur == s.store[k]
           a == IF keep /\ s.expires[cur] # NoExpiry /\ s.expires[cur] > 0
                THEN s.expires[cur] ELSE at
<1>1. r \in StoreType /\ PutResult(s, k, o, v, at, keep, t, r)
  BY PutShape
<1>2. /\ s \in StoreType /\ o \in Obj /\ c \in Cell
      /\ \A j \in Key : s.store[j] # o
  BY DEF Consistent, Fresh, Referenced, Cell
<1>3. \/ cur # Nil /\ Replaces(s, k, o, a, c, r)
      \/ cur = Nil /\ \E V \in VictimSets(n, ShouldEvict(s)) : Adds(DelKeys(s, V), k, o, at, c, r)
  BY <1>1 DEF PutResult
<1> HIDE DEF c, n, a
<1>4. CASE cur # Nil /\ Replaces(s, k, o, a, c, r)
  <2>1. k \in Stored(s) /\ cur \in Obj
    BY <1>2, <1>4 DEF Stored, StoreType
  <2>2. a \in Int \cup {NoExpiry}
    BY <1>2, <2>1 DEF StoreType, a
  <2> QED BY <1>1, <1>2, <1>4, <2>1, <2>2, ReplaceConsistent
<1>5. CASE cur = Nil /\ \E V \in VictimSets(n, ShouldEvict(s)) : Adds(DelKeys(s, V), k, o, at, c, r)
  <2>1. PICK V \in VictimSets(n, ShouldEvict(s)) : Adds(DelKeys(s, V), k, o, at, c, r)
    BY <1>5
  <2>2. n.store = s.store /\ n.numKeys = s.numKeys
    BY <1>2 DEF NewObj, StoreType, n
  <2>3. Stored(n) = Stored(s) /\ ShouldEvict(n) = ShouldEvict(s)
    BY <2>2 DEF Stored, ShouldEvict
  <2>4. CountExact(n) /\ CountBounded(n)
    BY <2>2, <2>3 DEF Consistent, CountExact, CountBounded
  <2>5. Cardinality(Stored(s) \ V) < MaxKeys
    BY <2>1, <2>3, <2>4, EvictMakesRoom
  <2> DEFINE d == DelKeys(s, V)
  <2>6. Consistent(d) /\ Stored(d) = Stored(s) \ V
    BY DelKeysConsistent
  <2>7. \A j \in Key : d.store[j] # o
    BY <1>2, ObjAssumption DEF DelKeys
  <2>8. k \notin Stored(d) /\ Cardinality(Stored(d)) < MaxKeys
    BY <1>5, <2>5, <2>6 DEF Stored
  <2> HIDE DEF d
  <2>9. Adds(d, k, o, at, c, r)
    BY <2>1 DEF d
  <2> QED BY <1>1, <1>2, <2>6, <2>7, <2>8, <2>9, AddConsistent
<1> QED BY <1>3, <1>4, <1>5

-----------------------------------------------------------------------------
(* Values, deadlines and replies *)

LEMMA WrapType ==
  ASSUME NEW n \in Int
  PROVE  Wrap(n) \in IntMin..IntMax
<1> DEFINE w == IntMax - IntMin + 1
           a == n - IntMin
<1>1. IntMin \in Int /\ IntMax \in Int /\ w \in Nat \ {0} /\ a \in Int /\ w - 1 = IntMax - IntMin
  BY RangeAssumption DEF IntMin
<1>2. ASSUME NEW x \in Int, NEW y \in Nat \ {0} PROVE x % y \in 0..(y - 1)
  OBVIOUS
<1>3. Wrap(n) = IntMin + (a % w)
  BY DEF Wrap
<1> HIDE DEF IntMin, a, w
<1>4. a % w \in 0..(w - 1)
  BY <1>1, <1>2
<1> QED BY <1>1, <1>3, <1>4

LEMMA ValueTypes ==
  /\ \A n \in IntMin..IntMax : IntValue(n) \in Value
  /\ \A m \in FieldMap : MapValue(m) \in Value
  /\ NoFields \in FieldMap
  /\ SetArg \subseteq Value
BY ArgAssumption DEF IntValue, MapValue, Value, Scalar, NoFields, FieldMap

LEMMA ValueOfType ==
  ASSUME NEW s, Consistent(s), NEW k \in Key, s.store[k] # Nil
  PROVE  /\ k \in Stored(s)
         /\ s.store[k] \in Obj
         /\ ValueOf(s, k) \in Value
<1>1. s \in StoreType /\ k \in Stored(s)
  BY DEF Consistent, Stored
<1>2. s.heap[s.store[k]] \in Cell
  BY <1>1 DEF Consistent, NoDangling
<1> QED BY <1>1, <1>2 DEF StoreType, Cell, ValueOf

LEMMA ValueFields ==
  ASSUME NEW v \in Value
  PROVE  /\ v.typ \in {"int", "float", "string", "ssmap"}
         /\ v.num \in Int
         /\ v.map \in FieldMap
<1>1. IntMin..IntMax \subseteq Int
  OBVIOUS
<1>2. NoFields \in FieldMap
  BY ValueTypes
<1> QED BY <1>1, <1>2 DEF Value, Scalar

LEMMA WireValueType ==
  ASSUME NEW v \in Value
  PROVE  WireValue(v) \in ReplyType
<1>1. CASE v.typ = "ssmap"
  BY <1>1 DEF WireValue, ReplyType, Err
<1>2. CASE v.typ # "ssmap"
  <2>1. v \in Scalar
    BY <1>2 DEF Value
  <2>2. v \in [typ : {"int", "float", "string"}, num : Int, map : {NoFields}]
    BY <2>1, RangeAssumption DEF Scalar, IntMin
  <2>3. ASSUME NEW x \in Int PROVE ((x + 5) \div 10) * 10 \in Int
    OBVIOUS
  <2>4. ((v.num + 5) \div 10) * 10 \in Int
    BY <2>2, <2>3
  <2>5. Formatted(v) \in [typ : {"int", "float", "string"}, num : Int, map : {NoFields}]
    BY <2>2, <2>4 DEF Formatted
  <2> QED BY <1>2, <2>5 DEF WireValue, ReplyType
<1> QED BY <1>1, <1>2

LEMMA ReplyTypes ==
  /\ OK \in ReplyType /\ Err \in ReplyType /\ NilVal \in ReplyType
  /\ \A n \in Int : Int64(n) \in ReplyType
  /\ \A b \in BOOLEAN : Bool(b) \in ReplyType
  /\ \A t \in {"none", "int", "float", "string", "ssmap"} : TypeRes(t) \in ReplyType
  /\ \A x \in FieldVal : FieldRes(x) \in ReplyType
  /\ \A m \in FieldMap : MapRes(m) \in ReplyType
  /\ \A S \in SUBSET Key : KeysRes(S) \in ReplyType
BY DEF ReplyType, OK, Err, NilVal, Int64, Bool, TypeRes, FieldRes, MapRes, KeysRes

LEMMA DeadlineType ==
  ASSUME NEW P, NEW n \in Int, NEW t \in Nat
  PROVE  /\ Deadline(P, n, t) \in Int \cup {NoExpiry}
         /\ P \cap ExpiryParam # {} => Deadline(P, n, t) \in Int
<1>1. ASSUME NEW p \in ExpiryParam PROVE DurationMs(p, n, t) \in Int
  <2>1. t \div MsPerSec \in Int /\ MsPerSec \in Int
    BY TimeAssumption
  <2> QED BY <2>1 DEF ExpiryParam, DurationMs
<1>2. CASE P \cap ExpiryParam = {}
  BY <1>2 DEF Deadline
<1>3. CASE P \cap ExpiryParam # {}
  <2>1. (CHOOSE p \in P \cap ExpiryParam : TRUE) \in ExpiryParam
    BY <1>3
  <2> QED BY <1>1, <1>3, <2>1 DEF Deadline
<1> QED BY <1>2, <1>3

-----------------------------------------------------------------------------
(* The inductive invariant, and one lemma per command *)

IndInv ==
  /\ Consistent(db)
  /\ now \in Nat
  /\ reply \in ReplyType

LEMMA AnswerInv ==
  ASSUME IndInv, NEW s, Consistent(s), NEW r, r \in ReplyType, Answer(s, r)
  PROVE  IndInv'
<1>1. Consistent(db')
  BY CollectConsistent DEF Answer
<1> QED BY <1>1 DEF IndInv, Answer

LEMMA RejectInv ==
  ASSUME IndInv, Reject
  PROVE  IndInv'
BY AnswerInv, ReplyTypes DEF Reject, IndInv

\* A write of a new object under k, with whatever eviction it causes.
LEMMA WriteInv ==
  ASSUME IndInv, NEW g, Consistent(g), NEW k \in Key, NEW v \in Value,
         NEW at \in Int \cup {NoExpiry}, NEW keep \in BOOLEAN, NEW r, r \in ReplyType,
         \E o \in Fresh(g) : \E t \in Put(NewObj(g, o, v, at, now), k, o, keep, now) : Answer(t, r)
  PROVE  IndInv'
<1>1. PICK o \in Fresh(g) :
        \E t \in Put(NewObj(g, o, v, at, now), k, o, keep, now) : Answer(t, r)
  OBVIOUS
<1>2. PICK t \in Put(NewObj(g, o, v, at, now), k, o, keep, now) : Answer(t, r)
  BY <1>1
<1>3. now \in Nat
  BY DEF IndInv
<1>4. Consistent(t)
  BY <1>3, PutConsistent
<1> QED BY <1>2, <1>4, AnswerInv

\* What every command that reads a key first starts from.
LEMMA GetInv ==
  ASSUME IndInv, NEW k \in Key
  PROVE  LET g == Get(db, k, now)
         IN  /\ Consistent(g)
             /\ now \in Nat
             /\ g.store[k] # Nil =>
                  /\ k \in Stored(g)
                  /\ ValueOf(g, k) \in Value
                  /\ WireValue(ValueOf(g, k)) \in ReplyType
                  /\ g.expires[g.store[k]] \in Int \cup {NoExpiry}
<1> DEFINE g == Get(db, k, now)
<1>1. Consistent(g) /\ now \in Nat
  BY GetConsistent DEF IndInv
<1> HIDE DEF g
<1>2. ASSUME g.store[k] # Nil
      PROVE  /\ k \in Stored(g)
             /\ ValueOf(g, k) \in Value
             /\ WireValue(ValueOf(g, k)) \in ReplyType
             /\ g.expires[g.store[k]] \in Int \cup {NoExpiry}
  <2>1. k \in Stored(g) /\ g.store[k] \in Obj /\ ValueOf(g, k) \in Value
    BY <1>1, <1>2, ValueOfType
  <2>2. WireValue(ValueOf(g, k)) \in ReplyType
    BY <2>1, WireValueType
  <2>3. g.expires \in [Obj -> Int \cup {NoExpiry}]
    BY <1>1 DEF Consistent, StoreType
  <2> QED BY <2>1, <2>2, <2>3
<1> QED BY <1>1, <1>2 DEF g

LEMMA SetInv ==
  ASSUME IndInv, NEW k \in Key, NEW v \in SetArg, NEW P, NEW n \in Int, SET(k, v, P, n)
  PROVE  IndInv'
<1> DEFINE g == Get(db, k, now)
           at == Deadline(P, n, now)
           keep == "KEEPTTL" \in P
<1>1. Consistent(g) /\ now \in Nat
  BY GetInv
<1>2. at \in Int \cup {NoExpiry} /\ keep \in BOOLEAN
  BY <1>1, DeadlineType
<1>3. v \in Value /\ OK \in ReplyType
  BY ValueTypes, ReplyTypes
<1>4. \/ Reject
      \/ Answer(g, OK)
      \/ \E o \in Fresh(g) : \E t \in Put(NewObj(g, o, v, at, now), k, o, keep, now) : Answer(t, OK)
  BY DEF SET
<1> HIDE DEF g, at, keep
<1> QED BY <1>1, <1>2, <1>3, <1>4, RejectInv, AnswerInv, WriteInv

LEMMA GetsetInv ==
  ASSUME IndInv, NEW k \in Key, NEW v \in SetArg, GETSET(k, v)
  PROVE  IndInv'
<1> DEFINE g == Get(db, k, now)
           r == IF g.store[k] = Nil THEN NilVal ELSE WireValue(ValueOf(g, k))
<1>1. Consistent(g) /\ r \in ReplyType /\ v \in Value
  BY GetInv, ReplyTypes, ValueTypes
<1>2. \E o \in Fresh(g) :
        \E t \in Put(NewObj(g, o, v, NoExpiry, now), k, o, FALSE, now) : Answer(t, r)
  BY DEF GETSET
<1> HIDE DEF g, r
<1> QED BY <1>1, <1>2, WriteInv

LEMMA GetexInv ==
  ASSUME IndInv, NEW k \in Key, NEW P, NEW n \in Int, GETEX(k, P, n)
  PROVE  IndInv'
<1> DEFINE g == Get(db, k, now)
           o == g.store[k]
           r == WireValue(ValueOf(g, k))
           at == Deadline(P, n, now)
<1>1. /\ Consistent(g) /\ now \in Nat
      /\ o # Nil => k \in Stored(g) /\ r \in ReplyType
  BY GetInv
<1>2. \/ Reject
      \/ Answer(g, NilVal)
      \/ o # Nil /\ Answer(DelExpiry(g, o), r)
      \/ o # Nil /\ P \cap ExpiryParam # {} /\ Answer(SetUnixTimeExpiry(g, o, at), r)
      \/ o # Nil /\ Answer(g, r)
  BY DEF GETEX
<1>3. P \cap ExpiryParam # {} => at \in Int
  BY <1>1, DeadlineType
<1> HIDE DEF g, r, at
<1>4. CASE o # Nil /\ Answer(DelExpiry(g, o), r)
  <2>1. Consistent(DelExpiry(g, o))
    BY <1>1, <1>4, ExpiryConsistent, 0 \in Int
  <2> QED BY <1>1, <1>4, <2>1, AnswerInv
<1>5. CASE o # Nil /\ P \cap ExpiryParam # {} /\ Answer(SetUnixTimeExpiry(g, o, at), r)
  <2>1. Consistent(SetUnixTimeExpiry(g, o, at))
    BY <1>1, <1>3, <1>5, ExpiryConsistent
  <2> QED BY <1>1, <1>5, <2>1, AnswerInv
<1> QED BY <1>1, <1>2, <1>4, <1>5, RejectInv, AnswerInv, ReplyTypes

LEMMA IncrInv ==
  ASSUME IndInv, NEW k \in Key, NEW d \in IntMin..IntMax, DoIncr(k, d)
  PROVE  IndInv'
<1> DEFINE g == Get(db, k, now)
           p == g.store[k]
           n == Wrap(ValueOf(g, k).num + d)
           u == [g EXCEPT !.heap[p] = [g.heap[p] EXCEPT !.val = IntValue(n)]]
<1>1. /\ Consistent(g)
      /\ p # Nil => k \in Stored(g) /\ ValueOf(g, k) \in Value
  BY GetInv
<1>2. d \in Int /\ IntValue(d) \in Value
  BY ValueTypes
<1>3. p # Nil => n \in IntMin..IntMax
  <2>1. SUFFICES ASSUME p # Nil PROVE n \in IntMin..IntMax
    OBVIOUS
  <2>2. ValueOf(g, k).num \in Int
    BY <1>1, <2>1, ValueFields
  <2> HIDE DEF g
  <2>3. ValueOf(g, k).num + d \in Int
    BY <1>2, <2>2
  <2> QED BY <2>3, WrapType
<1>4. p # Nil => Consistent(u) /\ Int64(n) \in ReplyType
  <2>1. SUFFICES ASSUME p # Nil PROVE Consistent(u) /\ Int64(n) \in ReplyType
    OBVIOUS
  <2>2. IntValue(n) \in Value /\ n \in Int
    BY <1>3, <2>1, ValueTypes
  <2> HIDE DEF g, n
  <2> QED BY <1>1, <2>1, <2>2, UpdateConsistent, ReplyTypes
<1>5. \/ \E o \in Fresh(g) :
            \E t \in Put(NewObj(g, o, IntValue(d), NoExpiry, now), k, o, FALSE, now) :
              Answer(t, Int64(d))
      \/ Answer(g, Err)
      \/ p # Nil /\ Answer(u, Int64(n))
  BY DEF DoIncr
<1>6. Int64(d) \in ReplyType /\ Err \in ReplyType
  BY <1>2, ReplyTypes
<1> HIDE DEF g, p, n, u
<1> QED BY <1>1, <1>2, <1>4, <1>5, <1>6, AnswerInv, WriteInv

LEMMA SetExpiryIfInv ==
  ASSUME IndInv, NEW k \in Key, NEW opts, NEW at \in Int, SetExpiryIf(k, opts, at)
  PROVE  IndInv'
<1> DEFINE g == Get(db, k, now)
           o == g.store[k]
           u == SetUnixTimeExpiry(g, o, at)
<1>1. /\ Consistent(g)
      /\ o # Nil => k \in Stored(g)
  BY GetInv
<1>2. \/ Answer(g, Bool(FALSE))
      \/ Answer(g, Err)
      \/ o # Nil /\ Answer(u, Bool(TRUE))
  BY DEF SetExpiryIf
<1>3. o # Nil => Consistent(u)
  BY <1>1, ExpiryConsistent
<1>4. Bool(FALSE) \in ReplyType /\ Bool(TRUE) \in ReplyType /\ Err \in ReplyType
  BY ReplyTypes
<1> HIDE DEF g, o, u
<1> QED BY <1>1, <1>2, <1>3, <1>4, AnswerInv

LEMMA ExpireInv ==
  ASSUME IndInv, NEW k \in Key, NEW sec \in ExpiryArg, NEW opts,
         EXPIRE(k, sec, opts) \/ EXPIREAT(k, sec, opts)
  PROVE  IndInv'
<1>1. sec \in Int /\ now \in Int /\ MsPerSec \in Int
  BY ArgAssumption, TimeAssumption DEF IndInv
<1>2. IntMin..IntMax \subseteq Int /\ sec * MsPerSec \in Int
  BY <1>1
<1>3. Wrap(sec * MsPerSec) \in Int
  BY <1>2, WrapType
<1>4. ExpireAt(sec, now) \in Int
  <2>1. now + Wrap(sec * MsPerSec) \in Int
    BY <1>1, <1>3
  <2> QED BY <1>2, <2>1, WrapType DEF ExpireAt
<1>5. \/ Reject
      \/ SetExpiryIf(k, opts, ExpireAt(sec, now))
      \/ SetExpiryIf(k, opts, sec * MsPerSec)
  BY DEF EXPIRE, EXPIREAT
<1> QED BY <1>2, <1>4, <1>5, RejectInv, SetExpiryIfInv

LEMMA QuotientType ==
  ASSUME NEW e \in Int
  PROVE  e \div MsPerSec \in Int
BY TimeAssumption

LEMMA GetReplyInv ==
  ASSUME IndInv, NEW k \in Key, GET(k)
  PROVE  IndInv'
<1> DEFINE g == Get(db, k, now)
           r == IF g.store[k] = Nil THEN NilVal ELSE WireValue(ValueOf(g, k))
<1>1. Consistent(g) /\ r \in ReplyType
  BY GetInv, ReplyTypes
<1>2. Answer(g, r)
  BY DEF GET
<1> QED BY ONLY <1>1, <1>2, AnswerInv, IndInv

\* TTL and EXPIRETIME divide a time that is an integer once there is one.
LEMMA TimeReplyInv ==
  ASSUME IndInv, NEW k \in Key, TTL(k) \/ EXPIRETIME(k)
  PROVE  IndInv'
<1> DEFINE g == Get(db, k, now)
           e == g.expires[g.store[k]]
<1>1. /\ Consistent(g) /\ now \in Nat
      /\ g.store[k] # Nil => e \in Int \cup {NoExpiry}
  BY GetInv
<1>2. PICK r : /\ Answer(g, r)
               /\ \/ r = Int64(-2) \/ r = Int64(-1)
                  \/ /\ g.store[k] # Nil /\ e # NoExpiry
                     /\ r = Int64((e - now) \div MsPerSec) \/ r = Int64(e \div MsPerSec)
  BY DEF TTL, EXPIRETIME
<1> HIDE DEF g, e
<1>3. CASE g.store[k] # Nil /\ e # NoExpiry
  <2>1. e \in Int /\ e - now \in Int
    BY <1>1, <1>3
  <2>2. e \div MsPerSec \in Int /\ (e - now) \div MsPerSec \in Int
    BY <2>1, QuotientType
  <2>3. r \in ReplyType
    BY <1>2, <2>2, ReplyTypes, -1 \in Int, -2 \in Int
  <2> QED BY <1>1, <1>2, <2>3, AnswerInv
<1>4. CASE g.store[k] = Nil \/ e = NoExpiry
  BY <1>1, <1>2, <1>4, ReplyTypes, AnswerInv, -1 \in Int, -2 \in Int
<1> QED BY <1>3, <1>4

LEMMA TypeReplyInv ==
  ASSUME IndInv, NEW k \in Key, TYPE(k)
  PROVE  IndInv'
<1> DEFINE g == Get(db, k, now)
           r == IF g.store[k] = Nil THEN TypeRes("none") ELSE TypeRes(ValueOf(g, k).typ)
<1>1. Consistent(g) /\ (g.store[k] # Nil => ValueOf(g, k) \in Value)
  BY GetInv
<1>2. r \in ReplyType
  BY <1>1, ValueFields, ReplyTypes
<1>3. Answer(g, r)
  BY DEF TYPE
<1> QED BY ONLY <1>1, <1>2, <1>3, AnswerInv, IndInv

\* What a hash read replies is in the map, or nil, or an error.
LEMMA HashReplyInv ==
  ASSUME IndInv, NEW k \in Key, HGETALL(k) \/ \E f \in Field : HGET(k, f)
  PROVE  IndInv'
<1> DEFINE g == Get(db, k, now)
           m == ValueOf(g, k).map
<1>1. Consistent(g) /\ (g.store[k] # Nil => ValueOf(g, k) \in Value)
  BY GetInv
<1>2. g.store[k] # Nil => m \in FieldMap
  BY <1>1, ValueFields
<1>3. NoFields \in FieldMap
  BY ValueTypes
<1>4. CASE HGETALL(k)
  <2>1. Answer(g, MapRes(NoFields)) \/ Answer(g, Err) \/ (g.store[k] # Nil /\ Answer(g, MapRes(m)))
    BY <1>4 DEF HGETALL
  <2> HIDE DEF g, m
  <2> QED BY <1>1, <1>2, <1>3, <2>1, ReplyTypes, AnswerInv
<1>5. CASE \E f \in Field : HGET(k, f)
  <2>1. PICK f \in Field : HGET(k, f)
    BY <1>5
  <2>2. \/ Answer(g, NilVal) \/ Answer(g, Err)
        \/ g.store[k] # Nil /\ m[f] # Nil /\ Answer(g, FieldRes(m[f]))
    BY <2>1 DEF HGET
  <2> HIDE DEF g, m
  <2>3. g.store[k] # Nil /\ m[f] # Nil => m[f] \in FieldVal
    BY <1>2 DEF FieldMap
  <2> QED BY <1>1, <2>2, <2>3, ReplyTypes, AnswerInv
<1> QED BY <1>4, <1>5

LEMMA HsetInv ==
  ASSUME IndInv, NEW k \in Key, NEW kvs \in FieldMap, NEW odd \in BOOLEAN, HSET(k, kvs, odd)
  PROVE  IndInv'
<1> DEFINE g == Get(db, k, now)
           new == g.store[k] = Nil
           m == IF new THEN NoFields ELSE ValueOf(g, k).map
           merged == [f \in Field |-> IF kvs[f] = Nil THEN m[f] ELSE kvs[f]]
           added == {f \in Field : kvs[f] # Nil /\ m[f] = Nil}
           count == Int64(Cardinality(added))
<1>1. Consistent(g) /\ (~new => ValueOf(g, k) \in Value)
  BY GetInv
<1>2. m \in FieldMap
  BY <1>1, ValueTypes, ValueFields
<1>3. \/ Answer(g, Err)
      \/ \E o \in Fresh(g) :
           \E t \in Put(NewObj(g, o, MapValue(merged), NoExpiry, now), k, o, FALSE, now) :
             Answer(t, count)
  BY DEF HSET
<1> HIDE DEF g, m
<1>4. MapValue(merged) \in Value
  <2>1. merged \in FieldMap
    BY <1>2 DEF FieldMap
  <2> QED BY <2>1, ValueTypes
<1>5. count \in ReplyType /\ Err \in ReplyType
  <2>1. IsFiniteSet(added)
    BY FieldAssumption, FS_Subset
  <2>2. Cardinality(added) \in Int
    BY <2>1, FS_CardinalityType
  <2> QED BY <2>2, ReplyTypes
<1> HIDE DEF merged, count
<1> QED BY <1>1, <1>3, <1>4, <1>5, AnswerInv, WriteInv

LEMMA GetdelInv ==
  ASSUME IndInv, NEW k \in Key, GETDEL(k)
  PROVE  IndInv'
<1> DEFINE g == GetNoTouch(db, k, now)
<1>1. Consistent(g)
  BY GetConsistent DEF IndInv
<1>2. \/ Answer(g, NilVal)
      \/ g.store[k] # Nil /\ Answer(DelKeys(g, {k}), WireValue(ValueOf(g, k)))
  BY DEF GETDEL
<1> HIDE DEF g
<1>3. Consistent(DelKeys(g, {k}))
  BY <1>1, DelKeysConsistent
<1>4. g.store[k] # Nil => WireValue(ValueOf(g, k)) \in ReplyType
  BY <1>1, ValueOfType, WireValueType
<1> QED BY <1>1, <1>2, <1>3, <1>4, ReplyTypes, AnswerInv

LEMMA DelExistsInv ==
  ASSUME IndInv, NEW D \in SUBSET Key, DEL(D) \/ EXISTS(D)
  PROVE  IndInv'
<1> DEFINE dead == {k \in D \cap Stored(db) : HasExpired(db, db.store[k], now)}
<1>1. ASSUME NEW S, S \subseteq Key PROVE Int64(Cardinality(S)) \in ReplyType
  <2>1. Cardinality(S) \in Int
    BY <1>1, KeyAssumption, FS_Subset, FS_CardinalityType
  <2> QED BY <2>1, ReplyTypes
<1>2. Consistent(DelKeys(db, D)) /\ Consistent(DelKeys(db, dead))
  BY DelKeysConsistent DEF IndInv
<1>3. \/ Answer(DelKeys(db, D), Int64(Cardinality(D \cap Stored(db))))
      \/ Answer(DelKeys(db, dead), Int64(Cardinality((D \cap Stored(db)) \ dead)))
  BY DEF DEL, EXISTS
<1> HIDE DEF dead
<1>4. /\ Int64(Cardinality(D \cap Stored(db))) \in ReplyType
      /\ Int64(Cardinality((D \cap Stored(db)) \ dead)) \in ReplyType
  BY <1>1
<1> QED BY <1>2, <1>3, <1>4, AnswerInv

LEMMA KeysFlushInv ==
  ASSUME IndInv, (\E M \in SUBSET Key : KEYS(M)) \/ FLUSHDB
  PROVE  IndInv'
<1>1. CASE \E M \in SUBSET Key : KEYS(M)
  <2>1. PICK M \in SUBSET Key : KEYS(M)
    BY <1>1
  <2>2. KeysRes(Stored(db) \cap M) \in ReplyType
    BY ReplyTypes, Stored(db) \cap M \in SUBSET Key
  <2> QED BY <2>1, <2>2, AnswerInv DEF KEYS, IndInv
<1>2. CASE FLUSHDB
  BY <1>2, EmptyStoreConsistent, ReplyTypes, AnswerInv DEF FLUSHDB
<1> QED BY <1>1, <1>2

LEMMA SweepInv ==
  ASSUME IndInv, DeleteExpiredKeys
  PROVE  IndInv'
<1> DEFINE dead == {k \in Stored(db) : HasExpired(db, db.store[k], now)}
<1>1. db' = Collect(DelKeys(db, dead)) /\ now' = now /\ reply' = reply
  BY DEF DeleteExpiredKeys
<1>2. Consistent(db')
  BY <1>1, DelKeysConsistent, CollectConsistent DEF IndInv
<1> QED BY <1>1, <1>2 DEF IndInv

LEMMA InitInv == Init => IndInv
BY EmptyStoreConsistent, ReplyTypes DEF Init, IndInv

LEMMA ArgsForType ==
  ASSUME NEW P
  PROVE  ArgsFor(P) \subseteq Int
BY ArgAssumption DEF ArgsFor

LEMMA CommandInv ==
  ASSUME IndInv, Command
  PROVE  IndInv'
<1>1. CASE \E k \in Key, v \in SetArg, P \in SetParams : \E n \in ArgsFor(P) : SET(k, v, P, n)
  BY <1>1, SetInv, ArgsForType
<1>2. CASE \E k \in Key, P \in GetexParams : \E n \in ArgsFor(P) : GETEX(k, P, n)
  BY <1>2, GetexInv, ArgsForType
<1>3. CASE \E k \in Key : GET(k) \/ GETDEL(k) \/ TTL(k) \/ EXPIRETIME(k) \/ TYPE(k) \/ HGETALL(k)
  BY <1>3, GetReplyInv, GetdelInv, TimeReplyInv, TypeReplyInv, HashReplyInv
<1>4. CASE \E k \in Key, v \in SetArg : GETSET(k, v)
  BY <1>4, GetsetInv
<1>5. CASE \/ \E k \in Key, d \in Delta : INCRBY(k, d) \/ DECRBY(k, d)
           \/ \E k \in Key, d \in Delta \cap {1} : INCR(k) \/ DECR(k)
  <2>1. PICK k \in Key :
          \/ DoIncr(k, 1) \/ DoIncr(k, -1)
          \/ \E d \in Delta : DoIncr(k, d) \/ DoIncr(k, Wrap(-d))
    BY <1>5 DEF INCR, DECR, INCRBY, DECRBY
  <2>2. 1 \in IntMin..IntMax /\ -1 \in IntMin..IntMax
    BY RangeAssumption DEF IntMin
  <2>3. \A d \in Delta : d \in IntMin..IntMax /\ -d \in Int
    BY ArgAssumption, RangeAssumption DEF IntMin
  <2>4. \A d \in Delta : Wrap(-d) \in IntMin..IntMax
    BY <2>3, WrapType
  <2> QED BY <2>1, <2>2, <2>3, <2>4, IncrInv
<1>6. CASE \E k \in Key, n \in ExpiryArg, opts \in ExpireOpts :
             EXPIRE(k, n, opts) \/ EXPIREAT(k, n, opts)
  BY <1>6, ExpireInv
<1>7. CASE \E k \in Key, kvs \in FieldMap \ {NoFields}, odd \in BOOLEAN : HSET(k, kvs, odd)
  BY <1>7, HsetInv
<1>8. CASE \E k \in Key, f \in Field : HGET(k, f)
  BY <1>8, HashReplyInv
<1>9. CASE \E D \in SUBSET Key \ {{}} : DEL(D) \/ EXISTS(D)
  BY <1>9, DelExistsInv
<1>10. CASE (\E M \in SUBSET Key : KEYS(M)) \/ FLUSHDB
  BY <1>10, KeysFlushInv
<1> QED
  BY <1>1, <1>2, <1>3, <1>4, <1>5, <1>6, <1>7, <1>8, <1>9, <1>10 DEF Command

LEMMA NextInv == IndInv /\ [Next]_vars => IndInv'
<1> SUFFICES ASSUME IndInv, [Next]_vars PROVE IndInv'
  OBVIOUS
<1>1. CASE Command
  BY <1>1, CommandInv
<1>2. CASE Tick
  BY <1>2 DEF Tick, IndInv
<1>3. CASE DeleteExpiredKeys
  BY <1>3, SweepInv
<1>4. CASE UNCHANGED vars
  BY <1>4 DEF vars, IndInv
<1> QED BY <1>1, <1>2, <1>3, <1>4 DEF Next

-----------------------------------------------------------------------------
(* The theorems *)

\* In every state every command, sweep or tick can reach, the store's maps
\* and counters agree (putHelper, getHelper, deleteKey, EvictVictims, Reset).
THEOREM StoreConsistent == Spec => []IndInv
BY InitInv, NextInv, PTL DEF Spec

\* The state keeps its types, and every stored key has an object with a value.
THEOREM TypeCorrect == Spec => []TypeOK
<1>1. IndInv => TypeOK
  BY DEF IndInv, Consistent, TypeOK
<1> QED BY <1>1, StoreConsistent, PTL

\* putHelper never makes two keys share one object, so that the object-keyed
\* expires map cannot mix up their deadlines.
THEOREM ObjectsNeverShared == Spec => []NoAliasing
<1>1. IndInv => NoAliasing
  BY DEF IndInv, Consistent, NoAliasing
<1> QED BY <1>1, StoreConsistent, PTL

\* No overwrite, lazy deletion, eviction, sweep or flush leaves an entry of
\* the expires map behind.
THEOREM ExpiresNeverLeaks == Spec => []NoOrphanExpiry
<1>1. IndInv => NoOrphanExpiry
  BY DEF IndInv, Consistent, NoOrphanExpiry
<1> QED BY <1>1, StoreConsistent, PTL

\* Store.numKeys never drifts from the number of keys.
THEOREM KeyCounterExact == Spec => []KeyCountExact
<1>1. IndInv => KeyCountExact
  BY DEF IndInv, Consistent, KeyCountExact
<1> QED BY <1>1, StoreConsistent, PTL

\* ShouldEvict and EvictVictims make room before every insertion: the shard
\* never holds more than maxKeys keys.
THEOREM ShardBounded == Spec => []KeyCountBounded
<1>1. IndInv => KeyCountBounded
  BY DEF IndInv, Consistent, KeyCountBounded
<1> QED BY <1>1, StoreConsistent, PTL

\* The counter of the RegMap, which overwrites inflate, never falls below the
\* number of keys: Keys() never asks for a slice of negative capacity.
THEOREM LenNeverShort == Spec => []LenCoversKeys
<1>1. IndInv => LenCoversKeys
  BY DEF IndInv, Consistent, LenCoversKeys
<1> QED BY <1>1, StoreConsistent, PTL

-----------------------------------------------------------------------------
(* The abstract cache is given the same arguments, values and replies *)

LEMMA SameConstants ==
  /\ Cache!OK = OK /\ Cache!Err = Err /\ Cache!NilVal = NilVal
  /\ Cache!FieldMap = FieldMap /\ Cache!NoFields = NoFields
  /\ Cache!ExpiryParam = ExpiryParam
BY DEF Cache!OK, OK, Cache!Err, Err, Cache!NilVal, NilVal, Cache!FieldMap, FieldMap,
       Cache!NoFields, NoFields, Cache!ExpiryParam, ExpiryParam

LEMMA SameReplies ==
  /\ \A n : Cache!Int64(n) = Int64(n) /\ Cache!Bool(n) = Bool(n)
  /\ \A n : Cache!TypeRes(n) = TypeRes(n) /\ Cache!FieldRes(n) = FieldRes(n)
  /\ \A n : Cache!MapRes(n) = MapRes(n) /\ Cache!KeysRes(n) = KeysRes(n)
  /\ \A n : Cache!IntValue(n) = IntValue(n) /\ Cache!MapValue(n) = MapValue(n)
  /\ \A n : Cache!WireValue(n) = WireValue(n)
BY DEF Cache!Int64, Int64, Cache!Bool, Bool, Cache!TypeRes, TypeRes, Cache!FieldRes, FieldRes,
       Cache!MapRes, MapRes, Cache!KeysRes, KeysRes, Cache!IntValue, IntValue, Cache!MapValue, MapValue,
       Cache!WireValue, WireValue, Cache!Formatted, Formatted, Cache!Err, Err, Cache!NoFields, NoFields

LEMMA SameArguments ==
  /\ \A n : Cache!Wrap(n) = Wrap(n)
  /\ \A P : Cache!ArgsFor(P) = ArgsFor(P)
<1>1. \A n : Cache!Wrap(n) = Wrap(n)
  BY DEF Cache!Wrap, Wrap, Cache!IntMin, IntMin
<1>2. \A P : Cache!ArgsFor(P) = ArgsFor(P)
  BY DEF Cache!ArgsFor, ArgsFor, Cache!ExpiryParam, ExpiryParam
<1> QED BY <1>1, <1>2

-----------------------------------------------------------------------------
(* The code's rules for options keep what the abstract cache promises *)

\* A duration is accepted only if its deadline is one the option may stand
\* for, and refused only if some such deadline is not acceptable, or for the
\* bound on PX.
LEMMA DurationLaw ==
  ASSUME NEW p \in ExpiryParam, NEW n \in Int, NEW t \in Nat
  PROVE  /\ DurationValid(p, n, t) =>
              /\ t + DurationMs(p, n, t) \in Cache!Asked(p, n, t)
              /\ Cache!Acceptable(t + DurationMs(p, n, t), t)
         /\ ~DurationValid(p, n, t) =>
              \/ \E at \in Cache!Asked(p, n, t) : ~Cache!Acceptable(at, t)
              \/ p = "PX" /\ n >= MaxEXDurationSec
<1> DEFINE m == MsPerSec
           y == MaxEXDurationSec
           q == t \div MsPerSec
           nm == n * MsPerSec
           qm == q * MsPerSec
           ym == MaxEXDurationSec * MsPerSec
           d == DurationMs(p, n, t)
           ok == DurationValid(p, n, t)
           last == (n + 1) * MsPerSec - 1
<1>1. m \in Nat \ {0} /\ y \in Nat
  BY TimeAssumption
<1>2. q \in Int /\ qm <= t /\ t <= qm + m - 1 /\ qm \in Int
  <2>1. ASSUME NEW a \in Nat, NEW b \in Nat \ {0}
        PROVE  /\ a \div b \in Int /\ (a \div b) * b \in Int
               /\ (a \div b) * b <= a /\ a <= (a \div b) * b + b - 1
    OBVIOUS
  <2> QED BY <1>1, <2>1
<1>3. nm \in Int /\ ym \in Int /\ y <= ym
  <2>1. ASSUME NEW a \in Nat, NEW b \in Nat \ {0} PROVE a * b \in Int /\ a <= a * b
    OBVIOUS
  <2> QED BY <1>1, <2>1
<1>4. (n - q) * MsPerSec = nm - qm /\ last = nm + m - 1
  <2>1. ASSUME NEW a \in Int, NEW b \in Int, NEW c \in Int
        PROVE  (a - b) * c = a * c - b * c /\ (a + 1) * c - 1 = a * c + c - 1
    OBVIOUS
  <2> HIDE DEF q
  <2> QED BY <1>1, <1>2, <2>1
<1>5. ok <=> d > 0 /\ d < IF p = "PX" THEN y ELSE ym
  BY DEF DurationValid
<1>6. \A at : Cache!Acceptable(at, t) <=> t < at /\ at < t + ym
  BY DEF Cache!Acceptable
<1>7. CASE p = "EX"
  <2>1. d = nm /\ Cache!Asked(p, n, t) = {t + nm}
    BY <1>7 DEF DurationMs, Cache!Asked
  <2> HIDE DEF m, y, q, nm, qm, ym, d, ok, last
  <2> QED BY <1>1, <1>3, <1>5, <1>6, <1>7, <2>1 DEF d, ok
<1>8. CASE p = "PX"
  <2>1. d = n /\ Cache!Asked(p, n, t) = {t + n}
    BY <1>8 DEF DurationMs, Cache!Asked
  <2> HIDE DEF m, q, nm, qm, ym, d, ok, last
  <2> QED BY <1>1, <1>3, <1>5, <1>6, <1>8, <2>1 DEF d, ok
<1>9. CASE p = "EXAT"
  <2>1. d = (n - q) * MsPerSec /\ Cache!Asked(p, n, t) = nm..last
    BY <1>9 DEF DurationMs, Cache!Asked
  <2>2. d = nm - qm
    BY <1>4, <2>1
  <2>3. nm \in Cache!Asked(p, n, t) /\ last \in Cache!Asked(p, n, t)
    <3> HIDE DEF m, y, q, nm, qm, ym, d, ok, last
    <3> QED BY <1>1, <1>3, <1>4, <2>1
  <2>4. ok => t + d \in Cache!Asked(p, n, t) /\ Cache!Acceptable(t + d, t)
    <3> HIDE DEF m, y, q, nm, qm, ym, d, ok, last
    <3> QED BY <1>1, <1>2, <1>3, <1>4, <1>5, <1>6, <1>9, <2>1, <2>2
  <2>5. ~ok => ~Cache!Acceptable(nm, t) \/ ~Cache!Acceptable(last, t)
    <3> HIDE DEF m, y, q, nm, qm, ym, d, ok, last
    <3> QED BY <1>1, <1>2, <1>3, <1>4, <1>5, <1>6, <1>9, <2>2
  <2> HIDE DEF m, y, q, nm, qm, ym, last
  <2> QED BY <2>3, <2>4, <2>5
<1>10. CASE p = "PXAT"
  <2>1. d = n - t /\ Cache!Asked(p, n, t) = {n}
    BY <1>10 DEF DurationMs, Cache!Asked
  <2>2. t + d = n /\ d \in Int
    BY <2>1
  <2> HIDE DEF m, y, q, nm, qm, ym, d, ok, last
  <2> QED BY <1>1, <1>3, <1>5, <1>6, <1>10, <2>1, <2>2 DEF d, ok
<1> QED BY <1>7, <1>8, <1>9, <1>10 DEF ExpiryParam

\* SET and GETEX refuse only what may be refused; what they accept they
\* give a deadline that was asked for.
LEMMA RequestLaw ==
  ASSUME NEW P, NEW n \in Int, NEW t \in Nat
  PROVE  /\ ParamsRejected(P, n, t) => Cache!MayRefuse(P, n, t)
         /\ ~ParamsRejected(P, n, t) =>
              /\ ~Cache!MustRefuse(P, n, t)
              /\ Deadline(P, n, t) \in Cache!Deadlines(P, n, t)
<1> DEFINE E == P \cap ExpiryParam
           All == Cache!AllAsked(P, n, t)
           Set == Cache!Deadlines(P, n, t)
           bad == ParamsRejected(P, n, t)
           at == Deadline(P, n, t)
<1>1. All = UNION {Cache!Asked(p, n, t) : p \in E}
  BY SameConstants DEF Cache!AllAsked
<1>2. Set = IF E = {} THEN {NoExpiry} ELSE {a \in All : Cache!Acceptable(a, t)}
  BY SameConstants DEF Cache!Deadlines
<1>3. bad <=> ParamsConflict(P) \/ \E p \in E : ~DurationValid(p, n, t)
  BY DEF ParamsRejected
<1>4. Cache!Contradictory(P) => ParamsConflict(P)
  BY DEF Cache!Contradictory, ParamsConflict, Cache!GetexParam, ExpiryParam, Cache!ExpiryParam
<1>5. ParamsConflict(P) => Cache!Contradictory(P) \/ Cache!PermissiveRefusal(P, n)
  BY DEF Cache!Contradictory, ParamsConflict, Cache!PermissiveRefusal,
         Cache!GetexParam, ExpiryParam, Cache!ExpiryParam
<1>6. ASSUME NEW p \in E, ~DurationValid(p, n, t)
      PROVE  (\E a \in All : ~Cache!Acceptable(a, t)) \/ Cache!PermissiveRefusal(P, n)
  <2>1. \/ \E a \in Cache!Asked(p, n, t) : ~Cache!Acceptable(a, t)
        \/ p = "PX" /\ n >= MaxEXDurationSec
    BY <1>6, DurationLaw
  <2> QED BY <1>1, <2>1 DEF Cache!PermissiveRefusal
<1>7. bad => Cache!MayRefuse(P, n, t)
  <2> HIDE DEF bad, E, All, Set
  <2> QED BY <1>3, <1>5, <1>6 DEF Cache!MayRefuse, Cache!MustRefuse, All
<1>8. ASSUME ~bad PROVE at \in Set
  <2>1. CASE E = {}
    <3>1. at = NoExpiry
      BY <2>1 DEF Deadline
    <3> HIDE DEF E, Set, at
    <3> QED BY <1>2, <2>1, <3>1
  <2>2. CASE E # {}
    <3> DEFINE p == CHOOSE x \in P \cap ExpiryParam : TRUE
    <3>1. at = t + DurationMs(p, n, t)
      BY <2>2 DEF Deadline
    <3>2. p \in E
      BY <2>2
    <3> HIDE DEF p, at
    <3>3. DurationValid(p, n, t)
      BY <1>3, <1>8, <3>2
    <3>4. at \in Cache!Asked(p, n, t) /\ Cache!Acceptable(at, t)
      BY <3>1, <3>2, <3>3, DurationLaw
    <3> HIDE DEF E, All, Set
    <3>5. at \in All
      BY <1>1, <3>2, <3>4
    <3> QED BY <1>2, <2>2, <3>4, <3>5
  <2> QED BY <2>1, <2>2
<1>9. ~bad => ~Cache!MustRefuse(P, n, t)
  <2> HIDE DEF bad, Set, at
  <2> QED BY <1>3, <1>4, <1>8 DEF Cache!MustRefuse, Set
<1> HIDE DEF bad, Set, at
<1> QED BY <1>7, <1>8, <1>9 DEF bad, Set, at

\* EXPIRE refuses what contradicts itself; what it does with the deadline is
\* what every option allows, or the case of XX beside GT or LT.
LEMMA OptionLaw ==
  ASSUME NEW opts, opts \subseteq ExpireOption, NEW prev, NEW at
  PROVE  /\ ExpireOptionsInvalid(opts) <=> Cache!OptionsRefused(opts)
         /\ ~ExpireOptionsInvalid(opts) /\ ShouldSetExpiry(opts, prev, at) =>
              Cache!AllAllow(opts, prev, at) \/ Cache!PermissiveExpiry(opts, prev)
         /\ ~ExpireOptionsInvalid(opts) /\ ~ShouldSetExpiry(opts, prev, at) =>
              ~Cache!AllAllow(opts, prev, at)
<1>1. ExpireOptionsInvalid(opts) <=> Cache!OptionsRefused(opts)
  <2>1. Cache!OptionsRefused(opts) <=>
          \/ "unsupported" \in opts
          \/ "NX" \in opts /\ "XX" \in opts
          \/ "NX" \in opts /\ "GT" \in opts
          \/ "NX" \in opts /\ "LT" \in opts
          \/ "GT" \in opts /\ "LT" \in opts
    BY DEF Cache!OptionsRefused, Cache!Exclusive
  <2>2. "NX" \in opts => (opts # {"NX"} <=> \E o \in {"XX", "GT", "LT", "unsupported"} : o \in opts)
    BY DEF ExpireOption
  <2> QED BY <2>1, <2>2 DEF ExpireOptionsInvalid
<1>2. ASSUME ~ExpireOptionsInvalid(opts), ShouldSetExpiry(opts, prev, at)
      PROVE  Cache!AllAllow(opts, prev, at) \/ Cache!PermissiveExpiry(opts, prev)
  <2>1. CASE "NX" \in opts
    <3>1. opts = {"NX"} /\ prev = NoExpiry
      BY <1>2, <2>1 DEF ExpireOptionsInvalid, ShouldSetExpiry
    <3> QED BY <3>1 DEF Cache!AllAllow, Cache!Allows
  <2>2. CASE "NX" \notin opts /\ "XX" \in opts
    <3>1. prev # NoExpiry
      BY <1>2, <2>2 DEF ShouldSetExpiry
    <3> QED BY <2>2, <3>1 DEF Cache!AllAllow, Cache!Allows, Cache!PermissiveExpiry
  <2>3. CASE "NX" \notin opts /\ "XX" \notin opts
    <3>1. opts \subseteq {"GT", "LT"} /\ ~({"GT", "LT"} \subseteq opts)
      BY <1>2, <2>3 DEF ExpireOptionsInvalid, ExpireOption
    <3>2. opts = {} \/ opts = {"GT"} \/ opts = {"LT"}
      BY <3>1
    <3> QED BY <1>2, <3>2 DEF Cache!AllAllow, Cache!Allows, ShouldSetExpiry
  <2> QED BY <2>1, <2>2, <2>3
<1>3. ASSUME ~ShouldSetExpiry(opts, prev, at), Cache!AllAllow(opts, prev, at) PROVE FALSE
  <2>1. PICK o \in opts : Cache!Allows(o, prev, at)
    BY <1>3 DEF ShouldSetExpiry, Cache!AllAllow
  <2>2. o \in {"NX", "XX", "GT", "LT", "unsupported"}
    BY <2>1 DEF ExpireOption
  <2> QED BY <1>3, <2>1, <2>2 DEF ShouldSetExpiry, Cache!Allows
<1> QED BY <1>1, <1>2, <1>3

\* EXPIRE keeps a deadline that fits into int64.
LEMMA SecondsLaw ==
  ASSUME NEW sec \in Nat, NEW t \in Nat
  PROVE  ExpireAt(sec, t) \in Cache!SecondsFrom(sec, t)
<1> DEFINE ms == sec * MsPerSec
<1>1. ms \in Nat /\ IntMax \in Nat /\ IntMin = -IntMax - 1 /\ Cache!IntMin = IntMin
  <2>1. ASSUME NEW a \in Nat, NEW b \in Nat PROVE a * b \in Nat
    OBVIOUS
  <2> QED BY <2>1, TimeAssumption, RangeAssumption DEF IntMin, Cache!IntMin
<1>2. ASSUME NEW n \in 0..IntMax PROVE Wrap(n) = n
  <2> DEFINE w == IntMax - IntMin + 1
             a == n - IntMin
  <2>1. w \in Nat \ {0} /\ a \in 0..(w - 1)
    BY <1>1
  <2>2. ASSUME NEW x \in Nat \ {0}, NEW b \in 0..(x - 1) PROVE b % x = b
    OBVIOUS
  <2>3. Wrap(n) = IntMin + (a % w)
    BY DEF Wrap
  <2> HIDE DEF w
  <2>4. a % w = a
    BY <2>1, <2>2
  <2> QED BY <1>1, <2>3, <2>4
<1> HIDE DEF ms
<1>3. Wrap(ms) \in Int
  <2>1. IntMin..IntMax \subseteq Int
    BY <1>1
  <2> QED BY <1>1, <2>1, WrapType
<1>4. ExpireAt(sec, t) \in IntMin..IntMax
  BY <1>3, WrapType DEF ExpireAt, ms
<1>5. CASE t + ms <= IntMax
  <2>1. ms \in 0..IntMax /\ t + ms \in 0..IntMax
    BY <1>1, <1>5
  <2>2. ExpireAt(sec, t) = t + ms
    BY <1>2, <2>1 DEF ExpireAt, ms
  <2> QED BY <1>5, <2>2 DEF Cache!SecondsFrom, ms
<1>6. CASE ~(t + ms <= IntMax)
  BY <1>1, <1>4, <1>6 DEF Cache!SecondsFrom, ms
<1> QED BY <1>5, <1>6

LEMMA SameCount == \A S : Cache!Cardinality(S) = Cardinality(S)
BY DEF Cache!Cardinality, Cardinality

-----------------------------------------------------------------------------
(* What clients see of a store *)

Gone(s, t, k) == s.store[k] = Nil \/ HasExpired(s, s.store[k], t)

Seen(s, k) == [val |-> ValueOf(s, k), at |-> s.expires[s.store[k]]]

View(s, t) == [k \in Key |-> IF Gone(s, t, k) THEN Nil ELSE Seen(s, k)]

LEMMA LiveView == LiveEntries = View(db, now)
BY DEF LiveEntries, View, Gone, Seen, Expired

\* d has k as s has it, whatever the time of its last access.
SameCell(s, d, k) ==
  /\ d.store[k] = s.store[k]
  /\ s.store[k] # Nil =>
       /\ d.expires[s.store[k]] = s.expires[s.store[k]]
       /\ d.heap[s.store[k]].val = s.heap[s.store[k]].val

LEMMA ViewKept ==
  ASSUME NEW s, NEW d, NEW t, NEW k \in Key, SameCell(s, d, k)
  PROVE  View(d, t)[k] = View(s, t)[k]
BY DEF SameCell, View, Gone, Seen, HasExpired, ValueOf

\* A present key is not Nil to the client.
LEMMA SeenFields ==
  ASSUME NEW s, NEW k
  PROVE  Seen(s, k).val = ValueOf(s, k) /\ Seen(s, k).at = s.expires[s.store[k]]
BY DEF Seen

LEMMA StoreShape ==
  ASSUME NEW s, Consistent(s)
  PROVE  /\ s.store \in [Key -> Obj \cup {Nil}]
         /\ s.expires \in [Obj -> Int \cup {NoExpiry}]
         /\ s.heap \in [Obj -> Cell \cup {Nil}]
         /\ \A k \in Stored(s) : k \in Key /\ s.store[k] \in Obj /\ s.heap[s.store[k]] \in Cell
         /\ \A k \in Key : k \in Stored(s) <=> s.store[k] # Nil
BY DEF Consistent, StoreType, Stored, NoDangling

\* Garbage is nobody's object.
LEMMA CollectView ==
  ASSUME NEW s, Consistent(s), NEW t
  PROVE  View(Collect(s), t) = View(s, t) /\ Stored(Collect(s)) = Stored(s)
<1>1. /\ Collect(s).store = s.store /\ Collect(s).expires = s.expires
      /\ Collect(s).heap = [o \in Obj |-> IF o \in Referenced(s) THEN s.heap[o] ELSE Nil]
  BY DEF Consistent, StoreType, Collect
<1>2. ASSUME NEW k \in Key PROVE SameCell(s, Collect(s), k)
  <2>1. CASE s.store[k] = Nil
    BY <1>1, <2>1 DEF SameCell
  <2>2. CASE s.store[k] # Nil
    <3>1. s.store[k] \in Obj /\ s.store[k] \in Referenced(s)
      BY <2>2, StoreShape DEF Referenced
    <3> QED BY <1>1, <3>1 DEF SameCell
  <2> QED BY <2>1, <2>2
<1>3. \A k \in Key : View(Collect(s), t)[k] = View(s, t)[k]
  BY <1>2, ViewKept
<1>4. Stored(Collect(s)) = Stored(s)
  BY <1>1 DEF Stored
<1> QED BY <1>3, <1>4 DEF View

\* Deleting D, whose keys share their objects with no other key.
LEMMA DelView ==
  ASSUME NEW s, Consistent(s), NEW D, NEW t
  PROVE  View(DelKeys(s, D), t) = [k \in Key |-> IF k \in D THEN Nil ELSE View(s, t)[k]]
<1> DEFINE gone == D \cap Stored(s)
           d == DelKeys(s, D)
<1>1. /\ d.store = [k \in Key |-> IF k \in gone THEN Nil ELSE s.store[k]]
      /\ d.expires = [o \in Obj |-> IF \E k \in gone : s.store[k] = o
                                    THEN NoExpiry ELSE s.expires[o]]
      /\ d.heap = s.heap
  BY DEF DelKeys
<1> HIDE DEF d
<1>2. ASSUME NEW k \in Key, k \in D PROVE View(d, t)[k] = Nil
  <2>1. d.store[k] = Nil
    BY <1>1, <1>2 DEF Stored
  <2> QED BY <2>1 DEF View, Gone
<1>3. ASSUME NEW k \in Key, k \notin D PROVE SameCell(s, d, k)
  <2>1. CASE s.store[k] = Nil
    BY <1>1, <1>3, <2>1 DEF SameCell
  <2>2. CASE s.store[k] # Nil
    <3>1. s.store[k] \in Obj /\ k \in Stored(s)
      BY <2>2, StoreShape
    <3>2. ~\E j \in gone : s.store[j] = s.store[k]
      BY <1>3, <3>1 DEF Consistent, Injective
    <3> QED BY <1>1, <1>3, <3>1, <3>2 DEF SameCell
  <2> QED BY <2>1, <2>2
<1>4. \A k \in Key : k \notin D => View(d, t)[k] = View(s, t)[k]
  BY <1>3, ViewKept
<1>5. \A k \in Key : View(d, t)[k] = IF k \in D THEN Nil ELSE View(s, t)[k]
  BY <1>2, <1>4
<1> QED BY <1>5 DEF View, d

\* Deleting what has expired changes nothing for the client.
LEMMA ExpiredView ==
  ASSUME NEW s, Consistent(s), NEW D, NEW t,
         \A k \in D \cap Key : Gone(s, t, k)
  PROVE  View(DelKeys(s, D), t) = View(s, t)
<1>1. \A k \in Key : k \in D => View(s, t)[k] = Nil
  BY DEF View
<1>2. \A k \in Key : View(DelKeys(s, D), t)[k] = View(s, t)[k]
  BY <1>1, DelView
<1> QED BY <1>2 DEF View

\* So does reading a key.
LEMMA GetView ==
  ASSUME NEW s, Consistent(s), NEW k \in Key, NEW t \in Nat
  PROVE  /\ View(GetNoTouch(s, k, t), t) = View(s, t)
         /\ View(Get(s, k, t), t) = View(s, t)
<1> DEFINE g == GetNoTouch(s, k, t)
<1>1. Consistent(g)
  BY GetConsistent
<1>2. View(g, t) = View(s, t)
  <2>1. CASE s.store[k] # Nil /\ HasExpired(s, s.store[k], t)
    <3>1. \A j \in {k} \cap Key : Gone(s, t, j)
      BY <2>1 DEF Gone
    <3> QED BY <2>1, <3>1, ExpiredView DEF GetNoTouch
  <2>2. CASE ~(s.store[k] # Nil /\ HasExpired(s, s.store[k], t))
    BY <2>2 DEF GetNoTouch
  <2> QED BY <2>1, <2>2
<1> HIDE DEF g
<1> DEFINE o == g.store[k]
           u == Touch(g, o, t)
<1>3. CASE o = Nil
  BY <1>2, <1>3 DEF Get, g
<1>4. CASE o # Nil
  <2>1. k \in Stored(g) /\ o \in Obj /\ g.heap[o] \in Cell
    BY <1>1, <1>4, StoreShape
  <2>2. g.heap[o].val = [g.heap[o] EXCEPT !.last = t].val
    BY <2>1 DEF Cell
  <2>3. /\ u.store = g.store /\ u.expires = g.expires
        /\ u.heap = [g.heap EXCEPT ![o] = [g.heap[o] EXCEPT !.last = t]]
    BY <1>1 DEF Consistent, StoreType, Touch
  <2>4. g.heap \in [Obj -> Cell \cup {Nil}]
    BY <1>1, StoreShape
  <2> HIDE DEF u, o
  <2>5. \A x \in Obj : u.heap[x].val = g.heap[x].val
    BY <2>1, <2>2, <2>3, <2>4
  <2>6. \A j \in Key : g.store[j] # Nil => g.store[j] \in Obj
    BY <1>1, StoreShape
  <2>7. \A j \in Key : SameCell(g, u, j)
    BY <2>3, <2>5, <2>6 DEF SameCell
  <2>8. \A j \in Key : View(u, t)[j] = View(g, t)[j]
    BY <2>7, ViewKept
  <2>9. View(u, t) = View(g, t)
    BY <2>8 DEF View
  <2> QED BY <1>2, <1>4, <2>9 DEF Get, g, u, o
<1> QED BY <1>2, <1>3, <1>4 DEF g

-----------------------------------------------------------------------------
(* Steps of the cache *)

LEMMA AnswerView ==
  ASSUME NEW s, Consistent(s), NEW r, Answer(s, r)
  PROVE  LiveEntries' = View(s, now) /\ reply' = r /\ now' = now
<1>1. db' = Collect(s) /\ reply' = r /\ now' = now
  BY DEF Answer
<1>2. (LiveEntries = View(db, now))'
  BY LiveView, PTL
<1>3. LiveEntries' = View(Collect(s), now)
  BY <1>1, <1>2
<1> QED BY <1>1, <1>3, CollectView

\* A store that shows clients what they saw before.
LEMMA SameStep ==
  ASSUME NEW s, Consistent(s), NEW r, Answer(s, r), View(s, now) = LiveEntries
  PROVE  Cache!Same(r)
BY AnswerView DEF Cache!Same, Cache!Done

\* What a command that reads k first finds: the entry of k, if k is live.
LEMMA GetLaw ==
  ASSUME IndInv, NEW k \in Key, NEW g, g = Get(db, k, now) \/ g = GetNoTouch(db, k, now)
  PROVE  /\ Consistent(g) /\ now \in Nat
         /\ View(g, now) = LiveEntries
         /\ k \in Cache!Live <=> g.store[k] # Nil
         /\ k \in Cache!Live =>
              /\ LiveEntries[k].val = ValueOf(g, k)
              /\ LiveEntries[k].at = g.expires[g.store[k]]
              /\ LiveEntries[k].at \in Int \cup {NoExpiry}
              /\ LiveEntries[k].at # NoExpiry => LiveEntries[k].at > now
              /\ g.store[k] \in Obj /\ g.heap[g.store[k]] \in Cell
              /\ ValueOf(g, k) \in Value
<1>1. /\ Consistent(g) /\ now \in Nat
      /\ View(g, now) = LiveEntries
  BY GetView, GetConsistent, LiveView DEF IndInv
<1>2. g.store[k] # Nil => ~HasExpired(g, g.store[k], now)
  <2> DEFINE h == GetNoTouch(db, k, now)
  <2>1. Consistent(h)
    BY GetConsistent DEF IndInv
  <2>2. h.store[k] # Nil => ~HasExpired(h, h.store[k], now)
    <3>1. k \in Stored(DelKeys(db, {k})) => FALSE
      BY DelKeysConsistent DEF IndInv
    <3> QED BY <3>1 DEF GetNoTouch, Stored
  <2>3. Get(db, k, now) = IF h.store[k] = Nil THEN h ELSE Touch(h, h.store[k], now)
    BY DEF Get
  <2> HIDE DEF h
  <2>4. Touch(h, h.store[k], now).store = h.store /\ Touch(h, h.store[k], now).expires = h.expires
    BY <2>1 DEF Touch, Consistent, StoreType
  <2> QED BY <2>2, <2>3, <2>4 DEF HasExpired, h
<1>3. LiveEntries[k] = IF Gone(g, now, k) THEN Nil ELSE Seen(g, k)
  BY <1>1 DEF View
<1>4. CASE g.store[k] = Nil
  BY <1>1, <1>3, <1>4 DEF Gone, Cache!Live
<1>5. CASE g.store[k] # Nil
  <2>1. k \in Stored(g) /\ g.store[k] \in Obj /\ g.heap[g.store[k]] \in Cell
    BY <1>1, <1>5, StoreShape
  <2>2. g.expires[g.store[k]] \in Int \cup {NoExpiry}
    BY <1>1, <2>1, StoreShape
  <2>3. LiveEntries[k] = Seen(g, k)
    BY <1>2, <1>3, <1>5 DEF Gone
  <2>4. ValueOf(g, k) \in Value
    BY <1>1, <1>5, ValueOfType
  <2>5. Seen(g, k) # Nil
    BY <2>2, <2>4, NilAssumption DEF Seen
  <2>6. g.expires[g.store[k]] # NoExpiry => g.expires[g.store[k]] > now
    <3> DEFINE e == g.expires[g.store[k]]
    <3>1. e # NoExpiry => ~(e <= now)
      BY <1>2, <1>5 DEF HasExpired
    <3> HIDE DEF e
    <3> QED BY <1>1, <2>2, <3>1 DEF e
  <2> QED BY <1>1, <1>5, <2>1, <2>2, <2>3, <2>4, <2>5, <2>6, SeenFields DEF Cache!Live
<1> QED BY <1>4, <1>5

-----------------------------------------------------------------------------
(* Commands that read *)

LEMMA WireLaw ==
  ASSUME IndInv, NEW k \in Key, NEW g, g = Get(db, k, now) \/ g = GetNoTouch(db, k, now)
  PROVE  Cache!Wire(k) = IF g.store[k] = Nil THEN NilVal ELSE WireValue(ValueOf(g, k))
<1>1. /\ k \in Cache!Live <=> g.store[k] # Nil
      /\ k \in Cache!Live => LiveEntries[k].val = ValueOf(g, k)
  BY GetLaw
<1> QED BY <1>1, SameConstants, SameReplies DEF Cache!Wire

\* One reply of a read.
LEMMA ReadLaw ==
  ASSUME IndInv, NEW k \in Key, NEW r, Answer(Get(db, k, now), r)
  PROVE  Cache!Same(r)
<1>1. Consistent(Get(db, k, now)) /\ View(Get(db, k, now), now) = LiveEntries
  BY GetLaw
<1> QED BY <1>1, SameStep

LEMMA ReadStep ==
  ASSUME IndInv, NEW k \in Key,
         \/ GET(k) \/ TTL(k) \/ EXPIRETIME(k) \/ TYPE(k) \/ HGETALL(k)
         \/ \E f \in Field : HGET(k, f)
  PROVE  Cache!Read(k)
<1> DEFINE g == Get(db, k, now)
           v == ValueOf(g, k)
           e == g.expires[g.store[k]]
           at == LiveEntries[k].at
           w == LiveEntries[k].val
<1>1. /\ k \in Cache!Live <=> g.store[k] # Nil
      /\ k \in Cache!Live => w = v /\ at = e
  BY GetLaw
<1>2. \A r : Answer(g, r) => Cache!Same(r)
  BY ReadLaw
<1>3. CASE GET(k)
  <2>1. Answer(g, IF g.store[k] = Nil THEN NilVal ELSE WireValue(v))
    BY <1>3 DEF GET
  <2>2. Cache!Wire(k) = IF g.store[k] = Nil THEN NilVal ELSE WireValue(v)
    BY WireLaw
  <2> HIDE DEF g, v
  <2>3. Cache!Same(Cache!Wire(k))
    BY <1>2, <2>1, <2>2
  <2> QED BY <2>3 DEF Cache!Read
<1>4. CASE TTL(k)
  <2>1. \/ g.store[k] = Nil /\ Answer(g, Int64(-2))
        \/ g.store[k] # Nil /\ e = NoExpiry /\ Answer(g, Int64(-1))
        \/ g.store[k] # Nil /\ e # NoExpiry /\ Answer(g, Int64((e - now) \div MsPerSec))
    BY <1>4 DEF TTL
  <2> HIDE DEF g, v, e, at, w
  <2>2. \/ k \notin Cache!Live /\ Cache!Same(Int64(-2))
        \/ k \in Cache!Live /\ at = NoExpiry /\ Cache!Same(Int64(-1))
        \/ k \in Cache!Live /\ at # NoExpiry /\ Cache!Same(Int64((at - now) \div MsPerSec))
    BY <1>1, <1>2, <2>1
  <2> QED BY <2>2, SameReplies DEF Cache!Read, at
<1>5. CASE EXPIRETIME(k)
  <2>1. \/ g.store[k] = Nil /\ Answer(g, Int64(-2))
        \/ g.store[k] # Nil /\ e = NoExpiry /\ Answer(g, Int64(-1))
        \/ g.store[k] # Nil /\ e # NoExpiry /\ Answer(g, Int64(e \div MsPerSec))
    BY <1>5 DEF EXPIRETIME
  <2> HIDE DEF g, v, e, at, w
  <2>2. \/ k \notin Cache!Live /\ Cache!Same(Int64(-2))
        \/ k \in Cache!Live /\ at = NoExpiry /\ Cache!Same(Int64(-1))
        \/ k \in Cache!Live /\ at # NoExpiry /\ Cache!Same(Int64(at \div MsPerSec))
    BY <1>1, <1>2, <2>1
  <2> QED BY <2>2, SameReplies DEF Cache!Read, at
<1>6. CASE TYPE(k)
  <2>1. \/ g.store[k] = Nil /\ Answer(g, TypeRes("none"))
        \/ g.store[k] # Nil /\ Answer(g, TypeRes(v.typ))
    BY <1>6 DEF TYPE
  <2> HIDE DEF g, v, e, at, w
  <2>2. \/ k \notin Cache!Live /\ Cache!Same(TypeRes("none"))
        \/ k \in Cache!Live /\ Cache!Same(TypeRes(w.typ))
    BY <1>1, <1>2, <2>1
  <2> QED BY <2>2, SameReplies DEF Cache!Read, w
<1>7. CASE HGETALL(k)
  <2>1. \/ g.store[k] = Nil /\ Answer(g, MapRes(NoFields))
        \/ g.store[k] # Nil /\ v.typ # "ssmap" /\ Answer(g, Err)
        \/ g.store[k] # Nil /\ v.typ = "ssmap" /\ Answer(g, MapRes(v.map))
    BY <1>7 DEF HGETALL
  <2> HIDE DEF g, v, e, at, w
  <2>2. \/ k \notin Cache!Live /\ Cache!Same(MapRes(NoFields))
        \/ k \in Cache!Live /\ w.typ # "ssmap" /\ Cache!Same(Err)
        \/ k \in Cache!Live /\ w.typ = "ssmap" /\ Cache!Same(MapRes(w.map))
    BY <1>1, <1>2, <2>1
  <2> QED BY <2>2, SameReplies, SameConstants DEF Cache!Read, w
<1>8. CASE \E f \in Field : HGET(k, f)
  <2>1. PICK f \in Field : HGET(k, f)
    BY <1>8
  <2>2. \/ g.store[k] = Nil /\ Answer(g, NilVal)
        \/ g.store[k] # Nil /\ v.typ # "ssmap" /\ Answer(g, Err)
        \/ /\ g.store[k] # Nil /\ v.typ = "ssmap"
           /\ Answer(g, IF v.map[f] = Nil THEN NilVal ELSE FieldRes(v.map[f]))
    BY <2>1 DEF HGET
  <2> HIDE DEF g, v, e, at, w
  <2>3. \/ k \notin Cache!Live /\ Cache!Same(NilVal)
        \/ k \in Cache!Live /\ w.typ # "ssmap" /\ Cache!Same(Err)
        \/ /\ k \in Cache!Live /\ w.typ = "ssmap"
           /\ Cache!Same(IF w.map[f] = Nil THEN NilVal ELSE FieldRes(w.map[f]))
    BY <1>1, <1>2, <2>2
  <2>4. k \notin Cache!Live => Cache!Wire(k) = NilVal
    BY SameConstants DEF Cache!Wire
  <2> QED BY <2>3, <2>4, SameReplies, SameConstants DEF Cache!Read, w
<1> QED BY <1>3, <1>4, <1>5, <1>6, <1>7, <1>8

-----------------------------------------------------------------------------
(* Commands that change an entry in place *)

\* u is g with the entry of k changed to the value v and the deadline a.
Changed(g, u, k, v, a) ==
  /\ u.store = g.store
  /\ u.expires = [g.expires EXCEPT ![g.store[k]] = a]
  /\ \A o \in Obj : o # g.store[k] => u.heap[o] = g.heap[o]
  /\ u.heap[g.store[k]].val = v

LEMMA ChangeView ==
  ASSUME NEW g, Consistent(g), NEW t \in Nat, NEW k \in Key, g.store[k] # Nil,
         NEW u, NEW v, NEW a, Changed(g, u, k, v, a)
  PROVE  View(u, t) = [View(g, t) EXCEPT ![k] =
                         IF a # NoExpiry /\ a <= t THEN Nil ELSE [val |-> v, at |-> a]]
<1> DEFINE new == IF a # NoExpiry /\ a <= t THEN Nil ELSE [val |-> v, at |-> a]
           o == g.store[k]
<1>1. /\ k \in Stored(g) /\ o \in Obj
      /\ g.expires \in [Obj -> Int \cup {NoExpiry}]
  BY StoreShape
<1>2. u.store[k] = o /\ u.expires[o] = a /\ u.heap[o].val = v
  BY <1>1 DEF Changed
<1>3. View(u, t)[k] = new
  BY <1>1, <1>2 DEF View, Gone, HasExpired, Seen, ValueOf
<1>4. ASSUME NEW j \in Key, j # k PROVE SameCell(g, u, j)
  <2>1. CASE g.store[j] = Nil
    BY <2>1 DEF SameCell, Changed
  <2>2. CASE g.store[j] # Nil
    <3>1. j \in Stored(g) /\ g.store[j] \in Obj
      BY <2>2, StoreShape
    <3>2. g.store[j] # o
      BY <1>1, <1>4, <3>1 DEF Consistent, Injective
    <3> QED BY <1>1, <3>1, <3>2 DEF SameCell, Changed
  <2> QED BY <2>1, <2>2
<1>5. \A j \in Key : j # k => View(u, t)[j] = View(g, t)[j]
  BY <1>4, ViewKept
<1> HIDE DEF new
<1> QED BY <1>3, <1>5 DEF View, new

LEMMA ChangeStep ==
  ASSUME IndInv, NEW k \in Key, NEW g, g = Get(db, k, now), g.store[k] # Nil,
         NEW u, Consistent(u), NEW v, NEW a, Changed(g, u, k, v, a),
         NEW r, Answer(u, r)
  PROVE  Cache!Change(k, Cache!Entry(v, a), r)
<1>1. Consistent(g) /\ now \in Nat /\ View(g, now) = LiveEntries
  BY GetLaw
<1>2. LiveEntries' = View(u, now) /\ reply' = r /\ now' = now
  BY AnswerView
<1>3. View(u, now) = [View(g, now) EXCEPT ![k] =
                        IF a # NoExpiry /\ a <= now THEN Nil ELSE [val |-> v, at |-> a]]
  BY <1>1, ChangeView
<1>4. Cache!Entry(v, a).at = a /\ Cache!Entry(v, a) = [val |-> v, at |-> a]
  BY DEF Cache!Entry
<1> QED BY <1>1, <1>2, <1>3, <1>4 DEF Cache!Change, Cache!Done

\* The two ways a deadline is changed, and the one way a value is.
LEMMA ChangeShapes ==
  ASSUME NEW g, Consistent(g), NEW k \in Key, g.store[k] # Nil, NEW a \in Int, NEW v \in Value
  PROVE  LET o == g.store[k]
             u == [g EXCEPT !.heap[o] = [g.heap[o] EXCEPT !.val = v]]
         IN  /\ Consistent(SetUnixTimeExpiry(g, o, a))
             /\ Changed(g, SetUnixTimeExpiry(g, o, a), k, ValueOf(g, k), a)
             /\ Consistent(DelExpiry(g, o))
             /\ Changed(g, DelExpiry(g, o), k, ValueOf(g, k), NoExpiry)
             /\ Consistent(u)
             /\ Changed(g, u, k, v, g.expires[o])
<1> DEFINE o == g.store[k]
           c == [g.heap[o] EXCEPT !.val = v]
           u == [g EXCEPT !.heap[o] = c]
<1>1. k \in Stored(g) /\ o \in Obj /\ g.heap[o] \in Cell /\ g \in StoreType
  BY StoreShape DEF Consistent
<1>2. Consistent(SetUnixTimeExpiry(g, o, a)) /\ Consistent(DelExpiry(g, o))
  BY <1>1, ExpiryConsistent
<1>3. Consistent(u)
  BY <1>1, UpdateConsistent
<1>4. Changed(g, SetUnixTimeExpiry(g, o, a), k, ValueOf(g, k), a)
  BY <1>1 DEF Changed, SetUnixTimeExpiry, ValueOf, StoreType
<1>5. Changed(g, DelExpiry(g, o), k, ValueOf(g, k), NoExpiry)
  BY <1>1 DEF Changed, DelExpiry, ValueOf, StoreType
<1>6. c.val = v
  BY <1>1 DEF Cell
<1> HIDE DEF c
<1>7. u.store = g.store /\ u.expires = g.expires /\ u.heap = [g.heap EXCEPT ![o] = c]
  BY <1>1 DEF StoreType
<1>8. Changed(g, u, k, v, g.expires[o])
  BY <1>1, <1>6, <1>7 DEF Changed, StoreType
<1> QED BY <1>2, <1>3, <1>4, <1>5, <1>8 DEF c

LEMMA RejectStep ==
  ASSUME IndInv, Reject
  PROVE  Cache!Same(Err)
BY SameStep, LiveView DEF Reject, IndInv

LEMMA SetExpiryStep ==
  ASSUME IndInv, NEW k \in Key, NEW opts, opts \subseteq ExpireOption, NEW at \in Int,
         SetExpiryIf(k, opts, at)
  PROVE  Cache!SetExpiryIf(k, opts, at)
<1> DEFINE g == Get(db, k, now)
           o == g.store[k]
           u == SetUnixTimeExpiry(g, o, at)
           prev == LiveEntries[k].at
           w == LiveEntries[k].val
           sets == ShouldSetExpiry(opts, g.expires[o], at)
           bad == ExpireOptionsInvalid(opts)
<1>1. /\ Consistent(g)
      /\ k \in Cache!Live <=> o # Nil
      /\ k \in Cache!Live => w = ValueOf(g, k) /\ prev = g.expires[o]
  BY GetLaw
<1>2. \A r : Answer(g, r) => Cache!Same(r)
  BY ReadLaw
<1>3. ASSUME o # Nil, Answer(u, Bool(TRUE))
      PROVE  Cache!Change(k, Cache!Entry(w, at), Bool(TRUE))
  <2>1. Consistent(u) /\ Changed(g, u, k, ValueOf(g, k), at)
    <3>1. PICK v : v \in Value
      BY <1>1, <1>3, ValueOfType
    <3> QED BY <1>1, <1>3, <3>1, ChangeShapes
  <2> HIDE DEF u
  <2> QED BY <1>1, <1>3, <2>1, ChangeStep
<1>4. \/ o = Nil /\ Answer(g, Bool(FALSE))
      \/ o # Nil /\ bad /\ Answer(g, Err)
      \/ o # Nil /\ ~bad /\ ~sets /\ Answer(g, Bool(FALSE))
      \/ o # Nil /\ ~bad /\ sets /\ Answer(u, Bool(TRUE))
  BY DEF SetExpiryIf
<1> DEFINE refused == Cache!OptionsRefused(opts)
           all == Cache!AllAllow(opts, prev, at)
           perm == Cache!PermissiveExpiry(opts, prev)
<1>5. /\ refused <=> bad
      /\ k \in Cache!Live /\ ~bad /\ sets => all \/ perm
      /\ k \in Cache!Live /\ ~bad /\ ~sets => ~all
  <2>1. /\ refused <=> bad
        /\ ~bad /\ ShouldSetExpiry(opts, prev, at) => all \/ perm
        /\ ~bad /\ ~ShouldSetExpiry(opts, prev, at) => ~all
    BY OptionLaw
  <2>2. k \in Cache!Live => (ShouldSetExpiry(opts, prev, at) <=> sets)
    BY <1>1
  <2> HIDE DEF refused, bad, sets, all, perm
  <2> QED BY <2>1, <2>2
<1> DEFINE live == k \in Cache!Live
<1>6. \/ ~live /\ Cache!Same(Bool(FALSE))
      \/ live /\ bad /\ Cache!Same(Err)
      \/ live /\ ~bad /\ ~sets /\ Cache!Same(Bool(FALSE))
      \/ live /\ ~bad /\ sets /\ Cache!Change(k, Cache!Entry(w, at), Bool(TRUE))
  <2> HIDE DEF g, o, u, sets, bad, w
  <2> QED BY <1>1, <1>2, <1>3, <1>4
<1>7. Cache!Bool(FALSE) = Bool(FALSE) /\ Cache!Bool(TRUE) = Bool(TRUE) /\ Cache!Err = Err
  BY SameReplies, SameConstants
<1> HIDE DEF bad, sets, live, refused, all, perm
<1> QED BY <1>5, <1>6, <1>7 DEF Cache!SetExpiryIf, live, refused, all, perm

LEMMA ExpireStep ==
  ASSUME IndInv, NEW k \in Key, NEW sec \in ExpiryArg, NEW opts, opts \subseteq ExpireOption,
         EXPIRE(k, sec, opts) \/ EXPIREAT(k, sec, opts)
  PROVE  Cache!EXPIRE(k, sec, opts) \/ Cache!EXPIREAT(k, sec, opts)
<1>1. sec \in Int /\ now \in Int /\ MsPerSec \in Int
  BY ArgAssumption, TimeAssumption DEF IndInv
<1>2. IntMin..IntMax \subseteq Int /\ sec * MsPerSec \in Int
  BY <1>1
<1>3. ExpireAt(sec, now) \in Int
  <2>1. Wrap(sec * MsPerSec) \in Int
    BY <1>2, WrapType
  <2>2. now + Wrap(sec * MsPerSec) \in Int
    BY <1>1, <2>1
  <2> QED BY <1>2, <2>2, WrapType DEF ExpireAt
<1>4. /\ sec \notin 0..MaxAbsTimestamp <=> ExpireAtOutOfRange(sec)
      /\ Cache!Err = Err
  BY <1>1, TimeAssumption, SameConstants DEF ExpireAtOutOfRange
<1>5. CASE EXPIRE(k, sec, opts)
  <2>1. CASE sec < 0
    <3>1. Reject
      BY <1>1, <1>5, <2>1 DEF EXPIRE
    <3> QED BY <2>1, <3>1, <1>4, RejectStep DEF Cache!EXPIRE
  <2>2. CASE ~(sec < 0)
    <3>1. SetExpiryIf(k, opts, ExpireAt(sec, now))
      BY <1>5, <2>2 DEF EXPIRE
    <3>2. Cache!SetExpiryIf(k, opts, ExpireAt(sec, now))
      BY <1>3, <3>1, SetExpiryStep
    <3>3. sec \in Nat /\ now \in Nat
      BY <1>1, <2>2 DEF IndInv
    <3>4. ExpireAt(sec, now) \in Cache!SecondsFrom(sec, now)
      BY <3>3, SecondsLaw
    <3> QED BY <2>2, <3>2, <3>4 DEF Cache!EXPIRE
  <2> QED BY <2>1, <2>2
<1>6. CASE EXPIREAT(k, sec, opts)
  <2>1. CASE ExpireAtOutOfRange(sec)
    <3>1. Reject
      BY <1>6, <2>1 DEF EXPIREAT
    <3> QED BY <2>1, <3>1, <1>4, RejectStep DEF Cache!EXPIREAT
  <2>2. CASE ~ExpireAtOutOfRange(sec)
    <3>1. SetExpiryIf(k, opts, sec * MsPerSec)
      BY <1>6, <2>2 DEF EXPIREAT
    <3> QED BY <1>2, <1>4, <2>2, <3>1, SetExpiryStep DEF Cache!EXPIREAT
  <2> QED BY <2>1, <2>2
<1> QED BY <1>5, <1>6

LEMMA GetexStep ==
  ASSUME IndInv, NEW k \in Key, NEW P, P \subseteq GetexParam, NEW n \in Int, GETEX(k, P, n)
  PROVE  Cache!GETEX(k, P, n)
<1> DEFINE g == Get(db, k, now)
           o == g.store[k]
           w == LiveEntries[k].val
           at == Deadline(P, n, now)
           bad == ParamsRejected(P, n, now)
           live == k \in Cache!Live
           wire == Cache!Wire(k)
<1>1. /\ Consistent(g) /\ now \in Nat
      /\ live <=> o # Nil
      /\ live => w = ValueOf(g, k)
  BY GetLaw
<1>2. \A r : Answer(g, r) => Cache!Same(r)
  BY ReadLaw
<1>3. wire = IF o = Nil THEN NilVal ELSE WireValue(ValueOf(g, k))
  BY WireLaw
<1>4. /\ bad => Cache!MayRefuse(P, n, now)
      /\ ~bad => ~Cache!MustRefuse(P, n, now) /\ at \in Cache!Deadlines(P, n, now)
      /\ Cache!Err = Err
  BY <1>1, RequestLaw, SameConstants
<1>5. \/ bad /\ Reject
      \/ ~bad /\ o = Nil /\ Answer(g, NilVal)
      \/ /\ ~bad /\ o # Nil /\ "PERSIST" \in P
         /\ Answer(DelExpiry(g, o), WireValue(ValueOf(g, k)))
      \/ /\ ~bad /\ o # Nil /\ P \cap ExpiryParam # {}
         /\ Answer(SetUnixTimeExpiry(g, o, at), WireValue(ValueOf(g, k)))
      \/ ~bad /\ o # Nil /\ P = {} /\ Answer(g, WireValue(ValueOf(g, k)))
  BY DEF GETEX
<1>6. CASE bad /\ Reject
  <2>1. Cache!Same(Err)
    BY <1>6, RejectStep
  <2> HIDE DEF bad
  <2> QED BY <1>4, <1>6, <2>1 DEF Cache!GETEX
<1>7. CASE \/ ~bad /\ o = Nil /\ Answer(g, NilVal)
           \/ ~bad /\ o # Nil /\ P = {} /\ Answer(g, WireValue(ValueOf(g, k)))
  <2>1. Cache!Same(wire) /\ (~live \/ P = {})
    <3> HIDE DEF g, o, live, bad, wire
    <3> QED BY <1>1, <1>2, <1>3, <1>7
  <2> HIDE DEF bad
  <2> QED BY <1>4, <1>7, <2>1 DEF Cache!GETEX
<1>8. ASSUME ~bad, o # Nil, P # {}, Cache!Change(k, Cache!Entry(w, at), wire)
      PROVE  Cache!GETEX(k, P, n)
  <2>1. live
    BY <1>1, <1>8
  <2> HIDE DEF bad, at
  <2> QED BY <1>4, <1>8, <2>1 DEF Cache!GETEX
<1>9. CASE /\ ~bad /\ o # Nil /\ "PERSIST" \in P
           /\ Answer(DelExpiry(g, o), WireValue(ValueOf(g, k)))
  <2>1. P \cap ExpiryParam = {}
    BY <1>9 DEF ParamsRejected, ParamsConflict
  <2>2. at = NoExpiry
    BY <2>1 DEF Deadline
  <2>3. Consistent(DelExpiry(g, o)) /\ Changed(g, DelExpiry(g, o), k, ValueOf(g, k), NoExpiry)
    <3>1. PICK v : v \in Value
      BY <1>1, <1>9, ValueOfType
    <3>2. 0 \in Int
      OBVIOUS
    <3> QED BY <1>1, <1>9, <3>1, <3>2, ChangeShapes
  <2> DEFINE u == DelExpiry(g, o)
             r == WireValue(ValueOf(g, k))
  <2> HIDE DEF u, r
  <2>4. Cache!Change(k, Cache!Entry(ValueOf(g, k), NoExpiry), r)
    BY <1>9, <2>3, ChangeStep DEF u, r
  <2> HIDE DEF bad, at, wire, live, w
  <2> QED BY <1>1, <1>3, <1>8, <1>9, <2>2, <2>4 DEF r
<1>10. CASE /\ ~bad /\ o # Nil /\ P \cap ExpiryParam # {}
            /\ Answer(SetUnixTimeExpiry(g, o, at), WireValue(ValueOf(g, k)))
  <2>1. at \in Int
    BY <1>1, <1>10, DeadlineType
  <2> HIDE DEF at
  <2>3. /\ Consistent(SetUnixTimeExpiry(g, o, at))
        /\ Changed(g, SetUnixTimeExpiry(g, o, at), k, ValueOf(g, k), at)
    <3>1. PICK v : v \in Value
      BY <1>1, <1>10, ValueOfType
    <3> QED BY <1>1, <1>10, <2>1, <3>1, ChangeShapes
  <2> DEFINE u == SetUnixTimeExpiry(g, o, at)
             r == WireValue(ValueOf(g, k))
  <2> HIDE DEF u, r
  <2>4. Cache!Change(k, Cache!Entry(ValueOf(g, k), at), r)
    BY <1>10, <2>3, ChangeStep DEF u, r
  <2> HIDE DEF bad, wire, live, w
  <2> QED BY <1>1, <1>3, <1>8, <1>10, <2>4 DEF r
<1> HIDE DEF bad, g, o, at, live, wire, w
<1> QED BY <1>5, <1>6, <1>7, <1>9, <1>10

LEMMA IncrInPlace ==
  ASSUME IndInv, NEW k \in Key, NEW d \in IntMin..IntMax,
         NEW g, g = Get(db, k, now), g.store[k] # Nil, ValueOf(g, k).typ = "int",
         NEW n, n = Wrap(ValueOf(g, k).num + d),
         Answer([g EXCEPT !.heap[g.store[k]] = [g.heap[g.store[k]] EXCEPT !.val = IntValue(n)]],
                Int64(n))
  PROVE  Cache!DoIncr(k, d)
<1> DEFINE u == [g EXCEPT !.heap[g.store[k]] = [g.heap[g.store[k]] EXCEPT !.val = IntValue(n)]]
           w == LiveEntries[k].val
           a == LiveEntries[k].at
<1>1. /\ Consistent(g) /\ k \in Cache!Live
      /\ w = ValueOf(g, k) /\ a = g.expires[g.store[k]] /\ ValueOf(g, k) \in Value
  BY GetLaw
<1>2. n \in IntMin..IntMax
  <2>1. ValueOf(g, k).num \in Int /\ d \in Int
    BY <1>1, ValueFields
  <2>2. ValueOf(g, k).num + d \in Int
    BY <2>1
  <2> QED BY <2>2, WrapType
<1>3. IntValue(n) \in Value
  BY <1>2, ValueTypes
<1>4. Consistent(u) /\ Changed(g, u, k, IntValue(n), a)
  <2>1. 0 \in Int
    OBVIOUS
  <2> QED BY <1>1, <1>3, <2>1, ChangeShapes
<1>5. Answer(u, Int64(n))
  OBVIOUS
<1> HIDE DEF u
<1>6. Cache!Change(k, Cache!Entry(IntValue(n), a), Int64(n))
  BY <1>4, <1>5, ChangeStep
<1>7. Cache!Wrap(w.num + d) = n
  BY <1>1, SameArguments
<1>8. Cache!IntValue(n) = IntValue(n) /\ Cache!Int64(n) = Int64(n)
  BY SameReplies
<1>9. k \in Cache!Live /\ w.typ = "int"
  BY <1>1
<1> HIDE DEF w, a
<1> QED BY <1>6, <1>7, <1>8, <1>9 DEF Cache!DoIncr, w, a

-----------------------------------------------------------------------------
(* Commands that write a new object *)

\* The deadline a has passed at time t.
Past(a, t) == a # NoExpiry /\ a <= t

LEMMA AddView ==
  ASSUME NEW d, Consistent(d), NEW t, NEW k \in Key, NEW o \in Obj,
         \A j \in Key : d.store[j] # o,
         NEW a, NEW c, NEW r, Adds(d, k, o, a, c, r)
  PROVE  /\ \A j \in Key : j # k => View(r, t)[j] = View(d, t)[j]
         /\ View(r, t)[k] = IF Past(a, t) THEN Nil ELSE [val |-> c.val, at |-> a]
<1>1. /\ d.store \in [Key -> Obj \cup {Nil}]
      /\ d.expires \in [Obj -> Int \cup {NoExpiry}]
      /\ d.heap \in [Obj -> Cell \cup {Nil}]
  BY StoreShape
<1>2. ASSUME NEW j \in Key, j # k PROVE SameCell(d, r, j)
  BY <1>1, <1>2 DEF Adds, SameCell
<1>3. r.store[k] = o /\ r.expires[o] = a /\ r.heap[o].val = c.val
  BY <1>1 DEF Adds
<1>4. o # Nil
  BY ObjAssumption
<1>5. View(r, t)[k] = IF Past(a, t) THEN Nil ELSE [val |-> c.val, at |-> a]
  BY <1>3, <1>4 DEF View, Gone, HasExpired, Seen, ValueOf, Past
<1>6. \A j \in Key : j # k => View(r, t)[j] = View(d, t)[j]
  BY <1>2, ViewKept
<1> QED BY <1>5, <1>6

LEMMA ReplaceView ==
  ASSUME NEW s, Consistent(s), NEW t, NEW k \in Key, s.store[k] # Nil, NEW o \in Obj,
         \A j \in Key : s.store[j] # o,
         NEW a, NEW c, NEW r, Replaces(s, k, o, a, c, r)
  PROVE  /\ \A j \in Key : j # k => View(r, t)[j] = View(s, t)[j]
         /\ View(r, t)[k] = IF Past(a, t) THEN Nil ELSE [val |-> c.val, at |-> a]
<1>1. /\ s.store \in [Key -> Obj \cup {Nil}]
      /\ s.expires \in [Obj -> Int \cup {NoExpiry}]
      /\ s.heap \in [Obj -> Cell \cup {Nil}]
      /\ k \in Stored(s) /\ s.store[k] \in Obj /\ s.store[k] # o
  BY StoreShape
<1>2. ASSUME NEW j \in Key, j # k PROVE SameCell(s, r, j)
  <2>1. CASE s.store[j] = Nil
    BY <1>1, <1>2, <2>1 DEF SameCell, Replaces
  <2>2. CASE s.store[j] # Nil
    <3>1. j \in Stored(s) /\ s.store[j] \in Obj /\ s.store[j] # o
      BY <2>2, StoreShape
    <3>2. s.store[j] # s.store[k]
      BY <1>1, <1>2, <3>1 DEF Consistent, Injective
    <3> QED BY <1>1, <1>2, <3>1, <3>2 DEF SameCell, Replaces
  <2> QED BY <2>1, <2>2
<1>3. r.store[k] = o /\ r.expires[o] = a /\ r.heap[o].val = c.val
  BY <1>1 DEF Replaces
<1>4. o # Nil
  BY ObjAssumption
<1>5. View(r, t)[k] = IF Past(a, t) THEN Nil ELSE [val |-> c.val, at |-> a]
  BY <1>3, <1>4 DEF View, Gone, HasExpired, Seen, ValueOf, Past
<1>6. \A j \in Key : j # k => View(r, t)[j] = View(s, t)[j]
  BY <1>2, ViewKept
<1> QED BY <1>5, <1>6

Rewritten(E, k, e, lost) ==
  [j \in Key |-> IF j = k THEN e ELSE IF j \in lost THEN Nil ELSE E[j]]

\* A write: k has the new value, and only an insertion loses other keys.
LEMMA PutView ==
  ASSUME NEW s, Consistent(s), NEW k \in Key, NEW o \in Fresh(s), NEW v \in Value,
         NEW at \in Int \cup {NoExpiry}, NEW keep \in BOOLEAN, NEW t \in Nat,
         ~Past(at, t), keep => at = NoExpiry,
         s.store[k] # Nil => ~HasExpired(s, s.store[k], t),
         NEW r \in Put(NewObj(s, o, v, at, t), k, o, keep, t)
  PROVE  \E lost \in IF s.store[k] # Nil THEN {{}} ELSE SUBSET (Key \ {k}) :
           LET a == IF keep /\ s.store[k] # Nil THEN s.expires[s.store[k]] ELSE at
           IN  View(r, t) = Rewritten(View(s, t), k, [val |-> v, at |-> a], lost)
<1> DEFINE c == [val |-> v, last |-> t]
           n == NewObj(s, o, v, at, t)
           cur == s.store[k]
           a == IF keep /\ s.expires[cur] # NoExpiry /\ s.expires[cur] > 0
                THEN s.expires[cur] ELSE at
<1>1. PutResult(s, k, o, v, at, keep, t, r)
  BY PutShape
<1>2. /\ s \in StoreType /\ o \in Obj /\ c.val = v
      /\ \A j \in Key : s.store[j] # o
      /\ s.expires \in [Obj -> Int \cup {NoExpiry}]
      /\ cur # Nil => cur \in Obj
  BY StoreShape DEF Consistent, Fresh, Referenced
<1>3. \/ cur # Nil /\ Replaces(s, k, o, a, c, r)
      \/ cur = Nil /\ \E V \in VictimSets(n, ShouldEvict(s)) : Adds(DelKeys(s, V), k, o, at, c, r)
  BY <1>1 DEF PutResult
<1> HIDE DEF c, n
<1>4. CASE cur # Nil /\ Replaces(s, k, o, a, c, r)
  <2>1. a = IF keep THEN s.expires[cur] ELSE at
    <3> DEFINE e == s.expires[cur]
    <3>1. e \in Int \cup {NoExpiry} /\ (e # NoExpiry => ~(e <= t))
      BY <1>2, <1>4 DEF HasExpired
    <3> HIDE DEF e
    <3>2. e # NoExpiry => e > 0
      BY <3>1
    <3> QED BY <3>2 DEF e
  <2>2. ~Past(a, t)
    BY <1>4, <2>1 DEF HasExpired, Past
  <2> HIDE DEF a
  <2>3. /\ \A j \in Key : j # k => View(r, t)[j] = View(s, t)[j]
        /\ View(r, t)[k] = IF Past(a, t) THEN Nil ELSE [val |-> c.val, at |-> a]
    BY ONLY <1>2, <1>4, ReplaceView, Consistent(s), k \in Key
  <2>4. View(r, t) = Rewritten(View(s, t), k, [val |-> v, at |-> a], {})
    BY <1>2, <2>2, <2>3 DEF View, Rewritten
  <2> QED BY <1>4, <2>1, <2>4
<1>5. CASE cur = Nil /\ \E V \in VictimSets(n, ShouldEvict(s)) : Adds(DelKeys(s, V), k, o, at, c, r)
  <2>1. PICK V \in VictimSets(n, ShouldEvict(s)) : Adds(DelKeys(s, V), k, o, at, c, r)
    BY <1>5
  <2>2. Stored(n) = Stored(s)
    BY <1>2 DEF NewObj, StoreType, n, Stored
  <2>3. V \subseteq Stored(s)
    BY <2>1, <2>2 DEF VictimSets
  <2>4. V \subseteq Key \ {k}
    BY <1>5, <2>3 DEF Stored
  <2> DEFINE d == DelKeys(s, V)
  <2>5. Consistent(d) /\ \A j \in Key : d.store[j] # o
    BY <1>2, DelKeysConsistent, ObjAssumption DEF DelKeys
  <2>6. View(d, t) = [j \in Key |-> IF j \in V THEN Nil ELSE View(s, t)[j]]
    BY DelView
  <2> HIDE DEF d
  <2>7. Adds(d, k, o, at, c, r)
    BY <2>1 DEF d
  <2>8. /\ \A j \in Key : j # k => View(r, t)[j] = View(d, t)[j]
        /\ View(r, t)[k] = IF Past(at, t) THEN Nil ELSE [val |-> c.val, at |-> at]
    BY <1>2, <2>5, <2>7, AddView
  <2>9. View(r, t) = Rewritten(View(s, t), k, [val |-> v, at |-> at], V)
    BY <1>2, <2>6, <2>8 DEF View, Rewritten
  <2> QED BY <1>5, <2>4, <2>9
<1> QED BY <1>3, <1>4, <1>5

LEMMA WriteStep ==
  ASSUME IndInv, NEW k \in Key, NEW g, g = Get(db, k, now), NEW v \in Value,
         NEW at \in Int \cup {NoExpiry}, ~Past(at, now),
         NEW keep \in BOOLEAN, keep => at = NoExpiry, NEW r,
         \E o \in Fresh(g) : \E t \in Put(NewObj(g, o, v, at, now), k, o, keep, now) : Answer(t, r)
  PROVE  Cache!Write(k, Cache!Entry(v, IF keep /\ k \in Cache!Live
                                       THEN LiveEntries[k].at ELSE at), r)
<1> DEFINE live == g.store[k] # Nil
           a == IF keep /\ live THEN g.expires[g.store[k]] ELSE at
           b == IF keep /\ k \in Cache!Live THEN LiveEntries[k].at ELSE at
           e == g.expires[g.store[k]]
           Lost == IF live THEN {{}} ELSE SUBSET (Key \ {k})
           F(lost) == Rewritten(View(g, now), k, [val |-> v, at |-> a], lost)
<1>1. /\ Consistent(g) /\ now \in Nat /\ View(g, now) = LiveEntries
      /\ k \in Cache!Live <=> live
      /\ k \in Cache!Live => LiveEntries[k].at = e
      /\ k \in Cache!Live => e \in Int \cup {NoExpiry}
      /\ k \in Cache!Live => (e # NoExpiry => e > now)
  BY GetLaw
<1>2. live => ~HasExpired(g, g.store[k], now)
  <2>1. live /\ e # NoExpiry => e > now /\ e \in Int
    <3> HIDE DEF e, live
    <3> QED BY <1>1
  <2> HIDE DEF e
  <2>2. live /\ e # NoExpiry => ~(e <= now)
    BY <1>1, <2>1
  <2> QED BY <2>2 DEF HasExpired, e
<1>3. PICK o \in Fresh(g) :
        \E t \in Put(NewObj(g, o, v, at, now), k, o, keep, now) : Answer(t, r)
  OBVIOUS
<1>4. PICK t \in Put(NewObj(g, o, v, at, now), k, o, keep, now) : Answer(t, r)
  BY <1>3
<1>5. Consistent(t)
  BY <1>1, PutConsistent
<1>6. LiveEntries' = View(t, now) /\ reply' = r /\ now' = now
  BY <1>4, <1>5, AnswerView
<1>7. \E lost \in Lost : View(t, now) = F(lost)
  BY <1>1, <1>2, PutView
<1>8. PICK lost \in Lost : View(t, now) = F(lost)
  BY <1>7
<1>9. a = b
  <2> HIDE DEF e
  <2> QED BY <1>1 DEF e
<1>10. Cache!Entry(v, b) = [val |-> v, at |-> a]
  BY <1>9 DEF Cache!Entry
<1>11. Lost = IF k \in Cache!Live THEN {{}} ELSE SUBSET (Key \ {k})
  BY <1>1
<1>12. F(lost) = [j \in Key |-> IF j = k THEN Cache!Entry(v, b)
                                ELSE IF j \in lost THEN Nil ELSE LiveEntries[j]]
  BY <1>1, <1>10 DEF Rewritten
<1> HIDE DEF F, Lost, a, b
<1>13. Cache!Write(k, Cache!Entry(v, b), r)
  BY <1>6, <1>8, <1>11, <1>12 DEF Cache!Write, Cache!Done
<1> QED BY <1>13 DEF b

LEMMA GetsetStep ==
  ASSUME IndInv, NEW k \in Key, NEW v \in SetArg, GETSET(k, v)
  PROVE  Cache!GETSET(k, v)
<1> DEFINE g == Get(db, k, now)
           r == IF g.store[k] = Nil THEN NilVal ELSE WireValue(ValueOf(g, k))
           keep == FALSE
           a == IF keep /\ k \in Cache!Live THEN LiveEntries[k].at ELSE NoExpiry
<1>1. v \in Value
  BY ValueTypes
<1>2. \E o \in Fresh(g) :
        \E t \in Put(NewObj(g, o, v, NoExpiry, now), k, o, keep, now) : Answer(t, r)
  BY DEF GETSET
<1>3. Cache!Wire(k) = r
  BY WireLaw
<1>4. keep \in BOOLEAN /\ a = NoExpiry /\ ~Past(NoExpiry, now)
  BY DEF Past
<1>5. NoExpiry \in Int \cup {NoExpiry}
  OBVIOUS
<1> HIDE DEF g, r, keep
<1>6. g = Get(db, k, now)
  BY DEF g
<1>7. Cache!Write(k, Cache!Entry(v, a), r)
  BY <1>1, <1>2, <1>4, <1>5, <1>6, WriteStep
<1> HIDE DEF a
<1> QED BY <1>3, <1>4, <1>7 DEF Cache!GETSET

LEMMA IncrStep ==
  ASSUME IndInv, NEW k \in Key, NEW d \in IntMin..IntMax, DoIncr(k, d)
  PROVE  Cache!DoIncr(k, d)
<1> DEFINE g == Get(db, k, now)
           p == g.store[k]
           n == Wrap(ValueOf(g, k).num + d)
           u == [g EXCEPT !.heap[p] = [g.heap[p] EXCEPT !.val = IntValue(n)]]
           keep == FALSE
           a == IF keep /\ k \in Cache!Live THEN LiveEntries[k].at ELSE NoExpiry
           typ == ValueOf(g, k).typ
<1>1. /\ k \in Cache!Live <=> p # Nil
      /\ k \in Cache!Live => LiveEntries[k].val = ValueOf(g, k)
  BY GetLaw
<1>2. /\ Cache!IntValue(d) = IntValue(d) /\ Cache!Int64(d) = Int64(d) /\ Cache!Err = Err
      /\ IntValue(d) \in Value
      /\ NoExpiry \in Int \cup {NoExpiry}
  BY SameReplies, SameConstants, ValueTypes
<1>3. \/ /\ p = Nil
         /\ \E o \in Fresh(g) :
              \E t \in Put(NewObj(g, o, IntValue(d), NoExpiry, now), k, o, keep, now) :
                Answer(t, Int64(d))
      \/ p # Nil /\ typ # "int" /\ Answer(g, Err)
      \/ p # Nil /\ typ = "int" /\ Answer(u, Int64(n))
  BY DEF DoIncr
<1>4. CASE /\ p = Nil
           /\ \E o \in Fresh(g) :
                \E t \in Put(NewObj(g, o, IntValue(d), NoExpiry, now), k, o, keep, now) :
                  Answer(t, Int64(d))
  <2>1. keep \in BOOLEAN /\ a = NoExpiry /\ ~Past(NoExpiry, now)
    BY DEF Past
  <2>2. k \notin Cache!Live
    BY <1>1, <1>4
  <2> HIDE DEF g, keep
  <2>3. g = Get(db, k, now)
    BY DEF g
  <2>4. Cache!Write(k, Cache!Entry(IntValue(d), a), Int64(d))
    BY <1>2, <1>4, <2>1, <2>3, WriteStep
  <2> HIDE DEF a
  <2> QED BY <1>2, <2>1, <2>2, <2>4 DEF Cache!DoIncr
<1>5. CASE p # Nil /\ typ # "int" /\ Answer(g, Err)
  <2>1. Cache!Same(Err)
    BY <1>5, ReadLaw
  <2>2. k \in Cache!Live /\ LiveEntries[k].val.typ # "int"
    BY <1>1, <1>5
  <2> QED BY <1>2, <2>1, <2>2 DEF Cache!DoIncr
<1>6. CASE p # Nil /\ typ = "int" /\ Answer(u, Int64(n))
  <2> DEFINE h == g
             m == n
  <2> HIDE DEF h, m
  <2>1. h = Get(db, k, now) /\ m = Wrap(ValueOf(h, k).num + d)
    BY DEF h, m
  <2>2. /\ h.store[k] # Nil /\ ValueOf(h, k).typ = "int"
        /\ Answer([h EXCEPT !.heap[h.store[k]] = [h.heap[h.store[k]] EXCEPT !.val = IntValue(m)]],
                  Int64(m))
    BY <1>6 DEF h, m
  <2> QED BY <2>1, <2>2, IncrInPlace
<1> HIDE DEF g, u, n, keep, typ, p
<1> QED BY <1>3, <1>4, <1>5, <1>6

\* An accepted duration is positive.
LEMMA DeadlineAhead ==
  ASSUME NEW P, NEW n \in Int, NEW t \in Nat, ~ParamsRejected(P, n, t)
  PROVE  /\ ~Past(Deadline(P, n, t), t)
         /\ "KEEPTTL" \in P => Deadline(P, n, t) = NoExpiry
<1>1. CASE P \cap ExpiryParam = {}
  BY <1>1 DEF Deadline, Past
<1>2. CASE P \cap ExpiryParam # {}
  <2> DEFINE p == CHOOSE q \in P \cap ExpiryParam : TRUE
             d == DurationMs(p, n, t)
  <2>1. p \in P \cap ExpiryParam
    BY <1>2
  <2> HIDE DEF p
  <2>2. DurationValid(p, n, t)
    BY <2>1 DEF ParamsRejected
  <2>3. d \in Int
    <3>1. t \div MsPerSec \in Int /\ MsPerSec \in Int
      BY TimeAssumption
    <3> QED BY <2>1, <3>1 DEF ExpiryParam, DurationMs
  <2>4. d > 0
    BY <2>2 DEF DurationValid
  <2> HIDE DEF d
  <2>5. ~(t + d <= t)
    BY <2>3, <2>4
  <2>6. Deadline(P, n, t) = t + d
    BY <1>2 DEF Deadline, p, d
  <2>7. "KEEPTTL" \notin P
    BY <1>2 DEF ParamsRejected, ParamsConflict
  <2> QED BY <2>5, <2>6, <2>7 DEF Past
<1> QED BY <1>1, <1>2

LEMMA SetStep ==
  ASSUME IndInv, NEW k \in Key, NEW v \in SetArg, NEW P, NEW n \in Int, SET(k, v, P, n)
  PROVE  Cache!SET(k, v, P, n)
<1> DEFINE g == Get(db, k, now)
           at == Deadline(P, n, now)
           keep == "KEEPTTL" \in P
           bad == ParamsRejected(P, n, now)
           live == k \in Cache!Live
           skip == ("XX" \in P /\ ~live) \/ ("NX" \in P /\ live)
           a == IF keep /\ live THEN LiveEntries[k].at ELSE at
<1>1. live <=> g.store[k] # Nil
  BY GetLaw
<1>3. now \in Nat /\ v \in Value
  BY ValueTypes DEF IndInv
<1>2. /\ bad => Cache!MayRefuse(P, n, now)
      /\ ~bad => ~Cache!MustRefuse(P, n, now) /\ at \in Cache!Deadlines(P, n, now)
      /\ Cache!Err = Err /\ Cache!OK = OK
  BY <1>3, RequestLaw, SameConstants
<1>4. at \in Int \cup {NoExpiry} /\ keep \in BOOLEAN
  BY <1>3, DeadlineType
<1>5. \/ bad /\ Reject
      \/ ~bad /\ skip /\ Answer(g, OK)
      \/ /\ ~bad /\ ~skip
         /\ \E o \in Fresh(g) : \E t \in Put(NewObj(g, o, v, at, now), k, o, keep, now) : Answer(t, OK)
  BY <1>1 DEF SET
<1>6. CASE bad /\ Reject
  <2>1. Cache!Same(Err)
    BY <1>6, RejectStep
  <2> HIDE DEF bad
  <2> QED BY <1>2, <1>6, <2>1 DEF Cache!SET
<1>7. CASE ~bad /\ skip /\ Answer(g, OK)
  <2>1. Cache!Same(OK)
    BY <1>7, ReadLaw
  <2> HIDE DEF bad
  <2> QED BY <1>2, <1>7, <2>1 DEF Cache!SET
<1>8. CASE /\ ~bad /\ ~skip
           /\ \E o \in Fresh(g) : \E t \in Put(NewObj(g, o, v, at, now), k, o, keep, now) : Answer(t, OK)
  <2>1. ~Past(at, now) /\ (keep => at = NoExpiry)
    BY <1>3, <1>8, DeadlineAhead
  <2> HIDE DEF g, at, keep
  <2>2. g = Get(db, k, now)
    BY DEF g
  <2>3. Cache!Write(k, Cache!Entry(v, a), OK)
    BY <1>3, <1>4, <1>8, <2>1, <2>2, WriteStep
  <2>4. ~bad /\ ("XX" \in P => live) /\ ("NX" \in P => ~live)
    BY <1>8
  <2>5. a \in IF "KEEPTTL" \in P /\ live THEN {LiveEntries[k].at} ELSE Cache!Deadlines(P, n, now)
    <3> HIDE DEF bad
    <3> QED BY <1>2, <2>4 DEF keep
  <2> HIDE DEF bad, a
  <2> QED BY <1>2, <2>3, <2>4, <2>5 DEF Cache!SET
<1> HIDE DEF g, at, bad, keep
<1> QED BY <1>5, <1>6, <1>7, <1>8

LEMMA HsetStep ==
  ASSUME IndInv, NEW k \in Key, NEW kvs \in FieldMap, NEW odd \in BOOLEAN, HSET(k, kvs, odd)
  PROVE  Cache!HSET(k, kvs)
<1> DEFINE g == Get(db, k, now)
           new == g.store[k] = Nil
           typ == ValueOf(g, k).typ
           m == IF new THEN NoFields ELSE ValueOf(g, k).map
           merged == [f \in Field |-> IF kvs[f] = Nil THEN m[f] ELSE kvs[f]]
           count == Cardinality({f \in Field : kvs[f] # Nil /\ m[f] = Nil})
           keep == FALSE
           a == IF keep /\ k \in Cache!Live THEN LiveEntries[k].at ELSE NoExpiry
<1>1. /\ Consistent(g)
      /\ k \in Cache!Live <=> ~new
      /\ k \in Cache!Live => LiveEntries[k].val = ValueOf(g, k)
      /\ k \in Cache!Live => ValueOf(g, k) \in Value
  BY GetLaw
<1>2. m \in FieldMap
  BY <1>1, ValueTypes, ValueFields
<1>3. \/ Answer(g, Err)
      \/ /\ ~new => typ = "ssmap"
         /\ \E o \in Fresh(g) :
              \E t \in Put(NewObj(g, o, MapValue(merged), NoExpiry, now), k, o, keep, now) :
                Answer(t, Int64(count))
  BY DEF HSET
<1>4. m = IF k \in Cache!Live THEN LiveEntries[k].val.map ELSE Cache!NoFields
  BY <1>1, SameConstants
<1>5. Cache!Err = Err /\ Cache!MapValue(merged) = MapValue(merged) /\ Cache!Int64(count) = Int64(count)
  BY SameReplies, SameConstants
<1>6. CASE Answer(g, Err)
  <2>1. Cache!Same(Err)
    BY <1>6, ReadLaw
  <2> QED BY <1>5, <2>1 DEF Cache!HSET
<1>7. CASE /\ ~new => typ = "ssmap"
           /\ \E o \in Fresh(g) :
                \E t \in Put(NewObj(g, o, MapValue(merged), NoExpiry, now), k, o, keep, now) :
                  Answer(t, Int64(count))
  <2>1. keep \in BOOLEAN /\ a = NoExpiry /\ ~Past(NoExpiry, now)
    BY DEF Past
  <2>2. k \in Cache!Live => LiveEntries[k].val.typ = "ssmap"
    BY <1>1, <1>7
  <2> HIDE DEF m
  <2>3. merged \in FieldMap
    BY <1>2 DEF FieldMap
  <2>4. MapValue(merged) \in Value /\ NoExpiry \in Int \cup {NoExpiry}
    BY <2>3, ValueTypes
  <2> HIDE DEF g, keep, merged, count
  <2>5. g = Get(db, k, now)
    BY DEF g
  <2>6. Cache!Write(k, Cache!Entry(MapValue(merged), a), Int64(count))
    BY <1>7, <2>1, <2>4, <2>5, WriteStep
  <2>7. Cache!Write(k, Cache!Entry(Cache!MapValue(merged), NoExpiry), Cache!Int64(count))
    BY <1>5, <2>1, <2>6
  <2>8. count = Cache!Cardinality({f \in Field : kvs[f] # Nil /\ m[f] = Nil})
    BY SameCount DEF count
  <2> QED BY <1>4, <2>2, <2>7, <2>8 DEF Cache!HSET, merged
<1> HIDE DEF g, new, typ, m, merged, count, keep
<1> QED BY <1>3, <1>6, <1>7

-----------------------------------------------------------------------------
(* Commands on the whole keyspace, the clock and the sweep *)

\* The entries of the cache are the stored keys that have not expired.
LEMMA LiveLaw ==
  ASSUME IndInv
  PROVE  /\ Cache!Live = {k \in Stored(db) : ~HasExpired(db, db.store[k], now)}
         /\ \A k \in Key : Gone(db, now, k) <=> k \notin Cache!Live
         /\ \A k \in Cache!Live : LiveEntries[k] = Seen(db, k)
         /\ \A k \in Stored(db) : db.expires[db.store[k]] \in Int \cup {NoExpiry}
<1>1. Consistent(db)
  BY DEF IndInv
<1>2. \A k \in Key : LiveEntries[k] = IF Gone(db, now, k) THEN Nil ELSE Seen(db, k)
  BY LiveView DEF View
<1>3. ASSUME NEW k \in Stored(db)
      PROVE  db.expires[db.store[k]] \in Int \cup {NoExpiry} /\ Seen(db, k) # Nil
  <2>1. k \in Key /\ db.store[k] \in Obj /\ db.store[k] # Nil
    BY <1>1, <1>3, StoreShape DEF Stored
  <2>2. db.expires[db.store[k]] \in Int \cup {NoExpiry}
    BY <1>1, <2>1, StoreShape
  <2>3. ValueOf(db, k) \in Value
    BY <1>1, <2>1, ValueOfType
  <2> QED BY <2>2, <2>3, NilAssumption DEF Seen
<1> QED BY <1>2, <1>3 DEF Cache!Live, Gone, Stored

\* A command that takes the keys D away, and nothing else.
LEMMA RemoveStep ==
  ASSUME NEW s, Consistent(s), NEW r, Answer(s, r), NEW D,
         \A k \in Key : View(s, now)[k] = IF k \in D THEN Nil ELSE LiveEntries[k]
  PROVE  Cache!Remove(D, r)
<1>1. LiveEntries' = View(s, now) /\ reply' = r /\ now' = now
  BY AnswerView
<1>2. View(s, now) = [k \in Key |-> IF k \in D THEN Nil ELSE LiveEntries[k]]
  BY DEF View
<1> QED BY <1>1, <1>2 DEF Cache!Remove, Cache!Done

LEMMA GetdelStep ==
  ASSUME IndInv, NEW k \in Key, GETDEL(k)
  PROVE  Cache!GETDEL(k)
<1> DEFINE g == GetNoTouch(db, k, now)
<1>1. /\ Consistent(g) /\ View(g, now) = LiveEntries
      /\ k \in Cache!Live <=> g.store[k] # Nil
  BY GetLaw
<1>2. Cache!Wire(k) = IF g.store[k] = Nil THEN NilVal ELSE WireValue(ValueOf(g, k))
  BY WireLaw
<1>3. \/ g.store[k] = Nil /\ Answer(g, Cache!Wire(k))
      \/ g.store[k] # Nil /\ Answer(DelKeys(g, {k}), Cache!Wire(k))
  BY <1>2 DEF GETDEL
<1> HIDE DEF g
<1>4. CASE g.store[k] = Nil /\ Answer(g, Cache!Wire(k))
  <2>1. LiveEntries[k] = Nil
    BY <1>1, <1>4 DEF Cache!Live
  <2>2. \A j \in Key : View(g, now)[j] = IF j \in {k} THEN Nil ELSE LiveEntries[j]
    BY <1>1, <2>1
  <2>3. Cache!Remove({k}, Cache!Wire(k))
    BY <1>1, <1>4, <2>2, RemoveStep
  <2> QED BY <2>3 DEF Cache!GETDEL
<1>5. CASE g.store[k] # Nil /\ Answer(DelKeys(g, {k}), Cache!Wire(k))
  <2> DEFINE d == DelKeys(g, {k})
  <2>1. View(d, now) = [j \in Key |-> IF j \in {k} THEN Nil ELSE View(g, now)[j]]
    BY <1>1, DelView
  <2>2. Consistent(d)
    BY <1>1, DelKeysConsistent
  <2> HIDE DEF d
  <2>3. \A j \in Key : View(d, now)[j] = IF j \in {k} THEN Nil ELSE LiveEntries[j]
    BY <1>1, <2>1
  <2>4. Answer(d, Cache!Wire(k))
    BY <1>5 DEF d
  <2>5. Cache!Remove({k}, Cache!Wire(k))
    BY <2>2, <2>3, <2>4, RemoveStep
  <2> QED BY <2>5 DEF Cache!GETDEL
<1> QED BY <1>3, <1>4, <1>5

LEMMA DelStep ==
  ASSUME IndInv, NEW D \in SUBSET Key, DEL(D)
  PROVE  Cache!DEL(D)
<1> DEFINE d == DelKeys(db, D)
           S == D \cap Stored(db)
           L == D \cap Cache!Live
           n == Cardinality(S)
<1>1. Consistent(d) /\ View(d, now) = [k \in Key |-> IF k \in D THEN Nil ELSE View(db, now)[k]]
  BY DelKeysConsistent, DelView DEF IndInv
<1>2. n \in Cardinality(L)..Cardinality(D)
  <2>1. L \subseteq S /\ S \subseteq D /\ IsFiniteSet(D)
    BY LiveLaw, KeyAssumption, FS_Subset
  <2>2. IsFiniteSet(S) /\ IsFiniteSet(L)
    BY <2>1, FS_Subset
  <2>3. Cardinality(L) <= n /\ n <= Cardinality(D)
    BY <2>1, <2>2, FS_Subset
  <2>4. Cardinality(L) \in Nat /\ n \in Nat /\ Cardinality(D) \in Nat
    BY <2>1, <2>2, FS_CardinalityType
  <2> QED BY <2>3, <2>4
<1>3. Answer(d, Int64(n))
  BY DEF DEL
<1> HIDE DEF d, n
<1>4. \A k \in Key : View(d, now)[k] = IF k \in D THEN Nil ELSE LiveEntries[k]
  BY <1>1, LiveView
<1>5. Cache!Remove(D, Int64(n))
  BY <1>1, <1>3, <1>4, RemoveStep
<1>6. Cache!Int64(n) = Int64(n)
  BY SameReplies
<1>7. n \in Cache!Cardinality(D \cap Cache!Live)..Cache!Cardinality(D)
  BY <1>2, SameCount
<1> QED BY <1>5, <1>6, <1>7 DEF Cache!DEL

LEMMA ExistsStep ==
  ASSUME IndInv, NEW D \in SUBSET Key, EXISTS(D)
  PROVE  Cache!EXISTS(D)
<1> DEFINE dead == {k \in D \cap Stored(db) : HasExpired(db, db.store[k], now)}
           d == DelKeys(db, dead)
<1>1. (D \cap Stored(db)) \ dead = D \cap Cache!Live
  BY LiveLaw
<1>2. \A k \in dead \cap Key : Gone(db, now, k)
  BY DEF Gone
<1>3. Answer(d, Int64(Cardinality((D \cap Stored(db)) \ dead)))
  BY DEF EXISTS
<1> HIDE DEF dead
<1>4. Consistent(d) /\ View(d, now) = LiveEntries
  BY <1>2, DelKeysConsistent, ExpiredView, LiveView DEF IndInv
<1>5. Cache!Same(Int64(Cardinality(D \cap Cache!Live)))
  BY <1>1, <1>3, <1>4, SameStep
<1> QED BY <1>5, SameReplies, SameCount DEF Cache!EXISTS

LEMMA KeysStep ==
  ASSUME IndInv, NEW M \in SUBSET Key, KEYS(M)
  PROVE  Cache!KEYS(M)
<1> DEFINE S == Stored(db) \cap M
<1>1. Answer(db, KeysRes(S)) /\ Consistent(db) /\ View(db, now) = LiveEntries
  BY LiveView DEF KEYS, IndInv
<1>2. S \in SUBSET M /\ M \cap Cache!Live \subseteq S
  BY LiveLaw
<1> HIDE DEF S
<1>3. Cache!Same(KeysRes(S))
  BY <1>1, SameStep
<1>4. Cache!KeysRes(S) = KeysRes(S)
  BY SameReplies
<1> QED BY <1>2, <1>3, <1>4 DEF Cache!KEYS

LEMMA FlushStep ==
  ASSUME FLUSHDB
  PROVE  Cache!FLUSHDB
<1>1. \A k \in Key : View(EmptyStore, now)[k] = IF k \in Key THEN Nil ELSE LiveEntries[k]
  BY DEF View, Gone, EmptyStore
<1>2. Cache!Remove(Key, OK)
  BY <1>1, EmptyStoreConsistent, RemoveStep DEF FLUSHDB
<1> QED BY <1>2, SameConstants DEF Cache!FLUSHDB

LEMMA TickStep ==
  ASSUME IndInv, Tick
  PROVE  Cache!Tick
<1>1. now' = now + 1 /\ db' = db /\ reply' = reply /\ now \in Nat
  BY DEF Tick, IndInv
<1>2. (LiveEntries = View(db, now))'
  BY LiveView, PTL
<1>3. LiveEntries' = View(db, now + 1)
  BY <1>1, <1>2
<1>4. ASSUME NEW k \in Key
      PROVE  View(db, now + 1)[k] =
               IF k \in Cache!Live /\ LiveEntries[k].at # NoExpiry /\ LiveEntries[k].at <= now + 1
               THEN Nil ELSE LiveEntries[k]
  <2> DEFINE e == db.expires[db.store[k]]
  <2>1. LiveEntries[k] = IF Gone(db, now, k) THEN Nil ELSE Seen(db, k)
    BY LiveView DEF View
  <2>2. View(db, now + 1)[k] = IF Gone(db, now + 1, k) THEN Nil ELSE Seen(db, k)
    BY DEF View
  <2>3. CASE k \in Cache!Live
    <3>1. LiveEntries[k] = Seen(db, k) /\ LiveEntries[k].at = e /\ ~Gone(db, now, k)
      BY <2>3, LiveLaw, SeenFields
    <3> QED BY <2>2, <2>3, <3>1 DEF Gone, HasExpired
  <2>4. CASE k \notin Cache!Live
    <3>1. Gone(db, now, k)
      BY <2>4, LiveLaw
    <3>2. CASE db.store[k] = Nil
      BY <2>1, <2>2, <2>4, <3>1, <3>2 DEF Gone
    <3>3. CASE db.store[k] # Nil
      <4>1. e \in Int \cup {NoExpiry} /\ e # NoExpiry /\ e <= now
        BY <3>1, <3>3, LiveLaw DEF Stored, Gone, HasExpired
      <4> HIDE DEF e
      <4>2. e <= now + 1
        BY <1>1, <4>1
      <4>3. Gone(db, now + 1, k)
        BY <4>1, <4>2 DEF Gone, HasExpired, e
      <4> QED BY <2>1, <2>2, <2>4, <3>1, <4>3
    <3> QED BY <3>2, <3>3
  <2> QED BY <2>3, <2>4
<1>5. View(db, now + 1) =
        [k \in Key |->
           IF k \in Cache!Live /\ LiveEntries[k].at # NoExpiry /\ LiveEntries[k].at <= now + 1
           THEN Nil ELSE LiveEntries[k]]
  BY <1>4 DEF View
<1> QED BY <1>1, <1>3, <1>5 DEF Cache!Tick

\* The sweep is not seen.
LEMMA SweepStep ==
  ASSUME IndInv, DeleteExpiredKeys
  PROVE  UNCHANGED Cache!vars
<1> DEFINE dead == {k \in Stored(db) : HasExpired(db, db.store[k], now)}
           d == DelKeys(db, dead)
<1>1. db' = Collect(d) /\ now' = now /\ reply' = reply
  BY DEF DeleteExpiredKeys
<1>2. \A k \in dead \cap Key : Gone(db, now, k)
  BY DEF Gone
<1> HIDE DEF dead
<1>3. Consistent(d) /\ View(d, now) = LiveEntries
  BY <1>2, DelKeysConsistent, ExpiredView, LiveView DEF IndInv
<1>4. (LiveEntries = View(db, now))'
  BY LiveView, PTL
<1>5. LiveEntries' = View(Collect(d), now)
  BY <1>1, <1>4
<1>6. LiveEntries' = LiveEntries
  BY <1>3, <1>5, CollectView
<1> QED BY <1>1, <1>6 DEF Cache!vars

LEMMA InitStep ==
  ASSUME Init
  PROVE  Cache!Init
<1>1. LiveEntries = View(EmptyStore, now)
  BY LiveView DEF Init
<1>2. View(EmptyStore, now) = [k \in Key |-> Nil]
  BY DEF View, Gone, EmptyStore
<1> QED BY <1>1, <1>2, SameConstants DEF Init, Cache!Init

-----------------------------------------------------------------------------
(* Every step *)

LEMMA CommandStep ==
  ASSUME IndInv, Command
  PROVE  Cache!Next
<1>1. CASE \E k \in Key, v \in SetArg, P \in SetParams : \E n \in ArgsFor(P) : SET(k, v, P, n)
  <2>1. PICK k \in Key, v \in SetArg, P \in SetParams : \E n \in ArgsFor(P) : SET(k, v, P, n)
    BY <1>1
  <2>2. PICK n \in ArgsFor(P) : SET(k, v, P, n)
    BY <2>1
  <2>3. Cache!SET(k, v, P, n) /\ n \in Cache!ArgsFor(P)
    BY <2>2, ArgsForType, SetStep, SameArguments
  <2> QED BY <2>3 DEF Cache!Next
<1>2. CASE \E k \in Key, P \in GetexParams : \E n \in ArgsFor(P) : GETEX(k, P, n)
  <2>1. PICK k \in Key, P \in GetexParams : \E n \in ArgsFor(P) : GETEX(k, P, n)
    BY <1>2
  <2>2. PICK n \in ArgsFor(P) : GETEX(k, P, n)
    BY <2>1
  <2>3. P \subseteq GetexParam
    BY ArgAssumption
  <2>4. Cache!GETEX(k, P, n) /\ n \in Cache!ArgsFor(P)
    BY <2>2, <2>3, ArgsForType, GetexStep, SameArguments
  <2> QED BY <2>4 DEF Cache!Next
<1>3. CASE \E k \in Key : GET(k) \/ GETDEL(k) \/ TTL(k) \/ EXPIRETIME(k) \/ TYPE(k) \/ HGETALL(k)
  <2>1. \E k \in Key : Cache!Read(k) \/ Cache!GETDEL(k)
    BY <1>3, ReadStep, GetdelStep
  <2> QED BY <2>1 DEF Cache!Next
<1>4. CASE \E k \in Key, v \in SetArg : GETSET(k, v)
  <2>1. \E k \in Key : \E v \in SetArg : Cache!GETSET(k, v)
    BY <1>4, GetsetStep
  <2> QED BY <2>1 DEF Cache!Next
<1>5. CASE \/ \E k \in Key, d \in Delta : INCRBY(k, d) \/ DECRBY(k, d)
           \/ \E k \in Key, d \in Delta \cap {1} : INCR(k) \/ DECR(k)
  <2> DEFINE Steps == {1, -1} \cup Delta \cup {Wrap(-d) : d \in Delta}
  <2>1. PICK k \in Key : \E d \in Steps : DoIncr(k, d)
    BY <1>5 DEF INCR, DECR, INCRBY, DECRBY
  <2>2. Steps \subseteq IntMin..IntMax
    <3>1. 1 \in IntMin..IntMax /\ -1 \in IntMin..IntMax
      BY RangeAssumption DEF IntMin
    <3>2. \A d \in Delta : d \in IntMin..IntMax /\ -d \in Int
      BY ArgAssumption, RangeAssumption DEF IntMin
    <3>3. \A d \in Delta : Wrap(-d) \in IntMin..IntMax
      BY <3>2, WrapType
    <3> QED BY <3>1, <3>2, <3>3
  <2>3. Steps = {1, -1} \cup Delta \cup {Cache!Wrap(-d) : d \in Delta}
    BY SameArguments
  <2> HIDE DEF Steps
  <2>4. \E d \in Steps : Cache!DoIncr(k, d)
    BY <2>1, <2>2, IncrStep
  <2> QED BY <2>3, <2>4 DEF Cache!Next
<1>6. CASE \E k \in Key, n \in ExpiryArg, opts \in ExpireOpts :
             EXPIRE(k, n, opts) \/ EXPIREAT(k, n, opts)
  <2>1. PICK k \in Key, n \in ExpiryArg, opts \in ExpireOpts :
          EXPIRE(k, n, opts) \/ EXPIREAT(k, n, opts)
    BY <1>6
  <2>2. Cache!EXPIRE(k, n, opts) \/ Cache!EXPIREAT(k, n, opts)
    BY <2>1, ArgAssumption, ExpireStep
  <2> QED BY <2>2 DEF Cache!Next
<1>7. CASE \E k \in Key, kvs \in FieldMap \ {NoFields}, odd \in BOOLEAN : HSET(k, kvs, odd)
  <2>1. PICK k \in Key, kvs \in FieldMap \ {NoFields}, odd \in BOOLEAN : HSET(k, kvs, odd)
    BY <1>7
  <2>2. Cache!HSET(k, kvs) /\ kvs \in Cache!FieldMap \ {Cache!NoFields}
    BY <2>1, HsetStep, SameConstants
  <2> QED BY <2>2 DEF Cache!Next
<1>8. CASE \E k \in Key, f \in Field : HGET(k, f)
  <2>1. \E k \in Key : Cache!Read(k)
    BY <1>8, ReadStep
  <2> QED BY <2>1 DEF Cache!Next
<1>9. CASE \E D \in SUBSET Key \ {{}} : DEL(D) \/ EXISTS(D)
  <2>1. \E D \in SUBSET Key \ {{}} : Cache!DEL(D) \/ Cache!EXISTS(D)
    BY <1>9, DelStep, ExistsStep
  <2> QED BY <2>1 DEF Cache!Next
<1>10. CASE \E M \in SUBSET Key : KEYS(M)
  <2>1. \E M \in SUBSET Key : Cache!KEYS(M)
    BY <1>10, KeysStep
  <2> QED BY <2>1 DEF Cache!Next
<1>11. CASE FLUSHDB
  BY <1>11, FlushStep DEF Cache!Next
<1> QED
  BY <1>1, <1>2, <1>3, <1>4, <1>5, <1>6, <1>7, <1>8, <1>9, <1>10, <1>11 DEF Command

LEMMA NextStep == IndInv /\ [Next]_vars => [Cache!Next]_(Cache!vars)
<1> SUFFICES ASSUME IndInv, [Next]_vars PROVE Cache!Next \/ UNCHANGED Cache!vars
  OBVIOUS
<1>1. CASE Command
  BY <1>1, CommandStep
<1>2. CASE Tick
  BY <1>2, TickStep DEF Cache!Next
<1>3. CASE DeleteExpiredKeys
  BY <1>3, SweepStep
<1>4. CASE UNCHANGED vars
  <2>1. db' = db /\ now' = now /\ reply' = reply
    BY <1>4 DEF vars
  <2>2. (LiveEntries = View(db, now))' /\ LiveEntries = View(db, now)
    BY LiveView, PTL
  <2> QED BY <2>1, <2>2 DEF Cache!vars
<1> QED BY <1>1, <1>2, <1>3, <1>4 DEF Next

\* Clients of a shard cannot tell it from a map with deadlines that loses keys
\* only to a command that adds one: lazy deletion, the sweep, shared objects
\* and the touch of getHelper never show.
THEOREM ShardIsTTLCache == Spec => ImplementsTTLCache
<1>1. Init => Cache!Init
  BY InitStep
<1>2. IndInv /\ [Next]_vars => [Cache!Next]_(Cache!vars)
  BY NextStep
<1> QED BY <1>1, <1>2, StoreConsistent, PTL DEF Spec, ImplementsTTLCache, Cache!Spec

-----------------------------------------------------------------------------
(* Eviction *)

\* What a command leaves stored is what its store holds.
LEMMA AnswerStored ==
  ASSUME NEW s, Consistent(s), NEW r, Answer(s, r)
  PROVE  Stored(db') = Stored(s)
BY CollectView DEF Answer

LEMMA NothingAdded ==
  ASSUME Stored(db') \subseteq Stored(db)
  PROVE  OldestEvicted
BY DEF OldestEvicted

LEMMA GetStored ==
  ASSUME IndInv, NEW k \in Key, NEW g, g = Get(db, k, now) \/ g = GetNoTouch(db, k, now)
  PROVE  /\ Consistent(g) /\ Stored(g) \subseteq Stored(db)
         /\ k \notin Stored(db) => g = db
<1> DEFINE h == GetNoTouch(db, k, now)
<1>1. Consistent(g) /\ Consistent(h)
  BY GetConsistent DEF IndInv
<1>2. Stored(h) \subseteq Stored(db)
  BY DelKeysConsistent DEF GetNoTouch, IndInv
<1>3. k \notin Stored(db) => db.store[k] = Nil /\ h = db
  BY DEF GetNoTouch, Stored
<1>4. g = h \/ (h.store[k] # Nil /\ g = Touch(h, h.store[k], now))
  BY DEF Get
<1> HIDE DEF h
<1>5. Touch(h, h.store[k], now).store = h.store
  BY <1>1 DEF Touch, Consistent, StoreType
<1>6. Stored(g) = Stored(h)
  BY <1>4, <1>5 DEF Stored
<1>7. k \notin Stored(db) => g = db
  BY <1>3, <1>4
<1> QED BY <1>1, <1>2, <1>6, <1>7

\* A command that read k and adds nothing.
LEMMA KeepsOrDrops ==
  ASSUME IndInv, NEW s, Consistent(s), NEW r, Answer(s, r), Stored(s) \subseteq Stored(db)
  PROVE  OldestEvicted
BY AnswerStored, NothingAdded

\* The victims of an insertion.
LEMMA VictimsOldest ==
  ASSUME NEW s, Consistent(s), NEW o \in Fresh(s), NEW v, NEW at, NEW t,
         NEW V \in VictimSets(NewObj(s, o, v, at, t), ShouldEvict(s)), V # {}
  PROVE  /\ Cardinality(Stored(s)) >= MaxKeys
         /\ \A j \in V, u \in Stored(s) \ V :
              s.heap[s.store[j]].last <= s.heap[s.store[u]].last
<1> DEFINE n == NewObj(s, o, v, at, t)
           m == ShouldEvict(s)
<1>1. /\ o \in Obj /\ \A k \in Stored(s) : s.store[k] \in Obj /\ s.store[k] # o
      /\ s.store \in [Key -> Obj \cup {Nil}] /\ s.heap \in [Obj -> Cell \cup {Nil}]
  BY StoreShape DEF Fresh, Referenced
<1>2. n.store = s.store /\ \A x \in Obj : x # o => n.heap[x] = s.heap[x]
  BY <1>1 DEF NewObj, Consistent, StoreType
<1>3. Stored(n) = Stored(s)
  BY <1>2 DEF Stored
<1> HIDE DEF n, m
<1>4. /\ V \subseteq Stored(s)
      /\ Cardinality(V) = m \/ Cardinality(V) < m
      /\ \A j \in V, u \in Stored(s) \ V : n.heap[n.store[j]].last <= n.heap[n.store[u]].last
  BY <1>3 DEF VictimSets, n, m
<1>5. \A k \in Stored(s) : n.heap[n.store[k]] = s.heap[s.store[k]]
  BY <1>1, <1>2
<1>6. \A j \in V, u \in Stored(s) \ V : s.heap[s.store[j]].last <= s.heap[s.store[u]].last
  <2> SUFFICES ASSUME NEW j \in V, NEW u \in Stored(s) \ V
               PROVE  s.heap[s.store[j]].last <= s.heap[s.store[u]].last
    OBVIOUS
  <2>1. n.heap[n.store[j]] = s.heap[s.store[j]] /\ n.heap[n.store[u]] = s.heap[s.store[u]]
    BY <1>4, <1>5
  <2> QED BY <1>4, <2>1
<1>7. Cardinality(V) \in Nat /\ Cardinality(V) # 0
  <2>1. IsFiniteSet(Stored(s))
    BY StoredFinite
  <2>2. IsFiniteSet(V)
    BY <1>4, <2>1, FS_Subset
  <2> QED BY <2>2, FS_CardinalityType, FS_EmptySet
<1>8. m # 0
  <2>1. ~(Cardinality(V) = 0) /\ ~(Cardinality(V) < 0)
    BY <1>7
  <2> QED BY <1>4, <2>1
<1>9. ~(s.numKeys < MaxKeys)
  BY <1>8 DEF ShouldEvict, m
<1>10. Cardinality(Stored(s)) >= MaxKeys
  <2>1. s.numKeys = Cardinality(Stored(s)) /\ s.numKeys \in Int
    BY DEF Consistent, CountExact, StoreType
  <2> QED BY <1>9, <2>1, MaxKeysAssumption
<1> QED BY <1>6, <1>10

LEMMA WriteEvicts ==
  ASSUME IndInv, NEW k \in Key, NEW g, g = Get(db, k, now), NEW v \in Value,
         NEW at \in Int \cup {NoExpiry}, NEW keep \in BOOLEAN, NEW r,
         \E o \in Fresh(g) : \E t \in Put(NewObj(g, o, v, at, now), k, o, keep, now) : Answer(t, r)
  PROVE  OldestEvicted
<1>1. /\ Consistent(g) /\ Stored(g) \subseteq Stored(db)
      /\ k \notin Stored(db) => g = db
  BY GetStored
<1>2. PICK o \in Fresh(g) :
        \E t \in Put(NewObj(g, o, v, at, now), k, o, keep, now) : Answer(t, r)
  OBVIOUS
<1>3. PICK t \in Put(NewObj(g, o, v, at, now), k, o, keep, now) : Answer(t, r)
  BY <1>2
<1>4. now \in Nat
  BY DEF IndInv
<1>5. PutResult(g, k, o, v, at, keep, now, t) /\ Stored(db') = Stored(t)
  BY <1>1, <1>3, <1>4, PutShape, PutConsistent, AnswerStored
<1>6. g.store \in [Key -> Obj \cup {Nil}] /\ o \in Obj /\ o # Nil
  BY <1>1, StoreShape, ObjAssumption DEF Fresh
<1>7. Stored(t) \subseteq Stored(g) \cup {k}
  <2>1. CASE t.store = [g.store EXCEPT ![k] = o]
    BY <1>6, <2>1 DEF Stored
  <2>2. CASE \E V : t.store = [DelKeys(g, V).store EXCEPT ![k] = o]
    <3>1. PICK V : t.store = [DelKeys(g, V).store EXCEPT ![k] = o]
      BY <2>2
    <3> QED BY <1>6, <3>1 DEF Stored, DelKeys
  <2> QED BY <1>5, <2>1, <2>2 DEF PutResult, Replaces, Adds
<1>8. CASE k \in Stored(db)
  BY <1>1, <1>5, <1>7, <1>8, NothingAdded
<1>9. CASE k \notin Stored(db)
  <2>1. g = db /\ g.store[k] = Nil
    BY <1>1, <1>9 DEF Stored
  <2>2. PICK V \in VictimSets(NewObj(g, o, v, at, now), ShouldEvict(g)) :
          Adds(DelKeys(g, V), k, o, at, [val |-> v, last |-> now], t)
    BY <1>5, <2>1 DEF PutResult
  <2>3. Stored(t) = (Stored(db) \ V) \cup {k}
    BY <1>6, <2>1, <2>2 DEF Adds, Stored, DelKeys
  <2>4. /\ Stored(db) \ Stored(db') = V \cap Stored(db)
        /\ Stored(db) \cap Stored(db') = Stored(db) \ V
    BY <1>5, <1>9, <2>3
  <2>5. V # {} => /\ Cardinality(Stored(db)) >= MaxKeys
                  /\ \A j \in V, u \in Stored(db) \ V :
                       db.heap[db.store[j]].last <= db.heap[db.store[u]].last
    BY <1>1, <2>1, <2>2, VictimsOldest
  <2> QED BY <2>4, <2>5 DEF OldestEvicted
<1> QED BY <1>8, <1>9

LEMMA ReadEvicts ==
  ASSUME IndInv, NEW k \in Key, NEW g, g = Get(db, k, now),
         NEW s, Consistent(s), s.store = g.store, NEW r, Answer(s, r)
  PROVE  OldestEvicted
<1>1. Stored(s) \subseteq Stored(db)
  BY GetStored DEF Stored
<1> QED BY <1>1, KeepsOrDrops

\* A command that reads k and then, at most, changes its entry in place.
LEMMA InPlaceEvicts ==
  ASSUME IndInv, NEW k \in Key, NEW g, g = Get(db, k, now),
         NEW u, NEW v, NEW a, Consistent(u), Changed(g, u, k, v, a), NEW r, Answer(u, r)
  PROVE  OldestEvicted
BY ReadEvicts DEF Changed

LEMMA RejectEvicts ==
  ASSUME IndInv, Reject
  PROVE  OldestEvicted
BY KeepsOrDrops DEF Reject, IndInv

LEMMA SetEvicts ==
  ASSUME IndInv, NEW k \in Key, NEW v \in SetArg, NEW P, NEW n \in Int, SET(k, v, P, n)
  PROVE  OldestEvicted
<1> DEFINE g == Get(db, k, now)
           at == Deadline(P, n, now)
           keep == "KEEPTTL" \in P
<1>1. Consistent(g) /\ now \in Nat
  BY GetInv
<1>2. at \in Int \cup {NoExpiry} /\ keep \in BOOLEAN /\ v \in Value
  BY <1>1, DeadlineType, ValueTypes
<1>3. \/ Reject
      \/ Answer(g, OK)
      \/ \E o \in Fresh(g) : \E t \in Put(NewObj(g, o, v, at, now), k, o, keep, now) : Answer(t, OK)
  BY DEF SET
<1> HIDE DEF g, at, keep
<1>4. g = Get(db, k, now)
  BY DEF g
<1> QED BY <1>1, <1>2, <1>3, <1>4, RejectEvicts, ReadEvicts, WriteEvicts

LEMMA GetexEvicts ==
  ASSUME IndInv, NEW k \in Key, NEW P, NEW n \in Int, GETEX(k, P, n)
  PROVE  OldestEvicted
<1> DEFINE g == Get(db, k, now)
           o == g.store[k]
           r == WireValue(ValueOf(g, k))
           at == Deadline(P, n, now)
<1>1. Consistent(g) /\ now \in Nat /\ (o # Nil => ValueOf(g, k) \in Value)
  BY GetInv
<1>2. \/ Reject
      \/ Answer(g, NilVal) \/ Answer(g, r)
      \/ o # Nil /\ Answer(DelExpiry(g, o), r)
      \/ o # Nil /\ P \cap ExpiryParam # {} /\ Answer(SetUnixTimeExpiry(g, o, at), r)
  BY DEF GETEX
<1>3. P \cap ExpiryParam # {} => at \in Int
  BY <1>1, DeadlineType
<1> HIDE DEF g, r, at
<1>4. g = Get(db, k, now)
  BY DEF g
<1>5. CASE o # Nil /\ Answer(DelExpiry(g, o), r)
  <2>1. 0 \in Int
    OBVIOUS
  <2>2. Consistent(DelExpiry(g, o)) /\ Changed(g, DelExpiry(g, o), k, ValueOf(g, k), NoExpiry)
    BY <1>1, <1>5, <2>1, ChangeShapes
  <2> QED BY <1>4, <1>5, <2>2, InPlaceEvicts
<1>6. CASE o # Nil /\ P \cap ExpiryParam # {} /\ Answer(SetUnixTimeExpiry(g, o, at), r)
  <2>1. /\ Consistent(SetUnixTimeExpiry(g, o, at))
        /\ Changed(g, SetUnixTimeExpiry(g, o, at), k, ValueOf(g, k), at)
    BY <1>1, <1>3, <1>6, ChangeShapes
  <2> QED BY <1>4, <1>6, <2>1, InPlaceEvicts
<1> QED BY <1>1, <1>2, <1>4, <1>5, <1>6, RejectEvicts, ReadEvicts

LEMMA GetsetEvicts ==
  ASSUME IndInv, NEW k \in Key, NEW v \in SetArg, GETSET(k, v)
  PROVE  OldestEvicted
<1> DEFINE g == Get(db, k, now)
           r == IF g.store[k] = Nil THEN NilVal ELSE WireValue(ValueOf(g, k))
<1>1. v \in Value /\ NoExpiry \in Int \cup {NoExpiry} /\ FALSE \in BOOLEAN
  BY ValueTypes
<1>2. \E o \in Fresh(g) :
        \E t \in Put(NewObj(g, o, v, NoExpiry, now), k, o, FALSE, now) : Answer(t, r)
  BY DEF GETSET
<1> HIDE DEF g, r
<1>3. g = Get(db, k, now)
  BY DEF g
<1> QED BY <1>1, <1>2, <1>3, WriteEvicts

LEMMA IncrEvicts ==
  ASSUME IndInv, NEW k \in Key, NEW d \in IntMin..IntMax, DoIncr(k, d)
  PROVE  OldestEvicted
<1> DEFINE g == Get(db, k, now)
           p == g.store[k]
           n == Wrap(ValueOf(g, k).num + d)
           u == [g EXCEPT !.heap[p] = [g.heap[p] EXCEPT !.val = IntValue(n)]]
<1>1. Consistent(g) /\ (p # Nil => ValueOf(g, k) \in Value)
  BY GetInv
<1>2. /\ IntValue(d) \in Value /\ FALSE \in BOOLEAN
      /\ NoExpiry \in Int \cup {NoExpiry}
  BY ValueTypes
<1>3. \/ \E o \in Fresh(g) :
           \E t \in Put(NewObj(g, o, IntValue(d), NoExpiry, now), k, o, FALSE, now) :
             Answer(t, Int64(d))
      \/ Answer(g, Err)
      \/ p # Nil /\ Answer(u, Int64(n))
  BY DEF DoIncr
<1>4. p # Nil => IntValue(n) \in Value
  <2>1. SUFFICES ASSUME p # Nil PROVE IntValue(n) \in Value
    OBVIOUS
  <2>2. ValueOf(g, k).num \in Int /\ d \in Int
    BY <1>1, <2>1, ValueFields
  <2>3. ValueOf(g, k).num + d \in Int
    BY <2>2
  <2>4. n \in IntMin..IntMax
    BY <2>3, WrapType
  <2> QED BY <2>4, ValueTypes
<1> HIDE DEF n
<1>5. p # Nil => Consistent(u) /\ Changed(g, u, k, IntValue(n), g.expires[p])
  <2>1. 0 \in Int
    OBVIOUS
  <2> HIDE DEF g
  <2> QED BY <1>1, <1>4, <2>1, ChangeShapes
<1> HIDE DEF g, u
<1>6. g = Get(db, k, now)
  BY DEF g
<1> QED BY <1>1, <1>2, <1>3, <1>5, <1>6, ReadEvicts, InPlaceEvicts, WriteEvicts

LEMMA ExpireEvicts ==
  ASSUME IndInv, NEW k \in Key, NEW sec \in ExpiryArg, NEW opts,
         EXPIRE(k, sec, opts) \/ EXPIREAT(k, sec, opts)
  PROVE  OldestEvicted
<1> DEFINE g == Get(db, k, now)
           o == g.store[k]
<1>1. sec \in Int /\ now \in Int /\ MsPerSec \in Int
  BY ArgAssumption, TimeAssumption DEF IndInv
<1>2. IntMin..IntMax \subseteq Int /\ sec * MsPerSec \in Int
  BY <1>1
<1>3. ExpireAt(sec, now) \in Int
  <2>1. now + Wrap(sec * MsPerSec) \in Int
    BY <1>1, <1>2, WrapType
  <2> QED BY <1>2, <2>1, WrapType DEF ExpireAt
<1>4. PICK at \in Int : Reject \/ SetExpiryIf(k, opts, at)
  BY <1>2, <1>3 DEF EXPIRE, EXPIREAT
<1>5. \/ Reject \/ Answer(g, Bool(FALSE)) \/ Answer(g, Err)
      \/ o # Nil /\ Answer(SetUnixTimeExpiry(g, o, at), Bool(TRUE))
  BY <1>4 DEF SetExpiryIf
<1>6. Consistent(g) /\ (o # Nil => ValueOf(g, k) \in Value)
  BY GetInv
<1>7. o # Nil => /\ Consistent(SetUnixTimeExpiry(g, o, at))
                 /\ Changed(g, SetUnixTimeExpiry(g, o, at), k, ValueOf(g, k), at)
  <2> HIDE DEF g
  <2> QED BY <1>4, <1>6, ChangeShapes
<1> HIDE DEF g
<1>8. g = Get(db, k, now)
  BY DEF g
<1> QED BY <1>5, <1>6, <1>7, <1>8, RejectEvicts, ReadEvicts, InPlaceEvicts

LEMMA HsetEvicts ==
  ASSUME IndInv, NEW k \in Key, NEW kvs \in FieldMap, NEW odd \in BOOLEAN, HSET(k, kvs, odd)
  PROVE  OldestEvicted
<1> DEFINE g == Get(db, k, now)
           m == IF g.store[k] = Nil THEN NoFields ELSE ValueOf(g, k).map
           merged == [f \in Field |-> IF kvs[f] = Nil THEN m[f] ELSE kvs[f]]
           count == Int64(Cardinality({f \in Field : kvs[f] # Nil /\ m[f] = Nil}))
<1>1. Consistent(g) /\ (g.store[k] # Nil => ValueOf(g, k) \in Value)
  BY GetInv
<1>2. m \in FieldMap
  BY <1>1, ValueTypes, ValueFields
<1>3. \/ Answer(g, Err)
      \/ \E o \in Fresh(g) :
           \E t \in Put(NewObj(g, o, MapValue(merged), NoExpiry, now), k, o, FALSE, now) :
             Answer(t, count)
  BY DEF HSET
<1> HIDE DEF g, m
<1>4. merged \in FieldMap
  BY <1>2 DEF FieldMap
<1>5. MapValue(merged) \in Value /\ NoExpiry \in Int \cup {NoExpiry} /\ FALSE \in BOOLEAN
  BY <1>4, ValueTypes
<1> HIDE DEF merged, count
<1>6. g = Get(db, k, now)
  BY DEF g
<1> QED BY <1>1, <1>3, <1>5, <1>6, ReadEvicts, WriteEvicts

\* The commands that only read.
LEMMA ReadersEvict ==
  ASSUME IndInv, NEW k \in Key,
         \/ GET(k) \/ TTL(k) \/ EXPIRETIME(k) \/ TYPE(k) \/ HGETALL(k)
         \/ \E f \in Field : HGET(k, f)
  PROVE  OldestEvicted
<1> DEFINE g == Get(db, k, now)
<1>1. \E r : Answer(g, r)
  BY DEF GET, TTL, EXPIRETIME, TYPE, HGETALL, HGET
<1>2. Consistent(g)
  BY GetInv
<1> QED BY <1>1, <1>2, ReadEvicts

\* The commands that delete.
LEMMA DeletersEvict ==
  ASSUME IndInv,
         \/ \E k \in Key : GETDEL(k)
         \/ \E D \in SUBSET Key : DEL(D) \/ EXISTS(D)
         \/ \E M \in SUBSET Key : KEYS(M)
         \/ FLUSHDB
  PROVE  OldestEvicted
<1>1. \A D : Consistent(DelKeys(db, D)) /\ Stored(DelKeys(db, D)) \subseteq Stored(db)
  BY DelKeysConsistent DEF IndInv
<1>2. CASE \E k \in Key : GETDEL(k)
  <2>1. PICK k \in Key : GETDEL(k)
    BY <1>2
  <2> DEFINE g == GetNoTouch(db, k, now)
  <2>2. Consistent(g) /\ Stored(g) \subseteq Stored(db)
    BY GetStored
  <2>3. (\E r : Answer(g, r)) \/ (\E r : Answer(DelKeys(g, {k}), r))
    BY <2>1 DEF GETDEL
  <2> HIDE DEF g
  <2>4. Consistent(DelKeys(g, {k})) /\ Stored(DelKeys(g, {k})) \subseteq Stored(db)
    BY <2>2, DelKeysConsistent
  <2> QED BY <2>2, <2>3, <2>4, KeepsOrDrops
<1>3. CASE \E D \in SUBSET Key : DEL(D) \/ EXISTS(D)
  <2>1. \E D, r : Answer(DelKeys(db, D), r)
    BY <1>3 DEF DEL, EXISTS
  <2> QED BY <1>1, <2>1, KeepsOrDrops
<1>4. CASE \E M \in SUBSET Key : KEYS(M)
  <2>1. \E r : Answer(db, r)
    BY <1>4 DEF KEYS
  <2> QED BY <2>1, KeepsOrDrops DEF IndInv
<1>5. CASE FLUSHDB
  <2>1. Stored(EmptyStore) = {}
    BY DEF Stored, EmptyStore
  <2> QED BY <1>5, <2>1, EmptyStoreConsistent, KeepsOrDrops DEF FLUSHDB
<1> QED BY <1>2, <1>3, <1>4, <1>5

LEMMA CommandEvicts ==
  ASSUME IndInv, Command
  PROVE  OldestEvicted
<1>1. CASE \E k \in Key, v \in SetArg, P \in SetParams : \E n \in ArgsFor(P) : SET(k, v, P, n)
  BY <1>1, SetEvicts, ArgsForType
<1>2. CASE \E k \in Key, P \in GetexParams : \E n \in ArgsFor(P) : GETEX(k, P, n)
  BY <1>2, GetexEvicts, ArgsForType
<1>3. CASE \E k \in Key : GET(k) \/ GETDEL(k) \/ TTL(k) \/ EXPIRETIME(k) \/ TYPE(k) \/ HGETALL(k)
  BY <1>3, ReadersEvict, DeletersEvict
<1>4. CASE \E k \in Key, v \in SetArg : GETSET(k, v)
  BY <1>4, GetsetEvicts
<1>5. CASE \/ \E k \in Key, d \in Delta : INCRBY(k, d) \/ DECRBY(k, d)
           \/ \E k \in Key, d \in Delta \cap {1} : INCR(k) \/ DECR(k)
  <2>1. PICK k \in Key :
          \/ DoIncr(k, 1) \/ DoIncr(k, -1)
          \/ \E d \in Delta : DoIncr(k, d) \/ DoIncr(k, Wrap(-d))
    BY <1>5 DEF INCR, DECR, INCRBY, DECRBY
  <2>2. 1 \in IntMin..IntMax /\ -1 \in IntMin..IntMax
    BY RangeAssumption DEF IntMin
  <2>3. \A d \in Delta : d \in IntMin..IntMax /\ -d \in Int
    BY ArgAssumption, RangeAssumption DEF IntMin
  <2>4. \A d \in Delta : Wrap(-d) \in IntMin..IntMax
    BY <2>3, WrapType
  <2> QED BY <2>1, <2>2, <2>3, <2>4, IncrEvicts
<1>6. CASE \E k \in Key, n \in ExpiryArg, opts \in ExpireOpts :
             EXPIRE(k, n, opts) \/ EXPIREAT(k, n, opts)
  BY <1>6, ExpireEvicts
<1>7. CASE \E k \in Key, kvs \in FieldMap \ {NoFields}, odd \in BOOLEAN : HSET(k, kvs, odd)
  BY <1>7, HsetEvicts
<1>8. CASE \E k \in Key, f \in Field : HGET(k, f)
  BY <1>8, ReadersEvict
<1>9. CASE \/ \E D \in SUBSET Key \ {{}} : DEL(D) \/ EXISTS(D)
           \/ \E M \in SUBSET Key : KEYS(M)
           \/ FLUSHDB
  BY <1>9, DeletersEvict
<1> QED BY <1>1, <1>2, <1>3, <1>4, <1>5, <1>6, <1>7, <1>8, <1>9 DEF Command

LEMMA NextEvicts == IndInv /\ [Next]_vars => [OldestEvicted]_vars
<1> SUFFICES ASSUME IndInv, Next PROVE OldestEvicted
  BY DEF OldestEvicted
<1>1. CASE Command
  BY <1>1, CommandEvicts
<1>2. CASE Tick
  BY <1>2, NothingAdded DEF Tick, Stored
<1>3. CASE DeleteExpiredKeys
  <2> DEFINE dead == {k \in Stored(db) : HasExpired(db, db.store[k], now)}
             d == DelKeys(db, dead)
  <2>1. db' = Collect(d)
    BY <1>3 DEF DeleteExpiredKeys
  <2>2. Consistent(d) /\ Stored(d) \subseteq Stored(db)
    BY DelKeysConsistent DEF IndInv
  <2> HIDE DEF d
  <2>3. Stored(Collect(d)) = Stored(d)
    BY <2>2, CollectView
  <2> QED BY <2>1, <2>2, <2>3, NothingAdded
<1> QED BY <1>1, <1>2, <1>3 DEF Next

\* EvictVictims drops keys only from a full shard, and then the least recently
\* used of all its keys, in whatever order the walk meets them and ties fall.
THEOREM EvictsOldest == Spec => EvictionIsLRU
<1>1. IndInv /\ [Next]_vars => [OldestEvicted]_vars
  BY NextEvicts
<1> QED BY <1>1, StoreConsistent, PTL DEF Spec, EvictionIsLRU

=============================================================================
