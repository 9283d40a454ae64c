------------------------------ MODULE StoreOps ------------------------------
(***************************************************************************)
(* The store of one shard (internal/store): its state as a record, and the *)
(* store's methods as operators on that record.                            *)
(*                                                                         *)
(*   store    RegMap key -> *Obj   a total function, Nil where absent      *)
(*   expires  RegMap *Obj -> ms    a total function, NoExpiry where absent *)
(*   heap     the objects themselves: value and LastAccessedAt; an object  *)
(*            no map refers to is garbage and is Nil                       *)
(*   numKeys  Store.numKeys, the counter that triggers eviction            *)
(*   len      the atomic counter of the store RegMap, what Len() returns   *)
(*                                                                         *)
(* Objects are pointers: `expires` is keyed by the object and not by the   *)
(* key, which is what makes overwriting, KEEPTTL and deletion delicate.    *)
(* The store is used here by one command at a time; every operator takes   *)
(* the instant `now` the command runs at.  The counter of the expires map, *)
(* the statistics of the eviction strategy and the watch channel (nil in   *)
(* the server) have no reader and are left out.                            *)
(***************************************************************************)
EXTENDS CmdArgs

CONSTANTS
  Obj,       \* the addresses an object may be allocated at
  MaxKeys    \* maxKeys of the eviction strategy: keys per shard

ASSUME ObjAssumption == Nil \notin Obj
ASSUME MaxKeysAssumption == MaxKeys \in Nat \ {0}

-----------------------------------------------------------------------------
(* Helpers *)

Stored(s) == {k \in Key : s.store[k] # Nil}

Referenced(s) ==
  {o \in Obj : (\E k \in Key : s.store[k] = o) \/ s.expires[o] # NoExpiry}

\* Garbage collection: what no map refers to any more is free.
Collect(s) ==
  [s EXCEPT !.heap = [o \in Obj |-> IF o \in Referenced(s) THEN s.heap[o] ELSE Nil]]

\* Mutant: objects come from a pool that hands out one still in use.
Fresh_Pooled(s) == Obj

\* The addresses a new object can get.
Fresh(s) == Obj \ Referenced(s)

EmptyStore ==
  [store   |-> [k \in Key |-> Nil],
   expires |-> [o \in Obj |-> NoExpiry],
   heap    |-> [o \in Obj |-> Nil],
   numKeys |-> 0,
   len     |-> 0]

-----------------------------------------------------------------------------
(* expire.go *)

HasExpired(s, o, now) == s.expires[o] # NoExpiry /\ s.expires[o] <= now

SetUnixTimeExpiry(s, o, at) == [s EXCEPT !.expires[o] = at]

DelExpiry(s, o) == [s EXCEPT !.expires[o] = NoExpiry]

\* The options of EvaluateAndSetExpiry.
ExpireOptionsInvalid(opts) ==
  \/ "unsupported" \in opts
  \/ {"GT", "LT"} \subseteq opts
  \/ "NX" \in opts /\ opts # {"NX"}

\* Each option that is satisfied sets the flag; none of them clears it.
ShouldSetExpiry(opts, prev, at) ==
  \/ opts = {}
  \/ "NX" \in opts /\ prev = NoExpiry
  \/ "XX" \in opts /\ prev # NoExpiry
  \/ "GT" \in opts /\ prev # NoExpiry /\ at > prev
  \/ "LT" \in opts /\ prev # NoExpiry /\ at < prev

-----------------------------------------------------------------------------
(* store.go *)

NewObj(s, o, value, at, now) ==
  [s EXCEPT !.heap[o] = [val |-> value, last |-> now], !.expires[o] = at]

\* Mutant: the RegMap counter is decremented for missing keys too.
DelKeys_CountsMissing(s, D) ==
  LET gone == D \cap Stored(s)
  IN  [store   |-> [k \in Key |-> IF k \in gone THEN Nil ELSE s.store[k]],
       expires |-> [o \in Obj |-> IF \E k \in gone : s.store[k] = o
                                  THEN NoExpiry ELSE s.expires[o]],
       heap    |-> s.heap,
       numKeys |-> s.numKeys - Cardinality(gone),
       len     |-> s.len - Cardinality(D)]

\* deleteKey on each key of D that is present; a missing key is skipped by
\* the callers (Del, DelByPtr and getHelper look the key up first).
DelKeys(s, D) ==
  LET gone == D \cap Stored(s)
  IN  [store   |-> [k \in Key |-> IF k \in gone THEN Nil ELSE s.store[k]],
       expires |-> [o \in Obj |-> IF \E k \in gone : s.store[k] = o
                                  THEN NoExpiry ELSE s.expires[o]],
       heap    |-> s.heap,
       numKeys |-> s.numKeys - Cardinality(gone),
       len     |-> s.len - Cardinality(gone)]

Touch(s, o, now) == [s EXCEPT !.heap[o] = [s.heap[o] EXCEPT !.last = now]]

\* Mutant: no lazy deletion, only the ticker removes expired keys.
GetNoTouch_Stale(s, k, now) == s

\* getHelper without the touch: an expired key is deleted on the way.
GetNoTouch(s, k, now) ==
  IF s.store[k] # Nil /\ HasExpired(s, s.store[k], now) THEN DelKeys(s, {k}) ELSE s

\* Get: the object returned is Get(s, k, now).store[k], Nil when absent.
Get(s, k, now) ==
  LET g == GetNoTouch(s, k, now)
  IN  IF g.store[k] = Nil THEN g ELSE Touch(g, g.store[k], now)

-----------------------------------------------------------------------------
(* eviction.go and batchevictionlru.go *)

\* ceil(maxKeys * (1 - EvictionRatio)) with EvictionRatio = 0.9.
EvictTarget == (MaxKeys + 9) \div 10

\* Mutant: eviction starts one key late.
ShouldEvict_Late(s) ==
  IF s.numKeys <= MaxKeys THEN 0
  ELSE IF s.numKeys - EvictTarget < 1 THEN 1 ELSE s.numKeys - EvictTarget

ShouldEvict(s) ==
  IF s.numKeys < MaxKeys THEN 0
  ELSE IF s.numKeys - EvictTarget < 1 THEN 1 ELSE s.numKeys - EvictTarget

\* Mutant: the heap is a min-heap, so the most recently used keys go.
VictimSets_MRU(s, n) ==
  {V \in SUBSET Stored(s) :
     /\ \/ Cardinality(V) = n
        \/ V = Stored(s) /\ Cardinality(V) < n
     /\ \A v \in V, u \in Stored(s) \ V :
          s.heap[s.store[v]].last >= s.heap[s.store[u]].last}

\* The sets of keys the bounded max-heap can be left with.  The map is walked
\* in no particular order and an item replaces the root only when strictly
\* older, so any n least recently used keys can be the victims, ties included.
VictimSets(s, n) ==
  {V \in SUBSET Stored(s) :
     /\ \/ Cardinality(V) = n
        \/ V = Stored(s) /\ Cardinality(V) < n
     /\ \A v \in V, u \in Stored(s) \ V :
          s.heap[s.store[v]].last <= s.heap[s.store[u]].last}

EvictVictims(s) == {DelKeys(s, V) : V \in VictimSets(s, ShouldEvict(s))}

-----------------------------------------------------------------------------
(* putHelper: the possible stores after Put(k, o, WithKeepTTL(keepTTL)) *)

Insert(s, k, o, now) ==
  [store   |-> [s.store EXCEPT ![k] = o],
   expires |-> s.expires,
   heap    |-> [s.heap EXCEPT ![o] = [s.heap[o] EXCEPT !.last = now]],
   numKeys |-> s.numKeys + 1,
   len     |-> s.len + 1]

\* Mutant: the entry of the replaced object stays in the expires map.
Overwrite_LeaksExpiry(s, k, o, keepTTL, now) ==
  LET cur == s.store[k]
  IN  [store   |-> [s.store EXCEPT ![k] = o],
       expires |-> IF keepTTL THEN [s.expires EXCEPT ![o] = s.expires[cur]] ELSE s.expires,
       heap    |-> [s.heap EXCEPT ![o] = [s.heap[o] EXCEPT !.last = now]],
       numKeys |-> s.numKeys,
       len     |-> s.len + 1]

\* Mutant: the TTL is taken over whether KEEPTTL was given or not.
Overwrite_AlwaysKeepsTTL(s, k, o, keepTTL, now) ==
  LET cur  == s.store[k]
      kept == IF s.expires[cur] # NoExpiry
              THEN [s.expires EXCEPT ![o] = s.expires[cur]] ELSE s.expires
  IN  [store   |-> [s.store EXCEPT ![k] = o],
       expires |-> [kept EXCEPT ![cur] = NoExpiry],
       heap    |-> [s.heap EXCEPT ![o] = [s.heap[o] EXCEPT !.last = now]],
       numKeys |-> s.numKeys,
       len     |-> s.len + 1]

\* Mutant: an overwrite counts as a new key.
Overwrite_Counts(s, k, o, keepTTL, now) ==
  [store   |-> [s.store EXCEPT ![k] = o],
   expires |-> [s.expires EXCEPT ![s.store[k]] = NoExpiry],
   heap    |-> [s.heap EXCEPT ![o] = [s.heap[o] EXCEPT !.last = now]],
   numKeys |-> s.numKeys + 1,
   len     |-> s.len + 1]

\* The TTL is taken over before the entry of the replaced object is dropped.
Overwrite(s, k, o, keepTTL, now) ==
  LET cur  == s.store[k]
      kept == IF keepTTL /\ s.expires[cur] # NoExpiry /\ s.expires[cur] > 0
              THEN [s.expires EXCEPT ![o] = s.expires[cur]] ELSE s.expires
  IN  [store   |-> [s.store EXCEPT ![k] = o],
       expires |-> [kept EXCEPT ![cur] = NoExpiry],
       heap    |-> [s.heap EXCEPT ![o] = [s.heap[o] EXCEPT !.last = now]],
       numKeys |-> s.numKeys,
       len     |-> s.len + 1]

Put(s, k, o, keepTTL, now) ==
  IF s.store[k] # Nil
  THEN {Overwrite(s, k, o, keepTTL, now)}
  ELSE {Insert(e, k, o, now) : e \in EvictVictims(s)}

-----------------------------------------------------------------------------
(* What every method preserves *)

Cell == [val : Value, last : Nat]

StoreType ==
  [store   : [Key -> Obj \cup {Nil}],
   expires : [Obj -> Int \cup {NoExpiry}],
   heap    : [Obj -> Cell \cup {Nil}],
   numKeys : Int,
   len     : Int]

\* A stored key has an object with a value.
NoDangling(s) == \A k \in Stored(s) : s.heap[s.store[k]] \in Cell

\* Two keys never share an object.
Injective(s) == \A j, k \in Stored(s) : s.store[j] = s.store[k] => j = k

\* Only an object the store holds has an entry in the expires map.
NoOrphan(s) == \A o \in Obj : s.expires[o] # NoExpiry => \E k \in Key : s.store[k] = o

CountExact(s) == s.numKeys = Cardinality(Stored(s))

CountBounded(s) == Cardinality(Stored(s)) <= MaxKeys

LenCovers(s) == s.len >= Cardinality(Stored(s))

Consistent(s) ==
  /\ s \in StoreType
  /\ NoDangling(s)
  /\ Injective(s)
  /\ NoOrphan(s)
  /\ CountExact(s)
  /\ CountBounded(s)
  /\ LenCovers(s)

=============================================================================
