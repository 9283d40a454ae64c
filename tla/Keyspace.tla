------------------------------ MODULE Keyspace ------------------------------
(***************************************************************************)
(* The keyspace of one shard and the commands on it (internal/cmd over     *)
(* internal/store), one command at a time: each action is a whole eval     *)
(* function, with its lazy deletion of an expired key, its eviction and    *)
(* its reply.  The clock may advance between any two commands, and the     *)
(* shard's ticker may delete expired keys between any two commands.        *)
(***************************************************************************)
EXTENDS StoreOps

CONSTANTS
  MaxTime,   \* bound: the clock stops here
  MaxLen     \* bound: no write once the counter of the RegMap is here

ASSUME BoundAssumption == MaxTime \in Nat /\ MaxLen \in Nat

VARIABLES
  db,     \* the shard's store
  now,    \* time.Now().UnixMilli()
  reply   \* the reply of the last command

vars == <<db, now, reply>>

-----------------------------------------------------------------------------
ValueOf(s, k) == s.heap[s.store[k]].val

\* A command that ran: the store it leaves and its reply.
Answer(s, r) ==
  /\ db' = Collect(s)
  /\ reply' = r
  /\ now' = now

Reject == Answer(db, Err)

-----------------------------------------------------------------------------
(* Expiration options of SET and GETEX *)

\* The duration in milliseconds that option p with number n asks for.
DurationMs(p, n, t) ==
  CASE p = "EX"   -> n * MsPerSec
    [] p = "PX"   -> n
    [] p = "EXAT" -> (n - (t \div MsPerSec)) * MsPerSec
    [] p = "PXAT" -> n - t

DurationValid(p, n, t) ==
  LET d == DurationMs(p, n, t)
  IN  /\ d > 0
      /\ d < IF p = "PX" THEN MaxEXDurationSec ELSE MaxEXDurationSec * MsPerSec

ParamsConflict(P) ==
  \/ \E p, q \in P \cap ExpiryParam : p # q
  \/ {"XX", "NX"} \subseteq P
  \/ P \cap {"KEEPTTL", "PERSIST"} # {} /\ P \cap ExpiryParam # {}

ParamsRejected(P, n, t) ==
  \/ ParamsConflict(P)
  \/ \E p \in P \cap ExpiryParam : ~DurationValid(p, n, t)

\* The deadline the options set; NoExpiry stands for exDurationMs = -1.
Deadline(P, n, t) ==
  IF P \cap ExpiryParam = {} THEN NoExpiry
  ELSE t + DurationMs(CHOOSE p \in P \cap ExpiryParam : TRUE, n, t)

-----------------------------------------------------------------------------
(* Strings and integers *)

SET(k, v, P, n) ==
  LET g       == Get(db, k, now)
      exists  == g.store[k] # Nil
      skipped == ("XX" \in P /\ ~exists) \/ ("NX" \in P /\ exists)
  IN  \/ ParamsRejected(P, n, now) /\ Reject
      \/ ~ParamsRejected(P, n, now) /\ skipped /\ Answer(g, OK)
      \/ /\ ~ParamsRejected(P, n, now) /\ ~skipped /\ db.len < MaxLen
         /\ \E o \in Fresh(g) :
              LET c == NewObj(g, o, v, Deadline(P, n, now), now)
              IN  \E t \in Put(c, k, o, "KEEPTTL" \in P, now) : Answer(t, OK)

GET(k) ==
  LET g == Get(db, k, now)
  IN  Answer(g, IF g.store[k] = Nil THEN NilVal ELSE WireValue(ValueOf(g, k)))

GETEX(k, P, n) ==
  LET g == Get(db, k, now)
      o == g.store[k]
      r == WireValue(ValueOf(g, k))
  IN  \/ ParamsRejected(P, n, now) /\ Reject
      \/ ~ParamsRejected(P, n, now) /\ o = Nil /\ Answer(g, NilVal)
      \/ /\ ~ParamsRejected(P, n, now) /\ o # Nil /\ "PERSIST" \in P
         /\ Answer(DelExpiry(g, o), r)
      \/ /\ ~ParamsRejected(P, n, now) /\ o # Nil /\ P \cap ExpiryParam # {}
         /\ Answer(SetUnixTimeExpiry(g, o, Deadline(P, n, now)), r)
      \/ /\ ~ParamsRejected(P, n, now) /\ o # Nil /\ P = {}
         /\ Answer(g, r)

GETDEL(k) ==
  LET g == GetNoTouch(db, k, now)
  IN  IF g.store[k] = Nil
      THEN Answer(g, NilVal)
      ELSE Answer(DelKeys(g, {k}), WireValue(ValueOf(g, k)))

GETSET(k, v) ==
  LET g == Get(db, k, now)
      r == IF g.store[k] = Nil THEN NilVal ELSE WireValue(ValueOf(g, k))
  IN  /\ db.len < MaxLen
      /\ \E o \in Fresh(g) :
           \E t \in Put(NewObj(g, o, v, NoExpiry, now), k, o, FALSE, now) : Answer(t, r)

\* The object is updated in place.
DoIncr(k, delta) ==
  LET g == Get(db, k, now)
      p == g.store[k]
      n == Wrap(ValueOf(g, k).num + delta)
  IN  \/ /\ p = Nil /\ db.len < MaxLen
         /\ \E o \in Fresh(g) :
              \E t \in Put(NewObj(g, o, IntValue(delta), NoExpiry, now), k, o, FALSE, now) :
                Answer(t, Int64(delta))
      \/ /\ p # Nil /\ ValueOf(g, k).typ # "int"
         /\ Answer(g, Err)
      \/ /\ p # Nil /\ ValueOf(g, k).typ = "int"
         /\ Answer([g EXCEPT !.heap[p] = [g.heap[p] EXCEPT !.val = IntValue(n)]], Int64(n))

INCR(k) == DoIncr(k, 1)

DECR(k) == DoIncr(k, -1)

INCRBY(k, delta) == DoIncr(k, delta)

\* The most negative int64 is its own negation.
DECRBY(k, delta) == DoIncr(k, Wrap(-delta))

-----------------------------------------------------------------------------
(* Expiration *)

\* EXPIRE: seconds become milliseconds in int64, and no bound is checked.
ExpireAt(sec, t) == Wrap(t + Wrap(sec * MsPerSec))

ExpireAtOutOfRange(sec) == sec < 0 \/ sec > MaxAbsTimestamp

\* EvaluateAndSetExpiry, at the absolute time `at`.
SetExpiryIf(k, opts, at) ==
  LET g    == Get(db, k, now)
      o    == g.store[k]
      sets == ShouldSetExpiry(opts, g.expires[o], at)
  IN  \/ o = Nil /\ Answer(g, Bool(FALSE))
      \/ o # Nil /\ ExpireOptionsInvalid(opts) /\ Answer(g, Err)
      \/ o # Nil /\ ~ExpireOptionsInvalid(opts) /\ ~sets /\ Answer(g, Bool(FALSE))
      \/ /\ o # Nil /\ ~ExpireOptionsInvalid(opts) /\ sets
         /\ Answer(SetUnixTimeExpiry(g, o, at), Bool(TRUE))

EXPIRE(k, sec, opts) ==
  \/ sec < 0 /\ Reject
  \/ sec >= 0 /\ SetExpiryIf(k, opts, ExpireAt(sec, now))

EXPIREAT(k, sec, opts) ==
  \/ ExpireAtOutOfRange(sec) /\ Reject
  \/ ~ExpireAtOutOfRange(sec) /\ SetExpiryIf(k, opts, sec * MsPerSec)

\* The key has not expired, so the quotients are of positive numbers.
TTL(k) ==
  LET g == Get(db, k, now)
      e == g.expires[g.store[k]]
  IN  Answer(g, IF g.store[k] = Nil THEN Int64(-2)
                ELSE IF e = NoExpiry THEN Int64(-1)
                ELSE Int64((e - now) \div MsPerSec))

EXPIRETIME(k) ==
  LET g == Get(db, k, now)
      e == g.expires[g.store[k]]
  IN  Answer(g, IF g.store[k] = Nil THEN Int64(-2)
                ELSE IF e = NoExpiry THEN Int64(-1)
                ELSE Int64(e \div MsPerSec))

-----------------------------------------------------------------------------
(* Hashes *)

\* The map is updated in place and stored again under a new object.  kvs[f]
\* is the value given for f, Nil if none; odd: the last field has no value.
HSET(k, kvs, odd) ==
  LET g      == Get(db, k, now)
      new    == g.store[k] = Nil
      fits   == ~odd /\ (~new => ValueOf(g, k).typ = "ssmap")
      m      == IF new THEN NoFields ELSE ValueOf(g, k).map
      merged == [f \in Field |-> IF kvs[f] = Nil THEN m[f] ELSE kvs[f]]
      added  == {f \in Field : kvs[f] # Nil /\ m[f] = Nil}
  IN  \/ ~fits /\ Answer(g, Err)
      \/ /\ fits /\ db.len < MaxLen
         /\ \E o \in Fresh(g) :
              LET c == NewObj(g, o, MapValue(merged), NoExpiry, now)
              IN  \E t \in Put(c, k, o, FALSE, now) : Answer(t, Int64(Cardinality(added)))

HGET(k, f) ==
  LET g == Get(db, k, now)
  IN  Answer(g, IF g.store[k] = Nil THEN NilVal
                ELSE IF ValueOf(g, k).typ # "ssmap" THEN Err
                ELSE IF ValueOf(g, k).map[f] = Nil THEN NilVal
                ELSE FieldRes(ValueOf(g, k).map[f]))

HGETALL(k) ==
  LET g == Get(db, k, now)
  IN  Answer(g, IF g.store[k] = Nil THEN MapRes(NoFields)
                ELSE IF ValueOf(g, k).typ # "ssmap" THEN Err
                ELSE MapRes(ValueOf(g, k).map))

-----------------------------------------------------------------------------
(* The whole keyspace *)

DEL(D) == Answer(DelKeys(db, D), Int64(Cardinality(D \cap Stored(db))))

\* GetNoTouch on each key: the expired ones among D go.
EXISTS(D) ==
  LET dead == {k \in D \cap Stored(db) : HasExpired(db, db.store[k], now)}
  IN  Answer(DelKeys(db, dead), Int64(Cardinality((D \cap Stored(db)) \ dead)))

TYPE(k) ==
  LET g == Get(db, k, now)
  IN  Answer(g, IF g.store[k] = Nil THEN TypeRes("none") ELSE TypeRes(ValueOf(g, k).typ))

\* Match is the set of keys the pattern matches.
KEYS(Match) == Answer(db, KeysRes(Stored(db) \cap Match))

FLUSHDB == Answer(EmptyStore, OK)

-----------------------------------------------------------------------------
(* The environment: the clock, and the shard thread's ticker *)

Tick ==
  /\ now < MaxTime
  /\ now' = now + 1
  /\ UNCHANGED <<db, reply>>

\* Mutant: the ticker compares with < where hasExpired compares with <=.
DeleteExpiredKeys_Strict ==
  LET dead == {k \in Stored(db) : db.expires[db.store[k]] # NoExpiry
                                  /\ db.expires[db.store[k]] < now}
  IN  /\ db' = Collect(DelKeys(db, dead))
      /\ UNCHANGED <<now, reply>>

DeleteExpiredKeys ==
  LET dead == {k \in Stored(db) : HasExpired(db, db.store[k], now)}
  IN  /\ db' = Collect(DelKeys(db, dead))
      /\ UNCHANGED <<now, reply>>

-----------------------------------------------------------------------------

Init ==
  /\ db = EmptyStore
  /\ now = 0
  /\ reply = OK

Command ==
  \/ \E k \in Key, v \in SetArg, P \in SetParams :
       \E n \in ArgsFor(P) : SET(k, v, P, n)
  \/ \E k \in Key, P \in GetexParams :
       \E n \in ArgsFor(P) : GETEX(k, P, n)
  \/ \E k \in Key : GET(k) \/ GETDEL(k) \/ TTL(k) \/ EXPIRETIME(k) \/ TYPE(k) \/ HGETALL(k)
  \/ \E k \in Key, v \in SetArg : GETSET(k, v)
  \/ \E k \in Key, d \in Delta : INCRBY(k, d) \/ DECRBY(k, d)
  \/ \E k \in Key, d \in Delta \cap {1} : INCR(k) \/ DECR(k)
  \/ \E k \in Key, n \in ExpiryArg, opts \in ExpireOpts : EXPIRE(k, n, opts)
  \/ \E k \in Key, n \in ExpiryArg, opts \in ExpireOpts : EXPIREAT(k, n, opts)
  \/ \E k \in Key, kvs \in FieldMap \ {NoFields}, odd \in BOOLEAN : HSET(k, kvs, odd)
  \/ \E k \in Key, f \in Field : HGET(k, f)
  \/ \E D \in SUBSET Key \ {{}} : DEL(D) \/ EXISTS(D)
  \/ \E M \in SUBSET Key : KEYS(M)
  \/ FLUSHDB

Next == Command \/ Tick \/ DeleteExpiredKeys

Spec == Init /\ [][Next]_vars

(* Properties: one type invariant, then what relates the two maps, the      *)
(* counters and the clock                                                  *)

ReplyType ==
  {OK, Err, NilVal}
    \cup ({"val"} \X [typ : {"int", "float", "string"}, num : Int, map : {NoFields}])
    \cup ({"int"} \X Int) \cup ({"bool"} \X BOOLEAN)
    \cup ({"type"} \X {"none", "int", "float", "string", "ssmap"})
    \cup ({"field"} \X FieldVal) \cup ({"map"} \X FieldMap)
    \cup ({"keys"} \X SUBSET Key)

\* The state keeps its shape: every stored key has an object with a value.
TypeOK ==
  /\ db \in StoreType /\ NoDangling(db)
  /\ now \in Nat
  /\ reply \in ReplyType

\* Two keys never share an object: deleting or expiring one key through the
\* object-keyed expires map cannot touch another.
NoAliasing == Injective(db)

\* Every entry of the expires map belongs to an object the store still holds:
\* no overwrite, deletion, eviction or flush leaves one behind.
NoOrphanExpiry == NoOrphan(db)

\* Store.numKeys, which ShouldEvict trusts, is the number of keys, whatever
\* mix of overwrites, lazy deletions, evictions and flushes led here.
KeyCountExact == CountExact(db)

\* The shard never holds more than the eviction strategy's maxKeys.
KeyCountBounded == CountBounded(db)

\* The RegMap counter never falls below the number of keys, so that Keys(),
\* which allocates a slice of that capacity, is never given a negative one.
LenCoversKeys == LenCovers(db)

OldestEvicted ==
  LET old   == Stored(db)
      new   == Stored(db')
      gone  == old \ new
      added == new \ old
      last(k) == db.heap[db.store[k]].last
  IN  added # {} /\ gone # {} =>
        /\ Cardinality(old) >= MaxKeys
        /\ \A v \in gone, u \in old \cap new : last(v) <= last(u)

\* A command that adds a key drops others only when the shard was full, and
\* then every key it drops is at least as old as every key it keeps.
EvictionIsLRU == [][OldestEvicted]_vars

Expired(k) == db.store[k] # Nil /\ HasExpired(db, db.store[k], now)

\* The ticker of the shard thread runs every second for as long as it lives.
FairSpec == Spec /\ WF_vars(DeleteExpiredKeys)

\* An expired key nobody asks for is reclaimed nevertheless.
ExpiredReclaimed == \A k \in Key : Expired(k) ~> ~Expired(k)

\* The deadline of the object that holds k.
DeadlineOf(k) == db.expires[db.store[k]]

\* EXPIRE and EXPIREAT with GT set a deadline only if it is later than the
\* one the key has, whatever other option comes with it.  Refuted: MCKeyspace_gt.
ExpiryExtended ==
  \A k \in Key, n \in ExpiryArg, opts \in ExpireOpts :
    "GT" \in opts /\ (EXPIRE(k, n, opts) \/ EXPIREAT(k, n, opts)) /\ reply' = Bool(TRUE) =>
      DeadlineOf(k)' > DeadlineOf(k)

GTOnlyExtends == [][ExpiryExtended]_vars

\* A key given a number of seconds to live is still there afterwards.
\* Refuted: MCKeyspace_far.
ExpiryAhead ==
  \A k \in Key, n \in ExpiryArg, opts \in ExpireOpts :
    n > 0 /\ EXPIRE(k, n, opts) /\ reply' = Bool(TRUE) => ~Expired(k)'

ExpireLeavesTime == [][ExpiryAhead]_vars

\* SET with KEEPTTL and a valid expiration option replaces the value of a
\* live key and keeps its deadline.  Refuted: MCKeyspace_keepttl.
KeepTTLWins ==
  \A k \in Key, v \in SetArg, P \in SetParams : \A n \in ArgsFor(P) :
    /\ "KEEPTTL" \in P /\ "NX" \notin P
    /\ \E p \in ExpiryParam : P \cap ExpiryParam = {p} /\ DurationValid(p, n, now)
    /\ db.store[k] # Nil /\ ~Expired(k)
    /\ SET(k, v, P, n)
    => ValueOf(db, k)' = v /\ DeadlineOf(k)' = DeadlineOf(k)

KeepTTLKeeps == [][KeepTTLWins]_vars

-----------------------------------------------------------------------------
(* Refinement: the live keys are the entries of the abstract cache *)

LiveEntries ==
  [k \in Key |->
     IF db.store[k] = Nil \/ Expired(k) THEN Nil
     ELSE [val |-> ValueOf(db, k), at |-> db.expires[db.store[k]]]]

Cache == INSTANCE TTLCache WITH entries <- LiveEntries

\* Clients see a cache in which a key is gone the instant its deadline passes:
\* lazy deletion, the ticker, eviction and object sharing are invisible but
\* for keys lost to a command that adds one.
ImplementsTTLCache == Cache!Spec

=============================================================================
