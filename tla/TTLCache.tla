------------------------------ MODULE TTLCache ------------------------------
(***************************************************************************)
(* What one shard promises its clients: a map from keys to values with     *)
(* deadlines, in which an entry is gone the instant its deadline passes.   *)
(* The shard is a bounded cache, so a command that adds a key may lose any *)
(* other keys; no other command loses anything it does not name.           *)
(*                                                                         *)
(* There are no objects, no lazy deletion, no ticker and no counters here: *)
(* Keyspace implements this with all of them.  What an option promises is  *)
(* said here without the code's rules: which deadlines it may set, which   *)
(* condition it puts on the command.  Where the code departs from its help *)
(* or comments both are allowed, and Permissive names the case.            *)
(***************************************************************************)
EXTENDS CmdArgs

VARIABLES
  entries,  \* [Key -> [val, at] or Nil]: the live keys
  now,
  reply

vars == <<entries, now, reply>>

Live == {k \in Key : entries[k] # Nil}

Entry(v, at) == [val |-> v, at |-> at]

Done(r) == reply' = r /\ now' = now

Same(r) == Done(r) /\ UNCHANGED entries

\* Add or replace an entry; only an addition may push others out.
Write(k, e, r) ==
  /\ Done(r)
  /\ \E lost \in IF k \in Live THEN {{}} ELSE SUBSET (Key \ {k}) :
       entries' = [j \in Key |-> IF j = k THEN e ELSE IF j \in lost THEN Nil ELSE entries[j]]

\* Change the entry of k; a deadline that is not in the future ends it.
Change(k, e, r) ==
  /\ Done(r)
  /\ entries' = [entries EXCEPT ![k] = IF e.at # NoExpiry /\ e.at <= now THEN Nil ELSE e]

Remove(D, r) ==
  /\ Done(r)
  /\ entries' = [k \in Key |-> IF k \in D THEN Nil ELSE entries[k]]

Wire(k) == IF k \in Live THEN WireValue(entries[k].val) ELSE NilVal

-----------------------------------------------------------------------------
(* What the options promise *)

\* The deadlines option p with number n may stand for: EXAT names a second.
Asked(p, n, t) ==
  CASE p = "EX"   -> {t + n * MsPerSec}
    [] p = "PX"   -> {t + n}
    [] p = "EXAT" -> (n * MsPerSec)..((n + 1) * MsPerSec - 1)
    [] p = "PXAT" -> {n}

\* A deadline lies in the future, and less than a year ahead.
Acceptable(at, t) == t < at /\ at < t + MaxEXDurationSec * MsPerSec

AllAsked(P, n, t) == UNION {Asked(p, n, t) : p \in P \cap ExpiryParam}

\* The deadlines the options may set.
Deadlines(P, n, t) ==
  IF P \cap ExpiryParam = {} THEN {NoExpiry} ELSE {at \in AllAsked(P, n, t) : Acceptable(at, t)}

\* At most one deadline, or none for good, and at most one condition.
Contradictory(P) ==
  \/ \E p, q \in P \cap GetexParam : p # q
  \/ {"XX", "NX"} \subseteq P

MustRefuse(P, n, t) == Contradictory(P) \/ Deadlines(P, n, t) = {}

\* The code bounds PX by the number of seconds of a year, and refuses
\* KEEPTTL with a deadline, which its help allows.
PermissiveRefusal(P, n) ==
  \/ "PX" \in P /\ n >= MaxEXDurationSec
  \/ "KEEPTTL" \in P /\ P \cap ExpiryParam # {}

MayRefuse(P, n, t) ==
  \/ MustRefuse(P, n, t)
  \/ \E at \in AllAsked(P, n, t) : ~Acceptable(at, t)
  \/ PermissiveRefusal(P, n)

\* The condition an option of EXPIRE puts on the key's deadline, prev.
Allows(opt, prev, at) ==
  CASE opt = "NX" -> prev = NoExpiry
    [] opt = "XX" -> prev # NoExpiry
    [] opt = "GT" -> prev # NoExpiry /\ at > prev
    [] opt = "LT" -> prev # NoExpiry /\ at < prev
    [] OTHER -> FALSE

AllAllow(opts, prev, at) == \A opt \in opts : Allows(opt, prev, at)

\* With XX beside it the code does not hold GT or LT to its condition.
PermissiveExpiry(opts, prev) == "XX" \in opts /\ opts # {"XX"} /\ prev # NoExpiry

\* No two of these can hold of the same command.
Exclusive == {{"NX", "XX"}, {"NX", "GT"}, {"NX", "LT"}, {"GT", "LT"}}

OptionsRefused(opts) == "unsupported" \in opts \/ \E pair \in Exclusive : pair \subseteq opts

\* Seconds from t.  What the code makes of a deadline beyond int64 is left
\* open.
SecondsFrom(sec, t) ==
  IF t + sec * MsPerSec <= IntMax THEN {t + sec * MsPerSec} ELSE IntMin..IntMax

-----------------------------------------------------------------------------

\* KEEPTTL keeps the deadline whatever deadline comes with it.
SET(k, v, P, n) ==
  LET applies == ("XX" \in P => k \in Live) /\ ("NX" \in P => k \notin Live)
      keeps   == "KEEPTTL" \in P /\ k \in Live
  IN  \/ MayRefuse(P, n, now) /\ Same(Err)
      \/ ~MustRefuse(P, n, now) /\ ~applies /\ Same(OK)
      \/ /\ ~MustRefuse(P, n, now) /\ applies
         /\ \E at \in IF keeps THEN {entries[k].at} ELSE Deadlines(P, n, now) :
              Write(k, Entry(v, at), OK)

GETEX(k, P, n) ==
  \/ MayRefuse(P, n, now) /\ Same(Err)
  \/ ~MustRefuse(P, n, now) /\ (k \notin Live \/ P = {}) /\ Same(Wire(k))
  \/ /\ ~MustRefuse(P, n, now) /\ k \in Live /\ P # {}
     /\ \E at \in Deadlines(P, n, now) : Change(k, Entry(entries[k].val, at), Wire(k))

GETSET(k, v) == Write(k, Entry(v, NoExpiry), Wire(k))

DoIncr(k, d) ==
  \/ k \notin Live /\ Write(k, Entry(IntValue(d), NoExpiry), Int64(d))
  \/ k \in Live /\ entries[k].val.typ # "int" /\ Same(Err)
  \/ /\ k \in Live /\ entries[k].val.typ = "int"
     /\ LET n == Wrap(entries[k].val.num + d)
        IN  Change(k, Entry(IntValue(n), entries[k].at), Int64(n))

SetExpiryIf(k, opts, at) ==
  LET prev == entries[k].at
  IN  \/ k \notin Live /\ Same(Bool(FALSE))
      \/ k \in Live /\ OptionsRefused(opts) /\ Same(Err)
      \/ /\ k \in Live /\ ~OptionsRefused(opts)
         /\ AllAllow(opts, prev, at) \/ PermissiveExpiry(opts, prev)
         /\ Change(k, Entry(entries[k].val, at), Bool(TRUE))
      \/ /\ k \in Live /\ ~OptionsRefused(opts) /\ ~AllAllow(opts, prev, at)
         /\ Same(Bool(FALSE))

EXPIRE(k, sec, opts) ==
  IF sec < 0 THEN Same(Err) ELSE \E at \in SecondsFrom(sec, now) : SetExpiryIf(k, opts, at)

EXPIREAT(k, sec, opts) ==
  IF sec \notin 0..MaxAbsTimestamp THEN Same(Err) ELSE SetExpiryIf(k, opts, sec * MsPerSec)

\* GET, TTL, EXPIRETIME, TYPE, HGETALL and HGET read one key.
Read(k) ==
  LET at == entries[k].at
      v  == entries[k].val
  IN  \/ Same(Wire(k))
      \/ k \notin Live /\ \E r \in {Int64(-2), TypeRes("none"), MapRes(NoFields)} : Same(r)
      \/ /\ k \in Live
         /\ \/ at = NoExpiry /\ Same(Int64(-1))
            \/ at # NoExpiry /\ Same(Int64((at - now) \div MsPerSec))
            \/ at # NoExpiry /\ Same(Int64(at \div MsPerSec))
            \/ Same(TypeRes(v.typ))
            \/ v.typ # "ssmap" /\ Same(Err)
            \/ /\ v.typ = "ssmap"
               /\ \/ Same(MapRes(v.map))
                  \/ \E f \in Field : Same(IF v.map[f] = Nil THEN NilVal ELSE FieldRes(v.map[f]))

HSET(k, kvs) ==
  LET m == IF k \in Live THEN entries[k].val.map ELSE NoFields
  IN  \/ Same(Err)
      \/ /\ k \in Live => entries[k].val.typ = "ssmap"
         /\ Write(k, Entry(MapValue([f \in Field |-> IF kvs[f] = Nil THEN m[f] ELSE kvs[f]]),
                           NoExpiry),
                  Int64(Cardinality({f \in Field : kvs[f] # Nil /\ m[f] = Nil})))

\* DEL does not look at deadlines: it may count keys that have expired.
DEL(D) == \E n \in Cardinality(D \cap Live)..Cardinality(D) : Remove(D, Int64(n))

GETDEL(k) == Remove({k}, Wire(k))

EXISTS(D) == Same(Int64(Cardinality(D \cap Live)))

\* Nor does KEYS: it may list keys that have expired.
KEYS(M) == \E S \in SUBSET M : M \cap Live \subseteq S /\ Same(KeysRes(S))

FLUSHDB == Remove(Key, OK)

Tick ==
  /\ now' = now + 1
  /\ entries' = [k \in Key |-> IF k \in Live /\ entries[k].at # NoExpiry /\ entries[k].at <= now + 1
                               THEN Nil ELSE entries[k]]
  /\ UNCHANGED reply

-----------------------------------------------------------------------------

Init == entries = [k \in Key |-> Nil] /\ now = 0 /\ reply = OK

Next ==
  \/ \E k \in Key :
       \/ Read(k) \/ GETDEL(k)
       \/ \E v \in SetArg, P \in SetParams : \E n \in ArgsFor(P) : SET(k, v, P, n)
       \/ \E P \in GetexParams : \E n \in ArgsFor(P) : GETEX(k, P, n)
       \/ \E v \in SetArg : GETSET(k, v)
       \/ \E d \in {1, -1} \cup Delta \cup {Wrap(-d) : d \in Delta} : DoIncr(k, d)
       \/ \E n \in ExpiryArg, opts \in ExpireOpts : EXPIRE(k, n, opts) \/ EXPIREAT(k, n, opts)
       \/ \E kvs \in FieldMap \ {NoFields} : HSET(k, kvs)
  \/ \E D \in SUBSET Key \ {{}} : DEL(D) \/ EXISTS(D)
  \/ \E M \in SUBSET Key : KEYS(M)
  \/ FLUSHDB
  \/ Tick

Spec == Init /\ [][Next]_vars

=============================================================================
