------------------------------ MODULE CmdArgs -------------------------------
(***************************************************************************)
(* Arguments, values and replies of the commands on one shard, shared by   *)
(* the store of the code (StoreOps, Keyspace) and by the abstract cache it *)
(* implements (TTLCache).                                                  *)
(*                                                                         *)
(* Arguments are taken after parsing.  A value is what                     *)
(* CreateObjectFromValue makes of it: an int, a float (its digits in units *)
(* of 10^-7) or a string (an opaque token); a hash is a map of fields.     *)
(***************************************************************************)
EXTENDS Integers, FiniteSets

CONSTANTS
  Key,               \* the keys of the shard
  Nil,               \* no object, no field
  NoExpiry,          \* no expiration time
  MsPerSec,          \* 1000: clock ticks (milliseconds) per second
  MaxEXDurationSec,  \* the exclusive bound on EX and PX
  MaxAbsTimestamp,   \* EXPIREATMaxAbsTimestamp
  IntMax,            \* math.MaxInt64
  Field, FieldVal,   \* fields of a hash and their values
  SetArg,            \* the values SET and GETSET are called with
  SetParams,         \* the sets of options SET is called with
  GetexParams,       \* the sets of options GETEX is called with
  ExpiryArg,         \* the numbers given as expiration times
  ExpireOpts,        \* the sets of options EXPIRE and EXPIREAT are called with
  Delta              \* the numbers INCRBY and DECRBY are called with; 1 stands for
                     \* INCR and DECR too

\* math.MinInt64
IntMin == -IntMax - 1

NoFields == [f \in Field |-> Nil]

FieldMap == [Field -> FieldVal \cup {Nil}]

Scalar == [typ : {"int", "float", "string"}, num : IntMin..IntMax, map : {NoFields}]

Value == Scalar \cup [typ : {"ssmap"}, num : {0}, map : FieldMap]

ExpiryParam == {"EX", "PX", "EXAT", "PXAT"}

SetParam == ExpiryParam \cup {"XX", "NX", "KEEPTTL"}

GetexParam == ExpiryParam \cup {"PERSIST"}

ExpireOption == {"NX", "XX", "GT", "LT", "unsupported"}

ASSUME KeyAssumption == IsFiniteSet(Key)
ASSUME NilAssumption ==
  /\ NoExpiry \notin Int /\ Nil \notin FieldVal
  /\ Nil \notin [val : Value, at : Int \cup {NoExpiry}]
ASSUME FieldAssumption == IsFiniteSet(Field)
ASSUME RangeAssumption == IntMax \in Nat \ {0}
ASSUME TimeAssumption ==
  /\ MsPerSec \in Nat \ {0}
  /\ MaxEXDurationSec \in Nat
  /\ MaxAbsTimestamp \in Nat
ASSUME ArgAssumption ==
  /\ SetArg \subseteq Scalar
  /\ ExpiryArg \subseteq IntMin..IntMax
  /\ Delta \subseteq IntMin..IntMax
  /\ SetParams \subseteq SUBSET SetParam
  /\ GetexParams \subseteq SUBSET GetexParam
  /\ ExpireOpts \subseteq SUBSET ExpireOption

-----------------------------------------------------------------------------
(* Values and replies *)

\* Mutant: integers of unbounded width.
Wrap_None(n) == n

\* int64 arithmetic wraps around.
Wrap(n) == IntMin + ((n - IntMin) % (IntMax - IntMin + 1))

IntValue(n) == [typ |-> "int", num |-> n, map |-> NoFields]

MapValue(m) == [typ |-> "ssmap", num |-> 0, map |-> m]

OK         == <<"ok">>
Err        == <<"err">>
NilVal     == <<"nil">>
Int64(n)   == <<"int", n>>
Bool(b)    == <<"bool", b>>
TypeRes(t) == <<"type", t>>
FieldRes(x) == <<"field", x>>
MapRes(m)  == <<"map", m>>
KeysRes(S) == <<"keys", S>>

\* "%f" keeps six decimals of a float.
Formatted(v) ==
  IF v.typ = "float" THEN [v EXCEPT !.num = ((v.num + 5) \div 10) * 10] ELSE v

\* getWireValueFromObj: only a scalar has a wire value.
WireValue(v) == IF v.typ = "ssmap" THEN Err ELSE <<"val", Formatted(v)>>

\* The numbers to call with: only an expiration option reads one.
ArgsFor(P) == IF P \cap ExpiryParam = {} THEN {0} ELSE ExpiryArg

=============================================================================
