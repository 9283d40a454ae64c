----------------------------- MODULE TypedStore -----------------------------
(***************************************************************************)
(* What the evaluators of internal/eval share: a shard's keys, each        *)
(* holding one object of one type, and the answers they give.              *)
(*                                                                         *)
(* Deadlines, eviction and the counters of the store are Keyspace's        *)
(* subject and are left out.  A shard runs one evaluator at a time.        *)
(*                                                                         *)
(* What a command that reads would answer is an operator on the store.     *)
(* ghost remembers, beside an object, what its commands were told: it is   *)
(* what the answers of the object are compared with.                       *)
(***************************************************************************)
EXTENDS Integers, FiniteSetsExt

CONSTANTS
  Key,
  Nil,
  NaN   \* stands for an argument that does not parse as a number

ASSUME NaNAssumption == NaN \notin Int

VARIABLES
  store,  \* [Key -> [type, val]]
  ghost,  \* [Key -> what the object should stand for, or Nil]
  reply   \* the last command failed (Err), ended the process (Panicked) or neither (OK)

vars == <<store, ghost, reply>>

Err == "error"
OK == "OK"
Panicked == "panic"

Positive == Nat \ {0}

Obj(type, val) == [type |-> type, val |-> val]

\* What the store answers with for a missing key.
NoObj == Obj("none", Nil)

Exists(k) == store[k].type # "none"
Holds(k, type) == Exists(k) /\ store[k].type = type

\* AssertType fails: there is an object, of another type.
WrongType(k, type) == Exists(k) /\ store[k].type # type

Val(k) == store[k].val

Answer(r) == reply' = r /\ UNCHANGED <<store, ghost>>

\* Nothing recovers an evaluator that panics: the process ends, and the next
\* one starts with an empty store.
Crash ==
  /\ store' = [k \in Key |-> NoObj]
  /\ ghost' = [k \in Key |-> Nil]
  /\ reply' = Panicked

\* Put an object, or change the one the store holds in place.
Write(k, obj, g) ==
  /\ store' = [store EXCEPT ![k] = obj]
  /\ ghost' = [ghost EXCEPT ![k] = g]
  /\ reply' = OK

\* The ghost of an object that only now came to be.
GhostOr(k, g) == IF Exists(k) THEN ghost[k] ELSE g

DEL(k) == Write(k, NoObj, Nil)

TypedInit ==
  /\ store = [k \in Key |-> NoObj]
  /\ ghost = [k \in Key |-> Nil]
  /\ reply = OK

=============================================================================
