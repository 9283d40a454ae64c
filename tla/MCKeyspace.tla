----------------------------- MODULE MCKeyspace -----------------------------
(***************************************************************************)
(* Instances of Keyspace for TLC.                                          *)
(***************************************************************************)
EXTENDS Keyspace, TLC

MCInt(n) == [typ |-> "int", num |-> n, map |-> NoFields]

MCOne == {MCInt(1)}

MCTwo == {MCInt(1), MCInt(2)}

MCFloat(n) == [typ |-> "float", num |-> n, map |-> NoFields]

\* An int at the int64 boundary, and a float %f has to round.
MCNumbers == {MCInt(IntMax), MCFloat(3)}

MCPlainOrPX == {{}, {"PX"}}

\* Each option alone, each accepted combination, one of each kind of conflict.
MCSetParams ==
  {{}, {"EX"}, {"PX"}, {"EXAT"}, {"PXAT"}, {"XX"}, {"NX"}, {"KEEPTTL"},
   {"XX", "KEEPTTL"}, {"NX", "EX"}, {"EX", "PXAT"}, {"KEEPTTL", "EX"}, {"XX", "NX"}}

MCEvictParams == {{}, {"PX"}, {"KEEPTTL"}}

MCGetexParams == {{}, {"EX"}, {"EXAT"}, {"PERSIST"}, {"PERSIST", "PX"}}

\* Refused, at once, within and beyond the bounds.
MCExpiryArgs == {-1, 0, 1, 2, 4}

MCExpireOpts ==
  {{}, {"NX"}, {"XX"}, {"GT"}, {"LT"}, {"XX", "GT"}, {"GT", "LT"}, {"NX", "XX"}, {"unsupported"}}

Symmetry == Permutations(Key) \cup Permutations(Obj)

=============================================================================
