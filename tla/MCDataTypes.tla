----------------------------- MODULE MCDataTypes ----------------------------
(***************************************************************************)
(* An instance of DataTypes for TLC.                                       *)
(***************************************************************************)
EXTENDS DataTypes

Symmetry == Permutations(Key)

\* Entries of two bytes and of seven: a node of four holds two of the one, and
\* has to grow for the other, which leaves gaps wider than a node.
MCElem == {[int |-> TRUE, v |-> 5], [int |-> FALSE, v |-> 4]}

\* Items that share a cell in one row of a sketch and not in the other.
MCHash1 == [item \in Item |-> CASE item = "a" -> 0 [] item = "b" -> 1 [] OTHER -> 2]
MCHash2 == [item \in Item |-> IF item = "b" THEN 0 ELSE 1]
MCSeedHash == [s \in Seed |-> [item \in Item |-> MCHash1[item] * s + MCHash2[item]]]

MCCMSDim == {[depth |-> 2, width |-> 2], [depth |-> 2, width |-> 3], [depth |-> 0, width |-> 2]}
MCBloomDim == <<[k |-> 2, bits |-> 4], [k |-> 1, bits |-> 3], [k |-> 1, bits |-> 0]>>

\* Each flag alone, pairs that go together, one of each kind of conflict.
MCFlagSets ==
  {{}, {"NX"}, {"XX"}, {"GT"}, {"LT"}, {"INCR"}, {"XX", "GT"}, {"INCR", "GT"},
   {"NX", "XX"}, {"GT", "LT"}}

MCIncr == {2, -2, 1}

=============================================================================
