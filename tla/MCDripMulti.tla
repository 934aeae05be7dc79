----------------------------- MODULE MCDripMulti ----------------------------
(* Movies of two lengths, so that one of them starts again before the others;*)
(* the first is shown, the others are recycled.                              *)
EXTENDS DripMulti

Lengths == [k \in 1 .. N |-> IF k = 1 THEN 4 ELSE 3]
Offsets == [k \in 1 .. N |-> 0]
=============================================================================
