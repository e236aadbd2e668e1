---------------------------- MODULE MCConverter -----------------------------
(* Converter with small models: native tensors, Q5_K tensors that end on   *)
(* and off a plane boundary, listed in another order than they are stored, *)
(* a span too short for its blocks, and empty tensors.                     *)
EXTENDS Converter

Native(o)    == [type |-> "F32", blocks |-> 0, offset |-> o]
Q5K(o, n)    == [type |-> "Q5_K", blocks |-> n, offset |-> o]
Model(n, m, b, ts) == [name |-> n, meta |-> m, bytes |-> b, tensors |-> ts]

TwoNative == Model("two_native", 1, 5, <<Native(0), Native(3)>>)
Mixed     == Model("mixed", 2, 15, <<Native(13), Q5K(0, 3)>>)
TooShort  == Model("too_short", 1, 6, <<Q5K(0, 2)>>)
EmptyQ5   == Model("empty_q5", 1, 2, <<Native(0), Q5K(2, 0)>>)
EmptyLast == Model("empty_last", 1, 3, <<Native(0), Native(3)>>)

MCSources == {TwoNative, Mixed, TooShort, EmptyQ5, EmptyLast}

Symmetry == Permutations(Inodes) \cup Permutations(Converters)
=============================================================================
