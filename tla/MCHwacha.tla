------------------------------- MODULE MCHwacha -------------------------------
(* The vector unit with two processes and a block that uses every kind of   *)
(* instruction.                                                             *)
EXTENDS Hwacha, TLC

CONSTANTS p1, p2
TwoProcs == {p1, p2}
\* Started at 1, a block is illegal at once; at 2, it runs to its end; at 8,
\* it only stops.
Insns == <<"illegal", "amo", "load", "utidx", "fadd", "store", "addi", "stop">>
AnyStart == {0, 1, 2, 8}
\* Room for 2 elements with both kinds of register, for 4 with none, and two
\* requests for more registers than there are.
SomeConfigs == {<<2, 1>>, <<1, 0>>, <<3, 0>>, <<0, 3>>}
Symmetry == Permutations(TwoProcs)
==============================================================================
