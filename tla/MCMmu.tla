------------------------------- MODULE MCMmu -------------------------------
(* Mmu with two levels of two entries: page 0 is the root, page 1 a leaf   *)
(* table, pages 2 and 3 hold code and data.                                *)
EXTENDS Mmu, TLC

CONSTANTS w1, w2
TwoWords == {w1, w2}
WordSymmetry == Permutations(TwoWords)

Dir == [V |-> TRUE, T |-> TRUE, ppn |-> 1, perm |-> {}]
UserCode == [V |-> TRUE, T |-> FALSE, ppn |-> 2, perm |-> {"UX", "UR", "SR", "SW"}]
UserData == [V |-> TRUE, T |-> FALSE, ppn |-> 3, perm |-> {"UR", "UW", "SR", "SX"}]

Beyond == [V |-> TRUE, T |-> FALSE, ppn |-> 4, perm |-> {"UR", "SR"}]

SomePtes == {NoPte, Dir, UserCode, UserData, Beyond}

(* The root leads to the leaf table; a leaf written to the root is a large *)
(* page.                                                                   *)
Leaves == (0 :> UserCode @@ 1 :> UserData)
Roots == {(0 :> Dir @@ 1 :> NoPte)}
SmallTables == {(0 :> r @@ 1 :> Leaves) : r \in Roots}
=============================================================================
