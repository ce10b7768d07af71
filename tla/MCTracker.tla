----------------------------- MODULE MCTracker -----------------------------
(* Tracker with a program of a few instructions over two registers.        *)
EXTENDS Tracker, TLC

CONSTANTS n1, n2, n3, n4, n5
SomeNodes == {n1, n2, n3, n4, n5}
NodeSymmetry == Permutations(SomeNodes)

I(pc, kind, rd, rs1, rs2, args) ==
  [pc |-> pc, kind |-> kind, rd |-> rd, rs1 |-> rs1, rs2 |-> rs2, args |-> args]

Li    == I(0, "alu", 1, 0, 0, <<1>>)          \* li x1
Add   == I(4, "alu", 1, 1, 3, <<1, 1, 3>>)    \* add x1, x1, x3
Mv    == I(8, "alu", 3, 1, 0, <<3, 1>>)       \* mv x3, x1
Lw    == I(12, "load", 1, 3, 0, <<1, -1>>)    \* lw x1, (x3)
Sw    == I(16, "store", 0, 3, 1, <<1, -1>>)   \* sw x1, (x3)
Sw3   == I(20, "store", 3, 1, 3, <<3, -1>>)   \* sw x3, off(x1)
SwSp  == I(24, "store", 3, 3, 2, <<2, -1>>)   \* sw sp, off(x3)
Beqz  == I(28, "branch", 3, 3, 0, <<3>>)      \* beqz x3, with 3 where rd would be
Amo   == I(36, "amo", 1, 3, 3, <<1, 3>>)      \* amoswap.w x1, x3, (x3)

Program == {Li, Add, Mv, Lw, Sw, Sw3, SwSp, Beqz, Amo}
=============================================================================
