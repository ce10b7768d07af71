------------------------------- MODULE FpOrder -------------------------------
(***************************************************************************)
(* What the comparisons, fmin, fmax and fclass return, for the two formats *)
(* of the constants and every operand.                                     *)
(***************************************************************************)
EXTENDS FpInsns, Call
R == INSTANCE IEEE754

\* The comparisons order patterns as the numbers they stand for, fmin and fmax
\* return a number whenever one operand is a number, the smaller or the larger
\* of two, and fclass names the kind of its operand.
Between(f, z, x, y, lower) ==
    LET ok(v) == R!NaN(f, v) \/ IF lower THEN R!Rank(f, z) <= R!Rank(f, v)
                                         ELSE R!Rank(f, z) >= R!Rank(f, v)
    IN  /\ z \in {x, y}
        /\ R!NaN(f, z) => R!NaN(f, x) /\ R!NaN(f, y)
        /\ ~ R!NaN(f, z) => ok(x) /\ ok(y)
OrderCorrect ==
    /\ CalledOnce("binary32") =>
         LET x == R!Rank(F32, rs1)
             y == R!Rank(F32, rs2)
         IN  /\ feq_s(rs1, rs2) = R!Compare(F32, rs1, rs2, TRUE, x = y)
             /\ flt_s(rs1, rs2) = R!Compare(F32, rs1, rs2, FALSE, x < y)
             /\ fle_s(rs1, rs2) = R!Compare(F32, rs1, rs2, FALSE, x <= y)
             /\ f32_eq_signaling(rs1, rs2) = R!Compare(F32, rs1, rs2, FALSE, x = y)
             /\ f32_lt_quiet(rs1, rs2) = R!Compare(F32, rs1, rs2, TRUE, x < y)
             /\ f32_le_quiet(rs1, rs2) = R!Compare(F32, rs1, rs2, TRUE, x <= y)
             /\ Between(F32, fmin_s(rs1, rs2).ui, rs1, rs2, TRUE)
             /\ Between(F32, fmax_s(rs1, rs2).ui, rs1, rs2, FALSE)
    /\ CalledOnce("binary64") =>
         LET x == R!Rank(F64, rs1)
             y == R!Rank(F64, rs2)
         IN  /\ feq_d(rs1, rs2) = R!Compare(F64, rs1, rs2, TRUE, x = y)
             /\ flt_d(rs1, rs2) = R!Compare(F64, rs1, rs2, FALSE, x < y)
             /\ fle_d(rs1, rs2) = R!Compare(F64, rs1, rs2, FALSE, x <= y)
             /\ f64_eq_signaling(rs1, rs2) = R!Compare(F64, rs1, rs2, FALSE, x = y)
             /\ f64_lt_quiet(rs1, rs2) = R!Compare(F64, rs1, rs2, TRUE, x < y)
             /\ f64_le_quiet(rs1, rs2) = R!Compare(F64, rs1, rs2, TRUE, x <= y)
             /\ Between(F64, fmin_d(rs1, rs2).ui, rs1, rs2, TRUE)
             /\ Between(F64, fmax_d(rs1, rs2).ui, rs1, rs2, FALSE)
    /\ CalledOnce("sqrt32") => fclass_s(rs1) = {R!Class(F32, rs1)}
    /\ CalledOnce("sqrt64") => fclass_d(rs1) = {R!Class(F64, rs1)}
=============================================================================
