------------------------------ MODULE FpProducts ------------------------------
(***************************************************************************)
(* What the product and the quotient return, for the two formats of the    *)
(* constants, every rounding mode and every pair of operands.              *)
(***************************************************************************)
EXTENDS FpOrder

\* softfloat_estimateDiv128To64 on words of 6 bits returns the quotient or at
\* most 2 more, or the largest word when the quotient does not fit, as
\* primitives.h says of it.
EstimateClose ==
    LET z == estimateDiv(6, rs1, rs3, rs2)
        q == (rs1 * 2^6 + rs3) \div rs2
    IN  IF q >= 2^6 THEN z = 2^6 - 1 ELSE z \in q .. q + 2

\* f32_mul, f32_div and their f64 versions return the exact result rounded
\* once, with its flags.  What can go wrong: the sticky bit of what a product
\* loses, a product with one digit less, a subnormal result, which is shifted
\* before it is rounded, overflow by rounding up, the sign of a zero, a NaN
\* beside an infinity, and that f64_div corrects its estimate of the quotient,
\* which may be 2 too high, only when its low bits are close to a rounding
\* boundary.
ProductsCorrect ==
    /\ Called("binary32") => /\ f32_mul(mode, rs1, rs2) = R!Mul(F32, mode, rs1, rs2)
                             /\ fdiv_s(mode, rs1, rs2) = R!Div(F32, mode, rs1, rs2)
    /\ Called("binary64") => /\ f64_mul(mode, rs1, rs2) = R!Mul(F64, mode, rs1, rs2)
                             /\ fdiv_d(mode, rs1, rs2) = R!Div(F64, mode, rs1, rs2)
    /\ Called("estimate") => EstimateClose
=============================================================================
