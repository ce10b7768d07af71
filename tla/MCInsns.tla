------------------------------- MODULE MCInsns -------------------------------
(***************************************************************************)
(* Calls of the floating point library and of the instructions built on    *)
(* it, each compared with IEEE754, and of the integer instructions,        *)
(* compared with exact arithmetic.                                         *)
(*                                                                         *)
(* Arithmetic runs on the formats of the cfg: the first operands of        *)
(* NarrowFirst and every second operand of the narrow one, the operands of *)
(* Wide for the other.  The conversions need formats whose words leave     *)
(* room for each other and run on those of L, the library, and C, the      *)
(* instructions, with every exponent at which a result or a tie can        *)
(* change, and on integers around the powers of two.  Half precision runs  *)
(* on the formats of H, whose single precision has twice the digits of the *)
(* half and two more, as in the code.  Integer instructions run on words   *)
(* of 8 bits, whose halves stand for the 32 bits of the narrow mode.       *)
(***************************************************************************)
EXTENDS IntInsns, FpProducts
C == INSTANCE FpInsns WITH E32 <- 6, P32 <- 6, E64 <- 7, P64 <- 18
L == INSTANCE SoftFloat WITH E32 <- 6, P32 <- 6, E64 <- 7, P64 <- 18
H == INSTANCE HalfInsns WITH E32 <- 5, P32 <- 7, E64 <- 7, P64 <- 14,
                             EH <- 3, PH <- 2

ASSUME LawsAssumption == PowerLaws(15)

\* Operands.  Fractions at both ends and on both sides of the middle; most first
\* operands are positive.
Patterns(f) == 0 .. 2^f.w - 1
Positive(f) == 0 .. 2^(f.w - 1) - 1
Fractions(f) == {0, 1, 2^(f.p - 1) - 1, 2^(f.p - 1), 2^(f.p - 1) + 1, 2^f.p - 1}
Of(f, signs, exps, fracs) ==
    {s * 2^(f.w - 1) + e * 2^f.p + m : s \in signs, e \in exps, m \in fracs}
Wide == Of(F64, {0, 1}, {0, 1, 5, F64.bias, F64.bias + 1, F64.inf - 1, F64.inf},
           Fractions(F64) \cup {21})
NarrowFirst == Of(F32, {0}, {0, 1, 5, 7, 8, 14, 15}, 0 .. 3)
                 \cup Of(F32, {1}, {0, 7, 14}, {0, 1})
WideFirst == Of(F64, {0}, {0, 1, F64.bias - 1, F64.bias + 4, F64.inf - 1},
                {0, 43, 2^F64.p - 1})
Special(f) == Of(f, {0, 1}, {0, f.inf}, {0}) \cup Of(f, {0}, {f.inf}, {1, 2^(f.p - 1)})
Factors(f) == Of(f, {0}, {0, 1, f.bias, f.inf - 1}, {1, 2^f.p - 1}) \cup Special(f)
OtherFactors(f) == Of(f, {0}, {1, f.bias}, {1, 2^f.p - 1}) \cup Special(f)
Addends(f) == Of(f, {0, 1}, {0, 1, 3, f.bias - f.p - 1, f.bias - 1, f.bias, f.bias + 2, f.inf - 1, f.inf},
                 {0, 1, 2^f.p - 1})
Corners == (0 .. 9) \cup {15, 16, 17, 31, 33, 64, 112, 120} \cup (124 .. 132) \cup {200, 240}
             \cup (246 .. 255)
Convert(f) == Of(f, {0, 1}, {0, 1, f.inf - 1, f.inf}
                             \cup {e \in 0 .. f.inf : e - f.bias \in -40 .. 33},
                 Fractions(f) \cup {21})
Near(k) == {v \in (2^k - 1) .. (2^k + 1) : v >= 0}
WordsOf(w) == (UNION {Near(k) : k \in 0 .. w} \ {2^w, 2^w + 1})
                \cup {85 * v : v \in UNION {Near(k) : k \in 0 .. w - 7}}
                \cup {2^w - v : v \in 1 .. 9} \cup {2^(w - 1) + v : v \in 2 .. 9}

First == [sqrt32 |-> Patterns(F32), sqrt64 |-> Positive(F64) \cup Special(F64),
          convert32 |-> Convert(L!F32), convert64 |-> Convert(L!F64),
          int32 |-> WordsOf(L!F32.w), int64 |-> WordsOf(L!F64.w),
          narrow |-> Patterns(H!F32),
          binary32 |-> NarrowFirst, binary64 |-> WideFirst,
          fma32 |-> Factors(F32), fma64 |-> Factors(F64),
          half |-> Positive(H!FH), estimate |-> 0 .. 63,
          alu |-> Corners, tags |-> {5, 128}]
Rest == [binary32 |-> Patterns(F32) \X {0}, binary64 |-> Wide \X {0},
         fma32 |-> OtherFactors(F32) \X Addends(F32),
         fma64 |-> OtherFactors(F64) \X Addends(F64),
         half |-> Patterns(H!FH) \X {0}, estimate |-> (32 .. 63) \X {0, 1, 31, 32, 63},
         alu |-> Corners \X {Half, W}, tags |-> {0, 1, 5} \X {Half, W}]

Init == op = "idle" /\ mode = "near_even" /\ rs1 = 0 /\ rs2 = 0 /\ rs3 = 0
\* A call of two or three operands is made in two steps, so that TLC's
\* workers share the second ones.
Unary == /\ op = "idle"
         /\ op' \in DOMAIN First \ DOMAIN Rest
         /\ rs1' \in First[op']
         /\ mode' \in RoundingModes
         /\ UNCHANGED <<rs2, rs3>>
FirstOperand == /\ op = "idle"
                /\ op' \in DOMAIN Rest
                /\ rs1' \in First[op']
                /\ mode' \in IF op' \in {"alu", "tags", "estimate"} THEN {"near_even"} ELSE RoundingModes
                /\ rs2' = -1
                /\ UNCHANGED rs3
Operands == /\ rs2 = -1
            /\ \E r \in Rest[op] : rs2' = r[1] /\ rs3' = r[2]
            /\ UNCHANGED <<op, mode, rs1>>
Return == /\ op # "idle" /\ rs2 # -1
          /\ op' = "idle" /\ mode' = "near_even" /\ rs1' = 0 /\ rs2' = 0 /\ rs3' = 0
Next == Unary \/ FirstOperand \/ Operands \/ Return
Spec == Init /\ [][Next]_vars
-----------------------------------------------------------------------------
\* f32_rem and f64_rem return a - b * n exactly, for the integer n nearest to
\* a / b, however many turns of the reduction loop the exponents need and
\* whatever the intermediate words lose modulo 2^w; fsqrt returns the exact
\* root rounded once, whatever estimate it starts from.
RemSqrtCorrect ==
    /\ CalledTwice("binary32") => f32_rem(mode, rs1, rs2) = R!Rem(F32, rs1, rs2)
    /\ CalledTwice("binary64") => f64_rem(mode, rs1, rs2) = R!Rem(F64, rs1, rs2)
    /\ Called("sqrt32") =>
         \A est \in IF isFiniteNonzero(F32, rs1) THEN f32_sqrtEstimates(rs1) ELSE {0} :
            fsqrt_s(mode, rs1, est) = R!Sqrt(F32, mode, rs1)
    /\ Called("sqrt64") =>
         \A est \in IF isFiniteNonzero(F64, rs1) THEN f64_sqrtEstimates(rs1) ELSE {0} :
            fsqrt_d(mode, rs1, est) = R!Sqrt(F64, mode, rs1)

\* f32_add, f32_sub and their f64 versions round the exact sum once: the sticky
\* bit of the aligned operand, cancellation of leading digits, the sign of a
\* zero.  The fused multiply-adds round a * b + c once, the three variants are
\* it with signs changed, and fadd, fsub and fmul, which call it instead of the
\* library's addition and product, return what those return, flags included.
MulAddCorrect ==
    /\ Called("fma32") => fmadd_s(mode, rs1, rs2, rs3) = R!MulAdd(F32, mode, rs1, rs2, rs3)
    /\ CalledTwice("fma32") =>
         LET na == R!Opposite(F32, rs1)
             nc == R!Opposite(F32, rs3)
         IN  /\ fmsub_s(mode, rs1, rs2, rs3) = R!MulAdd(F32, mode, rs1, rs2, nc)
             /\ fnmsub_s(mode, rs1, rs2, rs3) = R!MulAdd(F32, mode, na, rs2, rs3)
             /\ fnmadd_s(mode, rs1, rs2, rs3) = R!MulAdd(F32, mode, na, rs2, nc)
    /\ Called("fma64") => fmadd_d(mode, rs1, rs2, rs3) = R!MulAdd(F64, mode, rs1, rs2, rs3)
    /\ CalledTwice("fma64") =>
         LET na == R!Opposite(F64, rs1)
             nc == R!Opposite(F64, rs3)
         IN  /\ fmsub_d(mode, rs1, rs2, rs3) = R!MulAdd(F64, mode, rs1, rs2, nc)
             /\ fnmsub_d(mode, rs1, rs2, rs3) = R!MulAdd(F64, mode, na, rs2, rs3)
             /\ fnmadd_d(mode, rs1, rs2, rs3) = R!MulAdd(F64, mode, na, rs2, nc)
    /\ Called("binary32") => /\ f32_add(mode, rs1, rs2) = R!Add(F32, mode, rs1, rs2)
                             /\ f32_sub(mode, rs1, rs2) = R!Sub(F32, mode, rs1, rs2)
                             /\ fadd_s(mode, rs1, rs2) = R!Add(F32, mode, rs1, rs2)
                             /\ fsub_s(mode, rs1, rs2) = R!Sub(F32, mode, rs1, rs2)
                             /\ fmul_s(mode, rs1, rs2) = R!Mul(F32, mode, rs1, rs2)
    /\ Called("binary64") => /\ f64_add(mode, rs1, rs2) = R!Add(F64, mode, rs1, rs2)
                             /\ f64_sub(mode, rs1, rs2) = R!Sub(F64, mode, rs1, rs2)
                             /\ fadd_d(mode, rs1, rs2) = R!Add(F64, mode, rs1, rs2)
                             /\ fsub_d(mode, rs1, rs2) = R!Sub(F64, mode, rs1, rs2)
                             /\ fmul_d(mode, rs1, rs2) = R!Mul(F64, mode, rs1, rs2)

\* Conversions between the formats, to an integral value, to and from integers
\* round once: a wide subnormal, a narrow result that is subnormal or
\* overflows, ties, the most negative integer, an unsigned one with its top bit
\* set.  Those to an integer saturate with invalid when the rounded value is
\* out of range, at every boundary of the four integer types, and the
\* _r_minMag functions are the same with truncation.
FormatsCorrect ==
    /\ Called("convert32") =>
         /\ C!fcvt_d_s(mode, rs1) = R!ToFormat(L!F32, L!F64, mode, rs1)
         /\ L!f32_roundToInt(mode, rs1) = R!RoundToIntegral(L!F32, mode, rs1)
    /\ Called("convert64") =>
         /\ C!fcvt_s_d(mode, rs1) = R!ToFormat(L!F64, L!F32, mode, rs1)
         /\ L!f64_roundToInt(mode, rs1) = R!RoundToIntegral(L!F64, mode, rs1)

I32 == <<L!minInt(L!F32.w), L!maxInt(L!F32.w)>>
I64 == <<L!minInt(L!F64.w), L!maxInt(L!F64.w)>>
UI32 == <<0, 2^L!F32.w - 1>>
UI64 == <<0, 2^L!F64.w - 1>>
Ref(f, m, range) == R!ToInteger(f, m, rs1, range[1], range[2])
ToIntegersCorrect ==
    /\ Called("convert32") =>
         /\ C!fcvt_w_s(mode, rs1)  = C!toRD32(Ref(L!F32, mode, I32))
         /\ C!fcvt_wu_s(mode, rs1) = C!toRD32(Ref(L!F32, mode, UI32))
         /\ C!fcvt_l_s(mode, rs1)  = C!toRD(Ref(L!F32, mode, I64))
         /\ C!fcvt_lu_s(mode, rs1) = C!toRD(Ref(L!F32, mode, UI64))
    /\ CalledOnce("convert32") =>
         /\ L!f32_to_i32_r_minMag(rs1)  = Ref(L!F32, "minMag", I32)
         /\ L!f32_to_ui32_r_minMag(rs1) = Ref(L!F32, "minMag", UI32)
         /\ L!f32_to_i64_r_minMag(rs1)  = Ref(L!F32, "minMag", I64)
         /\ L!f32_to_ui64_r_minMag(rs1) = Ref(L!F32, "minMag", UI64)
    /\ Called("convert64") =>
         /\ C!fcvt_w_d(mode, rs1)  = C!toRD32(Ref(L!F64, mode, I32))
         /\ C!fcvt_wu_d(mode, rs1) = C!toRD32(Ref(L!F64, mode, UI32))
         /\ C!fcvt_l_d(mode, rs1)  = C!toRD(Ref(L!F64, mode, I64))
         /\ C!fcvt_lu_d(mode, rs1) = C!toRD(Ref(L!F64, mode, UI64))
    /\ CalledOnce("convert64") =>
         /\ L!f64_to_i32_r_minMag(rs1)  = Ref(L!F64, "minMag", I32)
         /\ L!f64_to_ui32_r_minMag(rs1) = Ref(L!F64, "minMag", UI32)
         /\ L!f64_to_i64_r_minMag(rs1)  = Ref(L!F64, "minMag", I64)
         /\ L!f64_to_ui64_r_minMag(rs1) = Ref(L!F64, "minMag", UI64)

FromIntegersCorrect ==
    /\ Called("int32") =>
         /\ C!fcvt_s_w(mode, rs1)  = R!FromInteger(L!F32, mode, L!asSigned(L!F32.w, rs1))
         /\ C!fcvt_s_wu(mode, rs1) = R!FromInteger(L!F32, mode, rs1)
         /\ C!fcvt_d_w(mode, rs1)  = R!FromInteger(L!F64, mode, L!asSigned(L!F32.w, rs1))
         /\ C!fcvt_d_wu(mode, rs1) = R!FromInteger(L!F64, mode, rs1)
    /\ Called("int64") =>
         /\ C!fcvt_s_l(mode, rs1)  = R!FromInteger(L!F32, mode, L!asSigned(L!F64.w, rs1))
         /\ C!fcvt_s_lu(mode, rs1) = R!FromInteger(L!F32, mode, rs1)
         /\ C!fcvt_d_l(mode, rs1)  = R!FromInteger(L!F64, mode, L!asSigned(L!F64.w, rs1))
         /\ C!fcvt_d_lu(mode, rs1) = R!FromInteger(L!F64, mode, rs1)
ConversionsCorrect == FormatsCorrect /\ ToIntegersCorrect /\ FromIntegersCorrect

\* Half precision: a finite half survives the way to single precision and
\* back in every mode, and where the single result lies in the range of the
\* normal halves the instructions round as if they rounded once.  (Outside of
\* that range, and with near_maxMag, cvt_sh truncates; an infinity does not
\* come back at all.)  Comparisons and conversions to integers see every half
\* as what it stands for.
InHalfRange(x) == LET e == expUI(H!F32, x) - H!F32.bias
                  IN  e \in 1 - H!FH.bias .. H!FH.bias
HalfCorrect ==
    /\ Called("half") /\ rs2 = 0 /\ ~ R!NaN(H!FH, rs1) /\ ~ R!Infinite(H!FH, rs1) =>
         /\ H!cvt_hs(rs1) = R!ToFormat(H!FH, H!F32, mode, rs1).ui
         /\ H!ut_fcvt_h_s(mode, H!ut_fcvt_s_h(rs1).ui).ui = rs1
    /\ Called("half") /\ rs2 = 0 =>
         LET int == R!ToInteger(H!FH, mode, rs1, H!minInt(H!F32.w), H!maxInt(H!F32.w))
             uint == R!ToInteger(H!FH, mode, rs1, 0, 2^H!F32.w - 1)
         IN  /\ H!ut_fcvt_w_h(mode, rs1) = H!toRD32(int)
             /\ H!ut_fcvt_wu_h(mode, rs1) = H!toRD32(uint)
    /\ CalledOnce("half") =>
         LET x == R!Rank(H!FH, rs1)
             y == R!Rank(H!FH, rs2)
         IN  /\ H!ut_feq_h(rs1, rs2).ui = R!Compare(H!FH, rs1, rs2, TRUE, x = y).ui
             /\ H!ut_flt_h(rs1, rs2).ui = R!Compare(H!FH, rs1, rs2, FALSE, x < y).ui
             /\ H!ut_fle_h(rs1, rs2).ui = R!Compare(H!FH, rs1, rs2, FALSE, x <= y).ui
    /\ Called("narrow") /\ mode # "near_maxMag" /\ InHalfRange(rs1) =>
         H!cvt_sh(mode, rs1) = R!ToFormat(H!F32, H!FH, mode, rs1).ui
    /\ Called("half") /\ mode # "near_maxMag" =>
         LET x == H!cvt_hs(rs1)
             y == H!cvt_hs(rs2)
         IN  /\ InHalfRange(H!fadd_s(mode, x, y).ui) =>
                  H!ut_fadd_h(mode, rs1, rs2).ui = R!Add(H!FH, mode, rs1, rs2).ui
             /\ InHalfRange(H!fsub_s(mode, x, y).ui) =>
                  H!ut_fsub_h(mode, rs1, rs2).ui = R!Sub(H!FH, mode, rs1, rs2).ui
             /\ InHalfRange(H!fmul_s(mode, x, y).ui) =>
                  H!ut_fmul_h(mode, rs1, rs2).ui = R!Mul(H!FH, mode, rs1, rs2).ui
             /\ InHalfRange(H!fdiv_s(mode, x, y).ui) =>
                  H!ut_fdiv_h(mode, rs1, rs2).ui = R!Div(H!FH, mode, rs1, rs2).ui
=============================================================================
