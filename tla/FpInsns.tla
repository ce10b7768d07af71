------------------------------- MODULE FpInsns -------------------------------
(***************************************************************************)
(* The floating point instructions (riscv/insns/f*.h): what each computes  *)
(* from its registers with the library.  An operator returns the value it  *)
(* writes and the flags set_fp_exceptions then ORs into fflags; rm is the  *)
(* mode the macro RM selects.  A register has w64 bits; the library takes  *)
(* float32_t by value, which keeps the low w32 bits of it.                 *)
(***************************************************************************)
EXTENDS SoftFloat

\* RM of decode.h: the field of the instruction, 7 for the dynamic mode in
\* frm; "illegal" when the choice is not a mode.
RM(field, frm) ==
    LET mode == <<"near_even", "minMag", "min", "max", "near_maxMag">>
        n == IF field = 7 THEN frm ELSE field
    IN  IF n > 4 THEN "illegal" ELSE mode[n + 1]

low32(r) == r % 2^F32.w
one(f) == f.bias * 2^f.p
signBit(f, r) == ((r \div 2^(f.w - 1)) % 2) * 2^(f.w - 1)
positiveZero(f, x, y) == 0
\* (x ^ y) & INT_MIN
signOfProduct(f, x, y) == Xor(signBit(f, x) \div 2^(f.w - 1),
                              signBit(f, y) \div 2^(f.w - 1)) * 2^(f.w - 1)
neg32(r) == flipSign(F32, low32(r))
neg64(r) == flipSign(F64, r)

fadd_s(rm, a, b) == f32_mulAdd(rm, low32(a), one(F32), low32(b))
fadd_d(rm, a, b) == f64_mulAdd(rm, a, one(F64), b)
fsub_s(rm, a, b) == f32_mulAdd(rm, low32(a), one(F32), neg32(b))
fsub_d(rm, a, b) == f64_mulAdd(rm, a, one(F64), neg64(b))
fmul_s(rm, a, b) == f32_mulAdd(rm, low32(a), low32(b), signOfProduct(F32, a, b))
fmul_d(rm, a, b) == f64_mulAdd(rm, a, b, signOfProduct(F64, a, b))
fdiv_s(rm, a, b) == f32_div(rm, low32(a), low32(b))
fdiv_d(rm, a, b) == f64_div(rm, a, b)
fsqrt_s(rm, a, est) == f32_sqrt(rm, low32(a), est)
fsqrt_d(rm, a, est) == f64_sqrt(rm, a, est)

fmadd_s(rm, a, b, c)  == f32_mulAdd(rm, low32(a), low32(b), low32(c))
fmadd_d(rm, a, b, c)  == f64_mulAdd(rm, a, b, c)
fmsub_s(rm, a, b, c)  == f32_mulAdd(rm, low32(a), low32(b), neg32(c))
fmsub_d(rm, a, b, c)  == f64_mulAdd(rm, a, b, neg64(c))
fnmadd_s(rm, a, b, c) == f32_mulAdd(rm, neg32(a), low32(b), neg32(c))
fnmadd_d(rm, a, b, c) == f64_mulAdd(rm, neg64(a), b, neg64(c))
fnmsub_s(rm, a, b, c) == f32_mulAdd(rm, neg32(a), low32(b), low32(c))
fnmsub_d(rm, a, b, c) == f64_mulAdd(rm, neg64(a), b, c)

feq_s(a, b) == f32_eq(low32(a), low32(b))
feq_d(a, b) == f64_eq(a, b)
fle_s(a, b) == f32_le(low32(a), low32(b))
fle_d(a, b) == f64_le(a, b)
flt_s(a, b) == f32_lt(low32(a), low32(b))
flt_d(a, b) == f64_lt(a, b)
\* isNaN(b) || test(...) ? a : b, where || skips the test and its flags.
pick(bIsNaN, test, a, b) == IF bIsNaN THEN Result(a, {})
                            ELSE Result(IF test.ui = 1 THEN a ELSE b, test.fl)
fmin_s(a, b) == pick(isNaN(F32, low32(b)), f32_lt_quiet(low32(a), low32(b)), a, b)
fmin_d(a, b) == pick(isNaN(F64, b), f64_lt_quiet(a, b), a, b)
fmax_s(a, b) == pick(isNaN(F32, low32(b)), f32_le_quiet(low32(b), low32(a)), a, b)
fmax_d(a, b) == pick(isNaN(F64, b), f64_le_quiet(b, a), a, b)
fclass_s(a) == f32_classify(low32(a))
fclass_d(a) == f64_classify(a)

\* Sign injection and moves raise nothing.  fsgnj_s and fsgnjn_s clear the
\* high half of the register, fsgnjx_s keeps it.
withSign(f, a, s) == a - signBit(f, a) + s
fsgnj_s(a, b)  == withSign(F32, low32(a), signBit(F32, b))
fsgnj_d(a, b)  == withSign(F64, a, signBit(F64, b))
fsgnjn_s(a, b) == withSign(F32, low32(a), 2^(F32.w - 1) - signBit(F32, b))
fsgnjn_d(a, b) == withSign(F64, a, 2^(F64.w - 1) - signBit(F64, b))
fsgnjx_s(a, b) == withSign(F32, a, signOfProduct(F32, a, b))
fsgnjx_d(a, b) == withSign(F64, a, signOfProduct(F64, a, b))
XPR(z) == z % 2^F64.w
fmv_x_s(a) == XPR(asSigned(F32.w, a))
fmv_x_d(a) == a
fmv_s_x(a) == a
fmv_d_x(a) == a

\* Conversions; the integer register is w64 bits, sext32 of the w32 results.
toRD(res) == Result(XPR(res.ui), res.fl)
toRD32(res) == Result(XPR(asSigned(F32.w, res.ui)), res.fl)
fcvt_w_s(rm, a)  == toRD32(f32_to_i32(rm, low32(a)))
fcvt_w_d(rm, a)  == toRD32(f64_to_i32(rm, a))
fcvt_wu_s(rm, a) == toRD32(f32_to_ui32(rm, low32(a)))
fcvt_wu_d(rm, a) == toRD32(f64_to_ui32(rm, a))
fcvt_l_s(rm, a)  == toRD(f32_to_i64(rm, low32(a)))
fcvt_l_d(rm, a)  == toRD(f64_to_i64(rm, a))
fcvt_lu_s(rm, a) == toRD(f32_to_ui64(rm, low32(a)))
fcvt_lu_d(rm, a) == toRD(f64_to_ui64(rm, a))
fcvt_s_w(rm, x)  == i32_to_f32(rm, asSigned(F32.w, x))
fcvt_d_w(rm, x)  == i32_to_f64(asSigned(F32.w, x))
fcvt_s_wu(rm, x) == ui32_to_f32(rm, low32(x))
fcvt_d_wu(rm, x) == ui32_to_f64(low32(x))
fcvt_s_l(rm, x)  == i64_to_f32(rm, asSigned(F64.w, x))
fcvt_d_l(rm, x)  == i64_to_f64(rm, asSigned(F64.w, x))
fcvt_s_lu(rm, x) == ui64_to_f32(rm, x)
fcvt_d_lu(rm, x) == ui64_to_f64(rm, x)
fcvt_s_d(rm, a)  == f64_to_f32(rm, a)
fcvt_d_s(rm, a)  == f32_to_f64(low32(a))
=============================================================================
