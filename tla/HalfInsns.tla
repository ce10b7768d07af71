------------------------------ MODULE HalfInsns ------------------------------
(***************************************************************************)
(* Half precision in the vector unit: the conversions of hwacha/cvt16.cc   *)
(* and the ut_f*_h instructions, which widen their operands to single      *)
(* precision, compute there and narrow the result.  Narrowing raises no    *)
(* flag of its own.                                                        *)
(***************************************************************************)
EXTENDS FpInsns

CONSTANTS EH, PH        \* exponent and fraction bits of half precision

FH  == Format(EH, PH)
PAD == F32.p - FH.p

\* Reads the low wH bits of its argument.  A denormal is shifted left until
\* its leading bit reaches the place of the hidden one.
cvt_hs(x) ==
    LET h == x % 2^FH.w
        frac == fracUI(FH, h) * 2^PAD
        n == F32.p + 1 - BitLength(frac)
        sign == signUI(FH, h)
    IN  CASE expUI(FH, h) = 0 /\ frac = 0 -> packUI(F32, sign, 0, 0)
          [] expUI(FH, h) = 0 /\ frac # 0 ->
               packUI(F32, sign, F32.bias - (FH.bias - 1) - n, frac * 2^n - 2^F32.p)
          [] expUI(FH, h) = FH.inf ->
               packUI(F32, sign, F32.inf, frac + (IF frac # 0 THEN 2^PAD - 1 ELSE 0))
          [] OTHER -> packUI(F32, sign, expUI(FH, h) + F32.bias - FH.bias, frac)

roundsHalfDown(rm, x) ==
    LET cut == x % 2^PAD
        sign == signUI(F32, x)
    IN  CASE rm = "near_even" -> cut > 2^(PAD - 1)
          [] rm = "max" -> cut # 0 /\ sign = 0
          [] rm = "min" -> cut # 0 /\ sign = 1
          [] OTHER -> FALSE
\* near_maxMag has no case of its own: it truncates.
roundsUp(rm, x) ==
    LET cut == x % 2^PAD
        sign == signUI(F32, x)
    IN  CASE rm = "near_even" -> /\ (x \div 2^(PAD - 1)) % 2 = 1
                                 /\ \/ x % 2^(PAD - 1) # 0
                                    \/ (x \div 2^PAD) % 2 = 1
          [] rm = "max" -> cut # 0 /\ sign = 0
          [] rm = "min" -> cut # 0 /\ sign = 1
          [] OTHER -> FALSE
\* The result of the last case, infinities, NaNs and the largest exponent of
\* single precision, still has its exponent in the place of single precision.
cvt_sh(rm, a) ==
    LET sign == signUI(F32, a) * 2^(FH.w - 1)
        x == IF expUI(F32, a) \notin {0, F32.inf} /\ roundsUp(rm, a)
             THEN a + 2^PAD ELSE a
        frac == fracUI(F32, x) \div 2^PAD
        e == expUI(F32, x) - F32.bias
        least == 1 - FH.bias
    IN  CASE e < least - FH.p -> sign
          [] e \in least - FH.p .. least - 1 -> sign + (frac + 2^FH.p) \div 2^(least - e)
          [] e \in least .. FH.bias -> sign + (e + FH.bias) * 2^FH.p + frac
          [] e \in FH.bias + 1 .. F32.bias - 1 -> sign + FH.inf * 2^FH.p
          [] OTHER -> sign + expUI(F32, x) * 2^F32.p + frac

\* WRITE_HFRD narrows what softfloat returned, with the same mode.
WRITE_HFRD(rm, res) == Result(cvt_sh(rm, res.ui), res.fl)
ut_fadd_h(rm, a, b) == WRITE_HFRD(rm, fadd_s(rm, cvt_hs(a), cvt_hs(b)))
ut_fsub_h(rm, a, b) == WRITE_HFRD(rm, fsub_s(rm, cvt_hs(a), cvt_hs(b)))
ut_fmul_h(rm, a, b) == WRITE_HFRD(rm, fmul_s(rm, cvt_hs(a), cvt_hs(b)))
ut_fdiv_h(rm, a, b) == WRITE_HFRD(rm, fdiv_s(rm, cvt_hs(a), cvt_hs(b)))
ut_fsqrt_h(rm, a, est) == WRITE_HFRD(rm, fsqrt_s(rm, cvt_hs(a), est))
ut_fmadd_h(rm, a, b, c) ==
    WRITE_HFRD(rm, fmadd_s(rm, cvt_hs(a), cvt_hs(b), cvt_hs(c)))
ut_fmsub_h(rm, a, b, c) ==
    WRITE_HFRD(rm, fmsub_s(rm, cvt_hs(a), cvt_hs(b), cvt_hs(c)))
ut_fnmadd_h(rm, a, b, c) ==
    WRITE_HFRD(rm, fnmadd_s(rm, cvt_hs(a), cvt_hs(b), cvt_hs(c)))
ut_fnmsub_h(rm, a, b, c) ==
    WRITE_HFRD(rm, fnmsub_s(rm, cvt_hs(a), cvt_hs(b), cvt_hs(c)))
ut_feq_h(a, b) == feq_s(cvt_hs(a), cvt_hs(b))
ut_fle_h(a, b) == fle_s(cvt_hs(a), cvt_hs(b))
ut_flt_h(a, b) == flt_s(cvt_hs(a), cvt_hs(b))
ut_fmin_h(rm, a, b) == WRITE_HFRD(rm, fmin_s(cvt_hs(a), cvt_hs(b)))
ut_fmax_h(rm, a, b) == WRITE_HFRD(rm, fmax_s(cvt_hs(a), cvt_hs(b)))
\* ut_fsgnjn_h inverts and takes bit w32 - 1, which is not the sign of a half.
ut_fsgnj_h(a, b) == withSign(FH, a, signBit(FH, b))
ut_fsgnjx_h(a, b) == withSign(FH, a, signOfProduct(FH, a, b))
ut_fsgnjn_h(a, b) == fsgnjn_s(a, b)
ut_fmv_h_x(a) == a
ut_fmv_x_h(a) == XPR(asSigned(FH.w, a))

ut_fcvt_s_h(a) == Result(cvt_hs(a), {})
ut_fcvt_h_s(rm, a) == Result(cvt_sh(rm, low32(a)), {})
ut_fcvt_d_h(rm, a) == f32_to_f64(cvt_hs(a))
ut_fcvt_h_d(rm, a) == WRITE_HFRD(rm, f64_to_f32(rm, a))
ut_fcvt_w_h(rm, a)  == fcvt_w_s(rm, cvt_hs(a))
ut_fcvt_wu_h(rm, a) == fcvt_wu_s(rm, cvt_hs(a))
ut_fcvt_l_h(rm, a)  == fcvt_l_s(rm, cvt_hs(a))
ut_fcvt_lu_h(rm, a) == fcvt_lu_s(rm, cvt_hs(a))
ut_fcvt_h_w(rm, x)  == WRITE_HFRD(rm, fcvt_s_w(rm, x))
ut_fcvt_h_wu(rm, x) == WRITE_HFRD(rm, fcvt_s_wu(rm, x))
ut_fcvt_h_l(rm, x)  == WRITE_HFRD(rm, fcvt_s_l(rm, x))
ut_fcvt_h_lu(rm, x) == WRITE_HFRD(rm, fcvt_s_lu(rm, x))
=============================================================================
