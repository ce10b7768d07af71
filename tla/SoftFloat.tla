------------------------------ MODULE SoftFloat ------------------------------
(***************************************************************************)
(* The floating point library (softfloat/) that every floating point       *)
(* instruction calls: IEEE arithmetic on bit patterns with integer code.   *)
(*                                                                         *)
(* The library has the same code twice, for 32 and for 64 bits, with other *)
(* constants.  Here a format is a record and the code is written once over *)
(* it wherever the two texts differ in their constants only; the four      *)
(* operations whose algorithm differs (division, square root, remainder,   *)
(* fused multiply-add) are written twice.  With E32 = 8, P32 = 23, E64 = 11*)
(* and P64 = 52 the derived constants are those of the source; TLC runs    *)
(* the same code on formats of a few bits, where operands can be           *)
(* enumerated.  Words keep their width: what the C code computes modulo    *)
(* 2^32 or 2^64 is computed modulo 2^w here.                               *)
(*                                                                         *)
(* The library's globals become arguments and results: an operator takes   *)
(* softfloat_roundingMode as rm and returns the pattern ui together with   *)
(* the set fl of flags it ORs into softfloat_exceptionFlags.               *)
(***************************************************************************)
EXTENDS Integers

CONSTANTS E32, P32, E64, P64      \* exponent and fraction bits of the formats

\* w: width, x: extra low bits of a significand before it is rounded,
\* inf: the exponent of infinities and NaNs.
Format(e, p) == [e |-> e, p |-> p, w |-> 1 + e + p, x |-> e - 1,
                 bias |-> 2^(e - 1) - 1, inf |-> 2^e - 1]
F32 == Format(E32, P32)
F64 == Format(E64, P64)

\* What the theorems start from, for every n: the laws of the powers of two.
PowerLaws(n) ==
    /\ 2^0 = 1 /\ 2^1 = 2
    /\ \A i, j \in 0 .. n : 2^i \in Nat /\ i < 2^i /\ 2^(i + j) = 2^i * 2^j

RoundingModes == {"near_even", "minMag", "min", "max", "near_maxMag"}
Flags == {"inexact", "underflow", "overflow", "infinity", "invalid"}

Result(ui, fl) == [ui |-> ui, fl |-> fl]
FlagIf(flag, c) == IF c THEN {flag} ELSE {}
Bit(c) == IF c THEN 1 ELSE 0
Xor(s, t) == (s + t) % 2
\* The number of bits of n.
BitLength(n) == IF n = 0 THEN 0
                ELSE CHOOSE k \in 1 .. (IF n \div 2 < 2^30 THEN 31 ELSE n) :
                         2^(k - 1) <= n /\ n \div 2 < 2^(k - 1)
\* How often a loop adds b to the negative r until it is not negative.
Corrections(r, b) == IF r >= 0 THEN 0 ELSE (b - 1 - r) \div b

------------------------------------------------------------------------------
\* Fields of a pattern.
signUI(f, ui) == ui \div 2^(f.w - 1)
expUI(f, ui)  == (ui \div 2^f.p) % 2^f.e
fracUI(f, ui) == ui % 2^f.p
packUI(f, sign, exp, sig) == (sign * 2^(f.w - 1) + exp * 2^f.p + sig) % 2^f.w
flipSign(f, ui) == (ui + 2^(f.w - 1)) % 2^f.w
defaultNaN(f) == 2^f.w - 1
isNaN(f, ui) == 2^f.p * f.inf < ui % 2^(f.w - 1)
isSigNaN(f, ui) == /\ (ui \div 2^(f.p - 1)) % 2^(f.e + 1) = 2 * f.inf
                   /\ ui % 2^(f.p - 1) # 0
propagateNaN(f, a, b) ==
    Result(defaultNaN(f), FlagIf("invalid", isSigNaN(f, a) \/ isSigNaN(f, b)))
invalid(f) == Result(defaultNaN(f), {"invalid"})
propagateNaNF64(a, b) == propagateNaN(F64, a, b)

\* Shifts that OR what falls off the end into the last bit.  The variable
\* shift must not be called with 0: C's a << (-0 & 31) is then a itself.
Jam(z, lost) == IF lost /\ z % 2 = 0 THEN z + 1 ELSE z
shiftRight(w, a, n) == IF n < w THEN a \div 2^n ELSE 0
shiftRightJam(w, a, n) ==
    IF n < w THEN Jam(a \div 2^n, IF n = 0 THEN a # 0 ELSE a % 2^n # 0)
             ELSE Bit(a # 0)
shift64RightJam(a, n) == shiftRightJam(F64.w, a, n)
shift128RightJam(a, n) == shiftRightJam(2 * F64.w, a, n)
shortShiftRightJam(a, n) == Jam(a \div 2^n, a % 2^n # 0)
shortShift32Right1Jam(a) == Jam(a \div 2, a % 2 # 0)
\* <<value, extra word>>; extra is the fraction, the last bit of it sticky.
shift64ExtraRightJam(a, n) ==
    LET w == F64.w IN
    IF n < w THEN <<a \div 2^n, IF n = 0 THEN a ELSE (a % 2^n) * 2^(w - n)>>
             ELSE <<0, IF n = w THEN a ELSE Bit(a # 0)>>
countLeadingZeros(w, a) == w - BitLength(a)
countLeadingZeros64(a) == countLeadingZeros(F64.w, a)

------------------------------------------------------------------------------
\* Rounding and packing.
roundIncrement(x, rm, sign) ==
    CASE rm \in {"near_even", "near_maxMag"} -> 2^(x - 1)
      [] rm \in {"minMag", IF sign = 1 THEN "max" ELSE "min"} -> 0
      [] OTHER -> 2^x - 1
\* sig &= ~(!(roundBits ^ half) & roundNearestEven)
clearTie(z, roundBits, half, rm) ==
    IF roundBits = half /\ rm = "near_even" /\ z % 2 = 1 THEN z - 1 ELSE z

detectTininess == "beforeRounding"

roundPack(f, rm, sign, exp, sig) ==
    LET inc == roundIncrement(f.x, rm, sign)
        pack(e, s, fl) ==
            LET roundBits == s % 2^f.x
                z == clearTie((s + inc) \div 2^f.x, roundBits, 2^(f.x - 1), rm)
            IN  Result(packUI(f, sign, IF z = 0 THEN 0 ELSE e, z),
                       fl \cup FlagIf("inexact", roundBits # 0))
        isTiny == \/ detectTininess = "beforeRounding"
                  \/ exp < -1
                  \/ sig + inc < 2^(f.w - 1)
    IN  CASE exp < 0 ->
               LET s == shiftRightJam(f.w, sig, -exp)
               IN  pack(0, s, FlagIf("underflow", isTiny /\ s % 2^f.x # 0))
          [] \/ exp > f.inf - 2
             \/ exp = f.inf - 2 /\ sig + inc >= 2^(f.w - 1) ->
               Result(packUI(f, sign, f.inf, 0) - Bit(inc = 0),
                      {"overflow", "inexact"})
          [] OTHER -> pack(exp, sig, {})
roundPackToF64(rm, sign, exp, sig) == roundPack(F64, rm, sign, exp, sig)

normRoundPack(f, rm, sign, exp, sig) ==
    LET n == countLeadingZeros(f.w, sig) - 1
        e == exp - n
    IN  IF f.x <= n /\ e \in 0 .. f.inf - 3
        THEN Result(packUI(f, sign, IF sig = 0 THEN 0 ELSE e, sig * 2^(n - f.x)), {})
        ELSE roundPack(f, rm, sign, e, sig * 2^n)
normRoundPackToF64(rm, sign, exp, sig) == normRoundPack(F64, rm, sign, exp, sig)

normSubnormalSig(f, sig) ==
    LET n == countLeadingZeros(f.w, sig) - f.e
    IN  [exp |-> 1 - n, sig |-> sig * 2^n]
\* A finite, nonzero operand with its hidden bit, a subnormal one normalized.
operand(f, ui) ==
    IF expUI(f, ui) = 0 THEN normSubnormalSig(f, fracUI(f, ui))
    ELSE [exp |-> expUI(f, ui), sig |-> fracUI(f, ui) + 2^f.p]
isZero(f, ui) == ui % 2^(f.w - 1) = 0
isInf(f, ui) == ui % 2^(f.w - 1) = f.inf * 2^f.p
infinity(f, sign) == Result(packUI(f, sign, f.inf, 0), {})
zero(f, sign) == Result(packUI(f, sign, 0, 0), {})

------------------------------------------------------------------------------
\* Addition and subtraction of magnitudes.  The signs of the patterns are
\* ignored except where a pattern is returned as it is.
addMags(f, rm, a, b, signZ) ==
    LET expA == expUI(f, a)
        expB == expUI(f, b)
        sigA == fracUI(f, a) * 2^(f.x - 1)
        sigB == fracUI(f, b) * 2^(f.x - 1)
        d    == expA - expB
        one  == 2^(f.w - 3)
        align(exp, sig, n) ==
            shiftRightJam(f.w, sig + (IF exp # 0 THEN one ELSE sig), n)
        finish(exp, sig) == IF sig < 2 * one
                            THEN roundPack(f, rm, signZ, exp - 1, 2 * sig)
                            ELSE roundPack(f, rm, signZ, exp, sig)
    IN  CASE d = 0 /\ expA = f.inf -> IF sigA # 0 \/ sigB # 0
                                      THEN propagateNaN(f, a, b) ELSE Result(a, {})
          [] d = 0 /\ expA = 0 ->
               Result(packUI(f, signZ, 0, (a + b) % 2^(f.w - 1)), {})
          [] d = 0 /\ expA \notin {0, f.inf} ->
               roundPack(f, rm, signZ, expA, 2 * one + sigA + sigB)
          [] d < 0 /\ expB = f.inf -> IF sigB # 0 THEN propagateNaN(f, a, b)
                                                  ELSE infinity(f, signZ)
          [] d < 0 /\ expB # f.inf ->
               finish(expB, one + align(expA, sigA, -d) + sigB)
          [] d > 0 /\ expA = f.inf -> IF sigA # 0 THEN propagateNaN(f, a, b)
                                                  ELSE Result(a, {})
          [] d > 0 /\ expA # f.inf ->
               finish(expA, one + sigA + align(expB, sigB, d))

subMags(f, rm, a, b, signZ) ==
    LET expA == expUI(f, a)
        expB == expUI(f, b)
        sigA == fracUI(f, a) * 2^f.x
        sigB == fracUI(f, b) * 2^f.x
        d    == expA - expB
        one  == 2^(f.w - 2)
        align(exp, sig, n) ==
            shiftRightJam(f.w, sig + (IF exp # 0 THEN one ELSE sig), n)
        aBigger(exp, sig) == normRoundPack(f, rm, signZ, exp - 1, sig)
        bBigger(exp, sig) == normRoundPack(f, rm, 1 - signZ, exp - 1, sig)
        exp1 == IF expA = 0 THEN 1 ELSE expA
    IN  CASE d > 0 /\ expA = f.inf -> IF sigA # 0 THEN propagateNaN(f, a, b)
                                                  ELSE Result(a, {})
          [] d > 0 /\ expA # f.inf ->
               aBigger(expA, sigA + one - align(expB, sigB, d))
          [] d < 0 /\ expB = f.inf -> IF sigB # 0 THEN propagateNaN(f, a, b)
                                                  ELSE infinity(f, 1 - signZ)
          [] d < 0 /\ expB # f.inf ->
               bBigger(expB, sigB + one - align(expA, sigA, -d))
          [] d = 0 /\ expA = f.inf -> IF sigA # 0 \/ sigB # 0
                                      THEN propagateNaN(f, a, b) ELSE invalid(f)
          [] d = 0 /\ expA # f.inf ->
               CASE sigB < sigA -> aBigger(exp1, sigA - sigB)
                 [] sigA < sigB -> bBigger(exp1, sigB - sigA)
                 [] sigA = sigB -> zero(f, Bit(rm = "min"))

add(f, rm, a, b) == IF signUI(f, a) = signUI(f, b)
                    THEN addMags(f, rm, a, b, signUI(f, a))
                    ELSE subMags(f, rm, a, b, signUI(f, a))
sub(f, rm, a, b) == IF signUI(f, a) = signUI(f, b)
                    THEN subMags(f, rm, a, flipSign(f, b), signUI(f, a))
                    ELSE addMags(f, rm, a, flipSign(f, b), signUI(f, a))
addMagsF64(rm, a, b, signZ) == addMags(F64, rm, a, b, signZ)
subMagsF64(rm, a, b, signZ) == subMags(F64, rm, a, b, signZ)
f32_add(rm, a, b) == add(F32, rm, a, b)
f32_sub(rm, a, b) == sub(F32, rm, a, b)
f64_add(rm, a, b) == IF signUI(F64, a) = signUI(F64, b)
                     THEN addMagsF64(rm, a, b, signUI(F64, a))
                     ELSE subMagsF64(rm, a, b, signUI(F64, a))
f64_sub(rm, a, b) == IF signUI(F64, a) = signUI(F64, b)
                     THEN subMagsF64(rm, a, flipSign(F64, b), signUI(F64, a))
                     ELSE addMagsF64(rm, a, flipSign(F64, b), signUI(F64, a))

------------------------------------------------------------------------------
\* Multiplication.
mul(f, rm, a, b) ==
    LET signZ == Xor(signUI(f, a), signUI(f, b))
        A == operand(f, a)
        B == operand(f, b)
        expZ == A.exp + B.exp - f.bias
        sigZ == shortShiftRightJam(A.sig * 2^f.x * B.sig * 2^(f.x + 1), f.w)
    IN  CASE isNaN(f, a) \/ isNaN(f, b) -> propagateNaN(f, a, b)
          [] isInf(f, a) /\ ~ isNaN(f, b) ->
               IF isZero(f, b) THEN invalid(f) ELSE infinity(f, signZ)
          [] isInf(f, b) /\ ~ isInf(f, a) /\ ~ isNaN(f, a) ->
               IF isZero(f, a) THEN invalid(f) ELSE infinity(f, signZ)
          [] OTHER ->
               IF isZero(f, a) \/ isZero(f, b) THEN zero(f, signZ)
               ELSE IF sigZ < 2^(f.w - 2)
                    THEN roundPack(f, rm, signZ, expZ - 1, 2 * sigZ)
                    ELSE roundPack(f, rm, signZ, expZ, sigZ)
f32_mul(rm, a, b) == mul(F32, rm, a, b)
f64_mul(rm, a, b) == mul(F64, rm, a, b)

\* Division.  softfloat_estimateDiv128To64 on words of n bits: schoolbook
\* division by half words, at most 2 above the quotient.
estimateDiv(n, a64, a0, b) ==
    IF b <= a64 THEN 2^n - 1
    ELSE LET half  == 2^(n \div 2)
             b32   == b \div half
             z0    == IF b32 * half <= a64 THEN 2^n - half
                                           ELSE (a64 \div b32) * half
             rem0  == a64 * 2^n + a0 - b * z0
             k     == Corrections(rem0, b * half)
             rem32 == ((rem0 + k * b * half) \div half) % 2^n
         IN  z0 - k * half
               + (IF b32 * half <= rem32 THEN half - 1 ELSE rem32 \div b32)

\* The quotient of sigA << w by sigB with its last bit sticky, as f32_div and
\* as f64_div compute it.
quotientF32(sigA, sigB) ==
    LET q == (sigA * 2^F32.w) \div sigB
    IN  IF q % 2^(F32.x - 1) = 0 THEN Jam(q, sigB * q # sigA * 2^F32.w) ELSE q
quotientF64(sigA, sigB) ==
    LET q   == estimateDiv(F64.w, sigA, 0, sigB)
        rem == sigA * 2^F64.w - sigB * q
        k   == Corrections(rem, sigB)
    IN  IF q % 2^(F64.x - 1) <= 2
        THEN Jam(q - k, (rem + k * sigB) % 2^F64.w # 0) ELSE q

div(f, rm, a, b, quotient(_, _)) ==
    LET signZ == Xor(signUI(f, a), signUI(f, b))
        A == operand(f, a)
        B == operand(f, b)
        sigA == A.sig * 2^f.x
        sigB == B.sig * 2^(f.x + 1)
        expZ == A.exp - B.exp + f.bias - 2
    IN  CASE isNaN(f, a) \/ isNaN(f, b) -> propagateNaN(f, a, b)
          [] isInf(f, a) /\ ~ isNaN(f, b) ->
               IF isInf(f, b) THEN invalid(f) ELSE infinity(f, signZ)
          [] isInf(f, b) /\ ~ isInf(f, a) /\ ~ isNaN(f, a) -> zero(f, signZ)
          [] OTHER ->
               IF isZero(f, b)
               THEN IF isZero(f, a) THEN invalid(f)
                    ELSE Result(packUI(f, signZ, f.inf, 0), {"infinity"})
               ELSE IF isZero(f, a) THEN zero(f, signZ)
               ELSE IF sigB <= 2 * sigA
               THEN roundPack(f, rm, signZ, expZ + 1, quotient(sigA \div 2, sigB))
               ELSE roundPack(f, rm, signZ, expZ, quotient(sigA, sigB))
f32_div(rm, a, b) == div(F32, rm, a, b, quotientF32)
f64_div(rm, a, b) == div(F64, rm, a, b, quotientF64)

------------------------------------------------------------------------------
\* Fused multiply-add: a * b + c (op 0 of softfloat_mulAdd, the one that is
\* called).  mulAddSpecial handles infinities, NaNs and zero products,
\* sum(A, B, C, ...) is the arithmetic of the format.
mulAddSpecial(f, rm, a, b, c) ==
    LET signProd == Xor(signUI(f, a), signUI(f, b))
        infProd  == isInf(f, a) \/ isInf(f, b)
        zeroProd == isZero(f, a) \/ isZero(f, b)
        thenC(z, fl) == Result(defaultNaN(f), fl \cup propagateNaN(f, z, c).fl)
    IN  CASE isNaN(f, a) \/ isNaN(f, b) ->
               thenC(defaultNaN(f), propagateNaN(f, a, b).fl)
          [] infProd /\ zeroProd /\ ~ isNaN(f, a) /\ ~ isNaN(f, b) ->
               thenC(defaultNaN(f), {"invalid"})
          [] infProd /\ ~ zeroProd /\ ~ isNaN(f, a) /\ ~ isNaN(f, b) ->
               CASE isNaN(f, c) -> thenC(0, {})
                 [] isInf(f, c) /\ signProd # signUI(f, c) ->
                      thenC(defaultNaN(f), {"invalid"})
                 [] OTHER -> infinity(f, signProd)
          [] OTHER ->
               CASE isNaN(f, c) -> thenC(0, {})
                 [] isInf(f, c) -> Result(c, {})
                 [] OTHER -> IF isZero(f, c) /\ signProd # signUI(f, c)
                             THEN zero(f, Bit(rm = "min")) ELSE Result(c, {})
isFiniteNonzero(f, ui) == expUI(f, ui) # f.inf /\ ~ isZero(f, ui)

\* The product as a number of 2w bits with its leading bit at 2w - 3, and its
\* exponent.
product(f, a, b) ==
    LET A == operand(f, a)
        B == operand(f, b)
        sigProd == A.sig * 2^f.x * B.sig * 2^f.x
        expProd == A.exp + B.exp - f.bias + 1
    IN  IF sigProd < 2^(2 * f.w - 3)
        THEN [exp |-> expProd - 1, sig |-> 2 * sigProd]
        ELSE [exp |-> expProd, sig |-> sigProd]

mulAddF32(rm, a, b, c) ==
    LET f == F32
        signProd == Xor(signUI(f, a), signUI(f, b))
        signC == signUI(f, c)
        Prod  == product(f, a, b)
        C     == operand(f, c)
        sigC  == C.sig * 2^(f.x - 1)
        sigC64 == sigC * 2^f.w
        d     == Prod.exp - C.exp
        sum(exp, sig) == IF sig < 2^(f.w - 2)
                         THEN roundPack(f, rm, signProd, exp - 1, 2 * sig)
                         ELSE roundPack(f, rm, signProd, exp, sig)
        difference(sign, exp, sig) ==
            LET n == countLeadingZeros(2 * f.w, sig) - 1
            IN  roundPack(f, rm, sign, exp - n,
                          IF n < f.w THEN shortShiftRightJam(sig, f.w - n)
                                     ELSE sig * 2^(n - f.w))
    IN  CASE ~ (isFiniteNonzero(f, a) /\ isFiniteNonzero(f, b)) \/ expUI(f, c) = f.inf ->
               mulAddSpecial(f, rm, a, b, c)
          [] isZero(f, c) /\ isFiniteNonzero(f, a) /\ isFiniteNonzero(f, b) ->
               roundPack(f, rm, signProd, Prod.exp - 1,
                         shortShiftRightJam(Prod.sig, f.w - 1))
          [] OTHER ->
               IF signProd = signC
               THEN IF d <= 0
                    THEN sum(C.exp, sigC + shiftRightJam(2 * f.w, Prod.sig, f.w - d))
                    ELSE sum(Prod.exp, shortShiftRightJam(
                           Prod.sig + shiftRightJam(2 * f.w, sigC64, d), f.w))
               ELSE IF d < 0
                    THEN difference(signC, C.exp,
                                    sigC64 - shiftRightJam(2 * f.w, Prod.sig, -d))
               ELSE IF d > 0
                    THEN difference(signProd, Prod.exp,
                                    Prod.sig - shiftRightJam(2 * f.w, sigC64, d))
               ELSE IF Prod.sig = sigC64 THEN zero(f, Bit(rm = "min"))
               ELSE IF Prod.sig < sigC64
                    THEN difference(signC, Prod.exp, sigC64 - Prod.sig)
                    ELSE difference(signProd, Prod.exp, Prod.sig - sigC64)

\* The 64-bit version keeps the product in two words v64 and v0, and folds v0
\* into the last bit as soon as it can.
mulAddF64(rm, a, b, c) ==
    LET f == F64
        signProd == Xor(signUI(f, a), signUI(f, b))
        signC == signUI(f, c)
        Prod  == product(f, a, b)
        C     == operand(f, c)
        sigC  == C.sig * 2^(f.x - 1)
        sigC128 == sigC * 2^f.w
        d     == Prod.exp - C.exp
        v64(sig) == sig \div 2^f.w
        v0(sig)  == sig % 2^f.w
        sum(exp, sig) == IF sig < 2^(f.w - 2)
                         THEN roundPackToF64(rm, signProd, exp - 1, 2 * sig)
                         ELSE roundPackToF64(rm, signProd, exp, sig)
        difference(sign, exp, sig) ==
            LET low == v64(sig) = 0
                z   == IF low THEN sig * 2^f.w ELSE sig
                n   == countLeadingZeros64(v64(z)) - 1
                e   == exp - (IF low THEN f.w ELSE 0) - n
            IN  roundPackToF64(rm, sign, e,
                   IF n < 0 THEN Jam(shortShiftRightJam(v64(z), 1), v0(z) # 0)
                            ELSE Jam(v64(z * 2^n), v0(z * 2^n) # 0))
    IN  CASE ~ (isFiniteNonzero(f, a) /\ isFiniteNonzero(f, b)) \/ expUI(f, c) = f.inf ->
               mulAddSpecial(f, rm, a, b, c)
          [] isZero(f, c) /\ isFiniteNonzero(f, a) /\ isFiniteNonzero(f, b) ->
               roundPackToF64(rm, signProd, Prod.exp - 1,
                              Jam(2 * v64(Prod.sig), v0(Prod.sig) # 0))
          [] OTHER ->
               IF signProd = signC
               THEN IF d <= 0
                    THEN sum(C.exp, Jam(sigC + (IF d = 0 THEN v64(Prod.sig)
                                                ELSE shift64RightJam(v64(Prod.sig), -d)),
                                        v0(Prod.sig) # 0))
                    ELSE LET z == Prod.sig + shift128RightJam(sigC128, d)
                         IN  sum(Prod.exp, Jam(v64(z), v0(z) # 0))
               ELSE IF d < 0
                    THEN difference(signC, C.exp, sigC128 - shift128RightJam(Prod.sig, -d))
               ELSE IF d > 0
                    THEN difference(signProd, Prod.exp,
                                    Prod.sig - shift128RightJam(sigC128, d))
               ELSE IF Prod.sig = sigC128 THEN zero(f, Bit(rm = "min"))
               ELSE IF Prod.sig < sigC128
                    THEN difference(signC, Prod.exp, sigC128 - Prod.sig)
                    ELSE difference(signProd, Prod.exp, Prod.sig - sigC128)
f32_mulAdd(rm, a, b, c) == mulAddF32(rm, a, b, c)
f64_mulAdd(rm, a, b, c) == mulAddF64(rm, a, b, c)

------------------------------------------------------------------------------
\* Square root.  softfloat_estimateSqrt32 reads its estimate from tables for
\* 32-bit words.  It is represented by the words between root - 3/2 and
\* root + 1/5, where the estimates of the tables lie for every argument;
\* primitives.h promises only root - 2 to root + 2, which is not enough for
\* f64_sqrt.  The estimate is an argument of the operators below.
IntegerSqrt(n) ==
    LET root[k \in Nat] ==
            IF k = 0 THEN 0
            ELSE LET r == root[k - 1]
                     z == r + 2^(15 - k)
                 IN  IF z * z <= n THEN z ELSE r
    IN  root[15]
estimateSqrt(n, exp, a) ==
    LET square == a * 2^(IF exp % 2 = 1 THEN n - 1 ELSE n)
        r == IntegerSqrt(square)
    IN  {z \in (r - 1) .. (r + 1) : /\ z \in 0 .. 2^n - 1
                                    /\ 4 * square < (2 * z + 3) * (2 * z + 3)
                                    /\ (5 * z - 1) * (5 * z - 1) < 25 * square}
\* Decrements z until square - z * z is not negative; each turn adds step(z)
\* to the difference.  <<z, remainder>>.
rootDown(z, rem, step(_)) ==
    LET down[k \in Nat] ==
            IF k = 0 THEN <<z, rem>>
            ELSE LET y == down[k - 1]
                 IN  IF y[2] >= 0 THEN y ELSE <<y[1] - 1, y[2] + step(y[1] - 1)>>
    IN  down[8]

sqrtOf(f, a, root(_)) ==
    CASE isNaN(f, a) -> propagateNaN(f, a, 0)
      [] isZero(f, a) -> Result(a, {})
      [] ~ isNaN(f, a) /\ ~ isZero(f, a) /\ signUI(f, a) = 1 -> invalid(f)
      [] isInf(f, a) /\ signUI(f, a) = 0 -> Result(a, {})
      [] OTHER -> root(operand(f, a))
sqrtExp(f, exp) == ((exp - f.bias) \div 2) + f.bias - 1

f32_sqrt(rm, a, est) ==
    LET f == F32
        root(A) ==
            LET sigZ == (est + 2) % 2^f.w
                sigA == (A.sig * 2^(f.x + 1)) \div 2^(A.exp % 2)
                near == rootDown(sigZ, sigA * 2^f.w - sigZ * sigZ,
                                 LAMBDA z : 2 * z + 1)
                jammed == CASE sigZ % 2^f.x > 5 -> shortShift32Right1Jam(sigZ)
                            [] sigZ % 2^f.x <= 5 /\ sigZ < 2 -> 2^(f.w - 1) - 1
                            [] sigZ % 2^f.x <= 5 /\ sigZ >= 2 ->
                                 shortShift32Right1Jam(Jam(near[1], near[2] # 0))
            IN  roundPack(f, rm, 0, sqrtExp(f, A.exp), jammed)
    IN  sqrtOf(f, a, root)
f32_sqrtEstimates(a) == LET A == operand(F32, a)
                        IN  estimateSqrt(F32.w, A.exp, A.sig * 2^(F32.x + 1))

f64_sqrt(rm, a, est) ==
    LET f == F64
        h == f.w \div 2
        root(A) ==
            LET sigA == A.sig * 2^(f.x - 1 - (A.exp % 2))
                sigZ == (estimateDiv(f.w, sigA, 0, est * 2^h) + est * 2^(h - 2)) % 2^f.w
                near == rootDown(sigZ, sigA * 2^f.w - sigZ * sigZ, LAMBDA z : 2 * z)
            IN  roundPackToF64(rm, 0, sqrtExp(f, A.exp),
                   IF sigZ % 2^(f.x - 1) <= 5 THEN Jam(near[1], near[2] # 0)
                                              ELSE sigZ)
    IN  sqrtOf(f, a, root)
f64_sqrtEstimates(a) ==
    LET A == operand(F64, a)
        h == F64.w \div 2
    IN  estimateSqrt(h, A.exp, A.sig \div 2^(F64.p + 1 - h))

------------------------------------------------------------------------------
\* Remainder.  remFinish subtracts sigB until the difference is negative modulo
\* 2^m (m is the width uint_fast32_t and uint_fast64_t have), and picks the
\* nearer of the last two differences, the one with an even quotient on a tie.
remFinish(f, m, rm, sign, exp, sigA, sigB, q) ==
    LET top  == 2^(f.w - 1)
        next == (sigA - sigB) % 2^m
        k    == IF next < top THEN next \div sigB + 2 ELSE 1
        alt  == (sigA - (k - 1) * sigB) % 2^m
        low  == (sigA - k * sigB) % 2^m
        mean == (low + alt) % 2^f.w
        z    == IF top <= mean \/ (mean = 0 /\ (q + k) % 2 = 1) THEN alt ELSE low
    IN  IF top <= z THEN normRoundPack(f, rm, 1 - sign, exp, (-z) % 2^m)
                    ELSE normRoundPack(f, rm, sign, exp, z)
remSpecial(f, a, b) ==
    CASE isNaN(f, a) \/ isNaN(f, b) -> propagateNaN(f, a, b)
      [] ~ isNaN(f, a) /\ ~ isNaN(f, b) ->
           IF isInf(f, a) \/ isZero(f, b) THEN invalid(f) ELSE Result(a, {})
remIsSpecial(f, a, b) == ~ isFiniteNonzero(f, a) \/ ~ isFiniteNonzero(f, b)
estimateHigh(n, a, b) == estimateDiv(n, a, 0, b)
estimateLow(n, a, b) == LET q == estimateDiv(n, a, 0, b) IN IF 2 < q THEN q - 2 ELSE 0

f32_rem(rm, a, b) ==
    LET f == F32
        D == 2 * f.w
        A == operand(f, a)
        B == operand(f, b)
        d == A.exp - B.exp
        finish(sigA, sigB, q) ==
            remFinish(f, D, rm, signUI(f, a), B.exp, sigA % 2^D, sigB, q)
        near == LET sigB == B.sig * 2^(f.x + 1)
                    sigA0 == (A.sig * 2^(f.x + 1)) \div (IF d < 0 THEN 2 ELSE 1)
                    q0   == Bit(sigB <= sigA0)
                    sigA == sigA0 - q0 * sigB
                    q    == ((sigA * 2^f.w) \div sigB) \div 2^(f.w - d)
                IN  IF 0 < d
                    THEN finish((sigA \div 2) * 2^(d - 1) - (sigB \div 4) * q,
                                sigB \div 4, q)
                    ELSE finish(sigA \div 4, sigB \div 4, q0)
        up   == D - (f.p + 1)
        far[e \in Int, sigA64 \in Nat] ==
            LET q64 == estimateLow(D, sigA64, B.sig * 2^up)
                q   == q64 \div 2^(-e)
            IN  IF 0 < e
                THEN far[e - (D - 2), (-((B.sig * q64) * 2^(up - 2))) % 2^D]
                ELSE finish((sigA64 \div 2^(f.w + 1)) * 2^(e + D - 1)
                              - B.sig * 2^(f.x - 1) * q,
                            B.sig * 2^(f.x - 1), q)
    IN  CASE remIsSpecial(f, a, b) -> remSpecial(f, a, b)
          [] ~ remIsSpecial(f, a, b) /\ d < -1 -> Result(a, {})
          [] ~ remIsSpecial(f, a, b) /\ d \in -1 .. f.w - 1 -> near
          [] ~ remIsSpecial(f, a, b) /\ d >= f.w ->
               far[d - D, (IF B.sig <= A.sig THEN A.sig - B.sig ELSE A.sig) * 2^up]

f64_rem(rm, a, b) ==
    LET f == F64
        A == operand(f, a)
        B == operand(f, b)
        d == A.exp - B.exp
        sigB  == B.sig * 2^(f.x + 1)
        sigA0 == (A.sig * 2^(f.x + 1)) \div (IF d < 0 THEN 2 ELSE 1)
        q0    == Bit(sigB <= sigA0)
        finish(sigA, q) == remFinish(f, f.w, rm, signUI(f, a), B.exp,
                                     sigA % 2^f.w, sigB \div 4, q)
        loop[e \in Int, sigA \in Nat] ==
            LET q64 == estimateLow(f.w, sigA, sigB)
                q   == q64 \div 2^(-e)
            IN  IF 0 < e
                THEN loop[e - (f.w - 2), (-((sigB \div 4) * q64)) % 2^f.w]
                ELSE IF 0 < e + f.w
                THEN finish((sigA \div 2) * 2^(e + f.w - 1) - (sigB \div 4) * q, q)
                ELSE finish(sigA \div 4, q0)
    IN  CASE remIsSpecial(f, a, b) -> remSpecial(f, a, b)
          [] ~ remIsSpecial(f, a, b) /\ d < -1 -> Result(a, {})
          [] ~ remIsSpecial(f, a, b) /\ d >= -1 -> loop[d - f.w, sigA0 - q0 * sigB]

------------------------------------------------------------------------------
\* Comparisons.  ui is the truth value; a NaN operand makes it 0 and raises
\* invalid, in the quiet ones only when it is signaling.
anyNaN(f, a, b) == isNaN(f, a) \/ isNaN(f, b)
unorderedOr(f, a, b, quiet, holds) ==
    IF anyNaN(f, a, b)
    THEN Result(0, FlagIf("invalid", ~ quiet \/ isSigNaN(f, a) \/ isSigNaN(f, b)))
    ELSE Result(Bit(holds), {})
bothZero(f, a, b) == isZero(f, a) /\ isZero(f, b)
eqUI(f, a, b) == a = b \/ bothZero(f, a, b)
leUI(f, a, b) == IF signUI(f, a) # signUI(f, b)
                 THEN signUI(f, a) = 1 \/ bothZero(f, a, b)
                 ELSE a = b \/ (signUI(f, a) = 1) # (a < b)
ltWord(f, a, b) == IF signUI(f, a) # signUI(f, b)
                   THEN signUI(f, a) = 1 /\ ~ bothZero(f, a, b)
                   ELSE a < b
ltUI(f, a, b) == IF signUI(f, a) # signUI(f, b)
                 THEN signUI(f, a) = 1 /\ ~ bothZero(f, a, b)
                 ELSE a # b /\ (signUI(f, a) = 1) # (a < b)
f32_eq(a, b)           == unorderedOr(F32, a, b, TRUE, eqUI(F32, a, b))
f32_eq_signaling(a, b) == unorderedOr(F32, a, b, FALSE, eqUI(F32, a, b))
f32_le(a, b)           == unorderedOr(F32, a, b, FALSE, leUI(F32, a, b))
f32_le_quiet(a, b)     == unorderedOr(F32, a, b, TRUE, leUI(F32, a, b))
f32_lt(a, b)           == unorderedOr(F32, a, b, FALSE, ltUI(F32, a, b))
f32_lt_quiet(a, b)     == unorderedOr(F32, a, b, TRUE, ltUI(F32, a, b))
f64_eq(a, b)           == unorderedOr(F64, a, b, TRUE, eqUI(F64, a, b))
f64_eq_signaling(a, b) == unorderedOr(F64, a, b, FALSE, eqUI(F64, a, b))
f64_le(a, b)           == unorderedOr(F64, a, b, FALSE, leUI(F64, a, b))
f64_le_quiet(a, b)     == unorderedOr(F64, a, b, TRUE, leUI(F64, a, b))
f64_lt(a, b)           == unorderedOr(F64, a, b, FALSE, ltUI(F64, a, b))
f64_lt_quiet(a, b)     == unorderedOr(F64, a, b, TRUE, ltUI(F64, a, b))

\* The set of bits that are set in the class mask.
classify(f, a) ==
    LET neg == signUI(f, a) = 1
        top == expUI(f, a) = f.inf
        low == expUI(f, a) = 0
        f0  == fracUI(f, a) = 0
    IN  {k \in 0 .. 9 : \/ k = 0 /\ neg /\ top /\ f0
                        \/ k = 1 /\ neg /\ ~ top /\ ~ low
                        \/ k = 2 /\ neg /\ low /\ ~ f0
                        \/ k = 3 /\ neg /\ low /\ f0
                        \/ k = 4 /\ ~ neg /\ low /\ f0
                        \/ k = 5 /\ ~ neg /\ low /\ ~ f0
                        \/ k = 6 /\ ~ neg /\ ~ top /\ ~ low
                        \/ k = 7 /\ ~ neg /\ top /\ f0
                        \/ k = 8 /\ isNaN(f, a) /\ isSigNaN(f, a)
                        \/ k = 9 /\ isNaN(f, a) /\ ~ isSigNaN(f, a)}
f32_classify(a) == classify(F32, a)
f64_classify(a) == classify(F64, a)

------------------------------------------------------------------------------
\* Conversions between the formats, and to an integral value.
toCommonNaN(f, ui) == [sign |-> signUI(f, ui), fl |-> FlagIf("invalid", isSigNaN(f, ui))]
fromCommonNaN(f, nan) == Result(nan.sign * 2^(f.w - 1) + 2^(f.w - 1) - 1, nan.fl)
f32_to_f64(a) ==
    LET n == normSubnormalSig(F32, fracUI(F32, a))
        exp == IF expUI(F32, a) = 0 THEN n.exp - 1 ELSE expUI(F32, a)
        sig == IF expUI(F32, a) = 0 THEN n.sig ELSE fracUI(F32, a)
        sign == signUI(F32, a)
    IN  CASE isNaN(F32, a) -> fromCommonNaN(F64, toCommonNaN(F32, a))
          [] isInf(F32, a) -> infinity(F64, sign)
          [] isZero(F32, a) -> zero(F64, sign)
          [] OTHER -> Result(packUI(F64, sign, exp + F64.bias - F32.bias,
                                    sig * 2^(F64.p - F32.p)), {})
f64_to_f32(rm, a) ==
    LET sign == signUI(F64, a)
        exp  == expUI(F64, a)
        sig32 == shortShiftRightJam(fracUI(F64, a), F64.p - (F32.w - 2))
    IN  CASE isNaN(F64, a) -> fromCommonNaN(F32, toCommonNaN(F64, a))
          [] isInf(F64, a) -> infinity(F32, sign)
          [] exp = 0 /\ sig32 = 0 -> zero(F32, sign)
          [] OTHER -> roundPack(F32, rm, sign, exp - (F64.bias - F32.bias + 1),
                                sig32 + 2^(F32.w - 2))

roundToInt(f, rm, a) ==
    LET exp  == expUI(f, a)
        sign == signUI(f, a)
        one  == packUI(f, sign, f.bias, 0)
        last == 2^(f.bias + f.p - exp)
        z1   == a + last \div 2
        z    == CASE rm = "near_maxMag" -> z1
                  [] rm = "near_even" ->
                       IF z1 % last = 0 /\ (z1 \div last) % 2 = 1 THEN z1 - last ELSE z1
                  [] rm = "minMag" -> a
                  [] rm = "max" -> IF sign = 0 THEN a + last - 1 ELSE a
                  [] rm = "min" -> IF sign = 1 THEN a + last - 1 ELSE a
        cut  == (z \div last) * last
        below == CASE rm = "near_even" /\ exp = f.bias - 1 /\ fracUI(f, a) # 0 -> one
                   [] rm = "near_maxMag" /\ exp = f.bias - 1 -> one
                   [] rm = "min" /\ sign = 1 -> one
                   [] rm = "max" /\ sign = 0 -> one
                   [] OTHER -> packUI(f, sign, 0, 0)
    IN  CASE exp >= f.bias + f.p -> IF isNaN(f, a) THEN propagateNaN(f, a, 0)
                                                   ELSE Result(a, {})
          [] exp <= f.bias - 1 -> IF isZero(f, a) THEN Result(a, {})
                                                  ELSE Result(below, {"inexact"})
          [] OTHER -> Result(cut, FlagIf("inexact", cut # a))
f32_roundToInt(rm, a) == roundToInt(F32, rm, a)
f64_roundToInt(rm, a) == roundToInt(F64, rm, a)

------------------------------------------------------------------------------
\* Conversions to integers of w32 and w64 bits (ui is then the integer, signed
\* or not).  exact is true in every call.
maxInt(w) == 2^(w - 1) - 1
minInt(w) == -(2^(w - 1))
asSigned(w, z) == IF z % 2^w > maxInt(w) THEN (z % 2^w) - 2^w ELSE z % 2^w
overflowI(w, negative) == Result(IF negative THEN minInt(w) ELSE maxInt(w), {"invalid"})
overflowUI(w) == Result(2^w - 1, {"invalid"})
signUnchecked(z, sign) == FALSE
wrongSign(z, sign) == z # 0 /\ (z < 0) # (sign = 1)

roundPackToI32(rm, sign, sig) ==
    LET x == F32.x
        s == sig + roundIncrement(x, rm, sign)
        m == clearTie(s \div 2^x, sig % 2^x, 2^(x - 1), rm)
        z == asSigned(F32.w, IF sign = 1 THEN -m ELSE m)
    IN  IF s >= 2^(F32.w + x) \/ wrongSign(z, sign) THEN overflowI(F32.w, sign = 1)
        ELSE Result(z, FlagIf("inexact", sig % 2^x # 0))
roundPackToUI32(rm, sign, sig) ==
    LET x == F32.x
        s == sig + roundIncrement(x, rm, sign)
        z == clearTie(s \div 2^x, sig % 2^x, 2^(x - 1), rm)
    IN  IF s >= 2^(F32.w + x) \/ (sign = 1 /\ z # 0) THEN overflowUI(F32.w)
        ELSE Result(z, FlagIf("inexact", sig % 2^x # 0))
\* sig is <<integer, fraction>>; the rounded integer, 2^w64 when it wraps.
increment64(rm, sign, sig) ==
    LET half == 2^(F64.w - 1)
        up == IF rm \in {"near_even", "near_maxMag"} THEN half <= sig[2]
              ELSE rm = (IF sign = 1 THEN "min" ELSE "max") /\ sig[2] # 0
    IN  IF ~ up THEN sig[1]
        ELSE IF sig[1] + 1 = 2^F64.w THEN 2^F64.w
        ELSE clearTie(sig[1] + 1, sig[2] % half, 0, rm)
roundPackToI64(rm, sign, sig) ==
    LET m == increment64(rm, sign, sig)
        z == asSigned(F64.w, IF sign = 1 THEN -m ELSE m)
    IN  IF m = 2^F64.w \/ wrongSign(z, sign) THEN overflowI(F64.w, sign = 1)
        ELSE Result(z, FlagIf("inexact", sig[2] # 0))
roundPackToUI64(rm, sign, sig) ==
    LET z == increment64(rm, sign, sig)
    IN  IF z = 2^F64.w \/ (sign = 1 /\ z # 0) THEN overflowUI(F64.w)
        ELSE Result(z, FlagIf("inexact", sig[2] # 0))

significand(f, a) == fracUI(f, a) + (IF expUI(f, a) # 0 THEN 2^f.p ELSE 0)
\* The operand as a fixed point number with x32 fraction bits.
jamTo(w, sig, n) == IF 0 < n THEN shiftRightJam(w, sig, n) ELSE sig
fixedF32(a) == jamTo(2 * F32.w, significand(F32, a) * 2^F32.w,
                     F32.bias + F32.p + F32.w - F32.x - expUI(F32, a))
fixedF64(a) == jamTo(F64.w, significand(F64, a),
                     F64.bias + F64.p - F32.x - expUI(F64, a))
signOrNaN(f, a) == IF isNaN(f, a) THEN 0 ELSE signUI(f, a)
f32_to_i32(rm, a)  == roundPackToI32(rm, signOrNaN(F32, a), fixedF32(a))
f32_to_ui32(rm, a) == roundPackToUI32(rm, signUI(F32, a), fixedF32(a))
f64_to_i32(rm, a)  == roundPackToI32(rm, signOrNaN(F64, a), fixedF64(a))
f64_to_ui32(rm, a) == roundPackToUI32(rm, signUI(F64, a), fixedF64(a))

\* The operand as <<integer, fraction>>, two words of w64 bits.
splitF32(a) ==
    LET n == F32.bias + F64.w - 1 - expUI(F32, a)
        sig64 == significand(F32, a) * 2^(F64.w - (F32.p + 1))
    IN  IF n = 0 THEN <<sig64, 0>> ELSE shift64ExtraRightJam(sig64, n)
splitF64(a) ==
    LET n == F64.bias + F64.p - expUI(F64, a)
    IN  IF n <= 0 THEN <<significand(F64, a) * 2^(-n), 0>>
                  ELSE shift64ExtraRightJam(significand(F64, a), n)
exceeds64(f, a) == expUI(f, a) > f.bias + F64.w - 1
f32_to_i64(rm, a)  == IF exceeds64(F32, a) THEN overflowI(F64.w, signOrNaN(F32, a) = 1)
                      ELSE roundPackToI64(rm, signUI(F32, a), splitF32(a))
f32_to_ui64(rm, a) == IF exceeds64(F32, a) THEN overflowUI(F64.w)
                      ELSE roundPackToUI64(rm, signUI(F32, a), splitF32(a))
f64_to_i64(rm, a)  == IF exceeds64(F64, a) THEN overflowI(F64.w, signOrNaN(F64, a) = 1)
                      ELSE roundPackToI64(rm, signUI(F64, a), splitF64(a))
f64_to_ui64(rm, a) == IF exceeds64(F64, a) THEN overflowUI(F64.w)
                      ELSE roundPackToUI64(rm, signUI(F64, a), splitF64(a))

\* The same with truncation (_r_minMag), for integers of n bits.
small(f, a) == Result(0, FlagIf("inexact", ~ isZero(f, a)))
truncated(f, a) == LET n == expUI(f, a) - f.bias - f.p
                   IN  IF n >= 0 THEN significand(f, a) * 2^n
                                 ELSE significand(f, a) \div 2^(-n)
cutOff(f, a) == LET n == expUI(f, a) - f.bias - f.p
                IN  FlagIf("inexact", n < 0 /\ significand(f, a) % 2^(-n) # 0)
toI_r_minMag(f, n, a) ==
    LET sign == signUI(f, a)
    IN  CASE expUI(f, a) < f.bias -> small(f, a)
          [] expUI(f, a) >= f.bias + n - 1 ->
               IF a = packUI(f, 1, f.bias + n - 1, 0) THEN Result(minInt(n), {})
               ELSE overflowI(n, signOrNaN(f, a) = 1)
          [] OTHER -> Result(IF sign = 1 THEN -truncated(f, a) ELSE truncated(f, a),
                             cutOff(f, a))
toUI_r_minMag(f, n, a) ==
    CASE expUI(f, a) < f.bias -> small(f, a)
      [] expUI(f, a) >= f.bias ->
           IF signUI(f, a) = 1 \/ expUI(f, a) > f.bias + n - 1 THEN overflowUI(n)
           ELSE Result(truncated(f, a), cutOff(f, a))
f32_to_i32_r_minMag(a)  == toI_r_minMag(F32, F32.w, a)
f32_to_i64_r_minMag(a)  == toI_r_minMag(F32, F64.w, a)
f64_to_i64_r_minMag(a)  == toI_r_minMag(F64, F64.w, a)
f32_to_ui32_r_minMag(a) == toUI_r_minMag(F32, F32.w, a)
f32_to_ui64_r_minMag(a) == toUI_r_minMag(F32, F64.w, a)
f64_to_ui32_r_minMag(a) == toUI_r_minMag(F64, F32.w, a)
f64_to_ui64_r_minMag(a) == toUI_r_minMag(F64, F64.w, a)
\* This one admits the exponent of -2^(w32 - 1) and tests the sign afterwards.
f64_to_i32_r_minMag(a) ==
    LET sign == signUI(F64, a)
        z == asSigned(F32.w, IF sign = 1 THEN -truncated(F64, a) ELSE truncated(F64, a))
    IN  CASE expUI(F64, a) < F64.bias -> small(F64, a)
          [] expUI(F64, a) > F64.bias + F32.w - 1 ->
               overflowI(F32.w, signOrNaN(F64, a) = 1)
          [] OTHER -> IF (z < 0) # (sign = 1) THEN overflowI(F32.w, sign = 1)
                      ELSE Result(z, cutOff(F64, a))

------------------------------------------------------------------------------
\* Conversions from integers.
negative(a) == Bit(a < 0)
absolute(a) == IF a < 0 THEN -a ELSE a
\* From an integer as wide as the format.
fromInt(f, rm, a) ==
    IF a \in {0, minInt(f.w)}
    THEN Result(IF a = 0 THEN 0 ELSE packUI(f, 1, f.bias + f.w - 1, 0), {})
    ELSE normRoundPack(f, rm, negative(a), f.bias + f.w - 3, absolute(a))
fromUInt(f, rm, a) ==
    CASE a = 0 -> Result(0, {})
      [] a >= 2^(f.w - 1) -> roundPack(f, rm, 0, f.bias + f.w - 2, shortShiftRightJam(a, 1))
      [] OTHER -> normRoundPack(f, rm, 0, f.bias + f.w - 3, a)
i32_to_f32(rm, a)  == fromInt(F32, rm, a)
i64_to_f64(rm, a)  == fromInt(F64, rm, a)
ui32_to_f32(rm, a) == fromUInt(F32, rm, a)
ui64_to_f64(rm, a) == fromUInt(F64, rm, a)

\* From a narrower one, which is exact.
widen(sign, abs) ==
    LET n == countLeadingZeros(F32.w, abs) + F64.p + 1 - F32.w
    IN  Result(packUI(F64, sign, F64.bias + F64.p - 1 - n, abs * 2^n), {})
i32_to_f64(a)  == IF a = 0 THEN Result(0, {}) ELSE widen(negative(a), absolute(a))
ui32_to_f64(a) == IF a = 0 THEN Result(0, {}) ELSE widen(0, a)

\* From a wider one.
narrow(rm, sign, abs) ==
    LET n == countLeadingZeros64(abs) - (F64.w - (F32.p + 1))
        m == n + F32.x
        sig == IF m < 0 THEN shortShiftRightJam(abs, -m) ELSE abs * 2^m
    IN  CASE n >= 0 /\ abs = 0 -> Result(0, {})
          [] n >= 0 /\ abs # 0 ->
               Result(packUI(F32, sign, F32.bias + F32.p - 1 - n, abs * 2^n), {})
          [] n < 0 ->
               roundPack(F32, rm, sign, F32.bias + F32.p + F32.x - 1 - m, sig)
i64_to_f32(rm, a)  == narrow(rm, negative(a), absolute(a))
ui64_to_f32(rm, a) == narrow(rm, 0, a)
=============================================================================
