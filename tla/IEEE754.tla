------------------------------- MODULE IEEE754 -------------------------------
(***************************************************************************)
(* What floating point arithmetic promises, whatever code computes it: an  *)
(* operation returns the exact result of its finite operands, rounded once.*)
(* Exact magnitudes are pairs m, k standing for m * 2^k; a magnitude that  *)
(* has more digits than matter is cut and marked sticky (it is a little    *)
(* more than m * 2^k, less than (m + 1) * 2^k).                            *)
(*                                                                         *)
(* A format f is the record of SoftFloat!Format; this module shares no     *)
(* definition with the library.                                            *)
(***************************************************************************)
EXTENDS Integers

\* The number of binary digits of n.
Digits(n) == IF n = 0 THEN 0
             ELSE CHOOSE k \in 1 .. (IF n \div 2 < 2^30 THEN 31 ELSE n) :
                      2^(k - 1) <= n /\ n \div 2 < 2^(k - 1)
Larger(i, j) == IF i > j THEN i ELSE j
Outcome(ui, fl) == [ui |-> ui, fl |-> fl]
Set(flag, c) == IF c THEN {flag} ELSE {}

\* Kinds of pattern.
Negative(f, u) == u >= 2^(f.w - 1)
Mag(f, u) == u % 2^(f.w - 1)
InfMag(f) == f.inf * 2^f.p
NaN(f, u) == Mag(f, u) > InfMag(f)
Signaling(f, u) == NaN(f, u) /\ Mag(f, u) < InfMag(f) + 2^(f.p - 1)
Infinite(f, u) == Mag(f, u) = InfMag(f)
Zero(f, u) == Mag(f, u) = 0
\* The magnitude of a finite pattern.
Subnormal(f, u) == Mag(f, u) < 2^f.p
M(f, u) == IF Subnormal(f, u) THEN Mag(f, u) ELSE 2^f.p + (u % 2^f.p)
K(f, u) == (IF Subnormal(f, u) THEN 1 ELSE Mag(f, u) \div 2^f.p) - f.bias - f.p

Signed(f, neg, mag) == mag + (IF neg THEN 2^(f.w - 1) ELSE 0)
QuietNaN(f, fl) == Outcome(2^f.w - 1, fl)
Inf(f, neg) == Signed(f, neg, InfMag(f))

\* Whether a magnitude between t and t + 1 goes to t + 1.  cmp compares its
\* fraction with one half (of which st is a little more), lost: it has one.
RoundsUp(rm, neg, t, cmp, lost, st) ==
    CASE rm = "minMag" -> FALSE
      [] rm = "min" -> neg /\ lost
      [] rm = "max" -> ~ neg /\ lost
      [] rm = "near_maxMag" -> cmp >= 0
      [] rm = "near_even" -> cmp > 0 \/ (cmp = 0 /\ (st \/ t % 2 = 1))

\* Cut m at 2^d: the integer below, and the rounded one.  All of m is less than
\* one half when 2^d has more than one digit more.
Rounded(rm, neg, m, d, st) ==
    LET deep == d > Digits(m) + 1
        t == IF deep THEN 0 ELSE m \div 2^d
        r == IF deep THEN 1 ELSE m % 2^d
        cmp == IF deep THEN -1 ELSE 2 * r - 2^d
        lost == r # 0 \/ st
    IN  [t |-> IF RoundsUp(rm, neg, t, cmp, lost, st) THEN t + 1 ELSE t, lost |-> lost]

\* The pattern of m * 2^k, m > 0, correctly rounded; tininess is detected
\* before rounding.
Round(f, rm, neg, m, k, st) ==
    LET top == k + Digits(m) - 1
        q == Larger(top - f.p, 1 - f.bias - f.p)
        z == IF q > k THEN Rounded(rm, neg, m, q - k, st)
                      ELSE [t |-> m * 2^(k - q), lost |-> FALSE]
        toInf == rm \in {"near_even", "near_maxMag", IF neg THEN "min" ELSE "max"}
    IN  IF q + Digits(z.t) > f.bias + 1
        THEN Outcome(Inf(f, neg) - (IF toInf THEN 0 ELSE 1), {"overflow", "inexact"})
        ELSE Outcome(Signed(f, neg, (q + f.bias + f.p - 1) * 2^f.p + z.t),
                     Set("inexact", z.lost)
                       \cup Set("underflow", z.lost /\ top < 1 - f.bias))

\* The sum of two exact numbers of at most 14 digits each, rounded.
ZeroSum(f, rm) == Outcome(Signed(f, rm = "min", 0), {})
RoundSum(f, rm, n1, m1, k1, n2, m2, k2) ==
    LET a == m1 * 2^(14 - Digits(m1))
        b == m2 * 2^(14 - Digits(m2))
        ka == k1 + Digits(m1) - 14
        kb == k2 + Digits(m2) - 14
        \* the larger exponent first
        Sum(x, m, kx, y, n, ky) ==
            LET d == kx - ky
            IN  IF d > 14
                THEN IF x = y THEN Round(f, rm, x, 4 * m, kx - 2, TRUE)
                              ELSE Round(f, rm, x, 4 * m - 1, kx - 2, TRUE)
                ELSE LET s == m * 2^d + (IF x = y THEN n ELSE -n)
                     IN  CASE s = 0 -> ZeroSum(f, rm)
                           [] s > 0 -> Round(f, rm, x, s, ky, FALSE)
                           [] s < 0 -> Round(f, rm, ~ x, -s, ky, FALSE)
    IN  IF ka >= kb THEN Sum(n1, a, ka, n2, b, kb) ELSE Sum(n2, b, kb, n1, a, ka)

\* a * b + c with one rounding.
MulAdd(f, rm, a, b, c) ==
    LET neg == Negative(f, a) # Negative(f, b)
        infProd == Infinite(f, a) \/ Infinite(f, b)
        zeroProd == Zero(f, a) \/ Zero(f, b)
        anyNaN == NaN(f, a) \/ NaN(f, b) \/ NaN(f, c)
        anySignaling == Signaling(f, a) \/ Signaling(f, b) \/ Signaling(f, c)
        inf0 == infProd /\ zeroProd /\ ~ NaN(f, a) /\ ~ NaN(f, b)
    IN  IF anyNaN THEN QuietNaN(f, Set("invalid", anySignaling \/ inf0))
        ELSE IF \/ inf0
                \/ infProd /\ Infinite(f, c) /\ neg # Negative(f, c)
        THEN QuietNaN(f, {"invalid"})
        ELSE IF infProd THEN Outcome(Inf(f, neg), {})
        ELSE IF Infinite(f, c) THEN Outcome(c, {})
        ELSE IF zeroProd /\ Zero(f, c)
        THEN IF neg = Negative(f, c) THEN Outcome(c, {}) ELSE ZeroSum(f, rm)
        ELSE IF zeroProd THEN Outcome(c, {})
        ELSE LET m == M(f, a) * M(f, b)
                 k == K(f, a) + K(f, b)
             IN  IF Zero(f, c) THEN Round(f, rm, neg, m, k, FALSE)
                 ELSE RoundSum(f, rm, neg, m, k, Negative(f, c), M(f, c), K(f, c))
One(f) == f.bias * 2^f.p
Opposite(f, u) == (u + 2^(f.w - 1)) % 2^f.w
Add(f, rm, a, b) == MulAdd(f, rm, a, One(f), b)
Sub(f, rm, a, b) == IF NaN(f, b) THEN Add(f, rm, a, b)
                    ELSE Add(f, rm, a, Opposite(f, b))
Mul(f, rm, a, b) ==
    MulAdd(f, rm, a, b, Signed(f, Negative(f, a) # Negative(f, b), 0))

Div(f, rm, a, b) ==
    LET neg == Negative(f, a) # Negative(f, b)
        S == 2 * f.p + 6
        n == M(f, a) * 2^S
    IN  IF NaN(f, a) \/ NaN(f, b)
        THEN QuietNaN(f, Set("invalid", Signaling(f, a) \/ Signaling(f, b)))
        ELSE IF \/ Infinite(f, a) /\ Infinite(f, b)
                \/ Zero(f, a) /\ Zero(f, b)
        THEN QuietNaN(f, {"invalid"})
        ELSE IF Infinite(f, a) THEN Outcome(Inf(f, neg), {})
        ELSE IF Zero(f, b) THEN Outcome(Inf(f, neg), {"infinity"})
        ELSE IF Infinite(f, b) \/ Zero(f, a) THEN Outcome(Signed(f, neg, 0), {})
        ELSE Round(f, rm, neg, n \div M(f, b), K(f, a) - K(f, b) - S,
                   n % M(f, b) # 0)

Sqrt(f, rm, a) ==
    LET m1 == IF K(f, a) % 2 = 0 THEN M(f, a) ELSE 2 * M(f, a)
        k1 == IF K(f, a) % 2 = 0 THEN K(f, a) ELSE K(f, a) - 1
        j  == f.p + 3
        n  == m1 * 4^j
        \* the integer root, one binary digit at a time
        root[i \in Nat] ==
            IF i = 0 THEN 0
            ELSE LET y == root[i - 1]
                     z == y + 2^(15 - i)
                 IN  IF z * z <= n THEN z ELSE y
        r  == root[15]
    IN  IF NaN(f, a) THEN QuietNaN(f, Set("invalid", Signaling(f, a)))
        ELSE IF Zero(f, a) THEN Outcome(a, {})
        ELSE IF Negative(f, a) THEN QuietNaN(f, {"invalid"})
        ELSE IF Infinite(f, a) THEN Outcome(a, {})
        ELSE Round(f, rm, FALSE, r, k1 \div 2 - j, r * r # n)

\* a - b * n for the integer n nearest to a / b, the even one on a tie; it is
\* exact, and a zero has the sign of a.
Rem(f, a, b) ==
    LET k == IF K(f, a) > K(f, b) THEN K(f, b) ELSE K(f, a)
        mb == M(f, b) * 2^(K(f, b) - k)
        \* M(a) * 2^i modulo 2 * mb
        mod[i \in Nat] == IF i = 0 THEN M(f, a) % (2 * mb)
                          ELSE (2 * mod[i - 1]) % (2 * mb)
        m2 == mod[K(f, a) - k]
        r  == m2 % mb
        up == 2 * r > mb \/ (2 * r = mb /\ m2 >= mb)
        neg == Negative(f, a)
        bits(n, m) == IF m = 0 THEN Outcome(Signed(f, n, 0), {})
                      ELSE Round(f, "minMag", n, m, k, FALSE)
    IN  IF NaN(f, a) \/ NaN(f, b)
        THEN QuietNaN(f, Set("invalid", Signaling(f, a) \/ Signaling(f, b)))
        ELSE IF Infinite(f, a) \/ Zero(f, b) THEN QuietNaN(f, {"invalid"})
        ELSE IF Infinite(f, b) \/ Zero(f, a) THEN Outcome(a, {})
        ELSE IF K(f, b) - K(f, a) > f.p + 2 THEN Outcome(a, {})
        ELSE IF up THEN bits(~ neg, mb - r) ELSE bits(neg, r)

\* Order: the numbers a pattern stands for, zeros equal.
Rank(f, u) == IF Negative(f, u) THEN -Mag(f, u) ELSE Mag(f, u)
Compare(f, a, b, quiet, holds) ==
    IF NaN(f, a) \/ NaN(f, b)
    THEN Outcome(0, Set("invalid", ~ quiet \/ Signaling(f, a) \/ Signaling(f, b)))
    ELSE Outcome(IF holds THEN 1 ELSE 0, {})

\* The bit fclass sets.
Class(f, u) ==
    LET kind == CASE Infinite(f, u) -> 3
                  [] Zero(f, u) -> 0
                  [] Subnormal(f, u) /\ ~ Zero(f, u) -> 1
                  [] OTHER -> 2
    IN  IF NaN(f, u) THEN IF Signaling(f, u) THEN 8 ELSE 9
        ELSE IF Negative(f, u) THEN 3 - kind ELSE 4 + kind

\* Conversions.
ToFormat(f, g, rm, a) ==
    LET neg == Negative(f, a)
    IN  IF NaN(f, a)
        THEN Outcome(Signed(g, neg, 2^(g.w - 1) - 1), Set("invalid", Signaling(f, a)))
        ELSE IF Infinite(f, a) THEN Outcome(Inf(g, neg), {})
        ELSE IF Zero(f, a) THEN Outcome(Signed(g, neg, 0), {})
        ELSE Round(g, rm, neg, M(f, a), K(f, a), FALSE)

\* The integer next to a finite pattern, limited to 2^28; a zero stays zero.
Integral(f, rm, a) ==
    IF Zero(f, a) THEN [t |-> 0, lost |-> FALSE]
    ELSE IF K(f, a) + Digits(M(f, a)) > 28 THEN [t |-> 2^28, lost |-> FALSE]
    ELSE IF K(f, a) >= 0 THEN [t |-> M(f, a) * 2^K(f, a), lost |-> FALSE]
    ELSE Rounded(rm, Negative(f, a), M(f, a), -K(f, a), FALSE)
ToInteger(f, rm, a, lo, hi) ==
    LET z == Integral(f, rm, a)
        v == IF Negative(f, a) THEN -z.t ELSE z.t
        worst == IF Negative(f, a) /\ ~ NaN(f, a) /\ lo < 0 THEN lo ELSE hi
    IN  IF NaN(f, a) \/ Infinite(f, a) THEN Outcome(worst, {"invalid"})
        ELSE IF v < lo \/ v > hi THEN Outcome(worst, {"invalid"})
        ELSE Outcome(v, Set("inexact", z.lost))
FromInteger(f, rm, v) ==
    IF v = 0 THEN Outcome(0, {})
    ELSE Round(f, rm, v < 0, IF v < 0 THEN -v ELSE v, 0, FALSE)
RoundToIntegral(f, rm, a) ==
    LET z == Integral(f, rm, a)
    IN  IF NaN(f, a) THEN QuietNaN(f, Set("invalid", Signaling(f, a)))
        ELSE IF Infinite(f, a) \/ K(f, a) >= 0 THEN Outcome(a, {})
        ELSE IF z.t = 0
        THEN Outcome(Signed(f, Negative(f, a), 0), Set("inexact", z.lost))
        ELSE Outcome(Round(f, rm, Negative(f, a), z.t, 0, FALSE).ui,
                     Set("inexact", z.lost))
=============================================================================
