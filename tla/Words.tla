-------------------------------- MODULE Words --------------------------------
(***************************************************************************)
(* Words of W bits (64 in the code) as the integer instructions use them:  *)
(* the macros of decode.h, the division of C and the long multiplication   *)
(* of mulhi.h.                                                             *)
(***************************************************************************)
EXTENDS Integers

CONSTANT W              \* bits of a register, a power of two

Half == W \div 2
Word(n) == n % 2^W
signed(n, v) == LET u == v % 2^n IN IF u >= 2^(n - 1) THEN u - 2^n ELSE u
sext(n, v) == Word(signed(n, v))
zext(n, v) == v % 2^n
sext32(v) == sext(Half, v)
\* What the theorems about words start from.  They hold for every even W.
PowersOfTwo ==
    /\ W \in Nat /\ Half \in Nat /\ Half >= 1 /\ W = Half + Half
    /\ \A k \in 0 .. W : 2^k \in Nat \ {0} /\ 2^W = 2^k * 2^(W - k)
    /\ \A k \in 1 .. W : 2^k = 2 * 2^(k - 1)

\* Both operands shifted to the top of the word before they are compared.
cmp_trunc(x, v) == Word(v * 2^(W - x))
\* Division of C, toward zero.
magnitude(v) == IF v < 0 THEN -v ELSE v
quotient(a, b) == LET q == magnitude(a) \div magnitude(b)
                  IN  IF (a < 0) # (b < 0) THEN -q ELSE q
remainder(a, b) == a - b * quotient(a, b)

Bool(c) == IF c THEN 1 ELSE 0

------------------------------------------------------------------------------
\* Comparisons.
lessWord(x, v, w)  == cmp_trunc(x, v) < cmp_trunc(x, w)
lessWhole(x, v, w) == signed(W, v) < signed(W, w)
less(x, v, w)      == signed(W, cmp_trunc(x, v)) < signed(W, cmp_trunc(x, w))

------------------------------------------------------------------------------
\* Products.  mulhi.h multiplies by half words; what goes into y1 and y2 is
\* cut to half a word.
mulhu64(a, b) ==
    LET H  == 2^Half
        a0 == a % H
        a1 == a \div H
        b0 == b % H
        b1 == b \div H
        t1 == Word(a1 * b0 + ((a0 * b0) \div H))
        t2 == Word(a0 * b1 + (t1 % H))
    IN  Word(a1 * b1 + ((t1 \div H) % H) + (t2 \div H))
negated(res, a, b) == Word(2^W - 1 - res + Bool(Word(a * b) = 0))
mulh64(a, b) ==
    LET res == mulhu64(Word(magnitude(a)), Word(magnitude(b)))
    IN  IF (a < 0) # (b < 0) THEN negated(res, a, b) ELSE res
mulhsu64(a, b) ==
    LET res == mulhu64(Word(magnitude(a)), b)
    IN  IF a < 0 THEN negated(res, a, b) ELSE res
=============================================================================
