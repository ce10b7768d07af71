-------------------------- MODULE ArithmeticProofs --------------------------
(***************************************************************************)
(* Arithmetic, for every width of a word and every size of a format.       *)
(* Integers: the long multiplication of mulhi.h loses no carry, a          *)
(* comparison in the 32-bit mode does not see the upper half, division is  *)
(* that of C, and with them every integer instruction computes what        *)
(* IntegerCorrect says.  Tags: no instruction forges a return address.     *)
(* Floating point: comparisons order numbers, a significand whose lost     *)
(* bits were jammed into the last one is rounded as the exact one would    *)
(* be, and products and quotients are correctly rounded.                   *)
(***************************************************************************)
EXTENDS IntInsns, FpProducts, WellFoundedInduction, TLAPS

Positive == Nat \ {0}

------------------------------------------------------------------------------
\* Quotient and remainder by a positive number are what they are, and are
\* the only such numbers.

LEMMA Divided ==
  ASSUME NEW a \in Int, NEW m \in Positive
  PROVE  /\ a \div m \in Int /\ a % m \in 0 .. m - 1
         /\ a = m * (a \div m) + (a % m)
BY DEF Positive

LEMMA OneQuotient ==
  ASSUME NEW m \in Positive, NEW q \in Int, NEW r \in 0 .. m - 1,
         NEW p \in Int, NEW s \in 0 .. m - 1, m * q + r = m * p + s
  PROVE  q = p /\ r = s
<1>1. CASE p < q
  <2>1. PICK d \in Nat : q = p + 1 + d
    BY <1>1
  <2>2. m * q = m * p + m + m * d /\ m * d >= 0
    BY <2>1 DEF Positive
  <2>3. QED BY <2>2 DEF Positive
<1>2. CASE q < p
  <2>1. PICK d \in Nat : p = q + 1 + d
    BY <1>2
  <2>2. m * p = m * q + m + m * d /\ m * d >= 0
    BY <2>1 DEF Positive
  <2>3. QED BY <2>2 DEF Positive
<1>3. CASE q = p
  BY <1>3 DEF Positive
<1>4. QED BY <1>1, <1>2, <1>3

LEMMA DividedIs ==
  ASSUME NEW a \in Int, NEW m \in Positive, NEW q \in Int, NEW r \in 0 .. m - 1,
         a = m * q + r
  PROVE  a \div m = q /\ a % m = r
<1>1. PICK p \in Int : p = a \div m
  BY Divided
<1>2. PICK s \in 0 .. m - 1 : s = a % m
  BY Divided
<1>3. a = m * p + s
  BY <1>1, <1>2, Divided
<1>4. QED BY <1>1, <1>2, <1>3, OneQuotient

\* DividedIs with its hypotheses in one formula.
Splits(a, m, q, r) ==
  a \in Int /\ m \in Positive /\ q \in Int /\ r \in 0 .. m - 1 /\ a = m * q + r

LEMMA SplitsIs ==
  ASSUME NEW a, NEW m, NEW q, NEW r, Splits(a, m, q, r)
  PROVE  a \div m = q /\ a % m = r
BY DividedIs DEF Splits

LEMMA Small ==
  ASSUME NEW m \in Positive, NEW a \in 0 .. m - 1
  PROVE  a % m = a /\ a \div m = 0
<1>1. a \in Int /\ 0 \in Int /\ a = m * 0 + a
  BY DEF Positive
<1>2. QED BY <1>1, DividedIs

\* A number below m * n has a quotient by m below n.
LEMMA SmallQuotient ==
  ASSUME NEW m \in Positive, NEW n \in Nat, NEW a \in Nat, a < m * n
  PROVE  a \div m \in Nat /\ a \div m < n
<1>1. PICK q \in Int : q = a \div m
  BY Divided
<1>2. PICK r \in 0 .. m - 1 : r = a % m
  BY Divided
<1>3. a = m * q + r
  BY <1>1, <1>2, Divided
<1>4. q >= 0
  <2>1. SUFFICES ASSUME q < 0 PROVE FALSE
    OBVIOUS
  <2>2. PICK d \in Nat : q = -1 - d
    BY <2>1
  <2>3. m * q = -m - m * d /\ m * d >= 0
    BY <2>2 DEF Positive
  <2>4. QED BY <1>3, <2>3 DEF Positive
<1>5. q < n
  <2>1. SUFFICES ASSUME q >= n PROVE FALSE
    OBVIOUS
  <2>2. PICK d \in Nat : q = n + d
    BY <2>1
  <2>3. m * q = m * n + m * d /\ m * d >= 0
    BY <2>2 DEF Positive
  <2>4. QED BY <1>3, <2>3 DEF Positive
<1>6. QED BY <1>1, <1>4, <1>5

------------------------------------------------------------------------------
\* The high word of a product.

LEMMA HalfProduct ==
  ASSUME NEW H \in Positive, NEW x \in 0 .. H - 1, NEW y \in 0 .. H - 1
  PROVE  x * y \in Nat /\ x * y <= H * H - 2 * H + 1 /\ H * H \in Positive
<1>1. PICK d \in Nat : H = x + 1 + d
  BY DEF Positive
<1>2. PICK e \in Nat : H = y + 1 + e
  BY DEF Positive
<1>3. /\ x * y \in Nat /\ x * e \in Nat /\ d * y \in Nat /\ d * e \in Nat
      /\ (x + d) * (y + e) = x * y + x * e + d * y + d * e
  OBVIOUS
<1>4. (x + d) * (y + e) = (H - 1) * (H - 1)
  BY <1>1, <1>2 DEF Positive
<1>5. (H - 1) * (H - 1) = H * H - 2 * H + 1 /\ H * H \in Positive
  BY DEF Positive
<1>6. QED BY <1>3, <1>4, <1>5 DEF Positive

\* What mulhu computes with halves in base H: c is the carry out of the low
\* product, u and v those out of the two partial sums.
PartialSums(H, a0, a1, b0, b1, c, r, u, y, v, z) ==
  /\ H \in Positive
  /\ {a0, a1, b0, b1, r, y, z} \subseteq 0 .. H - 1 /\ {c, u, v} \subseteq Nat
  /\ a0 * b0 = H * c + r
  /\ a1 * b0 + c = H * u + y
  /\ a0 * b1 + y = H * v + z

\* The partial sums and the result fit in a word, and are those of the product.
SumsFit(H, a0, a1, b0, b1, c, r, u, y, v, z) ==
  /\ a1 * b0 + c \in 0 .. H * H - 1 /\ u < H
  /\ a0 * b1 + y \in 0 .. H * H - 1 /\ v < H
  /\ a1 * b1 + u + v \in 0 .. H * H - 1
  /\ (H * a1 + a0) * (H * b1 + b0) = (H * H) * (a1 * b1 + u + v) + (H * z + r)
  /\ H * z + r \in 0 .. H * H - 1

LEMMA Carries ==
  ASSUME NEW H, NEW a0, NEW a1, NEW b0, NEW b1, NEW c, NEW r, NEW u, NEW y, NEW v, NEW z,
         PartialSums(H, a0, a1, b0, b1, c, r, u, y, v, z)
  PROVE  SumsFit(H, a0, a1, b0, b1, c, r, u, y, v, z)
<1> SUFFICES ASSUME H \in Positive, a0 \in 0 .. H - 1, a1 \in 0 .. H - 1,
                    b0 \in 0 .. H - 1, b1 \in 0 .. H - 1, r \in 0 .. H - 1,
                    y \in 0 .. H - 1, z \in 0 .. H - 1, c \in Nat, u \in Nat, v \in Nat
             PROVE  SumsFit(H, a0, a1, b0, b1, c, r, u, y, v, z)
  BY DEF PartialSums
<1>0. a0 * b0 = H * c + r /\ a1 * b0 + c = H * u + y /\ a0 * b1 + y = H * v + z
  BY DEF PartialSums
<1>1. /\ a0 * b0 \in Nat /\ a0 * b0 <= H * H - 2 * H + 1
      /\ a1 * b0 \in Nat /\ a1 * b0 <= H * H - 2 * H + 1
      /\ a0 * b1 \in Nat /\ a0 * b1 <= H * H - 2 * H + 1
      /\ a1 * b1 \in Nat /\ a1 * b1 <= H * H - 2 * H + 1
      /\ H * H \in Positive
  BY HalfProduct
<1>2. ASSUME NEW k \in Nat, NEW w \in Nat, H * k <= w, w < H * H PROVE k < H
  <2>1. SUFFICES ASSUME k >= H PROVE FALSE
    BY DEF Positive
  <2>2. PICK d \in Nat : k = H + d
    BY <2>1 DEF Positive
  <2>3. H * k = H * H + H * d /\ H * d >= 0
    BY <2>2 DEF Positive
  <2>4. QED BY <1>1, <1>2, <2>3 DEF Positive
<1>3. H * c \in Nat /\ H * u \in Nat /\ H * v \in Nat /\ H * z \in Nat
  BY DEF Positive
<1>4. c < H
  <2>1. H * c <= a0 * b0 /\ a0 * b0 < H * H
    BY <1>0, <1>1, <1>3 DEF Positive
  <2>2. QED BY <1>1, <1>2, <2>1
<1>5. a1 * b0 + c \in Nat /\ a1 * b0 + c < H * H
  BY <1>1, <1>4 DEF Positive
<1>6. u < H
  <2>1. H * u <= a1 * b0 + c
    BY <1>0, <1>1, <1>3 DEF Positive
  <2>2. QED BY <1>2, <1>5, <2>1
<1>7. a0 * b1 + y \in Nat /\ a0 * b1 + y < H * H
  BY <1>1 DEF Positive
<1>8. v < H
  <2>1. H * v <= a0 * b1 + y
    BY <1>0, <1>1, <1>3 DEF Positive
  <2>2. QED BY <1>2, <1>7, <2>1
<1>9. a1 * b1 + u + v \in Nat /\ a1 * b1 + u + v < H * H
  BY <1>1, <1>6, <1>8 DEF Positive
<1>10. H * z + r < H * H
  <2>1. PICK d \in Nat : H = z + 1 + d
    BY DEF Positive
  <2>2. H * H = H * z + H + H * d /\ H * d >= 0
    BY <2>1 DEF Positive
  <2>3. QED BY <1>3, <2>2 DEF Positive
<1>11. (H * a1 + a0) * (H * b1 + b0)
         = (H * H) * (a1 * b1) + H * (a1 * b0) + H * (a0 * b1) + a0 * b0
  BY DEF Positive
<1>12. /\ H * (a1 * b0) = (H * H) * u + H * y - H * c
       /\ H * (a0 * b1) = (H * H) * v + H * z - H * y
  <2>1. a1 * b0 = H * u + y - c /\ a0 * b1 = H * v + z - y
    BY <1>0, <1>1, <1>3 DEF Positive
  <2>2. H * (H * u + y - c) = (H * H) * u + H * y - H * c
    BY DEF Positive
  <2>3. H * (H * v + z - y) = (H * H) * v + H * z - H * y
    BY DEF Positive
  <2>4. QED BY <2>1, <2>2, <2>3
<1>13. (H * H) * (a1 * b1 + u + v) = (H * H) * (a1 * b1) + (H * H) * u + (H * H) * v
  BY <1>1 DEF Positive
<1>14. /\ (H * H) * (a1 * b1) \in Int /\ (H * H) * u \in Int /\ (H * H) * v \in Int
       /\ H * y \in Int /\ H * c \in Int /\ H * z \in Int
  BY <1>1 DEF Positive
<1>15. (H * a1 + a0) * (H * b1 + b0) = (H * H) * (a1 * b1 + u + v) + (H * z + r)
  BY <1>0, <1>11, <1>12, <1>13, <1>14 DEF Positive
<1>16. QED
  BY <1>3, <1>5, <1>6, <1>7, <1>8, <1>9, <1>10, <1>15 DEF Positive, SumsFit

\* 0 .. 2^W - 1 and the numbers of a word with a sign.
Unsigned == 0 .. 2^W - 1
Signed == -(2^(W - 1)) .. 2^(W - 1) - 1

LEMMA HalfWord ==
  ASSUME PowersOfTwo
  PROVE  2^Half \in Positive /\ 2^W \in Positive /\ 2^W = 2^Half * 2^Half
<1>1. Half \in 0 .. W /\ W \in 0 .. W /\ W - Half = Half
  BY DEF PowersOfTwo
<1>2. QED BY <1>1 DEF PowersOfTwo, Positive

\* mulhu of mulhi.h is the high word of the product, for words of any width:
\* the partial sums of the schoolbook product never leave a word.
THEOREM MulhuCorrect ==
  ASSUME PowersOfTwo, NEW a \in Unsigned, NEW b \in Unsigned
  PROVE  mulhu64(a, b) = (a * b) \div 2^W /\ mulhu64(a, b) \in Unsigned
<1>1. PICK H \in Positive : H = 2^Half
  BY HalfWord
<1>2. 2^W = H * H /\ H * H \in Positive
  BY <1>1, HalfWord
<1>3. a \in Nat /\ b \in Nat /\ a < H * H /\ b < H * H
  BY <1>2 DEF Unsigned, Positive
<1>4. PICK a0 \in 0 .. H - 1 : a0 = a % H
  BY <1>3, Divided
<1>5. PICK b0 \in 0 .. H - 1 : b0 = b % H
  BY <1>3, Divided
<1>6. PICK a1 \in 0 .. H - 1 : a1 = a \div H
  <2>1. H \in Nat
    BY DEF Positive
  <2>2. a \div H \in Nat /\ a \div H < H
    BY <1>3, <2>1, SmallQuotient
  <2>3. a \div H \in 0 .. H - 1
    BY <2>1, <2>2
  <2>4. QED BY <2>3
<1>7. PICK b1 \in 0 .. H - 1 : b1 = b \div H
  <2>1. H \in Nat
    BY DEF Positive
  <2>2. b \div H \in Nat /\ b \div H < H
    BY <1>3, <2>1, SmallQuotient
  <2>3. b \div H \in 0 .. H - 1
    BY <2>1, <2>2
  <2>4. QED BY <2>3
<1>8. a = H * a1 + a0 /\ b = H * b1 + b0
  BY <1>3, <1>4, <1>5, <1>6, <1>7, Divided
<1>9. ASSUME NEW w \in Nat
      PROVE  \E q \in Nat, r \in 0 .. H - 1 : q = w \div H /\ r = w % H /\ w = H * q + r
  <2>1. w \div H \in Nat
    BY DEF Positive
  <2>2. QED BY <2>1, Divided
<1>10. a0 * b0 \in Nat /\ a1 * b0 \in Nat /\ a0 * b1 \in Nat /\ a1 * b1 \in Nat
  BY HalfProduct
<1>11. PICK c \in Nat, r \in 0 .. H - 1 : c = (a0 * b0) \div H /\ a0 * b0 = H * c + r
  BY <1>9, <1>10
<1>12. PICK u \in Nat, y \in 0 .. H - 1 :
         u = (a1 * b0 + c) \div H /\ y = (a1 * b0 + c) % H /\ a1 * b0 + c = H * u + y
  <2>1. a1 * b0 + c \in Nat
    BY <1>10
  <2>2. QED BY <1>9, <2>1
<1>13. PICK v \in Nat, z \in 0 .. H - 1 : v = (a0 * b1 + y) \div H /\ a0 * b1 + y = H * v + z
  <2>1. a0 * b1 + y \in Nat
    BY <1>10
  <2>2. QED BY <1>9, <2>1
<1>14. /\ a1 * b0 + c \in 0 .. H * H - 1 /\ u < H
       /\ a0 * b1 + y \in 0 .. H * H - 1 /\ v < H
       /\ a1 * b1 + u + v \in 0 .. H * H - 1
       /\ (H * a1 + a0) * (H * b1 + b0) = (H * H) * (a1 * b1 + u + v) + (H * z + r)
       /\ H * z + r \in 0 .. H * H - 1
  <2>1. PartialSums(H, a0, a1, b0, b1, c, r, u, y, v, z)
    BY <1>11, <1>12, <1>13 DEF PartialSums
  <2>2. SumsFit(H, a0, a1, b0, b1, c, r, u, y, v, z)
    BY <2>1, Carries, Zenon
  <2>3. QED BY <2>2, Zenon DEF SumsFit
<1>15. PICK t1 : t1 = a1 * b0 + c
  OBVIOUS
<1>16. PICK t2 : t2 = a0 * b1 + y
  OBVIOUS
<1>17. PICK t3 : t3 = a1 * b1 + u + v
  OBVIOUS
<1>18. t1 % (H * H) = t1 /\ t2 % (H * H) = t2 /\ t3 % (H * H) = t3 /\ u % H = u
  <2>1. PICK N \in Positive : N = H * H
    BY <1>2
  <2>2. t1 \in 0 .. N - 1 /\ t2 \in 0 .. N - 1 /\ t3 \in 0 .. N - 1 /\ u \in 0 .. H - 1
    BY <1>14, <1>15, <1>16, <1>17, <2>1 DEF Positive
  <2>3. t1 % N = t1 /\ t2 % N = t2 /\ t3 % N = t3 /\ u % H = u
    BY <2>2, Small
  <2>4. QED BY <2>1, <2>3
<1>19. mulhu64(a, b) = t3
  <2>1. Word(a1 * b0 + ((a0 * b0) \div H)) = t1
    BY <1>2, <1>11, <1>15, <1>18 DEF Word
  <2>2. t1 % H = y /\ t1 \div H = u
    BY <1>12, <1>15
  <2>3. Word(a0 * b1 + (t1 % H)) = t2
    BY <1>2, <1>16, <1>18, <2>2 DEF Word
  <2>4. t2 \div H = v
    BY <1>13, <1>16
  <2>5. Word(a1 * b1 + ((t1 \div H) % H) + (t2 \div H)) = t3
    BY <1>2, <1>17, <1>18, <2>2, <2>4 DEF Word
  <2>6. QED BY <1>1, <1>4, <1>5, <1>6, <1>7, <2>1, <2>3, <2>5, Zenon DEF mulhu64
<1>20. PICK low \in 0 .. H * H - 1 : low = H * z + r
  BY <1>14
<1>21. a * b = (H * H) * t3 + low /\ a * b \in Int /\ t3 \in Int
  BY <1>3, <1>8, <1>14, <1>17, <1>20
<1>22. (a * b) \div (H * H) = t3
  BY <1>2, <1>20, <1>21, DividedIs
<1>23. QED BY <1>2, <1>14, <1>17, <1>19, <1>22 DEF Unsigned

\* The high word of a negative product is the complement of the one of its
\* magnitude, plus one exactly when the low word is zero.
LEMMA Complement ==
  ASSUME NEW N \in Positive, NEW p \in Nat
  PROVE  /\ (-p) % N = 0 <=> p % N = 0
         /\ (-p) \div N = -1 - (p \div N) + Bool((-p) % N = 0)
<1>1. PICK q \in Int : q = p \div N
  BY Divided
<1>2. PICK r \in 0 .. N - 1 : r = p % N
  BY Divided
<1>3. p = N * q + r
  BY <1>1, <1>2, Divided
<1>4. CASE r = 0
  <2>1. -p = N * (-q) + 0 /\ -p \in Int /\ -q \in Int /\ 0 \in 0 .. N - 1
    BY <1>3, <1>4 DEF Positive
  <2>2. (-p) \div N = -q /\ (-p) % N = 0
    BY <2>1, DividedIs
  <2>3. QED BY <1>1, <1>2, <1>4, <2>2 DEF Bool
<1>5. CASE r # 0
  <2>1. -p = N * (-1 - q) + (N - r) /\ -p \in Int /\ -1 - q \in Int /\ N - r \in 1 .. N - 1
    BY <1>3, <1>5 DEF Positive
  <2>2. PICK s \in 1 .. N - 1 : s = N - r
    BY <2>1
  <2>3. (-p) \div N = -1 - q /\ (-p) % N = s
    BY <2>1, <2>2, DividedIs
  <2>4. QED BY <1>1, <1>2, <1>5, <2>3 DEF Bool
<1>6. QED BY <1>4, <1>5

LEMMA SameWord ==
  ASSUME NEW N \in Positive, NEW k \in Int
  PROVE  (N + k) % N = k % N
<1>1. PICK q \in Int : q = k \div N
  BY Divided
<1>2. PICK r \in 0 .. N - 1 : r = k % N
  BY Divided
<1>3. k = N * q + r
  BY <1>1, <1>2, Divided
<1>4. N + k = N * (q + 1) + r /\ N + k \in Int /\ q + 1 \in Int
  BY <1>3 DEF Positive
<1>5. QED BY <1>2, <1>4, DividedIs

LEMMA Magnitudes ==
  ASSUME NEW a \in Int, NEW b \in Int
  PROVE  /\ magnitude(a) \in Nat /\ magnitude(b) \in Nat
         /\ magnitude(a) * magnitude(b) \in Nat
         /\ a * b = IF (a < 0) # (b < 0) THEN -(magnitude(a) * magnitude(b))
                                         ELSE magnitude(a) * magnitude(b)
<1>1. CASE a < 0 /\ b < 0
  <2>1. magnitude(a) = -a /\ magnitude(b) = -b
    BY <1>1 DEF magnitude
  <2>2. (-a) * (-b) = a * b /\ (-a) * (-b) \in Nat
    BY <1>1
  <2>3. QED BY <1>1, <2>1, <2>2
<1>2. CASE a < 0 /\ ~(b < 0)
  <2>1. magnitude(a) = -a /\ magnitude(b) = b
    BY <1>2 DEF magnitude
  <2>2. (-a) * b = -(a * b) /\ (-a) * b \in Nat
    BY <1>2
  <2>3. QED BY <1>2, <2>1, <2>2
<1>3. CASE ~(a < 0) /\ b < 0
  <2>1. magnitude(a) = a /\ magnitude(b) = -b
    BY <1>3 DEF magnitude
  <2>2. a * (-b) = -(a * b) /\ a * (-b) \in Nat
    BY <1>3
  <2>3. QED BY <1>3, <2>1, <2>2
<1>4. CASE ~(a < 0) /\ ~(b < 0)
  <2>1. magnitude(a) = a /\ magnitude(b) = b
    BY <1>4 DEF magnitude
  <2>2. a * b \in Nat
    BY <1>4
  <2>3. QED BY <1>4, <2>1, <2>2
<1>5. QED BY <1>1, <1>2, <1>3, <1>4

\* Whatever the signs, the product of the magnitudes, complemented or not.
LEMMA SignedProduct ==
  ASSUME PowersOfTwo, NEW a \in Int, NEW b \in Int,
         magnitude(a) \in Unsigned, magnitude(b) \in Unsigned,
         NEW res, res = mulhu64(magnitude(a), magnitude(b))
  PROVE  (IF (a < 0) # (b < 0) THEN negated(res, a, b) ELSE res) = Word((a * b) \div 2^W)
<1>1. PICK N \in Positive : N = 2^W
  BY HalfWord
<1>2. PICK p \in Nat : p = magnitude(a) * magnitude(b)
  BY Magnitudes
<1>3. res = p \div N /\ res \in 0 .. N - 1
  BY <1>1, <1>2, MulhuCorrect DEF Unsigned
<1>4. CASE (a < 0) # (b < 0)
  <2>1. a * b = -p
    BY <1>2, <1>4, Magnitudes
  <2>2. PICK k \in Int : k = (-p) \div N
    BY Divided
  <2>3. N - 1 - res + Bool((-p) % N = 0) = N + k
    <3>1. k = -1 - res + Bool((-p) % N = 0)
      BY <1>3, <2>2, Complement
    <3>2. Bool((-p) % N = 0) \in Int
      BY DEF Bool
    <3>3. QED BY <1>3, <3>1, <3>2 DEF Positive
  <2>4. negated(res, a, b) = (N + k) % N
    BY <1>1, <2>1, <2>3 DEF negated, Word
  <2>5. Word((a * b) \div 2^W) = k % N
    BY <1>1, <2>1, <2>2 DEF Word
  <2>6. QED BY <1>4, <2>4, <2>5, SameWord
<1>5. CASE ~((a < 0) # (b < 0))
  <2>1. a * b = p
    BY <1>2, <1>5, Magnitudes
  <2>2. res % N = res
    BY <1>3, Small
  <2>3. QED BY <1>1, <1>3, <1>5, <2>1, <2>2 DEF Word
<1>6. QED BY <1>4, <1>5

LEMMA SignedMagnitude ==
  ASSUME PowersOfTwo, NEW a \in Signed
  PROVE  a \in Int /\ magnitude(a) \in Unsigned /\ Word(magnitude(a)) = magnitude(a)
<1>1. 2^W \in Positive /\ 2^(W - 1) \in Nat /\ 2^W = 2 * 2^(W - 1)
  <2>1. W \in 1 .. W /\ W - 1 \in 0 .. W
    BY DEF PowersOfTwo
  <2>2. QED BY <2>1, HalfWord DEF PowersOfTwo
<1>2. a \in Int /\ magnitude(a) \in 0 .. 2^W - 1
  BY <1>1 DEF Signed, magnitude, Positive
<1>3. QED BY <1>1, <1>2, Small DEF Unsigned, Word

\* mulh of mulhi.h is the high word of the product of two signed words, also
\* for the most negative ones.
THEOREM MulhCorrect ==
  ASSUME PowersOfTwo, NEW a \in Signed, NEW b \in Signed
  PROVE  mulh64(a, b) = Word((a * b) \div 2^W)
<1>1. /\ a \in Int /\ magnitude(a) \in Unsigned /\ Word(magnitude(a)) = magnitude(a)
      /\ b \in Int /\ magnitude(b) \in Unsigned /\ Word(magnitude(b)) = magnitude(b)
  BY SignedMagnitude
<1>2. PICK res : res = mulhu64(magnitude(a), magnitude(b))
  OBVIOUS
<1>3. mulh64(a, b) = IF (a < 0) # (b < 0) THEN negated(res, a, b) ELSE res
  BY <1>1, <1>2, Zenon DEF mulh64
<1>4. QED BY <1>1, <1>2, <1>3, SignedProduct

\* mulhsu of mulhi.h is the high word of a signed and an unsigned one.
THEOREM MulhsuCorrect ==
  ASSUME PowersOfTwo, NEW a \in Signed, NEW b \in Unsigned
  PROVE  mulhsu64(a, b) = Word((a * b) \div 2^W)
<1>1. /\ a \in Int /\ magnitude(a) \in Unsigned /\ Word(magnitude(a)) = magnitude(a)
      /\ b \in Int /\ magnitude(b) = b /\ ~(b < 0)
  BY SignedMagnitude DEF Unsigned, magnitude
<1>2. PICK res : res = mulhu64(magnitude(a), b)
  OBVIOUS
<1>3. mulhsu64(a, b) = IF a < 0 THEN negated(res, a, b) ELSE res
  BY <1>1, <1>2, Zenon DEF mulhsu64
<1>4. (IF (a < 0) # (b < 0) THEN negated(res, a, b) ELSE res) = Word((a * b) \div 2^W)
  BY <1>1, <1>2, SignedProduct
<1>5. QED BY <1>1, <1>3, <1>4

------------------------------------------------------------------------------
\* Comparisons and sign extension.

\* X = 2^x numbers below, K = 2^(W - x) of them in a word, M = 2^(x - 1) half.
LEMMA Powers ==
  ASSUME PowersOfTwo, NEW x \in 1 .. W
  PROVE  \E X \in Positive, K \in Positive, M \in Positive :
           /\ X = 2^x /\ K = 2^(W - x) /\ M = 2^(x - 1)
           /\ 2^W = X * K /\ X = 2 * M /\ 2^(W - 1) = M * K
<1>1. x \in 0 .. W /\ x - 1 \in 0 .. W /\ W - x \in 0 .. W /\ W \in 1 .. W /\ W - 1 \in 0 .. W
  BY DEF PowersOfTwo
<1>2. PICK X \in Positive : X = 2^x
  BY <1>1 DEF PowersOfTwo, Positive
<1>3. PICK K \in Positive : K = 2^(W - x)
  BY <1>1 DEF PowersOfTwo, Positive
<1>4. PICK M \in Positive : M = 2^(x - 1)
  BY <1>1 DEF PowersOfTwo, Positive
<1>5. PICK T \in Positive : T = 2^(W - 1)
  BY <1>1 DEF PowersOfTwo, Positive
<1>6. 2^W = X * K /\ X = 2 * M /\ 2^W = 2 * T
  BY <1>1, <1>2, <1>3, <1>4, <1>5 DEF PowersOfTwo
<1>7. T = M * K
  <2>1. (2 * M) * K = 2 * (M * K) /\ M * K \in Int
    BY DEF Positive
  <2>2. QED BY <1>6, <2>1 DEF Positive
<1>8. QED BY <1>2, <1>3, <1>4, <1>5, <1>6, <1>7

\* Comparing multiples of K is comparing.
LEMMA Multiples ==
  ASSUME NEW K \in Positive, NEW s \in Int, NEW t \in Int
  PROVE  K * s < K * t <=> s < t
<1>1. ASSUME NEW m \in Int, NEW n \in Int, m < n PROVE K * m < K * n
  <2>1. PICK d \in Nat : n = m + 1 + d
    BY <1>1
  <2>2. K * n = K * m + K + K * d /\ K * d >= 0 /\ K * m \in Int
    BY <2>1 DEF Positive
  <2>3. QED BY <2>2 DEF Positive
<1>2. K * s \in Int /\ K * t \in Int
  BY DEF Positive
<1>3. CASE s < t
  BY <1>1, <1>3
<1>4. CASE t < s
  <2>1. K * t < K * s
    BY <1>1, <1>4
  <2>2. QED BY <1>2, <1>4, <2>1
<1>5. CASE s = t
  BY <1>2, <1>5
<1>6. QED BY <1>3, <1>4, <1>5

\* Shifted to the top of the word, the low x bits are all that is left, and
\* keep their sign.
LEMMA Shifted ==
  ASSUME PowersOfTwo, NEW x \in 1 .. W, NEW v \in Int
  PROVE  /\ zext(x, v) \in Int /\ signed(x, v) \in Int
         /\ cmp_trunc(x, v) = 2^(W - x) * zext(x, v)
         /\ signed(W, cmp_trunc(x, v)) = 2^(W - x) * signed(x, v)
<1>1. PICK X \in Positive, K \in Positive, M \in Positive :
        /\ X = 2^x /\ K = 2^(W - x) /\ M = 2^(x - 1)
        /\ 2^W = X * K /\ X = 2 * M /\ 2^(W - 1) = M * K
  BY Powers
<1>2. PICK q \in Int : q = v \div X
  BY Divided
<1>3. PICK r \in 0 .. X - 1 : r = v % X
  BY Divided
<1>4. v = X * q + r
  BY <1>2, <1>3, Divided
<1>5. PICK N \in Positive : N = X * K
  BY DEF Positive
<1>6. PICK s \in 0 .. N - 1 : s = K * r
  <2>1. PICK d \in Nat : X = r + 1 + d
    BY DEF Positive
  <2>2. X * K = K * r + K + K * d /\ K * d >= 0 /\ K * r \in Nat
    BY <2>1 DEF Positive
  <2>3. QED BY <1>5, <2>2 DEF Positive
<1>7. v * K = N * q + s /\ v * K \in Int
  BY <1>4, <1>5, <1>6 DEF Positive
<1>8. (v * K) % N = s
  BY <1>7, DividedIs
<1>9. cmp_trunc(x, v) = s
  BY <1>1, <1>5, <1>8 DEF cmp_trunc, Word
<1>10. zext(x, v) = r
  BY <1>1, <1>3 DEF zext
<1>11. signed(x, v) = IF r >= M THEN r - X ELSE r
  BY <1>1, <1>3 DEF signed
<1>12. s % N = s
  BY Small
<1>13. signed(W, s) = IF s >= M * K THEN s - N ELSE s
  BY <1>1, <1>5, <1>12 DEF signed
<1>14. M * K = K * M /\ K * M \in Int /\ K * r \in Int
  BY DEF Positive
<1>15. s >= M * K <=> r >= M
  <2>1. K * r < K * M <=> r < M
    BY Multiples DEF Positive
  <2>2. QED BY <1>6, <1>14, <2>1 DEF Positive
<1>16. K * (r - X) = s - N
  BY <1>5, <1>6 DEF Positive
<1>17. signed(W, s) = K * signed(x, v)
  <2>1. CASE r >= M
    BY <1>11, <1>13, <1>15, <1>16, <2>1
  <2>2. CASE ~(r >= M)
    BY <1>6, <1>11, <1>13, <1>15, <2>2
  <2>3. QED BY <2>1, <2>2
<1>18. signed(x, v) \in Int
  BY <1>11 DEF Positive
<1>19. QED BY <1>1, <1>6, <1>9, <1>10, <1>17, <1>18

\* A hart in its 32-bit mode (x = W / 2) compares the lower halves of its
\* registers, whatever the upper halves hold: as numbers with and without sign,
\* and for equality, which is how slt, sltu and the branches compare.
THEOREM CompareCorrect ==
  ASSUME PowersOfTwo, NEW x \in 1 .. W, NEW v \in Int, NEW w \in Int
  PROVE  /\ less(x, v, w) <=> signed(x, v) < signed(x, w)
         /\ lessWord(x, v, w) <=> zext(x, v) < zext(x, w)
         /\ cmp_trunc(x, v) = cmp_trunc(x, w) <=> zext(x, v) = zext(x, w)
<1>1. PICK K \in Positive : K = 2^(W - x)
  BY Powers
<1>2. PICK s \in Int : s = signed(x, v)
  BY Shifted
<1>3. PICK t \in Int : t = signed(x, w)
  BY Shifted
<1>4. PICK m \in Int : m = zext(x, v)
  BY Shifted
<1>5. PICK n \in Int : n = zext(x, w)
  BY Shifted
<1>6. /\ signed(W, cmp_trunc(x, v)) = K * s /\ signed(W, cmp_trunc(x, w)) = K * t
      /\ cmp_trunc(x, v) = K * m /\ cmp_trunc(x, w) = K * n
  BY <1>1, <1>2, <1>3, <1>4, <1>5, Shifted
<1>7. (K * s < K * t <=> s < t) /\ (K * m < K * n <=> m < n) /\ (K * n < K * m <=> n < m)
  BY Multiples
<1>8. K * m = K * n <=> m = n
  <2>1. K * m \in Int /\ K * n \in Int
    BY DEF Positive
  <2>2. QED BY <1>7, <2>1
<1>9. QED BY <1>2, <1>3, <1>4, <1>5, <1>6, <1>7, <1>8 DEF less, lessWord

\* Sign extension (sext32 and sext_xprlen) gives a word of the same signed
\* value, and leaves the low bits as they were.
THEOREM SextCorrect ==
  ASSUME PowersOfTwo, NEW x \in 1 .. W, NEW v \in Int
  PROVE  /\ sext(x, v) \in Unsigned
         /\ signed(W, sext(x, v)) = signed(x, v)
         /\ zext(x, sext(x, v)) = zext(x, v)
<1>1. PICK X \in Positive, K \in Positive, M \in Positive :
        /\ X = 2^x /\ K = 2^(W - x) /\ M = 2^(x - 1)
        /\ 2^W = X * K /\ X = 2 * M /\ 2^(W - 1) = M * K
  BY Powers
<1>2. PICK r \in 0 .. X - 1 : r = v % X
  BY Divided
<1>3. PICK N \in Positive : N = X * K
  BY DEF Positive
<1>4. PICK T \in Positive : T = M * K
  BY DEF Positive
<1>5. N = 2 * T /\ T >= M /\ N >= X
  <2>1. PICK d \in Nat : K = 1 + d
    BY DEF Positive
  <2>2. M * K = M + M * d /\ X * K = X + X * d /\ M * d >= 0 /\ X * d >= 0
    BY <2>1 DEF Positive
  <2>3. (2 * M) * K = 2 * (M * K)
    BY DEF Positive
  <2>4. QED BY <1>1, <1>3, <1>4, <2>2, <2>3 DEF Positive
<1>6. signed(x, v) = IF r >= M THEN r - X ELSE r
  BY <1>1, <1>2 DEF signed
<1>7. zext(x, v) = r
  BY <1>1, <1>2 DEF zext
<1>8. ASSUME NEW u \in 0 .. N - 1
      PROVE  signed(W, u) = IF u >= T THEN u - N ELSE u
  <2>1. u % N = u
    BY Small
  <2>2. QED BY <1>1, <1>3, <1>4, <2>1 DEF signed
<1>9. CASE r >= M
  <2>1. PICK u \in 0 .. N - 1 : u = N + r - X
    BY <1>5 DEF Positive
  <2>2. r - X = N * (-1) + u /\ r - X \in Int
    BY <2>1 DEF Positive
  <2>3. (r - X) % N = u
    BY <2>2, DividedIs
  <2>4. sext(x, v) = u
    BY <1>1, <1>3, <1>6, <1>9, <2>3 DEF sext, Word
  <2>5. u >= T
    BY <1>1, <1>5, <1>9, <2>1 DEF Positive
  <2>6. signed(W, u) = r - X
    BY <1>8, <2>1, <2>5 DEF Positive
  <2>7. u % X = r
    <3>1. u = X * (K - 1) + r /\ u \in Int /\ K - 1 \in Int
      BY <1>3, <2>1 DEF Positive
    <3>2. QED BY <3>1, DividedIs
  <2>8. QED BY <1>1, <1>3, <1>6, <1>7, <1>9, <2>4, <2>6, <2>7 DEF zext, Unsigned
<1>10. CASE ~(r >= M)
  <2>1. r \in 0 .. N - 1
    BY <1>5 DEF Positive
  <2>2. r % N = r
    BY <2>1, Small
  <2>3. sext(x, v) = r
    BY <1>1, <1>3, <1>6, <1>10, <2>2 DEF sext, Word
  <2>4. signed(W, r) = r
    BY <1>5, <1>8, <1>10, <2>1 DEF Positive
  <2>5. r % X = r
    BY Small
  <2>6. QED BY <1>1, <1>3, <1>6, <1>7, <1>10, <2>1, <2>3, <2>4, <2>5 DEF zext, Unsigned
<1>11. QED BY <1>9, <1>10

------------------------------------------------------------------------------
\* Division.

\* The division of C, which the model writes with floors: the quotient is
\* rounded toward zero, so the remainder is smaller than the divisor and has
\* the sign of the dividend.
THEOREM DivisionCorrect ==
  ASSUME NEW a \in Int, NEW b \in Int, b # 0
  PROVE  /\ quotient(a, b) \in Int /\ remainder(a, b) \in Int
         /\ a = b * quotient(a, b) + remainder(a, b)
         /\ magnitude(remainder(a, b)) < magnitude(b)
         /\ remainder(a, b) = 0 \/ (remainder(a, b) < 0 <=> a < 0)
<1>1. PICK m \in Nat : m = magnitude(a)
  BY Magnitudes
<1>2. PICK n \in Positive : n = magnitude(b)
  BY Magnitudes DEF magnitude, Positive
<1>3. PICK q \in Int : q = m \div n
  BY Divided
<1>4. PICK r \in 0 .. n - 1 : r = m % n
  BY Divided
<1>5. m = n * q + r
  BY <1>3, <1>4, Divided
<1>6. quotient(a, b) = IF (a < 0) # (b < 0) THEN -q ELSE q
  BY <1>1, <1>2, <1>3 DEF quotient
<1>7. b * quotient(a, b) = IF a < 0 THEN -(n * q) ELSE n * q
  <2>1. CASE b < 0
    <3>1. n = -b
      BY <1>2, <2>1 DEF magnitude
    <3>2. b * q = -(n * q) /\ b * (-q) = n * q
      BY <3>1
    <3>3. QED BY <1>6, <2>1, <3>2
  <2>2. CASE ~(b < 0)
    <3>1. n = b
      BY <1>2, <2>2 DEF magnitude
    <3>2. b * q = n * q /\ b * (-q) = -(n * q)
      BY <3>1
    <3>3. QED BY <1>6, <2>2, <3>2
  <2>3. QED BY <2>1, <2>2
<1>8. n * q \in Int /\ quotient(a, b) \in Int
  BY <1>6 DEF Positive
<1>9. remainder(a, b) = IF a < 0 THEN -r ELSE r
  <2>1. CASE a < 0
    <3>1. m = -a
      BY <1>1, <2>1 DEF magnitude
    <3>2. QED BY <1>5, <1>7, <1>8, <2>1, <3>1 DEF remainder
  <2>2. CASE ~(a < 0)
    <3>1. m = a
      BY <1>1, <2>2 DEF magnitude
    <3>2. QED BY <1>5, <1>7, <1>8, <2>2, <3>1 DEF remainder
  <2>3. QED BY <2>1, <2>2
<1>10. a = b * quotient(a, b) + remainder(a, b)
  <2>1. PICK k \in Int : k = b * quotient(a, b)
    BY <1>7, <1>8
  <2>2. QED BY <2>1 DEF remainder
<1>11. magnitude(remainder(a, b)) = r
  BY <1>9 DEF magnitude, Positive
<1>12. QED BY <1>2, <1>8, <1>9, <1>10, <1>11 DEF Positive

------------------------------------------------------------------------------
\* Rounding.

\* Adding the increment of a mode and cutting the extra bits off rounds up
\* from one half, from anything, or never.
Increments(s, v, h, X, t) ==
    /\ s % X = v
    /\ (s + h) \div X = IF v >= h THEN t + 1 ELSE t
    /\ (s + (X - 1)) \div X = IF v # 0 THEN t + 1 ELSE t
    /\ (s + 0) \div X = t

LEMMA Incremented ==
  ASSUME NEW h \in Positive, NEW X \in Positive, NEW t \in Nat, NEW v \in 0 .. X - 1,
         NEW s, X = 2 * h, s = X * t + v
  PROVE  Increments(s, v, h, X, t)
<1>0. X = 2 * h /\ s = X * t + v
  OBVIOUS
<1>1. PICK k \in Int : k = X * t
  BY DEF Positive
<1>2. X * (t + 1) = k + X /\ s = k + v
  BY <1>0, <1>1 DEF Positive
<1>3. ASSUME NEW b \in Int, NEW e \in 0 .. X - 1, b = k + e
      PROVE  b \div X = t /\ b % X = e
  BY <1>1, <1>3, DividedIs
<1>4. ASSUME NEW b \in Int, NEW e \in 0 .. X - 1, b = k + X + e
      PROVE  b \div X = t + 1
  <2>1. b = X * (t + 1) + e /\ t + 1 \in Int
    BY <1>2, <1>4
  <2>2. QED BY <2>1, DividedIs
<1>5. s % X = v /\ (s + 0) \div X = t
  BY <1>2, <1>3
<1>6. (s + h) \div X = IF v >= h THEN t + 1 ELSE t
  <2>1. CASE v >= h
    <3>1. s + h = k + X + (v - h) /\ v - h \in 0 .. X - 1
      BY <1>0, <1>2, <2>1 DEF Positive
    <3>2. QED BY <1>2, <1>4, <2>1, <3>1 DEF Positive
  <2>2. CASE ~(v >= h)
    <3>1. s + h = k + (v + h) /\ v + h \in 0 .. X - 1
      BY <1>0, <1>2, <2>2 DEF Positive
    <3>2. QED BY <1>2, <1>3, <2>2, <3>1 DEF Positive
  <2>3. QED BY <2>1, <2>2
<1>7. (s + (X - 1)) \div X = IF v # 0 THEN t + 1 ELSE t
  <2>1. CASE v # 0
    <3>1. s + (X - 1) = k + X + (v - 1) /\ v - 1 \in 0 .. X - 1
      BY <1>0, <1>2, <2>1 DEF Positive
    <3>2. QED BY <1>2, <1>4, <2>1, <3>1 DEF Positive
  <2>2. CASE v = 0
    <3>1. s + (X - 1) = k + (X - 1) /\ X - 1 \in 0 .. X - 1
      BY <1>0, <1>2, <2>2 DEF Positive
    <3>2. QED BY <1>2, <1>3, <2>2, <3>1 DEF Positive
  <2>3. QED BY <2>1, <2>2
<1>8. QED BY <1>5, <1>6, <1>7 DEF Increments

Modes == {"near_even", "near_maxMag", "minMag", "min", "max"}

\* The significand a in units of d, rounded once as the reference rounds.
RoundedTo(rm, sign, a, d) ==
    IF R!RoundsUp(rm, sign = 1, a \div d, 2 * (a % d) - d, a % d # 0, FALSE)
    THEN a \div d + 1 ELSE a \div d

\* A significand has at least two extra bits.
ExtraBits(x) == \E y \in Positive : 2^x = 4 * y /\ 2^(x - 1) = 2 * y

\* What roundPack makes of a significand s: a in units of d, rounded once, and
\* rest bits that are zero when nothing is lost.
RoundsOnce(x, rm, sign, s, a, d) ==
    /\ clearTie((s + roundIncrement(x, rm, sign)) \div 2^x, s % 2^x, 2^(x - 1), rm)
         = RoundedTo(rm, sign, a, d)
    /\ s % 2^x # 0 <=> a % d # 0

\* s and n lie alike among the multiples of g and of d: below, at and above
\* the same ones.
Side(s, g, n, d) ==
    \A k \in Nat : (s < g * k <=> n < d * k) /\ (g * k < s <=> d * k < n)

LEMMA SideTransitive ==
  ASSUME NEW s, NEW g, NEW n, NEW d, NEW m, NEW e, Side(s, g, n, d), Side(n, d, m, e)
  PROVE  Side(s, g, m, e)
BY Zenon DEF Side

\* So do equal ratios, whatever the units.
LEMMA SideOfRatios ==
  ASSUME NEW s \in Nat, NEW g \in Positive, NEW n \in Nat, NEW d \in Positive,
         s * d = n * g
  PROVE  Side(s, g, n, d)
<1> SUFFICES ASSUME NEW k \in Nat
             PROVE  (s < g * k <=> n < d * k) /\ (g * k < s <=> d * k < n)
  BY DEF Side
<1>1. PICK G \in Nat : G = g * k
  BY DEF Positive
<1>2. PICK E \in Nat : E = d * k
  BY DEF Positive
<1>3. d * G = g * E
  BY <1>1, <1>2 DEF Positive
<1>4. d * s = g * n /\ d * s \in Int /\ d * G \in Int
  BY DEF Positive
<1>5. (d * s < d * G <=> s < G) /\ (d * G < d * s <=> G < s)
  BY Multiples
<1>6. (g * n < g * E <=> n < E) /\ (g * E < g * n <=> E < n)
  BY Multiples
<1>7. QED BY <1>1, <1>2, <1>3, <1>4, <1>5, <1>6

\* Multiples of a multiple are multiples.
LEMMA SideCoarser ==
  ASSUME NEW s, NEW g \in Nat, NEW n, NEW d \in Nat, Side(s, g, n, d), NEW j \in Nat
  PROVE  Side(s, j * g, n, j * d)
<1> SUFFICES ASSUME NEW k \in Nat
             PROVE  (s < j * g * k <=> n < j * d * k) /\ (j * g * k < s <=> j * d * k < n)
  BY DEF Side
<1>1. j * g * k = g * (j * k) /\ j * d * k = d * (j * k) /\ j * k \in Nat
  OBVIOUS
<1>2. PICK i \in Nat : i = j * k
  BY <1>1
<1>3. (s < g * i <=> n < d * i) /\ (g * i < s <=> d * i < n)
  BY DEF Side
<1>4. QED BY <1>1, <1>2, <1>3, Zenon

\* Bits that are shifted out and jammed into the last one leave a significand
\* on the same side of every even number.
LEMMA SideOfJam ==
  ASSUME NEW s \in Nat, NEW D \in Positive, NEW c \in Positive
  PROVE  /\ Side(Jam(s \div D, s % D # 0), 2 * c, s, D * (2 * c))
         /\ Jam(s \div D, s % D # 0) \in Nat
<1>1. PICK q \in Nat : q = s \div D
  BY DEF Positive
<1>2. PICK r \in 0 .. D - 1 : r = s % D
  BY DEF Positive
<1>3. s = D * q + r
  BY <1>1, <1>2, Divided
<1>4. PICK z : z = Jam(s \div D, s % D # 0)
  OBVIOUS
<1>5. z = IF r # 0 /\ q % 2 = 0 THEN q + 1 ELSE q
  BY <1>1, <1>2, <1>4 DEF Jam
<1>6. z \in Nat
  BY <1>5
<1>7. ASSUME NEW k \in Nat
      PROVE  /\ z < 2 * c * k <=> s < D * (2 * c) * k
             /\ 2 * c * k < z <=> D * (2 * c) * k < s
  <2>1. PICK i \in Nat : i = c * k
    BY DEF Positive
  <2>2. 2 * c * k = 2 * i /\ D * (2 * c) * k = D * (2 * i)
    BY <2>1 DEF Positive
  <2>3. (D * q < D * (2 * i) <=> q < 2 * i) /\ (D * (2 * i) < D * q <=> 2 * i < q)
    BY Multiples
  <2>4. q < 2 * i => D * q + D <= D * (2 * i)
    <3>1. SUFFICES ASSUME q < 2 * i PROVE D * q + D <= D * (2 * i)
      OBVIOUS
    <3>2. PICK d \in Nat : 2 * i = q + 1 + d
      <4>1. 2 * i - q - 1 \in Nat /\ 2 * i = q + 1 + (2 * i - q - 1)
        BY <3>1
      <4>2. QED BY <4>1
    <3>3. D * (2 * i) = D * q + D + D * d /\ D * d >= 0
      BY <3>2 DEF Positive
    <3>4. QED BY <3>3 DEF Positive
  <2>5. PICK u \in Int : u = D * q
    BY DEF Positive
  <2>6. PICK v \in Int : v = D * (2 * i)
    BY DEF Positive
  <2>7. s = u + r /\ (u < v <=> q < 2 * i) /\ (v < u <=> 2 * i < q) /\ (q < 2 * i => u + D <= v)
    BY <1>3, <2>3, <2>4, <2>5, <2>6
  <2>8. (z < 2 * i <=> s < v) /\ (2 * i < z <=> v < s)
    <3>1. CASE q < 2 * i
      BY <1>5, <2>7, <3>1 DEF Positive
    <3>2. CASE q = 2 * i
      BY <1>5, <2>7, <3>2 DEF Positive
    <3>3. CASE q > 2 * i
      BY <1>5, <2>7, <3>3 DEF Positive
    <3>4. QED BY <3>1, <3>2, <3>3
  <2>9. QED BY <2>2, <2>6, <2>8, Zenon
<1>8. QED BY <1>4, <1>6, <1>7, Zenon DEF Side

\* roundPack rounds what its significand stands for: s is on the same side of
\* every half unit as n, and the unit of n is 2 * d.
LEMMA SideRoundsOnce ==
  ASSUME NEW x, ExtraBits(x), NEW s \in Nat, NEW n \in Nat, NEW d \in Positive,
         Side(s, 2^(x - 1), n, d), NEW rm \in Modes, NEW sign \in {0, 1}
  PROVE  RoundsOnce(x, rm, sign, s, n, 2 * d)
<1>1. PICK h \in Positive : h = 2^(x - 1) /\ 2^x = 2 * h
  <2>1. PICK y \in Positive : 2^x = 4 * y /\ 2^(x - 1) = 2 * y
    BY DEF ExtraBits
  <2>2. 2 * y \in Positive /\ 4 * y = 2 * (2 * y)
    BY DEF Positive
  <2>3. QED BY <2>1, <2>2
<1>2. PICK X \in Positive : X = 2 * h
  BY DEF Positive
<1>3. PICK e \in Positive : e = 2 * d
  BY DEF Positive
<1>4. PICK t \in Nat : t = n \div e
  BY DEF Positive
<1>5. PICK r \in 0 .. e - 1 : r = n % e
  BY DEF Positive
<1>6. n = e * t + r
  BY <1>4, <1>5, Divided
<1>7. PICK v \in Int : v = s - X * t
  BY DEF Positive
<1>8. /\ v < 0 <=> FALSE
      /\ 0 < v <=> 0 < r
      /\ v < h <=> r < d
      /\ h < v <=> d < r
      /\ v < X
  <2>1. \A k \in Nat : (s < h * k <=> n < d * k) /\ (h * k < s <=> d * k < n)
    BY <1>1 DEF Side
  <2>2. 2 * t \in Nat /\ 2 * t + 1 \in Nat /\ 2 * t + 2 \in Nat
    OBVIOUS
  <2>3. PICK a \in Int : a = X * t
    BY DEF Positive
  <2>4. h * (2 * t) = a /\ h * (2 * t + 1) = a + h /\ h * (2 * t + 2) = a + X
    BY <1>2, <2>3 DEF Positive
  <2>5. PICK b \in Int : b = e * t
    BY DEF Positive
  <2>6. d * (2 * t) = b /\ d * (2 * t + 1) = b + d /\ d * (2 * t + 2) = b + e
    BY <1>3, <2>5 DEF Positive
  <2>7. /\ (s < a <=> n < b) /\ (a < s <=> b < n)
        /\ (s < a + h <=> n < b + d) /\ (a + h < s <=> b + d < n)
        /\ (s < a + X <=> n < b + e)
    BY <2>1, <2>2, <2>4, <2>6
  <2>8. v = s - a /\ n = b + r
    BY <1>6, <1>7, <2>3, <2>5
  <2>9. QED BY <2>7, <2>8 DEF Positive
<1>9. v \in 0 .. X - 1 /\ (v = 0 <=> r = 0)
  BY <1>8 DEF Positive
<1>10. Increments(s, v, h, X, t)
  <2>1. X * t \in Int
    BY DEF Positive
  <2>2. s = X * t + v
    BY <1>7, <2>1
  <2>3. QED BY <1>2, <1>9, <2>2, Incremented, Zenon
<1>11. /\ 2 * r - e >= 0 <=> v >= h
       /\ 2 * r - e > 0 <=> v > h
       /\ 2 * r - e = 0 <=> v = h
  BY <1>3, <1>8 DEF Positive
<1>12. RoundedTo(rm, sign, n, 2 * d)
         = IF R!RoundsUp(rm, sign = 1, t, 2 * r - e, r # 0, FALSE) THEN t + 1 ELSE t
  BY <1>3, <1>4, <1>5 DEF RoundedTo
<1>13. clearTie((s + roundIncrement(x, rm, sign)) \div X, v, h, rm)
         = IF R!RoundsUp(rm, sign = 1, t, 2 * r - e, r # 0, FALSE) THEN t + 1 ELSE t
  <2>1. CASE rm = "near_even"
    <3>1. roundIncrement(x, rm, sign) = h
      BY <1>1, <2>1 DEF roundIncrement
    <3>2. (IF R!RoundsUp(rm, sign = 1, t, 2 * r - e, r # 0, FALSE) THEN t + 1 ELSE t)
            = IF v > h \/ (v = h /\ t % 2 = 1) THEN t + 1 ELSE t
      BY <1>11, <2>1 DEF R!RoundsUp
    <3>3. (t + 1) % 2 = 1 <=> t % 2 # 1
      OBVIOUS
    <3>4. clearTie((s + h) \div X, v, h, rm)
            = IF v > h \/ (v = h /\ t % 2 = 1) THEN t + 1 ELSE t
      BY <1>10, <2>1, <3>3 DEF clearTie, Positive, Increments
    <3>5. QED BY <3>1, <3>2, <3>4
  <2>2. CASE rm = "near_maxMag"
    BY <1>1, <1>11, <1>10, <2>2 DEF roundIncrement, clearTie, Increments, R!RoundsUp
  <2>3. CASE rm = "minMag"
    BY <1>10, <1>9, <2>3 DEF roundIncrement, clearTie, Increments, R!RoundsUp
  <2>4. CASE rm = "min"
    BY <1>1, <1>2, <1>9, <1>10, <2>4 DEF roundIncrement, clearTie, Increments, R!RoundsUp
  <2>5. CASE rm = "max"
    BY <1>1, <1>2, <1>9, <1>10, <2>5 DEF roundIncrement, clearTie, Increments, R!RoundsUp
  <2>6. QED BY <2>1, <2>2, <2>3, <2>4, <2>5 DEF Modes
<1>14. QED BY <1>1, <1>2, <1>3, <1>5, <1>9, <1>10, <1>12, <1>13 DEF Increments, RoundsOnce

\* So it is when s is a with its last bits jammed.
LEMMA JammedRoundsOnce ==
  ASSUME NEW x, ExtraBits(x), NEW a \in Nat, NEW D \in Positive,
         NEW rm \in Modes, NEW sign \in {0, 1}
  PROVE  RoundsOnce(x, rm, sign, Jam(a \div D, a % D # 0), a, D * 2^x)
<1>1. PICK y \in Positive : 2^x = 4 * y /\ 2^(x - 1) = 2 * y
  BY DEF ExtraBits
<1>2. D * (2 * y) \in Positive /\ D * 2^x = 2 * (D * (2 * y))
  BY <1>1 DEF Positive
<1>3. PICK s : s = Jam(a \div D, a % D # 0)
  OBVIOUS
<1>4. Side(s, 2 * y, a, D * (2 * y)) /\ s \in Nat
  BY <1>3, SideOfJam, Zenon
<1>5. RoundsOnce(x, rm, sign, s, a, 2 * (D * (2 * y)))
  BY <1>1, <1>2, <1>4, SideRoundsOnce
<1>6. QED BY <1>2, <1>3, <1>5
\* roundPack of a subnormal result (s_roundPackToF32.c, s_roundPackToF64.c):
\* with a negative exponent e the significand is first shifted right by -e,
\* losing bits, and then rounded.  The two steps together round the exact
\* significand once, in every mode, and report underflow and inexact exactly
\* when something was lost.
\* (A significand of f.w bits satisfies the last hypothesis.)
THEOREM SubnormalRoundedOnce ==
  ASSUME NEW f, f.w \in Int, f.inf \in Nat, f.inf > 1, ExtraBits(f.x),
         NEW rm \in Modes, NEW sign \in {0, 1}, NEW sig \in Nat,
         NEW e \in Int, e < 0, 2^(-e) \in Positive,
         -e < f.w \/ sig < 2^(-e)
  PROVE  roundPack(f, rm, sign, e, sig)
           = Result(packUI(f, sign, 0, RoundedTo(rm, sign, sig, 2^(-e) * 2^f.x)),
                    IF sig % (2^(-e) * 2^f.x) # 0 THEN {"underflow", "inexact"} ELSE {})
<1>1. PICK D \in Positive : D = 2^(-e)
  OBVIOUS
<1>2. PICK s : s = Jam(sig \div D, sig % D # 0)
  OBVIOUS
<1>3. shiftRightJam(f.w, sig, -e) = s
  <2>1. CASE -e < f.w
    <3>1. -e # 0
      BY ONLY e \in Int, e < 0
    <3>2. shiftRightJam(f.w, sig, -e) = Jam(sig \div 2^(-e), sig % 2^(-e) # 0)
      BY <2>1, <3>1, Zenon DEF shiftRightJam
    <3>3. QED BY <1>1, <1>2, <3>2, Zenon
  <2>2. CASE ~(-e < f.w)
    <3>1. sig < D
      BY <1>1, <2>2, Zenon
    <3>2. sig \in 0 .. D - 1
      BY <3>1 DEF Positive
    <3>3. sig % D = sig /\ sig \div D = 0
      BY <3>2, Small
    <3>4. s = Bit(sig # 0)
      BY <1>2, <3>3 DEF Jam, Bit
    <3>5. QED BY <2>2, <3>4, Zenon DEF shiftRightJam
  <2>3. QED BY <2>1, <2>2
<1>4. RoundsOnce(f.x, rm, sign, s, sig, D * 2^f.x)
  BY <1>2, JammedRoundsOnce, Zenon
<1>5. PICK z : z = clearTie((s + roundIncrement(f.x, rm, sign)) \div 2^f.x,
                            s % 2^f.x, 2^(f.x - 1), rm)
  OBVIOUS
<1>6. roundPack(f, rm, sign, e, sig)
        = Result(packUI(f, sign, 0, z),
                 FlagIf("underflow", s % 2^f.x # 0) \cup FlagIf("inexact", s % 2^f.x # 0))
  <2>1. ~(e > f.inf - 2) /\ e # f.inf - 2
    BY ONLY e \in Int, e < 0, f.inf \in Nat, f.inf > 1
  <2>2. QED BY <1>3, <1>5, <2>1 DEF roundPack, detectTininess
<1>7. FlagIf("underflow", s % 2^f.x # 0) \cup FlagIf("inexact", s % 2^f.x # 0)
        = IF sig % (D * 2^f.x) # 0 THEN {"underflow", "inexact"} ELSE {}
  BY <1>4 DEF RoundsOnce, FlagIf
<1>8. z = RoundedTo(rm, sign, sig, D * 2^f.x)
  BY <1>4, <1>5 DEF RoundsOnce
<1>9. QED BY <1>1, <1>6, <1>7, <1>8

\* roundPack of a result in the normal range that does not overflow: the
\* significand is rounded once and inexact reported exactly when bits are lost.
THEOREM NormalRoundedOnce ==
  ASSUME NEW f, ExtraBits(f.x), f.inf \in Int, 2^(f.w - 1) \in Int,
         NEW rm \in Modes, NEW sign \in {0, 1}, NEW sig \in Nat, NEW e \in Nat,
         \/ e < f.inf - 2
         \/ e = f.inf - 2 /\ sig + roundIncrement(f.x, rm, sign) < 2^(f.w - 1)
  PROVE  LET z == RoundedTo(rm, sign, sig, 2^f.x)
         IN  roundPack(f, rm, sign, e, sig)
               = Result(packUI(f, sign, IF z = 0 THEN 0 ELSE e, z),
                        IF sig % 2^f.x # 0 THEN {"inexact"} ELSE {})
<1>1. sig = Jam(sig \div 1, sig % 1 # 0)
  BY DEF Jam
<1>2. 1 * 2^f.x = 2^f.x
  BY DEF ExtraBits, Positive
<1>3. 1 \in Positive
  BY DEF Positive
<1>4. RoundsOnce(f.x, rm, sign, sig, sig, 2^f.x)
  BY <1>1, <1>2, <1>3, JammedRoundsOnce, Zenon
<1>5. PICK z : z = clearTie((sig + roundIncrement(f.x, rm, sign)) \div 2^f.x,
                            sig % 2^f.x, 2^(f.x - 1), rm)
  OBVIOUS
<1>6. roundIncrement(f.x, rm, sign) \in Int
  BY DEF roundIncrement, ExtraBits, Positive
<1>7. roundPack(f, rm, sign, e, sig)
        = Result(packUI(f, sign, IF z = 0 THEN 0 ELSE e, z),
                 {} \cup FlagIf("inexact", sig % 2^f.x # 0))
  <2>1. PICK b \in Int : b = sig + roundIncrement(f.x, rm, sign)
    BY ONLY <1>6, sig \in Nat
  <2>2. PICK m \in Int : m = 2^(f.w - 1)
    OBVIOUS
  <2>3. e < f.inf - 2 \/ (e = f.inf - 2 /\ b < m)
    BY <2>1, <2>2, Zenon
  <2>4. ~(e < 0) /\ ~(e > f.inf - 2) /\ ~(e = f.inf - 2 /\ b >= m)
    BY ONLY <2>3, b \in Int, m \in Int, e \in Nat, f.inf \in Int
  <2>5. QED BY <1>5, <2>1, <2>2, <2>4 DEF roundPack
<1>8. {} \cup FlagIf("inexact", sig % 2^f.x # 0) = IF sig % 2^f.x # 0 THEN {"inexact"} ELSE {}
  BY DEF FlagIf
<1>9. z = RoundedTo(rm, sign, sig, 2^f.x)
  BY <1>4, <1>5 DEF RoundsOnce
<1>10. QED BY <1>7, <1>8, <1>9

------------------------------------------------------------------------------
\* Powers of two.  The provers know nothing about exponentiation; its laws are
\* the hypothesis of the theorems that need them.
PowersHold == \A n \in Nat : PowerLaws(n)

LEMMA Power ==
  ASSUME PowersHold, NEW i \in Nat, NEW j \in Nat
  PROVE  /\ 2^0 = 1 /\ 2^i \in Positive /\ i < 2^i
         /\ 2^(i + j) = 2^i * 2^j /\ 2^(i + 1) = 2 * 2^i
<1>1. PICK n \in Nat : n = i + j + 1
  OBVIOUS
<1>2. PowerLaws(n)
  BY DEF PowersHold
<1>3. i \in 0 .. n /\ j \in 0 .. n /\ 1 \in 0 .. n
  BY <1>1
<1>4. 2^0 = 1 /\ 2^1 = 2 /\ 2^i \in Nat /\ i < 2^i
      /\ 2^(i + j) = 2^i * 2^j /\ 2^(i + 1) = 2^i * 2^1
  BY <1>2, <1>3 DEF PowerLaws
<1>5. QED BY <1>4 DEF Positive

\* Larger exponents make larger powers.
LEMMA PowerOrder ==
  ASSUME PowersHold, NEW i \in Nat, NEW j \in Nat, i <= j
  PROVE  2^i <= 2^j /\ (i < j => 2 * 2^i <= 2^j)
<1>1. PICK d \in Nat : j = i + d
  <2>1. j - i \in Nat /\ j = i + (j - i)
    OBVIOUS
  <2>2. QED BY <2>1
<1>2. PICK P \in Positive : P = 2^i
  BY Power
<1>3. PICK Q \in Positive : Q = 2^d
  BY Power
<1>4. 2^j = P * Q
  BY <1>1, <1>2, <1>3, Power
<1>5. P * Q >= P
  <2>1. PICK g \in Nat : Q = 1 + g
    <3>1. Q - 1 \in Nat /\ Q = 1 + (Q - 1)
      BY DEF Positive
    <3>2. QED BY <3>1
  <2>2. P * Q = P + P * g /\ P * g >= 0
    BY <2>1 DEF Positive
  <2>3. QED BY <2>2 DEF Positive
<1>6. ASSUME i < j PROVE P * Q >= 2 * P
  <2>1. d < Q /\ d # 0
    BY <1>1, <1>3, <1>6, Power
  <2>2. PICK g \in Nat : Q = 2 + g
    <3>1. Q - 2 \in Nat /\ Q = 2 + (Q - 2)
      BY <2>1 DEF Positive
    <3>2. QED BY <3>1
  <2>3. P * Q = 2 * P + P * g /\ P * g >= 0
    BY <2>2 DEF Positive
  <2>4. QED BY <2>3 DEF Positive
<1>7. P * Q \in Int
  BY DEF Positive
<1>8. QED BY <1>2, <1>4, <1>5, <1>6, <1>7 DEF Positive

\* The number of binary digits: k of them when 2^(k - 1) <= n < 2^k.
Lies(n, k) == k \in Positive /\ 2^(k - 1) <= n /\ n < 2^k

LEMMA LiesOnce ==
  ASSUME PowersHold, NEW n \in Nat, NEW k, NEW j, Lies(n, k), Lies(n, j)
  PROVE  k = j
<1>1. /\ k \in Nat /\ j \in Nat /\ k - 1 \in Nat /\ j - 1 \in Nat
      /\ 2^k \in Nat /\ 2^j \in Nat /\ 2^(k - 1) \in Nat /\ 2^(j - 1) \in Nat
  <2>1. \A i \in Nat : 2^i \in Nat
    BY Power DEF Positive
  <2>2. k \in Nat /\ j \in Nat /\ k - 1 \in Nat /\ j - 1 \in Nat
    BY DEF Lies, Positive
  <2>3. QED BY <2>1, <2>2, Zenon
<1>2. ~(k < j)
  <2>1. SUFFICES ASSUME k < j PROVE FALSE
    OBVIOUS
  <2>2. 2^k <= 2^(j - 1)
    BY <1>1, <2>1, PowerOrder
  <2>3. QED BY <1>1, <2>2 DEF Lies
<1>3. ~(j < k)
  <2>1. SUFFICES ASSUME j < k PROVE FALSE
    OBVIOUS
  <2>2. 2^j <= 2^(k - 1)
    BY <1>1, <2>1, PowerOrder
  <2>3. QED BY <1>1, <2>2 DEF Lies
<1>4. QED BY <1>1, <1>2, <1>3

LEMMA LiesSomewhere ==
  ASSUME PowersHold, NEW n \in Positive
  PROVE  \E k : Lies(n, k)
<1> DEFINE T == {k \in Nat : n < 2^k}
<1>1. T \subseteq Nat /\ n \in T
  BY Power DEF Positive
<1>2. IsWellFoundedOn(OpToRel(<, Nat), Nat)
  BY NatLessThanWellFounded
<1>3. PICK k \in T : \A j \in T : ~(<<j, k>> \in OpToRel(<, Nat))
  <2> HIDE DEF T
  <2>1. QED BY <1>1, <1>2, WFMin, Zenon
<1>4. k \in Nat /\ n < 2^k /\ \A j \in Nat : j < k => ~(n < 2^j)
  BY <1>3 DEF OpToRel
<1>5. k # 0
  BY <1>4, Power DEF Positive
<1>6. k - 1 \in Nat /\ k - 1 < k /\ k \in Positive
  BY <1>4, <1>5 DEF Positive
<1>7. 2^(k - 1) <= n
  <2>1. ~(n < 2^(k - 1))
    BY <1>4, <1>6
  <2>2. 2^(k - 1) \in Nat
    BY <1>6, Power DEF Positive
  <2>3. QED BY <2>1, <2>2 DEF Positive
<1>8. QED BY <1>4, <1>6, <1>7 DEF Lies

\* What the definition chooses is that number.
LEMMA LengthLies ==
  ASSUME PowersHold, NEW n \in Positive
  PROVE  /\ Lies(n, R!Digits(n)) /\ BitLength(n) = R!Digits(n)
<1> DEFINE Z == 1 .. (IF n \div 2 < 2^30 THEN 31 ELSE n)
<1>1. ASSUME NEW k \in Positive
      PROVE  (n \div 2 < 2^(k - 1)) <=> n < 2^k
  <2>1. k - 1 \in Nat /\ k = (k - 1) + 1
    BY DEF Positive
  <2>2. 2^k = 2 * 2^(k - 1) /\ 2^(k - 1) \in Nat
    BY <2>1, Power DEF Positive
  <2>3. QED BY <2>2 DEF Positive
<1>2. PICK k : Lies(n, k)
  BY LiesSomewhere
<1>3. k \in Positive /\ 2^(k - 1) <= n /\ n \div 2 < 2^(k - 1)
  BY <1>1, <1>2 DEF Lies
<1>4. k \in Z
  <2>1. k - 1 \in Nat /\ 2^(k - 1) \in Nat /\ k - 1 < 2^(k - 1)
    <3>1. k - 1 \in Nat
      BY <1>3 DEF Positive
    <3>2. QED BY <3>1, Power DEF Positive
  <2>2. k <= n
    BY <1>3, <2>1 DEF Positive
  <2>3. ASSUME n \div 2 < 2^30 PROVE k <= 31
    <3>1. SUFFICES ASSUME k > 31 PROVE FALSE
      BY <1>3 DEF Positive
    <3>2. 2^31 <= 2^(k - 1)
      <4>1. 31 \in Nat /\ 31 <= k - 1
        BY <1>3, <3>1 DEF Positive
      <4>2. QED BY <2>1, <4>1, PowerOrder
    <3>3. 2^31 = 2 * 2^30 /\ 2^30 \in Nat
      <4>1. 30 \in Nat /\ 30 + 1 = 31
        OBVIOUS
      <4>2. QED BY <4>1, Power DEF Positive
    <3>4. QED BY <1>3, <2>1, <2>3, <3>2, <3>3 DEF Positive
  <2>4. QED BY <1>3, <2>2, <2>3 DEF Positive
<1>5. Z \subseteq Positive
  BY DEF Positive
<1> HIDE DEF Z
<1>6. PICK c : c = CHOOSE j \in Z : 2^(j - 1) <= n /\ n \div 2 < 2^(j - 1)
  OBVIOUS
<1>7. c \in Z /\ 2^(c - 1) <= n /\ n \div 2 < 2^(c - 1)
  BY <1>3, <1>4, <1>6, Zenon
<1>8. Lies(n, c)
  BY <1>1, <1>5, <1>7 DEF Lies
<1>9. R!Digits(n) = c /\ BitLength(n) = c
  <2>1. n # 0
    BY DEF Positive
  <2>2. QED BY <1>6, <2>1, Zenon DEF R!Digits, BitLength, Z
<1>10. QED BY <1>8, <1>9
\* What they say of a format.
FormatPowers(f) ==
    /\ f.inf \in Nat /\ f.inf >= 3
    /\ \A k \in {f.p - 1, f.p, f.x - 3, f.x - 2, f.x - 1, f.x, f.e, f.e + 1,
                 f.w - 2, f.w - 1, f.w} : 2^k \in Nat \ {0}
    /\ 2^f.p = 2 * 2^(f.p - 1) /\ 2^f.x = 2 * 2^(f.x - 1)
    /\ 2^(f.x - 1) = 2 * 2^(f.x - 2) /\ 2^(f.x - 2) = 2 * 2^(f.x - 3)
    /\ 2^f.e = f.inf + 1 /\ 2^(f.e + 1) = 2 * 2^f.e
    /\ 2^(f.w - 2) = 2^f.p * 2^f.x
    /\ 2^(f.w - 1) = 2 * 2^(f.w - 2) /\ 2^f.w = 2 * 2^(f.w - 1)
    /\ 2^(f.w - 1) = 2^f.p * 2^f.e

\* The exponent and fraction bits a format may have.
Sizes(e, p) == e \in Nat /\ e >= 4 /\ p \in Nat /\ p >= 2

LEMMA FormatHasPowers ==
  ASSUME PowersHold, NEW e, NEW p, Sizes(e, p)
  PROVE  FormatPowers(Format(e, p))
<1> DEFINE f == Format(e, p)
<1>1. /\ f.e = e /\ f.p = p /\ f.w = 1 + e + p /\ f.x = e - 1 /\ f.inf = 2^e - 1
      /\ f.bias = 2^(e - 1) - 1
  BY DEF Format
<1>2. /\ e \in Nat /\ p \in Nat /\ e >= 4 /\ p >= 2
      /\ \A k \in {p - 1, e - 4, e - 3, e - 2, e - 1, p + e - 1, p + e, p + e + 1} : k \in Nat
  BY DEF Sizes
<1>3. /\ f.x - 3 = e - 4 /\ f.x - 2 = e - 3 /\ f.x - 1 = e - 2 /\ f.w - 2 = p + e - 1
      /\ f.w - 1 = p + e /\ f.w = p + e + 1 /\ f.x = e - 1
  BY <1>1, <1>2
<1>4. /\ 2^(p - 1) \in Positive /\ 2^p \in Positive /\ 2^(e - 4) \in Positive
      /\ 2^(e - 3) \in Positive /\ 2^(e - 2) \in Positive /\ 2^(e - 1) \in Positive
      /\ 2^e \in Positive /\ 2^(e + 1) \in Positive /\ 2^(p + e - 1) \in Positive
      /\ 2^(p + e) \in Positive /\ 2^(p + e + 1) \in Positive /\ e < 2^e
  <2>1. \A k \in Nat : 2^k \in Positive /\ k < 2^k
    BY Power
  <2>2. /\ p - 1 \in Nat /\ p \in Nat /\ e - 4 \in Nat /\ e - 3 \in Nat /\ e - 2 \in Nat
        /\ e - 1 \in Nat /\ e \in Nat /\ e + 1 \in Nat /\ p + e - 1 \in Nat
        /\ p + e \in Nat /\ p + e + 1 \in Nat
    BY <1>2
  <2>3. QED BY <2>1, <2>2, Zenon
<1>5. /\ p = (p - 1) + 1 /\ e - 1 = (e - 2) + 1 /\ e - 2 = (e - 3) + 1 /\ e - 3 = (e - 4) + 1
      /\ p + e - 1 = p + (e - 1) /\ p + e = (p + e - 1) + 1
  BY <1>2
<1>6. 2^p = 2 * 2^(p - 1)
  BY <1>2, <1>5, Power
<1>7. 2^(e - 1) = 2 * 2^(e - 2) /\ 2^(e - 2) = 2 * 2^(e - 3) /\ 2^(e - 3) = 2 * 2^(e - 4)
  BY <1>2, <1>5, Power
<1>8. 2^(e + 1) = 2 * 2^e /\ 2^(p + e - 1) = 2^p * 2^(e - 1) /\ 2^(p + e) = 2 * 2^(p + e - 1)
  BY <1>2, <1>5, Power
<1>9. 2^(p + e + 1) = 2 * 2^(p + e) /\ 2^(p + e) = 2^p * 2^e
  BY <1>2, Power
<1>10. 2^e - 1 \in Nat /\ 2^e - 1 >= 3 /\ 2^e = (2^e - 1) + 1
  BY <1>2, <1>4 DEF Positive
<1> HIDE DEF f
<1>11. \A k \in {f.p - 1, f.p, f.x - 3, f.x - 2, f.x - 1, f.x, f.e, f.e + 1,
                 f.w - 2, f.w - 1, f.w} : 2^k \in Nat \ {0}
  BY <1>1, <1>3, <1>4, Zenon DEF Positive
<1>12. QED
  <2>1. FormatPowers(f)
    BY <1>1, <1>3, <1>6, <1>7, <1>8, <1>9, <1>10, <1>11, Zenon DEF FormatPowers
  <2>2. QED BY <2>1 DEF f

------------------------------------------------------------------------------
\* The fields of a pattern: sign s, exponent e and fraction r, and what kind of
\* pattern they make, for the library and for the reference.
Decoded(f, u, s, e, r) ==
  /\ u = 2^(f.w - 1) * s + (2^f.p * e + r)
  /\ signUI(f, u) = s /\ expUI(f, u) = e /\ fracUI(f, u) = r
  /\ R!Mag(f, u) = 2^f.p * e + r /\ 2^f.p * e + r \in 0 .. 2^(f.w - 1) - 1
  /\ R!Negative(f, u) <=> s = 1
  /\ isNaN(f, u) <=> e = f.inf /\ r # 0
  /\ R!NaN(f, u) <=> e = f.inf /\ r # 0
  /\ isSigNaN(f, u) <=> e = f.inf /\ r # 0 /\ r < 2^(f.p - 1)
  /\ R!Signaling(f, u) <=> e = f.inf /\ r # 0 /\ r < 2^(f.p - 1)
  /\ isZero(f, u) <=> 2^f.p * e + r = 0
  /\ isInf(f, u) <=> e = f.inf /\ r = 0
  /\ R!Infinite(f, u) <=> e = f.inf /\ r = 0

\* The same for numbers: P, H, E and T are 2^p, 2^(p - 1), 2^e and 2^(w - 1).
FormatNumbers(P, H, N, E, T) ==
  /\ P \in Positive /\ H \in Positive /\ P = 2 * H
  /\ N \in Nat /\ N >= 3 /\ E = N + 1
  /\ T \in Positive /\ T = P * E
FieldsAre(P, H, N, E, T, u, s, e, r) ==
  /\ P * e + r \in 0 .. T - 1
  /\ u \div T = s /\ u % T = P * e + r
  /\ u % P = r /\ (u \div P) % E = e
  /\ (u \div H) % (2 * E) = 2 * e + (IF r < H THEN 0 ELSE 1)
  /\ u % H = (IF r < H THEN r ELSE r - H)
  /\ P * N < P * e + r <=> e = N /\ r # 0
  /\ P * e + r < P * N + H /\ P * N < P * e + r <=> e = N /\ r # 0 /\ r < H
  /\ P * e + r = P * N <=> e = N /\ r = 0

LEMMA FieldNumbers ==
  ASSUME NEW P, NEW H, NEW N, NEW E, NEW T, FormatNumbers(P, H, N, E, T),
         NEW s \in {0, 1}, NEW e \in 0 .. N, NEW r \in 0 .. P - 1,
         NEW u, u = T * s + (P * e + r)
  PROVE  FieldsAre(P, H, N, E, T, u, s, e, r)
<1> SUFFICES ASSUME P \in Positive, H \in Positive, P = 2 * H, N \in Nat, N >= 3,
                    E = N + 1, T \in Positive, T = P * E
             PROVE  FieldsAre(P, H, N, E, T, u, s, e, r)
  BY DEF FormatNumbers
<1>1. PICK d \in Nat : N = e + d
  BY DEF Positive
<1>2. PICK X \in Nat : X = P * e
  BY DEF Positive
<1>3. PICK Y \in Nat : Y = P * d
  BY DEF Positive
<1>4. P * N = X + Y /\ T = X + Y + P /\ (d = 0 <=> Y = 0) /\ (d # 0 => Y >= P)
  <2>1. P * N = X + Y /\ P * (N + 1) = P * N + P
    BY <1>1, <1>2, <1>3 DEF Positive
  <2>2. d = 0 => Y = 0
    BY <1>3 DEF Positive
  <2>3. d # 0 => Y >= P
    <3>1. SUFFICES ASSUME d # 0 PROVE Y >= P
      OBVIOUS
    <3>2. PICK g \in Nat : d = g + 1
      BY <3>1
    <3>3. P * d = P * g + P /\ P * g >= 0
      BY <3>2 DEF Positive
    <3>4. QED BY <3>3, <1>3
  <2>4. QED BY <2>1, <2>2, <2>3 DEF Positive
<1>5. X + r \in 0 .. T - 1
  BY <1>4 DEF Positive
<1>6. u \div T = s /\ u % T = X + r
  <2>1. Splits(u, T, s, X + r)
    BY <1>2, <1>5 DEF Positive, Splits
  <2>2. QED BY <2>1, SplitsIs
<1>7. u = P * (E * s + e) + r /\ E * s + e \in Nat /\ u \in Nat
  <2>1. CASE s = 0
    BY <2>1, <1>2 DEF Positive
  <2>2. CASE s = 1
    <3>1. P * (E + e) = P * E + X
      BY <1>2 DEF Positive
    <3>2. QED BY <2>2, <3>1, <1>2 DEF Positive
  <2>3. QED BY <2>1, <2>2
<1>8. u \div P = E * s + e /\ u % P = r
  <2>1. Splits(u, P, E * s + e, r)
    BY <1>7 DEF Splits
  <2>2. QED BY <2>1, SplitsIs
<1>9. (E * s + e) % E = e
  <2>1. Splits(E * s + e, E, s, e)
    BY <1>7 DEF Positive, Splits
  <2>2. QED BY <2>1, SplitsIs
<1>10. PICK t \in {0, 1}, v \in 0 .. H - 1 :
          /\ r = H * t + v
          /\ t = (IF r < H THEN 0 ELSE 1) /\ v = (IF r < H THEN r ELSE r - H)
  <2>1. CASE r < H
    <3>1. r = H * 0 + r /\ r \in 0 .. H - 1
      BY <2>1 DEF Positive
    <3>2. QED BY <3>1, <2>1
  <2>2. CASE ~(r < H)
    <3>1. r = H * 1 + (r - H) /\ r - H \in 0 .. H - 1
      BY <2>2 DEF Positive
    <3>2. QED BY <3>1, <2>2
  <2>3. QED BY <2>1, <2>2
<1>11. u = H * (2 * (E * s + e) + t) + v /\ 2 * (E * s + e) + t \in Nat
  <2>1. PICK q \in Nat : q = E * s + e
    BY <1>7
  <2>2. u = (2 * H) * q + (H * t + v)
    BY <2>1, <1>7, <1>10
  <2>3. (2 * H) * q + (H * t + v) = H * (2 * q + t) + v
    BY DEF Positive
  <2>4. QED BY <2>1, <2>2, <2>3
<1>12. u \div H = 2 * (E * s + e) + t /\ u % H = v
  <2>1. Splits(u, H, 2 * (E * s + e) + t, v)
    BY <1>7, <1>11 DEF Splits
  <2>2. QED BY <2>1, SplitsIs
<1>13. (2 * (E * s + e) + t) % (2 * E) = 2 * e + t
  <2>1. 2 * (E * s + e) + t = (2 * E) * s + (2 * e + t)
    BY DEF Positive
  <2>2. 2 * E \in Positive /\ 2 * e + t \in 0 .. 2 * E - 1 /\ s \in Int
    BY DEF Positive
  <2>3. Splits(2 * (E * s + e) + t, 2 * E, s, 2 * e + t)
    BY <2>1, <2>2, <1>11 DEF Splits
  <2>4. QED BY <2>3, SplitsIs
<1>14. P * N < X + r <=> e = N /\ r # 0
  BY <1>1, <1>4 DEF Positive
<1>15. X + r < P * N + H /\ P * N < X + r <=> e = N /\ r # 0 /\ r < H
  BY <1>1, <1>4 DEF Positive
<1>16. X + r = P * N <=> e = N /\ r = 0
  BY <1>1, <1>4 DEF Positive
<1>17. QED BY <1>2, <1>5, <1>6, <1>8, <1>9, <1>10, <1>12, <1>13, <1>14, <1>15, <1>16
  DEF FieldsAre

LEMMA FieldsOf ==
  ASSUME NEW f, FormatPowers(f), NEW u \in 0 .. 2^f.w - 1
  PROVE  \E s \in {0, 1}, e \in 0 .. f.inf, r \in 0 .. 2^f.p - 1 : Decoded(f, u, s, e, r)
<1>1. PICK P \in Positive : P = 2^f.p
  BY DEF FormatPowers, Positive
<1>2. PICK H \in Positive : H = 2^(f.p - 1)
  BY DEF FormatPowers, Positive
<1>3. PICK N \in Nat : N = f.inf
  BY DEF FormatPowers
<1>4. PICK T \in Positive : T = 2^(f.w - 1)
  BY DEF FormatPowers, Positive
<1>5. PICK E \in Positive : E = 2^f.e
  BY DEF FormatPowers, Positive
<1>6. N >= 3 /\ P = 2 * H /\ E = N + 1 /\ T = P * E /\ 2^f.w = 2 * T /\ 2^(f.e + 1) = 2 * E
  BY <1>1, <1>2, <1>3, <1>4, <1>5 DEF FormatPowers
<1>7. u \in Nat /\ u < T * 2
  BY <1>6 DEF Positive
<1>8. PICK s \in {0, 1} : s = u \div T
  <2>1. u \div T \in Nat /\ u \div T < 2
    BY <1>7, SmallQuotient
  <2>2. QED BY <2>1
<1>9. PICK m \in 0 .. T - 1 : m = u % T /\ u = T * s + m
  BY <1>7, <1>8, Divided
<1>10. PICK e \in 0 .. N : e = m \div P
  <2>1. m \in Nat /\ m < P * E /\ E \in Nat
    BY <1>6, <1>9 DEF Positive
  <2>2. m \div P \in Nat /\ m \div P < E
    BY <2>1, SmallQuotient
  <2>3. QED BY <2>2, <1>6
<1>11. PICK r \in 0 .. P - 1 : m = P * e + r
  <2>1. m \in Int
    BY <1>9 DEF Positive
  <2>2. m % P \in 0 .. P - 1 /\ m = P * e + (m % P)
    BY <2>1, <1>10, Divided, Zenon
  <2>3. QED BY <2>2
<1>12. FieldsAre(P, H, N, E, T, u, s, e, r)
  <2>1. FormatNumbers(P, H, N, E, T)
    BY <1>6 DEF FormatNumbers
  <2>2. u = T * s + (P * e + r)
    BY <1>9, <1>11
  <2>3. QED BY <2>1, <2>2, FieldNumbers, Zenon
<1>13. N * P = P * N
  BY DEF Positive
<1>14. u >= T <=> s = 1
  <2>1. s = 0 => T * s = 0
    BY DEF Positive
  <2>2. s = 1 => T * s = T
    BY DEF Positive
  <2>3. QED BY <2>1, <2>2, <1>9 DEF Positive
<1>15. isNaN(f, u) <=> e = N /\ r # 0
  BY <1>1, <1>3, <1>4, <1>12 DEF FieldsAre, isNaN
<1>16. R!NaN(f, u) <=> e = N /\ r # 0
  BY <1>1, <1>3, <1>4, <1>12, <1>13 DEF FieldsAre, R!NaN, R!Mag, R!InfMag
<1>17. isSigNaN(f, u) <=> e = N /\ r # 0 /\ r < H
  <2>1. isSigNaN(f, u) <=> (u \div H) % (2 * E) = 2 * N /\ u % H # 0
    BY <1>2, <1>3, <1>6 DEF isSigNaN
  <2>2. 2 * e + (IF r < H THEN 0 ELSE 1) = 2 * N <=> e = N /\ r < H
    OBVIOUS
  <2>3. QED BY <2>1, <2>2, <1>12 DEF FieldsAre
<1>18. R!Signaling(f, u) <=> e = N /\ r # 0 /\ r < H
  BY <1>1, <1>2, <1>3, <1>4, <1>12, <1>13, <1>16 DEF FieldsAre, R!Signaling, R!Mag, R!InfMag
<1>19. signUI(f, u) = s /\ expUI(f, u) = e /\ fracUI(f, u) = r
  BY <1>1, <1>4, <1>5, <1>12 DEF FieldsAre, signUI, expUI, fracUI
<1>20. R!Mag(f, u) = P * e + r /\ (R!Negative(f, u) <=> s = 1)
  BY <1>4, <1>12, <1>14 DEF FieldsAre, R!Mag, R!Negative
<1>21. /\ isZero(f, u) <=> P * e + r = 0
       /\ isInf(f, u) <=> e = N /\ r = 0
       /\ R!Infinite(f, u) <=> e = N /\ r = 0
  BY <1>1, <1>3, <1>4, <1>12, <1>13 DEF FieldsAre, isZero, isInf, R!Infinite, R!Mag, R!InfMag
<1>22. Decoded(f, u, s, e, r)
  BY <1>1, <1>2, <1>3, <1>4, <1>9, <1>11, <1>12, <1>15, <1>16, <1>17, <1>18, <1>19,
     <1>20, <1>21 DEF Decoded, FieldsAre
<1>23. QED BY <1>1, <1>3, <1>22
------------------------------------------------------------------------------
\* Order.

LEMMA SignedOrder ==
  ASSUME NEW f, FormatPowers(f), NEW a \in 0 .. 2^f.w - 1, NEW b \in 0 .. 2^f.w - 1
  PROVE  /\ eqUI(f, a, b) <=> R!Rank(f, a) = R!Rank(f, b)
         /\ leUI(f, a, b) <=> R!Rank(f, a) <= R!Rank(f, b)
         /\ ltUI(f, a, b) <=> R!Rank(f, a) < R!Rank(f, b)
<1>1. PICK s \in {0, 1}, e \in 0 .. f.inf, r \in 0 .. 2^f.p - 1 : Decoded(f, a, s, e, r)
  BY FieldsOf
<1>2. PICK t \in {0, 1}, g \in 0 .. f.inf, q \in 0 .. 2^f.p - 1 : Decoded(f, b, t, g, q)
  BY FieldsOf
<1>3. PICK T \in Positive : T = 2^(f.w - 1)
  BY DEF FormatPowers, Positive
<1>4. PICK m \in 0 .. T - 1 : m = 2^f.p * e + r
  BY <1>1, <1>3 DEF Decoded
<1>5. PICK n \in 0 .. T - 1 : n = 2^f.p * g + q
  BY <1>2, <1>3 DEF Decoded
<1>6. /\ signUI(f, a) = s /\ (isZero(f, a) <=> m = 0)
      /\ R!Rank(f, a) = IF s = 1 THEN -m ELSE m
  BY <1>1, <1>4 DEF Decoded, R!Rank
<1>7. /\ signUI(f, b) = t /\ (isZero(f, b) <=> n = 0)
      /\ R!Rank(f, b) = IF t = 1 THEN -n ELSE n
  BY <1>2, <1>5 DEF Decoded, R!Rank
<1>8. a = IF s = 1 THEN T + m ELSE m
  <2>1. a = T * s + m
    BY <1>1, <1>3, <1>4 DEF Decoded
  <2>2. QED BY <2>1 DEF Positive
<1>9. b = IF t = 1 THEN T + n ELSE n
  <2>1. b = T * t + n
    BY <1>2, <1>3, <1>5 DEF Decoded
  <2>2. QED BY <2>1 DEF Positive
<1>10. eqUI(f, a, b) <=> R!Rank(f, a) = R!Rank(f, b)
  BY <1>6, <1>7, <1>8, <1>9 DEF Positive, eqUI, bothZero
<1>11. leUI(f, a, b) <=> R!Rank(f, a) <= R!Rank(f, b)
  <2>1. CASE s # t
    <3>1. leUI(f, a, b) <=> s = 1 \/ (m = 0 /\ n = 0)
      BY <2>1, <1>6, <1>7 DEF leUI, bothZero
    <3>2. QED BY <3>1, <2>1, <1>6, <1>7 DEF Positive
  <2>2. CASE s = t
    <3>1. leUI(f, a, b) <=> a = b \/ (s = 1) # (a < b)
      BY <2>2, <1>6, <1>7 DEF leUI
    <3>2. CASE s = 1
      <4>1. leUI(f, a, b) <=> a = b \/ ~(a < b)
        BY <3>1, <3>2
      <4>2. QED BY <4>1, <3>2, <2>2, <1>6, <1>7, <1>8, <1>9 DEF Positive
    <3>3. CASE s = 0
      <4>1. leUI(f, a, b) <=> a = b \/ a < b
        BY <3>1, <3>3
      <4>2. QED BY <4>1, <3>3, <2>2, <1>6, <1>7, <1>8, <1>9 DEF Positive
    <3>4. QED BY <3>2, <3>3
  <2>3. QED BY <2>1, <2>2
<1>12. ltUI(f, a, b) <=> R!Rank(f, a) < R!Rank(f, b)
  <2>1. CASE s # t
    <3>1. ltUI(f, a, b) <=> s = 1 /\ ~(m = 0 /\ n = 0)
      BY <2>1, <1>6, <1>7 DEF ltUI, bothZero
    <3>2. QED BY <3>1, <2>1, <1>6, <1>7 DEF Positive
  <2>2. CASE s = t
    <3>1. ltUI(f, a, b) <=> a # b /\ (s = 1) # (a < b)
      BY <2>2, <1>6, <1>7 DEF ltUI
    <3>2. CASE s = 1
      <4>1. ltUI(f, a, b) <=> a # b /\ ~(a < b)
        BY <3>1, <3>2
      <4>2. QED BY <4>1, <3>2, <2>2, <1>6, <1>7, <1>8, <1>9 DEF Positive
    <3>3. CASE s = 0
      <4>1. ltUI(f, a, b) <=> a # b /\ a < b
        BY <3>1, <3>3
      <4>2. QED BY <4>1, <3>3, <2>2, <1>6, <1>7, <1>8, <1>9 DEF Positive
    <3>4. QED BY <3>2, <3>3
  <2>3. QED BY <2>1, <2>2
<1>13. QED BY <1>10, <1>11, <1>12

LEMMA NaNsAgree ==
  ASSUME NEW f, FormatPowers(f), NEW a \in 0 .. 2^f.w - 1
  PROVE  /\ isNaN(f, a) <=> R!NaN(f, a)
         /\ isSigNaN(f, a) <=> R!Signaling(f, a)
<1>1. PICK s \in {0, 1}, e \in 0 .. f.inf, r \in 0 .. 2^f.p - 1 : Decoded(f, a, s, e, r)
  BY FieldsOf
<1>2. QED BY <1>1 DEF Decoded

\* The comparisons of one format, quiet and signaling.
Ordered(f, a, b) ==
  /\ unorderedOr(f, a, b, TRUE, eqUI(f, a, b))
       = R!Compare(f, a, b, TRUE, R!Rank(f, a) = R!Rank(f, b))
  /\ unorderedOr(f, a, b, FALSE, eqUI(f, a, b))
       = R!Compare(f, a, b, FALSE, R!Rank(f, a) = R!Rank(f, b))
  /\ unorderedOr(f, a, b, TRUE, leUI(f, a, b))
       = R!Compare(f, a, b, TRUE, R!Rank(f, a) <= R!Rank(f, b))
  /\ unorderedOr(f, a, b, FALSE, leUI(f, a, b))
       = R!Compare(f, a, b, FALSE, R!Rank(f, a) <= R!Rank(f, b))
  /\ unorderedOr(f, a, b, TRUE, ltUI(f, a, b))
       = R!Compare(f, a, b, TRUE, R!Rank(f, a) < R!Rank(f, b))
  /\ unorderedOr(f, a, b, FALSE, ltUI(f, a, b))
       = R!Compare(f, a, b, FALSE, R!Rank(f, a) < R!Rank(f, b))

LEMMA ComparisonsOrder ==
  ASSUME NEW f, FormatPowers(f), NEW a \in 0 .. 2^f.w - 1, NEW b \in 0 .. 2^f.w - 1
  PROVE  Ordered(f, a, b)
<1>1. /\ isNaN(f, a) <=> R!NaN(f, a)
      /\ isSigNaN(f, a) <=> R!Signaling(f, a)
      /\ isNaN(f, b) <=> R!NaN(f, b)
      /\ isSigNaN(f, b) <=> R!Signaling(f, b)
  BY NaNsAgree
<1>2. /\ eqUI(f, a, b) <=> R!Rank(f, a) = R!Rank(f, b)
      /\ leUI(f, a, b) <=> R!Rank(f, a) <= R!Rank(f, b)
      /\ ltUI(f, a, b) <=> R!Rank(f, a) < R!Rank(f, b)
  BY SignedOrder
<1>3. QED
  BY ONLY <1>1, <1>2
  DEF Ordered, unorderedOr, anyNaN, Result, FlagIf, Bit, R!Compare, R!Outcome, R!Set

LEMMA PickSmaller ==
  ASSUME NEW f, FormatPowers(f), NEW a \in 0 .. 2^f.w - 1, NEW b \in 0 .. 2^f.w - 1
  PROVE  /\ Between(f, pick(isNaN(f, b), unorderedOr(f, a, b, TRUE, ltUI(f, a, b)), a, b).ui,
                     a, b, TRUE)
         /\ Between(f, pick(isNaN(f, b), unorderedOr(f, b, a, TRUE, leUI(f, b, a)), a, b).ui,
                     a, b, FALSE)
<1>1. (isNaN(f, a) <=> R!NaN(f, a)) /\ (isNaN(f, b) <=> R!NaN(f, b))
  BY NaNsAgree
<1>2. R!Rank(f, a) \in Int /\ R!Rank(f, b) \in Int
  <2>1. 2^(f.w - 1) \in Nat \ {0}
    BY DEF FormatPowers
  <2>2. QED BY <2>1 DEF R!Rank, R!Mag
<1>3. /\ ltUI(f, a, b) <=> R!Rank(f, a) < R!Rank(f, b)
      /\ leUI(f, b, a) <=> R!Rank(f, b) <= R!Rank(f, a)
  BY SignedOrder
<1>4. QED
  BY ONLY <1>1, <1>2, <1>3 DEF Between, pick, unorderedOr, anyNaN, Result, Bit

LEMMA ClassOne ==
  ASSUME NEW f, FormatPowers(f), NEW a \in 0 .. 2^f.w - 1
  PROVE  classify(f, a) = {R!Class(f, a)}
<1>1. PICK s \in {0, 1}, e \in 0 .. f.inf, r \in 0 .. 2^f.p - 1 : Decoded(f, a, s, e, r)
  BY FieldsOf
<1>2. PICK P \in Positive : P = 2^f.p
  BY DEF FormatPowers, Positive
<1>3. PICK N \in Nat : N = f.inf /\ N >= 3
  BY DEF FormatPowers
<1>4. PICK m \in Nat : m = P * e
  BY <1>2, <1>3 DEF Positive
<1>5. (m = 0 <=> e = 0) /\ (e # 0 => m >= P)
  <2>1. e = 0 => m = 0
    BY <1>4 DEF Positive
  <2>2. e # 0 => m >= P
    <3>1. SUFFICES ASSUME e # 0 PROVE m >= P
      OBVIOUS
    <3>2. PICK d \in Nat : e = d + 1
      BY <3>1, <1>3
    <3>3. P * e = P * d + P /\ P * d >= 0
      BY <3>2 DEF Positive
    <3>4. QED BY <3>3, <1>4 DEF Positive
  <2>3. QED BY <2>1, <2>2 DEF Positive
<1>6. (R!Zero(f, a) <=> e = 0 /\ r = 0) /\ (R!Subnormal(f, a) <=> e = 0)
  <2>1. R!Mag(f, a) = m + r /\ r \in 0 .. P - 1
    BY <1>1, <1>2, <1>4 DEF Decoded
  <2>2. QED BY <2>1, <1>2, <1>5 DEF R!Zero, R!Subnormal, Positive
<1>7. /\ signUI(f, a) = s /\ expUI(f, a) = e /\ fracUI(f, a) = r
      /\ R!Negative(f, a) <=> s = 1
      /\ isNaN(f, a) <=> e = N /\ r # 0
      /\ R!NaN(f, a) <=> e = N /\ r # 0
      /\ isSigNaN(f, a) <=> R!Signaling(f, a)
      /\ R!Infinite(f, a) <=> e = N /\ r = 0
      /\ R!Signaling(f, a) => e = N /\ r # 0
  BY <1>1, <1>3 DEF Decoded
<1>8. s \in {0, 1} /\ e \in Int /\ r \in Int /\ N \in Int /\ N >= 3 /\ f.inf = N
  BY <1>2, <1>3
<1>9. CASE e = N /\ r # 0
  <2>1. R!Class(f, a) = IF R!Signaling(f, a) THEN 8 ELSE 9
    BY <1>7, <1>9 DEF R!Class
  <2>2. classify(f, a) = {IF R!Signaling(f, a) THEN 8 ELSE 9}
    BY ONLY <1>7, <1>8, <1>9 DEF classify
  <2>3. QED BY <2>1, <2>2
<1>10. CASE e = N /\ r = 0
  <2>1. R!Class(f, a) = IF s = 1 THEN 0 ELSE 7
    BY ONLY <1>6, <1>7, <1>8, <1>10 DEF R!Class
  <2>2. classify(f, a) = {IF s = 1 THEN 0 ELSE 7}
    BY ONLY <1>7, <1>8, <1>10 DEF classify
  <2>3. QED BY <2>1, <2>2
<1>11. CASE e = 0 /\ r = 0
  <2>1. R!Class(f, a) = IF s = 1 THEN 3 ELSE 4
    BY ONLY <1>6, <1>7, <1>8, <1>11 DEF R!Class
  <2>2. classify(f, a) = {IF s = 1 THEN 3 ELSE 4}
    BY ONLY <1>7, <1>8, <1>11 DEF classify
  <2>3. QED BY <2>1, <2>2
<1>12. CASE e = 0 /\ r # 0
  <2>1. R!Class(f, a) = IF s = 1 THEN 2 ELSE 5
    BY ONLY <1>6, <1>7, <1>8, <1>12 DEF R!Class
  <2>2. classify(f, a) = {IF s = 1 THEN 2 ELSE 5}
    BY ONLY <1>7, <1>8, <1>12 DEF classify
  <2>3. QED BY <2>1, <2>2
<1>13. CASE e # 0 /\ e # N
  <2>1. R!Class(f, a) = IF s = 1 THEN 1 ELSE 6
    BY ONLY <1>6, <1>7, <1>8, <1>13 DEF R!Class
  <2>2. classify(f, a) = {IF s = 1 THEN 1 ELSE 6}
    BY ONLY <1>7, <1>8, <1>13 DEF classify
  <2>3. QED BY <2>1, <2>2
<1>14. QED BY <1>9, <1>10, <1>11, <1>12, <1>13

\* What a call's operands are: patterns of the format it is made in.
OrderOperands ==
  /\ CalledOnce("binary32") => rs1 \in 0 .. 2^F32.w - 1 /\ rs2 \in 0 .. 2^F32.w - 1
  /\ CalledOnce("binary64") => rs1 \in 0 .. 2^F64.w - 1 /\ rs2 \in 0 .. 2^F64.w - 1
  /\ CalledOnce("sqrt32") => rs1 \in 0 .. 2^F32.w - 1
  /\ CalledOnce("sqrt64") => rs1 \in 0 .. 2^F64.w - 1

LEMMA LowPattern ==
  ASSUME FormatPowers(F32), NEW a \in 0 .. 2^F32.w - 1
  PROVE  low32(a) = a
<1>1. PICK n \in Positive : n = 2^F32.w
  BY DEF FormatPowers, Positive
<1>2. QED BY <1>1, Small DEF low32

\* For formats of any size and every pair of patterns, feq, flt, fle and their
\* quiet and signaling versions order patterns as the numbers they stand for,
\* zeros equal, NaNs unordered and invalid raised as it should be; fmin and
\* fmax return a number when there is one, and fclass the one kind its operand
\* has.
THEOREM OrderAlwaysCorrect ==
  ASSUME PowersHold, Sizes(E32, P32), Sizes(E64, P64)
  PROVE  OrderOperands => OrderCorrect
<1> SUFFICES ASSUME OrderOperands, FormatPowers(F32), FormatPowers(F64)
             PROVE  OrderCorrect
  BY FormatHasPowers DEF F32, F64
<1>1. ASSUME CalledOnce("binary32"), NEW a, NEW b, rs1 = a, rs2 = b
      PROVE  /\ feq_s(a, b) = R!Compare(F32, a, b, TRUE, R!Rank(F32, a) = R!Rank(F32, b))
             /\ flt_s(a, b) = R!Compare(F32, a, b, FALSE, R!Rank(F32, a) < R!Rank(F32, b))
             /\ fle_s(a, b) = R!Compare(F32, a, b, FALSE, R!Rank(F32, a) <= R!Rank(F32, b))
             /\ f32_eq_signaling(a, b)
                  = R!Compare(F32, a, b, FALSE, R!Rank(F32, a) = R!Rank(F32, b))
             /\ f32_lt_quiet(a, b)
                  = R!Compare(F32, a, b, TRUE, R!Rank(F32, a) < R!Rank(F32, b))
             /\ f32_le_quiet(a, b)
                  = R!Compare(F32, a, b, TRUE, R!Rank(F32, a) <= R!Rank(F32, b))
             /\ Between(F32, fmin_s(a, b).ui, a, b, TRUE)
             /\ Between(F32, fmax_s(a, b).ui, a, b, FALSE)
  <2>1. a \in 0 .. 2^F32.w - 1 /\ b \in 0 .. 2^F32.w - 1
    BY <1>1 DEF OrderOperands
  <2>2. low32(a) = a /\ low32(b) = b
    BY <2>1, LowPattern
  <2>3. Ordered(F32, a, b)
    BY <2>1, ComparisonsOrder
  <2>4. /\ Between(F32, fmin_s(a, b).ui, a, b, TRUE)
        /\ Between(F32, fmax_s(a, b).ui, a, b, FALSE)
    BY <2>1, <2>2, PickSmaller, Zenon DEF fmin_s, fmax_s, f32_lt_quiet, f32_le_quiet
  <2>5. QED BY <2>2, <2>3, <2>4, Zenon
    DEF Ordered, feq_s, flt_s, fle_s, f32_eq, f32_lt, f32_le, f32_eq_signaling,
        f32_lt_quiet, f32_le_quiet
<1>2. ASSUME CalledOnce("binary64"), NEW a, NEW b, rs1 = a, rs2 = b
      PROVE  /\ feq_d(a, b) = R!Compare(F64, a, b, TRUE, R!Rank(F64, a) = R!Rank(F64, b))
             /\ flt_d(a, b) = R!Compare(F64, a, b, FALSE, R!Rank(F64, a) < R!Rank(F64, b))
             /\ fle_d(a, b) = R!Compare(F64, a, b, FALSE, R!Rank(F64, a) <= R!Rank(F64, b))
             /\ f64_eq_signaling(a, b)
                  = R!Compare(F64, a, b, FALSE, R!Rank(F64, a) = R!Rank(F64, b))
             /\ f64_lt_quiet(a, b)
                  = R!Compare(F64, a, b, TRUE, R!Rank(F64, a) < R!Rank(F64, b))
             /\ f64_le_quiet(a, b)
                  = R!Compare(F64, a, b, TRUE, R!Rank(F64, a) <= R!Rank(F64, b))
             /\ Between(F64, fmin_d(a, b).ui, a, b, TRUE)
             /\ Between(F64, fmax_d(a, b).ui, a, b, FALSE)
  <2>1. a \in 0 .. 2^F64.w - 1 /\ b \in 0 .. 2^F64.w - 1
    BY <1>2 DEF OrderOperands
  <2>2. Ordered(F64, a, b)
    BY <2>1, ComparisonsOrder
  <2>3. /\ Between(F64, fmin_d(a, b).ui, a, b, TRUE)
        /\ Between(F64, fmax_d(a, b).ui, a, b, FALSE)
    BY <2>1, PickSmaller, Zenon DEF fmin_d, fmax_d, f64_lt_quiet, f64_le_quiet
  <2>4. QED BY <2>2, <2>3, Zenon
    DEF Ordered, feq_d, flt_d, fle_d, f64_eq, f64_lt, f64_le, f64_eq_signaling,
        f64_lt_quiet, f64_le_quiet
<1>3. CalledOnce("sqrt32") => fclass_s(rs1) = {R!Class(F32, rs1)}
  <2>1. SUFFICES ASSUME NEW a \in 0 .. 2^F32.w - 1 PROVE fclass_s(a) = {R!Class(F32, a)}
    BY DEF OrderOperands
  <2>2. QED BY LowPattern, ClassOne DEF fclass_s, f32_classify
<1>4. CalledOnce("sqrt64") => fclass_d(rs1) = {R!Class(F64, rs1)}
  <2>1. SUFFICES ASSUME NEW a \in 0 .. 2^F64.w - 1 PROVE fclass_d(a) = {R!Class(F64, a)}
    BY DEF OrderOperands
  <2>2. QED BY ClassOne DEF fclass_d, f64_classify
<1>5. QED BY <1>1, <1>2, <1>3, <1>4, Zenon DEF OrderCorrect

------------------------------------------------------------------------------
\* Tags.  What the macros make of two tags, under each policy.

LEMMA MacroTags ==
  ASSUME NEW p \in Policies, NEW s \in Tags, NEW t \in Tags,
         NEW z \in {I(p)!TAG_ADD(s, t), I(p)!TAG_LOGIC(s, t), I(p)!TAG_ARITH(s, t)}
  PROVE  /\ IsReturn(z) => IsReturn(s) \/ IsReturn(t)
         /\ p = "NO_RETURN_COPY" => ~IsReturn(z)
<1>1. CASE p = "none"
  <2>1. z \in {I(p)!BitXor(s, t), s \cap t}
    BY <1>1, Zenon DEF I!TAG_ADD, I!TAG_LOGIC, I!TAG_ARITH
  <2>2. QED BY <1>1, <2>1 DEF IsReturn, I!BitXor
<1>2. CASE p = "NO_RETURN_COPY"
  <2>1. z \in {I(p)!CLEAR_PC_TAG(I(p)!BitXor(s, t)), I(p)!CLEAR_PC_TAG(s \cap t)}
    BY <1>2, Zenon DEF I!TAG_ADD, I!TAG_LOGIC, I!TAG_ARITH
  <2>2. QED BY <2>1 DEF IsReturn, I!CLEAR_PC_TAG, I!TAG_PC
<1>3. CASE p = "NO_PARTIAL_COPY"
  <2>1. z \in {I(p)!TAG_MAX(s, t), I(p)!TAG_MIN(s, t)}
    BY <1>3, Zenon DEF I!TAG_ADD, I!TAG_LOGIC, I!TAG_ARITH
  <2>2. QED
    BY <1>3, <2>1
    DEF IsReturn, I!TAG_MAX, I!TAG_MIN, I!PRIV_MASK, I!UNPRIV_MASK, I!TAG_PC, I!TAG_DATA
<1>4. QED BY <1>1, <1>2, <1>3 DEF Policies

\* Which macro each instruction uses, or that it traps.
FromMacro(p, s, t) ==
  {I(p)!TAG_ADD(s, t), I(p)!TAG_LOGIC(s, t), I(p)!TAG_ARITH(s, t), {}, I(p)!NoTag}

LEMMA SumTags ==
  ASSUME NEW p, NEW x, NEW r, NEW q, NEW o \in {"add", "sub"}
  PROVE  Insn(o, p, x, r, q).tag = I(p)!TAG_ADD(r.tag, q.tag)
BY Zenon DEF Insn, I!add, I!sub, I!TAG_SUB, I!Sum, I!RD

LEMMA LogicTags ==
  ASSUME NEW p, NEW x, NEW r, NEW q,
         NEW o \in {"and", "or", "xor", "sll", "srl", "sra", "slt", "sltu"}
  PROVE  Insn(o, p, x, r, q).tag = I(p)!TAG_LOGIC(r.tag, q.tag)
BY Zenon
DEF Insn, I!and, I!or, I!xor, I!sll, I!srl, I!sra, I!slt, I!sltu, I!Logic, I!RD

LEMMA ArithTags ==
  ASSUME NEW p, NEW x, NEW r, NEW q,
         NEW o \in {"mul", "mulh", "mulhsu", "mulhu", "div", "divu"}
  PROVE  Insn(o, p, x, r, q).tag = I(p)!TAG_ARITH(r.tag, q.tag)
BY Zenon DEF Insn, I!mul, I!mulh, I!mulhsu, I!mulhu, I!div, I!divu, I!Arith, I!RD

\* A remainder by zero copies its dividend.
LEMMA RemTags ==
  ASSUME NEW p, NEW x, NEW r, NEW q, NEW o \in {"rem", "remu"}
  PROVE  \/ Insn(o, p, x, r, q).tag \in FromMacro(p, r.tag, q.tag)
         \/ /\ Insn(o, p, x, r, q).tag = r.tag
            /\ o = "rem" => signed(x, q.val) = 0
            /\ o = "remu" => zext(x, q.val) = 0
<1>1. CASE o = "rem"
  <2>1. Insn(o, p, x, r, q) = I(p)!rem(x, r, q)
    BY <1>1, Zenon DEF Insn
  <2>2. \/ I(p)!signed(x, q.val) = 0 /\ I(p)!rem(x, r, q).tag = r.tag
        \/ I(p)!rem(x, r, q).tag = I(p)!TAG_NULL
        \/ I(p)!rem(x, r, q).tag = I(p)!TAG_ARITH(r.tag, q.tag)
    BY Zenon DEF I!rem, I!RD, I!Arith
  <2>3. I(p)!signed(x, q.val) = signed(x, q.val)
    BY Zenon DEF signed, I!signed
  <2>4. QED BY <1>1, <2>1, <2>2, <2>3 DEF FromMacro, I!TAG_NULL
<1>2. CASE o = "remu"
  <2>1. Insn(o, p, x, r, q) = I(p)!remu(x, r, q)
    BY <1>2, Zenon DEF Insn
  <2>2. \/ I(p)!zext(x, q.val) = 0 /\ I(p)!remu(x, r, q).tag = r.tag
        \/ I(p)!remu(x, r, q).tag = I(p)!TAG_ARITH(r.tag, q.tag)
    BY Zenon DEF I!remu, I!RD, I!Arith
  <2>3. I(p)!zext(x, q.val) = zext(x, q.val)
    BY Zenon DEF zext, I!zext
  <2>4. QED BY <1>2, <2>1, <2>2, <2>3 DEF FromMacro
<1>3. QED BY <1>1, <1>2

\* The word forms are those, for the wide mode only.
Narrowed(p, r, q, z) == z.tag \in FromMacro(p, r.tag, q.tag) \cup {r.tag}

LEMMA WordTags ==
  ASSUME NEW p, NEW x, NEW r, NEW q, NEW o \in WordOps
  PROVE  Narrowed(p, r, q, Insn(o, p, x, r, q))
<1>1. ASSUME NEW z, Narrowed(p, r, q, z) PROVE Narrowed(p, r, q, I(p)!require_xpr64(x, z))
  BY <1>1 DEF Narrowed, FromMacro, I!require_xpr64, I!illegal
<1>2. ASSUME NEW v PROVE /\ Narrowed(p, r, q, I(p)!Sum(v, r, q))
                         /\ Narrowed(p, r, q, I(p)!Logic(v, r, q))
                         /\ Narrowed(p, r, q, I(p)!Arith(v, r, q))
                         /\ Narrowed(p, r, q, I(p)!RD(v, r.tag))
                         /\ Narrowed(p, r, q, I(p)!RD(v, I(p)!TAG_SUB(r.tag, q.tag)))
  BY DEF Narrowed, FromMacro, I!Sum, I!Logic, I!Arith, I!RD, I!TAG_SUB
<1>3. CASE o \in {"addw", "subw"}
  BY <1>1, <1>2, <1>3, Zenon DEF Insn, I!addw, I!subw
<1>4. CASE o \in {"sllw", "srlw", "sraw"}
  BY <1>1, <1>2, <1>4, Zenon DEF Insn, I!sllw, I!srlw, I!sraw
<1>5. CASE o \in {"mulw", "divw", "divuw"}
  BY <1>1, <1>2, <1>5, Zenon DEF Insn, I!mulw, I!divw, I!divuw
<1>6. CASE o = "remw"
  <2>1. Insn(o, p, x, r, q) = I(p)!remw(x, r, q)
    BY <1>6, Zenon DEF Insn
  <2>2. QED BY <1>1, <1>2, <2>1, Zenon DEF I!remw
<1>7. CASE o = "remuw"
  <2>1. Insn(o, p, x, r, q) = I(p)!remuw(x, r, q)
    BY <1>7, Zenon DEF Insn
  <2>2. QED BY <1>1, <1>2, <2>1, Zenon DEF I!remuw
<1>8. CASE o \in {"addiw", "slliw", "srliw", "sraiw"}
  BY <1>1, <1>2, <1>8, Zenon DEF Insn, I!addiw, I!slliw, I!srliw, I!sraiw
<1>9. QED BY <1>3, <1>4, <1>5, <1>6, <1>7, <1>8 DEF WordOps

\* With an immediate, the tag of the register is kept.
LEMMA ImmediateTags ==
  ASSUME NEW p, NEW x, NEW r, NEW q, NEW o \in ImmOps \cup ShiftOps
  PROVE  Insn(o, p, x, r, q).tag \in {r.tag, I(p)!NoTag}
<1>1. CASE o \in ImmOps
  BY <1>1, Zenon
  DEF ImmOps, Insn, I!addi, I!andi, I!ori, I!xori, I!slti, I!sltiu, I!RD
<1>2. CASE o \in ShiftOps
  BY <1>2, Zenon DEF ShiftOps, Insn, I!slli, I!srli, I!srai, I!RD, I!illegal
<1>3. QED BY <1>1, <1>2

\* An atomic operation returns the word of memory with its tag, and stores a
\* word whose tag comes from the two, or is that of the register.
LEMMA AmoTags ==
  ASSUME NEW p, NEW r, NEW q, NEW o \in AmoOps
  PROVE  /\ Amo(o, p, W, r, q).rd.tag = r.tag
         /\ Amo(o, p, W, r, q).mem.tag \in FromMacro(p, r.tag, q.tag) \cup {q.tag}
<1>1. ASSUME NEW v, NEW t
      PROVE  /\ I(p)!Amo(v, t, r).rd.tag = r.tag /\ I(p)!Amo(v, t, r).mem.tag = t
             /\ I(p)!AmoW(v, t, r).rd.tag = r.tag /\ I(p)!AmoW(v, t, r).mem.tag = t
  BY DEF I!Amo, I!AmoW, I!RD
<1>2. ASSUME NEW z PROVE I(p)!require_xpr64(W, z) = z
  BY DEF I!require_xpr64
<1>3. CASE o \in {"add_w", "add_d"}
  <2>1. \E v : Amo(o, p, W, r, q) \in {I(p)!Amo(v, I(p)!TAG_ADD(r.tag, q.tag), r),
                                       I(p)!AmoW(v, I(p)!TAG_ADD(r.tag, q.tag), r)}
    BY <1>2, <1>3, Zenon DEF Amo, I!amoadd_w, I!amoadd_d
  <2>2. QED BY <1>1, <2>1 DEF FromMacro
<1>4. CASE o \in {"swap_w", "swap_d"}
  <2>1. \E v : Amo(o, p, W, r, q) \in {I(p)!Amo(v, q.tag, r), I(p)!AmoW(v, q.tag, r)}
    BY <1>2, <1>4, Zenon DEF Amo, I!amoswap_w, I!amoswap_d
  <2>2. QED BY <1>1, <2>1
<1>5. CASE o \in {"and_w", "and_d", "or_w", "or_d", "xor_w", "xor_d", "max_w", "max_d",
                  "maxu_d", "minu_w"}
  <2>1. \E v : Amo(o, p, W, r, q) \in {I(p)!Amo(v, I(p)!TAG_LOGIC(r.tag, q.tag), r),
                                       I(p)!AmoW(v, I(p)!TAG_LOGIC(r.tag, q.tag), r)}
    BY <1>2, <1>5, Zenon
    DEF Amo, I!logicTag, I!amoand_w, I!amoand_d, I!amoor_w, I!amoor_d, I!amoxor_w, I!amoxor_d,
        I!amomax_w, I!amomax_d, I!amomaxu_d, I!amominu_w
  <2>2. QED BY <1>1, <2>1 DEF FromMacro
<1>6. QED BY <1>3, <1>4, <1>5 DEF AmoOps

\* The operands of a call about tags: the second one is a word.
TagOperands == Called("tags") => rs2 \in 0 .. 2^W - 1

\* For registers of any width and every value and tag in them, under every
\* policy: no instruction that computes from integer registers gives its result
\* the return tag unless an operand has it, nor does an atomic operation, except
\* the four that make the tag from the value of the word (amomaxu_w, amomin_d,
\* amomin_w, amominu_d); under NO_RETURN_COPY only a remainder by zero returns
\* one at all; and an instruction that writes rd's value alone (decode.h:133)
\* leaves one in rd only where it was.
THEOREM TagsNeverForged == TagOperands => TagsNotForged
<1> SUFFICES ASSUME TagOperands, Called("tags"), NEW p \in Policies,
                    NEW s \in Tags, NEW t \in Tags, NEW u, NEW v, NEW x,
                    rs1 = u, rs2 = v, rs3 = x
             PROVE  LET r == [val |-> u, tag |-> s]
                        q == [val |-> v, tag |-> t]
                        forged(z) == IsReturn(z.tag) /\ ~ IsReturn(s) /\ ~ IsReturn(t)
                    IN  /\ \A o \in RegOps \cup WordOps : ~ forged(Insn(o, p, x, r, q))
                        /\ p = "NO_RETURN_COPY" /\ x = W =>
                              \A o \in RegOps : IsReturn(Insn(o, p, x, r, q).tag)
                                                  => o \in {"rem", "remu"} /\ v = 0
                        /\ \A o \in ImmOps \cup ShiftOps :
                              Insn(o, p, x, r, q).tag \in {s, I(p)!NoTag}
                        /\ x = W => \A o \in AmoOps :
                              /\ ~ forged(Amo(o, p, x, r, q).mem)
                              /\ ~ forged(Amo(o, p, x, r, q).rd)
                        /\ IsReturn(I(p)!WRITE_RD(q, u).tag) => IsReturn(t)
  BY Zenon DEF TagsNotForged
<1> DEFINE r == [val |-> u, tag |-> s]
           q == [val |-> v, tag |-> t]
<1>1. r.tag = s /\ q.tag = t /\ q.val = v
  OBVIOUS
<1> HIDE DEF r, q
<1>2. ASSUME NEW z \in FromMacro(p, s, t)
      PROVE  /\ IsReturn(z) => IsReturn(s) \/ IsReturn(t)
             /\ p = "NO_RETURN_COPY" => ~IsReturn(z)
  <2>1. CASE z \in {{}, I(p)!NoTag}
    BY <2>1 DEF IsReturn, I!NoTag
  <2>2. QED BY <1>2, <2>1, MacroTags DEF FromMacro
<1>3. ASSUME NEW o \in RegOps
      PROVE  \/ Insn(o, p, x, r, q).tag \in FromMacro(p, s, t)
             \/ /\ Insn(o, p, x, r, q).tag = s /\ o \in {"rem", "remu"}
                /\ x = W => v = 0
  <2>1. CASE o \in {"add", "sub"}
    BY <1>1, <2>1, SumTags DEF FromMacro
  <2>2. CASE o \in {"and", "or", "xor", "sll", "srl", "sra", "slt", "sltu"}
    BY <1>1, <2>2, LogicTags DEF FromMacro
  <2>3. CASE o \in {"mul", "mulh", "mulhsu", "mulhu", "div", "divu"}
    BY <1>1, <2>3, ArithTags DEF FromMacro
  <2>4. CASE o \in {"rem", "remu"}
    <3>1. v \in 0 .. 2^W - 1 /\ 2^W \in Positive /\ 2^(W - 1) \in Positive /\ 2^W = 2 * 2^(W - 1)
      BY PowersAssumption DEF PowersOfTwo, TagOperands, Positive
    <3>2. v % 2^W = v
      BY <3>1, Small
    <3>3. (signed(W, v) = 0 => v = 0) /\ (zext(W, v) = 0 => v = 0)
      BY <3>1, <3>2 DEF signed, zext, Positive
    <3>4. QED BY <1>1, <2>4, <3>3, RemTags
  <2>5. QED BY <2>1, <2>2, <2>3, <2>4 DEF RegOps
<1>4. ASSUME NEW o \in RegOps
      PROVE  /\ IsReturn(Insn(o, p, x, r, q).tag) => IsReturn(s) \/ IsReturn(t)
             /\ p = "NO_RETURN_COPY" /\ x = W /\ IsReturn(Insn(o, p, x, r, q).tag)
                  => o \in {"rem", "remu"} /\ v = 0
  BY <1>2, <1>3
<1>5. ASSUME NEW o \in WordOps
      PROVE  IsReturn(Insn(o, p, x, r, q).tag) => IsReturn(s) \/ IsReturn(t)
  BY <1>1, <1>2, WordTags DEF Narrowed
<1>6. ASSUME NEW o \in ImmOps \cup ShiftOps
      PROVE  Insn(o, p, x, r, q).tag \in {s, I(p)!NoTag}
  BY <1>1, ImmediateTags
<1>7. ASSUME x = W, NEW o \in AmoOps
      PROVE  /\ IsReturn(Amo(o, p, x, r, q).mem.tag) => IsReturn(s) \/ IsReturn(t)
             /\ IsReturn(Amo(o, p, x, r, q).rd.tag) => IsReturn(s) \/ IsReturn(t)
  BY <1>1, <1>2, <1>7, AmoTags
<1>8. I(p)!WRITE_RD(q, u).tag = t
  BY <1>1 DEF I!WRITE_RD, I!RD
<1>9. QED BY <1>4, <1>5, <1>6, <1>7, <1>8, Zenon DEF r, q

------------------------------------------------------------------------------
\* A number of n / u units, in which the significand of exponent e is counted,
\* rounded to a pattern: in units 2^(-e) times as large when e is negative.
Unit(e, u) == IF e < 0 THEN 2^(-e) * u ELSE u
RoundedNumber(f, rm, sign, e, n, u) ==
    LET t == RoundedTo(rm, sign, n, Unit(e, u))
        lost == n % Unit(e, u) # 0
        mag == (IF e < 0 THEN 0 ELSE e * 2^f.p) + t
        toInf == rm \in {"near_even", "near_maxMag", IF sign = 1 THEN "min" ELSE "max"}
    IN  IF mag >= f.inf * 2^f.p
        THEN Result(sign * 2^(f.w - 1) + f.inf * 2^f.p - (IF toInf THEN 0 ELSE 1),
                    {"overflow", "inexact"})
        ELSE Result(sign * 2^(f.w - 1) + mag,
                    IF ~ lost THEN {} ELSE IF e < 0 THEN {"underflow", "inexact"}
                                           ELSE {"inexact"})

LEMMA Rounding ==
  ASSUME NEW rm, NEW sign, NEW n \in Nat, NEW d \in Positive, NEW t, t = n \div d
  PROVE  t \in Nat /\ RoundedTo(rm, sign, n, d) \in {t, t + 1}
<1>1. t \in Nat
  BY DEF Positive
<1>2. QED BY <1>1 DEF RoundedTo

LEMMA ExactRounding ==
  ASSUME NEW rm \in Modes, NEW sign, NEW t \in Nat, NEW d \in Positive
  PROVE  RoundedTo(rm, sign, t * d, d) = t /\ (t * d) % d = 0
<1>1. Splits(t * d, d, t, 0)
  BY DEF Splits, Positive
<1>2. (t * d) \div d = t /\ (t * d) % d = 0
  BY <1>1, SplitsIs
<1>3. 2 * 0 - d < 0
  BY DEF Positive
<1>4. ~ R!RoundsUp(rm, sign = 1, t, 2 * 0 - d, FALSE, FALSE)
  <2>1. PICK c \in Int : c = 2 * 0 - d /\ c < 0
    BY <1>3 DEF Positive
  <2>2. ~(c >= 0) /\ ~(c > 0) /\ ~(c = 0)
    BY <2>1
  <2>3. ~ R!RoundsUp(rm, sign = 1, t, c, FALSE, FALSE)
    BY <2>2 DEF R!RoundsUp, Modes
  <2>4. QED BY <2>1, <2>3
<1>5. (0 # 0) = FALSE
  OBVIOUS
<1>6. QED BY <1>2, <1>4, <1>5 DEF RoundedTo

\* Packing puts the fields side by side.
LEMMA Packed ==
  ASSUME NEW f, FormatPowers(f), NEW sign \in {0, 1}, NEW e \in Nat, NEW t \in Nat,
         e * 2^f.p + t < 2^(f.w - 1)
  PROVE  packUI(f, sign, e, t) = sign * 2^(f.w - 1) + (e * 2^f.p + t)
<1>1. PICK T \in Positive : T = 2^(f.w - 1) /\ 2^f.w = 2 * T
  BY DEF FormatPowers, Positive
<1>2. PICK m \in Nat : m = e * 2^f.p
  BY DEF FormatPowers
<1>3. PICK v \in Nat : v = sign * T + m + t /\ v < 2 * T
  <2>1. sign * T \in {0, T}
    BY DEF Positive
  <2>2. m + t < T
    BY <1>1, <1>2
  <2>3. sign * T + m + t \in Nat /\ sign * T + m + t < 2 * T
    BY <2>1, <2>2 DEF Positive
  <2>4. QED BY <2>3
<1>4. v % (2 * T) = v
  <2>1. 2 * T \in Positive /\ v \in 0 .. 2 * T - 1
    BY <1>3 DEF Positive
  <2>2. QED BY <2>1, Small
<1>5. sign * T \in Int
  BY DEF Positive
<1>6. QED BY <1>1, <1>2, <1>3, <1>4, <1>5 DEF packUI

\* A significand with its leading bit in place, standing for n half units d.
StandsFor(f, s, n, d) ==
    /\ s \in Nat /\ 2^(f.w - 2) <= s /\ s < 2^(f.w - 1)
    /\ n \in Nat /\ d \in Positive /\ Side(s, 2^(f.x - 1), n, d)

\* The numbers of a format the proofs below compute with: the fraction's power
\* P, half of the extra bits' power h, the exponent N of infinity, the sign's
\* power T.
Powered(f, P, h, N, T) ==
    /\ P \in Positive /\ h \in Positive /\ N \in Nat /\ N >= 3 /\ T \in Positive
    /\ P = 2^f.p /\ h = 2^(f.x - 1) /\ 2^f.x = 2 * h /\ N = f.inf
    /\ T = 2^(f.w - 1) /\ 2^f.w = 2 * T /\ 2^(f.w - 2) = P * (2 * h)
    /\ T = 2 * (P * (2 * h)) /\ T = P * (N + 1) /\ ExtraBits(f.x)

LEMMA PoweredFormat ==
  ASSUME NEW f, FormatPowers(f)
  PROVE  \E P, h, N, T : Powered(f, P, h, N, T)
<1>1. /\ 2^f.p \in Positive /\ 2^(f.x - 1) \in Positive /\ f.inf \in Nat /\ f.inf >= 3
      /\ 2^(f.w - 1) \in Positive /\ 2^(f.x - 2) \in Positive
  BY DEF FormatPowers, Positive
<1>2. /\ 2^f.x = 2 * 2^(f.x - 1) /\ 2^(f.x - 1) = 2 * 2^(f.x - 2)
      /\ 2^(f.w - 2) = 2^f.p * 2^f.x /\ 2^(f.w - 1) = 2 * 2^(f.w - 2)
      /\ 2^f.w = 2 * 2^(f.w - 1) /\ 2^(f.w - 1) = 2^f.p * 2^f.e /\ 2^f.e = f.inf + 1
  BY DEF FormatPowers
<1>3. ExtraBits(f.x)
  <2>1. 2 * 2^(f.x - 1) = 4 * 2^(f.x - 2)
    BY <1>1, <1>2 DEF Positive
  <2>2. QED BY <1>1, <1>2, <2>1 DEF ExtraBits
<1>4. Powered(f, 2^f.p, 2^(f.x - 1), f.inf, 2^(f.w - 1))
  BY <1>1, <1>2, <1>3, Zenon DEF Powered
<1>5. QED BY <1>4

\* A number between P and 2 * P units is rounded to one of them, and in larger
\* units to P at most.
LEMMA RoundedInPlace ==
  ASSUME NEW P \in Positive, NEW n \in Nat, NEW u \in Positive,
         P * u <= n, n < 2 * (P * u), NEW rm, NEW sign, NEW D \in Positive
  PROVE  LET t == RoundedTo(rm, sign, n, D * u)
         IN  t \in Nat /\ (D = 1 => P <= t /\ t <= 2 * P) /\ (D > 1 => t <= P)
<1>1. PICK V \in Positive : V = D * u
  BY DEF Positive
<1>2. PICK q \in Nat : q = n \div V
  BY DEF Positive
<1>3. RoundedTo(rm, sign, n, V) \in {q, q + 1}
  BY <1>2, Rounding
<1>4. ASSUME D = 1 PROVE P <= q /\ q < 2 * P
  <2>1. V = u
    BY <1>1, <1>4 DEF Positive
  <2>2. n < u * (2 * P) /\ u * P <= n
    BY DEF Positive
  <2>3. q < 2 * P
    BY <1>2, <2>1, <2>2, SmallQuotient DEF Positive
  <2>4. P <= q
    <3>1. SUFFICES ASSUME q < P PROVE FALSE
      BY DEF Positive
    <3>2. PICK g \in Nat : P = q + 1 + g
      <4>1. P - q - 1 \in Nat /\ P = q + 1 + (P - q - 1)
        BY <3>1 DEF Positive
      <4>2. QED BY <4>1
    <3>3. u * P = u * q + u + u * g /\ u * g >= 0 /\ u * q \in Int
      BY <3>2 DEF Positive
    <3>4. n = u * q + (n % u) /\ n % u < u /\ n % u \in Int
      BY <1>2, <2>1, Divided DEF Positive
    <3>5. QED BY <2>2, <3>3, <3>4 DEF Positive
  <2>5. QED BY <2>3, <2>4
<1>5. ASSUME D > 1 PROVE q < P
  <2>1. PICK g \in Nat : D = 2 + g
    <3>1. D - 2 \in Nat /\ D = 2 + (D - 2)
      BY <1>5 DEF Positive
    <3>2. QED BY <3>1
  <2>2. PICK b \in Nat : b = P * u
    BY DEF Positive
  <2>3. V * P = 2 * b + g * b /\ g * b >= 0
    BY <1>1, <2>1, <2>2 DEF Positive
  <2>4. n < 2 * b
    BY <2>2
  <2>5. n < V * P
    BY <2>3, <2>4
  <2>6. QED BY <1>2, <2>5, SmallQuotient DEF Positive
<1>6. QED BY <1>1, <1>3, <1>4, <1>5 DEF Positive

\* The number a significand with its leading bit in place stands for is such.
LEMMA InPlace ==
  ASSUME NEW f, NEW P, NEW h, NEW N, NEW T, Powered(f, P, h, N, T),
         NEW s, NEW n, NEW d, StandsFor(f, s, n, d), NEW rm, NEW sign, NEW D \in Positive
  PROVE  LET t == RoundedTo(rm, sign, n, D * (2 * d))
         IN  t \in Nat /\ (D = 1 => P <= t /\ t <= 2 * P) /\ (D > 1 => t <= P)
<1>1. /\ P \in Positive /\ h \in Positive /\ 2^(f.w - 2) = P * (2 * h)
      /\ 2^(f.w - 1) = 2 * (P * (2 * h)) /\ h = 2^(f.x - 1)
  BY DEF Powered
<1>2. /\ s \in Nat /\ P * (2 * h) <= s /\ s < 2 * (P * (2 * h)) /\ n \in Nat
      /\ d \in Positive /\ Side(s, h, n, d)
  BY <1>1 DEF StandsFor
<1>3. P * (2 * d) <= n /\ n < 2 * (P * (2 * d))
  <2>1. 2 * P \in Nat /\ 4 * P \in Nat
    BY <1>1 DEF Positive
  <2>2. (s < h * (2 * P) <=> n < d * (2 * P)) /\ (s < h * (4 * P) <=> n < d * (4 * P))
    BY <1>2, <2>1 DEF Side
  <2>3. /\ h * (2 * P) = P * (2 * h) /\ h * (4 * P) = 2 * (P * (2 * h))
        /\ d * (2 * P) = P * (2 * d) /\ d * (4 * P) = 2 * (P * (2 * d))
    BY <1>1, <1>2 DEF Positive
  <2>4. PICK a \in Int : a = P * (2 * h)
    BY <1>1 DEF Positive
  <2>5. PICK b \in Int : b = P * (2 * d)
    BY <1>1, <1>2 DEF Positive
  <2>6. QED BY <1>2, <2>2, <2>3, <2>4, <2>5
<1>4. PICK u \in Positive : u = 2 * d
  BY <1>2 DEF Positive
<1>5. QED BY <1>1, <1>2, <1>3, <1>4, RoundedInPlace

\* roundPack below the normal range.
LEMMA PackSubnormal ==
  ASSUME PowersHold, NEW f, f.w \in Nat, NEW P, NEW h, NEW N, NEW T, Powered(f, P, h, N, T),
         FormatPowers(f),
         NEW s, NEW n, NEW d, StandsFor(f, s, n, d), NEW rm \in Modes, NEW sign \in {0, 1},
         NEW e \in Int, e < 0
  PROVE  roundPack(f, rm, sign, e, s) = RoundedNumber(f, rm, sign, e, n, 2 * d)
<1>1. /\ P \in Positive /\ h \in Positive /\ N \in Nat /\ N >= 3 /\ T \in Positive
      /\ P = 2^f.p /\ h = 2^(f.x - 1) /\ 2^f.x = 2 * h /\ N = f.inf
      /\ T = 2^(f.w - 1) /\ T = P * (N + 1) /\ 2^f.w = 2 * T /\ ExtraBits(f.x)
  BY DEF Powered
<1>2. s \in Nat /\ s < T /\ n \in Nat /\ d \in Positive /\ Side(s, h, n, d)
  BY <1>1 DEF StandsFor
<1>3. -e \in Nat /\ -e # 0
  OBVIOUS
<1>4. PICK D \in Positive : D = 2^(-e) /\ D > 1
  <2>1. 2^(-e) \in Positive /\ -e < 2^(-e)
    BY <1>3, Power
  <2>2. QED BY <1>3, <2>1 DEF Positive
<1>5. PICK z : z = Jam(s \div D, s % D # 0)
  OBVIOUS
<1>6. shiftRightJam(f.w, s, -e) = z
  <2>1. CASE -e < f.w
    BY <1>3, <1>4, <1>5, <2>1, Zenon DEF shiftRightJam
  <2>2. CASE ~(-e < f.w)
    <3>1. 2^f.w <= 2^(-e)
      <4>1. f.w <= -e
        BY <2>2
      <4>2. QED BY <1>3, <4>1, PowerOrder
    <3>2. s \in 0 .. D - 1
      BY <1>1, <1>2, <1>4, <3>1 DEF Positive
    <3>3. s % D = s /\ s \div D = 0
      BY <3>2, Small
    <3>4. z = Bit(s # 0)
      BY <1>5, <3>3 DEF Jam, Bit
    <3>5. QED BY <2>2, <3>4, Zenon DEF shiftRightJam
  <2>3. QED BY <2>1, <2>2
<1>7. PICK c \in Positive : h = 2 * c
  <2>1. PICK y \in Positive : 2^(f.x - 1) = 2 * y
    BY <1>1 DEF ExtraBits
  <2>2. QED BY <1>1, <2>1
<1>8. z \in Nat /\ Side(z, h, s, D * h)
  BY <1>2, <1>5, <1>7, SideOfJam
<1>9. Side(s, D * h, n, D * d)
  BY <1>1, <1>2, SideCoarser DEF Positive
<1>10. Side(z, h, n, D * d)
  BY <1>8, <1>9, SideTransitive, Zenon
<1>11. D * d \in Positive /\ 2 * (D * d) = D * (2 * d)
  BY <1>2 DEF Positive
<1>12. RoundsOnce(f.x, rm, sign, z, n, D * (2 * d))
  BY <1>1, <1>2, <1>8, <1>10, <1>11, SideRoundsOnce
<1>13. PICK t : t = RoundedTo(rm, sign, n, D * (2 * d))
  OBVIOUS
<1>14. t \in Nat /\ t <= P
  BY <1>4, <1>13, InPlace
<1>15. /\ clearTie((z + roundIncrement(f.x, rm, sign)) \div 2^f.x, z % 2^f.x, 2^(f.x - 1), rm) = t
       /\ (z % 2^f.x # 0) <=> (n % (D * (2 * d)) # 0)
  BY <1>12, <1>13 DEF RoundsOnce
<1>16. PICK l \in BOOLEAN : l <=> n % (D * (2 * d)) # 0
  OBVIOUS
<1>17. roundPack(f, rm, sign, e, s)
        = Result(packUI(f, sign, 0, t),
                 IF l THEN {"underflow", "inexact"} ELSE {})
  <2>1. ~(e > f.inf - 2) /\ e # f.inf - 2
    BY <1>1
  <2>2. roundPack(f, rm, sign, e, s)
         = Result(packUI(f, sign, 0, t),
                  FlagIf("underflow", z % 2^f.x # 0) \cup FlagIf("inexact", z % 2^f.x # 0))
    BY <1>6, <1>15, <2>1 DEF roundPack, detectTininess
  <2>3. FlagIf("underflow", z % 2^f.x # 0) \cup FlagIf("inexact", z % 2^f.x # 0)
          = IF l THEN {"underflow", "inexact"} ELSE {}
    BY <1>15, <1>16 DEF FlagIf
  <2>4. QED BY <2>2, <2>3
<1>18. PICK m \in Nat : m = P * N
  BY <1>1 DEF Positive
<1>19. m >= 3 * P /\ T = m + P
  <2>1. PICK g \in Nat : N = 3 + g
    <3>1. N - 3 \in Nat /\ N = 3 + (N - 3)
      BY <1>1
    <3>2. QED BY <3>1
  <2>2. P * N = 3 * P + P * g /\ P * g >= 0
    <3>1. P * (3 + g) = 3 * P + P * g /\ P * g >= 0
      BY <1>1 DEF Positive
    <3>2. QED BY <2>1, <3>1
  <2>3. P * (N + 1) = P * N + P
    BY <1>1 DEF Positive
  <2>4. QED BY <1>1, <1>18, <2>2, <2>3 DEF Positive
<1>20. packUI(f, sign, 0, t) = sign * T + t
  <2>1. 0 * P + t = t /\ t < T
    BY <1>1, <1>14, <1>19 DEF Positive
  <2>2. packUI(f, sign, 0, t) = sign * 2^(f.w - 1) + (0 * 2^f.p + t)
    BY <1>1, <1>14, <2>1, Packed
  <2>3. QED BY <1>1, <2>1, <2>2
<1>21. ~(0 + t >= N * P) /\ 0 + t = t
  BY <1>1, <1>14, <1>18, <1>19 DEF Positive
<1>22. Unit(e, 2 * d) = D * (2 * d)
  BY <1>4 DEF Unit
<1>23. RoundedNumber(f, rm, sign, e, n, 2 * d)
         = Result(sign * T + t, IF l THEN {"underflow", "inexact"} ELSE {})
  <2>1. (IF ~ l THEN {} ELSE {"underflow", "inexact"}) = IF l THEN {"underflow", "inexact"} ELSE {}
    OBVIOUS
  <2>2. QED BY <1>1, <1>13, <1>16, <1>21, <1>22, <2>1 DEF RoundedNumber
<1>24. QED BY <1>17, <1>20, <1>23

\* roundPack in and above the normal range.
LEMMA PackNormal ==
  ASSUME NEW f, NEW P, NEW h, NEW N, NEW T, Powered(f, P, h, N, T), FormatPowers(f),
         NEW s, NEW n, NEW d, StandsFor(f, s, n, d), NEW rm \in Modes, NEW sign \in {0, 1},
         NEW e \in Nat
  PROVE  roundPack(f, rm, sign, e, s) = RoundedNumber(f, rm, sign, e, n, 2 * d)
<1>1. /\ P \in Positive /\ h \in Positive /\ N \in Nat /\ N >= 3 /\ T \in Positive
      /\ P = 2^f.p /\ h = 2^(f.x - 1) /\ 2^f.x = 2 * h /\ N = f.inf
      /\ T = 2^(f.w - 1) /\ T = P * (N + 1) /\ ExtraBits(f.x) /\ T = 2 * (P * (2 * h))
  BY DEF Powered
<1>2. s \in Nat /\ s < T /\ n \in Nat /\ d \in Positive /\ Side(s, h, n, d)
  BY <1>1 DEF StandsFor
<1>3. PICK t : t = RoundedTo(rm, sign, n, 2 * d)
  OBVIOUS
<1>4. t \in Nat /\ P <= t /\ t <= 2 * P
  <2>1. 1 * (2 * d) = 2 * d /\ 1 \in Positive
    BY <1>2 DEF Positive
  <2>2. QED BY <1>3, <2>1, InPlace
<1>5. RoundsOnce(f.x, rm, sign, s, n, 2 * d)
  BY <1>1, <1>2, SideRoundsOnce
<1>6. PICK inc \in Nat : inc = roundIncrement(f.x, rm, sign) /\ inc < 2 * h
  BY <1>1 DEF roundIncrement, Positive
<1>7. PICK X \in Positive : X = 2 * h
  BY <1>1 DEF Positive
<1>8. PICK y \in Nat : y = (s + inc) \div X
  BY <1>2 DEF Positive
<1>9. t = clearTie(y, s % X, h, rm) /\ (s % X # 0 <=> n % (2 * d) # 0)
  BY <1>1, <1>3, <1>5, <1>6, <1>7, <1>8 DEF RoundsOnce
<1>10. s + inc >= T <=> t >= 2 * P
  <2>1. T = X * (2 * P) /\ X * (2 * P) \in Int
    BY <1>1, <1>7 DEF Positive
  <2>2. PICK r \in 0 .. X - 1 : s + inc = X * y + r
    <3>1. s + inc \in Int
      BY <1>2
    <3>2. (s + inc) % X \in 0 .. X - 1 /\ s + inc = X * ((s + inc) \div X) + ((s + inc) % X)
      BY <3>1, Divided
    <3>3. QED BY <1>8, <3>2
  <2>3. s + inc >= T <=> y >= 2 * P
    <3>1. ASSUME y < 2 * P PROVE s + inc < T
      <4>1. PICK g \in Nat : 2 * P = y + 1 + g
        <5>1. 2 * P - y - 1 \in Nat /\ 2 * P = y + 1 + (2 * P - y - 1)
          BY <1>1, <3>1 DEF Positive
        <5>2. QED BY <5>1
      <4>2. X * (2 * P) = X * y + X + X * g /\ X * g >= 0 /\ X * y \in Int
        BY <4>1 DEF Positive
      <4>3. QED BY <2>1, <2>2, <4>2 DEF Positive
    <3>2. ASSUME y >= 2 * P PROVE s + inc >= T
      <4>1. PICK g \in Nat : y = 2 * P + g
        <5>1. y - 2 * P \in Nat /\ y = 2 * P + (y - 2 * P)
          BY <1>1, <3>2 DEF Positive
        <5>2. QED BY <5>1
      <4>2. X * y = X * (2 * P) + X * g /\ X * g >= 0
        BY <1>1, <4>1 DEF Positive
      <4>3. QED BY <2>1, <2>2, <4>2 DEF Positive
    <3>3. QED BY <1>1, <3>1, <3>2, <2>1, <1>2 DEF Positive
  <2>4. y <= 2 * P
    <3>1. s + inc < X * (2 * P + 1)
      <4>1. X * (2 * P + 1) = T + X
        BY <1>1, <2>1 DEF Positive
      <4>2. QED BY <1>1, <1>2, <1>6, <1>7, <4>1 DEF Positive
    <3>2. s + inc \in Nat /\ 2 * P + 1 \in Nat
      BY <1>1, <1>2 DEF Positive
    <3>3. y < 2 * P + 1
      BY <1>8, <3>1, <3>2, SmallQuotient
    <3>4. QED BY <1>1, <3>3 DEF Positive
  <2>5. t >= 2 * P <=> y >= 2 * P
    <3>1. t = y \/ (t = y - 1 /\ y % 2 = 1)
      BY <1>9 DEF clearTie
    <3>2. (2 * P) % 2 = 0
      BY <1>1 DEF Positive
    <3>3. QED BY <1>1, <2>4, <3>1, <3>2 DEF Positive
  <2>6. QED BY <2>3, <2>5
<1>11. PICK m \in Nat : m = e * P
  BY <1>1 DEF Positive
<1>12. PICK k \in Nat : k = N * P
  BY <1>1 DEF Positive
<1>13. T = k + P
  BY <1>1, <1>12 DEF Positive
<1>14. /\ e > N - 2 => m + t >= k
       /\ e = N - 2 => (m + t >= k <=> t >= 2 * P)
       /\ e < N - 2 => m + t < k
  <2>1. ASSUME e > N - 2 PROVE m + t >= k
    <3>1. PICK g \in Nat : e + 1 = N + g
      <4>1. e + 1 - N \in Nat /\ e + 1 = N + (e + 1 - N)
        BY <1>1, <2>1
      <4>2. QED BY <4>1
    <3>2. (e + 1) * P = m + P /\ (N + g) * P = k + g * P /\ g * P >= 0
      BY <1>1, <1>11, <1>12 DEF Positive
    <3>3. QED BY <1>1, <1>4, <3>1, <3>2 DEF Positive
  <2>2. ASSUME e = N - 2 PROVE m + 2 * P = k
    <3>1. (N - 2) * P = N * P - 2 * P
      BY <1>1 DEF Positive
    <3>2. QED BY <1>1, <1>11, <1>12, <2>2, <3>1 DEF Positive
  <2>3. ASSUME e < N - 2 PROVE m + t < k
    <3>1. PICK g \in Nat : N = e + 3 + g
      <4>1. N - e - 3 \in Nat /\ N = e + 3 + (N - e - 3)
        BY <1>1, <2>3
      <4>2. QED BY <4>1
    <3>2. (e + 3 + g) * P = m + 3 * P + g * P /\ g * P >= 0
      BY <1>1, <1>11 DEF Positive
    <3>3. QED BY <1>1, <1>4, <1>12, <3>1, <3>2 DEF Positive
  <2>4. QED BY <1>1, <1>4, <2>1, <2>2, <2>3 DEF Positive
<1>15. Unit(e, 2 * d) = 2 * d /\ ~(e < 0)
  BY DEF Unit
<1>16. CASE m + t >= k
  <2>1. e > N - 2 \/ (e = N - 2 /\ s + inc >= T)
    <3>1. e > N - 2 \/ e = N - 2 \/ e < N - 2
      BY <1>1
    <3>2. ~(m + t < k)
      BY <1>4, <1>16
    <3>3. QED BY <1>10, <1>14, <1>16, <3>1, <3>2, Zenon
  <2>2. roundPack(f, rm, sign, e, s)
          = Result(packUI(f, sign, f.inf, 0) - (IF inc = 0 THEN 1 ELSE 0),
                   {"overflow", "inexact"})
    BY <1>1, <1>6, <1>15, <2>1 DEF roundPack, Bit
  <2>3. packUI(f, sign, f.inf, 0) = sign * T + k
    <3>1. f.inf * 2^f.p + 0 < 2^(f.w - 1)
      BY <1>1, <1>12, <1>13 DEF Positive
    <3>2. packUI(f, sign, f.inf, 0) = sign * 2^(f.w - 1) + (f.inf * 2^f.p + 0)
      <4>1. f.inf \in Nat /\ 0 \in Nat
        BY <1>1
      <4>2. QED BY <3>1, <4>1, Packed, Zenon
    <3>3. k + 0 = k
      OBVIOUS
    <3>4. QED BY <1>1, <1>12, <3>2, <3>3
  <2>4. PICK i \in {0, 1} :
          i = IF rm \in {"near_even", "near_maxMag", IF sign = 1 THEN "min" ELSE "max"} THEN 0 ELSE 1
    OBVIOUS
  <2>5. (IF inc = 0 THEN 1 ELSE 0) = i
    <3>1. inc = 0 <=> rm \in {"minMag", IF sign = 1 THEN "max" ELSE "min"}
      BY <1>1, <1>6 DEF roundIncrement, Positive
    <3>2. QED BY <2>4, <3>1 DEF Modes
  <2>6. RoundedNumber(f, rm, sign, e, n, 2 * d) = Result(sign * T + k - i, {"overflow", "inexact"})
    BY <1>1, <1>3, <1>11, <1>12, <1>15, <1>16, <2>4 DEF RoundedNumber
  <2>7. (sign * T + k) - i = sign * T + (k - i)
    BY <1>1 DEF Positive
  <2>8. QED BY <2>2, <2>3, <2>5, <2>6, <2>7
<1>17. CASE ~(m + t >= k)
  <2>1. ~(e > N - 2) /\ ~(e = N - 2 /\ s + inc >= T)
    BY <1>1, <1>10, <1>14, <1>17
  <2>2. PICK l \in BOOLEAN : l <=> n % (2 * d) # 0
    OBVIOUS
  <2>3. t # 0
    BY <1>1, <1>4 DEF Positive
  <2>4. roundPack(f, rm, sign, e, s)
          = Result(packUI(f, sign, e, t), {} \cup FlagIf("inexact", s % X # 0))
    BY <1>1, <1>6, <1>7, <1>8, <1>9, <1>15, <2>1, <2>3 DEF roundPack
  <2>5. {} \cup FlagIf("inexact", s % X # 0) = IF l THEN {"inexact"} ELSE {}
    BY <1>9, <2>2 DEF FlagIf
  <2>6. packUI(f, sign, e, t) = sign * T + (m + t)
    <3>1. e * 2^f.p + t < 2^(f.w - 1)
      BY <1>1, <1>4, <1>11, <1>13, <1>17 DEF Positive
    <3>2. packUI(f, sign, e, t) = sign * 2^(f.w - 1) + (e * 2^f.p + t)
      BY <1>4, <3>1, Packed
    <3>3. QED BY <1>1, <1>11, <3>2
  <2>7. RoundedNumber(f, rm, sign, e, n, 2 * d)
          = Result(sign * T + (m + t), IF l THEN {"inexact"} ELSE {})
    <3>1. (IF ~ l THEN {} ELSE {"inexact"}) = IF l THEN {"inexact"} ELSE {}
      OBVIOUS
    <3>2. QED BY <1>1, <1>3, <1>11, <1>12, <1>15, <1>17, <2>2, <3>1 DEF RoundedNumber
  <2>8. QED BY <2>4, <2>5, <2>6, <2>7
<1>18. QED BY <1>16, <1>17

\* One number in two units is rounded alike.
LEMMA SameRatioRoundsAlike ==
  ASSUME NEW rm \in Modes, NEW sign \in {0, 1}, NEW m \in Nat, NEW v \in Positive,
         NEW n \in Nat, NEW u \in Positive, n * v = m * u
  PROVE  /\ RoundedTo(rm, sign, n, u) = RoundedTo(rm, sign, m, v)
         /\ n % u # 0 <=> m % v # 0
<1>1. PICK t \in Nat : t = m \div v
  BY DEF Positive
<1>2. PICK r \in 0 .. v - 1 : r = m % v
  BY DEF Positive
<1>3. m = v * t + r
  BY <1>1, <1>2, Divided
<1>4. PICK y \in Int : y = n - u * t
  BY DEF Positive
<1>5. n = u * t + y
  <2>1. u * t \in Int
    BY DEF Positive
  <2>2. QED BY <1>4, <2>1
<1>6. v * y = u * r
  <2>1. PICK a \in Int : a = v * (u * t)
    BY DEF Positive
  <2>2. PICK i \in Int : i = v * y
    BY DEF Positive
  <2>3. PICK j \in Int : j = u * r
    BY DEF Positive
  <2>4. n * v = a + i
    BY <1>5, <2>1, <2>2 DEF Positive
  <2>5. m * u = a + j
    BY <1>3, <2>1, <2>3 DEF Positive
  <2>6. i = j
    BY ONLY <2>4, <2>5, n * v = m * u, i \in Int, j \in Int, a \in Int
  <2>7. QED BY <2>2, <2>3, <2>6
<1>7. /\ v * y < v * 0 <=> u * r < u * 0
      /\ v * 0 < v * y <=> u * 0 < u * r
      /\ v * y < v * u <=> u * r < u * v
  <2>1. v * 0 = 0 /\ u * 0 = 0 /\ v * u = u * v
    BY DEF Positive
  <2>2. QED BY <1>6, <2>1
<1>8. (y < 0 <=> r < 0) /\ (0 < y <=> 0 < r) /\ (y < u <=> r < v)
  <2>1. (v * y < v * 0 <=> y < 0) /\ (v * 0 < v * y <=> 0 < y) /\ (v * y < v * u <=> y < u)
    BY Multiples DEF Positive
  <2>2. (u * r < u * 0 <=> r < 0) /\ (u * 0 < u * r <=> 0 < r) /\ (u * r < u * v <=> r < v)
    BY Multiples DEF Positive
  <2>3. QED BY <1>7, <2>1, <2>2
<1>9. y \in 0 .. u - 1 /\ (y = 0 <=> r = 0)
  BY <1>8 DEF Positive
<1>10. n \div u = t /\ n % u = y
  <2>1. Splits(n, u, t, y)
    BY <1>5, <1>9 DEF Splits
  <2>2. QED BY <2>1, SplitsIs
<1>11. PICK c \in Int : c = 2 * r - v
  <2>1. 2 * r - v \in Int
    BY ONLY r \in 0 .. v - 1, v \in Positive DEF Positive
  <2>2. QED BY <2>1, Zenon
<1>12. PICK b \in Int : b = 2 * y - u
  <2>1. 2 * y - u \in Int
    BY ONLY <1>9, u \in Positive DEF Positive
  <2>2. QED BY <2>1, Zenon
<1>13. (c > 0 <=> b > 0) /\ (c >= 0 <=> b >= 0) /\ (c = 0 <=> b = 0)
  <2>1. v * b = u * c
    <3>1. v * b = 2 * (v * y) - v * u /\ u * c = 2 * (u * r) - v * u
      BY <1>9, <1>11, <1>12 DEF Positive
    <3>2. QED BY <1>6, <3>1
  <2>2. (v * b < v * 0 <=> b < 0) /\ (v * 0 < v * b <=> 0 < b)
    BY Multiples
  <2>3. (u * c < u * 0 <=> c < 0) /\ (u * 0 < u * c <=> 0 < c)
    BY Multiples
  <2>4. v * 0 = 0 /\ u * 0 = 0
    BY DEF Positive
  <2>5. QED BY <2>1, <2>2, <2>3, <2>4
<1>14. R!RoundsUp(rm, sign = 1, t, b, y # 0, FALSE) <=> R!RoundsUp(rm, sign = 1, t, c, r # 0, FALSE)
  BY <1>9, <1>13 DEF R!RoundsUp, Modes
<1>15. RoundedTo(rm, sign, n, u) = IF R!RoundsUp(rm, sign = 1, t, b, y # 0, FALSE) THEN t + 1 ELSE t
  BY <1>10, <1>12 DEF RoundedTo
<1>16. RoundedTo(rm, sign, m, v) = IF R!RoundsUp(rm, sign = 1, t, c, r # 0, FALSE) THEN t + 1 ELSE t
  BY <1>1, <1>2, <1>11 DEF RoundedTo
<1>17. QED BY <1>2, <1>9, <1>10, <1>14, <1>15, <1>16

\* The reference cuts off d digits of a number m that is the whole part of
\* b / y, and st tells whether there was a fraction; so it rounds b / y.
LEMMA CutRounds ==
  ASSUME PowersHold, NEW rm \in Modes, NEW sign \in {0, 1}, NEW b \in Nat, NEW y \in Positive,
         NEW m, m = b \div y, m # 0, NEW d \in Positive, NEW st \in BOOLEAN, st <=> b % y # 0
  PROVE  /\ R!Rounded(rm, sign = 1, m, d, st).t = RoundedTo(rm, sign, b, y * 2^d)
         /\ R!Rounded(rm, sign = 1, m, d, st).lost <=> b % (y * 2^d) # 0
<1>1. m \in Nat /\ m \in Positive
  BY DEF Positive
<1>2. PICK z \in 0 .. y - 1 : z = b % y
  BY DEF Positive
<1>3. b = y * m + z
  BY <1>2, Divided
<1>4. PICK E \in Positive : E = 2^d /\ \E g \in Nat : E = 2 * g
  <2>1. d \in Nat /\ d - 1 \in Nat /\ d = (d - 1) + 1
    BY DEF Positive
  <2>2. 2^d \in Positive /\ 2^d = 2 * 2^(d - 1) /\ 2^(d - 1) \in Nat
    BY <2>1, Power DEF Positive
  <2>3. QED BY <2>2
<1>5. PICK g \in Nat : E = 2 * g
  BY <1>4
<1>6. PICK t \in Nat : t = m \div E
  BY <1>1 DEF Positive
<1>7. PICK r \in 0 .. E - 1 : r = m % E
  BY <1>1 DEF Positive
<1>8. m = E * t + r
  BY ONLY <1>1, <1>6, <1>7, E \in Positive, Divided
<1>9. PICK R1 \in Int : R1 = y * r + z
  BY DEF Positive
<1>10. PICK V \in Positive : V = y * E
  BY DEF Positive
<1>11. b = V * t + R1
  <2>1. y * (E * t + r) = (y * E) * t + y * r
    BY DEF Positive
  <2>2. QED BY <1>3, <1>8, <1>9, <1>10, <2>1 DEF Positive
<1>12. R1 \in 0 .. V - 1 /\ (R1 = 0 <=> r = 0 /\ z = 0)
  <2>1. PICK j \in Nat : E = r + 1 + j
    <3>1. E - r - 1 \in Nat /\ E = r + 1 + (E - r - 1)
      BY DEF Positive
    <3>2. QED BY <3>1
  <2>2. y * E = y * r + y + y * j /\ y * j >= 0 /\ y * r >= 0 /\ y * r \in Int
    BY <2>1 DEF Positive
  <2>3. r # 0 => y * r > 0
    <3>1. y * 0 < y * r <=> 0 < r
      BY Multiples DEF Positive
    <3>2. y * 0 = 0
      BY DEF Positive
    <3>3. QED BY <3>1, <3>2 DEF Positive
  <2>4. r = 0 => y * r = 0
    BY DEF Positive
  <2>5. QED BY <1>9, <1>10, <2>2, <2>3, <2>4 DEF Positive
<1>13. b \div V = t /\ b % V = R1
  <2>1. Splits(b, V, t, R1)
    BY <1>11, <1>12 DEF Splits
  <2>2. QED BY <2>1, SplitsIs
<1>14. PICK C \in Int : C = 2 * R1 - V
  <2>1. 2 * R1 - V \in Int
    BY ONLY R1 \in Int, V \in Positive DEF Positive
  <2>2. QED BY <2>1
<1>15. PICK c \in Int : c = 2 * r - E
  <2>1. 2 * r - E \in Int
    BY ONLY r \in 0 .. E - 1, E \in Positive DEF Positive
  <2>2. QED BY <2>1
<1>16. /\ C >= 0 <=> c >= 0
       /\ C > 0 <=> c > 0 \/ (c = 0 /\ z # 0)
       /\ C = 0 <=> c = 0 /\ z = 0
  <2>1. PICK i \in Int : i = r - g /\ c = 2 * i
    BY <1>5, <1>15 DEF Positive
  <2>2. C = 2 * (y * i + z) /\ y * i \in Int
    BY <1>5, <1>9, <1>10, <1>14, <2>1 DEF Positive
  <2>3. (y * i < y * 0 <=> i < 0) /\ (y * 0 < y * i <=> 0 < i) /\ y * 0 = 0
    BY Multiples DEF Positive
  <2>4. i < 0 => y * i + y <= 0
    <3>1. SUFFICES ASSUME i < 0 PROVE y * i + y <= 0
      OBVIOUS
    <3>2. PICK j \in Nat : i = -1 - j
      <4>1. -1 - i \in Nat /\ i = -1 - (-1 - i)
        BY <3>1
      <4>2. QED BY <4>1
    <3>3. y * i = -y - y * j /\ y * j >= 0
      BY <3>2 DEF Positive
    <3>4. QED BY <3>3 DEF Positive
  <2>5. PICK a \in Int : a = y * i
    BY <2>2
  <2>6. /\ C = 2 * (a + z) /\ (a < 0 <=> i < 0) /\ (0 < a <=> 0 < i) /\ (i < 0 => a + y <= 0)
    BY <2>2, <2>3, <2>4, <2>5
  <2>7. QED BY ONLY <2>1, <2>6, y \in Positive, z \in 0 .. y - 1, a \in Int, i \in Int DEF Positive
<1>17. RoundedTo(rm, sign, b, y * 2^d)
         = IF R!RoundsUp(rm, sign = 1, t, C, R1 # 0, FALSE) THEN t + 1 ELSE t
  BY <1>4, <1>10, <1>13, <1>14 DEF RoundedTo
<1>18. ASSUME NEW a \in Int, NEW l \in BOOLEAN, (a >= 0 <=> c >= 0) /\ (a > 0 <=> c > 0) /\ (a = 0 <=> c = 0),
              l <=> (r # 0 \/ st)
       PROVE  R!RoundsUp(rm, sign = 1, t, a, l, st) <=> R!RoundsUp(rm, sign = 1, t, C, R1 # 0, FALSE)
  BY <1>2, <1>12, <1>16, <1>18 DEF R!RoundsUp, Modes
<1>19. CASE d > R!Digits(m) + 1
  <2>1. PICK B \in Nat : B = R!Digits(m) /\ m < 2^B
    BY <1>1, LengthLies DEF Lies, Positive
  <2>2. 4 * m < E
    <3>1. B + 1 \in Nat /\ B + 1 <= d /\ B + 1 < d /\ d \in Nat
      BY <1>19, <2>1 DEF Positive
    <3>2. 2 * 2^(B + 1) <= 2^d /\ 2^(B + 1) = 2 * 2^B /\ 2^B \in Nat
      BY <3>1, <2>1, Power, PowerOrder DEF Positive
    <3>3. QED BY <1>1, <1>4, <2>1, <3>2
  <2>3. t = 0 /\ r = m
    <3>1. m \in 0 .. E - 1
      BY <1>1, <2>2 DEF Positive
    <3>2. QED BY <1>6, <1>7, <3>1, Small
  <2>4. (-1 >= 0 <=> c >= 0) /\ (-1 > 0 <=> c > 0) /\ (-1 = 0 <=> c = 0)
    BY <1>1, <1>15, <2>2, <2>3 DEF Positive
  <2>5. PICK l \in BOOLEAN : l <=> (r # 0 \/ st)
    OBVIOUS
  <2>6. PICK v : v = IF R!RoundsUp(rm, sign = 1, 0, -1, 1 # 0 \/ st, st) THEN 0 + 1 ELSE 0
    OBVIOUS
  <2>7. PICK a \in BOOLEAN : a = (1 # 0 \/ st)
    OBVIOUS
  <2>8. R!Rounded(rm, sign = 1, m, d, st) = [t |-> v, lost |-> a]
    BY <1>19, <2>6, <2>7, Zenon DEF R!Rounded
  <2>9. l <=> (1 # 0 \/ st)
    BY <1>1, <2>3, <2>5 DEF Positive
  <2>10. R!RoundsUp(rm, sign = 1, 0, -1, 1 # 0 \/ st, st) <=> R!RoundsUp(rm, sign = 1, t, C, R1 # 0, FALSE)
    BY <1>18, <2>3, <2>4, <2>5, <2>9 DEF R!RoundsUp, Modes
  <2>11. R!Rounded(rm, sign = 1, m, d, st).t = RoundedTo(rm, sign, b, y * 2^d)
    <3>1. R!Rounded(rm, sign = 1, m, d, st).t = v
      BY <2>8
    <3>2. QED BY <1>17, <2>3, <2>6, <2>10, <3>1, Zenon
  <2>12. R!Rounded(rm, sign = 1, m, d, st).lost
    <3>1. R!Rounded(rm, sign = 1, m, d, st).lost = a
      BY <2>8
    <3>2. 1 # 0
      OBVIOUS
    <3>3. QED BY <2>7, <3>1, <3>2, Zenon
  <2>13. b % (y * 2^d) # 0
    BY <1>1, <1>4, <1>10, <1>12, <1>13, <2>3 DEF Positive
  <2>14. QED BY <2>11, <2>12, <2>13
<1>20. CASE ~(d > R!Digits(m) + 1)
  <2>1. PICK v : v = IF R!RoundsUp(rm, sign = 1, t, c, r # 0 \/ st, st) THEN t + 1 ELSE t
    OBVIOUS
  <2>2. PICK a \in BOOLEAN : a = (r # 0 \/ st)
    OBVIOUS
  <2>3. R!Rounded(rm, sign = 1, m, d, st) = [t |-> v, lost |-> a]
    BY <1>4, <1>6, <1>7, <1>15, <1>20, <2>1, <2>2, Zenon DEF R!Rounded
  <2>4. R!RoundsUp(rm, sign = 1, t, c, r # 0 \/ st, st) <=> R!RoundsUp(rm, sign = 1, t, C, R1 # 0, FALSE)
    BY <1>18
  <2>5. R!Rounded(rm, sign = 1, m, d, st).t = RoundedTo(rm, sign, b, y * 2^d)
    <3>1. R!Rounded(rm, sign = 1, m, d, st).t = v
      BY <2>3
    <3>2. QED BY <1>17, <2>4, <2>1, <3>1, Zenon
  <2>6. R!Rounded(rm, sign = 1, m, d, st).lost <=> (r # 0 \/ st)
    <3>1. R!Rounded(rm, sign = 1, m, d, st).lost = a
      BY <2>3
    <3>2. QED BY <2>2, <3>1, Zenon
  <2>7. b % (y * 2^d) # 0 <=> (r # 0 \/ st)
    BY <1>2, <1>4, <1>10, <1>12, <1>13
  <2>8. QED BY <2>5, <2>6, <2>7
<1>21. QED BY <1>19, <1>20

Formatted(f) == \E e, p : Sizes(e, p) /\ f = Format(e, p)

LEMMA FormatFields ==
  ASSUME PowersHold, NEW f, Formatted(f)
  PROVE  /\ FormatPowers(f) /\ f.p \in Nat /\ f.p >= 2 /\ f.x \in Nat /\ f.x >= 3
         /\ f.w = f.p + f.x + 2 /\ f.w \in Nat /\ f.e = f.x + 1
         /\ f.bias \in Nat /\ f.bias >= 3 /\ f.inf = 2 * f.bias + 1
<1>1. PICK e, p : Sizes(e, p) /\ f = Format(e, p)
  BY DEF Formatted
<1>2. /\ f.e = e /\ f.p = p /\ f.w = 1 + e + p /\ f.x = e - 1 /\ f.inf = 2^e - 1
      /\ f.bias = 2^(e - 1) - 1
  BY <1>1 DEF Format
<1>3. e \in Nat /\ e >= 4 /\ p \in Nat /\ p >= 2 /\ e - 1 \in Nat /\ e = (e - 1) + 1
  BY <1>1 DEF Sizes
<1>4. 2^(e - 1) \in Nat /\ e - 1 < 2^(e - 1) /\ 2^e = 2 * 2^(e - 1)
  BY <1>3, Power DEF Positive
<1>5. FormatPowers(f)
  BY <1>1, FormatHasPowers
<1>6. QED BY <1>2, <1>3, <1>4, <1>5

\* The number b / y * 2^k, whose whole part m has its leading digit where e
\* says, is n / u in units of the last place of exponent e.
Scaled(f, b, y, m, st, k, e, n, u) ==
    /\ b \in Nat /\ y \in Positive /\ m = b \div y /\ m # 0
    /\ st \in BOOLEAN /\ (st <=> b % y # 0)
    /\ k \in Int /\ e \in Int /\ n \in Nat /\ u \in Positive
    /\ k + R!Digits(m) - 2 + f.bias = e
    /\ n * (y * 2^(R!Digits(m) - 1)) = (u * 2^f.p) * b
    /\ st => R!Digits(m) > f.p + 1

\* It is then between 2^p and 2^(p + 1) units.
LEMMA ScaledInPlace ==
  ASSUME PowersHold, NEW f, Formatted(f), NEW b, NEW y, NEW m, NEW st, NEW k, NEW e, NEW n, NEW u,
         Scaled(f, b, y, m, st, k, e, n, u)
  PROVE  2^f.p * u <= n /\ n < 2 * (2^f.p * u)
<1>1. /\ b \in Nat /\ y \in Positive /\ m = b \div y /\ m # 0 /\ n \in Nat /\ u \in Positive
      /\ n * (y * 2^(R!Digits(m) - 1)) = (u * 2^f.p) * b
  BY DEF Scaled
<1>2. PICK P \in Positive : P = 2^f.p
  BY FormatFields, Power
<1>3. m \in Nat /\ m \in Positive
  BY <1>1 DEF Positive
<1>4. PICK B \in Positive : B = R!Digits(m) /\ 2^(B - 1) <= m /\ m < 2^B
  BY <1>3, LengthLies DEF Lies
<1>5. PICK C \in Positive : C = 2^(B - 1) /\ 2^B = 2 * C
  <2>1. B - 1 \in Nat /\ B = (B - 1) + 1
    BY DEF Positive
  <2>2. QED BY <2>1, Power
<1>6. PICK z \in 0 .. y - 1 : b = y * m + z
  <2>1. b % y \in 0 .. y - 1 /\ b = y * m + (b % y)
    BY ONLY <1>1, Divided
  <2>2. QED BY <2>1
<1>7. PICK v \in Positive : v = y * C
  BY <1>1 DEF Positive
<1>8. PICK a \in Positive : a = P * u
  BY <1>1 DEF Positive
<1>9. n * v = a * b
  <2>1. u * P = a
    BY <1>1, <1>8 DEF Positive
  <2>2. QED BY <1>1, <1>2, <1>4, <1>5, <1>7, <2>1
<1>10. v <= b /\ b < 2 * v
  <2>1. PICK i \in Nat : m = C + i
    <3>1. m - C \in Nat /\ m = C + (m - C)
      BY <1>3, <1>4, <1>5 DEF Positive
    <3>2. QED BY <3>1
  <2>2. y * m = v + y * i /\ y * i >= 0 /\ y * i \in Int
    BY <1>1, <1>7, <2>1 DEF Positive
  <2>3. PICK j \in Nat : 2 * C = m + 1 + j
    <3>1. 2 * C - m - 1 \in Nat /\ 2 * C = m + 1 + (2 * C - m - 1)
      BY <1>3, <1>4, <1>5 DEF Positive
    <3>2. QED BY <3>1
  <2>4. 2 * v = y * m + y + y * j /\ y * j >= 0 /\ y * j \in Int /\ y * m \in Int
    <3>1. y * (2 * C) = 2 * v
      BY <1>1, <1>7 DEF Positive
    <3>2. y * (m + 1 + j) = y * m + y + y * j
      BY <1>1, <1>3 DEF Positive
    <3>3. QED BY <1>1, <1>3, <2>3, <3>1, <3>2 DEF Positive
  <2>5. QED BY ONLY <1>1, <1>6, <2>2, <2>4, z \in 0 .. y - 1, v \in Positive DEF Positive
<1>11. a <= n
  <2>1. SUFFICES ASSUME n < a PROVE FALSE
    BY <1>1 DEF Positive
  <2>2. v * n < v * a /\ v * n = n * v /\ v * a \in Int
    BY <1>1, <2>1, Multiples DEF Positive
  <2>3. PICK i \in Nat : b = v + i
    <3>1. b - v \in Nat /\ b = v + (b - v)
      BY <1>1, <1>10 DEF Positive
    <3>2. QED BY <3>1
  <2>4. a * b = v * a + a * i /\ a * i >= 0 /\ a * i \in Int
    BY <2>3 DEF Positive
  <2>5. QED BY ONLY <1>9, <2>2, <2>4
<1>12. n < 2 * a
  <2>1. SUFFICES ASSUME 2 * a <= n PROVE FALSE
    BY <1>1 DEF Positive
  <2>2. PICK i \in Nat : n = 2 * a + i
    <3>1. n - 2 * a \in Nat /\ n = 2 * a + (n - 2 * a)
      BY <1>1, <2>1 DEF Positive
    <3>2. QED BY <3>1
  <2>3. n * v = a * (2 * v) + i * v /\ i * v >= 0 /\ i * v \in Int /\ a * (2 * v) \in Int
    BY <2>2 DEF Positive
  <2>4. a * b < a * (2 * v)
    BY <1>1, <1>10, Multiples DEF Positive
  <2>5. a * b \in Int
    BY <1>1 DEF Positive
  <2>6. QED BY ONLY <1>9, <2>3, <2>4, <2>5
<1>13. QED BY <1>2, <1>8, <1>11, <1>12

\* What the reference rounds to, in units of exponent e: q is the exponent of
\* the last place.
LastPlace(f, e, q) == q = 1 - f.bias - f.p + (IF e < 0 THEN 0 ELSE e)
Cut(rm, sign, m, q, k, st) ==
    IF q > k THEN R!Rounded(rm, sign = 1, m, q - k, st)
             ELSE [t |-> m * 2^(k - q), lost |-> FALSE]

LEMMA ScaledRounds ==
  ASSUME PowersHold, NEW f, Formatted(f), NEW b, NEW y, NEW m, NEW st, NEW k, NEW e, NEW n, NEW u,
         Scaled(f, b, y, m, st, k, e, n, u), NEW rm \in Modes, NEW sign \in {0, 1},
         NEW q, LastPlace(f, e, q), NEW z, z = Cut(rm, sign, m, q, k, st)
  PROVE  z.t = RoundedTo(rm, sign, n, Unit(e, u)) /\ (z.lost <=> n % Unit(e, u) # 0)
<1>1. /\ b \in Nat /\ y \in Positive /\ m = b \div y /\ m # 0
      /\ st \in BOOLEAN /\ (st <=> b % y # 0)
      /\ k \in Int /\ e \in Int /\ n \in Nat /\ u \in Positive
      /\ k + R!Digits(m) - 2 + f.bias = e
      /\ n * (y * 2^(R!Digits(m) - 1)) = (u * 2^f.p) * b
      /\ (st => R!Digits(m) > f.p + 1)
  BY DEF Scaled
<1>2. f.p \in Nat /\ f.bias \in Nat
  BY FormatFields
<1>3. PICK P \in Positive : P = 2^f.p
  BY <1>2, Power
<1>4. m \in Nat /\ m \in Positive
  BY <1>1 DEF Positive
<1>5. PICK B \in Positive : B = R!Digits(m)
  BY <1>4, LengthLies DEF Lies
<1>6. PICK c \in Nat : c = B - 1
  BY DEF Positive
<1>7. PICK C \in Positive : C = 2^c
  BY Power
<1>8. PICK g \in Nat : g = IF e < 0 THEN -e ELSE 0
  BY <1>1
<1>9. PICK D \in Positive : D = 2^g
  BY Power
<1>10. PICK V \in Positive : V = D * u
  BY <1>1 DEF Positive
<1>11. Unit(e, u) = V
  <2>1. CASE e < 0
    BY <1>8, <1>9, <1>10, <2>1 DEF Unit
  <2>2. CASE ~(e < 0)
    <3>1. D = 1
      BY <1>8, <1>9, <2>2, Power
    <3>2. V = u
      BY <1>1, <1>10, <3>1 DEF Positive
    <3>3. QED BY <2>2, <3>2 DEF Unit
  <2>3. QED BY <2>1, <2>2
<1>12. q \in Int /\ q - k = c - f.p + g
  <2>1. k = e + 2 - f.bias - B
    BY <1>1, <1>2, <1>5 DEF Positive
  <2>2. k \in Int /\ e \in Int /\ B \in Int
    BY <1>1 DEF Positive
  <2>3. PICK a \in Int, p \in Nat : a = f.bias /\ p = f.p
    BY <1>2
  <2>4. CASE e < 0
    <3>1. q = 1 - a - p + 0 /\ g = -e
      BY <1>8, <2>3, <2>4 DEF LastPlace
    <3>2. k = e + 2 - a - B
      BY <2>1, <2>3
    <3>3. q - k = c - p + g
      BY ONLY <1>6, <2>2, <3>1, <3>2, a \in Int, p \in Nat
    <3>4. q \in Int
      BY <2>3, <3>1
    <3>5. QED BY <2>3, <3>3, <3>4
  <2>5. CASE ~(e < 0)
    <3>1. q = 1 - a - p + e /\ g = 0
      BY <1>8, <2>3, <2>5 DEF LastPlace
    <3>2. k = e + 2 - a - B
      BY <2>1, <2>3
    <3>3. q - k = c - p + g
      BY ONLY <1>6, <2>2, <3>1, <3>2, a \in Int, p \in Nat
    <3>4. q \in Int
      BY <2>3, <3>1
    <3>5. QED BY <2>3, <3>3, <3>4
  <2>6. QED BY <2>4, <2>5
<1>13. n * (y * C) = (u * P) * b
  BY <1>1, <1>3, <1>5, <1>6, <1>7
<1>14. CASE q > k
  <2>1. PICK d \in Positive : d = q - k
    BY <1>1, <1>12, <1>14 DEF Positive
  <2>2. PICK E \in Positive : E = 2^d
    BY <2>1, Power DEF Positive
  <2>3. E * P = C * D
    <3>1. d \in Nat /\ d + f.p = c + g
      BY <1>2, <1>12, <2>1 DEF Positive
    <3>2. 2^(d + f.p) = 2^d * 2^f.p /\ 2^(c + g) = 2^c * 2^g
      BY <1>2, <3>1, Power
    <3>3. QED BY <1>3, <1>7, <1>9, <2>2, <3>1, <3>2
  <2>4. /\ R!Rounded(rm, sign = 1, m, d, st).t = RoundedTo(rm, sign, b, y * E)
        /\ R!Rounded(rm, sign = 1, m, d, st).lost <=> b % (y * E) # 0
    BY <1>1, <2>2, CutRounds
  <2>5. PICK v \in Positive : v = y * E
    BY <1>1 DEF Positive
  <2>6. n * v = b * V
    <3>1. P * (n * v) = P * (b * V)
      <4>1. P * (n * v) = n * (y * (E * P))
        BY <1>1, <2>5 DEF Positive
      <4>2. n * (y * (C * D)) = (n * (y * C)) * D
        BY <1>1 DEF Positive
      <4>3. ((u * P) * b) * D = P * (b * V)
        BY <1>1, <1>10 DEF Positive
      <4>4. QED BY <1>13, <2>3, <4>1, <4>2, <4>3
    <3>2. PICK i \in Int : i = n * v
      BY <1>1 DEF Positive
    <3>3. PICK j \in Int : j = b * V
      BY <1>1 DEF Positive
    <3>4. (P * i < P * j <=> i < j) /\ (P * j < P * i <=> j < i) /\ P * i \in Int
      BY Multiples DEF Positive
    <3>5. QED BY ONLY <3>1, <3>2, <3>3, <3>4, i \in Int, j \in Int
  <2>7. /\ RoundedTo(rm, sign, n, V) = RoundedTo(rm, sign, b, v)
        /\ n % V # 0 <=> b % v # 0
    BY <1>1, <2>6, SameRatioRoundsAlike
  <2>8. QED BY <1>11, <1>14, <2>1, <2>4, <2>5, <2>7, Zenon DEF Cut
<1>15. CASE ~(q > k)
  <2>1. PICK j \in Nat : j = k - q
    BY <1>1, <1>12, <1>15
  <2>2. PICK J \in Positive : J = 2^j
    BY Power
  <2>3. ~ st
    BY <1>1, <1>2, <1>5, <1>6, <1>12, <1>15 DEF Positive
  <2>4. b = y * m
    <3>1. b = y * (b \div y) + (b % y)
      BY ONLY <1>1, Divided
    <3>2. b % y = 0
      BY ONLY <1>1, <2>3
    <3>3. y * m \in Int
      BY <1>1, <1>4 DEF Positive
    <3>4. QED BY <1>1, <3>1, <3>2, <3>3
  <2>5. P = C * (D * J)
    <3>1. f.p = c + (g + j) /\ g + j \in Nat
      BY <1>1, <1>2, <1>12, <2>1
    <3>2. 2^f.p = 2^c * 2^(g + j) /\ 2^(g + j) = 2^g * 2^j
      BY <3>1, Power
    <3>3. QED BY <1>3, <1>7, <1>9, <2>2, <3>2
  <2>6. PICK i \in Nat : i = m * J
    BY <1>4 DEF Positive
  <2>7. n = i * V
    <3>1. PICK v \in Positive : v = y * C
      BY <1>1 DEF Positive
    <3>2. v * n = n * (y * C)
      BY <1>1, <3>1 DEF Positive
    <3>3. (u * (C * (D * J))) * (y * m) = v * (i * V)
      BY <1>1, <1>4, <1>10, <2>6, <3>1 DEF Positive
    <3>4. v * n = v * (i * V)
      BY <1>13, <2>4, <2>5, <3>2, <3>3
    <3>5. PICK l \in Int : l = i * V
      BY DEF Positive
    <3>6. (v * n < v * l <=> n < l) /\ (v * l < v * n <=> l < n) /\ v * n \in Int
      BY <1>1, Multiples DEF Positive
    <3>7. QED BY ONLY <3>4, <3>5, <3>6, l \in Int, <1>1
  <2>8. RoundedTo(rm, sign, n, V) = i /\ n % V = 0
    BY <2>7, ExactRounding
  <2>9. [t |-> i, lost |-> FALSE].t = i /\ [t |-> i, lost |-> FALSE].lost = FALSE
    OBVIOUS
  <2>10. m * 2^(k - q) = i
    BY <2>1, <2>2, <2>6
  <2>11. QED BY <1>11, <1>15, <2>8, <2>9, <2>10, Zenon DEF Cut
<1>16. QED BY <1>14, <1>15

\* How many digits a rounded significand has.
LEMMA DigitsRounded ==
  ASSUME PowersHold, NEW p \in Nat, NEW P \in Positive, P = 2^p, NEW t \in Nat
  PROVE  /\ P <= t /\ t < 2 * P => R!Digits(t) = p + 1
         /\ t = 2 * P => R!Digits(t) = p + 2
         /\ t <= P => R!Digits(t) \in Nat /\ R!Digits(t) <= p + 1
<1>1. 2^(p + 1) = 2 * P /\ 2^(p + 2) = 4 * P
  <2>1. p + 1 \in Nat /\ p + 2 = (p + 1) + 1
    OBVIOUS
  <2>2. 2^(p + 1) = 2 * 2^p /\ 2^((p + 1) + 1) = 2 * 2^(p + 1)
    BY <2>1, Power
  <2>3. QED BY <2>1, <2>2 DEF Positive
<1>2. ASSUME P <= t, t < 2 * P PROVE R!Digits(t) = p + 1
  <2>1. t \in Positive /\ p + 1 \in Positive /\ (p + 1) - 1 = p
    BY <1>2 DEF Positive
  <2>2. Lies(t, p + 1)
    BY <1>1, <1>2, <2>1 DEF Lies
  <2>3. QED BY <2>1, <2>2, LengthLies, LiesOnce
<1>3. ASSUME t = 2 * P PROVE R!Digits(t) = p + 2
  <2>1. t \in Positive /\ p + 2 \in Positive /\ (p + 2) - 1 = p + 1 /\ 2 * P < 4 * P
    BY <1>3 DEF Positive
  <2>2. Lies(t, p + 2)
    BY <1>1, <1>3, <2>1 DEF Lies, Positive
  <2>3. QED BY <2>1, <2>2, LengthLies, LiesOnce
<1>4. ASSUME t <= P PROVE R!Digits(t) \in Nat /\ R!Digits(t) <= p + 1
  <2>1. CASE t = 0
    BY <2>1 DEF R!Digits
  <2>2. CASE t # 0
    <3>1. t \in Positive
      BY <2>2 DEF Positive
    <3>2. PICK B \in Positive : B = R!Digits(t) /\ 2^(B - 1) <= t
      BY <3>1, LengthLies DEF Lies
    <3>3. ~(B > p + 1)
      <4>1. SUFFICES ASSUME B > p + 1 PROVE FALSE
        OBVIOUS
      <4>2. p + 1 \in Nat /\ B - 1 \in Nat /\ p + 1 <= B - 1
        BY <4>1 DEF Positive
      <4>3. 2^(p + 1) <= 2^(B - 1) /\ 2^(B - 1) \in Nat
        BY <4>2, Power, PowerOrder DEF Positive
      <4>4. QED BY <1>1, <1>4, <3>2, <4>3 DEF Positive
    <3>4. QED BY <3>2, <3>3 DEF Positive
  <2>3. QED BY <2>1, <2>2
<1>5. QED BY <1>2, <1>3, <1>4

\* The reference finds the number too large exactly when its pattern would
\* reach that of infinity.
LEMMA ReferenceOverflow ==
  ASSUME PowersHold, NEW f, Formatted(f), NEW P \in Positive, P = 2^f.p,
         NEW e \in Int, NEW t \in Nat,
         e >= 0 => P <= t /\ t <= 2 * P, e < 0 => t <= P,
         NEW q, q = 1 - f.bias - f.p + (IF e < 0 THEN 0 ELSE e)
  PROVE  q + R!Digits(t) > f.bias + 1 <=> (IF e < 0 THEN 0 ELSE e * P) + t >= f.inf * P
<1>1. PICK p \in Nat, a \in Nat : p = f.p /\ a = f.bias /\ a >= 3 /\ f.inf = 2 * a + 1
  BY FormatFields
<1>2. PICK k \in Nat : k = (2 * a + 1) * P
  BY <1>1 DEF Positive
<1>3. CASE e < 0
  <2>1. PICK B \in Nat : B = R!Digits(t) /\ B <= p + 1
    BY <1>1, <1>3, DigitsRounded
  <2>2. q = 1 - a - p + 0
    BY <1>1, <1>3
  <2>3. ~(q + B > a + 1)
    BY ONLY <1>1, <2>1, <2>2, a \in Nat, p \in Nat, B \in Nat
  <2>4. t < k
    <3>1. k = P + 2 * (a * P) /\ a * P >= 0 /\ a * P \in Int
      BY <1>2 DEF Positive
    <3>2. a * P > 0
      <4>1. P * 0 < P * a /\ P * 0 = 0 /\ P * a = a * P
        BY <1>1, Multiples DEF Positive
      <4>2. QED BY <4>1
    <3>3. QED BY <1>3, <3>1, <3>2 DEF Positive
  <2>5. QED BY <1>1, <1>2, <1>3, <2>1, <2>3, <2>4
<1>4. CASE ~(e < 0)
  <2>1. P <= t /\ t <= 2 * P /\ e \in Nat
    BY <1>4
  <2>2. PICK m \in Nat : m = e * P
    BY <2>1 DEF Positive
  <2>3. q = 1 - a - p + e
    BY <1>1, <1>4
  <2>4. PICK i \in Int : i = 2 * a + 1 - e
    BY <1>1
  <2>5. PICK j \in Int : j = i * P
    BY DEF Positive
  <2>6. k = m + j
    <3>1. (2 * a + 1) * P = e * P + (2 * a + 1 - e) * P
      BY <1>1, <2>1 DEF Positive
    <3>2. QED BY <1>2, <2>2, <2>4, <2>5, <3>1
  <2>7. /\ i <= 1 => j <= P
        /\ i = 2 => j = 2 * P
        /\ i >= 3 => j >= 3 * P
    <3>1. ASSUME i <= 1 PROVE j <= P
      <4>1. PICK c \in Nat : i = 1 - c
        <5>1. 1 - i \in Nat /\ i = 1 - (1 - i)
          BY <3>1
        <5>2. QED BY <5>1
      <4>2. (1 - c) * P = P - c * P /\ c * P >= 0
        BY DEF Positive
      <4>3. QED BY <2>5, <4>1, <4>2 DEF Positive
    <3>2. ASSUME i = 2 PROVE j = 2 * P
      BY <2>5, <3>2 DEF Positive
    <3>3. ASSUME i >= 3 PROVE j >= 3 * P
      <4>1. PICK c \in Nat : i = 3 + c
        <5>1. i - 3 \in Nat /\ i = 3 + (i - 3)
          BY <3>3
        <5>2. QED BY <5>1
      <4>2. (3 + c) * P = 3 * P + c * P /\ c * P >= 0
        BY DEF Positive
      <4>3. QED BY <2>5, <4>1, <4>2 DEF Positive
    <3>4. QED BY <3>1, <3>2, <3>3
  <2>8. m + t >= k <=> i <= 1 \/ (i = 2 /\ t = 2 * P)
    BY <2>1, <2>6, <2>7 DEF Positive
  <2>9. CASE t = 2 * P
    <3>1. R!Digits(t) = p + 2
      BY <1>1, <2>9, DigitsRounded
    <3>2. q + (p + 2) > a + 1 <=> i <= 2
      BY ONLY <2>1, <2>3, <2>4, a \in Nat, p \in Nat, i \in Int
    <3>3. QED BY <1>1, <1>2, <1>4, <2>2, <2>8, <2>9, <3>1, <3>2
  <2>10. CASE t # 2 * P
    <3>1. R!Digits(t) = p + 1
      <4>1. t < 2 * P
        BY <2>1, <2>10 DEF Positive
      <4>2. QED BY <1>1, <2>1, <4>1, DigitsRounded
    <3>2. q + (p + 1) > a + 1 <=> i <= 1
      BY ONLY <2>1, <2>3, <2>4, a \in Nat, p \in Nat, i \in Int
    <3>3. QED BY <1>1, <1>2, <1>4, <2>2, <2>8, <2>10, <3>1, <3>2
  <2>11. QED BY <2>9, <2>10
<1>5. QED BY <1>3, <1>4

\* The reference rounds the exact number.
LEMMA ReferenceRounds ==
  ASSUME PowersHold, NEW f, Formatted(f), NEW b, NEW y, NEW m, NEW st, NEW k, NEW e, NEW n, NEW u,
         Scaled(f, b, y, m, st, k, e, n, u), NEW rm \in Modes, NEW sign \in {0, 1}
  PROVE  R!Round(f, rm, sign = 1, m, k, st) = RoundedNumber(f, rm, sign, e, n, u)
<1>1. /\ k \in Int /\ e \in Int /\ n \in Nat /\ u \in Positive /\ m = b \div y /\ m # 0
      /\ b \in Nat /\ y \in Positive /\ k + R!Digits(m) - 2 + f.bias = e
  BY DEF Scaled
<1>2. PICK p \in Nat, a \in Nat : p = f.p /\ a = f.bias
  BY FormatFields
<1>3. PICK P \in Positive : P = 2^f.p
  BY <1>2, Power
<1>4. PICK B \in Positive : B = R!Digits(m)
  <2>1. m \in Positive
    BY <1>1 DEF Positive
  <2>2. QED BY <2>1, LengthLies DEF Lies
<1>5. PICK top \in Int : top = k + R!Digits(m) - 1
  <2>1. k + B - 1 \in Int
    BY <1>1 DEF Positive
  <2>2. QED BY <1>4, <2>1
<1>6. top = e + 1 - a
  BY ONLY <1>1, <1>2, <1>4, <1>5, a \in Nat, B \in Positive DEF Positive
<1>7. PICK q \in Int : q = 1 - f.bias - f.p + (IF e < 0 THEN 0 ELSE e)
  <2>1. 1 - f.bias - f.p + 0 \in Int /\ 1 - f.bias - f.p + e \in Int
    BY <1>1, <1>2
  <2>2. QED BY <2>1
<1>8. R!Larger(top - f.p, 1 - f.bias - f.p) = q
  <2>1. q = 1 - a - p + (IF e < 0 THEN 0 ELSE e)
    BY <1>2, <1>7
  <2>2. R!Larger(top - p, 1 - a - p) = q
    <3>1. CASE e < 0
      <4>1. q = 1 - a - p + 0
        BY <2>1, <3>1
      <4>2. QED BY ONLY <1>6, <4>1, <3>1, <1>1, a \in Nat, p \in Nat DEF R!Larger
    <3>2. CASE ~(e < 0)
      <4>1. q = 1 - a - p + e
        BY <2>1, <3>2
      <4>2. QED BY ONLY <1>6, <4>1, <3>2, <1>1, a \in Nat, p \in Nat DEF R!Larger
    <3>3. QED BY <3>1, <3>2
  <2>3. QED BY <1>2, <2>2
<1>9. PICK z : z = Cut(rm, sign, m, q, k, st)
  OBVIOUS
<1>10. z.t = RoundedTo(rm, sign, n, Unit(e, u)) /\ (z.lost <=> n % Unit(e, u) # 0)
  <2>1. LastPlace(f, e, q)
    BY <1>7 DEF LastPlace
  <2>2. QED BY <1>9, <2>1, ScaledRounds
<1>11. PICK t : t = z.t
  OBVIOUS
<1>12. t \in Nat /\ (e >= 0 => P <= t /\ t <= 2 * P) /\ (e < 0 => t <= P)
  <2>1. P * u <= n /\ n < 2 * (P * u)
    BY <1>3, ScaledInPlace
  <2>2. CASE e < 0
    <3>1. -e \in Nat /\ -e # 0
      BY <1>1, <2>2
    <3>2. 2^(-e) \in Positive /\ 2^(-e) > 1
      <4>1. 2^(-e) \in Positive /\ -e < 2^(-e)
        BY <3>1, Power
      <4>2. QED BY <3>1, <4>1 DEF Positive
    <3>3. PICK D \in Positive : D = 2^(-e) /\ D > 1
      BY <3>2
    <3>4. t = RoundedTo(rm, sign, n, D * u)
      BY <1>10, <1>11, <2>2, <3>3 DEF Unit
    <3>5. t \in Nat /\ t <= P
      BY <1>1, <2>1, <3>3, <3>4, RoundedInPlace
    <3>6. QED BY <1>1, <2>2, <3>5
  <2>3. CASE ~(e < 0)
    <3>1. 1 * u = u /\ 1 \in Positive
      BY <1>1 DEF Positive
    <3>2. t = RoundedTo(rm, sign, n, 1 * u)
      BY <1>10, <1>11, <2>3, <3>1 DEF Unit
    <3>3. QED BY <1>1, <2>1, <2>3, <3>1, <3>2, RoundedInPlace
  <2>4. QED BY <2>2, <2>3
<1>13. PICK l \in BOOLEAN : (l <=> n % Unit(e, u) # 0) /\ (l <=> z.lost)
  BY <1>10
<1>14. PICK mag \in Nat : mag = (IF e < 0 THEN 0 ELSE e * 2^f.p) + t
  BY <1>1, <1>3, <1>12 DEF Positive
<1>15. PICK M \in Nat : M = f.inf * 2^f.p
  BY <1>3, FormatFields DEF Positive
<1>16. q + R!Digits(z.t) > f.bias + 1 <=> mag >= M
  BY <1>1, <1>3, <1>7, <1>11, <1>12, <1>14, <1>15, ReferenceOverflow
<1>17. PICK T \in Nat : T = 2^(f.w - 1)
  BY FormatFields DEF FormatPowers
<1>18. PICK i \in {0, 1} :
         i = IF rm \in {"near_even", "near_maxMag", IF sign = 1 THEN "min" ELSE "max"} THEN 0 ELSE 1
  OBVIOUS
<1>19. RoundedNumber(f, rm, sign, e, n, u)
         = IF mag >= M THEN Result(sign * T + (M - i), {"overflow", "inexact"})
           ELSE Result(sign * T + mag, IF ~ l THEN {} ELSE IF e < 0 THEN {"underflow", "inexact"}
                                                      ELSE {"inexact"})
  BY <1>10, <1>11, <1>13, <1>14, <1>15, <1>17, <1>18 DEF RoundedNumber
<1>20. R!Round(f, rm, sign = 1, m, k, st)
         = IF q + R!Digits(z.t) > f.bias + 1
           THEN R!Outcome(R!Inf(f, sign = 1)
                            - (IF rm \in {"near_even", "near_maxMag", IF sign = 1 THEN "min" ELSE "max"}
                               THEN 0 ELSE 1), {"overflow", "inexact"})
           ELSE R!Outcome(R!Signed(f, sign = 1, (q + f.bias + f.p - 1) * 2^f.p + z.t),
                          R!Set("inexact", z.lost)
                            \cup R!Set("underflow", z.lost /\ top < 1 - f.bias))
  BY <1>5, <1>8, <1>9, Zenon DEF R!Round, Cut
<1>21. CASE mag >= M
  <2>1. R!Inf(f, sign = 1) = sign * T + M
    <3>1. CASE sign = 1
      BY <1>15, <1>17, <3>1 DEF R!Inf, R!Signed, R!InfMag
    <3>2. CASE sign = 0
      BY <1>15, <1>17, <3>2 DEF R!Inf, R!Signed, R!InfMag
    <3>3. QED BY <3>1, <3>2
  <2>2. R!Round(f, rm, sign = 1, m, k, st)
          = R!Outcome(R!Inf(f, sign = 1) - i, {"overflow", "inexact"})
    BY <1>16, <1>18, <1>20, <1>21, Zenon
  <2>3. (sign * T + M) - i = sign * T + (M - i)
    OBVIOUS
  <2>4. QED BY <1>19, <1>21, <2>1, <2>2, <2>3 DEF R!Outcome, Result
<1>22. CASE ~(mag >= M)
  <2>1. (q + f.bias + f.p - 1) * 2^f.p + z.t = mag
    <3>1. CASE e < 0
      <4>1. q + f.bias + f.p - 1 = 0
        BY <1>2, <1>7, <3>1
      <4>2. QED BY <1>3, <1>11, <1>12, <1>14, <3>1, <4>1 DEF Positive
    <3>2. CASE ~(e < 0)
      <4>1. q + f.bias + f.p - 1 = e
        <5>1. q = 1 - a - p + e
          BY <1>2, <1>7, <3>2
        <5>2. q + a + p - 1 = e
          BY ONLY <1>1, <5>1, a \in Nat, p \in Nat
        <5>3. QED BY <1>2, <5>2
      <4>2. QED BY <1>3, <1>11, <1>12, <1>14, <3>2, <4>1 DEF Positive
    <3>3. QED BY <3>1, <3>2
  <2>2. R!Signed(f, sign = 1, mag) = sign * T + mag
    <3>1. CASE sign = 1
      BY <1>17, <3>1 DEF R!Signed
    <3>2. CASE sign = 0
      BY <1>17, <3>2 DEF R!Signed
    <3>3. QED BY <3>1, <3>2
  <2>3. R!Set("inexact", z.lost) \cup R!Set("underflow", z.lost /\ top < 1 - f.bias)
          = IF ~ l THEN {} ELSE IF e < 0 THEN {"underflow", "inexact"} ELSE {"inexact"}
    <3>1. top < 1 - f.bias <=> e < 0
      BY <1>1, <1>2, <1>6
    <3>2. QED BY <1>13, <3>1 DEF R!Set
  <2>4. R!Round(f, rm, sign = 1, m, k, st)
          = R!Outcome(R!Signed(f, sign = 1, mag),
                      IF ~ l THEN {} ELSE IF e < 0 THEN {"underflow", "inexact"} ELSE {"inexact"})
    BY <1>16, <1>20, <1>22, <2>1, <2>3, Zenon
  <2>5. QED BY <1>19, <1>22, <2>2, <2>4 DEF R!Outcome, Result
<1>23. QED BY <1>21, <1>22

LEMMA RoundPackNumber ==
  ASSUME PowersHold, NEW f, Formatted(f), NEW s, NEW n, NEW d, StandsFor(f, s, n, d),
         NEW rm \in Modes, NEW sign \in {0, 1}, NEW e \in Int
  PROVE  roundPack(f, rm, sign, e, s) = RoundedNumber(f, rm, sign, e, n, 2 * d)
<1>1. FormatPowers(f) /\ f.w \in Nat
  BY FormatFields
<1>2. PICK P, h, N, T : Powered(f, P, h, N, T)
  BY <1>1, PoweredFormat
<1>3. CASE e < 0
  BY <1>1, <1>2, <1>3, PackSubnormal
<1>4. CASE ~(e < 0)
  <2>1. e \in Nat
    BY <1>4
  <2>2. QED BY <1>1, <1>2, <2>1, PackNormal
<1>5. QED BY <1>3, <1>4

\* When the significand given to roundPack stands for the exact number, the
\* pattern is the one the reference rounds it to.
LEMMA RoundPackExact ==
  ASSUME PowersHold, NEW f, Formatted(f), NEW s, NEW n, NEW d, StandsFor(f, s, n, d),
         NEW b, NEW y, NEW m, NEW st, NEW k, NEW e, Scaled(f, b, y, m, st, k, e, n, 2 * d),
         NEW rm \in Modes, NEW sign \in {0, 1}
  PROVE  roundPack(f, rm, sign, e, s) = R!Round(f, rm, sign = 1, m, k, st)
<1>1. e \in Int
  BY DEF Scaled
<1>2. roundPack(f, rm, sign, e, s) = RoundedNumber(f, rm, sign, e, n, 2 * d)
  BY <1>1, RoundPackNumber
<1>3. R!Round(f, rm, sign = 1, m, k, st) = RoundedNumber(f, rm, sign, e, n, 2 * d)
  BY ReferenceRounds
<1>4. QED BY <1>2, <1>3

\* The same for a number that is whole: m * 2^k, in units u.
Whole(f, m, k, e, n, u) ==
    /\ m \in Positive /\ k \in Int /\ e \in Int /\ n \in Nat /\ u \in Positive
    /\ k + R!Digits(m) - 2 + f.bias = e
    /\ n * 2^(R!Digits(m) - 1) = (u * 2^f.p) * m

ReferenceOf(f, rm, sign, m, k) == R!Round(f, rm, sign = 1, m, k, FALSE)

LEMMA RoundPackWhole ==
  ASSUME PowersHold, NEW f, Formatted(f), NEW s, NEW n, NEW d, StandsFor(f, s, n, d),
         NEW m, NEW k, NEW e, Whole(f, m, k, e, n, 2 * d), NEW rm \in Modes, NEW sign \in {0, 1}
  PROVE  roundPack(f, rm, sign, e, s) = ReferenceOf(f, rm, sign, m, k)
<1>1. PICK u \in Positive : u = 2 * d
  BY DEF Whole
<1>2. /\ m \in Positive /\ k \in Int /\ e \in Int /\ n \in Nat /\ u \in Positive
      /\ k + R!Digits(m) - 2 + f.bias = e
      /\ n * 2^(R!Digits(m) - 1) = (u * 2^f.p) * m
  BY <1>1 DEF Whole
<1>3. 1 \in Positive /\ m \in Nat /\ m # 0 /\ m = m \div 1 /\ m % 1 = 0
  BY <1>2 DEF Positive
<1>4. n * (1 * 2^(R!Digits(m) - 1)) = (u * 2^f.p) * m
  <2>1. PICK C \in Nat : C = 2^(R!Digits(m) - 1)
    <3>1. R!Digits(m) - 1 \in Nat
      BY <1>2, LengthLies DEF Lies, Positive
    <3>2. QED BY <3>1, Power DEF Positive
  <2>2. 1 * C = C
    OBVIOUS
  <2>3. QED BY <1>2, <2>1, <2>2, Zenon
<1>5. PICK st \in BOOLEAN : ~ st /\ st = FALSE
  OBVIOUS
<1>6. Scaled(f, m, 1, m, st, k, e, n, 2 * d)
  <2>1. st <=> m % 1 # 0
    BY <1>3, <1>5
  <2>2. st => R!Digits(m) > f.p + 1
    BY <1>5
  <2>3. QED BY <1>1, <1>2, <1>3, <1>4, <2>1, <2>2, Zenon DEF Scaled
<1>7. roundPack(f, rm, sign, e, s) = R!Round(f, rm, sign = 1, m, k, st)
  BY <1>6, RoundPackExact
<1>8. QED BY <1>5, <1>7, Zenon DEF ReferenceOf

\* roundPack (s_roundPackToF32.c, s_roundPackToF64.c), for formats of every
\* size, every mode, exponent and significand with its leading bit in place:
\* the pattern and the flags are those of the exact number, correctly rounded,
\* whether it overflows, is normal, or is shifted into the subnormal range and
\* loses bits twice.
THEOREM RoundPackCorrect ==
  ASSUME PowersHold, NEW f, Formatted(f), NEW rm \in Modes, NEW sign \in {0, 1}, NEW e \in Int,
         NEW sig \in Nat, 2^(f.w - 2) <= sig, sig < 2^(f.w - 1)
  PROVE  roundPack(f, rm, sign, e, sig)
           = R!Round(f, rm, sign = 1, sig, e + 1 - f.bias - f.p - f.x, FALSE)
<1>1. /\ FormatPowers(f) /\ f.p \in Nat /\ f.x \in Nat /\ f.w = f.p + f.x + 2 /\ f.bias \in Nat
      /\ f.w \in Nat
  BY FormatFields
<1>2. PICK h \in Positive : h = 2^(f.x - 1) /\ 2^f.x = 2 * h
  BY <1>1 DEF FormatPowers, Positive
<1>3. PICK P \in Positive : P = 2^f.p /\ 2^(f.w - 2) = P * (2 * h)
  BY <1>1, <1>2 DEF FormatPowers, Positive
<1>4. sig \in Positive
  BY <1>2, <1>3 DEF Positive
<1>5. R!Digits(sig) = f.w - 1
  <2>1. f.w - 1 \in Positive /\ (f.w - 1) - 1 = f.w - 2
    BY <1>1 DEF Positive
  <2>2. Lies(sig, f.w - 1)
    BY <2>1 DEF Lies
  <2>3. QED BY <1>4, <2>2, LengthLies, LiesOnce
<1>6. StandsFor(f, sig, sig, h)
  <2>1. Side(sig, h, sig, h)
    BY SideOfRatios
  <2>2. QED BY <1>2, <2>1 DEF StandsFor
<1>7. PICK k \in Int : k = e + 1 - f.bias - f.p - f.x
  BY <1>1
<1>8. Whole(f, sig, k, e, sig, 2 * h)
  <2>1. 2 * h \in Positive
    BY DEF Positive
  <2>3. k + R!Digits(sig) - 2 + f.bias = e
    <3>1. PICK p \in Nat, x \in Nat, a \in Nat : p = f.p /\ x = f.x /\ a = f.bias
      BY <1>1
    <3>2. k = e + 1 - a - p - x /\ R!Digits(sig) = p + x + 1
      BY <1>1, <1>5, <1>7, <3>1
    <3>3. k + (p + x + 1) - 2 + a = e
      BY ONLY <3>2, e \in Int, p \in Nat, x \in Nat, a \in Nat
    <3>4. QED BY <3>1, <3>2, <3>3
  <2>4. sig * 2^(R!Digits(sig) - 1) = (2 * h * 2^f.p) * sig
    <3>1. R!Digits(sig) - 1 = f.w - 2
      BY <1>1, <1>5
    <3>2. sig * (P * (2 * h)) = (2 * h * P) * sig
      BY DEF Positive
    <3>3. QED BY <1>3, <3>1, <3>2
  <2>5. QED BY <1>4, <2>1, <2>3, <2>4 DEF Whole
<1>9. roundPack(f, rm, sign, e, sig) = ReferenceOf(f, rm, sign, sig, k)
  BY <1>6, <1>8, RoundPackWhole
<1>10. QED BY <1>7, <1>9, Zenon DEF ReferenceOf

\* A product or sum that is shifted right with its lost bits jammed, by D, and
\* back left by one when its leading bit is missing, stands for itself.
LEMMA JamStandsFor ==
  ASSUME PowersHold, NEW f, Formatted(f), NEW v \in Nat, NEW D \in Positive,
         NEW z, z = Jam(v \div D, v % D # 0)
  PROVE  /\ 2^(f.w - 2) * D <= v /\ v < 2^(f.w - 1) * D =>
              StandsFor(f, z, v, D * 2^(f.x - 1))
         /\ 2^(f.w - 3) * D <= v /\ v < 2^(f.w - 2) * D =>
              StandsFor(f, 2 * z, v, D * 2^(f.x - 2))
         /\ z < 2^(f.w - 2) <=> v < 2^(f.w - 2) * D
<1>1. FormatPowers(f) /\ f.w \in Nat /\ f.x \in Nat /\ f.p \in Nat /\ f.w = f.p + f.x + 2 /\ f.x >= 3 /\ f.p >= 2
  BY FormatFields
<1>2. PICK c \in Positive : c = 2^(f.x - 3) /\ 2^(f.x - 2) = 2 * c /\ 2^(f.x - 1) = 2 * (2 * c)
  BY <1>1 DEF FormatPowers, Positive
<1>3. PICK a \in Positive : a = 2^(f.w - 4) /\ 2^(f.w - 3) = 2 * a /\ 2^(f.w - 2) = 4 * a /\ 2^(f.w - 1) = 8 * a
  <2>1. f.w - 4 \in Nat /\ f.w - 3 \in Nat /\ f.w - 2 \in Nat /\ f.w - 3 = (f.w - 4) + 1
        /\ f.w - 2 = (f.w - 3) + 1 /\ f.w - 1 = (f.w - 2) + 1
    BY <1>1
  <2>2. /\ 2^(f.w - 4) \in Positive /\ 2^(f.w - 3) = 2 * 2^(f.w - 4)
        /\ 2^(f.w - 2) = 2 * 2^(f.w - 3) /\ 2^(f.w - 1) = 2 * 2^(f.w - 2)
    BY <2>1, Power
  <2>3. QED BY <2>2 DEF Positive
<1>4. z \in Nat
  <2>1. 1 \in Positive
    BY DEF Positive
  <2>2. QED BY <2>1, SideOfJam
<1>5. /\ z < 2 * a <=> v < D * (2 * a)
      /\ z < 4 * a <=> v < D * (4 * a)
      /\ z < 8 * a <=> v < D * (8 * a)
  <2>1. Side(z, 2 * a, v, D * (2 * a))
    BY SideOfJam
  <2>2. 1 \in Nat /\ 2 \in Nat /\ 4 \in Nat
    OBVIOUS
  <2>3. /\ z < (2 * a) * 1 <=> v < (D * (2 * a)) * 1
        /\ z < (2 * a) * 2 <=> v < (D * (2 * a)) * 2
        /\ z < (2 * a) * 4 <=> v < (D * (2 * a)) * 4
    BY <2>1, <2>2 DEF Side
  <2>4. /\ (2 * a) * 1 = 2 * a /\ (2 * a) * 2 = 4 * a /\ (2 * a) * 4 = 8 * a
        /\ (D * (2 * a)) * 1 = D * (2 * a) /\ (D * (2 * a)) * 2 = D * (4 * a)
        /\ (D * (2 * a)) * 4 = D * (8 * a)
    BY DEF Positive
  <2>5. QED BY <2>3, <2>4
<1>6. /\ 2^(f.w - 3) * D = D * (2 * a) /\ 2^(f.w - 2) * D = D * (4 * a)
      /\ 2^(f.w - 1) * D = D * (8 * a)
  BY <1>3 DEF Positive
<1>7. PICK i \in Nat, j \in Nat, k \in Nat : i = D * (2 * a) /\ j = D * (4 * a) /\ k = D * (8 * a)
  BY DEF Positive
<1>8. ASSUME j <= v, v < k PROVE StandsFor(f, z, v, D * 2^(f.x - 1))
  <2>1. Side(z, 2 * (2 * c), v, D * (2 * (2 * c))) /\ D * (2 * (2 * c)) \in Positive
    <3>1. 2 * c \in Positive /\ D * (2 * (2 * c)) \in Positive
      BY DEF Positive
    <3>2. QED BY <3>1, SideOfJam
  <2>2. 4 * a <= z /\ z < 8 * a
    BY ONLY <1>4, <1>5, <1>7, <1>8, a \in Positive, v \in Nat DEF Positive
  <2>3. QED BY <1>2, <1>3, <1>4, <2>1, <2>2 DEF StandsFor
<1>9. ASSUME i <= v, v < j PROVE StandsFor(f, 2 * z, v, D * 2^(f.x - 2))
  <2>1. Side(z, 2 * c, v, D * (2 * c)) /\ D * (2 * c) \in Positive
    <3>1. D * (2 * c) \in Positive
      BY DEF Positive
    <3>2. QED BY <3>1, SideOfJam
  <2>2. Side(2 * z, 2 * (2 * c), z, 2 * c)
    <3>1. (2 * z) * (2 * c) = z * (2 * (2 * c)) /\ 2 * z \in Nat /\ 2 * c \in Positive
          /\ 2 * (2 * c) \in Positive
      BY <1>4 DEF Positive
    <3>2. QED BY <1>4, <3>1, SideOfRatios
  <2>3. Side(2 * z, 2 * (2 * c), v, D * (2 * c))
    BY <2>1, <2>2, SideTransitive, Zenon
  <2>4. 4 * a <= 2 * z /\ 2 * z < 8 * a /\ 2 * z \in Nat
    BY ONLY <1>4, <1>5, <1>7, <1>9, a \in Positive, v \in Nat DEF Positive
  <2>5. QED BY <1>2, <1>3, <2>1, <2>3, <2>4 DEF StandsFor
<1>10. QED BY <1>3, <1>5, <1>6, <1>7, <1>8, <1>9, Zenon

------------------------------------------------------------------------------
\* Products.  Shifting a number left adds to its digits.
LEMMA DigitsShift ==
  ASSUME PowersHold, NEW m \in Positive, NEW j \in Nat
  PROVE  m * 2^j \in Positive /\ R!Digits(m * 2^j) = R!Digits(m) + j
<1>1. PICK k \in Positive : k = R!Digits(m) /\ 2^(k - 1) <= m /\ m < 2^k
  BY LengthLies DEF Lies
<1>2. k \in Nat /\ k - 1 \in Nat /\ k + j \in Positive /\ (k + j) - 1 = (k - 1) + j
  BY DEF Positive
<1>3. PICK a \in Positive, b \in Positive, c \in Positive : a = 2^(k - 1) /\ b = 2^k /\ c = 2^j
  BY <1>2, Power
<1>4. 2^((k - 1) + j) = a * c /\ 2^(k + j) = b * c
  BY <1>2, <1>3, Power
<1>5. a <= m /\ m < b
  BY <1>1, <1>3
<1>6. a * c <= m * c /\ m * c < b * c /\ m * c \in Positive
  BY ONLY <1>5, a \in Positive, b \in Positive, c \in Positive, m \in Positive DEF Positive
<1>7. Lies(m * c, k + j)
  BY <1>2, <1>4, <1>6 DEF Lies
<1>8. R!Digits(m * c) = k + j
  BY <1>6, <1>7, LengthLies, LiesOnce DEF Positive
<1>9. QED BY <1>1, <1>3, <1>6, <1>8

\* A finite nonzero operand: the magnitude the pattern stands for, shifted left
\* until its leading bit is in the place of the hidden one.
Normalized(f, a, j) ==
    /\ j \in Nat /\ R!M(f, a) \in Positive /\ R!K(f, a) \in Int
    /\ operand(f, a).exp \in Int /\ operand(f, a).sig \in Positive
    /\ operand(f, a).sig = R!M(f, a) * 2^j
    /\ operand(f, a).exp = R!K(f, a) + f.bias + f.p - j
    /\ R!Digits(operand(f, a).sig) = f.p + 1

LEMMA OperandNormalized ==
  ASSUME PowersHold, NEW f, Formatted(f), NEW a \in 0 .. 2^f.w - 1,
         NEW s \in {0, 1}, NEW e \in 0 .. f.inf, NEW r \in 0 .. 2^f.p - 1, Decoded(f, a, s, e, r),
         ~ isZero(f, a), e # f.inf
  PROVE  \E j : Normalized(f, a, j)
<1>1. /\ FormatPowers(f) /\ f.p \in Nat /\ f.x \in Nat /\ f.w = f.p + f.x + 2 /\ f.bias \in Nat
      /\ f.w \in Nat /\ f.e = f.x + 1 /\ f.inf \in Nat
  BY FormatFields
<1>2. PICK P \in Positive : P = 2^f.p
  BY <1>1, Power
<1>3. r \in Nat /\ r < P /\ e \in Nat
  BY <1>1, <1>2 DEF Positive
<1>4. expUI(f, a) = e /\ fracUI(f, a) = r /\ R!Mag(f, a) = P * e + r /\ P * e + r # 0
  BY <1>2 DEF Decoded
<1>5. a % P = r
  BY <1>2, <1>4 DEF fracUI
<1>6. f.p + 1 \in Positive /\ (f.p + 1) - 1 = f.p /\ 2^(f.p + 1) = 2 * P
  <2>1. 2^(f.p + 1) = 2 * 2^f.p
    BY <1>1, Power
  <2>2. QED BY <1>1, <1>2, <2>1 DEF Positive
<1>7. CASE e = 0
  <2>1. P * e + r = r
    BY <1>3, <1>7 DEF Positive
  <2>2. r \in Positive
    BY <1>3, <1>4, <2>1 DEF Positive
  <2>3. R!M(f, a) = r /\ R!K(f, a) = 1 - f.bias - f.p
    BY <1>2, <1>3, <1>4, <2>1 DEF R!M, R!K, R!Subnormal
  <2>4. PICK L \in Positive : L = R!Digits(r) /\ L = BitLength(r) /\ Lies(r, L)
    BY <2>2, LengthLies DEF Lies
  <2>5. L <= f.p
    <3>1. SUFFICES ASSUME ~ (L <= f.p) PROVE FALSE
      OBVIOUS
    <3>2. L - 1 \in Nat /\ f.p <= L - 1
      BY <1>1, <3>1 DEF Positive
    <3>3. P <= 2^(L - 1)
      BY <1>1, <1>2, <3>2, PowerOrder
    <3>4. 2^(L - 1) \in Positive
      BY <3>2, Power
    <3>5. QED BY <1>3, <2>4, <3>3, <3>4 DEF Lies, Positive
  <2>6. PICK j \in Nat : j = f.p + 1 - L
    <3>1. f.p + 1 - L \in Nat
      BY <1>1, <2>5 DEF Positive
    <3>2. QED BY <3>1
  <2>7. f.w - L - f.e = j
    BY <1>1, <2>6 DEF Positive
  <2>8. operand(f, a) = [exp |-> 1 - j, sig |-> r * 2^j]
    BY <1>4, <1>7, <2>4, <2>7 DEF operand, normSubnormalSig, countLeadingZeros
  <2>9. r * 2^j \in Positive /\ R!Digits(r * 2^j) = f.p + 1
    <3>1. r * 2^j \in Positive /\ R!Digits(r * 2^j) = L + j
      BY <2>2, <2>4, DigitsShift
    <3>2. L + j = f.p + 1
      BY <1>1, <2>6 DEF Positive
    <3>3. QED BY <3>1, <3>2
  <2>10. operand(f, a).exp = 1 - j /\ operand(f, a).sig = r * 2^j
    BY <2>8
  <2>11. /\ 1 - j = (1 - f.bias - f.p) + f.bias + f.p - j /\ 1 - j \in Int
         /\ 1 - f.bias - f.p \in Int
    BY <1>1
  <2>12. Normalized(f, a, j)
    BY <2>2, <2>3, <2>9, <2>10, <2>11 DEF Normalized
  <2>13. QED BY <2>12
<1>8. CASE e # 0
  <2>1. P * e >= P
    <3>1. PICK g \in Nat : e = 1 + g
      <4>1. e - 1 \in Nat /\ e = 1 + (e - 1)
        BY <1>3, <1>8
      <4>2. QED BY <4>1
    <3>2. P * e = P + P * g /\ P * g >= 0
      BY <3>1 DEF Positive
    <3>3. QED BY <3>2 DEF Positive
  <2>2. ~ R!Subnormal(f, a)
    <3>1. P * e \in Int
      BY <1>3 DEF Positive
    <3>2. ~ (P * e + r < P)
      BY <1>3, <2>1, <3>1 DEF Positive
    <3>3. QED BY <1>2, <1>4, <3>2 DEF R!Subnormal
  <2>3. (P * e + r) \div P = e
    <3>1. Splits(P * e + r, P, e, r)
      BY <1>2, <1>3 DEF Splits, Positive
    <3>2. QED BY <3>1, SplitsIs
  <2>4. R!M(f, a) = P + r /\ R!K(f, a) = e - f.bias - f.p
    BY <1>2, <1>4, <1>5, <2>2, <2>3 DEF R!M, R!K
  <2>5. operand(f, a).exp = e /\ operand(f, a).sig = r + P
    BY <1>2, <1>4, <1>8 DEF operand
  <2>6. P + r \in Positive /\ r + P = (P + r) * 1 /\ 2^0 = 1 /\ r + P = P + r
    <3>1. 0 \in Nat
      OBVIOUS
    <3>2. QED BY <1>3, <3>1, Power DEF Positive
  <2>7. R!Digits(P + r) = f.p + 1
    <3>1. P <= P + r /\ P + r < 2 * P
      BY <1>3 DEF Positive
    <3>2. Lies(P + r, f.p + 1)
      BY <1>2, <1>6, <3>1 DEF Lies
    <3>3. QED BY <2>6, <3>2, LengthLies, LiesOnce DEF Positive
  <2>8. e = (e - f.bias - f.p) + f.bias + f.p - 0 /\ e - f.bias - f.p \in Int /\ e \in Int
    BY <1>1, <1>3
  <2>9. Normalized(f, a, 0)
    BY <2>4, <2>5, <2>6, <2>7, <2>8 DEF Normalized
  <2>10. QED BY <2>9
<1>9. QED BY <1>7, <1>8

\* It does not matter how far the exact number m was shifted to the left.
LEMMA WholeShifted ==
  ASSUME PowersHold, NEW f, Formatted(f), NEW m \in Positive, NEW j \in Nat, NEW k \in Int, NEW e \in Int,
         NEW n \in Nat, NEW u \in Positive, NEW L \in Positive, L = R!Digits(m * 2^j),
         k + L - j - 2 + f.bias = e, n * 2^(L - 1) = (u * 2^f.p) * (m * 2^j)
  PROVE  Whole(f, m, k, e, n, u)
<1>1. f.p \in Nat /\ f.bias \in Nat
  BY FormatFields
<1>2. PICK D \in Positive : D = R!Digits(m) /\ L = D + j
  BY DigitsShift, LengthLies DEF Lies
<1>3. D - 1 \in Nat /\ (D - 1) + j = L - 1
  BY <1>2 DEF Positive
<1>4. PICK a \in Positive, c \in Positive, P \in Positive : a = 2^(D - 1) /\ c = 2^j /\ P = 2^f.p
  BY <1>1, <1>3, Power
<1>5. 2^(L - 1) = a * c
  BY <1>3, <1>4, Power
<1>6. n * a = (u * P) * m
  <2>1. n * (a * c) = (u * P) * (m * c)
    BY <1>4, <1>5
  <2>2. n * (a * c) = (n * a) * c /\ (u * P) * (m * c) = ((u * P) * m) * c
    BY DEF Positive
  <2>3. PICK y \in Int, z \in Int : y = n * a /\ z = (u * P) * m
    BY DEF Positive
  <2>4. y * c = z * c
    BY <2>1, <2>2, <2>3
  <2>5. y = z
    BY ONLY <2>4, y \in Int, z \in Int, c \in Positive DEF Positive
  <2>6. QED BY <2>3, <2>5
<1>7. k + D - 2 + f.bias = e
  <2>1. PICK b \in Nat : b = f.bias
    BY <1>1
  <2>2. k + L - j - 2 + b = e
    BY <2>1
  <2>3. k + D - 2 + b = e
    BY ONLY <1>2, <2>2, k \in Int, D \in Positive, j \in Nat, b \in Nat DEF Positive
  <2>4. QED BY <2>1, <2>3
<1>8. QED BY <1>2, <1>4, <1>6, <1>7 DEF Whole

\* The product of two significands between P and 2 * P.
LEMMA ProductPlace ==
  ASSUME NEW P \in Positive, NEW h \in Positive, NEW sA \in Positive, NEW sB \in Positive,
         P <= sA, sA < 2 * P, P <= sB, sB < 2 * P
  PROVE  /\ P * P <= sA * sB /\ sA * sB < 4 * (P * P)
         /\ sA * (2 * h) * sB * (4 * h) = (8 * (h * h)) * (sA * sB)
         /\ P * h * (8 * (P * h)) = (8 * (h * h)) * (P * P)
         /\ 2 * (P * h) * (8 * (P * h)) = (8 * (h * h)) * (2 * (P * P))
         /\ 4 * (P * h) * (8 * (P * h)) = (8 * (h * h)) * (4 * (P * P))
<1>1. P * P <= sA * sB /\ sA * sB < 4 * (P * P)
  <2>1. PICK a \in Nat, b \in Nat : sA = P + a /\ sB = P + b /\ a < P /\ b < P
    <3>1. sA - P \in Nat /\ sB - P \in Nat /\ sA = P + (sA - P) /\ sB = P + (sB - P)
          /\ sA - P < P /\ sB - P < P
      BY DEF Positive
    <3>2. QED BY <3>1
  <2>2. sA * sB = P * P + P * a + P * b + a * b
    BY <2>1 DEF Positive
  <2>3. P * a >= 0 /\ P * b >= 0 /\ a * b >= 0 /\ P * a < P * P /\ P * b < P * P /\ a * b < P * P
    BY <2>1 DEF Positive
  <2>4. PICK Q \in Int, x \in Int, y \in Int, z \in Int : Q = P * P /\ x = P * a /\ y = P * b /\ z = a * b
    BY DEF Positive
  <2>5. QED BY <2>2, <2>3, <2>4
<1>2. QED BY <1>1 DEF Positive

ProductOperand(f, s, m, j) ==
    /\ s \in Positive /\ m \in Positive /\ j \in Nat /\ s = m * 2^j /\ R!Digits(s) = f.p + 1

\* What mul does with two normalized operands of exponents c and d.
LEMMA ProductRounds ==
  ASSUME PowersHold, NEW f, Formatted(f), NEW rm \in Modes, NEW sign \in {0, 1},
         NEW sA, NEW mA, NEW jA, ProductOperand(f, sA, mA, jA),
         NEW sB, NEW mB, NEW jB, ProductOperand(f, sB, mB, jB),
         NEW k \in Int, NEW e \in Int, e = k + 2 * f.p + f.bias - (jA + jB),
         NEW z, z = shortShiftRightJam(sA * 2^f.x * sB * 2^(f.x + 1), f.w)
  PROVE  (IF z < 2^(f.w - 2) THEN roundPack(f, rm, sign, e - 1, 2 * z)
                             ELSE roundPack(f, rm, sign, e, z))
           = ReferenceOf(f, rm, sign, mA * mB, k)
<1>1. /\ FormatPowers(f) /\ f.p \in Nat /\ f.x \in Nat /\ f.w = f.p + f.x + 2 /\ f.bias \in Nat
      /\ f.w \in Nat /\ f.x >= 3 /\ f.p >= 2
  BY FormatFields
<1>2. PICK g \in Positive : g = 2^(f.x - 2)
  BY <1>1 DEF FormatPowers, Positive
<1>3. PICK h \in Positive : h = 2 * g /\ h = 2^(f.x - 1) /\ 2^f.x = 2 * h
  BY <1>1, <1>2 DEF FormatPowers, Positive
<1>4. PICK P \in Positive : P = 2^f.p
  BY <1>1, Power
<1>5. /\ 2^(f.w - 2) = 2 * (P * h) /\ 2^(f.w - 1) = 4 * (P * h) /\ 2^f.w = 8 * (P * h)
      /\ 2^(f.w - 3) = P * h /\ 2^(f.x + 1) = 4 * h
  <2>1. 2^(f.w - 2) = P * (2 * h) /\ 2^(f.w - 1) = 2 * 2^(f.w - 2) /\ 2^f.w = 2 * 2^(f.w - 1)
    BY <1>1, <1>3, <1>4 DEF FormatPowers
  <2>2. f.w - 3 \in Nat /\ f.w - 2 = (f.w - 3) + 1
    BY <1>1
  <2>3. 2^(f.w - 3) \in Positive /\ 2^(f.w - 2) = 2 * 2^(f.w - 3)
    BY <2>2, Power
  <2>4. 2^(f.x + 1) = 2 * 2^f.x
    BY <1>1, Power
  <2>5. P * (2 * h) = 2 * (P * h) /\ P * h \in Positive
    BY DEF Positive
  <2>6. PICK c \in Positive : c = P * h
    BY <2>5
  <2>7. QED BY <1>3, <2>1, <2>3, <2>4, <2>5, <2>6 DEF Positive
<1>6. /\ sA \in Positive /\ sB \in Positive /\ mA \in Positive /\ mB \in Positive /\ jA \in Nat /\ jB \in Nat
      /\ sA = mA * 2^jA /\ sB = mB * 2^jB
  BY DEF ProductOperand
<1>7. 2^(f.p + 1) = 2 * P /\ f.p + 1 \in Positive /\ (f.p + 1) - 1 = f.p
  <2>1. 2^(f.p + 1) = 2 * 2^f.p
    BY <1>1, Power
  <2>2. QED BY <1>1, <1>4, <2>1 DEF Positive
<1>8. P <= sA /\ sA < 2 * P /\ P <= sB /\ sB < 2 * P
  <2>1. Lies(sA, f.p + 1) /\ Lies(sB, f.p + 1)
    BY <1>6, LengthLies DEF ProductOperand
  <2>2. QED BY <1>4, <1>7, <2>1 DEF Lies
<1>9. PICK Z \in Positive, Q \in Positive, c \in Positive : Z = sA * sB /\ Q = P * P /\ c = 8 * (h * h)
  BY <1>6 DEF Positive
<1>10. Q <= Z /\ Z < 4 * Q
  BY <1>6, <1>8, <1>9, ProductPlace
<1>11. PICK v \in Nat : v = sA * 2^f.x * sB * 2^(f.x + 1) /\ v = c * Z
  <2>1. sA * (2 * h) * sB * (4 * h) = c * Z
    BY <1>6, <1>8, <1>9, ProductPlace
  <2>2. QED BY <1>3, <1>5, <2>1 DEF Positive
<1>12. PICK D \in Positive : D = 2^f.w /\ D = 8 * (P * h)
  BY <1>1, <1>5, Power
<1>13. 2^(f.w - 3) * D = c * Q /\ 2^(f.w - 2) * D = c * (2 * Q) /\ 2^(f.w - 1) * D = c * (4 * Q)
  BY <1>5, <1>6, <1>8, <1>9, <1>12, ProductPlace
<1>14. z = Jam(v \div D, v % D # 0)
  BY <1>11, <1>12 DEF shortShiftRightJam
<1>15. /\ c * Q <= v /\ v < c * (4 * Q)
       /\ v < c * (2 * Q) <=> Z < 2 * Q
  BY ONLY <1>10, <1>11, c \in Positive, Z \in Positive, Q \in Positive DEF Positive
<1>16. PICK m \in Positive, j \in Nat : m = mA * mB /\ j = jA + jB /\ Z = m * 2^j
  <2>1. PICK a \in Positive, b \in Positive : a = 2^jA /\ b = 2^jB
    BY <1>6, Power
  <2>2. 2^(jA + jB) = a * b
    BY <1>6, <2>1, Power
  <2>3. Z = (mA * mB) * (a * b) /\ mA * mB \in Positive
    BY <1>6, <1>9, <2>1 DEF Positive
  <2>4. QED BY <1>6, <2>2, <2>3
<1>17. PICK E \in Int : E = e /\ e = k + 2 * f.p + f.bias - j
  BY <1>16
<1>18. 2^(2 * f.p) = Q /\ 2^(2 * f.p + 1) = 2 * Q /\ 2^(2 * f.p + 2) = 4 * Q
  <2>1. 2 * f.p = f.p + f.p /\ 2 * f.p \in Nat /\ 2 * f.p + 1 \in Nat /\ 2 * f.p + 2 = (2 * f.p + 1) + 1
    BY <1>1
  <2>2. 2^(f.p + f.p) = P * P
    BY <1>1, <1>4, Power
  <2>3. 2^(2 * f.p + 1) = 2 * 2^(2 * f.p) /\ 2^((2 * f.p + 1) + 1) = 2 * 2^(2 * f.p + 1)
    BY <2>1, Power
  <2>4. QED BY <1>9, <2>1, <2>2, <2>3 DEF Positive
<1>19. CASE Z < 2 * Q
  <2>1. StandsFor(f, 2 * z, v, D * 2^(f.x - 2)) /\ z < 2^(f.w - 2)
    BY <1>13, <1>14, <1>15, <1>19, JamStandsFor
  <2>2. PICK d \in Positive : d = D * 2^(f.x - 2) /\ d = D * g
    BY <1>2 DEF Positive
  <2>3. PICK L \in Positive : L = 2 * f.p + 1 /\ L - 1 = 2 * f.p
    BY <1>1 DEF Positive
  <2>4. R!Digits(Z) = L
    <3>1. Lies(Z, L)
      BY <1>10, <1>18, <1>19, <2>3 DEF Lies
    <3>2. QED BY <3>1, LengthLies, LiesOnce DEF Positive
  <2>5. 2 * d \in Positive /\ v * Q = ((2 * d) * P) * Z
    <3>1. 2 * (D * g) * P = c * Q
      <4>1. 2 * (8 * (P * h) * g) * P = 8 * (h * (2 * g)) * (P * P)
        BY DEF Positive
      <4>2. QED BY <1>3, <1>9, <1>12, <4>1
    <3>2. (c * Z) * Q = (c * Q) * Z
      BY DEF Positive
    <3>3. (2 * d) * P = c * Q
      BY <2>2, <3>1, Zenon
    <3>4. 2 * d \in Positive
      BY ONLY d \in Positive DEF Positive
    <3>5. QED BY <1>11, <3>2, <3>3, <3>4, Zenon
  <2>6. k + L - j - 2 + f.bias = e - 1 /\ e - 1 \in Int
    <3>1. PICK p \in Nat, b \in Nat : p = f.p /\ b = f.bias
      BY <1>1
    <3>2. L = 2 * p + 1 /\ e = k + 2 * p + b - j
      BY <1>17, <2>3, <3>1
    <3>3. k + L - j - 2 + b = e - 1
      BY ONLY <3>2, k \in Int, p \in Nat, b \in Nat, j \in Nat
    <3>4. QED BY <3>1, <3>3
  <2>7. L = R!Digits(m * 2^j) /\ v * 2^(L - 1) = ((2 * d) * 2^f.p) * (m * 2^j)
    BY <1>4, <1>16, <1>18, <2>3, <2>4, <2>5
  <2>8. Whole(f, m, k, e - 1, v, 2 * d)
    BY <2>5, <2>6, <2>7, WholeShifted
  <2>9. roundPack(f, rm, sign, e - 1, 2 * z) = ReferenceOf(f, rm, sign, m, k)
    BY <2>1, <2>2, <2>8, RoundPackWhole
  <2>10. QED BY <1>16, <2>1, <2>9, Zenon
<1>20. CASE ~ (Z < 2 * Q)
  <2>1. StandsFor(f, z, v, D * 2^(f.x - 1)) /\ ~ (z < 2^(f.w - 2))
    <3>1. c * (2 * Q) \in Int
      BY DEF Positive
    <3>2. QED BY <1>13, <1>14, <1>15, <1>20, <3>1, JamStandsFor
  <2>2. PICK d \in Positive : d = D * 2^(f.x - 1) /\ d = D * h
    BY <1>3 DEF Positive
  <2>3. PICK L \in Positive : L = 2 * f.p + 2 /\ L - 1 = 2 * f.p + 1
    BY <1>1 DEF Positive
  <2>4. R!Digits(Z) = L
    <3>1. Lies(Z, L)
      BY <1>10, <1>18, <1>20, <2>3 DEF Lies, Positive
    <3>2. QED BY <3>1, LengthLies, LiesOnce DEF Positive
  <2>5. 2 * d \in Positive /\ v * (2 * Q) = ((2 * d) * P) * Z
    <3>1. 2 * (D * h) * P = c * (2 * Q)
      <4>1. 2 * (8 * (P * h) * h) * P = 8 * (h * h) * (2 * (P * P))
        BY DEF Positive
      <4>2. QED BY <1>9, <1>12, <4>1
    <3>2. (c * Z) * (2 * Q) = (c * (2 * Q)) * Z
      BY DEF Positive
    <3>3. (2 * d) * P = c * (2 * Q)
      BY <2>2, <3>1, Zenon
    <3>4. 2 * d \in Positive
      BY ONLY d \in Positive DEF Positive
    <3>5. QED BY <1>11, <3>2, <3>3, <3>4, Zenon
  <2>6. k + L - j - 2 + f.bias = e
    <3>1. PICK p \in Nat, b \in Nat : p = f.p /\ b = f.bias
      BY <1>1
    <3>2. L = 2 * p + 2 /\ e = k + 2 * p + b - j
      BY <1>17, <2>3, <3>1
    <3>3. k + L - j - 2 + b = e
      BY ONLY <3>2, k \in Int, p \in Nat, b \in Nat, j \in Nat
    <3>4. QED BY <3>1, <3>3
  <2>7. L = R!Digits(m * 2^j) /\ v * 2^(L - 1) = ((2 * d) * 2^f.p) * (m * 2^j)
    BY <1>4, <1>16, <1>18, <2>3, <2>4, <2>5
  <2>8. Whole(f, m, k, e, v, 2 * d)
    BY <2>5, <2>6, <2>7, WholeShifted
  <2>9. roundPack(f, rm, sign, e, z) = ReferenceOf(f, rm, sign, m, k)
    BY <2>1, <2>2, <2>8, RoundPackWhole
  <2>10. QED BY <1>16, <2>1, <2>9, Zenon
<1>21. QED BY <1>19, <1>20, Zenon

\* What the reference's product is, kind by kind: its addend is a zero of the
\* sign of the product.
LEMMA SignedZero ==
  ASSUME NEW f, FormatPowers(f), NEW neg \in BOOLEAN, NEW c, c = R!Signed(f, neg, 0)
  PROVE  ~ R!NaN(f, c) /\ ~ R!Signaling(f, c) /\ ~ R!Infinite(f, c) /\ R!Zero(f, c)
         /\ (R!Negative(f, c) <=> neg)
<1>1. PICK T \in Positive : T = 2^(f.w - 1)
  BY DEF FormatPowers, Positive
<1>2. PICK P \in Positive : P = 2^f.p
  BY DEF FormatPowers, Positive
<1>3. c = IF neg THEN T ELSE 0
  BY <1>1 DEF R!Signed, Positive
<1>4. c % T = 0
  <2>1. 0 \in 0 .. T - 1 /\ T = T * 1 + 0 /\ 0 = T * 0 + 0
    BY DEF Positive
  <2>2. Splits(T, T, 1, 0) /\ Splits(0, T, 0, 0)
    BY <2>1 DEF Splits, Positive
  <2>3. QED BY <1>3, <2>2, SplitsIs
<1>5. R!Mag(f, c) = 0
  BY <1>1, <1>4 DEF R!Mag
<1>6. f.inf * P \in Nat /\ f.inf * P > 0
  BY DEF FormatPowers, Positive
<1>7. R!NaN(f, c) <=> FALSE
  BY <1>2, <1>5, <1>6 DEF R!NaN, R!InfMag
<1>8. ~ R!Infinite(f, c) /\ R!Zero(f, c)
  BY <1>2, <1>5, <1>6 DEF R!Infinite, R!InfMag, R!Zero
<1>9. R!Negative(f, c) <=> neg
  BY <1>1, <1>3 DEF R!Negative, Positive
<1>10. QED BY <1>7, <1>8, <1>9 DEF R!Signaling

ProductIs(f, rm, a, b, neg) ==
    LET infProd == R!Infinite(f, a) \/ R!Infinite(f, b)
        zeroProd == R!Zero(f, a) \/ R!Zero(f, b)
    IN  /\ R!NaN(f, a) \/ R!NaN(f, b) =>
             R!Mul(f, rm, a, b)
               = R!QuietNaN(f, R!Set("invalid", R!Signaling(f, a) \/ R!Signaling(f, b)))
        /\ ~ R!NaN(f, a) /\ ~ R!NaN(f, b) =>
             /\ infProd /\ zeroProd => R!Mul(f, rm, a, b) = R!QuietNaN(f, {"invalid"})
             /\ infProd /\ ~ zeroProd => R!Mul(f, rm, a, b) = R!Outcome(R!Inf(f, neg), {})
             /\ ~ infProd /\ zeroProd =>
                  R!Mul(f, rm, a, b) = R!Outcome(R!Signed(f, neg, 0), {})
             /\ ~ infProd /\ ~ zeroProd =>
                  R!Mul(f, rm, a, b)
                    = R!Round(f, rm, neg, R!M(f, a) * R!M(f, b), R!K(f, a) + R!K(f, b), FALSE)

LEMMA ReferenceProduct ==
  ASSUME NEW f, FormatPowers(f), NEW rm, NEW a, NEW b, NEW neg \in BOOLEAN,
         neg = (R!Negative(f, a) # R!Negative(f, b))
  PROVE  ProductIs(f, rm, a, b, neg)
<1>1. PICK c : c = R!Signed(f, neg, 0)
  OBVIOUS
<1>2. ~ R!NaN(f, c) /\ ~ R!Signaling(f, c) /\ ~ R!Infinite(f, c) /\ R!Zero(f, c)
         /\ (R!Negative(f, c) <=> neg)
  BY <1>1, SignedZero
<1>3. R!Mul(f, rm, a, b) = R!MulAdd(f, rm, a, b, c)
  BY <1>1, Zenon DEF R!Mul
<1>4. ASSUME R!NaN(f, a) \/ R!NaN(f, b)
      PROVE  R!MulAdd(f, rm, a, b, c)
               = R!QuietNaN(f, R!Set("invalid", R!Signaling(f, a) \/ R!Signaling(f, b)))
  <2>1. R!Set("invalid", R!Signaling(f, a) \/ R!Signaling(f, b) \/ R!Signaling(f, c)
                           \/ ((R!Infinite(f, a) \/ R!Infinite(f, b)) /\ (R!Zero(f, a) \/ R!Zero(f, b))
                               /\ ~ R!NaN(f, a) /\ ~ R!NaN(f, b)))
          = R!Set("invalid", R!Signaling(f, a) \/ R!Signaling(f, b))
    BY <1>2, <1>4, Zenon DEF R!Set
  <2>2. QED BY <1>4, <2>1, Zenon DEF R!MulAdd
<1>5. ASSUME ~ R!NaN(f, a) /\ ~ R!NaN(f, b), R!Infinite(f, a) \/ R!Infinite(f, b),
             R!Zero(f, a) \/ R!Zero(f, b)
      PROVE  R!MulAdd(f, rm, a, b, c) = R!QuietNaN(f, {"invalid"})
  BY <1>2, <1>5, Zenon DEF R!MulAdd
<1>6. ASSUME ~ R!NaN(f, a) /\ ~ R!NaN(f, b), R!Infinite(f, a) \/ R!Infinite(f, b),
             ~ (R!Zero(f, a) \/ R!Zero(f, b))
      PROVE  R!MulAdd(f, rm, a, b, c) = R!Outcome(R!Inf(f, neg), {})
  BY <1>2, <1>6, Zenon DEF R!MulAdd
<1>7. ASSUME ~ R!NaN(f, a) /\ ~ R!NaN(f, b), ~ (R!Infinite(f, a) \/ R!Infinite(f, b)),
             R!Zero(f, a) \/ R!Zero(f, b)
      PROVE  R!MulAdd(f, rm, a, b, c) = R!Outcome(c, {})
  <2>1. (R!Negative(f, a) # R!Negative(f, b)) = R!Negative(f, c)
    <3>1. R!Negative(f, c) \in BOOLEAN
      BY DEF R!Negative
    <3>2. QED BY <1>2, <3>1, Zenon
  <2>2. QED BY <1>2, <1>7, <2>1, Zenon DEF R!MulAdd
<1>8. ASSUME ~ R!NaN(f, a) /\ ~ R!NaN(f, b), ~ (R!Infinite(f, a) \/ R!Infinite(f, b)),
             ~ (R!Zero(f, a) \/ R!Zero(f, b))
      PROVE  R!MulAdd(f, rm, a, b, c)
               = R!Round(f, rm, neg, R!M(f, a) * R!M(f, b), R!K(f, a) + R!K(f, b), FALSE)
  BY <1>2, <1>8, Zenon DEF R!MulAdd
<1>9. QED BY <1>1, <1>3, <1>4, <1>5, <1>6, <1>7, <1>8, Zenon DEF ProductIs

\* Zeros and infinities of a sign.
LEMMA SignedPatterns ==
  ASSUME NEW f, FormatPowers(f), NEW sign \in {0, 1}, NEW neg \in BOOLEAN, neg <=> sign = 1
  PROVE  /\ zero(f, sign) = R!Outcome(R!Signed(f, neg, 0), {})
         /\ infinity(f, sign) = R!Outcome(R!Inf(f, neg), {})
<1>1. PICK T \in Positive : T = 2^(f.w - 1)
  BY DEF FormatPowers, Positive
<1>2. PICK P \in Positive : P = 2^f.p
  BY DEF FormatPowers, Positive
<1>3. PICK N \in Nat : N = f.inf /\ T = P * (N + 1)
  BY <1>1, <1>2 DEF FormatPowers
<1>4. N * P + 0 < T /\ N * P \in Nat /\ 0 * P + 0 < T
  <2>1. P * (N + 1) = N * P + P /\ N * P \in Nat /\ 0 * P = 0
    BY DEF Positive
  <2>2. QED BY <1>3, <2>1 DEF Positive
<1>5. packUI(f, sign, 0, 0) = sign * T + (0 * P + 0)
  BY <1>1, <1>2, <1>4, Packed
<1>6. packUI(f, sign, N, 0) = sign * T + (N * P + 0)
  BY <1>1, <1>2, <1>4, Packed
<1>7. sign * T = IF neg THEN T ELSE 0
  BY DEF Positive
<1>8. R!Signed(f, neg, 0) = packUI(f, sign, 0, 0)
  <2>1. 0 * P = 0
    BY DEF Positive
  <2>2. QED BY <1>1, <1>5, <1>7, <2>1 DEF R!Signed, Positive
<1>9. R!Inf(f, neg) = packUI(f, sign, N, 0)
  BY <1>1, <1>2, <1>3, <1>4, <1>6, <1>7 DEF R!Inf, R!InfMag, R!Signed, Positive
<1>10. QED BY <1>3, <1>8, <1>9, Zenon DEF zero, infinity, Result, R!Outcome

\* Two operands, of the kinds the library and the reference see alike, and the
\* sign of their product and quotient.
SameKinds(f, a) ==
    /\ (isNaN(f, a) <=> R!NaN(f, a)) /\ (isSigNaN(f, a) <=> R!Signaling(f, a))
    /\ (isInf(f, a) <=> R!Infinite(f, a)) /\ (isZero(f, a) <=> R!Zero(f, a))
    /\ (isInf(f, a) => ~ isNaN(f, a) /\ ~ isZero(f, a)) /\ (isNaN(f, a) => ~ isZero(f, a))

LEMMA KindsAgree ==
  ASSUME NEW f, FormatPowers(f), NEW a \in 0 .. 2^f.w - 1
  PROVE  SameKinds(f, a)
<1>1. PICK s \in {0, 1}, e \in 0 .. f.inf, r \in 0 .. 2^f.p - 1 : Decoded(f, a, s, e, r)
  BY FieldsOf
<1>2. isZero(f, a) <=> R!Zero(f, a)
  BY DEF isZero, R!Zero, R!Mag
<1>3. e = f.inf => 2^f.p * e + r # 0
  <2>1. PICK P \in Positive, N \in Nat : P = 2^f.p /\ N = f.inf /\ N >= 3
    BY DEF FormatPowers, Positive
  <2>2. P * N >= 3 /\ P * N \in Nat
    BY <2>1 DEF Positive
  <2>3. QED BY <1>1, <2>1, <2>2
<1>4. QED BY <1>1, <1>2, <1>3 DEF Decoded, SameKinds

SignOf(f, a, b) == Xor(signUI(f, a), signUI(f, b))

LEMMA SignsAgree ==
  ASSUME NEW f, FormatPowers(f), NEW a \in 0 .. 2^f.w - 1, NEW b \in 0 .. 2^f.w - 1
  PROVE  /\ SignOf(f, a, b) \in {0, 1}
         /\ (SignOf(f, a, b) = 1) = (R!Negative(f, a) # R!Negative(f, b))
<1>1. PICK s \in {0, 1}, e \in 0 .. f.inf, r \in 0 .. 2^f.p - 1 : Decoded(f, a, s, e, r)
  BY FieldsOf
<1>2. PICK t \in {0, 1}, g \in 0 .. f.inf, q \in 0 .. 2^f.p - 1 : Decoded(f, b, t, g, q)
  BY FieldsOf
<1>3. signUI(f, a) = s /\ signUI(f, b) = t /\ (R!Negative(f, a) <=> s = 1) /\ (R!Negative(f, b) <=> t = 1)
  BY <1>1, <1>2 DEF Decoded
<1>4. R!Negative(f, a) \in BOOLEAN /\ R!Negative(f, b) \in BOOLEAN
  BY DEF R!Negative
<1>5. SignOf(f, a, b) \in {0, 1} /\ (SignOf(f, a, b) = 1 <=> s # t)
  BY <1>3 DEF SignOf, Xor
<1>6. R!Negative(f, a) # R!Negative(f, b) <=> s # t
  <2>1. s # t <=> ~(s = 1 <=> t = 1)
    OBVIOUS
  <2>2. QED BY <1>3, <1>4, <2>1, Zenon
<1>7. QED BY <1>5, <1>6, Zenon

LEMMA FormatProduct ==
  ASSUME PowersHold, NEW f, Formatted(f), NEW rm \in Modes,
         NEW a \in 0 .. 2^f.w - 1, NEW b \in 0 .. 2^f.w - 1
  PROVE  mul(f, rm, a, b) = R!Mul(f, rm, a, b)
<1>1. FormatPowers(f)
  BY FormatFields
<1>2. SameKinds(f, a) /\ SameKinds(f, b)
  BY <1>1, KindsAgree
<1>3. PICK sign \in {0, 1} : sign = SignOf(f, a, b)
  BY <1>1, SignsAgree
<1>4. PICK neg \in BOOLEAN : neg = (sign = 1)
  OBVIOUS
<1>5. neg = (R!Negative(f, a) # R!Negative(f, b))
  BY <1>1, <1>3, <1>4, SignsAgree
<1>6. ProductIs(f, rm, a, b, neg)
  BY <1>1, <1>5, ReferenceProduct
<1>7. CASE isNaN(f, a) \/ isNaN(f, b)
  <2>1. mul(f, rm, a, b) = propagateNaN(f, a, b)
    BY <1>2, <1>7, Zenon DEF mul, SameKinds
  <2>2. R!Mul(f, rm, a, b)
          = R!QuietNaN(f, R!Set("invalid", R!Signaling(f, a) \/ R!Signaling(f, b)))
    BY <1>2, <1>7, <1>6, Zenon DEF SameKinds, ProductIs
  <2>3. FlagIf("invalid", isSigNaN(f, a) \/ isSigNaN(f, b))
          = R!Set("invalid", R!Signaling(f, a) \/ R!Signaling(f, b))
    BY <1>2, Zenon DEF SameKinds, FlagIf, R!Set
  <2>4. QED BY <2>1, <2>2, <2>3, Zenon
    DEF propagateNaN, defaultNaN, Result, R!QuietNaN, R!Outcome
<1>8. CASE ~ isNaN(f, a) /\ ~ isNaN(f, b) /\ (isInf(f, a) \/ isInf(f, b))
           /\ (isZero(f, a) \/ isZero(f, b))
  <2>1. mul(f, rm, a, b) = invalid(f)
    BY <1>2, <1>8, Zenon DEF mul, SameKinds
  <2>2. R!Mul(f, rm, a, b) = R!QuietNaN(f, {"invalid"})
    BY <1>2, <1>8, <1>6, Zenon DEF SameKinds, ProductIs
  <2>3. QED BY <2>1, <2>2, Zenon DEF invalid, defaultNaN, Result, R!QuietNaN, R!Outcome
<1>9. CASE ~ isNaN(f, a) /\ ~ isNaN(f, b) /\ (isInf(f, a) \/ isInf(f, b))
           /\ ~ (isZero(f, a) \/ isZero(f, b))
  <2>1. mul(f, rm, a, b) = infinity(f, sign)
    BY <1>2, <1>3, <1>9, Zenon DEF mul, SameKinds, SignOf
  <2>2. R!Mul(f, rm, a, b) = R!Outcome(R!Inf(f, neg), {})
    BY <1>2, <1>9, <1>6, Zenon DEF SameKinds, ProductIs
  <2>3. QED BY <1>1, <1>4, <2>1, <2>2, SignedPatterns
<1>10. CASE ~ isNaN(f, a) /\ ~ isNaN(f, b) /\ ~ (isInf(f, a) \/ isInf(f, b))
           /\ (isZero(f, a) \/ isZero(f, b))
  <2>1. mul(f, rm, a, b) = zero(f, sign)
    BY <1>2, <1>3, <1>10, Zenon DEF mul, SameKinds, SignOf
  <2>2. R!Mul(f, rm, a, b) = R!Outcome(R!Signed(f, neg, 0), {})
    BY <1>2, <1>10, <1>6, Zenon DEF SameKinds, ProductIs
  <2>3. QED BY <1>1, <1>4, <2>1, <2>2, SignedPatterns
<1>11. CASE ~ isNaN(f, a) /\ ~ isNaN(f, b) /\ ~ (isInf(f, a) \/ isInf(f, b))
            /\ ~ (isZero(f, a) \/ isZero(f, b))
  <2>1. PICK i : Normalized(f, a, i)
    <3>1. PICK s \in {0, 1}, e \in 0 .. f.inf, r \in 0 .. 2^f.p - 1 : Decoded(f, a, s, e, r)
      BY <1>1, FieldsOf
    <3>2. e # f.inf
      BY <1>11, <3>1 DEF Decoded
    <3>3. QED BY <1>11, <3>1, <3>2, OperandNormalized
  <2>2. PICK j : Normalized(f, b, j)
    <3>1. PICK s \in {0, 1}, e \in 0 .. f.inf, r \in 0 .. 2^f.p - 1 : Decoded(f, b, s, e, r)
      BY <1>1, FieldsOf
    <3>2. e # f.inf
      BY <1>11, <3>1 DEF Decoded
    <3>3. QED BY <1>11, <3>1, <3>2, OperandNormalized
  <2>3. PICK A : A = operand(f, a)
    OBVIOUS
  <2>4. PICK B : B = operand(f, b)
    OBVIOUS
  <2>5. PICK e \in Int : e = A.exp + B.exp - f.bias
    <3>1. A.exp \in Int /\ B.exp \in Int /\ f.bias \in Nat
      BY <2>1, <2>2, <2>3, <2>4, FormatFields DEF Normalized
    <3>2. A.exp + B.exp - f.bias \in Int
      BY <3>1
    <3>3. QED BY <3>2
  <2>6. PICK k \in Int : k = R!K(f, a) + R!K(f, b)
    BY <2>1, <2>2 DEF Normalized
  <2>7. PICK z : z = shortShiftRightJam(A.sig * 2^f.x * B.sig * 2^(f.x + 1), f.w)
    OBVIOUS
  <2>8. mul(f, rm, a, b) = IF z < 2^(f.w - 2) THEN roundPack(f, rm, sign, e - 1, 2 * z)
                                              ELSE roundPack(f, rm, sign, e, z)
    BY <1>2, <1>3, <1>11, <2>3, <2>4, <2>5, <2>7, Zenon DEF mul, SameKinds, SignOf
  <2>9. ProductOperand(f, A.sig, R!M(f, a), i) /\ ProductOperand(f, B.sig, R!M(f, b), j)
    BY <2>1, <2>2, <2>3, <2>4 DEF Normalized, ProductOperand
  <2>10. e = k + 2 * f.p + f.bias - (i + j)
    <3>1. PICK p \in Nat, c \in Nat : p = f.p /\ c = f.bias
      BY FormatFields
    <3>2. PICK x \in Int, y \in Int : x = R!K(f, a) /\ y = R!K(f, b)
      BY <2>1, <2>2 DEF Normalized
    <3>3. i \in Nat /\ j \in Nat /\ A.exp = x + c + p - i /\ B.exp = y + c + p - j
      BY <2>1, <2>2, <2>3, <2>4, <3>1, <3>2 DEF Normalized
    <3>4. e = (x + c + p - i) + (y + c + p - j) - c /\ k = x + y
      BY <2>5, <2>6, <3>1, <3>2, <3>3
    <3>5. e = k + 2 * p + c - (i + j)
      BY ONLY <3>3, <3>4, x \in Int, y \in Int, p \in Nat, c \in Nat
    <3>6. QED BY <3>1, <3>5
  <2>11. (IF z < 2^(f.w - 2) THEN roundPack(f, rm, sign, e - 1, 2 * z)
                             ELSE roundPack(f, rm, sign, e, z))
           = ReferenceOf(f, rm, sign, R!M(f, a) * R!M(f, b), k)
    BY <2>7, <2>9, <2>10, ProductRounds
  <2>12. R!Mul(f, rm, a, b)
           = R!Round(f, rm, neg, R!M(f, a) * R!M(f, b), R!K(f, a) + R!K(f, b), FALSE)
    BY <1>2, <1>11, <1>6, Zenon DEF SameKinds, ProductIs
  <2>13. QED BY <1>4, <2>6, <2>8, <2>11, <2>12, Zenon DEF ReferenceOf
<1>12. QED BY <1>7, <1>8, <1>9, <1>10, <1>11, Zenon

------------------------------------------------------------------------------
\* Quotients.  A word z that is the quotient of v and D or a little more, and
\* further above a multiple of g than it is too large, lies where v does.
LEMMA SideInside ==
  ASSUME NEW v \in Nat, NEW D \in Positive, NEW g \in Positive, NEW z \in Nat, NEW t, t = v \div D,
         t <= z, 1 <= (z % g) - (z - t)
  PROVE  Side(z, g, v, D * g)
<1>1. t \in Nat /\ D * t <= v /\ v < D * (t + 1)
  <2>1. v \in Int
    OBVIOUS
  <2>2. t \in Int /\ v % D \in 0 .. D - 1 /\ v = D * t + (v % D)
    BY <2>1, Divided
  <2>3. PICK r \in 0 .. D - 1 : v = D * t + r
    BY <2>2
  <2>4. D * (t + 1) = D * t + D /\ D * t \in Int
    BY <2>2 DEF Positive
  <2>5. D * t <= v /\ v < D * (t + 1)
    BY <2>3, <2>4 DEF Positive
  <2>6. t \in Nat
    BY DEF Positive
  <2>7. QED BY <2>5, <2>6
<1>2. PICK c \in Nat, s \in 0 .. g - 1 : z = g * c + s /\ s = z % g
  <2>1. z \in Int
    OBVIOUS
  <2>2. z % g \in 0 .. g - 1 /\ z = g * (z \div g) + (z % g)
    BY <2>1, Divided
  <2>3. z \div g \in Nat
    BY DEF Positive
  <2>4. QED BY <2>2, <2>3
<1>3. PICK b \in Nat : b = g * c
  BY DEF Positive
<1>4. b + 1 <= t /\ t < b + g /\ b < z /\ z < b + g
  BY ONLY <1>1, <1>2, <1>3, t <= z, 1 <= (z % g) - (z - t), z \in Nat, b \in Nat, g \in Positive
     DEF Positive
<1>5. D * b < v /\ v < D * (b + g)
  <2>1. D * b + D <= D * t
    <3>1. D * (b + 1) <= D * t
      BY ONLY <1>1, <1>4, b \in Nat, D \in Positive DEF Positive
    <3>2. D * (b + 1) = D * b + D
      BY DEF Positive
    <3>3. QED BY <3>1, <3>2
  <2>2. D * (t + 1) <= D * (b + g)
    BY ONLY <1>1, <1>4, b \in Nat, g \in Positive, D \in Positive DEF Positive
  <2>3. D * b \in Int /\ D * t \in Int /\ D * (t + 1) \in Int /\ D * (b + g) \in Int
    BY <1>1 DEF Positive
  <2>4. QED BY <1>1, <2>1, <2>2, <2>3 DEF Positive
<1>6. ASSUME NEW k \in Nat
      PROVE  (z < g * k <=> v < (D * g) * k) /\ (g * k < z <=> (D * g) * k < v)
  <2>1. PICK y \in Nat : y = g * k
    BY DEF Positive
  <2>2. (D * g) * k = D * y
    BY <2>1 DEF Positive
  <2>3. CASE k <= c
    <3>1. y <= b
      BY ONLY <1>3, <2>1, <2>3, c \in Nat, k \in Nat, g \in Positive DEF Positive
    <3>2. D * y <= D * b
      BY ONLY <3>1, y \in Nat, b \in Nat, D \in Positive DEF Positive
    <3>3. D * y \in Int /\ D * b \in Int
      BY DEF Positive
    <3>4. D * y < v
      BY ONLY <1>5, <3>2, <3>3, v \in Nat
    <3>5. QED BY <1>4, <2>1, <2>2, <3>1, <3>3, <3>4
  <2>4. CASE ~ (k <= c)
    <3>1. b + g <= y
      <4>1. g * (c + 1) <= g * k
        BY ONLY <2>4, c \in Nat, k \in Nat, g \in Positive DEF Positive
      <4>2. g * (c + 1) = g * c + g
        BY DEF Positive
      <4>3. QED BY <1>3, <2>1, <4>1, <4>2
    <3>2. D * (b + g) <= D * y
      BY ONLY <3>1, y \in Nat, b \in Nat, g \in Positive, D \in Positive DEF Positive
    <3>3. D * y \in Int /\ D * (b + g) \in Int
      BY DEF Positive
    <3>4. v < D * y
      BY ONLY <1>5, <3>2, <3>3, v \in Nat
    <3>5. z < y
      BY ONLY <1>4, <3>1, y \in Nat, b \in Nat, g \in Positive, z \in Nat DEF Positive
    <3>6. QED BY <2>1, <2>2, <3>3, <3>4, <3>5
  <2>5. QED BY <2>3, <2>4
<1>7. QED BY <1>6 DEF Side

LEMMA SideStandsFor ==
  ASSUME PowersHold, NEW f, Formatted(f), NEW v \in Nat, NEW D \in Positive, NEW z \in Nat,
         Side(z, 2^(f.x - 1), v, D * 2^(f.x - 1)),
         2^(f.w - 2) * D <= v, v < 2^(f.w - 1) * D
  PROVE  StandsFor(f, z, v, D * 2^(f.x - 1))
<1>1. FormatPowers(f)
  BY FormatFields
<1>2. PICK h \in Positive : h = 2^(f.x - 1) /\ 2^f.x = 2 * h
  BY <1>1 DEF FormatPowers, Positive
<1>3. PICK P \in Positive : P = 2^f.p /\ 2^(f.w - 2) = P * (2 * h) /\ 2^(f.w - 1) = 2 * (P * (2 * h))
  BY <1>1, <1>2 DEF FormatPowers, Positive
<1>4. /\ z < h * (2 * P) <=> v < (D * h) * (2 * P)
      /\ z < h * (4 * P) <=> v < (D * h) * (4 * P)
  <2>1. 2 * P \in Nat /\ 4 * P \in Nat
    BY DEF Positive
  <2>2. QED BY <1>2, <2>1 DEF Side
<1>5. /\ 2^(f.w - 2) = h * (2 * P) /\ 2^(f.w - 1) = h * (4 * P)
      /\ 2^(f.w - 2) * D = (D * h) * (2 * P) /\ 2^(f.w - 1) * D = (D * h) * (4 * P)
  BY <1>3 DEF Positive
<1>6. PICK i \in Nat, j \in Nat, k \in Nat, l \in Nat :
        i = h * (2 * P) /\ j = h * (4 * P) /\ k = (D * h) * (2 * P) /\ l = (D * h) * (4 * P)
  BY DEF Positive
<1>7. i <= z /\ z < j
  BY <1>4, <1>5, <1>6
<1>8. D * h \in Positive
  BY DEF Positive
<1>9. QED BY <1>2, <1>5, <1>6, <1>7, <1>8 DEF StandsFor

\* The whole part of n / y has as many digits as n / y has before the point.
LEMMA QuotientLies ==
  ASSUME NEW n \in Nat, NEW y \in Positive, NEW F \in Positive, F * y <= n, n < (2 * F) * y
  PROVE  F <= n \div y /\ n \div y < 2 * F /\ n \div y \in Positive
<1>1. PICK q \in Nat, r \in 0 .. y - 1 : q = n \div y /\ n = y * q + r
  <2>1. n \in Int
    OBVIOUS
  <2>2. n % y \in 0 .. y - 1 /\ n = y * (n \div y) + (n % y)
    BY <2>1, Divided
  <2>3. n \div y \in Nat
    BY DEF Positive
  <2>4. QED BY <2>2, <2>3
<1>2. F <= q
  <2>1. SUFFICES ASSUME ~ (F <= q) PROVE FALSE
    OBVIOUS
  <2>2. y * (q + 1) <= y * F
    BY ONLY <2>1, q \in Nat, F \in Positive, y \in Positive DEF Positive
  <2>3. y * (q + 1) = y * q + y /\ y * F = F * y /\ y * q \in Int
    BY DEF Positive
  <2>4. QED BY <1>1, <2>2, <2>3 DEF Positive
<1>3. q < 2 * F
  <2>1. SUFFICES ASSUME ~ (q < 2 * F) PROVE FALSE
    OBVIOUS
  <2>2. y * (2 * F) <= y * q
    BY ONLY <2>1, q \in Nat, F \in Positive, y \in Positive DEF Positive
  <2>3. y * (2 * F) = (2 * F) * y /\ y * q \in Int
    BY DEF Positive
  <2>4. QED BY <1>1, <2>2, <2>3 DEF Positive
<1>4. QED BY <1>1, <1>2, <1>3 DEF Positive

\* The reference divides n = mA * 2^Z by mB; c = 2^i and d = 2^j normalize
\* them.  F is the power of the leading digit of the quotient.
LEMMA QuotientPlace ==
  ASSUME NEW mA \in Positive, NEW mB \in Positive, NEW c \in Positive, NEW d \in Positive,
         NEW G \in Positive, NEW F \in Positive, NEW P \in Positive,
         P <= mA * c, mA * c < 2 * P, P <= mB * d, mB * d < 2 * P
  PROVE  /\ F * c = G * d /\ mB * d <= mA * c => F * mB <= mA * G /\ mA * G < (2 * F) * mB
         /\ 2 * F * c = G * d /\ mA * c < mB * d => F * mB <= mA * G /\ mA * G < (2 * F) * mB
<1>1. PICK sA \in Positive, sB \in Positive, N \in Positive, M \in Positive, E \in Positive :
        sA = mA * c /\ sB = mB * d /\ N = mA * G /\ M = F * mB /\ E = c * d
  BY DEF Positive
<1>2. N * E = (G * d) * sA /\ M * E = (F * c) * sB /\ (2 * M) * E = (2 * F * c) * sB
      /\ (2 * F) * mB = 2 * M
  BY <1>1 DEF Positive
<1>3. PICK D \in Positive, V \in Positive : D = G * d /\ V = F * c
  BY DEF Positive
<1>4. 2 * F * c = 2 * V
  BY <1>3 DEF Positive
<1>5. N * E = D * sA /\ M * E = V * sB /\ (2 * M) * E = (2 * V) * sB
  BY <1>2, <1>3, <1>4
<1>6. sA < 2 * sB /\ sB < 2 * sA
  BY <1>1 DEF Positive
<1>7. ASSUME V = D, sB <= sA PROVE M <= N /\ N < 2 * M
  <2>1. D * sB <= D * sA /\ D * sA < D * (2 * sB)
    BY ONLY <1>6, <1>7, sA \in Positive, sB \in Positive, D \in Positive DEF Positive
  <2>2. D * (2 * sB) = (2 * D) * sB
    BY DEF Positive
  <2>3. M * E <= N * E /\ N * E < (2 * M) * E
    BY <1>5, <1>7, <2>1, <2>2
  <2>4. QED BY ONLY <2>3, M \in Positive, N \in Positive, E \in Positive DEF Positive
<1>8. ASSUME 2 * V = D, sA < sB PROVE M <= N /\ N < 2 * M
  <2>1. V * sB <= V * (2 * sA) /\ D * sA < D * sB
    BY ONLY <1>6, <1>8, sA \in Positive, sB \in Positive, V \in Positive, D \in Positive DEF Positive
  <2>2. V * (2 * sA) = (2 * V) * sA
    BY DEF Positive
  <2>3. M * E <= N * E /\ N * E < (2 * M) * E
    BY <1>5, <1>8, <2>1, <2>2
  <2>4. QED BY ONLY <2>3, M \in Positive, N \in Positive, E \in Positive DEF Positive
<1>9. QED BY <1>1, <1>2, <1>3, <1>4, <1>7, <1>8

LEMMA OperandPlace ==
  ASSUME PowersHold, NEW f, Formatted(f), NEW s, NEW m, NEW j, ProductOperand(f, s, m, j)
  PROVE  /\ s \in Positive /\ m \in Positive /\ j \in Nat /\ j <= f.p /\ s = m * 2^j
         /\ 2^f.p <= s /\ s < 2 * 2^f.p
<1>1. f.p \in Nat
  BY FormatFields
<1>2. s \in Positive /\ m \in Positive /\ j \in Nat /\ s = m * 2^j /\ R!Digits(s) = f.p + 1
  BY DEF ProductOperand
<1>3. 2^(f.p + 1) = 2 * 2^f.p /\ (f.p + 1) - 1 = f.p
  <2>1. 2^(f.p + 1) = 2 * 2^f.p
    BY <1>1, Power
  <2>2. QED BY <1>1, <2>1
<1>4. Lies(s, f.p + 1)
  BY <1>2, LengthLies
<1>5. PICK D \in Positive : D = R!Digits(m) /\ f.p + 1 = D + j
  BY <1>2, DigitsShift, LengthLies DEF Lies
<1>6. j <= f.p
  BY <1>1, <1>2, <1>5 DEF Positive
<1>7. QED BY <1>2, <1>3, <1>4, <1>6 DEF Lies

\* What div does with two normalized operands, when its quotient z lies where
\* the exact one does.
DivOperands(f, v, D, e, z, sA, sB, q) ==
    /\ v \in Nat /\ D \in Positive /\ z \in Nat
    /\ D = sB * 2^(f.x + 1)
    /\ Side(z, 2^(f.x - 1), v, D * 2^(f.x - 1))
    /\ \/ sB <= sA /\ v = (sA * 2^(f.x - 1)) * 2^f.w /\ e = q - 1
       \/ sA < sB /\ v = (sA * 2^f.x) * 2^f.w /\ e = q - 2

LEMMA QuotientRounds ==
  ASSUME PowersHold, NEW f, Formatted(f), NEW rm \in Modes, NEW sign \in {0, 1},
         NEW sA, NEW mA, NEW i, ProductOperand(f, sA, mA, i),
         NEW sB, NEW mB, NEW j, ProductOperand(f, sB, mB, j),
         NEW e \in Int, NEW q \in Int, NEW v, NEW D, NEW z, DivOperands(f, v, D, e, z, sA, sB, q),
         NEW Z \in Nat, Z = 2 * f.p + 6, NEW k \in Int, q = k + f.bias + Z - i + j,
         NEW n, n = mA * 2^Z, NEW st \in BOOLEAN, st <=> n % mB # 0
  PROVE  roundPack(f, rm, sign, e, z) = R!Round(f, rm, sign = 1, n \div mB, k, st)
<1>1. /\ FormatPowers(f) /\ f.p \in Nat /\ f.x \in Nat /\ f.w = f.p + f.x + 2 /\ f.bias \in Nat
      /\ f.w \in Nat /\ f.x >= 3 /\ f.p >= 2
  BY FormatFields
<1>2. PICK h \in Positive : h = 2^(f.x - 1) /\ 2^f.x = 2 * h
  BY <1>1 DEF FormatPowers, Positive
<1>3. PICK P \in Positive : P = 2^f.p
  BY <1>1, Power
<1>4. PICK B \in Positive : B = P * h /\ 2^(f.w - 2) = 2 * B /\ 2^(f.w - 1) = 4 * B
                            /\ 2^f.w = 8 * B /\ 2^(f.x + 1) = 4 * h
  <2>1. 2^(f.w - 2) = P * (2 * h) /\ 2^(f.w - 1) = 2 * 2^(f.w - 2) /\ 2^f.w = 2 * 2^(f.w - 1)
    BY <1>1, <1>2, <1>3 DEF FormatPowers
  <2>2. 2^(f.x + 1) = 2 * 2^f.x
    BY <1>1, Power
  <2>3. P * (2 * h) = 2 * (P * h) /\ P * h \in Positive
    BY DEF Positive
  <2>4. PICK c \in Positive : c = P * h
    BY <2>3
  <2>5. QED BY <1>2, <2>1, <2>2, <2>3, <2>4 DEF Positive
<1>5. /\ sA \in Positive /\ mA \in Positive /\ i \in Nat /\ i <= f.p /\ sA = mA * 2^i
      /\ sB \in Positive /\ mB \in Positive /\ j \in Nat /\ j <= f.p /\ sB = mB * 2^j
      /\ P <= sA /\ sA < 2 * P /\ P <= sB /\ sB < 2 * P
  BY <1>3, OperandPlace
<1>6. PICK c \in Positive, d \in Positive, G \in Positive : c = 2^i /\ d = 2^j /\ G = 2^Z
  BY <1>5, Power
<1>7. n = mA * G /\ n \in Positive /\ n \in Nat /\ sA = mA * c /\ sB = mB * d
  BY <1>5, <1>6 DEF Positive
<1>8. PICK t \in Nat : t = Z - i + j /\ t > f.p + 1
  <2>1. Z - i + j \in Nat /\ Z - i + j > f.p + 1
    BY <1>1, <1>5
  <2>2. QED BY <2>1
<1>9. PICK m : m = n \div mB
  OBVIOUS
<1>10. 2^(t + i) = G * d /\ 2^(t + i) = 2^t * c
  <2>1. t + i = Z + j
    BY <1>5, <1>8
  <2>2. 2^(Z + j) = 2^Z * 2^j /\ 2^(t + i) = 2^t * 2^i
    BY <1>5, <1>8, Power
  <2>3. QED BY <1>6, <2>1, <2>2
<1>11. /\ v \in Nat /\ D \in Positive /\ z \in Nat /\ D = sB * (4 * h)
       /\ Side(z, 2^(f.x - 1), v, D * 2^(f.x - 1))
  BY <1>4 DEF DivOperands
<1>12. PICK u \in Positive : u = D * 2^(f.x - 1) /\ u = D * h
  BY <1>2, <1>11 DEF Positive
<1>13. 2 * u \in Positive /\ (2 * u) * P = (8 * (h * h)) * (sB * P)
  <2>1. (2 * ((sB * (4 * h)) * h)) * P = (8 * (h * h)) * (sB * P)
    BY <1>5 DEF Positive
  <2>2. QED BY <1>11, <1>12, <2>1 DEF Positive
<1>14. ASSUME NEW F \in Positive, NEW L \in Positive, F = 2^(L - 1), 2 * F = 2^L,
              F * mB <= n, n < (2 * F) * mB, L > f.p + 1,
              k + L - 2 + f.bias = e, v * (mB * F) = ((2 * u) * P) * n,
              2^(f.w - 2) * D <= v, v < 2^(f.w - 1) * D
       PROVE  roundPack(f, rm, sign, e, z) = R!Round(f, rm, sign = 1, m, k, st)
  <2>1. m \in Positive /\ F <= m /\ m < 2 * F
    BY <1>5, <1>7, <1>9, <1>14, QuotientLies
  <2>2. R!Digits(m) = L
    <3>1. Lies(m, L)
      BY <1>14, <2>1 DEF Lies
    <3>2. QED BY <2>1, <3>1, LengthLies, LiesOnce DEF Positive
  <2>3. StandsFor(f, z, v, u)
    BY <1>11, <1>12, <1>14, SideStandsFor
  <2>4. v * (mB * 2^(R!Digits(m) - 1)) = ((2 * u) * 2^f.p) * n
    BY <1>3, <1>14, <2>2
  <2>5. m # 0 /\ k + R!Digits(m) - 2 + f.bias = e /\ (st => R!Digits(m) > f.p + 1)
    BY <1>14, <2>1, <2>2 DEF Positive
  <2>6. Scaled(f, n, mB, m, st, k, e, v, 2 * u)
    BY <1>5, <1>7, <1>9, <1>11, <1>13, <2>4, <2>5, Zenon DEF Scaled
  <2>7. QED BY <2>3, <2>6, RoundPackExact
<1>15. CASE sB <= sA /\ v = (sA * 2^(f.x - 1)) * 2^f.w /\ e = q - 1
  <2>1. PICK L \in Positive : L = t + 1 /\ L - 1 = t /\ L > f.p + 1
    <3>1. t + 1 \in Positive /\ (t + 1) - 1 = t /\ t + 1 > f.p + 1
      BY <1>1, <1>8 DEF Positive
    <3>2. QED BY <3>1
  <2>2. PICK F \in Positive : F = 2^(L - 1) /\ F = 2^t /\ 2 * F = 2^L
    BY <2>1, <1>8, Power
  <2>3. F * c = G * d
    BY <1>10, <2>2
  <2>4. F * mB <= n /\ n < (2 * F) * mB
    <3>1. P <= mA * c /\ mA * c < 2 * P /\ P <= mB * d /\ mB * d < 2 * P
      BY <1>5, <1>7
    <3>2. mB * d <= mA * c
      BY <1>7, <1>15
    <3>3. mA \in Positive /\ mB \in Positive
      BY <1>5
    <3>4. F * mB <= mA * G /\ mA * G < (2 * F) * mB
      BY <2>3, <3>1, <3>2, <3>3, QuotientPlace
    <3>5. QED BY <1>7, <3>4
  <2>5. v = (8 * (h * h)) * (sA * P)
    <3>1. (sA * h) * (8 * (P * h)) = (8 * (h * h)) * (sA * P)
      BY <1>5 DEF Positive
    <3>2. QED BY <1>2, <1>4, <1>15, <3>1
  <2>6. v * (mB * F) = ((2 * u) * P) * n
    <3>1. PICK y \in Positive : y = 8 * (h * h)
      BY DEF Positive
    <3>2. (y * ((mA * c) * P)) * (mB * F) = (y * (mA * mB * P)) * (F * c)
      BY <1>5 DEF Positive
    <3>3. (y * ((mB * d) * P)) * (mA * G) = (y * (mA * mB * P)) * (G * d)
      BY <1>5 DEF Positive
    <3>4. QED BY <1>7, <1>13, <2>3, <2>5, <3>1, <3>2, <3>3
  <2>7. 2^(f.w - 2) * D <= v /\ v < 2^(f.w - 1) * D
    <3>1. PICK y \in Positive : y = 8 * (h * h) * P
      BY DEF Positive
    <3>2. 2^(f.w - 2) * D = y * sB /\ 2^(f.w - 1) * D = y * (2 * sB) /\ v = y * sA
      <4>1. (2 * (P * h)) * (sB * (4 * h)) = (8 * (h * h) * P) * sB
            /\ (4 * (P * h)) * (sB * (4 * h)) = (8 * (h * h) * P) * (2 * sB)
            /\ (8 * (h * h)) * (sA * P) = (8 * (h * h) * P) * sA
        BY <1>5 DEF Positive
      <4>2. QED BY <1>4, <1>11, <2>5, <3>1, <4>1
    <3>3. sB <= sA /\ sA < 2 * sB
      BY <1>5, <1>15 DEF Positive
    <3>4. y * sB <= y * sA /\ y * sA < y * (2 * sB)
      BY ONLY <3>3, y \in Positive, <1>5 DEF Positive
    <3>5. QED BY <3>2, <3>4
  <2>8. k + L - 2 + f.bias = e
    <3>1. PICK b \in Nat : b = f.bias
      BY <1>1
    <3>2. e = (k + b + Z - i + j) - 1 /\ L = (Z - i + j) + 1
      BY <1>8, <1>15, <2>1, <3>1
    <3>3. k + L - 2 + b = e
      BY ONLY <1>5, <3>2, k \in Int, b \in Nat, Z \in Nat
    <3>4. QED BY <3>1, <3>3
  <2>9. QED BY <1>9, <1>14, <2>1, <2>2, <2>4, <2>6, <2>7, <2>8
<1>16. CASE sA < sB /\ v = (sA * 2^f.x) * 2^f.w /\ e = q - 2
  <2>1. PICK L \in Positive : L = t /\ L - 1 \in Nat /\ L > f.p + 1
    BY <1>1, <1>8 DEF Positive
  <2>2. PICK F \in Positive : F = 2^(L - 1) /\ 2 * F = 2^L /\ 2 * F = 2^t
    <3>1. L = (L - 1) + 1
      BY DEF Positive
    <3>2. 2^((L - 1) + 1) = 2 * 2^(L - 1) /\ 2^(L - 1) \in Positive
      BY <2>1, Power
    <3>3. QED BY <2>1, <3>1, <3>2
  <2>3. 2 * F * c = G * d
    BY <1>10, <2>2
  <2>4. F * mB <= n /\ n < (2 * F) * mB
    <3>1. P <= mA * c /\ mA * c < 2 * P /\ P <= mB * d /\ mB * d < 2 * P
      BY <1>5, <1>7
    <3>2. mA * c < mB * d
      BY <1>7, <1>16
    <3>3. mA \in Positive /\ mB \in Positive
      BY <1>5
    <3>4. F * mB <= mA * G /\ mA * G < (2 * F) * mB
      BY <2>3, <3>1, <3>2, <3>3, QuotientPlace
    <3>5. QED BY <1>7, <3>4
  <2>5. v = (8 * (h * h)) * (2 * sA * P)
    <3>1. (sA * (2 * h)) * (8 * (P * h)) = (8 * (h * h)) * (2 * sA * P)
      BY <1>5 DEF Positive
    <3>2. QED BY <1>2, <1>4, <1>16, <3>1
  <2>6. v * (mB * F) = ((2 * u) * P) * n
    <3>1. PICK y \in Positive : y = 8 * (h * h)
      BY DEF Positive
    <3>2. (y * (2 * (mA * c) * P)) * (mB * F) = (y * (mA * mB * P)) * (2 * F * c)
      BY <1>5 DEF Positive
    <3>3. (y * ((mB * d) * P)) * (mA * G) = (y * (mA * mB * P)) * (G * d)
      BY <1>5 DEF Positive
    <3>4. QED BY <1>7, <1>13, <2>3, <2>5, <3>1, <3>2, <3>3
  <2>7. 2^(f.w - 2) * D <= v /\ v < 2^(f.w - 1) * D
    <3>1. PICK y \in Positive : y = 8 * (h * h) * P
      BY DEF Positive
    <3>2. 2^(f.w - 2) * D = y * sB /\ 2^(f.w - 1) * D = y * (2 * sB) /\ v = y * (2 * sA)
      <4>1. (2 * (P * h)) * (sB * (4 * h)) = (8 * (h * h) * P) * sB
            /\ (4 * (P * h)) * (sB * (4 * h)) = (8 * (h * h) * P) * (2 * sB)
            /\ (8 * (h * h)) * (2 * sA * P) = (8 * (h * h) * P) * (2 * sA)
        BY <1>5 DEF Positive
      <4>2. QED BY <1>4, <1>11, <2>5, <3>1, <4>1
    <3>3. sB <= 2 * sA /\ 2 * sA < 2 * sB
      BY <1>5, <1>16 DEF Positive
    <3>4. y * sB <= y * (2 * sA) /\ y * (2 * sA) < y * (2 * sB)
      BY ONLY <3>3, y \in Positive, <1>5 DEF Positive
    <3>5. QED BY <3>2, <3>4
  <2>8. k + L - 2 + f.bias = e
    <3>1. PICK b \in Nat : b = f.bias
      BY <1>1
    <3>2. e = (k + b + Z - i + j) - 2 /\ L = Z - i + j
      BY <1>8, <1>16, <2>1, <3>1
    <3>3. k + L - 2 + b = e
      BY ONLY <1>5, <3>2, k \in Int, b \in Nat, Z \in Nat
    <3>4. QED BY <3>1, <3>3
  <2>9. QED BY <1>9, <1>14, <2>1, <2>2, <2>4, <2>6, <2>7, <2>8
<1>17. QED BY <1>15, <1>16 DEF DivOperands

\* One digit of schoolbook division in base H: dividing by the leading digit b1
\* of b alone gives the digit q of Y / b or at most 2 more, when b has its
\* leading bit set.
DigitEstimate(H, b1, r1) == IF b1 * H <= r1 THEN H - 1 ELSE r1 \div b1

LEMMA DigitClose ==
  ASSUME NEW H \in Positive, NEW b1 \in Positive, NEW b0 \in 0 .. H - 1, NEW b \in Positive,
         b = b1 * H + b0, H * H <= 2 * b,
         NEW Y \in Nat, Y < b * H, NEW r1, r1 = Y \div H, NEW q, q = Y \div b
  PROVE  /\ q \in Nat /\ q <= H - 1
         /\ DigitEstimate(H, b1, r1) \in Nat /\ DigitEstimate(H, b1, r1) <= H - 1
         /\ q <= DigitEstimate(H, b1, r1) /\ DigitEstimate(H, b1, r1) <= q + 2
<1>1. Y \in Int /\ H \in Nat /\ b \in Nat
  BY DEF Positive
<1>2. r1 \in Nat /\ H * r1 <= Y /\ Y < H * r1 + H
  <2>1. Y % H \in 0 .. H - 1 /\ Y = H * r1 + (Y % H) /\ r1 \in Int
    BY <1>1, Divided
  <2>2. r1 \in Nat
    BY DEF Positive
  <2>3. H * r1 \in Int
    BY <2>1 DEF Positive
  <2>4. QED BY <2>1, <2>2, <2>3 DEF Positive
<1>3. q \in Nat /\ b * q <= Y /\ Y < b * q + b
  <2>1. Y % b \in 0 .. b - 1 /\ Y = b * q + (Y % b) /\ q \in Int
    BY <1>1, Divided
  <2>2. q \in Nat
    BY DEF Positive
  <2>3. b * q \in Int
    BY <2>1 DEF Positive
  <2>4. QED BY <2>1, <2>2, <2>3 DEF Positive
<1>4. q <= H - 1
  <2>1. q < H
    BY <1>1, SmallQuotient
  <2>2. QED BY <1>3, <2>1 DEF Positive
<1>5. b1 * q <= r1
  <2>1. SUFFICES ASSUME ~ (b1 * q <= r1) PROVE FALSE
    OBVIOUS
  <2>2. PICK y \in Nat : y = b1 * q
    <3>1. q \in Nat
      BY <1>3
    <3>2. b1 * q \in Nat
      BY ONLY <3>1, b1 \in Positive DEF Positive
    <3>3. QED BY <3>2
  <2>3. H * (r1 + 1) <= H * y
    <3>1. r1 + 1 <= y
      BY <1>2, <2>1, <2>2
    <3>2. QED BY ONLY <1>2, <3>1, H \in Positive, y \in Nat DEF Positive
  <2>4. H * (r1 + 1) = H * r1 + H /\ H * r1 \in Int
    BY <1>2 DEF Positive
  <2>5. b * q = H * y + b0 * q /\ b0 * q >= 0 /\ b0 * q \in Int /\ H * y \in Int
    <3>1. (b1 * H + b0) * q = H * (b1 * q) + b0 * q
      <4>1. q \in Nat
        BY <1>3
      <4>2. QED BY ONLY <4>1, b1 \in Positive, H \in Positive, b0 \in 0 .. H - 1 DEF Positive
    <3>2. b0 * q >= 0 /\ b0 * q \in Int /\ H * y \in Int
      BY <1>3 DEF Positive
    <3>3. QED BY <2>2, <3>1, <3>2
  <2>6. QED BY <1>2, <1>3, <2>3, <2>4, <2>5
<1>6. PICK w : w = DigitEstimate(H, b1, r1)
  OBVIOUS
<1>7. w \in Nat /\ w <= H - 1 /\ w * b1 <= r1 /\ q <= w
  <2>1. CASE b1 * H <= r1
    <3>1. w = H - 1
      BY <1>6, <2>1 DEF DigitEstimate
    <3>2. (H - 1) * b1 <= b1 * H /\ (H - 1) * b1 \in Int /\ b1 * H \in Int
      BY DEF Positive
    <3>3. QED BY <1>2, <1>4, <2>1, <3>1, <3>2 DEF Positive
  <2>2. CASE ~ (b1 * H <= r1)
    <3>1. w = r1 \div b1
      BY <1>6, <2>2 DEF DigitEstimate
    <3>2. r1 < b1 * H
      <4>1. b1 * H \in Int
        BY DEF Positive
      <4>2. QED BY <1>2, <2>2, <4>1
    <3>3. w \in Nat /\ w < H
      BY <1>1, <1>2, <3>1, <3>2, SmallQuotient
    <3>4. r1 % b1 \in 0 .. b1 - 1 /\ r1 = b1 * w + (r1 % b1)
      <4>1. r1 \in Int
        BY <1>2
      <4>2. QED BY <3>1, <4>1, Divided
    <3>5. w * b1 <= r1
      <4>1. w * b1 = b1 * w /\ b1 * w \in Int
        BY <3>3 DEF Positive
      <4>2. QED BY <1>2, <3>4, <4>1
    <3>6. q <= w
      <4>1. SUFFICES ASSUME ~ (q <= w) PROVE FALSE
        OBVIOUS
      <4>2. b1 * (w + 1) <= b1 * q
        BY ONLY <1>3, <3>3, <4>1, b1 \in Positive DEF Positive
      <4>3. b1 * (w + 1) = b1 * w + b1 /\ b1 * w \in Int /\ b1 * q \in Int
        BY <1>3, <3>3 DEF Positive
      <4>4. QED BY <1>2, <1>5, <3>4, <4>2, <4>3 DEF Positive
    <3>7. QED BY <3>3, <3>5, <3>6 DEF Positive
  <2>3. QED BY <2>1, <2>2
<1>8. w <= q + 2
  <2>1. SUFFICES ASSUME ~ (w <= q + 2) PROVE FALSE
    OBVIOUS
  <2>2. PICK d \in Nat : w = q + 3 + d
    <3>1. w - q - 3 \in Nat /\ w = q + 3 + (w - q - 3)
      BY <1>3, <1>7, <2>1
    <3>2. QED BY <3>1
  \* Y lies below (q + 1) * b and not below w * (b - b0).
  <2>3. b * w <= Y + w * b0
    <3>1. H * (w * b1) <= H * r1
      <4>1. w * b1 \in Nat
        BY <1>7 DEF Positive
      <4>2. QED BY ONLY <1>2, <1>7, <4>1, H \in Positive DEF Positive
    <3>2. b * w = H * (w * b1) + w * b0 /\ w * b0 \in Int /\ H * (w * b1) \in Int /\ H * r1 \in Int
      BY <1>2, <1>7 DEF Positive
    <3>3. QED BY <1>2, <3>1, <3>2
  <2>4. b * w = b * q + 3 * b + b * d /\ b * d >= 0 /\ b * d \in Int /\ b * q \in Int
    <3>1. b * (q + 3 + d) = b * q + 3 * b + b * d
      BY ONLY b \in Positive, d \in Nat, <1>3 DEF Positive
    <3>2. b * d >= 0 /\ b * d \in Int /\ b * q \in Int
      BY <1>3 DEF Positive
    <3>3. QED BY <2>2, <3>1, <3>2
  <2>5. w * b0 < H * H
    <3>1. w * b0 <= w * H /\ w * H < H * H /\ w * b0 \in Int /\ w * H \in Int /\ H * H \in Int
      BY ONLY <1>7, b0 \in 0 .. H - 1, H \in Positive DEF Positive
    <3>2. QED BY <3>1
  <2>6. w * b0 \in Int /\ H * H \in Int
    BY <1>7 DEF Positive
  <2>7. QED BY <1>1, <1>3, <2>3, <2>4, <2>5, <2>6
<1>9. QED BY <1>3, <1>4, <1>6, <1>7, <1>8

\* The loop that corrects the first digit: from Y - B * d it takes d turns.
LEMMA CorrectionsTaken ==
  ASSUME NEW B \in Positive, NEW d \in Nat, NEW Y \in 0 .. B - 1, NEW r, r = Y - B * d
  PROVE  Corrections(r, B) = d
<1>1. PICK y \in Nat : y = B * d
  BY DEF Positive
<1>2. CASE d = 0
  <2>1. y = 0
    BY <1>1, <1>2 DEF Positive
  <2>2. QED BY <1>1, <1>2, <2>1 DEF Corrections
<1>3. CASE d # 0
  <2>1. y >= B
    <3>1. PICK g \in Nat : d = 1 + g
      <4>1. d - 1 \in Nat /\ d = 1 + (d - 1)
        BY <1>3
      <4>2. QED BY <4>1
    <3>2. B * d = B + B * g /\ B * g >= 0 /\ B * g \in Int
      BY <3>1 DEF Positive
    <3>3. QED BY <1>1, <3>2 DEF Positive
  <2>2. ~ (r >= 0)
    BY <1>1, <2>1 DEF Positive
  <2>3. B - 1 - r = B * d + (B - 1 - Y)
    BY <1>1 DEF Positive
  <2>4. Splits(B - 1 - r, B, d, B - 1 - Y)
    BY <1>1, <2>3 DEF Splits, Positive
  <2>5. QED BY <2>2, <2>4, SplitsIs DEF Corrections
<1>4. QED BY <1>2, <1>3

\* estimateDiv in terms of its digits.
LEMMA EstimateDigits ==
  ASSUME NEW n, NEW H \in Positive, H = 2^(n \div 2), 2^n = H * H,
         NEW b1 \in Positive, NEW b0 \in 0 .. H - 1, NEW b \in Positive, b = b1 * H + b0,
         H * H <= 2 * b, b < H * H, NEW x \in Nat, x < b, NEW a1 \in 0 .. H - 1, NEW a0 \in 0 .. H - 1,
         NEW a, a = a1 * H + a0
  PROVE  LET t == (x * 2^n + a) \div b
         IN  t \in Nat /\ t < 2^n /\ estimateDiv(n, x, a, b) \in {t, t + 1, t + 2}
<1>1. PICK Q \in Nat : Q = x * H + a1
  BY DEF Positive
<1>2. Q < b * H /\ Q \div H = x
  <2>1. (x + 1) * H <= b * H
    BY ONLY x \in Nat, x < b, b \in Positive, H \in Positive DEF Positive
  <2>2. (x + 1) * H = x * H + H /\ x * H \in Int /\ b * H \in Int
    BY DEF Positive
  <2>3. Splits(Q, H, x, a1)
    BY <1>1 DEF Splits, Positive
  <2>4. QED BY <1>1, <2>1, <2>2, <2>3, SplitsIs DEF Positive
<1>3. PICK q1 \in Nat : q1 = Q \div b /\ q1 <= H - 1
  BY <1>2, DigitClose
<1>4. PICK w1 \in Nat : w1 = DigitEstimate(H, b1, x) /\ q1 <= w1
  BY <1>2, <1>3, DigitClose
<1>5. PICK r \in 0 .. b - 1 : Q = b * q1 + r
  <2>1. Q \in Int
    OBVIOUS
  <2>2. Q % b \in 0 .. b - 1 /\ Q = b * (Q \div b) + (Q % b)
    BY <2>1, Divided
  <2>3. QED BY <1>3, <2>2
<1>6. PICK Y \in Nat : Y = r * H + a0
  BY DEF Positive
<1>7. Y < b * H /\ Y \div H = r
  <2>1. (r + 1) * H <= b * H
    BY ONLY r \in 0 .. b - 1, b \in Positive, H \in Positive DEF Positive
  <2>2. (r + 1) * H = r * H + H /\ r * H \in Int /\ b * H \in Int
    BY DEF Positive
  <2>3. Splits(Y, H, r, a0)
    BY <1>6 DEF Splits, Positive
  <2>4. QED BY <1>6, <2>1, <2>2, <2>3, SplitsIs DEF Positive
<1>8. PICK N \in Nat : N = x * (H * H) + a /\ N = (b * H) * q1 + Y
  <2>1. x * (H * H) + (a1 * H + a0) = (x * H + a1) * H + a0
    BY DEF Positive
  <2>2. (b * q1 + r) * H + a0 = (b * H) * q1 + (r * H + a0)
    BY DEF Positive
  <2>3. x * (H * H) + (a1 * H + a0) \in Nat
    BY DEF Positive
  <2>4. x * (H * H) + a = Q * H + a0 /\ Q * H + a0 = (b * H) * q1 + Y
    BY <1>1, <1>5, <1>6, <2>1, <2>2
  <2>5. QED BY <2>3, <2>4
<1>9. PICK q2 \in Nat : q2 = Y \div b /\ q2 <= H - 1
  BY <1>7, DigitClose
<1>10. PICK w2 \in Nat : w2 = DigitEstimate(H, b1, r) /\ w2 \in {q2, q2 + 1, q2 + 2}
  <2>1. DigitEstimate(H, b1, r) \in Nat /\ q2 <= DigitEstimate(H, b1, r)
        /\ DigitEstimate(H, b1, r) <= q2 + 2
    BY <1>7, <1>9, DigitClose
  <2>2. QED BY <2>1
<1>11. PICK t \in Nat : t = N \div b /\ t = q1 * H + q2 /\ t < H * H
  <2>1. Y % b \in 0 .. b - 1 /\ Y = b * q2 + (Y % b)
    <3>1. Y \in Int
      OBVIOUS
    <3>2. QED BY <1>9, <3>1, Divided
  <2>2. (b * H) * q1 + b * q2 = b * (q1 * H + q2) /\ q1 * H + q2 \in Nat
        /\ (b * H) * q1 \in Int /\ b * q2 \in Int
    BY DEF Positive
  <2>3. Splits(N, b, q1 * H + q2, Y % b)
    BY <1>8, <2>1, <2>2 DEF Splits
  <2>4. q1 * H + q2 < H * H
    <3>1. (q1 + 1) * H <= H * H
      BY ONLY <1>3, q1 \in Nat, H \in Positive DEF Positive
    <3>2. (q1 + 1) * H = q1 * H + H /\ q1 * H \in Int /\ H * H \in Int
      BY DEF Positive
    <3>3. QED BY <1>9, <3>1, <3>2 DEF Positive
  <2>5. QED BY <2>2, <2>3, <2>4, SplitsIs
<1>12. estimateDiv(n, x, a, b) = q1 * H + w2
  <2>1. PICK d \in Nat : d = w1 - q1 /\ w1 = q1 + d
    <3>1. w1 - q1 \in Nat /\ w1 = q1 + (w1 - q1)
      BY <1>4
    <3>2. QED BY <3>1
  <2>2. b \div H = b1 /\ ~ (b <= x)
    <3>1. Splits(b, H, b1, b0)
      BY DEF Splits, Positive
    <3>2. QED BY <3>1, SplitsIs DEF Positive
  <2>3. PICK z0 \in Nat : z0 = w1 * H
    BY DEF Positive
  <2>4. z0 = IF b1 * H <= x THEN 2^n - H ELSE (x \div b1) * H
    <3>1. (H - 1) * H = H * H - H
      BY DEF Positive
    <3>2. QED BY <1>4, <2>3, <3>1 DEF DigitEstimate
  <2>5. PICK r0 \in Int : r0 = x * 2^n + a - b * z0 /\ r0 = Y - (b * H) * d
    <3>1. b * z0 = (b * H) * q1 + (b * H) * d /\ b * z0 \in Int /\ (b * H) * q1 \in Int
          /\ (b * H) * d \in Int
      <4>1. b * ((q1 + d) * H) = (b * H) * q1 + (b * H) * d
        BY DEF Positive
      <4>2. b * z0 \in Int /\ (b * H) * q1 \in Int /\ (b * H) * d \in Int
        BY DEF Positive
      <4>3. QED BY <2>1, <2>3, <4>1, <4>2
    <3>2. N - b * z0 = Y - (b * H) * d
      BY <1>8, <3>1
    <3>3. x * 2^n + a - b * z0 = N - b * z0
      <4>1. x * 2^n \in Int /\ a \in Int
        BY DEF Positive
      <4>2. QED BY <1>8, <3>1, <4>1
    <3>4. N - b * z0 \in Int
      BY <3>1
    <3>5. QED BY <3>2, <3>3, <3>4
  <2>6. Corrections(r0, b * H) = d
    <3>1. b * H \in Positive /\ Y \in 0 .. (b * H) - 1
      BY <1>7 DEF Positive
    <3>2. QED BY <2>5, <3>1, CorrectionsTaken
  <2>7. r0 + d * b * H = Y
    <3>1. d * b * H = (b * H) * d /\ (b * H) * d \in Int
      BY DEF Positive
    <3>2. QED BY <2>5, <3>1
  <2>8. r % 2^n = r
    <3>1. 2^n \in Positive /\ r \in 0 .. 2^n - 1
      BY DEF Positive
    <3>2. QED BY <3>1, Small
  <2>9. ((r0 + d * b * H) \div H) % 2^n = r
    BY <1>7, <2>7, <2>8
  <2>10. z0 - d * H = q1 * H
    <3>1. (q1 + d) * H = q1 * H + d * H /\ q1 * H \in Int /\ d * H \in Int
      BY DEF Positive
    <3>2. QED BY <2>1, <2>3, <3>1
  <2>11. estimateDiv(n, x, a, b) = z0 - d * H + (IF b1 * H <= r THEN H - 1 ELSE r \div b1)
    BY <2>2, <2>4, <2>5, <2>6, <2>9, Zenon DEF estimateDiv
  <2>12. w2 = IF b1 * H <= r THEN H - 1 ELSE r \div b1
    BY <1>10 DEF DigitEstimate
  <2>13. z0 - d * H + w2 = q1 * H + w2
    BY <2>10
  <2>14. QED BY <2>11, <2>12, <2>13, Zenon
<1>13. q1 * H + w2 \in {t, t + 1, t + 2}
  <2>1. q1 * H \in Int
    BY DEF Positive
  <2>2. QED BY <1>10, <1>11, <2>1
<1>14. x * 2^n + a = N
  BY <1>8
<1>15. QED BY <1>11, <1>12, <1>13, <1>14

LEMMA EstimateWithin ==
  ASSUME PowersHold, NEW n \in Positive, n % 2 = 0,
         NEW b \in 2^(n - 1) .. 2^n - 1, NEW x \in Nat, x < b, NEW a \in 0 .. 2^n - 1
  PROVE  LET t == (x * 2^n + a) \div b
         IN  t \in Nat /\ t < 2^n /\ estimateDiv(n, x, a, b) \in {t, t + 1, t + 2}
<1>1. PICK c \in Positive : c = n \div 2 /\ n = c + c /\ c - 1 \in Nat /\ n - 1 = (c - 1) + c
  <2>1. n \div 2 \in Positive /\ n = n \div 2 + n \div 2 /\ (n \div 2) - 1 \in Nat
        /\ n - 1 = ((n \div 2) - 1) + n \div 2
    BY DEF Positive
  <2>2. QED BY <2>1
<1>2. PICK H \in Positive, G \in Positive : H = 2^c /\ G = 2^(c - 1)
  BY <1>1, Power DEF Positive
<1>3. 2^n = H * H /\ 2^(n - 1) = G * H /\ H = 2 * G
  <2>1. c \in Nat /\ (c - 1) + 1 = c
    BY DEF Positive
  <2>2. 2^(c + c) = 2^c * 2^c /\ 2^((c - 1) + c) = 2^(c - 1) * 2^c /\ 2^((c - 1) + 1) = 2 * 2^(c - 1)
    BY <1>1, <2>1, Power
  <2>3. QED BY <1>1, <1>2, <2>1, <2>2
<1>4. b \in Nat /\ G * H <= b /\ b < H * H /\ H * H \in Nat /\ G * H \in Nat /\ G * H >= H
  <2>1. H * H \in Nat /\ G * H \in Nat /\ G * H >= H
    BY DEF Positive
  <2>2. QED BY <1>3, <2>1
<1>5. b \in Positive /\ H * H <= 2 * b
  <2>1. H * H = 2 * (G * H)
    BY <1>3 DEF Positive
  <2>2. QED BY <1>4, <2>1 DEF Positive
<1>6. PICK b1 \in Positive, b0 \in 0 .. H - 1 : b = b1 * H + b0
  <2>1. b \in Int
    BY <1>4
  <2>2. b % H \in 0 .. H - 1 /\ b = H * (b \div H) + (b % H)
    BY <2>1, Divided
  <2>3. PICK y \in Nat : y = b \div H
    BY <1>4 DEF Positive
  <2>4. y # 0
    <3>1. H * 0 = 0
      BY DEF Positive
    <3>2. QED BY <1>4, <2>2, <2>3, <3>1 DEF Positive
  <2>5. H * y = y * H
    BY DEF Positive
  <2>6. QED BY <2>2, <2>3, <2>4, <2>5 DEF Positive
<1>7. PICK a1 \in 0 .. H - 1, a0 \in 0 .. H - 1 : a = a1 * H + a0
  <2>1. a \in Int /\ a \in Nat /\ a < H * H /\ H \in Nat
    BY <1>3, <1>4 DEF Positive
  <2>2. a % H \in 0 .. H - 1 /\ a = H * (a \div H) + (a % H)
    BY <2>1, Divided
  <2>3. PICK y \in 0 .. H - 1 : y = a \div H
    <3>1. a \div H \in Nat /\ a \div H < H
      BY <2>1, SmallQuotient
    <3>2. QED BY <3>1 DEF Positive
  <2>4. H * y = y * H
    BY DEF Positive
  <2>5. QED BY <2>2, <2>3, <2>4
<1>8. H = 2^(n \div 2)
  BY <1>1, <1>2
<1>9. b < H * H
  BY <1>4
<1>10. QED BY <1>3, <1>5, <1>6, <1>7, <1>8, <1>9, EstimateDigits

\* What a quotient operator of div must do with operands of a format.
Quotes(f, x, b, z) ==
    LET v == x * 2^f.w
    IN  z \in Nat /\ Side(z, 2^(f.x - 1), v, b * 2^(f.x - 1))

LEMMA QuotientF32Lies ==
  ASSUME PowersHold, Formatted(F32), NEW x \in Nat, NEW b \in Positive
  PROVE  Quotes(F32, x, b, quotientF32(x, b))
<1>1. FormatPowers(F32) /\ F32.w \in Nat
  BY FormatFields
<1>2. PICK c \in Positive, h \in Positive : c = 2^(F32.x - 2) /\ h = 2^(F32.x - 1) /\ h = 2 * c
  BY <1>1 DEF FormatPowers, Positive
<1>3. PICK v \in Nat : v = x * 2^F32.w
  <2>1. 2^F32.w \in Nat
    BY <1>1, Power DEF Positive
  <2>2. QED BY <2>1
<1>4. PICK q \in Nat : q = v \div b
  BY DEF Positive
<1>5. v % b # 0 <=> b * q # v
  <2>1. v \in Int
    OBVIOUS
  <2>2. v % b \in 0 .. b - 1 /\ v = b * q + (v % b)
    BY <1>4, <2>1, Divided
  <2>3. b * q \in Int
    BY DEF Positive
  <2>4. QED BY <2>2, <2>3
<1>6. PICK z : z = quotientF32(x, b)
  OBVIOUS
<1>7. CASE q % h = 0
  <2>1. z = Jam(q, b * q # v)
    BY <1>2, <1>3, <1>4, <1>6, <1>7, Zenon DEF quotientF32
  <2>2. z = Jam(q, v % b # 0)
    BY <1>5, <2>1 DEF Jam
  <2>3. Side(z, 2 * c, v, b * (2 * c)) /\ z \in Nat
    BY <1>4, <2>2, SideOfJam
  <2>4. QED BY <1>2, <1>3, <1>6, <2>3 DEF Quotes
<1>8. CASE q % h # 0
  <2>1. z = q
    BY <1>2, <1>3, <1>4, <1>6, <1>8, Zenon DEF quotientF32
  <2>2. 1 <= (z % h) - (z - q)
    <3>1. q % h \in Nat
      BY DEF Positive
    <3>2. QED BY <1>8, <2>1, <3>1
  <2>3. Side(z, h, v, b * h)
    BY <1>4, <2>1, <2>2, SideInside
  <2>4. QED BY <1>2, <1>3, <1>6, <2>1, <2>3 DEF Quotes
<1>9. QED BY <1>7, <1>8

\* f64_div corrects its estimate only when the last bits of it are at most 2:
\* the others are far enough above a rounding boundary.
LEMMA QuotientF64Lies ==
  ASSUME PowersHold, Formatted(F64), F64.w % 2 = 0, NEW x \in Nat,
         NEW b \in 2^(F64.w - 1) .. 2^F64.w - 1, x < b
  PROVE  Quotes(F64, x, b, quotientF64(x, b))
<1>1. FormatPowers(F64) /\ F64.w \in Positive
  BY FormatFields DEF Positive
<1>2. PICK c \in Positive, h \in Positive : c = 2^(F64.x - 2) /\ h = 2^(F64.x - 1) /\ h = 2 * c
  BY <1>1 DEF FormatPowers, Positive
<1>3. PICK T \in Positive : T = 2^F64.w
  BY <1>1 DEF FormatPowers, Positive
<1>4. PICK v \in Nat : v = x * T
  BY DEF Positive
<1>5. b \in Positive /\ b < T
  BY <1>1, <1>3 DEF FormatPowers, Positive
<1>6. PICK t \in Nat : t = v \div b
  BY <1>5 DEF Positive
<1>7. PICK q \in Nat, d \in {0, 1, 2} : q = estimateDiv(F64.w, x, 0, b) /\ q = t + d
  <2>1. 0 \in 0 .. 2^F64.w - 1 /\ x * T + 0 = v
    BY <1>3, <1>4 DEF Positive
  <2>2. estimateDiv(F64.w, x, 0, b) \in {t, t + 1, t + 2}
    BY <1>1, <1>3, <1>6, <2>1, EstimateWithin
  <2>3. QED BY <2>2
<1>8. PICK r \in 0 .. b - 1 : v = b * t + r /\ r = v % b
  <2>1. v \in Int
    OBVIOUS
  <2>2. v % b \in 0 .. b - 1 /\ v = b * t + (v % b)
    BY <1>5, <1>6, <2>1, Divided
  <2>3. QED BY <2>2
<1>9. PICK rem : rem = v - b * q
  OBVIOUS
<1>10. rem = r - b * d /\ rem + d * b = r
  <2>1. b * (t + d) = b * t + b * d /\ b * t \in Int /\ b * d \in Int /\ d * b = b * d
    BY <1>5 DEF Positive
  <2>2. v - b * q = r - b * d
    BY <1>7, <1>8, <2>1
  <2>3. r - b * d + b * d = r
    BY <2>1, <1>5
  <2>4. QED BY <1>9, <2>1, <2>2, <2>3
<1>11. Corrections(rem, b) = d
  BY <1>5, <1>10, CorrectionsTaken
<1>12. r % T = r
  <2>1. r \in 0 .. T - 1
    BY <1>5 DEF Positive
  <2>2. QED BY <2>1, Small
<1>13. PICK z : z = quotientF64(x, b)
  OBVIOUS
<1>14. z = IF q % h <= 2 THEN Jam(q - d, r # 0) ELSE q
  <2>1. z = IF q % h <= 2 THEN Jam(q - d, (rem + d * b) % T # 0) ELSE q
    BY <1>2, <1>3, <1>4, <1>7, <1>9, <1>11, <1>13, Zenon DEF quotientF64
  <2>2. QED BY <1>10, <1>12, <2>1, Zenon
<1>15. CASE q % h <= 2
  <2>1. z = Jam(t, r # 0)
    <3>1. q - d = t
      BY <1>7
    <3>2. QED BY <1>14, <1>15, <3>1
  <2>2. Side(z, 2 * c, v, b * (2 * c)) /\ z \in Nat
    BY <1>5, <1>6, <1>8, <2>1, SideOfJam
  <2>3. QED BY <1>2, <1>3, <1>4, <1>13, <2>2 DEF Quotes
<1>16. CASE ~ (q % h <= 2)
  <2>1. z = q
    BY <1>14, <1>16
  <2>2. t <= z /\ 1 <= (z % h) - (z - t)
    <3>1. q % h \in Nat
      BY DEF Positive
    <3>2. PICK y \in Nat : y = q % h
      BY <3>1
    <3>3. z % h = y /\ y >= 3 /\ z = t + d
      BY <1>7, <1>16, <2>1, <3>2
    <3>4. QED BY ONLY <3>3, y \in Nat, t \in Nat, d \in {0, 1, 2}
  <2>3. Side(z, h, v, b * h)
    BY <1>5, <1>6, <2>1, <2>2, SideInside
  <2>4. QED BY <1>2, <1>3, <1>4, <1>13, <2>1, <2>3 DEF Quotes
<1>17. QED BY <1>15, <1>16

\* div with the values its quotient operator returns: z1 when the significand
\* of a was halved first, z2 otherwise.
DivWith(f, rm, a, b, z1, z2) ==
    LET sign == SignOf(f, a, b)
        A == operand(f, a)
        B == operand(f, b)
        e == A.exp - B.exp + f.bias - 2
    IN  CASE isNaN(f, a) \/ isNaN(f, b) -> propagateNaN(f, a, b)
          [] isInf(f, a) /\ ~ isNaN(f, b) ->
               IF isInf(f, b) THEN invalid(f) ELSE infinity(f, sign)
          [] isInf(f, b) /\ ~ isInf(f, a) /\ ~ isNaN(f, a) -> zero(f, sign)
          [] OTHER ->
               IF isZero(f, b)
               THEN IF isZero(f, a) THEN invalid(f)
                    ELSE Result(packUI(f, sign, f.inf, 0), {"infinity"})
               ELSE IF isZero(f, a) THEN zero(f, sign)
               ELSE IF B.sig * 2^(f.x + 1) <= 2 * (A.sig * 2^f.x)
               THEN roundPack(f, rm, sign, e + 1, z1) ELSE roundPack(f, rm, sign, e, z2)
QuotesFor(f, sA, sB, z1, z2) ==
    LET halved == sB * 2^(f.x + 1) <= 2 * (sA * 2^f.x)
    IN  /\ halved => Quotes(f, (sA * 2^f.x) \div 2, sB * 2^(f.x + 1), z1)
        /\ ~ halved => Quotes(f, sA * 2^f.x, sB * 2^(f.x + 1), z2)

\* What div does with two normalized operands.
LEMMA DivRounds ==
  ASSUME PowersHold, NEW f, Formatted(f), NEW rm \in Modes, NEW sign \in {0, 1},
         NEW sA, NEW mA, NEW i, ProductOperand(f, sA, mA, i),
         NEW sB, NEW mB, NEW j, ProductOperand(f, sB, mB, j),
         NEW z1, NEW z2, QuotesFor(f, sA, sB, z1, z2),
         NEW q \in Int, NEW Z \in Nat, Z = 2 * f.p + 6, NEW k \in Int, q = k + f.bias + Z - i + j,
         NEW n, n = mA * 2^Z, NEW st \in BOOLEAN, st <=> n % mB # 0
  PROVE  (IF sB * 2^(f.x + 1) <= 2 * (sA * 2^f.x) THEN roundPack(f, rm, sign, q - 1, z1)
                                                  ELSE roundPack(f, rm, sign, q - 2, z2))
           = R!Round(f, rm, sign = 1, n \div mB, k, st)
<1>1. FormatPowers(f) /\ f.x \in Nat /\ f.w \in Nat
  BY FormatFields
<1>2. PICK h \in Positive : h = 2^(f.x - 1) /\ 2^f.x = 2 * h
  BY <1>1 DEF FormatPowers, Positive
<1>3. 2^(f.x + 1) = 4 * h
  <2>1. 2^(f.x + 1) = 2 * 2^f.x
    BY <1>1, Power
  <2>2. QED BY <1>2, <2>1 DEF Positive
<1>4. sA \in Positive /\ sB \in Positive
  BY OperandPlace
<1>5. PICK T \in Positive : T = 2^f.w
  BY <1>1, Power
<1>6. sB * 2^(f.x + 1) <= 2 * (sA * 2^f.x) <=> sB <= sA
  <2>1. sB * (4 * h) = (4 * h) * sB /\ 2 * (sA * (2 * h)) = (4 * h) * sA
    BY <1>4 DEF Positive
  <2>2. PICK y \in Positive : y = 4 * h
    BY DEF Positive
  <2>3. y * sB <= y * sA <=> sB <= sA
    BY ONLY <1>4, y \in Positive DEF Positive
  <2>4. QED BY <1>2, <1>3, <2>1, <2>2, <2>3
<1>7. PICK D \in Positive : D = sB * 2^(f.x + 1)
  BY <1>3, <1>4 DEF Positive
<1>8. CASE sB <= sA
  <2>1. (sA * 2^f.x) \div 2 = sA * h /\ sA * h \in Nat
    <3>1. Splits(sA * (2 * h), 2, sA * h, 0)
      BY <1>4 DEF Splits, Positive
    <3>2. sA * h \in Nat
      BY <1>4 DEF Positive
    <3>3. QED BY <1>2, <3>1, <3>2, SplitsIs
  <2>2. PICK v \in Nat : v = (sA * 2^(f.x - 1)) * 2^f.w /\ v = (sA * h) * T
    <3>1. (sA * h) * T \in Nat
      BY <1>4 DEF Positive
    <3>2. QED BY <1>2, <1>5, <3>1
  <2>3. z1 \in Nat /\ Side(z1, 2^(f.x - 1), v, D * 2^(f.x - 1))
    BY <1>2, <1>5, <1>6, <1>7, <1>8, <2>1, <2>2 DEF QuotesFor, Quotes
  <2>4. DivOperands(f, v, D, q - 1, z1, sA, sB, q)
    BY <1>7, <1>8, <2>2, <2>3, Zenon DEF DivOperands
  <2>5. q - 1 \in Int
    OBVIOUS
  <2>6. roundPack(f, rm, sign, q - 1, z1) = R!Round(f, rm, sign = 1, n \div mB, k, st)
    BY <2>4, <2>5, QuotientRounds
  <2>7. QED BY <1>6, <1>8, <2>6, Zenon
<1>9. CASE ~ (sB <= sA)
  <2>1. sA < sB
    BY <1>4, <1>9 DEF Positive
  <2>2. PICK v \in Nat : v = (sA * 2^f.x) * 2^f.w
    <3>1. (sA * (2 * h)) * T \in Nat
      BY <1>4 DEF Positive
    <3>2. QED BY <1>2, <1>5, <3>1
  <2>3. z2 \in Nat /\ Side(z2, 2^(f.x - 1), v, D * 2^(f.x - 1))
    BY <1>6, <1>7, <1>9, <2>2 DEF QuotesFor, Quotes
  <2>4. DivOperands(f, v, D, q - 2, z2, sA, sB, q)
    BY <1>7, <2>1, <2>2, <2>3, Zenon DEF DivOperands
  <2>5. q - 2 \in Int
    OBVIOUS
  <2>6. roundPack(f, rm, sign, q - 2, z2) = R!Round(f, rm, sign = 1, n \div mB, k, st)
    BY <2>4, <2>5, QuotientRounds
  <2>7. QED BY <1>6, <1>9, <2>6, Zenon
<1>10. QED BY <1>8, <1>9, Zenon

LEMMA FormatQuotient ==
  ASSUME PowersHold, NEW f, Formatted(f), NEW rm \in Modes,
         NEW a \in 0 .. 2^f.w - 1, NEW b \in 0 .. 2^f.w - 1, NEW z1, NEW z2,
         \A sA, mA, i, sB, mB, j :
            ProductOperand(f, sA, mA, i) /\ ProductOperand(f, sB, mB, j)
              /\ sA = operand(f, a).sig /\ sB = operand(f, b).sig => QuotesFor(f, sA, sB, z1, z2)
  PROVE  DivWith(f, rm, a, b, z1, z2) = R!Div(f, rm, a, b)
<1>1. FormatPowers(f) /\ f.p \in Nat /\ f.bias \in Nat
  BY FormatFields
<1>2. SameKinds(f, a) /\ SameKinds(f, b)
  BY <1>1, KindsAgree
<1>3. PICK sign \in {0, 1} : sign = SignOf(f, a, b)
  BY <1>1, SignsAgree
<1>4. PICK neg \in BOOLEAN : neg = (sign = 1) /\ (neg <=> sign = 1)
  OBVIOUS
<1>5. neg = (R!Negative(f, a) # R!Negative(f, b))
  BY <1>1, <1>3, <1>4, SignsAgree
<1>6. /\ zero(f, sign) = R!Outcome(R!Signed(f, neg, 0), {})
      /\ infinity(f, sign) = R!Outcome(R!Inf(f, neg), {})
  BY <1>1, <1>4, SignedPatterns
<1>7. CASE isNaN(f, a) \/ isNaN(f, b)
  <2>1. DivWith(f, rm, a, b, z1, z2) = propagateNaN(f, a, b)
    BY <1>2, <1>7, Zenon DEF DivWith, SameKinds
  <2>2. R!Div(f, rm, a, b)
          = R!QuietNaN(f, R!Set("invalid", R!Signaling(f, a) \/ R!Signaling(f, b)))
    BY <1>2, <1>7, Zenon DEF SameKinds, R!Div
  <2>3. FlagIf("invalid", isSigNaN(f, a) \/ isSigNaN(f, b))
          = R!Set("invalid", R!Signaling(f, a) \/ R!Signaling(f, b))
    BY <1>2, Zenon DEF SameKinds, FlagIf, R!Set
  <2>4. QED BY <2>1, <2>2, <2>3, Zenon
    DEF propagateNaN, defaultNaN, Result, R!QuietNaN, R!Outcome
<1>8. CASE ~ isNaN(f, a) /\ ~ isNaN(f, b)
           /\ ((isInf(f, a) /\ isInf(f, b)) \/ (isZero(f, a) /\ isZero(f, b)))
  <2>1. DivWith(f, rm, a, b, z1, z2) = invalid(f)
    BY <1>2, <1>8, Zenon DEF DivWith, SameKinds
  <2>2. R!Div(f, rm, a, b) = R!QuietNaN(f, {"invalid"})
    BY <1>2, <1>8, Zenon DEF SameKinds, R!Div
  <2>3. QED BY <2>1, <2>2, Zenon DEF invalid, defaultNaN, Result, R!QuietNaN, R!Outcome
<1>9. CASE ~ isNaN(f, a) /\ ~ isNaN(f, b) /\ isInf(f, a) /\ ~ isInf(f, b)
  <2>1. DivWith(f, rm, a, b, z1, z2) = infinity(f, sign)
    BY <1>2, <1>3, <1>9, Zenon DEF DivWith, SameKinds
  <2>2. R!Div(f, rm, a, b) = R!Outcome(R!Inf(f, neg), {})
    BY <1>2, <1>5, <1>9, Zenon DEF SameKinds, R!Div
  <2>3. QED BY <1>6, <2>1, <2>2, Zenon
<1>10. CASE ~ isNaN(f, a) /\ ~ isNaN(f, b) /\ ~ isInf(f, a) /\ isZero(f, b) /\ ~ isZero(f, a)
  <2>1. DivWith(f, rm, a, b, z1, z2) = Result(packUI(f, sign, f.inf, 0), {"infinity"})
    BY <1>2, <1>3, <1>10, Zenon DEF DivWith, SameKinds
  <2>2. R!Div(f, rm, a, b) = R!Outcome(R!Inf(f, neg), {"infinity"})
    BY <1>2, <1>5, <1>10, Zenon DEF SameKinds, R!Div
  <2>3. packUI(f, sign, f.inf, 0) = R!Inf(f, neg)
    BY <1>6 DEF infinity, Result, R!Outcome
  <2>4. QED BY <2>1, <2>2, <2>3, Zenon DEF Result, R!Outcome
<1>11. CASE ~ isNaN(f, a) /\ ~ isNaN(f, b) /\ ~ isInf(f, a)
            /\ (isInf(f, b) \/ (isZero(f, a) /\ ~ isZero(f, b)))
  <2>1. DivWith(f, rm, a, b, z1, z2) = zero(f, sign)
    BY <1>2, <1>3, <1>11, Zenon DEF DivWith, SameKinds
  <2>2. R!Div(f, rm, a, b) = R!Outcome(R!Signed(f, neg, 0), {})
    BY <1>2, <1>5, <1>11, Zenon DEF SameKinds, R!Div
  <2>3. QED BY <1>6, <2>1, <2>2, Zenon
<1>12. CASE ~ isNaN(f, a) /\ ~ isNaN(f, b) /\ ~ isInf(f, a) /\ ~ isInf(f, b)
            /\ ~ isZero(f, a) /\ ~ isZero(f, b)
  <2>1. PICK i : Normalized(f, a, i)
    <3>1. PICK s \in {0, 1}, e \in 0 .. f.inf, r \in 0 .. 2^f.p - 1 : Decoded(f, a, s, e, r)
      BY <1>1, FieldsOf
    <3>2. e # f.inf
      BY <1>12, <3>1 DEF Decoded
    <3>3. QED BY <1>12, <3>1, <3>2, OperandNormalized
  <2>2. PICK j : Normalized(f, b, j)
    <3>1. PICK s \in {0, 1}, e \in 0 .. f.inf, r \in 0 .. 2^f.p - 1 : Decoded(f, b, s, e, r)
      BY <1>1, FieldsOf
    <3>2. e # f.inf
      BY <1>12, <3>1 DEF Decoded
    <3>3. QED BY <1>12, <3>1, <3>2, OperandNormalized
  <2>3. PICK A : A = operand(f, a)
    OBVIOUS
  <2>4. PICK B : B = operand(f, b)
    OBVIOUS
  <2>5. PICK q \in Int : q = A.exp - B.exp + f.bias /\ A.exp - B.exp + f.bias - 2 = q - 2
                         /\ A.exp - B.exp + f.bias - 2 + 1 = q - 1
    <3>1. A.exp \in Int /\ B.exp \in Int
      BY <2>1, <2>2, <2>3, <2>4 DEF Normalized
    <3>2. PICK x \in Int, y \in Int, c \in Nat : x = A.exp /\ y = B.exp /\ c = f.bias
      BY <1>1, <3>1
    <3>3. x - y + c \in Int /\ x - y + c - 2 = (x - y + c) - 2 /\ x - y + c - 2 + 1 = (x - y + c) - 1
      OBVIOUS
    <3>4. QED BY <3>2, <3>3
  <2>6. PICK Z \in Nat : Z = 2 * f.p + 6
    BY <1>1
  <2>7. PICK k \in Int : k = R!K(f, a) - R!K(f, b) - Z
    <3>1. R!K(f, a) \in Int /\ R!K(f, b) \in Int
      BY <2>1, <2>2 DEF Normalized
    <3>2. R!K(f, a) - R!K(f, b) - Z \in Int
      BY <3>1
    <3>3. QED BY <3>2
  <2>8. ProductOperand(f, A.sig, R!M(f, a), i) /\ ProductOperand(f, B.sig, R!M(f, b), j)
    BY <2>1, <2>2, <2>3, <2>4 DEF Normalized, ProductOperand
  <2>9. QuotesFor(f, A.sig, B.sig, z1, z2)
    BY <2>3, <2>4, <2>8
  <2>10. PICK n : n = R!M(f, a) * 2^Z
    OBVIOUS
  <2>11. PICK st \in BOOLEAN : st = (n % R!M(f, b) # 0)
    OBVIOUS
  <2>12. q = k + f.bias + Z - i + j
    <3>1. PICK p \in Nat, c \in Nat : p = f.p /\ c = f.bias
      BY <1>1
    <3>2. PICK x \in Int, y \in Int : x = R!K(f, a) /\ y = R!K(f, b)
      BY <2>1, <2>2 DEF Normalized
    <3>3. i \in Nat /\ j \in Nat /\ A.exp = x + c + p - i /\ B.exp = y + c + p - j
      BY <2>1, <2>2, <2>3, <2>4, <3>1, <3>2 DEF Normalized
    <3>4. q = (x + c + p - i) - (y + c + p - j) + c /\ k = x - y - Z
      BY <2>5, <2>7, <3>1, <3>2, <3>3
    <3>5. q = k + c + Z - i + j
      BY ONLY <3>3, <3>4, x \in Int, y \in Int, p \in Nat, c \in Nat, Z \in Nat
    <3>6. QED BY <3>1, <3>5
  <2>13. (IF B.sig * 2^(f.x + 1) <= 2 * (A.sig * 2^f.x) THEN roundPack(f, rm, sign, q - 1, z1)
                                                        ELSE roundPack(f, rm, sign, q - 2, z2))
           = R!Round(f, rm, sign = 1, n \div R!M(f, b), k, st)
    <3>1. st <=> n % R!M(f, b) # 0
      BY <2>11, Zenon
    <3>2. QED BY <2>6, <2>8, <2>9, <2>10, <2>12, <3>1, DivRounds
  <2>14. DivWith(f, rm, a, b, z1, z2)
           = IF B.sig * 2^(f.x + 1) <= 2 * (A.sig * 2^f.x) THEN roundPack(f, rm, sign, q - 1, z1)
                                                           ELSE roundPack(f, rm, sign, q - 2, z2)
    BY <1>2, <1>3, <1>12, <2>3, <2>4, <2>5, Zenon DEF DivWith, SameKinds
  <2>15. R!Div(f, rm, a, b) = R!Round(f, rm, neg, n \div R!M(f, b), k, st)
    BY <1>2, <1>5, <1>12, <2>6, <2>7, <2>10, <2>11, Zenon DEF SameKinds, R!Div
  <2>16. QED BY <1>4, <2>13, <2>14, <2>15, Zenon
<1>13. CASE ~ isNaN(f, a) /\ ~ isNaN(f, b) /\ isInf(f, a)
  BY <1>8, <1>9, <1>13, Zenon
<1>14. CASE ~ isNaN(f, a) /\ ~ isNaN(f, b) /\ ~ isInf(f, a) /\ isInf(f, b)
  BY <1>11, <1>14, Zenon
<1>15. CASE ~ isNaN(f, a) /\ ~ isNaN(f, b) /\ ~ isInf(f, a) /\ ~ isInf(f, b)
  BY <1>8, <1>10, <1>11, <1>12, <1>15, Zenon
<1>16. QED BY <1>7, <1>13, <1>14, <1>15, Zenon

LEMMA DivF32With ==
  ASSUME NEW rm, NEW a, NEW b
  PROVE  f32_div(rm, a, b)
           = DivWith(F32, rm, a, b,
                     quotientF32((operand(F32, a).sig * 2^F32.x) \div 2,
                                 operand(F32, b).sig * 2^(F32.x + 1)),
                     quotientF32(operand(F32, a).sig * 2^F32.x,
                                 operand(F32, b).sig * 2^(F32.x + 1)))
BY Zenon DEF f32_div, div, DivWith, SignOf

LEMMA DivF64With ==
  ASSUME NEW rm, NEW a, NEW b
  PROVE  f64_div(rm, a, b)
           = DivWith(F64, rm, a, b,
                     quotientF64((operand(F64, a).sig * 2^F64.x) \div 2,
                                 operand(F64, b).sig * 2^(F64.x + 1)),
                     quotientF64(operand(F64, a).sig * 2^F64.x,
                                 operand(F64, b).sig * 2^(F64.x + 1)))
BY Zenon DEF f64_div, div, DivWith, SignOf

LEMMA HalvedSignificand ==
  ASSUME PowersHold, NEW f, Formatted(f), NEW s \in Positive
  PROVE  /\ (s * 2^f.x) \div 2 = s * 2^(f.x - 1) /\ s * 2^(f.x - 1) \in Nat
         /\ s * 2^f.x = 2 * (s * 2^(f.x - 1)) /\ s * 2^f.x \in Nat
         /\ s * 2^(f.x + 1) = 4 * (s * 2^(f.x - 1)) /\ s * 2^(f.x + 1) \in Positive
<1>1. FormatPowers(f) /\ f.x \in Nat
  BY FormatFields
<1>2. PICK h \in Positive : h = 2^(f.x - 1) /\ 2^f.x = 2 * h
  BY <1>1 DEF FormatPowers, Positive
<1>3. 2^(f.x + 1) = 4 * h
  <2>1. 2^(f.x + 1) = 2 * 2^f.x
    BY <1>1, Power
  <2>2. QED BY <1>2, <2>1 DEF Positive
<1>4. PICK y \in Positive : y = s * h /\ s * (2 * h) = 2 * y /\ s * (4 * h) = 4 * y
  <2>1. s * h \in Positive /\ s * (2 * h) = 2 * (s * h) /\ s * (4 * h) = 4 * (s * h)
    BY DEF Positive
  <2>2. QED BY <2>1
<1>5. (2 * y) \div 2 = y /\ y \in Nat /\ 2 * y \in Nat /\ 4 * y \in Positive
  BY DEF Positive
<1>6. QED BY <1>2, <1>3, <1>4, <1>5

LEMMA F32Quotes ==
  ASSUME PowersHold, Formatted(F32),
         NEW sA, NEW mA, NEW i, ProductOperand(F32, sA, mA, i),
         NEW sB, NEW mB, NEW j, ProductOperand(F32, sB, mB, j)
  PROVE  QuotesFor(F32, sA, sB, quotientF32((sA * 2^F32.x) \div 2, sB * 2^(F32.x + 1)),
                                quotientF32(sA * 2^F32.x, sB * 2^(F32.x + 1)))
<1>1. sA \in Positive /\ sB \in Positive
  BY OperandPlace
<1>2. PICK x \in Nat, y \in Nat, b \in Positive :
         x = (sA * 2^F32.x) \div 2 /\ y = sA * 2^F32.x /\ b = sB * 2^(F32.x + 1)
  BY <1>1, HalvedSignificand
<1>3. Quotes(F32, x, b, quotientF32(x, b)) /\ Quotes(F32, y, b, quotientF32(y, b))
  BY QuotientF32Lies
<1>4. QED BY <1>2, <1>3, Zenon DEF QuotesFor

\* The divisor fills its word and the dividend is smaller, which the estimate
\* of f64_div needs.
LEMMA F64Quotes ==
  ASSUME PowersHold, Formatted(F64), F64.w % 2 = 0,
         NEW sA, NEW mA, NEW i, ProductOperand(F64, sA, mA, i),
         NEW sB, NEW mB, NEW j, ProductOperand(F64, sB, mB, j)
  PROVE  QuotesFor(F64, sA, sB, quotientF64((sA * 2^F64.x) \div 2, sB * 2^(F64.x + 1)),
                                quotientF64(sA * 2^F64.x, sB * 2^(F64.x + 1)))
<1>1. FormatPowers(F64) /\ F64.x \in Nat /\ F64.w = F64.p + F64.x + 2 /\ F64.p \in Nat
  BY FormatFields
<1>2. PICK P \in Positive : P = 2^F64.p
  BY <1>1, Power
<1>3. PICK h \in Positive : h = 2^(F64.x - 1) /\ 2^F64.x = 2 * h
  BY <1>1 DEF FormatPowers, Positive
<1>4. 2^(F64.w - 1) = 4 * (P * h) /\ 2^F64.w = 8 * (P * h)
  <2>1. 2^(F64.w - 2) = P * (2 * h)
    BY <1>1, <1>2, <1>3 DEF FormatPowers
  <2>2. P * (2 * h) = 2 * (P * h) /\ P * h \in Nat
    BY DEF Positive
  <2>3. QED BY <1>1, <2>1, <2>2 DEF FormatPowers
<1>5. sA \in Positive /\ sB \in Positive /\ P <= sA /\ sA < 2 * P /\ P <= sB /\ sB < 2 * P
  BY <1>2, OperandPlace
<1>6. PICK u \in Nat, v \in Nat, D \in Nat :
         /\ u = sA * h /\ v = sB * h /\ D = P * h
         /\ D <= u /\ u < 2 * D /\ D <= v /\ v < 2 * D
  <2>1. /\ sA * h \in Nat /\ sB * h \in Nat /\ P * h \in Nat
        /\ P * h <= sA * h /\ sA * h < (2 * P) * h /\ P * h <= sB * h /\ sB * h < (2 * P) * h
        /\ (2 * P) * h = 2 * (P * h)
    BY <1>5 DEF Positive
  <2>2. QED BY <2>1
<1>7. /\ (sA * 2^F64.x) \div 2 = u /\ sA * 2^F64.x = 2 * u /\ sB * 2^(F64.x + 1) = 4 * v
  BY <1>3, <1>5, <1>6, HalvedSignificand
<1>8. PICK y \in Nat, b \in 2^(F64.w - 1) .. 2^F64.w - 1 : y = 2 * u /\ b = 4 * v /\ u < b /\ y < b
  <2>1. 4 * v \in 4 * D .. 8 * D - 1 /\ 2 * u \in Nat /\ u < 4 * v /\ 2 * u < 4 * v
    BY <1>6
  <2>2. 4 * v \in 2^(F64.w - 1) .. 2^F64.w - 1
    BY <1>4, <1>6, <2>1
  <2>3. QED BY <2>1, <2>2
<1>9. Quotes(F64, u, b, quotientF64(u, b)) /\ Quotes(F64, y, b, quotientF64(y, b))
  BY <1>8, QuotientF64Lies
<1>10. QED BY <1>7, <1>8, <1>9, Zenon DEF QuotesFor

\* The estimate when the quotient does not fit a word, too.
LEMMA EstimateAnyway ==
  ASSUME PowersHold, NEW n \in Positive, n % 2 = 0,
         NEW b \in 2^(n - 1) .. 2^n - 1, NEW x \in Nat, NEW a \in 0 .. 2^n - 1
  PROVE  LET q == (x * 2^n + a) \div b
         IN  IF q >= 2^n THEN estimateDiv(n, x, a, b) = 2^n - 1
                         ELSE estimateDiv(n, x, a, b) \in q .. q + 2
<1>1. PICK T \in Positive : T = 2^n
  <2>1. n \in Nat
    BY DEF Positive
  <2>2. QED BY <2>1, Power
<1>2. b \in Positive
  <2>1. n - 1 \in Nat
    BY DEF Positive
  <2>2. 2^(n - 1) \in Positive
    BY <2>1, Power
  <2>3. QED BY <1>1, <2>2 DEF Positive
<1>3. PICK q \in Int : q = (x * 2^n + a) \div b
  <2>1. x * T + a \in Int
    BY <1>1 DEF Positive
  <2>2. QED BY <1>1, <1>2, <2>1, Divided
<1>4. CASE x < b
  <2>1. q \in Nat /\ q < 2^n /\ estimateDiv(n, x, a, b) \in {q, q + 1, q + 2}
    BY <1>3, <1>4, EstimateWithin
  <2>2. ~ (q >= 2^n) /\ estimateDiv(n, x, a, b) \in q .. q + 2
    BY <1>1, <2>1 DEF Positive
  <2>3. QED BY <1>3, <2>2
<1>5. CASE ~ (x < b)
  <2>1. b <= x
    BY <1>2, <1>5 DEF Positive
  <2>2. estimateDiv(n, x, a, b) = 2^n - 1
    BY <2>1, Zenon DEF estimateDiv
  <2>3. q >= T
    <3>1. SUFFICES ASSUME q + 1 <= T PROVE FALSE
      BY DEF Positive
    <3>2. PICK v \in Nat : v = x * T + a /\ v >= x * T
      <4>1. x * T + a \in Nat /\ x * T + a >= x * T
        BY <1>1 DEF Positive
      <4>2. QED BY <4>1
    <3>3. PICK r \in 0 .. b - 1 : v = b * q + r
      <4>1. v \in Int
        OBVIOUS
      <4>2. v % b \in 0 .. b - 1 /\ v = b * q + (v % b)
        BY <1>1, <1>2, <1>3, <3>2, <4>1, Divided
      <4>3. QED BY <4>2
    <3>4. b * (q + 1) <= b * T /\ b * T <= x * T /\ b * (q + 1) = b * q + b
      BY <1>2, <2>1, <3>1 DEF Positive
    <3>5. b * q \in Int /\ b * T \in Int /\ x * T \in Int /\ b \in Nat
      BY <1>2 DEF Positive
    <3>6. QED BY <3>2, <3>3, <3>4, <3>5
  <2>4. QED BY <1>1, <1>3, <2>2, <2>3
<1>6. QED BY <1>4, <1>5

\* What a call's operands are: a rounding mode and patterns of the format it
\* is made in, or a divisor that fills its word.
ProductOperands ==
  /\ Called("binary32") => /\ mode \in RoundingModes
                           /\ rs1 \in 0 .. 2^F32.w - 1 /\ rs2 \in 0 .. 2^F32.w - 1
  /\ Called("binary64") => /\ mode \in RoundingModes
                           /\ rs1 \in 0 .. 2^F64.w - 1 /\ rs2 \in 0 .. 2^F64.w - 1
  /\ Called("estimate") => /\ rs1 \in 0 .. 2^6 - 1 /\ rs3 \in 0 .. 2^6 - 1
                           /\ rs2 \in 2^5 .. 2^6 - 1

\* For formats of any size whose wider word can be halved, every rounding mode
\* and every pair of patterns, f32_mul, f64_mul, f32_div and f64_div return the
\* exact product or quotient rounded once, with the flags IEEE 754 asks for,
\* and the estimate f64_div starts from is at most 2 above the quotient.
THEOREM ProductsAlwaysCorrect ==
  ASSUME PowersHold, Sizes(E32, P32), Sizes(E64, P64), (1 + E64 + P64) % 2 = 0
  PROVE  ProductOperands => ProductsCorrect
<1> SUFFICES ASSUME ProductOperands PROVE ProductsCorrect
  OBVIOUS
<1>1. Formatted(F32) /\ Formatted(F64) /\ F64.w % 2 = 0
  <2>1. F64.w = 1 + E64 + P64
    BY DEF F64, Format
  <2>2. Formatted(F32) /\ Formatted(F64)
    BY Zenon DEF Formatted, F32, F64
  <2>3. QED BY <2>1, <2>2
<1>2. FormatPowers(F32)
  BY <1>1, FormatFields
<1>3. RoundingModes = Modes
  BY DEF RoundingModes, Modes
<1>4. ASSUME NEW rm \in Modes, NEW a \in 0 .. 2^F32.w - 1, NEW b \in 0 .. 2^F32.w - 1
      PROVE  f32_mul(rm, a, b) = R!Mul(F32, rm, a, b) /\ fdiv_s(rm, a, b) = R!Div(F32, rm, a, b)
  <2>1. f32_mul(rm, a, b) = R!Mul(F32, rm, a, b)
    BY <1>1, FormatProduct DEF f32_mul
  <2>2. PICK x, y : x = operand(F32, a).sig /\ y = operand(F32, b).sig
    OBVIOUS
  <2>3. PICK z1, z2 : /\ z1 = quotientF32((x * 2^F32.x) \div 2, y * 2^(F32.x + 1))
                      /\ z2 = quotientF32(x * 2^F32.x, y * 2^(F32.x + 1))
    OBVIOUS
  <2>4. ASSUME NEW sA, NEW mA, NEW i, NEW sB, NEW mB, NEW j,
               ProductOperand(F32, sA, mA, i), ProductOperand(F32, sB, mB, j),
               sA = operand(F32, a).sig, sB = operand(F32, b).sig
        PROVE  QuotesFor(F32, sA, sB, z1, z2)
    <3>1. x = sA /\ y = sB
      BY <2>2, <2>4
    <3>2. QED BY <1>1, <2>3, <2>4, <3>1, F32Quotes
  <2>5. DivWith(F32, rm, a, b, z1, z2) = R!Div(F32, rm, a, b)
    BY <1>1, <2>4, FormatQuotient
  <2>6. f32_div(rm, a, b) = DivWith(F32, rm, a, b, z1, z2)
    BY <2>2, <2>3, DivF32With, Zenon
  <2>7. low32(a) = a /\ low32(b) = b
    BY <1>2, LowPattern
  <2>8. QED BY <2>1, <2>5, <2>6, <2>7, Zenon DEF fdiv_s
<1>5. ASSUME NEW rm \in Modes, NEW a \in 0 .. 2^F64.w - 1, NEW b \in 0 .. 2^F64.w - 1
      PROVE  f64_mul(rm, a, b) = R!Mul(F64, rm, a, b) /\ fdiv_d(rm, a, b) = R!Div(F64, rm, a, b)
  <2>1. f64_mul(rm, a, b) = R!Mul(F64, rm, a, b)
    BY <1>1, FormatProduct DEF f64_mul
  <2>2. PICK x, y : x = operand(F64, a).sig /\ y = operand(F64, b).sig
    OBVIOUS
  <2>3. PICK z1, z2 : /\ z1 = quotientF64((x * 2^F64.x) \div 2, y * 2^(F64.x + 1))
                      /\ z2 = quotientF64(x * 2^F64.x, y * 2^(F64.x + 1))
    OBVIOUS
  <2>4. ASSUME NEW sA, NEW mA, NEW i, NEW sB, NEW mB, NEW j,
               ProductOperand(F64, sA, mA, i), ProductOperand(F64, sB, mB, j),
               sA = operand(F64, a).sig, sB = operand(F64, b).sig
        PROVE  QuotesFor(F64, sA, sB, z1, z2)
    <3>1. x = sA /\ y = sB
      BY <2>2, <2>4
    <3>2. QED BY <1>1, <2>3, <2>4, <3>1, F64Quotes
  <2>5. DivWith(F64, rm, a, b, z1, z2) = R!Div(F64, rm, a, b)
    BY <1>1, <2>4, FormatQuotient
  <2>6. f64_div(rm, a, b) = DivWith(F64, rm, a, b, z1, z2)
    BY <2>2, <2>3, DivF64With, Zenon
  <2>7. QED BY <2>1, <2>5, <2>6, Zenon DEF fdiv_d
<1>6. ASSUME Called("estimate") PROVE EstimateClose
  <2>1. 6 \in Positive /\ 6 % 2 = 0 /\ 6 - 1 = 5
    BY DEF Positive
  <2>2. rs1 \in Nat /\ rs3 \in 0 .. 2^6 - 1 /\ rs2 \in 2^(6 - 1) .. 2^6 - 1
    BY <1>6, <2>1 DEF ProductOperands
  <2>3. PICK x \in Nat, a \in 0 .. 2^6 - 1, b \in 2^(6 - 1) .. 2^6 - 1 : x = rs1 /\ a = rs3 /\ b = rs2
    BY <2>2
  <2>4. LET q == (x * 2^6 + a) \div b
        IN  IF q >= 2^6 THEN estimateDiv(6, x, a, b) = 2^6 - 1
                        ELSE estimateDiv(6, x, a, b) \in q .. q + 2
    BY <2>1, EstimateAnyway
  <2>5. QED BY <2>3, <2>4, Zenon DEF EstimateClose
<1>7. Called("binary32") => /\ f32_mul(mode, rs1, rs2) = R!Mul(F32, mode, rs1, rs2)
                            /\ fdiv_s(mode, rs1, rs2) = R!Div(F32, mode, rs1, rs2)
  BY <1>3, <1>4, Zenon DEF ProductOperands
<1>8. Called("binary64") => /\ f64_mul(mode, rs1, rs2) = R!Mul(F64, mode, rs1, rs2)
                            /\ fdiv_d(mode, rs1, rs2) = R!Div(F64, mode, rs1, rs2)
  BY <1>3, <1>5, Zenon DEF ProductOperands
<1>9. QED BY <1>6, <1>7, <1>8, Zenon DEF ProductsCorrect

------------------------------------------------------------------------------
\* Bits.  Every set of places is the set of bits of some word.
BitOf(v, k) == (v \div 2^k) % 2
HasBits(v, n, B) == \A k \in 0 .. n - 1 : BitOf(v, k) = 1 <=> k \in B

LEMMA TopBit ==
  ASSUME PowersHold, NEW n \in Nat, NEW v \in 0 .. 2^n - 1
  PROVE  /\ v + 2^n \in 0 .. 2^(n + 1) - 1 /\ v \in 0 .. 2^(n + 1) - 1
         /\ BitOf(v + 2^n, n) = 1 /\ BitOf(v, n) = 0
         /\ \A k \in 0 .. n - 1 : BitOf(v + 2^n, k) = BitOf(v, k)
<1>1. PICK T \in Positive : T = 2^n /\ 2^(n + 1) = 2 * T
  BY Power
<1>2. v + T \in 0 .. 2 * T - 1 /\ v \in 0 .. 2 * T - 1
  BY <1>1 DEF Positive
<1>3. BitOf(v + 2^n, n) = 1 /\ BitOf(v, n) = 0
  <2>1. Splits(v + T, T, 1, v) /\ Splits(v, T, 0, v)
    BY <1>1 DEF Splits, Positive
  <2>2. (v + T) \div T = 1 /\ v \div T = 0
    BY <2>1, SplitsIs
  <2>3. 1 % 2 = 1 /\ 0 % 2 = 0
    OBVIOUS
  <2>4. QED BY <1>1, <2>2, <2>3 DEF BitOf
<1>4. ASSUME NEW k \in 0 .. n - 1 PROVE BitOf(v + 2^n, k) = BitOf(v, k)
  <2>1. PICK d \in Nat : n = k + (d + 1) /\ k \in Nat /\ d + 1 \in Nat
    <3>1. n - k - 1 \in Nat /\ n = k + ((n - k - 1) + 1)
      OBVIOUS
    <3>2. QED BY <3>1
  <2>2. PICK K \in Positive, D \in Positive : K = 2^k /\ D = 2^d
    BY <2>1, Power
  <2>3. T = K * (2 * D)
    <3>1. 2^(k + (d + 1)) = 2^k * 2^(d + 1) /\ 2^(d + 1) = 2 * 2^d
      BY <2>1, Power
    <3>2. QED BY <1>1, <2>1, <2>2, <3>1
  <2>4. PICK q \in Int, r \in 0 .. K - 1 : q = v \div K /\ r = v % K /\ v = K * q + r
    <3>1. v \in Int
      BY <1>1
    <3>2. QED BY <3>1, Divided
  <2>5. Splits(v + T, K, q + 2 * D, r)
    <3>1. K * (q + 2 * D) = K * q + K * (2 * D) /\ K * q \in Int /\ K * (2 * D) \in Int
      BY DEF Positive
    <3>2. v + T = K * (q + 2 * D) + r
      BY <2>3, <2>4, <3>1
    <3>3. q + 2 * D \in Int
      BY DEF Positive
    <3>4. QED BY <1>1, <2>3, <2>4, <3>2, <3>3 DEF Splits, Positive
  <2>6. (q + 2 * D) % 2 = q % 2
    BY DEF Positive
  <2>7. QED BY <1>1, <2>2, <2>4, <2>5, <2>6, SplitsIs DEF BitOf
<1>5. QED BY <1>1, <1>2, <1>3, <1>4

LEMMA BitsExist ==
  ASSUME PowersHold, NEW n \in Nat, NEW B
  PROVE  \E v \in 0 .. 2^n - 1 : HasBits(v, n, B)
<1> DEFINE T == {i \in Nat : ~ \E v \in 0 .. 2^i - 1 : HasBits(v, i, B)}
<1> SUFFICES ASSUME n \in T PROVE FALSE
  OBVIOUS
<1>1. T \subseteq Nat
  OBVIOUS
<1>2. PICK k \in T : \A j \in T : ~(<<j, k>> \in OpToRel(<, Nat))
  <2> HIDE DEF T
  <2>1. IsWellFoundedOn(OpToRel(<, Nat), Nat)
    BY NatLessThanWellFounded
  <2>2. QED BY <1>1, <2>1, WFMin, Zenon
<1>3. k \in Nat /\ ~ \E v \in 0 .. 2^k - 1 : HasBits(v, k, B)
  BY <1>2
<1>4. k # 0
  <2>1. 0 \in 0 .. 2^0 - 1 /\ HasBits(0, 0, B)
    <3>1. 2^0 = 1
      BY Power
    <3>2. QED BY <3>1 DEF HasBits
  <2>2. QED BY <1>3, <2>1
<1>5. PICK i \in Nat : k = i + 1
  <2>1. k - 1 \in Nat /\ k = (k - 1) + 1
    BY <1>3, <1>4
  <2>2. QED BY <2>1
<1>6. PICK v \in 0 .. 2^i - 1 : HasBits(v, i, B)
  <2>1. <<i, k>> \in OpToRel(<, Nat)
    BY <1>5 DEF OpToRel
  <2>2. i \notin T
    BY <1>2, <2>1
  <2>3. QED BY <2>2
<1>7. \A j \in 0 .. k - 1 : j = i \/ j \in 0 .. i - 1
  BY <1>5
<1>8. CASE i \in B
  <2>1. HasBits(v + 2^i, k, B)
    <3>1. BitOf(v + 2^i, i) = 1 /\ \A j \in 0 .. i - 1 : BitOf(v + 2^i, j) = BitOf(v, j)
      BY TopBit
    <3>2. QED BY <1>6, <1>7, <1>8, <3>1, Zenon DEF HasBits
  <2>2. v + 2^i \in 0 .. 2^(i + 1) - 1
    BY TopBit
  <2>3. QED BY <1>3, <1>5, <2>1, <2>2
<1>9. CASE i \notin B
  <2>1. HasBits(v, k, B)
    <3>1. BitOf(v, i) # 1
      <4>1. BitOf(v, i) = 0
        BY TopBit
      <4>2. QED BY <4>1
    <3>2. QED BY <1>6, <1>7, <1>9, <3>1, Zenon DEF HasBits
  <2>2. v \in 0 .. 2^(i + 1) - 1
    BY TopBit
  <2>3. QED BY <1>3, <1>5, <2>1, <2>2
<1>10. QED BY <1>8, <1>9

\* A number is small when its high bits are all clear, and close to the top
\* when they are all set.
LEMMA HighClear ==
  ASSUME PowersHold, NEW n \in Nat, NEW m \in 0 .. n, NEW v \in 0 .. 2^n - 1
  PROVE  v < 2^m <=> \A k \in m .. n - 1 : BitOf(v, k) # 1
<1>1. m \in Nat /\ m <= n /\ 2^n \in Nat /\ v \in Nat /\ v < 2^n /\ 2^m \in Nat
  <2>1. m \in Nat /\ m <= n
    OBVIOUS
  <2>2. 2^n \in Positive /\ 2^m \in Positive
    BY <2>1, Power
  <2>3. QED BY <2>1, <2>2 DEF Positive
<1>2. ASSUME v < 2^m, NEW k \in m .. n - 1 PROVE BitOf(v, k) # 1
  <2>1. k \in Nat /\ m <= k
    BY <1>1
  <2>2. 2^m <= 2^k /\ 2^k \in Positive
    BY <1>1, <2>1, PowerOrder, Power
  <2>3. v \in 0 .. 2^k - 1
    BY <1>1, <1>2, <2>2 DEF Positive
  <2>4. v \div 2^k = 0
    BY <2>2, <2>3, Small
  <2>5. 0 % 2 = 0 /\ 0 # 1
    OBVIOUS
  <2>6. QED BY <2>4, <2>5, Zenon DEF BitOf
<1>3. ASSUME \A k \in m .. n - 1 : BitOf(v, k) # 1 PROVE v < 2^m
  <2>1. CASE v = 0
    BY <1>1, <2>1, Power DEF Positive
  <2>2. CASE v # 0
    <3>1. v \in Positive
      BY <1>1, <2>2 DEF Positive
    <3>2. PICK j : Lies(v, j)
      BY <3>1, LiesSomewhere
    <3>3. PICK k \in Nat : k = j - 1 /\ j = k + 1 /\ 2^k <= v /\ v < 2^j
      <4>1. j - 1 \in Nat /\ j = (j - 1) + 1 /\ 2^(j - 1) <= v /\ v < 2^j
        BY <3>2 DEF Lies, Positive
      <4>2. QED BY <4>1
    <3>4. PICK K \in Positive : K = 2^k /\ 2^j = 2 * K
      BY <3>3, Power
    <3>5. BitOf(v, k) = 1
      <4>1. Splits(v, K, 1, v - K)
        BY <1>1, <3>3, <3>4 DEF Splits, Positive
      <4>2. v \div K = 1 /\ 1 % 2 = 1
        BY <4>1, SplitsIs
      <4>3. QED BY <3>4, <4>2 DEF BitOf
    <3>6. k < n
      <4>1. SUFFICES ASSUME n <= k PROVE FALSE
        OBVIOUS
      <4>2. 2^n <= 2^k
        BY <4>1, PowerOrder
      <4>3. QED BY <1>1, <3>3, <3>4, <4>2 DEF Positive
    <3>7. k < m
      BY <1>1, <1>3, <3>5, <3>6
    <3>8. j \in Nat /\ j <= m
      BY <1>1, <3>3, <3>7
    <3>9. 2^j <= 2^m
      BY <1>1, <3>8, PowerOrder
    <3>10. QED BY <1>1, <3>3, <3>4, <3>9 DEF Positive
  <2>3. QED BY <2>1, <2>2
<1>4. QED BY <1>2, <1>3

LEMMA ComplementBit ==
  ASSUME PowersHold, NEW n \in Nat, NEW v \in 0 .. 2^n - 1, NEW k \in 0 .. n - 1
  PROVE  /\ 2^n - 1 - v \in 0 .. 2^n - 1
         /\ BitOf(2^n - 1 - v, k) # 1 <=> BitOf(v, k) = 1
<1>1. PICK d \in Nat : n = k + (d + 1) /\ k \in Nat /\ d + 1 \in Nat
  <2>1. n - k - 1 \in Nat /\ n = k + ((n - k - 1) + 1)
    OBVIOUS
  <2>2. QED BY <2>1
<1>2. PICK K \in Positive, D \in Positive : K = 2^k /\ D = 2^d
  BY <1>1, Power
<1>3. PICK T \in Positive : T = 2^n /\ T = K * (2 * D)
  <2>1. 2^(k + (d + 1)) = 2^k * 2^(d + 1) /\ 2^(d + 1) = 2 * 2^d
    BY <1>1, Power
  <2>2. 2^n \in Positive
    BY Power
  <2>3. QED BY <1>1, <1>2, <2>1, <2>2
<1>4. PICK q \in Int, r \in 0 .. K - 1 : q = v \div K /\ r = v % K /\ v = K * q + r
  <2>1. v \in Int
    BY <1>3
  <2>2. QED BY <2>1, Divided
<1>5. Splits(T - 1 - v, K, 2 * D - 1 - q, K - 1 - r)
  <2>1. K * (2 * D - 1 - q) = K * (2 * D) - K - K * q /\ K * q \in Int /\ K * (2 * D) \in Int
    BY DEF Positive
  <2>2. T - 1 - v = K * (2 * D - 1 - q) + (K - 1 - r)
    BY <1>3, <1>4, <2>1 DEF Positive
  <2>3. 2 * D - 1 - q \in Int /\ K - 1 - r \in 0 .. K - 1 /\ T - 1 - v \in Int
    BY <1>3 DEF Positive
  <2>4. QED BY <2>2, <2>3 DEF Splits
<1>6. (2 * D - 1 - q) % 2 # 1 <=> q % 2 = 1
  BY DEF Positive
<1>7. T - 1 - v \in 0 .. T - 1
  BY <1>3 DEF Positive
<1>8. QED BY <1>2, <1>3, <1>4, <1>5, <1>6, <1>7, SplitsIs DEF BitOf

LEMMA HighSet ==
  ASSUME PowersHold, NEW n \in Nat, NEW m \in 0 .. n, NEW v \in 0 .. 2^n - 1
  PROVE  v >= 2^n - 2^m <=> \A k \in m .. n - 1 : BitOf(v, k) = 1
<1>1. PICK T \in Positive, M \in Positive : T = 2^n /\ M = 2^m
  <2>1. m \in Nat
    OBVIOUS
  <2>2. QED BY <2>1, Power
<1>2. PICK u \in 0 .. 2^n - 1 : u = 2^n - 1 - v
  BY <1>1 DEF Positive
<1>3. v >= T - M <=> u < M
  BY <1>1, <1>2 DEF Positive
<1>4. \A k \in m .. n - 1 : BitOf(u, k) # 1 <=> BitOf(v, k) = 1
  <2>1. \A k \in m .. n - 1 : k \in 0 .. n - 1
    OBVIOUS
  <2>2. QED BY <1>2, <2>1, ComplementBit
<1>5. u < 2^m <=> \A k \in m .. n - 1 : BitOf(u, k) # 1
  BY HighClear
<1>6. QED BY <1>1, <1>3, <1>4, <1>5

------------------------------------------------------------------------------
\* Integer instructions.  What they compute, in the words of the register.
ValueOf(o, x, a, b) == Insn(o, "none", x, Reg(a), Reg(b)).val

LEMMA InstanceWords ==
  ASSUME NEW x, NEW n, NEW m
  PROVE  /\ I("none")!Half = Half /\ I("none")!Word(n) = Word(n)
         /\ I("none")!signed(x, n) = signed(x, n) /\ I("none")!sext(x, n) = sext(x, n)
         /\ I("none")!zext(x, n) = zext(x, n) /\ I("none")!sext32(n) = sext32(n)
         /\ I("none")!cmp_trunc(x, n) = cmp_trunc(x, n)
         /\ I("none")!less(x, n, m) = less(x, n, m)
         /\ I("none")!lessWord(x, n, m) = lessWord(x, n, m)
         /\ I("none")!Bool(n) = Bool(n) /\ I("none")!SHAMT(n) = n % W
         /\ I("none")!magnitude(n) = magnitude(n)
         /\ I("none")!quotient(n, m) = quotient(n, m)
         /\ I("none")!remainder(n, m) = remainder(n, m)
         /\ I("none")!mulhu64(n, m) = mulhu64(n, m)
         /\ I("none")!mulh64(n, m) = mulh64(n, m)
         /\ I("none")!mulhsu64(n, m) = mulhsu64(n, m)
BY Zenon DEF I!Half, Half, I!Word, Word, I!signed, signed, I!sext, sext, I!zext, zext,
             I!sext32, sext32, I!cmp_trunc, cmp_trunc, I!less, less, I!lessWord, lessWord,
             I!Bool, Bool, I!SHAMT, I!magnitude, magnitude, I!quotient, quotient,
             I!remainder, remainder, I!mulhu64, mulhu64, I!negated, negated,
             I!mulh64, mulh64, I!mulhsu64, mulhsu64

LEMMA ResultValues ==
  ASSUME NEW v, NEW t, NEW r, NEW q
  PROVE  /\ I("none")!RD(v, t).val = Word(v) /\ I("none")!Sum(v, r, q).val = Word(v)
         /\ I("none")!Logic(v, r, q).val = Word(v) /\ I("none")!Arith(v, r, q).val = Word(v)
         /\ I("none")!illegal.val = 0
BY InstanceWords DEF I!RD, I!Sum, I!Logic, I!Arith, I!illegal

LEMMA RegValue ==
  ASSUME NEW a
  PROVE  Reg(a).val = a
BY DEF Reg

LEMMA SumValues ==
  ASSUME NEW x, NEW a, NEW b
  PROVE  /\ ValueOf("add", x, a, b) = Word(sext(x, a + b))
         /\ ValueOf("addi", x, a, b) = Word(sext(x, a + b))
         /\ ValueOf("sub", x, a, b) = Word(sext(x, a - b))
         /\ ValueOf("mul", x, a, b) = Word(sext(x, a * b))
         /\ ValueOf("slt", x, a, b) = Word(Bool(less(x, a, b)))
         /\ ValueOf("slti", x, a, b) = Word(Bool(less(x, a, b)))
         /\ ValueOf("sltu", x, a, b) = Word(Bool(lessWord(x, a, b)))
         /\ ValueOf("sltiu", x, a, b) = Word(Bool(lessWord(x, a, b)))
<1>1. PICK r, q : r = Reg(a) /\ q = Reg(b)
  OBVIOUS
<1>2. r.val = a /\ q.val = b
  BY <1>1, RegValue
<1>3. ValueOf("add", x, a, b) = Word(sext(x, a + b))
  <2>1. ValueOf("add", x, a, b) = I("none")!add(x, r, q).val
    BY <1>1, Zenon DEF ValueOf, Insn
  <2>2. QED BY <1>2, <2>1, Zenon
    DEF I!add, I!Sum, I!RD, I!Word, Word, I!signed, signed, I!sext, sext, I!zext, zext,
        I!sext32, sext32, I!Half, Half
<1>4. ValueOf("addi", x, a, b) = Word(sext(x, a + b))
  <2>1. ValueOf("addi", x, a, b) = I("none")!addi(x, r, q.val).val
    BY <1>1, Zenon DEF ValueOf, Insn
  <2>2. QED BY <1>2, <2>1, Zenon
    DEF I!addi, I!RD, I!Word, Word, I!signed, signed, I!sext, sext, I!zext, zext, I!sext32,
        sext32, I!Half, Half
<1>5. ValueOf("sub", x, a, b) = Word(sext(x, a - b))
  <2>1. ValueOf("sub", x, a, b) = I("none")!sub(x, r, q).val
    BY <1>1, Zenon DEF ValueOf, Insn
  <2>2. QED BY <1>2, <2>1, Zenon
    DEF I!sub, I!RD, I!Word, Word, I!signed, signed, I!sext, sext, I!zext, zext, I!sext32,
        sext32, I!Half, Half
<1>6. ValueOf("mul", x, a, b) = Word(sext(x, a * b))
  <2>1. ValueOf("mul", x, a, b) = I("none")!mul(x, r, q).val
    BY <1>1, Zenon DEF ValueOf, Insn
  <2>2. QED BY <1>2, <2>1, Zenon
    DEF I!mul, I!Arith, I!RD, I!Word, Word, I!signed, signed, I!sext, sext, I!zext, zext,
        I!sext32, sext32, I!Half, Half
<1>7. ValueOf("slt", x, a, b) = Word(Bool(less(x, a, b)))
  <2>1. ValueOf("slt", x, a, b) = I("none")!slt(x, r, q).val
    BY <1>1, Zenon DEF ValueOf, Insn
  <2>2. QED BY <1>2, <2>1, Zenon
    DEF I!slt, I!Logic, I!RD, I!Word, Word, I!Bool, Bool, I!less, less, I!signed, signed,
        I!cmp_trunc, cmp_trunc
<1>8. ValueOf("slti", x, a, b) = Word(Bool(less(x, a, b)))
  <2>1. ValueOf("slti", x, a, b) = I("none")!slti(x, r, q.val).val
    BY <1>1, Zenon DEF ValueOf, Insn
  <2>2. QED BY <1>2, <2>1, Zenon
    DEF I!slti, I!RD, I!Word, Word, I!Bool, Bool, I!less, less, I!signed, signed,
        I!cmp_trunc, cmp_trunc
<1>9. ValueOf("sltu", x, a, b) = Word(Bool(lessWord(x, a, b)))
  <2>1. ValueOf("sltu", x, a, b) = I("none")!sltu(x, r, q).val
    BY <1>1, Zenon DEF ValueOf, Insn
  <2>2. QED BY <1>2, <2>1, Zenon
    DEF I!sltu, I!Logic, I!RD, I!Word, Word, I!Bool, Bool, I!lessWord, lessWord,
        I!cmp_trunc, cmp_trunc
<1>10. ValueOf("sltiu", x, a, b) = Word(Bool(lessWord(x, a, b)))
  <2>1. ValueOf("sltiu", x, a, b) = I("none")!sltiu(x, r, q.val).val
    BY <1>1, Zenon DEF ValueOf, Insn
  <2>2. QED BY <1>2, <2>1, Zenon
    DEF I!sltiu, I!RD, I!Word, Word, I!Bool, Bool, I!lessWord, lessWord, I!cmp_trunc,
        cmp_trunc
<1>11. QED BY <1>3, <1>4, <1>5, <1>6, <1>7, <1>8, <1>9, <1>10, Zenon


LEMMA ShiftValues ==
  ASSUME NEW x, NEW a, NEW b
  PROVE  /\ ValueOf("sll", x, a, b) = Word(sext(x, a * 2^(b % x)))
         /\ ValueOf("sra", x, a, b) = Word(sext(x, signed(x, a) \div 2^(b % x)))
         /\ ValueOf("srl", x, a, b) =
              Word(IF x = W THEN a \div 2^(b % W) ELSE sext32(zext(Half, a) \div 2^(b % Half)))
         /\ ValueOf("slli", x, a, b) = IF x = W THEN Word(a * 2^(b % W))
                                       ELSE IF b % W >= Half THEN 0 ELSE Word(sext32(a * 2^(b % W)))
         /\ ValueOf("srli", x, a, b) = IF x = W THEN Word(a \div 2^(b % W))
                                       ELSE IF b % W >= Half THEN 0
                                       ELSE Word(sext32(zext(Half, a) \div 2^(b % W)))
         /\ ValueOf("srai", x, a, b) = IF x = W THEN Word(signed(W, a) \div 2^(b % W))
                                       ELSE IF b % W >= Half THEN 0
                                       ELSE Word(sext32(signed(Half, a) \div 2^(b % W)))
<1>1. PICK r, q : r = Reg(a) /\ q = Reg(b)
  OBVIOUS
<1>2. r.val = a /\ q.val = b
  BY <1>1, RegValue
<1>3. ValueOf("sll", x, a, b) = Word(sext(x, a * 2^(b % x)))
  <2>1. ValueOf("sll", x, a, b) = I("none")!sll(x, r, q).val
    BY <1>1, Zenon DEF ValueOf, Insn
  <2>2. QED BY <1>2, <2>1, Zenon
    DEF I!sll, I!Logic, I!RD, I!Word, Word, I!signed, signed, I!sext, sext, I!zext, zext,
        I!sext32, sext32, I!Half, Half
<1>4. ValueOf("sra", x, a, b) = Word(sext(x, signed(x, a) \div 2^(b % x)))
  <2>1. ValueOf("sra", x, a, b) = I("none")!sra(x, r, q).val
    BY <1>1, Zenon DEF ValueOf, Insn
  <2>2. QED BY <1>2, <2>1, Zenon
    DEF I!sra, I!Logic, I!RD, I!Word, Word, I!signed, signed, I!sext, sext, I!zext, zext,
        I!sext32, sext32, I!Half, Half
<1>5. ValueOf("srl", x, a, b) =
          Word(IF x = W THEN a \div 2^(b % W) ELSE sext32(zext(Half, a) \div 2^(b % Half)))
  <2>1. ValueOf("srl", x, a, b) = I("none")!srl(x, r, q).val
    BY <1>1, Zenon DEF ValueOf, Insn
  <2>2. QED BY <1>2, <2>1, Zenon
    DEF I!srl, I!Logic, I!RD, I!Word, Word, I!signed, signed, I!sext, sext, I!zext, zext,
        I!sext32, sext32, I!Half, Half
<1>6. ValueOf("slli", x, a, b) = IF x = W THEN Word(a * 2^(b % W))
          ELSE IF b % W >= Half THEN 0 ELSE Word(sext32(a * 2^(b % W)))
  <2>1. ValueOf("slli", x, a, b) = I("none")!slli(x, r, q.val).val
    BY <1>1, Zenon DEF ValueOf, Insn
  <2>2. QED BY <1>2, <2>1, Zenon
    DEF I!slli, I!RD, I!illegal, I!SHAMT, I!Word, Word, I!signed, signed, I!sext, sext,
        I!zext, zext, I!sext32, sext32, I!Half, Half
<1>7. ValueOf("srli", x, a, b) = IF x = W THEN Word(a \div 2^(b % W))
          ELSE IF b % W >= Half THEN 0
          ELSE Word(sext32(zext(Half, a) \div 2^(b % W)))
  <2>1. ValueOf("srli", x, a, b) = I("none")!srli(x, r, q.val).val
    BY <1>1, Zenon DEF ValueOf, Insn
  <2>2. QED BY <1>2, <2>1, Zenon
    DEF I!srli, I!RD, I!illegal, I!SHAMT, I!Word, Word, I!signed, signed, I!sext, sext,
        I!zext, zext, I!sext32, sext32, I!Half, Half
<1>8. ValueOf("srai", x, a, b) = IF x = W THEN Word(signed(W, a) \div 2^(b % W))
          ELSE IF b % W >= Half THEN 0
          ELSE Word(sext32(signed(Half, a) \div 2^(b % W)))
  <2>1. ValueOf("srai", x, a, b) = I("none")!srai(x, r, q.val).val
    BY <1>1, Zenon DEF ValueOf, Insn
  <2>2. QED BY <1>2, <2>1, Zenon
    DEF I!srai, I!RD, I!illegal, I!SHAMT, I!Word, Word, I!signed, signed, I!sext, sext,
        I!zext, zext, I!sext32, sext32, I!Half, Half
<1>9. QED BY <1>3, <1>4, <1>5, <1>6, <1>7, <1>8, Zenon


LEMMA ProductValues ==
  ASSUME NEW x, NEW a, NEW b
  PROVE  /\ ValueOf("mulh", x, a, b) =
              Word(IF x = W THEN mulh64(signed(W, a), signed(W, b))
                   ELSE sext32((signed(Half, a) * signed(Half, b)) \div 2^Half))
         /\ ValueOf("mulhsu", x, a, b) =
              Word(IF x = W THEN mulhsu64(signed(W, a), b)
                   ELSE sext32(Word(sext32(a) * zext(Half, b)) \div 2^Half))
         /\ ValueOf("mulhu", x, a, b) =
              Word(IF x = W THEN mulhu64(a, b)
                   ELSE sext32((zext(Half, a) * zext(Half, b)) \div 2^Half))
<1>1. PICK r, q : r = Reg(a) /\ q = Reg(b)
  OBVIOUS
<1>2. r.val = a /\ q.val = b
  BY <1>1, RegValue
<1>3. ValueOf("mulh", x, a, b) =
          Word(IF x = W THEN mulh64(signed(W, a), signed(W, b))
          ELSE sext32((signed(Half, a) * signed(Half, b)) \div 2^Half))
  <2>1. ValueOf("mulh", x, a, b) = I("none")!mulh(x, r, q).val
    BY <1>1, Zenon DEF ValueOf, Insn
  <2>2. /\ I("none")!signed(W, a) = signed(W, a) /\ I("none")!signed(W, b) = signed(W, b)
        /\ I("none")!mulh64(signed(W, a), signed(W, b)) = mulh64(signed(W, a), signed(W, b))
    BY InstanceWords
  <2>3. QED BY <1>2, <2>1, <2>2, Zenon
    DEF I!mulh, I!Arith, I!RD, I!Word, Word, I!signed, signed, I!sext, sext, I!sext32, sext32,
        I!Half, Half
<1>4. ValueOf("mulhsu", x, a, b) =
          Word(IF x = W THEN mulhsu64(signed(W, a), b)
          ELSE sext32(Word(sext32(a) * zext(Half, b)) \div 2^Half))
  <2>1. ValueOf("mulhsu", x, a, b) = I("none")!mulhsu(x, r, q).val
    BY <1>1, Zenon DEF ValueOf, Insn
  <2>2. QED BY <1>2, <2>1, Zenon
    DEF I!mulhsu, I!Arith, I!RD, I!Word, Word, I!signed, signed, I!sext, sext, I!zext,
        zext, I!sext32, sext32, I!Half, Half, I!mulhu64, mulhu64, I!negated, negated,
        I!magnitude, magnitude, I!Bool, Bool, I!mulh64, mulh64, I!mulhsu64, mulhsu64
<1>5. ValueOf("mulhu", x, a, b) =
          Word(IF x = W THEN mulhu64(a, b)
          ELSE sext32((zext(Half, a) * zext(Half, b)) \div 2^Half))
  <2>1. ValueOf("mulhu", x, a, b) = I("none")!mulhu(x, r, q).val
    BY <1>1, Zenon DEF ValueOf, Insn
  <2>2. QED BY <1>2, <2>1, Zenon
    DEF I!mulhu, I!Arith, I!RD, I!Word, Word, I!signed, signed, I!sext, sext, I!zext, zext,
        I!sext32, sext32, I!Half, Half, I!mulhu64, mulhu64, I!negated, negated,
        I!magnitude, magnitude, I!Bool, Bool, I!mulh64, mulh64, I!mulhsu64, mulhsu64
<1>6. QED BY <1>3, <1>4, <1>5, Zenon


LEMMA QuotientValues ==
  ASSUME NEW x, NEW a, NEW b
  PROVE  /\ ValueOf("div", x, a, b) =
              Word(IF signed(x, b) = 0 THEN 2^W - 1
                   ELSE IF signed(x, a) = -(2^(W - 1)) /\ signed(x, b) = -1 THEN signed(x, a)
                   ELSE sext(x, quotient(signed(x, a), signed(x, b))))
         /\ ValueOf("rem", x, a, b) =
              Word(IF signed(x, b) = 0 THEN signed(x, a)
                   ELSE IF signed(x, a) = -(2^(W - 1)) /\ signed(x, b) = -1 THEN 0
                   ELSE sext(x, remainder(signed(x, a), signed(x, b))))
         /\ ValueOf("divu", x, a, b) =
              Word(IF zext(x, b) = 0 THEN 2^W - 1 ELSE sext(x, zext(x, a) \div zext(x, b)))
         /\ ValueOf("remu", x, a, b) =
              Word(IF zext(x, b) = 0 THEN sext(x, a) ELSE sext(x, zext(x, a) % zext(x, b)))
<1>1. PICK r, q : r = Reg(a) /\ q = Reg(b)
  OBVIOUS
<1>2. r.val = a /\ q.val = b
  BY <1>1, RegValue
<1>3. ValueOf("div", x, a, b) =
          Word(IF signed(x, b) = 0 THEN 2^W - 1
          ELSE IF signed(x, a) = -(2^(W - 1)) /\ signed(x, b) = -1 THEN signed(x, a)
          ELSE sext(x, quotient(signed(x, a), signed(x, b))))
  <2>1. ValueOf("div", x, a, b) = I("none")!div(x, r, q).val
    BY <1>1, Zenon DEF ValueOf, Insn
  <2>2. QED BY <1>2, <2>1, Zenon
    DEF I!div, I!Arith, I!RD, I!Word, Word, I!signed, signed, I!sext, sext, I!zext, zext,
        I!sext32, sext32, I!Half, Half, I!quotient, quotient, I!magnitude, magnitude
<1>4. ValueOf("rem", x, a, b) =
          Word(IF signed(x, b) = 0 THEN signed(x, a)
          ELSE IF signed(x, a) = -(2^(W - 1)) /\ signed(x, b) = -1 THEN 0
          ELSE sext(x, remainder(signed(x, a), signed(x, b))))
  <2>1. ValueOf("rem", x, a, b) = I("none")!rem(x, r, q).val
    BY <1>1, Zenon DEF ValueOf, Insn
  <2>2. /\ I("none")!signed(x, a) = signed(x, a) /\ I("none")!signed(x, b) = signed(x, b)
        /\ I("none")!remainder(signed(x, a), signed(x, b)) = remainder(signed(x, a), signed(x, b))
    BY InstanceWords
  <2>3. I("none")!sext(x, remainder(signed(x, a), signed(x, b)))
          = sext(x, remainder(signed(x, a), signed(x, b)))
    BY InstanceWords
  <2>4. QED BY <1>2, <2>1, <2>2, <2>3, Zenon DEF I!rem, I!Arith, I!RD, I!Word, Word
<1>5. ValueOf("divu", x, a, b) =
          Word(IF zext(x, b) = 0 THEN 2^W - 1 ELSE sext(x, zext(x, a) \div zext(x, b)))
  <2>1. ValueOf("divu", x, a, b) = I("none")!divu(x, r, q).val
    BY <1>1, Zenon DEF ValueOf, Insn
  <2>2. QED BY <1>2, <2>1, Zenon
    DEF I!divu, I!Arith, I!RD, I!Word, Word, I!signed, signed, I!sext, sext, I!zext, zext,
        I!sext32, sext32, I!Half, Half
<1>6. ValueOf("remu", x, a, b) =
          Word(IF zext(x, b) = 0 THEN sext(x, a) ELSE sext(x, zext(x, a) % zext(x, b)))
  <2>1. ValueOf("remu", x, a, b) = I("none")!remu(x, r, q).val
    BY <1>1, Zenon DEF ValueOf, Insn
  <2>2. QED BY <1>2, <2>1, Zenon
    DEF I!remu, I!Arith, I!RD, I!Word, Word, I!signed, signed, I!sext, sext, I!zext, zext,
        I!sext32, sext32, I!Half, Half
<1>7. QED BY <1>3, <1>4, <1>5, <1>6, Zenon


LEMMA NarrowValues ==
  ASSUME NEW a, NEW b
  PROVE  /\ ValueOf("addw", W, a, b) = Word(sext32(a + b))
         /\ ValueOf("addiw", W, a, b) = Word(sext32(b + a))
         /\ ValueOf("subw", W, a, b) = Word(sext32(a - b))
         /\ ValueOf("mulw", W, a, b) = Word(sext32(a * b))
         /\ ValueOf("sllw", W, a, b) = Word(sext32(a * 2^(b % Half)))
         /\ ValueOf("srlw", W, a, b) = Word(sext32(zext(Half, a) \div 2^(b % Half)))
         /\ ValueOf("sraw", W, a, b) = Word(sext32(signed(Half, a) \div 2^(b % Half)))
         /\ ValueOf("slliw", W, a, b) = Word(sext32(a * 2^(b % W)))
         /\ ValueOf("srliw", W, a, b) = Word(sext32(zext(Half, a) \div 2^(b % W)))
         /\ ValueOf("sraiw", W, a, b) = Word(sext32(signed(Half, a) \div 2^(b % W)))
         /\ ValueOf("divw", W, a, b) =
              Word(IF signed(Half, b) = 0 THEN 2^W - 1
                   ELSE sext32(quotient(signed(Half, a), signed(Half, b))))
         /\ ValueOf("divuw", W, a, b) =
              Word(IF zext(Half, b) = 0 THEN 2^W - 1 ELSE sext32(zext(Half, a) \div zext(Half, b)))
         /\ ValueOf("remw", W, a, b) =
              Word(IF signed(Half, b) = 0 THEN signed(Half, a)
                   ELSE sext32(remainder(signed(Half, a), signed(Half, b))))
         /\ ValueOf("remuw", W, a, b) =
              Word(IF zext(Half, b) = 0 THEN sext32(a) ELSE sext32(zext(Half, a) % zext(Half, b)))
<1>1. PICK r, q : r = Reg(a) /\ q = Reg(b)
  OBVIOUS
<1>2. r.val = a /\ q.val = b
  BY <1>1, RegValue
<1>3. ValueOf("addw", W, a, b) = Word(sext32(a + b))
  <2>1. ValueOf("addw", W, a, b) = I("none")!addw(W, r, q).val
    BY <1>1, Zenon DEF ValueOf, Insn
  <2>2. QED BY <1>2, <2>1, Zenon
    DEF I!addw, I!Sum, I!RD, I!require_xpr64, I!Word, Word, I!signed, signed, I!sext, sext,
        I!zext, zext, I!sext32, sext32, I!Half, Half
<1>4. ValueOf("addiw", W, a, b) = Word(sext32(b + a))
  <2>1. ValueOf("addiw", W, a, b) = I("none")!addiw(W, r, q.val).val
    BY <1>1, Zenon DEF ValueOf, Insn
  <2>2. QED BY <1>2, <2>1, Zenon
    DEF I!addiw, I!RD, I!require_xpr64, I!Word, Word, I!signed, signed, I!sext, sext,
        I!zext, zext, I!sext32, sext32, I!Half, Half
<1>5. ValueOf("subw", W, a, b) = Word(sext32(a - b))
  <2>1. ValueOf("subw", W, a, b) = I("none")!subw(W, r, q).val
    BY <1>1, Zenon DEF ValueOf, Insn
  <2>2. QED BY <1>2, <2>1, Zenon
    DEF I!subw, I!RD, I!require_xpr64, I!Word, Word, I!signed, signed, I!sext, sext,
        I!zext, zext, I!sext32, sext32, I!Half, Half
<1>6. ValueOf("mulw", W, a, b) = Word(sext32(a * b))
  <2>1. ValueOf("mulw", W, a, b) = I("none")!mulw(W, r, q).val
    BY <1>1, Zenon DEF ValueOf, Insn
  <2>2. QED BY <1>2, <2>1, Zenon
    DEF I!mulw, I!Arith, I!RD, I!require_xpr64, I!Word, Word, I!signed, signed, I!sext,
        sext, I!zext, zext, I!sext32, sext32, I!Half, Half
<1>7. ValueOf("sllw", W, a, b) = Word(sext32(a * 2^(b % Half)))
  <2>1. ValueOf("sllw", W, a, b) = I("none")!sllw(W, r, q).val
    BY <1>1, Zenon DEF ValueOf, Insn
  <2>2. QED BY <1>2, <2>1, Zenon
    DEF I!sllw, I!Logic, I!RD, I!require_xpr64, I!Word, Word, I!signed, signed, I!sext,
        sext, I!zext, zext, I!sext32, sext32, I!Half, Half
<1>8. ValueOf("srlw", W, a, b) = Word(sext32(zext(Half, a) \div 2^(b % Half)))
  <2>1. ValueOf("srlw", W, a, b) = I("none")!srlw(W, r, q).val
    BY <1>1, Zenon DEF ValueOf, Insn
  <2>2. QED BY <1>2, <2>1, Zenon
    DEF I!srlw, I!Logic, I!RD, I!require_xpr64, I!Word, Word, I!signed, signed, I!sext,
        sext, I!zext, zext, I!sext32, sext32, I!Half, Half
<1>9. ValueOf("sraw", W, a, b) = Word(sext32(signed(Half, a) \div 2^(b % Half)))
  <2>1. ValueOf("sraw", W, a, b) = I("none")!sraw(W, r, q).val
    BY <1>1, Zenon DEF ValueOf, Insn
  <2>2. QED BY <1>2, <2>1, Zenon
    DEF I!sraw, I!Logic, I!RD, I!require_xpr64, I!Word, Word, I!signed, signed, I!sext,
        sext, I!zext, zext, I!sext32, sext32, I!Half, Half
<1>10. ValueOf("slliw", W, a, b) = Word(sext32(a * 2^(b % W)))
  <2>1. ValueOf("slliw", W, a, b) = I("none")!slliw(W, r, q.val).val
    BY <1>1, Zenon DEF ValueOf, Insn
  <2>2. QED BY <1>2, <2>1, Zenon
    DEF I!slliw, I!RD, I!require_xpr64, I!SHAMT, I!Word, Word, I!signed, signed, I!sext,
        sext, I!zext, zext, I!sext32, sext32, I!Half, Half
<1>11. ValueOf("srliw", W, a, b) = Word(sext32(zext(Half, a) \div 2^(b % W)))
  <2>1. ValueOf("srliw", W, a, b) = I("none")!srliw(W, r, q.val).val
    BY <1>1, Zenon DEF ValueOf, Insn
  <2>2. QED BY <1>2, <2>1, Zenon
    DEF I!srliw, I!RD, I!require_xpr64, I!SHAMT, I!Word, Word, I!signed, signed, I!sext,
        sext, I!zext, zext, I!sext32, sext32, I!Half, Half
<1>12. ValueOf("sraiw", W, a, b) = Word(sext32(signed(Half, a) \div 2^(b % W)))
  <2>1. ValueOf("sraiw", W, a, b) = I("none")!sraiw(W, r, q.val).val
    BY <1>1, Zenon DEF ValueOf, Insn
  <2>2. QED BY <1>2, <2>1, Zenon
    DEF I!sraiw, I!RD, I!require_xpr64, I!SHAMT, I!Word, Word, I!signed, signed, I!sext,
        sext, I!zext, zext, I!sext32, sext32, I!Half, Half
<1>13. ValueOf("divw", W, a, b) =
          Word(IF signed(Half, b) = 0 THEN 2^W - 1
          ELSE sext32(quotient(signed(Half, a), signed(Half, b))))
  <2>1. ValueOf("divw", W, a, b) = I("none")!divw(W, r, q).val
    BY <1>1, Zenon DEF ValueOf, Insn
  <2>2. QED BY <1>2, <2>1, Zenon
    DEF I!divw, I!Arith, I!RD, I!require_xpr64, I!Word, Word, I!signed, signed, I!sext,
        sext, I!zext, zext, I!sext32, sext32, I!Half, Half, I!quotient, quotient,
        I!magnitude, magnitude
<1>14. ValueOf("divuw", W, a, b) =
          Word(IF zext(Half, b) = 0 THEN 2^W - 1 ELSE sext32(zext(Half, a) \div zext(Half, b)))
  <2>1. ValueOf("divuw", W, a, b) = I("none")!divuw(W, r, q).val
    BY <1>1, Zenon DEF ValueOf, Insn
  <2>2. QED BY <1>2, <2>1, Zenon
    DEF I!divuw, I!Arith, I!RD, I!require_xpr64, I!Word, Word, I!signed, signed, I!sext,
        sext, I!zext, zext, I!sext32, sext32, I!Half, Half
<1>15. ValueOf("remw", W, a, b) =
          Word(IF signed(Half, b) = 0 THEN signed(Half, a)
          ELSE sext32(remainder(signed(Half, a), signed(Half, b))))
  <2>1. ValueOf("remw", W, a, b) = I("none")!remw(W, r, q).val
    BY <1>1, Zenon DEF ValueOf, Insn
  <2>2. /\ I("none")!Half = Half
        /\ I("none")!signed(Half, a) = signed(Half, a) /\ I("none")!signed(Half, b) = signed(Half, b)
        /\ I("none")!remainder(signed(Half, a), signed(Half, b))
              = remainder(signed(Half, a), signed(Half, b))
    BY InstanceWords
  <2>3. I("none")!sext32(remainder(signed(Half, a), signed(Half, b)))
          = sext32(remainder(signed(Half, a), signed(Half, b)))
    BY InstanceWords
  <2>4. QED BY <1>2, <2>1, <2>2, <2>3, Zenon
    DEF I!remw, I!Arith, I!RD, I!require_xpr64, I!Word, Word
<1>16. ValueOf("remuw", W, a, b) =
          Word(IF zext(Half, b) = 0 THEN sext32(a) ELSE sext32(zext(Half, a) % zext(Half, b)))
  <2>1. ValueOf("remuw", W, a, b) = I("none")!remuw(W, r, q).val
    BY <1>1, Zenon DEF ValueOf, Insn
  <2>2. QED BY <1>2, <2>1, Zenon
    DEF I!remuw, I!Arith, I!RD, I!require_xpr64, I!Word, Word, I!signed, signed, I!sext,
        sext, I!zext, zext, I!sext32, sext32, I!Half, Half
<1>17. QED BY <1>3, <1>4, <1>5, <1>6, <1>7, <1>8, <1>9, <1>10, <1>11, <1>12, <1>13, <1>14, <1>15, <1>16, Zenon

\* Low bits, signs and sign extension.
LEMMA WordPowers ==
  \E N \in Positive, H \in Positive, M \in Positive :
     /\ N = 2^W /\ H = 2^Half /\ M = 2^(Half - 1) /\ N = H * H /\ H = 2 * M
     /\ W \in 1 .. W /\ Half \in 1 .. W /\ Half < W /\ W \in Nat /\ Half \in Nat
<1>1. W \in 1 .. W /\ Half \in 1 .. W /\ Half < W /\ W \in Nat /\ Half \in Nat /\ Half - 1 \in 0 .. W
  BY PowersAssumption DEF PowersOfTwo
<1>2. PICK M \in Positive : M = 2^(Half - 1)
  BY <1>1, PowersAssumption DEF PowersOfTwo, Positive
<1>3. 2^Half = 2 * 2^(Half - 1)
  BY <1>1, PowersAssumption DEF PowersOfTwo
<1>4. QED BY <1>1, <1>2, <1>3, HalfWord, PowersAssumption

LEMMA SameLowBits ==
  ASSUME NEW X \in Positive, NEW K \in Positive, NEW n \in Int
  PROVE  (n % (X * K)) % X = n % X
<1>1. PICK N \in Positive : N = X * K
  BY DEF Positive
<1>2. PICK q \in Int, r \in 0 .. N - 1 : r = n % N /\ n = N * q + r
  BY Divided
<1>3. PICK p \in Int, s \in 0 .. X - 1 : s = r % X /\ r = X * p + s
  <2>1. r \in Int
    BY DEF Positive
  <2>2. QED BY <2>1, Divided
<1>4. Splits(n, X, K * q + p, s)
  <2>1. X * (K * q + p) = (X * K) * q + X * p /\ K * q + p \in Int
    BY DEF Positive
  <2>2. (X * K) * q \in Int /\ X * p \in Int
    BY DEF Positive
  <2>3. n = X * (K * q + p) + s
    BY <1>1, <1>2, <1>3, <2>1, <2>2
  <2>4. QED BY <2>1, <2>3 DEF Splits
<1>5. QED BY <1>1, <1>2, <1>3, <1>4, SplitsIs

LEMMA WordOf ==
  ASSUME NEW x \in 1 .. W, NEW n \in Int
  PROVE  /\ Word(n) \in Unsigned /\ Word(n) \in Int /\ zext(x, n) \in 0 .. 2^x - 1
         /\ zext(x, Word(n)) = zext(x, n) /\ signed(x, Word(n)) = signed(x, n)
         /\ sext(x, Word(n)) = sext(x, n) /\ sext(x, n) \in Unsigned /\ sext(x, n) \in Int
         /\ \A v \in Unsigned : Word(v) = v
         /\ Word(sext(x, n)) = sext(x, n) /\ signed(x, sext(x, n)) = signed(x, n)
         /\ sext(x, sext(x, n)) = sext(x, n) /\ zext(x, sext(x, n)) = zext(x, n)
         /\ zext(x, signed(x, n)) = zext(x, n) /\ signed(x, n) \in Int
<1>1. PICK X \in Positive, K \in Positive, M \in Positive :
        /\ X = 2^x /\ K = 2^(W - x) /\ M = 2^(x - 1)
        /\ 2^W = X * K /\ X = 2 * M /\ 2^(W - 1) = M * K
  BY Powers, PowersAssumption
<1>2. PICK N \in Positive : N = X * K
  BY DEF Positive
<1>3. ASSUME NEW v \in Unsigned PROVE Word(v) = v
  BY <1>1, <1>2, Small DEF Word, Unsigned
<1>4. Word(n) \in Unsigned /\ Word(n) \in Int
  <2>1. n % N \in 0 .. N - 1
    BY Divided
  <2>2. QED BY <1>1, <1>2, <2>1 DEF Word, Unsigned
<1>5. zext(x, Word(n)) = zext(x, n)
  <2>1. (n % (X * K)) % X = n % X
    BY SameLowBits
  <2>2. QED BY <1>1, <2>1 DEF zext, Word
<1>6. ASSUME NEW m, zext(x, m) = zext(x, n) PROVE signed(x, m) = signed(x, n) /\ sext(x, m) = sext(x, n)
  BY <1>6, Zenon DEF zext, signed, sext
<1>7. signed(x, Word(n)) = signed(x, n) /\ sext(x, Word(n)) = sext(x, n)
  BY <1>5, <1>6
<1>8. sext(x, n) \in Unsigned /\ zext(x, sext(x, n)) = zext(x, n)
  BY SextCorrect, PowersAssumption
<1>9. sext(x, n) \in Int
  BY <1>1, <1>2, <1>8 DEF Unsigned
<1>10. PICK r \in 0 .. X - 1 : r = n % X
  BY Divided
<1>11. signed(x, n) = (IF r >= M THEN r - X ELSE r) /\ zext(x, n) = r
  BY <1>1, <1>10 DEF signed, zext
<1>12. zext(x, signed(x, n)) = r /\ signed(x, n) \in Int
  <2>1. CASE r >= M
    <3>1. Splits(r - X, X, -1, r)
      BY DEF Splits, Positive
    <3>2. (r - X) % X = r /\ r - X \in Int
      BY <3>1, SplitsIs DEF Splits
    <3>3. QED BY <1>1, <1>11, <2>1, <3>2 DEF zext
  <2>2. CASE ~ (r >= M)
    <3>1. r % X = r /\ r \in Int
      BY Small DEF Positive
    <3>2. QED BY <1>1, <1>11, <2>2, <3>1 DEF zext
  <2>3. QED BY <2>1, <2>2
<1>13. zext(x, n) \in 0 .. 2^x - 1
  BY <1>1, <1>11
<1>14. QED BY <1>3, <1>4, <1>5, <1>6, <1>7, <1>8, <1>9, <1>11, <1>12, <1>13

LEMMA InWords ==
  ASSUME NEW x \in 1 .. W, NEW v \in Int
  PROVE  /\ U(x, v) = zext(x, v) /\ S(x, v) = signed(x, v)
         /\ U(W, v) = Word(v) /\ (Canonical(x, v) <=> v = sext(x, v))
<1>1. PICK X \in Positive, M \in Positive : X = 2^x /\ M = 2^(x - 1)
  BY Powers, PowersAssumption
<1>2. PICK r \in 0 .. X - 1 : r = v % X
  BY Divided
<1>3. U(x, v) = r /\ zext(x, v) = r
  BY <1>1, <1>2 DEF U, zext
<1>4. S(x, v) = IF r < M THEN r ELSE r - X
  BY <1>1, <1>3 DEF S
<1>5. signed(x, v) = IF r >= M THEN r - X ELSE r
  BY <1>1, <1>2 DEF signed
<1>6. S(x, v) = signed(x, v)
  BY <1>4, <1>5 DEF Positive
<1>7. \A n : U(W, n) = Word(n)
  BY DEF U, Word
<1>8. QED BY <1>3, <1>6, <1>7 DEF Canonical, sext

\* A word is sign-extended from half of its bits when it is small or close to
\* the top, that is when its bits from the sign of the half on are the same.
LEMMA ExtendedRange ==
  ASSUME NEW v \in Unsigned
  PROVE  v = sext(Half, v) <=> v < 2^(Half - 1) \/ v >= 2^W - 2^(Half - 1)
<1>1. PICK N \in Positive, H \in Positive, M \in Positive :
        /\ N = 2^W /\ H = 2^Half /\ M = 2^(Half - 1) /\ N = H * H /\ H = 2 * M
  BY WordPowers
<1>2. v \in Nat /\ v < N /\ v \in Int
  BY <1>1 DEF Unsigned, Positive
<1>3. PICK q \in Int, r \in 0 .. H - 1 : r = v % H /\ v = H * q + r
  BY <1>2, Divided
<1>4. N >= H
  BY <1>1 DEF Positive
<1>5. signed(Half, v) = IF r >= M THEN r - H ELSE r
  BY <1>1, <1>3 DEF signed
<1>6. sext(Half, v) = IF r >= M THEN N + r - H ELSE r
  <2>1. (r - H) % N = N + r - H
    <3>1. Splits(r - H, N, -1, N + r - H)
      BY <1>4 DEF Splits, Positive
    <3>2. QED BY <3>1, SplitsIs
  <2>2. r % N = r
    <3>1. r \in 0 .. N - 1
      BY <1>4 DEF Positive
    <3>2. QED BY <3>1, Small
  <2>3. QED BY <1>1, <1>5, <2>1, <2>2 DEF sext, Word
<1>7. ASSUME v < M PROVE r = v
  <2>1. v \in 0 .. H - 1
    BY <1>1, <1>2, <1>7 DEF Positive
  <2>2. QED BY <1>3, <2>1, Small
<1>8. ASSUME v >= N - M PROVE r = v - N + H
  <2>1. Splits(v, H, H - 1, v - N + H)
    <3>1. v - N + H \in 0 .. H - 1
      BY <1>1, <1>2, <1>8 DEF Positive
    <3>2. H * (H - 1) = H * H - H /\ H * H \in Int
      BY DEF Positive
    <3>3. v = H * (H - 1) + (v - N + H)
      BY <1>1, <1>2, <3>2 DEF Positive
    <3>4. H - 1 \in Int
      BY DEF Positive
    <3>5. QED BY <1>2, <3>1, <3>3, <3>4 DEF Splits
  <2>2. QED BY <1>3, <2>1, SplitsIs
<1>9. CASE v < M
  BY <1>1, <1>2, <1>6, <1>7, <1>9 DEF Positive
<1>10. CASE v >= N - M
  <2>1. r >= M /\ N + r - H = v
    BY <1>1, <1>2, <1>8, <1>10 DEF Positive
  <2>2. QED BY <1>1, <1>6, <1>10, <2>1
<1>11. CASE ~ (v < M) /\ ~ (v >= N - M)
  <2>1. v # r \/ r >= M
    BY <1>2, <1>11 DEF Positive
  <2>2. v # N + r - H \/ ~ (r >= M)
    BY <1>1, <1>2, <1>11 DEF Positive
  <2>3. QED BY <1>1, <1>6, <1>11, <2>1, <2>2
<1>12. QED BY <1>9, <1>10, <1>11

Flat(v) == \A j, k \in Half - 1 .. W - 1 : BitOf(v, j) = 1 <=> BitOf(v, k) = 1

LEMMA ExtendedFlat ==
  ASSUME PowersHold, NEW v \in Unsigned
  PROVE  v = sext(Half, v) <=> Flat(v)
<1>1. PICK m \in 0 .. W : m = Half - 1 /\ m <= W - 1 /\ W \in Nat
  <2>1. Half - 1 \in 0 .. W /\ Half - 1 <= W - 1 /\ W \in Nat
    BY WordPowers
  <2>2. QED BY <2>1
<1>2. v \in 0 .. 2^W - 1
  BY DEF Unsigned
<1>3. v < 2^m <=> \A k \in m .. W - 1 : BitOf(v, k) # 1
  BY <1>1, <1>2, HighClear
<1>4. v >= 2^W - 2^m <=> \A k \in m .. W - 1 : BitOf(v, k) = 1
  BY <1>1, <1>2, HighSet
<1>5. v = sext(Half, v) <=> v < 2^m \/ v >= 2^W - 2^m
  BY <1>1, ExtendedRange
<1>6. QED BY <1>1, <1>3, <1>4, <1>5, Zenon DEF Flat

\* The bitwise instructions work bit by bit, so they keep that.
LEMMA OfBits ==
  ASSUME PowersHold, NEW B
  PROVE  I("none")!ofBits(B) \in Unsigned /\ HasBits(I("none")!ofBits(B), W, B)
<1>1. W \in Nat
  BY WordPowers
<1>2. \E v \in 0 .. 2^W - 1 : HasBits(v, W, B)
  BY <1>1, BitsExist
<1>3. I("none")!ofBits(B) = CHOOSE v \in 0 .. 2^W - 1 : HasBits(v, W, B)
  BY Zenon DEF I!ofBits, HasBits, BitOf
<1>4. QED BY <1>2, <1>3, Zenon DEF Unsigned

BitByBit(a, b, v) ==
    \A j, k \in 0 .. W - 1 :
        /\ BitOf(a, j) = 1 <=> BitOf(a, k) = 1
        /\ BitOf(b, j) = 1 <=> BitOf(b, k) = 1
        => (BitOf(v, j) = 1 <=> BitOf(v, k) = 1)

LEMMA BitwiseValues ==
  ASSUME PowersHold, NEW x, NEW a, NEW b, NEW o \in {"and", "or", "xor", "andi", "ori", "xori"}
  PROVE  \E v \in Unsigned : ValueOf(o, x, a, b) = Word(v) /\ BitByBit(a, b, v)
<1>1. PICK r, q : r = Reg(a) /\ q = Reg(b)
  OBVIOUS
<1>2. r.val = a /\ q.val = b
  BY <1>1, RegValue
<1> DEFINE A == I("none")!bits(a)
           B == I("none")!bits(b)
<1>3. PICK C \in {A \cap B, B \cap A, A \cup B, B \cup A, I("none")!BitXor(A, B), I("none")!BitXor(B, A)} :
         ValueOf(o, x, a, b) = Word(I("none")!ofBits(C))
  <2> HIDE DEF A, B
  <2>1. CASE o = "and"
    <3>1. ValueOf(o, x, a, b) = I("none")!and(x, r, q).val
      BY <1>1, <2>1, Zenon DEF ValueOf, Insn
    <3>2. QED BY <1>2, <3>1, Zenon DEF I!and, I!Logic, I!RD, I!Word, Word, A, B
  <2>2. CASE o = "or"
    <3>1. ValueOf(o, x, a, b) = I("none")!or(x, r, q).val
      BY <1>1, <2>2, Zenon DEF ValueOf, Insn
    <3>2. QED BY <1>2, <3>1, Zenon DEF I!or, I!Logic, I!RD, I!Word, Word, A, B
  <2>3. CASE o = "xor"
    <3>1. ValueOf(o, x, a, b) = I("none")!xor(x, r, q).val
      BY <1>1, <2>3, Zenon DEF ValueOf, Insn
    <3>2. QED BY <1>2, <3>1, Zenon DEF I!xor, I!Logic, I!RD, I!Word, Word, A, B
  <2>4. CASE o = "andi"
    <3>1. ValueOf(o, x, a, b) = I("none")!andi(x, r, q.val).val
      BY <1>1, <2>4, Zenon DEF ValueOf, Insn
    <3>2. QED BY <1>2, <3>1, Zenon DEF I!andi, I!RD, I!Word, Word, A, B
  <2>5. CASE o = "ori"
    <3>1. ValueOf(o, x, a, b) = I("none")!ori(x, r, q.val).val
      BY <1>1, <2>5, Zenon DEF ValueOf, Insn
    <3>2. QED BY <1>2, <3>1, Zenon DEF I!ori, I!RD, I!Word, Word, A, B
  <2>6. CASE o = "xori"
    <3>1. ValueOf(o, x, a, b) = I("none")!xori(x, r, q.val).val
      BY <1>1, <2>6, Zenon DEF ValueOf, Insn
    <3>2. QED BY <1>2, <3>1, Zenon DEF I!xori, I!RD, I!Word, Word, A, B
  <2>7. QED BY <2>1, <2>2, <2>3, <2>4, <2>5, <2>6
<1>4. \A k \in 0 .. W - 1 : (k \in A <=> BitOf(a, k) = 1) /\ (k \in B <=> BitOf(b, k) = 1)
  BY DEF I!bits, BitOf
<1> HIDE DEF A, B
<1>5. \A j, k : (j \in A <=> k \in A) /\ (j \in B <=> k \in B) => (j \in C <=> k \in C)
  BY <1>3 DEF I!BitXor
<1>6. PICK v \in Unsigned : v = I("none")!ofBits(C) /\ HasBits(v, W, C)
  BY OfBits
<1>7. BitByBit(a, b, v)
  BY <1>4, <1>5, <1>6 DEF BitByBit, HasBits
<1>8. QED BY <1>3, <1>6, <1>7

LEMMA BitwiseExtended ==
  ASSUME PowersHold, NEW a \in Unsigned, NEW b \in Unsigned, a = sext(Half, a), b = sext(Half, b),
         NEW o \in {"and", "or", "xor", "andi", "ori", "xori"}
  PROVE  ValueOf(o, Half, a, b) = sext(Half, ValueOf(o, Half, a, b))
<1>1. PICK v \in Unsigned : ValueOf(o, Half, a, b) = Word(v) /\ BitByBit(a, b, v)
  BY BitwiseValues
<1>2. Word(v) = v
  BY WordPowers, WordOf
<1>3. Flat(a) /\ Flat(b)
  BY ExtendedFlat
<1>4. \A k \in Half - 1 .. W - 1 : k \in 0 .. W - 1
  BY WordPowers
<1>5. Flat(v)
  BY <1>1, <1>3, <1>4 DEF Flat, BitByBit
<1>6. QED BY <1>1, <1>2, <1>5, ExtendedFlat

\* The low bits of what the instructions compute.
LEMMA LowOfSext ==
  ASSUME NEW x \in 1 .. W, NEW n \in Int
  PROVE  zext(x, Word(sext(x, n))) = zext(x, n) /\ zext(x, Word(n)) = zext(x, n)
         /\ Word(sext(x, n)) = sext(x, n)
BY WordOf

LEMMA SumsComputed ==
  ASSUME NEW x \in 1 .. W, NEW a \in Int, NEW b \in Int
  PROVE  /\ zext(x, ValueOf("add", x, a, b)) = zext(x, a + b)
         /\ zext(x, ValueOf("addi", x, a, b)) = zext(x, a + b)
         /\ zext(x, ValueOf("sub", x, a, b)) = zext(x, a - b)
         /\ zext(x, ValueOf("mul", x, a, b)) = zext(x, a * b)
         /\ zext(x, ValueOf("slt", x, a, b)) = zext(x, IF signed(x, a) < signed(x, b) THEN 1 ELSE 0)
         /\ zext(x, ValueOf("sltu", x, a, b)) = zext(x, IF zext(x, a) < zext(x, b) THEN 1 ELSE 0)
<1>1. a + b \in Int /\ a - b \in Int /\ a * b \in Int
  OBVIOUS
<1>2. zext(x, ValueOf("add", x, a, b)) = zext(x, a + b)
      /\ zext(x, ValueOf("addi", x, a, b)) = zext(x, a + b)
  BY <1>1, SumValues, LowOfSext
<1>3. zext(x, ValueOf("sub", x, a, b)) = zext(x, a - b)
      /\ zext(x, ValueOf("mul", x, a, b)) = zext(x, a * b)
  BY <1>1, SumValues, LowOfSext
<1>4. less(x, a, b) <=> signed(x, a) < signed(x, b)
  BY CompareCorrect, PowersAssumption
<1>5. lessWord(x, a, b) <=> zext(x, a) < zext(x, b)
  BY CompareCorrect, PowersAssumption
<1>6. Bool(less(x, a, b)) = (IF signed(x, a) < signed(x, b) THEN 1 ELSE 0)
      /\ Bool(lessWord(x, a, b)) = (IF zext(x, a) < zext(x, b) THEN 1 ELSE 0)
  BY <1>4, <1>5, Zenon DEF Bool
<1>7. PICK s \in {0, 1}, t \in {0, 1} : s = Bool(less(x, a, b)) /\ t = Bool(lessWord(x, a, b))
  BY <1>4, <1>5 DEF Bool
<1>8. zext(x, Word(s)) = zext(x, s) /\ zext(x, Word(t)) = zext(x, t)
  BY LowOfSext
<1>9. QED BY <1>2, <1>3, <1>6, <1>7, <1>8, SumValues

LEMMA ShiftAmount ==
  ASSUME NEW x \in {Half, W}, NEW b \in Int
  PROVE  /\ 2^(b % x) \in Positive
         /\ b % W < x => b % x = b % W
         /\ b % W \in 0 .. W - 1 /\ x \in 1 .. W
<1>1. PICK h \in Positive : h = Half /\ W = h + h /\ W \in Nat
  BY PowersAssumption DEF PowersOfTwo, Positive
<1>2. x \in Positive /\ x \in 1 .. W /\ W \in Positive
  BY <1>1 DEF Positive
<1>3. b % x \in 0 .. x - 1 /\ b % W \in 0 .. W - 1
  BY <1>2, Divided
<1>4. b % x \in 0 .. W
  BY <1>2, <1>3
<1>5. 2^(b % x) \in Positive
  BY <1>4, PowersAssumption DEF PowersOfTwo, Positive
<1>6. ASSUME b % W < x PROVE b % x = b % W
  <2>1. CASE x = W
    BY <2>1
  <2>2. CASE x = h
    <3>1. (b % (h * 2)) % h = b % h
      <4>1. 2 \in Positive
        BY DEF Positive
      <4>2. QED BY <4>1, SameLowBits
    <3>2. h * 2 = W
      BY <1>1 DEF Positive
    <3>3. b % W \in 0 .. h - 1
      BY <1>1, <1>3, <1>6, <2>2 DEF Positive
    <3>4. (b % W) % h = b % W
      BY <3>3, Small
    <3>5. QED BY <2>2, <3>1, <3>2, <3>4
  <2>3. QED BY <1>1, <2>1, <2>2
<1>7. QED BY <1>2, <1>3, <1>5, <1>6

LEMMA ShiftsComputed ==
  ASSUME NEW x \in {Half, W}, NEW a \in Unsigned, NEW b \in Int, NEW k, k = b % x
  PROVE  /\ zext(x, ValueOf("sll", x, a, b)) = zext(x, a * 2^k)
         /\ zext(x, ValueOf("srl", x, a, b)) = zext(x, zext(x, a) \div 2^k)
         /\ zext(x, ValueOf("sra", x, a, b)) = zext(x, signed(x, a) \div 2^k)
         /\ b % W < x =>
               /\ zext(x, ValueOf("slli", x, a, b)) = zext(x, a * 2^k)
               /\ zext(x, ValueOf("srli", x, a, b)) = zext(x, zext(x, a) \div 2^k)
               /\ zext(x, ValueOf("srai", x, a, b)) = zext(x, signed(x, a) \div 2^k)
<1>1. PICK D \in Positive : D = 2^k
  BY ShiftAmount
<1>2. x \in 1 .. W /\ (b % W < x => k = b % W) /\ b % W \in 0 .. W - 1
  BY ShiftAmount
<1>3. a \in Int /\ a * D \in Int /\ zext(x, a) \in Int /\ signed(x, a) \in Int
  <2>1. a \in Int
    BY WordPowers DEF Unsigned
  <2>2. zext(x, a) \in Int /\ signed(x, a) \in Int
    BY <1>2, <2>1, Shifted, PowersAssumption
  <2>3. a * D \in Int
    BY <2>1 DEF Positive
  <2>4. QED BY <2>1, <2>2, <2>3
<1>4. zext(x, a) \div D \in Int /\ signed(x, a) \div D \in Int
  BY <1>3, Divided
<1>5. zext(x, ValueOf("sll", x, a, b)) = zext(x, a * 2^k)
      /\ zext(x, ValueOf("sra", x, a, b)) = zext(x, signed(x, a) \div 2^k)
  BY <1>1, <1>2, <1>3, <1>4, ShiftValues, LowOfSext
<1>6. CASE x = W
  <2>1. zext(W, a) = a
    <3>1. Word(a) = a
      BY WordPowers, WordOf
    <3>2. QED BY <3>1 DEF zext, Word
  <2>2. ValueOf("srl", x, a, b) = Word(zext(x, a) \div D)
    BY <1>1, <1>6, <2>1, ShiftValues
  <2>3. /\ ValueOf("slli", x, a, b) = Word(a * D)
        /\ ValueOf("srli", x, a, b) = Word(zext(x, a) \div D)
        /\ ValueOf("srai", x, a, b) = Word(signed(x, a) \div D)
    BY <1>1, <1>6, <2>1, ShiftValues
  <2>4. QED BY <1>1, <1>2, <1>3, <1>4, <1>5, <2>2, <2>3, LowOfSext
<1>7. CASE x # W
  <2>1. x = Half
    BY <1>7
  <2>2. ValueOf("srl", x, a, b) = Word(sext(x, zext(x, a) \div D))
    BY <1>1, <1>7, <2>1, ShiftValues DEF sext32
  <2>3. ASSUME b % W < x
        PROVE  /\ ValueOf("slli", x, a, b) = Word(sext(x, a * D))
               /\ ValueOf("srli", x, a, b) = Word(sext(x, zext(x, a) \div D))
               /\ ValueOf("srai", x, a, b) = Word(sext(x, signed(x, a) \div D))
    <3>1. ~ (b % W >= Half) /\ D = 2^(b % W)
      BY <1>1, <1>2, <2>1, <2>3
    <3>2. QED BY <1>7, <2>1, <3>1, ShiftValues DEF sext32
  <2>4. QED BY <1>1, <1>2, <1>3, <1>4, <1>5, <2>2, <2>3, LowOfSext
<1>8. QED BY <1>6, <1>7

LEMMA AddMultiple ==
  ASSUME NEW N \in Positive, NEW k \in Int, NEW m \in Int
  PROVE  (N * k + m) % N = m % N
<1>1. PICK q \in Int, r \in 0 .. N - 1 : r = m % N /\ m = N * q + r
  BY Divided
<1>2. Splits(N * k + m, N, k + q, r)
  <2>1. N * (k + q) = N * k + N * q /\ N * k \in Int /\ N * q \in Int
    BY DEF Positive
  <2>2. N * k + m = N * (k + q) + r
    BY <1>1, <2>1
  <2>3. QED BY <2>1, <2>2 DEF Splits
<1>3. QED BY <1>1, <1>2, SplitsIs

\* Cutting a factor or a product to a word loses nothing of its high half.
LEMMA CutProduct ==
  ASSUME NEW H \in Positive, NEW s \in Int, NEW z \in Int
  PROVE  /\ ((s % (H * H)) * z) % (H * H) = (s * z) % (H * H)
         /\ ((((s % (H * H)) * z) % (H * H)) \div H) % H = ((s * z) \div H) % H
<1>1. PICK N \in Positive : N = H * H
  BY DEF Positive
<1>2. PICK q \in Int, r \in 0 .. N - 1 : r = s % N /\ s = N * q + r
  BY Divided
<1>3. (r * z) % N = (s * z) % N
  <2>1. s * z = N * (q * z) + r * z /\ q * z \in Int /\ r * z \in Int
    <3>1. r \in Int
      BY DEF Positive
    <3>2. (N * q + r) * z = N * (q * z) + r * z
      BY <3>1 DEF Positive
    <3>3. QED BY <1>2, <3>1, <3>2
  <2>2. QED BY <2>1, AddMultiple
<1>4. PICK m \in Int : m = s * z
  OBVIOUS
<1>5. PICK p \in Int, t \in 0 .. N - 1 : t = m % N /\ m = N * p + t
  BY Divided
<1>6. PICK u \in Int, v \in 0 .. H - 1 : t = H * u + v /\ u = t \div H
  <2>1. t \in Int
    BY DEF Positive
  <2>2. QED BY <2>1, Divided
<1>7. Splits(m, H, H * p + u, v)
  <2>1. H * (H * p + u) = (H * H) * p + H * u /\ H * p + u \in Int
    BY DEF Positive
  <2>2. (H * H) * p \in Int /\ H * u \in Int
    BY DEF Positive
  <2>3. m = H * (H * p + u) + v
    BY <1>1, <1>5, <1>6, <2>1, <2>2
  <2>4. QED BY <2>1, <2>3 DEF Splits
<1>8. m \div H = H * p + u
  BY <1>7, SplitsIs
<1>9. (H * p + u) % H = u % H
  BY AddMultiple
<1>10. ((m % N) \div H) % H = (m \div H) % H
  BY <1>5, <1>6, <1>8, <1>9
<1>11. QED BY <1>1, <1>2, <1>3, <1>4, <1>10

LEMMA SignedRange ==
  ASSUME NEW x \in 1 .. W, NEW n \in Int
  PROVE  signed(x, n) \in -(2^(x - 1)) .. 2^(x - 1) - 1
<1>1. PICK X \in Positive, M \in Positive : X = 2^x /\ M = 2^(x - 1) /\ X = 2 * M
  BY Powers, PowersAssumption
<1>2. PICK r \in 0 .. X - 1 : r = n % X
  BY Divided
<1>3. signed(x, n) = IF r >= M THEN r - X ELSE r
  BY <1>1, <1>2 DEF signed
<1>4. QED BY <1>1, <1>3 DEF Positive

LEMMA ProductsComputed ==
  ASSUME NEW x \in {Half, W}, NEW a \in Unsigned, NEW b \in Unsigned
  PROVE  /\ zext(x, ValueOf("mulh", x, a, b)) = zext(x, (signed(x, a) * signed(x, b)) \div 2^x)
         /\ zext(x, ValueOf("mulhsu", x, a, b)) = zext(x, (signed(x, a) * zext(x, b)) \div 2^x)
         /\ zext(x, ValueOf("mulhu", x, a, b)) = zext(x, (zext(x, a) * zext(x, b)) \div 2^x)
<1>1. PICK N \in Positive, H \in Positive :
         N = 2^W /\ H = 2^Half /\ N = H * H /\ W \in 1 .. W /\ Half \in 1 .. W
  BY WordPowers
<1>2. a \in Int /\ b \in Int /\ x \in 1 .. W
  BY <1>1 DEF Unsigned
<1>3. PICK s \in Int, t \in Int, u \in Int, v \in Int :
         s = signed(x, a) /\ t = signed(x, b) /\ u = zext(x, a) /\ v = zext(x, b)
  BY <1>2, Shifted, PowersAssumption
<1>4. s * t \in Int /\ s * v \in Int /\ u * v \in Int
  OBVIOUS
<1>5. CASE x = W
  <2>1. s \in Signed /\ t \in Signed
    BY <1>2, <1>3, <1>5, SignedRange DEF Signed
  <2>2. u = a /\ v = b
    <3>1. Word(a) = a /\ Word(b) = b
      BY <1>1, WordOf
    <3>2. QED BY <1>3, <1>5, <3>1 DEF zext, Word
  <2>3. PICK m \in Int, n \in Int, k \in Int :
           m = (s * t) \div 2^W /\ n = (s * v) \div 2^W /\ k = (u * v) \div 2^W
    BY <1>1, <1>4, Divided
  <2>4. mulh64(s, t) = Word(m) /\ mulhsu64(s, b) = Word(n) /\ mulhu64(a, b) = k
    BY <2>1, <2>2, <2>3, MulhCorrect, MulhsuCorrect, MulhuCorrect, PowersAssumption
  <2>5. /\ ValueOf("mulh", x, a, b) = Word(Word(m)) /\ ValueOf("mulhsu", x, a, b) = Word(Word(n))
        /\ ValueOf("mulhu", x, a, b) = Word(k)
    BY <1>3, <1>5, <2>4, ProductValues
  <2>6. ASSUME NEW i \in Int PROVE zext(x, Word(Word(i))) = zext(x, i) /\ zext(x, Word(i)) = zext(x, i)
    BY <1>2, WordOf
  <2>7. QED BY <1>3, <1>5, <2>3, <2>5, <2>6
<1>6. CASE x # W
  <2>1. x = Half
    BY <1>6
  <2>2. PICK m \in Int, n \in Int, k \in Int :
           m = (s * t) \div 2^Half /\ n = (s * v) \div 2^Half /\ k = (u * v) \div 2^Half
    BY <1>1, <1>4, Divided
  <2>3. /\ ValueOf("mulh", x, a, b) = Word(sext(x, m)) /\ ValueOf("mulhu", x, a, b) = Word(sext(x, k))
    BY <1>3, <1>6, <2>1, <2>2, ProductValues DEF sext32
  <2>4. PICK c \in Int : c = Word(sext32(a) * zext(Half, b)) \div 2^Half /\ zext(x, c) = zext(x, n)
    <3>1. sext32(a) = s % (H * H)
      BY <1>1, <1>3, <2>1 DEF sext32, sext, Word
    <3>2. Word(sext32(a) * v) \div 2^Half = (((s % (H * H)) * v) % (H * H)) \div H
      BY <1>1, <3>1 DEF Word
    <3>3. ((((s % (H * H)) * v) % (H * H)) \div H) % H = n % H
      <4>1. ((((s % (H * H)) * v) % (H * H)) \div H) % H = ((s * v) \div H) % H
        BY CutProduct
      <4>2. n = (s * v) \div H
        BY <1>1, <2>2
      <4>3. QED BY <4>1, <4>2
    <3>4. PICK d \in Int : d = s % N
      BY Divided
    <3>5. d * v \in Int
      OBVIOUS
    <3>6. PICK e \in Int : e = (d * v) % N
      BY <3>5, Divided
    <3>7. PICK c \in Int : c = e \div H
      BY Divided
    <3>8. c = (((s % (H * H)) * v) % (H * H)) \div H
      BY <1>1, <3>4, <3>6, <3>7
    <3>9. c = Word(sext32(a) * v) \div 2^Half /\ c % H = n % H
      BY <3>2, <3>3, <3>8
    <3>10. QED BY <1>1, <1>3, <2>1, <3>9 DEF zext
  <2>5. ValueOf("mulhsu", x, a, b) = Word(sext(x, c))
    BY <1>3, <1>6, <2>1, <2>4, ProductValues DEF sext32
  <2>6. QED BY <1>2, <1>3, <2>1, <2>2, <2>3, <2>4, <2>5, LowOfSext
<1>7. QED BY <1>5, <1>6

\* A division of C stays within the range of its dividend.
LEMMA QuotientWithin ==
  ASSUME NEW M \in Positive, NEW s \in -M .. M - 1, NEW t \in -M .. M - 1, t # 0
  PROVE  /\ s \in Int /\ t \in Int /\ quotient(s, t) \in -M .. M
         /\ remainder(s, t) \in -M + 1 .. M - 1
<1>1. s \in Int /\ t \in Int
  BY DEF Positive
<1>2. PICK m \in Nat, n \in Positive : m = magnitude(s) /\ n = magnitude(t) /\ m <= M /\ n <= M
  BY <1>1 DEF magnitude, Positive
<1>3. PICK q \in Int, r \in 0 .. n - 1 : q = m \div n /\ m = n * q + r
  <2>1. m \in Int
    OBVIOUS
  <2>2. QED BY <2>1, Divided
<1>4. q \in 0 .. m
  <2>1. ASSUME q < 0 PROVE FALSE
    <3>1. n * q <= -n
      BY <2>1 DEF Positive
    <3>2. n * q \in Int
      BY DEF Positive
    <3>3. QED BY <1>3, <3>1, <3>2 DEF Positive
  <2>2. n * q >= q
    BY <2>1 DEF Positive
  <2>3. n * q \in Int
    BY DEF Positive
  <2>4. QED BY <1>3, <2>1, <2>2, <2>3 DEF Positive
<1>5. quotient(s, t) = q \/ quotient(s, t) = -q
  BY <1>2, <1>3 DEF quotient
<1>6. remainder(s, t) \in Int /\ magnitude(remainder(s, t)) < magnitude(t)
  BY <1>1, DivisionCorrect
<1>7. remainder(s, t) \in -M + 1 .. M - 1
  BY <1>2, <1>6 DEF magnitude, Positive
<1>8. QED BY <1>1, <1>2, <1>4, <1>5, <1>7 DEF Positive

LEMMA SignedOf ==
  ASSUME NEW x \in 1 .. W, NEW M \in Positive, M = 2^(x - 1)
  PROVE  /\ 2^x = 2 * M
         /\ \A s \in -M .. M - 1 : signed(x, s) = s
         /\ signed(x, M) = -M
<1>1. PICK X \in Positive : X = 2^x /\ X = 2 * M
  BY Powers, PowersAssumption
<1>2. ASSUME NEW s \in -M .. M - 1 PROVE signed(x, s) = s
  <2>1. CASE s >= 0
    <3>1. s % X = s
      BY <1>1, <2>1 DEF Positive
    <3>2. QED BY <1>1, <3>1 DEF signed, Positive
  <2>2. CASE s < 0
    <3>1. Splits(s, X, -1, s + X)
      BY <1>1, <2>2 DEF Splits, Positive
    <3>2. s % X = s + X
      BY <3>1, SplitsIs
    <3>3. QED BY <1>1, <2>2, <3>2 DEF signed, Positive
  <2>3. QED BY <2>1, <2>2 DEF Positive
<1>3. signed(x, M) = -M
  <2>1. M % X = M
    BY <1>1 DEF Positive
  <2>2. QED BY <1>1, <2>1 DEF signed, Positive
<1>4. QED BY <1>1, <1>2, <1>3

LEMMA AllOnes ==
  ASSUME NEW x \in 1 .. W
  PROVE  2^W - 1 \in Unsigned /\ zext(x, 2^W - 1) = 2^x - 1
<1>0. PICK X \in Positive, K \in Positive : X = 2^x /\ 2^W = X * K
  BY Powers, PowersAssumption
<1>1. PICK N \in Positive : N = 2^W /\ X = 2^x /\ N = X * K
  BY <1>0 DEF Positive
<1>2. Splits(N - 1, X, K - 1, X - 1)
  <2>1. N - 1 = X * (K - 1) + (X - 1)
    BY <1>1 DEF Positive
  <2>2. QED BY <2>1 DEF Splits, Positive
<1>3. (N - 1) % X = X - 1
  BY <1>2, SplitsIs
<1>4. QED BY <1>1, <1>3 DEF zext, Unsigned, Positive

LEMMA SignedDivides ==
  ASSUME NEW x \in {Half, W}, NEW a \in Unsigned, NEW b \in Unsigned
  PROVE  Divides(x, signed(x, a), signed(x, b),
                 signed(x, ValueOf("div", x, a, b)), signed(x, ValueOf("rem", x, a, b)))
<1>1. x \in 1 .. W /\ a \in Int /\ b \in Int /\ W \in 1 .. W
  BY WordPowers DEF Unsigned
<1>2. PICK M \in Positive : M = 2^(x - 1) /\ 2^x = 2 * M
  BY <1>1, Powers, PowersAssumption
<1>3. PICK s \in -M .. M - 1, t \in -M .. M - 1 : s = signed(x, a) /\ t = signed(x, b)
  BY <1>1, <1>2, SignedRange
<1>4. s \in Int /\ t \in Int /\ 0 \in -M .. M - 1
  BY DEF Positive
<1>5. PICK X \in Positive : X = 2^x /\ X = 2 * M
  BY <1>2 DEF Positive
<1>6. \A i \in Int : U(x, i) = zext(x, i) /\ zext(x, signed(x, i)) = zext(x, i)
  BY <1>1, WordOf, InWords
<1>7. \A i \in Int : /\ signed(x, Word(i)) = signed(x, i) /\ signed(x, i) \in Int
                     /\ signed(x, Word(sext(x, i))) = signed(x, i)
  <2>1. ASSUME NEW i \in Int
        PROVE  /\ signed(x, Word(i)) = signed(x, i) /\ signed(x, i) \in Int
               /\ Word(sext(x, i)) = sext(x, i) /\ signed(x, sext(x, i)) = signed(x, i)
    BY <1>1, WordOf
  <2>2. QED BY <2>1
<1>8. signed(x, 0) = 0 /\ signed(x, s) = s /\ signed(x, M) = -M
  BY <1>1, <1>2, <1>4, SignedOf
<1>9. CASE t = 0
  <2>1. ValueOf("div", x, a, b) = Word(2^W - 1) /\ ValueOf("rem", x, a, b) = Word(s)
    BY <1>3, <1>9, QuotientValues
  <2>2. PICK n \in Int : n = 2^W - 1 /\ zext(x, n) = 2^x - 1
    BY <1>1, AllOnes, WordPowers DEF Unsigned
  <2>3. /\ U(x, signed(x, ValueOf("div", x, a, b))) = 2^x - 1
        /\ U(x, signed(x, ValueOf("rem", x, a, b))) = U(x, s)
    BY <1>4, <1>6, <1>7, <2>1, <2>2
  <2>4. QED BY <1>3, <1>9, <2>3 DEF Divides
<1>10. CASE t # 0 /\ s = -(2^(W - 1)) /\ t = -1
  <2>1. ValueOf("div", x, a, b) = Word(s) /\ ValueOf("rem", x, a, b) = Word(0)
    <3>1. signed(x, b) # 0 /\ signed(x, a) = -(2^(W - 1)) /\ signed(x, b) = -1
      BY <1>3, <1>10
    <3>2. ValueOf("div", x, a, b) = Word(signed(x, a))
      BY <3>1, QuotientValues, Zenon
    <3>3. ValueOf("rem", x, a, b) = Word(0)
      BY <3>1, QuotientValues, Zenon
    <3>4. QED BY <1>3, <3>2, <3>3
  <2>2. signed(x, ValueOf("div", x, a, b)) = s /\ signed(x, ValueOf("rem", x, a, b)) = 0
    BY <1>4, <1>7, <1>8, <2>1
  <2>3. s = -M
    <3>1. PICK K \in Positive : 2^(W - 1) = M * K
      BY <1>1, <1>2, Powers, PowersAssumption
    <3>2. M * K >= M /\ M * K \in Int
      BY DEF Positive
    <3>3. QED BY <1>10, <3>1, <3>2 DEF Positive
  <2>4. U(x, M) = U(x, -M)
    <3>1. X * 1 + (-M) = M /\ -M \in Int
      BY <1>5 DEF Positive
    <3>2. (X * 1 + (-M)) % X = (-M) % X
      BY <3>1, AddMultiple
    <3>3. QED BY <1>5, <3>1, <3>2 DEF U
  <2>5. s * t + 0 = M /\ magnitude(t) = 1
    <3>1. magnitude(t) = 1
      <4>1. t + 1 = 0
        BY <1>10
      <4>2. t < 0 /\ -t = 1
        BY <1>4, <4>1
      <4>3. QED BY <4>2 DEF magnitude
    <3>2. s * t = M * 1
      BY <1>10, <2>3 DEF Positive
    <3>3. QED BY <3>1, <3>2 DEF Positive
  <2>6. QED BY <1>2, <1>3, <1>10, <2>2, <2>3, <2>4, <2>5 DEF Divides
<1>11. CASE t # 0 /\ ~ (s = -(2^(W - 1)) /\ t = -1)
  <2>1. PICK q \in -M .. M, r \in -M + 1 .. M - 1 : q = quotient(s, t) /\ r = remainder(s, t)
    BY <1>11, QuotientWithin
  <2>2. q \in Int /\ r \in Int /\ r \in -M .. M - 1
    BY DEF Positive
  <2>3. /\ s = t * q + r /\ magnitude(r) < magnitude(t)
        /\ r = 0 \/ (r < 0 <=> s < 0)
    BY <1>4, <1>11, <2>1, DivisionCorrect
  <2>4. ValueOf("div", x, a, b) = Word(sext(x, q)) /\ ValueOf("rem", x, a, b) = Word(sext(x, r))
    BY <1>3, <1>11, <2>1, QuotientValues
  <2>5. signed(x, ValueOf("div", x, a, b)) = signed(x, q) /\ signed(x, ValueOf("rem", x, a, b)) = r
    BY <1>1, <1>2, <1>7, <2>2, <2>4, SignedOf
  <2>6. PICK p \in Int : p = signed(x, q)
    BY <1>7, <2>2
  <2>7. p * t + r \in Int /\ (p # -M => p * t + r = s) /\ U(x, p * t + r) = U(x, s)
    <3>1. CASE q = M
      <4>1. p = -M
        BY <1>8, <2>6, <3>1
      <4>2. PICK j \in Int : j = -t
        BY <1>4
      <4>3. p * t + r = X * j + s
        <5>1. M * t \in Int /\ p * t = -(M * t) /\ X * j = -(M * t) - (M * t) /\ t * q = M * t
          BY <1>4, <1>5, <3>1, <4>1, <4>2 DEF Positive
        <5>2. QED BY <1>4, <2>2, <2>3, <5>1
      <4>4. X * j + s \in Int /\ (X * j + s) % X = s % X
        <5>1. X * j \in Int
          BY DEF Positive
        <5>2. QED BY <1>4, <5>1, AddMultiple
      <4>5. QED BY <1>5, <4>1, <4>3, <4>4 DEF U
    <3>2. CASE q # M
      <4>1. q \in -M .. M - 1
        BY <2>2, <3>2 DEF Positive
      <4>2. p = q
        BY <1>1, <1>2, <2>6, <4>1, SignedOf
      <4>3. QED BY <1>4, <2>2, <2>3, <4>2
    <3>3. QED BY <3>1, <3>2
  <2>8. IF r < 0 THEN -r < magnitude(t) ELSE r < magnitude(t)
    BY <2>3 DEF magnitude
  <2>9. r # 0 => (r < 0) = (s < 0)
    BY <2>3
  <2>10. t # 0 /\ (p # -(2^(x - 1)) => p * t + r = s)
    BY <1>2, <1>11, <2>7
  <2>11. Divides(x, s, t, p, r)
    BY <2>7, <2>8, <2>9, <2>10, Zenon DEF Divides
  <2>12. QED BY <1>3, <2>5, <2>6, <2>11
<1>12. QED BY <1>9, <1>10, <1>11

LEMMA UnsignedDivides ==
  ASSUME NEW x \in {Half, W}, NEW a \in Unsigned, NEW b \in Unsigned
  PROVE  Divides(x, zext(x, a), zext(x, b),
                 zext(x, ValueOf("divu", x, a, b)), zext(x, ValueOf("remu", x, a, b)))
<1>1. x \in 1 .. W /\ a \in Int /\ b \in Int /\ W \in 1 .. W
  BY WordPowers DEF Unsigned
<1>2. PICK X \in Positive : X = 2^x
  BY <1>1, Powers, PowersAssumption
<1>3. PICK u \in 0 .. X - 1, v \in 0 .. X - 1 : u = zext(x, a) /\ v = zext(x, b)
  BY <1>1, <1>2, Divided DEF zext
<1>4. u \in Int /\ v \in Int
  BY DEF Positive
<1>5. \A i \in Int : /\ U(x, i) = zext(x, i) /\ zext(x, Word(i)) = zext(x, i)
                     /\ zext(x, Word(sext(x, i))) = zext(x, i)
  BY <1>1, LowOfSext, InWords
<1>6. \A i \in 0 .. X - 1 : zext(x, i) = i
  BY <1>2 DEF zext, Positive
<1>7. CASE v = 0
  <2>1. ValueOf("divu", x, a, b) = Word(2^W - 1) /\ ValueOf("remu", x, a, b) = Word(sext(x, a))
    BY <1>3, <1>7, QuotientValues
  <2>2. PICK n \in Int : n = 2^W - 1 /\ zext(x, n) = 2^x - 1
    BY <1>1, AllOnes, WordPowers DEF Unsigned
  <2>3. zext(x, ValueOf("divu", x, a, b)) = X - 1 /\ zext(x, ValueOf("remu", x, a, b)) = u
    BY <1>1, <1>2, <1>3, <1>5, <2>1, <2>2
  <2>4. X - 1 \in 0 .. X - 1 /\ X - 1 \in Int
    BY DEF Positive
  <2>5. U(x, X - 1) = X - 1
    BY <1>5, <1>6, <2>4
  <2>6. QED BY <1>2, <1>3, <1>7, <2>3, <2>5 DEF Divides
<1>8. CASE v # 0
  <2>1. v \in Positive
    BY <1>8 DEF Positive
  <2>2. PICK q \in Int, r \in 0 .. v - 1 : q = u \div v /\ r = u % v /\ u = v * q + r
    BY <1>4, <2>1, Divided
  <2>3. q \in 0 .. X - 1 /\ r \in 0 .. X - 1 /\ r \in Int
    <3>1. q >= 0
      <4>1. SUFFICES ASSUME q < 0 PROVE FALSE
        BY <2>2
      <4>2. v * q <= -v /\ v * q \in Int
        BY <2>1, <4>1 DEF Positive
      <4>3. QED BY <1>4, <2>2, <4>2
    <3>2. v * q >= q /\ v * q \in Int
      BY <2>1, <3>1 DEF Positive
    <3>3. QED BY <1>4, <2>2, <3>1, <3>2 DEF Positive
  <2>4. ValueOf("divu", x, a, b) = Word(sext(x, q)) /\ ValueOf("remu", x, a, b) = Word(sext(x, r))
    BY <1>3, <1>8, <2>2, QuotientValues
  <2>5. zext(x, ValueOf("divu", x, a, b)) = q /\ zext(x, ValueOf("remu", x, a, b)) = r
    BY <1>5, <1>6, <2>2, <2>3, <2>4
  <2>6. q * v + r = u
    BY <1>4, <2>2
  <2>7. r >= 0 /\ u >= 0 /\ magnitude(v) = v /\ r < v
    BY <1>4, <2>2 DEF magnitude
  <2>8. ~ (r < 0) /\ ~ (u < 0) /\ r < magnitude(v)
    BY <1>4, <2>2, <2>7
  <2>9. Divides(x, u, v, q, r)
    <3>1. U(x, q * v + r) = U(x, u) /\ (q # -(2^(x - 1)) => q * v + r = u)
      BY <2>6
    <3>2. (r < 0) = (u < 0)
      BY <2>8
    <3>3. QED BY <1>8, <2>8, <3>1, <3>2, Zenon DEF Divides
  <2>10. QED BY <1>3, <2>5, <2>9
<1>9. QED BY <1>7, <1>8

\* Sign-extended results: those of sign-extended operands are, in both modes.
Extended(x, v) == v \in Unsigned /\ v = sext(x, v)

LEMMA ExtendedResults ==
  ASSUME NEW x \in 1 .. W, NEW n \in Int
  PROVE  Extended(x, Word(sext(x, n))) /\ Extended(W, Word(n)) /\ Extended(x, sext(x, n))
<1>1. Extended(x, Word(sext(x, n))) /\ Extended(x, sext(x, n))
  BY WordOf DEF Extended
<1>2. W \in 1 .. W
  BY WordPowers
<1>3. PICK w \in Unsigned : w = Word(n) /\ w \in Int /\ Word(w) = w
  BY <1>2, WordOf
<1>4. zext(W, signed(W, w)) = zext(W, w)
  BY <1>2, <1>3, WordOf
<1>5. sext(W, w) = w
  BY <1>3, <1>4 DEF sext, zext, Word
<1>6. QED BY <1>1, <1>3, <1>5 DEF Extended

LEMMA ExtendedConstants ==
  ASSUME Half >= 2, NEW x \in {Half, W}
  PROVE  /\ Extended(x, 0) /\ Extended(x, Word(0)) /\ Extended(x, Word(1))
         /\ Extended(x, Word(2^W - 1))
<1>1. PICK N \in Positive, H \in Positive, M \in Positive :
         /\ N = 2^W /\ H = 2^Half /\ M = 2^(Half - 1) /\ N = H * H /\ H = 2 * M
         /\ W \in 1 .. W /\ Half \in 1 .. W /\ Half < W /\ W \in Nat /\ Half \in Nat
  BY WordPowers
<1>2. M >= 2
  <2>1. Half - 1 \in 1 .. W
    BY <1>1
  <2>2. PICK L \in Positive : 2^(Half - 1) = 2 * L
    BY <2>1, Powers, PowersAssumption
  <2>3. QED BY <1>1, <2>2 DEF Positive
<1>3. N >= 2 * M /\ N > M
  <2>1. H * H >= H /\ H * H \in Int
    BY DEF Positive
  <2>2. QED BY <1>1, <2>1 DEF Positive
<1>4. 0 \in Unsigned /\ 1 \in Unsigned /\ N - 1 \in Unsigned
  BY <1>1, <1>2, <1>3 DEF Unsigned, Positive
<1>5. Word(0) = 0 /\ Word(1) = 1 /\ Word(N - 1) = N - 1
  BY <1>1, <1>4, WordOf
<1>6. CASE x = W
  <2>1. 0 \in Int /\ 1 \in Int /\ N - 1 \in Int
    BY DEF Positive
  <2>2. Extended(W, Word(0)) /\ Extended(W, Word(1)) /\ Extended(W, Word(N - 1))
    BY <1>1, <2>1, ExtendedResults
  <2>3. QED BY <1>1, <1>5, <1>6, <2>2
<1>7. CASE x = Half
  <2>1. 0 = sext(Half, 0)
    BY <1>1, <1>2, <1>4, ExtendedRange DEF Positive
  <2>2. 1 = sext(Half, 1)
    BY <1>1, <1>2, <1>4, ExtendedRange DEF Positive
  <2>3. N - 1 = sext(Half, N - 1)
    <3>1. N - 1 >= N - M
      BY <1>2 DEF Positive
    <3>2. QED BY <1>1, <1>4, <3>1, ExtendedRange
  <2>4. QED BY <1>1, <1>4, <1>5, <1>7, <2>1, <2>2, <2>3 DEF Extended
<1>8. QED BY <1>6, <1>7

LEMMA SumsExtended ==
  ASSUME Half >= 2, NEW x \in {Half, W}, NEW a \in Int, NEW b \in Int,
         NEW o \in {"add", "addi", "sub", "mul", "slt", "slti", "sltu", "sltiu"}
  PROVE  Extended(x, ValueOf(o, x, a, b))
<1>1. x \in 1 .. W
  BY WordPowers
<1>2. a + b \in Int /\ a - b \in Int /\ a * b \in Int
  OBVIOUS
<1>3. CASE o \in {"add", "addi"}
  BY <1>1, <1>2, <1>3, SumValues, ExtendedResults
<1>4. CASE o = "sub"
  BY <1>1, <1>2, <1>4, SumValues, ExtendedResults
<1>5. CASE o = "mul"
  BY <1>1, <1>2, <1>5, SumValues, ExtendedResults
<1>6. CASE o \in {"slt", "slti", "sltu", "sltiu"}
  <2>1. PICK s : s = Bool(less(x, a, b)) /\ (s = 0 \/ s = 1)
    BY Zenon DEF Bool
  <2>2. PICK t : t = Bool(lessWord(x, a, b)) /\ (t = 0 \/ t = 1)
    BY Zenon DEF Bool
  <2>3. ValueOf(o, x, a, b) = Word(s) \/ ValueOf(o, x, a, b) = Word(t)
    BY <1>6, <2>1, <2>2, SumValues
  <2>4. Extended(x, Word(s)) /\ Extended(x, Word(t))
    BY <2>1, <2>2, ExtendedConstants
  <2>5. QED BY <2>3, <2>4
<1>7. QED BY <1>3, <1>4, <1>5, <1>6

LEMMA BitwiseAreExtended ==
  ASSUME PowersHold, NEW x \in {Half, W}, NEW a, NEW b, Extended(x, a), Extended(x, b),
         NEW o \in {"and", "or", "xor", "andi", "ori", "xori"}
  PROVE  Extended(x, ValueOf(o, x, a, b))
<1>1. PICK v \in Unsigned : ValueOf(o, x, a, b) = Word(v)
  BY BitwiseValues
<1>2. v \in Int /\ W \in 1 .. W
  BY WordPowers DEF Unsigned
<1>3. Word(v) \in Unsigned /\ Extended(W, Word(v))
  BY <1>2, WordOf, ExtendedResults
<1>4. CASE x = Half
  BY <1>1, <1>3, <1>4, BitwiseExtended DEF Extended
<1>5. QED BY <1>1, <1>3, <1>4

LEMMA ShiftsExtended ==
  ASSUME Half >= 2, NEW x \in {Half, W}, NEW a \in Unsigned, NEW b \in Int,
         NEW o \in {"sll", "srl", "sra", "slli", "srli", "srai"}
  PROVE  Extended(x, ValueOf(o, x, a, b))
<1>1. x \in 1 .. W /\ W \in 1 .. W /\ Half \in 1 .. W /\ a \in Int
  BY WordPowers DEF Unsigned
<1>2. PICK P \in Positive, Q \in Positive : P = 2^(b % x) /\ Q = 2^(b % W)
  BY ShiftAmount
<1>3. PICK s \in Int, u \in Int : s = signed(x, a) /\ u = zext(x, a)
  BY <1>1, Shifted, PowersAssumption
<1>4. /\ a * P \in Int /\ s \div P \in Int /\ u \div P \in Int /\ a \div P \in Int
      /\ a * Q \in Int /\ s \div Q \in Int /\ u \div Q \in Int /\ a \div Q \in Int
  <2>1. a * P \in Int /\ a * Q \in Int
    BY <1>1 DEF Positive
  <2>2. QED BY <1>1, <2>1, Divided
<1>5. CASE o = "sll"
  BY <1>1, <1>2, <1>4, <1>5, ShiftValues, ExtendedResults
<1>6. CASE o = "sra"
  BY <1>1, <1>2, <1>3, <1>4, <1>6, ShiftValues, ExtendedResults
<1>7. CASE o \in {"srl", "slli", "srli", "srai"} /\ x = W
  <2>1. \/ ValueOf(o, x, a, b) = Word(a \div Q) \/ ValueOf(o, x, a, b) = Word(a * Q)
        \/ ValueOf(o, x, a, b) = Word(s \div Q)
    BY <1>2, <1>3, <1>7, ShiftValues
  <2>2. QED BY <1>1, <1>4, <1>7, <2>1, ExtendedResults
<1>8. CASE o \in {"srl", "slli", "srli", "srai"} /\ x # W
  <2>1. x = Half
    BY <1>8
  <2>2. \/ ValueOf(o, x, a, b) = Word(sext(Half, u \div P)) \/ ValueOf(o, x, a, b) = 0
        \/ ValueOf(o, x, a, b) = Word(sext(Half, a * Q))
        \/ ValueOf(o, x, a, b) = Word(sext(Half, u \div Q))
        \/ ValueOf(o, x, a, b) = Word(sext(Half, s \div Q))
    BY <1>2, <1>3, <1>8, <2>1, ShiftValues DEF sext32
  <2>3. QED BY <1>1, <1>4, <2>1, <2>2, ExtendedResults, ExtendedConstants
<1>9. QED BY <1>5, <1>6, <1>7, <1>8

LEMMA ProductsExtended ==
  ASSUME NEW x \in {Half, W}, NEW a \in Unsigned, NEW b \in Unsigned,
         NEW o \in {"mulh", "mulhsu", "mulhu"}
  PROVE  Extended(x, ValueOf(o, x, a, b))
<1>1. PICK N \in Positive, H \in Positive :
         N = 2^W /\ H = 2^Half /\ N = H * H /\ W \in 1 .. W /\ Half \in 1 .. W
  BY WordPowers
<1>2. a \in Int /\ b \in Int /\ x \in 1 .. W
  BY <1>1 DEF Unsigned
<1>3. PICK s \in Int, t \in Int, u \in Int, v \in Int :
         s = signed(x, a) /\ t = signed(x, b) /\ u = zext(x, a) /\ v = zext(x, b)
  BY <1>2, Shifted, PowersAssumption
<1>4. s * t \in Int /\ s * v \in Int /\ u * v \in Int
  OBVIOUS
<1>5. CASE x = W
  <2>1. s \in Signed /\ t \in Signed
    BY <1>2, <1>3, <1>5, SignedRange DEF Signed
  <2>2. u = a /\ v = b
    <3>1. Word(a) = a /\ Word(b) = b
      BY <1>1, WordOf
    <3>2. QED BY <1>3, <1>5, <3>1 DEF zext, Word
  <2>3. PICK m \in Int, n \in Int, k \in Int :
           m = (s * t) \div 2^W /\ n = (s * v) \div 2^W /\ k = (u * v) \div 2^W
    BY <1>1, <1>4, Divided
  <2>4. mulh64(s, t) = Word(m) /\ mulhsu64(s, b) = Word(n) /\ mulhu64(a, b) = k
    BY <2>1, <2>2, <2>3, MulhCorrect, MulhsuCorrect, MulhuCorrect, PowersAssumption
  <2>5. Word(m) \in Int /\ Word(n) \in Int
    BY <1>1, WordOf
  <2>6. \/ ValueOf(o, x, a, b) = Word(Word(m)) \/ ValueOf(o, x, a, b) = Word(Word(n))
        \/ ValueOf(o, x, a, b) = Word(k)
    BY <1>3, <1>5, <2>4, ProductValues
  <2>7. QED BY <1>1, <1>5, <2>5, <2>6, ExtendedResults
<1>6. CASE x # W
  <2>1. x = Half
    BY <1>6
  <2>2. PICK m \in Int, k \in Int : m = (s * t) \div 2^Half /\ k = (u * v) \div 2^Half
    BY <1>1, <1>4, Divided
  <2>3. PICK c \in Int : c = Word(sext32(a) * v) \div 2^Half
    <3>1. sext32(a) \in Int
      BY <1>1, <1>2, WordOf DEF sext32
    <3>2. sext32(a) * v \in Int
      BY <3>1
    <3>3. PICK e \in Int : e = Word(sext32(a) * v)
      BY <1>1, <3>2, WordOf
    <3>4. e \div H \in Int
      BY Divided
    <3>5. QED BY <1>1, <3>3, <3>4
  <2>4. \/ ValueOf(o, x, a, b) = Word(sext(x, m)) \/ ValueOf(o, x, a, b) = Word(sext(x, c))
        \/ ValueOf(o, x, a, b) = Word(sext(x, k))
    BY <1>3, <1>6, <2>1, <2>2, <2>3, ProductValues DEF sext32
  <2>5. QED BY <1>2, <2>4, ExtendedResults
<1>7. QED BY <1>5, <1>6

LEMMA QuotientsExtended ==
  ASSUME Half >= 2, NEW x \in {Half, W}, NEW a \in Unsigned, NEW b \in Unsigned,
         NEW o \in {"div", "divu", "rem", "remu"}
  PROVE  Extended(x, ValueOf(o, x, a, b))
<1>1. x \in 1 .. W /\ a \in Int /\ b \in Int
  BY WordPowers DEF Unsigned
<1>2. PICK s \in Int, t \in Int, u \in Int, v \in Int :
         s = signed(x, a) /\ t = signed(x, b) /\ u = zext(x, a) /\ v = zext(x, b)
  BY <1>1, Shifted, PowersAssumption
<1>3. Extended(x, Word(s)) /\ Extended(x, Word(0)) /\ Extended(x, Word(2^W - 1))
      /\ Extended(x, Word(sext(x, a)))
  <2>1. Word(s) = sext(x, a)
    BY <1>2 DEF sext
  <2>2. QED BY <1>1, <2>1, ExtendedResults, ExtendedConstants
<1>4. CASE o \in {"div", "rem"}
  <2>1. CASE t = 0
    <3>1. signed(x, b) = 0
      BY <1>2, <2>1
    <3>2. /\ ValueOf("div", x, a, b) = Word(2^W - 1)
          /\ ValueOf("rem", x, a, b) = Word(signed(x, a))
      BY <3>1, QuotientValues, Zenon
    <3>3. QED BY <1>2, <1>3, <1>4, <3>2
  <2>2. CASE t # 0
    <3>1. PICK q \in Int, r \in Int : q = quotient(s, t) /\ r = remainder(s, t)
      BY <2>2, DivisionCorrect
    <3>2. \/ ValueOf(o, x, a, b) = Word(s) \/ ValueOf(o, x, a, b) = Word(0)
          \/ ValueOf(o, x, a, b) = Word(sext(x, q)) \/ ValueOf(o, x, a, b) = Word(sext(x, r))
      BY <1>2, <1>4, <2>2, <3>1, QuotientValues
    <3>3. QED BY <1>1, <1>3, <3>2, ExtendedResults
  <2>3. QED BY <2>1, <2>2
<1>5. CASE o \in {"divu", "remu"}
  <2>1. CASE v = 0
    <3>1. zext(x, b) = 0
      BY <1>2, <2>1
    <3>2. /\ ValueOf("divu", x, a, b) = Word(2^W - 1)
          /\ ValueOf("remu", x, a, b) = Word(sext(x, a))
      BY <3>1, QuotientValues, Zenon
    <3>3. QED BY <1>3, <1>5, <3>2
  <2>2. CASE v # 0
    <3>1. v \in Positive
      <4>1. zext(x, b) \in 0 .. 2^x - 1
        BY <1>1, WordOf
      <4>2. PICK X \in Positive : X = 2^x
        BY <1>1, Powers, PowersAssumption
      <4>3. v \in 0 .. X - 1
        BY <1>2, <4>1, <4>2
      <4>4. QED BY <2>2, <4>3 DEF Positive
    <3>2. PICK q \in Int, r \in Int : q = u \div v /\ r = u % v
      <4>1. u \div v \in Int /\ u % v \in 0 .. v - 1
        BY <3>1, Divided
      <4>2. QED BY <4>1
    <3>3. \/ ValueOf(o, x, a, b) = Word(sext(x, q)) \/ ValueOf(o, x, a, b) = Word(sext(x, r))
      <4>1. zext(x, b) # 0
        BY <1>2, <2>2
      <4>2. /\ ValueOf("divu", x, a, b) = Word(sext(x, zext(x, a) \div zext(x, b)))
            /\ ValueOf("remu", x, a, b) = Word(sext(x, zext(x, a) % zext(x, b)))
        BY <4>1, QuotientValues, Zenon
      <4>3. QED BY <1>2, <1>5, <3>2, <4>2
    <3>4. QED BY <1>1, <3>3, ExtendedResults
  <2>3. QED BY <2>1, <2>2
<1>6. QED BY <1>4, <1>5

\* The most negative dividend that div treats specially is one of a whole word.
LEMMA NoNarrowOverflow ==
  ASSUME NEW a \in Int
  PROVE  signed(Half, a) # -(2^(W - 1))
<1>1. PICK H \in Positive, M \in Positive :
         H = 2^Half /\ M = 2^(Half - 1) /\ H = 2 * M /\ Half \in 1 .. W /\ 2^(W - 1) = M * H
  <2>1. Half \in 1 .. W /\ W - Half = Half
    BY WordPowers, PowersAssumption DEF PowersOfTwo
  <2>2. QED BY <2>1, Powers, PowersAssumption
<1>2. PICK s \in Int : s = signed(Half, a) /\ s >= -M
  BY <1>1, SignedRange DEF Positive
<1>3. M * H >= 2 * M /\ M * H \in Int
  BY <1>1 DEF Positive
<1>4. QED BY <1>1, <1>2, <1>3 DEF Positive

LEMMA NarrowSums ==
  ASSUME NEW a \in Unsigned, NEW b \in Unsigned
  PROVE  /\ ValueOf("addw", W, a, b) = ValueOf("add", Half, a, b)
         /\ ValueOf("addiw", W, a, b) = ValueOf("addi", Half, a, b)
         /\ ValueOf("subw", W, a, b) = ValueOf("sub", Half, a, b)
         /\ ValueOf("mulw", W, a, b) = ValueOf("mul", Half, a, b)
<1>1. PICK n : n = a + b /\ n = b + a
  BY WordPowers DEF Unsigned
<1>2. ValueOf("addw", W, a, b) = Word(sext32(n)) /\ ValueOf("addiw", W, a, b) = Word(sext32(n))
  BY <1>1, NarrowValues
<1>3. QED BY <1>1, <1>2, NarrowValues, SumValues DEF sext32

LEMMA NarrowShifts ==
  ASSUME NEW a \in Unsigned, NEW b \in Unsigned
  PROVE  /\ ValueOf("sllw", W, a, b) = ValueOf("sll", Half, a, b)
         /\ ValueOf("srlw", W, a, b) = ValueOf("srl", Half, a, b)
         /\ ValueOf("sraw", W, a, b) = ValueOf("sra", Half, a, b)
         /\ b % W < Half =>
               /\ ValueOf("slliw", W, a, b) = ValueOf("slli", Half, a, b)
               /\ ValueOf("srliw", W, a, b) = ValueOf("srli", Half, a, b)
               /\ ValueOf("sraiw", W, a, b) = ValueOf("srai", Half, a, b)
<1>1. Half # W /\ Half \in Int /\ b \in Int /\ W \in {Half, W}
  BY WordPowers DEF Unsigned
<1>2. /\ ValueOf("sllw", W, a, b) = ValueOf("sll", Half, a, b)
      /\ ValueOf("srlw", W, a, b) = ValueOf("srl", Half, a, b)
      /\ ValueOf("sraw", W, a, b) = ValueOf("sra", Half, a, b)
  BY <1>1, NarrowValues, ShiftValues DEF sext32
<1>3. ASSUME b % W < Half
      PROVE  /\ ValueOf("slliw", W, a, b) = ValueOf("slli", Half, a, b)
             /\ ValueOf("srliw", W, a, b) = ValueOf("srli", Half, a, b)
             /\ ValueOf("sraiw", W, a, b) = ValueOf("srai", Half, a, b)
  <2>1. b % W \in Int
    <3>1. b % W \in 0 .. W - 1
      BY <1>1, ShiftAmount
    <3>2. QED BY <3>1
  <2>2. ~ (b % W >= Half)
    BY <1>1, <1>3, <2>1
  <2>3. QED BY <1>1, <2>2, NarrowValues, ShiftValues DEF sext32
<1>4. QED BY <1>2, <1>3

LEMMA NarrowQuotients ==
  ASSUME NEW a \in Unsigned, NEW b \in Unsigned
  PROVE  /\ ValueOf("divw", W, a, b) = ValueOf("div", Half, a, b)
         /\ ValueOf("divuw", W, a, b) = ValueOf("divu", Half, a, b)
         /\ ValueOf("remw", W, a, b) = ValueOf("rem", Half, a, b)
         /\ ValueOf("remuw", W, a, b) = ValueOf("remu", Half, a, b)
<1>1. a \in Int
  BY WordPowers DEF Unsigned
<1>2. signed(Half, a) # -(2^(W - 1))
  BY <1>1, NoNarrowOverflow
<1>3. /\ ValueOf("div", Half, a, b) =
           Word(IF signed(Half, b) = 0 THEN 2^W - 1
                ELSE sext(Half, quotient(signed(Half, a), signed(Half, b))))
      /\ ValueOf("rem", Half, a, b) =
           Word(IF signed(Half, b) = 0 THEN signed(Half, a)
                ELSE sext(Half, remainder(signed(Half, a), signed(Half, b))))
  BY <1>2, QuotientValues
<1>4. QED BY <1>3, NarrowValues, QuotientValues DEF sext32

\* A word form computes in the wide mode what the plain form computes in the narrow one.
LEMMA WordFormsAgree ==
  ASSUME Half >= 2, NEW a \in Unsigned, NEW b \in Unsigned, NEW o \in WordOps,
         Narrow[o] \in ShiftOps => b % W < Half
  PROVE  /\ ValueOf(o, W, a, b) = sext(Half, ValueOf(Narrow[o], Half, a, b))
         /\ ValueOf(Narrow[o], Half, a, b) \in Unsigned
<1>1. a \in Int /\ b \in Int
  BY WordPowers DEF Unsigned
<1>2. SUFFICES Extended(Half, ValueOf(Narrow[o], Half, a, b))
               /\ ValueOf(o, W, a, b) = ValueOf(Narrow[o], Half, a, b)
  BY DEF Extended
<1>3. ASSUME NEW p \in {"add", "addi", "sub", "mul"} PROVE Extended(Half, ValueOf(p, Half, a, b))
  BY <1>1, SumsExtended
<1>4. ASSUME NEW p \in {"sll", "srl", "sra", "slli", "srli", "srai"}
      PROVE Extended(Half, ValueOf(p, Half, a, b))
  BY <1>1, ShiftsExtended
<1>5. ASSUME NEW p \in {"div", "divu", "rem", "remu"} PROVE Extended(Half, ValueOf(p, Half, a, b))
  BY QuotientsExtended
<1>6. CASE o \in {"addw", "addiw", "subw", "mulw"}
  <2>1. /\ (o = "addw" => Narrow[o] = "add") /\ (o = "addiw" => Narrow[o] = "addi")
        /\ (o = "subw" => Narrow[o] = "sub") /\ (o = "mulw" => Narrow[o] = "mul")
    BY DEF Narrow
  <2>2. QED BY <1>3, <1>6, <2>1, NarrowSums
<1>7. CASE o \in {"sllw", "srlw", "sraw"}
  <2>1. /\ (o = "sllw" => Narrow[o] = "sll") /\ (o = "srlw" => Narrow[o] = "srl")
        /\ (o = "sraw" => Narrow[o] = "sra")
    BY DEF Narrow
  <2>2. QED BY <1>4, <1>7, <2>1, NarrowShifts
<1>8. CASE o \in {"slliw", "srliw", "sraiw"}
  <2>1. /\ (o = "slliw" => Narrow[o] = "slli") /\ (o = "srliw" => Narrow[o] = "srli")
        /\ (o = "sraiw" => Narrow[o] = "srai")
    BY DEF Narrow
  <2>2. b % W < Half
    BY <1>8, <2>1 DEF ShiftOps
  <2>3. QED BY <1>4, <1>8, <2>1, <2>2, NarrowShifts
<1>9. CASE o \in {"divw", "divuw", "remw", "remuw"}
  <2>1. /\ (o = "divw" => Narrow[o] = "div") /\ (o = "divuw" => Narrow[o] = "divu")
        /\ (o = "remw" => Narrow[o] = "rem") /\ (o = "remuw" => Narrow[o] = "remu")
    BY DEF Narrow
  <2>2. QED BY <1>5, <1>9, <2>1, NarrowQuotients
<1>10. QED BY <1>6, <1>7, <1>8, <1>9 DEF WordOps

\* A branch agrees with the comparison of its name.
BranchesCorrect(x, r, q, a, b) ==
    /\ I("none")!blt(x, r, q) = (signed(x, a) < signed(x, b))
    /\ I("none")!bge(x, r, q) = (signed(x, a) >= signed(x, b))
    /\ I("none")!bltu(x, r, q) = (zext(x, a) < zext(x, b))
    /\ I("none")!bgeu(x, r, q) = (zext(x, a) >= zext(x, b))
    /\ I("none")!beq(x, r, q) = (zext(x, a) = zext(x, b))
    /\ I("none")!bne(x, r, q) = (zext(x, a) # zext(x, b))

LEMMA BranchesAgree ==
  ASSUME NEW x \in 1 .. W, NEW a \in Int, NEW b \in Int, NEW r, NEW q, r.val = a, q.val = b
  PROVE  BranchesCorrect(x, r, q, a, b)
<1>1. PICK s \in Int, t \in Int, u \in Int, v \in Int :
         s = signed(x, a) /\ t = signed(x, b) /\ u = zext(x, a) /\ v = zext(x, b)
  BY Shifted, PowersAssumption
<1>2. /\ less(x, a, b) <=> s < t
      /\ lessWord(x, a, b) <=> u < v
      /\ cmp_trunc(x, a) = cmp_trunc(x, b) <=> u = v
  BY <1>1, CompareCorrect, PowersAssumption
<1>3. /\ I("none")!less(x, a, b) <=> s < t
      /\ I("none")!lessWord(x, a, b) <=> u < v
      /\ I("none")!cmp_trunc(x, a) = I("none")!cmp_trunc(x, b) <=> u = v
  BY <1>2, InstanceWords
<1>4. s >= t <=> ~ (s < t)
  OBVIOUS
<1>5. u >= v <=> ~ (u < v)
  OBVIOUS
<1>6. (I("none")!blt(x, r, q) <=> s < t) /\ (I("none")!bge(x, r, q) <=> s >= t)
  BY <1>3, <1>4, Zenon DEF I!blt, I!bge
<1>7. (I("none")!bltu(x, r, q) <=> u < v) /\ (I("none")!bgeu(x, r, q) <=> u >= v)
  BY <1>3, <1>5, Zenon DEF I!bltu, I!bgeu
<1>8. (I("none")!beq(x, r, q) <=> u = v) /\ (I("none")!bne(x, r, q) <=> u # v)
  BY <1>3, Zenon DEF I!beq, I!bne
<1>9. (I("none")!blt(x, r, q) = (s < t)) /\ (I("none")!bge(x, r, q) = (s >= t))
  BY <1>6 DEF I!blt, I!bge, I!less
<1>10. (I("none")!bltu(x, r, q) = (u < v)) /\ (I("none")!bgeu(x, r, q) = (u >= v))
  BY <1>7 DEF I!bltu, I!bgeu, I!lessWord
<1>11. (I("none")!beq(x, r, q) = (u = v)) /\ (I("none")!bne(x, r, q) = (u # v))
  BY <1>8 DEF I!beq, I!bne
<1>12. QED BY <1>1, <1>9, <1>10, <1>11 DEF BranchesCorrect

\* What an atomic operation leaves in memory.
After(o, a, b) == Amo(o, "none", W, Reg(a), Reg(b)).mem.val

LEMMA AmoResults ==
  ASSUME NEW new, NEW t, NEW r
  PROVE  /\ I("none")!require_xpr64(W, I("none")!Amo(new, t, r)).mem.val = Word(new)
         /\ I("none")!AmoW(new, t, r).mem.val = Word(zext(Half, new))
<1>1. I("none")!RD(new, t).val = Word(new)
  BY ResultValues, Zenon
<1>2. PICK m : m = I("none")!RD(new, t)
  OBVIOUS
<1>3. I("none")!Amo(new, t, r) = [mem |-> m, rd |-> r]
  BY <1>2, Zenon DEF I!Amo
<1>4. [mem |-> m, rd |-> r].mem = m
  OBVIOUS
<1>5. I("none")!require_xpr64(W, I("none")!Amo(new, t, r)) = I("none")!Amo(new, t, r)
  BY Zenon DEF I!require_xpr64
<1>6. I("none")!AmoW(new, t, r).mem.val = Word(zext(Half, new))
  <2>1. PICK z : z = I("none")!zext(I("none")!Half, new)
    OBVIOUS
  <2>2. z = zext(Half, new)
    BY <2>1, InstanceWords
  <2>3. PICK k, l : k = I("none")!RD(z, t) /\ l = I("none")!RD(I("none")!sext32(r.val), r.tag)
    OBVIOUS
  <2>4. I("none")!AmoW(new, t, r) = [mem |-> k, rd |-> l]
    BY <2>1, <2>3, Zenon DEF I!AmoW
  <2>5. I("none")!RD(z, t).val = Word(z)
    BY ResultValues, Zenon
  <2>6. QED BY <2>2, <2>3, <2>4, <2>5
<1>7. QED BY <1>1, <1>2, <1>3, <1>4, <1>5, <1>6

LEMMA LargerSmaller ==
  ASSUME NEW v \in Int, NEW w \in Int
  PROVE  I("none")!larger(w, v) = Max2(v, w) /\ I("none")!smaller(w, v) = Min2(v, w)
BY DEF I!larger, I!smaller, Max2, Min2

LEMMA AmoValues ==
  ASSUME NEW a \in Int, NEW b \in Int
  PROVE  /\ After("add_d", a, b) = Word(a + b)
         /\ After("add_w", a, b) = Word(zext(Half, a + b))
         /\ After("max_d", a, b) = Word(Max2(signed(W, a), signed(W, b)))
         /\ After("max_w", a, b) = Word(zext(Half, Max2(signed(Half, a), signed(Half, b))))
         /\ After("maxu_d", a, b) = Word(Max2(a, b))
         /\ After("maxu_w", a, b) = Word(zext(Half, Max2(zext(Half, a), zext(Half, b))))
         /\ After("min_d", a, b) = Word(Min2(signed(W, a), signed(W, b)))
         /\ After("min_w", a, b) = Word(zext(Half, Min2(signed(Half, a), signed(Half, b))))
         /\ After("minu_d", a, b) = Word(Min2(a, b))
         /\ After("minu_w", a, b) = Word(zext(Half, Min2(zext(Half, a), zext(Half, b))))
<1>1. PICK r, q : r = Reg(a) /\ q = Reg(b)
  OBVIOUS
<1>2. r.val = a /\ q.val = b
  BY <1>1, RegValue
<1>3. W \in 1 .. W /\ Half \in 1 .. W
  BY WordPowers
<1>4. /\ I("none")!Half = Half
      /\ \A x \in {Half, W} : /\ I("none")!signed(x, a) = signed(x, a) /\ signed(x, a) \in Int
                              /\ I("none")!signed(x, b) = signed(x, b) /\ signed(x, b) \in Int
                              /\ I("none")!zext(x, a) = zext(x, a) /\ zext(x, a) \in Int
                              /\ I("none")!zext(x, b) = zext(x, b) /\ zext(x, b) \in Int
  BY <1>3, InstanceWords, Shifted, PowersAssumption
<1>5. a + b = b + a
  OBVIOUS
<1>6. After("add_d", a, b) = Word(a + b)
  <2>1. After("add_d", a, b) = I("none")!amoadd_d(W, r, q).mem.val
    BY <1>1, Zenon DEF After, Amo
  <2>2. PICK t : t = I("none")!TAG_ADD(r.tag, q.tag)
    OBVIOUS
  <2>3. PICK n : n = b + a
    OBVIOUS
  <2>4. I("none")!amoadd_d(W, r, q) = I("none")!require_xpr64(W, I("none")!Amo(n, t, r))
    BY <1>2, <2>2, <2>3, Zenon DEF I!amoadd_d
  <2>5. I("none")!require_xpr64(W, I("none")!Amo(n, t, r)).mem.val = Word(n)
    BY AmoResults, Zenon
  <2>6. n = a + b
    BY <1>4, <1>5, <2>3
  <2>7. QED BY <2>1, <2>4, <2>5, <2>6
<1>7. After("add_w", a, b) = Word(zext(Half, a + b))
  <2>1. After("add_w", a, b) = I("none")!amoadd_w(W, r, q).mem.val
    BY <1>1, Zenon DEF After, Amo
  <2>2. PICK t : t = I("none")!TAG_ADD(r.tag, q.tag)
    OBVIOUS
  <2>3. PICK n : n = b + a
    OBVIOUS
  <2>4. I("none")!amoadd_w(W, r, q) = I("none")!AmoW(n, t, r)
    BY <1>2, <2>2, <2>3, Zenon DEF I!amoadd_w
  <2>5. I("none")!AmoW(n, t, r).mem.val = Word(zext(Half, n))
    BY AmoResults, Zenon
  <2>6. n = a + b
    BY <1>4, <1>5, <2>3
  <2>7. QED BY <2>1, <2>4, <2>5, <2>6
<1>8. After("max_d", a, b) = Word(Max2(signed(W, a), signed(W, b)))
  <2>1. After("max_d", a, b) = I("none")!amomax_d(W, r, q).mem.val
    BY <1>1, Zenon DEF After, Amo
  <2>2. PICK t : t = I("none")!logicTag(r, q)
    OBVIOUS
  <2>3. PICK n : n = I("none")!larger(I("none")!signed(W, b), I("none")!signed(W, a))
    OBVIOUS
  <2>4. I("none")!amomax_d(W, r, q) = I("none")!require_xpr64(W, I("none")!Amo(n, t, r))
    BY <1>2, <2>2, <2>3, Zenon DEF I!amomax_d
  <2>5. I("none")!require_xpr64(W, I("none")!Amo(n, t, r)).mem.val = Word(n)
    BY AmoResults, Zenon
  <2>6. n = Max2(signed(W, a), signed(W, b))
    BY <1>4, <1>5, <2>3, LargerSmaller
  <2>7. QED BY <2>1, <2>4, <2>5, <2>6
<1>9. After("max_w", a, b) = Word(zext(Half, Max2(signed(Half, a), signed(Half, b))))
  <2>1. After("max_w", a, b) = I("none")!amomax_w(W, r, q).mem.val
    BY <1>1, Zenon DEF After, Amo
  <2>2. PICK t : t = I("none")!logicTag(r, q)
    OBVIOUS
  <2>3. PICK n : n = I("none")!larger(I("none")!signed(I("none")!Half, b), I("none")!signed(I("none")!Half, a))
    OBVIOUS
  <2>4. I("none")!amomax_w(W, r, q) = I("none")!AmoW(n, t, r)
    BY <1>2, <2>2, <2>3, Zenon DEF I!amomax_w
  <2>5. I("none")!AmoW(n, t, r).mem.val = Word(zext(Half, n))
    BY AmoResults, Zenon
  <2>6. n = Max2(signed(Half, a), signed(Half, b))
    BY <1>4, <1>5, <2>3, LargerSmaller
  <2>7. QED BY <2>1, <2>4, <2>5, <2>6
<1>10. After("maxu_d", a, b) = Word(Max2(a, b))
  <2>1. After("maxu_d", a, b) = I("none")!amomaxu_d(W, r, q).mem.val
    BY <1>1, Zenon DEF After, Amo
  <2>2. PICK t : t = I("none")!logicTag(r, q)
    OBVIOUS
  <2>3. PICK n : n = I("none")!larger(b, a)
    OBVIOUS
  <2>4. I("none")!amomaxu_d(W, r, q) = I("none")!require_xpr64(W, I("none")!Amo(n, t, r))
    BY <1>2, <2>2, <2>3, Zenon DEF I!amomaxu_d
  <2>5. I("none")!require_xpr64(W, I("none")!Amo(n, t, r)).mem.val = Word(n)
    BY AmoResults, Zenon
  <2>6. n = Max2(a, b)
    BY <1>4, <1>5, <2>3, LargerSmaller
  <2>7. QED BY <2>1, <2>4, <2>5, <2>6
<1>11. After("maxu_w", a, b) = Word(zext(Half, Max2(zext(Half, a), zext(Half, b))))
  <2>1. After("maxu_w", a, b) = I("none")!amomaxu_w(W, r, q).mem.val
    BY <1>1, Zenon DEF After, Amo
  <2>2. PICK t : t = I("none")!lowWordTag(r, q)
    OBVIOUS
  <2>3. PICK n : n = I("none")!larger(I("none")!zext(I("none")!Half, b), I("none")!zext(I("none")!Half, a))
    OBVIOUS
  <2>4. I("none")!amomaxu_w(W, r, q) = I("none")!AmoW(n, t, r)
    BY <1>2, <2>2, <2>3, Zenon DEF I!amomaxu_w
  <2>5. I("none")!AmoW(n, t, r).mem.val = Word(zext(Half, n))
    BY AmoResults, Zenon
  <2>6. n = Max2(zext(Half, a), zext(Half, b))
    BY <1>4, <1>5, <2>3, LargerSmaller
  <2>7. QED BY <2>1, <2>4, <2>5, <2>6
<1>12. After("min_d", a, b) = Word(Min2(signed(W, a), signed(W, b)))
  <2>1. After("min_d", a, b) = I("none")!amomin_d(W, r, q).mem.val
    BY <1>1, Zenon DEF After, Amo
  <2>2. PICK t : t = I("none")!valueTag(r, q)
    OBVIOUS
  <2>3. PICK n : n = I("none")!smaller(I("none")!signed(W, b), I("none")!signed(W, a))
    OBVIOUS
  <2>4. I("none")!amomin_d(W, r, q) = I("none")!require_xpr64(W, I("none")!Amo(n, t, r))
    BY <1>2, <2>2, <2>3, Zenon DEF I!amomin_d
  <2>5. I("none")!require_xpr64(W, I("none")!Amo(n, t, r)).mem.val = Word(n)
    BY AmoResults, Zenon
  <2>6. n = Min2(signed(W, a), signed(W, b))
    BY <1>4, <1>5, <2>3, LargerSmaller
  <2>7. QED BY <2>1, <2>4, <2>5, <2>6
<1>13. After("min_w", a, b) = Word(zext(Half, Min2(signed(Half, a), signed(Half, b))))
  <2>1. After("min_w", a, b) = I("none")!amomin_w(W, r, q).mem.val
    BY <1>1, Zenon DEF After, Amo
  <2>2. PICK t : t = I("none")!lowWordTag(r, q)
    OBVIOUS
  <2>3. PICK n : n = I("none")!smaller(I("none")!signed(I("none")!Half, b), I("none")!signed(I("none")!Half, a))
    OBVIOUS
  <2>4. I("none")!amomin_w(W, r, q) = I("none")!AmoW(n, t, r)
    BY <1>2, <2>2, <2>3, Zenon DEF I!amomin_w
  <2>5. I("none")!AmoW(n, t, r).mem.val = Word(zext(Half, n))
    BY AmoResults, Zenon
  <2>6. n = Min2(signed(Half, a), signed(Half, b))
    BY <1>4, <1>5, <2>3, LargerSmaller
  <2>7. QED BY <2>1, <2>4, <2>5, <2>6
<1>14. After("minu_d", a, b) = Word(Min2(a, b))
  <2>1. After("minu_d", a, b) = I("none")!amominu_d(W, r, q).mem.val
    BY <1>1, Zenon DEF After, Amo
  <2>2. PICK t, u : t = I("none")!valueTag(r, q) /\ u = I("none")!logicTag(r, q)
    OBVIOUS
  <2>3. PICK n : n = I("none")!smaller(b, a)
    OBVIOUS
  <2>4. PICK z : z = I("none")!Amo(n, t, r)
    OBVIOUS
  <2>5. I("none")!amominu_d(W, r, q).mem.val = Word(n)
    <3>1. I("none")!Amo(I("none")!smaller(q.val, r.val), I("none")!valueTag(r, q), r) = z
      BY <1>2, <2>2, <2>3, <2>4, Zenon
    <3>2. PICK y : y = [z EXCEPT !.rd.tag = u]
      OBVIOUS
    <3>3. I("none")!amominu_d(W, r, q) = I("none")!require_xpr64(W, y)
      BY <2>2, <3>1, <3>2, SMT DEF I!amominu_d
    <3>4. I("none")!require_xpr64(W, y) = y
      BY Zenon DEF I!require_xpr64
    <3>5. PICK m : m = I("none")!RD(n, t)
      OBVIOUS
    <3>6. z = [mem |-> m, rd |-> r]
      BY <2>4, <3>5, Zenon DEF I!Amo
    <3>7. [[mem |-> m, rd |-> r] EXCEPT !.rd.tag = u].mem = m
      OBVIOUS
    <3>8. I("none")!RD(n, t).val = Word(n)
      BY ResultValues, Zenon
    <3>9. QED BY <3>2, <3>3, <3>4, <3>5, <3>6, <3>7, <3>8
  <2>6. n = Min2(a, b)
    BY <1>4, <1>5, <2>3, LargerSmaller
  <2>7. QED BY <2>1, <2>5, <2>6
<1>15. After("minu_w", a, b) = Word(zext(Half, Min2(zext(Half, a), zext(Half, b))))
  <2>1. After("minu_w", a, b) = I("none")!amominu_w(W, r, q).mem.val
    BY <1>1, Zenon DEF After, Amo
  <2>2. PICK t : t = I("none")!logicTag(r, q)
    OBVIOUS
  <2>3. PICK n : n = I("none")!smaller(I("none")!zext(I("none")!Half, b), I("none")!zext(I("none")!Half, a))
    OBVIOUS
  <2>4. I("none")!amominu_w(W, r, q) = I("none")!AmoW(n, t, r)
    BY <1>2, <2>2, <2>3, Zenon DEF I!amominu_w
  <2>5. I("none")!AmoW(n, t, r).mem.val = Word(zext(Half, n))
    BY AmoResults, Zenon
  <2>6. n = Min2(zext(Half, a), zext(Half, b))
    BY <1>4, <1>5, <2>3, LargerSmaller
  <2>7. QED BY <2>1, <2>4, <2>5, <2>6
<1>16. QED BY <1>6, <1>7, <1>8, <1>9, <1>10, <1>11, <1>12, <1>13, <1>14, <1>15

\* It is the sum, the maximum or the minimum, of words or of their low halves.
AmosAre(a, b) ==
    /\ After("add_d", a, b) = Word(a + b) /\ After("add_w", a, b) = zext(Half, a + b)
    /\ After("max_d", a, b) = Word(Max2(signed(W, a), signed(W, b)))
    /\ After("max_w", a, b) = zext(Half, Max2(signed(Half, a), signed(Half, b)))
    /\ After("maxu_d", a, b) = Max2(a, b)
    /\ After("maxu_w", a, b) = Max2(zext(Half, a), zext(Half, b))
    /\ After("min_d", a, b) = Word(Min2(signed(W, a), signed(W, b)))
    /\ After("min_w", a, b) = zext(Half, Min2(signed(Half, a), signed(Half, b)))
    /\ After("minu_d", a, b) = Min2(a, b)
    /\ After("minu_w", a, b) = Min2(zext(Half, a), zext(Half, b))

LEMMA AmosAgree ==
  ASSUME NEW a \in Unsigned, NEW b \in Unsigned
  PROVE  AmosAre(a, b)
<1>1. PICK N \in Positive, H \in Positive :
         N = 2^W /\ H = 2^Half /\ N = H * H /\ W \in 1 .. W /\ Half \in 1 .. W
  BY WordPowers
<1>2. a \in Int /\ b \in Int
  BY <1>1 DEF Unsigned
<1>3. PICK s \in Int, t \in Int, u \in Int, v \in Int :
         s = signed(W, a) /\ t = signed(W, b) /\ u = signed(Half, a) /\ v = signed(Half, b)
  BY <1>1, <1>2, Shifted, PowersAssumption
<1>4. PICK y \in 0 .. H - 1, z \in 0 .. H - 1 : y = zext(Half, a) /\ z = zext(Half, b)
  BY <1>1, <1>2, WordOf
<1>5. H <= N
  BY <1>1 DEF Positive
<1>6. ASSUME NEW n \in Int PROVE Word(zext(Half, n)) = zext(Half, n)
  <2>1. PICK k \in 0 .. H - 1 : k = zext(Half, n)
    BY <1>1, WordOf
  <2>2. k \in Unsigned
    BY <1>1, <1>5 DEF Unsigned, Positive
  <2>3. QED BY <1>1, <2>1, <2>2, WordOf
<1>7. ASSUME NEW n \in 0 .. H - 1 PROVE zext(Half, n) = n /\ n \in Int
  BY <1>1 DEF zext, Positive
<1>8. ASSUME NEW n \in Unsigned PROVE Word(n) = n
  BY <1>1, WordOf
<1>9. a + b \in Int /\ Max2(u, v) \in Int /\ Min2(u, v) \in Int
  BY <1>2 DEF Max2, Min2
<1>10. Max2(a, b) \in Unsigned /\ Min2(a, b) \in Unsigned
  BY DEF Max2, Min2
<1>11. Max2(y, z) \in 0 .. H - 1 /\ Min2(y, z) \in 0 .. H - 1
  BY DEF Max2, Min2
<1>12. Max2(y, z) \in Int /\ Min2(y, z) \in Int
  BY <1>7, <1>11
<1>13. After("add_d", a, b) = Word(a + b) /\ After("add_w", a, b) = zext(Half, a + b)
  BY <1>2, <1>6, <1>9, AmoValues
<1>14. /\ After("max_d", a, b) = Word(Max2(signed(W, a), signed(W, b)))
       /\ After("max_w", a, b) = zext(Half, Max2(signed(Half, a), signed(Half, b)))
       /\ After("min_d", a, b) = Word(Min2(signed(W, a), signed(W, b)))
       /\ After("min_w", a, b) = zext(Half, Min2(signed(Half, a), signed(Half, b)))
  <2>1. /\ After("max_d", a, b) = Word(Max2(signed(W, a), signed(W, b)))
        /\ After("min_d", a, b) = Word(Min2(signed(W, a), signed(W, b)))
    BY <1>2, AmoValues
  <2>2. After("max_w", a, b) = Word(zext(Half, Max2(u, v))) /\ After("min_w", a, b) = Word(zext(Half, Min2(u, v)))
    BY <1>2, <1>3, AmoValues
  <2>3. QED BY <1>3, <1>6, <1>9, <2>1, <2>2
<1>15. After("maxu_d", a, b) = Max2(a, b) /\ After("minu_d", a, b) = Min2(a, b)
  BY <1>2, <1>8, <1>10, AmoValues
<1>16. /\ After("maxu_w", a, b) = Max2(zext(Half, a), zext(Half, b))
       /\ After("minu_w", a, b) = Min2(zext(Half, a), zext(Half, b))
  <2>1. /\ After("maxu_w", a, b) = Word(zext(Half, Max2(y, z)))
        /\ After("minu_w", a, b) = Word(zext(Half, Min2(y, z)))
    BY <1>2, <1>4, AmoValues
  <2>2. QED BY <1>4, <1>6, <1>7, <1>11, <1>12, <2>1
<1>17. QED BY <1>13, <1>14, <1>15, <1>16 DEF AmosAre

\* The first part of IntegerCorrect, one case for each instruction.
ComputedHere(x) ==
    \A o \in DOMAIN Computed(x) :
        (o \in ShiftOps => rs2 % W < x) => U(x, Val(o, x)) = U(x, Computed(x)[o])

LEMMA LowBitsComputed ==
  ASSUME NEW x \in {Half, W}, NEW a \in Unsigned, NEW b \in Unsigned, rs1 = a, rs2 = b
  PROVE  ComputedHere(x)
<1>1. x \in 1 .. W /\ a \in Int /\ b \in Int
  BY WordPowers DEF Unsigned
<1>2. PICK k : k = b % x
  OBVIOUS
<1>3. PICK s \in Int, t \in Int, u \in Int, v \in Int :
         s = signed(x, a) /\ t = signed(x, b) /\ u = zext(x, a) /\ v = zext(x, b)
  BY <1>1, Shifted, PowersAssumption
<1>4. S(x, a) = s /\ S(x, b) = t /\ U(x, a) = u /\ U(x, b) = v
  BY <1>1, <1>3, InWords
<1>5. PICK c1, c2, c3, c4, c5, c6, c7, c8, c9, c10, c11 :
         /\ c1 = a + b /\ c2 = a - b /\ c3 = a * b /\ c4 = a * 2^k
         /\ c5 = u \div 2^k /\ c6 = s \div 2^k
         /\ c7 = (IF s < t THEN 1 ELSE 0) /\ c8 = (IF u < v THEN 1 ELSE 0)
         /\ c9 = (s * t) \div 2^x /\ c10 = (s * v) \div 2^x /\ c11 = (u * v) \div 2^x
  OBVIOUS
<1>6. Computed(x) = [add |-> c1, addi |-> c1, sub |-> c2, mul |-> c3, sll |-> c4, slli |-> c4,
                     srl |-> c5, srli |-> c5, sra |-> c6, srai |-> c6, slt |-> c7, sltu |-> c8,
                     mulh |-> c9, mulhsu |-> c10, mulhu |-> c11]
  BY <1>2, <1>4, <1>5, Zenon DEF Computed
<1>7. ASSUME NEW o, NEW n, zext(x, ValueOf(o, x, a, b)) = zext(x, n)
      PROVE  U(x, Val(o, x)) = U(x, n)
  BY <1>7, Zenon DEF Val, ValueOf, U, zext
<1>8. /\ zext(x, ValueOf("add", x, a, b)) = zext(x, c1)
      /\ zext(x, ValueOf("addi", x, a, b)) = zext(x, c1)
      /\ zext(x, ValueOf("sub", x, a, b)) = zext(x, c2)
      /\ zext(x, ValueOf("mul", x, a, b)) = zext(x, c3)
  BY <1>1, <1>5, SumsComputed
<1>9. /\ zext(x, ValueOf("slt", x, a, b)) = zext(x, c7)
      /\ zext(x, ValueOf("sltu", x, a, b)) = zext(x, c8)
  <2>1. /\ zext(x, ValueOf("slt", x, a, b)) = zext(x, IF signed(x, a) < signed(x, b) THEN 1 ELSE 0)
        /\ zext(x, ValueOf("sltu", x, a, b)) = zext(x, IF zext(x, a) < zext(x, b) THEN 1 ELSE 0)
    BY <1>1, SumsComputed
  <2>2. c7 = (IF signed(x, a) < signed(x, b) THEN 1 ELSE 0) /\ c8 = (IF zext(x, a) < zext(x, b) THEN 1 ELSE 0)
    BY <1>3, <1>5, Zenon
  <2>3. QED BY <2>1, <2>2, Zenon
<1>10. /\ zext(x, ValueOf("sll", x, a, b)) = zext(x, c4)
       /\ zext(x, ValueOf("srl", x, a, b)) = zext(x, c5)
       /\ zext(x, ValueOf("sra", x, a, b)) = zext(x, c6)
       /\ b % W < x => /\ zext(x, ValueOf("slli", x, a, b)) = zext(x, c4)
                       /\ zext(x, ValueOf("srli", x, a, b)) = zext(x, c5)
                       /\ zext(x, ValueOf("srai", x, a, b)) = zext(x, c6)
  <2>1. /\ zext(x, ValueOf("sll", x, a, b)) = zext(x, a * 2^k)
        /\ zext(x, ValueOf("srl", x, a, b)) = zext(x, zext(x, a) \div 2^k)
        /\ zext(x, ValueOf("sra", x, a, b)) = zext(x, signed(x, a) \div 2^k)
    BY <1>1, <1>2, ShiftsComputed
  <2>2. ASSUME b % W < x
        PROVE  /\ zext(x, ValueOf("slli", x, a, b)) = zext(x, a * 2^k)
               /\ zext(x, ValueOf("srli", x, a, b)) = zext(x, zext(x, a) \div 2^k)
               /\ zext(x, ValueOf("srai", x, a, b)) = zext(x, signed(x, a) \div 2^k)
    BY <1>1, <1>2, <2>2, ShiftsComputed
  <2>3. c4 = a * 2^k /\ c5 = zext(x, a) \div 2^k /\ c6 = signed(x, a) \div 2^k
    BY <1>3, <1>5
  <2>4. QED BY <2>1, <2>2, <2>3
<1>11. /\ zext(x, ValueOf("mulh", x, a, b)) = zext(x, c9)
       /\ zext(x, ValueOf("mulhsu", x, a, b)) = zext(x, c10)
       /\ zext(x, ValueOf("mulhu", x, a, b)) = zext(x, c11)
  BY <1>3, <1>5, ProductsComputed
<1>12. SUFFICES ASSUME NEW o \in DOMAIN Computed(x), o \in ShiftOps => b % W < x
                PROVE  U(x, Val(o, x)) = U(x, Computed(x)[o])
  BY DEF ComputedHere
<1>13. DOMAIN Computed(x) = {"add", "addi", "sub", "mul", "sll", "slli", "srl", "srli", "sra",
                             "srai", "slt", "sltu", "mulh", "mulhsu", "mulhu"}
  BY <1>6
<1>14. PICK n : n = Computed(x)[o]
  OBVIOUS
<1>15. zext(x, ValueOf(o, x, a, b)) = zext(x, n)
  <2>1. CASE o \in {"add", "addi", "sub", "mul"}
    <3>1. n = IF o \in {"add", "addi"} THEN c1 ELSE IF o = "sub" THEN c2 ELSE c3
      BY <1>6, <1>14, <2>1
    <3>2. QED BY <1>8, <2>1, <3>1
  <2>2. CASE o \in {"slt", "sltu"}
    <3>1. n = IF o = "slt" THEN c7 ELSE c8
      BY <1>6, <1>14, <2>2
    <3>2. QED BY <1>9, <2>2, <3>1
  <2>3. CASE o \in {"sll", "srl", "sra", "slli", "srli", "srai"}
    <3>1. n = IF o \in {"sll", "slli"} THEN c4 ELSE IF o \in {"srl", "srli"} THEN c5 ELSE c6
      BY <1>6, <1>14, <2>3
    <3>2. o \in {"slli", "srli", "srai"} => b % W < x
      BY <1>12 DEF ShiftOps
    <3>3. QED BY <1>10, <2>3, <3>1, <3>2
  <2>4. CASE o \in {"mulh", "mulhsu", "mulhu"}
    <3>1. n = IF o = "mulh" THEN c9 ELSE IF o = "mulhsu" THEN c10 ELSE c11
      BY <1>6, <1>14, <2>4
    <3>2. QED BY <1>11, <2>4, <3>1
  <2>5. QED BY <1>13, <2>1, <2>2, <2>3, <2>4
<1>16. QED BY <1>7, <1>14, <1>15

\* What a call's operands are: two words, in the wide or the narrow mode.
IntegerOperands ==
  Called("alu") => rs1 \in Unsigned /\ rs2 \in Unsigned /\ rs3 \in {Half, W}

\* For words of any even width of at least four bits, both modes and every two
\* words: the integer instructions compute the exact result modulo 2^xprlen,
\* quotients and remainders belong together, results of sign-extended operands
\* are sign-extended, the word forms agree with the plain forms of the narrow
\* mode, the branches with their comparisons and the atomic operations store
\* the sum, the maximum or the minimum.
THEOREM IntegersAlwaysCorrect ==
  ASSUME PowersHold, Half >= 2
  PROVE  IntegerOperands => IntegerCorrect
<1> SUFFICES ASSUME IntegerOperands, Called("alu"), NEW a, NEW b, NEW x, rs1 = a, rs2 = b, rs3 = x
             PROVE  IntegerCorrect
  BY DEF IntegerCorrect
<1>1. a \in Unsigned /\ b \in Unsigned /\ x \in {Half, W}
  BY DEF IntegerOperands
<1>2. x \in 1 .. W /\ W \in 1 .. W /\ Half \in 1 .. W /\ a \in Int /\ b \in Int
  BY <1>1, WordPowers DEF Unsigned
<1>3. ASSUME NEW o, NEW y PROVE Val(o, y) = ValueOf(o, y, a, b)
  BY Zenon DEF Val, ValueOf
<1>4. ComputedHere(x)
  BY <1>1, LowBitsComputed
<1>5. ASSUME NEW o \in RegOps \cup ImmOps \cup ShiftOps, Canonical(x, a), Canonical(x, b)
      PROVE  Extended(x, Val(o, x)) /\ Canonical(x, Val(o, x))
  <2>1. Extended(x, a) /\ Extended(x, b)
    BY <1>1, <1>2, <1>5, InWords DEF Extended
  <2>2. Extended(x, ValueOf(o, x, a, b))
    <3>1. CASE o \in {"add", "addi", "sub", "mul", "slt", "slti", "sltu", "sltiu"}
      BY <1>1, <1>2, <3>1, SumsExtended
    <3>2. CASE o \in {"and", "or", "xor", "andi", "ori", "xori"}
      BY <1>1, <2>1, <3>2, BitwiseAreExtended
    <3>3. CASE o \in {"sll", "srl", "sra", "slli", "srli", "srai"}
      BY <1>1, <1>2, <3>3, ShiftsExtended
    <3>4. CASE o \in {"mulh", "mulhsu", "mulhu"}
      BY <1>1, <3>4, ProductsExtended
    <3>5. CASE o \in {"div", "divu", "rem", "remu"}
      BY <1>1, <3>5, QuotientsExtended
    <3>6. QED BY <1>5, <3>1, <3>2, <3>3, <3>4, <3>5 DEF RegOps, ImmOps, ShiftOps
  <2>3. PICK v \in Unsigned : v = Val(o, x) /\ v = sext(x, v)
    BY <1>3, <2>2 DEF Extended
  <2>4. v \in Int
    BY <1>2, WordPowers DEF Unsigned
  <2>5. Canonical(x, v)
    BY <1>2, <2>3, <2>4, InWords
  <2>6. QED BY <2>3, <2>5 DEF Extended
<1>6. Divides(x, S(x, a), S(x, b), S(x, Val("div", x)), S(x, Val("rem", x)))
  <2>1. SUFFICES \A v \in {a, b, Val("div", x), Val("rem", x)} : S(x, v) = signed(x, v)
    BY <1>1, <1>3, SignedDivides
  <2>2. ValueOf("div", x, a, b) \in Unsigned /\ ValueOf("rem", x, a, b) \in Unsigned
    BY <1>1, QuotientsExtended DEF Extended
  <2>3. \A v \in Unsigned : v \in Int
    BY WordPowers DEF Unsigned
  <2>4. QED BY <1>1, <1>2, <1>3, <2>2, <2>3, InWords
<1>7. Divides(x, U(x, a), U(x, b), U(x, Val("divu", x)), U(x, Val("remu", x)))
  BY <1>1, <1>3, UnsignedDivides DEF U, zext
<1>8. ASSUME NEW o \in WordOps, Narrow[o] \in ShiftOps => b % W < Half
      PROVE  Val(o, W) = U(W, S(Half, Val(Narrow[o], Half)))
  <2>1. Val(o, W) = sext(Half, Val(Narrow[o], Half))
    BY <1>1, <1>3, <1>8, WordFormsAgree
  <2>2. PICK v : v = Val(Narrow[o], Half)
    OBVIOUS
  <2>3. U(W, S(Half, v)) = sext(Half, v)
    <3>1. v \in Int
      <4>1. v \in Unsigned
        BY <1>1, <1>3, <1>8, <2>2, WordFormsAgree
      <4>2. QED BY <4>1, WordPowers DEF Unsigned
    <3>2. QED BY <1>2, <3>1, InWords DEF sext, U, Word
  <2>4. QED BY <2>1, <2>2, <2>3
<1>9. BranchesCorrect(x, Reg(a), Reg(b), a, b)
  BY <1>2, RegValue, BranchesAgree
<1>10. /\ I("none")!blt(x, Reg(a), Reg(b)) = (S(x, a) < S(x, b))
       /\ I("none")!bge(x, Reg(a), Reg(b)) = (S(x, a) >= S(x, b))
       /\ I("none")!bltu(x, Reg(a), Reg(b)) = (U(x, a) < U(x, b))
       /\ I("none")!bgeu(x, Reg(a), Reg(b)) = (U(x, a) >= U(x, b))
       /\ I("none")!beq(x, Reg(a), Reg(b)) = (U(x, a) = U(x, b))
       /\ I("none")!bne(x, Reg(a), Reg(b)) = (U(x, a) # U(x, b))
  <2>1. S(x, a) = signed(x, a) /\ S(x, b) = signed(x, b) /\ U(x, a) = zext(x, a) /\ U(x, b) = zext(x, b)
    BY <1>2, InWords
  <2>2. QED BY <1>9, <2>1, Zenon DEF BranchesCorrect
<1>11. AmosCorrect
  <2>1. /\ S(W, a) = signed(W, a) /\ S(W, b) = signed(W, b)
        /\ S(Half, a) = signed(Half, a) /\ S(Half, b) = signed(Half, b)
    BY <1>2, InWords
  <2>2. AmosAre(a, b)
    BY <1>1, AmosAgree
  <2>3. QED BY <2>1, <2>2, Zenon DEF AmosCorrect, AmosAre, After, U, zext, Word
<1>12. QED BY <1>4, <1>5, <1>6, <1>7, <1>8, <1>10, <1>11, Zenon DEF IntegerCorrect, ComputedHere
=============================================================================
