--------------------------------- MODULE Alu ---------------------------------
(***************************************************************************)
(* The integer instructions that compute (riscv/insns/*.h, mulhi.h) and    *)
(* the tags they give their results (tagpolicy.h).                         *)
(*                                                                         *)
(* A register is a record of a word of W bits (64 in the code) and a tag; a*)
(* hart in its 32-bit mode computes in the same registers.  x is xprlen, W *)
(* or W / 2, and i a sign-extended immediate as a word.  A tag is the set  *)
(* of its bits: what &, |, ^ and ~ do to tags and, in the bitwise          *)
(* instructions, to words is intersection, union and difference.           *)
(***************************************************************************)
EXTENDS Words

CONSTANT  Policy        \* "NO_RETURN_COPY", "NO_PARTIAL_COPY" or "none"

\* The bits of a word, and the word that has them.
bits(v) == {k \in 0 .. W - 1 : (v \div 2^k) % 2 = 1}
ofBits(B) == CHOOSE v \in 0 .. 2^W - 1 : \A k \in 0 .. W - 1 : (v \div 2^k) % 2 = 1 <=> k \in B
BitXor(B, C) == (B \cup C) \ (B \cap C)

------------------------------------------------------------------------------
\* Tags.
TAG_NULL == {}
TAG_PC == {0}
TAG_DATA == {2}
TAG_IMMEDIATE == {}
PRIV_MASK == TAG_PC
UNPRIV_MASK == TAG_DATA
TAG_MAX(s, t) == (PRIV_MASK \cap (s \cup t)) \cup (UNPRIV_MASK \cap (s \cap t))
TAG_MIN(s, t) == (PRIV_MASK \cap (s \cap t)) \cup (UNPRIV_MASK \cap (s \cup t))
CLEAR_PC_TAG(t) == t \ TAG_PC
TAG_ADD(s, t) == CASE Policy = "NO_RETURN_COPY" -> CLEAR_PC_TAG(BitXor(s, t))
                   [] Policy = "NO_PARTIAL_COPY" -> TAG_MAX(s, t)
                   [] Policy = "none" -> BitXor(s, t)
TAG_SUB(s, t) == TAG_ADD(s, t)
TAG_ARITH_COPY(s, t) == CASE Policy = "NO_PARTIAL_COPY" -> TAG_MIN(s, t)
                          [] OTHER -> s \cap t
TAG_ARITH(s, t) == CASE Policy = "NO_RETURN_COPY" -> CLEAR_PC_TAG(s \cap t)
                     [] Policy = "NO_PARTIAL_COPY" -> TAG_MIN(s, t)
                     [] Policy = "none" -> s \cap t
TAG_LOGIC(s, t) == CASE Policy = "NO_RETURN_COPY" -> CLEAR_PC_TAG(s \cap t)
                     [] Policy = "NO_PARTIAL_COPY" -> TAG_MAX(s, t)
                     [] Policy = "none" -> s \cap t

\* WRITE_RD_AND_TAG, and the results of the three kinds of instruction.  The
\* tag of an instruction with an immediate is that of its register.
RD(v, t) == [val |-> Word(v), tag |-> t]
\* WRITE_RD, of the instructions that move a floating point value to rd or
\* compare, classify or convert one into it, and of coprocessors: rd, d before,
\* gets the value and keeps its tag.
WRITE_RD(d, v) == RD(v, d.tag)
Sum(v, a, b)   == RD(v, TAG_ADD(a.tag, b.tag))
Logic(v, a, b) == RD(v, TAG_LOGIC(a.tag, b.tag))
Arith(v, a, b) == RD(v, TAG_ARITH(a.tag, b.tag))
\* A trap writes nothing: {-1} is not a tag.
NoTag == {-1}
illegal == [val |-> 0, tag |-> NoTag]
require_xpr64(x, result) == IF x = W THEN result ELSE illegal

------------------------------------------------------------------------------
\* Sums and bitwise operations.
add(x, a, b)  == Sum(sext(x, a.val + b.val), a, b)
addi(x, a, i) == RD(sext(x, a.val + i), a.tag)
addw(x, a, b)  == require_xpr64(x, Sum(sext32(a.val + b.val), a, b))
addiw(x, a, i) == require_xpr64(x, RD(sext32(i + a.val), a.tag))
sub(x, a, b)  == RD(sext(x, a.val - b.val), TAG_SUB(a.tag, b.tag))
subw(x, a, b) == require_xpr64(x, RD(sext32(a.val - b.val), TAG_SUB(a.tag, b.tag)))
and(x, a, b)  == Logic(ofBits(bits(a.val) \cap bits(b.val)), a, b)
andi(x, a, i) == RD(ofBits(bits(i) \cap bits(a.val)), a.tag)
or(x, a, b)   == Logic(ofBits(bits(a.val) \cup bits(b.val)), a, b)
ori(x, a, i)  == RD(ofBits(bits(i) \cup bits(a.val)), a.tag)
xor(x, a, b)  == Logic(ofBits(BitXor(bits(a.val), bits(b.val))), a, b)
xori(x, a, i) == RD(ofBits(BitXor(bits(i), bits(a.val))), a.tag)
lui(x, i) == RD(i, TAG_IMMEDIATE)
auipc(x, i, pc) == RD(sext(x, i + pc), TAG_PC)

\* Shifts.  A masked amount is RS2 & (n - 1); SHAMT has one bit more than a
\* 32-bit register can use, and that bit is illegal there.
SHAMT(i) == i % W
sll(x, a, b)  == Logic(sext(x, a.val * 2^(b.val % x)), a, b)
slli(x, a, i) == IF x = W THEN RD(a.val * 2^SHAMT(i), a.tag)
                 ELSE IF SHAMT(i) >= Half THEN illegal
                 ELSE RD(sext32(a.val * 2^SHAMT(i)), a.tag)
sllw(x, a, b)  == require_xpr64(x, Logic(sext32(a.val * 2^(b.val % Half)), a, b))
slliw(x, a, i) == require_xpr64(x, RD(sext32(a.val * 2^SHAMT(i)), a.tag))
srl(x, a, b)  == Logic(IF x = W THEN a.val \div 2^(b.val % W)
                       ELSE sext32(zext(Half, a.val) \div 2^(b.val % Half)), a, b)
srli(x, a, i) == IF x = W THEN RD(a.val \div 2^SHAMT(i), a.tag)
                 ELSE IF SHAMT(i) >= Half THEN illegal
                 ELSE RD(sext32(zext(Half, a.val) \div 2^SHAMT(i)), a.tag)
srlw(x, a, b)  == require_xpr64(x,
                    Logic(sext32(zext(Half, a.val) \div 2^(b.val % Half)), a, b))
srliw(x, a, i) == require_xpr64(x,
                    RD(sext32(zext(Half, a.val) \div 2^SHAMT(i)), a.tag))
sra(x, a, b)  == Logic(sext(x, signed(x, a.val) \div 2^(b.val % x)), a, b)
srai(x, a, i) == IF x = W THEN RD(signed(W, a.val) \div 2^SHAMT(i), a.tag)
                 ELSE IF SHAMT(i) >= Half THEN illegal
                 ELSE RD(sext32(signed(Half, a.val) \div 2^SHAMT(i)), a.tag)
sraw(x, a, b)  == require_xpr64(x,
                    Logic(sext32(signed(Half, a.val) \div 2^(b.val % Half)), a, b))
sraiw(x, a, i) == require_xpr64(x,
                    RD(sext32(signed(Half, a.val) \div 2^SHAMT(i)), a.tag))

\* Comparisons.
slt(x, a, b)   == Logic(Bool(less(x, a.val, b.val)), a, b)
slti(x, a, i)  == RD(Bool(less(x, a.val, i)), a.tag)
sltu(x, a, b)  == Logic(Bool(lessWord(x, a.val, b.val)), a, b)
sltiu(x, a, i) == RD(Bool(lessWord(x, a.val, i)), a.tag)
beq(x, a, b)  == cmp_trunc(x, a.val) = cmp_trunc(x, b.val)
bne(x, a, b)  == cmp_trunc(x, a.val) # cmp_trunc(x, b.val)
blt(x, a, b)  == less(x, a.val, b.val)
bge(x, a, b)  == ~ less(x, a.val, b.val)
bltu(x, a, b) == lessWord(x, a.val, b.val)
bgeu(x, a, b) == ~ lessWord(x, a.val, b.val)

------------------------------------------------------------------------------
\* Products.
mul(x, a, b)  == Arith(sext(x, a.val * b.val), a, b)
mulw(x, a, b) == require_xpr64(x, Arith(sext32(a.val * b.val), a, b))
mulh(x, a, b) ==
    Arith(IF x = W THEN mulh64(signed(W, a.val), signed(W, b.val))
          ELSE sext32((signed(Half, a.val) * signed(Half, b.val)) \div 2^Half), a, b)
mulhsu(x, a, b) ==
    Arith(IF x = W THEN mulhsu64(signed(W, a.val), b.val)
          ELSE sext32(Word(sext32(a.val) * zext(Half, b.val)) \div 2^Half), a, b)
mulhu(x, a, b) ==
    Arith(IF x = W THEN mulhu64(a.val, b.val)
          ELSE sext32((zext(Half, a.val) * zext(Half, b.val)) \div 2^Half), a, b)

\* Quotients and remainders.  A remainder by zero keeps the tag of the
\* dividend, and the one of the overflow has none.
div(x, a, b) ==
    LET lhs == signed(x, a.val)
        rhs == signed(x, b.val)
    IN  Arith(CASE rhs = 0 -> 2^W - 1
                [] rhs # 0 /\ lhs = -(2^(W - 1)) /\ rhs = -1 -> lhs
                [] OTHER -> sext(x, quotient(lhs, rhs)), a, b)
divu(x, a, b) ==
    LET rhs == zext(x, b.val)
    IN  Arith(IF rhs = 0 THEN 2^W - 1 ELSE sext(x, zext(x, a.val) \div rhs), a, b)
divw(x, a, b) ==
    LET rhs == signed(Half, b.val)
    IN  require_xpr64(x, Arith(IF rhs = 0 THEN 2^W - 1
                               ELSE sext32(quotient(signed(Half, a.val), rhs)), a, b))
divuw(x, a, b) ==
    LET rhs == zext(Half, b.val)
    IN  require_xpr64(x, Arith(IF rhs = 0 THEN 2^W - 1
                               ELSE sext32(zext(Half, a.val) \div rhs), a, b))
rem(x, a, b) ==
    LET lhs == signed(x, a.val)
        rhs == signed(x, b.val)
    IN  CASE rhs = 0 -> RD(lhs, a.tag)
          [] rhs # 0 /\ lhs = -(2^(W - 1)) /\ rhs = -1 -> RD(0, TAG_NULL)
          [] OTHER -> Arith(sext(x, remainder(lhs, rhs)), a, b)
remu(x, a, b) ==
    LET rhs == zext(x, b.val)
    IN  IF rhs = 0 THEN RD(sext(x, a.val), a.tag)
        ELSE Arith(sext(x, zext(x, a.val) % rhs), a, b)
remw(x, a, b) ==
    LET lhs == signed(Half, a.val)
        rhs == signed(Half, b.val)
    IN  require_xpr64(x, IF rhs = 0 THEN RD(lhs, a.tag)
                         ELSE Arith(sext32(remainder(lhs, rhs)), a, b))
remuw(x, a, b) ==
    LET rhs == zext(Half, b.val)
    IN  require_xpr64(x, IF rhs = 0 THEN RD(sext32(a.val), a.tag)
                         ELSE Arith(sext32(zext(Half, a.val) % rhs), a, b))

------------------------------------------------------------------------------
\* Atomic memory operations: the word v of memory and its tag, RS2 in b.  They
\* return what they store and what they write to rd.  A word form works on the
\* low half, loads it sign-extended and stores the low half of its result.
Amo(new, tag, v) == [mem |-> RD(new, tag), rd |-> v]
AmoW(new, tag, v) == [mem |-> RD(zext(Half, new), tag), rd |-> RD(sext32(v.val), v.tag)]
larger(v, w) == IF v < w THEN w ELSE v
smaller(v, w) == IF w < v THEN w ELSE v
andBits(v, b) == ofBits(bits(b.val) \cap bits(v.val))
orBits(v, b)  == ofBits(bits(b.val) \cup bits(v.val))
xorBits(v, b) == ofBits(BitXor(bits(b.val), bits(v.val)))
\* v.tag combined with TAG_S2; four of them write TAG_LOGIC(v, TAG_S2).
logicTag(v, b) == TAG_LOGIC(v.tag, b.tag)
valueTag(v, b) == TAG_LOGIC(bits(v.val), b.tag)
lowWordTag(v, b) == TAG_LOGIC(bits(sext32(v.val)), b.tag)
amoadd_d(x, v, b)  == require_xpr64(x, Amo(b.val + v.val, TAG_ADD(v.tag, b.tag), v))
amoadd_w(x, v, b)  == AmoW(b.val + v.val, TAG_ADD(v.tag, b.tag), v)
amoswap_d(x, v, b) == require_xpr64(x, Amo(b.val, b.tag, v))
amoswap_w(x, v, b) == AmoW(b.val, b.tag, v)
amoand_d(x, v, b)  == require_xpr64(x, Amo(andBits(v, b), logicTag(v, b), v))
amoand_w(x, v, b)  == AmoW(andBits(v, b), logicTag(v, b), v)
amoor_d(x, v, b)   == require_xpr64(x, Amo(orBits(v, b), logicTag(v, b), v))
amoor_w(x, v, b)   == AmoW(orBits(v, b), logicTag(v, b), v)
amoxor_d(x, v, b)  == require_xpr64(x, Amo(xorBits(v, b), logicTag(v, b), v))
amoxor_w(x, v, b)  == AmoW(xorBits(v, b), logicTag(v, b), v)
amomax_d(x, v, b)  == require_xpr64(x,
    Amo(larger(signed(W, b.val), signed(W, v.val)), logicTag(v, b), v))
amomax_w(x, v, b)  == AmoW(larger(signed(Half, b.val), signed(Half, v.val)), logicTag(v, b), v)
amomaxu_d(x, v, b) == require_xpr64(x, Amo(larger(b.val, v.val), logicTag(v, b), v))
amomaxu_w(x, v, b) == AmoW(larger(zext(Half, b.val), zext(Half, v.val)), lowWordTag(v, b), v)
amomin_d(x, v, b)  == require_xpr64(x,
    Amo(smaller(signed(W, b.val), signed(W, v.val)), valueTag(v, b), v))
amomin_w(x, v, b)  == AmoW(smaller(signed(Half, b.val), signed(Half, v.val)), lowWordTag(v, b), v)
amominu_d(x, v, b) == require_xpr64(x,
    [Amo(smaller(b.val, v.val), valueTag(v, b), v) EXCEPT !.rd.tag = logicTag(v, b)])
amominu_w(x, v, b) == AmoW(smaller(zext(Half, b.val), zext(Half, v.val)), logicTag(v, b), v)
=============================================================================
