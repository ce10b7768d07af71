------------------------------- MODULE IntInsns -------------------------------
(***************************************************************************)
(* What the integer instructions return, compared with exact arithmetic,   *)
(* and which tags they may give their results under each policy.           *)
(***************************************************************************)
EXTENDS Words, Call
I(Policy) == INSTANCE Alu

ASSUME PowersAssumption == PowersOfTwo

\* The integer instructions in the wide and the narrow mode (rs3 is xprlen, W or Half).
\* Values are numbers of the low c bits of the registers, S signed, U not;
\* Expected is what the instruction is to compute from them.
RegOps == {"add", "sub", "and", "or", "xor", "sll", "srl", "sra", "slt", "sltu", "mul",
           "mulh", "mulhsu", "mulhu", "div", "divu", "rem", "remu"}
ImmOps == {"addi", "andi", "ori", "xori", "slti", "sltiu"}
ShiftOps == {"slli", "srli", "srai"}
WordOps == {"addw", "subw", "sllw", "srlw", "sraw", "mulw", "divw", "divuw", "remw", "remuw",
            "addiw", "slliw", "srliw", "sraiw"}
Narrow == [addw |-> "add", subw |-> "sub", sllw |-> "sll", srlw |-> "srl", sraw |-> "sra",
           mulw |-> "mul", divw |-> "div", divuw |-> "divu", remw |-> "rem", remuw |-> "remu",
           addiw |-> "addi", slliw |-> "slli", srliw |-> "srli", sraiw |-> "srai"]
Insn(o, p, x, r, s) ==
    CASE o = "add" -> I(p)!add(x, r, s) [] o = "sub" -> I(p)!sub(x, r, s)
      [] o = "and" -> I(p)!and(x, r, s) [] o = "or" -> I(p)!or(x, r, s)
      [] o = "xor" -> I(p)!xor(x, r, s) [] o = "sll" -> I(p)!sll(x, r, s)
      [] o = "srl" -> I(p)!srl(x, r, s) [] o = "sra" -> I(p)!sra(x, r, s)
      [] o = "slt" -> I(p)!slt(x, r, s) [] o = "sltu" -> I(p)!sltu(x, r, s)
      [] o = "mul" -> I(p)!mul(x, r, s) [] o = "mulh" -> I(p)!mulh(x, r, s)
      [] o = "mulhsu" -> I(p)!mulhsu(x, r, s) [] o = "mulhu" -> I(p)!mulhu(x, r, s)
      [] o = "div" -> I(p)!div(x, r, s) [] o = "divu" -> I(p)!divu(x, r, s)
      [] o = "rem" -> I(p)!rem(x, r, s) [] o = "remu" -> I(p)!remu(x, r, s)
      [] o = "addw" -> I(p)!addw(x, r, s) [] o = "subw" -> I(p)!subw(x, r, s)
      [] o = "sllw" -> I(p)!sllw(x, r, s) [] o = "srlw" -> I(p)!srlw(x, r, s)
      [] o = "sraw" -> I(p)!sraw(x, r, s) [] o = "mulw" -> I(p)!mulw(x, r, s)
      [] o = "divw" -> I(p)!divw(x, r, s) [] o = "divuw" -> I(p)!divuw(x, r, s)
      [] o = "remw" -> I(p)!remw(x, r, s) [] o = "remuw" -> I(p)!remuw(x, r, s)
      [] o = "addi" -> I(p)!addi(x, r, s.val) [] o = "andi" -> I(p)!andi(x, r, s.val)
      [] o = "ori" -> I(p)!ori(x, r, s.val) [] o = "xori" -> I(p)!xori(x, r, s.val)
      [] o = "slti" -> I(p)!slti(x, r, s.val) [] o = "sltiu" -> I(p)!sltiu(x, r, s.val)
      [] o = "slli" -> I(p)!slli(x, r, s.val) [] o = "srli" -> I(p)!srli(x, r, s.val)
      [] o = "srai" -> I(p)!srai(x, r, s.val) [] o = "addiw" -> I(p)!addiw(x, r, s.val)
      [] o = "slliw" -> I(p)!slliw(x, r, s.val) [] o = "srliw" -> I(p)!srliw(x, r, s.val)
      [] o = "sraiw" -> I(p)!sraiw(x, r, s.val)

U(x, v) == v % 2^x
S(x, v) == IF U(x, v) < 2^(x - 1) THEN U(x, v) ELSE U(x, v) - 2^x
Canonical(x, v) == v = U(W, S(x, v))
\* The quotient and the remainder of q * n + r = m, |r| < |n|, r with the sign
\* of m; by zero the quotient is -1 and the remainder m.
Divides(x, m, n, q, r) ==
    IF n = 0 THEN U(x, q) = 2^x - 1 /\ U(x, r) = U(x, m)
    ELSE /\ U(x, q * n + r) = U(x, m)
         /\ IF r < 0 THEN -r < magnitude(n) ELSE r < magnitude(n)
         /\ r # 0 => (r < 0) = (m < 0)
         /\ q # -(2^(x - 1)) => q * n + r = m
Reg(v) == [val |-> v, tag |-> {}]
Val(o, x) == Insn(o, "none", x, Reg(rs1), Reg(rs2)).val
Computed(x) ==
    LET k == rs2 % x IN
    [add |-> rs1 + rs2, addi |-> rs1 + rs2, sub |-> rs1 - rs2, mul |-> rs1 * rs2,
     sll |-> rs1 * 2^k, slli |-> rs1 * 2^k,
     srl |-> U(x, rs1) \div 2^k, srli |-> U(x, rs1) \div 2^k,
     sra |-> S(x, rs1) \div 2^k, srai |-> S(x, rs1) \div 2^k,
     slt |-> IF S(x, rs1) < S(x, rs2) THEN 1 ELSE 0,
     sltu |-> IF U(x, rs1) < U(x, rs2) THEN 1 ELSE 0,
     mulh |-> (S(x, rs1) * S(x, rs2)) \div 2^x,
     mulhsu |-> (S(x, rs1) * U(x, rs2)) \div 2^x,
     mulhu |-> (U(x, rs1) * U(x, rs2)) \div 2^x]

\* What an atomic operation leaves in memory and in rd.
Max2(v, w) == IF v < w THEN w ELSE v
Min2(v, w) == IF v < w THEN v ELSE w
Amo(o, p, x, v, r) ==
    CASE o = "add_w" -> I(p)!amoadd_w(x, v, r) [] o = "add_d" -> I(p)!amoadd_d(x, v, r)
      [] o = "swap_w" -> I(p)!amoswap_w(x, v, r) [] o = "swap_d" -> I(p)!amoswap_d(x, v, r)
      [] o = "and_w" -> I(p)!amoand_w(x, v, r) [] o = "and_d" -> I(p)!amoand_d(x, v, r)
      [] o = "or_w" -> I(p)!amoor_w(x, v, r) [] o = "or_d" -> I(p)!amoor_d(x, v, r)
      [] o = "xor_w" -> I(p)!amoxor_w(x, v, r) [] o = "xor_d" -> I(p)!amoxor_d(x, v, r)
      [] o = "max_w" -> I(p)!amomax_w(x, v, r) [] o = "max_d" -> I(p)!amomax_d(x, v, r)
      [] o = "maxu_w" -> I(p)!amomaxu_w(x, v, r) [] o = "maxu_d" -> I(p)!amomaxu_d(x, v, r)
      [] o = "min_w" -> I(p)!amomin_w(x, v, r) [] o = "min_d" -> I(p)!amomin_d(x, v, r)
      [] o = "minu_w" -> I(p)!amominu_w(x, v, r) [] o = "minu_d" -> I(p)!amominu_d(x, v, r)
AmosCorrect ==
    LET after(o) == Amo(o, "none", W, Reg(rs1), Reg(rs2)).mem.val
    IN  /\ after("add_d") = U(W, rs1 + rs2) /\ after("add_w") = U(Half, rs1 + rs2)
        /\ after("max_d") = U(W, Max2(S(W, rs1), S(W, rs2)))
        /\ after("max_w") = U(Half, Max2(S(Half, rs1), S(Half, rs2)))
        /\ after("maxu_d") = Max2(rs1, rs2) /\ after("maxu_w") = Max2(U(Half, rs1), U(Half, rs2))
        /\ after("min_d") = U(W, Min2(S(W, rs1), S(W, rs2)))
        /\ after("min_w") = U(Half, Min2(S(Half, rs1), S(Half, rs2)))
        /\ after("minu_d") = Min2(rs1, rs2) /\ after("minu_w") = Min2(U(Half, rs1), U(Half, rs2))

\* Integer instructions: the low bits of a result are the exact result modulo
\* 2^xprlen, whatever the high halves of the operands hold; a quotient and a
\* remainder belong together, also by zero and for the most negative dividend
\* by -1; of operands that are sign-extended, the result is too; a word form
\* computes in the wide mode what the plain form computes in the narrow one;
\* and a branch agrees with the comparison of its name.
IntegerCorrect ==
    Called("alu") =>
        LET x == rs3 IN
        /\ \A o \in DOMAIN Computed(x) :
              (o \in ShiftOps => rs2 % W < x) => U(x, Val(o, x)) = U(x, Computed(x)[o])
        /\ Divides(x, S(x, rs1), S(x, rs2), S(x, Val("div", x)), S(x, Val("rem", x)))
        /\ Divides(x, U(x, rs1), U(x, rs2), U(x, Val("divu", x)), U(x, Val("remu", x)))
        /\ \A o \in RegOps \cup ImmOps \cup ShiftOps :
              Canonical(x, rs1) /\ Canonical(x, rs2) => Canonical(x, Val(o, x))
        /\ x = W => \A o \in WordOps :
              (Narrow[o] \in ShiftOps => rs2 % W < Half) => Val(o, W) = U(W, S(Half, Val(Narrow[o], Half)))
        /\ I("none")!blt(x, Reg(rs1), Reg(rs2)) = (S(x, rs1) < S(x, rs2))
        /\ I("none")!bge(x, Reg(rs1), Reg(rs2)) = (S(x, rs1) >= S(x, rs2))
        /\ I("none")!bltu(x, Reg(rs1), Reg(rs2)) = (U(x, rs1) < U(x, rs2))
        /\ I("none")!bgeu(x, Reg(rs1), Reg(rs2)) = (U(x, rs1) >= U(x, rs2))
        /\ I("none")!beq(x, Reg(rs1), Reg(rs2)) = (U(x, rs1) = U(x, rs2))
        /\ I("none")!bne(x, Reg(rs1), Reg(rs2)) = (U(x, rs1) # U(x, rs2))
        /\ AmosCorrect

\* No computation makes a return tag (tagpolicy.h: "only call sets 'ret' tag"):
\* under every policy, an instruction that computes from integer registers
\* gives its result the return tag only when an operand has it, and an atomic
\* operation likewise for what it stores and what it returns.  Under
\* NO_RETURN_COPY ("no arith on tags") no result of two registers has it,
\* except a remainder by zero, which is a copy of its dividend.  An instruction
\* that writes the value of rd alone (WRITE_RD) leaves a return tag in rd only
\* where rd had one; that tag is then on a value that no call made.
\*
\* Not about: jal, jalr, auipc and settag, which set the tag themselves; loads
\* and lr, which copy that of memory; lui, sc and the csr instructions, whose
\* tag is a constant without it; and amomaxu_w, amomin_d, amomin_w and
\* amominu_d, which make a tag of the value of the word, so that they may
\* forge one.
Policies == {"none", "NO_RETURN_COPY", "NO_PARTIAL_COPY"}
Tags == SUBSET (0 .. 2)
IsReturn(t) == 0 \in t
TaggedByValue == {"maxu_w", "min_d", "min_w", "minu_d"}
AmoOps == {"add_w", "add_d", "swap_w", "swap_d", "and_w", "and_d", "or_w", "or_d", "xor_w",
           "xor_d", "max_w", "max_d", "maxu_d", "minu_w"}
TagsNotForged ==
    Called("tags") =>
        \A p \in Policies, s, t \in Tags :
            LET r == [val |-> rs1, tag |-> s]
                q == [val |-> rs2, tag |-> t]
                forged(v) == IsReturn(v.tag) /\ ~ IsReturn(s) /\ ~ IsReturn(t)
            IN  /\ \A o \in RegOps \cup WordOps : ~ forged(Insn(o, p, rs3, r, q))
                /\ p = "NO_RETURN_COPY" /\ rs3 = W =>
                      \A o \in RegOps : IsReturn(Insn(o, p, rs3, r, q).tag)
                                          => o \in {"rem", "remu"} /\ rs2 = 0
                /\ \A o \in ImmOps \cup ShiftOps :
                      LET z == Insn(o, p, rs3, r, q) IN z.tag \in {s, I(p)!NoTag}
                /\ rs3 = W => \A o \in AmoOps :
                      LET z == Amo(o, p, rs3, r, q) IN ~ forged(z.mem) /\ ~ forged(z.rd)
                /\ IsReturn(I(p)!WRITE_RD(q, rs1).tag) => IsReturn(t)
=============================================================================
