----------------------------- MODULE HwachaProofs -----------------------------
(***************************************************************************)
(* Theorems about the vector unit, for every number of processes, size of  *)
(* the unit and block of instructions.                                     *)
(***************************************************************************)
EXTENDS Hwacha, TLAPS

\* Who owns the unit: nothing is kept of a process that is not saved, the
\* current process is not saved, a unit that is nobody's is reset, and only a
\* process within a vf executes a block.
Ownership ==
  /\ \A p \in Procs \ saved : image[p] = ResetUnit
  /\ cur \notin saved
  /\ cur = NoProc => ct = ResetCt /\ ut = ResetUt /\ loc = "kernel"
  /\ loc \in {"fetch", "execute"} => at[cur] = "vf"
  /\ loc = "execute" => ct.vf_pc > 0 /\ Block[ct.vf_pc] # "illegal"

HwachaInv == TypeOK /\ BlockConsistent /\ Ownership

------------------------------------------------------------------------------
USE DEF Misaligned, NoPc, dataVars

\* The vector length a configuration allows never exceeds the array.
LEMMA MaxvlBound ==
  ASSUME NEW nxpr \in Nat, NEW nfpr \in Nat
  PROVE  MaxvlOf(nxpr, nfpr) \in Nat /\ MaxvlOf(nxpr, nfpr) <= max_uts
<1>1. CASE nxpr + nfpr < 2
  BY <1>1, SizesAssumption DEF MaxvlOf, max_uts
<1>2. CASE ~ (nxpr + nfpr < 2)
  <2> DEFINE k == nxpr - 1 + nfpr
             q == Banks \div k
  <2>1. k \in Nat /\ k >= 1
    BY <1>2
  <2> HIDE DEF k
  <2>2. q \in Nat /\ q <= Banks
    BY <2>1, SizesAssumption
  <2> HIDE DEF q
  <2>3. Lanes * q \in Nat /\ Lanes * q <= Lanes * Banks
    BY <2>2, SizesAssumption
  <2> QED BY <1>2, <2>3 DEF MaxvlOf, max_uts, q, k
<1> QED BY <1>1, <1>2

LEMMA SizeFact == max_uts \in Nat /\ max_uts > 0 /\ \A i \in Uts : i \in Nat
BY SizesAssumption DEF max_uts, Uts

\* A reset unit is typed, inactive and consistent.
LEMMA ResetFacts ==
  /\ ResetCt \in Cts /\ ResetUt \in [Uts -> Regs]
  /\ ResetUnit \in [ct : Cts, ut : [Uts -> Regs]]
  /\ ~ Active(ResetCt, ResetUt)
  /\ Consistent(ResetCt, ResetUt)
<1>1. ResetCt \in Cts /\ ResetCt.vl = 0 /\ ResetCt.count = 0 /\ ResetCt.maxvl <= max_uts
      /\ 0 <= ResetCt.maxvl
  <2>1. MaxvlOf(MaxRegs, MaxRegs) \in 0 .. max_uts /\ 0 \in 0 .. max_uts /\ 0 \in Uts
        /\ MaxRegs \in 0 .. MaxRegs
    <3>1. MaxRegs \in Nat
      BY SizesAssumption
    <3>2. MaxvlOf(MaxRegs, MaxRegs) \in Nat /\ MaxvlOf(MaxRegs, MaxRegs) <= max_uts
      BY <3>1, MaxvlBound
    <3> QED BY <3>1, <3>2, SizeFact DEF Uts
  <2> QED BY <2>1 DEF ResetCt, Cts
<1>2. ResetUt \in [Uts -> Regs] /\ \A i \in Uts : ~ ResetUt[i].run
  BY DEF ResetUt, Regs
<1>3. ~ Active(ResetCt, ResetUt)
  BY <1>2 DEF Active, Below
<1>4. Consistent(ResetCt, ResetUt)
  BY <1>1, <1>2, <1>3 DEF Consistent
<1> QED BY <1>1, <1>2, <1>3, <1>4 DEF ResetUnit

\* Updates of a micro-thread and of the control state keep their types.
LEMMA RegsUpdate ==
  ASSUME NEW t \in Regs, NEW v \in Nat, NEW b \in BOOLEAN
  PROVE  /\ [t EXCEPT !.x = v] \in Regs /\ [t EXCEPT !.f = v] \in Regs
         /\ [t EXCEPT !.run = b] \in Regs
<1>1. [t EXCEPT !.x = v] \in Regs /\ [t EXCEPT !.f = v] \in Regs
  BY DEF Regs
<1>2. [t EXCEPT !.run = b] \in Regs
  BY DEF Regs
<1> QED BY <1>1, <1>2
LEMMA CtUpdate ==
  ASSUME NEW c \in Cts, NEW a \in 0 .. MaxRegs, NEW b \in 0 .. MaxRegs,
         NEW m \in 0 .. max_uts, NEW i \in Uts, NEW q \in Int
  PROVE  /\ [c EXCEPT !.nxpr = a, !.nfpr = b, !.maxvl = m, !.vl = 0] \in Cts
         /\ [c EXCEPT !.vl = m] \in Cts
         /\ [c EXCEPT !.vf_pc = q] \in Cts
         /\ [c EXCEPT !.count = i, !.vf_pc = q] \in Cts
         /\ [c EXCEPT !.count = i] \in Cts
<1>1. [c EXCEPT !.nxpr = a, !.nfpr = b, !.maxvl = m, !.vl = 0] \in Cts
  <2>1. 0 \in 0 .. max_uts
    BY SizeFact
  <2> QED BY <2>1 DEF Cts
<1>2. [c EXCEPT !.vl = m] \in Cts /\ [c EXCEPT !.vf_pc = q] \in Cts
  BY DEF Cts
<1>3. [c EXCEPT !.count = i, !.vf_pc = q] \in Cts
  BY DEF Cts
<1>4. [c EXCEPT !.count = i] \in Cts
  BY DEF Cts
<1> QED BY <1>1, <1>2, <1>3, <1>4

\* The numbers of a control state.
LEMMA CtNumbers ==
  ASSUME NEW c \in Cts
  PROVE  /\ c.nxpr \in Nat /\ c.nfpr \in Nat /\ c.maxvl \in Nat /\ c.vl \in Nat
         /\ c.count \in Nat /\ c.count \in Uts /\ c.vf_pc \in Int
         /\ c.maxvl <= max_uts /\ c.vl <= max_uts
BY SizeFact, SizesAssumption DEF Cts

\* What an instruction of a block leaves of micro-thread t, word w and scalar
\* register r.
Leaves(e, insn, t, w, r) ==
  /\ e.t \in Regs /\ e.word \in Nat /\ e.rd \in Nat
  /\ insn = "stop" => e.t.run = FALSE
  /\ insn # "stop" => e.t.run = t.run
  /\ e.t.x = IF insn = "utidx" THEN ct.count ELSE t.x
  /\ e.t.f = CASE insn = "load" -> w [] insn = "fadd" -> t.f + t.f [] OTHER -> t.f
  /\ e.word = CASE insn = "amo" -> w + t.x [] insn = "store" -> t.f [] OTHER -> w
  /\ e.rd = CASE insn = "addi" -> t.x + 1 [] insn = "amo" -> w [] OTHER -> r
LEMMA EffectFacts ==
  ASSUME NEW insn, NEW t \in Regs, NEW w \in Nat, NEW r \in Nat, ct.count \in Nat
  PROVE  Leaves(Effect(insn, [t |-> t, word |-> w, rd |-> r]), insn, t, w, r)
<1> DEFINE s == [t |-> t, word |-> w, rd |-> r]
<1>0. s.t = t /\ s.word = w /\ s.rd = r /\ t.x \in Nat /\ t.f \in Nat /\ t.run \in BOOLEAN
      /\ t = [run |-> t.run, x |-> t.x, f |-> t.f]
  BY DEF Regs
<1>1. CASE insn = "stop"
  <2> DEFINE u == [t EXCEPT !.run = FALSE]
             e == Effect(insn, s)
  <2>1. u \in Regs /\ u.x = t.x /\ u.f = t.f
    BY RegsUpdate DEF Regs
  <2>2. u.run = FALSE
    BY DEF Regs
  <2>3. e = [s EXCEPT !.t = u]
    BY <1>0, <1>1 DEF Effect, ut_stop
  <2> HIDE DEF u
  <2>4. e.t = u /\ e.word = w /\ e.rd = r
    BY <2>3
  <2> HIDE DEF e
  <2>5. Leaves(e, insn, t, w, r)
    BY <1>1, <2>1, <2>2, <2>4 DEF Leaves
  <2> QED BY <2>5 DEF e
<1>2. CASE insn = "utidx"
  <2>1. Effect(insn, s) = [t |-> [run |-> t.run, x |-> ct.count, f |-> t.f], word |-> w, rd |-> r]
    BY <1>0, <1>2 DEF Effect, ut_utidx
  <2> QED BY <1>0, <1>2, <2>1 DEF Leaves, Regs
<1>3. CASE insn = "load"
  <2>1. Effect(insn, s) = [t |-> [run |-> t.run, x |-> t.x, f |-> w], word |-> w, rd |-> r]
    BY <1>0, <1>3 DEF Effect, fld
  <2> QED BY <1>0, <1>3, <2>1 DEF Leaves, Regs
<1>4. CASE insn = "fadd"
  <2>1. Effect(insn, s) = [t |-> [run |-> t.run, x |-> t.x, f |-> t.f + t.f], word |-> w, rd |-> r]
    BY <1>0, <1>4 DEF Effect, fadd_d
  <2> QED BY <1>0, <1>4, <2>1 DEF Leaves, Regs
<1>5. CASE insn = "store"
  <2>1. Effect(insn, s) = [t |-> t, word |-> t.f, rd |-> r]
    BY <1>0, <1>5 DEF Effect, fsd
  <2> QED BY <1>0, <1>5, <2>1 DEF Leaves
<1>6. CASE insn = "addi"
  <2>1. Effect(insn, s) = [t |-> t, word |-> w, rd |-> t.x + 1]
    BY <1>0, <1>6 DEF Effect, addi
  <2> QED BY <1>0, <1>6, <2>1 DEF Leaves
<1>7. CASE insn = "amo"
  <2>1. Effect(insn, s) = [t |-> t, word |-> w + t.x, rd |-> w]
    BY <1>0, <1>7 DEF Effect, amoadd_d
  <2> QED BY <1>0, <1>7, <2>1 DEF Leaves
<1>8. CASE insn \notin {"stop", "utidx", "load", "fadd", "store", "addi", "amo"}
  <2>1. Effect(insn, s) = s
    BY <1>8 DEF Effect
  <2> QED BY <1>0, <1>8, <2>1 DEF Leaves
<1> QED BY <1>1, <1>2, <1>3, <1>4, <1>5, <1>6, <1>7, <1>8
LEMMA AfterFacts ==
  ASSUME TypeOK, cur \in Procs
  PROVE  Leaves(After, Block[ct.vf_pc], ut[ct.count], mem[cur], xpr[cur])
<1>1. ct.count \in Uts /\ ct.count \in Nat
  BY CtNumbers DEF TypeOK
<1>2. ut[ct.count] \in Regs /\ mem[cur] \in Nat /\ xpr[cur] \in Nat
  BY <1>1 DEF TypeOK
<1> QED BY <1>1, <1>2, EffectFacts DEF After, Here

LEMMA InitInv == Init => HwachaInv
<1> SUFFICES ASSUME Init PROVE HwachaInv
  OBVIOUS
<1>1. TypeOK
  BY ResetFacts, BoundAssumption DEF Init, TypeOK, Causes
<1>3. BlockConsistent
  BY ResetFacts DEF Init, BlockConsistent, ResetUnit
<1>4. Ownership
  BY ProcsAssumption DEF Init, Ownership
<1> QED BY <1>1, <1>3, <1>4 DEF HwachaInv

------------------------------------------------------------------------------
\* Every step keeps the types.
LEMMA TypeStep == HwachaInv /\ [Next]_vars => TypeOK'
<1> SUFFICES ASSUME HwachaInv, [Next]_vars PROVE TypeOK'
  OBVIOUS
<1>0. TypeOK /\ (loc # "kernel" => cur \in Procs)
  BY DEF HwachaInv, TypeOK, Ownership
<1> USE <1>0
<1> USE DEF TypeOK, unitVars, kernelVars, procVars
<1>1. ASSUME NEW c \in Configs, Vsetcfg(c[1], c[2]) PROVE TypeOK'
  <2>1. c[1] \in Nat /\ c[2] \in Nat
    BY BoundAssumption
  <2>2. MaxvlOf(c[1], c[2]) \in 0 .. max_uts
    <3>1. MaxvlOf(c[1], c[2]) \in Nat /\ MaxvlOf(c[1], c[2]) <= max_uts
      BY <2>1, MaxvlBound
    <3> QED BY <3>1, SizeFact
  <2>3. CASE TooMany(c[1], c[2])
    BY <1>1, <2>3 DEF Vsetcfg, take_exception, Causes
  <2>4. CASE ~ TooMany(c[1], c[2])
    <3>1. ct' \in Cts
      <4>1. c[1] \in 0 .. MaxRegs /\ c[2] \in 0 .. MaxRegs
        BY <2>1, <2>4, SizesAssumption DEF TooMany
      <4>2. ct' = [ct EXCEPT !.nxpr = c[1], !.nfpr = c[2], !.maxvl = MaxvlOf(c[1], c[2]), !.vl = 0]
        BY <1>1, <2>4 DEF Vsetcfg
      <4>3. ct \in Cts
        OBVIOUS
      <4>4. 0 \in Uts /\ 0 \in Int
        BY SizeFact DEF Uts
      <4> QED BY ONLY <2>2, <4>1, <4>2, <4>3, <4>4, CtUpdate, Zenon
    <3>2. insns' \in 0 .. MaxInsns
      BY <1>1, <2>4, BoundAssumption DEF Vsetcfg, Complete
    <3> QED BY <1>1, <2>4, <3>1, <3>2 DEF Vsetcfg, Complete
  <2> QED BY <2>3, <2>4
<1>2. ASSUME NEW n \in Lengths, Vsetvl(n) PROVE TypeOK'
  <2> DEFINE m == IF n < ct.maxvl THEN n ELSE ct.maxvl
  <2>1. m \in 0 .. max_uts
    BY CtNumbers, SizeFact, BoundAssumption
  <2>2. ct' = [ct EXCEPT !.vl = m]
    BY <1>2 DEF Vsetvl
  <2> HIDE DEF m
  <2>3. ct' \in Cts
    BY <2>1, <2>2 DEF Cts
  <2> QED BY <1>2, <2>3, BoundAssumption DEF Vsetvl, Complete
<1>3. ASSUME NEW v \in Values, Vmsv(v) \/ Vfmsv(v) PROVE TypeOK'
  <2>1. ut' \in [Uts -> Regs]
    <3>1. v \in Nat /\ TRUE \in BOOLEAN
      BY BoundAssumption
    <3>2. \A i \in Uts : ut[i] \in Regs /\ [ut[i] EXCEPT !.x = v] \in Regs
                         /\ [ut[i] EXCEPT !.f = v] \in Regs
      BY <3>1, RegsUpdate
    <3> QED BY <1>3, <3>2 DEF Vmsv, Vfmsv
  <2>2. insns' \in 0 .. MaxInsns
    BY <1>3, BoundAssumption DEF Vmsv, Vfmsv, Complete, take_exception
  <2> QED BY <1>3, <2>1, <2>2 DEF Vmsv, Vfmsv, Complete, take_exception, Causes
<1>4. ASSUME NEW v \in Values, NEW k \in 0 .. max_uts, Vlseg(v, k) PROVE TypeOK'
  <2>1. ut' \in [Uts -> Regs]
    BY <1>4, BoundAssumption, RegsUpdate DEF Vlseg
  <2>2. insns' \in 0 .. MaxInsns
    BY <1>4, BoundAssumption DEF Vlseg, Complete, take_exception
  <2> QED BY <1>4, <2>1, <2>2 DEF Vlseg, Complete, take_exception, Causes
<1>5. ASSUME NEW c \in {"ILLEGAL_INSTRUCTION", "PRIVILEGED_INSTRUCTION"}, BadInsn(c)
      PROVE TypeOK'
  BY <1>5 DEF BadInsn, take_exception, Causes
<1>6. ASSUME NEW pc \in Starts, Vf(pc) PROVE TypeOK'
  <2>1. ut' \in [Uts -> Regs]
    <3>1. \A i \in Uts : ut[i] \in Regs /\ [ut[i] EXCEPT !.run = TRUE] \in Regs
      BY RegsUpdate
    <3> QED BY <1>6, <3>1 DEF Vf
  <2>2. ct' \in Cts
    <3>1. pc \in Int
      BY BlockAssumption
    <3>2. [ct EXCEPT !.vf_pc = pc] \in Cts
      BY <3>1 DEF Cts
    <3> QED BY <1>6, <3>2 DEF Vf
  <2>3. insns' \in 0 .. MaxInsns
    BY <1>6, BoundAssumption DEF Vf
  <2> QED BY <1>6, <2>1, <2>2, <2>3 DEF Vf
<1>7. CASE VfFetchException \/ VfFetch \/ UtException
  BY <1>7 DEF VfFetchException, VfFetch, UtException, take_exception, Causes
<1>8. CASE UtExecute
  <2>1. After.t \in Regs /\ After.word \in Nat /\ After.rd \in Nat
    BY <1>8, AfterFacts DEF UtExecute, Leaves
  <2>2. ut' \in [Uts -> Regs]
    BY <1>8, <2>1 DEF UtExecute
  <2>3. ct' \in Cts
    <3>1. CASE LastUt
      <4>1. ct' = [ct EXCEPT !.count = 0, !.vf_pc = ct.vf_pc + 1]
        BY <1>8, <3>1 DEF UtExecute
      <4>2. 0 \in Uts /\ ct.vf_pc + 1 \in Int
        BY CtNumbers, SizeFact DEF Uts
      <4> QED BY <4>1, <4>2 DEF Cts
    <3>2. CASE ~ LastUt
      <4>1. ct' = [ct EXCEPT !.count = ct.count + 1]
        BY <1>8, <3>2 DEF UtExecute
      <4>2. ct.count + 1 \in Uts
        BY <3>2, CtNumbers, SizeFact DEF LastUt, Uts
      <4> QED BY <4>1, <4>2 DEF Cts
    <3> QED BY <3>1, <3>2
  <2>4. mem' \in [Procs -> Nat] /\ xpr' \in [Procs -> Nat]
    BY <1>8, <2>1 DEF UtExecute
  <2>5. at' \in [Procs -> {"next", "vf"}] /\ loc' \in {"user", "fetch", "execute", "kernel"}
    BY <1>8 DEF UtExecute
  <2> QED BY <1>8, <2>2, <2>3, <2>4, <2>5 DEF UtExecute
<1>9. CASE Preempt \/ Vxcptcause \/ Sret
  BY <1>9 DEF Preempt, Vxcptcause, Sret, Causes
<1>10. CASE Vxcptsave
  <2>1. \A i \in Uts : Saved(i) \in Regs
    BY ResetFacts DEF Saved, Regs
  <2>2. image' \in [Procs -> [ct : Cts, ut : [Uts -> Regs]]]
    BY <1>10, <2>1 DEF Vxcptsave
  <2>3. saved' \subseteq Procs
    BY <1>10 DEF Vxcptsave
  <2> QED BY <1>10, <2>2, <2>3, ResetFacts DEF Vxcptsave
<1>11. CASE Vxcptkill
  BY <1>11, ResetFacts DEF Vxcptkill
<1>12. ASSUME NEW p \in Procs, Vxcptrestore(p) PROVE TypeOK'
  <2>1. image[p].ct \in Cts /\ \A i \in Uts : image[p].ut[i] \in Regs
    OBVIOUS
  <2>2. \A i \in Uts : Restored(image[p], i) \in Regs
    BY <2>1 DEF Restored, Regs
  <2>3. image' \in [Procs -> [ct : Cts, ut : [Uts -> Regs]]]
    BY <1>12, ResetFacts DEF Vxcptrestore
  <2> QED BY <1>12, <2>1, <2>2, <2>3 DEF Vxcptrestore, RestoredCt
<1>13. ASSUME NEW p \in Procs, Schedule(p) PROVE TypeOK'
  BY <1>13 DEF Schedule
<1>14. CASE UNCHANGED vars
  BY <1>14 DEF vars
<1> QED BY <1>1, <1>2, <1>3, <1>4, <1>5, <1>6, <1>7, <1>8, <1>9, <1>10, <1>11, <1>12,
           <1>13, <1>14 DEF Next

------------------------------------------------------------------------------
\* Activity and consistency depend on the run flags only.
LEMMA SameRuns ==
  ASSUME NEW c, NEW u, NEW v, \A i \in Uts : u[i].run <=> v[i].run
  PROVE  /\ Active(c, u) <=> Active(c, v)
         /\ Consistent(c, u) <=> Consistent(c, v)
<1>1. Active(c, u) <=> Active(c, v)
  BY DEF Active, Below
<1> QED BY <1>1 DEF Consistent, Below

\* An inactive unit has no run flag set anywhere and is at UTIDX 0, and such a
\* unit is consistent.
LEMMA Quiet ==
  ASSUME NEW c \in Cts, NEW u, Consistent(c, u), ~ Active(c, u)
  PROVE  c.count = 0 /\ \A i \in Uts : ~ u[i].run
BY DEF Consistent, Active, Below, Cts, Uts
LEMMA QuietConsistent ==
  ASSUME NEW c \in Cts, NEW u, c.vl <= c.maxvl, c.maxvl <= max_uts, c.count = 0,
         \A i \in Uts : ~ u[i].run
  PROVE  Consistent(c, u) /\ ~ Active(c, u)
BY DEF Consistent, Active, Below

\* Steps that touch neither the unit nor what the kernel has saved.
LEMMA OutsideStep ==
  ASSUME HwachaInv, UNCHANGED <<unitVars, kernelVars, at>>,
         \/ loc' \in {"user", "kernel"} /\ cur \in Procs
         \/ loc' = "kernel"
         \/ loc = "fetch" /\ VfFetch
         \/ UNCHANGED loc
  PROVE  BlockConsistent' /\ Ownership'
<1>1. BlockConsistent'
  BY DEF HwachaInv, BlockConsistent, unitVars, kernelVars
<1>2. Ownership'
  <2>1. CASE loc = "fetch" /\ VfFetch
    <3>1. ct.vf_pc \in 0 .. Len(Block)
      BY <2>1, ProcsAssumption DEF HwachaInv, Ownership, BlockConsistent, Consistent, TypeOK
    <3> QED BY <2>1, <3>1 DEF HwachaInv, Ownership, VfFetch, unitVars, kernelVars
  <2>2. CASE ~ (loc = "fetch" /\ VfFetch)
    BY <2>2, ProcsAssumption DEF HwachaInv, Ownership, unitVars, kernelVars
  <2> QED BY <2>1, <2>2
<1> QED BY <1>1, <1>2

\* Steps of a process between its blocks that keep the run flags.
LEMMA RegisterStep ==
  ASSUME HwachaInv, User, UNCHANGED <<ct, kernelVars, at>>,
         \A i \in Uts : ut'[i].run = ut[i].run, loc' \in {"user", "kernel"}
  PROVE  BlockConsistent' /\ Ownership'
<1>1. cur \in Procs
  BY DEF HwachaInv, Ownership, TypeOK, User
<1>2. /\ Active(ct, ut') <=> Active(ct, ut)
      /\ Consistent(ct, ut') <=> Consistent(ct, ut)
  BY SameRuns
<1>3. BlockConsistent'
  BY <1>2 DEF HwachaInv, BlockConsistent, kernelVars
<1>4. Ownership'
  BY <1>1, ProcsAssumption DEF HwachaInv, Ownership, kernelVars
<1> QED BY <1>3, <1>4

\* Steps of a process between its blocks that change the length.
LEMMA LengthStep ==
  ASSUME HwachaInv, User, UNCHANGED <<ut, kernelVars, at, loc>>, ct' \in Cts,
         ct'.vl <= ct'.maxvl, ct'.maxvl <= max_uts, ct'.count = ct.count
  PROVE  BlockConsistent' /\ Ownership'
<1>1. cur \in Procs /\ ct \in Cts
  BY DEF HwachaInv, Ownership, TypeOK, User
<1>2. ~ Active(ct, ut) /\ Consistent(ct, ut)
  BY <1>1 DEF HwachaInv, BlockConsistent, User
<1>3. ct.count = 0 /\ \A i \in Uts : ~ ut[i].run
  BY <1>1, <1>2, Quiet
<1>4. Consistent(ct', ut) /\ ~ Active(ct', ut)
  BY <1>3, QuietConsistent
<1>5. BlockConsistent'
  BY <1>1, <1>2, <1>4 DEF HwachaInv, BlockConsistent, kernelVars
<1>6. Ownership'
  BY <1>1, ProcsAssumption DEF HwachaInv, Ownership, User, kernelVars
<1> QED BY <1>5, <1>6

\* vf starts a block in a quiet unit, or continues the one that is active.
LEMMA VfStep ==
  ASSUME HwachaInv, NEW pc \in Starts, Vf(pc)
  PROVE  BlockConsistent' /\ Ownership'
<1>1. cur \in Procs /\ ct \in Cts /\ at \in [Procs -> {"next", "vf"}]
  BY DEF HwachaInv, Ownership, TypeOK, Vf
<1>2. Consistent(ct, ut)
  BY DEF HwachaInv, BlockConsistent
<1>3. Active(ct', ut') /\ Consistent(ct', ut')
  <2>1. CASE vf_active
    BY <1>2, <2>1 DEF Vf, vf_active, unitVars
  <2>2. CASE ~ vf_active
    <3>1. ct.count = 0 /\ \A i \in Uts : ~ ut[i].run
      BY <1>1, <1>2, <2>2, Quiet DEF vf_active
    <3>2. ct' = [ct EXCEPT !.vf_pc = pc]
      BY <2>2 DEF Vf
    <3>3. \A i \in Uts : ut'[i].run <=> i < ct.vl
      <4>1. \A i \in Uts : i < ct.vl => ut'[i].run = TRUE
        BY <2>2 DEF Vf, HwachaInv, TypeOK, Regs
      <4>2. \A i \in Uts : ~ (i < ct.vl) => ut'[i] = ut[i]
        BY <2>2 DEF Vf
      <4> QED BY <3>1, <4>1, <4>2
    <3>4. ct'.vl = ct.vl /\ ct'.maxvl = ct.maxvl /\ ct'.count = 0 /\ ct'.vf_pc = pc
      BY <1>1, <3>1, <3>2 DEF Cts
    <3>5. 0 \in Below(ct.vl)
      BY <1>1, <1>2, SizeFact DEF Below, Uts, Consistent, Vf, Cts
    <3>6. Active(ct', ut')
      BY <3>3, <3>4, <3>5 DEF Active, Below
    <3>7. pc \in 0 .. Len(Block)
      BY BlockAssumption
    <3>8. \A i \in Uts : ~ (i < ct'.count) /\ (i >= ct.vl => ~ (i < ct.vl))
      BY <1>1, <3>4, SizeFact DEF Cts
    <3> QED
      BY <1>2, <3>3, <3>4, <3>6, <3>7, <3>8 DEF Consistent, Below
  <2> QED BY <2>1, <2>2
<1>4. at'[cur] = "vf" /\ \A p \in Procs \ {cur} : at'[p] = at[p]
  BY <1>1 DEF Vf
<1>5. BlockConsistent'
  BY <1>1, <1>3, <1>4 DEF HwachaInv, BlockConsistent, Vf, kernelVars
<1>6. Ownership'
  BY <1>1, <1>4, ProcsAssumption DEF HwachaInv, Ownership, Vf, kernelVars
<1> QED BY <1>5, <1>6

\* What is known when an instruction of a block executes.
LEMMA ExecuteFacts ==
  ASSUME HwachaInv, UtExecute
  PROVE  /\ cur \in Procs /\ ct \in Cts /\ Consistent(ct, ut) /\ Active(ct, ut)
         /\ ct.vf_pc \in 1 .. Len(Block) /\ ct.count \in Uts /\ ct.count < ct.vl
         /\ at[cur] = "vf"
<1>1. cur \in Procs /\ ct \in Cts /\ at[cur] = "vf" /\ ct.vf_pc > 0
  BY DEF HwachaInv, Ownership, TypeOK, UtExecute
<1>2. Consistent(ct, ut) /\ Active(ct, ut)
  BY <1>1 DEF HwachaInv, BlockConsistent
<1>3. ct.count < ct.vl /\ ct.vl <= max_uts /\ ct.vf_pc \in 0 .. Len(Block)
  BY <1>1, <1>2, SizesAssumption DEF Consistent, Active, Below, Uts, Cts, max_uts
<1> QED BY <1>1, <1>2, <1>3, SizesAssumption DEF Uts, Cts, max_uts

\* An instruction executes in micro-thread UTIDX.
LEMMA ExecuteStep ==
  ASSUME HwachaInv, UtExecute
  PROVE  BlockConsistent' /\ Ownership'
<1> DEFINE insn == Block[ct.vf_pc]
<1>1. /\ cur \in Procs /\ ct \in Cts /\ Consistent(ct, ut) /\ Active(ct, ut)
      /\ ct.vf_pc \in 1 .. Len(Block) /\ ct.count \in Uts /\ ct.count < ct.vl
      /\ at[cur] = "vf"
  BY ExecuteFacts
<1>2. at \in [Procs -> {"next", "vf"}] /\ ut \in [Uts -> Regs]
  BY DEF HwachaInv, TypeOK
<1>3. \A i \in Uts : i # ct.count => ut'[i] = ut[i]
  BY <1>2 DEF UtExecute
<1>4. insn = "stop" => ut'[ct.count].run = FALSE
  BY <1>1, <1>2, AfterFacts DEF UtExecute, HwachaInv, Leaves
<1>5. insn # "stop" => ut'[ct.count].run = ut[ct.count].run
  BY <1>1, <1>2, AfterFacts DEF UtExecute, HwachaInv, Leaves
<1>6. \A i \in Uts : i < ct.vl => (ut[i].run <=> ~ (i < ct.count /\ insn = "stop"))
  BY <1>1 DEF Consistent, Below
<1>7. \A i \in Uts : i >= ct.vl => ~ ut[i].run
  BY <1>1 DEF Consistent
<1>8. \A i \in Uts : i >= ct.vl => ~ ut'[i].run
  BY <1>1, <1>3, <1>7 DEF Uts, Cts
<1>9. CASE ~ LastUt
  <2>1. ct' = [ct EXCEPT !.count = ct.count + 1] /\ at' = at /\ loc' = "execute"
    BY <1>9 DEF UtExecute
  <2>2. ct'.vl = ct.vl /\ ct'.maxvl = ct.maxvl /\ ct'.count = ct.count + 1
        /\ ct'.vf_pc = ct.vf_pc /\ ct.count + 1 < ct.vl
    <3>1. ct.count + 1 < ct.vl
      BY <1>1, <1>9, CtNumbers DEF LastUt
    <3> QED BY <1>1, <2>1, <3>1 DEF Cts
  <2>3. ct.count + 1 \in Uts /\ ct'.count > 0
    BY <1>1, <2>2, SizeFact DEF Uts, Consistent, Cts
  <2>4. \A i \in Uts : i < ct.vl => (ut'[i].run <=> ~ (i < ct.count + 1 /\ insn = "stop"))
    BY <1>1, <1>3, <1>4, <1>5, <1>6 DEF Uts, Cts
  <2>5. Active(ct', ut')
    <3>1. ut'[ct.count + 1].run
      BY <1>1, <2>2, <2>3, <2>4, CtNumbers
    <3> QED BY <2>2, <2>3, <3>1 DEF Active, Below
  <2>6. Consistent(ct', ut')
    BY <1>1, <1>8, <2>2, <2>4, <2>5 DEF Consistent, Below
  <2>7. BlockConsistent'
    BY <1>1, <2>1, <2>5, <2>6 DEF HwachaInv, BlockConsistent, UtExecute, kernelVars
  <2>8. Ownership'
    BY <1>1, <2>1, <2>2, ProcsAssumption
       DEF HwachaInv, Ownership, UtExecute, kernelVars
  <2> QED BY <2>7, <2>8
<1>10. CASE LastUt
  <2>1. ct' = [ct EXCEPT !.count = 0, !.vf_pc = ct.vf_pc + 1]
    BY <1>10 DEF UtExecute
  <2>2. ct'.vl = ct.vl /\ ct'.maxvl = ct.maxvl /\ ct'.count = 0
        /\ ct'.vf_pc = ct.vf_pc + 1 /\ ct.count + 1 = ct.vl
    <3>1. ct.count + 1 = ct.vl
      BY <1>1, <1>10, CtNumbers DEF LastUt
    <3> QED BY <1>1, <2>1, <3>1 DEF Cts
  <2>3. \A p \in Procs \ {cur} : at'[p] = at[p]
    BY <1>2 DEF UtExecute
  <2>4. loc' \in {"fetch", "user"} /\ (loc' = "fetch" => Active(ct', ut'))
    BY <1>10 DEF UtExecute, vf_active
  <2>5. at'[cur] = "vf" <=> Active(ct', ut')
    BY <1>1, <1>2, <1>10 DEF UtExecute, vf_active
  <2>6. Consistent(ct', ut')
    <3>1. CASE insn = "stop"
      <4>1. \A i \in Uts : ~ ut'[i].run
        BY <1>1, <1>3, <1>4, <1>6, <1>8, <2>2, <3>1 DEF Uts, Cts
      <4>2. ~ Active(ct', ut')
        BY <4>1 DEF Active, Below
      <4> QED BY <1>1, <2>2, <4>1, <4>2 DEF Consistent
    <3>2. CASE insn # "stop"
      <4>1. \A i \in Uts : i < ct.vl => ut'[i].run
        BY <1>1, <1>3, <1>5, <1>6, <3>2
      <4>2. ct.vf_pc # Len(Block)
        BY <3>2, BlockAssumption
      <4>3. ct'.vf_pc \in 0 .. Len(Block)
        BY <1>1, <2>2, <4>2, BlockAssumption
      <4> QED BY <1>1, <1>8, <2>2, <4>1, <4>3 DEF Consistent, Below, Uts
    <3> QED BY <3>1, <3>2
  <2>7. BlockConsistent'
    BY <1>1, <2>3, <2>5, <2>6 DEF HwachaInv, BlockConsistent, UtExecute, kernelVars
  <2>8. Ownership'
    BY <1>1, <2>4, <2>5, ProcsAssumption DEF HwachaInv, Ownership, UtExecute, kernelVars
  <2> QED BY <2>7, <2>8
<1> QED BY <1>9, <1>10

\* The kernel saves, kills, restores or hands over the unit.
LEMMA KernelStep ==
  ASSUME HwachaInv,
         Vxcptsave \/ Vxcptkill \/ \E p \in Procs : Vxcptrestore(p) \/ Schedule(p)
  PROVE  BlockConsistent' /\ Ownership'
<1> USE ResetFacts, ProcsAssumption DEF kernelVars, unitVars, procVars
<1>0. /\ ct \in Cts /\ ut \in [Uts -> Regs] /\ at \in [Procs -> {"next", "vf"}]
      /\ image \in [Procs -> [ct : Cts, ut : [Uts -> Regs]]] /\ saved \subseteq Procs
      /\ cur \in Procs \cup {NoProc}
  BY DEF HwachaInv, TypeOK
<1>1. CASE Vxcptsave
  <2> DEFINE u == [i \in Uts |-> Saved(i)]
  <2>1. cur \in Procs /\ image' = [image EXCEPT ![cur] = [ct |-> ct, ut |-> u]]
    BY <1>0, <1>1 DEF Vxcptsave
  <2>2. \A i \in Uts : u[i].run <=> ut[i].run
    BY <1>0 DEF Saved, ResetUt, HwachaInv, BlockConsistent, Consistent, Cts, Uts
  <2>3. (Active(ct, u) <=> Active(ct, ut)) /\ (Consistent(ct, u) <=> Consistent(ct, ut))
    BY <2>2, SameRuns
  <2> HIDE DEF u
  <2>4. image'[cur].ct = ct /\ image'[cur].ut = u /\ \A p \in Procs \ {cur} : image'[p] = image[p]
    BY <1>0, <2>1
  <2>5. BlockConsistent'
    BY <1>0, <1>1, <2>1, <2>3, <2>4 DEF Vxcptsave, HwachaInv, BlockConsistent
  <2>6. Ownership'
    BY <1>0, <1>1, <2>1, <2>4 DEF Vxcptsave, HwachaInv, Ownership, Kernel
  <2> QED BY <2>5, <2>6
<1>2. CASE Vxcptkill
  <2>1. cur \in Procs /\ image[cur] = ResetUnit /\ image' = image /\ cur' = NoProc
    BY <1>0, <1>2 DEF Vxcptkill, HwachaInv, Ownership
  <2>2. at'[cur] = "next" /\ \A p \in Procs \ {cur} : at'[p] = at[p]
    BY <1>0, <1>2, <2>1 DEF Vxcptkill
  <2>3. BlockConsistent'
    BY <1>0, <1>2, <2>1, <2>2 DEF Vxcptkill, HwachaInv, BlockConsistent, ResetUnit
  <2>4. Ownership'
    BY <1>0, <1>2, <2>1 DEF Vxcptkill, HwachaInv, Ownership, Kernel
  <2> QED BY <2>3, <2>4
<1>3. ASSUME NEW p \in Procs, Vxcptrestore(p) PROVE BlockConsistent' /\ Ownership'
  <2>1. ct' = image[p].ct /\ ut = ResetUt /\ cur' = p /\ image[p].ct \in Cts
    BY <1>0, <1>3 DEF Vxcptrestore, RestoredCt, HwachaInv, Ownership
  <2>2. Consistent(image[p].ct, image[p].ut)
        /\ (at[p] = "vf" <=> Active(image[p].ct, image[p].ut))
    BY <1>3 DEF HwachaInv, BlockConsistent, Vxcptrestore
  <2>3. \A i \in Uts : ut'[i].run <=> image[p].ut[i].run
    <3>1. \A i \in Uts : ~ ResetUt[i].run
      BY DEF ResetUt
    <3>2. \A i \in Uts : i < image[p].ct.vl => ut'[i].run = image[p].ut[i].run
      BY <1>3 DEF Vxcptrestore, Restored
    <3>3. \A i \in Uts : ~ (i < image[p].ct.vl) => ut'[i] = ut[i]
      BY <1>3 DEF Vxcptrestore, Restored
    <3>4. \A i \in Uts : ~ (i < image[p].ct.vl) => ~ image[p].ut[i].run
      <4>1. image[p].ct.vl \in Nat
        BY <2>1 DEF Cts
      <4>2. \A i \in Uts : i >= image[p].ct.vl => ~ image[p].ut[i].run
        BY <2>2 DEF Consistent
      <4> QED BY ONLY <4>1, <4>2, SizeFact
    <3> QED BY <2>1, <3>1, <3>2, <3>3, <3>4
  <2>4. (Active(ct', ut') <=> at[p] = "vf") /\ Consistent(ct', ut')
    BY <2>1, <2>2, <2>3, SameRuns
  <2>5. image'[p] = ResetUnit /\ (\A q \in Procs \ {p} : image'[q] = image[q])
        /\ saved' = saved \ {p} /\ at' = at /\ loc' = "kernel"
    BY <1>0, <1>3 DEF Vxcptrestore, Kernel
  <2>6. BlockConsistent'
    BY <1>0, <1>3, <2>1, <2>4, <2>5 DEF Vxcptrestore, HwachaInv, BlockConsistent, ResetUnit
  <2>7. Ownership'
    BY <1>0, <1>3, <2>1, <2>5 DEF HwachaInv, Ownership
  <2> QED BY <2>6, <2>7
<1>4. ASSUME NEW p \in Procs, Schedule(p) PROVE BlockConsistent' /\ Ownership'
  <2>1. ct = ResetCt /\ ut = ResetUt /\ image[p] = ResetUnit
    BY <1>4 DEF Schedule, HwachaInv, Ownership
  <2>2. BlockConsistent'
    BY <1>0, <1>4, <2>1 DEF Schedule, HwachaInv, BlockConsistent, ResetUnit
  <2>3. Ownership'
    BY <1>0, <1>4, <2>1 DEF Schedule, HwachaInv, Ownership, Kernel
  <2> QED BY <2>2, <2>3
<1> QED BY <1>1, <1>2, <1>3, <1>4

LEMMA InvStep == HwachaInv /\ [Next]_vars => HwachaInv'
<1> SUFFICES ASSUME HwachaInv, [Next]_vars PROVE HwachaInv'
  OBVIOUS
<1>0. TypeOK'
  BY TypeStep DEF HwachaInv
<1> SUFFICES BlockConsistent' /\ Ownership'
  BY <1>0 DEF HwachaInv
<1>1. ct \in Cts /\ ut \in [Uts -> Regs] /\ cur \in Procs \cup {NoProc}
  BY DEF HwachaInv, TypeOK
<1>2. ASSUME NEW c \in Configs, Vsetcfg(c[1], c[2]) PROVE BlockConsistent' /\ Ownership'
  <2>1. CASE TooMany(c[1], c[2])
    BY <1>2, <2>1, OutsideStep DEF Vsetcfg, take_exception, unitVars
  <2>2. CASE ~ TooMany(c[1], c[2])
    <3>1. c[1] \in Nat /\ c[2] \in Nat
      BY BoundAssumption
    <3>2. MaxvlOf(c[1], c[2]) \in Nat /\ MaxvlOf(c[1], c[2]) <= max_uts
      BY <3>1, MaxvlBound
    <3>3. ct' = [ct EXCEPT !.nxpr = c[1], !.nfpr = c[2], !.maxvl = MaxvlOf(c[1], c[2]), !.vl = 0]
      BY <1>2, <2>2 DEF Vsetcfg
    <3>4. ct'.vl = 0 /\ ct'.maxvl = MaxvlOf(c[1], c[2]) /\ ct'.count = ct.count
      BY <1>1, <3>3 DEF Cts
    <3>5. ct' \in Cts
      BY <1>0 DEF TypeOK
    <3>6. ct'.vl <= ct'.maxvl /\ ct'.maxvl <= max_uts
      BY <3>2, <3>4
    <3>7. User /\ UNCHANGED <<ut, kernelVars, at, loc>>
      BY <1>2, <2>2 DEF Vsetcfg, Complete
    <3> QED BY <3>4, <3>5, <3>6, <3>7, LengthStep
  <2> QED BY <2>1, <2>2
<1>3. ASSUME NEW n \in Lengths, Vsetvl(n) PROVE BlockConsistent' /\ Ownership'
  <2>1. ct.vl <= ct.maxvl /\ ct.maxvl <= max_uts /\ n \in Nat
    BY BoundAssumption DEF HwachaInv, BlockConsistent, Consistent
  <2>2. ct' = [ct EXCEPT !.vl = IF n < ct.maxvl THEN n ELSE ct.maxvl]
    BY <1>3 DEF Vsetvl
  <2>3. ct'.vl <= ct'.maxvl /\ ct'.maxvl = ct.maxvl /\ ct'.count = ct.count
    BY <1>1, <2>1, <2>2 DEF Cts
  <2>4. ct' \in Cts
    BY <1>0 DEF TypeOK
  <2>5. User /\ UNCHANGED <<ut, kernelVars, at, loc>>
    BY <1>3 DEF Vsetvl, Complete
  <2> QED BY <2>1, <2>3, <2>4, <2>5, LengthStep
<1>4. ASSUME NEW v \in Values, Vmsv(v) \/ Vfmsv(v) PROVE BlockConsistent' /\ Ownership'
  <2>1. \A i \in Uts : ut'[i].run = ut[i].run
    BY <1>1, <1>4 DEF Vmsv, Vfmsv, Regs
  <2>2. User /\ UNCHANGED <<ct, kernelVars, at>> /\ loc' \in {"user", "kernel"}
    BY <1>4 DEF Vmsv, Vfmsv, Complete, take_exception, User
  <2> QED BY <2>1, <2>2, RegisterStep
<1>5. ASSUME NEW v \in Values, NEW k \in 0 .. max_uts, Vlseg(v, k)
      PROVE BlockConsistent' /\ Ownership'
  <2>1. \A i \in Uts : ut'[i].run = ut[i].run
    BY <1>1, <1>5 DEF Vlseg, Regs
  <2>2. User /\ UNCHANGED <<ct, kernelVars, at>> /\ loc' \in {"user", "kernel"}
    BY <1>5 DEF Vlseg, Complete, take_exception, User
  <2> QED BY <2>1, <2>2, RegisterStep
<1>6. ASSUME NEW c, BadInsn(c) PROVE BlockConsistent' /\ Ownership'
  BY <1>6, OutsideStep DEF BadInsn, take_exception
<1>7. CASE VfFetchException \/ UtException
  BY <1>7, OutsideStep DEF VfFetchException, UtException, take_exception
<1>8. CASE VfFetch
  BY <1>8, OutsideStep DEF VfFetch, procVars
<1>9. CASE Preempt \/ Vxcptcause
  BY <1>9, OutsideStep DEF Preempt, Vxcptcause, procVars
<1>10. CASE Sret
  <2>1. cur \in Procs
    BY <1>1, <1>10 DEF Sret
  <2> QED BY <1>10, <2>1, OutsideStep DEF Sret, procVars
<1>11. CASE Vxcptsave \/ Vxcptkill \/ \E p \in Procs : Vxcptrestore(p) \/ Schedule(p)
  BY <1>11, KernelStep
<1>12. CASE UtExecute
  BY <1>12, ExecuteStep
<1>13. ASSUME NEW pc \in Starts, Vf(pc) PROVE BlockConsistent' /\ Ownership'
  BY <1>13, VfStep
<1>14. CASE UNCHANGED vars
  BY <1>14, OutsideStep DEF vars, unitVars, kernelVars
<1> QED BY <1>2, <1>3, <1>4, <1>5, <1>6, <1>7, <1>8, <1>9, <1>10, <1>11, <1>12, <1>13,
           <1>14 DEF Next

LEMMA Invariance == Spec => []HwachaInv
BY InitInv, InvStep, PTL DEF Spec

\* The state is always of its type: a process never has more registers than
\* there are, and the vector length, its limit and UTIDX, of the unit and of
\* every saved image, stay within the array of micro-threads (hwacha.h:54),
\* whatever is configured, faults, is saved and restored.
THEOREM TypeCorrect == Spec => []TypeOK
BY Invariance, PTL DEF HwachaInv

\* Whatever faults, interrupts, saves, kills and restores come in between, the
\* vector length stays within the array, UTIDX below the length, the run flags
\* agree with UTIDX, and a process finds its block active exactly when it is
\* about to execute the vf again: vf never starts a block twice (vf.h:2) and
\* never resumes a stale one.
THEOREM BlocksConsistent == Spec => []BlockConsistent
BY Invariance, PTL DEF HwachaInv

--------------------------------------------------------------------------------
(***************************************************************************)
(* The vector unit implements a private unit per process.                  *)
(***************************************************************************)

\* What process q sees of the unit stays as it is.
SameView(q) == /\ VlOf(q)' = VlOf(q) /\ XOf(q)' = XOf(q) /\ FOf(q)' = FOf(q)
               /\ NextOf(q)' = NextOf(q) /\ ActiveOf(q)' = ActiveOf(q)
               /\ mem'[q] = mem[q] /\ xpr'[q] = xpr[q]

LEMMA Stutter ==
  ASSUME TypeOK, TypeOK', \A q \in Procs : SameView(q)
  PROVE  UNCHANGED Private!vars
<1>1. mem' = mem /\ xpr' = xpr
  BY DEF TypeOK, SameView
<1> QED BY <1>1 DEF Private!vars, SameView

LEMMA Alone ==
  ASSUME NEW p \in Procs, \A q \in Procs \ {p} : SameView(q)
  PROVE  Private!OnlyOf(p)
BY DEF Private!OnlyOf, Private!Only, SameView

\* A view depends on the control state and on the flags and the configured
\* registers of the micro-threads below the length.
LEMMA SimilarUnit ==
  ASSUME NEW q, mem'[q] = mem[q] /\ xpr'[q] = xpr[q],
         UnitOf(q)'.ct = UnitOf(q).ct,
         \A i \in Below(UnitOf(q).ct.vl) :
            /\ UnitOf(q)'.ut[i].run = UnitOf(q).ut[i].run
            /\ UnitOf(q).ct.nxpr > 1 => UnitOf(q)'.ut[i].x = UnitOf(q).ut[i].x
            /\ UnitOf(q).ct.nfpr > 0 => UnitOf(q)'.ut[i].f = UnitOf(q).ut[i].f
  PROVE  SameView(q)
<1>1. VlOf(q)' = VlOf(q)
  BY DEF VlOf
<1>2. XOf(q)' = XOf(q)
  BY DEF XOf, VlOf
<1>3. FOf(q)' = FOf(q)
  BY DEF FOf, VlOf
<1>4. ActiveOf(q)' = ActiveOf(q)
  BY DEF ActiveOf, Active
<1>5. NextOf(q)' = NextOf(q)
  BY <1>1, <1>4 DEF NextOf
<1> QED BY <1>1, <1>2, <1>3, <1>4, <1>5 DEF SameView
LEMMA SameUnit ==
  ASSUME NEW q, mem'[q] = mem[q] /\ xpr'[q] = xpr[q], UnitOf(q)' = UnitOf(q)
  PROVE  SameView(q)
BY SimilarUnit
\* The other processes see nothing of what happens to the current one.
LEMMA Others ==
  ASSUME NEW q \in Procs \ {cur}, cur' = cur, image' = image, mem'[q] = mem[q] /\ xpr'[q] = xpr[q]
  PROVE  SameView(q)
<1>1. UnitOf(q)' = UnitOf(q)
  BY DEF UnitOf
<1> QED BY <1>1, SameUnit

\* The elements of a vector are the micro-threads below its length.
LEMMA BelowElements ==
  ASSUME NEW n \in Nat, n <= max_uts
  PROVE  Below(n) = Private!Elements(n)
BY SizeFact DEF Below, Uts, Private!Elements
LEMMA BelowZero == Below(0) = {}
BY SizeFact DEF Below, Uts

\* A unit without elements is clear.
LEMMA ClearStep ==
  ASSUME NEW p \in Procs, UnitOf(p)'.ct.vl = 0, mem'[p] = mem[p] /\ xpr'[p] = xpr[p]
  PROVE  Private!Clear(p)
<1>1. VlOf(p)' = 0
  BY DEF VlOf
<1>2. XOf(p)' = Private!Empty
  BY <1>1, BelowZero DEF XOf, Private!Empty
<1>3. FOf(p)' = Private!Empty
  BY <1>1, BelowZero DEF FOf, Private!Empty
<1>4. NextOf(p)' = Private!Empty
  BY <1>1, BelowZero DEF NextOf, Private!Empty
<1>5. ~ ActiveOf(p)'
  BY BelowZero DEF ActiveOf, Active
<1> QED BY <1>1, <1>2, <1>3, <1>4, <1>5 DEF Private!Clear, Private!Data

\* vsetvl between two blocks sets the length and keeps the elements.
LEMMA VsetvlStep ==
  ASSUME HwachaInv, HwachaInv', NEW n \in Lengths, Vsetvl(n), NEW p \in Procs, p = cur
  PROVE  Private!SetLength(p)
<1>1. UnitOf(p) = [ct |-> ct, ut |-> ut] /\ UnitOf(p)' = [ct |-> ct', ut |-> ut]
  BY DEF UnitOf, Vsetvl, kernelVars
<1>2. ~ Active(ct, ut) /\ ~ Active(ct', ut')
  BY DEF HwachaInv, BlockConsistent, Vsetvl, User, kernelVars
<1>3. ~ ActiveOf(p) /\ ~ ActiveOf(p)'
  BY <1>1, <1>2 DEF ActiveOf, Vsetvl
<1>4. NextOf(p)' = Private!Empty
  BY <1>3 DEF NextOf, Private!Empty
<1>5. ct' \in Cts /\ ct \in Cts /\ ct'.vl <= max_uts
  <2>1. ct' \in Cts /\ ct \in Cts
    BY DEF HwachaInv, TypeOK
  <2>2. ct'.vl <= ct'.maxvl /\ ct'.maxvl <= max_uts
    BY DEF HwachaInv, BlockConsistent, Consistent
  <2> QED BY <2>1, <2>2, SizeFact DEF Cts
<1>6. VlOf(p)' = ct'.vl /\ ct'.vl \in Nat /\ Below(ct'.vl) = Private!Elements(ct'.vl)
  BY <1>1, <1>5, BelowElements DEF VlOf, Cts
<1>7. VlOf(p)' \in 0 .. max_uts
  BY <1>5, <1>6, SizeFact
<1>8. ct'.nxpr = ct.nxpr /\ ct'.nfpr = ct.nfpr
  BY <1>5 DEF Vsetvl, Cts
<1>9. Private!Registers(XOf(p)', VlOf(p)') /\ Private!Registers(FOf(p)', VlOf(p)')
  BY <1>1, <1>6 DEF XOf, FOf, Private!Registers, Private!Empty
<1>10. Private!Kept(XOf(p), XOf(p)') /\ Private!Kept(FOf(p), FOf(p)')
  BY <1>1, <1>8 DEF XOf, FOf, VlOf, Private!Kept
<1>11. mem'[p] = mem[p] /\ xpr'[p] = xpr[p]
  BY DEF Vsetvl
<1>12. ASSUME VlOf(p) > 0, VlOf(p)' > 0
       PROVE  /\ XOf(p)' = Private!Empty <=> XOf(p) = Private!Empty
              /\ FOf(p)' = Private!Empty <=> FOf(p) = Private!Empty
  <2>1. 0 \in Below(VlOf(p)) /\ 0 \in Below(VlOf(p)')
    BY <1>12, SizeFact DEF Below, Uts
  <2>2. XOf(p) = Private!Empty <=> ~ (ct.nxpr > 1)
    BY <1>1, <2>1 DEF XOf, Private!Empty
  <2>3. XOf(p)' = Private!Empty <=> ~ (ct.nxpr > 1)
    BY <1>1, <1>8, <2>1 DEF XOf, Private!Empty
  <2>4. FOf(p) = Private!Empty <=> ~ (ct.nfpr > 0)
    BY <1>1, <2>1 DEF FOf, Private!Empty
  <2>5. FOf(p)' = Private!Empty <=> ~ (ct.nfpr > 0)
    BY <1>1, <1>8, <2>1 DEF FOf, Private!Empty
  <2> QED BY <2>2, <2>3, <2>4, <2>5
<1> QED BY <1>3, <1>4, <1>7, <1>9, <1>10, <1>11, <1>12 DEF Private!SetLength, Private!Data

\* Vector instructions between two blocks write a value into the first elements
\* of one kind of register.
LEMMA WriteStep ==
  ASSUME HwachaInv, HwachaInv', User, UNCHANGED <<ct, cur, mem, xpr, at>>,
         NEW p \in Procs, p = cur, NEW k \in 0 .. max_uts, NEW v,
         \/ \A i \in Uts : /\ ut'[i].f = ut[i].f
                           /\ ut'[i].x = IF i < k THEN v ELSE ut[i].x
         \/ \A i \in Uts : /\ ut'[i].x = ut[i].x
                           /\ ut'[i].f = IF i < k THEN v ELSE ut[i].f
  PROVE  Private!Write(p)
<1>1. UnitOf(p) = [ct |-> ct, ut |-> ut] /\ UnitOf(p)' = [ct |-> ct, ut |-> ut']
  BY DEF UnitOf
<1>2. ~ Active(ct, ut) /\ ~ Active(ct', ut')
  BY DEF HwachaInv, BlockConsistent, User
<1>3. ~ ActiveOf(p) /\ ~ ActiveOf(p)'
  BY <1>1, <1>2 DEF ActiveOf
<1>4. NextOf(p)' = NextOf(p) /\ VlOf(p)' = VlOf(p)
  BY <1>1, <1>3 DEF NextOf, VlOf
<1>5. \A i \in Uts : i \in Nat
  BY SizeFact
<1>6. DOMAIN XOf(p)' = DOMAIN XOf(p) /\ DOMAIN FOf(p)' = DOMAIN FOf(p)
      /\ DOMAIN XOf(p) \subseteq Uts /\ DOMAIN FOf(p) \subseteq Uts
  BY <1>1 DEF XOf, FOf, VlOf, Below
<1>7. /\ \A i \in DOMAIN XOf(p) : XOf(p)[i] = ut[i].x /\ XOf(p)'[i] = ut'[i].x
      /\ \A i \in DOMAIN FOf(p) : FOf(p)[i] = ut[i].f /\ FOf(p)'[i] = ut'[i].f
  BY <1>1, <1>6 DEF XOf, FOf, VlOf
<1>8. CASE \A i \in Uts : ut'[i].f = ut[i].f /\ ut'[i].x = IF i < k THEN v ELSE ut[i].x
  <2>1. \A i \in DOMAIN XOf(p) : i >= k => XOf(p)'[i] = XOf(p)[i]
    BY <1>5, <1>6, <1>7, <1>8
  <2>2. \A i, j \in DOMAIN XOf(p) : i < k /\ j < k => XOf(p)'[i] = XOf(p)'[j]
    BY <1>6, <1>7, <1>8
  <2>3. Private!Prefix(XOf(p), XOf(p)')
    BY <1>6, <2>1, <2>2 DEF Private!Prefix
  <2>4. FOf(p)' = FOf(p)
    BY <1>1, <1>8 DEF FOf, VlOf, Below
  <2> QED BY <1>3, <1>4, <2>3, <2>4 DEF Private!Write, Private!Data
<1>9. CASE \A i \in Uts : ut'[i].x = ut[i].x /\ ut'[i].f = IF i < k THEN v ELSE ut[i].f
  <2>1. \A i \in DOMAIN FOf(p) : i >= k => FOf(p)'[i] = FOf(p)[i]
    BY <1>5, <1>6, <1>7, <1>9
  <2>2. \A i, j \in DOMAIN FOf(p) : i < k /\ j < k => FOf(p)'[i] = FOf(p)'[j]
    BY <1>6, <1>7, <1>9
  <2>3. Private!Prefix(FOf(p), FOf(p)')
    BY <1>6, <2>1, <2>2 DEF Private!Prefix
  <2>4. XOf(p)' = XOf(p)
    BY <1>1, <1>9 DEF XOf, VlOf, Below
  <2> QED BY <1>3, <1>4, <2>3, <2>4 DEF Private!Write, Private!Data
<1> QED BY <1>8, <1>9

\* vf in a quiet unit starts the block in every element.
LEMMA StartStep ==
  ASSUME HwachaInv, HwachaInv', NEW pc \in Starts, Vf(pc), ~ vf_active,
         NEW p \in Procs, p = cur
  PROVE  Private!Start(p)
<1>1. UnitOf(p) = [ct |-> ct, ut |-> ut] /\ UnitOf(p)' = [ct |-> ct', ut |-> ut']
  BY DEF UnitOf, Vf, kernelVars
<1>2. ct \in Cts /\ ut \in [Uts -> Regs] /\ at \in [Procs -> {"next", "vf"}]
  BY DEF HwachaInv, TypeOK
<1>3. ct.count = 0
  BY <1>2, Quiet DEF HwachaInv, BlockConsistent, vf_active
<1>4. ct' = [ct EXCEPT !.vf_pc = pc]
  BY DEF Vf
<1>5. ct'.vl = ct.vl /\ ct'.nxpr = ct.nxpr /\ ct'.nfpr = ct.nfpr /\ ct'.count = 0
      /\ ct'.vf_pc = pc /\ ct.vl \in Nat /\ ct.vl > 0
  BY <1>2, <1>3, <1>4 DEF Cts, Vf
<1>6. ct.vl <= max_uts
  BY <1>2, SizeFact DEF HwachaInv, BlockConsistent, Consistent, Cts
<1>7. Below(ct.vl) = Private!Elements(ct.vl)
  BY <1>5, <1>6, BelowElements
<1>8. \A i \in Uts : ut'[i].x = ut[i].x /\ ut'[i].f = ut[i].f
  BY <1>2 DEF Vf, Regs
<1>9. ~ ActiveOf(p) /\ ActiveOf(p)'
  <2>1. Active(ct', ut')
    BY <1>2 DEF HwachaInv, BlockConsistent, Vf, kernelVars
  <2> QED BY <1>1, <2>1 DEF ActiveOf, vf_active
<1>10. VlOf(p) = ct.vl /\ VlOf(p)' = ct.vl
  BY <1>1, <1>5 DEF VlOf
<1>11. XOf(p)' = XOf(p) /\ FOf(p)' = FOf(p)
  BY <1>1, <1>5, <1>8 DEF XOf, FOf, VlOf, Below
<1>12. NextOf(p)' = [i \in Private!Elements(ct.vl) |-> pc]
  <2>1. \A i \in Below(ct.vl) : ~ (i < 0)
    BY SizeFact DEF Below
  <2> QED BY <1>1, <1>5, <1>7, <1>9, <1>10, <2>1 DEF NextOf
<1>13. mem'[p] = mem[p] /\ xpr'[p] = xpr[p]
  BY DEF Vf
<1> QED BY <1>5, <1>9, <1>10, <1>11, <1>12, <1>13 DEF Private!Start, Private!Data

\* The block is over after its last micro-thread has executed stop, and only
\* then.
LEMMA ExecuteActive ==
  ASSUME HwachaInv, HwachaInv', UtExecute
  PROVE  Active(ct', ut') <=> ~ (LastUt /\ Block[ct.vf_pc] = "stop")
<1> DEFINE insn == Block[ct.vf_pc]
<1>1. /\ cur \in Procs /\ ct \in Cts /\ Consistent(ct, ut) /\ Active(ct, ut)
      /\ ct.count \in Uts /\ ct.count < ct.vl /\ at[cur] = "vf"
  BY ExecuteFacts
<1>2. at \in [Procs -> {"next", "vf"}] /\ ut \in [Uts -> Regs]
  BY DEF HwachaInv, TypeOK
<1>3. ct'.vl = ct.vl
  BY <1>1 DEF UtExecute, Cts
<1>4. CASE ~ LastUt
  <2>1. at' = at /\ cur' = cur
    BY <1>4 DEF UtExecute, kernelVars
  <2> QED BY <1>1, <1>4, <2>1 DEF HwachaInv, BlockConsistent
<1>5. CASE LastUt /\ insn # "stop"
  <2>1. ut'[ct.count].run = ut[ct.count].run
    BY <1>1, <1>2, <1>5, AfterFacts DEF UtExecute, HwachaInv, Leaves
  <2>2. ut[ct.count].run
    BY <1>1, <1>5 DEF Consistent, Below
  <2> QED BY <1>1, <1>3, <1>5, <2>1, <2>2 DEF Active, Below
<1>6. CASE LastUt /\ insn = "stop"
  <2>1. ct.count + 1 = ct.vl
    BY <1>1, <1>6, CtNumbers DEF LastUt
  <2>2. ut'[ct.count].run = FALSE
    BY <1>1, <1>2, <1>6, AfterFacts DEF UtExecute, HwachaInv, Leaves
  <2>3. \A i \in Uts : i # ct.count => ut'[i] = ut[i]
    BY <1>2 DEF UtExecute
  <2>4. \A i \in Uts : i < ct.count => ~ ut[i].run
    <3>1. \A i \in Uts : i < ct.count => i < ct.vl
      BY <1>1, SizeFact DEF Cts
    <3> QED BY <1>1, <1>6, <3>1 DEF Consistent, Below
  <2>5. \A i \in Uts : i < ct.vl => i < ct.count \/ i = ct.count
    BY <1>1, <2>1, SizeFact DEF Cts
  <2> QED BY <1>3, <1>6, <2>2, <2>3, <2>4, <2>5 DEF Active, Below
<1> QED BY <1>4, <1>5, <1>6

\* The element at UTIDX executes the instruction that is next for it.
LEMMA ElementStep ==
  ASSUME HwachaInv, HwachaInv', UtExecute, NEW p \in Procs, p = cur
  PROVE  ct.count \in Private!Elements(VlOf(p)) /\ Private!Execute(p, ct.count)
<1> DEFINE insn == Block[ct.vf_pc]
           i == ct.count
<1>1. /\ ct \in Cts /\ Consistent(ct, ut) /\ Active(ct, ut)
      /\ ct.vf_pc \in 1 .. Len(Block) /\ i \in Uts /\ i < ct.vl
  BY ExecuteFacts
<1>2. /\ ut \in [Uts -> Regs] /\ mem \in [Procs -> Nat] /\ xpr \in [Procs -> Nat]
      /\ insn # "illegal"
  BY DEF HwachaInv, TypeOK, Ownership, UtExecute
<1>3. UnitOf(p) = [ct |-> ct, ut |-> ut] /\ UnitOf(p)' = [ct |-> ct', ut |-> ut']
  BY DEF UnitOf, UtExecute, kernelVars
<1>4. ct.vl <= max_uts /\ ct.vl \in Nat /\ i \in Nat /\ ct.vf_pc \in Nat
  BY <1>1, SizeFact DEF Consistent, Cts
<1>5. Below(ct.vl) = Private!Elements(ct.vl) /\ VlOf(p) = ct.vl
  BY <1>3, <1>4, BelowElements DEF VlOf
<1>6. i \in Below(ct.vl) /\ i \in Private!Elements(ct.vl)
  BY <1>1, <1>5 DEF Below
<1>7. /\ ct'.vl = ct.vl /\ ct'.nxpr = ct.nxpr /\ ct'.nfpr = ct.nfpr
      /\ ~ LastUt => ct'.count = i + 1 /\ ct'.vf_pc = ct.vf_pc
      /\ LastUt => ct'.count = 0 /\ ct'.vf_pc = ct.vf_pc + 1 /\ i + 1 = ct.vl
  BY <1>1, <1>4 DEF UtExecute, LastUt, Cts
<1>8. VlOf(p)' = ct.vl
  BY <1>3, <1>7 DEF VlOf
<1>9. ActiveOf(p) /\ (ActiveOf(p)' <=> ~ (LastUt /\ insn = "stop"))
  BY <1>1, <1>3, ExecuteActive DEF ActiveOf
<1>10. NextOf(p) = [j \in Below(ct.vl) |-> IF j < i THEN ct.vf_pc + 1 ELSE ct.vf_pc]
  BY <1>3, <1>5, <1>9 DEF NextOf
<1>11. NextOf(p)[i] = ct.vf_pc
  BY <1>4, <1>6, <1>10
<1>12. \A j \in Below(ct.vl) : /\ NextOf(p)[i] <= NextOf(p)[j]
                               /\ j < i => NextOf(p)[i] < NextOf(p)[j]
  BY <1>4, <1>10, <1>11
<1>13. Private!Turn(p, i) /\ Private!Insn(p, i) = insn
  BY <1>5, <1>11, <1>12 DEF Private!Turn, Private!Insn
<1>14. /\ ~ (LastUt /\ insn = "stop") =>
             NextOf(p)' = [NextOf(p) EXCEPT ![i] = ct.vf_pc + 1]
       /\ LastUt /\ insn = "stop" => NextOf(p)' = Private!Empty
  <2>1. ~ (LastUt /\ insn = "stop") =>
          NextOf(p)' = [j \in Below(ct.vl) |-> IF j < ct'.count THEN ct'.vf_pc + 1 ELSE ct'.vf_pc]
    BY <1>3, <1>7, <1>8, <1>9 DEF NextOf
  <2>2. LastUt /\ insn = "stop" => NextOf(p)' = Private!Empty
    BY <1>9 DEF NextOf, Private!Empty
  <2>3. \A j \in Below(ct.vl) :
          (IF j < ct'.count THEN ct'.vf_pc + 1 ELSE ct'.vf_pc)
            = IF j = i THEN ct.vf_pc + 1 ELSE NextOf(p)[j]
    <3>1. \A j \in Below(ct.vl) : j \in Nat /\ j < ct.vl
      BY SizeFact DEF Below
    <3> QED BY <1>4, <1>7, <1>10, <3>1
  <2> QED BY <1>10, <2>1, <2>2, <2>3
<1>15. LastUt <=> i = VlOf(p) - 1
  BY <1>1, <1>4, <1>5 DEF LastUt
<1>16. /\ insn \in {"utidx", "addi", "amo"} => HasX /\ XOf(p) # Private!Empty
       /\ insn \in {"load", "fadd", "store"} => HasF /\ FOf(p) # Private!Empty
  <2>1. Legal(insn)
    BY DEF UtExecute
  <2>2. HasX => i \in DOMAIN XOf(p)
    BY <1>3, <1>5, <1>6 DEF HasX, XOf
  <2>3. HasF => i \in DOMAIN FOf(p)
    BY <1>3, <1>5, <1>6 DEF HasF, FOf
  <2> QED BY <2>1, <2>2, <2>3 DEF Legal, Private!Empty
<1>17. \A j \in Uts : j # i => ut'[j] = ut[j]
  BY <1>2 DEF UtExecute
<1>18. /\ ut'[i].x = IF insn = "utidx" THEN i ELSE ut[i].x
       /\ ut'[i].f = CASE insn = "load" -> mem[p] [] insn = "fadd" -> ut[i].f + ut[i].f
                       [] OTHER -> ut[i].f
       /\ mem'[p] = CASE insn = "amo" -> mem[p] + ut[i].x [] insn = "store" -> ut[i].f
                      [] OTHER -> mem[p]
       /\ xpr'[p] = CASE insn = "addi" -> ut[i].x + 1 [] insn = "amo" -> mem[p]
                      [] OTHER -> xpr[p]
  <2>1. ut'[i] = After.t /\ mem'[p] = After.word /\ xpr'[p] = After.rd
    BY <1>1, <1>2 DEF UtExecute
  <2> QED BY <2>1, AfterFacts DEF HwachaInv, Leaves
<1>19. /\ XOf(p)' = IF insn = "utidx" THEN [XOf(p) EXCEPT ![i] = i] ELSE XOf(p)
       /\ HasX => XOf(p)[i] = ut[i].x
  <2>1. XOf(p) = [j \in {h \in Below(ct.vl) : ct.nxpr > 1} |-> ut[j].x]
    BY <1>3, <1>5 DEF XOf
  <2>2. XOf(p)' = [j \in {h \in Below(ct.vl) : ct.nxpr > 1} |-> ut'[j].x]
    BY <1>3, <1>7, <1>8 DEF XOf
  <2>3. insn # "utidx" => XOf(p)' = XOf(p)
    BY <1>17, <1>18, <2>1, <2>2 DEF Below
  <2>4. insn = "utidx" => XOf(p)' = [XOf(p) EXCEPT ![i] = i]
    BY <1>6, <1>17, <1>18, <2>1, <2>2 DEF Below
  <2>5. HasX => XOf(p)[i] = ut[i].x
    BY <1>6, <2>1 DEF HasX
  <2> QED BY <2>3, <2>4, <2>5
<1>20. /\ FOf(p)' = CASE insn = "load" -> [FOf(p) EXCEPT ![i] = mem[p]]
                      [] insn = "fadd" -> [FOf(p) EXCEPT ![i] = FOf(p)[i] + FOf(p)[i]]
                      [] OTHER -> FOf(p)
       /\ HasF => FOf(p)[i] = ut[i].f
  <2>1. FOf(p) = [j \in {h \in Below(ct.vl) : ct.nfpr > 0} |-> ut[j].f]
    BY <1>3, <1>5 DEF FOf
  <2>2. FOf(p)' = [j \in {h \in Below(ct.vl) : ct.nfpr > 0} |-> ut'[j].f]
    BY <1>3, <1>7, <1>8 DEF FOf
  <2>3. insn \notin {"load", "fadd"} => FOf(p)' = FOf(p)
    BY <1>17, <1>18, <2>1, <2>2 DEF Below
  <2>4. insn = "load" => FOf(p)' = [FOf(p) EXCEPT ![i] = mem[p]]
    BY <1>6, <1>17, <1>18, <2>1, <2>2 DEF Below
  <2>5. HasF => FOf(p)[i] = ut[i].f
    BY <1>6, <2>1 DEF HasF
  <2>6. insn = "fadd" => FOf(p)' = [FOf(p) EXCEPT ![i] = FOf(p)[i] + FOf(p)[i]]
    BY <1>6, <1>16, <1>17, <1>18, <2>1, <2>2, <2>5 DEF Below
  <2> QED BY <2>3, <2>4, <2>5, <2>6
<1>21. /\ mem'[p] = CASE insn = "amo" -> mem[p] + XOf(p)[i] [] insn = "store" -> FOf(p)[i]
                      [] OTHER -> mem[p]
       /\ xpr'[p] = CASE insn = "addi" -> XOf(p)[i] + 1 [] insn = "amo" -> mem[p]
                      [] OTHER -> xpr[p]
  BY <1>16, <1>18, <1>19, <1>20
<1> HIDE DEF insn, i
<1>22. Private!Execute(p, i)
  BY <1>1, <1>2, <1>5, <1>8, <1>9, <1>11, <1>13, <1>14, <1>15, <1>16, <1>19, <1>20, <1>21
     DEF Private!Execute
<1> QED BY <1>5, <1>6, <1>22 DEF i

\* Saving and restoring the unit, and handing a reset one over, change no
\* process's view of it.
LEMMA SwitchStep ==
  ASSUME HwachaInv, Vxcptsave \/ \E p \in Procs : Vxcptrestore(p) \/ Schedule(p)
  PROVE  \A q \in Procs : SameView(q)
<1>1. /\ ct \in Cts /\ ut \in [Uts -> Regs] /\ cur \in Procs \cup {NoProc}
      /\ image \in [Procs -> [ct : Cts, ut : [Uts -> Regs]]]
  BY DEF HwachaInv, TypeOK
<1>2. mem' = mem /\ xpr' = xpr
  BY DEF Vxcptsave, Vxcptrestore, Schedule, procVars
<1>3. ASSUME Vxcptsave, NEW q \in Procs PROVE SameView(q)
  <2>1. cur \in Procs /\ cur' = NoProc
    BY <1>1, <1>3 DEF Vxcptsave
  <2>2. CASE q # cur
    <3>1. UnitOf(q)' = UnitOf(q)
      BY <1>1, <1>3, <2>1, <2>2, ProcsAssumption DEF Vxcptsave, UnitOf
    <3> QED BY <1>2, <3>1, SameUnit
  <2>3. CASE q = cur
    <3>1. /\ UnitOf(q) = [ct |-> ct, ut |-> ut]
          /\ UnitOf(q)' = [ct |-> ct, ut |-> [i \in Uts |-> Saved(i)]]
      BY <1>1, <1>3, <2>1, <2>3, ProcsAssumption DEF Vxcptsave, UnitOf
    <3>2. \A i \in Below(ct.vl) : /\ Saved(i).run = ut[i].run
                                  /\ ct.nxpr > 1 => Saved(i).x = ut[i].x
                                  /\ ct.nfpr > 0 => Saved(i).f = ut[i].f
      BY DEF Saved, Below, HasX, HasF
    <3> QED BY <1>2, <3>1, <3>2, SimilarUnit DEF Below
  <2> QED BY <2>2, <2>3
<1>4. ASSUME NEW p \in Procs, Vxcptrestore(p), NEW q \in Procs PROVE SameView(q)
  <2>1. cur = NoProc /\ cur' = p /\ image' = [image EXCEPT ![p] = ResetUnit]
    BY <1>4 DEF Vxcptrestore
  <2>2. CASE q # p
    <3>1. UnitOf(q)' = UnitOf(q)
      BY <1>1, <2>1, <2>2, ProcsAssumption DEF UnitOf
    <3> QED BY <1>2, <3>1, SameUnit
  <2>3. CASE q = p
    <3>1. UnitOf(q) = image[p] /\ UnitOf(q)' = [ct |-> ct', ut |-> ut']
      BY <1>1, <2>1, <2>3, ProcsAssumption DEF UnitOf
    <3>2. ct' = image[p].ct
      BY <1>4 DEF Vxcptrestore, RestoredCt
    <3>3. \A i \in Below(image[p].ct.vl) :
             /\ ut'[i].run = image[p].ut[i].run
             /\ image[p].ct.nxpr > 1 => ut'[i].x = image[p].ut[i].x
             /\ image[p].ct.nfpr > 0 => ut'[i].f = image[p].ut[i].f
      BY <1>4 DEF Vxcptrestore, Restored, Below
    <3> QED BY <1>2, <3>1, <3>2, <3>3, SimilarUnit
  <2> QED BY <2>2, <2>3
<1>5. ASSUME NEW p \in Procs, Schedule(p), NEW q \in Procs PROVE SameView(q)
  <2>1. image[p] = ResetUnit /\ ct = ResetCt /\ ut = ResetUt /\ cur = NoProc
    BY <1>5 DEF Schedule, HwachaInv, Ownership
  <2>2. UnitOf(q)' = UnitOf(q)
    BY <1>5, <2>1, ProcsAssumption DEF Schedule, UnitOf, ResetUnit, unitVars
  <2> QED BY <1>2, <2>2, SameUnit
<1> QED BY <1>3, <1>4, <1>5

\* Every step of the shared unit is a step of one private unit, or of none.
LEMMA NextRefines ==
  HwachaInv /\ HwachaInv' /\ [Next]_vars => [Private!Next]_(Private!vars)
<1> SUFFICES ASSUME HwachaInv, HwachaInv', [Next]_vars
             PROVE  Private!Next \/ UNCHANGED Private!vars
  OBVIOUS
<1>0. /\ TypeOK /\ TypeOK' /\ ct \in Cts /\ ut \in [Uts -> Regs]
      /\ cur \in Procs \cup {NoProc}
      /\ loc # "kernel" => cur \in Procs
  BY DEF HwachaInv, TypeOK, Ownership
<1> USE DEF unitVars, kernelVars, procVars
\* A step that leaves unit, owner, images and memory alone.
<1>1. ASSUME UNCHANGED <<ct, ut, cur, image, mem, xpr>> PROVE UNCHANGED Private!vars
  <2>1. \A q \in Procs : UnitOf(q)' = UnitOf(q) /\ mem'[q] = mem[q] /\ xpr'[q] = xpr[q]
    BY <1>1 DEF UnitOf
  <2>2. \A q \in Procs : SameView(q)
    BY <2>1, SameUnit
  <2> QED BY <1>0, <2>2, Stutter
\* A step of the current process that is one of its private unit.
<1>2. ASSUME NEW p \in Procs, p = cur, cur' = cur, image' = image,
             \A q \in Procs \ {p} : mem'[q] = mem[q] /\ xpr'[q] = xpr[q],
             \/ Private!Clear(p) \/ Private!SetLength(p) \/ Private!Write(p) \/ Private!Start(p)
             \/ \E i \in Private!Elements(VlOf(p)) : Private!Execute(p, i)
      PROVE  Private!Next
  <2>1. Private!OnlyOf(p)
    BY <1>2, Others, Alone
  <2> QED BY <1>2, <2>1 DEF Private!Next
<1>3. ASSUME NEW c \in Configs, Vsetcfg(c[1], c[2])
      PROVE Private!Next \/ UNCHANGED Private!vars
  <2>1. CASE TooMany(c[1], c[2])
    BY <1>1, <1>3, <2>1 DEF Vsetcfg
  <2>2. CASE ~ TooMany(c[1], c[2])
    <3>1. ct' = [ct EXCEPT !.nxpr = c[1], !.nfpr = c[2], !.maxvl = MaxvlOf(c[1], c[2]), !.vl = 0]
      BY <1>3, <2>2 DEF Vsetcfg
    <3>2. ct'.vl = 0
      BY <1>0, <3>1 DEF Cts
    <3>3. PICK p \in Procs : p = cur
      BY <1>0, <1>3 DEF Vsetcfg, User
    <3>4. cur' = cur /\ image' = image /\ mem' = mem /\ xpr' = xpr
      BY <1>3 DEF Vsetcfg
    <3>5. UnitOf(p)'.ct.vl = 0
      BY <3>2, <3>3, <3>4 DEF UnitOf
    <3>6. Private!Clear(p)
      BY <3>4, <3>5, ClearStep
    <3> QED BY <1>2, <3>3, <3>4, <3>6
  <2> QED BY <2>1, <2>2
<1>4. ASSUME NEW n \in Lengths, Vsetvl(n) PROVE Private!Next
  <2>1. PICK p \in Procs : p = cur
    BY <1>0, <1>4 DEF Vsetvl, User
  <2>2. Private!SetLength(p)
    BY <1>4, <2>1, VsetvlStep
  <2>3. cur' = cur /\ image' = image /\ mem' = mem /\ xpr' = xpr
    BY <1>4 DEF Vsetvl
  <2> QED BY <1>2, <2>1, <2>2, <2>3
<1>5. ASSUME NEW v \in Values, Vmsv(v) \/ Vfmsv(v)
      PROVE Private!Next \/ UNCHANGED Private!vars
  <2>1. CASE ut' = ut
    BY <1>1, <1>5, <2>1 DEF Vmsv, Vfmsv
  <2>2. CASE ut' # ut
    <3>1. User /\ UNCHANGED <<ct, cur, mem, xpr, at, image>>
      BY <1>5 DEF Vmsv, Vfmsv
    <3>2. PICK p \in Procs : p = cur
      BY <1>0, <3>1 DEF User
    <3>3. ct.vl \in 0 .. max_uts
      BY <1>0, SizeFact DEF HwachaInv, BlockConsistent, Consistent, Cts
    <3>4. \/ \A i \in Uts : /\ ut'[i].f = ut[i].f
                             /\ ut'[i].x = IF i < ct.vl THEN v ELSE ut[i].x
          \/ \A i \in Uts : /\ ut'[i].x = ut[i].x
                             /\ ut'[i].f = IF i < ct.vl THEN v ELSE ut[i].f
      <4>1. CASE Vmsv(v)
        BY <1>0, <2>2, <4>1 DEF Vmsv, Regs
      <4>2. CASE Vfmsv(v)
        BY <1>0, <2>2, <4>2 DEF Vfmsv, Regs
      <4> QED BY <1>5, <4>1, <4>2
    <3>5. Private!Write(p)
      BY <3>1, <3>2, <3>3, <3>4, WriteStep
    <3> QED BY <1>2, <3>1, <3>2, <3>5
  <2> QED BY <2>1, <2>2
<1>6. ASSUME NEW v \in Values, NEW k \in 0 .. max_uts, Vlseg(v, k) PROVE Private!Next
  <2>1. User /\ UNCHANGED <<ct, cur, mem, xpr, at, image>>
    BY <1>6 DEF Vlseg
  <2>2. PICK p \in Procs : p = cur
    BY <1>0, <2>1 DEF User
  <2>3. \A i \in Uts : ut'[i].f = ut[i].f /\ ut'[i].x = IF i < k THEN v ELSE ut[i].x
    BY <1>0, <1>6 DEF Vlseg, Regs
  <2>4. Private!Write(p)
    BY <2>1, <2>2, <2>3, WriteStep
  <2> QED BY <1>2, <2>1, <2>2, <2>4
<1>7. ASSUME NEW pc \in Starts, Vf(pc) PROVE Private!Next \/ UNCHANGED Private!vars
  <2>1. CASE vf_active
    BY <1>1, <1>7, <2>1 DEF Vf
  <2>2. CASE ~ vf_active
    <3>1. PICK p \in Procs : p = cur
      BY <1>0, <1>7 DEF Vf
    <3>2. Private!Start(p)
      BY <1>7, <2>2, <3>1, StartStep
    <3>3. cur' = cur /\ image' = image /\ mem' = mem /\ xpr' = xpr
      BY <1>7 DEF Vf
    <3> QED BY <1>2, <3>1, <3>2, <3>3
  <2> QED BY <2>1, <2>2
<1>8. ASSUME UtExecute PROVE Private!Next
  <2>1. PICK p \in Procs : p = cur
    BY <1>0, <1>8 DEF UtExecute
  <2>2. \E i \in Private!Elements(VlOf(p)) : Private!Execute(p, i)
    BY <1>8, <2>1, ElementStep
  <2>3. cur' = cur /\ image' = image /\ \A q \in Procs \ {p} : mem'[q] = mem[q] /\ xpr'[q] = xpr[q]
    BY <1>0, <1>8, <2>1 DEF UtExecute, TypeOK
  <2> QED BY <1>2, <2>1, <2>2, <2>3
<1>9. ASSUME Vxcptkill PROVE Private!Next
  <2>1. PICK p \in Procs : p = cur
    BY <1>0, <1>9 DEF Vxcptkill
  <2>2. cur' = NoProc /\ image' = image /\ mem' = mem /\ xpr' = xpr /\ image[p] = ResetUnit
    BY <1>9, <2>1 DEF Vxcptkill, HwachaInv, Ownership
  <2>3. UnitOf(p)'.ct.vl = 0
    BY <2>1, <2>2, ProcsAssumption DEF UnitOf, ResetUnit, ResetCt
  <2>4. \A q \in Procs \ {p} : UnitOf(q)' = UnitOf(q)
    BY <2>1, <2>2, ProcsAssumption DEF UnitOf
  <2>5. \A q \in Procs \ {p} : SameView(q)
    BY <2>2, <2>4, SameUnit
  <2>6. Private!Clear(p) /\ Private!OnlyOf(p)
    BY <2>2, <2>3, <2>5, ClearStep, Alone
  <2> QED BY <2>6 DEF Private!Next
<1>10. ASSUME Vxcptsave \/ \E p \in Procs : Vxcptrestore(p) \/ Schedule(p)
       PROVE UNCHANGED Private!vars
  BY <1>0, <1>10, SwitchStep, Stutter
<1>11. ASSUME NEW c, BadInsn(c) PROVE UNCHANGED Private!vars
  BY <1>1, <1>11 DEF BadInsn
<1>12. ASSUME VfFetchException \/ VfFetch \/ UtException \/ Preempt \/ Vxcptcause \/ Sret
       PROVE UNCHANGED Private!vars
  BY <1>1, <1>12 DEF VfFetchException, VfFetch, UtException, Preempt, Vxcptcause, Sret
<1>13. CASE UNCHANGED vars
  BY <1>1, <1>13 DEF vars
<1> QED BY <1>3, <1>4, <1>5, <1>6, <1>7, <1>8, <1>9, <1>10, <1>11, <1>12, <1>13 DEF Next

LEMMA InitRefines == Init => Private!Init
<1> SUFFICES ASSUME Init PROVE Private!Init
  OBVIOUS
<1>1. \A p \in Procs : UnitOf(p) = ResetUnit
  BY DEF Init, UnitOf, ResetUnit
<1>2. ASSUME NEW p \in Procs
      PROVE  /\ VlOf(p) = 0 /\ XOf(p) = Private!Empty /\ FOf(p) = Private!Empty
             /\ NextOf(p) = Private!Empty /\ ActiveOf(p) = FALSE
  <2>1. VlOf(p) = 0
    BY <1>1 DEF VlOf, ResetUnit, ResetCt
  <2> QED BY <1>1, <2>1, BelowZero
          DEF XOf, FOf, NextOf, ActiveOf, Active, Private!Empty, VlOf
<1> QED BY <1>2 DEF Private!Init, Init

\* The shared unit implements a private one for every process: blocks execute
\* each instruction exactly once in each micro-thread, in order, registers keep
\* their values, and the word and the scalar register that blocks write
\* (decode.h:134) are their process's, whatever faults, returns of vf in debug
\* mode, trips through the kernel and blocks of other processes come in between.
THEOREM ImplementsPrivateUnits == Spec => Virtualised
<1>1. HwachaInv /\ HwachaInv' /\ [Next]_vars => [Private!Next]_(Private!vars)
  BY NextRefines
<1> QED BY <1>1, InitRefines, Invariance, PTL DEF Spec, Virtualised, Private!Spec
==============================================================================
