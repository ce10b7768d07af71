-------------------------------- MODULE Hwacha --------------------------------
(***************************************************************************)
(* The vector unit (hwacha/).  A vf instruction runs a block of            *)
(* instructions in the micro-threads below the vector length; an exception *)
(* leaves the unit in the middle of the block, and the instruction is      *)
(* executed again when the kernel returns.  Processes share the unit: the  *)
(* kernel saves, kills and restores its state with the vxcpt instructions. *)
(*                                                                         *)
(* One integer and one floating point register of a micro-thread, x1 and   *)
(* f0, stand for all; mem is a word of each process, the one its blocks    *)
(* load and store.  The integer instructions of a block are the files      *)
(* of the scalar processor: they read the micro-thread's registers, but    *)
(* write a scalar register of the hart, xpr.                               *)
(*                                                                         *)
(* The processes and the kernel are the environment: they execute the      *)
(* vector instructions in any order, but the kernel reads the cause of an  *)
(* exception first, saves the scalar registers and, before it schedules    *)
(* another process, the unit; and a process whose block was interrupted    *)
(* executes the same vf again.                                             *)
(***************************************************************************)
EXTENDS Integers, Sequences

CONSTANTS
  Procs,        \* processes that use the unit
  NoProc,       \* nobody: the unit has been saved or killed
  MaxRegs,      \* registers of each kind (32)
  Lanes, Banks, \* 8 lanes of 256 registers
  Block,        \* instructions of a process
  Starts,       \* where in them its blocks start
  MaxInsns,     \* bound: vector instructions the processes complete or begin
  Configs,      \* configurations they ask for, pairs of register counts
  Lengths,      \* lengths they ask for
  Values        \* scalars that they move into vector registers

max_uts == Lanes * Banks
Uts == 0 .. max_uts - 1
UtInsns == {"utidx", "load", "fadd", "store", "addi", "amo", "illegal", "stop"}

ASSUME ProcsAssumption == NoProc \notin Procs
ASSUME SizesAssumption == MaxRegs \in Nat \ {0} /\ Lanes \in Nat \ {0} /\ Banks \in Nat \ {0}
ASSUME BlockAssumption == /\ Block \in Seq(UtInsns) /\ Len(Block) > 0
                          /\ Block[Len(Block)] = "stop"
                          /\ Starts \subseteq 0 .. Len(Block)
ASSUME BoundAssumption == /\ MaxInsns \in Nat /\ Values \subseteq Nat
                          /\ Configs \subseteq Nat \X Nat /\ Lengths \subseteq Nat

VARIABLES
  ct,           \* ct_state: nxpr, nfpr, maxvl, vl, count (UTIDX), vf_pc
  ut,           \* ut_state: run and the registers of each micro-thread
  cop,          \* the cause of the exception while IRQ_COP is pending, else "none"
  debug,        \* does vf return after each instruction of the block?
  loc,          \* what the hart executes
  cur,          \* the process the unit belongs to
  at,           \* is the process's next instruction a vf it has begun?
  saved,        \* the processes whose unit the kernel has saved
  image,        \* what it has saved of each, a reset unit if nothing
  mem,          \* the word of each process
  xpr,          \* the scalar register of each process that its blocks write
  insns         \* vector instructions so far

unitVars == <<ct, ut>>
kernelVars == <<cur, saved, image>>
dataVars == <<mem, xpr>>
procVars == <<at, mem, xpr, insns>>
vars == <<ct, ut, cop, debug, loc, cur, at, saved, image, mem, xpr, insns>>

------------------------------------------------------------------------------
\* vsetcfg: how many micro-threads the registers are enough for.
MaxvlOf(nxpr, nfpr) == IF nxpr + nfpr < 2 THEN max_uts
                       ELSE Lanes * (Banks \div (nxpr - 1 + nfpr))
\* Addresses of a block: its instructions, one that is not aligned, and the
\* -1 of reset.  The 32 that reset gives maxvl is MaxvlOf of all registers.
Misaligned == 0
NoPc == -1
ResetCt == [nxpr |-> MaxRegs, nfpr |-> MaxRegs, maxvl |-> MaxvlOf(MaxRegs, MaxRegs),
            vl |-> 0, count |-> 0, vf_pc |-> NoPc]
ResetUt == [i \in Uts |-> [run |-> FALSE, x |-> 0, f |-> 0]]
ResetUnit == [ct |-> ResetCt, ut |-> ResetUt]

Below(n) == {i \in Uts : i < n}
Active(c, u) == \E i \in Below(c.vl) : u[i].run
vf_active == Active(ct, ut)
HasX == ct.nxpr > 1
HasF == ct.nfpr > 0

Init == /\ ct = ResetCt
        /\ ut = ResetUt
        /\ cop = "none"
        /\ debug \in BOOLEAN
        /\ loc = "user"
        /\ cur \in Procs
        /\ at = [p \in Procs |-> "next"]
        /\ saved = {}
        /\ image = [p \in Procs |-> ResetUnit]
        /\ mem = [p \in Procs |-> 0]
        /\ xpr = [p \in Procs |-> 0]
        /\ insns = 0

\* take_exception raises the coprocessor interrupt and takes it at once.  (In
\* a process it is enabled; with SR_EI or its mask off the simulator stops
\* with a logic_error.)
take_exception(c) == cop' = c /\ loc' = "kernel" /\ UNCHANGED insns
\* An instruction completes.
Complete == /\ insns < MaxInsns /\ insns' = insns + 1
            /\ UNCHANGED <<cop, loc>>

------------------------------------------------------------------------------
\* Instructions of a process outside of a block.
User == loc = "user" /\ at[cur] = "next"

\* The mistake of checking one kind of register only.
TooManyF(nxpr, nfpr) == nfpr > MaxRegs
TooMany(nxpr, nfpr) == nxpr > MaxRegs \/ nfpr > MaxRegs
Vsetcfg(nxpr, nfpr) ==
  /\ User
  /\ IF TooMany(nxpr, nfpr)
     THEN take_exception("ILLEGAL_CFG") /\ UNCHANGED ct
     ELSE /\ ct' = [ct EXCEPT !.nxpr = nxpr, !.nfpr = nfpr,
                              !.maxvl = MaxvlOf(nxpr, nfpr), !.vl = 0]
          /\ Complete
  /\ UNCHANGED <<ut, debug, kernelVars, at, dataVars>>

Vsetvl(n) ==
  /\ User
  /\ ct' = [ct EXCEPT !.vl = IF n < ct.maxvl THEN n ELSE ct.maxvl]
  /\ Complete
  /\ UNCHANGED <<ut, debug, kernelVars, at, dataVars>>

\* vmsv and vfmsv: a scalar into every micro-thread.
Vmsv(v) ==
  /\ User
  /\ IF ct.vl > 0 /\ ~ HasX
     THEN take_exception("TVEC_ILLEGAL_REGID") /\ UNCHANGED ut
     ELSE /\ ut' = [i \in Uts |-> IF i < ct.vl THEN [ut[i] EXCEPT !.x = v] ELSE ut[i]]
          /\ Complete
  /\ UNCHANGED <<ct, debug, kernelVars, at, dataVars>>
Vfmsv(v) ==
  /\ User
  /\ IF ct.vl > 0 /\ ~ HasF
     THEN take_exception("TVEC_ILLEGAL_REGID") /\ UNCHANGED ut
     ELSE /\ ut' = [i \in Uts |-> IF i < ct.vl THEN [ut[i] EXCEPT !.f = v] ELSE ut[i]]
          /\ Complete
  /\ UNCHANGED <<ct, debug, kernelVars, at, dataVars>>

\* A vector load of the value v: the first k micro-threads are written, then a
\* load faults; it starts again from the first when it is executed again.
Vlseg(v, k) ==
  /\ User
  /\ k \in 0 .. ct.vl
  /\ k < ct.vl /\ ~ HasX => k = 0
  /\ k > 0 => HasX
  /\ ut' = [i \in Uts |-> IF i < k THEN [ut[i] EXCEPT !.x = v] ELSE ut[i]]
  /\ IF k < ct.vl
     THEN \/ take_exception("FAULT_LOAD")
          \/ take_exception("MISALIGNED_LOAD")
          \/ ~ HasX /\ take_exception("TVEC_ILLEGAL_REGID")
     ELSE Complete
  /\ UNCHANGED <<ct, debug, kernelVars, at, dataVars>>

\* An opcode that is no instruction, and a vxcpt instruction in user mode.
BadInsn(c) ==
  /\ User
  /\ take_exception(c)
  /\ UNCHANGED <<unitVars, debug, kernelVars, at, dataVars>>

------------------------------------------------------------------------------
\* vf: starts the block at pc unless one is active, which it continues.
Vf(pc) ==
  /\ loc = "user"
  /\ ct.vl > 0
  /\ IF vf_active THEN UNCHANGED <<unitVars, insns>>
     ELSE /\ insns < MaxInsns /\ insns' = insns + 1
          /\ ct' = [ct EXCEPT !.vf_pc = pc]
          /\ ut' = [i \in Uts |-> IF i < ct.vl THEN [ut[i] EXCEPT !.run = TRUE] ELSE ut[i]]
  /\ loc' = "fetch"
  /\ at' = [at EXCEPT ![cur] = "vf"]
  /\ UNCHANGED <<cop, debug, kernelVars, dataVars>>

\* The fetch at the head of vf_loop.
VfFetchException ==
  /\ loc = "fetch"
  /\ \/ ct.vf_pc = Misaligned /\ take_exception("VF_MISALIGNED_FETCH")
     \/ ct.vf_pc # Misaligned /\ take_exception("VF_FAULT_FETCH")
     \/ ct.vf_pc # Misaligned /\ Block[ct.vf_pc] = "illegal"
          /\ take_exception("VF_ILLEGAL_INSTRUCTION")
  /\ UNCHANGED <<unitVars, debug, kernelVars, at, dataVars>>
VfFetch ==
  /\ loc = "fetch"
  /\ ct.vf_pc # Misaligned
  /\ Block[ct.vf_pc] # "illegal"
  /\ loc' = "execute"
  /\ UNCHANGED <<unitVars, cop, debug, kernelVars, procVars>>

\* Has the micro-thread the registers of the instruction?  addi and amo read
\* x1, utidx writes it; load and store name x0, their base address, and f0,
\* which fadd adds to itself.  Nothing is asked of the scalar destination of
\* addi and amo.
Legal(insn) == /\ insn \in {"utidx", "addi", "amo"} => HasX
               /\ insn \in {"load", "store"} => ct.nxpr > 0
               /\ insn \in {"load", "store", "fadd"} => HasF
\* The instruction in micro-thread UTIDX faults, and UTIDX stays.  (A load is
\* done before its destination, and before an amo's operand, is looked at; a
\* rounding mode, which may be a bad one, before the registers.)
UtException ==
  /\ loc = "execute"
  /\ \/ /\ Block[ct.vf_pc] \in {"load", "amo"} /\ ct.nxpr > 0
        /\ take_exception("FAULT_LOAD") \/ take_exception("MISALIGNED_LOAD")
     \/ Block[ct.vf_pc] = "amo" /\ HasX /\ take_exception("FAULT_STORE")
     \/ /\ Block[ct.vf_pc] = "store" /\ Legal("store")
        /\ take_exception("FAULT_STORE") \/ take_exception("MISALIGNED_STORE")
     \/ Block[ct.vf_pc] = "fadd" /\ take_exception("VF_ILLEGAL_INSTRUCTION")
     \/ ~ Legal(Block[ct.vf_pc]) /\ take_exception("VF_ILLEGAL_REGID")
  /\ UNCHANGED <<unitVars, debug, kernelVars, at, dataVars>>

\* What an instruction does to the micro-thread that executes it, to the word
\* and to the scalar register.
Here == [t |-> ut[ct.count], word |-> mem[cur], rd |-> xpr[cur]]
ut_stop(s) == [s EXCEPT !.t = [s.t EXCEPT !.run = FALSE]]
ut_utidx(s) == [s EXCEPT !.t = [s.t EXCEPT !.x = ct.count]]
fld(s) == [s EXCEPT !.t = [s.t EXCEPT !.f = s.word]]
fadd_d(s) == [s EXCEPT !.t = [s.t EXCEPT !.f = s.t.f + s.t.f]]
fsd(s) == [s EXCEPT !.word = s.t.f]
addi(s) == [s EXCEPT !.rd = s.t.x + 1]
amoadd_d(s) == [s EXCEPT !.word = s.word + s.t.x, !.rd = s.word]
Effect(insn, s) == CASE insn = "stop" -> ut_stop(s)
                     [] insn = "utidx" -> ut_utidx(s)
                     [] insn = "load" -> fld(s)
                     [] insn = "fadd" -> fadd_d(s)
                     [] insn = "store" -> fsd(s)
                     [] insn = "addi" -> addi(s)
                     [] insn = "amo" -> amoadd_d(s)
                     [] OTHER -> s
After == Effect(Block[ct.vf_pc], Here)
\* The mistake of testing UTIDX before it is incremented.
PastLastUt == ct.count >= ct.vl
LastUt == ct.count + 1 >= ct.vl
\* It succeeds; after the last micro-thread the block goes on with the next
\* instruction, or vf ends.
UtExecute ==
  /\ loc = "execute"
  /\ Legal(Block[ct.vf_pc])
  /\ ut' = [ut EXCEPT ![ct.count] = After.t]
  /\ mem' = [mem EXCEPT ![cur] = After.word]
  /\ xpr' = [xpr EXCEPT ![cur] = After.rd]
  /\ ct' = IF LastUt THEN [ct EXCEPT !.count = 0, !.vf_pc = ct.vf_pc + 1]
                     ELSE [ct EXCEPT !.count = ct.count + 1]
  /\ loc' = CASE ~ LastUt -> "execute"
              [] LastUt /\ vf_active' /\ ~ debug -> "fetch"
              [] OTHER -> "user"
  /\ at' = IF LastUt /\ ~ vf_active' THEN [at EXCEPT ![cur] = "next"] ELSE at
  /\ UNCHANGED <<cop, debug, kernelVars, insns>>

------------------------------------------------------------------------------
\* The kernel.  An interrupt comes between two instructions; the coprocessor
\* interrupt is taken again for as long as vxcptcause has not cleared it.
Preempt == /\ loc = "user"
           /\ loc' = "kernel"
           /\ UNCHANGED <<unitVars, cop, debug, kernelVars, procVars>>
Vxcptcause == /\ loc = "kernel"
              /\ cop' = "none"
              /\ UNCHANGED <<unitVars, debug, loc, kernelVars, procVars>>
Kernel == loc = "kernel" /\ cop = "none"
Sret == /\ Kernel /\ cur # NoProc
        /\ loc' = "user"
        /\ UNCHANGED <<unitVars, cop, debug, kernelVars, procVars>>

\* vxcptsave writes the registers that are configured of the micro-threads
\* below vl, their run flags and the control state; then it resets the unit.
Saved(i) == IF i < ct.vl THEN [run |-> ut[i].run,
                               x |-> IF HasX THEN ut[i].x ELSE 0,
                               f |-> IF HasF THEN ut[i].f ELSE 0]
            ELSE ResetUt[i]
Vxcptsave ==
  /\ Kernel /\ cur # NoProc
  /\ image' = [image EXCEPT ![cur] = [ct |-> ct, ut |-> [i \in Uts |-> Saved(i)]]]
  /\ saved' = saved \cup {cur}
  /\ ct' = ResetCt /\ ut' = ResetUt
  /\ cur' = NoProc
  /\ UNCHANGED <<cop, debug, loc, procVars>>

\* The mistake of forgetting UTIDX.
RestartedCt(m) == [m.ct EXCEPT !.count = 0]
RestoredCt(m) == m.ct
\* vxcptrestore overwrites what was saved and leaves the rest of the unit.
Restored(m, i) == IF i < m.ct.vl
                  THEN [run |-> m.ut[i].run,
                        x |-> IF m.ct.nxpr > 1 THEN m.ut[i].x ELSE ut[i].x,
                        f |-> IF m.ct.nfpr > 0 THEN m.ut[i].f ELSE ut[i].f]
                  ELSE ut[i]
Vxcptrestore(p) ==
  /\ Kernel /\ cur = NoProc /\ p \in saved
  /\ ct' = RestoredCt(image[p])
  /\ ut' = [i \in Uts |-> Restored(image[p], i)]
  /\ cur' = p
  /\ image' = [image EXCEPT ![p] = ResetUnit]
  /\ saved' = saved \ {p}
  /\ UNCHANGED <<cop, debug, loc, procVars>>
\* A process with nothing saved finds the unit as vxcptkill leaves it.
Schedule(p) ==
  /\ Kernel /\ cur = NoProc /\ p \notin saved
  /\ cur' = p
  /\ UNCHANGED <<unitVars, cop, debug, loc, saved, image, procVars>>
\* The kernel ends a process in the middle of what it does.
Vxcptkill ==
  /\ Kernel /\ cur # NoProc
  /\ ct' = ResetCt /\ ut' = ResetUt
  /\ at' = [at EXCEPT ![cur] = "next"]
  /\ cur' = NoProc
  /\ UNCHANGED <<cop, debug, loc, saved, image, dataVars, insns>>

Next ==
  \/ \E c \in Configs : Vsetcfg(c[1], c[2])
  \/ \E n \in Lengths : Vsetvl(n)
  \/ \E v \in Values : Vmsv(v) \/ Vfmsv(v) \/ \E k \in 0 .. max_uts : Vlseg(v, k)
  \/ \E c \in {"ILLEGAL_INSTRUCTION", "PRIVILEGED_INSTRUCTION"} : BadInsn(c)
  \/ \E pc \in Starts : Vf(pc)
  \/ VfFetchException \/ VfFetch \/ UtException \/ UtExecute
  \/ Preempt \/ Vxcptcause \/ Sret \/ Vxcptsave \/ Vxcptkill
  \/ \E p \in Procs : Vxcptrestore(p) \/ Schedule(p)
Spec == Init /\ [][Next]_vars

------------------------------------------------------------------------------
Regs == [run : BOOLEAN, x : Nat, f : Nat]
Cts == [nxpr : 0 .. MaxRegs, nfpr : 0 .. MaxRegs, maxvl : 0 .. max_uts,
        vl : 0 .. max_uts, count : Uts, vf_pc : Int]
Causes == {"none", "ILLEGAL_CFG", "TVEC_ILLEGAL_REGID", "VF_ILLEGAL_REGID",
           "FAULT_LOAD", "MISALIGNED_LOAD", "FAULT_STORE", "MISALIGNED_STORE",
           "ILLEGAL_INSTRUCTION", "PRIVILEGED_INSTRUCTION", "VF_MISALIGNED_FETCH",
           "VF_FAULT_FETCH", "VF_ILLEGAL_INSTRUCTION"}

\* The state the class declarations describe.  ut is the array of max_uts
\* micro-threads; the lengths that loops over it run to, and UTIDX, stay within
\* it, in the unit and in every saved image.
TypeOK == /\ ct \in Cts
          /\ ut \in [Uts -> Regs]
          /\ cop \in Causes /\ debug \in BOOLEAN
          /\ loc \in {"user", "fetch", "execute", "kernel"}
          /\ cur \in Procs \cup {NoProc}
          /\ at \in [Procs -> {"next", "vf"}]
          /\ saved \subseteq Procs
          /\ image \in [Procs -> [ct : Cts, ut : [Uts -> Regs]]]
          /\ mem \in [Procs -> Nat] /\ xpr \in [Procs -> Nat]
          /\ insns \in 0 .. MaxInsns

\* A control state agrees with the run flags: the vector length is within the
\* array; while a block is active UTIDX is below the length, otherwise 0; and
\* exactly the micro-threads below the length run that UTIDX has not passed in
\* the instruction that stops them.
Consistent(c, u) ==
  /\ c.vl <= c.maxvl /\ c.maxvl <= max_uts
  /\ c.count = 0 \/ (c.count < c.vl /\ c.vf_pc > 0 /\ Active(c, u))
  /\ Active(c, u) => /\ c.vf_pc \in 0 .. Len(Block)
                     /\ \A i \in Below(c.vl) :
                          u[i].run <=> ~ (i < c.count /\ Block[c.vf_pc] = "stop")
  /\ \A i \in Uts : i >= c.vl => ~ u[i].run

\* Whatever is interrupted, saved, killed and restored, the unit and every
\* saved image stay consistent; a process that is not in the middle of a vf
\* has no active block, so that its next vf starts one, and a process that is
\* finds its block still active and does not start it afresh.
BlockConsistent ==
  /\ Consistent(ct, ut)
  /\ \A p \in Procs : Consistent(image[p].ct, image[p].ut)
  /\ cur \in Procs => (at[cur] = "vf" <=> Active(ct, ut))
  /\ \A p \in Procs \ {cur} : at[p] = "vf" <=> Active(image[p].ct, image[p].ut)

------------------------------------------------------------------------------
\* The unit a process sees: the hardware's while it is current, otherwise its
\* image.
UnitOf(p) == IF cur = p THEN [ct |-> ct, ut |-> ut] ELSE image[p]
VlOf(p) == UnitOf(p).ct.vl
ActiveOf(p) == Active(UnitOf(p).ct, UnitOf(p).ut)
XOf(p) == [i \in {j \in Below(VlOf(p)) : UnitOf(p).ct.nxpr > 1} |-> UnitOf(p).ut[i].x]
FOf(p) == [i \in {j \in Below(VlOf(p)) : UnitOf(p).ct.nfpr > 0} |-> UnitOf(p).ut[i].f]
\* Micro-threads below UTIDX have executed the instruction at vf_pc.
NextOf(p) == [i \in {j \in Below(VlOf(p)) : ActiveOf(p)} |->
                IF i < UnitOf(p).ct.count THEN UnitOf(p).ct.vf_pc + 1 ELSE UnitOf(p).ct.vf_pc]

Private == INSTANCE VectorThreads WITH
             MaxLength <- max_uts,
             vl <- [p \in Procs |-> VlOf(p)],
             x <- [p \in Procs |-> XOf(p)],
             f <- [p \in Procs |-> FOf(p)],
             next <- [p \in Procs |-> NextOf(p)],
             active <- [p \in Procs |-> ActiveOf(p)]
\* The shared unit implements a private one per process: a fault, a trip
\* through the kernel or another process's use of the unit neither repeats nor
\* skips an instruction of a block in a micro-thread, and changes no register
\* of a micro-thread below the vector length; the words and scalar registers
\* that blocks write are those of their process.
Virtualised == Private!Spec
==============================================================================
