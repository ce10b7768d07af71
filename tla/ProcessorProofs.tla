-------------------------- MODULE ProcessorProofs --------------------------
(***************************************************************************)
(* Processor for every width of the counter, every slice length and every  *)
(* set of status values: type correctness, the host interrupt against the  *)
(* mailbox, the decode width against the mode, traps against sret, and the *)
(* account of count and timer across bursts of instructions.               *)
(***************************************************************************)
EXTENDS Processor, TLAPS

USE BootAssumption, CountModAssumption, MaxSliceAssumption, MaxCountAssumption,
    MaxResetsAssumption, StatusValsAssumption, DebugModesAssumption

(* set_interrupt changes one pending bit and nothing the mode depends on.  *)
LEMMA SetInterruptFacts ==
  ASSUME NEW s \in Status, NEW irq \in Irqs, NEW on \in BOOLEAN
  PROVE  /\ SetInterrupt(s, irq, on) \in Status
         /\ Rv64Of(SetInterrupt(s, irq, on)) = Rv64Of(s)
         /\ \A j \in Irqs : j # irq =>
              (j \in SetInterrupt(s, irq, on).IP <=> j \in s.IP)
         /\ irq \in SetInterrupt(s, irq, on).IP <=> on
  BY DEF SetInterrupt, Status, Rv64Of

(* The interrupt numbers used are four different ones.                     *)
LEMMA IrqsDistinct ==
  /\ IRQ_COP \in Irqs /\ IRQ_IPI \in Irqs /\ IRQ_HOST \in Irqs /\ IRQ_TIMER \in Irqs
  /\ IRQ_HOST # IRQ_COP /\ IRQ_HOST # IRQ_IPI /\ IRQ_HOST # IRQ_TIMER
  BY DEF Irqs, IRQ_COP, IRQ_IPI, IRQ_HOST, IRQ_TIMER

(* set_pcr(CSR_STATUS): the pending bits stay.                             *)
LEMMA StatusFacts ==
  ASSUME sr \in Status, NEW v \in Status
  PROVE  /\ StatusAfter(v) \in Status
         /\ StatusAfter(v).IP = sr.IP
         /\ Rv64Of(StatusAfter(v)) = Rv64Of(v)
         /\ Rv64Of(v) \in BOOLEAN
  BY DEF StatusAfter, Status, Rv64Of

(* take_trap's status value is one, and the pending bits are untouched.    *)
LEMMA TrapStatusFacts ==
  ASSUME NEW s \in Status
  PROVE  TrapStatus(s) \in Status /\ TrapStatus(s).IP = s.IP
  BY DEF TrapStatus, Status

(* The status after state_t::reset: a status, nothing pending.             *)
LEMMA ResetStatusFacts ==
  /\ ResetStatus \in Status /\ ResetStatus.IP = {} /\ Rv64Of(ResetStatus) \in BOOLEAN
  /\ [ResetStatus EXCEPT !.IP = {IRQ_HOST}] \in Status
  BY DEF ResetStatus, Status, Rv64Of, Irqs

(* The end of a step leaves a well-typed hart whose width is the mode's,   *)
(* and changes no pending bit but the timer's.                             *)
LEMMA EndStepFacts ==
  ASSUME TypeOK, NEW s \in Status, NEW newpc \in PCs, NEW k \in Nat,
         EndStep(s, newpc, k)
  PROVE  /\ loc' = "idle" /\ pc' \in PCs /\ count' \in Nat /\ lpc' \in PCs
         /\ n' = 0 /\ instret' = 0
         /\ sr' \in Status /\ rv64' \in BOOLEAN
         /\ rv64' = Rv64Of(sr')
         /\ (IRQ_HOST \in sr'.IP) <=> (IRQ_HOST \in s.IP)
<1>1. loc' = "idle" /\ pc' \in PCs /\ count' \in Nat /\ lpc' \in PCs
      /\ n' = 0 /\ instret' = 0
  BY DEF EndStep, TypeOK
<1>2. sr' = SetInterrupt(s, IRQ_TIMER, TRUE) \/ sr' = s
  BY DEF EndStep, UpdateTimer
<1>3. rv64' = Rv64Of(s) /\ Rv64Of(s) \in BOOLEAN
  BY DEF EndStep, Rv64Of, Status
<1>4. CASE sr' = s
  BY <1>1, <1>3, <1>4
<1>5. CASE sr' = SetInterrupt(s, IRQ_TIMER, TRUE)
  <2>1. /\ sr' \in Status /\ Rv64Of(sr') = Rv64Of(s)
        /\ (IRQ_HOST \in sr'.IP) <=> (IRQ_HOST \in s.IP)
    BY <1>5, SetInterruptFacts, IrqsDistinct
  <2>2. QED BY <1>1, <1>3, <2>1
<1>6. QED BY <1>2, <1>4, <1>5

(* The inductive invariant *)
ModeInv == TypeOK /\ HostIrqMatchesMailbox /\ Rv64Fresh

(* A trap keeps the invariant, whatever its cause.                         *)
LEMMA TrapKeeps ==
  ASSUME ModeInv, Booted, NEW s \in Status, NEW c \in Causes, NEW at \in PCs,
         NEW k \in Nat, IRQ_HOST \in s.IP <=> IRQ_HOST \in sr.IP,
         TakeTrap(s, c, at, k)
  PROVE  ModeInv'
<1>1. EndStep(TrapStatus(s), evec, k) /\ evec \in PCs /\ TypeOK
  BY DEF TakeTrap, ModeInv, TypeOK
<1>2. /\ loc' = "idle" /\ pc' \in PCs /\ count' \in Nat /\ lpc' \in PCs
      /\ n' = 0 /\ instret' = 0
      /\ sr' \in Status /\ rv64' \in BOOLEAN
      /\ rv64' = Rv64Of(sr')
      /\ (IRQ_HOST \in sr'.IP) <=> (IRQ_HOST \in sr.IP)
  BY <1>1, EndStepFacts, TrapStatusFacts
<1>3. frame' \in Frames
  BY DEF TakeTrap, Frames, Status
<1>4. TypeOK'
  BY <1>1, <1>2, <1>3 DEF TakeTrap, TypeOK
<1>5. HostIrqMatchesMailbox'
  BY <1>2 DEF ModeInv, HostIrqMatchesMailbox, TakeTrap
<1>6. QED BY <1>2, <1>4, <1>5 DEF ModeInv, Rv64Fresh

(* take_interrupt raises a pending interrupt: there is a lowest one.       *)
LEMMA LowestIsCause ==
  ASSUME NEW s \in Status, Pending(s) # {}
  PROVE  Lowest(Pending(s)) \in Causes
<1>1. Pending(s) \subseteq Irqs
  BY DEF Pending, Status
<1>2. \E i \in Pending(s) : \A j \in Pending(s) : i <= j
  BY <1>1 DEF Irqs, IRQ_COP, IRQ_IPI, IRQ_HOST, IRQ_TIMER
<1>3. QED BY <1>1, <1>2 DEF Lowest, Causes

(* What every completed instruction does to the step and the histories.    *)
LEMMA AdvanceFacts ==
  ASSUME TypeOK, NEW npc \in PCs, Advance(npc)
  PROVE  /\ run' \in BOOLEAN /\ debug' \in BOOLEAN /\ pc' \in PCs /\ lpc' \in PCs
         /\ n' \in Nat /\ instret' \in Nat
         /\ again' = "none" /\ resets' \in 0 .. MaxResets
  BY DEF Advance, TypeOK

(* A retired instruction is counted, and the histories stay well typed.    *)
LEMMA RetireFacts ==
  ASSUME TypeOK, NEW npc \in PCs, Retire(npc)
  PROVE  Advance(npc) /\ arch' \in Nat /\ due' \in BOOLEAN
<1>1. due' \in BOOLEAN
  BY DEF Retire, TypeOK, Reaches
<1>2. QED BY <1>1 DEF Retire, TypeOK

(* An instruction that leaves mode and mailboxes alone, but for a pending  *)
(* bit other than the host's.                                              *)
LEMMA QuietInsn ==
  ASSUME ModeInv, loc \in {"exec", "set"}, loc' \in {"exec", "set", "tick"},
         NEW s \in Status, sr' = s, Rv64Of(s) = Rv64Of(sr),
         IRQ_HOST \in s.IP <=> IRQ_HOST \in sr.IP,
         rv64' = rv64, fromhost' = fromhost
  PROVE  HostIrqMatchesMailbox' /\ Rv64Fresh'
<1>1. Booted
  BY DEF Booted
<1>2. HostIrqMatchesMailbox'
  BY <1>1 DEF ModeInv, HostIrqMatchesMailbox
<1>3. Rv64Fresh'
  BY <1>1 DEF ModeInv, Rv64Fresh
<1>4. QED BY <1>2, <1>3

(* Every instruction keeps the mode invariant.                             *)
LEMMA InsnKeeps == ModeInv /\ InsnNext => ModeInv'
<1> SUFFICES ASSUME ModeInv, InsnNext PROVE ModeInv'
  OBVIOUS
<1>0. TypeOK /\ sr \in Status
  BY DEF ModeInv, TypeOK
<1>1. ASSUME NEW npc \in PCs, PlainInsn(npc) PROVE ModeInv'
  <2>1. TypeOK'
    BY <1>0, <1>1, RetireFacts, AdvanceFacts DEF PlainInsn, Exec, TypeOK, modeVars,
       csrVars
  <2>2. QED BY <1>0, <1>1, <2>1, QuietInsn DEF PlainInsn, Exec, ModeInv, modeVars,
               csrVars
<1>2. CASE Exception
  <2>1. Charged \in Nat /\ lpc \in PCs /\ Exc \in Causes /\ Booted
    BY <1>0, <1>2 DEF Exception, Exec, Charged, TypeOK, Causes, Booted
  <2>2. QED BY <1>0, <1>2, <2>1, TrapKeeps DEF Exception
<1>3. ASSUME NEW npc \in PCs, NEW v \in Status,
             Exec("plain"), Retire(npc), SetStatus(v), frame' = NoFrame,
             UNCHANGED <<loc, csrVars, count, serialized, lag, late>>
      PROVE  ModeInv'
  <2>1. sr' \in Status /\ sr'.IP = sr.IP /\ rv64' = Rv64Of(sr') /\ rv64' \in BOOLEAN
    BY <1>0, <1>3, StatusFacts DEF SetStatus
  <2>2. TypeOK'
    BY <1>0, <1>3, <2>1, RetireFacts, AdvanceFacts DEF Exec, TypeOK, csrVars
  <2>3. Booted /\ fromhost' = fromhost
    BY <1>3 DEF Exec, Booted, csrVars
  <2>4. QED BY <2>1, <2>2, <2>3 DEF ModeInv, HostIrqMatchesMailbox, Rv64Fresh
<1>4. ASSUME NEW npc \in PCs, NEW v \in StatusVals, WriteStatus(v, npc) PROVE ModeInv'
  BY <1>3, <1>4 DEF WriteStatus
<1>5. CASE Sret
  <2>1. SretStatus \in Status /\ epc \in PCs
    BY <1>0 DEF SretStatus, Status, TypeOK
  <2>2. QED BY <1>3, <1>5, <2>1 DEF Sret
<1>6. ASSUME NEW npc \in PCs, NEW v \in PCs, WriteEpc(v, npc) \/ WriteEvec(v, npc)
      PROVE  ModeInv'
  <2>1. TypeOK'
    BY <1>0, <1>6, RetireFacts, AdvanceFacts DEF WriteEpc, WriteEvec, Exec, TypeOK,
       modeVars
  <2>2. QED BY <1>0, <1>6, <2>1, QuietInsn DEF WriteEpc, WriteEvec, Exec, ModeInv,
               modeVars
<1>7. ASSUME NEW op \in {"readcount", "writecount", "compare"}, SerializeThrow(op)
      PROVE  ModeInv'
  <2>1. Charged \in Nat /\ lpc \in PCs /\ Booted /\ EndStep(sr, lpc, Charged)
    BY <1>0, <1>7 DEF SerializeThrow, Exec, Charged, TypeOK, Booted
  <2>2. /\ loc' = "idle" /\ pc' \in PCs /\ count' \in Nat /\ lpc' \in PCs
        /\ n' = 0 /\ instret' = 0
        /\ sr' \in Status /\ rv64' \in BOOLEAN /\ rv64' = Rv64Of(sr')
        /\ (IRQ_HOST \in sr'.IP) <=> (IRQ_HOST \in sr.IP)
    BY <1>0, <2>1, EndStepFacts
  <2>3. TypeOK'
    BY <1>0, <1>7, <2>2 DEF SerializeThrow, TypeOK, csrVars
  <2>4. QED BY <1>7, <2>1, <2>2, <2>3 DEF SerializeThrow, ModeInv,
               HostIrqMatchesMailbox, Rv64Fresh, csrVars
<1>8. ASSUME NEW npc \in PCs, ReadCount(npc) PROVE ModeInv'
  <2>1. TypeOK'
    <3>1. lag' \in Nat
      BY <1>0, <1>8 DEF ReadCount, TypeOK
    <3>2. QED BY <1>0, <1>8, <3>1, RetireFacts, AdvanceFacts DEF ReadCount,
                 Serialized, Exec, TypeOK, modeVars, csrVars
  <2>2. QED BY <1>0, <1>8, <2>1, QuietInsn DEF ReadCount, Serialized, Exec,
               ModeInv, modeVars, csrVars
<1>9. ASSUME NEW npc \in PCs, NEW v \in Words, WriteCount(v, npc) PROVE ModeInv'
  <2>1. TypeOK'
    <3>1. lag' \in Nat /\ count' \in Nat /\ arch' \in Nat
      BY <1>0, <1>9 DEF WriteCount, TypeOK, Words
    <3>2. due' \in BOOLEAN
      BY <1>0, <1>9 DEF WriteCount, TypeOK, Reaches
    <3>4. late' \in BOOLEAN
      BY <1>0, <1>9 DEF WriteCount, TypeOK
    <3>3. QED BY <1>0, <1>9, <3>1, <3>2, <3>4, AdvanceFacts DEF WriteCount,
                 Serialized, Exec, TypeOK, modeVars, csrVars
  <2>2. QED BY <1>0, <1>9, <2>1, QuietInsn DEF WriteCount, Serialized, Exec,
               ModeInv, modeVars, csrVars
<1>10. ASSUME NEW npc \in PCs, NEW v \in Words, WriteCompare(v, npc) PROVE ModeInv'
  <2>1. /\ sr' \in Status /\ Rv64Of(sr') = Rv64Of(sr)
        /\ (IRQ_HOST \in sr'.IP) <=> (IRQ_HOST \in sr.IP)
    BY <1>0, <1>10, SetInterruptFacts, IrqsDistinct DEF WriteCompare
  <2>2. TypeOK'
    <3>1. due' \in BOOLEAN
      BY <1>0, <1>10 DEF WriteCompare, TypeOK, Reaches
    <3>2. arch' \in Nat /\ compare' \in Words
      BY <1>0, <1>10 DEF WriteCompare, TypeOK
    <3>5. serialized' \in BOOLEAN
      BY <1>10 DEF WriteCompare, Serialized
    <3>6. late' \in BOOLEAN
      BY <1>0, <1>10 DEF WriteCompare, TypeOK
    <3>3. Advance(npc) /\ UNCHANGED <<loc, rv64, epc, evec, cause, tohost, fromhost,
                                     count, lag, frame>>
      BY <1>10 DEF WriteCompare
    <3>4. QED BY <1>0, <2>1, <3>1, <3>2, <3>3, <3>5, <3>6, AdvanceFacts DEF TypeOK
  <2>3. QED BY <1>10, <2>1, <2>2, QuietInsn DEF WriteCompare, Serialized, Exec,
               ModeInv
<1>11. ASSUME NEW npc \in PCs, NEW irq \in Irqs \ {IRQ_HOST}, NEW on \in BOOLEAN,
              Exec("plain"), Retire(npc), sr' = SetInterrupt(sr, irq, on),
              UNCHANGED <<loc, rv64, csrVars, count, serialized, lag, late, frame>>
       PROVE  ModeInv'
  <2>1. /\ sr' \in Status /\ Rv64Of(sr') = Rv64Of(sr)
        /\ (IRQ_HOST \in sr'.IP) <=> (IRQ_HOST \in sr.IP)
    BY <1>0, <1>11, SetInterruptFacts, IrqsDistinct
  <2>2. TypeOK'
    BY <1>0, <1>11, <2>1, RetireFacts, AdvanceFacts DEF Exec, TypeOK, csrVars
  <2>3. QED BY <1>11, <2>1, <2>2, QuietInsn DEF Exec, ModeInv, csrVars
<1>12. ASSUME NEW npc \in PCs, NEW on \in BOOLEAN, WriteIpi(on, npc) PROVE ModeInv'
  BY <1>11, <1>12, IrqsDistinct DEF WriteIpi
<1>13. ASSUME NEW npc \in PCs, RaiseInterrupt(npc) PROVE ModeInv'
  <2> DEFINE s == SetInterrupt(sr, IRQ_COP, TRUE)
  <2>1. s \in Status /\ (IRQ_HOST \in s.IP <=> IRQ_HOST \in sr.IP)
    BY <1>0, SetInterruptFacts, IrqsDistinct
  <2>2. CASE Pending(s) # {}
    <3>1. TakeTrap(s, Lowest(Pending(s)), lpc, Charged)
      BY <1>13, <2>2 DEF RaiseInterrupt
    <3>2. Charged \in Nat /\ lpc \in PCs /\ Booted
      BY <1>0, <1>13 DEF RaiseInterrupt, Exec, Charged, TypeOK, Booted
    <3>3. Lowest(Pending(s)) \in Causes
      BY <2>1, <2>2, LowestIsCause
    <3> HIDE DEF s
    <3>4. QED BY <2>1, <3>1, <3>2, <3>3, TrapKeeps
  <2>3. CASE Pending(s) = {}
    BY <1>11, <1>13, <2>3, IrqsDistinct DEF RaiseInterrupt
  <2>4. QED BY <2>2, <2>3
<1>14. ASSUME NEW npc \in PCs, ClearInterrupt(npc) PROVE ModeInv'
  BY <1>11, <1>14, IrqsDistinct DEF ClearInterrupt
<1>15. CASE CsrMailbox
  <2>1. TypeOK'
    BY <1>0, <1>15 DEF CsrMailbox, TypeOK, modeVars, csrVars, stepVars
  <2>2. QED BY <1>0, <1>15, <2>1, QuietInsn DEF CsrMailbox, Exec, ModeInv, modeVars,
               csrVars
<1>16. ASSUME NEW npc \in PCs, NEW v \in Mail, SetTohost(v, npc) PROVE ModeInv'
  <2>1. TypeOK'
    BY <1>0, <1>16, RetireFacts, AdvanceFacts DEF SetTohost, TypeOK, modeVars
  <2>2. QED BY <1>0, <1>16, <2>1, QuietInsn DEF SetTohost, ModeInv, modeVars
<1>17. ASSUME NEW npc \in PCs, NEW v \in Mail, SetFromhost(v, npc) PROVE ModeInv'
  <2>1. /\ sr' \in Status /\ Rv64Of(sr') = Rv64Of(sr)
        /\ (IRQ_HOST \in sr'.IP) <=> (v # 0)
    BY <1>0, <1>17, SetInterruptFacts, IrqsDistinct DEF SetFromhost
  <2>2. TypeOK'
    BY <1>0, <1>17, <2>1, RetireFacts, AdvanceFacts DEF SetFromhost, TypeOK
  <2>3. Booted
    BY <1>17 DEF SetFromhost, Booted
  <2>4. QED BY <1>17, <2>1, <2>2, <2>3 DEF SetFromhost, ModeInv, Rv64Fresh,
               HostIrqMatchesMailbox
<1>18. QED BY <1>1, <1>2, <1>4, <1>5, <1>6, <1>7, <1>8, <1>9, <1>10, <1>12, <1>13,
       <1>14, <1>15, <1>16, <1>17 DEF InsnNext

(* Entering and leaving processor_t::step keeps the invariant.             *)
LEMMA StepKeeps == ModeInv /\ StepNext => ModeInv'
<1> SUFFICES ASSUME ModeInv, StepNext PROVE ModeInv'
  OBVIOUS
<1>0. TypeOK /\ sr \in Status
  BY DEF ModeInv, TypeOK
<1>1. CASE StepInterrupt
  <2>1. pc \in PCs /\ Booted /\ Lowest(Pending(sr)) \in Causes
    BY <1>0, <1>1, LowestIsCause DEF StepInterrupt, TypeOK, Booted
  <2>2. QED BY <1>0, <1>1, <2>1, TrapKeeps DEF StepInterrupt
<1>2. CASE StepExit
  <2>1. Charged \in Nat /\ lpc \in PCs /\ Booted /\ EndStep(sr, lpc, Charged)
    BY <1>0, <1>2 DEF StepExit, Charged, TypeOK, Booted
  <2>2. /\ loc' = "idle" /\ pc' \in PCs /\ count' \in Nat /\ lpc' \in PCs
        /\ n' = 0 /\ instret' = 0
        /\ sr' \in Status /\ rv64' \in BOOLEAN /\ rv64' = Rv64Of(sr')
        /\ (IRQ_HOST \in sr'.IP) <=> (IRQ_HOST \in sr.IP)
    BY <1>0, <2>1, EndStepFacts
  <2>3. TypeOK'
    BY <1>0, <1>2, <2>2 DEF StepExit, TypeOK, csrVars
  <2>4. QED BY <1>2, <2>1, <2>2, <2>3 DEF StepExit, ModeInv,
               HostIrqMatchesMailbox, Rv64Fresh, csrVars
<1>3. ASSUME NEW k \in 1 .. MaxSlice, StepEnter(k) PROVE ModeInv'
  <2>1. Budget(k) \in Nat
    <3>1. NextTimer \in Nat
      BY <1>0 DEF NextTimer, Low, TypeOK, Words
    <3>2. OrOne(NextTimer) \in Nat
      BY <3>1 DEF OrOne
    <3>3. QED BY <3>2 DEF Budget
  <2>2. TypeOK'
    BY <1>0, <1>3, <2>1 DEF StepEnter, TypeOK, modeVars, csrVars
  <2>3. Booted /\ UNCHANGED <<sr, rv64, fromhost>>
    BY <1>3 DEF StepEnter, Booted, modeVars, csrVars
  <2>4. QED BY <2>2, <2>3 DEF ModeInv, HostIrqMatchesMailbox, Rv64Fresh
<1>4. QED BY <1>1, <1>2, <1>3 DEF StepNext

(* The host, other harts and the prompt keep the invariant.                *)
LEMMA OutsideKeeps == ModeInv /\ OutsideNext => ModeInv'
<1> SUFFICES ASSUME ModeInv, OutsideNext PROVE ModeInv'
  OBVIOUS
<1>0. TypeOK /\ sr \in Status
  BY DEF ModeInv, TypeOK
<1>1. CASE HostTohost
  <2>1. TypeOK'
    BY <1>0, <1>1 DEF HostTohost, Served, TypeOK, Mail, modeVars, stepVars
  <2>2. Booted' => Booted
    BY <1>1 DEF HostTohost, Served, Booted
  <2>3. UNCHANGED <<sr, rv64, fromhost>>
    BY <1>1 DEF HostTohost, modeVars
  <2>4. QED BY <2>1, <2>2, <2>3 DEF ModeInv, HostIrqMatchesMailbox, Rv64Fresh
<1>2. ASSUME NEW v \in Mail, HostFromhost(v) PROVE ModeInv'
  <2>1. /\ sr' \in Status /\ Rv64Of(sr') = Rv64Of(sr)
        /\ (IRQ_HOST \in sr'.IP) <=> (v # 0)
    BY <1>0, <1>2, SetInterruptFacts, IrqsDistinct DEF HostFromhost
  <2>2. TypeOK'
    BY <1>0, <1>2, <2>1 DEF HostFromhost, Served, TypeOK, stepVars
  <2>3. Booted' => Booted
    BY <1>2 DEF HostFromhost, Served, Booted
  <2>4. UNCHANGED rv64 /\ fromhost' = v
    BY <1>2 DEF HostFromhost
  <2>5. QED BY <2>1, <2>2, <2>3, <2>4 DEF ModeInv, HostIrqMatchesMailbox, Rv64Fresh
<1>3. CASE Reset
  <2>1. sr' = ResetStatus /\ rv64' = Rv64Of(ResetStatus) /\ fromhost' = 0
    BY <1>3 DEF Reset
  <2>2. TypeOK'
    <3>1. /\ loc' \in {"idle", "set"} /\ resets' \in 0 .. MaxResets
          /\ run' \in BOOLEAN
      BY <1>0, <1>3 DEF Reset, Served, TypeOK
    <3>2. sr' \in Status /\ rv64' \in BOOLEAN
      BY <2>1, ResetStatusFacts
    <3>3. 0 \in Words /\ 0 \in Mail /\ Exc \in Causes
      BY DEF Words, Mail, Causes
    <3>4. /\ pc' = Boot /\ epc' = Boot /\ evec' = Boot /\ cause' = Exc
          /\ count' = 0 /\ compare' = 0 /\ tohost' = 0 /\ fromhost' = 0
          /\ again' = "none" /\ arch' = 0 /\ due' = FALSE /\ lag' = 0
          /\ frame' = NoFrame /\ late' \in BOOLEAN /\ UNCHANGED <<debug, serialized, stepVars>>
      BY <1>3 DEF Reset
    <3>5. QED BY <1>0, <3>1, <3>2, <3>3, <3>4 DEF TypeOK, stepVars
  <2>3. QED BY <2>1, <2>2, ResetStatusFacts DEF ModeInv, HostIrqMatchesMailbox,
               Rv64Fresh
<1>4. CASE DeliverIpi
  <2>1. /\ sr' \in Status /\ Rv64Of(sr') = Rv64Of(sr)
        /\ (IRQ_HOST \in sr'.IP) <=> (IRQ_HOST \in sr.IP)
    BY <1>0, <1>4, SetInterruptFacts, IrqsDistinct DEF DeliverIpi
  <2>2. TypeOK'
    BY <1>0, <1>4, <2>1 DEF DeliverIpi, TypeOK, csrVars, stepVars
  <2>3. QED BY <1>4, <2>1, <2>2 DEF DeliverIpi, ModeInv, HostIrqMatchesMailbox,
               Rv64Fresh, Booted, csrVars
<1>5. ASSUME NEW value \in DebugModes, SetDebug(value) PROVE ModeInv'
  <2>1. TypeOK'
    BY <1>0, <1>5 DEF SetDebug, TypeOK, modeVars, csrVars, stepVars
  <2>2. QED BY <1>5, <2>1 DEF SetDebug, ModeInv, HostIrqMatchesMailbox, Rv64Fresh,
               Booted, modeVars, csrVars
<1>6. QED BY <1>1, <1>2, <1>3, <1>4, <1>5 DEF OutsideNext

(* The mode invariant holds of a hart as constructed: it is in reset.      *)
LEMMA InitMode == Init => ModeInv
<1> SUFFICES ASSUME Init PROVE ModeInv
  OBVIOUS
<1>1. sr \in Status /\ debug \in BOOLEAN /\ rv64 \in BOOLEAN
  BY ResetStatusFacts DEF Init
<1>2. TypeOK
  <2>1. 0 \in Words /\ 0 \in Mail /\ Exc \in Causes /\ 0 \in 0 .. MaxResets
    BY DEF Words, Mail, Causes
  <2>2. QED BY <1>1, <2>1 DEF Init, TypeOK
<1>3. ~Booted
  BY DEF Init, Booted
<1>4. QED BY <1>2, <1>3 DEF ModeInv, HostIrqMatchesMailbox, Rv64Fresh

(* The inductive invariant holds in every reachable state.                 *)
LEMMA ModeInvariant == Spec => []ModeInv
<1>1. ModeInv /\ [Next]_vars => ModeInv'
  <2> SUFFICES ASSUME ModeInv, [Next]_vars PROVE ModeInv'
    OBVIOUS
  <2>1. CASE Next
    BY <2>1, InsnKeeps, StepKeeps, OutsideKeeps DEF Next
  <2>2. CASE UNCHANGED vars
    BY <2>2 DEF vars, ModeInv, TypeOK, HostIrqMatchesMailbox, Rv64Fresh, Booted,
       modeVars, csrVars, stepVars
  <2>3. QED BY <2>1, <2>2
<1>2. QED BY <1>1, InitMode, PTL DEF Spec

(* Every reachable state of the hart is well typed.                        *)
THEOREM ProcessorTypes == Spec => []TypeOK
<1>1. ModeInv => TypeOK
  BY DEF ModeInv
<1>2. QED BY <1>1, ModeInvariant, PTL

(* The host interrupt is pending exactly while fromhost is not empty, for  *)
(* every sequence of status writes, traps, packets and resets.             *)
THEOREM HostInterruptCorrect == Spec => []HostIrqMatchesMailbox
<1>1. ModeInv => HostIrqMatchesMailbox
  BY DEF ModeInv
<1>2. QED BY <1>1, ModeInvariant, PTL

(* decode_insn always decodes for the width of the current mode.           *)
THEOREM DecodeWidthCorrect == Spec => []Rv64Fresh
<1>1. ModeInv => Rv64Fresh
  BY DEF ModeInv
<1>2. QED BY <1>1, ModeInvariant, PTL

-----------------------------------------------------------------------------
(* Traps and sret                                                          *)

(* The mode and interrupt-enable bits of s are those of the hart.          *)
SameMode(s) == s.S = sr.S /\ s.PS = sr.PS /\ s.EI = sr.EI /\ s.PEI = sr.PEI

(* A step that leaves the mode alone, and the frame with it if there is    *)
(* one; a write of the status register, or a reset; a trap.                *)
LeavesMode == SameMode(sr') /\ (UNCHANGED <<epc, frame>> \/ frame' = NoFrame)
RewritesMode == (sr.S \/ run' # run) /\ frame' = NoFrame
Traps ==
  \E s \in Status, c \in Causes, at \in PCs, k \in Nat :
    SameMode(s) /\ TakeTrap(s, c, at, k)

(* set_interrupt leaves the mode bits alone, and so does update_timer.     *)
LEMMA InterruptKeepsMode ==
  ASSUME NEW s \in Status, NEW irq \in Irqs, NEW on \in BOOLEAN
  PROVE  LET t == SetInterrupt(s, irq, on)
         IN  t.S = s.S /\ t.PS = s.PS /\ t.EI = s.EI /\ t.PEI = s.PEI
  BY DEF SetInterrupt, Status

(* The end of a step may raise the timer interrupt, and no mode bit.       *)
LEMMA TimerKeepsMode ==
  ASSUME NEW s \in Status, NEW k \in Nat
  PROVE  LET t == UpdateTimer(s, k)
         IN  t.S = s.S /\ t.PS = s.PS /\ t.EI = s.EI /\ t.PEI = s.PEI
  BY IrqsDistinct, InterruptKeepsMode DEF UpdateTimer

(* Nothing but these three happens to the mode.                            *)
LEMMA HowModeChanges ==
  ASSUME TypeOK, Next
  PROVE  LeavesMode \/ RewritesMode \/ Traps
<1>0. sr \in Status /\ lpc \in PCs /\ pc \in PCs /\ Charged \in Nat /\ Exc \in Causes
  BY DEF TypeOK, Charged, Causes
<1>1. ASSUME UNCHANGED sr, UNCHANGED <<epc, frame>> \/ frame' = NoFrame PROVE LeavesMode
  BY <1>1 DEF LeavesMode, SameMode
<1>2. ASSUME NEW irq \in Irqs, NEW on \in BOOLEAN, sr' = SetInterrupt(sr, irq, on),
             UNCHANGED <<epc, frame>>
      PROVE  LeavesMode
  BY <1>0, <1>2, InterruptKeepsMode DEF LeavesMode, SameMode
<1>3. ASSUME NEW k \in Nat, NEW at, EndStep(sr, at, k), UNCHANGED <<epc, frame>>
      PROVE  LeavesMode
  BY <1>0, <1>3, TimerKeepsMode DEF LeavesMode, SameMode, EndStep
<1>4. CASE InsnNext
  <2>1. ASSUME NEW npc \in PCs, PlainInsn(npc) PROVE LeavesMode
    BY <1>1, <2>1 DEF PlainInsn, modeVars, csrVars
  <2>2. ASSUME NEW npc \in PCs, RaiseInterrupt(npc) PROVE LeavesMode \/ Traps
    <3> DEFINE s == SetInterrupt(sr, IRQ_COP, TRUE)
    <3>1. s \in Status /\ SameMode(s)
      BY <1>0, IrqsDistinct, SetInterruptFacts, InterruptKeepsMode DEF SameMode
    <3>2. CASE Pending(s) # {}
      <4>1. TakeTrap(s, Lowest(Pending(s)), lpc, Charged)
        BY <2>2, <3>2 DEF RaiseInterrupt
      <4>2. Lowest(Pending(s)) \in Causes
        BY <3>1, <3>2, LowestIsCause
      <4> HIDE DEF s
      <4>3. QED BY <1>0, <3>1, <4>1, <4>2 DEF Traps
    <3>3. CASE Pending(s) = {}
      BY <1>2, <2>2, <3>3, IrqsDistinct DEF RaiseInterrupt, csrVars
    <3>4. QED BY <3>2, <3>3
  <2>3. ASSUME NEW npc \in PCs, ClearInterrupt(npc) PROVE LeavesMode
    BY <1>2, <2>3, IrqsDistinct DEF ClearInterrupt, csrVars
  <2>4. ASSUME NEW npc \in PCs, ReadCount(npc) PROVE LeavesMode
    BY <1>1, <2>4 DEF ReadCount, modeVars, csrVars
  <2>5. ASSUME NEW npc \in PCs, NEW v \in StatusVals, WriteStatus(v, npc)
        PROVE  RewritesMode
    BY <2>5 DEF WriteStatus, RewritesMode
  <2>6. ASSUME NEW npc \in PCs, NEW v \in PCs, WriteEpc(v, npc) \/ WriteEvec(v, npc)
        PROVE  LeavesMode
    BY <1>1, <2>6 DEF WriteEpc, WriteEvec, modeVars
  <2>7. ASSUME NEW npc \in PCs, NEW v \in Words, WriteCount(v, npc) PROVE LeavesMode
    BY <1>1, <2>7 DEF WriteCount, modeVars, csrVars
  <2>8. ASSUME NEW npc \in PCs, NEW v \in Words, WriteCompare(v, npc) PROVE LeavesMode
    BY <1>2, <2>8, IrqsDistinct DEF WriteCompare
  <2>9. ASSUME NEW npc \in PCs, NEW on \in BOOLEAN, WriteIpi(on, npc) PROVE LeavesMode
    BY <1>2, <2>9, IrqsDistinct DEF WriteIpi, csrVars
  <2>10. ASSUME NEW npc \in PCs, NEW v \in Mail, SetTohost(v, npc) PROVE LeavesMode
    BY <1>1, <2>10 DEF SetTohost, modeVars
  <2>11. ASSUME NEW npc \in PCs, NEW v \in Mail, SetFromhost(v, npc) PROVE LeavesMode
    <3>1. (v # 0) \in BOOLEAN
      OBVIOUS
    <3>2. QED BY <1>2, <2>11, <3>1, IrqsDistinct DEF SetFromhost
  <2>12. CASE Exception
    BY <1>0, <2>12 DEF Exception, Traps, SameMode
  <2>13. CASE Sret
    BY <2>13 DEF Sret, RewritesMode
  <2>14. CASE CsrMailbox
    BY <1>1, <2>14 DEF CsrMailbox, modeVars, csrVars
  <2>15. ASSUME NEW op, SerializeThrow(op) PROVE LeavesMode
    BY <1>0, <1>3, <2>15 DEF SerializeThrow, csrVars
  <2>16. QED BY <1>4, <2>1, <2>2, <2>3, <2>4, <2>5, <2>6, <2>7, <2>8, <2>9, <2>10,
         <2>11, <2>12, <2>13, <2>14, <2>15 DEF InsnNext
<1>5. CASE StepNext
  <2>1. CASE StepInterrupt
    BY <1>0, <2>1, LowestIsCause DEF StepInterrupt, Traps, SameMode
  <2>2. CASE StepExit
    BY <1>0, <1>3, <2>2 DEF StepExit, csrVars
  <2>3. ASSUME NEW k \in 1 .. MaxSlice, StepEnter(k) PROVE LeavesMode
    BY <1>1, <2>3 DEF StepEnter, modeVars, csrVars
  <2>4. QED BY <1>5, <2>1, <2>2, <2>3 DEF StepNext
<1>6. CASE OutsideNext
  <2>1. CASE HostTohost
    BY <1>1, <2>1 DEF HostTohost, modeVars
  <2>2. ASSUME NEW v \in Mail, HostFromhost(v) PROVE LeavesMode
    <3>1. (v # 0) \in BOOLEAN
      OBVIOUS
    <3>2. QED BY <1>2, <2>2, <3>1, IrqsDistinct DEF HostFromhost
  <2>3. CASE Reset
    BY <2>3 DEF Reset, RewritesMode, TypeOK
  <2>4. CASE DeliverIpi
    BY <1>2, <2>4, IrqsDistinct DEF DeliverIpi, csrVars
  <2>5. ASSUME NEW value \in DebugModes, SetDebug(value) PROVE LeavesMode
    BY <1>1, <2>5 DEF SetDebug, modeVars, csrVars
  <2>6. QED BY <1>6, <2>1, <2>2, <2>3, <2>4, <2>5 DEF OutsideNext
<1>7. QED BY <1>4, <1>5, <1>6 DEF Next

(* What a trap leaves: it enters at evec, supervisor, interrupts off, and  *)
(* keeps what sret needs.                                                  *)
LEMMA TrapEntry ==
  ASSUME NEW s \in Status, NEW c, NEW at, NEW k \in Nat, SameMode(s),
         TakeTrap(s, c, at, k)
  PROVE  /\ pc' = evec /\ sr'.S = TRUE /\ sr'.EI = FALSE
         /\ sr'.PS = sr.S /\ sr'.PEI = sr.EI
         /\ frame' = [S |-> sr.S, EI |-> sr.EI, pc |-> at] /\ epc' = at
<1>1. TrapStatus(s) \in Status
  BY TrapStatusFacts
<1>2. /\ TrapStatus(s).S = TRUE /\ TrapStatus(s).EI = FALSE
      /\ TrapStatus(s).PS = s.S /\ TrapStatus(s).PEI = s.EI
  BY DEF TrapStatus, Status
<1>3. sr' = UpdateTimer(TrapStatus(s), k) /\ pc' = evec
  BY DEF TakeTrap, EndStep
<1>4. sr'.S = TRUE /\ sr'.EI = FALSE /\ sr'.PS = s.S /\ sr'.PEI = s.EI
  <2> HIDE DEF TrapStatus
  <2> QED BY <1>1, <1>2, <1>3, TimerKeepsMode
<1>5. QED BY <1>3, <1>4 DEF TakeTrap, SameMode

(* While a handler has touched neither status nor epc, they hold what the  *)
(* trap left there.                                                        *)
FrameInv ==
  frame # NoFrame => sr.PS = frame.S /\ sr.PEI = frame.EI /\ epc = frame.pc

(* It holds in every reachable state.                                      *)
LEMMA FrameInvariant == Spec => []FrameInv
<1>1. Init => FrameInv
  BY DEF Init, FrameInv
<1>2. TypeOK /\ FrameInv /\ [Next]_vars => FrameInv'
  <2> SUFFICES ASSUME TypeOK, FrameInv, [Next]_vars PROVE FrameInv'
    OBVIOUS
  <2>1. CASE LeavesMode
    BY <2>1 DEF LeavesMode, SameMode, FrameInv
  <2>2. CASE RewritesMode
    BY <2>2 DEF RewritesMode, FrameInv
  <2>3. CASE Traps
    <3>1. PICK s \in Status, c \in Causes, at \in PCs, k \in Nat :
            SameMode(s) /\ TakeTrap(s, c, at, k)
      BY <2>3 DEF Traps
    <3>2. /\ sr'.PS = sr.S /\ sr'.PEI = sr.EI /\ epc' = at
          /\ frame' = [S |-> sr.S, EI |-> sr.EI, pc |-> at]
      BY <3>1, TrapEntry
    <3>3. QED BY <3>2 DEF FrameInv
  <2>4. CASE UNCHANGED vars
    BY <2>4 DEF vars, modeVars, csrVars, FrameInv
  <2>5. QED BY <2>1, <2>2, <2>3, <2>4, HowModeChanges
<1>3. QED BY <1>1, <1>2, ProcessorTypes, PTL DEF Spec

(* sret returns to what the trap interrupted, for any program, any nesting *)
(* of traps and any interrupts, packets and resets in between.             *)
THEOREM SretCorrect == Spec => SretRestores
<1>1. TypeOK /\ FrameInv /\ [Next]_vars =>
        [(Sret /\ frame # NoFrame)
           => /\ sr'.S = frame.S /\ sr'.EI = frame.EI
              /\ lpc' = frame.pc]_vars
  <2> SUFFICES ASSUME TypeOK, FrameInv, Sret, frame # NoFrame
               PROVE  sr'.S = frame.S /\ sr'.EI = frame.EI /\ lpc' = frame.pc
    OBVIOUS
  <2>1. sr \in Status /\ sr' = StatusAfter(SretStatus) /\ lpc' = epc
    BY DEF TypeOK, Sret, SetStatus, Retire, Advance
  <2>2. sr'.S = sr.PS /\ sr'.EI = sr.PEI
    BY <2>1 DEF StatusAfter, SretStatus, Status
  <2>3. QED BY <2>1, <2>2 DEF FrameInv
<1>2. QED BY <1>1, ProcessorTypes, FrameInvariant, PTL DEF Spec, SretRestores

(* No sequence of instructions, packets and interrupts makes user code     *)
(* supervisor except through the trap entry or a reset.                    *)
THEOREM PrivilegeCorrect == Spec => SupervisorOnlyByTrap
<1>1. TypeOK /\ [Next]_vars =>
        [(Booted /\ ~sr.S /\ sr'.S)
           => \/ pc' = evec /\ ~sr'.EI /\ ~sr'.PS /\ sr'.PEI = sr.EI
              \/ run' # run]_vars
  <2> SUFFICES ASSUME TypeOK, Next, ~sr.S, sr'.S
               PROVE  \/ pc' = evec /\ ~sr'.EI /\ ~sr'.PS /\ sr'.PEI = sr.EI
                      \/ run' # run
    BY DEF vars, modeVars
  <2>1. CASE LeavesMode
    BY <2>1 DEF LeavesMode, SameMode
  <2>2. CASE RewritesMode
    BY <2>2 DEF RewritesMode
  <2>3. CASE Traps
    BY <2>3, TrapEntry DEF Traps
  <2>4. QED BY <2>1, <2>2, <2>3, HowModeChanges
<1>2. QED BY <1>1, ProcessorTypes, PTL DEF Spec, SupervisorOnlyByTrap

-----------------------------------------------------------------------------
(* The counter and the timer                                               *)

(* Division: a quotient and a remainder.                                   *)
LEMMA Division ==
  ASSUME NEW a \in Int, NEW m \in Nat \ {0}
  PROVE  a = m * (a \div m) + (a % m) /\ a \div m \in Int /\ a % m \in 0 .. m - 1
  OBVIOUS

(* Two quotients and remainders of the same number are equal.              *)
LEMMA QuotientUnique ==
  ASSUME NEW m \in Nat \ {0}, NEW p \in Int, NEW q \in Int,
         NEW r \in 0 .. m - 1, NEW s \in 0 .. m - 1, m * p + r = m * q + s
  PROVE  p = q /\ r = s
<1>1. CASE p < q
  <2>1. q - p \in Nat /\ q - p >= 1 /\ m * (q - p) = r - s
    BY <1>1
  <2>2. m * (q - p) >= m
    BY <2>1
  <2>3. QED BY <2>1, <2>2
<1>2. CASE q < p
  <2>1. p - q \in Nat /\ p - q >= 1 /\ m * (p - q) = s - r
    BY <1>2
  <2>2. m * (p - q) >= m
    BY <2>1
  <2>3. QED BY <2>1, <2>2
<1>3. QED BY <1>1, <1>2

(* c + j is x, modulo 2^32, exactly if c is j below it, as long as no wrap *)
(* is between them.                                                        *)
LEMMA SameWindow ==
  ASSUME NEW c \in Nat, NEW j \in Nat, NEW x \in 0 .. CountMod - 1, j <= x
  PROVE  (c + j) % CountMod = x <=> c % CountMod = x - j
<1>0. c \in Int /\ c + j \in Int
  OBVIOUS
<1>3. CountMod \in Nat \ {0}
  OBVIOUS
<1>1. /\ c = CountMod * (c \div CountMod) + (c % CountMod)
      /\ c \div CountMod \in Int /\ c % CountMod \in 0 .. CountMod - 1
      /\ c + j = CountMod * ((c + j) \div CountMod) + ((c + j) % CountMod)
      /\ (c + j) \div CountMod \in Int /\ (c + j) % CountMod \in 0 .. CountMod - 1
  BY <1>0, <1>3, Division, Zenon
<1>2. ASSUME NEW p \in Int, NEW r \in 0 .. CountMod - 1,
             NEW q \in Int, NEW s \in 0 .. CountMod - 1,
             c = CountMod * p + r, c + j = CountMod * q + s
      PROVE  s = x <=> r = x - j
  <2>1. x - j \in 0 .. CountMod - 1
    OBVIOUS
  <2>2. ASSUME s = x PROVE r = x - j
    <3>1. CountMod * p + r = CountMod * q + (x - j)
      BY <1>2, <2>2
    <3>2. QED BY <1>3, <2>1, <3>1, QuotientUnique
  <2>3. ASSUME r = x - j PROVE s = x
    <3>1. CountMod * p + x = CountMod * q + s
      BY <1>2, <2>3
    <3>2. QED BY <1>3, <3>1, QuotientUnique
  <2>4. QED BY <2>2, <2>3
<1>4. QED BY <1>1, <1>2

(* A step that began at c has passed cmp, in the window of c, after k      *)
(* instructions.                                                           *)
Crossed(c, cmp, k) == c % CountMod < cmp /\ cmp <= (c % CountMod) + k

(* The instruction at which it does so is the one that makes the counter   *)
(* equal to cmp: update_timer's test, made once at the end of the step,    *)
(* finds what a test after each instruction would.                         *)
LEMMA CrossedStep ==
  ASSUME NEW c \in Nat, NEW cmp \in Words, NEW k \in Nat
  PROVE  Crossed(c, cmp, k + 1)
           <=> (Crossed(c, cmp, k) \/ ((c + (k + 1)) % CountMod = cmp /\ k + 1 <= cmp))
<1>1. CountMod \in Nat \ {0} /\ cmp \in 0 .. CountMod - 1 /\ k + 1 \in Nat
  BY DEF Words
<1>2. ASSUME k + 1 <= cmp
      PROVE  (c + (k + 1)) % CountMod = cmp <=> c % CountMod = cmp - (k + 1)
  <2> DEFINE j == k + 1
  <2>1. j \in Nat /\ j <= cmp
    BY <1>1, <1>2
  <2> HIDE DEF j
  <2>2. (c + j) % CountMod = cmp <=> c % CountMod = cmp - j
    BY <1>1, <2>1, SameWindow
  <2>3. QED BY <2>2 DEF j
<1>3. c % CountMod \in Nat
  OBVIOUS
<1>4. ASSUME NEW low \in Nat
      PROVE  (low < cmp /\ cmp <= low + (k + 1))
               <=> ((low < cmp /\ cmp <= low + k) \/ (low = cmp - (k + 1) /\ k + 1 <= cmp))
  BY <1>1
<1>5. (c % CountMod < cmp /\ cmp <= (c % CountMod) + (k + 1))
        <=> (\/ c % CountMod < cmp /\ cmp <= (c % CountMod) + k
             \/ c % CountMod = cmp - (k + 1) /\ k + 1 <= cmp)
  BY <1>3, <1>4
<1>6. QED BY <1>2, <1>5, Zenon DEF Crossed

(* A step that has retired nothing has passed nothing.                     *)
LEMMA NotCrossedYet ==
  ASSUME NEW c \in Nat, NEW cmp \in Words PROVE ~Crossed(c, cmp, 0)
  BY DEF Crossed, Words

(* The counter a machine without bursts would have is count and what the   *)
(* step has still to add to it; the timer interrupt is due if it is        *)
(* pending, or will be when the step ends; an instruction executed again   *)
(* is the first of its step.                                               *)
TimerPending == IRQ_TIMER \in sr.IP
StepInv ==
  /\ debug = FALSE
  /\ loc = "idle" => instret = 0
  /\ again # "none" => instret = 0 /\ loc \in {"idle", "exec"}
CountInv == late = FALSE => arch = count + instret
TimerInv ==
  late = FALSE => (due <=> (TimerPending \/ Crossed(count, compare, instret)))
BurstInv == StepInv /\ CountInv /\ TimerInv

(* update_timer raises the interrupt exactly when the step has passed      *)
(* compare.                                                                *)
LEMMA UpdateTimerFacts ==
  ASSUME NEW s \in Status, NEW k \in Nat
  PROVE  IRQ_TIMER \in UpdateTimer(s, k).IP
           <=> (IRQ_TIMER \in s.IP \/ Crossed(count, compare, k))
<1>1. TimerCrossed(k) <=> Crossed(count, compare, k)
  BY DEF TimerCrossed, Low, Crossed
<1>2. CASE TimerCrossed(k)
  <2>1. IRQ_TIMER \in UpdateTimer(s, k).IP
    BY <1>2, IrqsDistinct, SetInterruptFacts DEF UpdateTimer
  <2>2. QED BY <1>1, <1>2, <2>1
<1>3. CASE ~TimerCrossed(k)
  BY <1>1, <1>3 DEF UpdateTimer
<1>4. QED BY <1>2, <1>3

(* The end of a step, by whatever way out, settles the account.            *)
LEMMA EndKeepsBurst ==
  ASSUME TypeOK, BurstInv, NEW s \in Status, NEW newpc, EndStep(s, newpc, instret),
         IRQ_TIMER \in s.IP <=> IRQ_TIMER \in sr.IP,
         UNCHANGED <<debug, compare, arch, due, late>>
  PROVE  BurstInv'
<1>1. loc' = "idle" /\ instret' = 0 /\ count' = count + instret
      /\ sr' = UpdateTimer(s, instret)
  BY DEF EndStep
<1>2. instret \in Nat /\ count \in Nat /\ compare \in Words
  BY DEF TypeOK
<1>3. StepInv'
  BY <1>1 DEF BurstInv, StepInv
<1>4. CountInv'
  BY <1>1, <1>2 DEF BurstInv, CountInv
<1>5. TimerPending' <=> (TimerPending \/ Crossed(count, compare, instret))
  BY <1>1, <1>2, UpdateTimerFacts DEF TimerPending
<1>6. ~Crossed(count', compare', instret')
  <2>1. count' \in Nat /\ compare' \in Words
    BY <1>1, <1>2
  <2>2. QED BY <1>1, <2>1, NotCrossedYet
<1>7. late' = late /\ due' = due
  OBVIOUS
<1>8. TimerInv'
  <2> SUFFICES ASSUME late = FALSE
               PROVE  due' <=> (TimerPending' \/ Crossed(count', compare', instret'))
    BY <1>7 DEF TimerInv
  <2>1. due <=> (TimerPending \/ Crossed(count, compare, instret))
    BY DEF BurstInv, TimerInv
  <2>2. QED BY <1>5, <1>6, <1>7, <2>1, Zenon
<1>9. QED BY <1>3, <1>4, <1>8 DEF BurstInv

(* A retired instruction that touches neither count nor compare nor the    *)
(* timer interrupt is one more for the step to add.                        *)
LEMMA RetireKeepsBurst ==
  ASSUME TypeOK, BurstInv, NEW npc, Retire(npc), loc' \in {"exec", "set", "tick"},
         TimerPending' <=> TimerPending, UNCHANGED <<count, compare, late>>
  PROVE  BurstInv'
<1>1. /\ instret' = instret + 1 /\ again' = "none" /\ debug' = debug /\ arch' = arch + 1
      /\ due' = (due \/ Reaches(arch + 1, compare))
  BY DEF Retire, Advance
<1>2. instret \in Nat /\ count \in Nat /\ compare \in Words
  BY DEF TypeOK
<1>3. StepInv'
  BY <1>1 DEF BurstInv, StepInv
<1>4. CountInv'
  BY <1>1, <1>2 DEF BurstInv, CountInv
<1>5. TimerInv'
  <2> SUFFICES ASSUME late = FALSE
               PROVE  due' <=> (TimerPending' \/ Crossed(count', compare', instret'))
    BY DEF TimerInv
  <2>1. arch + 1 = count + (instret + 1)
    BY <1>2 DEF BurstInv, CountInv
  <2>2. Reaches(arch + 1, compare)
          <=> ((count + (instret + 1)) % CountMod = compare /\ instret + 1 <= compare)
    BY <2>1 DEF Reaches
  <2>3. Crossed(count, compare, instret + 1)
          <=> (Crossed(count, compare, instret) \/ Reaches(arch + 1, compare))
    BY <1>2, <2>2, CrossedStep, Zenon
  <2>4. due <=> (TimerPending \/ Crossed(count, compare, instret))
    BY DEF BurstInv, TimerInv
  <2>5. Crossed(count', compare', instret') <=> Crossed(count, compare, instret + 1)
    BY <1>1
  <2>6. QED BY <1>1, <2>3, <2>4, <2>5, Zenon
<1>6. QED BY <1>3, <1>4, <1>5 DEF BurstInv

(* What does not touch the account at all.                                 *)
LEMMA QuietKeepsBurst ==
  ASSUME TypeOK, BurstInv, StepInv', TimerPending' <=> TimerPending,
         UNCHANGED <<count, compare, arch, due, late, instret>>
  PROVE  BurstInv'
<1>1. CountInv'
  BY DEF BurstInv, CountInv
<1>2. TimerInv'
  <2> SUFFICES ASSUME late = FALSE
               PROVE  due' <=> (TimerPending' \/ Crossed(count', compare', instret'))
    BY DEF TimerInv
  <2>1. due <=> (TimerPending \/ Crossed(count, compare, instret))
    BY DEF BurstInv, TimerInv
  <2>2. Crossed(count', compare', instret') <=> Crossed(count, compare, instret)
    OBVIOUS
  <2>3. due' = due
    OBVIOUS
  <2>4. QED BY <2>1, <2>2, <2>3, Zenon
<1>3. QED BY <1>1, <1>2 DEF BurstInv

(* An instruction that assigns count or compare as the first of its step   *)
(* leaves an account that starts with it.                                  *)
LEMMA AssignKeepsBurst ==
  ASSUME TypeOK, BurstInv, NEW c \in Nat, NEW cmp \in Words, NEW npc,
         Advance(npc), loc' = "exec", count' = c, compare' = cmp,
         late' = FALSE => late = FALSE /\ instret = 0,
         instret = 0 /\ late = FALSE => arch' = c + 1,
         instret = 0 /\ late = FALSE => (due' <=> (TimerPending' \/ Reaches(arch', cmp)))
  PROVE  BurstInv'
<1>1. instret' = instret + 1 /\ again' = "none" /\ debug' = debug
  BY DEF Advance
<1>2. instret \in Nat /\ late \in BOOLEAN
  BY DEF TypeOK
<1>3. StepInv'
  BY <1>1 DEF BurstInv, StepInv
<1>5. CountInv'
  BY <1>1, <1>2 DEF CountInv
<1>6. TimerInv'
  <2> SUFFICES ASSUME late' = FALSE
               PROVE  due' <=> (TimerPending' \/ Crossed(count', compare', instret'))
    BY DEF TimerInv
  <2>1. instret = 0 /\ late = FALSE /\ arch' = c + (0 + 1) /\ 0 + 1 = 1 /\ 0 \in Nat
    OBVIOUS
  <2>2. Reaches(arch', cmp) <=> ((c + (0 + 1)) % CountMod = cmp /\ 0 + 1 <= cmp)
    BY <2>1 DEF Reaches
  <2>3. Crossed(c, cmp, 0 + 1) <=> (Crossed(c, cmp, 0) \/ Reaches(arch', cmp))
    BY <2>1, <2>2, CrossedStep, Zenon
  <2>4. ~Crossed(c, cmp, 0)
    BY NotCrossedYet
  <2>5. Crossed(count', compare', instret') <=> Crossed(c, cmp, 0 + 1)
    BY <1>1, <2>1
  <2>6. due' <=> (TimerPending' \/ Reaches(arch', cmp))
    BY <2>1
  <2>7. QED BY <2>3, <2>4, <2>5, <2>6, Zenon
<1>7. QED BY <1>3, <1>5, <1>6 DEF BurstInv

(* Every instruction keeps the account.                                    *)
LEMMA InsnKeepsBurst ==
  ASSUME DebugModes \subseteq {FALSE}, TypeOK, BurstInv, InsnNext
  PROVE  BurstInv'
<1>0. /\ sr \in Status /\ count \in Nat /\ compare \in Words /\ instret \in Nat
      /\ arch \in Nat /\ Charged = instret
  BY DEF TypeOK, BurstInv, StepInv, Charged
<1>1. ASSUME NEW npc, Retire(npc), loc' \in {"exec", "set", "tick"},
             UNCHANGED sr, UNCHANGED <<count, compare, late>>
      PROVE  BurstInv'
  BY <1>1, RetireKeepsBurst DEF TimerPending
<1>2. ASSUME NEW npc, Retire(npc), loc' \in {"exec", "set", "tick"},
             NEW irq \in Irqs \ {IRQ_TIMER}, NEW on \in BOOLEAN,
             sr' = SetInterrupt(sr, irq, on), UNCHANGED <<count, compare, late>>
      PROVE  BurstInv'
  <2>1. TimerPending' <=> TimerPending
    BY <1>0, <1>2, SetInterruptFacts, IrqsDistinct DEF TimerPending
  <2>2. QED BY <1>2, <2>1, RetireKeepsBurst
<1>3. ASSUME NEW s \in Status, IRQ_TIMER \in s.IP <=> IRQ_TIMER \in sr.IP,
             NEW c, NEW at, TakeTrap(s, c, at, Charged)
      PROVE  BurstInv'
  <2>1. TrapStatus(s) \in Status /\ TrapStatus(s).IP = s.IP
    BY TrapStatusFacts
  <2>2. EndStep(TrapStatus(s), evec, instret)
        /\ UNCHANGED <<debug, compare, arch, due, late>>
    BY <1>0, <1>3 DEF TakeTrap
  <2>3. QED BY <1>3, <2>1, <2>2, EndKeepsBurst
<1>4. ASSUME NEW npc, Retire(npc), loc' = "exec", NEW v \in Status, SetStatus(v),
             UNCHANGED <<count, compare, late>>
      PROVE  BurstInv'
  <2>1. sr'.IP = sr.IP
    BY <1>0, <1>4, StatusFacts DEF SetStatus
  <2>2. QED BY <1>4, <2>1, RetireKeepsBurst DEF TimerPending
<1>5. IRQ_COP # IRQ_TIMER /\ IRQ_IPI # IRQ_TIMER /\ IRQ_HOST # IRQ_TIMER
  BY DEF IRQ_COP, IRQ_IPI, IRQ_HOST, IRQ_TIMER
<1>6. ASSUME NEW npc \in PCs, PlainInsn(npc) PROVE BurstInv'
  BY <1>1, <1>6 DEF PlainInsn, Exec, modeVars, csrVars
<1>7. ASSUME NEW npc \in PCs, RaiseInterrupt(npc) PROVE BurstInv'
  <2> DEFINE s == SetInterrupt(sr, IRQ_COP, TRUE)
  <2>1. s \in Status /\ (IRQ_TIMER \in s.IP <=> IRQ_TIMER \in sr.IP)
    BY <1>0, <1>5, IrqsDistinct, SetInterruptFacts
  <2>2. CASE Pending(s) # {}
    <3>1. TakeTrap(s, Lowest(Pending(s)), lpc, Charged)
      BY <1>7, <2>2 DEF RaiseInterrupt
    <3> HIDE DEF s
    <3>2. QED BY <1>3, <2>1, <3>1
  <2>3. CASE Pending(s) = {}
    BY <1>2, <1>5, <1>7, <2>3, IrqsDistinct DEF RaiseInterrupt, Exec, csrVars
  <2>4. QED BY <2>2, <2>3
<1>8. ASSUME NEW npc \in PCs, ClearInterrupt(npc) PROVE BurstInv'
  BY <1>2, <1>5, <1>8, IrqsDistinct DEF ClearInterrupt, Exec, csrVars
<1>9. ASSUME NEW npc \in PCs, ReadCount(npc) PROVE BurstInv'
  BY <1>1, <1>9 DEF ReadCount, Serialized, Exec, modeVars, csrVars
<1>10. ASSUME NEW npc \in PCs, NEW v \in StatusVals, WriteStatus(v, npc)
       PROVE  BurstInv'
  BY <1>4, <1>10 DEF WriteStatus, Exec, csrVars
<1>11. ASSUME NEW npc \in PCs, NEW v \in PCs, WriteEpc(v, npc) \/ WriteEvec(v, npc)
       PROVE  BurstInv'
  BY <1>1, <1>11 DEF WriteEpc, WriteEvec, Exec, modeVars
<1>12. ASSUME NEW npc \in PCs, NEW v \in Words, WriteCount(v, npc) PROVE BurstInv'
  <2>1. /\ Advance(npc) /\ loc' = "exec" /\ count' = v /\ compare' = compare
        /\ arch' = v + 1 /\ sr' = sr /\ v \in Nat
    BY <1>12 DEF WriteCount, Serialized, Exec, modeVars, csrVars, Words
  <2>2. late' = (late \/ instret > 0) /\ due' = (due \/ Reaches(v + 1, compare))
    BY <1>12 DEF WriteCount
  <2>3. ASSUME late' = FALSE PROVE late = FALSE /\ instret = 0
    <3>1. ~(late \/ instret > 0)
      BY <2>2, <2>3, Zenon
    <3>2. late \in BOOLEAN /\ ~late
      BY <3>1 DEF TypeOK
    <3>3. instret = 0
      BY <1>0, <3>1
    <3>4. QED BY <3>2, <3>3, Zenon
  <2>4. ASSUME instret = 0, late = FALSE
        PROVE  due' <=> (TimerPending' \/ Reaches(arch', compare))
    <3>1. due <=> TimerPending \/ Crossed(count, compare, 0)
      BY <2>4 DEF BurstInv, TimerInv
    <3>2. ~Crossed(count, compare, 0)
      BY <1>0, NotCrossedYet
    <3>3. TimerPending' <=> TimerPending
      BY <2>1 DEF TimerPending
    <3>4. Reaches(arch', compare) <=> Reaches(v + 1, compare)
      BY <2>1
    <3>5. QED BY <2>2, <3>1, <3>2, <3>3, <3>4, Zenon
  <2>5. instret = 0 /\ late = FALSE => arch' = v + 1
    BY <2>1
  <2>6. QED BY <1>0, <2>1, <2>3, <2>4, <2>5, AssignKeepsBurst
<1>13. ASSUME NEW npc \in PCs, NEW v \in Words, WriteCompare(v, npc) PROVE BurstInv'
  <2>1. /\ Advance(npc) /\ loc' = "exec" /\ count' = count /\ compare' = v
        /\ arch' = arch + 1 /\ sr' = SetInterrupt(sr, IRQ_TIMER, FALSE)
    BY <1>13 DEF WriteCompare, Serialized, Exec
  <2>2. late' = (late \/ instret > 0) /\ due' = Reaches(arch + 1, v)
    BY <1>13 DEF WriteCompare
  <2>3. ASSUME late' = FALSE PROVE late = FALSE /\ instret = 0
    <3>1. ~(late \/ instret > 0)
      BY <2>2, <2>3, Zenon
    <3>2. late \in BOOLEAN /\ ~late
      BY <3>1 DEF TypeOK
    <3>3. instret = 0
      BY <1>0, <3>1
    <3>4. QED BY <3>2, <3>3, Zenon
  <2>4. ASSUME instret = 0, late = FALSE
        PROVE  due' <=> (TimerPending' \/ Reaches(arch', v))
    <3>1. ~TimerPending'
      BY <1>0, <2>1, SetInterruptFacts, IrqsDistinct DEF TimerPending
    <3>2. Reaches(arch', v) <=> Reaches(arch + 1, v)
      BY <2>1
    <3>3. QED BY <2>2, <3>1, <3>2, Zenon
  <2>5. instret = 0 /\ late = FALSE => arch' = count + 1
    BY <1>0, <2>1 DEF BurstInv, CountInv
  <2>6. QED BY <1>0, <2>1, <2>3, <2>4, <2>5, AssignKeepsBurst
<1>14. ASSUME NEW npc \in PCs, NEW on \in BOOLEAN, WriteIpi(on, npc) PROVE BurstInv'
  BY <1>2, <1>5, <1>14, IrqsDistinct DEF WriteIpi, Exec, csrVars
<1>15. ASSUME NEW npc \in PCs, NEW v \in Mail, SetTohost(v, npc) PROVE BurstInv'
  BY <1>1, <1>15 DEF SetTohost, modeVars
<1>16. ASSUME NEW npc \in PCs, NEW v \in Mail, SetFromhost(v, npc) PROVE BurstInv'
  <2>1. (v # 0) \in BOOLEAN
    OBVIOUS
  <2>2. QED BY <1>2, <1>5, <1>16, <2>1, IrqsDistinct DEF SetFromhost
<1>17. CASE Exception
  BY <1>0, <1>3, <1>17 DEF Exception
<1>18. CASE Sret
  <2>1. SretStatus \in Status
    BY <1>0 DEF SretStatus, Status
  <2>2. QED BY <1>4, <1>18, <2>1 DEF Sret, Exec, csrVars
<1>19. CASE CsrMailbox
  <2>1. again = "none"
    BY <1>19 DEF CsrMailbox, Exec, TypeOK
  <2>2. StepInv'
    BY <1>19, <2>1 DEF CsrMailbox, BurstInv, StepInv, stepVars
  <2>3. QED BY <1>19, <2>2, QuietKeepsBurst DEF CsrMailbox, TimerPending, modeVars,
               csrVars, stepVars
<1>20. ASSUME NEW op, SerializeThrow(op) PROVE BurstInv'
  BY <1>0, <1>20, EndKeepsBurst DEF SerializeThrow, csrVars
<1>21. QED BY <1>6, <1>7, <1>8, <1>9, <1>10, <1>11, <1>12, <1>13, <1>14, <1>15, <1>16,
       <1>17, <1>18, <1>19, <1>20 DEF InsnNext

(* Entering and leaving a step keeps it.                                   *)
LEMMA StepKeepsBurst ==
  ASSUME TypeOK, BurstInv, StepNext PROVE BurstInv'
<1>0. /\ sr \in Status /\ count \in Nat /\ compare \in Words /\ instret \in Nat
      /\ Charged = instret
  BY DEF TypeOK, BurstInv, StepInv, Charged
<1>1. CASE StepInterrupt
  <2>1. instret = 0 /\ TakeTrap(sr, Lowest(Pending(sr)), pc, instret)
    BY <1>1 DEF StepInterrupt, BurstInv, StepInv
  <2>2. TrapStatus(sr) \in Status /\ TrapStatus(sr).IP = sr.IP
    BY <1>0, TrapStatusFacts
  <2>3. EndStep(TrapStatus(sr), evec, instret)
        /\ UNCHANGED <<debug, compare, arch, due, late>>
    BY <2>1 DEF TakeTrap
  <2>4. QED BY <2>2, <2>3, EndKeepsBurst
<1>2. CASE StepExit
  BY <1>0, <1>2, EndKeepsBurst DEF StepExit, csrVars
<1>3. ASSUME NEW k \in 1 .. MaxSlice, StepEnter(k) PROVE BurstInv'
  <2>1. instret = 0 /\ instret' = instret
    BY <1>3 DEF StepEnter, BurstInv, StepInv
  <2>2. StepInv'
    BY <1>3, <2>1 DEF StepEnter, BurstInv, StepInv
  <2>3. QED BY <1>3, <2>1, <2>2, QuietKeepsBurst DEF StepEnter, TimerPending, modeVars,
               csrVars
<1>4. QED BY <1>1, <1>2, <1>3 DEF StepNext

(* The host, other harts and the prompt keep it; a reset within a step that *)
(* has retired something is late.                                          *)
LEMMA OutsideKeepsBurst ==
  ASSUME DebugModes \subseteq {FALSE}, TypeOK, BurstInv, OutsideNext PROVE BurstInv'
<1>0. sr \in Status /\ instret \in Nat
  BY DEF TypeOK
<1>1. IRQ_IPI # IRQ_TIMER /\ IRQ_HOST # IRQ_TIMER
  BY DEF IRQ_IPI, IRQ_HOST, IRQ_TIMER
<1>2. ASSUME Served, UNCHANGED <<debug, instret, again>> PROVE StepInv'
  BY <1>2 DEF Served, BurstInv, StepInv
<1>3. CASE HostTohost
  BY <1>2, <1>3, QuietKeepsBurst DEF HostTohost, TimerPending, modeVars, stepVars
<1>4. ASSUME NEW v \in Mail, HostFromhost(v) PROVE BurstInv'
  <2>1. (v # 0) \in BOOLEAN
    OBVIOUS
  <2>2. TimerPending' <=> TimerPending
    BY <1>0, <1>1, <1>4, <2>1, IrqsDistinct, SetInterruptFacts DEF HostFromhost,
       TimerPending
  <2>3. QED BY <1>2, <1>4, <2>2, QuietKeepsBurst DEF HostFromhost, stepVars
<1>5. CASE Reset
  <2>1. /\ count' = 0 /\ arch' = 0 /\ compare' = 0 /\ due' = FALSE
        /\ again' = "none" /\ debug' = debug /\ instret' = instret
        /\ Served /\ sr' = ResetStatus
    BY <1>5 DEF Reset, stepVars
  <2>2. late' = (instret > 0)
    BY <1>5 DEF Reset
  <2>3. ASSUME late' = FALSE PROVE instret' = 0
    <3>1. ~(instret > 0)
      BY <2>2, <2>3, Zenon
    <3>2. QED BY <1>0, <2>1, <3>1
  <2>4. StepInv'
    BY <2>1 DEF Served, BurstInv, StepInv
  <2>5. CountInv'
    <3> SUFFICES ASSUME late' = FALSE PROVE arch' = count' + instret'
      BY DEF CountInv
    <3>1. instret' = 0 /\ count' = 0 /\ arch' = 0
      BY <2>1, <2>3
    <3>2. QED BY <3>1
  <2>6. ~TimerPending' /\ ~Crossed(count', compare', instret')
    BY <2>1, ResetStatusFacts DEF TimerPending, Crossed
  <2>7. TimerInv'
    <3> SUFFICES due' <=> (TimerPending' \/ Crossed(count', compare', instret'))
      BY DEF TimerInv
    <3>1. ~due'
      BY <2>1
    <3>2. QED BY <2>6, <3>1, Zenon
  <2>8. QED BY <2>4, <2>5, <2>7 DEF BurstInv
<1>6. CASE DeliverIpi
  <2>1. TimerPending' <=> TimerPending
    BY <1>0, <1>1, <1>6, IrqsDistinct, SetInterruptFacts DEF DeliverIpi, TimerPending
  <2>2. StepInv'
    BY <1>6 DEF DeliverIpi, BurstInv, StepInv, stepVars
  <2>3. QED BY <1>6, <2>1, <2>2, QuietKeepsBurst DEF DeliverIpi, csrVars, stepVars
<1>7. ASSUME NEW value \in DebugModes, SetDebug(value) PROVE BurstInv'
  <2>1. debug' = FALSE
    BY <1>7 DEF SetDebug
  <2>2. StepInv'
    BY <1>7, <2>1 DEF SetDebug, BurstInv, StepInv, stepVars
  <2>3. QED BY <1>7, <2>2, QuietKeepsBurst DEF SetDebug, TimerPending, modeVars,
               csrVars, stepVars
<1>8. QED BY <1>3, <1>4, <1>5, <1>6, <1>7 DEF OutsideNext

(* A hart as constructed has counted nothing.                              *)
LEMMA InitBurst == ASSUME DebugModes \subseteq {FALSE}, Init PROVE BurstInv
<1>1. /\ debug = FALSE /\ loc = "idle" /\ instret = 0 /\ again = "none"
      /\ arch = 0 /\ count = 0 /\ compare = 0 /\ due = FALSE
  BY DEF Init
<1>2. ~TimerPending
  <2>1. sr.IP = {} \/ sr.IP = {IRQ_HOST}
    BY DEF Init, ResetStatus
  <2>2. QED BY <2>1 DEF TimerPending, IRQ_HOST, IRQ_TIMER
<1>3. ~Crossed(count, compare, instret)
  BY <1>1 DEF Crossed
<1>4. StepInv /\ CountInv
  BY <1>1 DEF StepInv, CountInv
<1>5. TimerInv
  <2> SUFFICES due <=> (TimerPending \/ Crossed(count, compare, instret))
    BY DEF TimerInv
  <2>1. ~due
    BY <1>1
  <2>2. QED BY <1>2, <1>3, <2>1, Zenon
<1>6. QED BY <1>4, <1>5 DEF BurstInv

(* The account is kept wherever steps end, as long as the debug loop,      *)
(* which charges one instruction too many, is not used.                    *)
LEMMA BurstInvariant == ASSUME DebugModes \subseteq {FALSE} PROVE Spec => []BurstInv
<1>1. Init => BurstInv
  BY InitBurst
<1>2. TypeOK /\ BurstInv /\ [Next]_vars => BurstInv'
  <2> SUFFICES ASSUME TypeOK, BurstInv, [Next]_vars PROVE BurstInv'
    OBVIOUS
  <2>1. CASE Next
    BY <2>1, InsnKeepsBurst, StepKeepsBurst, OutsideKeepsBurst DEF Next
  <2>2. CASE UNCHANGED vars
    <3>1. StepInv'
      BY <2>2 DEF vars, BurstInv, StepInv, stepVars
    <3>2. QED BY <2>2, <3>1, QuietKeepsBurst DEF vars, TimerPending, modeVars, csrVars,
                 stepVars
  <2>3. QED BY <2>1, <2>2
<1>3. QED BY <1>1, <1>2, ProcessorTypes, PTL DEF Spec

(* No step loses or invents a cycle, whatever ends it: its budget, a trap, *)
(* an interrupt or serialize(), for every budget, program and icache.      *)
THEOREM CountCorrect == ASSUME DebugModes \subseteq {FALSE} PROVE Spec => []CountExact
<1>1. TypeOK /\ BurstInv => CountExact
  BY DEF TypeOK, BurstInv, StepInv, CountInv, CountExact
<1>2. QED BY <1>1, ProcessorTypes, BurstInvariant, PTL

(* The timer interrupt is pending between steps exactly if it is due, for  *)
(* every width of the counter and every budget.                            *)
THEOREM TimerCorrect == ASSUME DebugModes \subseteq {FALSE} PROVE Spec => []TimerExact
<1>1. TypeOK /\ BurstInv => TimerExact
  <2> SUFFICES ASSUME TypeOK, BurstInv, loc = "idle", ~late
               PROVE  IRQ_TIMER \in sr.IP <=> due
    BY DEF TimerExact
  <2>1. late = FALSE /\ instret = 0 /\ count \in Nat /\ compare \in Words
    BY DEF TypeOK, BurstInv, StepInv
  <2>2. ~Crossed(count, compare, instret)
    BY <2>1, NotCrossedYet
  <2>3. due <=> (TimerPending \/ Crossed(count, compare, instret))
    BY <2>1 DEF BurstInv, TimerInv
  <2>4. QED BY <2>2, <2>3, Zenon DEF TimerPending
<1>2. QED BY <1>1, ProcessorTypes, BurstInvariant, PTL

(* A restarted access to count is exact: only the flag that an interrupt   *)
(* or a reset leaves behind breaks serialize()'s promise.                  *)
THEOREM ReadCorrect == ASSUME DebugModes \subseteq {FALSE} PROVE Spec => FreshReadExact
<1>1. TypeOK /\ BurstInv /\ [Next]_vars =>
        [\A npc \in PCs :
           (ReadCount(npc) \/ \E v \in Words : WriteCount(v, npc)) /\ ~StaleFlag /\ ~late
             => count = arch]_vars
  <2> SUFFICES ASSUME TypeOK, BurstInv, NEW npc \in PCs,
                      ReadCount(npc) \/ \E v \in Words : WriteCount(v, npc),
                      ~StaleFlag, ~late
               PROVE  count = arch
    OBVIOUS
  <2>1. serialized
    BY DEF ReadCount, WriteCount, Serialized
  <2>2. instret = 0 /\ late = FALSE
    BY <2>1 DEF StaleFlag, BurstInv, StepInv, TypeOK
  <2>3. QED BY <2>2 DEF TypeOK, BurstInv, CountInv
<1>2. QED BY <1>1, ProcessorTypes, BurstInvariant, PTL DEF Spec, FreshReadExact

=============================================================================
