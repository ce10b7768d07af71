----------------------------- MODULE Processor -----------------------------
(***************************************************************************)
(* One hart: processor_t and state_t (riscv/processor.cc).  The status     *)
(* register with traps and interrupts, the burst that processor_t::step    *)
(* runs, the cycle counter with its timer, serialize(), the mailboxes and  *)
(* reset.                                                                  *)
(*                                                                         *)
(* processor_t::step keeps the pc and the instructions retired in locals   *)
(* (lpc, instret) and writes pc and count back when it ends; an            *)
(* instruction that needs the exact count ends the step by throwing        *)
(* serialize_t, and is executed again as the first of the next one.        *)
(* Which instruction is executed is chosen, but the one executed again is  *)
(* the same one.                                                           *)
(***************************************************************************)
EXTENDS Integers, FiniteSets

CONSTANTS
  PCs,          \* instruction addresses
  Boot,         \* 0x2000
  CountMod,     \* 2^32: compare and the low word of count are uint32_t
  MaxSlice,     \* the largest n processor_t::step is called with
  CHAIN,        \* ICACHE_ENTRIES - 1: how far a step may overrun its budget
  MaxCount,     \* bound: no step starts when count could pass it
  MaxResets,    \* bound: how often the host changes the reset line
  StatusVals,   \* values software writes to the status register
  DebugModes    \* values set_debug is called with

IRQ_COP == 2
IRQ_IPI == 5
IRQ_HOST == 6
IRQ_TIMER == 7
Irqs == {IRQ_COP, IRQ_IPI, IRQ_HOST, IRQ_TIMER}

(* The status register.  EF, EA and VM do not matter here: they gate the   *)
(* FPU, the extension and translation.                                     *)
Status == [S : BOOLEAN, PS : BOOLEAN, EI : BOOLEAN, PEI : BOOLEAN,
           S64 : BOOLEAN, U64 : BOOLEAN, IM : SUBSET Irqs, IP : SUBSET Irqs]

ASSUME BootAssumption == Boot \in PCs
ASSUME CountModAssumption == CountMod \in Nat \ {0}
ASSUME MaxSliceAssumption == MaxSlice \in Nat
ASSUME ChainAssumption == CHAIN \in Nat
ASSUME MaxCountAssumption == MaxCount \in Nat
ASSUME MaxResetsAssumption == MaxResets \in Nat
ASSUME StatusValsAssumption == StatusVals \subseteq Status
ASSUME DebugModesAssumption == DebugModes \subseteq BOOLEAN

Words == 0 .. CountMod - 1
Mail == {0, 1}
Exc == 0                     \* any synchronous cause
Causes == {Exc} \cup Irqs

VARIABLES
  loc,         \* idle: outside step; exec: in its loop; tick, set: in a CSR access
  run, debug, sr, rv64, pc, epc, evec, cause, count, compare, tohost, fromhost,
  serialized,
  lpc, n, instret,    \* locals of step: pc, the budget, instructions retired
  again,       \* the instruction that ended the last step by serialize()
  resets,      \* how often the reset line has changed
  arch,        \* history: the count a machine without bursts would have
  due,         \* history: count has reached compare since compare was set
  lag,         \* history: how far the last count read was behind arch
  late,        \* history: since reset, count or compare was assigned in the
               \* middle of a step, which adds to count what it had retired
  frame        \* history: what the trap handler must return to, if untouched

csrVars == <<epc, evec, cause, compare, tohost, fromhost>>
modeVars == <<sr, rv64>>
stepVars == <<lpc, n, instret>>
vars == <<loc, run, debug, modeVars, pc, csrVars, count, serialized, stepVars,
          again, resets, arch, due, lag, late, frame>>

NoFrame == [none |-> TRUE]
Frames == [S : BOOLEAN, EI : BOOLEAN, pc : PCs]

TypeOK ==
  /\ loc \in {"idle", "exec", "tick", "set"}
  /\ run \in BOOLEAN /\ debug \in BOOLEAN /\ serialized \in BOOLEAN
  /\ sr \in Status /\ rv64 \in BOOLEAN
  /\ pc \in PCs /\ lpc \in PCs /\ epc \in PCs /\ evec \in PCs
  /\ cause \in Causes
  /\ count \in Nat /\ compare \in Words
  /\ tohost \in Mail /\ fromhost \in Mail
  /\ n \in Nat /\ instret \in Nat
  /\ again \in {"none", "readcount", "writecount", "compare"}
  /\ resets \in 0 .. MaxResets
  /\ arch \in Nat /\ due \in BOOLEAN /\ lag \in Nat /\ late \in BOOLEAN
  /\ frame \in Frames \cup {NoFrame}

(* state_t::reset: supervisor, 64-bit, traps disabled.                     *)
ResetStatus == [S |-> TRUE, PS |-> FALSE, EI |-> FALSE, PEI |-> FALSE,
                S64 |-> TRUE, U64 |-> TRUE, IM |-> {}, IP |-> {}]

(* As constructed: processor_t::reset(true) returns at once because run is *)
(* already false, so sr and rv64 hold whatever the allocation held.        *)
Init ==
  /\ loc = "idle" /\ run = FALSE /\ debug \in DebugModes
  /\ sr \in {ResetStatus, [ResetStatus EXCEPT !.IP = {IRQ_HOST}]}
  /\ rv64 \in BOOLEAN
  /\ pc = Boot /\ epc = Boot /\ evec = Boot /\ cause = Exc
  /\ count = 0 /\ compare = 0 /\ tohost = 0 /\ fromhost = 0
  /\ serialized = FALSE
  /\ lpc = Boot /\ n = 0 /\ instret = 0 /\ again = "none" /\ resets = 0
  /\ arch = 0 /\ due = FALSE /\ lag = 0 /\ late = FALSE /\ frame = NoFrame

-----------------------------------------------------------------------------
(* The status register                                                     *)

(* set_interrupt on a status value *)
SetInterrupt(s, irq, on) ==
  [s EXCEPT !.IP = IF on THEN @ \cup {irq} ELSE @ \ {irq}]

(* set_pcr(CSR_STATUS, v): the pending bits are not writable; rv64 follows *)
(* the mode.                                                               *)
StatusAfterAny(v) == v
StatusAfter(v) == [v EXCEPT !.IP = sr.IP]
Rv64Of(s) == IF s.S THEN s.S64 ELSE s.U64
SetStatusStale(v) == sr' = StatusAfter(v) /\ UNCHANGED rv64
SetStatus(v) == sr' = StatusAfter(v) /\ rv64' = Rv64Of(v)

(* take_trap's status value, and sret's *)
TrapStatusEnabled(s) == [s EXCEPT !.S = TRUE, !.PS = s.S, !.PEI = s.EI]
TrapStatus(s) == [s EXCEPT !.S = TRUE, !.PS = s.S, !.EI = FALSE, !.PEI = s.EI]
SretStatusNoEI == [sr EXCEPT !.S = sr.PS]
SretStatus == [sr EXCEPT !.S = sr.PS, !.EI = sr.PEI]

(* take_interrupt: the pending and unmasked interrupts, lowest first.      *)
Pending(s) == IF s.EI THEN s.IP \cap s.IM ELSE {}
Lowest(irqs) == CHOOSE i \in irqs : \A j \in irqs : i <= j

-----------------------------------------------------------------------------
(* The timer                                                               *)

Low == count % CountMod

(* next_timer(state) | 1U: uint32_t arithmetic *)
NextTimerSigned == compare - Low
NextTimer == (compare - Low) % CountMod
OrOne(x) == IF x % 2 = 0 THEN x + 1 ELSE x
Budget(k) == IF k < OrOne(NextTimer) THEN k ELSE OrOne(NextTimer)

(* update_timer: with count0 the low word, the sign of count0 - compare    *)
(* changes when k instructions are added.                                  *)
TimerCrossedLate(k) == Low < compare /\ compare < Low + k
TimerCrossed(k) == Low < compare /\ compare <= Low + k
UpdateTimer(s, k) == IF TimerCrossed(k) THEN SetInterrupt(s, IRQ_TIMER, TRUE) ELSE s

(* The debug loop increments instret before each instruction and once more *)
(* when it ends; the icache loop after each instruction.                   *)
ChargedExtra == instret + 1
Charged == IF debug THEN instret + 1 ELSE instret

(* The end of processor_t::step.  s is the status it leaves, k the number  *)
(* of instructions it adds to count.                                       *)
EndStep(s, newpc, k) ==
  /\ loc' = "idle"
  /\ pc' = newpc
  /\ count' = count + k
  /\ sr' = UpdateTimer(s, k)
  /\ rv64' = Rv64Of(s)
  /\ n' = 0 /\ instret' = 0
  /\ UNCHANGED lpc

(* take_trap, called by step's catch clause, and the end of the step.      *)
TakeTrap(s, c, at, k) ==
  /\ EndStep(TrapStatus(s), evec, k)
  /\ cause' = c
  /\ epc' = at
  /\ frame' = [S |-> s.S, EI |-> s.EI, pc |-> at]
  /\ again' = "none"
  /\ UNCHANGED <<run, debug, evec, compare, tohost, fromhost, serialized, resets,
                 arch, due, lag, late>>

-----------------------------------------------------------------------------
(* processor_t::step                                                       *)

StepEnter(k) ==
  /\ loc = "idle" /\ run
  /\ count + k + 1 + CHAIN <= MaxCount
  /\ Pending(sr) = {}
  /\ loc' = "exec"
  /\ n' = Budget(k) /\ instret' = 0 /\ lpc' = pc
  /\ UNCHANGED <<run, debug, modeVars, pc, csrVars, count, serialized, again,
                 resets, arch, due, lag, late, frame>>

StepInterrupt ==
  /\ loc = "idle" /\ run
  /\ Pending(sr) # {}
  /\ TakeTrap(sr, Lowest(Pending(sr)), pc, 0)

StepExit ==
  /\ loc = "exec" /\ instret >= n
  /\ EndStep(sr, lpc, Charged)
  /\ UNCHANGED <<run, debug, csrVars, serialized, again, resets, arch, due, lag,
                 late, frame>>

(* The icache loop looks at the budget only when it looks up an entry: it  *)
(* runs on through the entries that follow, to the end of the icache, as   *)
(* long as each holds the next pc.  The debug loop looks every time.       *)
Chained == ~debug /\ instret > 0 /\ instret < n + CHAIN

(* Instruction op is next in the loop.  After a serialize() the first one  *)
(* is the one that threw.                                                  *)
Exec(op) ==
  loc = "exec" /\ (instret < n \/ Chained) /\ again \in {"none", op}

(* The counter, now c, has reached cmp in a step that began below cmp in   *)
(* the same 2^32 window.                                                   *)
Reaches(c, cmp) == c % CountMod = cmp /\ instret + 1 <= cmp

(* The instruction completes, and npc is next.                             *)
Advance(npc) ==
  /\ instret' = instret + 1
  /\ lpc' = npc
  /\ again' = "none"
  /\ UNCHANGED <<run, debug, pc, n, resets>>
Retire(npc) ==
  /\ Advance(npc)
  /\ arch' = arch + 1
  /\ due' = (due \/ Reaches(arch + 1, compare))

-----------------------------------------------------------------------------
(* Instructions                                                            *)

(* Anything that leaves the control registers alone: npc is its successor. *)
PlainInsn(npc) ==
  /\ Exec("plain") /\ Retire(npc)
  /\ UNCHANGED <<loc, modeVars, csrVars, count, serialized, lag, late, frame>>

(* A fetch or an instruction that throws trap_t: illegal, privileged, a    *)
(* memory fault, scall.                                                    *)
Exception ==
  /\ Exec("plain")
  /\ TakeTrap(sr, Exc, lpc, Charged)

(* csrrw status, csrrs, csrrc: supervisor only (validate_csr).             *)
WriteStatus(v, npc) ==
  /\ Exec("plain") /\ Retire(npc)
  /\ sr.S
  /\ SetStatus(v)
  /\ frame' = NoFrame
  /\ UNCHANGED <<loc, csrVars, count, serialized, lag, late>>

Sret ==
  /\ Exec("plain") /\ Retire(epc)
  /\ sr.S
  /\ SetStatus(SretStatus)
  /\ frame' = NoFrame
  /\ UNCHANGED <<loc, csrVars, count, serialized, lag, late>>

WriteEpc(v, npc) ==
  /\ Exec("plain") /\ Retire(npc)
  /\ sr.S
  /\ epc' = v
  /\ frame' = NoFrame
  /\ UNCHANGED <<loc, modeVars, evec, cause, compare, tohost, fromhost, count,
                 serialized, lag, late>>

WriteEvec(v, npc) ==
  /\ Exec("plain") /\ Retire(npc)
  /\ sr.S
  /\ evec' = v
  /\ UNCHANGED <<loc, modeVars, epc, cause, compare, tohost, fromhost, count,
                 serialized, lag, late, frame>>

(* serialize(), first call: the flag is set and serialize_t thrown.        *)
SerializeThrow(op) ==
  /\ Exec(op)
  /\ op \in {"writecount", "compare"} => sr.S
  /\ ~serialized
  /\ serialized' = TRUE
  /\ again' = op
  /\ EndStep(sr, lpc, Charged)
  /\ UNCHANGED <<run, debug, csrVars, resets, arch, due, lag, late, frame>>

(* serialize(), second call: the flag is cleared and the access goes on.   *)
SerializedNever(op) == Exec(op) /\ serialized' = FALSE
Serialized(op) == Exec(op) /\ serialized /\ serialized' = FALSE

(* rdcycle, rdtime, rdinstret *)
ReadCount(npc) ==
  /\ Serialized("readcount") /\ Retire(npc)
  /\ lag' = IF arch > count THEN arch - count ELSE count - arch
  /\ UNCHANGED <<loc, modeVars, csrVars, count, late, frame>>

(* csrrw count: get_pcr serializes, set_pcr assigns.                       *)
WriteCount(v, npc) ==
  /\ Serialized("writecount") /\ Advance(npc)
  /\ sr.S
  /\ count' = v
  /\ lag' = IF arch > count THEN arch - count ELSE count - arch
  /\ arch' = v + 1
  /\ due' = (due \/ Reaches(v + 1, compare))
  /\ late' = (late \/ instret > 0)
  /\ UNCHANGED <<loc, modeVars, csrVars, frame>>

(* csrr* compare, a plain read included: set_pcr serializes, clears the    *)
(* timer interrupt and assigns.                                            *)
WriteCompare(v, npc) ==
  /\ Serialized("compare") /\ Advance(npc)
  /\ sr.S
  /\ compare' = v
  /\ sr' = SetInterrupt(sr, IRQ_TIMER, FALSE)
  /\ arch' = arch + 1
  /\ due' = Reaches(arch + 1, v)
  /\ late' = (late \/ instret > 0)
  /\ UNCHANGED <<loc, rv64, epc, evec, cause, tohost, fromhost, count, lag, frame>>

(* csrw clear_ipi, and csrw send_ipi with the hart's own number.           *)
WriteIpi(on, npc) ==
  /\ Exec("plain") /\ Retire(npc)
  /\ sr.S
  /\ sr' = SetInterrupt(sr, IRQ_IPI, on)
  /\ UNCHANGED <<loc, rv64, csrVars, count, serialized, lag, late, frame>>

(* extension_t::raise_interrupt: taken at once if enabled.                 *)
RaiseInterrupt(npc) ==
  LET s == SetInterrupt(sr, IRQ_COP, TRUE) IN
  /\ Exec("plain")
  /\ IF Pending(s) # {}
       THEN TakeTrap(s, Lowest(Pending(s)), lpc, Charged)
       ELSE /\ Retire(npc)
            /\ sr' = s
            /\ UNCHANGED <<loc, rv64, csrVars, count, serialized, lag, late, frame>>

(* extension_t::clear_interrupt *)
ClearInterrupt(npc) ==
  /\ Exec("plain") /\ Retire(npc)
  /\ sr' = SetInterrupt(sr, IRQ_COP, FALSE)
  /\ UNCHANGED <<loc, rv64, csrVars, count, serialized, lag, late, frame>>

-----------------------------------------------------------------------------
(* The mailboxes and the host.  A packet is served between steps, or from  *)
(* within an instruction that reads tohost or fromhost.                    *)

(* get_pcr(CSR_TOHOST) or get_pcr(CSR_FROMHOST): htif->tick(), which may   *)
(* have nothing for this hart.                                             *)
CsrMailbox ==
  /\ Exec("plain") /\ sr.S
  /\ loc' \in {"tick", "set"}
  /\ UNCHANGED <<run, debug, modeVars, pc, csrVars, count, serialized, stepVars,
                 again, resets, arch, due, lag, late, frame>>

SetTohost(v, npc) ==
  /\ loc = "set" /\ Retire(npc)
  /\ loc' = "exec"
  /\ tohost' = IF tohost = 0 THEN v ELSE tohost
  /\ UNCHANGED <<modeVars, epc, evec, cause, compare, fromhost, count, serialized,
                 lag, late, frame>>

(* set_fromhost keeps the host interrupt equal to "fromhost is not 0".     *)
SetFromhost(v, npc) ==
  /\ loc = "set" /\ Retire(npc)
  /\ loc' = "exec"
  /\ sr' = SetInterrupt(sr, IRQ_HOST, v # 0)
  /\ fromhost' = v
  /\ UNCHANGED <<rv64, epc, evec, cause, compare, tohost, count, serialized, lag,
                 late, frame>>

(* The host is served: between steps, or from within CsrMailbox.           *)
Served == loc \in {"idle", "tick"} /\ loc' = (IF loc = "idle" THEN "idle" ELSE "set")

HostTohost ==
  /\ Served
  /\ tohost' = 0
  /\ UNCHANGED <<run, debug, modeVars, pc, epc, evec, cause, compare, fromhost,
                 count, serialized, stepVars, again, resets, arch, due, lag, late,
                 frame>>

HostFromhost(v) ==
  /\ Served
  /\ fromhost = 0
  /\ sr' = SetInterrupt(sr, IRQ_HOST, v # 0)
  /\ fromhost' = v
  /\ UNCHANGED <<run, debug, rv64, pc, epc, evec, cause, compare, tohost, count,
                 serialized, stepVars, again, resets, arch, due, lag, late, frame>>

(* processor_t::reset when it changes run: state_t::reset, then            *)
(* set_pcr(CSR_STATUS).  serialized and the locals of a running step       *)
(* survive.                                                                *)
Reset ==
  /\ Served
  /\ resets < MaxResets /\ resets' = resets + 1
  /\ run' = ~run
  /\ sr' = ResetStatus /\ rv64' = Rv64Of(ResetStatus)
  /\ pc' = Boot /\ epc' = Boot /\ evec' = Boot /\ cause' = Exc
  /\ count' = 0 /\ compare' = 0 /\ tohost' = 0 /\ fromhost' = 0
  /\ again' = "none"
  /\ arch' = 0 /\ due' = FALSE /\ lag' = 0 /\ frame' = NoFrame
  /\ late' = (instret > 0)
  /\ UNCHANGED <<debug, serialized, stepVars>>

(* deliver_ipi, called while another hart runs *)
DeliverIpi ==
  /\ loc = "idle" /\ run
  /\ sr' = SetInterrupt(sr, IRQ_IPI, TRUE)
  /\ UNCHANGED <<loc, run, debug, rv64, pc, csrVars, count, serialized, stepVars,
                 again, resets, arch, due, lag, late, frame>>

(* set_debug, from the prompt *)
SetDebug(value) ==
  /\ loc = "idle"
  /\ debug' = value
  /\ UNCHANGED <<loc, run, modeVars, pc, csrVars, count, serialized, stepVars,
                 again, resets, arch, due, lag, late, frame>>

-----------------------------------------------------------------------------
InsnNext ==
  \/ \E npc \in PCs :
       \/ PlainInsn(npc) \/ RaiseInterrupt(npc) \/ ClearInterrupt(npc)
       \/ ReadCount(npc)
       \/ \E v \in StatusVals : WriteStatus(v, npc)
       \/ \E v \in PCs : WriteEpc(v, npc) \/ WriteEvec(v, npc)
       \/ \E v \in Words : WriteCount(v, npc) \/ WriteCompare(v, npc)
       \/ \E on \in BOOLEAN : WriteIpi(on, npc)
       \/ \E v \in Mail : SetTohost(v, npc) \/ SetFromhost(v, npc)
  \/ Exception \/ Sret \/ CsrMailbox
  \/ \E op \in {"readcount", "writecount", "compare"} : SerializeThrow(op)

StepNext == StepInterrupt \/ StepExit \/ \E k \in 1 .. MaxSlice : StepEnter(k)

OutsideNext ==
  \/ HostTohost \/ Reset \/ DeliverIpi
  \/ \E v \in Mail : HostFromhost(v)
  \/ \E value \in DebugModes : SetDebug(value)

Next == StepNext \/ InsnNext \/ OutsideNext

Spec == Init /\ [][Next]_vars

-----------------------------------------------------------------------------
(* Properties                                                              *)

(* The hart has been through a reset, so state_t is initialised.           *)
Booted == run \/ loc # "idle"

(* The host interrupt is pending exactly while fromhost holds a value:     *)
(* set_fromhost maintains it, and neither status writes, traps, sret nor   *)
(* a reset from within an instruction may break it.                        *)
HostIrqMatchesMailbox == Booted => (IRQ_HOST \in sr.IP <=> fromhost # 0)

(* rv64, which decode_insn reads, is the width of the current mode: every  *)
(* path that changes S, S64 or U64 goes through set_pcr(CSR_STATUS).       *)
Rv64Fresh == Booted => rv64 = Rv64Of(sr)

(* A handler that changes neither status nor epc, and is not interrupted   *)
(* by another trap, returns to the mode, the interrupt enable and the pc   *)
(* of the trap, whichever of interrupt or exception it was.                *)
SretRestores ==
  [][(Sret /\ frame # NoFrame)
       => /\ sr'.S = frame.S /\ sr'.EI = frame.EI
          /\ lpc' = frame.pc]_vars

(* User code becomes supervisor only through a trap, which enters at evec  *)
(* with interrupts off and keeps the old mode in PS, or through a reset.   *)
SupervisorOnlyByTrap ==
  [][(Booted /\ ~sr.S /\ sr'.S)
       => \/ pc' = evec /\ ~sr'.EI /\ ~sr'.PS /\ sr'.PEI = sr.EI
          \/ run' # run]_vars

(* Between steps the counter is the number of instructions executed, plus  *)
(* what software wrote to it: no step loses or invents a cycle             *)
(* (processor.h, "run for n cycles").  An assignment to count in the       *)
(* middle of a step, which a stale flag or a reset makes possible, is      *)
(* what the step's end cannot know of (see late).                          *)
CountExact == (loc = "idle" /\ ~late) => count = arch

(* A count read returns the exact count: serialize() has made the step     *)
(* write back what it retired before the read (processor.h, "collapse into *)
(* defined architectural state").                                          *)
CountReadExact == run => lag = 0

(* The flag serialized outlives the instruction it was set for: an         *)
(* interrupt or a reset came before that was executed again.               *)
StaleFlag == serialized /\ again = "none"

(* The stale flag is all that makes an access to count wrong: every read,  *)
(* and every write, of an instruction executed again comes first in its    *)
(* step, after all that was retired before it was added to count.          *)
FreshReadExact ==
  [][\A npc \in PCs :
       (ReadCount(npc) \/ \E v \in Words : WriteCount(v, npc)) /\ ~StaleFlag /\ ~late
         => count = arch]_vars

(* Between steps the timer interrupt is pending exactly if count has       *)
(* reached compare since compare was last written, in a step that began    *)
(* below compare in the same window of the 32-bit counter.  (A step that   *)
(* passes through 2^32 first misses it: update_timer compares with the low *)
(* word at the start of the step.)                                         *)
TimerExact == (loc = "idle" /\ ~late) => (IRQ_TIMER \in sr.IP <=> due)
=============================================================================
