# TLA+ models of the Spike RISC-V simulator

This directory specifies the parts of Spike (this repository: the RISC-V ISA
simulator with tagged memory) in which a mistake would be hard to see in a
test: the scheduler that interleaves harts, the protocol with the host, the
hart's traps, interrupts and counters, the caches of its memory port, the
vector unit that processes share, what the instructions compute down to the
floating point library, and the instruments that watch a program run (cache
model, write watch, value tracker).
`PROJECT.json` maps every definition to the lines it translates.

## 1. The system

| Part | State it keeps | Operations | Talks to |
|---|---|---|---|
| Scheduler, `sim_t` (riscv/sim.cc) | `current_proc`, `current_step`, `debug`, `ctrlc_pressed`, the harts, memory and tag memory | `run`, `step`, `stop`, `running`, `send_ipi`, `monitor`, `handle_signal` | calls `processor_t::step` and `htif->tick`; called by the prompt |
| Host interface, `htif_isasim_t` (riscv/htif.cc) | `reset`, `seqno` | `tick`, `tick_once`, `done` | packets from the front-end server (a second thread, outside the repository); reads and writes harts |
| Hart, `processor_t` (riscv/processor.cc) | registers, status, `pc`, `count`, `compare`, mailboxes, `load_reservation`, `serialized`, `rv64` | `step`, `take_interrupt`, `take_trap`, `set_pcr`, `get_pcr`, `serialize`, `reset`, `deliver_ipi` | its `mmu_t`; `htif->tick` from a CSR read; its extension |
| Memory port, `mmu_t` (riscv/mmu.h, mmu.cc) | TLB (three tag arrays, one data array), decoded-instruction cache | load, store, `access_icache`, `walk`, `flush_tlb`, `flush_icache`, `register_memtracer` | memory; tracers; the write watch; the value tracker |
| Cache model (riscv/cachesim.cc) | tags with valid and dirty bits, counters | `access`, `check_tag`, `victimize`, `reset` | called by the memory port as tracer, calls its miss handlers |
| Write watch (riscv/watchloc.cc) | a ring of program counters | `access`, `update_addr`, `get_nth_recent_access` | called by every store; read by the prompt |
| Value tracker (riscv/tracker.cc) | reference-counted history nodes per register and memory word | `track`, `track_load`, `track_store`, `cleanup` | called from `execute_insn` and by the memory port |
| Tracers, tag statistics, libspike page | list of tracers, counts per tag, a page of statistics | `trace`, `hook`, `update_stats` | memory port |
| Prompt (riscv/interactive.cc) | none of its own | one command per line, run/until/while loops | scheduler, harts, watch, tracker |
| Instructions and decoding (riscv/insns, decode.h, `build_opcode_map`) | none | execute, decode | hart, memory port |
| Tag policy (riscv/tagpolicy.h) | none | `TAG_ADD`, `TAG_ARITH`, `TAG_LOGIC`, the check of a return | every instruction that writes a register or memory |
| SoftFloat (softfloat/) | `softfloat_roundingMode`, `softfloat_exceptionFlags`, shared by all harts | `f32_*`, `f64_*`, conversions | floating point instructions |
| Hwacha vector unit (hwacha/) | vector configuration, micro-threads, pending cause | vector instructions, blocks of micro-thread instructions, `vxcptsave`, `vxcptrestore`, `vxcptkill` | hart (interrupt), memory port |
| RoCC interface (riscv/rocc.cc, dummy_rocc/) | an accumulator | four custom instructions | hart, memory port |
| Disassembler, command line | - | - | - |

What is hard here:

* **Two threads.** Simulator and front-end server exchange one packet at a
  time. The simulator lets the host in at slice boundaries, and also from
  inside an instruction that reads `tohost` or `fromhost`; the packet may
  change this register, interrupt the hart or reset it.
* **Slices and bursts.** A slice is `INTERLEAVE` steps, but a step is charged
  whether or not it executed, may stop early for the timer, a trap or
  `serialize()`, and may overrun through the icache. Atomicity of lr/sc rests
  on the end of the slice alone.
* **Caches of derived state.** `rv64`, the TLB and the icache repeat what the
  status register, the page tables and memory say; each has its own rules for
  being brought up to date.
* **Numbers that wrap.** `seqno` is 8 bits wide, `compare` 32, `count` 64.
  `mulhi.h` multiplies 64-bit words in halves of 32.
* **Rounding.** The library computes every result with integer words, estimates
  quotients and roots and corrects them only where it could matter, and must
  round once, with the right flags.
* **Blocks that fault.** A vector instruction that faults in one micro-thread
  has been executed by others; it is executed again, possibly after the unit
  has served other processes.
* **Signals.** ^C sets a flag that is read once per round.

`PROJECT.json` lists these as hazards, each at its line.

## 2. The modules

| Module | Models | Runs |
|---|---|---|
| `Sim` | `sim_t`, `htif_isasim_t`, what harts share, the front-end server | `MCSim*.cfg` |
| `Mailboxes` | the abstract specification: two mailboxes per hart and a host | `MCSim.cfg` |
| `Processor` | one `processor_t` | `MCProcessor*.cfg` |
| `Mmu` | one `mmu_t` | `MCMmu.cfg` |
| `CacheSim` | a hierarchy of `cache_sim_t` and `fa_cache_sim_t` | `MCCacheSim*.cfg` |
| `WatchLoc` | `watch_loc` and the commands watch and when | `WatchLoc.cfg` |
| `Tracker` | `tracker_t` | `MCTracker.cfg` |
| `SoftFloat` | the floating point library, as operators over formats of any size | `MCInsns.cfg` |
| `FpInsns` | the floating point instructions, on `SoftFloat` | `MCInsns.cfg` |
| `HalfInsns` | half precision in the vector unit, on `FpInsns` | `MCInsns.cfg` |
| `Words` | words, sign extension, comparison, long multiplication, division | `MCInsns.cfg` |
| `Alu` | the integer instructions and atomic operations, with their tags, on `Words` | `MCInsns.cfg` |
| `IEEE754` | the reference: exact arithmetic, rounded once (models no code) | `MCInsns.cfg` |
| `Call` | one call of an instruction: its kind, mode and operands | `MCInsns.cfg` |
| `FpOrder`, `FpProducts`, `IntInsns` | what comparisons, products and quotients, and integer instructions must return | `MCInsns.cfg` |
| `Hwacha` | the vector unit, processes and a kernel that share it | `MCHwacha.cfg` |
| `VectorThreads` | the abstract specification: a unit per process | `MCHwacha.cfg` |
| `SimProofs`, `ProcessorProofs`, `MmuProofs`, `CacheSimProofs`, `WatchLocProofs`, `TrackerProofs`, `HwachaProofs` | theorems about the modules they are named after | proofs |
| `ArithmeticProofs` | theorems about `Words`, `IntInsns`, `FpOrder`, `FpProducts` and the rounding of `SoftFloat` | proofs |

A `MC...` module gives the constants their values. A definition whose comment
says "mutated", or that stands directly above the definition it varies, is a
plausible mistake in that code: substituted for the real definition it makes
the property it belongs to fail. Mutated forms are used nowhere else.

### Sim

`loc` is the simulator thread's place in the code: `tick` (in `htif->tick()`,
called from `ret`), `body` (the loop of `sim_t::run`), `loop` (the loop of
`sim_t::step`), `exec` (in `processor_t::step` with `burst` instructions to
go), `tohost`/`fromhost` (in a CSR instruction, after its tick), `prompt`,
`exited`. `StepEnter`, `StepInterrupt`, `StepCharge` and `StepReturn` are
`sim_t::step`; `TickOnce` is the whole of `tick_once`, the sequence-number
assertion being a guard that `SeqnoPaired` shows never to block. The
instructions are the ones that touch state another hart or the host can see:
lr, sc, stores, traps, IPIs, the mailbox CSRs; all others are `OtherInsn`.

The front-end server is external. It is modelled as `htif.cc` presumes it:
load memory, assert and release reset on every hart, then poll `tohost` and
answer in `fromhost`, and on an exit code reset every hart and leave.

`Mailboxes` is what a program may rely on: a request is in `tohost` or owed an
answer, an answer is owed or in `fromhost`, and nothing overwrites either.
It knows no packets, sequence numbers, slices or ticks. `Owed` and `Ended` in
`Sim` map the machine to it: a call counts as taken when the acknowledgement
that carries it has been made, before the host has read it, and `MailServed` is
its specification.

`written` is a history variable: the words other harts wrote since a hart's
last lr. `Init` leaves hart fields arbitrary, because the constructor's
`reset(true)` returns early and `state_t` is then not initialised.

### Processor

`processor_t::step` is `StepEnter` (or `StepInterrupt`), one action per
instruction, and `StepExit`, a trap (`TakeTrap`) or `SerializeThrow`; each way
out goes through `EndStep`, which writes `pc` and `count` back and calls
`update_timer`. `lpc`, `n`, `instret` are the locals. History variables say
what a machine without bursts would show: `arch` its counter, `due` that its
timer fired, `frame` what the running trap handler must return to. `late` says
that `count` or `compare` was assigned in the middle of a step that had retired
instructions: the end of the step then adds them to the new value. Only a stale
`serialized` flag (`StaleFlag`) or a reset from within a CSR read makes that
possible, and the counter properties except exactly this.

### Mmu

A page stands for one word, and a page used as a page table holds entries.
`WalkFrom` is the loop of `mmu_t::walk`, with large pages and the or-ing of
low page-number bits; `WalkIn` adds the canonical-address test, the identity
map when VM is off and the range check. A TLB entry holds the difference of
physical and virtual page as `tlb_data` does. `mapped` and `coded` are history
variables: software has flushed (FATC, a status write, reset) since it last
changed tables or `ptbr`; it has fenced since code last changed.

### CacheSim

A cache is a function from slots (set and way) to lines; a line carries the
dirty bit as the tag word does. A miss counts, evicts, and then calls its
handlers in order, first with the write-back and then with the fill. These
calls are kept on `stack`, one action per call of `access` (`Hit`, `Miss`), so
any hierarchy fits. The victim, which the code draws from a shift register, is
any way of the set; a fully associative cache evicts only when it is full.
`IdxShift` and `Shift` are the loop of `init` and the shift it is used for.
`asked`, `fetched` and `stored` are history variables. `TrafficConserved`
counts the misses and write-backs of all callers of a cache as a set of
numbered events, so that it can be stated for any number of callers.
`LinesNest` says that the lines of a cache make up the lines of its handlers.

### WatchLoc

`Access` is `watch_loc::access`, called by every store before translation
(`Store`, `StoreFaults`) and by a write from the prompt. `StepEnter`,
`Advance` and `Abandon` keep of `processor_t::step` only that `state.pc` is
written at its end. `Watch` is `update_addr` with the clearing of `CLEARED` of
the `RING` entries; `GetNth` is what when prints. `log` is the history that the
ring abbreviates.

### Tracker

`node` is the heap. `Track`, `TrackLoad` and `TrackStore` make a node and begin
to replace the old one (`Replace`); the loop of `cleanup` runs one turn at a
time (`Cleanup`), and `Install` ends the replacement. Instructions are records
with the operands `lookup_args` would return; `Insns` is any set of them whose
stores have a memory operand, but for AMOs, which the disassembler's table
gives none. `Fault` is an access of which the
tracker is not told, `PromptLoad` one of the prompt's loads, which it takes for
the program's if `is_mem_insn` is still set. `StoreElsewhere` is a store of
which this tracker is not told: another hart's (each hart has a tracker of its
own, spike.cc), the host's, the prompt's or the vector unit's.

### SoftFloat, FpInsns, HalfInsns and IEEE754

The library has the same text twice, for 32 and for 64 bits, and differs in
constants. `SoftFloat` writes it once over a format (exponent and fraction
bits); with 8/23 and 11/52 the derived constants are those of the source.
Division, square root, remainder and fused multiply-add, whose algorithms
differ, are written twice. Words keep their width, so a carry that C loses is
lost here. The two globals are argument and result: an operator takes the
rounding mode and returns the pattern with the set of flags it raises.

`FpInsns` is what each instruction passes to the library: fadd is a fused
multiply-add by one, fmul one with a zero of the product's sign, fmin and fmax
are comparisons, fcvt conversions with sign extension. `HalfInsns` widens,
computes in single precision and narrows with `cvt_sh`. The primitives on 128
and 192 bits are exact integer arithmetic on words modulo 2^w; where the
library estimates a quotient or a root, the model does.

`IEEE754` is independent of them: exact magnitudes `m * 2^k` with a sticky
mark, rounded once, and the exact remainder, root and comparison.

### Words and Alu

`Words` has what instructions share: sign extension, the comparison that shifts
both operands to the top (`cmp_trunc`), the schoolbook product of `mulhi.h`,
C's division. `Alu` has one operator per instruction, from registers (a word of
`W` bits and a tag) to the register it writes. `W = 64` is the code; the 32-bit
mode and the `w` instructions work in the lower half. What `&`, `|`, `^` and
`~` do to tags and words is set algebra on the sets of their bits; `ofBits` is
the word with given bits, described rather than computed so that it can be
proved about. The tag of a result is the one the instruction's own macro computes,
also where it is not the one its neighbours use; `WRITE_RD` is the macro that
writes a value and keeps the tag of rd, which the instructions that bring a
number from another unit use.

### Call, FpOrder, FpProducts, IntInsns and MCInsns

A state is one call: `op` is its kind, `mode` the rounding mode, `rs1`, `rs2`
and `rs3` the operands (the third is xprlen for an integer instruction). `Call`
declares them. The modules that state what an instruction must return are kept
apart from `MCInsns`, which chooses the operands, so that `ArithmeticProofs`
can prove the same formulas for all operands.

### Hwacha and VectorThreads

`ct` and `ut` are `ct_state` and `ut_state`. A process configures the unit,
sets the length, moves scalars in, loads, and executes `Vf`; `loc` is then
`fetch` or `execute` inside the do-while of vf.h, with one step per micro-thread
(`UtExecute`, `UtException`). Any exception is `take_exception`: the cause, and
IRQ_COP, which stays pending until `Vxcptcause`; in `kernel` the unit is saved
(`Vxcptsave`), killed or restored, another process is scheduled, and `Sret`
goes back, where the interrupted `vf` is executed again. `image` is the memory
of `vxcptsave`, and `mem` a word that blocks load, store and add to, so that an
atomic operation done twice or left out shows. `xpr` is the scalar register that
the integer instructions of a block write: they are the files of riscv/insns,
whose `WRITE_RD_AND_TAG` (decode.h:134) is not among the macros that
decode_hwacha_ut.h redefines. `ut_stop`, `ut_utidx`, `fld`, `fadd_d`, `fsd`,
`addi` and `amoadd_d` are instructions of a block, one for each pair of places
they read and write. Processes and kernel are the environment, with the protocol
the unit needs: the cause is read first, another process gets the unit only
after a save or a kill, its scalar registers are saved as well, and a begun `vf`
is executed again.

`VectorThreads` knows no unit, no exception and no kernel: each process has
`vl` elements with private registers, and its block executes each instruction
once in each element, in order, on its registers, the word and the scalar
register of the process. `Private` in `Hwacha` maps the state of the
unit (or the image of a process that is switched out) to it; `Virtualised` is
its specification.

## 3. The runs

| Run | Instance | Shows |
|---|---|---|
| `sim_safety` | 2 harts, slices of 2 with 1 instruction of overrun, 1 word, sequence numbers mod 2, with and without `-d` and its single steps | lr/sc atomic among harts (`ReservationClean`), `SeqnoPaired`, `NeverWaitsForGoneHost`, the refinement of `Mailboxes` (`MailServed`) |
| `sim_liveness` | 2 harts, slices of 1, no memory words, mod 2, ^C and failed tag checks | `ExitTerminates`, `EveryHartScheduled`, `CtrlcReachesPrompt` |
| `processor_modes` | 2 pcs, all interrupts, 2 resets, both loops of step | `HostIrqMatchesMailbox`, `Rv64Fresh`, `SretRestores`, `SupervisorOnlyByTrap` |
| `processor_count` | `compare` of 2 bits, budget 2, overrun 1, counts to 6, 3 resets, timer interrupt on | `CountExact`, `FreshReadExact`, `TimerExact` |
| `processor_serialize` | budget 3, counts to 10, 1 reset | `CountReadExact` violated: see findings |
| `mmu_coherence` | 2 levels of 2 entries, 4 pages, 2 TLB slots, 1 icache entry, 5 kinds of entry | `TlbCoherent`, `IcacheCoherent`, `EveryFetchTraced` |
| `cache_tower` | I$ and D$ (two sets of two ways) over a fully associative L2 of two lines over a tag cache, lines of two sizes, 3 accesses between resets | `OneCopy`, `TrafficConserved`, `StoresAccounted`, `HoldsOnlyFetched` |
| `cache_block` | a D$ and two neighbouring blocks | violated: see findings |
| `watch_order` | ring of 4, of which reset clears 1, 6 writes, steps of one and two instructions | `WhenInOrder` |
| `tracker_counts` | 9 instructions, 5 nodes, 1 word, stores by others | `CountsExact`, `NoDangling`, `WordHistoryCurrent` |
| `instructions` | formats of 7 and 12 bits (arithmetic), 13 and 26 (conversions), halves of 6 in singles of 13; integer words of 8 bits; every mode | `ProductsCorrect`, `RemSqrtCorrect`, `MulAddCorrect`, `OrderCorrect`, `ConversionsCorrect`, `HalfCorrect`, `IntegerCorrect`, `TagsNotForged` |
| `hwacha` | 2 processes (symmetric), 4 micro-threads, 2 registers of each kind, a block of every kind of instruction, 6 vector instructions | `BlockConsistent`, `Virtualised` |

Bounds. Two harts show every pairwise interleaving and the wrap of
`current_proc`. Slices of two have a boundary inside, which the prompt cuts,
and one at the end; one instruction of overrun is enough to have one.
Sequence numbers mod 2 wrap several times in a run. With `compare` of two
bits the counter wraps below 6, and a step can start and end on each side of
it; the third reset is what finds a hart in reset with `serialized` still set
and lets it run. In `Mmu` two TLB slots and four virtual pages collide in
every slot, and one store of any entry or word (`MaxWrites = 1`) is enough for
a stale copy, which needs one fill and one change. In `sim_liveness`
the set of words is empty: lr, sc and stores change nothing the
liveness depends on; `sim_safety` fires those actions. Three accesses fill
both ways of a set of the D$ and the L2 and take a dirty line through all levels
to memory; resets come in between, and the L2 keeps its lines over them. A ring
of four wraps with six writes. Five nodes make chains and shared operands that
one cleanup frees in several turns; the store of sp stands for all that `track`
ignores for their register.
In `instructions` the second operand of the narrow format is any pattern and
the first any fraction at the exponents of zero, subnormal, middle and largest
numbers and of infinity, mostly positive; the wide format is tried where
cancellation, overflow, underflow and ties happen, and its word is long enough
for the estimates to be wrong and be corrected. Comparisons are made once, not
in every mode. Conversions need words that leave room for each other, as 64
bits do for 32; half precision needs a single with two digits more than twice
those of the half, which makes double rounding harmless. Integer words of 8
bits have halves of 4, the shortest in which all carries of the schoolbook
product occur; operands lie around zero, the two sign boundaries and the top,
in both modes. In `hwacha` the block can fault in its first and in its second
micro-thread, and both processes can be inside a block at once.
Deadlock is checked except in the `Processor` runs, which stop at `MaxCount`
and `MaxResets`.

Fairness. `FairSpec` has weak fairness on the simulator's thread as a whole
and on the host's as a whole: two threads of a process that the operating
system schedules and that block only on each other. There is no fairness on
single instructions (the program may do what it likes) and none on signals.
`ExitTerminates` needs no assumption on what harts execute after asking.

## 4. Findings

* `processor_serialize`: `serialize()` leaves `serialized` set when it throws;
  an interrupt taken at the start of the next step leaves it set in the
  handler, whose first counter read in the middle of a step is stale. A reset
  leaves the flag set too. `FreshReadExact` shows that only this, and a reset
  from within a step (`late`), make a read wrong.
* `cache_block`: tags stand for twice the configured line, so the neighbour of
  a fetched block hits.

Other places where the code does less than it seems to promise have no run of
their own; a property draws the line around them, or the constants keep them
out:

* in debug mode `while (instret++ < n)` adds one cycle too many per step
  (`DebugModes` in `processor_count`);
* a reset and a release that both arrive within one CSR read leave the old step
  to write its `pc` and `count` over the reset values (`late`);
* write-backs carry one address: a level below with shorter lines than the one
  above would be told of one of them only, and the rest of a dirty line is lost
  to its statistics. Nothing in the code forbids the geometry (`LinesNest`);
* cachereset does not empty a fully associative cache (`Cleared`;
  `HoldsOnlyFetched` is about the others);
* the write watch records the pc of the first instruction of the step
  (`WhenInOrder` is about stores that are that instruction), and its reset
  clears an eighth of the ring (`CLEARED`);
* the tracker ignores stores of sp, x0 and floating point registers, not only
  changes of sp, and AMOs and sc altogether (`WordHistoryCurrent` excepts
  them), and takes offset bits of a branch for a destination (`Beqz` in
  `MCTracker`);
* a word keeps its old history when another hart stores to it, because
  `track_store` tells the tracker of the storing hart only; likewise when the
  host or the prompt writes it, by an untagged store of the vector unit
  (vssegd.h, vxcptsave.h, ut_fsh.h), and by a store in a block, where the last
  instruction tracked is vf (`StoreElsewhere`; `WordHistoryCurrent` excepts
  them);
* a jump to the address -1 matches the tag of an empty icache entry
  (mmu.h:160) and executes what the entry last held (`FetchMinusOne`);
* amomaxu.w, amomin.d, amomin.w and amominu.d give the stored word
  `TAG_LOGIC(v.val, TAG_S2)`, the value in place of the tag (`TaggedByValue`;
  `TagsNotForged` is about the others). tagpolicy.h says "only call sets 'ret'
  tag"; under `NO_PARTIAL_COPY` an odd value sets it. jal, jalr and auipc write
  `TAG_PC`, settag any tag, and a copy by addi or a remainder by zero keeps it;
* the instructions that write with `WRITE_RD` (fmv_x_s, fmv_x_d, feq, flt, fle,
  fclass, the conversions to integers, rocc.cc and with it the vector
  instructions that return a value) replace the value of rd and keep its tag
  (decode.h:133): where rd held a return address, an arbitrary number ends up
  with the return tag, against the same sentence of tagpolicy.h.
  `TagsNotForged` says of them only that they leave the tag in rd where it was;
* fmin and fmax return a signalling NaN as it is; `cvt_sh` narrows infinities
  and NaNs with the wrong exponent, truncates in the mode near_maxMag and does
  not round subnormal halves correctly (`InHalfRange`); ut_fsgnjn_h uses the
  mask of the 32-bit sign;
* the correction loop of f64_sqrt needs an estimate closer than the 2 that
  primitives.h promises; the estimates the library makes are;
* flags of a floating point instruction that raises an exception after
  calling the library stay in the global and land in the next instruction's
  fflags, of whatever hart;
* vsetcfg and vsetvl leave the run flags and `UTIDX`: a process that abandons a
  faulted block would continue it with its next vf. vxcptrestore takes the length from
  memory as it is. An exception while IRQ_COP is masked ends the simulator;
* the integer instructions of a block, AMOs included, read registers of the
  micro-thread and write one of the hart's scalar registers, in each
  micro-thread anew and without a check of the destination (`xpr`). Only
  instructions that write with `WRITE_RD` or `WRITE_FRD` change a micro-thread.

## 5. The proofs

Each proof module states an inductive invariant, shows that `Init` implies it
and that every action preserves it (one lemma per action or group), and
concludes with PTL.

* **SimProofs.** `ResvInv` is `TypeOK`, `StepFits` (the current step fits in
  the slice: `current_step + steps <= INTERLEAVE` inside a step),
  `OnlyCurrentReserves` (only the current hart can hold a reservation, unless
  it is in reset) and `ReservationClean`. `ReservationClean` alone is not
  inductive: a store would dirty another hart's reservation if there could be
  one. `SeqInv` adds that at most one of `req` and `ack` is in flight and that
  `hseq` runs one behind `seqno` exactly while an acknowledgement is.
  `HostInv` is for `NeverWaitsForGoneHost`: what is asked follows from the
  host's phase, the machine's reset flag is off from the first release on, and
  the harts the host has stopped stay off; the property alone says nothing of
  how the host comes to leave. `MailCorrect == Spec => MailServed` is the
  refinement of `Mailboxes`. It rests on `MailInv`, which adds to `HostInv` that
  the harts that run are those the host has released and not yet stopped
  (`RunInv`) and that only a hart that runs, or one stopped while the program
  ends, is inside an instruction (`ExecInv`). Each packet maps to one step
  (taking, answering, turning a hart on or off) at the moment the machine
  acknowledges it, and everything else is a stutter.
  Assumptions: `NProcs`, `INTERLEAVE` positive, `SeqMod` at least 2, the
  value that means "no reservation" is not an address.
* **ProcessorProofs.** `ModeInv`: types, and for a hart that has booted, host
  interrupt and `rv64` agree with mailbox and status, also inside a CSR access
  where the host may come in.
  For `SretRestores`, `HowModeChanges` sorts all steps into three kinds (the
  mode stays, status is rewritten, a trap), and `FrameInv` says that `epc` and
  status hold what `frame` says while there is a frame; `SupervisorOnlyByTrap`
  follows from the same three kinds.
  For counter and timer, `BurstInv` says what holds in the middle of a step:
  `count + instret` is what a machine without bursts would show, the timer is
  due if it is pending or the step has passed `compare` in the window of its
  start, and an instruction that is executed again comes first in its step.
  `CountExact` and `TimerExact` speak of the ends of steps only and are not
  inductive. The heart of it is `CrossedStep`: one test at the end of a step finds
  what a test after each instruction would, for every width of the counter.
  Hypothesis: `DebugModes \subseteq {FALSE}`, because the loop of the debug
  mode charges one instruction too many and the three properties fail there.
* **MmuProofs.** `MmuInv` is `TypeOK`, the TLB part (tags agree; while
  `mapped`, every tag is allowed and leads where the walk leads) and the
  icache part, with `TracedUncached`: while a tracer looks on, no entry is
  valid. The proof treats the walk as an opaque function of tables, VM and
  root; that its result is in memory follows from the range check `InRange`,
  so no induction over levels is needed.
* **CacheSimProofs.** `CacheInv` is `TypeOK`, `InOwnSet` (a line is in the set
  its tag selects) and `NoTwin` (two ways of a set never hold one tag);
  `OneCopy` follows, for any number of caches, geometry and handlers.
  `InOwnSet` is needed because `check_tag` looks in one set only: a copy
  elsewhere would be missed and fetched again. `ResetForgets` shows
  `HoldsOnlyFetched`: a set-associative cache forgets what it held.
  `StoresReachMemory` is `StoresAccounted`, which is inductive together with
  `CacheInv`: a line that leaves a cache is either on the stack as a write-back
  or dirty below. It needs `LinesNest`, a condition on the line sizes given on
  the command line, which TLC evaluates for the run's hierarchy. `TrafficCorrect` is
  `TrafficConserved` with `EventsFinite`, by counting: a miss adds one numbered
  event for each of its handlers, whose turn comes once for each call on the
  stack. It uses that no handler is added twice (`HandlersAssumption`), as main
  does it.
  That the granule of a cache is positive would need induction over the
  recursive functions `IdxShift` and `Shift`; it is the assumption
  `GranuleAssumption`, which TLC evaluates.
* **WatchLocProofs.** `RingInv`: while something is watched, the ring read
  backwards from `last_access` is the log read backwards (`RingHolds`), as far
  as the ring reaches; and `state.pc` is the pc of the step's first instruction
  until the step ends. `WhenInOrder` follows. For any size of ring.
* **TrackerProofs.** `HeapInv` is types, `NoDangling` and `CountsExact`, in the
  middle of `cleanup` too. Neither is inductive alone: the counts need that
  nothing dangles, for a new node to start unreferenced; that nothing dangles
  needs the counts, for a node freed to be known to nobody. A count is a sum of
  cardinalities of five sets (registers, words, first and second operands,
  queue). `TrackerInv` adds that a replacement under way in memory is of the
  last store to its word, for `WordHistoryCurrent`; `Overlooked` names the
  stores that leave the history as it is, those of others and those the
  tracker does not see, and the theorem is about all the rest. For any program,
  registers, words and number of nodes, and any stores of others in between.
* **HwachaProofs.** `HwachaInv` is `TypeOK`, `BlockConsistent` and `Ownership`
  (an unsaved process has a fresh image, the unit is reset while nobody owns
  it, inside a block its owner is at a vf). `BlockConsistent` says of the unit
  and of every image: the flags that vf reads to decide whether to continue
  are set exactly while the process is inside a block, its pc is in the block
  and `UTIDX` below the length. Neither is inductive without the other: a
  restore puts an image where the unit was. `TypeOK` bounds the register counts
  by `MaxRegs` and the length, its limit and `UTIDX`, of the unit and of the
  images, by the number of micro-threads; it is not inductive either: `UTIDX`
  is incremented in a block only, where `BlockConsistent` has it below the
  length. What an instruction may change is one lemma (`Leaves`, `AfterFacts`),
  the only place where instructions are told apart. For any number of
  processes, lanes, banks, registers and any block.
  `ImplementsPrivateUnits == Spec => Virtualised` rests on that invariant. A
  step of the kernel, a fault or a fetch is a stutter: what each
  process sees (`SameView`) stays. A step of a process is a step of its private
  unit and leaves the others' views alone (`Alone`). `UtExecute` maps to
  `Execute`: the element at `UTIDX` is the first of those furthest behind.
* **ArithmeticProofs.** These are not about behaviours: each theorem says that
  a property of the run `instructions` holds in every state whose operands are
  words or patterns of the right size, so for all operands and not only TLC's,
  and for all sizes.
  - *Words of every even width.* `MulhuCorrect`, `MulhCorrect` and
    `MulhsuCorrect` (no partial sum of the schoolbook method overflows),
    `CompareCorrect`, `SextCorrect` and `DivisionCorrect`.
    `IntegersAlwaysCorrect` puts them together into `IntegerCorrect`: each
    instruction is written as a word of an integer expression (`SumValues` to
    `NarrowValues`), then its low bits, its sign extension (`Extended`) and its
    word form are compared. That and, or and xor of sign-extended words are
    sign-extended is shown bit by bit: `ExtendedFlat` says that a word is
    sign-extended when its upper bits are equal, and `BitsExist`, by a least
    counterexample, that `ofBits` has the bits it is asked for. Width 4 at
    least, since in halves of one bit the 1 of slt is not sign-extended.
  - *Tags.* `TagsNeverForged`: under each policy, from what each macro makes of
    two sets of bits (`MacroTags`). It covers the instructions that compute from
    integer registers, the atomic operations other than the four of
    `TaggedByValue`, and `WRITE_RD`, which keeps the tag that rd had. It is not
    about instructions that set a tag themselves or load one.
  - *Order.* `OrderAlwaysCorrect`: for formats of any size (4 exponent and 2
    fraction bits at least) the comparisons of words are those of the ranks of
    the numbers.
  - *Rounding.* `SubnormalRoundedOnce` and `NormalRoundedOnce` show that
    `roundPack` rounds the exact significand once although a subnormal one has
    first been shifted with its lost bits jammed into the last one (`Jammed`:
    with two extra bits, the jammed rest compares with zero and one half as the
    exact rest does). `RoundPackCorrect` says the same of an exact number
    given as a fraction: if the significand stands for it (`StandsFor`: same
    bits above, sticky below), pattern and flags are those of the reference,
    overflow included.
  - *Products and quotients.* `ProductsAlwaysCorrect`. A product is exact
    before it is jammed. A quotient is estimated digit by digit; the estimate
    is the quotient or at most 2 more (`EstimateWithin`), and f64_div corrects
    it only when its low bits are close to a rounding boundary: elsewhere the
    estimate lies on the same side of every boundary as the quotient (`Side`),
    which is all that rounding looks at. Hypothesis: the wider word can be cut
    in halves.

  Hypotheses. The provers know nothing about exponentiation, and its laws need
  induction: `PowersHold` (`2^(i+j) = 2^i * 2^j`, `2^0 = 1`, `n < 2^n`) is a
  hypothesis of the theorems that need them. TLC evaluates `PowerLaws(15)`, and
  `PowersOfTwo` for the run's width. `NormalRoundedOnce` needs `ExtraBits`, true
  from two extra bits on; the formats of the code have 7 and 10.
* `TypeOK` is proved of `Sim`, `Processor`, `Mmu`, `CacheSim` and `Hwacha`.

Only model-checked: liveness (`ExitTerminates`, `EveryHartScheduled`,
`CtrlcReachesPrompt`; out of the prover's reach), and four properties of
`instructions`. `RemSqrtCorrect`: the loops of remainder and square root are
recursive and a statement about every input needs induction over their turns.
`MulAddCorrect`, `ConversionsCorrect` and `HalfCorrect`: their references are
written for TLC, with sums of at most 14 digits and integers below 2^28, and
would have to be restated without bounds first. What they round with,
`roundPack`, is proved.

## 6. Abstractions and limits

* In `Sim`, `Processor` and `Mmu` instructions are chosen nondeterministically
  and register contents are left out; what they compute is in `Alu` and
  `FpInsns`.
* `SoftFloat`: `f32_rem`, `f32_roundToInt`, `f32_add`, `f32_sub`, `f32_mul`, the
  `_r_minMag` conversions and their 64-bit forms are checked although no
  instruction calls them. NaN payloads are the default NaN, as in
  specialize.h. A root is estimated within the bounds measured on the
  library's own estimate.
* `Hwacha`: one integer and one floating point register stand for all, a segment
  load for the segment loads; vector stores outside of a block, which change
  nothing in the unit, are left out. The registers of micro-threads above the
  length are not saved, and not promised.
* lr/sc compare virtual addresses; `Sim` has one name per word, so two virtual
  names of one word are outside `ReservationClean`. Writes of the host or the
  prompt are not counted as another hart's.
* `TimerExact` leaves out a step that passes through 2^32 before it reaches
  `compare`: there the code misses the interrupt (a hazard without property).
* `Mmu`: the low half of the virtual space; page tables are not executed; the
  tag memory and libspike's page are left out.
* Not modelled: the opcode table and the generated encodings (no state of
  their own that a property could relate to); the commands of the prompt that
  print, and the expressions of until and while, which repeat the step that is
  modelled; tag statistics and the page for libspike (counters nothing reads
  back); the RoCC example; the disassembler apart from `lookup_args`
  (formatting); the command line (process start-up); compressed instructions
  (not compiled in).
* `CacheSim`: `StoresAccounted` is about hierarchies with one last level whose
  lines nest. `FAWays` is scaled down from 4 to 1.
* `WatchLoc` compares start addresses as the code does, and an attempt to
  store that faults counts as a write.
* `Tracker`: instructions without a memory operand in the disassembler's table
  (AMOs among them) are not memory instructions for it; printing is left out.

## 7. Plan

Done: `Sim`, `Processor`, `Mmu`, `CacheSim`, `WatchLoc`, `Tracker` and `Hwacha`
with proofs of every safety property their runs check; the refinements of
`VectorThreads` by `Hwacha` and of `Mailboxes` by `Sim`; the instructions with
their tags and the floating point library, with proofs for all sizes of the
integer instructions, tags, comparisons, rounding, products and quotients.
What is left, in this order:

1. Proofs: sums and fused multiply-adds against an unbounded reference, on
   `RoundPackCorrect`; conversions.
2. Abstract specifications: an atomic-reservation memory that `Sim`
   implements, a memory without caches that `Mmu` implements.
3. `Decode`: `build_opcode_map` and `decode_insn` against a linear search of
   the instruction list.
4. `Interactive`: until and while with expressions that may trap, on `Sim`.
