------------------------------ MODULE WatchLoc ------------------------------
(***************************************************************************)
(* The write watch: watch_loc (riscv/watchloc.cc), with what calls it:     *)
(* every store of the hart, and the commands watch and when of the prompt. *)
(* It keeps the pc of the last RING stores to one address.                 *)
(*                                                                         *)
(* Of the hart, only this is kept: processor_t::step runs several          *)
(* instructions with the pc in a local, and writes state.pc at its end.    *)
(***************************************************************************)
EXTENDS Integers, Sequences, FiniteSets

CONSTANTS
  RING,        \* entries of last_accesses: 1024
  CLEARED,     \* of those, how many reset clears: its memset is told 1024
               \* bytes, which are 128 entries
  PCs,         \* instruction addresses, 0 not among them
  Addrs,       \* addresses the hart stores to
  MaxBurst,    \* instructions in a step
  MaxWrites    \* bound: stores recorded since the last watch command

ASSUME RingAssumption == RING \in Nat \ {0} /\ CLEARED \in 0 .. RING
ASSUME PCsAssumption == PCs \subseteq Nat \ {0}
ASSUME BoundsAssumption == MaxBurst \in Nat \ {0} /\ MaxWrites \in Nat

Idx == 0 .. RING - 1

VARIABLES
  addr, last_access, last_accesses,   \* of watch_loc
  pc,          \* state.pc
  lpc, left,   \* locals of step: the pc, instructions still to run; 0: outside
  begun,       \* history: the step has executed an instruction
  log,         \* history: each store to addr since watch, in order: the pc,
               \* and whether it was the first instruction of its step
  watched      \* history: has the user given a watch command?

vars == <<addr, last_access, last_accesses, pc, lpc, left, begun, log, watched>>

(* The constructor sets none of these: they are what the heap held.        *)
Init ==
  /\ addr \in Addrs
  /\ last_access \in Idx
  /\ last_accesses \in [Idx -> PCs \cup {0}]
  /\ pc \in PCs /\ lpc = pc /\ left = 0
  /\ begun = FALSE /\ log = <<>> /\ watched = FALSE

-----------------------------------------------------------------------------
StepEnter(n) ==
  /\ left = 0
  /\ left' = n /\ lpc' = pc /\ begun' = FALSE
  /\ UNCHANGED <<addr, last_access, last_accesses, pc, log, watched>>

(* The instruction at lpc is done, npc is next; the last one of a step     *)
(* writes state.pc.                                                        *)
Advance(npc) ==
  /\ left > 0
  /\ left' = left - 1
  /\ lpc' = npc
  /\ pc' = IF left = 1 THEN npc ELSE pc
  /\ begun' = (left > 1)

(* A trap ends the step.                                                   *)
Abandon(npc) ==
  /\ left > 0
  /\ left' = 0 /\ lpc' = npc /\ pc' = npc /\ begun' = FALSE

Other(npc) ==
  /\ Advance(npc)
  /\ UNCHANGED <<addr, last_access, last_accesses, log, watched>>

(* access: the next entry of the ring.                                     *)
Bumped == (last_access + 1) % RING

Access(a) ==
  IF a # addr THEN UNCHANGED <<last_access, last_accesses, log>>
  ELSE /\ Len(log) < MaxWrites
       /\ last_access' = Bumped
       /\ last_accesses' = [last_accesses EXCEPT ![last_access'] = pc]
       /\ log' = Append(log, [pc |-> lpc, first |-> ~begun])

(* A store; one that faults has been recorded already, and is recorded     *)
(* again when the trap handler returns to it.                              *)
Store(a, npc) ==
  /\ Advance(npc)
  /\ Access(a)
  /\ UNCHANGED <<addr, watched>>

StoreFaults(a, npc) ==
  /\ Abandon(npc)
  /\ Access(a)
  /\ UNCHANGED <<addr, watched>>

(* The prompt writes memory through the hart's port: recorded as if by the *)
(* next instruction.                                                       *)
PromptWrite(a) ==
  /\ left = 0
  /\ Access(a)
  /\ UNCHANGED <<addr, pc, lpc, left, begun, watched>>

(* The command watch: update_addr, and reset, which clears bytes.          *)
Watch(a) ==
  /\ left = 0
  /\ addr' = a
  /\ last_access' = 0
  /\ last_accesses' = [i \in Idx |-> IF i < CLEARED THEN 0 ELSE last_accesses[i]]
  /\ log' = <<>> /\ watched' = TRUE
  /\ UNCHANGED <<pc, lpc, left, begun>>

(* get_nth_recent_access: size_t arithmetic, where a negative difference   *)
(* wraps to one larger than any n.  Mutated: one off when it wraps.        *)
NthIdxOff(n) == IF last_access - n < 0 THEN (RING - 1 - n + last_access) % RING
                                       ELSE last_access - n
NthIdx(n) ==
  IF last_access - n < 0 \/ n < last_access - n
    THEN ((RING - 1) - n + last_access + 1) % RING
    ELSE last_access - n

(* What when prints as the pc of n writes ago.                             *)
GetNth(n) == last_accesses[NthIdx(n % RING)]

Next ==
  \/ \E n \in 1 .. MaxBurst : StepEnter(n)
  \/ \E npc \in PCs : Other(npc)
  \/ \E a \in Addrs, npc \in PCs : Store(a, npc) \/ StoreFaults(a, npc)
  \/ \E a \in Addrs : PromptWrite(a) \/ Watch(a)

Spec == Init /\ [][Next]_vars

-----------------------------------------------------------------------------
(* Properties                                                              *)

(* when lists the stores to the watched address, latest first, across the  *)
(* wrap of the ring and from one watch to the next (interactive.cc, "Print *)
(* the PC of the most recent n writes to the address being watched"), with *)
(* their own pc if they are the first instruction of a step: always when   *)
(* stepping one by one.  (The others have state.pc, which is behind.)      *)
WhenInOrder ==
  watched => \A i \in Idx : i < Len(log) =>
    LET store == log[Len(log) - i] IN store.first => GetNth(i) = store.pc
=============================================================================
