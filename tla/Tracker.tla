------------------------------ MODULE Tracker ------------------------------
(***************************************************************************)
(* The value tracker: tracker_t (riscv/tracker.cc), which keeps, for every *)
(* register and every tagged memory word, a node that says which           *)
(* instruction produced its value, with references to the nodes of the     *)
(* operands.  Nodes are counted references, freed by cleanup, whose loop   *)
(* is taken step by step here.                                             *)
(*                                                                         *)
(* The program is a set of instructions, each at its own pc, executed in   *)
(* any order.  args is what lookup_args returns (spike_main/disasm.cc): a  *)
(* register number, or -1 for a memory operand.  An operand it has no      *)
(* number for, such as a floating point register, is 0 in the first place  *)
(* and missing elsewhere; the memory operand of an AMO, lr or sc is one.   *)
(***************************************************************************)
EXTENDS Integers, Sequences, FiniteSets

CONSTANTS
  Regs,       \* register numbers, 0 among them
  REG_SP,     \* 2
  Cells,      \* tagged memory words
  Insns,      \* the program, see Insn
  Nodes,      \* bound: the nodes there is memory for
  Null,
  UninitFlag  \* what is_mem_insn may hold before the first instruction

Insn == [pc : Nat, kind : {"alu", "load", "store", "amo", "branch"},
         rd : Regs, rs1 : Regs, rs2 : Regs, args : Seq(Regs \cup {-1})]

ASSUME RegsAssumption == 0 \in Regs /\ Regs \subseteq Nat
ASSUME InsnsAssumption ==
  \A i \in Insns : /\ i \in Insn
                   /\ i.kind \in {"load", "store"} => Len(i.args) = 2 /\ i.args[2] = -1
ASSUME FiniteAssumption == IsFiniteSet(Regs) /\ IsFiniteSet(Cells) /\ IsFiniteSet(Nodes)
ASSUME NullAssumption == Null \notin Nodes
ASSUME UninitFlagAssumption == UninitFlag \subseteq BOOLEAN

Free == [free |-> TRUE]
Node == [insn : Insns, c1 : Nodes \cup {Null}, c2 : Nodes \cup {Null}, refc : Nat]

(* What a node is about to be installed in.                                *)
Dests == ({"reg"} \X Regs) \cup ({"mem"} \X Cells)
NoDest == <<"none", 0>>

VARIABLES
  regs, mem,          \* the node of each register and word
  node,               \* the heap
  last_insn, is_mem_insn,
  at,                 \* "idle", or "access": last_insn is about to access memory
  dest, new, queue,   \* the replacement under way: where, by what, cleanup's queue
  lastStore           \* history: the instruction that last stored to a word; Null
                      \* when none did or the tracker was not told of the store

vars == <<regs, mem, node, last_insn, is_mem_insn, at, dest, new, queue, lastStore>>
heapVars == <<regs, mem, node, dest, new, queue>>

(* The constructor sets regs and mem; is_mem_insn and last_insn are what   *)
(* the heap held.                                                          *)
Init ==
  /\ regs = [r \in Regs |-> Null] /\ mem = [c \in Cells |-> Null]
  /\ node = [n \in Nodes |-> Free]
  /\ last_insn \in Insns /\ is_mem_insn \in UninitFlag
  /\ at = "idle" /\ dest = NoDest /\ new = Null /\ queue = <<>>
  /\ lastStore = [c \in Cells |-> Null]

-----------------------------------------------------------------------------
(* Replacing the node of a register or word                                *)

Held(d) == IF d[1] = "reg" THEN regs[d[2]] ELSE mem[d[2]]

One(b) == IF b THEN 1 ELSE 0

(* The references a node to be made with children a, b takes on n.         *)
(* Mutated: on the first only; on none.                                    *)
TakenFirst(n, a, b) == One(n = a)
TakenNone(n, a, b) == 0
Taken(n, a, b) == One(n = a) + One(n = b)

(* A node for instruction i is made, and cleanup of the old one begins.    *)
Replace(d, i, a, b) ==
  \E id \in {n \in Nodes : node[n] = Free} :
    /\ node' = [n \in Nodes |->
         IF n = id THEN [insn |-> i, c1 |-> a, c2 |-> b, refc |-> 1]
         ELSE IF node[n] = Free THEN Free
         ELSE [node[n] EXCEPT !.refc = @ + Taken(n, a, b)]]
    /\ new' = id
    /\ dest' = d
    /\ queue' = IF Held(d) = Null THEN <<>> ELSE <<Held(d)>>
    /\ UNCHANGED <<regs, mem>>

(* One turn of cleanup's loop: the last of the queue gives up a reference, *)
(* and is freed, and its children queued, with the last one.               *)
Cleanup ==
  /\ queue # <<>>
  /\ LET n == queue[Len(queue)]
         rest == SubSeq(queue, 1, Len(queue) - 1)
     IN  IF n = Null
           THEN queue' = rest /\ UNCHANGED node
         ELSE IF node[n].refc = 1
           THEN queue' = rest \o <<node[n].c1, node[n].c2>>
                /\ node' = [node EXCEPT ![n] = Free]
         ELSE queue' = rest /\ node' = [node EXCEPT ![n].refc = @ - 1]
  /\ UNCHANGED <<regs, mem, last_insn, is_mem_insn, at, dest, new, lastStore>>

Install ==
  /\ dest # NoDest /\ queue = <<>>
  /\ IF dest[1] = "reg" THEN regs' = [regs EXCEPT ![dest[2]] = new] /\ UNCHANGED mem
                        ELSE mem' = [mem EXCEPT ![dest[2]] = new] /\ UNCHANGED regs
  /\ dest' = NoDest /\ new' = Null
  /\ UNCHANGED <<node, last_insn, is_mem_insn, at, queue, lastStore>>

Settled == dest = NoDest

-----------------------------------------------------------------------------
(* track: before the instruction is executed.                              *)

(* Mutated: the return address, one register before sp, is ignored.        *)
MeaningfulOff(i) == Len(i.args) > 0 /\ i.args[1] # 0 /\ i.args[1] # REG_SP - 1
Meaningful(i) == Len(i.args) > 0 /\ i.args[1] # 0 /\ i.args[1] # REG_SP
HasMemArg(i) == \E k \in 2 .. Len(i.args) : i.args[k] = -1
WritesReg(i) == i.rd # 0 /\ i.rd = i.args[1]

Src(i, k) == IF Len(i.args) >= k THEN regs[i.args[k]] ELSE Null
DuplicatePc(i) ==
  \E k \in {2, 3} : Src(i, k) # Null /\ node[Src(i, k)].insn.pc = i.pc
NullPropagation(i) == Len(i.args) = 2 /\ i.args[2] = i.rd

Tracked(i) ==
  Meaningful(i) /\ ~HasMemArg(i) /\ WritesReg(i) /\ ~DuplicatePc(i) /\ ~NullPropagation(i)

Track(i) ==
  /\ at = "idle" /\ Settled
  /\ last_insn' = i
  /\ is_mem_insn' = (Meaningful(i) /\ HasMemArg(i))
  /\ at' = IF i.kind \in {"load", "store", "amo"} THEN "access" ELSE "idle"
  /\ IF Tracked(i) THEN Replace(<<"reg", i.rd>>, i, Src(i, 2), Src(i, 3))
                   ELSE UNCHANGED heapVars
  /\ UNCHANGED lastStore

(* track_load and track_store: once the physical address is known.         *)
HasDest(i) == i.rd # 0

TrackLoad(c) ==
  /\ is_mem_insn' = FALSE
  /\ IF is_mem_insn /\ HasDest(last_insn)
       THEN Replace(<<"reg", last_insn.rd>>, last_insn, mem[c], regs[last_insn.rs1])
       ELSE UNCHANGED heapVars

TrackStore(c) ==
  /\ is_mem_insn' = FALSE
  /\ IF is_mem_insn
       THEN Replace(<<"mem", c>>, last_insn, regs[last_insn.rs2], regs[last_insn.rs1])
       ELSE UNCHANGED heapVars

Load(c) ==
  /\ at = "access" /\ Settled /\ last_insn.kind \in {"load", "amo"}
  /\ at' = "idle"
  /\ TrackLoad(c)
  /\ UNCHANGED <<last_insn, lastStore>>

(* An AMO's load comes first; the tracker takes no notice of either.       *)
Store(c) ==
  /\ at = "access" /\ Settled /\ last_insn.kind \in {"store", "amo"}
  /\ at' = "idle"
  /\ TrackStore(c)
  /\ lastStore' = [lastStore EXCEPT ![c] = last_insn]
  /\ UNCHANGED last_insn

(* The access faults, or goes to the libspike page: the tracker is not     *)
(* told.                                                                   *)
Fault ==
  /\ at = "access" /\ Settled
  /\ at' = "idle"
  /\ UNCHANGED <<heapVars, last_insn, is_mem_insn, lastStore>>

(* The prompt shows memory with a load through the hart's port.            *)
PromptLoad(c) ==
  /\ at = "idle" /\ Settled
  /\ TrackLoad(c)
  /\ UNCHANGED <<last_insn, at, lastStore>>

(* A store to the word that this tracker is not told of: by another hart,  *)
(* which has a tracker of its own, by the host or the prompt, or by the    *)
(* vector unit, whose stores carry no tag or, within a block, find vf in   *)
(* last_insn.                                                              *)
StoreElsewhere(c) ==
  /\ at = "idle" /\ Settled
  /\ lastStore' = [lastStore EXCEPT ![c] = Null]
  /\ UNCHANGED <<heapVars, last_insn, is_mem_insn, at>>

Next ==
  \/ \E i \in Insns : Track(i)
  \/ \E c \in Cells : Load(c) \/ Store(c) \/ PromptLoad(c) \/ StoreElsewhere(c)
  \/ Fault \/ Cleanup \/ Install

Spec == Init /\ [][Next]_vars

-----------------------------------------------------------------------------
(* Properties                                                              *)

Live == {n \in Nodes : node[n] # Free}

(* Where n is referred to.  The place a replacement is for does not count: *)
(* its reference is the one cleanup has in its queue.                      *)
References(n) ==
  Cardinality({r \in Regs : regs[r] = n /\ dest # <<"reg", r>>})
  + Cardinality({c \in Cells : mem[c] = n /\ dest # <<"mem", c>>})
  + Cardinality({m \in Live : node[m].c1 = n})
  + Cardinality({m \in Live : node[m].c2 = n})
  + Cardinality({k \in DOMAIN queue : queue[k] = n})
  + One(new = n)

(* Reference counts are exact at every turn of cleanup, however histories  *)
(* share nodes, and every node is referred to: nothing leaks.              *)
CountsExact == \A n \in Live : node[n].refc > 0 /\ node[n].refc = References(n)

(* No freed node can be reached: not from a register or word, not from a   *)
(* node, not from cleanup's queue.                                         *)
NoDangling ==
  /\ \A r \in Regs : dest # <<"reg", r>> => regs[r] \in Live \cup {Null}
  /\ \A c \in Cells : dest # <<"mem", c>> => mem[c] \in Live \cup {Null}
  /\ \A n \in Live : node[n].c1 \in Live \cup {Null} /\ node[n].c2 \in Live \cup {Null}
  /\ \A k \in DOMAIN queue : queue[k] \in Live \cup {Null}

(* The history of a word is that of the last store to it by a scalar       *)
(* instruction of the hart, unless another hart, the host, the prompt or   *)
(* the vector unit has stored to it since, or that instruction was an AMO  *)
(* or sc or stored x0, a floating point register or the stack pointer:     *)
(* track does not see the memory operand of an AMO, and takes the register *)
(* stored for the one changed (tracker.cc, "Optimization: ignore changes   *)
(* to stack pointer").  A fault or a load from the prompt in between makes *)
(* no difference.                                                          *)
WordHistoryCurrent ==
  Settled /\ at = "idle" =>
    \A c \in Cells : mem[c] # Null /\ lastStore[c] # Null =>
      \/ node[mem[c]].insn = lastStore[c]
      \/ lastStore[c].kind = "amo"
      \/ lastStore[c].args[1] \in {0, REG_SP}
=============================================================================
