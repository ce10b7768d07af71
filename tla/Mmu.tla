-------------------------------- MODULE Mmu --------------------------------
(***************************************************************************)
(* One hart's port to memory: mmu_t (riscv/mmu.h, riscv/mmu.cc).  The page *)
(* table walk, the TLB (three tag arrays over one data array), the decoded *)
(* instruction cache, and what flushes them.                               *)
(*                                                                         *)
(* A page stands for one word: memory holds a word per page, and a page    *)
(* that is used as a page table holds entries.  Virtual page numbers run   *)
(* over the low half of the address space; VSize stands for the addresses  *)
(* that are not canonical.  The word of libspike's page is left out: it is *)
(* outside memory and never in the TLB.                                    *)
(***************************************************************************)
EXTENDS Integers, FiniteSets

CONSTANTS
  LEVELS, PTIDXBITS,   \* the shape of the page table: 3 and 10
  MemPages,            \* memsz in pages
  TLB_ENTRIES, ICACHE_ENTRIES,
  PtPages,             \* pages that hold page tables
  Ptes,                \* page table entries that occur
  Words,               \* instruction words
  InitTables,          \* page tables the boot code sets up
  MaxWrites            \* bound: stores that change memory

ASSUME ShapeAssumption == LEVELS \in Nat \ {0} /\ PTIDXBITS \in Nat
ASSUME SizeAssumption ==
  MemPages \in Nat \ {0} /\ TLB_ENTRIES \in Nat \ {0} /\ ICACHE_ENTRIES \in Nat \ {0}
ASSUME MaxWritesAssumption == MaxWrites \in Nat

Perms == {"UR", "UW", "UX", "SR", "SW", "SX"}
Pte == [V : BOOLEAN, T : BOOLEAN, ppn : Nat, perm : SUBSET Perms]

ASSUME PtesAssumption == Ptes \subseteq Pte
ASSUME PtPagesAssumption == PtPages \subseteq 0 .. MemPages - 1

Pow2[k \in 0 .. LEVELS * PTIDXBITS] == IF k = 0 THEN 1 ELSE 2 * Pow2[k - 1]

PtIdx == 0 .. Pow2[PTIDXBITS] - 1
VSize == Pow2[LEVELS * PTIDXBITS]
VPNs == 0 .. VSize          \* VSize itself: one that is not canonical
Pages == 0 .. MemPages - 1
CodePages == Pages \ PtPages
Invalid == -1               \* the tag of an empty TLB or icache entry

ASSUME InitTablesAssumption == InitTables \subseteq [PtPages -> [PtIdx -> Ptes]]

VARIABLES
  S, VM, ptbr,       \* of the hart's state: mode, translation on, root page
  rv64,              \* the width decode_insn uses
  word, table,       \* memory: a word per page, entries per page table page
  tlb_insn_tag, tlb_load_tag, tlb_store_tag, tlb_data,
  icache,            \* [tag, word, rv64] per entry
  tracing,           \* a tracer is interested in instruction fetches
  fetched,           \* the last fetch since a tracer came: see TypeOK
  writes,            \* how many stores have changed memory
  mapped,            \* history: page tables and ptbr unchanged since flush_tlb
  coded              \* history: and no word changed since flush_icache

tlbVars == <<tlb_insn_tag, tlb_load_tag, tlb_store_tag, tlb_data>>
memVars == <<word, table, writes>>
modeVars == <<S, VM, ptbr, rv64>>
vars == <<modeVars, memVars, tlbVars, icache, tracing, fetched, mapped, coded>>

TlbIdx == 0 .. TLB_ENTRIES - 1
IcIdx == 0 .. ICACHE_ENTRIES - 1

TypeOK ==
  /\ S \in BOOLEAN /\ VM \in BOOLEAN /\ rv64 \in BOOLEAN
  /\ ptbr \in Nat
  /\ word \in [CodePages -> Words]
  /\ table \in [PtPages -> [PtIdx -> Ptes]]
  /\ tlb_insn_tag \in [TlbIdx -> VPNs \cup {Invalid}]
  /\ tlb_load_tag \in [TlbIdx -> VPNs \cup {Invalid}]
  /\ tlb_store_tag \in [TlbIdx -> VPNs \cup {Invalid}]
  /\ tlb_data \in [TlbIdx -> {d \in Int : d < MemPages}]
  /\ icache \in [IcIdx -> [tag : VPNs \cup {Invalid}, word : Words, rv64 : BOOLEAN]]
  /\ tracing \in BOOLEAN
  /\ fetched \in {"none", "hit", "miss", "traced", "minus one"}
  /\ writes \in 0 .. MaxWrites
  /\ mapped \in BOOLEAN /\ coded \in BOOLEAN

-----------------------------------------------------------------------------
(* mmu_t::walk                                                             *)

NoPte == [V |-> FALSE, T |-> FALSE, ppn |-> 0, perm |-> {}]
AllPerms(p) == [V |-> TRUE, T |-> FALSE, ppn |-> p, perm |-> Perms]

(* Bitwise or of the k low bits of two numbers, over the rest of a.        *)
OrLow[k \in Nat, a \in Nat, b \in Nat] ==
  IF k = 0 THEN a
  ELSE 2 * OrLow[k - 1, a \div 2, b \div 2]
       + (IF a % 2 = 1 \/ b % 2 = 1 THEN 1 ELSE 0)

(* Levels left: l.  The index of this level selects an entry of the table  *)
(* at page base; out of memory, or not a table this model has, is no       *)
(* mapping.  A leaf above the last level is a large page: the low bits of  *)
(* the virtual page number are or-ed into it.                              *)
WalkFrom(t) ==
  LET f[l \in 0 .. LEVELS, base \in Nat, vpn \in Nat] ==
        IF l = 0 \/ base \notin PtPages THEN NoPte
        ELSE LET below == Pow2[(l - 1) * PTIDXBITS]
                 ptd == t[base][(vpn \div below) % Pow2[PTIDXBITS]]
             IN  CASE ~ptd.V -> NoPte
                   [] ptd.V /\ ptd.T -> f[l - 1, ptd.ppn, vpn]
                   [] OTHER -> [ptd EXCEPT !.ppn = OrLow[(l - 1) * PTIDXBITS, @,
                                                         vpn % below]]
  IN  f

(* A leaf that points out of memory is no mapping.                         *)
InRangeUnchecked(pte) == pte
InRange(pte) == IF pte.ppn \in Pages THEN pte ELSE NoPte

(* With page tables t, translation on or off, and root page b: no mapping  *)
(* for an address that is not canonical; the identity below memsz when     *)
(* translation is off.                                                     *)
WalkIn(t, vm, b, vpn) ==
  IF vpn >= VSize THEN NoPte
  ELSE IF ~vm THEN IF vpn \in Pages THEN AllPerms(vpn) ELSE NoPte
  ELSE InRange(WalkFrom(t)[LEVELS, b, vpn])

Walk(vpn) == WalkIn(table, VM, ptbr, vpn)

-----------------------------------------------------------------------------
(* mmu_t::translate and refill_tlb *)

Kinds == {"R", "W", "X"}

Right(s, kind) == CASE kind = "R" -> IF s THEN "SR" ELSE "UR"
                    [] kind = "W" -> IF s THEN "SW" ELSE "UW"
                    [] kind = "X" -> IF s THEN "SX" ELSE "UX"

Allowed(pte, kind) == pte.V /\ Right(S, kind) \in pte.perm

TlbSlot(vpn) == vpn % TLB_ENTRIES
TagArray(kind) == CASE kind = "R" -> tlb_load_tag
                    [] kind = "W" -> tlb_store_tag
                    [] kind = "X" -> tlb_insn_tag

Hit(vpn, kind) == TagArray(kind)[TlbSlot(vpn)] = vpn

(* tlb_data holds the distance from virtual to physical, so a hit adds the *)
(* virtual address to it.                                                  *)
Translates(vpn, kind) == Hit(vpn, kind) \/ Allowed(Walk(vpn), kind)
Paddr(vpn, kind) ==
  IF Hit(vpn, kind) THEN vpn + tlb_data[TlbSlot(vpn)] ELSE Walk(vpn).ppn

TagFor(vpn, kind) == IF Allowed(Walk(vpn), kind) THEN vpn ELSE Invalid

(* A miss that is allowed sets all three tags from the one entry walked.   *)
RefillTlb(vpn, kind) ==
  IF Hit(vpn, kind) THEN UNCHANGED tlbVars
  ELSE LET i == TlbSlot(vpn) IN
       /\ tlb_load_tag' = [tlb_load_tag EXCEPT ![i] = TagFor(vpn, "R")]
       /\ tlb_store_tag' = [tlb_store_tag EXCEPT ![i] = TagFor(vpn, "W")]
       /\ tlb_insn_tag' = [tlb_insn_tag EXCEPT ![i] = TagFor(vpn, "X")]
       /\ tlb_data' = [tlb_data EXCEPT ![i] = Walk(vpn).ppn - vpn]

FlushIcache == icache' = [i \in IcIdx |-> [icache[i] EXCEPT !.tag = Invalid]]

(* Mutated: the store tags are forgotten; the icache is.                   *)
FlushTlbNotStores ==
  /\ tlb_insn_tag' = [i \in TlbIdx |-> Invalid]
  /\ tlb_load_tag' = [i \in TlbIdx |-> Invalid]
  /\ FlushIcache
  /\ mapped' = TRUE /\ coded' = TRUE
  /\ UNCHANGED <<tlb_store_tag, tlb_data>>
FlushTlbNotIcache ==
  /\ tlb_insn_tag' = [i \in TlbIdx |-> Invalid]
  /\ tlb_load_tag' = [i \in TlbIdx |-> Invalid]
  /\ tlb_store_tag' = [i \in TlbIdx |-> Invalid]
  /\ mapped' = TRUE /\ coded' = TRUE
  /\ UNCHANGED <<icache, tlb_data>>

FlushTlb ==
  /\ tlb_insn_tag' = [i \in TlbIdx |-> Invalid]
  /\ tlb_load_tag' = [i \in TlbIdx |-> Invalid]
  /\ tlb_store_tag' = [i \in TlbIdx |-> Invalid]
  /\ FlushIcache
  /\ mapped' = TRUE /\ coded' = TRUE
  /\ UNCHANGED tlb_data

-----------------------------------------------------------------------------
Init ==
  /\ S = TRUE /\ VM = FALSE /\ rv64 = TRUE /\ ptbr = 0
  /\ word \in [CodePages -> Words]
  /\ table \in InitTables
  /\ tlb_insn_tag = [i \in TlbIdx |-> Invalid]
  /\ tlb_load_tag = [i \in TlbIdx |-> Invalid]
  /\ tlb_store_tag = [i \in TlbIdx |-> Invalid]
  /\ tlb_data = [i \in TlbIdx |-> 0]
  /\ \E w \in Words : icache = [i \in IcIdx |-> [tag |-> Invalid, word |-> w,
                                                 rv64 |-> TRUE]]
  /\ tracing = FALSE /\ fetched = "none" /\ writes = 0
  /\ mapped = TRUE /\ coded = TRUE

Load(vpn) ==
  /\ Translates(vpn, "R")
  /\ RefillTlb(vpn, "R")
  /\ UNCHANGED <<modeVars, memVars, icache, tracing, fetched, mapped, coded>>

(* What a store does to physical page p: an entry of a page table page, or *)
(* the word of any other.  Nothing looks at the TLB or at the icache.      *)
WriteWord(p, w) ==
  /\ p \in CodePages
  /\ word' = [word EXCEPT ![p] = w]
  /\ coded' = FALSE /\ UNCHANGED <<table, mapped>>
WriteEntry(p, i, e) ==
  /\ p \in PtPages
  /\ table' = [table EXCEPT ![p][i] = e]
  /\ mapped' = FALSE /\ UNCHANGED <<word, coded>>

Write(p) ==
  /\ writes < MaxWrites /\ writes' = writes + 1
  /\ \/ \E w \in Words : WriteWord(p, w)
     \/ \E i \in PtIdx, e \in Ptes : WriteEntry(p, i, e)

Store(vpn) ==
  /\ Translates(vpn, "W")
  /\ RefillTlb(vpn, "W")
  /\ Write(Paddr(vpn, "W"))
  /\ UNCHANGED <<modeVars, icache, tracing, fetched>>

(* A store by another hart, or by the host through debug_mmu: it does not  *)
(* go through this TLB.                                                    *)
OtherStore(p) ==
  /\ Write(p)
  /\ UNCHANGED <<modeVars, tlbVars, icache, tracing, fetched>>

-----------------------------------------------------------------------------
(* access_icache.  A page holds one instruction, so its number stands for  *)
(* the address of that.  What a tracer wants to see must not be cached:    *)
(* the entry's tag is wiped again.                                         *)

IcSlot(vpn) == vpn % ICACHE_ENTRIES

FetchHit(vpn) ==
  /\ icache[IcSlot(vpn)].tag = vpn
  /\ fetched' = "hit"
  /\ UNCHANGED <<tlbVars, icache>>

FetchMiss(vpn) ==
  LET w == word[Paddr(vpn, "X")] IN
  /\ icache[IcSlot(vpn)].tag # vpn
  /\ Translates(vpn, "X")
  /\ Paddr(vpn, "X") \in CodePages   \* page tables are not executed
  /\ RefillTlb(vpn, "X")
  /\ icache' = [icache EXCEPT ![IcSlot(vpn)] =
                  [tag |-> IF tracing THEN Invalid ELSE vpn, word |-> w, rv64 |-> rv64]]
  /\ fetched' = IF tracing THEN "traced" ELSE "miss"

Fetch(vpn) ==
  /\ FetchHit(vpn) \/ FetchMiss(vpn)
  /\ UNCHANGED <<modeVars, memVars, tracing, mapped, coded>>

(* The hart jumps to the address -1 (sret with that epc): its slot is the  *)
(* last, its "tag" that of an empty entry, and the tags are compared       *)
(* before the address is looked at.                                        *)
FetchMinusOne ==
  /\ icache[ICACHE_ENTRIES - 1].tag = Invalid
  /\ fetched' = "minus one"
  /\ UNCHANGED <<modeVars, memVars, tlbVars, icache, tracing, mapped, coded>>

-----------------------------------------------------------------------------
(* What changes the translation                                            *)

(* set_pcr(CSR_STATUS): by software, by sret, and by take_trap.            *)
SetStatus(s, vm, w) ==
  /\ S' = s /\ VM' = vm /\ rv64' = w
  /\ FlushTlb
  /\ UNCHANGED <<ptbr, memVars, tracing, fetched>>

(* An access that does not translate is a trap: supervisor mode, same VM.  *)
Faulting == {a \in VPNs \X Kinds :
               /\ ~Translates(a[1], a[2])
               /\ a[2] = "X" => icache[IcSlot(a[1])].tag # a[1]}

Fault(w) == Faulting # {} /\ SetStatus(TRUE, VM, w)

(* set_pcr(CSR_PTBR) flushes nothing; software is to read FATC.            *)
SetPtbr(b) ==
  /\ S
  /\ ptbr' = b
  /\ mapped' = (mapped /\ b = ptbr)
  /\ UNCHANGED <<S, VM, rv64, memVars, tlbVars, icache, tracing, fetched, coded>>

Fatc ==
  /\ S
  /\ FlushTlb
  /\ UNCHANGED <<modeVars, memVars, tracing, fetched>>

FenceI ==
  /\ FlushIcache
  /\ coded' = TRUE
  /\ UNCHANGED <<modeVars, memVars, tlbVars, tracing, fetched, mapped>>

(* A tracer that looks at fetches is hooked in; mutated: without a flush.  *)
RegisterUnflushed ==
  /\ tracing' = TRUE /\ fetched' = "none"
  /\ UNCHANGED <<modeVars, memVars, tlbVars, icache, mapped, coded>>
RegisterMemtracer ==
  /\ FlushTlb
  /\ tracing' = TRUE /\ fetched' = "none"
  /\ UNCHANGED <<modeVars, memVars>>

(* processor_t::reset: state_t::reset and set_pcr(CSR_STATUS).             *)
Reset ==
  /\ S' = TRUE /\ VM' = FALSE /\ rv64' = TRUE /\ ptbr' = 0
  /\ FlushTlb
  /\ UNCHANGED <<memVars, tracing, fetched>>

AccessNext ==
  \/ \E vpn \in VPNs : Load(vpn) \/ Store(vpn) \/ Fetch(vpn)
  \/ \E w \in BOOLEAN : Fault(w)
  \/ FetchMinusOne
  \/ \E p \in Pages : OtherStore(p)

ControlNext ==
  \/ \E vm \in BOOLEAN, w \in BOOLEAN : S /\ SetStatus(FALSE, vm, w)
  \/ \E vm \in BOOLEAN, w \in BOOLEAN : S /\ SetStatus(TRUE, vm, w)
  \/ \E b \in PtPages : SetPtbr(b)
  \/ Fatc \/ FenceI \/ RegisterMemtracer \/ Reset

Next == AccessNext \/ ControlNext

Spec == Init /\ [][Next]_vars

-----------------------------------------------------------------------------
(* Properties                                                              *)

TagArrays == {tlb_load_tag, tlb_store_tag, tlb_insn_tag}

(* The three tag arrays share one data array: two valid tags in a slot     *)
(* name the same page, whatever the order of loads, stores and fetches     *)
(* that filled it.  Otherwise one of them would use the other's data.      *)
TlbTagsAgree ==
  \A i \in TlbIdx : \A t, u \in TagArrays :
    t[i] # Invalid /\ u[i] # Invalid => t[i] = u[i]

(* The TLB never shows: if software has flushed after its last change to   *)
(* ptbr or to a page table, a hit is allowed in the current mode and leads *)
(* where the walk leads.  Mode and VM changes need no such care: set_pcr   *)
(* flushes.                                                                *)
TlbCoherent ==
  mapped => \A vpn \in VPNs, kind \in Kinds :
    Hit(vpn, kind) => /\ Allowed(Walk(vpn), kind)
                      /\ Paddr(vpn, kind) = Walk(vpn).ppn

(* Nor does the icache: if code was fenced after its last change as well,  *)
(* a hit returns the instruction a fetch would find in memory, decoded for *)
(* the current width, and only where the fetch would be allowed.           *)
IcacheCoherent ==
  mapped /\ coded => \A i \in IcIdx : icache[i].tag # Invalid =>
    LET pte == Walk(icache[i].tag) IN
    /\ Allowed(pte, "X")
    /\ icache[i].word = word[pte.ppn]
    /\ icache[i].rv64 = rv64

(* With an instruction cache model attached, every fetch reaches it: none  *)
(* is answered by the simulator's own icache, entries from before the      *)
(* tracer was hooked in included.  The exception is a jump to -1, the tag  *)
(* of an empty entry (mmu.h:160): FetchMinusOne, which sets fetched to a   *)
(* value of its own.                                                       *)
EveryFetchTraced == tracing => fetched \notin {"hit", "miss"}

=============================================================================
