----------------------------- MODULE MmuProofs -----------------------------
(***************************************************************************)
(* Mmu for any shape of page table, any sizes of TLB and icache and any    *)
(* page table contents: the caches are never seen by software that flushes *)
(* them when it has to.                                                    *)
(***************************************************************************)
EXTENDS Mmu, TLAPS

(* A tracer finds the icache empty, and it stays empty.                    *)
TracedUncached == tracing => \A i \in IcIdx : icache[i].tag = Invalid

(* The TLB part, the icache part, and the whole invariant.                 *)
TlbInv == TlbTagsAgree /\ TlbCoherent
IcacheInv == IcacheCoherent /\ TracedUncached /\ EveryFetchTraced
MmuInv == TypeOK /\ TlbInv /\ IcacheInv

USE ShapeAssumption, SizeAssumption, MaxWritesAssumption, PtesAssumption,
    PtPagesAssumption, InitTablesAssumption

(* A virtual page number is a number, and not the tag of an empty entry.   *)
LEMMA VpnFacts ==
  ASSUME NEW vpn \in VPNs
  PROVE  /\ vpn \in Int /\ vpn # Invalid
         /\ TlbSlot(vpn) \in TlbIdx /\ IcSlot(vpn) \in IcIdx
  BY DEF VPNs, Invalid, TlbSlot, TlbIdx, IcSlot, IcIdx

(* The walk returns a page of memory: what points elsewhere is no mapping. *)
LEMMA WalkPpn ==
  ASSUME NEW t, NEW vm, NEW b, NEW vpn \in VPNs
  PROVE  WalkIn(t, vm, b, vpn).ppn \in Pages
<1>1. \A e : InRange(e).ppn \in Pages
  BY DEF InRange, NoPte, Pages
<1>2. NoPte.ppn \in Pages
  BY DEF NoPte, Pages
<1>3. AllPerms(vpn).ppn = vpn
  BY DEF AllPerms
<1>4. QED BY <1>1, <1>2, <1>3 DEF WalkIn

(* What a hit in the three arrays reads.                                   *)
LEMMA TagArrayCases ==
  /\ TagArray("R") = tlb_load_tag /\ TagArray("W") = tlb_store_tag
  /\ TagArray("X") = tlb_insn_tag
  BY DEF TagArray

(* refill_tlb keeps the arrays well typed and in agreement.                *)
LEMMA RefillType ==
  ASSUME TypeOK, TlbTagsAgree, NEW vpn \in VPNs, NEW kind \in Kinds,
         RefillTlb(vpn, kind)
  PROVE  /\ tlb_insn_tag' \in [TlbIdx -> VPNs \cup {Invalid}]
         /\ tlb_load_tag' \in [TlbIdx -> VPNs \cup {Invalid}]
         /\ tlb_store_tag' \in [TlbIdx -> VPNs \cup {Invalid}]
         /\ tlb_data' \in [TlbIdx -> {d \in Int : d < MemPages}]
         /\ TlbTagsAgree'
<1>1. CASE Hit(vpn, kind)
  BY <1>1 DEF RefillTlb, tlbVars, TypeOK, TlbTagsAgree, TagArrays
<1>2. CASE ~Hit(vpn, kind)
  <2> DEFINE i == TlbSlot(vpn)
  <2>1. i \in TlbIdx /\ vpn \in Int
    BY VpnFacts
  <2>2. \A k \in Kinds : TagFor(vpn, k) \in {vpn, Invalid}
    BY DEF TagFor
  <2>3. /\ tlb_load_tag' = [tlb_load_tag EXCEPT ![i] = TagFor(vpn, "R")]
        /\ tlb_store_tag' = [tlb_store_tag EXCEPT ![i] = TagFor(vpn, "W")]
        /\ tlb_insn_tag' = [tlb_insn_tag EXCEPT ![i] = TagFor(vpn, "X")]
        /\ tlb_data' = [tlb_data EXCEPT ![i] = Walk(vpn).ppn - vpn]
    BY <1>2 DEF RefillTlb
  <2>4. Walk(vpn).ppn - vpn \in {d \in Int : d < MemPages}
    <3>1. Walk(vpn).ppn \in Pages
      BY WalkPpn DEF Walk
    <3>2. vpn >= 0
      BY DEF VPNs
    <3>3. QED BY <2>1, <3>1, <3>2 DEF Pages
  <2> HIDE DEF i
  <2>5. \A j \in TlbIdx : j # i =>
          /\ tlb_load_tag'[j] = tlb_load_tag[j]
          /\ tlb_store_tag'[j] = tlb_store_tag[j]
          /\ tlb_insn_tag'[j] = tlb_insn_tag[j]
    BY <2>1, <2>3 DEF TypeOK
  <2>6. /\ tlb_load_tag'[i] \in {vpn, Invalid}
        /\ tlb_store_tag'[i] \in {vpn, Invalid}
        /\ tlb_insn_tag'[i] \in {vpn, Invalid}
    BY <2>1, <2>2, <2>3 DEF TypeOK, Kinds
  <2>7. TlbTagsAgree'
    BY <2>5, <2>6 DEF TlbTagsAgree, TagArrays
  <2>8. QED BY <2>1, <2>2, <2>3, <2>4, <2>7 DEF TypeOK, Kinds
<1>3. QED BY <1>1, <1>2

(* refill_tlb keeps the TLB coherent while mode and tables stay.           *)
LEMMA RefillCoherent ==
  ASSUME TypeOK, TlbCoherent, NEW vpn \in VPNs, NEW kind \in Kinds,
         RefillTlb(vpn, kind), UNCHANGED <<S, VM, ptbr, table>>, mapped' => mapped
  PROVE  TlbCoherent'
<1>1. CASE Hit(vpn, kind)
  BY <1>1 DEF RefillTlb, tlbVars, TlbCoherent, Hit, TagArray, Allowed, Paddr, Walk
<1>2. CASE ~Hit(vpn, kind)
  <2> DEFINE i == TlbSlot(vpn)
  <2>1. /\ tlb_load_tag' = [tlb_load_tag EXCEPT ![i] = TagFor(vpn, "R")]
        /\ tlb_store_tag' = [tlb_store_tag EXCEPT ![i] = TagFor(vpn, "W")]
        /\ tlb_insn_tag' = [tlb_insn_tag EXCEPT ![i] = TagFor(vpn, "X")]
        /\ tlb_data' = [tlb_data EXCEPT ![i] = Walk(vpn).ppn - vpn]
    BY <1>2 DEF RefillTlb
  <2>2. SUFFICES ASSUME mapped, NEW v \in VPNs, NEW k \in Kinds, Hit(v, k)'
                 PROVE  /\ Allowed(Walk(v), k)'
                        /\ Paddr(v, k)' = (Walk(v).ppn)'
    BY DEF TlbCoherent
  <2>3. Walk(v)' = Walk(v) /\ (Allowed(Walk(v), k)' <=> Allowed(Walk(v), k))
    BY DEF Walk, Allowed
  <2>4. i \in TlbIdx /\ TlbSlot(v) \in TlbIdx /\ v # Invalid /\ v \in Int
    BY VpnFacts
  <2>5. CASE TlbSlot(v) # i
    <3>1. TagArray(k)'[TlbSlot(v)] = TagArray(k)[TlbSlot(v)]
      BY <2>1, <2>4, <2>5 DEF TagArray, Kinds, TypeOK
    <3>2. Hit(v, k)
      BY <2>2, <3>1 DEF Hit
    <3>3. tlb_data'[TlbSlot(v)] = tlb_data[TlbSlot(v)]
      BY <2>1, <2>4, <2>5 DEF TypeOK
    <3>4. Paddr(v, k)' = Paddr(v, k)
      BY <2>2, <3>2, <3>3 DEF Paddr
    <3>5. QED BY <2>2, <2>3, <3>2, <3>4 DEF TlbCoherent
  <2>6. CASE TlbSlot(v) = i
    <3>1. TagArray(k)'[i] = TagFor(vpn, k)
      BY <2>1, <2>4 DEF TagArray, Kinds, TypeOK
    <3>2. v = vpn /\ Allowed(Walk(v), k)
      BY <2>2, <2>4, <2>6, <3>1 DEF Hit, TagFor
    <3>3. tlb_data'[i] = Walk(v).ppn - v
      BY <2>1, <2>4, <3>2 DEF TypeOK
    <3>4. Walk(v).ppn \in Int
      <4>1. Walk(v).ppn \in Pages
        BY WalkPpn DEF Walk
      <4>2. QED BY <4>1 DEF Pages
    <3>5. Paddr(v, k)' = v + tlb_data'[i]
      BY <2>2, <2>6 DEF Paddr, TlbSlot
    <3>6. v + (Walk(v).ppn - v) = Walk(v).ppn
      BY <2>4, <3>4
    <3>7. QED BY <2>3, <3>2, <3>3, <3>5, <3>6
  <2>7. QED BY <2>5, <2>6
<1>3. QED BY <1>1, <1>2

(* flush_tlb makes every part of the invariant about the caches hold.      *)
LEMMA FlushFacts ==
  ASSUME TypeOK, FlushTlb
  PROVE  /\ TlbInv' /\ IcacheCoherent' /\ TracedUncached'
         /\ tlb_insn_tag' \in [TlbIdx -> VPNs \cup {Invalid}]
         /\ tlb_load_tag' \in [TlbIdx -> VPNs \cup {Invalid}]
         /\ tlb_store_tag' \in [TlbIdx -> VPNs \cup {Invalid}]
         /\ tlb_data' \in [TlbIdx -> {d \in Int : d < MemPages}]
         /\ icache' \in [IcIdx -> [tag : VPNs \cup {Invalid}, word : Words,
                                   rv64 : BOOLEAN]]
         /\ mapped' \in BOOLEAN /\ coded' \in BOOLEAN
<1>1. /\ \A i \in IcIdx : icache'[i].tag = Invalid
      /\ icache' \in [IcIdx -> [tag : VPNs \cup {Invalid}, word : Words,
                                rv64 : BOOLEAN]]
  BY DEF FlushTlb, FlushIcache, TypeOK
<1>2. \A v \in VPNs, k \in Kinds : ~Hit(v, k)'
  BY VpnFacts DEF FlushTlb, Hit, TagArray, Kinds
<1>3. TlbInv'
  BY <1>2 DEF FlushTlb, TlbInv, TlbTagsAgree, TagArrays, TlbCoherent
<1>4. QED BY <1>1, <1>3 DEF FlushTlb, TypeOK, IcacheCoherent, TracedUncached

(* A store to physical page p: a page table entry or a word.               *)
LEMMA WriteFacts ==
  ASSUME TypeOK, NEW p, Write(p)
  PROVE  /\ word' \in [CodePages -> Words]
         /\ table' \in [PtPages -> [PtIdx -> Ptes]]
         /\ writes' \in 0 .. MaxWrites
         /\ mapped' \in BOOLEAN /\ coded' \in BOOLEAN
         /\ mapped' => mapped /\ table' = table
         /\ coded' => coded /\ word' = word
<1>1. writes' \in 0 .. MaxWrites
  <2>1. writes < MaxWrites /\ writes' = writes + 1
    BY DEF Write
  <2>2. writes \in 0 .. MaxWrites
    BY DEF TypeOK
  <2>3. QED BY <2>1, <2>2
<1>2. ASSUME NEW w \in Words, WriteWord(p, w)
      PROVE  /\ word' \in [CodePages -> Words] /\ coded' = FALSE
             /\ UNCHANGED <<table, mapped>>
  BY <1>2 DEF WriteWord, TypeOK
<1>3. ASSUME NEW i \in PtIdx, NEW e \in Ptes, WriteEntry(p, i, e)
      PROVE  /\ table' \in [PtPages -> [PtIdx -> Ptes]] /\ mapped' = FALSE
             /\ UNCHANGED <<word, coded>>
  <2>1. table' = [table EXCEPT ![p] = [table[p] EXCEPT ![i] = e]] /\ p \in PtPages
    BY <1>3 DEF WriteEntry
  <2>2. table \in [PtPages -> [PtIdx -> Ptes]] /\ table[p] \in [PtIdx -> Ptes]
    BY <2>1 DEF TypeOK
  <2>3. QED BY <1>3, <2>1, <2>2 DEF WriteEntry
<1>4. mapped \in BOOLEAN /\ coded \in BOOLEAN
      /\ word \in [CodePages -> Words] /\ table \in [PtPages -> [PtIdx -> Ptes]]
  BY DEF TypeOK
<1>5. QED BY <1>1, <1>2, <1>3, <1>4 DEF Write

(* A step that leaves the TLB and what it depends on keeps its part.       *)
LEMMA TlbUntouched ==
  ASSUME TlbInv, UNCHANGED tlbVars,
         mapped' => mapped /\ UNCHANGED <<S, VM, ptbr, table>>
  PROVE  TlbInv'
<1>1. TlbTagsAgree'
  BY DEF TlbInv, TlbTagsAgree, TagArrays, tlbVars
<1>2. TlbCoherent'
  BY DEF TlbInv, TlbCoherent, tlbVars, Hit, TagArray, Paddr, Allowed, Walk
<1>3. QED BY <1>1, <1>2 DEF TlbInv

(* A step that leaves the icache and what it depends on keeps its part.    *)
LEMMA IcacheUntouched ==
  ASSUME IcacheInv, UNCHANGED <<icache, tracing>>,
         mapped' => mapped /\ UNCHANGED <<S, VM, ptbr, table>>,
         coded' => coded /\ UNCHANGED <<word, rv64>>
  PROVE  IcacheCoherent' /\ TracedUncached'
<1>1. IcacheCoherent'
  BY DEF IcacheInv, IcacheCoherent, Allowed, Walk
<1>2. TracedUncached'
  BY DEF IcacheInv, TracedUncached
<1>3. QED BY <1>1, <1>2

(* A fetch: an entry it fills holds what the walk leads to.                *)
LEMMA FetchKeeps ==
  ASSUME MmuInv, NEW vpn \in VPNs, Fetch(vpn)
  PROVE  MmuInv'
<1> USE DEF MmuInv
<1>1. UNCHANGED <<S, VM, ptbr, rv64, table, word, writes, tracing, mapped, coded>>
  BY DEF Fetch, modeVars, memVars
<1>2. CASE FetchHit(vpn)
  <2>1. UNCHANGED tlbVars /\ UNCHANGED icache
    BY <1>2 DEF FetchHit
  <2>2. TlbInv' /\ IcacheCoherent' /\ TracedUncached'
    BY <1>1, <2>1, TlbUntouched, IcacheUntouched
  <2>3. ~tracing
    BY <1>2, VpnFacts DEF FetchHit, IcacheInv, TracedUncached
  <2>4. QED BY <1>1, <1>2, <2>1, <2>2, <2>3
            DEF FetchHit, TypeOK, IcacheInv, EveryFetchTraced, tlbVars
<1>3. CASE FetchMiss(vpn)
  <2> DEFINE i == IcSlot(vpn)
             a == Paddr(vpn, "X")
             e == [tag |-> IF tracing THEN Invalid ELSE vpn, word |-> word[a],
                   rv64 |-> rv64]
  <2>1. /\ Translates(vpn, "X") /\ a \in CodePages /\ RefillTlb(vpn, "X")
        /\ icache' = [icache EXCEPT ![i] = e]
        /\ fetched' = IF tracing THEN "traced" ELSE "miss"
    BY <1>3 DEF FetchMiss
  <2>2. "X" \in Kinds /\ i \in IcIdx
    BY VpnFacts DEF Kinds
  <2>3. TlbInv'
    BY <1>1, <2>1, <2>2, RefillType, RefillCoherent DEF TlbInv
  <2>4. mapped => Allowed(Walk(vpn), "X") /\ a = Walk(vpn).ppn
    BY <2>1, <2>2 DEF TlbInv, TlbCoherent, Translates, Paddr
  <2>5. icache'[i] = e /\ \A j \in IcIdx : j # i => icache'[j] = icache[j]
    BY <2>1, <2>2 DEF TypeOK
  <2>6. word[a] \in Words
    BY <2>1 DEF TypeOK
  <2>7. TypeOK'
    <3>1. e \in [tag : VPNs \cup {Invalid}, word : Words, rv64 : BOOLEAN]
      BY <2>6 DEF TypeOK
    <3> HIDE DEF e
    <3>2. icache' \in [IcIdx -> [tag : VPNs \cup {Invalid}, word : Words,
                                 rv64 : BOOLEAN]]
      BY <2>1, <2>2, <3>1 DEF TypeOK
    <3>3. QED BY <1>1, <2>1, <2>2, <3>2, RefillType DEF TypeOK, TlbInv
  <2>8. IcacheCoherent'
    <3> SUFFICES ASSUME mapped, coded, NEW j \in IcIdx, icache'[j].tag # Invalid
                 PROVE  /\ Allowed(Walk(icache'[j].tag), "X")
                        /\ icache'[j].word = word[Walk(icache'[j].tag).ppn]
                        /\ icache'[j].rv64 = rv64
      BY <1>1 DEF IcacheCoherent, Walk, Allowed
    <3>1. CASE j = i
      BY <2>4, <2>5, <3>1
    <3>2. CASE j # i
      BY <2>5, <3>2 DEF IcacheInv, IcacheCoherent
    <3>3. QED BY <3>1, <3>2
  <2>9. TracedUncached' /\ EveryFetchTraced'
    BY <1>1, <2>1, <2>5 DEF IcacheInv, TracedUncached, EveryFetchTraced
  <2>10. QED BY <2>3, <2>7, <2>8, <2>9 DEF IcacheInv
<1>4. QED BY <1>2, <1>3 DEF Fetch

(* Loads and stores, by this hart or another.                              *)
LEMMA DataKeeps ==
  ASSUME MmuInv,
         (\E vpn \in VPNs : Load(vpn) \/ Store(vpn)) \/ (\E p \in Pages : OtherStore(p))
  PROVE  MmuInv'
<1> USE DEF MmuInv
<1>1. ASSUME NEW vpn \in VPNs, Load(vpn) PROVE MmuInv'
  <2>1. /\ UNCHANGED <<S, VM, ptbr, rv64, table, word, writes, tracing, mapped, coded>>
        /\ UNCHANGED <<icache, fetched>> /\ RefillTlb(vpn, "R") /\ "R" \in Kinds
    BY <1>1 DEF Load, modeVars, memVars, Kinds
  <2>2. TlbInv' /\ TypeOK'
    BY <2>1, RefillType, RefillCoherent DEF TlbInv, TypeOK
  <2>3. IcacheCoherent' /\ TracedUncached'
    BY <2>1, IcacheUntouched
  <2>4. QED BY <2>1, <2>2, <2>3 DEF IcacheInv, EveryFetchTraced
<1>2. ASSUME NEW vpn \in VPNs, Store(vpn) PROVE MmuInv'
  <2>1. /\ UNCHANGED <<S, VM, ptbr, rv64, tracing, icache, fetched>>
        /\ RefillTlb(vpn, "W") /\ Write(Paddr(vpn, "W")) /\ "W" \in Kinds
    BY <1>2 DEF Store, modeVars, Kinds
  <2>2. TypeOK' /\ TlbTagsAgree'
    BY <2>1, RefillType, WriteFacts DEF TlbInv, TypeOK
  <2>3. TlbCoherent'
    <3>1. CASE mapped'
      BY <2>1, <3>1, RefillCoherent, WriteFacts DEF TlbInv
    <3>2. CASE ~mapped'
      BY <3>2 DEF TlbCoherent
    <3>3. QED BY <3>1, <3>2
  <2>4. IcacheCoherent' /\ TracedUncached'
    BY <2>1, WriteFacts, IcacheUntouched
  <2>5. QED BY <2>1, <2>2, <2>3, <2>4 DEF IcacheInv, EveryFetchTraced, TlbInv
<1>3. ASSUME NEW p \in Pages, OtherStore(p) PROVE MmuInv'
  <2>1. /\ UNCHANGED <<S, VM, ptbr, rv64, tracing, icache, fetched>>
        /\ UNCHANGED tlbVars /\ Write(p)
    BY <1>3 DEF OtherStore, modeVars
  <2>2. TypeOK'
    BY <2>1, WriteFacts DEF TypeOK, tlbVars
  <2>3. TlbInv'
    BY <2>1, WriteFacts, TlbUntouched
  <2>4. IcacheCoherent' /\ TracedUncached'
    BY <2>1, WriteFacts, IcacheUntouched
  <2>5. QED BY <2>1, <2>2, <2>3, <2>4 DEF IcacheInv, EveryFetchTraced
<1>4. QED BY <1>1, <1>2, <1>3

(* Everything else: mode changes, faults, flushes, the address -1.         *)
LEMMA ControlKeeps ==
  ASSUME MmuInv, FetchMinusOne \/ (\E w \in BOOLEAN : Fault(w)) \/ ControlNext
  PROVE  MmuInv'
<1> USE DEF MmuInv
<1>1. ASSUME NEW s \in BOOLEAN, NEW vm \in BOOLEAN, NEW w \in BOOLEAN,
             SetStatus(s, vm, w)
      PROVE  MmuInv'
  BY <1>1, FlushFacts DEF SetStatus, TypeOK, memVars, IcacheInv, EveryFetchTraced
<1>2. CASE FetchMinusOne
  <2>1. /\ UNCHANGED <<S, VM, ptbr, rv64, table, word, writes, tracing, icache>>
        /\ UNCHANGED <<mapped, coded>> /\ UNCHANGED tlbVars /\ fetched' = "minus one"
    BY <1>2 DEF FetchMinusOne, modeVars, memVars
  <2>2. TlbInv' /\ IcacheCoherent' /\ TracedUncached'
    BY <2>1, TlbUntouched, IcacheUntouched
  <2>3. QED BY <2>1, <2>2 DEF TypeOK, tlbVars, IcacheInv, EveryFetchTraced
<1>3. CASE \E w \in BOOLEAN : Fault(w)
  BY <1>1, <1>3 DEF Fault, TypeOK
<1>4. CASE \E b \in PtPages : SetPtbr(b)
  <2>1. PICK b \in PtPages : SetPtbr(b)
    BY <1>4
  <2>2. /\ UNCHANGED <<S, VM, rv64, table, word, writes, tracing, icache, fetched>>
        /\ UNCHANGED coded /\ UNCHANGED tlbVars
        /\ ptbr' = b /\ mapped' = (mapped /\ b = ptbr)
    BY <2>1 DEF SetPtbr, memVars
  <2>3. mapped' => mapped /\ ptbr' = ptbr
    BY <2>2
  <2>4. mapped' \in BOOLEAN
    BY <2>2
  <2>5. ptbr' \in Nat
    BY <2>2
  <2>6. TlbInv' /\ IcacheCoherent' /\ TracedUncached'
    BY <2>2, <2>3, TlbUntouched, IcacheUntouched
  <2>7. QED BY <2>2, <2>4, <2>5, <2>6 DEF TypeOK, tlbVars, IcacheInv, EveryFetchTraced
<1>5. CASE Fatc
  BY <1>5, FlushFacts DEF Fatc, TypeOK, modeVars, memVars, IcacheInv, EveryFetchTraced
<1>6. CASE FenceI
  <2>1. /\ \A i \in IcIdx : icache'[i].tag = Invalid
        /\ icache' \in [IcIdx -> [tag : VPNs \cup {Invalid}, word : Words,
                                  rv64 : BOOLEAN]]
    BY <1>6 DEF FenceI, FlushIcache, TypeOK
  <2>2. IcacheCoherent' /\ TracedUncached'
    BY <2>1 DEF IcacheCoherent, TracedUncached
  <2>3. TlbInv'
    BY <1>6, TlbUntouched DEF FenceI, modeVars, memVars
  <2>4. QED BY <1>6, <2>1, <2>2, <2>3
            DEF FenceI, TypeOK, modeVars, memVars, tlbVars, IcacheInv, EveryFetchTraced
<1>7. CASE RegisterMemtracer
  BY <1>7, FlushFacts DEF RegisterMemtracer, TypeOK, modeVars, memVars, IcacheInv,
     EveryFetchTraced
<1>8. CASE Reset
  BY <1>8, FlushFacts DEF Reset, TypeOK, memVars, IcacheInv, EveryFetchTraced
<1>9. QED BY <1>1, <1>2, <1>3, <1>4, <1>5, <1>6, <1>7, <1>8 DEF ControlNext

(* The invariant holds at the start and is kept by every step.             *)
LEMMA MmuInvariant == Spec => []MmuInv
<1>1. Init => MmuInv
  <2> SUFFICES ASSUME Init PROVE MmuInv
    OBVIOUS
  <2>1. TypeOK
    <3>1. PICK w \in Words :
            icache = [i \in IcIdx |-> [tag |-> Invalid, word |-> w, rv64 |-> TRUE]]
      BY DEF Init
    <3>2. icache \in [IcIdx -> [tag : VPNs \cup {Invalid}, word : Words,
                                rv64 : BOOLEAN]]
      BY <3>1
    <3>3. table \in [PtPages -> [PtIdx -> Ptes]]
      BY DEF Init
    <3>4. 0 \in 0 .. MaxWrites /\ 0 \in Nat /\ 0 \in {d \in Int : d < MemPages}
      OBVIOUS
    <3>5. QED BY <3>2, <3>3, <3>4 DEF Init, TypeOK
  <2>2. TlbInv
    <3>1. \A v \in VPNs, k \in Kinds : ~Hit(v, k)
      BY VpnFacts DEF Init, Hit, TagArray, Kinds
    <3>2. QED BY <3>1 DEF Init, TlbInv, TlbTagsAgree, TagArrays, TlbCoherent
  <2>3. IcacheInv
    <3>1. \A i \in IcIdx : icache[i].tag = Invalid
      BY DEF Init
    <3>2. QED BY <3>1 DEF Init, IcacheInv, IcacheCoherent, TracedUncached,
                          EveryFetchTraced
  <2>4. QED BY <2>1, <2>2, <2>3 DEF MmuInv
<1>2. MmuInv /\ [Next]_vars => MmuInv'
  <2> SUFFICES ASSUME MmuInv, [Next]_vars PROVE MmuInv'
    OBVIOUS
  <2>1. CASE AccessNext
    BY <2>1, FetchKeeps, DataKeeps, ControlKeeps DEF AccessNext
  <2>2. CASE ControlNext
    BY <2>2, ControlKeeps
  <2>3. CASE UNCHANGED vars
    <3>1. UNCHANGED <<S, VM, ptbr, rv64, table, word, writes, tracing, icache,
                      fetched, mapped, coded>> /\ UNCHANGED tlbVars
      BY <2>3 DEF vars, modeVars, memVars
    <3>2. TlbInv' /\ IcacheCoherent' /\ TracedUncached'
      BY <3>1, TlbUntouched, IcacheUntouched DEF MmuInv
    <3>3. QED BY <3>1, <3>2 DEF MmuInv, TypeOK, tlbVars, IcacheInv, EveryFetchTraced
  <2>4. QED BY <2>1, <2>2, <2>3 DEF Next
<1>3. QED BY <1>1, <1>2, PTL DEF Spec

(* Whatever the tables hold, the state stays well typed; the offset cached  *)
(* by refill_tlb is that of a page which the range check of the walk let    *)
(* pass.                                                                   *)
THEOREM MmuTypes == Spec => []TypeOK
<1>1. MmuInv => TypeOK
  BY DEF MmuInv
<1>2. QED BY <1>1, MmuInvariant, PTL

(* The TLB is invisible to software that flushes it after changing ptbr or *)
(* a page table, and its three tag arrays never disagree about a slot.     *)
THEOREM TlbInvisible == Spec => [](TlbTagsAgree /\ TlbCoherent)
<1>1. MmuInv => TlbTagsAgree /\ TlbCoherent
  BY DEF MmuInv, TlbInv
<1>2. QED BY <1>1, MmuInvariant, PTL

(* So is the icache, if code is fenced as well: a hit is the instruction a *)
(* fetch would find, decoded for the current width.                        *)
THEOREM IcacheInvisible == Spec => []IcacheCoherent
<1>1. MmuInv => IcacheCoherent
  BY DEF MmuInv, IcacheInv
<1>2. QED BY <1>1, MmuInvariant, PTL

(* No fetch bypasses an instruction cache model that is attached.          *)
THEOREM TracerSeesEveryFetch == Spec => []EveryFetchTraced
<1>1. MmuInv => EveryFetchTraced
  BY DEF MmuInv, IcacheInv
<1>2. QED BY <1>1, MmuInvariant, PTL
=============================================================================
