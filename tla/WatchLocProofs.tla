--------------------------- MODULE WatchLocProofs ---------------------------
(***************************************************************************)
(* WatchLoc for every size of the ring, every program and every sequence   *)
(* of commands: when lists the stores in order.                            *)
(***************************************************************************)
EXTENDS WatchLoc, TLAPS

USE RingAssumption, PCsAssumption, BoundsAssumption

(* Two quotients and remainders of the same number are equal.              *)
LEMMA DivisionUnique ==
  ASSUME NEW p \in Int, NEW q \in Int, NEW r \in Idx, NEW s \in Idx,
         RING * p + r = RING * q + s
  PROVE  r = s
<1>0. r \in 0 .. RING - 1 /\ s \in 0 .. RING - 1
  BY DEF Idx
<1>1. CASE p < q
  <2>1. q - p \in Nat /\ q - p >= 1 /\ RING * (q - p) = r - s
    BY <1>0, <1>1
  <2>2. RING * (q - p) >= RING
    BY <2>1
  <2>3. QED BY <1>0, <2>1, <2>2
<1>2. CASE q < p
  <2>1. p - q \in Nat /\ p - q >= 1 /\ RING * (p - q) = s - r
    BY <1>0, <1>2
  <2>2. RING * (p - q) >= RING
    BY <2>1
  <2>3. QED BY <1>0, <2>1, <2>2
<1>3. CASE p = q
  BY <1>0, <1>3
<1>4. QED BY <1>1, <1>2, <1>3

(* The ring's arithmetic: an index is its own remainder, once around or    *)
(* not.                                                                    *)
LEMMA Around ==
  ASSUME NEW x \in Idx
  PROVE  x % RING = x /\ (RING + x) % RING = x
<1>0. x \in Int /\ RING + x \in Int /\ RING \in Nat \ {0}
  BY DEF Idx
<1>1. ASSUME NEW a \in Int, NEW p \in Int, a = RING * p + x PROVE a % RING = x
  <2>1. a = RING * (a \div RING) + (a % RING) /\ a \div RING \in Int /\ a % RING \in Idx
    BY <1>0, <1>1 DEF Idx
  <2>2. ASSUME NEW q \in Int, NEW r \in Idx, a = RING * q + r PROVE r = x
    <3>1. RING * q + r = RING * p + x
      BY <1>1, <2>2
    <3>2. QED BY <3>1, DivisionUnique
  <2>3. QED BY <2>1, <2>2
<1>2. x = RING * 0 + x /\ RING + x = RING * 1 + x
  BY <1>0
<1>3. x % RING = x
  BY <1>0, <1>1, <1>2
<1>4. (RING + x) % RING = x
  BY <1>0, <1>1, <1>2
<1>5. QED BY <1>3, <1>4

(* The entry n before entry e of the ring.                                 *)
Back(e, n) == IF n <= e THEN e - n ELSE RING + e - n

(* get_nth_recent_access computes it, in all three of its cases.           *)
LEMMA NthIdxIsBack ==
  ASSUME last_access \in Idx, NEW n \in Idx PROVE NthIdx(n) = Back(last_access, n)
<1>0. last_access \in 0 .. RING - 1 /\ n \in 0 .. RING - 1
  BY DEF Idx
<1>1. CASE last_access - n < 0
  <2>1. RING + last_access - n \in Idx
        /\ (RING - 1) - n + last_access + 1 = RING + last_access - n
    BY <1>0, <1>1 DEF Idx
  <2>2. NthIdx(n) = RING + last_access - n
    BY <1>1, <2>1, Around DEF NthIdx
  <2>3. QED BY <1>0, <1>1, <2>2 DEF Back
<1>2. CASE ~(last_access - n < 0) /\ n < last_access - n
  <2>1. last_access - n \in Idx
        /\ (RING - 1) - n + last_access + 1 = RING + (last_access - n)
    BY <1>0, <1>2 DEF Idx
  <2>2. NthIdx(n) = last_access - n
    BY <1>2, <2>1, Around DEF NthIdx
  <2>3. QED BY <1>0, <1>2, <2>2 DEF Back
<1>3. CASE ~(last_access - n < 0) /\ ~(n < last_access - n)
  BY <1>0, <1>3 DEF NthIdx, Back
<1>4. QED BY <1>1, <1>2, <1>3

(* After a store, the entry n + 1 back is the one that was n back, and is  *)
(* not the one just written.                                               *)
LEMMA BumpShifts ==
  ASSUME last_access \in Idx
  PROVE  /\ Bumped \in Idx
         /\ Back(Bumped, 0) = Bumped
         /\ \A n \in Idx : n > 0 => /\ n - 1 \in Idx
                                    /\ Back(Bumped, n) = Back(last_access, n - 1)
                                    /\ Back(Bumped, n) # Bumped
                                    /\ Back(Bumped, n) \in Idx
<1>0. last_access \in 0 .. RING - 1
  BY DEF Idx
<1>1. CASE last_access + 1 < RING
  <2>1. last_access + 1 \in Idx
    BY <1>0, <1>1 DEF Idx
  <2>2. Bumped = last_access + 1
    BY <2>1, Around DEF Bumped
  <2>3. QED BY <1>0, <1>1, <2>2 DEF Back, Idx
<1>2. CASE last_access = RING - 1
  <2>1. 0 \in Idx /\ last_access + 1 = RING + 0
    BY <1>0, <1>2 DEF Idx
  <2>2. Bumped = 0
    BY <2>1, Around DEF Bumped
  <2>3. QED BY <1>0, <1>2, <2>2 DEF Back, Idx
<1>3. QED BY <1>0, <1>1, <1>2

-----------------------------------------------------------------------------
(* The inductive invariant: what the variables hold, where a step stands   *)
(* (until its first instruction is done, state.pc is the pc), and the ring *)
(* against the log.                                                        *)
Stores == [pc : PCs, first : BOOLEAN]
RingTypes ==
  /\ last_access \in Idx
  /\ last_accesses \in [Idx -> PCs \cup {0}]
  /\ pc \in PCs /\ lpc \in PCs /\ left \in Nat /\ begun \in BOOLEAN
  /\ log \in Seq(Stores)
PcCurrent ==
  /\ ~begun => lpc = pc
  /\ left = 0 => ~begun
RingHolds ==
  \A n \in Idx : n < Len(log) /\ log[Len(log) - n].first
                   => last_accesses[Back(last_access, n)] = log[Len(log) - n].pc
RingInv == RingTypes /\ PcCurrent /\ (watched => RingHolds)

(* access: the new entry is the latest, all others are one further back.   *)
LEMMA AccessStep ==
  ASSUME RingTypes, ~begun => lpc = pc, NEW a, Access(a)
  PROVE  /\ last_access' \in Idx /\ last_accesses' \in [Idx -> PCs \cup {0}]
         /\ log' \in Seq(Stores)
         /\ RingHolds => RingHolds'
<1>1. CASE a # addr
  <2>1. UNCHANGED <<last_access, last_accesses, log>>
    BY <1>1 DEF Access
  <2>2. QED BY <2>1 DEF RingTypes, RingHolds, Back
<1>2. CASE a = addr
  <2> DEFINE e == [pc |-> lpc, first |-> ~begun]
  <2>1. /\ last_access' = Bumped /\ log' = Append(log, e)
        /\ last_accesses' = [last_accesses EXCEPT ![Bumped] = pc]
    BY <1>2 DEF Access
  <2>2. e \in Stores
    <3>1. lpc \in PCs /\ (~begun) \in BOOLEAN
      BY DEF RingTypes
    <3>2. QED BY <3>1 DEF Stores
  <2>3. e.pc = lpc /\ (e.first => ~begun)
    BY DEF RingTypes
  <2> HIDE DEF e
  <2>4. log \in Seq(Stores) /\ last_access \in Idx /\ pc \in PCs
        /\ last_accesses \in [Idx -> PCs \cup {0}]
    BY DEF RingTypes
  <2>5. /\ Len(log) \in Nat /\ Len(log') = Len(log) + 1 /\ log' \in Seq(Stores)
        /\ log'[Len(log) + 1] = e
        /\ \A k \in 1 .. Len(log) : log'[k] = log[k]
    BY <2>1, <2>2, <2>4
  <2>6. /\ Bumped \in Idx /\ Back(Bumped, 0) = Bumped
        /\ \A n \in Idx : n > 0 => /\ n - 1 \in Idx
                                   /\ Back(Bumped, n) = Back(last_access, n - 1)
                                   /\ Back(Bumped, n) # Bumped
                                   /\ Back(Bumped, n) \in Idx
    BY <2>4, BumpShifts
  <2>7. last_access' \in Idx /\ last_accesses' \in [Idx -> PCs \cup {0}]
    BY <2>1, <2>4, <2>6
  <2>8. ASSUME RingHolds PROVE RingHolds'
    <3> SUFFICES ASSUME NEW n \in Idx, n < Len(log'), log'[Len(log') - n].first
                 PROVE  last_accesses'[Back(last_access', n)] = log'[Len(log') - n].pc
      BY DEF RingHolds, Back
    <3>1. CASE n = 0
      <4>1. log'[Len(log') - n] = e
        BY <2>5, <3>1
      <4>2. lpc = pc
        BY <2>3, <4>1
      <4>3. last_accesses'[Bumped] = pc
        BY <2>1, <2>4, <2>6
      <4>4. QED BY <2>1, <2>3, <2>6, <3>1, <4>1, <4>2, <4>3
    <3>2. CASE n > 0
      <4>1. n - 1 \in Idx /\ Back(Bumped, n) = Back(last_access, n - 1)
            /\ Back(Bumped, n) # Bumped /\ Back(Bumped, n) \in Idx
        BY <2>6, <3>2
      <4>2. /\ n \in Nat /\ Len(log') - n = Len(log) - (n - 1)
            /\ Len(log) - (n - 1) \in 1 .. Len(log) /\ n - 1 < Len(log)
        BY <2>5, <3>2 DEF Idx
      <4>3. log'[Len(log') - n] = log[Len(log) - (n - 1)]
        BY <2>5, <4>2
      <4>4. last_accesses[Back(last_access, n - 1)] = log[Len(log) - (n - 1)].pc
        BY <2>8, <4>1, <4>2, <4>3 DEF RingHolds
      <4>5. last_accesses'[Back(Bumped, n)] = last_accesses[Back(Bumped, n)]
        BY <2>1, <2>4, <2>6, <4>1
      <4>6. QED BY <2>1, <4>1, <4>3, <4>4, <4>5
    <3>3. QED BY <3>1, <3>2 DEF Idx
  <2>9. QED BY <2>5, <2>7, <2>8
<1>3. QED BY <1>1, <1>2

(* The pc at the end of an instruction or of a step.                       *)
LEMMA AdvanceStep ==
  ASSUME RingTypes, NEW npc \in PCs, Advance(npc) \/ Abandon(npc)
  PROVE  /\ pc' \in PCs /\ lpc' \in PCs /\ left' \in Nat /\ begun' \in BOOLEAN
         /\ PcCurrent'
<1>0. left \in Nat /\ left > 0 /\ pc \in PCs
  BY DEF RingTypes, Advance, Abandon
<1>1. CASE Abandon(npc)
  <2>1. left' = 0 /\ lpc' = npc /\ pc' = npc
    BY <1>1 DEF Abandon
  <2>2. ~begun' /\ begun' \in BOOLEAN
    BY <1>1 DEF Abandon
  <2>3. QED BY <2>1, <2>2 DEF PcCurrent
<1>2. CASE Advance(npc)
  <2>1. left' = left - 1 /\ lpc' = npc /\ pc' = IF left = 1 THEN npc ELSE pc
    BY <1>2 DEF Advance
  <2>2. begun' = (left > 1)
    BY <1>2 DEF Advance
  <2>3. begun' \in BOOLEAN
    BY <2>2
  <2>4. begun' <=> left > 1
    BY <2>2, Zenon
  <2>5. left' \in Nat /\ pc' \in PCs /\ (left' = 0 <=> left = 1) /\ (left > 1 <=> left # 1)
    BY <1>0, <2>1
  <2>6. QED BY <2>1, <2>3, <2>4, <2>5 DEF PcCurrent
<1>3. QED BY <1>1, <1>2

(* when lists the stores to the watched address, latest first, for every   *)
(* ring size and any sequence of steps, faults and prompt commands.        *)
THEOREM WhenCorrect == Spec => []WhenInOrder
<1>1. Init => RingInv
  <2> SUFFICES ASSUME Init PROVE RingInv
    OBVIOUS
  <2>1. RingTypes
    <3>1. begun = FALSE /\ log = <<>>
      BY DEF Init
    <3>2. begun \in BOOLEAN
      BY <3>1
    <3>3. log \in Seq(Stores)
      BY <3>1
    <3>4. QED BY <3>2, <3>3 DEF Init, RingTypes
  <2>2. PcCurrent
    BY DEF Init, PcCurrent
  <2>3. ~watched
    BY DEF Init
  <2>4. QED BY <2>1, <2>2, <2>3 DEF RingInv
<1>2. RingInv /\ [Next]_vars => RingInv'
  <2> SUFFICES ASSUME RingInv, [Next]_vars PROVE RingInv'
    OBVIOUS
  <2>0. RingTypes /\ PcCurrent /\ (watched => RingHolds)
    BY DEF RingInv
  <2>1. ASSUME UNCHANGED <<last_access, last_accesses, log>> PROVE RingHolds => RingHolds'
    BY <2>1 DEF RingHolds, Back
  <2>2. ASSUME NEW n \in 1 .. MaxBurst, StepEnter(n) PROVE RingInv'
    <3>1. /\ left' = n /\ lpc' = pc
          /\ UNCHANGED <<last_access, last_accesses, pc, log, watched>>
      BY <2>2 DEF StepEnter
    <3>2. ~begun' /\ begun' \in BOOLEAN
      BY <2>2 DEF StepEnter
    <3>3. RingTypes'
      BY <2>0, <3>1, <3>2 DEF RingTypes
    <3>4. PcCurrent'
      BY <3>1, <3>2 DEF PcCurrent
    <3>5. QED BY <2>0, <2>1, <3>1, <3>3, <3>4 DEF RingInv
  <2>3. ASSUME NEW npc \in PCs, Other(npc) PROVE RingInv'
    <3>1. Advance(npc) /\ UNCHANGED <<last_access, last_accesses, log, watched>>
      BY <2>3 DEF Other
    <3>2. /\ pc' \in PCs /\ lpc' \in PCs /\ left' \in Nat /\ begun' \in BOOLEAN
          /\ PcCurrent'
      BY <2>0, <3>1, AdvanceStep
    <3>3. RingTypes'
      BY <2>0, <3>1, <3>2 DEF RingTypes
    <3>4. QED BY <2>0, <2>1, <3>1, <3>2, <3>3 DEF RingInv
  <2>4. ASSUME NEW a, NEW npc \in PCs, Store(a, npc) \/ StoreFaults(a, npc)
        PROVE  RingInv'
    <3>1. Access(a) /\ (Advance(npc) \/ Abandon(npc)) /\ UNCHANGED watched
      BY <2>4 DEF Store, StoreFaults
    <3>2. /\ last_access' \in Idx /\ last_accesses' \in [Idx -> PCs \cup {0}]
          /\ log' \in Seq(Stores) /\ (RingHolds => RingHolds')
      BY <2>0, <3>1, AccessStep DEF PcCurrent
    <3>3. /\ pc' \in PCs /\ lpc' \in PCs /\ left' \in Nat /\ begun' \in BOOLEAN
          /\ PcCurrent'
      BY <2>0, <3>1, AdvanceStep
    <3>4. QED BY <2>0, <3>1, <3>2, <3>3 DEF RingInv, RingTypes
  <2>5. ASSUME NEW a, PromptWrite(a) PROVE RingInv'
    <3>1. Access(a) /\ UNCHANGED <<pc, lpc, left, begun, watched>>
      BY <2>5 DEF PromptWrite
    <3>2. /\ last_access' \in Idx /\ last_accesses' \in [Idx -> PCs \cup {0}]
          /\ log' \in Seq(Stores) /\ (RingHolds => RingHolds')
      BY <2>0, <3>1, AccessStep DEF PcCurrent
    <3>3. QED BY <2>0, <3>1, <3>2 DEF RingInv, RingTypes, PcCurrent
  <2>6. ASSUME NEW a, Watch(a) PROVE RingInv'
    <3>1. /\ last_access' = 0 /\ log' = <<>>
          /\ last_accesses' = [i \in Idx |-> IF i < CLEARED THEN 0 ELSE last_accesses[i]]
          /\ UNCHANGED <<pc, lpc, left, begun>>
      BY <2>6 DEF Watch
    <3>2. last_access' \in Idx /\ log' \in Seq(Stores) /\ Len(log') = 0
      BY <3>1 DEF Idx
    <3>3. last_accesses' \in [Idx -> PCs \cup {0}]
      BY <2>0, <3>1 DEF RingTypes
    <3>4. RingHolds'
      BY <3>2 DEF RingHolds, Idx
    <3>5. QED BY <2>0, <3>1, <3>2, <3>3, <3>4 DEF RingInv, RingTypes, PcCurrent
  <2>7. CASE UNCHANGED vars
    BY <2>0, <2>1, <2>7 DEF vars, RingInv, RingTypes, PcCurrent
  <2>8. QED BY <2>2, <2>3, <2>4, <2>5, <2>6, <2>7 DEF Next
<1>3. RingInv => WhenInOrder
  <2> SUFFICES ASSUME RingInv, watched, NEW i \in Idx, i < Len(log),
                      log[Len(log) - i].first
               PROVE  GetNth(i) = log[Len(log) - i].pc
    BY DEF WhenInOrder
  <2>1. i % RING = i /\ last_access \in Idx
    BY Around DEF RingInv, RingTypes
  <2>2. GetNth(i) = last_accesses[Back(last_access, i)]
    BY <2>1, NthIdxIsBack DEF GetNth
  <2>3. QED BY <2>2 DEF RingInv, RingHolds
<1>4. QED BY <1>1, <1>2, <1>3, PTL DEF Spec

=============================================================================
