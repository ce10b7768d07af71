--------------------------- MODULE CacheSimProofs ---------------------------
(* CacheSim, for every hierarchy, geometry and sequence of accesses: types, *)
(* that no line is ever in two ways, that a reset forgets, that the        *)
(* statistics of the levels add up and, where lines nest, that no stored   *)
(* data is lost on the way to memory.                                      *)
EXTENDS CacheSim, SequenceTheorems, FunctionTheorems, FiniteSetTheorems, TLAPS

(* Every line sits in the set its tag selects.                             *)
InOwnSet ==
  \A c \in Caches : \A s \in Slots(c) :
    tags[c][s] # Empty => s[1] = tags[c][s].tag % Sets[c]

(* No two ways hold the same tag.                                          *)
NoTwin ==
  \A c \in Caches : \A s, t \in Slots(c) :
    tags[c][s] # Empty /\ tags[c][t] # Empty /\ tags[c][s].tag = tags[c][t].tag
      => s = t

CacheInv == TypeOK /\ InOwnSet /\ NoTwin

(* An address is a tag, in units and in lines: the arithmetic of check_tag *)
(* and victimize stays within the naturals, the set index within the sets. *)
LEMMA TagTypes ==
  ASSUME NEW c \in Caches, NEW a \in Nat
  PROVE  /\ Unit(c, a) \in Nat
         /\ TagOf(c, Unit(c, a)) \in Nat
         /\ Idx(c, Unit(c, a)) \in SetIdx(c)
         /\ FillAddr(c, Unit(c, a)) \in Nat
<1> USE GeometryAssumption DEF Positive
<1>1. Unit(c, a) \in Nat
  BY DEF Unit
<1>2. TagOf(c, Unit(c, a)) \in Nat
  BY <1>1, GranuleAssumption DEF TagOf
<1>3. Idx(c, Unit(c, a)) \in SetIdx(c)
  BY <1>2 DEF Idx, SetIdx
<1>4. FillAddr(c, Unit(c, a)) \in Nat
  BY <1>1 DEF FillAddr
<1>5. QED
  BY <1>1, <1>2, <1>3, <1>4

(* The counters of a call stay natural numbers.                            *)
LEMMA CounterTypes ==
  ASSUME NEW k \in Counters, NEW b \in Nat, NEW st \in BOOLEAN, NEW wb \in BOOLEAN
  PROVE  Count(k, st, b) \in Counters /\ CountMiss(k, st, wb) \in Counters
<1>1. Count(k, st, b) \in Counters
  <2> DEFINE w == [k EXCEPT !.write_accesses = @ + 1]
             r == [k EXCEPT !.read_accesses = @ + 1]
  <2>1. w \in Counters /\ r \in Counters
    BY DEF Counters
  <2>2. [w EXCEPT !.bytes_written = @ + b] \in Counters
        /\ [r EXCEPT !.bytes_read = @ + b] \in Counters
    <3> HIDE DEF w, r
    <3> QED BY <2>1 DEF Counters
  <2>3. QED
    BY <2>2 DEF Count
<1> DEFINE m == IF st THEN [k EXCEPT !.write_misses = @ + 1]
                      ELSE [k EXCEPT !.read_misses = @ + 1]
<1>2. m \in Counters
  BY DEF Counters
<1>3. [m EXCEPT !.writebacks = @ + 1] \in Counters
  <2> HIDE DEF m
  <2> QED BY <1>2 DEF Counters
<1>4. QED
  BY <1>1, <1>2, <1>3 DEF CountMiss

(* A tag cache counts an eighth of the bytes, rounded up.                  *)
LEMMA BytesType ==
  ASSUME NEW c \in Caches, NEW b \in Nat
  PROVE  UnitBytes(c, b) \in Nat
BY GeometryAssumption DEF UnitBytes

(* The calls of a miss go to caches of the hierarchy.                      *)
LEMMA CallTypes ==
  ASSUME NEW c \in Caches, NEW a \in Nat, NEW v \in Line \cup {Empty}
  PROVE  /\ CallsOfMiss(c, Unit(c, a), v) \in Seq(Calls)
         /\ WriteBacks(c, v) \in Seq(Calls) /\ Fills(c, Unit(c, a)) \in Seq(Calls)
<1> USE DEF Positive
<1> DEFINE h == Handlers[c]
<1>1. LineSz[c] \in Nat /\ h \in Seq(Caches) /\ Len(h) \in Nat
      /\ \A i \in 1 .. Len(h) : h[i] \in Caches
  BY GeometryAssumption, HandlersAssumption, ElementOfSeq, LenProperties
<1>2. Fills(c, Unit(c, a)) \in Seq(Calls)
  <2>1. \A i \in 1 .. Len(Handlers[c]) :
          Call(Handlers[c][i], FillAddr(c, Unit(c, a)), LineSz[c], FALSE) \in Calls
    BY <1>1, TagTypes DEF Call, Calls
  <2>2. Fills(c, Unit(c, a)) \in [1 .. Len(h) -> Calls]
    BY <2>1 DEF Fills
  <2>3. QED
    BY <1>1, <2>2, SeqDef
<1>3. WriteBacks(c, v) \in Seq(Calls)
  <2>1. CASE IsDirty(v)
    <3>1. DirtyAddr(c, v) \in Nat
      BY <2>1, GranuleAssumption DEF DirtyAddr, IsDirty, Line
    <3>2. \A i \in 1 .. Len(Handlers[c]) :
            Call(Handlers[c][i], DirtyAddr(c, v), LineSz[c], TRUE) \in Calls
      BY <1>1, <3>1 DEF Call, Calls
    <3>3. WriteBacks(c, v) \in [1 .. Len(h) -> Calls]
      BY <2>1, <3>2 DEF WriteBacks
    <3>4. QED
      BY <1>1, <3>3, SeqDef
  <2>2. CASE ~IsDirty(v)
    BY <2>2 DEF WriteBacks
  <2>3. QED
    BY <2>1, <2>2
<1>4. QED
  BY <1>2, <1>3 DEF CallsOfMiss

(* Empty caches.                                                           *)
LEMMA CacheInit == Init => CacheInv
<1> SUFFICES ASSUME Init PROVE CacheInv
  OBVIOUS
<1> USE DEF Init
<1>1. TypeOK
  BY DEF TypeOK, Counters, Zero, Calls
<1>2. InOwnSet /\ NoTwin
  BY DEF InOwnSet, NoTwin
<1>3. QED
  BY <1>1, <1>2 DEF CacheInv

(* A traced access only puts a call on the stack.                          *)
LEMMA TraceStep ==
  ASSUME CacheInv, NEW c \in Caches, NEW a \in Addrs, NEW store \in BOOLEAN,
         Trace(c, a, store)
  PROVE  CacheInv'
<1> USE DEF CacheInv, Trace
<1>1. Call(c, a, Bytes, store) \in Calls
  BY AddrsAssumption DEF Call, Calls, Positive
<1>2. TypeOK'
  <2>1. stack' \in Seq(Calls)
    BY <1>1
  <2>2. asked' \in [Caches -> [reads : Nat, writes : Nat]]
    <3>1. asked[c] \in [reads : Nat, writes : Nat]
      BY DEF TypeOK
    <3>2. Noted(asked[c], store) \in [reads : Nat, writes : Nat]
      BY <3>1 DEF Noted
    <3>3. QED
      BY <3>2 DEF TypeOK
  <2>3. QED
    BY <2>1, <2>2 DEF TypeOK
<1>3. InOwnSet' /\ NoTwin'
  BY DEF InOwnSet, NoTwin
<1>4. QED
  BY <1>2, <1>3

(* A call on the stack is one of the hierarchy.                            *)
LEMMA CallsInHierarchy ==
  ASSUME CacheInv, stack # <<>>
  PROVE  Head(stack) \in Calls /\ Head(stack).cache \in Caches /\ Tail(stack) \in Seq(Calls)
<1>1. stack \in Seq(Calls)
  BY DEF CacheInv, TypeOK
<1>2. Head(stack) \in Calls /\ Tail(stack) \in Seq(Calls)
  BY <1>1, HeadTailProperties
<1>3. QED
  BY <1>2 DEF Calls

(* A hit changes at most the dirty bit of a line that is there.            *)
LEMMA HitKeepsTags ==
  ASSUME CacheInv, Hit
  PROVE  /\ DOMAIN tags' = Caches
         /\ \A d \in Caches : tags'[d] \in [Slots(d) -> Line \cup {Empty}]
         /\ \A d \in Caches : \A t \in Slots(d) :
              /\ tags'[d][t] = Empty <=> tags[d][t] = Empty
              /\ tags[d][t] # Empty => tags'[d][t].tag = tags[d][t].tag
<1> DEFINE call == Head(stack)
           c == call.cache
           u == Unit(c, call.addr)
<1>1. c \in Caches
  BY CallsInHierarchy DEF Hit
<1>2. PICK s \in CheckTag(c, u) :
        tags' = IF call.store THEN [tags EXCEPT ![c][s].dirty = TRUE] ELSE tags
  BY DEF Hit
<1>3. s \in Slots(c) /\ tags[c][s] \in Line
  BY <1>1, <1>2 DEF CheckTag, Matches, CacheInv, TypeOK
<1>4. CASE ~call.store
  BY <1>2, <1>4 DEF CacheInv, TypeOK
<1>5. CASE call.store
  <2>1. tags' = [tags EXCEPT ![c] = [tags[c] EXCEPT ![s] =
                   [tags[c][s] EXCEPT !.dirty = TRUE]]]
    BY <1>2, <1>5
  <2>2. [tags[c][s] EXCEPT !.dirty = TRUE] \in Line
    BY <1>3 DEF Line
  <2>3. /\ [tags[c][s] EXCEPT !.dirty = TRUE].tag = tags[c][s].tag
        /\ [tags[c][s] EXCEPT !.dirty = TRUE] # Empty
        /\ tags[c][s] # Empty
    BY <1>3 DEF Line, Empty
  <2>4. DOMAIN tags = Caches /\ \A d \in Caches : tags[d] \in [Slots(d) -> Line \cup {Empty}]
    BY DEF CacheInv, TypeOK
  <2> HIDE DEF c
  <2>5. QED
    BY <1>1, <1>3, <2>1, <2>2, <2>3, <2>4
<1>6. QED
  BY <1>4, <1>5

(* A hit keeps the invariant: no tag changes.                              *)
LEMMA HitStep ==
  ASSUME CacheInv, Hit
  PROVE  CacheInv'
<1> DEFINE call == Head(stack)
           c == call.cache
<1>1. call \in Calls /\ c \in Caches /\ Tail(stack) \in Seq(Calls)
  BY CallsInHierarchy DEF Hit
<1>2. /\ DOMAIN tags' = Caches
      /\ \A d \in Caches : tags'[d] \in [Slots(d) -> Line \cup {Empty}]
      /\ \A d \in Caches : \A t \in Slots(d) :
           /\ tags'[d][t] = Empty <=> tags[d][t] = Empty
           /\ tags[d][t] # Empty => tags'[d][t].tag = tags[d][t].tag
  BY HitKeepsTags
<1>3. stats' \in [Caches -> Counters]
  <2>1. stats[c] \in Counters /\ call.store \in BOOLEAN /\ UnitBytes(c, call.bytes) \in Nat
    BY <1>1, BytesType DEF CacheInv, TypeOK, Calls
  <2>2. Count(stats[c], call.store, UnitBytes(c, call.bytes)) \in Counters
    BY <2>1, CounterTypes
  <2>3. QED
    BY <1>1, <2>2 DEF Hit, CacheInv, TypeOK
<1>4. TypeOK'
  BY <1>1, <1>2, <1>3 DEF Hit, CacheInv, TypeOK
<1>5. InOwnSet' /\ NoTwin'
  BY <1>2 DEF CacheInv, InOwnSet, NoTwin
<1>6. QED
  BY <1>4, <1>5 DEF CacheInv

(* A miss writes one way of the set its address selects, and no other.     *)
LEMMA MissWrites ==
  ASSUME CacheInv, Miss
  PROVE  LET call == Head(stack)
             c == call.cache
             u == Unit(c, call.addr)
             line == [tag |-> TagOf(c, u), dirty |-> call.store]
         IN  \E s \in Slots(c) :
               /\ s[1] = Idx(c, u) /\ MissAt(c, u, s, call)
               /\ DOMAIN tags' = Caches
               /\ \A d \in Caches : tags'[d] \in [Slots(d) -> Line \cup {Empty}]
               /\ tags'[c][s] = line /\ line \in Line /\ line # Empty
               /\ \A d \in Caches : \A t \in Slots(d) :
                    (d # c \/ t # s) => tags'[d][t] = tags[d][t]
<1> DEFINE call == Head(stack)
           c == call.cache
           u == Unit(c, call.addr)
           line == [tag |-> TagOf(c, u), dirty |-> call.store]
<1>1. call \in Calls /\ c \in Caches
  BY CallsInHierarchy DEF Miss
<1>2. call.addr \in Nat /\ call.store \in BOOLEAN
  BY <1>1 DEF Calls
<1>3. TagOf(c, u) \in Nat /\ Idx(c, u) \in SetIdx(c)
  BY <1>1, <1>2, TagTypes
<1>4. PICK s \in Victims(c, u) : MissAt(c, u, s, call)
  BY DEF Miss
<1>5. s \in Slots(c) /\ s[1] = Idx(c, u)
  <2>1. CASE FullyAssociative(c) /\ Free(c) # {}
    <3>1. s \in Free(c)
      BY <1>4, <2>1 DEF Victims
    <3>2. s \in Slots(c) /\ s[1] \in SetIdx(c)
      BY <3>1 DEF Free, Slots
    <3>3. Sets[c] = 1
      BY <2>1 DEF FullyAssociative
    <3>4. QED
      BY <1>3, <3>2, <3>3 DEF SetIdx
  <2>2. CASE ~(FullyAssociative(c) /\ Free(c) # {})
    BY <1>4, <2>2 DEF Victims, SetOf
  <2>3. QED
    BY <2>1, <2>2
<1>6. line \in Line /\ line # Empty
  BY <1>2, <1>3 DEF Line, Empty
<1>7. DOMAIN tags = Caches /\ \A d \in Caches : tags[d] \in [Slots(d) -> Line \cup {Empty}]
  BY DEF CacheInv, TypeOK
<1>8. tags' = [tags EXCEPT ![c] = [tags[c] EXCEPT ![s] = line]]
  BY <1>4 DEF MissAt
<1>9. /\ DOMAIN tags' = Caches
      /\ \A d \in Caches : tags'[d] \in [Slots(d) -> Line \cup {Empty}]
      /\ tags'[c][s] = line
      /\ \A d \in Caches : \A t \in Slots(d) :
           (d # c \/ t # s) => tags'[d][t] = tags[d][t]
  <2> HIDE DEF c, line
  <2> QED
    BY <1>1, <1>5, <1>6, <1>7, <1>8
<1>10. QED
  BY <1>4, <1>5, <1>6, <1>9

(* A miss brings in a line that no way of its set held; the other sets     *)
(* cannot hold it.                                                         *)
LEMMA MissStep ==
  ASSUME CacheInv, Miss
  PROVE  CacheInv'
<1> DEFINE call == Head(stack)
           c == call.cache
           u == Unit(c, call.addr)
           new == [tag |-> TagOf(c, u), dirty |-> call.store]
<1>1. call \in Calls /\ c \in Caches /\ Tail(stack) \in Seq(Calls)
  BY CallsInHierarchy DEF Miss
<1>2. call.addr \in Nat /\ call.store \in BOOLEAN /\ call.bytes \in Nat
  BY <1>1 DEF Calls
<1>3. TagOf(c, u) \in Nat /\ Idx(c, u) \in SetIdx(c) /\ u \in Nat
  BY <1>1, <1>2, TagTypes
<1>4. PICK s \in Slots(c) :
        /\ s[1] = Idx(c, u) /\ MissAt(c, u, s, call)
        /\ DOMAIN tags' = Caches
        /\ \A d \in Caches : tags'[d] \in [Slots(d) -> Line \cup {Empty}]
        /\ tags'[c][s] = new /\ new \in Line /\ new # Empty
        /\ \A d \in Caches : \A t \in Slots(d) :
             (d # c \/ t # s) => tags'[d][t] = tags[d][t]
  BY MissWrites
<1>5. s \in Slots(c) /\ s[1] = Idx(c, u)
  BY <1>4
<1>6. tags[c][s] \in Line \cup {Empty}
  BY <1>1, <1>5 DEF CacheInv, TypeOK
<1>7. new.tag = TagOf(c, u) /\ new # Empty
  BY <1>4
<1>8. DOMAIN tags = Caches /\ \A d \in Caches : tags[d] \in [Slots(d) -> Line \cup {Empty}]
  BY DEF CacheInv, TypeOK
<1>10. /\ DOMAIN tags' = Caches
       /\ \A d \in Caches : tags'[d] \in [Slots(d) -> Line \cup {Empty}]
       /\ tags'[c][s] = new
       /\ \A d \in Caches : \A t \in Slots(d) :
            (d # c \/ t # s) => tags'[d][t] = tags[d][t]
  BY <1>4
<1>11. \A t \in Slots(c) : tags[c][t] # Empty => tags[c][t].tag # TagOf(c, u)
  <2> SUFFICES ASSUME NEW t \in Slots(c), tags[c][t] # Empty,
                      tags[c][t].tag = TagOf(c, u)
               PROVE  FALSE
    OBVIOUS
  <2>1. t[1] = Idx(c, u)
    BY <1>1 DEF CacheInv, InOwnSet, Idx
  <2>2. t \in CheckTag(c, u)
    BY <2>1 DEF CheckTag, Matches
  <2>3. QED
    BY <2>2 DEF Miss
<1>12. TypeOK'
  <2>1. stats' \in [Caches -> Counters]
    <3> DEFINE k == Count(stats[c], call.store, UnitBytes(c, call.bytes))
               wb == IsDirty(tags[c][s])
    <3>1. stats[c] \in Counters /\ UnitBytes(c, call.bytes) \in Nat
      BY <1>1, <1>2, BytesType DEF CacheInv, TypeOK
    <3>2. k \in Counters
      BY <1>2, <3>1, CounterTypes
    <3>3. wb \in BOOLEAN
      BY <1>6 DEF IsDirty, Line
    <3>4. CountMiss(k, call.store, wb) \in Counters
      <4> HIDE DEF k, wb
      <4> QED BY <1>2, <3>2, <3>3, CounterTypes
    <3>5. stats' = [stats EXCEPT ![c] = CountMiss(k, call.store, wb)]
      BY <1>4 DEF MissAt
    <3> HIDE DEF k, wb
    <3>6. QED
      BY <1>1, <3>4, <3>5 DEF CacheInv, TypeOK
  <2>2. stack' \in Seq(Calls)
    <3>1. CallsOfMiss(c, u, tags[c][s]) \in Seq(Calls)
      BY <1>1, <1>2, <1>6, CallTypes
    <3>2. QED
      BY <1>1, <1>4, <3>1 DEF MissAt
  <2>3. fetched' \in [Caches -> SUBSET Nat]
    BY <1>1, <1>3, <1>4 DEF MissAt, CacheInv, TypeOK
  <2>4. stored' \subseteq Addrs /\ asked' \in [Caches -> [reads : Nat, writes : Nat]]
    BY <1>4 DEF MissAt, CacheInv, TypeOK
  <2>5. QED
    BY <1>10, <2>1, <2>2, <2>3, <2>4 DEF TypeOK
<1>13. InOwnSet'
  <2> SUFFICES ASSUME NEW d \in Caches, NEW t \in Slots(d), tags'[d][t] # Empty
               PROVE  t[1] = tags'[d][t].tag % Sets[d]
    BY DEF InOwnSet
  <2>1. CASE d = c /\ t = s
    BY <1>5, <1>7, <1>10, <2>1 DEF Idx
  <2>2. CASE ~(d = c /\ t = s)
    <3>1. tags'[d][t] = tags[d][t]
      BY <1>10, <2>2
    <3>2. QED
      BY <3>1 DEF CacheInv, InOwnSet
  <2>3. QED
    BY <2>1, <2>2
<1>14. NoTwin'
  <2> SUFFICES ASSUME NEW d \in Caches, NEW t1 \in Slots(d), NEW t2 \in Slots(d),
                      tags'[d][t1] # Empty, tags'[d][t2] # Empty,
                      tags'[d][t1].tag = tags'[d][t2].tag
               PROVE  t1 = t2
    BY DEF NoTwin
  <2>1. CASE d # c
    BY <1>10, <2>1 DEF CacheInv, NoTwin
  <2>2. CASE d = c /\ t1 # s /\ t2 # s
    BY <1>10, <2>2 DEF CacheInv, NoTwin
  <2>3. CASE d = c /\ t1 = s /\ t2 # s
    BY <1>7, <1>10, <1>11, <2>3
  <2>4. CASE d = c /\ t1 # s /\ t2 = s
    BY <1>7, <1>10, <1>11, <2>4
  <2>5. QED
    BY <2>1, <2>2, <2>3, <2>4
<1>15. QED
  BY <1>12, <1>13, <1>14 DEF CacheInv

(* A reset empties caches or leaves them as they are.                      *)
LEMMA ResetStep ==
  ASSUME CacheInv, Reset
  PROVE  CacheInv'
<1> USE DEF CacheInv, Reset
<1>1. \A c \in Caches : /\ tags'[c] \in [Slots(c) -> Line \cup {Empty}]
                        /\ \A s \in Slots(c) : tags'[c][s] \in {Empty, tags[c][s]}
  BY DEF TypeOK, Cleared
<1>2. TypeOK'
  BY <1>1 DEF TypeOK, Counters, Zero
<1>3. InOwnSet' /\ NoTwin'
  BY <1>1 DEF InOwnSet, NoTwin
<1>4. QED
  BY <1>2, <1>3

(* The inductive invariant.                                                *)
LEMMA CacheInvariant == Spec => []CacheInv
<1>1. CacheInv /\ [Next]_vars => CacheInv'
  <2> SUFFICES ASSUME CacheInv, [Next]_vars PROVE CacheInv'
    OBVIOUS
  <2>1. CASE \E c \in ICaches, a \in Addrs : Trace(c, a, FALSE)
    BY <2>1, TraceStep, RootsAssumption
  <2>2. CASE \E c \in DCaches, a \in Addrs, store \in BOOLEAN : Trace(c, a, store)
    BY <2>2, TraceStep, RootsAssumption
  <2>3. CASE Hit
    BY <2>3, HitStep
  <2>4. CASE Miss
    BY <2>4, MissStep
  <2>5. CASE Reset
    BY <2>5, ResetStep
  <2>6. CASE UNCHANGED vars
    BY <2>6 DEF CacheInv, TypeOK, InOwnSet, NoTwin, vars
  <2>7. QED
    BY <2>1, <2>2, <2>3, <2>4, <2>5, <2>6 DEF Next
<1>2. QED
  BY <1>1, CacheInit, PTL DEF Spec

(* The state of every cache of any hierarchy is well typed.                *)
THEOREM CacheTypes == Spec => []TypeOK
BY CacheInvariant, PTL DEF CacheInv

(* No line is ever in two ways, nor in a set other than its own, whatever  *)
(* the hierarchy, the geometry and the victims chosen.                     *)
THEOREM LinesUnique == Spec => []OneCopy
<1>1. CacheInv => OneCopy
  BY DEF CacheInv, InOwnSet, NoTwin, OneCopy
<1>2. QED
  BY <1>1, CacheInvariant, PTL

(* A cache that is not fully associative holds only lines it has fetched   *)
(* since the last reset.                                                   *)
THEOREM ResetForgets == Spec => []HoldsOnlyFetched
<1>1. Init => HoldsOnlyFetched
  BY DEF Init, HoldsOnlyFetched
<1>2. CacheInv /\ HoldsOnlyFetched /\ [Next]_vars => HoldsOnlyFetched'
  <2> SUFFICES ASSUME CacheInv, HoldsOnlyFetched, [Next]_vars
               PROVE  HoldsOnlyFetched'
    OBVIOUS
  <2>1. CASE \E c \in Caches, a \in Addrs, store \in BOOLEAN : Trace(c, a, store)
    BY <2>1 DEF Trace, HoldsOnlyFetched
  <2>2. CASE Hit
    BY <2>2, HitKeepsTags DEF HoldsOnlyFetched, Hit
  <2>3. CASE Miss
    <3> DEFINE call == Head(stack)
               c == call.cache
               u == Unit(c, call.addr)
    <3>1. PICK s \in Victims(c, u) : MissAt(c, u, s, call)
      BY <2>3 DEF Miss
    <3>2. c \in Caches
      BY <2>3, CallsInHierarchy DEF Miss
    <3> SUFFICES ASSUME NEW d \in Caches, ~FullyAssociative(d),
                        NEW t \in Slots(d), tags'[d][t] # Empty
                 PROVE  \E x \in fetched'[d] : TagOf(d, x) = tags'[d][t].tag
      BY DEF HoldsOnlyFetched, FullyAssociative
    <3>3. fetched'[d] = IF d = c THEN fetched[d] \cup {u} ELSE fetched[d]
      BY <3>1, <3>2 DEF MissAt, CacheInv, TypeOK
    <3>4. \/ tags'[d][t] = tags[d][t]
          \/ d = c /\ tags'[d][t] = [tag |-> TagOf(c, u), dirty |-> call.store]
      BY <3>1, <3>2 DEF MissAt, CacheInv, TypeOK
    <3>5. QED
      BY <3>3, <3>4 DEF HoldsOnlyFetched
  <2>4. CASE Reset
    BY <2>4 DEF Reset, Cleared, HoldsOnlyFetched
  <2>5. CASE UNCHANGED vars
    BY <2>5 DEF vars, HoldsOnlyFetched
  <2>6. QED
    BY <2>1, <2>2, <2>3, <2>4, <2>5, RootsAssumption DEF Next
<1>3. QED
  BY <1>1, <1>2, CacheInvariant, PTL DEF Spec

-----------------------------------------------------------------------------
(* Arithmetic of addresses                                                 *)

LEMMA Quotient ==
  ASSUME NEW a \in Nat, NEW m \in Positive
  PROVE  /\ a \div m \in Nat /\ m * (a \div m) \in Nat
         /\ m * (a \div m) <= a /\ a < m * (a \div m) + m
<1>1. a = m * (a \div m) + (a % m) /\ a \div m \in Int /\ a % m \in 0 .. m - 1
  BY DEF Positive
<1>2. a \div m \in Nat
  BY DEF Positive
<1>3. ASSUME NEW q \in Nat, NEW r \in 0 .. m - 1, a = m * q + r
      PROVE  m * q \in Nat /\ m * q <= a /\ a < m * q + m
  BY <1>3 DEF Positive
<1>4. QED BY <1>1, <1>2, <1>3

LEMMA QuotientIs ==
  ASSUME NEW a \in Nat, NEW m \in Positive, NEW q \in Nat, m * q <= a, a < m * q + m
  PROVE  a \div m = q
<1>1. ASSUME NEW p \in Nat, m * p <= a, a < m * p + m PROVE p = q
  <2>1. CASE p < q
    <3>1. q - p \in Nat /\ q - p >= 1 /\ m * (q - p) = m * q - m * p
      BY <2>1 DEF Positive
    <3>2. m * (q - p) >= m
      BY <3>1 DEF Positive
    <3>3. QED BY <1>1, <3>1, <3>2 DEF Positive
  <2>2. CASE q < p
    <3>1. p - q \in Nat /\ p - q >= 1 /\ m * (p - q) = m * p - m * q
      BY <2>2 DEF Positive
    <3>2. m * (p - q) >= m
      BY <3>1 DEF Positive
    <3>3. QED BY <1>1, <3>1, <3>2 DEF Positive
  <2>3. QED BY <1>1, <2>1, <2>2
<1>2. QED BY <1>1, Quotient

(* Dividing twice is dividing by the product.                              *)
LEMMA DivideTwice ==
  ASSUME NEW a \in Nat, NEW m \in Positive, NEW n \in Positive
  PROVE  m * n \in Positive /\ a \div (m * n) = (a \div m) \div n
<1>1. ASSUME NEW p \in Nat, NEW q \in Nat, m * p <= a, a < m * p + m,
             n * q <= p, p < n * q + n
      PROVE  m * n \in Positive /\ (m * n) * q <= a /\ a < (m * n) * q + m * n
  <2>1. m * (n * q) <= m * p /\ m * (p + 1) <= m * (n * q + n)
    <3>1. ASSUME NEW x \in Nat, NEW y \in Nat, x <= y PROVE m * x <= m * y
      <4>1. PICK d \in Nat : y = x + d
        BY <3>1
      <4>2. m * y = m * x + m * d /\ m * d >= 0
        BY <4>1 DEF Positive
      <4>3. QED BY <4>2 DEF Positive
    <3>2. n * q \in Nat /\ n * q + n \in Nat /\ p + 1 \in Nat /\ p + 1 <= n * q + n
      BY <1>1 DEF Positive
    <3>3. QED BY <1>1, <3>1, <3>2
  <2>2. /\ m * (n * q) = (m * n) * q
        /\ m * (p + 1) = m * p + m
        /\ m * (n * q + n) = (m * n) * q + m * n
    BY DEF Positive
  <2>3. m * n \in Positive
    BY DEF Positive
  <2>4. QED BY <1>1, <2>1, <2>2, <2>3 DEF Positive
<1>2. /\ a \div m \in Nat /\ m * (a \div m) <= a /\ a < m * (a \div m) + m
  BY Quotient
<1> DEFINE p == a \div m
<1>3. /\ p \div n \in Nat /\ n * (p \div n) <= p /\ p < n * (p \div n) + n
  <2> HIDE DEF p
  <2> QED BY <1>2, Quotient DEF p
<1>4. m * n \in Positive /\ (m * n) * (p \div n) <= a /\ a < (m * n) * (p \div n) + m * n
  BY <1>1, <1>2, <1>3
<1>5. QED BY <1>3, <1>4, QuotientIs

(* Rounded down to a multiple of g, an address stays in its line of any    *)
(* size that is a multiple of g.                                           *)
LEMMA RoundedDown ==
  ASSUME NEW a \in Nat, NEW g \in Positive, NEW m \in Positive, m % g = 0
  PROVE  ((a \div g) * g) \div m = a \div m
<1>1. PICK k \in Positive : m = g * k
  <2>1. m = g * (m \div g) + (m % g) /\ m \div g \in Nat
    BY DEF Positive
  <2>2. m = g * (m \div g)
    BY <2>1 DEF Positive
  <2>3. m \div g # 0
    BY <2>2 DEF Positive
  <2>4. QED BY <2>1, <2>2, <2>3 DEF Positive
<1>2. a \div g \in Nat /\ (a \div g) * g = g * (a \div g) /\ g * (a \div g) \in Nat
  BY Quotient DEF Positive
<1>3. (g * (a \div g)) \div g = a \div g
  <2>1. ASSUME NEW q \in Nat PROVE (g * q) \div g = q
    <3>1. g * q \in Nat /\ g * q <= g * q /\ g * q < g * q + g
      BY DEF Positive
    <3>2. QED BY <3>1, QuotientIs
  <2>2. QED BY <1>2, <2>1
<1>4. a \div m = (a \div g) \div k
  BY <1>1, DivideTwice
<1>5. (g * (a \div g)) \div m = ((g * (a \div g)) \div g) \div k
  BY <1>1, <1>2, DivideTwice
<1>6. QED BY <1>2, <1>3, <1>4, <1>5

(* A line of c is Span(c) bytes.                                           *)
LEMMA TagIsLine ==
  ASSUME NEW c \in Caches, NEW a \in Nat
  PROVE  TagOf(c, Unit(c, a)) = a \div Span(c) /\ Span(c) \in Positive
<1>1. Granule(c) \in Positive /\ 8 \in Positive
  BY GranuleAssumption DEF Positive
<1>2. CASE TagMode[c]
  BY <1>1, <1>2, DivideTwice DEF TagOf, Unit, Span
<1>3. CASE ~TagMode[c]
  BY <1>1, <1>3 DEF TagOf, Unit, Span
<1>4. QED BY <1>2, <1>3

(* A write-back reaches the line of each handler that the data belongs to. *)
LEMMA WriteBackFinds ==
  ASSUME LinesNest, NEW c \in Caches, NEW i \in DOMAIN Handlers[c], NEW a \in Nat,
         NEW v, v.tag = TagOf(c, Unit(c, a))
  PROVE  LET h == Handlers[c][i] IN
           TagOf(h, Unit(h, DirtyAddr(c, v))) = TagOf(h, Unit(h, a))
<1> DEFINE h == Handlers[c][i]
<1>1. h \in Caches
  BY HandlersAssumption
<1>2. ~TagMode[c] /\ Span(h) % Granule(c) = 0 /\ Granule(c) \in Positive
  BY GranuleAssumption DEF LinesNest
<1>3. DirtyAddr(c, v) = (a \div Granule(c)) * Granule(c)
  BY <1>2 DEF DirtyAddr, TagOf, Unit
<1>4. DirtyAddr(c, v) \in Nat
  BY <1>2, <1>3, Quotient DEF Positive
<1> HIDE DEF h
<1>5. TagOf(h, Unit(h, a)) = a \div Span(h) /\ Span(h) \in Positive
  BY <1>1, TagIsLine
<1>6. TagOf(h, Unit(h, DirtyAddr(c, v))) = DirtyAddr(c, v) \div Span(h)
  BY <1>1, <1>4, TagIsLine
<1>7. DirtyAddr(c, v) \div Span(h) = a \div Span(h)
  BY <1>2, <1>3, <1>5, RoundedDown
<1>8. QED BY <1>5, <1>6, <1>7 DEF h

-----------------------------------------------------------------------------
(* Dirty data                                                              *)

InLine(a) ==
  \E c \in Caches : \E s \in Slots(c) :
    IsDirty(tags[c][s]) /\ tags[c][s].tag = TagOf(c, Unit(c, a))
Writes(call, a) ==
  call.store /\ TagOf(call.cache, Unit(call.cache, call.addr)) = TagOf(call.cache, Unit(call.cache, a))
Pending(calls, a) == \E i \in DOMAIN calls : Writes(calls[i], a)

LEMMA AccountedDef == StoresAccounted <=> \A a \in stored : InLine(a) \/ Pending(stack, a)
BY DEF StoresAccounted, InLine, Pending, Writes

LEMMA PendingConcat ==
  ASSUME NEW p \in Seq(Calls), NEW q \in Seq(Calls), NEW a, Pending(p, a) \/ Pending(q, a)
  PROVE  Pending(p \o q, a)
<1>1. /\ p \o q \in Seq(Calls) /\ Len(p \o q) = Len(p) + Len(q)
      /\ \A i \in 1 .. Len(p) : (p \o q)[i] = p[i]
      /\ \A i \in 1 .. Len(q) : (p \o q)[Len(p) + i] = q[i]
  OBVIOUS
<1>2. CASE Pending(p, a)
  <2>1. PICK i \in 1 .. Len(p) : Writes(p[i], a)
    BY <1>2 DEF Pending
  <2>2. i \in DOMAIN (p \o q) /\ (p \o q)[i] = p[i]
    BY <1>1
  <2>3. QED BY <2>1, <2>2 DEF Pending
<1>3. CASE Pending(q, a)
  <2>1. PICK i \in 1 .. Len(q) : Writes(q[i], a)
    BY <1>3 DEF Pending
  <2>2. Len(p) + i \in DOMAIN (p \o q) /\ (p \o q)[Len(p) + i] = q[i]
    BY <1>1
  <2>3. QED BY <2>1, <2>2 DEF Pending
<1>4. QED BY <1>2, <1>3

LEMMA PendingTail ==
  ASSUME NEW p \in Seq(Calls), p # <<>>, NEW a, Pending(p, a)
  PROVE  Writes(Head(p), a) \/ Pending(Tail(p), a)
<1>1. PICK i \in 1 .. Len(p) : Writes(p[i], a)
  BY DEF Pending
<1>2. CASE i = 1
  BY <1>1, <1>2
<1>3. CASE i # 1
  <2>1. i - 1 \in DOMAIN Tail(p) /\ Tail(p)[i - 1] = p[i]
    BY <1>3
  <2>2. QED BY <1>1, <2>1 DEF Pending
<1>4. QED BY <1>2, <1>3

(* A hit cleans no line, and a store that hits leaves its line dirty.      *)
LEMMA HitDirties ==
  ASSUME CacheInv, Hit, NEW a, InLine(a) \/ Writes(Head(stack), a)
  PROVE  InLine(a)'
<1> DEFINE call == Head(stack)
           c == call.cache
           u == Unit(c, call.addr)
<1>1. c \in Caches
  BY CallsInHierarchy DEF Hit
<1>2. PICK s \in CheckTag(c, u) :
        tags' = IF call.store THEN [tags EXCEPT ![c][s].dirty = TRUE] ELSE tags
  BY DEF Hit
<1>3. s \in Slots(c) /\ tags[c][s] \in Line /\ tags[c][s].tag = TagOf(c, u)
  BY <1>1, <1>2 DEF CheckTag, Matches, CacheInv, TypeOK
<1>4. CASE ~call.store
  BY <1>2, <1>4 DEF InLine, Writes
<1>5. CASE call.store
  <2> DEFINE line == [tags[c][s] EXCEPT !.dirty = TRUE]
  <2>1. tags' = [tags EXCEPT ![c] = [tags[c] EXCEPT ![s] = line]]
    BY <1>2, <1>5
  <2>2. IsDirty(line) /\ line.tag = tags[c][s].tag
    BY <1>3 DEF Line, Empty, IsDirty
  <2>3. DOMAIN tags = Caches /\ \A d \in Caches : tags[d] \in [Slots(d) -> Line \cup {Empty}]
    BY DEF CacheInv, TypeOK
  <2>4. /\ tags'[c][s] = line
        /\ \A d \in Caches : \A t \in Slots(d) :
             (d # c \/ t # s) => tags'[d][t] = tags[d][t]
    <3> HIDE DEF c, line
    <3> QED BY <1>1, <1>3, <2>1, <2>3
  <2>5. CASE InLine(a)
    <3>0. PICK d \in Caches : \E t \in Slots(d) :
            IsDirty(tags[d][t]) /\ tags[d][t].tag = TagOf(d, Unit(d, a))
      BY <2>5 DEF InLine
    <3>1. PICK t \in Slots(d) :
            IsDirty(tags[d][t]) /\ tags[d][t].tag = TagOf(d, Unit(d, a))
      BY <3>0
    <3>2. IsDirty(tags'[d][t]) /\ tags'[d][t].tag = TagOf(d, Unit(d, a))
      BY <2>2, <2>4, <3>1
    <3>3. QED BY <3>2 DEF InLine, IsDirty
  <2>6. CASE Writes(call, a)
    <3>1. tags'[c][s].tag = TagOf(c, Unit(c, a)) /\ IsDirty(tags'[c][s])
      BY <1>3, <2>2, <2>4, <2>6 DEF Writes
    <3> HIDE DEF c
    <3>2. QED BY <1>1, <1>3, <3>1 DEF InLine, IsDirty
  <2>7. QED BY <2>5, <2>6
<1>6. QED BY <1>4, <1>5

(* The calls of a miss that evicts a dirty line with a's data carry it on, *)
(* unless the cache is the last and writes it out.                         *)
LEMMA EvictedCarriedOn ==
  ASSUME LinesNest, NEW c \in Caches, NEW u, NEW a \in Nat, NEW v, IsDirty(v),
         v.tag = TagOf(c, Unit(c, a)), Handlers[c] # <<>>
  PROVE  Pending(CallsOfMiss(c, u, v), a)
<1> DEFINE h == Handlers[c][1]
           wb == WriteBacks(c, v)
           first == Call(h, DirtyAddr(c, v), LineSz[c], TRUE)
<1>1. Handlers[c] \in Seq(Caches) /\ Len(Handlers[c]) \in Nat /\ 1 \in DOMAIN Handlers[c]
      /\ 1 \in 1 .. Len(Handlers[c])
  BY HandlersAssumption
<1>2. wb = [i \in 1 .. Len(Handlers[c]) |->
              Call(Handlers[c][i], DirtyAddr(c, v), LineSz[c], TRUE)]
  BY DEF WriteBacks
<1>3. wb[1] = first
  BY <1>1, <1>2
<1>4. first.cache = h /\ first.store = TRUE /\ first.addr = DirtyAddr(c, v)
  BY DEF Call
<1>5. TagOf(h, Unit(h, DirtyAddr(c, v))) = TagOf(h, Unit(h, a))
  BY <1>1, WriteBackFinds
<1>6. Writes(first, a)
  <2> HIDE DEF h, first
  <2> QED BY <1>4, <1>5 DEF Writes
<1>7. Len(wb) = Len(Handlers[c]) /\ DOMAIN wb = 1 .. Len(Handlers[c])
  BY <1>1, <1>2
<1>8. Len(Fills(c, u)) \in Nat /\ DOMAIN Fills(c, u) = 1 .. Len(Handlers[c])
      /\ Len(Fills(c, u)) = Len(Handlers[c])
  BY <1>1 DEF Fills
<1>9. 1 \in DOMAIN (wb \o Fills(c, u)) /\ (wb \o Fills(c, u))[1] = wb[1]
  <2> HIDE DEF wb
  <2> QED BY <1>1, <1>7, <1>8
<1>10. QED BY <1>3, <1>6, <1>9 DEF Pending, CallsOfMiss

(* A miss: the data of the victim, of the call and of all other lines and  *)
(* calls is still accounted for.                                           *)
LEMMA MissAccounts ==
  ASSUME LinesNest, CacheInv, StoresAccounted, Miss
  PROVE  StoresAccounted'
<1> DEFINE call == Head(stack)
           c == call.cache
           u == Unit(c, call.addr)
           line == [tag |-> TagOf(c, u), dirty |-> call.store]
<1>1. /\ stack # <<>> /\ stack \in Seq(Calls) /\ call \in Calls /\ c \in Caches
      /\ Tail(stack) \in Seq(Calls)
  BY CallsInHierarchy DEF Miss, CacheInv, TypeOK
<1>2. PICK s \in Slots(c) :
        /\ s[1] = Idx(c, u) /\ MissAt(c, u, s, call)
        /\ DOMAIN tags' = Caches
        /\ \A d \in Caches : tags'[d] \in [Slots(d) -> Line \cup {Empty}]
        /\ tags'[c][s] = line /\ line \in Line /\ line # Empty
        /\ \A d \in Caches : \A t \in Slots(d) :
             (d # c \/ t # s) => tags'[d][t] = tags[d][t]
  BY MissWrites
<1> DEFINE v == tags[c][s]
<1>3. /\ stack' = CallsOfMiss(c, u, v) \o Tail(stack)
      /\ stored' = stored \ WrittenOut(c, v)
  BY <1>2 DEF MissAt
<1>4. v \in Line \cup {Empty} /\ call.addr \in Nat
  BY <1>1, <1>2 DEF CacheInv, TypeOK, Calls
<1>5. CallsOfMiss(c, u, v) \in Seq(Calls)
  BY <1>1, <1>4, CallTypes
<1>6. ASSUME NEW a \in stored' PROVE InLine(a)' \/ Pending(stack', a)
  <2>1. a \in stored /\ a \notin WrittenOut(c, v) /\ a \in Nat
    BY <1>3, <1>6, AddrsAssumption DEF CacheInv, TypeOK
  <2>2. InLine(a) \/ Pending(stack, a)
    BY <2>1, AccountedDef
  <2>3. ASSUME NEW d \in Caches, NEW t \in Slots(d),
               IsDirty(tags[d][t]), tags[d][t].tag = TagOf(d, Unit(d, a))
        PROVE  InLine(a)' \/ Pending(stack', a)
    <3>1. CASE d # c \/ t # s
      <4>1. tags'[d][t] = tags[d][t]
        BY <1>2, <3>1
      <4>2. IsDirty(tags'[d][t]) /\ tags'[d][t].tag = TagOf(d, Unit(d, a))
        BY <2>3, <4>1
      <4>3. QED BY <4>2 DEF InLine, IsDirty
    <3>2. CASE d = c /\ t = s
      <4>1. IsDirty(v) /\ v.tag = TagOf(c, Unit(c, a))
        BY <2>3, <3>2
      <4>2. Handlers[c] # <<>>
        BY <2>1, <4>1 DEF WrittenOut
      <4>3. Pending(CallsOfMiss(c, u, v), a)
        BY <1>1, <2>1, <4>1, <4>2, EvictedCarriedOn
      <4>4. Pending(stack', a)
        BY <1>1, <1>3, <1>5, <4>3, PendingConcat
      <4>5. QED BY <4>4
    <3>3. QED BY <3>1, <3>2
  <2>4. CASE Pending(stack, a)
    <3>1. CASE Writes(call, a)
      <4>1. line.dirty /\ line.tag = TagOf(c, Unit(c, a))
        BY <3>1 DEF Writes
      <4>2. IsDirty(tags'[c][s]) /\ tags'[c][s].tag = TagOf(c, Unit(c, a))
        BY <1>2, <4>1 DEF IsDirty
      <4> HIDE DEF c
      <4>3. QED BY <1>1, <1>2, <4>2 DEF InLine, IsDirty
    <3>2. CASE Pending(Tail(stack), a)
      BY <1>1, <1>3, <1>5, <3>2, PendingConcat
    <3>3. QED BY <1>1, <2>4, <3>1, <3>2, PendingTail
  <2>5. CASE InLine(a)
    BY <2>3, <2>5 DEF InLine
  <2>6. QED BY <2>2, <2>4, <2>5
<1>7. QED BY <1>6 DEF StoresAccounted, InLine, Pending, Writes

(* If the lines of every cache make up those of its handlers, nothing      *)
(* stored is lost between the caches of any hierarchy, however evictions   *)
(* at different levels follow each other.                                  *)
THEOREM StoresReachMemory == ASSUME LinesNest PROVE Spec => []StoresAccounted
<1>1. Init => StoresAccounted
  BY DEF Init, StoresAccounted
<1>2. CacheInv /\ StoresAccounted /\ [Next]_vars => StoresAccounted'
  <2> SUFFICES ASSUME CacheInv, StoresAccounted, [Next]_vars PROVE StoresAccounted'
    OBVIOUS
  <2>1. ASSUME NEW c \in Caches, NEW a \in Addrs, NEW store \in BOOLEAN, Trace(c, a, store)
        PROVE  StoresAccounted'
    <3>1. /\ stack = <<>> /\ stack' = <<Call(c, a, Bytes, store)>> /\ UNCHANGED tags
          /\ stored' = IF store THEN stored \cup {a} ELSE stored
      BY <2>1 DEF Trace
    <3>2. ASSUME NEW x \in stored PROVE InLine(x)'
      <4>1. InLine(x) \/ Pending(stack, x)
        BY AccountedDef
      <4>2. ~Pending(stack, x)
        BY <3>1 DEF Pending
      <4>3. QED BY <3>1, <4>1, <4>2 DEF InLine, IsDirty
    <3>3. ASSUME store PROVE Pending(stack', a)
      <4>1. 1 \in DOMAIN stack' /\ stack'[1] = Call(c, a, Bytes, store)
        BY <3>1
      <4>2. Writes(stack'[1], a)
        BY <3>3, <4>1 DEF Writes, Call
      <4>3. QED BY <4>1, <4>2 DEF Pending
    <3>4. \A x \in stored' : InLine(x)' \/ Pending(stack', x)
      BY <3>1, <3>2, <3>3
    <3>5. QED BY <3>4 DEF StoresAccounted, InLine, Pending, Writes
  <2>2. CASE Hit
    <3>1. stack # <<>> /\ stack \in Seq(Calls) /\ stack' = Tail(stack) /\ stored' = stored
      BY <2>2 DEF Hit, CacheInv, TypeOK
    <3>2. ASSUME NEW a \in stored' PROVE InLine(a)' \/ Pending(stack', a)
      <4>1. InLine(a) \/ Pending(stack, a)
        BY <3>1, <3>2, AccountedDef
      <4>2. InLine(a) \/ Writes(Head(stack), a) \/ Pending(Tail(stack), a)
        BY <3>1, <4>1, PendingTail
      <4>3. InLine(a) \/ Writes(Head(stack), a) => InLine(a)'
        BY <2>2, HitDirties
      <4>4. QED BY <3>1, <4>2, <4>3
    <3>3. QED BY <3>2 DEF StoresAccounted, InLine, Pending, Writes
  <2>3. CASE Miss
    BY <2>3, MissAccounts
  <2>4. CASE Reset
    BY <2>4 DEF Reset, StoresAccounted
  <2>5. CASE UNCHANGED vars
    BY <2>5 DEF vars, StoresAccounted, IsDirty
  <2>6. QED
    BY <2>1, <2>2, <2>3, <2>4, <2>5, RootsAssumption DEF Next
<1>3. QED
  BY <1>1, <1>2, CacheInvariant, PTL DEF Spec

-----------------------------------------------------------------------------
(* Traffic between levels                                                  *)

(* Where in a list the calls for cache c are, and how many there are.      *)
Positions(calls, c, store) == {i \in DOMAIN calls : calls[i].cache = c /\ calls[i].store = store}
Number(calls, c, store) == Cardinality(Positions(calls, c, store))

LEMMA NumberType ==
  ASSUME NEW p \in Seq(Calls), NEW c, NEW store
  PROVE  IsFiniteSet(Positions(p, c, store)) /\ Number(p, c, store) \in Nat
<1>1. Positions(p, c, store) \in SUBSET (1 .. Len(p)) /\ Len(p) \in Nat
  BY DEF Positions
<1>2. IsFiniteSet(1 .. Len(p))
  BY <1>1, FS_Interval
<1>3. QED BY <1>1, <1>2, FS_Subset, FS_CardinalityType DEF Number

(* Moved up by k, a set of positions has as many members.                  *)
LEMMA ShiftedCardinality ==
  ASSUME NEW A \in SUBSET Nat, IsFiniteSet(A), NEW k \in Nat, NEW B,
         B = {i + k : i \in A}
  PROVE  IsFiniteSet(B) /\ Cardinality(B) = Cardinality(A)
<1> DEFINE f == [i \in A |-> i + k]
<1>1. f \in [A -> B]
  OBVIOUS
<1>2. \A i, j \in A : f[i] = f[j] => i = j
  OBVIOUS
<1>3. \A x \in B : \E i \in A : f[i] = x
  OBVIOUS
<1>4. f \in Bijection(A, B)
  <2> HIDE DEF f
  <2>1. f \in Injection(A, B)
    BY <1>1, <1>2, Fun_IsInj
  <2>2. f \in Surjection(A, B)
    BY <1>1, <1>3, Fun_IsSurj
  <2>3. QED BY <2>1, <2>2 DEF Bijection
<1>5. ExistsBijection(A, B)
  BY <1>4 DEF ExistsBijection
<1>6. QED BY <1>5, FS_Bijection

LEMMA NumberConcat ==
  ASSUME NEW p \in Seq(Calls), NEW q \in Seq(Calls), NEW c, NEW store
  PROVE  Number(p \o q, c, store) = Number(p, c, store) + Number(q, c, store)
<1> DEFINE P == Positions(p, c, store)
           Q == Positions(q, c, store)
           R == {i + Len(p) : i \in Q}
<1>1. IsFiniteSet(P) /\ IsFiniteSet(Q)
  BY NumberType
<1>2. Q \in SUBSET Nat /\ Len(p) \in Nat
  BY DEF Positions
<1>3. IsFiniteSet(R) /\ Cardinality(R) = Cardinality(Q)
  <2> HIDE DEF Q
  <2> QED BY <1>1, <1>2, ShiftedCardinality
<1>4. Positions(p \o q, c, store) = P \cup R
  <2>1. /\ DOMAIN (p \o q) = 1 .. Len(p) + Len(q)
        /\ \A i \in 1 .. Len(p) : (p \o q)[i] = p[i]
        /\ \A i \in 1 .. Len(q) : (p \o q)[i + Len(p)] = q[i]
    OBVIOUS
  <2>2. ASSUME NEW i \in Positions(p \o q, c, store) PROVE i \in P \cup R
    <3>1. CASE i \in 1 .. Len(p)
      BY <2>1, <2>2, <3>1 DEF Positions
    <3>2. CASE i \in Len(p) + 1 .. Len(p) + Len(q)
      <4>1. i - Len(p) \in 1 .. Len(q) /\ (i - Len(p)) + Len(p) = i
        BY <3>2
      <4>2. i - Len(p) \in Q
        BY <2>1, <2>2, <4>1 DEF Positions
      <4>3. QED BY <4>1, <4>2
    <3>3. QED BY <2>1, <2>2, <3>1, <3>2 DEF Positions
  <2>3. P \subseteq Positions(p \o q, c, store)
    BY <2>1 DEF Positions
  <2>4. R \subseteq Positions(p \o q, c, store)
    BY <2>1 DEF Positions
  <2>5. QED BY <2>2, <2>3, <2>4
<1>5. P \cap R = {}
  BY DEF Positions
<1>6. Cardinality(P \cup R) = Cardinality(P) + Cardinality(R) - Cardinality(P \cap R)
  <2> HIDE DEF P, R
  <2> QED BY <1>1, <1>3, FS_Union
<1>7. Cardinality(P) \in Nat /\ Cardinality(Q) \in Nat
  BY NumberType DEF Number
<1>8. Cardinality(P \cap R) = 0
  BY <1>5, FS_EmptySet
<1>9. /\ Number(p \o q, c, store) = Cardinality(P \cup R)
      /\ Number(p, c, store) = Cardinality(P) /\ Number(q, c, store) = Cardinality(Q)
  BY <1>4 DEF Number
<1> HIDE DEF P, Q, R
<1>10. QED BY <1>3, <1>6, <1>7, <1>8, <1>9

LEMMA NumberOne ==
  ASSUME NEW x \in Calls, NEW c, NEW store
  PROVE  Number(<<x>>, c, store) = IF x.cache = c /\ x.store = store THEN 1 ELSE 0
<1>1. CASE x.cache = c /\ x.store = store
  <2>1. Positions(<<x>>, c, store) = {1}
    BY <1>1 DEF Positions
  <2>2. QED BY <1>1, <2>1, FS_Singleton DEF Number
<1>2. CASE ~(x.cache = c /\ x.store = store)
  <2>1. Positions(<<x>>, c, store) = {}
    BY <1>2 DEF Positions
  <2>2. QED BY <1>2, <2>1, FS_EmptySet DEF Number
<1>3. QED BY <1>1, <1>2

LEMMA NumberTail ==
  ASSUME NEW p \in Seq(Calls), p # <<>>, NEW c, NEW store
  PROVE  Number(p, c, store) = Number(Tail(p), c, store)
           + IF Head(p).cache = c /\ Head(p).store = store THEN 1 ELSE 0
<1> DEFINE Q == Positions(Tail(p), c, store)
           R == {i + 1 : i \in Q}
           first == Head(p).cache = c /\ Head(p).store = store
<1>1. Head(p) = p[1] /\ Tail(p) \in Seq(Calls) /\ Len(p) \in Nat /\ Len(p) > 0
  BY HeadTailProperties
<1>2. /\ DOMAIN p = 1 .. Len(p) /\ DOMAIN Tail(p) = 1 .. Len(p) - 1
      /\ \A i \in 1 .. Len(p) - 1 : Tail(p)[i] = p[i + 1]
  BY <1>1
<1>3. Q \in SUBSET Nat /\ IsFiniteSet(Q)
  <2>1. IsFiniteSet(Q)
    BY <1>1, NumberType
  <2>2. Q \subseteq DOMAIN Tail(p)
    BY DEF Positions
  <2>3. DOMAIN Tail(p) \subseteq Nat
    BY <1>1, <1>2
  <2> HIDE DEF Q
  <2>4. QED BY <2>1, <2>2, <2>3
<1>4. IsFiniteSet(R) /\ Cardinality(R) = Cardinality(Q)
  <2>1. 1 \in Nat
    OBVIOUS
  <2>2. R = {i + 1 : i \in Q}
    OBVIOUS
  <2> HIDE DEF Q, R
  <2>3. QED BY <1>3, <2>1, <2>2, ShiftedCardinality
<1>5. ASSUME NEW i \in 2 .. Len(p)
      PROVE  i \in R <=> i \in Positions(p, c, store)
  <2>1. i - 1 \in 1 .. Len(p) - 1 /\ (i - 1) + 1 = i
    BY <1>1, <1>5
  <2>2. i \in R <=> i - 1 \in Q
    BY <1>3, <2>1
  <2>3. QED BY <1>2, <2>1, <2>2 DEF Positions
<1>6. 1 \notin R /\ R \subseteq 2 .. Len(p)
  BY <1>1, <1>2 DEF Positions
<1>7. 1 \in Positions(p, c, store) <=> first
  BY <1>1, <1>2 DEF Positions
<1>8. Positions(p, c, store) \subseteq {1} \cup 2 .. Len(p)
  BY <1>1, <1>2 DEF Positions
<1>9. Cardinality(Q) \in Nat /\ Number(Tail(p), c, store) = Cardinality(Q)
  BY <1>1, NumberType DEF Number
<1>10. CASE first
  <2>1. Positions(p, c, store) = R \cup {1}
    <3> HIDE DEF R, first
    <3> QED BY <1>5, <1>6, <1>7, <1>8, <1>10
  <2>2. Cardinality(R \cup {1}) = Cardinality(R) + 1
    <3> HIDE DEF R
    <3> QED BY <1>4, <1>6, FS_AddElement
  <2>3. Number(p, c, store) = Cardinality(R) + 1
    BY <2>1, <2>2 DEF Number
  <2>4. QED BY <1>4, <1>9, <1>10, <2>3
<1>11. CASE ~first
  <2>1. Positions(p, c, store) = R
    <3> HIDE DEF R, first
    <3> QED BY <1>5, <1>6, <1>7, <1>8, <1>11
  <2>2. Number(p, c, store) = Cardinality(R)
    BY <2>1 DEF Number
  <2>3. QED BY <1>4, <1>9, <1>11, <2>2
<1>12. QED BY <1>10, <1>11

(* Among the calls a miss of cache d makes, one for each handler.          *)
LEMMA NumberToHandlers ==
  ASSUME NEW d \in Caches, NEW c \in Caches, NEW calls, NEW store, NEW other, other # store,
         DOMAIN calls = 1 .. Len(Handlers[d]),
         \A i \in DOMAIN calls : calls[i].cache = Handlers[d][i] /\ calls[i].store = store
  PROVE  /\ Number(calls, c, store) = IF d \in Callers(c) THEN 1 ELSE 0
         /\ Number(calls, c, other) = 0
<1>0. Number(calls, c, other) = 0
  <2>1. Positions(calls, c, other) = {}
    BY DEF Positions
  <2>2. QED BY <2>1, FS_EmptySet DEF Number
<1>1. DOMAIN Handlers[d] = 1 .. Len(Handlers[d])
  BY HandlersAssumption
<1>2. CASE d \in Callers(c)
  <2>1. PICK i \in DOMAIN Handlers[d] : Handlers[d][i] = c
    BY <1>2 DEF Callers
  <2>2. \A j \in DOMAIN Handlers[d] : Handlers[d][j] = c <=> j = i
    BY <2>1, HandlersAssumption
  <2>3. Positions(calls, c, store) = {i}
    BY <1>1, <2>1, <2>2 DEF Positions
  <2>4. Number(calls, c, store) = 1
    BY <2>3, FS_Singleton DEF Number
  <2>5. QED BY <1>0, <1>2, <2>4, Zenon
<1>3. CASE d \notin Callers(c)
  <2>1. Positions(calls, c, store) = {}
    BY <1>1, <1>3 DEF Positions, Callers
  <2>2. Number(calls, c, store) = 0
    BY <2>1, FS_EmptySet DEF Number
  <2>3. QED BY <1>0, <1>3, <2>2, Zenon
<1>4. QED BY <1>2, <1>3

(* The events of the caches of S, f[p] of them at p, each with its number. *)
Numbered(S, f) == UNION {{p} \X (1 .. f[p]) : p \in S}

LEMMA NumberedMember ==
  ASSUME NEW S, NEW f, NEW x
  PROVE  x \in Numbered(S, f) <=> \E p \in S : \E n \in 1 .. f[p] : x = <<p, n>>
BY DEF Numbered

(* One event more at d is one event more in all, if d is of the set.       *)
LEMMA OneMore ==
  ASSUME NEW S, NEW f, NEW g, NEW d \in S, f[d] \in Nat, g[d] = f[d] + 1,
         \A p \in S : p # d => g[p] = f[p], IsFiniteSet(Numbered(S, f))
  PROVE  /\ IsFiniteSet(Numbered(S, g))
         /\ Cardinality(Numbered(S, g)) = Cardinality(Numbered(S, f)) + 1
<1> DEFINE new == <<d, f[d] + 1>>
<1>1. new \notin Numbered(S, f)
  <2>0. new \in Numbered(S, f) <=> \E p \in S : \E n \in 1 .. f[p] : new = <<p, n>>
    <3> HIDE DEF new
    <3> QED BY NumberedMember
  <2>1. ASSUME NEW p \in S, NEW n \in 1 .. f[p], new = <<p, n>> PROVE FALSE
    <3>1. p = d /\ n = f[d] + 1
      BY <2>1
    <3>2. QED BY <3>1
  <2>2. QED BY <2>0, <2>1, Zenon
<1>2. \A p \in S : p # d => g[p] = f[p]
  OBVIOUS
<1>3. f[d] \in Nat /\ g[d] = f[d] + 1
  OBVIOUS
<1>4. ASSUME NEW x \in Numbered(S, g) PROVE x \in Numbered(S, f) \cup {new}
  <2>0. x \in Numbered(S, g) <=> \E p \in S : \E n \in 1 .. g[p] : x = <<p, n>>
    BY NumberedMember
  <2>1. PICK p \in S : \E n \in 1 .. g[p] : x = <<p, n>>
    BY <2>0, Zenon
  <2>2. PICK n \in 1 .. g[p] : x = <<p, n>>
    BY <2>1
  <2>3. n \in 1 .. f[p] \/ (p = d /\ n = f[d] + 1)
    BY <1>2, <1>3
  <2>4. CASE n \in 1 .. f[p]
    BY <2>2, <2>4, NumberedMember, Zenon
  <2>5. CASE p = d /\ n = f[d] + 1
    BY <2>2, <2>5, Zenon
  <2>6. QED BY <2>3, <2>4, <2>5, Zenon
<1>5. ASSUME NEW x \in Numbered(S, f) PROVE x \in Numbered(S, g)
  <2>0. x \in Numbered(S, f) <=> \E p \in S : \E n \in 1 .. f[p] : x = <<p, n>>
    BY NumberedMember
  <2>1. PICK p \in S : \E n \in 1 .. f[p] : x = <<p, n>>
    BY <2>0, Zenon
  <2>2. PICK n \in 1 .. f[p] : x = <<p, n>>
    BY <2>1
  <2>3. n \in 1 .. g[p]
    BY <1>2, <1>3
  <2>4. QED BY <2>2, <2>3, NumberedMember, Zenon
<1>6. new \in Numbered(S, g)
  <2>1. f[d] + 1 \in 1 .. g[d]
    BY <1>3
  <2>2. QED BY <2>1, NumberedMember, Zenon
<1>7. Numbered(S, g) = Numbered(S, f) \cup {new}
  <2> HIDE DEF new
  <2> QED BY <1>4, <1>5, <1>6, Zenon
<1>8. /\ IsFiniteSet(Numbered(S, f) \cup {new})
      /\ Cardinality(Numbered(S, f) \cup {new}) = Cardinality(Numbered(S, f)) + 1
  <2> HIDE DEF new
  <2> QED BY <1>1, FS_AddElement
<1>9. QED BY <1>7, <1>8, Zenon

(* Elsewhere, it changes nothing.                                          *)
LEMMA NoneMore ==
  ASSUME NEW S, NEW f, NEW g, \A p \in S : g[p] = f[p]
  PROVE  Numbered(S, g) = Numbered(S, f)
BY DEF Numbered

Misses(st) == [p \in Caches |-> st[p].read_misses + st[p].write_misses]
Writebacks(st) == [p \in Caches |-> st[p].writebacks]

LEMMA EventsDef ==
  ASSUME NEW S \in SUBSET Caches
  PROVE  /\ MissesOf(S) = Numbered(S, Misses(stats))
         /\ MissesOf(S)' = Numbered(S, Misses(stats'))
         /\ WritebacksOf(S) = Numbered(S, Writebacks(stats))
         /\ WritebacksOf(S)' = Numbered(S, Writebacks(stats'))
BY DEF MissesOf, WritebacksOf, Numbered, Misses, Writebacks

(* What one access adds to the counters.                                   *)
LEMMA CounterEffects ==
  ASSUME NEW k \in Counters, NEW b \in Nat, NEW st \in BOOLEAN, NEW wb \in BOOLEAN
  PROVE  /\ Count(k, st, b).read_accesses = k.read_accesses + IF st THEN 0 ELSE 1
         /\ Count(k, st, b).write_accesses = k.write_accesses + IF st THEN 1 ELSE 0
         /\ Count(k, st, b).read_misses = k.read_misses
         /\ Count(k, st, b).write_misses = k.write_misses
         /\ Count(k, st, b).writebacks = k.writebacks
         /\ CountMiss(k, st, wb).read_accesses = k.read_accesses
         /\ CountMiss(k, st, wb).write_accesses = k.write_accesses
         /\ CountMiss(k, st, wb).read_misses + CountMiss(k, st, wb).write_misses
              = k.read_misses + k.write_misses + 1
         /\ CountMiss(k, st, wb).writebacks = k.writebacks + IF wb THEN 1 ELSE 0
<1>0. /\ k.read_accesses \in Nat /\ k.write_accesses \in Nat
      /\ k.read_misses \in Nat /\ k.write_misses \in Nat /\ k.writebacks \in Nat
  BY DEF Counters
<1>1. CASE st
  <2>1. CASE wb
    BY <1>0, <1>1, <2>1 DEF Count, CountMiss, Counters
  <2>2. CASE ~wb
    BY <1>0, <1>1, <2>2 DEF Count, CountMiss, Counters
  <2>3. QED BY <2>1, <2>2
<1>2. CASE ~st
  <2>1. CASE wb
    BY <1>0, <1>2, <2>1 DEF Count, CountMiss, Counters
  <2>2. CASE ~wb
    BY <1>0, <1>2, <2>2 DEF Count, CountMiss, Counters
  <2>3. QED BY <2>1, <2>2
<1>3. QED BY <1>1, <1>2

LEMMA MissEffects ==
  ASSUME NEW k \in Counters, NEW b \in Nat, NEW st \in BOOLEAN, NEW wb \in BOOLEAN,
         NEW m, m = CountMiss(Count(k, st, b), st, wb)
  PROVE  /\ m.read_accesses = k.read_accesses + IF st THEN 0 ELSE 1
         /\ m.write_accesses = k.write_accesses + IF st THEN 1 ELSE 0
         /\ m.read_misses + m.write_misses = k.read_misses + k.write_misses + 1
         /\ m.writebacks = k.writebacks + IF wb THEN 1 ELSE 0
<1>1. PICK n \in Counters : n = Count(k, st, b)
  BY CounterTypes
<1>2. /\ n.read_accesses = k.read_accesses + IF st THEN 0 ELSE 1
      /\ n.write_accesses = k.write_accesses + IF st THEN 1 ELSE 0
      /\ n.read_misses = k.read_misses /\ n.write_misses = k.write_misses
      /\ n.writebacks = k.writebacks
  BY <1>1, CounterEffects
<1>3. /\ m.read_accesses = n.read_accesses /\ m.write_accesses = n.write_accesses
      /\ m.read_misses + m.write_misses = n.read_misses + n.write_misses + 1
      /\ m.writebacks = n.writebacks + IF wb THEN 1 ELSE 0
  <2>1. m = CountMiss(n, st, wb)
    BY <1>1
  <2>2. QED BY <2>1, CounterEffects
<1>4. QED BY <1>2, <1>3

(* 1 for the call that cache c is about to answer, 0 for the others.       *)
TakenRead(call, c) == IF call.cache = c /\ ~call.store THEN 1 ELSE 0
TakenWrite(call, c) == IF call.cache = c /\ call.store THEN 1 ELSE 0

ReadsIn(calls, c) == Number(calls, c, FALSE)
WritesIn(calls, c) == Number(calls, c, TRUE)

LEMMA WaitingConcat ==
  ASSUME NEW p \in Seq(Calls), NEW q \in Seq(Calls), NEW c
  PROVE  /\ ReadsIn(p \o q, c) = ReadsIn(p, c) + ReadsIn(q, c)
         /\ WritesIn(p \o q, c) = WritesIn(p, c) + WritesIn(q, c)
<1>1. \A x : Number(p \o q, c, x) = Number(p, c, x) + Number(q, c, x)
  BY NumberConcat, Zenon
<1>2. QED BY <1>1, Zenon DEF ReadsIn, WritesIn

LEMMA WaitingTail ==
  ASSUME NEW p \in Seq(Calls), p # <<>>, NEW c
  PROVE  /\ ReadsIn(p, c) = ReadsIn(Tail(p), c) + TakenRead(Head(p), c)
         /\ WritesIn(p, c) = WritesIn(Tail(p), c) + TakenWrite(Head(p), c)
<1>1. Head(p).store \in BOOLEAN
  <2>1. Head(p) \in Calls
    BY HeadTailProperties
  <2>2. QED BY <2>1 DEF Calls
<1>2. Number(p, c, FALSE) = Number(Tail(p), c, FALSE)
        + IF Head(p).cache = c /\ Head(p).store = FALSE THEN 1 ELSE 0
  BY NumberTail
<1>3. Number(p, c, TRUE) = Number(Tail(p), c, TRUE)
        + IF Head(p).cache = c /\ Head(p).store = TRUE THEN 1 ELSE 0
  BY NumberTail
<1>4. ReadsIn(p, c) = ReadsIn(Tail(p), c) + TakenRead(Head(p), c)
  <2>1. CASE Head(p).store
    BY <1>2, <2>1 DEF ReadsIn, TakenRead
  <2>2. CASE ~Head(p).store
    BY <1>1, <1>2, <2>2 DEF ReadsIn, TakenRead
  <2>3. QED BY <2>1, <2>2
<1>5. WritesIn(p, c) = WritesIn(Tail(p), c) + TakenWrite(Head(p), c)
  <2>1. CASE Head(p).store
    BY <1>1, <1>3, <2>1 DEF WritesIn, TakenWrite
  <2>2. CASE ~Head(p).store
    BY <1>1, <1>3, <2>2 DEF WritesIn, TakenWrite
  <2>3. QED BY <2>1, <2>2
<1>6. QED BY <1>4, <1>5

LEMMA Balances ==
  /\ TrafficConserved <=> \A c \in Caches :
       /\ stats[c].read_accesses + ReadsIn(stack, c)
            = asked[c].reads + Cardinality(MissesOf(Callers(c)))
       /\ stats[c].write_accesses + WritesIn(stack, c)
            = asked[c].writes + Cardinality(WritebacksOf(Callers(c)))
  /\ TrafficConserved' <=> \A c \in Caches :
       /\ stats'[c].read_accesses + ReadsIn(stack', c)
            = asked'[c].reads + Cardinality(MissesOf(Callers(c)))'
       /\ stats'[c].write_accesses + WritesIn(stack', c)
            = asked'[c].writes + Cardinality(WritebacksOf(Callers(c)))'
BY DEF TrafficConserved, Waiting, ReadsIn, WritesIn, Number, Positions, MissesOf, WritebacksOf, Callers

EventsFinite ==
  \A c \in Caches : IsFiniteSet(MissesOf(Callers(c))) /\ IsFiniteSet(WritebacksOf(Callers(c)))

TrafficInv == TrafficConserved /\ EventsFinite

(* The numbers that balance are natural numbers.                           *)
LEMMA BalanceTypes ==
  ASSUME CacheInv, EventsFinite, NEW c \in Caches
  PROVE  /\ stats[c].read_accesses \in Nat /\ stats[c].write_accesses \in Nat
         /\ stats[c].read_misses \in Nat /\ stats[c].write_misses \in Nat
         /\ stats[c].writebacks \in Nat
         /\ asked[c].reads \in Nat /\ asked[c].writes \in Nat
         /\ ReadsIn(stack, c) \in Nat /\ WritesIn(stack, c) \in Nat
         /\ Cardinality(MissesOf(Callers(c))) \in Nat
         /\ Cardinality(WritebacksOf(Callers(c))) \in Nat
<1>1. stack \in Seq(Calls) /\ stats[c] \in Counters /\ asked[c] \in [reads : Nat, writes : Nat]
  BY DEF CacheInv, TypeOK
<1>2. ReadsIn(stack, c) \in Nat /\ WritesIn(stack, c) \in Nat
  BY <1>1, NumberType DEF ReadsIn, WritesIn
<1>3. Cardinality(MissesOf(Callers(c))) \in Nat /\ Cardinality(WritebacksOf(Callers(c))) \in Nat
  BY FS_CardinalityType DEF EventsFinite
<1>4. QED BY <1>1, <1>2, <1>3 DEF Counters

(* An access of the program: one more asked, one more waiting.             *)
LEMMA TraceBalances ==
  ASSUME CacheInv, TrafficInv, NEW d \in Caches, NEW a \in Addrs, NEW st \in BOOLEAN,
         Trace(d, a, st)
  PROVE  TrafficInv'
<1> DEFINE call == Call(d, a, Bytes, st)
<1>1. call \in Calls /\ call.cache = d /\ call.store = st
  BY AddrsAssumption DEF Call, Calls, Positive
<1>2. ASSUME NEW c \in Caches
      PROVE  MissesOf(Callers(c))' = MissesOf(Callers(c))
             /\ WritebacksOf(Callers(c))' = WritebacksOf(Callers(c))
  BY DEF Trace, MissesOf, WritebacksOf, Callers
<1>3. EventsFinite'
  BY <1>2 DEF TrafficInv, EventsFinite
<1>4. ASSUME NEW c \in Caches
      PROVE  /\ stats'[c].read_accesses + ReadsIn(stack', c)
                  = asked'[c].reads + Cardinality(MissesOf(Callers(c)))'
             /\ stats'[c].write_accesses + WritesIn(stack', c)
                  = asked'[c].writes + Cardinality(WritebacksOf(Callers(c)))'
  <2>1. stats' = stats /\ stack' = <<call>> /\ stack = <<>>
    BY DEF Trace
  <2>2. /\ Cardinality(MissesOf(Callers(c)))' = Cardinality(MissesOf(Callers(c)))
        /\ Cardinality(WritebacksOf(Callers(c)))' = Cardinality(WritebacksOf(Callers(c)))
    BY <1>2
  <2>3. ReadsIn(stack, c) = 0 /\ WritesIn(stack, c) = 0
    <3>1. Positions(stack, c, FALSE) = {} /\ Positions(stack, c, TRUE) = {}
      BY <2>1 DEF Positions
    <3>2. QED BY <3>1, FS_EmptySet DEF Number, ReadsIn, WritesIn
  <2>4. /\ ReadsIn(stack', c) = TakenRead(call, c)
        /\ WritesIn(stack', c) = TakenWrite(call, c)
    <3> HIDE DEF call
    <3> QED BY <1>1, <2>1, NumberOne DEF TakenRead, TakenWrite, ReadsIn, WritesIn
  <2>5. /\ asked'[c].reads = asked[c].reads + TakenRead(call, c)
        /\ asked'[c].writes = asked[c].writes + TakenWrite(call, c)
    <3>1. asked \in [Caches -> [reads : Nat, writes : Nat]]
      BY DEF CacheInv, TypeOK
    <3>2. CASE st
      BY <1>1, <3>1, <3>2 DEF Trace, Noted, TakenRead, TakenWrite
    <3>3. CASE ~st
      BY <1>1, <3>1, <3>3 DEF Trace, Noted, TakenRead, TakenWrite
    <3>4. QED BY <3>2, <3>3
  <2>6. /\ stats[c].read_accesses + ReadsIn(stack, c)
             = asked[c].reads + Cardinality(MissesOf(Callers(c)))
        /\ stats[c].write_accesses + WritesIn(stack, c)
             = asked[c].writes + Cardinality(WritebacksOf(Callers(c)))
    BY Balances DEF TrafficInv
  <2>7. /\ stats[c].read_accesses \in Nat /\ stats[c].write_accesses \in Nat
        /\ asked[c].reads \in Nat /\ asked[c].writes \in Nat
        /\ Cardinality(MissesOf(Callers(c))) \in Nat
        /\ Cardinality(WritebacksOf(Callers(c))) \in Nat
    BY BalanceTypes DEF TrafficInv
  <2>8. TakenRead(call, c) \in Nat /\ TakenWrite(call, c) \in Nat
    BY DEF TakenRead, TakenWrite, ReadsIn, WritesIn
  <2>9. /\ stats'[c].read_accesses = stats[c].read_accesses
        /\ stats'[c].write_accesses = stats[c].write_accesses
    BY <2>1
  <2> HIDE DEF call
  <2>10. QED BY <2>2, <2>3, <2>4, <2>5, <2>6, <2>7, <2>8, <2>9
<1>5. QED BY <1>3, <1>4, Balances DEF TrafficInv

(* A hit: one more access, one waiting less.                               *)
LEMMA HitBalances ==
  ASSUME CacheInv, TrafficInv, Hit
  PROVE  TrafficInv'
<1>0. PICK call \in Calls : call = Head(stack)
  BY CallsInHierarchy DEF Hit
<1>1. /\ call.cache \in Caches /\ call.store \in BOOLEAN /\ call.bytes \in Nat
      /\ UnitBytes(call.cache, call.bytes) \in Nat
  BY BytesType DEF Calls
<1>2. PICK b \in Nat : b = UnitBytes(call.cache, call.bytes)
  BY <1>1
<1>3. stats' = [stats EXCEPT ![call.cache] = Count(@, call.store, b)]
  BY <1>0, <1>2 DEF Hit
<1>4. stats \in [Caches -> Counters]
  BY DEF CacheInv, TypeOK
<1>5. ASSUME NEW c \in Caches
      PROVE  /\ stats'[c].read_accesses = stats[c].read_accesses + TakenRead(call, c)
             /\ stats'[c].write_accesses = stats[c].write_accesses + TakenWrite(call, c)
             /\ stats'[c].read_misses = stats[c].read_misses
             /\ stats'[c].write_misses = stats[c].write_misses
             /\ stats'[c].writebacks = stats[c].writebacks
  <2>1. CASE c = call.cache
    <3>1. stats'[c] = Count(stats[c], call.store, b) /\ stats[c] \in Counters
      BY <1>1, <1>3, <1>4, <2>1
    <3>2. QED BY <1>1, <2>1, <3>1, CounterEffects DEF TakenRead, TakenWrite, ReadsIn, WritesIn
  <2>2. CASE c # call.cache
    <3>1. stats'[c] = stats[c] /\ stats[c] \in Counters
      BY <1>1, <1>3, <1>4, <2>2
    <3>2. QED BY <2>2, <3>1 DEF TakenRead, TakenWrite, Counters
  <2>3. QED BY <2>1, <2>2
<1>6. ASSUME NEW c \in Caches
      PROVE  MissesOf(Callers(c))' = MissesOf(Callers(c))
             /\ WritebacksOf(Callers(c))' = WritebacksOf(Callers(c))
  BY <1>5 DEF MissesOf, WritebacksOf, Callers
<1>7. EventsFinite'
  BY <1>6 DEF TrafficInv, EventsFinite
<1>8. ASSUME NEW c \in Caches
      PROVE  /\ stats'[c].read_accesses + ReadsIn(stack', c)
                  = asked'[c].reads + Cardinality(MissesOf(Callers(c)))'
             /\ stats'[c].write_accesses + WritesIn(stack', c)
                  = asked'[c].writes + Cardinality(WritebacksOf(Callers(c)))'
  <2>1. stack # <<>> /\ stack' = Tail(stack) /\ asked' = asked /\ stack \in Seq(Calls)
    BY DEF Hit, CacheInv, TypeOK
  <2>2. /\ ReadsIn(stack, c) = ReadsIn(stack', c) + TakenRead(call, c)
        /\ WritesIn(stack, c) = WritesIn(stack', c) + TakenWrite(call, c)
    BY <1>0, <2>1, WaitingTail
  <2>3. /\ stats[c].read_accesses + ReadsIn(stack, c)
             = asked[c].reads + Cardinality(MissesOf(Callers(c)))
        /\ stats[c].write_accesses + WritesIn(stack, c)
             = asked[c].writes + Cardinality(WritebacksOf(Callers(c)))
    BY Balances DEF TrafficInv
  <2>4. stats[c].read_accesses \in Nat /\ stats[c].write_accesses \in Nat
    BY BalanceTypes DEF TrafficInv
  <2>5. /\ TakenRead(call, c) \in Nat /\ TakenWrite(call, c) \in Nat
        /\ ReadsIn(stack', c) \in Nat /\ WritesIn(stack', c) \in Nat
    <3>1. Tail(stack) \in Seq(Calls)
      BY CallsInHierarchy DEF Hit
    <3>2. QED BY <2>1, <3>1, NumberType DEF TakenRead, TakenWrite, ReadsIn, WritesIn
  <2>6. /\ Cardinality(MissesOf(Callers(c)))' = Cardinality(MissesOf(Callers(c)))
        /\ Cardinality(WritebacksOf(Callers(c)))' = Cardinality(WritebacksOf(Callers(c)))
    BY <1>6
  <2>7. /\ stats'[c].read_accesses = stats[c].read_accesses + TakenRead(call, c)
        /\ stats'[c].write_accesses = stats[c].write_accesses + TakenWrite(call, c)
    BY <1>5
  <2>8. asked'[c].reads = asked[c].reads /\ asked'[c].writes = asked[c].writes
    BY <2>1
  <2>9. QED BY <2>2, <2>3, <2>4, <2>5, <2>6, <2>7, <2>8
<1>9. QED BY <1>7, <1>8, Balances DEF TrafficInv

(* What a miss of d sends to c: a read if c is its handler, and before it  *)
(* a write if the victim is dirty.                                         *)
Sent(d, c) == IF d \in Callers(c) THEN 1 ELSE 0
SentBack(d, c, dirty) == IF dirty /\ d \in Callers(c) THEN 1 ELSE 0

LEMMA MissSends ==
  ASSUME NEW d \in Caches, NEW c \in Caches, NEW a \in Nat, NEW v \in Line \cup {Empty},
         NEW q \in Seq(Calls)
  PROVE  /\ ReadsIn(CallsOfMiss(d, Unit(d, a), v) \o q, c) = ReadsIn(q, c) + Sent(d, c)
         /\ WritesIn(CallsOfMiss(d, Unit(d, a), v) \o q, c)
              = WritesIn(q, c) + SentBack(d, c, IsDirty(v))
<1> DEFINE back == WriteBacks(d, v)
           fill == Fills(d, Unit(d, a))
<1>1. back \in Seq(Calls) /\ fill \in Seq(Calls) /\ CallsOfMiss(d, Unit(d, a), v) \in Seq(Calls)
  BY CallTypes
<1>2. CallsOfMiss(d, Unit(d, a), v) = back \o fill
  BY DEF CallsOfMiss
<1>3. ReadsIn(fill, c) = Sent(d, c) /\ WritesIn(fill, c) = 0
  <2>1. /\ DOMAIN fill = 1 .. Len(Handlers[d])
        /\ \A i \in DOMAIN fill : fill[i].cache = Handlers[d][i] /\ fill[i].store = FALSE
    BY DEF Fills, Call
  <2> HIDE DEF fill
  <2>2. /\ Number(fill, c, FALSE) = IF d \in Callers(c) THEN 1 ELSE 0
        /\ Number(fill, c, TRUE) = 0
    <3>1. TRUE # FALSE
      OBVIOUS
    <3>2. QED BY <2>1, <3>1, NumberToHandlers, Zenon
  <2>3. QED BY <2>2, Zenon DEF ReadsIn, WritesIn, Sent
<1>4. ReadsIn(back, c) = 0 /\ WritesIn(back, c) = SentBack(d, c, IsDirty(v))
  <2>1. CASE IsDirty(v)
    <3>1. /\ DOMAIN back = 1 .. Len(Handlers[d])
          /\ \A i \in DOMAIN back : back[i].cache = Handlers[d][i] /\ back[i].store = TRUE
      BY <2>1 DEF WriteBacks, Call
    <3> HIDE DEF back
    <3>2. /\ Number(back, c, TRUE) = IF d \in Callers(c) THEN 1 ELSE 0
          /\ Number(back, c, FALSE) = 0
      BY <3>1, NumberToHandlers, Zenon
    <3>3. QED BY <2>1, <3>2, Zenon DEF ReadsIn, WritesIn, SentBack
  <2>2. CASE ~IsDirty(v)
    <3>1. back = <<>>
      BY <2>2 DEF WriteBacks
    <3>2. Positions(back, c, TRUE) = {} /\ Positions(back, c, FALSE) = {}
      BY <3>1 DEF Positions
    <3>3. QED BY <2>2, <3>2, FS_EmptySet DEF ReadsIn, WritesIn, Number, SentBack
  <2>3. QED BY <2>1, <2>2
<1> HIDE DEF back, fill
<1>5. back \o fill \in Seq(Calls)
  BY <1>1, <1>2
<1>6. /\ ReadsIn(back \o fill, c) = ReadsIn(back, c) + ReadsIn(fill, c)
      /\ WritesIn(back \o fill, c) = WritesIn(back, c) + WritesIn(fill, c)
  BY <1>1, WaitingConcat
<1>7. PICK all \in Seq(Calls) : all = back \o fill
  BY <1>5
<1>8. /\ ReadsIn(all \o q, c) = ReadsIn(all, c) + ReadsIn(q, c)
      /\ WritesIn(all \o q, c) = WritesIn(all, c) + WritesIn(q, c)
  BY WaitingConcat
<1>9. Sent(d, c) \in Nat /\ SentBack(d, c, IsDirty(v)) \in Nat
  BY DEF Sent, SentBack
<1>10. ReadsIn(q, c) \in Nat /\ WritesIn(q, c) \in Nat
  BY NumberType DEF ReadsIn, WritesIn
<1>11. ReadsIn(all, c) = Sent(d, c) /\ WritesIn(all, c) = SentBack(d, c, IsDirty(v))
  BY <1>3, <1>4, <1>6, <1>7, <1>9
<1>12. QED BY <1>2, <1>7, <1>8, <1>9, <1>10, <1>11

(* A miss: one more access and one waiting less, one more miss and, for    *)
(* each handler, one more read waiting; likewise for the write-back.       *)
LEMMA MissBalances ==
  ASSUME CacheInv, TrafficInv, Miss
  PROVE  TrafficInv'
<1>0. PICK call \in Calls : call = Head(stack)
  BY CallsInHierarchy DEF Miss
<1>1. PICK d \in Caches : d = call.cache
  BY DEF Calls
<1>2. /\ call.addr \in Nat /\ call.store \in BOOLEAN /\ UnitBytes(d, call.bytes) \in Nat
      /\ Tail(stack) \in Seq(Calls)
  BY BytesType, CallsInHierarchy DEF Calls, Miss
<1>3. PICK s \in Slots(d) : MissAt(d, Unit(d, call.addr), s, call)
  BY <1>0, <1>1, MissWrites
<1>4. PICK v \in Line \cup {Empty} : v = tags[d][s]
  BY <1>3 DEF CacheInv, TypeOK
<1>5. PICK wb \in BOOLEAN : wb = IsDirty(v)
  <2>1. IsDirty(v) \in BOOLEAN
    BY Zenon DEF IsDirty
  <2>2. QED BY <2>1, Zenon
<1>6. PICK b \in Nat : b = UnitBytes(d, call.bytes)
  BY <1>2
<1>7. /\ stats' = [stats EXCEPT ![d] = CountMiss(Count(@, call.store, b), call.store, wb)]
      /\ stack' = CallsOfMiss(d, Unit(d, call.addr), v) \o Tail(stack)
      /\ asked' = asked
  BY <1>3, <1>4, <1>5, <1>6 DEF MissAt
<1>8. stats \in [Caches -> Counters]
  BY DEF CacheInv, TypeOK
<1>9. PICK k \in Counters : k = stats[d]
  BY <1>8
<1>10. /\ stats'[d] = CountMiss(Count(k, call.store, b), call.store, wb)
       /\ \A c \in Caches : c # d => stats'[c] = stats[c]
  BY <1>7, <1>8, <1>9
<1>11. /\ stats'[d].read_accesses = k.read_accesses + IF call.store THEN 0 ELSE 1
       /\ stats'[d].write_accesses = k.write_accesses + IF call.store THEN 1 ELSE 0
       /\ stats'[d].read_misses + stats'[d].write_misses = k.read_misses + k.write_misses + 1
       /\ stats'[d].writebacks = k.writebacks + IF wb THEN 1 ELSE 0
  <2>1. PICK m : m = stats'[d]
    OBVIOUS
  <2>2. PICK st \in BOOLEAN : st = call.store
    BY <1>2
  <2>3. /\ m.read_accesses = k.read_accesses + IF st THEN 0 ELSE 1
        /\ m.write_accesses = k.write_accesses + IF st THEN 1 ELSE 0
        /\ m.read_misses + m.write_misses = k.read_misses + k.write_misses + 1
        /\ m.writebacks = k.writebacks + IF wb THEN 1 ELSE 0
    <3>1. m = CountMiss(Count(k, st, b), st, wb)
      BY <1>10, <2>1, <2>2, Zenon
    <3>2. QED BY <3>1, MissEffects
  <2>4. QED BY <2>1, <2>2, <2>3, Zenon
<1>12. ASSUME NEW c \in Caches
       PROVE  /\ stats'[c].read_accesses = stats[c].read_accesses + TakenRead(call, c)
              /\ stats'[c].write_accesses = stats[c].write_accesses + TakenWrite(call, c)
  <2>1. CASE c = d
    BY <1>1, <1>2, <1>9, <1>11, <2>1 DEF TakenRead, TakenWrite
  <2>2. CASE c # d
    <3>1. stats'[c] = stats[c] /\ stats[c] \in Counters
      BY <1>8, <1>10, <2>2
    <3>2. QED BY <1>1, <2>2, <3>1 DEF TakenRead, TakenWrite, Counters
  <2>3. QED BY <2>1, <2>2
<1>13. /\ Misses(stats)[d] \in Nat /\ Writebacks(stats)[d] \in Nat
       /\ Misses(stats')[d] = Misses(stats)[d] + 1
       /\ Writebacks(stats')[d] = Writebacks(stats)[d] + IF wb THEN 1 ELSE 0
       /\ \A p \in Caches : p # d =>
            Misses(stats')[p] = Misses(stats)[p] /\ Writebacks(stats')[p] = Writebacks(stats)[p]
  BY <1>9, <1>10, <1>11 DEF Misses, Writebacks, Counters
<1>14. ASSUME NEW c \in Caches
       PROVE  /\ IsFiniteSet(MissesOf(Callers(c)))'
              /\ Cardinality(MissesOf(Callers(c)))' = Cardinality(MissesOf(Callers(c))) + Sent(d, c)
  <2>1. PICK S \in SUBSET Caches : S = Callers(c)
    BY DEF Callers
  <2>2. /\ MissesOf(Callers(c)) = Numbered(S, Misses(stats))
        /\ MissesOf(Callers(c))' = Numbered(S, Misses(stats'))
    <3>1. MissesOf(S) = Numbered(S, Misses(stats)) /\ MissesOf(S)' = Numbered(S, Misses(stats'))
      BY EventsDef
    <3>2. MissesOf(S) = MissesOf(Callers(c)) /\ MissesOf(S)' = MissesOf(Callers(c))'
      BY <2>1 DEF MissesOf, Callers
    <3>3. QED BY <3>1, <3>2
  <2>3. IsFiniteSet(Numbered(S, Misses(stats))) /\ Cardinality(Numbered(S, Misses(stats))) \in Nat
    BY <2>2, FS_CardinalityType DEF TrafficInv, EventsFinite
  <2>4. CASE d \in S
    <3>1. /\ IsFiniteSet(Numbered(S, Misses(stats')))
          /\ Cardinality(Numbered(S, Misses(stats'))) = Cardinality(Numbered(S, Misses(stats))) + 1
      BY <1>13, <2>3, <2>4, OneMore
    <3>2. QED BY <2>1, <2>2, <2>4, <3>1 DEF Sent
  <2>5. CASE d \notin S
    <3>1. Numbered(S, Misses(stats')) = Numbered(S, Misses(stats))
      BY <1>13, <2>5, NoneMore
    <3>2. QED BY <2>1, <2>2, <2>3, <2>5, <3>1 DEF Sent
  <2>6. QED BY <2>4, <2>5
<1>15. ASSUME NEW c \in Caches
       PROVE  /\ IsFiniteSet(WritebacksOf(Callers(c)))'
              /\ Cardinality(WritebacksOf(Callers(c)))'
                   = Cardinality(WritebacksOf(Callers(c))) + SentBack(d, c, wb)
  <2>1. PICK S \in SUBSET Caches : S = Callers(c)
    BY DEF Callers
  <2>2. /\ WritebacksOf(Callers(c)) = Numbered(S, Writebacks(stats))
        /\ WritebacksOf(Callers(c))' = Numbered(S, Writebacks(stats'))
    <3>1. /\ WritebacksOf(S) = Numbered(S, Writebacks(stats))
          /\ WritebacksOf(S)' = Numbered(S, Writebacks(stats'))
      BY EventsDef
    <3>2. WritebacksOf(S) = WritebacksOf(Callers(c)) /\ WritebacksOf(S)' = WritebacksOf(Callers(c))'
      BY <2>1 DEF WritebacksOf, Callers
    <3>3. QED BY <3>1, <3>2
  <2>3. /\ IsFiniteSet(Numbered(S, Writebacks(stats)))
        /\ Cardinality(Numbered(S, Writebacks(stats))) \in Nat
    BY <2>2, FS_CardinalityType DEF TrafficInv, EventsFinite
  <2>4. CASE wb /\ d \in S
    <3>1. /\ IsFiniteSet(Numbered(S, Writebacks(stats')))
          /\ Cardinality(Numbered(S, Writebacks(stats')))
               = Cardinality(Numbered(S, Writebacks(stats))) + 1
      BY <1>13, <2>3, <2>4, OneMore
    <3>2. QED BY <2>1, <2>2, <2>4, <3>1 DEF SentBack
  <2>5. CASE ~(wb /\ d \in S)
    <3>1. \A p \in S : Writebacks(stats')[p] = Writebacks(stats)[p]
      BY <1>13, <2>5
    <3>2. Numbered(S, Writebacks(stats')) = Numbered(S, Writebacks(stats))
      BY <3>1, NoneMore
    <3>3. QED BY <2>1, <2>2, <2>3, <2>5, <3>2 DEF SentBack
  <2>6. QED BY <2>4, <2>5
<1>16. EventsFinite'
  BY <1>14, <1>15 DEF EventsFinite
<1>17. ASSUME NEW c \in Caches
       PROVE  /\ stats'[c].read_accesses + ReadsIn(stack', c)
                   = asked'[c].reads + Cardinality(MissesOf(Callers(c)))'
              /\ stats'[c].write_accesses + WritesIn(stack', c)
                   = asked'[c].writes + Cardinality(WritebacksOf(Callers(c)))'
  <2>1. stack # <<>> /\ stack \in Seq(Calls)
    BY DEF Miss, CacheInv, TypeOK
  <2>2. /\ ReadsIn(stack, c) = ReadsIn(Tail(stack), c) + TakenRead(call, c)
        /\ WritesIn(stack, c) = WritesIn(Tail(stack), c) + TakenWrite(call, c)
    BY <1>0, <2>1, WaitingTail
  <2>3. /\ ReadsIn(stack', c) = ReadsIn(Tail(stack), c) + Sent(d, c)
        /\ WritesIn(stack', c) = WritesIn(Tail(stack), c) + SentBack(d, c, wb)
    <3>1. PICK q \in Seq(Calls) : q = Tail(stack)
      BY <1>2
    <3>2. /\ ReadsIn(CallsOfMiss(d, Unit(d, call.addr), v) \o q, c) = ReadsIn(q, c) + Sent(d, c)
          /\ WritesIn(CallsOfMiss(d, Unit(d, call.addr), v) \o q, c)
               = WritesIn(q, c) + SentBack(d, c, IsDirty(v))
      BY <1>2, MissSends
    <3>3. QED BY <1>5, <1>7, <3>1, <3>2, Zenon
  <2>4. /\ stats[c].read_accesses + ReadsIn(stack, c)
             = asked[c].reads + Cardinality(MissesOf(Callers(c)))
        /\ stats[c].write_accesses + WritesIn(stack, c)
             = asked[c].writes + Cardinality(WritebacksOf(Callers(c)))
    BY Balances DEF TrafficInv
  <2>5. /\ stats[c].read_accesses \in Nat /\ stats[c].write_accesses \in Nat
        /\ asked[c].reads \in Nat /\ asked[c].writes \in Nat
        /\ Cardinality(MissesOf(Callers(c))) \in Nat
        /\ Cardinality(WritebacksOf(Callers(c))) \in Nat
    BY BalanceTypes DEF TrafficInv
  <2>6. /\ TakenRead(call, c) \in Nat /\ TakenWrite(call, c) \in Nat
        /\ Sent(d, c) \in Nat /\ SentBack(d, c, wb) \in Nat
        /\ ReadsIn(Tail(stack), c) \in Nat /\ WritesIn(Tail(stack), c) \in Nat
    BY <1>2, NumberType DEF TakenRead, TakenWrite, Sent, SentBack, ReadsIn, WritesIn
  <2>7. PICK back \in Nat : back = SentBack(d, c, wb)
    BY <2>6
  <2>8. /\ stats'[c].read_accesses = stats[c].read_accesses + TakenRead(call, c)
        /\ stats'[c].write_accesses = stats[c].write_accesses + TakenWrite(call, c)
        /\ asked'[c].reads = asked[c].reads /\ asked'[c].writes = asked[c].writes
    BY <1>7, <1>12
  <2>9. /\ Cardinality(MissesOf(Callers(c)))' = Cardinality(MissesOf(Callers(c))) + Sent(d, c)
        /\ Cardinality(WritebacksOf(Callers(c)))' = Cardinality(WritebacksOf(Callers(c))) + back
    BY <1>14, <1>15, <2>7
  <2>10. WritesIn(stack', c) = WritesIn(Tail(stack), c) + back
    BY <2>3, <2>7
  <2>11. /\ ReadsIn(stack', c) = ReadsIn(Tail(stack), c) + Sent(d, c)
         /\ ReadsIn(Tail(stack), c) \in Nat /\ WritesIn(Tail(stack), c) \in Nat
         /\ TakenRead(call, c) \in Nat /\ TakenWrite(call, c) \in Nat /\ Sent(d, c) \in Nat
    BY <2>3, <2>6
  <2>12. QED BY <2>2, <2>4, <2>5, <2>8, <2>9, <2>10, <2>11
<1>18. QED BY <1>16, <1>17, Balances DEF TrafficInv

(* After a reset nothing has been asked, answered or missed.               *)
LEMMA ZeroBalances ==
  ASSUME stack = <<>>, stats = [c \in Caches |-> Zero],
         asked = [c \in Caches |-> [reads |-> 0, writes |-> 0]]
  PROVE  TrafficInv
<1>1. ASSUME NEW c \in Caches
      PROVE  MissesOf(Callers(c)) = {} /\ WritebacksOf(Callers(c)) = {}
  BY DEF MissesOf, WritebacksOf, Callers, Zero
<1>2. ASSUME NEW c \in Caches PROVE ReadsIn(stack, c) = 0 /\ WritesIn(stack, c) = 0
  <2>1. Positions(stack, c, FALSE) = {} /\ Positions(stack, c, TRUE) = {}
    BY DEF Positions
  <2>2. QED BY <2>1, FS_EmptySet DEF ReadsIn, WritesIn, Number
<1>3. EventsFinite
  BY <1>1, FS_EmptySet DEF EventsFinite
<1>4. ASSUME NEW c \in Caches
      PROVE  /\ stats[c].read_accesses + ReadsIn(stack, c)
                  = asked[c].reads + Cardinality(MissesOf(Callers(c)))
             /\ stats[c].write_accesses + WritesIn(stack, c)
                  = asked[c].writes + Cardinality(WritebacksOf(Callers(c)))
  BY <1>1, <1>2, FS_EmptySet DEF Zero
<1>5. QED BY <1>3, <1>4, Balances DEF TrafficInv

LEMMA ResetBalances ==
  ASSUME Reset
  PROVE  TrafficInv'
<1>1. ASSUME NEW c \in Caches
      PROVE  MissesOf(Callers(c))' = {} /\ WritebacksOf(Callers(c))' = {}
  BY DEF Reset, MissesOf, WritebacksOf, Callers, Zero
<1>2. ASSUME NEW c \in Caches PROVE ReadsIn(stack', c) = 0 /\ WritesIn(stack', c) = 0
  <2>1. Positions(stack', c, FALSE) = {} /\ Positions(stack', c, TRUE) = {}
    BY DEF Reset, Positions
  <2>2. QED BY <2>1, FS_EmptySet DEF ReadsIn, WritesIn, Number
<1>3. EventsFinite'
  BY <1>1, FS_EmptySet DEF EventsFinite
<1>4. ASSUME NEW c \in Caches
      PROVE  /\ stats'[c].read_accesses + ReadsIn(stack', c)
                  = asked'[c].reads + Cardinality(MissesOf(Callers(c)))'
             /\ stats'[c].write_accesses + WritesIn(stack', c)
                  = asked'[c].writes + Cardinality(WritebacksOf(Callers(c)))'
  BY <1>1, <1>2, FS_EmptySet DEF Reset, Zero
<1>5. QED BY <1>3, <1>4, Balances DEF TrafficInv

(* The statistics of any hierarchy add up: every access of every level is  *)
(* one of the program, or a miss or a write-back of a level above, and the *)
(* calls still on the stack are what is missing.                           *)
THEOREM TrafficCorrect == Spec => []TrafficConserved
<1>1. Init => TrafficInv
  BY ZeroBalances DEF Init
<1>2. CacheInv /\ TrafficInv /\ [Next]_vars => TrafficInv'
  <2> SUFFICES ASSUME CacheInv, TrafficInv, [Next]_vars PROVE TrafficInv'
    OBVIOUS
  <2>1. CASE \E c \in ICaches, a \in Addrs : Trace(c, a, FALSE)
    BY <2>1, TraceBalances, RootsAssumption
  <2>2. CASE \E c \in DCaches, a \in Addrs, store \in BOOLEAN : Trace(c, a, store)
    BY <2>2, TraceBalances, RootsAssumption
  <2>3. CASE Hit
    BY <2>3, HitBalances
  <2>4. CASE Miss
    BY <2>4, MissBalances
  <2>5. CASE Reset
    BY <2>5, ResetBalances
  <2>6. CASE UNCHANGED vars
    <3>1. stats' = stats /\ stack' = stack /\ asked' = asked
      BY <2>6 DEF vars
    <3>2. ASSUME NEW c \in Caches
          PROVE  MissesOf(Callers(c))' = MissesOf(Callers(c))
                 /\ WritebacksOf(Callers(c))' = WritebacksOf(Callers(c))
      BY <3>1 DEF MissesOf, WritebacksOf, Callers
    <3>3. EventsFinite'
      BY <3>2 DEF TrafficInv, EventsFinite
    <3>4. QED BY <3>1, <3>2, <3>3, Balances DEF TrafficInv
  <2>7. QED
    BY <2>1, <2>2, <2>3, <2>4, <2>5, <2>6 DEF Next
<1>3. QED
  BY <1>1, <1>2, CacheInvariant, PTL DEF Spec, TrafficInv
=============================================================================
