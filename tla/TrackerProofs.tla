--------------------------- MODULE TrackerProofs ---------------------------
(***************************************************************************)
(* Proofs about Tracker, for any registers, words, program and number of   *)
(* nodes: reference counts are exact at every turn of cleanup, no freed    *)
(* node is ever reached, and a word's history is that of its last store.   *)
(***************************************************************************)
EXTENDS Tracker, FiniteSetTheorems, TLAPS

Refs == Nodes \cup {Null}

(* The parts References adds up.                                           *)
RegRefs(n) == {r \in Regs : regs[r] = n /\ dest # <<"reg", r>>}
CellRefs(n) == {c \in Cells : mem[c] = n /\ dest # <<"mem", c>>}
FirstRefs(n) == {m \in Live : node[m].c1 = n}
SecondRefs(n) == {m \in Live : node[m].c2 = n}
QueueRefs(n) == {k \in DOMAIN queue : queue[k] = n}

(* What the variables hold.  A node is made exactly while a replacement is *)
(* under way, and the queue belongs to it.                                 *)
HeapTypes ==
  /\ regs \in [Regs -> Refs] /\ mem \in [Cells -> Refs]
  /\ node \in [Nodes -> Node \cup {Free}]
  /\ dest \in Dests \cup {NoDest}
  /\ queue \in Seq(Refs)
  /\ dest = NoDest => new = Null /\ queue = <<>>
  /\ dest # NoDest => new \in Live

(* The inductive invariant of the heap: the counts need that nothing       *)
(* dangles, for the node taken from the allocator to start unreferenced;   *)
(* that nothing dangles needs the counts, for the node freed to be the     *)
(* only one to know.                                                       *)
HeapInv == HeapTypes /\ NoDangling /\ CountsExact

-----------------------------------------------------------------------------
(* Lemmas about the definitions                                            *)

LEMMA FreeIsNoNode == Free \notin Node
<1>1. SUFFICES ASSUME Free \in Node PROVE FALSE
  OBVIOUS
<1>2. DOMAIN Free = {"free"}
  BY DEF Free
<1>3. DOMAIN Free = {"insn", "c1", "c2", "refc"}
  BY <1>1 DEF Node
<1>4. QED BY <1>2, <1>3

LEMMA Recounted ==
  ASSUME NEW x \in Node, NEW y, NEW k \in Int, x.refc + k >= 0,
         y = [x EXCEPT !.refc = @ + k]
  PROVE  /\ y \in Node /\ y.insn = x.insn /\ y.c1 = x.c1 /\ y.c2 = x.c2
         /\ y.refc = x.refc + k
<1>1. x.refc \in Nat
  BY DEF Node
<1>2. x.refc + k \in Nat
  BY <1>1
<1>3. QED BY <1>2 DEF Node

LEMMA NoDestIsNone ==
  /\ NoDest \notin Dests
  /\ \A r : NoDest # <<"reg", r>>
  /\ \A c : NoDest # <<"mem", c>>
BY DEF NoDest, Dests

LEMMA AddOne ==
  ASSUME NEW S, IsFiniteSet(S), NEW x, x \notin S
  PROVE  IsFiniteSet(S \cup {x}) /\ Cardinality(S \cup {x}) = Cardinality(S) + 1
BY FS_AddElement

LEMMA RemoveOne ==
  ASSUME NEW S, IsFiniteSet(S), NEW x, x \in S
  PROVE  IsFiniteSet(S \ {x}) /\ Cardinality(S \ {x}) = Cardinality(S) - 1
BY FS_RemoveElement

LEMMA RefsFinite ==
  ASSUME HeapTypes, NEW n
  PROVE  /\ IsFiniteSet(RegRefs(n)) /\ IsFiniteSet(CellRefs(n))
         /\ IsFiniteSet(FirstRefs(n)) /\ IsFiniteSet(SecondRefs(n))
         /\ IsFiniteSet(QueueRefs(n))
<1>1. /\ RegRefs(n) \in SUBSET Regs /\ CellRefs(n) \in SUBSET Cells
      /\ FirstRefs(n) \in SUBSET Nodes /\ SecondRefs(n) \in SUBSET Nodes
  BY DEF RegRefs, CellRefs, FirstRefs, SecondRefs, Live
<1>2. QueueRefs(n) \in SUBSET (1 .. Len(queue)) /\ Len(queue) \in Nat
  BY DEF QueueRefs, HeapTypes
<1>3. IsFiniteSet(1 .. Len(queue))
  BY <1>2, FS_Interval
<1>4. QED BY <1>1, <1>2, <1>3, FiniteAssumption, FS_Subset

LEMMA ReferencesSum ==
  ASSUME NEW n
  PROVE  References(n) = Cardinality(RegRefs(n)) + Cardinality(CellRefs(n))
                         + Cardinality(FirstRefs(n)) + Cardinality(SecondRefs(n))
                         + Cardinality(QueueRefs(n)) + One(new = n)
BY DEF References, RegRefs, CellRefs, FirstRefs, SecondRefs, QueueRefs

LEMMA RefCards ==
  ASSUME HeapTypes, NEW n
  PROVE  /\ Cardinality(RegRefs(n)) \in Nat /\ Cardinality(CellRefs(n)) \in Nat
         /\ Cardinality(FirstRefs(n)) \in Nat /\ Cardinality(SecondRefs(n)) \in Nat
         /\ Cardinality(QueueRefs(n)) \in Nat
BY RefsFinite, FS_CardinalityType

-----------------------------------------------------------------------------
(* Replace: the new node is referred to by the replacement alone, and      *)
(* refers to its operands; the place's old reference moves to the queue.   *)
LEMMA ReplaceStep ==
  ASSUME HeapInv, dest = NoDest, NEW d \in Dests, NEW i \in Insns,
         NEW a \in Live \cup {Null}, NEW b \in Live \cup {Null}, Replace(d, i, a, b)
  PROVE  /\ HeapInv' /\ dest' = d /\ new' \in Live' /\ node'[new'].insn = i
         /\ \A n \in Live : n \in Live' /\ node'[n].insn = node[n].insn
<1>p. PICK id \in {n \in Nodes : node[n] = Free} :
      /\ node' = [n \in Nodes |->
           IF n = id THEN [insn |-> i, c1 |-> a, c2 |-> b, refc |-> 1]
           ELSE IF node[n] = Free THEN Free
           ELSE [node[n] EXCEPT !.refc = @ + Taken(n, a, b)]]
      /\ new' = id
      /\ dest' = d
      /\ queue' = IF Held(d) = Null THEN <<>> ELSE <<Held(d)>>
      /\ UNCHANGED <<regs, mem>>
  BY DEF Replace
<1>0. HeapTypes /\ NoDangling /\ CountsExact
  BY DEF HeapInv
<1>1. /\ id \in Nodes /\ id \notin Live /\ id # Null
      /\ a \in Refs /\ b \in Refs /\ a # id /\ b # id
  BY <1>p, NullAssumption DEF Live, Refs
<1>2. /\ node'[id] = [insn |-> i, c1 |-> a, c2 |-> b, refc |-> 1]
      /\ node'[id] \in Node
  BY <1>p, <1>1 DEF Node, Refs
<1>3. \A n \in Live : /\ node[n] \in Node /\ n # id
                      /\ node'[n] = [node[n] EXCEPT !.refc = @ + Taken(n, a, b)]
  BY <1>p, <1>0, <1>1 DEF HeapTypes, Live
<1>4. \A n \in Live : /\ node'[n] \in Node
                      /\ node'[n].c1 = node[n].c1 /\ node'[n].c2 = node[n].c2
                      /\ node'[n].insn = node[n].insn
                      /\ node'[n].refc = node[n].refc + Taken(n, a, b)
  <2> TAKE n \in Live
  <2>1. Taken(n, a, b) \in Nat
    BY DEF Taken, One
  <2>2. node[n] \in Node /\ node'[n] = [node[n] EXCEPT !.refc = @ + Taken(n, a, b)]
    BY <1>3
  <2>3. node[n].refc \in Nat
    BY <2>2 DEF Node
  <2>4. node[n].refc + Taken(n, a, b) >= 0
    BY <2>1, <2>3
  <2>5. QED BY <2>1, <2>2, <2>4, Recounted
<1>5. \A n \in Nodes : n \notin Live /\ n # id => node'[n] = Free
  BY <1>p DEF Live
<1>6. Live' = Live \cup {id}
  <2>1. \A n \in Live \cup {id} : node'[n] # Free /\ n \in Nodes
    BY <1>1, <1>2, <1>4, FreeIsNoNode DEF Live
  <2>2. QED BY <1>5, <2>1 DEF Live
<1>7. Held(d) \in Live \cup {Null}
  BY <1>0, NoDestIsNone DEF Held, NoDangling, Dests
<1>8. HeapTypes'
  <2>1. node' \in [Nodes -> Node \cup {Free}]
    <3>1. \A n \in Nodes : node'[n] \in Node \cup {Free}
      BY <1>2, <1>4, <1>5
    <3>2. node' = [n \in Nodes |-> node'[n]]
      BY <1>p
    <3>3. QED BY <3>1, <3>2
  <2>2. queue' \in Seq(Refs)
    <3>1. queue' = <<>> \/ (queue' = <<Held(d)>> /\ Held(d) # Null)
      BY <1>p
    <3>2. Held(d) \in Refs
      BY <1>7 DEF Live, Refs
    <3>3. CASE queue' = <<>>
      BY <3>3
    <3>4. CASE queue' = <<Held(d)>>
      BY <3>2, <3>4
    <3>5. QED BY <3>1, <3>3, <3>4
  <2>3. dest' # NoDest /\ dest' \in Dests /\ new' \in Live'
    BY <1>p, <1>6, NoDestIsNone
  <2>4. QED BY <1>p, <1>0, <2>1, <2>2, <2>3 DEF HeapTypes
<1>9. NoDangling'
  <2>1. \A r \in Regs : regs'[r] \in Live' \cup {Null}
    BY <1>p, <1>0, <1>6, NoDestIsNone DEF NoDangling
  <2>2. \A c \in Cells : mem'[c] \in Live' \cup {Null}
    BY <1>p, <1>0, <1>6, NoDestIsNone DEF NoDangling
  <2>3. \A n \in Live' : node'[n].c1 \in Live' \cup {Null} /\ node'[n].c2 \in Live' \cup {Null}
    <3>1. \A n \in Live : node'[n].c1 \in Live' \cup {Null} /\ node'[n].c2 \in Live' \cup {Null}
      BY <1>0, <1>4, <1>6 DEF NoDangling
    <3>2. node'[id].c1 = a /\ node'[id].c2 = b
      BY <1>2
    <3>3. QED BY <1>6, <3>1, <3>2
  <2>4. \A k \in DOMAIN queue' : queue'[k] \in Live' \cup {Null}
    <3>1. queue' = <<>> \/ queue' = <<Held(d)>>
      BY <1>p
    <3>2. QED BY <1>6, <1>7, <3>1
  <2>5. QED BY <2>1, <2>2, <2>3, <2>4 DEF NoDangling
<1>10. \A n \in Nodes : n \notin Live =>
          /\ \A r \in Regs : regs[r] # n
          /\ \A c \in Cells : mem[c] # n
          /\ \A m \in Live : node[m].c1 # n /\ node[m].c2 # n
          /\ Held(d) # n
  BY <1>0, <1>7, NoDestIsNone, NullAssumption DEF NoDangling
<1>11. ASSUME NEW n \in Live
       PROVE  node'[n].refc > 0 /\ node'[n].refc = References(n)'
  <2>1. node[n].refc \in Nat /\ node[n].refc > 0 /\ node[n].refc = References(n)
    BY <1>0, <1>3, <1>11 DEF CountsExact, Node
  <2>2. n # Null /\ n # id /\ n \in Nodes
    BY <1>1, <1>11, NullAssumption DEF Live
  <2>3. Cardinality(FirstRefs(n)') = Cardinality(FirstRefs(n)) + One(n = a)
    <3>1. CASE n = a
      <4>1. FirstRefs(n)' = FirstRefs(n) \cup {id} /\ id \notin FirstRefs(n)
        BY <1>1, <1>2, <1>4, <1>6, <3>1 DEF FirstRefs
      <4>2. QED BY <1>0, <3>1, <4>1, RefsFinite, AddOne DEF One
    <3>2. CASE n # a
      <4>1. FirstRefs(n)' = FirstRefs(n)
        BY <1>1, <1>2, <1>4, <1>6, <3>2 DEF FirstRefs
      <4>2. QED BY <1>0, <3>2, <4>1, RefCards DEF One
    <3>3. QED BY <3>1, <3>2
  <2>4. Cardinality(SecondRefs(n)') = Cardinality(SecondRefs(n)) + One(n = b)
    <3>1. CASE n = b
      <4>1. SecondRefs(n)' = SecondRefs(n) \cup {id} /\ id \notin SecondRefs(n)
        BY <1>1, <1>2, <1>4, <1>6, <3>1 DEF SecondRefs
      <4>2. QED BY <1>0, <3>1, <4>1, RefsFinite, AddOne DEF One
    <3>2. CASE n # b
      <4>1. SecondRefs(n)' = SecondRefs(n)
        BY <1>1, <1>2, <1>4, <1>6, <3>2 DEF SecondRefs
      <4>2. QED BY <1>0, <3>2, <4>1, RefCards DEF One
    <3>3. QED BY <3>1, <3>2
  <2>5. Cardinality(QueueRefs(n)) = 0 /\ One(new = n) = 0 /\ One(new' = n) = 0
    <3>1. QueueRefs(n) = {}
      BY <1>0 DEF HeapTypes, QueueRefs
    <3>2. new # n /\ new' # n
      BY <1>p, <1>0, <2>2 DEF HeapTypes
    <3>3. QED BY <3>1, <3>2, FS_EmptySet DEF One
  <2>6. Cardinality(QueueRefs(n)') = One(Held(d) = n)
    <3>1. CASE Held(d) = n
      <4>1. queue' = <<n>>
        BY <1>p, <2>2, <3>1
      <4>2. QueueRefs(n)' = {1}
        BY <4>1 DEF QueueRefs
      <4>3. QED BY <3>1, <4>2, FS_Singleton DEF One
    <3>2. CASE Held(d) # n
      <4>1. QueueRefs(n)' = {}
        BY <1>p, <3>2 DEF QueueRefs
      <4>2. QED BY <3>2, <4>1, FS_EmptySet DEF One
    <3>3. QED BY <3>1, <3>2
  <2>7. Cardinality(RegRefs(n)') + Cardinality(CellRefs(n)') + One(Held(d) = n)
          = Cardinality(RegRefs(n)) + Cardinality(CellRefs(n))
    <3>1. ASSUME NEW r \in Regs, d = <<"reg", r>> PROVE <2>7
      <4>1. CellRefs(n)' = CellRefs(n) /\ RegRefs(n)' = RegRefs(n) \ {r}
        BY <1>p, <3>1, NoDestIsNone DEF CellRefs, RegRefs
      <4>2. Held(d) = regs[r] /\ (regs[r] = n <=> r \in RegRefs(n))
        BY <3>1, NoDestIsNone DEF Held, RegRefs
      <4>3. CASE regs[r] = n
        <5>1. Cardinality(RegRefs(n)') = Cardinality(RegRefs(n)) - 1
          BY <1>0, <4>1, <4>2, <4>3, RefsFinite, RemoveOne
        <5>2. One(Held(d) = n) = 1
          BY <4>2, <4>3 DEF One
        <5>3. QED BY <1>0, <4>1, <5>1, <5>2, RefCards
      <4>4. CASE regs[r] # n
        <5>1. RegRefs(n)' = RegRefs(n)
          BY <4>1, <4>2, <4>4
        <5>2. QED BY <1>0, <4>1, <4>2, <4>4, <5>1, RefCards DEF One
      <4>5. QED BY <4>3, <4>4
    <3>2. ASSUME NEW c \in Cells, d = <<"mem", c>> PROVE <2>7
      <4>1. CellRefs(n)' = CellRefs(n) \ {c} /\ RegRefs(n)' = RegRefs(n)
        BY <1>p, <3>2, NoDestIsNone DEF CellRefs, RegRefs
      <4>2. Held(d) = mem[c] /\ (mem[c] = n <=> c \in CellRefs(n))
        BY <3>2, NoDestIsNone DEF Held, CellRefs
      <4>3. CASE mem[c] = n
        <5>1. Cardinality(CellRefs(n)') = Cardinality(CellRefs(n)) - 1
          BY <1>0, <4>1, <4>2, <4>3, RefsFinite, RemoveOne
        <5>2. One(Held(d) = n) = 1
          BY <4>2, <4>3 DEF One
        <5>3. QED BY <1>0, <4>1, <5>1, <5>2, RefCards
      <4>4. CASE mem[c] # n
        <5>1. CellRefs(n)' = CellRefs(n)
          BY <4>1, <4>2, <4>4
        <5>2. QED BY <1>0, <4>1, <4>2, <4>4, <5>1, RefCards DEF One
      <4>5. QED BY <4>3, <4>4
    <3>3. QED BY <3>1, <3>2 DEF Dests
  <2>8. References(n)' = Cardinality(RegRefs(n)') + Cardinality(CellRefs(n)')
                         + Cardinality(FirstRefs(n)') + Cardinality(SecondRefs(n)')
                         + Cardinality(QueueRefs(n)') + One(new' = n)
    BY DEF References, RegRefs, CellRefs, FirstRefs, SecondRefs, QueueRefs
  <2>9. node'[n].refc = node[n].refc + One(n = a) + One(n = b)
    <3>1. node'[n].refc = node[n].refc + Taken(n, a, b)
      BY <1>4, <1>11
    <3>2. One(n = a) \in Nat /\ One(n = b) \in Nat
      BY DEF One
    <3>3. QED BY <2>1, <3>1, <3>2 DEF Taken
  <2>10. QED
    <3>1. One(n = a) \in Nat /\ One(n = b) \in Nat /\ One(Held(d) = n) \in Nat
      BY DEF One
    <3>2. References(n) = Cardinality(RegRefs(n)) + Cardinality(CellRefs(n))
                          + Cardinality(FirstRefs(n)) + Cardinality(SecondRefs(n))
                          + Cardinality(QueueRefs(n)) + One(new = n)
      BY ReferencesSum
    <3>3. /\ Cardinality(RegRefs(n)) \in Nat /\ Cardinality(CellRefs(n)) \in Nat
          /\ Cardinality(FirstRefs(n)) \in Nat /\ Cardinality(SecondRefs(n)) \in Nat
      BY <1>0, RefCards
    <3>4. Cardinality(RegRefs(n)') \in Nat /\ Cardinality(CellRefs(n)') \in Nat
      <4>1. RegRefs(n)' \in SUBSET Regs /\ CellRefs(n)' \in SUBSET Cells
        BY DEF RegRefs, CellRefs
      <4>2. QED BY <4>1, FiniteAssumption, FS_Subset, FS_CardinalityType
    <3>5. QED
      BY <2>1, <2>3, <2>4, <2>5, <2>6, <2>7, <2>8, <2>9, <3>1, <3>2, <3>3, <3>4
<1>12. node'[id].refc > 0 /\ node'[id].refc = References(id)'
  <2>1. /\ RegRefs(id)' = {} /\ CellRefs(id)' = {}
        /\ FirstRefs(id)' = {} /\ SecondRefs(id)' = {} /\ QueueRefs(id)' = {}
    <3>1. RegRefs(id)' = {} /\ CellRefs(id)' = {}
      BY <1>p, <1>1, <1>10 DEF RegRefs, CellRefs
    <3>2. FirstRefs(id)' = {} /\ SecondRefs(id)' = {}
      <4>1. \A m \in Live' : node'[m].c1 # id /\ node'[m].c2 # id
        BY <1>1, <1>2, <1>4, <1>6, <1>10
      <4>2. QED BY <4>1 DEF FirstRefs, SecondRefs
    <3>3. QueueRefs(id)' = {}
      BY <1>p, <1>1, <1>10 DEF QueueRefs
    <3>4. QED BY <3>1, <3>2, <3>3
  <2>2. References(id)' = 1
    <3>1. References(id)' = Cardinality(RegRefs(id)') + Cardinality(CellRefs(id)')
                         + Cardinality(FirstRefs(id)') + Cardinality(SecondRefs(id)')
                         + Cardinality(QueueRefs(id)') + One(new' = id)
      BY DEF References, RegRefs, CellRefs, FirstRefs, SecondRefs, QueueRefs
    <3>2. One(new' = id) = 1
      BY <1>p DEF One
    <3>3. QED BY <2>1, <3>1, <3>2, FS_EmptySet
  <2>3. QED BY <1>2, <2>2
<1>13. CountsExact'
  BY <1>6, <1>11, <1>12 DEF CountsExact
<1>14. QED BY <1>p, <1>2, <1>4, <1>6, <1>8, <1>9, <1>13 DEF HeapInv

(* The sum as it is after a step.                                          *)
LEMMA ReferencesSumNext ==
  ASSUME NEW n
  PROVE  References(n)' = Cardinality(RegRefs(n)') + Cardinality(CellRefs(n)')
                          + Cardinality(FirstRefs(n)') + Cardinality(SecondRefs(n)')
                          + Cardinality(QueueRefs(n)') + One(new' = n)
BY DEF References, RegRefs, CellRefs, FirstRefs, SecondRefs, QueueRefs

(* A turn of cleanup.  The node that gives up its last reference is known  *)
(* to no place, node or entry of the queue but the one taken; the others   *)
(* keep as many references as before, its children's moving to the queue.  *)
LEMMA CleanupStep ==
  ASSUME HeapInv, Cleanup
  PROVE  /\ HeapInv'
         /\ \A n \in Live' : n \in Live /\ node'[n].insn = node[n].insn
<1> DEFINE L == Len(queue)
           n == queue[L]
           rest == SubSeq(queue, 1, L - 1)
<1>0. HeapTypes /\ NoDangling /\ CountsExact
  BY DEF HeapInv
<1>1. queue # <<>> /\ queue \in Seq(Refs) /\ UNCHANGED <<regs, mem, dest, new>>
  BY <1>0 DEF Cleanup, HeapTypes
<1>2. L \in Nat /\ L > 0 /\ L \in DOMAIN queue /\ DOMAIN queue = 1 .. L
  BY <1>1
<1>3. n \in Live \cup {Null} /\ dest # NoDest /\ new \in Live
  BY <1>0, <1>1, <1>2 DEF NoDangling, HeapTypes
<1>4. /\ rest \in Seq(Refs) /\ Len(rest) = L - 1 /\ DOMAIN rest = 1 .. L - 1
      /\ \A k \in 1 .. L - 1 : rest[k] = queue[k]
  BY <1>1, <1>2
<1> HIDE DEF L, rest
<1>5. ASSUME NEW m PROVE RegRefs(m)' = RegRefs(m) /\ CellRefs(m)' = CellRefs(m)
  BY <1>1 DEF RegRefs, CellRefs
<1>6. CASE n = Null
  <2>1. queue' = rest /\ UNCHANGED node
    BY <1>6 DEF Cleanup, L, rest
  <2>2. Live' = Live
    BY <2>1 DEF Live
  <2>3. HeapTypes'
    BY <1>0, <1>1, <1>3, <1>4, <2>1, <2>2 DEF HeapTypes
  <2>4. NoDangling'
    <3>1. \A k \in DOMAIN queue' : queue'[k] \in Live' \cup {Null}
      BY <1>0, <1>2, <1>4, <2>1, <2>2 DEF NoDangling
    <3>2. QED BY <1>0, <1>1, <2>1, <2>2, <3>1 DEF NoDangling
  <2>5. ASSUME NEW m \in Live PROVE References(m)' = References(m)
    <3>1. m # Null
      BY NullAssumption DEF Live
    <3>2. QueueRefs(m)' = QueueRefs(m)
      BY <1>2, <1>4, <1>6, <2>1, <3>1 DEF QueueRefs
    <3>3. FirstRefs(m)' = FirstRefs(m) /\ SecondRefs(m)' = SecondRefs(m)
      BY <2>1, <2>2 DEF FirstRefs, SecondRefs
    <3>4. QED BY <1>1, <1>5, <3>2, <3>3, ReferencesSum, ReferencesSumNext
  <2>6. CountsExact'
    BY <1>0, <2>1, <2>2, <2>5 DEF CountsExact
  <2>7. QED BY <2>1, <2>2, <2>3, <2>4, <2>6 DEF HeapInv
<1>7. ASSUME n # Null
      PROVE  /\ n \in Live /\ n \in Nodes /\ node[n] \in Node /\ node[n].refc \in Nat
             /\ node[n].refc > 0 /\ node[n].refc = References(n)
             /\ L \in QueueRefs(n)
  <2>1. n \in Live
    BY <1>3, <1>7
  <2>2. n \in Nodes /\ node[n] \in Node
    BY <1>0, <2>1 DEF HeapTypes, Live
  <2>3. node[n].refc \in Nat
    BY <2>2 DEF Node
  <2>4. QED BY <1>0, <1>2, <2>1, <2>2, <2>3 DEF CountsExact, QueueRefs
<1>8. CASE n # Null /\ node[n].refc = 1
  <2> DEFINE ca == node[n].c1
             cb == node[n].c2
  <2>1. queue' = rest \o <<ca, cb>> /\ node' = [node EXCEPT ![n] = Free]
    BY <1>8 DEF Cleanup, L, rest
  <2>2. n \in Live /\ n \in Nodes /\ node[n] \in Node /\ L \in QueueRefs(n) /\ References(n) = 1
    BY <1>7, <1>8
  <2>3. ca \in Refs /\ cb \in Refs /\ ca \in Live \cup {Null} /\ cb \in Live \cup {Null}
    BY <1>0, <2>2 DEF Node, Refs, NoDangling
  <2> HIDE DEF n, ca, cb
  <2>4. Live' = Live \ {n}
    BY <1>0, <2>1 DEF Live, HeapTypes
  <2>5. \A m \in Live' : node'[m] = node[m] /\ m \in Live
    BY <1>0, <2>1, <2>4 DEF Live, HeapTypes
  <2>6. /\ RegRefs(n) = {} /\ CellRefs(n) = {} /\ FirstRefs(n) = {} /\ SecondRefs(n) = {}
        /\ QueueRefs(n) = {L} /\ new # n
    <3>1. /\ IsFiniteSet(RegRefs(n)) /\ IsFiniteSet(CellRefs(n))
          /\ IsFiniteSet(FirstRefs(n)) /\ IsFiniteSet(SecondRefs(n))
          /\ IsFiniteSet(QueueRefs(n))
      BY <1>0, RefsFinite
    <3>2. /\ Cardinality(RegRefs(n)) \in Nat /\ Cardinality(CellRefs(n)) \in Nat
          /\ Cardinality(FirstRefs(n)) \in Nat /\ Cardinality(SecondRefs(n)) \in Nat
          /\ Cardinality(QueueRefs(n)) \in Nat
      BY <3>1, FS_CardinalityType
    <3>3. Cardinality(QueueRefs(n)) # 0
      BY <2>2, <3>1, FS_EmptySet
    <3>4. One(new = n) \in Nat /\ (new = n => One(new = n) = 1)
      BY DEF One
    <3>5. 1 = Cardinality(RegRefs(n)) + Cardinality(CellRefs(n))
              + Cardinality(FirstRefs(n)) + Cardinality(SecondRefs(n))
              + Cardinality(QueueRefs(n)) + One(new = n)
      BY <2>2, ReferencesSum
    <3>6. /\ Cardinality(RegRefs(n)) = 0 /\ Cardinality(CellRefs(n)) = 0
          /\ Cardinality(FirstRefs(n)) = 0 /\ Cardinality(SecondRefs(n)) = 0
          /\ Cardinality(QueueRefs(n)) = 1 /\ One(new = n) = 0
      <4>1. PICK v \in Nat : v = One(new = n)
        BY <3>4
      <4>2. 1 = Cardinality(RegRefs(n)) + Cardinality(CellRefs(n))
                + Cardinality(FirstRefs(n)) + Cardinality(SecondRefs(n))
                + Cardinality(QueueRefs(n)) + v
        BY <3>5, <4>1
      <4>3. v = 0
        BY <3>2, <3>3, <4>2
      <4>4. QED BY <3>2, <3>3, <4>1, <4>2, <4>3
    <3>7. new # n
      BY <3>4, <3>6
    <3>8. QueueRefs(n) = {L}
      <4>1. PICK x : QueueRefs(n) = {x}
        BY <3>1, <3>6, FS_Singleton
      <4>2. QED BY <2>2, <4>1
    <3>9. QED BY <3>1, <3>6, <3>7, <3>8, FS_EmptySet
  <2>7. /\ \A k \in 1 .. L - 1 : queue[k] # n
        /\ ca # n /\ cb # n
    <3>1. \A k \in 1 .. L - 1 : queue[k] # n
      BY <1>2, <2>6 DEF QueueRefs
    <3>2. n \notin FirstRefs(n) /\ n \notin SecondRefs(n)
      BY <2>6
    <3>3. ca # n /\ cb # n
      BY <2>2, <3>2 DEF FirstRefs, SecondRefs, ca, cb
    <3>4. QED BY <3>1, <3>3
  <2>8. /\ queue' \in Seq(Refs) /\ Len(queue') = L + 1 /\ DOMAIN queue' = 1 .. L + 1
        /\ \A k \in 1 .. L - 1 : queue'[k] = queue[k]
        /\ queue'[L] = ca /\ queue'[L + 1] = cb
    BY <1>2, <1>4, <2>1, <2>3
  <2>9. HeapTypes'
    <3>1. node' \in [Nodes -> Node \cup {Free}]
      BY <1>0, <2>1 DEF HeapTypes
    <3>2. new' \in Live'
      BY <1>1, <1>3, <2>4, <2>6
    <3>3. QED BY <1>0, <1>1, <1>3, <2>8, <3>1, <3>2 DEF HeapTypes
  <2>10. NoDangling'
    <3>1. \A r \in Regs : dest' # <<"reg", r>> => regs'[r] \in Live' \cup {Null}
      BY <1>0, <1>1, <2>4, <2>6 DEF NoDangling, RegRefs
    <3>2. \A c \in Cells : dest' # <<"mem", c>> => mem'[c] \in Live' \cup {Null}
      BY <1>0, <1>1, <2>4, <2>6 DEF NoDangling, CellRefs
    <3>3. \A m \in Live' : node'[m].c1 \in Live' \cup {Null} /\ node'[m].c2 \in Live' \cup {Null}
      BY <1>0, <2>4, <2>5, <2>6 DEF NoDangling, FirstRefs, SecondRefs
    <3>4. \A k \in DOMAIN queue' : queue'[k] \in Live' \cup {Null}
      <4>1. \A k \in 1 .. L - 1 : queue'[k] \in Live' \cup {Null}
        BY <1>0, <1>2, <2>4, <2>7, <2>8 DEF NoDangling
      <4>2. ca \in Live' \cup {Null} /\ cb \in Live' \cup {Null}
        BY <2>3, <2>4, <2>7
      <4>3. \A k \in 1 .. L + 1 : k \in 1 .. L - 1 \/ k = L \/ k = L + 1
        BY <1>2
      <4>4. QED BY <2>8, <4>1, <4>2, <4>3
    <3>5. QED BY <3>1, <3>2, <3>3, <3>4 DEF NoDangling
  <2>11. ASSUME NEW m \in Live, m # n PROVE References(m)' = References(m)
    <3>1. n \in Live /\ n = queue[L] /\ m # Null
      BY <2>2, NullAssumption DEF Live, n
    <3>2. /\ IsFiniteSet(FirstRefs(m)) /\ IsFiniteSet(SecondRefs(m))
          /\ IsFiniteSet(QueueRefs(m)) /\ Cardinality(FirstRefs(m)) \in Nat
          /\ Cardinality(SecondRefs(m)) \in Nat /\ Cardinality(QueueRefs(m)) \in Nat
      BY <1>0, RefsFinite, RefCards
    <3>3. Cardinality(FirstRefs(m)') = Cardinality(FirstRefs(m)) - One(ca = m)
      <4>1. FirstRefs(m)' = FirstRefs(m) \ {n}
        BY <2>4, <2>5 DEF FirstRefs
      <4>2. n \in FirstRefs(m) <=> ca = m
        BY <3>1 DEF FirstRefs, ca
      <4>3. CASE ca = m
        BY <3>2, <4>1, <4>2, <4>3, RemoveOne DEF One
      <4>4. CASE ca # m
        <5>1. FirstRefs(m)' = FirstRefs(m)
          BY <4>1, <4>2, <4>4
        <5>2. QED BY <3>2, <4>4, <5>1 DEF One
      <4>5. QED BY <4>3, <4>4
    <3>4. Cardinality(SecondRefs(m)') = Cardinality(SecondRefs(m)) - One(cb = m)
      <4>1. SecondRefs(m)' = SecondRefs(m) \ {n}
        BY <2>4, <2>5 DEF SecondRefs
      <4>2. n \in SecondRefs(m) <=> cb = m
        BY <3>1 DEF SecondRefs, cb
      <4>3. CASE cb = m
        BY <3>2, <4>1, <4>2, <4>3, RemoveOne DEF One
      <4>4. CASE cb # m
        <5>1. SecondRefs(m)' = SecondRefs(m)
          BY <4>1, <4>2, <4>4
        <5>2. QED BY <3>2, <4>4, <5>1 DEF One
      <4>5. QED BY <4>3, <4>4
    <3>5. Cardinality(QueueRefs(m)') = Cardinality(QueueRefs(m)) + One(ca = m) + One(cb = m)
      <4>1. /\ QueueRefs(m) = {k \in 1 .. L - 1 : queue[k] = m}
            /\ L \notin QueueRefs(m) /\ L + 1 \notin QueueRefs(m)
        BY <1>2, <2>11, <3>1 DEF QueueRefs
      <4>2. QueueRefs(m)' = {k \in 1 .. L - 1 : queue[k] = m}
                            \cup {k \in {L} : ca = m} \cup {k \in {L + 1} : cb = m}
        BY <1>2, <2>8 DEF QueueRefs
      <4> DEFINE Q == QueueRefs(m) \cup {k \in {L} : ca = m}
      <4>3. /\ IsFiniteSet(Q) /\ Cardinality(Q) = Cardinality(QueueRefs(m)) + One(ca = m)
            /\ Cardinality(Q) \in Nat /\ L + 1 \notin Q
        <5>1. CASE ca = m
          <6>1. Q = QueueRefs(m) \cup {L}
            BY <5>1
          <6>2. IsFiniteSet(Q) /\ Cardinality(Q) = Cardinality(QueueRefs(m)) + 1
            BY <3>2, <4>1, <6>1, AddOne
          <6>3. L + 1 \notin Q
            BY <1>2, <4>1, <6>1
          <6>4. One(ca = m) = 1
            BY <5>1 DEF One
          <6>5. QED BY <3>2, <6>2, <6>3, <6>4
        <5>2. CASE ca # m
          <6>1. Q = QueueRefs(m)
            BY <5>2
          <6>2. QED BY <3>2, <4>1, <5>2, <6>1 DEF One
        <5>3. QED BY <5>1, <5>2
      <4>4. QueueRefs(m)' = Q \cup {k \in {L + 1} : cb = m}
        BY <4>1, <4>2
      <4> HIDE DEF Q
      <4>5. CASE cb = m
        <5>1. QueueRefs(m)' = Q \cup {L + 1}
          BY <4>4, <4>5
        <5>2. QED BY <4>3, <4>5, <5>1, AddOne DEF One
      <4>6. CASE cb # m
        <5>1. QueueRefs(m)' = Q
          BY <4>4, <4>6
        <5>2. QED BY <4>3, <4>6, <5>1 DEF One
      <4>7. QED BY <4>5, <4>6
    <3>6. One(ca = m) \in Nat /\ One(cb = m) \in Nat /\ One(new = m) \in Nat
      BY DEF One
    <3>7. One(new' = m) = One(new = m) /\ RegRefs(m)' = RegRefs(m) /\ CellRefs(m)' = CellRefs(m)
      BY <1>1, <1>5
    <3>8. Cardinality(RegRefs(m)) \in Nat /\ Cardinality(CellRefs(m)) \in Nat
      BY <1>0, RefCards
    <3>9. References(m) = Cardinality(RegRefs(m)) + Cardinality(CellRefs(m))
                          + Cardinality(FirstRefs(m)) + Cardinality(SecondRefs(m))
                          + Cardinality(QueueRefs(m)) + One(new = m)
      BY ReferencesSum
    <3>10. References(m)' = Cardinality(RegRefs(m)') + Cardinality(CellRefs(m)')
                          + Cardinality(FirstRefs(m)') + Cardinality(SecondRefs(m)')
                          + Cardinality(QueueRefs(m)') + One(new' = m)
      BY ReferencesSumNext
    <3>11. QED BY <3>2, <3>3, <3>4, <3>5, <3>6, <3>7, <3>8, <3>9, <3>10
  <2>12. CountsExact'
    BY <1>0, <2>4, <2>5, <2>11 DEF CountsExact
  <2>13. QED BY <2>5, <2>9, <2>10, <2>12 DEF HeapInv
<1>9. CASE n # Null /\ node[n].refc # 1
  <2>1. queue' = rest /\ node' = [node EXCEPT ![n].refc = @ - 1]
    BY <1>9 DEF Cleanup, L, rest
  <2>2. /\ n \in Live /\ n \in Nodes /\ node[n] \in Node /\ node[n].refc \in Nat
        /\ node[n].refc > 1 /\ node[n].refc = References(n) /\ L \in QueueRefs(n)
    BY <1>7, <1>9
  <2>3. node'[n] = [node[n] EXCEPT !.refc = @ - 1]
    BY <1>0, <2>1, <2>2 DEF HeapTypes
  <2>4. /\ node'[n] \in Node /\ node'[n].insn = node[n].insn
        /\ node'[n].c1 = node[n].c1 /\ node'[n].c2 = node[n].c2
        /\ node'[n].refc = node[n].refc - 1
    <3>1. node'[n] = [node[n] EXCEPT !.refc = @ + (0 - 1)] /\ node[n].refc + (0 - 1) >= 0
      BY <2>2, <2>3
    <3>2. 0 - 1 \in Int
      OBVIOUS
    <3>3. /\ node'[n] \in Node /\ node'[n].insn = node[n].insn
          /\ node'[n].c1 = node[n].c1 /\ node'[n].c2 = node[n].c2
          /\ node'[n].refc = node[n].refc + (0 - 1)
      BY <2>2, <3>1, <3>2, Recounted
    <3>4. QED BY <2>2, <3>3
  <2> HIDE DEF n
  <2>5. \A m \in Nodes : m # n => node'[m] = node[m]
    BY <1>0, <2>1 DEF HeapTypes
  <2>6. Live' = Live
    BY <2>2, <2>4, <2>5, FreeIsNoNode DEF Live
  <2>7. \A m \in Live : /\ node'[m].c1 = node[m].c1 /\ node'[m].c2 = node[m].c2
                        /\ node'[m].insn = node[m].insn
    BY <2>4, <2>5 DEF Live
  <2>8. HeapTypes'
    <3>1. node' \in [Nodes -> Node \cup {Free}]
      <4>1. \A m \in Nodes : node'[m] \in Node \cup {Free}
        BY <1>0, <2>4, <2>5 DEF HeapTypes
      <4>2. node' = [m \in Nodes |-> node'[m]]
        BY <1>0, <2>1 DEF HeapTypes
      <4>3. QED BY <4>1, <4>2
    <3>2. QED BY <1>0, <1>1, <1>3, <1>4, <2>1, <2>6, <3>1 DEF HeapTypes
  <2>9. NoDangling'
    <3>1. \A k \in DOMAIN queue' : queue'[k] \in Live' \cup {Null}
      BY <1>0, <1>2, <1>4, <2>1, <2>6 DEF NoDangling
    <3>2. QED BY <1>0, <1>1, <2>6, <2>7, <3>1 DEF NoDangling
  <2>10. ASSUME NEW m \in Live PROVE FirstRefs(m)' = FirstRefs(m) /\ SecondRefs(m)' = SecondRefs(m)
    BY <2>6, <2>7 DEF FirstRefs, SecondRefs
  <2>11. ASSUME NEW m \in Live, m # n PROVE References(m)' = References(m)
    <3>1. QueueRefs(m)' = QueueRefs(m)
      BY <1>2, <1>4, <2>1, <2>11 DEF QueueRefs, n
    <3>2. QED BY <1>1, <1>5, <2>10, <3>1, ReferencesSum, ReferencesSumNext
  <2>12. ASSUME NEW m \in Live, m = n PROVE References(m)' = References(m) - 1
    <3>1. QueueRefs(m)' = QueueRefs(m) \ {L} /\ L \in QueueRefs(m)
      BY <1>2, <1>4, <2>1, <2>12 DEF QueueRefs, n
    <3>2. Cardinality(QueueRefs(m)') = Cardinality(QueueRefs(m)) - 1
      BY <1>0, <3>1, RefsFinite, RemoveOne
    <3>3. One(new' = m) = One(new = m) /\ One(new = m) \in Nat
      BY <1>1 DEF One
    <3>4. /\ RegRefs(m)' = RegRefs(m) /\ CellRefs(m)' = CellRefs(m)
          /\ FirstRefs(m)' = FirstRefs(m) /\ SecondRefs(m)' = SecondRefs(m)
      BY <1>5, <2>10
    <3>5. /\ Cardinality(RegRefs(m)) \in Nat /\ Cardinality(CellRefs(m)) \in Nat
          /\ Cardinality(FirstRefs(m)) \in Nat /\ Cardinality(SecondRefs(m)) \in Nat
          /\ Cardinality(QueueRefs(m)) \in Nat
      BY <1>0, RefCards
    <3>6. References(m) = Cardinality(RegRefs(m)) + Cardinality(CellRefs(m))
                          + Cardinality(FirstRefs(m)) + Cardinality(SecondRefs(m))
                          + Cardinality(QueueRefs(m)) + One(new = m)
      BY ReferencesSum
    <3>7. References(m)' = Cardinality(RegRefs(m)') + Cardinality(CellRefs(m)')
                          + Cardinality(FirstRefs(m)') + Cardinality(SecondRefs(m)')
                          + Cardinality(QueueRefs(m)') + One(new' = m)
      BY ReferencesSumNext
    <3>8. QED BY <3>2, <3>3, <3>4, <3>5, <3>6, <3>7
  <2>13. CountsExact'
    <3>1. ASSUME NEW m \in Live PROVE node'[m].refc > 0 /\ node'[m].refc = References(m)'
      <4>1. CASE m # n
        BY <1>0, <2>5, <2>11, <4>1 DEF CountsExact, Live
      <4>2. CASE m = n
        BY <2>2, <2>4, <2>12, <4>2
      <4>3. QED BY <4>1, <4>2
    <3>2. QED BY <2>6, <3>1 DEF CountsExact
  <2>14. QED BY <2>6, <2>7, <2>8, <2>9, <2>13 DEF HeapInv
<1>10. QED BY <1>6, <1>8, <1>9

(* The new node is put in place: the replacement's reference becomes the   *)
(* place's.                                                                *)
LEMMA InstallStep ==
  ASSUME HeapInv, Install
  PROVE  HeapInv' /\ dest' = NoDest /\ UNCHANGED node
<1>0. HeapTypes /\ NoDangling /\ CountsExact
  BY DEF HeapInv
<1>1. /\ dest # NoDest /\ queue = <<>> /\ dest' = NoDest /\ new' = Null
      /\ UNCHANGED <<node, queue>>
  BY DEF Install
<1>2. dest \in Dests /\ new \in Live /\ new # Null /\ new \in Refs
  BY <1>0, <1>1, NullAssumption DEF HeapTypes, Live, Refs
<1>3. Live' = Live
  BY <1>1 DEF Live
<1>4. ASSUME NEW m PROVE /\ FirstRefs(m)' = FirstRefs(m) /\ SecondRefs(m)' = SecondRefs(m)
                         /\ QueueRefs(m)' = QueueRefs(m)
  BY <1>1, <1>3 DEF FirstRefs, SecondRefs, QueueRefs
<1>5. HeapTypes'
  <2>1. regs' \in [Regs -> Refs] /\ mem' \in [Cells -> Refs]
    BY <1>0, <1>2 DEF Install, HeapTypes
  <2>2. QED BY <1>0, <1>1, <1>3, <2>1 DEF HeapTypes
<1>6. /\ \A r \in Regs : regs'[r] = IF dest = <<"reg", r>> THEN new ELSE regs[r]
      /\ \A c \in Cells : mem'[c] = IF dest = <<"mem", c>> THEN new ELSE mem[c]
  <2>1. CASE dest[1] = "reg"
    <3>1. PICK r \in Regs : dest = <<"reg", r>>
      BY <1>2, <2>1 DEF Dests
    <3>2. regs' = [regs EXCEPT ![r] = new] /\ mem' = mem
      BY <3>1 DEF Install
    <3>3. QED BY <1>0, <3>1, <3>2 DEF HeapTypes
  <2>2. CASE dest[1] # "reg"
    <3>1. PICK c \in Cells : dest = <<"mem", c>>
      BY <1>2, <2>2 DEF Dests
    <3>2. mem' = [mem EXCEPT ![c] = new] /\ regs' = regs
      BY <3>1 DEF Install
    <3>3. QED BY <1>0, <3>1, <3>2 DEF HeapTypes
  <2>3. QED BY <2>1, <2>2
<1>7. NoDangling'
  <2>1. \A r \in Regs : regs'[r] \in Live' \cup {Null}
    BY <1>0, <1>2, <1>3, <1>6 DEF NoDangling
  <2>2. \A c \in Cells : mem'[c] \in Live' \cup {Null}
    BY <1>0, <1>2, <1>3, <1>6 DEF NoDangling
  <2>3. QED BY <1>0, <1>1, <1>3, <2>1, <2>2 DEF NoDangling
<1>8. ASSUME NEW m \in Live PROVE References(m)' = References(m)
  <2>1. m # Null
    BY NullAssumption DEF Live
  <2>2. /\ IsFiniteSet(RegRefs(m)) /\ IsFiniteSet(CellRefs(m))
        /\ Cardinality(RegRefs(m)) \in Nat /\ Cardinality(CellRefs(m)) \in Nat
        /\ Cardinality(FirstRefs(m)) \in Nat /\ Cardinality(SecondRefs(m)) \in Nat
        /\ Cardinality(QueueRefs(m)) \in Nat
    BY <1>0, RefsFinite, RefCards
  <2>3. One(new' = m) = 0
    BY <1>1, <2>1 DEF One
  <2>4. Cardinality(RegRefs(m)') + Cardinality(CellRefs(m)')
          = Cardinality(RegRefs(m)) + Cardinality(CellRefs(m)) + One(new = m)
    <3>1. CASE new # m
      <4>1. RegRefs(m)' = RegRefs(m) /\ CellRefs(m)' = CellRefs(m)
        BY <1>1, <1>6, <3>1, NoDestIsNone DEF RegRefs, CellRefs
      <4>2. One(new = m) = 0
        BY <3>1 DEF One
      <4>3. QED BY <2>2, <4>1, <4>2
    <3>2. ASSUME new = m, NEW r \in Regs, dest = <<"reg", r>> PROVE <2>4
      <4>1. RegRefs(m)' = RegRefs(m) \cup {r} /\ r \notin RegRefs(m)
        BY <1>1, <1>6, <3>2, NoDestIsNone DEF RegRefs
      <4>2. CellRefs(m)' = CellRefs(m)
        BY <1>1, <1>6, <3>2, NoDestIsNone DEF CellRefs
      <4>3. Cardinality(RegRefs(m)') = Cardinality(RegRefs(m)) + 1
        BY <2>2, <4>1, AddOne
      <4>4. One(new = m) = 1
        BY <3>2 DEF One
      <4>5. QED BY <2>2, <4>2, <4>3, <4>4
    <3>3. ASSUME new = m, NEW c \in Cells, dest = <<"mem", c>> PROVE <2>4
      <4>1. CellRefs(m)' = CellRefs(m) \cup {c} /\ c \notin CellRefs(m)
        BY <1>1, <1>6, <3>3, NoDestIsNone DEF CellRefs
      <4>2. RegRefs(m)' = RegRefs(m)
        BY <1>1, <1>6, <3>3, NoDestIsNone DEF RegRefs
      <4>3. Cardinality(CellRefs(m)') = Cardinality(CellRefs(m)) + 1
        BY <2>2, <4>1, AddOne
      <4>4. One(new = m) = 1
        BY <3>3 DEF One
      <4>5. QED BY <2>2, <4>2, <4>3, <4>4
    <3>4. QED BY <1>2, <3>1, <3>2, <3>3 DEF Dests
  <2>5. One(new = m) \in Nat
    BY DEF One
  <2>6. References(m) = Cardinality(RegRefs(m)) + Cardinality(CellRefs(m))
                        + Cardinality(FirstRefs(m)) + Cardinality(SecondRefs(m))
                        + Cardinality(QueueRefs(m)) + One(new = m)
    BY ReferencesSum
  <2>7. References(m)' = Cardinality(RegRefs(m)') + Cardinality(CellRefs(m)')
                        + Cardinality(FirstRefs(m)) + Cardinality(SecondRefs(m))
                        + Cardinality(QueueRefs(m)) + 0
    BY <1>4, <2>3, ReferencesSumNext
  <2>8. Cardinality(RegRefs(m)') \in Nat /\ Cardinality(CellRefs(m)') \in Nat
    <3>1. RegRefs(m)' \in SUBSET Regs /\ CellRefs(m)' \in SUBSET Cells
      BY DEF RegRefs, CellRefs
    <3>2. QED BY <3>1, FiniteAssumption, FS_Subset, FS_CardinalityType
  <2>9. QED BY <2>2, <2>4, <2>5, <2>6, <2>7, <2>8
<1>9. CountsExact'
  BY <1>0, <1>1, <1>3, <1>8 DEF CountsExact
<1>10. QED BY <1>1, <1>5, <1>7, <1>9 DEF HeapInv

-----------------------------------------------------------------------------
(* The inductive invariant of the whole tracker                            *)

(* A store whose history is not recorded: one the tracker is not told of,  *)
(* or one of an instruction whose memory operand it does not see.          *)
Overlooked(i) == i = Null \/ i.kind = "amo" \/ i.args[1] \in {0, REG_SP}

(* A store about to be made is recorded unless it is overlooked.           *)
AccessInv ==
  at = "access" /\ last_insn.kind = "store" /\ ~is_mem_insn => Overlooked(last_insn)

(* WordHistoryCurrent in the middle of a replacement too.                  *)
WordInv ==
  \A c \in Cells :
    /\ dest # <<"mem", c>> /\ mem[c] # Null =>
         node[mem[c]].insn = lastStore[c] \/ Overlooked(lastStore[c])
    /\ dest = <<"mem", c>> => node[new].insn = lastStore[c]

TrackerInv ==
  /\ HeapInv
  /\ last_insn \in Insns /\ is_mem_insn \in BOOLEAN /\ lastStore \in [Cells -> Insns \cup {Null}]
  /\ AccessInv /\ WordInv

LEMMA InsnFields ==
  ASSUME NEW i \in Insns
  PROVE  /\ i.rd \in Regs /\ i.rs1 \in Regs /\ i.rs2 \in Regs
         /\ i.args \in Seq(Regs \cup {-1})
         /\ i.kind = "store" => Len(i.args) = 2 /\ i.args[2] = -1
BY InsnsAssumption DEF Insn

(* Replacing the node of a register leaves the words' histories alone.     *)
LEMMA WordKept ==
  ASSUME HeapInv, WordInv, dest = NoDest, NEW x, dest' = <<"reg", x>>,
         UNCHANGED <<mem, lastStore>>,
         \A n \in Live : n \in Live' /\ node'[n].insn = node[n].insn
  PROVE  WordInv'
<1>1. \A c \in Cells : mem[c] # Null =>
        /\ mem[c] \in Live
        /\ node[mem[c]].insn = lastStore[c] \/ Overlooked(lastStore[c])
  BY NoDestIsNone DEF HeapInv, NoDangling, WordInv
<1>2. \A c : dest' # <<"mem", c>>
  OBVIOUS
<1>3. ASSUME NEW c \in Cells, mem[c] # Null
      PROVE  node'[mem'[c]].insn = lastStore'[c] \/ Overlooked(lastStore'[c])
  BY <1>1, <1>3
<1>4. \A c \in Cells : Overlooked(lastStore'[c]) <=> Overlooked(lastStore[c])'
  BY DEF Overlooked
<1>5. QED BY <1>2, <1>3, <1>4 DEF WordInv

LEMMA HeapUnchanged ==
  ASSUME HeapInv, UNCHANGED <<regs, mem, node, dest, new, queue>>
  PROVE  HeapInv'
<1>1. Live' = Live
  BY DEF Live
<1>2. HeapTypes => HeapTypes'
  BY <1>1 DEF HeapTypes
<1>3. NoDangling => NoDangling'
  BY <1>1 DEF NoDangling
<1>4. ASSUME NEW n PROVE References(n)' = References(n)
  BY <1>1 DEF References
<1>5. CountsExact => CountsExact'
  BY <1>1, <1>4 DEF CountsExact
<1>6. QED BY <1>2, <1>3, <1>5 DEF HeapInv

LEMMA Unchanged ==
  ASSUME HeapInv, WordInv, UNCHANGED <<regs, mem, node, dest, new, queue, lastStore>>
  PROVE  HeapInv' /\ WordInv'
<1>1. WordInv'
  BY DEF WordInv, Overlooked
<1>2. QED BY <1>1, HeapUnchanged

(* Load and PromptLoad.                                                    *)
LEMMA TrackLoadStep ==
  ASSUME HeapInv, WordInv, last_insn \in Insns, dest = NoDest, NEW c \in Cells,
         TrackLoad(c), UNCHANGED lastStore
  PROVE  HeapInv' /\ WordInv' /\ is_mem_insn' \in BOOLEAN
<1>0. is_mem_insn' \in BOOLEAN
  <2>1. is_mem_insn' = FALSE
    BY DEF TrackLoad
  <2>2. QED BY <2>1
<1>1. CASE is_mem_insn /\ HasDest(last_insn)
  <2>1. Replace(<<"reg", last_insn.rd>>, last_insn, mem[c], regs[last_insn.rs1])
    BY <1>1 DEF TrackLoad
  <2>2. <<"reg", last_insn.rd>> \in Dests
    BY InsnFields DEF Dests
  <2>3. mem[c] \in Live \cup {Null} /\ regs[last_insn.rs1] \in Live \cup {Null}
    BY InsnFields, NoDestIsNone DEF HeapInv, NoDangling
  <2>4. /\ HeapInv' /\ dest' = <<"reg", last_insn.rd>>
        /\ \A n \in Live : n \in Live' /\ node'[n].insn = node[n].insn
    BY <2>1, <2>2, <2>3, ReplaceStep
  <2>5. UNCHANGED mem
    BY <2>1 DEF Replace
  <2>6. WordInv'
    BY <2>4, <2>5, WordKept
  <2>7. QED BY <1>0, <2>4, <2>6
<1>2. CASE ~(is_mem_insn /\ HasDest(last_insn))
  <2>1. UNCHANGED heapVars
    BY <1>2 DEF TrackLoad
  <2>2. HeapInv' /\ WordInv'
    BY <2>1, Unchanged DEF heapVars
  <2>3. QED BY <1>0, <2>2
<1>3. QED BY <1>1, <1>2

LEMMA TrackStep ==
  ASSUME TrackerInv, NEW i \in Insns, Track(i)
  PROVE  TrackerInv'
<1>0. HeapInv /\ WordInv
  BY DEF TrackerInv
<1>1. dest = NoDest /\ last_insn' = i /\ UNCHANGED lastStore
  BY DEF Track, Settled
<1>2. is_mem_insn' = (Meaningful(i) /\ HasMemArg(i))
  BY DEF Track
<1>3. is_mem_insn' \in BOOLEAN
  BY <1>2
<1>4. is_mem_insn' <=> Meaningful(i) /\ HasMemArg(i)
  BY <1>2, Zenon
<1>5. AccessInv'
  <2> SUFFICES ASSUME i.kind = "store", ~is_mem_insn' PROVE Overlooked(i)
    BY <1>1 DEF AccessInv, Overlooked
  <2>1. Len(i.args) = 2 /\ i.args[2] = -1
    BY InsnFields
  <2>2. HasMemArg(i)
    BY <2>1 DEF HasMemArg
  <2>3. ~Meaningful(i)
    BY <1>4, <2>2
  <2>4. QED BY <2>1, <2>3 DEF Meaningful, Overlooked
<1>6. HeapInv' /\ WordInv'
  <2>1. CASE Tracked(i)
    <3>1. Replace(<<"reg", i.rd>>, i, Src(i, 2), Src(i, 3))
      BY <2>1 DEF Track
    <3>2. <<"reg", i.rd>> \in Dests
      BY InsnFields DEF Dests
    <3>3. ~HasMemArg(i) /\ i.args \in Seq(Regs \cup {-1})
      BY <2>1, InsnFields DEF Tracked
    <3>4. \A r \in Regs : regs[r] \in Live \cup {Null}
      BY <1>0, <1>1, NoDestIsNone DEF HeapInv, NoDangling
    <3>5. \A k \in {2, 3} : Len(i.args) >= k => i.args[k] \in Regs
      BY <3>3 DEF HasMemArg
    <3>6. Src(i, 2) \in Live \cup {Null} /\ Src(i, 3) \in Live \cup {Null}
      BY <3>4, <3>5 DEF Src
    <3>7. /\ HeapInv' /\ dest' = <<"reg", i.rd>>
          /\ \A n \in Live : n \in Live' /\ node'[n].insn = node[n].insn
      BY <1>0, <1>1, <3>1, <3>2, <3>6, ReplaceStep
    <3>8. UNCHANGED mem
      BY <3>1 DEF Replace
    <3>9. WordInv'
      BY <1>0, <1>1, <3>7, <3>8, WordKept
    <3>10. QED BY <3>7, <3>9
  <2>2. CASE ~Tracked(i)
    <3>1. UNCHANGED heapVars
      BY <2>2 DEF Track
    <3>2. QED BY <1>0, <1>1, <3>1, Unchanged DEF heapVars
  <2>3. QED BY <2>1, <2>2
<1>7. QED BY <1>1, <1>3, <1>5, <1>6 DEF TrackerInv

LEMMA StoreStep ==
  ASSUME TrackerInv, NEW c \in Cells, Store(c)
  PROVE  TrackerInv'
<1>0. /\ HeapInv /\ WordInv /\ AccessInv /\ last_insn \in Insns
      /\ lastStore \in [Cells -> Insns \cup {Null}]
  BY DEF TrackerInv
<1>1. /\ at = "access" /\ dest = NoDest /\ last_insn.kind \in {"store", "amo"}
      /\ at' = "idle" /\ lastStore' = [lastStore EXCEPT ![c] = last_insn]
      /\ UNCHANGED last_insn /\ TrackStore(c)
  BY DEF Store, Settled
<1>2. is_mem_insn' \in BOOLEAN
  <2>1. is_mem_insn' = FALSE
    BY <1>1 DEF TrackStore
  <2>2. QED BY <2>1
<1>3. AccessInv'
  BY <1>1 DEF AccessInv
<1>4. /\ lastStore'[c] = last_insn
      /\ \A w \in Cells : w # c => lastStore'[w] = lastStore[w]
      /\ lastStore' \in [Cells -> Insns \cup {Null}]
  BY <1>0, <1>1
<1>5. \A w \in Cells : mem[w] # Null =>
        /\ mem[w] \in Live
        /\ node[mem[w]].insn = lastStore[w] \/ Overlooked(lastStore[w])
  BY <1>0, <1>1, NoDestIsNone DEF HeapInv, NoDangling, WordInv
<1>6. HeapInv' /\ WordInv'
  <2>1. CASE is_mem_insn
    <3>1. Replace(<<"mem", c>>, last_insn, regs[last_insn.rs2], regs[last_insn.rs1])
      BY <1>1, <2>1 DEF TrackStore
    <3>2. <<"mem", c>> \in Dests
      BY DEF Dests
    <3>3. \A r \in Regs : regs[r] \in Live \cup {Null}
      BY <1>0, <1>1, NoDestIsNone DEF HeapInv, NoDangling
    <3>4. regs[last_insn.rs2] \in Live \cup {Null} /\ regs[last_insn.rs1] \in Live \cup {Null}
      BY <1>0, <3>3, InsnFields
    <3>5. /\ HeapInv' /\ dest' = <<"mem", c>> /\ node'[new'].insn = last_insn
          /\ \A n \in Live : n \in Live' /\ node'[n].insn = node[n].insn
      BY <1>0, <1>1, <3>1, <3>2, <3>4, ReplaceStep
    <3>6. UNCHANGED mem
      BY <3>1 DEF Replace
    <3>7. ASSUME NEW w \in Cells, w # c, mem[w] # Null
          PROVE  node'[mem'[w]].insn = lastStore'[w] \/ Overlooked(lastStore'[w])
      BY <1>4, <1>5, <3>5, <3>6, <3>7
    <3>8. \A w \in Cells : Overlooked(lastStore'[w]) <=> Overlooked(lastStore[w])'
      BY DEF Overlooked
    <3>9. \A w : dest' = <<"mem", w>> <=> w = c
      BY <3>5
    <3>10. WordInv'
      BY <1>4, <3>5, <3>6, <3>7, <3>8, <3>9 DEF WordInv
    <3>11. QED BY <3>5, <3>10
  <2>2. CASE ~is_mem_insn
    <3>1. UNCHANGED <<regs, mem, node, dest, new, queue>>
      BY <1>1, <2>2 DEF TrackStore, heapVars
    <3>2. HeapInv'
      BY <1>0, <3>1, HeapUnchanged
    <3>3. Overlooked(last_insn)
      BY <1>0, <1>1, <2>2 DEF AccessInv, Overlooked
    <3>4. ASSUME NEW w \in Cells, mem[w] # Null
          PROVE  node'[mem'[w]].insn = lastStore'[w] \/ Overlooked(lastStore'[w])
      <4>1. CASE w = c
        BY <1>4, <3>3, <4>1
      <4>2. CASE w # c
        BY <1>4, <1>5, <3>1, <3>4, <4>2
      <4>3. QED BY <4>1, <4>2
    <3>5. \A w \in Cells : Overlooked(lastStore'[w]) <=> Overlooked(lastStore[w])'
      BY DEF Overlooked
    <3>6. \A w : dest' # <<"mem", w>>
      BY <1>1, <3>1, NoDestIsNone
    <3>7. WordInv'
      BY <3>1, <3>4, <3>5, <3>6 DEF WordInv
    <3>8. QED BY <3>2, <3>7
  <2>3. QED BY <2>1, <2>2
<1>7. QED BY <1>0, <1>1, <1>2, <1>3, <1>4, <1>6 DEF TrackerInv

LEMMA TrackerInvInductive == TrackerInv /\ [Next]_vars => TrackerInv'
<1> SUFFICES ASSUME TrackerInv, [Next]_vars PROVE TrackerInv'
  OBVIOUS
<1>0. /\ HeapInv /\ WordInv /\ AccessInv /\ last_insn \in Insns /\ is_mem_insn \in BOOLEAN
      /\ lastStore \in [Cells -> Insns \cup {Null}]
  BY DEF TrackerInv
<1>1. ASSUME NEW i \in Insns, Track(i) PROVE TrackerInv'
  BY <1>1, TrackStep
<1>2. ASSUME NEW c \in Cells, Load(c) \/ PromptLoad(c) PROVE TrackerInv'
  <2>1. dest = NoDest /\ TrackLoad(c) /\ at' = "idle" /\ UNCHANGED <<last_insn, lastStore>>
    BY <1>2 DEF Load, PromptLoad, Settled
  <2>2. HeapInv' /\ WordInv' /\ is_mem_insn' \in BOOLEAN
    BY <1>0, <2>1, TrackLoadStep
  <2>3. AccessInv'
    BY <2>1 DEF AccessInv
  <2>4. QED BY <1>0, <2>1, <2>2, <2>3 DEF TrackerInv
<1>3. ASSUME NEW c \in Cells, Store(c) PROVE TrackerInv'
  BY <1>3, StoreStep
<1>4. ASSUME NEW c \in Cells, StoreElsewhere(c) PROVE TrackerInv'
  <2>1. /\ dest = NoDest /\ lastStore' = [lastStore EXCEPT ![c] = Null] /\ at' = "idle"
        /\ UNCHANGED <<regs, mem, node, dest, new, queue, last_insn, is_mem_insn>>
    BY <1>4 DEF StoreElsewhere, Settled, heapVars
  <2>2. AccessInv'
    BY <2>1 DEF AccessInv
  <2>3. HeapInv'
    BY <1>0, <2>1, HeapUnchanged
  <2>4. /\ lastStore'[c] = Null /\ \A w \in Cells : w # c => lastStore'[w] = lastStore[w]
        /\ lastStore' \in [Cells -> Insns \cup {Null}]
    BY <1>0, <2>1
  <2>5. \A w : dest' # <<"mem", w>>
    BY <2>1, NoDestIsNone
  <2>6. ASSUME NEW w \in Cells, mem[w] # Null
        PROVE  node'[mem'[w]].insn = lastStore'[w] \/ Overlooked(lastStore'[w])
    <3>1. CASE w = c
      BY <2>4, <3>1 DEF Overlooked
    <3>2. CASE w # c
      BY <1>0, <2>1, <2>4, <2>6, <3>2, NoDestIsNone DEF WordInv
    <3>3. QED BY <3>1, <3>2
  <2>7. WordInv'
    <3>1. \A w \in Cells : Overlooked(lastStore'[w]) <=> Overlooked(lastStore[w])'
      BY DEF Overlooked
    <3>2. QED BY <2>1, <2>5, <2>6, <3>1 DEF WordInv
  <2>8. QED BY <1>0, <2>1, <2>2, <2>3, <2>4, <2>7 DEF TrackerInv
<1>5. CASE Fault
  <2>1. at' = "idle" /\ UNCHANGED <<regs, mem, node, dest, new, queue, last_insn, is_mem_insn, lastStore>>
    BY <1>5 DEF Fault, heapVars
  <2>2. AccessInv'
    BY <2>1 DEF AccessInv
  <2>3. QED BY <1>0, <2>1, <2>2, Unchanged DEF TrackerInv
<1>6. CASE Cleanup
  <2>1. UNCHANGED <<regs, mem, last_insn, is_mem_insn, at, dest, new, lastStore>>
    BY <1>6 DEF Cleanup
  <2>2. HeapInv' /\ \A n \in Live' : n \in Live /\ node'[n].insn = node[n].insn
    BY <1>0, <1>6, CleanupStep
  <2>3. AccessInv'
    BY <1>0, <2>1 DEF AccessInv, Overlooked
  <2>4. WordInv'
    <3>1. \A c \in Cells : dest # <<"mem", c>> /\ mem[c] # Null => mem[c] \in Live'
      BY <2>1, <2>2 DEF HeapInv, NoDangling
    <3>2. ASSUME NEW c \in Cells, dest = <<"mem", c>> PROVE new \in Live'
      BY <2>1, <2>2, <3>2, NoDestIsNone DEF HeapInv, HeapTypes
    <3>3. QED BY <1>0, <2>1, <2>2, <3>1, <3>2 DEF WordInv, Overlooked
  <2>5. QED BY <1>0, <2>1, <2>2, <2>3, <2>4 DEF TrackerInv
<1>7. CASE Install
  <2>1. UNCHANGED <<last_insn, is_mem_insn, at, lastStore>>
    BY <1>7 DEF Install
  <2>2. HeapInv' /\ dest' = NoDest /\ UNCHANGED node
    BY <1>0, <1>7, InstallStep
  <2>3. AccessInv'
    BY <1>0, <2>1 DEF AccessInv, Overlooked
  <2>4. \A c \in Cells : mem'[c] = IF dest = <<"mem", c>> THEN new ELSE mem[c]
    <3>1. CASE dest[1] = "reg"
      BY <1>7, <3>1 DEF Install
    <3>2. CASE dest[1] # "reg"
      <4>1. PICK c \in Cells : dest = <<"mem", c>>
        BY <1>0, <1>7, <3>2 DEF HeapInv, HeapTypes, Dests, Install
      <4>2. mem' = [mem EXCEPT ![c] = new] /\ mem \in [Cells -> Refs]
        BY <1>0, <1>7, <4>1 DEF Install, HeapInv, HeapTypes
      <4>3. QED BY <4>1, <4>2
    <3>3. QED BY <3>1, <3>2
  <2>5. WordInv'
    BY <1>0, <2>1, <2>2, <2>4, NoDestIsNone DEF WordInv, Overlooked
  <2>6. QED BY <1>0, <2>1, <2>2, <2>3, <2>5 DEF TrackerInv
<1>8. CASE UNCHANGED vars
  <2>1. UNCHANGED <<regs, mem, node, dest, new, queue, lastStore, last_insn, is_mem_insn, at>>
    BY <1>8 DEF vars
  <2>2. AccessInv'
    BY <1>0, <2>1 DEF AccessInv, Overlooked
  <2>3. QED BY <1>0, <2>1, <2>2, Unchanged DEF TrackerInv
<1>9. QED BY <1>1, <1>2, <1>3, <1>4, <1>5, <1>6, <1>7, <1>8 DEF Next

LEMMA TrackerInvInitial == Init => TrackerInv
<1> SUFFICES ASSUME Init PROVE TrackerInv
  OBVIOUS
<1>1. Live = {}
  BY DEF Init, Live
<1>2. HeapTypes
  BY DEF Init, HeapTypes, Refs
<1>3. NoDangling /\ CountsExact
  BY <1>1 DEF Init, NoDangling, CountsExact
<1>4. is_mem_insn \in BOOLEAN
  <2>1. is_mem_insn \in UninitFlag
    BY DEF Init
  <2>2. QED BY <2>1, UninitFlagAssumption
<1>5. AccessInv /\ WordInv
  BY NoDestIsNone DEF Init, AccessInv, WordInv
<1>6. last_insn \in Insns /\ lastStore \in [Cells -> Insns \cup {Null}]
  BY DEF Init
<1>7. QED BY <1>2, <1>3, <1>4, <1>5, <1>6 DEF TrackerInv, HeapInv

-----------------------------------------------------------------------------
(* Every reference count is exact at every turn of cleanup, for any        *)
(* program, number of registers and words: nothing leaks.                  *)
THEOREM CountsCorrect == Spec => []CountsExact
<1>1. TrackerInv => CountsExact
  BY DEF TrackerInv, HeapInv
<1>2. QED BY <1>1, TrackerInvInitial, TrackerInvInductive, PTL DEF Spec

(* No freed node is ever reached, not even while cleanup frees a history   *)
(* that other registers, words and nodes share.                            *)
THEOREM NothingDangles == Spec => []NoDangling
<1>1. TrackerInv => NoDangling
  BY DEF TrackerInv, HeapInv
<1>2. QED BY <1>1, TrackerInvInitial, TrackerInvInductive, PTL DEF Spec

(* A word's history is that of the last store to it by a scalar            *)
(* instruction of the hart, unless another hart, the host, the prompt or   *)
(* the vector unit has stored to it since, or the instruction was an AMO   *)
(* or sc or stored x0, sp or a floating point register (tracker.cc:99).    *)
(* Faults and loads from the prompt in between make no difference.         *)
THEOREM HistoryCorrect == Spec => []WordHistoryCurrent
<1>1. TrackerInv => WordHistoryCurrent
  BY NoDestIsNone DEF TrackerInv, WordInv, WordHistoryCurrent, Settled, Overlooked
<1>2. QED BY <1>1, TrackerInvInitial, TrackerInvInductive, PTL DEF Spec
=============================================================================
