------------------------------ MODULE CacheSim ------------------------------
(***************************************************************************)
(* The cache model: cache_sim_t and fa_cache_sim_t (riscv/cachesim.cc,     *)
(* riscv/cachesim.h), a hierarchy of write-back caches that each hand      *)
(* their misses to a list of miss handlers.  The calls a miss makes are    *)
(* kept on a stack, one action per call, so that any hierarchy fits.       *)
(*                                                                         *)
(* The victim is chosen by a shift register; here, by any choice of way.   *)
(***************************************************************************)
EXTENDS Integers, Sequences, FiniteSets, FiniteSetsExt

CONSTANTS
  Caches,
  Sets, Ways, LineSz,  \* per cache: the configuration sets:ways:blocksize
  TagMode,             \* per cache: a tag cache counts in units of 8 bytes
  Handlers,            \* per cache: its miss handlers, in order
  ICaches, DCaches,    \* the caches the memory ports trace into: I$, D$
  FAWays,              \* with one set and more ways than this, the cache is
                       \* fully associative: 4
  Addrs, Bytes,        \* addresses the program uses, the length of an access
  MaxAccesses          \* bound: accesses of the program between two resets

Positive == Nat \ {0}

ASSUME GeometryAssumption ==
  /\ Sets \in [Caches -> Positive] /\ Ways \in [Caches -> Positive]
  /\ LineSz \in [Caches -> Positive]
  /\ TagMode \in [Caches -> BOOLEAN]
ASSUME HandlersAssumption ==    \* main adds a handler to a cache once
  /\ Handlers \in [Caches -> Seq(Caches)]
  /\ \A c \in Caches : \A i, j \in DOMAIN Handlers[c] :
       Handlers[c][i] = Handlers[c][j] => i = j
ASSUME RootsAssumption == ICaches \subseteq Caches /\ DCaches \subseteq Caches
ASSUME AddrsAssumption == Addrs \subseteq Nat /\ Bytes \in Positive
ASSUME BoundsAssumption == FAWays \in Nat /\ MaxAccesses \in Nat

(* construct: which class implements the cache.                            *)
FullyAssociative(c) == Ways[c] > FAWays /\ Sets[c] = 1

(* idx_shift: the loop of init counts the bits of linesz, so the shift     *)
(* drops one bit more than the offset in a line has.                       *)
IdxShift[x \in Nat] == IF x = 0 THEN 0 ELSE 1 + IdxShift[x \div 2]
Shift[k \in Nat] == IF k = 0 THEN 1 ELSE 2 * Shift[k - 1]
Granule(c) == Shift[IdxShift[LineSz[c]]]

ASSUME GranuleAssumption == \A c \in Caches : Granule(c) \in Positive

Empty == [empty |-> TRUE]
Line == [tag : Nat, dirty : BOOLEAN]

SetIdx(c) == 0 .. Sets[c] - 1
Slots(c) == SetIdx(c) \X (0 .. Ways[c] - 1)

Counters == [read_accesses : Nat, read_misses : Nat, bytes_read : Nat,
             write_accesses : Nat, write_misses : Nat, bytes_written : Nat,
             writebacks : Nat]
Zero == [read_accesses |-> 0, read_misses |-> 0, bytes_read |-> 0,
         write_accesses |-> 0, write_misses |-> 0, bytes_written |-> 0,
         writebacks |-> 0]

(* A call of access(addr, bytes, store).                                   *)
Calls == [cache : Caches, addr : Nat, bytes : Nat, store : BOOLEAN]
Call(c, a, b, store) == [cache |-> c, addr |-> a, bytes |-> b, store |-> store]

VARIABLES
  tags,      \* per cache and slot: Empty or a line
  stats,     \* per cache: the counters
  stack,     \* calls of access still to run, the next one first
  asked,     \* history, per root: reads and writes of the program since reset
  fetched,   \* history, per cache: the units it has missed on since reset
  stored     \* history: addresses stored to and not written back to memory

vars == <<tags, stats, stack, asked, fetched, stored>>

TypeOK ==
  /\ DOMAIN tags = Caches
  /\ \A c \in Caches : tags[c] \in [Slots(c) -> Line \cup {Empty}]
  /\ stats \in [Caches -> Counters]
  /\ stack \in Seq(Calls)
  /\ asked \in [Caches -> [reads : Nat, writes : Nat]]
  /\ fetched \in [Caches -> SUBSET Nat]
  /\ stored \subseteq Addrs

Init ==
  /\ tags = [c \in Caches |-> [s \in Slots(c) |-> Empty]]
  /\ stats = [c \in Caches |-> Zero]
  /\ stack = <<>>
  /\ asked = [c \in Caches |-> [reads |-> 0, writes |-> 0]]
  /\ fetched = [c \in Caches |-> {}]
  /\ stored = {}

-----------------------------------------------------------------------------
(* check_tag and victimize                                                 *)

(* Tag caches use smaller units.                                           *)
Unit(c, a) == IF TagMode[c] THEN a \div 8 ELSE a
UnitBytes(c, b) == IF TagMode[c] THEN (b + 7) \div 8 ELSE b

TagOf(c, u) == u \div Granule(c)
Idx(c, u) == TagOf(c, u) % Sets[c]

(* Mutated: the dirty bit is not masked out of the comparison.             *)
MatchesCleanOnly(c, s, t) == tags[c][s] = [tag |-> t, dirty |-> FALSE]
Matches(c, s, t) == tags[c][s] # Empty /\ tags[c][s].tag = t

(* The ways where unit u is found.                                         *)
CheckTag(c, u) ==
  {s \in Slots(c) : s[1] = Idx(c, u) /\ Matches(c, s, TagOf(c, u))}

(* The slots victimize may take.  A fully associative cache is a map: it   *)
(* evicts only when it is full.                                            *)
SetOf(c, u) == {s \in Slots(c) : s[1] = Idx(c, u)}
Free(c) == {s \in Slots(c) : tags[c][s] = Empty}
Victims(c, u) ==
  IF FullyAssociative(c) /\ Free(c) # {} THEN {CHOOSE s \in Free(c) : TRUE}
                                         ELSE SetOf(c, u)

IsDirty(v) == v # Empty /\ v.dirty

(* Mutated: the tag itself is taken for the address; the line before is    *)
(* read.                                                                   *)
DirtyAddrUnshifted(c, v) == v.tag
FillAddrBefore(c, u) == u - LineSz[c]

DirtyAddr(c, v) == v.tag * Granule(c)
FillAddr(c, u) == u - (u % LineSz[c])

-----------------------------------------------------------------------------
(* access                                                                  *)

Count(k, store, bytes) ==
  IF store THEN [k EXCEPT !.write_accesses = @ + 1, !.bytes_written = @ + bytes]
           ELSE [k EXCEPT !.read_accesses = @ + 1, !.bytes_read = @ + bytes]
CountMiss(k, store, wb) ==
  LET m == IF store THEN [k EXCEPT !.write_misses = @ + 1]
                    ELSE [k EXCEPT !.read_misses = @ + 1]
  IN  IF wb THEN [m EXCEPT !.writebacks = @ + 1] ELSE m

Asked == MapThenSumSet(LAMBDA c : asked[c].reads + asked[c].writes, Caches)

Noted(k, store) == IF store THEN [k EXCEPT !.writes = @ + 1]
                            ELSE [k EXCEPT !.reads = @ + 1]

(* The memory port traces an access of the program: a fetch in the I$, a   *)
(* load or store in the D$.                                                *)
Trace(c, a, store) ==
  /\ stack = <<>>
  /\ Asked < MaxAccesses
  /\ stack' = <<Call(c, a, Bytes, store)>>
  /\ asked' = [asked EXCEPT ![c] = Noted(@, store)]
  /\ stored' = IF store THEN stored \cup {a} ELSE stored
  /\ UNCHANGED <<tags, stats, fetched>>

Hit ==
  /\ stack # <<>>
  /\ LET call == Head(stack)
         c == call.cache
         u == Unit(c, call.addr)
     IN  /\ CheckTag(c, u) # {}
         /\ \E s \in CheckTag(c, u) :
              tags' = IF call.store THEN [tags EXCEPT ![c][s].dirty = TRUE] ELSE tags
         /\ stats' = [stats EXCEPT ![c] =
                        Count(@, call.store, UnitBytes(c, call.bytes))]
  /\ stack' = Tail(stack)
  /\ UNCHANGED <<asked, fetched, stored>>

(* What a miss asks of the handlers: first the dirty victim is written     *)
(* back to all of them, then the line is read from all of them.            *)
WriteBacks(c, v) ==
  IF IsDirty(v)
    THEN [i \in 1 .. Len(Handlers[c]) |->
            Call(Handlers[c][i], DirtyAddr(c, v), LineSz[c], TRUE)]
    ELSE <<>>
Fills(c, u) ==
  [i \in 1 .. Len(Handlers[c]) |->
     Call(Handlers[c][i], FillAddr(c, u), LineSz[c], FALSE)]

(* Mutated: the victim is dropped.                                         *)
CallsOfMissFillOnly(c, u, v) == Fills(c, u)
CallsOfMiss(c, u, v) == WriteBacks(c, v) \o Fills(c, u)

(* Addresses whose data a write-back by the last level takes to memory.    *)
WrittenOut(c, v) ==
  IF IsDirty(v) /\ Handlers[c] = <<>>
    THEN {a \in stored : TagOf(c, Unit(c, a)) = v.tag} ELSE {}

MissAt(c, u, s, call) ==
  /\ stats' = [stats EXCEPT ![c] =
                 CountMiss(Count(@, call.store, UnitBytes(c, call.bytes)),
                           call.store, IsDirty(tags[c][s]))]
  /\ tags' = [tags EXCEPT ![c][s] = [tag |-> TagOf(c, u), dirty |-> call.store]]
  /\ stack' = CallsOfMiss(c, u, tags[c][s]) \o Tail(stack)
  /\ fetched' = [fetched EXCEPT ![c] = @ \cup {u}]
  /\ stored' = stored \ WrittenOut(c, tags[c][s])
  /\ UNCHANGED asked

Miss ==
  /\ stack # <<>>
  /\ LET call == Head(stack)
         c == call.cache
         u == Unit(c, call.addr)
     IN  /\ CheckTag(c, u) = {}
         /\ \E s \in Victims(c, u) : MissAt(c, u, s, call)

(* reset, of every cache: the counters and the array of tags, which is not *)
(* where a fully associative cache keeps its lines.  The prompt's          *)
(* cachereset, or the program through libspike.  Mutated: counters only.   *)
ClearedNone(c) == tags[c]
Cleared(c) == IF FullyAssociative(c) THEN tags[c] ELSE [s \in Slots(c) |-> Empty]

Reset ==
  /\ stack = <<>>
  /\ tags' = [c \in Caches |-> Cleared(c)]
  /\ stats' = [c \in Caches |-> Zero]
  /\ asked' = [c \in Caches |-> [reads |-> 0, writes |-> 0]]
  /\ fetched' = [c \in Caches |-> {}]
  /\ stored' = {}
  /\ UNCHANGED stack

Next ==
  \/ \E c \in ICaches, a \in Addrs : Trace(c, a, FALSE)
  \/ \E c \in DCaches, a \in Addrs, store \in BOOLEAN : Trace(c, a, store)
  \/ Hit \/ Miss \/ Reset

Spec == Init /\ [][Next]_vars

-----------------------------------------------------------------------------
(* Properties                                                              *)

(* A line is in at most one way, and in the set its address selects: a     *)
(* second copy would lose the dirty bit of the first.                      *)
OneCopy ==
  \A c \in Caches : \A s, t \in Slots(c) :
    tags[c][s] # Empty /\ tags[c][t] # Empty /\ tags[c][s].tag = tags[c][t].tag
      => s = t /\ s[1] = tags[c][s].tag % Sets[c]

(* What is on the stack for cache c, and what its callers have sent it:    *)
(* the n-th miss or write-back of p is <<p, n>>.                           *)
Waiting(c, store) ==
  Cardinality({i \in DOMAIN stack : stack[i].cache = c /\ stack[i].store = store})
Callers(c) == {p \in Caches : \E i \in DOMAIN Handlers[p] : Handlers[p][i] = c}

MissesOf(S) ==
  UNION {{p} \X (1 .. stats[p].read_misses + stats[p].write_misses) : p \in S}
WritebacksOf(S) == UNION {{p} \X (1 .. stats[p].writebacks) : p \in S}

(* The statistics add up, level by level: a cache is read once for each    *)
(* miss of each of its callers and written once for each of their          *)
(* write-backs, whatever the order in which levels evict.                  *)
TrafficConserved ==
  \A c \in Caches :
    /\ stats[c].read_accesses + Waiting(c, FALSE)
         = asked[c].reads + Cardinality(MissesOf(Callers(c)))
    /\ stats[c].write_accesses + Waiting(c, TRUE)
         = asked[c].writes + Cardinality(WritebacksOf(Callers(c)))

(* The bytes a line of c covers, and when the lines of c make up those of  *)
(* its handlers: only then is the one address of a write-back enough.      *)
(* Nothing in the code asks for it.                                        *)
Span(c) == IF TagMode[c] THEN 8 * Granule(c) ELSE Granule(c)
LinesNest ==
  \A c \in Caches : \A i \in DOMAIN Handlers[c] :
    ~TagMode[c] /\ Span(Handlers[c][i]) % Granule(c) = 0

(* Nothing stored is lost on the way down: as long as the last level has   *)
(* not written it out, it is in a dirty line somewhere, or in a write-back *)
(* under way.  (For hierarchies with one last level whose lines nest.)     *)
StoresAccounted ==
  \A a \in stored :
    \/ \E c \in Caches : \E s \in Slots(c) :
         IsDirty(tags[c][s]) /\ tags[c][s].tag = TagOf(c, Unit(c, a))
    \/ \E i \in DOMAIN stack : LET c == stack[i].cache IN
         /\ stack[i].store
         /\ TagOf(c, Unit(c, stack[i].addr)) = TagOf(c, Unit(c, a))

(* After cachereset ("Caches have been reset.", riscv/interactive.cc) a    *)
(* cache holds only what it has fetched since.  Fully associative caches   *)
(* are left out: their lines survive a reset (see Cleared).                *)
HoldsOnlyFetched ==
  \A c \in Caches : ~FullyAssociative(c) =>
    \A s \in Slots(c) : tags[c][s] # Empty =>
      \E u \in fetched[c] : TagOf(c, u) = tags[c][s].tag

(* A hit is a hit on a B-byte block that was fetched (spike --help: "S     *)
(* sets, W ways, and B-byte blocks").                                      *)
HitsFetchedBlock ==
  stack # <<>> =>
    LET c == Head(stack).cache
        u == Unit(c, Head(stack).addr)
    IN  CheckTag(c, u) # {} =>
          \E f \in fetched[c] : f \div LineSz[c] = u \div LineSz[c]
=============================================================================
