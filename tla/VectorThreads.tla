----------------------------- MODULE VectorThreads -----------------------------
(***************************************************************************)
(* What the vector unit promises its processes: a unit of one's own.  Each *)
(* process has a vector of vl elements with the registers it configured;   *)
(* its blocks execute every instruction once in each element, all elements *)
(* before the next instruction, whatever faults, interrupts and other      *)
(* processes come in between.  Integer instructions of a block leave their *)
(* result in a scalar register of the process, which the elements share.   *)
(* Hwacha is shown to implement this.                                      *)
(***************************************************************************)
EXTENDS Integers, Sequences

CONSTANTS Procs, MaxLength, Block, Starts

VARIABLES
  vl,         \* the number of elements of each process
  x, f,       \* integer and floating point register of each element; the
              \* empty function when there is no such register
  next,       \* the instruction each element executes next
  active,     \* is the process within a block?
  mem,        \* the word of the process that blocks load and store
  xpr         \* the scalar register of the process that they write

vars == <<vl, x, f, next, active, mem, xpr>>
Empty == [i \in {} |-> 0]
Elements(n) == 0 .. n - 1
\* The registers of n elements, or none.
Registers(r, n) == r = Empty \/ DOMAIN r = Elements(n)

Init == /\ vl = [p \in Procs |-> 0]
        /\ x = [p \in Procs |-> Empty]
        /\ f = [p \in Procs |-> Empty]
        /\ next = [p \in Procs |-> Empty]
        /\ active = [p \in Procs |-> FALSE]
        /\ mem = [p \in Procs |-> 0]
        /\ xpr = [p \in Procs |-> 0]

\* Only process p's part of the variable changes.
Only(p, v, w) == \A q \in Procs \ {p} : w[q] = v[q]
OnlyOf(p) == /\ Only(p, vl, vl') /\ Only(p, x, x') /\ Only(p, f, f')
             /\ Only(p, next, next') /\ Only(p, active, active')
             /\ Only(p, mem, mem') /\ Only(p, xpr, xpr')
\* What the elements execute is all that writes the word and the register.
Data(p) == mem'[p] = mem[p] /\ xpr'[p] = xpr[p]

\* Configuration and death leave no elements.
Clear(p) == /\ vl'[p] = 0 /\ x'[p] = Empty /\ f'[p] = Empty
            /\ next'[p] = Empty /\ ~ active'[p] /\ Data(p)

\* A new length keeps the configuration and the elements that both lengths
\* have.
Kept(r, s) == \A i \in DOMAIN r \cap DOMAIN s : s[i] = r[i]
SetLength(p) == /\ ~ active[p]
                /\ vl'[p] \in 0 .. MaxLength
                /\ Registers(x'[p], vl'[p]) /\ Kept(x[p], x'[p])
                /\ Registers(f'[p], vl'[p]) /\ Kept(f[p], f'[p])
                /\ vl[p] > 0 /\ vl'[p] > 0 => /\ x'[p] = Empty <=> x[p] = Empty
                                             /\ f'[p] = Empty <=> f[p] = Empty
                /\ next'[p] = Empty /\ ~ active'[p] /\ Data(p)

\* One value into the first elements of one kind of register.
Prefix(r, s) == /\ DOMAIN s = DOMAIN r
                /\ \E k \in 0 .. MaxLength : /\ \A i \in DOMAIN r : i >= k => s[i] = r[i]
                                             /\ \A i, j \in DOMAIN r : i < k /\ j < k => s[i] = s[j]
Write(p) == /\ ~ active[p]
            /\ \/ Prefix(x[p], x'[p]) /\ f'[p] = f[p]
               \/ Prefix(f[p], f'[p]) /\ x'[p] = x[p]
            /\ vl'[p] = vl[p] /\ next'[p] = next[p] /\ ~ active'[p] /\ Data(p)

Start(p) == /\ ~ active[p] /\ vl[p] > 0
            /\ \E pc \in Starts : next'[p] = [i \in Elements(vl[p]) |-> pc]
            /\ active'[p]
            /\ vl'[p] = vl[p] /\ x'[p] = x[p] /\ f'[p] = f[p] /\ Data(p)

\* Element i executes its instruction: it is behind no other, and the first
\* of those that are as far as it is.
Turn(p, i) == \A j \in Elements(vl[p]) : next[p][i] <= next[p][j] /\ (j < i => next[p][i] < next[p][j])
Insn(p, i) == Block[next[p][i]]
Execute(p, i) ==
  /\ active[p] /\ Turn(p, i)
  /\ next[p][i] \in 1 .. Len(Block)
  /\ Insn(p, i) # "illegal"
  /\ Insn(p, i) \in {"utidx", "addi", "amo"} => x[p] # Empty
  /\ Insn(p, i) \in {"load", "fadd", "store"} => f[p] # Empty
  /\ x'[p] = IF Insn(p, i) = "utidx" THEN [x[p] EXCEPT ![i] = i] ELSE x[p]
  /\ f'[p] = CASE Insn(p, i) = "load" -> [f[p] EXCEPT ![i] = mem[p]]
               [] Insn(p, i) = "fadd" -> [f[p] EXCEPT ![i] = @ + @]
               [] OTHER -> f[p]
  /\ mem'[p] = CASE Insn(p, i) = "amo" -> mem[p] + x[p][i]
                 [] Insn(p, i) = "store" -> f[p][i]
                 [] OTHER -> mem[p]
  /\ xpr'[p] = CASE Insn(p, i) = "addi" -> x[p][i] + 1
                 [] Insn(p, i) = "amo" -> mem[p]
                 [] OTHER -> xpr[p]
  /\ vl'[p] = vl[p]
  /\ IF Insn(p, i) = "stop" /\ i = vl[p] - 1
     THEN ~ active'[p] /\ next'[p] = Empty
     ELSE active'[p] /\ next'[p] = [next[p] EXCEPT ![i] = @ + 1]

Next == \E p \in Procs : /\ OnlyOf(p)
                         /\ \/ Clear(p) \/ SetLength(p) \/ Write(p) \/ Start(p)
                            \/ \E i \in Elements(vl[p]) : Execute(p, i)
Spec == Init /\ [][Next]_vars
==============================================================================
