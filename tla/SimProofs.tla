----------------------------- MODULE SimProofs -----------------------------
(***************************************************************************)
(* Sim for any number of harts, any slice length and any set of words:     *)
(* type correctness, lr/sc atomicity among harts, the pairing of the       *)
(* sequence numbers of host and simulator, and the mailboxes.              *)
(***************************************************************************)
EXTENDS Sim, TLAPS

(* Inside processor_t::step, a CSR read that waits for the host included.  *)
InStep == \/ loc \in {"exec", "tohost", "fromhost"}
          \/ loc = "tick" /\ ret \in {"tohost", "fromhost"}

(* What sim_t::step keeps while processor_t::step runs: the slice has room *)
(* for the steps, and the loop has them left.                              *)
StepFits == InStep => /\ steps <= todo
                      /\ current_step + steps <= INTERLEAVE

(* A hart other than the one sim_t::step is running holds no reservation:  *)
(* yield_load_reservation at the end of a slice, before current_proc moves *)
(* on, is what keeps it so.  A hart the host has never released still has  *)
(* the arbitrary value of an uninitialised state_t.                        *)
OnlyCurrentReserves ==
  \A p \in Procs : run[p] /\ p # current_proc => resv[p] = NoResv

(* The reservation invariant: typing, only the current hart reserves, and  *)
(* a reservation that counts is clean.                                     *)
ResvInv == TypeOK /\ StepFits /\ OnlyCurrentReserves /\ ReservationClean

USE NProcsAssumption, InterleaveAssumption, ChainAssumption, NoResvAssumption,
    SeqModAssumption, OptionsAssumption

USE DEF HostReset, Put, Bump, WantsPrompt, YieldLoadReservation, NextHart

(* The round robin's successor of a hart is a hart.                        *)
LEMMA NextProc == \A p \in Procs : (p + 1) % NProcs \in Procs
  BY DEF Procs

(* The successor of an 8-bit sequence number is one, at the wrap too.      *)
LEMMA NextSeqno == \A n \in Seqnos : (n + 1) % SeqMod \in Seqnos
  BY DEF Seqnos

(* There is a hart 0, where round robin and host begin.                    *)
LEMMA ZeroProc == 0 \in Procs
  BY DEF Procs

(* The initial states satisfy the reservation invariant: no hart runs.     *)
LEMMA InitResv == Init => ResvInv
<1> SUFFICES ASSUME Init PROVE ResvInv
  OBVIOUS
<1>1. TypeOK
  <2>1. debug \in BOOLEAN /\ ctrlc \in BOOLEAN /\ hreset \in BOOLEAN
    BY DEF Init
  <2>2. tohost \in [Procs -> Mail] /\ fromhost \in [Procs -> Mail]
    BY DEF Init, Mail
  <2>3. written \in [Procs -> SUBSET Addrs] /\ run \in [Procs -> BOOLEAN]
    BY DEF Init
  <2>4. seqno \in Seqnos /\ hseq \in Seqnos
    BY DEF Init, Seqnos
  <2>5. QED BY <2>1, <2>2, <2>3, <2>4, ZeroProc DEF Init, TypeOK
<1>2. StepFits
  BY DEF Init, StepFits, InStep
<1>3. \A p \in Procs : ~run[p] /\ ~(burst > 0)
  BY DEF Init
<1>4. QED BY <1>1, <1>2, <1>3 DEF ResvInv, OnlyCurrentReserves, ReservationClean

(* htif_isasim_t::tick returns to a location of the simulator.             *)
LEMMA AfterTickType ==
  ASSUME NEW r \in {"run", "slice", "tohost", "fromhost"}
  PROVE  AfterTick(r) \in {"body", "loop", "tohost", "fromhost"}
  BY DEF AfterTick

(* A request served by tick_once keeps the harts' fields well typed.       *)
LEMMA ServeType ==
  ASSUME TypeOK, NEW r \in Requests, Serve(r)
  PROVE  /\ hreset' \in BOOLEAN
         /\ run' \in [Procs -> BOOLEAN]
         /\ tohost' \in [Procs -> Mail]
         /\ fromhost' \in [Procs -> Mail]
         /\ ipi' \in [Procs -> BOOLEAN]
         /\ resv' \in [Procs -> Addrs \cup {NoResv}]
<1>0. r.core \in Procs /\ r.val \in Mail /\ 0 \in Mail
  BY DEF Requests, Mail
<1>1. CASE r.reg = "reset" /\ r.write
  <2>1. hreset' = (hreset /\ r.val = 1) /\ Reset(r.core, r.val = 1)
    BY <1>1 DEF Serve
  <2>2. hreset' \in BOOLEAN
    BY <2>1
  <2>3. QED BY <1>0, <2>1, <2>2 DEF Reset, TypeOK
<1>2. CASE ~(r.reg = "reset" /\ r.write) /\ r.reg = "tohost" /\ r.write
  BY <1>0, <1>2 DEF Serve, TypeOK
<1>3. CASE /\ ~(r.reg = "reset" /\ r.write) /\ ~(r.reg = "tohost" /\ r.write)
           /\ r.reg = "fromhost" /\ r.write
  BY <1>0, <1>3 DEF Serve, TypeOK
<1>4. CASE /\ ~(r.reg = "reset" /\ r.write) /\ ~(r.reg = "tohost" /\ r.write)
           /\ ~(r.reg = "fromhost" /\ r.write)
  BY <1>4 DEF Serve, TypeOK, hartVars
<1>5. QED BY <1>1, <1>2, <1>3, <1>4

(* A well-typed state stays well typed, and the slice arithmetic fits.     *)
LEMMA TypeStep == TypeOK /\ StepFits /\ [Next]_vars => TypeOK' /\ StepFits'
<1> SUFFICES ASSUME TypeOK, StepFits, [Next]_vars PROVE TypeOK' /\ StepFits'
  OBVIOUS
<1> USE DEF StepFits, InStep
<1>1. CASE TickDone
  BY <1>1, AfterTickType DEF TickDone, TypeOK, AfterTick, schedVars, hartVars,
     htifVars, hostVars
<1>2. CASE TickOnce
  <2>0. req \in Requests
    BY <1>2 DEF TickOnce, TypeOK
  <2>1. OldVal(req) \in Mail
    <3>1. tohost[req.core] \in Mail /\ fromhost[req.core] \in Mail
      BY <2>0 DEF TypeOK, Requests
    <3>2. 0 \in Mail /\ 1 \in Mail
      BY DEF Mail, Exit
    <3>3. QED BY <3>1, <3>2 DEF OldVal
  <2>2. ack' \in Acks
    BY <1>2, <2>1 DEF TickOnce, TypeOK, Acks
  <2>3. QED BY <1>2, <2>0, <2>2, ServeType, NextSeqno, AfterTickType
            DEF TickOnce, TypeOK, AfterTick, schedVars, hostVars
<1>3. CASE RunBody
  BY <1>3 DEF RunBody, TypeOK, hartVars, htifVars, hostVars
<1>4. CASE PromptStep \/ PromptLeave \/ PromptQuit
  <2>1. ctrlc' \in BOOLEAN
    BY <1>4 DEF PromptStep, PromptLeave, PromptQuit, TypeOK
  <2>2. CASE PromptStep
    <3>1. loc' = "loop" /\ todo' \in 0 .. INTERLEAVE
      BY <2>2 DEF PromptStep
    <3>2. QED BY <2>1, <2>2, <3>1 DEF PromptStep, TypeOK, hartVars, htifVars, hostVars
  <2>3. CASE PromptLeave
    BY <2>1, <2>3 DEF PromptLeave, TypeOK, schedVars, hartVars, htifVars, hostVars
  <2>4. CASE PromptQuit
    BY <2>1, <2>4 DEF PromptQuit, TypeOK, schedVars, hartVars, htifVars, hostVars
  <2>5. QED BY <1>4, <2>2, <2>3, <2>4
<1>5. CASE StepReturn
  BY <1>5 DEF StepReturn, TypeOK, schedVars, hartVars, htifVars, hostVars
<1>6. CASE StepEnter \/ StepInterrupt
  <2>1. /\ steps' \in 0 .. INTERLEAVE /\ burst' \in 0 .. INTERLEAVE + CHAIN
        /\ steps' <= todo /\ current_step + steps' <= INTERLEAVE
    BY <1>6 DEF StepEnter, StepInterrupt, MinOf, TypeOK
  <2>2. resv' \in [Procs -> Addrs \cup {NoResv}]
    BY <1>6 DEF StepEnter, StepInterrupt, TypeOK, hartVars
  <2>3. CASE StepEnter
    BY <2>1, <2>2, <2>3 DEF StepEnter, TypeOK, hartVars, htifVars, hostVars
  <2>4. CASE StepInterrupt
    BY <2>1, <2>2, <2>4 DEF StepInterrupt, TypeOK, htifVars, hostVars
  <2>5. QED BY <1>6, <2>3, <2>4
<1>7. CASE StepCharge
  <2>1. /\ todo' \in 0 .. INTERLEAVE
        /\ current_step' \in 0 .. INTERLEAVE - 1
        /\ current_proc' \in Procs
        /\ resv' \in [Procs -> Addrs \cup {NoResv}]
    BY <1>7, NextProc DEF StepCharge, TypeOK
  <2>2. loc' \in {"tick", "loop"} /\ (loc' = "tick" => ret' = "slice")
        /\ ret' \in {ret, "slice"}
    BY <1>7 DEF StepCharge
  <2>3. StepFits'
    BY <2>2
  <2>4. UNCHANGED <<debug, ctrlc, burst, caller, steps, run, tohost, fromhost,
                    ipi, htifVars, hostVars, written>>
    BY <1>7 DEF StepCharge
  <2>5. /\ loc' \in {"tick", "body", "loop", "exec", "tohost", "fromhost",
                    "prompt", "exited"}
        /\ ret' \in {"run", "slice", "tohost", "fromhost"}
    BY <2>2 DEF TypeOK
  <2>6. QED BY <2>1, <2>3, <2>4, <2>5 DEF TypeOK, htifVars, hostVars
<1>8. CASE Instruction
  <2>1. ASSUME NEW a \in Addrs,
               LoadReserved(a) \/ StoreConditional(a) \/ Store(a)
        PROVE  TypeOK' /\ StepFits'
    <3>1. CASE LoadReserved(a)
      BY <3>1 DEF LoadReserved, Executing, Retire, TypeOK, schedVars, htifVars,
         hostVars
    <3>2. CASE StoreConditional(a) \/ Store(a)
      <4>1. written' \in [Procs -> SUBSET Addrs]
        BY <3>2 DEF StoreConditional, Store, Overwrite, TypeOK
      <4>2. QED BY <3>2, <4>1 DEF StoreConditional, Store, Executing, Retire,
                   TypeOK, schedVars, hartVars, htifVars, hostVars
    <3>3. QED BY <2>1, <3>1, <3>2
  <2>2. CASE OtherInsn \/ Trap \/ Serialize \/ Monitor
    <3>1. CASE OtherInsn
      BY <3>1 DEF OtherInsn, Executing, Retire, TypeOK, schedVars, hartVars,
         htifVars, hostVars
    <3>2. CASE Trap
      BY <3>2 DEF Trap, Executing, TypeOK, schedVars, htifVars, hostVars
    <3>3. CASE Serialize
      BY <3>3 DEF Serialize, Executing, TypeOK, schedVars, hartVars, htifVars,
         hostVars
    <3>4. CASE Monitor
      BY <3>4 DEF Monitor, Executing, TypeOK, schedVars, hartVars, htifVars,
         hostVars
    <3>5. QED BY <2>2, <3>1, <3>2, <3>3, <3>4
  <2>3. ASSUME NEW who \in 0 .. NProcs, SendIpi(who)
        PROVE  TypeOK' /\ StepFits'
    <3>1. ipi' \in [Procs -> BOOLEAN]
      BY <2>3 DEF SendIpi, TypeOK
    <3>2. QED BY <2>3, <3>1 DEF SendIpi, Executing, Retire, TypeOK, schedVars,
                 htifVars, hostVars
  <2>4. ASSUME NEW on \in BOOLEAN, ClearIpi(on)
        PROVE  TypeOK' /\ StepFits'
    BY <2>4 DEF ClearIpi, Executing, Retire, TypeOK, schedVars, htifVars, hostVars
  <2>5. ASSUME NEW which \in {"tohost", "fromhost"}, CsrMailbox(which)
        PROVE  TypeOK' /\ StepFits'
    BY <2>5 DEF CsrMailbox, Executing, TypeOK, schedVars, hartVars, htifVars,
       hostVars
  <2>6. ASSUME NEW v \in Mail, WriteTohost(v) \/ WriteFromhost(v)
        PROVE  TypeOK' /\ StepFits'
    BY <2>6 DEF WriteTohost, WriteFromhost, TypeOK, schedVars, htifVars, hostVars
  <2>7. {0, fromhost[current_proc]} \subseteq Mail
    BY DEF TypeOK, Mail
  <2>8. QED BY <1>8, <2>1, <2>2, <2>3, <2>4, <2>5, <2>6, <2>7 DEF Instruction
<1>9. CASE HostSend
  <2>1. HostRequest \in Requests
    BY <1>9 DEF HostSend, HostRequest, Request, Requests, TypeOK, Mail, Call, Exit
  <2>2. QED BY <1>9, <2>1 DEF HostSend, TypeOK, simVars, schedVars, hartVars,
               hostVars
<1>10. CASE HostRecv
  <2>1. hseq' \in Seqnos
    BY <1>10, NextSeqno DEF HostRecv, TypeOK
  <2>2. hpc' \in {"load", "assert", "release", "reply", "poll", "stop", "gone"}
    BY <1>10 DEF HostRecv, TypeOK, Visit
  <2>4. hcore' \in Procs
    <3>1. hcore \in Procs /\ (hcore + 1) % NProcs \in Procs
      BY NextProc DEF TypeOK
    <3>2. CASE hpc \in {"assert", "release", "stop"}
      BY <1>10, <3>1, <3>2 DEF HostRecv, Visit
    <3>3. CASE hpc \in {"load", "reply", "poll"}
      BY <1>10, <3>1, <3>3, ZeroProc DEF HostRecv
    <3>4. QED BY <1>10, <3>2, <3>3 DEF HostRecv, TypeOK
  <2>5. reply' \in SUBSET Procs
    BY <1>10 DEF HostRecv, TypeOK, Visit
  <2>3. QED BY <1>10, <2>1, <2>2, <2>4, <2>5 DEF HostRecv, TypeOK, simVars, schedVars, hartVars
<1>11. CASE HandleSignal
  <2>1. ctrlc' \in BOOLEAN
    BY <1>11 DEF HandleSignal, TypeOK
  <2>2. loc' \in {loc, "exited"}
    BY <1>11 DEF HandleSignal
  <2>3. QED BY <1>11, <2>1, <2>2 DEF HandleSignal, TypeOK, schedVars, hartVars,
               htifVars, hostVars
<1>12. CASE UNCHANGED vars
  BY <1>12 DEF vars, TypeOK, simVars, schedVars, hartVars, htifVars, hostVars
<1>13. QED BY <1>1, <1>2, <1>3, <1>4, <1>5, <1>6, <1>7, <1>8, <1>9, <1>10,
       <1>11, <1>12 DEF Next, SimNext, HtifNext, SchedNext, HostNext, Terminated

(* Serving a request leaves a running hart with the reservation it had, or *)
(* with none; a hart it starts has none.                                   *)
LEMMA ServeResv ==
  ASSUME TypeOK, NEW r \in Requests, Serve(r), NEW p \in Procs
  PROVE  \/ resv'[p] = NoResv
         \/ resv'[p] = resv[p] /\ run'[p] = run[p]
<1>1. CASE r.reg = "reset" /\ r.write
  <2>1. Reset(r.core, r.val = 1)
    BY <1>1 DEF Serve
  <2>2. CASE p = r.core
    BY <2>1, <2>2 DEF Reset, TypeOK
  <2>3. CASE p # r.core
    BY <2>1, <2>3 DEF Reset, TypeOK
  <2>4. QED BY <2>2, <2>3
<1>2. CASE ~(r.reg = "reset" /\ r.write)
  <2>1. UNCHANGED <<run, resv>>
    BY <1>2 DEF Serve, hartVars
  <2>2. QED BY <2>1
<1>3. QED BY <1>1, <1>2

(* The step of the reservation invariant.  The slice end is the crux: the  *)
(* hart that stops being current loses its reservation in the same step.   *)
LEMMA ResvStep == ResvInv /\ [Next]_vars => OnlyCurrentReserves' /\ ReservationClean'
<1> SUFFICES ASSUME ResvInv, [Next]_vars, NEW p \in Procs
             PROVE  /\ (run[p] /\ p # current_proc => resv[p] = NoResv)'
                    /\ ((run[p] \/ (p = current_proc /\ burst > 0))
                          => resv[p] \notin written[p])'
  BY DEF OnlyCurrentReserves, ReservationClean
<1>0. /\ TypeOK
      /\ (run[p] /\ p # current_proc => resv[p] = NoResv)
      /\ ((run[p] \/ (p = current_proc /\ burst > 0)) => resv[p] \notin written[p])
      /\ NoResv \notin written[p]
  BY DEF ResvInv, OnlyCurrentReserves, ReservationClean, TypeOK
<1>1. CASE TickOnce
  <2>1. req \in Requests /\ Serve(req)
    BY <1>0, <1>1 DEF TickOnce, TypeOK
  <2>2. UNCHANGED <<current_proc, burst, written>>
    BY <1>1 DEF TickOnce, schedVars
  <2>3. QED BY <1>0, <2>1, <2>2, ServeResv
<1>2. CASE StepEnter
  BY <1>0, <1>2 DEF StepEnter, hartVars, TypeOK
<1>3. CASE StepInterrupt
  BY <1>0, <1>3 DEF StepInterrupt, TypeOK
<1>4. CASE StepCharge
  <2>1. UNCHANGED <<run, burst, written>> /\ burst = 0
    BY <1>4 DEF StepCharge
  <2>2. CASE current_step + steps = INTERLEAVE
    <3>1. resv' = [resv EXCEPT ![current_proc] = NoResv]
      BY <1>4, <2>2 DEF StepCharge
    <3>2. QED BY <1>0, <2>1, <3>1 DEF TypeOK
  <2>3. CASE current_step + steps # INTERLEAVE
    BY <1>0, <1>4, <2>1, <2>3 DEF StepCharge
  <2>4. QED BY <2>2, <2>3
<1>5. ASSUME NEW a \in Addrs, LoadReserved(a)
      PROVE  /\ (run[p] /\ p # current_proc => resv[p] = NoResv)'
             /\ ((run[p] \/ (p = current_proc /\ burst > 0))
                   => resv[p] \notin written[p])'
  BY <1>0, <1>5 DEF LoadReserved, Executing, Retire, schedVars, TypeOK
<1>6. ASSUME NEW a \in Addrs, StoreConditional(a) \/ Store(a)
      PROVE  /\ (run[p] /\ p # current_proc => resv[p] = NoResv)'
             /\ ((run[p] \/ (p = current_proc /\ burst > 0))
                   => resv[p] \notin written[p])'
  <2>1. /\ UNCHANGED <<run, resv, current_proc>>
        /\ written' = [q \in Procs |-> IF q = current_proc THEN written[q]
                                        ELSE written[q] \cup {a}]
        /\ burst > 0
    BY <1>6 DEF StoreConditional, Store, Executing, Retire, Overwrite, schedVars,
       hartVars
  <2>2. QED BY <1>0, <2>1 DEF TypeOK
<1>7. CASE Trap
  BY <1>0, <1>7 DEF Trap, Executing, schedVars, TypeOK
<1>8. CASE \/ OtherInsn \/ Serialize \/ Monitor
           \/ \E who \in 0 .. NProcs : SendIpi(who)
           \/ \E on \in BOOLEAN : ClearIpi(on)
           \/ \E which \in {"tohost", "fromhost"} : CsrMailbox(which)
  <2>1. UNCHANGED <<run, resv, current_proc, written>> /\ burst > 0
    BY <1>8 DEF OtherInsn, Serialize, Monitor, SendIpi, ClearIpi, CsrMailbox,
       Executing, Retire, schedVars, hartVars
  <2>2. QED BY <1>0, <2>1
<1>9. CASE \/ \E v \in Mail : WriteTohost(v)
           \/ \E v \in {0, fromhost[current_proc]} : WriteFromhost(v)
           \/ TickDone \/ RunBody \/ PromptStep \/ PromptLeave \/ PromptQuit \/ StepReturn
           \/ HostNext \/ HandleSignal \/ UNCHANGED vars
  <2>1. UNCHANGED <<run, resv, current_proc, written, burst>>
    BY <1>9 DEF WriteTohost, WriteFromhost, TickDone, RunBody, PromptStep,
       PromptLeave, PromptQuit, StepReturn, HostNext, HostSend, HostRecv, HandleSignal, vars,
       simVars, schedVars, hartVars
  <2>2. QED BY <1>0, <2>1
<1>10. QED BY <1>1, <1>2, <1>3, <1>4, <1>5, <1>6, <1>7, <1>8, <1>9
       DEF Next, SimNext, HtifNext, SchedNext, Instruction, Terminated

(* Every reachable state of Sim is well typed: the round robin stays in    *)
(* range and a slice never overruns INTERLEAVE, however long the bursts.   *)
THEOREM TypeCorrect == Spec => []TypeOK
<1>1. Init => TypeOK /\ StepFits
  BY InitResv DEF ResvInv
<1>2. QED BY <1>1, TypeStep, PTL DEF Spec

(* lr/sc is atomic among any number of harts: a hart whose sc can succeed  *)
(* reserves a word that no other hart has written since the lr, although   *)
(* stores never look at the reservations (sc_d.h, sim.cc).                 *)
THEOREM ReservationAtomic == Spec => [](OnlyCurrentReserves /\ ReservationClean)
<1>1. ResvInv /\ [Next]_vars => ResvInv'
  BY TypeStep, ResvStep DEF ResvInv
<1>2. ResvInv => OnlyCurrentReserves /\ ReservationClean
  BY DEF ResvInv
<1>3. QED BY <1>1, <1>2, InitResv, PTL DEF Spec

(* The lock step of host and simulator: without an acknowledgement in      *)
(* flight the two counters agree; with one, the simulator is one ahead.    *)
SeqInv ==
  /\ ack = None => seqno = hseq
  /\ ack # None => /\ req = None
                   /\ ack.seq = hseq
                   /\ seqno = (hseq + 1) % SeqMod
  /\ req # None => req.seq = hseq

(* Each step keeps the two counters in lock step.                          *)
LEMMA SeqStep == TypeOK /\ SeqInv /\ [Next]_vars => SeqInv'
<1> SUFFICES ASSUME TypeOK, SeqInv, [Next]_vars PROVE SeqInv'
  OBVIOUS
<1>1. CASE TickOnce
  <2>1. /\ ack = None /\ seqno = hseq
        /\ ack' # None /\ ack'.seq = seqno /\ req' = None
        /\ seqno' = (seqno + 1) % SeqMod /\ hseq' = hseq
    <3>1. ack' # None /\ ack'.seq = seqno
      <4>1. ack' = [val |-> OldVal(req), seq |-> seqno]
        BY <1>1 DEF TickOnce
      <4>2. DOMAIN ack' # DOMAIN None
        BY <4>1 DEF None
      <4>3. QED BY <4>1, <4>2
    <3>2. ack = None
      BY <1>1 DEF TickOnce, SeqInv
    <3>3. QED BY <1>1, <3>1, <3>2 DEF TickOnce, hostVars, SeqInv
  <2>2. QED BY <2>1 DEF SeqInv
<1>2. CASE HostSend
  <2>1. req'.seq = hseq
    BY <1>2 DEF HostSend, HostRequest, Request, TypeOK
  <2>2. QED BY <1>2, <2>1 DEF HostSend, hostVars, SeqInv
<1>3. CASE HostRecv
  BY <1>3 DEF HostRecv, SeqInv
<1>4. CASE \/ TickDone \/ SchedNext \/ Instruction \/ HandleSignal
           \/ UNCHANGED vars
  <2>1. UNCHANGED <<seqno, req, ack, hseq>>
    BY <1>4 DEF TickDone, SchedNext, RunBody, PromptStep, PromptLeave, PromptQuit, StepReturn,
       StepEnter, StepInterrupt, StepCharge, Instruction, LoadReserved,
       StoreConditional, Store, OtherInsn, Trap, Serialize, Monitor, SendIpi,
       ClearIpi, CsrMailbox, WriteTohost, WriteFromhost, HandleSignal, vars,
       htifVars, hostVars
  <2>2. QED BY <2>1 DEF SeqInv
<1>5. QED BY <1>1, <1>2, <1>3, <1>4 DEF Next, SimNext, HtifNext, HostNext,
      Terminated

(* assert(hdr.seqno == seqno) in tick_once cannot fail, whatever the width *)
(* of the counter: request and acknowledgement always carry the number the *)
(* other side expects.                                                     *)
THEOREM SequenceNumbersAgree == Spec => []SeqnoPaired
<1>1. Init => SeqInv
  BY DEF Init, SeqInv
<1>2. SeqInv => SeqnoPaired
  BY DEF SeqInv, SeqnoPaired
<1>3. QED BY <1>1, <1>2, SeqStep, TypeCorrect, PTL DEF Spec

-----------------------------------------------------------------------------
(* The host's side of the protocol: what it has asked for follows from its *)
(* phase, the machine has left reset once a hart has been released, and    *)
(* the harts it has stopped stay off.                                      *)
HostInv ==
  /\ req # None => ack = None /\ hpc # "gone" /\ req = HostRequest
  /\ hpc \in {"reply", "poll", "stop", "gone"} => ~hreset
  /\ hpc = "release" /\ (hcore > 0 \/ ack # None) => ~hreset
  /\ hpc = "stop" => \A p \in Procs : p < hcore \/ (p = hcore /\ ack # None) => ~run[p]
  /\ hpc = "gone" => \A p \in Procs : ~run[p]

(* A request served: releasing a hart ends the reset of the machine, and    *)
(* stopping one turns it off.                                               *)
LEMMA HostServed == TypeOK /\ HostInv /\ TickOnce => HostInv'
<1> SUFFICES ASSUME TypeOK, HostInv, TickOnce PROVE HostInv'
  OBVIOUS
<1>1. /\ req = HostRequest /\ hpc # "gone" /\ req' = None
      /\ UNCHANGED <<hpc, hcore, hseq, reply>>
  BY DEF TickOnce, HostInv, hostVars
<1>2. Serve(req)
  BY DEF TickOnce
<1>3. hcore \in Procs /\ run \in [Procs -> BOOLEAN] /\ hreset \in BOOLEAN
  BY DEF TypeOK
<1>4. CASE hpc \in {"load", "reply", "poll"}
  <2>1. req.reg # "reset"
    BY <1>1, <1>4 DEF HostRequest, Request
  <2>2. hreset' = hreset /\ run' = run
    BY <1>2, <2>1 DEF Serve, hartVars
  <2>3. QED BY <1>1, <1>4, <2>2 DEF HostInv
<1>5. CASE hpc = "assert"
  BY <1>1, <1>5 DEF HostInv
<1>6. CASE hpc = "release"
  <2>1. req.reg = "reset" /\ req.write = TRUE /\ req.val = 0
    BY <1>1, <1>6 DEF HostRequest, Request
  <2>2. hreset' = HostReset(req.val)
    BY <1>2, <2>1 DEF Serve
  <2>3. req.val # 1
    BY <2>1
  <2>4. ~HostReset(req.val)
    BY <2>3 DEF HostReset
  <2>5. ~hreset'
    BY <2>2, <2>4, Zenon
  <2>6. QED BY <1>1, <1>6, <2>5 DEF HostInv
<1>7. CASE hpc = "stop"
  <2>1. req.reg = "reset" /\ req.write = TRUE /\ req.val = 1 /\ req.core = hcore
    BY <1>1, <1>7 DEF HostRequest, Request
  <2>2. ~hreset' /\ Reset(hcore, TRUE)
    BY <1>2, <1>7, <2>1 DEF Serve, HostReset, HostInv
  <2>3. ~run'[hcore] /\ \A p \in Procs : p # hcore => run'[p] = run[p]
    BY <1>3, <2>2 DEF Reset
  <2>4. QED BY <1>1, <1>3, <1>7, <2>2, <2>3 DEF HostInv, Procs
<1>8. QED BY <1>1, <1>4, <1>5, <1>6, <1>7 DEF TypeOK

(* An acknowledgement received: the host moves on to the next hart, or to   *)
(* its next phase once the last hart has answered.                          *)
LEMMA HostMoves == TypeOK /\ HostInv /\ HostRecv => HostInv'
<1> SUFFICES ASSUME TypeOK, HostInv, HostRecv PROVE HostInv'
  OBVIOUS
<1>1. /\ ack # None /\ ack' = None /\ req = None /\ req' = None
      /\ hreset' = hreset /\ run' = run
  BY DEF HostRecv, HostInv, hartVars
<1>2. /\ hcore \in 0 .. NProcs - 1 /\ NProcs \in Nat /\ NProcs > 0
      /\ hpc \in {"load", "assert", "release", "reply", "poll", "stop"}
  BY NProcsAssumption DEF TypeOK, Procs, HostRecv
<1>3. (hcore + 1) % NProcs = IF LastCore THEN 0 ELSE hcore + 1
  BY <1>2 DEF LastCore
<1>4. CASE hpc \in {"load", "assert"}
  <2>1. hpc' \in {"assert", "release"} /\ (hpc' = "release" => hcore' = 0)
    BY <1>3, <1>4 DEF HostRecv, Visit
  <2>2. QED BY <1>1, <2>1 DEF HostInv
<1>5. CASE hpc = "release"
  <2>1. hpc' \in {"release", "reply"} /\ ~hreset
    BY <1>1, <1>5 DEF HostRecv, Visit, HostInv
  <2>2. QED BY <1>1, <2>1 DEF HostInv
<1>6. CASE hpc \in {"reply", "poll"}
  <2>1. hpc' \in {"reply", "poll", "stop"} /\ (hpc' = "stop" => hcore' = 0) /\ ~hreset
    BY <1>6 DEF HostRecv, HostInv
  <2>2. QED BY <1>1, <2>1 DEF HostInv, Procs
<1>7. CASE hpc = "stop"
  <2>1. ~hreset /\ \A p \in Procs : p <= hcore => ~run[p]
    BY <1>1, <1>2, <1>7 DEF HostInv, Procs
  <2>2. /\ hpc' = IF LastCore THEN "gone" ELSE "stop"
        /\ hcore' = (hcore + 1) % NProcs
    BY <1>7 DEF HostRecv, Visit
  <2>3. CASE LastCore
    BY <1>1, <1>2, <2>1, <2>2, <2>3 DEF HostInv, LastCore, Procs
  <2>4. CASE ~LastCore
    <3>1. hpc' = "stop" /\ hcore' = hcore + 1
      BY <1>3, <2>2, <2>4
    <3>2. \A p \in Procs : p < hcore' => ~run'[p]
      BY <1>1, <1>2, <2>1, <3>1 DEF Procs
    <3>3. QED BY <1>1, <2>1, <3>1, <3>2 DEF HostInv
  <2>5. QED BY <2>3, <2>4
<1>8. QED BY <1>2, <1>4, <1>5, <1>6, <1>7

(* Every other step leaves the harts' run flags and the protocol alone.     *)
LEMMA HostStep == TypeOK /\ HostInv /\ [Next]_vars => HostInv'
<1> SUFFICES ASSUME TypeOK, HostInv, [Next]_vars PROVE HostInv'
  OBVIOUS
<1>1. CASE TickOnce
  BY <1>1, HostServed
<1>2. CASE HostRecv
  BY <1>2, HostMoves
<1>3. CASE HostSend
  <2>1. /\ ack = None /\ ack' = None /\ hpc # "gone" /\ req' = HostRequest
        /\ UNCHANGED <<hreset, run, hpc, hcore, hseq, reply>>
    BY <1>3 DEF HostSend, hartVars, hostVars
  <2>2. HostRequest' = HostRequest
    BY <2>1 DEF HostRequest, Request
  <2>3. QED BY <2>1, <2>2 DEF HostInv
<1>4. CASE \/ TickDone \/ SchedNext \/ Instruction \/ HandleSignal
           \/ UNCHANGED vars
  <2>1. UNCHANGED <<run, hreset, req, ack, hpc, hcore, hseq, reply>>
    BY <1>4 DEF TickDone, SchedNext, RunBody, PromptStep, PromptLeave, PromptQuit, StepReturn,
       StepEnter, StepInterrupt, StepCharge, Instruction, LoadReserved,
       StoreConditional, Store, OtherInsn, Trap, Serialize, Monitor, SendIpi,
       ClearIpi, CsrMailbox, WriteTohost, WriteFromhost, HandleSignal, vars,
       htifVars, hostVars, hartVars
  <2>2. HostRequest' = HostRequest
    BY <2>1 DEF HostRequest, Request
  <2>3. QED BY <2>1, <2>2 DEF HostInv
<1>5. QED BY <1>1, <1>2, <1>3, <1>4 DEF Next, SimNext, HtifNext, HostNext,
      Terminated

(* recv is never called after the host has left: it leaves when the last    *)
(* hart is back in reset, the machine's own reset flag cannot come back, and *)
(* done() then keeps tick out of tick_once.                                 *)
THEOREM HostGoneIsDone == Spec => []NeverWaitsForGoneHost
<1>1. Init => HostInv
  BY DEF Init, HostInv
<1>2. HostInv => NeverWaitsForGoneHost
  BY DEF HostInv, NeverWaitsForGoneHost, Done, Running
<1>3. QED BY <1>1, <1>2, HostStep, TypeCorrect, PTL DEF Spec

-----------------------------------------------------------------------------
(* The mailboxes                                                           *)

(* Which harts run, by the phase of the host: none while it loads and      *)
(* resets, those it has released so far, then all of them until it stops   *)
(* them.                                                                   *)
RunInv ==
  /\ hpc \in {"load", "assert"} => \A p \in Procs : ~run[p]
  /\ hpc = "release" =>
       \A p \in Procs : p < hcore \/ (p = hcore /\ ack # None) => run[p]
  /\ hpc \in {"reply", "poll"} => \A p \in Procs : run[p]

(* An instruction is executed by a hart that runs, or that the host has    *)
(* stopped from within this very burst.                                    *)
InInsn == \/ loc = "exec" /\ burst > 0
          \/ loc \in {"tohost", "fromhost"}
          \/ loc = "tick" /\ ret \in {"tohost", "fromhost"}
ExecInv == InInsn => run[current_proc] \/ hpc \in {"stop", "gone"}

MailInv == TypeOK /\ StepFits /\ HostInv /\ RunInv /\ ExecInv

(* In which phase tick_once does what to the harts' run flags.             *)
LEMMA RunServed ==
  ASSUME TypeOK, HostInv, RunInv, TickOnce
  PROVE  /\ hpc \in {"load", "assert", "reply", "poll"} => run' = run
         /\ hpc = "release" => /\ run'[hcore]
                               /\ \A p \in Procs : run[p] => run'[p]
<1>1. /\ req = HostRequest /\ hpc # "gone" /\ Serve(req)
      /\ UNCHANGED <<hpc, hcore, hseq, reply>>
  BY DEF TickOnce, HostInv, hostVars
<1>2. hcore \in Procs /\ run \in [Procs -> BOOLEAN]
  BY DEF TypeOK
<1>3. CASE hpc \in {"load", "reply", "poll"}
  <2>1. req.reg # "reset"
    BY <1>1, <1>3 DEF HostRequest, Request
  <2>2. QED BY <1>1, <1>3, <2>1 DEF Serve, hartVars
<1>4. CASE hpc = "assert"
  <2>1. req.reg = "reset" /\ req.write = TRUE /\ req.val = 1 /\ req.core = hcore
    BY <1>1, <1>4 DEF HostRequest, Request
  <2>2. Reset(hcore, TRUE) /\ ~run[hcore]
    BY <1>1, <1>2, <1>4, <2>1 DEF Serve, RunInv
  <2>3. QED BY <1>2, <1>4, <2>2 DEF Reset
<1>5. CASE hpc = "release"
  <2>1. req.reg = "reset" /\ req.write = TRUE /\ req.val = 0 /\ req.core = hcore
    BY <1>1, <1>5 DEF HostRequest, Request
  <2>2. Reset(req.core, req.val = 1)
    BY <1>1, <2>1 DEF Serve
  <2>3. \/ run[hcore] /\ run' = run
        \/ run' = [run EXCEPT ![hcore] = TRUE]
    <3>1. ~(req.val = 1)
      BY <2>1
    <3>2. QED BY <1>2, <2>1, <2>2, <3>1 DEF Reset
  <2>4. QED BY <1>2, <1>5, <2>3
<1>6. CASE hpc = "stop"
  BY <1>6
<1>7. QED BY <1>1, <1>3, <1>4, <1>5, <1>6 DEF TypeOK

(* The next phase begins with the harts the last one leaves.               *)
LEMMA RunMoves == TypeOK /\ HostInv /\ RunInv /\ HostRecv => RunInv'
<1> SUFFICES ASSUME TypeOK, HostInv, RunInv, HostRecv PROVE RunInv'
  OBVIOUS
<1>1. ack # None /\ ack' = None /\ run' = run
  BY DEF HostRecv, hartVars
<1>2. /\ hcore \in 0 .. NProcs - 1 /\ NProcs \in Nat /\ NProcs > 0
      /\ hpc \in {"load", "assert", "release", "reply", "poll", "stop"}
  BY NProcsAssumption DEF TypeOK, Procs, HostRecv
<1>3. (hcore + 1) % NProcs = IF LastCore THEN 0 ELSE hcore + 1
  BY <1>2 DEF LastCore
<1>4. CASE hpc \in {"load", "assert"}
  <2>1. hpc' \in {"assert", "release"} /\ (hpc' = "release" => hcore' = 0)
    BY <1>3, <1>4 DEF HostRecv, Visit
  <2>2. QED BY <1>1, <1>4, <2>1 DEF RunInv, Procs
<1>5. CASE hpc = "release"
  <2>1. \A p \in Procs : p <= hcore => run[p]
    BY <1>1, <1>2, <1>5 DEF RunInv, Procs
  <2>2. /\ hpc' = IF LastCore THEN "reply" ELSE "release"
        /\ hcore' = (hcore + 1) % NProcs
    BY <1>5 DEF HostRecv, Visit
  <2>3. CASE LastCore
    BY <1>1, <1>2, <2>1, <2>2, <2>3 DEF RunInv, LastCore, Procs
  <2>4. CASE ~LastCore
    <3>1. hpc' = "release" /\ hcore' = hcore + 1
      BY <1>3, <2>2, <2>4
    <3>2. \A p \in Procs : p < hcore' => run'[p]
      BY <1>1, <1>2, <2>1, <3>1 DEF Procs
    <3>3. QED BY <1>1, <3>1, <3>2 DEF RunInv
  <2>5. QED BY <2>3, <2>4
<1>6. CASE hpc \in {"reply", "poll"}
  <2>1. hpc' \in {"reply", "poll", "stop"}
    BY <1>6 DEF HostRecv
  <2>2. QED BY <1>1, <1>6, <2>1 DEF RunInv
<1>7. CASE hpc = "stop"
  <2>1. hpc' \in {"stop", "gone"}
    BY <1>7 DEF HostRecv, Visit
  <2>2. QED BY <2>1 DEF RunInv
<1>8. QED BY <1>2, <1>4, <1>5, <1>6, <1>7

(* The steps that start, stop or move on harts keep both invariants.       *)
LEMMA MailInvStep == MailInv /\ [Next]_vars => RunInv' /\ ExecInv'
<1> SUFFICES ASSUME TypeOK, HostInv, RunInv, ExecInv, [Next]_vars
             PROVE  RunInv' /\ ExecInv'
  BY DEF MailInv
<1>0. current_proc \in Procs /\ hcore \in Procs
  BY DEF TypeOK
<1>1. CASE TickOnce
  <2>1. /\ UNCHANGED <<hpc, hcore, current_proc, burst, ret>>
        /\ loc = "tick" /\ loc' \in {"tick", AfterTick(ret)}
        /\ hpc # "gone" /\ ack = None
    BY <1>1 DEF TickOnce, hostVars, schedVars, HostInv
  <2>2. RunInv'
    BY <1>0, <1>1, <2>1, RunServed DEF RunInv, Procs
  <2>3. InInsn' => InInsn
    BY <2>1 DEF InInsn, AfterTick, TypeOK
  <2>4. QED BY <1>0, <1>1, <2>1, <2>2, <2>3, RunServed DEF ExecInv, TypeOK
<1>2. CASE HostRecv
  <2>1. UNCHANGED <<loc, burst, ret, current_proc, run>>
    BY <1>2 DEF HostRecv, simVars, schedVars, hartVars
  <2>2. hpc \in {"stop", "gone"} => hpc' \in {"stop", "gone"}
    <3>1. CASE hpc = "stop"
      BY <1>2, <3>1 DEF HostRecv, Visit
    <3>2. QED BY <1>2, <3>1 DEF HostRecv
  <2>3. QED BY <1>2, <2>1, <2>2, RunMoves DEF ExecInv, InInsn
<1>3. CASE HostSend
  <2>1. UNCHANGED <<loc, burst, ret, current_proc, run, hpc, hcore, ack>>
    BY <1>3 DEF HostSend, simVars, schedVars, hartVars, hostVars
  <2>2. QED BY <2>1 DEF RunInv, ExecInv, InInsn
<1>4. CASE TickDone \/ SchedNext \/ Instruction \/ HandleSignal \/ UNCHANGED vars
  <2>1. UNCHANGED <<run, ack, hpc, hcore>>
    BY <1>4 DEF TickDone, SchedNext, RunBody, PromptStep, PromptLeave, PromptQuit, StepReturn,
       StepEnter, StepInterrupt, StepCharge, Instruction, LoadReserved,
       StoreConditional, Store, OtherInsn, Trap, Serialize, Monitor, SendIpi,
       ClearIpi, CsrMailbox, WriteTohost, WriteFromhost, HandleSignal, vars,
       htifVars, hostVars, hartVars
  <2>2. RunInv'
    BY <2>1 DEF RunInv
  <2>3. CASE TickDone
    <3>1. InInsn' => InInsn
      BY <2>3 DEF TickDone, InInsn, AfterTick, TypeOK
    <3>2. QED BY <2>1, <2>2, <2>3, <3>1 DEF ExecInv, TickDone, schedVars
  <2>4. CASE SchedNext
    <3>1. CASE StepEnter
      <4>1. burst' > 0 => run[current_proc]
        BY <3>1 DEF StepEnter
      <4>2. QED BY <2>1, <2>2, <3>1, <4>1 DEF ExecInv, InInsn, StepEnter
    <3>2. CASE RunBody \/ PromptStep \/ PromptLeave \/ PromptQuit \/ StepReturn
               \/ StepInterrupt \/ StepCharge
      <4>1. \/ loc' \in {"loop", "prompt", "exited"}
            \/ loc' = "tick" /\ ret' \in {"run", "slice"}
            \/ loc' = "exec" /\ burst' = 0
        BY <3>2 DEF RunBody, PromptStep, PromptLeave, PromptQuit, StepReturn,
           StepInterrupt, StepCharge
      <4>2. ~InInsn'
        BY <4>1 DEF InInsn
      <4>3. QED BY <2>2, <4>2 DEF ExecInv
    <3>3. QED BY <2>4, <3>1, <3>2 DEF SchedNext
  <2>5. CASE Instruction
    <3>1. InInsn /\ current_proc' = current_proc
      BY <2>5 DEF Instruction, LoadReserved, StoreConditional, Store, OtherInsn,
         Trap, Serialize, Monitor, SendIpi, ClearIpi, CsrMailbox, WriteTohost,
         WriteFromhost, Executing, Retire, InInsn, schedVars
    <3>2. QED BY <2>1, <2>2, <3>1 DEF ExecInv
  <2>6. CASE HandleSignal \/ UNCHANGED vars
    <3>1. /\ loc' \in {loc, "exited"}
          /\ UNCHANGED <<ret, burst, current_proc>>
      BY <2>6 DEF HandleSignal, vars, simVars, schedVars
    <3>2. QED BY <2>1, <2>2, <3>1 DEF ExecInv, InInsn
  <2>7. QED BY <1>4, <2>3, <2>4, <2>5, <2>6
<1>5. QED BY <1>1, <1>2, <1>3, <1>4 DEF Next, SimNext, HtifNext, HostNext,
      Terminated

(* What the host's counts become when it reads an acknowledgement is what   *)
(* they already counted for: Owed and Ended do not change.                  *)
LEMMA RecvUnseen == TypeOK /\ HostRecv => Owed' = Owed /\ Ended' = Ended
<1> SUFFICES ASSUME TypeOK, HostRecv PROVE Owed' = Owed /\ Ended' = Ended
  OBVIOUS
<1>1. ack # None /\ ack' = None
      /\ hpc \in {"load", "assert", "release", "reply", "poll", "stop"}
  BY DEF HostRecv, TypeOK
<1>2. Owed' = reply' /\ Ended' = (hpc' \in {"stop", "gone"})
  BY <1>1 DEF Owed, Ended, Acked
<1>3. CASE hpc \in {"load", "assert", "release"}
  <2>1. reply' = reply /\ hpc' \in {"assert", "release", "reply"}
    BY <1>3 DEF HostRecv, Visit
  <2>2. QED BY <1>2, <1>3, <2>1 DEF Owed, Ended, Acked
<1>4. CASE hpc = "reply"
  <2>1. reply' = (IF ack.val = 0 THEN reply \ {hcore} ELSE reply) /\ hpc' = "poll"
    BY <1>4 DEF HostRecv
  <2>2. QED BY <1>1, <1>2, <1>4, <2>1 DEF Owed, Ended, Acked
<1>5. CASE hpc = "poll"
  <2>1. /\ hpc' = (IF ack.val = Exit THEN "stop" ELSE "reply")
        /\ reply' = (IF ack.val = Call THEN reply \cup {hcore} ELSE reply)
    BY <1>5 DEF HostRecv
  <2>2. QED BY <1>1, <1>2, <1>5, <2>1 DEF Owed, Ended, Acked
<1>6. CASE hpc = "stop"
  <2>1. reply' = reply /\ hpc' \in {"stop", "gone"}
    BY <1>6 DEF HostRecv, Visit
  <2>2. QED BY <1>2, <1>6, <2>1 DEF Owed, Ended, Acked
<1>7. QED BY <1>1, <1>3, <1>4, <1>5, <1>6

(* tick_once, by the phase of the host: it starts a hart, answers a call,  *)
(* takes a request, stops a hart, or leaves the mailboxes as they are.     *)
LEMMA ServeRefines ==
  ASSUME MailInv, TickOnce PROVE [Boxes!Next]_(Boxes!vars)
<1>1. /\ req = HostRequest /\ hpc # "gone" /\ Serve(req) /\ ack = None
      /\ ack' = [val |-> OldVal(req), seq |-> seqno]
      /\ UNCHANGED <<hpc, hcore, hseq, reply>>
  BY DEF TickOnce, MailInv, HostInv, hostVars
<1>2. /\ hcore \in Procs /\ run \in [Procs -> BOOLEAN]
      /\ tohost \in [Procs -> Mail] /\ fromhost \in [Procs -> Mail]
      /\ reply \in SUBSET Procs
      /\ hpc \in {"load", "assert", "release", "reply", "poll", "stop", "gone"}
  BY DEF MailInv, TypeOK
<1>3. ack' # None /\ ack'.val = OldVal(req)
  <2>1. DOMAIN ack' # DOMAIN None
    BY <1>1 DEF None
  <2>2. QED BY <1>1, <2>1
<1>4. Owed = reply /\ Ended = (hpc = "stop")
  BY <1>1, <1>2 DEF Owed, Ended, Acked
<1>5. CASE hpc \in {"load", "assert"}
  <2>1. run' = run
    BY <1>5, RunServed DEF MailInv
  <2>2. tohost' = tohost /\ fromhost' = fromhost
    <3>1. CASE hpc = "load"
      <4>1. req.reg = "mem"
        BY <1>1, <3>1 DEF HostRequest, Request
      <4>2. QED BY <1>1, <4>1 DEF Serve, hartVars
    <3>2. CASE hpc = "assert"
      <4>1. req.reg = "reset" /\ req.write = TRUE /\ req.val = 1 /\ req.core = hcore
        BY <1>1, <3>2 DEF HostRequest, Request
      <4>2. Reset(hcore, TRUE) /\ ~run[hcore]
        BY <1>1, <1>2, <3>2, <4>1 DEF Serve, MailInv, RunInv
      <4>3. QED BY <1>2, <4>2 DEF Reset
    <3>3. QED BY <1>5, <3>1, <3>2
  <2>3. Owed' = reply /\ Ended' = FALSE
    BY <1>1, <1>5 DEF Owed, Ended, Acked
  <2>4. QED BY <1>4, <1>5, <2>1, <2>2, <2>3 DEF Boxes!vars
<1>6. CASE hpc = "release"
  <2>1. req.reg = "reset" /\ req.write = TRUE /\ req.val = 0 /\ req.core = hcore
    BY <1>1, <1>6 DEF HostRequest, Request
  <2>2. Reset(req.core, req.val = 1) /\ ~(req.val = 1)
    BY <1>1, <2>1 DEF Serve
  <2>3. Owed' = Owed /\ Ended' = FALSE /\ Ended = FALSE
    BY <1>1, <1>4, <1>6 DEF Owed, Ended, Acked
  <2>4. CASE run[hcore]
    <3>1. UNCHANGED <<run, tohost, fromhost>>
      BY <1>2, <2>1, <2>2, <2>4 DEF Reset
    <3>2. QED BY <2>3, <3>1 DEF Boxes!vars
  <2>5. CASE ~run[hcore]
    <3>1. /\ run' = [run EXCEPT ![hcore] = TRUE]
          /\ tohost' = [tohost EXCEPT ![hcore] = 0]
          /\ fromhost' = [fromhost EXCEPT ![hcore] = 0]
      BY <1>2, <2>1, <2>2, <2>5 DEF Reset
    <3>2. Boxes!Start(hcore)
      BY <2>3, <2>5, <3>1 DEF Boxes!Start, Boxes!Turn
    <3>3. QED BY <1>2, <3>2 DEF Boxes!Next
  <2>6. QED BY <2>4, <2>5
<1>7. CASE hpc = "reply"
  <2>1. /\ req.reg = "fromhost" /\ req.write = (hcore \in reply)
        /\ req.val = Call /\ req.core = hcore
    BY <1>1, <1>7 DEF HostRequest, Request
  <2>2. run' = run /\ run[hcore]
    BY <1>2, <1>7, RunServed DEF MailInv, RunInv
  <2>3. OldVal(req) = fromhost[hcore]
    BY <2>1 DEF OldVal
  <2>4. /\ Owed' = (IF fromhost[hcore] = 0 THEN reply \ {hcore} ELSE reply)
        /\ Ended' = FALSE
    BY <1>1, <1>3, <1>7, <2>3 DEF Owed, Ended, Acked
  <2>5. CASE hcore \in reply /\ fromhost[hcore] = 0
    <3>1. tohost' = tohost /\ fromhost' = [fromhost EXCEPT ![hcore] = Call]
      BY <1>1, <2>1, <2>5 DEF Serve
    <3>2. Boxes!Answer(hcore)
      BY <1>4, <1>7, <2>2, <2>4, <2>5, <3>1 DEF Boxes!Answer
    <3>3. QED BY <1>2, <3>2 DEF Boxes!Next
  <2>6. CASE ~(hcore \in reply /\ fromhost[hcore] = 0)
    <3>1. UNCHANGED <<tohost, fromhost>>
      <4>1. CASE hcore \in reply
        BY <1>1, <2>1, <2>6, <4>1 DEF Serve
      <4>2. CASE hcore \notin reply
        BY <1>1, <2>1, <4>2 DEF Serve, hartVars
      <4>3. QED BY <4>1, <4>2
    <3>2. Owed' = reply
      BY <2>4, <2>6
    <3>3. QED BY <1>4, <1>7, <2>2, <2>4, <3>1, <3>2 DEF Boxes!vars
  <2>7. QED BY <2>5, <2>6
<1>8. CASE hpc = "poll"
  <2>1. /\ req.reg = "tohost" /\ req.write = TRUE
        /\ req.val = 0 /\ req.core = hcore
    BY <1>1, <1>8 DEF HostRequest, Request
  <2>2. run' = run /\ run[hcore]
    BY <1>2, <1>8, RunServed DEF MailInv, RunInv
  <2>3. OldVal(req) = tohost[hcore]
    BY <2>1 DEF OldVal
  <2>4. /\ Owed' = (IF tohost[hcore] = Call THEN reply \cup {hcore} ELSE reply)
        /\ Ended' = (tohost[hcore] = Exit)
    BY <1>1, <1>3, <1>8, <2>3 DEF Owed, Ended, Acked
  <2>5. tohost' = [tohost EXCEPT ![hcore] = 0] /\ fromhost' = fromhost
    BY <1>1, <2>1 DEF Serve
  <2>6. CASE tohost[hcore] # 0
    <3>1. /\ run[hcore] /\ ~Ended /\ tohost[hcore] # 0
          /\ Owed' = (IF tohost[hcore] = Call THEN Owed \cup {hcore} ELSE Owed)
      BY <1>4, <1>8, <2>2, <2>4, <2>6
    <3>2. Boxes!Take(hcore)
      BY <2>2, <2>4, <2>5, <3>1, Zenon DEF Boxes!Take
    <3>3. QED BY <1>2, <3>2 DEF Boxes!Next
  <2>7. CASE tohost[hcore] = 0
    <3>1. tohost' = tohost
      BY <1>2, <2>5, <2>7
    <3>2. tohost[hcore] # Call /\ tohost[hcore] # Exit
      BY <2>7 DEF Exit, Call
    <3>3. Owed' = reply /\ Ended' = FALSE
      BY <2>4, <3>2, Zenon
    <3>4. QED BY <1>4, <1>8, <2>2, <2>5, <3>1, <3>3 DEF Boxes!vars
  <2>8. QED BY <2>6, <2>7
<1>9. CASE hpc = "stop"
  <2>1. req.reg = "reset" /\ req.write = TRUE /\ req.val = 1 /\ req.core = hcore
    BY <1>1, <1>9 DEF HostRequest, Request
  <2>2. Reset(hcore, TRUE)
    BY <1>1, <2>1 DEF Serve
  <2>3. Owed' = Owed /\ Ended' = TRUE /\ Ended = TRUE
    BY <1>1, <1>4, <1>9 DEF Owed, Ended, Acked
  <2>4. CASE ~run[hcore]
    <3>1. UNCHANGED <<run, tohost, fromhost>>
      BY <1>2, <2>2, <2>4 DEF Reset
    <3>2. QED BY <2>3, <3>1 DEF Boxes!vars
  <2>5. CASE run[hcore]
    <3>1. /\ run' = [run EXCEPT ![hcore] = FALSE]
          /\ tohost' = [tohost EXCEPT ![hcore] = 0]
          /\ fromhost' = [fromhost EXCEPT ![hcore] = 0]
      BY <1>2, <2>2, <2>5 DEF Reset
    <3>2. Boxes!Stop(hcore)
      BY <2>3, <2>5, <3>1 DEF Boxes!Stop, Boxes!Turn
    <3>3. QED BY <1>2, <3>2 DEF Boxes!Next
  <2>6. QED BY <2>4, <2>5
<1>10. QED BY <1>1, <1>2, <1>5, <1>6, <1>7, <1>8, <1>9

(* An instruction of a hart puts a request into an empty mailbox, empties  *)
(* the other, or leaves both as they are.                                  *)
LEMMA InsnRefines ==
  ASSUME MailInv, Instruction PROVE [Boxes!Next]_(Boxes!vars)
<1>1. UNCHANGED <<run, ack, hpc, hcore, reply>>
  BY DEF Instruction, LoadReserved, StoreConditional, Store, OtherInsn, Trap,
     Serialize, Monitor, SendIpi, ClearIpi, CsrMailbox, WriteTohost,
     WriteFromhost, hartVars, htifVars, hostVars
<1>2. Owed' = Owed /\ Ended' = Ended
  BY <1>1 DEF Owed, Ended, Acked
<1>3. /\ current_proc \in Procs
      /\ tohost \in [Procs -> Mail] /\ fromhost \in [Procs -> Mail]
  BY DEF MailInv, TypeOK
<1>4. loc \in {"tohost", "fromhost"} => run[current_proc] \/ Ended
  BY DEF MailInv, ExecInv, InInsn, Ended
<1>5. ASSUME NEW v \in Mail, WriteTohost(v) PROVE [Boxes!Next]_(Boxes!vars)
  <2>1. fromhost' = fromhost /\ tohost' = Put(tohost, current_proc, v)
    BY <1>5 DEF WriteTohost
  <2>2. CASE tohost[current_proc] = 0 /\ v # 0
    <3>1. run[current_proc] \/ Ended
      BY <1>4, <1>5 DEF WriteTohost
    <3>2. Boxes!Ask(current_proc, v)
      BY <1>1, <1>2, <2>1, <2>2, <3>1 DEF Boxes!Ask
    <3>3. QED BY <1>3, <3>2 DEF Boxes!Next
  <2>3. CASE ~(tohost[current_proc] = 0 /\ v # 0)
    <3>1. tohost' = tohost
      BY <1>3, <2>1, <2>3
    <3>2. QED BY <1>1, <1>2, <2>1, <3>1 DEF Boxes!vars
  <2>4. QED BY <2>2, <2>3
<1>6. ASSUME NEW v \in {0, fromhost[current_proc]}, WriteFromhost(v)
      PROVE  [Boxes!Next]_(Boxes!vars)
  <2>1. tohost' = tohost /\ fromhost' = [fromhost EXCEPT ![current_proc] = v]
    BY <1>6 DEF WriteFromhost
  <2>2. CASE v = 0
    <3>1. run[current_proc] \/ Ended
      BY <1>4, <1>6 DEF WriteFromhost
    <3>2. Boxes!Read(current_proc)
      BY <1>1, <1>2, <2>1, <2>2, <3>1 DEF Boxes!Read
    <3>3. QED BY <1>3, <3>2 DEF Boxes!Next
  <2>3. CASE v = fromhost[current_proc]
    <3>1. fromhost' = fromhost
      BY <1>3, <2>1, <2>3
    <3>2. QED BY <1>1, <1>2, <2>1, <3>1 DEF Boxes!vars
  <2>4. QED BY <2>2, <2>3
<1>7. CASE \/ \E a \in Addrs : LoadReserved(a) \/ StoreConditional(a) \/ Store(a)
           \/ OtherInsn \/ Trap \/ Serialize \/ Monitor
           \/ \E who \in 0 .. NProcs : SendIpi(who)
           \/ \E on \in BOOLEAN : ClearIpi(on)
           \/ \E which \in {"tohost", "fromhost"} : CsrMailbox(which)
  <2>1. UNCHANGED <<tohost, fromhost>>
    BY <1>7 DEF LoadReserved, StoreConditional, Store, OtherInsn, Trap, Serialize,
       Monitor, SendIpi, ClearIpi, CsrMailbox, hartVars
  <2>2. QED BY <1>1, <1>2, <2>1 DEF Boxes!vars
<1>8. QED BY <1>5, <1>6, <1>7 DEF Instruction

(* Every step of the machine is a step of the two mailboxes or leaves them *)
(* and the host's debts as they are.                                       *)
LEMMA MailRefines == MailInv /\ [Next]_vars => [Boxes!Next]_(Boxes!vars)
<1> SUFFICES ASSUME MailInv, [Next]_vars PROVE [Boxes!Next]_(Boxes!vars)
  OBVIOUS
<1>1. CASE TickOnce
  BY <1>1, ServeRefines
<1>2. CASE Instruction
  BY <1>2, InsnRefines
<1>3. CASE HostRecv
  <2>1. Owed' = Owed /\ Ended' = Ended
    BY <1>3, RecvUnseen DEF MailInv
  <2>2. QED BY <1>3, <2>1 DEF HostRecv, hartVars, Boxes!vars
<1>4. CASE TickDone \/ SchedNext \/ HostSend \/ HandleSignal \/ UNCHANGED vars
  <2>1. UNCHANGED <<run, tohost, fromhost, ack, hpc, hcore, reply>>
    BY <1>4 DEF TickDone, SchedNext, RunBody, PromptStep, PromptLeave, PromptQuit,
       StepReturn, StepEnter, StepInterrupt, StepCharge, HostSend, HandleSignal,
       vars, hartVars, htifVars, hostVars
  <2>2. Owed' = Owed /\ Ended' = Ended
    BY <2>1 DEF Owed, Ended, Acked
  <2>3. QED BY <2>1, <2>2 DEF Boxes!vars
<1>5. QED BY <1>1, <1>2, <1>3, <1>4 DEF Next, SimNext, HtifNext, HostNext,
      Terminated

(* The machine implements the mailboxes, for any number of harts and any   *)
(* slice length: packets, sequence numbers, ticks and resets in the middle *)
(* of an instruction do not show; no request is lost, overwritten or taken *)
(* twice, and each call is answered at most once, into an empty mailbox.   *)
THEOREM MailCorrect == Spec => MailServed
<1>1. Init => MailInv /\ Boxes!Init
  <2> SUFFICES ASSUME Init PROVE MailInv /\ Boxes!Init
    OBVIOUS
  <2>1. TypeOK /\ StepFits /\ HostInv
    BY InitResv DEF ResvInv, Init, HostInv
  <2>2. RunInv /\ ExecInv
    BY DEF Init, RunInv, ExecInv, InInsn
  <2>3. Owed = {} /\ Ended = FALSE
    BY DEF Init, Owed, Ended, Acked
  <2>4. QED BY <2>1, <2>2, <2>3 DEF Init, MailInv, TypeOK, Boxes!Init
<1>2. MailInv /\ [Next]_vars => MailInv'
  <2>1. MailInv /\ [Next]_vars => HostInv'
    BY HostStep DEF MailInv
  <2>2. QED BY <2>1, MailInvStep, TypeStep DEF MailInv
<1>3. QED BY <1>1, <1>2, MailRefines, PTL DEF Spec, MailServed, Boxes!Spec

=============================================================================
