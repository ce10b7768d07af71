-------------------------------- MODULE Sim --------------------------------
(***************************************************************************)
(* The machine: sim_t (riscv/sim.cc), which runs the harts round robin in  *)
(* slices of INTERLEAVE steps; htif_isasim_t (riscv/htif.cc), which serves *)
(* the host's packets; and of processor_t (riscv/processor.cc) what the    *)
(* harts share: reset, the mailboxes, IPIs and load reservations.          *)
(*                                                                         *)
(* The simulator is one thread; loc is where it stands.  The front-end     *)
(* server is a second thread, outside the repository, that exchanges one   *)
(* request and one acknowledgement at a time.  An instruction is abstract: *)
(* what it does to the shared state is kept, which one it is is chosen.    *)
(***************************************************************************)
EXTENDS Integers, FiniteSets

CONSTANTS
  NProcs,      \* procs.size()
  INTERLEAVE,  \* length of a slice, 5000 in sim.h
  CHAIN,       \* ICACHE_ENTRIES - 1: how far processor_t::step may overrun
  Addrs,       \* the aligned memory words the harts contend for
  NoResv,      \* (reg_t)-1, the value of load_reservation that means "none"
  SeqMod,      \* seqno is a uint8_t: 256
  DebugOption, \* may the simulator have been started with -d?
  UserSignals  \* may the user press ^C, or a tag check call for the prompt?

ASSUME NProcsAssumption == NProcs \in Nat \ {0}
ASSUME InterleaveAssumption == INTERLEAVE \in Nat \ {0}
ASSUME ChainAssumption == CHAIN \in Nat
ASSUME NoResvAssumption == NoResv \notin Addrs
ASSUME SeqModAssumption == SeqMod \in Nat \ {0, 1}
ASSUME OptionsAssumption == DebugOption \in BOOLEAN /\ UserSignals \in BOOLEAN

Procs == 0 .. NProcs - 1

(***************************************************************************)
(* Mailbox values: 0 is empty, Exit asks the host to end the program (what *)
(* sim_t::stop writes), Call is any other request.                         *)
(***************************************************************************)
Exit == 1
Call == 2
Mail == {0, Exit, Call}

Seqnos == 0 .. SeqMod - 1

(* Requests of the host.  reg is the control register, or "mem" or "scr".  *)
Requests == [reg : {"mem", "scr", "hartid", "tohost", "fromhost", "reset"},
             write : BOOLEAN, core : Procs, val : Mail, seq : Seqnos]
Acks == [val : Mail, seq : Seqnos]
None == [none |-> TRUE]

VARIABLES
  loc,          \* where the simulator thread stands, see TypeOK
  caller,       \* who called sim_t::step: "run" or "prompt"
  ret,          \* who called htif->tick(): "run", "slice", or a CSR read
  debug,        \* sim_t::debug, the -d option
  ctrlc,        \* ctrlc_pressed
  current_proc, current_step,
  todo,         \* n - i in sim_t::step
  steps,        \* the argument of processor_t::step
  burst,        \* instructions processor_t::step may still execute
  run, tohost, fromhost, ipi, resv,   \* per hart
  hreset,       \* htif_isasim_t::reset
  seqno,        \* htif_isasim_t::seqno
  req, ack,     \* the two directions of the channel to the host
  hpc, hcore, hseq, reply,   \* the host: phase, core, sequence no., replies due
  written       \* history: words other harts wrote since a hart's last LR

schedVars == <<caller, current_proc, current_step, todo, steps>>
simVars == <<loc, ret, debug, ctrlc, burst, schedVars>>
hartVars == <<run, tohost, fromhost, ipi, resv>>
htifVars == <<hreset, seqno, req, ack>>
hostVars == <<hpc, hcore, hseq, reply>>
vars == <<simVars, hartVars, htifVars, hostVars, written>>

TypeOK ==
  /\ loc \in {"tick", "body", "loop", "exec", "tohost", "fromhost",
              "prompt", "exited"}
  /\ caller \in {"run", "prompt"}
  /\ ret \in {"run", "slice", "tohost", "fromhost"}
  /\ debug \in BOOLEAN /\ ctrlc \in BOOLEAN
  /\ current_proc \in Procs
  /\ current_step \in 0 .. INTERLEAVE - 1
  /\ todo \in 0 .. INTERLEAVE
  /\ steps \in 0 .. INTERLEAVE
  /\ burst \in 0 .. INTERLEAVE + CHAIN
  /\ run \in [Procs -> BOOLEAN]
  /\ tohost \in [Procs -> Mail]
  /\ fromhost \in [Procs -> Mail]
  /\ ipi \in [Procs -> BOOLEAN]
  /\ resv \in [Procs -> Addrs \cup {NoResv}]
  /\ hreset \in BOOLEAN
  /\ seqno \in Seqnos
  /\ req \in Requests \cup {None}
  /\ ack \in Acks \cup {None}
  /\ hpc \in {"load", "assert", "release", "reply", "poll", "stop", "gone"}
  /\ hcore \in Procs
  /\ hseq \in Seqnos
  /\ reply \in SUBSET Procs
  /\ written \in [Procs -> SUBSET Addrs]

(***************************************************************************)
(* Construction.  processor_t's constructor calls reset(true) with run     *)
(* already false, so reset returns at once and state_t keeps whatever the  *)
(* allocation held: every hart field but run is arbitrary until the host   *)
(* releases the hart.                                                      *)
(***************************************************************************)
Init ==
  /\ loc = "tick" /\ ret = "run" /\ caller = "run"
  /\ debug \in {FALSE, DebugOption} /\ ctrlc = FALSE
  /\ current_proc = 0 /\ current_step = 0
  /\ todo = 0 /\ steps = 0 /\ burst = 0
  /\ run = [p \in Procs |-> FALSE]
  /\ tohost \in [Procs -> {0, Call}]
  /\ fromhost \in [Procs -> {0, Call}]
  /\ ipi \in [Procs -> BOOLEAN]
  /\ resv \in [Procs -> Addrs \cup {NoResv}]
  /\ hreset = TRUE /\ seqno = 1
  /\ req = None /\ ack = None
  /\ hpc = "load" /\ hcore = 0 /\ hseq = 1 /\ reply = {}
  /\ written = [p \in Procs |-> {}]

-----------------------------------------------------------------------------
(* htif_isasim_t                                                           *)

(* htif_isasim_t::done and sim_t::running *)
Running == \E p \in Procs : run[p]
Done == ~hreset /\ ~Running

(* Where htif->tick() returns to.  Only sim_t::run looks at its result.    *)
AfterTick(r) == CASE r = "run"   -> "body"
                  [] r = "slice" -> "loop"
                  [] OTHER       -> r

(* htif_isasim_t::tick: nothing to do once every hart is off. *)
TickDone ==
  /\ loc = "tick" /\ Done
  /\ loc' = IF ret = "run" THEN "exited" ELSE AfterTick(ret)
  /\ UNCHANGED <<ret, debug, ctrlc, burst, schedVars, hartVars, htifVars,
                 hostVars, written>>

(* processor_t::reset with state_t::reset: returns early if run does not   *)
(* change, so a second reset(1) or reset(0) leaves the hart alone.         *)
Reset(p, on) ==
  IF run[p] = ~on
    THEN UNCHANGED <<run, tohost, fromhost, ipi, resv>>
    ELSE /\ run' = [run EXCEPT ![p] = ~on]
         /\ tohost' = [tohost EXCEPT ![p] = 0]
         /\ fromhost' = [fromhost EXCEPT ![p] = 0]
         /\ ipi' = [ipi EXCEPT ![p] = FALSE]
         /\ resv' = [resv EXCEPT ![p] = NoResv]

(* htif_isasim_t::reset &= payload & 1: once a hart has been released the  *)
(* machine never goes back to waiting for the program.                     *)
HostResetFollows(val) == val = 1
HostReset(val) == hreset /\ val = 1

(* A mailbox takes a value only when it is empty.                          *)
PutOver(box, p, v) == [box EXCEPT ![p] = v]
Put(box, p, v) == IF box[p] = 0 THEN [box EXCEPT ![p] = v] ELSE box

(* seqno++ of a uint8_t *)
BumpSkipsZero(s) == IF s = SeqMod - 1 THEN 1 ELSE s + 1
Bump(s) == (s + 1) % SeqMod

(* The switch of tick_once: the effect of request r on harts and reset.    *)
Serve(r) ==
  CASE r.reg = "reset" /\ r.write ->
         /\ hreset' = HostReset(r.val)
         /\ Reset(r.core, r.val = 1)
    [] r.reg = "tohost" /\ r.write ->
         /\ tohost' = [tohost EXCEPT ![r.core] = r.val]
         /\ UNCHANGED <<hreset, run, fromhost, ipi, resv>>
    [] r.reg = "fromhost" /\ r.write ->
         /\ fromhost' = Put(fromhost, r.core, r.val)
         /\ UNCHANGED <<hreset, run, tohost, ipi, resv>>
    [] OTHER -> UNCHANGED <<hreset, hartVars>>

(* old_val, the payload of the acknowledgement.  Memory contents and the   *)
(* system registers are not modelled; the host makes no use of them here.  *)
(* (OldValAfter, a mistake to detect: read after the write.)               *)
OldValAfter(r) == IF r.write THEN r.val ELSE tohost[r.core]
OldVal(r) ==
  CASE r.reg = "tohost"   -> tohost[r.core]
    [] r.reg = "fromhost" -> fromhost[r.core]
    [] r.reg = "reset"    -> IF run[r.core] THEN 0 ELSE 1
    [] OTHER              -> 0

(* htif_isasim_t::tick_once, and the loop of tick around it.               *)
TickOnce ==
  /\ loc = "tick" /\ ~Done
  /\ req # None                  \* recv blocks until the host has sent
  /\ req.seq = seqno             \* assert(hdr.seqno == seqno)
  /\ Serve(req)
  /\ ack' = [val |-> OldVal(req), seq |-> seqno]
  /\ req' = None
  /\ seqno' = Bump(seqno)
  /\ loc' = IF hreset' THEN "tick" ELSE AfterTick(ret)
  /\ UNCHANGED <<ret, debug, ctrlc, burst, schedVars, hostVars, written>>

-----------------------------------------------------------------------------
(* sim_t                                                                   *)

WantsPromptDebugOnly == debug
WantsPrompt == debug \/ ctrlc

(* The body of sim_t::run's loop.  interactive() never gives control back  *)
(* before Done.                                                            *)
RunBody ==
  /\ loc = "body"
  /\ IF WantsPrompt
       THEN loc' = "prompt" /\ caller' = "prompt" /\ UNCHANGED todo
       ELSE loc' = "loop" /\ caller' = "run" /\ todo' = INTERLEAVE
  /\ UNCHANGED <<ret, debug, ctrlc, burst, current_proc, current_step, steps,
                 hartVars, htifVars, hostVars, written>>

(* sim_t::interactive: <enter>, and each turn of interactive_run's loop,   *)
(* is step(1).  After Done the prompt is left and the flag cleared.        *)
PromptStep ==
  /\ loc = "prompt" /\ ~Done
  /\ loc' = "loop" /\ todo' = 1
  /\ ctrlc' \in {ctrlc, FALSE}   \* interactive_run clears it first
  /\ UNCHANGED <<ret, debug, burst, caller, current_proc, current_step, steps,
                 hartVars, htifVars, hostVars, written>>

PromptLeave ==
  /\ loc = "prompt" /\ Done
  /\ loc' = "tick" /\ ret' = "run" /\ ctrlc' = FALSE
  /\ UNCHANGED <<debug, burst, schedVars, hartVars, htifVars, hostVars, written>>

(* The command q: exit(0).                                                 *)
PromptQuit ==
  /\ loc = "prompt" /\ ~Done
  /\ loc' = "exited"
  /\ UNCHANGED <<ret, debug, ctrlc, burst, schedVars, hartVars, htifVars, hostVars,
                 written>>

(* handle_signal: the second ^C before the flag is cleared ends the        *)
(* process.  sim_t::monitor, called by a tag check, sets the same flag.    *)
HandleSignal ==
  /\ UserSignals
  /\ loc # "exited"
  /\ IF ctrlc THEN loc' = "exited" /\ UNCHANGED ctrlc
              ELSE ctrlc' = TRUE /\ UNCHANGED loc
  /\ UNCHANGED <<ret, debug, burst, schedVars, hartVars, htifVars, hostVars,
                 written>>

(* sim_t::step: the loop is done, back to the caller.                      *)
StepReturn ==
  /\ loc = "loop" /\ todo = 0
  /\ IF caller = "run" THEN loc' = "tick" /\ ret' = "run"
                       ELSE loc' = "prompt" /\ UNCHANGED ret
  /\ UNCHANGED <<debug, ctrlc, burst, schedVars, hartVars, htifVars, hostVars,
                 written>>

MinOf(a, b) == IF a < b THEN a ELSE b

(* processor_t::yield_load_reservation *)
YieldNothing == UNCHANGED resv
YieldLoadReservation == resv' = [resv EXCEPT ![current_proc] = NoResv]

(* sim_t::step calls processor_t::step(steps): it does nothing for a hart  *)
(* in reset, else runs some instructions: fewer than steps if the timer is *)
(* due (next_timer), more if the last ones are a straight line through the *)
(* icache, where the loop does not look at the budget.                     *)
StepEnter ==
  /\ loc = "loop" /\ todo > 0
  /\ steps' = MinOf(todo, INTERLEAVE - current_step)
  /\ IF run[current_proc] THEN burst' \in 1 .. steps' + CHAIN ELSE burst' = 0
  /\ loc' = "exec"
  /\ UNCHANGED <<ret, debug, ctrlc, caller, current_proc, current_step, todo,
                 hartVars, htifVars, hostVars, written>>

(* take_interrupt at the start of processor_t::step: a pending, enabled    *)
(* interrupt (the enables are not modelled) is a trap before the first     *)
(* instruction.                                                            *)
StepInterrupt ==
  /\ loc = "loop" /\ todo > 0
  /\ run[current_proc]
  /\ ipi[current_proc] \/ fromhost[current_proc] # 0
  /\ steps' = MinOf(todo, INTERLEAVE - current_step)
  /\ burst' = 0
  /\ YieldLoadReservation
  /\ loc' = "exec"
  /\ UNCHANGED <<ret, debug, ctrlc, caller, current_proc, current_step, todo,
                 run, tohost, fromhost, ipi, htifVars, hostVars, written>>

(* ++current_proc, and 0 at the end *)
NextHartPast == current_proc + 1
NextHartSame == current_proc
NextHart == (current_proc + 1) % NProcs

(* processor_t::step has returned.  The step is charged in full whatever   *)
(* was executed; the end of a slice drops the reservation, moves to the    *)
(* next hart and lets the host in.                                         *)
StepCharge ==
  /\ loc = "exec" /\ burst = 0
  /\ todo' = todo - steps
  /\ IF current_step + steps = INTERLEAVE
       THEN /\ current_step' = 0
            /\ YieldLoadReservation
            /\ current_proc' = NextHart
            /\ loc' = "tick" /\ ret' = "slice"
       ELSE /\ current_step' = current_step + steps
            /\ loc' = "loop"
            /\ UNCHANGED <<resv, current_proc, ret>>
  /\ UNCHANGED <<debug, ctrlc, burst, caller, steps, run, tohost, fromhost, ipi,
                 htifVars, hostVars, written>>

-----------------------------------------------------------------------------
(* Instructions of the current hart, inside processor_t::step.  run is not *)
(* looked at again: a hart the host resets from within its own burst goes  *)
(* on until the burst ends.                                                *)

Executing == loc = "exec" /\ burst > 0
Retire == burst' = burst - 1 /\ UNCHANGED <<ret, debug, ctrlc, schedVars>>

(* Words a store by the current hart makes stale for the others.           *)
Overwrite(a) ==
  written' = [p \in Procs |-> IF p = current_proc THEN written[p]
                                                  ELSE written[p] \cup {a}]

(* lr.w, lr.d on an accessible word: the reservation is the address.       *)
LoadReserved(a) ==
  /\ Executing /\ Retire
  /\ resv' = [resv EXCEPT ![current_proc] = a]
  /\ written' = [written EXCEPT ![current_proc] = {}]
  /\ UNCHANGED <<loc, run, tohost, fromhost, ipi, htifVars, hostVars>>

(* sc.w, sc.d: it stores if the address is the reserved one, and keeps the *)
(* reservation either way.                                                 *)
ScMatches(a) == a = resv[current_proc]

StoreConditional(a) ==
  /\ Executing /\ Retire
  /\ ScMatches(a)
  /\ Overwrite(a)
  /\ UNCHANGED <<loc, hartVars, htifVars, hostVars>>

(* A failed sc, a load, arithmetic: nothing shared changes.                *)
OtherInsn ==
  /\ Executing /\ Retire
  /\ UNCHANGED <<loc, hartVars, htifVars, hostVars, written>>

(* Stores and atomic read-modify-writes.                                   *)
Store(a) ==
  /\ Executing /\ Retire
  /\ Overwrite(a)
  /\ UNCHANGED <<loc, hartVars, htifVars, hostVars>>

(* Any exception, and an sc to the address -1: with no reservation it      *)
(* matches, and its store traps as misaligned.  take_trap drops the        *)
(* reservation; the burst is over.                                         *)
Trap ==
  /\ Executing
  /\ burst' = 0
  /\ YieldLoadReservation
  /\ UNCHANGED <<loc, ret, debug, ctrlc, schedVars, run, tohost, fromhost, ipi,
                 htifVars, hostVars, written>>

(* serialize(): the burst ends before the instruction takes effect.        *)
Serialize ==
  /\ Executing
  /\ burst' = 0
  /\ UNCHANGED <<loc, ret, debug, ctrlc, schedVars, hartVars, htifVars, hostVars,
                 written>>

(* csrw send_ipi: sim_t::send_ipi and deliver_ipi.                         *)
SendIpi(who) ==
  /\ Executing /\ Retire
  /\ ipi' = IF who < NProcs /\ run[who] THEN [ipi EXCEPT ![who] = TRUE] ELSE ipi
  /\ UNCHANGED <<loc, run, tohost, fromhost, resv, htifVars, hostVars, written>>

(* csrw clear_ipi: the pending bit becomes bit 0 of the value.             *)
ClearIpi(on) ==
  /\ Executing /\ Retire
  /\ ipi' = [ipi EXCEPT ![current_proc] = on]
  /\ UNCHANGED <<loc, run, tohost, fromhost, resv, htifVars, hostVars, written>>

(* csrr* on tohost or fromhost: get_pcr lets the host in, whatever that    *)
(* does to this very hart, and only then is the register read and written  *)
(* back.                                                                   *)
CsrMailbox(which) ==
  /\ Executing
  /\ burst' = burst - 1
  /\ loc' = "tick" /\ ret' = which
  /\ UNCHANGED <<debug, ctrlc, schedVars, hartVars, htifVars, hostVars, written>>

(* set_pcr(CSR_TOHOST): takes effect only on an empty mailbox.             *)
WriteTohost(v) ==
  /\ loc = "tohost"
  /\ loc' = "exec"
  /\ tohost' = Put(tohost, current_proc, v)
  /\ UNCHANGED <<ret, debug, ctrlc, burst, schedVars, run, fromhost, ipi, resv,
                 htifVars, hostVars, written>>

(* set_pcr(CSR_FROMHOST): set_fromhost, unconditional.  A plain read       *)
(* writes back the value read.                                             *)
WriteFromhost(v) ==
  /\ loc = "fromhost"
  /\ loc' = "exec"
  /\ fromhost' = [fromhost EXCEPT ![current_proc] = v]
  /\ UNCHANGED <<ret, debug, ctrlc, burst, schedVars, run, tohost, ipi, resv,
                 htifVars, hostVars, written>>

(* A tag check that fails calls sim_t::monitor.                            *)
Monitor ==
  /\ UserSignals
  /\ Executing
  /\ burst' = burst - 1
  /\ ctrlc' = TRUE
  /\ UNCHANGED <<loc, ret, debug, schedVars, hartVars, htifVars, hostVars, written>>

Instruction ==
  \/ \E a \in Addrs : LoadReserved(a) \/ StoreConditional(a) \/ Store(a)
  \/ OtherInsn \/ Trap \/ Serialize \/ Monitor
  \/ \E who \in 0 .. NProcs : SendIpi(who)
  \/ \E on \in BOOLEAN : ClearIpi(on)
  \/ \E which \in {"tohost", "fromhost"} : CsrMailbox(which)
  \/ \E v \in Mail : WriteTohost(v)
  \/ \E v \in {0, fromhost[current_proc]} : WriteFromhost(v)

-----------------------------------------------------------------------------
(* The host (the front-end server, outside the repository), as htif.cc and *)
(* sim_t::stop presume it: load the program, put every hart in reset and   *)
(* release it, serve the mailboxes in turn, and on Exit put every hart in  *)
(* reset again and leave.  One request is outstanding at a time.           *)

Request(reg, write, val) ==
  [reg |-> reg, write |-> write, core |-> hcore, val |-> val, seq |-> hseq]

HostRequest ==
  CASE hpc = "load"    -> Request("mem", TRUE, 0)
    [] hpc = "assert"  -> Request("reset", TRUE, 1)
    [] hpc = "release" -> Request("reset", TRUE, 0)
    [] hpc = "reply"   -> Request("fromhost", hcore \in reply, Call)
    [] hpc = "poll"    -> Request("tohost", TRUE, 0)
    [] hpc = "stop"    -> Request("reset", TRUE, 1)

HostSend ==
  /\ hpc # "gone" /\ req = None /\ ack = None
  /\ req' = HostRequest
  /\ UNCHANGED <<simVars, hartVars, hreset, seqno, ack, hostVars, written>>

LastCore == hcore = NProcs - 1

(* The phase that follows the acknowledged request, for a phase that       *)
(* visits every hart once: stay until the last one, then go to next.       *)
Visit(next) ==
  /\ hpc' = IF LastCore THEN next ELSE hpc
  /\ hcore' = (hcore + 1) % NProcs
  /\ UNCHANGED reply

HostRecv ==
  /\ hpc # "gone" /\ ack # None /\ loc # "exited"
  /\ ack' = None
  /\ hseq' = (hseq + 1) % SeqMod
  /\ CASE hpc = "load"    -> hpc' = "assert" /\ UNCHANGED <<hcore, reply>>
       [] hpc = "assert"  -> Visit("release")
       [] hpc = "release" -> Visit("reply")
       [] hpc = "stop"    -> Visit("gone")
       [] hpc = "reply"   ->   \* the reply was taken iff the old value is 0
            /\ reply' = IF ack.val = 0 THEN reply \ {hcore} ELSE reply
            /\ hpc' = "poll" /\ UNCHANGED hcore
       [] hpc = "poll"    ->   \* the old value is the hart's request
            /\ hpc' = IF ack.val = Exit THEN "stop" ELSE "reply"
            /\ hcore' = IF ack.val = Exit THEN 0 ELSE (hcore + 1) % NProcs
            /\ reply' = IF ack.val = Call THEN reply \cup {hcore} ELSE reply
  /\ UNCHANGED <<simVars, hartVars, hreset, seqno, req, written>>

-----------------------------------------------------------------------------
HtifNext == TickDone \/ TickOnce

SchedNext == RunBody \/ PromptStep \/ PromptLeave \/ PromptQuit \/ StepReturn
             \/ StepEnter \/ StepInterrupt \/ StepCharge

(* The simulator's thread; the host's thread.                              *)
SimNext == HtifNext \/ SchedNext \/ Instruction
HostNext == HostSend \/ HostRecv

Terminated == loc = "exited" /\ UNCHANGED vars

Next == SimNext \/ HostNext \/ HandleSignal \/ Terminated

Spec == Init /\ [][Next]_vars

(* Both threads run; the user's signals are never owed.                    *)
FairSpec == Spec /\ WF_vars(SimNext) /\ WF_vars(HostNext)

-----------------------------------------------------------------------------
(* Properties                                                              *)

(* lr/sc atomicity among harts: whenever a hart's sc could succeed, no     *)
(* other hart has written the reserved word since its lr.  The code has no *)
(* other mechanism: stores do not look at other harts' reservations.       *)
ReservationClean ==
  \A p \in Procs :
    (run[p] \/ (p = current_proc /\ burst > 0)) => resv[p] \notin written[p]

(* The assert of tick_once never fails, and the host finds its own number  *)
(* in every acknowledgement, across the wrap of the 8-bit counter.         *)
SeqnoPaired ==
  /\ req # None => req.seq = seqno
  /\ ack # None => ack.seq = hseq

(* tick_once never waits for a packet of a host that has left: once all    *)
(* harts are back in reset, done() keeps the simulator out of recv.        *)
NeverWaitsForGoneHost == hpc = "gone" /\ loc = "tick" => Done

(* The host's debts, counting what an acknowledgement on its way will tell *)
(* it: the request it has taken, or that its answer was.                   *)
Acked(phase, v) == ack # None /\ hpc = phase /\ ack.val = v
Owed == CASE Acked("poll", Call) -> reply \cup {hcore}
          [] Acked("reply", 0)   -> reply \ {hcore}
          [] OTHER               -> reply
Ended == hpc \in {"stop", "gone"} \/ Acked("poll", Exit)

Boxes == INSTANCE Mailboxes WITH owed <- Owed, ended <- Ended

(* Packets, slices and ticks in the middle of instructions do not show in  *)
(* the mailboxes: no request is lost, none is overwritten or taken twice,  *)
(* each call is answered at most once and into an empty mailbox, nothing   *)
(* that a hart held before it was released is taken for a request, and no  *)
(* hart is reset under a running program.                                  *)
MailServed == Boxes!Spec

(* A program that asks to exit ends: sim_t::run returns, whatever the      *)
(* harts go on executing, unless ^C brings up the prompt first.            *)
ExitTerminates ==
  (\E p \in Procs : run[p] /\ tohost[p] = Exit) ~> (loc \in {"prompt", "exited"})

(* No hart starves: one that is running is given a slice, or leaves the    *)
(* running state, or the prompt stops them all.                            *)
EveryHartScheduled ==
  \A p \in Procs : run[p] ~> (current_proc = p \/ ~run[p] \/ loc \in {"prompt", "exited"})

(* ^C while the program runs: the prompt appears, unless the program or a  *)
(* second ^C ends the simulator first (README.md, "At any point during     *)
(* execution (even without -d), you can enter the interactive debug mode").*)
CtrlcReachesPrompt ==
  (ctrlc /\ caller = "run") ~> (loc \in {"prompt", "exited"})
=============================================================================
