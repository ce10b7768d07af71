---------------------------- MODULE MCProcessor ----------------------------
(* Processor with a few status values: supervisor with and without         *)
(* interrupts, a 64-bit supervisor over a 32-bit user and the reverse.     *)
EXTENDS Processor

Sup == [ResetStatus EXCEPT !.PS = FALSE]
SupMixed == [Sup EXCEPT !.U64 = FALSE]
SupIrq == [SupMixed EXCEPT !.EI = TRUE, !.IM = Irqs]
SupToUser == [SupMixed EXCEPT !.PEI = TRUE, !.IM = {IRQ_HOST, IRQ_TIMER}]
UserIrq == [SupMixed EXCEPT !.S = FALSE, !.EI = TRUE, !.IM = {IRQ_IPI, IRQ_HOST}]

AllModes == {SupIrq, SupToUser, UserIrq}
TimerInterrupt == {[Sup EXCEPT !.EI = TRUE, !.IM = {IRQ_TIMER, IRQ_IPI}]}
=============================================================================
