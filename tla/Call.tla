--------------------------------- MODULE Call ---------------------------------
(***************************************************************************)
(* One call of an instruction or of a library function: the kind of call,  *)
(* the rounding mode and up to three operands.  The modules that state what*)
(* instructions return extend this one; MCInsns makes the calls.           *)
(***************************************************************************)
EXTENDS Integers

VARIABLES op, mode, rs1, rs2, rs3
vars == <<op, mode, rs1, rs2, rs3>>

\* rs2 is -1 while a call still waits for its other operands.
Called(o) == op = o /\ rs2 # -1
\* What has no rounding mode, such as a comparison, is called in one of them.
CalledOnce(o) == Called(o) /\ mode = "near_even"
\* And in two of them, what could at most get a sign wrong: a remainder, which
\* is exact, and the fused multiply-adds that negate an operand.
CalledTwice(o) == Called(o) /\ mode \in {"near_even", "min"}
=============================================================================
