------------------------------ MODULE Mailboxes ------------------------------
(***************************************************************************)
(* What a program may rely on between its harts and the host: two          *)
(* mailboxes per hart, and a host that takes a request out of one and      *)
(* answers into the other.  There are no packets, no sequence numbers, no  *)
(* slices and no ticks: a request is in the mailbox, or owed an answer; an *)
(* answer is owed, or in the mailbox.  Sim is shown to implement this.     *)
(***************************************************************************)
CONSTANTS Procs, Mail, Call, Exit

VARIABLES
  run,               \* harts that are not in reset
  tohost, fromhost,  \* the mailboxes of each hart, 0 when empty
  owed,              \* harts whose call was taken and not answered
  ended              \* a hart has asked to end the program

vars == <<run, tohost, fromhost, owed, ended>>

(* What is in the mailboxes of a hart in reset is arbitrary.               *)
Init ==
  /\ run = [p \in Procs |-> FALSE]
  /\ tohost \in [Procs -> Mail] /\ fromhost \in [Procs -> Mail]
  /\ owed = {} /\ ended = FALSE

(* A hart puts a request into its empty mailbox, or empties the other.  It *)
(* runs, or is about to notice that it was stopped.                        *)
Ask(p, v) ==
  /\ run[p] \/ ended
  /\ tohost[p] = 0 /\ v # 0
  /\ tohost' = [tohost EXCEPT ![p] = v]
  /\ UNCHANGED <<run, fromhost, owed, ended>>

Read(p) ==
  /\ run[p] \/ ended
  /\ fromhost' = [fromhost EXCEPT ![p] = 0]
  /\ UNCHANGED <<run, tohost, owed, ended>>

(* The host takes a request of a hart that runs, and owes it an answer or  *)
(* ends the program.                                                       *)
Take(p) ==
  /\ run[p] /\ ~ended
  /\ tohost[p] # 0
  /\ tohost' = [tohost EXCEPT ![p] = 0]
  /\ owed' = IF tohost[p] = Call THEN owed \cup {p} ELSE owed
  /\ ended' = (tohost[p] = Exit)
  /\ UNCHANGED <<run, fromhost>>

(* It answers what it owes, once, and into an empty mailbox only.          *)
Answer(p) ==
  /\ run[p] /\ ~ended
  /\ p \in owed /\ fromhost[p] = 0
  /\ fromhost' = [fromhost EXCEPT ![p] = Call]
  /\ owed' = owed \ {p}
  /\ UNCHANGED <<run, tohost, ended>>

(* A hart starts once, with empty mailboxes, and is stopped only when the  *)
(* program has ended.                                                      *)
Turn(p, on) ==
  /\ run' = [run EXCEPT ![p] = on]
  /\ tohost' = [tohost EXCEPT ![p] = 0]
  /\ fromhost' = [fromhost EXCEPT ![p] = 0]
  /\ UNCHANGED <<owed, ended>>
Start(p) == ~run[p] /\ ~ended /\ Turn(p, TRUE)
Stop(p) == run[p] /\ ended /\ Turn(p, FALSE)

Next ==
  \E p \in Procs : \/ \E v \in Mail : Ask(p, v)
                   \/ Read(p) \/ Take(p) \/ Answer(p) \/ Start(p) \/ Stop(p)

Spec == Init /\ [][Next]_vars
=============================================================================
