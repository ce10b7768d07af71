------------------------------- MODULE MCSim -------------------------------
(* Sim on a small machine, with one contended word or none.                *)
EXTENDS Sim
CONSTANT a1
OneWord == {a1}
NoWord == {}
=============================================================================
