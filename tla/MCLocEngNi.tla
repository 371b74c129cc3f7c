----------------------------- MODULE MCLocEngNi -----------------------------
(* Instances of LocEngNi. *)
EXTENDS LocEngNi, TLC
=============================================================================
