---------------------------- MODULE MCRegistry -----------------------------
(* A run and the command resolve over three ticks, two editions of the CVM. *)
EXTENDS Registry
=============================================================================
