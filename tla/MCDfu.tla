------------------------------- MODULE MCDfu -------------------------------
(* Dfu on small instances. *)
EXTENDS Dfu

CONSTANTS v1, v2, v3, none
=============================================================================
