-------------------------------- MODULE MCPanel --------------------------------
(* Finite instances of Panel. *)
EXTENDS Panel
================================================================================
