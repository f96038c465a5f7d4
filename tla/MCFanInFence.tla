------------------------------ MODULE MCFanInFence ------------------------------
(* Finite instances of FanInFence. *)
EXTENDS FanInFence
================================================================================
