------------------------------ MODULE MCTrainAgent ------------------------------
(* Finite instances of TrainAgent. *)
EXTENDS TrainAgent
================================================================================
