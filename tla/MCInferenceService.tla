-------------------------- MODULE MCInferenceService --------------------------
(* Finite instances of InferenceService. *)
EXTENDS InferenceService

Bodies == {"good", "garbled", "misfit"}

\* Reloads of one layout differ in nothing but their names.
ReloadSymmetry == Permutations(Compatible)
===============================================================================
