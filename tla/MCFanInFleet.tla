------------------------------ MODULE MCFanInFleet ------------------------------
(* Finite instances of FanInFleet. *)
EXTENDS FanInFleet, TLC

Apart  == [p \in Workers |-> p]          \* every worker id is unique
Shared == [p \in Workers |-> "w"]        \* one worker id for all

Fleet(lineage, crashers) == [lineage |-> lineage, crashers |-> crashers]

\* Both may crash; nobody crashes; or two processes share one worker id, and one
\* of them may crash.
AllFleets  == {Fleet(Apart, Workers), Fleet(Apart, {})}
              \cup {Fleet(Shared, {p}) : p \in Workers}
OneCrashes == {Fleet(Apart, {p}) : p \in Workers}
NobodyDies == {Fleet(Apart, {})}

\* Tasks and workers are interchangeable: no action names one, and every set of
\* deployments above is closed under their permutations.
Symmetry == Permutations(Tasks) \cup Permutations(Workers)
================================================================================
