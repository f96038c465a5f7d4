------------------------------ MODULE MCSearchPool ------------------------------
(* Finite instances of SearchPool. *)
EXTENDS SearchPool

CONSTANTS b1, b2

\* The second state is reached after one real faint.
OneFaint == [s \in States |-> IF s = 1 THEN 0 ELSE 1]

Load(battles, quota, decisions, deaths) ==
  [battles |-> battles, quota |-> quota, decisions |-> decisions, faults |-> deaths]

\* A longer decision; a change of battle; three decisions; two faults in one.
Mixed == {Load({b1}, 2, 1, 0), Load({b1, b2}, 1, 2, 0), Load({b1}, 1, 3, 0), Load({b1}, 1, 1, 2)}
================================================================================
