---------------------------- MODULE MCFanInInventory ----------------------------
(* Finite instances of FanInInventory: three games from offset 1, seed 0. *)
EXTENDS FanInInventory

ThreeGames == [iteration |-> 0, tasks |-> 2, games |-> 3, offset |-> 1, seed |-> 0]

\* Gaps, overlaps, misaligned seeds, a repeated id and a foreign iteration.
Unruly == {t \in [id : 1..2, iteration : {0}, offset : 1..3, count : 1..2, seed : 0..2] :
             t.id = t.count}
            \cup {[id |-> 1, iteration |-> 0, offset |-> 2, count |-> 2, seed |-> 1],
                  [id |-> 3, iteration |-> 1, offset |-> 1, count |-> 1, seed |-> 0]}
================================================================================
