------------------------------ MODULE FanInCommit ------------------------------
(***************************************************************************)
(* What one fan-in task promises, whatever the filesystem steps are that   *)
(* provide it (docs/fanin_filesystem_protocol.md, "Guard directories form  *)
(* an append-only generation chain" ff.).                                  *)
(*                                                                         *)
(* Claim generations take turns holding the task.  A holder may offer one  *)
(* published target.  At most one offer is ever accepted, it is the offer  *)
(* of the holder that is current at that moment, and the acceptance ends   *)
(* the succession.  FanInFence shows the guard directories implement this  *)
(* for one task and FanInFleet shows it for every task of an iteration.    *)
(***************************************************************************)
EXTENDS Naturals, Sequences

CONSTANTS Claims,   \* claim generations: capabilities that are never reused
          NoClaim

VARIABLES holders,  \* the claims that ever held the task, in order
          offered,  \* the claims whose target has been made visible
          winner    \* the claim whose target is accepted input, or NoClaim

commitVars == <<holders, offered, winner>>

Init == holders = <<>> /\ offered = {} /\ winner = NoClaim

HasHeld(c) == \E i \in 1..Len(holders) : holders[i] = c

\* A claim generation that never held the task takes it over.
Grant(c) == /\ winner = NoClaim
            /\ ~HasHeld(c)
            /\ holders' = Append(holders, c)
            /\ UNCHANGED <<offered, winner>>

\* A holder, current or not, makes its target visible.
Offer(c) == /\ HasHeld(c)
            /\ offered' = offered \cup {c}
            /\ UNCHANGED <<holders, winner>>

\* The current holder's offer becomes the accepted input.
Accept(c) == /\ winner = NoClaim
             /\ holders # <<>>
             /\ c = holders[Len(holders)]
             /\ c \in offered
             /\ winner' = c
             /\ UNCHANGED <<holders, offered>>

Next == \E c \in Claims : Grant(c) \/ Offer(c) \/ Accept(c)

Spec == Init /\ [][Next]_commitVars
================================================================================
