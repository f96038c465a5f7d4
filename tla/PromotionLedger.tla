---------------------------- MODULE PromotionLedger ----------------------------
(***************************************************************************)
(* What a promotion registry promises (promotion.py): promotions are only  *)
(* ever appended, one at a time, and no checkpoint is promoted twice.      *)
(***************************************************************************)
EXTENDS Sequences

VARIABLE ledger     \* the promoted checkpoints, in the order of their sequence numbers

Init == ledger = <<>>

Promote(c) ==
  /\ \A i \in DOMAIN ledger : ledger[i] # c
  /\ ledger' = Append(ledger, c)

Next == \E k \in DOMAIN ledger' : Promote(ledger'[k])

Spec == Init /\ [][Next]_ledger
================================================================================
