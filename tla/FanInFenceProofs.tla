---------------------------- MODULE FanInFenceProofs ----------------------------
(***************************************************************************)
(* What FanInFence promises for every set of claims and every limit.       *)
(***************************************************************************)
EXTENDS FanInFence, TLAPS

--------------------------------------------------------------------------------
(* The inductive invariant, in named parts. *)

\* An attempt that has not installed its generation yet.
NotYetOwner(c) == \/ pc[c] \in {"idle", "glob", "weigh", "install"}
                  \/ pc[c] \in {"walk", "scan"} /\ why[c] \in {"recover", "acquire"}

\* A claim installs at most one generation, and acts on it only then.
OwnerIsInstalled(c) == /\ NotYetOwner(c) => ~Owns(c)
                       /\ pc[c] \in {"own", "rename", "lock", "release"} => Owns(c)

\* What a walk has passed is a prefix of the chain; what it found stays found.
WalkIsPrefix(c) == /\ depth[c] <= Len(chain)
                   /\ pc[c] = "weigh" => depth[c] > 0
                   /\ pc[c] = "commit" => depth[c] > 0 /\ chain[depth[c]] = pub[c]

\* A rival that decided to install still faces an inactive predecessor.
RivalIsRight(c) == pc[c] = "install" /\ depth[c] > 0 =>
                      chain[depth[c]] \in released \/ chain[depth[c]] \notin live

\* A publication handed to acceptance is visible.
PublicationIsVisible(c) == /\ pub[c] # NoClaim => pub[c] \in targets
                           /\ pc[c] = "lock" => c \in targets

\* Every failed traversal was outrun by one more outcome.
TriesAreOutrun(c) == /\ tries[c] <= Outcomes
                     /\ pc[c] = "scan" => tries[c] <= depth[c]

CorruptionIsOutrun(c) == verdict[c] = "corrupt" =>
                            Outcomes >= TraversalAttempts \/ Len(chain) > MaxGenerations

AttemptInv(c) == /\ OwnerIsInstalled(c) /\ WalkIsPrefix(c) /\ RivalIsRight(c)
                 /\ PublicationIsVisible(c) /\ TriesAreOutrun(c) /\ CorruptionIsOutrun(c)

IInv == /\ TypeOK
        /\ \A c \in Claims : AttemptInv(c)
        /\ AcceptedIsCurrent /\ SuccessionIsSafe

--------------------------------------------------------------------------------
(* What the shared control transfers do to the locals. *)

Verdicts == {"none", "accepted", "transient", "revoked", "corrupt", "raced"}

\* The locals that only the control transfers write.
LocalsTyped ==
  /\ pc \in [Claims -> {"idle", "walk", "scan", "glob", "weigh", "install", "own",
                        "rename", "lock", "commit", "release", "done", "dead"}]
  /\ why \in [Claims -> {"recover", "acquire", "accept", "confirm"}]
  /\ depth \in [Claims -> 0..MaxGenerations] /\ sawFresh \in [Claims -> BOOLEAN]
  /\ tries \in [Claims -> 0..(TraversalAttempts - 1)]

\* A step of c leaves every other attempt where it was.
OthersStay(c) ==
  \A d \in Claims : d # c =>
     /\ pc'[d] = pc[d] /\ why'[d] = why[d] /\ depth'[d] = depth[d]
     /\ tries'[d] = tries[d] /\ pub'[d] = pub[d] /\ verdict'[d] = verdict[d]

LEMMA ForgetEffect ==
  ASSUME TypeOK, NEW c \in Claims, Forget(c)
  PROVE  /\ why' \in [Claims -> {"recover", "acquire", "accept", "confirm"}]
         /\ depth' \in [Claims -> 0..MaxGenerations] /\ sawFresh' \in [Claims -> BOOLEAN]
         /\ tries' \in [Claims -> 0..(TraversalAttempts - 1)] /\ rounds' \in [Claims -> 0..(AcquireAttempts - 1)]
         /\ pub' \in [Claims -> Claims \cup {NoClaim}]
         /\ why'[c] = "recover" /\ depth'[c] = 0 /\ tries'[c] = 0 /\ pub'[c] = NoClaim
         /\ \A d \in Claims : d # c =>
               /\ why'[d] = why[d] /\ depth'[d] = depth[d]
               /\ tries'[d] = tries[d] /\ pub'[d] = pub[d]
<1>1. /\ why' \in [Claims -> {"recover", "acquire", "accept", "confirm"}]
      /\ depth' \in [Claims -> 0..MaxGenerations] /\ sawFresh' \in [Claims -> BOOLEAN]
      /\ tries' \in [Claims -> 0..(TraversalAttempts - 1)] /\ rounds' \in [Claims -> 0..(AcquireAttempts - 1)]
      /\ pub' \in [Claims -> Claims \cup {NoClaim}]
  BY BoundsAssumption DEF TypeOK, Forget
<1>2. why'[c] = "recover" /\ depth'[c] = 0 /\ tries'[c] = 0 /\ pub'[c] = NoClaim
  BY DEF TypeOK, Forget
<1>3. ASSUME NEW d \in Claims, d # c
      PROVE  /\ why'[d] = why[d] /\ depth'[d] = depth[d]
             /\ tries'[d] = tries[d] /\ pub'[d] = pub[d]
  BY <1>3 DEF TypeOK, Forget
<1>q. QED
  BY <1>1, <1>2, <1>3

LEMMA FinishEffect ==
  ASSUME TypeOK, NEW c \in Claims, NEW v \in Verdicts, Finish(c, v)
  PROVE  /\ LocalsTyped' /\ rounds' \in [Claims -> 0..(AcquireAttempts - 1)]
         /\ pub' \in [Claims -> Claims \cup {NoClaim}]
         /\ verdict' \in [Claims -> Verdicts]
         /\ OthersStay(c)
         /\ pc'[c] \in {"release", "done"} /\ (pc'[c] = "release" => Owns(c))
         /\ depth'[c] = 0 /\ tries'[c] = 0 /\ pub'[c] = NoClaim /\ verdict'[c] = v
<1>1. Forget(c)
  BY DEF Finish
<1>2. /\ pc' \in [Claims -> {"idle", "walk", "scan", "glob", "weigh", "install", "own",
                        "rename", "lock", "commit", "release", "done", "dead"}]
      /\ verdict' \in [Claims -> Verdicts] /\ verdict'[c] = v
      /\ pc'[c] \in {"release", "done"} /\ (pc'[c] = "release" => Owns(c))
  <2>1. CASE Owns(c)
    BY <2>1 DEF Finish, Goto, TypeOK, Verdicts
  <2>2. CASE ~Owns(c)
    BY <2>2 DEF Finish, Goto, TypeOK, Verdicts
  <2>q. QED
    BY <2>1, <2>2
<1>3. \A d \in Claims : d # c => pc'[d] = pc[d] /\ verdict'[d] = verdict[d]
  BY DEF Finish, Goto, TypeOK
<1>q. QED
  BY <1>1, <1>2, <1>3, ForgetEffect DEF LocalsTyped, OthersStay

LEMMA WalkEffect ==
  ASSUME TypeOK, NEW c \in Claims,
         NEW w \in {"recover", "acquire", "accept", "confirm"}, Walk(c, w)
  PROVE  /\ LocalsTyped'
         /\ pc'[c] = "walk" /\ why'[c] = w /\ depth'[c] = 0 /\ tries'[c] = 0
         /\ \A d \in Claims : d # c =>
               /\ pc'[d] = pc[d] /\ why'[d] = why[d] /\ depth'[d] = depth[d]
               /\ tries'[d] = tries[d]
<1>1. LocalsTyped'
  BY BoundsAssumption DEF Walk, Goto, TypeOK, LocalsTyped
<1>2. pc'[c] = "walk" /\ why'[c] = w /\ depth'[c] = 0 /\ tries'[c] = 0
  BY DEF Walk, Goto, TypeOK
<1>3. ASSUME NEW d \in Claims, d # c
      PROVE  /\ pc'[d] = pc[d] /\ why'[d] = why[d] /\ depth'[d] = depth[d]
             /\ tries'[d] = tries[d]
  BY <1>3 DEF Walk, Goto, TypeOK
<1>q. QED
  BY <1>1, <1>2, <1>3

--------------------------------------------------------------------------------
(* Typing. *)

LEMMA TypeInit == Init => TypeOK
BY BoundsAssumption DEF Init, TypeOK

LEMMA TypeStep == TypeOK /\ [Next]_vars => TypeOK'
<1> SUFFICES ASSUME TypeOK, [Next]_vars PROVE TypeOK'
  OBVIOUS
<1>0. CASE UNCHANGED vars
  BY <1>0 DEF vars, TypeOK
<1>1. ASSUME NEW c \in Claims, Start(c) PROVE TypeOK'
  BY <1>1, WalkEffect DEF Start, LocalsTyped, mount, reading, TypeOK
<1>2. ASSUME NEW c \in Claims, ReadGeneration(c) PROVE TypeOK'
  <2>1. CASE Finish(c, "corrupt")
    BY <1>2, <2>1, FinishEffect DEF ReadGeneration, mount, LocalsTyped, Verdicts, TypeOK
  <2>2. CASE /\ depth[c] < MaxGenerations
             /\ depth' = [depth EXCEPT ![c] = @ + 1]
             /\ sawFresh' = [sawFresh EXCEPT
                   ![c] = why[c] = "acquire" /\ chain[depth[c] + 1] \in fresh]
             /\ UNCHANGED <<tries, pc, why, rounds, pub, verdict>>
    <3>1. depth' \in [Claims -> 0..MaxGenerations]
      BY <2>2, BoundsAssumption DEF TypeOK
    <3>2. sawFresh' \in [Claims -> BOOLEAN]
      BY <2>2 DEF TypeOK
    <3>q. QED
      BY <1>2, <2>2, <3>1, <3>2 DEF ReadGeneration, mount, TypeOK
  <2>q. QED
    BY <1>2, <2>1, <2>2 DEF ReadGeneration
<1>3. ASSUME NEW c \in Claims, ReadAcceptance(c) PROVE TypeOK'
  BY <1>3, FinishEffect DEF ReadAcceptance, Verdicts, LocalsTyped, mount, reading, Goto, TypeOK
<1>22. ASSUME NEW c \in Claims, ReadRaced(c) PROVE TypeOK'
  BY <1>22, FinishEffect DEF ReadRaced, Verdicts, LocalsTyped, mount, reading, Goto, TypeOK
<1>4. ASSUME NEW c \in Claims, ReadAbsent(c) PROVE TypeOK'
  BY <1>4 DEF ReadAbsent, mount, reading, Goto, TypeOK
<1>5. ASSUME NEW c \in Claims, ScanSound(c) PROVE TypeOK'
  BY <1>5, FinishEffect DEF ScanSound, Verdicts, LocalsTyped, mount, reading, Goto, TypeOK
<1>6. ASSUME NEW c \in Claims, ScanAdvanced(c) PROVE TypeOK'
  <2>1. CASE Finish(c, "corrupt")
    BY <1>6, <2>1, FinishEffect DEF ScanAdvanced, mount, LocalsTyped, Verdicts, TypeOK
  <2>2. CASE /\ ~LastTraversal(c) /\ tries' = [tries EXCEPT ![c] = @ + 1]
             /\ depth' = [depth EXCEPT ![c] = 0] /\ Goto(c, "walk")
             /\ UNCHANGED <<sawFresh, why, rounds, pub, verdict>>
    <3>1. tries' \in [Claims -> 0..(TraversalAttempts - 1)]
      <4>1. tries[c] + 1 \in 0..(TraversalAttempts - 1)
        BY <2>2, BoundsAssumption DEF LastTraversal, TypeOK
      <4>q. QED
        BY <2>2, <4>1 DEF TypeOK
    <3>2. depth' \in [Claims -> 0..MaxGenerations]
      BY <2>2, BoundsAssumption DEF TypeOK
    <3>3. pc' = [pc EXCEPT ![c] = "walk"]
      BY <2>2 DEF Goto
    <3>q. QED
      BY <1>6, <2>2, <3>1, <3>2, <3>3 DEF ScanAdvanced, mount, TypeOK
  <2>q. QED
    BY <1>6, <2>1, <2>2 DEF ScanAdvanced
<1>7. ASSUME NEW c \in Claims, Glob(c) PROVE TypeOK'
  BY <1>7, WalkEffect DEF Glob, LocalsTyped, mount, reading, TypeOK
<1>8. ASSUME NEW c \in Claims, Weigh(c) PROVE TypeOK'
  BY <1>8, FinishEffect DEF Weigh, Verdicts, LocalsTyped, mount, reading, Goto, TypeOK
<1>9. ASSUME NEW c \in Claims, Install(c) PROVE TypeOK'
  BY <1>9 DEF Install, mount, reading, Goto, TypeOK
<1>10. ASSUME NEW c \in Claims, Collide(c) PROVE TypeOK'
  <2>1. CASE Finish(c, "transient")
    BY <1>10, <2>1, FinishEffect DEF Collide, mount, LocalsTyped, Verdicts, TypeOK
  <2>2. CASE /\ rounds[c] + 1 < AcquireAttempts
             /\ rounds' = [rounds EXCEPT ![c] = @ + 1] /\ Walk(c, "acquire")
             /\ UNCHANGED <<pub, verdict>>
    <3>1. LocalsTyped'
      BY <2>2, WalkEffect
    <3>2. rounds' \in [Claims -> 0..(AcquireAttempts - 1)]
      BY <2>2, BoundsAssumption DEF TypeOK
    <3>q. QED
      BY <1>10, <2>2, <3>1, <3>2 DEF Collide, mount, LocalsTyped, TypeOK
  <2>q. QED
    BY <1>10, <2>1, <2>2 DEF Collide
<1>11. ASSUME NEW c \in Claims, CheckFence(c) PROVE TypeOK'
  BY <1>11, FinishEffect DEF CheckFence, Verdicts, LocalsTyped, mount, reading, Goto, TypeOK
<1>12. ASSUME NEW c \in Claims, RenameTarget(c) PROVE TypeOK'
  BY <1>12 DEF RenameTarget, mount, reading, Goto, TypeOK
<1>13. ASSUME NEW c \in Claims, EnterAccept(c) PROVE TypeOK'
  BY <1>13, WalkEffect DEF EnterAccept, LocalsTyped, mount, reading, TypeOK
<1>14. ASSUME NEW c \in Claims, Commit(c) PROVE TypeOK'
  BY <1>14, WalkEffect DEF Commit, LocalsTyped, mount, reading, TypeOK
<1>15. ASSUME NEW c \in Claims, Release(c) PROVE TypeOK'
  BY <1>15 DEF Release, mount, reading, Goto, TypeOK
<1>16. ASSUME NEW c \in Claims, HeartbeatCheck(c) PROVE TypeOK'
  BY <1>16 DEF HeartbeatCheck, mount, reading, Goto, TypeOK
<1>17. ASSUME NEW c \in Claims, HeartbeatWrite(c) PROVE TypeOK'
  BY <1>17 DEF HeartbeatWrite, mount, reading, Goto, TypeOK
<1>18. ASSUME NEW c \in Claims, Retire(c) PROVE TypeOK'
  BY <1>18 DEF Retire, mount, reading, Goto, TypeOK
<1>19. ASSUME NEW c \in Claims, Expire(c) PROVE TypeOK'
  BY <1>19 DEF Expire, mount, reading, Goto, TypeOK
<1>20. ASSUME NEW c \in Claims, Stall(c) PROVE TypeOK'
  BY <1>20 DEF Stall, mount, reading, Goto, TypeOK
<1>21. ASSUME NEW c \in Claims, Crash(c) PROVE TypeOK'
  BY <1>21, ForgetEffect DEF Crash, mount, reading, Goto, TypeOK
<1>q. QED
  BY <1>0, <1>1, <1>2, <1>3, <1>4, <1>5, <1>6, <1>7, <1>8, <1>9, <1>10, <1>11, <1>12, <1>13, <1>14, <1>15, <1>16, <1>17, <1>18, <1>19, <1>20, <1>21, <1>22 DEF Next, Step, Heartbeat, Environment

--------------------------------------------------------------------------------
(* How a step of one attempt moves the mounts, as the other attempts see it. *)

SharedStep(c) ==
  /\ \/ chain' = chain
     \/ chain' = Append(chain, c) /\ accepted = NoClaim /\ accepted' = NoClaim
  /\ accepted # NoClaim => accepted' = accepted
  /\ released \subseteq released' /\ targets \subseteq targets'
  /\ live' \subseteq live \cup {c}
  /\ Owns(c) => live' \subseteq live

Moves(c) == OthersStay(c) /\ SharedStep(c)

LEMMA StepMoves ==
  ASSUME TypeOK, \A c \in Claims : OwnerIsInstalled(c), NEW c \in Claims,
         Step(c) \/ Heartbeat(c) \/ Environment(c)
  PROVE  Moves(c)
<1>1. CASE Start(c)
  BY <1>1, WalkEffect DEF Start, OwnerIsInstalled, NotYetOwner, mount, reading, TypeOK, Moves, OthersStay, SharedStep
<1>2. CASE ReadGeneration(c)
  <2>1. pc[c] = "walk" /\ UNCHANGED <<chain, accepted, released, targets, live>>
    BY <1>2 DEF ReadGeneration, mount
  <2>2. CASE /\ depth' = [depth EXCEPT ![c] = @ + 1]
             /\ UNCHANGED <<tries, pc, why, rounds, pub, verdict>>
    BY <2>1, <2>2 DEF TypeOK, Moves, OthersStay, SharedStep
  <2>3. CASE Finish(c, "corrupt")
    BY <2>1, <2>3, FinishEffect DEF Verdicts, TypeOK, Moves, OthersStay, SharedStep
  <2>q. QED
    BY <1>2, <2>2, <2>3 DEF ReadGeneration
<1>3. CASE ReadAcceptance(c)
  BY <1>3, FinishEffect DEF ReadAcceptance, Verdicts, mount, reading, Goto, TypeOK, Moves, OthersStay, SharedStep
<1>22. CASE ReadRaced(c)
  BY <1>22, FinishEffect DEF ReadRaced, Verdicts, mount, reading, Goto, TypeOK, Moves, OthersStay, SharedStep
<1>4. CASE ReadAbsent(c)
  BY <1>4 DEF ReadAbsent, mount, reading, Goto, TypeOK, Moves, OthersStay, SharedStep
<1>5. CASE ScanSound(c)
  BY <1>5, FinishEffect DEF ScanSound, Verdicts, mount, reading, Goto, TypeOK, Moves, OthersStay, SharedStep
<1>6. CASE ScanAdvanced(c)
  BY <1>6, FinishEffect DEF ScanAdvanced, Verdicts, mount, reading, Goto, TypeOK, Moves, OthersStay, SharedStep
<1>7. CASE Glob(c)
  BY <1>7, WalkEffect DEF Glob, mount, reading, TypeOK, Moves, OthersStay, SharedStep
<1>8. CASE Weigh(c)
  BY <1>8, FinishEffect DEF Weigh, Verdicts, mount, reading, Goto, TypeOK, Moves, OthersStay, SharedStep
<1>9. CASE Install(c)
  BY <1>9 DEF Install, SuccessorWins, SlotFree, mount, reading, Goto, TypeOK, Moves, OthersStay, SharedStep
<1>10. CASE Collide(c)
  <2>1. pc[c] = "install" /\ UNCHANGED <<chain, accepted, released, targets, live>>
    BY <1>10 DEF Collide, mount
  <2>2. CASE rounds' = [rounds EXCEPT ![c] = @ + 1] /\ Walk(c, "acquire") /\ UNCHANGED <<pub, verdict>>
    <3>1. /\ pc'[c] = "walk" /\ why'[c] = "acquire" /\ depth'[c] = 0 /\ tries'[c] = 0
          /\ \A d \in Claims : d # c =>
                pc'[d] = pc[d] /\ why'[d] = why[d] /\ depth'[d] = depth[d] /\ tries'[d] = tries[d]
      BY <2>2, WalkEffect
    <3>q. QED
      BY <1>10, <2>1, <2>2, <3>1 DEF TypeOK, Moves, OthersStay, SharedStep
  <2>3. CASE Finish(c, "transient")
    BY <1>10, <2>1, <2>3, FinishEffect DEF Verdicts, TypeOK, Moves, OthersStay, SharedStep
  <2>q. QED
    BY <1>10, <2>2, <2>3 DEF Collide
<1>11. CASE CheckFence(c)
  BY <1>11, FinishEffect DEF CheckFence, Verdicts, mount, reading, Goto, TypeOK, Moves, OthersStay, SharedStep
<1>12. CASE RenameTarget(c)
  BY <1>12 DEF RenameTarget, mount, reading, Goto, TypeOK, Moves, OthersStay, SharedStep
<1>13. CASE EnterAccept(c)
  BY <1>13, WalkEffect DEF EnterAccept, mount, reading, TypeOK, Moves, OthersStay, SharedStep
<1>14. CASE Commit(c)
  <2>1. /\ Walk(c, "confirm") /\ UNCHANGED <<chain, released, targets, live, pub, verdict>>
        /\ accepted # NoClaim => accepted' = accepted
    BY <1>14 DEF Commit, AcceptanceWins, SlotFree
  <2>2. OthersStay(c)
    BY <2>1, WalkEffect DEF OthersStay
  <2>q. QED
    BY <2>1, <2>2 DEF Moves, SharedStep
<1>15. CASE Release(c)
  BY <1>15 DEF Release, mount, reading, Goto, TypeOK, Moves, OthersStay, SharedStep
<1>16. CASE HeartbeatCheck(c)
  BY <1>16 DEF HeartbeatCheck, mount, reading, Goto, TypeOK, Moves, OthersStay, SharedStep
<1>17. CASE HeartbeatWrite(c)
  BY <1>17 DEF HeartbeatWrite, mount, reading, Goto, TypeOK, Moves, OthersStay, SharedStep
<1>18. CASE Retire(c)
  BY <1>18 DEF Retire, mount, reading, Goto, TypeOK, Moves, OthersStay, SharedStep
<1>19. CASE Expire(c)
  BY <1>19 DEF Expire, mount, reading, Goto, TypeOK, Moves, OthersStay, SharedStep
<1>20. CASE Stall(c)
  BY <1>20 DEF Stall, mount, reading, Goto, TypeOK, Moves, OthersStay, SharedStep
<1>21. CASE Crash(c)
  BY <1>21, ForgetEffect DEF Crash, mount, reading, Goto, TypeOK, Moves, OthersStay, SharedStep
<1>q. QED
  BY <1>1, <1>2, <1>3, <1>4, <1>5, <1>6, <1>7, <1>8, <1>9, <1>10, <1>11, <1>12, <1>13, <1>14, <1>15, <1>16, <1>17, <1>18, <1>19, <1>20, <1>21, <1>22 DEF Step, Heartbeat, Environment

\* The chain only grows at its end, and only by c.
LEMMA ChainGrows ==
  ASSUME TypeOK, NEW c \in Claims, SharedStep(c), TypeOK'
  PROVE  /\ Len(chain) \in Nat /\ Len(chain') \in Nat /\ Len(chain') >= Len(chain)
         /\ \A i \in 1..Len(chain) : chain'[i] = chain[i]
         /\ Outcomes \in Nat /\ Outcomes' \in Nat /\ Outcomes' >= Outcomes
         /\ \A d \in Claims : Owns(d) => Owns(d)'
         /\ \A d \in Claims : d # c /\ Owns(d)' => Owns(d)
<1>1. /\ Len(chain) \in Nat /\ Len(chain') \in Nat /\ Len(chain') >= Len(chain)
      /\ \A i \in 1..Len(chain) : chain'[i] = chain[i]
      /\ \A i \in 1..Len(chain') : i \in 1..Len(chain) \/ chain'[i] = c
  <2>1. CASE chain' = chain
    BY <2>1 DEF TypeOK
  <2>2. CASE chain' = Append(chain, c)
    <3>1. chain \in Seq(Claims)
      BY DEF TypeOK
    <3>q. QED
      BY <2>2, <3>1
  <2>q. QED
    BY <2>1, <2>2 DEF SharedStep
<1>2. Outcomes \in Nat /\ Outcomes' \in Nat /\ Outcomes' >= Outcomes
  BY <1>1 DEF SharedStep, Outcomes, TypeOK
<1>q. QED
  BY <1>1, <1>2 DEF Owns

\* No step of c disturbs what is known of another attempt.
LEMMA OthersKeep ==
  ASSUME TypeOK, TypeOK', NEW c \in Claims, Moves(c), NEW d \in Claims, d # c,
         AttemptInv(d), \A e \in Claims : Owns(e) => ~(e \in live' /\ e \notin live)
  PROVE  AttemptInv(d)'
<1> USE DEF Moves, OthersStay
<1>a. /\ Len(chain) \in Nat /\ Len(chain') \in Nat /\ Len(chain') >= Len(chain)
      /\ \A i \in 1..Len(chain) : chain'[i] = chain[i]
  BY ChainGrows
<1>b. Outcomes \in Nat /\ Outcomes' \in Nat /\ Outcomes' >= Outcomes
  BY ChainGrows
<1>c. depth[d] \in Nat /\ tries[d] \in Nat
  BY DEF TypeOK
<1>d. Owns(d) <=> Owns(d)'
  BY ChainGrows
<1>1. OwnerIsInstalled(d)'
  BY <1>d DEF AttemptInv, OwnerIsInstalled, NotYetOwner
<1>2. WalkIsPrefix(d)'
  BY <1>a, <1>c DEF AttemptInv, WalkIsPrefix
<1>3. RivalIsRight(d)'
  <2> SUFFICES ASSUME pc[d] = "install", depth[d] > 0
               PROVE  chain'[depth[d]] \in released' \/ chain'[depth[d]] \notin live'
    BY DEF RivalIsRight
  <2>0. depth[d] \in 1..Len(chain)
    BY <1>a, <1>c DEF AttemptInv, WalkIsPrefix
  <2>1. depth[d] \in 1..Len(chain) /\ chain[depth[d]] \in Claims
    <3>1. chain \in Seq(Claims)
      BY DEF TypeOK
    <3>q. QED
      BY <2>0, <3>1
  <2>2. chain'[depth[d]] = chain[depth[d]] /\ Owns(chain[depth[d]])
    BY <1>a, <2>1 DEF Owns
  <2>q. QED
    BY <2>1, <2>2 DEF AttemptInv, RivalIsRight, SharedStep
<1>4. PublicationIsVisible(d)'
  BY DEF AttemptInv, PublicationIsVisible, SharedStep
<1>5. TriesAreOutrun(d)'
  BY <1>b, <1>c DEF AttemptInv, TriesAreOutrun
<1>6. CorruptionIsOutrun(d)'
  BY <1>a, <1>b, BoundsAssumption DEF AttemptInv, CorruptionIsOutrun
<1>q. QED
  BY <1>1, <1>2, <1>3, <1>4, <1>5, <1>6 DEF AttemptInv
--------------------------------------------------------------------------------
(* What a step keeps of the attempt that takes it. *)

LEMMA FinishKeeps ==
  ASSUME TypeOK, TypeOK', NEW c \in Claims, NEW v \in Verdicts, Finish(c, v),
         chain' = chain, accepted' = accepted, AttemptInv(c),
         v = "corrupt" => Outcomes >= TraversalAttempts \/ Len(chain) > MaxGenerations
  PROVE  AttemptInv(c)'
<1>1. /\ pc'[c] \in {"release", "done"} /\ (pc'[c] = "release" => Owns(c))
      /\ depth'[c] = 0 /\ tries'[c] = 0 /\ pub'[c] = NoClaim /\ verdict'[c] = v
  BY FinishEffect
<1>2. Owns(c)' <=> Owns(c)
  BY DEF Owns
<1>3. Outcomes' = Outcomes /\ Outcomes \in Nat /\ Len(chain) \in Nat
  BY DEF Outcomes, TypeOK
<1>q. QED
  BY <1>1, <1>2, <1>3 DEF AttemptInv, OwnerIsInstalled, NotYetOwner, WalkIsPrefix,
     RivalIsRight, PublicationIsVisible, TriesAreOutrun, CorruptionIsOutrun

LEMMA WalkKeeps ==
  ASSUME TypeOK, TypeOK', NEW c \in Claims,
         NEW w \in {"recover", "acquire", "accept", "confirm"}, Walk(c, w),
         chain' = chain, accepted = NoClaim \/ accepted' = accepted,
         verdict' = verdict, AttemptInv(c),
         w \in {"recover", "acquire"} => ~Owns(c),
         pub'[c] # NoClaim => pub'[c] \in targets'
  PROVE  AttemptInv(c)'
<1>1. pc'[c] = "walk" /\ why'[c] = w /\ depth'[c] = 0 /\ tries'[c] = 0
  BY WalkEffect
<1>2. Owns(c)' <=> Owns(c)
  BY DEF Owns
<1>3. Outcomes' >= Outcomes /\ Outcomes \in Nat /\ Outcomes' \in Nat /\ Len(chain) \in Nat
  BY DEF Outcomes, TypeOK
<1>q. QED
  BY <1>1, <1>2, <1>3, BoundsAssumption DEF AttemptInv, OwnerIsInstalled, NotYetOwner,
     WalkIsPrefix, RivalIsRight, PublicationIsVisible, TriesAreOutrun, CorruptionIsOutrun

\* An attempt that moves on without touching the mounts or its other locals.
Advances(c, l) == /\ pc' = [pc EXCEPT ![c] = l]
                  /\ UNCHANGED <<chain, accepted, released, live, why, depth, tries,
                                 pub, verdict>>
                  /\ targets \subseteq targets'

LEMMA AdvanceKeeps ==
  ASSUME TypeOK, TypeOK', NEW c \in Claims, NEW l, Advances(c, l), AttemptInv(c),
         l \in {"idle", "glob", "weigh", "install"} => NotYetOwner(c),
         l = "walk" => FALSE,
         l = "scan" => pc[c] = "walk" /\ tries[c] <= depth[c],
         l \in {"own", "rename", "lock", "release"} => Owns(c),
         l = "weigh" => depth[c] > 0,
         l = "commit" => depth[c] > 0 /\ chain[depth[c]] = pub[c],
         l = "install" /\ depth[c] > 0 =>
            chain[depth[c]] \in released \/ chain[depth[c]] \notin live,
         l = "lock" => c \in targets'
  PROVE  AttemptInv(c)'
<1>1. pc'[c] = l /\ \A d \in Claims : why'[d] = why[d]
  BY DEF Advances, TypeOK
<1>2. Owns(c)' <=> Owns(c)
  BY DEF Owns, Advances
<1>3. Outcomes' = Outcomes
  BY DEF Outcomes, Advances
<1>4. OwnerIsInstalled(c)'
  BY <1>1, <1>2 DEF AttemptInv, OwnerIsInstalled, NotYetOwner
<1>5. WalkIsPrefix(c)' /\ RivalIsRight(c)'
  BY <1>1 DEF AttemptInv, WalkIsPrefix, RivalIsRight, Advances
<1>6. PublicationIsVisible(c)'
  BY <1>1 DEF AttemptInv, PublicationIsVisible, Advances
<1>7. TriesAreOutrun(c)' /\ CorruptionIsOutrun(c)'
  BY <1>1, <1>3 DEF AttemptInv, TriesAreOutrun, CorruptionIsOutrun, Advances
<1>q. QED
  BY <1>4, <1>5, <1>6, <1>7 DEF AttemptInv

LEMMA OwnStep ==
  ASSUME TypeOK, TypeOK', NEW c \in Claims, AttemptInv(c),
         Step(c) \/ Heartbeat(c) \/ Environment(c)
  PROVE  AttemptInv(c)'
<1>t. /\ Len(chain) \in Nat /\ depth[c] \in Nat /\ tries[c] \in Nat
      /\ MaxGenerations \in Nat /\ TraversalAttempts \in Nat
      /\ Outcomes \in Nat /\ Outcomes >= Len(chain)
  <2>1. Len(chain) \in Nat /\ depth[c] \in Nat /\ tries[c] \in Nat
    BY DEF TypeOK
  <2>2. Outcomes \in Nat /\ Outcomes >= Len(chain)
    BY <2>1 DEF Outcomes
  <2>q. QED
    BY <2>1, <2>2, BoundsAssumption
<1>1. CASE Start(c)
  <2>1. ~Owns(c) /\ (pub[c] # NoClaim => pub[c] \in targets)
    BY <1>1 DEF Start, AttemptInv, OwnerIsInstalled, NotYetOwner, PublicationIsVisible
  <2>q. QED
    BY <1>1, <2>1, WalkKeeps DEF Start, mount
<1>2. CASE ReadGeneration(c)
  <2>1. CASE depth[c] < MaxGenerations /\ depth' = [depth EXCEPT ![c] = @ + 1]
             /\ UNCHANGED <<tries, pc, why, rounds, pub, verdict>>
    <3>1. depth'[c] = depth[c] + 1 /\ pc[c] = "walk" /\ depth[c] < Len(chain)
      BY <1>2, <2>1 DEF ReadGeneration, TypeOK
    <3>2. UNCHANGED <<chain, accepted, released, targets, live>>
      BY <1>2 DEF ReadGeneration, mount
    <3>q. QED
      BY <1>t, <2>1, <3>1, <3>2 DEF AttemptInv, OwnerIsInstalled, NotYetOwner, Owns,
         WalkIsPrefix, RivalIsRight, PublicationIsVisible, TriesAreOutrun,
         CorruptionIsOutrun, Outcomes
  <2>2. CASE depth[c] = MaxGenerations /\ Finish(c, "corrupt")
    BY <1>2, <1>t, <2>2, FinishKeeps DEF ReadGeneration, mount, Verdicts
  <2>q. QED
    BY <1>2, <2>1, <2>2 DEF ReadGeneration
<1>3. CASE ReadAcceptance(c)
  BY <1>3, FinishKeeps DEF ReadAcceptance, mount, Verdicts
<1>18. CASE ReadRaced(c)
  BY <1>18, FinishKeeps DEF ReadRaced, mount, Verdicts
<1>4. CASE ReadAbsent(c)
  <2>1. tries[c] <= depth[c]
    BY <1>4 DEF ReadAbsent, AttemptInv, TriesAreOutrun, Outcomes
  <2>2. Advances(c, "scan")
    BY <1>4 DEF ReadAbsent, Advances, Goto, mount, reading
  <2>q. QED
    BY <1>4, <2>1, <2>2, AdvanceKeeps DEF ReadAbsent
<1>5. CASE ScanSound(c)
  <2>1. CASE Finish(c, "transient")
    BY <1>5, <2>1, FinishKeeps DEF ScanSound, mount, Verdicts
  <2>2. CASE UNCHANGED <<why, reading, rounds, pub, verdict>>
             /\ why[c] = "recover" /\ Goto(c, "glob")
    <3>1. Advances(c, "glob")
      BY <1>5, <2>2 DEF ScanSound, Advances, Goto, mount, reading
    <3>2. NotYetOwner(c)
      BY <1>5, <2>2 DEF ScanSound, NotYetOwner
    <3>q. QED
      BY <3>1, <3>2, AdvanceKeeps
  <2>3. CASE UNCHANGED <<why, reading, rounds, pub, verdict>> /\ why[c] = "acquire"
             /\ Goto(c, IF depth[c] = 0 THEN "install" ELSE "weigh")
    <3>1. NotYetOwner(c)
      BY <1>5, <2>3 DEF ScanSound, NotYetOwner
    <3>2. CASE depth[c] = 0
      <4>1. Advances(c, "install")
        BY <1>5, <2>3, <3>2 DEF ScanSound, Advances, Goto, mount, reading
      <4>q. QED
        BY <3>1, <3>2, <4>1, AdvanceKeeps
    <3>3. CASE depth[c] # 0
      <4>1. Advances(c, "weigh")
        BY <1>5, <2>3, <3>3 DEF ScanSound, Advances, Goto, mount, reading
      <4>q. QED
        BY <1>t, <3>1, <3>3, <4>1, AdvanceKeeps
    <3>q. QED
      BY <3>2, <3>3
  <2>4. CASE UNCHANGED <<why, reading, rounds, pub, verdict>> /\ why[c] = "accept"
             /\ PublicationIsTail(c) /\ Goto(c, "commit")
    <3>1. Advances(c, "commit")
      BY <1>5, <2>4 DEF ScanSound, Advances, Goto, mount, reading
    <3>q. QED
      BY <2>4, <3>1, AdvanceKeeps DEF PublicationIsTail
  <2>q. QED
    BY <1>5, <2>1, <2>2, <2>3, <2>4 DEF ScanSound
<1>6. CASE ScanAdvanced(c)
  <2>0. tries[c] + 1 <= Outcomes
    BY <1>6, <1>t DEF ScanAdvanced, SlotFree, AttemptInv, WalkIsPrefix, TriesAreOutrun, Outcomes
  <2>1. CASE LastTraversal(c) /\ Finish(c, "corrupt")
    <3>1. Outcomes >= TraversalAttempts
      BY <1>t, <2>0, <2>1 DEF LastTraversal
    <3>q. QED
      BY <1>6, <2>1, <3>1, FinishKeeps DEF ScanAdvanced, mount, Verdicts
  <2>2. CASE /\ ~LastTraversal(c) /\ tries' = [tries EXCEPT ![c] = @ + 1]
             /\ depth' = [depth EXCEPT ![c] = 0] /\ Goto(c, "walk")
             /\ UNCHANGED <<sawFresh, why, rounds, pub, verdict>>
    <3>1. /\ tries'[c] = tries[c] + 1 /\ depth'[c] = 0 /\ pc'[c] = "walk"
          /\ why'[c] = why[c] /\ pub'[c] = pub[c] /\ verdict'[c] = verdict[c]
          /\ pc[c] = "scan" /\ UNCHANGED <<chain, accepted, released, targets, live>>
      BY <1>6, <2>2 DEF ScanAdvanced, Goto, TypeOK, mount
    <3>q. QED
      BY <1>t, <2>0, <3>1 DEF AttemptInv, OwnerIsInstalled, NotYetOwner, Owns,
         WalkIsPrefix, RivalIsRight, PublicationIsVisible, TriesAreOutrun,
         CorruptionIsOutrun, Outcomes
  <2>q. QED
    BY <1>6, <2>1, <2>2 DEF ScanAdvanced
<1>7. CASE Glob(c)
  <2>1. ~Owns(c) /\ (pub[c] # NoClaim => pub[c] \in targets)
    BY <1>7 DEF Glob, AttemptInv, OwnerIsInstalled, NotYetOwner, PublicationIsVisible
  <2>2. CASE chain[depth[c]] \in targets /\ pub' = [pub EXCEPT ![c] = chain[depth[c]]]
             /\ Walk(c, "accept")
    <3>1. pub'[c] \in targets
      BY <2>2 DEF TypeOK
    <3>q. QED
      BY <1>7, <2>2, <3>1, WalkKeeps DEF Glob, mount
  <2>3. CASE UNCHANGED pub /\ Walk(c, "acquire")
    BY <1>7, <2>1, <2>3, WalkKeeps DEF Glob, mount
  <2>q. QED
    BY <1>7, <2>2, <2>3 DEF Glob
<1>8. CASE Weigh(c)
  <2>1. CASE Finish(c, "transient")
    BY <1>8, <2>1, FinishKeeps DEF Weigh, mount, Verdicts
  <2>2. CASE ~Active(chain[depth[c]], sawFresh[c]) /\ Goto(c, "install")
             /\ UNCHANGED <<why, reading, rounds, pub, verdict>>
    <3>1. Advances(c, "install")
      BY <1>8, <2>2 DEF Weigh, Advances, Goto, mount, reading
    <3>2. NotYetOwner(c)
      BY <1>8 DEF Weigh, NotYetOwner
    <3>3. chain[depth[c]] \in released \/ chain[depth[c]] \notin live
      BY <2>2 DEF Active
    <3>q. QED
      BY <3>1, <3>2, <3>3, AdvanceKeeps
  <2>q. QED
    BY <1>8, <2>1, <2>2 DEF Weigh
<1>9. CASE Install(c)
  <2>1. /\ chain' = Append(chain, c) /\ accepted' = accepted /\ targets' = targets
        /\ depth[c] = Len(chain) /\ pc'[c] = "own"
        /\ UNCHANGED <<why, depth, tries, pub, verdict>>
    BY <1>9 DEF Install, SuccessorWins, SlotFree, Goto, reading, TypeOK
  <2>2. chain \in Seq(Claims)
    BY DEF TypeOK
  <2>3. Len(chain') = Len(chain) + 1 /\ chain'[Len(chain) + 1] = c
    BY <2>1, <2>2
  <2>4. Owns(c)'
    BY <1>t, <2>3 DEF Owns
  <2>5. Outcomes' = Outcomes + 1
    BY <2>1, <2>3, <1>t DEF Outcomes
  <2>q. QED
    BY <1>t, <2>1, <2>3, <2>4, <2>5 DEF AttemptInv, OwnerIsInstalled, NotYetOwner,
       WalkIsPrefix, RivalIsRight, PublicationIsVisible, TriesAreOutrun, CorruptionIsOutrun
<1>10. CASE Collide(c)
  <2>1. ~Owns(c) /\ (pub[c] # NoClaim => pub[c] \in targets)
    BY <1>10 DEF Collide, AttemptInv, OwnerIsInstalled, NotYetOwner, PublicationIsVisible
  <2>2. CASE Finish(c, "transient")
    BY <1>10, <2>2, FinishKeeps DEF Collide, mount, Verdicts
  <2>3. CASE Walk(c, "acquire") /\ UNCHANGED <<pub, verdict>>
    BY <1>10, <2>1, <2>3, WalkKeeps DEF Collide, mount
  <2>q. QED
    BY <1>10, <2>2, <2>3 DEF Collide
<1>11. CASE CheckFence(c)
  <2>1. CASE Finish(c, "revoked")
    BY <1>11, <2>1, FinishKeeps DEF CheckFence, mount, Verdicts
  <2>2. CASE Goto(c, "rename") /\ UNCHANGED <<why, reading, rounds, pub, verdict>>
    <3>1. Advances(c, "rename")
      BY <1>11, <2>2 DEF CheckFence, Advances, Goto, mount, reading
    <3>2. Owns(c)
      BY <1>11 DEF CheckFence, AttemptInv, OwnerIsInstalled
    <3>q. QED
      BY <3>1, <3>2, AdvanceKeeps
  <2>q. QED
    BY <1>11, <2>1, <2>2 DEF CheckFence
<1>12. CASE RenameTarget(c)
  <2>1. Advances(c, "lock") /\ c \in targets'
    BY <1>12 DEF RenameTarget, Advances, Goto, reading
  <2>2. Owns(c)
    BY <1>12 DEF RenameTarget, AttemptInv, OwnerIsInstalled
  <2>q. QED
    BY <2>1, <2>2, AdvanceKeeps
<1>13. CASE EnterAccept(c)
  <2>1. pub'[c] \in targets
    BY <1>13 DEF EnterAccept, AttemptInv, PublicationIsVisible, TypeOK
  <2>q. QED
    BY <1>13, <2>1, WalkKeeps DEF EnterAccept, mount
<1>14. CASE Commit(c)
  <2>1. pub[c] # NoClaim => pub[c] \in targets
    BY DEF AttemptInv, PublicationIsVisible
  <2>2. accepted = NoClaim \/ accepted' = accepted
    BY <1>14 DEF Commit, AcceptanceWins, SlotFree
  <2>q. QED
    BY <1>14, <2>1, <2>2, WalkKeeps DEF Commit
<1>15. CASE Release(c)
  <2>1. /\ pc'[c] = "done" /\ Outcomes' = Outcomes
        /\ UNCHANGED <<chain, targets, why, depth, tries, pub, verdict>>
    BY <1>15 DEF Release, Goto, reading, TypeOK, Outcomes
  <2>q. QED
    BY <2>1 DEF AttemptInv, OwnerIsInstalled, NotYetOwner, WalkIsPrefix, RivalIsRight,
       PublicationIsVisible, TriesAreOutrun, CorruptionIsOutrun
<1>16. CASE HeartbeatCheck(c) \/ HeartbeatWrite(c) \/ Retire(c) \/ Expire(c) \/ Stall(c)
  <2>1. /\ UNCHANGED <<chain, accepted, released, targets, pc, why, depth, tries, pub, verdict>>
        /\ live' \subseteq live
    BY <1>16 DEF HeartbeatCheck, HeartbeatWrite, Retire, Expire, Stall, mount, reading
  <2>q. QED
    BY <2>1 DEF AttemptInv, OwnerIsInstalled, NotYetOwner, Owns, WalkIsPrefix, RivalIsRight,
       PublicationIsVisible, TriesAreOutrun, CorruptionIsOutrun, Outcomes
<1>17. CASE Crash(c)
  <2>1. /\ pc'[c] = "dead" /\ depth'[c] = 0 /\ tries'[c] = 0 /\ pub'[c] = NoClaim
        /\ Outcomes' = Outcomes /\ UNCHANGED <<chain, verdict>>
    <3>1. pc'[c] = "dead" /\ UNCHANGED <<chain, accepted, verdict>> /\ Forget(c)
      BY <1>17 DEF Crash, Goto, mount, TypeOK
    <3>q. QED
      BY <3>1, ForgetEffect DEF Outcomes
  <2>q. QED
    BY <1>t, <2>1 DEF AttemptInv, OwnerIsInstalled, NotYetOwner, WalkIsPrefix, RivalIsRight,
       PublicationIsVisible, TriesAreOutrun, CorruptionIsOutrun
<1>q. QED
  BY <1>1, <1>2, <1>3, <1>4, <1>5, <1>6, <1>7, <1>8, <1>9, <1>10, <1>11, <1>12, <1>13,
     <1>14, <1>15, <1>16, <1>17, <1>18 DEF Step, Heartbeat, Environment

--------------------------------------------------------------------------------
(* The invariant is inductive. *)

LEMMA InitInv == Init => IInv
<1> SUFFICES ASSUME Init PROVE IInv
  OBVIOUS
<1>1. TypeOK
  BY TypeInit
<1>2. Len(chain) = 0 /\ accepted = NoClaim /\ Outcomes = 0
  BY DEF Init, Outcomes
<1>3. ASSUME NEW c \in Claims PROVE AttemptInv(c)
  BY <1>2 DEF Init, AttemptInv, OwnerIsInstalled, NotYetOwner, Owns, WalkIsPrefix,
     RivalIsRight, PublicationIsVisible, TriesAreOutrun, CorruptionIsOutrun
<1>4. AcceptedIsCurrent /\ SuccessionIsSafe
  BY <1>2 DEF AcceptedIsCurrent, SuccessionIsSafe
<1>q. QED
  BY <1>1, <1>3, <1>4 DEF IInv

\* Only the acceptance race changes the acceptance, and only onto the tail.
LEMMA AcceptedStep ==
  ASSUME IInv, TypeOK', NEW c \in Claims, Step(c) \/ Heartbeat(c) \/ Environment(c)
  PROVE  AcceptedIsCurrent'
<1>t. TypeOK /\ AttemptInv(c) /\ AcceptedIsCurrent /\ chain \in Seq(Claims)
  BY DEF IInv, TypeOK
<1>m. SharedStep(c)
  BY <1>t, StepMoves DEF IInv, AttemptInv, Moves
<1>1. CASE accepted # NoClaim
  BY <1>1, <1>m, <1>t DEF SharedStep, AcceptedIsCurrent
<1>2. CASE accepted = NoClaim /\ accepted' # NoClaim
  <2>1. Commit(c)
    BY <1>2 DEF Step, Heartbeat, Environment, Start, ReadGeneration, ReadAcceptance,
       ReadRaced, ReadAbsent, ScanSound, ScanAdvanced, Glob, Weigh, Install, Collide, CheckFence,
       RenameTarget, EnterAccept, Release, HeartbeatCheck, HeartbeatWrite, Retire,
       Expire, Stall, Crash, mount
  <2>2. accepted' = pub[c] /\ depth[c] = Len(chain) /\ UNCHANGED <<chain, targets>>
    BY <1>2, <2>1 DEF Commit, AcceptanceWins, SlotFree
  <2>3. depth[c] > 0 /\ chain[depth[c]] = pub[c] /\ pub[c] \in targets
    BY <1>2, <1>t, <2>1, <2>2 DEF Commit, AttemptInv, WalkIsPrefix, PublicationIsVisible
  <2>q. QED
    BY <2>2, <2>3 DEF AcceptedIsCurrent
<1>3. CASE accepted = NoClaim /\ accepted' = NoClaim
  BY <1>3 DEF AcceptedIsCurrent
<1>q. QED
  BY <1>1, <1>2, <1>3

\* An owner that was inactive when it was succeeded stays inactive, and a rival
\* that installs now still faces an inactive owner.
LEMMA SuccessionStep ==
  ASSUME IInv, TypeOK', NEW c \in Claims, Step(c) \/ Heartbeat(c) \/ Environment(c)
  PROVE  SuccessionIsSafe'
<1>t. TypeOK /\ AttemptInv(c) /\ SuccessionIsSafe /\ chain \in Seq(Claims)
  BY DEF IInv, TypeOK
<1>m. SharedStep(c)
  BY <1>t, StepMoves DEF IInv, AttemptInv, Moves
<1>l. \A i \in 1..Len(chain) : chain[i] \in live' => chain[i] \in live
  <2> SUFFICES ASSUME NEW i \in 1..Len(chain), chain[i] \in live'
               PROVE  chain[i] \in live
    OBVIOUS
  <2>1. CASE chain[i] = c
    BY <1>m, <2>1 DEF SharedStep, Owns
  <2>2. CASE chain[i] # c
    BY <1>m, <2>2 DEF SharedStep
  <2>q. QED
    BY <2>1, <2>2
<1>1. CASE chain' = chain
  BY <1>1, <1>m, <1>l, <1>t DEF SharedStep, SuccessionIsSafe
<1>2. CASE chain' # chain
  <2>1. Install(c)
    BY <1>2 DEF Step, Heartbeat, Environment, Start, ReadGeneration, ReadAcceptance,
       ReadRaced, ReadAbsent, ScanSound, ScanAdvanced, Glob, Weigh, Commit, Collide, CheckFence,
       RenameTarget, EnterAccept, Release, HeartbeatCheck, HeartbeatWrite, Retire,
       Expire, Stall, Crash, mount
  <2>2. chain' = Append(chain, c) /\ depth[c] = Len(chain) /\ UNCHANGED <<released, live>>
    BY <2>1 DEF Install, SuccessorWins, SlotFree
  <2>3. Len(chain) > 0 => \/ chain[Len(chain)] \in released
                          \/ chain[Len(chain)] \notin live
    BY <1>t, <2>1, <2>2 DEF Install, AttemptInv, RivalIsRight
  <2>4. /\ Len(chain) \in Nat /\ Len(chain') = Len(chain) + 1
        /\ \A i \in 1..Len(chain) : chain'[i] = chain[i]
    BY <1>t, <2>2
  <2> SUFFICES ASSUME NEW i \in 1..Len(chain'), i < Len(chain')
               PROVE  chain'[i] \in released \/ chain'[i] \notin live
    BY <2>2 DEF SuccessionIsSafe
  <2>5. i \in 1..Len(chain) /\ chain'[i] = chain[i]
    BY <2>4
  <2>6. CASE i = Len(chain)
    BY <2>3, <2>5, <2>6
  <2>7. CASE i < Len(chain)
    BY <1>t, <2>5, <2>7 DEF SuccessionIsSafe
  <2>q. QED
    BY <2>4, <2>5, <2>6, <2>7
<1>q. QED
  BY <1>1, <1>2

LEMMA NextInv == IInv /\ [Next]_vars => IInv'
<1> SUFFICES ASSUME IInv, [Next]_vars PROVE IInv'
  OBVIOUS
<1>t. TypeOK /\ TypeOK'
  BY TypeStep DEF IInv
<1>0. CASE UNCHANGED vars
  BY <1>0, <1>t DEF IInv, vars, AttemptInv, OwnerIsInstalled, NotYetOwner, Owns,
     WalkIsPrefix, RivalIsRight, PublicationIsVisible, TriesAreOutrun,
     CorruptionIsOutrun, Outcomes, AcceptedIsCurrent, SuccessionIsSafe
<1>1. ASSUME NEW c \in Claims, Step(c) \/ Heartbeat(c) \/ Environment(c) PROVE IInv'
  <2>1. Moves(c)
    BY <1>1, <1>t, StepMoves DEF IInv, AttemptInv
  <2>2. ASSUME NEW e \in Claims, Owns(e) PROVE ~(e \in live' /\ e \notin live)
    BY <2>1, <2>2 DEF Moves, SharedStep
  <2>3. ASSUME NEW d \in Claims PROVE AttemptInv(d)'
    <3>1. CASE d = c
      BY <1>1, <1>t, <3>1, OwnStep DEF IInv
    <3>2. CASE d # c
      BY <1>t, <2>1, <2>2, <3>2, OthersKeep DEF IInv
    <3>q. QED
      BY <3>1, <3>2
  <2>4. AcceptedIsCurrent'
    BY <1>1, <1>t, AcceptedStep
  <2>5. SuccessionIsSafe'
    BY <1>1, <1>t, SuccessionStep
  <2>q. QED
    BY <1>t, <2>3, <2>4, <2>5 DEF IInv
<1>q. QED
  BY <1>0, <1>1 DEF Next

THEOREM Invariance == Spec => []IInv
BY InitInv, NextInv, PTL DEF Spec

--------------------------------------------------------------------------------
(* The guard's variables stay in their domains. *)
THEOREM TypeCorrect == Spec => []TypeOK
BY Invariance, PTL DEF IInv

(* Whatever the interleaving of walks, enumerations and renames, the       *)
(* accepted publication is the one of the last generation and was visible: *)
(* an owner that was superseded after its fence check never wins.          *)
THEOREM AcceptedIsCurrentHolds == Spec => []AcceptedIsCurrent
BY Invariance, PTL DEF IInv

(* No owner is ever succeeded while its claim is live and its generation   *)
(* unreleased, however stale the record its rival acted on.                *)
THEOREM SuccessionIsSafeHolds == Spec => []SuccessionIsSafe
BY Invariance, PTL DEF IInv

(* For every limit: giving up on a sound chain takes as many outcomes as   *)
(* there are traversal attempts.                                           *)
THEOREM CorruptionNeedsContentionHolds == Spec => []CorruptionNeedsContention
<1>1. IInv => CorruptionNeedsContention
  BY DEF IInv, AttemptInv, CorruptionIsOutrun, CorruptionNeedsContention
<1>q. QED
  BY Invariance, <1>1, PTL

--------------------------------------------------------------------------------
(* The guard directories implement FanInCommit. *)

LEMMA InitRefines == Init => Abstract!Init
BY DEF Init, Abstract!Init

LEMMA NextRefines == IInv /\ [Next]_vars => [Abstract!Next]_Abstract!commitVars
<1> SUFFICES ASSUME IInv, [Next]_vars PROVE [Abstract!Next]_Abstract!commitVars
  OBVIOUS
<1>0. CASE UNCHANGED vars
  BY <1>0 DEF vars, Abstract!commitVars
<1>1. ASSUME NEW c \in Claims, Step(c) \/ Heartbeat(c) \/ Environment(c)
      PROVE  [Abstract!Next]_Abstract!commitVars
  <2>t. AttemptInv(c) /\ chain \in Seq(Claims)
    BY DEF IInv, TypeOK
  <2>1. CASE Install(c)
    <3>1. Abstract!Grant(c)
      BY <2>1, <2>t DEF Install, SuccessorWins, SlotFree, Abstract!Grant,
         Abstract!HasHeld, AttemptInv, OwnerIsInstalled, NotYetOwner, Owns
    <3>q. QED
      BY <3>1 DEF Abstract!Next
  <2>2. CASE RenameTarget(c)
    <3>1. Abstract!Offer(c)
      BY <2>2, <2>t DEF RenameTarget, Abstract!Offer, Abstract!HasHeld, AttemptInv,
         OwnerIsInstalled, Owns
    <3>q. QED
      BY <3>1 DEF Abstract!Next
  <2>3. CASE Commit(c)
    <3>1. CASE AcceptanceWins(c)
      <4>1. /\ accepted = NoClaim /\ accepted' = pub[c] /\ UNCHANGED <<chain, targets>>
            /\ depth[c] = Len(chain) /\ depth[c] > 0 /\ chain[depth[c]] = pub[c]
        BY <2>3, <2>t, <3>1 DEF Commit, AcceptanceWins, SlotFree, AttemptInv, WalkIsPrefix
      <4>2. pub[c] \in Claims /\ chain # <<>>
        BY <2>t, <4>1
      <4>3. pub[c] \in targets
        BY <2>t, <4>2, NoClaimAssumption DEF AttemptInv, PublicationIsVisible
      <4>4. Abstract!Accept(pub[c])
        BY <4>1, <4>2, <4>3 DEF Abstract!Accept
      <4>q. QED
        BY <4>2, <4>4 DEF Abstract!Next
    <3>2. CASE ~AcceptanceWins(c)
      BY <2>3, <3>2 DEF Commit, Abstract!commitVars
    <3>q. QED
      BY <3>1, <3>2
  <2>4. CASE ~(Install(c) \/ RenameTarget(c) \/ Commit(c))
    BY <1>1, <2>4 DEF Step, Heartbeat, Environment, Start, ReadGeneration, ReadAcceptance,
       ReadRaced, ReadAbsent, ScanSound, ScanAdvanced, Glob, Weigh, Collide, CheckFence,
       EnterAccept, Release, HeartbeatCheck, HeartbeatWrite, Retire,
       Expire, Stall, Crash, mount, Abstract!commitVars
  <2>q. QED
    BY <2>1, <2>2, <2>3, <2>4
<1>q. QED
  BY <1>0, <1>1 DEF Next

(* Every behaviour of the guard directories is a behaviour of the abstract *)
(* one-winner succession, for every number of claims and every limit.      *)
THEOREM Refinement == Spec => ImplementsCommit
<1>q. QED
  BY Invariance, InitRefines, NextRefines, PTL DEF Spec, Abstract!Spec, ImplementsCommit

(* Installed outcomes are never changed, removed or reused. *)
THEOREM OutcomesAreImmutableHolds == Spec => OutcomesAreImmutable
<1>1. IInv /\ [Next]_vars =>
        [/\ accepted # NoClaim => accepted' = accepted /\ chain' = chain
         /\ \A i \in 1..Len(chain) : i <= Len(chain') /\ chain'[i] = chain[i]]_vars
  <2> SUFFICES ASSUME IInv, [Next]_vars, vars' # vars
               PROVE  /\ accepted # NoClaim => accepted' = accepted /\ chain' = chain
                      /\ \A i \in 1..Len(chain) : i <= Len(chain') /\ chain'[i] = chain[i]
    OBVIOUS
  <2>1. PICK c \in Claims : Step(c) \/ Heartbeat(c) \/ Environment(c)
    BY DEF Next
  <2>2. SharedStep(c) /\ TypeOK /\ TypeOK'
    BY <2>1, StepMoves, TypeStep DEF IInv, AttemptInv, Moves
  <2>3. \A i \in 1..Len(chain) : i <= Len(chain') /\ chain'[i] = chain[i]
    BY <2>2, ChainGrows
  <2>q. QED
    BY <2>2, <2>3 DEF SharedStep
<1>q. QED
  BY Invariance, <1>1, PTL DEF Spec, OutcomesAreImmutable
================================================================================
