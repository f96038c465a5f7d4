------------------------------ MODULE PanelProofs ------------------------------
(***************************************************************************)
(* Proofs about Panel, for any number of partitions, shards, observations  *)
(* and faults.                                                             *)
(*                                                                         *)
(* The files a pod has written never change, so what an agent has read of  *)
(* them (SeenInv) is still there when the controller judges its answer.    *)
(* What the controller concludes from an answer (CtlInv) then follows from *)
(* what a supervisor guarantees of its processes when it writes its files  *)
(* (PodInv).                                                               *)
(***************************************************************************)
EXTENDS Panel, TLAPS

\* A supervisor that is done, one way or the other.
Off(p) == pod[p].sup \in {"ended", "killed"}

PodInv(p) ==
  /\ pod[p].left => /\ pod[p].worker = "none" /\ pod[p].sup \in {"stopped", "ended", "killed"}
                    /\ pod[p].cleanup # "ok"
  /\ pod[p].sup # "none" => pod[p].launcher # "none"
  /\ pod[p].sup \in {"watch", "stop", "halt", "except"} => pod[p].cleanup = "unsaid"
  /\ pod[p].sup \in {"none", "launch", "stopped", "complete", "ended"} => pod[p].worker = "none"
  /\ pod[p].sup = "complete" =>
       pod[p].shard = Shards /\ ~pod[p].left /\ pod[p].cleanup # "failed"
  /\ pod[p].term # None =>
       /\ Off(p) /\ pod[p].worker = "none" /\ (pod[p].term.clean <=> pod[p].cleanup # "failed")
       /\ pod[p].term.complete =>
            pod[p].shard = Shards /\ ~pod[p].left /\ pod[p].cleanup # "failed"

\* What an agent read is what is there.
SeenInv(p) ==
  \A e \in exec[p] : /\ e.seen.term # None => pod[p].term = e.seen.term
                     /\ e.seen.exit # None => pod[p].exit = e.seen.exit

\* Partitions the controller may take for whole, or for stopped.
Whole(p) == /\ pod[p].term # None /\ pod[p].term.complete /\ ~pod[p].term.late
            /\ pod[p].exit # None /\ pod[p].exit = 0
Swept(p) == pod[p].term # None /\ pod[p].term.clean

\* Those the controller awaits an answer of.
Awaited == CASE ctl.pc = "judge" -> Active
             [] ctl.pc \in {"abort", "drain"} -> ctl.todo
             [] OTHER -> {}

CtlInv ==
  /\ \A p \in ctl.complete : Whole(p)
  /\ ctl.pc \in {"abort", "drain", "over"} => \A p \in Partitions \ ctl.todo : Swept(p)
  /\ \A p \in Awaited : Waited(p) # {}

Pods == \A p \in Partitions : PodInv(p) /\ SeenInv(p)
IInv == TypeOK /\ Pods /\ CtlInv

--------------------------------------------------------------------------------
(* The initial state. *)

\* The pods are empty and nothing was read.
LEMMA InitIInv == Init => IInv
<1> SUFFICES ASSUME Init PROVE IInv
  OBVIOUS
<1> USE PanelAssumption
<1>1. TypeOK
  <2>1. ctl \in Controllers
    BY DEF Init, Controllers
  <2>2. pod \in [Partitions -> PodStates]
    BY DEF Init, PodStates
  <2>3. exec \in [Partitions -> SUBSET Agents] /\ \A p \in Partitions : Waited(p) = {}
    BY DEF Init, Waited
  <2>4. \A p \in Partitions : pod[p].worker = "none"
    BY DEF Init
  <2>5. late \in BOOLEAN /\ faults \in 0 .. MaxFaults
    <3>1. late \in BOOLEAN
      BY Zenon DEF Init
    <3>2. faults = 0
      BY Zenon DEF Init
    <3>3. faults \in 0 .. MaxFaults
      BY <3>2 DEF PanelAssumption
    <3> QED
      BY <3>1, <3>3
  <2> QED
    BY <2>1, <2>2, <2>3, <2>4, <2>5 DEF TypeOK
<1>2. Pods
  BY DEF Init, Pods, PodInv, SeenInv, Off
<1>3. CtlInv
  BY DEF Init, CtlInv, Awaited
<1> QED
  BY <1>1, <1>2, <1>3 DEF IInv

--------------------------------------------------------------------------------
(* The pods' files and processes. *)

\* Faults are counted up to their bound.
LEMMA FaultCounts ==
  ASSUME TypeOK, Fault \/ UNCHANGED faults
  PROVE  faults' \in 0 .. MaxFaults
<1>1. faults \in 0 .. MaxFaults /\ MaxFaults \in Nat
  BY PanelAssumption DEF TypeOK
<1> QED
  BY <1>1 DEF Fault

\* Files once written stay as they are.
Keeps(p) == /\ pod[p].term # None => pod'[p].term = pod[p].term
            /\ pod[p].exit # None => pod'[p].exit = pod[p].exit

\* A step of pod p, which no other pod notices.
PodStep(p) == /\ pod' \in [Partitions -> PodStates]
              /\ \A q \in Partitions \ {p} : pod'[q] = pod[q]
              /\ pod'[p].worker = "run" => pod'[p].launcher # "none"
              /\ PodInv(p)' /\ Keeps(p)

\* Updates of a pod's state that stay in its type.
LEMMA PodTypes ==
  ASSUME NEW r \in PodStates
  PROVE  /\ [r EXCEPT !.abort = TRUE] \in PodStates
         /\ [r EXCEPT !.sup = "watch", !.worker = "run", !.cleanup = "unsaid"] \in PodStates
         /\ \A left \in BOOLEAN :
              [r EXCEPT !.worker = "none", !.left = left, !.sup = "stopped"] \in PodStates
         /\ \A t \in Terminals : [r EXCEPT !.sup = "ended", !.term = t] \in PodStates
         /\ \A left \in BOOLEAN, s \in {"stopped", "complete", "launch"}, n \in 1 .. Shards,
              c \in {"ok", "failed"} :
              [r EXCEPT !.worker = "none", !.left = left, !.sup = s, !.cleanup = c, !.shard = n]
                \in PodStates
<1>1. [r EXCEPT !.abort = TRUE] \in PodStates
  BY DEF PodStates
<1>2. ASSUME NEW t \in Terminals PROVE [r EXCEPT !.sup = "ended", !.term = t] \in PodStates
  BY DEF PodStates
<1>3. ASSUME NEW left \in BOOLEAN, NEW s \in {"stopped", "complete", "launch"}, NEW n \in 1 .. Shards,
             NEW c \in {"ok", "failed"}
      PROVE  [r EXCEPT !.worker = "none", !.left = left, !.sup = s, !.cleanup = c, !.shard = n]
               \in PodStates
  BY DEF PodStates
<1>4. [r EXCEPT !.sup = "watch", !.worker = "run", !.cleanup = "unsaid"] \in PodStates
  BY DEF PodStates
<1>5. ASSUME NEW left \in BOOLEAN
      PROVE  [r EXCEPT !.worker = "none", !.left = left, !.sup = "stopped"] \in PodStates
  BY DEF PodStates
<1> QED
  BY <1>1, <1>2, <1>3, <1>4, <1>5

\* The supervisor's steps.
LEMMA SupervisorSteps ==
  ASSUME TypeOK, NEW p \in Partitions, PodInv(p),
         \/ Launch(p) \/ Watch(p) \/ StopOwned(p) \/ Finish(p)
         \/ StopRaises(p) \/ Unsaid(p) \/ VerifyFails(p)
  PROVE  PodStep(p)
<1> USE PanelAssumption DEF TypeOK, PodStates, PodStep, PodInv, Off, Keeps
<1>1. CASE Launch(p)
  <2>1. CASE pod' = [pod EXCEPT ![p].sup = "stopped"]
    BY <1>1, <2>1 DEF Launch
  <2>2. CASE pod' = [pod EXCEPT ![p].sup = "watch", ![p].worker = "run", ![p].cleanup = "unsaid"]
    <3>1. pod[p].sup = "launch" /\ pod[p].launcher # "none" /\ ~pod[p].left /\ pod[p].term = None
      BY <1>1 DEF Launch
    <3>2. /\ pod' \in [Partitions -> PodStates]
          /\ \A q \in Partitions \ {p} : pod'[q] = pod[q]
      <4> HIDE DEF PodStates
      <4> QED
        BY <2>2, PodTypes
    <3>3. /\ pod'[p].sup = "watch" /\ pod'[p].worker = "run" /\ pod'[p].cleanup = "unsaid"
          /\ pod'[p].launcher = pod[p].launcher /\ (pod'[p].left <=> pod[p].left)
          /\ pod'[p].term = pod[p].term /\ pod'[p].exit = pod[p].exit
      BY <2>2
    <3> HIDE DEF TypeOK, PodStates
    <3> QED
      BY <3>1, <3>2, <3>3
  <2> QED
    BY <1>1, <2>1, <2>2 DEF Launch
<1>2. CASE Watch(p)
  BY <1>2 DEF Watch, Supervise
<1>3. CASE StopOwned(p)
  <2> DEFINE said(left) == IF left THEN "failed" ELSE "ok"
  <2>1. PICK left \in BOOLEAN :
          pod' = [pod EXCEPT ![p].worker = "none", ![p].left = left, ![p].sup = After(p, left),
                             ![p].cleanup = said(left),
                             ![p].shard = IF After(p, left) = "launch" THEN @ + 1 ELSE @]
    BY <1>3 DEF StopOwned
  <2>2. /\ After(p, left) \in {"stopped", "complete", "launch"}
        /\ After(p, left) # "stopped" => ~left
        /\ After(p, left) = "complete" => pod[p].shard = Shards
        /\ After(p, left) = "launch" => pod[p].shard # Shards
    BY DEF After
  <2>3. pod[p].sup \notin {"none", "ended", "killed"}
    BY <1>3 DEF StopOwned
  <2> DEFINE n == IF After(p, left) = "launch" THEN pod[p].shard + 1 ELSE pod[p].shard
  <2>4. said(left) \in {"ok", "failed"} /\ (left <=> said(left) # "ok")
    OBVIOUS
  <2>5. [pod[p] EXCEPT !.worker = "none", !.left = left, !.sup = After(p, left),
                       !.cleanup = said(left), !.shard = n] \in PodStates
    <3>1. pod[p] \in PodStates /\ pod[p].shard \in 1 .. Shards
      OBVIOUS
    <3>2. n \in 1 .. Shards
      BY <2>2, <3>1 DEF PanelAssumption
    <3> HIDE DEF PodStates, n, said
    <3> QED
      BY <2>2, <2>4, <3>1, <3>2, PodTypes
  <2>6. /\ \A q \in Partitions \ {p} : pod'[q] = pod[q]
        /\ pod'[p].worker = "none" /\ (pod'[p].left <=> left)
        /\ pod'[p].sup = After(p, left) /\ pod'[p].launcher = pod[p].launcher
        /\ pod'[p].cleanup = said(left)
        /\ pod'[p].term = pod[p].term /\ pod'[p].exit = pod[p].exit
        /\ After(p, left) = "complete" => pod'[p].shard = Shards
    <3> HIDE DEF said
    <3>1. pod'[p] = [pod[p] EXCEPT !.worker = "none", !.left = left, !.sup = After(p, left),
                                   !.cleanup = said(left), !.shard = n]
      BY <2>1
    <3>2. \A q \in Partitions \ {p} : pod'[q] = pod[q]
      BY <2>1
    <3>3. After(p, left) = "complete" => n = Shards
      BY <2>2
    <3>4. pod[p] \in PodStates /\ DOMAIN pod[p] = {"lease", "abort", "launcher", "sup", "shard",
                                  "worker", "left", "cleanup", "term", "exit"}
      OBVIOUS
    <3> HIDE DEF n, After, PodStates
    <3>5. /\ pod'[p].worker = "none" /\ (pod'[p].left <=> left) /\ pod'[p].sup = After(p, left)
          /\ pod'[p].shard = n /\ pod'[p].cleanup = said(left)
      BY <3>1, <3>4
    <3>6. /\ pod'[p].launcher = pod[p].launcher
          /\ pod'[p].term = pod[p].term /\ pod'[p].exit = pod[p].exit
      BY <3>1, <3>4
    <3> QED
      BY <3>2, <3>3, <3>5, <3>6
  <2>7. PodInv(p)'
    <3>1. pod'[p].term = None /\ pod[p].launcher # "none"
      BY <2>3, <2>6
    <3> HIDE DEF n, said, After, PodStates, TypeOK, PodStep
    <3>2. /\ pod'[p].left => pod'[p].sup = "stopped" /\ pod'[p].cleanup # "ok"
          /\ pod'[p].sup \in {"stopped", "complete", "launch"} /\ pod'[p].worker = "none"
          /\ pod'[p].sup = "complete" =>
               pod'[p].shard = Shards /\ ~pod'[p].left /\ pod'[p].cleanup # "failed"
      BY <2>2, <2>4, <2>6
    <3> QED
      BY <2>6, <3>1, <3>2
  <2> QED
    BY <2>1, <2>3, <2>5, <2>6, <2>7
<1>4. CASE StopRaises(p)
  BY <1>4 DEF StopRaises, Supervise
<1>6. CASE Unsaid(p)
  <2>1. PICK left \in BOOLEAN :
          pod' = [pod EXCEPT ![p].worker = "none", ![p].left = left, ![p].sup = "stopped"]
    BY <1>6 DEF Unsaid
  <2>2. pod[p].sup \in {"stop", "halt", "except"}
    BY <1>6 DEF Unsaid
  <2>3. /\ pod' \in [Partitions -> PodStates]
        /\ \A q \in Partitions \ {p} : pod'[q] = pod[q]
    <3> HIDE DEF PodStates
    <3> QED
      BY <2>1, PodTypes
  <2>4. /\ pod'[p].worker = "none" /\ (pod'[p].left <=> left) /\ pod'[p].sup = "stopped"
        /\ pod'[p].cleanup = pod[p].cleanup /\ pod'[p].launcher = pod[p].launcher
        /\ pod'[p].term = pod[p].term /\ pod'[p].exit = pod[p].exit
    BY <2>1
  <2>5. pod[p].cleanup = "unsaid" /\ pod[p].launcher # "none" /\ pod[p].term = None
    BY <2>2
  <2> HIDE DEF TypeOK, PodStates
  <2> QED
    BY <2>2, <2>3, <2>4, <2>5
<1>7. CASE VerifyFails(p)
  BY <1>7 DEF VerifyFails, Supervise
<1>5. CASE Finish(p)
  <2> DEFINE t == [complete |-> pod[p].sup = "complete", clean |-> pod[p].cleanup # "failed",
                   late |-> late]
  <2>1. pod[p].sup \in {"complete", "stopped"}
        /\ pod' = [pod EXCEPT ![p].sup = "ended", ![p].term = t]
    BY <1>5 DEF Finish
  <2>2. t \in Terminals /\ (t.clean <=> pod[p].cleanup # "failed") /\ (t.complete => pod[p].sup = "complete")
    BY DEF Terminals
  <2> HIDE DEF t
  <2>3. [pod[p] EXCEPT !.sup = "ended", !.term = t] \in PodStates
    <3> HIDE DEF PodStates
    <3> QED
      BY <2>2, PodTypes
  <2>4. /\ \A q \in Partitions \ {p} : pod'[q] = pod[q]
        /\ pod'[p] = [pod[p] EXCEPT !.sup = "ended", !.term = t]
    BY <2>1
  <2>5. /\ pod'[p].sup = "ended" /\ pod'[p].term = t
        /\ pod'[p].worker = "none" /\ pod'[p].launcher # "none"
        /\ pod'[p].shard = pod[p].shard /\ pod'[p].exit = pod[p].exit
        /\ pod'[p].left <=> pod[p].left
        /\ pod'[p].cleanup = pod[p].cleanup
    BY <2>1, <2>4
  <2>6. pod[p].term = None
    BY <2>1
  <2>7. pod[p].sup = "complete" =>
          pod[p].shard = Shards /\ ~pod[p].left /\ pod[p].cleanup # "failed"
    OBVIOUS
  <2>8. PodInv(p)'
    BY <2>1, <2>2, <2>5, <2>7
  <2> QED
    BY <2>1, <2>3, <2>4, <2>5, <2>6, <2>8
<1> QED
  BY <1>1, <1>2, <1>3, <1>4, <1>5, <1>6, <1>7

\* What happens to its processes, and the launcher.
LEMMA ProcessSteps ==
  ASSUME TypeOK, NEW p \in Partitions, PodInv(p),
         KillSupervisor(p) \/ WorkerExits(p) \/ WriteExit(p) \/ LauncherEnds(p) \/ Expire(p)
  PROVE  PodStep(p)
<1> USE PanelAssumption DEF TypeOK, PodStates, PodStep, PodInv, Off, Keeps
<1>1. CASE KillSupervisor(p)
  BY <1>1 DEF KillSupervisor
<1>2. CASE WorkerExits(p)
  BY <1>2 DEF WorkerExits
<1>3. CASE WriteExit(p)
  BY <1>3 DEF WriteExit
<1>4. CASE LauncherEnds(p)
  BY <1>4 DEF LauncherEnds
<1>5. CASE Expire(p)
  BY <1>5 DEF Expire
<1> QED
  BY <1>1, <1>2, <1>3, <1>4, <1>5

\* What agents write.
LEMMA AgentWrites ==
  ASSUME TypeOK, NEW p \in Partitions, PodInv(p), NEW e,
         WriteLease(p, e) \/ Spawn(p, e) \/ WriteAbort(p, e)
  PROVE  PodStep(p)
<1> USE PanelAssumption DEF TypeOK, PodStates, PodStep, PodInv, Off, Keeps
<1>1. CASE WriteLease(p, e)
  BY <1>1 DEF WriteLease
<1>2. CASE Spawn(p, e)
  BY <1>2 DEF Spawn
<1>3. CASE WriteAbort(p, e)
  <2>1. pod' = [pod EXCEPT ![p].abort = TRUE]
    BY <1>3 DEF WriteAbort
  <2>2. [pod[p] EXCEPT !.abort = TRUE] \in PodStates
    <3> HIDE DEF PodStates
    <3> QED
      BY PodTypes
  <2>3. /\ \A q \in Partitions \ {p} : pod'[q] = pod[q]
        /\ pod'[p].worker = pod[p].worker /\ (pod'[p].left <=> pod[p].left)
        /\ pod'[p].cleanup = pod[p].cleanup
        /\ pod'[p].sup = pod[p].sup /\ pod'[p].launcher = pod[p].launcher
        /\ pod'[p].shard = pod[p].shard
        /\ pod'[p].term = pod[p].term /\ pod'[p].exit = pod[p].exit
    BY <2>1
  <2> QED
    BY <2>1, <2>2, <2>3
<1> QED
  BY <1>1, <1>2, <1>3

\* A step of one pod preserves what the invariant says of all pods, and all files.
LEMMA PodsStep ==
  ASSUME TypeOK, Pods, NEW p \in Partitions, PodStep(p)
  PROVE  /\ pod' \in [Partitions -> PodStates]
         /\ (\A q \in Partitions : pod[q].worker = "run" => pod[q].launcher # "none")'
         /\ (\A q \in Partitions : PodInv(q))'
         /\ \A q \in Partitions : Keeps(q)
<1>1. pod' \in [Partitions -> PodStates]
  BY DEF PodStep
<1>2. ASSUME NEW q \in Partitions
      PROVE  /\ PodInv(q)' /\ (pod[q].worker = "run" => pod[q].launcher # "none")'
             /\ Keeps(q)
  <2>1. CASE q = p
    BY <2>1 DEF PodStep
  <2>2. CASE q # p
    <3>1. pod'[q] = pod[q] /\ PodInv(q)
      BY <2>2 DEF PodStep, Pods
    <3> QED
      BY <3>1 DEF PodInv, Off, Keeps, TypeOK
  <2> QED
    BY <2>1, <2>2
<1> QED
  BY <1>1, <1>2

\* What is typed of the calls stays so when they do not move.
LEMMA CallsTyped ==
  ASSUME TypeOK, UNCHANGED exec
  PROVE  /\ exec' \in [Partitions -> SUBSET Agents]
         /\ (\A q \in Partitions : \A d, e \in Waited(q) : d = e)'
  BY DEF TypeOK, Waited

\* What agents have read stays true while files stay.
LEMMA SeenStays ==
  ASSUME Pods, UNCHANGED exec, \A q \in Partitions : Keeps(q)
  PROVE  (\A q \in Partitions : SeenInv(q))'
  BY DEF Pods, SeenInv, Keeps

\* So does what the controller has concluded, while it does nothing itself.
LEMMA CtlStays ==
  ASSUME TypeOK, CtlInv, UNCHANGED ctl, \A q \in Partitions : Keeps(q),
         \A q \in Partitions : Waited(q) # {} => Waited(q)' # {}
  PROVE  CtlInv'
<1>1. ctl.complete \subseteq Partitions /\ ctl.todo \subseteq Partitions
  BY DEF TypeOK, Controllers
<1>2. (\A q \in ctl.complete : Whole(q))'
  BY <1>1 DEF CtlInv, Whole, Keeps
<1>3. (ctl.pc \in {"abort", "drain", "over"} => \A q \in Partitions \ ctl.todo : Swept(q))'
  BY DEF CtlInv, Swept, Keeps
<1>4. Awaited' = Awaited /\ Awaited \subseteq Partitions
  BY <1>1 DEF Awaited, Active
<1>5. \A q \in Awaited : Waited(q)' # {}
  BY <1>4 DEF CtlInv
<1> QED
  BY <1>2, <1>3, <1>4, <1>5 DEF CtlInv

\* The rest of the invariant follows, when neither calls nor controller move.
LEMMA PodOnly ==
  ASSUME IInv, NEW p \in Partitions, PodStep(p), UNCHANGED <<ctl, exec>>,
         late' \in BOOLEAN, faults' \in 0 .. MaxFaults
  PROVE  IInv'
<1> USE DEF IInv
<1>1. TypeOK'
  <2>1. UNCHANGED ctl /\ UNCHANGED exec
    OBVIOUS
  <2> QED
    BY <2>1, PodsStep, CallsTyped DEF TypeOK
<1>2. Pods'
  BY PodsStep, SeenStays DEF Pods
<1>3. CtlInv'
  BY PodsStep, CtlStays DEF Waited
<1> QED
  BY <1>1, <1>2, <1>3

--------------------------------------------------------------------------------
(* The calls. *)

\* F takes the place of e among the agents of p, waited for as much as e was.
Replaces(p, e, F) ==
  /\ e \in exec[p] /\ F \subseteq Agents
  /\ \A f \in F : f.waited => e.waited /\ \A g \in F : g.waited => f = g
  /\ e.waited => \E f \in F : f.waited
  /\ exec' = [exec EXCEPT ![p] = (@ \ {e}) \cup F]

LEMMA Replacing ==
  ASSUME TypeOK, NEW p \in Partitions, NEW e, NEW F, Replaces(p, e, F)
  PROVE  /\ exec' \in [Partitions -> SUBSET Agents]
         /\ \A q \in Partitions : \A g \in exec'[q] : g \in exec[q] \/ (q = p /\ g \in F)
         /\ (\A q \in Partitions : \A c, d \in Waited(q) : c = d)'
         /\ \A q \in Partitions : Waited(q) # {} => Waited(q)' # {}
<1> DEFINE new == (exec[p] \ {e}) \cup F
<1>1. new \in SUBSET Agents
  BY DEF TypeOK, Replaces
<1>2. exec' = [exec EXCEPT ![p] = new]
  BY DEF Replaces
<1> HIDE DEF new
<1>3. exec' \in [Partitions -> SUBSET Agents]
  BY <1>1, <1>2 DEF TypeOK
<1>4. exec'[p] = new /\ \A q \in Partitions \ {p} : exec'[q] = exec[q]
  BY <1>2 DEF TypeOK
<1>5. \A q \in Partitions : \A g \in exec'[q] : g \in exec[q] \/ (q = p /\ g \in F)
  BY <1>4 DEF new
<1>6. ASSUME NEW q \in Partitions
      PROVE  /\ (\A c, d \in Waited(q) : c = d)'
             /\ Waited(q) # {} => Waited(q)' # {}
  <2>1. CASE q # p
    BY <2>1, <1>4 DEF Waited, TypeOK
  <2>2. CASE q = p
    <3>1. \A c, d \in Waited(p) : c = d
      BY DEF TypeOK
    <3> QED
      BY <2>2, <3>1, <1>4 DEF Waited, new, Replaces
  <2> QED
    BY <2>1, <2>2
<1> QED
  BY <1>3, <1>5, <1>6

\* What f has read is what is there.
SeesTruly(p, f) == /\ f.seen.term # None => pod[p].term = f.seen.term
                   /\ f.seen.exit # None => pod[p].exit = f.seen.exit

\* A step of one agent, with or without a step of its pod, keeps the invariant.
LEMMA AgentMoves ==
  ASSUME IInv, NEW p \in Partitions, NEW e, NEW F, Replaces(p, e, F),
         \A f \in F : SeesTruly(p, f),
         UNCHANGED pod \/ PodStep(p), UNCHANGED ctl,
         late' \in BOOLEAN, faults' \in 0 .. MaxFaults
  PROVE  IInv'
<1> USE DEF IInv
<1>1. /\ pod' \in [Partitions -> PodStates]
      /\ (\A q \in Partitions : pod[q].worker = "run" => pod[q].launcher # "none")'
      /\ (\A q \in Partitions : PodInv(q))'
      /\ \A q \in Partitions : Keeps(q)
  <2>1. CASE UNCHANGED pod
    BY <2>1 DEF TypeOK, Pods, PodInv, Off, Keeps
  <2>2. CASE PodStep(p)
    BY <2>2, PodsStep
  <2> QED
    BY <2>1, <2>2
<1>2. TypeOK'
  BY <1>1, Replacing DEF TypeOK
<1>3. (\A q \in Partitions : SeenInv(q))'
  BY <1>1, Replacing DEF Pods, SeenInv, SeesTruly, Keeps
<1>4. CtlInv'
  BY <1>1, Replacing, CtlStays
<1> QED
  BY <1>1, <1>2, <1>3, <1>4 DEF Pods

\* Each step of an agent.
LEMMA AgentSteps ==
  ASSUME IInv, NEW p \in Partitions, AgentStep(p)
  PROVE  IInv'
<1> USE DEF IInv
<1>1. PICK e \in exec[p] :
        \/ WriteLease(p, e) \/ ReadTerminal(p, e) \/ ReadExit(p, e) \/ ReadAlive(p, e)
        \/ Gate(p, e) \/ Spawn(p, e) \/ WriteAbort(p, e)
  BY DEF AgentStep
<1>2. /\ e \in Agents /\ SeesTruly(p, e) /\ PodInv(p)
      /\ pod[p].term \in Terminals \cup {None} /\ pod[p].exit \in {0, 1, None}
      /\ (pod[p].launcher = "up") \in BOOLEAN
  BY DEF TypeOK, Pods, SeenInv, SeesTruly, PodStates
<1>3. late \in BOOLEAN /\ faults \in 0 .. MaxFaults
  BY DEF TypeOK
<1>4. ASSUME NEW f \in Agents, f.waited = e.waited, Advance(p, e, f), SeesTruly(p, f),
             UNCHANGED pod \/ PodStep(p), UNCHANGED <<ctl, late, faults>>
      PROVE  IInv'
  <2> DEFINE F == IF f.waited \/ f.at \in Writes THEN {f} ELSE {}
  <2>1. Replaces(p, e, F)
    BY <1>4 DEF Replaces, Advance
  <2>2. \A g \in F : SeesTruly(p, g)
    BY <1>4
  <2> HIDE DEF F
  <2> QED
    BY <1>3, <1>4, <2>1, <2>2, AgentMoves
<1>5. ASSUME NEW at \in {"lease", "admit", "terminal", "exit", "alive", "gate", "spawn",
                        "abort", "ok", "failed"},
             To(p, e, at), UNCHANGED pod \/ PodStep(p), UNCHANGED <<ctl, late, faults>>
      PROVE  IInv'
  <2>1. /\ [e EXCEPT !.at = at] \in Agents
        /\ [e EXCEPT !.at = at].waited = e.waited /\ [e EXCEPT !.at = at].seen = e.seen
    BY <1>2 DEF Agents
  <2>2. SeesTruly(p, [e EXCEPT !.at = at])
    BY <1>2, <2>1 DEF SeesTruly
  <2> QED
    BY <1>4, <1>5, <2>1, <2>2 DEF To
<1>6. CASE WriteLease(p, e)
  BY <1>2, <1>5, <1>6, AgentWrites DEF WriteLease
<1>7. CASE ReadTerminal(p, e)
  <2> DEFINE f == [e EXCEPT !.at = "exit", !.seen.term = pod[p].term]
  <2>1. f \in Agents /\ f.waited = e.waited /\ f.seen = [e.seen EXCEPT !.term = pod[p].term]
    BY <1>2 DEF Agents, Seen
  <2>2. SeesTruly(p, f)
    BY <1>2, <2>1 DEF SeesTruly, Agents, Seen
  <2> HIDE DEF f
  <2>3. CASE Advance(p, e, f)
    BY <1>4, <1>7, <2>1, <2>2, <2>3 DEF ReadTerminal
  <2>4. CASE To(p, e, "failed")
    BY <1>5, <1>7, <2>4 DEF ReadTerminal
  <2> QED
    BY <1>7, <2>3, <2>4 DEF ReadTerminal, f
<1>8. CASE ReadExit(p, e)
  <2> DEFINE f == [e EXCEPT !.at = "alive", !.seen.exit = pod[p].exit]
  <2>1. f \in Agents /\ f.waited = e.waited /\ f.seen = [e.seen EXCEPT !.exit = pod[p].exit]
    BY <1>2 DEF Agents, Seen
  <2>2. SeesTruly(p, f)
    BY <1>2, <2>1 DEF SeesTruly, Agents, Seen
  <2> QED
    BY <1>4, <1>8, <2>1, <2>2 DEF ReadExit
<1>9. CASE ReadAlive(p, e)
  <2> DEFINE up == pod[p].launcher = "up"
             f == [e EXCEPT !.at = "ok", !.seen.live = up]
  <2> HIDE DEF up
  <2>1. f \in Agents /\ f.waited = e.waited /\ f.seen = [e.seen EXCEPT !.live = up]
    BY <1>2 DEF Agents, Seen, up
  <2>2. SeesTruly(p, f)
    BY <1>2, <2>1 DEF SeesTruly, Agents, Seen
  <2>3. Advance(p, e, f) /\ UNCHANGED <<ctl, pod, late, faults>>
    BY <1>9 DEF ReadAlive, up
  <2> QED
    BY <1>4, <2>1, <2>2, <2>3
<1>10. CASE Gate(p, e)
  BY <1>5, <1>10 DEF Gate
<1>11. CASE Spawn(p, e)
  BY <1>2, <1>5, <1>11, AgentWrites DEF Spawn
<1>12. CASE WriteAbort(p, e)
  BY <1>2, <1>5, <1>12, AgentWrites DEF WriteAbort
<1> QED
  BY <1>1, <1>6, <1>7, <1>8, <1>9, <1>10, <1>11, <1>12

\* A call given up.
LEMMA TimeoutStep ==
  ASSUME IInv, NEW p \in Partitions, NEW e \in exec[p], Timeout(p, e)
  PROVE  IInv'
<1> USE DEF IInv
<1>1. e \in Agents /\ SeesTruly(p, e) /\ e.waited
  BY DEF TypeOK, Pods, SeenInv, SeesTruly, Timeout
<1> DEFINE lost == [e EXCEPT !.at = "failed"]
           orphan == [e EXCEPT !.waited = FALSE]
<1>2. PICK O \in {{}, {orphan}} : exec' = [exec EXCEPT ![p] = (@ \ {e}) \cup {lost} \cup O]
  BY DEF Timeout
<1>3. /\ lost \in Agents /\ lost.waited /\ lost.seen = e.seen
      /\ orphan \in Agents /\ ~orphan.waited /\ orphan.seen = e.seen
  BY <1>1 DEF Agents
<1> HIDE DEF lost, orphan
<1>4. (exec[p] \ {e}) \cup {lost} \cup O = (exec[p] \ {e}) \cup ({lost} \cup O)
  OBVIOUS
<1>5. Replaces(p, e, {lost} \cup O)
  BY <1>1, <1>2, <1>3, <1>4 DEF Replaces
<1>6. \A f \in {lost} \cup O : SeesTruly(p, f)
  BY <1>1, <1>2, <1>3 DEF SeesTruly
<1>7. UNCHANGED pod /\ UNCHANGED ctl /\ late' \in BOOLEAN /\ faults' \in 0 .. MaxFaults
  BY FaultCounts DEF Timeout, TypeOK
<1> QED
  BY <1>5, <1>6, <1>7, AgentMoves

\* Calling some partitions forgets the answers of all.
LEMMA Calls ==
  ASSUME TypeOK, NEW S,
         NEW at \in {"lease", "gate", "abort", "terminal", "ok"}, Call(S, at)
  PROVE  /\ exec' \in [Partitions -> SUBSET Agents]
         /\ \A q \in Partitions : \A g \in exec'[q] : g \in exec[q] \/ g.seen = Nothing
         /\ (\A q \in Partitions : \A c, d \in Waited(q) : c = d)'
         /\ \A q \in S \cap Partitions : Waited(q)' # {}
<1> DEFINE call == [at |-> at, seen |-> Nothing, waited |-> TRUE]
           new(q) == Unwaited(q) \cup IF q \in S THEN {call} ELSE {}
<1>1. call \in Agents /\ call.waited /\ call.seen = Nothing
  BY DEF Agents, Seen, Nothing
<1>2. exec' = [q \in Partitions |-> new(q)]
  BY DEF Call
<1> HIDE DEF call
<1>3. \A q \in Partitions : new(q) \in SUBSET Agents
  BY <1>1 DEF TypeOK, Unwaited
<1>4. \A q \in Partitions : \A g \in new(q) : (g \in exec[q] /\ ~g.waited) \/ (g = call /\ q \in S)
  BY <1>1 DEF Unwaited, Waited
<1>5. \A q \in S \cap Partitions : call \in new(q)
  OBVIOUS
<1> HIDE DEF new
<1>6. exec' \in [Partitions -> SUBSET Agents] /\ \A q \in Partitions : exec'[q] = new(q)
  BY <1>2, <1>3
<1> QED
  BY <1>1, <1>4, <1>5, <1>6 DEF Waited

--------------------------------------------------------------------------------
(* The controller. *)

\* A step of the controller that calls S, and by which it concludes what it may.
LEMMA ControllerMoves ==
  ASSUME IInv, NEW S,
         NEW at \in {"lease", "gate", "abort", "terminal", "ok"}, Call(S, at),
         ctl' \in Controllers, UNCHANGED <<pod, late>>, Fault \/ UNCHANGED faults,
         \A q \in ctl'.complete : Whole(q),
         ctl'.pc \in {"abort", "drain", "over"} => \A q \in Partitions \ ctl'.todo : Swept(q),
         Awaited' \subseteq S \cap Partitions
  PROVE  IInv'
<1> USE DEF IInv
<1>1. TypeOK'
  BY Calls, FaultCounts DEF TypeOK
<1>2. (\A q \in Partitions : PodInv(q))'
  BY DEF Pods, PodInv, Off
<1>3. (\A q \in Partitions : SeenInv(q))'
  BY Calls DEF Pods, SeenInv, Nothing
<1>4. CtlInv'
  <2>1. (\A q \in ctl.complete : Whole(q))'
    BY DEF Whole
  <2>2. (ctl.pc \in {"abort", "drain", "over"} => \A q \in Partitions \ ctl.todo : Swept(q))'
    BY DEF Swept
  <2>3. (\A q \in Awaited : Waited(q) # {})'
    BY Calls
  <2> QED
    BY <2>1, <2>2, <2>3 DEF CtlInv
<1> QED
  BY <1>1, <1>2, <1>3, <1>4 DEF Pods

\* An awaited answer that is there tells the truth.
LEMMA AnswersAreTrue ==
  ASSUME IInv, NEW p \in Partitions, Waited(p) # {}
  PROVE  Answer(p) \in Agents /\ SeesTruly(p, Answer(p))
<1>1. Answer(p) \in Waited(p)
  BY DEF Answer
<1>2. Answer(p) \in exec[p]
  BY <1>1 DEF Waited
<1> QED
  BY <1>2 DEF IInv, TypeOK, Pods, SeenInv, SeesTruly

\* A partition that is whole is swept.
LEMMA WholeIsSwept ==
  ASSUME IInv, NEW p \in Partitions, Whole(p)
  PROVE  Swept(p)
  BY DEF IInv, TypeOK, Pods, PodInv, PodStates, Terminals, Whole, Swept

\* The except clause.
LEMMA Stopping ==
  ASSUME IInv, NEW done \in SUBSET Partitions, \A q \in done : Whole(q), Stop(done),
         UNCHANGED <<pod, late>>, Fault \/ UNCHANGED faults
  PROVE  IInv'
<1>1. ctl \in Controllers
  BY DEF IInv, TypeOK
<1>2. /\ ctl' \in Controllers
      /\ ctl'.pc = "abort" /\ ctl'.complete = done /\ ctl'.todo = Partitions \ done
  BY <1>1 DEF Stop, Controllers
<1>3. Awaited' = Partitions \ done
  BY <1>2 DEF Awaited
<1>4. \A q \in Partitions \ ctl'.todo : Swept(q)
  BY <1>2, WholeIsSwept
<1>5. Call(Partitions \ done, "abort")
  BY DEF Stop
<1> QED
  BY <1>2, <1>3, <1>4, <1>5, ControllerMoves

\* The controller's steps.
LEMMA ControllerSteps ==
  ASSUME IInv, Controller
  PROVE  IInv'
<1>1. /\ ctl \in Controllers /\ ctl.complete \subseteq Partitions /\ ctl.todo \subseteq Partitions
      /\ ctl.tries \in 0 .. Observations /\ Active \in SUBSET Partitions
      /\ \A q \in ctl.complete : Whole(q)
  BY DEF IInv, TypeOK, CtlInv, Controllers, Active
<1>2. CASE CallNext
  <2> DEFINE S == {First(ctl.todo)}
             at == IF ctl.pc = "refresh" THEN "lease" ELSE "gate"
  <2>1. /\ ctl.pc \in {"refresh", "start"} /\ Call(S, at)
        /\ UNCHANGED ctl /\ UNCHANGED <<pod, late>> /\ UNCHANGED faults
    BY <1>2 DEF CallNext
  <2>2. Awaited' = {} /\ at \in {"lease", "gate"}
    BY <2>1 DEF Awaited
  <2> HIDE DEF at, S
  <2> QED
    BY <1>1, <2>1, <2>2, ControllerMoves
<1>3. CASE AnswerNext
  <2> DEFINE p == First(ctl.todo)
             rest == ctl.todo \ {p}
  <2>1. CASE Stop({})
    BY <1>3, <2>1, Stopping DEF AnswerNext
  <2>2. CASE /\ ctl' = IF rest # {} THEN [ctl EXCEPT !.todo = rest]
                        ELSE IF ctl.pc = "refresh"
                          THEN [ctl EXCEPT !.pc = "start", !.todo = Partitions]
                          ELSE [ctl EXCEPT !.pc = "poll", !.todo = {}]
             /\ Call({}, "ok")
    <3>1. ctl.pc \in {"refresh", "start"} /\ UNCHANGED <<pod, late>> /\ UNCHANGED faults
      BY <1>3 DEF AnswerNext
    <3>2. rest \subseteq Partitions
      BY <1>1
    <3> HIDE DEF rest
    <3>3. /\ ctl' \in Controllers /\ ctl'.complete = ctl.complete
          /\ ctl'.pc \in {"refresh", "start", "poll"}
      BY <1>1, <2>2, <3>1, <3>2 DEF Controllers
    <3>4. Awaited' = {}
      BY <3>3 DEF Awaited
    <3> QED
      BY <1>1, <2>2, <3>1, <3>3, <3>4, ControllerMoves
  <2> QED
    BY <1>3, <2>1, <2>2 DEF AnswerNext
<1>4. CASE Poll
  <2>1. CASE Stop(ctl.complete)
    BY <1>1, <1>4, <2>1, Stopping DEF Poll
  <2>2. CASE ctl' = [ctl EXCEPT !.pc = "judge"] /\ Call(Active, "lease")
    <3>1. /\ ctl' \in Controllers /\ ctl'.complete = ctl.complete /\ ctl'.pc = "judge"
      BY <1>1, <2>2 DEF Controllers
    <3>2. Awaited' = Active
      BY <3>1 DEF Awaited, Active
    <3>3. UNCHANGED <<pod, late>> /\ (Fault \/ UNCHANGED faults)
      BY <1>4 DEF Poll
    <3> QED
      BY <1>1, <2>2, <3>1, <3>2, <3>3, ControllerMoves
  <2> QED
    BY <1>4, <2>1, <2>2 DEF Poll
<1>5. CASE Judge
  <2> DEFINE bad == {p \in Active : Bad(Answer(p))}
             judged == {p \in Active : \A q \in bad : p < q}
             done == ctl.complete \cup {p \in judged : Answer(p).seen.exit # None}
  <2>1. /\ ctl.pc = "judge" /\ UNCHANGED <<pod, late>> /\ UNCHANGED faults
        /\ IF bad # {} THEN Stop(done)
             ELSE /\ ctl' = [ctl EXCEPT !.complete = done,
                                        !.pc = IF done = Partitions THEN "over" ELSE "poll"]
                  /\ Call({}, "ok")
    BY <1>5 DEF Judge
  <2>2. ASSUME NEW p \in Active, ~Bad(Answer(p)), Answer(p).seen.exit # None
        PROVE  Whole(p)
    <3>1. p \in Partitions /\ Waited(p) # {}
      BY <1>1, <2>1 DEF IInv, CtlInv, Awaited
    <3>2. SeesTruly(p, Answer(p))
      BY <3>1, AnswersAreTrue
    <3> QED
      BY <2>2, <3>2 DEF Bad, SeesTruly, Whole
  <2>3. done \in SUBSET Partitions
    BY <1>1
  <2>4. \A q \in done : Whole(q)
    <3>1. \A p \in judged : ~Bad(Answer(p))
      <4> SUFFICES ASSUME NEW p \in judged, Bad(Answer(p)) PROVE FALSE
        OBVIOUS
      <4>1. p \in bad /\ p \in Nat
        BY <1>1, PanelAssumption
      <4>2. p < p
        BY <4>1
      <4> QED
        BY <4>1, <4>2
    <3> QED
      BY <1>1, <2>2, <3>1
  <2> HIDE DEF done, bad, judged
  <2>5. CASE Stop(done)
    BY <2>1, <2>3, <2>4, <2>5, Stopping
  <2>6. CASE /\ ctl' = [ctl EXCEPT !.complete = done,
                                   !.pc = IF done = Partitions THEN "over" ELSE "poll"]
             /\ Call({}, "ok")
    <3>1. /\ ctl' \in Controllers /\ ctl'.complete = done
          /\ ctl'.pc \in {"over", "poll"} /\ (ctl'.pc = "over" => done = Partitions)
      BY <1>1, <2>3, <2>6 DEF Controllers
    <3>2. Awaited' = {}
      BY <3>1 DEF Awaited
    <3>3. ctl'.pc \in {"abort", "drain", "over"} => \A q \in Partitions \ ctl'.todo : Swept(q)
      BY <2>4, <3>1, WholeIsSwept
    <3> QED
      BY <2>1, <2>4, <2>6, <3>1, <3>2, <3>3, ControllerMoves
  <2> QED
    BY <2>1, <2>5, <2>6
<1>6. CASE Drain
  <2>1. /\ ctl.pc = "abort" /\ UNCHANGED <<pod, late>> /\ UNCHANGED faults
        /\ ctl' = [ctl EXCEPT !.pc = "drain", !.tries = 1] /\ Call(ctl.todo, "terminal")
    BY <1>6 DEF Drain
  <2>2. /\ ctl' \in Controllers /\ ctl'.pc = "drain"
        /\ ctl'.complete = ctl.complete /\ ctl'.todo = ctl.todo
    <3>1. 1 \in 0 .. Observations
      BY PanelAssumption
    <3> QED
      BY <1>1, <2>1, <3>1 DEF Controllers
  <2>3. Awaited' = ctl.todo
    BY <2>2 DEF Awaited
  <2>4. \A q \in Partitions \ ctl'.todo : Swept(q)
    BY <2>1, <2>2 DEF IInv, CtlInv
  <2> QED
    BY <1>1, <2>1, <2>2, <2>3, <2>4, ControllerMoves
<1>7. CASE Observe
  <2> DEFINE pending == {p \in ctl.todo : ~Confirmed(Answer(p))}
             again == pending # {} /\ ctl.tries < Observations
             S == IF again THEN pending ELSE {}
  <2>1. /\ ctl.pc = "drain" /\ UNCHANGED <<pod, late>> /\ UNCHANGED faults
        /\ ctl' = [ctl EXCEPT !.todo = pending, !.pc = IF again THEN "drain" ELSE "over",
                              !.tries = IF again THEN @ + 1 ELSE @]
        /\ Call(S, "terminal")
    BY <1>7 DEF Observe
  <2>2. pending \subseteq ctl.todo /\ (again => ctl.tries + 1 \in 0 .. Observations)
    BY <1>1, PanelAssumption
  <2>3. \A q \in Partitions \ pending : Swept(q)
    <3> TAKE q \in Partitions \ pending
    <3>1. CASE q \notin ctl.todo
      BY <2>1, <3>1 DEF IInv, CtlInv
    <3>2. CASE q \in ctl.todo
      <4>1. Confirmed(Answer(q))
        BY <3>2
      <4>2. Waited(q) # {}
        BY <2>1, <3>2 DEF IInv, CtlInv, Awaited
      <4> QED
        BY <4>1, <4>2, AnswersAreTrue DEF Confirmed, SeesTruly, Swept
    <3> QED
      BY <3>1, <3>2
  <2>4. again => S = pending
    OBVIOUS
  <2> HIDE DEF pending, again, S
  <2>5. /\ ctl' \in Controllers /\ ctl'.complete = ctl.complete /\ ctl'.todo = pending
        /\ ctl'.pc \in {"drain", "over"} /\ (ctl'.pc = "drain" => again)
    BY <1>1, <2>1, <2>2 DEF Controllers
  <2>6. Awaited' \subseteq S \cap Partitions
    BY <1>1, <2>2, <2>4, <2>5 DEF Awaited
  <2> QED
    BY <1>1, <2>1, <2>3, <2>5, <2>6, ControllerMoves
<1> QED
  BY <1>2, <1>3, <1>4, <1>5, <1>6, <1>7 DEF Controller

\* Its death.
LEMMA CrashStep ==
  ASSUME IInv, Crash
  PROVE  IInv'
<1> USE DEF IInv
<1>1. /\ ctl' \in Controllers /\ ctl'.pc = "dead" /\ ctl'.complete = ctl.complete
  BY DEF Crash, TypeOK, Controllers
<1> DEFINE new(q) == {[e EXCEPT !.waited = FALSE] : e \in {f \in exec[q] : f.at \in Writes}}
<1>2. ASSUME NEW q \in Partitions, NEW g \in new(q)
      PROVE  g \in Agents /\ ~g.waited /\ SeesTruly(q, g)
  <2>1. PICK e \in exec[q] : g = [e EXCEPT !.waited = FALSE]
    BY <1>2
  <2>2. e \in Agents /\ SeesTruly(q, e)
    BY DEF TypeOK, Pods, SeenInv, SeesTruly
  <2>3. g \in Agents /\ ~g.waited /\ g.seen = e.seen
    BY <2>1, <2>2 DEF Agents
  <2> QED
    BY <2>2, <2>3 DEF SeesTruly
<1>3. exec' = [q \in Partitions |-> new(q)]
  BY DEF Crash
<1> HIDE DEF new
<1>4. exec' \in [Partitions -> SUBSET Agents] /\ \A q \in Partitions : exec'[q] = new(q)
  BY <1>2, <1>3
<1>5. UNCHANGED pod /\ UNCHANGED late /\ Fault
  BY DEF Crash
<1>6. TypeOK'
  BY <1>1, <1>2, <1>4, <1>5, FaultCounts DEF TypeOK, Waited
<1>7. (\A q \in Partitions : PodInv(q))'
  BY <1>5 DEF Pods, PodInv, Off
<1>8. (\A q \in Partitions : SeenInv(q))'
  BY <1>2, <1>4, <1>5 DEF SeenInv, SeesTruly
<1>9. CtlInv'
  BY <1>1, <1>5 DEF CtlInv, Awaited, Whole
<1> QED
  BY <1>6, <1>7, <1>8, <1>9 DEF Pods

--------------------------------------------------------------------------------
(* All steps, and what follows. *)

\* Only time passes.
LEMMA StandStill ==
  ASSUME IInv, UNCHANGED ctl, UNCHANGED exec, UNCHANGED pod,
         late' \in BOOLEAN, faults' \in 0 .. MaxFaults
  PROVE  IInv'
<1> USE DEF IInv
<1>1. TypeOK'
  BY DEF TypeOK, Waited
<1>2. (\A q \in Partitions : PodInv(q))'
  BY DEF Pods, PodInv, Off
<1>3. \A q \in Partitions : Keeps(q)
  BY DEF Keeps
<1>4. CtlInv'
  BY <1>3, CtlStays DEF Waited
<1> QED
  BY <1>1, <1>2, <1>3, <1>4, SeenStays DEF Pods

LEMMA NextKeeps ==
  ASSUME IInv, [Next]_vars
  PROVE  IInv'
<1>1. late \in BOOLEAN /\ faults \in 0 .. MaxFaults /\ TypeOK /\ \A p \in Partitions : PodInv(p)
  BY DEF IInv, TypeOK, Pods
<1>2. CASE Controller
  BY <1>2, ControllerSteps
<1>3. CASE Crash
  BY <1>3, CrashStep
<1>4. CASE Deadline
  <2>1. UNCHANGED ctl /\ UNCHANGED exec /\ UNCHANGED pod /\ UNCHANGED faults
    BY <1>4 DEF Deadline
  <2>2. late' \in BOOLEAN
    BY <1>4, Zenon DEF Deadline
  <2> QED
    BY <1>1, <2>1, <2>2, StandStill
<1>5. ASSUME NEW p \in Partitions, AgentStep(p)
      PROVE  IInv'
  BY <1>5, AgentSteps
<1>6. ASSUME NEW p \in Partitions, NEW e \in exec[p], Timeout(p, e)
      PROVE  IInv'
  BY <1>6, TimeoutStep
<1>7. ASSUME NEW p \in Partitions, \/ Supervisor(p) \/ StopRaises(p) \/ Unsaid(p) \/ VerifyFails(p)
      PROVE  IInv'
  <2>1. PodStep(p)
    BY <1>1, <1>7, SupervisorSteps DEF Supervisor
  <2>2. UNCHANGED <<ctl, exec>> /\ UNCHANGED late /\ (Fault \/ UNCHANGED faults)
    BY <1>7 DEF Supervisor, Launch, Watch, StopOwned, Finish, StopRaises, Unsaid, VerifyFails,
                   Supervise
  <2> QED
    BY <1>1, <2>1, <2>2, FaultCounts, PodOnly
<1>8. ASSUME NEW p \in Partitions,
             \/ KillSupervisor(p) \/ WorkerExits(p) \/ WriteExit(p) \/ LauncherEnds(p) \/ Expire(p)
      PROVE  IInv'
  <2>1. PodStep(p)
    BY <1>1, <1>8, ProcessSteps
  <2>2. UNCHANGED <<ctl, exec>> /\ UNCHANGED late /\ (Fault \/ UNCHANGED faults)
    BY <1>8 DEF KillSupervisor, WorkerExits, WriteExit, LauncherEnds, Expire
  <2> QED
    BY <1>1, <2>1, <2>2, FaultCounts, PodOnly
<1>9. CASE UNCHANGED vars
  <2>1. UNCHANGED ctl /\ UNCHANGED exec /\ UNCHANGED pod /\ UNCHANGED late /\ UNCHANGED faults
    BY <1>9 DEF vars
  <2> QED
    BY <1>1, <2>1, StandStill
<1> QED
  BY <1>2, <1>3, <1>4, <1>5, <1>6, <1>7, <1>8, <1>9 DEF Next

\* The inductive invariant holds in every reachable state.
THEOREM Invariance == Spec => []IInv
<1>1. Init => IInv
  BY InitIInv
<1>2. IInv /\ [Next]_vars => IInv'
  BY NextKeeps
<1> QED
  BY <1>1, <1>2, PTL DEF Spec

\* Files, processes, calls and the controller's state are of the forms the scripts
\* give them; a controller waits for at most one answer of a partition.
THEOREM TypeCorrect == Spec => []TypeOK
<1>1. IInv => TypeOK
  BY DEF IInv
<1> QED
  BY <1>1, Invariance, PTL

\* A panel reported complete was played in full, in time and cleanly by every
\* partition (coordinate_fullgame_panels.py:391-414).
THEOREM CompleteIsWholeHolds == Spec => []CompleteIsWhole
<1>1. IInv => CompleteIsWhole
  BY DEF IInv, Pods, PodInv, CtlInv, Whole, CompleteIsWhole
<1> QED
  BY <1>1, Invariance, PTL

\* A partition whose cleanup was verified runs no worker and never will, and no receipt
\* told of what outlived one (coordinate_fullgame_panels.py:313-349).
THEOREM VerifiedIsAsToldHolds == Spec => []VerifiedIsAsTold
<1>1. IInv => VerifiedIsAsTold
  <2> SUFFICES ASSUME IInv, ctl.pc = "over", NEW p \in Partitions \ ctl.todo
               PROVE  /\ ~Running(p) /\ pod[p].worker # "run"
                      /\ pod[p].left => pod[p].cleanup = "unsaid"
    BY DEF VerifiedIsAsTold
  <2>1. PodInv(p) /\ pod[p].term # None /\ pod[p].term.clean
    BY DEF IInv, Pods, CtlInv, Swept
  <2>2. pod[p].cleanup \in {"unsaid", "ok", "failed"}
    BY DEF IInv, TypeOK, PodStates
  <2> QED
    BY <2>1, <2>2 DEF PodInv, Off, Running
<1> QED
  BY <1>1, Invariance, PTL

\* No shard starts beside what an earlier one left in its pod
\* (run_fullgame_panel.py:425-442).
THEOREM OneShardAtATimeHolds == Spec => []OneShardAtATime
<1>1. IInv => OneShardAtATime
  BY DEF IInv, Pods, PodInv, OneShardAtATime
<1> QED
  BY <1>1, Invariance, PTL
================================================================================
