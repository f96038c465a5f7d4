------------------------------- MODULE FanInFleet -------------------------------
(***************************************************************************)
(* The fan-in workers of one iteration (src/pokezero/fleet_worker.py):     *)
(* processes drain a filesystem queue, collect a task each, and append it  *)
(* to the cumulative versions "<lineage>-v<k>" of a shared cache.          *)
(*                                                                         *)
(* A task's path is: claim its manifest; finish a pending publication of   *)
(* an earlier claim; look the task up in the selected inventory; collect;  *)
(* recover and look up once more; take the task's guard; look up again;    *)
(* take the lineage's publish lock; read the lineage's current version;    *)
(* stage and fence-check; rename the target into view; have it accepted;   *)
(* look it up; write the done marker under two proofs; prune.  A failed    *)
(* read of something a peer may legally change recycles the process, with  *)
(* its claim preserved; everything it takes for corruption is terminal.    *)
(*                                                                         *)
(* The guard chain is atomic here: FanInFence is its filesystem protocol,  *)
(* and TasksCommit below shows the fleet only uses what FanInCommit says.   *)
(***************************************************************************)
EXTENDS Naturals, Sequences, FiniteSets, Functions

CONSTANTS
  Workers,        \* worker processes
  Tasks,          \* queue manifests of the iteration
  None,           \* "no shard", "no lineage owner"
  Deployments,    \* the fleets considered: see Init
  MaxClaims,      \* bound on claim generations
  ScanAttempts    \* _SELECTED_FANIN_READ_ATTEMPTS (3)

ASSUME FleetAssumption ==
  /\ IsFiniteSet(Workers) /\ IsFiniteSet(Tasks)
  /\ MaxClaims \in Nat /\ ScanAttempts \in Nat \ {0}
  /\ \A d \in Deployments : DOMAIN d.lineage = Workers /\ d.crashers \subseteq Workers
  /\ None \notin [lineage : UNION {Range(d.lineage) : d \in Deployments}, version : Nat,
                   tasks : Seq(Tasks), claim : Nat]

VARIABLES
  deployment,       \* which fleet this is; never changes
  \* the queue mount
  pending, failed,  \* tasks whose manifest is in pending/, in failed/
  task,             \* the task of each claim generation made so far
  held,             \* claim generations whose manifest is in claimed/
  done,             \* the claim that wrote each task's done marker, or 0
  \* the cache mount
  guard,            \* claims that ever held each task's guard, in order
  released,         \* claims whose guard generation has its release marker
  accepted,         \* the publication accepted for each task, or None
  lock,             \* the claim named in each lineage's publish lock, or 0
  shards,           \* visible target versions
  offered,          \* claims whose target was ever visible
  \* the processes
  pc, phase,        \* what a process does, and what its inventory read is for
  claim,            \* the claim generation it works on, or 0
  view, scans,      \* the versions its read listed, and its retries
  pub,              \* the publication it recovers or prepares
  sel               \* the accepted version it relies on

queue == <<pending, failed, task, held, done>>
cache == <<guard, released, accepted, lock, shards, offered>>
local == <<phase, claim, view, scans, pub, sel>>
vars  == <<deployment, queue, cache, pc, local>>

\* The shard base of a process's worker id, and the processes that may die.
Lineage  == deployment.lineage
Lineages == Range(Lineage)
Crashers == deployment.crashers
ClaimIds == 1..MaxClaims

\* A version: who publishes it, and the cumulative manifest it carries.
Shards == [lineage : Lineages, version : 1..MaxClaims, tasks : Seq(Tasks), claim : ClaimIds]

Init ==
  /\ deployment \in Deployments
  /\ pending = Tasks /\ failed = {} /\ task = <<>> /\ held = {}
  /\ done = [t \in Tasks |-> 0]
  /\ guard = [t \in Tasks |-> <<>>] /\ released = {}
  /\ accepted = [t \in Tasks |-> None]
  /\ lock = [l \in Lineages |-> 0] /\ shards = {} /\ offered = {}
  /\ pc = [p \in Workers |-> "idle"] /\ phase = [p \in Workers |-> "recover"]
  /\ claim = [p \in Workers |-> 0] /\ view = [p \in Workers |-> {}]
  /\ scans = [p \in Workers |-> 0]
  /\ pub = [p \in Workers |-> None] /\ sel = [p \in Workers |-> None]

--------------------------------------------------------------------------------
(* Reading the inventory.  Names beginning with Fault are plausible bugs   *)
(* of the definition below them; no specification uses them.               *)

Mine(p) == task[claim[p]]
Has(s, t) == t \in Range(s.tasks)
Holder(t) == IF guard[t] = <<>> THEN 0 ELSE guard[t][Len(guard[t])]

\* The i-th manifest entry of s is authenticated by its task's acceptance.
Bound(s, i) == LET a == accepted[s.tasks[i]]
               IN /\ Len(a.tasks) = i
                  /\ a.version <= s.version
                  /\ a.tasks = SubSeq(s.tasks, 1, i)

\* Why _fanin_candidate_acceptance_evidence stops at the i-th entry of s.
Entry(s, i) ==
  LET a == accepted[s.tasks[i]]
  IN IF a = None THEN IF i = Len(s.tasks) /\ guard[s.tasks[i]] # <<>>
                        THEN "none" ELSE "error"
     ELSE IF a.lineage # s.lineage THEN "none"
     ELSE IF Bound(s, i) THEN "ok" ELSE "error"

\* What it concludes of version s: usable input, not selectable, or corruption.
FaultSeen(s) == IF \A t \in Range(s.tasks) : accepted[t] # None THEN "ok" ELSE "none"
FaultVisible(s) == IF accepted[s.tasks[Len(s.tasks)]] = None THEN "ok" ELSE "none"
Evidence(s) ==
  LET stops == {i \in 1..Len(s.tasks) : Entry(s, i) # "ok"}
  IN IF stops # {} THEN Entry(s, CHOOSE i \in stops : \A j \in stops : i <= j)
     ELSE IF accepted[s.tasks[Len(s.tasks)]] = s THEN "ok" ELSE "none"

\* The highest version of a listing on which a top-down read stops, per lineage.
Stops(V) ==
  LET halting == {s \in V : s \notin shards \/ Evidence(s) # "none"}
  IN {s \in halting : \A r \in halting : r.lineage = s.lineage => r.version <= s.version}

\* What an undisturbed reader selects as training input now.
Selected == {s \in Stops(shards) : Evidence(s) = "ok"}
Input    == UNION {Range(s.tasks) : s \in Selected}

\* What the read for each purpose lists: everything, or one lineage.
Listing(p) == IF phase[p] = "current"
                THEN {s \in shards : s.lineage = Lineage[p]} ELSE shards

--------------------------------------------------------------------------------
(* How a process moves on. *)

Goto(p, l) == pc' = [pc EXCEPT ![p] = l]

\* Start an inventory read for purpose w.
Look(p, w) == /\ Goto(p, "list")
              /\ phase' = [phase EXCEPT ![p] = w]
              /\ view' = [view EXCEPT ![p] = {}]
              /\ scans' = [scans EXCEPT ![p] = 0]

\* Leave the task in state l; on the way out the guard it owns is released.
FaultReleased(p) == released \cup {claim[p]}
Released(p) == released \cup ({claim[p]} \cap Range(guard[Mine(p)]))

Forget(p) == /\ phase' = [phase EXCEPT ![p] = "recover"]
             /\ claim' = [claim EXCEPT ![p] = 0]
             /\ view' = [view EXCEPT ![p] = {}]
             /\ scans' = [scans EXCEPT ![p] = 0]
             /\ pub' = [pub EXCEPT ![p] = None]
             /\ sel' = [sel EXCEPT ![p] = None]
Leave(p, l) == /\ Goto(p, l) /\ Forget(p)
               /\ released' = Released(p)

Drop(p)     == Leave(p, "idle")      \* next task
Recycle(p)  == Leave(p, "down")      \* _FanInTransientError: exit 0, claim preserved
Terminal(p) == Leave(p, "terminal")  \* FanInInventoryValidationError: exit 2
Abort(p)    == Leave(p, "aborted")   \* a _SelectedFanInVersionVanishedError nobody maps

--------------------------------------------------------------------------------
(* The queue. *)

Claim(p, t) ==
  /\ pc[p] = "idle" /\ t \in pending /\ Len(task) < MaxClaims
  /\ pending' = pending \ {t}
  /\ task' = Append(task, t)
  /\ held' = held \cup {Len(task) + 1}
  /\ claim' = [claim EXCEPT ![p] = Len(task) + 1]
  /\ Goto(p, "recover")
  /\ UNCHANGED <<failed, done, cache, phase, view, scans, pub, sel>>

\* The stale-claim reaper puts a claimed manifest back.
Reap(c) ==
  /\ c \in held
  /\ held' = held \ {c}
  /\ pending' = pending \cup {task[c]}
  /\ UNCHANGED <<failed, task, done, cache, pc, local>>

\* collect_fn, then the entry of _publish_fanin_task.
Collect(p) ==
  /\ pc[p] = "collect"
  /\ \/ /\ claim[p] \in held /\ Goto(p, "recover")
        /\ phase' = [phase EXCEPT ![p] = "publish"]
        /\ UNCHANGED <<claim, view, scans, pub, sel, released>>
     \/ claim[p] \notin held /\ Drop(p)
  /\ UNCHANGED <<queue, guard, accepted, lock, shards, offered>>

CollectFails(p) ==
  /\ pc[p] = "collect"
  /\ IF claim[p] \in held
       THEN held' = held \ {claim[p]} /\ failed' = failed \cup {Mine(p)}
       ELSE UNCHANGED <<held, failed>>
  /\ Drop(p)
  /\ UNCHANGED <<pending, task, done, guard, accepted, lock, shards, offered>>

--------------------------------------------------------------------------------
(* Recovery of a target that was published but not accepted. *)

Pending(p) == {s \in shards : s.claim = Holder(Mine(p))}

\* What a process that prunes removes.
FaultStale(p) == {s \in shards : s.version < pub[p].version}
Stale(p) == {s \in shards : s.lineage = Lineage[p] /\ s.version < pub[p].version}

\* A version that p's glob listed may go before p opens it.
PrunedMeanwhile(p) == \E q \in Workers \ {p} : pc[q] = "prune" /\ Stale(q) # {}

Recover(p) ==
  /\ pc[p] = "recover"
  /\ \/ /\ accepted[Mine(p)] # None \/ Pending(p) = {}
        /\ Look(p, phase[p])
        /\ UNCHANGED <<claim, pub, sel, released>>
     \/ /\ accepted[Mine(p)] = None
        /\ \E s \in Pending(p) :
             /\ Pending(p) = {s}
             /\ pub' = [pub EXCEPT ![p] = s]
        /\ Goto(p, "adopt")
        /\ UNCHANGED <<phase, claim, view, scans, sel, released>>
     \/ /\ accepted[Mine(p)] = None /\ Cardinality(Pending(p)) > 1
        /\ Terminal(p)
     \/ /\ accepted[Mine(p)] = None /\ guard[Mine(p)] # <<>>
        /\ PrunedMeanwhile(p)
        /\ Recycle(p)
  /\ UNCHANGED <<queue, guard, accepted, lock, shards, offered>>

\* _accept_fanin_publication: the tail's own publication wins the outcome slot.  A target
\* that is pruned before Adopt verifies its payload raises there; after it, nothing tells.
FaultMayAccept(p) == accepted[Mine(p)] = None
MayAccept(p) == accepted[Mine(p)] = None /\ Holder(Mine(p)) = pub[p].claim

Adopt(p) ==
  /\ pc[p] = "adopt"
  /\ \/ /\ accepted[Mine(p)] # None \/ MayAccept(p)
        /\ accepted' = IF MayAccept(p) THEN [accepted EXCEPT ![Mine(p)] = pub[p]] ELSE accepted
        /\ Look(p, phase[p])
        /\ UNCHANGED <<claim, pub, sel, released>>
     \/ /\ accepted[Mine(p)] = None /\ ~MayAccept(p)
        /\ Recycle(p)
        /\ UNCHANGED accepted
     \/ /\ pub[p] \notin shards
        /\ Abort(p)
        /\ UNCHANGED accepted
  /\ UNCHANGED <<queue, guard, lock, shards, offered>>

--------------------------------------------------------------------------------
(* Inventory reads: list the versions, judge them later, and act on it.    *)

List(p) ==
  /\ pc[p] = "list"
  /\ view' = [view EXCEPT ![p] = Listing(p)]
  /\ Goto(p, "judge")
  /\ UNCHANGED <<queue, cache, phase, claim, scans, pub, sel>>

\* The versions the read selects, and those of them that hold the task.
Read(p) == Stops(view[p])
Hits(p) == {s \in Read(p) : Has(s, Mine(p))}
Clean(p) == \A s \in Read(p) : s \in shards /\ Evidence(s) = "ok"

\* A listed version is gone: read again, or give up and recycle.
JudgeVanished(p) ==
  /\ pc[p] = "judge" /\ \E s \in Read(p) : s \notin shards
  /\ \/ /\ phase[p] # "current" /\ scans[p] + 1 < ScanAttempts
        /\ scans' = [scans EXCEPT ![p] = @ + 1]
        /\ view' = [view EXCEPT ![p] = {}]
        /\ Goto(p, "list")
        /\ UNCHANGED <<phase, claim, pub, sel, released>>
     \/ /\ phase[p] = "current" \/ scans[p] + 1 >= ScanAttempts
        /\ Recycle(p)
  /\ UNCHANGED <<queue, guard, accepted, lock, shards, offered>>

\* Corrupt evidence, or the task in two selected versions.
JudgeCorrupt(p) ==
  /\ pc[p] = "judge"
  /\ \/ \E s \in Read(p) : s \in shards /\ Evidence(s) = "error"
     \/ Clean(p) /\ phase[p] # "current" /\ Cardinality(Hits(p)) > 1
  /\ Terminal(p)
  /\ UNCHANGED <<queue, guard, accepted, lock, shards, offered>>

JudgeFound(p) ==
  /\ pc[p] = "judge" /\ Clean(p)
  /\ \E s \in Hits(p) : Hits(p) = {s} /\ sel' = [sel EXCEPT ![p] = s]
  /\ view' = [view EXCEPT ![p] = {}]
  /\ Goto(p, "mark")
  /\ UNCHANGED <<queue, cache, phase, claim, scans, pub>>

\* The task is not input yet: what the caller does next.
JudgeAbsent(p) ==
  /\ pc[p] = "judge" /\ Clean(p) /\ Hits(p) = {} /\ phase[p] # "current"
  /\ \/ /\ phase[p] \in {"recover", "publish", "leased"}
        /\ claim[p] \in held /\ done[Mine(p)] = 0
        /\ Goto(p, CASE phase[p] = "recover" -> "collect"
                     [] phase[p] = "publish" -> "lease"
                     [] phase[p] = "leased"  -> "lock")
        /\ view' = [view EXCEPT ![p] = {}]
        /\ UNCHANGED <<phase, claim, scans, pub, sel, released>>
     \/ /\ phase[p] \in {"recover", "publish", "leased"} /\ claim[p] \notin held
        /\ ~(phase[p] = "recover" /\ done[Mine(p)] # 0)
        /\ Drop(p)
     \/ /\ phase[p] = "recover" /\ done[Mine(p)] # 0
        /\ Terminal(p)
     \/ /\ phase[p] \in {"publish", "leased"} /\ claim[p] \in held /\ done[Mine(p)] # 0
        /\ Terminal(p)
     \/ phase[p] = "collided" /\ Recycle(p)
     \/ phase[p] = "accepted" /\ Terminal(p)
  /\ UNCHANGED <<queue, guard, accepted, lock, shards, offered>>

\* The lineage's current version does not hold the task: prepare its successor.
Top(V) == IF V = {} THEN 0 ELSE CHOOSE n \in {s.version : s \in V} : \A s \in V : s.version <= n
Successor(p) ==
  [lineage |-> Lineage[p], version |-> Top(view[p]) + 1, claim |-> claim[p],
   tasks |-> IF Read(p) = {} THEN <<Mine(p)>>
             ELSE Append((CHOOSE s \in Read(p) : TRUE).tasks, Mine(p))]

ReadCurrent(p) ==
  /\ pc[p] = "judge" /\ phase[p] = "current" /\ Clean(p) /\ Hits(p) = {}
  /\ pub' = [pub EXCEPT ![p] = Successor(p)]
  /\ sel' = [sel EXCEPT ![p] = IF Read(p) = {} THEN None ELSE CHOOSE s \in Read(p) : TRUE]
  /\ view' = [view EXCEPT ![p] = {}]
  /\ Goto(p, "stage")
  /\ UNCHANGED <<queue, cache, phase, claim, scans>>

--------------------------------------------------------------------------------
(* Publication. *)

\* _acquire_fanin_task_publication_lease; a dead owner's lease may have expired.
Lease(p) ==
  /\ pc[p] = "lease"
  /\ LET t == Mine(p) o == Holder(t)
     IN \/ /\ accepted[t] = None
           /\ o = 0 \/ o \in released \/ o \notin held
           /\ guard' = [guard EXCEPT ![t] = Append(@, claim[p])]
           /\ Look(p, "leased")
           /\ UNCHANGED <<claim, pub, sel, released>>
        \/ /\ accepted[t] # None \/ (o # 0 /\ o \notin released)
           /\ Recycle(p)
           /\ UNCHANGED guard
  /\ UNCHANGED <<queue, accepted, lock, shards, offered>>

\* The base guard is held by another process of the lineage, or by one that died with it.
BaseGuardHeld(p) ==
  \E q \in Workers : Lineage[q] = Lineage[p] /\ (q \in Crashers \/ (q # p /\ pc[q] = "lock"))

\* _acquire_fanin_publish_lock, one critical section under the base guard.
Lock(p) ==
  /\ pc[p] = "lock"
  /\ \/ /\ lock[Lineage[p]] \notin held \ {claim[p]}
        /\ lock' = [lock EXCEPT ![Lineage[p]] = claim[p]]
        /\ Look(p, "current")
        /\ UNCHANGED <<claim, pub, sel, released>>
     \/ /\ lock[Lineage[p]] \in held \ {claim[p]} \/ BaseGuardHeld(p)
        /\ Recycle(p)
        /\ UNCHANGED lock
  /\ UNCHANGED <<queue, guard, accepted, shards, offered>>

\* Build the successor version from the current one, then check the fence.
Stage(p) ==
  /\ pc[p] = "stage"
  /\ LET current == sel[p] = None \/ sel[p] \in shards
         fenced  == /\ claim[p] \in held /\ Holder(Mine(p)) = claim[p]
                    /\ accepted[Mine(p)] = None
     IN \/ ~current /\ Abort(p)
        \/ current /\ ~fenced /\ Drop(p)
        \/ current /\ fenced /\ Goto(p, "rename") /\ UNCHANGED <<local, released>>
  /\ UNCHANGED <<queue, guard, accepted, lock, shards, offered>>

Collides(p) == \E s \in shards : s.lineage = pub[p].lineage /\ s.version = pub[p].version

RenameTarget(p) ==
  /\ pc[p] = "rename"
  /\ \/ /\ ~Collides(p)
        /\ shards' = shards \cup {pub[p]}
        /\ offered' = offered \cup {claim[p]}
        /\ Goto(p, "accept")
        /\ UNCHANGED <<phase, view, scans>>
     \/ /\ Collides(p)
        /\ Look(p, "collided")
        /\ UNCHANGED <<shards, offered>>
  /\ UNCHANGED <<queue, guard, released, accepted, lock, claim, pub, sel>>

Accept(p) ==
  /\ pc[p] = "accept"
  /\ \/ /\ pub[p] \in shards
        /\ accepted[Mine(p)] # None \/ MayAccept(p)
        /\ accepted' = IF MayAccept(p) THEN [accepted EXCEPT ![Mine(p)] = pub[p]] ELSE accepted
        /\ Look(p, "accepted")
        /\ UNCHANGED <<claim, pub, sel, released>>
     \/ /\ pub[p] \in shards /\ accepted[Mine(p)] = None /\ ~MayAccept(p)
        /\ Recycle(p)
        /\ UNCHANGED accepted
     \/ /\ pub[p] \notin shards
        /\ Abort(p)
        /\ UNCHANGED accepted
  /\ UNCHANGED <<queue, guard, lock, shards, offered>>

--------------------------------------------------------------------------------
(* Acknowledgement (_complete_claim) and pruning. *)

\* Prove the selected version, then link the done marker if there is none.
Mark(p) ==
  /\ pc[p] = "mark"
  /\ \/ /\ sel[p] \in shards
        /\ done' = IF done[Mine(p)] = 0 THEN [done EXCEPT ![Mine(p)] = claim[p]] ELSE done
        /\ Goto(p, "proof")
        /\ UNCHANGED <<local, released>>
     \/ /\ sel[p] \notin shards
        /\ Abort(p)
        /\ UNCHANGED done
  /\ UNCHANGED <<pending, failed, task, held, guard, accepted, lock, shards, offered>>

\* Prove it again: retire the claim, or undo the marker this claim wrote.
Undone(p) == IF done[Mine(p)] = claim[p] THEN [done EXCEPT ![Mine(p)] = 0] ELSE done

\* Its own acceptance prunes; every other completion returns at once.
Prunes(p) == phase[p] = "accepted" /\ accepted[Mine(p)] = pub[p]

Proof(p) ==
  /\ pc[p] = "proof"
  /\ \/ /\ sel[p] \in shards
        /\ held' = held \ {claim[p]}
        /\ \/ Prunes(p) /\ Goto(p, "prune") /\ UNCHANGED <<local, released>>
           \/ ~Prunes(p) /\ Drop(p)
        /\ UNCHANGED done
     \/ /\ sel[p] \notin shards
        /\ done' = Undone(p)
        /\ Abort(p)
        /\ UNCHANGED held
  /\ UNCHANGED <<pending, failed, task, guard, accepted, lock, shards, offered>>

Prune(p) ==
  /\ pc[p] = "prune"
  /\ shards' = shards \ Stale(p)
  /\ Drop(p)
  /\ UNCHANGED <<queue, guard, accepted, lock, offered>>

--------------------------------------------------------------------------------
(* Processes come and go: a process dies with its locals, and the pod's    *)
(* respawn loop starts the next one under the same worker id.              *)

Crash(p) ==
  /\ p \in Crashers /\ pc[p] \notin {"idle", "down", "terminal", "aborted"}
  /\ Goto(p, "down") /\ Forget(p)
  /\ UNCHANGED <<queue, cache>>

Respawn(p) ==
  /\ pc[p] \in {"down", "terminal", "aborted"}
  /\ Goto(p, "idle")
  /\ UNCHANGED <<queue, cache, local>>

Inventory(p) == \/ List(p) \/ JudgeVanished(p) \/ JudgeCorrupt(p) \/ JudgeFound(p)
                \/ JudgeAbsent(p) \/ ReadCurrent(p)
Publish(p)   == \/ Lease(p) \/ Lock(p) \/ Stage(p) \/ RenameTarget(p) \/ Accept(p)
                \/ Mark(p) \/ Proof(p) \/ Prune(p)

Next == \/ \E p \in Workers :
             \/ \E t \in Tasks : Claim(p, t)
             \/ Collect(p) \/ CollectFails(p) \/ Recover(p) \/ Adopt(p)
             \/ Inventory(p) \/ Publish(p) \/ Crash(p) \/ Respawn(p)
        \/ \E c \in ClaimIds : Reap(c)

NextInDeployment == Next /\ UNCHANGED deployment

Spec == Init /\ [][NextInDeployment]_vars

--------------------------------------------------------------------------------
TypeOK ==
  /\ pending \subseteq Tasks /\ failed \subseteq Tasks
  /\ task \in Seq(Tasks) /\ Len(task) <= MaxClaims
  /\ held \subseteq 1..Len(task)
  /\ done \in [Tasks -> 0..Len(task)]
  /\ guard \in [Tasks -> Seq(ClaimIds)] /\ released \subseteq UNION {Range(guard[t]) : t \in Tasks}
  /\ accepted \in [Tasks -> Shards \cup {None}]
  /\ lock \in [Lineages -> 0..Len(task)]
  /\ shards \subseteq Shards /\ offered \subseteq ClaimIds
  /\ pc \in [Workers -> {"idle", "recover", "adopt", "list", "judge", "collect", "lease",
                         "lock", "stage", "rename", "accept", "mark", "proof", "prune",
                         "down", "terminal", "aborted"}]
  /\ phase \in [Workers -> {"recover", "publish", "leased", "current", "collided", "accepted"}]
  /\ claim \in [Workers -> 0..Len(task)]
  /\ view \in [Workers -> SUBSET Shards] /\ scans \in [Workers -> 0..(ScanAttempts - 1)]
  /\ pub \in [Workers -> Shards \cup {None}] /\ sel \in [Workers -> Shards \cup {None}]

(* Training input never repeats a task: not across the selected versions   *)
(* of different workers, not within one cumulative manifest.               *)
InputNeverRepeats ==
  /\ \A s \in Selected : IsInjective(s.tasks)
  /\ \A r, s \in Selected : r # s => Range(r.tasks) \cap Range(s.tasks) = {}

(* A done marker always answers for an accepted publication of that task.  *)
DoneIsAccepted == \A t \in Tasks : done[t] # 0 => accepted[t] # None

(* An acknowledged task is training input: what fleet_worker.py:26-28      *)
(* promises of a drained queue, crashes included.                          *)
DoneIsInput == \A t \in Tasks : done[t] # 0 => t \in Input

(* It is in a fleet of workers with ids of their own whose processes do    *)
(* not die, however often claims are requeued under a live worker: no step *)
(* takes an acknowledged task out of the selected inventory, pruning       *)
(* (fleet_worker.py:4567) included.                                        *)
DoneIsInputAlive == Crashers = {} /\ IsInjective(Lineage) => DoneIsInput

(* Every task is pending, claimed, failed or done.                         *)
NoTaskLost ==
  \A t \in Tasks : \/ t \in pending \cup failed \/ done[t] # 0
                   \/ \E c \in held : task[c] = t

(* Every task's guard, targets and acceptance implement FanInCommit.       *)
Of(t) == {c \in offered : task[c] = t}
Winner(t) == IF accepted[t] = None THEN 0 ELSE accepted[t].claim
Commit(t) == INSTANCE FanInCommit WITH Claims <- ClaimIds, NoClaim <- 0,
               holders <- guard[t], offered <- Of(t), winner <- Winner(t)
TasksCommit == /\ \A t \in Tasks : Commit(t)!Init
               /\ [][\A t \in Tasks : UNCHANGED Commit(t)!commitVars \/ Commit(t)!Next]_vars
================================================================================
