------------------------------- MODULE FanInFence -------------------------------
(***************************************************************************)
(* One task-publication guard of the fan-in protocol: the directory chain  *)
(* of src/pokezero/fleet_worker.py that decides which claim generation may *)
(* publish a task and which published target becomes training input.       *)
(*                                                                         *)
(* Generation k+1 and the acceptance of generation k compete for ONE       *)
(* pathname derived from generation k, and the only mutation is a rename   *)
(* of an initialised directory onto it.  Everything else is reading: a     *)
(* walk along the outcomes, then an enumeration of installed names, with   *)
(* peers moving between the two.  An owner renews its record from a        *)
(* heartbeat thread; a rival may succeed it once it released, or once its  *)
(* lease expired and its claim is no longer live.                          *)
(*                                                                         *)
(* A member of Claims is one claim generation and the worker attempt that  *)
(* holds it: claim pathnames carry a fresh uuid and are never reused.      *)
(***************************************************************************)
EXTENDS Naturals, Sequences, FiniteSets

CONSTANTS
  Claims,             \* claim generations of this task
  NoClaim,            \* "no acceptance", "no publication"
  MaxGenerations,     \* _FANIN_GUARD_CHAIN_MAX_GENERATIONS (4096 in the code)
  AcquireAttempts,    \* _FANIN_GUARD_ACQUIRE_ATTEMPTS (8)
  TraversalAttempts   \* _FANIN_FENCE_TRAVERSAL_ATTEMPTS (4)

ASSUME NoClaimAssumption == NoClaim \notin Claims
ASSUME BoundsAssumption  == /\ MaxGenerations \in Nat \ {0}
                            /\ AcquireAttempts \in Nat \ {0}
                            /\ TraversalAttempts \in Nat \ {0}

VARIABLES
  \* the cache mount
  chain,      \* owner claim of each installed generation, oldest first
  accepted,   \* the publication in the last generation's outcome slot
  released,   \* generations (by owner) whose release marker exists
  fresh,      \* generations whose owner record was renewed within the lease
  targets,    \* generations whose target version has been renamed into view
  \* the queue mount
  live,       \* claims whose token and manifest are both still in claimed/
  \* the worker attempts
  pc, why,    \* what each attempt is doing, and what its walk is for
  depth,      \* generations its walk has passed
  sawFresh,   \* whether the owner record its walk read last was in lease
  tries,      \* traversals begun for the current read
  rounds,     \* successor installations attempted
  pub,        \* the publication it is trying to have accepted
  verdict,    \* how the attempt ended
  hb          \* its heartbeat thread

mount   == <<chain, accepted, released, targets>>
reading == <<depth, sawFresh, tries>>
vars    == <<chain, accepted, released, fresh, targets, live, pc, why, depth,
             sawFresh, tries, rounds, pub, verdict, hb>>

Owns(c)    == \E i \in 1..Len(chain) : chain[i] = c
Current(c) == Len(chain) > 0 /\ chain[Len(chain)] = c /\ accepted = NoClaim

Init ==
  /\ chain = <<>> /\ accepted = NoClaim
  /\ released = {} /\ fresh = {} /\ targets = {} /\ live = {}
  /\ pc = [c \in Claims |-> "idle"] /\ why = [c \in Claims |-> "recover"]
  /\ depth = [c \in Claims |-> 0] /\ sawFresh = [c \in Claims |-> FALSE]
  /\ tries = [c \in Claims |-> 0] /\ rounds = [c \in Claims |-> 0]
  /\ pub = [c \in Claims |-> NoClaim]
  /\ verdict = [c \in Claims |-> "none"] /\ hb = [c \in Claims |-> "off"]

--------------------------------------------------------------------------------
(* The decisions of the protocol.  A definition whose name begins with     *)
(* Fault is the next one with a plausible bug; no specification uses it.   *)

\* The outcome pathname a walk found absent is still absent: the condition under
\* which a rename onto it succeeds instead of colliding.
SlotFree(c) == depth[c] = Len(chain) /\ accepted = NoClaim

SuccessorWins(c) == SlotFree(c)

FaultAcceptanceWins(c) == accepted = NoClaim
AcceptanceWins(c) == SlotFree(c)

\* The publication names the generation the walk ended at.
FaultPublicationIsTail(c) == depth[c] > 0
PublicationIsTail(c) == depth[c] > 0 /\ chain[depth[c]] = pub[c]

\* _fanin_generation_is_active, for an owner record read with that lease state.
FaultActive(o, inLease) == o \notin released /\ inLease
Active(o, inLease) == o \notin released /\ (inLease \/ o \in live)

FaultLastTraversal(c) == TRUE
LastTraversal(c) == tries[c] + 1 >= TraversalAttempts

\* The main thread can take the owner lock.
FaultLockFree(c) == hb[c] = "off"
LockFree(c) == hb[c] # "renewing"

--------------------------------------------------------------------------------
(* Control transfers shared by the steps below. *)

Goto(c, l) == pc' = [pc EXCEPT ![c] = l]

\* Begin _read_current_fanin_fence for purpose w.
Walk(c, w) == /\ Goto(c, "walk")
              /\ why' = [why EXCEPT ![c] = w]
              /\ depth' = [depth EXCEPT ![c] = 0]
              /\ tries' = [tries EXCEPT ![c] = 0]
              /\ sawFresh' = [sawFresh EXCEPT ![c] = FALSE]

\* The locals of an attempt go with its frame.
Forget(c) == /\ why' = [why EXCEPT ![c] = "recover"]
             /\ depth' = [depth EXCEPT ![c] = 0]
             /\ sawFresh' = [sawFresh EXCEPT ![c] = FALSE]
             /\ tries' = [tries EXCEPT ![c] = 0]
             /\ rounds' = [rounds EXCEPT ![c] = 0]
             /\ pub' = [pub EXCEPT ![c] = NoClaim]

\* Return or raise; an attempt that installed a generation releases it first.
Finish(c, v) == /\ verdict' = [verdict EXCEPT ![c] = v]
                /\ Goto(c, IF Owns(c) THEN "release" ELSE "done")
                /\ Forget(c)

\* The attempt's main thread is inside "with fence.owner_lock".
MainHoldsLock(c) == /\ pub[c] = c
                    /\ why[c] \in {"accept", "confirm"}
                    /\ pc[c] \in {"walk", "scan", "commit"}

--------------------------------------------------------------------------------
(* The attempt: recover a pending publication, else acquire the guard,     *)
(* publish a target under it, and race its acceptance.                     *)

Start(c) == /\ pc[c] = "idle"
            /\ live' = live \cup {c}
            /\ Walk(c, "recover")
            /\ UNCHANGED <<mount, fresh, rounds, pub, verdict, hb>>

\* The outcome (or the root) exists and is a generation: step onto it.
ReadGeneration(c) ==
  /\ pc[c] = "walk" /\ depth[c] < Len(chain)
  /\ \/ /\ depth[c] < MaxGenerations
        /\ depth' = [depth EXCEPT ![c] = @ + 1]
        /\ sawFresh' = [sawFresh EXCEPT
             ![c] = why[c] = "acquire" /\ chain[depth[c] + 1] \in fresh]
        /\ UNCHANGED <<tries, pc, why, rounds, pub, verdict>>
     \/ /\ depth[c] = MaxGenerations
        /\ Finish(c, "corrupt")
  /\ UNCHANGED <<mount, fresh, live, hb>>

\* The outcome exists and is an acceptance.
ReadAcceptance(c) ==
  /\ pc[c] = "walk" /\ depth[c] = Len(chain) /\ accepted # NoClaim
  /\ Finish(c, IF why[c] = "acquire" THEN "transient" ELSE "accepted")
  /\ UNCHANGED <<mount, fresh, live, hb>>

\* An owner record is replaced by its heartbeat while this read has it open, or
\* between the open and the stat that must agree with it.
ReadRaced(c) ==
  /\ pc[c] \in {"walk", "glob", "weigh", "commit"}
  /\ \E i \in 1..Len(chain) :
        /\ hb[chain[i]] = "renewing"
        /\ IF pc[c] = "walk" THEN i \in {depth[c], depth[c] + 1} ELSE i <= depth[c]
  /\ Finish(c, "raced")
  /\ UNCHANGED <<mount, fresh, live, hb>>

\* The outcome is absent; the installed names are enumerated next.
ReadAbsent(c) ==
  /\ pc[c] = "walk" /\ depth[c] = Len(chain) /\ accepted = NoClaim
  /\ Goto(c, "scan")
  /\ UNCHANGED <<mount, fresh, live, why, reading, rounds, pub, verdict, hb>>

\* The enumeration agrees with the walk: the caller gets the tail it saw.
ScanSound(c) ==
  /\ pc[c] = "scan" /\ SlotFree(c)
  /\ \/ /\ \/ why[c] = "recover" /\ Goto(c, "glob")
           \/ why[c] = "acquire" /\ Goto(c, IF depth[c] = 0 THEN "install" ELSE "weigh")
           \/ why[c] = "accept" /\ PublicationIsTail(c) /\ Goto(c, "commit")
        /\ UNCHANGED <<why, reading, rounds, pub, verdict>>
     \/ /\ why[c] = "confirm" \/ (why[c] = "accept" /\ ~PublicationIsTail(c))
        /\ Finish(c, "transient")
  /\ UNCHANGED <<mount, fresh, live, hb>>

\* A peer filled the slot after the walk passed it: walk again, or give up.
ScanAdvanced(c) ==
  /\ pc[c] = "scan" /\ ~SlotFree(c)
  /\ \/ /\ ~LastTraversal(c)
        /\ tries' = [tries EXCEPT ![c] = @ + 1]
        /\ depth' = [depth EXCEPT ![c] = 0]
        /\ Goto(c, "walk")
        /\ UNCHANGED <<sawFresh, why, rounds, pub, verdict>>
     \/ /\ LastTraversal(c)
        /\ Finish(c, "corrupt")
  /\ UNCHANGED <<mount, fresh, live, hb>>

\* _recover_pending_fanin_publication: is there a target of the tail's owner?
Glob(c) ==
  /\ pc[c] = "glob"
  /\ \/ /\ depth[c] > 0 /\ chain[depth[c]] \in targets
        /\ pub' = [pub EXCEPT ![c] = chain[depth[c]]]
        /\ Walk(c, "accept")
     \/ /\ ~(depth[c] > 0 /\ chain[depth[c]] \in targets)
        /\ UNCHANGED pub
        /\ Walk(c, "acquire")
  /\ UNCHANGED <<mount, fresh, live, rounds, verdict, hb>>

\* _fanin_generation_is_active for the owner record the walk returned.
Weigh(c) ==
  /\ pc[c] = "weigh"
  /\ LET active == Active(chain[depth[c]], sawFresh[c])
     IN \/ active /\ Finish(c, "transient")
        \/ ~active /\ Goto(c, "install")
           /\ UNCHANGED <<why, reading, rounds, pub, verdict>>
  /\ UNCHANGED <<mount, fresh, live, hb>>

\* Rename an initialised generation onto the outcome the walk found absent.
Install(c) ==
  /\ pc[c] = "install" /\ SuccessorWins(c)
  /\ chain' = Append(chain, c)
  /\ fresh' = fresh \cup {c}
  /\ hb' = [hb EXCEPT ![c] = "armed"]
  /\ Goto(c, "own")
  /\ UNCHANGED <<accepted, released, targets, live, why, reading, rounds, pub, verdict>>

\* The rename collides: look again, a bounded number of times.
Collide(c) ==
  /\ pc[c] = "install" /\ ~SuccessorWins(c)
  /\ \/ /\ rounds[c] + 1 < AcquireAttempts
        /\ rounds' = [rounds EXCEPT ![c] = @ + 1]
        /\ Walk(c, "acquire")
        /\ UNCHANGED <<pub, verdict>>
     \/ /\ rounds[c] + 1 >= AcquireAttempts
        /\ Finish(c, "transient")
  /\ UNCHANGED <<mount, fresh, live, hb>>

\* The last check before the target rename (_publish_fanin_task).
CheckFence(c) ==
  /\ pc[c] = "own" /\ LockFree(c)
  /\ \/ /\ c \in live /\ Current(c)
        /\ Goto(c, "rename")
        /\ UNCHANGED <<why, reading, rounds, pub, verdict>>
     \/ /\ ~(c \in live /\ Current(c))
        /\ Finish(c, "revoked")
  /\ UNCHANGED <<mount, fresh, live, hb>>

\* os.rename(staging, target): nothing re-checks the fence at this instant.
RenameTarget(c) ==
  /\ pc[c] = "rename"
  /\ targets' = targets \cup {c}
  /\ Goto(c, "lock")
  /\ UNCHANGED <<chain, accepted, released, fresh, live, why, reading, rounds,
                 pub, verdict, hb>>

\* _accept_fanin_publication(..., fence): take the owner lock, read the chain.
EnterAccept(c) ==
  /\ pc[c] = "lock" /\ LockFree(c)
  /\ pub' = [pub EXCEPT ![c] = c]
  /\ Walk(c, "accept")
  /\ UNCHANGED <<mount, fresh, live, rounds, verdict, hb>>

\* Rename an initialised acceptance onto the outcome, then read again.
Commit(c) ==
  /\ pc[c] = "commit"
  /\ accepted' = IF AcceptanceWins(c) THEN pub[c] ELSE accepted
  /\ Walk(c, "confirm")
  /\ UNCHANGED <<chain, released, fresh, targets, live, rounds, pub, verdict, hb>>

\* _release_fanin_guard: an immutable marker, nothing of the chain changes.
Release(c) ==
  /\ pc[c] = "release"
  /\ released' = released \cup {c}
  /\ hb' = [hb EXCEPT ![c] = IF @ = "renewing" THEN @ ELSE "off"]
  /\ Goto(c, "done")
  /\ UNCHANGED <<chain, accepted, fresh, targets, live, why, reading, rounds,
                 pub, verdict>>

--------------------------------------------------------------------------------
(* The heartbeat thread of an owner. *)

HeartbeatCheck(c) ==
  /\ hb[c] = "armed" /\ ~MainHoldsLock(c) /\ pc[c] # "release"
  /\ hb' = [hb EXCEPT ![c] = IF Current(c) /\ c \notin released
                               THEN "renewing" ELSE "off"]
  /\ UNCHANGED <<mount, fresh, live, pc, why, reading, rounds, pub, verdict>>

HeartbeatWrite(c) ==
  /\ hb[c] = "renewing"
  /\ fresh' = fresh \cup {c}
  /\ hb' = [hb EXCEPT ![c] = IF pc[c] = "done" THEN "off" ELSE "armed"]
  /\ UNCHANGED <<mount, live, pc, why, reading, rounds, pub, verdict>>

--------------------------------------------------------------------------------
(* What happens to an attempt from outside. *)

\* The claim leaves claimed/: the queue's reaper, or its own acknowledgement.
Retire(c) ==
  /\ c \in live
  /\ live' = live \ {c}
  /\ UNCHANGED <<mount, fresh, pc, why, reading, rounds, pub, verdict, hb>>

\* A lease length passes without a renewal.
Expire(c) ==
  /\ c \in fresh
  /\ fresh' = fresh \ {c}
  /\ UNCHANGED <<mount, live, pc, why, reading, rounds, pub, verdict, hb>>

\* A rival stalls for a lease length with an owner record it has read.
Stall(c) ==
  /\ pc[c] \in {"scan", "weigh"} /\ sawFresh[c]
  /\ sawFresh' = [sawFresh EXCEPT ![c] = FALSE]
  /\ UNCHANGED <<mount, fresh, live, pc, why, depth, tries, rounds, pub, verdict, hb>>

Crash(c) ==
  /\ pc[c] \notin {"idle", "done", "dead"}
  /\ Goto(c, "dead")
  /\ hb' = [hb EXCEPT ![c] = "off"]
  /\ Forget(c)
  /\ UNCHANGED <<mount, fresh, live, verdict>>

--------------------------------------------------------------------------------
Step(c) == \/ Start(c) \/ ReadGeneration(c) \/ ReadAcceptance(c) \/ ReadRaced(c)
           \/ ReadAbsent(c) \/ ScanSound(c) \/ ScanAdvanced(c) \/ Glob(c) \/ Weigh(c) \/ Install(c)
           \/ Collide(c) \/ CheckFence(c) \/ RenameTarget(c) \/ EnterAccept(c) \/ Commit(c)
           \/ Release(c)

Heartbeat(c)   == HeartbeatCheck(c) \/ HeartbeatWrite(c)
Environment(c) == Retire(c) \/ Expire(c) \/ Stall(c) \/ Crash(c)

Next == \E c \in Claims : Step(c) \/ Heartbeat(c) \/ Environment(c)

Spec == Init /\ [][Next]_vars

\* Both threads of an attempt that has not crashed keep running.  The heartbeat
\* sleeps without the owner lock for a third of a lease between renewals, so a
\* main thread that keeps finding the lock free again gets it (SF).
Fairness ==
  \A c \in Claims : /\ WF_vars(Step(c) /\ pc[c] # "idle")
                    /\ SF_vars(CheckFence(c)) /\ SF_vars(EnterAccept(c))
                    /\ WF_vars(HeartbeatWrite(c))

FairSpec == Spec /\ Fairness

--------------------------------------------------------------------------------
(* Every variable has its type; a walk passes at most MaxGenerations       *)
(* generations, a read begins at most TraversalAttempts traversals and an  *)
(* acquisition tries at most AcquireAttempts installations, the three      *)
(* bounds of fleet_worker.py:134-137.                                      *)
TypeOK ==
  /\ chain \in Seq(Claims)
  /\ accepted \in Claims \cup {NoClaim}
  /\ released \subseteq Claims /\ fresh \subseteq Claims
  /\ targets \subseteq Claims /\ live \subseteq Claims
  /\ pc \in [Claims -> {"idle", "walk", "scan", "glob", "weigh", "install", "own",
                        "rename", "lock", "commit", "release", "done", "dead"}]
  /\ why \in [Claims -> {"recover", "acquire", "accept", "confirm"}]
  /\ depth \in [Claims -> 0..MaxGenerations] /\ sawFresh \in [Claims -> BOOLEAN]
  /\ tries \in [Claims -> 0..(TraversalAttempts - 1)]
  /\ rounds \in [Claims -> 0..(AcquireAttempts - 1)]
  /\ pub \in [Claims -> Claims \cup {NoClaim}]
  /\ verdict \in [Claims -> {"none", "accepted", "transient", "revoked", "corrupt", "raced"}]
  /\ hb \in [Claims -> {"off", "armed", "renewing"}]

(* The acceptance is a publication of the generation that is still the     *)
(* tail, and its target was visible: a superseded owner that renamed its   *)
(* target after the fence check can never have that target accepted.       *)
AcceptedIsCurrent ==
  accepted # NoClaim => /\ Len(chain) > 0
                        /\ accepted = chain[Len(chain)]
                        /\ accepted \in targets

(* An owner is succeeded only after it released or its claim left the      *)
(* queue, although the rival reads release marker, lease and claim well    *)
(* before it installs its own generation (_acquire_fanin_guard).           *)
SuccessionIsSafe ==
  \A i \in 1..Len(chain) :
    i < Len(chain) => chain[i] \in released \/ chain[i] \notin live

\* Outcome pathnames of this guard that exist: successors and the acceptance.
Outcomes == Len(chain) + (IF accepted = NoClaim THEN 0 ELSE 1)

(* A sound chain is reported as orphaned or too long (a terminal inventory *)
(* error, exit 2) only under real contention: every failed traversal was   *)
(* outrun by a newly installed outcome, so a guard with fewer outcomes     *)
(* than _FANIN_FENCE_TRAVERSAL_ATTEMPTS, and not beyond the generation     *)
(* limit, never makes a reader give up on it.                              *)
CorruptionNeedsContention ==
  \A c \in Claims : verdict[c] = "corrupt" =>
     Outcomes >= TraversalAttempts \/ Len(chain) > MaxGenerations

(* No installed generation or acceptance is changed, removed or reused and *)
(* nothing is installed behind an acceptance.                              *)
OutcomesAreImmutable ==
  [][/\ accepted # NoClaim => accepted' = accepted /\ chain' = chain
     /\ \A i \in 1..Len(chain) : i <= Len(chain') /\ chain'[i] = chain[i]]_vars

(* The guard directories implement the abstract one-winner succession.     *)
Abstract == INSTANCE FanInCommit WITH holders <- chain, offered <- targets,
                                      winner <- accepted
ImplementsCommit == Abstract!Spec

(* Every attempt that started and does not crash reaches a verdict: the    *)
(* bounded retries of the walk and of the acquisition never leave it       *)
(* circling, whatever the peers install.                                   *)
AttemptsEnd == \A c \in Claims : pc[c] # "idle" ~> pc[c] \in {"done", "dead"}
================================================================================
