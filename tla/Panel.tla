--------------------------------- MODULE Panel ---------------------------------
(***************************************************************************)
(* Full-game panels (scripts/coordinate_fullgame_panels.py and             *)
(* run_fullgame_panel.py): a controller starts one supervisor in each of   *)
(* two worker pods, renews a lease there every ten seconds, judges what it *)
(* reads back and, at the first failure, aborts and drains what has not    *)
(* finished.  Each supervisor plays its shards one after the other.        *)
(*                                                                         *)
(* A controller's call runs an agent process in the pod.  A call that      *)
(* times out is given up, not undone: its agent goes on.  Pods never       *)
(* restart (restartPolicy Never).  The entry hash, the pod's identity and  *)
(* the game counts are left out, and so are standalone panels; the launch  *)
(* receipt is written with the spawn it follows.                           *)
(***************************************************************************)
EXTENDS Naturals, FiniteSets

CONSTANTS
  Partitions,     \* the worker pods, numbered in the order of the entry
  Shards,         \* shards a supervisor plays in sequence (2 or 4)
  Observations,   \* drain's observations (4)
  MaxFaults,      \* bound on losses, delays, kills and failed workers
  None

ASSUME PanelAssumption ==
  /\ Partitions \subseteq Nat /\ IsFiniteSet(Partitions) /\ Partitions # {}
  /\ Shards \in Nat \ {0} /\ Observations \in Nat \ {0} /\ MaxFaults \in Nat

VARIABLES
  ctl,      \* the controller: pc, targets still to call, complete, observations made
  exec,     \* the agent processes of each pod
  pod,      \* each pod's files and processes
  late,     \* the common deadline has passed
  faults

vars == <<ctl, exec, pod, late, faults>>

Terminals == [complete : BOOLEAN, clean : BOOLEAN, late : BOOLEAN]
Seen == [term : Terminals \cup {None}, exit : {0, 1, None}, live : BOOLEAN]
Nothing == [term |-> None, exit |-> None, live |-> FALSE]

Controllers == [pc : {"refresh", "start", "poll", "judge", "abort", "drain", "over", "dead"},
                todo : SUBSET Partitions, complete : SUBSET Partitions,
                tries : 0 .. Observations]

\* left: something of a shard's process group outlives its stop_owned; cleanup: what
\* the receipts of the last shard forked say of that.
PodStates == [lease : {"absent", "fresh", "old"}, abort : BOOLEAN,
              launcher : {"none", "up", "gone"},
              sup : {"none", "launch", "watch", "halt", "except", "stop",
                     "stopped", "complete", "ended", "killed"},
              shard : 1 .. Shards, worker : {"none", "run", "ok", "bad"}, left : BOOLEAN,
              cleanup : {"unsaid", "ok", "failed"},
              term : Terminals \cup {None}, exit : {0, 1, None}]

\* An agent about to do step "at"; the controller waits for its answer or not.
Agents == [at : {"lease", "admit", "terminal", "exit", "alive", "gate", "spawn", "abort",
                 "ok", "failed"},
           seen : Seen, waited : BOOLEAN]

Init ==
  /\ ctl = [pc |-> "refresh", todo |-> Partitions, complete |-> {}, tries |-> 0]
  /\ exec = [p \in Partitions |-> {}]
  /\ pod = [p \in Partitions |->
       [lease |-> "absent", abort |-> FALSE, launcher |-> "none", sup |-> "none",
        shard |-> 1, worker |-> "none", left |-> FALSE, cleanup |-> "unsaid",
        term |-> None, exit |-> None]]
  /\ late = FALSE /\ faults = 0

--------------------------------------------------------------------------------
(* Names beginning with Fault are plausible bugs of the definition that    *)
(* follows them; no specification uses them.                               *)

Fault == faults < MaxFaults /\ faults' = faults + 1
First(S) == CHOOSE p \in S : \A q \in S : p <= q
Over == ctl.pc \in {"over", "dead"}

\* coordination_reason: an abort, or no lease renewed in the last minute.
FaultHalted(p) == pod[p].abort
Halted(p) == pod[p].abort \/ pod[p].lease # "fresh"

--------------------------------------------------------------------------------
(* The agent that runs a call in the pod. *)

\* What a call goes on to do although nobody waits for it.
Writes == {"lease", "gate", "spawn", "abort"}

Advance(p, e, f) ==
  exec' = [exec EXCEPT ![p] = (@ \ {e}) \cup IF f.waited \/ f.at \in Writes THEN {f} ELSE {}]

To(p, e, at) == Advance(p, e, [e EXCEPT !.at = at])

\* refresh: renew the lease, refuse if the pod must stop all the same.
WriteLease(p, e) ==
  /\ e.at = "lease"
  /\ pod' = [pod EXCEPT ![p].lease = "fresh"]
  /\ To(p, e, "admit")
  /\ UNCHANGED <<ctl, late, faults>>

\* snapshot: terminal.json, then the launcher's exit receipt, then the launcher.
ReadTerminal(p, e) ==
  /\ e.at \in {"admit", "terminal"}
  /\ IF e.at = "admit" /\ Halted(p) THEN To(p, e, "failed")
       ELSE Advance(p, e, [e EXCEPT !.at = "exit", !.seen.term = pod[p].term])
  /\ UNCHANGED <<ctl, pod, late, faults>>

ReadExit(p, e) ==
  /\ e.at = "exit"
  /\ Advance(p, e, [e EXCEPT !.at = "alive", !.seen.exit = pod[p].exit])
  /\ UNCHANGED <<ctl, pod, late, faults>>

ReadAlive(p, e) ==
  /\ e.at = "alive"
  /\ Advance(p, e, [e EXCEPT !.at = "ok", !.seen.live = pod[p].launcher = "up"])
  /\ UNCHANGED <<ctl, pod, late, faults>>

\* start: coordination and deadline; then the exclusive marker, and the detached
\* launcher with its supervisor.
Gate(p, e) ==
  /\ e.at = "gate"
  /\ To(p, e, IF Halted(p) \/ late THEN "failed" ELSE "spawn")
  /\ UNCHANGED <<ctl, pod, late, faults>>

Spawn(p, e) ==
  /\ e.at = "spawn" /\ pod[p].launcher = "none"
  /\ pod' = [pod EXCEPT ![p].launcher = "up", ![p].sup = "launch"]
  /\ To(p, e, "ok")
  /\ UNCHANGED <<ctl, late, faults>>

WriteAbort(p, e) ==
  /\ e.at = "abort"
  /\ pod' = [pod EXCEPT ![p].abort = TRUE]
  /\ To(p, e, "ok")
  /\ UNCHANGED <<ctl, late, faults>>

\* Transport.execute gives up after 15 seconds, or fails at once; an agent that
\* has started, or is about to, may go on.
Timeout(p, e) ==
  /\ e.waited /\ e.at \notin {"ok", "failed"}
  /\ \E orphans \in {{}} \cup (IF e.at \in Writes THEN {{[e EXCEPT !.waited = FALSE]}} ELSE {}) :
       exec' = [exec EXCEPT ![p] = (@ \ {e}) \cup {[e EXCEPT !.at = "failed"]} \cup orphans]
  /\ Fault
  /\ UNCHANGED <<ctl, pod, late>>

AgentStep(p) == \E e \in exec[p] :
  \/ WriteLease(p, e) \/ ReadTerminal(p, e) \/ ReadExit(p, e) \/ ReadAlive(p, e)
  \/ Gate(p, e) \/ Spawn(p, e) \/ WriteAbort(p, e)

--------------------------------------------------------------------------------
(* The controller. *)

Waited(p) == {e \in exec[p] : e.waited}
Unwaited(p) == exec[p] \ Waited(p)
Answered(S) == \A p \in S : \A e \in Waited(p) : e.at \in {"ok", "failed"}
Answer(p) == CHOOSE e \in Waited(p) : TRUE

\* Forget the answers and call every partition of S, first step at.
Call(S, at) == exec' = [p \in Partitions |->
  Unwaited(p) \cup IF p \in S THEN {[at |-> at, seen |-> Nothing, waited |-> TRUE]} ELSE {}]

Active == Partitions \ ctl.complete

\* except: abort, in parallel, whatever is not complete.
Stop(done) ==
  /\ ctl' = [ctl EXCEPT !.pc = "abort", !.complete = done, !.todo = Partitions \ done]
  /\ Call(Partitions \ done, "abort")

\* One refresh, then one start, per target; no start is repeated.
CallNext ==
  /\ ctl.pc \in {"refresh", "start"} /\ Waited(First(ctl.todo)) = {}
  /\ Call({First(ctl.todo)}, IF ctl.pc = "refresh" THEN "lease" ELSE "gate")
  /\ UNCHANGED <<ctl, pod, late, faults>>

AnswerNext ==
  /\ ctl.pc \in {"refresh", "start"}
  /\ LET p == First(ctl.todo)
         rest == ctl.todo \ {p}
     IN /\ Waited(p) # {} /\ Answered({p})
        /\ IF Answer(p).at = "failed" THEN Stop({})
             ELSE /\ ctl' = IF rest # {} THEN [ctl EXCEPT !.todo = rest]
                            ELSE IF ctl.pc = "refresh"
                              THEN [ctl EXCEPT !.pc = "start", !.todo = Partitions]
                              ELSE [ctl EXCEPT !.pc = "poll", !.todo = {}]
                  /\ Call({}, "ok")
  /\ UNCHANGED <<pod, late, faults>>

\* Top of the loop.  The fault is a changed entry or a signal during the sleep.
Poll ==
  /\ ctl.pc = "poll"
  /\ \/ late /\ Stop(ctl.complete) /\ UNCHANGED faults
     \/ Fault /\ Stop(ctl.complete)
     \/ /\ ~late
        /\ ctl' = [ctl EXCEPT !.pc = "judge"] /\ Call(Active, "lease")
        /\ UNCHANGED faults
  /\ UNCHANGED <<pod, late>>

FaultBad(e) ==
  \/ e.at = "failed"
  \/ e.seen.term # None /\ ~e.seen.term.complete
  \/ e.seen.exit = 1
  \/ e.seen.exit = None /\ ~e.seen.live
Bad(e) ==
  \/ e.at = "failed"
  \/ e.seen.term # None /\ ~e.seen.term.complete
  \/ e.seen.exit # None /\ (e.seen.exit # 0 \/ e.seen.term = None \/ e.seen.term.late)
  \/ e.seen.exit = None /\ ~e.seen.live

\* Judge the answers in order; the first bad one stops the panel.
Judge ==
  /\ ctl.pc = "judge" /\ Answered(Active)
  /\ LET bad == {p \in Active : Bad(Answer(p))}
         judged == {p \in Active : \A q \in bad : p < q}
         done == ctl.complete \cup {p \in judged : Answer(p).seen.exit # None}
     IN IF bad # {} THEN Stop(done)
          ELSE /\ ctl' = [ctl EXCEPT !.complete = done,
                                     !.pc = IF done = Partitions THEN "over" ELSE "poll"]
               /\ Call({}, "ok")
  /\ UNCHANGED <<pod, late, faults>>

\* Observe without renewing.
Drain ==
  /\ ctl.pc = "abort" /\ Answered(ctl.todo)
  /\ ctl' = [ctl EXCEPT !.pc = "drain", !.tries = 1]
  /\ Call(ctl.todo, "terminal")
  /\ UNCHANGED <<pod, late, faults>>

FaultConfirmed(e) == e.at = "ok" /\ e.seen.exit # None /\ ~e.seen.live
Confirmed(e) == /\ e.at = "ok" /\ e.seen.exit # None /\ e.seen.term # None /\ ~e.seen.live
                /\ e.seen.term.clean

\* Observe again what is not confirmed; todo ends as cleanup_unverified_partitions.
Observe ==
  /\ ctl.pc = "drain" /\ Answered(ctl.todo)
  /\ LET pending == {p \in ctl.todo : ~Confirmed(Answer(p))}
         again == pending # {} /\ ctl.tries < Observations
     IN /\ ctl' = [ctl EXCEPT !.todo = pending,
                              !.pc = IF again THEN "drain" ELSE "over",
                              !.tries = IF again THEN @ + 1 ELSE @]
        /\ Call(IF again THEN pending ELSE {}, "terminal")
  /\ UNCHANGED <<pod, late, faults>>

Crash ==
  /\ ~Over /\ Fault
  /\ ctl' = [ctl EXCEPT !.pc = "dead"]
  /\ exec' = [p \in Partitions |->
       {[e EXCEPT !.waited = FALSE] : e \in {f \in exec[p] : f.at \in Writes}}]
  /\ UNCHANGED <<pod, late>>

Controller == CallNext \/ AnswerNext \/ Poll \/ Judge \/ Drain \/ Observe

--------------------------------------------------------------------------------
(* The supervisor, its worker and the launcher that waits for it. *)

Supervise(p, from, to) == pod[p].sup = from /\ pod' = [pod EXCEPT ![p].sup = to]

\* Before a shard: deadline and coordination, then the worker is forked.
Launch(p) ==
  /\ pod[p].sup = "launch"
  /\ pod' = IF late \/ Halted(p) THEN [pod EXCEPT ![p].sup = "stopped"]
             ELSE [pod EXCEPT ![p].sup = "watch", ![p].worker = "run",
                              ![p].cleanup = "unsaid"]
  /\ UNCHANGED <<ctl, exec, late, faults>>

\* One turn of the watch loop that leaves it.  The faults are the watchdog and
\* an exception.
Watch(p) ==
  /\ \/ pod[p].worker # "run" /\ Supervise(p, "watch", "stop") /\ UNCHANGED faults
     \/ /\ pod[p].worker = "run" /\ (late \/ Halted(p))
        /\ Supervise(p, "watch", "halt") /\ UNCHANGED faults
     \/ pod[p].worker = "run" /\ Supervise(p, "watch", "halt") /\ Fault
     \/ Supervise(p, "watch", "except") /\ Fault
  /\ UNCHANGED <<ctl, exec, late>>

\* What follows a shard: the next one, or the end.  The recheck at acceptance
\* comes after the cleanup.
FaultAfter(p, left) ==
  IF pod[p].sup # "stop" \/ pod[p].worker # "ok" \/ late \/ Halted(p) THEN "stopped"
  ELSE IF pod[p].shard = Shards THEN "complete" ELSE "launch"
After(p, left) ==
  IF pod[p].sup # "stop" \/ pod[p].worker # "ok" \/ left \/ late \/ Halted(p) THEN "stopped"
  ELSE IF pod[p].shard = Shards THEN "complete" ELSE "launch"

\* stop_owned, the receipt, then acceptance.  The fault: descendants survive SIGKILL.
StopOwned(p) ==
  /\ pod[p].sup \in {"stop", "halt", "except"}
  /\ \E left \in BOOLEAN :
       /\ IF left THEN Fault ELSE UNCHANGED faults
       /\ pod' = [pod EXCEPT ![p].worker = "none", ![p].left = left, ![p].sup = After(p, left),
                             ![p].cleanup = IF left THEN "failed" ELSE "ok",
                             ![p].shard = IF After(p, left) = "launch" THEN @ + 1 ELSE @]
  /\ UNCHANGED <<ctl, exec, late>>

\* stop_owned raises (a wait that times out after SIGKILL, a group gone before its
\* signal, a SIGTERM): the except clause calls it again.
StopRaises(p) ==
  /\ Supervise(p, "stop", "except") \/ Supervise(p, "halt", "except")
  /\ Fault
  /\ UNCHANGED <<ctl, exec, late>>

\* It raises there again, or had returned and the shard's prefix does not parse: no
\* receipt says what became of the group.
Unsaid(p) ==
  /\ pod[p].sup \in {"stop", "halt", "except"} /\ Fault
  /\ \E left \in BOOLEAN :
       pod' = [pod EXCEPT ![p].worker = "none", ![p].left = left, ![p].sup = "stopped"]
  /\ UNCHANGED <<ctl, exec, late>>

\* The inputs or the completed prefix fail verification, before a shard or after
\* its receipt.
VerifyFails(p) ==
  /\ \/ Supervise(p, "launch", "stopped")
     \/ /\ pod[p].sup = "stop"
        /\ pod' = [pod EXCEPT ![p].sup = "stopped", ![p].worker = "none", ![p].cleanup = "ok"]
  /\ Fault
  /\ UNCHANGED <<ctl, exec, late>>

\* finally: terminal.json, in which cleanup_confirmed takes silence for success.
Finish(p) ==
  /\ pod[p].sup \in {"complete", "stopped"}
  /\ pod' = [pod EXCEPT ![p].sup = "ended",
       ![p].term = [complete |-> pod[p].sup = "complete",
                    clean |-> pod[p].cleanup # "failed", late |-> late]]
  /\ UNCHANGED <<ctl, exec, late, faults>>

\* SIGKILL: the worker, in its own session, goes on.
KillSupervisor(p) ==
  /\ pod[p].sup \notin {"none", "killed"} /\ pod[p].exit = None /\ Fault
  /\ pod' = [pod EXCEPT ![p].sup = "killed"]
  /\ UNCHANGED <<ctl, exec, late>>

WorkerExits(p) ==
  /\ pod[p].worker = "run"
  /\ \/ pod' = [pod EXCEPT ![p].worker = "ok"] /\ UNCHANGED faults
     \/ pod' = [pod EXCEPT ![p].worker = "bad"] /\ Fault
  /\ UNCHANGED <<ctl, exec, late>>

\* The launcher writes the exit receipt, then ends.
WriteExit(p) ==
  /\ pod[p].launcher = "up" /\ pod[p].sup \in {"ended", "killed"} /\ pod[p].exit = None
  /\ pod' = [pod EXCEPT ![p].exit =
       IF pod[p].sup = "ended" /\ pod[p].term.complete THEN 0 ELSE 1]
  /\ UNCHANGED <<ctl, exec, late, faults>>

LauncherEnds(p) ==
  /\ pod[p].launcher = "up"
  /\ \/ pod[p].exit # None /\ UNCHANGED faults
     \/ pod[p].exit = None /\ Fault
  /\ pod' = [pod EXCEPT ![p].launcher = "gone"]
  /\ UNCHANGED <<ctl, exec, late>>

Supervisor(p) == Launch(p) \/ Watch(p) \/ StopOwned(p) \/ Finish(p)

--------------------------------------------------------------------------------
(* Time. *)

Deadline ==
  /\ ~late
  /\ late' = TRUE
  /\ UNCHANGED <<ctl, exec, pod, faults>>

\* A minute without renewal: a fault while the controller still renews.
Expire(p) ==
  /\ pod[p].lease = "fresh"
  /\ IF ctl.pc \in {"abort", "drain", "over", "dead"} \/ p \in ctl.complete
       THEN UNCHANGED faults ELSE Fault
  /\ pod' = [pod EXCEPT ![p].lease = "old"]
  /\ UNCHANGED <<ctl, exec, late>>

Next ==
  \/ Controller \/ Crash \/ Deadline
  \/ \E p \in Partitions :
       \/ AgentStep(p) \/ \E e \in exec[p] : Timeout(p, e)
       \/ Supervisor(p) \/ StopRaises(p) \/ Unsaid(p) \/ VerifyFails(p) \/ KillSupervisor(p)
       \/ WorkerExits(p) \/ WriteExit(p) \/ LauncherEnds(p) \/ Expire(p)

Spec == Init /\ [][Next]_vars

\* Running processes get to run and time passes.  A worker need never finish,
\* and no property waits for the deadline, a day away.
FairSpec ==
  /\ Spec
  /\ \A p \in Partitions : /\ WF_vars(AgentStep(p)) /\ WF_vars(Supervisor(p))
                           /\ WF_vars(WriteExit(p)) /\ WF_vars(Expire(p))

--------------------------------------------------------------------------------
(* Properties. *)

\* The files and processes are of the forms the scripts write and start.
TypeOK ==
  /\ ctl \in Controllers /\ pod \in [Partitions -> PodStates]
  /\ exec \in [Partitions -> SUBSET Agents]
  /\ \A p \in Partitions : \A d, e \in Waited(p) : d = e
  /\ \A p \in Partitions : pod[p].worker = "run" => pod[p].launcher # "none"
  /\ late \in BOOLEAN /\ faults \in 0 .. MaxFaults

\* When the controller reports the collection complete, every partition played all
\* its shards, ended before the deadline and left nothing running, whatever calls
\* were lost on the way.
CompleteIsWhole ==
  ctl.pc = "over" /\ ctl.complete = Partitions =>
    \A p \in Partitions :
      /\ pod[p].term # None /\ pod[p].term.complete /\ ~pod[p].term.late
      /\ pod[p].shard = Shards /\ pod[p].exit = 0
      /\ pod[p].worker = "none" /\ ~pod[p].left

\* A supervisor that may still fork a worker.
Running(p) == pod[p].sup \notin {"none", "ended", "killed"}

\* A partition whose cleanup drain verified runs no game process and never will:
\* not one of a late start, a killed supervisor or a stopped worker; and what
\* outlived SIGKILL there, no receipt reports.
VerifiedIsAsTold ==
  ctl.pc = "over" => \A p \in Partitions \ ctl.todo :
    /\ ~Running(p) /\ pod[p].worker # "run"
    /\ pod[p].left => pod[p].cleanup = "unsaid"

\* Cleanup is verified only where nothing was left running (cleanup_verified; the
\* outcome of a child is kept before a check can raise, run_fullgame_panel.py:409-411).
VerifiedIsStopped ==
  ctl.pc = "over" => \A p \in Partitions \ ctl.todo :
    ~Running(p) /\ pod[p].worker # "run" /\ ~pod[p].left

\* No shard's games overlap what an earlier shard left in the pod ("no overlapping
\* games per node").
OneShardAtATime ==
  \A p \in Partitions : pod[p].left => pod[p].worker # "run" /\ pod[p].sup # "launch"

\* Losing the controller stops work: once it has ended or died, the worker of each
\* pod is stopped for good, unless a supervisor that would stop it was killed.  What
\* outlives stop_owned ("left") is not counted.
WorkStops ==
  \A p \in Partitions :
    Over ~> []((pod[p].worker # "run" /\ ~Running(p)) \/ pod[p].sup = "killed")
================================================================================
