------------------------------- MODULE SearchPool -------------------------------
(***************************************************************************)
(* A pool of search processes and its owner                                *)
(* (src/pokezero/mcts_eval/paper_reference_parallel.py), with the exchange *)
(* of statistics between them (paper_reference_exchange.py and the merge   *)
(* and export of TrajectorySearch in paper_reference.py).                  *)
(*                                                                         *)
(* The owner spawns the workers, answers one decision at a time from what  *)
(* they send it, and closes them by a handshake or by force.  Each worker  *)
(* is the leader of a process group that also holds its simulator.  A      *)
(* worker exports only what it did itself, cumulatively; the master sums   *)
(* the workers' latest exports and sends every sender the sum.             *)
(*                                                                         *)
(* Statistics are visit counts per information state; values, priors and   *)
(* the choice of an action are abstracted away, times are "the deadline    *)
(* has passed" and timeouts that may fire when nothing is ready.           *)
(***************************************************************************)
EXTENDS Naturals, Sequences, FiniteSetsExt

CONSTANTS
  N,             \* workers, spawned in order
  States,        \* information states
  Faints,        \* the real faint count of each
  Roots,         \* those a decision is asked for
  BatchSize,     \* trajectories per exchange (10)
  Loads,         \* what the pool may go through, with its bounds: see Init
  None

Workers == 1..N
Battles == (UNION {l.battles : l \in Loads}) \cup {None}

\* Visit counts, and what a worker exports of them (WorkerStatistics).
Rows == [States -> Nat]
Exports == [battle : Battles, seq : Nat, rows : Rows]

ASSUME PoolAssumption ==
  /\ N \in Nat \ {0} /\ BatchSize \in Nat \ {0}
  /\ Faints \in [States -> Nat] /\ Roots \subseteq States
  /\ \A l \in Loads : /\ None \notin l.battles /\ l.quota \in Nat \ {0}
                      /\ l.decisions \in Nat /\ l.faults \in Nat
  /\ None \notin Exports

VARIABLES
  load,      \* battles, trajectories_per_worker, and how many decisions and faults
  \* the owner
  mpc,       \* what it does
  pending,   \* the workers it still expects something of
  decision, battle, root,   \* the decision it answers
  left,      \* the trajectories still wanted of each worker
  completed, before,        \* new trajectories, and the root's count at the start
  expired,   \* the decision's deadline has passed
  master,    \* StatisticsMaster: floor, version, and each worker's rows and sequence
  why,       \* why the pool is poisoned, or "sound"
  answer,    \* the answer just returned, or None
  owned,     \* workers whose group is recorded
  replies,   \* the cleanup handshakes received
  dirty,     \* the cleanup found something to refuse
  \* the workers and the pipes
  worker,    \* each one's locals
  up, down,  \* messages to the owner and to the workers
  proc,      \* the leader: unborn, live, exited, killed or reaped
  kids,      \* workers with a live simulator process
  hung,      \* workers that make no further step
  done,      \* visits each worker has really completed in the current battle
  faults

ownerVars == <<mpc, pending, decision, battle, root, left, completed, before, master, why,
               answer, owned, replies, dirty>>
procVars  == <<proc, kids, hung, faults>>
moving == <<ownerVars, expired, worker, up, down, procVars, done>>
vars   == <<load, moving>>

NoRows == [s \in States |-> 0]
Fresh  == [floor |-> 0, version |-> 0, rows |-> [w \in Workers |-> NoRows],
           seq |-> [w \in Workers |-> 0]]
Newborn == [pc |-> "born", dec |-> 0, battle |-> None, root |-> None, seq |-> 0, limit |-> 0,
            own |-> NoRows, sent |-> None, view |-> NoRows, last |-> None, floor |-> 0]

Init ==
  /\ load \in Loads
  /\ mpc = "starting" /\ pending = Workers /\ decision = 0 /\ battle = None /\ root = None
  /\ left = [w \in Workers |-> 0] /\ completed = 0 /\ before = 0 /\ expired = FALSE
  /\ master = Fresh /\ why = "sound" /\ answer = None
  /\ owned = {} /\ replies = {} /\ dirty = FALSE
  /\ worker = [w \in Workers |-> Newborn]
  /\ up = [w \in Workers |-> <<>>] /\ down = [w \in Workers |-> <<>>]
  /\ proc = [w \in Workers |-> "unborn"] /\ kids = {} /\ hung = {}
  /\ done = [w \in Workers |-> NoRows] /\ faults = 0

--------------------------------------------------------------------------------
(* The exchange.  Names beginning with Fault are plausible bugs of the     *)
(* definition that follows them; no specification uses them.               *)

Prune(rows, floor) == [s \in States |-> IF Faints[s] >= floor THEN rows[s] ELSE 0]
Within(a, b) == \A s \in States : a[s] <= b[s]
Plus(a, b)   == [s \in States |-> a[s] + b[s]]

\* The sum of a count over the workers, and the master's sum of their rows.
Total(f) == LET upTo[i \in 0..N] == IF i = 0 THEN 0 ELSE upTo[i - 1] + f[i] IN upTo[N]
Sum(m) == [s \in States |-> Total([w \in Workers |-> m.rows[w][s]])]
Snapshot(m) == [battle |-> battle, version |-> m.version, floor |-> m.floor,
                rows |-> Sum(m), acked |-> m.seq]

\* advance_real_faints.
Advance(m, floor) ==
  IF floor = m.floor THEN m
  ELSE [m EXCEPT !.floor = floor, !.version = @ + 1,
                 !.rows = [w \in Workers |-> Prune(@[w], floor)]]

\* accept: an update replaces the worker's previous one; "refused" if it regresses.
FaultLatest(m, w, update) == [m EXCEPT !.rows[w] = Plus(@, Prune(update.rows, m.floor)),
                                       !.seq[w] = update.seq, !.version = @ + 1]
Latest(m, w, update) == [m EXCEPT !.rows[w] = Prune(update.rows, m.floor),
                                  !.seq[w] = update.seq, !.version = @ + 1]
Acceptable(m, w, update) ==
  /\ update.battle = battle
  /\ update.seq = m.seq[w] => Prune(update.rows, m.floor) = m.rows[w]
  /\ update.seq > m.seq[w] => Within(m.rows[w], Prune(update.rows, m.floor))
Accept(m, w, update) == IF update.seq > m.seq[w] THEN Latest(m, w, update) ELSE m

\* merge_statistics: the worker takes the master's sum for its tree.
Mergeable(x, w, snap) ==
  /\ snap.battle = x.battle /\ snap.floor >= x.floor
  /\ x.last # None => /\ snap.version >= x.last.version
                      /\ snap.version = x.last.version => snap = x.last
                      /\ Within(Prune(x.last.rows, snap.floor), snap.rows)
  /\ LET own == Prune(x.own, snap.floor)
     IN own # NoRows => /\ x.sent # None /\ own = Prune(x.sent.rows, snap.floor)
                        /\ snap.acked[w] = x.sent.seq
                        /\ Within(own, snap.rows)
FaultMerge(x, snap) == [x EXCEPT !.own = snap.rows, !.view = snap.rows, !.last = snap,
                                 !.floor = snap.floor]
Merge(x, snap) == [x EXCEPT !.own = Prune(@, snap.floor), !.view = snap.rows, !.last = snap,
                            !.floor = snap.floor]

\* A worker bound to another battle forgets everything it counted.
FaultBind(x, snap) == x
Bind(x, snap) == IF snap.battle = x.battle THEN x
                 ELSE [Newborn EXCEPT !.pc = x.pc, !.battle = snap.battle]

--------------------------------------------------------------------------------
Stay(w, l) == worker' = [worker EXCEPT ![w].pc = l]
Send(w, m) == up' = [up EXCEPT ![w] = Append(@, m)]
Tell(w, m) == down' = [down EXCEPT ![w] = Append(@, m)]
Runs(w) == proc[w] = "live" /\ w \notin hung
Gone(w) == proc[w] # "live"
Owner == mpc # "dead"
Fault == faults < load.faults /\ faults' = faults + 1

Message(kind) == [kind |-> kind]

\* A worker reports an error and leaves its loop.
Refuse(w, cause) == /\ Stay(w, "finally")
                    /\ Send(w, [kind |-> "error", cause |-> cause])

--------------------------------------------------------------------------------
(* Startup: spawn in order; no simulator before its group is recorded. *)

\* Process.start() reaps older children that died; that ends the startup.
Spawn(w) ==
  /\ mpc = "starting" /\ proc[w] = "unborn" /\ \A v \in 1..(w - 1) : proc[v] # "unborn"
  /\ proc' = [v \in Workers |-> IF v = w THEN "live"
                                ELSE IF proc[v] = "killed" THEN "reaped" ELSE proc[v]]
  /\ IF \E v \in 1..(w - 1) : Gone(v)
       THEN mpc' = "failed" /\ why' = "startup" ELSE UNCHANGED <<mpc, why>>
  /\ UNCHANGED <<pending, decision, battle, root, left, completed, before, master, answer, owned,
                 replies, dirty, expired, worker, up, down, kids, hung, faults, done>>

Isolate(w) ==
  /\ Runs(w) /\ worker[w].pc = "born"
  /\ Stay(w, "isolated") /\ Send(w, Message("isolation"))
  /\ UNCHANGED <<ownerVars, expired, down, procVars, done>>

\* runtime_factory starts the simulator; a close that came first is refused.
Acked(w) == Head(down[w]).kind = "isolation_ack"

BootWorker(w) ==
  /\ Runs(w) /\ worker[w].pc = "isolated" /\ down[w] # <<>>
  /\ down' = [down EXCEPT ![w] = Tail(@)]
  /\ \/ /\ Acked(w)
        /\ kids' = kids \cup {w}
        /\ Stay(w, "idle") /\ Send(w, Message("boot"))
     \/ ~Acked(w) /\ Refuse(w, "startup") /\ UNCHANGED kids
  /\ UNCHANGED <<ownerVars, expired, proc, hung, faults, done>>

\* The owner takes a startup message of w.
Startup(w) ==
  /\ mpc = "starting" /\ w \in pending /\ \A v \in Workers : proc[v] # "unborn"
  /\ up[w] # <<>> /\ up' = [up EXCEPT ![w] = Tail(@)]
  /\ \/ /\ Head(up[w]).kind = "isolation" /\ ~Gone(w)
        /\ owned' = owned \cup {w}
        /\ Tell(w, Message("isolation_ack"))
        /\ UNCHANGED <<mpc, pending, why>>
     \/ /\ Head(up[w]).kind = "isolation" /\ Gone(w)
        /\ mpc' = "failed" /\ why' = "startup"
        /\ UNCHANGED <<owned, down, pending>>
     \/ /\ Head(up[w]).kind = "boot"
        /\ pending' = pending \ {w}
        /\ mpc' = IF pending' = {} THEN "idle" ELSE mpc
        /\ UNCHANGED <<owned, down, why>>
     \/ /\ Head(up[w]).kind \notin {"isolation", "boot"}
        /\ mpc' = "failed" /\ why' = "startup"
        /\ UNCHANGED <<owned, down, pending>>
  /\ UNCHANGED <<decision, battle, root, left, completed, before, master, answer, replies, dirty,
                 expired, worker, procVars, done>>

--------------------------------------------------------------------------------
(* A decision, on the owner's side. *)

Search(b, r) ==
  /\ mpc = "idle" /\ decision < load.decisions
  /\ decision' = decision + 1 /\ battle' = b /\ root' = r /\ expired' = FALSE
  /\ answer' = None
  /\ LET same == b = battle
         m == IF same THEN master ELSE Fresh
         ready == Advance(m, Faints[r])
     IN IF Faints[r] < m.floor
          THEN /\ mpc' = "failed" /\ why' = "request" /\ master' = m
               /\ UNCHANGED <<pending, left, completed, before, down>>
          ELSE /\ mpc' = "searching" /\ master' = ready
               /\ pending' = Workers /\ left' = [w \in Workers |-> load.quota] /\ completed' = 0
               /\ before' = Sum(ready)[r]
               /\ down' = [w \in Workers |-> Append(down[w],
                    [kind |-> "start", dec |-> decision + 1, root |-> r,
                     snap |-> [Snapshot(ready) EXCEPT !.battle = b], limit |-> Min({BatchSize, load.quota})])]
               /\ UNCHANGED why
  /\ done' = IF b = battle THEN done ELSE [w \in Workers |-> NoRows]
  /\ UNCHANGED <<owned, replies, dirty, worker, up, procVars>>

Expire == /\ mpc = "searching" /\ ~expired /\ expired' = TRUE
          /\ UNCHANGED <<ownerVars, worker, up, down, procVars, done>>

Poison(reason) == mpc' = "failed" /\ why' = reason

\* The owner takes a message of w while it searches.
FaultLimit(w, batch) == IF expired \/ batch.exhausted THEN 0 ELSE Min({BatchSize, left[w]})
Limit(w, batch) == IF expired \/ batch.exhausted \/ left[w] <= batch.trajectories THEN 0
                   ELSE Min({BatchSize, left[w] - batch.trajectories})

Update(w, m) ==
  IF ~Acceptable(master, w, m.update)
    THEN Poison("statistics") /\ UNCHANGED <<pending, left, completed, master, down>>
    ELSE /\ master' = Accept(master, w, m.update)
         /\ completed' = completed + m.batch.trajectories
         /\ left' = [left EXCEPT ![w] = IF @ > m.batch.trajectories
                                          THEN @ - m.batch.trajectories ELSE 0]
         /\ Tell(w, [kind |-> "ack", dec |-> decision, snap |-> Snapshot(master'),
                     limit |-> Limit(w, m.batch)])
         /\ UNCHANGED <<mpc, why, pending>>

Mine(w, m) == m.kind \in {"update", "done"} /\ m.dec = decision

Receive(w) ==
  /\ mpc = "searching" /\ w \in pending /\ up[w] # <<>>
  /\ up' = [up EXCEPT ![w] = Tail(@)]
  /\ LET m == Head(up[w])
     IN \/ /\ Mine(w, m) /\ m.kind = "update" /\ Update(w, m)
        \/ /\ Mine(w, m) /\ m.kind = "done" /\ pending' = pending \ {w}
           /\ UNCHANGED <<mpc, why, left, completed, master, down>>
        \/ /\ m.kind = "error" /\ Poison(m.cause)
           /\ UNCHANGED <<pending, left, completed, master, down>>
        \/ /\ ~Mine(w, m) /\ m.kind # "error" /\ Poison("drift")
           /\ UNCHANGED <<pending, left, completed, master, down>>
  /\ UNCHANGED <<decision, battle, root, before, answer, owned, replies, dirty, expired, worker,
                 procVars, done>>

\* Workers that are expected to send and have nothing on the way in time: they
\* hang, or are slower than the timeout, which is one of the faults.
FaultTooSlow == FALSE
TooSlow == \/ pending \cap hung # {} /\ UNCHANGED faults
           \/ pending # {} /\ Fault

\* A pipe at its end, or transport_timeout with nothing ready.
Lost ==
  /\ mpc \in {"starting", "searching"} /\ \A v \in Workers : proc[v] # "unborn"
  /\ \/ (\E w \in pending : Gone(w) /\ up[w] = <<>>) /\ UNCHANGED faults
     \/ (\A w \in pending : up[w] = <<>>) /\ TooSlow
  /\ Poison(IF mpc = "starting" THEN "startup" ELSE "transport")
  /\ UNCHANGED <<pending, decision, battle, root, left, completed, before, master, answer, owned,
                 replies, dirty, expired, worker, up, down, proc, kids, hung, done>>

FaultFinished == pending # Workers /\ completed > 0
Finished == pending = {}

Answer ==
  /\ mpc = "searching" /\ Finished
  /\ IF completed = 0 THEN Poison("empty") /\ UNCHANGED answer
     ELSE IF Sum(master)[root] < before + completed THEN Poison("root") /\ UNCHANGED answer
     ELSE /\ answer' = [visits |-> Sum(master), new |-> completed]
          /\ mpc' = "idle" /\ UNCHANGED why
  /\ UNCHANGED <<pending, decision, battle, root, left, completed, before, master, owned, replies,
                 dirty, expired, worker, up, down, procVars, done>>

--------------------------------------------------------------------------------
(* A decision, on a worker's side. *)

TakeStart(w) ==
  /\ Runs(w) /\ worker[w].pc = "idle" /\ down[w] # <<>>
  /\ down' = [down EXCEPT ![w] = Tail(@)]
  /\ LET m == Head(down[w])
     IN \/ /\ m.kind = "start"
           /\ LET x == Bind(worker[w], m.snap)
              IN IF Mergeable(x, w, m.snap)
                   THEN /\ worker' = [worker EXCEPT ![w] = [Merge(x, m.snap) EXCEPT
                             !.pc = "batch", !.dec = m.dec, !.root = m.root, !.limit = m.limit]]
                        /\ UNCHANGED up
                   ELSE Refuse(w, "statistics")
        \/ m.kind = "close" /\ Stay(w, "finally") /\ UNCHANGED up
        \/ m.kind \notin {"start", "close"} /\ Refuse(w, "drift")
  /\ UNCHANGED <<ownerVars, expired, procVars, done>>

\* search_batch and export_statistics: k trajectories, each through the root.
Visits(w, k) == {inc \in [States -> 0..k] : /\ inc[worker[w].root] = k
                                            /\ \A s \in States :
                                                 Faints[s] < worker[w].floor => inc[s] = 0}
Batch(w) ==
  /\ Runs(w) /\ worker[w].pc = "batch"
  /\ \E k \in 0..worker[w].limit :
       /\ k = worker[w].limit \/ expired
       /\ \E inc \in Visits(w, k) :
            LET x == worker[w]
                export == [battle |-> x.battle, seq |-> x.seq + 1, rows |-> Plus(x.own, inc)]
            IN /\ worker' = [worker EXCEPT ![w] = [x EXCEPT !.pc = "exchange", !.seq = @ + 1,
                               !.own = Plus(@, inc), !.view = Plus(@, inc), !.sent = export]]
               /\ Send(w, [kind |-> "update", dec |-> x.dec, update |-> export,
                           batch |-> [trajectories |-> k, exhausted |-> k < x.limit]])
               /\ done' = [done EXCEPT ![w] = Plus(@, inc)]
  /\ UNCHANGED <<ownerVars, expired, down, procVars>>

TakeAck(w) ==
  /\ Runs(w) /\ worker[w].pc = "exchange" /\ down[w] # <<>>
  /\ down' = [down EXCEPT ![w] = Tail(@)]
  /\ LET m == Head(down[w]) x == worker[w]
     IN \/ /\ m.kind = "ack" /\ m.dec = x.dec /\ Mergeable(x, w, m.snap)
           /\ worker' = [worker EXCEPT ![w] = [Merge(x, m.snap) EXCEPT
                           !.limit = m.limit, !.pc = IF m.limit = 0 THEN "idle" ELSE "batch"]]
           /\ up' = IF m.limit = 0
                      THEN [up EXCEPT ![w] = Append(@, [kind |-> "done", dec |-> x.dec])] ELSE up
        \/ /\ m.kind = "ack" /\ m.dec = x.dec /\ ~Mergeable(x, w, m.snap)
           /\ Refuse(w, "statistics")
        \/ ~(m.kind = "ack" /\ m.dec = x.dec) /\ Refuse(w, "drift")
  /\ UNCHANGED <<ownerVars, expired, procVars, done>>

\* Construction, preparation, sampling or evaluation raises.
RuntimeError(w) ==
  /\ Runs(w) /\ worker[w].pc \in {"isolated", "batch"} /\ Fault
  /\ worker[w].pc = "isolated" => down[w] # <<>> /\ Acked(w)
  /\ Refuse(w, "runtime")
  /\ UNCHANGED <<ownerVars, expired, down, proc, kids, hung, done>>

\* The owner is dead: a receive finds the end of the pipe.
PipeEnded(w) == ~Owner /\ down[w] = <<>>

EndOfPipe(w) ==
  /\ Runs(w) /\ PipeEnded(w)
  /\ worker[w].pc \in {"born", "isolated", "idle", "exchange"}
  /\ Stay(w, "finally")
  /\ UNCHANGED <<ownerVars, expired, up, down, procVars, done>>

\* runtime.close() ends the simulator, or fails and leaves it.
Finally(w) ==
  /\ Runs(w) /\ worker[w].pc = "finally"
  /\ Stay(w, "cleanup")
  /\ \/ kids' = kids \ {w} /\ UNCHANGED faults
     \/ w \in kids /\ Fault /\ UNCHANGED kids
  /\ Send(w, [kind |-> "cleanup_ready", clean |-> w \notin kids'])
  /\ UNCHANGED <<ownerVars, expired, down, proc, hung, done>>

\* Commands that are not the acknowledgement are skipped.
Leave(w) ==
  /\ Runs(w) /\ worker[w].pc = "cleanup"
  /\ \/ /\ down[w] # <<>> /\ down' = [down EXCEPT ![w] = Tail(@)]
        /\ proc' = IF Head(down[w]).kind = "cleanup_ack"
                     THEN [proc EXCEPT ![w] = "exited"] ELSE proc
     \/ /\ PipeEnded(w)
        /\ proc' = [proc EXCEPT ![w] = "exited"] /\ UNCHANGED down
  /\ UNCHANGED <<ownerVars, expired, worker, up, kids, hung, faults, done>>

--------------------------------------------------------------------------------
(* close(): handshake with everyone in one grace interval, then each worker *)
(* in turn is released or killed, and reaped.                               *)

Close ==
  /\ mpc \in {"idle", "failed"}
  /\ mpc' = "closing"
  /\ pending' = {w \in Workers : proc[w] # "unborn"}
  /\ down' = [w \in Workers |-> IF proc[w] = "live" THEN Append(down[w], Message("close"))
                                ELSE down[w]]
  /\ answer' = None
  /\ UNCHANGED <<decision, battle, root, left, completed, before, master, why, owned, replies,
                 dirty, expired, worker, up, procVars, done>>

Drain(w) ==
  /\ mpc = "closing" /\ w \in pending
  /\ \/ /\ up[w] # <<>> /\ up' = [up EXCEPT ![w] = Tail(@)]
        /\ LET m == Head(up[w])
           IN \/ /\ m.kind = "cleanup_ready"
                 /\ replies' = replies \cup {[from |-> w, clean |-> m.clean]}
                 /\ pending' = pending \ {w}
                 /\ UNCHANGED <<owned, dirty, down>>
              \/ /\ m.kind = "isolation" /\ ~Gone(w)
                 /\ owned' = owned \cup {w} /\ Tell(w, Message("isolation_ack"))
                 /\ UNCHANGED <<replies, pending, dirty>>
              \/ /\ m.kind = "isolation" /\ Gone(w)
                 /\ pending' = pending \ {w} /\ dirty' = TRUE
                 /\ UNCHANGED <<owned, replies, down>>
              \/ /\ m.kind \notin {"cleanup_ready", "isolation"}
                 /\ UNCHANGED <<owned, replies, pending, dirty, down>>
     \/ /\ up[w] = <<>> /\ Gone(w)
        /\ pending' = pending \ {w} /\ dirty' = TRUE
        /\ UNCHANGED <<owned, replies, up, down>>
  /\ UNCHANGED <<mpc, decision, battle, root, left, completed, before, master, why, answer,
                 expired, worker, procVars, done>>

\* Everyone answered, or the grace interval is over: start with the first worker.
Grace ==
  /\ mpc = "closing"
  /\ \/ pending = {} /\ UNCHANGED faults
     \/ (\E w \in pending : up[w] = <<>>) /\ TooSlow
  /\ mpc' = "reaping" /\ pending' = {w \in Workers : proc[w] # "unborn"}
  /\ UNCHANGED <<decision, battle, root, left, completed, before, master, why, answer, owned,
                 replies, dirty, expired, worker, up, down, proc, kids, hung, done>>

FaultForced(w) == ~\E r \in replies : r.from = w
Forced(w) == ~\E r \in replies : r.from = w /\ r.clean

\* _close_original_worker of the first worker left, up to the join.
Dismiss(w) ==
  /\ mpc = "reaping" /\ pending # {} /\ w = Min(pending)
  /\ mpc' = "joining"
  /\ \/ /\ proc[w] = "live" /\ ~Forced(w)
        /\ Tell(w, Message("cleanup_ack"))
        /\ UNCHANGED <<proc, kids, dirty>>
     \/ /\ proc[w] = "live" /\ Forced(w)
        /\ proc' = [proc EXCEPT ![w] = "killed"]
        /\ kids' = IF w \in owned THEN kids \ {w} ELSE kids
        /\ dirty' = TRUE /\ UNCHANGED down
     \/ proc[w] # "live" /\ dirty' = TRUE /\ UNCHANGED <<proc, kids, down>>
  /\ UNCHANGED <<pending, decision, battle, root, left, completed, before, master, why, answer,
                 owned, replies, expired, worker, up, hung, faults, done>>

\* join: the leader has exited, or is killed when it does not within two seconds.
Join(w) ==
  /\ mpc = "joining" /\ w = Min(pending)
  /\ proc' = [proc EXCEPT ![w] = "reaped"]
  /\ dirty' = (dirty \/ proc[w] # "exited")
  /\ pending' = pending \ {w}
  /\ mpc' = IF pending' = {} THEN "closed" ELSE "reaping"
  /\ UNCHANGED <<decision, battle, root, left, completed, before, master, why, answer, owned,
                 replies, expired, worker, up, down, kids, hung, faults, done>>

--------------------------------------------------------------------------------
(* Faults. *)

\* A leader is killed from outside; its simulator is not.
Die(w) == /\ proc[w] = "live" /\ Fault
          /\ proc' = [proc EXCEPT ![w] = "killed"]
          /\ UNCHANGED <<ownerVars, expired, worker, up, down, kids, hung, done>>

Hang(w) == /\ Runs(w) /\ Fault /\ hung' = hung \cup {w}
           /\ UNCHANGED <<ownerVars, expired, worker, up, down, proc, kids, done>>

OwnerDies == /\ Owner /\ mpc # "closed" /\ Fault
             /\ mpc' = "dead"
             /\ UNCHANGED <<pending, decision, battle, root, left, completed, before, master, why,
                            answer, owned, replies, dirty, expired, worker, up, down, proc, kids,
                            hung, done>>

--------------------------------------------------------------------------------
OwnerStep == \/ Lost \/ Answer \/ Grace
             \/ \E w \in Workers : \/ Spawn(w) \/ Startup(w) \/ Receive(w) \/ Drain(w)
                                   \/ Dismiss(w) \/ Join(w)
WorkerStep(w) == \/ Isolate(w) \/ BootWorker(w) \/ TakeStart(w) \/ Batch(w) \/ TakeAck(w)
                 \/ EndOfPipe(w) \/ Finally(w) \/ Leave(w)

Next == \/ OwnerStep \/ Close \/ Expire \/ OwnerDies
        \/ \E b \in load.battles, r \in Roots : Search(b, r)
        \/ \E w \in Workers : WorkerStep(w) \/ RuntimeError(w) \/ Die(w) \/ Hang(w)

Spec == Init /\ [][Next /\ UNCHANGED load]_vars

\* The owner's loops run, a with-statement closes the pool, workers run unless they hang.
FairSpec == /\ Spec /\ WF_moving(OwnerStep) /\ WF_moving(Close)
            /\ \A w \in Workers : WF_moving(WorkerStep(w))

--------------------------------------------------------------------------------
TypeOK ==
  /\ mpc \in {"starting", "idle", "searching", "failed", "closing", "reaping", "joining",
             "closed", "dead"}
  /\ pending \subseteq Workers /\ owned \subseteq Workers /\ kids \subseteq Workers
  /\ hung \subseteq Workers /\ {r.from : r \in replies} \subseteq Workers
  /\ why \in {"sound", "startup", "request", "runtime", "transport", "empty", "statistics",
             "root", "drift"}
  /\ proc \in [Workers -> {"unborn", "live", "exited", "killed", "reaped"}]
  /\ \A w \in Workers :
       /\ worker[w].pc \in {"born", "isolated", "idle", "batch", "exchange", "finally", "cleanup"}
       /\ worker[w].limit \in 0..BatchSize /\ left[w] \in 0..load.quota
       /\ worker[w].own \in Rows /\ worker[w].view \in Rows
       /\ Len(up[w]) <= 4 /\ Len(down[w]) <= 3
  /\ completed \in 0..(N * load.quota) /\ faults \in 0..load.faults

(* An answer counts every visit that every worker completed in this battle *)
(* in states the real faint count has not passed, and each of them once:   *)
(* what periodic cumulative exports are for (paper_reference_exchange.py:1-6). *)
Everything(floor) == [s \in States |-> Total([w \in Workers |-> Prune(done[w], floor)[s]])]
AnswerCountsEverything == answer # None => answer.visits = Everything(master.floor)

(* No worker searches on more evidence than exists: imported counts come   *)
(* back neither as its own nor twice.                                      *)
NothingCountedTwice ==
  \A w \in Workers : worker[w].battle = battle => Within(worker[w].view, Everything(0))

(* Whatever the interleaving of workers, deadlines and battles, none of    *)
(* the exchange's own checks ever refuses what a sound process sent.       *)
ExchangeNeverRefuses == why \notin {"statistics", "root", "drift"}

(* No simulator runs in a group the owner could not signal, because the    *)
(* isolation handshake comes first (paper_reference_parallel.py:204-212),  *)
(* and a cleanup that reports a clean scope has left none running.         *)
NoSimulatorIsLost ==
  /\ mpc # "dead" => kids \subseteq owned
  /\ mpc = "closed" /\ ~dirty => kids = {}

(* A decision ends and a pool closes, whatever hangs or dies below; when   *)
(* the owner dies, its workers leave.                                      *)
PoolEnds ==
  /\ (mpc = "searching") ~> (mpc \in {"idle", "failed", "dead"})
  /\ (mpc \in {"closing", "failed"}) ~> (mpc \in {"closed", "dead"})
  /\ (mpc = "dead") ~> (\A w \in Workers : proc[w] # "live" \/ w \in hung)
================================================================================
