----------------------------- MODULE FanInInventory -----------------------------
(***************************************************************************)
(* The trainer's side of the fan-in hand-off (read_fanin_inventory in      *)
(* src/pokezero/fleet_worker.py): read every worker's selected version     *)
(* twice while producers may still publish, refuse what is not one stable  *)
(* snapshot, then require that its tasks tile the queue contract.          *)
(*                                                                         *)
(* A published version never changes; its successor carries its tasks on,  *)
(* or drops them when its producer found no acceptance of them, and then   *)
(* it is pruned.  The reader does not trust producers: any manifests the   *)
(* parser accepts may be there.                                            *)
(***************************************************************************)
EXTENDS Integers, FiniteSets, FiniteSetsExt

CONSTANTS
  Workers,        \* number of lineages, read in the order of their names
  ManifestTasks,  \* the tasks a manifest may list: [id, iteration, offset, count, seed]
  MaxVersions,    \* bound on publications over all workers
  Contract,       \* FanInQueueContract: [iteration, tasks, games, offset, seed]
  ReadAttempts    \* _SELECTED_FANIN_READ_ATTEMPTS (3)

\* The parser of manifests and the contract's own check refuse other numbers.
ASSUME InventoryAssumption ==
  /\ Workers \in Nat \ {0} /\ MaxVersions \in Nat /\ ReadAttempts \in Nat \ {0}
  /\ ManifestTasks \subseteq
       [id : Nat, iteration : Nat, offset : Nat, count : Nat \ {0}, seed : Nat]
  /\ Contract \in
       [iteration : Nat, tasks : Nat \ {0}, games : Nat \ {0}, offset : Nat, seed : Nat]

VARIABLES
  disk,      \* the selected version of each worker, with its manifest
  pruned,    \* workers whose version was replaced during this pass
  pc,        \* what the reader does: "list", "read", or its verdict
  pass,      \* first or second pass
  listed,    \* the workers that had a version when the pass began
  at,        \* the worker it reads next
  read,      \* what the first pass read
  moment,    \* (history) the disk when the first pass ended
  attempt    \* failed attempts

vars == <<disk, pruned, pc, pass, listed, at, read, moment, attempt>>

Lineages == 1..Workers
NoShard  == [version |-> 0, tasks |-> {}]
Nothing  == [w \in Lineages |-> NoShard]
Entries(f) == UNION {{<<w, t>> : t \in f[w].tasks} : w \in Lineages}
TasksOf(f) == {e[2] : e \in Entries(f)}

Init == /\ disk = Nothing /\ pruned = {}
        /\ pc = "list" /\ pass = 1 /\ listed = {} /\ at = 1
        /\ read = Nothing /\ moment = Nothing /\ attempt = 0

--------------------------------------------------------------------------------
(* The contract.  Names beginning with Fault are plausible bugs of the     *)
(* definition below them; no specification uses them.                      *)

\* by_task_id: no id is read twice, and all tasks are of the iteration.
WellFormed(f) == /\ \A d, e \in Entries(f) : d[2].id = e[2].id => d = e
                 /\ \A t \in TasksOf(f) : t.iteration = Contract.iteration

\* The tasks in the order of key, ties by id: each after those that precede it.
Precedes(s, t, key) == s[key] < t[key] \/ (s[key] = t[key] /\ s.id < t.id)
Sorted(S, key) ==
  [i \in 1..Cardinality(S) |->
     CHOOSE t \in S : Cardinality({s \in S : Precedes(s, t, key)}) = i - 1]

\* In that order each range starts where the last one stopped.
Contiguous(S, key, start) ==
  LET q == Sorted(S, key)
  IN \A i \in 1..Cardinality(S) :
       q[i][key] = IF i = 1 THEN start ELSE q[i - 1][key] + q[i - 1].count

\* The games of the tasks, which the reader holds in the order of their offsets.
Games(S) ==
  LET q == Sorted(S, "offset")
      sum[i \in 0..Cardinality(S)] == IF i = 0 THEN 0 ELSE sum[i - 1] + q[i].count
  IN  sum[Cardinality(S)]
FaultMeets(S) ==
  /\ Cardinality(S) = Contract.tasks
  /\ Games(S) = Contract.games
  /\ Contiguous(S, "offset", Contract.offset)
  /\ Contiguous(S, "seed", Contract.seed)
Meets(S) ==
  /\ Cardinality(S) = Contract.tasks
  /\ Games(S) = Contract.games
  /\ Contiguous(S, "offset", Contract.offset)
  /\ Contiguous(S, "seed", Contract.seed)
  /\ \A t \in S : t.seed - Contract.seed = t.offset - Contract.offset

--------------------------------------------------------------------------------
\* A producer's next version, of its predecessor's tasks or of none, and a new one.
Publish(w, t) ==
  /\ MapThenSumSet(LAMBDA v : disk[v].version, Lineages) < MaxVersions
  /\ \E kept \in {disk[w].tasks, {}} :
        /\ \A s \in kept : s.id # t.id
        /\ disk' = [disk EXCEPT ![w] = [version |-> @.version + 1, tasks |-> kept \cup {t}]]
  /\ pruned' = pruned \cup {w}
  /\ UNCHANGED <<pc, pass, listed, at, read, moment, attempt>>

\* A pass visits the workers its directory listing named.
List ==
  /\ pc = "list" /\ pc' = "read"
  /\ listed' = {w \in Lineages : disk[w].version > 0}
  /\ pruned' = {}
  /\ UNCHANGED <<disk, pass, at, read, moment, attempt>>
Seen == IF at \in listed THEN disk[at] ELSE NoShard

\* Begin another attempt, or give up on a moving inventory.
Again == /\ attempt' = attempt + 1
         /\ pc' = IF attempt + 1 < ReadAttempts THEN "list" ELSE "unstable"
         /\ pass' = 1 /\ at' = 1 /\ read' = Nothing /\ listed' = {}

Select ==
  /\ pc = "read" /\ pass = 1
  /\ read' = [read EXCEPT ![at] = Seen]
  /\ IF at < Workers
       THEN at' = at + 1 /\ UNCHANGED <<pc, pass, moment, listed>>
       ELSE /\ at' = 1 /\ pass' = 2 /\ listed' = {}
            /\ moment' = disk
            /\ pc' = IF WellFormed(read') THEN "list" ELSE "rejected"
  /\ UNCHANGED <<disk, pruned, attempt>>

\* A version the pass found was pruned before it was opened or verified.
Vanish ==
  /\ pc = "read"
  /\ \E w \in pruned \cap listed : w = at \/ (pass = 1 /\ w < at)
  /\ Again
  /\ UNCHANGED <<disk, pruned, moment>>

FaultSame == Seen.version > 0 \/ read[at].version = 0
Same == Seen = read[at]

Recheck ==
  /\ pc = "read" /\ pass = 2
  /\ \/ /\ Same /\ at < Workers
        /\ at' = at + 1
        /\ UNCHANGED <<pc, pass, listed, read, attempt>>
     \/ /\ Same /\ at = Workers
        /\ pc' = IF Meets(TasksOf(read)) THEN "accepted" ELSE "rejected"
        /\ UNCHANGED <<pass, listed, at, read, attempt>>
     \/ ~Same /\ Again
  /\ UNCHANGED <<disk, pruned, moment>>

Next == \/ \E w \in Lineages, t \in ManifestTasks : Publish(w, t)
        \/ List \/ Select \/ Vanish \/ Recheck

Spec == Init /\ [][Next]_vars

--------------------------------------------------------------------------------
(* The reader trains on a state the cache was in: although it visits one   *)
(* worker after the other, what two equal passes read was all on disk at   *)
(* one moment.                                                             *)
AcceptedIsASnapshot == pc = "accepted" => read = moment

\* Every game position of the contract is played exactly once, by the task whose
\* seed range covers the same position, and nothing else is in the inventory.
Position(t, key, g) == g \in t[key]..(t[key] + t.count - 1)
Tiles(f) ==
  /\ \A d, e \in Entries(f) : d[2].id = e[2].id => d = e
  /\ \A t \in TasksOf(f) : t.iteration = Contract.iteration
  /\ Cardinality(Entries(f)) = Contract.tasks
  /\ \A g \in 0..(Contract.games - 1) :
       \E t \in TasksOf(f) :
          /\ {s \in TasksOf(f) : Position(s, "offset", Contract.offset + g)} = {t}
          /\ {s \in TasksOf(f) : Position(s, "seed", Contract.seed + g)} = {t}
  /\ \A t \in TasksOf(f) : /\ t.offset >= Contract.offset
                          /\ t.offset + t.count <= Contract.offset + Contract.games

(* An inventory is accepted only if it tiles the contract, and an unmoving *)
(* inventory that tiles it is never rejected.                              *)
VerdictIsExact ==
  /\ pc = "accepted" => Tiles(read)
  /\ pc = "rejected" => ~Tiles(read)
================================================================================
