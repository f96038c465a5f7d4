-------------------------- MODULE FanInInventoryProofs --------------------------
(***************************************************************************)
(* The double read of the trainer returns a snapshot, and accepts exactly  *)
(* the inventories that tile the contract, for every number of workers,    *)
(* set of manifests, contract and bound on attempts.                       *)
(*                                                                         *)
(* The argument for the snapshot: versions only rise and a version never   *)
(* changes, so what the first pass read of a worker is no newer than the   *)
(* disk at its end, and that is no newer than any later disk.  A worker    *)
(* whose second reading equals the first had that version at the moment    *)
(* between them; one that neither pass listed had none.                    *)
(*                                                                         *)
(* The argument for the verdict: sorted ranges of which each starts where  *)
(* the last stopped (Contiguous) are ranges that cover every position once *)
(* (Fits), and one chain of offsets with seeds that keep pace with it      *)
(* makes both.                                                             *)
(***************************************************************************)
EXTENDS FanInInventory, TLAPS, FiniteSetTheorems, WellFoundedInduction

Shard == [version : Nat, tasks : SUBSET ManifestTasks]
Typed == /\ disk \in [Lineages -> Shard]
         /\ read \in [Lineages -> Shard]
         /\ moment \in [Lineages -> Shard]
         /\ \A w \in Lineages : disk[w].version = 0 => disk[w] = NoShard
         /\ listed \subseteq Lineages
         /\ at \in Lineages
         /\ pass \in 1..2
         /\ pc \in {"list", "read", "accepted", "rejected", "unstable"}

\* s is the same version as r, or a later one.
Older(r, s) == r.version <= s.version /\ (r.version = s.version => r = s)

\* The first pass has seen nothing newer than what is there.
Grown == pass = 1 => \A w \in Lineages : Older(read[w], disk[w])

\* The second pass: the workers it confirmed had that version at the moment.
Squeezed ==
  pass = 2 /\ pc \in {"list", "read"} =>
     /\ \A w \in Lineages : Older(read[w], moment[w]) /\ Older(moment[w], disk[w])
     /\ pc = "list" => at = 1
     /\ pc = "read" => \A w \in Lineages :
                         /\ w \notin listed => moment[w] = NoShard
                         /\ w < at => read[w] = moment[w]

IInv == Typed /\ Grown /\ Squeezed /\ AcceptedIsASnapshot

LEMMA OlderTransitive ==
  ASSUME NEW r \in Shard, NEW s \in Shard, NEW t \in Shard, Older(r, s), Older(s, t)
  PROVE  Older(r, t)
BY DEF Older, Shard

\* What lies between two equal versions is that version.
LEMMA OlderSqueezes ==
  ASSUME NEW r \in Shard, NEW s \in Shard, Older(r, s), Older(s, r)
  PROVE  r = s
BY DEF Older, Shard

LEMMA NothingIsOldest ==
  /\ NoShard \in Shard
  /\ \A s \in Shard : (s.version = 0 => s = NoShard) => Older(NoShard, s)
BY DEF NoShard, Shard, Older

LEMMA InitInv == Init => IInv
BY InventoryAssumption, NothingIsOldest
DEF Init, IInv, Typed, Grown, Squeezed, AcceptedIsASnapshot, Nothing, Lineages, Older, NoShard

\* A producer only replaces a version by a later one.
LEMMA PublishKeeps ==
  ASSUME IInv, NEW w \in Lineages, NEW t \in ManifestTasks, Publish(w, t)
  PROVE  IInv'
<1>1. PICK kept \in {disk[w].tasks, {}} :
        disk' = [disk EXCEPT ![w] = [version |-> @.version + 1, tasks |-> kept \cup {t}]]
  BY DEF Publish
<1>2. disk \in [Lineages -> Shard] /\ kept \subseteq ManifestTasks
  BY <1>1 DEF IInv, Typed, Shard
<1>3. \A v \in Lineages : /\ disk'[v] \in Shard /\ Older(disk[v], disk'[v])
                          /\ disk'[v].version = 0 => disk'[v] = NoShard
  <2> SUFFICES ASSUME NEW v \in Lineages
               PROVE /\ disk'[v] \in Shard /\ Older(disk[v], disk'[v])
                     /\ disk'[v].version = 0 => disk'[v] = NoShard
    OBVIOUS
  <2>1. CASE v = w
    <3>1. disk'[v] = [version |-> disk[v].version + 1, tasks |-> kept \cup {t}]
      BY <1>1, <1>2, <2>1
    <3>2. disk[v] \in Shard
      BY <1>2
    <3>q. QED
      BY <3>1, <3>2, <1>2 DEF Shard, Older
  <2>2. CASE v # w
    BY <1>1, <1>2, <2>2 DEF IInv, Typed, Shard, Older
  <2>q. QED
    BY <2>1, <2>2
<1>4. disk' \in [Lineages -> Shard]
  BY <1>1, <1>2, <1>3
<1>5. UNCHANGED <<pc, pass, listed, at, read, moment>>
  BY DEF Publish
<1>6. Grown'
  <2> SUFFICES ASSUME pass = 1, NEW v \in Lineages PROVE Older(read[v], disk'[v])
    BY <1>5 DEF Grown
  <2>q. QED
    BY <1>3, <1>2, OlderTransitive DEF IInv, Typed, Grown
<1>7. Squeezed'
  <2>1. ASSUME pass = 2, pc \in {"list", "read"}, NEW v \in Lineages
        PROVE  Older(moment[v], disk'[v])
    <3>1. Older(moment[v], disk[v]) /\ Older(disk[v], disk'[v])
      BY <2>1, <1>3 DEF IInv, Squeezed
    <3>q. QED
      BY <3>1, <1>3, <1>2, OlderTransitive DEF IInv, Typed
  <2>q. QED
    BY <2>1, <1>5 DEF IInv, Squeezed
<1>q. QED
  BY <1>3, <1>4, <1>5, <1>6, <1>7 DEF IInv, Typed, AcceptedIsASnapshot

\* A new attempt starts from nothing read.
LEMMA AgainKeeps ==
  ASSUME IInv, Again, UNCHANGED <<disk, moment>>
  PROVE  IInv'
<1>1. Typed'
  BY InventoryAssumption, NothingIsOldest DEF Again, IInv, Typed, Nothing, Lineages
<1>2. Grown'
  BY NothingIsOldest DEF Again, IInv, Typed, Grown, Nothing
<1>q. QED
  BY <1>1, <1>2 DEF Again, IInv, Squeezed, AcceptedIsASnapshot

LEMMA ListKeeps ==
  ASSUME IInv, List
  PROVE  IInv'
<1>1. Typed' /\ Grown'
  BY DEF List, IInv, Typed, Grown
<1>2. Squeezed'
  <2>1. ASSUME pass = 2, NEW w \in Lineages, disk[w].version = 0 PROVE moment[w] = NoShard
    <3>1. disk[w] = NoShard /\ Older(moment[w], disk[w])
      BY <2>1 DEF List, IInv, Typed, Squeezed
    <3>2. moment[w] \in Shard /\ moment[w].version = 0
      BY <3>1 DEF IInv, Typed, Older, NoShard, Shard
    <3>q. QED
      BY <3>1, <3>2 DEF Older, NoShard
  <2>2. \A w \in Lineages : w \notin listed' => disk[w].version = 0
    BY DEF List, IInv, Typed, Shard
  <2>3. pass = 2 => at = 1
    BY DEF List, IInv, Squeezed
  <2>q. QED
    BY <2>1, <2>2, <2>3 DEF List, IInv, Squeezed, Lineages
<1>q. QED
  BY <1>1, <1>2 DEF List, IInv, AcceptedIsASnapshot

\* What the reader sees of a worker in the first pass is not newer than the disk.
LEMMA SelectKeeps ==
  ASSUME IInv, Select
  PROVE  IInv'
<1>1. Seen \in Shard /\ Older(Seen, disk[at])
  <2>1. disk[at] \in Shard /\ (disk[at].version = 0 => disk[at] = NoShard)
    BY DEF IInv, Typed
  <2>2. Older(disk[at], disk[at])
    BY <2>1 DEF Shard, Older
  <2>q. QED
    BY <2>1, <2>2, NothingIsOldest DEF Seen
<1>2. /\ read' \in [Lineages -> Shard]
      /\ \A w \in Lineages : Older(read'[w], disk[w])
  BY <1>1 DEF Select, IInv, Typed, Grown
<1>3. CASE at < Workers
  <2>1. /\ at' = at + 1 /\ pass = 1 /\ pc = "read"
        /\ UNCHANGED <<disk, pc, pass, moment, listed>>
    BY <1>3 DEF Select
  <2>2. at' \in Lineages
    BY <1>3, <2>1, InventoryAssumption DEF IInv, Typed, Lineages
  <2>q. QED
    BY <1>2, <2>1, <2>2 DEF IInv, Typed, Grown, Squeezed, AcceptedIsASnapshot
<1>4. CASE ~(at < Workers)
  <2>1. /\ at' = 1 /\ pass' = 2 /\ listed' = {} /\ moment' = disk /\ disk' = disk
        /\ pc' \in {"list", "rejected"}
    BY <1>4 DEF Select
  <2>2. Squeezed'
    <3>1. \A w \in Lineages : Older(disk[w], disk[w])
      BY DEF IInv, Typed, Shard, Older
    <3>q. QED
      BY <1>2, <2>1, <3>1 DEF Squeezed
  <2>q. QED
    BY <1>2, <2>1, <2>2, InventoryAssumption
    DEF IInv, Typed, Grown, AcceptedIsASnapshot, Lineages
<1>q. QED
  BY <1>3, <1>4

\* A worker read twice with one result had that version at the moment.
LEMMA SameIsMoment ==
  ASSUME IInv, pass = 2, pc = "read", Same
  PROVE  read[at] = moment[at]
<1>1. /\ at \in Lineages /\ read[at] \in Shard /\ moment[at] \in Shard
      /\ Older(read[at], moment[at]) /\ Older(moment[at], disk[at])
  BY DEF IInv, Typed, Squeezed
<1>2. CASE at \in listed
  <2>1. read[at] = disk[at]
    BY <1>2 DEF Same, Seen
  <2>q. QED
    BY <1>1, <2>1, OlderSqueezes
<1>3. CASE at \notin listed
  BY <1>1, <1>3 DEF Same, Seen, IInv, Squeezed
<1>q. QED
  BY <1>2, <1>3

LEMMA RecheckKeeps ==
  ASSUME IInv, Recheck
  PROVE  IInv'
<1>1. CASE ~Same /\ Again
  BY <1>1, AgainKeeps DEF Recheck
<1>2. CASE Same /\ at < Workers /\ at' = at + 1 /\ UNCHANGED <<pc, pass, listed, read, attempt>>
  <2>1. read[at] = moment[at]
    BY <1>2, SameIsMoment DEF Recheck
  <2>2. \A w \in Lineages : w < at + 1 => read[w] = moment[w]
    <3>1. SUFFICES ASSUME NEW w \in Lineages, w < at + 1, w # at PROVE w < at
      BY <2>1 DEF Recheck, IInv, Squeezed
    <3>q. QED
      BY <3>1, InventoryAssumption DEF IInv, Typed, Lineages
  <2>q. QED
    BY <1>2, <2>2, InventoryAssumption
    DEF Recheck, IInv, Typed, Grown, Squeezed, AcceptedIsASnapshot, Lineages
<1>3. CASE /\ Same /\ at = Workers
           /\ pc' = IF Meets(TasksOf(read)) THEN "accepted" ELSE "rejected"
           /\ UNCHANGED <<pass, listed, at, read, attempt>>
  <2>1. read[at] = moment[at]
    BY <1>3, SameIsMoment DEF Recheck
  <2>2. \A w \in Lineages : read[w] = moment[w]
    <3>1. \A w \in Lineages : w < at \/ w = at
      BY <1>3, InventoryAssumption DEF Lineages
    <3>q. QED
      BY <2>1, <3>1 DEF Recheck, IInv, Squeezed
  <2>3. read = moment
    BY <2>2 DEF IInv, Typed
  <2>4. pc' \in {"accepted", "rejected"}
    BY <1>3
  <2>q. QED
    BY <1>3, <2>3, <2>4 DEF Recheck, IInv, Typed, Grown, Squeezed, AcceptedIsASnapshot
<1>q. QED
  BY <1>1, <1>2, <1>3 DEF Recheck

LEMMA NextInv == IInv /\ [Next]_vars => IInv'
<1> SUFFICES ASSUME IInv, [Next]_vars PROVE IInv'
  OBVIOUS
<1>1. CASE UNCHANGED vars
  BY <1>1 DEF vars, IInv, Typed, Grown, Squeezed, AcceptedIsASnapshot
<1>2. ASSUME NEW w \in Lineages, NEW t \in ManifestTasks, Publish(w, t) PROVE IInv'
  BY <1>2, PublishKeeps
<1>3. CASE List
  BY <1>3, ListKeeps
<1>4. CASE Select
  BY <1>4, SelectKeeps
<1>5. CASE Vanish
  BY <1>5, AgainKeeps DEF Vanish
<1>6. CASE Recheck
  BY <1>6, RecheckKeeps
<1>q. QED
  BY <1>1, <1>2, <1>3, <1>4, <1>5, <1>6 DEF Next

(* Whatever producers publish while the trainer reads worker after worker, *)
(* an accepted inventory is the disk at the end of its first pass          *)
(* (fleet_worker.py:3066-3115).                                            *)
THEOREM AcceptedIsASnapshotHolds == Spec => []AcceptedIsASnapshot
<1>1. IInv => AcceptedIsASnapshot
  BY DEF IInv
<1>q. QED
  BY InitInv, NextInv, <1>1, PTL DEF Spec

--------------------------------------------------------------------------------
(* Induction and sorting.  The sort is by a strict order, so a task has as *)
(* many before it as its position says.                                    *)

LEMMA Least ==
  ASSUME NEW T \in SUBSET Nat, T # {} PROVE \E m \in T : \A y \in T : m <= y
<1>0. PICK n : n \in T
  OBVIOUS
<1>1. PICK m \in T : \A y \in T : ~(<<y, m>> \in OpToRel(<, Nat))
  <2>1. T \subseteq Nat
    OBVIOUS
  <2>q. QED
    BY <1>0, <2>1, NatLessThanWellFounded, WFMin
<1>2. ASSUME NEW y \in T PROVE m <= y
  <2>1. y \in Nat /\ m \in Nat
    OBVIOUS
  <2>2. ~(y < m)
    BY <1>1, <2>1, Zenon DEF OpToRel
  <2>q. QED
    BY <2>1, <2>2
<1>q. QED
  BY <1>2

\* Induction up to n, over a set of numbers.
LEMMA UpTo ==
  ASSUME NEW n \in Nat, NEW P, 0 \in P, \A i \in 1..n : i - 1 \in P => i \in P
  PROVE  0..n \subseteq P
<1> DEFINE T == {i \in 0..n : i \notin P}
<1> SUFFICES ASSUME T # {} PROVE FALSE
  OBVIOUS
<1>1. T \in SUBSET Nat
  OBVIOUS
<1>2. PICK m \in T : \A y \in T : m <= y
  <2> HIDE DEF T
  <2>q. QED
    BY <1>1, Least
<1>3. m \in 1..n /\ m - 1 \in 0..n
  OBVIOUS
<1>4. m - 1 \notin T
  BY <1>2, <1>3
<1>q. QED
  BY <1>3, <1>4

Before(S, t, key) == {s \in S : Precedes(s, t, key)}
Rank(S, t, key) == Cardinality(Before(S, t, key))

\* What can be sorted: finitely many tasks, told apart by their ids.
Sortable(S, key) ==
  /\ IsFiniteSet(S)
  /\ \A t \in S : t[key] \in Int /\ t.id \in Int /\ t.count \in Nat \ {0}
  /\ \A s, t \in S : s.id = t.id => s = t

LEMMA Precedence ==
  ASSUME NEW S, NEW key, Sortable(S, key)
  PROVE  /\ \A s \in S : ~Precedes(s, s, key)
         /\ \A s, t \in S : s # t => Precedes(s, t, key) \/ Precedes(t, s, key)
         /\ \A r, s, t \in S : Precedes(r, s, key) /\ Precedes(s, t, key) => Precedes(r, t, key)
         /\ \A s, t \in S : Precedes(s, t, key) => s[key] <= t[key]
BY DEF Sortable, Precedes

LEMMA Ranks ==
  ASSUME NEW S, NEW key, Sortable(S, key)
  PROVE  /\ Cardinality(S) \in Nat
         /\ \A t \in S : Rank(S, t, key) \in 0..Cardinality(S) - 1
         /\ \A s, t \in S : Precedes(s, t, key) => Rank(S, s, key) < Rank(S, t, key)
<1>1. IsFiniteSet(S) /\ Cardinality(S) \in Nat
  BY FS_CardinalityType DEF Sortable
<1>2. ASSUME NEW t \in S
      PROVE  /\ IsFiniteSet(Before(S, t, key)) /\ Rank(S, t, key) \in Nat
             /\ Rank(S, t, key) \in 0..Cardinality(S) - 1
  <2>1. Before(S, t, key) \in SUBSET (S \ {t})
    BY Precedence DEF Before
  <2>2. IsFiniteSet(S \ {t}) /\ Cardinality(S \ {t}) = Cardinality(S) - 1
    BY <1>1, FS_RemoveElement
  <2>3. /\ IsFiniteSet(Before(S, t, key))
        /\ Cardinality(Before(S, t, key)) <= Cardinality(S \ {t})
    BY <2>1, <2>2, FS_Subset
  <2>4. Cardinality(Before(S, t, key)) \in Nat
    BY <2>3, FS_CardinalityType
  <2>q. QED
    BY <1>1, <2>2, <2>3, <2>4 DEF Rank
<1>3. ASSUME NEW s \in S, NEW t \in S, Precedes(s, t, key)
      PROVE  Rank(S, s, key) < Rank(S, t, key)
  <2>1. Before(S, s, key) \cup {s} \in SUBSET Before(S, t, key) /\ s \notin Before(S, s, key)
    BY <1>3, Precedence DEF Before
  <2>2. Cardinality(Before(S, s, key) \cup {s}) = Cardinality(Before(S, s, key)) + 1
    BY <1>2, <2>1, FS_AddElement
  <2>3. Cardinality(Before(S, s, key) \cup {s}) <= Cardinality(Before(S, t, key))
    BY <1>2, <2>1, FS_Subset
  <2>4. Rank(S, s, key) \in Nat /\ Rank(S, t, key) \in Nat
    BY <1>2
  <2>q. QED
    BY <2>2, <2>3, <2>4 DEF Rank
<1>q. QED
  BY <1>1, <1>2, <1>3

\* q lists S, in an order in which the key does not fall.
Lists(q, S, key) ==
  /\ \A i \in 1..Cardinality(S) : q[i] \in S
  /\ \A t \in S : \E i \in 1..Cardinality(S) : q[i] = t
  /\ \A i, j \in 1..Cardinality(S) : i < j => q[i] # q[j] /\ q[i][key] <= q[j][key]

LEMMA SortedIs ==
  ASSUME NEW S, NEW key, Sortable(S, key)
  PROVE  /\ Lists(Sorted(S, key), S, key)
         /\ \A i \in 1..Cardinality(S) : Rank(S, Sorted(S, key)[i], key) = i - 1
<1> DEFINE N == Cardinality(S)
           R == [t \in S |-> Rank(S, t, key)]
           q == Sorted(S, key)
<1>1. /\ IsFiniteSet(S) /\ N \in Nat /\ R \in [S -> 0..N - 1]
  BY Ranks DEF Sortable
<1>2. \A s, t \in S : R[s] = R[t] => s = t
  <2>1. ASSUME NEW s \in S, NEW t \in S, s # t PROVE R[s] # R[t]
    <3>1. Precedes(s, t, key) \/ Precedes(t, s, key)
      BY <2>1, Precedence
    <3>2. R[s] < R[t] \/ R[t] < R[s]
      BY <3>1, Ranks
    <3>3. R[s] \in Int /\ R[t] \in Int
      BY <1>1
    <3>q. QED
      BY <3>2, <3>3
  <2>q. QED
    BY <2>1
<1>3. R \in Injection(S, 0..N - 1)
  BY <1>1, <1>2 DEF Injection, IsInjective
<1>4. IsFiniteSet(0..N - 1) /\ Cardinality(0..N - 1) = N
  <2>1. 0 \in Int /\ N - 1 \in Int
    BY <1>1
  <2>2. IsFiniteSet(0..N - 1) /\ Cardinality(0..N - 1) = IF 0 > N - 1 THEN 0 ELSE N - 1 - 0 + 1
    BY <2>1, FS_Interval
  <2>q. QED
    BY <1>1, <2>2
<1>5. R \in Surjection(S, 0..N - 1)
  BY <1>3, <1>4, FS_Injection
<1>6. \A i \in 1..N : \E t \in S : R[t] = i - 1
  <2>1. \A i \in 1..N : i - 1 \in 0..N - 1
    BY <1>1
  <2>q. QED
    BY <1>5, <2>1 DEF Surjection
<1>7. ASSUME NEW i \in 1..N
      PROVE  q[i] \in S /\ R[q[i]] = i - 1
  <2>1. q[i] = CHOOSE t \in S : Cardinality({s \in S : Precedes(s, t, key)}) = i - 1
    BY DEF Sorted
  <2>2. \E t \in S : Cardinality({s \in S : Precedes(s, t, key)}) = i - 1
    BY <1>6 DEF Rank, Before
  <2> DEFINE u == CHOOSE t \in S : Cardinality({s \in S : Precedes(s, t, key)}) = i - 1
  <2>3. u \in S /\ Cardinality({s \in S : Precedes(s, u, key)}) = i - 1
    BY <2>2
  <2>q. QED
    BY <2>1, <2>3 DEF Rank, Before
<1> HIDE DEF q, R
<1>8. ASSUME NEW t \in S PROVE \E i \in 1..N : q[i] = t
  <2>1. PICK i \in 1..N : i - 1 = R[t]
    <3>1. R[t] \in 0..N - 1
      BY <1>1
    <3>2. \A r \in 0..N - 1 : \E i \in 1..N : i - 1 = r
      <4>1. \A r \in 0..N - 1 : r + 1 \in 1..N /\ r + 1 - 1 = r
        BY <1>1
      <4>q. QED
        BY <4>1
    <3>q. QED
      BY <3>1, <3>2
  <2>2. q[i] \in S /\ R[q[i]] = R[t]
    BY <1>7, <2>1
  <2>q. QED
    BY <1>2, <2>1, <2>2
<1>9. ASSUME NEW i \in 1..N, NEW j \in 1..N, i < j
      PROVE  q[i] # q[j] /\ q[i][key] <= q[j][key]
  <2>1. q[i] \in S /\ q[j] \in S /\ R[q[i]] = i - 1 /\ R[q[j]] = j - 1
    BY <1>7
  <2>2. q[i] # q[j] /\ R[q[i]] < R[q[j]] /\ ~(R[q[j]] < R[q[i]])
    BY <1>9, <2>1
  <2>3. Precedes(q[i], q[j], key) \/ Precedes(q[j], q[i], key)
    BY <2>1, <2>2, Precedence
  <2>4. ~Precedes(q[j], q[i], key)
    BY <2>1, <2>2, Ranks DEF R
  <2>q. QED
    BY <2>1, <2>2, <2>3, <2>4, Precedence
<1>q. QED
  BY <1>7, <1>8, <1>9 DEF Lists, q, R

--------------------------------------------------------------------------------
(* A chain of ranges and the positions they cover.                         *)

End(t, key) == t[key] + t.count

\* Every position of start, start + 1 .. is in one range, and they reach no further.
Fits(S, key, start, games) ==
  /\ \A t \in S : t[key] >= start /\ End(t, key) <= start + games
  /\ \A g \in 0..games - 1 : \E t \in S : Position(t, key, start + g)
  /\ \A s, t \in S, g \in Int : Position(s, key, g) /\ Position(t, key, g) => s = t

LEMMA ChainFits ==
  ASSUME NEW S, NEW key, Sortable(S, key), S # {}, NEW start \in Nat, NEW games \in Nat,
         Contiguous(S, key, start),
         End(Sorted(S, key)[Cardinality(S)], key) = start + games
  PROVE  Fits(S, key, start, games)
<1> DEFINE N == Cardinality(S)
           q == Sorted(S, key)
           a == [i \in 1..N |-> q[i][key]]
           z == [i \in 1..N |-> q[i][key] + q[i].count]
<1>1. N \in Nat \ {0}
  BY Ranks, FS_EmptySet DEF Sortable
<1>2. Lists(q, S, key)
  BY SortedIs
<1>3. \A i \in 1..N : q[i] \in S /\ a[i] \in Int /\ z[i] \in Int /\ a[i] < z[i]
  BY <1>2 DEF Lists, Sortable
<1>4. \A i \in 1..N : a[i] = IF i = 1 THEN start ELSE z[i - 1]
  <2>1. \A i \in 1..N : q[i][key] = IF i = 1 THEN start ELSE q[i - 1][key] + q[i - 1].count
    BY DEF Contiguous
  <2>2. \A i \in 1..N : i = 1 \/ i - 1 \in 1..N
    BY <1>1
  <2>q. QED
    BY <2>1, <2>2
<1>5. z[N] = start + games
  BY <1>1 DEF End
<1>6. \A i \in 1..N : \A g \in Int : Position(q[i], key, g) <=> a[i] <= g /\ g < z[i]
  BY <1>2 DEF Position, Lists, Sortable
<1>7. \A t \in S : \E i \in 1..N : q[i] = t /\ t[key] = a[i] /\ End(t, key) = z[i]
  BY <1>2 DEF Lists, End
<1> HIDE DEF N, q, a, z
\* Each range ends before all later ones begin.
<1>8. \A j \in 1..N : /\ start <= a[j]
                      /\ \A i \in 1..N : i < j => z[i] <= a[j]
  <2> DEFINE P == {j \in 0..N : /\ j > 0 => start <= a[j]
                                /\ \A i \in 1..N : i < j => z[i] <= a[j]}
  <2>1. 0 \in P
    BY <1>1
  <2>2. ASSUME NEW j \in 1..N, j - 1 \in P PROVE j \in P
    <3>1. CASE j = 1
      <4>1. a[j] = start
        BY <1>4, <3>1
      <4>q. QED
        BY <1>1, <4>1, <3>1
    <3>2. CASE j # 1
      <4>1. j - 1 \in 1..N /\ a[j] = z[j - 1] /\ a[j - 1] < z[j - 1]
        BY <1>1, <1>3, <1>4, <3>2
      <4>2. start <= a[j - 1] /\ \A i \in 1..N : i < j - 1 => z[i] <= a[j - 1]
        BY <2>2, <4>1
      <4>3. ASSUME NEW i \in 1..N, i < j PROVE z[i] <= a[j]
        <5>1. CASE i = j - 1
          BY <5>1, <4>1, <1>3
        <5>2. CASE i < j - 1
          BY <5>2, <4>1, <4>2, <1>3
        <5>q. QED
          BY <1>1, <4>3, <5>1, <5>2
      <4>4. start <= a[j]
        BY <4>1, <4>2, <1>3
      <4>q. QED
        BY <1>1, <4>3, <4>4
    <3>q. QED
      BY <3>1, <3>2
  <2>3. 0..N \subseteq P
    <3> HIDE DEF P
    <3>q. QED
      BY <1>1, <2>1, <2>2, UpTo
  <2>q. QED
    BY <1>1, <2>3
<1>9. \A i \in 1..N : z[i] <= start + games
  <2>1. ASSUME NEW i \in 1..N, i < N PROVE z[i] <= start + games
    <3>1. N \in 1..N
      BY <1>1
    <3>q. QED
      BY <1>3, <1>5, <1>8, <2>1, <3>1
  <2>q. QED
    BY <1>1, <1>5, <2>1
<1>10. ASSUME NEW g \in 0..games - 1 PROVE \E t \in S : Position(t, key, start + g)
  <2> DEFINE T == {i \in 1..N : start + g < z[i]}
  <2>1. N \in T
    BY <1>1, <1>5
  <2>2. PICK m \in T : \A y \in T : m <= y
    <3>1. T \in SUBSET Nat /\ T # {}
      BY <2>1
    <3> HIDE DEF T
    <3>q. QED
      BY <3>1, Least
  <2>3. a[m] <= start + g
    <3>1. CASE m = 1
      BY <3>1, <1>4, <1>1
    <3>2. CASE m # 1
      <4>1. m - 1 \in 1..N /\ m - 1 \notin T
        BY <1>1, <2>2, <3>2
      <4>q. QED
        BY <4>1, <3>2, <1>3, <1>4
    <3>q. QED
      BY <3>1, <3>2
  <2>4. Position(q[m], key, start + g)
    BY <2>3, <1>6
  <2>q. QED
    BY <1>3, <2>4
<1>11. ASSUME NEW s \in S, NEW t \in S, NEW g \in Int, Position(s, key, g), Position(t, key, g)
       PROVE  s = t
  <2>1. PICK i \in 1..N : q[i] = s
    BY <1>7
  <2>2. PICK j \in 1..N : q[j] = t
    BY <1>7
  <2>3. a[i] <= g /\ g < z[i] /\ a[j] <= g /\ g < z[j]
    BY <1>6, <1>11, <2>1, <2>2
  <2>4. ~(i < j) /\ ~(j < i)
    BY <1>3, <1>8, <2>3
  <2>q. QED
    BY <2>1, <2>2, <2>4
<1>12. \A t \in S : t[key] >= start /\ End(t, key) <= start + games
  BY <1>7, <1>8, <1>9
<1>q. QED
  BY <1>10, <1>11, <1>12 DEF Fits

LEMMA FitsChain ==
  ASSUME NEW S, NEW key, Sortable(S, key), S # {},
         NEW start \in Nat, NEW games \in Nat \ {0},
         Fits(S, key, start, games)
  PROVE  /\ Contiguous(S, key, start)
         /\ End(Sorted(S, key)[Cardinality(S)], key) = start + games
<1> DEFINE N == Cardinality(S)
           q == Sorted(S, key)
           a == [i \in 1..N |-> q[i][key]]
           z == [i \in 1..N |-> q[i][key] + q[i].count]
<1>1. N \in Nat \ {0}
  BY Ranks, FS_EmptySet DEF Sortable
<1>2. Lists(q, S, key)
  BY SortedIs
<1>3. \A i \in 1..N : q[i] \in S /\ a[i] \in Int /\ z[i] \in Int /\ a[i] < z[i]
  BY <1>2 DEF Lists, Sortable
<1>4. \A i \in 1..N : start <= a[i] /\ z[i] <= start + games
  BY <1>3 DEF Fits, End
<1>5. \A i, j \in 1..N : i < j => q[i] # q[j] /\ a[i] <= a[j]
  BY <1>2 DEF Lists
<1>6. \A i \in 1..N : \A g \in Int : Position(q[i], key, g) <=> a[i] <= g /\ g < z[i]
  BY <1>2 DEF Position, Lists, Sortable
<1>7. \A t \in S : \E i \in 1..N : q[i] = t
  BY <1>2 DEF Lists
<1>8. \A i \in 1..N : a[i] = q[i][key] /\ z[i] = q[i][key] + q[i].count
  OBVIOUS
<1> HIDE DEF N, q, a, z
\* A position is in one range.
<1>9. ASSUME NEW g \in Int, start <= g, g < start + games
      PROVE  \E i \in 1..N : a[i] <= g /\ g < z[i]
  <2>1. g - start \in 0..games - 1 /\ start + (g - start) = g
    BY <1>9
  <2>2. PICK t \in S : Position(t, key, start + (g - start))
    BY <2>1 DEF Fits
  <2>3. PICK i \in 1..N : q[i] = t
    BY <1>7
  <2>q. QED
    BY <1>6, <1>9, <2>1, <2>2, <2>3
<1>10. \A i, j \in 1..N, g \in Int :
         a[i] <= g /\ g < z[i] /\ a[j] <= g /\ g < z[j] => ~(i < j)
  BY <1>3, <1>5, <1>6 DEF Fits
<1>11. \A i, j \in 1..N : i < j => z[i] <= a[j]
  BY <1>3, <1>5, <1>10
<1>12. a[1] = start
  <2>1. PICK i \in 1..N : a[i] <= start /\ start < z[i]
    BY <1>9
  <2>2. 1 \in 1..N /\ a[1] <= a[i]
    <3>1. i = 1 \/ 1 < i
      BY <1>1
    <3>q. QED
      BY <1>1, <1>3, <1>5, <3>1
  <2>q. QED
    BY <1>3, <1>4, <2>1, <2>2
<1>13. ASSUME NEW i \in 1..N, i # 1 PROVE a[i] = z[i - 1]
  <2>1. i - 1 \in 1..N /\ z[i - 1] <= a[i]
    BY <1>1, <1>11, <1>13
  <2>2. ASSUME z[i - 1] < a[i] PROVE FALSE
    <3>1. start <= z[i - 1] /\ z[i - 1] < start + games
      BY <2>1, <2>2, <1>3, <1>4
    <3>2. PICK j \in 1..N : a[j] <= z[i - 1] /\ z[i - 1] < z[j]
      BY <2>1, <3>1, <1>3, <1>9
    <3>3. j < i
      <4>1. j = i \/ i < j => a[i] <= a[j]
        BY <1>3, <1>5
      <4>q. QED
        BY <4>1, <3>2, <2>1, <2>2, <1>3
    <3>4. j # i - 1 /\ j < i - 1
      BY <3>2, <3>3, <2>1, <1>3
    <3>5. z[j] <= a[i - 1]
      BY <3>4, <2>1, <1>11
    <3>q. QED
      BY <3>2, <3>5, <2>1, <1>3
  <2>q. QED
    BY <2>1, <2>2, <1>3
<1>14. z[N] = start + games
  <2>1. PICK i \in 1..N : a[i] <= start + games - 1 /\ start + games - 1 < z[i]
    BY <1>9
  <2>2. N \in 1..N /\ z[i] <= z[N]
    <3>1. N \in 1..N
      BY <1>1
    <3>2. i = N \/ i < N
      BY <1>1
    <3>q. QED
      BY <1>3, <1>11, <3>1, <3>2
  <2>q. QED
    BY <1>3, <1>4, <2>1, <2>2
<1>15. \A i \in 1..N : q[i][key] = IF i = 1 THEN start ELSE q[i - 1][key] + q[i - 1].count
  <2>1. ASSUME NEW i \in 1..N, i # 1 PROVE q[i][key] = q[i - 1][key] + q[i - 1].count
    <3>1. i - 1 \in 1..N
      BY <1>1, <2>1
    <3>q. QED
      BY <1>8, <1>13, <2>1, <3>1
  <2>2. 1 \in 1..N
    BY <1>1
  <2>q. QED
    BY <1>8, <1>12, <2>1, <2>2
<1>16. N \in 1..N
  BY <1>1
<1>q. QED
  BY <1>8, <1>14, <1>15, <1>16 DEF Contiguous, End, N, q

\* Along a chain the games of the tasks add up to its length.
LEMMA GamesOfChain ==
  ASSUME NEW S, Sortable(S, "offset"), S # {}, NEW start \in Nat,
         Contiguous(S, "offset", start)
  PROVE  Games(S) = End(Sorted(S, "offset")[Cardinality(S)], "offset") - start
<1> DEFINE N == Cardinality(S)
           q == Sorted(S, "offset")
           a == [i \in 1..N |-> q[i].offset]
           c == [i \in 1..N |-> q[i].count]
           f == [i \in 0..N |-> IF i = 0 THEN 0 ELSE a[i] + c[i] - start]
           Sums(g) == g = [i \in 0..N |-> IF i = 0 THEN 0 ELSE g[i - 1] + q[i].count]
<1>1. N \in Nat \ {0}
  BY Ranks, FS_EmptySet DEF Sortable
<1>2. \A i \in 1..N : a[i] \in Int /\ c[i] \in Int /\ q[i].count = c[i]
  BY SortedIs DEF Lists, Sortable
<1>3. \A i \in 1..N : a[i] = IF i = 1 THEN start ELSE a[i - 1] + c[i - 1]
  <2>1. \A i \in 1..N : q[i]["offset"] = IF i = 1 THEN start ELSE q[i - 1]["offset"] + q[i - 1].count
    BY DEF Contiguous
  <2>2. \A i \in 1..N : i = 1 \/ i - 1 \in 1..N
    BY <1>1
  <2>q. QED
    BY <2>1, <2>2
<1> HIDE DEF N, a, c
<1>4. Sums(f)
  <2>1. ASSUME NEW i \in 1..N PROVE f[i] = f[i - 1] + q[i].count
    <3>1. i \in 0..N /\ i - 1 \in 0..N /\ i # 0 /\ (i = 1 \/ i - 1 \in 1..N)
      BY <1>1
    <3>2. f[i] = a[i] + c[i] - start
      BY <3>1
    <3>3. f[i - 1] = a[i] - start
      BY <3>1, <1>1, <1>2, <1>3
    <3>q. QED
      BY <3>2, <3>3, <1>2
  <2>2. \A i \in 0..N : f[i] = IF i = 0 THEN 0 ELSE f[i - 1] + q[i].count
    <3>1. f[0] = 0
      BY <1>1
    <3>2. \A i \in 0..N : i = 0 \/ i \in 1..N
      BY <1>1
    <3> HIDE DEF f
    <3>q. QED
      BY <2>1, <3>1, <3>2
  <2>3. f = [i \in 0..N |-> f[i]]
    OBVIOUS
  <2> HIDE DEF f
  <2>q. QED
    BY <2>2, <2>3
<1>5. ASSUME NEW g, Sums(g) PROVE g[N] = f[N]
  <2> DEFINE P == {i \in 0..N : g[i] = f[i]}
  <2>1. 0 \in P
    BY <1>1, <1>5
  <2>2. ASSUME NEW i \in 1..N, i - 1 \in P PROVE i \in P
    <3>1. i \in 0..N /\ i # 0
      BY <1>1
    <3>2. f[i] = f[i - 1] + q[i].count
      BY <3>1, <1>4
    <3>3. g[i] = g[i - 1] + q[i].count
      BY <3>1, <1>5
    <3> HIDE DEF f
    <3>q. QED
      BY <2>2, <3>1, <3>2, <3>3
  <2>3. 0..N \subseteq P
    <3> HIDE DEF P
    <3>q. QED
      BY <1>1, <2>1, <2>2, UpTo
  <2>q. QED
    BY <1>1, <2>3
<1>6. Games(S) = (CHOOSE g : Sums(g))[N]
  BY DEF Games, N
<1>7. Sums(CHOOSE g : Sums(g))
  <2> HIDE DEF Sums, f
  <2>q. QED
    BY <1>4
<1>8. Games(S) = f[N]
  <2> HIDE DEF Sums, f
  <2>q. QED
    BY <1>5, <1>6, <1>7
<1>9. N \in 0..N /\ N # 0 /\ N \in 1..N
  BY <1>1
<1>10. f[N] = a[N] + c[N] - start
  BY <1>9
<1>11. a[N] = q[N].offset /\ c[N] = q[N].count
  BY <1>9 DEF a, c
<1>12. End(q[N], "offset") = q[N].offset + q[N].count
  BY DEF End
<1> HIDE DEF f, q, Sums
<1>13. Games(S) = End(q[N], "offset") - start
  <2>1. a[N] \in Int /\ c[N] \in Int
    BY <1>2, <1>9
  <2>2. End(q[N], "offset") = a[N] + c[N]
    BY <1>11, <1>12
  <2>q. QED
    BY <1>8, <1>10, <2>1, <2>2
<1>q. QED
  BY <1>13 DEF N, q

--------------------------------------------------------------------------------
(* The contract's tests and the tiling it asks for are one condition on    *)
(* what a reader can have read.                                            *)

FiniteTasks(f) == \A w \in Lineages : f[w].tasks \subseteq ManifestTasks /\ IsFiniteSet(f[w].tasks)

LEMMA FiniteEntries ==
  ASSUME NEW f, FiniteTasks(f) PROVE IsFiniteSet(Entries(f))
<1> DEFINE Of(w) == {<<w, t>> : t \in f[w].tasks}
           All == {Of(w) : w \in Lineages}
<1>1. ASSUME NEW w \in Lineages PROVE IsFiniteSet(Of(w))
  <2> DEFINE pair == [t \in f[w].tasks |-> <<w, t>>]
  <2>1. pair \in Surjection(f[w].tasks, Of(w))
    BY DEF Surjection
  <2>2. IsFiniteSet(f[w].tasks)
    BY DEF FiniteTasks
  <2>q. QED
    BY <2>1, <2>2, FS_Surjection
<1>2. IsFiniteSet(All)
  <2> DEFINE of == [w \in Lineages |-> Of(w)]
  <2>1. of \in Surjection(Lineages, All)
    <3> HIDE DEF Of
    <3>q. QED
      BY DEF Surjection
  <2>2. IsFiniteSet(Lineages)
    BY InventoryAssumption, FS_Interval DEF Lineages
  <2> HIDE DEF of, All
  <2>q. QED
    BY <2>1, <2>2, FS_Surjection
<1>3. \A T \in All : IsFiniteSet(T)
  BY <1>1
<1>4. IsFiniteSet(UNION All)
  <2> HIDE DEF All
  <2>q. QED
    BY <1>2, <1>3, FS_UNION
<1>q. QED
  BY <1>4 DEF Entries

OneId(f) == \A d, e \in Entries(f) : d[2].id = e[2].id => d = e

\* With one entry to an id the tasks are as many as the entries, and can be sorted.
LEMMA TasksOfEntries ==
  ASSUME NEW f, FiniteTasks(f), OneId(f)
  PROVE  /\ TasksOf(f) \subseteq ManifestTasks
         /\ IsFiniteSet(TasksOf(f))
         /\ Cardinality(TasksOf(f)) = Cardinality(Entries(f))
         /\ Sortable(TasksOf(f), "offset") /\ Sortable(TasksOf(f), "seed")
<1> DEFINE second == [e \in Entries(f) |-> e[2]]
<1>1. TasksOf(f) \subseteq ManifestTasks
  BY DEF TasksOf, Entries, FiniteTasks
<1>2. second \in Surjection(Entries(f), TasksOf(f))
  BY DEF Surjection, TasksOf
<1>3. second \in Injection(Entries(f), TasksOf(f))
  BY DEF Injection, IsInjective, TasksOf, OneId
<1>4. /\ IsFiniteSet(TasksOf(f)) /\ Cardinality(TasksOf(f)) = Cardinality(Entries(f))
  <2> HIDE DEF second
  <2>q. QED
    BY <1>2, <1>3, FiniteEntries, FS_Surjection
<1>5. \A s, t \in TasksOf(f) : s.id = t.id => s = t
  BY DEF TasksOf, OneId
<1>6. \A t \in TasksOf(f) : /\ t["offset"] \in Int /\ t["seed"] \in Int
                            /\ t.id \in Int /\ t.count \in Nat \ {0}
  BY <1>1, InventoryAssumption
<1>q. QED
  BY <1>1, <1>4, <1>5, <1>6 DEF Sortable

LEMMA MeetsTiles ==
  ASSUME NEW f, FiniteTasks(f), WellFormed(f), Meets(TasksOf(f))
  PROVE  Tiles(f)
<1> DEFINE S == TasksOf(f)
           CO == Contract.offset
           CS == Contract.seed
           CG == Contract.games
<1>1. CO \in Nat /\ CS \in Nat /\ CG \in Nat \ {0} /\ Contract.tasks \in Nat \ {0}
  BY InventoryAssumption
<1>2. OneId(f)
  BY DEF WellFormed, OneId
<1>3. /\ S \subseteq ManifestTasks /\ Sortable(S, "offset")
      /\ Cardinality(S) = Cardinality(Entries(f))
  BY <1>2, TasksOfEntries
<1>4. Cardinality(S) = Contract.tasks /\ Games(S) = CG /\ Contiguous(S, "offset", CO)
  BY DEF Meets
<1>5. \A t \in S : t.seed - CS = t.offset - CO
  BY DEF Meets
<1>6. \A t \in S : t.offset \in Int /\ t.seed \in Int /\ t.count \in Int
  BY <1>3, InventoryAssumption
<1>7. S # {}
  BY <1>1, <1>4, FS_EmptySet
<1> HIDE DEF S, CO, CS, CG
<1>8. Fits(S, "offset", CO, CG)
  <2> DEFINE last == Sorted(S, "offset")[Cardinality(S)]
  <2>1. last \in S
    <3>1. Cardinality(S) \in 1..Cardinality(S)
      BY <1>1, <1>4
    <3>q. QED
      BY <1>3, <3>1, SortedIs DEF Lists
  <2>2. End(last, "offset") \in Int
    BY <1>6, <2>1 DEF End
  <2>3. Games(S) = End(last, "offset") - CO
    BY <1>1, <1>3, <1>4, <1>7, GamesOfChain
  <2>4. End(last, "offset") = CO + CG
    <3> HIDE DEF last
    <3>q. QED
      BY <1>1, <1>4, <2>2, <2>3
  <2>q. QED
    BY <1>1, <1>3, <1>4, <1>7, <2>4, ChainFits
<1>9. \A t \in S, g \in Int : Position(t, "seed", CS + g) <=> Position(t, "offset", CO + g)
  BY <1>1, <1>5, <1>6 DEF Position
<1>10. ASSUME NEW g \in 0..CG - 1
       PROVE  \E t \in S : /\ {s \in S : Position(s, "offset", CO + g)} = {t}
                           /\ {s \in S : Position(s, "seed", CS + g)} = {t}
  <2>1. PICK t \in S : Position(t, "offset", CO + g)
    BY <1>8 DEF Fits
  <2>2. CO + g \in Int /\ g \in Int
    BY <1>1
  <2>3. \A s \in S : Position(s, "offset", CO + g) => s = t
    BY <1>8, <2>1, <2>2 DEF Fits
  <2>4. {s \in S : Position(s, "offset", CO + g)} = {t}
    BY <2>1, <2>3
  <2>5. {s \in S : Position(s, "seed", CS + g)} = {t}
    BY <1>9, <2>2, <2>4
  <2>q. QED
    BY <2>4, <2>5
<1>11. \A t \in S : t.offset >= CO /\ t.offset + t.count <= CO + CG
  BY <1>8 DEF Fits, End
<1>12. \A t \in S : t.iteration = Contract.iteration
  BY DEF WellFormed, S
<1>13. Cardinality(Entries(f)) = Contract.tasks
  BY <1>3, <1>4
<1>q. QED
  BY <1>2, <1>10, <1>11, <1>12, <1>13 DEF Tiles, OneId, S, CO, CS, CG

LEMMA TilesMeets ==
  ASSUME NEW f, FiniteTasks(f), Tiles(f)
  PROVE  WellFormed(f) /\ Meets(TasksOf(f))
<1> DEFINE S == TasksOf(f)
           CO == Contract.offset
           CS == Contract.seed
           CG == Contract.games
<1>1. CO \in Nat /\ CS \in Nat /\ CG \in Nat \ {0} /\ Contract.tasks \in Nat \ {0}
  BY InventoryAssumption
<1>2. OneId(f)
  BY DEF Tiles, OneId
<1>3. /\ S \subseteq ManifestTasks /\ Sortable(S, "offset") /\ Sortable(S, "seed")
      /\ Cardinality(S) = Contract.tasks
  BY <1>2, TasksOfEntries DEF Tiles
<1>4. \A g \in 0..CG - 1 :
        \E t \in S : /\ {s \in S : Position(s, "offset", CO + g)} = {t}
                     /\ {s \in S : Position(s, "seed", CS + g)} = {t}
  BY DEF Tiles
<1>5. \A t \in S : t.offset >= CO /\ t.offset + t.count <= CO + CG
  BY DEF Tiles
<1>6. \A t \in S : t.offset \in Int /\ t.seed \in Int /\ t.count \in Nat \ {0}
  BY <1>3, InventoryAssumption
<1>7. S # {}
  BY <1>1, <1>3, FS_EmptySet
<1>8. WellFormed(f)
  BY DEF Tiles, WellFormed
<1> HIDE DEF S, CO, CS, CG
\* The task that plays a position has its seed too.
<1>9. \A g \in 0..CG - 1, t \in S : Position(t, "offset", CO + g) <=> Position(t, "seed", CS + g)
  BY <1>4
<1>10. ASSUME NEW t \in S PROVE t.seed - CS = t.offset - CO
  <2>1. /\ t.offset - CO \in 0..CG - 1
        /\ t.offset + t.count - 1 - CO \in 0..CG - 1
    BY <1>1, <1>5, <1>6
  <2>2. /\ Position(t, "offset", CO + (t.offset - CO))
        /\ Position(t, "offset", CO + (t.offset + t.count - 1 - CO))
    BY <1>1, <1>6 DEF Position
  <2>3. /\ Position(t, "seed", CS + (t.offset - CO))
        /\ Position(t, "seed", CS + (t.offset + t.count - 1 - CO))
    BY <1>9, <2>1, <2>2
  <2>q. QED
    BY <1>1, <1>6, <2>3 DEF Position
<1>11. Fits(S, "offset", CO, CG)
  <2>1. \A t \in S : t["offset"] >= CO /\ End(t, "offset") <= CO + CG
    BY <1>5 DEF End
  <2>2. \A g \in 0..CG - 1 : \E t \in S : Position(t, "offset", CO + g)
    BY <1>4
  <2>3. ASSUME NEW s \in S, NEW t \in S, NEW g \in Int,
               Position(s, "offset", g), Position(t, "offset", g)
        PROVE  s = t
    <3>1. g - CO \in 0..CG - 1 /\ CO + (g - CO) = g
      BY <1>1, <1>5, <1>6, <2>3 DEF Position
    <3>2. PICK u \in S : {r \in S : Position(r, "offset", CO + (g - CO))} = {u}
      BY <1>4, <3>1
    <3>3. Position(s, "offset", CO + (g - CO)) /\ Position(t, "offset", CO + (g - CO))
      BY <2>3, <3>1
    <3>q. QED
      BY <3>2, <3>3
  <2>q. QED
    BY <2>1, <2>2, <2>3 DEF Fits
<1>12. \A t \in S, g \in Int : Position(t, "seed", g) <=> Position(t, "offset", g - CS + CO)
  BY <1>1, <1>6, <1>10 DEF Position
<1>13. Fits(S, "seed", CS, CG)
  <2>1. \A t \in S : t["seed"] >= CS /\ End(t, "seed") <= CS + CG
    BY <1>1, <1>5, <1>6, <1>10 DEF End
  <2>2. \A g \in 0..CG - 1 : \E t \in S : Position(t, "seed", CS + g)
    BY <1>4
  <2>3. ASSUME NEW s \in S, NEW t \in S, NEW g \in Int,
               Position(s, "seed", g), Position(t, "seed", g)
        PROVE  s = t
    <3>1. g - CS + CO \in Int
      BY <1>1
    <3>q. QED
      BY <1>11, <1>12, <2>3, <3>1 DEF Fits
  <2>q. QED
    BY <2>1, <2>2, <2>3 DEF Fits
<1>14. /\ Contiguous(S, "offset", CO) /\ Contiguous(S, "seed", CS)
       /\ End(Sorted(S, "offset")[Cardinality(S)], "offset") = CO + CG
  BY <1>1, <1>3, <1>7, <1>11, <1>13, FitsChain
<1>15. Games(S) = CG
  <2>1. Games(S) = CO + CG - CO
    BY <1>1, <1>3, <1>7, <1>14, GamesOfChain
  <2>q. QED
    BY <1>1, <2>1
<1>q. QED
  BY <1>3, <1>8, <1>10, <1>14, <1>15 DEF Meets, S, CO, CS, CG

--------------------------------------------------------------------------------
(* Every manifest is finite, and a second pass only confirms a first one   *)
(* whose ids are unique; so a verdict is about what the first pass read.   *)

FinitePart == FiniteTasks(disk) /\ FiniteTasks(read)
Screened == pass = 2 /\ pc \in {"list", "read"} => WellFormed(read)
VInv == IInv /\ FinitePart /\ Screened /\ VerdictIsExact

LEMMA InitVerdict == Init => VInv
<1> SUFFICES ASSUME Init PROVE VInv
  OBVIOUS
<1>1. FiniteTasks(Nothing)
  BY FS_EmptySet DEF FiniteTasks, Nothing, NoShard
<1>q. QED
  BY <1>1, InitInv DEF Init, VInv, FinitePart, Screened, VerdictIsExact

LEMMA AgainVerdict ==
  ASSUME VInv, Again, disk' = disk
  PROVE  (FinitePart /\ Screened /\ VerdictIsExact)'
<1>1. FiniteTasks(Nothing)
  BY FS_EmptySet DEF FiniteTasks, Nothing, NoShard
<1>q. QED
  BY <1>1 DEF Again, VInv, FinitePart, Screened, VerdictIsExact

LEMMA PublishVerdict ==
  ASSUME VInv, NEW w \in Lineages, NEW t \in ManifestTasks, Publish(w, t)
  PROVE  (FinitePart /\ Screened /\ VerdictIsExact)'
<1>1. PICK kept \in {disk[w].tasks, {}} :
        disk' = [disk EXCEPT ![w] = [version |-> @.version + 1, tasks |-> kept \cup {t}]]
  BY DEF Publish
<1>2. kept \subseteq ManifestTasks /\ IsFiniteSet(kept)
  BY <1>1, FS_EmptySet DEF VInv, FinitePart, FiniteTasks
<1>3. kept \cup {t} \subseteq ManifestTasks /\ IsFiniteSet(kept \cup {t})
  BY <1>2, FS_AddElement
<1>4. disk \in [Lineages -> Shard]
  BY DEF VInv, IInv, Typed
<1>5. ASSUME NEW v \in Lineages
      PROVE  disk'[v].tasks \subseteq ManifestTasks /\ IsFiniteSet(disk'[v].tasks)
  <2>1. CASE v = w
    <3>1. disk'[v].tasks = kept \cup {t}
      BY <1>1, <1>4, <2>1
    <3>q. QED
      BY <1>3, <3>1
  <2>2. CASE v # w
    <3>1. disk'[v] = disk[v]
      BY <1>1, <1>4, <2>2
    <3>q. QED
      BY <3>1 DEF VInv, FinitePart, FiniteTasks
  <2>q. QED
    BY <2>1, <2>2
<1>6. FiniteTasks(disk')
  BY <1>5 DEF FiniteTasks
<1>7. UNCHANGED <<pc, pass, read>>
  BY DEF Publish
<1>q. QED
  BY <1>6, <1>7 DEF VInv, FinitePart, Screened, VerdictIsExact

\* An inventory with two tasks of one id, or of another iteration, tiles nothing.
LEMMA SelectVerdict ==
  ASSUME VInv, Select
  PROVE  (FinitePart /\ Screened /\ VerdictIsExact)'
<1>1. at \in Lineages /\ read \in [Lineages -> Shard]
  BY DEF VInv, IInv, Typed
<1>2. /\ Seen.tasks \subseteq ManifestTasks /\ IsFiniteSet(Seen.tasks)
  BY <1>1, FS_EmptySet DEF Seen, NoShard, VInv, FinitePart, FiniteTasks
<1>3. FiniteTasks(read')
  <2>1. \A w \in Lineages : read'[w] = IF w = at THEN Seen ELSE read[w]
    BY <1>1 DEF Select
  <2>q. QED
    BY <1>2, <2>1 DEF VInv, FinitePart, FiniteTasks
<1>4. FinitePart'
  BY <1>3 DEF Select, VInv, FinitePart
<1>5. CASE at < Workers
  BY <1>4, <1>5 DEF Select, Screened, VerdictIsExact
<1>6. CASE ~(at < Workers)
  <2>1. pass' = 2 /\ pc' = IF WellFormed(read') THEN "list" ELSE "rejected"
    BY <1>6 DEF Select
  <2>2. Tiles(read') => WellFormed(read')
    BY <1>3, TilesMeets
  <2>q. QED
    BY <1>4, <2>1, <2>2 DEF Screened, VerdictIsExact
<1>q. QED
  BY <1>5, <1>6

LEMMA RecheckVerdict ==
  ASSUME VInv, Recheck
  PROVE  (FinitePart /\ Screened /\ VerdictIsExact)'
<1>1. CASE ~Same /\ Again
  BY <1>1, AgainVerdict DEF Recheck
<1>2. CASE Same /\ at < Workers /\ at' = at + 1 /\ UNCHANGED <<pc, pass, listed, read, attempt>>
  BY <1>2 DEF Recheck, VInv, FinitePart, Screened, VerdictIsExact
<1>3. CASE /\ Same /\ at = Workers
           /\ pc' = IF Meets(TasksOf(read)) THEN "accepted" ELSE "rejected"
           /\ UNCHANGED <<pass, listed, at, read, attempt>>
  <2>1. FiniteTasks(read) /\ WellFormed(read)
    BY DEF Recheck, VInv, FinitePart, Screened
  <2>2. Meets(TasksOf(read)) <=> Tiles(read)
    BY <2>1, MeetsTiles, TilesMeets
  <2>q. QED
    BY <1>3, <2>2 DEF Recheck, VInv, FinitePart, Screened, VerdictIsExact
<1>q. QED
  BY <1>1, <1>2, <1>3 DEF Recheck

LEMMA NextVerdict == VInv /\ [Next]_vars => VInv'
<1> SUFFICES ASSUME VInv, [Next]_vars PROVE VInv'
  OBVIOUS
<1>0. IInv'
  BY NextInv DEF VInv
<1>1. CASE UNCHANGED vars
  BY <1>0, <1>1 DEF vars, VInv, FinitePart, Screened, VerdictIsExact
<1>2. ASSUME NEW w \in Lineages, NEW t \in ManifestTasks, Publish(w, t) PROVE VInv'
  BY <1>0, <1>2, PublishVerdict DEF VInv
<1>3. CASE List
  BY <1>0, <1>3 DEF List, VInv, FinitePart, Screened, VerdictIsExact
<1>4. CASE Select
  BY <1>0, <1>4, SelectVerdict DEF VInv
<1>5. CASE Vanish
  BY <1>0, <1>5, AgainVerdict DEF Vanish, VInv
<1>6. CASE Recheck
  BY <1>0, <1>6, RecheckVerdict DEF VInv
<1>q. QED
  BY <1>1, <1>2, <1>3, <1>4, <1>5, <1>6 DEF Next

(* Whatever producers publish meanwhile, the trainer accepts an inventory  *)
(* only if its tasks play every game position of the contract once, with   *)
(* the seed of that position and nothing outside, and rejects one only if  *)
(* they do not (fleet_worker.py:3078-3115, 3233-3283).                     *)
THEOREM VerdictIsExactHolds == Spec => []VerdictIsExact
<1>1. VInv => VerdictIsExact
  BY DEF VInv
<1>q. QED
  BY InitVerdict, NextVerdict, <1>1, PTL DEF Spec
================================================================================
