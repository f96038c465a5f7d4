---------------------------- MODULE SearchPoolProofs ----------------------------
(***************************************************************************)
(* Proofs about SearchPool, for any number of workers, any states, faint   *)
(* counts, batch size and loads, and any number of faults.                 *)
(***************************************************************************)
EXTENDS SearchPool, TLAPS, SequenceTheorems, WellFoundedInduction

--------------------------------------------------------------------------------
(* The sum of a count over the workers.                                    *)

LEMMA LeastNumber ==
  ASSUME NEW S \in SUBSET Nat, S # {}
  PROVE  \E m \in S : \A n \in S : m <= n
<1>1. PICK m \in S : \A n \in S : <<n, m>> \notin OpToRel(<, Nat)
  BY NatLessThanWellFounded, WFMin
<1>2. \A n \in S : ~(n < m)
  BY <1>1 DEF OpToRel
<1>q. QED
  BY <1>2

(* What holds of 0, and of a number's successor, holds up to N.            *)
LEMMA UpToN ==
  ASSUME NEW S, 0 \in S, \A i \in 0 .. N : i < N /\ i \in S => i + 1 \in S
  PROVE  \A i \in 0 .. N : i \in S
<1> DEFINE Out == {i \in 0 .. N : i \notin S}
<1> SUFFICES ASSUME Out # {} PROVE FALSE
  OBVIOUS
<1>0. N \in Nat
  BY PoolAssumption
<1>1. Out \in SUBSET Nat
  BY <1>0
<1>2. PICK m \in Out : \A n \in Out : m <= n
  <2> HIDE DEF Out
  <2>q. QED
    BY <1>1, LeastNumber
<1>3. m \in Nat /\ m # 0 /\ m <= N /\ m \notin S
  BY <1>0, <1>2
<1>4. m - 1 \in 0 .. N /\ m - 1 < N /\ ~(m <= m - 1)
  BY <1>0, <1>3
<1>5. m - 1 \in S
  BY <1>2, <1>4
<1>6. (m - 1) + 1 \in S
  BY <1>4, <1>5
<1>q. QED
  BY <1>3, <1>6

Counts == [Workers -> Nat]

(* The partial sums exist, and Total is the last of them.                  *)
Steps(f, n) == [i \in 0 .. N |-> IF i = 0 THEN 0 ELSE n[i - 1] + f[i]]

LEMMA PartialSums ==
  ASSUME NEW f \in Counts
  PROVE  \E g \in [0 .. N -> Nat] : g = Steps(f, g)
<1>0. N \in Nat
  BY PoolAssumption
<1> DEFINE Has(i) == \E g \in [0 .. N -> Nat] :
                       \A j \in 0 .. N : j <= i => g[j] = IF j = 0 THEN 0 ELSE g[j - 1] + f[j]
           S == {i \in 0 .. N : Has(i)}
<1>1. 0 \in S
  <2> DEFINE g == [j \in 0 .. N |-> 0]
  <2>1. g \in [0 .. N -> Nat]
    OBVIOUS
  <2>2. \A j \in 0 .. N : j <= 0 => g[j] = IF j = 0 THEN 0 ELSE g[j - 1] + f[j]
    BY <1>0
  <2>3. Has(0)
    BY <2>1, <2>2
  <2>q. QED
    BY <1>0, <2>3
<1>2. ASSUME NEW i \in 0 .. N, i < N, i \in S PROVE i + 1 \in S
  <2>1. PICK g \in [0 .. N -> Nat] :
               \A j \in 0 .. N : j <= i => g[j] = IF j = 0 THEN 0 ELSE g[j - 1] + f[j]
    BY <1>2
  <2>2. i + 1 \in 1 .. N /\ i + 1 \in 0 .. N
    BY <1>0, <1>2
  <2>3. f[i + 1] \in Nat /\ g[i] \in Nat
    BY <2>2 DEF Counts, Workers
  <2> DEFINE h == [j \in 0 .. N |-> IF j = i + 1 THEN g[i] + f[i + 1] ELSE g[j]]
  <2>4. h \in [0 .. N -> Nat]
    BY <2>3
  <2>5. ASSUME NEW j \in 0 .. N, j <= i + 1
        PROVE  h[j] = IF j = 0 THEN 0 ELSE h[j - 1] + f[j]
    <3>1. CASE j = i + 1
      <4>1. j # 0 /\ j - 1 = i /\ i # i + 1
        BY <3>1, <1>0, <1>2
      <4>2. h[j] = g[i] + f[i + 1] /\ h[i] = g[i]
        BY <3>1, <4>1
      <4>q. QED
        BY <3>1, <4>1, <4>2
    <3>2. CASE j # i + 1
      <4>1. j <= i /\ h[j] = g[j]
        BY <3>2, <2>5, <1>0
      <4>2. j # 0 => j - 1 \in 0 .. N /\ j - 1 # i + 1
        BY <4>1, <1>0
      <4>3. j # 0 => h[j - 1] = g[j - 1]
        BY <4>2
      <4>q. QED
        BY <4>1, <4>3, <2>1
    <3>q. QED
      BY <3>1, <3>2
  <2>6. Has(i + 1)
    BY <2>4, <2>5
  <2>q. QED
    BY <2>2, <2>6
<1>3. N \in S
  <2> HIDE DEF S
  <2>1. \A i \in 0 .. N : i \in S
    BY <1>1, <1>2, UpToN
  <2>q. QED
    BY <1>0, <2>1
<1>4. PICK g \in [0 .. N -> Nat] :
             \A j \in 0 .. N : j <= N => g[j] = IF j = 0 THEN 0 ELSE g[j - 1] + f[j]
  BY <1>3
<1>5. \A j \in 0 .. N : g[j] = Steps(f, g)[j]
  BY <1>0, <1>4 DEF Steps
<1>6. g = Steps(f, g)
  BY <1>5 DEF Steps
<1>q. QED
  BY <1>6

LEMMA TotalOf ==
  ASSUME NEW f \in Counts
  PROVE  \E g \in [0 .. N -> Nat] :
           /\ g[0] = 0
           /\ \A i \in 1 .. N : g[i] = g[i - 1] + f[i]
           /\ Total(f) = g[N]
<1>0. N \in Nat \ {0}
  BY PoolAssumption
<1> DEFINE u == CHOOSE n : n = Steps(f, n)
<1>1. PICK p \in [0 .. N -> Nat] : p = Steps(f, p)
  BY PartialSums
<1>2. u = Steps(f, u)
  BY <1>1
<1>3. Total(f) = u[N]
  BY DEF Total, Steps
<1> HIDE DEF u
<1>4. u[0] = 0 /\ \A i \in 1 .. N : u[i] = u[i - 1] + f[i]
  <2>1. \A i \in 0 .. N : u[i] = IF i = 0 THEN 0 ELSE u[i - 1] + f[i]
    BY <1>2 DEF Steps
  <2>q. QED
    BY <2>1, <1>0
<1>5. \A i \in 0 .. N : u[i] \in Nat
  <2> DEFINE S == {i \in 0 .. N : u[i] \in Nat}
  <2>1. 0 \in S
    BY <1>0, <1>4
  <2>2. ASSUME NEW i \in 0 .. N, i < N, i \in S PROVE i + 1 \in S
    <3>1. i + 1 \in 1 .. N /\ (i + 1) - 1 = i
      BY <1>0, <2>2
    <3>2. f[i + 1] \in Nat /\ u[i] \in Nat
      BY <3>1, <2>2 DEF Counts, Workers
    <3>3. u[i + 1] = u[i] + f[i + 1]
      BY <3>1, <1>4
    <3>q. QED
      BY <3>1, <3>2, <3>3
  <2>3. \A i \in 0 .. N : i \in S
    <3> HIDE DEF S
    <3>q. QED
      BY <2>1, <2>2, UpToN
  <2>q. QED
    BY <2>3
<1>6. u \in [0 .. N -> Nat]
  <2>1. u = [i \in 0 .. N |-> u[i]]
    BY <1>2 DEF Steps
  <2>q. QED
    BY <2>1, <1>5
<1>q. QED
  BY <1>3, <1>4, <1>6

LEMMA TotalType == ASSUME NEW f \in Counts PROVE Total(f) \in Nat
<1>1. N \in 0 .. N
  BY PoolAssumption
<1>q. QED
  BY <1>1, TotalOf

LEMMA TotalMonotone ==
  ASSUME NEW f \in Counts, NEW h \in Counts, \A w \in Workers : f[w] <= h[w]
  PROVE  Total(f) <= Total(h)
<1>0. N \in Nat
  BY PoolAssumption
<1>1. PICK g \in [0 .. N -> Nat] : /\ g[0] = 0 /\ Total(f) = g[N]
                                   /\ \A i \in 1 .. N : g[i] = g[i - 1] + f[i]
  BY TotalOf
<1>2. PICK k \in [0 .. N -> Nat] : /\ k[0] = 0 /\ Total(h) = k[N]
                                   /\ \A i \in 1 .. N : k[i] = k[i - 1] + h[i]
  BY TotalOf
<1> DEFINE S == {i \in 0 .. N : g[i] <= k[i]}
<1>3. 0 \in S
  BY <1>0, <1>1, <1>2
<1>4. ASSUME NEW i \in 0 .. N, i < N, i \in S PROVE i + 1 \in S
  <2>1. i + 1 \in 1 .. N /\ (i + 1) - 1 = i
    BY <1>0, <1>4
  <2>2. f[i + 1] \in Nat /\ h[i + 1] \in Nat /\ f[i + 1] <= h[i + 1]
    BY <2>1 DEF Counts, Workers
  <2>3. g[i + 1] = g[i] + f[i + 1] /\ k[i + 1] = k[i] + h[i + 1]
    BY <2>1, <1>1, <1>2
  <2>q. QED
    BY <2>1, <2>2, <2>3, <1>4
<1>5. \A i \in 0 .. N : i \in S
  <2> HIDE DEF S
  <2>q. QED
    BY <1>3, <1>4, UpToN
<1>6. N \in 0 .. N
  BY <1>0
<1>q. QED
  BY <1>1, <1>2, <1>5, <1>6

LEMMA TotalSame ==
  ASSUME NEW f \in Counts, NEW h \in Counts, \A w \in Workers : f[w] = h[w]
  PROVE  Total(f) = Total(h)
<1>1. f = h
  BY DEF Counts
<1>q. QED
  BY <1>1

(* One worker's count grows by k: so does the sum.                         *)
LEMMA TotalGrows ==
  ASSUME NEW f \in Counts, NEW h \in Counts, NEW w \in Workers, NEW k \in Nat,
         h[w] = f[w] + k, \A v \in Workers \ {w} : h[v] = f[v]
  PROVE  Total(h) = Total(f) + k
<1>0. N \in Nat /\ w \in 1 .. N
  BY PoolAssumption DEF Workers
<1>1. PICK g \in [0 .. N -> Nat] : /\ g[0] = 0 /\ Total(f) = g[N]
                                   /\ \A i \in 1 .. N : g[i] = g[i - 1] + f[i]
  BY TotalOf
<1>2. PICK m \in [0 .. N -> Nat] : /\ m[0] = 0 /\ Total(h) = m[N]
                                   /\ \A i \in 1 .. N : m[i] = m[i - 1] + h[i]
  BY TotalOf
<1> DEFINE S == {i \in 0 .. N : m[i] = g[i] + (IF i < w THEN 0 ELSE k)}
<1>3. 0 \in S
  BY <1>0, <1>1, <1>2
<1>4. ASSUME NEW i \in 0 .. N, i < N, i \in S PROVE i + 1 \in S
  <2>1. i + 1 \in 1 .. N /\ (i + 1) - 1 = i
    BY <1>0, <1>4
  <2>2. f[i + 1] \in Nat /\ h[i + 1] = f[i + 1] + (IF i + 1 = w THEN k ELSE 0)
    BY <2>1 DEF Counts, Workers
  <2>3. g[i + 1] = g[i] + f[i + 1] /\ m[i + 1] = m[i] + h[i + 1]
    BY <2>1, <1>1, <1>2
  <2>4. g[i] \in Nat /\ m[i] = g[i] + (IF i < w THEN 0 ELSE k)
    BY <1>1, <1>4
  <2>5. m[i + 1] = g[i + 1] + (IF i + 1 < w THEN 0 ELSE k)
    <3>1. CASE i + 1 = w
      <4>1. i < w /\ ~(i + 1 < w)
        BY <3>1, <1>0
      <4>q. QED
        BY <3>1, <4>1, <2>2, <2>3, <2>4
    <3>2. CASE i + 1 # w
      <4>1. (i < w) <=> (i + 1 < w)
        BY <3>2, <1>0, <1>4
      <4>q. QED
        BY <3>2, <4>1, <2>2, <2>3, <2>4
    <3>q. QED
      BY <3>1, <3>2
  <2>q. QED
    BY <2>1, <2>5
<1>5. \A i \in 0 .. N : i \in S
  <2> HIDE DEF S
  <2>q. QED
    BY <1>3, <1>4, UpToN
<1>6. N \in 0 .. N /\ ~(N < w)
  BY <1>0
<1>q. QED
  BY <1>1, <1>2, <1>5, <1>6

LEMMA TotalPart ==
  ASSUME NEW f \in Counts, NEW w \in Workers
  PROVE  f[w] <= Total(f)
<1> DEFINE h == [v \in Workers |-> IF v = w THEN 0 ELSE f[v]]
<1>1. h \in Counts /\ f[w] \in Nat
  BY DEF Counts
<1>2. f[w] = h[w] + f[w] /\ \A v \in Workers \ {w} : f[v] = h[v]
  BY <1>1
<1>3. Total(f) = Total(h) + f[w]
  <2> HIDE DEF h
  <2>q. QED
    BY <1>1, <1>2, TotalGrows
<1>q. QED
  <2> HIDE DEF h
  <2>q. QED
    BY <1>1, <1>3, TotalType

--------------------------------------------------------------------------------
(* What the variables and the messages range over.                         *)

Snaps == [battle : Battles, version : Nat, floor : Nat, rows : Rows, acked : [Workers -> Nat]]
Masters == [floor : Nat, version : Nat, rows : [Workers -> Rows], seq : [Workers -> Nat]]
Pcs == {"born", "isolated", "idle", "batch", "exchange", "finally", "cleanup"}
Records == [pc : Pcs, dec : Nat, battle : Battles, root : Roots \cup {None}, seq : Nat,
            limit : Nat, own : Rows, sent : Exports \cup {None}, view : Rows,
            last : Snaps \cup {None}, floor : Nat]

Plain(kinds) == [kind : kinds]
Updates == [kind : {"update"}, dec : Nat, update : Exports,
            batch : [trajectories : Nat, exhausted : BOOLEAN]]
Errors == [kind : {"error"}, cause : {"startup", "statistics", "drift", "runtime"}]
Dones == [kind : {"done"}, dec : Nat]
Readies == [kind : {"cleanup_ready"}, clean : BOOLEAN]
Ups == Plain({"isolation", "boot"}) \cup Updates \cup Errors \cup Dones \cup Readies

Starts == [kind : {"start"}, dec : Nat, root : Roots, snap : Snaps, limit : Nat]
Acks == [kind : {"ack"}, dec : Nat, snap : Snaps, limit : Nat]
Downs == Plain({"isolation_ack", "close", "cleanup_ack"}) \cup Starts \cup Acks

OwnerTypes ==
  /\ load \in Loads /\ pending \in SUBSET Workers
  /\ decision \in Nat /\ battle \in Battles /\ root \in Roots \cup {None}
  /\ left \in [Workers -> Nat] /\ completed \in Nat /\ before \in Nat
  /\ master \in Masters /\ owned \in SUBSET Workers
  /\ replies \in SUBSET [from : Workers, clean : BOOLEAN] /\ dirty \in BOOLEAN

WorkerTypes ==
  /\ worker \in [Workers -> Records]
  /\ up \in [Workers -> Seq(Ups)] /\ down \in [Workers -> Seq(Downs)]
  /\ proc \in [Workers -> {"unborn", "live", "exited", "killed", "reaped"}]
  /\ kids \in SUBSET Workers /\ done \in [Workers -> Rows]

Types == OwnerTypes /\ WorkerTypes

LEMMA UpKinds ==
  ASSUME NEW m \in Ups
  PROVE  /\ m.kind = "update" => m \in Updates
         /\ m.kind = "error" => m \in Errors
         /\ m.kind = "done" => m \in Dones
         /\ m.kind = "cleanup_ready" => m \in Readies
         /\ m.kind \in {"isolation", "boot", "update", "error", "done", "cleanup_ready"}
BY DEF Ups, Plain, Updates, Errors, Dones, Readies

LEMMA DownKinds ==
  ASSUME NEW m \in Downs
  PROVE  /\ m.kind = "start" => m \in Starts
         /\ m.kind = "ack" => m \in Acks
         /\ m.kind \in {"isolation_ack", "close", "cleanup_ack", "start", "ack"}
BY DEF Downs, Plain, Starts, Acks

LEMMA Plains ==
  /\ \A k \in {"isolation", "boot"} : Message(k) \in Ups /\ Message(k).kind = k
  /\ \A k \in {"isolation_ack", "close", "cleanup_ack"} :
       Message(k) \in Downs /\ Message(k).kind = k
BY DEF Message, Ups, Downs, Plain

LEMMA PruneType ==
  ASSUME NEW rows \in Rows, NEW floor \in Nat
  PROVE  Prune(rows, floor) \in Rows
BY DEF Prune, Rows

LEMMA NoRowsType == NoRows \in Rows
BY DEF NoRows, Rows

LEMMA ColumnType ==
  ASSUME NEW r \in [Workers -> Rows], NEW s \in States
  PROVE  [w \in Workers |-> r[w][s]] \in Counts
BY DEF Counts, Rows

LEMMA SumType ==
  ASSUME NEW m \in Masters
  PROVE  Sum(m) \in Rows
<1>1. \A s \in States : Total([w \in Workers |-> m.rows[w][s]]) \in Nat
  BY ColumnType, TotalType DEF Masters
<1>q. QED
  BY <1>1 DEF Sum, Rows

LEMMA SnapshotType ==
  ASSUME NEW m \in Masters, battle \in Battles
  PROVE  Snapshot(m) \in Snaps
BY SumType DEF Snapshot, Snaps, Masters

LEMMA FreshType == Fresh \in Masters
BY NoRowsType DEF Fresh, Masters

LEMMA NewbornType == Newborn \in Records
BY NoRowsType DEF Newborn, Records, Pcs, Battles

LEMMA AdvanceType ==
  ASSUME NEW m \in Masters, NEW floor \in Nat
  PROVE  Advance(m, floor) \in Masters /\ Advance(m, floor).floor = floor
<1>1. CASE floor = m.floor
  BY <1>1 DEF Advance
<1>2. CASE floor # m.floor
  <2>1. [w \in Workers |-> Prune(m.rows[w], floor)] \in [Workers -> Rows]
    BY PruneType DEF Masters
  <2>2. Advance(m, floor) =
          [floor |-> floor, version |-> m.version + 1,
           rows |-> [w \in Workers |-> Prune(m.rows[w], floor)], seq |-> m.seq]
    BY <1>2 DEF Advance, Masters
  <2>q. QED
    BY <2>1, <2>2 DEF Masters
<1>q. QED
  BY <1>1, <1>2

LEMMA AcceptType ==
  ASSUME NEW m \in Masters, NEW w \in Workers, NEW u \in Exports
  PROVE  Accept(m, w, u) \in Masters
<1>1. CASE u.seq > m.seq[w]
  <2>1. Prune(u.rows, m.floor) \in Rows /\ u.seq \in Nat
    BY PruneType DEF Masters, Exports
  <2>2. Accept(m, w, u) = [floor |-> m.floor, version |-> m.version + 1,
                           rows |-> [m.rows EXCEPT ![w] = Prune(u.rows, m.floor)],
                           seq |-> [m.seq EXCEPT ![w] = u.seq]]
    BY <1>1 DEF Accept, Latest, Masters
  <2>q. QED
    BY <2>1, <2>2 DEF Masters
<1>2. CASE ~(u.seq > m.seq[w])
  BY <1>2 DEF Accept
<1>q. QED
  BY <1>1, <1>2

LEMMA BindType ==
  ASSUME NEW x \in Records, NEW snap \in Snaps
  PROVE  Bind(x, snap) \in Records /\ Bind(x, snap).pc = x.pc
BY NewbornType DEF Bind, Records, Snaps

LEMMA MergeType ==
  ASSUME NEW x \in Records, NEW snap \in Snaps
  PROVE  Merge(x, snap) \in Records
BY PruneType DEF Merge, Records, Snaps

LEMMA LeastOfTwo ==
  ASSUME NEW a \in Nat, NEW b \in Nat
  PROVE  Min({a, b}) \in Nat
<1>1. \E x \in {a, b} : \A y \in {a, b} : x <= y
  OBVIOUS
<1>q. QED
  BY <1>1 DEF Min

(* One worker changes its place in the code, sends, is told, or takes.     *)
LEMMA StayType ==
  ASSUME worker \in [Workers -> Records], NEW w \in Workers, NEW l \in Pcs, Stay(w, l)
  PROVE  /\ worker' \in [Workers -> Records]
         /\ worker'[w] = [worker[w] EXCEPT !.pc = l] /\ worker'[w].pc = l
         /\ \A v \in Workers \ {w} : worker'[v] = worker[v]
<1>1. [worker[w] EXCEPT !.pc = l] \in Records /\ [worker[w] EXCEPT !.pc = l].pc = l
  BY DEF Records
<1>2. worker' = [worker EXCEPT ![w] = [worker[w] EXCEPT !.pc = l]]
  BY DEF Stay
<1>q. QED
  BY <1>1, <1>2

LEMMA SendType ==
  ASSUME up \in [Workers -> Seq(Ups)], NEW w \in Workers, NEW m \in Ups, Send(w, m)
  PROVE  /\ up' \in [Workers -> Seq(Ups)] /\ up'[w] = Append(up[w], m)
         /\ \A v \in Workers \ {w} : up'[v] = up[v]
BY DEF Send

LEMMA TellType ==
  ASSUME down \in [Workers -> Seq(Downs)], NEW w \in Workers, NEW m \in Downs, Tell(w, m)
  PROVE  /\ down' \in [Workers -> Seq(Downs)] /\ down'[w] = Append(down[w], m)
         /\ \A v \in Workers \ {w} : down'[v] = down[v]
BY DEF Tell

LEMMA TakeUp ==
  ASSUME up \in [Workers -> Seq(Ups)], NEW w \in Workers, up[w] # <<>>,
         up' = [up EXCEPT ![w] = Tail(@)]
  PROVE  /\ up' \in [Workers -> Seq(Ups)] /\ up'[w] = Tail(up[w])
         /\ \A v \in Workers \ {w} : up'[v] = up[v]
         /\ Head(up[w]) \in Ups
<1>1. up[w] \in Seq(Ups)
  OBVIOUS
<1>2. Tail(up[w]) \in Seq(Ups) /\ Head(up[w]) \in Ups
  BY <1>1
<1>q. QED
  BY <1>2

LEMMA TakeDown ==
  ASSUME down \in [Workers -> Seq(Downs)], NEW w \in Workers, down[w] # <<>>,
         down' = [down EXCEPT ![w] = Tail(@)]
  PROVE  /\ down' \in [Workers -> Seq(Downs)] /\ down'[w] = Tail(down[w])
         /\ \A v \in Workers \ {w} : down'[v] = down[v]
         /\ Head(down[w]) \in Downs
<1>1. down[w] \in Seq(Downs)
  OBVIOUS
<1>2. Tail(down[w]) \in Seq(Downs) /\ Head(down[w]) \in Downs
  BY <1>1
<1>q. QED
  BY <1>2

LEMMA RefuseType ==
  ASSUME WorkerTypes, NEW w \in Workers,
         NEW cause \in {"startup", "statistics", "drift", "runtime"}, Refuse(w, cause)
  PROVE  /\ worker' \in [Workers -> Records]
         /\ worker'[w] = [worker[w] EXCEPT !.pc = "finally"] /\ worker'[w].pc = "finally"
         /\ \A v \in Workers \ {w} : worker'[v] = worker[v]
         /\ up' \in [Workers -> Seq(Ups)]
         /\ up'[w] = Append(up[w], [kind |-> "error", cause |-> cause])
         /\ \A v \in Workers \ {w} : up'[v] = up[v]
<1>1. [kind |-> "error", cause |-> cause] \in Ups
  BY DEF Ups, Errors
<1>2. Stay(w, "finally") /\ Send(w, [kind |-> "error", cause |-> cause])
  BY DEF Refuse
<1>q. QED
  BY <1>1, <1>2, StayType, SendType DEF WorkerTypes, Pcs

LEMMA LimitType ==
  ASSUME NEW w \in Workers, left \in [Workers -> Nat],
         NEW batch \in [trajectories : Nat, exhausted : BOOLEAN]
  PROVE  Limit(w, batch) \in Nat
<1>1. CASE left[w] <= batch.trajectories
  BY <1>1 DEF Limit
<1>2. CASE ~(left[w] <= batch.trajectories)
  <2>1. left[w] - batch.trajectories \in Nat /\ BatchSize \in Nat
    BY <1>2, PoolAssumption
  <2>2. Min({BatchSize, left[w] - batch.trajectories}) \in Nat
    BY <2>1, LeastOfTwo
  <2>q. QED
    BY <2>2 DEF Limit
<1>q. QED
  BY <1>1, <1>2

LEMMA VisitsType ==
  ASSUME NEW w \in Workers, NEW k \in Nat, NEW inc \in Visits(w, k)
  PROVE  inc \in Rows
BY DEF Visits, Rows

LEMMA PlusType ==
  ASSUME NEW a \in Rows, NEW b \in Rows
  PROVE  Plus(a, b) \in Rows
BY DEF Plus, Rows

LEMMA SearchedRecord ==
  ASSUME NEW x \in Records, NEW e \in Exports, NEW own \in Rows, NEW view \in Rows
  PROVE  [x EXCEPT !.pc = "exchange", !.seq = @ + 1, !.own = own, !.view = view,
                   !.sent = e] \in Records
<1>1. x.seq + 1 \in Nat /\ "exchange" \in Pcs
  BY DEF Records, Pcs
<1>q. QED
  BY <1>1 DEF Records

Export(w, inc) == [battle |-> worker[w].battle, seq |-> worker[w].seq + 1,
                   rows |-> Plus(worker[w].own, inc)]
Sent(w, k, inc) == [kind |-> "update", dec |-> worker[w].dec, update |-> Export(w, inc),
                    batch |-> [trajectories |-> k, exhausted |-> k < worker[w].limit]]
Searched(w, inc) == [worker[w] EXCEPT !.pc = "exchange", !.seq = @ + 1, !.own = Plus(@, inc),
                                      !.view = Plus(@, inc), !.sent = Export(w, inc)]

LEMMA BatchDoes ==
  ASSUME Types, NEW w \in Workers, Batch(w)
  PROVE  \E k \in Nat : \E inc \in Rows :
           /\ k <= worker[w].limit /\ inc \in Visits(w, k)
           /\ Export(w, inc) \in Exports /\ Sent(w, k, inc) \in Updates
           /\ Searched(w, inc) \in Records
           /\ worker' = [worker EXCEPT ![w] = Searched(w, inc)]
           /\ Send(w, Sent(w, k, inc))
           /\ done' = [done EXCEPT ![w] = Plus(@, inc)]
<1>1. worker[w] \in Records /\ worker[w].limit \in Nat /\ worker[w].dec \in Nat
      /\ worker[w].seq \in Nat /\ worker[w].battle \in Battles
      /\ worker[w].own \in Rows /\ worker[w].view \in Rows
  BY DEF Types, WorkerTypes, Records
<1>2. PICK k \in 0 .. worker[w].limit : \E inc \in Visits(w, k) :
        /\ worker' = [worker EXCEPT ![w] = Searched(w, inc)]
        /\ Send(w, Sent(w, k, inc))
        /\ done' = [done EXCEPT ![w] = Plus(@, inc)]
  BY DEF Batch, Searched, Sent, Export
<1>i. PICK inc \in Visits(w, k) :
        /\ worker' = [worker EXCEPT ![w] = Searched(w, inc)]
        /\ Send(w, Sent(w, k, inc))
        /\ done' = [done EXCEPT ![w] = Plus(@, inc)]
  BY <1>2
<1>3. k \in Nat /\ k <= worker[w].limit /\ inc \in Rows
  BY <1>1, VisitsType
<1>4. Plus(worker[w].own, inc) \in Rows /\ Plus(worker[w].view, inc) \in Rows
  BY <1>1, <1>3, PlusType
<1>5. Export(w, inc) \in Exports
  BY <1>1, <1>4 DEF Export, Exports
<1>6. Sent(w, k, inc) \in Updates
  BY <1>1, <1>3, <1>5 DEF Sent, Updates
<1>7. Searched(w, inc) \in Records
  BY <1>1, <1>4, <1>5, SearchedRecord DEF Searched
<1>q. QED
  BY <1>i, <1>3, <1>5, <1>6, <1>7

LEMMA StartRecord ==
  ASSUME NEW x \in Records, NEW m \in Starts
  PROVE  [x EXCEPT !.pc = "batch", !.dec = m.dec, !.root = m.root, !.limit = m.limit] \in Records
<1>1. m.dec \in Nat /\ m.root \in Roots /\ m.limit \in Nat /\ "batch" \in Pcs
  BY DEF Starts, Pcs
<1>q. QED
  BY <1>1 DEF Records

LEMMA AckRecord ==
  ASSUME NEW x \in Records, NEW m \in Acks, NEW l \in {"idle", "batch"}
  PROVE  [x EXCEPT !.limit = m.limit, !.pc = l] \in Records
<1>1. m.limit \in Nat /\ l \in Pcs
  BY DEF Acks, Pcs
<1>q. QED
  BY <1>1 DEF Records

Begun(x, m) == [Merge(x, m.snap) EXCEPT !.pc = "batch", !.dec = m.dec, !.root = m.root,
                                        !.limit = m.limit]
Told(x, m) == [Merge(x, m.snap) EXCEPT !.limit = m.limit,
                                       !.pc = IF m.limit = 0 THEN "idle" ELSE "batch"]

LEMMA BegunType ==
  ASSUME NEW x \in Records, NEW m \in Starts
  PROVE  Begun(x, m) \in Records
<1>1. m.snap \in Snaps
  BY DEF Starts
<1>2. Merge(x, m.snap) \in Records
  BY <1>1, MergeType
<1>q. QED
  BY <1>2, StartRecord DEF Begun

LEMMA ToldType ==
  ASSUME NEW x \in Records, NEW m \in Acks
  PROVE  Told(x, m) \in Records
<1>1. m.snap \in Snaps
  BY DEF Acks
<1>2. Merge(x, m.snap) \in Records
  BY <1>1, MergeType
<1>q. QED
  BY <1>2, AckRecord DEF Told

(* What the steps do that take a message, case by case.                    *)
StartCases(w) ==
  LET m == Head(down[w])
      x == Bind(worker[w], m.snap)
  IN \/ /\ m \in Starts /\ Mergeable(x, w, m.snap) /\ Begun(x, m) \in Records
        /\ worker' = [worker EXCEPT ![w] = Begun(x, m)] /\ up' = up
     \/ m \in Starts /\ ~Mergeable(x, w, m.snap) /\ Refuse(w, "statistics")
     \/ m.kind = "close" /\ Stay(w, "finally") /\ up' = up
     \/ m.kind \notin {"start", "close"} /\ Refuse(w, "drift")

LEMMA TakeStartDoes ==
  ASSUME Types, NEW w \in Workers, TakeStart(w)
  PROVE  StartCases(w)
<1> DEFINE m == Head(down[w])
           x == Bind(worker[w], m.snap)
<1>1. m \in Downs
  BY TakeDown DEF Types, WorkerTypes, TakeStart
<1>2. m.kind = "start" => m \in Starts
  BY <1>1, DownKinds
<1>3. ASSUME m \in Starts PROVE Begun(x, m) \in Records
  <2>1. x \in Records
    BY <1>3, BindType DEF Starts, Types, WorkerTypes
  <2>q. QED
    BY <1>3, <2>1, BegunType
<1>4. \/ /\ m.kind = "start"
         /\ IF Mergeable(x, w, m.snap)
              THEN worker' = [worker EXCEPT ![w] = Begun(x, m)] /\ up' = up
              ELSE Refuse(w, "statistics")
      \/ m.kind = "close" /\ Stay(w, "finally") /\ up' = up
      \/ m.kind \notin {"start", "close"} /\ Refuse(w, "drift")
  BY DEF TakeStart, Begun
<1> HIDE DEF m, x
<1>5. \/ /\ m \in Starts /\ Mergeable(x, w, m.snap) /\ Begun(x, m) \in Records
         /\ worker' = [worker EXCEPT ![w] = Begun(x, m)] /\ up' = up
      \/ m \in Starts /\ ~Mergeable(x, w, m.snap) /\ Refuse(w, "statistics")
      \/ m.kind = "close" /\ Stay(w, "finally") /\ up' = up
      \/ m.kind \notin {"start", "close"} /\ Refuse(w, "drift")
  BY <1>2, <1>3, <1>4
<1>q. QED
  BY <1>5 DEF StartCases, m, x

AckCases(w) ==
  LET m == Head(down[w])
      x == worker[w]
  IN \/ /\ m \in Acks /\ m.dec = x.dec /\ Mergeable(x, w, m.snap) /\ Told(x, m) \in Records
        /\ worker' = [worker EXCEPT ![w] = Told(x, m)]
        /\ IF m.limit = 0 THEN Send(w, [kind |-> "done", dec |-> x.dec]) ELSE up' = up
     \/ m \in Acks /\ m.dec = x.dec /\ ~Mergeable(x, w, m.snap) /\ Refuse(w, "statistics")
     \/ ~(m.kind = "ack" /\ m.dec = x.dec) /\ Refuse(w, "drift")

LEMMA TakeAckDoes ==
  ASSUME Types, NEW w \in Workers, TakeAck(w)
  PROVE  AckCases(w)
<1> DEFINE m == Head(down[w])
           x == worker[w]
<1>1. m \in Downs
  BY TakeDown DEF Types, WorkerTypes, TakeAck
<1>2. m.kind = "ack" => m \in Acks
  BY <1>1, DownKinds
<1>3. ASSUME m \in Acks PROVE Told(x, m) \in Records
  BY <1>3, ToldType DEF Types, WorkerTypes
<1>4. \/ /\ m.kind = "ack" /\ m.dec = x.dec /\ Mergeable(x, w, m.snap)
         /\ worker' = [worker EXCEPT ![w] = Told(x, m)]
         /\ up' = IF m.limit = 0 THEN [up EXCEPT ![w] = Append(@, [kind |-> "done", dec |-> x.dec])]
                  ELSE up
      \/ m.kind = "ack" /\ m.dec = x.dec /\ ~Mergeable(x, w, m.snap) /\ Refuse(w, "statistics")
      \/ ~(m.kind = "ack" /\ m.dec = x.dec) /\ Refuse(w, "drift")
  BY DEF TakeAck, Told
<1> HIDE DEF m, x
<1>5. \/ /\ m \in Acks /\ m.dec = x.dec /\ Mergeable(x, w, m.snap) /\ Told(x, m) \in Records
         /\ worker' = [worker EXCEPT ![w] = Told(x, m)]
         /\ IF m.limit = 0 THEN Send(w, [kind |-> "done", dec |-> x.dec]) ELSE up' = up
      \/ m \in Acks /\ m.dec = x.dec /\ ~Mergeable(x, w, m.snap) /\ Refuse(w, "statistics")
      \/ ~(m.kind = "ack" /\ m.dec = x.dec) /\ Refuse(w, "drift")
  BY <1>2, <1>3, <1>4 DEF Send
<1>q. QED
  BY <1>5 DEF AckCases, m, x

(* The request of a decision: the master it is asked of, made ready.       *)
Ready(b, r) == Advance(IF b = battle THEN master ELSE Fresh, Faints[r])
Request(b, r) == [kind |-> "start", dec |-> decision + 1, root |-> r,
                  snap |-> [Snapshot(Ready(b, r)) EXCEPT !.battle = b],
                  limit |-> Min({BatchSize, load.quota})]

LEMMA ReadyType ==
  ASSUME Types, NEW b \in load.battles, NEW r \in Roots
  PROVE  /\ Ready(b, r) \in Masters /\ Ready(b, r).floor = Faints[r] /\ Faints[r] \in Nat
         /\ Request(b, r) \in Starts /\ b \in Battles /\ b # None /\ load.quota \in Nat \ {0}
<1>1. Faints[r] \in Nat /\ load \in Loads /\ b \in Battles /\ b # None
      /\ load.quota \in Nat \ {0} /\ BatchSize \in Nat
  BY PoolAssumption DEF Types, OwnerTypes, Battles
<1>2. Ready(b, r) \in Masters /\ Ready(b, r).floor = Faints[r]
  BY <1>1, AdvanceType, FreshType DEF Ready, Types, OwnerTypes
<1>3. Snapshot(Ready(b, r)) \in Snaps
  BY <1>2, SnapshotType DEF Types, OwnerTypes
<1>4. [Snapshot(Ready(b, r)) EXCEPT !.battle = b] \in Snaps
  BY <1>1, <1>3 DEF Snaps
<1>5. Min({BatchSize, load.quota}) \in Nat
  BY <1>1, LeastOfTwo
<1>6. Request(b, r) \in Starts
  BY <1>1, <1>4, <1>5 DEF Request, Starts, Types, OwnerTypes
<1>q. QED
  BY <1>1, <1>2, <1>6

LEMMA SearchDoes ==
  ASSUME Types, NEW b \in load.battles, NEW r \in Roots, Search(b, r), UNCHANGED load
  PROVE  /\ mpc = "idle" /\ decision' = decision + 1 /\ battle' = b /\ root' = r /\ answer' = None
         /\ \/ /\ b = battle /\ Faints[r] < master.floor /\ mpc' = "failed" /\ why' = "request"
               /\ UNCHANGED <<master, pending, left, completed, before, down>>
            \/ /\ b = battle => master.floor <= Faints[r]
               /\ mpc' = "searching" /\ master' = Ready(b, r) /\ why' = why
               /\ pending' = Workers /\ left' = [w \in Workers |-> load.quota] /\ completed' = 0
               /\ before' = Sum(Ready(b, r))[r]
               /\ down' = [w \in Workers |-> Append(down[w], Request(b, r))]
         /\ done' = IF b = battle THEN done ELSE [w \in Workers |-> NoRows]
         /\ UNCHANGED <<owned, replies, dirty, worker, up, procVars>>
<1>1. Faints[r] \in Nat /\ master.floor \in Nat
  BY ReadyType DEF Types, OwnerTypes, Masters
<1>2. b # battle => ~(Faints[r] < (IF b = battle THEN master ELSE Fresh).floor)
  BY <1>1 DEF Fresh
<1>3. CASE Faints[r] < (IF b = battle THEN master ELSE Fresh).floor
  <2>1. b = battle
    BY <1>2, <1>3
  <2>q. QED
    BY <1>3, <2>1 DEF Search
<1>4. CASE ~(Faints[r] < (IF b = battle THEN master ELSE Fresh).floor)
  <2>1. b = battle => master.floor <= Faints[r]
    BY <1>1, <1>4
  <2>q. QED
    BY <1>4, <2>1 DEF Search, Ready, Request
<1>q. QED
  BY <1>3, <1>4

(* What a message of a worker does to the owner that searches.             *)
Taken(w, m) == Accept(master, w, m.update)
Reply(w, m) == [kind |-> "ack", dec |-> decision, snap |-> Snapshot(Taken(w, m)),
                limit |-> Limit(w, m.batch)]

ReceiveCases(w) ==
  LET m == Head(up[w])
  IN \/ /\ m \in Updates /\ m.dec = decision /\ Acceptable(master, w, m.update)
        /\ Taken(w, m) \in Masters /\ Reply(w, m) \in Acks
        /\ master' = Taken(w, m) /\ completed' = completed + m.batch.trajectories
        /\ left' \in [Workers -> Nat] /\ Tell(w, Reply(w, m))
        /\ UNCHANGED <<mpc, why, pending>>
     \/ /\ m \in Updates /\ m.dec = decision /\ ~Acceptable(master, w, m.update)
        /\ mpc' = "failed" /\ why' = "statistics"
        /\ UNCHANGED <<pending, left, completed, master, down>>
     \/ /\ m \in Dones /\ m.dec = decision /\ pending' = pending \ {w}
        /\ UNCHANGED <<mpc, why, left, completed, master, down>>
     \/ /\ m \in Errors /\ mpc' = "failed" /\ why' = m.cause
        /\ UNCHANGED <<pending, left, completed, master, down>>
     \/ /\ ~Mine(w, m) /\ m.kind # "error" /\ mpc' = "failed" /\ why' = "drift"
        /\ UNCHANGED <<pending, left, completed, master, down>>

LEMMA ReceiveDoes ==
  ASSUME Types, NEW w \in Workers, Receive(w)
  PROVE  ReceiveCases(w)
<1> DEFINE m == Head(up[w])
<1>1. m \in Ups
  BY TakeUp DEF Types, WorkerTypes, Receive
<1>2. \/ Mine(w, m) /\ m.kind = "update" /\ Update(w, m)
      \/ /\ Mine(w, m) /\ m.kind = "done" /\ pending' = pending \ {w}
         /\ UNCHANGED <<mpc, why, left, completed, master, down>>
      \/ /\ m.kind = "error" /\ Poison(m.cause)
         /\ UNCHANGED <<pending, left, completed, master, down>>
      \/ /\ ~Mine(w, m) /\ m.kind # "error" /\ Poison("drift")
         /\ UNCHANGED <<pending, left, completed, master, down>>
  BY DEF Receive
<1> HIDE DEF m
<1>3. ASSUME Mine(w, m), m.kind = "update", Update(w, m)
      PROVE  \/ /\ m \in Updates /\ m.dec = decision /\ Acceptable(master, w, m.update)
                /\ Taken(w, m) \in Masters /\ Reply(w, m) \in Acks
                /\ master' = Taken(w, m) /\ completed' = completed + m.batch.trajectories
                /\ left' \in [Workers -> Nat] /\ Tell(w, Reply(w, m))
                /\ UNCHANGED <<mpc, why, pending>>
             \/ /\ m \in Updates /\ m.dec = decision /\ ~Acceptable(master, w, m.update)
                /\ mpc' = "failed" /\ why' = "statistics"
                /\ UNCHANGED <<pending, left, completed, master, down>>
  <2>1. m \in Updates /\ m.dec = decision
    BY <1>1, <1>3, UpKinds DEF Mine
  <2>2. CASE ~Acceptable(master, w, m.update)
    BY <2>1, <2>2, <1>3 DEF Update, Poison
  <2>3. CASE Acceptable(master, w, m.update)
    <3>1. /\ master' = Taken(w, m) /\ completed' = completed + m.batch.trajectories
          /\ left' = [left EXCEPT ![w] = IF @ > m.batch.trajectories
                                           THEN @ - m.batch.trajectories ELSE 0]
          /\ Tell(w, [kind |-> "ack", dec |-> decision, snap |-> Snapshot(master'),
                      limit |-> Limit(w, m.batch)])
          /\ UNCHANGED <<mpc, why, pending>>
      BY <2>3, <1>3 DEF Update, Taken
    <3>2. /\ m.update \in Exports /\ m.batch \in [trajectories : Nat, exhausted : BOOLEAN]
          /\ m.batch.trajectories \in Nat
      BY <2>1 DEF Updates
    <3>3. Taken(w, m) \in Masters /\ battle \in Battles /\ decision \in Nat
          /\ left \in [Workers -> Nat]
      BY <3>2, AcceptType DEF Taken, Types, OwnerTypes
    <3>4. Snapshot(Taken(w, m)) \in Snaps /\ Limit(w, m.batch) \in Nat
      BY <3>2, <3>3, SnapshotType, LimitType
    <3>5. Reply(w, m) \in Acks
      BY <3>3, <3>4 DEF Reply, Acks
    <3>6. Tell(w, Reply(w, m))
      BY <3>1 DEF Reply, Snapshot
    <3>7. left' \in [Workers -> Nat]
      BY <3>1, <3>2, <3>3
    <3>q. QED
      BY <2>1, <2>3, <3>1, <3>3, <3>5, <3>6, <3>7
  <2>q. QED
    BY <2>2, <2>3
<1>4. ASSUME Mine(w, m), m.kind = "done" PROVE m \in Dones /\ m.dec = decision
  BY <1>1, <1>4, UpKinds DEF Mine
<1>5. m.kind = "error" => m \in Errors
  BY <1>1, UpKinds
<1>6. \/ /\ m \in Updates /\ m.dec = decision /\ Acceptable(master, w, m.update)
         /\ Taken(w, m) \in Masters /\ Reply(w, m) \in Acks
         /\ master' = Taken(w, m) /\ completed' = completed + m.batch.trajectories
         /\ left' \in [Workers -> Nat] /\ Tell(w, Reply(w, m))
         /\ UNCHANGED <<mpc, why, pending>>
      \/ /\ m \in Updates /\ m.dec = decision /\ ~Acceptable(master, w, m.update)
         /\ mpc' = "failed" /\ why' = "statistics"
         /\ UNCHANGED <<pending, left, completed, master, down>>
      \/ /\ m \in Dones /\ m.dec = decision /\ pending' = pending \ {w}
         /\ UNCHANGED <<mpc, why, left, completed, master, down>>
      \/ /\ m \in Errors /\ mpc' = "failed" /\ why' = m.cause
         /\ UNCHANGED <<pending, left, completed, master, down>>
      \/ /\ ~Mine(w, m) /\ m.kind # "error" /\ mpc' = "failed" /\ why' = "drift"
         /\ UNCHANGED <<pending, left, completed, master, down>>
  BY <1>2, <1>3, <1>4, <1>5 DEF Poison
<1>q. QED
  BY <1>6 DEF ReceiveCases, m

--------------------------------------------------------------------------------
(* Every variable keeps its range.                                         *)

LEMMA TypesInit == Init => Types
<1> SUFFICES ASSUME Init PROVE Types
  OBVIOUS
<1>1. OwnerTypes
  BY FreshType DEF Init, OwnerTypes, Battles
<1>2. WorkerTypes
  <2>1. NoRows \in Rows /\ Newborn \in Records
    BY NoRowsType, NewbornType
  <2>2. <<>> \in Seq(Ups) /\ <<>> \in Seq(Downs)
    OBVIOUS
  <2>q. QED
    BY <2>1, <2>2 DEF Init, WorkerTypes
<1>q. QED
  BY <1>1, <1>2 DEF Types

LEMMA TypesSearch ==
  ASSUME Types, NEW b \in load.battles, NEW r \in Roots, Search(b, r), UNCHANGED load
  PROVE  Types'
<1>0. Request(b, r) \in Downs /\ Ready(b, r) \in Masters /\ b \in Battles
      /\ load.quota \in Nat /\ Sum(Ready(b, r)) \in Rows
  BY ReadyType, SumType DEF Downs
<1>1. \A v \in Workers : Append(down[v], Request(b, r)) \in Seq(Downs)
  BY <1>0 DEF Types, WorkerTypes
<1>2. down' \in [Workers -> Seq(Downs)] /\ done' \in [Workers -> Rows]
  <2>1. down' = down \/ down' = [v \in Workers |-> Append(down[v], Request(b, r))]
    BY SearchDoes
  <2>2. done' = done \/ done' = [v \in Workers |-> NoRows]
    BY SearchDoes
  <2>3. down' \in [Workers -> Seq(Downs)]
    BY <1>1, <2>1 DEF Types, WorkerTypes
  <2>4. done' \in [Workers -> Rows]
    BY <2>2, NoRowsType DEF Types, WorkerTypes
  <2>q. QED
    BY <2>3, <2>4
<1>3. master' \in Masters /\ pending' \in SUBSET Workers /\ left' \in [Workers -> Nat]
      /\ completed' \in Nat
  BY <1>0, SearchDoes DEF Types, OwnerTypes
<1>4. before' \in Nat
  <2>1. r \in States /\ before \in Nat
    BY PoolAssumption DEF Types, OwnerTypes
  <2>2. Sum(Ready(b, r))[r] \in Nat
    BY <1>0, <2>1 DEF Rows
  <2>3. before' = before \/ before' = Sum(Ready(b, r))[r]
    BY SearchDoes
  <2>q. QED
    BY <2>1, <2>2, <2>3
<1>5. OwnerTypes'
  BY <1>0, <1>3, <1>4, SearchDoes DEF Types, OwnerTypes
<1>6. WorkerTypes'
  BY <1>2, SearchDoes DEF Types, WorkerTypes, procVars
<1>q. QED
  BY <1>5, <1>6 DEF Types

LEMMA TypesReceive ==
  ASSUME Types, NEW w \in Workers, Receive(w), UNCHANGED load
  PROVE  Types'
<1> DEFINE m == Head(up[w])
<1>1. up' \in [Workers -> Seq(Ups)]
  BY TakeUp DEF Receive, Types, WorkerTypes
<1>2. UNCHANGED <<decision, battle, root, before, answer, owned, replies, dirty, expired, worker,
                  procVars, done>>
  BY DEF Receive
<1>3. /\ master' \in Masters /\ completed' \in Nat /\ left' \in [Workers -> Nat]
      /\ pending' \in SUBSET Workers /\ down' \in [Workers -> Seq(Downs)]
  <2>1. CASE /\ m \in Updates /\ Taken(w, m) \in Masters /\ Reply(w, m) \in Acks
             /\ master' = Taken(w, m) /\ completed' = completed + m.batch.trajectories
             /\ left' \in [Workers -> Nat] /\ Tell(w, Reply(w, m)) /\ pending' = pending
    <3>1. Reply(w, m) \in Downs /\ m.batch.trajectories \in Nat
      BY <2>1 DEF Downs, Updates
    <3>2. down' \in [Workers -> Seq(Downs)]
      BY <2>1, <3>1, TellType DEF Types, WorkerTypes
    <3>3. completed \in Nat /\ pending \in SUBSET Workers
      BY DEF Types, OwnerTypes
    <3> HIDE DEF m
    <3>4. completed' \in Nat /\ pending' \in SUBSET Workers
      BY <2>1, <3>1, <3>3
    <3>5. master' \in Masters /\ left' \in [Workers -> Nat]
      BY <2>1
    <3>q. QED
      BY <3>2, <3>4, <3>5
  <2>2. CASE UNCHANGED <<left, completed, master, down>> /\ pending' \in SUBSET Workers
    BY <2>2 DEF Types, OwnerTypes, WorkerTypes
  <2>q. QED
    BY <2>1, <2>2, ReceiveDoes DEF ReceiveCases, Types, OwnerTypes
<1>q. QED
  BY <1>1, <1>2, <1>3 DEF Types, OwnerTypes, WorkerTypes, procVars

(* The steps of a worker, and those of the owner that only open, close,    *)
(* fail or reap.                                                           *)
LEMMA TypesWorker ==
  ASSUME Types, NEW w \in Workers, UNCHANGED load,
         WorkerStep(w) \/ RuntimeError(w) \/ Die(w) \/ Hang(w)
  PROVE  Types'
<1> USE DEF Types
<1>1. CASE Isolate(w)
  <2>1. Stay(w, "isolated") /\ Send(w, Message("isolation"))
        /\ UNCHANGED <<ownerVars, down, procVars, done>>
    BY <1>1 DEF Isolate
  <2>2. worker' \in [Workers -> Records] /\ up' \in [Workers -> Seq(Ups)]
    BY <2>1, StayType, SendType, Plains DEF WorkerTypes, Pcs
  <2>q. QED
    BY <2>1, <2>2 DEF OwnerTypes, WorkerTypes, ownerVars, procVars
<1>2. CASE BootWorker(w)
  <2>1. UNCHANGED <<ownerVars, proc, done>> /\ kids' \in SUBSET Workers
    BY <1>2 DEF BootWorker, WorkerTypes
  <2>2. down' \in [Workers -> Seq(Downs)]
    BY <1>2, TakeDown DEF BootWorker, WorkerTypes
  <2>3. worker' \in [Workers -> Records] /\ up' \in [Workers -> Seq(Ups)]
    BY <1>2, StayType, SendType, RefuseType, Plains DEF BootWorker, WorkerTypes, Pcs
  <2>q. QED
    BY <2>1, <2>2, <2>3 DEF OwnerTypes, WorkerTypes, ownerVars
<1>3. CASE TakeStart(w)
  <2>1. UNCHANGED <<ownerVars, procVars, done>>
    BY <1>3 DEF TakeStart
  <2>2. down' \in [Workers -> Seq(Downs)]
    BY <1>3, TakeDown DEF TakeStart, WorkerTypes
  <2>3. worker' \in [Workers -> Records] /\ up' \in [Workers -> Seq(Ups)]
    BY <1>3, TakeStartDoes, StayType, RefuseType DEF StartCases, WorkerTypes, Pcs
  <2>q. QED
    BY <2>1, <2>2, <2>3 DEF OwnerTypes, WorkerTypes, ownerVars, procVars
<1>4. CASE Batch(w)
  <2>1. UNCHANGED <<ownerVars, down, procVars>>
    BY <1>4 DEF Batch
  <2>2. PICK k \in Nat : \E inc \in Rows :
           /\ Sent(w, k, inc) \in Updates /\ Searched(w, inc) \in Records
           /\ worker' = [worker EXCEPT ![w] = Searched(w, inc)]
           /\ Send(w, Sent(w, k, inc))
           /\ done' = [done EXCEPT ![w] = Plus(@, inc)]
    BY <1>4, BatchDoes
  <2>3. PICK inc \in Rows :
           /\ Sent(w, k, inc) \in Updates /\ Searched(w, inc) \in Records
           /\ worker' = [worker EXCEPT ![w] = Searched(w, inc)]
           /\ Send(w, Sent(w, k, inc))
           /\ done' = [done EXCEPT ![w] = Plus(@, inc)]
    BY <2>2
  <2>4. Sent(w, k, inc) \in Ups
    BY <2>3 DEF Ups
  <2>5. up' \in [Workers -> Seq(Ups)] /\ worker' \in [Workers -> Records]
    BY <2>3, <2>4, SendType DEF WorkerTypes
  <2>6. done' \in [Workers -> Rows]
    BY <2>3, PlusType DEF WorkerTypes
  <2>q. QED
    BY <2>1, <2>5, <2>6 DEF OwnerTypes, WorkerTypes, ownerVars, procVars
<1>5. CASE TakeAck(w)
  <2>1. UNCHANGED <<ownerVars, procVars, done>>
    BY <1>5 DEF TakeAck
  <2>2. down' \in [Workers -> Seq(Downs)]
    BY <1>5, TakeDown DEF TakeAck, WorkerTypes
  <2>3. worker' \in [Workers -> Records] /\ up' \in [Workers -> Seq(Ups)]
    <3>1. [kind |-> "done", dec |-> worker[w].dec] \in Ups
      BY DEF WorkerTypes, Records, Ups, Dones
    <3>2. \/ \E y \in Records : /\ worker' = [worker EXCEPT ![w] = y]
                              /\ \/ Send(w, [kind |-> "done", dec |-> worker[w].dec])
                                 \/ up' = up
          \/ Refuse(w, "statistics")
          \/ Refuse(w, "drift")
      BY <1>5, TakeAckDoes DEF AckCases
    <3>3. CASE Refuse(w, "statistics") \/ Refuse(w, "drift")
      BY <3>3, RefuseType
    <3>4. ASSUME NEW y \in Records, worker' = [worker EXCEPT ![w] = y],
                 Send(w, [kind |-> "done", dec |-> worker[w].dec]) \/ up' = up
          PROVE  worker' \in [Workers -> Records] /\ up' \in [Workers -> Seq(Ups)]
      <4>1. worker' \in [Workers -> Records]
        BY <3>4 DEF WorkerTypes
      <4>2. up' \in [Workers -> Seq(Ups)]
        BY <3>1, <3>4, SendType DEF WorkerTypes
      <4>q. QED
        BY <4>1, <4>2
    <3>q. QED
      BY <3>2, <3>3, <3>4
  <2>q. QED
    BY <2>1, <2>2, <2>3 DEF OwnerTypes, WorkerTypes, ownerVars, procVars
<1>6. CASE EndOfPipe(w)
  <2>1. worker' \in [Workers -> Records]
    BY <1>6, StayType DEF EndOfPipe, WorkerTypes, Pcs
  <2>q. QED
    BY <1>6, <2>1 DEF EndOfPipe, OwnerTypes, WorkerTypes, ownerVars, procVars
<1>7. CASE Finally(w)
  <2> DEFINE m == [kind |-> "cleanup_ready", clean |-> w \notin kids']
  <2>1. m \in Ups
    BY DEF Ups, Readies
  <2>2. Stay(w, "cleanup") /\ Send(w, m) /\ UNCHANGED <<ownerVars, down, proc, done>>
    BY <1>7 DEF Finally
  <2>3. kids' \in SUBSET Workers
    BY <1>7 DEF Finally, WorkerTypes
  <2> HIDE DEF m
  <2>4. worker' \in [Workers -> Records] /\ up' \in [Workers -> Seq(Ups)]
    BY <2>1, <2>2, StayType, SendType DEF WorkerTypes, Pcs
  <2>q. QED
    BY <2>2, <2>3, <2>4 DEF OwnerTypes, WorkerTypes, ownerVars
<1>8. CASE Leave(w)
  <2>1. down' \in [Workers -> Seq(Downs)]
    BY <1>8, TakeDown DEF Leave, WorkerTypes
  <2>2. proc' \in [Workers -> {"unborn", "live", "exited", "killed", "reaped"}]
    BY <1>8 DEF Leave, WorkerTypes
  <2>q. QED
    BY <1>8, <2>1, <2>2 DEF Leave, OwnerTypes, WorkerTypes, ownerVars
<1>9. CASE RuntimeError(w)
  <2>1. worker' \in [Workers -> Records] /\ up' \in [Workers -> Seq(Ups)]
    BY <1>9, RefuseType DEF RuntimeError
  <2>q. QED
    BY <1>9, <2>1 DEF RuntimeError, OwnerTypes, WorkerTypes, ownerVars
<1>10. CASE Die(w)
  BY <1>10 DEF Die, OwnerTypes, WorkerTypes, ownerVars
<1>11. CASE Hang(w)
  BY <1>11 DEF Hang, OwnerTypes, WorkerTypes, ownerVars
<1>q. QED
  BY <1>1, <1>2, <1>3, <1>4, <1>5, <1>6, <1>7, <1>8, <1>9, <1>10, <1>11 DEF WorkerStep

LEMMA TypesOwner ==
  ASSUME Types, UNCHANGED load,
         \/ Lost \/ Answer \/ Grace \/ Close \/ Expire \/ OwnerDies
         \/ \E w \in Workers : Spawn(w) \/ Startup(w) \/ Drain(w) \/ Dismiss(w) \/ Join(w)
  PROVE  Types'
<1> USE DEF Types
<1>1. CASE Lost
  BY <1>1 DEF Lost, OwnerTypes, WorkerTypes
<1>2. CASE Answer
  BY <1>2 DEF Answer, OwnerTypes, WorkerTypes, procVars
<1>3. CASE Grace
  BY <1>3 DEF Grace, OwnerTypes, WorkerTypes
<1>4. CASE Close
  <2>1. \A w \in Workers : Append(down[w], Message("close")) \in Seq(Downs)
    BY Plains DEF WorkerTypes
  <2>2. down' \in [Workers -> Seq(Downs)]
    BY <1>4, <2>1 DEF Close, WorkerTypes
  <2>q. QED
    BY <1>4, <2>2 DEF Close, OwnerTypes, WorkerTypes, procVars
<1>5. CASE Expire
  BY <1>5 DEF Expire, OwnerTypes, WorkerTypes, ownerVars, procVars
<1>6. CASE OwnerDies
  BY <1>6 DEF OwnerDies, OwnerTypes, WorkerTypes
<1>7. ASSUME NEW w \in Workers, Spawn(w) PROVE Types'
  <2>1. proc' \in [Workers -> {"unborn", "live", "exited", "killed", "reaped"}]
    BY <1>7 DEF Spawn, WorkerTypes
  <2>q. QED
    BY <1>7, <2>1 DEF Spawn, OwnerTypes, WorkerTypes
<1>8. ASSUME NEW w \in Workers, Startup(w) PROVE Types'
  <2>1. up' \in [Workers -> Seq(Ups)]
    BY <1>8, TakeUp DEF Startup, WorkerTypes
  <2>2. down' \in [Workers -> Seq(Downs)] /\ pending' \in SUBSET Workers
        /\ owned' \in SUBSET Workers
    BY <1>8, TellType, Plains DEF Startup, OwnerTypes, WorkerTypes
  <2>q. QED
    BY <1>8, <2>1, <2>2 DEF Startup, OwnerTypes, WorkerTypes, procVars
<1>9. ASSUME NEW w \in Workers, Drain(w) PROVE Types'
  <2>1. UNCHANGED <<decision, battle, root, left, completed, before, master, worker, procVars, done>>
    BY <1>9 DEF Drain
  <2>2. CASE up[w] # <<>> /\ up' = [up EXCEPT ![w] = Tail(@)]
    <3> DEFINE m == Head(up[w])
    <3>1. up' \in [Workers -> Seq(Ups)] /\ m \in Ups
      BY <2>2, TakeUp DEF WorkerTypes
    <3>2. m.kind = "cleanup_ready" => [from |-> w, clean |-> m.clean] \in
                                         [from : Workers, clean : BOOLEAN]
      BY <3>1, UpKinds DEF Readies
    <3>3. replies' \in SUBSET [from : Workers, clean : BOOLEAN]
      BY <1>9, <3>2 DEF Drain, OwnerTypes
    <3>4. down' \in [Workers -> Seq(Downs)] /\ pending' \in SUBSET Workers
          /\ owned' \in SUBSET Workers /\ dirty' \in BOOLEAN
      BY <1>9, TellType, Plains DEF Drain, OwnerTypes, WorkerTypes
    <3>q. QED
      BY <2>1, <3>1, <3>3, <3>4 DEF OwnerTypes, WorkerTypes, procVars
  <2>3. CASE /\ pending' = pending \ {w} /\ dirty' = TRUE
             /\ UNCHANGED <<owned, replies, up, down>>
    BY <2>1, <2>3 DEF OwnerTypes, WorkerTypes, procVars
  <2>q. QED
    BY <1>9, <2>2, <2>3 DEF Drain
<1>10. ASSUME NEW w \in Workers, Dismiss(w) PROVE Types'
  <2>1. down' \in [Workers -> Seq(Downs)]
    BY <1>10, TellType, Plains DEF Dismiss, WorkerTypes
  <2>2. /\ proc' \in [Workers -> {"unborn", "live", "exited", "killed", "reaped"}]
        /\ kids' \in SUBSET Workers /\ dirty' \in BOOLEAN
    BY <1>10 DEF Dismiss, OwnerTypes, WorkerTypes
  <2>q. QED
    BY <1>10, <2>1, <2>2 DEF Dismiss, OwnerTypes, WorkerTypes
<1>11. ASSUME NEW w \in Workers, Join(w) PROVE Types'
  <2>1. /\ proc' \in [Workers -> {"unborn", "live", "exited", "killed", "reaped"}]
        /\ dirty' \in BOOLEAN /\ pending' \in SUBSET Workers
    BY <1>11 DEF Join, OwnerTypes, WorkerTypes
  <2>q. QED
    BY <1>11, <2>1 DEF Join, OwnerTypes, WorkerTypes
<1>q. QED
  BY <1>1, <1>2, <1>3, <1>4, <1>5, <1>6, <1>7, <1>8, <1>9, <1>10, <1>11

(* The steps, each named once: how every proof below splits them.          *)
LEMMA NextSplits ==
  ASSUME Next
  PROVE  \/ \E b \in load.battles, r \in Roots : Search(b, r)
         \/ \E w \in Workers : Receive(w)
         \/ \E w \in Workers : WorkerStep(w) \/ RuntimeError(w) \/ Die(w) \/ Hang(w)
         \/ \/ Lost \/ Answer \/ Grace \/ Close \/ Expire \/ OwnerDies
            \/ \E w \in Workers : Spawn(w) \/ Startup(w) \/ Drain(w) \/ Dismiss(w) \/ Join(w)
BY DEF Next, OwnerStep

LEMMA TypesStep ==
  ASSUME Types, [Next /\ UNCHANGED load]_vars
  PROVE  Types'
<1>1. CASE UNCHANGED vars
  BY <1>1 DEF Types, OwnerTypes, WorkerTypes, vars, moving, ownerVars, procVars
<1>2. CASE Next /\ UNCHANGED load
  BY <1>2, NextSplits, TypesSearch, TypesReceive, TypesWorker, TypesOwner
<1>q. QED
  BY <1>1, <1>2

(* A worker's step touches nothing of the owner and of the others.         *)
LEMMA WorkerFrame ==
  ASSUME Types, NEW w \in Workers,
         WorkerStep(w) \/ RuntimeError(w) \/ Die(w) \/ Hang(w)
  PROVE  /\ UNCHANGED ownerVars /\ proc[w] = "live"
         /\ \A v \in Workers \ {w} : /\ worker'[v] = worker[v] /\ up'[v] = up[v]
                                     /\ down'[v] = down[v] /\ proc'[v] = proc[v]
                                     /\ done'[v] = done[v] /\ (v \in kids' <=> v \in kids)
<1>t. WorkerTypes /\ up[w] \in Seq(Ups) /\ down[w] \in Seq(Downs)
  BY DEF Types, WorkerTypes
<1>1. CASE Isolate(w)
  BY <1>1, <1>t, StayType, SendType, Plains
     DEF Isolate, WorkerTypes, ownerVars, procVars, Runs, Pcs
<1>2. CASE BootWorker(w)
  <2>1. /\ UNCHANGED <<ownerVars, proc, done>> /\ proc[w] = "live"
        /\ \A v \in Workers \ {w} : v \in kids' <=> v \in kids
    BY <1>2 DEF BootWorker, ownerVars, Runs
  <2>2. \A v \in Workers \ {w} : down'[v] = down[v]
    BY <1>2, <1>t, TakeDown DEF BootWorker, WorkerTypes
  <2>3. \A v \in Workers \ {w} : worker'[v] = worker[v] /\ up'[v] = up[v]
    BY <1>2, <1>t, StayType, SendType, RefuseType, Plains DEF BootWorker, WorkerTypes, Pcs
  <2>q. QED
    BY <2>1, <2>2, <2>3
<1>3. CASE TakeStart(w)
  <2>1. \A v \in Workers \ {w} : worker'[v] = worker[v] /\ up'[v] = up[v]
    BY <1>3, <1>t, TakeStartDoes, StayType, RefuseType DEF StartCases, WorkerTypes, Pcs
  <2>2. \A v \in Workers \ {w} : down'[v] = down[v]
    BY <1>3, <1>t, TakeDown DEF TakeStart, WorkerTypes
  <2>q. QED
    BY <1>3, <2>1, <2>2 DEF TakeStart, ownerVars, procVars, Runs
<1>4. CASE Batch(w)
  BY <1>4, <1>t DEF Batch, Send, WorkerTypes, ownerVars, procVars, Runs
<1>5. CASE TakeAck(w)
  <2>1. \A v \in Workers \ {w} : worker'[v] = worker[v] /\ up'[v] = up[v]
    BY <1>5, <1>t, TakeAckDoes, RefuseType DEF AckCases, WorkerTypes, Send
  <2>2. \A v \in Workers \ {w} : down'[v] = down[v]
    BY <1>5, <1>t, TakeDown DEF TakeAck, WorkerTypes
  <2>q. QED
    BY <1>5, <2>1, <2>2 DEF TakeAck, ownerVars, procVars, Runs
<1>6. CASE EndOfPipe(w)
  BY <1>6, <1>t, StayType DEF EndOfPipe, WorkerTypes, ownerVars, procVars, Runs, Pcs
<1>7. CASE Finally(w)
  <2>1. /\ UNCHANGED <<ownerVars, proc, down, done>> /\ proc[w] = "live"
        /\ \A v \in Workers \ {w} : v \in kids' <=> v \in kids
    BY <1>7 DEF Finally, ownerVars, Runs
  <2>2. \A v \in Workers \ {w} : worker'[v] = worker[v] /\ up'[v] = up[v]
    BY <1>7, <1>t, StayType DEF Finally, Send, WorkerTypes, Pcs
  <2>q. QED
    BY <2>1, <2>2
<1>8. CASE Leave(w)
  BY <1>8, <1>t DEF Leave, WorkerTypes, ownerVars, Runs
<1>9. CASE RuntimeError(w)
  <2>1. \A v \in Workers \ {w} : worker'[v] = worker[v] /\ up'[v] = up[v]
    BY <1>9, <1>t, RefuseType DEF RuntimeError, WorkerTypes
  <2>q. QED
    BY <1>9, <2>1 DEF RuntimeError, ownerVars, Runs
<1>10. CASE Die(w)
  BY <1>10, <1>t DEF Die, WorkerTypes, ownerVars
<1>11. CASE Hang(w)
  BY <1>11, <1>t DEF Hang, WorkerTypes, ownerVars, Runs
<1>q. QED
  BY <1>1, <1>2, <1>3, <1>4, <1>5, <1>6, <1>7, <1>8, <1>9, <1>10, <1>11 DEF WorkerStep

--------------------------------------------------------------------------------
(* The cleanup: whose simulator may still run, at every point of it.       *)

(* A simulator starts after the acknowledgement of an isolation the owner  *)
(* recorded, and never in a worker that has reported.                      *)
Acknowledged(q) == \E i \in 1 .. Len(q) : q[i].kind = "isolation_ack"
Reported(q) == \E i \in 1 .. Len(q) : q[i].kind = "cleanup_ready" /\ q[i].clean
CleanReply(w) == \E r \in replies : r.from = w /\ r.clean

WorkerScope(w) ==
  /\ proc[w] = "unborn" => worker[w].pc = "born"
  /\ worker[w].pc = "born" => w \notin kids
  /\ Acknowledged(down[w]) => w \in owned
  /\ w \in kids => w \in owned
  /\ Reported(up[w]) \/ CleanReply(w) => w \notin kids /\ worker[w].pc = "cleanup"

Closing ==
  /\ mpc \in {"reaping", "joining", "closed"} =>
       \A w \in Workers \ pending : /\ proc[w] \in {"unborn", "reaped"}
                                    /\ ~dirty => w \notin kids
  /\ mpc = "joining" /\ ~dirty => CleanReply(Min(pending))
  /\ mpc = "closed" => pending = {}

Scopes == (\A w \in Workers : WorkerScope(w)) /\ Closing

LEMMA AcknowledgedAppend ==
  ASSUME NEW q \in Seq(Downs), NEW m \in Downs
  PROVE  Acknowledged(Append(q, m)) => Acknowledged(q) \/ m.kind = "isolation_ack"
<1> SUFFICES ASSUME NEW i \in 1 .. Len(Append(q, m)), Append(q, m)[i].kind = "isolation_ack"
             PROVE  Acknowledged(q) \/ m.kind = "isolation_ack"
  BY DEF Acknowledged
<1>1. CASE i = Len(q) + 1
  BY <1>1
<1>2. CASE i # Len(q) + 1
  <2>1. i \in 1 .. Len(q) /\ Append(q, m)[i] = q[i]
    BY <1>2
  <2>q. QED
    BY <2>1 DEF Acknowledged
<1>q. QED
  BY <1>1, <1>2

LEMMA AcknowledgedTail ==
  ASSUME NEW q \in Seq(Downs), q # <<>>
  PROVE  /\ Acknowledged(Tail(q)) => Acknowledged(q)
         /\ Head(q).kind = "isolation_ack" => Acknowledged(q)
<1>1. 1 \in 1 .. Len(q) /\ Head(q) = q[1]
  OBVIOUS
<1>2. ASSUME NEW i \in 1 .. Len(Tail(q)), Tail(q)[i].kind = "isolation_ack" PROVE Acknowledged(q)
  <2>1. i + 1 \in 1 .. Len(q) /\ Tail(q)[i] = q[i + 1]
    OBVIOUS
  <2>q. QED
    BY <1>2, <2>1 DEF Acknowledged
<1>q. QED
  BY <1>1, <1>2 DEF Acknowledged

LEMMA ReportedAppend ==
  ASSUME NEW q \in Seq(Ups), NEW m \in Ups
  PROVE  Reported(Append(q, m)) => Reported(q) \/ (m.kind = "cleanup_ready" /\ m.clean)
<1> SUFFICES ASSUME NEW i \in 1 .. Len(Append(q, m)),
                    Append(q, m)[i].kind = "cleanup_ready", Append(q, m)[i].clean
             PROVE  Reported(q) \/ (m.kind = "cleanup_ready" /\ m.clean)
  BY DEF Reported
<1>1. CASE i = Len(q) + 1
  BY <1>1
<1>2. CASE i # Len(q) + 1
  <2>1. i \in 1 .. Len(q) /\ Append(q, m)[i] = q[i]
    BY <1>2
  <2>q. QED
    BY <2>1 DEF Reported
<1>q. QED
  BY <1>1, <1>2

LEMMA ReportedTail ==
  ASSUME NEW q \in Seq(Ups), q # <<>>
  PROVE  /\ Reported(Tail(q)) => Reported(q)
         /\ Head(q).kind = "cleanup_ready" /\ Head(q).clean => Reported(q)
<1>1. 1 \in 1 .. Len(q) /\ Head(q) = q[1]
  OBVIOUS
<1>2. ASSUME NEW i \in 1 .. Len(Tail(q)), Tail(q)[i].kind = "cleanup_ready", Tail(q)[i].clean
      PROVE  Reported(q)
  <2>1. i + 1 \in 1 .. Len(q) /\ Tail(q)[i] = q[i + 1]
    OBVIOUS
  <2>q. QED
    BY <1>2, <2>1 DEF Reported
<1>q. QED
  BY <1>1, <1>2 DEF Reported

(* A worker whose place in the code stays, and of whom nothing is new.     *)
LEMMA ScopeKept ==
  ASSUME NEW v \in Workers, WorkerScope(v), worker'[v].pc = worker[v].pc,
         proc'[v] = "unborn" => proc[v] = "unborn",
         Acknowledged(down'[v]) => Acknowledged(down[v]) \/ v \in owned',
         v \in kids' => v \in kids, owned \subseteq owned',
         Reported(up'[v]) \/ CleanReply(v)' => Reported(up[v]) \/ CleanReply(v)
  PROVE  WorkerScope(v)'
BY DEF WorkerScope

(* A worker that moves on, starting nothing and reporting nothing.         *)
LEMMA ScopeMoves ==
  ASSUME NEW v \in Workers, WorkerScope(v), worker[v].pc # "cleanup", worker'[v].pc # "born",
         proc'[v] # "unborn", Acknowledged(down'[v]) => Acknowledged(down[v]),
         v \in kids' => v \in kids, owned' = owned, replies' = replies,
         Reported(up'[v]) => Reported(up[v])
  PROVE  WorkerScope(v)'
BY DEF WorkerScope, CleanReply

LEMMA ClosingKept ==
  ASSUME Closing, UNCHANGED <<mpc, pending, dirty, replies>>,
         \A v \in Workers : proc[v] \in {"unborn", "reaped"} =>
                              proc'[v] = proc[v] /\ (v \in kids' => v \in kids)
  PROVE  Closing'
<1>1. \A v \in Workers : CleanReply(v)' = CleanReply(v)
  BY DEF CleanReply
<1>2. CleanReply(Min(pending))' = CleanReply(Min(pending))
  BY DEF CleanReply
<1>q. QED
  BY <1>1, <1>2 DEF Closing

LEMMA ErrorReportsNothing ==
  ASSUME NEW q \in Seq(Ups), NEW cause \in {"startup", "statistics", "drift", "runtime"}
  PROVE  Reported(Append(q, [kind |-> "error", cause |-> cause])) => Reported(q)
<1> DEFINE m == [kind |-> "error", cause |-> cause]
<1>1. m \in Ups /\ m.kind = "error"
  BY DEF Ups, Errors
<1> HIDE DEF m
<1>2. Reported(Append(q, m)) => Reported(q)
  BY <1>1, ReportedAppend
<1>q. QED
  BY <1>2 DEF m

LEMMA ScopesInit == Init => Scopes
<1> SUFFICES ASSUME Init PROVE Scopes
  OBVIOUS
<1>1. ASSUME NEW w \in Workers PROVE WorkerScope(w)
  <2>1. worker[w].pc = "born" /\ kids = {} /\ replies = {} /\ Len(up[w]) = 0 /\ Len(down[w]) = 0
    BY DEF Init, Newborn
  <2>q. QED
    BY <2>1 DEF WorkerScope, Acknowledged, Reported, CleanReply
<1>2. Closing
  BY DEF Init, Closing
<1>q. QED
  BY <1>1, <1>2 DEF Scopes

LEMMA ScopesWorker ==
  ASSUME Types, Scopes, NEW w \in Workers,
         WorkerStep(w) \/ RuntimeError(w) \/ Die(w) \/ Hang(w)
  PROVE  Scopes'
<1>0. WorkerTypes /\ WorkerScope(w) /\ Closing /\ up[w] \in Seq(Ups) /\ down[w] \in Seq(Downs)
  BY DEF Types, WorkerTypes, Scopes
<1>1. /\ UNCHANGED <<mpc, pending, dirty, replies, owned>> /\ proc[w] = "live"
      /\ \A v \in Workers \ {w} : /\ worker'[v] = worker[v] /\ up'[v] = up[v]
                                  /\ down'[v] = down[v] /\ proc'[v] = proc[v]
                                  /\ (v \in kids' <=> v \in kids)
  BY WorkerFrame DEF ownerVars
<1>2. Closing'
  BY <1>0, <1>1, ClosingKept
<1>3. ASSUME NEW v \in Workers \ {w} PROVE WorkerScope(v)'
  BY <1>1, <1>3, ScopeKept DEF Scopes, CleanReply
<1>4. WorkerScope(w)'
  <2>1. CASE Isolate(w)
    <3>1. /\ worker[w].pc = "born" /\ worker'[w].pc = "isolated"
          /\ up'[w] = Append(up[w], Message("isolation")) /\ UNCHANGED <<down, proc, kids>>
      BY <2>1, <1>0, StayType, SendType, Plains DEF Isolate, WorkerTypes, procVars, Pcs
    <3>2. Reported(up'[w]) => Reported(up[w])
      BY <3>1, <1>0, Plains, ReportedAppend
    <3>q. QED
      BY <3>1, <3>2, <1>0, <1>1, ScopeMoves
  <2>2. CASE BootWorker(w)
    <3>1. /\ worker[w].pc = "isolated" /\ down[w] # <<>> /\ down'[w] = Tail(down[w])
          /\ proc' = proc
      BY <2>2, <1>0, TakeDown DEF BootWorker, WorkerTypes
    <3>2. Acknowledged(down'[w]) => Acknowledged(down[w])
      BY <3>1, <1>0, AcknowledgedTail
    <3>3. CASE /\ Acked(w) /\ kids' = kids \cup {w}
               /\ Stay(w, "idle") /\ Send(w, Message("boot"))
      <4>1. worker'[w].pc = "idle" /\ up'[w] = Append(up[w], Message("boot"))
        BY <3>3, <1>0, StayType, SendType, Plains DEF WorkerTypes, Pcs
      <4>2. Reported(up'[w]) => Reported(up[w])
        BY <4>1, <1>0, Plains, ReportedAppend
      <4>3. w \in owned
        BY <3>1, <3>3, <1>0, AcknowledgedTail DEF Acked, WorkerScope
      <4>4. ~Reported(up[w]) /\ ~CleanReply(w)
        BY <3>1, <1>0 DEF WorkerScope
      <4>q. QED
        BY <3>1, <3>2, <4>1, <4>2, <4>3, <4>4, <1>0, <1>1 DEF WorkerScope, CleanReply
    <3>4. CASE Refuse(w, "startup") /\ kids' = kids
      <4>1. /\ worker'[w].pc = "finally"
            /\ up'[w] = Append(up[w], [kind |-> "error", cause |-> "startup"])
        BY <3>4, <1>0, RefuseType
      <4>2. Reported(up'[w]) => Reported(up[w])
        BY <4>1, <1>0, ErrorReportsNothing
      <4>q. QED
        BY <3>1, <3>2, <3>4, <4>1, <4>2, <1>0, <1>1, ScopeMoves
    <3>q. QED
      BY <2>2, <3>3, <3>4 DEF BootWorker
  <2>3. CASE TakeStart(w)
    <3>1. /\ worker[w].pc = "idle" /\ down[w] # <<>> /\ down'[w] = Tail(down[w])
          /\ UNCHANGED <<proc, kids>>
      BY <2>3, <1>0, TakeDown DEF TakeStart, WorkerTypes, procVars
    <3>2. Acknowledged(down'[w]) => Acknowledged(down[w])
      BY <3>1, <1>0, AcknowledgedTail
    <3>3. /\ worker'[w].pc \in {"batch", "finally"}
          /\ \/ up'[w] = up[w]
             \/ \E cause \in {"statistics", "drift"} :
                   up'[w] = Append(up[w], [kind |-> "error", cause |-> cause])
      <4>1. CASE \E x \in Records : /\ x.pc = "batch" /\ up' = up
                                    /\ worker' = [worker EXCEPT ![w] = x]
        BY <4>1, <1>0 DEF WorkerTypes
      <4>2. CASE Refuse(w, "statistics") \/ Refuse(w, "drift")
        BY <4>2, <1>0, RefuseType
      <4>3. CASE Stay(w, "finally") /\ up' = up
        BY <4>3, <1>0, StayType DEF WorkerTypes, Pcs
      <4>4. \A x, m : Begun(x, m) \in Records => Begun(x, m).pc = "batch"
        BY DEF Begun, Merge, Records
      <4>5. StartCases(w)
        BY <2>3, TakeStartDoes
      <4> DEFINE b == Begun(Bind(worker[w], Head(down[w]).snap), Head(down[w]))
      <4>6. \/ b \in Records /\ worker' = [worker EXCEPT ![w] = b] /\ up' = up
            \/ Refuse(w, "statistics") \/ Refuse(w, "drift")
            \/ Stay(w, "finally") /\ up' = up
        BY <4>5 DEF StartCases
      <4>7. b \in Records => b.pc = "batch"
        BY <4>4
      <4> HIDE DEF b
      <4>q. QED
        BY <4>1, <4>2, <4>3, <4>6, <4>7
    <3>4. Reported(up'[w]) => Reported(up[w])
      BY <3>3, <1>0, ErrorReportsNothing
    <3>q. QED
      BY <3>1, <3>2, <3>3, <3>4, <1>0, <1>1, ScopeMoves
  <2>4. CASE Batch(w)
    <3>1. PICK k \in Nat : \E inc \in Rows :
             /\ Sent(w, k, inc) \in Updates
             /\ worker' = [worker EXCEPT ![w] = Searched(w, inc)]
             /\ Send(w, Sent(w, k, inc))
      BY <2>4, BatchDoes
    <3>2. PICK inc \in Rows :
             /\ Sent(w, k, inc) \in Updates
             /\ worker' = [worker EXCEPT ![w] = Searched(w, inc)]
             /\ Send(w, Sent(w, k, inc))
      BY <3>1
    <3>3. Sent(w, k, inc) \in Ups /\ Sent(w, k, inc).kind = "update"
      BY <3>2 DEF Ups, Sent
    <3>4. worker[w] \in Records
      BY <1>0 DEF WorkerTypes
    <3>5. worker'[w].pc = "exchange" /\ up'[w] = Append(up[w], Sent(w, k, inc))
      BY <3>2, <3>3, <3>4, <1>0, SendType DEF WorkerTypes, Searched, Records
    <3>6. Reported(up'[w]) => Reported(up[w])
      BY <3>3, <3>5, <1>0, ReportedAppend
    <3>7. worker[w].pc = "batch" /\ UNCHANGED <<down, proc, kids>>
      BY <2>4 DEF Batch, procVars
    <3>q. QED
      BY <3>5, <3>6, <3>7, <1>0, <1>1, ScopeMoves
  <2>5. CASE TakeAck(w)
    <3>1. /\ worker[w].pc = "exchange" /\ down[w] # <<>> /\ down'[w] = Tail(down[w])
          /\ UNCHANGED <<proc, kids>>
      BY <2>5, <1>0, TakeDown DEF TakeAck, WorkerTypes, procVars
    <3>2. Acknowledged(down'[w]) => Acknowledged(down[w])
      BY <3>1, <1>0, AcknowledgedTail
    <3>3. /\ worker'[w].pc \in {"idle", "batch", "finally"}
          /\ \/ up'[w] = up[w]
             \/ up'[w] = Append(up[w], [kind |-> "done", dec |-> worker[w].dec])
             \/ \E cause \in {"statistics", "drift"} :
                   up'[w] = Append(up[w], [kind |-> "error", cause |-> cause])
      <4>1. CASE \E x \in Records :
                   /\ x.pc \in {"idle", "batch"} /\ worker' = [worker EXCEPT ![w] = x]
                   /\ Send(w, [kind |-> "done", dec |-> worker[w].dec]) \/ up' = up
        BY <4>1, <1>0 DEF WorkerTypes, Send
      <4>2. CASE Refuse(w, "statistics") \/ Refuse(w, "drift")
        BY <4>2, <1>0, RefuseType
      <4>3. \A x, m : Told(x, m) \in Records => Told(x, m).pc \in {"idle", "batch"}
        BY DEF Told, Merge, Records
      <4>5. AckCases(w)
        BY <2>5, TakeAckDoes
      <4> DEFINE b == Told(worker[w], Head(down[w]))
      <4>6. \/ /\ b \in Records /\ worker' = [worker EXCEPT ![w] = b]
               /\ Send(w, [kind |-> "done", dec |-> worker[w].dec]) \/ up' = up
            \/ Refuse(w, "statistics") \/ Refuse(w, "drift")
        BY <4>5 DEF AckCases
      <4>7. b \in Records => b.pc \in {"idle", "batch"}
        BY <4>3
      <4> HIDE DEF b
      <4>q. QED
        BY <4>1, <4>2, <4>6, <4>7
    <3>4. [kind |-> "done", dec |-> worker[w].dec] \in Ups
      BY <1>0 DEF WorkerTypes, Records, Ups, Dones
    <3>6. Reported(Append(up[w], [kind |-> "done", dec |-> worker[w].dec])) => Reported(up[w])
      <4> DEFINE m == [kind |-> "done", dec |-> worker[w].dec]
      <4>1. m.kind = "done"
        OBVIOUS
      <4> HIDE DEF m
      <4>2. Reported(Append(up[w], m)) => Reported(up[w])
        BY <3>4, <4>1, <1>0, ReportedAppend DEF m
      <4>q. QED
        BY <4>2 DEF m
    <3>5. Reported(up'[w]) => Reported(up[w])
      BY <3>3, <3>6, <1>0, ErrorReportsNothing
    <3>q. QED
      BY <3>1, <3>2, <3>3, <3>5, <1>0, <1>1, ScopeMoves
  <2>6. CASE EndOfPipe(w)
    <3>1. /\ worker[w].pc \in {"born", "isolated", "idle", "exchange"}
          /\ worker'[w].pc = "finally" /\ UNCHANGED <<up, down, proc, kids>>
      BY <2>6, <1>0, StayType DEF EndOfPipe, WorkerTypes, procVars, Pcs
    <3>q. QED
      BY <3>1, <1>0, <1>1, ScopeMoves
  <2>7. CASE Finally(w)
    <3> DEFINE m == [kind |-> "cleanup_ready", clean |-> w \notin kids']
    <3>1. m \in Ups /\ (m.clean <=> w \notin kids')
      BY DEF Ups, Readies
    <3>2. Stay(w, "cleanup") /\ Send(w, m) /\ UNCHANGED <<down, proc>>
          /\ worker[w].pc = "finally" /\ (w \in kids' => w \in kids)
      BY <2>7 DEF Finally
    <3> HIDE DEF m
    <3>3. worker'[w].pc = "cleanup" /\ up'[w] = Append(up[w], m)
      BY <3>1, <3>2, <1>0, StayType, SendType DEF WorkerTypes, Pcs
    <3>4. Reported(up'[w]) => w \notin kids'
      BY <3>1, <3>2, <3>3, <1>0, ReportedAppend DEF WorkerScope
    <3>q. QED
      BY <3>2, <3>3, <3>4, <1>0, <1>1 DEF WorkerScope, CleanReply
  <2>8. CASE Leave(w)
    <3>1. UNCHANGED <<worker, up, kids>> /\ proc'[w] # "unborn"
          /\ (down'[w] = down[w] \/ (down[w] # <<>> /\ down'[w] = Tail(down[w])))
      BY <2>8, <1>0, <1>1 DEF Leave, WorkerTypes
    <3>2. Acknowledged(down'[w]) => Acknowledged(down[w])
      BY <3>1, <1>0, AcknowledgedTail
    <3>q. QED
      BY <3>1, <3>2, <1>0, <1>1, ScopeKept DEF CleanReply
  <2>9. CASE RuntimeError(w)
    <3>1. /\ worker[w].pc \in {"isolated", "batch"} /\ worker'[w].pc = "finally"
          /\ UNCHANGED <<down, proc, kids>>
          /\ up'[w] = Append(up[w], [kind |-> "error", cause |-> "runtime"])
      BY <2>9, <1>0, RefuseType DEF RuntimeError
    <3>2. Reported(up'[w]) => Reported(up[w])
      BY <3>1, <1>0, ErrorReportsNothing
    <3>q. QED
      BY <3>1, <3>2, <1>0, <1>1, ScopeMoves
  <2>10. CASE Die(w)
    BY <2>10, <1>0, <1>1, ScopeKept DEF Die, CleanReply, WorkerTypes
  <2>11. CASE Hang(w)
    BY <2>11, <1>0, <1>1, ScopeKept DEF Hang, CleanReply
  <2>q. QED
    BY <2>1, <2>2, <2>3, <2>4, <2>5, <2>6, <2>7, <2>8, <2>9, <2>10, <2>11 DEF WorkerStep
<1>q. QED
  BY <1>2, <1>3, <1>4 DEF Scopes

(* A step of the owner: workers, leaders and simulators stay as they are.  *)
LEMMA ScopesKept ==
  ASSUME Scopes, UNCHANGED <<worker, kids, replies>>, owned \subseteq owned',
         \A v \in Workers : /\ proc'[v] = "unborn" => proc[v] = "unborn"
                            /\ Acknowledged(down'[v]) => Acknowledged(down[v]) \/ v \in owned'
                            /\ Reported(up'[v]) => Reported(up[v]),
         Closing'
  PROVE  Scopes'
BY ScopeKept DEF Scopes, CleanReply

LEMMA ScopesSearch ==
  ASSUME Types, Scopes, UNCHANGED load,
         \/ \E b \in load.battles, r \in Roots : Search(b, r)
         \/ \E w \in Workers : Receive(w)
  PROVE  Scopes'
<1>0. up \in [Workers -> Seq(Ups)] /\ down \in [Workers -> Seq(Downs)]
  BY DEF Types, WorkerTypes
<1>1. ASSUME NEW b \in load.battles, NEW r \in Roots, Search(b, r) PROVE Scopes'
  <2>1. /\ mpc' \in {"failed", "searching"} /\ UNCHANGED <<owned, replies, worker, up, proc, kids>>
        /\ down' = down \/ down' = [v \in Workers |-> Append(down[v], Request(b, r))]
    BY <1>1, SearchDoes DEF procVars
  <2>2. Request(b, r) \in Downs /\ Request(b, r).kind = "start"
    BY ReadyType DEF Downs, Request
  <2>3. \A v \in Workers : Acknowledged(Append(down[v], Request(b, r))) => Acknowledged(down[v])
    BY <2>2, <1>0, AcknowledgedAppend
  <2>4. \A v \in Workers : Acknowledged(down'[v]) => Acknowledged(down[v])
    BY <2>1, <2>3
  <2>5. Closing'
    BY <2>1 DEF Closing
  <2>q. QED
    BY <2>1, <2>4, <2>5, ScopesKept
<1>2. ASSUME NEW w \in Workers, Receive(w) PROVE Scopes'
  <2>1. /\ mpc = "searching" /\ up[w] # <<>> /\ up' = [up EXCEPT ![w] = Tail(@)]
        /\ UNCHANGED <<owned, replies, worker, proc, kids>>
    BY <1>2 DEF Receive, procVars
  <2>2. mpc' \in {"failed", "searching"}
        /\ (down' = down \/ (Reply(w, Head(up[w])) \in Acks /\ Tell(w, Reply(w, Head(up[w])))))
    BY <1>2, <2>1, ReceiveDoes DEF ReceiveCases
  <2>3. \A v \in Workers : Acknowledged(down'[v]) => Acknowledged(down[v])
    <3>1. CASE Reply(w, Head(up[w])) \in Acks /\ Tell(w, Reply(w, Head(up[w])))
      <4>1. Reply(w, Head(up[w])) \in Downs /\ Reply(w, Head(up[w])).kind = "ack"
        BY <3>1 DEF Downs, Reply
      <4>2. down'[w] = Append(down[w], Reply(w, Head(up[w])))
            /\ \A v \in Workers \ {w} : down'[v] = down[v]
        BY <3>1, <4>1, <1>0, TellType
      <4>3. Acknowledged(down'[w]) => Acknowledged(down[w])
        BY <4>1, <4>2, <1>0, AcknowledgedAppend
      <4>q. QED
        BY <4>2, <4>3
    <3>q. QED
      BY <2>2, <3>1
  <2>4. \A v \in Workers : Reported(up'[v]) => Reported(up[v])
    BY <2>1, <1>0, TakeUp, ReportedTail
  <2>5. Closing'
    BY <2>2 DEF Closing
  <2>q. QED
    BY <2>1, <2>3, <2>4, <2>5, ScopesKept
<1>q. QED
  BY <1>1, <1>2

LEMMA ScopesOwner ==
  ASSUME Types, Scopes, UNCHANGED load,
         \/ Lost \/ Answer \/ Grace \/ Close \/ Expire \/ OwnerDies
         \/ \E w \in Workers : Spawn(w) \/ Startup(w) \/ Drain(w) \/ Dismiss(w) \/ Join(w)
  PROVE  Scopes'
<1>0. up \in [Workers -> Seq(Ups)] /\ down \in [Workers -> Seq(Downs)] /\ WorkerTypes
  BY DEF Types, WorkerTypes
<1>1. CASE Lost \/ OwnerDies
  <2>1. mpc' \in {"failed", "dead"}
        /\ UNCHANGED <<worker, kids, replies, owned, proc, up, down>>
    BY <1>1 DEF Lost, OwnerDies, Poison
  <2>2. Closing'
    BY <2>1 DEF Closing
  <2>q. QED
    BY <2>1, <2>2, ScopesKept
<1>2. CASE Answer
  <2>1. mpc' \in {"idle", "failed"} /\ UNCHANGED <<worker, kids, replies, owned, proc, up, down>>
    BY <1>2 DEF Answer, Poison, procVars
  <2>2. Closing'
    BY <2>1 DEF Closing
  <2>q. QED
    BY <2>1, <2>2, ScopesKept
<1>3. CASE Expire
  <2>1. UNCHANGED <<mpc, pending, dirty, worker, kids, replies, owned, proc, up, down>>
    BY <1>3 DEF Expire, ownerVars, procVars
  <2>2. Closing'
    BY <2>1, ClosingKept DEF Scopes
  <2>q. QED
    BY <2>1, <2>2, ScopesKept
<1>4. CASE Grace
  <2>1. /\ mpc' = "reaping" /\ pending' = {w \in Workers : proc[w] # "unborn"}
        /\ UNCHANGED <<worker, kids, replies, owned, proc, up, down>>
    BY <1>4 DEF Grace
  <2>2. \A v \in Workers \ pending' : proc'[v] = "unborn" /\ v \notin kids'
    BY <2>1 DEF Scopes, WorkerScope
  <2>3. Closing'
    BY <2>1, <2>2 DEF Closing
  <2>q. QED
    BY <2>1, <2>3, ScopesKept
<1>5. CASE Close
  <2>1. /\ mpc' = "closing" /\ UNCHANGED <<worker, kids, replies, owned, proc, up>>
        /\ down' = [w \in Workers |-> IF proc[w] = "live" THEN Append(down[w], Message("close"))
                                      ELSE down[w]]
    BY <1>5 DEF Close, procVars
  <2>2. \A v \in Workers : Acknowledged(Append(down[v], Message("close"))) => Acknowledged(down[v])
    BY <1>0, Plains, AcknowledgedAppend
  <2>3. \A v \in Workers : Acknowledged(down'[v]) => Acknowledged(down[v])
    BY <2>1, <2>2
  <2>4. Closing'
    BY <2>1 DEF Closing
  <2>q. QED
    BY <2>1, <2>3, <2>4, ScopesKept
<1>6. ASSUME NEW w \in Workers, Spawn(w) PROVE Scopes'
  <2>1. /\ mpc' \in {"starting", "failed"} /\ UNCHANGED <<worker, kids, replies, owned, up, down>>
        /\ \A v \in Workers : proc'[v] = "unborn" => proc[v] = "unborn"
    BY <1>6 DEF Spawn
  <2>2. Closing'
    BY <2>1 DEF Closing
  <2>q. QED
    BY <2>1, <2>2, ScopesKept
<1>7. ASSUME NEW w \in Workers, Startup(w) PROVE Scopes'
  <2>1. /\ mpc' \in {"starting", "idle", "failed"} /\ UNCHANGED <<worker, kids, replies, proc>>
        /\ up[w] # <<>> /\ up' = [up EXCEPT ![w] = Tail(@)] /\ owned \subseteq owned'
        /\ \/ down' = down
           \/ w \in owned' /\ Tell(w, Message("isolation_ack"))
    BY <1>7 DEF Startup, procVars
  <2>2. \A v \in Workers : Acknowledged(down'[v]) => Acknowledged(down[v]) \/ v \in owned'
    <3>1. CASE w \in owned' /\ Tell(w, Message("isolation_ack"))
      BY <3>1, <1>0, Plains, TellType
    <3>q. QED
      BY <2>1, <3>1
  <2>3. \A v \in Workers : Reported(up'[v]) => Reported(up[v])
    BY <2>1, <1>0, TakeUp, ReportedTail
  <2>4. Closing'
    BY <2>1 DEF Closing
  <2>q. QED
    BY <2>1, <2>2, <2>3, <2>4, ScopesKept
<1>8. ASSUME NEW w \in Workers, Drain(w) PROVE Scopes'
  <2>1. mpc' = "closing" /\ UNCHANGED <<worker, kids, proc>>
    BY <1>8 DEF Drain, procVars
  <2>2. Closing'
    BY <2>1 DEF Closing
  <2>3. CASE UNCHANGED <<owned, replies, up, down>>
    BY <2>1, <2>2, <2>3, ScopesKept
  <2>4. CASE up[w] # <<>> /\ up' = [up EXCEPT ![w] = Tail(@)]
    <3>1. /\ up'[w] = Tail(up[w]) /\ \A v \in Workers \ {w} : up'[v] = up[v]
          /\ \A v \in Workers : Reported(up'[v]) => Reported(up[v])
      BY <2>4, <1>0, TakeUp, ReportedTail
    <3>2. CASE /\ Head(up[w]).kind = "cleanup_ready" /\ UNCHANGED <<owned, down>>
               /\ replies' = replies \cup {[from |-> w, clean |-> Head(up[w]).clean]}
      <4>1. \A v \in Workers : CleanReply(v)' =>
              CleanReply(v) \/ (v = w /\ Head(up[w]).clean)
        BY <3>2 DEF CleanReply
      <4>2. Head(up[w]).clean => Reported(up[w])
        BY <2>4, <3>2, <1>0, ReportedTail
      <4>3. \A v \in Workers : Reported(up'[v]) \/ CleanReply(v)' =>
                                 Reported(up[v]) \/ CleanReply(v)
        BY <3>1, <4>1, <4>2
      <4>4. \A v \in Workers : WorkerScope(v)'
        BY <2>1, <3>2, <4>3, ScopeKept DEF Scopes
      <4>q. QED
        BY <2>2, <4>4 DEF Scopes
    <3>3. CASE owned \subseteq owned' /\ replies' = replies
               /\ (down' = down \/ (w \in owned' /\ Tell(w, Message("isolation_ack"))))
      <4>1. \A v \in Workers : Acknowledged(down'[v]) => Acknowledged(down[v]) \/ v \in owned'
        <5>1. CASE w \in owned' /\ Tell(w, Message("isolation_ack"))
          BY <5>1, <1>0, Plains, TellType
        <5>q. QED
          BY <3>3, <5>1
      <4>q. QED
        BY <2>1, <2>2, <3>1, <3>3, <4>1, ScopesKept
    <3>4. \/ /\ Head(up[w]).kind = "cleanup_ready" /\ UNCHANGED <<owned, down>>
             /\ replies' = replies \cup {[from |-> w, clean |-> Head(up[w]).clean]}
          \/ /\ owned \subseteq owned' /\ replies' = replies
             /\ (down' = down \/ (w \in owned' /\ Tell(w, Message("isolation_ack"))))
          \/ UNCHANGED <<owned, replies, up, down>>
      BY <1>8 DEF Drain
    <3>q. QED
      BY <2>3, <3>2, <3>3, <3>4
  <2>q. QED
    BY <1>8, <2>3, <2>4 DEF Drain
<1>9. ASSUME NEW w \in Workers, Dismiss(w) PROVE Scopes'
  <2>1. /\ mpc = "reaping" /\ mpc' = "joining" /\ w = Min(pending) /\ pending # {}
        /\ UNCHANGED <<pending, worker, replies, owned, up>>
        /\ \A v \in Workers \ {w} : proc'[v] = proc[v] /\ (v \in kids' => v \in kids)
        /\ kids' \subseteq kids /\ (dirty' = dirty \/ dirty' = TRUE)
        /\ \A v \in Workers : proc'[v] = "unborn" => proc[v] = "unborn"
        /\ dirty' \/ (dirty' = dirty /\ CleanReply(w))
        /\ down' = down \/ Tell(w, Message("cleanup_ack"))
    <3>1. CASE proc[w] = "live" /\ ~Forced(w)
      BY <1>9, <3>1 DEF Dismiss, Forced, CleanReply
    <3>2. CASE proc[w] = "live" /\ Forced(w)
      BY <1>9, <3>2, <1>0 DEF Dismiss, WorkerTypes
    <3>3. CASE proc[w] # "live"
      BY <1>9, <3>3 DEF Dismiss
    <3>q. QED
      BY <3>1, <3>2, <3>3
  <2>2. \A v \in Workers : Acknowledged(down'[v]) => Acknowledged(down[v])
    <3>1. CASE Tell(w, Message("cleanup_ack"))
      <4>1. /\ down'[w] = Append(down[w], Message("cleanup_ack"))
            /\ \A v \in Workers \ {w} : down'[v] = down[v]
        BY <3>1, <1>0, Plains, TellType
      <4>2. Message("cleanup_ack") \in Downs /\ Message("cleanup_ack").kind # "isolation_ack"
        BY Plains
      <4>3. Acknowledged(Append(down[w], Message("cleanup_ack"))) => Acknowledged(down[w])
        BY <4>2, <1>0, AcknowledgedAppend
      <4>q. QED
        BY <4>1, <4>3
    <3>q. QED
      BY <2>1, <3>1
  <2>3. \A v \in Workers : WorkerScope(v)'
    BY <2>1, <2>2, ScopeKept DEF Scopes, CleanReply
  <2>4. w \in pending
    <3>1. pending \in SUBSET Nat
      BY PoolAssumption DEF Types, OwnerTypes, Workers
    <3>2. \E m \in pending : \A n \in pending : m <= n
      BY <2>1, <3>1, LeastNumber
    <3>q. QED
      BY <2>1, <3>2 DEF Min
  <2>5. CleanReply(Min(pending))' = CleanReply(Min(pending))
    BY <2>1 DEF CleanReply
  <2>6. Closing'
    BY <2>1, <2>4, <2>5 DEF Closing, Scopes
  <2>q. QED
    BY <2>3, <2>6 DEF Scopes
<1>10. ASSUME NEW w \in Workers, Join(w) PROVE Scopes'
  <2>1. /\ mpc = "joining" /\ mpc' \in {"closed", "reaping"} /\ w = Min(pending)
        /\ proc' = [proc EXCEPT ![w] = "reaped"] /\ pending' = pending \ {w}
        /\ (mpc' = "closed" => pending' = {}) /\ (~dirty' => ~dirty)
        /\ UNCHANGED <<worker, kids, replies, owned, up, down>>
    BY <1>10 DEF Join
  <2>2. ~dirty' => w \notin kids
    BY <2>1 DEF Scopes, Closing, WorkerScope
  <2>3. Closing'
    BY <2>1, <2>2, <1>0 DEF Scopes, Closing, WorkerTypes
  <2>4. \A v \in Workers : proc'[v] = "unborn" => proc[v] = "unborn"
    BY <2>1, <1>0 DEF WorkerTypes
  <2>q. QED
    BY <2>1, <2>3, <2>4, ScopesKept
<1>q. QED
  BY <1>1, <1>2, <1>3, <1>4, <1>5, <1>6, <1>7, <1>8, <1>9, <1>10

LEMMA ScopesStep ==
  ASSUME Types, Scopes, [Next /\ UNCHANGED load]_vars
  PROVE  Scopes'
<1>1. CASE UNCHANGED vars
  <2>1. UNCHANGED <<mpc, pending, dirty, worker, kids, replies, owned, proc, up, down>>
    BY <1>1 DEF vars, moving, ownerVars, procVars
  <2>2. Closing'
    BY <2>1, ClosingKept DEF Scopes
  <2>q. QED
    BY <2>1, <2>2, ScopesKept
<1>2. CASE Next /\ UNCHANGED load
  BY <1>2, NextSplits, ScopesSearch, ScopesWorker, ScopesOwner
<1>q. QED
  BY <1>1, <1>2

(* Every simulator runs in a group the owner could signal, and a pool that *)
(* closed clean left none (paper_reference_parallel.py, the isolation      *)
(* handshake of the startup and _close_original_worker).                   *)
THEOREM NoSimulatorIsLostHolds == Spec => []NoSimulatorIsLost
<1>1. Types /\ Scopes => NoSimulatorIsLost
  <2> SUFFICES ASSUME Types, Scopes PROVE NoSimulatorIsLost
    OBVIOUS
  <2>1. kids \subseteq Workers
    BY DEF Types, WorkerTypes
  <2>2. kids \subseteq owned
    BY <2>1 DEF Scopes, WorkerScope
  <2>3. mpc = "closed" /\ ~dirty => kids = {}
    BY <2>1 DEF Scopes, Closing
  <2>q. QED
    BY <2>2, <2>3 DEF NoSimulatorIsLost
<1>q. QED
  BY <1>1, TypesInit, TypesStep, ScopesInit, ScopesStep, PTL DEF Spec

--------------------------------------------------------------------------------
(* The exchange.  What a snapshot in flight or last merged says of the     *)
(* master, and what a worker's locals say of what it really did.           *)

Counted(d, floor) == [s \in States |-> Total([w \in Workers |-> Prune(d[w], floor)[s]])]

Said(m, b) == [battle |-> b, version |-> m.version, floor |-> m.floor, rows |-> Sum(m),
               acked |-> m.seq]

(* An earlier statement of the master.                                     *)
Behind(snap, m, b) ==
  /\ snap \in Snaps /\ snap.version <= m.version
  /\ snap.version = m.version => snap = Said(m, b)
  /\ Within(Prune(snap.rows, m.floor), Sum(m))

(* No snapshot on its way to a worker has more than was done.              *)
Carries(q, b, c) == \A i \in 1 .. Len(q) : q[i].kind \in {"start", "ack"} =>
                                             q[i].snap.battle = b /\ Within(q[i].snap.rows, c)

(* The worker's own rows are what it did in this battle, and what it       *)
(* exported last.                                                          *)
Honest(x, d) ==
  /\ x.own = Prune(d, x.floor)
  /\ x.sent = None => x.seq = 0 /\ d = NoRows
  /\ x.sent # None => x.sent.seq = x.seq /\ Prune(x.sent.rows, x.floor) = x.own

Local(w) ==
  /\ worker[w].battle = battle => /\ Honest(worker[w], done[w])
                                  /\ Within(worker[w].view, Counted(done, 0))
  /\ worker[w].battle # battle => /\ done[w] = NoRows
                                  /\ worker[w].pc \notin {"batch", "exchange"}

Locals == \A w \in Workers : Carries(down[w], battle, Counted(done, 0)) /\ Local(w)

(* What the owner knows of a worker in a decision, and between them: the   *)
(* master has the worker's latest export, and the worker's last merge is   *)
(* behind the master.                                                      *)
Synced(w) == master.rows[w] = Prune(done[w], master.floor)
Bound(w) == /\ worker[w].battle = battle /\ worker[w].floor <= master.floor
            /\ worker[w].last # None => Behind(worker[w].last, master, battle)
Known(w) == Bound(w) /\ Synced(w) /\ master.seq[w] = worker[w].seq

At(w, pc, ups, downs) == worker[w].pc = pc /\ Len(up[w]) = ups /\ Len(down[w]) = downs
Searches(w) == worker[w].dec = decision /\ worker[w].root = root /\ worker[w].floor = master.floor
Informs(m) == m.dec = decision /\ m.snap.floor = master.floor /\ Behind(m.snap, master, battle)

Finishes(w) == At(w, "idle", 0, 0) /\ Known(w)
Starting(w) ==
  /\ At(w, "idle", 0, 1) /\ Synced(w)
  /\ LET m == down[w][1]
         x == Bind(worker[w], m.snap)
     IN /\ m.kind = "start" /\ m.root = root /\ Informs(m)
        /\ Mergeable(x, w, m.snap) /\ master.seq[w] = x.seq
Batching(w) == At(w, "batch", 0, 0) /\ Known(w) /\ Searches(w)
Updating(w) ==
  /\ At(w, "exchange", 1, 0) /\ Bound(w) /\ Searches(w)
  /\ LET m == up[w][1]
     IN /\ m.kind = "update" /\ m.dec = decision /\ worker[w].sent = m.update
        /\ m.update.battle = battle
        /\ m.update.seq = worker[w].seq /\ m.update.seq = master.seq[w] + 1
        /\ m.update.rows = Prune(done[w], master.floor)
        /\ Within(master.rows[w], m.update.rows)
        /\ m.update.rows[root] = master.rows[w][root] + m.batch.trajectories
Hearing(w) ==
  /\ At(w, "exchange", 0, 1) /\ Searches(w) /\ Synced(w)
  /\ worker[w].battle = battle /\ master.seq[w] = worker[w].seq
  /\ LET m == down[w][1]
     IN m.kind = "ack" /\ Informs(m) /\ Mergeable(worker[w], w, m.snap)
Finishing(w) == /\ At(w, "idle", 1, 0) /\ Known(w)
                /\ up[w][1].kind = "done" /\ up[w][1].dec = decision
Failing(w) == /\ worker[w].pc \in {"finally", "cleanup"} /\ down[w] = <<>>
              /\ up[w] # <<>> /\ up[w][1].kind = "error" /\ up[w][1].cause = "runtime"
              /\ Within(master.rows[w], done[w])

Busy(w) == \/ Starting(w) \/ Batching(w) \/ Updating(w) \/ Hearing(w) \/ Finishing(w)
           \/ Failing(w)

Decisions ==
  /\ root \in Roots /\ answer = None /\ master.floor = Faints[root]
  /\ Sum(master)[root] = before + completed
  /\ \A w \in Workers : IF w \in pending THEN Busy(w) ELSE Finishes(w)

(* A worker that starts, and the startup.                                  *)
Born(w) == \/ At(w, "born", 0, 0)
           \/ At(w, "isolated", 1, 0) /\ up[w][1].kind = "isolation"
           \/ At(w, "isolated", 0, 1)
           \/ At(w, "idle", 1, 0) /\ up[w][1].kind = "boot"
           \/ /\ worker[w].pc \in {"finally", "cleanup"} /\ up[w] # <<>>
              /\ up[w][1].kind = "error"
Unbound(w) == worker[w] = [Newborn EXCEPT !.pc = worker[w].pc]

Startups ==
  /\ battle = None /\ master = Fresh /\ done = [w \in Workers |-> NoRows] /\ answer = None
  /\ pending # {}
  /\ \A w \in Workers : Unbound(w) /\ IF w \in pending THEN Born(w) ELSE At(w, "idle", 0, 0)

(* Since an answer nothing has been sent or searched.                      *)
Answered == /\ mpc \in {"idle", "dead"} /\ answer.visits = Counted(done, master.floor)
            /\ \A w \in Workers : /\ down[w] = <<>>
                                  /\ worker[w].pc \in {"idle", "finally", "cleanup"}

Exchanges ==
  /\ Locals
  /\ mpc = "starting" => Startups
  /\ mpc = "idle" => \A w \in Workers : Finishes(w)
  /\ mpc = "searching" => Decisions
  /\ answer # None => Answered
  /\ why \notin {"statistics", "root", "drift"}

(* Pruning, sums and counts.                                               *)
LEMMA PruneTwice ==
  ASSUME NEW rows \in Rows, NEW a \in Nat, NEW b \in Nat, a <= b
  PROVE  Prune(Prune(rows, a), b) = Prune(rows, b)
<1>1. \A s \in States : Faints[s] \in Nat /\ (Faints[s] >= b => Faints[s] >= a)
  BY PoolAssumption
<1>q. QED
  BY <1>1 DEF Prune

LEMMA PruneNothing ==
  ASSUME NEW floor \in Nat
  PROVE  Prune(NoRows, floor) = NoRows
BY DEF Prune, NoRows

LEMMA PruneAll ==
  ASSUME NEW rows \in Rows
  PROVE  Prune(rows, 0) = rows
<1>1. \A s \in States : Faints[s] >= 0
  BY PoolAssumption
<1>q. QED
  BY <1>1 DEF Prune, Rows

LEMMA PruneWithin ==
  ASSUME NEW rows \in Rows, NEW floor \in Nat
  PROVE  Within(Prune(rows, floor), rows)
BY DEF Prune, Within, Rows

LEMMA PruneMonotone ==
  ASSUME NEW a \in Rows, NEW b \in Rows, NEW floor \in Nat, Within(a, b)
  PROVE  Within(Prune(a, floor), Prune(b, floor))
BY DEF Prune, Within, Rows

LEMMA WithinTransitive ==
  ASSUME NEW a \in Rows, NEW b \in Rows, NEW c \in Rows, Within(a, b), Within(b, c)
  PROVE  Within(a, c)
BY DEF Within, Rows

LEMMA SumPart ==
  ASSUME NEW m \in Masters, NEW w \in Workers
  PROVE  Within(m.rows[w], Sum(m))
<1> SUFFICES ASSUME NEW s \in States PROVE m.rows[w][s] <= Sum(m)[s]
  BY DEF Within
<1> DEFINE f == [v \in Workers |-> m.rows[v][s]]
<1>1. f \in Counts
  BY ColumnType DEF Masters
<1>2. Sum(m)[s] = Total(f) /\ f[w] = m.rows[w][s]
  BY DEF Sum
<1> HIDE DEF f
<1>q. QED
  BY <1>1, <1>2, TotalPart

LEMMA SumMonotone ==
  ASSUME NEW m \in Masters, NEW n \in Masters, \A w \in Workers : Within(m.rows[w], n.rows[w])
  PROVE  Within(Sum(m), Sum(n))
<1> SUFFICES ASSUME NEW s \in States PROVE Sum(m)[s] <= Sum(n)[s]
  BY DEF Within
<1> DEFINE f == [v \in Workers |-> m.rows[v][s]]
           h == [v \in Workers |-> n.rows[v][s]]
<1>1. f \in Counts /\ h \in Counts
  BY ColumnType DEF Masters
<1>2. Sum(m)[s] = Total(f) /\ Sum(n)[s] = Total(h)
  BY DEF Sum
<1>3. \A v \in Workers : f[v] <= h[v]
  BY DEF Within
<1> HIDE DEF f, h
<1>q. QED
  BY <1>1, <1>2, <1>3, TotalMonotone

LEMMA SumGrows ==
  ASSUME NEW m \in Masters, NEW n \in Masters, NEW w \in Workers, NEW s \in States, NEW k \in Nat,
         n.rows[w][s] = m.rows[w][s] + k, \A v \in Workers \ {w} : n.rows[v] = m.rows[v]
  PROVE  Sum(n)[s] = Sum(m)[s] + k
<1> DEFINE f == [v \in Workers |-> m.rows[v][s]]
           h == [v \in Workers |-> n.rows[v][s]]
<1>1. f \in Counts /\ h \in Counts
  BY ColumnType DEF Masters
<1>2. Sum(m)[s] = Total(f) /\ Sum(n)[s] = Total(h)
  BY DEF Sum
<1>3. h[w] = f[w] + k /\ \A v \in Workers \ {w} : h[v] = f[v]
  OBVIOUS
<1> HIDE DEF f, h
<1>q. QED
  BY <1>1, <1>2, <1>3, TotalGrows

LEMMA CountedType ==
  ASSUME NEW d \in [Workers -> Rows], NEW floor \in Nat
  PROVE  Counted(d, floor) \in Rows
<1>1. ASSUME NEW s \in States PROVE Total([w \in Workers |-> Prune(d[w], floor)[s]]) \in Nat
  <2> DEFINE p == [w \in Workers |-> Prune(d[w], floor)]
             f == [w \in Workers |-> p[w][s]]
  <2>1. p \in [Workers -> Rows]
    BY PruneType
  <2>2. f \in Counts
    <3> HIDE DEF p
    <3>q. QED
      BY <2>1, ColumnType
  <2>3. f = [w \in Workers |-> Prune(d[w], floor)[s]]
    OBVIOUS
  <2>q. QED
    BY <2>2, <2>3, TotalType
<1>q. QED
  BY <1>1 DEF Counted, Rows

(* A master that has everyone's latest export has counted everything.      *)
LEMMA SumIsCounted ==
  ASSUME NEW m \in Masters, NEW d \in [Workers -> Rows],
         \A w \in Workers : m.rows[w] = Prune(d[w], m.floor)
  PROVE  Sum(m) = Counted(d, m.floor)
<1>1. \A s \in States : [w \in Workers |-> m.rows[w][s]]
                          = [w \in Workers |-> Prune(d[w], m.floor)[s]]
  OBVIOUS
<1>q. QED
  BY <1>1 DEF Sum, Counted

(* Counts of the visits themselves.                                        *)
LEMMA CountedAll ==
  ASSUME NEW d \in [Workers -> Rows]
  PROVE  Counted(d, 0) = [s \in States |-> Total([w \in Workers |-> d[w][s]])]
<1>1. \A w \in Workers : Prune(d[w], 0) = d[w]
  BY PruneAll
<1>2. \A s \in States : [w \in Workers |-> Prune(d[w], 0)[s]] = [w \in Workers |-> d[w][s]]
  BY <1>1
<1>q. QED
  BY <1>2 DEF Counted

LEMMA SumWithinCounted ==
  ASSUME NEW m \in Masters, NEW d \in [Workers -> Rows],
         \A w \in Workers : Within(m.rows[w], d[w])
  PROVE  Within(Sum(m), Counted(d, 0))
<1> SUFFICES ASSUME NEW s \in States PROVE Sum(m)[s] <= Counted(d, 0)[s]
  BY DEF Within
<1> DEFINE f == [v \in Workers |-> m.rows[v][s]]
           h == [v \in Workers |-> d[v][s]]
<1>1. f \in Counts /\ h \in Counts
  BY ColumnType DEF Masters
<1>2. Sum(m)[s] = Total(f) /\ Counted(d, 0)[s] = Total(h)
  BY CountedAll DEF Sum
<1>3. \A v \in Workers : f[v] <= h[v]
  BY DEF Within
<1> HIDE DEF f, h
<1>q. QED
  BY <1>1, <1>2, <1>3, TotalMonotone

LEMMA CountedGrows ==
  ASSUME NEW d \in [Workers -> Rows], NEW w \in Workers, NEW inc \in Rows
  PROVE  Counted([d EXCEPT ![w] = Plus(@, inc)], 0) = Plus(Counted(d, 0), inc)
<1> DEFINE e == [d EXCEPT ![w] = Plus(@, inc)]
<1>1. e \in [Workers -> Rows]
  BY PlusType
<1>2. ASSUME NEW s \in States PROVE Counted(e, 0)[s] = Counted(d, 0)[s] + inc[s]
  <2> DEFINE f == [v \in Workers |-> d[v][s]]
             h == [v \in Workers |-> e[v][s]]
  <2>1. h[w] = f[w] + inc[s] /\ (\A v \in Workers \ {w} : h[v] = f[v]) /\ inc[s] \in Nat
    BY DEF Plus, Rows
  <2> HIDE DEF e
  <2>2. f \in Counts /\ h \in Counts
    BY <1>1, ColumnType
  <2>3. Counted(d, 0)[s] = Total(f) /\ Counted(e, 0)[s] = Total(h)
    BY <1>1, CountedAll
  <2> HIDE DEF f, h
  <2>q. QED
    BY <2>1, <2>2, <2>3, TotalGrows
<1> HIDE DEF e
<1>3. Counted(e, 0) = [s \in States |-> Counted(e, 0)[s]]
  BY DEF Counted
<1>4. Counted(e, 0) = Plus(Counted(d, 0), inc)
  BY <1>2, <1>3 DEF Plus
<1>q. QED
  BY <1>4 DEF e

(* What the master says is behind it, and stays so as it takes updates and *)
(* passes faints.                                                          *)
LEMMA SaidType ==
  ASSUME NEW m \in Masters, NEW b \in Battles
  PROVE  /\ Said(m, b) \in Snaps
         /\ Said(m, b).battle = b /\ Said(m, b).floor = m.floor /\ Said(m, b).rows = Sum(m)
         /\ Said(m, b).version = m.version /\ Said(m, b).acked = m.seq
BY SumType DEF Said, Snaps, Masters

LEMMA SaidIsBehind ==
  ASSUME NEW m \in Masters, NEW b \in Battles
  PROVE  Behind(Said(m, b), m, b)
<1>1. m.version \in Nat /\ m.floor \in Nat /\ Sum(m) \in Rows
  BY SumType DEF Masters
<1>2. Within(Prune(Sum(m), m.floor), Sum(m))
  BY <1>1, PruneWithin
<1>q. QED
  BY <1>1, <1>2, SaidType DEF Behind

LEMMA BehindLater ==
  ASSUME NEW m \in Masters, NEW n \in Masters, NEW b, NEW snap, Behind(snap, m, b),
         n.version = m.version + 1, Within(Prune(snap.rows, n.floor), Sum(n))
  PROVE  Behind(snap, n, b)
<1>1. m.version \in Nat /\ snap.version \in Nat
  BY DEF Masters, Behind, Snaps
<1>2. snap.version <= n.version /\ snap.version # n.version
  BY <1>1 DEF Behind
<1>q. QED
  BY <1>2 DEF Behind

LEMMA LatestIs ==
  ASSUME NEW m \in Masters, NEW w \in Workers, NEW u \in Exports
  PROVE  /\ Latest(m, w, u) \in Masters
         /\ Latest(m, w, u).floor = m.floor /\ Latest(m, w, u).version = m.version + 1
         /\ Latest(m, w, u).rows[w] = Prune(u.rows, m.floor) /\ Latest(m, w, u).seq[w] = u.seq
         /\ \A v \in Workers \ {w} : /\ Latest(m, w, u).rows[v] = m.rows[v]
                                     /\ Latest(m, w, u).seq[v] = m.seq[v]
<1>1. Prune(u.rows, m.floor) \in Rows /\ u.seq \in Nat
  BY PruneType DEF Masters, Exports
<1>2. Latest(m, w, u) = [floor |-> m.floor, version |-> m.version + 1,
                         rows |-> [m.rows EXCEPT ![w] = Prune(u.rows, m.floor)],
                         seq |-> [m.seq EXCEPT ![w] = u.seq]]
  <2>1. /\ m.rows \in [Workers -> Rows] /\ m.seq \in [Workers -> Nat]
        /\ m = [floor |-> m.floor, version |-> m.version, rows |-> m.rows, seq |-> m.seq]
    BY DEF Masters
  <2> DEFINE a == Prune(u.rows, m.floor)
  <2>2. Latest(m, w, u) = [m EXCEPT !.rows = [m.rows EXCEPT ![w] = a],
                                    !.seq = [m.seq EXCEPT ![w] = u.seq],
                                    !.version = m.version + 1]
    BY <2>1 DEF Latest
  <2>q. QED
    BY <2>1, <2>2
<1>3. m.rows \in [Workers -> Rows] /\ m.seq \in [Workers -> Nat] /\ m.floor \in Nat
      /\ m.version \in Nat
  BY DEF Masters
<1>q. QED
  BY <1>1, <1>2, <1>3 DEF Masters

LEMMA LatestSum ==
  ASSUME NEW m \in Masters, NEW w \in Workers, NEW u \in Exports,
         Within(m.rows[w], Prune(u.rows, m.floor))
  PROVE  Within(Sum(m), Sum(Latest(m, w, u)))
<1>1. Latest(m, w, u) \in Masters
  BY LatestIs
<1>2. \A v \in Workers : Within(m.rows[v], Latest(m, w, u).rows[v])
  <2>1. \A v \in Workers : Within(m.rows[v], m.rows[v])
    BY DEF Within, Masters, Rows
  <2>q. QED
    BY <2>1, LatestIs
<1>q. QED
  BY <1>1, <1>2, SumMonotone

LEMMA BehindLatest ==
  ASSUME NEW m \in Masters, NEW w \in Workers, NEW u \in Exports,
         Within(m.rows[w], Prune(u.rows, m.floor)), NEW b, NEW snap, Behind(snap, m, b)
  PROVE  Behind(snap, Latest(m, w, u), b)
<1> DEFINE n == Latest(m, w, u)
<1>1. n \in Masters /\ n.floor = m.floor /\ n.version = m.version + 1 /\ m.floor \in Nat
  BY LatestIs DEF Masters
<1>2. Within(Sum(m), Sum(n))
  BY LatestSum
<1>3. Within(Prune(snap.rows, m.floor), Sum(m)) /\ snap.rows \in Rows
  BY DEF Behind, Snaps
<1> HIDE DEF n
<1>4. Prune(snap.rows, m.floor) \in Rows /\ Sum(m) \in Rows /\ Sum(n) \in Rows
  BY <1>1, <1>3, PruneType, SumType
<1>5. Within(Prune(snap.rows, n.floor), Sum(n))
  BY <1>1, <1>2, <1>3, <1>4, WithinTransitive
<1>6. Behind(snap, n, b)
  BY <1>1, <1>5, BehindLater
<1>q. QED
  BY <1>6 DEF n

LEMMA AdvanceIs ==
  ASSUME NEW m \in Masters, NEW floor \in Nat, m.floor <= floor, floor # m.floor
  PROVE  /\ Advance(m, floor) \in Masters /\ Advance(m, floor).floor = floor
         /\ Advance(m, floor).version = m.version + 1 /\ Advance(m, floor).seq = m.seq
         /\ \A w \in Workers : Advance(m, floor).rows[w] = Prune(m.rows[w], floor)
<1>1. m = [floor |-> m.floor, version |-> m.version, rows |-> m.rows, seq |-> m.seq]
  BY DEF Masters
<1>2. Advance(m, floor) = [floor |-> floor, version |-> m.version + 1,
                           rows |-> [w \in Workers |-> Prune(m.rows[w], floor)], seq |-> m.seq]
  BY <1>1 DEF Advance
<1>q. QED
  BY <1>2, AdvanceType

LEMMA AdvanceSum ==
  ASSUME NEW m \in Masters, NEW floor \in Nat, m.floor <= floor, floor # m.floor
  PROVE  Sum(Advance(m, floor)) = Prune(Sum(m), floor)
<1> DEFINE n == Advance(m, floor)
<1>1. n \in Masters /\ \A w \in Workers : n.rows[w] = Prune(m.rows[w], floor)
  BY AdvanceIs
<1> HIDE DEF n
<1>2. ASSUME NEW s \in States, Faints[s] >= floor PROVE Sum(n)[s] = Sum(m)[s]
  <2>1. [w \in Workers |-> n.rows[w][s]] = [w \in Workers |-> m.rows[w][s]]
    BY <1>1, <1>2 DEF Prune
  <2>q. QED
    BY <2>1 DEF Sum
<1>3. ASSUME NEW s \in States, ~(Faints[s] >= floor) PROVE Sum(n)[s] = 0
  <2> DEFINE f == [w \in Workers |-> n.rows[w][s]]
             z == [w \in Workers |-> 0]
  <2>1. \A w \in Workers : f[w] = 0
    BY <1>1, <1>3 DEF Prune
  <2>2. Sum(n)[s] = Total(f) /\ f = z
    BY <2>1 DEF Sum
  <2>3. z \in Counts
    BY DEF Counts
  <2>4. PICK g \in [0 .. N -> Nat] : /\ g[0] = 0 /\ Total(z) = g[N]
                                     /\ \A i \in 1 .. N : g[i] = g[i - 1] + z[i]
    BY <2>3, TotalOf
  <2> DEFINE S == {i \in 0 .. N : g[i] = 0}
  <2>5. 0 \in S /\ N \in 0 .. N
    BY <2>4, PoolAssumption
  <2>6. ASSUME NEW i \in 0 .. N, i < N, i \in S PROVE i + 1 \in S
    <3>1. i + 1 \in 1 .. N /\ (i + 1) - 1 = i /\ i + 1 \in 0 .. N /\ i + 1 \in Workers
      BY <2>6, PoolAssumption DEF Workers
    <3>2. g[i + 1] = g[i] + z[i + 1] /\ z[i + 1] = 0 /\ g[i] = 0
      BY <3>1, <2>4, <2>6
    <3>q. QED
      BY <3>1, <3>2
  <2>7. \A i \in 0 .. N : i \in S
    <3> HIDE DEF S
    <3>q. QED
      BY <2>5, <2>6, UpToN
  <2>q. QED
    BY <2>2, <2>4, <2>5, <2>7
<1>4. Sum(n) = [s \in States |-> Sum(n)[s]]
  BY DEF Sum
<1>5. Sum(n) = Prune(Sum(m), floor)
  BY <1>2, <1>3, <1>4 DEF Prune
<1>q. QED
  BY <1>5 DEF n

LEMMA BehindAdvance ==
  ASSUME NEW m \in Masters, NEW floor \in Nat, m.floor <= floor, NEW b, NEW snap,
         Behind(snap, m, b)
  PROVE  Behind(snap, Advance(m, floor), b)
<1>1. CASE floor = m.floor
  BY <1>1 DEF Advance
<1>2. CASE floor # m.floor
  <2> DEFINE n == Advance(m, floor)
  <2>1. n \in Masters /\ n.floor = floor /\ n.version = m.version + 1 /\ m.floor \in Nat
        /\ Sum(n) = Prune(Sum(m), floor)
    BY <1>2, AdvanceIs, AdvanceSum DEF Masters
  <2>2. Within(Prune(snap.rows, m.floor), Sum(m)) /\ snap.rows \in Rows
    BY DEF Behind, Snaps
  <2> HIDE DEF n
  <2>3. Prune(Prune(snap.rows, m.floor), floor) = Prune(snap.rows, floor)
    BY <2>1, <2>2, PruneTwice
  <2>4. Within(Prune(Prune(snap.rows, m.floor), floor), Prune(Sum(m), floor))
    BY <2>1, <2>2, PruneType, SumType, PruneMonotone
  <2>5. Within(Prune(snap.rows, n.floor), Sum(n))
    BY <2>1, <2>3, <2>4
  <2>6. Behind(snap, n, b)
    BY <2>1, <2>5, BehindLater
  <2>q. QED
    BY <2>6 DEF n
<1>q. QED
  BY <1>1, <1>2

(* A worker that did what it says can merge what the master says now.      *)
LEMMA MergesTheMaster ==
  ASSUME NEW x \in Records, NEW m \in Masters, NEW w \in Workers, NEW d \in Rows,
         NEW b \in Battles, Honest(x, d), x.battle = b, x.floor <= m.floor,
         x.last # None => Behind(x.last, m, b),
         m.rows[w] = Prune(d, m.floor), m.seq[w] = x.seq
  PROVE  Mergeable(x, w, Said(m, b))
<1>1. /\ m.floor \in Nat /\ m.version \in Nat /\ x.floor \in Nat
      /\ x.sent # None => x.sent \in Exports /\ x.sent.rows \in Rows
  BY DEF Masters, Records, Exports
<1>2. Prune(x.own, m.floor) = m.rows[w]
  BY <1>1, PruneTwice DEF Honest
<1>3. ASSUME x.last # None
      PROVE  /\ m.version >= x.last.version
             /\ m.version = x.last.version => Said(m, b) = x.last
             /\ Within(Prune(x.last.rows, m.floor), Sum(m))
  <2>1. Behind(x.last, m, b) /\ x.last.version \in Nat
    BY <1>3 DEF Behind, Snaps
  <2>q. QED
    BY <2>1, <1>1 DEF Behind
<1>4. m.rows[w] # NoRows => x.sent # None
  <2>1. x.sent = None => d = NoRows
    BY DEF Honest
  <2>2. x.sent = None => m.rows[w] = NoRows
    BY <1>1, <2>1, PruneNothing
  <2>q. QED
    BY <2>2
<1>5. x.sent # None => m.rows[w] = Prune(x.sent.rows, m.floor)
  <2> SUFFICES ASSUME x.sent # None PROVE m.rows[w] = Prune(x.sent.rows, m.floor)
    OBVIOUS
  <2>1. Prune(Prune(x.sent.rows, x.floor), m.floor) = Prune(x.sent.rows, m.floor)
    BY <1>1, PruneTwice
  <2>2. Prune(x.sent.rows, x.floor) = x.own
    BY DEF Honest
  <2>q. QED
    BY <1>2, <2>1, <2>2
<1>6. x.sent # None => m.seq[w] = x.sent.seq
  BY DEF Honest
<1>7. Within(m.rows[w], Sum(m))
  BY SumPart
<1> DEFINE snap == Said(m, b)
<1>8. snap.battle = b /\ snap.floor = m.floor /\ snap.rows = Sum(m)
      /\ snap.version = m.version /\ snap.acked = m.seq
  BY SaidType
<1> HIDE DEF snap
<1>9. Mergeable(x, w, snap)
  BY <1>1, <1>2, <1>3, <1>4, <1>5, <1>6, <1>7, <1>8 DEF Mergeable, snap
<1>q. QED
  BY <1>9 DEF snap

(* A worker stays honest when it merges and when it searches.              *)
LEMMA HonestMerge ==
  ASSUME NEW x \in Records, NEW snap \in Snaps, NEW d \in Rows, Honest(x, d),
         snap.floor >= x.floor
  PROVE  Honest(Merge(x, snap), d)
<1>1. /\ x.floor \in Nat /\ snap.floor \in Nat
      /\ x.sent # None => x.sent.rows \in Rows
  BY DEF Records, Snaps, Exports
<1>2. Merge(x, snap).own = Prune(x.own, snap.floor) /\ Merge(x, snap).floor = snap.floor
      /\ Merge(x, snap).sent = x.sent /\ Merge(x, snap).seq = x.seq
  BY DEF Merge, Records
<1>3. Prune(x.own, snap.floor) = Prune(d, snap.floor)
  BY <1>1, PruneTwice DEF Honest
<1>4. x.sent # None => Prune(x.sent.rows, snap.floor) = Prune(x.own, snap.floor)
  <2> SUFFICES ASSUME x.sent # None
               PROVE  Prune(x.sent.rows, snap.floor) = Prune(x.own, snap.floor)
    OBVIOUS
  <2>1. Prune(Prune(x.sent.rows, x.floor), snap.floor) = Prune(x.sent.rows, snap.floor)
    BY <1>1, PruneTwice
  <2>q. QED
    BY <2>1 DEF Honest
<1>q. QED
  BY <1>2, <1>3, <1>4 DEF Honest

LEMMA BindHonest ==
  ASSUME NEW x \in Records, NEW snap \in Snaps, NEW d \in Rows,
         x.battle = snap.battle => Honest(x, d), x.battle # snap.battle => d = NoRows
  PROVE  Honest(Bind(x, snap), d) /\ Bind(x, snap).battle = snap.battle
<1>1. CASE x.battle = snap.battle
  BY <1>1 DEF Bind
<1>2. CASE x.battle # snap.battle
  <2>1. Bind(x, snap) = [Newborn EXCEPT !.pc = x.pc, !.battle = snap.battle] /\ d = NoRows
    BY <1>2 DEF Bind
  <2>2. Prune(NoRows, 0) = NoRows
    BY PruneNothing
  <2>q. QED
    BY <2>1, <2>2 DEF Honest, Newborn
<1>q. QED
  BY <1>1, <1>2

(* What fits behind a message, before it and with more done.               *)
Fits(m, b, c) == m.kind \in {"start", "ack"} => m.snap.battle = b /\ Within(m.snap.rows, c)

LEMMA CarriesAppend ==
  ASSUME NEW q \in Seq(Downs), NEW m \in Downs, NEW b, NEW c, Carries(q, b, c), Fits(m, b, c)
  PROVE  Carries(Append(q, m), b, c)
<1> SUFFICES ASSUME NEW i \in 1 .. Len(Append(q, m)), Append(q, m)[i].kind \in {"start", "ack"}
             PROVE  /\ Append(q, m)[i].snap.battle = b
                    /\ Within(Append(q, m)[i].snap.rows, c)
  BY DEF Carries
<1>1. CASE i = Len(q) + 1
  BY <1>1 DEF Fits
<1>2. CASE i # Len(q) + 1
  <2>1. i \in 1 .. Len(q) /\ Append(q, m)[i] = q[i]
    BY <1>2
  <2>q. QED
    BY <2>1 DEF Carries
<1>q. QED
  BY <1>1, <1>2

LEMMA CarriesTail ==
  ASSUME NEW q \in Seq(Downs), q # <<>>, NEW b, NEW c, Carries(q, b, c)
  PROVE  Carries(Tail(q), b, c) /\ Fits(Head(q), b, c)
<1>1. 1 \in 1 .. Len(q) /\ Head(q) = q[1]
  OBVIOUS
<1>2. ASSUME NEW i \in 1 .. Len(Tail(q)), Tail(q)[i].kind \in {"start", "ack"}
      PROVE  Tail(q)[i].snap.battle = b /\ Within(Tail(q)[i].snap.rows, c)
  <2>1. i + 1 \in 1 .. Len(q) /\ Tail(q)[i] = q[i + 1]
    OBVIOUS
  <2>q. QED
    BY <1>2, <2>1 DEF Carries
<1>q. QED
  BY <1>1, <1>2 DEF Carries, Fits

LEMMA CarriesMore ==
  ASSUME NEW q \in Seq(Downs), NEW b, NEW c \in Rows, NEW e \in Rows, Within(c, e),
         Carries(q, b, c)
  PROVE  Carries(q, b, e)
<1> SUFFICES ASSUME NEW i \in 1 .. Len(q), q[i].kind \in {"start", "ack"}
             PROVE  q[i].snap.battle = b /\ Within(q[i].snap.rows, e)
  BY DEF Carries
<1>1. q[i] \in Downs
  OBVIOUS
<1>2. q[i].snap.rows \in Rows
  BY <1>1, DownKinds DEF Starts, Acks, Snaps
<1>3. q[i].snap.battle = b /\ Within(q[i].snap.rows, c)
  BY DEF Carries
<1>q. QED
  BY <1>2, <1>3, WithinTransitive

(* What a worker's record is after it began, was told and searched.        *)
LEMMA BegunIs ==
  ASSUME NEW x \in Records, NEW m \in Starts
  PROVE  LET y == Begun(x, m)
         IN /\ y.pc = "batch" /\ y.dec = m.dec /\ y.root = m.root /\ y.battle = x.battle
            /\ y.own = Prune(x.own, m.snap.floor) /\ y.floor = m.snap.floor
            /\ y.view = m.snap.rows /\ y.last = m.snap /\ y.sent = x.sent /\ y.seq = x.seq
BY DEF Begun, Merge, Records

LEMMA ToldIs ==
  ASSUME NEW x \in Records, NEW m \in Acks
  PROVE  LET y == Told(x, m)
         IN /\ y.pc = (IF m.limit = 0 THEN "idle" ELSE "batch")
            /\ y.dec = x.dec /\ y.root = x.root /\ y.battle = x.battle
            /\ y.own = Prune(x.own, m.snap.floor) /\ y.floor = m.snap.floor
            /\ y.view = m.snap.rows /\ y.last = m.snap /\ y.sent = x.sent /\ y.seq = x.seq
BY DEF Told, Merge, Records

LEMMA SearchedIs ==
  ASSUME NEW w \in Workers, worker[w] \in Records, NEW inc \in Rows
  PROVE  LET y == Searched(w, inc) x == worker[w]
         IN /\ y.pc = "exchange" /\ y.dec = x.dec /\ y.root = x.root /\ y.battle = x.battle
            /\ y.own = Plus(x.own, inc) /\ y.floor = x.floor /\ y.view = Plus(x.view, inc)
            /\ y.last = x.last /\ y.sent = Export(w, inc) /\ y.seq = x.seq + 1
BY DEF Searched, Records

LEMMA ExportIs ==
  ASSUME NEW w \in Workers, NEW inc \in Rows
  PROVE  /\ Export(w, inc).battle = worker[w].battle /\ Export(w, inc).seq = worker[w].seq + 1
         /\ Export(w, inc).rows = Plus(worker[w].own, inc)
BY DEF Export

LEMMA HonestSame ==
  ASSUME NEW x, NEW y, NEW d, Honest(x, d),
         y.own = x.own, y.floor = x.floor, y.sent = x.sent, y.seq = x.seq
  PROVE  Honest(y, d)
BY DEF Honest

LEMMA HonestSearch ==
  ASSUME NEW w \in Workers, worker[w] \in Records, NEW d \in Rows, Honest(worker[w], d),
         NEW k \in Nat, NEW inc \in Visits(w, k), Export(w, inc) \in Exports
  PROVE  /\ Honest(Searched(w, inc), Plus(d, inc))
         /\ Plus(worker[w].own, inc) = Prune(Plus(d, inc), worker[w].floor)
<1> DEFINE x == worker[w]
<1>1. inc \in Rows /\ x.floor \in Nat /\ x.own \in Rows /\ x.seq \in Nat
  BY VisitsType DEF Records
<1>2. Plus(x.own, inc) = Prune(Plus(d, inc), x.floor)
  <2>1. ASSUME NEW s \in States
        PROVE  x.own[s] + inc[s] = IF Faints[s] >= x.floor THEN d[s] + inc[s] ELSE 0
    <3>1. Faints[s] \in Nat /\ inc[s] \in Nat /\ d[s] \in Nat
      BY <1>1, PoolAssumption DEF Rows
    <3>2. x.own[s] = IF Faints[s] >= x.floor THEN d[s] ELSE 0
      BY DEF Honest, Prune
    <3>3. Faints[s] < x.floor => inc[s] = 0
      BY DEF Visits
    <3> HIDE DEF x
    <3>q. QED
      BY <1>1, <3>1, <3>2, <3>3
  <2>q. QED
    BY <2>1 DEF Plus, Prune
<1>3. Plus(d, inc) \in Rows
  BY <1>1, PlusType
<1>4. Prune(Plus(x.own, inc), x.floor) = Plus(x.own, inc)
  BY <1>1, <1>2, <1>3, PruneTwice
<1>5. Export(w, inc) # None
  BY PoolAssumption
<1> DEFINE y == Searched(w, inc)
<1>6. /\ y.own = Plus(x.own, inc) /\ y.floor = x.floor /\ y.sent = Export(w, inc)
      /\ y.seq = x.seq + 1
  BY <1>1, SearchedIs
<1>7. Export(w, inc).seq = x.seq + 1 /\ Export(w, inc).rows = Plus(x.own, inc)
  BY <1>1, ExportIs
<1> HIDE DEF x, y
<1>8. Honest(y, Plus(d, inc))
  BY <1>2, <1>4, <1>5, <1>6, <1>7 DEF Honest
<1>q. QED
  BY <1>2, <1>8 DEF x, y

--------------------------------------------------------------------------------
(* Every step of a worker keeps its locals, and everyone else's, true.     *)

LEMMA LocalStays ==
  ASSUME Types, NEW w \in Workers, Local(w), UNCHANGED <<battle, done>>,
         \/ worker'[w] = worker[w]
         \/ \E l \in Pcs \ {"batch", "exchange"} : worker'[w] = [worker[w] EXCEPT !.pc = l]
  PROVE  Local(w)'
<1>1. CASE worker'[w] = worker[w]
  BY <1>1 DEF Local
<1>2. ASSUME NEW l \in Pcs \ {"batch", "exchange"}, worker'[w] = [worker[w] EXCEPT !.pc = l]
      PROVE  Local(w)'
  <2> DEFINE x == worker[w]
             y == worker'[w]
  <2>1. /\ y.battle = x.battle /\ y.own = x.own /\ y.floor = x.floor /\ y.sent = x.sent
        /\ y.seq = x.seq /\ y.view = x.view /\ y.pc = l
    BY <1>2 DEF Types, WorkerTypes, Records
  <2>2. x.battle = battle => Honest(x, done[w]) /\ Within(x.view, Counted(done, 0))
    BY DEF Local
  <2>3. x.battle # battle => done[w] = NoRows
    BY DEF Local
  <2> HIDE DEF x, y
  <2>4. y.battle = battle => Honest(y, done[w]) /\ Within(y.view, Counted(done, 0))
    BY <2>1, <2>2, HonestSame
  <2>q. QED
    BY <2>1, <2>3, <2>4 DEF Local, y
<1>q. QED
  BY <1>1, <1>2

LEMMA LocalsWorker ==
  ASSUME Types, Types', Locals, NEW w \in Workers,
         WorkerStep(w) \/ RuntimeError(w) \/ Die(w) \/ Hang(w)
  PROVE  Locals'
<1>0. /\ WorkerTypes /\ WorkerTypes' /\ down[w] \in Seq(Downs) /\ Local(w)
      /\ Carries(down[w], battle, Counted(done, 0)) /\ worker[w] \in Records
      /\ done \in [Workers -> Rows] /\ done' \in [Workers -> Rows]
  BY DEF Types, WorkerTypes, Locals
<1>1. /\ battle' = battle
      /\ \A v \in Workers \ {w} : /\ worker'[v] = worker[v] /\ down'[v] = down[v]
                                  /\ done'[v] = done[v]
  BY WorkerFrame DEF ownerVars
<1> DEFINE c == Counted(done, 0)
           e == Counted(done', 0)
<1>2. c \in Rows /\ e \in Rows
  BY <1>0, CountedType
<1>3. CASE Batch(w)
  <2>1. PICK k \in Nat : \E inc \in Rows :
           /\ inc \in Visits(w, k) /\ Export(w, inc) \in Exports
           /\ worker' = [worker EXCEPT ![w] = Searched(w, inc)]
           /\ done' = [done EXCEPT ![w] = Plus(@, inc)]
    BY <1>3, BatchDoes
  <2>2. PICK inc \in Rows :
           /\ inc \in Visits(w, k) /\ Export(w, inc) \in Exports
           /\ worker' = [worker EXCEPT ![w] = Searched(w, inc)]
           /\ done' = [done EXCEPT ![w] = Plus(@, inc)]
    BY <2>1
  <2>3. worker[w].pc = "batch" /\ down' = down
    BY <1>3 DEF Batch
  <2>4. e = Plus(c, inc)
    BY <2>2, <1>0, CountedGrows
  <2>5. Within(c, e)
    BY <2>4, <1>2 DEF Within, Plus, Rows
  <2>6. worker[w].battle = battle /\ Honest(worker[w], done[w]) /\ Within(worker[w].view, c)
    BY <2>3, <1>0 DEF Local
  <2>7. worker'[w] = Searched(w, inc) /\ done'[w] = Plus(done[w], inc)
    BY <2>2, <1>0 DEF WorkerTypes
  <2>8. Honest(worker'[w], done'[w])
    BY <2>2, <2>6, <2>7, <1>0, HonestSearch
  <2>9. worker'[w].battle = battle /\ worker'[w].view = Plus(worker[w].view, inc)
    BY <2>2, <2>6, <2>7, <1>0, SearchedIs
  <2>10. Within(worker'[w].view, e)
    <3>1. worker[w].view \in Rows
      BY <1>0 DEF Records
    <3> HIDE DEF c, e
    <3>q. QED
      BY <2>4, <2>6, <2>9, <3>1, <1>2 DEF Within, Plus, Rows
  <2>11. Local(w)'
    BY <2>8, <2>9, <2>10, <1>1 DEF Local
  <2>12. ASSUME NEW v \in Workers \ {w} PROVE Local(v)'
    <3>1. Local(v) /\ worker[v].view \in Rows
      BY DEF Locals, Types, WorkerTypes, Records
    <3>2. worker[v].battle = battle => Within(worker[v].view, e)
      BY <3>1, <2>5, <1>2, WithinTransitive DEF Local
    <3>q. QED
      BY <3>1, <3>2, <1>1 DEF Local
  <2>13. ASSUME NEW v \in Workers PROVE Carries(down[v], battle, e)
    <3>1. Carries(down[v], battle, c) /\ down[v] \in Seq(Downs)
      BY DEF Locals, Types, WorkerTypes
    <3> HIDE DEF c, e
    <3>q. QED
      BY <3>1, <2>5, <1>2, CarriesMore
  <2>q. QED
    BY <2>3, <2>11, <2>12, <2>13, <1>1 DEF Locals
<1>4. CASE ~Batch(w)
  <2>1. done' = done
    BY <1>4 DEF WorkerStep, Isolate, BootWorker, TakeStart, TakeAck, EndOfPipe, Finally, Leave,
                RuntimeError, Die, Hang
  <2>2. down'[w] = down[w] \/ (down[w] # <<>> /\ down'[w] = Tail(down[w]))
    <3>1. CASE BootWorker(w) \/ TakeStart(w) \/ TakeAck(w) \/ Leave(w)
      BY <3>1, <1>0, TakeDown DEF BootWorker, TakeStart, TakeAck, Leave, WorkerTypes
    <3>2. CASE ~(BootWorker(w) \/ TakeStart(w) \/ TakeAck(w) \/ Leave(w))
      BY <3>2, <1>4 DEF WorkerStep, Isolate, EndOfPipe, Finally, RuntimeError, Die, Hang
    <3>q. QED
      BY <3>1, <3>2
  <2>3. Carries(down'[w], battle, c)
    BY <2>2, <1>0, CarriesTail
  <2>4. Local(w)'
    <3>1. CASE TakeStart(w)
      <4> DEFINE m == Head(down[w])
                 x == Bind(worker[w], m.snap)
      <4>1. down[w] # <<>>
        BY <3>1 DEF TakeStart
      <4>2. Fits(m, battle, c)
        BY <4>1, <1>0, CarriesTail
      <4>3. CASE /\ m \in Starts /\ Mergeable(x, w, m.snap)
                 /\ worker' = [worker EXCEPT ![w] = Begun(x, m)]
        <5>1. m.snap \in Snaps /\ m.snap.battle = battle /\ Within(m.snap.rows, c)
          BY <4>2, <4>3 DEF Fits, Starts
        <5>2. x \in Records
          BY <5>1, <1>0, BindType
        <5>3. /\ worker[w].battle = m.snap.battle => Honest(worker[w], done[w])
              /\ worker[w].battle # m.snap.battle => done[w] = NoRows
              /\ done[w] \in Rows
          BY <5>1, <1>0 DEF Local
        <5>4. Honest(x, done[w]) /\ x.battle = battle
          BY <5>1, <5>3, <1>0, BindHonest
        <5>5. m.snap.floor >= x.floor
          BY <4>3 DEF Mergeable
        <5>6. Honest(Merge(x, m.snap), done[w])
          BY <5>1, <5>2, <5>3, <5>4, <5>5, HonestMerge
        <5>7. worker'[w] = Begun(x, m)
          BY <4>3, <1>0 DEF WorkerTypes
        <5> DEFINE y == Begun(x, m)
                   z == Merge(x, m.snap)
        <5>8. /\ y.battle = x.battle /\ y.own = Prune(x.own, m.snap.floor)
              /\ y.floor = m.snap.floor /\ y.view = m.snap.rows /\ y.sent = x.sent
              /\ y.seq = x.seq
          BY <5>2, <4>3, BegunIs
        <5>9. /\ z.own = Prune(x.own, m.snap.floor) /\ z.floor = m.snap.floor
              /\ z.sent = x.sent /\ z.seq = x.seq
          BY <5>2 DEF Merge, Records
        <5> HIDE DEF y, z, x, m
        <5>10. Honest(y, done[w])
          BY <5>6, <5>8, <5>9, HonestSame DEF z
        <5>q. QED
          BY <2>1, <5>1, <5>4, <5>7, <5>8, <5>10, <1>1 DEF Local, y
      <4>4. CASE Refuse(w, "statistics") \/ Refuse(w, "drift") \/ Stay(w, "finally")
        <5>1. worker'[w] = [worker[w] EXCEPT !.pc = "finally"]
          BY <4>4, <1>0, RefuseType, StayType DEF WorkerTypes, Pcs
        <5>q. QED
          BY <5>1, <2>1, <1>0, <1>1, LocalStays DEF Pcs
      <4>q. QED
        BY <3>1, <4>3, <4>4, TakeStartDoes DEF StartCases
    <3>2. CASE TakeAck(w)
      <4> DEFINE m == Head(down[w])
                 x == worker[w]
      <4>1. down[w] # <<>> /\ x.pc = "exchange"
        BY <3>2 DEF TakeAck
      <4>2. Fits(m, battle, c)
        BY <4>1, <1>0, CarriesTail
      <4>3. CASE /\ m \in Acks /\ Mergeable(x, w, m.snap)
                 /\ worker' = [worker EXCEPT ![w] = Told(x, m)]
        <5>1. m.snap \in Snaps /\ m.snap.battle = battle /\ Within(m.snap.rows, c)
          BY <4>2, <4>3 DEF Fits, Acks
        <5>2. x.battle = battle /\ Honest(x, done[w]) /\ done[w] \in Rows
          BY <4>1, <1>0 DEF Local
        <5>3. m.snap.floor >= x.floor
          BY <4>3 DEF Mergeable
        <5>4. Honest(Merge(x, m.snap), done[w])
          BY <5>1, <5>2, <5>3, <1>0, HonestMerge
        <5>5. worker'[w] = Told(x, m)
          BY <4>3, <1>0 DEF WorkerTypes
        <5> DEFINE y == Told(x, m)
                   z == Merge(x, m.snap)
        <5>6. /\ y.battle = x.battle /\ y.own = Prune(x.own, m.snap.floor)
              /\ y.floor = m.snap.floor /\ y.view = m.snap.rows /\ y.sent = x.sent
              /\ y.seq = x.seq
          BY <1>0, <4>3, ToldIs
        <5>7. /\ z.own = Prune(x.own, m.snap.floor) /\ z.floor = m.snap.floor
              /\ z.sent = x.sent /\ z.seq = x.seq
          BY <1>0 DEF Merge, Records
        <5> HIDE DEF y, z, x, m
        <5>8. Honest(y, done[w])
          BY <5>4, <5>6, <5>7, HonestSame DEF z
        <5>q. QED
          BY <2>1, <5>1, <5>2, <5>5, <5>6, <5>8, <1>1 DEF Local, y
      <4>4. CASE Refuse(w, "statistics") \/ Refuse(w, "drift")
        <5>1. worker'[w] = [worker[w] EXCEPT !.pc = "finally"]
          BY <4>4, <1>0, RefuseType
        <5>q. QED
          BY <5>1, <2>1, <1>0, <1>1, LocalStays DEF Pcs
      <4>q. QED
        BY <3>2, <4>3, <4>4, TakeAckDoes DEF AckCases
    <3>3. CASE Isolate(w) \/ BootWorker(w) \/ EndOfPipe(w) \/ Finally(w) \/ RuntimeError(w)
      <4>1. \/ \E l \in Pcs \ {"batch", "exchange"} : Stay(w, l)
            \/ Refuse(w, "startup") \/ Refuse(w, "runtime")
        BY <3>3 DEF Isolate, BootWorker, EndOfPipe, Finally, RuntimeError, Pcs
      <4>2. \E l \in Pcs \ {"batch", "exchange"} : worker'[w] = [worker[w] EXCEPT !.pc = l]
        <5>1. CASE Refuse(w, "startup") \/ Refuse(w, "runtime")
          BY <5>1, <1>0, RefuseType DEF Pcs
        <5>2. ASSUME NEW l \in Pcs \ {"batch", "exchange"}, Stay(w, l)
              PROVE  worker'[w] = [worker[w] EXCEPT !.pc = l]
          BY <5>2, <1>0, StayType DEF WorkerTypes
        <5>q. QED
          BY <4>1, <5>1, <5>2
      <4>q. QED
        BY <4>2, <2>1, <1>0, <1>1, LocalStays
    <3>4. CASE Leave(w) \/ Die(w) \/ Hang(w)
      <4>1. worker' = worker
        BY <3>4 DEF Leave, Die, Hang
      <4>q. QED
        BY <4>1, <2>1, <1>0, <1>1, LocalStays
    <3>q. QED
      BY <1>4, <3>1, <3>2, <3>3, <3>4 DEF WorkerStep
  <2>5. ASSUME NEW v \in Workers \ {w} PROVE Local(v)'
    <3>1. Local(v)
      BY DEF Locals
    <3>q. QED
      BY <3>1, <2>1, <1>1, LocalStays
  <2>q. QED
    BY <2>1, <2>3, <2>4, <2>5, <1>1 DEF Locals
<1>q. QED
  BY <1>3, <1>4

--------------------------------------------------------------------------------
(* A decision: every step of a worker takes it from one place of the       *)
(* exchange to the next.                                                   *)

LEMMA OneMessage ==
  ASSUME NEW S, NEW q \in Seq(S)
  PROVE  /\ Len(q) = 0 <=> q = <<>>
         /\ Len(q) = 1 => q # <<>> /\ Head(q) = q[1] /\ Len(Tail(q)) = 0
         /\ \A m \in S : /\ Len(q) = 0 => Len(Append(q, m)) = 1 /\ Append(q, m)[1] = m
                         /\ q # <<>> => Append(q, m) # <<>> /\ Append(q, m)[1] = q[1]
         /\ q # <<>> => Head(q) = q[1] /\ q[1] \in S /\ Len(Tail(q)) = Len(q) - 1
OBVIOUS

LEMMA SlotKept ==
  ASSUME NEW v \in Workers, UNCHANGED <<battle, decision, root>>,
         worker'[v] = worker[v], up'[v] = up[v], down'[v] = down[v], done'[v] = done[v],
         master'.floor = master.floor, master'.rows[v] = master.rows[v],
         master'.seq[v] = master.seq[v],
         \A snap : Behind(snap, master, battle) => Behind(snap, master', battle)
  PROVE  (Busy(v) => Busy(v)') /\ (Finishes(v) => Finishes(v)')
<1>1. Bound(v) => Bound(v)'
  BY DEF Bound
<1>2. Synced(v) => Synced(v)'
  BY DEF Synced
<1>3. Known(v) => Known(v)'
  BY <1>1, <1>2 DEF Known
<1>4. Searches(v) => Searches(v)'
  BY DEF Searches
<1>5. \A pc, i, j : At(v, pc, i, j) => At(v, pc, i, j)'
  BY DEF At
<1>6. \A m : Informs(m) => Informs(m)'
  BY DEF Informs
<1>7. Starting(v) => Starting(v)'
  BY <1>2, <1>5, <1>6 DEF Starting
<1>8. Updating(v) => Updating(v)'
  BY <1>1, <1>4, <1>5 DEF Updating
<1>9. Hearing(v) => Hearing(v)'
  BY <1>2, <1>4, <1>5, <1>6 DEF Hearing
<1>10. (Batching(v) => Batching(v)') /\ (Finishing(v) => Finishing(v)')
       /\ (Finishes(v) => Finishes(v)')
  BY <1>3, <1>4, <1>5 DEF Batching, Finishing, Finishes
<1>11. Failing(v) => Failing(v)'
  BY DEF Failing
<1>q. QED
  BY <1>7, <1>8, <1>9, <1>10, <1>11 DEF Busy

LEMMA StartingSteps ==
  ASSUME Types, Locals, NEW w \in Workers, Starting(w), TakeStart(w)
  PROVE  Batching(w)'
<1> DEFINE m == down[w][1]
           x == Bind(worker[w], m.snap)
           y == Begun(x, m)
<1>0. /\ WorkerTypes /\ worker[w] \in Records /\ down[w] \in Seq(Downs) /\ up[w] \in Seq(Ups)
      /\ master \in Masters
  BY DEF Types, OwnerTypes, WorkerTypes
<1>1. /\ worker[w].pc = "idle" /\ Len(up[w]) = 0 /\ Len(down[w]) = 1 /\ Synced(w)
      /\ m.kind = "start" /\ m.root = root /\ Informs(m)
      /\ Mergeable(x, w, m.snap) /\ master.seq[w] = x.seq
  BY DEF Starting, At
<1>2. m = Head(down[w]) /\ down[w] # <<>> /\ Len(Tail(down[w])) = 0
  BY <1>0, <1>1, OneMessage
<1>3. /\ m \in Starts /\ y \in Records /\ worker' = [worker EXCEPT ![w] = y] /\ up' = up
  BY <1>1, <1>2, TakeStartDoes DEF StartCases, Starts
<1>4. x \in Records
  BY <1>0, <1>3, BindType DEF Starts
<1>5. /\ y.pc = "batch" /\ y.dec = m.dec /\ y.root = m.root /\ y.battle = x.battle
      /\ y.floor = m.snap.floor /\ y.last = m.snap /\ y.seq = x.seq
  BY <1>3, <1>4, BegunIs
<1>6. UNCHANGED <<ownerVars, done>> /\ down'[w] = Tail(down[w])
  BY <1>2, <1>0, TakeDown DEF TakeStart, WorkerTypes
<1>7. worker'[w] = y
  BY <1>0, <1>3 DEF WorkerTypes
<1>8. x.battle = battle
  <2>1. Carries(down[w], battle, Counted(done, 0))
    BY DEF Locals
  <2>2. Fits(Head(down[w]), battle, Counted(done, 0))
    BY <2>1, <1>0, <1>2, CarriesTail
  <2>3. m.snap.battle = battle
    BY <2>2, <1>1, <1>2 DEF Fits
  <2>q. QED
    BY <2>3, <1>1 DEF Mergeable
<1> HIDE DEF m, x, y
<1>9. /\ master.floor \in Nat /\ m.snap.floor = master.floor /\ m.dec = decision
      /\ Behind(m.snap, master, battle)
  BY <1>0, <1>1 DEF Informs, Masters
<1>10. Known(w)'
  BY <1>1, <1>5, <1>6, <1>7, <1>8, <1>9 DEF Known, Bound, Synced, ownerVars
<1>11. Searches(w)' /\ At(w, "batch", 0, 0)'
  BY <1>1, <1>2, <1>3, <1>5, <1>6, <1>7, <1>9 DEF Searches, At, ownerVars
<1>q. QED
  BY <1>10, <1>11 DEF Batching

LEMMA BatchingSteps ==
  ASSUME Types, Locals, root \in Roots, NEW w \in Workers, Batching(w), Batch(w)
  PROVE  Updating(w)'
<1>0. /\ WorkerTypes /\ worker[w] \in Records /\ up[w] \in Seq(Ups)
      /\ master \in Masters /\ done[w] \in Rows
  BY DEF Types, OwnerTypes, WorkerTypes
<1>1. /\ worker[w].pc = "batch" /\ Len(up[w]) = 0 /\ Len(down[w]) = 0 /\ Known(w)
      /\ Searches(w)
  BY DEF Batching, At
<1>2. /\ worker[w].battle = battle /\ Honest(worker[w], done[w])
      /\ worker[w].floor = master.floor /\ worker[w].root = root
      /\ worker[w].dec = decision /\ master.seq[w] = worker[w].seq
      /\ master.rows[w] = Prune(done[w], master.floor)
  BY <1>1 DEF Locals, Local, Known, Bound, Synced, Searches
<1>3. PICK k \in Nat : \E inc \in Rows :
         /\ inc \in Visits(w, k) /\ Export(w, inc) \in Exports /\ Sent(w, k, inc) \in Updates
         /\ worker' = [worker EXCEPT ![w] = Searched(w, inc)]
         /\ Send(w, Sent(w, k, inc))
         /\ done' = [done EXCEPT ![w] = Plus(@, inc)]
  BY BatchDoes
<1>4. PICK inc \in Rows :
         /\ inc \in Visits(w, k) /\ Export(w, inc) \in Exports /\ Sent(w, k, inc) \in Updates
         /\ worker' = [worker EXCEPT ![w] = Searched(w, inc)]
         /\ Send(w, Sent(w, k, inc))
         /\ done' = [done EXCEPT ![w] = Plus(@, inc)]
  BY <1>3
<1> DEFINE m == Sent(w, k, inc)
           y == Searched(w, inc)
           u == Export(w, inc)
<1>5. /\ m \in Ups /\ m.kind = "update" /\ m.dec = worker[w].dec /\ m.update = u
      /\ m.batch.trajectories = k
  BY <1>4 DEF Sent, Ups
<1>6. UNCHANGED <<ownerVars, down>>
  BY DEF Batch
<1>7. worker'[w] = y /\ done'[w] = Plus(done[w], inc)
  BY <1>0, <1>4 DEF WorkerTypes
<1>8. /\ y.pc = "exchange" /\ y.dec = worker[w].dec /\ y.root = worker[w].root
      /\ y.battle = worker[w].battle /\ y.floor = worker[w].floor
      /\ y.last = worker[w].last /\ y.sent = u /\ y.seq = worker[w].seq + 1
  BY <1>0, SearchedIs
<1>9. /\ u.battle = worker[w].battle /\ u.seq = worker[w].seq + 1
      /\ u.rows = Plus(worker[w].own, inc)
  BY ExportIs
<1>10. u.rows = Prune(Plus(done[w], inc), worker[w].floor)
  BY <1>0, <1>2, <1>4, <1>9, HonestSearch
<1>11. worker[w].own = master.rows[w] /\ worker[w].own \in Rows
  BY <1>0, <1>2 DEF Honest, Records
<1>12. Within(master.rows[w], u.rows)
  BY <1>9, <1>11, <1>4 DEF Within, Plus, Rows
<1>13. u.rows[root] = master.rows[w][root] + k
  <2>1. root \in States /\ inc[root] = k
    BY <1>2, <1>4, PoolAssumption DEF Visits
  <2>q. QED
    BY <2>1, <1>9, <1>11 DEF Plus
<1>14. Len(up'[w]) = 1 /\ up'[w][1] = m
  <2>1. up'[w] = Append(up[w], m)
    BY <1>0, <1>4, <1>5, SendType DEF WorkerTypes
  <2>2. m \in Ups
    BY <1>5
  <2> HIDE DEF m
  <2>q. QED
    BY <2>1, <2>2, <1>0, <1>1, OneMessage
<1> HIDE DEF m, y, u
<1>15. Bound(w)'
  BY <1>1, <1>6, <1>7, <1>8 DEF Known, Bound, ownerVars
<1>16. Searches(w)' /\ At(w, "exchange", 1, 0)'
  BY <1>1, <1>2, <1>6, <1>7, <1>8, <1>14 DEF Searches, At, ownerVars
<1>17. u.seq = master.seq[w] + 1
  BY <1>2, <1>9
<1>18. u.rows = Prune(done'[w], master.floor)
  BY <1>2, <1>7, <1>10
<1>q. QED
  BY <1>2, <1>5, <1>6, <1>7, <1>8, <1>9, <1>12, <1>13, <1>14, <1>15, <1>16, <1>17, <1>18
     DEF Updating, ownerVars

LEMMA HearingSteps ==
  ASSUME Types, NEW w \in Workers, Hearing(w), TakeAck(w)
  PROVE  Batching(w)' \/ Finishing(w)'
<1> DEFINE m == down[w][1]
           x == worker[w]
           y == Told(x, m)
           e == [kind |-> "done", dec |-> x.dec]
<1>0. /\ WorkerTypes /\ x \in Records /\ down[w] \in Seq(Downs) /\ up[w] \in Seq(Ups)
      /\ master \in Masters
  BY DEF Types, OwnerTypes, WorkerTypes
<1>1. /\ x.pc = "exchange" /\ Len(up[w]) = 0 /\ Len(down[w]) = 1 /\ Synced(w) /\ Searches(w)
      /\ x.battle = battle /\ master.seq[w] = x.seq
      /\ m.kind = "ack" /\ Informs(m) /\ Mergeable(x, w, m.snap)
  BY DEF Hearing, At
<1>2. m = Head(down[w]) /\ down[w] # <<>> /\ Len(Tail(down[w])) = 0
  BY <1>0, <1>1, OneMessage
<1>3. m.dec = x.dec
  BY <1>1 DEF Informs, Searches
<1>4. /\ m \in Acks /\ y \in Records /\ worker' = [worker EXCEPT ![w] = y]
      /\ IF m.limit = 0 THEN Send(w, e) ELSE up' = up
  BY <1>1, <1>2, <1>3, TakeAckDoes DEF AckCases
<1>5. /\ y.pc = (IF m.limit = 0 THEN "idle" ELSE "batch") /\ y.dec = x.dec /\ y.root = x.root
      /\ y.battle = x.battle /\ y.floor = m.snap.floor /\ y.last = m.snap /\ y.seq = x.seq
  BY <1>0, <1>4, ToldIs
<1>6. UNCHANGED <<ownerVars, done>> /\ down'[w] = Tail(down[w])
  BY <1>2, <1>0, TakeDown DEF TakeAck, WorkerTypes
<1>7. worker'[w] = y
  BY <1>0, <1>4 DEF WorkerTypes
<1>8. e \in Ups /\ e.kind = "done" /\ e.dec = x.dec
  BY <1>0 DEF Records, Ups, Dones
<1> HIDE DEF m, x, y, e
<1>9. /\ master.floor \in Nat /\ m.snap.floor = master.floor
      /\ Behind(m.snap, master, battle) /\ x.dec = decision /\ x.root = root
  BY <1>0, <1>1 DEF Informs, Masters, Searches, x
<1>10. Known(w)'
  BY <1>1, <1>5, <1>6, <1>7, <1>9 DEF Known, Bound, Synced, ownerVars
<1>11. CASE m.limit = 0
  <2>1. up'[w] = Append(up[w], e)
    BY <1>0, <1>4, <1>8, <1>11, SendType DEF WorkerTypes
  <2>2. Len(up'[w]) = 1 /\ up'[w][1] = e
    BY <2>1, <1>0, <1>1, <1>8, OneMessage
  <2>q. QED
    BY <2>2, <1>2, <1>5, <1>6, <1>7, <1>8, <1>9, <1>10, <1>11 DEF Finishing, At, ownerVars
<1>12. CASE m.limit # 0
  <2>1. Searches(w)' /\ At(w, "batch", 0, 0)'
    BY <1>1, <1>2, <1>4, <1>5, <1>6, <1>7, <1>9, <1>12 DEF Searches, At, ownerVars
  <2>q. QED
    BY <2>1, <1>10 DEF Batching
<1>q. QED
  BY <1>11, <1>12

LEMMA FailingSteps ==
  ASSUME Types, NEW w \in Workers, Failing(w), Finally(w)
  PROVE  Failing(w)'
<1>0. WorkerTypes /\ up[w] \in Seq(Ups) /\ up[w] # <<>>
  BY DEF Types, WorkerTypes, Failing
<1> DEFINE m == [kind |-> "cleanup_ready", clean |-> w \notin kids']
<1>1. m \in Ups
  BY DEF Ups, Readies
<1>2. Stay(w, "cleanup") /\ Send(w, m) /\ UNCHANGED <<down, master, done>>
  BY DEF Finally, ownerVars
<1> HIDE DEF m
<1>3. worker'[w].pc = "cleanup" /\ up'[w] = Append(up[w], m)
  BY <1>0, <1>1, <1>2, StayType, SendType DEF WorkerTypes, Pcs
<1>4. up'[w] # <<>> /\ up'[w][1] = up[w][1]
  BY <1>0, <1>1, <1>3, OneMessage
<1>q. QED
  BY <1>2, <1>3, <1>4 DEF Failing

LEMMA ErrorSteps ==
  ASSUME Types, NEW w \in Workers, Batching(w), RuntimeError(w)
  PROVE  Failing(w)'
<1>0. WorkerTypes /\ up[w] \in Seq(Ups) /\ Len(up[w]) = 0 /\ down[w] \in Seq(Downs)
      /\ Len(down[w]) = 0
  BY DEF Types, WorkerTypes, Batching, At
<1> DEFINE m == [kind |-> "error", cause |-> "runtime"]
<1>1. m \in Ups /\ m.kind = "error" /\ m.cause = "runtime"
  BY DEF Ups, Errors
<1>2. worker'[w].pc = "finally" /\ up'[w] = Append(up[w], m) /\ UNCHANGED <<down, master, done>>
  BY <1>0, RefuseType DEF RuntimeError, ownerVars
<1> HIDE DEF m
<1>3. Len(up'[w]) = 1 /\ up'[w][1] = m /\ up'[w] # <<>>
  <2>1. Append(up[w], m) # <<>>
    BY <1>0, <1>1
  <2>q. QED
    BY <2>1, <1>0, <1>1, <1>2, OneMessage
<1>4. down[w] = <<>>
  BY <1>0, OneMessage
<1>5. Within(master.rows[w], done[w])
  <2>1. master.rows[w] = Prune(done[w], master.floor)
    BY DEF Batching, Known, Synced
  <2>q. QED
    BY <2>1, PruneWithin DEF Types, OwnerTypes, WorkerTypes, Masters
<1>q. QED
  BY <1>1, <1>2, <1>3, <1>4, <1>5 DEF Failing

(* While the owner lives, a worker that has finished only waits.           *)
LEMMA SlotsWorker ==
  ASSUME Types, Types', Locals, mpc # "dead", NEW w \in Workers,
         WorkerStep(w) \/ RuntimeError(w) \/ Die(w) \/ Hang(w)
  PROVE  /\ Finishes(w) => Finishes(w)'
         /\ Busy(w) /\ root \in Roots => Busy(w)'
         /\ \A v \in Workers \ {w} : (Busy(v) => Busy(v)') /\ (Finishes(v) => Finishes(v)')
<1>0. up[w] \in Seq(Ups) /\ down[w] \in Seq(Downs)
  BY DEF Types, WorkerTypes
<1>1. /\ UNCHANGED <<master, battle, decision, root>>
      /\ \A v \in Workers \ {w} : /\ worker'[v] = worker[v] /\ up'[v] = up[v]
                                  /\ down'[v] = down[v] /\ done'[v] = done[v]
  BY WorkerFrame DEF ownerVars
<1>2. ASSUME NEW v \in Workers \ {w} PROVE (Busy(v) => Busy(v)') /\ (Finishes(v) => Finishes(v)')
  BY <1>1, SlotKept
<1>3. Len(down[w]) = 0 => down[w] = <<>>
  BY <1>0, OneMessage
<1>4. CASE Die(w) \/ Hang(w)
  <2>1. UNCHANGED <<worker, up, down, done>>
    BY <1>4 DEF Die, Hang
  <2>q. QED
    BY <2>1, <1>1, <1>2, SlotKept
<1>5. CASE ~(Die(w) \/ Hang(w))
  <2>1. ~Finishes(w)
    <3> SUFFICES ASSUME Finishes(w) PROVE FALSE
      OBVIOUS
    <3>1. worker[w].pc = "idle" /\ down[w] = <<>>
      BY <1>3 DEF Finishes, At
    <3>q. QED
      BY <3>1, <1>5 DEF WorkerStep, Isolate, BootWorker, TakeStart, Batch, TakeAck, EndOfPipe,
                        Finally, Leave, RuntimeError, PipeEnded, Owner
  <2>2. CASE Starting(w)
    <3>1. worker[w].pc = "idle"
      BY <2>2 DEF Starting, At
    <3>2. TakeStart(w)
      BY <3>1, <1>5 DEF WorkerStep, Isolate, BootWorker, Batch, TakeAck, EndOfPipe,
                        Finally, Leave, RuntimeError, PipeEnded, Owner
    <3>q. QED
      BY <2>1, <2>2, <3>2, <1>2, StartingSteps DEF Busy
  <2>3. CASE Batching(w)
    <3>1. worker[w].pc = "batch"
      BY <2>3 DEF Batching, At
    <3>2. Batch(w) \/ RuntimeError(w)
      BY <3>1, <1>5 DEF WorkerStep, Isolate, BootWorker, TakeStart, TakeAck, EndOfPipe,
                        Finally, Leave
    <3>q. QED
      BY <2>1, <2>3, <3>2, <1>2, BatchingSteps, ErrorSteps DEF Busy
  <2>4. CASE Updating(w)
    <3>1. worker[w].pc = "exchange" /\ down[w] = <<>>
      BY <2>4, <1>3 DEF Updating, At
    <3>q. QED
      BY <3>1, <1>5 DEF WorkerStep, Isolate, BootWorker, TakeStart, Batch, TakeAck, EndOfPipe,
                        Finally, Leave, RuntimeError, PipeEnded, Owner
  <2>5. CASE Hearing(w)
    <3>1. worker[w].pc = "exchange"
      BY <2>5 DEF Hearing, At
    <3>2. TakeAck(w)
      BY <3>1, <1>5 DEF WorkerStep, Isolate, BootWorker, TakeStart, Batch, EndOfPipe,
                        Finally, Leave, RuntimeError, PipeEnded, Owner
    <3>q. QED
      BY <2>1, <2>5, <3>2, <1>2, HearingSteps DEF Busy
  <2>6. CASE Finishing(w)
    <3>1. worker[w].pc = "idle" /\ down[w] = <<>>
      BY <2>6, <1>3 DEF Finishing, At
    <3>q. QED
      BY <3>1, <1>5 DEF WorkerStep, Isolate, BootWorker, TakeStart, Batch, TakeAck, EndOfPipe,
                        Finally, Leave, RuntimeError, PipeEnded, Owner
  <2>7. CASE Failing(w)
    <3>1. worker[w].pc \in {"finally", "cleanup"} /\ down[w] = <<>>
      BY <2>7 DEF Failing
    <3>2. Finally(w)
      BY <3>1, <1>5 DEF WorkerStep, Isolate, BootWorker, TakeStart, Batch, TakeAck, EndOfPipe,
                        Leave, RuntimeError, PipeEnded, Owner
    <3>q. QED
      BY <2>1, <2>7, <3>2, <1>2, FailingSteps DEF Busy
  <2>q. QED
    BY <2>1, <2>2, <2>3, <2>4, <2>5, <2>6, <2>7, <1>2 DEF Busy
<1>q. QED
  BY <1>4, <1>5

LEMMA StartupsWorker ==
  ASSUME Types, mpc = "starting", Startups, NEW w \in Workers,
         WorkerStep(w) \/ RuntimeError(w) \/ Die(w) \/ Hang(w)
  PROVE  Startups'
<1>0. WorkerTypes /\ up[w] \in Seq(Ups) /\ down[w] \in Seq(Downs) /\ worker[w] \in Records
  BY DEF Types, WorkerTypes
<1>1. /\ UNCHANGED <<battle, master, answer, pending>>
      /\ \A v \in Workers \ {w} : /\ worker'[v] = worker[v] /\ up'[v] = up[v]
                                  /\ down'[v] = down[v]
  BY WorkerFrame DEF ownerVars
<1>2. ASSUME NEW v \in Workers \ {w}
      PROVE  (Unbound(v) => Unbound(v)') /\ (Born(v) => Born(v)')
             /\ (At(v, "idle", 0, 0) => At(v, "idle", 0, 0)')
  BY <1>1 DEF Unbound, Born, At
<1>3. Unbound(w) /\ IF w \in pending THEN Born(w) ELSE At(w, "idle", 0, 0)
  BY DEF Startups
<1>4. /\ Len(down[w]) = 0 => down[w] = <<>>
      /\ Len(up[w]) = 1 => up[w] # <<>>
  BY <1>0, OneMessage
<1>5. worker[w].pc # "batch"
  BY <1>3 DEF Born, At
<1>6. done' = done
  BY <1>5 DEF WorkerStep, Isolate, BootWorker, TakeStart, Batch, TakeAck, EndOfPipe, Finally, Leave,
              RuntimeError, Die, Hang
<1>7. Owner
  BY DEF Owner
<1>8. Unbound(w)' /\ IF w \in pending THEN Born(w)' ELSE At(w, "idle", 0, 0)'
  <2>1. CASE Die(w) \/ Hang(w)
    <3>1. UNCHANGED <<worker, up, down>>
      BY <2>1 DEF Die, Hang
    <3>q. QED
      BY <1>3, <3>1 DEF Unbound, Born, At
  <2>2. CASE Isolate(w)
    <3>1. worker[w].pc = "born" /\ down' = down
      BY <2>2 DEF Isolate
    <3>2. w \in pending /\ Len(up[w]) = 0 /\ Len(down[w]) = 0
      BY <1>3, <3>1 DEF Born, At
    <3>3. worker'[w] = [worker[w] EXCEPT !.pc = "isolated"] /\ worker'[w].pc = "isolated"
          /\ up'[w] = Append(up[w], Message("isolation"))
      BY <2>2, <1>0, StayType, SendType, Plains DEF Isolate, WorkerTypes, Pcs
    <3>4. Len(up'[w]) = 1 /\ up'[w][1] = Message("isolation")
      BY <3>2, <3>3, <1>0, OneMessage, Plains
    <3>5. Unbound(w)'
      BY <1>3, <3>3 DEF Unbound, Newborn
    <3>q. QED
      BY <3>1, <3>2, <3>3, <3>4, <3>5, Plains DEF Born, At
  <2>3. CASE BootWorker(w)
    <3>1. worker[w].pc = "isolated" /\ down[w] # <<>>
      BY <2>3 DEF BootWorker
    <3>2. w \in pending /\ Len(up[w]) = 0 /\ Len(down[w]) = 1
      BY <1>3, <1>4, <3>1 DEF Born, At
    <3>3. down'[w] = Tail(down[w]) /\ Len(down'[w]) = 0
      BY <2>3, <3>2, <1>0, TakeDown, OneMessage DEF BootWorker, WorkerTypes
    <3>4. CASE Stay(w, "idle") /\ Send(w, Message("boot"))
      <4>1. worker'[w] = [worker[w] EXCEPT !.pc = "idle"] /\ worker'[w].pc = "idle"
            /\ up'[w] = Append(up[w], Message("boot"))
        BY <3>4, <1>0, StayType, SendType, Plains DEF WorkerTypes, Pcs
      <4>2. Len(up'[w]) = 1 /\ up'[w][1] = Message("boot")
        BY <3>2, <4>1, <1>0, OneMessage, Plains
      <4>3. Unbound(w)'
        BY <1>3, <4>1 DEF Unbound, Newborn
      <4>q. QED
        BY <3>2, <3>3, <4>1, <4>2, <4>3, Plains DEF Born, At
    <3>5. CASE Refuse(w, "startup")
      <4> DEFINE m == [kind |-> "error", cause |-> "startup"]
      <4>1. worker'[w] = [worker[w] EXCEPT !.pc = "finally"] /\ worker'[w].pc = "finally"
            /\ up'[w] = Append(up[w], m)
        BY <3>5, <1>0, RefuseType
      <4>2. m \in Ups /\ m.kind = "error"
        BY DEF Ups, Errors
      <4> HIDE DEF m
      <4>3. Len(up'[w]) = 1 /\ up'[w][1] = m /\ up'[w] # <<>>
        BY <3>2, <4>1, <4>2, <1>0, OneMessage
      <4>4. Unbound(w)'
        BY <1>3, <4>1 DEF Unbound, Newborn
      <4>q. QED
        BY <3>2, <4>1, <4>2, <4>3, <4>4 DEF Born
    <3>q. QED
      BY <2>3, <3>4, <3>5 DEF BootWorker
  <2>4. CASE RuntimeError(w)
    <3>1. worker[w].pc = "isolated" /\ down[w] # <<>>
      BY <2>4, <1>5 DEF RuntimeError
    <3>2. w \in pending /\ Len(up[w]) = 0
      BY <1>3, <1>4, <3>1 DEF Born, At
    <3> DEFINE m == [kind |-> "error", cause |-> "runtime"]
    <3>3. worker'[w] = [worker[w] EXCEPT !.pc = "finally"] /\ worker'[w].pc = "finally"
          /\ up'[w] = Append(up[w], m)
      BY <2>4, <1>0, RefuseType DEF RuntimeError
    <3>4. m \in Ups /\ m.kind = "error"
      BY DEF Ups, Errors
    <3> HIDE DEF m
    <3>5. Len(up'[w]) = 1 /\ up'[w][1] = m /\ up'[w] # <<>>
      BY <3>2, <3>3, <3>4, <1>0, OneMessage
    <3>6. Unbound(w)'
      BY <1>3, <3>3 DEF Unbound, Newborn
    <3>q. QED
      BY <3>2, <3>3, <3>4, <3>5, <3>6 DEF Born
  <2>5. CASE Finally(w)
    <3>1. worker[w].pc = "finally"
      BY <2>5 DEF Finally
    <3>2. w \in pending /\ up[w] # <<>> /\ up[w][1].kind = "error"
      BY <1>3, <3>1 DEF Born, At
    <3> DEFINE m == [kind |-> "cleanup_ready", clean |-> w \notin kids']
    <3>3. m \in Ups
      BY DEF Ups, Readies
    <3>4. Stay(w, "cleanup") /\ Send(w, m)
      BY <2>5 DEF Finally
    <3> HIDE DEF m
    <3>5. worker'[w] = [worker[w] EXCEPT !.pc = "cleanup"] /\ worker'[w].pc = "cleanup"
          /\ up'[w] = Append(up[w], m)
      BY <3>3, <3>4, <1>0, StayType, SendType DEF WorkerTypes, Pcs
    <3>6. up'[w] # <<>> /\ up'[w][1] = up[w][1]
      BY <3>2, <3>3, <3>5, <1>0, OneMessage
    <3>7. Unbound(w)'
      BY <1>3, <3>5 DEF Unbound, Newborn
    <3>q. QED
      BY <3>2, <3>5, <3>6, <3>7 DEF Born
  <2>6. CASE Leave(w)
    <3>1. worker[w].pc = "cleanup" /\ UNCHANGED <<worker, up>>
      BY <2>6 DEF Leave
    <3>q. QED
      BY <1>3, <3>1 DEF Unbound, Born, At
  <2>7. CASE TakeStart(w) \/ TakeAck(w) \/ Batch(w) \/ EndOfPipe(w)
    <3>1. worker[w].pc = "idle" /\ down[w] # <<>>
      BY <2>7, <1>3, <1>5, <1>7 DEF TakeStart, TakeAck, Batch, EndOfPipe, PipeEnded, Born, At
    <3>q. QED
      BY <3>1, <1>3, <1>4 DEF Born, At
  <2>q. QED
    BY <2>1, <2>2, <2>3, <2>4, <2>5, <2>6, <2>7 DEF WorkerStep
<1>q. QED
  BY <1>1, <1>2, <1>6, <1>8 DEF Startups

LEMMA AnsweredWorker ==
  ASSUME Types, Answered, NEW w \in Workers,
         WorkerStep(w) \/ RuntimeError(w) \/ Die(w) \/ Hang(w)
  PROVE  Answered'
<1>0. WorkerTypes
  BY DEF Types
<1>1. /\ UNCHANGED <<mpc, answer, master>>
      /\ \A v \in Workers \ {w} : worker'[v] = worker[v] /\ down'[v] = down[v]
  BY WorkerFrame DEF ownerVars
<1>2. down[w] = <<>> /\ worker[w].pc \in {"idle", "finally", "cleanup"}
  BY DEF Answered
<1>3. done' = done /\ down'[w] = down[w]
  BY <1>2 DEF WorkerStep, Isolate, BootWorker, TakeStart, Batch, TakeAck, EndOfPipe, Finally, Leave,
              RuntimeError, Die, Hang
<1>4. worker' = worker \/ Stay(w, "finally") \/ Stay(w, "cleanup")
  BY <1>2 DEF WorkerStep, Isolate, BootWorker, TakeStart, Batch, TakeAck, EndOfPipe, Finally, Leave,
              RuntimeError, Die, Hang
<1>5. worker'[w].pc \in {"idle", "finally", "cleanup"}
  BY <1>0, <1>2, <1>4, StayType DEF WorkerTypes, Pcs
<1>q. QED
  BY <1>1, <1>2, <1>3, <1>5 DEF Answered

LEMMA ExchangesWorker ==
  ASSUME Types, Types', Exchanges, NEW w \in Workers,
         WorkerStep(w) \/ RuntimeError(w) \/ Die(w) \/ Hang(w)
  PROVE  Exchanges'
<1>1. UNCHANGED <<mpc, pending, answer, why, root, master, before, completed>>
  BY WorkerFrame DEF ownerVars
<1>2. Locals'
  BY LocalsWorker DEF Exchanges
<1>3. mpc = "starting" => Startups'
  BY StartupsWorker DEF Exchanges
<1>4. mpc = "idle" => \A v \in Workers : Finishes(v)'
  BY SlotsWorker DEF Exchanges
<1>5. mpc = "searching" => Decisions'
  BY <1>1, SlotsWorker DEF Exchanges, Decisions
<1>6. answer # None => Answered'
  BY AnsweredWorker DEF Exchanges
<1>q. QED
  BY <1>1, <1>2, <1>3, <1>4, <1>5, <1>6 DEF Exchanges

--------------------------------------------------------------------------------
(* What a decision starts from: the owner's request says what everyone did *)
(* in its battle, and every worker can merge it.                           *)

LEMMA RequestIs ==
  ASSUME NEW b, NEW r
  PROVE  /\ Request(b, r).snap = Said(Ready(b, r), b) /\ Request(b, r).dec = decision + 1
         /\ Request(b, r).kind = "start" /\ Request(b, r).root = r
BY DEF Request, Snapshot, Said

Since(w, b) == IF b = battle THEN done[w] ELSE NoRows

LEMMA ReadyIs ==
  ASSUME Types, NEW b \in load.battles, NEW r \in Roots, b = battle => master.floor <= Faints[r],
         NEW w \in Workers, Finishes(w)
  PROVE  /\ Ready(b, r).rows[w] = Prune(Since(w, b), Faints[r])
         /\ Ready(b, r).seq[w] = Bind(worker[w], Said(Ready(b, r), b)).seq
<1> DEFINE f == Faints[r]
<1>1. /\ f \in Nat /\ master \in Masters /\ done[w] \in Rows /\ worker[w].battle = battle
      /\ master.rows[w] = Prune(done[w], master.floor) /\ master.seq[w] = worker[w].seq
  BY ReadyType DEF Types, OwnerTypes, WorkerTypes, Finishes, Known, Bound, Synced
<1>2. master.floor \in Nat /\ Fresh \in Masters /\ Fresh.floor = 0 /\ Fresh.rows[w] = NoRows
      /\ Fresh.seq[w] = 0
  BY <1>1, FreshType DEF Masters, Fresh
<1>3. Said(Ready(b, r), b).battle = b
  BY DEF Said
<1> HIDE DEF f
<1>4. CASE b = battle
  <2>1. Since(w, b) = done[w] /\ Ready(b, r) = Advance(master, f)
        /\ Bind(worker[w], Said(Ready(b, r), b)) = worker[w] /\ master.floor <= f
    BY <1>1, <1>3, <1>4 DEF Since, Ready, Bind, f
  <2>2. CASE f = master.floor
    <3>1. Ready(b, r) = master
      BY <2>1, <2>2 DEF Advance
    <3>q. QED
      BY <1>1, <2>1, <2>2, <3>1 DEF f
  <2>3. CASE f # master.floor
    <3>1. /\ Ready(b, r).seq = master.seq
          /\ Ready(b, r).rows[w] = Prune(master.rows[w], f)
      BY <1>1, <2>1, <2>3, AdvanceIs
    <3>2. Prune(master.rows[w], f) = Prune(done[w], f)
      BY <1>1, <1>2, <2>1, PruneTwice
    <3>q. QED
      BY <1>1, <2>1, <3>1, <3>2 DEF f
  <2>q. QED
    BY <2>2, <2>3
<1>5. CASE b # battle
  <2>1. Since(w, b) = NoRows /\ Ready(b, r) = Advance(Fresh, f)
    BY <1>5 DEF Since, Ready, f
  <2>2. Bind(worker[w], Said(Ready(b, r), b)).seq = 0
    BY <1>1, <1>3, <1>5 DEF Bind, Newborn
  <2>3. Prune(NoRows, f) = NoRows
    BY <1>1, PruneNothing
  <2>4. CASE f = 0
    BY <1>2, <2>1, <2>2, <2>3, <2>4 DEF Advance, f
  <2>5. CASE f # 0
    <3>1. Ready(b, r).seq = Fresh.seq /\ Ready(b, r).rows[w] = Prune(Fresh.rows[w], f)
      BY <1>1, <1>2, <2>1, <2>5, AdvanceIs
    <3>q. QED
      BY <1>2, <2>1, <2>2, <3>1 DEF f
  <2>q. QED
    BY <2>4, <2>5
<1>q. QED
  BY <1>4, <1>5

LEMMA ReadyMerges ==
  ASSUME Types, NEW b \in load.battles, NEW r \in Roots, b = battle => master.floor <= Faints[r],
         NEW w \in Workers, Finishes(w), Local(w)
  PROVE  Mergeable(Bind(worker[w], Said(Ready(b, r), b)), w, Said(Ready(b, r), b))
<1> DEFINE m == Ready(b, r)
           snap == Said(m, b)
           x == Bind(worker[w], snap)
<1>1. /\ m \in Masters /\ m.floor = Faints[r] /\ Faints[r] \in Nat /\ b \in Battles
      /\ worker[w] \in Records /\ done[w] \in Rows /\ master \in Masters /\ master.floor \in Nat
      /\ worker[w].battle = battle /\ worker[w].floor \in Nat /\ worker[w].floor <= master.floor
      /\ (worker[w].last # None => Behind(worker[w].last, master, battle))
  BY ReadyType DEF Types, OwnerTypes, WorkerTypes, Masters, Records, Finishes, Known, Bound
<1>2. m.rows[w] = Prune(Since(w, b), m.floor) /\ m.seq[w] = x.seq
  BY <1>1, ReadyIs
<1>3. snap \in Snaps /\ snap.battle = b
  BY <1>1, SaidType
<1> HIDE DEF snap
<1>4. x \in Records
  BY <1>1, <1>3, BindType DEF Snaps
<1>5. Since(w, b) \in Rows
  BY <1>1, NoRowsType DEF Since
<1>6. Honest(x, Since(w, b)) /\ x.battle = b
  <2>1. worker[w].battle = snap.battle => Honest(worker[w], Since(w, b))
    BY <1>1, <1>3 DEF Since, Local
  <2>2. worker[w].battle # snap.battle => Since(w, b) = NoRows
    BY <1>1, <1>3 DEF Since
  <2>q. QED
    BY <1>1, <1>3, <1>5, <2>1, <2>2, BindHonest
<1>7. x.floor <= m.floor /\ (x.last # None => Behind(x.last, m, b))
  <2>1. CASE b = battle
    <3>1. x = worker[w] /\ m = Advance(master, Faints[r]) /\ master.floor <= Faints[r]
      BY <1>1, <1>3, <2>1 DEF Bind, Ready
    <3>2. x.last # None => Behind(x.last, m, b)
      BY <1>1, <2>1, <3>1, BehindAdvance
    <3>q. QED
      BY <1>1, <3>1, <3>2
  <2>2. CASE b # battle
    <3>1. x = [Newborn EXCEPT !.pc = worker[w].pc, !.battle = snap.battle]
      BY <1>1, <1>3, <2>2 DEF Bind
    <3>q. QED
      BY <1>1, <3>1 DEF Newborn
  <2>q. QED
    BY <2>1, <2>2
<1> HIDE DEF m, x
<1>q. QED
  BY <1>1, <1>2, <1>4, <1>5, <1>6, <1>7, MergesTheMaster DEF snap, m, x

LEMMA SearchStarts ==
  ASSUME Types, Types', Locals, \A w \in Workers : Finishes(w),
         NEW b \in load.battles, NEW r \in Roots, Search(b, r), UNCHANGED load, mpc' = "searching"
  PROVE  Locals' /\ Decisions' /\ why' = why
<1> DEFINE m == Ready(b, r)
           q == Request(b, r)
<1>1. /\ decision' = decision + 1 /\ battle' = b /\ root' = r /\ answer' = None
      /\ b = battle => master.floor <= Faints[r]
      /\ master' = m /\ why' = why /\ pending' = Workers /\ completed' = 0
      /\ before' = Sum(m)[r] /\ down' = [w \in Workers |-> Append(down[w], q)]
      /\ done' = IF b = battle THEN done ELSE [w \in Workers |-> NoRows]
      /\ worker' = worker /\ up' = up
  BY SearchDoes
<1>2. /\ m \in Masters /\ m.floor = Faints[r] /\ Faints[r] \in Nat /\ q \in Starts /\ q \in Downs
      /\ b \in Battles /\ done' \in [Workers -> Rows]
  BY ReadyType DEF Downs, Types, WorkerTypes
<1>3. q.snap = Said(m, b) /\ q.dec = decision + 1 /\ q.kind = "start" /\ q.root = r
  BY RequestIs
<1>4. /\ Said(m, b).battle = b /\ Said(m, b).floor = m.floor /\ Said(m, b).rows = Sum(m)
      /\ Behind(Said(m, b), m, b)
  BY <1>2, SaidType, SaidIsBehind
<1>5. ASSUME NEW w \in Workers
      PROVE  /\ m.rows[w] = Prune(done'[w], m.floor)
             /\ m.seq[w] = Bind(worker[w], Said(m, b)).seq
             /\ Mergeable(Bind(worker[w], Said(m, b)), w, Said(m, b))
  <2>1. Finishes(w) /\ Local(w) /\ Since(w, b) = done'[w]
    BY <1>1 DEF Locals, Since
  <2>q. QED
    BY <1>1, <1>2, <2>1, ReadyIs, ReadyMerges
<1>6. ASSUME NEW w \in Workers
      PROVE  /\ worker[w].pc = "idle" /\ worker[w].battle = battle /\ Len(up[w]) = 0
             /\ Len(down'[w]) = 1 /\ down'[w][1] = q
  <2>1. worker[w].pc = "idle" /\ worker[w].battle = battle /\ Len(up[w]) = 0 /\ Len(down[w]) = 0
    BY DEF Finishes, At, Known, Bound
  <2>2. down[w] \in Seq(Downs) /\ down'[w] = Append(down[w], q)
    BY <1>1 DEF Types, WorkerTypes
  <2> HIDE DEF q
  <2>q. QED
    BY <1>2, <2>1, <2>2, OneMessage
<1> HIDE DEF m, q
<1>7. Within(Sum(m), Counted(done', 0))
  <2>1. \A w \in Workers : Within(m.rows[w], done'[w])
    BY <1>2, <1>5, PruneWithin
  <2>q. QED
    BY <1>2, <2>1, SumWithinCounted
<1>8. ASSUME NEW w \in Workers PROVE Carries(down'[w], battle', Counted(done', 0))
  BY <1>1, <1>3, <1>4, <1>6, <1>7 DEF Carries
<1>9. ASSUME NEW w \in Workers PROVE Local(w)'
  <2>1. CASE b = battle
    BY <1>1, <2>1, LocalStays DEF Locals
  <2>2. CASE b # battle
    <3>1. worker'[w] = worker[w] /\ done'[w] = NoRows /\ worker[w].battle # battle'
      BY <1>1, <1>6, <2>2
    <3>q. QED
      BY <1>6, <3>1 DEF Local
  <2>q. QED
    BY <2>1, <2>2
<1>10. ASSUME NEW w \in Workers PROVE Starting(w)'
  <2>1. At(w, "idle", 0, 1)'
    BY <1>1, <1>6 DEF At
  <2>2. Synced(w)'
    BY <1>1, <1>5 DEF Synced
  <2>3. Informs(down[w][1])'
    BY <1>1, <1>3, <1>4, <1>6 DEF Informs
  <2>q. QED
    BY <1>1, <1>3, <1>5, <1>6, <2>1, <2>2, <2>3 DEF Starting
<1>11. Decisions'
  <2>1. Sum(m)[r] \in Nat
    BY <1>2, SumType, PoolAssumption DEF Rows
  <2>q. QED
    BY <1>1, <1>2, <1>10, <2>1 DEF Decisions, Busy
<1>q. QED
  BY <1>1, <1>8, <1>9, <1>11 DEF Locals

LEMMA ExchangesSearch ==
  ASSUME Types, Types', Exchanges, NEW b \in load.battles, NEW r \in Roots, Search(b, r),
         UNCHANGED load
  PROVE  Exchanges'
<1>1. mpc = "idle" /\ answer' = None /\ Locals /\ (\A w \in Workers : Finishes(w))
  BY SearchDoes DEF Exchanges
<1>2. CASE mpc' = "searching"
  <2>1. Locals' /\ Decisions' /\ why' = why
    BY <1>1, <1>2, SearchStarts
  <2>q. QED
    BY <1>1, <1>2, <2>1 DEF Exchanges
<1>3. CASE mpc' # "searching"
  <2>1. /\ b = battle /\ battle' = b /\ mpc' = "failed" /\ why' = "request" /\ down' = down
        /\ done' = done /\ worker' = worker
    BY <1>3, SearchDoes
  <2>2. \A w \in Workers : Local(w)'
    BY <1>1, <2>1, LocalStays DEF Locals
  <2>3. Locals'
    BY <1>1, <2>1, <2>2 DEF Locals
  <2>q. QED
    BY <1>1, <2>1, <2>3 DEF Exchanges
<1>q. QED
  BY <1>2, <1>3

--------------------------------------------------------------------------------
(* The owner takes a message while it searches: it is the next of the      *)
(* exchange, never one to refuse.                                          *)

LEMMA ReplyIs ==
  ASSUME NEW w, NEW m
  PROVE  /\ Reply(w, m).snap = Said(Taken(w, m), battle) /\ Reply(w, m).dec = decision
         /\ Reply(w, m).kind = "ack"
BY DEF Reply, Snapshot, Said

(* What the master has of a worker in a decision was done.                 *)
LEMMA SlotDone ==
  ASSUME Types, NEW v \in Workers, Busy(v) \/ Finishes(v)
  PROVE  Within(master.rows[v], done[v])
<1>1. /\ done[v] \in Rows /\ master.floor \in Nat /\ master.rows[v] \in Rows
      /\ up[v] \in Seq(Ups)
  BY DEF Types, OwnerTypes, WorkerTypes, Masters
<1>2. Prune(done[v], master.floor) \in Rows /\ Within(Prune(done[v], master.floor), done[v])
  BY <1>1, PruneType, PruneWithin
<1>3. Synced(v) => Within(master.rows[v], done[v])
  BY <1>2 DEF Synced
<1>4. Updating(v) => Within(master.rows[v], done[v])
  <2>1. Updating(v) => Within(master.rows[v], Prune(done[v], master.floor))
    BY DEF Updating
  <2>q. QED
    BY <1>1, <1>2, <2>1, WithinTransitive
<1>5. Failing(v) => Within(master.rows[v], done[v])
  BY DEF Failing
<1>q. QED
  BY <1>3, <1>4, <1>5 DEF Busy, Finishes, Starting, Batching, Hearing, Finishing, Known

LEMMA UpdateIs ==
  ASSUME Types, NEW w \in Workers, Updating(w)
  PROVE  LET m == Head(up[w])
         IN /\ m = up[w][1] /\ m \in Updates /\ m.dec = decision
            /\ Acceptable(master, w, m.update)
            /\ Taken(w, m) = Latest(master, w, m.update)
            /\ Prune(m.update.rows, master.floor) = m.update.rows
<1> DEFINE m == up[w][1]
           u == m.update
<1>1. /\ up[w] \in Seq(Ups) /\ done[w] \in Rows /\ master.floor \in Nat
      /\ master.seq \in [Workers -> Nat]
  BY DEF Types, OwnerTypes, WorkerTypes, Masters
<1>2. /\ Len(up[w]) = 1 /\ m.kind = "update" /\ m.dec = decision /\ u.battle = battle
      /\ u.seq = master.seq[w] + 1 /\ u.rows = Prune(done[w], master.floor)
      /\ Within(master.rows[w], u.rows)
  BY DEF Updating, At
<1>3. Head(up[w]) = m /\ m \in Ups
  BY <1>1, <1>2, OneMessage
<1> HIDE DEF m
<1>4. m \in Updates
  BY <1>2, <1>3, UpKinds
<1>5. Prune(u.rows, master.floor) = u.rows
  BY <1>1, <1>2, PruneTwice
<1>6. master.seq[w] \in Nat
  BY <1>1
<1>7. u.seq > master.seq[w] /\ u.seq # master.seq[w]
  BY <1>2, <1>6
<1> HIDE DEF u
<1>8. Acceptable(master, w, u)
  BY <1>2, <1>5, <1>7 DEF Acceptable
<1>9. Taken(w, m) = Latest(master, w, u)
  BY <1>7 DEF Taken, Accept, u
<1>q. QED
  BY <1>2, <1>3, <1>4, <1>5, <1>8, <1>9 DEF m, u

LEMMA UpdatingSteps ==
  ASSUME Types, Types', NEW w \in Workers, Local(w), Updating(w), root \in Roots,
         UNCHANGED <<decision, battle, root, worker, done>>,
         up' = [up EXCEPT ![w] = Tail(@)], master' = Taken(w, Head(up[w])),
         Reply(w, Head(up[w])) \in Acks, Tell(w, Reply(w, Head(up[w])))
  PROVE  /\ Hearing(w)'
         /\ \A snap : Behind(snap, master, battle) => Behind(snap, master', battle)
         /\ \A v \in Workers \ {w} : /\ master'.rows[v] = master.rows[v]
                                     /\ master'.seq[v] = master.seq[v]
         /\ master'.floor = master.floor
         /\ Sum(master')[root] = Sum(master)[root] + Head(up[w]).batch.trajectories
         /\ Within(master'.rows[w], done[w])
<1> DEFINE m == Head(up[w])
           u == m.update
           n == Latest(master, w, u)
           q == Reply(w, m)
           snap == Said(n, battle)
           x == worker[w]
<1>1. /\ m = up[w][1] /\ m \in Updates /\ m.dec = decision /\ master' = n
      /\ Prune(u.rows, master.floor) = u.rows /\ Taken(w, m) = n
  BY UpdateIs
<1>2. /\ master \in Masters /\ u \in Exports /\ m.batch.trajectories \in Nat
      /\ x \in Records /\ done[w] \in Rows /\ battle \in Battles /\ root \in States
      /\ up[w] \in Seq(Ups) /\ down[w] \in Seq(Downs) /\ up \in [Workers -> Seq(Ups)]
      /\ down \in [Workers -> Seq(Downs)]
  BY <1>1, PoolAssumption DEF Types, OwnerTypes, WorkerTypes, Updates
<1>3. /\ At(w, "exchange", 1, 0) /\ Searches(w)
      /\ x.battle = battle /\ x.floor <= master.floor
      /\ (x.last # None => Behind(x.last, master, battle))
      /\ u.seq = x.seq /\ u.rows = Prune(done[w], master.floor) /\ Within(master.rows[w], u.rows)
      /\ u.rows[root] = master.rows[w][root] + m.batch.trajectories
  BY <1>1 DEF Updating, Bound
<1>4. /\ q.snap = snap /\ q.dec = decision /\ q.kind = "ack" /\ q \in Downs
  BY <1>1, ReplyIs DEF Downs
<1> HIDE DEF m, u, q, x
<1>5. /\ n \in Masters /\ n.floor = master.floor /\ n.version = master.version + 1
      /\ n.rows[w] = u.rows /\ n.seq[w] = u.seq
      /\ \A v \in Workers \ {w} : n.rows[v] = master.rows[v] /\ n.seq[v] = master.seq[v]
  BY <1>1, <1>2, LatestIs
<1>6. \A s : Behind(s, master, battle) => Behind(s, n, battle)
  BY <1>1, <1>2, <1>3, BehindLatest
<1> HIDE DEF n
<1>7. Sum(n)[root] = Sum(master)[root] + m.batch.trajectories
  <2> DEFINE k == m.batch.trajectories
  <2>1. n.rows[w][root] = master.rows[w][root] + k
    BY <1>3, <1>5
  <2>2. k \in Nat /\ root \in States /\ master \in Masters /\ n \in Masters
    BY <1>2, <1>5
  <2>3. \A v \in Workers \ {w} : n.rows[v] = master.rows[v]
    BY <1>5
  <2> HIDE DEF k
  <2>4. Sum(n)[root] = Sum(master)[root] + k
    BY <2>1, <2>2, <2>3, SumGrows
  <2>q. QED
    BY <2>4 DEF k
<1>8. Mergeable(x, w, snap)
  <2>1. Honest(x, done[w])
    BY <1>3 DEF Local, x
  <2>2. x.last # None => Behind(x.last, n, battle)
    BY <1>3, <1>6
  <2>q. QED
    BY <1>2, <1>3, <1>5, <2>1, <2>2, MergesTheMaster DEF snap
<1>9. snap.floor = master.floor /\ Behind(snap, n, battle)
  BY <1>2, <1>5, SaidType, SaidIsBehind
<1> HIDE DEF snap
<1>10. Len(up'[w]) = 0 /\ Len(down'[w]) = 1 /\ down'[w][1] = q
  <2>1. up'[w] = Tail(up[w]) /\ down'[w] = Append(down[w], q)
    BY <1>2 DEF Tell, q, m
  <2>q. QED
    BY <1>2, <1>3, <1>4, <2>1, OneMessage DEF At
<1>11. Hearing(w)'
  <2>1. At(w, "exchange", 0, 1)'
    BY <1>3, <1>10 DEF At
  <2>2. Searches(w)' /\ Synced(w)'
    BY <1>1, <1>3, <1>5 DEF Searches, Synced, x
  <2>3. Informs(down[w][1])'
    BY <1>1, <1>4, <1>5, <1>9, <1>10 DEF Informs
  <2>4. worker'[w].battle = battle' /\ master'.seq[w] = worker'[w].seq
    BY <1>1, <1>3, <1>5 DEF x
  <2>5. down'[w][1].kind = "ack" /\ Mergeable(worker'[w], w, down'[w][1].snap)
    BY <1>4, <1>8, <1>10 DEF x
  <2>q. QED
    BY <2>1, <2>2, <2>3, <2>4, <2>5 DEF Hearing
<1>12. Within(n.rows[w], done[w])
  BY <1>2, <1>3, <1>5, PruneWithin DEF Masters
<1>q. QED
  BY <1>1, <1>5, <1>6, <1>7, <1>11, <1>12 DEF m

(* A step that leaves the workers and what was done alone keeps the locals *)
(* when it appends at most messages that fit.                              *)
LEMMA LocalsKept ==
  ASSUME Types, Locals, UNCHANGED <<battle, worker, done>>,
         \A w \in Workers : \/ down'[w] = down[w]
                            \/ \E m \in Downs : /\ down'[w] = Append(down[w], m)
                                                /\ Fits(m, battle, Counted(done, 0))
  PROVE  Locals'
<1>1. \A w \in Workers : Local(w)'
  BY LocalStays DEF Locals
<1>2. ASSUME NEW w \in Workers PROVE Carries(down'[w], battle, Counted(done, 0))
  <2>1. Carries(down[w], battle, Counted(done, 0)) /\ down[w] \in Seq(Downs)
    BY DEF Locals, Types, WorkerTypes
  <2>q. QED
    BY <2>1, CarriesAppend
<1>q. QED
  BY <1>1, <1>2 DEF Locals

LEMMA ExchangesReceive ==
  ASSUME Types, Types', Exchanges, NEW w \in Workers, Receive(w)
  PROVE  Exchanges'
<1> DEFINE m == Head(up[w])
<1>1. /\ mpc = "searching" /\ w \in pending /\ up[w] # <<>> /\ up' = [up EXCEPT ![w] = Tail(@)]
      /\ UNCHANGED <<decision, battle, root, before, answer, worker, procVars, done>>
      /\ Locals /\ Decisions /\ answer = None /\ root \in Roots
      /\ why \notin {"statistics", "root", "drift"}
  BY DEF Receive, Exchanges, Decisions
<1>2. /\ up[w] \in Seq(Ups) /\ up \in [Workers -> Seq(Ups)] /\ Local(w) /\ m = up[w][1]
      /\ Len(up[w]) # 0 /\ \A v \in Workers \ {w} : up'[v] = up[v]
  BY <1>1, OneMessage DEF Types, WorkerTypes, Locals
<1>3. ReceiveCases(w)
  BY ReceiveDoes
<1>4. Updating(w) \/ Finishing(w) \/ Failing(w)
  <2>1. Busy(w)
    BY <1>1 DEF Decisions
  <2>q. QED
    BY <1>2, <2>1 DEF Busy, Starting, Batching, Hearing, At
<1>5. CASE Updating(w)
  <2>1. /\ m \in Updates /\ m.dec = decision /\ Acceptable(master, w, m.update) /\ Mine(w, m)
        /\ m.kind = "update"
    BY <1>5, UpdateIs DEF Mine, Updates
  <2>2. /\ Taken(w, m) \in Masters /\ Reply(w, m) \in Acks
        /\ master' = Taken(w, m) /\ completed' = completed + m.batch.trajectories
        /\ Tell(w, Reply(w, m)) /\ UNCHANGED <<mpc, why, pending>>
    <3> HIDE DEF m
    <3>q. QED
      BY <1>3, <2>1 DEF ReceiveCases, m, Dones, Errors
  <2>3. /\ Hearing(w)'
        /\ \A snap : Behind(snap, master, battle) => Behind(snap, master', battle)
        /\ \A v \in Workers \ {w} : /\ master'.rows[v] = master.rows[v]
                                    /\ master'.seq[v] = master.seq[v]
        /\ master'.floor = master.floor
        /\ Sum(master')[root] = Sum(master)[root] + m.batch.trajectories
        /\ Within(master'.rows[w], done[w])
    BY <1>1, <1>2, <1>5, <2>2, UpdatingSteps
  <2>4. m.batch.trajectories \in Nat /\ Reply(w, m) \in Downs
        /\ Reply(w, m).snap = Said(Taken(w, m), battle)
    BY <2>1, <2>2, ReplyIs DEF Updates, Downs
  <2> HIDE DEF m
  <2>5. \A v \in Workers \ {w} : down'[v] = down[v]
    BY <2>2 DEF Tell, Types, WorkerTypes
  <2>6. ASSUME NEW v \in Workers \ {w}
        PROVE  (Busy(v) => Busy(v)') /\ (Finishes(v) => Finishes(v)')
    BY <1>1, <1>2, <2>3, <2>5, SlotKept
  <2>7. Decisions'
    <3>1. Sum(master')[root'] = before' + completed'
      <4>1. completed \in Nat /\ before \in Nat /\ Sum(master)[root] = before + completed
        BY <1>1 DEF Decisions, Types, OwnerTypes
      <4>q. QED
        BY <4>1, <1>1, <2>2, <2>3, <2>4
    <3>2. \A v \in Workers : IF v \in pending' THEN Busy(v)' ELSE Finishes(v)'
      BY <1>1, <2>2, <2>3, <2>6 DEF Decisions, Busy
    <3>q. QED
      BY <1>1, <2>3, <3>1, <3>2 DEF Decisions
  <2>8. Within(Sum(Taken(w, m)), Counted(done, 0))
    <3>1. \A v \in Workers : Within(Taken(w, m).rows[v], done[v])
      BY <1>1, <2>2, <2>3, SlotDone DEF Decisions
    <3>q. QED
      BY <2>2, <3>1, SumWithinCounted DEF Types, WorkerTypes
  <2>9. Fits(Reply(w, m), battle, Counted(done, 0))
    BY <2>4, <2>8 DEF Fits, Said
  <2>10. Locals'
    <3>1. down'[w] = Append(down[w], Reply(w, m))
      BY <2>2 DEF Tell, Types, WorkerTypes
    <3>q. QED
      BY <1>1, <2>4, <2>5, <2>9, <3>1, LocalsKept
  <2>q. QED
    BY <1>1, <2>2, <2>7, <2>10 DEF Exchanges
<1>6. CASE Finishing(w)
  <2>1. m.kind = "done" /\ m.dec = decision /\ Mine(w, m)
    BY <1>2, <1>6 DEF Finishing, Mine
  <2>2. pending' = pending \ {w} /\ UNCHANGED <<mpc, why, completed, master, down>>
    <3> HIDE DEF m
    <3>q. QED
      BY <1>3, <2>1 DEF ReceiveCases, m, Updates, Errors
  <2>3. \A snap : Behind(snap, master, battle) => Behind(snap, master', battle)
    BY <2>2
  <2>4. ASSUME NEW v \in Workers \ {w}
        PROVE  (Busy(v) => Busy(v)') /\ (Finishes(v) => Finishes(v)')
    BY <1>1, <1>2, <2>2, SlotKept
  <2>5. Finishes(w)'
    <3>1. At(w, "idle", 1, 0) /\ Known(w)
      BY <1>6 DEF Finishing
    <3>2. up'[w] = Tail(up[w]) /\ Len(Tail(up[w])) = 0
      BY <1>1, <1>2, <3>1, OneMessage DEF At
    <3>3. At(w, "idle", 0, 0)'
      BY <1>1, <2>2, <3>1, <3>2 DEF At
    <3>4. Known(w)'
      BY <1>1, <2>2, <3>1 DEF Known, Bound, Synced
    <3>q. QED
      BY <3>3, <3>4 DEF Finishes
  <2>6. Decisions'
    <3>1. \A v \in Workers : IF v \in pending' THEN Busy(v)' ELSE Finishes(v)'
      BY <1>1, <2>2, <2>4, <2>5 DEF Decisions
    <3>q. QED
      BY <1>1, <2>2, <3>1 DEF Decisions
  <2>7. Locals'
    BY <1>1, <2>2, LocalsKept
  <2>q. QED
    BY <1>1, <2>2, <2>6, <2>7 DEF Exchanges
<1>7. CASE Failing(w)
  <2>1. m.kind = "error" /\ m.cause = "runtime"
    BY <1>2, <1>7 DEF Failing
  <2>2. mpc' = "failed" /\ why' = "runtime" /\ UNCHANGED <<pending, left, completed, master, down>>
    <3> HIDE DEF m
    <3>q. QED
      BY <1>3, <2>1 DEF ReceiveCases, m, Updates, Dones, Mine
  <2>3. Locals'
    BY <1>1, <2>2, LocalsKept
  <2>q. QED
    BY <1>1, <2>2, <2>3 DEF Exchanges
<1>q. QED
  BY <1>4, <1>5, <1>6, <1>7

--------------------------------------------------------------------------------
(* The startup, the answer and the close.                                  *)

LEMMA ExchangesInit == Init => Exchanges
<1> SUFFICES ASSUME Init PROVE Exchanges
  OBVIOUS
<1>1. /\ Types /\ worker = [w \in Workers |-> Newborn] /\ done = [w \in Workers |-> NoRows]
      /\ up = [w \in Workers |-> <<>>] /\ down = [w \in Workers |-> <<>>] /\ battle = None
      /\ mpc = "starting" /\ pending = Workers /\ master = Fresh /\ answer = None /\ why = "sound"
  BY TypesInit DEF Init
<1>2. Newborn = [Newborn EXCEPT !.pc = Newborn.pc] /\ Newborn.pc = "born"
  BY DEF Newborn
<1>3. ASSUME NEW w \in Workers PROVE Unbound(w) /\ Born(w)
  <2>1. worker[w] = Newborn /\ Len(up[w]) = 0 /\ Len(down[w]) = 0
    BY <1>1
  <2>q. QED
    BY <1>2, <2>1 DEF Unbound, Born, At
<1>4. Workers # {}
  BY PoolAssumption DEF Workers
<1>5. Startups
  BY <1>1, <1>3, <1>4 DEF Startups
<1>6. ASSUME NEW w \in Workers PROVE Local(w)
  <2>1. Honest(Newborn, NoRows)
    BY PruneNothing DEF Honest, Newborn
  <2>2. done \in [Workers -> Rows]
    BY <1>1 DEF Types, WorkerTypes
  <2>3. Within(NoRows, Counted(done, 0))
    BY <2>2, CountedType DEF Within, NoRows, Rows
  <2>4. worker[w] = Newborn /\ done[w] = NoRows /\ Newborn.battle = None /\ Newborn.view = NoRows
    BY <1>1 DEF Newborn
  <2>q. QED
    BY <1>1, <2>1, <2>3, <2>4 DEF Local
<1>7. Locals
  BY <1>1, <1>6 DEF Locals, Carries
<1>q. QED
  BY <1>1, <1>5, <1>7 DEF Exchanges

(* A step after which the pool neither starts nor searches nor is idle.    *)
LEMMA ExchangesOver ==
  ASSUME Locals', mpc' \notin {"starting", "idle", "searching"}, answer' = None,
         why' \notin {"statistics", "root", "drift"}
  PROVE  Exchanges'
BY DEF Exchanges

LEMMA PlainFits ==
  \A k \in {"isolation_ack", "close", "cleanup_ack"} :
    \A b, c : Message(k) \in Downs /\ Fits(Message(k), b, c)
BY Plains DEF Fits

LEMMA AnswersNone ==
  ASSUME Exchanges, mpc \notin {"idle", "dead"}
  PROVE  answer = None
BY DEF Exchanges, Answered

LEMMA ExchangesStartup ==
  ASSUME Types, Types', Exchanges, NEW w \in Workers, Startup(w)
  PROVE  Exchanges'
<1>1. /\ mpc = "starting" /\ w \in pending /\ up[w] # <<>> /\ up' = [up EXCEPT ![w] = Tail(@)]
      /\ UNCHANGED <<battle, master, worker, done, answer>>
      /\ Locals /\ Startups /\ answer = None
      /\ why \notin {"statistics", "root", "drift"}
  BY DEF Startup, Exchanges, Startups
<1>2. /\ up[w] \in Seq(Ups) /\ up \in [Workers -> Seq(Ups)] /\ down[w] \in Seq(Downs)
      /\ down \in [Workers -> Seq(Downs)]
  BY DEF Types, WorkerTypes
<1>3. /\ Head(up[w]) = up[w][1] /\ Len(up[w]) # 0 /\ up'[w] = Tail(up[w])
      /\ (Len(up[w]) = 1 => Len(up'[w]) = 0)
      /\ \A v \in Workers \ {w} : up'[v] = up[v]
  BY <1>1, <1>2, OneMessage
<1>4. \/ At(w, "isolated", 1, 0) /\ up[w][1].kind = "isolation"
      \/ At(w, "idle", 1, 0) /\ up[w][1].kind = "boot"
      \/ up[w][1].kind = "error"
  BY <1>1, <1>3 DEF Startups, Born, At
<1>5. CASE mpc' = "failed" /\ why' = "startup" /\ UNCHANGED down
  <2>1. Locals'
    BY <1>1, <1>5, LocalsKept
  <2>q. QED
    BY <1>1, <1>5, <2>1, ExchangesOver
<1>6. CASE /\ Head(up[w]).kind = "isolation" /\ Tell(w, Message("isolation_ack"))
           /\ UNCHANGED <<mpc, pending, why>>
  <2>1. /\ down'[w] = Append(down[w], Message("isolation_ack"))
        /\ \A v \in Workers \ {w} : down'[v] = down[v]
    BY <1>2, <1>6 DEF Tell
  <2>2. Locals'
    BY <1>1, <2>1, LocalsKept, PlainFits
  <2>3. At(w, "isolated", 1, 0)
    BY <1>3, <1>4, <1>6
  <2>4. Len(down'[w]) = 1
    BY <1>2, <2>1, <2>3, OneMessage, Plains DEF At
  <2>5. At(w, "isolated", 0, 1)'
    BY <1>1, <1>3, <2>3, <2>4 DEF At
  <2>6. \A v \in Workers \ {w} : (Born(v) => Born(v)') /\ (At(v, "idle", 0, 0) => At(v, "idle", 0, 0)')
    BY <1>1, <1>3, <2>1 DEF Born, At
  <2>7. \A v \in Workers : Unbound(v)'
    BY <1>1 DEF Startups, Unbound
  <2>8. Startups'
    BY <1>1, <1>6, <2>5, <2>6, <2>7 DEF Startups, Born
  <2>q. QED
    BY <1>1, <1>6, <2>2, <2>8 DEF Exchanges
<1>7. CASE /\ Head(up[w]).kind = "boot" /\ pending' = pending \ {w}
           /\ mpc' = IF pending' = {} THEN "idle" ELSE mpc
           /\ UNCHANGED <<down, why>>
  <2>1. Locals'
    BY <1>1, <1>7, LocalsKept
  <2>2. At(w, "idle", 1, 0)
    BY <1>3, <1>4, <1>7
  <2>3. At(w, "idle", 0, 0)'
    BY <1>1, <1>3, <1>7, <2>2 DEF At
  <2>4. \A v \in Workers \ {w} : (Born(v) => Born(v)') /\ (At(v, "idle", 0, 0) => At(v, "idle", 0, 0)')
    BY <1>1, <1>3, <1>7 DEF Born, At
  <2>5. \A v \in Workers : Unbound(v)'
    BY <1>1 DEF Startups, Unbound
  <2>6. \A v \in Workers : IF v \in pending' THEN Born(v)' ELSE At(v, "idle", 0, 0)'
    BY <1>1, <1>7, <2>3, <2>4 DEF Startups
  <2>7. CASE pending' # {}
    <3>1. Startups'
      BY <1>1, <2>5, <2>6, <2>7 DEF Startups
    <3>q. QED
      BY <1>1, <1>7, <2>1, <2>7, <3>1 DEF Exchanges
  <2>8. CASE pending' = {}
    <3>1. ASSUME NEW v \in Workers PROVE Finishes(v)'
      <4>1. At(v, "idle", 0, 0)'
        BY <2>6, <2>8
      <4>2. /\ worker'[v] = [Newborn EXCEPT !.pc = worker'[v].pc] /\ battle' = None
            /\ master' = Fresh /\ done'[v] = NoRows
        BY <1>1, <2>5 DEF Startups, Unbound
      <4>3. worker'[v].battle = None /\ worker'[v].floor = 0 /\ worker'[v].last = None
            /\ worker'[v].seq = 0
        BY <4>2 DEF Newborn
      <4>4. master'.floor = 0 /\ master'.rows[v] = NoRows /\ master'.seq[v] = 0
        BY <4>2 DEF Fresh
      <4>5. Prune(NoRows, 0) = NoRows
        BY PruneNothing
      <4>6. Known(v)'
        BY <4>2, <4>3, <4>4, <4>5 DEF Known, Bound, Synced
      <4>q. QED
        BY <4>1, <4>6 DEF Finishes
    <3>q. QED
      BY <1>1, <1>7, <2>1, <2>8, <3>1 DEF Exchanges
  <2>q. QED
    BY <2>7, <2>8
<1>q. QED
  BY <1>5, <1>6, <1>7 DEF Startup

LEMMA ExchangesAnswer ==
  ASSUME Types, Types', Exchanges, Answer
  PROVE  Exchanges'
<1>1. /\ mpc = "searching" /\ Locals /\ Decisions /\ answer = None /\ pending = {}
      /\ why \notin {"statistics", "root", "drift"}
      /\ UNCHANGED <<pending, battle, root, master, worker, up, down, done>>
  BY DEF Answer, Finished, Exchanges, Decisions
<1>2. Locals'
  BY <1>1, LocalsKept
<1>3. ASSUME NEW w \in Workers PROVE Finishes(w)
  BY <1>1 DEF Decisions
<1>4. ~(Sum(master)[root] < before + completed)
  BY <1>1 DEF Decisions, Types, OwnerTypes
<1>5. CASE completed = 0
  BY <1>1, <1>2, <1>5, ExchangesOver DEF Answer, Poison
<1>6. CASE completed # 0
  <2>1. answer' = [visits |-> Sum(master), new |-> completed] /\ mpc' = "idle" /\ why' = why
    BY <1>4, <1>6 DEF Answer
  <2>2. \A w \in Workers : Finishes(w)'
    BY <1>1, <1>3 DEF Finishes, At, Known, Bound, Synced
  <2>3. Sum(master) = Counted(done, master.floor)
    BY <1>3, SumIsCounted DEF Types, OwnerTypes, WorkerTypes, Finishes, Known, Synced
  <2>4. ASSUME NEW w \in Workers PROVE down[w] = <<>> /\ worker[w].pc = "idle"
    <3>1. Len(down[w]) = 0 /\ worker[w].pc = "idle" /\ down[w] \in Seq(Downs)
      BY <1>3 DEF Finishes, At, Types, WorkerTypes
    <3>q. QED
      BY <3>1, OneMessage
  <2>5. Answered'
    BY <1>1, <2>1, <2>3, <2>4 DEF Answered
  <2>q. QED
    BY <1>1, <1>2, <2>1, <2>2, <2>5 DEF Exchanges
<1>q. QED
  BY <1>5, <1>6

LEMMA ExchangesOwner ==
  ASSUME Types, Types', Exchanges,
         \/ Lost \/ Answer \/ Grace \/ Close \/ Expire \/ OwnerDies
         \/ \E w \in Workers : Spawn(w) \/ Startup(w) \/ Drain(w) \/ Dismiss(w) \/ Join(w)
  PROVE  Exchanges'
<1>0. Locals /\ why \notin {"statistics", "root", "drift"} /\ down \in [Workers -> Seq(Downs)]
  BY DEF Exchanges, Types, WorkerTypes
<1>1. CASE Lost
  <2>1. /\ mpc \in {"starting", "searching"} /\ mpc' = "failed" /\ why' \in {"startup", "transport"}
        /\ UNCHANGED <<battle, worker, done, down, answer>>
    BY <1>1 DEF Lost, Poison
  <2>2. Locals' /\ answer = None
    BY <1>0, <2>1, LocalsKept, AnswersNone
  <2>q. QED
    BY <2>1, <2>2, ExchangesOver
<1>2. CASE Answer
  BY <1>2, ExchangesAnswer
<1>3. CASE Grace
  <2>1. mpc = "closing" /\ mpc' = "reaping" /\ UNCHANGED <<battle, worker, done, down, answer, why>>
    BY <1>3 DEF Grace
  <2>2. Locals' /\ answer = None
    BY <1>0, <2>1, LocalsKept, AnswersNone
  <2>q. QED
    BY <1>0, <2>1, <2>2, ExchangesOver
<1>4. CASE Close
  <2>1. /\ mpc' = "closing" /\ answer' = None /\ UNCHANGED <<battle, worker, done, why>>
        /\ down' = [w \in Workers |-> IF proc[w] = "live" THEN Append(down[w], Message("close"))
                                      ELSE down[w]]
    BY <1>4 DEF Close
  <2>2. Locals'
    BY <1>0, <2>1, LocalsKept, PlainFits
  <2>q. QED
    BY <1>0, <2>1, <2>2, ExchangesOver
<1>5. CASE Expire
  <2>1. /\ mpc = "searching" /\ UNCHANGED ownerVars /\ UNCHANGED <<worker, up, down, done>>
    BY <1>5 DEF Expire
  <2>2. Locals' /\ answer = None
    BY <1>0, <2>1, LocalsKept, AnswersNone DEF ownerVars
  <2>3. \A snap : Behind(snap, master, battle) => Behind(snap, master', battle)
    BY <2>1 DEF ownerVars
  <2>4. \A v \in Workers : (Busy(v) => Busy(v)') /\ (Finishes(v) => Finishes(v)')
    BY <2>1, <2>3, SlotKept DEF ownerVars
  <2>5. Decisions'
    BY <2>1, <2>4 DEF Exchanges, Decisions, ownerVars
  <2>q. QED
    BY <1>0, <2>1, <2>2, <2>5 DEF Exchanges, ownerVars
<1>6. CASE OwnerDies
  <2>1. /\ mpc # "dead" /\ mpc' = "dead"
        /\ UNCHANGED <<battle, worker, done, down, answer, why, master>>
    BY <1>6 DEF OwnerDies, Owner
  <2>2. Locals'
    BY <1>0, <2>1, LocalsKept
  <2>3. answer # None => Answered'
    BY <2>1 DEF Exchanges, Answered
  <2>q. QED
    BY <1>0, <2>1, <2>2, <2>3 DEF Exchanges
<1>7. ASSUME NEW w \in Workers, Spawn(w) PROVE Exchanges'
  <2>1. /\ mpc = "starting" /\ UNCHANGED <<pending, battle, worker, done, up, down, answer, master>>
        /\ \/ mpc' = "failed" /\ why' = "startup"
           \/ UNCHANGED <<mpc, why>>
    BY <1>7 DEF Spawn
  <2>2. Locals' /\ answer = None
    BY <1>0, <2>1, LocalsKept, AnswersNone
  <2>3. CASE mpc' = "failed" /\ why' = "startup"
    BY <2>1, <2>2, <2>3, ExchangesOver
  <2>4. CASE UNCHANGED <<mpc, why>>
    <3>1. Startups'
      BY <2>1 DEF Exchanges, Startups, Unbound, Born, At
    <3>q. QED
      BY <1>0, <2>1, <2>2, <2>4, <3>1 DEF Exchanges
  <2>q. QED
    BY <2>1, <2>3, <2>4
<1>8. ASSUME NEW w \in Workers, Startup(w) PROVE Exchanges'
  BY <1>8, ExchangesStartup
<1>9. ASSUME NEW w \in Workers, Drain(w) PROVE Exchanges'
  <2>1. /\ mpc = "closing" /\ UNCHANGED <<mpc, battle, worker, done, answer, why>>
        /\ \/ UNCHANGED down
           \/ Tell(w, Message("isolation_ack"))
    BY <1>9 DEF Drain
  <2>2. \A v \in Workers : \/ down'[v] = down[v]
                           \/ down'[v] = Append(down[v], Message("isolation_ack"))
    BY <1>0, <2>1 DEF Tell
  <2>3. Locals' /\ answer = None
    BY <1>0, <2>1, <2>2, LocalsKept, PlainFits, AnswersNone
  <2>q. QED
    BY <1>0, <2>1, <2>3, ExchangesOver
<1>10. ASSUME NEW w \in Workers, Dismiss(w) PROVE Exchanges'
  <2>1. /\ mpc = "reaping" /\ mpc' = "joining" /\ UNCHANGED <<battle, worker, done, answer, why>>
        /\ \/ UNCHANGED down
           \/ Tell(w, Message("cleanup_ack"))
    BY <1>10 DEF Dismiss
  <2>2. \A v \in Workers : \/ down'[v] = down[v]
                           \/ down'[v] = Append(down[v], Message("cleanup_ack"))
    BY <1>0, <2>1 DEF Tell
  <2>3. Locals' /\ answer = None
    BY <1>0, <2>1, <2>2, LocalsKept, PlainFits, AnswersNone
  <2>q. QED
    BY <1>0, <2>1, <2>3, ExchangesOver
<1>11. ASSUME NEW w \in Workers, Join(w) PROVE Exchanges'
  <2>1. /\ mpc = "joining" /\ mpc' \in {"closed", "reaping"}
        /\ UNCHANGED <<battle, worker, done, down, answer, why>>
    BY <1>11 DEF Join
  <2>2. Locals' /\ answer = None
    BY <1>0, <2>1, LocalsKept, AnswersNone
  <2>q. QED
    BY <1>0, <2>1, <2>2, ExchangesOver
<1>q. QED
  BY <1>1, <1>2, <1>3, <1>4, <1>5, <1>6, <1>7, <1>8, <1>9, <1>10, <1>11

LEMMA ExchangesStep ==
  ASSUME Types, Types', Exchanges, [Next /\ UNCHANGED load]_vars
  PROVE  Exchanges'
<1>1. CASE UNCHANGED vars
  <2>1. UNCHANGED ownerVars /\ UNCHANGED <<worker, up, down, done>>
    BY <1>1 DEF vars, moving
  <2>2. Locals'
    BY <2>1, LocalsKept DEF Exchanges, ownerVars
  <2>3. \A snap : Behind(snap, master, battle) => Behind(snap, master', battle)
    BY <2>1 DEF ownerVars
  <2>4. \A v \in Workers : (Busy(v) => Busy(v)') /\ (Finishes(v) => Finishes(v)')
    BY <2>1, <2>3, SlotKept DEF ownerVars
  <2>5. Decisions => Decisions'
    BY <2>1, <2>4 DEF Decisions, ownerVars
  <2>6. Startups => Startups'
    BY <2>1 DEF Startups, Unbound, Born, At, ownerVars
  <2>7. Answered => Answered'
    BY <2>1 DEF Answered, ownerVars
  <2>q. QED
    BY <2>1, <2>2, <2>4, <2>5, <2>6, <2>7 DEF Exchanges, ownerVars
<1>2. CASE Next /\ UNCHANGED load
  BY <1>2, NextSplits, ExchangesSearch, ExchangesReceive, ExchangesWorker, ExchangesOwner
<1>q. QED
  BY <1>1, <1>2

LEMMA ExchangesHold == Spec => [](Types /\ Exchanges)
BY TypesInit, TypesStep, ExchangesInit, ExchangesStep, PTL DEF Spec

(* What the owner answers with is everything that every worker completed   *)
(* in the battle, each visit once (StatisticsMaster.accept and _snapshot,  *)
(* run_decision), however many workers there are, whatever they searched   *)
(* and however their exports interleaved.                                  *)
THEOREM AnswerCountsEverythingHolds == Spec => []AnswerCountsEverything
<1>1. Types /\ Exchanges => AnswerCountsEverything
  BY DEF Exchanges, Answered, AnswerCountsEverything, Everything, Counted
<1>q. QED
  BY <1>1, ExchangesHold, PTL

(* A worker's tree never holds more evidence of a state than all workers   *)
(* together have produced: merge_statistics and export_statistics return   *)
(* neither its own visits nor another's twice.                             *)
THEOREM NothingCountedTwiceHolds == Spec => []NothingCountedTwice
<1>1. Types /\ Exchanges => NothingCountedTwice
  BY DEF Exchanges, Locals, Local, NothingCountedTwice, Everything, Counted
<1>q. QED
  BY <1>1, ExchangesHold, PTL

(* No check of the exchange (the regressions StatisticsMaster.accept       *)
(* refuses, the merges merge_statistics refuses, the message order and the *)
(* root's count that run_decision demands) ever refuses what its own       *)
(* processes send, so that the pool is poisoned by real failures only.     *)
THEOREM ExchangeNeverRefusesHolds == Spec => []ExchangeNeverRefuses
<1>1. Types /\ Exchanges => ExchangeNeverRefuses
  BY DEF Exchanges, ExchangeNeverRefuses
<1>q. QED
  BY <1>1, ExchangesHold, PTL

--------------------------------------------------------------------------------
(* Types.  The pipes: what a worker still sends before it hears of the     *)
(* owner again, and what the owner still tells it, fit in them.            *)

Count(b) == IF b THEN 1 ELSE 0

(* The most messages a worker in this place of its loop sends before the   *)
(* next task, and the most a pool in this phase tells a worker that has no *)
(* task and has reported its group.                                        *)
Owes(l) == IF l = "born" THEN 4 ELSE IF l \in {"isolated", "batch"} THEN 3
           ELSE IF l \in {"idle", "exchange"} THEN 2 ELSE IF l = "finally" THEN 1 ELSE 0
Tells(w) == IF mpc \in {"starting", "idle", "searching", "failed"} THEN 2
            ELSE IF mpc = "closing" THEN 1
            ELSE IF w \in pending /\ (mpc = "reaping" \/ (mpc = "joining" /\ w # Min(pending)))
            THEN 1 ELSE 0

IsTask(m) == m.kind \in {"start", "ack"}
Tasked(d) == d # <<>> /\ IsTask(d[1])
Unasked(l, u) == l = "born" \/ (u # <<>> /\ u[1].kind = "isolation")

(* A worker at l with the pipes u and d, which is told t more messages.    *)
Room(l, u, d, t) ==
  /\ l = "born" => u = <<>>
  /\ \A i \in 2 .. Len(u) : u[i].kind # "isolation"
  /\ \A i \in 2 .. Len(d) : ~IsTask(d[i])
  /\ Len(d) + Count(Unasked(l, u)) + t <= 3
  /\ Len(u) + Owes(l) + Count(Tasked(d)) <= 4

Rooms == \A w \in Workers : Room(worker[w].pc, up[w], down[w], Tells(w))

(* No batch, in a worker or asked or reported, is larger than c.           *)
Held(l, n, u, d, c) ==
  /\ l = "batch" => n <= c
  /\ \A i \in 1 .. Len(d) : IsTask(d[i]) => d[i].limit <= c
  /\ \A i \in 1 .. Len(u) : u[i].kind = "update" => u[i].batch.trajectories <= c

Wanted(w) == load.quota - left[w]
Quotas ==
  /\ \A w \in Workers :
       /\ worker[w].limit <= BatchSize /\ left[w] <= load.quota
       /\ Held(worker[w].pc, worker[w].limit, up[w], down[w], BatchSize)
       /\ mpc = "searching" => Held(worker[w].pc, worker[w].limit, up[w], down[w], left[w])
  /\ completed <= Total([w \in Workers |-> Wanted(w)])

Phases ==
  /\ mpc \in {"starting", "idle", "searching", "failed", "closing", "reaping", "joining",
              "closed", "dead"}
  /\ why \in {"sound", "startup", "request", "runtime", "transport", "empty", "statistics",
              "root", "drift"}
  /\ hung \subseteq Workers /\ faults \in 0 .. load.faults

(* What a step does to a worker's place and pipes, one change at a time.   *)
LEMMA AppendedIs ==
  ASSUME NEW S, NEW q \in Seq(S), NEW m \in S
  PROVE  /\ Append(q, m) \in Seq(S) /\ Append(q, m) # <<>>
         /\ Len(Append(q, m)) = Len(q) + 1 /\ Len(q) \in Nat
         /\ \A i \in 1 .. Len(q) : Append(q, m)[i] = q[i]
         /\ Append(q, m)[Len(q) + 1] = m
OBVIOUS

LEMMA TailIs ==
  ASSUME NEW S, NEW q \in Seq(S), q # <<>>
  PROVE  /\ Tail(q) \in Seq(S) /\ Head(q) = q[1] /\ q[1] \in S
         /\ Len(q) \in Nat /\ Len(q) >= 1 /\ Len(Tail(q)) = Len(q) - 1
         /\ \A i \in 1 .. Len(Tail(q)) : Tail(q)[i] = q[i + 1] /\ i + 1 \in 2 .. Len(q)
         /\ Tail(q) # <<>> => 1 \in 1 .. Len(Tail(q))
OBVIOUS

LEMMA OwesType == \A l : Owes(l) \in 0 .. 4
BY DEF Owes

LEMMA LessLeft ==
  ASSUME NEW a \in Nat, NEW b \in Nat, NEW e \in Nat, NEW f \in Nat, NEW t \in Nat,
         a + b + t <= 3, e <= a, f <= b
  PROVE  e + f + t <= 3
OBVIOUS

(* The worker goes on, in silence.                                         *)
LEMMA RoomMoves ==
  ASSUME NEW l, NEW n, NEW u \in Seq(Ups), NEW d \in Seq(Downs), NEW t \in Nat,
         Room(l, u, d, t), n # "born", Owes(n) <= Owes(l)
  PROVE  Room(n, u, d, t)
<1>1. Len(u) \in Nat /\ Len(d) \in Nat /\ Owes(n) \in Nat /\ Owes(l) \in Nat
  BY OwesType
<1>2. Count(Unasked(n, u)) <= Count(Unasked(l, u))
  BY DEF Count, Unasked
<1>3. Count(Unasked(n, u)) \in Nat /\ Count(Unasked(l, u)) \in Nat /\ Count(Tasked(d)) \in Nat
  BY DEF Count
<1>4. /\ \A i \in 2 .. Len(u) : u[i].kind # "isolation"
      /\ \A i \in 2 .. Len(d) : ~IsTask(d[i])
      /\ Len(d) + Count(Unasked(l, u)) + t <= 3
      /\ Len(u) + Owes(l) + Count(Tasked(d)) <= 4
  BY DEF Room
<1>5. Len(d) + Count(Unasked(n, u)) + t <= 3
  BY <1>1, <1>2, <1>3, <1>4, LessLeft
<1>6. Len(u) + Owes(n) + Count(Tasked(d)) <= 4
  <2> DEFINE a == Len(u)
             c == Count(Tasked(d))
             x == Owes(l)
             y == Owes(n)
  <2>1. a \in Nat /\ c \in Nat /\ x \in Nat /\ y \in Nat /\ y <= x /\ a + x + c <= 4
    BY <1>1, <1>3, <1>4
  <2> HIDE DEF a, c, x, y
  <2>2. a + y + c <= 4
    BY <2>1
  <2>q. QED
    BY <2>2 DEF a, c, y
<1>q. QED
  BY <1>4, <1>5, <1>6 DEF Room

(* It sends a message.                                                     *)
LEMMA RoomSends ==
  ASSUME NEW l, NEW n, NEW u \in Seq(Ups), NEW d \in Seq(Downs), NEW t \in Nat, NEW m \in Ups,
         Room(l, u, d, t), n # "born", Owes(n) + 1 <= Owes(l), m.kind = "isolation" => l = "born"
  PROVE  Room(n, Append(u, m), d, t)
<1> DEFINE v == Append(u, m)
<1>1. /\ v # <<>> /\ Len(v) = Len(u) + 1 /\ Len(u) \in Nat /\ Len(d) \in Nat
      /\ \A i \in 1 .. Len(u) : v[i] = u[i]
      /\ v[Len(u) + 1] = m /\ Owes(n) \in Nat /\ Owes(l) \in Nat
  BY AppendedIs, OwesType
<1>0. l = "born" => u = <<>>
  BY DEF Room
<1> HIDE DEF v
<1>2. \A i \in 2 .. Len(v) : v[i].kind # "isolation"
  <2> SUFFICES ASSUME NEW i \in 2 .. Len(v) PROVE v[i].kind # "isolation"
    OBVIOUS
  <2>1. CASE i \in 2 .. Len(u)
    BY <2>1, <1>1 DEF Room
  <2>2. CASE i \notin 2 .. Len(u)
    <3>1. i = Len(u) + 1 /\ Len(u) # 0
      BY <2>2, <1>1
    <3>2. l # "born"
      BY <3>1, <1>0
    <3>q. QED
      BY <3>1, <3>2, <1>1
  <2>q. QED
    BY <2>1, <2>2
<1>3. Unasked(n, v) => Unasked(l, u)
  <2>1. CASE u = <<>>
    <3>1. v[1] = m
      BY <2>1, <1>1
    <3>q. QED
      BY <3>1 DEF Unasked
  <2>2. CASE u # <<>>
    <3>1. v[1] = u[1]
      BY <2>2, <1>1
    <3>q. QED
      BY <2>2, <3>1 DEF Unasked
  <2>q. QED
    BY <2>1, <2>2
<1>4. /\ Count(Unasked(n, v)) <= Count(Unasked(l, u)) /\ Count(Unasked(n, v)) \in Nat
      /\ Count(Unasked(l, u)) \in Nat /\ Count(Tasked(d)) \in Nat
  BY <1>3 DEF Count
<1>6. /\ \A i \in 2 .. Len(d) : ~IsTask(d[i])
      /\ Len(d) + Count(Unasked(l, u)) + t <= 3
      /\ Len(u) + Owes(l) + Count(Tasked(d)) <= 4
  BY DEF Room
<1>7. Len(d) + Count(Unasked(n, v)) + t <= 3
  BY <1>1, <1>4, <1>6, LessLeft
<1>8. Len(v) + Owes(n) + Count(Tasked(d)) <= 4
  <2> DEFINE a == Len(u)
             b == Len(v)
             c == Count(Tasked(d))
             x == Owes(l)
             y == Owes(n)
  <2>1. /\ a \in Nat /\ b = a + 1 /\ c \in Nat /\ x \in Nat /\ y \in Nat
        /\ y + 1 <= x /\ a + x + c <= 4
    BY <1>1, <1>4, <1>6
  <2> HIDE DEF a, b, c, x, y
  <2>2. b + y + c <= 4
    BY <2>1
  <2>q. QED
    BY <2>2 DEF b, c, y
<1>5. Room(n, v, d, t)
  BY <1>2, <1>6, <1>7, <1>8 DEF Room
<1>q. QED
  BY <1>5 DEF v

(* It takes a message; a task makes room for its answers.                  *)
LEMMA RoomTakes ==
  ASSUME NEW l, NEW n, NEW u \in Seq(Ups), NEW d \in Seq(Downs), NEW t \in Nat,
         Room(l, u, d, t), n # "born", d # <<>>,
         Owes(n) <= Owes(l) + Count(Tasked(d))
  PROVE  Room(n, u, Tail(d), t)
<1> DEFINE e == Tail(d)
<1>1. /\ Len(d) \in Nat /\ Len(e) = Len(d) - 1 /\ Len(d) >= 1
      /\ \A i \in 1 .. Len(e) : e[i] = d[i + 1] /\ i + 1 \in 2 .. Len(d)
      /\ e # <<>> => 1 \in 1 .. Len(e)
      /\ Len(u) \in Nat /\ Owes(n) \in Nat /\ Owes(l) \in Nat
  BY TailIs, OwesType
<1> HIDE DEF e
<1>2. \A i \in 1 .. Len(e) : ~IsTask(e[i])
  BY <1>1 DEF Room
<1>3. ~Tasked(e)
  BY <1>1, <1>2 DEF Tasked
<1>4. Unasked(n, u) => Unasked(l, u)
  BY DEF Unasked
<1>5. /\ Count(Unasked(n, u)) <= Count(Unasked(l, u)) /\ Count(Unasked(n, u)) \in Nat
      /\ Count(Unasked(l, u)) \in Nat /\ Count(Tasked(d)) \in Nat /\ Count(Tasked(e)) = 0
  BY <1>3, <1>4 DEF Count
<1>6. \A i \in 2 .. Len(e) : ~IsTask(e[i])
  BY <1>1, <1>2
<1>8. /\ \A i \in 2 .. Len(u) : u[i].kind # "isolation"
      /\ Len(d) + Count(Unasked(l, u)) + t <= 3
      /\ Len(u) + Owes(l) + Count(Tasked(d)) <= 4
  BY DEF Room
<1>9. Len(e) + Count(Unasked(n, u)) + t <= 3
  <2>1. Len(e) \in Nat /\ Len(e) <= Len(d)
    BY <1>1
  <2>q. QED
    BY <2>1, <1>1, <1>5, <1>8, LessLeft
<1>10. Len(u) + Owes(n) + Count(Tasked(e)) <= 4
  <2> DEFINE a == Len(u)
             b == Count(Tasked(e))
             c == Count(Tasked(d))
             x == Owes(l)
             y == Owes(n)
  <2>1. /\ a \in Nat /\ b = 0 /\ c \in Nat /\ x \in Nat /\ y \in Nat
        /\ y <= x + c /\ a + x + c <= 4
    BY <1>1, <1>5, <1>8
  <2> HIDE DEF a, b, c, x, y
  <2>2. a + y + b <= 4
    BY <2>1
  <2>q. QED
    BY <2>2 DEF a, b, y
<1>7. Room(n, u, e, t)
  BY <1>6, <1>8, <1>9, <1>10 DEF Room
<1>q. QED
  BY <1>7 DEF e

(* The owner takes a message; an isolation it acknowledges at once.        *)
LEMMA RoomTaken ==
  ASSUME NEW l, NEW u \in Seq(Ups), NEW d \in Seq(Downs), NEW t \in Nat,
         Room(l, u, d, t), u # <<>>
  PROVE  /\ Room(l, Tail(u), d, t)
         /\ u[1].kind = "isolation" => Room(l, Tail(u), d, t + 1)
<1> DEFINE v == Tail(u)
<1>1. /\ Len(u) \in Nat /\ Len(v) = Len(u) - 1 /\ Len(u) >= 1
      /\ \A i \in 1 .. Len(v) : v[i] = u[i + 1] /\ i + 1 \in 2 .. Len(u)
      /\ v # <<>> => 1 \in 1 .. Len(v)
      /\ Len(d) \in Nat /\ Owes(l) \in Nat
  BY TailIs, OwesType
<1> HIDE DEF v
<1>2. \A i \in 1 .. Len(v) : v[i].kind # "isolation"
  BY <1>1 DEF Room
<1>3. l # "born" /\ ~Unasked(l, v)
  BY <1>1, <1>2 DEF Unasked, Room
<1>4. u[1].kind = "isolation" => Unasked(l, u)
  BY DEF Unasked
<1>5. /\ Count(Unasked(l, v)) = 0 /\ Count(Unasked(l, u)) \in Nat
      /\ u[1].kind = "isolation" => Count(Unasked(l, u)) = 1
      /\ Count(Tasked(d)) \in Nat
  BY <1>3, <1>4 DEF Count
<1>6. \A i \in 2 .. Len(v) : v[i].kind # "isolation"
  BY <1>1, <1>2
<1>9. /\ \A i \in 2 .. Len(d) : ~IsTask(d[i])
      /\ Len(d) + Count(Unasked(l, u)) + t <= 3
      /\ Len(u) + Owes(l) + Count(Tasked(d)) <= 4
  BY DEF Room
<1>10. Len(v) + Owes(l) + Count(Tasked(d)) <= 4
  <2> DEFINE a == Len(u)
             b == Len(v)
             c == Count(Tasked(d))
             x == Owes(l)
  <2>1. a \in Nat /\ b \in Nat /\ b <= a /\ c \in Nat /\ x \in Nat /\ a + x + c <= 4
    BY <1>1, <1>5, <1>9
  <2> HIDE DEF a, b, c, x
  <2>2. b + x + c <= 4
    BY <2>1
  <2>q. QED
    BY <2>2 DEF b, c, x
<1>11. Len(d) + Count(Unasked(l, v)) + t <= 3
  BY <1>1, <1>5, <1>9
<1>7. Room(l, v, d, t)
  BY <1>3, <1>6, <1>9, <1>10, <1>11 DEF Room
<1>8. u[1].kind = "isolation" => Room(l, v, d, t + 1)
  <2>1. u[1].kind = "isolation" => Len(d) + Count(Unasked(l, v)) + (t + 1) <= 3
    BY <1>1, <1>5, <1>9
  <2>q. QED
    BY <2>1, <1>3, <1>6, <1>9, <1>10 DEF Room
<1>q. QED
  BY <1>7, <1>8 DEF v

(* The owner tells it something that is no task.                           *)
LEMMA RoomTold ==
  ASSUME NEW l, NEW u \in Seq(Ups), NEW d \in Seq(Downs), NEW t \in Nat, NEW m \in Downs,
         Room(l, u, d, t + 1), ~IsTask(m)
  PROVE  Room(l, u, Append(d, m), t)
<1> DEFINE e == Append(d, m)
<1>1. /\ e # <<>> /\ Len(e) = Len(d) + 1 /\ Len(d) \in Nat /\ Len(u) \in Nat
      /\ \A i \in 1 .. Len(d) : e[i] = d[i]
      /\ e[Len(d) + 1] = m /\ Owes(l) \in Nat
  BY AppendedIs, OwesType
<1> HIDE DEF e
<1>2. \A i \in 2 .. Len(e) : ~IsTask(e[i])
  <2> SUFFICES ASSUME NEW i \in 2 .. Len(e) PROVE ~IsTask(e[i])
    OBVIOUS
  <2>1. CASE i \in 2 .. Len(d)
    BY <2>1, <1>1 DEF Room
  <2>2. CASE i \notin 2 .. Len(d)
    <3>1. i = Len(d) + 1
      BY <2>2, <1>1
    <3>q. QED
      BY <3>1, <1>1
  <2>q. QED
    BY <2>1, <2>2
<1>3. Tasked(e) => Tasked(d)
  <2>1. CASE d = <<>>
    <3>1. e[1] = m
      BY <2>1, <1>1
    <3>q. QED
      BY <3>1 DEF Tasked
  <2>2. CASE d # <<>>
    <3>1. e[1] = d[1]
      BY <2>2, <1>1
    <3>q. QED
      BY <2>2, <3>1 DEF Tasked
  <2>q. QED
    BY <2>1, <2>2
<1>4. /\ Count(Tasked(e)) <= Count(Tasked(d)) /\ Count(Tasked(e)) \in Nat
      /\ Count(Tasked(d)) \in Nat /\ Count(Unasked(l, u)) \in Nat
  BY <1>3 DEF Count
<1>6. /\ l = "born" => u = <<>>
      /\ \A i \in 2 .. Len(u) : u[i].kind # "isolation"
      /\ Len(d) + Count(Unasked(l, u)) + (t + 1) <= 3
      /\ Len(u) + Owes(l) + Count(Tasked(d)) <= 4
  BY DEF Room
<1>7. Len(e) + Count(Unasked(l, u)) + t <= 3
  BY <1>1, <1>4, <1>6
<1>8. Len(u) + Owes(l) + Count(Tasked(e)) <= 4
  <2> DEFINE a == Len(u)
             b == Count(Tasked(e))
             c == Count(Tasked(d))
             x == Owes(l)
  <2>1. a \in Nat /\ b \in Nat /\ b <= c /\ c \in Nat /\ x \in Nat /\ a + x + c <= 4
    BY <1>1, <1>4, <1>6
  <2> HIDE DEF a, b, c, x
  <2>2. a + x + b <= 4
    BY <2>1
  <2>q. QED
    BY <2>2 DEF a, b, x
<1>5. Room(l, u, e, t)
  BY <1>2, <1>6, <1>7, <1>8 DEF Room
<1>q. QED
  BY <1>5 DEF e

(* The owner asks a worker with empty pipes.                               *)
LEMMA RoomAsked ==
  ASSUME NEW l \in {"idle", "exchange"}, NEW m
  PROVE  Room(l, <<>>, <<m>>, 2)
<1>1. Len(<<m>>) = 1 /\ <<m>> # <<>> /\ <<m>>[1] = m /\ Len(<<>>) = 0
  OBVIOUS
<1>2. Count(Unasked(l, <<>>)) = 0 /\ Count(Tasked(<<m>>)) \in 0 .. 1
  BY DEF Count, Unasked
<1>3. Owes(l) = 2
  BY DEF Owes
<1>q. QED
  BY <1>1, <1>2, <1>3 DEF Room

(* Fewer messages are left to tell.                                        *)
LEMMA RoomLess ==
  ASSUME NEW l, NEW u \in Seq(Ups), NEW d \in Seq(Downs), NEW t \in Nat, NEW s \in Nat,
         Room(l, u, d, t), s <= t
  PROVE  Room(l, u, d, s)
<1>1. Len(u) \in Nat /\ Len(d) \in Nat /\ Count(Unasked(l, u)) \in Nat
  BY DEF Count
<1>q. QED
  BY <1>1 DEF Room

(* The same for the sizes of the batches.                                  *)
LEMMA HeldMoves ==
  ASSUME NEW l, NEW n, NEW k, NEW u, NEW d, NEW c, Held(l, k, u, d, c), n # "batch"
  PROVE  Held(n, k, u, d, c)
BY DEF Held

LEMMA HeldSends ==
  ASSUME NEW l, NEW n, NEW k, NEW u \in Seq(Ups), NEW d, NEW c, NEW m \in Ups,
         Held(l, k, u, d, c), n = "batch" => l = "batch",
         m.kind = "update" => m.batch.trajectories <= c
  PROVE  Held(n, k, Append(u, m), d, c)
<1> DEFINE v == Append(u, m)
<1>1. /\ Len(v) = Len(u) + 1 /\ Len(u) \in Nat
      /\ \A i \in 1 .. Len(u) : v[i] = u[i]
      /\ v[Len(u) + 1] = m
  BY AppendedIs
<1> HIDE DEF v
<1>2. \A i \in 1 .. Len(v) : i \in 1 .. Len(u) \/ i = Len(u) + 1
  BY <1>1
<1>3. \A i \in 1 .. Len(v) : v[i].kind = "update" => v[i].batch.trajectories <= c
  BY <1>1, <1>2 DEF Held
<1>4. Held(n, k, v, d, c)
  BY <1>3 DEF Held
<1>q. QED
  BY <1>4 DEF v

(* A task sets the size of the next batch.                                 *)
LEMMA HeldTakes ==
  ASSUME NEW l, NEW n, NEW k, NEW j, NEW u, NEW d \in Seq(Downs), NEW c, d # <<>>,
         Held(l, k, u, d, c), n = "batch" => IsTask(d[1]) /\ j = d[1].limit
  PROVE  Held(n, j, u, Tail(d), c)
<1> DEFINE e == Tail(d)
<1>1. /\ Len(d) \in Nat /\ Len(d) >= 1 /\ 1 \in 1 .. Len(d)
      /\ \A i \in 1 .. Len(e) : e[i] = d[i + 1] /\ i + 1 \in 1 .. Len(d)
  BY TailIs
<1> HIDE DEF e
<1>2. Held(n, j, u, e, c)
  BY <1>1 DEF Held
<1>q. QED
  BY <1>2 DEF e

LEMMA HeldTaken ==
  ASSUME NEW l, NEW k, NEW u \in Seq(Ups), NEW d, NEW c, u # <<>>, Held(l, k, u, d, c)
  PROVE  Held(l, k, Tail(u), d, c)
<1> DEFINE v == Tail(u)
<1>1. /\ Len(u) \in Nat
      /\ \A i \in 1 .. Len(v) : v[i] = u[i + 1] /\ i + 1 \in 1 .. Len(u)
  BY TailIs
<1> HIDE DEF v
<1>2. Held(l, k, v, d, c)
  BY <1>1 DEF Held
<1>q. QED
  BY <1>2 DEF v

LEMMA HeldTold ==
  ASSUME NEW l, NEW k, NEW u, NEW d \in Seq(Downs), NEW c, NEW m \in Downs,
         Held(l, k, u, d, c), IsTask(m) => m.limit <= c
  PROVE  Held(l, k, u, Append(d, m), c)
<1> DEFINE e == Append(d, m)
<1>1. /\ Len(e) = Len(d) + 1 /\ Len(d) \in Nat
      /\ \A i \in 1 .. Len(d) : e[i] = d[i]
      /\ e[Len(d) + 1] = m
  BY AppendedIs
<1> HIDE DEF e
<1>2. \A i \in 1 .. Len(e) : i \in 1 .. Len(d) \/ i = Len(d) + 1
  BY <1>1
<1>3. \A i \in 1 .. Len(e) : IsTask(e[i]) => e[i].limit <= c
  BY <1>1, <1>2 DEF Held
<1>4. Held(l, k, u, e, c)
  BY <1>3 DEF Held
<1>q. QED
  BY <1>4 DEF e

(* What a worker's step does to its place, its batch and its pipes.        *)
Silent(w) == /\ worker'[w].pc = worker[w].pc /\ worker'[w].limit = worker[w].limit
             /\ up'[w] = up[w] /\ down'[w] = down[w]
Leaves(w) == /\ worker[w].pc # "cleanup" /\ worker'[w].pc = "finally"
             /\ worker'[w].limit = worker[w].limit
             /\ up'[w] = up[w] /\ down'[w] = down[w]
Sends(w) ==
  /\ worker'[w].limit = worker[w].limit /\ down'[w] = down[w]
  /\ worker'[w].pc \notin {"born", "batch"} /\ Owes(worker'[w].pc) + 1 <= Owes(worker[w].pc)
  /\ \E m \in Ups : /\ up'[w] = Append(up[w], m)
                    /\ m.kind = "isolation" => worker[w].pc = "born"
                    /\ m.kind = "update" => /\ worker[w].pc = "batch"
                                            /\ m.batch.trajectories <= worker[w].limit
Takes(w) ==
  /\ down[w] # <<>> /\ down'[w] = Tail(down[w]) /\ worker[w].pc # "born"
  /\ \/ /\ IsTask(down[w][1]) /\ worker[w].pc \in {"idle", "exchange"}
        /\ worker'[w].limit = down[w][1].limit
        /\ \/ worker'[w].pc = "batch" /\ up'[w] = up[w]
           \/ /\ worker'[w].pc = "idle"
              /\ \E m \in Dones : up'[w] = Append(up[w], m)
     \/ /\ worker[w].pc \in {"isolated", "idle", "exchange", "cleanup"}
        /\ worker'[w].limit = worker[w].limit
        /\ \/ /\ up'[w] = up[w] /\ worker[w].pc \in {"idle", "cleanup"}
              /\ worker'[w].pc = IF worker[w].pc = "idle" THEN "finally" ELSE "cleanup"
           \/ /\ worker[w].pc # "cleanup"
              /\ worker'[w].pc = "finally" \/ (worker[w].pc = "isolated" /\ worker'[w].pc = "idle")
              /\ \E m \in Ups : up'[w] = Append(up[w], m) /\ m.kind \notin {"isolation", "update"}

LEMMA StaysLimited ==
  ASSUME WorkerTypes, NEW w \in Workers, NEW l \in Pcs, Stay(w, l)
  PROVE  worker'[w].pc = l /\ worker'[w].limit = worker[w].limit
<1>1. worker'[w] = [worker[w] EXCEPT !.pc = l]
  BY StayType DEF WorkerTypes
<1>q. QED
  BY <1>1 DEF WorkerTypes, Records

LEMMA RefusesLimited ==
  ASSUME WorkerTypes, NEW w \in Workers,
         NEW cause \in {"startup", "statistics", "drift", "runtime"}, Refuse(w, cause)
  PROVE  /\ worker'[w].pc = "finally" /\ worker'[w].limit = worker[w].limit
         /\ \E m \in Ups : up'[w] = Append(up[w], m) /\ m.kind \notin {"isolation", "update"}
<1> DEFINE m == [kind |-> "error", cause |-> cause]
<1>1. m \in Ups /\ m.kind = "error"
  BY DEF Ups, Errors
<1>2. up'[w] = Append(up[w], m) /\ worker'[w] = [worker[w] EXCEPT !.pc = "finally"]
  BY RefuseType
<1>3. worker'[w].pc = "finally" /\ worker'[w].limit = worker[w].limit
  BY <1>2 DEF WorkerTypes, Records
<1>q. QED
  BY <1>1, <1>2, <1>3

LEMMA BegunLimited ==
  ASSUME NEW x \in Records, NEW m \in Starts
  PROVE  Begun(x, m).pc = "batch" /\ Begun(x, m).limit = m.limit
<1>1. Merge(x, m.snap) \in Records
  BY MergeType DEF Starts
<1>q. QED
  BY <1>1 DEF Begun, Records

LEMMA ToldLimited ==
  ASSUME NEW x \in Records, NEW m \in Acks
  PROVE  Told(x, m).pc = (IF m.limit = 0 THEN "idle" ELSE "batch") /\ Told(x, m).limit = m.limit
<1>1. Merge(x, m.snap) \in Records
  BY MergeType DEF Acks
<1>q. QED
  BY <1>1 DEF Told, Records

LEMMA WorkerTalks ==
  ASSUME Types, NEW w \in Workers,
         WorkerStep(w) \/ RuntimeError(w) \/ Die(w) \/ Hang(w)
  PROVE  Silent(w) \/ Leaves(w) \/ Sends(w) \/ Takes(w)
<1>t. /\ WorkerTypes /\ up \in [Workers -> Seq(Ups)] /\ down \in [Workers -> Seq(Downs)]
      /\ up[w] \in Seq(Ups) /\ down[w] \in Seq(Downs) /\ worker[w] \in Records
      /\ worker \in [Workers -> Records]
  BY DEF Types, WorkerTypes
<1>d. down[w] # <<>> => Head(down[w]) = down[w][1]
  BY <1>t, TailIs
<1>1. CASE Isolate(w)
  <2>1. Stay(w, "isolated") /\ Send(w, Message("isolation")) /\ down' = down
        /\ worker[w].pc = "born"
    BY <1>1 DEF Isolate
  <2>2. /\ worker'[w].pc = "isolated" /\ worker'[w].limit = worker[w].limit
        /\ up'[w] = Append(up[w], Message("isolation")) /\ Message("isolation") \in Ups
        /\ Message("isolation").kind = "isolation"
    BY <2>1, <1>t, StaysLimited, SendType, Plains DEF Pcs
  <2>q. QED
    BY <2>1, <2>2 DEF Sends, Owes
<1>2. CASE BootWorker(w)
  <2>1. /\ worker[w].pc = "isolated" /\ down[w] # <<>> /\ down'[w] = Tail(down[w])
        /\ (Stay(w, "idle") /\ Send(w, Message("boot"))) \/ Refuse(w, "startup")
    BY <1>2, <1>t DEF BootWorker
  <2>2. CASE Stay(w, "idle") /\ Send(w, Message("boot"))
    <3>1. /\ worker'[w].pc = "idle" /\ worker'[w].limit = worker[w].limit
          /\ up'[w] = Append(up[w], Message("boot")) /\ Message("boot") \in Ups
          /\ Message("boot").kind = "boot"
      BY <2>2, <1>t, StaysLimited, SendType, Plains DEF Pcs
    <3>q. QED
      BY <2>1, <3>1 DEF Takes
  <2>3. CASE Refuse(w, "startup")
    BY <2>1, <2>3, <1>t, RefusesLimited DEF Takes
  <2>q. QED
    BY <2>1, <2>2, <2>3
<1>3. CASE TakeStart(w)
  <2> DEFINE m == down[w][1]
             x == Bind(worker[w], m.snap)
  <2>1. worker[w].pc = "idle" /\ down[w] # <<>> /\ down'[w] = Tail(down[w])
    BY <1>3, <1>t DEF TakeStart
  <2>2. \/ m \in Starts /\ worker' = [worker EXCEPT ![w] = Begun(x, m)] /\ up' = up
        \/ m \in Starts /\ Refuse(w, "statistics")
        \/ m.kind = "close" /\ Stay(w, "finally") /\ up' = up
        \/ Refuse(w, "drift")
    BY <1>3, <1>d, <2>1, TakeStartDoes DEF StartCases
  <2>3. CASE m \in Starts /\ worker' = [worker EXCEPT ![w] = Begun(x, m)] /\ up' = up
    <3>1. x \in Records /\ IsTask(m)
      BY <1>t, <2>3, BindType DEF Starts, IsTask
    <3>2. Begun(x, m).pc = "batch" /\ Begun(x, m).limit = m.limit
      BY <2>3, <3>1, BegunLimited
    <3>3. worker'[w] = Begun(x, m)
      BY <2>3, <1>t
    <3>q. QED
      BY <2>1, <2>3, <3>1, <3>2, <3>3 DEF Takes
  <2>4. CASE Refuse(w, "statistics") \/ Refuse(w, "drift")
    BY <2>1, <2>4, <1>t, RefusesLimited DEF Takes
  <2>5. CASE Stay(w, "finally") /\ up' = up
    BY <2>1, <2>5, <1>t, StaysLimited DEF Takes, Pcs
  <2>q. QED
    BY <2>2, <2>3, <2>4, <2>5
<1>4. CASE Batch(w)
  <2>1. worker[w].pc = "batch" /\ down' = down
    BY <1>4 DEF Batch
  <2>2. PICK k \in Nat : \E inc \in Rows :
           /\ k <= worker[w].limit
           /\ Sent(w, k, inc) \in Updates /\ Searched(w, inc) \in Records
           /\ worker' = [worker EXCEPT ![w] = Searched(w, inc)]
           /\ Send(w, Sent(w, k, inc))
    BY <1>4, BatchDoes
  <2>3. PICK inc \in Rows :
           /\ k <= worker[w].limit
           /\ Sent(w, k, inc) \in Updates /\ Searched(w, inc) \in Records
           /\ worker' = [worker EXCEPT ![w] = Searched(w, inc)]
           /\ Send(w, Sent(w, k, inc))
    BY <2>2
  <2>4. Sent(w, k, inc) \in Ups /\ Sent(w, k, inc).kind = "update"
        /\ Sent(w, k, inc).batch.trajectories = k
    BY <2>3 DEF Ups, Sent
  <2>5. up'[w] = Append(up[w], Sent(w, k, inc))
    BY <2>3, <2>4, <1>t, SendType
  <2>6. worker'[w] = Searched(w, inc)
    BY <2>3, <1>t
  <2>7. Searched(w, inc).pc = "exchange" /\ Searched(w, inc).limit = worker[w].limit
    BY <1>t DEF Searched, Records
  <2>q. QED
    BY <2>1, <2>3, <2>4, <2>5, <2>6, <2>7 DEF Sends, Owes
<1>5. CASE TakeAck(w)
  <2> DEFINE m == down[w][1]
             o == [kind |-> "done", dec |-> worker[w].dec]
  <2>1. worker[w].pc = "exchange" /\ down[w] # <<>> /\ down'[w] = Tail(down[w])
    BY <1>5, <1>t DEF TakeAck
  <2>2. \/ /\ m \in Acks /\ worker' = [worker EXCEPT ![w] = Told(worker[w], m)]
           /\ IF m.limit = 0 THEN Send(w, o) ELSE up' = up
        \/ Refuse(w, "statistics")
        \/ Refuse(w, "drift")
    BY <1>5, <1>d, <2>1, TakeAckDoes DEF AckCases
  <2>3. CASE /\ m \in Acks /\ worker' = [worker EXCEPT ![w] = Told(worker[w], m)]
             /\ IF m.limit = 0 THEN Send(w, o) ELSE up' = up
    <3>1. o \in Dones /\ o \in Ups
      BY <1>t DEF Dones, Ups, Records
    <3>2. worker'[w] = Told(worker[w], m) /\ IsTask(m)
      BY <2>3, <1>t DEF Acks, IsTask
    <3>3. worker'[w].pc = (IF m.limit = 0 THEN "idle" ELSE "batch") /\ worker'[w].limit = m.limit
      BY <2>3, <3>2, <1>t, ToldLimited
    <3>4. IF m.limit = 0 THEN up'[w] = Append(up[w], o) ELSE up'[w] = up[w]
      BY <2>3, <3>1, <1>t, SendType
    <3> HIDE DEF o
    <3>q. QED
      BY <2>1, <3>1, <3>2, <3>3, <3>4 DEF Takes
  <2>4. CASE Refuse(w, "statistics") \/ Refuse(w, "drift")
    BY <2>1, <2>4, <1>t, RefusesLimited DEF Takes
  <2>q. QED
    BY <2>2, <2>3, <2>4
<1>6. CASE EndOfPipe(w)
  <2>1. Stay(w, "finally") /\ up' = up /\ down' = down /\ worker[w].pc # "cleanup"
    BY <1>6 DEF EndOfPipe
  <2>q. QED
    BY <2>1, <1>t, StaysLimited DEF Leaves, Pcs
<1>7. CASE Finally(w)
  <2> DEFINE m == [kind |-> "cleanup_ready", clean |-> w \notin kids']
  <2>1. m \in Ups /\ m.kind = "cleanup_ready"
    BY DEF Ups, Readies
  <2>2. Stay(w, "cleanup") /\ Send(w, m) /\ down' = down /\ worker[w].pc = "finally"
    BY <1>7 DEF Finally
  <2> HIDE DEF m
  <2>3. worker'[w].pc = "cleanup" /\ worker'[w].limit = worker[w].limit
        /\ up'[w] = Append(up[w], m)
    BY <2>1, <2>2, <1>t, StaysLimited, SendType DEF Pcs
  <2>q. QED
    BY <2>1, <2>2, <2>3 DEF Sends, Owes
<1>8. CASE Leave(w)
  <2>1. worker[w].pc = "cleanup" /\ worker' = worker /\ up' = up
        /\ \/ down[w] # <<>> /\ down' = [down EXCEPT ![w] = Tail(@)]
           \/ down' = down
    BY <1>8 DEF Leave
  <2>q. QED
    BY <2>1, <1>t DEF Takes, Silent
<1>9. CASE RuntimeError(w)
  <2>1. worker[w].pc \in {"isolated", "batch"} /\ Refuse(w, "runtime") /\ down' = down
    BY <1>9 DEF RuntimeError
  <2>2. /\ worker'[w].pc = "finally" /\ worker'[w].limit = worker[w].limit
        /\ \E m \in Ups : up'[w] = Append(up[w], m) /\ m.kind \notin {"isolation", "update"}
    BY <2>1, <1>t, RefusesLimited
  <2>3. Owes(worker'[w].pc) + 1 <= Owes(worker[w].pc)
    BY <2>1, <2>2 DEF Owes
  <2>q. QED
    BY <2>1, <2>2, <2>3 DEF Sends
<1>10. CASE Die(w)
  BY <1>10 DEF Die, Silent
<1>11. CASE Hang(w)
  BY <1>11 DEF Hang, Silent
<1>q. QED
  BY <1>1, <1>2, <1>3, <1>4, <1>5, <1>6, <1>7, <1>8, <1>9, <1>10, <1>11 DEF WorkerStep

LEMMA TellsType == \A w \in Workers : Tells(w) \in 0 .. 2
BY DEF Tells

LEMMA RoomsWorker ==
  ASSUME Types, Types', Rooms, NEW w \in Workers,
         WorkerStep(w) \/ RuntimeError(w) \/ Die(w) \/ Hang(w)
  PROVE  Rooms'
<1> DEFINE l == worker[w].pc
           n == worker'[w].pc
           u == up[w]
           d == down[w]
           t == Tells(w)
<1>1. UNCHANGED <<mpc, pending>>
      /\ \A v \in Workers \ {w} : worker'[v] = worker[v] /\ up'[v] = up[v] /\ down'[v] = down[v]
  BY WorkerFrame DEF ownerVars
<1>2. \A v \in Workers : Tells(v)' = Tells(v)
  BY <1>1 DEF Tells
<1>3. u \in Seq(Ups) /\ d \in Seq(Downs) /\ t \in Nat /\ Room(l, u, d, t)
  <2>1. u \in Seq(Ups) /\ d \in Seq(Downs)
    BY DEF Types, WorkerTypes
  <2>2. t \in Nat
    BY TellsType
  <2>3. Room(l, u, d, t)
    BY DEF Rooms
  <2>q. QED
    BY <2>1, <2>2, <2>3
<1>4. Room(n, up'[w], down'[w], t)
  <2>1. CASE Silent(w)
    BY <2>1, <1>3 DEF Silent
  <2>2. CASE Leaves(w)
    <3>1. n = "finally" /\ l # "cleanup" /\ up'[w] = u /\ down'[w] = d /\ l \in Pcs
      BY <2>2 DEF Leaves, Types, WorkerTypes, Records
    <3>2. Owes(n) <= Owes(l)
      BY <3>1 DEF Owes, Pcs
    <3> HIDE DEF l, n, u, d, t
    <3>q. QED
      BY <3>1, <3>2, <1>3, RoomMoves
  <2>3. CASE Sends(w)
    <3>2. PICK o \in Ups : up'[w] = Append(u, o) /\ (o.kind = "isolation" => l = "born")
      BY <2>3 DEF Sends
    <3>3. n # "born" /\ Owes(n) + 1 <= Owes(l) /\ down'[w] = d
      BY <2>3 DEF Sends
    <3> HIDE DEF l, n, u, d, t
    <3>q. QED
      BY <3>2, <3>3, <1>3, RoomSends
  <2>4. CASE Takes(w)
    <3> DEFINE e == Tail(d)
    <3>1. d # <<>> /\ down'[w] = e /\ l # "born" /\ e \in Seq(Downs)
      BY <2>4, <1>3 DEF Takes
    <3>2. CASE IsTask(d[1]) /\ l \in {"idle", "exchange"}
               /\ \/ n = "batch" /\ up'[w] = u
                  \/ n = "idle" /\ \E m \in Dones : up'[w] = Append(u, m)
      <4>1. Count(Tasked(d)) = 1 /\ Owes("batch") = 3 /\ Owes(l) = 2 /\ Owes("idle") = 2
        BY <3>1, <3>2 DEF Count, Tasked, Owes
      <4>2. Room("batch", u, e, t)
        <5> HIDE DEF l, n, u, d, t
        <5>q. QED
          BY <3>1, <4>1, <1>3, RoomTakes
      <4>3. CASE n = "batch" /\ up'[w] = u
        BY <4>2, <4>3, <3>1
      <4>4. CASE n = "idle" /\ \E m \in Dones : up'[w] = Append(u, m)
        <5>1. PICK m \in Dones : up'[w] = Append(u, m)
          BY <4>4
        <5>2. m \in Ups /\ m.kind # "isolation"
          BY DEF Ups, Dones
        <5>4. "idle" # "born" /\ Owes("idle") + 1 <= Owes("batch")
          BY <4>1
        <5> HIDE DEF l, n, u, d, e, t
        <5>3. Room("idle", Append(u, m), e, t)
          BY <5>2, <5>4, <4>2, <3>1, <1>3, RoomSends
        <5>q. QED
          BY <5>1, <5>3, <4>4, <3>1
      <4>q. QED
        BY <3>2, <4>3, <4>4
    <3>3. CASE l \in {"isolated", "idle", "exchange", "cleanup"}
               /\ up'[w] = u /\ l \in {"idle", "cleanup"}
               /\ n = IF l = "idle" THEN "finally" ELSE "cleanup"
      <4>1. n # "born" /\ Owes(n) <= Owes(l) + Count(Tasked(d))
        BY <3>3 DEF Owes, Count
      <4> HIDE DEF l, n, u, d, t
      <4>2. Room(n, u, Tail(d), t)
        BY <4>1, <3>1, <1>3, RoomTakes
      <4>q. QED
        BY <4>2, <3>1, <3>3
    <3>4. CASE /\ l \in {"isolated", "idle", "exchange"}
               /\ n = "finally" \/ (l = "isolated" /\ n = "idle")
               /\ \E m \in Ups : up'[w] = Append(u, m) /\ m.kind \notin {"isolation", "update"}
      <4>1. PICK m \in Ups : up'[w] = Append(u, m) /\ m.kind # "isolation"
        BY <3>4
      <4>2. n # "born" /\ Owes(n) + 1 <= Owes(l) /\ Owes(l) <= Owes(l) + Count(Tasked(d))
        BY <3>4 DEF Owes, Count
      <4> HIDE DEF l, n, u, d, t
      <4>3. Room(l, u, Tail(d), t)
        BY <4>2, <3>1, <1>3, RoomTakes
      <4>4. Room(n, Append(u, m), Tail(d), t)
        <5> HIDE DEF e
        <5>1. Room(l, u, e, t) /\ m \in Ups /\ e \in Seq(Downs) /\ u \in Seq(Ups) /\ t \in Nat
          BY <4>3, <4>1, <3>1, <1>3 DEF e
        <5>2. Room(n, Append(u, m), e, t)
          BY <5>1, <4>1, <4>2, RoomSends
        <5>q. QED
          BY <5>2 DEF e
      <4>q. QED
        BY <4>1, <4>4, <3>1
    <3>q. QED
      BY <2>4, <3>2, <3>3, <3>4 DEF Takes
  <2>q. QED
    BY <2>1, <2>2, <2>3, <2>4, WorkerTalks
<1>5. \A v \in Workers : Room(worker[v].pc, up[v], down[v], Tells(v))'
  BY <1>1, <1>2, <1>4 DEF Rooms
<1>q. QED
  BY <1>5 DEF Rooms

LEMMA SizedSends ==
  ASSUME Types, NEW w \in Workers, NEW c, Sends(w), worker[w].limit <= c \/ worker[w].pc # "batch",
         Held(worker[w].pc, worker[w].limit, up[w], down[w], c), c \in Nat
  PROVE  Held(worker'[w].pc, worker'[w].limit, up'[w], down'[w], c)
<1>1. PICK m \in Ups : /\ up'[w] = Append(up[w], m)
                       /\ m.kind = "update" => /\ worker[w].pc = "batch"
                                               /\ m.batch.trajectories <= worker[w].limit
  BY DEF Sends
<1>2. m.kind = "update" => m.batch.trajectories <= c
  <2> SUFFICES ASSUME m.kind = "update" PROVE m.batch.trajectories <= c
    OBVIOUS
  <2>1. m.batch.trajectories \in Nat /\ worker[w].limit \in Nat
    BY UpKinds DEF Updates, Types, WorkerTypes, Records
  <2>q. QED
    BY <2>1, <1>1
<1>3. up[w] \in Seq(Ups) /\ worker'[w].pc # "batch" /\ worker'[w].limit = worker[w].limit
      /\ down'[w] = down[w]
  BY DEF Types, WorkerTypes, Sends
<1>4. Held(worker'[w].pc, worker[w].limit, Append(up[w], m), down[w], c)
  BY <1>2, <1>3, HeldSends
<1>q. QED
  BY <1>1, <1>3, <1>4

(* A worker's step keeps to any cap its batches had.                       *)
LEMMA SizedWorker ==
  ASSUME Types, NEW w \in Workers, NEW c \in Nat,
         WorkerStep(w) \/ RuntimeError(w) \/ Die(w) \/ Hang(w),
         Held(worker[w].pc, worker[w].limit, up[w], down[w], c)
  PROVE  Held(worker'[w].pc, worker'[w].limit, up'[w], down'[w], c)
<1> DEFINE l == worker[w].pc
           k == worker[w].limit
           n == worker'[w].pc
           j == worker'[w].limit
           u == up[w]
           d == down[w]
<1>1. u \in Seq(Ups) /\ d \in Seq(Downs) /\ Held(l, k, u, d, c)
  BY DEF Types, WorkerTypes
<1>2. CASE Silent(w)
  BY <1>2, <1>1 DEF Silent
<1>3. CASE Leaves(w)
  BY <1>3, <1>1, HeldMoves DEF Leaves
<1>4. CASE Sends(w)
  <2>1. k <= c \/ l # "batch"
    BY <1>1 DEF Held
  <2>q. QED
    BY <2>1, <1>4, SizedSends
<1>5. CASE Takes(w)
  <2>1. d # <<>> /\ down'[w] = Tail(d) /\ (n = "batch" => IsTask(d[1]) /\ j = d[1].limit)
    BY <1>5 DEF Takes
  <2>2. \/ up'[w] = u
        \/ \E m \in Ups : up'[w] = Append(u, m) /\ m.kind # "update" /\ n # "batch"
    <3>1. \A m \in Dones : m \in Ups /\ m.kind # "update"
      BY DEF Ups, Dones
    <3>q. QED
      BY <1>5, <3>1 DEF Takes
  <2> HIDE DEF l, k, n, j, u, d
  <2>3. Held(n, j, u, Tail(d), c)
    BY <1>1, <2>1, HeldTakes
  <2>4. ASSUME NEW m \in Ups, up'[w] = Append(u, m), m.kind # "update", n # "batch"
        PROVE  Held(n, j, up'[w], Tail(d), c)
    <3> DEFINE e == Tail(d)
    <3>1. Held(n, j, u, e, c)
      BY <2>3
    <3> HIDE DEF e
    <3>2. Held(n, j, Append(u, m), e, c)
      BY <3>1, <2>4, <1>1, HeldSends
    <3>q. QED
      BY <3>2, <2>4 DEF e
  <2>5. Held(n, j, up'[w], Tail(d), c)
    BY <2>2, <2>3, <2>4
  <2>q. QED
    BY <2>1, <2>5 DEF n, j
<1>q. QED
  BY <1>2, <1>3, <1>4, <1>5, WorkerTalks

LEMMA QuotasWorker ==
  ASSUME Types, Types', Quotas, NEW w \in Workers, UNCHANGED load,
         WorkerStep(w) \/ RuntimeError(w) \/ Die(w) \/ Hang(w)
  PROVE  Quotas'
<1>1. /\ UNCHANGED <<mpc, pending, left, completed, load>>
      /\ \A v \in Workers \ {w} : worker'[v] = worker[v] /\ up'[v] = up[v] /\ down'[v] = down[v]
  BY WorkerFrame DEF ownerVars
<1>2. BatchSize \in Nat /\ left[w] \in Nat /\ worker[w].limit \in Nat /\ worker[w].limit <= BatchSize
      /\ Held(worker[w].pc, worker[w].limit, up[w], down[w], BatchSize)
  BY PoolAssumption DEF Types, OwnerTypes, WorkerTypes, Records, Quotas
<1>3. Held(worker'[w].pc, worker'[w].limit, up'[w], down'[w], BatchSize)
  BY <1>2, SizedWorker
<1>4. worker'[w].limit <= BatchSize
  <2>1. CASE Silent(w) \/ Leaves(w) \/ Sends(w)
    BY <2>1, <1>2 DEF Silent, Leaves, Sends
  <2>2. CASE Takes(w)
    <3>1. 1 \in 1 .. Len(down[w])
      <4>1. down[w] \in Seq(Downs) /\ down[w] # <<>>
        BY <2>2 DEF Takes, Types, WorkerTypes
      <4>q. QED
        BY <4>1
    <3>2. IsTask(down[w][1]) => down[w][1].limit <= BatchSize
      BY <1>2, <3>1 DEF Held
    <3>q. QED
      BY <2>2, <1>2, <3>2 DEF Takes
  <2>q. QED
    BY <2>1, <2>2, WorkerTalks
<1>5. mpc = "searching" => Held(worker'[w].pc, worker'[w].limit, up'[w], down'[w], left[w])
  BY <1>2, SizedWorker DEF Quotas
<1>6. \A v \in Workers : /\ worker'[v].limit <= BatchSize /\ left'[v] <= load'.quota
                         /\ Held(worker'[v].pc, worker'[v].limit, up'[v], down'[v], BatchSize)
                         /\ mpc' = "searching" =>
                              Held(worker'[v].pc, worker'[v].limit, up'[v], down'[v], left'[v])
  BY <1>1, <1>3, <1>4, <1>5 DEF Quotas
<1>7. completed' <= Total([v \in Workers |-> load'.quota - left'[v]])
  BY <1>1 DEF Quotas, Wanted
<1>q. QED
  BY <1>6, <1>7 DEF Quotas, Wanted

LEMMA RoomsSearch ==
  ASSUME Types, Types', Exchanges, Rooms, UNCHANGED load,
         NEW b \in load.battles, NEW r \in Roots, Search(b, r)
  PROVE  Rooms'
<1>1. mpc = "idle" /\ worker' = worker /\ up' = up
  BY SearchDoes
<1> SUFFICES ASSUME NEW v \in Workers
             PROVE  Room(worker[v].pc, up[v], down'[v], Tells(v)')
  BY <1>1 DEF Rooms
<1>2. /\ worker[v].pc = "idle" /\ up[v] = <<>> /\ down[v] = <<>>
      /\ Room(worker[v].pc, up[v], down[v], 2)
  <2>1. Finishes(v)
    BY <1>1 DEF Exchanges
  <2>2. Tells(v) = 2
    BY <1>1 DEF Tells
  <2>q. QED
    BY <2>1, <2>2 DEF Finishes, At, Types, WorkerTypes, Rooms
<1>3. CASE mpc' = "failed" /\ down' = down
  BY <1>2, <1>3 DEF Tells
<1>4. CASE mpc' = "searching" /\ down' = [w \in Workers |-> Append(down[w], Request(b, r))]
  <2>3. \A m : Append(<<>>, m) = <<m>>
    OBVIOUS
  <2>1. down'[v] = <<Request(b, r)>>
    BY <2>3, <1>2, <1>4
  <2>2. Tells(v)' = 2
    BY <1>4 DEF Tells
  <2>q. QED
    BY <2>1, <2>2, <1>2, RoomAsked
<1>q. QED
  BY <1>3, <1>4, SearchDoes

(* The owner that takes an update of w finds w waiting for its answer.     *)
LEMMA UpdateWaits ==
  ASSUME Types, Exchanges, NEW w \in Workers, mpc = "searching", w \in pending, up[w] # <<>>,
         up[w][1] \in Updates
  PROVE  worker[w].pc = "exchange" /\ Len(up[w]) = 1 /\ down[w] = <<>> /\ Tail(up[w]) = <<>>
<1>1. Busy(w) /\ up[w] \in Seq(Ups) /\ down[w] \in Seq(Downs) /\ up[w][1].kind = "update"
  BY DEF Exchanges, Decisions, Types, WorkerTypes, Updates
<1>2. Updating(w)
  BY <1>1 DEF Busy, Starting, Batching, Hearing, Finishing, Failing, At
<1>3. worker[w].pc = "exchange" /\ Len(up[w]) = 1 /\ Len(down[w]) = 0
  BY <1>2 DEF Updating, At
<1>4. down[w] = <<>>
  BY <1>1, <1>3
<1>5. Len(Tail(up[w])) = 0 /\ Tail(up[w]) \in Seq(Ups)
  BY <1>1, <1>3, TailIs
<1>6. Tail(up[w]) = <<>>
  BY <1>5, EmptySeq
<1>q. QED
  BY <1>3, <1>4, <1>6

LEMMA RoomsReceive ==
  ASSUME Types, Types', Exchanges, Rooms, NEW w \in Workers, Receive(w)
  PROVE  Rooms'
<1>1. /\ mpc = "searching" /\ w \in pending /\ up[w] # <<>> /\ worker' = worker
      /\ up' = [up EXCEPT ![w] = Tail(@)]
  BY DEF Receive
<1>2. /\ up \in [Workers -> Seq(Ups)] /\ down \in [Workers -> Seq(Downs)]
      /\ up[w] \in Seq(Ups) /\ down[w] \in Seq(Downs)
  BY DEF Types, WorkerTypes
<1>3. Head(up[w]) = up[w][1]
  BY <1>1, <1>2, TailIs
<1>4. \A v \in Workers : Tells(v) = 2 /\ Room(worker[v].pc, up[v], down[v], 2)
  BY <1>1 DEF Tells, Rooms
<1>5. mpc' \in {"searching", "failed"}
  BY <1>1, ReceiveDoes DEF ReceiveCases
<1>6. \A v \in Workers : Tells(v)' = 2
  BY <1>5 DEF Tells
<1>7. up'[w] = Tail(up[w]) /\ \A v \in Workers \ {w} : up'[v] = up[v]
  BY <1>1, <1>2
<1>8. CASE down' = down
  <2>1. Room(worker[w].pc, Tail(up[w]), down[w], 2)
    BY <1>1, <1>2, <1>4, RoomTaken
  <2>2. \A v \in Workers : Room(worker[v].pc, up'[v], down[v], 2)
    BY <2>1, <1>4, <1>7
  <2>q. QED
    BY <2>2, <1>1, <1>6, <1>8 DEF Rooms
<1>9. CASE up[w][1] \in Updates /\ Tell(w, Reply(w, up[w][1])) /\ Reply(w, up[w][1]) \in Acks
  <2> DEFINE m == Reply(w, up[w][1])
  <2>1. worker[w].pc = "exchange" /\ down[w] = <<>> /\ Tail(up[w]) = <<>>
    BY <1>1, <1>9, UpdateWaits
  <2>2. m \in Downs /\ Tell(w, m)
    BY <1>9 DEF Downs
  <2> HIDE DEF m
  <2>3. down'[w] = <<m>> /\ \A v \in Workers \ {w} : down'[v] = down[v]
    BY <2>1, <2>2, <1>2, TellType
  <2>4. Room(worker[w].pc, <<>>, <<m>>, 2)
    BY <2>1, RoomAsked
  <2>5. \A v \in Workers : Room(worker[v].pc, up'[v], down'[v], 2)
    BY <2>1, <2>3, <2>4, <1>4, <1>7
  <2>q. QED
    BY <2>5, <1>1, <1>6 DEF Rooms
<1>q. QED
  BY <1>3, <1>8, <1>9, ReceiveDoes DEF ReceiveCases

LEMMA RoomsOwner ==
  ASSUME Types, Types', Rooms,
         \/ Lost \/ Answer \/ Grace \/ Close \/ Expire \/ OwnerDies
         \/ \E w \in Workers : Spawn(w) \/ Startup(w) \/ Drain(w) \/ Dismiss(w) \/ Join(w)
  PROVE  Rooms'
<1>t. /\ up \in [Workers -> Seq(Ups)] /\ down \in [Workers -> Seq(Downs)]
      /\ \A v \in Workers : /\ up[v] \in Seq(Ups) /\ down[v] \in Seq(Downs)
                            /\ Tells(v) \in Nat /\ Room(worker[v].pc, up[v], down[v], Tells(v))
  <2>1. \A v \in Workers : Tells(v) \in Nat
    BY TellsType
  <2>q. QED
    BY <2>1 DEF Types, WorkerTypes, Rooms
<1>p. /\ \A k \in {"isolation_ack", "close", "cleanup_ack"} :
           Message(k) \in Downs /\ ~IsTask(Message(k))
  BY Plains DEF IsTask
<1>l. ASSUME UNCHANGED <<worker, up, down>>,
             \A v \in Workers : Tells(v)' \in Nat /\ Tells(v)' <= Tells(v)
      PROVE  Rooms'
  <2>1. \A v \in Workers : Room(worker[v].pc, up[v], down[v], Tells(v)')
    BY <1>t, <1>l, RoomLess
  <2>q. QED
    BY <2>1, <1>l DEF Rooms
<1>1. CASE Lost \/ Answer \/ Expire \/ OwnerDies \/ \E w \in Workers : Spawn(w)
  <2>1. /\ UNCHANGED <<worker, up, down>>
        /\ mpc' = "dead" \/ (UNCHANGED <<mpc, pending>>)
           \/ {mpc, mpc'} \subseteq {"starting", "idle", "searching", "failed"}
    BY <1>1 DEF Lost, Answer, Expire, OwnerDies, Spawn, Poison, ownerVars
  <2>2. \A v \in Workers : Tells(v)' \in Nat /\ Tells(v)' <= Tells(v)
    <3>1. CASE mpc' = "dead"
      BY <3>1, <1>t DEF Tells
    <3>2. CASE UNCHANGED <<mpc, pending>>
      <4>1. \A v \in Workers : Tells(v)' = Tells(v)
        BY <3>2 DEF Tells
      <4>q. QED
        BY <4>1, <1>t
    <3>3. CASE {mpc, mpc'} \subseteq {"starting", "idle", "searching", "failed"}
      BY <3>3 DEF Tells
    <3>q. QED
      BY <2>1, <3>1, <3>2, <3>3
  <2>q. QED
    BY <2>1, <2>2, <1>l
<1>2. CASE Grace
  <2>1. UNCHANGED <<worker, up, down>> /\ mpc = "closing" /\ mpc' = "reaping"
    BY <1>2 DEF Grace
  <2>2. \A v \in Workers : Tells(v) = 1 /\ Tells(v)' \in 0 .. 1
    BY <2>1 DEF Tells
  <2>q. QED
    BY <2>1, <2>2, <1>l
<1>3. CASE Close
  <2>1. /\ UNCHANGED <<worker, up>> /\ mpc \in {"idle", "failed"} /\ mpc' = "closing"
        /\ \A v \in Workers : \/ down'[v] = Append(down[v], Message("close"))
                              \/ down'[v] = down[v]
    BY <1>3 DEF Close
  <2>2. \A v \in Workers : Tells(v) = 2 /\ Tells(v)' = 1
    BY <2>1 DEF Tells
  <2>3. ASSUME NEW v \in Workers
        PROVE  /\ Room(worker[v].pc, up[v], Append(down[v], Message("close")), 1)
               /\ Room(worker[v].pc, up[v], down[v], 1)
    <3>1. Room(worker[v].pc, up[v], down[v], 1 + 1)
      BY <1>t, <2>2
    <3>2. Message("close") \in Downs /\ ~IsTask(Message("close"))
      BY <1>p
    <3>q. QED
      BY <3>1, <3>2, <1>t, RoomTold, RoomLess
  <2>4. \A v \in Workers : Room(worker[v].pc, up[v], down'[v], 1)
    BY <2>1, <2>3
  <2>q. QED
    BY <2>1, <2>2, <2>4 DEF Rooms
<1>4. ASSUME NEW w \in Workers, up[w] # <<>>, up' = [up EXCEPT ![w] = Tail(@)], worker' = worker,
             \/ down' = down
             \/ up[w][1].kind = "isolation" /\ Tell(w, Message("isolation_ack")),
             \A v \in Workers : Tells(v)' = Tells(v)
      PROVE  Rooms'
  <2> DEFINE m == Message("isolation_ack")
  <2>1. up'[w] = Tail(up[w]) /\ \A v \in Workers \ {w} : up'[v] = up[v]
    BY <1>t, <1>4
  <2>2. /\ Room(worker[w].pc, Tail(up[w]), down[w], Tells(w))
        /\ up[w][1].kind = "isolation" => Room(worker[w].pc, Tail(up[w]), down[w], Tells(w) + 1)
    BY <1>t, <1>4, RoomTaken
  <2>3. m \in Downs /\ ~IsTask(m) /\ Tail(up[w]) \in Seq(Ups)
    BY <1>p, <1>t, <1>4
  <2> HIDE DEF m
  <2>4. up[w][1].kind = "isolation" => Room(worker[w].pc, Tail(up[w]), Append(down[w], m), Tells(w))
    <3> DEFINE u == Tail(up[w])
    <3>1. /\ u \in Seq(Ups)
          /\ up[w][1].kind = "isolation" => Room(worker[w].pc, u, down[w], Tells(w) + 1)
      BY <2>2, <2>3
    <3> HIDE DEF u
    <3>2. up[w][1].kind = "isolation" => Room(worker[w].pc, u, Append(down[w], m), Tells(w))
      BY <3>1, <2>3, <1>t, RoomTold
    <3>q. QED
      BY <3>2 DEF u
  <2>5. \/ down' = down
        \/ /\ up[w][1].kind = "isolation" /\ down'[w] = Append(down[w], m)
           /\ \A v \in Workers \ {w} : down'[v] = down[v]
    BY <1>4, <2>3, <1>t, TellType DEF m
  <2>6. Room(worker[w].pc, up'[w], down'[w], Tells(w))
    BY <2>1, <2>2, <2>4, <2>5
  <2>7. \A v \in Workers \ {w} : Room(worker[v].pc, up'[v], down'[v], Tells(v))
    BY <2>1, <2>5, <1>t
  <2>8. \A v \in Workers : Room(worker[v].pc, up'[v], down'[v], Tells(v))
    BY <2>6, <2>7
  <2>q. QED
    BY <2>8, <1>4 DEF Rooms
<1>5. ASSUME NEW w \in Workers, Startup(w) PROVE Rooms'
  <2>1. /\ up[w] # <<>> /\ up' = [up EXCEPT ![w] = Tail(@)] /\ worker' = worker
        /\ \/ down' = down
           \/ Head(up[w]).kind = "isolation" /\ Tell(w, Message("isolation_ack"))
        /\ mpc = "starting" /\ mpc' \in {"starting", "failed", "idle"}
    BY <1>5 DEF Startup
  <2>2. \A v \in Workers : Tells(v)' = Tells(v)
    BY <2>1 DEF Tells
  <2>3. Head(up[w]) = up[w][1]
    BY <2>1, <1>t, TailIs
  <2>q. QED
    BY <2>1, <2>2, <2>3, <1>4
<1>6. ASSUME NEW w \in Workers, Drain(w) PROVE Rooms'
  <2>1. worker' = worker /\ mpc = "closing" /\ mpc' = mpc
    BY <1>6 DEF Drain
  <2>2. \A v \in Workers : Tells(v)' = Tells(v) /\ Tells(v) = 1
    BY <2>1 DEF Tells
  <2>3. CASE /\ up[w] # <<>> /\ up' = [up EXCEPT ![w] = Tail(@)]
             /\ \/ down' = down
                \/ Head(up[w]).kind = "isolation" /\ Tell(w, Message("isolation_ack"))
    <3>1. Head(up[w]) = up[w][1]
      BY <2>3, <1>t, TailIs
    <3>q. QED
      BY <2>1, <2>2, <2>3, <3>1, <1>4
  <2>4. CASE UNCHANGED <<up, down>>
    BY <2>1, <2>2, <2>4, <1>l
  <2>q. QED
    BY <1>6, <2>3, <2>4 DEF Drain
<1>7. ASSUME NEW w \in Workers, Dismiss(w) PROVE Rooms'
  <2>1. /\ worker' = worker /\ up' = up /\ mpc = "reaping" /\ mpc' = "joining"
        /\ w = Min(pending) /\ pending # {} /\ pending' = pending
        /\ down' = down \/ Tell(w, Message("cleanup_ack"))
    BY <1>7 DEF Dismiss
  <2>0. w \in pending
    <3>1. pending \in SUBSET Nat
      BY PoolAssumption DEF Types, OwnerTypes, Workers
    <3>2. \E k \in pending : \A v \in pending : k <= v
      BY <2>1, <3>1, LeastNumber
    <3>q. QED
      BY <2>1, <3>2 DEF Min
  <2>2. Tells(w) = 1 /\ Tells(w)' = 0 /\ \A v \in Workers \ {w} : Tells(v)' = Tells(v)
    BY <2>0, <2>1 DEF Tells
  <2>3. CASE down' = down
    <3>1. \A v \in Workers : Tells(v)' \in Nat /\ Tells(v)' <= Tells(v)
      BY <2>0, <2>1 DEF Tells
    <3>q. QED
      BY <2>1, <2>3, <3>1, <1>l
  <2>4. CASE Tell(w, Message("cleanup_ack"))
    <3> DEFINE m == Message("cleanup_ack")
    <3>1. m \in Downs /\ ~IsTask(m) /\ Tell(w, m)
      BY <1>p, <2>4
    <3> HIDE DEF m
    <3>2. down'[w] = Append(down[w], m) /\ \A v \in Workers \ {w} : down'[v] = down[v]
      BY <3>1, <1>t, TellType
    <3>3. Room(worker[w].pc, up[w], down[w], 0 + 1)
      BY <2>2, <1>t
    <3>4. Room(worker[w].pc, up[w], Append(down[w], m), 0)
      BY <3>1, <3>3, <1>t, RoomTold
    <3>5. \A v \in Workers : Room(worker[v].pc, up[v], down'[v], Tells(v)')
      BY <3>2, <3>4, <2>2, <1>t
    <3>q. QED
      BY <2>1, <3>5 DEF Rooms
  <2>q. QED
    BY <2>1, <2>3, <2>4
<1>8. ASSUME NEW w \in Workers, Join(w) PROVE Rooms'
  <2>1. /\ UNCHANGED <<worker, up, down>> /\ mpc = "joining" /\ mpc' \in {"closed", "reaping"}
        /\ w = Min(pending) /\ pending' = pending \ {w}
    BY <1>8 DEF Join
  <2>2. \A v \in Workers : Tells(v)' \in Nat /\ Tells(v)' <= Tells(v)
    BY <2>1 DEF Tells
  <2>q. QED
    BY <2>1, <2>2, <1>l
<1>q. QED
  BY <1>1, <1>2, <1>3, <1>5, <1>6, <1>7, <1>8

LEMMA LeastIs ==
  ASSUME NEW a \in Nat, NEW b \in Nat
  PROVE  Min({a, b}) <= a /\ Min({a, b}) <= b
<1>1. \E x \in {a, b} : \A y \in {a, b} : x <= y
  OBVIOUS
<1>q. QED
  BY <1>1 DEF Min

(* The owner that does not decide leaves the batches as they are.          *)
LEMMA QuotasKept ==
  ASSUME Types, Quotas, UNCHANGED <<load, worker, left, completed>>, mpc' # "searching",
         \A v \in Workers :
           /\ up'[v] = up[v] \/ (up[v] # <<>> /\ up'[v] = Tail(up[v]))
           /\ \/ down'[v] = down[v]
              \/ \E m \in Downs : ~IsTask(m) /\ down'[v] = Append(down[v], m)
  PROVE  Quotas'
<1>1. ASSUME NEW v \in Workers
      PROVE  Held(worker[v].pc, worker[v].limit, up'[v], down'[v], BatchSize)
  <2>1. /\ up[v] \in Seq(Ups) /\ down[v] \in Seq(Downs)
        /\ Held(worker[v].pc, worker[v].limit, up[v], down[v], BatchSize)
    BY DEF Types, WorkerTypes, Quotas
  <2>2. Held(worker[v].pc, worker[v].limit, up'[v], down[v], BatchSize)
    BY <2>1, HeldTaken
  <2>3. CASE down'[v] = down[v]
    BY <2>2, <2>3
  <2>4. ASSUME NEW m \in Downs, ~IsTask(m), down'[v] = Append(down[v], m)
        PROVE  Held(worker[v].pc, worker[v].limit, up'[v], down'[v], BatchSize)
    BY <2>1, <2>2, <2>4, HeldTold
  <2>q. QED
    BY <2>3, <2>4
<1>q. QED
  BY <1>1 DEF Quotas, Wanted

LEMMA QuotasSearch ==
  ASSUME Types, Types', Exchanges, Quotas, UNCHANGED load,
         NEW b \in load.battles, NEW r \in Roots, Search(b, r)
  PROVE  Quotas'
<1>1. mpc = "idle" /\ worker' = worker /\ up' = up
  BY SearchDoes
<1>2. /\ load.quota \in Nat /\ BatchSize \in Nat /\ Request(b, r) \in Downs
      /\ IsTask(Request(b, r))
      /\ Request(b, r).limit <= BatchSize /\ Request(b, r).limit <= load.quota
  <2>1. load.quota \in Nat /\ BatchSize \in Nat /\ Request(b, r) \in Starts
    BY ReadyType, PoolAssumption
  <2>2. Request(b, r).limit = Min({BatchSize, load.quota}) /\ Request(b, r).kind = "start"
    BY DEF Request
  <2>q. QED
    BY <2>1, <2>2, LeastIs DEF Downs, IsTask
<1>3. CASE mpc' = "failed" /\ UNCHANGED <<left, completed, down>>
  BY <1>1, <1>3, QuotasKept
<1>4. CASE /\ mpc' = "searching" /\ left' = [w \in Workers |-> load.quota] /\ completed' = 0
           /\ down' = [w \in Workers |-> Append(down[w], Request(b, r))]
  <2>1. ASSUME NEW v \in Workers
        PROVE  /\ worker[v].limit <= BatchSize /\ left'[v] <= load.quota
               /\ Held(worker[v].pc, worker[v].limit, up[v], down'[v], BatchSize)
               /\ Held(worker[v].pc, worker[v].limit, up[v], down'[v], left'[v])
    <3>1. /\ down[v] \in Seq(Downs) /\ up[v] \in Seq(Ups) /\ worker[v].limit <= BatchSize
          /\ Held(worker[v].pc, worker[v].limit, up[v], down[v], BatchSize)
      BY DEF Types, WorkerTypes, Quotas
    <3>2. down'[v] = Append(down[v], Request(b, r)) /\ left'[v] = load.quota
      BY <1>4
    <3>3. worker[v].pc = "idle" /\ Len(up[v]) = 0 /\ Len(down[v]) = 0
      BY <1>1 DEF Exchanges, Finishes, At
    <3>4. Held(worker[v].pc, worker[v].limit, up[v], down[v], load.quota)
      BY <3>3 DEF Held
    <3>q. QED
      BY <3>1, <3>2, <3>4, <1>2, HeldTold
  <2>2. [v \in Workers |-> load.quota - left'[v]] \in Counts
    BY <1>2, <1>4 DEF Counts
  <2>3. completed' <= Total([v \in Workers |-> load.quota - left'[v]])
    <3> DEFINE f == [v \in Workers |-> load.quota - left'[v]]
    <3>1. f \in Counts
      BY <2>2
    <3> HIDE DEF f
    <3>2. Total(f) \in Nat
      BY <3>1, TotalType
    <3>3. completed' <= Total(f)
      BY <3>2, <1>4
    <3>q. QED
      BY <3>3 DEF f
  <2>q. QED
    BY <2>1, <2>3, <1>1 DEF Quotas, Wanted
<1>q. QED
  BY <1>3, <1>4, SearchDoes

(* What the owner grants w next, after an update of what it had granted.   *)
LEMMA LimitIs ==
  ASSUME NEW w \in Workers, left \in [Workers -> Nat],
         NEW batch \in [trajectories : Nat, exhausted : BOOLEAN], batch.trajectories <= left[w]
  PROVE  Limit(w, batch) <= BatchSize /\ Limit(w, batch) <= left[w] - batch.trajectories
<1>0. BatchSize \in Nat /\ left[w] \in Nat /\ batch.trajectories \in Nat
  BY PoolAssumption
<1>1. left[w] - batch.trajectories \in Nat
  BY <1>0
<1>2. Limit(w, batch) \in {0, Min({BatchSize, left[w] - batch.trajectories})}
  BY DEF Limit
<1>q. QED
  BY <1>0, <1>1, <1>2, LeastIs

LEMMA QuotasReceive ==
  ASSUME Types, Types', Exchanges, Quotas, UNCHANGED load, NEW w \in Workers, Receive(w)
  PROVE  Quotas'
<1> DEFINE m == up[w][1]
           k == m.batch.trajectories
<1>1. /\ mpc = "searching" /\ w \in pending /\ up[w] # <<>> /\ worker' = worker
      /\ up' = [up EXCEPT ![w] = Tail(@)]
  BY DEF Receive
<1>2. /\ up \in [Workers -> Seq(Ups)] /\ down \in [Workers -> Seq(Downs)]
      /\ up[w] \in Seq(Ups) /\ down[w] \in Seq(Downs) /\ left \in [Workers -> Nat]
      /\ left[w] \in Nat /\ completed \in Nat /\ worker[w] \in Records /\ decision \in Nat
      /\ load.quota \in Nat
  BY PoolAssumption DEF Types, WorkerTypes, OwnerTypes
<1>3. Head(up[w]) = m /\ m \in Ups
  BY <1>1, <1>2, TailIs
<1>7. up'[w] = Tail(up[w]) /\ \A v \in Workers \ {w} : up'[v] = up[v]
  BY <1>1, <1>2
<1>8. CASE UNCHANGED <<left, completed, down>> /\ mpc' # "searching"
  BY <1>1, <1>7, <1>8, QuotasKept
<1>9. CASE UNCHANGED <<left, completed, down>> /\ mpc' = mpc
  <2>1. \A c : Held(worker[w].pc, worker[w].limit, up[w], down[w], c)
                 => Held(worker[w].pc, worker[w].limit, Tail(up[w]), down[w], c)
    BY <1>1, <1>2, HeldTaken
  <2>2. \A v \in Workers : \A c : Held(worker[v].pc, worker[v].limit, up[v], down[v], c)
                 => Held(worker[v].pc, worker[v].limit, up'[v], down[v], c)
    BY <2>1, <1>7
  <2>q. QED
    BY <2>2, <1>1, <1>9 DEF Quotas, Wanted
<1>10. ASSUME m \in Updates, mpc' = mpc, completed' = completed + k,
              left' = [left EXCEPT ![w] = IF @ > k THEN @ - k ELSE 0],
              Tell(w, Reply(w, m))
       PROVE  Quotas'
  <2>1. /\ worker[w].pc = "exchange" /\ down[w] = <<>> /\ Tail(up[w]) = <<>> /\ Len(up[w]) = 1
        /\ 1 \in 1 .. Len(up[w])
    BY <1>1, <1>10, UpdateWaits
  <2>2. /\ m.kind = "update" /\ m.batch \in [trajectories : Nat, exhausted : BOOLEAN] /\ k \in Nat
        /\ m.update \in Exports
    BY <1>10 DEF Updates
  <2>3. k <= left[w]
    <3>1. Held(worker[w].pc, worker[w].limit, up[w], down[w], left[w])
      BY <1>1 DEF Quotas
    <3>q. QED
      BY <3>1, <2>1, <2>2 DEF Held
  <2>4. left'[w] = left[w] - k /\ \A v \in Workers \ {w} : left'[v] = left[v]
    BY <1>2, <1>10, <2>2, <2>3
  <2>5. Reply(w, m).kind = "ack" /\ Reply(w, m).limit = Limit(w, m.batch)
    BY DEF Reply
  <2>6. Reply(w, m) \in Downs
    <3>1. Taken(w, m) \in Masters
      BY <2>2, AcceptType DEF Taken, Types, OwnerTypes
    <3>2. Snapshot(Taken(w, m)) \in Snaps /\ Limit(w, m.batch) \in Nat
      BY <3>1, <2>2, <1>2, SnapshotType, LimitType DEF Types, OwnerTypes
    <3>q. QED
      BY <3>2, <1>2 DEF Reply, Acks, Downs
  <2>7. Reply(w, m).limit <= BatchSize /\ Reply(w, m).limit <= left'[w]
    BY <1>2, <2>2, <2>3, <2>4, <2>5, LimitIs
  <2>8. /\ down'[w] = Append(down[w], Reply(w, m))
        /\ \A v \in Workers \ {w} : down'[v] = down[v]
    BY <1>2, <1>10, <2>6, TellType
  <2>9. ASSUME NEW c, Reply(w, m).limit <= c
        PROVE  Held(worker[w].pc, worker[w].limit, up'[w], down'[w], c)
    <3>1. Held(worker[w].pc, worker[w].limit, up'[w], down[w], c)
      <4>1. Len(up'[w]) = 0 /\ Len(down[w]) = 0
        BY <1>7, <2>1
      <4>q. QED
        BY <4>1, <2>1 DEF Held
    <3> HIDE DEF m
    <3>q. QED
      BY <3>1, <2>6, <2>8, <2>9, <1>2, HeldTold
  <2>10. left'[w] <= load.quota
    BY <2>2, <2>3, <2>4, <1>2 DEF Quotas
  <2>11. \A v \in Workers :
           /\ worker[v].limit <= BatchSize /\ left'[v] <= load.quota
           /\ Held(worker[v].pc, worker[v].limit, up'[v], down'[v], BatchSize)
           /\ Held(worker[v].pc, worker[v].limit, up'[v], down'[v], left'[v])
    <3> SUFFICES ASSUME NEW v \in Workers
                 PROVE  /\ worker[v].limit <= BatchSize /\ left'[v] <= load.quota
                        /\ Held(worker[v].pc, worker[v].limit, up'[v], down'[v], BatchSize)
                        /\ Held(worker[v].pc, worker[v].limit, up'[v], down'[v], left'[v])
      OBVIOUS
    <3> HIDE DEF m, k
    <3>1. CASE v = w
      BY <3>1, <2>7, <2>9, <2>10 DEF Quotas
    <3>2. CASE v # w
      BY <3>2, <1>1, <1>7, <2>4, <2>8 DEF Quotas
    <3>q. QED
      BY <3>1, <3>2
  <2>12. completed' <= Total([v \in Workers |-> load.quota - left'[v]])
    <3> DEFINE f == [v \in Workers |-> load.quota - left[v]]
               g == [v \in Workers |-> load.quota - left'[v]]
    <3>1. \A v \in Workers : left[v] \in Nat /\ left[v] <= load.quota /\ left'[v] \in Nat
                             /\ left'[v] <= load.quota
      BY <1>2, <2>11 DEF Quotas, Types, OwnerTypes
    <3>2. f \in Counts /\ g \in Counts
      BY <1>2, <3>1 DEF Counts
    <3>3. g[w] = f[w] + k
      BY <1>2, <2>2, <2>4, <3>1
    <3>4. \A v \in Workers \ {w} : g[v] = f[v]
      BY <2>4
    <3>5. completed <= Total(f)
      BY DEF Quotas, Wanted
    <3> HIDE DEF f, g, m, k
    <3>6. Total(g) = Total(f) + k
      BY <2>2, <3>2, <3>3, <3>4, TotalGrows
    <3>7. Total(f) \in Nat
      BY <3>2, TotalType
    <3>8. completed' <= Total(g)
      BY <3>5, <3>6, <3>7, <2>2, <1>2, <1>10
    <3>q. QED
      BY <3>8 DEF g
  <2>q. QED
    BY <2>11, <2>12, <1>1, <1>10 DEF Quotas, Wanted
<1>11. \/ UNCHANGED <<left, completed, down>> /\ mpc' \in {"searching", "failed"}
       \/ /\ m \in Updates /\ mpc' = mpc /\ completed' = completed + k
          /\ left' = [left EXCEPT ![w] = IF @ > k THEN @ - k ELSE 0]
          /\ Tell(w, Reply(w, m))
  <2>1. \/ Mine(w, m) /\ m.kind = "update" /\ Update(w, m)
        \/ UNCHANGED <<left, completed, down>> /\ mpc' \in {"searching", "failed"}
    BY <1>1, <1>3 DEF Receive, Poison
  <2>2. CASE Mine(w, m) /\ m.kind = "update" /\ Update(w, m)
    <3>1. m \in Updates
      BY <1>3, <2>2, UpKinds
    <3>2. CASE ~Acceptable(master, w, m.update)
      BY <2>2, <3>2 DEF Update, Poison
    <3>3. CASE Acceptable(master, w, m.update)
      <4>1. /\ master' = Taken(w, m) /\ completed' = completed + k
            /\ left' = [left EXCEPT ![w] = IF @ > k THEN @ - k ELSE 0]
            /\ Tell(w, [kind |-> "ack", dec |-> decision, snap |-> Snapshot(master'),
                        limit |-> Limit(w, m.batch)])
            /\ mpc' = mpc
        BY <3>3, <2>2 DEF Update, Taken
      <4>2. Tell(w, Reply(w, m))
        BY <4>1 DEF Reply, Snapshot
      <4>q. QED
        BY <4>1, <4>2, <3>1
    <3>q. QED
      BY <3>2, <3>3
  <2>q. QED
    BY <2>1, <2>2
<1>q. QED
  BY <1>1, <1>8, <1>9, <1>10, <1>11

LEMMA QuotasOwner ==
  ASSUME Types, Types', Quotas, UNCHANGED load,
         \/ Lost \/ Answer \/ Grace \/ Close \/ Expire \/ OwnerDies
         \/ \E w \in Workers : Spawn(w) \/ Startup(w) \/ Drain(w) \/ Dismiss(w) \/ Join(w)
  PROVE  Quotas'
<1>t. /\ up \in [Workers -> Seq(Ups)] /\ down \in [Workers -> Seq(Downs)]
      /\ \A v \in Workers : up[v] \in Seq(Ups) /\ down[v] \in Seq(Downs)
  BY DEF Types, WorkerTypes
<1>p. \A k \in {"isolation_ack", "close", "cleanup_ack"} :
         Message(k) \in Downs /\ ~IsTask(Message(k))
  BY Plains DEF IsTask
<1>1. CASE Expire
  BY <1>1 DEF Expire, ownerVars, Quotas, Wanted
<1>2. CASE Lost \/ Answer \/ Grace \/ OwnerDies \/ \E w \in Workers : Spawn(w) \/ Join(w)
  <2>1. UNCHANGED <<worker, left, completed, up, down>> /\ mpc' # "searching"
    BY <1>2 DEF Lost, Answer, Grace, OwnerDies, Spawn, Join, Poison
  <2>q. QED
    BY <2>1, QuotasKept
<1>3. CASE Close
  <2>1. /\ UNCHANGED <<worker, left, completed, up>> /\ mpc' = "closing"
        /\ \A v \in Workers : \/ down'[v] = Append(down[v], Message("close"))
                              \/ down'[v] = down[v]
    BY <1>3 DEF Close
  <2>q. QED
    BY <2>1, <1>p, QuotasKept
<1>4. ASSUME NEW w \in Workers, Startup(w) \/ Drain(w) \/ Dismiss(w) PROVE Quotas'
  <2>1. /\ UNCHANGED <<worker, left, completed>> /\ mpc' # "searching"
        /\ up' = up \/ (up[w] # <<>> /\ up' = [up EXCEPT ![w] = Tail(@)])
        /\ \/ down' = down
           \/ \E k \in {"isolation_ack", "cleanup_ack"} : Tell(w, Message(k))
    BY <1>4 DEF Startup, Drain, Dismiss
  <2>2. \A v \in Workers : up'[v] = up[v] \/ (up[v] # <<>> /\ up'[v] = Tail(up[v]))
    BY <2>1, <1>t
  <2>3. \A v \in Workers : \/ down'[v] = down[v]
                           \/ \E m \in Downs : ~IsTask(m) /\ down'[v] = Append(down[v], m)
    BY <2>1, <1>t, <1>p, TellType
  <2>q. QED
    BY <2>1, <2>2, <2>3, QuotasKept
<1>q. QED
  BY <1>1, <1>2, <1>3, <1>4

LEMMA PhasesStep ==
  ASSUME Types, Phases, [Next /\ UNCHANGED load]_vars
  PROVE  Phases'
<1>0. load \in Loads /\ load.faults \in Nat
  BY PoolAssumption DEF Types, OwnerTypes
<1>f. \A k : k \in 0 .. load.faults /\ k < load.faults => k + 1 \in 0 .. load.faults
  BY <1>0
<1>1. CASE UNCHANGED vars
  BY <1>1 DEF Phases, vars, moving, ownerVars, procVars
<1>2. ASSUME UNCHANGED load, NEW b \in load.battles, NEW r \in Roots, Search(b, r) PROVE Phases'
  <2>1. /\ mpc' \in {"failed", "searching"} /\ why' \in {"request", why}
        /\ UNCHANGED <<hung, faults>>
    BY <1>2, SearchDoes DEF procVars
  <2>q. QED
    BY <2>1, <1>2 DEF Phases
<1>3. ASSUME UNCHANGED load, NEW w \in Workers, Receive(w) PROVE Phases'
  <2>1. \A m \in Errors : m.cause \in {"startup", "statistics", "drift", "runtime"}
    BY DEF Errors
  <2>2. /\ mpc' \in {"failed", mpc} /\ UNCHANGED <<hung, faults>>
        /\ why' \in {"statistics", "drift", "startup", "runtime", why}
    BY <1>3, <2>1, ReceiveDoes DEF ReceiveCases, Receive, procVars
  <2>q. QED
    BY <2>2, <1>3 DEF Phases
<1>4. ASSUME UNCHANGED load, NEW w \in Workers,
             WorkerStep(w) \/ RuntimeError(w) \/ Die(w) \/ Hang(w) PROVE Phases'
  <2>1. UNCHANGED <<mpc, why>>
    BY <1>4, WorkerFrame DEF ownerVars
  <2>2. hung' \subseteq hung \cup {w} /\ (faults' = faults \/ Fault)
    BY <1>4 DEF WorkerStep, Isolate, BootWorker, TakeStart, Batch, TakeAck, EndOfPipe, Finally,
                Leave, RuntimeError, Die, Hang, procVars
  <2>q. QED
    BY <2>1, <2>2, <1>4, <1>f DEF Phases, Fault
<1>5. ASSUME UNCHANGED load,
             \/ Lost \/ Answer \/ Grace \/ Close \/ Expire \/ OwnerDies
             \/ \E w \in Workers : Spawn(w) \/ Startup(w) \/ Drain(w) \/ Dismiss(w) \/ Join(w)
      PROVE  Phases'
  <2>1. CASE Lost \/ Answer \/ Grace \/ Close \/ Expire \/ OwnerDies
    <3>1. /\ mpc' \in {"failed", "idle", "reaping", "closing", "dead", mpc}
          /\ why' \in {"startup", "transport", "empty", "root", why}
          /\ hung' = hung /\ (faults' = faults \/ Fault)
      BY <2>1 DEF Lost, Answer, Grace, Close, Expire, OwnerDies, Poison, TooSlow, ownerVars, procVars
    <3>q. QED
      BY <3>1, <1>5, <1>f DEF Phases, Fault
  <2>2. CASE \E w \in Workers : Spawn(w) \/ Startup(w) \/ Drain(w) \/ Dismiss(w) \/ Join(w)
    <3>1. /\ mpc' \in {"failed", "idle", "joining", "closed", "reaping", mpc}
          /\ why' \in {"startup", why} /\ UNCHANGED <<hung, faults>>
      BY <2>2 DEF Spawn, Startup, Drain, Dismiss, Join, procVars
    <3>q. QED
      BY <3>1, <1>5 DEF Phases
  <2>q. QED
    BY <1>5, <2>1, <2>2
<1>q. QED
  BY <1>1, <1>2, <1>3, <1>4, <1>5, NextSplits

LEMMA SizesInit == Init => Rooms /\ Quotas /\ Phases
<1> SUFFICES ASSUME Init PROVE Rooms /\ Quotas /\ Phases
  OBVIOUS
<1>0. /\ load \in Loads /\ load.faults \in Nat /\ load.quota \in Nat /\ BatchSize \in Nat
      /\ \A v \in Workers : /\ worker[v].pc = "born" /\ worker[v].limit = 0
                            /\ up[v] = <<>> /\ down[v] = <<>> /\ left[v] = 0
      /\ mpc = "starting" /\ why = "sound" /\ hung = {} /\ faults = 0 /\ completed = 0
  BY PoolAssumption DEF Init, Newborn
<1>1. Rooms
  <2>1. Owes("born") = 4 /\ Count(Tasked(<<>>)) = 0 /\ Count(Unasked("born", <<>>)) = 1
    BY DEF Owes, Count, Tasked, Unasked
  <2>2. Room("born", <<>>, <<>>, 2)
    BY <2>1 DEF Room
  <2>q. QED
    BY <1>0, <2>2 DEF Rooms, Tells
<1>2. Quotas
  <2>1. \A v \in Workers : Held(worker[v].pc, worker[v].limit, up[v], down[v], BatchSize)
    BY <1>0 DEF Held
  <2>2. completed <= Total([v \in Workers |-> Wanted(v)])
    <3> DEFINE f == [v \in Workers |-> Wanted(v)]
    <3>1. f \in Counts
      BY <1>0 DEF Counts, Wanted
    <3> HIDE DEF f
    <3>2. Total(f) \in Nat
      BY <3>1, TotalType
    <3>3. completed <= Total(f)
      BY <3>2, <1>0
    <3>q. QED
      BY <3>3 DEF f
  <2>q. QED
    BY <2>1, <2>2, <1>0 DEF Quotas
<1>3. Phases
  BY <1>0 DEF Phases
<1>q. QED
  BY <1>1, <1>2, <1>3

LEMMA SizesStep ==
  ASSUME Types, Types', Exchanges, Rooms, Quotas, [Next /\ UNCHANGED load]_vars
  PROVE  Rooms' /\ Quotas'
<1>1. CASE UNCHANGED vars
  BY <1>1 DEF Rooms, Tells, Quotas, Wanted, vars, moving, ownerVars
<1>2. CASE Next /\ UNCHANGED load
  <2>1. Rooms'
    BY <1>2, NextSplits, RoomsSearch, RoomsReceive, RoomsWorker, RoomsOwner
  <2>2. Quotas'
    BY <1>2, NextSplits, QuotasSearch, QuotasReceive, QuotasWorker, QuotasOwner
  <2>q. QED
    BY <2>1, <2>2
<1>q. QED
  BY <1>1, <1>2

(* As many workers, each with the same count.                              *)
LEMMA TotalSteady ==
  ASSUME NEW q \in Nat
  PROVE  Total([w \in Workers |-> q]) = N * q
<1> DEFINE f == [w \in Workers |-> q]
<1>0. N \in Nat /\ f \in Counts
  BY PoolAssumption DEF Counts
<1> HIDE DEF f
<1>1. PICK g \in [0 .. N -> Nat] : /\ g[0] = 0 /\ Total(f) = g[N]
                                   /\ \A i \in 1 .. N : g[i] = g[i - 1] + f[i]
  BY <1>0, TotalOf
<1> DEFINE S == {i \in 0 .. N : g[i] = i * q}
<1>2. 0 \in S
  BY <1>0, <1>1
<1>3. ASSUME NEW i \in 0 .. N, i < N, i \in S PROVE i + 1 \in S
  <2>1. i + 1 \in 1 .. N /\ (i + 1) - 1 = i /\ i \in Nat /\ g[i] = i * q
    BY <1>0, <1>3
  <2>2. f[i + 1] = q
    BY <2>1 DEF f, Workers
  <2>3. g[i + 1] = g[i] + q
    BY <2>1, <2>2, <1>1
  <2>4. (i + 1) * q = i * q + q
    BY <2>1
  <2>5. i + 1 \in 0 .. N
    BY <2>1, <1>0
  <2>q. QED
    BY <2>1, <2>3, <2>4, <2>5
<1>4. \A i \in 0 .. N : i \in S
  <2> HIDE DEF S
  <2>q. QED
    BY <1>2, <1>3, UpToN
<1>5. N \in 0 .. N
  BY <1>0
<1>6. Total(f) = N * q
  BY <1>1, <1>4, <1>5
<1>q. QED
  BY <1>6 DEF f

LEMMA SizesGiveTypes ==
  ASSUME Types, Rooms, Quotas, Phases
  PROVE  TypeOK
<1>1. /\ load.quota \in Nat /\ N \in Nat /\ BatchSize \in Nat /\ completed \in Nat
      /\ left \in [Workers -> Nat]
      /\ \A w \in Workers : /\ worker[w] \in Records /\ worker[w].limit \in Nat
                            /\ up[w] \in Seq(Ups) /\ down[w] \in Seq(Downs)
                            /\ worker[w].pc \in Pcs
                            /\ worker[w].own \in Rows /\ worker[w].view \in Rows
  BY PoolAssumption DEF Types, OwnerTypes, WorkerTypes, Records
<1>2. ASSUME NEW w \in Workers
      PROVE  /\ worker[w].limit \in 0 .. BatchSize /\ left[w] \in 0 .. load.quota
             /\ Len(up[w]) <= 4 /\ Len(down[w]) <= 3
  <2>1. worker[w].limit <= BatchSize /\ left[w] <= load.quota /\ left[w] \in Nat
    BY <1>1 DEF Quotas
  <2>2. /\ Len(down[w]) + Count(Unasked(worker[w].pc, up[w])) + Tells(w) <= 3
        /\ Len(up[w]) + Owes(worker[w].pc) + Count(Tasked(down[w])) <= 4
    BY DEF Rooms, Room
  <2> DEFINE a == Count(Unasked(worker[w].pc, up[w]))
             b == Count(Tasked(down[w]))
             t == Tells(w)
             o == Owes(worker[w].pc)
             n == Len(down[w])
             k == Len(up[w])
  <2>3. a \in Nat /\ b \in Nat
    BY DEF Count
  <2>4. t \in 0 .. 2 /\ o \in 0 .. 4
    BY TellsType, OwesType
  <2>5. n \in Nat /\ k \in Nat
    BY <1>1
  <2>6. n + a + t <= 3 /\ k + o + b <= 4
    BY <2>2
  <2> HIDE DEF a, b, t, o, n, k
  <2>7. n <= 3 /\ k <= 4
    BY <2>3, <2>4, <2>5, <2>6
  <2>q. QED
    BY <2>1, <2>7, <1>1 DEF n, k
<1>3. completed \in 0 .. (N * load.quota)
  <2> DEFINE f == [w \in Workers |-> Wanted(w)]
             g == [w \in Workers |-> load.quota]
  <2>1. \A w \in Workers : Wanted(w) \in Nat /\ Wanted(w) <= load.quota
    BY <1>1, <1>2 DEF Wanted
  <2>2. f \in Counts /\ g \in Counts /\ \A w \in Workers : f[w] <= g[w]
    BY <1>1, <2>1 DEF Counts
  <2>3. Total(g) = N * load.quota
    BY <1>1, TotalSteady
  <2>4. completed <= Total(f)
    BY DEF Quotas
  <2> HIDE DEF f, g
  <2>5. Total(f) <= Total(g) /\ Total(f) \in Nat /\ Total(g) \in Nat
    BY <2>2, TotalMonotone, TotalType
  <2>6. completed <= N * load.quota /\ N * load.quota \in Nat
    BY <2>3, <2>4, <2>5, <1>1
  <2>q. QED
    BY <2>6, <1>1
<1>4. \A r \in replies : r.from \in Workers
  BY DEF Types, OwnerTypes
<1>q. QED
  BY <1>1, <1>2, <1>3, <1>4 DEF TypeOK, Types, OwnerTypes, WorkerTypes, Phases, Pcs

(* Every reachable state of a pool is well typed: among others a worker is *)
(* never granted more than a batch or than what is left of its quota, no   *)
(* decision counts more trajectories than were asked for, and the pipes of *)
(* one worker never hold more than four messages up and three down,        *)
(* whatever fails (trajectories_per_worker and the message loops of        *)
(* paper_reference_parallel.py).                                           *)
THEOREM TypeCorrect == Spec => []TypeOK
<1>1. Spec => [](Types /\ Exchanges /\ Rooms /\ Quotas /\ Phases)
  <2>1. Init => Types /\ Exchanges /\ Rooms /\ Quotas /\ Phases
    BY TypesInit, ExchangesInit, SizesInit
  <2>2. /\ Types /\ Exchanges /\ Rooms /\ Quotas /\ Phases
        /\ [Next /\ UNCHANGED load]_vars
        => (Types /\ Exchanges /\ Rooms /\ Quotas /\ Phases)'
    BY TypesStep, ExchangesStep, SizesStep, PhasesStep
  <2>q. QED
    BY <2>1, <2>2, PTL DEF Spec
<1>2. Types /\ Rooms /\ Quotas /\ Phases => TypeOK
  BY SizesGiveTypes
<1>q. QED
  BY <1>1, <1>2, PTL

================================================================================
