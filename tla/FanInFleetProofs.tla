---------------------------- MODULE FanInFleetProofs ----------------------------
(***************************************************************************)
(* Proofs about FanInFleet, for any deployments, workers, tasks and claims *)
(* and any number of retries.                                              *)
(***************************************************************************)
EXTENDS FanInFleet, TLAPS, SequenceTheorems, FiniteSetTheorems, WellFoundedInduction

AllLineages == UNION {Range(d.lineage) : d \in Deployments}
Versions == [lineage : AllLineages, version : Nat, tasks : Seq(Tasks), claim : Nat]

LEMMA NoneIsNoVersion == None \notin Versions
BY FleetAssumption DEF Versions, AllLineages

--------------------------------------------------------------------------------
(* Least and greatest numbers; sequences.                                  *)

LEMMA LeastNumber ==
  ASSUME NEW S \in SUBSET Nat, S # {}
  PROVE  \E m \in S : \A n \in S : m <= n
<1>1. PICK m \in S : \A n \in S : <<n, m>> \notin OpToRel(<, Nat)
  BY NatLessThanWellFounded, WFMin
<1>2. \A n \in S : ~(n < m)
  BY <1>1 DEF OpToRel
<1>q. QED
  BY <1>2

LEMMA GreatestNumber ==
  ASSUME NEW S \in SUBSET Nat, S # {}, NEW b \in Nat, \A n \in S : n <= b
  PROVE  \E m \in S : \A n \in S : n <= m
<1> DEFINE B == {m \in Nat : \A n \in S : n <= m}
<1>1. PICK m \in B : \A n \in B : m <= n
  <2>1. B \in SUBSET Nat /\ b \in B
    OBVIOUS
  <2> HIDE DEF B
  <2>q. QED
    BY <2>1, LeastNumber
<1>2. m \in S
  <2> SUFFICES ASSUME m \notin S PROVE FALSE
    OBVIOUS
  <2>1. \A n \in S : n <= m /\ n # m
    BY <1>1
  <2>2. PICK s \in S : TRUE
    OBVIOUS
  <2>3. m \in Nat /\ m > 0
    BY <1>1, <2>1, <2>2
  <2>4. m - 1 \in B
    BY <2>1, <2>3
  <2>q. QED
    BY <1>1, <2>3, <2>4
<1>q. QED
  BY <1>1, <1>2

LEMMA RangeOfAppend ==
  ASSUME NEW S, NEW s \in Seq(S), NEW e \in S
  PROVE  Range(Append(s, e)) = Range(s) \cup {e}
<1>1. /\ Append(s, e) \in Seq(S) /\ Len(Append(s, e)) = Len(s) + 1
      /\ \A i \in 1 .. Len(s) : Append(s, e)[i] = s[i]
      /\ Append(s, e)[Len(s) + 1] = e
  BY AppendProperties
<1>2. /\ DOMAIN s = 1 .. Len(s) /\ Len(s) \in Nat
      /\ DOMAIN Append(s, e) = 1 .. Len(s) + 1
  BY <1>1, LenProperties
<1>q. QED
  BY <1>1, <1>2 DEF Range

--------------------------------------------------------------------------------
(* The invariant.  Constant operators: l is what a process does, ph its    *)
(* phase, c its claim, pb its publication; ts, g, a and o are the claims'  *)
(* tasks, the guards, the acceptances and the offers.                      *)

Working == {"recover", "adopt", "list", "judge", "collect", "lease", "lock", "stage", "rename",
            "accept", "mark", "proof", "prune"}
Away == {"idle", "down", "terminal", "aborted"}

\* The phases before its claim is in the task's guard.
Early == {"recover", "publish"}

ProcOk(l, ph, c, pb, ts, g, a, o) ==
  /\ \/ l \in Working /\ c # 0
     \/ l \in Away /\ c = 0 /\ ph = "recover"
  /\ c # 0 => (ph \in Early <=> c \notin Range(g[ts[c]]))
  /\ l \in {"recover", "adopt", "collect", "lease"} => ph \in Early
  /\ l \in {"lock", "stage", "rename", "accept"} => ph \notin Early
  /\ l \in {"stage", "rename", "accept"} => pb \in Versions /\ pb.claim = c
  /\ l = "accept" => c \in o
  /\ l = "adopt" => pb \in Versions /\ pb.claim \in o
  /\ l \in {"mark", "proof"} => a[ts[c]] # None

ProcInv(p) == ProcOk(pc[p], phase[p], claim[p], pub[p], task, guard, accepted, offered)

QueueInv ==
  /\ deployment \in Deployments
  /\ task \in Seq(Tasks) /\ Len(task) <= MaxClaims /\ pending \subseteq Tasks /\ held \subseteq 1 .. Len(task)
  /\ DOMAIN pc = Workers /\ DOMAIN phase = Workers /\ DOMAIN pub = Workers /\ DOMAIN view = Workers
  /\ claim \in [Workers -> 0 .. Len(task)]
  /\ \A p, q \in Workers : claim[p] = claim[q] /\ claim[p] # 0 => p = q

GuardInv ==
  /\ guard \in [Tasks -> Seq(Nat)]
  /\ \A t \in Tasks : \A c \in Range(guard[t]) : c \in 1 .. Len(task) /\ task[c] = t
  /\ offered \subseteq 1 .. Len(task)

ShardInv ==
  /\ shards \subseteq Versions /\ \A s \in shards : s.claim \in offered
  /\ \A p \in Workers : view[p] \subseteq Versions
  /\ \E b \in Nat : /\ \A s \in shards : s.version <= b
                    /\ \A p \in Workers : \A s \in view[p] : s.version <= b

DoneInv ==
  /\ DOMAIN done = Tasks /\ DOMAIN accepted = Tasks
  /\ \A t \in Tasks : done[t] # 0 => accepted[t] # None

IInv == QueueInv /\ GuardInv /\ ShardInv /\ DoneInv /\ \A p \in Workers : ProcInv(p)

LEMMA InitIInv == Init => IInv
<1> SUFFICES ASSUME Init PROVE IInv
  OBVIOUS
<1>1. <<>> \in Seq(Tasks) /\ <<>> \in Seq(Nat) /\ Len(<<>>) = 0 /\ Range(<<>>) = {}
  <2>1. <<>> \in Seq(Tasks) /\ <<>> \in Seq(Nat) /\ Len(<<>>) = 0
    BY EmptySeq
  <2>2. DOMAIN <<>> = 1 .. 0
    BY <2>1, LenProperties
  <2>q. QED
    BY <2>1, <2>2 DEF Range
<1>2. QueueInv
  BY <1>1, FleetAssumption DEF Init, QueueInv
<1>3. GuardInv
  BY <1>1 DEF Init, GuardInv
<1>4. ShardInv
  BY DEF Init, ShardInv
<1>5. DoneInv
  BY DEF Init, DoneInv
<1>6. ASSUME NEW p \in Workers PROVE ProcInv(p)
  BY DEF Init, ProcInv, ProcOk, Working, Away, Early
<1>q. QED
  BY <1>2, <1>3, <1>4, <1>5, <1>6 DEF IInv

--------------------------------------------------------------------------------
(* What a step of one process leaves of the others.                        *)

\* Process p changes only its own part, and begins no claim.
LocalStep(p) ==
  /\ deployment' = deployment
  /\ DOMAIN pc' = Workers /\ DOMAIN phase' = Workers /\ DOMAIN pub' = Workers
  /\ DOMAIN view' = Workers
  /\ \A q \in Workers : q # p =>
       /\ pc'[q] = pc[q] /\ phase'[q] = phase[q] /\ pub'[q] = pub[q] /\ view'[q] = view[q]
  /\ claim' = claim \/ claim' = [claim EXCEPT ![p] = 0]
  /\ view'[p] \subseteq view[p] \cup shards

\* The claims' tasks, guards, acceptances and offers only grow.
Grows ==
  /\ Len(task) <= Len(task') /\ \A c \in 1 .. Len(task) : task'[c] = task[c]
  /\ offered \subseteq offered'
  /\ \A t \in Tasks : accepted[t] # None => accepted'[t] # None

\* A bystander keeps its part: its claim is not the one that entered a guard.
LEMMA BystanderKeeps ==
  ASSUME IInv, Grows, NEW q \in Workers, pc'[q] = pc[q], phase'[q] = phase[q],
         claim'[q] = claim[q], pub'[q] = pub[q],
         claim[q] # 0 =>
           (claim[q] \in Range(guard'[task[claim[q]]]) <=> claim[q] \in Range(guard[task[claim[q]]]))
  PROVE  ProcInv(q)'
<1>1. ProcOk(pc[q], phase[q], claim[q], pub[q], task, guard, accepted, offered)
  BY DEF IInv, ProcInv
<1>2. claim[q] # 0 => claim[q] \in 1 .. Len(task) /\ task[claim[q]] \in Tasks
  BY DEF IInv, QueueInv
<1>3. claim[q] # 0 => task'[claim[q]] = task[claim[q]]
  BY <1>2 DEF Grows
<1>4. pc[q] \in {"mark", "proof"} => accepted'[task'[claim[q]]] # None
  BY <1>1, <1>2, <1>3 DEF ProcOk, Grows, Away
<1>q. QED
  BY <1>1, <1>3, <1>4 DEF ProcInv, ProcOk, Grows

--------------------------------------------------------------------------------
(* Leaving a task, starting an inventory read, and the plain moves.         *)

LEMMA DomainsOf ==
  ASSUME IInv
  PROVE  /\ DOMAIN pc = Workers /\ DOMAIN phase = Workers /\ DOMAIN pub = Workers
         /\ DOMAIN view = Workers /\ DOMAIN claim = Workers
BY DEF IInv, QueueInv

LEMMA LeaveKeeps ==
  ASSUME IInv, NEW p \in Workers, NEW l \in Away, Leave(p, l), deployment' = deployment
  PROVE  LocalStep(p) /\ ProcInv(p)'
<1>1. LocalStep(p)
  BY DomainsOf DEF Leave, Goto, Forget, LocalStep
<1>2. pc'[p] = l /\ claim'[p] = 0 /\ phase'[p] = "recover"
  BY DomainsOf DEF Leave, Goto, Forget
<1>q. QED
  BY <1>1, <1>2 DEF ProcInv, ProcOk, Away, Working

LEMMA LookKeeps ==
  ASSUME IInv, NEW p \in Workers, NEW w, Look(p, w), deployment' = deployment,
         task' = task, claim' = claim, pub' = pub, claim[p] # 0,
         w \in Early <=> claim[p] \notin Range(guard'[task[claim[p]]])
  PROVE  LocalStep(p) /\ ProcInv(p)'
<1>1. LocalStep(p)
  BY DomainsOf DEF Look, Goto, LocalStep
<1>2. pc'[p] = "list" /\ claim'[p] = claim[p] /\ phase'[p] = w
  BY DomainsOf DEF Look, Goto
<1>q. QED
  BY <1>1, <1>2 DEF ProcInv, ProcOk, Away, Working

\* A process at work has a claim of its own, for a task of the iteration.
LEMMA AtWork ==
  ASSUME IInv, NEW p \in Workers, pc[p] \in Working
  PROVE  /\ claim[p] # 0 /\ claim[p] \in 1 .. Len(task) /\ Mine(p) \in Tasks
         /\ Mine(p) = task[claim[p]]
         /\ phase[p] \in Early <=> claim[p] \notin Range(guard[Mine(p)])
         /\ pc[p] \in {"recover", "adopt", "collect", "lease"} => phase[p] \in Early
         /\ pc[p] \in {"lock", "stage", "rename", "accept"} => phase[p] \notin Early
<1>1. ProcOk(pc[p], phase[p], claim[p], pub[p], task, guard, accepted, offered)
  BY DEF IInv, ProcInv
<1>2. claim[p] # 0 /\ claim[p] \in 0 .. Len(task) /\ task \in Seq(Tasks)
  BY <1>1 DEF ProcOk, Working, Away, IInv, QueueInv
<1>3. claim[p] \in 1 .. Len(task) /\ task[claim[p]] \in Tasks
  BY <1>2, LenProperties
<1>q. QED
  BY <1>1, <1>2, <1>3 DEF ProcOk, Mine

--------------------------------------------------------------------------------
(* Each action keeps the process that takes it in order.                    *)

LEMMA CollectKeeps ==
  ASSUME IInv, NEW p \in Workers, Collect(p), deployment' = deployment
  PROVE  LocalStep(p) /\ ProcInv(p)'
<1>1. pc[p] = "collect" /\ task' = task /\ guard' = guard
  BY DEF Collect, queue
<1>2. CASE Drop(p)
  BY <1>2, LeaveKeeps DEF Drop, Away
<1>3. CASE /\ Goto(p, "recover") /\ phase' = [phase EXCEPT ![p] = "publish"]
           /\ UNCHANGED <<claim, view, scans, pub, sel, released>>
  <2>1. LocalStep(p)
    BY <1>3, DomainsOf DEF Goto, LocalStep
  <2>2. pc'[p] = "recover" /\ phase'[p] = "publish" /\ claim' = claim
    BY <1>3, DomainsOf DEF Goto
  <2>q. QED
    BY <1>1, <2>1, <2>2, AtWork DEF ProcInv, ProcOk, Working, Away, Early, Mine
<1>q. QED
  BY <1>2, <1>3 DEF Collect

LEMMA CollectFailsKeeps ==
  ASSUME IInv, NEW p \in Workers, CollectFails(p), deployment' = deployment
  PROVE  LocalStep(p) /\ ProcInv(p)'
BY LeaveKeeps DEF CollectFails, Drop, Away

LEMMA RecoverKeeps ==
  ASSUME IInv, NEW p \in Workers, Recover(p), deployment' = deployment
  PROVE  LocalStep(p) /\ ProcInv(p)'
<1>1. pc[p] = "recover" /\ task' = task /\ guard' = guard /\ offered' = offered
  BY DEF Recover, queue
<1>2. CASE Look(p, phase[p]) /\ UNCHANGED <<claim, pub, sel, released>>
  BY <1>1, <1>2, AtWork, LookKeeps DEF Working, Mine
<1>3. CASE /\ \E s \in Pending(p) : pub' = [pub EXCEPT ![p] = s]
           /\ Goto(p, "adopt")
           /\ UNCHANGED <<phase, claim, view, scans, sel, released>>
  <2>1. LocalStep(p)
    BY <1>3, DomainsOf DEF Goto, LocalStep
  <2>2. PICK s \in Pending(p) : pub' = [pub EXCEPT ![p] = s]
    BY <1>3
  <2>3. s \in Versions /\ s.claim \in offered
    BY DEF Pending, IInv, ShardInv
  <2>4. pc'[p] = "adopt" /\ pub'[p] = s /\ phase' = phase /\ claim' = claim
    BY <1>3, <2>2, DomainsOf DEF Goto
  <2>q. QED
    BY <1>1, <2>1, <2>3, <2>4, AtWork DEF ProcInv, ProcOk, Working, Away, Mine
<1>4. CASE Terminal(p) \/ Recycle(p)
  BY <1>4, LeaveKeeps DEF Terminal, Recycle, Away
<1>q. QED
  BY <1>2, <1>3, <1>4 DEF Recover

LEMMA AdoptKeeps ==
  ASSUME IInv, NEW p \in Workers, Adopt(p), deployment' = deployment
  PROVE  LocalStep(p) /\ ProcInv(p)'
<1>1. pc[p] = "adopt" /\ task' = task /\ guard' = guard
  BY DEF Adopt, queue
<1>2. CASE Look(p, phase[p]) /\ UNCHANGED <<claim, pub, sel, released>>
  BY <1>1, <1>2, AtWork, LookKeeps DEF Working, Mine
<1>3. CASE Recycle(p) \/ Abort(p)
  BY <1>3, LeaveKeeps DEF Recycle, Abort, Away
<1>q. QED
  BY <1>2, <1>3 DEF Adopt

LEMMA ListKeeps ==
  ASSUME IInv, NEW p \in Workers, List(p), deployment' = deployment
  PROVE  LocalStep(p) /\ ProcInv(p)'
<1>1. /\ pc[p] = "list" /\ task' = task /\ guard' = guard
      /\ view' = [view EXCEPT ![p] = Listing(p)] /\ Goto(p, "judge")
      /\ phase' = phase /\ claim' = claim /\ pub' = pub
  BY DEF List, queue, cache
<1>2. Listing(p) \subseteq shards
  BY DEF Listing
<1>3. LocalStep(p)
  BY <1>1, <1>2, DomainsOf DEF Goto, LocalStep
<1>4. pc'[p] = "judge"
  BY <1>1, DomainsOf DEF Goto
<1>q. QED
  BY <1>1, <1>3, <1>4, AtWork DEF ProcInv, ProcOk, Working, Away, Mine

LEMMA JudgeVanishedKeeps ==
  ASSUME IInv, NEW p \in Workers, JudgeVanished(p), deployment' = deployment
  PROVE  LocalStep(p) /\ ProcInv(p)'
<1>1. pc[p] = "judge" /\ task' = task /\ guard' = guard
  BY DEF JudgeVanished, queue
<1>2. CASE /\ view' = [view EXCEPT ![p] = {}] /\ Goto(p, "list")
           /\ UNCHANGED <<phase, claim, pub, sel, released>>
  <2>1. LocalStep(p)
    BY <1>2, DomainsOf DEF Goto, LocalStep
  <2>2. pc'[p] = "list"
    BY <1>2, DomainsOf DEF Goto
  <2>q. QED
    BY <1>1, <1>2, <2>1, <2>2, AtWork DEF ProcInv, ProcOk, Working, Away, Mine
<1>3. CASE Recycle(p)
  BY <1>3, LeaveKeeps DEF Recycle, Away
<1>q. QED
  BY <1>2, <1>3 DEF JudgeVanished

LEMMA JudgeCorruptKeeps ==
  ASSUME IInv, NEW p \in Workers, JudgeCorrupt(p), deployment' = deployment
  PROVE  LocalStep(p) /\ ProcInv(p)'
BY LeaveKeeps DEF JudgeCorrupt, Terminal, Away

LEMMA JudgeAbsentKeeps ==
  ASSUME IInv, NEW p \in Workers, JudgeAbsent(p), deployment' = deployment
  PROVE  LocalStep(p) /\ ProcInv(p)'
<1>1. pc[p] = "judge" /\ task' = task /\ guard' = guard
  BY DEF JudgeAbsent, queue
<1>2. CASE /\ phase[p] \in {"recover", "publish", "leased"}
           /\ Goto(p, CASE phase[p] = "recover" -> "collect"
                        [] phase[p] = "publish" -> "lease"
                        [] phase[p] = "leased"  -> "lock")
           /\ view' = [view EXCEPT ![p] = {}]
           /\ UNCHANGED <<phase, claim, scans, pub, sel, released>>
  <2>1. LocalStep(p)
    BY <1>2, DomainsOf DEF Goto, LocalStep
  <2>2. \/ phase[p] = "recover" /\ pc'[p] = "collect"
        \/ phase[p] = "publish" /\ pc'[p] = "lease"
        \/ phase[p] = "leased" /\ pc'[p] = "lock"
    BY <1>2, DomainsOf DEF Goto
  <2>q. QED
    BY <1>1, <1>2, <2>1, <2>2, AtWork DEF ProcInv, ProcOk, Working, Away, Early, Mine
<1>3. CASE \E l \in Away : Leave(p, l)
  BY <1>3, LeaveKeeps
<1>q. QED
  BY <1>2, <1>3 DEF JudgeAbsent, Drop, Terminal, Recycle, Away

--------------------------------------------------------------------------------
(* What a read that finds its versions in order shows.                      *)

\* Sound evidence means that every entry of the manifest is authenticated, and
\* that the last one's acceptance is the version itself.
LEMMA EvidenceShows ==
  ASSUME NEW s \in Versions, Evidence(s) = "ok"
  PROVE  /\ \A i \in 1 .. Len(s.tasks) : Entry(s, i) = "ok"
         /\ accepted[s.tasks[Len(s.tasks)]] = s
<1> DEFINE stops == {i \in 1 .. Len(s.tasks) : Entry(s, i) # "ok"}
<1>1. Len(s.tasks) \in Nat
  BY LenProperties DEF Versions
<1>2. stops = {}
  <2> SUFFICES ASSUME stops # {} PROVE FALSE
    OBVIOUS
  <2>1. stops \in SUBSET Nat
    BY <1>1
  <2>2. Evidence(s) = Entry(s, CHOOSE i \in stops : \A j \in stops : i <= j)
    BY DEF Evidence
  <2>3. \A i \in stops : Entry(s, i) # "ok"
    OBVIOUS
  <2> HIDE DEF stops
  <2>4. \E i \in stops : \A j \in stops : i <= j
    BY <2>1, LeastNumber
  <2>5. (CHOOSE i \in stops : \A j \in stops : i <= j) \in stops
    BY <2>4
  <2>q. QED
    BY <2>2, <2>3, <2>5
<1>3. \A i \in 1 .. Len(s.tasks) : Entry(s, i) = "ok"
  BY <1>2
<1>4. accepted[s.tasks[Len(s.tasks)]] = s
  BY <1>2 DEF Evidence
<1>q. QED
  BY <1>3, <1>4

LEMMA EvidenceOk ==
  ASSUME NEW s \in Versions, Evidence(s) = "ok", NEW t \in Range(s.tasks)
  PROVE  accepted[t] # None
<1>1. DOMAIN s.tasks = 1 .. Len(s.tasks)
  BY LenProperties DEF Versions
<1>2. PICK i \in 1 .. Len(s.tasks) : t = s.tasks[i]
  BY <1>1 DEF Range
<1>3. Entry(s, i) = "ok"
  BY EvidenceShows
<1>q. QED
  BY <1>2, <1>3 DEF Entry

LEMMA ReadIsTyped ==
  ASSUME IInv, NEW p \in Workers
  PROVE  Read(p) \subseteq view[p] /\ Read(p) \subseteq Versions
BY DEF Read, Stops, IInv, ShardInv

LEMMA JudgeFoundKeeps ==
  ASSUME IInv, NEW p \in Workers, JudgeFound(p), deployment' = deployment
  PROVE  LocalStep(p) /\ ProcInv(p)'
<1>1. /\ pc[p] = "judge" /\ task' = task /\ guard' = guard /\ accepted' = accepted
      /\ view' = [view EXCEPT ![p] = {}] /\ Goto(p, "mark")
      /\ phase' = phase /\ claim' = claim /\ pub' = pub
  BY DEF JudgeFound, queue, cache
<1>2. LocalStep(p)
  BY <1>1, DomainsOf DEF Goto, LocalStep
<1>3. pc'[p] = "mark"
  BY <1>1, DomainsOf DEF Goto
<1>4. accepted[Mine(p)] # None
  <2>1. PICK s \in Read(p) : Has(s, Mine(p)) /\ Evidence(s) = "ok"
    BY DEF JudgeFound, Hits, Clean
  <2>q. QED
    BY <2>1, ReadIsTyped, EvidenceOk DEF Has
<1>q. QED
  BY <1>1, <1>2, <1>3, <1>4, AtWork DEF ProcInv, ProcOk, Working, Away, Mine

\* The number of the current version, from a listing.
LEMMA TopBounds ==
  ASSUME IInv, NEW p \in Workers
  PROVE  /\ Top(view[p]) \in Nat /\ \A s \in view[p] : s.version <= Top(view[p])
         /\ view[p] # {} => \E s \in view[p] : Top(view[p]) = s.version
<1>1. CASE view[p] = {}
  BY <1>1 DEF Top
<1>2. CASE view[p] # {}
  <2> DEFINE N == {s.version : s \in view[p]}
  <2>1. PICK b \in Nat : \A s \in view[p] : s.version <= b
    BY DEF IInv, ShardInv
  <2>2. N \in SUBSET Nat /\ N # {} /\ \A n \in N : n <= b
    BY <1>2, <2>1 DEF IInv, ShardInv, Versions
  <2>3. Top(view[p]) = CHOOSE n \in N : \A s \in view[p] : s.version <= n
    BY <1>2 DEF Top
  <2>4. \A s \in view[p] : s.version \in N
    OBVIOUS
  <2> HIDE DEF N
  <2>5. \E n \in N : \A m \in N : m <= n
    BY <2>1, <2>2, GreatestNumber
  <2>6. \E n \in N : \A s \in view[p] : s.version <= n
    BY <2>4, <2>5
  <2>7. Top(view[p]) \in N /\ \A s \in view[p] : s.version <= Top(view[p])
    BY <2>3, <2>6
  <2>8. \E s \in view[p] : Top(view[p]) = s.version
    BY <2>7 DEF N
  <2>q. QED
    BY <2>2, <2>7, <2>8
<1>q. QED
  BY <1>1, <1>2

LEMMA SuccessorIsVersion ==
  ASSUME IInv, NEW p \in Workers, pc[p] \in Working
  PROVE  Successor(p) \in Versions /\ Successor(p).claim = claim[p]
<1>1. Lineage[p] \in AllLineages
  <2>1. deployment \in Deployments /\ DOMAIN deployment.lineage = Workers
    BY FleetAssumption DEF IInv, QueueInv
  <2>2. deployment.lineage[p] \in Range(deployment.lineage)
    BY <2>1 DEF Range
  <2>q. QED
    BY <2>1, <2>2 DEF AllLineages, Lineage
<1>2. Top(view[p]) \in Nat
  BY TopBounds
<1>3. Mine(p) \in Tasks /\ claim[p] \in Nat
  <2>1. Len(task) \in Nat
    BY LenProperties DEF IInv, QueueInv
  <2>q. QED
    BY <2>1, AtWork
<1>4. Successor(p).tasks \in Seq(Tasks)
  <2>1. CASE Read(p) = {}
    BY <1>3, <2>1 DEF Successor
  <2>2. CASE Read(p) # {}
    <3>1. (CHOOSE s \in Read(p) : TRUE) \in Versions
      BY <2>2, ReadIsTyped
    <3>2. (CHOOSE s \in Read(p) : TRUE).tasks \in Seq(Tasks)
      BY <3>1 DEF Versions
    <3>q. QED
      BY <1>3, <2>2, <3>2, AppendProperties DEF Successor
  <2>q. QED
    BY <2>1, <2>2
<1>q. QED
  BY <1>1, <1>2, <1>3, <1>4 DEF Successor, Versions

LEMMA ReadCurrentKeeps ==
  ASSUME IInv, NEW p \in Workers, ReadCurrent(p), deployment' = deployment
  PROVE  LocalStep(p) /\ ProcInv(p)'
<1>1. /\ pc[p] = "judge" /\ phase[p] = "current" /\ task' = task /\ guard' = guard
      /\ view' = [view EXCEPT ![p] = {}] /\ Goto(p, "stage")
      /\ phase' = phase /\ claim' = claim /\ pub' = [pub EXCEPT ![p] = Successor(p)]
  BY DEF ReadCurrent, queue, cache
<1>2. LocalStep(p)
  BY <1>1, DomainsOf DEF Goto, LocalStep
<1>3. pc'[p] = "stage" /\ pub'[p] = Successor(p)
  BY <1>1, DomainsOf DEF Goto
<1>4. Successor(p) \in Versions /\ Successor(p).claim = claim[p]
  BY <1>1, SuccessorIsVersion DEF Working
<1>q. QED
  BY <1>1, <1>2, <1>3, <1>4, AtWork DEF ProcInv, ProcOk, Working, Away, Early, Mine

--------------------------------------------------------------------------------
(* Publication.                                                             *)

LEMMA LeaseKeeps ==
  ASSUME IInv, NEW p \in Workers, Lease(p), deployment' = deployment
  PROVE  LocalStep(p) /\ ProcInv(p)'
<1>1. pc[p] = "lease" /\ task' = task
  BY DEF Lease, queue
<1>2. CASE /\ guard' = [guard EXCEPT ![Mine(p)] = Append(@, claim[p])]
           /\ Look(p, "leased") /\ UNCHANGED <<claim, pub, sel, released>>
  <2>1. Mine(p) \in Tasks /\ claim[p] \in 1 .. Len(task) /\ claim[p] # 0
    BY <1>1, AtWork DEF Working
  <2>2. guard[Mine(p)] \in Seq(Nat) /\ claim[p] \in Nat /\ DOMAIN guard = Tasks
    BY <2>1, LenProperties DEF IInv, QueueInv, GuardInv
  <2>3. claim[p] \in Range(guard'[Mine(p)])
    BY <1>2, <2>1, <2>2, RangeOfAppend
  <2>q. QED
    BY <1>1, <1>2, <2>1, <2>3, LookKeeps DEF Early, Mine
<1>3. CASE Recycle(p)
  BY <1>3, LeaveKeeps DEF Recycle, Away
<1>q. QED
  BY <1>2, <1>3 DEF Lease

LEMMA LockKeeps ==
  ASSUME IInv, NEW p \in Workers, Lock(p), deployment' = deployment
  PROVE  LocalStep(p) /\ ProcInv(p)'
<1>1. pc[p] = "lock" /\ task' = task /\ guard' = guard
  BY DEF Lock, queue
<1>2. CASE Look(p, "current") /\ UNCHANGED <<claim, pub, sel, released>>
  <2>1. claim[p] \in Range(guard[task[claim[p]]]) /\ claim[p] # 0
    BY <1>1, AtWork DEF Working
  <2>q. QED
    BY <1>1, <1>2, <2>1, LookKeeps DEF Early
<1>3. CASE Recycle(p)
  BY <1>3, LeaveKeeps DEF Recycle, Away
<1>q. QED
  BY <1>2, <1>3 DEF Lock

LEMMA StageKeeps ==
  ASSUME IInv, NEW p \in Workers, Stage(p), deployment' = deployment
  PROVE  LocalStep(p) /\ ProcInv(p)'
<1>1. pc[p] = "stage" /\ task' = task /\ guard' = guard
  BY DEF Stage, queue
<1>2. CASE Goto(p, "rename") /\ UNCHANGED <<local, released>>
  <2>1. LocalStep(p)
    BY <1>2, DomainsOf DEF Goto, LocalStep, local
  <2>2. pc'[p] = "rename" /\ phase' = phase /\ claim' = claim /\ pub' = pub
    BY <1>2, DomainsOf DEF Goto, local
  <2>3. pub[p] \in Versions /\ pub[p].claim = claim[p]
    BY <1>1 DEF IInv, ProcInv, ProcOk
  <2>q. QED
    BY <1>1, <2>1, <2>2, <2>3, AtWork DEF ProcInv, ProcOk, Working, Away, Early, Mine
<1>3. CASE \E l \in Away : Leave(p, l)
  BY <1>3, LeaveKeeps
<1>q. QED
  BY <1>2, <1>3 DEF Stage, Abort, Drop, Away

LEMMA RenameTargetKeeps ==
  ASSUME IInv, NEW p \in Workers, RenameTarget(p), deployment' = deployment
  PROVE  LocalStep(p) /\ ProcInv(p)'
<1>1. /\ pc[p] = "rename" /\ task' = task /\ guard' = guard
      /\ UNCHANGED <<claim, pub, sel>>
  BY DEF RenameTarget, queue
<1>2. claim[p] \in Range(guard[task[claim[p]]]) /\ claim[p] # 0
  BY <1>1, AtWork DEF Working
<1>3. CASE /\ offered' = offered \cup {claim[p]} /\ Goto(p, "accept")
           /\ UNCHANGED <<phase, view, scans>>
  <2>1. LocalStep(p)
    BY <1>1, <1>3, DomainsOf DEF Goto, LocalStep
  <2>2. pc'[p] = "accept"
    BY <1>3, DomainsOf DEF Goto
  <2>3. pub[p] \in Versions /\ pub[p].claim = claim[p]
    BY <1>1 DEF IInv, ProcInv, ProcOk
  <2>q. QED
    BY <1>1, <1>3, <2>1, <2>2, <2>3, AtWork DEF ProcInv, ProcOk, Working, Away, Early, Mine
<1>4. CASE Look(p, "collided")
  BY <1>1, <1>2, <1>4, LookKeeps DEF Early
<1>q. QED
  BY <1>3, <1>4 DEF RenameTarget

LEMMA AcceptKeeps ==
  ASSUME IInv, NEW p \in Workers, Accept(p), deployment' = deployment
  PROVE  LocalStep(p) /\ ProcInv(p)'
<1>1. pc[p] = "accept" /\ task' = task /\ guard' = guard
  BY DEF Accept, queue
<1>2. CASE Look(p, "accepted") /\ UNCHANGED <<claim, pub, sel, released>>
  <2>1. claim[p] \in Range(guard[task[claim[p]]]) /\ claim[p] # 0
    BY <1>1, AtWork DEF Working
  <2>q. QED
    BY <1>1, <1>2, <2>1, LookKeeps DEF Early
<1>3. CASE \E l \in Away : Leave(p, l)
  BY <1>3, LeaveKeeps
<1>q. QED
  BY <1>2, <1>3 DEF Accept, Abort, Recycle, Away

LEMMA MarkKeeps ==
  ASSUME IInv, NEW p \in Workers, Mark(p), deployment' = deployment
  PROVE  LocalStep(p) /\ ProcInv(p)'
<1>1. pc[p] = "mark" /\ task' = task /\ guard' = guard /\ accepted' = accepted
  BY DEF Mark
<1>2. CASE Goto(p, "proof") /\ UNCHANGED <<local, released>>
  <2>1. LocalStep(p)
    BY <1>2, DomainsOf DEF Goto, LocalStep, local
  <2>2. pc'[p] = "proof" /\ phase' = phase /\ claim' = claim
    BY <1>2, DomainsOf DEF Goto, local
  <2>3. accepted[task[claim[p]]] # None
    BY <1>1 DEF IInv, ProcInv, ProcOk
  <2>q. QED
    BY <1>1, <2>1, <2>2, <2>3, AtWork DEF ProcInv, ProcOk, Working, Away, Mine
<1>3. CASE Abort(p)
  BY <1>3, LeaveKeeps DEF Abort, Away
<1>q. QED
  BY <1>2, <1>3 DEF Mark

LEMMA ProofKeeps ==
  ASSUME IInv, NEW p \in Workers, Proof(p), deployment' = deployment
  PROVE  LocalStep(p) /\ ProcInv(p)'
<1>1. pc[p] = "proof" /\ task' = task /\ guard' = guard
  BY DEF Proof
<1>2. CASE Goto(p, "prune") /\ UNCHANGED <<local, released>>
  <2>1. LocalStep(p)
    BY <1>2, DomainsOf DEF Goto, LocalStep, local
  <2>2. pc'[p] = "prune" /\ phase' = phase /\ claim' = claim
    BY <1>2, DomainsOf DEF Goto, local
  <2>q. QED
    BY <1>1, <2>1, <2>2, AtWork DEF ProcInv, ProcOk, Working, Away, Mine
<1>3. CASE \E l \in Away : Leave(p, l)
  BY <1>3, LeaveKeeps
<1>q. QED
  BY <1>2, <1>3 DEF Proof, Drop, Abort, Away

LEMMA PruneKeeps ==
  ASSUME IInv, NEW p \in Workers, Prune(p), deployment' = deployment
  PROVE  LocalStep(p) /\ ProcInv(p)'
BY LeaveKeeps DEF Prune, Drop, Away

LEMMA CrashKeeps ==
  ASSUME IInv, NEW p \in Workers, Crash(p), deployment' = deployment
  PROVE  LocalStep(p) /\ ProcInv(p)'
<1>1. LocalStep(p)
  BY DomainsOf DEF Crash, Goto, Forget, LocalStep
<1>2. pc'[p] = "down" /\ claim'[p] = 0 /\ phase'[p] = "recover"
  BY DomainsOf DEF Crash, Goto, Forget
<1>q. QED
  BY <1>1, <1>2 DEF ProcInv, ProcOk, Away, Working

LEMMA RespawnKeeps ==
  ASSUME IInv, NEW p \in Workers, Respawn(p), deployment' = deployment
  PROVE  LocalStep(p) /\ ProcInv(p)'
<1>1. LocalStep(p)
  BY DomainsOf DEF Respawn, Goto, local, LocalStep
<1>2. /\ pc[p] \in {"down", "terminal", "aborted"} /\ pc'[p] = "idle"
      /\ claim' = claim /\ phase' = phase
  BY DomainsOf DEF Respawn, Goto, local
<1>3. claim[p] = 0 /\ phase[p] = "recover"
  BY <1>2 DEF IInv, ProcInv, ProcOk, Working
<1>q. QED
  BY <1>1, <1>2, <1>3 DEF ProcInv, ProcOk, Away, Working

--------------------------------------------------------------------------------
(* The kinds of steps a process takes once it has a claim.                  *)

LocalAct(p) == \/ Collect(p) \/ CollectFails(p) \/ Recover(p) \/ Adopt(p)
               \/ Inventory(p) \/ Publish(p) \/ Crash(p) \/ Respawn(p)

Granted(p) ==
  /\ pc[p] = "lease" /\ accepted[Mine(p)] = None
  /\ guard' = [guard EXCEPT ![Mine(p)] = Append(@, claim[p])]
  /\ UNCHANGED <<accepted, shards, offered, done>>

Offers(p) ==
  /\ pc[p] = "rename" /\ ~Collides(p)
  /\ shards' = shards \cup {pub[p]} /\ offered' = offered \cup {claim[p]}
  /\ UNCHANGED <<accepted, guard, done>>

Accepts(p) ==
  /\ pc[p] \in {"adopt", "accept"} /\ MayAccept(p)
  /\ accepted' = [accepted EXCEPT ![Mine(p)] = pub[p]]
  /\ UNCHANGED <<guard, shards, offered, done>>

Marks(p) ==
  /\ pc[p] = "mark"
  /\ done' = [done EXCEPT ![Mine(p)] = claim[p]]
  /\ UNCHANGED <<guard, accepted, shards, offered>>

\* Nothing is won; a marker may go, and in a prune the versions it makes stale.
Calm(p) ==
  /\ UNCHANGED <<guard, accepted, offered>>
  /\ \/ shards' = shards
     \/ pc[p] = "prune" /\ shards' = shards \ Stale(p)
  /\ done' = done \/ done' = [done EXCEPT ![Mine(p)] = 0]

Kind(p) == Granted(p) \/ Offers(p) \/ Accepts(p) \/ Marks(p) \/ Calm(p)

LEMMA Kinds ==
  ASSUME NEW p \in Workers, LocalAct(p)
  PROVE  task' = task /\ pending' = pending /\ held' \subseteq held /\ Kind(p)
<1>1. CASE Collect(p)
  BY <1>1 DEF Collect, queue, Kind, Calm
<1>2. CASE CollectFails(p)
  BY <1>2 DEF CollectFails, queue, Kind, Calm
<1>3. CASE Recover(p)
  BY <1>3 DEF Recover, queue, Kind, Calm
<1>4. CASE Adopt(p)
  BY <1>4 DEF Adopt, queue, Kind, Calm, Accepts
<1>5. CASE List(p)
  BY <1>5 DEF List, queue, cache, Kind, Calm
<1>6. CASE JudgeVanished(p)
  BY <1>6 DEF JudgeVanished, queue, Kind, Calm
<1>7. CASE JudgeCorrupt(p)
  BY <1>7 DEF JudgeCorrupt, queue, Kind, Calm
<1>8. CASE JudgeFound(p)
  BY <1>8 DEF JudgeFound, queue, cache, Kind, Calm
<1>9. CASE JudgeAbsent(p)
  BY <1>9 DEF JudgeAbsent, queue, Kind, Calm
<1>10. CASE ReadCurrent(p)
  BY <1>10 DEF ReadCurrent, queue, cache, Kind, Calm
<1>11. CASE Lease(p)
  BY <1>11 DEF Lease, queue, Kind, Calm, Granted
<1>12. CASE Lock(p)
  BY <1>12 DEF Lock, queue, Kind, Calm
<1>13. CASE Stage(p)
  BY <1>13 DEF Stage, queue, Kind, Calm
<1>14. CASE RenameTarget(p)
  BY <1>14 DEF RenameTarget, queue, Kind, Calm, Offers
<1>15. CASE Accept(p)
  BY <1>15 DEF Accept, queue, Kind, Calm, Accepts
<1>16. CASE Mark(p)
  BY <1>16 DEF Mark, Kind, Calm, Marks
<1>17. CASE Proof(p)
  BY <1>17 DEF Proof, Kind, Calm, Undone
<1>18. CASE Prune(p)
  BY <1>18 DEF Prune, queue, Kind, Calm
<1>19. CASE Crash(p)
  BY <1>19 DEF Crash, queue, cache, Kind, Calm
<1>20. CASE Respawn(p)
  BY <1>20 DEF Respawn, queue, cache, Kind, Calm
<1>q. QED
  BY <1>1, <1>2, <1>3, <1>4, <1>5, <1>6, <1>7, <1>8, <1>9, <1>10, <1>11, <1>12, <1>13, <1>14,
     <1>15, <1>16, <1>17, <1>18, <1>19, <1>20 DEF LocalAct, Inventory, Publish

LEMMA OwnStep ==
  ASSUME IInv, NEW p \in Workers, LocalAct(p), deployment' = deployment
  PROVE  LocalStep(p) /\ ProcInv(p)'
BY CollectKeeps, CollectFailsKeeps, RecoverKeeps, AdoptKeeps, ListKeeps, JudgeVanishedKeeps,
   JudgeCorruptKeeps, JudgeFoundKeeps, JudgeAbsentKeeps, ReadCurrentKeeps, LeaseKeeps, LockKeeps,
   StageKeeps, RenameTargetKeeps, AcceptKeeps, MarkKeeps, ProofKeeps, PruneKeeps, CrashKeeps,
   RespawnKeeps
   DEF LocalAct, Inventory, Publish

\* What a process that takes one of these steps holds in its hands.
LEMMA InHand ==
  ASSUME IInv, NEW p \in Workers, pc[p] \in Working
  PROVE  /\ Len(task) \in Nat /\ claim[p] \in Nat
         /\ claim[p] \in 1 .. Len(task) /\ claim[p] # 0 /\ Mine(p) \in Tasks
         /\ pc[p] = "lease" => claim[p] \notin Range(guard[Mine(p)])
         /\ pc[p] = "rename" => /\ claim[p] \in Range(guard[Mine(p)])
                                /\ pub[p] \in Versions /\ pub[p].claim = claim[p]
         /\ pc[p] \in {"adopt", "accept"} => pub[p] \in Versions /\ pub[p].claim \in offered
         /\ pc[p] = "mark" => accepted[Mine(p)] # None
<1>1. ProcOk(pc[p], phase[p], claim[p], pub[p], task, guard, accepted, offered)
  BY DEF IInv, ProcInv
<1>2. Len(task) \in Nat
  BY LenProperties DEF IInv, QueueInv
<1>q. QED
  BY <1>1, <1>2, AtWork DEF ProcOk, Mine

--------------------------------------------------------------------------------
(* Such a step keeps the invariant.                                         *)

LEMMA GrantedGuard ==
  ASSUME IInv, NEW p \in Workers, Granted(p)
  PROVE  /\ guard' \in [Tasks -> Seq(Nat)]
         /\ guard'[Mine(p)] = Append(guard[Mine(p)], claim[p])
         /\ Range(guard'[Mine(p)]) = Range(guard[Mine(p)]) \cup {claim[p]}
         /\ \A t \in Tasks : t # Mine(p) => guard'[t] = guard[t]
<1>1. Mine(p) \in Tasks /\ claim[p] \in Nat
  BY InHand DEF Granted, Working
<1>2. guard \in [Tasks -> Seq(Nat)]
  BY DEF IInv, GuardInv
<1>3. guard[Mine(p)] \in Seq(Nat)
  BY <1>1, <1>2
<1>4. Append(guard[Mine(p)], claim[p]) \in Seq(Nat)
  BY <1>1, <1>3, AppendProperties
<1>5. guard' = [guard EXCEPT ![Mine(p)] = Append(guard[Mine(p)], claim[p])]
  BY DEF Granted
<1>6. /\ guard' \in [Tasks -> Seq(Nat)]
      /\ guard'[Mine(p)] = Append(guard[Mine(p)], claim[p])
      /\ \A t \in Tasks : t # Mine(p) => guard'[t] = guard[t]
  BY <1>1, <1>2, <1>4, <1>5
<1>q. QED
  BY <1>1, <1>3, <1>6, RangeOfAppend

LEMMA LocalQueue ==
  ASSUME IInv, NEW p \in Workers, LocalStep(p), task' = task, pending' = pending,
         held' \subseteq held
  PROVE  QueueInv'
<1>1. Len(task) \in Nat
  BY LenProperties DEF IInv, QueueInv
<1>2. claim' \in [Workers -> 0 .. Len(task)]
  BY <1>1 DEF IInv, QueueInv, LocalStep
<1>3. (\A q, r \in Workers : claim[q] = claim[r] /\ claim[q] # 0 => q = r)'
  BY DEF IInv, QueueInv, LocalStep
<1>q. QED
  BY <1>2, <1>3 DEF IInv, QueueInv, LocalStep

LEMMA LocalGuard ==
  ASSUME IInv, NEW p \in Workers, Kind(p), task' = task
  PROVE  GuardInv'
<1>1. CASE guard' = guard /\ offered' = offered
  BY <1>1 DEF IInv, GuardInv
<1>2. CASE Offers(p)
  <2>1. claim[p] \in 1 .. Len(task)
    BY <1>2, InHand DEF Offers, Working
  <2>q. QED
    BY <1>2, <2>1 DEF Offers, IInv, GuardInv
<1>3. CASE Granted(p)
  <2>1. Mine(p) \in Tasks /\ claim[p] \in 1 .. Len(task)
    BY <1>3, InHand DEF Granted, Working
  <2>2. guard' \in [Tasks -> Seq(Nat)]
    BY <1>3, GrantedGuard
  <2>3. ASSUME NEW t \in Tasks, NEW c \in Range(guard'[t])
        PROVE  c \in 1 .. Len(task) /\ task[c] = t
    <3>1. CASE t = Mine(p)
      <4>1. c \in Range(guard[t]) \/ c = claim[p]
        BY <1>3, <3>1, GrantedGuard
      <4>2. CASE c \in Range(guard[t])
        BY <4>2 DEF IInv, GuardInv
      <4>3. CASE c = claim[p]
        BY <2>1, <3>1, <4>3 DEF Mine
      <4>q. QED
        BY <4>1, <4>2, <4>3
    <3>2. CASE t # Mine(p)
      BY <1>3, <3>2, GrantedGuard DEF IInv, GuardInv
    <3>q. QED
      BY <3>1, <3>2
  <2>4. offered' \subseteq 1 .. Len(task)
    BY <1>3 DEF Granted, IInv, GuardInv
  <2>q. QED
    BY <2>2, <2>3, <2>4 DEF GuardInv
<1>q. QED
  BY <1>1, <1>2, <1>3 DEF Kind, Calm, Accepts, Marks

LEMMA LocalShards ==
  ASSUME IInv, NEW p \in Workers, Kind(p), LocalStep(p)
  PROVE  ShardInv'
<1>1. \A q \in Workers : view'[q] \subseteq view[q] \cup shards
  BY DEF LocalStep
<1>2. PICK b \in Nat : /\ \A s \in shards : s.version <= b
                       /\ \A q \in Workers : \A s \in view[q] : s.version <= b
  BY DEF IInv, ShardInv
<1>3. CASE shards' \subseteq shards /\ offered' = offered
  <2>1. /\ \A s \in shards' : s.version <= b
        /\ \A q \in Workers : \A s \in view'[q] : s.version <= b
    BY <1>1, <1>2, <1>3
  <2>q. QED
    BY <1>1, <1>3, <2>1 DEF IInv, ShardInv
<1>4. CASE Offers(p)
  <2>1. pub[p] \in Versions /\ pub[p].claim = claim[p]
    BY <1>4, InHand DEF Offers, Working
  <2>2. pub[p].version \in Nat
    BY <2>1 DEF Versions
  <2>3. PICK d \in Nat : b <= d /\ pub[p].version <= d
    <3>1. CASE b <= pub[p].version
      BY <2>2, <3>1
    <3>2. CASE ~(b <= pub[p].version)
      BY <2>2, <3>2
    <3>q. QED
      BY <3>1, <3>2
  <2>4. \A s \in shards : s.version \in Nat
    BY DEF IInv, ShardInv, Versions
  <2>5. \A q \in Workers : \A s \in view[q] : s.version \in Nat
    BY DEF IInv, ShardInv, Versions
  <2>6. \A s \in shards : s.version <= d
    BY <1>2, <2>3, <2>4
  <2>7. \A q \in Workers : \A s \in view[q] : s.version <= d
    BY <1>2, <2>3, <2>5
  <2>8. shards' = shards \cup {pub[p]} /\ offered' = offered \cup {claim[p]}
    BY <1>4 DEF Offers
  <2>9. /\ \A s \in shards' : s.version <= d
        /\ \A q \in Workers : \A s \in view'[q] : s.version <= d
    BY <1>1, <2>3, <2>6, <2>7, <2>8
  <2>10. shards' \subseteq Versions /\ \A s \in shards' : s.claim \in offered'
    BY <2>1, <2>8 DEF IInv, ShardInv
  <2>11. \A q \in Workers : view'[q] \subseteq Versions
    BY <1>1 DEF IInv, ShardInv
  <2>q. QED
    BY <2>9, <2>10, <2>11 DEF ShardInv
<1>q. QED
  BY <1>3, <1>4 DEF Kind, Calm, Accepts, Marks, Granted

LEMMA LocalDone ==
  ASSUME IInv, NEW p \in Workers, Kind(p)
  PROVE  DoneInv' /\ \A t \in Tasks : accepted[t] # None => accepted'[t] # None
<1>1. DOMAIN done = Tasks /\ DOMAIN accepted = Tasks
  BY DEF IInv, DoneInv
<1>2. CASE UNCHANGED <<accepted, done>>
  BY <1>2 DEF IInv, DoneInv
<1>3. CASE Accepts(p)
  <2>1. pub[p] # None
    BY <1>3, InHand, NoneIsNoVersion DEF Accepts, Working
  <2>q. QED
    BY <1>1, <1>3, <2>1 DEF Accepts, IInv, DoneInv
<1>4. CASE Marks(p)
  <2>1. accepted[Mine(p)] # None
    BY <1>4, InHand DEF Marks, Working
  <2>q. QED
    BY <1>1, <1>4, <2>1 DEF Marks, IInv, DoneInv
<1>5. CASE Calm(p)
  BY <1>1, <1>5 DEF Calm, IInv, DoneInv
<1>q. QED
  BY <1>2, <1>3, <1>4, <1>5 DEF Kind, Granted, Offers

LEMMA LocalKeepsIInv ==
  ASSUME IInv, NEW p \in Workers, LocalAct(p), deployment' = deployment
  PROVE  IInv'
<1>1. task' = task /\ pending' = pending /\ held' \subseteq held /\ Kind(p)
  BY Kinds
<1>2. LocalStep(p) /\ ProcInv(p)'
  BY OwnStep
<1>3. QueueInv' /\ GuardInv' /\ ShardInv' /\ DoneInv'
  BY <1>1, <1>2, LocalQueue, LocalGuard, LocalShards, LocalDone
<1>4. Grows
  <2>1. offered \subseteq offered'
    BY <1>1 DEF Kind, Granted, Offers, Accepts, Marks, Calm
  <2>2. Len(task) <= Len(task)
    BY LenProperties DEF IInv, QueueInv
  <2>q. QED
    BY <1>1, <2>1, <2>2, LocalDone DEF Grows
<1>5. ASSUME NEW q \in Workers, q # p PROVE ProcInv(q)'
  <2>1. claim'[q] = claim[q]
    BY <1>2, <1>5, DomainsOf DEF LocalStep
  <2>2. claim[q] # 0 =>
          (claim[q] \in Range(guard'[task[claim[q]]]) <=> claim[q] \in Range(guard[task[claim[q]]]))
    <3>1. CASE guard' = guard
      BY <3>1
    <3>2. CASE Granted(p)
      <4> SUFFICES ASSUME claim[q] # 0
                   PROVE  claim[q] \in Range(guard'[task[claim[q]]])
                            <=> claim[q] \in Range(guard[task[claim[q]]])
        OBVIOUS
      <4>1. task[claim[q]] \in Tasks
        <5>1. claim[q] \in 0 .. Len(task) /\ Len(task) \in Nat
          BY LenProperties DEF IInv, QueueInv
        <5>q. QED
          BY <5>1 DEF IInv, QueueInv
      <4>2. claim[q] # claim[p]
        BY <1>5, <3>2 DEF IInv, QueueInv
      <4>q. QED
        BY <3>2, <4>1, <4>2, GrantedGuard
    <3>q. QED
      BY <1>1, <3>1, <3>2 DEF Kind, Offers, Accepts, Marks, Calm
  <2>q. QED
    BY <1>2, <1>4, <1>5, <2>1, <2>2, BystanderKeeps DEF LocalStep
<1>q. QED
  <2>1. (\A q \in Workers : ProcInv(q))'
    BY <1>2, <1>5
  <2>q. QED
    BY <1>3, <2>1 DEF IInv

LEMMA ClaimKeepsIInv ==
  ASSUME IInv, NEW p \in Workers, NEW t \in Tasks, Claim(p, t), deployment' = deployment
  PROVE  IInv'
<1> DEFINE n == Len(task) + 1
<1>1. task \in Seq(Tasks) /\ Len(task) \in Nat /\ task' = Append(task, t)
  BY LenProperties DEF Claim, IInv, QueueInv
<1>2. /\ task' \in Seq(Tasks) /\ Len(task') = n
      /\ \A c \in 1 .. Len(task) : task'[c] = task[c]
      /\ task'[n] = t
  BY <1>1, AppendProperties
<1>3. /\ pc[p] = "idle" /\ pending' = pending \ {t} /\ held' = held \cup {n}
      /\ claim' = [claim EXCEPT ![p] = n] /\ pc' = [pc EXCEPT ![p] = "recover"]
      /\ phase' = phase /\ view' = view /\ pub' = pub
      /\ UNCHANGED <<guard, accepted, shards, offered, done>> /\ Len(task) < MaxClaims
  BY DEF Claim, Goto, cache
<1>4. claim[p] = 0 /\ phase[p] = "recover"
  BY <1>3 DEF IInv, ProcInv, ProcOk, Working
<1>5. QueueInv'
  <2>1. claim \in [Workers -> 0 .. Len(task)]
    BY DEF IInv, QueueInv
  <2>2. claim' \in [Workers -> 0 .. Len(task')]
    BY <1>1, <1>2, <1>3, <2>1
  <2>3. \A q \in Workers : claim[q] # n
    BY <1>1, <2>1
  <2>4. (\A q, r \in Workers : claim[q] = claim[r] /\ claim[q] # 0 => q = r)'
    BY <1>3, <2>1, <2>3 DEF IInv, QueueInv
  <2>5. held' \subseteq 1 .. Len(task') /\ pending' \subseteq Tasks /\ Len(task') <= MaxClaims
    <3>1. held \subseteq 1 .. Len(task) /\ pending \subseteq Tasks
      BY DEF IInv, QueueInv
    <3>2. 1 .. Len(task) \subseteq 1 .. n /\ n \in 1 .. n
      BY <1>1
    <3>3. n <= MaxClaims
      BY <1>1, <1>3, FleetAssumption
    <3>q. QED
      BY <1>2, <1>3, <3>1, <3>2, <3>3
  <2>6. DOMAIN pc' = Workers
    BY <1>3, DomainsOf
  <2>q. QED
    BY <1>2, <1>3, <2>2, <2>4, <2>5, <2>6 DEF IInv, QueueInv
<1>6. GuardInv'
  BY <1>1, <1>2, <1>3 DEF IInv, GuardInv
<1>7. ShardInv'
  BY <1>3 DEF IInv, ShardInv
<1>8. DoneInv'
  BY <1>3 DEF IInv, DoneInv
<1>9. Grows
  BY <1>1, <1>2, <1>3 DEF Grows
<1>10. ProcInv(p)'
  <2>1. pc'[p] = "recover" /\ claim'[p] = n /\ phase'[p] = "recover" /\ n # 0
    BY <1>1, <1>3, <1>4, DomainsOf
  <2>2. n \notin Range(guard[t])
    BY <1>1 DEF IInv, GuardInv
  <2>q. QED
    BY <1>2, <1>3, <2>1, <2>2 DEF ProcInv, ProcOk, Working, Away, Early
<1>11. ASSUME NEW q \in Workers, q # p PROVE ProcInv(q)'
  <2>1. pc'[q] = pc[q] /\ claim'[q] = claim[q] /\ phase'[q] = phase[q] /\ pub'[q] = pub[q]
    BY <1>3, <1>11, DomainsOf
  <2>q. QED
    BY <1>3, <1>9, <2>1, BystanderKeeps
<1>q. QED
  <2>1. (\A q \in Workers : ProcInv(q))'
    BY <1>10, <1>11
  <2>q. QED
    BY <1>5, <1>6, <1>7, <1>8, <2>1 DEF IInv

LEMMA ReapKeepsIInv ==
  ASSUME IInv, NEW c \in ClaimIds, Reap(c), deployment' = deployment
  PROVE  IInv'
<1>1. /\ c \in held /\ held' = held \ {c} /\ pending' = pending \cup {task[c]}
      /\ UNCHANGED <<task, done, guard, accepted, shards, offered, pc, phase, claim, view, pub>>
  BY DEF Reap, cache, local
<1>2. task[c] \in Tasks
  BY <1>1 DEF IInv, QueueInv
<1>3. QueueInv'
  BY <1>1, <1>2 DEF IInv, QueueInv
<1>4. GuardInv' /\ ShardInv' /\ DoneInv'
  BY <1>1 DEF IInv, GuardInv, ShardInv, DoneInv
<1>5. (\A q \in Workers : ProcInv(q))'
  BY <1>1 DEF IInv, ProcInv
<1>q. QED
  BY <1>3, <1>4, <1>5 DEF IInv

LEMMA StepKeepsIInv == IInv /\ [NextInDeployment]_vars => IInv'
<1> SUFFICES ASSUME IInv, [NextInDeployment]_vars PROVE IInv'
  OBVIOUS
<1>1. CASE UNCHANGED vars
  BY <1>1 DEF vars, queue, cache, local, IInv, QueueInv, GuardInv, ShardInv, DoneInv, ProcInv
<1>2. CASE \E p \in Workers : LocalAct(p) /\ deployment' = deployment
  BY <1>2, LocalKeepsIInv
<1>3. CASE \E p \in Workers : \E t \in Tasks : Claim(p, t) /\ deployment' = deployment
  BY <1>3, ClaimKeepsIInv
<1>4. CASE \E c \in ClaimIds : Reap(c) /\ deployment' = deployment
  BY <1>4, ReapKeepsIInv
<1>q. QED
  BY <1>1, <1>2, <1>3, <1>4 DEF NextInDeployment, Next, LocalAct

\* The parts of the invariant hold in every reachable state: a claim enters a
\* guard once and only for its own task, whatever is visible was offered by the
\* claim it names, and every acceptance that a done marker answers for is there.
THEOREM Invariance == Spec => []IInv
<1>q. QED
  BY InitIInv, StepKeepsIInv, PTL DEF Spec

\* A done marker answers for an accepted publication of its task: whatever was
\* recovered, adopted, requeued, pruned or lost with a process before
\* _complete_claim linked the marker, and after it.
THEOREM DoneIsAcceptedHolds == Spec => []DoneIsAccepted
<1>1. IInv => DoneIsAccepted
  BY DEF IInv, DoneInv, DoneIsAccepted
<1>q. QED
  BY <1>1, Invariance, PTL

--------------------------------------------------------------------------------
(* No task is input twice.                                                 *)

\* One visible target per lineage and version number.
OneTarget == \A r, s \in shards : r.lineage = s.lineage /\ r.version = s.version => r = s

LEMMA OneTargetStep == OneTarget /\ [NextInDeployment]_vars => OneTarget'
<1> SUFFICES ASSUME OneTarget, [NextInDeployment]_vars PROVE OneTarget'
  OBVIOUS
<1>1. CASE shards' \subseteq shards
  BY <1>1 DEF OneTarget
<1>2. CASE \E p \in Workers : LocalAct(p)
  <2>1. PICK p \in Workers : Kind(p)
    BY <1>2, Kinds
  <2>2. CASE Offers(p)
    BY <2>2 DEF Offers, Collides, OneTarget
  <2>q. QED
    BY <1>1, <2>1, <2>2 DEF Kind, Granted, Accepts, Marks, Calm
<1>3. CASE UNCHANGED shards
  BY <1>1, <1>3
<1>q. QED
  BY <1>2, <1>3
  DEF NextInDeployment, Next, LocalAct, Claim, Reap, vars, cache

\* An entry is authenticated by the acceptance of the manifest that ends with it,
\* and that acceptance belongs to the version's own lineage.
LEMMA Authentic ==
  ASSUME NEW s \in Versions, NEW i \in 1 .. Len(s.tasks), Entry(s, i) = "ok"
  PROVE  /\ accepted[s.tasks[i]] # None /\ accepted[s.tasks[i]].lineage = s.lineage
         /\ Len(accepted[s.tasks[i]].tasks) = i
BY DEF Entry, Bound

\* Training input repeats no task.  Within one cumulative manifest the place of a
\* task is the length of the manifest it was accepted with; two selected versions
\* that shared one would both belong to the lineage of its acceptance, and the
\* read takes one version of each.
THEOREM InputNeverRepeatsHolds == Spec => []InputNeverRepeats
<1>1. Init => OneTarget
  BY DEF Init, OneTarget
<1>2. IInv /\ OneTarget => InputNeverRepeats
  <2> SUFFICES ASSUME IInv, OneTarget PROVE InputNeverRepeats
    OBVIOUS
  <2>1. ASSUME NEW s \in Selected
        PROVE  /\ s \in shards /\ s \in Versions /\ s.version \in Nat
               /\ DOMAIN s.tasks = 1 .. Len(s.tasks)
               /\ \A i \in 1 .. Len(s.tasks) : Entry(s, i) = "ok"
               /\ \A r \in Selected : r.lineage = s.lineage => r.version <= s.version
    <3>1. s \in Stops(shards) /\ Evidence(s) = "ok"
      BY DEF Selected
    <3>2. s \in shards /\ \A r \in Stops(shards) : r.lineage = s.lineage => r.version <= s.version
      BY <3>1 DEF Stops
    <3>3. s \in Versions
      BY <3>2 DEF IInv, ShardInv
    <3>4. s.version \in Nat /\ s.tasks \in Seq(Tasks)
      BY <3>3 DEF Versions
    <3>5. \A r \in Selected : r.lineage = s.lineage => r.version <= s.version
      BY <3>2 DEF Selected
    <3>q. QED
      BY <3>1, <3>2, <3>3, <3>4, <3>5, EvidenceShows, LenProperties
  <2>2. ASSUME NEW s \in Selected PROVE IsInjective(s.tasks)
    <3>1. ASSUME NEW i \in 1 .. Len(s.tasks), NEW j \in 1 .. Len(s.tasks),
                 s.tasks[i] = s.tasks[j]
          PROVE  i = j
      <4>1. Len(accepted[s.tasks[i]].tasks) = i /\ Len(accepted[s.tasks[j]].tasks) = j
        BY <2>1, Authentic
      <4>q. QED
        BY <3>1, <4>1
    <3>q. QED
      BY <2>1, <3>1 DEF IsInjective
  <2>3. ASSUME NEW r \in Selected, NEW s \in Selected,
               NEW t \in Range(r.tasks), t \in Range(s.tasks)
        PROVE  r = s
    <3>1. PICK i \in 1 .. Len(r.tasks) : t = r.tasks[i]
      BY <2>1 DEF Range
    <3>2. PICK j \in 1 .. Len(s.tasks) : t = s.tasks[j]
      BY <2>1, <2>3 DEF Range
    <3>3. accepted[t].lineage = r.lineage
      BY <2>1, <3>1, Authentic
    <3>4. accepted[t].lineage = s.lineage
      BY <2>1, <3>2, Authentic
    <3>5. r.version <= s.version /\ s.version <= r.version
      BY <2>1, <3>3, <3>4
    <3>6. r.version = s.version
      BY <2>1, <3>5
    <3>q. QED
      BY <2>1, <3>3, <3>4, <3>6 DEF OneTarget
  <2>q. QED
    BY <2>2, <2>3 DEF InputNeverRepeats
<1>3. Spec => []OneTarget
  BY <1>1, OneTargetStep, PTL DEF Spec
<1>q. QED
  BY <1>2, <1>3, Invariance, PTL

--------------------------------------------------------------------------------
(* Acknowledged tasks are input, in a fleet whose workers have ids of their *)
(* own and do not die.  There a lineage has one publisher, and its accepted *)
(* versions are a chain: each carries every task accepted before it.        *)

Alive == Crashers = {} /\ IsInjective(Lineage)

\* Task t is accepted, on lineage l.
Won(t, l) == accepted[t] # None /\ accepted[t].lineage = l

\* A manifest as ReadCurrent builds it: it ends with its own claim's task, and
\* every entry before is the end of an accepted manifest that it continues.
Chained(s) ==
  \A i \in 1 .. Len(s.tasks) - 1 :
    /\ Won(s.tasks[i], s.lineage)
    /\ accepted[s.tasks[i]].version <= s.version
    /\ accepted[s.tasks[i]].tasks = SubSeq(s.tasks, 1, i)
Good(s) ==
  /\ s \in Versions /\ s.claim \in 1 .. Len(task)
  /\ Len(s.tasks) # 0 /\ s.tasks[Len(s.tasks)] = task[s.claim]
  /\ Chained(s)

\* The accepted versions of a lineage: each ends with the task it answers for and
\* holds those of the older ones, and the newest is visible.
Chain ==
  /\ \E b \in Nat : \A t \in Tasks : accepted[t] # None => accepted[t].version <= b
  /\ \A t \in Tasks : accepted[t] # None => Good(accepted[t]) /\ task[accepted[t].claim] = t
  /\ \A t, u \in Tasks :
       /\ accepted[t] # None /\ Won(u, accepted[t].lineage)
       /\ accepted[t].version <= accepted[u].version
       => Has(accepted[u], t)
  /\ \A t \in Tasks : accepted[t] # None =>
       \/ accepted[t] \in shards
       \/ \E u \in Tasks : /\ Won(u, accepted[t].lineage)
                           /\ accepted[t].version < accepted[u].version

\* A visible version whose task its lineage has won is the winner, or older.
Visible ==
  /\ \A c \in offered : c \in Range(guard[task[c]])
  /\ \A s \in shards :
       /\ Good(s)
       /\ Won(task[s.claim], s.lineage) =>
            accepted[task[s.claim]] = s \/ s.version < accepted[task[s.claim]].version

\* What can still be accepted has its publisher waiting to have it accepted.
Publishing(p, s) == pc[p] = "accept" /\ pub[p] = s /\ Lineage[p] = s.lineage
Open(s) == accepted[task[s.claim]] = None /\ Holder(task[s.claim]) = s.claim
Awaited ==
  /\ \A s \in shards : Open(s) => \E p \in Workers : Publishing(p, s)
  /\ \A q \in Workers : pc[q] = "adopt" /\ Open(pub[q])
                          => \E p \in Workers : Publishing(p, pub[q])

\* A publication is newer than whatever its lineage shows or has won, all of which
\* it holds.  Once visible, it may itself be accepted.
Unseen(p) ==
  LET s == pub[p] IN
  /\ ~Won(Mine(p), s.lineage)
  /\ \A r \in shards : r.lineage = s.lineage => r.version < s.version
  /\ \A u \in Tasks : Won(u, s.lineage) => accepted[u].version < s.version /\ Has(s, u)
Seen(p) ==
  LET s == pub[p] IN
  /\ s \in shards
  /\ \A r \in shards : r.lineage = s.lineage => r = s \/ r.version < s.version
  /\ \A u \in Tasks : Won(u, s.lineage) =>
       accepted[u] = s \/ (accepted[u].version < s.version /\ Has(s, u))
Ours(p) == {s \in shards : s.lineage = Lineage[p]}
Own(p) ==
  /\ pc[p] \in {"stage", "rename", "accept"} => Good(pub[p]) /\ pub[p].lineage = Lineage[p]
  /\ pc[p] \in {"stage", "rename"} => Unseen(p)
  /\ pc[p] = "accept" => Seen(p)
  /\ pc[p] = "judge" /\ phase[p] = "current" => view[p] = Ours(p)
  /\ phase[p] = "accepted" => pub[p].lineage = Lineage[p]
  /\ pc[p] = "prune" => /\ phase[p] = "accepted"
                        /\ accepted[Mine(p)] # None /\ accepted[Mine(p)] = pub[p]

ChainInv == Chain /\ Visible /\ Awaited /\ \A p \in Workers : Own(p)

\* What is known of a chained version.
LEMMA GoodFacts ==
  ASSUME NEW s, Good(s)
  PROVE  /\ s \in Versions /\ s # None /\ s.version \in Nat /\ s.tasks \in Seq(Tasks)
         /\ Len(s.tasks) \in Nat /\ Len(s.tasks) # 0 /\ DOMAIN s.tasks = 1 .. Len(s.tasks)
         /\ s.tasks[Len(s.tasks)] = task[s.claim] /\ task[s.claim] \in Tasks
<1>1. s \in Versions /\ s # None /\ s.version \in Nat /\ s.tasks \in Seq(Tasks)
  BY NoneIsNoVersion DEF Good, Versions
<1>2. /\ Len(s.tasks) \in Nat /\ Len(s.tasks) # 0 /\ DOMAIN s.tasks = 1 .. Len(s.tasks)
      /\ s.tasks[Len(s.tasks)] = task[s.claim]
  BY <1>1, LenProperties DEF Good
<1>3. Len(s.tasks) \in 1 .. Len(s.tasks)
  BY <1>2
<1>q. QED
  BY <1>1, <1>2, <1>3, ElementOfSeq

\* Its entries before the last are authenticated.
LEMMA EarlierEntries ==
  ASSUME NEW s, Good(s), NEW i \in 1 .. Len(s.tasks), i # Len(s.tasks)
  PROVE  Entry(s, i) = "ok"
<1> DEFINE a == accepted[s.tasks[i]]
<1>1. i \in 1 .. Len(s.tasks) - 1 /\ i \in Int /\ 1 <= i
  BY GoodFacts
<1>2. a # None /\ a.lineage = s.lineage /\ a.version <= s.version /\ a.tasks = SubSeq(s.tasks, 1, i)
  BY <1>1 DEF Good, Chained, Won
<1>3. \A j \in 1 .. i : s.tasks[j] \in Tasks
  BY <1>1, GoodFacts, ElementOfSeq
<1>4. Len(SubSeq(s.tasks, 1, i)) = i
  BY <1>1, <1>3, SubSeqProperties, SMT
<1>5. Bound(s, i)
  BY <1>2, <1>4 DEF Bound
<1>q. QED
  BY <1>2, <1>5 DEF Entry

\* A version that its last task's acceptance names is selectable.
LEMMA AcceptedIsSelectable ==
  ASSUME NEW s, Good(s), accepted[s.tasks[Len(s.tasks)]] = s
  PROVE  Evidence(s) = "ok"
<1> DEFINE n == Len(s.tasks)
<1>1. Bound(s, n)
  BY GoodFacts, SubSeqFull DEF Bound
<1>2. Entry(s, n) = "ok"
  BY <1>1, GoodFacts DEF Entry
<1>3. \A i \in 1 .. n : Entry(s, i) = "ok"
  BY <1>2, EarlierEntries
<1>q. QED
  BY <1>3 DEF Evidence

\* A visible version that did not win its task is passed over.
LEMMA LoserIsPassedOver ==
  ASSUME IInv, Visible, NEW s \in shards, ~Won(task[s.claim], s.lineage)
  PROVE  Evidence(s) = "none"
<1> DEFINE n == Len(s.tasks)
<1>1. Good(s)
  BY DEF Visible
<1>2. guard[task[s.claim]] # <<>>
  <2>1. s.claim \in Range(guard[task[s.claim]])
    BY DEF Visible, IInv, ShardInv
  <2>2. Range(<<>>) = {}
    BY DEF Range
  <2>q. QED
    BY <2>1, <2>2
<1>3. Entry(s, n) = "none"
  BY <1>1, <1>2, GoodFacts DEF Entry, Won
<1>4. {i \in 1 .. n : Entry(s, i) # "ok"} = {n}
  BY <1>1, <1>3, GoodFacts, EarlierEntries
<1>5. (CHOOSE i \in {n} : \A j \in {n} : i <= j) = n
  BY <1>1, GoodFacts
<1>q. QED
  BY <1>3, <1>4, <1>5 DEF Evidence

\* A read of a lineage that has won a task stops on its newest accepted version,
\* which holds every task the lineage has won.
LEMMA NewestIsSelected ==
  ASSUME IInv, Chain, Visible, NEW l, NEW t \in Tasks, Won(t, l),
         NEW V \in SUBSET shards, \A s \in shards : s.lineage = l => s \in V
  PROVE  \E m \in Stops(V) :
           /\ m.lineage = l /\ Evidence(m) = "ok" /\ m \in shards
           /\ \A u \in Tasks : Won(u, l) => accepted[u].version <= m.version /\ Has(m, u)
<1> DEFINE W == {u \in Tasks : Won(u, l)}
           N == {accepted[u].version : u \in W}
<1>1. \A u \in W : Good(accepted[u]) /\ accepted[u].version \in Nat
  BY GoodFacts DEF Chain, Won
<1>2. PICK m \in N : \A n \in N : n <= m
  <2>1. PICK b \in Nat : \A u \in W : accepted[u].version <= b
    BY DEF Chain, Won
  <2>2. N \in SUBSET Nat /\ N # {} /\ \A n \in N : n <= b
    BY <1>1, <2>1
  <2> HIDE DEF N
  <2>q. QED
    BY <2>2, GreatestNumber
<1>3. PICK v \in W : m = accepted[v].version
  OBVIOUS
<1> DEFINE a == accepted[v]
<1>4. Good(a) /\ a.lineage = l /\ a.version \in Nat /\ task[a.claim] = v
  BY <1>1 DEF Chain, Won
<1>5. \A u \in W : accepted[u].version <= a.version
  BY <1>2, <1>3
<1>6. a \in shards
  BY <1>1, <1>4, <1>5 DEF Chain, Won
<1>7. \A u \in W : Has(a, u)
  BY <1>4, <1>5 DEF Chain, Won
<1>8. Evidence(a) = "ok"
  BY <1>4, GoodFacts, AcceptedIsSelectable
<1>9. ASSUME NEW r \in V, r \notin shards \/ Evidence(r) # "none", r.lineage = l
      PROVE  r.version <= a.version
  <2>1. Won(task[r.claim], l)
    BY <1>9, LoserIsPassedOver
  <2>2. Good(r) /\ task[r.claim] \in W /\ r.version \in Nat
    BY <2>1, GoodFacts DEF Visible
  <2> DEFINE w == accepted[task[r.claim]]
  <2>3. w = r \/ r.version < w.version
    BY <1>9, <2>1 DEF Visible
  <2>q. QED
    BY <1>1, <1>4, <1>5, <2>2, <2>3
<1>10. a \in Stops(V)
  BY <1>4, <1>6, <1>8, <1>9 DEF Stops
<1>q. QED
  BY <1>4, <1>5, <1>6, <1>7, <1>8, <1>10

\* So whatever was accepted is input.
LEMMA WonIsInput ==
  ASSUME IInv, Chain, Visible, NEW t \in Tasks, accepted[t] # None
  PROVE  t \in Input
<1> DEFINE l == accepted[t].lineage
<1>1. Won(t, l)
  BY DEF Won
<1>2. PICK m \in Stops(shards) : Evidence(m) = "ok" /\ Has(m, t)
  BY <1>1, NewestIsSelected
<1>q. QED
  BY <1>2 DEF Input, Selected, Has

--------------------------------------------------------------------------------
(* A step keeps the chain and what is visible of it.                       *)

\* The claims keep their tasks, and acceptances are final.
Later ==
  /\ Len(task) \in Nat /\ Len(task') \in Nat /\ Len(task) <= Len(task')
  /\ \A c \in 1 .. Len(task) : task'[c] = task[c]
  /\ \A t \in Tasks : accepted[t] # None => accepted'[t] = accepted[t]

LEMMA GoodStays ==
  ASSUME NEW s, Good(s), Later
  PROVE  Good(s)' /\ task'[s.claim] = task[s.claim]
<1>1. s.claim \in 1 .. Len(task') /\ task'[s.claim] = task[s.claim]
  BY DEF Good, Later
<1>2. ASSUME NEW i \in 1 .. Len(s.tasks) - 1
      PROVE  accepted'[s.tasks[i]] = accepted[s.tasks[i]]
  <2>1. i \in 1 .. Len(s.tasks)
    BY GoodFacts
  <2>2. s.tasks[i] \in Tasks
    BY <2>1, GoodFacts, ElementOfSeq
  <2>3. accepted[s.tasks[i]] # None
    BY DEF Good, Chained, Won
  <2>q. QED
    BY <2>2, <2>3 DEF Later
<1>3. Chained(s)'
  BY <1>2 DEF Good, Chained, Won
<1>q. QED
  BY <1>1, <1>3 DEF Good

LEMMA LocalLater ==
  ASSUME IInv, NEW p \in Workers, Kind(p), task' = task
  PROVE  Later
<1>1. Len(task) \in Nat
  BY LenProperties DEF IInv, QueueInv
<1>2. CASE accepted' = accepted
  BY <1>1, <1>2 DEF Later
<1>3. CASE Accepts(p)
  BY <1>1, <1>3 DEF Accepts, MayAccept, Later, IInv, DoneInv
<1>q. QED
  BY <1>2, <1>3 DEF Kind, Granted, Offers, Marks, Calm

LEMMA HolderHolds ==
  ASSUME IInv, NEW t \in Tasks, Holder(t) # 0
  PROVE  Holder(t) \in Range(guard[t])
<1>1. guard[t] # <<>> /\ guard[t] \in Seq(Nat)
  BY DEF Holder, IInv, GuardInv
<1>2. DOMAIN guard[t] = 1 .. Len(guard[t]) /\ Len(guard[t]) \in Nat /\ Len(guard[t]) # 0
  BY <1>1, LenProperties, EmptySeq
<1>3. Len(guard[t]) \in DOMAIN guard[t]
  BY <1>2
<1>q. QED
  BY <1>1, <1>3 DEF Holder, Range

\* Whoever has a publication accepted, its publisher is there waiting.
LEMMA AcceptedForIts ==
  ASSUME IInv, Awaited, NEW p \in Workers, Own(p), Accepts(p)
  PROVE  /\ task[pub[p].claim] = Mine(p) /\ Mine(p) \in Tasks /\ accepted[Mine(p)] = None
         /\ \E q \in Workers : Publishing(q, pub[p])
<1>1. Mine(p) \in Tasks /\ pub[p] \in Versions /\ pub[p].claim \in offered
  BY InHand DEF Accepts, Working
<1>2. accepted[Mine(p)] = None /\ Holder(Mine(p)) = pub[p].claim
  BY DEF Accepts, MayAccept
<1>3. pub[p].claim # 0
  BY <1>1 DEF IInv, GuardInv
<1>4. task[pub[p].claim] = Mine(p)
  BY <1>1, <1>2, <1>3, HolderHolds DEF IInv, GuardInv
<1>5. Open(pub[p])
  BY <1>2, <1>4 DEF Open
<1>6. CASE pc[p] = "adopt"
  BY <1>1, <1>2, <1>4, <1>5, <1>6 DEF Awaited
<1>7. CASE pc[p] = "accept"
  <2>1. Publishing(p, pub[p])
    BY <1>7 DEF Own, Publishing
  <2>q. QED
    BY <1>1, <1>2, <1>4, <2>1
<1>q. QED
  BY <1>6, <1>7 DEF Accepts

LEMMA ChainStays ==
  ASSUME Chain, Later, accepted' = accepted, shards \subseteq shards'
  PROVE  Chain'
<1>1. \A t \in Tasks : accepted[t] # None => Good(accepted[t])' /\ task'[accepted[t].claim] = t
  BY GoodStays DEF Chain
<1>q. QED
  BY <1>1 DEF Chain, Won, Has

\* A prune spares the version it made room for, which is accepted and newer.
LEMMA ChainSurvivesPrune ==
  ASSUME IInv, Chain, NEW p \in Workers, Own(p), pc[p] = "prune", shards' = shards \ Stale(p),
         Later, accepted' = accepted
  PROVE  Chain'
<1>1. \A t \in Tasks : accepted[t] # None => Good(accepted[t])' /\ task'[accepted[t].claim] = t
  BY GoodStays DEF Chain
<1>2. /\ Mine(p) \in Tasks /\ accepted[Mine(p)] # None /\ accepted[Mine(p)] = pub[p]
      /\ pub[p].lineage = Lineage[p]
  BY AtWork DEF Own, Working
<1>3. ASSUME NEW t \in Tasks, accepted[t] # None, accepted[t] \notin shards'
      PROVE  \E u \in Tasks : Won(u, accepted[t].lineage) /\ accepted[t].version < accepted[u].version
  <2>1. CASE accepted[t] \in Stale(p)
    BY <1>2, <2>1 DEF Stale, Won
  <2>2. CASE accepted[t] \notin Stale(p)
    BY <1>3, <2>2 DEF Chain
  <2>q. QED
    BY <2>1, <2>2
<1>q. QED
  BY <1>1, <1>3 DEF Chain, Won, Has

LEMMA AcceptExtendsChain ==
  ASSUME IInv, ChainInv, NEW p \in Workers, Accepts(p), Later, task' = task
  PROVE  Chain'
<1> DEFINE s == pub[p]
           t0 == Mine(p)
<1>1. PICK q \in Workers : Publishing(q, s)
  BY AcceptedForIts DEF ChainInv
<1>2. t0 \in Tasks /\ task[s.claim] = t0 /\ accepted[t0] = None
  BY AcceptedForIts DEF ChainInv
<1>3. Good(s) /\ Seen(q) /\ pub[q] = s
  BY <1>1 DEF ChainInv, Own, Publishing
<1>4. s # None /\ s.version \in Nat /\ Has(s, t0)
  <2>1. Len(s.tasks) \in DOMAIN s.tasks /\ s.tasks[Len(s.tasks)] = t0
    BY <1>2, <1>3, GoodFacts
  <2>q. QED
    BY <1>3, <2>1, GoodFacts DEF Has, Range
<1>5. accepted'[t0] = s /\ \A t \in Tasks : t # t0 => accepted'[t] = accepted[t]
  BY <1>2 DEF Accepts, IInv, DoneInv
<1>6. shards' = shards /\ s \in shards
  BY <1>3 DEF Accepts, Seen
<1>7. (\A t \in Tasks : accepted[t] # None => Good(accepted[t]) /\ task[accepted[t].claim] = t)'
  <2>1. ASSUME NEW t \in Tasks, t # t0, accepted'[t] # None
        PROVE  (Good(accepted[t]) /\ task[accepted[t].claim] = t)'
    <3>1. Good(accepted[t]) /\ task[accepted[t].claim] = t /\ accepted'[t] = accepted[t]
      BY <1>5, <2>1 DEF ChainInv, Chain
    <3>2. \A x : x = accepted[t] => Good(x)' /\ task'[x.claim] = t
      BY <3>1, GoodStays
    <3>q. QED
      BY <3>1, <3>2
  <2>2. ASSUME NEW t \in Tasks, t = t0
        PROVE  (Good(accepted[t]) /\ task[accepted[t].claim] = t)'
    <3>1. \A x : x = s => Good(x)' /\ task'[x.claim] = t0
      BY <1>2, <1>3, GoodStays
    <3>q. QED
      BY <1>5, <2>2, <3>1
  <2>q. QED
    BY <2>1, <2>2
<1>8. \E b \in Nat : \A t \in Tasks : accepted'[t] # None => accepted'[t].version <= b
  <2>1. PICK b \in Nat : \A t \in Tasks : accepted[t] # None => accepted[t].version <= b
    BY DEF ChainInv, Chain
  <2>2. \A t \in Tasks : accepted[t] # None => accepted[t].version \in Nat
    BY GoodFacts DEF ChainInv, Chain
  <2>3. CASE s.version <= b
    BY <1>5, <2>1, <2>3
  <2>4. CASE ~(s.version <= b)
    <3>1. \A t \in Tasks : accepted[t] # None => accepted[t].version <= s.version
      BY <1>4, <2>1, <2>2, <2>4
    <3>q. QED
      BY <1>4, <1>5, <3>1
  <2>q. QED
    BY <2>3, <2>4
<1>9. ASSUME NEW t \in Tasks, NEW u \in Tasks, accepted'[t] # None,
             Won(u, accepted[t].lineage)', accepted'[t].version <= accepted'[u].version
      PROVE  Has(accepted'[u], t)
  <2>1. CASE t # t0 /\ u # t0
    BY <1>5, <1>9, <2>1 DEF ChainInv, Chain, Won
  <2>2. CASE t = t0
    <3>1. CASE u = t0
      BY <1>4, <1>5, <2>2, <3>1
    <3>2. CASE u # t0
      <4>1. Won(u, s.lineage) /\ s.version <= accepted[u].version
        BY <1>5, <1>9, <2>2, <3>2 DEF Won
      <4>2. accepted[u].version \in Nat
        BY <4>1, GoodFacts DEF ChainInv, Chain, Won
      <4>3. accepted[u] = s
        BY <1>3, <1>4, <4>1, <4>2 DEF Seen
      <4>q. QED
        BY <1>4, <1>5, <2>2, <3>2, <4>3
    <3>q. QED
      BY <3>1, <3>2
  <2>3. CASE t # t0 /\ u = t0
    <3>1. Won(t, s.lineage)
      BY <1>5, <1>9, <2>3 DEF Won
    <3>2. accepted[t] = s => t = t0
      BY <1>2, <1>4, <3>1 DEF ChainInv, Chain, Won
    <3>3. Has(s, t)
      BY <1>3, <2>3, <3>1, <3>2 DEF Seen
    <3>q. QED
      BY <1>5, <2>3, <3>3
  <2>q. QED
    BY <2>1, <2>2, <2>3
<1>10. ASSUME NEW t \in Tasks, accepted'[t] # None
       PROVE  \/ accepted'[t] \in shards'
              \/ \E u \in Tasks : /\ Won(u, accepted[t].lineage)'
                                  /\ accepted'[t].version < accepted'[u].version
  <2>1. CASE t = t0
    BY <1>5, <1>6, <2>1
  <2>2. CASE t # t0
    <3>1. CASE accepted[t] \in shards
      BY <1>5, <1>6, <2>2, <3>1
    <3>2. CASE accepted[t] \notin shards
      <4>1. PICK u \in Tasks : /\ Won(u, accepted[t].lineage)
                               /\ accepted[t].version < accepted[u].version
        BY <1>5, <1>10, <2>2, <3>2 DEF ChainInv, Chain
      <4>2. u # t0
        BY <1>2, <4>1 DEF Won
      <4>q. QED
        BY <1>5, <2>2, <4>1, <4>2 DEF Won
    <3>q. QED
      BY <3>1, <3>2
  <2>q. QED
    BY <2>1, <2>2
<1>q. QED
  BY <1>7, <1>8, <1>9, <1>10 DEF Chain

\* What Visible says of one version.
Placed(s) ==
  /\ Good(s)
  /\ Won(task[s.claim], s.lineage) =>
       accepted[task[s.claim]] = s \/ s.version < accepted[task[s.claim]].version

LEMMA PlacedStays ==
  ASSUME NEW s, Placed(s), Later, accepted' = accepted
  PROVE  Placed(s)'
BY GoodStays DEF Placed, Won

LEMMA VisibleStays ==
  ASSUME IInv, Visible, Later, accepted' = accepted, shards' \subseteq shards,
         offered' = offered,
         \A t \in Tasks : Range(guard[t]) \subseteq Range(guard'[t])
  PROVE  Visible'
<1>1. \A s \in shards' : Placed(s)'
  BY PlacedStays DEF Visible, Placed
<1>2. ASSUME NEW c \in offered' PROVE c \in Range(guard'[task'[c]])
  <2>1. c \in 1 .. Len(task)
    BY DEF IInv, GuardInv
  <2>2. task[c] \in Tasks /\ task'[c] = task[c]
    BY <2>1, ElementOfSeq DEF Later, IInv, QueueInv
  <2>q. QED
    BY <2>2 DEF Visible
<1>q. QED
  BY <1>1, <1>2 DEF Visible, Placed

LEMMA LocalVisible ==
  ASSUME IInv, ChainInv, NEW p \in Workers, Kind(p), task' = task
  PROVE  Visible'
<1>1. Later
  BY LocalLater
<1>2. CASE Granted(p)
  <2>1. \A t \in Tasks : Range(guard[t]) \subseteq Range(guard'[t])
    <3>1. ASSUME NEW t \in Tasks PROVE Range(guard[t]) \subseteq Range(guard'[t])
      <4>1. CASE t = Mine(p)
        BY <1>2, <4>1, GrantedGuard
      <4>2. CASE t # Mine(p)
        BY <1>2, <4>2, GrantedGuard
      <4>q. QED
        BY <4>1, <4>2
    <3>q. QED
      BY <3>1
  <2>q. QED
    BY <1>1, <1>2, <2>1, VisibleStays DEF Granted, ChainInv
<1>3. CASE Offers(p)
  <2>1. /\ claim[p] \in Range(guard[Mine(p)]) /\ pub[p].claim = claim[p]
        /\ Mine(p) = task[claim[p]]
    BY <1>3, InHand DEF Offers, Working, Mine
  <2>2. Good(pub[p]) /\ ~Won(Mine(p), pub[p].lineage)
    BY <1>3 DEF Offers, ChainInv, Own, Unseen
  <2>3. Placed(pub[p])
    BY <2>1, <2>2 DEF Placed
  <2>4. accepted' = accepted
    BY <1>3 DEF Offers
  <2>5. \A s : s \in shards \/ s = pub[p] => Placed(s)'
    <3>1. \A s : s \in shards \/ s = pub[p] => Placed(s)
      BY <2>3 DEF ChainInv, Visible, Placed
    <3>q. QED
      BY <1>1, <2>4, <3>1, PlacedStays
  <2>6. shards' = shards \cup {pub[p]} /\ offered' = offered \cup {claim[p]} /\ guard' = guard
    BY <1>3 DEF Offers
  <2>7. \A s \in shards' : Placed(s)'
    BY <2>5, <2>6
  <2>8. \A c \in offered' : c \in Range(guard'[task'[c]])
    BY <2>1, <2>6 DEF ChainInv, Visible
  <2>q. QED
    BY <2>7, <2>8 DEF Visible, Placed
<1>4. CASE Accepts(p)
  <2> DEFINE s == pub[p]
             t0 == Mine(p)
  <2>1. PICK q \in Workers : Publishing(q, s)
    BY <1>4, AcceptedForIts DEF ChainInv
  <2>2. t0 \in Tasks /\ task[s.claim] = t0 /\ accepted[t0] = None
    BY <1>4, AcceptedForIts DEF ChainInv
  <2>3. Seen(q) /\ pub[q] = s
    BY <2>1 DEF ChainInv, Own, Publishing
  <2>4. accepted'[t0] = s /\ \A t \in Tasks : t # t0 => accepted'[t] = accepted[t]
    BY <1>4, <2>2 DEF Accepts, IInv, DoneInv
  <2>5. shards' = shards /\ offered' = offered /\ guard' = guard
    BY <1>4 DEF Accepts
  <2>6. ASSUME NEW r \in shards PROVE Placed(r)'
    <3>1. Good(r)' /\ task'[r.claim] = task[r.claim] /\ task[r.claim] \in Tasks
      BY <1>1, GoodStays, GoodFacts DEF ChainInv, Visible
    <3>2. CASE task[r.claim] # t0
      BY <2>4, <3>1, <3>2 DEF ChainInv, Visible, Placed, Won
    <3>3. CASE task[r.claim] = t0
      <4>1. r.lineage = s.lineage => r = s \/ r.version < s.version
        BY <2>3 DEF Seen
      <4>q. QED
        BY <2>4, <3>1, <3>3, <4>1 DEF Placed, Won
    <3>q. QED
      BY <3>2, <3>3
  <2>q. QED
    BY <2>5, <2>6 DEF ChainInv, Visible, Placed
<1>5. CASE Marks(p) \/ Calm(p)
  BY <1>1, <1>5, VisibleStays DEF Marks, Calm, ChainInv
<1>q. QED
  BY <1>2, <1>3, <1>4, <1>5 DEF Kind

--------------------------------------------------------------------------------
(* What can still be accepted keeps its publisher.                         *)

\* Nothing opens again: a claim enters the guard before it offers anything.
LEMMA OpenBefore ==
  ASSUME IInv, Visible, NEW p \in Workers, Kind(p), task' = task,
         NEW s, s.claim \in offered, Open(s)'
  PROVE  Open(s)
<1>1. s.claim \in 1 .. Len(task) /\ s.claim \in Range(guard[task[s.claim]])
  BY DEF IInv, GuardInv, Visible
<1>2. task[s.claim] \in Tasks
  BY <1>1, ElementOfSeq DEF IInv, QueueInv
<1>3. CASE Granted(p)
  <2>1. CASE task[s.claim] # Mine(p)
    BY <1>2, <1>3, <2>1, GrantedGuard DEF Granted, Open, Holder
  <2>2. CASE task[s.claim] = Mine(p)
    <3>1. guard'[Mine(p)] = Append(guard[Mine(p)], claim[p])
      BY <1>3, GrantedGuard
    <3>2. guard[Mine(p)] \in Seq(Nat) /\ claim[p] \in Nat /\ claim[p] \notin Range(guard[Mine(p)])
      BY <1>2, <1>3, <2>2, InHand DEF Granted, Working, IInv, GuardInv
    <3>3. \A t : t = Mine(p) => Holder(t)' = claim[p]
      <4>1. /\ Len(Append(guard[Mine(p)], claim[p])) = Len(guard[Mine(p)]) + 1
            /\ Append(guard[Mine(p)], claim[p]) # <<>>
            /\ Append(guard[Mine(p)], claim[p])[Len(guard[Mine(p)]) + 1] = claim[p]
        BY <3>2, AppendProperties
      <4>q. QED
        BY <3>1, <4>1 DEF Holder
    <3>q. QED
      BY <1>1, <2>2, <3>2, <3>3 DEF Open
  <2>q. QED
    BY <2>1, <2>2
<1>4. CASE Accepts(p)
  <2>1. guard' = guard /\ accepted[Mine(p)] = None
    BY <1>4 DEF Accepts, MayAccept
  <2>2. \A t \in Tasks : t # Mine(p) => accepted'[t] = accepted[t]
    BY <1>4 DEF Accepts, IInv, DoneInv
  <2>3. accepted[task[s.claim]] = None
    BY <1>2, <2>1, <2>2 DEF Open
  <2>q. QED
    BY <2>1, <2>3 DEF Open, Holder
<1>q. QED
  BY <1>3, <1>4 DEF Kind, Offers, Marks, Calm, Open, Holder

\* A publisher leaves with the outcome settled.
LEMMA AcceptCloses ==
  ASSUME IInv, NEW p \in Workers, Own(p), Accept(p), NEW s, s = pub[p]
  PROVE  ~Open(s)'
<1>1. pc[p] = "accept" /\ task' = task /\ guard' = guard
  BY DEF Accept, queue
<1>2. Mine(p) \in Tasks /\ pub[p] \in Versions
  BY <1>1, InHand DEF Working
<1>3. pub[p].claim = claim[p]
  BY <1>1 DEF IInv, ProcInv, ProcOk
<1>4. pub[p] \in shards /\ task[s.claim] = Mine(p)
  BY <1>1, <1>3 DEF Own, Seen, Mine
<1>5. CASE accepted[Mine(p)] # None
  BY <1>1, <1>4, <1>5 DEF Accept, MayAccept, Open
<1>6. CASE MayAccept(p)
  <2>1. accepted' = [accepted EXCEPT ![Mine(p)] = pub[p]]
    BY <1>4, <1>6 DEF Accept, MayAccept
  <2>2. accepted'[Mine(p)] = pub[p]
    BY <1>2, <2>1 DEF IInv, DoneInv
  <2>q. QED
    BY <1>1, <1>2, <1>4, <2>2, NoneIsNoVersion DEF Open
<1>7. CASE accepted[Mine(p)] = None /\ ~MayAccept(p)
  BY <1>1, <1>4, <1>7 DEF MayAccept, Open, Holder
<1>q. QED
  BY <1>5, <1>6, <1>7

LEMMA PublisherStays ==
  ASSUME IInv, Alive, NEW p \in Workers, LocalAct(p), deployment' = deployment, Own(p),
         NEW q \in Workers, NEW s, Publishing(q, s), Open(s)'
  PROVE  Publishing(q, s)'
<1>1. CASE q # p
  <2>1. pc'[q] = pc[q] /\ pub'[q] = pub[q]
    BY <1>1, OwnStep DEF LocalStep
  <2>q. QED
    BY <2>1 DEF Publishing, Lineage
<1>2. CASE q = p
  <2>1. pc[p] = "accept" /\ s = pub[p]
    BY <1>2 DEF Publishing
  <2>2. Accept(p)
    BY <2>1 DEF LocalAct, Inventory, Publish, Collect, CollectFails, Recover, Adopt, List,
      JudgeVanished, JudgeCorrupt, JudgeFound, JudgeAbsent, ReadCurrent, Lease, Lock, Stage,
      RenameTarget, Mark, Proof, Prune, Crash, Respawn, Alive
  <2>q. QED
    BY <2>1, <2>2, AcceptCloses
<1>q. QED
  BY <1>1, <1>2

LEMMA LocalOffered ==
  ASSUME NEW p \in Workers, Kind(p)
  PROVE  /\ \A s \in shards' : s \in shards \/ (Offers(p) /\ s = pub[p])
         /\ offered \subseteq offered'
BY DEF Kind, Granted, Offers, Accepts, Marks, Calm

--------------------------------------------------------------------------------
(* The turns a process takes, by what they mean for its publication.        *)

Turning == {"adopt", "judge", "stage", "rename", "accept", "prune"}

\* It goes on, or leaves the task, with the publication it had.
Walks(p) ==
  /\ pc'[p] \notin Turning
  /\ phase'[p] = "accepted" => phase[p] = "accepted" /\ pub'[p] = pub[p]

Adopts(p) ==
  /\ pc'[p] = "adopt" /\ phase'[p] # "accepted" /\ pub'[p] \in shards
  /\ UNCHANGED <<guard, accepted, shards, offered>>
Staged(p) ==
  /\ pc[p] = "stage" /\ pc'[p] = "rename"
  /\ UNCHANGED <<local, guard, accepted, shards, offered>>
Shows(p) == Offers(p) /\ pc'[p] = "accept" /\ UNCHANGED <<phase, pub>>
Settles(p) == Accept(p) /\ pc'[p] = "list" /\ phase'[p] = "accepted" /\ pub' = pub
Completes(p) ==
  /\ pc[p] = "proof" /\ pc'[p] = "prune" /\ Prunes(p)
  /\ UNCHANGED <<local, guard, accepted, shards, offered>>

Turn(p) == \/ Walks(p) \/ Adopts(p) \/ List(p) \/ ReadCurrent(p)
           \/ Staged(p) \/ Shows(p) \/ Settles(p) \/ Completes(p)

LEMMA LeaveWalks ==
  ASSUME IInv, NEW p \in Workers, NEW l \in Away, Leave(p, l)
  PROVE  Walks(p)
BY DomainsOf DEF Leave, Goto, Forget, Walks, Turning, Away

LEMMA LookWalks ==
  ASSUME IInv, NEW p \in Workers, NEW w, Look(p, w), pub' = pub, w = "accepted" => w = phase[p]
  PROVE  Walks(p)
BY DomainsOf DEF Look, Goto, Walks, Turning

LEMMA GoWalks ==
  ASSUME IInv, NEW p \in Workers, NEW l, l \notin Turning, Goto(p, l), pub' = pub, phase' = phase
  PROVE  Walks(p)
BY DomainsOf DEF Goto, Walks

LEMMA Turns ==
  ASSUME IInv, NEW p \in Workers, LocalAct(p)
  PROVE  Turn(p)
<1>0. \A l \in Away : Leave(p, l) => Turn(p)
  BY LeaveWalks DEF Turn
<1>1. CASE Collect(p)
  <2>1. CASE Goto(p, "recover") /\ phase' = [phase EXCEPT ![p] = "publish"]
    BY <2>1, DomainsOf DEF Goto, Walks, Turning, Turn
  <2>q. QED
    BY <1>0, <1>1, <2>1 DEF Collect, Drop, Away
<1>2. CASE CollectFails(p)
  BY <1>0, <1>2 DEF CollectFails, Drop, Away
<1>3. CASE Recover(p)
  <2>1. CASE Look(p, phase[p]) /\ pub' = pub
    BY <2>1, LookWalks DEF Turn
  <2>2. CASE /\ \E s \in Pending(p) : pub' = [pub EXCEPT ![p] = s]
             /\ Goto(p, "adopt") /\ phase' = phase
    <3>1. phase[p] # "accepted"
      BY <1>3, AtWork DEF Recover, Working, Early
    <3>2. pc'[p] = "adopt" /\ pub'[p] \in shards
      BY <2>2, DomainsOf DEF Goto, Pending
    <3>3. UNCHANGED <<guard, accepted, shards, offered>>
      BY <1>3 DEF Recover
    <3>q. QED
      BY <2>2, <3>1, <3>2, <3>3 DEF Adopts, Turn
  <2>q. QED
    BY <1>0, <1>3, <2>1, <2>2 DEF Recover, Terminal, Recycle, Away
<1>4. CASE Adopt(p)
  <2>1. CASE Look(p, phase[p]) /\ pub' = pub
    BY <2>1, LookWalks DEF Turn
  <2>q. QED
    BY <1>0, <1>4, <2>1 DEF Adopt, Recycle, Abort, Away
<1>5. CASE JudgeVanished(p)
  <2>1. CASE Goto(p, "list") /\ pub' = pub /\ phase' = phase
    BY <2>1, GoWalks DEF Turn, Turning
  <2>q. QED
    BY <1>0, <1>5, <2>1 DEF JudgeVanished, Recycle, Away
<1>6. CASE JudgeCorrupt(p)
  BY <1>0, <1>6 DEF JudgeCorrupt, Terminal, Away
<1>7. CASE JudgeFound(p)
  BY <1>7, GoWalks DEF JudgeFound, Turn, Turning
<1>8. CASE JudgeAbsent(p)
  <2>1. CASE /\ phase[p] \in {"recover", "publish", "leased"}
             /\ Goto(p, CASE phase[p] = "recover" -> "collect"
                          [] phase[p] = "publish" -> "lease"
                          [] phase[p] = "leased"  -> "lock")
             /\ pub' = pub /\ phase' = phase
    <3>1. Goto(p, "collect") \/ Goto(p, "lease") \/ Goto(p, "lock")
      BY <2>1
    <3>q. QED
      BY <2>1, <3>1, GoWalks DEF Turn, Turning
  <2>2. \/ \E l \in Away : Leave(p, l)
        \/ /\ phase[p] \in {"recover", "publish", "leased"}
           /\ Goto(p, CASE phase[p] = "recover" -> "collect"
                        [] phase[p] = "publish" -> "lease"
                        [] phase[p] = "leased"  -> "lock")
           /\ pub' = pub /\ phase' = phase
    BY <1>8 DEF JudgeAbsent, Drop, Terminal, Recycle, Away
  <2>q. QED
    BY <1>0, <2>1, <2>2
<1>9. CASE Lease(p)
  <2>1. CASE Look(p, "leased") /\ pub' = pub
    BY <2>1, LookWalks DEF Turn
  <2>q. QED
    BY <1>0, <1>9, <2>1 DEF Lease, Recycle, Away
<1>10. CASE Lock(p)
  <2>1. CASE Look(p, "current") /\ pub' = pub
    BY <2>1, LookWalks DEF Turn
  <2>q. QED
    BY <1>0, <1>10, <2>1 DEF Lock, Recycle, Away
<1>11. CASE Stage(p)
  <2>1. CASE Goto(p, "rename") /\ UNCHANGED <<local, released>>
    BY <1>11, <2>1, DomainsOf DEF Stage, Goto, Staged, Turn
  <2>q. QED
    BY <1>0, <1>11, <2>1 DEF Stage, Abort, Drop, Away
<1>12. CASE RenameTarget(p)
  <2>1. CASE Look(p, "collided") /\ pub' = pub
    BY <2>1, LookWalks DEF Turn
  <2>2. CASE /\ ~Collides(p) /\ shards' = shards \cup {pub[p]}
             /\ offered' = offered \cup {claim[p]} /\ Goto(p, "accept") /\ UNCHANGED <<phase, pub>>
    BY <1>12, <2>2, DomainsOf DEF RenameTarget, Goto, queue, Offers, Shows, Turn
  <2>q. QED
    BY <1>12, <2>1, <2>2 DEF RenameTarget
<1>13. CASE Accept(p)
  <2>1. CASE Look(p, "accepted") /\ pub' = pub
    BY <1>13, <2>1, DomainsOf DEF Look, Goto, Settles, Turn
  <2>q. QED
    BY <1>0, <1>13, <2>1 DEF Accept, Abort, Recycle, Away
<1>14. CASE Mark(p)
  <2>1. CASE Goto(p, "proof") /\ UNCHANGED <<local, released>>
    BY <2>1, GoWalks DEF Turn, Turning, local
  <2>q. QED
    BY <1>0, <1>14, <2>1 DEF Mark, Abort, Away
<1>15. CASE Proof(p)
  <2>1. CASE Prunes(p) /\ Goto(p, "prune") /\ UNCHANGED <<local, released>>
    BY <1>15, <2>1, DomainsOf DEF Proof, Goto, Completes, Turn
  <2>q. QED
    BY <1>0, <1>15, <2>1 DEF Proof, Abort, Drop, Away
<1>16. CASE Prune(p)
  BY <1>0, <1>16 DEF Prune, Drop, Away
<1>17. CASE Crash(p)
  BY <1>17, DomainsOf DEF Crash, Goto, Forget, Walks, Turning, Turn
<1>18. CASE Respawn(p)
  BY <1>18, GoWalks DEF Respawn, local, Turn, Turning
<1>q. QED
  BY <1>1, <1>2, <1>3, <1>4, <1>5, <1>6, <1>7, <1>8, <1>9, <1>10, <1>11, <1>12, <1>13, <1>14,
     <1>15, <1>16, <1>17, <1>18 DEF LocalAct, Inventory, Publish, Turn

LEMMA LocalAwaited ==
  ASSUME IInv, ChainInv, Alive, NEW p \in Workers, LocalAct(p), deployment' = deployment
  PROVE  Awaited'
<1>1. task' = task /\ Kind(p)
  BY Kinds
<1>2. ASSUME NEW s, s.claim \in offered, Open(s)', Open(s) => \E q \in Workers : Publishing(q, s)
      PROVE  \E q \in Workers : Publishing(q, s)'
  <2>1. PICK q \in Workers : Publishing(q, s)
    BY <1>1, <1>2, OpenBefore DEF ChainInv
  <2>q. QED
    BY <1>2, <2>1, PublisherStays DEF ChainInv
<1>3. \A s \in shards : Open(s)' => \E q \in Workers : Publishing(q, s)'
  BY <1>2 DEF ChainInv, Awaited, IInv, ShardInv
<1>4. ASSUME NEW s \in shards', s \notin shards
      PROVE  \E q \in Workers : Publishing(q, s)'
  <2>1. Offers(p) /\ s = pub[p]
    BY <1>1, <1>4, LocalOffered
  <2>2. pc[p] = "rename" /\ pub[p].lineage = Lineage[p]
    BY <2>1 DEF Offers, ChainInv, Own
  <2>3. RenameTarget(p) /\ ~Collides(p)
    BY <2>1, <2>2 DEF Offers, LocalAct, Inventory, Publish, Collect, CollectFails, Recover, Adopt,
      List, JudgeVanished, JudgeCorrupt, JudgeFound, JudgeAbsent, ReadCurrent, Lease, Lock, Stage,
      Accept, Mark, Proof, Prune, Crash, Respawn, Alive
  <2>4. pc'[p] = "accept" /\ pub' = pub
    BY <2>3, DomainsOf DEF RenameTarget, Goto
  <2>q. QED
    BY <2>1, <2>2, <2>4 DEF Publishing, Lineage
<1>5. ASSUME NEW q \in Workers, pc'[q] = "adopt", NEW s, s = pub'[q], Open(s)'
      PROVE  \E r \in Workers : Publishing(r, s)'
  <2>1. CASE q # p
    <3>1. pc[q] = "adopt" /\ pub[q] = s
      BY <1>5, <2>1, OwnStep DEF LocalStep
    <3>2. s.claim \in offered
      BY <3>1, InHand DEF Working
    <3>q. QED
      BY <1>2, <1>5, <3>1, <3>2 DEF ChainInv, Awaited
  <2>2. CASE q = p
    <3>1. Adopts(p)
      BY <1>5, <2>2, Turns, DomainsOf
      DEF Turn, Walks, Turning, List, ReadCurrent, Goto, Staged, Shows, Settles, Completes
    <3>q. QED
      BY <1>3, <1>5, <2>2, <3>1 DEF Adopts
  <2>q. QED
    BY <2>1, <2>2
<1>6. \A s \in shards' : Open(s)' => \E q \in Workers : Publishing(q, s)'
  BY <1>3, <1>4
<1>7. ASSUME NEW q \in Workers, pc'[q] = "adopt", Open(pub[q])'
      PROVE  \E r \in Workers : Publishing(r, pub[q])'
  <2>1. \A s : s = pub'[q] /\ Open(s)' => \E r \in Workers : Publishing(r, s)'
    BY <1>5, <1>7
  <2>q. QED
    BY <1>7, <2>1
<1>q. QED
  BY <1>6, <1>7 DEF Awaited

--------------------------------------------------------------------------------
(* What a publisher knows of its lineage, which only it extends and prunes. *)

\* Process q keeps its part while nothing shown or won changes its lineage, but
\* for the publication it waits to have accepted.
LEMMA OwnStays ==
  ASSUME IInv, NEW q \in Workers, Own(q), Later, deployment' = deployment,
         pc'[q] = pc[q], phase'[q] = phase[q], pub'[q] = pub[q], view'[q] = view[q],
         claim'[q] = claim[q],
         \A s : s.lineage = Lineage[q] => (s \in shards' <=> s \in shards),
         \A t \in Tasks : accepted'[t] = accepted[t]
            \/ accepted'[t].lineage # Lineage[q]
            \/ (pc[q] = "accept" /\ accepted'[t] = pub[q])
  PROVE  Own(q)'
<1>1. Lineage' = Lineage
  BY DEF Lineage
<1>2. ASSUME pc[q] \in {"stage", "rename", "accept"}
      PROVE  /\ (\A s : s = pub[q] => Good(s)' /\ s.lineage = Lineage[q])
             /\ pc[q] \in {"stage", "rename"} => Unseen(q)'
             /\ pc[q] = "accept" => Seen(q)'
  <2> DEFINE s == pub[q]
  <2>1. Good(s) /\ s.lineage = Lineage[q]
    BY <1>2 DEF Own
  <2>2. \A x : x = s => Good(x)'
    BY <2>1, GoodStays
  <2>3. claim[q] \in 1 .. Len(task) /\ Mine(q) \in Tasks
    BY <1>2, AtWork DEF Working
  <2>4. Mine(q)' = Mine(q)
    BY <2>3 DEF Later, Mine
  <2>5. ASSUME NEW u \in Tasks, Won(u, Lineage[q])', accepted'[u] # accepted[u]
        PROVE  pc[q] = "accept" /\ accepted'[u] = s
    BY <1>1, <2>5 DEF Won
  <2>6. CASE pc[q] \in {"stage", "rename"}
    <3>1. \A u \in Tasks : Won(u, Lineage[q])' => Won(u, Lineage[q]) /\ accepted'[u] = accepted[u]
      BY <1>1, <2>5, <2>6 DEF Won
    <3>2. Unseen(q)
      BY <2>6 DEF Own
    <3>3. ~Won(Mine(q), s.lineage)'
      BY <1>1, <2>1, <2>3, <2>4, <3>1, <3>2 DEF Unseen, Won
    <3>4. \A r \in shards' : r.lineage = s.lineage => r.version < s.version
      BY <2>1, <3>2 DEF Unseen
    <3>5. \A u \in Tasks : Won(u, s.lineage)' => accepted'[u].version < s.version /\ Has(s, u)
      BY <1>1, <2>1, <3>1, <3>2 DEF Unseen, Won
    <3>q. QED
      BY <2>1, <2>2, <2>6, <3>3, <3>4, <3>5 DEF Unseen, Won, Has
  <2>7. CASE pc[q] = "accept"
    <3>1. Seen(q)
      BY <2>7 DEF Own
    <3>2. s \in shards' /\ \A r \in shards' : r.lineage = s.lineage => r = s \/ r.version < s.version
      BY <2>1, <3>1 DEF Seen
    <3>3. ASSUME NEW u \in Tasks, Won(u, s.lineage)'
          PROVE  accepted'[u] = s \/ (accepted'[u].version < s.version /\ Has(s, u))
      <4>1. CASE accepted'[u] = accepted[u]
        BY <3>1, <3>3, <4>1 DEF Seen, Won
      <4>2. CASE accepted'[u] # accepted[u]
        BY <1>1, <2>1, <2>5, <3>3, <4>2 DEF Won
      <4>q. QED
        BY <4>1, <4>2
    <3>q. QED
      BY <2>1, <2>2, <2>7, <3>2, <3>3 DEF Seen, Won, Has
  <2>q. QED
    BY <1>2, <2>1, <2>2, <2>6, <2>7
<1>3. pc'[q] \in {"stage", "rename", "accept"} => Good(pub[q])' /\ pub'[q].lineage = Lineage'[q]
  BY <1>1, <1>2
<1>4. pc'[q] = "judge" /\ phase'[q] = "current" => view'[q] = Ours(q)'
  BY <1>1 DEF Own, Ours
<1>5. pc'[q] = "prune" => /\ phase'[q] = "accepted"
                          /\ accepted'[Mine(q)'] # None /\ accepted'[Mine(q)'] = pub'[q]
  <2> SUFFICES ASSUME pc[q] = "prune"
               PROVE  /\ phase'[q] = "accepted"
                      /\ accepted'[Mine(q)'] # None /\ accepted'[Mine(q)'] = pub'[q]
    OBVIOUS
  <2>1. claim[q] \in 1 .. Len(task) /\ Mine(q) \in Tasks
    BY AtWork DEF Working
  <2>2. Mine(q)' = Mine(q)
    BY <2>1 DEF Later, Mine
  <2>q. QED
    BY <2>1, <2>2 DEF Later, Own
<1>q. QED
  BY <1>1, <1>2, <1>3, <1>4, <1>5 DEF Own

LEMMA OnlyOwner ==
  ASSUME IInv, Alive, NEW p \in Workers, NEW q \in Workers, Lineage[p] = Lineage[q]
  PROVE  p = q
BY FleetAssumption DEF IInv, QueueInv, Alive, Lineage, IsInjective

LEMMA BystanderOwns ==
  ASSUME IInv, ChainInv, Alive, NEW p \in Workers, LocalAct(p), deployment' = deployment,
         NEW q \in Workers, q # p
  PROVE  Own(q)'
<1>1. /\ pc'[q] = pc[q] /\ phase'[q] = phase[q] /\ pub'[q] = pub[q] /\ view'[q] = view[q]
      /\ claim'[q] = claim[q]
  BY DomainsOf, OwnStep DEF LocalStep
<1>2. Kind(p) /\ Later
  BY Kinds, LocalLater
<1>3. Own(p) /\ Own(q) /\ Lineage[p] # Lineage[q]
  BY OnlyOwner DEF ChainInv
<1>4. \A s : s.lineage = Lineage[q] => (s \in shards' <=> s \in shards)
  <2>1. CASE Offers(p)
    BY <1>3, <2>1 DEF Offers, Own
  <2>2. CASE ~Offers(p)
    BY <1>2, <1>3, <2>2 DEF Kind, Granted, Accepts, Marks, Calm, Stale
  <2>q. QED
    BY <2>1, <2>2
<1>5. \A t \in Tasks : accepted'[t] = accepted[t]
            \/ accepted'[t].lineage # Lineage[q]
            \/ (pc[q] = "accept" /\ accepted'[t] = pub[q])
  <2>1. CASE Accepts(p)
    <3>1. PICK r \in Workers : Publishing(r, pub[p])
      BY <1>3, <2>1, AcceptedForIts DEF ChainInv
    <3>2. r = q => pc[q] = "accept" /\ pub[p] = pub[q]
      BY <3>1 DEF Publishing
    <3>3. r # q => pub[p].lineage # Lineage[q]
      BY <3>1, OnlyOwner DEF Publishing
    <3>4. \A t \in Tasks : accepted'[t] = accepted[t] \/ accepted'[t] = pub[p]
      BY <2>1 DEF Accepts, IInv, DoneInv
    <3>q. QED
      BY <3>2, <3>3, <3>4
  <2>2. CASE accepted' = accepted
    BY <2>2
  <2>q. QED
    BY <1>2, <2>1, <2>2 DEF Kind, Granted, Offers, Marks, Calm
<1>q. QED
  BY <1>1, <1>2, <1>3, <1>4, <1>5, OwnStays

--------------------------------------------------------------------------------
(* The successor of a lineage's current version.                           *)

LEMMA SubSeqOfAppend ==
  ASSUME NEW S, NEW s \in Seq(S), NEW e \in S, NEW i \in 1 .. Len(s)
  PROVE  SubSeq(Append(s, e), 1, i) = SubSeq(s, 1, i)
<1>1. /\ Append(s, e) \in Seq(S) /\ Len(Append(s, e)) = Len(s) + 1 /\ Len(s) \in Nat
      /\ \A j \in 1 .. Len(s) : Append(s, e)[j] = s[j]
  BY AppendProperties, LenProperties
<1>2. i \in Int /\ 1 <= i /\ \A j \in 1 .. i : j \in 1 .. Len(s)
  BY <1>1
<1>3. \A j \in 1 .. i : s[j] \in S /\ Append(s, e)[j] = s[j]
  BY <1>1, <1>2, ElementOfSeq
<1>4. /\ SubSeq(s, 1, i) \in Seq(S) /\ Len(SubSeq(s, 1, i)) = i - 1 + 1
      /\ \A j \in 1 .. i - 1 + 1 : SubSeq(s, 1, i)[j] = s[1 + j - 1]
  BY <1>2, <1>3, SubSeqProperties
<1>5. /\ SubSeq(Append(s, e), 1, i) \in Seq(S) /\ Len(SubSeq(Append(s, e), 1, i)) = i - 1 + 1
      /\ \A j \in 1 .. i - 1 + 1 : SubSeq(Append(s, e), 1, i)[j] = Append(s, e)[1 + j - 1]
  BY <1>2, <1>3, SubSeqProperties
<1>6. \A j \in 1 .. i - 1 + 1 : j \in 1 .. i /\ 1 + j - 1 = j
  BY <1>2
<1>7. \A j \in 1 .. i - 1 + 1 : SubSeq(Append(s, e), 1, i)[j] = SubSeq(s, 1, i)[j]
  BY <1>3, <1>4, <1>5, <1>6
<1>q. QED
  BY <1>4, <1>5, <1>7, SeqEqual

\* What the read of the current version has, in hand of the only publisher.
LEMMA CurrentIsNewest ==
  ASSUME IInv, ChainInv, NEW p \in Workers, ReadCurrent(p), NEW l, l = Lineage[p]
  PROVE  \/ Read(p) = {} /\ \A u \in Tasks : ~Won(u, l)
         \/ \E c \in shards :
              /\ Read(p) # {} /\ c = CHOOSE s \in Read(p) : TRUE
              /\ c.lineage = l /\ c \in view[p] /\ Good(c)
              /\ accepted[c.tasks[Len(c.tasks)]] = c /\ ~Has(c, Mine(p))
              /\ \A u \in Tasks : Won(u, l) => accepted[u].version <= c.version /\ Has(c, u)
<1>1. /\ pc[p] = "judge" /\ phase[p] = "current" /\ Clean(p) /\ Hits(p) = {}
      /\ view[p] = {s \in shards : s.lineage = l}
  BY DEF ReadCurrent, ChainInv, Own, Ours
<1>2. ASSUME NEW t \in Tasks, Won(t, l)
      PROVE  \E m \in Read(p) :
               \A u \in Tasks : Won(u, l) => accepted[u].version <= m.version /\ Has(m, u)
  BY <1>1, <1>2, NewestIsSelected DEF Read, ChainInv
<1>3. CASE Read(p) = {}
  BY <1>2, <1>3
<1>4. CASE Read(p) # {}
  <2>1. PICK c \in Read(p) : c = CHOOSE s \in Read(p) : TRUE
    BY <1>4
  <2>2. c \in view[p] /\ c \in shards /\ Evidence(c) = "ok" /\ c.lineage = l
    BY <1>1, ReadIsTyped DEF Clean
  <2>3. Good(c) /\ ~Has(c, Mine(p))
    BY <1>1, <2>2 DEF Hits, ChainInv, Visible
  <2>4. accepted[c.tasks[Len(c.tasks)]] = c
    BY <2>2, <2>3, GoodFacts, EvidenceShows
  <2>5. PICK t \in Tasks : accepted[t] = c /\ Won(t, l)
    BY <2>2, <2>3, <2>4, GoodFacts DEF Won
  <2>6. PICK m \in Read(p) :
          \A u \in Tasks : Won(u, l) => accepted[u].version <= m.version /\ Has(m, u)
    BY <1>2, <2>5
  <2>7. m \in view[p] /\ m.lineage = l /\ m.version <= c.version
    BY <1>1, <2>2, <2>6, ReadIsTyped DEF Read, Stops
  <2>8. ASSUME NEW u \in Tasks, Won(u, l)
        PROVE  accepted[u].version <= c.version /\ Has(c, u)
    <3>1. accepted[u].version \in Nat /\ c.version \in Nat /\ m.version \in Nat
      BY <2>3, <2>6, <2>8, GoodFacts, ReadIsTyped DEF ChainInv, Chain, Won, Versions
    <3>2. accepted[u].version <= c.version
      BY <2>6, <2>7, <2>8, <3>1
    <3>3. Has(c, u)
      BY <2>2, <2>5, <2>8, <3>2 DEF ChainInv, Chain, Won
    <3>q. QED
      BY <3>2, <3>3
  <2>q. QED
    BY <1>4, <2>1, <2>2, <2>3, <2>4, <2>8
<1>q. QED
  BY <1>3, <1>4

LEMMA SuccessorIsNewest ==
  ASSUME IInv, ChainInv, NEW p \in Workers, ReadCurrent(p), Later, deployment' = deployment,
         UNCHANGED <<accepted, shards, task, claim>>, pc'[p] = "stage", phase'[p] = "current",
         pub'[p] = Successor(p)
  PROVE  Own(p)'
<1> DEFINE l == Lineage[p]
           t0 == Mine(p)
           s == Successor(p)
<1>1. /\ pc[p] = "judge" /\ view[p] = {r \in shards : r.lineage = l}
      /\ claim[p] \in 1 .. Len(task) /\ t0 \in Tasks /\ t0 = task[claim[p]]
  BY AtWork DEF ReadCurrent, ChainInv, Own, Ours, Working
<1>2. /\ s \in Versions /\ s.claim = claim[p] /\ s.lineage = l
      /\ s.version = Top(view[p]) + 1
  BY <1>1, SuccessorIsVersion DEF Working, Successor
<1>3. Top(view[p]) \in Nat /\ \A r \in view[p] : r.version <= Top(view[p])
  BY TopBounds
<1>4. \A r \in shards : r.version \in Nat
  BY DEF IInv, ShardInv, Versions
<1>5. \A r \in shards : r.lineage = l => r.version < s.version
  BY <1>1, <1>2, <1>3, <1>4
<1>6. /\ Len(s.tasks) # 0 /\ s.tasks[Len(s.tasks)] = t0 /\ Chained(s)
      /\ ~Won(t0, l)
      /\ \A u \in Tasks : Won(u, l) => accepted[u].version < s.version /\ Has(s, u)
  <2>1. CASE Read(p) = {}
    <3>1. \A u \in Tasks : ~Won(u, l)
      BY <2>1, CurrentIsNewest
    <3>2. s.tasks = <<t0>>
      BY <2>1 DEF Successor
    <3>3. Len(<<t0>>) = 1 /\ <<t0>>[1] = t0
      OBVIOUS
    <3>4. 1 .. Len(s.tasks) - 1 = {}
      BY <3>2, <3>3
    <3>q. QED
      BY <1>1, <3>1, <3>2, <3>3, <3>4 DEF Chained
  <2>2. CASE Read(p) # {}
    <3>1. PICK c \in shards :
            /\ c = CHOOSE r \in Read(p) : TRUE
            /\ c.lineage = l /\ c \in view[p] /\ Good(c)
            /\ accepted[c.tasks[Len(c.tasks)]] = c /\ ~Has(c, t0)
            /\ \A u \in Tasks : Won(u, l) => accepted[u].version <= c.version /\ Has(c, u)
      BY <2>2, CurrentIsNewest
    <3> DEFINE n == Len(c.tasks)
    <3>2. /\ c.tasks \in Seq(Tasks) /\ n \in Nat /\ n # 0 /\ c # None /\ c.version \in Nat
          /\ DOMAIN c.tasks = 1 .. n
      BY <3>1, GoodFacts
    <3>3. s.tasks = Append(c.tasks, t0)
      BY <2>2, <3>1 DEF Successor
    <3>4. /\ Len(s.tasks) = n + 1 /\ s.tasks[n + 1] = t0
          /\ \A i \in 1 .. n : s.tasks[i] = c.tasks[i]
      BY <1>1, <3>2, <3>3, AppendProperties
    <3>5. c.version < s.version
      BY <1>5, <3>1
    <3>6. ASSUME NEW i \in 1 .. Len(s.tasks) - 1
          PROVE  /\ Won(s.tasks[i], s.lineage)
                 /\ accepted[s.tasks[i]].version <= s.version
                 /\ accepted[s.tasks[i]].tasks = SubSeq(s.tasks, 1, i)
      <4> DEFINE a == accepted[c.tasks[i]]
      <4>1. i \in 1 .. n /\ s.tasks[i] = c.tasks[i] /\ c.tasks[i] \in Tasks
        BY <3>2, <3>4, ElementOfSeq
      <4>2. SubSeq(s.tasks, 1, i) = SubSeq(c.tasks, 1, i)
        BY <1>1, <3>2, <3>3, <4>1, SubSeqOfAppend
      <4>3. Won(c.tasks[i], l) /\ a.tasks = SubSeq(c.tasks, 1, i)
        <5>1. CASE i = n
          BY <3>1, <3>2, <5>1, SubSeqFull DEF Won
        <5>2. CASE i # n
          <6>1. i \in 1 .. n - 1
            BY <3>2, <4>1, <5>2
          <6>q. QED
            BY <3>1, <6>1 DEF Good, Chained, Won
        <5>q. QED
          BY <5>1, <5>2
      <4>4. a.version <= c.version /\ a.version \in Nat
        BY <3>1, <4>1, <4>3, GoodFacts DEF ChainInv, Chain, Won
      <4>5. a.version <= s.version
        BY <1>2, <1>3, <3>2, <3>5, <4>4
      <4>q. QED
        BY <1>2, <4>1, <4>2, <4>3, <4>5
    <3>7. ASSUME NEW u \in Tasks, Won(u, l)
          PROVE  accepted[u].version < s.version /\ Has(s, u)
      <4>1. accepted[u].version <= c.version /\ Has(c, u) /\ accepted[u].version \in Nat
        BY <3>1, <3>7, GoodFacts DEF ChainInv, Chain, Won
      <4>2. accepted[u].version < s.version
        BY <1>2, <1>3, <3>2, <3>5, <4>1
      <4>3. Has(s, u)
        BY <1>1, <3>2, <3>3, <4>1, RangeOfAppend DEF Has
      <4>q. QED
        BY <4>2, <4>3
    <3>8. ~Won(t0, l)
      BY <1>1, <3>1
    <3>9. Len(s.tasks) # 0 /\ s.tasks[Len(s.tasks)] = t0
      BY <3>2, <3>4
    <3>q. QED
      BY <3>6, <3>7, <3>8, <3>9 DEF Chained
  <2>q. QED
    BY <2>1, <2>2
<1>7. Good(s)
  BY <1>1, <1>2, <1>6 DEF Good
<1>8. \A x : x = pub'[p] => Good(x)'
  BY <1>7, GoodStays
<1>9. Mine(p)' = t0 /\ Lineage' = Lineage
  BY DEF Mine, Lineage
<1>10. Unseen(p)'
  BY <1>2, <1>5, <1>6, <1>9 DEF Unseen, Won, Has
<1>q. QED
  BY <1>2, <1>8, <1>9, <1>10 DEF Own

LEMMA WalkOwns ==
  ASSUME NEW p \in Workers, Own(p), Walks(p), deployment' = deployment
  PROVE  Own(p)'
BY DEF Own, Walks, Turning, Lineage

LEMMA PublisherOwns ==
  ASSUME IInv, ChainInv, NEW p \in Workers, LocalAct(p), deployment' = deployment
  PROVE  Own(p)'
<1>1. task' = task /\ Kind(p) /\ Later /\ Own(p) /\ Lineage' = Lineage
  BY Kinds, LocalLater DEF ChainInv, Lineage
<1>2. CASE Walks(p)
  BY <1>1, <1>2, WalkOwns
<1>3. CASE Adopts(p)
  BY <1>3 DEF Adopts, Own
<1>4. CASE List(p)
  <2>1. pc'[p] = "judge" /\ view'[p] = Listing(p) /\ UNCHANGED <<phase, pub, shards>>
    BY <1>4, DomainsOf DEF List, Goto, cache
  <2>2. phase[p] = "current" => Listing(p) = Ours(p)
    BY DEF Listing, Ours
  <2>q. QED
    BY <1>1, <2>1, <2>2 DEF Own, Ours
<1>5. CASE ReadCurrent(p)
  <2>1. /\ UNCHANGED <<accepted, shards, task, claim, phase>> /\ phase[p] = "current"
        /\ pc'[p] = "stage" /\ pub'[p] = Successor(p)
    BY <1>5, DomainsOf DEF ReadCurrent, Goto, queue, cache
  <2>q. QED
    BY <1>1, <1>5, <2>1, SuccessorIsNewest
<1>6. CASE Staged(p)
  <2>1. pc[p] = "stage" /\ pc'[p] = "rename" /\ UNCHANGED <<phase, claim, pub, accepted, shards>>
    BY <1>6 DEF Staged, local
  <2>2. \A x : x = pub[p] => Good(x)'
    BY <1>1, <2>1, GoodStays DEF Own
  <2>3. Unseen(p)'
    BY <1>1, <2>1 DEF Own, Unseen, Won, Has, Mine
  <2>q. QED
    BY <1>1, <2>1, <2>2, <2>3 DEF Own
<1>7. CASE Shows(p)
  <2>1. /\ pc[p] = "rename" /\ pc'[p] = "accept" /\ UNCHANGED <<phase, pub, accepted>>
        /\ shards' = shards \cup {pub[p]}
    BY <1>7 DEF Shows, Offers
  <2>2. \A x : x = pub[p] => Good(x)'
    BY <1>1, <2>1, GoodStays DEF Own
  <2>3. Seen(p)'
    BY <1>1, <2>1 DEF Own, Unseen, Seen, Won, Has
  <2>q. QED
    BY <1>1, <2>1, <2>2, <2>3 DEF Own
<1>8. CASE Settles(p)
  BY <1>1, <1>8 DEF Settles, Accept, Own
<1>9. CASE Completes(p)
  <2>1. /\ pc[p] = "proof" /\ pc'[p] = "prune" /\ UNCHANGED <<phase, claim, pub, accepted>>
        /\ phase[p] = "accepted" /\ accepted[Mine(p)] = pub[p]
    BY <1>9 DEF Completes, Prunes, local
  <2>2. accepted[Mine(p)] # None
    BY <2>1 DEF IInv, ProcInv, ProcOk, Mine
  <2>q. QED
    BY <1>1, <2>1, <2>2 DEF Own, Mine
<1>q. QED
  BY <1>2, <1>3, <1>4, <1>5, <1>6, <1>7, <1>8, <1>9, Turns DEF Turn

--------------------------------------------------------------------------------
(* The chain is kept, so what was acknowledged is input.                    *)

LEMMA LocalKeepsChain ==
  ASSUME IInv, ChainInv, Alive, NEW p \in Workers, LocalAct(p), deployment' = deployment
  PROVE  ChainInv'
<1>1. task' = task /\ Kind(p) /\ Later /\ Own(p)
  BY Kinds, LocalLater DEF ChainInv
<1>2. Chain'
  <2>1. CASE Accepts(p)
    BY <1>1, <2>1, AcceptExtendsChain
  <2>2. CASE pc[p] = "prune" /\ shards' = shards \ Stale(p) /\ accepted' = accepted
    BY <1>1, <2>2, ChainSurvivesPrune DEF ChainInv
  <2>3. CASE accepted' = accepted /\ shards \subseteq shards'
    BY <1>1, <2>3, ChainStays DEF ChainInv
  <2>q. QED
    BY <1>1, <2>1, <2>2, <2>3 DEF Kind, Granted, Offers, Marks, Calm
<1>3. Visible' /\ Awaited'
  BY <1>1, LocalVisible, LocalAwaited
<1>4. (\A q \in Workers : Own(q))'
  BY BystanderOwns, PublisherOwns
<1>q. QED
  BY <1>2, <1>3, <1>4 DEF ChainInv

\* Steps that touch nothing of the cache, and nothing of a process at work.
LEMMA QuietKeepsChain ==
  ASSUME IInv, ChainInv, Later, deployment' = deployment,
         UNCHANGED <<guard, accepted, shards, offered, phase, pub, view>>,
         \A q \in Workers : \/ pc'[q] = pc[q] /\ claim'[q] = claim[q]
                            \/ pc'[q] = "recover" /\ pc[q] = "idle"
  PROVE  ChainInv'
<1>1. Chain'
  BY ChainStays DEF ChainInv
<1>2. Visible'
  BY VisibleStays DEF ChainInv
<1>3. \A s : s.claim \in offered => (Open(s)' <=> Open(s))
  <2>1. \A c \in offered : c \in 1 .. Len(task)
    BY DEF IInv, GuardInv
  <2>q. QED
    BY <2>1 DEF Open, Holder, Later
<1>4. \A q \in Workers : \A s : Publishing(q, s) => Publishing(q, s)'
  BY DEF Publishing, Lineage
<1>5. Awaited'
  <2>1. \A s \in shards' : Open(s)' => \E q \in Workers : Publishing(q, s)'
    BY <1>3, <1>4 DEF ChainInv, Awaited, IInv, ShardInv
  <2>2. ASSUME NEW q \in Workers, pc'[q] = "adopt", NEW s, s = pub[q], Open(s)'
        PROVE  \E r \in Workers : Publishing(r, s)'
    <3>1. pc[q] = "adopt"
      BY <2>2
    <3>2. s.claim \in offered
      BY <2>2, <3>1, InHand DEF Working
    <3>q. QED
      BY <1>3, <1>4, <2>2, <3>1, <3>2 DEF ChainInv, Awaited
  <2>3. ASSUME NEW q \in Workers, pc'[q] = "adopt", Open(pub[q])'
        PROVE  \E r \in Workers : Publishing(r, pub[q])'
    <3>1. \A s : s = pub[q] /\ Open(s)' => \E r \in Workers : Publishing(r, s)'
      BY <2>2, <2>3
    <3>2. pub' = pub
      OBVIOUS
    <3>q. QED
      BY <2>3, <3>1, <3>2
  <2>q. QED
    BY <2>1, <2>3 DEF Awaited
<1>6. ASSUME NEW q \in Workers PROVE Own(q)'
  <2>1. CASE pc'[q] = pc[q] /\ claim'[q] = claim[q]
    BY <2>1, OwnStays DEF ChainInv
  <2>2. CASE pc'[q] = "recover" /\ pc[q] = "idle"
    <3>1. phase'[q] # "accepted"
      BY <2>2 DEF IInv, ProcInv, ProcOk, Working
    <3>q. QED
      BY <2>2, <3>1 DEF Own
  <2>q. QED
    BY <2>1, <2>2
<1>q. QED
  BY <1>1, <1>2, <1>5, <1>6 DEF ChainInv

AliveInv == Alive => ChainInv

LEMMA StepKeepsChain == IInv /\ AliveInv /\ [NextInDeployment]_vars => AliveInv'
<1> SUFFICES ASSUME IInv, AliveInv, [NextInDeployment]_vars, Alive' PROVE ChainInv'
  BY DEF AliveInv
<1>1. deployment' = deployment
  BY DEF NextInDeployment, vars
<1>2. Alive /\ ChainInv
  BY <1>1 DEF Alive, AliveInv, Crashers, Lineage
<1>3. task \in Seq(Tasks) /\ Len(task) \in Nat
  BY LenProperties DEF IInv, QueueInv
<1>4. CASE UNCHANGED vars
  <2>1. Later
    BY <1>3, <1>4 DEF Later, vars, queue, cache
  <2>q. QED
    BY <1>1, <1>2, <1>4, <2>1, QuietKeepsChain DEF vars, queue, cache, local
<1>5. CASE \E p \in Workers : LocalAct(p)
  BY <1>1, <1>2, <1>5, LocalKeepsChain
<1>6. CASE \E p \in Workers : \E t \in Tasks : Claim(p, t)
  <2>1. PICK p \in Workers, t \in Tasks : Claim(p, t)
    BY <1>6
  <2>2. task' = Append(task, t) /\ accepted' = accepted
    BY <2>1 DEF Claim, cache
  <2>3. Later
    BY <1>3, <2>2, AppendProperties DEF Later
  <2>4. \A q \in Workers : \/ pc'[q] = pc[q] /\ claim'[q] = claim[q]
                           \/ pc'[q] = "recover" /\ pc[q] = "idle"
    BY <2>1, DomainsOf DEF Claim, Goto
  <2>5. UNCHANGED <<guard, accepted, shards, offered, phase, pub, view>>
    BY <2>1 DEF Claim, cache
  <2>q. QED
    BY <1>1, <1>2, <2>3, <2>4, <2>5, QuietKeepsChain
<1>7. CASE \E c \in ClaimIds : Reap(c)
  <2>1. UNCHANGED <<task, guard, accepted, shards, offered, pc, claim, phase, pub, view>>
    BY <1>7 DEF Reap, cache, local
  <2>2. Later
    BY <1>3, <2>1 DEF Later
  <2>q. QED
    BY <1>1, <1>2, <2>1, <2>2, QuietKeepsChain
<1>q. QED
  BY <1>4, <1>5, <1>6, <1>7 DEF NextInDeployment, Next, LocalAct

\* In a fleet whose workers have ids of their own and do not die, every accepted
\* task is input from its acceptance on, so every acknowledged one is: requeued
\* claims, transient recycling, collisions, stale listings and pruning included.
THEOREM DoneIsInputAliveHolds == Spec => []DoneIsInputAlive
<1>1. Init => AliveInv
  BY DEF Init, AliveInv, ChainInv, Chain, Visible, Awaited, Own
<1>2. IInv /\ AliveInv => DoneIsInputAlive
  BY WonIsInput DEF AliveInv, ChainInv, Alive, IInv, DoneInv, DoneIsInputAlive, DoneIsInput
<1>3. Spec => []AliveInv
  BY <1>1, StepKeepsChain, Invariance, PTL DEF Spec
<1>q. QED
  BY <1>2, <1>3, Invariance, PTL

--------------------------------------------------------------------------------
(* Types.  That a version number stays within the claims rests on counting: *)
(* a lineage never shows a version beyond the number of offers made, and    *)
(* who prepares the next one has not offered its claim yet.                 *)

Phases == {"recover", "publish", "leased", "current", "collided", "accepted"}
Places == Working \cup Away

\* f becomes g: nothing, or its value at p becomes a member of S.
Sets(f, g, p, S) == g = f \/ \E x \in S : g = [f EXCEPT ![p] = x]

LEMMA SetsKeeps ==
  ASSUME NEW D, NEW T, NEW f \in [D -> T], NEW g, NEW p, NEW S, Sets(f, g, p, S),
         p \in D => S \subseteq T
  PROVE  g \in [D -> T]
<1>1. CASE g = f
  BY <1>1
<1>2. ASSUME NEW x \in S, g = [f EXCEPT ![p] = x] PROVE g \in [D -> T]
  <2>1. CASE p \in D
    BY <1>2, <2>1
  <2>2. CASE p \notin D
    BY <1>2, <2>2
  <2>q. QED
    BY <2>1, <2>2
<1>q. QED
  BY <1>1, <1>2 DEF Sets

\* What a step of a process changes of its own.
Moves(p) ==
  /\ Sets(pc, pc', p, Places) /\ Sets(phase, phase', p, Phases)
  /\ Sets(scans, scans', p, 0 .. ScanAttempts - 1)
  /\ Sets(view, view', p, SUBSET (view[p] \cup shards))
  /\ Sets(pub, pub', p, shards \cup {None}) \/ ReadCurrent(p)
  /\ Sets(sel, sel', p, view[p] \cup {None})
  /\ released' = released \/ released' = Released(p)

LEMMA LeaveMoves == ASSUME NEW p, NEW l \in Away, Leave(p, l) PROVE Moves(p)
<1>1. 0 \in 0 .. ScanAttempts - 1
  BY FleetAssumption
<1>q. QED
  BY <1>1 DEF Leave, Goto, Forget, Moves, Sets, Places, Phases

LEMMA LookMoves ==
  ASSUME NEW p, NEW w \in Phases, Look(p, w), UNCHANGED <<pub, sel, released>> PROVE Moves(p)
<1>1. 0 \in 0 .. ScanAttempts - 1
  BY FleetAssumption
<1>q. QED
  BY <1>1 DEF Look, Goto, Moves, Sets, Places, Phases, Working

LEMMA GoMoves ==
  ASSUME NEW p, NEW l \in Working, Goto(p, l), UNCHANGED <<local, released>> PROVE Moves(p)
BY DEF Goto, local, Moves, Sets, Places

LEMMA LocalMoves ==
  ASSUME IInv, NEW p \in Workers, LocalAct(p), phase[p] \in Phases,
         scans[p] \in 0 .. ScanAttempts - 1
  PROVE  Moves(p)
<1>0. \A l \in Away : Leave(p, l) => Moves(p)
  BY LeaveMoves
<1>1. CASE Collect(p)
  <2>1. CASE Drop(p)
    BY <1>0, <2>1 DEF Drop, Away
  <2>2. CASE /\ Goto(p, "recover") /\ phase' = [phase EXCEPT ![p] = "publish"]
             /\ UNCHANGED <<view, scans, pub, sel, released>>
    BY <2>2 DEF Goto, Moves, Sets, Places, Phases, Working
  <2>q. QED
    BY <1>1, <2>1, <2>2 DEF Collect
<1>2. CASE CollectFails(p)
  BY <1>0, <1>2 DEF CollectFails, Drop, Away
<1>3. CASE Recover(p)
  <2>1. CASE Terminal(p) \/ Recycle(p)
    BY <1>0, <2>1 DEF Terminal, Recycle, Away
  <2>2. CASE Look(p, phase[p]) /\ UNCHANGED <<pub, sel, released>>
    BY <2>2, LookMoves
  <2>3. ASSUME NEW s \in Pending(p), pub' = [pub EXCEPT ![p] = s], Goto(p, "adopt"),
               UNCHANGED <<phase, view, scans, sel, released>>
        PROVE  Moves(p)
    <3>1. s \in shards
      BY DEF Pending
    <3>q. QED
      BY <2>3, <3>1 DEF Goto, Moves, Sets, Places, Working
  <2>q. QED
    BY <1>3, <2>1, <2>2, <2>3 DEF Recover
<1>4. CASE Adopt(p)
  BY <1>0, <1>4, LookMoves DEF Adopt, Recycle, Abort, Away
<1>5. CASE List(p)
  <2>1. Listing(p) \subseteq shards
    BY DEF Listing
  <2>2. /\ view' = [view EXCEPT ![p] = Listing(p)] /\ Goto(p, "judge")
        /\ UNCHANGED <<phase, scans, pub, sel, released>>
    BY <1>5 DEF List, cache
  <2>q. QED
    BY <2>1, <2>2 DEF Goto, Moves, Sets, Places, Working
<1>6. CASE JudgeVanished(p)
  <2>1. CASE Recycle(p)
    BY <1>0, <2>1 DEF Recycle, Away
  <2>2. CASE /\ scans[p] + 1 < ScanAttempts /\ scans' = [scans EXCEPT ![p] = @ + 1]
             /\ view' = [view EXCEPT ![p] = {}] /\ Goto(p, "list")
             /\ UNCHANGED <<phase, pub, sel, released>>
    <3>1. scans[p] + 1 \in 0 .. ScanAttempts - 1
      BY <2>2, FleetAssumption
    <3>q. QED
      BY <2>2, <3>1 DEF Goto, Moves, Sets, Places, Working
  <2>q. QED
    BY <1>6, <2>1, <2>2 DEF JudgeVanished
<1>7. CASE JudgeCorrupt(p)
  BY <1>0, <1>7 DEF JudgeCorrupt, Terminal, Away
<1>8. CASE JudgeFound(p)
  <2>1. PICK s \in Hits(p) : sel' = [sel EXCEPT ![p] = s]
    BY <1>8 DEF JudgeFound
  <2>2. s \in view[p]
    BY ReadIsTyped DEF Hits
  <2>3. /\ view' = [view EXCEPT ![p] = {}] /\ Goto(p, "mark")
        /\ UNCHANGED <<phase, scans, pub, released>>
    BY <1>8 DEF JudgeFound, cache
  <2>q. QED
    BY <2>1, <2>2, <2>3 DEF Goto, Moves, Sets, Places, Working
<1>9. CASE JudgeAbsent(p)
  <2>1. CASE \E l \in Away : Leave(p, l)
    BY <1>0, <2>1
  <2>2. ASSUME NEW l \in {"collect", "lease", "lock"}, Goto(p, l),
               view' = [view EXCEPT ![p] = {}], UNCHANGED <<phase, scans, pub, sel, released>>
        PROVE  Moves(p)
    BY <2>2 DEF Goto, Moves, Sets, Places, Working
  <2>q. QED
    BY <1>9, <2>1, <2>2 DEF JudgeAbsent, Drop, Terminal, Recycle, Away
<1>10. CASE ReadCurrent(p)
  <2>1. /\ view' = [view EXCEPT ![p] = {}] /\ Goto(p, "stage")
        /\ UNCHANGED <<phase, scans, released>>
        /\ sel' = [sel EXCEPT ![p] = IF Read(p) = {} THEN None ELSE CHOOSE s \in Read(p) : TRUE]
    BY <1>10 DEF ReadCurrent, cache
  <2>2. (IF Read(p) = {} THEN None ELSE CHOOSE s \in Read(p) : TRUE) \in view[p] \cup {None}
    BY ReadIsTyped
  <2>q. QED
    BY <1>10, <2>1, <2>2 DEF Goto, Moves, Sets, Places, Working
<1>11. CASE Lease(p)
  BY <1>0, <1>11, LookMoves DEF Lease, Recycle, Away, Phases
<1>12. CASE Lock(p)
  BY <1>0, <1>12, LookMoves DEF Lock, Recycle, Away, Phases
<1>13. CASE Stage(p)
  BY <1>0, <1>13, GoMoves DEF Stage, Abort, Drop, Away, Working
<1>14. CASE RenameTarget(p)
  <2>1. CASE Look(p, "collided")
    BY <1>14, <2>1, LookMoves DEF RenameTarget, Phases
  <2>2. CASE Goto(p, "accept") /\ UNCHANGED <<phase, view, scans>>
    BY <1>14, <2>2 DEF RenameTarget, Goto, Moves, Sets, Places, Working
  <2>q. QED
    BY <1>14, <2>1, <2>2 DEF RenameTarget
<1>15. CASE Accept(p)
  BY <1>0, <1>15, LookMoves DEF Accept, Recycle, Abort, Away, Phases
<1>16. CASE Mark(p)
  BY <1>0, <1>16, GoMoves DEF Mark, Abort, Away, Working
<1>17. CASE Proof(p)
  BY <1>0, <1>17, GoMoves DEF Proof, Abort, Drop, Away, Working
<1>18. CASE Prune(p)
  BY <1>0, <1>18 DEF Prune, Drop, Away
<1>19. CASE Crash(p)
  <2>1. Goto(p, "down") /\ Forget(p) /\ released' = released /\ 0 \in 0 .. ScanAttempts - 1
    BY <1>19, FleetAssumption DEF Crash, cache
  <2>q. QED
    BY <2>1 DEF Goto, Forget, Moves, Sets, Places, Phases, Away
<1>20. CASE Respawn(p)
  BY <1>20 DEF Respawn, Goto, local, cache, Moves, Sets, Places, Away
<1>q. QED
  BY <1>1, <1>2, <1>3, <1>4, <1>5, <1>6, <1>7, <1>8, <1>9, <1>10, <1>11, <1>12, <1>13, <1>14,
     <1>15, <1>16, <1>17, <1>18, <1>19, <1>20 DEF LocalAct, Inventory, Publish

\* And of what it shares.
Shares(p) ==
  /\ Sets(done, done', Mine(p), {0, claim[p]}) /\ Sets(lock, lock', Lineage[p], {claim[p]})
  /\ failed' \subseteq failed \cup {Mine(p)} /\ (failed' = failed \/ pc[p] \in Working)

LEMMA LocalShares == ASSUME NEW p, LocalAct(p) PROVE Shares(p)
<1>1. CASE CollectFails(p)
  BY <1>1 DEF CollectFails, Shares, Sets, Working
<1>2. CASE Lock(p)
  BY <1>2 DEF Lock, queue, Shares, Sets
<1>3. CASE Mark(p)
  BY <1>3 DEF Mark, Shares, Sets
<1>4. CASE Proof(p)
  BY <1>4 DEF Proof, Undone, Shares, Sets
<1>5. CASE /\ LocalAct(p)
           /\ ~(CollectFails(p) \/ Lock(p) \/ Mark(p) \/ Proof(p))
  <2>1. UNCHANGED <<done, lock, failed>>
    BY <1>5
    DEF LocalAct, Inventory, Publish, Collect, Recover, Adopt, List, JudgeVanished, JudgeCorrupt,
        JudgeFound, JudgeAbsent, ReadCurrent, Lease, Stage, RenameTarget, Accept, Prune, Crash,
        Respawn, queue, cache
  <2>q. QED
    BY <2>1 DEF Shares, Sets
<1>q. QED
  BY <1>1, <1>2, <1>3, <1>4, <1>5

\* On the way to an offer, a process has not made it.
Heading(l, ph) ==
  l \in {"lock", "stage", "rename"} \/ (l \in {"list", "judge"} /\ ph \in {"leased", "current"})
Heads(p) == Heading(pc[p], phase[p])

\* How it gets, or stays, on its way.
StaysOnTheWay(p) ==
  Heads(p)' => /\ claim' = claim /\ offered' = offered /\ (Heads(p) \/ Granted(p))
               /\ pc'[p] \in {"stage", "rename"} =>
                    ReadCurrent(p) \/ (pc[p] = "stage" /\ pub' = pub)

LEMMA LeaveHeads == ASSUME IInv, NEW p \in Workers, NEW l \in Away, Leave(p, l) PROVE ~Heads(p)'
BY DomainsOf DEF Leave, Goto, Heads, Heading, Away

LEMMA LookHeads ==
  ASSUME IInv, NEW p \in Workers, NEW w, Look(p, w), w \notin {"leased", "current"}
  PROVE  ~Heads(p)'
BY DomainsOf DEF Look, Goto, Heads, Heading

LEMMA GoHeads ==
  ASSUME IInv, NEW p \in Workers, NEW l \in {"adopt", "collect", "lease", "recover", "accept",
                                             "mark", "proof", "prune", "down", "idle"},
         Goto(p, l)
  PROVE  ~Heads(p)'
BY DomainsOf DEF Goto, Heads, Heading

LEMMA LocalHeads == ASSUME IInv, NEW p \in Workers, LocalAct(p) PROVE StaysOnTheWay(p)
<1>0. (\E l \in Away : Leave(p, l)) => ~Heads(p)'
  BY LeaveHeads
<1>1. ASSUME \/ Collect(p) \/ CollectFails(p) \/ JudgeCorrupt(p) \/ JudgeFound(p) \/ Mark(p)
             \/ Proof(p) \/ Prune(p) \/ Crash(p) \/ Respawn(p)
      PROVE  ~Heads(p)'
  <2>1. CASE Collect(p) \/ CollectFails(p)
    BY <1>0, <2>1, GoHeads DEF Collect, CollectFails, Drop, Away
  <2>2. CASE JudgeCorrupt(p) \/ JudgeFound(p)
    BY <1>0, <2>2, GoHeads DEF JudgeCorrupt, JudgeFound, Terminal, Away
  <2>3. CASE Mark(p) \/ Proof(p) \/ Prune(p)
    BY <1>0, <2>3, GoHeads DEF Mark, Proof, Prune, Drop, Abort, Away
  <2>4. CASE Crash(p) \/ Respawn(p)
    BY <2>4, GoHeads DEF Crash, Respawn
  <2>q. QED
    BY <1>1, <2>1, <2>2, <2>3, <2>4
<1>2. CASE Recover(p) \/ Adopt(p)
  <2>1. pc[p] \in {"recover", "adopt"}
    BY <1>2 DEF Recover, Adopt
  <2>2. phase[p] \notin {"leased", "current"}
    BY <2>1, AtWork DEF Working, Early
  <2>3. ~Heads(p)'
    BY <1>0, <1>2, <2>2, LookHeads, GoHeads DEF Recover, Adopt, Terminal, Recycle, Abort, Away
  <2>q. QED
    BY <2>3 DEF StaysOnTheWay
<1>3. CASE List(p)
  <2>1. pc[p] = "list" /\ pc'[p] = "judge" /\ phase' = phase /\ claim' = claim /\ offered' = offered
    BY <1>3, DomainsOf DEF List, Goto, cache
  <2>q. QED
    BY <2>1 DEF StaysOnTheWay, Heads, Heading
<1>4. CASE JudgeVanished(p)
  <2>1. CASE Goto(p, "list") /\ UNCHANGED <<phase, claim, offered>>
    <3>1. pc[p] = "judge" /\ pc'[p] = "list"
      BY <1>4, <2>1, DomainsOf DEF JudgeVanished, Goto
    <3>q. QED
      BY <2>1, <3>1 DEF StaysOnTheWay, Heads, Heading
  <2>q. QED
    BY <1>0, <1>4, <2>1 DEF JudgeVanished, Recycle, Away, StaysOnTheWay
<1>5. CASE JudgeAbsent(p)
  <2>1. CASE \E l \in Away : Leave(p, l)
    BY <1>0, <2>1 DEF StaysOnTheWay
  <2>2. ASSUME NEW l \in {"collect", "lease"}, Goto(p, l) PROVE StaysOnTheWay(p)
    BY <2>2, GoHeads DEF StaysOnTheWay
  <2>3. CASE phase[p] = "leased" /\ Goto(p, "lock") /\ UNCHANGED <<phase, claim, offered>>
    <3>1. pc[p] = "judge" /\ pc'[p] = "lock"
      BY <1>5, <2>3, DomainsOf DEF JudgeAbsent, Goto
    <3>q. QED
      BY <2>3, <3>1 DEF StaysOnTheWay, Heads, Heading
  <2>q. QED
    BY <1>5, <2>1, <2>2, <2>3 DEF JudgeAbsent, Drop, Terminal, Recycle, Away
<1>6. CASE ReadCurrent(p)
  <2>1. pc[p] = "judge" /\ phase[p] = "current" /\ claim' = claim /\ offered' = offered
    BY <1>6 DEF ReadCurrent, cache
  <2>q. QED
    BY <1>6, <2>1 DEF StaysOnTheWay, Heads, Heading
<1>7. CASE Lease(p)
  <2>1. CASE Recycle(p)
    BY <1>0, <2>1 DEF Recycle, Away, StaysOnTheWay
  <2>2. CASE /\ guard' = [guard EXCEPT ![Mine(p)] = Append(@, claim[p])] /\ Look(p, "leased")
             /\ accepted[Mine(p)] = None /\ claim' = claim
    <3>1. Granted(p)
      BY <1>7, <2>2 DEF Lease, Granted, queue
    <3>2. pc'[p] = "list" /\ offered' = offered
      BY <1>7, <2>2, DomainsOf DEF Lease, Look, Goto
    <3>q. QED
      BY <2>2, <3>1, <3>2 DEF StaysOnTheWay
  <2>q. QED
    BY <1>7, <2>1, <2>2 DEF Lease
<1>8. CASE Lock(p)
  <2>1. CASE Recycle(p)
    BY <1>0, <2>1 DEF Recycle, Away, StaysOnTheWay
  <2>2. CASE Look(p, "current") /\ claim' = claim
    <3>1. pc[p] = "lock" /\ pc'[p] = "list" /\ offered' = offered
      BY <1>8, <2>2, DomainsOf DEF Lock, Look, Goto
    <3>q. QED
      BY <2>2, <3>1 DEF StaysOnTheWay, Heads, Heading
  <2>q. QED
    BY <1>8, <2>1, <2>2 DEF Lock
<1>9. CASE Stage(p)
  <2>1. CASE Goto(p, "rename") /\ UNCHANGED local
    <3>1. pc[p] = "stage" /\ claim' = claim /\ pub' = pub /\ offered' = offered
      BY <1>9, <2>1 DEF Stage, local
    <3>q. QED
      BY <3>1 DEF StaysOnTheWay, Heads, Heading
  <2>q. QED
    BY <1>0, <1>9, <2>1 DEF Stage, Abort, Drop, Away, StaysOnTheWay
<1>10. CASE RenameTarget(p)
  BY <1>10, LookHeads, GoHeads DEF RenameTarget, StaysOnTheWay
<1>11. CASE Accept(p)
  BY <1>0, <1>11, LookHeads DEF Accept, Recycle, Abort, Away, StaysOnTheWay
<1>q. QED
  BY <1>1, <1>2, <1>3, <1>4, <1>5, <1>6, <1>7, <1>8, <1>9, <1>10, <1>11
  DEF LocalAct, Inventory, Publish, StaysOnTheWay

TypesInv ==
  /\ failed \subseteq Tasks
  /\ done \in [Tasks -> 0 .. Len(task)] /\ lock \in [Lineages -> 0 .. Len(task)]
  /\ released \subseteq UNION {Range(guard[t]) : t \in Tasks}
  /\ pc \in [Workers -> Places] /\ phase \in [Workers -> Phases]
  /\ scans \in [Workers -> 0 .. ScanAttempts - 1]

\* Versions numbered within the offers made.
Sized == {s \in Shards : s.version <= Cardinality(offered)}

SizeInv ==
  /\ \A c \in offered : c \in Range(guard[task[c]])
  /\ \A p \in Workers : Heads(p) => claim[p] \notin offered
  /\ \A p \in Workers : pc[p] \in {"stage", "rename"} => pub[p].version <= Cardinality(offered) + 1
  /\ shards \subseteq Sized /\ view \in [Workers -> SUBSET Sized]
  /\ accepted \in [Tasks -> Shards \cup {None}]
  /\ pub \in [Workers -> Shards \cup {None}] /\ sel \in [Workers -> Shards \cup {None}]

LEMMA WorksToRelease ==
  ASSUME NEW p, LocalAct(p) PROVE released' = released \/ pc[p] \in Working
<1>1. CASE Crash(p) \/ Respawn(p)
  BY <1>1 DEF Crash, Respawn, cache
<1>2. CASE ~(Crash(p) \/ Respawn(p))
  BY <1>2
  DEF LocalAct, Inventory, Publish, Collect, CollectFails, Recover, Adopt, List, JudgeVanished,
      JudgeCorrupt, JudgeFound, JudgeAbsent, ReadCurrent, Lease, Lock, Stage, RenameTarget, Accept,
      Mark, Proof, Prune, Working
<1>q. QED
  BY <1>1, <1>2

LEMMA GuardsGrow ==
  ASSUME IInv, NEW p \in Workers, Kind(p)
  PROVE  \A t \in Tasks : Range(guard[t]) \subseteq Range(guard'[t])
BY GrantedGuard DEF Kind, Offers, Accepts, Marks, Calm

LEMMA LocalTypes ==
  ASSUME IInv, TypesInv, NEW p \in Workers, LocalAct(p), deployment' = deployment
  PROVE  TypesInv'
<1>1. phase[p] \in Phases /\ scans[p] \in 0 .. ScanAttempts - 1
  BY DEF TypesInv
<1>2. Moves(p) /\ Shares(p) /\ Kind(p) /\ task' = task
  BY <1>1, LocalMoves, LocalShares, Kinds
<1>3. claim[p] \in 0 .. Len(task) /\ 0 \in 0 .. Len(task)
  BY LenProperties DEF IInv, QueueInv
<1>4. pc[p] \in Working => Mine(p) \in Tasks
  BY AtWork
<1>5. done' \in [Tasks -> 0 .. Len(task)]
  <2>1. done \in [Tasks -> 0 .. Len(task)] /\ Sets(done, done', Mine(p), {0, claim[p]})
        /\ {0, claim[p]} \subseteq 0 .. Len(task)
    BY <1>2, <1>3 DEF TypesInv, Shares
  <2>q. QED
    BY <2>1, SetsKeeps, Zenon
<1>6. lock' \in [Lineages -> 0 .. Len(task)]
  <2>1. lock \in [Lineages -> 0 .. Len(task)] /\ Sets(lock, lock', Lineage[p], {claim[p]})
        /\ {claim[p]} \subseteq 0 .. Len(task)
    BY <1>2, <1>3 DEF TypesInv, Shares
  <2>q. QED
    BY <2>1, SetsKeeps, Zenon
<1>7. /\ pc' \in [Workers -> Places] /\ phase' \in [Workers -> Phases]
      /\ scans' \in [Workers -> 0 .. ScanAttempts - 1]
  <2>1. pc' \in [Workers -> Places]
    BY <1>2, SetsKeeps DEF TypesInv, Moves
  <2>2. phase' \in [Workers -> Phases]
    BY <1>2, SetsKeeps DEF TypesInv, Moves
  <2>3. scans' \in [Workers -> 0 .. ScanAttempts - 1]
    <3> DEFINE N == 0 .. ScanAttempts - 1
    <3>1. scans \in [Workers -> N] /\ Sets(scans, scans', p, N)
      BY <1>2 DEF TypesInv, Moves
    <3> HIDE DEF N
    <3>2. scans' \in [Workers -> N]
      BY <3>1, SetsKeeps
    <3>q. QED
      BY <3>2 DEF N
  <2>q. QED
    BY <2>1, <2>2, <2>3
<1>8. failed' \subseteq Tasks
  BY <1>2, <1>4 DEF TypesInv, Shares
<1>9. released' \subseteq UNION {Range(guard'[t]) : t \in Tasks}
  <2>1. ASSUME NEW c \in released' PROVE \E t \in Tasks : c \in Range(guard'[t])
    <3>1. CASE c \in released
      <4>1. PICK t \in Tasks : c \in Range(guard[t])
        BY <3>1 DEF TypesInv
      <4>q. QED
        BY <1>2, <4>1, GuardsGrow
    <3>2. CASE c \notin released
      <4>1. c \in Range(guard[Mine(p)]) /\ Mine(p) \in Tasks
        BY <1>2, <1>4, <3>2, WorksToRelease DEF Moves, Released
      <4>q. QED
        BY <1>2, <4>1, GuardsGrow
    <3>q. QED
      BY <3>1, <3>2
  <2>q. QED
    BY <2>1
<1>10. Lineages' = Lineages
  BY DEF Lineages, Lineage
<1>q. QED
  BY <1>2, <1>5, <1>6, <1>7, <1>8, <1>9, <1>10 DEF TypesInv

\* Offers are counted within the claims, and one that is not made yet is beyond them.
LEMMA OffersCount ==
  ASSUME IInv
  PROVE  /\ Cardinality(offered) \in Nat
         /\ \A c \in 1 .. Len(task) : c \notin offered =>
              /\ Cardinality(offered \cup {c}) = Cardinality(offered) + 1
              /\ Cardinality(offered) + 1 <= MaxClaims
<1>1. Len(task) \in Nat /\ Len(task) <= MaxClaims /\ offered \subseteq 1 .. Len(task)
      /\ MaxClaims \in Nat
  BY LenProperties, FleetAssumption DEF IInv, QueueInv, GuardInv
<1>2. IsFiniteSet(ClaimIds) /\ Cardinality(ClaimIds) = MaxClaims
  BY <1>1, FS_Interval DEF ClaimIds
<1>3. 1 .. Len(task) \subseteq ClaimIds
  BY <1>1 DEF ClaimIds
<1>4. IsFiniteSet(offered) /\ Cardinality(offered) \in Nat
  BY <1>1, <1>2, <1>3, FS_Subset, FS_CardinalityType
<1>5. ASSUME NEW c \in 1 .. Len(task), c \notin offered
      PROVE  /\ Cardinality(offered \cup {c}) = Cardinality(offered) + 1
             /\ Cardinality(offered) + 1 <= MaxClaims
  <2>1. Cardinality(offered \cup {c}) = Cardinality(offered) + 1
    BY <1>4, <1>5, FS_AddElement
  <2>2. offered \cup {c} \in SUBSET ClaimIds
    BY <1>1, <1>3
  <2>3. Cardinality(offered \cup {c}) <= MaxClaims
    BY <1>2, <2>2, FS_Subset
  <2>q. QED
    BY <2>1, <2>3
<1>q. QED
  BY <1>4, <1>5

LEMMA SizedStays ==
  ASSUME IInv, deployment' = deployment,
         \/ offered' = offered
         \/ \E c \in 1 .. Len(task) : c \notin offered /\ offered' = offered \cup {c}
  PROVE  Sized \subseteq Sized' /\ Cardinality(offered) <= Cardinality(offered')
<1>1. Cardinality(offered) \in Nat /\ Cardinality(offered') \in Nat
      /\ Cardinality(offered) <= Cardinality(offered')
  BY OffersCount
<1>2. Shards' = Shards
  BY DEF Shards, Lineages, Lineage
<1>3. \A s \in Shards : s.version \in Nat
  BY FleetAssumption DEF Shards
<1>q. QED
  BY <1>1, <1>2, <1>3 DEF Sized

\* The successor that a process prepares is numbered within the claims.
LEMMA SuccessorIsSized ==
  ASSUME IInv, SizeInv, NEW p \in Workers, ReadCurrent(p)
  PROVE  /\ Successor(p) \in Shards
         /\ Successor(p).version <= Cardinality(offered) + 1
<1>1. pc[p] = "judge" /\ phase[p] = "current" /\ pc[p] \in Working
  BY DEF ReadCurrent, Working
<1>2. claim[p] \in 1 .. Len(task) /\ claim[p] \notin offered
  BY <1>1, AtWork DEF SizeInv, Heads, Heading
<1>3. Cardinality(offered) \in Nat /\ Cardinality(offered) + 1 <= MaxClaims
  BY <1>2, OffersCount
<1>4. Top(view[p]) \in Nat /\ Top(view[p]) <= Cardinality(offered)
  <2>1. CASE view[p] = {}
    BY <1>3, <2>1 DEF Top
  <2>2. CASE view[p] # {}
    <3>1. PICK s \in view[p] : Top(view[p]) = s.version
      BY <2>2, TopBounds
    <3>2. s \in Sized
      BY DEF SizeInv
    <3>q. QED
      BY <3>1, <3>2, TopBounds DEF Sized
  <2>q. QED
    BY <2>1, <2>2
<1>5. Lineage[p] \in Lineages
  <2>1. DOMAIN deployment.lineage = Workers
    BY FleetAssumption DEF IInv, QueueInv
  <2>q. QED
    BY <2>1 DEF Lineages, Lineage, Range
<1>6. claim[p] \in ClaimIds
  BY <1>2, LenProperties, FleetAssumption DEF ClaimIds, IInv, QueueInv
<1>7. Successor(p) \in Versions
  BY <1>1, SuccessorIsVersion
<1>8. Successor(p).tasks \in Seq(Tasks)
  BY <1>7 DEF Versions
<1>9. Top(view[p]) + 1 \in 1 .. MaxClaims /\ Top(view[p]) + 1 <= Cardinality(offered) + 1
  BY <1>3, <1>4, FleetAssumption
<1>q. QED
  BY <1>5, <1>6, <1>8, <1>9 DEF Successor, Shards

LEMMA LocalSizes ==
  ASSUME IInv, TypesInv, SizeInv, NEW p \in Workers, LocalAct(p), deployment' = deployment
  PROVE  SizeInv'
<1>1. Moves(p) /\ StaysOnTheWay(p) /\ Kind(p) /\ LocalStep(p) /\ task' = task
  BY LocalMoves, LocalHeads, Kinds, OwnStep DEF TypesInv
<1>2. ASSUME Offers(p)
      PROVE  /\ claim[p] \in 1 .. Len(task) /\ claim[p] # 0 /\ claim[p] \notin offered
             /\ offered' = offered \cup {claim[p]} /\ pc[p] = "rename"
  BY <1>2, InHand DEF Offers, Working, SizeInv, Heads, Heading
<1>3. offered' = offered \/ Offers(p)
  BY <1>1 DEF Kind, Granted, Accepts, Marks, Calm
<1>4. Sized \subseteq Sized' /\ Cardinality(offered) <= Cardinality(offered')
  BY <1>2, <1>3, SizedStays
<1>5. Shards' = Shards
  BY DEF Shards, Lineages, Lineage
<1>6. Cardinality(offered) \in Nat /\ (Offers(p) => Cardinality(offered') = Cardinality(offered) + 1)
  BY <1>2, OffersCount
<1>7. ASSUME NEW c \in offered' PROVE c \in Range(guard'[task'[c]])
  <2>1. CASE c \in offered
    <3>1. c \in 1 .. Len(task) /\ task \in Seq(Tasks)
      BY <2>1 DEF IInv, GuardInv, QueueInv
    <3>2. task[c] \in Tasks
      BY <3>1
    <3>q. QED
      BY <1>1, <2>1, <3>2, GuardsGrow DEF SizeInv
  <2>2. CASE c \notin offered
    <3>1. Offers(p) /\ c = claim[p]
      BY <1>2, <1>3, <2>2
    <3>2. c \in Range(guard[Mine(p)])
      BY <1>2, <3>1, InHand DEF Working
    <3>q. QED
      BY <1>1, <3>1, <3>2 DEF Offers, Mine
  <2>q. QED
    BY <2>1, <2>2
<1>8. ASSUME NEW q \in Workers, Heads(q)' PROVE claim'[q] \notin offered'
  <2>1. CASE q = p
    <3>1. claim' = claim /\ offered' = offered /\ (Heads(p) \/ Granted(p))
      BY <1>1, <1>8, <2>1 DEF StaysOnTheWay
    <3>2. CASE Heads(p)
      BY <2>1, <3>1, <3>2 DEF SizeInv
    <3>3. CASE Granted(p)
      <4>1. claim[p] \notin Range(guard[task[claim[p]]])
        BY <3>3, InHand DEF Granted, Working, Mine
      <4>q. QED
        BY <2>1, <3>1, <4>1 DEF SizeInv
    <3>q. QED
      BY <3>1, <3>2, <3>3
  <2>2. CASE q # p
    <3>1. Heads(q) /\ claim'[q] = claim[q]
      BY <1>1, <1>8, <2>2, DomainsOf DEF LocalStep, Heads
    <3>2. claim[q] \notin offered
      BY <3>1 DEF SizeInv
    <3>3. Offers(p) => claim[q] # claim[p]
      BY <1>2, <2>2 DEF IInv, QueueInv
    <3>q. QED
      BY <1>2, <1>3, <3>1, <3>2, <3>3
  <2>q. QED
    BY <2>1, <2>2
<1>9. ASSUME NEW q \in Workers, pc'[q] \in {"stage", "rename"}
      PROVE  pub'[q].version <= Cardinality(offered') + 1
  <2>1. CASE q = p
    <3>1. offered' = offered /\ (ReadCurrent(p) \/ (pc[p] = "stage" /\ pub' = pub))
      BY <1>1, <1>9, <2>1 DEF StaysOnTheWay, Heads, Heading
    <3>2. CASE ReadCurrent(p)
      <4>1. pub'[p] = Successor(p)
        BY <3>2, DomainsOf DEF ReadCurrent
      <4>q. QED
        BY <2>1, <3>1, <3>2, <4>1, SuccessorIsSized
    <3>3. CASE pc[p] = "stage" /\ pub' = pub
      BY <2>1, <3>1, <3>3 DEF SizeInv
    <3>q. QED
      BY <3>1, <3>2, <3>3
  <2>2. CASE q # p
    <3>1. pc'[q] = pc[q] /\ pub'[q] = pub[q]
      BY <1>1, <2>2 DEF LocalStep
    <3>2. pub[q].version <= Cardinality(offered) + 1
      BY <1>9, <3>1 DEF SizeInv
    <3>3. pub[q] \in Versions
      BY <1>9, <3>1 DEF IInv, ProcInv, ProcOk
    <3>4. pub[q].version \in Nat /\ Cardinality(offered') \in Nat
      <4>1. Cardinality(offered') \in Nat
        BY <1>3, <1>6
      <4>q. QED
        BY <3>3, <4>1 DEF Versions
    <3>q. QED
      BY <1>4, <1>6, <3>1, <3>2, <3>4
  <2>q. QED
    BY <2>1, <2>2
<1>10. pc[p] \in {"rename", "adopt", "accept"} => pub[p] \in Shards
  <2>1. pc[p] \in {"rename", "adopt", "accept"} => pub[p] # None
    BY InHand, NoneIsNoVersion DEF Working
  <2>q. QED
    BY <2>1 DEF SizeInv
<1>11. shards' \subseteq Sized'
  <2>1. CASE shards' \subseteq shards
    BY <1>4, <2>1 DEF SizeInv
  <2>2. CASE Offers(p)
    <3>1. pub[p] \in Shards /\ pub[p].version <= Cardinality(offered')
      BY <1>2, <1>6, <1>10, <2>2 DEF SizeInv
    <3>2. shards' = shards \cup {pub[p]}
      BY <2>2 DEF Offers
    <3>q. QED
      BY <1>4, <1>5, <3>1, <3>2 DEF SizeInv, Sized
  <2>q. QED
    BY <1>1, <2>1, <2>2 DEF Kind, Granted, Accepts, Marks, Calm
<1>12. view' \in [Workers -> SUBSET Sized']
  <2> DEFINE S == SUBSET (view[p] \cup shards)
             T == SUBSET Sized'
  <2>1. view \in [Workers -> T] /\ S \subseteq T /\ Sets(view, view', p, S)
    BY <1>1, <1>4 DEF SizeInv, Moves
  <2> HIDE DEF S, T
  <2>2. view' \in [Workers -> T]
    BY <2>1, SetsKeeps
  <2>q. QED
    BY <2>2 DEF T
<1>13. accepted' \in [Tasks -> Shards \cup {None}]
  <2>1. CASE accepted' = accepted
    BY <2>1 DEF SizeInv
  <2>2. CASE Accepts(p)
    BY <1>10, <2>2 DEF Accepts, SizeInv
  <2>q. QED
    BY <1>1, <2>1, <2>2 DEF Kind, Granted, Offers, Marks, Calm
<1>14. pub' \in [Workers -> Shards \cup {None}]
  <2>1. CASE Sets(pub, pub', p, shards \cup {None})
    <3> DEFINE S == shards \cup {None}
               T == Shards \cup {None}
    <3>1. pub \in [Workers -> T] /\ S \subseteq T /\ Sets(pub, pub', p, S)
      BY <2>1 DEF SizeInv, Sized
    <3> HIDE DEF S, T
    <3>2. pub' \in [Workers -> T]
      BY <3>1, SetsKeeps
    <3>q. QED
      BY <3>2 DEF T
  <2>2. CASE ReadCurrent(p)
    BY <2>2, SuccessorIsSized DEF ReadCurrent, SizeInv
  <2>q. QED
    BY <1>1, <2>1, <2>2 DEF Moves
<1>15. sel' \in [Workers -> Shards \cup {None}]
  <2> DEFINE S == view[p] \cup {None}
             T == Shards \cup {None}
  <2>1. sel \in [Workers -> T] /\ S \subseteq T /\ Sets(sel, sel', p, S)
    BY <1>1 DEF SizeInv, Sized, Moves
  <2> HIDE DEF S, T
  <2>2. sel' \in [Workers -> T]
    BY <2>1, SetsKeeps
  <2>q. QED
    BY <2>2 DEF T
<1>q. QED
  BY <1>5, <1>7, <1>8, <1>9, <1>11, <1>12, <1>13, <1>14, <1>15 DEF SizeInv

LEMMA InitTypes == Init => TypesInv /\ SizeInv
<1> SUFFICES ASSUME Init PROVE TypesInv /\ SizeInv
  OBVIOUS
<1>1. Len(<<>>) = 0 /\ 0 \in 0 .. Len(<<>>) /\ 0 \in 0 .. ScanAttempts - 1
  BY FleetAssumption, EmptySeq
<1>2. TypesInv
  BY <1>1 DEF Init, TypesInv, Phases, Places, Away
<1>3. SizeInv
  BY DEF Init, SizeInv, Heads, Heading
<1>q. QED
  BY <1>2, <1>3

LEMMA ClaimTypes ==
  ASSUME IInv, TypesInv, SizeInv, NEW p \in Workers, NEW t \in Tasks, Claim(p, t),
         deployment' = deployment
  PROVE  TypesInv' /\ SizeInv'
<1>1. task \in Seq(Tasks) /\ Len(task) \in Nat /\ task' = Append(task, t)
  BY LenProperties DEF Claim, IInv, QueueInv
<1>2. Len(task') = Len(task) + 1 /\ \A c \in 1 .. Len(task) : task'[c] = task[c]
  BY <1>1, AppendProperties
<1>3. /\ claim' = [claim EXCEPT ![p] = Len(task) + 1] /\ pc' = [pc EXCEPT ![p] = "recover"]
      /\ UNCHANGED <<failed, done, guard, released, accepted, lock, shards, offered, phase, view,
                     scans, pub, sel>>
  BY DEF Claim, Goto, cache
<1>4. 0 .. Len(task) \subseteq 0 .. Len(task')
  BY <1>1, <1>2
<1>5. Lineages' = Lineages /\ Shards' = Shards
  BY DEF Shards, Lineages, Lineage
<1>6. /\ done' \in [Tasks -> 0 .. Len(task')] /\ lock' \in [Lineages -> 0 .. Len(task')]
      /\ pc' \in [Workers -> Places]
  BY <1>3, <1>4 DEF TypesInv, Places, Working
<1>7. TypesInv'
  BY <1>3, <1>5, <1>6 DEF TypesInv
<1>8. \A c \in offered' : c \in Range(guard'[task'[c]])
  BY <1>2, <1>3 DEF SizeInv, IInv, GuardInv
<1>9. ASSUME NEW q \in Workers, q # p
      PROVE  pc'[q] = pc[q] /\ claim'[q] = claim[q] /\ Heads(q)' = Heads(q)
  BY <1>3, <1>9, DomainsOf DEF Heads
<1>10. pc'[p] = "recover" /\ ~Heads(p)'
  BY <1>3, DomainsOf DEF Heads, Heading
<1>11. \A q \in Workers : Heads(q)' => claim'[q] \notin offered'
  BY <1>3, <1>9, <1>10 DEF SizeInv
<1>12. \A q \in Workers :
         pc'[q] \in {"stage", "rename"} => pub'[q].version <= Cardinality(offered') + 1
  BY <1>3, <1>9, <1>10 DEF SizeInv
<1>13. Sized' = Sized
  BY <1>3, <1>5 DEF Sized
<1>q. QED
  BY <1>3, <1>5, <1>7, <1>8, <1>11, <1>12, <1>13 DEF SizeInv

LEMMA StepTypes ==
  ASSUME IInv, TypesInv, SizeInv, [NextInDeployment]_vars PROVE TypesInv' /\ SizeInv'
<1>1. CASE UNCHANGED <<deployment, failed, task, done, cache, pc, local>>
  BY <1>1
  DEF cache, local, TypesInv, SizeInv, Sized, Shards, Lineages, Lineage, Heads
<1>2. ASSUME NEW p \in Workers, LocalAct(p), deployment' = deployment PROVE TypesInv' /\ SizeInv'
  BY <1>2, LocalTypes, LocalSizes
<1>3. ASSUME NEW p \in Workers, NEW t \in Tasks, Claim(p, t), deployment' = deployment
      PROVE  TypesInv' /\ SizeInv'
  BY <1>3, ClaimTypes
<1>4. UNCHANGED vars => UNCHANGED <<deployment, failed, task, done, cache, pc, local>>
  BY DEF vars, queue
<1>5. \A c \in ClaimIds : Reap(c) => UNCHANGED <<failed, task, done, cache, pc, local>>
  BY DEF Reap
<1>q. QED
  BY <1>1, <1>2, <1>3, <1>4, <1>5 DEF NextInDeployment, Next, LocalAct

\* Every reachable state of a fleet is well typed: among others, no version is numbered
\* beyond the claims made, whoever numbers it after whatever reads.
THEOREM TypeCorrect == Spec => []TypeOK
<1>1. Init => IInv /\ TypesInv /\ SizeInv
  BY InitIInv, InitTypes
<1>2. IInv /\ TypesInv /\ SizeInv /\ [NextInDeployment]_vars => (IInv /\ TypesInv /\ SizeInv)'
  BY StepKeepsIInv, StepTypes
<1>3. IInv /\ TypesInv /\ SizeInv => TypeOK
  <2> SUFFICES ASSUME IInv, TypesInv, SizeInv PROVE TypeOK
    OBVIOUS
  <2>1. guard \in [Tasks -> Seq(ClaimIds)]
    <3>1. ASSUME NEW t \in Tasks PROVE guard[t] \in Seq(ClaimIds)
      <4>1. guard[t] \in Seq(Nat) /\ Range(guard[t]) \subseteq 1 .. Len(task)
        BY DEF IInv, GuardInv
      <4>2. 1 .. Len(task) \subseteq ClaimIds
        BY LenProperties, FleetAssumption DEF IInv, QueueInv, ClaimIds
      <4>3. guard[t] \in [1 .. Len(guard[t]) -> ClaimIds] /\ Len(guard[t]) \in Nat
        BY <4>1, <4>2, LenProperties DEF Range
      <4>q. QED
        BY <4>3, SeqDef
    <3>q. QED
      BY <3>1 DEF IInv, GuardInv
  <2>2. offered \subseteq ClaimIds
    BY LenProperties, FleetAssumption DEF IInv, QueueInv, GuardInv, ClaimIds
  <2>3. pc \in [Workers -> {"idle", "recover", "adopt", "list", "judge", "collect", "lease",
                            "lock", "stage", "rename", "accept", "mark", "proof", "prune",
                            "down", "terminal", "aborted"}]
    BY DEF TypesInv, Places, Working, Away
  <2>4. shards \subseteq Shards /\ view \in [Workers -> SUBSET Shards]
    BY DEF SizeInv, Sized
  <2>q. QED
    BY <2>1, <2>2, <2>3, <2>4 DEF TypeOK, TypesInv, SizeInv, IInv, QueueInv, Phases
<1>q. QED
  BY <1>1, <1>2, <1>3, PTL DEF Spec

--------------------------------------------------------------------------------
(* Every task's guard, offers and acceptance take only FanInCommit's steps. *)

LEMMA SameCommit ==
  ASSUME NEW t \in Tasks, guard'[t] = guard[t], accepted'[t] = accepted[t], Of(t)' = Of(t)
  PROVE  UNCHANGED Commit(t)!commitVars
BY DEF Commit!commitVars, Winner

LEMMA GrantCommits ==
  ASSUME IInv, NEW p \in Workers, Granted(p), task' = task, NEW t \in Tasks
  PROVE  UNCHANGED Commit(t)!commitVars \/ Commit(t)!Next
<1>1. Of(t)' = Of(t)
  BY DEF Granted, Of
<1>2. CASE t # Mine(p)
  BY <1>1, <1>2, GrantedGuard, SameCommit DEF Granted
<1>3. CASE t = Mine(p)
  <2>1. /\ claim[p] \in 1 .. Len(task) /\ claim[p] \notin Range(guard[t]) /\ Len(task) \in Nat
    BY <1>3, InHand DEF Granted, Working
  <2>2. claim[p] \in ClaimIds
    BY <2>1, FleetAssumption DEF ClaimIds, IInv, QueueInv
  <2>3. guard[t] \in Seq(Nat)
    BY DEF IInv, GuardInv
  <2>4. DOMAIN guard[t] = 1 .. Len(guard[t])
    BY <2>3, LenProperties
  <2>5. ~ \E i \in 1 .. Len(guard[t]) : guard[t][i] = claim[p]
    BY <2>1, <2>4 DEF Range
  <2>6. guard'[t] = Append(guard[t], claim[p])
    BY <1>3, GrantedGuard
  <2>7. Winner(t) = 0 /\ Winner(t)' = Winner(t)
    BY <1>3 DEF Granted, Winner
  <2>8. Commit(t)!Grant(claim[p])
    BY <1>1, <2>5, <2>6, <2>7 DEF Commit!Grant, Commit!HasHeld
  <2>q. QED
    BY <2>2, <2>8 DEF Commit!Next
<1>q. QED
  BY <1>2, <1>3

LEMMA OfferCommits ==
  ASSUME IInv, NEW p \in Workers, Offers(p), task' = task, NEW t \in Tasks
  PROVE  UNCHANGED Commit(t)!commitVars \/ Commit(t)!Next
<1>1. /\ claim[p] \in 1 .. Len(task) /\ Len(task) \in Nat /\ claim[p] \in Range(guard[Mine(p)])
  BY InHand DEF Offers, Working
<1>2. /\ offered' = offered \cup {claim[p]} /\ guard' = guard /\ accepted' = accepted
  BY DEF Offers
<1>3. CASE t # Mine(p)
  <2>1. Of(t)' = Of(t)
    BY <1>2, <1>3 DEF Of, Mine
  <2>q. QED
    BY <1>2, <2>1, SameCommit
<1>4. CASE t = Mine(p)
  <2>1. Of(t)' = Of(t) \cup {claim[p]}
    BY <1>2, <1>4 DEF Of, Mine
  <2>2. claim[p] \in ClaimIds
    BY <1>1, FleetAssumption DEF ClaimIds, IInv, QueueInv
  <2>3. guard[t] \in Seq(Nat)
    BY DEF IInv, GuardInv
  <2>4. DOMAIN guard[t] = 1 .. Len(guard[t])
    BY <2>3, LenProperties
  <2>5. \E i \in 1 .. Len(guard[t]) : guard[t][i] = claim[p]
    BY <1>1, <1>4, <2>4 DEF Range
  <2>6. Winner(t)' = Winner(t) /\ guard'[t] = guard[t]
    BY <1>2 DEF Winner
  <2>7. Commit(t)!Offer(claim[p])
    BY <2>1, <2>5, <2>6 DEF Commit!Offer, Commit!HasHeld
  <2>q. QED
    BY <2>2, <2>7 DEF Commit!Next
<1>q. QED
  BY <1>3, <1>4

LEMMA AcceptCommits ==
  ASSUME IInv, NEW p \in Workers, Accepts(p), task' = task, NEW t \in Tasks
  PROVE  UNCHANGED Commit(t)!commitVars \/ Commit(t)!Next
<1> DEFINE c == pub[p].claim
<1>1. Mine(p) \in Tasks /\ pub[p] \in Versions /\ c \in offered
  BY InHand DEF Accepts, Working
<1>2. /\ accepted[Mine(p)] = None /\ Holder(Mine(p)) = c
      /\ accepted' = [accepted EXCEPT ![Mine(p)] = pub[p]]
      /\ UNCHANGED <<guard, offered>>
  BY DEF Accepts, MayAccept
<1>3. Of(t)' = Of(t)
  BY <1>2 DEF Of
<1>4. DOMAIN accepted = Tasks
  BY DEF IInv, DoneInv
<1>5. CASE t # Mine(p)
  BY <1>2, <1>3, <1>4, <1>5, SameCommit
<1>6. CASE t = Mine(p)
  <2>1. c \in 1 .. Len(task) /\ Len(task) \in Nat
    BY <1>1, LenProperties DEF IInv, GuardInv, QueueInv
  <2>2. guard[t] # <<>> /\ c = guard[t][Len(guard[t])]
    BY <1>2, <1>6, <2>1 DEF Holder
  <2>3. guard[t] \in Seq(Nat)
    BY DEF IInv, GuardInv
  <2>4. c \in Range(guard[t])
    <3>1. DOMAIN guard[t] = 1 .. Len(guard[t]) /\ Len(guard[t]) \in Nat
      BY <2>3, LenProperties
    <3>2. Len(guard[t]) # 0
      BY <2>2, <2>3, EmptySeq
    <3>3. Len(guard[t]) \in DOMAIN guard[t]
      BY <3>1, <3>2
    <3>q. QED
      BY <2>2, <3>3 DEF Range
  <2>5. c \in Of(t)
    BY <1>1, <2>4 DEF Of, IInv, GuardInv
  <2>6. Winner(t) = 0
    BY <1>2, <1>6 DEF Winner
  <2>7. Winner(t)' = c
    BY <1>1, <1>2, <1>4, <1>6, NoneIsNoVersion DEF Winner
  <2>8. Commit(t)!Accept(c)
    BY <1>2, <1>3, <2>2, <2>5, <2>6, <2>7 DEF Commit!Accept
  <2>9. c \in ClaimIds
    BY <2>1, FleetAssumption DEF ClaimIds, IInv, QueueInv
  <2>q. QED
    BY <2>8, <2>9 DEF Commit!Next
<1>q. QED
  BY <1>5, <1>6

LEMMA StepCommits ==
  ASSUME IInv, [NextInDeployment]_vars, NEW t \in Tasks
  PROVE  UNCHANGED Commit(t)!commitVars \/ Commit(t)!Next
<1>1. CASE UNCHANGED <<guard, accepted, offered, task>>
  <2>1. Of(t)' = Of(t)
    BY <1>1 DEF Of
  <2>q. QED
    BY <1>1, <2>1, SameCommit
<1>2. CASE \E p \in Workers : LocalAct(p)
  <2>1. PICK p \in Workers : task' = task /\ Kind(p)
    BY <1>2, Kinds
  <2>q. QED
    BY <1>1, <2>1, GrantCommits, OfferCommits, AcceptCommits DEF Kind, Calm, Marks
<1>3. CASE \E p \in Workers : \E u \in Tasks : Claim(p, u)
  <2>1. PICK u \in Tasks : task' = Append(task, u) /\ UNCHANGED <<guard, accepted, offered>>
    BY <1>3 DEF Claim, cache
  <2>2. task \in Seq(Tasks) /\ offered \subseteq 1 .. Len(task)
    BY DEF IInv, QueueInv, GuardInv
  <2>3. \A c \in 1 .. Len(task) : task'[c] = task[c]
    BY <2>1, <2>2, AppendProperties
  <2>4. Of(t)' = Of(t)
    BY <2>1, <2>2, <2>3 DEF Of
  <2>q. QED
    BY <2>1, <2>4, SameCommit
<1>4. CASE \E c \in ClaimIds : Reap(c)
  BY <1>1, <1>4 DEF Reap, cache
<1>5. CASE UNCHANGED vars
  BY <1>1, <1>5 DEF vars, queue, cache
<1>q. QED
  BY <1>2, <1>3, <1>4, <1>5 DEF NextInDeployment, Next, LocalAct

\* Whatever the workers, the janitor and the crashes do, each task is committed
\* as FanInCommit promises: claims take turns in its guard, none twice; only a
\* claim that held it makes a target visible; and one offered publication, that
\* of the last claim in the guard, is accepted and never replaced.
THEOREM TasksCommitHolds == Spec => TasksCommit
<1>1. Init => \A t \in Tasks : Commit(t)!Init
  BY DEF Init, Commit!Init, Of, Winner
<1>2. IInv /\ [NextInDeployment]_vars
        => [\A t \in Tasks : UNCHANGED Commit(t)!commitVars \/ Commit(t)!Next]_vars
  BY StepCommits
<1>q. QED
  BY <1>1, <1>2, Invariance, PTL DEF Spec, TasksCommit
================================================================================
