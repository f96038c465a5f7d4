---------------------------- MODULE TrainAgentProofs ----------------------------
(***************************************************************************)
(* Proofs about TrainAgent, for any requests, pods, group ids, attempts    *)
(* and faults.                                                             *)
(***************************************************************************)
EXTENDS TrainAgent, TLAPS, FiniteSetTheorems, WellFoundedInduction

\* A pod without processes, and what an agent does with a request in hand.
Out == {"off", "gone"}
Training == {"start", "record", "wait", "unrecord", "archive", "publish", "unlink"}
Busy == Training \cup {"read", "parked"}
Over == {"parked", "succeeded", "failed"}

\* What an agent knows of its request, and its token of the trainer it waits for.
HandInv(p) ==
  /\ pc[p] \in Busy => cur[p] \in Requests
  /\ pc[p] \in {"read", "start", "record", "wait", "unrecord", "archive"} => place[cur[p]] = "claimed"
  /\ pc[p] \in {"parked", "publish", "unlink"} => place[cur[p]] \in Over
  /\ pc[p] \in Training => token[cur[p]] # None /\ token[cur[p]].owner = p
  /\ pc[p] \in {"start", "record"} => token[cur[p]].pgid = None
  /\ pc[p] = "wait" => token[cur[p]].pgid = child[p]
  /\ pc[p] \in {"record", "wait"} =>
       child[p] \in Pids /\ IsTrainer(p, child[p]) /\ group[p][child[p]].req = cur[p]
  /\ pc[p] \in {"read", "start"} => tries[p] < MaxAttempts
  /\ pc[p] = "untoken" => todo[p] # {} /\ place[Min(todo[p])] # "claimed"

\* What runs in a pod, and what the tokens say of its serving processes.
PodInv(p) ==
  /\ pc[p] \in Out => \A g \in Pids : group[p][g] = None
  /\ pc[p] = "off" => \A r \in Requests : token[r] # None => token[r].owner # p
  /\ pc[p] \notin Out /\ intact[p] =>
       /\ Serving(p)
       /\ \A r \in Requests : token[r] # None /\ token[r].owner = p /\ token[r].pgid # None
                                => group[p][token[r].pgid] # Serve

OnePod == \A p, q \in Pods : pc[p] \notin Out /\ pc[q] \notin Out => p = q

\* An agent waits for the trainer, or a token of a claimed request names it.
Waited(p, g) == pc[p] \in {"record", "wait"} /\ child[p] = g
Named(p, g) ==
  LET r == group[p][g].req
  IN /\ token[r] # None /\ token[r].owner = p /\ token[r].pgid = g
     /\ place[r] = "claimed"
     /\ ~(pc[p] \in Busy /\ cur[p] = r)
TrackInv == \A p \in Pods, g \in Pids :
              IsTrainer(p, g) /\ <<p, g>> \notin stray => Waited(p, g) \/ Named(p, g)

FinalInv == \A r \in Requests : result[r] # {} => place[r] \in Over

IInv == /\ TypeOK /\ OnePod /\ TrackInv /\ FinalInv
        /\ \A p \in Pods : HandInv(p) /\ PodInv(p)

LEMMA InitIInv == Init => IInv
<1> SUFFICES ASSUME Init PROVE IInv
  OBVIOUS
<1>1. TypeOK
  BY TrainAssumption DEF Init, TypeOK
<1>2. ASSUME NEW p \in Pods PROVE HandInv(p) /\ PodInv(p)
  BY DEF Init, HandInv, PodInv, Busy, Training, Out
<1>3. OnePod /\ FinalInv
  BY DEF Init, OnePod, FinalInv, Out
<1>4. TrackInv
  BY TrainAssumption DEF Init, TrackInv, IsTrainer
<1>q. QED
  BY <1>1, <1>2, <1>3, <1>4 DEF IInv

--------------------------------------------------------------------------------
(* Least elements, tokens and groups.                                       *)

LEMMA MinIsIn ==
  ASSUME NEW S \in SUBSET Requests, S # {}
  PROVE  Min(S) \in S
<1>1. S \in SUBSET Nat
  BY TrainAssumption
<1>2. PICK m \in S : \A n \in S : <<n, m>> \notin OpToRel(<, Nat)
  BY <1>1, NatLessThanWellFounded, WFMin
<1>3. \A n \in S : ~(n < m)
  BY <1>1, <1>2 DEF OpToRel
<1>4. \A n \in S : m =< n
  BY <1>1, <1>3
<1>q. QED
  BY <1>4 DEF Min

\* Writing a group id into a token changes that field of that token only.
LEMMA NotedToken ==
  ASSUME TypeOK, NEW r \in Requests, NEW g \in Pids \cup {None}
  PROVE  /\ Noted(r, g) \in [Requests -> Tokens \cup {None}]
         /\ \A s \in Requests : s # r => Noted(r, g)[s] = token[s]
         /\ token[r] = None => Noted(r, g)[r] = None
         /\ token[r] # None => /\ Noted(r, g)[r] # None /\ Noted(r, g)[r].pgid = g
                               /\ Noted(r, g)[r].owner = token[r].owner
<1>1. token \in [Requests -> Tokens \cup {None}]
  BY DEF TypeOK
<1>2. CASE token[r] = None
  BY <1>1, <1>2 DEF Noted
<1>3. CASE token[r] # None
  <2> DEFINE new == [token[r] EXCEPT !.pgid = g]
  <2>1. token[r] \in [owner : Pods, pgid : Pids \cup {None}]
    BY <1>1, <1>3 DEF Tokens
  <2>2. new \in [owner : Pods, pgid : Pids \cup {None}]
    BY <2>1
  <2>3. new.owner = token[r].owner /\ new.pgid = g
    BY <2>1
  <2>4. Noted(r, g) = [token EXCEPT ![r] = new]
    BY <1>3 DEF Noted
  <2>5. new \in Tokens /\ new # None
    BY <2>2, TrainAssumption DEF Tokens
  <2> HIDE DEF new
  <2>6. Noted(r, g) \in [Requests -> Tokens \cup {None}] /\ Noted(r, g)[r] = new
        /\ \A s \in Requests : s # r => Noted(r, g)[s] = token[s]
    BY <1>1, <2>4, <2>5
  <2>q. QED
    BY <1>3, <2>3, <2>5, <2>6
<1>q. QED
  BY <1>2, <1>3

Groupings == Trainers \cup {None, Serve}
GroupTable == [Pods -> [Pids -> Groupings]]

\* Changing what runs under one id leaves every other.
With(G, p, g, v) == [G EXCEPT ![p][g] = v]

LEMMA OneGroup ==
  ASSUME NEW G \in GroupTable, NEW p \in Pods, NEW g \in Pids, NEW v \in Groupings
  PROVE  /\ With(G, p, g, v) \in GroupTable /\ With(G, p, g, v)[p][g] = v
         /\ \A q \in Pods, h \in Pids : q # p \/ h # g => With(G, p, g, v)[q][h] = G[q][h]
<1>1. G[p] \in [Pids -> Groupings]
  BY DEF GroupTable
<1> DEFINE row == [G[p] EXCEPT ![g] = v]
<1>2. row \in [Pids -> Groupings] /\ row[g] = v
      /\ \A h \in Pids : h # g => row[h] = G[p][h]
  BY <1>1
<1>3. With(G, p, g, v) = [G EXCEPT ![p] = row]
  BY DEF With
<1> HIDE DEF row
<1>q. QED
  BY <1>2, <1>3 DEF GroupTable

\* The death of a wrapper leaves its trainer in place, and every other group.
LEMMA Unwrapped ==
  ASSUME group \in GroupTable, NEW p \in Pods, NEW g \in Pids, IsTrainer(p, g),
         group' = [group EXCEPT ![p][g].wrapper = FALSE]
  PROVE  /\ group' \in GroupTable /\ IsTrainer(p, g)' /\ group'[p][g].req = group[p][g].req
         /\ \A q \in Pods, h \in Pids : q # p \/ h # g => group'[q][h] = group[q][h]
<1> DEFINE left == [group[p][g] EXCEPT !.wrapper = FALSE]
<1>1. group[p][g] \in [req : Requests, wrapper : BOOLEAN]
  BY DEF IsTrainer, Trainers
<1>2. left \in [req : Requests, wrapper : BOOLEAN] /\ left.req = group[p][g].req
  BY <1>1
<1>3. PICK v \in Trainers : v = left
  BY <1>2 DEF Trainers
<1>4. group' = With(group, p, g, v) /\ v.req = group[p][g].req /\ v \in Groupings
  BY <1>2, <1>3 DEF With, Groupings
<1> HIDE DEF left
<1>5. /\ With(group, p, g, v) \in GroupTable /\ With(group, p, g, v)[p][g] = v
      /\ \A q \in Pods, h \in Pids :
           q # p \/ h # g => With(group, p, g, v)[q][h] = group[q][h]
  BY <1>4, OneGroup
<1>6. group' \in GroupTable /\ group'[p][g] = v
      /\ \A q \in Pods, h \in Pids : q # p \/ h # g => group'[q][h] = group[q][h]
  BY <1>4, <1>5
<1>q. QED
  BY <1>4, <1>6 DEF IsTrainer

--------------------------------------------------------------------------------
(* What a step of one pod leaves of the others.                             *)

\* Only pod p acts, tokens it writes are its own, and nothing else moves.
Alone(p) ==
  /\ pc[p] \notin Out \/ \A q \in Pods : pc[q] \in Out
  /\ \A q \in Pods : q # p => pc'[q] = pc[q] /\ \A h \in Pids : group'[q][h] = group[q][h]
  /\ \A r \in Requests : token'[r] # None => \/ token'[r].owner = p
                                             \/ token[r] # None /\ token'[r].owner = token[r].owner

\* Every trainer of pod p that is not lost is waited for or named.
TracksOwn(p) == \A g \in Pids :
                  IsTrainer(p, g) /\ <<p, g>> \notin stray => Waited(p, g) \/ Named(p, g)

LEMMA Assemble ==
  ASSUME IInv, NEW p \in Pods, Alone(p),
         TypeOK', HandInv(p)', PodInv(p)', FinalInv', TracksOwn(p)'
  PROVE  IInv'
<1>1. ASSUME NEW q \in Pods, q # p
      PROVE  /\ pc[q] \in Out /\ pc'[q] = pc[q]
             /\ \A h \in Pids : group'[q][h] = None /\ group[q][h] = None
  <2>1. pc[q] \in Out
    BY <1>1 DEF IInv, OnePod, Alone
  <2>q. QED
    BY <1>1, <2>1 DEF IInv, PodInv, Alone
<1>2. ASSUME NEW q \in Pods, q # p PROVE HandInv(q)'
  BY <1>1, <1>2 DEF HandInv, Out, Busy, Training
<1>3. ASSUME NEW q \in Pods, q # p PROVE PodInv(q)'
  <2>1. pc[q] = "off" => \A r \in Requests : token'[r] # None => token'[r].owner # q
    BY <1>3 DEF IInv, PodInv, Alone
  <2>q. QED
    BY <1>1, <1>3, <2>1 DEF PodInv, Out
<1>4. (\A q \in Pods : HandInv(q) /\ PodInv(q))'
  BY <1>2, <1>3
<1>5. OnePod'
  BY <1>1 DEF OnePod
<1>6. TrackInv'
  <2>1. \A q \in Pods, g \in Pids : q # p => ~IsTrainer(q, g)'
    BY <1>1, TrainAssumption DEF IsTrainer
  <2>q. QED
    BY <2>1 DEF TrackInv, TracksOwn
<1>q. QED
  BY <1>4, <1>5, <1>6 DEF IInv

\* A pod whose processes and tokens stay as they are.
LEMMA CalmPod ==
  ASSUME IInv, NEW p \in Pods, pc[p] \notin Out, pc'[p] \notin Out,
         group' = group, intact' = intact, token' = token
  PROVE  PodInv(p)'
BY DEF IInv, PodInv, Serving, Out

LEMMA Typed ==
  ASSUME TypeOK
  PROVE  /\ DOMAIN pc = Pods /\ DOMAIN todo = Pods /\ DOMAIN cur = Pods /\ DOMAIN tries = Pods
         /\ DOMAIN child = Pods /\ DOMAIN won = Pods /\ DOMAIN intact = Pods
         /\ DOMAIN place = Requests /\ DOMAIN token = Requests /\ DOMAIN result = Requests
         /\ group \in GroupTable
BY DEF TypeOK, GroupTable, Groupings

\* The request an agent works on.
LEMMA InHand ==
  ASSUME IInv, NEW p \in Pods, pc[p] \in Busy
  PROVE  cur[p] \in Requests
BY DEF IInv, HandInv

--------------------------------------------------------------------------------
(* Startup.                                                                 *)

LEMMA RestartKeeps ==
  ASSUME IInv, NEW p \in Pods, Restart(p)
  PROVE  IInv'
<1>1. /\ pc[p] = "down" /\ pc' = [pc EXCEPT ![p] = "requeue"]
      /\ todo' = [todo EXCEPT ![p] = Claimed]
      /\ UNCHANGED <<place, token, result, cur, tries, child, won, group, intact, stray, spared, mute, faults>>
  BY DEF Restart, Goto, queue, procs
<1>2. pc'[p] = "requeue" /\ \A q \in Pods : q # p => pc'[q] = pc[q]
  BY <1>1, Typed DEF IInv
<1>3. TypeOK'
  BY <1>1 DEF IInv, TypeOK, Claimed, IsTrainer
<1>4. HandInv(p)'
  BY <1>2 DEF HandInv, Busy, Training
<1>5. PodInv(p)'
  BY <1>1, <1>2, CalmPod DEF Out
<1>6. FinalInv'
  BY <1>1 DEF IInv, FinalInv
<1>7. TracksOwn(p)'
  BY <1>1, <1>2 DEF IInv, TrackInv, TracksOwn, IsTrainer, Waited, Named, Busy, Training
<1>8. Alone(p)
  BY <1>1, <1>2 DEF Alone, Out
<1>q. QED
  BY <1>3, <1>4, <1>5, <1>6, <1>7, <1>8, Assemble

LEMMA RequeueKeeps ==
  ASSUME IInv, NEW p \in Pods, Requeue(p)
  PROVE  IInv'
<1>1. PICK r \in Requests :
        /\ pc[p] = "requeue" /\ pc' = pc
        /\ place' = IF Untokened(r) THEN [place EXCEPT ![r] = "pending"] ELSE place
        /\ todo' = [todo EXCEPT ![p] = @ \ {r}]
        /\ UNCHANGED <<token, result, cur, tries, child, won, group, intact, stray, spared, mute, faults>>
  <2>1. Min(todo[p]) \in Requests
    BY MinIsIn DEF Requeue, IInv, TypeOK
  <2>q. QED
    BY <2>1 DEF Requeue, procs
<1>2. \A s \in Requests : \/ place'[s] = place[s]
                          \/ place[s] = "claimed" /\ token[s] = None /\ place'[s] = "pending"
  BY <1>1, Typed DEF Untokened, IInv
<1>3. TypeOK'
  BY <1>1 DEF IInv, TypeOK, IsTrainer
<1>4. HandInv(p)'
  BY <1>1 DEF HandInv, Busy, Training
<1>5. PodInv(p)'
  BY <1>1, CalmPod DEF Out
<1>6. FinalInv'
  BY <1>1, <1>2 DEF IInv, FinalInv, Over
<1>7. TracksOwn(p)'
  <2> SUFFICES ASSUME NEW g \in Pids, IsTrainer(p, g), <<p, g>> \notin stray
               PROVE  Named(p, g)'
    BY <1>1 DEF TracksOwn, IsTrainer
  <2>1. Named(p, g) /\ group[p][g].req \in Requests
    BY <1>1 DEF IInv, TrackInv, Waited, IsTrainer, Trainers
  <2>q. QED
    BY <1>1, <1>2, <2>1 DEF Named
<1>8. Alone(p)
  BY <1>1 DEF Alone, Out
<1>q. QED
  BY <1>3, <1>4, <1>5, <1>6, <1>7, <1>8, Assemble

LEMMA RequeuedKeeps ==
  ASSUME IInv, NEW p \in Pods, Requeued(p)
  PROVE  IInv'
<1>1. /\ pc[p] = "requeue" /\ pc' = [pc EXCEPT ![p] = "release"]
      /\ todo' = [todo EXCEPT ![p] = Tokened]
      /\ UNCHANGED <<place, token, result, cur, tries, child, won, group, intact, stray, spared, mute, faults>>
  BY DEF Requeued, Goto, queue, procs
<1>2. pc'[p] = "release" /\ \A q \in Pods : q # p => pc'[q] = pc[q]
  BY <1>1, Typed DEF IInv
<1>3. TypeOK'
  BY <1>1 DEF IInv, TypeOK, Tokened, IsTrainer
<1>4. HandInv(p)'
  BY <1>2 DEF HandInv, Busy, Training
<1>5. PodInv(p)'
  BY <1>1, <1>2, CalmPod DEF Out
<1>6. FinalInv'
  BY <1>1 DEF IInv, FinalInv
<1>7. TracksOwn(p)'
  BY <1>1, <1>2 DEF IInv, TrackInv, TracksOwn, IsTrainer, Waited, Named, Busy, Training
<1>8. Alone(p)
  BY <1>1, <1>2 DEF Alone, Out
<1>q. QED
  BY <1>3, <1>4, <1>5, <1>6, <1>7, <1>8, Assemble

LEMMA ReleasedKeeps ==
  ASSUME IInv, NEW p \in Pods, Released(p)
  PROVE  IInv'
<1>1. /\ pc[p] = "release" /\ pc' = [pc EXCEPT ![p] = "idle"]
      /\ UNCHANGED <<place, token, result, todo, cur, tries, child, won, group, intact, stray, spared, mute, faults>>
  BY DEF Released, Goto, queue, procs
<1>2. pc'[p] = "idle" /\ \A q \in Pods : q # p => pc'[q] = pc[q]
  BY <1>1, Typed DEF IInv
<1>3. TypeOK'
  BY <1>1 DEF IInv, TypeOK, IsTrainer
<1>4. HandInv(p)'
  BY <1>2 DEF HandInv, Busy, Training
<1>5. PodInv(p)'
  BY <1>1, <1>2, CalmPod DEF Out
<1>6. FinalInv'
  BY <1>1 DEF IInv, FinalInv
<1>7. TracksOwn(p)'
  BY <1>1, <1>2 DEF IInv, TrackInv, TracksOwn, IsTrainer, Waited, Named, Busy, Training
<1>8. Alone(p)
  BY <1>1, <1>2 DEF Alone, Out
<1>q. QED
  BY <1>3, <1>4, <1>5, <1>6, <1>7, <1>8, Assemble

\* Emptying a group: the others and their stray trainers stay.
LEMMA ClearKeeps ==
  ASSUME IInv, NEW p \in Pods, NEW g \in Pids, Clear(p, g)
  PROVE  /\ group' \in GroupTable /\ group'[p][g] = None
         /\ \A q \in Pods, h \in Pids : q # p \/ h # g => group'[q][h] = group[q][h]
         /\ stray' \subseteq Pods \X Pids /\ \A x \in stray' : IsTrainer(x[1], x[2])'
         /\ \A h \in Pids : h # g => (<<p, h>> \in stray' <=> <<p, h>> \in stray)
<1>1. /\ group' \in GroupTable /\ group'[p][g] = None
      /\ \A q \in Pods, h \in Pids : q # p \/ h # g => group'[q][h] = group[q][h]
  <2>1. group \in GroupTable /\ None \in Groupings /\ group' = With(group, p, g, None)
    BY Typed DEF IInv, Clear, Groupings, With
  <2>q. QED
    BY <2>1, OneGroup
<1>2. stray' = stray \ {<<p, g>>} /\ stray \subseteq Pods \X Pids
  BY DEF Clear, IInv, TypeOK
<1>3. ASSUME NEW x \in stray' PROVE IsTrainer(x[1], x[2])'
  <2>1. x \in stray /\ x # <<p, g>>
    BY <1>2
  <2>2. PICK q \in Pods, h \in Pids : x = <<q, h>>
    BY <1>2, <2>1
  <2>3. group'[q][h] = group[q][h]
    BY <1>1, <2>1, <2>2
  <2>4. IsTrainer(x[1], x[2])
    BY <2>1 DEF IInv, TypeOK
  <2>q. QED
    BY <2>2, <2>3, <2>4 DEF IsTrainer
<1>q. QED
  BY <1>1, <1>2, <1>3

LEMMA ReleaseKeeps ==
  ASSUME IInv, NEW p \in Pods, Release(p)
  PROVE  IInv'
<1> DEFINE r == Min(todo[p])
           giveBack == /\ place' = IF place[r] = "claimed" THEN [place EXCEPT ![r] = "pending"]
                                                           ELSE place
                       /\ Goto(p, "untoken")
                       /\ UNCHANGED todo
           keep == /\ todo' = [todo EXCEPT ![p] = @ \ {r}]
                   /\ UNCHANGED <<place, pc>>
<1>1. /\ pc[p] = "release" /\ todo[p] # {}
      /\ UNCHANGED <<token, result, cur, tries, child, won>>
      /\ \/ /\ keep /\ UNCHANGED <<group, intact, stray, mute>> /\ (UNCHANGED faults \/ Fault)
            /\ spared' = spared \/ spared' = [spared EXCEPT ![p] = @ \cup {r}]
         \/ Own(p, r) /\ Orphan(p, r) = None /\ giveBack /\ UNCHANGED procs
         \/ /\ Own(p, r) /\ Orphan(p, r) # None
            /\ Clear(p, Orphan(p, r)) /\ giveBack
            /\ UNCHANGED <<intact, spared, mute, faults>>
  BY DEF Release, procs
<1>2. r \in Requests /\ todo[p] \subseteq Requests
  BY <1>1, MinIsIn DEF IInv, TypeOK
<1> HIDE DEF r
<1>3. CASE /\ keep /\ UNCHANGED <<group, intact, stray, mute>> /\ (UNCHANGED faults \/ Fault)
           /\ spared' = spared \/ spared' = [spared EXCEPT ![p] = @ \cup {r}]
  <2>0. faults' \in 0 .. MaxFaults
    BY <1>3, TrainAssumption DEF Fault, IInv, TypeOK
  <2>s. spared' \in [Pods -> SUBSET Requests]
    BY <1>2, <1>3 DEF IInv, TypeOK
  <2>1. TypeOK'
    BY <1>1, <1>3, <2>0, <2>s DEF IInv, TypeOK, IsTrainer
  <2>2. HandInv(p)'
    BY <1>1, <1>3 DEF HandInv, Busy, Training
  <2>3. PodInv(p)'
    BY <1>1, <1>3, CalmPod DEF Out
  <2>4. FinalInv'
    BY <1>1, <1>3 DEF IInv, FinalInv
  <2>5. TracksOwn(p)'
    BY <1>1, <1>3 DEF IInv, TrackInv, TracksOwn, IsTrainer, Waited, Named, Busy, Training
  <2>6. Alone(p)
    BY <1>1, <1>3 DEF Alone, Out
  <2>q. QED
    BY <2>1, <2>2, <2>3, <2>4, <2>5, <2>6, Assemble
<1>4. CASE /\ Own(p, r) /\ giveBack
           /\ \/ Orphan(p, r) = None /\ UNCHANGED procs
              \/ /\ Orphan(p, r) # None /\ Clear(p, Orphan(p, r))
                 /\ UNCHANGED <<intact, spared, mute, faults>>
  <2>1. pc'[p] = "untoken" /\ \A q \in Pods : q # p => pc'[q] = pc[q]
    BY <1>4, Typed DEF Goto, IInv
  <2>2. /\ \A s \in Requests : s # r => place'[s] = place[s]
        /\ place'[r] # "claimed" /\ (place'[r] = place[r] \/ place[r] = "claimed")
    BY <1>2, <1>4, Typed DEF IInv
  <2>3. token[r] # None /\ token[r].owner = p /\ token[r].pgid \in Pids \cup {None}
    BY <1>2, <1>4 DEF Own, IInv, TypeOK, Tokens
  <2>4. Orphan(p, r) # None => Orphan(p, r) = token[r].pgid /\ Orphan(p, r) \in Pids
    BY <2>3 DEF Orphan
  <2>5. \/ UNCHANGED <<group, stray>>
        \/ Orphan(p, r) \in Pids /\ Clear(p, Orphan(p, r))
    BY <1>4, <2>4 DEF procs
  <2>6. UNCHANGED <<intact, spared, mute, faults, todo>>
    BY <1>4 DEF procs
  <2>7. /\ group' \in GroupTable
        /\ \A q \in Pods, h \in Pids : q # p \/ h # Orphan(p, r) => group'[q][h] = group[q][h]
        /\ stray' \subseteq Pods \X Pids /\ \A x \in stray' : IsTrainer(x[1], x[2])'
        /\ \A h \in Pids : h # Orphan(p, r) => (<<p, h>> \in stray' <=> <<p, h>> \in stray)
    <3>1. CASE UNCHANGED <<group, stray>>
      BY <3>1, Typed DEF IInv, TypeOK, IsTrainer
    <3>2. CASE Orphan(p, r) \in Pids /\ Clear(p, Orphan(p, r))
      <4>1. PICK g \in Pids : g = Orphan(p, r)
        BY <3>2
      <4>q. QED
        BY <3>2, <4>1, ClearKeeps
    <3>q. QED
      BY <2>5, <3>1, <3>2
  <2>8. TypeOK'
    <3>1. place' \in [Requests -> {"pending", "claimed", "parked", "succeeded", "failed"}]
      BY <1>2, <1>4 DEF IInv, TypeOK
    <3>2. pc' = [pc EXCEPT ![p] = "untoken"]
      BY <1>4 DEF Goto
    <3>q. QED
      BY <1>1, <2>6, <2>7, <3>1, <3>2 DEF IInv, TypeOK, GroupTable, Groupings
  <2>9. HandInv(p)'
    BY <1>1, <2>1, <2>2, <2>6 DEF HandInv, Busy, Training, r
  <2>10. PodInv(p)'
    <3>1. pc[p] \notin Out /\ pc'[p] \notin Out
      BY <1>1, <2>1 DEF Out
    <3>2. CASE UNCHANGED group
      BY <1>1, <2>6, <3>1, <3>2, CalmPod
    <3>3. CASE Orphan(p, r) \in Pids /\ Clear(p, Orphan(p, r))
      <4> SUFFICES ASSUME intact[p]
                   PROVE  /\ Serving(p)'
                          /\ \A s \in Requests :
                               token[s] # None /\ token[s].owner = p /\ token[s].pgid # None
                                 => group'[p][token[s].pgid] # Serve
        BY <1>1, <2>1, <2>6 DEF PodInv, Out
      <4>1. /\ Serving(p)
            /\ \A s \in Requests : token[s] # None /\ token[s].owner = p /\ token[s].pgid # None
                                     => group[p][token[s].pgid] # Serve
        BY <3>1 DEF IInv, PodInv
      <4>2. PICK g \in Pids : g = Orphan(p, r) /\ g = token[r].pgid /\ g # None
        BY <2>4, <3>3, TrainAssumption
      <4>3. group[p][g] # Serve
        BY <1>2, <2>3, <4>1, <4>2
      <4>4. group'[p][g] = None /\ \A h \in Pids : h # g => group'[p][h] = group[p][h]
        BY <3>3, <4>2, ClearKeeps
      <4>5. Serving(p)'
        BY <4>1, <4>3, <4>4 DEF Serving
      <4>6. ASSUME NEW s \in Requests, token[s] # None, token[s].owner = p, token[s].pgid # None
            PROVE  group'[p][token[s].pgid] # Serve
        <5>1. token[s].pgid \in Pids
          BY <4>6 DEF IInv, TypeOK, Tokens
        <5>q. QED
          BY <4>1, <4>4, <4>6, <5>1, TrainAssumption
      <4>q. QED
        BY <4>5, <4>6
    <3>q. QED
      BY <2>5, <3>2, <3>3
  <2>11. FinalInv'
    BY <1>1, <1>2, <2>2 DEF IInv, FinalInv, Over
  <2>12. TracksOwn(p)'
    <3> SUFFICES ASSUME NEW g \in Pids, IsTrainer(p, g)', <<p, g>> \notin stray'
                 PROVE  Named(p, g)'
      BY DEF TracksOwn
    <3>1. g # Orphan(p, r)
      <4> SUFFICES ASSUME g = Orphan(p, r) PROVE FALSE
        OBVIOUS
      <4>1. g # None
        BY TrainAssumption
      <4>2. Clear(p, g)
        BY <1>4, <4>1
      <4>q. QED
        BY <4>2, ClearKeeps, TrainAssumption DEF IsTrainer
    <3>2. group'[p][g] = group[p][g] /\ IsTrainer(p, g) /\ <<p, g>> \notin stray
      BY <2>7, <3>1 DEF IsTrainer
    <3>3. Named(p, g)
      BY <1>1, <3>2 DEF IInv, TrackInv, Waited
    <3>4. group[p][g].req # r
      BY <2>3, <3>1, <3>2, <3>3, TrainAssumption DEF Named, Orphan, IsTrainer
    <3>5. group[p][g].req \in Requests
      BY <3>2 DEF IsTrainer, Trainers
    <3>q. QED
      BY <1>1, <2>1, <2>2, <3>2, <3>3, <3>4, <3>5 DEF Named, Busy, Training
  <2>13. Alone(p)
    <3>1. \A q \in Pods : q # p => \A h \in Pids : group'[q][h] = group[q][h]
      BY <2>7
    <3>q. QED
      BY <1>1, <2>1, <3>1 DEF Alone, Out
  <2>q. QED
    BY <2>8, <2>9, <2>10, <2>11, <2>12, <2>13, Assemble
<1>q. QED
  BY <1>1, <1>3, <1>4

LEMMA UntokenKeeps ==
  ASSUME IInv, NEW p \in Pods, Untoken(p)
  PROVE  IInv'
<1>1. PICK r \in Requests :
        /\ pc[p] = "untoken" /\ pc' = [pc EXCEPT ![p] = "release"]
        /\ place[r] # "claimed"
        /\ token' = [token EXCEPT ![r] = None]
        /\ todo' = [todo EXCEPT ![p] = @ \ {r}]
        /\ UNCHANGED <<place, result, cur, tries, child, won, group, intact, stray, spared, mute, faults>>
  <2>1. todo[p] # {} /\ place[Min(todo[p])] # "claimed"
    BY DEF Untoken, IInv, HandInv
  <2>2. Min(todo[p]) \in Requests
    BY <2>1, MinIsIn DEF IInv, TypeOK
  <2>q. QED
    BY <2>1, <2>2 DEF Untoken, Goto, procs
<1>2. pc'[p] = "release" /\ \A q \in Pods : q # p => pc'[q] = pc[q]
  BY <1>1, Typed DEF IInv
<1>3. token'[r] = None /\ \A s \in Requests : s # r => token'[s] = token[s]
  BY <1>1, Typed DEF IInv
<1>4. TypeOK'
  BY <1>1 DEF IInv, TypeOK, IsTrainer
<1>5. HandInv(p)'
  BY <1>2 DEF HandInv, Busy, Training
<1>6. PodInv(p)'
  BY <1>1, <1>2, <1>3 DEF IInv, PodInv, Serving, Out
<1>7. FinalInv'
  BY <1>1 DEF IInv, FinalInv
<1>8. TracksOwn(p)'
  <2> SUFFICES ASSUME NEW g \in Pids, IsTrainer(p, g), <<p, g>> \notin stray
               PROVE  Named(p, g)'
    BY <1>1 DEF TracksOwn, IsTrainer
  <2>1. Named(p, g) /\ group[p][g].req \in Requests
    BY <1>1 DEF IInv, TrackInv, Waited, IsTrainer, Trainers
  <2>q. QED
    BY <1>1, <1>2, <1>3, <2>1 DEF Named, Busy, Training
<1>9. Alone(p)
  BY <1>1, <1>2, <1>3 DEF Alone, Out
<1>q. QED
  BY <1>4, <1>5, <1>6, <1>7, <1>8, <1>9, Assemble

--------------------------------------------------------------------------------
(* Taking a request, and closing it.                                        *)

LEMMA ClaimKeeps ==
  ASSUME IInv, NEW p \in Pods, Claim(p)
  PROVE  IInv'
<1>1. PICK r \in Requests :
        /\ place[r] = "pending" /\ pc[p] = "idle" /\ pc' = [pc EXCEPT ![p] = "read"]
        /\ place' = [place EXCEPT ![r] = "claimed"]
        /\ cur' = [cur EXCEPT ![p] = r] /\ tries' = [tries EXCEPT ![p] = 0]
        /\ UNCHANGED <<token, result, todo, child, won, group, intact, stray, spared, mute, faults>>
  <2>1. Waiting # {} /\ Waiting \in SUBSET Requests
    BY DEF Claim, Waiting
  <2>2. Min(Waiting) \in Waiting
    BY <2>1, MinIsIn
  <2>q. QED
    BY <2>1, <2>2 DEF Claim, Goto, procs, Waiting
<1>2. /\ pc'[p] = "read" /\ cur'[p] = r /\ tries'[p] = 0 /\ \A q \in Pods : q # p => pc'[q] = pc[q]
      /\ place'[r] = "claimed" /\ \A s \in Requests : s # r => place'[s] = place[s]
  BY <1>1, Typed DEF IInv
<1>3. TypeOK'
  BY <1>1, TrainAssumption DEF IInv, TypeOK, IsTrainer
<1>4. HandInv(p)'
  BY <1>2, TrainAssumption DEF HandInv, Busy, Training
<1>5. PodInv(p)'
  BY <1>1, <1>2, CalmPod DEF Out
<1>6. FinalInv'
  BY <1>1, <1>2 DEF IInv, FinalInv, Over
<1>7. TracksOwn(p)'
  <2> SUFFICES ASSUME NEW g \in Pids, IsTrainer(p, g), <<p, g>> \notin stray
               PROVE  Named(p, g)'
    BY <1>1 DEF TracksOwn, IsTrainer
  <2>1. Named(p, g) /\ group[p][g].req \in Requests
    BY <1>1 DEF IInv, TrackInv, Waited, IsTrainer, Trainers
  <2>q. QED
    BY <1>1, <1>2, <2>1 DEF Named
<1>8. Alone(p)
  BY <1>1, <1>2 DEF Alone, Out
<1>q. QED
  BY <1>3, <1>4, <1>5, <1>6, <1>7, <1>8, Assemble

\* An agent that waits for no trainer may do as it likes with its own request.
LEMMA OwnRequest ==
  ASSUME IInv, NEW p \in Pods, pc[p] \in Busy \ {"record", "wait"}, UNCHANGED <<group, stray>>,
         \A s \in Requests : s # cur[p] => place'[s] = place[s] /\ token'[s] = token[s],
         pc'[p] \in Busy => cur'[p] = cur[p]
  PROVE  TracksOwn(p)'
<1> SUFFICES ASSUME NEW g \in Pids, IsTrainer(p, g), <<p, g>> \notin stray
             PROVE  Named(p, g)'
  BY DEF TracksOwn, IsTrainer
<1>1. Named(p, g) /\ group[p][g].req \in Requests
  BY DEF IInv, TrackInv, Waited, IsTrainer, Trainers
<1>q. QED
  BY <1>1 DEF Named

LEMMA WriteTokenKeeps ==
  ASSUME IInv, NEW p \in Pods, WriteToken(p)
  PROVE  IInv'
<1> DEFINE new == [owner |-> p, pgid |-> None]
<1>1. /\ pc[p] = "read" /\ pc' = [pc EXCEPT ![p] = "start"]
      /\ token' = [token EXCEPT ![cur[p]] = new]
      /\ UNCHANGED <<place, result, todo, cur, tries, child, won, group, intact, stray, spared, mute, faults>>
  BY DEF WriteToken, Goto, procs
<1>2. cur[p] \in Requests
  BY <1>1, InHand DEF Busy
<1>3. new \in Tokens /\ new # None /\ new.owner = p /\ new.pgid = None
  BY TrainAssumption DEF Tokens
<1> HIDE DEF new
<1>4. /\ pc'[p] = "start" /\ \A q \in Pods : q # p => pc'[q] = pc[q]
      /\ token'[cur[p]] = new /\ \A s \in Requests : s # cur[p] => token'[s] = token[s]
  BY <1>1, <1>2, Typed DEF IInv
<1>5. TypeOK'
  BY <1>1, <1>2, <1>3 DEF IInv, TypeOK, IsTrainer
<1>6. HandInv(p)'
  <2>1. tries[p] < MaxAttempts
    BY <1>1 DEF IInv, HandInv
  <2>2. place[cur[p]] = "claimed"
    BY <1>1 DEF IInv, HandInv
  <2>q. QED
    BY <1>1, <1>2, <1>3, <1>4, <2>1, <2>2 DEF HandInv, Busy, Training
<1>7. PodInv(p)'
  BY <1>1, <1>2, <1>3, <1>4 DEF IInv, PodInv, Serving, Out
<1>8. FinalInv'
  BY <1>1 DEF IInv, FinalInv
<1>9. TracksOwn(p)'
  BY <1>1, <1>4, OwnRequest DEF Busy
<1>10. Alone(p)
  BY <1>1, <1>2, <1>3, <1>4 DEF Alone, Out
<1>q. QED
  BY <1>5, <1>6, <1>7, <1>8, <1>9, <1>10, Assemble

LEMMA ParkKeeps ==
  ASSUME IInv, NEW p \in Pods, Park(p)
  PROVE  IInv'
<1>1. /\ pc[p] = "read" /\ pc' = [pc EXCEPT ![p] = "parked"]
      /\ place' = [place EXCEPT ![cur[p]] = "parked"]
      /\ UNCHANGED <<token, result, todo, cur, tries, child, won, group, intact, stray, spared, mute, faults>>
  BY DEF Park, Goto, procs
<1>2. cur[p] \in Requests
  BY <1>1, InHand DEF Busy
<1>3. /\ pc'[p] = "parked" /\ \A q \in Pods : q # p => pc'[q] = pc[q]
      /\ place'[cur[p]] = "parked" /\ \A s \in Requests : s # cur[p] => place'[s] = place[s]
  BY <1>1, <1>2, Typed DEF IInv
<1>4. TypeOK'
  BY <1>1, <1>2 DEF IInv, TypeOK, IsTrainer
<1>5. HandInv(p)'
  BY <1>1, <1>2, <1>3 DEF HandInv, Busy, Training, Over
<1>6. PodInv(p)'
  BY <1>1, <1>3, CalmPod DEF Out
<1>7. FinalInv'
  BY <1>1, <1>3 DEF IInv, FinalInv, Over
<1>8. TracksOwn(p)'
  BY <1>1, <1>3, OwnRequest DEF Busy
<1>9. Alone(p)
  BY <1>1, <1>3 DEF Alone, Out
<1>q. QED
  BY <1>4, <1>5, <1>6, <1>7, <1>8, <1>9, Assemble

LEMMA RecordMalformedKeeps ==
  ASSUME IInv, NEW p \in Pods, RecordMalformed(p)
  PROVE  IInv'
<1>1. /\ pc[p] = "parked" /\ pc' = [pc EXCEPT ![p] = "idle"]
      /\ result' = [result EXCEPT ![cur[p]] = @ \cup {"malformed"}]
      /\ cur' = [cur EXCEPT ![p] = None]
      /\ UNCHANGED <<place, token, todo, tries, child, won, group, intact, stray, spared, mute, faults>>
  BY DEF RecordMalformed, Goto, procs
<1>2. cur[p] \in Requests /\ place[cur[p]] \in Over
  BY <1>1 DEF Busy, IInv, HandInv
<1>3. pc'[p] = "idle" /\ \A q \in Pods : q # p => pc'[q] = pc[q]
  BY <1>1, Typed DEF IInv
<1>4. TypeOK'
  BY <1>1, <1>2 DEF IInv, TypeOK, IsTrainer
<1>5. HandInv(p)'
  BY <1>3 DEF HandInv, Busy, Training
<1>6. PodInv(p)'
  BY <1>1, <1>3, CalmPod DEF Out
<1>7. FinalInv'
  BY <1>1, <1>2, Typed DEF IInv, FinalInv
<1>8. TracksOwn(p)'
  BY <1>1, <1>3, OwnRequest DEF Busy, Training
<1>9. Alone(p)
  BY <1>1, <1>3 DEF Alone, Out
<1>q. QED
  BY <1>4, <1>5, <1>6, <1>7, <1>8, <1>9, Assemble

LEMMA ArchiveKeeps ==
  ASSUME IInv, NEW p \in Pods, Archive(p)
  PROVE  IInv'
<1>1. /\ pc[p] = "archive" /\ pc' = [pc EXCEPT ![p] = "publish"]
      /\ place' = [place EXCEPT ![cur[p]] = Status(p)]
      /\ cur[p] \in Requests
      /\ UNCHANGED <<token, result, todo, cur, tries, child, won, group, intact, stray, spared, mute, faults>>
  BY DEF Archive, Archived, Goto, procs, IInv, HandInv, Busy, Training
<1>2. Status(p) \in {"succeeded", "failed"}
  BY DEF Status
<1>3. /\ pc'[p] = "publish" /\ \A q \in Pods : q # p => pc'[q] = pc[q]
      /\ place'[cur[p]] \in Over /\ \A s \in Requests : s # cur[p] => place'[s] = place[s]
  BY <1>1, <1>2, Typed DEF IInv, Over
<1>4. TypeOK'
  BY <1>1, <1>2 DEF IInv, TypeOK, IsTrainer
<1>5. HandInv(p)'
  <2>1. token[cur[p]] # None /\ token[cur[p]].owner = p
    BY <1>1 DEF IInv, HandInv, Training
  <2>q. QED
    BY <1>1, <1>3, <2>1 DEF HandInv, Busy, Training
<1>6. PodInv(p)'
  BY <1>1, <1>3, CalmPod DEF Out
<1>7. FinalInv'
  BY <1>1, <1>3 DEF IInv, FinalInv
<1>8. TracksOwn(p)'
  BY <1>1, <1>3, OwnRequest DEF Busy, Training
<1>9. Alone(p)
  BY <1>1, <1>3 DEF Alone, Out
<1>q. QED
  BY <1>4, <1>5, <1>6, <1>7, <1>8, <1>9, Assemble

LEMMA PublishKeeps ==
  ASSUME IInv, NEW p \in Pods, Publish(p)
  PROVE  IInv'
<1>1. /\ pc[p] = "publish" /\ pc' = [pc EXCEPT ![p] = "unlink"]
      /\ result' = [result EXCEPT ![cur[p]] = @ \cup {Status(p)}]
      /\ UNCHANGED <<place, token, todo, cur, tries, child, won, group, intact, stray, spared, mute, faults>>
  BY DEF Publish, Goto, procs
<1>2. /\ cur[p] \in Requests /\ place[cur[p]] \in Over
      /\ token[cur[p]] # None /\ token[cur[p]].owner = p
  BY <1>1 DEF Busy, Training, IInv, HandInv
<1>3. pc'[p] = "unlink" /\ \A q \in Pods : q # p => pc'[q] = pc[q]
  BY <1>1, Typed DEF IInv
<1>4. TypeOK'
  BY <1>1, <1>2 DEF IInv, TypeOK, IsTrainer, Status
<1>5. HandInv(p)'
  BY <1>1, <1>2, <1>3 DEF HandInv, Busy, Training
<1>6. PodInv(p)'
  BY <1>1, <1>3, CalmPod DEF Out
<1>7. FinalInv'
  BY <1>1, <1>2, Typed DEF IInv, FinalInv
<1>8. TracksOwn(p)'
  BY <1>1, <1>3, OwnRequest DEF Busy, Training
<1>9. Alone(p)
  BY <1>1, <1>3 DEF Alone, Out
<1>q. QED
  BY <1>4, <1>5, <1>6, <1>7, <1>8, <1>9, Assemble

LEMMA UnlinkKeeps ==
  ASSUME IInv, NEW p \in Pods, Unlink(p)
  PROVE  IInv'
<1>1. /\ pc[p] = "unlink" /\ pc' = [pc EXCEPT ![p] = "idle"]
      /\ token' = [token EXCEPT ![cur[p]] = None]
      /\ cur' = [cur EXCEPT ![p] = None] /\ won' = [won EXCEPT ![p] = FALSE]
      /\ UNCHANGED <<place, result, todo, tries, child, group, intact, stray, spared, mute, faults>>
  BY DEF Unlink, Goto, procs
<1>2. cur[p] \in Requests
  BY <1>1, InHand DEF Busy, Training
<1>3. /\ pc'[p] = "idle" /\ \A q \in Pods : q # p => pc'[q] = pc[q]
      /\ token'[cur[p]] = None /\ \A s \in Requests : s # cur[p] => token'[s] = token[s]
  BY <1>1, <1>2, Typed DEF IInv
<1>4. TypeOK'
  BY <1>1, <1>2 DEF IInv, TypeOK, IsTrainer
<1>5. HandInv(p)'
  BY <1>3 DEF HandInv, Busy, Training
<1>6. PodInv(p)'
  BY <1>1, <1>2, <1>3 DEF IInv, PodInv, Serving, Out
<1>7. FinalInv'
  BY <1>1 DEF IInv, FinalInv
<1>8. TracksOwn(p)'
  BY <1>1, <1>3, OwnRequest DEF Busy, Training
<1>9. Alone(p)
  BY <1>1, <1>2, <1>3 DEF Alone, Out
<1>q. QED
  BY <1>4, <1>5, <1>6, <1>7, <1>8, <1>9, Assemble

--------------------------------------------------------------------------------
(* Attempts.                                                                *)

LEMMA StartTrainerKeeps ==
  ASSUME IInv, NEW p \in Pods, StartTrainer(p)
  PROVE  IInv'
<1>1. cur[p] \in Requests /\ place[cur[p]] = "claimed" /\ tries[p] < MaxAttempts
      /\ token[cur[p]] # None /\ token[cur[p]].owner = p /\ token[cur[p]].pgid = None
  BY DEF StartTrainer, IInv, HandInv, Busy, Training
<1>2. PICK g \in Pids, v \in Trainers :
        /\ v = [req |-> cur[p], wrapper |-> TRUE] /\ group[p][g] = None
        /\ \A r \in Requests : token[r] # None => token[r].pgid # g \/ token[r].owner # p
        /\ pc[p] = "start" /\ pc' = [pc EXCEPT ![p] = "record"]
        /\ tries' = [tries EXCEPT ![p] = @ + 1] /\ child' = [child EXCEPT ![p] = g]
        /\ group' = With(group, p, g, v)
        /\ UNCHANGED <<place, token, result, todo, cur, won, intact, stray, spared, mute, faults>>
  <2>1. PICK v \in Trainers : v = [req |-> cur[p], wrapper |-> TRUE]
    BY <1>1 DEF Trainers
  <2>2. PICK g \in Fresh(p) :
          /\ group' = [group EXCEPT ![p][g] = [req |-> cur[p], wrapper |-> TRUE]]
          /\ child' = [child EXCEPT ![p] = g]
    BY DEF StartTrainer
  <2>3. group' = With(group, p, g, v)
    BY <2>1, <2>2 DEF With
  <2>4. /\ g \in Pids /\ group[p][g] = None
        /\ \A r \in Requests : token[r] # None => token[r].pgid # g \/ token[r].owner # p
    BY <2>2 DEF Fresh, Tokened
  <2>5. /\ pc[p] = "start" /\ pc' = [pc EXCEPT ![p] = "record"]
        /\ tries' = [tries EXCEPT ![p] = @ + 1]
        /\ UNCHANGED <<place, token, result, todo, cur, won, intact, stray, spared, mute, faults>>
    BY DEF StartTrainer, Goto, queue
  <2>q. QED
    BY <2>1, <2>2, <2>3, <2>4, <2>5
<1>3. v.req = cur[p] /\ v # Serve /\ v # None
  BY <1>2, TrainAssumption
<1>4. /\ group' \in GroupTable /\ group'[p][g] = v
      /\ \A q \in Pods, h \in Pids : q # p \/ h # g => group'[q][h] = group[q][h]
  <2>1. group \in GroupTable /\ v \in Groupings
    BY Typed DEF IInv, Groupings
  <2>2. /\ With(group, p, g, v) \in GroupTable /\ With(group, p, g, v)[p][g] = v
        /\ \A q \in Pods, h \in Pids :
             q # p \/ h # g => With(group, p, g, v)[q][h] = group[q][h]
    BY <2>1, OneGroup
  <2>q. QED
    BY <1>2, <2>2
<1>5. /\ pc'[p] = "record" /\ child'[p] = g /\ cur' = cur
      /\ \A q \in Pods : q # p => pc'[q] = pc[q]
  BY <1>2, Typed DEF IInv
<1>6. TypeOK'
  <2>1. tries' \in [Pods -> 0 .. MaxAttempts]
    BY <1>1, <1>2, TrainAssumption DEF IInv, TypeOK
  <2>2. ASSUME NEW x \in stray PROVE IsTrainer(x[1], x[2])'
    <3>1. PICK q \in Pods, h \in Pids : x = <<q, h>>
      BY DEF IInv, TypeOK
    <3>2. IsTrainer(q, h)
      BY <3>1 DEF IInv, TypeOK
    <3>3. group'[q][h] = v \/ group'[q][h] = group[q][h]
      BY <1>4
    <3>q. QED
      BY <1>2, <3>1, <3>2, <3>3 DEF IsTrainer
  <2>q. QED
    BY <1>2, <1>4, <2>1, <2>2 DEF IInv, TypeOK, GroupTable, Groupings
<1>7. HandInv(p)'
  BY <1>1, <1>2, <1>3, <1>4, <1>5 DEF HandInv, Busy, Training, IsTrainer
<1>8. PodInv(p)'
  <2> SUFFICES ASSUME intact[p]
               PROVE  /\ Serving(p)'
                      /\ \A s \in Requests :
                           token[s] # None /\ token[s].owner = p /\ token[s].pgid # None
                             => group'[p][token[s].pgid] # Serve
    BY <1>2, <1>5 DEF PodInv, Out
  <2>1. /\ Serving(p)
        /\ \A s \in Requests : token[s] # None /\ token[s].owner = p /\ token[s].pgid # None
                                 => group[p][token[s].pgid] # Serve
    BY <1>2 DEF IInv, PodInv, Out
  <2>2. Serving(p)'
    BY <1>2, <1>4, <2>1, TrainAssumption DEF Serving
  <2>3. ASSUME NEW s \in Requests, token[s] # None, token[s].owner = p, token[s].pgid # None
        PROVE  group'[p][token[s].pgid] # Serve
    <3>1. token[s].pgid \in Pids /\ token[s].pgid # g
      BY <1>2, <2>3 DEF IInv, TypeOK, Tokens
    <3>q. QED
      BY <1>4, <2>1, <2>3, <3>1
  <2>q. QED
    BY <2>2, <2>3
<1>9. FinalInv'
  BY <1>2 DEF IInv, FinalInv
<1>10. TracksOwn(p)'
  <2> SUFFICES ASSUME NEW h \in Pids, IsTrainer(p, h)', <<p, h>> \notin stray
               PROVE  Waited(p, h)' \/ Named(p, h)'
    BY <1>2 DEF TracksOwn
  <2>1. CASE h = g
    BY <1>5, <2>1 DEF Waited
  <2>2. CASE h # g
    <3>1. group'[p][h] = group[p][h] /\ IsTrainer(p, h)
      BY <1>4, <2>2 DEF IsTrainer
    <3>2. Named(p, h)
      BY <1>2, <3>1 DEF IInv, TrackInv, Waited
    <3>q. QED
      BY <1>2, <1>5, <3>1, <3>2 DEF Named, Busy, Training
  <2>q. QED
    BY <2>1, <2>2
<1>11. Alone(p)
  BY <1>2, <1>4, <1>5 DEF Alone, Out
<1>q. QED
  BY <1>6, <1>7, <1>8, <1>9, <1>10, <1>11, Assemble

LEMMA RecordKeeps ==
  ASSUME IInv, NEW p \in Pods, Record(p)
  PROVE  IInv'
<1>1. /\ pc[p] = "record" /\ pc' = [pc EXCEPT ![p] = "wait"]
      /\ token' = Noted(cur[p], child[p])
      /\ UNCHANGED <<place, result, todo, cur, tries, child, won, group, intact, stray, spared, mute, faults>>
  BY DEF Record, Goto, procs
<1>2. /\ cur[p] \in Requests /\ place[cur[p]] = "claimed"
      /\ token[cur[p]] # None /\ token[cur[p]].owner = p
      /\ child[p] \in Pids /\ IsTrainer(p, child[p]) /\ group[p][child[p]].req = cur[p]
  BY <1>1 DEF IInv, HandInv, Busy, Training
<1>3. /\ token' \in [Requests -> Tokens \cup {None}]
      /\ \A s \in Requests : s # cur[p] => token'[s] = token[s]
      /\ token'[cur[p]] # None /\ token'[cur[p]].pgid = child[p] /\ token'[cur[p]].owner = p
  <2>1. PICK r \in Requests, g \in Pids : r = cur[p] /\ g = child[p]
    BY <1>2
  <2>q. QED
    BY <1>1, <1>2, <2>1, NotedToken DEF IInv
<1>4. pc'[p] = "wait" /\ \A q \in Pods : q # p => pc'[q] = pc[q]
  BY <1>1, Typed DEF IInv
<1>5. TypeOK'
  BY <1>1, <1>3 DEF IInv, TypeOK, IsTrainer
<1>6. HandInv(p)'
  BY <1>1, <1>2, <1>3, <1>4 DEF HandInv, Busy, Training, IsTrainer
<1>7. PodInv(p)'
  <2>1. group[p][child[p]] # Serve
    BY <1>2, TrainAssumption DEF IsTrainer
  <2>q. QED
    BY <1>1, <1>2, <1>3, <1>4, <2>1 DEF IInv, PodInv, Serving, Out
<1>8. FinalInv'
  BY <1>1 DEF IInv, FinalInv
<1>9. TracksOwn(p)'
  <2> SUFFICES ASSUME NEW g \in Pids, IsTrainer(p, g), <<p, g>> \notin stray
               PROVE  Waited(p, g)' \/ Named(p, g)'
    BY <1>1 DEF TracksOwn, IsTrainer
  <2>1. (Waited(p, g) \/ Named(p, g)) /\ group[p][g].req \in Requests
    BY DEF IInv, TrackInv, IsTrainer, Trainers
  <2>q. QED
    BY <1>1, <1>3, <1>4, <2>1 DEF Waited, Named, Busy, Training
<1>10. Alone(p)
  BY <1>1, <1>2, <1>3, <1>4 DEF Alone, Out
<1>q. QED
  BY <1>5, <1>6, <1>7, <1>8, <1>9, <1>10, Assemble

LEMMA UnrecordKeeps ==
  ASSUME IInv, NEW p \in Pods, Unrecord(p)
  PROVE  IInv'
<1>1. /\ pc[p] = "unrecord" /\ token' = Noted(cur[p], None)
      /\ pc' = [pc EXCEPT ![p] = IF Again(p) THEN "start" ELSE "archive"]
      /\ child' = [child EXCEPT ![p] = None]
      /\ UNCHANGED <<place, result, todo, cur, tries, won, group, intact, stray, spared, mute, faults>>
  BY DEF Unrecord, Goto, procs
<1>2. /\ cur[p] \in Requests /\ place[cur[p]] = "claimed"
      /\ token[cur[p]] # None /\ token[cur[p]].owner = p
  BY <1>1 DEF IInv, HandInv, Busy, Training
<1>3. /\ token' \in [Requests -> Tokens \cup {None}]
      /\ \A s \in Requests : s # cur[p] => token'[s] = token[s]
      /\ token'[cur[p]] # None /\ token'[cur[p]].pgid = None /\ token'[cur[p]].owner = p
  <2>1. PICK r \in Requests : r = cur[p]
    BY <1>2
  <2>q. QED
    BY <1>1, <1>2, <2>1, NotedToken DEF IInv
<1>4. /\ (pc'[p] = "start" /\ tries[p] < MaxAttempts) \/ pc'[p] = "archive"
      /\ \A q \in Pods : q # p => pc'[q] = pc[q]
  BY <1>1, Typed DEF IInv, Again
<1>5. TypeOK'
  BY <1>1, <1>3 DEF IInv, TypeOK, IsTrainer
<1>6. HandInv(p)'
  BY <1>1, <1>2, <1>3, <1>4 DEF HandInv, Busy, Training
<1>7. PodInv(p)'
  BY <1>1, <1>2, <1>3, <1>4 DEF IInv, PodInv, Serving, Out
<1>8. FinalInv'
  BY <1>1 DEF IInv, FinalInv
<1>9. TracksOwn(p)'
  BY <1>1, <1>3, OwnRequest DEF Busy, Training
<1>10. Alone(p)
  BY <1>1, <1>2, <1>3, <1>4 DEF Alone, Out
<1>q. QED
  BY <1>5, <1>6, <1>7, <1>8, <1>9, <1>10, Assemble

\* The end of an attempt: its group is empty, or its trainer is lost.
Elsewhere(p, g) ==
  /\ group' \in GroupTable /\ group'[p][g] # Serve
  /\ \A q \in Pods, h \in Pids : q # p \/ h # g => group'[q][h] = group[q][h]
  /\ stray' \subseteq Pods \X Pids /\ \A x \in stray' : IsTrainer(x[1], x[2])'
  /\ \A h \in Pids : h # g => (<<p, h>> \in stray' <=> <<p, h>> \in stray)

Settled(p, g) == Elsewhere(p, g) /\ (~IsTrainer(p, g)' \/ <<p, g>> \in stray')

LEMMA ClearSettles ==
  ASSUME IInv, NEW p \in Pods, NEW g \in Pids, Clear(p, g)
  PROVE  Settled(p, g)
BY ClearKeeps, TrainAssumption DEF Settled, Elsewhere, IsTrainer

\* A trainer that goes on while nobody will look for it.
LEMMA LoseSettles ==
  ASSUME IInv, NEW p \in Pods, NEW g \in Pids, IsTrainer(p, g), Lose(p, g),
         group' = group \/ group' = [group EXCEPT ![p][g].wrapper = FALSE]
  PROVE  Settled(p, g)
<1>1. /\ group' \in GroupTable /\ IsTrainer(p, g)'
      /\ \A q \in Pods, h \in Pids : q # p \/ h # g => group'[q][h] = group[q][h]
  <2>1. group \in GroupTable
    BY Typed DEF IInv
  <2>2. CASE group' = group
    BY <2>1, <2>2 DEF IsTrainer
  <2>3. CASE group' = [group EXCEPT ![p][g].wrapper = FALSE]
    BY <2>1, <2>3, Unwrapped
  <2>q. QED
    BY <2>2, <2>3
<1>2. stray' = stray \cup {<<p, g>>} /\ stray \subseteq Pods \X Pids
  BY DEF Lose, IInv, TypeOK
<1>3. ASSUME NEW x \in stray' PROVE IsTrainer(x[1], x[2])'
  <2>1. CASE x = <<p, g>>
    BY <1>1, <2>1
  <2>2. CASE x # <<p, g>>
    <3>1. x \in stray /\ IsTrainer(x[1], x[2])
      BY <1>2, <2>2 DEF IInv, TypeOK
    <3>2. PICK q \in Pods, h \in Pids : x = <<q, h>>
      BY <1>2, <3>1
    <3>3. group'[q][h] = group[q][h]
      BY <1>1, <2>2, <3>2
    <3>q. QED
      BY <3>1, <3>2, <3>3 DEF IsTrainer
  <2>q. QED
    BY <2>1, <2>2
<1>4. group'[p][g] # Serve
  BY <1>1, TrainAssumption DEF IsTrainer
<1>q. QED
  BY <1>1, <1>2, <1>3, <1>4 DEF Settled, Elsewhere

\* Whatever its own group becomes, the serving processes are not touched.
LEMMA ServingKept ==
  ASSUME IInv, NEW p \in Pods, NEW g \in Pids, pc[p] \notin Out, pc'[p] \notin Out,
         IsTrainer(p, g), Elsewhere(p, g), token' = token, intact' = intact
  PROVE  PodInv(p)'
<1> SUFFICES ASSUME intact[p]
             PROVE  /\ Serving(p)'
                    /\ \A s \in Requests :
                         token[s] # None /\ token[s].owner = p /\ token[s].pgid # None
                           => group'[p][token[s].pgid] # Serve
  BY DEF PodInv, Out
<1>1. /\ Serving(p)
      /\ \A s \in Requests : token[s] # None /\ token[s].owner = p /\ token[s].pgid # None
                               => group[p][token[s].pgid] # Serve
  BY DEF IInv, PodInv
<1>2. Serving(p)'
  BY <1>1, TrainAssumption DEF Serving, Elsewhere, IsTrainer
<1>3. ASSUME NEW s \in Requests, token[s] # None, token[s].owner = p, token[s].pgid # None
      PROVE  group'[p][token[s].pgid] # Serve
  <2>1. token[s].pgid \in Pids
    BY <1>3 DEF IInv, TypeOK, Tokens
  <2>q. QED
    BY <1>1, <1>3, <2>1 DEF Elsewhere
<1>q. QED
  BY <1>2, <1>3

LEMMA AttemptEnds ==
  ASSUME IInv, NEW p \in Pods, pc[p] = "wait", Settled(p, child[p]),
         pc' = [pc EXCEPT ![p] = "unrecord"], won' \in [Pods -> BOOLEAN],
         faults' \in 0 .. MaxFaults,
         UNCHANGED <<place, token, result, todo, cur, tries, child, intact, spared, mute>>
  PROVE  IInv'
<1>1. /\ cur[p] \in Requests /\ place[cur[p]] = "claimed"
      /\ token[cur[p]] # None /\ token[cur[p]].owner = p
      /\ child[p] \in Pids /\ IsTrainer(p, child[p])
  BY DEF IInv, HandInv, Busy, Training
<1>2. pc'[p] = "unrecord" /\ \A q \in Pods : q # p => pc'[q] = pc[q]
  BY Typed DEF IInv
<1>3. TypeOK'
  BY DEF Settled, Elsewhere, IInv, TypeOK, GroupTable, Groupings
<1>4. HandInv(p)'
  BY <1>1, <1>2 DEF HandInv, Busy, Training
<1>5. PodInv(p)'
  BY <1>1, <1>2, ServingKept DEF Settled, Out
<1>6. FinalInv'
  BY DEF IInv, FinalInv
<1>7. TracksOwn(p)'
  <2> SUFFICES ASSUME NEW g \in Pids, IsTrainer(p, g)', <<p, g>> \notin stray'
               PROVE  Named(p, g)'
    BY DEF TracksOwn
  <2>1. g # child[p]
    BY DEF Settled
  <2>2. group'[p][g] = group[p][g] /\ IsTrainer(p, g) /\ <<p, g>> \notin stray
    BY <2>1 DEF Settled, Elsewhere, IsTrainer
  <2>3. Named(p, g)
    BY <2>1, <2>2 DEF IInv, TrackInv, Waited
  <2>q. QED
    BY <1>2, <2>2, <2>3 DEF Named, Busy, Training
<1>8. Alone(p)
  <2>1. \A q \in Pods : q # p => \A h \in Pids : group'[q][h] = group[q][h]
    BY DEF Settled, Elsewhere
  <2>q. QED
    BY <1>2, <2>1 DEF Alone, Out
<1>q. QED
  BY <1>3, <1>4, <1>5, <1>6, <1>7, <1>8, Assemble

LEMMA FaultIsTyped ==
  ASSUME IInv, UNCHANGED faults \/ Fault
  PROVE  faults' \in 0 .. MaxFaults
BY TrainAssumption DEF Fault, IInv, TypeOK

LEMMA WaitKeeps ==
  ASSUME IInv, NEW p \in Pods, Exit(p) \/ Timeout(p) \/ WrapperDies(p)
  PROVE  IInv'
<1>1. /\ pc[p] = "wait" /\ pc' = [pc EXCEPT ![p] = "unrecord"]
      /\ \E ok \in BOOLEAN : won' = [won EXCEPT ![p] = ok]
      /\ UNCHANGED faults \/ Fault
      /\ UNCHANGED <<place, token, result, todo, cur, tries, child, intact, spared, mute>>
      /\ \/ Clear(p, child[p])
         \/ /\ Lose(p, child[p])
            /\ group' = group \/ group' = [group EXCEPT ![p][child[p]].wrapper = FALSE]
  <2>1. CASE Exit(p)
    BY <2>1 DEF Exit, Goto, queue
  <2>2. CASE Timeout(p)
    BY <2>2 DEF Timeout, Ends, Goto, queue
  <2>3. CASE WrapperDies(p)
    BY <2>3 DEF WrapperDies, Goto, queue
  <2>q. QED
    BY <2>1, <2>2, <2>3
<1>2. PICK g \in Pids : g = child[p] /\ IsTrainer(p, g)
  BY <1>1 DEF IInv, HandInv
<1>3. Settled(p, child[p])
  BY <1>1, <1>2, ClearSettles, LoseSettles
<1>4. won' \in [Pods -> BOOLEAN]
  BY <1>1 DEF IInv, TypeOK
<1>q. QED
  BY <1>1, <1>3, <1>4, FaultIsTyped, AttemptEnds

--------------------------------------------------------------------------------
(* Deaths.                                                                  *)

LEMMA ForgetTyped ==
  ASSUME TypeOK, NEW p \in Pods, HandInv(p), Forget(p)
  PROVE  /\ todo' \in [Pods -> SUBSET Requests] /\ cur' \in [Pods -> Requests \cup {None}]
         /\ tries' \in [Pods -> 0 .. MaxAttempts] /\ child' \in [Pods -> Pids \cup {None}]
         /\ won' \in [Pods -> BOOLEAN]
         /\ spared' \in [Pods -> SUBSET Requests] /\ mute' \subseteq Requests
<1>1. /\ todo' \in [Pods -> SUBSET Requests] /\ cur' \in [Pods -> Requests \cup {None}]
      /\ tries' \in [Pods -> 0 .. MaxAttempts] /\ child' \in [Pods -> Pids \cup {None}]
      /\ won' \in [Pods -> BOOLEAN] /\ spared' \in [Pods -> SUBSET Requests]
  BY TrainAssumption DEF Forget, TypeOK
<1>2. pc[p] \in {"publish", "parked"} => cur[p] \in Requests
  BY DEF HandInv, Busy, Training
<1>3. mute' \subseteq Requests
  BY <1>2 DEF Forget, TypeOK
<1>q. QED
  BY <1>1, <1>3

\* What an agent leaves when it dies: nothing in its hands, its trainers tracked.
LEMMA Dies ==
  ASSUME IInv, NEW p \in Pods, pc[p] \notin Out, NEW l \in {"down", "gone"},
         pc' = [pc EXCEPT ![p] = l], Forget(p), UNCHANGED <<place, token, result>>,
         intact' \in [Pods -> BOOLEAN], faults' \in 0 .. MaxFaults,
         group' \in GroupTable,
         \A q \in Pods : q # p => \A h \in Pids : group'[q][h] = group[q][h],
         stray' \subseteq Pods \X Pids, \A x \in stray' : IsTrainer(x[1], x[2])',
         PodInv(p)', TracksOwn(p)'
  PROVE  IInv'
<1>1. pc'[p] = l /\ \A q \in Pods : q # p => pc'[q] = pc[q]
  BY Typed DEF IInv
<1>2. TypeOK'
  <2>1. TypeOK /\ HandInv(p)
    BY DEF IInv
  <2>2. pc' \in [Pods -> {"off", "gone", "down", "requeue", "release", "untoken", "idle", "read",
                         "parked", "start", "record", "wait", "unrecord", "archive", "publish",
                         "unlink"}]
    BY <2>1 DEF TypeOK
  <2>q. QED
    BY <2>1, <2>2, ForgetTyped DEF TypeOK, GroupTable, Groupings
<1>3. HandInv(p)'
  BY <1>1 DEF HandInv, Busy, Training
<1>4. FinalInv'
  BY DEF IInv, FinalInv
<1>5. Alone(p)
  BY <1>1 DEF Alone
<1>q. QED
  BY <1>2, <1>3, <1>4, <1>5, Assemble

LEMMA CrashKeeps ==
  ASSUME IInv, NEW p \in Pods, Crash(p)
  PROVE  IInv'
<1>1. /\ pc[p] \notin Out /\ pc' = [pc EXCEPT ![p] = "down"] /\ Forget(p) /\ Fault
      /\ UNCHANGED <<place, token, result, intact>>
  BY DEF Crash, Up, Out, Goto, queue
<1>2. pc'[p] = "down" /\ pc'[p] \notin Out
  BY <1>1, Typed DEF IInv, Out
<1>3. faults' \in 0 .. MaxFaults /\ intact' \in [Pods -> BOOLEAN]
  BY <1>1, FaultIsTyped DEF IInv, TypeOK
<1>4. CASE pc[p] \notin {"record", "wait"}
  <2>1. UNCHANGED <<group, stray>>
    BY <1>4 DEF Crash
  <2>2. PodInv(p)'
    BY <1>1, <1>2, <2>1, CalmPod
  <2>3. TracksOwn(p)'
    <3> SUFFICES ASSUME NEW g \in Pids, IsTrainer(p, g), <<p, g>> \notin stray
                 PROVE  Named(p, g)'
      BY <2>1 DEF TracksOwn, IsTrainer
    <3>1. Named(p, g)
      BY <1>4 DEF IInv, TrackInv, Waited
    <3>q. QED
      BY <1>1, <1>2, <2>1, <3>1 DEF Named, Busy, Training
  <2>4. /\ group' \in GroupTable /\ stray' \subseteq Pods \X Pids
        /\ \A x \in stray' : IsTrainer(x[1], x[2])'
    BY <2>1, Typed DEF IInv, TypeOK, IsTrainer
  <2>q. QED
    BY <1>1, <1>3, <2>1, <2>2, <2>3, <2>4, Dies
<1>5. CASE pc[p] \in {"record", "wait"}
  <2>1. PICK g \in Pids : /\ g = child[p] /\ IsTrainer(p, g) /\ group[p][g].req = cur[p]
                          /\ cur[p] \in Requests /\ place[cur[p]] = "claimed"
                          /\ token[cur[p]] # None /\ token[cur[p]].owner = p
                          /\ pc[p] = "wait" => token[cur[p]].pgid = g
    BY <1>5 DEF IInv, HandInv, Busy, Training
  <2>2. /\ group' = [group EXCEPT ![p][g].wrapper = FALSE]
        /\ IF pc[p] = "record" THEN Lose(p, g) ELSE UNCHANGED stray
    BY <1>5, <2>1 DEF Crash
  <2>3. /\ group' \in GroupTable /\ IsTrainer(p, g)' /\ group'[p][g].req = cur[p]
        /\ \A q \in Pods, h \in Pids : q # p \/ h # g => group'[q][h] = group[q][h]
    BY <2>1, <2>2, Unwrapped, Typed DEF IInv
  <2>4. Elsewhere(p, g)
    <3>1. CASE pc[p] = "record"
      <4>1. Lose(p, g)
        BY <2>2, <3>1
      <4>q. QED
        BY <2>1, <2>2, <4>1, LoseSettles DEF Settled
    <3>2. CASE pc[p] = "wait"
      <4>1. stray' = stray
        BY <2>2, <3>2
      <4>2. group'[p][g] # Serve
        BY <2>3, TrainAssumption DEF IsTrainer
      <4>3. ASSUME NEW x \in stray PROVE IsTrainer(x[1], x[2])'
        <5>1. PICK q \in Pods, h \in Pids : x = <<q, h>>
          BY DEF IInv, TypeOK
        <5>2. IsTrainer(q, h)
          BY <5>1 DEF IInv, TypeOK
        <5>q. QED
          BY <2>3, <5>1, <5>2 DEF IsTrainer
      <4>q. QED
        BY <2>3, <4>1, <4>2, <4>3 DEF Elsewhere, IInv, TypeOK
    <3>q. QED
      BY <1>5, <3>1, <3>2
  <2>5. PodInv(p)'
    BY <1>1, <1>2, <2>1, <2>4, ServingKept
  <2>6. TracksOwn(p)'
    <3> SUFFICES ASSUME NEW h \in Pids, IsTrainer(p, h)', <<p, h>> \notin stray'
                 PROVE  Named(p, h)'
      BY DEF TracksOwn
    <3>1. CASE h = g
      <4>1. pc[p] = "wait"
        BY <1>5, <2>2, <3>1 DEF Lose
      <4>q. QED
        BY <1>1, <1>2, <2>1, <2>3, <3>1, <4>1 DEF Named, Busy, Training
    <3>2. CASE h # g
      <4>1. group'[p][h] = group[p][h] /\ IsTrainer(p, h) /\ <<p, h>> \notin stray
        BY <2>4, <3>2 DEF Elsewhere, IsTrainer
      <4>2. Named(p, h)
        BY <2>1, <3>2, <4>1 DEF IInv, TrackInv, Waited
      <4>q. QED
        BY <1>1, <1>2, <4>1, <4>2 DEF Named, Busy, Training
    <3>q. QED
      BY <3>1, <3>2
  <2>7. /\ group' \in GroupTable /\ stray' \subseteq Pods \X Pids
        /\ \A x \in stray' : IsTrainer(x[1], x[2])'
        /\ \A q \in Pods : q # p => \A h \in Pids : group'[q][h] = group[q][h]
    BY <2>4 DEF Elsewhere
  <2>q. QED
    BY <1>1, <1>3, <2>5, <2>6, <2>7, Dies
<1>q. QED
  BY <1>4, <1>5

LEMMA OrphanExitsKeeps ==
  ASSUME IInv, NEW p \in Pods, NEW g \in Pids, OrphanExits(p, g)
  PROVE  IInv'
<1>1. /\ IsTrainer(p, g) /\ child[p] # g /\ Clear(p, g)
      /\ UNCHANGED <<place, token, result, pc, todo, cur, tries, child, won, intact,
                     spared, mute, faults>>
  BY DEF OrphanExits, queue, agent
<1>2. pc[p] \notin Out
  BY <1>1, TrainAssumption DEF IInv, PodInv, IsTrainer
<1>3. Settled(p, g)
  BY <1>1, ClearSettles
<1>4. TypeOK'
  BY <1>1, <1>3 DEF Settled, Elsewhere, IInv, TypeOK, GroupTable, Groupings
<1>5. HandInv(p)'
  BY <1>1, <1>3 DEF IInv, HandInv, Settled, Elsewhere, IsTrainer
<1>6. PodInv(p)'
  BY <1>1, <1>2, <1>3, ServingKept DEF Settled
<1>7. FinalInv'
  BY <1>1 DEF IInv, FinalInv
<1>8. TracksOwn(p)'
  <2> SUFFICES ASSUME NEW h \in Pids, IsTrainer(p, h)', <<p, h>> \notin stray'
               PROVE  Waited(p, h)' \/ Named(p, h)'
    BY DEF TracksOwn
  <2>1. group'[p][h] = group[p][h] /\ IsTrainer(p, h) /\ <<p, h>> \notin stray
    BY <1>3 DEF Settled, Elsewhere, IsTrainer
  <2>2. Waited(p, h) \/ Named(p, h)
    BY <2>1 DEF IInv, TrackInv
  <2>q. QED
    BY <1>1, <2>1, <2>2 DEF Waited, Named
<1>9. Alone(p)
  BY <1>1, <1>2, <1>3 DEF Alone, Settled, Elsewhere
<1>q. QED
  BY <1>4, <1>5, <1>6, <1>7, <1>8, <1>9, Assemble

\* A pod whose processes are replaced has no trainers.
LEMMA Replaced ==
  ASSUME IInv, NEW p \in Pods, NEW row \in [Pids -> {None, Serve}],
         group' = [group EXCEPT ![p] = row], stray' = {x \in stray : x[1] # p}
  PROVE  /\ group' \in GroupTable /\ group'[p] = row
         /\ \A q \in Pods : q # p => \A h \in Pids : group'[q][h] = group[q][h]
         /\ stray' \subseteq Pods \X Pids /\ \A x \in stray' : IsTrainer(x[1], x[2])'
         /\ TracksOwn(p)'
<1>1. row \in [Pids -> Groupings]
  BY DEF Groupings
<1>2. /\ group' \in GroupTable /\ group'[p] = row
      /\ \A q \in Pods : q # p => group'[q] = group[q]
  BY <1>1, Typed DEF IInv, GroupTable
<1>3. stray' \subseteq stray /\ stray \subseteq Pods \X Pids
  BY DEF IInv, TypeOK
<1>4. ASSUME NEW x \in stray' PROVE IsTrainer(x[1], x[2])'
  <2>1. x \in stray /\ x[1] # p /\ IsTrainer(x[1], x[2])
    BY <1>3 DEF IInv, TypeOK
  <2>2. PICK q \in Pods, h \in Pids : x = <<q, h>>
    BY <1>3
  <2>q. QED
    BY <1>2, <2>1, <2>2 DEF IsTrainer
<1>5. \A g \in Pids : ~IsTrainer(p, g)'
  BY <1>2, TrainAssumption DEF IsTrainer
<1>q. QED
  BY <1>2, <1>3, <1>4, <1>5 DEF TracksOwn

LEMMA BootRow ==
  ASSUME NEW p \in Pods, Boot(p)
  PROVE  \E row \in [Pids -> {None, Serve}] :
           /\ group' = [group EXCEPT ![p] = row] /\ stray' = {x \in stray : x[1] # p}
           /\ \E g \in Pids : row[g] = Serve
           /\ pc' = [pc EXCEPT ![p] = "down"] /\ Forget(p)
<1>1. PICK s \in Pids :
        group' = [group EXCEPT ![p] = [g \in Pids |-> IF g = s THEN Serve ELSE None]]
  BY DEF Boot
<1> DEFINE row == [g \in Pids |-> IF g = s THEN Serve ELSE None]
<1>2. row \in [Pids -> {None, Serve}] /\ row[s] = Serve
  OBVIOUS
<1>3. group' = [group EXCEPT ![p] = row]
  BY <1>1
<1> HIDE DEF row
<1>q. QED
  BY <1>2, <1>3 DEF Boot, Goto

LEMMA ContainerRestartsKeeps ==
  ASSUME IInv, NEW p \in Pods, ContainerRestarts(p)
  PROVE  IInv'
<1>1. /\ pc[p] \notin Out /\ Boot(p) /\ Fault /\ intact' = [intact EXCEPT ![p] = FALSE]
      /\ UNCHANGED <<place, token, result>>
  BY DEF ContainerRestarts, Out, queue
<1>2. PICK row \in [Pids -> {None, Serve}] :
        /\ group' = [group EXCEPT ![p] = row] /\ stray' = {x \in stray : x[1] # p}
        /\ pc' = [pc EXCEPT ![p] = "down"] /\ Forget(p)
  BY <1>1, BootRow
<1>3. pc'[p] = "down" /\ intact'[p] = FALSE /\ intact' \in [Pods -> BOOLEAN]
  BY <1>1, <1>2, Typed DEF IInv, TypeOK
<1>4. faults' \in 0 .. MaxFaults
  BY <1>1, FaultIsTyped
<1>5. PodInv(p)'
  BY <1>3 DEF PodInv, Out
<1>q. QED
  BY <1>1, <1>2, <1>3, <1>4, <1>5, Replaced, Dies

LEMMA PodGoesKeeps ==
  ASSUME IInv, NEW p \in Pods, PodGoes(p)
  PROVE  IInv'
<1> DEFINE row == [g \in Pids |-> None]
<1>1. /\ pc[p] \notin Out /\ Fault /\ group' = [group EXCEPT ![p] = row]
      /\ stray' = {x \in stray : x[1] # p}
      /\ pc' = [pc EXCEPT ![p] = "gone"] /\ Forget(p)
      /\ UNCHANGED <<place, token, result, intact>>
  BY DEF PodGoes, Out, Goto, queue
<1>2. PICK none \in [Pids -> {None, Serve}] : none = row
  OBVIOUS
<1>3. \A g \in Pids : none[g] = None
  BY <1>2
<1>4. group' = [group EXCEPT ![p] = none]
  BY <1>1, <1>2
<1> HIDE DEF row
<1>5. pc'[p] = "gone" /\ intact' \in [Pods -> BOOLEAN] /\ faults' \in 0 .. MaxFaults
  BY <1>1, FaultIsTyped, Typed DEF IInv, TypeOK
<1>6. /\ group' \in GroupTable /\ group'[p] = none
      /\ \A q \in Pods : q # p => \A h \in Pids : group'[q][h] = group[q][h]
      /\ stray' \subseteq Pods \X Pids /\ \A x \in stray' : IsTrainer(x[1], x[2])'
      /\ TracksOwn(p)'
  BY <1>1, <1>4, Replaced
<1>7. PodInv(p)'
  BY <1>3, <1>5, <1>6 DEF PodInv, Out
<1>q. QED
  BY <1>1, <1>5, <1>6, <1>7, Dies

LEMMA PodStartsKeeps ==
  ASSUME IInv, NEW p \in Pods, PodStarts(p)
  PROVE  IInv'
<1>1. /\ pc[p] = "off" /\ (\A q \in Pods : pc[q] \in Out) /\ Boot(p)
      /\ UNCHANGED <<place, token, result, intact, faults>>
  BY DEF PodStarts, Out, queue
<1>2. PICK row \in [Pids -> {None, Serve}] :
        /\ group' = [group EXCEPT ![p] = row] /\ stray' = {x \in stray : x[1] # p}
        /\ \E g \in Pids : row[g] = Serve
        /\ pc' = [pc EXCEPT ![p] = "down"] /\ Forget(p)
  BY <1>1, BootRow
<1>3. pc'[p] = "down" /\ \A q \in Pods : q # p => pc'[q] = pc[q]
  BY <1>2, Typed DEF IInv
<1>4. /\ group' \in GroupTable /\ group'[p] = row
      /\ \A q \in Pods : q # p => \A h \in Pids : group'[q][h] = group[q][h]
      /\ stray' \subseteq Pods \X Pids /\ \A x \in stray' : IsTrainer(x[1], x[2])'
      /\ TracksOwn(p)'
  BY <1>2, Replaced
<1>5. TypeOK'
  <2>1. TypeOK /\ HandInv(p)
    BY DEF IInv
  <2>q. QED
    BY <1>1, <1>2, <1>4, <2>1, ForgetTyped DEF TypeOK, GroupTable, Groupings
<1>6. HandInv(p)'
  BY <1>3 DEF HandInv, Busy, Training
<1>7. PodInv(p)'
  <2>1. \A r \in Requests : token[r] # None => token[r].owner # p
    BY <1>1 DEF IInv, PodInv
  <2>q. QED
    BY <1>1, <1>2, <1>3, <1>4, <2>1 DEF PodInv, Serving, Out
<1>8. FinalInv'
  BY <1>1 DEF IInv, FinalInv
<1>9. Alone(p)
  BY <1>1, <1>3, <1>4 DEF Alone
<1>q. QED
  BY <1>4, <1>5, <1>6, <1>7, <1>8, <1>9, Assemble

LEMMA StepKeepsIInv == IInv /\ [Next]_vars => IInv'
<1> SUFFICES ASSUME IInv, [Next]_vars PROVE IInv'
  OBVIOUS
<1>1. CASE UNCHANGED vars
  BY <1>1 DEF vars, queue, agent, procs, IInv, TypeOK, OnePod, TrackInv, FinalInv, HandInv, PodInv,
              IsTrainer, Serving, Waited, Named
<1>2. CASE Next
  BY <1>2, RestartKeeps, RequeueKeeps, RequeuedKeeps, ReleaseKeeps, UntokenKeeps, ReleasedKeeps,
     ClaimKeeps, WriteTokenKeeps, ParkKeeps, RecordMalformedKeeps, StartTrainerKeeps, RecordKeeps,
     WaitKeeps, UnrecordKeeps, ArchiveKeeps, PublishKeeps, UnlinkKeeps, CrashKeeps,
     OrphanExitsKeeps, ContainerRestartsKeeps, PodStartsKeeps, PodGoesKeeps
     DEF Next, Agent, Sweep, Take, Train, Close
<1>q. QED
  BY <1>1, <1>2

\* In every reachable state, what is claimed, tokened, waited for and running fits
\* together as IInv says, in particular the types.
THEOREM Invariance == Spec => []IInv
<1>q. QED
  BY InitIInv, StepKeepsIInv, PTL DEF Spec

\* Every reachable state of the queue, the agents and the processes is well typed.
THEOREM TypeCorrect == Spec => []TypeOK
<1>1. IInv => TypeOK
  BY DEF IInv
<1>q. QED
  BY <1>1, Invariance, PTL

--------------------------------------------------------------------------------
(* The properties.                                                          *)

LEMMA OnlyOneTracked ==
  ASSUME IInv, NEW r \in Requests
  PROVE  Cardinality(Tracked(r)) <= 1
<1>1. ASSUME NEW x \in Tracked(r)
      PROVE  \E p \in Pods, g \in Pids :
               /\ x = <<p, g>> /\ IsTrainer(p, g) /\ group[p][g].req = r /\ pc[p] \notin Out
               /\ Waited(p, g) \/ Named(p, g)
  <2>1. PICK p \in Pods, g \in Pids : x = <<p, g>>
    BY DEF Tracked
  <2>2. IsTrainer(p, g) /\ group[p][g].req = r /\ <<p, g>> \notin stray
    BY <2>1 DEF Tracked
  <2>3. pc[p] \notin Out
    BY <2>2, TrainAssumption DEF IInv, PodInv, IsTrainer
  <2>q. QED
    BY <2>1, <2>2, <2>3 DEF IInv, TrackInv
<1>2. ASSUME NEW x \in Tracked(r), NEW y \in Tracked(r) PROVE x = y
  <2>1. PICK p \in Pods, g \in Pids :
          /\ x = <<p, g>> /\ group[p][g].req = r /\ pc[p] \notin Out
          /\ Waited(p, g) \/ Named(p, g)
    BY <1>1
  <2>2. PICK q \in Pods, h \in Pids :
          /\ y = <<q, h>> /\ group[q][h].req = r /\ pc[q] \notin Out
          /\ Waited(q, h) \/ Named(q, h)
    BY <1>1
  <2>3. p = q
    BY <2>1, <2>2 DEF IInv, OnePod
  <2>4. \A k \in Pids : Waited(p, k) => group[p][k].req = cur[p] /\ pc[p] \in Busy
    BY DEF Waited, IInv, HandInv, Busy, Training
  <2>5. g = h
    BY <2>1, <2>2, <2>3, <2>4 DEF Waited, Named
  <2>q. QED
    BY <2>1, <2>2, <2>3, <2>5
<1>3. CASE Tracked(r) = {}
  BY <1>3, FS_EmptySet
<1>4. CASE Tracked(r) # {}
  <2>1. PICK x \in Tracked(r) : TRUE
    BY <1>4
  <2>2. Tracked(r) = {x}
    BY <1>2, <2>1
  <2>q. QED
    BY <2>2, FS_Singleton
<1>q. QED
  BY <1>3, <1>4

\* No request is ever trained by two groups that agents can still know of,
\* whoever dies and however often a pod is restarted or replaced.
THEOREM OneTrackedTrainerHolds == Spec => []OneTrackedTrainer
<1>1. IInv => OneTrackedTrainer
  BY OnlyOneTracked DEF OneTrackedTrainer
<1>q. QED
  BY <1>1, Invariance, PTL

\* Releasing stale claims never kills the serving processes of a pod in its first
\* container, whatever group ids are reused.
THEOREM ServingSurvivesHolds == Spec => []ServingSurvives
<1>1. IInv => ServingSurvives
  BY DEF IInv, PodInv, ServingSurvives, Out
<1>q. QED
  BY <1>1, Invariance, PTL

--------------------------------------------------------------------------------
(* What runs after a step ran before it, except what a step starts.         *)

Shrinks == \A p \in Pods, g \in Pids :
             IsTrainer(p, g)' => IsTrainer(p, g) /\ group'[p][g].req = group[p][g].req

LEMMA ClearShrinks ==
  ASSUME IInv, NEW p \in Pods, NEW g \in Pids, Clear(p, g)
  PROVE  Shrinks
BY ClearSettles, ClearKeeps, TrainAssumption DEF Shrinks, IsTrainer

LEMMA UnwrapShrinks ==
  ASSUME IInv, NEW p \in Pods, NEW g \in Pids, IsTrainer(p, g),
         group' = [group EXCEPT ![p][g].wrapper = FALSE]
  PROVE  Shrinks
<1>1. group \in GroupTable
  BY Typed DEF IInv
<1>2. /\ group'[p][g].req = group[p][g].req
      /\ \A q \in Pods, h \in Pids : q # p \/ h # g => group'[q][h] = group[q][h]
  BY <1>1, Unwrapped
<1>q. QED
  BY <1>2 DEF Shrinks, IsTrainer

LEMMA RowShrinks ==
  ASSUME IInv, NEW p \in Pods, NEW row \in [Pids -> {None, Serve}],
         group' = [group EXCEPT ![p] = row]
  PROVE  Shrinks
<1>1. group'[p] = row /\ \A q \in Pods : q # p => group'[q] = group[q]
  BY Typed DEF IInv, GroupTable
<1>q. QED
  BY <1>1, TrainAssumption DEF Shrinks, IsTrainer

\* A trainer is started only for a request in hand that is still claimed.
LEMMA StepShrinks ==
  ASSUME IInv, [Next]_vars
  PROVE  \/ Shrinks
         \/ \E p \in Pods, g \in Pids :
              /\ cur[p] \in Requests /\ place[cur[p]] = "claimed" /\ group'[p][g].req = cur[p]
              /\ \A q \in Pods, h \in Pids : q # p \/ h # g => group'[q][h] = group[q][h]
<1>1. CASE UNCHANGED group
  BY <1>1 DEF Shrinks, IsTrainer
<1>2. CASE \E p \in Pods : StartTrainer(p)
  <2>1. PICK p \in Pods : StartTrainer(p)
    BY <1>2
  <2>2. cur[p] \in Requests /\ place[cur[p]] = "claimed"
    BY <2>1 DEF StartTrainer, IInv, HandInv, Busy, Training
  <2>3. PICK g \in Pids, v \in Trainers :
          v = [req |-> cur[p], wrapper |-> TRUE] /\ group' = With(group, p, g, v)
    <3>1. PICK v \in Trainers : v = [req |-> cur[p], wrapper |-> TRUE]
      BY <2>2 DEF Trainers
    <3>2. PICK g \in Fresh(p) :
            group' = [group EXCEPT ![p][g] = [req |-> cur[p], wrapper |-> TRUE]]
      BY <2>1 DEF StartTrainer
    <3>q. QED
      BY <3>1, <3>2 DEF With, Fresh
  <2>4. /\ With(group, p, g, v)[p][g] = v
        /\ \A q \in Pods, h \in Pids :
             q # p \/ h # g => With(group, p, g, v)[q][h] = group[q][h]
    BY OneGroup, Typed DEF IInv, Groupings
  <2>5. v.req = cur[p]
    BY <2>3
  <2>6. /\ group'[p][g].req = cur[p]
        /\ \A q \in Pods, h \in Pids : q # p \/ h # g => group'[q][h] = group[q][h]
    BY <2>3, <2>4, <2>5
  <2>q. QED
    BY <2>2, <2>6
<1>3. CASE \E p \in Pods : Release(p) \/ Exit(p) \/ Timeout(p) \/ WrapperDies(p) \/ Crash(p)
  <2>1. PICK p \in Pods : Release(p) \/ Exit(p) \/ Timeout(p) \/ WrapperDies(p) \/ Crash(p)
    BY <1>3
  <2>2. CASE Release(p)
    <3>1. CASE UNCHANGED group
      BY <1>1, <3>1
    <3>2. CASE Own(p, Min(todo[p])) /\ Orphan(p, Min(todo[p])) # None
                 /\ Clear(p, Orphan(p, Min(todo[p])))
      <4>1. Min(todo[p]) \in Requests
        BY <2>2, MinIsIn DEF Release, IInv, TypeOK
      <4>2. PICK g \in Pids : Clear(p, g)
        BY <3>2, <4>1 DEF Own, Orphan, IInv, TypeOK, Tokens
      <4>q. QED
        BY <4>2, ClearShrinks
    <3>q. QED
      BY <2>2, <3>1, <3>2 DEF Release, procs
  <2>3. CASE pc[p] \in {"record", "wait"}
    <3>1. PICK g \in Pids : g = child[p] /\ IsTrainer(p, g)
      BY <2>3 DEF IInv, HandInv
    <3>2. CASE Clear(p, g)
      BY <3>2, ClearShrinks
    <3>3. CASE group' = [group EXCEPT ![p][g].wrapper = FALSE]
      BY <3>1, <3>3, UnwrapShrinks
    <3>q. QED
      BY <1>1, <2>1, <2>2, <2>3, <3>1, <3>2, <3>3 DEF Exit, Timeout, Ends, WrapperDies, Crash
  <2>q. QED
    BY <1>1, <2>1, <2>2, <2>3 DEF Exit, Timeout, WrapperDies, Crash
<1>4. CASE \E p \in Pods, g \in Pids : OrphanExits(p, g)
  BY <1>4, ClearShrinks DEF OrphanExits
<1>5. CASE \E p \in Pods : PodStarts(p) \/ ContainerRestarts(p)
  <2>1. PICK p \in Pods : Boot(p)
    BY <1>5 DEF PodStarts, ContainerRestarts
  <2>2. \E row \in [Pids -> {None, Serve}] : group' = [group EXCEPT ![p] = row]
    BY <2>1, BootRow
  <2>q. QED
    BY <2>2, RowShrinks
<1>6. CASE \E p \in Pods : PodGoes(p)
  <2>1. PICK p \in Pods : group' = [group EXCEPT ![p] = [g \in Pids |-> None]]
    BY <1>6 DEF PodGoes
  <2>2. PICK row \in [Pids -> {None, Serve}] : row = [g \in Pids |-> None]
    OBVIOUS
  <2>3. group' = [group EXCEPT ![p] = row]
    BY <2>1, <2>2
  <2>q. QED
    BY <2>3, RowShrinks
<1>7. CASE UNCHANGED vars
  BY <1>1, <1>7 DEF vars, procs
<1>8. CASE \E p \in Pods : \/ Restart(p) \/ Requeue(p) \/ Requeued(p) \/ Untoken(p) \/ Released(p)
                          \/ Take(p) \/ Record(p) \/ Unrecord(p) \/ Close(p)
  BY <1>1, <1>8 DEF Restart, Requeue, Requeued, Untoken, Released, Take, Claim, WriteToken, Park,
     RecordMalformed, Record, Unrecord, Close, Archive, Publish, Unlink, procs
<1>q. QED
  BY <1>2, <1>3, <1>4, <1>5, <1>6, <1>7, <1>8 DEF Next, Agent, Sweep, Train

\* Once a request has a result no trainer is started for it, even when the agent
\* dies between archiving, publishing and unlinking.
THEOREM PublishedIsFinalHolds == Spec => PublishedIsFinal
<1>1. ASSUME IInv, [Next]_vars, NEW r \in Requests, result[r] # {}
      PROVE  Groups(r)' \subseteq Groups(r)
  <2>1. place[r] # "claimed"
    BY <1>1 DEF IInv, FinalInv, Over
  <2>2. CASE Shrinks
    BY <2>2 DEF Shrinks, Groups
  <2>3. CASE \E p \in Pods, g \in Pids :
               /\ cur[p] \in Requests /\ place[cur[p]] = "claimed" /\ group'[p][g].req = cur[p]
               /\ \A q \in Pods, h \in Pids : q # p \/ h # g => group'[q][h] = group[q][h]
    BY <2>1, <2>3 DEF Groups, IsTrainer
  <2>q. QED
    BY <1>1, <2>2, <2>3, StepShrinks
<1>2. IInv /\ [Next]_vars
        => [\A r \in Requests : result[r] # {} => Groups(r)' \subseteq Groups(r)]_vars
  BY <1>1
<1>q. QED
  BY <1>2, Invariance, PTL DEF Spec, PublishedIsFinal
================================================================================
