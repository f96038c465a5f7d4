------------------------------- MODULE TrainAgent -------------------------------
(***************************************************************************)
(* The training agent and its request queue (src/pokezero/train_agent.py): *)
(* an agent in the serving pod claims a request by renaming it, writes a   *)
(* claim token, forks a trainer up to max_attempts times, archives the     *)
(* request, publishes a result and drops the token.                        *)
(*                                                                         *)
(* The trainer is a process group: a bash wrapper, which is the agent's    *)
(* direct child and dies with it, and under it the python trainer, which   *)
(* does not.  Agents, containers and pods die between any two steps; a     *)
(* new agent first sweeps what earlier ones left.  One agent exists per    *)
(* queue (docstring of requeue_untokened_claims).  Operating-system errors *)
(* of renames and writes are not modelled.                                 *)
(***************************************************************************)
EXTENDS Naturals, FiniteSets, FiniteSetsExt

CONSTANTS
  Requests,     \* iterations the controller asks to train
  Malformed,    \* those whose request file does not parse
  Pods,         \* a pod and its replacements: claim owners
  Pids,         \* process group ids, the same numbers in every container
  MaxAttempts,  \* max_attempts of a request (3)
  MaxFaults,    \* bound on deaths and on SIGKILLs that do not take
  None, Serve   \* no group or token; the group of the pod's serving processes

Tokens == [owner : Pods, pgid : Pids \cup {None}]
Trainers == [req : Requests, wrapper : BOOLEAN]   \* the trainer, and its wrapper or not

ASSUME TrainAssumption ==
  /\ Requests \subseteq Nat /\ IsFiniteSet(Requests) /\ Malformed \subseteq Requests
  /\ Pids \subseteq Nat /\ IsFiniteSet(Pids) /\ IsFiniteSet(Pods)
  /\ MaxAttempts \in Nat \ {0} /\ MaxFaults \in Nat
  /\ None \notin Pids /\ None \notin Tokens /\ None \notin Trainers
  /\ Serve \notin Trainers /\ None # Serve

VARIABLES
  \* the shared queue
  place,        \* the directory that holds each request file
  token,        \* its claim token: owner and recorded trainer group, or None
  result,       \* the statuses published for it
  \* the agent of each pod
  pc, todo,     \* what it does, and the rest of the listing it sweeps
  cur, tries,   \* the request it works on, and the attempts made
  child, won,   \* its trainer's group, and whether that exited with 0
  \* the processes of each pod
  group,        \* what runs under each group id
  intact,       \* its container was never restarted
  stray,        \* trainer groups (pod, id) the agents have lost track of
  \* history
  spared,       \* claims each agent's sweep kept for a trainer that outlived SIGKILL
  mute,         \* requests whose agent died with the request filed and no result out
  faults

queue == <<place, token, result>>
agent == <<pc, todo, cur, tries, child, won>>
procs == <<group, intact, stray, spared, mute, faults>>
vars  == <<queue, agent, procs>>

Init ==
  /\ place = [r \in Requests |-> "pending"] /\ token = [r \in Requests |-> None]
  /\ result = [r \in Requests |-> {}]
  /\ pc = [p \in Pods |-> "off"] /\ todo = [p \in Pods |-> {}]
  /\ cur = [p \in Pods |-> None] /\ tries = [p \in Pods |-> 0]
  /\ child = [p \in Pods |-> None] /\ won = [p \in Pods |-> FALSE]
  /\ group = [p \in Pods |-> [g \in Pids |-> None]]
  /\ intact = [p \in Pods |-> TRUE] /\ stray = {} /\ spared = [p \in Pods |-> {}]
  /\ mute = {} /\ faults = 0

--------------------------------------------------------------------------------
(* Names beginning with Fault are plausible bugs of the definition that    *)
(* follows them; no specification uses them.                               *)

Up(p) == pc[p] \notin {"off", "down", "gone"}
Goto(p, l) == pc' = [pc EXCEPT ![p] = l]
IsTrainer(p, g) == group[p][g] \in Trainers
Claimed == {r \in Requests : place[r] = "claimed"}
Tokened == {r \in Requests : token[r] # None}

\* Group g of pod p is empty from now on.
Clear(p, g) == /\ group' = [group EXCEPT ![p][g] = None]
               /\ stray' = stray \ {<<p, g>>}

\* A trainer that is alive and that no later step will look for.
Lose(p, g) == stray' = stray \cup {<<p, g>>}
Fault == faults < MaxFaults /\ faults' = faults + 1

--------------------------------------------------------------------------------
(* Startup: put back what earlier agents left in claimed/. *)

\* The supervisor runs the agent; requeue_untokened_claims lists claimed/.
Restart(p) ==
  /\ pc[p] = "down"
  /\ Goto(p, "requeue")
  /\ todo' = [todo EXCEPT ![p] = Claimed]
  /\ UNCHANGED <<queue, cur, tries, child, won, procs>>

FaultUntokened(r) == FALSE
Untokened(r) == place[r] = "claimed" /\ token[r] = None

Requeue(p) ==
  /\ pc[p] = "requeue" /\ todo[p] # {}
  /\ LET r == Min(todo[p])
     IN /\ place' = IF Untokened(r) THEN [place EXCEPT ![r] = "pending"] ELSE place
        /\ todo' = [todo EXCEPT ![p] = @ \ {r}]
  /\ UNCHANGED <<token, result, pc, cur, tries, child, won, procs>>

\* release_stale_claims lists the tokens.
Requeued(p) ==
  /\ pc[p] = "requeue" /\ todo[p] = {}
  /\ Goto(p, "release")
  /\ todo' = [todo EXCEPT ![p] = Tokened]
  /\ UNCHANGED <<queue, cur, tries, child, won, procs>>

\* Only this pod's own claims, and their recorded group if anything is left of it.
FaultOwn(p, r) == token[r] # None
Own(p, r) == token[r] # None /\ token[r].owner = p
FaultOrphan(p, r) == None
Orphan(p, r) == IF token[r].pgid # None /\ group[p][token[r].pgid] # None
                  THEN token[r].pgid ELSE None

\* Kill the orphan, or keep the claim if it survives; then give the request back.
Release(p) ==
  /\ pc[p] = "release" /\ todo[p] # {}
  /\ LET r == Min(todo[p])
         giveBack == /\ place' = IF place[r] = "claimed" THEN [place EXCEPT ![r] = "pending"]
                                                          ELSE place
                     /\ Goto(p, "untoken")
                     /\ UNCHANGED todo
         keep == /\ todo' = [todo EXCEPT ![p] = @ \ {r}]
                 /\ UNCHANGED <<place, pc>>
     IN \/ ~Own(p, r) /\ keep /\ UNCHANGED procs
        \/ Own(p, r) /\ Orphan(p, r) = None /\ giveBack /\ UNCHANGED procs
        \/ /\ Own(p, r) /\ Orphan(p, r) # None
           /\ Clear(p, Orphan(p, r)) /\ giveBack
           /\ UNCHANGED <<intact, spared, mute, faults>>
        \/ /\ Own(p, r) /\ Orphan(p, r) # None
           /\ Fault /\ keep
           /\ spared' = [spared EXCEPT ![p] = @ \cup {r}]
           /\ UNCHANGED <<group, intact, stray, mute>>
  /\ UNCHANGED <<token, result, cur, tries, child, won>>

Untoken(p) ==
  /\ pc[p] = "untoken"
  /\ token' = [token EXCEPT ![Min(todo[p])] = None]
  /\ todo' = [todo EXCEPT ![p] = @ \ {Min(todo[p])}]
  /\ Goto(p, "release")
  /\ UNCHANGED <<place, result, cur, tries, child, won, procs>>

Released(p) ==
  /\ pc[p] = "release" /\ todo[p] = {}
  /\ Goto(p, "idle")
  /\ UNCHANGED <<queue, todo, cur, tries, child, won, procs>>

--------------------------------------------------------------------------------
(* claim_next_request. *)

Waiting == {r \in Requests : place[r] = "pending"}

Claim(p) ==
  /\ pc[p] = "idle" /\ Waiting # {}
  /\ place' = [place EXCEPT ![Min(Waiting)] = "claimed"]
  /\ cur' = [cur EXCEPT ![p] = Min(Waiting)]
  /\ tries' = [tries EXCEPT ![p] = 0]
  /\ Goto(p, "read")
  /\ UNCHANGED <<token, result, todo, child, won, procs>>

WriteToken(p) ==
  /\ pc[p] = "read" /\ cur[p] \notin Malformed
  /\ token' = [token EXCEPT ![cur[p]] = [owner |-> p, pgid |-> None]]
  /\ Goto(p, "start")
  /\ UNCHANGED <<place, result, todo, cur, tries, child, won, procs>>

\* A request that does not parse is parked, and then recorded as malformed.
Park(p) ==
  /\ pc[p] = "read" /\ cur[p] \in Malformed
  /\ place' = [place EXCEPT ![cur[p]] = "parked"]
  /\ Goto(p, "parked")
  /\ UNCHANGED <<token, result, todo, cur, tries, child, won, procs>>

RecordMalformed(p) ==
  /\ pc[p] = "parked"
  /\ result' = [result EXCEPT ![cur[p]] = @ \cup {"malformed"}]
  /\ cur' = [cur EXCEPT ![p] = None]
  /\ Goto(p, "idle")
  /\ UNCHANGED <<place, token, todo, tries, child, won, procs>>

--------------------------------------------------------------------------------
(* run_training_attempt, between record_running_trainer(pid) and (None). *)

\* Ids the kernel may hand out: unused, and not as recent as one in a token.
Fresh(p) == {g \in Pids : group[p][g] = None /\ \A r \in Tokened : token[r].pgid # g
                                                               \/ token[r].owner # p}

StartTrainer(p) ==
  /\ pc[p] = "start"
  /\ tries' = [tries EXCEPT ![p] = @ + 1]
  /\ \E g \in Fresh(p) :
       /\ group' = [group EXCEPT ![p][g] = [req |-> cur[p], wrapper |-> TRUE]]
       /\ child' = [child EXCEPT ![p] = g]
  /\ Goto(p, "record")
  /\ UNCHANGED <<queue, todo, cur, won, intact, stray, spared, mute, faults>>

Noted(r, g) == IF token[r] = None THEN token ELSE [token EXCEPT ![r].pgid = g]

Record(p) ==
  /\ pc[p] = "record"
  /\ token' = Noted(cur[p], child[p])
  /\ Goto(p, "wait")
  /\ UNCHANGED <<place, result, todo, cur, tries, child, won, procs>>

\* The wrapper exits with the trainer's status, 0 or not.
Exit(p) ==
  /\ pc[p] = "wait" /\ group[p][child[p]].wrapper
  /\ \E ok \in BOOLEAN : won' = [won EXCEPT ![p] = ok]
  /\ Clear(p, child[p])
  /\ Goto(p, "unrecord")
  /\ UNCHANGED <<queue, todo, cur, tries, child, intact, spared, mute, faults>>

\* The deadline: _terminate_group signals the whole group.
Ends(p) == \/ Clear(p, child[p]) /\ UNCHANGED faults
           \/ Fault /\ Lose(p, child[p]) /\ UNCHANGED group

Timeout(p) ==
  /\ pc[p] = "wait"
  /\ won' = [won EXCEPT ![p] = FALSE]
  /\ Ends(p)
  /\ Goto(p, "unrecord")
  /\ UNCHANGED <<queue, todo, cur, tries, child, intact, spared, mute>>

\* The wrapper alone is killed: the wait returns while the trainer runs on.
WrapperDies(p) ==
  /\ pc[p] = "wait" /\ Fault
  /\ group' = [group EXCEPT ![p][child[p]].wrapper = FALSE]
  /\ Lose(p, child[p])
  /\ won' = [won EXCEPT ![p] = FALSE]
  /\ Goto(p, "unrecord")
  /\ UNCHANGED <<queue, todo, cur, tries, child, intact, spared, mute>>

FaultAgain(p) == ~won[p] /\ tries[p] <= MaxAttempts
Again(p) == ~won[p] /\ tries[p] < MaxAttempts

Unrecord(p) ==
  /\ pc[p] = "unrecord"
  /\ token' = Noted(cur[p], None)
  /\ child' = [child EXCEPT ![p] = None]
  /\ Goto(p, IF Again(p) THEN "start" ELSE "archive")
  /\ UNCHANGED <<place, result, todo, cur, tries, won, procs>>

--------------------------------------------------------------------------------
(* serve_queue: archive the request, publish the result, drop the token. *)

Status(p) == IF won[p] THEN "succeeded" ELSE "failed"

FaultArchived(p) == place
Archived(p) == IF place[cur[p]] = "claimed"
                 THEN [place EXCEPT ![cur[p]] = Status(p)] ELSE place

Archive(p) ==
  /\ pc[p] = "archive"
  /\ place' = Archived(p)
  /\ Goto(p, "publish")
  /\ UNCHANGED <<token, result, todo, cur, tries, child, won, procs>>

Publish(p) ==
  /\ pc[p] = "publish"
  /\ result' = [result EXCEPT ![cur[p]] = @ \cup {Status(p)}]
  /\ Goto(p, "unlink")
  /\ UNCHANGED <<place, token, todo, cur, tries, child, won, procs>>

Unlink(p) ==
  /\ pc[p] = "unlink"
  /\ token' = [token EXCEPT ![cur[p]] = None]
  /\ cur' = [cur EXCEPT ![p] = None]
  /\ won' = [won EXCEPT ![p] = FALSE]
  /\ Goto(p, "idle")
  /\ UNCHANGED <<place, result, todo, tries, child, procs>>

--------------------------------------------------------------------------------
(* Deaths. *)

Forget(p) == /\ todo' = [todo EXCEPT ![p] = {}] /\ cur' = [cur EXCEPT ![p] = None]
             /\ tries' = [tries EXCEPT ![p] = 0] /\ child' = [child EXCEPT ![p] = None]
             /\ won' = [won EXCEPT ![p] = FALSE] /\ spared' = [spared EXCEPT ![p] = {}]
             /\ mute' = mute \cup IF pc[p] \in {"publish", "parked"} THEN {cur[p]} ELSE {}

\* The agent dies, and by PR_SET_PDEATHSIG its direct child, the wrapper, too.
Crash(p) ==
  /\ Up(p) /\ Fault
  /\ IF pc[p] \in {"record", "wait"}
       THEN group' = [group EXCEPT ![p][child[p]].wrapper = FALSE] ELSE UNCHANGED group
  /\ IF pc[p] = "record" THEN Lose(p, child[p]) ELSE UNCHANGED stray
  /\ Goto(p, "down") /\ Forget(p)
  /\ UNCHANGED <<queue, intact>>

\* A trainer nobody waits for ends by itself.
OrphanExits(p, g) ==
  /\ IsTrainer(p, g) /\ child[p] # g
  /\ Clear(p, g)
  /\ UNCHANGED <<queue, agent, intact, spared, mute, faults>>

\* A container starts with its serving processes, under some group id.
Boot(p) == /\ \E s \in Pids : group' = [group EXCEPT ![p] = [g \in Pids |->
                                          IF g = s THEN Serve ELSE None]]
           /\ stray' = {x \in stray : x[1] # p}
           /\ Goto(p, "down") /\ Forget(p)

ContainerRestarts(p) ==
  /\ pc[p] \notin {"off", "gone"} /\ Fault
  /\ Boot(p)
  /\ intact' = [intact EXCEPT ![p] = FALSE]
  /\ UNCHANGED queue

\* The Deployment brings a pod back once no other is left.
PodStarts(p) ==
  /\ pc[p] = "off" /\ \A q \in Pods : pc[q] \in {"off", "gone"}
  /\ Boot(p)
  /\ UNCHANGED <<queue, intact, faults>>

\* A pod is replaced only while there is a name for its replacement.
PodGoes(p) ==
  /\ pc[p] \notin {"off", "gone"} /\ Fault
  /\ \E q \in Pods : pc[q] = "off"
  /\ group' = [group EXCEPT ![p] = [g \in Pids |-> None]]
  /\ stray' = {x \in stray : x[1] # p}
  /\ Goto(p, "gone") /\ Forget(p)
  /\ UNCHANGED <<queue, intact>>

--------------------------------------------------------------------------------
Sweep(p) == Restart(p) \/ Requeue(p) \/ Requeued(p) \/ Release(p) \/ Untoken(p) \/ Released(p)
Take(p)  == Claim(p) \/ WriteToken(p) \/ Park(p) \/ RecordMalformed(p)
Train(p) == StartTrainer(p) \/ Record(p) \/ Exit(p) \/ Timeout(p) \/ Unrecord(p)
Close(p) == Archive(p) \/ Publish(p) \/ Unlink(p)
Agent(p) == Sweep(p) \/ Take(p) \/ Train(p) \/ Close(p)

Next == \E p \in Pods : \/ Agent(p) \/ PodStarts(p)
                        \/ Crash(p) \/ WrapperDies(p) \/ ContainerRestarts(p) \/ PodGoes(p)
                        \/ \E g \in Pids : OrphanExits(p, g)

Spec == Init /\ [][Next]_vars

\* An agent keeps running (a wait ends at its deadline), its supervisor restarts
\* it, and the Deployment replaces its pod.
FairSpec == Spec /\ \A p \in Pods : WF_vars(Agent(p)) /\ WF_vars(PodStarts(p))

--------------------------------------------------------------------------------
TypeOK ==
  /\ place \in [Requests -> {"pending", "claimed", "parked", "succeeded", "failed"}]
  /\ token \in [Requests -> Tokens \cup {None}]
  /\ result \in [Requests -> SUBSET {"succeeded", "failed", "malformed"}]
  /\ pc \in [Pods -> {"off", "gone", "down", "requeue", "release", "untoken", "idle", "read",
                      "parked", "start", "record", "wait", "unrecord", "archive", "publish",
                      "unlink"}]
  /\ todo \in [Pods -> SUBSET Requests] /\ cur \in [Pods -> Requests \cup {None}]
  /\ tries \in [Pods -> 0..MaxAttempts] /\ child \in [Pods -> Pids \cup {None}]
  /\ won \in [Pods -> BOOLEAN]
  /\ group \in [Pods -> [Pids -> Trainers \cup {None, Serve}]]
  /\ intact \in [Pods -> BOOLEAN] /\ stray \subseteq Pods \X Pids
  /\ (\A x \in stray : IsTrainer(x[1], x[2]))
  /\ spared \in [Pods -> SUBSET Requests] /\ mute \subseteq Requests
  /\ faults \in 0..MaxFaults

(* A request is never trained by two groups the agents can still know of,  *)
(* whatever dies: an orphan a token names is killed before its request is  *)
(* given back, and a deadline kills the whole group of its attempt         *)
(* (train_agent.py:330-351, 428-446).                                      *)
Tracked(r) == {x \in (Pods \X Pids) \ stray : /\ IsTrainer(x[1], x[2])
                                              /\ group[x[1]][x[2]].req = r}
OneTrackedTrainer == \A r \in Requests : Cardinality(Tracked(r)) <= 1

(* Releasing stale claims never kills the pod's serving processes, as long *)
(* as its container is its first one (train_agent.py:75-93).               *)
Serving(p) == \E g \in Pids : group[p][g] = Serve
ServingSurvives == \A p \in Pods : pc[p] \notin {"off", "gone"} /\ intact[p] => Serving(p)

(* Once a result is published no trainer is started for its request again, *)
(* whoever crashes before the claim is cleared (train_agent.py:535-538).   *)
Groups(r) == {x \in Pods \X Pids : IsTrainer(x[1], x[2]) /\ group[x[1]][x[2]].req = r}
PublishedIsFinal == [][\A r \in Requests : result[r] # {} => Groups(r)' \subseteq Groups(r)]_vars

(* Every request gets a result in the end, unless an agent died between    *)
(* archiving it and publishing, its claim's pod is gone (the controller's  *)
(* call), or the sweep of its pod's agent found a trainer that survived    *)
(* SIGKILL and kept the claim (train_agent.py:340-351).                    *)
Silent(r)  == r \in mute /\ place[r] \in {"parked", "succeeded", "failed"}
Foreign(r) == token[r] # None /\ pc[token[r].owner] = "gone"
Kept(r)    == \E p \in Pods : r \in spared[p]
RequestsEnd ==
  \A r \in Requests : <>[](result[r] # {} \/ Silent(r) \/ Foreign(r) \/ Kept(r))

(* A request is pending, claimed or finished (the window the comment at    *)
(* train_agent.py:535-538 wants closed).                                   *)
NeverNeither == \A r \in Requests : \/ place[r] \in {"pending", "claimed"}
                                    \/ token[r] # None \/ result[r] # {}
                                    \/ \E p \in Pods : cur[p] = r
================================================================================
