------------------------ MODULE InferenceServiceProofs ------------------------
(***************************************************************************)
(* Proofs about InferenceService, for any number of collectors, calls,     *)
(* attempts and reloads and any batch size.                                *)
(*                                                                         *)
(* An answer reaches a collector only over the connection its request came *)
(* in by.  A connection has one request under way (OneOutstanding), a      *)
(* closed one never comes back because the next is named by a request that *)
(* nobody has sent yet (UnsentIsNew), so what arrives is the answer of the *)
(* current attempt (InboxIsOwn).  Its policy was read after that request   *)
(* was sent (BatchIsFresh, SlotIsFresh).                                   *)
(***************************************************************************)
EXTENDS InferenceService, SequenceTheorems, TLAPS

Active(r) == hand[r] \in {"decode", "wait"}
Unsent(r) ==
  \/ r[2] > call[r[1]]
  \/ r[2] = call[r[1]] /\ r[3] > try[r[1]]
  \/ r = Now(r[1]) /\ pc[r[1]] = "send"

UnsentIsNew == \A r \in Requests : Unsent(r) => hand[r] = "none"
Underway == \A c \in Clients : pc[c] # "idle" => call[c] > 0 /\ answer[c] = None
ConnectionsAreOld == \A c \in Clients : conn[c] # None => hand[conn[c]] # "none"
ActiveIsSent == \A r \in Requests : Active(r) => via[r] # None /\ hand[via[r]] # "none"
OneOutstanding ==
  \A r \in Requests : Active(r) /\ via[r] = conn[r[1]] =>
    pc[r[1]] = "wait" /\ r = Now(r[1]) /\ inbox[r[1]] = <<>>
Fresh(c, result) == result.status = "evaluated" => result.policy >= since[c]
InboxIsOwn ==
  \A c \in Clients : inbox[c] # <<>> =>
    /\ pc[c] = "wait" /\ Len(inbox[c]) = 1
    /\ inbox[c][1].request = Now(c) /\ Fresh(c, inbox[c][1].result)
QueuedIsSent == \A i \in 1..Len(queue) : hand[queue[i]] # "none"
BatchIsFresh ==
  \A i \in 1..Len(batch) :
    /\ hand[batch[i]] # "none"
    /\ batch[i][2] = call[batch[i][1]] => using >= since[batch[i][1]]
SlotIsFresh ==
  \A r \in Requests : slot[r] # None =>
    /\ hand[r] = "wait"
    /\ slot[r].request = r
    /\ r[2] = call[r[1]] => Fresh(r[1], slot[r].result)

\* A reload in its lock serves its own checkpoint; it is the only one there.
Locking(k) == loading[k] \in {"swapped", "named"}
Reloading ==
  \A k \in Reloads : Locking(k) =>
    /\ policy > 0 /\ swaps[policy] = k
    /\ loading[k] = "named" => shown.id = k
    /\ \A j \in Reloads : Locking(j) => j = k

\* Nothing of another layout gets in, nor is shown, nor encoded by.
Fitting ==
  /\ \A i \in 1..policy : swaps[i] \in Compatible
  /\ shown.config \in Compatible \cup {None}
  /\ \A c \in Clients : /\ layout[c] \in {None, "served"}
                        /\ call[c] > 0 => layout[c] # None

IInv == /\ TypeOK /\ UnsentIsNew /\ Underway /\ ConnectionsAreOld /\ ActiveIsSent
        /\ OneOutstanding /\ InboxIsOwn /\ QueuedIsSent /\ BatchIsFresh /\ SlotIsFresh

--------------------------------------------------------------------------------
(* Requests and results. *)

LEMMA RequestType ==
  \A r \in Requests : /\ r[1] \in Clients /\ r[2] \in 1..MaxCalls /\ r[3] \in 0..(Attempts - 1)
                      /\ r = <<r[1], r[2], r[3]>>
  BY DEF Requests

\* None is no request.
LEMMA NoneIsNoRequest == None \notin Requests /\ None \notin Reloads
  BY ServiceAssumption DEF Requests

\* The request of a call under way.
LEMMA NowType ==
  ASSUME TypeOK, Underway, NEW c \in Clients, pc[c] # "idle"
  PROVE  Now(c) \in Requests /\ Now(c)[1] = c /\ Now(c)[2] = call[c] /\ Now(c)[3] = try[c]
<1>1. call[c] \in 1..MaxCalls /\ try[c] \in 0..(Attempts - 1)
  BY ServiceAssumption DEF TypeOK, Underway
<1> QED
  BY <1>1 DEF Now, Requests

\* Results stay results, and messages messages, when a policy is added.
LEMMA ResultsGrow ==
  ASSUME TypeOK, policy' >= policy, policy' \in Nat
  PROVE  Results \subseteq Results' /\ Replies \subseteq Replies'
<1>1. policy \in Nat
  BY DEF TypeOK, policy
<1>2. 0..policy \subseteq 0..policy'
  BY <1>1
<1>3. Results \subseteq Results'
  BY <1>2 DEF Results, Evaluated, Failed
<1> QED
  BY <1>3 DEF Replies

LEMMA ResultsStay ==
  ASSUME UNCHANGED swaps
  PROVE  Results' = Results /\ Replies' = Replies /\ policy' = policy
  BY DEF Results, Replies, policy, Evaluated, Failed

LEMMA FailedIsResult ==
  \A s \in {"refused", "busy", "unreachable"} : Failed(s) \in Results /\ ~(Failed(s).status = "evaluated")
  BY DEF Results, Failed

LEMMA MessageType ==
  \A r \in Requests, x \in Results : Reply(r, x) \in Replies
  BY DEF Replies, Reply

--------------------------------------------------------------------------------
(* The initial state. *)

LEMMA InitIInv == Init => IInv
<1> SUFFICES ASSUME Init PROVE IInv
  OBVIOUS
<1> USE ServiceAssumption
<1>1. TypeOK
  <2>1. policy = 0
    BY DEF Init, policy
  <2>2. 0 \in 0..policy /\ 0 \in 0..MaxCalls /\ 0 \in 0..(Attempts - 1)
    BY <2>1
  <2>3. <<>> \in Seq(Replies) /\ <<>> \in Seq(Requests) /\ <<>> \in Seq(Reloads)
    OBVIOUS
  <2>4. Len(batch) <= MaxBatch
    BY DEF Init
  <2> QED
    BY <2>2, <2>3, <2>4 DEF Init, TypeOK
<1>2. \A r \in Requests : hand[r] = "none" /\ slot[r] = None
  BY DEF Init
<1>3. \A c \in Clients : pc[c] = "idle" /\ conn[c] = None /\ inbox[c] = <<>>
  BY DEF Init
<1>4. Len(queue) = 0 /\ Len(batch) = 0
  BY DEF Init
<1>5. UnsentIsNew /\ Underway /\ ConnectionsAreOld /\ InboxIsOwn /\ SlotIsFresh
  BY <1>2, <1>3 DEF UnsentIsNew, Underway, ConnectionsAreOld, InboxIsOwn, SlotIsFresh
<1>6. ActiveIsSent /\ OneOutstanding
  BY <1>2 DEF ActiveIsSent, OneOutstanding, Active
<1>7. QueuedIsSent /\ BatchIsFresh
  BY <1>4 DEF QueuedIsSent, BatchIsFresh
<1> QED
  BY <1>1, <1>5, <1>6, <1>7 DEF IInv

--------------------------------------------------------------------------------
(* Types. *)

\* A response is a message of its collector's inbox, or lost.
LEMMA RespondType ==
  ASSUME TypeOK, UNCHANGED swaps, NEW r \in Requests, NEW x \in Replies, Respond(r, x)
  PROVE  /\ hand' \in [Requests -> {"none", "decode", "wait", "done"}]
         /\ via' \in [Requests -> Requests \cup {None}]
         /\ slot' \in [Requests -> Replies' \cup {None}]
         /\ inbox' \in [Clients -> Seq(Replies')]
<1>1. Results' = Results /\ Replies' = Replies
  BY ResultsStay
<1>2. r[1] \in Clients
  BY RequestType
<1>3. inbox' \in [Clients -> Seq(Replies)]
  BY <1>2 DEF TypeOK, Respond
<1> QED
  BY <1>1, <1>3 DEF TypeOK, Respond

LEMMA RetryType ==
  ASSUME TypeOK, Underway, UNCHANGED swaps, NEW c \in Clients, pc[c] # "idle", Retry(c)
  PROVE  /\ pc' \in [Clients -> {"idle", "send", "wait"}]
         /\ try' \in [Clients -> 0..(Attempts - 1)]
         /\ conn' \in [Clients -> Requests \cup {None}] /\ cut' \subseteq Clients
         /\ inbox' \in [Clients -> Seq(Replies')] /\ answer' \in [Clients -> Replies' \cup {None}]
<1>1. Replies' = Replies
  BY ResultsStay
<1>2. conn' \in [Clients -> Requests \cup {None}] /\ cut' \subseteq Clients
  BY DEF TypeOK, Retry, Closed
<1>3. inbox' \in [Clients -> Seq(Replies)]
  BY DEF TypeOK, Retry, Closed
<1>4. CASE NextTry(c) = Attempts /\ Ends(c, Reply(Now(c), Failed("unreachable"))) /\ UNCHANGED try
  <2>1. Reply(Now(c), Failed("unreachable")) \in Replies
    BY NowType, FailedIsResult, MessageType
  <2> QED
    BY <1>1, <1>2, <1>3, <1>4, <2>1 DEF TypeOK, Ends
<1>5. CASE /\ NextTry(c) < Attempts /\ try' = [try EXCEPT ![c] = NextTry(c)]
           /\ pc' = [pc EXCEPT ![c] = "send"] /\ UNCHANGED answer
  <2>1. NextTry(c) \in 0..(Attempts - 1)
    BY <1>5, ServiceAssumption DEF TypeOK, NextTry
  <2> QED
    BY <1>1, <1>2, <1>3, <1>5, <2>1 DEF TypeOK
<1> QED
  BY <1>4, <1>5 DEF Retry

LEMMA CollectorType ==
  ASSUME IInv, NEW c \in Clients, Collector(c)
  PROVE  TypeOK'
<1> USE DEF IInv, collector, threads, batcher, served
<1>1. UNCHANGED swaps /\ Results' = Results /\ Replies' = Replies /\ policy' = policy
  <2>1. UNCHANGED swaps
    BY DEF Collector, Learn, Call, Send, TransportError, Receive
  <2> QED
    BY <2>1, ResultsStay
<1>2. policy \in Nat
  BY DEF TypeOK, policy
<1>3. CASE Learn(c)
  BY <1>1, <1>3 DEF TypeOK, Learn, Layout
<1>4. CASE Call(c)
  <2>1. call[c] + 1 \in 0..MaxCalls /\ 0 \in 0..(Attempts - 1) /\ policy \in 0..policy
    BY <1>2, <1>4, ServiceAssumption DEF TypeOK, Call
  <2>2. kind' \in [Clients -> Kinds \cup {"good"}]
    BY <1>4 DEF TypeOK, Call
  <2> QED
    BY <1>1, <1>4, <2>1, <2>2 DEF TypeOK, Call
<1>5. CASE Send(c)
  <2>1. Now(c) \in Requests
    BY <1>5, NowType DEF Send
  <2>2. conn' \in [Clients -> Requests \cup {None}] /\ kind[c] \in Kinds \cup {"good"}
    BY <1>5, <2>1 DEF TypeOK, Send
  <2> QED
    BY <1>1, <1>5, <2>1, <2>2 DEF TypeOK, Send
<1>6. CASE TransportError(c)
  <2>1. pc[c] # "idle" /\ Retry(c)
    BY <1>6 DEF TransportError
  <2> QED
    BY <1>1, <1>6, <2>1, RetryType DEF TypeOK, TransportError
<1>7. CASE Receive(c)
  <2>1. pc[c] # "idle" /\ inbox[c] \in Seq(Replies) /\ inbox[c] # <<>>
    BY <1>7 DEF TypeOK, Receive
  <2>2. CASE Retry(c)
    BY <1>1, <1>7, <2>1, <2>2, RetryType DEF TypeOK, Receive
  <2>3. CASE Ends(c, Head(inbox[c])) /\ inbox' = [inbox EXCEPT ![c] = Tail(@)] /\ UNCHANGED <<conn, cut, try>>
    <3>1. Head(inbox[c]) \in Replies /\ Tail(inbox[c]) \in Seq(Replies)
      BY <2>1
    <3> QED
      BY <1>1, <1>7, <2>3, <3>1 DEF TypeOK, Receive, Ends
  <2> QED
    BY <1>7, <2>2, <2>3 DEF Receive
<1> QED
  BY <1>3, <1>4, <1>5, <1>6, <1>7 DEF Collector

LEMMA ThreadType ==
  ASSUME IInv, NEW r \in Requests, Thread(r)
  PROVE  TypeOK'
<1> USE DEF IInv, collector, threads, batcher, served
<1>1. UNCHANGED swaps /\ Results' = Results /\ Replies' = Replies /\ policy' = policy
  <2>1. UNCHANGED swaps
    BY DEF Thread, Submit, Answer, GiveUp
  <2> QED
    BY <2>1, ResultsStay
<1>2. CASE Submit(r)
  <2>1. CASE Respond(r, Reply(r, Failed("refused"))) /\ UNCHANGED queue
    BY <1>1, <1>2, <2>1, RespondType, FailedIsResult, MessageType DEF TypeOK, Submit
  <2>2. CASE queue' = Append(queue, r) /\ hand' = [hand EXCEPT ![r] = "wait"] /\ UNCHANGED <<inbox, via, slot>>
    <3>1. queue' \in Seq(Requests)
      BY <2>2 DEF TypeOK
    <3> QED
      BY <1>1, <1>2, <2>2, <3>1 DEF TypeOK, Submit
  <2> QED
    BY <1>2, <2>1, <2>2 DEF Submit
<1>3. CASE Answer(r)
  <2>1. slot[r] \in Replies
    BY <1>3 DEF TypeOK, Answer
  <2> QED
    BY <1>1, <1>3, <2>1, RespondType DEF TypeOK, Answer
<1>4. CASE GiveUp(r)
  BY <1>1, <1>4, RespondType, FailedIsResult, MessageType DEF TypeOK, GiveUp
<1> QED
  BY <1>2, <1>3, <1>4 DEF Thread

LEMMA BatcherType ==
  ASSUME IInv, Batcher
  PROVE  TypeOK'
<1> USE DEF IInv, collector, threads, batcher, served
<1>1. UNCHANGED swaps /\ Results' = Results /\ Replies' = Replies /\ policy' = policy
  <2>1. UNCHANGED swaps
    BY DEF Batcher, Forward, Settle
  <2> QED
    BY <2>1, ResultsStay
<1>2. policy \in Nat
  BY DEF TypeOK, policy
<1>3. CASE Forward
  <2>1. PICK n \in Sizes : /\ n <= Len(queue) /\ batch' = SubSeq(queue, 1, n)
                           /\ queue' = SubSeq(queue, n + 1, Len(queue))
    BY <1>3 DEF Forward
  <2>2. n \in 1..MaxBatch /\ n \in 1..Len(queue)
    BY <2>1, ServiceAssumption DEF Sizes, TypeOK
  <2>3. batch' \in Seq(Requests) /\ queue' \in Seq(Requests) /\ Len(batch') <= MaxBatch
    BY <2>1, <2>2, ServiceAssumption DEF TypeOK
  <2>4. policy \in 0..policy
    BY <1>2
  <2> QED
    <3>1. using' \in 0..policy' /\ UNCHANGED <<collector, threads, served>>
      BY <1>1, <1>3, <2>4 DEF Forward, PolicyOf
    <3> HIDE DEF policy
    <3> QED
      BY <1>1, <2>3, <3>1 DEF TypeOK
<1>4. CASE Settle
  <2>1. slot' \in [Requests -> Replies \cup {None}]
    <3>1. Result \in Results
      BY FailedIsResult DEF TypeOK, Results, Result
    <3>2. \A i \in DOMAIN batch : Outcome(i) \in Replies
      BY <3>1, MessageType DEF TypeOK, Outcome
    <3> QED
      BY <1>4, <3>2 DEF TypeOK, Settle
  <2>2. batch' \in Seq(Requests) /\ Len(batch') <= MaxBatch /\ using' \in 0..policy
    BY <1>2, <1>4, ServiceAssumption DEF Settle
  <2> QED
    BY <1>1, <1>4, <2>1, <2>2 DEF TypeOK, Settle
<1> QED
  BY <1>3, <1>4 DEF Batcher

LEMMA ReloadType ==
  ASSUME IInv, NEW k \in Reloads, Reload(k)
  PROVE  TypeOK' /\ policy' >= policy
<1> USE DEF IInv, collector, threads, batcher, served
<1>1. policy \in Nat /\ swaps \in Seq(Reloads)
  BY DEF TypeOK, policy
<1>2. CASE SetPolicy(k)
  <2>1. swaps' \in Seq(Reloads) /\ policy' = policy + 1
    BY <1>1, <1>2 DEF SetPolicy, policy
  <2>2. 0..policy \subseteq 0..policy'
    BY <1>1, <2>1
  <2>3. Results \subseteq Results' /\ Replies \subseteq Replies'
    BY <1>1, <2>1, ResultsGrow
  <2>4. Seq(Replies) \subseteq Seq(Replies')
    BY <2>3
  <2>5. inbox' \in [Clients -> Seq(Replies')] /\ answer' \in [Clients -> Replies' \cup {None}]
    BY <1>2, <2>3, <2>4 DEF TypeOK, SetPolicy
  <2>6. slot' \in [Requests -> Replies' \cup {None}]
    BY <1>2, <2>3 DEF TypeOK, SetPolicy
  <2>7. since' \in [Clients -> 0..policy'] /\ using' \in 0..policy'
    BY <1>2, <2>2 DEF TypeOK, SetPolicy
  <2>8. loading' \in [Reloads -> {"none", "swapped", "named", "done"}]
    BY <1>2 DEF TypeOK, SetPolicy
  <2> QED
    BY <1>1, <1>2, <2>1, <2>5, <2>6, <2>7, <2>8 DEF TypeOK, SetPolicy
<1>3. CASE SetId(k) \/ SetConfig(k)
  <2>1. UNCHANGED swaps
    BY <1>3 DEF SetId, SetConfig
  <2>2. Results' = Results /\ Replies' = Replies /\ policy' = policy
    BY <2>1, ResultsStay
  <2>3. /\ loading' \in [Reloads -> {"none", "swapped", "named", "done"}]
        /\ shown' \in [id : Reloads \cup {None}, config : Reloads \cup {None}]
    <3>1. CASE SetId(k)
      BY <3>1 DEF TypeOK, SetId
    <3>2. CASE SetConfig(k)
      BY <3>2 DEF TypeOK, SetConfig
    <3> QED
      BY <1>3, <3>1, <3>2
  <2>4. UNCHANGED <<collector, threads, batcher>>
    BY <1>3 DEF SetId, SetConfig
  <2>5. policy' >= policy
    BY <1>1, <2>2
  <2>6. /\ using' \in 0..policy' /\ since' \in [Clients -> 0..policy']
        /\ inbox' \in [Clients -> Seq(Replies')] /\ answer' \in [Clients -> Replies' \cup {None}]
        /\ slot' \in [Requests -> Replies' \cup {None}] /\ swaps' \in Seq(Reloads)
    BY <2>1, <2>2, <2>4 DEF TypeOK
  <2>7. TypeOK'
    BY <2>3, <2>4, <2>6 DEF TypeOK
  <2> QED
    BY <2>5, <2>7
<1> QED
  BY <1>2, <1>3 DEF Reload

LEMMA IdleType ==
  ASSUME IInv, NEW c \in Clients, IdleClose(c)
  PROVE  TypeOK'
<1> USE DEF IInv, threads, batcher, served
<1>1. Results' = Results /\ Replies' = Replies /\ policy' = policy
  BY ResultsStay DEF IdleClose
<1> QED
  BY <1>1 DEF TypeOK, IdleClose

LEMMA StutterType ==
  ASSUME IInv, UNCHANGED vars
  PROVE  TypeOK'
<1> USE DEF IInv, vars, collector, threads, batcher, served
<1>1. Results' = Results /\ Replies' = Replies /\ policy' = policy
  BY ResultsStay
<1> QED
  BY <1>1 DEF TypeOK

LEMMA NextType == IInv /\ [Next]_vars => TypeOK'
<1> SUFFICES ASSUME IInv, [Next]_vars PROVE TypeOK'
  OBVIOUS
<1>1. ASSUME NEW c \in Clients, Collector(c) PROVE TypeOK'
  BY <1>1, CollectorType
<1>2. ASSUME NEW c \in Clients, IdleClose(c) PROVE TypeOK'
  BY <1>2, IdleType
<1>3. ASSUME NEW r \in Requests, Thread(r) PROVE TypeOK'
  BY <1>3, ThreadType
<1>4. CASE Batcher
  BY <1>4, BatcherType
<1>5. ASSUME NEW k \in Reloads, Reload(k) PROVE TypeOK'
  BY <1>5, ReloadType
<1>6. CASE UNCHANGED vars
  BY <1>6, StutterType
<1> QED
  BY <1>1, <1>2, <1>3, <1>4, <1>5, <1>6 DEF Next

--------------------------------------------------------------------------------
(* What each kind of step leaves alone. *)

\* The collectors' side of a retry: its connection is gone.
LEMMA RetryEffect ==
  ASSUME TypeOK, NEW c \in Clients, Retry(c)
  PROVE  /\ conn' = [conn EXCEPT ![c] = None] /\ inbox' = [inbox EXCEPT ![c] = <<>>]
         /\ \/ pc' = [pc EXCEPT ![c] = "idle"] /\ try' = try
               /\ answer' = [answer EXCEPT ![c] = Reply(Now(c), Failed("unreachable"))]
            \/ /\ pc' = [pc EXCEPT ![c] = "send"] /\ try' = [try EXCEPT ![c] = try[c] + 1]
               /\ answer' = answer
  BY DEF Retry, Closed, Ends, NextTry

\* Steps by their effect on what the invariants speak of.
Deliver(c) ==
  /\ pc[c] = "wait" /\ inbox[c] # <<>> /\ Ends(c, Head(inbox[c]))
  /\ inbox' = [inbox EXCEPT ![c] = Tail(@)]
  /\ UNCHANGED <<conn, try, call, since, hand, via, slot, queue, batch, using, swaps>>
Drop(c) ==
  /\ pc[c] # "idle" /\ Retry(c)
  /\ UNCHANGED <<call, since, hand, via, slot, queue, batch, using, swaps>>
Quiet ==
  /\ UNCHANGED <<pc, call, try, conn, inbox, answer, since, hand, via, slot, queue, batch, using>>
  /\ policy' >= policy

LEMMA StepCases ==
  ASSUME IInv, [Next]_vars
  PROVE  \/ Quiet
         \/ \E c \in Clients : Call(c) \/ Send(c) \/ Drop(c) \/ Deliver(c)
         \/ \E r \in Requests : Thread(r)
         \/ Forward \/ Settle
<1> USE DEF collector, threads, batcher, served
<1>1. ASSUME NEW c \in Clients, Learn(c) PROVE Quiet
  <2>1. policy \in Nat /\ policy' = policy
    BY <1>1 DEF Learn, IInv, TypeOK, policy
  <2> QED
    BY <1>1, <2>1 DEF Learn, Quiet
<1>2. ASSUME NEW c \in Clients, TransportError(c) PROVE Drop(c)
  BY <1>2 DEF TransportError, Drop
<1>3. ASSUME NEW c \in Clients, Receive(c) PROVE Drop(c) \/ Deliver(c)
  BY <1>3 DEF Receive, Drop, Deliver
<1>4. ASSUME NEW c \in Clients, IdleClose(c) PROVE Quiet
  <2>1. policy \in Nat /\ policy' = policy
    BY <1>4 DEF IdleClose, IInv, TypeOK, policy
  <2> QED
    BY <1>4, <2>1 DEF IdleClose, Quiet
<1>5. ASSUME NEW k \in Reloads, Reload(k) PROVE Quiet
  <2>1. policy' >= policy
    BY <1>5, ReloadType
  <2> QED
    BY <1>5, <2>1 DEF Reload, SetPolicy, SetId, SetConfig, Quiet
<1>6. CASE UNCHANGED vars
  <2>1. policy \in Nat /\ policy' = policy
    BY <1>6 DEF vars, IInv, TypeOK, policy
  <2> QED
    BY <1>6, <2>1 DEF vars, Quiet
<1>7. ASSUME NEW c \in Clients, Collector(c)
      PROVE  Quiet \/ Call(c) \/ Send(c) \/ Drop(c) \/ Deliver(c)
  BY <1>1, <1>2, <1>3, <1>7 DEF Collector
<1> QED
  BY <1>4, <1>5, <1>6, <1>7 DEF Next, Batcher

--------------------------------------------------------------------------------
(* The invariants of delivery. *)

LEMMA DropEffect ==
  ASSUME TypeOK, NEW c \in Clients, Drop(c)
  PROVE  /\ conn' = [conn EXCEPT ![c] = None] /\ inbox' = [inbox EXCEPT ![c] = <<>>]
         /\ UNCHANGED <<call, since, hand, via, slot, queue, batch, using, swaps>>
         /\ \A d \in Clients \ {c} : pc'[d] = pc[d] /\ try'[d] = try[d] /\ answer'[d] = answer[d]
         /\ answer'[c] \in {answer[c], Reply(Now(c), Failed("unreachable"))}
<1>1. Retry(c)
  BY DEF Drop
<1>2. /\ conn' = [conn EXCEPT ![c] = None] /\ inbox' = [inbox EXCEPT ![c] = <<>>]
      /\ \/ pc' = [pc EXCEPT ![c] = "idle"] /\ try' = try
            /\ answer' = [answer EXCEPT ![c] = Reply(Now(c), Failed("unreachable"))]
         \/ /\ pc' = [pc EXCEPT ![c] = "send"] /\ try' = [try EXCEPT ![c] = try[c] + 1]
            /\ answer' = answer
  BY <1>1, RetryEffect
<1>3. UNCHANGED <<call, since, hand, via, slot, queue, batch, using, swaps>>
  BY DEF Drop
<1>4. \A d \in Clients \ {c} : pc'[d] = pc[d] /\ try'[d] = try[d] /\ answer'[d] = answer[d]
  BY <1>2 DEF TypeOK
<1>5. answer'[c] \in {answer[c], Reply(Now(c), Failed("unreachable"))}
  BY <1>2 DEF TypeOK
<1> QED
  BY <1>2, <1>3, <1>4, <1>5

LEMMA UnsentStep == IInv /\ [Next]_vars => (UnsentIsNew /\ Underway)'
<1> SUFFICES ASSUME IInv, [Next]_vars PROVE (UnsentIsNew /\ Underway)'
  OBVIOUS
<1> USE DEF IInv
<1>0. \A c \in Clients : call[c] \in Nat /\ try[c] \in Nat
  BY ServiceAssumption DEF TypeOK
<1>1. CASE Quiet
  BY <1>1 DEF Quiet, UnsentIsNew, Unsent, Now, Underway
<1>2. ASSUME NEW c \in Clients, Call(c) PROVE (UnsentIsNew /\ Underway)'
  <2>1. ASSUME NEW r \in Requests, Unsent(r)' PROVE Unsent(r)
    <3>1. r[1] \in Clients /\ r[2] \in Nat /\ r[3] \in Nat /\ r = <<r[1], r[2], r[3]>>
      BY RequestType
    <3>2. CASE r[1] = c
      BY <1>0, <1>2, <2>1, <3>1, <3>2 DEF Call, Unsent, Now, TypeOK
    <3>3. CASE r[1] # c
      BY <1>2, <2>1, <3>1, <3>3 DEF Call, Unsent, Now, TypeOK
    <3> QED
      BY <3>2, <3>3
  <2>2. hand' = hand
    BY <1>2 DEF Call, threads
  <2>3. UnsentIsNew'
    BY <2>1, <2>2 DEF UnsentIsNew
  <2>4. Underway'
    BY <1>0, <1>2 DEF Call, Underway, TypeOK
  <2> QED
    BY <2>3, <2>4
<1>3. ASSUME NEW c \in Clients, Send(c) PROVE (UnsentIsNew /\ Underway)'
  <2>1. Now(c) \in Requests /\ Now(c)[1] = c /\ Now(c)[2] = call[c] /\ Now(c)[3] = try[c]
    BY <1>3, NowType DEF Send
  <2>2. ASSUME NEW r \in Requests, Unsent(r)' PROVE Unsent(r) /\ r # Now(c)
    <3>1. r[1] \in Clients /\ r[2] \in Nat /\ r[3] \in Nat /\ r = <<r[1], r[2], r[3]>>
      BY RequestType
    <3>2. CASE r[1] = c
      BY <1>0, <1>3, <2>1, <2>2, <3>1, <3>2 DEF Send, Unsent, Now, TypeOK
    <3>3. CASE r[1] # c
      BY <1>3, <2>1, <2>2, <3>1, <3>3 DEF Send, Unsent, Now, TypeOK
    <3> QED
      BY <3>2, <3>3
  <2>3. UnsentIsNew'
    BY <1>3, <2>1, <2>2 DEF Send, UnsentIsNew, TypeOK
  <2>4. Underway'
    BY <1>3 DEF Send, Underway, TypeOK
  <2> QED
    BY <2>3, <2>4
<1>4. ASSUME NEW c \in Clients, Drop(c) PROVE (UnsentIsNew /\ Underway)'
  <2>1. Retry(c) /\ pc[c] # "idle" /\ call' = call /\ hand' = hand
    BY <1>4 DEF Drop
  <2>2. \/ /\ pc' = [pc EXCEPT ![c] = "idle"] /\ try' = try
           /\ \A d \in Clients \ {c} : answer'[d] = answer[d]
        \/ pc' = [pc EXCEPT ![c] = "send"] /\ try' = [try EXCEPT ![c] = try[c] + 1] /\ answer' = answer
    <3>1. answer \in [Clients -> Replies \cup {None}]
      BY DEF TypeOK
    <3>2. ASSUME NEW v, answer' = [answer EXCEPT ![c] = v]
          PROVE  \A d \in Clients \ {c} : answer'[d] = answer[d]
      BY <3>1, <3>2
    <3> QED
      BY <2>1, <3>2, RetryEffect
  <2>3. ASSUME NEW r \in Requests, Unsent(r)' PROVE Unsent(r)
    <3>1. r[1] \in Clients /\ r[2] \in Nat /\ r[3] \in Nat /\ r = <<r[1], r[2], r[3]>>
      BY RequestType
    <3>2. CASE r[1] = c
      BY <1>0, <2>1, <2>2, <2>3, <3>1, <3>2 DEF Unsent, Now, TypeOK
    <3>3. CASE r[1] # c
      BY <2>1, <2>2, <2>3, <3>1, <3>3 DEF Unsent, Now, TypeOK
    <3> QED
      BY <3>2, <3>3
  <2>4. UnsentIsNew'
    BY <2>1, <2>3 DEF UnsentIsNew
  <2>5. Underway'
    <3>1. call[c] > 0 /\ answer[c] = None
      BY <2>1 DEF Underway
    <3>2. \A d \in Clients : pc'[d] # "idle" => call'[d] > 0 /\ answer'[d] = None
      BY <2>1, <2>2, <3>1 DEF Underway, TypeOK
    <3> QED
      BY <3>2 DEF Underway
  <2> QED
    BY <2>4, <2>5
<1>5. ASSUME NEW c \in Clients, Deliver(c) PROVE (UnsentIsNew /\ Underway)'
  <2>1. ASSUME NEW r \in Requests, Unsent(r)' PROVE Unsent(r)
    BY <1>5, <2>1, RequestType DEF Deliver, Ends, Unsent, Now, TypeOK
  <2>2. UnsentIsNew'
    BY <1>5, <2>1 DEF Deliver, UnsentIsNew
  <2>3. Underway'
    BY <1>5 DEF Deliver, Ends, Underway, TypeOK
  <2> QED
    BY <2>2, <2>3
<1>6. ASSUME NEW r \in Requests, Thread(r) PROVE (UnsentIsNew /\ Underway)'
  <2>1. Active(r) /\ UNCHANGED <<pc, call, try, answer>> /\ \A q \in Requests \ {r} : hand'[q] = hand[q]
    BY <1>6 DEF Thread, Submit, Answer, GiveUp, Respond, Active, TypeOK
  <2>2. ~Unsent(r)
    BY <2>1 DEF UnsentIsNew, Active
  <2> QED
    BY <2>1, <2>2 DEF UnsentIsNew, Unsent, Now, Underway
<1>7. CASE Forward \/ Settle
  BY <1>7 DEF Forward, Settle, collector, threads, UnsentIsNew, Unsent, Now, Underway
<1> QED
  BY <1>1, <1>2, <1>3, <1>4, <1>5, <1>6, <1>7, StepCases

\* A request that was sent stays so, and none but the current one is sent.
LEMMA HandStep ==
  ASSUME IInv, [Next]_vars
  PROVE  \A r \in Requests : hand[r] # "none" => hand'[r] # "none"
<1> USE DEF IInv, TypeOK
<1>1. CASE Quiet
  BY <1>1 DEF Quiet
<1>2. ASSUME NEW c \in Clients, Call(c) \/ Send(c) \/ Drop(c) \/ Deliver(c)
      PROVE  \A r \in Requests : hand[r] # "none" => hand'[r] # "none"
  BY <1>2 DEF Call, Send, Drop, Deliver, threads
<1>3. ASSUME NEW q \in Requests, Thread(q)
      PROVE  \A r \in Requests : hand[r] # "none" => hand'[r] # "none"
  BY <1>3 DEF Thread, Submit, Answer, GiveUp, Respond
<1>4. CASE Forward \/ Settle
  BY <1>4 DEF Forward, Settle, threads
<1> QED
  BY <1>1, <1>2, <1>3, <1>4, StepCases

LEMMA ConnectionStep == IInv /\ [Next]_vars => ConnectionsAreOld'
<1> SUFFICES ASSUME IInv, [Next]_vars, NEW c \in Clients, conn'[c] # None
             PROVE  hand'[conn'[c]] # "none"
  BY DEF ConnectionsAreOld
<1> USE DEF IInv
<1>1. CASE conn'[c] = conn[c]
  <2>1. conn[c] \in Requests
    BY <1>1 DEF TypeOK
  <2> QED
    BY <1>1, <2>1, HandStep DEF ConnectionsAreOld
<1>2. CASE Send(c)
  <2>1. Now(c) \in Requests
    BY <1>2, NowType DEF Send
  <2> QED
    BY <1>1, <1>2, <2>1 DEF Send, TypeOK
<1>3. conn'[c] = conn[c] \/ conn'[c] = None \/ Send(c)
  <2>1. CASE Quiet
    BY <2>1 DEF Quiet
  <2>2. ASSUME NEW d \in Clients, Call(d) \/ Send(d) \/ Deliver(d)
        PROVE  conn'[c] = conn[c] \/ Send(c)
    <3>1. CASE Call(d)
      BY <3>1 DEF Call
    <3>2. CASE Send(d) /\ d # c
      BY <3>2 DEF Send, TypeOK
    <3>3. CASE Deliver(d)
      BY <3>3 DEF Deliver
    <3> QED
      BY <2>2, <3>1, <3>2, <3>3
  <2>3. ASSUME NEW d \in Clients, Drop(d)
        PROVE  conn'[c] = conn[c] \/ conn'[c] = None
    <3>1. conn' = [conn EXCEPT ![d] = None]
      BY <2>3, RetryEffect DEF Drop
    <3>2. conn \in [Clients -> Requests \cup {None}]
      BY DEF TypeOK
    <3> QED
      BY <3>1, <3>2
  <2>4. ASSUME NEW r \in Requests, Thread(r) PROVE conn'[c] = conn[c]
    BY <2>4 DEF Thread, Submit, Answer, GiveUp
  <2>5. CASE Forward \/ Settle
    BY <2>5 DEF Forward, Settle, collector
  <2> QED
    BY <2>1, <2>2, <2>3, <2>4, <2>5, StepCases
<1> QED
  BY <1>1, <1>2, <1>3

LEMMA ActiveStep == IInv /\ [Next]_vars => ActiveIsSent'
<1> SUFFICES ASSUME IInv, [Next]_vars, NEW r \in Requests, Active(r)'
             PROVE  via'[r] # None /\ hand'[via'[r]] # "none"
  BY DEF ActiveIsSent
<1> USE DEF IInv
<1>1. CASE Active(r) /\ via'[r] = via[r]
  <2>1. via[r] # None /\ via[r] \in Requests /\ hand[via[r]] # "none"
    BY <1>1 DEF ActiveIsSent, TypeOK
  <2> QED
    BY <1>1, <2>1, HandStep
<1>2. ASSUME NEW c \in Clients, Send(c), r = Now(c) PROVE via'[r] # None /\ hand'[via'[r]] # "none"
  <2>1. via'[r] = conn'[c] /\ conn'[c] # None
    BY <1>2, NoneIsNoRequest DEF Send, TypeOK
  <2>2. hand'[conn'[c]] # "none"
    BY <2>1, ConnectionStep DEF ConnectionsAreOld
  <2> QED
    BY <2>1, <2>2
<1>3. (Active(r) /\ via'[r] = via[r]) \/ \E c \in Clients : Send(c) /\ r = Now(c)
  <2>1. CASE Quiet
    BY <2>1 DEF Quiet, Active
  <2>2. ASSUME NEW d \in Clients, Call(d) \/ Drop(d) \/ Deliver(d)
        PROVE  Active(r) /\ via'[r] = via[r]
    BY <2>2 DEF Call, Drop, Deliver, threads, Active
  <2>3. ASSUME NEW d \in Clients, Send(d), r # Now(d)
        PROVE  Active(r) /\ via'[r] = via[r]
    BY <2>3 DEF Send, Active, TypeOK
  <2>4. ASSUME NEW q \in Requests, Thread(q) PROVE Active(r) /\ via'[r] = via[r]
    BY <2>4 DEF Thread, Submit, Answer, GiveUp, Respond, Active, TypeOK
  <2>5. CASE Forward \/ Settle
    BY <2>5 DEF Forward, Settle, threads, Active
  <2> QED
    BY <2>1, <2>2, <2>3, <2>4, <2>5, StepCases
<1> QED
  BY <1>1, <1>2, <1>3

\* When a collector sends, no older request of its can answer over its connection.
LEMMA SendIsAlone ==
  ASSUME IInv, NEW c \in Clients, Send(c), NEW r \in Requests, r[1] = c, Active(r)
  PROVE  via[r] # conn'[c] /\ r # Now(c)
<1> USE DEF IInv
<1>1. Now(c) \in Requests /\ Now(c)[1] = c /\ pc[c] = "send"
  BY NowType DEF Send
<1>2. hand[Now(c)] = "none"
  BY <1>1 DEF UnsentIsNew, Unsent
<1>3. via[r] # conn[c]
  BY <1>1 DEF OneOutstanding
<1>4. via[r] # Now(c)
  BY <1>2 DEF ActiveIsSent
<1>5. conn'[c] \in {conn[c], Now(c)}
  BY DEF Send, TypeOK
<1> QED
  BY <1>2, <1>3, <1>4, <1>5 DEF Active

LEMMA OutstandingStep == IInv /\ [Next]_vars => OneOutstanding'
<1> SUFFICES ASSUME IInv, [Next]_vars, NEW r \in Requests, Active(r)', via'[r] = conn'[r[1]]
             PROVE  (pc[r[1]] = "wait" /\ r = Now(r[1]) /\ inbox[r[1]] = <<>>)'
  BY DEF OneOutstanding
<1> USE DEF IInv
<1>0. r[1] \in Clients /\ via'[r] # None
  BY RequestType, ActiveStep DEF ActiveIsSent
<1>1. CASE Quiet
  BY <1>1 DEF Quiet, OneOutstanding, Active, Now
<1>2. ASSUME NEW c \in Clients, Call(c) PROVE (pc[r[1]] = "wait" /\ r = Now(r[1]) /\ inbox[r[1]] = <<>>)'
  BY <1>0, <1>2 DEF Call, threads, OneOutstanding, Active, Now, TypeOK
<1>3. ASSUME NEW c \in Clients, Send(c) PROVE (pc[r[1]] = "wait" /\ r = Now(r[1]) /\ inbox[r[1]] = <<>>)'
  <2>1. Now(c) \in Requests /\ Now(c)[1] = c
    BY <1>3, NowType DEF Send
  <2>2. CASE r = Now(c)
    <3>1. inbox[c] = <<>>
      BY <1>3 DEF Send, InboxIsOwn
    <3> QED
      BY <1>3, <2>1, <2>2, <3>1 DEF Send, Now, TypeOK
  <2>3. CASE r # Now(c) /\ r[1] = c
    <3>1. hand'[r] = hand[r] /\ via'[r] = via[r]
      BY <1>3, <2>1, <2>3 DEF Send, TypeOK
    <3>2. Active(r) /\ via[r] = conn'[c]
      BY <2>3, <3>1 DEF Active
    <3> QED
      BY <1>3, <2>3, <3>2, SendIsAlone
  <2>4. CASE r[1] # c
    BY <1>0, <1>3, <2>1, <2>4 DEF Send, OneOutstanding, Active, Now, TypeOK
  <2> QED
    BY <2>2, <2>3, <2>4
<1>4. ASSUME NEW c \in Clients, Drop(c) PROVE (pc[r[1]] = "wait" /\ r = Now(r[1]) /\ inbox[r[1]] = <<>>)'
  <2>1. /\ conn' = [conn EXCEPT ![c] = None] /\ inbox' = [inbox EXCEPT ![c] = <<>>]
        /\ UNCHANGED <<call, hand, via>>
        /\ \A d \in Clients \ {c} : pc'[d] = pc[d] /\ try'[d] = try[d]
    BY <1>4, DropEffect
  <2>2. r[1] # c
    BY <1>0, <2>1 DEF TypeOK
  <2> QED
    BY <1>0, <2>1, <2>2 DEF OneOutstanding, Active, Now, TypeOK
<1>5. ASSUME NEW c \in Clients, Deliver(c) PROVE (pc[r[1]] = "wait" /\ r = Now(r[1]) /\ inbox[r[1]] = <<>>)'
  <2>1. r[1] # c
    BY <1>0, <1>5 DEF Deliver, OneOutstanding, Active, TypeOK
  <2> QED
    BY <1>0, <1>5, <2>1 DEF Deliver, Ends, OneOutstanding, Active, Now, TypeOK
<1>6. ASSUME NEW q \in Requests, Thread(q) PROVE (pc[r[1]] = "wait" /\ r = Now(r[1]) /\ inbox[r[1]] = <<>>)'
  <2>1. UNCHANGED <<pc, call, try, conn>> /\ Active(r) /\ Active(q) /\ via'[r] = via[r]
    BY <1>6 DEF Thread, Submit, Answer, GiveUp, Respond, Active, TypeOK
  <2>2. pc[r[1]] = "wait" /\ r = Now(r[1]) /\ inbox[r[1]] = <<>>
    BY <2>1 DEF OneOutstanding
  <2>3. inbox'[r[1]] = inbox[r[1]]
    <3>1. CASE \E x : Respond(q, x)
      <4>1. q # r
        BY <3>1 DEF Respond, Active, TypeOK
      <4>2. q[1] # r[1] \/ via[q] # conn[q[1]]
        BY <2>1, <2>2, <4>1 DEF OneOutstanding
      <4> QED
        BY <1>0, <3>1, <4>2, RequestType DEF Respond, TypeOK
    <3>2. CASE inbox' = inbox
      BY <3>2
    <3> QED
      BY <1>6, <3>1, <3>2 DEF Thread, Submit, Answer, GiveUp
  <2> QED
    BY <2>1, <2>2, <2>3 DEF Now
<1>7. CASE Forward \/ Settle
  BY <1>7 DEF Forward, Settle, collector, threads, OneOutstanding, Active, Now
<1> QED
  BY <1>1, <1>2, <1>3, <1>4, <1>5, <1>6, <1>7, StepCases

--------------------------------------------------------------------------------
(* The invariants of freshness. *)

\* No request of a call that has not begun was sent.
LEMMA CallIsNew ==
  ASSUME IInv, NEW c \in Clients, Call(c), NEW r \in Requests, r[1] = c, hand[r] # "none"
  PROVE  r[2] # call'[c]
<1> USE DEF IInv
<1>1. call'[c] = call[c] + 1 /\ call[c] \in Nat /\ r[2] \in Nat
  BY ServiceAssumption, RequestType DEF Call, TypeOK
<1>2. ~(r[2] > call[c])
  BY DEF UnsentIsNew, Unsent
<1> QED
  BY <1>1, <1>2

LEMMA QueueStep == IInv /\ [Next]_vars => QueuedIsSent'
<1> SUFFICES ASSUME IInv, [Next]_vars PROVE QueuedIsSent'
  OBVIOUS
<1> USE DEF IInv
<1>0. queue \in Seq(Requests) /\ \A i \in 1..Len(queue) : queue[i] \in Requests
  BY DEF TypeOK
<1>1. CASE queue' = queue
  BY <1>0, <1>1, HandStep DEF QueuedIsSent
<1>2. ASSUME NEW r \in Requests, Active(r), queue' = Append(queue, r) PROVE QueuedIsSent'
  <2>1. hand'[r] # "none"
    BY <1>2, HandStep DEF Active
  <2> QED
    BY <1>0, <1>2, <2>1, HandStep DEF QueuedIsSent
<1>3. ASSUME NEW n \in Nat, n <= Len(queue), queue' = SubSeq(queue, n + 1, Len(queue)) PROVE QueuedIsSent'
  <2>1. \A i \in 1..Len(queue') : queue'[i] = queue[n + i] /\ n + i \in 1..Len(queue)
    BY <1>0, <1>3
  <2> QED
    BY <1>0, <2>1, HandStep DEF QueuedIsSent
<1>4. CASE Quiet
  BY <1>1, <1>4 DEF Quiet
<1>5. ASSUME NEW c \in Clients, Call(c) \/ Send(c) \/ Drop(c) \/ Deliver(c) PROVE QueuedIsSent'
  BY <1>1, <1>5 DEF Call, Send, Drop, Deliver, batcher
<1>6. ASSUME NEW r \in Requests, Thread(r) PROVE QueuedIsSent'
  BY <1>1, <1>2, <1>6 DEF Thread, Submit, Answer, GiveUp, batcher, Active
<1>7. CASE Forward
  BY <1>3, <1>7, ServiceAssumption DEF Forward, Sizes
<1>8. CASE Settle
  BY <1>1, <1>8 DEF Settle
<1> QED
  BY <1>4, <1>5, <1>6, <1>7, <1>8, StepCases

LEMMA BatchStep == IInv /\ [Next]_vars => BatchIsFresh'
<1> SUFFICES ASSUME IInv, [Next]_vars PROVE BatchIsFresh'
  OBVIOUS
<1> USE DEF IInv
<1>0. /\ batch \in Seq(Requests) /\ \A i \in 1..Len(batch) : batch[i] \in Requests /\ batch[i][1] \in Clients
      /\ queue \in Seq(Requests) /\ \A i \in 1..Len(queue) : queue[i] \in Requests /\ queue[i][1] \in Clients
  <2>1. batch \in Seq(Requests) /\ \A i \in 1..Len(batch) : batch[i] \in Requests
    BY DEF TypeOK
  <2>2. queue \in Seq(Requests) /\ \A i \in 1..Len(queue) : queue[i] \in Requests
    BY DEF TypeOK
  <2> QED
    BY <2>1, <2>2, RequestType
<1>1. CASE UNCHANGED <<batch, using, call, since>>
  BY <1>0, <1>1, HandStep DEF BatchIsFresh
<1>2. CASE Quiet
  BY <1>1, <1>2 DEF Quiet
<1>3. ASSUME NEW c \in Clients, Call(c) PROVE BatchIsFresh'
  <2>1. UNCHANGED <<batch, using>> /\ \A d \in Clients \ {c} : call'[d] = call[d] /\ since'[d] = since[d]
    BY <1>3 DEF Call, batcher, TypeOK
  <2>2. \A i \in 1..Len(batch) : batch[i][1] = c => batch[i][2] # call'[c]
    BY <1>0, <1>3, CallIsNew DEF BatchIsFresh
  <2> QED
    BY <1>0, <2>1, <2>2, HandStep DEF BatchIsFresh
<1>4. ASSUME NEW c \in Clients, Send(c) \/ Drop(c) \/ Deliver(c) PROVE BatchIsFresh'
  BY <1>1, <1>4 DEF Send, Drop, Deliver, batcher
<1>5. ASSUME NEW r \in Requests, Thread(r) PROVE BatchIsFresh'
  BY <1>1, <1>5 DEF Thread, Submit, Answer, GiveUp, batcher
<1>6. CASE Forward
  <2>1. PICK n \in Sizes : n <= Len(queue) /\ batch' = SubSeq(queue, 1, n)
    BY <1>6 DEF Forward
  <2>2. n \in Nat
    BY <2>1, ServiceAssumption DEF Sizes
  <2>3. \A i \in 1..Len(batch') : batch'[i] = queue[i] /\ i \in 1..Len(queue)
    BY <1>0, <2>1, <2>2
  <2>4. using' = policy /\ UNCHANGED <<hand, call, since>> /\ \A d \in Clients : policy >= since[d]
    BY <1>6 DEF Forward, PolicyOf, collector, threads, TypeOK
  <2> QED
    BY <1>0, <2>3, <2>4 DEF BatchIsFresh, QueuedIsSent
<1>7. CASE Settle
  BY <1>7 DEF Settle, BatchIsFresh
<1> QED
  BY <1>2, <1>3, <1>4, <1>5, <1>6, <1>7, StepCases

LEMMA SlotStep == IInv /\ [Next]_vars => SlotIsFresh'
<1> SUFFICES ASSUME IInv, [Next]_vars, NEW r \in Requests, slot'[r] # None
             PROVE  hand'[r] = "wait" /\ slot'[r].request = r /\ (r[2] = call'[r[1]] => Fresh(r[1], slot[r].result)')
  BY DEF SlotIsFresh
<1> USE DEF IInv
<1>0. r[1] \in Clients
  BY RequestType
<1>1. CASE UNCHANGED <<hand, slot, call, since>>
  BY <1>1 DEF SlotIsFresh, Fresh
<1>2. CASE Quiet
  BY <1>1, <1>2 DEF Quiet
<1>3. ASSUME NEW c \in Clients, Call(c)
      PROVE  hand'[r] = "wait" /\ slot'[r].request = r /\ (r[2] = call'[r[1]] => Fresh(r[1], slot[r].result)')
  <2>1. UNCHANGED <<hand, slot>> /\ hand[r] = "wait"
    BY <1>3 DEF Call, threads, SlotIsFresh
  <2>2. CASE r[1] = c
    BY <1>3, <2>1, <2>2, CallIsNew DEF SlotIsFresh
  <2>3. CASE r[1] # c
    BY <1>0, <1>3, <2>1, <2>3 DEF Call, SlotIsFresh, Fresh, TypeOK
  <2> QED
    BY <2>2, <2>3
<1>4. ASSUME NEW c \in Clients, Send(c)
      PROVE  hand'[r] = "wait" /\ slot'[r].request = r /\ (r[2] = call'[r[1]] => Fresh(r[1], slot[r].result)')
  <2>1. UNCHANGED <<slot, call, since>> /\ hand[r] = "wait"
    BY <1>4 DEF Send, SlotIsFresh
  <2>2. Now(c) \in Requests /\ hand[Now(c)] = "none"
    <3>1. Now(c) \in Requests /\ Now(c)[1] = c /\ pc[c] = "send"
      BY <1>4, NowType DEF Send
    <3> QED
      BY <3>1 DEF UnsentIsNew, Unsent
  <2>3. hand'[r] = "wait"
    BY <1>4, <2>1, <2>2 DEF Send, TypeOK
  <2> QED
    BY <2>1, <2>3 DEF SlotIsFresh, Fresh
<1>5. ASSUME NEW c \in Clients, Drop(c) \/ Deliver(c)
      PROVE  hand'[r] = "wait" /\ slot'[r].request = r /\ (r[2] = call'[r[1]] => Fresh(r[1], slot[r].result)')
  BY <1>1, <1>5 DEF Drop, Deliver
<1>6. ASSUME NEW q \in Requests, Thread(q)
      PROVE  hand'[r] = "wait" /\ slot'[r].request = r /\ (r[2] = call'[r[1]] => Fresh(r[1], slot[r].result)')
  <2>1. UNCHANGED <<call, since>> /\ slot'[r] = slot[r]
    BY <1>6 DEF Thread, Submit, Answer, GiveUp, Respond, TypeOK
  <2>2. hand'[r] = "wait"
    BY <1>6, <2>1 DEF Thread, Submit, Answer, GiveUp, Respond, TypeOK, SlotIsFresh
  <2> QED
    BY <2>1, <2>2 DEF SlotIsFresh, Fresh
<1>7. CASE Forward
  BY <1>1, <1>7 DEF Forward, collector, threads
<1>8. CASE Settle
  <2>1. UNCHANGED <<hand, call, since>>
    BY <1>8 DEF Settle, collector
  <2>2. CASE \E i \in DOMAIN batch : Waiting(i, r)
    <3> DEFINE i == CHOOSE j \in DOMAIN batch : Waiting(j, r)
    <3>0. i \in DOMAIN batch /\ Waiting(i, r)
      BY <2>2
    <3>1. i \in 1..Len(batch) /\ r = batch[i] /\ hand[r] = "wait" /\ slot'[r] = Outcome(i)
      BY <1>8, <2>2, <3>0 DEF Waiting, TypeOK, Settle
    <3> HIDE DEF i
    <3>2. r[2] = call[r[1]] => using >= since[r[1]]
      BY <3>1 DEF BatchIsFresh
    <3>3. slot'[r].request = r /\ slot'[r].result = Result
      BY <3>1 DEF Outcome, Reply
    <3>4. Result.status = "evaluated" => Result.policy = using
      BY DEF Result, Evaluated, Failed
    <3> QED
      BY <2>1, <3>1, <3>2, <3>3, <3>4 DEF Fresh
  <2>3. CASE ~\E i \in DOMAIN batch : Waiting(i, r)
    <3>1. slot'[r] = slot[r]
      BY <1>8, <2>3 DEF Settle
    <3> QED
      BY <2>1, <3>1 DEF SlotIsFresh, Fresh
  <2> QED
    BY <2>2, <2>3
<1> QED
  BY <1>2, <1>3, <1>4, <1>5, <1>6, <1>7, <1>8, StepCases

\* Who listens to the inbox when a thread answers.
LEMMA RespondStep ==
  ASSUME IInv, NEW q \in Requests, Active(q), NEW x, Respond(q, x), UNCHANGED <<pc, call, try, conn, since>>,
         x.request = q, q[2] = call[q[1]] => Fresh(q[1], x.result)
  PROVE  InboxIsOwn'
<1> USE DEF IInv
<1>0. q[1] \in Clients /\ via[q] # None
  BY RequestType DEF ActiveIsSent
<1>1. CASE conn[q[1]] = via[q]
  <2>1. pc[q[1]] = "wait" /\ q = Now(q[1]) /\ inbox[q[1]] = <<>>
    BY <1>1 DEF OneOutstanding
  <2>2. inbox'[q[1]] = <<x>> /\ \A d \in Clients \ {q[1]} : inbox'[d] = inbox[d]
    BY <1>0, <1>1, <2>1 DEF Respond, TypeOK
  <2>3. q[2] = call[q[1]]
    BY <1>0, <2>1, NowType
  <2>4. Fresh(q[1], x.result)' /\ Now(q[1])' = Now(q[1])
    BY <2>3 DEF Fresh, Now
  <2>5. ASSUME NEW c \in Clients, inbox'[c] # <<>>
        PROVE  /\ pc'[c] = "wait" /\ Len(inbox'[c]) = 1
               /\ inbox'[c][1].request = Now(c)' /\ Fresh(c, inbox[c][1].result)'
    <3>1. CASE c = q[1]
      <4>1. Len(inbox'[c]) = 1 /\ inbox'[c][1].request = q /\ inbox'[c][1].result = x.result
        BY <2>2, <3>1
      <4>2. pc'[c] = "wait" /\ q = Now(c)'
        BY <2>1, <2>4, <3>1
      <4>3. Fresh(c, inbox[c][1].result)'
        BY <2>4, <3>1, <4>1 DEF Fresh
      <4> QED
        BY <4>1, <4>2, <4>3
    <3>2. CASE c # q[1]
      BY <2>2, <2>5, <3>2 DEF InboxIsOwn, Fresh, Now
    <3> QED
      BY <3>1, <3>2
  <2> QED
    BY <2>5 DEF InboxIsOwn
<1>2. CASE conn[q[1]] # via[q]
  BY <1>2 DEF Respond, InboxIsOwn, Fresh, Now
<1> QED
  BY <1>1, <1>2

LEMMA InboxStep == IInv /\ [Next]_vars => InboxIsOwn'
<1> SUFFICES ASSUME IInv, [Next]_vars PROVE InboxIsOwn'
  OBVIOUS
<1> USE DEF IInv
<1>1. CASE Quiet
  BY <1>1 DEF Quiet, InboxIsOwn, Fresh, Now
<1>2. ASSUME NEW c \in Clients, Call(c) PROVE InboxIsOwn'
  <2>1. inbox' = inbox /\ inbox[c] = <<>>
    BY <1>2 DEF Call, InboxIsOwn
  <2> QED
    BY <1>2, <2>1 DEF Call, InboxIsOwn, Fresh, Now, TypeOK
<1>3. ASSUME NEW c \in Clients, Send(c) PROVE InboxIsOwn'
  <2>1. inbox' = inbox /\ inbox[c] = <<>>
    BY <1>3 DEF Send, InboxIsOwn
  <2> QED
    BY <1>3, <2>1 DEF Send, InboxIsOwn, Fresh, Now, TypeOK
<1>4. ASSUME NEW c \in Clients, Drop(c) PROVE InboxIsOwn'
  <2>1. /\ inbox' = [inbox EXCEPT ![c] = <<>>] /\ UNCHANGED <<call, since>>
        /\ \A d \in Clients \ {c} : pc'[d] = pc[d] /\ try'[d] = try[d]
    BY <1>4, DropEffect
  <2> QED
    BY <2>1 DEF InboxIsOwn, Fresh, Now, TypeOK
<1>5. ASSUME NEW c \in Clients, Deliver(c) PROVE InboxIsOwn'
  <2>1. inbox[c] \in Seq(Replies) /\ inbox[c] # <<>> /\ Len(inbox[c]) = 1
    BY <1>5 DEF Deliver, InboxIsOwn, TypeOK
  <2>2. Tail(inbox[c]) = <<>>
    <3>1. Tail(inbox[c]) \in Seq(Replies) /\ Len(Tail(inbox[c])) = 0
      BY <2>1
    <3> QED
      BY <3>1, EmptySeq
  <2>3. inbox'[c] = <<>> /\ \A d \in Clients \ {c} : inbox'[d] = inbox[d] /\ pc'[d] = pc[d]
    BY <1>5, <2>2 DEF Deliver, Ends, TypeOK
  <2> QED
    BY <1>5, <2>3 DEF Deliver, InboxIsOwn, Fresh, Now
<1>6. ASSUME NEW r \in Requests, Thread(r) PROVE InboxIsOwn'
  <2>1. Active(r) /\ UNCHANGED <<pc, call, try, conn, since>>
    BY <1>6 DEF Thread, Submit, Answer, GiveUp, Active
  <2>2. CASE Answer(r)
    <3>1. slot[r] # None /\ Respond(r, slot[r])
      BY <2>2 DEF Answer
    <3>2. slot[r].request = r /\ (r[2] = call[r[1]] => Fresh(r[1], slot[r].result))
      BY <3>1 DEF SlotIsFresh
    <3> QED
      BY <2>1, <3>1, <3>2, RespondStep
  <2>3. CASE inbox' = inbox
    BY <2>1, <2>3 DEF InboxIsOwn, Fresh, Now
  <2>4. CASE \E s \in {"refused", "busy"} : Respond(r, Reply(r, Failed(s)))
    <3>1. PICK s \in {"refused", "busy"} : Respond(r, Reply(r, Failed(s)))
      BY <2>4
    <3>2. Reply(r, Failed(s)).request = r /\ Fresh(r[1], Reply(r, Failed(s)).result)
      BY <3>1, FailedIsResult DEF Fresh, Reply
    <3> QED
      BY <2>1, <3>1, <3>2, RespondStep
  <2> QED
    BY <1>6, <2>2, <2>3, <2>4 DEF Thread, Submit, GiveUp
<1>7. CASE Forward \/ Settle
  BY <1>7 DEF Forward, Settle, collector, InboxIsOwn, Fresh, Now
<1> QED
  BY <1>1, <1>2, <1>3, <1>4, <1>5, <1>6, <1>7, StepCases

--------------------------------------------------------------------------------
(* The theorems. *)

LEMMA NextIInv == IInv /\ [Next]_vars => IInv'
  BY NextType, UnsentStep, ConnectionStep, ActiveStep, OutstandingStep, InboxStep, QueueStep, BatchStep,
     SlotStep DEF IInv

\* Every reachable state is well typed.
THEOREM TypeCorrect == Spec => []TypeOK
<1>1. IInv => TypeOK
  BY DEF IInv
<1> QED
  BY <1>1, InitIInv, NextIInv, PTL DEF Spec

\* A call of a collector ends with the answer to a request of that very call, or with
\* its own error, whatever abandoned attempts are still answered.
THEOREM AnswersOwnCallHolds == Spec => []AnswersOwnCall
<1>1. Init => AnswersOwnCall
  BY DEF Init, AnswersOwnCall, Answered
<1>2. IInv /\ AnswersOwnCall /\ [Next]_vars => AnswersOwnCall'
  <2> SUFFICES ASSUME IInv, AnswersOwnCall, [Next]_vars, NEW c \in Clients, pc'[c] = "idle", answer'[c] # None
               PROVE  answer'[c].request[1] = c /\ answer'[c].request[2] = call'[c]
    BY DEF AnswersOwnCall, Answered
  <2> USE DEF IInv
  <2>1. CASE pc[c] = "idle" /\ answer'[c] = answer[c] /\ call'[c] = call[c]
    BY <2>1 DEF AnswersOwnCall, Answered
  <2>2. CASE Drop(c)
    <3>1. answer'[c] = Reply(Now(c), Failed("unreachable")) /\ call' = call
      BY <2>2, DropEffect DEF Drop, Underway
    <3> QED
      BY <2>2, <3>1, NowType DEF Drop, Reply
  <2>3. CASE Deliver(c)
    <3>1. answer'[c] = inbox[c][1] /\ inbox[c][1].request = Now(c) /\ call' = call
      BY <2>3 DEF Deliver, Ends, InboxIsOwn, TypeOK
    <3> QED
      BY <2>3, <3>1, NowType DEF Deliver
  <2>4. \/ pc[c] = "idle" /\ answer'[c] = answer[c] /\ call'[c] = call[c]
        \/ Drop(c) \/ Deliver(c)
    <3>1. CASE Quiet
      BY <3>1 DEF Quiet
    <3>2. ASSUME NEW d \in Clients, Call(d) \/ Send(d)
          PROVE  pc[c] = "idle" /\ answer'[c] = answer[c] /\ call'[c] = call[c]
      BY <3>2 DEF Call, Send, TypeOK
    <3>3. ASSUME NEW d \in Clients, d # c, Drop(d)
          PROVE  pc[c] = "idle" /\ answer'[c] = answer[c] /\ call'[c] = call[c]
      BY <3>3, DropEffect
    <3>4. ASSUME NEW d \in Clients, d # c, Deliver(d)
          PROVE  pc[c] = "idle" /\ answer'[c] = answer[c] /\ call'[c] = call[c]
      BY <3>4 DEF Deliver, Ends, TypeOK
    <3>5. ASSUME NEW r \in Requests, Thread(r)
          PROVE  pc[c] = "idle" /\ answer'[c] = answer[c] /\ call'[c] = call[c]
      BY <3>5 DEF Thread, Submit, Answer, GiveUp
    <3>6. CASE Forward \/ Settle
      BY <3>6 DEF Forward, Settle, collector
    <3> QED
      BY <3>1, <3>2, <3>3, <3>4, <3>5, <3>6, StepCases
  <2> QED
    BY <2>1, <2>2, <2>3, <2>4
<1> QED
  BY <1>1, <1>2, InitIInv, NextIInv, PTL DEF Spec

\* An evaluation is by a policy at least as new as the one in service when the call
\* began, however many reloads, retries and batches lie between.
THEOREM AnswersAreFreshHolds == Spec => []AnswersAreFresh
<1>1. Init => AnswersAreFresh
  BY DEF Init, AnswersAreFresh, Answered
<1>2. IInv /\ AnswersAreFresh /\ [Next]_vars => AnswersAreFresh'
  <2> SUFFICES ASSUME IInv, AnswersAreFresh, [Next]_vars, NEW c \in Clients, pc'[c] = "idle", answer'[c] # None
               PROVE  Fresh(c, answer[c].result)'
    BY DEF AnswersAreFresh, Answered, Fresh
  <2> USE DEF IInv
  <2>1. CASE pc[c] = "idle" /\ answer'[c] = answer[c] /\ since'[c] = since[c]
    BY <2>1 DEF AnswersAreFresh, Answered, Fresh
  <2>2. CASE Drop(c)
    <3>1. answer'[c] = Reply(Now(c), Failed("unreachable"))
      BY <2>2, DropEffect DEF Drop, Underway
    <3> QED
      BY <3>1, FailedIsResult DEF Fresh, Reply
  <2>3. CASE Deliver(c)
    <3>1. answer'[c] = inbox[c][1] /\ Fresh(c, inbox[c][1].result) /\ since' = since
      BY <2>3 DEF Deliver, Ends, InboxIsOwn, TypeOK
    <3> QED
      BY <3>1 DEF Fresh
  <2>4. \/ pc[c] = "idle" /\ answer'[c] = answer[c] /\ since'[c] = since[c]
        \/ Drop(c) \/ Deliver(c)
    <3>1. CASE Quiet
      BY <3>1 DEF Quiet
    <3>2. ASSUME NEW d \in Clients, Call(d) \/ Send(d)
          PROVE  pc[c] = "idle" /\ answer'[c] = answer[c] /\ since'[c] = since[c]
      BY <3>2 DEF Call, Send, TypeOK
    <3>3. ASSUME NEW d \in Clients, d # c, Drop(d)
          PROVE  pc[c] = "idle" /\ answer'[c] = answer[c] /\ since'[c] = since[c]
      BY <3>3, DropEffect
    <3>4. ASSUME NEW d \in Clients, d # c, Deliver(d)
          PROVE  pc[c] = "idle" /\ answer'[c] = answer[c] /\ since'[c] = since[c]
      BY <3>4 DEF Deliver, Ends, TypeOK
    <3>5. ASSUME NEW r \in Requests, Thread(r)
          PROVE  pc[c] = "idle" /\ answer'[c] = answer[c] /\ since'[c] = since[c]
      BY <3>5 DEF Thread, Submit, Answer, GiveUp
    <3>6. CASE Forward \/ Settle
      BY <3>6 DEF Forward, Settle, collector
    <3> QED
      BY <3>1, <3>2, <3>3, <3>4, <3>5, <3>6, StepCases
  <2> QED
    BY <2>1, <2>2, <2>3, <2>4
<1> QED
  BY <1>1, <1>2, InitIInv, NextIInv, PTL DEF Spec

--------------------------------------------------------------------------------
(* Reloads. *)

RInv == IInv /\ Reloading /\ ShownIsServed /\ ToldIsNotOlder /\ Fitting

LEMMA PolicyType == ASSUME TypeOK PROVE policy \in Nat /\ policy = Len(swaps) /\ swaps \in Seq(Reloads)
  BY DEF TypeOK, policy

\* Range, as far as these proofs need it.
LEMMA SwappedDef ==
  ASSUME TypeOK, NEW x
  PROVE  Swapped(x) <=> x = None \/ \E i \in 1..policy : swaps[i] = x
<1>1. DOMAIN swaps = 1..policy
  BY PolicyType
<1> QED
  BY <1>1 DEF Swapped, Range

LEMMA InitRInv == Init => RInv
<1> SUFFICES ASSUME Init PROVE RInv
  OBVIOUS
<1>1. IInv
  BY InitIInv
<1>2. policy = 0 /\ swaps = <<>> /\ shown = [id |-> None, config |-> None]
  BY DEF Init, policy
<1>3. \A k \in Reloads : loading[k] = "none"
  BY DEF Init
<1>4. Reloading /\ ToldIsNotOlder
  BY <1>3 DEF Reloading, Locking, ToldIsNotOlder
<1>5. ShownIsServed
  BY <1>2 DEF ShownIsServed, Swapped, Serving, Named
<1>6. Fitting
  BY <1>2, ServiceAssumption DEF Fitting, Init
<1> QED
  BY <1>1, <1>4, <1>5, <1>6 DEF RInv

\* The first assignment: the served policies grow by one.
LEMMA SwapStep ==
  ASSUME RInv, NEW k \in Reloads, SetPolicy(k)
  PROVE  Reloading' /\ ShownIsServed' /\ ToldIsNotOlder' /\ Fitting'
<1> USE DEF RInv, IInv
<1>1. /\ policy \in Nat /\ policy' = policy + 1 /\ swaps' \in Seq(Reloads)
      /\ swaps'[policy'] = k /\ \A i \in 1..policy : swaps'[i] = swaps[i]
  <2>1. policy \in Nat /\ policy = Len(swaps) /\ swaps \in Seq(Reloads)
    BY PolicyType
  <2>2. swaps' = Append(swaps, k)
    BY DEF SetPolicy
  <2> QED
    BY <2>1, <2>2 DEF policy
<1>2. \A j \in Reloads : ~Locking(j)
  BY DEF SetPolicy, Locked, Locking
<1>3. shown' = shown /\ loading' = [loading EXCEPT ![k] = "swapped"] /\ loading[k] = "none"
  BY DEF SetPolicy
<1>4. loading'[k] = "swapped" /\ \A j \in Reloads \ {k} : loading'[j] = loading[j]
  BY <1>3 DEF TypeOK
<1>5. Reloading'
  BY <1>1, <1>2, <1>4 DEF Reloading, Locking
<1>6. ShownIsServed'
  <2>1. Locked'
    BY <1>4 DEF Locked
  <2>2. \A x : Swapped(x) => Swapped(x)'
    <3>1. DOMAIN swaps = 1..policy /\ DOMAIN swaps' = 1..policy'
      BY <1>1, PolicyType DEF policy
    <3>2. Range(swaps) \subseteq Range(swaps')
      BY <1>1, <3>1 DEF Range
    <3> QED
      BY <3>2 DEF Swapped
  <2> QED
    BY <1>3, <2>1, <2>2 DEF ShownIsServed
<1>7. ToldIsNotOlder'
  <2> SUFFICES ASSUME NEW j \in Reloads, loading'[j] = "done"
               PROVE  \E a, b \in 1..policy' : a <= b /\ swaps'[a] = j /\ swaps'[b] = shown'.id
    BY DEF ToldIsNotOlder
  <2>1. PICK a \in 1..policy, b \in 1..policy : a <= b /\ swaps[a] = j /\ swaps[b] = shown.id
    BY <1>4 DEF ToldIsNotOlder
  <2> QED
    BY <1>1, <1>3, <2>1
<1>8. Fitting'
  <2>1. k \in Compatible
    <3>1. Layout(k) = Layout(shown.config)
      BY DEF SetPolicy, Admitted
    <3>2. shown.config \in Compatible \cup {None}
      BY DEF Fitting
    <3>3. Layout(shown.config) = "served"
      BY <3>2, ServiceAssumption DEF Layout
    <3> QED
      BY <3>1, <3>3 DEF Layout
  <2>2. UNCHANGED <<call, layout>>
    BY DEF SetPolicy, collector
  <2>3. \A i \in 1..policy' : swaps'[i] \in Compatible
    BY <1>1, <2>1 DEF Fitting
  <2> QED
    BY <1>3, <2>2, <2>3 DEF Fitting
<1> QED
  BY <1>5, <1>6, <1>7, <1>8

\* The other assignments, which name what is served already.
LEMMA NameStep ==
  ASSUME RInv, NEW k \in Reloads, SetId(k) \/ SetConfig(k)
  PROVE  Reloading' /\ ShownIsServed' /\ ToldIsNotOlder' /\ Fitting'
<1> USE DEF RInv, IInv
<1>1. Locking(k) /\ UNCHANGED <<swaps, policy, call, layout>>
  BY DEF SetId, SetConfig, Locking, policy, collector
<1>2. policy \in Nat /\ policy > 0 /\ swaps[policy] = k /\ \A j \in Reloads : Locking(j) => j = k
  BY <1>1, PolicyType DEF Reloading
<1>3. k \in Compatible
  BY <1>2 DEF Fitting
<1>4. shown \in [id : Reloads \cup {None}, config : Reloads \cup {None}]
  BY DEF TypeOK
<1>5. \/ /\ loading[k] = "swapped" /\ loading'[k] = "named" /\ shown' = [shown EXCEPT !.id = k]
      \/ /\ loading[k] = "named" /\ loading'[k] = "done" /\ shown' = [shown EXCEPT !.config = k]
         /\ shown.id = k
  BY <1>1 DEF SetId, SetConfig, TypeOK, Reloading
<1>6. shown'.id = k /\ shown'.config \in {shown.config, k} /\ (loading'[k] = "done" => shown'.config = k)
  BY <1>4, <1>5
<1>7. \A j \in Reloads \ {k} : loading'[j] = loading[j] /\ ~Locking(j)
  BY <1>2 DEF SetId, SetConfig, TypeOK
<1>8. Reloading'
  BY <1>1, <1>2, <1>6, <1>7 DEF Reloading, Locking
<1>9. ShownIsServed'
  <2>1. Swapped(k) /\ Swapped(shown.config) /\ \A x : Swapped(x)' <=> Swapped(x)
    BY <1>1, <1>2, SwappedDef DEF ShownIsServed, Swapped
  <2>2. ~Locked' => loading'[k] = "done"
    BY <1>5 DEF Locked
  <2>3. loading'[k] = "done" => shown' = [id |-> k, config |-> k]
    BY <1>4, <1>5
  <2>4. Serving' = k
    BY <1>1, <1>2 DEF Serving, Named
  <2> QED
    BY <1>6, <2>1, <2>2, <2>3, <2>4 DEF ShownIsServed
<1>10. ToldIsNotOlder'
  <2> SUFFICES ASSUME NEW j \in Reloads, loading'[j] = "done"
               PROVE  \E a, b \in 1..policy : a <= b /\ swaps[a] = j /\ swaps[b] = k
    BY <1>1, <1>6 DEF ToldIsNotOlder
  <2>1. CASE j = k
    BY <1>2, <2>1
  <2>2. CASE j # k
    <3>1. PICK a \in 1..policy : swaps[a] = j
      BY <1>7, <2>2 DEF ToldIsNotOlder
    <3> QED
      BY <1>2, <3>1
  <2> QED
    BY <2>1, <2>2
<1>11. Fitting'
  BY <1>1, <1>3, <1>6 DEF Fitting
<1> QED
  BY <1>8, <1>9, <1>10, <1>11

\* Everything else leaves the served checkpoint alone.
LEMMA UnservedStep ==
  ASSUME RInv, UNCHANGED served,
         \A c \in Clients : \/ layout'[c] = layout[c] /\ (call'[c] = call[c] \/ layout[c] # None)
                            \/ layout'[c] = Layout(shown.config)
  PROVE  Reloading' /\ ShownIsServed' /\ ToldIsNotOlder' /\ Fitting'
<1> USE DEF RInv, served
<1>1. policy' = policy /\ Serving' = Serving /\ \A x : Swapped(x)' <=> Swapped(x)
  BY DEF policy, Serving, Named, Swapped
<1>2. \A k \in Reloads : (Locking(k)' <=> Locking(k)) /\ (loading'[k] = "done" <=> loading[k] = "done")
                         /\ (Locking(k) => loading'[k] = loading[k])
  BY DEF Locking
<1>3. Locked' <=> Locked
  BY <1>2 DEF Locked, Locking
<1>4. Reloading' /\ ShownIsServed' /\ ToldIsNotOlder'
  <2>1. Reloading'
    BY <1>1, <1>2 DEF Reloading
  <2>2. ShownIsServed'
    BY <1>1, <1>3 DEF ShownIsServed
  <2>3. ToldIsNotOlder'
    BY <1>1, <1>2 DEF ToldIsNotOlder
  <2> QED
    BY <2>1, <2>2, <2>3
<1>5. Fitting'
  <2>1. Layout(shown.config) = "served"
    BY ServiceAssumption DEF Fitting, Layout
  <2>2. ASSUME NEW c \in Clients PROVE layout'[c] \in {None, "served"} /\ (call'[c] > 0 => layout'[c] # None)
    BY <2>1, ServiceAssumption DEF Fitting
  <2> QED
    BY <1>1, <2>2 DEF Fitting
<1> QED
  BY <1>4, <1>5

LEMMA NextRInv == RInv /\ [Next]_vars => RInv'
<1> SUFFICES ASSUME RInv, [Next]_vars PROVE RInv'
  OBVIOUS
<1> USE DEF RInv
<1>1. IInv'
  BY NextIInv
<1>2. ASSUME NEW k \in Reloads, SetPolicy(k) PROVE RInv'
  BY <1>1, <1>2, SwapStep
<1>3. ASSUME NEW k \in Reloads, SetId(k) \/ SetConfig(k) PROVE RInv'
  BY <1>1, <1>3, NameStep
<1>4. CASE /\ UNCHANGED served
           /\ \A c \in Clients : \/ layout'[c] = layout[c] /\ (call'[c] = call[c] \/ layout[c] # None)
                                 \/ layout'[c] = Layout(shown.config)
  BY <1>1, <1>4, UnservedStep
<1>5. ASSUME NEW c \in Clients, Learn(c) PROVE RInv'
  BY <1>4, <1>5 DEF Learn, IInv, TypeOK
<1>6. ASSUME NEW c \in Clients, Call(c) PROVE RInv'
  BY <1>4, <1>6 DEF Call, IInv, TypeOK
<1>7. ASSUME NEW c \in Clients, Send(c) \/ TransportError(c) \/ Receive(c) \/ IdleClose(c) PROVE RInv'
  BY <1>4, <1>7 DEF Send, TransportError, Receive, IdleClose
<1>8. ASSUME NEW r \in Requests, Thread(r) PROVE RInv'
  BY <1>4, <1>8 DEF Thread, Submit, Answer, GiveUp
<1>9. CASE Batcher
  BY <1>4, <1>9 DEF Batcher, Forward, Settle, collector
<1>10. CASE UNCHANGED vars
  BY <1>4, <1>10 DEF vars, collector
<1> QED
  BY <1>2, <1>3, <1>5, <1>6, <1>7, <1>8, <1>9, <1>10 DEF Next, Collector, Reload

\* Outside the reload lock /config shows what is served, and never what is not yet.
THEOREM ShownIsServedHolds == Spec => []ShownIsServed
<1>1. RInv => ShownIsServed
  BY DEF RInv
<1> QED
  BY <1>1, InitRInv, NextRInv, PTL DEF Spec

\* A reload is never answered with an older checkpoint than its own.
THEOREM ToldIsNotOlderHolds == Spec => []ToldIsNotOlder
<1>1. RInv => ToldIsNotOlder
  BY DEF RInv
<1> QED
  BY <1>1, InitRInv, NextRInv, PTL DEF Spec

\* What collectors encode by fits every policy that is ever served: a sound request
\* fails only with a malformed one in its batch.
THEOREM RefusedForAReasonHolds == Spec => RefusedForAReason
<1>1. ASSUME RInv, [Next]_vars, NEW r \in Requests, Sound(r), slot[r] = None, slot'[r] = Reply(r, Failed("refused"))
      PROVE  \E q \in Range(batch) : ~Sound(q)
  <2> USE DEF RInv, IInv
  <2>1. None # Reply(r, Failed("refused"))
    BY ServiceAssumption DEF Failed, Reply, Requests
  <2>2. Settle
    <3>0. slot' # slot
      BY <1>1, <2>1
    <3>1. ~Quiet /\ \A c \in Clients : ~Call(c) /\ ~Send(c) /\ ~Drop(c) /\ ~Deliver(c)
      <4>1. ~Quiet
        BY <3>0 DEF Quiet
      <4>2. ASSUME NEW c \in Clients PROVE ~Call(c) /\ ~Send(c) /\ ~Drop(c) /\ ~Deliver(c)
        BY <3>0 DEF Call, Send, Drop, Deliver, threads
      <4> QED
        BY <4>1, <4>2
    <3>2. ASSUME NEW q \in Requests, Thread(q) PROVE FALSE
      <4>1. slot' = slot \/ slot' = [slot EXCEPT ![q] = None]
        BY <3>2 DEF Thread, Submit, Answer, GiveUp, Respond
      <4>2. slot'[r] = None
        BY <1>1, <4>1 DEF TypeOK
      <4> QED
        BY <1>1, <2>1, <4>2
    <3>3. ~Forward
      BY <1>1, <2>1 DEF Forward, threads
    <3> QED
      BY <1>1, <3>1, <3>2, <3>3, StepCases
  <2>3. ~Fits
    BY <1>1, <2>1, <2>2 DEF Settle, Outcome, Result, Reply, Evaluated, Failed
  <2>4. Layout(Named(using)) = "served"
    <3>1. using \in 0..policy /\ policy \in Nat
      BY <1>1, PolicyType DEF TypeOK
    <3>2. Named(using) \in Compatible \cup {None}
      BY <1>1, <3>1 DEF Named, Fitting
    <3> QED
      BY <3>2, ServiceAssumption DEF Layout
  <2>5. ASSUME NEW q \in Range(batch) PROVE layout[q[1]] = "served"
    <3>1. PICK i \in 1..Len(batch) : q = batch[i]
      BY <1>1, <2>5 DEF Range, TypeOK
    <3>2. q \in Requests /\ hand[q] # "none"
      BY <1>1, <3>1 DEF BatchIsFresh, TypeOK
    <3>3. q[1] \in Clients /\ q[2] \in 1..MaxCalls /\ call[q[1]] \in 0..MaxCalls
      BY <1>1, <3>2, RequestType DEF TypeOK
    <3>4. ~(q[2] > call[q[1]])
      BY <1>1, <3>2 DEF UnsentIsNew, Unsent
    <3>5. call[q[1]] > 0
      BY <3>3, <3>4, ServiceAssumption
    <3> QED
      BY <1>1, <3>3, <3>5 DEF Fitting
  <2> QED
    BY <2>3, <2>4, <2>5 DEF Fits
<1>2. RInv /\ [Next]_vars =>
        [\A r \in Requests :
           Sound(r) /\ slot[r] = None /\ slot'[r] = Reply(r, Failed("refused")) => \E q \in Range(batch) : ~Sound(q)]_vars
  BY <1>1
<1> QED
  BY <1>2, InitRInv, NextRInv, PTL DEF Spec, RefusedForAReason

===============================================================================
