---------------------------- MODULE InferenceService ----------------------------
(***************************************************************************)
(* The batched inference service (src/pokezero/inference_service.py) and   *)
(* the collectors that use it.                                             *)
(*                                                                         *)
(* A collector's RemoteForward sends one request at a time over one kept-  *)
(* alive connection, and retries it on a new one after any transport error *)
(* or retryable status.  A server thread per connection decodes a request, *)
(* queues it with an empty slot and an event, and waits.  One batcher      *)
(* thread drains the queue into batches and runs each on the policy that   *)
(* is served at that moment.  The controller replaces that policy with     *)
(* /reload while all this goes on; /config shows the id and the            *)
(* configuration of the served one, and a collector encodes its            *)
(* observations by the configuration it read there when it started.        *)
(*                                                                         *)
(* Time is not measured: a batching window closes, a wait times out and an *)
(* idle connection is cut at any moment.  RemoteForward's lock makes the   *)
(* calls of one collector follow one another.                              *)
(***************************************************************************)
EXTENDS Naturals, Sequences, FiniteSets, SequencesExt

CONSTANTS
  Clients,        \* collectors
  MaxCalls,       \* bound on the calls of each
  Kinds,          \* request bodies: "good", "garbled", or "misfit" to the model
  Attempts,       \* _REMOTE_RETRY_ATTEMPTS (6)
  MaxBatch,       \* max_batch (64)
  Reloads,        \* /reload requests, each with the checkpoint it names
  Compatible,     \* those whose checkpoint has the served window and layout
  None            \* no connection, no answer, an empty slot

ASSUME ServiceAssumption ==
  /\ IsFiniteSet(Clients) /\ IsFiniteSet(Reloads) /\ Compatible \subseteq Reloads
  /\ Kinds \subseteq {"good", "garbled", "misfit"}
  /\ MaxCalls \in Nat /\ Attempts \in Nat \ {0} /\ MaxBatch \in Nat \ {0}
  /\ None \notin Reloads \cup (Clients \X (1..MaxCalls) \X (0..(Attempts - 1)))
  /\ None \notin [request : Clients \X (1..MaxCalls) \X (0..(Attempts - 1)),
                  result : {[status |-> "refused", policy |-> 0]}] /\ None # "served"

VARIABLES
  \* collectors
  pc,         \* what a collector does: "idle", "send", "wait"
  layout,     \* the layout it encodes by, None before it has read /config
  call, try,  \* its current call and the attempt it is at
  kind,       \* the body of its current call
  conn,       \* its open connection, named by the request that opened it
  cut,        \* collectors whose connection the server has closed
  inbox,      \* responses on that connection
  answer,     \* how its last call ended, None during the next
  \* server threads
  hand,       \* each request: "none", "decode", "wait" (for its event), "done"
  via,        \* the connection it came over
  body,       \* its body
  slot,       \* what the batcher wrote for it
  \* the batcher
  queue,
  batch,      \* the batch of the forward it runs, empty between two
  using,      \* the policy of that forward
  \* the served checkpoint
  swaps,      \* the reloads that set _policy, in order
  shown,      \* state: the reloads the id and the configuration in /config are from
  loading,    \* what each /reload request does
  since       \* (history) swaps complete when the current call of a collector began

collector == <<pc, layout, call, try, kind, conn, cut, inbox, answer, since>>
threads   == <<hand, via, body, slot>>
batcher   == <<queue, batch, using>>
served    == <<swaps, shown, loading>>
vars      == <<collector, threads, batcher, served>>

Requests == Clients \X (1..MaxCalls) \X (0..(Attempts - 1))
Now(c)   == <<c, call[c], try[c]>>   \* the request of its current attempt

\* The policies by number: 0 is the one the service started with, None its name.
policy   == Len(swaps)
Named(p) == IF p = 0 THEN None ELSE swaps[p]
Serving  == Named(policy)

\* The observation layout of a checkpoint: token and feature counts.
Layout(x) == IF x \in Reloads \ Compatible THEN "other" ELSE "served"

\* How an attempt ends: an evaluation by some policy, an error for good (status 400),
\* one to retry (504), no response.
Evaluated(p) == [status |-> "evaluated", policy |-> p]
Failed(s)    == [status |-> s, policy |-> 0]

\* A result, with the request it is the result of.
Reply(r, x)  == [request |-> r, result |-> x]

Init ==
  /\ pc = [c \in Clients |-> "idle"] /\ layout = [c \in Clients |-> None]
  /\ call = [c \in Clients |-> 0] /\ try = [c \in Clients |-> 0] /\ kind = [c \in Clients |-> "good"]
  /\ conn = [c \in Clients |-> None] /\ cut = {}
  /\ inbox = [c \in Clients |-> <<>>]
  /\ answer = [c \in Clients |-> None] /\ since = [c \in Clients |-> 0]
  /\ hand = [r \in Requests |-> "none"] /\ via = [r \in Requests |-> None]
  /\ body = [r \in Requests |-> "good"] /\ slot = [r \in Requests |-> None]
  /\ queue = <<>> /\ batch = <<>> /\ using = 0
  /\ swaps = <<>> /\ shown = [id |-> None, config |-> None]
  /\ loading = [k \in Reloads |-> "none"]

--------------------------------------------------------------------------------
(* Names beginning with Fault are plausible bugs of the definition below   *)
(* them; no specification uses them.                                       *)

\* What an error leaves of the connection: self._conn.close(); self._conn = None.
FaultClosed(c) == [conn |-> conn[c], inbox |-> inbox[c]]
Closed(c) == [conn |-> None, inbox |-> <<>>]

\* The attempt after this one.
NextTry(c) == try[c] + 1

\* The policy a batch runs on, read as its forward begins.
FaultPolicyOf == 0
PolicyOf == policy

\* How many entries a batch may have.
Sizes == 1..MaxBatch

\* What /reload accepts: the window and the layout of the one in service.
FaultAdmitted(k) == k \in Reloads
Admitted(k) == Layout(k) = Layout(shown.config)

\* Whether the reload lock is held.
FaultLocked == FALSE
Locked == \E k \in Reloads : loading[k] \in {"swapped", "named"}

--------------------------------------------------------------------------------
(* RemoteForward.__call__ and _request. *)

\* fetch_remote_config: the layout a collector will encode by.
Learn(c) ==
  /\ layout[c] = None
  /\ layout' = [layout EXCEPT ![c] = Layout(shown.config)]
  /\ UNCHANGED <<pc, call, try, kind, conn, cut, inbox, answer, since, threads, batcher, served>>

Call(c) ==
  /\ pc[c] = "idle" /\ call[c] < MaxCalls /\ layout[c] # None
  /\ pc' = [pc EXCEPT ![c] = "send"]
  /\ call' = [call EXCEPT ![c] = @ + 1]
  /\ try' = [try EXCEPT ![c] = 0]
  /\ \E b \in Kinds : kind' = [kind EXCEPT ![c] = b]
  /\ since' = [since EXCEPT ![c] = policy]
  /\ answer' = [answer EXCEPT ![c] = None]
  /\ UNCHANGED <<layout, conn, cut, inbox, threads, batcher, served>>

\* Open a connection if there is none; the request reaches a server thread.
Send(c) ==
  /\ pc[c] = "send" /\ c \notin cut
  /\ conn' = [conn EXCEPT ![c] = IF @ = None THEN Now(c) ELSE @]
  /\ hand' = [hand EXCEPT ![Now(c)] = "decode"]
  /\ via' = [via EXCEPT ![Now(c)] = conn'[c]]
  /\ body' = [body EXCEPT ![Now(c)] = kind[c]]
  /\ pc' = [pc EXCEPT ![c] = "wait"]
  /\ UNCHANGED <<layout, call, try, kind, cut, inbox, answer, since, slot, batcher, served>>

\* The call returns or raises.
Ends(c, a) == /\ answer' = [answer EXCEPT ![c] = a]
              /\ pc' = [pc EXCEPT ![c] = "idle"]

\* Drop the connection and try again, unless this was the last attempt.
Retry(c) ==
  /\ conn' = [conn EXCEPT ![c] = Closed(c).conn]
  /\ inbox' = [inbox EXCEPT ![c] = Closed(c).inbox]
  /\ cut' = cut \ {c}
  /\ \/ /\ NextTry(c) = Attempts /\ Ends(c, Reply(Now(c), Failed("unreachable")))
        /\ UNCHANGED try
     \/ /\ NextTry(c) < Attempts
        /\ try' = [try EXCEPT ![c] = NextTry(c)]
        /\ pc' = [pc EXCEPT ![c] = "send"]
        /\ UNCHANGED answer

\* No connection, a reset one, or no response within the client's timeout.
TransportError(c) ==
  /\ pc[c] \in {"send", "wait"} /\ inbox[c] = <<>>
  /\ Retry(c)
  /\ UNCHANGED <<layout, call, kind, since, threads, batcher, served>>

Receive(c) ==
  /\ pc[c] = "wait" /\ inbox[c] # <<>>
  /\ LET m == Head(inbox[c])
     IN \/ m.result.status = "busy" /\ Retry(c)
        \/ /\ m.result.status # "busy" /\ Ends(c, m)
           /\ inbox' = [inbox EXCEPT ![c] = Tail(@)]
           /\ UNCHANGED <<conn, cut, try>>
  /\ UNCHANGED <<layout, call, kind, since, threads, batcher, served>>

--------------------------------------------------------------------------------
(* A server thread: do_POST /forward and _BatchingForwarder.submit.        *)

\* A response reaches the collector if it still has that connection.  The request's
\* connection and slot are not looked at again, and forgotten.
Respond(r, reply) ==
  /\ hand' = [hand EXCEPT ![r] = "done"]
  /\ via' = [via EXCEPT ![r] = None]
  /\ slot' = [slot EXCEPT ![r] = None]
  /\ inbox' = IF conn[r[1]] = via[r]
                THEN [inbox EXCEPT ![r[1]] = Append(@, reply)]
                ELSE inbox

Submit(r) ==
  /\ hand[r] = "decode"
  /\ \/ /\ body[r] = "garbled"
        /\ Respond(r, Reply(r, Failed("refused")))
        /\ UNCHANGED queue
     \/ /\ body[r] # "garbled"
        /\ queue' = Append(queue, r)
        /\ hand' = [hand EXCEPT ![r] = "wait"]
        /\ UNCHANGED <<inbox, via, slot>>
  /\ UNCHANGED <<pc, layout, call, try, kind, conn, cut, answer, since, body, batch, using, served>>

Answer(r) ==
  /\ hand[r] = "wait" /\ slot[r] # None
  /\ Respond(r, slot[r])
  /\ UNCHANGED <<pc, layout, call, try, kind, conn, cut, answer, since, body, batcher, served>>

\* The event was not set within the server's timeout: status 504.
GiveUp(r) ==
  /\ hand[r] = "wait" /\ slot[r] = None
  /\ Respond(r, Reply(r, Failed("busy")))
  /\ UNCHANGED <<pc, layout, call, try, kind, conn, cut, answer, since, body, batcher, served>>

\* A kept-alive connection is closed after being idle.
IdleClose(c) ==
  /\ conn[c] # None /\ c \notin cut
  /\ \A r \in Requests : r[1] = c /\ via[r] = conn[c] => hand[r] \notin {"decode", "wait"}
  /\ pc[c] # "wait"
  /\ cut' = cut \cup {c}
  /\ UNCHANGED <<pc, layout, call, try, kind, conn, inbox, answer, since, threads, batcher, served>>

--------------------------------------------------------------------------------
(* The batcher thread: _BatchingForwarder._loop.                           *)

\* The first request, and more until the batch is full or the window closes: what the
\* batcher has taken shows only when its forward begins.
Forward ==
  /\ batch = <<>>
  /\ \E n \in Sizes : /\ n <= Len(queue)
                      /\ batch' = SubSeq(queue, 1, n)
                      /\ queue' = SubSeq(queue, n + 1, Len(queue))
  /\ using' = PolicyOf
  /\ UNCHANGED <<collector, threads, served>>

\* The i-th slot of the batch gets what the forward made of the i-th payload, or the one
\* error of all; a slot nobody waits on any more is forgotten.
Sound(r) == body[r] = "good"
Fits == \A r \in Range(batch) : Sound(r) /\ layout[r[1]] = Layout(Named(using))
Result == IF Fits THEN Evaluated(using) ELSE Failed("refused")
FaultOutcome(i) == Reply(batch[Len(batch) + 1 - i], Result)
Outcome(i) == Reply(batch[i], Result)
Waiting(i, r) == batch[i] = r /\ hand[r] = "wait"
Settle ==
  /\ batch # <<>>
  /\ slot' = [r \in Requests |->
                IF \E i \in DOMAIN batch : Waiting(i, r)
                  THEN Outcome(CHOOSE i \in DOMAIN batch : Waiting(i, r)) ELSE slot[r]]
  /\ batch' = <<>> /\ using' = 0
  /\ UNCHANGED <<collector, hand, via, body, queue, served>>

--------------------------------------------------------------------------------
(* do_POST /reload: in the reload lock, load and compare, then assign the  *)
(* policy, its id and its configuration.  Until the first assignment the   *)
(* lock keeps everything it compares as it is; a checkpoint that does not  *)
(* load, or is not admitted, changes nothing.  The answer names the id     *)
(* that is shown at some moment after the lock.                            *)

SetPolicy(k) ==
  /\ loading[k] = "none" /\ ~Locked /\ Admitted(k)
  /\ loading' = [loading EXCEPT ![k] = "swapped"]
  /\ swaps' = Append(swaps, k)
  /\ UNCHANGED <<collector, threads, batcher, shown>>

SetId(k) ==
  /\ loading[k] = "swapped" /\ loading' = [loading EXCEPT ![k] = "named"]
  /\ shown' = [shown EXCEPT !.id = k]
  /\ UNCHANGED <<collector, threads, batcher, swaps>>

SetConfig(k) ==
  /\ loading[k] = "named" /\ loading' = [loading EXCEPT ![k] = "done"]
  /\ shown' = [shown EXCEPT !.config = k]
  /\ UNCHANGED <<collector, threads, batcher, swaps>>

--------------------------------------------------------------------------------
Collector(c) == Learn(c) \/ Call(c) \/ Send(c) \/ TransportError(c) \/ Receive(c)
Thread(r)    == Submit(r) \/ Answer(r) \/ GiveUp(r)
Batcher      == Forward \/ Settle
Reload(k)    == SetPolicy(k) \/ SetId(k) \/ SetConfig(k)

Next == \/ \E c \in Clients : Collector(c) \/ IdleClose(c)
        \/ \E r \in Requests : Thread(r)
        \/ Batcher
        \/ \E k \in Reloads : Reload(k)

Spec == Init /\ [][Next]_vars

--------------------------------------------------------------------------------
Results  == {Failed(s) : s \in {"refused", "busy", "unreachable"}} \cup {Evaluated(p) : p \in 0..policy}
Replies  == [request : Requests, result : Results]
TypeOK ==
  /\ pc \in [Clients -> {"idle", "send", "wait"}]
  /\ layout \in [Clients -> {None, "served", "other"}]
  /\ call \in [Clients -> 0..MaxCalls] /\ try \in [Clients -> 0..(Attempts - 1)]
  /\ kind \in [Clients -> Kinds \cup {"good"}]
  /\ conn \in [Clients -> Requests \cup {None}] /\ cut \subseteq Clients
  /\ inbox \in [Clients -> Seq(Replies)] /\ answer \in [Clients -> Replies \cup {None}]
  /\ since \in [Clients -> 0..policy]
  /\ hand \in [Requests -> {"none", "decode", "wait", "done"}]
  /\ via \in [Requests -> Requests \cup {None}] /\ body \in [Requests -> Kinds \cup {"good"}]
  /\ slot \in [Requests -> Replies \cup {None}]
  /\ queue \in Seq(Requests) /\ batch \in Seq(Requests) /\ Len(batch) <= MaxBatch
  /\ using \in 0..policy
  /\ swaps \in Seq(Reloads) /\ shown \in [id : Reloads \cup {None}, config : Reloads \cup {None}]
  /\ loading \in [Reloads -> {"none", "swapped", "named", "done"}]

(* The answer of a call was computed for a request of that call, on a      *)
(* policy no older than the one in service when the call began: late       *)
(* answers of abandoned attempts, the zip of a batch and a hot swap never  *)
(* hand a collector somebody else's or an outdated evaluation.             *)
Answered(c) == {answer[c]} \ {None}
AnswersOwnCall ==
  \A c \in Clients : pc[c] = "idle" =>
    \A a \in Answered(c) : a.request[1] = c /\ a.request[2] = call[c]
AnswersAreFresh ==
  \A c \in Clients : pc[c] = "idle" =>
    \A a \in Answered(c) : a.result.status = "evaluated" => a.result.policy >= since[c]

(* Outside the reload lock /config shows the policy in service, and inside *)
(* it one that is or was in service, never one that is not served yet.     *)
Swapped(x) == x = None \/ x \in Range(swaps)
ShownIsServed ==
  /\ Swapped(shown.id) /\ Swapped(shown.config)
  /\ ~Locked => shown = [id |-> Serving, config |-> Serving]

(* The answer of a reload is built after its lock was released, from the   *)
(* id that is shown then: it names the checkpoint of that reload or one    *)
(* that replaced it since, and never an older one.                         *)
ToldIsNotOlder ==
  \A k \in Reloads : loading[k] = "done" =>
    \E i, j \in 1..policy : i <= j /\ swaps[i] = k /\ swaps[j] = shown.id

(* A sound request is refused only together with a malformed one in its    *)
(* batch: the configuration a collector read once, possibly amid a reload, *)
(* keeps fitting every policy that is swapped in later.                    *)
RefusedForAReason ==
  [][\A r \in Requests :
       Sound(r) /\ slot[r] = None /\ slot'[r] = Reply(r, Failed("refused")) => \E q \in Range(batch) : ~Sound(q)]_vars
================================================================================
