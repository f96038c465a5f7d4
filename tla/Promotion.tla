------------------------------- MODULE Promotion -------------------------------
(***************************************************************************)
(* The promotion registry (promotion.py) and the retention command that    *)
(* moves old checkpoints into an archive (eval_cli.py).  A promoter reads  *)
(* the registry for the incumbent of its gate, evaluates the gate without  *)
(* the lock, and then, inside it, reads the registry again, refuses a      *)
(* duplicate, copies the checkpoint and replaces the registry through a    *)
(* temporary file.  The archiver moves files and rewrites the registry     *)
(* through a temporary file of the same name, without the lock.            *)
(*                                                                         *)
(* There are no initial states and no next-state relation here: SelfPlay   *)
(* composes these steps with the training runs that promote.  What a gate  *)
(* finds is its caller's to say.  Left out: labels, notes, time stamps,    *)
(* platforms without fcntl, --allow-duplicate, checksum arithmetic.        *)
(***************************************************************************)
EXTENDS Naturals, Sequences, FiniteSets

CONSTANTS
  Runs,         \* training runs, by run directory
  Operators,    \* processes of the promote command
  Base,         \* the policy-id base of each run; they share the default one
  PoolSize,     \* the archiver's --opponent-pool-size
  None

ASSUME PromotionAssumption ==
  /\ Runs \cap Operators = {} /\ PoolSize \in Nat
  /\ Base \in [Runs -> STRING] /\ None \notin Runs \cup Operators

VARIABLES
  registry,     \* the entries of the registry file; the last one is the champion
  tmp,          \* the contents of its temporary file: none, or one
  lock,         \* who holds the flock
  files,        \* checkpoint files, by name
  rec,          \* the promoters
  arch          \* the archiver

promotionVars == <<registry, tmp, lock, files, rec, arch>>

Promoters == Runs \cup Operators

\* A checkpoint as training wrote it the made-th time; the policy id it carries.
Checkpoints == [run : Runs, n : Nat, made : Nat]
Ids == STRING \X Nat
Id(c) == <<Base[c.run], c.n>>

\* iteration-NNNN/transformer-policy.pt, and a copy by sequence number and policy id.
Source(r, n) == [at |-> "run", key |-> <<r, n>>]
Managed(k, id) == [at |-> "copy", key |-> <<k, id>>]
Archived(f) == [f EXCEPT !.at = "archive"]
Names == [at : {"run"}, key : Runs \X Nat] \cup [at : {"copy", "archive"}, key : Nat \X Ids]

ASSUME NamesAssumption == None \notin Names

Entries == [source : Names, id : Ids, file : Names, sum : Checkpoints]
NoEntry == [source |-> None, id |-> None, file |-> None, sum |-> None]

Idle == [pc |-> "idle", inc |-> None, entry |-> NoEntry, seen |-> <<>>]
Outcomes == {"recorded", "failed", "raised"}
NoBatch == [pc |-> "idle", todo |-> <<>>, moved |-> <<>>, seen |-> <<>>]

PromotionInit ==
  /\ registry = <<>> /\ tmp = {} /\ lock = {} /\ files = <<>>
  /\ rec = [p \in Promoters |-> Idle]
  /\ arch = NoBatch

--------------------------------------------------------------------------------
(* Names beginning with Fault are plausible bugs of the definition that    *)
(* follows them; no specification uses them.                               *)

Put(f, x, y) == [z \in DOMAIN f \cup {x} |-> IF z = x THEN y ELSE f[z]]
Moved(f, x, y) == [z \in (DOMAIN f \ {x}) \cup {y} |-> IF z = y THEN f[x] ELSE f[z]]

Holds(f, c) == f \in DOMAIN files /\ files[f] = c

LatestId == IF registry = <<>> THEN None ELSE registry[Len(registry)].id
Specs(entries) == [i \in DOMAIN entries |-> entries[i].file]

\* verify_promotion_registry: an entry's file is there with its checksum.  An entry
\* without a copy has none: its file need only exist.
Sound(e) == e.file \in DOMAIN files /\ (e.file # e.source => Holds(e.file, e.sum))
Verified == \A i \in DOMAIN registry : Sound(registry[i])

--------------------------------------------------------------------------------
(* Promoters. *)

At(p, pc) == rec[p].pc = pc
To(p, pc) == rec' = [rec EXCEPT ![p].pc = pc]

\* The incumbent of the gate is the champion of this moment.
Begin(p) ==
  /\ At(p, "idle")
  /\ rec' = [rec EXCEPT ![p].pc = "gate", ![p].inc = LatestId]
  /\ UNCHANGED <<registry, tmp, lock, files, arch>>

\* evaluate_promotion_gate, of the checkpoint at "source" that calls itself "id".
Gate(p, source, id, passed) ==
  /\ At(p, "gate")
  /\ rec' = [rec EXCEPT ![p].pc = IF passed THEN "lock" ELSE "failed",
                        ![p].entry.source = source, ![p].entry.id = id]
  /\ UNCHANGED <<registry, tmp, lock, files, arch>>

\* _reject_duplicate: by the path of the checkpoint, whether listed itself or copied.
Duplicate(p, entries) ==
  \E i \in DOMAIN entries : rec[p].entry.source \in {entries[i].file, entries[i].source}

\* The registry is read again inside the lock; an exception gives it up.
FaultLock(p) ==
  /\ At(p, "lock")
  /\ IF Duplicate(p, registry) THEN To(p, "raised") /\ lock' = lock
       ELSE /\ rec' = [rec EXCEPT ![p].pc = "keep", ![p].seen = registry]
            /\ lock' = lock \cup {p}
  /\ UNCHANGED <<registry, tmp, files, arch>>

Lock(p) ==
  /\ At(p, "lock") /\ lock = {}
  /\ IF Duplicate(p, registry) THEN To(p, "raised") /\ lock' = lock
       ELSE /\ rec' = [rec EXCEPT ![p].pc = "keep", ![p].seen = registry]
            /\ lock' = {p}
  /\ UNCHANGED <<registry, tmp, files, arch>>

\* _copy_checkpoint_artifact, which overwrites an orphan of that name; without an
\* artifact directory the entry names the run's own file.
Keep(p, managed) ==
  LET source == rec[p].entry.source
      name == IF managed THEN Managed(Len(rec[p].seen) + 1, rec[p].entry.id) ELSE source
  IN  /\ At(p, "keep") /\ source \in DOMAIN files
      /\ files' = Put(files, name, files[source])
      /\ rec' = [rec EXCEPT ![p].pc = "write", ![p].entry.file = name,
                            ![p].entry.sum = files[source]]
      /\ UNCHANGED <<registry, tmp, lock, arch>>

WriteTmp(p) ==
  /\ At(p, "write")
  /\ tmp' = {Append(rec[p].seen, rec[p].entry)}
  /\ To(p, "replace")
  /\ UNCHANGED <<registry, lock, files, arch>>

\* The replacement and the release of the lock; it raises if the file is gone.
Replace(p) ==
  /\ At(p, "replace")
  /\ \/ \E contents \in tmp : registry' = contents /\ tmp' = {} /\ To(p, "recorded")
     \/ tmp = {} /\ To(p, "raised") /\ UNCHANGED <<registry, tmp>>
  /\ lock' = lock \ {p}
  /\ UNCHANGED <<files, arch>>

\* The caller takes note of the outcome, or dies: the kernel releases a flock.
FaultReleased(p) == lock' = lock
Released(p) == lock' = lock \ {p}

Leave(p) ==
  /\ Released(p)
  /\ rec' = [rec EXCEPT ![p] = Idle]
  /\ UNCHANGED <<registry, tmp, files, arch>>

--------------------------------------------------------------------------------
(* The archiver: promotions --apply-retention-plan. *)

\* The champion and the opponents selected from the promotions before it.
FaultRetained == {i \in DOMAIN registry : i + PoolSize > Len(registry)}
Retained == {i \in DOMAIN registry : i + PoolSize >= Len(registry)}

\* The cleanup candidates that are copies, and not archived yet.
Stale ==
  {i \in DOMAIN registry \ Retained :
    LET e == registry[i] IN Sound(e) /\ e.file # e.source /\ e.file.at # "archive"}

Ascending(S) == [k \in 1 .. Cardinality(S) |->
                   CHOOSE i \in S : Cardinality({j \in S : j <= i}) = k]

\* The preflight, of what is retained only (--verify-opponent-pool-only), and the confirmed
\* plan, which names the files to be moved.
Plan ==
  /\ arch.pc = "idle" /\ Stale # {}
  /\ \A i \in Retained : Sound(registry[i])
  /\ arch' = [arch EXCEPT !.pc = "move",
                !.todo = [k \in 1 .. Cardinality(Stale) |->
                            LET i == Ascending(Stale)[k] IN [seq |-> i, from |-> registry[i].file]]]
  /\ UNCHANGED <<registry, tmp, lock, files, rec>>

\* One file, into the batch's own directory; or the move fails.
Move ==
  LET job == Head(arch.todo)
  IN  /\ arch.pc = "move" /\ arch.todo # <<>>
      /\ \/ /\ job.from \in DOMAIN files
            /\ files' = Moved(files, job.from, Archived(job.from))
            /\ arch' = [arch EXCEPT !.todo = Tail(@), !.moved = Append(@, job)]
         \/ arch' = [arch EXCEPT !.pc = "rollback"] /\ UNCHANGED files
      /\ UNCHANGED <<registry, tmp, lock, rec>>

\* _rewrite_retention_archived_checkpoint_paths, if anything was moved.
Reread ==
  /\ arch.pc = "move" /\ arch.todo = <<>>
  /\ arch' = IF arch.moved = <<>> THEN NoBatch
             ELSE [arch EXCEPT !.pc = "write", !.seen = registry]
  /\ UNCHANGED <<registry, tmp, lock, files, rec>>

MovedTo(entries, jobs) ==
  [i \in DOMAIN entries |->
     IF \E k \in DOMAIN jobs : jobs[k].seq = i
     THEN [entries[i] EXCEPT !.file = Archived(jobs[CHOOSE k \in DOMAIN jobs : jobs[k].seq = i].from)]
     ELSE entries[i]]

Rewrite ==
  /\ arch.pc = "write"
  /\ tmp' = {MovedTo(arch.seen, arch.moved)}
  /\ arch' = [arch EXCEPT !.pc = "replace"]
  /\ UNCHANGED <<registry, lock, files, rec>>

Publish ==
  /\ arch.pc = "replace"
  /\ \/ \E contents \in tmp : registry' = contents /\ tmp' = {} /\ arch' = NoBatch
     \/ tmp = {} /\ arch' = [arch EXCEPT !.pc = "rollback"] /\ UNCHANGED <<registry, tmp>>
  /\ UNCHANGED <<lock, files, rec>>

\* The last move first; a file that has been put in its old place meanwhile stays.
FaultRestored(job) == [z \in DOMAIN files \ {Archived(job.from)} |-> files[z]]
Restored(job) ==
  IF Archived(job.from) \in DOMAIN files /\ job.from \notin DOMAIN files
  THEN Moved(files, Archived(job.from), job.from) ELSE files

Rollback ==
  LET n == Len(arch.moved)
  IN  /\ arch.pc = "rollback"
      /\ IF n = 0 THEN arch' = NoBatch /\ UNCHANGED files
           ELSE /\ files' = Restored(arch.moved[n])
                /\ arch' = [arch EXCEPT !.moved = SubSeq(@, 1, n - 1)]
      /\ UNCHANGED <<registry, tmp, lock, rec>>

Archive == Plan \/ Move \/ Reread \/ Rewrite \/ Publish \/ Rollback

ArchiverDies ==
  /\ arch.pc # "idle" /\ arch' = NoBatch
  /\ UNCHANGED <<registry, tmp, lock, files, rec>>
================================================================================
