-------------------------------- MODULE SelfPlay --------------------------------
(***************************************************************************)
(* Neural self-play (neural_selfplay.py): a run collects games with its    *)
(* current policy and historical opponents, trains a checkpoint on them,   *)
(* benchmarks it, records what it did in an iteration manifest and a run   *)
(* manifest, and advances if the checkpoint is good enough, or if the      *)
(* promotion gate lets it into the registry.  A run may die anywhere and   *)
(* is resumed from its manifests.  Other runs, operators with the promote  *)
(* command and the retention archiver share the registry.                  *)
(*                                                                         *)
(* Games, models and win rates are left out: a benchmark is won or not.    *)
(* So are the rollout and value-selection histories, the collector mode    *)
(* yardstick-gate, the audits and the fixed opponents.                     *)
(***************************************************************************)
EXTENDS Promotion

CONSTANTS
  MaxHistorical,   \* historical opponents of a collection
  Sites            \* what runs together: see Init

VARIABLES
  run,       \* the process of each run
  iterman,   \* iteration-NNNN/manifest.json, by number
  runman,    \* the iterations of manifest.json
  dir,       \* the run has iteration directories
  site,      \* the member of Sites this behaviour is about
  budget     \* crashes and operator commands still to come

runVars == <<run, iterman, runman, dir>>
vars == <<promotionVars, runVars, site, budget>>

\* collector_advancement_mode; "promote" is auto promotion.
Modes == {"promote", "gate", "always"}

\* A site says how each run advances, how many iterations are asked of it and with which
\* numbers of games and of benchmark games, and how many crashes and commands there may be.
ASSUME SitesAssumption ==
  /\ MaxHistorical \in Nat
  /\ \A s \in Sites : /\ s.mode \in [Runs -> Modes] /\ s.goal \in [Runs -> Nat]
                      /\ s.sizes \subseteq [games : Nat, evals : Nat]
                      /\ s.crashes \in Nat /\ s.commands \in Nat

\* An iteration: its seeds, what it started from, whom the benchmark met besides the
\* baselines, and what came of it.  "promo" is the sequence number of its promotion.
Manifests == [n : Nat, seed : Nat, games : Nat, eseed : Nat, evals : Nat,
              source : Names, current : Names \cup {None}, bench : Ids \cup {None},
              wins : BOOLEAN, advance : BOOLEAN, accepted : Names \cup {None}, promo : Nat]

Off == [pc |-> "off", first |-> 0, iter |-> 0, last |-> 0, games |-> 0, evals |-> 0,
        base |-> 0, eval |-> 0, current |-> None, pool |-> <<>>, done |-> <<>>, m |-> None]

Init ==
  /\ PromotionInit
  /\ run = [r \in Runs |-> Off]
  /\ iterman = [r \in Runs |-> <<>>] /\ runman = [r \in Runs |-> <<>>]
  /\ dir = [r \in Runs |-> FALSE]
  /\ site \in Sites
  /\ budget = [crashes |-> site.crashes, commands |-> site.commands]

--------------------------------------------------------------------------------
(* Manifests, seeds and opponents. *)

Mode(r) == site.mode[r]
Last(s) == s[Len(s)]
Recent(s, k) == SubSeq(s, IF Len(s) > k THEN Len(s) - k + 1 ELSE 1, Len(s))

\* next_current_policy_spec.
FaultNextSpec(m) == IF ~m.advance THEN m.current ELSE m.accepted
NextSpec(m) ==
  IF ~m.advance THEN m.current ELSE IF m.accepted # None THEN m.accepted ELSE m.source

\* _load_prior_iteration_manifests.
Prior(r) == IF runman[r] # <<>> THEN runman[r] ELSE iterman[r]

\* The elements of a sequence at the positions in S, in their order.
Select(s, S) == [k \in 1 .. Cardinality(S) |-> s[Ascending(S)[k]]]

History(ms) ==
  LET advanced == Select(ms, {i \in DOMAIN ms : ms[i].advance})
  IN  [k \in DOMAIN advanced |-> NextSpec(advanced[k])]

FaultNextSeed(ms) == IF ms = <<>> THEN 0 ELSE Last(ms).seed
NextSeed(ms) == IF ms = <<>> THEN 0 ELSE Last(ms).seed + Last(ms).games

\* _next_evaluation_seed_start: past the games of every benchmark so far.
NextEvaluation(ms) ==
  LET ends == {ms[i].eseed + ms[i].evals : i \in {j \in DOMAIN ms : ms[j].evals > 0}}
  IN  IF ends = {} THEN 0 ELSE CHOOSE x \in ends : \A y \in ends : y <= x

Loadable(spec) == spec = None \/ spec \in DOMAIN files

\* The last opponents of the pool that are not the current policy.
Opponents(r) ==
  LET pool == run[r].pool
  IN  Recent(Select(pool, {i \in DOMAIN pool : pool[i] # run[r].current}), MaxHistorical)

--------------------------------------------------------------------------------
(* A run. *)

Pc(r, pc) == run[r].pc = pc
Enters(r, pc) == run' = [run EXCEPT ![r].pc = pc]
Dies(r) == run' = [run EXCEPT ![r] = Off]

FaultFirstIteration(ms) == IF ms = <<>> THEN 1 ELSE Last(ms).n
FirstIteration(ms) == IF ms = <<>> THEN 1 ELSE Last(ms).n + 1

\* Without a manifest a run starts only in a directory without iterations; otherwise it is
\* a resumption.  A registry that does not verify, or a model that is gone, is refused.
Start(r) ==
  LET ms == Prior(r)
      current == IF ms = <<>> THEN None ELSE NextSpec(Last(ms))
  IN  /\ Pc(r, "off")
      /\ ms = <<>> => ~dir[r]
      /\ Mode(r) = "promote" => Verified
      /\ Loadable(current)
      /\ \E last \in FirstIteration(ms) .. site.goal[r], size \in site.sizes :
           /\ last > FirstIteration(ms) => size.evals > 0
           /\ run' = [run EXCEPT ![r] =
                [pc |-> "collect", first |-> FirstIteration(ms), iter |-> FirstIteration(ms),
                 last |-> last, games |-> size.games, evals |-> size.evals,
                 base |-> NextSeed(ms), eval |-> NextEvaluation(ms), current |-> current,
                 pool |-> IF Mode(r) = "promote" THEN Specs(registry) ELSE History(ms),
                 done |-> ms, m |-> None]]
      /\ UNCHANGED <<promotionVars, iterman, runman, dir, site, budget>>

\* The directory of the iteration, then its games.
Collect(r) ==
  /\ Pc(r, "collect")
  /\ dir' = [dir EXCEPT ![r] = TRUE]
  /\ IF /\ Loadable(run[r].current)
        /\ \A i \in DOMAIN Opponents(r) : Loadable(Opponents(r)[i])
       THEN Enters(r, "train") ELSE Dies(r)
  /\ UNCHANGED <<promotionVars, iterman, runman, site, budget>>

Train(r) ==
  LET f == Source(r, run[r].iter)
      made == IF f \in DOMAIN files THEN files[f].made + 1 ELSE 1
  IN  /\ Pc(r, "train")
      /\ files' = Put(files, f, [run |-> r, n |-> run[r].iter, made |-> made])
      /\ Enters(r, "evaluate")
      /\ UNCHANGED <<registry, tmp, lock, rec, arch, iterman, runman, dir, site, budget>>

\* _benchmark_incumbent_policy_spec.
FaultIncumbent(r) == run[r].current
Incumbent(r) ==
  IF Mode(r) = "promote" /\ registry # <<>> THEN Last(registry).file ELSE run[r].current

\* Whom _benchmark_checkpoint meets besides the baselines: nobody of the same id.
Bench(r) ==
  LET spec == Incumbent(r)
      id == Id(files[spec])
  IN  IF spec = None THEN None ELSE IF id = <<Base[r], run[r].iter>> THEN None ELSE id

\* An interval may leave out benchmarks, only in mode "always" and not the last one.
MayMeasure(r) ==
  IF run[r].evals = 0 THEN {FALSE}
  ELSE IF Mode(r) = "always" /\ run[r].iter < run[r].last THEN BOOLEAN ELSE {TRUE}

\* _advancement_decision; under auto promotion the gate comes later.
Advances(r, measured, wins) ==
  CASE Mode(r) = "always" -> TRUE
    [] Mode(r) = "gate" -> measured /\ wins /\ (run[r].current = None \/ Bench(r) # None)
    [] OTHER -> FALSE

\* What the iteration's own manifest says of it, before any promotion.
IterationManifest(r, measured, wins) ==
  LET s == run[r]
  IN  [n |-> s.iter, seed |-> s.base + (s.iter - s.first) * s.games, games |-> s.games,
       eseed |-> IF measured THEN s.eval ELSE 0, evals |-> IF measured THEN s.evals ELSE 0,
       source |-> Source(r, s.iter), current |-> s.current,
       bench |-> IF measured THEN Bench(r) ELSE None, wins |-> wins,
       advance |-> Advances(r, measured, wins), accepted |-> None, promo |-> 0]

\* Benchmark, decision and iteration manifest; the incumbent must load.
Evaluate(r) ==
  LET s == run[r]
  IN  /\ Pc(r, "evaluate")
      /\ \E measured \in MayMeasure(r), wins \in BOOLEAN :
           /\ wins => measured
           /\ IF measured /\ ~Loadable(Incumbent(r)) THEN Dies(r) /\ UNCHANGED iterman
              ELSE LET m == IterationManifest(r, measured, wins)
                   IN  /\ run' = [run EXCEPT ![r].pc = "publish", ![r].m = m,
                                             ![r].eval = @ + m.evals]
                       /\ iterman' = [iterman EXCEPT ![r] = Put(@, s.iter, m)]
      /\ UNCHANGED <<promotionVars, runman, dir, site, budget>>

\* The run manifest is what the gate reads, and what a resumption trusts.
WriteRun(r) ==
  /\ Pc(r, "publish")
  /\ runman' = [runman EXCEPT ![r] = Append(run[r].done, run[r].m)]
  /\ Enters(r, IF Mode(r) = "promote" THEN "promote" ELSE "finish")
  /\ UNCHANGED <<promotionVars, iterman, dir, site, budget>>

--------------------------------------------------------------------------------
(* Promotion, by the run itself or by an operator. *)

\* _neural_current_policy_id: the id of the last iteration that ended in the spec this one
\* started from, or the iteration before it.
Derived(ms) ==
  LET current == Last(ms).current
      hits == {i \in 1 .. Len(ms) - 1 : current \in {NextSpec(ms[i]), ms[i].source}}
      hit == IF hits # {} THEN CHOOSE i \in hits : \A j \in hits : j <= i ELSE Len(ms) - 1
  IN  IF current = None \/ Len(ms) < 2 THEN None ELSE <<Base[ms[hit].source.key[1]], ms[hit].n>>

\* The checks of the gate that depend on who else promotes.
Passes(r, inc) ==
  LET m == Last(runman[r])
      incumbent == IF inc = None THEN Derived(runman[r]) ELSE inc
  IN  m.evals > 0 /\ m.wins /\ incumbent \in {None, m.bench}

Judge(p, r) ==
  /\ runman[r] # <<>>
  /\ LET m == Last(runman[r])
     IN  Gate(p, m.source, <<Base[r], m.n>>, Passes(r, rec[p].inc))

\* _record_auto_promotion.
Promote(r) ==
  /\ Pc(r, "promote")
  /\ Begin(r) \/ Judge(r, r) \/ Lock(r) \/ Keep(r, site.managed) \/ WriteTmp(r) \/ Replace(r)
  /\ UNCHANGED <<runVars, site, budget>>

\* The entry this process made, which need not be the champion any more.
FaultAccepted(r) == Last(registry).file
Accepted(r) == rec[r].entry.file

\* The decision goes into the iteration manifest; what was recorded, into the pool.
Decide(r) ==
  LET s == rec[r]
      recorded == s.pc = "recorded"
      after == Append(s.seen, s.entry)
      m == [run[r].m EXCEPT !.advance = recorded,
              !.accepted = IF recorded THEN Accepted(r) ELSE None,
              !.promo = IF recorded THEN Len(after) ELSE 0]
  IN  /\ Pc(r, "promote") /\ s.pc \in {"recorded", "failed"}
      /\ iterman' = [iterman EXCEPT ![r] = Put(@, m.n, m)]
      /\ run' = [run EXCEPT ![r].pc = "finish", ![r].m = m,
                            ![r].pool = IF recorded THEN Specs(after) ELSE @]
      /\ Leave(r)
      /\ UNCHANGED <<runman, dir, site, budget>>

\* An exception of record_promotion ends the run.
Raises(r) ==
  /\ Pc(r, "promote") /\ At(r, "raised")
  /\ Dies(r) /\ Leave(r)
  /\ UNCHANGED <<iterman, runman, dir, site, budget>>

\* The run manifest again, and on to the next iteration or to the end.
Finish(r) ==
  LET s == run[r]
      next == NextSpec(s.m)
      grows == Mode(r) # "promote" /\ s.m.advance
  IN  /\ Pc(r, "finish")
      /\ runman' = [runman EXCEPT ![r] = Append(s.done, s.m)]
      /\ run' = [run EXCEPT ![r] =
           IF s.iter = s.last THEN Off
           ELSE [s EXCEPT !.pc = "collect", !.iter = @ + 1, !.current = next,
                          !.pool = IF grows THEN Append(@, next) ELSE @,
                          !.done = Append(@, s.m), !.m = None]]
      /\ UNCHANGED <<promotionVars, iterman, dir, site, budget>>

RunStep(r) ==
  Collect(r) \/ Train(r) \/ Evaluate(r) \/ WriteRun(r) \/ Promote(r) \/ Decide(r) \/ Raises(r)
    \/ Finish(r)

--------------------------------------------------------------------------------
(* Operators, the archiver, and crashes. *)

Command(o) ==
  /\ budget.commands > 0 /\ budget' = [budget EXCEPT !.commands = @ - 1]
  /\ Begin(o)
  /\ UNCHANGED <<runVars, site>>

\* The command evaluates the manifest of any run and ends with its outcome.
OperatorStep(o) ==
  /\ \/ \E r \in Runs : Judge(o, r)
     \/ Lock(o) \/ Keep(o, site.managed) \/ WriteTmp(o) \/ Replace(o)
     \/ rec[o].pc \in Outcomes /\ Leave(o)
  /\ UNCHANGED <<runVars, site, budget>>

Archiver ==
  /\ site.archiver /\ Archive
  /\ UNCHANGED <<runVars, site, budget>>

OneCrash == budget.crashes > 0 /\ budget' = [budget EXCEPT !.crashes = @ - 1]

Crash ==
  /\ OneCrash
  /\ \/ \E r \in Runs : ~Pc(r, "off") /\ Dies(r) /\ Leave(r)
     \/ \E o \in Operators : ~At(o, "idle") /\ Leave(o) /\ UNCHANGED run
     \/ ArchiverDies /\ UNCHANGED run
  /\ UNCHANGED <<iterman, runman, dir, site>>

Next ==
  \/ \E r \in Runs : Start(r) \/ RunStep(r)
  \/ \E o \in Operators : Command(o) \/ OperatorStep(o)
  \/ Archiver \/ Crash

Spec == Init /\ [][Next]_vars

Fairness ==
  /\ \A r \in Runs : WF_vars(RunStep(r))
  /\ \A o \in Operators : WF_vars(OperatorStep(o))

FairSpec == Spec /\ Fairness

--------------------------------------------------------------------------------
(* Correctness. *)

RunStates ==
  [pc : {"collect", "train", "evaluate", "publish", "promote", "finish"},
   first : Nat, iter : Nat, last : Nat, games : Nat, evals : Nat, base : Nat, eval : Nat,
   current : Names \cup {None}, pool : Seq(Names), done : Seq(Manifests),
   m : Manifests \cup {None}] \cup {Off}

Promotings == [pc : {"idle", "gate", "lock", "keep", "write", "replace"} \cup Outcomes,
               inc : Ids \cup {None}, seen : Seq(Entries),
               entry : [source : Names \cup {None}, id : Ids \cup {None},
                        file : Names \cup {None}, sum : Checkpoints \cup {None}]]

Jobs == [seq : Nat, from : Names]
Batches == [pc : {"idle", "move", "write", "replace", "rollback"},
            todo : Seq(Jobs), moved : Seq(Jobs), seen : Seq(Entries)]

\* The state of the registry, of the files, of the promoters and of the runs.
TypeOK ==
  /\ registry \in Seq(Entries)
  /\ tmp \subseteq Seq(Entries) /\ lock \subseteq Promoters
  /\ DOMAIN files \subseteq Names /\ \A f \in DOMAIN files : files[f] \in Checkpoints
  /\ DOMAIN rec = Promoters /\ \A p \in Promoters : rec[p] \in Promotings
  /\ arch \in Batches
  /\ DOMAIN run = Runs /\ \A r \in Runs : run[r] \in RunStates
  /\ \A r \in Runs : \A i \in DOMAIN iterman[r] : iterman[r][i] \in Manifests
  /\ \A r \in Runs : runman[r] \in Seq(Manifests)
  /\ dir \in [Runs -> BOOLEAN]

\* docs/bootstrap_strategy.md 730: the registry is append-only and recording is serialized.
\* Without an archiver the registry refines PromotionLedger: concurrent promoters that die
\* anywhere neither lose nor repeat a promotion.  (An archiver rewrites it without the lock.)
Ledger == INSTANCE PromotionLedger
  WITH ledger <- IF site.archiver THEN <<>> ELSE [i \in DOMAIN registry |-> registry[i].source]
KeepsLedger == Ledger!Spec

\* promotion.py 226-227, 309-350: without an archiver every entry's file holds, whoever
\* crashed or resumed, the checkpoint that was promoted: a resumed run never trains over
\* it and a retried copy never overwrites it.
ListedIsFinal ==
  ~site.archiver =>
    \A i \in DOMAIN registry : Holds(registry[i].file, registry[i].sum)

\* neural_selfplay.py 535-579, 2020-2039: over all its invocations a run is one sequence.
\* Iterations are consecutive, each starts from what the one before it decided, its games
\* have the next seeds, and no benchmark repeats the seeds of an earlier one.
OneSequence(ms) ==
  /\ \A i \in DOMAIN ms : ms[i].n = i
  /\ \A i \in 1 .. Len(ms) - 1 :
       /\ ms[i + 1].seed = ms[i].seed + ms[i].games
       /\ ms[i + 1].current = NextSpec(ms[i])
       /\ \A j \in i + 1 .. Len(ms) :
            ms[i].evals > 0 /\ ms[j].evals > 0 => ms[i].eseed + ms[i].evals <= ms[j].eseed

RunIsOneSequence == \A r \in Runs : OneSequence(runman[r])

\* neural_selfplay.py 862-877, 1495-1521: the benchmark chooses its incumbent long before
\* the gate does.  While one run alone promotes, through crashes and resumptions, they
\* agree: the gate never asks for a matchup that was not played.
Promotes(r) == Mode(r) = "promote" /\ site.goal[r] > 0

Lone == site.commands = 0 /\ \A r, q \in Runs : Promotes(r) /\ Promotes(q) => r = q

GateFindsItsMatchup ==
  Lone /\ ~site.archiver => \A r \in Runs :
    Pc(r, "promote") /\ At(r, "gate") /\ run[r].m.evals > 0
      => rec[r].inc \in {None, run[r].m.bench}

\* neural_selfplay.py 967-1000: without an archiver, an accepted iteration names the entry
\* that its own promotion made, whatever was promoted meanwhile.
MatchesRegistry(m) ==
  m.promo > 0 =>
    /\ m.promo \in DOMAIN registry
    /\ registry[m.promo].source = m.source /\ registry[m.promo].file = m.accepted

ManifestMatchesRegistry ==
  ~site.archiver =>
    \A r \in Runs : \A i \in DOMAIN iterman[r] : MatchesRegistry(iterman[r][i])

\* docs/bootstrap_strategy.md 756-785: an archiver loses no listed checkpoint, where runs
\* have policy ids of their own.  Whoever dies, a copy of it is there under its id or in the
\* archive; and if nobody dies, under the very name that is listed.
Apart ==
  \A r, q \in Runs : site.goal[r] > 0 /\ site.goal[q] > 0 /\ Base[r] = Base[q] => r = q

CopiesOf(e) == {f \in DOMAIN files : f.at \in {"copy", "archive"} /\ f.key[2] = e.id}

ArchivedIsRecoverable ==
  Apart => \A i \in DOMAIN registry :
    LET e == registry[i]
    IN  /\ \/ e.file = e.source /\ Holds(e.file, e.sum)
           \/ \E f \in CopiesOf(e) : Holds(f, e.sum)
        /\ \/ site.crashes > 0
           \/ Holds(e.file, e.sum) \/ Holds(Archived(e.file), e.sum)
           \/ Holds([e.file EXCEPT !.at = "copy"], e.sum)

\* neural_selfplay.py 675-693, eval_cli.py 1616-1645: a run always finds the files of the
\* pool it remembers, and of the champion: whoever dies or promotes, if it does not promote
\* itself; otherwise if it alone promotes, beside an archiver told to retain at least its
\* historical opponents, and neither dies.
Sheltered == Lone /\ MaxHistorical <= PoolSize /\ site.crashes = 0

OpponentsAreThere ==
  \A r \in Runs : Pc(r, "collect") /\ (Mode(r) = "promote" => Sheltered) =>
    /\ run[r].pool # <<>> /\ run[r].current = Last(run[r].pool) => Loadable(run[r].current)
    /\ \A i \in DOMAIN Opponents(r) : Loadable(Opponents(r)[i])

\* neural_selfplay.py 655-1026, promotion.py 273-291: an invocation ends, whoever dies while
\* holding the registry's lock.
RunsEnd == \A r \in Runs : ~Pc(r, "off") ~> Pc(r, "off")

================================================================================
