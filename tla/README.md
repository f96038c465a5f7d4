# TLA+ specifications of PokeZero's distributed data path

PokeZero trains a Pokémon battle agent from self-play.  Most of the repository
is sequential: battle knowledge, search, encoders, evaluation scripts.  What is
hard to get right and hard to test is how its processes hand data and work to
each other.  These specifications model that part:

* the **fan-in protocol**, by which a fleet of crashing, respawning collectors
  turns queue tasks into training input exactly once over a shared filesystem
  (`src/pokezero/fleet_worker.py`);
* the **inference service** the collectors evaluate positions with
  (`src/pokezero/inference_service.py`);
* the **training agent** that claims training requests from a queue directory
  and runs them as process groups (`src/pokezero/train_agent.py`);
* the **search pool** of worker processes that share visit statistics
  (`src/pokezero/mcts_eval/paper_reference_parallel.py` and its exchange);
* the **full-game panels** that a controller runs in two pods under leases
  (`scripts/coordinate_fullgame_panels.py`, `scripts/run_fullgame_panel.py`);
* **neural self-play** runs that crash and are resumed, and the **promotion
  registry** they share with operators and with the command that archives old
  checkpoints (`src/pokezero/neural_selfplay.py`, `promotion.py`, `eval_cli.py`).

Paths below are relative to the repository.  Unqualified line numbers are of
`src/pokezero/fleet_worker.py`.

## 1. Inventory

| Component | State | Operations | What is hard | What makes it correct |
|---|---|---|---|---|
| Fan-in publication guard (`fleet_worker.py` 1100-2100) | a chain of directories per task; each generation has an owner record, a release marker and one outcome path | walk the chain, install a generation, renew, release, accept | every step is a separate filesystem call, raced by peers; leases expire; owners stall and come back | one accepted publication, that of the last generation; no active owner superseded; attempts end |
| Fleet worker (`fleet_worker.py` 599-4800) | queue directories `pending/ claimed/ failed/ done/`; cache versions `shard-w<id>-v<k>`; publish lock; acceptances | claim, collect, recover, look up, publish, accept, acknowledge, prune | crash between any two calls, respawn under the same id, requeue of a live worker's claim, shared worker ids | each task's games are trained on exactly once; done means it is input; no task is lost |
| Strict inventory (3003-3268) | none of its own | list, read, list again, check the contract | versions are replaced while it reads | what it returns existed at one moment, and tiles the contract |
| Staging leases, sweep, routes, preflight | private directories, route records, probe files | sweep, bind, probe | inode reuse, renewals during a sweep | never removes what a live owner stages |
| Inference service (`inference_service.py`) | request queue, batch, served policy, its id and configuration; a connection per collector | `/forward`, `/reload`, `/config`; client retries | late answers to abandoned attempts, a batch failing as one, a policy swapped in flight | each call gets its own answer, by a current policy; a bad request fails alone |
| Training agent (`train_agent.py`) | request files in `pending/ claimed/ done/ failed/`, claim tokens, results; a trainer's process group | sweep, claim, token, fork, wait, archive, publish, unlink | the agent, its container and its pod die between any two steps; the trainer outlives its wrapper | no request is trained by two groups; sweeping never kills the serving processes; every request ends |
| Search pool (`mcts_eval/paper_reference_parallel.py`, `paper_reference_exchange.py`, `paper_reference.py`) | the owner's decision and statistics master; each worker's tree counts; process groups and pipes | spawn, isolate, search, exchange, answer, close | exports and acknowledgements interleave; deadlines; workers or the owner die or hang | each visit counted once; no simulator left running; the owner ends |
| Full-game panels (`scripts/coordinate_fullgame_panels.py`, `run_fullgame_panel.py`) | the controller's loop; lease, abort, terminal and exit files of each pod; supervisor, worker, launcher | refresh, start, judge, abort, drain; launch, watch, stop, accept | a call that timed out still runs in the pod; files read one after the other; processes killed | complete means whole; verified cleanup means stopped; losing the controller stops the work |
| MCTS evaluation: controller, isolated policy (`mcts_eval/`) | subprocess policies | start, request, cancel | a policy that fails its handshake | no answer is used for another request |
| Promotion (`promotion.py`, `eval_cli.py`) | a registry file, its temporary file and its lock; copies of checkpoints and their archive | gate, lock, copy, rewrite; plan, move, rewrite, roll back | concurrent promoters; an archiver that does not take the lock; death between copy and rewrite, or between move and rewrite | promotions are appended, none lost or repeated; a listed checkpoint never changes and is never lost |
| Neural self-play (`neural_selfplay.py`, `opponents.py`, `evaluation.py`) | iteration manifests, the run manifest, checkpoints; in memory the current policy and the opponent pool | collect, train, benchmark, record, promote, advance, resume | death between any two files; what another promoter did since the benchmark or the pool's last reading | a run is one sequence over its invocations; manifests, benchmark, gate and registry agree |
| Search (`engine_search.py`, `search.py`, `rust/pokezero-search`) | a tree of visit counts and values | select, expand, back up | numeric edges | visits are conserved |
| Battle runtime and bridges (`local_showdown.py`, `scripts/battle_bridge.mjs`, `sidecar.py`, `exact_session.py`) | subprocess sessions | start, step, close | a process that dies between request and answer | answers match requests |
| Rollouts, datasets, policies, belief state, live play, scenario studio, GPU engine | sequential data | | | |

Interactions.  A *controller* writes task manifests into `pending/`, points the
inference service at each new checkpoint (`/reload`), reads the strict inventory
at the end of an iteration, and asks the training agent for a new checkpoint by
a file in its queue.  A *collector* claims a manifest by
renaming it, plays its games with evaluations from the service, and publishes
them.  A *reaper* outside this repository's Python code moves stale claims back
to `pending/`, and a *respawn loop* restarts collectors.  Collectors share no
memory: only the queue mount and the cache mount.  The training agent runs in
the pod that serves inference.  The search pool and the panels are evaluation:
they share nothing with training but the checkpoints.  A neural self-play run is
the single-machine way to train: it collects, trains and benchmarks in one process,
and meets other runs only in the promotion registry.

## 2. Modules

| Module | Models | Extended or used by |
|---|---|---|
| `FanInCommit` | what one task promises: holders in turn, offers, one winner | refined by the next two |
| `FanInFence` | the guard's filesystem protocol, one action per call that others can observe | `FanInFenceProofs`, `MCFanInFence` |
| `FanInFleet` | the whole worker, for several tasks and processes; the guard is atomic | `FanInFleetProofs`, `MCFanInFleet` |
| `FanInInventory` | the trainer's read, against publishers | `FanInInventoryProofs`, `MCFanInInventory` |
| `InferenceService` | collectors, server threads, batcher, reloads and what `/config` shows of them | `InferenceServiceProofs`, `MCInferenceService` |
| `TrainAgent` | the agent, its queue directory, the process groups of its pods | `TrainAgentProofs`, `MCTrainAgent` |
| `SearchPool` | owner, workers, pipes, process groups, statistics exchange | `SearchPoolProofs`, `MCSearchPool` |
| `Panel` | controller, in-pod agents, supervisors, workers, launchers | `PanelProofs`, `MCPanel` |
| `PromotionLedger` | what a registry promises: promotions are appended, none twice | refined by `SelfPlay` |
| `Promotion` | the steps of promoters and of the archiver on registry, lock and files | `SelfPlay` |
| `SelfPlay` | training runs, their manifests and resumption, composed with `Promotion` | `SelfPlayProofs`, `MCSelfPlay` |

The fleet is modelled in two layers.  `FanInFence` takes one task's guard apart
into its calls and shows that it implements `FanInCommit`.  `FanInFleet` takes
the guard's steps as atomic, and its property `TasksCommit` shows that the way
it uses guard, targets and acceptances is again an implementation of
`FanInCommit`, for every task.

### FanInFence

A member of `Claims` is a claim generation with the attempt of the worker that
holds it; claim names carry a fresh uuid (599-688), so an attempt is never
repeated under the same name.  `chain` is the sequence of installed directories,
`accepted` the content of the last outcome path.  Installing a generation and
accepting a publication are renames onto one pathname: both have the guard
`SlotFree`.  A walk (`ReadGeneration`, `ReadAcceptance`, `ReadAbsent`) reads one
directory per step; `ScanSound` and `ScanAdvanced` are the enumeration of
installed names that tells a concurrent advance from an unreachable generation.
The heartbeat is a second thread (`HeartbeatCheck`, `HeartbeatWrite`) under the
owner lock, which accepting also takes (`EnterAccept`, `Commit`).  Time is not
measured: `Expire` ends a lease at any moment once the heartbeat is gone or its
claim is no longer live, `Stall` models an acquisition whose rounds are used up.
`Retire` (the queue withdraws the claim) and `Crash` are the environment.
`ReadRaced` is the read of an owner record during its replacement (1243-1300).

### FanInFleet

The state is the queue mount (`pending`, `held`, `failed`, `done`), the cache
mount (`guard`, `released`, `accepted`, `lock`, `shards`, `offered`) and each
process's locals.  A version carries its lineage, number, cumulative manifest
and the claim that published it.  The control of `run_worker`,
`_recover_fanin_task`, `_publish_fanin_task` and `_complete_claim` is followed
step by step, the three inventory lookups included; every early return and
error class is a disjunct: `Recycle` (clean exit, claim kept), `Terminal`
(exit 2), `Abort` (an exception nobody classifies).  `Evidence` is
`_fanin_candidate_acceptance_evidence`.  A completer that finds a version gone while it
lists (`PrunedMeanwhile`, 4202-4216) or finds the lock's own guard held (`BaseGuardHeld`,
2060-2084: by a peer at it, or by a dead one whose lease has not run out) recycles.

What one step stands for: the listing of all lineages of an inventory read (the
judgement of the versions is a later step, and that is where the races are); the
worker publish lock's critical section; the read of the guard's tail with the
directory scan in a recovery; staging with its fence check; the loop that
prunes; the guard's release with the return that follows it.  The race of the
acceptance with a successor is atomic here and is `FanInFence`'s subject.

### FanInInventory

`disk` is each worker's selected version.  `Publish` replaces it, keeping its
tasks or dropping them (its producer found no acceptance of them).  A pass lists
the workers, then reads one per step; `Vanish` is a version pruned between
listing and reading; `Recheck` is the second pass.  `Meets` is
`_validate_fanin_contract`, on records with offsets, counts and seeds; `Sorted` is its
sort, which says of each position how many tasks precede the one there.

### InferenceService

A collector has one connection and one call at a time (`RemoteForward._lock`).
Connections are named by the request that opened them, so an answer is delivered
only to the connection its request came over (`Respond`).  A server thread
queues its request and waits for its event or its timeout (`Submit`, `Answer`,
`GiveUp`).  The batcher's thread takes a prefix of the queue, reads the policy and runs
(`Forward`): nothing outside it can tell when each entry was taken.  `Settle` fills the
slots of the batch by position, as the code zips results to them: the slot of the `i`-th
entry gets the result of the `i`-th body (`Outcome`), or all get one error.

`/reload` loads and compares under its lock and then assigns policy, id and
configuration one after the other (`SetPolicy`, `SetId`, `SetConfig`), while
`/config` and the batcher read without that lock.  `swaps` are the reloads so far, so
the policy in service is its length; `shown` is what `/config` would answer.  A
checkpoint that does not load or has another layout changes nothing and is no step.
The answer of a reload is built after its lock is released: it is `shown.id` at any
moment from then on.  `Learn` is `fetch_remote_config`: a collector encodes by the
layout it read there, once; its retries, and its error when they are used up, are the
step not being taken.

### TrainAgent

`place`, `token` and `result` are the queue directory; `pc` and its fellows are the
locals of the agent of each pod; `group` is what runs under each process group id
there.  `Restart` to `Released` are the two startup sweeps
(`requeue_untokened_claims`, `release_stale_claims`), a listing first and then one
file per step; `Claim` to `RecordMalformed` is `claim_next_request`; `StartTrainer`
to `Unrecord` is an attempt, with its trainer noted in the token; `Archive`,
`Publish`, `Unlink` close a request.  `Crash` is the agent's death, which takes the
bash wrapper with it (`PR_SET_PDEATHSIG`) and not the trainer below;
`WrapperDies` is the wrapper's alone; `ContainerRestarts` and `PodGoes` take
everything in the container.  `stray` names the trainers no later step will look
for.  Two more history variables serve `RequestsEnd` alone: `spared`, the claims an
agent's sweep kept because their trainer outlived SIGKILL, and `mute`, the requests whose
agent died between filing and publishing.
Group ids are few and reused, and the serving processes of a pod have one.
Assumed: one agent per queue, as its docstring says (293).

### SearchPool

The owner (`mpc`, `pending`, `master`, ...) and each worker (`worker`) exchange
messages over two pipes.  A worker's tree is its visits: `own` is what it counted
itself, `view` what its tree holds with what it imported.  `Latest`, `Advance`,
`Acceptable` are the statistics master, `Merge`, `Mergeable`, `Bind` the worker's
import with all its refusals.  A batch adds any visits in which each trajectory
goes through the root once.  `Total` adds one count over the workers, by a
function on their numbers.  `Spawn` to `Startup` is the startup with its isolation
handshake, `Close` to `Join` the cleanup with its grace interval and its force.
`done` is a history variable: the visits really completed in the current battle,
which only properties read.

### Panel

`ctl` is the controller's loop, `pod` each pod's files and processes, and `exec` the
agents a call has started there: an agent outlives the call that timed out
(`waited` is FALSE then).  `snapshot` is three reads, `ReadTerminal`, `ReadExit`,
`ReadAlive`.  `Judge` takes the answers in the entry's order; `Stop`, `Drain`,
`Observe` are the abort and the observations after it.  `Launch`, `Watch`,
`StopOwned`, `Finish` is the supervisor's loop over its shards, in sequential mode.
What can go wrong at the end of a shard: `stop_owned` finds survivors of SIGKILL (`left`,
in `StopOwned`), or raises and is called again by the except clause (`StopRaises`), or
raises there too or is followed by a prefix that does not parse before the receipt is
appended (`Unsaid`); or the inputs fail verification after the receipt (`VerifyFails`).
`cleanup` is what the receipts will say of the shard at hand.  `Unsaid` is one fault,
whether or not something survived, because both may have one cause.  `WriteExit` and
`LauncherEnds` are the launcher.  `late` is the common deadline, on a clock the pods
share.  Assumed: the launch receipt is there once the supervisor is.

### Promotion and SelfPlay

`registry`, `tmp`, `lock` and `files` are the registry's file, its temporary file,
the holder of the flock and all checkpoints by name; a checkpoint says which run made
it, for which iteration, and the how-manieth training of that iteration it was.
`Begin` reads the champion that becomes the gate's incumbent, `Gate` is the
evaluation outside the lock, `Lock` the second reading with the duplicate check inside
it, `Keep` the copy, `WriteTmp` and `Replace` the rewrite with the release.  The
archiver's `Plan` is the confirmed retention plan behind its preflight, `Move` one file,
`Reread` to `Publish` the rewrite that takes no lock and uses the promoters' temporary
file, `Rollback` what it does when a move or the rewrite fails.  `Promotion` has no
next-state relation: `SelfPlay` says who takes these steps.

A run (`run[r]`) is the process with its locals; `iterman` and `runman` are the
manifests on disk.  `Start` reads them, recomputes iteration, seeds and current policy,
and verifies the registry; `Collect` and `Train` write the directory and the
checkpoint; `Evaluate` benchmarks against the incumbent of that moment, decides and
writes the iteration's manifest; `WriteRun` writes the run's, which the gate then reads;
`Promote` takes the promoter's steps; `Decide` rewrites the iteration's manifest with
the outcome; `Finish` rewrites the run's and goes on.  `Crash` is the death of a run, of
an operator's command or of the archiver between any two steps.  Games are a number of
seeds, a benchmark is won or not.  A member of `Sites` says what runs together: the mode
of collector advancement, how many iterations each run may reach, whether promotions
are copied to an artifact directory, whether there is an archiver, and how many crashes
and commands.

## 3. Runs

Every run below is finite without state constraints; bounds are in the actions'
guards or in constants.

| Run | Instance | Checks |
|---|---|---|
| `fence` | 2 claims, 2 acquisition rounds, 2 traversals, at most 2 readable generations, with fairness | `AcceptedIsCurrent`, `SuccessionIsSafe`, `CorruptionNeedsContention`, `AttemptsEnd`, `ImplementsCommit` |
| `fleet` | 2 tasks, 2 processes and 3 claims, in one of three deployments: both may crash; one worker id for both, one may crash; nobody crashes | `TypeOK`, `InputNeverRepeats`, `DoneIsAccepted`, `DoneIsInputAlive`, `TasksCommit` |
| `inventory` | 2 workers, 3 versions, 2 attempts, manifests over a few offsets, counts and seeds | `VerdictIsExact`, `AcceptedIsASnapshot` |
| `inference` | 1 collector, 2 calls of 2 attempts, batches of 2, all kinds of bodies, 3 reloads, one of another layout; symmetric in the other two | `AnswersOwnCall`, `AnswersAreFresh`, `ToldIsNotOlder`, `RefusedForAReason` |
| `train` | 3 requests, one malformed, a pod and its replacement, 4 group ids, 2 attempts, 2 faults, with fairness | `TypeOK`, `OneTrackedTrainer`, `ServingSurvives`, `PublishedIsFinal`, `RequestsEnd` |
| `pool` | 2 workers, 2 states with a faint between them, and one of four loads: 2 trajectories each; a change of battle; three decisions; two faults in one decision; with fairness | `TypeOK`, `AnswerCountsEverything`, `NothingCountedTwice`, `ExchangeNeverRefuses`, `NoSimulatorIsLost`, `PoolEnds` |
| `panel_stop` | 1 partition of 2 shards, 2 observations, 3 faults, with fairness | `CompleteIsWhole`, `VerifiedIsAsTold`, `OneShardAtATime`, `WorkStops` |
| `selfplay` | 3 runs, two of them under one default policy id, of up to 5 iterations, 1 operator, a pool of 1, in one of 14 sites: a run of each mode resumed after 1 or 2 crashes; two promoting runs; a run that an operator promotes from; one or two runs of ids of their own, or a run and an operator, beside an archiver; a run that does not promote beside an operator and an archiver, and a crash; with fairness | `TypeOK`, `KeepsLedger`, `ListedIsFinal`, `RunIsOneSequence`, `GateFindsItsMatchup`, `ManifestMatchesRegistry`, `ArchivedIsRecoverable`, `OpponentsAreThere`, `RunsEnd` |

The type invariants of `FanInFence`, `InferenceService` and `Panel`, the immutability of
the guard's outcomes (`OutcomesAreImmutable`, which `ImplementsCommit` implies) and
`ShownIsServed` are proved (section 4) and are not checked again by a run.

What the less obvious properties say.  `DoneIsInputAlive` holds
in fleets whose workers have ids of their own, as the docstring asks (15-18), and do not
crash; `DoneIsAccepted` holds in all.  Two processes under one id (the default is the host's
name, 4629) can break it without any crash: the claim behind a renamed target is
requeued, the other process reclaims the publish lock of a claim that is no longer
live (2141-2181) and publishes a version without that target; the target is accepted
and found in the inventory, its task is marked done, and then the newer version is
accepted.  `OneTrackedTrainer`
leaves out `stray` groups: a group that survived SIGKILL, or lost its wrapper, is
nobody's in the code either, and the next attempt starts beside it.
`ServingSurvives` speaks of a pod's first container: after a restart of the
container the number in a token may be the serving processes' own.  `RequestsEnd`
says that every request comes to a state it stays in: it has a result, or one of three
things has happened.  An agent died after filing it and before publishing (`Silent`, the
finding of `train_silent`); the pod that claimed it is gone (`Foreign`, the controller
decides); or a sweep kept the claim because its trainer outlived SIGKILL (`Kept`, a
request nobody tries again).  A trainer that merely runs is no exception.
`VerifiedIsAsTold` says of a verified cleanup that no supervisor or worker runs, and that
whatever outlived SIGKILL was reported by no receipt; that nothing at all was left is
`VerifiedIsStopped`, which the code breaks (`panel_unsaid`).
`WorkStops` excepts a killed supervisor, whose worker goes on in a session of
its own, and does not count descendants that outlive `stop_owned` (`left`): nobody stops
those.  `ExchangeNeverRefuses` says that the consistency checks of the exchange
are never the reason a pool is poisoned.  `KeepsLedger`, `ListedIsFinal` and
`ManifestMatchesRegistry` are about registries without an archiver: one that rewrites
the registry while a promotion is recorded loses it, and a later promotion then takes
its number and its file name.  `GateFindsItsMatchup`, and `OpponentsAreThere`
of a run that promotes, are about one that alone promotes: a second promoter may have
changed the champion between the benchmark and the gate (which then fails, as it should),
or moved the pool on.
`ArchivedIsRecoverable` is about runs whose policy ids differ (`Apart`), which
`docs/bootstrap_strategy.md` 96 asks for: under the default id two runs name their copies
alike, one overwrites the copy of the other's dead promotion, and the archiver can then
publish the temporary file that promotion left.  With a death it promises that a copy
under the entry's id is somewhere, and without one that it is under the listed name or
that name in the archive: the two writers share one temporary file, so what a dead one
left is published by the other, and the rewrite, which finds its entries by sequence
number alone (`eval_cli.py` 1897-1904), may then write one checkpoint's archived name into
another's entry.  Of a promoting run `OpponentsAreThere` leaves out deaths for the same reason
(`Sheltered`), and a current
policy that is no champion, since a promotion that raised may still be published so.

Why the bounds are enough.  Every conflict in the guard is between a holder and
a successor that is also a reader; two rounds let either return after an outcome
it lost, and the proofs (section 4) lift the bound.  With two traversals a reader can
be outrun, which takes two outcomes.  In the fleet two tasks are the least with
which a version can carry one task of somebody else's concern, two processes the
least that race, and the third claim is the requeue of the first; tasks and workers
are symmetric.  In the service a late answer needs two attempts and a second
call to be mistaken for; one collector suffices, since nothing of a connection is
shared; two admissible reloads are the least that overlap, and a third is one to refuse.  For the agent two faults are a death and then another in the recovery
from the first, and two requests the least of which one is swept while the other
is claimed; four ids let a number be reused while another group has it.  In the
pool a state that a faint makes obsolete needs a second one, an imported count
that comes back needs two workers and two exchanges, and a death needs a second
fault to meet its cleanup.  In a panel three faults are,
for example, an abort that is lost, a start that is late and a controller that dies;
`panel_unsaid` has two partitions, and the proofs (section 4) any number.  In
self-play an iteration before the crash, the one that is lost and the one after the
resumption make three; the first stale copy beside a pool of one is that of the third
promotion, the fourth is recorded while it is archived, and the fifth finds two stale
ones or one that was put back; a promotion that is
overtaken needs two promoters, and three crashes would only repeat a resumption.

`CHECK_DEADLOCK FALSE` is in every configuration: attempts end, queues drain, pools
close, panels finish, and calls are bounded.

**Runs that find a disagreement.**  Four runs check what a comment, a docstring or a
test says and find a behaviour of the code that contradicts it.  Each is quoted in
`PROJECT.json` under `findings`.

| Run | Says | The behaviour |
|---|---|---|
| `fleet_lost_input` (`DoneIsInput`) | 26-28: exactly-once for accepted input, including a crash between publication and acceptance | the crashed publisher's successor process publishes a version without the orphan's task; a peer then has the orphan accepted and marks it done; the selected version does not have it |
| `fleet_lost_task` (`NoTaskLost`) | 4136: "the durable done marker wins" | one completer undoes the marker on which another relied when it unlinked the claim |
| `train_silent` (`NeverNeither`) | `train_agent.py` 535-538: no window in which a request looks neither claimed nor finished | an agent that dies between the archive and the result leaves such a request for good |
| `panel_unsaid` (`VerifiedIsStopped`) | `run_fullgame_panel.py` 409-411: a failed check must not prevent the terminal receipt of a child | descendants survive SIGKILL, and reading the prefix raises before the receipt is appended; `terminal.json` is silent, and the controller reports `cleanup_verified` |

The models also reach behaviours that no property forbids, because the code has
them: a worker that exits 2 although every shard is sound, when a peer completes
its task between the lookup and the look at the done marker (4731, 2963) or when an
owner record is read during its replacement (1243-1300, `ReadRaced`); a pruned
version that ends a completer with an error nobody maps (4090); a well-formed
request that is refused together with a bad one of its batch
(`inference_service.py` 234; the comment at 387 speaks of one bad item never taking
down the batch, which is so only of bodies that do not decode); a promotion that an
archiver's rewrite undoes (`eval_cli.py` 1892); a gate that derives its incumbent from
an iteration that was never accepted, and fails for a matchup that was not played
(`evaluation.py` 540); a partition that finishes cleanly between two reads of one
snapshot, is seen with an exit and no terminal, or with a dead launcher and no exit, and
stops the whole panel (`coordinate_fullgame_panels.py` 138).  They are among the `hazards`.

**Mutants.**  Definitions named `Fault...` are the plausible bugs that break each
property of a passing run; they stand next to what they replace and no
specification uses them.  (`Fault` itself, without a suffix, counts the bounded
faults of the environment.)

**Fairness.**  It is weak but for two steps.  `fence` assumes it of the steps of an
attempt and of its heartbeat: threads of a live process, whose waits are bounded sleeps.
It is strong for `CheckFence` and `EnterAccept`, which take the owner lock: a flock that
the process's other threads hold only for a few calls and then leave, so that a thread
that keeps asking gets it.  `train`
assumes it of the agent, which its container restarts, and of the Deployment that
brings a pod back; a trainer need not exit by itself, its deadline ends the wait.
`pool` assumes it of the owner's loops, of the `with` that closes the pool, and of
workers that do not hang.  `panel_stop` assumes it of agents and supervisors that
have started, of the launcher's receipt and of the lease's expiry, which is time.
`selfplay` assumes it of a run's and of a command's own steps: a loop of a live process,
which waits only for the registry's lock.
Nothing is assumed of crashes, faults or the queue.

## 4. Proofs

TLAPS proves, for any values of the constants:

* `FanInFenceProofs`: `TypeCorrect`, `AcceptedIsCurrentHolds`,
  `SuccessionIsSafeHolds`, `CorruptionNeedsContentionHolds`,
  `OutcomesAreImmutableHolds`, and `Refinement`: `FanInFence` implements
  `FanInCommit`.
* `FanInFleetProofs`: `TypeCorrect`, `TasksCommitHolds` (every task of a fleet implements
  `FanInCommit`), `DoneIsAcceptedHolds`, `InputNeverRepeatsHolds`,
  `DoneIsInputAliveHolds`.
* `FanInInventoryProofs`: `AcceptedIsASnapshotHolds`, `VerdictIsExactHolds`.
* `InferenceServiceProofs`: `TypeCorrect`, `AnswersOwnCallHolds`,
  `AnswersAreFreshHolds`, `ShownIsServedHolds`, `ToldIsNotOlderHolds`,
  `RefusedForAReasonHolds`.
* `TrainAgentProofs`: `TypeCorrect`, `OneTrackedTrainerHolds`,
  `ServingSurvivesHolds`, `PublishedIsFinalHolds`.
* `SearchPoolProofs`: `TypeCorrect`, `NoSimulatorIsLostHolds`,
  `AnswerCountsEverythingHolds`, `NothingCountedTwiceHolds`, `ExchangeNeverRefusesHolds`.
* `PanelProofs`: `TypeCorrect`, `CompleteIsWholeHolds`, `VerifiedIsAsToldHolds`,
  `OneShardAtATimeHolds`.
* `SelfPlayProofs`: `TypeCorrect`, `LedgerKept` (the registry of `SelfPlay` implements
  `PromotionLedger`), `ListedIsFinalHolds`, `ManifestMatchesRegistryHolds`,
  `RunIsOneSequenceHolds`, `GateFindsItsMatchupHolds`, `ArchivedIsRecoverableHolds`,
  `OpponentsAreThereHolds`.

Assumptions: only those of the modules (`NoClaimAssumption`, `BoundsAssumption`,
`FleetAssumption`, `InventoryAssumption`, `ServiceAssumption`, `PanelAssumption`,
`PoolAssumption`, `PromotionAssumption`, `NamesAssumption`, `SitesAssumption`,
`TrainAssumption`).

*The guard.*  The properties are not inductive: whether a rename may succeed
depends on what the walk before it saw.  `IInv` adds to them, for each attempt,
`AttemptInv`: how far its walk got (`depth` never exceeds the chain, and each
traversal that was given up was outrun by an outcome), whether it already owns a
generation at its point of control, that a predecessor it has judged inactive
stays so, and that what it wants accepted is visible.  The proof that a step
keeps it splits on the acting attempt: `OwnStep` for the attempt itself, action
by action, with the control transfers `Finish`, `Walk` and `Advance` as lemmas;
`OthersKeep` for all others, from the little a step shows them (`Moves`: the
chain grows by at most one, releases and targets only grow, a claim that owns a
generation does not come back to life).  The refinement and the action property
follow from `IInv` and `Moves`.

*The fleet.*  A process works on the claim it made, alone (`QueueInv`), and its phase
tells whether that claim is in its task's guard (`ProcOk`): not before `Lease`, so it
enters once, and ever after, so whatever it renames into view is the offer of a holder.
`GuardInv` keeps claims in the guards of their own tasks, which makes a publication that
is accepted for being the last holder's an offer for that very task.  A process is at
`mark` only when its task is accepted: a read is in order only if every entry of every
selected manifest is authenticated (`EvidenceOk`), and no acceptance is withdrawn.  The
proof has a lemma per action for the process that takes it, one for the bystanders, and
a classification of the steps by what they do to guards, offers, acceptances and markers
(`Kinds`), from which both theorems follow.

What is selected repeats no task because an entry is authenticated by the acceptance
of the manifest that ends with it: its place in a manifest is that manifest's
length, and its lineage is the version's own; two selected versions of one lineage and
number are one (`OneTarget`).  That a marked task stays in the input needs the history of
a lineage, `ChainInv`: its accepted versions form a chain in which every one holds the
tasks of the older ones and the newest is visible (`Chain`); a visible version whose task
was won is the winner or older than it (`Visible`); what could still be accepted has its
publisher alive and waiting (`Awaited`), which is where crashes and shared ids come
in; and a version under publication is newer than all its lineage shows and holds all its
lineage has won (`Own`).  So whenever a reader finds a task in the selection, any later
selection of that lineage holds it too (`WonIsInput`).

That a version's number stays within the claims made, which `TypeOK` bounds it by, is a
fact about counting: a lineage shows no number above that of its offers (`SizeInv`), and
whoever prepares the next version holds a claim it has not offered yet (`OffersCount`).

*The inventory.*  Two equal passes show that every version was the same when the
first pass read it and when the second did; the first pass ended in between, and
versions only go up, so all of them were on disk at that moment.  The invariant
relates `read`, `moment`, `disk` and the position of the pass.

That the verdict is exact is a theorem about `Meets`, for all contracts and all finite sets
of tasks; of the steps it needs only that a second pass confirms a first one whose ids
are unique (`Screened`).  `Sorted` puts each task where the number of tasks before it says
(`SortedIs`).  `ChainFits` shows that ranges in that order of which each starts where the
last one stopped cover every position once, `FitsChain` the converse, and `GamesOfChain`
that their counts add up to the end of the last: the sum is a recursive function, which the
chain itself gives in closed form, so it exists and has that value.  In
one direction the seeds follow from the offsets by the last test of the code; in
the other, a task's first and last positions fix its seed (`TilesMeets`).

*The service.*  An answer reaches a collector only over the connection its request
came in by.  A connection has one request under way (`OneOutstanding`) and a closed
one never comes back, because the next is named by a request that nobody has sent
yet (`UnsentIsNew`); so what arrives is the answer of the current attempt
(`InboxIsOwn`).  Its policy was read after that request was sent (`BatchIsFresh`,
`SlotIsFresh`).  For the reloads, `Reloading` says what the holder of the lock has
assigned so far, and `Fitting` that nothing of another layout was ever admitted.

*The training agent.*  Only one pod has processes (`OnePod`), and a trainer that is not
lost is either waited for by its agent or named by the token of a request that is still
claimed and in nobody's hand (`TrackInv`).  One token names one group, so no request
has two.  What makes it inductive is the order of the steps around a death: the group is
recorded before the wait and forgotten after it (`HandInv`), a request is given back only
after its orphan was killed, and its token goes last, when the request is claimed no
more.  `PodInv` adds that a token of this pod never names the serving group unless the
container was restarted, which is why the kill at startup is harmless, and `FinalInv` that a
request with a result is archived, which nothing undoes.  `OneTrackedTrainer` says
nothing of trainers that survive SIGKILL or whose wrapper alone is killed (`stray`).

*The search pool.*  For the processes, `Scopes` says for each point of the owner's
control which workers have a recorded group, which may still be forking before
it is recorded, and which an open close has reaped; descendants survive only where the
cleanup is known to be dirty.  For the statistics, `Exchanges` describes each worker by the
one conversation it can be in (`Starting`, `Batching`, `Updating`, `Hearing`, `Finishing`,
`Failing`, with the lengths of both its pipes), by what it may claim (`Honest`: its
own rows are what it did in this battle without what a faint made obsolete, and
its last export says so), and by what can be on its way to it (`Behind`: a snapshot is
an earlier statement of the master, of a floor and version not above its own).  Sums over
workers need the little theory of `Total` the module starts with: that the
function exists, is monotone and changes with one worker by that worker's change.  Three
of the properties are consequences of `Types /\ Exchanges`.  For the sizes in `TypeOK`, `Room`
keeps an account of each worker: what its pipes hold and what it may still send before it
hears of its next task is at most four, what they hold and what the owner may still tell it
at most three (`Owes`, `Tells`), through failures, a close and the reaping; `Held` says
that a batch, asked for, running or reported, is no larger than an exchange and than what
is left of the worker's quota, so the completed trajectories are at most those crossed off
(`Quotas`).

*The panels.*  A controller decides on what agents read some time ago, in several
pieces, and some of those agents still run when it decides.  What carries is that
the files of a pod never change once they are written.  `SeenInv` says that what
an agent read and what a call answered is still there, `PodInv` what is true of
a pod's worker and shards by the time its supervisor writes a terminal and its
launcher an exit, and `CtlInv` what the controller has concluded from them; the
three properties are short consequences.  The proof has one lemma per group of
actions: the pod's, the agents', the controller's.

*Self-play.*  Why does nobody overwrite what is listed?  A run trains iteration
`iter`, which is beyond its run manifest (`RunOk`, for every point of an invocation
and of a resumption), and only an iteration in the run manifest reaches the gate
(`Trained`); a copy is named by a sequence number that is beyond the registry
while its promoter is inside the lock (`NamedAt`).  `PromInv` says that whoever is
inside has read the registry as it still is, so the rewrite appends to it and loses
nothing; one lemma per step of a promoter.  `ManifestsInv` adds that a run submits
the checkpoint of its own iteration and that what a promoter recorded stays at its
place; manifests then agree with the registry because that only grows.  These three
theorems are about sites without an archiver, which rewrites the registry without
the lock.  `RunIsOneSequence` holds in all sites:
`SequencesInv` says that both manifests, and what a run remembers with the iteration in
its hands, are chained (`Chained`: number, seed, source and the seeds of benchmarks), that
the two agree but for the decision of the last iteration, and that the seeds a run
goes on with are beyond all it has recorded (`Seeds`).

`GateFindsItsMatchup` is about sites with one promoting run: between its benchmark and
its gate nothing is listed, because only that run replaces the registry (`OnlyReplaces`).
So the incumbent of the gate is the champion the benchmark chose (`GateInv`), unless the
benchmark left it out for having the candidate's own id; then the champion would be a
checkpoint of the iteration under evaluation, and `IdsInv`, by which an entry has the id
of the checkpoint it lists, contradicts `ListedIsFinal`'s argument that nothing listed is
trained again.

`ArchivedIsRecoverable` is about all sites, those with an archiver above all, where a
promotion and a rewrite can undo each other and a move can meet a copy that was made
again.  `CopyInv` claims little of the order of these steps: every copy, in place or
archived, equals a finished checkpoint of the policy id in its name, and for whatever is
listed, about to be listed or being moved, some copy of that id and some copy of that
very name are there.  Steps that move or overwrite a copy keep one of the same name, which is what
`CopyNames`, a name's two places, is for; where ids tell runs apart (`Apart`) an id tells
checkpoints apart (`OneOrigin`), so the copy that is there is of the listed checkpoint.
That the *listed name* has it needs that names and ids stay together, which a crash of
the archiver between its moves and its rewrite undoes.  If nobody dies, `OrderInv` holds:
a position keeps its id from what the archiver read to the registry, and from the registry
to what the holder of the lock is about to write (`Below`), so a job renames the entry it
was planned for.  That every job of a plan is about a listed entry is a fact about counting
the selected positions (`AscendingIn`): the first number up to which there are `k` of them
is one of them.

`TypeCorrect` takes the types of what is listed, or about to be, from `CopyInv`, because the
archiver writes names it built itself (`Archived`); `TypesInv` adds the rest, and
`SequencesInv` that seeds are numbers.

`OpponentsAreThere` relates three things that change at different times: the pool a run
remembers, the registry, and what the archiver moves on account of the registry it read
earlier.  A list of names is `Usable` when the files of its last `PoolSize + 1` are there and
every job of the archiver is about a position further back.  `PoolsInv` says that all lists
that are or may become a pool are usable: the registry, what any promoter is about to write,
what the archiver read, and the `Memory` of a run, which is its pool or what its promotion is
about to make of it.  Usability is kept because lists only grow and jobs only disappear
between two plans, and a plan is made for the registry, which is no longer than any such list.
A file that disappears is one a job is about (`FilesLost`).  It remains to count: opponents
are the last `MaxHistorical` of the pool without the current policy, which is at one position
at most (sequence numbers tell names apart), so they are among its last `MaxHistorical + 1`
(`CountBack`, with `AscendingIn`).  A run that does not promote plays only what it trained,
in files nobody removes (`PlainInv`): for it the theorem needs neither the absence of
deaths nor that it is alone.

Only model-checked: the liveness properties (fairness and `ENABLED` are beyond the
prover).  Every invariant that a passing run checks has a theorem.

## 5. Not modelled

* Contents of files: digests, schema validation, inode identities, symbolic links.
  A record is read as what its writer wrote, or raced (`ReadRaced`).
* Power loss: `fsync` is out of the code's own scope (63-65).  A crash is the death
  of a process between two calls.
* The sweep of abandoned staging directories, route records and the preflight
  probes; `_fanin_claim_manifest_is_current`'s two reads are one step.
* The legacy, non-fan-in output path.
* Rates and times: how long a lease, a batch window or a timeout lasts.
* In the service: `/health`, back-off delays, the retry loop of `fetch_remote_config`, the
  tensor codec.  A layout is compared as one value; feature masks and vocabulary are
  not compared by the code either.
* In the training agent: errors of renames and writes, `--once`, the controller's side
  of the queue; two agents on one queue.
* In the search pool: Q totals, priors, the descent of the tree, atomic-work receipts,
  partial pipe frames.
* In the panels: preflight, identity and hash checks, game counts, the parallel-seats
  mode of a standalone panel, RBAC refusals (they are calls that fail).
* In self-play: games and models; the rollout and value-selection histories that a resumed
  run trains on; the mode yardstick-gate; audits; fixed opponents; the selection mode
  spread; search-label teachers; the registry pool of a run that does not promote; an
  incumbent given as a policy id of its own in `Derived`; a job the archiver skips
  because the archived name is taken.  In promotion: `--allow-duplicate`, platforms without
  `fcntl`, two archivers, torn writes of a temporary file.
* Components marked `not_modelled` in `PROJECT.json`: the isolated policy is a pipe with one outstanding request; search,
  belief state, encoders and the GPU engine are numeric and sequential, and their
  state is far beyond what a model of useful size can hold; the bridges and live play
  adapt an external simulator, server and protocol.  They are most of the
  repository's lines.

## 6. Plan

Done, in this order: `FanInCommit`, `FanInFence` with its refinement and proofs,
`FanInFleet` and `FanInInventory` with their proofs, `InferenceService` and `TrainAgent` with their proofs,
`SearchPool` and `Panel` with their proofs, `Promotion` and `SelfPlay` with its proofs.

Next, most important first:

1. `FanInClaim`: the queue's claim, lease token, requeue and revocation as separate
   calls, composed with `FanInFence` (hazard at 895); the staging leases and their
   sweep (4703).
2. An abstract exchange (one counter per information state) that `SearchPool`
   implements.
